------------------------------- MODULE Render -------------------------------
(***************************************************************************)
(* PrimaryHandler::renderArticle, which turns a document's events into the *)
(* HTML of a page, chunk by chunk.  Chunks gather in the local string      *)
(* body; when its capacity is used up, body is handed to prependResponse,  *)
(* which (despite its name) puts it after what handlerResponse holds.      *)
(***************************************************************************)
EXTENDS Markdown

VARIABLES
    inItem,
    body,                \* the local string, as a sequence of tokens
    response             \* handlerResponse, likewise

renderVars == <<document, inItem, body, response>>

(* A tag, or the text of a node without children; node is the event that   *)
(* entered or left it.                                                     *)
Token == [form : {"tag", "end", "text"}, kind : AllKinds,
          node : 1..Len(trace)]

RenderTypeOK == /\ DocumentTypeOK
                /\ inItem \in BOOLEAN
                /\ body \in Seq(Token) /\ response \in Seq(Token)

RenderInit == /\ DocumentInit
              /\ inItem = FALSE
              /\ body = <<>> /\ response = <<>>

-----------------------------------------------------------------------------

(* Kinds nothing is written for: "Ignoring node".                          *)
Silent == {"document", "break"}

(* Mutant: the node is written as it is.                                   *)
WrittenRaw(form, e) == <<e>>

Written(form, e) ==
    IF e.kind \in Silent THEN <<>>
    ELSE <<[form |-> form, kind |-> e.kind, node |-> Len(trace) + 1]>>

OpenTag(e) == IF e.kind = "paragraph" /\ inItem THEN <<>>
              ELSE Written(IF e.kind \in Leaves THEN "text" ELSE "tag", e)

(* Mutant: whether a paragraph is in an item is only asked on entry.       *)
CloseAlways(e) == Written("end", e)

CloseTag(e) == IF e.kind = "paragraph" /\ inItem THEN <<>>
               ELSE Written("end", e)

Chunk(e) == CASE e = Done -> <<>>
              [] e.type = "ENTER" -> OpenTag(e)
              [] e.type = "EXIT" -> CloseTag(e)

(* Mutant: the name taken at its word.                                     *)
ReallyPrepended(data) == data \o response

(* prependResponse                                                         *)
Prepended(data) == response \o data

(* The capacity of body is short of the chunk's size, whatever it is.      *)
Flush(chunk) == response' = Prepended(body) /\ body' = chunk

Gather(chunk) == body' = body \o chunk /\ UNCHANGED response

RenderEvent(e) ==
    /\ e # Done
    /\ NextEvent(e)
    /\ inItem' = IF e.kind = "item" THEN e.type = "ENTER" ELSE inItem
    /\ \/ Chunk(e) # <<>> /\ Flush(Chunk(e))
       \/ Gather(Chunk(e))

EndRender == /\ trace # <<>> /\ Last(trace) # Done
             /\ NextEvent(Done)
             /\ response' = Prepended(body) /\ body' = <<>>
             /\ UNCHANGED inItem

RenderNext == (\E e \in Event : RenderEvent(e)) \/ EndRender

RenderSpec == RenderInit /\ [][RenderNext]_renderVars

-----------------------------------------------------------------------------
(* Properties.                                                             *)

page == response \o body

(* The texts of a page are those of the document, each once, and the page  *)
(* is written in the document's order, wherever the buffers were handed    *)
(* over.                                                                   *)
TextsInOrder ==
    /\ {page[t].node : t \in {u \in DOMAIN page : page[u].form = "text"}} =
           {i \in DOMAIN trace : /\ trace[i].type = "ENTER"
                                 /\ trace[i].kind \in Leaves \ Silent}
    /\ \A t, u \in DOMAIN page : t < u => page[t].node < page[u].node

(* The elements open after a token of a page, outermost first; or Broken,  *)
(* when a tag was closed that was not the innermost.                       *)
Broken == <<"broken">>

After(stack, t) ==
    CASE stack = Broken -> Broken
      [] stack # Broken /\ t.form = "text" -> stack
      [] stack # Broken /\ t.form = "tag" -> Append(stack, t.kind)
      [] stack # Broken /\ t.form = "end" ->
             IF stack # <<>> /\ Last(stack) = t.kind THEN Front(stack)
                                                     ELSE Broken

(* The same after each of the first tokens.                                *)
Stacks(tokens) ==
    LET after[i \in 0..Len(tokens)] ==
            IF i = 0 THEN <<>> ELSE After(after[i - 1], tokens[i])
    IN  after

Elements(tokens) == Stacks(tokens)[Len(tokens)]

(* The tags of a page are closed in the opposite order of their opening,   *)
(* whatever lists, items and paragraphs are in one another: the elements   *)
(* open are the nodes open below the document, save perhaps a paragraph.   *)
TagsNested ==
    LET nodes == IF open = <<>> THEN <<>> ELSE Tail(open)
    IN  \/ Elements(page) = nodes
        \/ \E i \in DOMAIN nodes : /\ nodes[i] = "paragraph"
                                   /\ Elements(page) = RemoveAt(nodes, i)

=============================================================================
