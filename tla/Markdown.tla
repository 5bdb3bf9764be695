------------------------------ MODULE Markdown ------------------------------
(***************************************************************************)
(* A Markdown document as its readers see it: cmark's iterator, which      *)
(* enters and leaves the nodes of the document's tree, one event at a      *)
(* time.  cmark is external: the model produces every tree that CommonMark *)
(* allows, within the bounds.  A node of a kind in Leaves has no event for *)
(* leaving it.                                                             *)
(***************************************************************************)
EXTENDS Naturals, Sequences, SequencesExt

CONSTANTS
    Kinds,               \* the kinds of nodes documents are made of
    MaxDepth,            \* bound: nodes open at a time
    MaxEvents,           \* bound: events up to the last one entered
    MaxText              \* bound: bytes of one text

Inlines == {"text", "softbreak", "code", "emph", "strong", "link", "image"}
Blocks == {"heading", "paragraph", "list", "quote", "code_block", "break"}
Leaves == {"text", "softbreak", "code", "code_block", "break"}

ASSUME MarkdownAssumption == /\ Kinds \subseteq Inlines \cup Blocks
                             /\ MaxDepth \in Nat /\ MaxEvents \in Nat
                             /\ MaxText \in Nat

Done == [type |-> "DONE"]

AllKinds == Kinds \cup {"document", "item"}

(* What may stand in a node of kind k.                                     *)
ChildrenOf(k) ==
    CASE k \in {"document", "item", "quote"} -> Blocks \cap Kinds
      [] k = "list" -> {"item"}
      [] k \in {"heading", "paragraph", "emph", "strong", "image"} ->
             Inlines \cap Kinds
      [] k = "link" -> (Inlines \cap Kinds) \ {"link"}
      [] OTHER -> {}

(* Kinds that are never without a child.                                   *)
NeverEmpty == {"paragraph", "list", "emph", "strong"}

VARIABLES
    open,                \* kinds of the nodes entered and not left
    trace                \* the events so far

document == <<open, trace>>

(* size counts the bytes of the node's literal, for text.                  *)
Event == [type : {"ENTER", "EXIT"}, kind : AllKinds, size : 0..MaxText]
         \cup {Done}

DocumentTypeOK == /\ open \in Seq(AllKinds) /\ Len(open) <= MaxDepth
                  /\ trace \in Seq(Event)

DocumentInit == open = <<>> /\ trace = <<>>

Enter(e) ==
    /\ e.type = "ENTER"
    /\ IF trace = <<>> THEN e.kind = "document"
       ELSE /\ open # <<>> /\ e.kind \in ChildrenOf(Last(open))
            /\ Len(trace) < MaxEvents
    /\ e.kind = "link" => "link" \notin Range(open)
    /\ e.size > 0 <=> e.kind = "text"
    /\ IF e.kind \in Leaves THEN open' = open
       ELSE Len(open) < MaxDepth /\ open' = Append(open, e.kind)

Exit(e) ==
    /\ e.type = "EXIT" /\ e.size = 0
    /\ open # <<>> /\ e.kind = Last(open)
    /\ e.kind \in NeverEmpty => Last(trace).type # "ENTER"
                                 \/ Last(trace).kind # e.kind
    /\ open' = Front(open)

(* After the document was left cmark_iter_next returns DONE, each time.    *)
Finish(e) == /\ e = Done
             /\ open = <<>> /\ trace # <<>>
             /\ UNCHANGED open

NextEvent(e) == /\ Enter(e) \/ Exit(e) \/ Finish(e)
                /\ trace' = Append(trace, e)

=============================================================================
