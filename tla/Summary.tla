------------------------------ MODULE Summary -------------------------------
(***************************************************************************)
(* SummaryBuilder::build, which reads a document once and takes from it    *)
(* the title and the preview that are stored with it (articles.title and   *)
(* .summary).  The loops of build, buildTitle and buildPreview share the   *)
(* iterator: phase tells which of them reads the next event.               *)
(***************************************************************************)
EXTENDS Markdown

CONSTANTS
    Limit                \* 256: bytes of a preview

ASSUME SummaryAssumption == Limit \in Nat \ {0}

VARIABLES
    phase,               \* who reads next, or how build ended
    title, preview       \* of what bytes: <<event of the text, byte in it>>

summaryVars == <<document, phase, title, preview>>

Reading == {"skip", "first", "title", "seek", "preview"}

Bytes == (1..Len(trace)) \X (1..MaxText)

(* The type invariant: in particular the preview is one that fits.         *)
SummaryTypeOK == /\ DocumentTypeOK
                 /\ phase \in Reading \cup {"accepted", "refused"}
                 /\ title \in Seq(Bytes) /\ preview \in Seq(Bytes)
                 /\ phase = "accepted" => Len(preview) <= Limit

SummaryInit == /\ DocumentInit
               /\ phase = "skip"
               /\ title = <<>> /\ preview = <<>>

-----------------------------------------------------------------------------

(* The literal of the text that event i enters.                            *)
Literal(i, size) == [b \in 1..size |-> <<i, b>>]

Enters(e, k) == e.type = "ENTER" /\ e.kind = k
Quits(e, k) == e.type = "EXIT" /\ e.kind = k

Appended(string, e) ==
    IF Enters(e, "text") THEN string \o Literal(Len(trace) + 1, e.size) ELSE string

(* The document's own event.                                               *)
SkipDocument == /\ phase = "skip" /\ phase' = "first"
                /\ UNCHANGED <<title, preview>>

ExpectHeading(e) ==
    /\ phase = "first"
    /\ phase' = IF e.type # "ENTER" THEN "seek"
                ELSE IF e.kind = "heading" THEN "title" ELSE "refused"
    /\ UNCHANGED <<title, preview>>

(* Mutant: every node that is left ends the title.                         *)
EndsAnyhow(e) == e.type = "EXIT" \/ e = Done

EndsTitle(e) == Quits(e, "heading") \/ e = Done

BuildTitle(e) ==
    /\ phase = "title"
    /\ title' = Appended(title, e)
    /\ phase' = IF ~EndsTitle(e) THEN "title"
                ELSE IF title' = <<>> THEN "refused" ELSE "seek"
    /\ UNCHANGED preview

Seek(e) ==
    /\ phase = "seek"
    /\ phase' = IF e = Done THEN "accepted"
                ELSE IF Enters(e, "paragraph") THEN "preview" ELSE "seek"
    /\ UNCHANGED <<title, preview>>

(* Mutant: the size is only looked at in the loop's test.                  *)
Uncut(string) == string

Cut(string) == SubSeq(string, 1, IF Len(string) < Limit THEN Len(string)
                                                        ELSE Limit)

(* Mutant: one text is enough.                                             *)
StopsEarly(e) == e = Done \/ Len(preview) > 0

StopsPreview(e) == e = Done \/ Len(preview) >= Limit

BuildPreview(e) ==
    LET stops == StopsPreview(e)
        text == IF stops THEN preview ELSE Appended(preview, e)
    IN  /\ phase = "preview"
        /\ IF stops \/ Quits(e, "paragraph")
           THEN /\ preview' = Cut(text)
                /\ phase' = IF text = <<>> THEN "refused" ELSE "accepted"
           ELSE preview' = text /\ UNCHANGED phase
        /\ UNCHANGED title

Read(e) ==
    /\ phase \in Reading
    /\ NextEvent(e)
    /\ \/ SkipDocument \/ ExpectHeading(e) \/ BuildTitle(e)
       \/ Seek(e) \/ BuildPreview(e)

SummaryNext == \E e \in Event : Read(e)

SummarySpec == SummaryInit /\ [][SummaryNext]_summaryVars

-----------------------------------------------------------------------------
(* Properties, against what the document says of itself: trace.            *)

(* The events from i to the next one that leaves a node of kind k.         *)
Through(events, i, k) ==
    {j \in i..Len(events) : \A l \in i..(j - 1) : ~Quits(events[l], k)}

(* The text of some of the events, in order.                               *)
TextOf(events, some) ==
    LET upTo[n \in 0..Len(events)] ==
            IF n = 0 THEN <<>>
            ELSE IF n \in some /\ Enters(events[n], "text")
                 THEN upTo[n - 1] \o Literal(n, events[n].size)
                 ELSE upTo[n - 1]
    IN  upTo[Len(events)]

(* "Heading missing from posted article": a document that has blocks and   *)
(* is accepted begins with a heading, and the title is all its text, which *)
(* is not blank.                                                           *)
TitleIsHeading ==
    phase = "accepted" /\ trace[2].type = "ENTER" =>
        /\ Enters(trace[2], "heading")
        /\ title # <<>> /\ title = TextOf(trace, Through(trace, 2, "heading"))

Paragraphs == {i \in DOMAIN trace : Enters(trace[i], "paragraph")}

(* The preview of a document with a paragraph is the beginning of the text *)
(* of the first, wherever in the document it is: all of it if it is short  *)
(* enough, and never blank.                                                *)
PreviewIsParagraph ==
    phase = "accepted" =>
        \A first \in Paragraphs :
            (\A i \in Paragraphs : first <= i) =>
                /\ preview # <<>>
                /\ preview =
                       Cut(TextOf(trace, Through(trace, first, "paragraph")))

=============================================================================
