------------------------------ MODULE Download ------------------------------
(***************************************************************************)
(* What StaticHandler promises the client of one GET request for a file:   *)
(* the file's chunks, in order and each once, and an end of message only   *)
(* after the last of them.  Pauses, the reading thread and the queue of    *)
(* the event loop are invisible at this level.                             *)
(***************************************************************************)
EXTENDS Integers, Sequences

CONSTANT FileChunks      \* number of chunks the file is read in, a natural

VARIABLES
    status,              \* how far the answer has got: "waiting", then
                         \* "refused" or "streaming", then "complete",
                         \* "aborted" or "dropped"
    received             \* the chunks handed to the connection so far

vars == <<status, received>>

Init == /\ status = "waiting"
        /\ received = <<>>

(* The request is answered at once, without a file.                        *)
Refuse == /\ status = "waiting"
          /\ status' = "refused"
          /\ UNCHANGED received

Open == /\ status = "waiting"
        /\ status' = "streaming"
        /\ UNCHANGED received

Deliver == /\ status = "streaming"
           /\ Len(received) < FileChunks
           /\ received' = Append(received, Len(received) + 1)
           /\ UNCHANGED status

Complete == /\ status = "streaming"
            /\ Len(received) = FileChunks
            /\ status' = "complete"
            /\ UNCHANGED received

(* The file could not be read to its end.                                  *)
Abort == /\ status = "streaming"
         /\ status' = "aborted"
         /\ UNCHANGED received

(* The connection failed; what had been handed to it may be lost.          *)
Drop == /\ status \notin {"waiting", "dropped"}
        /\ status' = "dropped"
        /\ UNCHANGED received

Next == Refuse \/ Open \/ Deliver \/ Complete \/ Abort \/ Drop

Spec == Init /\ [][Next]_vars

=============================================================================
