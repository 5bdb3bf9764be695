--------------------------- MODULE StaticHandler ----------------------------
(***************************************************************************)
(* One request served by StaticHandler (src/src/StaticHandler.cpp): the    *)
(* handler object, the thread of folly's CPU executor that runs readFile,  *)
(* and the queue of lambdas readFile posts to the event-base thread of the *)
(* request.  The event-base thread runs proxygen's callbacks and the       *)
(* posted lambdas one at a time; an executor thread interleaves with it at *)
(* each statement of the readFile loop that reads or writes shared state.  *)
(*                                                                         *)
(* A chunk stands for the bytes one call of readNoInt returns.             *)
(***************************************************************************)
EXTENDS Integers, Sequences

CONSTANTS
    Workers,             \* threads of the CPU executor
    FileChunks,          \* chunks the file is read in
    MaxPauses            \* bound: how often the transport pauses egress

ASSUME FileChunksAssumption == FileChunks \in Nat
ASSUME MaxPausesAssumption == MaxPauses \in Nat

VARIABLES
    file,                \* file_ holds an open file
    pos,                 \* offset of the file descriptor, in chunks
    scheduled,           \* readFileScheduled_
    paused,              \* paused_
    finished,            \* finished_
    object,              \* life of the handler: "new", "live" or "deleted"
    jobs,                \* readFile calls waiting in the executor
    at,                  \* at[w]: where in readFile worker w is
    tasks,               \* lambdas queued on the event base, oldest first
    resp,                \* what downstream_ was told last
    egress,              \* the transport takes data ("flowing") or "blocked"
    pauses,              \* bound: pauses so far
    failed,              \* the transaction ended in onError
    wire,                \* chunks handed to a transaction that had not failed
    overrun              \* chunks read since paused_ was last set

handler == <<file, pos, scheduled, paused, finished, object>>
transport == <<resp, egress, pauses, failed, wire>>
vars == <<handler, jobs, at, tasks, transport, overrun>>

Task == [kind : {"body", "eom", "abort", "done"}, chunk : 0 .. FileChunks]
Body(n) == [kind |-> "body", chunk |-> n]
Plain(k) == [kind |-> k, chunk |-> 0]

(* The type invariant: what each field of StaticHandler, the queue and the *)
(* transaction can hold; in particular no chunk is read past the file.     *)
TypeOK ==
    /\ file \in BOOLEAN
    /\ pos \in 0 .. FileChunks
    /\ scheduled \in BOOLEAN
    /\ paused \in BOOLEAN
    /\ finished \in BOOLEAN
    /\ object \in {"new", "live", "deleted"}
    /\ jobs \in Nat
    /\ at \in [Workers -> {"idle", "test", "read", "leave"}]
    /\ tasks \in Seq(Task)
    /\ resp \in {"none", "open", "refused", "eom", "abort"}
    /\ egress \in {"flowing", "blocked"}
    /\ pauses \in 0 .. MaxPauses
    /\ failed \in BOOLEAN
    /\ wire \in Seq(1 .. FileChunks)
    /\ overrun \in Nat

Init ==
    /\ file = FALSE /\ pos = 0
    /\ scheduled = FALSE /\ paused = FALSE /\ finished = FALSE
    /\ object = "new"
    /\ jobs = 0 /\ at = [w \in Workers |-> "idle"] /\ tasks = <<>>
    /\ resp = "none" /\ egress = "flowing" /\ pauses = 0 /\ failed = FALSE
    /\ wire = <<>> /\ overrun = 0

-----------------------------------------------------------------------------
(* Helpers of the event-base thread.                                       *)

(* executor->add(bind(&StaticHandler::readFile, this, evb))                *)
Schedule == scheduled' = TRUE /\ jobs' = jobs + 1

(* Mutant: a second readFile is scheduled while one is under way.          *)
ResumeTwice(sched) ==
    /\ paused' = FALSE
    /\ IF file THEN Schedule ELSE scheduled' = sched /\ jobs' = jobs

(* onEgressResumed: "If readFileScheduled_, it will reschedule itself".    *)
Resume(sched) ==
    /\ paused' = FALSE
    /\ IF ~sched /\ file THEN Schedule
                         ELSE scheduled' = sched /\ jobs' = jobs

(* Mutant: delete without waiting for the end of readFile.                 *)
DeleteEarly(fin, sched) == object' = IF fin THEN "deleted" ELSE object

(* checkForCompletion: the object goes when nothing refers to it any more. *)
CheckForCompletion(fin, sched) ==
    object' = IF fin /\ ~sched THEN "deleted" ELSE object

-----------------------------------------------------------------------------
(* onRequest.                                                              *)

(* Every early return: a method other than GET, a path that is not handled *)
(* or a file that cannot be opened gets a whole answer at once.            *)
OnRequestRefused ==
    /\ object = "new"
    /\ object' = "live"
    /\ resp' = "refused"
    /\ UNCHANGED <<file, pos, scheduled, paused, finished, jobs, at, tasks,
                   egress, pauses, failed, wire, overrun>>

(* The file is open: send the headers, then have an executor thread read.  *)
OnRequestServed ==
    /\ object = "new"
    /\ object' = "live"
    /\ file' = TRUE /\ resp' = "open"
    /\ Schedule
    /\ UNCHANGED <<pos, paused, finished, at, tasks, egress, pauses, failed,
                   wire, overrun>>

-----------------------------------------------------------------------------
(* readFile, on an executor thread.                                        *)

StartJob(w) ==
    /\ at[w] = "idle" /\ jobs > 0
    /\ jobs' = jobs - 1
    /\ at' = [at EXCEPT ![w] = "test"]
    /\ UNCHANGED <<handler, tasks, transport, overrun>>

(* Mutant: the loop does not look at paused_.                              *)
TestFileOnly(w) ==
    /\ at[w] = "test"
    /\ at' = [at EXCEPT ![w] = IF file THEN "read" ELSE "leave"]
    /\ UNCHANGED <<handler, jobs, tasks, transport, overrun>>

(* while (file_ && !paused_)                                               *)
TestLoop(w) ==
    /\ at[w] = "test"
    /\ at' = [at EXCEPT ![w] = IF file /\ ~paused THEN "read" ELSE "leave"]
    /\ UNCHANGED <<handler, jobs, tasks, transport, overrun>>

(* Mutant: one read too many before the end of the file is noticed.        *)
ReadPastEnd(w) ==
    /\ at[w] = "read" /\ pos <= FileChunks
    /\ pos' = pos + 1
    /\ tasks' = Append(tasks, Body(pos + 1))
    /\ at' = [at EXCEPT ![w] = "test"]
    /\ UNCHANGED <<file, scheduled, paused, finished, object, jobs, transport,
                   overrun>>

ReadChunk(w) ==
    /\ at[w] = "read" /\ pos < FileChunks
    /\ pos' = pos + 1
    /\ tasks' = Append(tasks, Body(pos + 1))
    /\ at' = [at EXCEPT ![w] = "test"]
    /\ overrun' = IF paused THEN overrun + 1 ELSE overrun
    /\ UNCHANGED <<file, scheduled, paused, finished, object, jobs, transport>>

(* Mutant: file_ stays open after the end of the answer was posted.        *)
StopWithoutClosing(w, kind) ==
    /\ at[w] = "read"
    /\ tasks' = Append(tasks, Plain(kind))
    /\ at' = [at EXCEPT ![w] = "leave"]
    /\ UNCHANGED <<handler, jobs, transport, overrun>>

(* End of file and read error both close the file, post the end of the     *)
(* answer and break out of the loop.                                       *)
StopReading(w, kind) ==
    /\ at[w] = "read"
    /\ file' = FALSE
    /\ tasks' = Append(tasks, Plain(kind))
    /\ at' = [at EXCEPT ![w] = "leave"]
    /\ UNCHANGED <<pos, scheduled, paused, finished, object, jobs, transport,
                   overrun>>

ReadEof(w) == pos = FileChunks /\ StopReading(w, "eom")

(* Mutant: a read error is taken for the end of the file.                  *)
ErrorIsEof(w) == StopReading(w, "eom")

ReadError(w) == StopReading(w, "abort")

(* "Notify the request thread that we terminated the readFile loop"        *)
LeaveLoop(w) ==
    /\ at[w] = "leave"
    /\ tasks' = Append(tasks, Plain("done"))
    /\ at' = [at EXCEPT ![w] = "idle"]
    /\ UNCHANGED <<handler, jobs, transport, overrun>>

-----------------------------------------------------------------------------
(* The posted lambdas, on the event-base thread in the order posted.       *)

NextTask(kind) == /\ tasks # <<>> /\ Head(tasks).kind = kind
                  /\ tasks' = Tail(tasks)

RunBody ==
    /\ NextTask("body")
    /\ wire' = IF failed THEN wire ELSE Append(wire, Head(tasks).chunk)
    /\ UNCHANGED <<handler, jobs, at, resp, egress, pauses, failed, overrun>>

RunEom ==
    /\ NextTask("eom")
    /\ resp' = "eom"
    /\ UNCHANGED <<handler, jobs, at, egress, pauses, failed, wire, overrun>>

RunAbort ==
    /\ NextTask("abort")
    /\ resp' = "abort"
    /\ UNCHANGED <<handler, jobs, at, egress, pauses, failed, wire, overrun>>

(* Mutant: a resumption that came during the loop is forgotten.            *)
DoneNeverResumes ==
    /\ NextTask("done")
    /\ CheckForCompletion(finished, FALSE)
    /\ scheduled' = FALSE
    /\ UNCHANGED <<file, pos, paused, finished, jobs, at, transport, overrun>>

(* Mutant: only requestComplete and onError look for the end of the object. *)
DoneNeverDeletes ==
    /\ NextTask("done")
    /\ IF finished \/ paused
       THEN scheduled' = FALSE /\ UNCHANGED <<paused, jobs>>
       ELSE Resume(FALSE)
    /\ UNCHANGED <<file, pos, finished, object, at, transport, overrun>>

(* The loop has ended: delete the object if the request is over, else read *)
(* on unless the transport is still paused.                                *)
RunDone ==
    /\ NextTask("done")
    /\ CheckForCompletion(finished, FALSE)
    /\ IF finished \/ paused
       THEN scheduled' = FALSE /\ UNCHANGED <<paused, jobs>>
       ELSE Resume(FALSE)
    /\ UNCHANGED <<file, pos, finished, at, transport, overrun>>

-----------------------------------------------------------------------------
(* proxygen's callbacks, on the event-base thread.                         *)

OnEgressPaused ==
    /\ object = "live" /\ ~finished
    /\ resp # "abort" /\ egress = "flowing" /\ pauses < MaxPauses
    /\ egress' = "blocked" /\ pauses' = pauses + 1
    /\ paused' = TRUE /\ overrun' = 0
    /\ UNCHANGED <<file, pos, scheduled, finished, object, jobs, at, tasks,
                   resp, failed, wire>>

OnEgressResumed ==
    /\ object = "live" /\ ~finished
    /\ egress = "blocked" /\ egress' = "flowing"
    /\ Resume(scheduled)
    /\ UNCHANGED <<file, pos, finished, object, at, tasks, resp, pauses,
                   failed, wire, overrun>>

(* The common body of requestComplete and onError.                         *)
Finish ==
    /\ object = "live" /\ ~finished
    /\ finished' = TRUE /\ paused' = TRUE /\ overrun' = 0
    /\ CheckForCompletion(TRUE, scheduled)
    /\ UNCHANGED <<file, pos, scheduled, jobs, at, tasks, resp, egress,
                   pauses, wire>>

(* The whole answer left the machine, or the handler aborted it.           *)
RequestComplete ==
    /\ resp \in {"refused", "eom", "abort"} /\ egress = "flowing"
    /\ Finish
    /\ UNCHANGED failed

(* The connection was lost or timed out: possible at any time.             *)
OnError ==
    /\ Finish
    /\ failed' = TRUE

(* Nothing is left to do once the object is gone.                          *)
Gone == object = "deleted" /\ UNCHANGED vars

-----------------------------------------------------------------------------
OnRequest == OnRequestRefused \/ OnRequestServed

ReadFile(w) == \/ StartJob(w) \/ TestLoop(w) \/ ReadChunk(w)
               \/ ReadEof(w) \/ ReadError(w) \/ LeaveLoop(w)

RunTask == RunBody \/ RunEom \/ RunAbort \/ RunDone

Callback == OnEgressPaused \/ OnEgressResumed \/ RequestComplete \/ OnError

Next == \/ OnRequest
        \/ \E w \in Workers : ReadFile(w)
        \/ RunTask
        \/ Callback
        \/ Gone

(* A server with idleTimeout set (main.cpp) drops a client that takes no   *)
(* data: a pause ends with onEgressResumed or with onError.                *)
EndOfPause == OnEgressResumed \/ (egress = "blocked" /\ OnError)

Fairness ==
    /\ \A w \in Workers : WF_vars(ReadFile(w))
    /\ WF_vars(RunTask)
    /\ WF_vars(EndOfPause)
    /\ WF_vars(RequestComplete)

Spec == Init /\ [][Next]_vars

FairSpec == Spec /\ Fairness

-----------------------------------------------------------------------------
(* Properties.                                                             *)

Busy(w) == at[w] # "idle"

Queued(kind) == \E i \in 1 .. Len(tasks) : tasks[i].kind = kind

(* file_ and readFileScheduled_ are ordinary fields, so readFile must never *)
(* run twice at once, and while the event-base thread looks at file_ (that *)
(* is, while readFileScheduled_ is false) no readFile may be waiting,      *)
(* running or still have lambdas queued.                                   *)
OneReader ==
    /\ jobs <= 1
    /\ \A v, w \in Workers : Busy(v) /\ Busy(w) => v = w
    /\ jobs = 1 => \A w \in Workers : ~Busy(w)
    /\ ~scheduled => /\ jobs = 0
                     /\ \A w \in Workers : ~Busy(w)
                     /\ tasks = <<>>

(* Every readFile call and every posted lambda holds a raw `this`: none is *)
(* left when checkForCompletion deletes the handler, whatever the order of *)
(* requestComplete, onError and the end of the loop.                       *)
NoUseAfterDelete ==
    object = "deleted" => /\ jobs = 0
                          /\ \A w \in Workers : ~Busy(w)
                          /\ tasks = <<>>

(* When a request ends without an error, no lambda that would still send   *)
(* through downstream_ is queued and none will be: the file is closed.     *)
QuietAfterCompletion ==
    finished /\ ~failed => /\ ~Queued("body") /\ ~Queued("eom")
                           /\ ~Queued("abort")
                           /\ ~file

(* onEgressPaused: "This will terminate readFile soon".  After paused_ is  *)
(* set at most one more chunk is read, the one whose test had passed.      *)
PauseStopsReading == paused => overrun <= 1

(* What the client sees is a Download: chunks in order, each once, the end *)
(* of message only after the last one, across pauses and resumptions.      *)
Answer == IF failed THEN "dropped"
          ELSE CASE resp = "none" -> "waiting"
                 [] resp = "open" -> "streaming"
                 [] resp = "eom" -> "complete"
                 [] resp = "abort" -> "aborted"
                 [] resp = "refused" -> "refused"

D == INSTANCE Download WITH status <- Answer, received <- wire

IsDownload == D!Spec

(* No resumption is lost: without relying on a timeout, an answer that was *)
(* begun is ended, unless the connection fails.                            *)
Delivered == resp = "open" ~> (resp \in {"eom", "abort"} \/ failed)

(* The object is eventually deleted after the request is over: a handler   *)
(* is never leaked by a reader that ends after the request.                *)
Freed == finished ~> object = "deleted"

=============================================================================
