------------------------ MODULE StaticHandlerProofs -------------------------
(***************************************************************************)
(* Proofs about StaticHandler for any pool of executor threads, any file   *)
(* and any number of pauses.  IInv strengthens the properties into an      *)
(* inductive invariant; its parts are named for what they describe.        *)
(*                                                                         *)
(* The second part is about Paths: what parsePath makes of any path, and   *)
(* that parsePath and libpq undo urlEncode, whatever is encoded.           *)
(***************************************************************************)
EXTENDS StaticHandler, Paths, SequenceTheorems, Recursion, TLAPS

(* Where the one readFile is: waiting, on a thread, or represented by its  *)
(* final lambda.  readFileScheduled_ is true in each of these cases.       *)
Reader ==
    /\ jobs \in {0, 1}
    /\ jobs = 1 => scheduled /\ file /\ tasks = <<>>
    /\ \A v, w \in Workers : Busy(v) /\ Busy(w) => v = w
    /\ \A w \in Workers : Busy(w) => scheduled /\ jobs = 0
    /\ \A w \in Workers : at[w] \in {"test", "read"} => file
    /\ ~scheduled => tasks = <<>>

(* The life of the object and of the request agree.                        *)
Lifetime ==
    /\ object = "deleted" => finished /\ ~scheduled
    /\ object = "new" <=> resp = "none"
    /\ object = "new" => /\ ~scheduled /\ ~finished /\ ~file
                         /\ pos = 0 /\ wire = <<>>
    /\ finished => paused
    /\ failed => finished
    /\ finished /\ ~failed => resp \in {"refused", "eom", "abort"}

(* Lambdas are queued as chunks, then at most one end of the answer, then  *)
(* at most one notice that the loop has ended.                             *)
Order ==
    /\ \A i, j \in 1 .. Len(tasks) :
          i < j => tasks[i].kind # "done" /\
                   (tasks[i].kind # "body" => tasks[j].kind = "done")
    /\ Queued("done") => jobs = 0 /\ \A w \in Workers : ~Busy(w)
    /\ Queued("eom") \/ Queued("abort") => ~file
    /\ resp \in {"refused", "eom", "abort"} =>
          ~file /\ \A i \in 1 .. Len(tasks) : tasks[i].kind = "done"

(* Only the read whose test had passed is left after paused_ is set.       *)
Overrun ==
    paused => /\ overrun <= 1
              /\ overrun = 1 => \A w \in Workers : at[w] # "read"

EndsWithDone == tasks # <<>> /\ tasks[Len(tasks)].kind = "done"

(* The chunks handed over, those queued and those still in the file follow *)
(* each other without a gap.                                               *)
Chunks ==
    /\ \A i \in 1 .. Len(wire) : wire[i] = i
    /\ ~failed =>
          /\ \A i \in 1 .. Len(tasks) :
                tasks[i].kind = "body" => tasks[i].chunk = Len(wire) + i
          /\ \A i \in 1 .. Len(tasks) :
                tasks[i].kind = "eom" => Len(wire) + i - 1 = FileChunks
          /\ file => pos = Len(wire) + (IF EndsWithDone THEN Len(tasks) - 1
                                                        ELSE Len(tasks))

IInv == TypeOK /\ Reader /\ Lifetime /\ Order /\ Overrun /\ Chunks

-----------------------------------------------------------------------------

(* What running a lambda leaves in the queue.                              *)
LEMMA TailFacts ==
    ASSUME NEW s \in Seq(Task), s # <<>>
    PROVE  /\ Len(s) \in Nat /\ Len(s) > 0
           /\ Head(s) = s[1] /\ Head(s) \in Task
           /\ Tail(s) \in Seq(Task)
           /\ Len(Tail(s)) = Len(s) - 1
           /\ \A i \in 1 .. Len(Tail(s)) : Tail(s)[i] = s[i + 1]
  OBVIOUS

(* What posting a lambda adds to the queue.                                *)
LEMMA AppendFacts ==
    ASSUME NEW s \in Seq(Task), NEW t \in Task
    PROVE  /\ Append(s, t) \in Seq(Task)
           /\ Append(s, t) # <<>>
           /\ Len(Append(s, t)) = Len(s) + 1
           /\ \A i \in 1 .. Len(s) : Append(s, t)[i] = s[i]
           /\ Append(s, t)[Len(s) + 1] = t
  OBVIOUS

LEMMA TasksAreTasks ==
    /\ \A n \in 1 .. FileChunks : Body(n) \in Task
    /\ \A k \in {"eom", "abort", "done"} : Plain(k) \in Task
  BY FileChunksAssumption DEF Body, Plain, Task

LEMMA TaskFields ==
    ASSUME NEW s \in Seq(Task), NEW i \in 1 .. Len(s)
    PROVE  /\ s[i].kind \in {"body", "eom", "abort", "done"}
           /\ s[i].chunk \in 0 .. FileChunks
<1>1. s[i] \in Task
  OBVIOUS
<1> QED BY <1>1 DEF Task

LEMMA InitIInv == Init => IInv
<1> SUFFICES ASSUME Init PROVE IInv
  OBVIOUS
<1>1. TypeOK
  <2>1. at \in [Workers -> {"idle", "test", "read", "leave"}]
    BY DEF Init
  <2>2. tasks \in Seq(Task) /\ wire \in Seq(1 .. FileChunks)
    BY DEF Init
  <2>3. pauses \in 0 .. MaxPauses /\ pos \in 0 .. FileChunks
    BY MaxPausesAssumption, FileChunksAssumption DEF Init
  <2> QED BY <2>1, <2>2, <2>3 DEF Init, TypeOK
<1>2. Reader
  BY DEF Init, Reader, Busy
<1>3. Lifetime
  BY DEF Init, Lifetime
<1>4. Order
  BY DEF Init, Order, Queued
<1>5. Overrun
  BY DEF Init, Overrun
<1>6. Chunks
  BY DEF Init, Chunks, EndsWithDone
<1> QED BY <1>1, <1>2, <1>3, <1>4, <1>5, <1>6 DEF IInv

LEMMA OnRequestRefusedStep ==
    ASSUME IInv, OnRequestRefused
    PROVE  IInv'
<1>1. TypeOK'
  BY DEF IInv, TypeOK, OnRequestRefused
<1>2. Reader'
  BY DEF IInv, TypeOK, Reader, Busy, OnRequestRefused
<1>3. Lifetime'
  BY DEF IInv, TypeOK, Lifetime, OnRequestRefused
<1>4. Order'
  BY DEF IInv, TypeOK, Reader, Busy, Lifetime, Order, Queued, OnRequestRefused
<1>5. Overrun'
  BY DEF IInv, TypeOK, Overrun, OnRequestRefused
<1>6. Chunks'
  BY DEF IInv, TypeOK, Chunks, EndsWithDone, OnRequestRefused
<1> QED BY <1>1, <1>2, <1>3, <1>4, <1>5, <1>6 DEF IInv

LEMMA OnRequestServedStep ==
    ASSUME IInv, OnRequestServed
    PROVE  IInv'
<1>1. TypeOK'
  BY DEF IInv, TypeOK, OnRequestServed, Schedule
<1>2. Reader'
  BY DEF IInv, TypeOK, Reader, Busy, Lifetime, OnRequestServed, Schedule
<1>3. Lifetime'
  BY DEF IInv, TypeOK, Lifetime, OnRequestServed, Schedule
<1>4. Order'
  BY DEF IInv, TypeOK, Reader, Busy, Lifetime, Order, Queued,
      OnRequestServed, Schedule
<1>5. Overrun'
  BY DEF IInv, TypeOK, Overrun, OnRequestServed, Schedule
<1>6. Chunks'
  BY DEF IInv, TypeOK, Reader, Busy, Order, Queued, Lifetime, Chunks,
      EndsWithDone, OnRequestServed, Schedule
<1> QED BY <1>1, <1>2, <1>3, <1>4, <1>5, <1>6 DEF IInv

LEMMA StartJobStep ==
    ASSUME IInv, NEW w \in Workers, StartJob(w)
    PROVE  IInv'
<1>1. TypeOK'
  BY DEF IInv, TypeOK, StartJob, handler, transport
<1>2. Reader'
  BY DEF IInv, TypeOK, Reader, Busy, StartJob, handler, transport
<1>3. Lifetime'
  BY DEF IInv, TypeOK, Lifetime, StartJob, handler, transport
<1>4. Order'
  BY DEF IInv, TypeOK, Order, Queued, StartJob, handler, transport
<1>5. Overrun'
  BY DEF IInv, TypeOK, Overrun, StartJob, handler, transport
<1>6. Chunks'
  BY DEF IInv, TypeOK, Chunks, EndsWithDone, StartJob, handler, transport
<1> QED BY <1>1, <1>2, <1>3, <1>4, <1>5, <1>6 DEF IInv

LEMMA TestLoopStep ==
    ASSUME IInv, NEW w \in Workers, TestLoop(w)
    PROVE  IInv'
<1>1. TypeOK'
  BY DEF IInv, TypeOK, TestLoop, handler, transport
<1>2. Reader'
  BY DEF IInv, TypeOK, Reader, Busy, TestLoop, handler, transport
<1>3. Lifetime'
  BY DEF IInv, TypeOK, Lifetime, TestLoop, handler, transport
<1>4. Order'
  BY DEF IInv, TypeOK, Reader, Busy, Order, Queued, TestLoop, handler,
      transport
<1>5. Overrun'
  BY DEF IInv, TypeOK, Overrun, TestLoop, handler, transport
<1>6. Chunks'
  BY DEF IInv, TypeOK, Chunks, EndsWithDone, TestLoop, handler, transport
<1> QED BY <1>1, <1>2, <1>3, <1>4, <1>5, <1>6 DEF IInv

LEMMA ReadChunkStep ==
    ASSUME IInv, NEW w \in Workers, ReadChunk(w)
    PROVE  IInv'
<1>a. Body(pos + 1) \in Task
  BY TasksAreTasks, FileChunksAssumption DEF IInv, TypeOK, ReadChunk
<1>b. /\ tasks \in Seq(Task) /\ tasks' \in Seq(Task)
      /\ Len(tasks) \in Nat /\ Len(tasks') = Len(tasks) + 1
      /\ \A i \in 1 .. Len(tasks) : tasks'[i] = tasks[i]
      /\ tasks'[Len(tasks) + 1] = Body(pos + 1)
  BY <1>a, AppendFacts DEF IInv, TypeOK, ReadChunk
<1>1. TypeOK'
  BY <1>b, FileChunksAssumption DEF IInv, TypeOK, ReadChunk, transport, Body
<1>2. Reader'
  BY <1>b DEF IInv, TypeOK, Reader, Busy, ReadChunk, transport, Body
<1>3. Lifetime'
  BY <1>b DEF IInv, TypeOK, Reader, Busy, Lifetime, ReadChunk, transport, Body
<1>4. Order'
  <2>1. \A i \in 1 .. Len(tasks) : tasks[i].kind = "body"
    <3>1. \A i \in 1 .. Len(tasks) :
             tasks[i].kind \in {"body", "eom", "abort", "done"}
      BY <1>b, TaskFields
    <3>2. file /\ Busy(w)
      BY DEF IInv, Reader, Busy, ReadChunk
    <3>3. ~Queued("done") /\ ~Queued("eom") /\ ~Queued("abort")
      BY <3>2 DEF IInv, Order
    <3> QED BY <3>1, <3>3 DEF Queued
  <2>2. tasks'[Len(tasks')].kind = "body"
    BY <1>b DEF Body
  <2>3. \A i \in 1 .. Len(tasks') : tasks'[i].kind = "body"
    BY <1>b, <2>1, <2>2
  <2>4. resp' \notin {"refused", "eom", "abort"}
    BY DEF IInv, Reader, Order, ReadChunk, transport
  <2> QED BY <2>3, <2>4 DEF Order, Queued
<1>5. Overrun'
  BY <1>b DEF IInv, TypeOK, Reader, Busy, Overrun, ReadChunk, transport, Body
<1>6. Chunks'
  <2>1. \A i \in 1 .. Len(tasks) : tasks[i].kind = "body"
    <3>1. \A i \in 1 .. Len(tasks) :
             tasks[i].kind \in {"body", "eom", "abort", "done"}
      BY <1>b, TaskFields
    <3>2. file /\ Busy(w)
      BY DEF IInv, Reader, Busy, ReadChunk
    <3>3. ~Queued("done") /\ ~Queued("eom") /\ ~Queued("abort")
      BY <3>2 DEF IInv, Order
    <3> QED BY <3>1, <3>3 DEF Queued
  <2>2. /\ ~EndsWithDone /\ ~EndsWithDone'
        /\ tasks'[Len(tasks')] = Body(pos + 1)
        /\ \A i \in 1 .. Len(tasks') : tasks'[i].kind = "body"
    BY <1>b, <2>1 DEF EndsWithDone, Body
  <2>3. ~failed => pos = Len(wire) + Len(tasks)
    BY <2>2 DEF IInv, Reader, Chunks, ReadChunk
  <2>4. ~failed => \A i \in 1 .. Len(tasks') :
                       tasks'[i].chunk = Len(wire) + i
    <3> SUFFICES ASSUME ~failed, NEW i \in 1 .. Len(tasks')
                 PROVE  tasks'[i].chunk = Len(wire) + i
      OBVIOUS
    <3>1. CASE i = Len(tasks')
      BY <1>b, <2>3, <3>1 DEF Body
    <3>2. CASE i # Len(tasks')
      <4>1. i \in 1 .. Len(tasks)
        BY <1>b, <3>2
      <4> QED BY <1>b, <2>1, <4>1 DEF IInv, Chunks
    <3> QED BY <3>1, <3>2
  <2> QED BY <1>b, <2>2, <2>3, <2>4
      DEF IInv, TypeOK, Chunks, ReadChunk, transport
<1> QED BY <1>1, <1>2, <1>3, <1>4, <1>5, <1>6 DEF IInv

LEMMA StopReadingStep ==
    ASSUME IInv, NEW w \in Workers, NEW k \in {"eom", "abort"},
           StopReading(w, k), k = "eom" => pos = FileChunks
    PROVE  IInv'
<1>a. Plain(k) \in Task
  BY TasksAreTasks
<1>b. /\ tasks \in Seq(Task) /\ tasks' \in Seq(Task)
      /\ Len(tasks) \in Nat /\ Len(tasks') = Len(tasks) + 1
      /\ \A i \in 1 .. Len(tasks) : tasks'[i] = tasks[i]
      /\ tasks'[Len(tasks) + 1] = Plain(k)
  BY <1>a, AppendFacts DEF IInv, TypeOK, StopReading
<1>1. TypeOK'
  BY <1>b DEF IInv, TypeOK, StopReading, transport, Plain
<1>2. Reader'
  BY <1>b DEF IInv, TypeOK, Reader, Busy, StopReading, transport, Plain
<1>3. Lifetime'
  BY <1>b DEF IInv, TypeOK, Lifetime, StopReading, transport, Plain
<1>4. Order'
  <2>1. \A i \in 1 .. Len(tasks) : tasks[i].kind = "body"
    <3>1. \A i \in 1 .. Len(tasks) :
             tasks[i].kind \in {"body", "eom", "abort", "done"}
      BY <1>b, TaskFields
    <3>2. file /\ Busy(w)
      BY DEF IInv, Reader, Busy, StopReading
    <3>3. ~Queued("done") /\ ~Queued("eom") /\ ~Queued("abort")
      BY <3>2 DEF IInv, Order
    <3> QED BY <3>1, <3>3 DEF Queued
  <2>2. tasks'[Len(tasks')].kind = k
    BY <1>b DEF Plain
  <2>3. resp' \notin {"refused", "eom", "abort"}
    BY DEF IInv, Reader, Order, StopReading, transport
  <2> QED BY <1>b, <2>1, <2>2, <2>3 DEF Order, Queued, StopReading
<1>5. Overrun'
  BY <1>b DEF IInv, TypeOK, Overrun, StopReading, transport, Plain
<1>6. Chunks'
  BY <1>b DEF IInv, TypeOK, Reader, Busy, Order, Queued, Chunks,
      EndsWithDone, StopReading, transport, Plain
<1> QED BY <1>1, <1>2, <1>3, <1>4, <1>5, <1>6 DEF IInv

LEMMA LeaveLoopStep ==
    ASSUME IInv, NEW w \in Workers, LeaveLoop(w)
    PROVE  IInv'
<1>a. Plain("done") \in Task
  BY TasksAreTasks
<1>b. /\ tasks \in Seq(Task) /\ tasks' \in Seq(Task)
      /\ Len(tasks) \in Nat /\ Len(tasks') = Len(tasks) + 1
      /\ \A i \in 1 .. Len(tasks) : tasks'[i] = tasks[i]
      /\ tasks'[Len(tasks) + 1] = Plain("done")
  BY <1>a, AppendFacts DEF IInv, TypeOK, LeaveLoop
<1>1. TypeOK'
  BY <1>b DEF IInv, TypeOK, LeaveLoop, handler, transport, Plain
<1>2. Reader'
  BY <1>b DEF IInv, TypeOK, Reader, Busy, LeaveLoop, handler, transport, Plain
<1>3. Lifetime'
  BY <1>b DEF IInv, TypeOK, Lifetime, LeaveLoop, handler, transport, Plain
<1>4. Order'
  BY <1>b DEF IInv, TypeOK, Reader, Busy, Order, Queued, LeaveLoop, handler,
      transport, Plain
<1>5. Overrun'
  BY <1>b DEF IInv, TypeOK, Overrun, LeaveLoop, handler, transport, Plain
<1>6. Chunks'
  BY <1>b DEF IInv, TypeOK, Reader, Busy, Order, Queued, Chunks,
      EndsWithDone, LeaveLoop, handler, transport, Plain
<1> QED BY <1>1, <1>2, <1>3, <1>4, <1>5, <1>6 DEF IInv

LEMMA RunBodyStep ==
    ASSUME IInv, RunBody
    PROVE  IInv'
<1>a. tasks \in Seq(Task) /\ tasks # <<>> /\ tasks' = Tail(tasks)
  BY DEF IInv, TypeOK, RunBody, NextTask
<1>b. /\ tasks' \in Seq(Task) /\ Len(tasks) \in Nat /\ Len(tasks) > 0
      /\ Head(tasks) = tasks[1] /\ Head(tasks) \in Task
      /\ Len(tasks') = Len(tasks) - 1
      /\ \A i \in 1 .. Len(tasks') : tasks'[i] = tasks[i + 1]
  BY <1>a, TailFacts
<1>1. TypeOK'
  <2>1. CASE failed
    BY <1>b, <2>1 DEF IInv, TypeOK, RunBody, handler
  <2>2. CASE ~failed
    <3>1. Head(tasks).chunk = Len(wire) + 1 /\ Head(tasks).chunk <= FileChunks
      BY <1>b, <2>2, FileChunksAssumption
      DEF IInv, Chunks, RunBody, NextTask, Task
    <3>2. wire' \in Seq(1 .. FileChunks)
      BY <2>2, <3>1, FileChunksAssumption DEF IInv, TypeOK, RunBody
    <3> QED BY <1>b, <3>2 DEF IInv, TypeOK, RunBody, handler
  <2> QED BY <2>1, <2>2
<1>2. Reader'
  BY <1>a, <1>b DEF IInv, TypeOK, Reader, Busy, RunBody, NextTask, handler
<1>3. Lifetime'
  BY <1>a, <1>b DEF IInv, TypeOK, Reader, Busy, Lifetime, RunBody, NextTask,
      handler
<1>4. Order'
  BY <1>a, <1>b DEF IInv, TypeOK, Reader, Busy, Order, Queued, RunBody,
      NextTask, handler
<1>5. Overrun'
  BY <1>a, <1>b DEF IInv, TypeOK, Overrun, RunBody, NextTask, handler
<1>6. Chunks'
  <2>1. CASE failed
    BY <2>1 DEF IInv, Chunks, RunBody
  <2>2. CASE ~failed
    <3>1. /\ wire' = Append(wire, Len(wire) + 1)
          /\ wire' \in Seq(1 .. FileChunks) /\ Len(wire') = Len(wire) + 1
      BY <1>b, <2>2, FileChunksAssumption
      DEF IInv, TypeOK, Chunks, RunBody, NextTask, Task
    <3>2. \A i \in 1 .. Len(wire') : wire'[i] = i
      BY <3>1 DEF IInv, TypeOK, Chunks
    <3>3. \A i \in 1 .. Len(tasks') :
             /\ tasks'[i].kind = "body" => tasks'[i].chunk = Len(wire') + i
             /\ tasks'[i].kind = "eom" => Len(wire') + i - 1 = FileChunks
      BY <1>b, <2>2, <3>1 DEF IInv, TypeOK, Chunks
    <3>4. file' => pos' = Len(wire') + (IF EndsWithDone'
                                        THEN Len(tasks') - 1 ELSE Len(tasks'))
      <4>1. EndsWithDone' <=> EndsWithDone
        <5>1. CASE Len(tasks) = 1
          <6>1. tasks' = <<>> /\ tasks[1].kind = "body"
            BY <1>b, <5>1 DEF RunBody, NextTask
          <6> QED BY <5>1, <6>1 DEF EndsWithDone
        <5>2. CASE Len(tasks) # 1
          <6>1. tasks' # <<>> /\ tasks'[Len(tasks')] = tasks[Len(tasks)]
            BY <1>b, <5>2
          <6> QED BY <1>a, <6>1 DEF EndsWithDone
        <5> QED BY <5>1, <5>2
      <4>2. file => pos = Len(wire) + (IF EndsWithDone THEN Len(tasks) - 1
                                       ELSE Len(tasks))
        BY <2>2 DEF IInv, Chunks
      <4>3. file' = file /\ pos' = pos /\ Len(wire) \in Nat
        BY DEF IInv, TypeOK, RunBody, handler
      <4>4. CASE EndsWithDone
        BY <1>b, <3>1, <4>1, <4>2, <4>3, <4>4
      <4>5. CASE ~EndsWithDone
        <5>1. file => pos = Len(wire) + Len(tasks)
          BY <4>2, <4>5
        <5>2. Len(wire) + Len(tasks) = Len(wire') + Len(tasks')
          BY <1>b, <3>1, <4>3
        <5>3. file' => pos' = Len(wire') + Len(tasks')
          BY <4>3, <5>1, <5>2
        <5> QED BY <4>1, <4>5, <5>3
      <4> QED BY <4>4, <4>5
    <3> QED BY <3>2, <3>3, <3>4 DEF Chunks
  <2> QED BY <2>1, <2>2
<1> QED BY <1>1, <1>2, <1>3, <1>4, <1>5, <1>6 DEF IInv

LEMMA RunEomStep ==
    ASSUME IInv, RunEom
    PROVE  IInv'
<1>a. tasks \in Seq(Task) /\ tasks # <<>> /\ tasks' = Tail(tasks)
  BY DEF IInv, TypeOK, RunEom, NextTask
<1>b. /\ tasks' \in Seq(Task) /\ Len(tasks) \in Nat /\ Len(tasks) > 0
      /\ Head(tasks) = tasks[1] /\ Head(tasks) \in Task
      /\ Len(tasks') = Len(tasks) - 1
      /\ \A i \in 1 .. Len(tasks') : tasks'[i] = tasks[i + 1]
  BY <1>a, TailFacts
<1>1. TypeOK'
  BY <1>a, <1>b DEF IInv, TypeOK, RunEom, NextTask, handler
<1>2. Reader'
  BY <1>a, <1>b DEF IInv, TypeOK, Reader, Busy, RunEom, NextTask, handler
<1>3. Lifetime'
  BY <1>a, <1>b DEF IInv, TypeOK, Reader, Busy, Lifetime, RunEom, NextTask,
      handler
<1>4. Order'
  BY <1>a, <1>b DEF IInv, TypeOK, Reader, Busy, Order, Queued, RunEom,
      NextTask, handler
<1>5. Overrun'
  BY <1>a, <1>b DEF IInv, TypeOK, Overrun, RunEom, NextTask, handler
<1>6. Chunks'
  BY <1>a, <1>b DEF IInv, TypeOK, Reader, Busy, Order, Queued, Chunks,
      EndsWithDone, RunEom, NextTask, handler
<1> QED BY <1>1, <1>2, <1>3, <1>4, <1>5, <1>6 DEF IInv

LEMMA RunAbortStep ==
    ASSUME IInv, RunAbort
    PROVE  IInv'
<1>a. tasks \in Seq(Task) /\ tasks # <<>> /\ tasks' = Tail(tasks)
  BY DEF IInv, TypeOK, RunAbort, NextTask
<1>b. /\ tasks' \in Seq(Task) /\ Len(tasks) \in Nat /\ Len(tasks) > 0
      /\ Head(tasks) = tasks[1] /\ Head(tasks) \in Task
      /\ Len(tasks') = Len(tasks) - 1
      /\ \A i \in 1 .. Len(tasks') : tasks'[i] = tasks[i + 1]
  BY <1>a, TailFacts
<1>1. TypeOK'
  BY <1>a, <1>b DEF IInv, TypeOK, RunAbort, NextTask, handler
<1>2. Reader'
  BY <1>a, <1>b DEF IInv, TypeOK, Reader, Busy, RunAbort, NextTask, handler
<1>3. Lifetime'
  BY <1>a, <1>b DEF IInv, TypeOK, Reader, Busy, Lifetime, RunAbort, NextTask,
      handler
<1>4. Order'
  BY <1>a, <1>b DEF IInv, TypeOK, Reader, Busy, Order, Queued, RunAbort,
      NextTask, handler
<1>5. Overrun'
  BY <1>a, <1>b DEF IInv, TypeOK, Overrun, RunAbort, NextTask, handler
<1>6. Chunks'
  BY <1>a, <1>b DEF IInv, TypeOK, Reader, Busy, Order, Queued, Chunks,
      EndsWithDone, RunAbort, NextTask, handler
<1> QED BY <1>1, <1>2, <1>3, <1>4, <1>5, <1>6 DEF IInv

LEMMA RunDoneStep ==
    ASSUME IInv, RunDone
    PROVE  IInv'
<1>a. tasks \in Seq(Task) /\ tasks # <<>> /\ tasks' = Tail(tasks)
  BY DEF IInv, TypeOK, RunDone, NextTask
<1>b. /\ tasks' \in Seq(Task) /\ Len(tasks) \in Nat /\ Len(tasks) > 0
      /\ Head(tasks) = tasks[1] /\ Head(tasks) \in Task
      /\ Len(tasks') = Len(tasks) - 1
      /\ \A i \in 1 .. Len(tasks') : tasks'[i] = tasks[i + 1]
  BY <1>a, TailFacts
<1>1. TypeOK'
  <2>1. jobs' \in Nat
    BY DEF IInv, TypeOK, RunDone, Resume, Schedule
  <2>2. scheduled' \in BOOLEAN /\ paused' \in BOOLEAN
    BY DEF IInv, TypeOK, RunDone, Resume, Schedule
  <2>3. object' \in {"new", "live", "deleted"}
    BY DEF IInv, TypeOK, RunDone, CheckForCompletion
  <2> QED BY <1>b, <2>1, <2>2, <2>3 DEF IInv, TypeOK, RunDone, transport
<1>2. Reader'
  BY <1>a, <1>b DEF IInv, TypeOK, Reader, Busy, Order, Queued, RunDone,
      NextTask, CheckForCompletion, Resume, Schedule, transport
<1>3. Lifetime'
  BY <1>a, <1>b DEF IInv, TypeOK, Lifetime, RunDone, NextTask,
      CheckForCompletion, Resume, Schedule, transport
<1>4. Order'
  BY <1>a, <1>b DEF IInv, TypeOK, Order, Queued, RunDone, NextTask,
      CheckForCompletion, Resume, Schedule, transport
<1>5. Overrun'
  BY <1>a, <1>b DEF IInv, TypeOK, Overrun, RunDone, NextTask,
      CheckForCompletion, Resume, Schedule, transport
<1>6. Chunks'
  BY <1>a, <1>b DEF IInv, TypeOK, Reader, Busy, Order, Queued, Chunks,
      EndsWithDone, RunDone, NextTask, CheckForCompletion, Resume, Schedule,
      transport
<1> QED BY <1>1, <1>2, <1>3, <1>4, <1>5, <1>6 DEF IInv

LEMMA OnEgressPausedStep ==
    ASSUME IInv, OnEgressPaused
    PROVE  IInv'
<1>1. TypeOK'
  BY MaxPausesAssumption DEF IInv, TypeOK, OnEgressPaused
<1>2. Reader'
  BY DEF IInv, TypeOK, Reader, Busy, OnEgressPaused
<1>3. Lifetime'
  BY DEF IInv, TypeOK, Lifetime, OnEgressPaused
<1>4. Order'
  BY DEF IInv, TypeOK, Reader, Busy, Order, Queued, OnEgressPaused
<1>5. Overrun'
  BY DEF IInv, TypeOK, Overrun, OnEgressPaused
<1>6. Chunks'
  BY MaxPausesAssumption DEF IInv, TypeOK, Chunks, EndsWithDone, OnEgressPaused
<1> QED BY <1>1, <1>2, <1>3, <1>4, <1>5, <1>6 DEF IInv

LEMMA OnEgressResumedStep ==
    ASSUME IInv, OnEgressResumed
    PROVE  IInv'
<1>1. TypeOK'
  <2>1. jobs' \in Nat
    BY DEF IInv, TypeOK, OnEgressResumed, Resume, Schedule
  <2>2. scheduled' \in BOOLEAN
    BY DEF IInv, TypeOK, OnEgressResumed, Resume, Schedule
  <2> QED BY <2>1, <2>2 DEF IInv, TypeOK, OnEgressResumed, Resume
<1>2. Reader'
  BY DEF IInv, TypeOK, Reader, Busy, OnEgressResumed, Resume, Schedule
<1>3. Lifetime'
  BY DEF IInv, TypeOK, Lifetime, OnEgressResumed, Resume, Schedule
<1>4. Order'
  BY DEF IInv, TypeOK, Reader, Busy, Order, Queued, OnEgressResumed, Resume,
      Schedule
<1>5. Overrun'
  BY DEF IInv, TypeOK, Overrun, OnEgressResumed, Resume, Schedule
<1>6. Chunks'
  BY DEF IInv, TypeOK, Chunks, EndsWithDone, OnEgressResumed, Resume, Schedule
<1> QED BY <1>1, <1>2, <1>3, <1>4, <1>5, <1>6 DEF IInv

LEMMA RequestCompleteStep ==
    ASSUME IInv, RequestComplete
    PROVE  IInv'
<1>1. TypeOK'
  BY DEF IInv, TypeOK, RequestComplete, Finish, CheckForCompletion
<1>2. Reader'
  BY DEF IInv, TypeOK, Reader, Busy, RequestComplete, Finish,
      CheckForCompletion
<1>3. Lifetime'
  BY DEF IInv, TypeOK, Lifetime, RequestComplete, Finish, CheckForCompletion
<1>4. Order'
  BY DEF IInv, TypeOK, Reader, Busy, Order, Queued, RequestComplete, Finish,
      CheckForCompletion
<1>5. Overrun'
  BY DEF IInv, TypeOK, Overrun, RequestComplete, Finish, CheckForCompletion
<1>6. Chunks'
  BY DEF IInv, TypeOK, Chunks, EndsWithDone, RequestComplete, Finish,
      CheckForCompletion
<1> QED BY <1>1, <1>2, <1>3, <1>4, <1>5, <1>6 DEF IInv

LEMMA OnErrorStep ==
    ASSUME IInv, OnError
    PROVE  IInv'
<1>1. TypeOK'
  BY DEF IInv, TypeOK, OnError, Finish, CheckForCompletion
<1>2. Reader'
  BY DEF IInv, TypeOK, Reader, Busy, OnError, Finish, CheckForCompletion
<1>3. Lifetime'
  BY DEF IInv, TypeOK, Lifetime, OnError, Finish, CheckForCompletion
<1>4. Order'
  BY DEF IInv, TypeOK, Reader, Busy, Order, Queued, OnError, Finish,
      CheckForCompletion
<1>5. Overrun'
  BY DEF IInv, TypeOK, Overrun, OnError, Finish, CheckForCompletion
<1>6. Chunks'
  BY DEF IInv, TypeOK, Chunks, EndsWithDone, OnError, Finish,
      CheckForCompletion
<1> QED BY <1>1, <1>2, <1>3, <1>4, <1>5, <1>6 DEF IInv

-----------------------------------------------------------------------------

LEMMA StepIInv == IInv /\ [Next]_vars => IInv'
<1> SUFFICES ASSUME IInv, [Next]_vars PROVE IInv'
  OBVIOUS
<1>1. CASE OnRequest
  BY <1>1, OnRequestRefusedStep, OnRequestServedStep DEF OnRequest
<1>2. ASSUME NEW w \in Workers, ReadFile(w)
      PROVE  IInv'
  <2>1. CASE ReadEof(w)
    BY <2>1, StopReadingStep DEF ReadEof
  <2>2. CASE ReadError(w)
    BY <2>2, StopReadingStep DEF ReadError
  <2> QED BY <1>2, <2>1, <2>2, StartJobStep, TestLoopStep, ReadChunkStep,
             LeaveLoopStep DEF ReadFile
<1>3. CASE RunTask
  BY <1>3, RunBodyStep, RunEomStep, RunAbortStep, RunDoneStep DEF RunTask
<1>4. CASE Callback
  BY <1>4, OnEgressPausedStep, OnEgressResumedStep, RequestCompleteStep,
     OnErrorStep DEF Callback
<1>5. CASE UNCHANGED vars
  BY <1>5 DEF vars, handler, transport, IInv, TypeOK, Reader, Busy, Lifetime,
     Order, Queued, Overrun, Chunks, EndsWithDone
<1>6. CASE Gone
  BY <1>5, <1>6 DEF Gone
<1> QED BY <1>1, <1>2, <1>3, <1>4, <1>5, <1>6 DEF Next

LEMMA SpecIInv == Spec => []IInv
  BY InitIInv, StepIInv, PTL DEF Spec

(* Type correctness for every pool, file and number of pauses.             *)
THEOREM TypeCorrect == Spec => []TypeOK
<1>1. IInv => TypeOK
  BY DEF IInv
<1> QED BY <1>1, SpecIInv, PTL

(* At most one readFile exists, and the event-base thread looks at file_   *)
(* only when there is none: file_ and readFileScheduled_ need no lock.     *)
THEOREM OneReaderAlways == Spec => []OneReader
<1>1. IInv => OneReader
  BY DEF IInv, Reader, OneReader, Busy
<1> QED BY <1>1, SpecIInv, PTL

(* checkForCompletion never deletes an object that readFile or a posted    *)
(* lambda still refers to.                                                 *)
THEOREM NeverUsedAfterDelete == Spec => []NoUseAfterDelete
<1>1. IInv => NoUseAfterDelete
  BY DEF IInv, Reader, Lifetime, NoUseAfterDelete, Busy
<1> QED BY <1>1, SpecIInv, PTL

(* After a completed request nothing more is sent through downstream_.     *)
THEOREM QuietAlways == Spec => []QuietAfterCompletion
<1>1. IInv => QuietAfterCompletion
  <2> SUFFICES ASSUME IInv, finished, ~failed
               PROVE  /\ ~Queued("body") /\ ~Queued("eom")
                      /\ ~Queued("abort") /\ ~file
    BY DEF QuietAfterCompletion
  <2>1. /\ ~file
        /\ \A i \in 1 .. Len(tasks) : tasks[i].kind = "done"
    BY DEF IInv, Lifetime, Order
  <2> QED BY <2>1 DEF Queued
<1> QED BY <1>1, SpecIInv, PTL

(* After onEgressPaused at most one more chunk is read.                    *)
THEOREM PauseAlwaysStops == Spec => []PauseStopsReading
<1>1. IInv => PauseStopsReading
  BY DEF IInv, Overrun, PauseStopsReading
<1> QED BY <1>1, SpecIInv, PTL

-----------------------------------------------------------------------------
(* The refinement of Download: each step of the handler hands over a chunk *)
(* or changes the state of the answer as Download allows, or is invisible. *)

LEMMA InitDownload == Init => D!Init
  BY DEF Init, D!Init, Answer

(* Steps that change neither resp, failed nor wire.                        *)
LEMMA Invisible ==
    ASSUME UNCHANGED <<resp, failed, wire>>
    PROVE  UNCHANGED D!vars
  BY DEF D!vars, Answer

LEMMA BodyDelivers ==
    ASSUME IInv, RunBody
    PROVE  [D!Next]_D!vars
<1>1. CASE failed
  BY <1>1, Invisible DEF RunBody
<1>2. CASE ~failed
  <2>1. /\ tasks \in Seq(Task) /\ tasks # <<>>
        /\ Head(tasks) = tasks[1] /\ 1 \in 1 .. Len(tasks)
        /\ tasks[1].kind = "body"
    BY TailFacts DEF IInv, TypeOK, RunBody, NextTask
  <2>2. tasks[1].chunk \in 0 .. FileChunks /\ tasks[1].chunk = Len(wire) + 1
    BY <1>2, <2>1, TaskFields DEF IInv, Chunks
  <2>3. resp = "open"
    BY <2>1 DEF IInv, TypeOK, Reader, Lifetime, Order
  <2>4. wire' = Append(wire, Len(wire) + 1) /\ Len(wire) < FileChunks
    BY <1>2, <2>1, <2>2, FileChunksAssumption DEF IInv, TypeOK, RunBody
  <2>5. Answer = "streaming" /\ Answer' = "streaming"
    BY <1>2, <2>3 DEF RunBody, Answer
  <2>6. D!Deliver
    BY <2>4, <2>5 DEF D!Deliver
  <2> QED BY <2>6 DEF D!Next
<1> QED BY <1>1, <1>2

LEMMA EomCompletes ==
    ASSUME IInv, RunEom
    PROVE  [D!Next]_D!vars
<1>1. CASE failed
  BY <1>1 DEF RunEom, Answer, D!vars
<1>2. CASE ~failed
  <2>1. /\ tasks \in Seq(Task) /\ tasks # <<>>
        /\ Head(tasks) = tasks[1] /\ 1 \in 1 .. Len(tasks)
        /\ tasks[1].kind = "eom"
    BY TailFacts DEF IInv, TypeOK, RunEom, NextTask
  <2>2. Len(wire) = FileChunks
    BY <1>2, <2>1, FileChunksAssumption DEF IInv, TypeOK, Chunks
  <2>3. resp = "open"
    BY <2>1 DEF IInv, TypeOK, Reader, Lifetime, Order
  <2>4. Answer = "streaming" /\ Answer' = "complete"
    BY <1>2, <2>3 DEF RunEom, Answer
  <2>5. D!Complete
    BY <2>2, <2>4 DEF D!Complete, RunEom
  <2> QED BY <2>5 DEF D!Next
<1> QED BY <1>1, <1>2

LEMMA AbortAborts ==
    ASSUME IInv, RunAbort
    PROVE  [D!Next]_D!vars
<1>1. CASE failed
  BY <1>1 DEF RunAbort, Answer, D!vars
<1>2. CASE ~failed
  <2>1. /\ Head(tasks) = tasks[1] /\ 1 \in 1 .. Len(tasks)
        /\ tasks[1].kind = "abort" /\ tasks # <<>>
    BY TailFacts DEF IInv, TypeOK, RunAbort, NextTask
  <2>2. resp = "open"
    BY <2>1 DEF IInv, TypeOK, Reader, Lifetime, Order
  <2>3. Answer = "streaming" /\ Answer' = "aborted"
    BY <1>2, <2>2 DEF RunAbort, Answer
  <2>4. D!Abort
    BY <2>3 DEF D!Abort, RunAbort
  <2> QED BY <2>4 DEF D!Next
<1> QED BY <1>1, <1>2

LEMMA StepDownload == IInv /\ [Next]_vars => [D!Next]_D!vars
<1> SUFFICES ASSUME IInv, [Next]_vars PROVE [D!Next]_D!vars
  OBVIOUS
<1>1. CASE OnRequest
  <2>1. ~failed /\ resp = "none"
    BY <1>1 DEF IInv, Lifetime, OnRequest, OnRequestRefused, OnRequestServed
  <2>2. CASE OnRequestRefused
    <3>1. D!Refuse
      BY <2>1, <2>2 DEF OnRequestRefused, D!Refuse, Answer
    <3> QED BY <3>1 DEF D!Next
  <2>3. CASE OnRequestServed
    <3>1. D!Open
      BY <2>1, <2>3 DEF OnRequestServed, D!Open, Answer
    <3> QED BY <3>1 DEF D!Next
  <2> QED BY <1>1, <2>2, <2>3 DEF OnRequest
<1>2. ASSUME NEW w \in Workers, ReadFile(w)
      PROVE  UNCHANGED <<resp, failed, wire>>
  BY <1>2 DEF ReadFile, StartJob, TestLoop, ReadChunk, ReadEof, ReadError,
     StopReading, LeaveLoop, transport
<1>3. CASE RunTask
  <2>1. CASE RunDone
    BY <2>1, Invisible DEF RunDone, transport
  <2> QED BY <1>3, <2>1, BodyDelivers, EomCompletes, AbortAborts DEF RunTask
<1>4. CASE Callback
  <2>1. CASE OnEgressPaused \/ OnEgressResumed \/ RequestComplete
    BY <2>1, Invisible
    DEF OnEgressPaused, OnEgressResumed, RequestComplete, Finish
  <2>2. CASE OnError
    <3>1. ~failed /\ resp \in {"open", "refused", "eom", "abort"}
      BY <2>2 DEF IInv, TypeOK, Lifetime, OnError, Finish
    <3>2. Answer \notin {"waiting", "dropped"} /\ Answer' = "dropped"
      BY <2>2, <3>1 DEF OnError, Answer
    <3>3. D!Drop
      BY <2>2, <3>2 DEF OnError, Finish, D!Drop
    <3> QED BY <3>3 DEF D!Next
  <2> QED BY <1>4, <2>1, <2>2 DEF Callback
<1>5. CASE Gone \/ UNCHANGED vars
  BY <1>5, Invisible DEF Gone, vars, transport
<1> QED BY <1>1, <1>2, <1>3, <1>4, <1>5, Invisible DEF Next

(* The client of StaticHandler sees a Download: chunks in order, each once, *)
(* and the end of message only behind the last one.                        *)
THEOREM HandlerIsDownload == Spec => IsDownload
<1>1. Spec => D!Spec
  BY InitDownload, StepDownload, SpecIInv, PTL DEF Spec, D!Spec
<1> QED BY <1>1 DEF IsDownload

-----------------------------------------------------------------------------
(* What urlEncode makes of a byte, and of the first bytes of a name (the    *)
(* function that urlEncode(s) takes the last value of).                    *)
Chunk(c) == IF IsPlain(c) THEN <<c>> ELSE EscapeOf(c)

Longer(t, c) == t \o Chunk(c)

Prefixes(s) ==
    LET enc[i \in 0..Len(s)] == IF i = 0 THEN <<>>
                                ELSE Longer(enc[i - 1], s[i])
    IN  enc

Byte == 1..255

LEMMA HexType == \A c \in 0..255 : Hex[c] \in 0..16
<1> TAKE c \in 0..255
<1>1. Hex[c] = IF c \in 48..57 THEN c - 48
               ELSE IF c \in 65..70 THEN c - 55
               ELSE IF c \in 97..102 THEN c - 87
               ELSE 16
  BY DEF Hex
<1>2. CASE c \in 48..57
  BY <1>1, <1>2
<1>3. CASE c \in 65..70
  BY <1>1, <1>3
<1>4. CASE c \in 97..102
  BY <1>1, <1>4
<1> QED BY <1>1, <1>2, <1>3, <1>4

LEMMA DigitOfHalf ==
    ASSUME NEW c \in Byte
    PROVE  /\ c \div 16 \in 0..15 /\ c % 16 \in 0..15
           /\ 16 * (c \div 16) + (c % 16) = c
BY DEF Byte

LEMMA DigitIsHex ==
    ASSUME NEW d \in 0..15
    PROVE  Digit(d) \in 48..57 \cup 65..70 /\ Hex[Digit(d)] = d
<1>1. CASE d < 10
  <2>1. Digit(d) = 48 + d /\ 48 + d \in 0..255 /\ 48 + d \in 48..57
    BY <1>1 DEF Digit
  <2>2. Hex[48 + d] = 48 + d - 48
    BY <2>1 DEF Hex
  <2> QED BY <2>1, <2>2
<1>2. CASE ~(d < 10)
  <2>1. /\ Digit(d) = 55 + d /\ 55 + d \in 0..255 /\ 55 + d \notin 48..57
        /\ 55 + d \in 65..70
    BY <1>2 DEF Digit
  <2>2. Hex[55 + d] = 55 + d - 55
    BY <2>1 DEF Hex
  <2> QED BY <2>1, <2>2
<1> QED BY <1>1, <1>2

(* An escape is a '%' and two digits that stand for the byte; what is left *)
(* as it is has no meaning of its own in a path.                           *)
LEMMA ChunkOf ==
    ASSUME NEW c \in Byte
    PROVE  /\ Chunk(c) \in Seq(Byte)
           /\ IsPlain(c) => /\ Len(Chunk(c)) = 1 /\ Chunk(c)[1] = c
                            /\ c # Percent /\ c # Plus
           /\ ~IsPlain(c) =>
                 /\ Len(Chunk(c)) = 3 /\ Chunk(c)[1] = Percent
                 /\ Chunk(c)[2] = Digit(c \div 16)
                 /\ Chunk(c)[3] = Digit(c % 16)
<1>1. CASE IsPlain(c)
  <2>1. Chunk(c) = <<c>>
    BY <1>1 DEF Chunk
  <2>2. c # Percent /\ c # Plus
    BY <1>1 DEF IsPlain, Percent, Plus
  <2> QED BY <1>1, <2>1, <2>2
<1>2. CASE ~IsPlain(c)
  <2>1. Chunk(c) = <<Percent, Digit(c \div 16), Digit(c % 16)>>
    BY <1>2 DEF Chunk, EscapeOf
  <2>2. Percent \in Byte /\ Digit(c \div 16) \in Byte /\ Digit(c % 16) \in Byte
    BY DigitOfHalf, DigitIsHex DEF Percent, Byte
  <2> QED BY <1>2, <2>1, <2>2
<1> QED BY <1>1, <1>2

LEMMA LongerBy ==
    ASSUME NEW t \in Seq(Byte), NEW c \in Byte
    PROVE  /\ Longer(t, c) \in Seq(Byte)
           /\ Len(Longer(t, c)) = Len(t) + Len(Chunk(c))
           /\ Len(t) \in Nat /\ Len(Chunk(c)) \in Nat
           /\ \A i \in 1..Len(t) : Longer(t, c)[i] = t[i]
           /\ \A i \in 1..Len(Chunk(c)) :
                 Longer(t, c)[Len(t) + i] = Chunk(c)[i]
<1>1. Chunk(c) \in Seq(Byte)
  BY ChunkOf
<1> HIDE DEF Byte
<1> QED BY <1>1, ConcatProperties DEF Longer

LEMMA PrefixSteps ==
    ASSUME NEW s \in Seq(Byte)
    PROVE  LET e == Prefixes(s)
           IN  /\ e[0] = <<>>
               /\ \A i \in 1..Len(s) : e[i] = Longer(e[i - 1], s[i])
               /\ \A i \in 0..Len(s) : e[i] \in Seq(Byte)
               /\ urlEncode(s) = e[Len(s)]
<1> DEFINE m == Len(s)
           V == Seq(Byte)
           step == [a \in V \X (1..m) |-> Longer(a[1], s[a[2]])]
           Solves(f) == f = [i \in 0..m |-> IF i = 0 THEN <<>>
                                            ELSE Longer(f[i - 1], s[i])]
<1>1. m \in Nat /\ \A i \in 1..m : s[i] \in Byte
  OBVIOUS
<1>2. \A a \in V, i \in 1..m : Longer(a, s[i]) \in V
  <2> HIDE DEF m
  <2> QED BY <1>1, LongerBy
<1>3. step \in [V \X (1..m) -> V]
  <2>1. ASSUME NEW a \in V \X (1..m) PROVE Longer(a[1], s[a[2]]) \in V
    <3>1. a[1] \in V /\ a[2] \in 1..m
      OBVIOUS
    <3> HIDE DEF V, m
    <3> QED BY <1>2, <3>1
  <2> HIDE DEF V, m
  <2> QED BY <2>1
<1>4. \A a \in V, i \in 1..m : step[<<a, i>>] = Longer(a, s[i])
  <2> HIDE DEF V, m
  <2> QED OBVIOUS
<1>5. PICK f \in [0..m -> V] : Follows(f, <<>>, m, step)
  <2>1. <<>> \in V
    OBVIOUS
  <2> HIDE DEF step, V, m
  <2> QED BY <1>1, <1>3, <2>1, Recursion
<1>6. Solves(f)
  <2>1. \A i \in 1..m : f[i] = Longer(f[i - 1], s[i])
    <3>1. \A i \in 1..m : i - 1 \in 0..m
      BY <1>1
    <3> HIDE DEF step, V, m
    <3> QED BY <1>4, <1>5, <3>1 DEF Follows
  <2> HIDE DEF step, V, m
  <2> QED BY <1>1, <1>5, <2>1 DEF Follows
<1>7. Prefixes(s) = CHOOSE g : Solves(g)
  BY DEF Prefixes
<1>8. Solves(Prefixes(s))
  <2> HIDE DEF Solves
  <2> QED BY <1>6, <1>7
<1>9. urlEncode(s) = Prefixes(s)[m]
  BY DEF Prefixes, urlEncode, Chunk, Longer
<1> DEFINE e == Prefixes(s)
<1>10. e[0] = <<>> /\ \A i \in 1..m : e[i] = Longer(e[i - 1], s[i])
  <2> HIDE DEF e
  <2>1. e = [i \in 0..m |-> IF i = 0 THEN <<>> ELSE Longer(e[i - 1], s[i])]
    BY <1>8 DEF e
  <2> HIDE DEF m
  <2> QED BY <1>1, <2>1
<1>11. \A i \in 0..m : e[i] \in V
  <2>1. e[0] \in V
    BY <1>10
  <2>2. \A i \in 1..m : e[i - 1] \in V => e[i] \in V
    <3> HIDE DEF e, V, m
    <3> QED BY <1>2, <1>10
  <2> HIDE DEF e, V, m
  <2> QED BY <1>1, <2>1, <2>2, RecursionType
<1> QED BY <1>9, <1>10, <1>11

(* The encoding of the first k bytes begins the encoding of more of them.  *)
Begins(a, b) == Len(a) <= Len(b) /\ \A i \in 1..Len(a) : b[i] = a[i]

LEMMA BeginsLonger ==
    ASSUME NEW a \in Seq(Byte), NEW t \in Seq(Byte), NEW c \in Byte, Begins(a, t)
    PROVE  Begins(a, Longer(t, c))
<1> DEFINE u == Longer(t, c)
           n == Len(Chunk(c))
           i == Len(a)
           j == Len(t)
<1>1. Len(u) = j + n /\ j \in Nat /\ n \in Nat /\ \A h \in 1..j : u[h] = t[h]
  BY LongerBy
<1>2. i \in Nat /\ i <= j /\ \A h \in 1..i : t[h] = a[h]
  <2>1. Len(a) \in Nat
    OBVIOUS
  <2> QED BY <2>1 DEF Begins
<1> HIDE DEF u, n, i, j
<1>3. i <= Len(u) /\ \A h \in 1..i : u[h] = a[h]
  <2>1. \A h \in 1..i : h \in 1..j
    BY <1>1, <1>2
  <2> QED BY <1>1, <1>2, <2>1
<1> QED BY <1>3 DEF Begins, u, i

LEMMA PrefixesBegin ==
    ASSUME NEW s \in Seq(Byte), NEW k \in 0..Len(s)
    PROVE  Begins(Prefixes(s)[k], urlEncode(s))
<1> DEFINE e == Prefixes(s)
           m == Len(s)
           S == {n \in Nat : k <= n /\ n <= m => Begins(e[k], e[n])}
<1>1. /\ \A i \in 1..m : e[i] = Longer(e[i - 1], s[i]) /\ s[i] \in Byte
      /\ \A i \in 0..m : e[i] \in Seq(Byte)
      /\ urlEncode(s) = e[m] /\ m \in Nat
  <2>1. \A i \in 1..m : s[i] \in Byte
    OBVIOUS
  <2>2. m \in Nat
    OBVIOUS
  <2> QED BY <2>1, <2>2, PrefixSteps
<1> HIDE DEF e
<1>2. Begins(e[k], e[k])
  <2>1. e[k] \in Seq(Byte)
    BY <1>1
  <2>2. Len(e[k]) \in Nat
    BY <2>1
  <2> QED BY <2>2 DEF Begins
<1>3. 0 \in S
  <2>1. k <= 0 => k = 0
    BY <1>1
  <2> QED BY <1>2, <2>1
<1>4. ASSUME NEW n \in Nat, n \in S PROVE n + 1 \in S
  <2> SUFFICES ASSUME k <= n + 1, n + 1 <= m PROVE Begins(e[k], e[n + 1])
    OBVIOUS
  <2>1. CASE k = n + 1
    BY <1>2, <2>1
  <2>2. CASE k # n + 1
    <3>1. k <= n /\ k \in Nat /\ n \in 0..m /\ n + 1 \in 1..m /\ (n + 1) - 1 = n
      BY <2>2, <1>1
    <3>2. Begins(e[k], e[n])
      BY <1>4, <3>1
    <3>3. e[n + 1] = Longer(e[n], s[n + 1])
      BY <1>1, <3>1
    <3>4. e[k] \in Seq(Byte) /\ e[n] \in Seq(Byte) /\ s[n + 1] \in Byte
      BY <1>1, <3>1
    <3>5. Begins(e[k], Longer(e[n], s[n + 1]))
      BY <3>2, <3>4, BeginsLonger
    <3> QED BY <3>3, <3>5
  <2> QED BY <2>1, <2>2
<1>5. m \in S
  <2> HIDE DEF S
  <2> QED BY <1>1, <1>3, <1>4, Induction
<1> QED BY <1>1, <1>5 DEF e

(* Behind the encoding of the first k bytes comes that of the next.        *)
LEMMA NextChunk ==
    ASSUME NEW s \in Seq(Byte), NEW k \in 0..Len(s) - 1
    PROVE  LET b == Len(Prefixes(s)[k])
               c == Chunk(s[k + 1])
           IN  /\ s[k + 1] \in Byte /\ b \in Nat
               /\ Len(Prefixes(s)[k + 1]) = b + Len(c)
               /\ b + Len(c) <= Len(urlEncode(s))
               /\ Len(urlEncode(s)) \in Nat
               /\ \A j \in 1..Len(c) : urlEncode(s)[b + j] = c[j]
<1> DEFINE e == Prefixes(s)
           m == Len(s)
           c == Chunk(s[k + 1])
           b == Len(e[k])
<1>1. m \in Nat /\ k \in Nat /\ k + 1 \in 1..m /\ k \in 0..m /\ (k + 1) - 1 = k
      /\ k + 1 \in 0..m
  OBVIOUS
<1>2. s[k + 1] \in Byte
  BY <1>1
<1>3. c \in Seq(Byte) /\ Len(c) \in Nat
  <2>1. c \in Seq(Byte)
    BY <1>2, ChunkOf
  <2> QED BY <2>1
<1>4. e[k + 1] = Longer(e[k], s[k + 1]) /\ e[k] \in Seq(Byte) /\ e[k + 1] \in Seq(Byte)
      /\ urlEncode(s) = e[m] /\ e[m] \in Seq(Byte)
  <2> HIDE DEF e, m
  <2> QED BY <1>1, PrefixSteps DEF e, m
<1>5. Begins(e[k + 1], urlEncode(s))
  <2> HIDE DEF e, m
  <2> QED BY <1>1, PrefixesBegin DEF e, m
<1> HIDE DEF e, c
<1>6. /\ Len(e[k + 1]) = b + Len(c) /\ b \in Nat
      /\ \A i \in 1..Len(c) : e[k + 1][b + i] = c[i]
  <2> DEFINE t == e[k]
  <2>1. t \in Seq(Byte) /\ e[k + 1] = Longer(t, s[k + 1])
    BY <1>4
  <2> HIDE DEF t
  <2> DEFINE x == s[k + 1]
  <2>2. x \in Byte /\ e[k + 1] = Longer(t, x)
    BY <1>2, <2>1
  <2> HIDE DEF x
  <2>3. /\ Len(Longer(t, x)) = Len(t) + Len(Chunk(x)) /\ Len(t) \in Nat
        /\ \A i \in 1..Len(Chunk(x)) : Longer(t, x)[Len(t) + i] = Chunk(x)[i]
    BY <2>1, <2>2, LongerBy
  <2>4. Longer(t, x) = e[k + 1] /\ Chunk(x) = c /\ b = Len(t)
    BY <2>2 DEF c, t, x
  <2> QED BY <2>3, <2>4
<1>7. Len(urlEncode(s)) \in Nat
  BY <1>4
<1>8. ASSUME NEW j \in 1..Len(c) PROVE urlEncode(s)[b + j] = c[j]
  <2>1. b + j \in 1..Len(e[k + 1])
    BY <1>3, <1>6
  <2> QED BY <1>5, <1>6, <2>1 DEF Begins
<1>9. b + Len(c) <= Len(urlEncode(s))
  BY <1>5, <1>6 DEF Begins
<1> QED BY <1>2, <1>6, <1>7, <1>8, <1>9 DEF e, c

-----------------------------------------------------------------------------
(* What libpq reads                                                        *)

LibpqState == [text : Seq(Int), left : {0, 1, 2}, value : Int, fate : {"fine", "error"}]

Read(t) == Libpq(t, 0, 0, "fine")

LEMMA LibpqReadCases ==
    ASSUME NEW st, NEW c, NEW u, u = LibpqRead(st, c)
    PROVE  /\ st.left = 0 /\ c # Percent => u = Libpq(Append(st.text, c), 0, 0, st.fate)
           /\ st.left = 0 /\ c = Percent => u = Libpq(st.text, 2, 0, st.fate)
           /\ st.left # 0 /\ ~IsHex(c) => u = Libpq(st.text, 0, 0, "error")
           /\ st.left = 2 /\ IsHex(c) => u = Libpq(st.text, 1, Hex[c], st.fate)
           /\ st.left = 1 /\ IsHex(c) =>
                 u = Libpq(Append(st.text, 16 * st.value + Hex[c]), 0, 0, st.fate)
<1> DEFINE l == st.left
<1>1. u = CASE l = 0 /\ c # Percent -> Libpq(Append(st.text, c), 0, 0, st.fate)
            [] l = 0 /\ c = Percent -> Libpq(st.text, 2, 0, st.fate)
            [] l # 0 /\ ~IsHex(c) -> Libpq(st.text, 0, 0, "error")
            [] l = 2 /\ IsHex(c) -> Libpq(st.text, 1, Hex[c], st.fate)
            [] l = 1 /\ IsHex(c) ->
                  Libpq(Append(st.text, 16 * st.value + Hex[c]), 0, 0, st.fate)
  BY DEF LibpqRead
<1> HIDE DEF l
<1>2. CASE l = 0 /\ c # Percent
  BY <1>1, <1>2 DEF l
<1>3. CASE l = 0 /\ c = Percent
  BY <1>1, <1>3 DEF l
<1>4. CASE l # 0 /\ ~IsHex(c)
  BY <1>1, <1>4 DEF l
<1>5. CASE l = 2 /\ IsHex(c)
  BY <1>1, <1>5 DEF l
<1>6. CASE l = 1 /\ IsHex(c)
  BY <1>1, <1>6 DEF l
<1> QED BY <1>2, <1>3, <1>4, <1>5, <1>6 DEF l

LEMMA LibpqFields ==
    ASSUME NEW t, NEW l, NEW v, NEW o, NEW st, st = Libpq(t, l, v, o)
    PROVE  st.text = t /\ st.left = l /\ st.value = v /\ st.fate = o
BY DEF Libpq

LEMMA LibpqReadType ==
    ASSUME NEW st \in LibpqState, NEW c \in Byte
    PROVE  LibpqRead(st, c) \in LibpqState
<1> DEFINE t == st.text
           l == st.left
           v == st.value
           o == st.fate
           u == LibpqRead(st, c)
<1>1. t \in Seq(Int) /\ l \in {0, 1, 2} /\ v \in Int /\ o \in {"fine", "error"}
  BY DEF LibpqState
<1>2. c \in Int /\ Hex[c] \in Int
  <2>1. c \in 0..255
    BY DEF Byte
  <2> QED BY <2>1, HexType
<1>3. ASSUME NEW a \in Seq(Int), NEW b \in {0, 1, 2}, NEW d \in Int, NEW e \in {"fine", "error"}
      PROVE  Libpq(a, b, d, e) \in LibpqState
  BY DEF Libpq, LibpqState
<1>4. /\ l = 0 /\ c # Percent => u = Libpq(Append(t, c), 0, 0, o)
      /\ l = 0 /\ c = Percent => u = Libpq(t, 2, 0, o)
      /\ l # 0 /\ ~IsHex(c) => u = Libpq(t, 0, 0, "error")
      /\ l = 2 /\ IsHex(c) => u = Libpq(t, 1, Hex[c], o)
      /\ l = 1 /\ IsHex(c) => u = Libpq(Append(t, 16 * v + Hex[c]), 0, 0, o)
  BY LibpqReadCases
<1> HIDE DEF t, l, v, o, u
<1>5. Append(t, c) \in Seq(Int) /\ Append(t, 16 * v + Hex[c]) \in Seq(Int)
  <2>1. 16 * v + Hex[c] \in Int
    BY <1>1, <1>2
  <2> QED BY <1>1, <1>2, <2>1, AppendProperties
<1>6. u \in LibpqState
  <2>1. CASE l = 0 /\ c # Percent
    <3> DEFINE w == Append(t, c)
    <3>1. w \in Seq(Int) /\ u = Libpq(w, 0, 0, o)
      BY <1>4, <1>5, <2>1
    <3> HIDE DEF w
    <3> QED BY <1>1, <1>3, <3>1
  <2>2. CASE l = 0 /\ c = Percent
    BY <1>1, <1>3, <1>4, <2>2
  <2>3. CASE l # 0 /\ ~IsHex(c)
    BY <1>1, <1>3, <1>4, <2>3
  <2>4. CASE l = 2 /\ IsHex(c)
    BY <1>1, <1>2, <1>3, <1>4, <2>4
  <2>5. CASE l = 1 /\ IsHex(c)
    <3> DEFINE w == Append(t, 16 * v + Hex[c])
    <3>1. w \in Seq(Int) /\ u = Libpq(w, 0, 0, o)
      BY <1>4, <1>5, <2>5
    <3> HIDE DEF w
    <3> QED BY <1>1, <1>3, <3>1
  <2> QED BY <1>1, <2>1, <2>2, <2>3, <2>4, <2>5
<1> QED BY <1>6 DEF u

(* Reading a plain byte, and an escape.                                    *)
LEMMA LibpqReadsPlain ==
    ASSUME NEW t \in Seq(Byte), NEW c \in Byte, c # Percent
    PROVE  LibpqRead(Read(t), c) = Read(Append(t, c))
<1>1. Read(t).left = 0 /\ Read(t).text = t /\ Read(t).fate = "fine"
  BY LibpqFields DEF Read
<1>2. LibpqRead(Read(t), c) = Libpq(Append(Read(t).text, c), 0, 0, Read(t).fate)
  BY <1>1, LibpqReadCases
<1> QED BY <1>1, <1>2 DEF Read

LEMMA LibpqReadsEscape ==
    ASSUME NEW t \in Seq(Byte), NEW c \in Byte
    PROVE  LET st1 == LibpqRead(Read(t), Percent)
               st2 == LibpqRead(st1, Digit(c \div 16))
           IN  LibpqRead(st2, Digit(c % 16)) = Read(Append(t, c))
<1> DEFINE h == c \div 16
           l == c % 16
           a == Digit(h)
           b == Digit(l)
           st1 == LibpqRead(Read(t), Percent)
           st2 == LibpqRead(st1, a)
           st3 == LibpqRead(st2, b)
<1>1. h \in 0..15 /\ l \in 0..15 /\ 16 * h + l = c
  BY DigitOfHalf
<1>2. Hex[a] = h /\ Hex[b] = l
  <2> HIDE DEF h, l
  <2> QED BY <1>1, DigitIsHex
<1>3. IsHex(a) /\ IsHex(b)
  <2> HIDE DEF h, l, a, b
  <2> QED BY <1>1, <1>2 DEF IsHex
<1>4. st1 = Libpq(t, 2, 0, "fine")
  <2>1. Read(t).left = 0 /\ Read(t).text = t /\ Read(t).fate = "fine"
    BY LibpqFields DEF Read
  <2>2. st1 = Libpq(Read(t).text, 2, 0, Read(t).fate)
    BY <2>1, LibpqReadCases
  <2> QED BY <2>1, <2>2
<1>5. st2 = Libpq(t, 1, Hex[a], "fine")
  <2>1. st1.left = 2 /\ st1.text = t /\ st1.fate = "fine"
    <3> HIDE DEF st1
    <3> QED BY <1>4, LibpqFields
  <2> HIDE DEF a, st1
  <2>2. st2 = Libpq(st1.text, 1, Hex[a], st1.fate)
    BY <1>3, <2>1, LibpqReadCases
  <2> QED BY <2>1, <2>2
<1>6. st3 = Libpq(Append(t, 16 * Hex[a] + Hex[b]), 0, 0, "fine")
  <2>1. st2.left = 1 /\ st2.text = t /\ st2.value = Hex[a] /\ st2.fate = "fine"
    <3> HIDE DEF st2, a
    <3> QED BY <1>5, LibpqFields
  <2> HIDE DEF a, b, st2
  <2>2. st3 = Libpq(Append(st2.text, 16 * st2.value + Hex[b]), 0, 0, st2.fate)
    BY <1>3, <2>1, LibpqReadCases
  <2> QED BY <2>1, <2>2
<1>7. st3 = Read(Append(t, c))
  <2> HIDE DEF st3, a, b, h, l
  <2> QED BY <1>1, <1>2, <1>6 DEF Read
<1> QED BY <1>7

Readings(s) ==
    LET read[i \in 0..Len(s)] == IF i = 0 THEN Read(<<>>)
                                 ELSE LibpqRead(read[i - 1], s[i])
    IN  read

LEMMA ReadingSteps ==
    ASSUME NEW s \in Seq(Byte)
    PROVE  LET r == Readings(s)
           IN  /\ r[0] = Read(<<>>)
               /\ \A i \in 1..Len(s) : r[i] = LibpqRead(r[i - 1], s[i])
               /\ LibpqDecode(s) = r[Len(s)]
<1> DEFINE m == Len(s)
           V == LibpqState
           step == [a \in V \X (1..m) |-> LibpqRead(a[1], s[a[2]])]
           Solves(f) == f = [i \in 0..m |-> IF i = 0 THEN Read(<<>>)
                                            ELSE LibpqRead(f[i - 1], s[i])]
<1>1. m \in Nat /\ \A i \in 1..m : s[i] \in Byte
  OBVIOUS
<1>2. step \in [V \X (1..m) -> V]
  <2>1. ASSUME NEW a \in V \X (1..m) PROVE LibpqRead(a[1], s[a[2]]) \in V
    <3>1. a[1] \in V /\ a[2] \in 1..m
      OBVIOUS
    <3> HIDE DEF m
    <3> QED BY <1>1, <3>1, LibpqReadType
  <2> HIDE DEF V, m
  <2> QED BY <2>1
<1>3. \A a \in V, i \in 1..m : step[<<a, i>>] = LibpqRead(a, s[i])
  <2> HIDE DEF V, m
  <2> QED OBVIOUS
<1>4. Read(<<>>) \in V
  BY DEF Read, Libpq, LibpqState
<1>5. PICK f \in [0..m -> V] : Follows(f, Read(<<>>), m, step)
  <2> HIDE DEF step, V, m
  <2> QED BY <1>1, <1>2, <1>4, Recursion
<1>6. Solves(f)
  <2>1. \A i \in 1..m : f[i] = LibpqRead(f[i - 1], s[i])
    <3>1. \A i \in 1..m : i - 1 \in 0..m
      BY <1>1
    <3> HIDE DEF step, V, m
    <3> QED BY <1>3, <1>5, <3>1 DEF Follows
  <2> HIDE DEF step, V, m
  <2> QED BY <1>1, <1>5, <2>1 DEF Follows
<1>7. Readings(s) = CHOOSE g : Solves(g)
  BY DEF Readings
<1>8. Solves(Readings(s))
  <2> HIDE DEF Solves
  <2> QED BY <1>6, <1>7
<1>9. LibpqDecode(s) = Readings(s)[m]
  BY DEF Readings, LibpqDecode, Read
<1> DEFINE r == Readings(s)
<1>10. r[0] = Read(<<>>) /\ \A i \in 1..m : r[i] = LibpqRead(r[i - 1], s[i])
  <2> HIDE DEF r
  <2>1. r = [i \in 0..m |-> IF i = 0 THEN Read(<<>>) ELSE LibpqRead(r[i - 1], s[i])]
    BY <1>8 DEF r
  <2> HIDE DEF m
  <2> QED BY <1>1, <2>1
<1> QED BY <1>9, <1>10

LEMMA GrowsByOne ==
    ASSUME NEW S, NEW s \in Seq(S), NEW k \in 0..Len(s) - 1
    PROVE  SubSeq(s, 1, k + 1) = Append(SubSeq(s, 1, k), s[k + 1])
<1> DEFINE a == SubSeq(s, 1, k + 1)
           b == Append(SubSeq(s, 1, k), s[k + 1])
<1>1. /\ Len(s) \in Nat /\ k \in Nat /\ k + 1 <= Len(s)
      /\ \A i \in 1..Len(s) : s[i] \in S
  OBVIOUS
<1>2. a \in Seq(S) /\ b \in Seq(S) /\ Len(a) = k + 1 /\ Len(b) = k + 1
  BY <1>1
<1>3. \A i \in 1..k + 1 : a[i] = b[i]
  BY <1>1
<1> HIDE DEF a, b
<1>4. a = b
  BY <1>2, <1>3, SeqEqual
<1> QED BY <1>4 DEF a, b

(* Any string of bytes comes out of libpq as it went into urlEncode.       *)
LEMMA LibpqReadsEncoded ==
    ASSUME NEW s \in Seq(Byte)
    PROVE  LibpqDecode(urlEncode(s)) = Libpq(s, 0, 0, "fine")
<1> DEFINE e == Prefixes(s)
           m == Len(s)
           u == urlEncode(s)
           r == Readings(u)
           At(k) == r[Len(e[k])] = Read(SubSeq(s, 1, k))
           S == {k \in Nat : k <= m => At(k)}
<1>1. e[0] = <<>> /\ u = e[m] /\ u \in Seq(Byte) /\ m \in Nat /\ Len(u) \in Nat
  <2>1. m \in Nat /\ m \in 0..m
    OBVIOUS
  <2>2. e[0] = <<>> /\ u = e[m] /\ e[m] \in Seq(Byte)
    <3> HIDE DEF m
    <3> QED BY <2>1, PrefixSteps DEF m
  <2>3. u \in Seq(Byte)
    BY <2>2
  <2> HIDE DEF u, e, m
  <2>4. Len(u) \in Nat
    BY <2>3
  <2> QED BY <2>1, <2>2, <2>3, <2>4
<1>2. /\ r[0] = Read(<<>>) /\ LibpqDecode(u) = r[Len(u)]
      /\ \A i \in 1..Len(u) : r[i] = LibpqRead(r[i - 1], u[i])
  <2> HIDE DEF u
  <2> QED BY <1>1, ReadingSteps
<1>3. 0 \in S
  <2>1. SubSeq(s, 1, 0) = <<>> /\ Len(<<>>) = 0
    OBVIOUS
  <2>2. At(0)
    <3> HIDE DEF r, e
    <3> QED BY <1>1, <1>2, <2>1
  <2> QED BY <2>2
<1>4. ASSUME NEW k \in Nat, k \in S PROVE k + 1 \in S
  <2> SUFFICES ASSUME k + 1 <= m PROVE At(k + 1)
    OBVIOUS
  <2> DEFINE c == s[k + 1]
             b == Len(e[k])
             t == SubSeq(s, 1, k)
  <2>1. k \in 0..Len(s) - 1 /\ At(k)
    BY <1>4
  <2>2. /\ c \in Byte /\ b \in Nat /\ Len(e[k + 1]) = b + Len(Chunk(c))
        /\ b + Len(Chunk(c)) <= Len(u)
        /\ \A j \in 1..Len(Chunk(c)) : u[b + j] = Chunk(c)[j]
    BY <2>1, NextChunk
  <2>3. t \in Seq(Byte) /\ SubSeq(s, 1, k + 1) = Append(t, c)
    <3>1. t \in Seq(Byte)
      BY <2>1
    <3> QED BY <2>1, <3>1, GrowsByOne
  <2>4. r[b] = Read(t)
    BY <2>1
  <2> HIDE DEF c, b, t, r, e, u
  <2>5. CASE IsPlain(c)
    <3>1. Len(Chunk(c)) = 1 /\ Chunk(c)[1] = c /\ c # Percent
      BY <2>2, <2>5, ChunkOf
    <3>2. u[b + 1] = c /\ b + 1 \in 1..Len(u) /\ (b + 1) - 1 = b
      BY <1>1, <2>2, <3>1
    <3>3. r[b + 1] = LibpqRead(Read(t), c)
      BY <1>2, <2>4, <3>2
    <3>4. r[b + 1] = Read(Append(t, c))
      BY <2>2, <2>3, <3>1, <3>3, LibpqReadsPlain
    <3> QED BY <2>2, <2>3, <3>1, <3>4
  <2>6. CASE ~IsPlain(c)
    <3>1. /\ Len(Chunk(c)) = 3 /\ Chunk(c)[1] = Percent
          /\ Chunk(c)[2] = Digit(c \div 16) /\ Chunk(c)[3] = Digit(c % 16)
      BY <2>2, <2>6, ChunkOf
    <3>2. /\ u[b + 1] = Percent /\ u[b + 2] = Digit(c \div 16)
          /\ u[b + 3] = Digit(c % 16)
      BY <2>2, <3>1
    <3>3. /\ b + 1 \in 1..Len(u) /\ b + 2 \in 1..Len(u) /\ b + 3 \in 1..Len(u)
          /\ (b + 1) - 1 = b /\ (b + 2) - 1 = b + 1 /\ (b + 3) - 1 = b + 2
      BY <1>1, <2>2, <3>1
    <3>4. r[b + 1] = LibpqRead(Read(t), Percent)
      BY <1>2, <2>4, <3>2, <3>3
    <3>5. r[b + 2] = LibpqRead(r[b + 1], Digit(c \div 16))
      BY <1>2, <3>2, <3>3
    <3>6. r[b + 3] = LibpqRead(r[b + 2], Digit(c % 16))
      BY <1>2, <3>2, <3>3
    <3>7. r[b + 3] = Read(Append(t, c))
      BY <2>2, <2>3, <3>4, <3>5, <3>6, LibpqReadsEscape
    <3> QED BY <2>2, <2>3, <3>1, <3>7
  <2> QED BY <2>5, <2>6
<1>5. At(m)
  <2>1. Nat \subseteq S
    <3> HIDE DEF S
    <3> QED BY <1>3, <1>4, Induction
  <2> HIDE DEF At
  <2> QED BY <1>1, <2>1
<1>6. SubSeq(s, 1, m) = s
  <2>1. m = Len(s)
    OBVIOUS
  <2> QED BY <2>1, SubSeqFull
<1> HIDE DEF u, r, e, m
<1> QED BY <1>1, <1>2, <1>5, <1>6 DEF Read, u

-----------------------------------------------------------------------------
(* parsePath.  It reads any path to its end and not beyond; of an encoded  *)
(* one it has read, at all times, the encoding of so many bytes.           *)

IsPath == path \in Seq(Byte)

Decoding == /\ p \in Nat \ {0}
            /\ retVal \in Seq(0..255)
            /\ verdict \in {"reading", "done", "refused"}

PathInv == IsPath /\ Decoding /\ StaysInPath

LEMMA ByteAtType == ASSUME IsPath, NEW i \in Nat \ {0} PROVE ByteAt(i) \subseteq 0..255
<1>1. i <= Len(path) => path[i] \in Byte
  <2>1. path \in Seq(Byte) /\ Len(path) \in Nat
    BY DEF IsPath
  <2>2. i <= Len(path) => i \in 1..Len(path)
    BY <2>1
  <2>3. ASSUME NEW S, path \in Seq(S), i \in 1..Len(path) PROVE path[i] \in S
    BY <2>3
  <2> QED BY <2>1, <2>2, <2>3
<1>2. Bytes \cup {0} \subseteq 0..255
  BY PathsAssumption
<1>3. CASE i <= Len(path)
  <2>1. ByteAt(i) = {path[i]}
    BY <1>3 DEF ByteAt
  <2> QED BY <1>1, <1>3, <2>1 DEF Byte
<1>4. CASE ~(i <= Len(path))
  <2>1. ByteAt(i) = {0} \/ ByteAt(i) = Bytes \cup {0}
    BY <1>4 DEF ByteAt
  <2> QED BY <1>2, <2>1
<1> QED BY <1>3, <1>4

(* stoi's number, as a char.                                               *)
LEMMA ValueType ==
    ASSUME NEW c \in 0..255, NEW d \in 0..255, Converts(c, d)
    PROVE  Value(c, d) \in 0..255
<1>1. Hex[d] \in 0..15
  BY HexType DEF Converts, IsHex
<1>2. CASE IsHex(c)
  <2>1. Hex[c] \in 0..15
    BY <1>2, HexType DEF IsHex
  <2> QED BY <1>1, <1>2, <2>1 DEF Value
<1>3. CASE ~IsHex(c)
  BY <1>1, <1>3 DEF Value
<1> QED BY <1>2, <1>3

(* No number ends with the zero after a path, and none begins with it.     *)
LEMMA ConvertsInPath ==
    ASSUME PathInv, More, NEW c \in ByteAt(p + 1), NEW d \in ByteAt(p + 2),
           Converts(c, d)
    PROVE  p + 2 <= Len(path)
<1>1. p \in Nat \ {0} /\ Len(path) \in Nat /\ p <= Len(path)
  BY DEF PathInv, IsPath, Decoding, StaysInPath, More
<1>2. ~IsHex(0) /\ 0 \notin Skipped
  <2>1. Hex[0] = 16
    BY DEF Hex
  <2>2. 0 \notin Skipped
    BY DEF Skipped, Space, Plus, Minus
  <2> QED BY <2>1, <2>2 DEF IsHex
<1>3. c # 0 /\ d # 0
  BY <1>2 DEF Converts
<1>4. p + 1 # Len(path) + 1
  <2>1. p + 1 = Len(path) + 1 => ByteAt(p + 1) = {0}
    BY <1>1 DEF ByteAt
  <2> QED BY <1>3, <2>1
<1>5. p + 2 # Len(path) + 1
  <2>1. p + 2 = Len(path) + 1 => ByteAt(p + 2) = {0}
    BY <1>1 DEF ByteAt
  <2> QED BY <1>3, <2>1
<1> QED BY <1>1, <1>4, <1>5

LEMMA CopyInPath == ASSUME PathInv, Copy PROVE PathInv'
<1>1. PICK c \in ByteAt(p) : Append1(1, IF c = Plus THEN Space ELSE c)
  BY DEF Copy
<1>2. /\ p \in Nat \ {0} /\ Len(path) \in Nat /\ p <= Len(path)
      /\ retVal \in Seq(0..255)
  BY DEF PathInv, IsPath, Decoding, StaysInPath, Copy, More
<1>3. (IF c = Plus THEN Space ELSE c) \in 0..255
  <2>1. c \in 0..255
    BY <1>2, ByteAtType DEF PathInv
  <2> QED BY <2>1 DEF Space
<1>4. p' = p + 1 /\ retVal' \in Seq(0..255) /\ path' = path
      /\ verdict' = verdict
  BY <1>1, <1>2, <1>3 DEF Append1
<1> QED BY <1>2, <1>4 DEF PathInv, IsPath, Decoding, StaysInPath

LEMMA UnescapeInPath == ASSUME PathInv, Unescape PROVE PathInv'
<1>1. PICK c \in ByteAt(p + 1), d \in ByteAt(p + 2) :
          Converts(c, d) /\ Append1(3, Value(c, d))
  BY DEF Unescape
<1>2. p \in Nat \ {0} /\ Len(path) \in Nat /\ retVal \in Seq(0..255)
  BY DEF PathInv, IsPath, Decoding
<1>3. p + 2 <= Len(path)
  BY <1>1, ConvertsInPath DEF Unescape
<1>4. Value(c, d) \in 0..255
  <2>1. p + 1 \in Nat \ {0} /\ p + 2 \in Nat \ {0}
    BY <1>2
  <2>2. c \in 0..255 /\ d \in 0..255
    BY <2>1, ByteAtType DEF PathInv
  <2> QED BY <1>1, <2>2, ValueType
<1>5. p' = p + 3 /\ retVal' \in Seq(0..255) /\ path' = path
      /\ verdict' = verdict
  BY <1>1, <1>2, <1>4 DEF Append1
<1> QED BY <1>2, <1>3, <1>5 DEF PathInv, IsPath, Decoding, StaysInPath

LEMMA EndInPath == ASSUME PathInv, Refuse \/ Return \/ UNCHANGED pathVars PROVE PathInv'
BY DEF Refuse, Return, pathVars, PathInv, IsPath, Decoding, StaysInPath

LEMMA NextInPath == PathInv /\ [PathNext]_pathVars => PathInv'
BY CopyInPath, UnescapeInPath, EndInPath DEF PathNext

(* The first k bytes of the name have been decoded.                        *)
HasRead(k) == /\ p = Len(Prefixes(name)[k]) + 1
              /\ retVal = SubSeq(name, 1, k)
              /\ verdict = "done" => k = Len(name)

Encoding ==
    how = "encoded" =>
        /\ name \in Seq(Byte) /\ path = urlEncode(name)
        /\ verdict # "refused"
        /\ \E k \in 0..Len(name) : HasRead(k)

PathKept == name' = name /\ path' = path /\ how' = how

(* While there is more of an encoded path, its next bytes are those of the *)
(* next byte of the name.                                                  *)
LEMMA NextOfName ==
    ASSUME PathInv, Encoding, how = "encoded", More,
           NEW k \in 0..Len(name), HasRead(k)
    PROVE  LET c == name[k + 1]
           IN  /\ k \in 0..Len(name) - 1 /\ c \in Byte /\ p \in Nat
               /\ Len(Prefixes(name)[k + 1]) = p - 1 + Len(Chunk(c))
               /\ \A j \in 1..Len(Chunk(c)) :
                     ByteAt(p - 1 + j) = {Chunk(c)[j]}
<1> DEFINE c == name[k + 1]
           e == Prefixes(name)
           b == Len(e[k])
<1>1. /\ name \in Seq(Byte) /\ path = urlEncode(name) /\ p = b + 1
      /\ Len(name) \in Nat /\ verdict = "reading" /\ p # Len(path) + 1
  BY DEF Encoding, HasRead, More
<1>2. k # Len(name)
  <2>1. path = e[Len(name)]
    BY <1>1, PrefixSteps
  <2> HIDE DEF e
  <2> QED BY <1>1, <2>1
<1>3. k \in 0..Len(name) - 1
  BY <1>1, <1>2
<1>4. /\ c \in Byte /\ b \in Nat /\ Len(e[k + 1]) = b + Len(Chunk(c))
      /\ b + Len(Chunk(c)) <= Len(path) /\ Len(path) \in Nat
      /\ \A j \in 1..Len(Chunk(c)) : path[b + j] = Chunk(c)[j]
  BY <1>1, <1>3, NextChunk
<1>5. Chunk(c) \in Seq(Byte)
  <2> HIDE DEF c
  <2> QED BY <1>4, ChunkOf
<1>6. Len(Chunk(c)) \in Nat
  <2> HIDE DEF c
  <2> QED BY <1>5
<1> HIDE DEF c, e, b
<1>7. ASSUME NEW j \in 1..Len(Chunk(c)) PROVE ByteAt(p - 1 + j) = {Chunk(c)[j]}
  <2>1. p - 1 + j = b + j /\ b + j <= Len(path)
    BY <1>1, <1>4, <1>6
  <2> QED BY <1>4, <2>1 DEF ByteAt
<1>8. Len(e[k + 1]) = p - 1 + Len(Chunk(c)) /\ p \in Nat
  BY <1>1, <1>4, <1>6
<1> QED BY <1>3, <1>4, <1>7, <1>8 DEF c, e

(* A step that decodes one byte of the name as it was.                     *)
LEMMA ReadOneMore ==
    ASSUME Encoding, how = "encoded", PathKept, verdict' = verdict, verdict = "reading",
           NEW k \in 0..Len(name) - 1, HasRead(k),
           p' = Len(Prefixes(name)[k + 1]) + 1,
           retVal' = Append(retVal, name[k + 1])
    PROVE  Encoding'
<1>1. name \in Seq(Byte) /\ path = urlEncode(name) /\ Len(name) \in Nat
      /\ retVal = SubSeq(name, 1, k)
  BY DEF Encoding, HasRead
<1>2. retVal' = SubSeq(name, 1, k + 1)
  BY <1>1, GrowsByOne
<1>3. k + 1 \in 0..Len(name)
  BY <1>1
<1>4. HasRead(k + 1)'
  BY <1>2 DEF HasRead, PathKept
<1> QED BY <1>1, <1>3, <1>4 DEF Encoding, PathKept

LEMMA CopyStep == ASSUME PathInv, Encoding, Copy PROVE Encoding'
<1>1. PICK x \in ByteAt(p) :
          x # Percent /\ Append1(1, IF x = Plus THEN Space ELSE x)
  BY DEF Copy
<1>2. PathKept /\ verdict' = verdict /\ verdict = "reading" /\ More /\ p' = p + 1
  BY <1>1 DEF Copy, Append1, PathKept, More
<1> SUFFICES ASSUME how = "encoded" PROVE Encoding'
  BY <1>2 DEF Encoding, PathKept
<1>3. PICK k \in 0..Len(name) : HasRead(k)
  BY DEF Encoding
<1> DEFINE c == name[k + 1]
           n == Len(Chunk(c))
<1>4. /\ k \in 0..Len(name) - 1 /\ c \in Byte /\ p \in Nat
      /\ Len(Prefixes(name)[k + 1]) = p - 1 + n
      /\ \A j \in 1..n : ByteAt(p - 1 + j) = {Chunk(c)[j]}
  BY <1>2, <1>3, NextOfName
<1> HIDE DEF c, n
<1>5. n \in {1, 3} /\ (IsPlain(c) => n = 1 /\ Chunk(c)[1] = c /\ c # Plus)
      /\ (~IsPlain(c) => Chunk(c)[1] = Percent)
  BY <1>4, ChunkOf DEF n
<1>6. x = Chunk(c)[1]
  <2>1. 1 \in 1..n /\ p - 1 + 1 = p
    BY <1>4, <1>5
  <2>2. ByteAt(p) = {Chunk(c)[1]}
    BY <1>4, <2>1
  <2> QED BY <1>1, <2>2
<1>7. IsPlain(c) /\ x = c /\ x # Plus /\ n = 1
  BY <1>1, <1>5, <1>6
<1>8. retVal' = Append(retVal, c)
  BY <1>1, <1>7 DEF Append1
<1>9. p' = Len(Prefixes(name)[k + 1]) + 1
  BY <1>2, <1>4, <1>7
<1> QED BY <1>2, <1>3, <1>4, <1>8, <1>9, ReadOneMore DEF c

(* What stands behind a '%' of an encoded path: the digits of the byte.    *)
LEMMA EscapedByte ==
    ASSUME PathInv, Encoding, how = "encoded", More, Percent \in ByteAt(p),
           NEW k \in 0..Len(name), HasRead(k)
    PROVE  LET c == name[k + 1]
           IN  /\ k \in 0..Len(name) - 1 /\ p \in Nat
               /\ Len(Prefixes(name)[k + 1]) = p + 2
               /\ \A x \in ByteAt(p + 1), y \in ByteAt(p + 2) :
                     Converts(x, y) /\ Value(x, y) = c
<1> DEFINE c == name[k + 1]
           n == Len(Chunk(c))
           h == c \div 16
           l == c % 16
<1>1. /\ k \in 0..Len(name) - 1 /\ c \in Byte /\ p \in Nat
      /\ Len(Prefixes(name)[k + 1]) = p - 1 + n
      /\ \A j \in 1..n : ByteAt(p - 1 + j) = {Chunk(c)[j]}
  BY NextOfName
<1>2. /\ IsPlain(c) => n = 1 /\ Chunk(c)[1] = c /\ c # Percent
      /\ ~IsPlain(c) => /\ n = 3 /\ Chunk(c)[2] = Digit(h)
                         /\ Chunk(c)[3] = Digit(l)
  <2> HIDE DEF c
  <2> QED BY <1>1, ChunkOf
<1>3. h \in 0..15 /\ l \in 0..15 /\ 16 * h + l = c
  <2> HIDE DEF c
  <2> QED BY <1>1, DigitOfHalf
<1> HIDE DEF c, n, h, l
<1>4. n = 3 /\ ~IsPlain(c)
  <2>1. ASSUME IsPlain(c) PROVE FALSE
    <3>1. 1 \in 1..n /\ p - 1 + 1 = p
      BY <1>1, <1>2, <2>1
    <3>2. ByteAt(p) = {Chunk(c)[1]}
      BY <1>1, <3>1
    <3> QED BY <1>2, <2>1, <3>2
  <2> QED BY <1>2, <2>1
<1>5. ByteAt(p + 1) = {Digit(h)} /\ ByteAt(p + 2) = {Digit(l)}
  <2>1. p - 1 + 2 = p + 1 /\ p - 1 + 3 = p + 2 /\ 2 \in 1..n /\ 3 \in 1..n
    BY <1>1, <1>4
  <2> QED BY <1>1, <1>2, <1>4, <2>1
<1>6. Hex[Digit(h)] = h /\ Hex[Digit(l)] = l
  BY <1>3, DigitIsHex
<1>7. Converts(Digit(h), Digit(l)) /\ Value(Digit(h), Digit(l)) = c
  <2> DEFINE x == Digit(h)
             y == Digit(l)
  <2>1. Hex[x] = h /\ Hex[y] = l
    BY <1>6
  <2> HIDE DEF x, y
  <2>2. IsHex(x) /\ IsHex(y)
    BY <1>3, <2>1 DEF IsHex
  <2>3. Converts(x, y) /\ Value(x, y) = c
    BY <1>3, <2>1, <2>2 DEF Converts, Value
  <2> QED BY <2>3 DEF x, y
<1>8. Len(Prefixes(name)[k + 1]) = p + 2
  BY <1>1, <1>4
<1> QED BY <1>1, <1>5, <1>7, <1>8 DEF c

LEMMA UnescapeStep == ASSUME PathInv, Encoding, Unescape PROVE Encoding'
<1>1. PICK x \in ByteAt(p + 1), y \in ByteAt(p + 2) : Append1(3, Value(x, y))
  BY DEF Unescape
<1>2. PathKept /\ verdict' = verdict /\ verdict = "reading" /\ More /\ p' = p + 3
  BY <1>1 DEF Unescape, Append1, PathKept, More
<1> SUFFICES ASSUME how = "encoded" PROVE Encoding'
  BY <1>2 DEF Encoding, PathKept
<1>3. PICK k \in 0..Len(name) : HasRead(k)
  BY DEF Encoding
<1>4. /\ k \in 0..Len(name) - 1 /\ p \in Nat
      /\ Len(Prefixes(name)[k + 1]) = p + 2
      /\ Value(x, y) = name[k + 1]
  BY <1>1, <1>2, <1>3, EscapedByte DEF Unescape
<1>5. retVal' = Append(retVal, name[k + 1])
  BY <1>1, <1>4 DEF Append1
<1>6. p' = Len(Prefixes(name)[k + 1]) + 1
  BY <1>2, <1>4
<1> QED BY <1>2, <1>3, <1>4, <1>5, <1>6, ReadOneMore

LEMMA RefuseStep == ASSUME PathInv, Encoding, Refuse PROVE Encoding'
<1>1. PathKept /\ More /\ Percent \in ByteAt(p)
  BY DEF Refuse, PathKept
<1>2. how # "encoded"
  <2> SUFFICES ASSUME how = "encoded" PROVE FALSE
    OBVIOUS
  <2>1. PICK k \in 0..Len(name) : HasRead(k)
    BY DEF Encoding
  <2>2. \A x \in ByteAt(p + 1), y \in ByteAt(p + 2) : Converts(x, y)
    BY <1>1, <2>1, EscapedByte
  <2> QED BY <2>2 DEF Refuse
<1> QED BY <1>1, <1>2 DEF Encoding, PathKept

LEMMA ReturnStep == ASSUME PathInv, Encoding, Return PROVE Encoding'
<1>1. PathKept /\ verdict' = "done" /\ p' = p /\ retVal' = retVal
      /\ p = Len(path) + 1
  BY DEF Return, PathKept, More
<1> SUFFICES ASSUME how = "encoded" PROVE Encoding'
  BY <1>1 DEF Encoding, PathKept
<1>2. PICK k \in 0..Len(name) : HasRead(k)
  BY DEF Encoding
<1>3. /\ name \in Seq(Byte) /\ path = urlEncode(name) /\ Len(name) \in Nat
      /\ p = Len(Prefixes(name)[k]) + 1
  BY <1>2 DEF Encoding, HasRead
<1>4. k = Len(name)
  <2> SUFFICES ASSUME k \in 0..Len(name) - 1 PROVE FALSE
    BY <1>3
  <2> DEFINE b == Len(Prefixes(name)[k])
             c == name[k + 1]
  <2>1. /\ c \in Byte /\ b \in Nat /\ b + Len(Chunk(c)) <= Len(path)
        /\ Len(path) \in Nat
    BY <1>3, NextChunk
  <2>2. Len(Chunk(c)) \in {1, 3}
    <3> HIDE DEF c
    <3> QED BY <2>1, ChunkOf
  <2> HIDE DEF b, c
  <2>3. b = Len(path)
    <3>1. b + 1 = Len(path) + 1
      BY <1>1, <1>3 DEF b
    <3> QED BY <2>1, <3>1
  <2> DEFINE n == Len(Chunk(c))
  <2>4. n \in {1, 3} /\ b + n <= Len(path) /\ Len(path) \in Nat /\ b = Len(path)
    BY <2>1, <2>2, <2>3
  <2> HIDE DEF n
  <2> QED BY <2>4
<1>5. HasRead(k)'
  BY <1>1, <1>2, <1>4 DEF HasRead, PathKept
<1> QED BY <1>1, <1>3, <1>5 DEF Encoding, PathKept

PathIInv == PathTypeOK /\ PathInv /\ Encoding

LEMMA PathInitIInv == PathInit => PathIInv
<1> SUFFICES ASSUME PathInit PROVE PathIInv
  OBVIOUS
<1>1. Bytes \subseteq Byte /\ MaxName \in Nat /\ MaxTyped \in Nat
  BY PathsAssumption DEF Byte
<1>2. p = 1 /\ retVal = <<>> /\ verdict = "reading"
  BY DEF PathInit
<1>3. CASE how = "encoded" /\ path = urlEncode(name)
           /\ name \in UNION {[1..n -> Bytes] : n \in 1..MaxName}
  <2>1. PICK n \in 1..MaxName : name \in [1..n -> Bytes]
    BY <1>3
  <2>2. n \in Nat /\ name \in Seq(Bytes)
    BY <1>1, <2>1
  <2>3. name \in Seq(Byte)
    <3>1. name \in [1..n -> Byte]
      BY <1>1, <2>1
    <3> HIDE DEF Byte
    <3> QED BY <2>2, <3>1
  <2> DEFINE m == Len(name)
             e == Prefixes(name)
  <2>4. m \in Nat /\ 0 \in 0..m /\ m \in 0..m
    <3>1. Len(name) \in Nat
      BY <2>3
    <3> QED BY <3>1
  <2>5. e[0] = <<>> /\ urlEncode(name) = e[m] /\ e[m] \in Seq(Byte)
    <3> HIDE DEF m
    <3> QED BY <2>3, <2>4, PrefixSteps DEF m
  <2>6. path \in Seq(Byte)
    BY <1>3, <2>5
  <2>7. HasRead(0)
    <3>1. SubSeq(name, 1, 0) = <<>> /\ Len(<<>>) = 0
      OBVIOUS
    <3>2. p = Len(e[0]) + 1
      BY <1>2, <2>5, <3>1
    <3> QED BY <1>2, <3>1, <3>2 DEF HasRead
  <2>8. Encoding
    BY <1>2, <1>3, <2>3, <2>4, <2>7 DEF Encoding
  <2>9. Len(path) \in Nat
    BY <2>6
  <2>10. PathInv
    BY <1>2, <2>6, <2>9 DEF PathInv, IsPath, Decoding, StaysInPath
  <2>11. PathTypeOK
    BY <1>2, <1>3, <2>2, <2>6 DEF PathTypeOK, Byte
  <2> QED BY <2>8, <2>10, <2>11 DEF PathIInv
<1>4. CASE how = "typed" /\ name = <<>>
           /\ path \in UNION {[1..n -> Bytes] : n \in 0..MaxTyped}
  <2>1. PICK n \in 0..MaxTyped : path \in [1..n -> Bytes]
    BY <1>4
  <2>2. path \in Seq(Byte)
    <3>1. path \in [1..n -> Byte] /\ n \in Nat
      BY <1>1, <2>1
    <3> HIDE DEF Byte
    <3> QED BY <3>1
  <2>3. Len(path) \in Nat
    BY <2>2
  <2>4. PathInv
    BY <1>2, <2>2, <2>3 DEF PathInv, IsPath, Decoding, StaysInPath
  <2>5. PathTypeOK
    BY <1>2, <1>4, <2>2 DEF PathTypeOK, Byte
  <2>6. Encoding
    BY <1>4 DEF Encoding
  <2> QED BY <2>4, <2>5, <2>6 DEF PathIInv
<1> QED BY <1>3, <1>4 DEF PathInit

LEMMA PathNextIInv == PathIInv /\ [PathNext]_pathVars => PathIInv'
<1> SUFFICES ASSUME PathIInv, [PathNext]_pathVars PROVE PathIInv'
  OBVIOUS
<1>1. PathInv'
  BY NextInPath DEF PathIInv
<1>2. name' = name /\ path' = path /\ how' = how
  BY DEF PathNext, Copy, Unescape, Refuse, Return, Append1, pathVars
<1>3. PathTypeOK'
  BY <1>1, <1>2 DEF PathIInv, PathTypeOK, PathInv, Decoding
<1>4. ASSUME UNCHANGED pathVars PROVE Encoding'
  BY <1>4 DEF PathIInv, Encoding, HasRead, pathVars
<1>5. Encoding'
  BY <1>4, CopyStep, UnescapeStep, RefuseStep, ReturnStep DEF PathIInv, PathNext
<1> QED BY <1>1, <1>3, <1>5 DEF PathIInv

THEOREM PathAlways == PathSpec => []PathIInv
BY PathInitIInv, PathNextIInv, PTL DEF PathSpec

(* What is decoded are bytes, from any path.                               *)
THEOREM PathTyped == PathSpec => []PathTypeOK
<1>1. PathIInv => PathTypeOK
  BY DEF PathIInv
<1> QED BY <1>1, PathAlways, PTL

(* Between its rounds parsePath's iterator is never beyond the end of the  *)
(* path, whatever it consists of and whoever made it: a '%' among its last *)
(* bytes is refused, though only after the bytes behind it were read.      *)
THEOREM AlwaysInPath == PathSpec => []StaysInPath
<1>1. PathIInv => StaysInPath
  BY DEF PathIInv, PathInv
<1> QED BY <1>1, PathAlways, PTL

(* parsePath undoes urlEncode: a name of any length, of any bytes but the  *)
(* terminating zero, is not refused and is what comes out at the end.      *)
THEOREM EncodedIsAlwaysFound == PathSpec => []EncodedIsFound
<1>1. ASSUME PathIInv PROVE EncodedIsFound
  <2> SUFFICES ASSUME how = "encoded"
               PROVE  verdict # "refused" /\ (verdict = "done" => retVal = name)
    BY DEF EncodedIsFound
  <2>1. name \in Seq(Byte) /\ verdict # "refused"
    BY <1>1 DEF PathIInv, Encoding
  <2>2. PICK k \in 0..Len(name) : HasRead(k)
    BY <1>1 DEF PathIInv, Encoding
  <2>3. SubSeq(name, 1, Len(name)) = name
    BY <2>1, SubSeqFull
  <2> QED BY <2>1, <2>2, <2>3 DEF HasRead
<1> QED BY <1>1, PathAlways, PTL

(* And so does libpq: what the connection is asked for is what was set.    *)
THEOREM UriIsAlwaysRead == PathSpec => []UriIsRead
<1>1. PathIInv => UriIsRead
  BY LibpqReadsEncoded DEF PathIInv, Encoding, UriIsRead
<1> QED BY <1>1, PathAlways, PTL

=============================================================================
