------------------------------- MODULE Server -------------------------------
(***************************************************************************)
(* The server as its database sees it: every request is given a handler of *)
(* its own by MimeographerHandlerFactory, and every handler a connection   *)
(* of its own (HandlerBase::db), from the request's first header to the    *)
(* end of its answer.  The callbacks of a request run to their end, one at *)
(* a time, on the event-base thread that accepted it, and a query blocks   *)
(* the thread; connections count against PostgreSQL's max_connections.     *)
(***************************************************************************)
EXTENDS Naturals, FiniteSets

CONSTANTS
    Requests,            \* requests there can be at once
    Threads,             \* FLAGS_threads
    Nobody,
    Cookies,             \* kinds of Cookie headers that requests come with
    MaxConns,            \* max_connections
    DbMayStop,           \* whether the database can be down for a while
    MaxRestarts          \* bound: times the database restarts or stops

ASSUME RequestsAssumption == IsFiniteSet(Requests) /\ Nobody \notin Requests
ASSUME CookiesAssumption == Cookies \subseteq {"valued", "valueless"}
ASSUME MaxConnsAssumption == MaxConns \in Nat
ASSUME ServerAssumption == DbMayStop \in BOOLEAN /\ MaxRestarts \in Nat

VARIABLES
    up,                  \* the server's process runs
    db,                  \* the database takes connections
    open,                \* requests whose connection the database serves
    stage,               \* stage[r]: how far request r is
    thread,              \* thread[r]: where it was accepted
    cookie,              \* cookie[r]: whether each cookie parsed has a value
    running,             \* running[t]: whose callback thread t is in
    restarts             \* so many times has the database gone away

vars == <<up, db, open, stage, thread, cookie, running, restarts>>

(* The type invariant: in particular a thread is in a callback exactly for *)
(* the request that is in the midst of one.                                *)
InCallback == {"connect", "session", "process"}

TypeOK ==
    /\ up \in BOOLEAN /\ db \in {"up", "down"}
    /\ open \subseteq Requests
    /\ stage \in [Requests -> InCallback \cup {"none", "body", "sending"}]
    /\ thread \in [Requests -> Threads]
    /\ cookie \in [Requests -> {"valued", "valueless"}]
    /\ running \in [Threads -> Requests \cup {Nobody}]
    /\ \A r \in Requests :
          stage[r] \in InCallback <=> running[thread[r]] = r
    /\ restarts \in 0..MaxRestarts

Init == /\ up = TRUE /\ db = "up" /\ open = {}
        /\ stage = [r \in Requests |-> "none"]
        /\ thread \in [Requests -> Threads]
        /\ cookie = [r \in Requests |-> "valued"]
        /\ running = [t \in Threads |-> Nobody]
        /\ restarts = 0

-----------------------------------------------------------------------------

Enter(r, t, s) == /\ running[t] = Nobody
                  /\ running' = [running EXCEPT ![t] = r]
                  /\ stage' = [stage EXCEPT ![r] = s]

(* Mutant: the callback ends, and its thread does not know.                *)
LeaveUnnoticed(r, s) == /\ stage' = [stage EXCEPT ![r] = s]
                        /\ UNCHANGED running

Leave(r, s) == /\ running' = [running EXCEPT ![thread[r]] = Nobody]
               /\ stage' = [stage EXCEPT ![r] = s]

(* The factory makes a handler of one class or another, all HandlerBases.  *)
Accept(r, t) ==
    /\ up /\ stage[r] = "none"
    /\ \E c \in Cookies : cookie' = [cookie EXCEPT ![r] = c]
    /\ thread' = [thread EXCEPT ![r] = t]
    /\ Enter(r, t, "connect")
    /\ UNCHANGED <<up, db, open, restarts>>

(* The constructor of DBConn: PQconnectdb.                                 *)
Connectable == db = "up" /\ Cardinality(open) < MaxConns

Connect(r) == /\ up /\ stage[r] = "connect" /\ Connectable
              /\ stage' = [stage EXCEPT ![r] = "session"]
              /\ open' = open \cup {r}
              /\ UNCHANGED <<up, db, thread, cookie, running, restarts>>

(* Something is wrong in a callback, all of which are noexcept.            *)
Terminate == /\ up' = FALSE /\ open' = {}
             /\ stage' = [q \in Requests |-> "none"]
             /\ running' = [t \in Threads |-> Nobody]
             /\ UNCHANGED <<db, thread, cookie, restarts>>

(* DBError leaves the factory's onRequest.                                 *)
FailToConnect(r) == /\ up /\ stage[r] = "connect" /\ ~Connectable
                    /\ Terminate

(* HandlerBase::onRequest and StaticHandler's, which parses nothing if the *)
(* method is not GET.  First parseCookies: after the name of a cookie such *)
(* as "a=" strtok_r finds nothing, and the null pointer that it returns is *)
(* assigned to a string.                                                   *)
ParseValueless(r) == /\ up /\ stage[r] = "session" /\ cookie[r] = "valueless"
                     /\ Terminate

(* Then initSession, which catches the DBError of each of its queries, so  *)
(* it ends on a broken connection too.                                     *)
InitSession(r) == /\ up /\ stage[r] = "session" /\ cookie[r] = "valued"
                  /\ Leave(r, "body")
                  /\ UNCHANGED <<up, db, open, thread, cookie, restarts>>

(* onEOM, or the rest of StaticHandler::onRequest ...                      *)
ProcessRequest(r) == /\ up /\ stage[r] = "body"
                     /\ Enter(r, thread[r], "process")
                     /\ UNCHANGED <<up, db, open, thread, cookie, restarts>>

(* ... catches whatever it throws, and sends a page or an error.           *)
Reply(r) == /\ up /\ stage[r] = "process"
            /\ Leave(r, "sending")
            /\ UNCHANGED <<up, db, open, thread, cookie, restarts>>

(* Mutant: PGconnCleaner without PQfinish.                                 *)
Forget(r) == open' = open

(* delete this: PGconnCleaner calls PQfinish.                              *)
Delete(r) == open' = open \ {r}

(* Mutant: onError does not end a request that has not been answered.      *)
EndAnswered(r) == /\ up /\ running[thread[r]] = Nobody
                  /\ stage[r] = "sending"
                  /\ Delete(r)
                  /\ stage' = [stage EXCEPT ![r] = "none"]
                  /\ UNCHANGED <<up, db, thread, cookie, running, restarts>>

(* requestComplete, and onError: the client went away, or was idle for     *)
(* idleTimeout.  (When StaticHandler waits for its reader is the subject   *)
(* of the module of that name.)                                            *)
End(r) == /\ up /\ running[thread[r]] = Nobody
          /\ stage[r] \in {"body", "sending"}
          /\ Delete(r)
          /\ stage' = [stage EXCEPT ![r] = "none"]
          /\ UNCHANGED <<up, db, thread, cookie, running, restarts>>

-----------------------------------------------------------------------------
(* The database.  A restart ends every connection; DBConn makes no new     *)
(* one, and each query of the handlers that had one fails.                 *)

GoAway == /\ restarts < MaxRestarts /\ db = "up"
          /\ restarts' = restarts + 1
          /\ open' = {}
          /\ UNCHANGED <<up, stage, thread, cookie, running>>

DbRestart == GoAway /\ db' = db

DbStop == DbMayStop /\ GoAway /\ db' = "down"

DbStart == /\ db = "down" /\ db' = "up"
           /\ UNCHANGED <<up, open, stage, thread, cookie, running, restarts>>

-----------------------------------------------------------------------------

Next == \/ \E r \in Requests :
              \/ \E t \in Threads : Accept(r, t)
              \/ Connect(r) \/ FailToConnect(r)
              \/ ParseValueless(r) \/ InitSession(r)
              \/ ProcessRequest(r) \/ Reply(r) \/ End(r)
        \/ DbRestart \/ DbStop \/ DbStart

Spec == Init /\ [][Next]_vars

(* A callback goes on (connect_timeout bounds the longest wait).  An event *)
(* base serves its events in turn, so that a request whose transaction is  *)
(* over, at the latest by idleTimeout, is told so between the callbacks of *)
(* others.  A client that sends a byte now and then forever is left out.   *)
Fairness == \A r \in Requests :
               /\ WF_vars(Connect(r) \/ FailToConnect(r))
               /\ WF_vars(ParseValueless(r) \/ InitSession(r))
               /\ WF_vars(Reply(r))
               /\ SF_vars(End(r))

FairSpec == Spec /\ Fairness

-----------------------------------------------------------------------------
(* Properties.                                                             *)

(* Requests whose handler exists.                                          *)
Served == {r \in Requests : stage[r] \notin {"none", "connect"}}

(* The process survives whatever becomes of the connections it has.  It    *)
(* ends only by a request that comes while the database is down, or while  *)
(* as many others as there can be connections are really under way: no     *)
(* restart and no request that went wrong takes a connection away for good;*)
(* or by a request with a cookie that has no value, when it is parsed.     *)
Survives ==
    [][up' # up => \/ db = "down" \/ Cardinality(Served) >= MaxConns
                   \/ \E r \in Requests : /\ stage[r] = "session"
                                          /\ cookie[r] = "valueless"]_vars

(* Only a handler that exists keeps a connection, so there are never more  *)
(* of them than requests: also when the database restarts in the midst of  *)
(* a request, and when the client does not wait for the answer.            *)
ConnectionsAreHeld ==
    /\ \A r \in open : stage[r] \notin {"none", "connect"}
    /\ Cardinality(open) <= MaxConns

(* Every connection is returned: none is kept by a request nobody waits    *)
(* for any more.                                                           *)
ConnectionsReturned == \A r \in Requests : r \in open ~> r \notin open

=============================================================================
