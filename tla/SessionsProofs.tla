--------------------------- MODULE SessionsProofs ---------------------------
(***************************************************************************)
(* Proofs about Sessions for any number of browsers, users, sessions and   *)
(* concurrent requests, with or without failing queries.                   *)
(***************************************************************************)
EXTENDS Sessions, TLAPS

(* A request at step s with locals q belongs to the browser its session    *)
(* was made for, acts on a password given there, and has the locals the    *)
(* rest of its operation uses.                                             *)
Fits(s, q) ==
    /\ maker[q.uuid] = q.browser
    /\ q.uid # None => <<q.browser, q.uuid, q.uid>> \in proved
    /\ s = "map" => <<q.browser, q.uuid, q.user>> \in proved
    /\ s = "lookup" => q.uid = None
    /\ s \in {"lookup", "refresh", "body"} =>
          /\ q.op = "login" => q.user \in Users
          /\ q.op = "save" => q.key \in Keys \cup {Blank}
    /\ s \in {"password", "map"} => q.user \in Users
    /\ s \in {"unmap", "issue", "verify"} => q.uid \in Users
    /\ s = "verify" => q.key \in Keys \cup {Blank}

RequestsFit == \A r \in Requests : Active(r) => Fits(pc[r], req[r])

(* A browser's cookie is a session made for it.                            *)
Cookies == \A b \in Browsers : jar[b] # None => maker[jar[b]] = b

(* A row of user_session is the trace of a password given in the session.  *)
Rows ==
    \A s \in Sids, u \in Users :
        mapping[s][u] # NoRow => <<maker[s], s, u>> \in proved

(* A key in a row was saved since the row was made; without one, nothing   *)
(* was.                                                                    *)
KeysIssued ==
    \A s \in Sids, u \in Users :
        /\ mapping[s][u] \in Keys => mapping[s][u] \in issued[s][u]
        /\ mapping[s][u] \notin Keys => issued[s][u] = {}

IInv == TypeOK /\ RequestsFit /\ Cookies /\ Rows /\ KeysIssued

-----------------------------------------------------------------------------
(* What each step keeps.                                                   *)

(* History only grows: a session made for a browser stays that browser's,  *)
(* and a password once given stays given.                                  *)
Grows ==
    /\ maker' \in [Sids -> Browsers \cup {None}]
    /\ \A s \in Sids : maker[s] # None => maker'[s] = maker[s]
    /\ proved \subseteq proved'
    /\ proved' \subseteq Browsers \X Sids \X Users

RequestsOK ==
    /\ pc \in [Requests -> Steps]
    /\ req \in [Requests -> Request \cup {None}]
    /\ \A r \in Requests : pc[r] # "idle" => req[r] \in Request
    /\ RequestsFit

LEMMA FitsKept ==
    ASSUME TypeOK, Grows, NEW s \in Steps, NEW q \in Request, Fits(s, q)
    PROVE  Fits(s, q)'
<1>1. q.uuid \in Sids /\ q.browser \in Browsers
  BY DEF Request
<1>2. maker'[q.uuid] = q.browser
  BY <1>1, BrowsersAssumption DEF Fits, Grows
<1> QED BY <1>2 DEF Fits, Grows

(* A request that moves on to a step that fits leaves the others alone.    *)
LEMMA Move ==
    ASSUME IInv, Grows, NEW r \in Requests, NEW s \in Steps, NEW q \in Request,
           Continue(r, s, q), Fits(s, q)'
    PROVE  RequestsOK'
<1>1. /\ pc' \in [Requests -> Steps]
      /\ pc'[r] = s /\ \A x \in Requests \ {r} : pc'[x] = pc[x]
  BY DEF IInv, TypeOK, Continue
<1>2. /\ req' \in [Requests -> Request \cup {None}]
      /\ req'[r] = q /\ \A x \in Requests \ {r} : req'[x] = req[x]
  BY DEF IInv, TypeOK, Continue
<1>3. \A x \in Requests : pc'[x] # "idle" => req'[x] \in Request
  BY <1>1, <1>2 DEF IInv, TypeOK
<1>4. ASSUME NEW x \in Requests, Active(x)'
      PROVE  Fits(pc[x], req[x])'
  <2>1. CASE x = r
    BY <2>1, <1>1, <1>2 DEF Fits
  <2>2. CASE x # r
    <3>1. /\ pc'[x] = pc[x] /\ req'[x] = req[x]
          /\ Active(x) /\ pc[x] \in Steps /\ req[x] \in Request
      BY <1>1, <1>2, <1>4, <2>2 DEF Active, IInv, TypeOK
    <3>2. Fits(pc[x], req[x])
      BY <3>1 DEF IInv, RequestsFit
    <3> DEFINE p == pc[x]
               l == req[x]
    <3>3. Fits(p, l)
      BY <3>2
    <3> HIDE DEF p, l
    <3>4. maker'[l.uuid] = maker[l.uuid] /\ proved \subseteq proved'
      <4>1. l.uuid \in Sids /\ l.browser \in Browsers
        BY <3>1 DEF l, Request
      <4> QED BY <3>3, <4>1, BrowsersAssumption DEF Fits, Grows
    <3>5. p = pc'[x] /\ l = req'[x]
      BY <3>1 DEF p, l
    <3> QED BY <3>3, <3>4, <3>5 DEF Fits
  <2> QED BY <2>1, <2>2
<1> QED BY <1>1, <1>2, <1>3, <1>4 DEF RequestsOK, RequestsFit

(* A session that is not yet anybody's has no rows in user_session.        *)
LEMMA FreshHasNoRows ==
    ASSUME IInv, NEW s \in FreshSids, NEW u \in Users
    PROVE  mapping[s][u] = NoRow
<1>1. s \in Sids /\ maker[s] = None
  BY DEF FreshSids
<1>2. SUFFICES ASSUME mapping[s][u] # NoRow PROVE FALSE
  OBVIOUS
<1>3. <<None, s, u>> \in Browsers \X Sids \X Users
  BY <1>1, <1>2 DEF IInv, TypeOK, Rows
<1> QED BY <1>3, BrowsersAssumption

LEMMA RowsKept ==
    ASSUME IInv, Grows, UNCHANGED <<mapping, issued>>
    PROVE  Rows' /\ KeysIssued'
<1>1. ASSUME NEW s \in Sids, NEW u \in Users, mapping[s][u] # NoRow
      PROVE  <<maker'[s], s, u>> \in proved'
  <2>1. <<maker[s], s, u>> \in proved
    BY <1>1 DEF IInv, Rows
  <2>2. maker[s] # None
    BY <2>1, BrowsersAssumption DEF IInv, TypeOK
  <2> QED BY <2>1, <2>2 DEF Grows
<1> QED BY <1>1 DEF Rows, KeysIssued, IInv

LEMMA CookiesKept ==
    ASSUME IInv, Grows, jar' = jar
    PROVE  Cookies'
  BY BrowsersAssumption DEF IInv, TypeOK, Cookies, Grows

LEMMA InitIInv == Init => IInv
<1> SUFFICES ASSUME Init PROVE IInv
  OBVIOUS
<1>1. StoreTypeOK
  BY DEF Init, StoreInit, StoreTypeOK
<1>2. TypeOK
  BY <1>1 DEF Init, TypeOK, Steps
<1>3. RequestsFit /\ Cookies
  BY DEF Init, RequestsFit, Active, Cookies
<1>4. Rows /\ KeysIssued
  BY StoreAssumption DEF Init, StoreInit, Rows, KeysIssued
<1> QED BY <1>2, <1>3, <1>4 DEF IInv

(* Steps that only move a request: no table, cookie or history changes.    *)
LEMMA PlainMove ==
    ASSUME IInv, NEW r \in Requests, NEW s \in Steps, NEW q \in Request,
           Continue(r, s, q), Fits(s, q),
           UNCHANGED <<mapping, jar, history>>,
           sess' \in [Sids -> {"absent", "live", "stale"}]
    PROVE  IInv'
<1>1. Grows
  BY DEF Grows, IInv, TypeOK, history
<1>2. RequestsOK'
  BY <1>1, Move, FitsKept DEF IInv
<1>3. Rows' /\ KeysIssued' /\ Cookies'
  BY <1>1, RowsKept, CookiesKept DEF history
<1>4. TypeOK'
  BY <1>2 DEF IInv, TypeOK, StoreTypeOK, RequestsOK, history
<1> QED BY <1>2, <1>3, <1>4 DEF IInv, RequestsOK

(* Changing one entry of a table indexed by session and user.              *)
LEMMA EntryChange ==
    ASSUME NEW T, NEW f \in [Sids -> [Users -> T]],
           NEW s \in Sids, NEW u \in Users, NEW v \in T,
           NEW g, g = [f EXCEPT ![s][u] = v]
    PROVE  /\ g \in [Sids -> [Users -> T]]
           /\ g[s][u] = v
           /\ \A x \in Sids, y \in Users :
                 ~(x = s /\ y = u) => g[x][y] = f[x][y]
<1>1. f[s] \in [Users -> T]
  OBVIOUS
<1>2. g = [f EXCEPT ![s] = [f[s] EXCEPT ![u] = v]]
  OBVIOUS
<1>3. g[s] = [f[s] EXCEPT ![u] = v] /\ \A x \in Sids : x # s => g[x] = f[x]
  BY <1>2
<1> QED BY <1>1, <1>2, <1>3

(* What is known of a request under way.                                   *)
LEMMA UnderWay ==
    ASSUME IInv, NEW r \in Requests, Active(r)
    PROVE  /\ req[r] \in Request /\ Fits(pc[r], req[r])
           /\ req[r].uuid \in Sids /\ req[r].browser \in Browsers
           /\ req[r].uid \in Users \cup {None}
<1>1. req[r] \in Request
  BY DEF Active, IInv, TypeOK
<1>2. /\ req[r].uuid \in Sids /\ req[r].browser \in Browsers
      /\ req[r].uid \in Users \cup {None}
  BY <1>1 DEF Request
<1> QED BY <1>1, <1>2 DEF Active, IInv, RequestsFit

(* What is left of a request once its reply is settled.                    *)
LEMMA Answered ==
    ASSUME IInv, NEW r \in Requests, Active(r),
           NEW kind \in {"page", "redirect", "error"}
    PROVE  /\ [req[r] EXCEPT !.reply = kind] \in Request
           /\ Fits("reply", [req[r] EXCEPT !.reply = kind])
<1>1. req[r] \in Request /\ Fits(pc[r], req[r])
  BY UnderWay
<1>2. [req[r] EXCEPT !.reply = kind] \in Request
  BY <1>1 DEF Request
<1>3. /\ [req[r] EXCEPT !.reply = kind].uuid = req[r].uuid
      /\ [req[r] EXCEPT !.reply = kind].browser = req[r].browser
      /\ [req[r] EXCEPT !.reply = kind].uid = req[r].uid
  BY <1>1 DEF Request
<1> QED BY <1>1, <1>2, <1>3 DEF Fits

LEMMA AnswerStep ==
    ASSUME IInv, NEW r \in Requests, Active(r),
           NEW kind \in {"page", "redirect", "error"}, Answer(r, kind),
           UNCHANGED <<store, jar, history>>
    PROVE  IInv'
<1>1. Continue(r, "reply", [req[r] EXCEPT !.reply = kind])
  BY DEF Answer
<1>2. sess' \in [Sids -> {"absent", "live", "stale"}] /\ mapping' = mapping
  BY DEF store, IInv, TypeOK, StoreTypeOK
<1> QED BY <1>1, <1>2, Answered, PlainMove DEF Steps

(* Steps of a request that keeps its locals.                               *)
LEMMA OnwardStep ==
    ASSUME IInv, NEW r \in Requests, Active(r), NEW s \in Steps,
           Continue(r, s, req[r]), Fits(s, req[r]),
           UNCHANGED <<store, jar, history>>
    PROVE  IInv'
<1>1. sess' \in [Sids -> {"absent", "live", "stale"}] /\ mapping' = mapping
  BY DEF store, IInv, TypeOK, StoreTypeOK
<1> QED BY <1>1, UnderWay, PlainMove

-----------------------------------------------------------------------------
(* Each action keeps IInv.                                                 *)

LEMMA ArriveStep ==
    ASSUME IInv, NEW r \in Requests, NEW b \in Browsers, NEW op \in Ops,
           NEW u \in Users \cup {None}, NEW k \in Keys \cup {Blank, None},
           Arrive(r, b, op, u, k)
    PROVE  IInv'
<1>1. /\ op = "login" => u \in Users
      /\ op = "save" => k \in Keys \cup {Blank}
  BY DEF Arrive, IInv, TypeOK
<1>2. ASSUME NEW s \in Sids
      PROVE  Arriving(b, op, s, u, k) \in Request
  BY DEF Arriving, Request
<1>3. CASE jar[b] = None
  <2>1. PICK s \in FreshSids :
           /\ maker' = [maker EXCEPT ![s] = b]
           /\ Continue(r, "refresh", Arriving(b, op, s, u, k))
    BY <1>3 DEF Arrive, ArriveNew, ArriveKnown
  <2>2. s \in Sids /\ maker[s] = None
    BY DEF FreshSids
  <2>3. Grows /\ maker'[s] = b
    BY <2>1, <2>2 DEF Grows, IInv, TypeOK, Arrive
  <2>4. Fits("refresh", Arriving(b, op, s, u, k))'
    BY <1>1, <2>3 DEF Fits, Arriving
  <2>5. RequestsOK'
    BY <1>2, <2>1, <2>2, <2>3, <2>4, Move DEF Steps
  <2>6. Rows' /\ KeysIssued' /\ Cookies'
    BY <2>3, RowsKept, CookiesKept DEF Arrive, store
  <2>7. TypeOK'
    BY <2>3, <2>5
    DEF IInv, TypeOK, StoreTypeOK, RequestsOK, Grows, Arrive, store
  <2> QED BY <2>5, <2>6, <2>7 DEF IInv, RequestsOK
<1>4. CASE jar[b] # None
  <2>1. Continue(r, "lookup", Arriving(b, op, jar[b], u, k)) /\ maker' = maker
    BY <1>4 DEF Arrive, ArriveKnown, ArriveNew
  <2>2. jar[b] \in Sids /\ maker[jar[b]] = b
    BY <1>4 DEF IInv, TypeOK, Cookies
  <2>3. Fits("lookup", Arriving(b, op, jar[b], u, k))
    BY <1>1, <2>2 DEF Fits, Arriving
  <2>4. sess' \in [Sids -> {"absent", "live", "stale"}] /\ mapping' = mapping
    BY DEF Arrive, store, IInv, TypeOK, StoreTypeOK
  <2> QED BY <1>2, <2>1, <2>2, <2>3, <2>4, PlainMove
          DEF Arrive, history, Steps
<1> QED BY <1>3, <1>4

LEMMA LookupStep ==
    ASSUME IInv, NEW r \in Requests, Lookup(r)
    PROVE  IInv'
<1>1. Active(r) /\ pc[r] = "lookup"
  BY DEF Lookup, Active
<1>2. /\ req[r] \in Request /\ Fits("lookup", req[r])
      /\ req[r].uuid \in Sids /\ req[r].browser \in Browsers
  BY <1>1, UnderWay
<1>3. sess' \in [Sids -> {"absent", "live", "stale"}] /\ mapping' = mapping
  BY DEF Lookup, store, IInv, TypeOK, StoreTypeOK
<1>4. CASE InUse(req[r].uuid)
  <2>1. PICK u \in LookupUsers(req[r].uuid) :
           /\ Continue(r, "refresh", [req[r] EXCEPT !.uid = u, !.seen = "yes"])
           /\ UNCHANGED maker
    BY <1>4 DEF Lookup
  <2> DEFINE q == [req[r] EXCEPT !.uid = u, !.seen = "yes"]
  <2>2. u \in Users \cup {None} /\ (u # None =>
           u \in Users /\ mapping[req[r].uuid][u] # NoRow)
    BY StoreAssumption DEF LookupUsers, MappedUsers
  <2>3. q \in Request /\ q.uid = u /\ q.uuid = req[r].uuid
        /\ q.browser = req[r].browser /\ q.op = req[r].op
        /\ q.user = req[r].user /\ q.key = req[r].key
    BY <1>2, <2>2 DEF Request
  <2>4. u # None => <<req[r].browser, req[r].uuid, u>> \in proved
    BY <1>2, <2>2 DEF Fits, IInv, Rows
  <2>5. Fits("refresh", q)
    BY <1>2, <2>3, <2>4 DEF Fits
  <2> QED BY <1>3, <2>1, <2>3, <2>5, PlainMove DEF Lookup, history, Steps
<1>5. CASE ~InUse(req[r].uuid)
  <2>1. PICK s \in Sids : Regenerate(r, s)
    BY <1>5 DEF Lookup
  <2>0. [req[r] EXCEPT !.uuid = s] \in Request
    BY <1>2 DEF Request
  <2>a. PICK q \in Request : q = [req[r] EXCEPT !.uuid = s]
    BY <2>0
  <2>2. maker[s] = None
    BY <2>1 DEF Regenerate, FreshSids
  <2>3. Grows /\ maker'[s] = req[r].browser
    BY <1>2, <2>1, <2>2 DEF Grows, Regenerate, Lookup, IInv, TypeOK
  <2>4. q.uid = req[r].uid /\ q.uuid = s
        /\ q.browser = req[r].browser /\ q.op = req[r].op
        /\ q.user = req[r].user /\ q.key = req[r].key
    BY <1>2, <2>a DEF Request
  <2>5. q.uid = None
    BY <1>2, <2>4 DEF Fits
  <2>6. Fits("refresh", q)'
    BY <1>2, <2>3, <2>4, <2>5 DEF Fits
  <2>7. RequestsOK'
    BY <2>1, <2>a, <2>3, <2>6, Move DEF Regenerate, Steps
  <2>8. Rows' /\ KeysIssued' /\ Cookies'
    BY <1>3, <2>3, RowsKept, CookiesKept DEF Lookup
  <2>9. TypeOK'
    BY <1>3, <2>3, <2>7
    DEF IInv, TypeOK, StoreTypeOK, RequestsOK, Grows, Lookup
  <2> QED BY <2>7, <2>8, <2>9 DEF IInv, RequestsOK
<1> QED BY <1>4, <1>5

LEMMA LookupFailsStep ==
    ASSUME IInv, NEW r \in Requests, LookupFails(r)
    PROVE  IInv'
<1>1. Active(r) /\ pc[r] = "lookup"
  BY DEF LookupFails, Active
<1> DEFINE q == [req[r] EXCEPT !.seen = "unknown"]
<1>2. /\ req[r] \in Request /\ Fits("lookup", req[r])
  BY <1>1, UnderWay
<1>3. /\ q \in Request
      /\ q.uid = req[r].uid /\ q.uuid = req[r].uuid /\ q.op = req[r].op
      /\ q.browser = req[r].browser
      /\ q.user = req[r].user /\ q.key = req[r].key
  BY <1>2 DEF Request
<1>4. Fits("refresh", q)
  BY <1>2, <1>3 DEF Fits
<1>5. Continue(r, "refresh", q)
  BY DEF LookupFails
<1>6. sess' \in [Sids -> {"absent", "live", "stale"}] /\ mapping' = mapping
  BY DEF LookupFails, store, IInv, TypeOK, StoreTypeOK
<1> HIDE DEF q
<1> QED BY <1>1, <1>3, <1>4, <1>5, <1>6, PlainMove DEF LookupFails, history, Steps

LEMMA RefreshStep ==
    ASSUME IInv, NEW r \in Requests, Refresh(r)
    PROVE  IInv'
<1>1. Active(r) /\ pc[r] = "refresh"
  BY DEF Refresh, Active
<1>2. req[r] \in Request /\ Fits("refresh", req[r]) /\ req[r].uuid \in Sids
  BY <1>1, UnderWay
<1>3. sess' \in [Sids -> {"absent", "live", "stale"}] /\ mapping' = mapping
  BY <1>2 DEF Refresh, SaveSession, store, IInv, TypeOK, StoreTypeOK
<1> DEFINE q == [req[r] EXCEPT !.uid = None]
<1>4. q \in Request /\ q.uid = None /\ q.uuid = req[r].uuid
      /\ q.browser = req[r].browser /\ q.op = req[r].op
      /\ q.user = req[r].user /\ q.key = req[r].key
  BY <1>2 DEF Request
<1>5. Fits("body", req[r]) /\ Fits("body", q)
  BY <1>2, <1>4 DEF Fits
<1>6. Continue(r, "body", req[r]) \/ Continue(r, "body", q)
  BY DEF Refresh
<1> QED BY <1>2, <1>3, <1>4, <1>5, <1>6, PlainMove DEF Refresh, Steps

LEMMA DispatchStep ==
    ASSUME IInv, NEW r \in Requests, ServePage(r) \/ Dispatch(r)
    PROVE  IInv'
<1>1. Active(r) /\ pc[r] = "body"
  BY DEF ServePage, Dispatch, Active
<1>2. req[r] \in Request /\ Fits("body", req[r])
  BY <1>1, UnderWay
<1>3. CASE ServePage(r)
  BY <1>1, <1>3, AnswerStep DEF ServePage
<1>4. CASE Dispatch(r)
  <2>1. CASE req[r].op # "login" /\ req[r].uid = None
    BY <1>1, <1>4, <2>1, AnswerStep DEF Dispatch
  <2>2. CASE ~(req[r].op # "login" /\ req[r].uid = None)
    <3>1. req[r].op \in {"login", "logout", "form", "save"}
      BY <1>2, <1>4 DEF Dispatch, Request, Ops
    <3>2. PICK s \in Steps : s = FirstStep[req[r].op]
      BY <3>1 DEF FirstStep, Steps
    <3>3. Fits(s, req[r])
      BY <1>2, <2>2, <3>1, <3>2 DEF Fits, FirstStep, Request
    <3> QED BY <1>1, <1>4, <2>2, <3>2, <3>3, OnwardStep DEF Dispatch
  <2> QED BY <2>1, <2>2
<1> QED BY <1>3, <1>4

LEMMA PasswordStep ==
    ASSUME IInv, NEW r \in Requests, PasswordRight(r) \/ PasswordWrong(r)
    PROVE  IInv'
<1>1. Active(r) /\ pc[r] = "password"
  BY DEF PasswordRight, PasswordWrong, Active
<1>2. /\ req[r] \in Request /\ Fits("password", req[r])
      /\ req[r].uuid \in Sids /\ req[r].browser \in Browsers
  BY <1>1, UnderWay
<1>3. CASE PasswordWrong(r)
  BY <1>1, <1>3, AnswerStep DEF PasswordWrong
<1>4. CASE PasswordRight(r)
  <2>1. PICK q \in Request : q = req[r]
    BY <1>2
  <2>2. q.user \in Users /\ q.uuid \in Sids /\ q.browser \in Browsers
    BY <1>2, <2>1 DEF Fits
  <2>3. proved' = proved \cup {<<q.browser, q.uuid, q.user>>}
        /\ maker' = maker
    BY <1>4, <2>1 DEF PasswordRight
  <2>4. Grows
    BY <2>2, <2>3 DEF Grows, IInv, TypeOK
  <2>5. Fits("map", q)'
    BY <1>2, <2>1, <2>3 DEF Fits
  <2>6. RequestsOK'
    BY <1>4, <2>1, <2>4, <2>5, Move DEF PasswordRight, Steps
  <2>7. Rows' /\ KeysIssued' /\ Cookies'
    BY <1>4, <2>4, RowsKept, CookiesKept DEF PasswordRight, store
  <2>8. TypeOK'
    BY <1>4, <2>4, <2>6
    DEF IInv, TypeOK, StoreTypeOK, RequestsOK, Grows, PasswordRight, store
  <2> QED BY <2>6, <2>7, <2>8 DEF IInv, RequestsOK
<1> QED BY <1>3, <1>4

LEMMA ReadOnlyStep ==
    ASSUME IInv, NEW r \in Requests,
           QueryFails(r) \/ Verify(r) \/ SaveArticle(r)
    PROVE  IInv'
<1>1. Active(r) /\ pc[r] \in {"password", "verify", "save"}
  BY DEF QueryFails, Verify, SaveArticle, Active
<1>2. CASE QueryFails(r) \/ SaveArticle(r)
  BY <1>1, <1>2, AnswerStep DEF QueryFails, SaveArticle, Throw
<1>3. CASE Verify(r)
  <2>1. CASE Throw(r)
    BY <1>1, <1>3, <2>1, AnswerStep DEF Verify, Throw
  <2>2. CASE Continue(r, "save", req[r])
    <3>1. Fits("save", req[r])
      BY <1>1, UnderWay DEF Fits
    <3> QED BY <1>1, <1>3, <2>2, <3>1, OnwardStep DEF Verify, Steps
  <2> QED BY <1>3, <2>1, <2>2 DEF Verify
<1> QED BY <1>2, <1>3

LEMMA MapUserStep ==
    ASSUME IInv, NEW r \in Requests, MapUser(r)
    PROVE  IInv'
<1>1. Active(r) /\ pc[r] = "map"
  BY DEF MapUser, Active
<1>2. /\ req[r] \in Request /\ Fits("map", req[r])
      /\ req[r].uuid \in Sids /\ req[r].user \in Users
  BY <1>1, UnderWay DEF Fits
<1>3. PICK kind \in {"page", "redirect", "error"} : Answer(r, kind)
  BY DEF MapUser, Throw
<1>4. CASE UNCHANGED store
  BY <1>1, <1>3, <1>4, AnswerStep DEF MapUser
<1>5. CASE MapUuidToUser(req[r].uuid, req[r].user)
  <2>1. Grows
    BY DEF Grows, IInv, TypeOK, MapUser, history
  <2>2. PICK q \in Request : q = [req[r] EXCEPT !.reply = kind]
    BY <1>1, Answered
  <2>3. Fits("reply", q)
    BY <1>1, <2>2, Answered
  <2>4. RequestsOK'
    BY <1>3, <2>1, <2>2, <2>3, Move, FitsKept DEF Answer, Steps, IInv
  <2>5. mapping' \in [Sids -> [Users -> Keys \cup {NoRow, Null}]]
        /\ sess' = sess
    BY <1>2, <1>5 DEF MapUuidToUser, IInv, TypeOK, StoreTypeOK
  <2>6. ASSUME NEW s \in Sids, NEW u \in Users
        PROVE  /\ \/ mapping'[s][u] = mapping[s][u]
                  \/ mapping[s][u] = NoRow /\ mapping'[s][u] = Null
               /\ mapping'[s][u] # NoRow => <<maker[s], s, u>> \in proved
    <3>1. CASE s = req[r].uuid /\ u = req[r].user
      <4>1. <<maker[s], s, u>> \in proved
        BY <1>2, <3>1 DEF Fits
      <4> QED BY <1>2, <1>5, <3>1, <4>1, StoreAssumption
              DEF MapUuidToUser, IInv, TypeOK, StoreTypeOK
    <3>2. CASE ~(s = req[r].uuid /\ u = req[r].user)
      <4>1. mapping'[s][u] = mapping[s][u]
        BY <1>2, <1>5, <3>2 DEF MapUuidToUser, IInv, TypeOK, StoreTypeOK
      <4> QED BY <4>1 DEF IInv, Rows
    <3> QED BY <3>1, <3>2
  <2>7. Rows' /\ KeysIssued' /\ Cookies'
    <3>1. UNCHANGED <<jar, maker, proved, issued>>
      BY DEF MapUser, history
    <3>2. Rows'
      BY <2>6, <3>1 DEF Rows
    <3>3. ASSUME NEW s \in Sids, NEW u \in Users
          PROVE  /\ mapping'[s][u] \in Keys => mapping'[s][u] \in issued[s][u]
                 /\ mapping'[s][u] \notin Keys => issued[s][u] = {}
      <4>1. CASE mapping'[s][u] = mapping[s][u]
        BY <4>1 DEF IInv, KeysIssued
      <4>2. CASE mapping[s][u] = NoRow /\ mapping'[s][u] = Null
        BY <4>2, StoreAssumption DEF IInv, KeysIssued
      <4> QED BY <2>6, <4>1, <4>2
    <3> QED BY <2>1, <3>1, <3>2, <3>3, CookiesKept DEF KeysIssued
  <2>8. TypeOK'
    BY <2>1, <2>4, <2>5
    DEF IInv, TypeOK, StoreTypeOK, RequestsOK, MapUser, history
  <2> QED BY <2>4, <2>7, <2>8 DEF IInv, RequestsOK
<1> QED BY <1>4, <1>5 DEF MapUser

LEMMA LogoutStep ==
    ASSUME IInv, NEW r \in Requests, Logout(r)
    PROVE  IInv'
<1>1. Active(r) /\ pc[r] = "unmap"
  BY DEF Logout, Active
<1>2. /\ req[r] \in Request /\ Fits("unmap", req[r])
      /\ req[r].uuid \in Sids /\ req[r].uid \in Users
  BY <1>1, UnderWay DEF Fits
<1>3. Grows
  BY DEF Grows, IInv, TypeOK, Logout
<1>4. RequestsOK'
  <2> DEFINE p == [req[r] EXCEPT !.uid = None, !.reply = "redirect"]
  <2>1. p \in Request /\ p.uid = None /\ p.uuid = req[r].uuid
        /\ p.browser = req[r].browser
    BY <1>2 DEF Request
  <2>2. Fits("reply", p)
    BY <1>2, <2>1 DEF Fits
  <2>3. CASE Continue(r, "reply", p)
    <3>1. PICK q \in Request : q = p
      BY <2>1
    <3> QED BY <1>3, <2>2, <2>3, <3>1, Move, FitsKept DEF Steps, IInv
  <2>4. CASE Throw(r)
    <3>1. PICK q \in Request : q = [req[r] EXCEPT !.reply = "error"]
      BY <1>1, Answered
    <3>2. Fits("reply", q)
      BY <1>1, <3>1, Answered
    <3> QED BY <1>3, <2>4, <3>1, <3>2, Move, FitsKept
            DEF Throw, Answer, Steps, IInv
  <2> QED BY <2>3, <2>4 DEF Logout
<1>5. \/ UNCHANGED <<store, issued>>
      \/ /\ UnmapUuidToUser(req[r].uuid, req[r].uid)
         /\ issued' = [issued EXCEPT ![req[r].uuid][req[r].uid] = {}]
  BY DEF Logout
<1>6. PICK s0 \in Sids, u0 \in Users : s0 = req[r].uuid /\ u0 = req[r].uid
  BY <1>2
<1>7. /\ StoreTypeOK' /\ issued' \in [Sids -> [Users -> SUBSET Keys]]
      /\ \A s \in Sids, u \in Users :
            \/ mapping'[s][u] = NoRow /\ issued'[s][u] = {}
            \/ mapping'[s][u] = mapping[s][u] /\ issued'[s][u] = issued[s][u]
  <2>1. CASE UNCHANGED <<store, issued>>
    BY <2>1 DEF IInv, TypeOK, StoreTypeOK, store
  <2>2. CASE /\ UnmapUuidToUser(s0, u0)
             /\ issued' = [issued EXCEPT ![s0][u0] = {}]
    <3>1. /\ mapping \in [Sids -> [Users -> Keys \cup {NoRow, Null}]]
          /\ NoRow \in Keys \cup {NoRow, Null}
          /\ mapping' = [mapping EXCEPT ![s0][u0] = NoRow]
      BY <2>2 DEF UnmapUuidToUser, IInv, TypeOK, StoreTypeOK
    <3>2. /\ mapping' \in [Sids -> [Users -> Keys \cup {NoRow, Null}]]
          /\ mapping'[s0][u0] = NoRow
          /\ \A s \in Sids, u \in Users :
                ~(s = s0 /\ u = u0) => mapping'[s][u] = mapping[s][u]
      BY <3>1, EntryChange
    <3>3. issued \in [Sids -> [Users -> SUBSET Keys]] /\ {} \in SUBSET Keys
      BY DEF IInv, TypeOK
    <3>4. /\ issued' \in [Sids -> [Users -> SUBSET Keys]]
          /\ issued'[s0][u0] = {}
          /\ \A s \in Sids, u \in Users :
                ~(s = s0 /\ u = u0) => issued'[s][u] = issued[s][u]
      BY <2>2, <3>3, EntryChange
    <3> QED BY <2>2, <3>2, <3>4
            DEF UnmapUuidToUser, IInv, TypeOK, StoreTypeOK
  <2> QED BY <1>5, <1>6, <2>1, <2>2
<1>8. Rows' /\ KeysIssued' /\ Cookies'
  BY <1>3, <1>7, StoreAssumption, CookiesKept
  DEF Rows, KeysIssued, IInv, Logout
<1>9. TypeOK'
  BY <1>3, <1>4, <1>7 DEF IInv, TypeOK, RequestsOK, Logout
<1> QED BY <1>4, <1>8, <1>9 DEF IInv, RequestsOK

LEMMA IssueFormStep ==
    ASSUME IInv, NEW r \in Requests, NEW k \in Keys, IssueForm(r, k)
    PROVE  IInv'
<1>1. Active(r) /\ pc[r] = "issue"
  BY DEF IssueForm, Active
<1>2. /\ req[r] \in Request /\ Fits("issue", req[r])
      /\ req[r].uuid \in Sids /\ req[r].uid \in Users
  BY <1>1, UnderWay DEF Fits
<1>3. Grows
  BY DEF Grows, IInv, TypeOK, IssueForm
<1>4. RequestsOK'
  <2>1. PICK kind \in {"page", "redirect", "error"} : Answer(r, kind)
    BY DEF IssueForm, Throw
  <2>2. PICK q \in Request : q = [req[r] EXCEPT !.reply = kind]
    BY <1>1, Answered
  <2>3. Fits("reply", q)
    BY <1>1, <2>2, Answered
  <2> QED BY <1>3, <2>1, <2>2, <2>3, Move, FitsKept DEF Answer, Steps, IInv
<1>5. \/ UNCHANGED <<store, issued>>
      \/ /\ mapping[req[r].uuid][req[r].uid] = NoRow
         /\ UNCHANGED <<store, issued>>
      \/ /\ mapping[req[r].uuid][req[r].uid] # NoRow
         /\ mapping' = [mapping EXCEPT ![req[r].uuid][req[r].uid] = k]
         /\ issued' = [issued EXCEPT ![req[r].uuid][req[r].uid] = @ \cup {k}]
         /\ sess' = sess
  BY DEF IssueForm, SaveCSRFKey, store
<1>6. PICK s0 \in Sids, u0 \in Users : s0 = req[r].uuid /\ u0 = req[r].uid
  BY <1>2
<1>7. /\ StoreTypeOK' /\ issued' \in [Sids -> [Users -> SUBSET Keys]]
      /\ \A s \in Sids, u \in Users :
            \/ mapping'[s][u] = mapping[s][u] /\ issued'[s][u] = issued[s][u]
            \/ /\ mapping[s][u] # NoRow
               /\ mapping'[s][u] = k /\ k \in issued'[s][u]
  <2>1. CASE UNCHANGED <<store, issued>>
    BY <2>1 DEF IInv, TypeOK, StoreTypeOK, store
  <2>2. CASE /\ mapping[s0][u0] # NoRow
             /\ mapping' = [mapping EXCEPT ![s0][u0] = k]
             /\ issued' = [issued EXCEPT ![s0][u0] = @ \cup {k}]
             /\ sess' = sess
    <3>1. /\ mapping \in [Sids -> [Users -> Keys \cup {NoRow, Null}]]
          /\ k \in Keys \cup {NoRow, Null}
      BY DEF IInv, TypeOK, StoreTypeOK
    <3>2. /\ mapping' \in [Sids -> [Users -> Keys \cup {NoRow, Null}]]
          /\ mapping'[s0][u0] = k
          /\ \A s \in Sids, u \in Users :
                ~(s = s0 /\ u = u0) => mapping'[s][u] = mapping[s][u]
      BY <2>2, <3>1, EntryChange
    <3>3. /\ issued \in [Sids -> [Users -> SUBSET Keys]]
          /\ issued[s0][u0] \cup {k} \in SUBSET Keys
          /\ issued' = [issued EXCEPT ![s0][u0] = issued[s0][u0] \cup {k}]
      BY <2>2 DEF IInv, TypeOK
    <3>4. /\ issued' \in [Sids -> [Users -> SUBSET Keys]]
          /\ issued'[s0][u0] = issued[s0][u0] \cup {k}
          /\ \A s \in Sids, u \in Users :
                ~(s = s0 /\ u = u0) => issued'[s][u] = issued[s][u]
      BY <3>3, EntryChange
    <3> QED BY <2>2, <3>2, <3>4 DEF IInv, TypeOK, StoreTypeOK
  <2> QED BY <1>5, <1>6, <2>1, <2>2
<1>8. Rows' /\ KeysIssued' /\ Cookies'
  BY <1>3, <1>7, CookiesKept DEF Rows, KeysIssued, IInv, IssueForm
<1>9. TypeOK'
  BY <1>3, <1>4, <1>7 DEF IInv, TypeOK, RequestsOK, IssueForm
<1> QED BY <1>4, <1>8, <1>9 DEF IInv, RequestsOK

LEMMA EndStep ==
    ASSUME IInv, NEW r \in Requests, Receive(r) \/ Lose(r)
    PROVE  IInv'
<1>1. Active(r) /\ Sent(r)
  BY DEF Receive, Lose, Active
<1>2. /\ req[r] \in Request /\ Fits(pc[r], req[r])
      /\ req[r].uuid \in Sids /\ req[r].browser \in Browsers
  BY <1>1, UnderWay
<1>3. Grows /\ UNCHANGED <<store, history>>
  BY DEF Grows, IInv, TypeOK, Receive, Lose, history
<1>4. /\ pc' \in [Requests -> Steps]
      /\ req' \in [Requests -> Request \cup {None}]
      /\ pc'[r] = "idle"
      /\ \A x \in Requests \ {r} : pc'[x] = pc[x] /\ req'[x] = req[x]
  BY <1>1 DEF Sent, IInv, TypeOK, Steps
<1>5. RequestsFit'
  <2> SUFFICES ASSUME NEW x \in Requests, Active(x)'
               PROVE  Fits(pc[x], req[x])'
    BY DEF RequestsFit
  <2>1. x # r /\ Active(x) /\ Fits(pc[x], req[x])
    BY <1>4 DEF Active, IInv, RequestsFit
  <2> QED BY <1>3, <1>4, <2>1 DEF Fits, history
<1>6. jar' \in [Browsers -> Sids \cup {None}]
  BY <1>2 DEF Receive, Lose, IInv, TypeOK
<1>7. Cookies'
  <2>1. maker' = maker /\ maker[req[r].uuid] = req[r].browser
    BY <1>2, <1>3 DEF history, Fits
  <2>2. CASE jar' = jar
    BY <2>1, <2>2 DEF Cookies, IInv
  <2>3. CASE jar' = [jar EXCEPT ![req[r].browser] = req[r].uuid]
    BY <1>2, <2>1, <2>3 DEF Cookies, IInv, TypeOK
  <2> QED BY <2>2, <2>3 DEF Receive, Lose
<1>8. Rows' /\ KeysIssued'
  BY <1>3, RowsKept DEF store, history
<1>9. TypeOK'
  BY <1>3, <1>4, <1>6 DEF IInv, TypeOK, StoreTypeOK, store, history
<1> QED BY <1>5, <1>7, <1>8, <1>9 DEF IInv

LEMMA ExpireStep ==
    ASSUME IInv, NEW s \in Sids, Expire(s)
    PROVE  IInv'
<1>1. sess' \in [Sids -> {"absent", "live", "stale"}] /\ mapping' = mapping
  BY DEF Expire, HourPasses, IInv, TypeOK, StoreTypeOK
<1> QED BY <1>1 DEF Expire, history, IInv, TypeOK, StoreTypeOK,
    RequestsFit, Active, Fits, Cookies, Rows, KeysIssued

-----------------------------------------------------------------------------

LEMMA StepIInv == IInv /\ [Next]_vars => IInv'
<1> SUFFICES ASSUME IInv, [Next]_vars PROVE IInv'
  OBVIOUS
<1>1. ASSUME NEW r \in Requests, Step(r)
      PROVE  IInv'
  BY <1>1, LookupStep, LookupFailsStep, RefreshStep, DispatchStep,
     PasswordStep, ReadOnlyStep, MapUserStep, LogoutStep, IssueFormStep,
     EndStep DEF Step
<1>2. CASE UNCHANGED vars
  BY <1>2 DEF vars, store, history, IInv, TypeOK, StoreTypeOK,
     RequestsFit, Active, Fits, Cookies, Rows, KeysIssued
<1> QED BY <1>1, <1>2, ArriveStep, ExpireStep DEF Next, Exhausted

LEMMA SpecIInv == Spec => []IInv
  BY InitIInv, StepIInv, PTL DEF Spec

(* Type correctness for any number of browsers, users and requests.        *)
THEOREM TypeCorrect == Spec => []TypeOK
<1>1. IInv => TypeOK
  BY DEF IInv
<1> QED BY <1>1, SpecIInv, PTL

(* No interleaving of sign-ins, expiries, new sessions and failed queries  *)
(* makes a request act for a user whose password its browser did not give  *)
(* in that session.                                                        *)
THEOREM AlwaysOwnUser == Spec => []ActsForOwnUser
<1>1. IInv => ActsForOwnUser
  BY DEF IInv, RequestsFit, Fits, ActsForOwnUser
<1> QED BY <1>1, SpecIInv, PTL

(* Only its own Verify takes a request past the check of the key.          *)
LEMMA OnlyVerify ==
    ASSUME IInv, Next, NEW r \in Requests, pc[r] = "verify", pc'[r] = "save"
    PROVE  KeyMatches(req[r])
<1>1. ASSUME NEW x \in Requests, NEW s, NEW q, Continue(x, s, q)
      PROVE  pc'[x] = s /\ (x # r => pc'[r] = pc[r])
  BY <1>1 DEF Continue, IInv, TypeOK
<1>2. ASSUME NEW x \in Requests, NEW kind, Answer(x, kind)
      PROVE  pc'[x] = "reply" /\ (x # r => pc'[r] = pc[r])
  BY <1>1, <1>2 DEF Answer
<1>3. ASSUME NEW x \in Requests, NEW b \in Browsers, NEW op \in Ops,
             NEW u \in Users \cup {None}, NEW k \in Keys \cup {Blank, None},
             Arrive(x, b, op, u, k)
      PROVE  FALSE
  <2>1. pc[x] = "idle" /\ (x # r => pc'[r] = pc[r])
    BY <1>1, <1>3 DEF Arrive, ArriveNew, ArriveKnown
  <2> QED BY <2>1
<1>4. ASSUME NEW x \in Requests, Step(x)
      PROVE  Verify(r) /\ pc'[r] = "save"
  <2>1. x # r => pc'[r] = pc[r]
    BY <1>1, <1>2, <1>4
    DEF Step, Lookup, Regenerate, LookupFails, Refresh, ServePage, Dispatch,
        PasswordRight, PasswordWrong, QueryFails, Throw, MapUser, Logout,
        IssueForm, Verify, SaveArticle, Receive, Lose, Sent, IInv, TypeOK
  <2>2. Verify(r) \/ QueryFails(r)
    BY <1>4, <2>1
    DEF Step, Lookup, LookupFails, Refresh, ServePage, Dispatch,
        PasswordRight, PasswordWrong, MapUser, Logout, IssueForm,
        SaveArticle, Receive, Lose
  <2>3. ~QueryFails(r)
    BY <1>2 DEF QueryFails, Throw
  <2> QED BY <2>2, <2>3
<1>5. pc' # pc
  OBVIOUS
<1>6. Verify(r)
  BY <1>3, <1>4, <1>5 DEF Next, Expire, Exhausted, vars
<1> QED BY <1>2, <1>6 DEF Verify, Throw

(* verifyCSRFKey accepts a form only for the user and session it was       *)
(* issued to, and not after that user signed out; without a form it accepts *)
(* a save with a blank key, until the first form is issued.                *)
THEOREM AlwaysOwnForm == Spec => SavesOwnForm
<1> DEFINE Accepts(r) == pc[r] = "verify" /\ pc'[r] = "save"
           Own(r) == \/ req[r].key \in OwnKeys(req[r])
                     \/ req[r].key = Blank /\ OwnKeys(req[r]) = {}
<1>1. ASSUME IInv, [Next]_vars, NEW r \in Requests, Accepts(r)
      PROVE  Own(r)
  <2>1. Next /\ Active(r) /\ pc[r] = "verify"
    BY <1>1 DEF vars, Active
  <2>2. GetCSRFKey(req[r].uid, req[r].uuid) = req[r].key
    BY <1>1, <2>1, OnlyVerify DEF KeyMatches
  <2>3. /\ req[r].uuid \in Sids /\ req[r].uid \in Users
        /\ req[r].key \in Keys \cup {Blank}
    <3>1. Fits("verify", req[r]) /\ req[r].uuid \in Sids
      BY <1>1, <2>1, UnderWay
    <3> QED BY <3>1 DEF Fits
  <2>4. mapping[req[r].uuid][req[r].uid] \in Keys \cup {NoRow, Null}
    BY <1>1, <2>3 DEF IInv, TypeOK, StoreTypeOK
  <2> QED BY <1>1, <2>2, <2>3, <2>4, StoreAssumption
          DEF IInv, KeysIssued, OwnKeys, GetCSRFKey
<1>2. IInv /\ [Next]_vars =>
         [\A r \in Requests : Accepts(r) => Own(r)]_vars
  BY <1>1
<1> QED BY <1>2, SpecIInv, PTL DEF Spec, SavesOwnForm

-----------------------------------------------------------------------------
(* An expired session stays expired, but for requests that cannot know:    *)
(* the invariant is strengthened by what holds of a session between its    *)
(* generation and its first refresh.                                       *)

(* Request r is about to store the session that it has generated.          *)
Newborn(r) == pc[r] = "refresh" /\ req[r].seen \notin Excuses

(* A session is stored by nobody but the request that generated it, and    *)
(* neither another request nor a browser knows it before.                  *)
NewbornsAlone ==
    \A r \in Requests :
        Newborn(r) =>
            /\ sess[req[r].uuid] = "absent"
            /\ \A x \in Requests :
                  x # r /\ Active(x) => req[x].uuid # req[r].uuid
            /\ \A b \in Browsers : jar[b] # req[r].uuid

FreshAbsent == \A s \in FreshSids : sess[s] = "absent"

Births == NewbornsAlone /\ FreshAbsent

-----------------------------------------------------------------------------

(* Whoever knows a session knows one that was generated.                   *)
LEMMA Known ==
    ASSUME IInv
    PROVE  /\ \A r \in Requests : Active(r) => req[r].uuid \notin FreshSids
           /\ \A b \in Browsers : jar[b] \notin FreshSids
<1>1. ASSUME NEW r \in Requests, Active(r)
      PROVE  req[r].uuid \notin FreshSids
  <2>1. maker[req[r].uuid] \in Browsers
    BY <1>1, UnderWay DEF Fits
  <2> QED BY <2>1, BrowsersAssumption DEF FreshSids
<1>2. ASSUME NEW b \in Browsers
      PROVE  jar[b] \notin FreshSids
  <2>1. jar[b] # None => maker[jar[b]] = b
    BY <1>2 DEF IInv, Cookies
  <2> QED BY <1>2, <2>1, BrowsersAssumption, StoreAssumption DEF FreshSids
<1> QED BY <1>1, <1>2

(* A request goes on with the session it has; if it is to refresh it, it   *)
(* has found it in use.                                                    *)
LEMMA BirthsOnward ==
    ASSUME IInv, Births, NEW r \in Requests, Active(r), NEW s, NEW q,
           Continue(r, s, q), q.uuid = req[r].uuid, s = "refresh" => q.seen \in Excuses,
           UNCHANGED <<sess, jar, maker>>
    PROVE  Births'
<1>1. /\ pc'[r] = s /\ req'[r] = q
      /\ \A x \in Requests : x # r => pc'[x] = pc[x] /\ req'[x] = req[x]
  BY DEF Continue, IInv, TypeOK
<1>2. \A x \in Requests : Newborn(x)' => x # r /\ Newborn(x)
  BY <1>1 DEF Newborn
<1>3. \A x \in Requests : /\ Active(x)' => Active(x)
                          /\ req'[x].uuid = req[x].uuid
  BY <1>1 DEF Active
<1>4. NewbornsAlone'
  BY <1>2, <1>3 DEF Births, NewbornsAlone
<1> QED BY <1>4 DEF Births, FreshAbsent, FreshSids

(* A request generates a session.                                          *)
LEMMA BirthsFresh ==
    ASSUME IInv, Births, NEW r \in Requests, NEW s \in FreshSids,
           NEW b \in Browsers, NEW q, Continue(r, "refresh", q), q.uuid = s,
           maker' = [maker EXCEPT ![s] = b], UNCHANGED <<sess, jar>>
    PROVE  Births'
<1>1. /\ pc'[r] = "refresh" /\ req'[r] = q
      /\ \A x \in Requests : x # r => pc'[x] = pc[x] /\ req'[x] = req[x]
  BY DEF Continue, IInv, TypeOK
<1>2. \A x \in Requests : x # r =>
          /\ Newborn(x)' => Newborn(x)
          /\ Active(x)' => Active(x) /\ req[x].uuid # s
          /\ req'[x].uuid = req[x].uuid
  BY <1>1, Known DEF Newborn, Active
<1>3. NewbornsAlone'
  <2> SUFFICES ASSUME NEW y \in Requests, Newborn(y)'
               PROVE  /\ sess'[req'[y].uuid] = "absent"
                      /\ \A x \in Requests : x # y /\ Active(x)' =>
                            req'[x].uuid # req'[y].uuid
                      /\ \A c \in Browsers : jar'[c] # req'[y].uuid
    BY DEF NewbornsAlone
  <2>1. CASE y = r
    BY <1>1, <1>2, <2>1, Known DEF Births, FreshAbsent
  <2>2. CASE y # r
    <3>1. Newborn(y) /\ Active(y) /\ req'[y].uuid = req[y].uuid
      BY <1>2, <2>2 DEF Newborn, Active
    <3>2. req'[r].uuid # req[y].uuid
      BY <1>1, <3>1, Known
    <3> QED BY <1>2, <3>1, <3>2 DEF Births, NewbornsAlone
  <2> QED BY <2>1, <2>2
<1>4. FreshSids' \subseteq FreshSids
  BY BrowsersAssumption DEF FreshSids, IInv, TypeOK
<1> QED BY <1>3, <1>4 DEF Births, FreshAbsent

LEMMA BirthsArrive ==
    ASSUME IInv, Births, NEW r \in Requests, NEW b \in Browsers,
           NEW op \in Ops, NEW u \in Users \cup {None},
           NEW k \in Keys \cup {Blank, None}, Arrive(r, b, op, u, k)
    PROVE  Births'
<1>1. UNCHANGED <<sess, jar>>
  BY DEF Arrive, store
<1>2. ASSUME NEW s \in Sids
      PROVE  Arriving(b, op, s, u, k).uuid = s
  BY DEF Arriving
<1>3. CASE ArriveNew(r, b, op, u, k)
  <2>1. PICK s \in FreshSids :
            /\ maker' = [maker EXCEPT ![s] = b]
            /\ Continue(r, "refresh", Arriving(b, op, s, u, k))
    BY <1>3 DEF ArriveNew
  <2>2. s \in Sids
    BY DEF FreshSids
  <2> DEFINE q == Arriving(b, op, s, u, k)
  <2>3. Continue(r, "refresh", q) /\ q.uuid = s
    BY <1>2, <2>1, <2>2
  <2> HIDE DEF q
  <2> QED BY <1>1, <2>1, <2>3, BirthsFresh
<1>4. CASE ArriveKnown(r, b, op, u, k) /\ jar[b] # None
  <2>1. jar[b] \in Sids
    BY <1>4 DEF IInv, TypeOK
  <2>2. /\ pc'[r] = "lookup" /\ req'[r].uuid = jar[b]
        /\ \A x \in Requests : x # r => pc'[x] = pc[x] /\ req'[x] = req[x]
    BY <1>2, <1>4, <2>1 DEF ArriveKnown, Continue, IInv, TypeOK
  <2>3. \A x \in Requests : Newborn(x)' => x # r /\ Newborn(x)
    BY <2>2 DEF Newborn
  <2>4. NewbornsAlone'
    BY <1>1, <2>2, <2>3 DEF Births, NewbornsAlone, Active
  <2> QED BY <1>1, <1>4, <2>4
          DEF ArriveKnown, Births, FreshAbsent, FreshSids
<1> QED BY <1>3, <1>4 DEF Arrive

LEMMA BirthsLookup ==
    ASSUME IInv, Births, NEW r \in Requests, Lookup(r)
    PROVE  Births'
<1>1. Active(r) /\ UNCHANGED <<sess, jar>>
  BY DEF Lookup, Active, store
<1>2. req[r] \in Request /\ req[r].browser \in Browsers
  BY <1>1, UnderWay
<1>3. CASE InUse(req[r].uuid)
  <2>1. PICK u \in LookupUsers(req[r].uuid) :
            /\ Continue(r, "refresh", [req[r] EXCEPT !.uid = u, !.seen = "yes"])
            /\ UNCHANGED maker
    BY <1>3 DEF Lookup
  <2> DEFINE q == [req[r] EXCEPT !.uid = u, !.seen = "yes"]
  <2>2. Continue(r, "refresh", q) /\ q.uuid = req[r].uuid /\ q.seen \in Excuses
    BY <1>2, <2>1 DEF Request, Excuses
  <2> HIDE DEF q
  <2> QED BY <1>1, <2>1, <2>2, BirthsOnward
<1>4. CASE ~InUse(req[r].uuid)
  <2>1. PICK s \in Sids : Regenerate(r, s)
    BY <1>4 DEF Lookup
  <2> DEFINE q == [req[r] EXCEPT !.uuid = s]
  <2>2. Continue(r, "refresh", q) /\ q.uuid = s
    BY <1>2, <2>1 DEF Regenerate, Request
  <2>3. s \in FreshSids /\ maker' = [maker EXCEPT ![s] = req[r].browser]
    BY <2>1 DEF Regenerate
  <2> HIDE DEF q
  <2> QED BY <1>1, <1>2, <2>2, <2>3, BirthsFresh
<1> QED BY <1>3, <1>4

LEMMA BirthsLookupFails ==
    ASSUME IInv, Births, NEW r \in Requests, LookupFails(r)
    PROVE  Births'
<1>1. Active(r) /\ req[r] \in Request /\ UNCHANGED <<sess, jar, maker>>
  BY UnderWay DEF LookupFails, Active, store, history
<1> DEFINE q == [req[r] EXCEPT !.seen = "unknown"]
<1>2. Continue(r, "refresh", q) /\ q.uuid = req[r].uuid /\ q.seen \in Excuses
  BY <1>1 DEF LookupFails, Request, Excuses
<1> HIDE DEF q
<1> QED BY <1>1, <1>2, BirthsOnward

LEMMA BirthsRefresh ==
    ASSUME IInv, Births, NEW r \in Requests, Refresh(r)
    PROVE  Births'
<1>1. Active(r) /\ pc[r] = "refresh"
  BY DEF Refresh, Active
<1>2. req[r] \in Request /\ req[r].uuid \in Sids \ FreshSids
  BY <1>1, UnderWay, Known
<1>3. /\ pc'[r] = "body" /\ req'[r].uuid = req[r].uuid
      /\ \A x \in Requests : x # r => pc'[x] = pc[x] /\ req'[x] = req[x]
  BY <1>2 DEF Refresh, Continue, Request, IInv, TypeOK
<1>4. /\ \A s \in Sids : s # req[r].uuid => sess'[s] = sess[s]
      /\ UNCHANGED <<jar, maker>>
  BY <1>2 DEF Refresh, SaveSession, store, history, IInv, TypeOK,
              StoreTypeOK
<1>5. NewbornsAlone'
  <2> SUFFICES ASSUME NEW y \in Requests, Newborn(y)'
               PROVE  /\ sess'[req'[y].uuid] = "absent"
                      /\ \A x \in Requests : x # y /\ Active(x)' =>
                            req'[x].uuid # req'[y].uuid
                      /\ \A c \in Browsers : jar'[c] # req'[y].uuid
    BY DEF NewbornsAlone
  <2>1. y # r /\ Newborn(y) /\ Active(y) /\ req'[y] = req[y]
    BY <1>3 DEF Newborn, Active
  <2>2. req[y].uuid \in Sids /\ req[y].uuid # req[r].uuid
    BY <1>1, <2>1, UnderWay DEF Births, NewbornsAlone
  <2>3. \A x \in Requests : /\ Active(x)' => Active(x)
                            /\ req'[x].uuid = req[x].uuid
    BY <1>1, <1>3 DEF Active
  <2> QED BY <1>4, <2>1, <2>2, <2>3 DEF Births, NewbornsAlone
<1>6. FreshAbsent'
  BY <1>2, <1>4 DEF Births, FreshAbsent, FreshSids
<1> QED BY <1>5, <1>6 DEF Births

(* The steps after initSession.                                            *)
LEMMA BirthsBody ==
    ASSUME IInv, Births, NEW r \in Requests,
           \/ ServePage(r) \/ Dispatch(r)
           \/ PasswordRight(r) \/ PasswordWrong(r) \/ QueryFails(r)
           \/ MapUser(r) \/ Logout(r)
           \/ \E k \in Keys : IssueForm(r, k)
           \/ Verify(r) \/ SaveArticle(r)
    PROVE  Births'
<1>1. Active(r)
  BY DEF ServePage, Dispatch, PasswordRight, PasswordWrong, QueryFails,
         MapUser, Logout, IssueForm, Verify, SaveArticle, Active
<1>2. req[r] \in Request
  BY <1>1, UnderWay
<1>3. UNCHANGED <<sess, jar, maker>>
  BY DEF ServePage, Dispatch, PasswordRight, PasswordWrong, QueryFails,
         MapUser, Logout, IssueForm, Verify, SaveArticle, MapUuidToUser,
         UnmapUuidToUser, SaveCSRFKey, store, history
<1>4. ASSUME NEW kind, Answer(r, kind)
      PROVE  Births'
  <2> DEFINE q == [req[r] EXCEPT !.reply = kind]
  <2>1. Continue(r, "reply", q) /\ q.uuid = req[r].uuid
    BY <1>2, <1>4 DEF Answer, Request
  <2> HIDE DEF q
  <2> QED BY <1>1, <1>3, <2>1, BirthsOnward
<1>5. CASE \/ ServePage(r) \/ PasswordWrong(r) \/ QueryFails(r)
           \/ MapUser(r) \/ SaveArticle(r)
  BY <1>4, <1>5
  DEF ServePage, PasswordWrong, QueryFails, MapUser, SaveArticle, Throw
<1>6. CASE Dispatch(r) \/ PasswordRight(r) \/ Verify(r)
  <2>1. CASE \E kind : Answer(r, kind)
    BY <1>4, <2>1
  <2>2. ASSUME NEW s \in Steps \ {"refresh"}, Continue(r, s, req[r])
        PROVE  Births'
    BY <1>1, <1>3, <2>2, BirthsOnward
  <2>3. Dispatch(r) => \/ Answer(r, "redirect")
                       \/ Continue(r, FirstStep[req[r].op], req[r])
    BY DEF Dispatch
  <2>4. Dispatch(r) => FirstStep[req[r].op] \in Steps \ {"refresh"}
    BY <1>2 DEF Dispatch, FirstStep, Request, Ops, Steps
  <2> QED BY <1>4, <1>6, <2>2, <2>3, <2>4
          DEF PasswordRight, Verify, Throw, Steps
<1>7. CASE Logout(r)
  <2> DEFINE q == [req[r] EXCEPT !.uid = None, !.reply = "redirect"]
  <2>1. Continue(r, "reply", q) => Births'
    <3>1. q.uuid = req[r].uuid
      BY <1>2 DEF Request
    <3> HIDE DEF q
    <3> QED BY <1>1, <1>3, <3>1, BirthsOnward
  <2> QED BY <1>4, <1>7, <2>1 DEF Logout, Throw
<1>8. ASSUME NEW k \in Keys, IssueForm(r, k)
      PROVE  Births'
  BY <1>4, <1>8 DEF IssueForm, Throw
<1> QED BY <1>5, <1>6, <1>7, <1>8

LEMMA BirthsEnd ==
    ASSUME IInv, Births, NEW r \in Requests, Receive(r) \/ Lose(r)
    PROVE  Births'
<1>1. /\ Active(r) /\ pc'[r] = "idle" /\ UNCHANGED <<sess, maker>>
      /\ \A x \in Requests : x # r => pc'[x] = pc[x] /\ req'[x] = req[x]
  BY DEF Receive, Lose, Sent, Active, store, history, IInv, TypeOK
<1>2. \A b \in Browsers : jar'[b] = jar[b] \/ jar'[b] = req[r].uuid
  BY DEF Receive, Lose, IInv, TypeOK
<1>3. \A x \in Requests : Newborn(x)' => x # r /\ Newborn(x)
  BY <1>1 DEF Newborn
<1>4. \A x \in Requests : Active(x)' =>
          x # r /\ Active(x) /\ req'[x].uuid = req[x].uuid
  BY <1>1 DEF Active
<1>5. NewbornsAlone'
  <2> SUFFICES ASSUME NEW y \in Requests, Newborn(y)'
               PROVE  /\ sess'[req'[y].uuid] = "absent"
                      /\ \A x \in Requests : x # y /\ Active(x)' =>
                            req'[x].uuid # req'[y].uuid
                      /\ \A c \in Browsers : jar'[c] # req'[y].uuid
    BY DEF NewbornsAlone
  <2>1. Newborn(y) /\ y # r /\ req'[y] = req[y]
    BY <1>1, <1>3
  <2> QED BY <1>1, <1>2, <1>4, <2>1 DEF Births, NewbornsAlone
<1> QED BY <1>1, <1>5 DEF Births, FreshAbsent, FreshSids

LEMMA BirthsExpire ==
    ASSUME IInv, Births, NEW s \in Sids, Expire(s)
    PROVE  Births'
<1>1. /\ \A x \in Sids : sess[x] = "absent" => sess'[x] = "absent"
      /\ UNCHANGED <<pc, req, jar, maker>>
  BY DEF Expire, HourPasses, history, IInv, TypeOK, StoreTypeOK
<1>2. \A r \in Requests : Newborn(r) => req[r].uuid \in Sids
  BY UnderWay DEF Newborn, Active
<1> QED BY <1>1, <1>2 DEF Births, NewbornsAlone, FreshAbsent, FreshSids,
                          Newborn, Active

LEMMA BirthsStep ==
    ASSUME IInv, Births, [Next]_vars
    PROVE  Births'
<1>1. ASSUME NEW r \in Requests, Step(r)
      PROVE  Births'
  BY <1>1, BirthsLookup, BirthsLookupFails, BirthsRefresh, BirthsBody,
     BirthsEnd DEF Step
<1>2. CASE UNCHANGED vars
  BY <1>2 DEF vars, store, history, Births, NewbornsAlone,
              FreshAbsent, FreshSids, Newborn, Active
<1> QED BY <1>1, <1>2, BirthsArrive, BirthsExpire DEF Next, Exhausted

LEMMA BirthsInit == Init => Births
BY DEF Init, StoreInit, Births, NewbornsAlone, FreshAbsent, FreshSids, Newborn

-----------------------------------------------------------------------------

(* Only a refresh brings a session back to life, and it is not the one of  *)
(* a session just generated.                                               *)
LEMMA OnlyRefresh ==
    ASSUME IInv, Births, Next, NEW s \in Sids,
           sess[s] = "stale", sess'[s] = "live"
    PROVE  \E r \in Requests : /\ pc[r] = "refresh" /\ req[r].uuid = s
                               /\ req[r].seen \in Excuses
<1>1. sess' # sess
  OBVIOUS
<1>2. PICK r \in Requests : Refresh(r)
  <2>1. ASSUME NEW r \in Requests, NEW b \in Browsers, NEW op \in Ops,
               NEW u \in Users \cup {None}, NEW k \in Keys \cup {Blank, None}
        PROVE  ~Arrive(r, b, op, u, k)
    BY <1>1 DEF Arrive, store
  <2>2. ASSUME NEW x \in Sids
        PROVE  ~Expire(x)
    BY DEF Expire, HourPasses, IInv, TypeOK, StoreTypeOK
  <2>3. ASSUME NEW r \in Requests, Step(r)
        PROVE  Refresh(r)
    BY <1>1, <2>3
    DEF Step, Lookup, LookupFails, ServePage, Dispatch, PasswordRight,
        PasswordWrong, QueryFails, MapUser, Logout, IssueForm, Verify,
        SaveArticle, Receive, Lose, MapUuidToUser, UnmapUuidToUser,
        SaveCSRFKey, store
  <2> QED BY <1>1, <2>1, <2>2, <2>3 DEF Next, Exhausted, vars, store
<1>3. Active(r) /\ pc[r] = "refresh"
  BY <1>2 DEF Refresh, Active
<1>4. req[r].uuid = s
  BY <1>2 DEF Refresh, SaveSession, store, IInv, TypeOK, StoreTypeOK
<1>5. req[r].seen \in Excuses
  BY <1>3, <1>4 DEF Births, NewbornsAlone, Newborn
<1> QED BY <1>3, <1>4, <1>5

(* An expired session is refreshed only by a request that had found it in  *)
(* use before it expired, or, if queries may fail at all, could not know.  *)
THEOREM ExpiryAlwaysHolds == Spec => ExpiryHolds
<1>1. Init => Births
  BY BirthsInit
<1>2. IInv /\ Births /\ [Next]_vars => Births'
  BY BirthsStep
<1>3. IInv /\ Births /\ [Next]_vars =>
        [\A s \in Sids :
            sess[s] = "stale" /\ sess'[s] = "live" =>
                \E r \in Requests : /\ pc[r] = "refresh" /\ req[r].uuid = s
                                    /\ req[r].seen \in Excuses]_vars
  BY OnlyRefresh
<1> QED BY <1>1, <1>2, <1>3, SpecIInv, PTL DEF Spec, ExpiryHolds

=============================================================================
