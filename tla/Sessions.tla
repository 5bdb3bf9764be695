------------------------------ MODULE Sessions ------------------------------
(***************************************************************************)
(* Requests of several browsers on the server's threads: the session set   *)
(* up by every handler (HandlerBase::onRequest, UserSession::initSession), *)
(* signing in and out (UserHandler), and the editor's form and its save,   *)
(* tied together by a CSRF key (EditHandler, UserSession).                 *)
(*                                                                         *)
(* A request is a thread that runs one query at a time; other requests'    *)
(* queries come in between, and so does anything at all between onRequest  *)
(* and onEOM, two callbacks of proxygen.  A query may fail, before or      *)
(* after the database did its work.                                        *)
(***************************************************************************)
EXTENDS SessionStore, FiniteSets

CONSTANTS
    Requests,            \* requests that can be under way at once
    Browsers,
    DbMayFail            \* whether queries may raise DBError

ASSUME RequestsAssumption == IsFiniteSet(Requests)
ASSUME BrowsersAssumption == None \notin Browsers
ASSUME DbMayFailAssumption == DbMayFail \in BOOLEAN

VARIABLES
    pc,                  \* pc[r]: the next step of request r
    req,                 \* req[r]: its locals and its UserSession
    jar,                 \* jar[b]: the session cookie of browser b
    maker,               \* maker[s]: the browser for which s was generated
    proved,              \* <<b, s, u>>: b gave u's password in session s
    issued,              \* issued[s][u]: keys saved since the row was made
    spent                \* keys generated so far

history == <<maker, proved, issued, spent>>
vars == <<store, pc, req, jar, history>>

Ops == {"page", "login", "logout", "form", "save"}

(* uid and uuid are UserSession's; user and key are what was posted; seen  *)
(* records whether getSessionInfo found the session in use, or failed;     *)
(* reply is what the browser gets.                                         *)
Request == [op : Ops, browser : Browsers, uuid : Sids, uid : Users \cup {None},
            user : Users \cup {None}, key : Keys \cup {Blank, None},
            seen : {"no", "yes", "unknown"},
            reply : {"none", "page", "redirect", "error"}]

Steps == {"idle", "lookup", "refresh", "body", "password", "map", "unmap",
          "issue", "verify", "save", "reply"}

(* The type invariant: in particular every request past onRequest has a    *)
(* session, as UserSession::uuid is never blank after initSession.         *)
TypeOK ==
    /\ StoreTypeOK
    /\ pc \in [Requests -> Steps]
    /\ req \in [Requests -> Request \cup {None}]
    /\ \A r \in Requests : pc[r] # "idle" => req[r] \in Request
    /\ jar \in [Browsers -> Sids \cup {None}]
    /\ maker \in [Sids -> Browsers \cup {None}]
    /\ proved \subseteq Browsers \X Sids \X Users
    /\ issued \in [Sids -> [Users -> SUBSET Keys]]
    /\ spent \subseteq Keys

Init ==
    /\ StoreInit
    /\ pc = [r \in Requests |-> "idle"]
    /\ req = [r \in Requests |-> None]
    /\ jar = [b \in Browsers |-> None]
    /\ maker = [s \in Sids |-> None]
    /\ proved = {}
    /\ issued = [s \in Sids |-> [u \in Users |-> {}]]
    /\ spent = {}

-----------------------------------------------------------------------------
(* genUUID never returns a value twice; Sids and Keys bound how many there *)
(* are, and a request only arrives when it cannot run short of them.       *)

FreshSids == {s \in Sids : maker[s] = None}
FreshKeys == Keys \ spent

AtSteps(steps) == {r \in Requests : pc[r] \in steps}

EnoughSids == Cardinality(FreshSids) > Cardinality(AtSteps({"lookup"}))

EnoughKeys ==
    Cardinality(FreshKeys) >
        Cardinality({r \in AtSteps(Steps \ {"idle", "reply"}) :
                        req[r].op = "form"})

-----------------------------------------------------------------------------

(* How a query ends: it returns; it fails without effect; or its effect is *)
(* in the database and the answer is lost.                                 *)
Outcomes == IF DbMayFail THEN {"ok", "failed", "lost"} ELSE {"ok"}

(* A request moves to step s with its locals changed to q.                 *)
Continue(r, s, q) == /\ pc' = [pc EXCEPT ![r] = s]
                     /\ req' = [req EXCEPT ![r] = q]

Answer(r, kind) == Continue(r, "reply", [req[r] EXCEPT !.reply = kind])

(* An exception other than HandlerRedirect: onEOM answers with an error    *)
(* page, which carries no cookies.                                         *)
Throw(r) == Answer(r, "error")

-----------------------------------------------------------------------------
(* onRequest: collect the cookies and set up the session.                  *)

Arriving(b, op, s, u, k) ==
    [op |-> op, browser |-> b, uuid |-> s, uid |-> None, user |-> u,
     key |-> k, seen |-> "no", reply |-> "none"]

(* Mutant: the generated uuid may be one already given out.                *)
ArriveShared(r, b, op, u, k) ==
    \E s \in Sids :
        /\ maker' = [maker EXCEPT ![s] = b]
        /\ Continue(r, "refresh", Arriving(b, op, s, u, k))

(* Without a session cookie initSession generates a new uuid.              *)
ArriveNew(r, b, op, u, k) ==
    \E s \in FreshSids :
        /\ maker' = [maker EXCEPT ![s] = b]
        /\ Continue(r, "refresh", Arriving(b, op, s, u, k))

ArriveKnown(r, b, op, u, k) ==
    /\ Continue(r, "lookup", Arriving(b, op, jar[b], u, k))
    /\ UNCHANGED maker

(* A save may post any key that was ever generated, and a blank one: forms *)
(* are kept, copied and posted again, and a browser fills them in as it    *)
(* likes.                                                                  *)
Arrive(r, b, op, u, k) ==
    /\ pc[r] = "idle" /\ EnoughSids
    /\ op = "form" => EnoughKeys
    /\ u # None <=> op = "login"
    /\ IF op = "save" THEN k \in spent \cup {Blank} ELSE k = None
    /\ \/ jar[b] = None /\ ArriveNew(r, b, op, u, k)
       \/ jar[b] # None /\ ArriveKnown(r, b, op, u, k)
    /\ UNCHANGED <<store, jar, proved, issued, spent>>

(* Mutant: an expired session keeps its identifier.                        *)
KeepExpired(r, s) ==
    /\ maker' = maker
    /\ Continue(r, "refresh", req[r])

(* Mutant: no new identifier is generated for an expired session.          *)
RegenerateNothing(r, s) ==
    /\ maker' = maker
    /\ Continue(r, "refresh", [req[r] EXCEPT !.uuid = None])

(* "Session already expired, regenerate a new one"                         *)
Regenerate(r, s) ==
    /\ s \in FreshSids
    /\ maker' = [maker EXCEPT ![s] = req[r].browser]
    /\ Continue(r, "refresh", [req[r] EXCEPT !.uuid = s])

Lookup(r) ==
    /\ pc[r] = "lookup"
    /\ IF InUse(req[r].uuid)
       THEN \E u \in LookupUsers(req[r].uuid) :
               /\ Continue(r, "refresh",
                           [req[r] EXCEPT !.uid = u, !.seen = "yes"])
               /\ UNCHANGED maker
       ELSE \E s \in Sids : Regenerate(r, s)
    /\ UNCHANGED <<store, jar, proved, issued, spent>>

(* DBError in getSessionInfo: "proceeding as unauthenticated user", with   *)
(* the uuid of the cookie.                                                 *)
LookupFails(r) ==
    /\ pc[r] = "lookup" /\ DbMayFail
    /\ Continue(r, "refresh", [req[r] EXCEPT !.seen = "unknown"])
    /\ UNCHANGED <<store, jar, history>>

Refresh(r) ==
    /\ pc[r] = "refresh"
    /\ \E outcome \in Outcomes :
          /\ IF outcome = "failed" THEN UNCHANGED store
                                   ELSE SaveSession(req[r].uuid)
          /\ Continue(r, "body",
                IF outcome = "ok" THEN req[r]
                                  ELSE [req[r] EXCEPT !.uid = None])
    /\ UNCHANGED <<jar, history>>

-----------------------------------------------------------------------------
(* onEOM: dispatch to the handler's processRequest.                        *)

FirstStep == [login |-> "password", logout |-> "unmap", form |-> "issue",
              save |-> "verify"]

(* Requests that leave the session alone: a page, a redirect to /edit, or  *)
(* a reply without cookies (an error page, and all StaticHandler's).       *)
ServePage(r) ==
    /\ pc[r] = "body" /\ req[r].op = "page"
    /\ \E kind \in {"page", "redirect", "error"} : Answer(r, kind)
    /\ UNCHANGED <<store, jar, history>>

(* Everything but signing in asks an anonymous user to sign in.            *)
Dispatch(r) ==
    /\ pc[r] = "body" /\ req[r].op # "page"
    /\ IF req[r].op # "login" /\ req[r].uid = None
       THEN Answer(r, "redirect")
       ELSE Continue(r, FirstStep[req[r].op], req[r])
    /\ UNCHANGED <<store, jar, history>>

(* getUserInfo and authenticateLogin: the account exists, is active, and   *)
(* the password is right; otherwise the sign-in page is shown again.       *)
PasswordRight(r) ==
    /\ pc[r] = "password"
    /\ proved' = proved \cup {<<req[r].browser, req[r].uuid, req[r].user>>}
    /\ Continue(r, "map", req[r])
    /\ UNCHANGED <<store, jar, maker, issued, spent>>

PasswordWrong(r) ==
    /\ pc[r] = "password"
    /\ Answer(r, "page")
    /\ UNCHANGED <<store, jar, history>>

(* A query that only reads, or whose writes are outside this module.       *)
QueryFails(r) ==
    /\ pc[r] \in {"password", "verify", "save"} /\ DbMayFail
    /\ Throw(r)
    /\ UNCHANGED <<store, jar, history>>

(* The last query of processLogin; the foreign key makes it fail when the  *)
(* session was never saved.                                                *)
MapUser(r) ==
    /\ pc[r] = "map"
    /\ \E outcome \in IF MayMap(req[r].uuid) THEN Outcomes ELSE {"failed"} :
          /\ IF outcome = "failed" THEN UNCHANGED store
             ELSE MapUuidToUser(req[r].uuid, req[r].user)
          /\ IF outcome = "ok" THEN Answer(r, "redirect") ELSE Throw(r)
    /\ UNCHANGED <<jar, history>>

(* logoutUser, then the redirect of processLogout.                         *)
Logout(r) ==
    /\ pc[r] = "unmap"
    /\ \E outcome \in Outcomes :
          /\ IF outcome = "failed" THEN UNCHANGED <<store, issued>>
             ELSE /\ UnmapUuidToUser(req[r].uuid, req[r].uid)
                  /\ issued' = [issued EXCEPT ![req[r].uuid][req[r].uid] = {}]
          /\ IF outcome = "ok"
             THEN Continue(r, "reply", [req[r] EXCEPT !.uid = None,
                                                      !.reply = "redirect"])
             ELSE Throw(r)
    /\ UNCHANGED <<jar, maker, proved, spent>>

-----------------------------------------------------------------------------
(* The editor.                                                             *)

(* genCSRFKey in buildEditor or buildUploadPage: the form carries the key  *)
(* that was saved.  The editor looks for its article first and may find it *)
(* gone: no key is saved then.                                             *)
IssueForm(r, k) ==
    LET s == req[r].uuid
        u == req[r].uid
    IN  /\ pc[r] = "issue"
        /\ k \in FreshKeys /\ spent' = spent \cup {k}
        /\ \E outcome \in Outcomes \cup {"failed"} :
              /\ IF outcome = "failed" THEN UNCHANGED <<store, issued>>
                 ELSE /\ SaveCSRFKey(k, u, s)
                      /\ issued' = IF mapping[s][u] = NoRow THEN issued
                                   ELSE [issued EXCEPT ![s][u] = @ \cup {k}]
              /\ IF outcome = "ok" THEN Answer(r, "page") ELSE Throw(r)
        /\ UNCHANGED <<jar, maker, proved>>

(* Mutant: the key of any user of the session will do.                     *)
AnyKeyMatches(q) == \E u \in Users : GetCSRFKey(u, q.uuid) = q.key

(* verifyCSRFKey: there is a row, and its key is the posted one; a blank   *)
(* one, as long as the row has none.                                       *)
KeyMatches(q) == GetCSRFKey(q.uid, q.uuid) = q.key

Verify(r) ==
    /\ pc[r] = "verify"
    /\ IF KeyMatches(req[r]) THEN Continue(r, "save", req[r]) ELSE Throw(r)
    /\ UNCHANGED <<store, jar, history>>

(* The rest of processSaveArticle, up to the query that stores the text; a *)
(* parameter that is missing or malformed ends in an error page.           *)
SaveArticle(r) ==
    /\ pc[r] = "save"
    /\ \E kind \in {"page", "error"} : Answer(r, kind)
    /\ UNCHANGED <<store, jar, history>>

-----------------------------------------------------------------------------
(* The end of a request.                                                   *)

Sent(r) == /\ pc' = [pc EXCEPT ![r] = "idle"]
           /\ req' = [req EXCEPT ![r] = None]

(* The browser gets the reply: pages and redirects set the cookie.         *)
Receive(r) ==
    LET q == req[r]
        b == q.browser
    IN  /\ pc[r] = "reply"
        /\ jar' = IF q.reply = "error" THEN jar ELSE [jar EXCEPT ![b] = q.uuid]
        /\ Sent(r)
        /\ UNCHANGED <<store, history>>

(* onError, between onRequest and onEOM or while the reply is under way.   *)
Lose(r) ==
    /\ pc[r] \in {"body", "reply"}
    /\ Sent(r)
    /\ UNCHANGED <<store, jar, history>>

(* Time goes on without a request.                                         *)
Expire(s) ==
    /\ HourPasses(s)
    /\ UNCHANGED <<pc, req, jar, history>>

(* The bound on identifiers is reached and nothing is under way.           *)
Exhausted ==
    /\ \A r \in Requests : pc[r] = "idle"
    /\ ~EnoughSids
    /\ UNCHANGED vars

Step(r) == \/ Lookup(r) \/ LookupFails(r) \/ Refresh(r)
           \/ ServePage(r) \/ Dispatch(r)
           \/ PasswordRight(r) \/ PasswordWrong(r) \/ QueryFails(r)
           \/ MapUser(r) \/ Logout(r)
           \/ \E k \in Keys : IssueForm(r, k)
           \/ Verify(r) \/ SaveArticle(r)
           \/ Receive(r) \/ Lose(r)

Next == \/ \E r \in Requests, b \in Browsers, op \in Ops,
              u \in Users \cup {None}, k \in Keys \cup {Blank, None} :
                  Arrive(r, b, op, u, k)
        \/ \E r \in Requests : Step(r)
        \/ \E s \in Sids : Expire(s)
        \/ Exhausted

Spec == Init /\ [][Next]_vars

-----------------------------------------------------------------------------
(* Properties.                                                             *)

Active(r) == pc[r] # "idle"

(* A request acts for a user only if that user's password was given from   *)
(* the same browser, in the session it acts in: whatever the order of      *)
(* sign-ins, expiries, regenerations and failures of the browsers.         *)
ActsForOwnUser ==
    \A r \in Requests :
        Active(r) /\ req[r].uid # None =>
            <<req[r].browser, req[r].uuid, req[r].uid>> \in proved

(* The keys of the forms issued to the user of q in its session since he   *)
(* last signed in to it.                                                   *)
OwnKeys(q) == issued[q.uuid][q.uid]

(* A save passes verifyCSRFKey only with a key of a form that was issued   *)
(* to the same user in the same session since he last signed in to it: a   *)
(* form that outlived its sign-out, or was made for another user of the    *)
(* same browser, is refused.  One thing else passes, a blank key, and that *)
(* only as long as no form was issued since he signed in.                  *)
SavesOwnForm ==
    [][\A r \in Requests :
          pc[r] = "verify" /\ pc'[r] = "save" =>
              \/ req[r].key \in OwnKeys(req[r])
              \/ req[r].key = Blank /\ OwnKeys(req[r]) = {}]_vars

(* What lets a request refresh the session that its cookie named.          *)
Excuses == IF DbMayFail THEN {"yes", "unknown"} ELSE {"yes"}

(* An expired session comes back to life only by a request that found it   *)
(* in use before it expired, or could not find out because its lookup      *)
(* failed (and only if such failures are possible at all): whatever other  *)
(* requests regenerate, refresh or fail to store meanwhile.                *)
ExpiryHolds ==
    [][\A s \in Sids :
          sess[s] = "stale" /\ sess'[s] = "live" =>
              \E r \in Requests : /\ pc[r] = "refresh" /\ req[r].uuid = s
                                  /\ req[r].seen \in Excuses]_vars

(* DBConn::unmapUuidToUser: "Remove authenticated user from session".  A   *)
(* session is left without a user by a logout that succeeded.              *)
LogoutSignsOut ==
    [][\A r \in Requests :
          pc[r] = "unmap" /\ req'[r] # None /\ req'[r].reply = "redirect" =>
              MappedUsers(req[r].uuid)' = {}]_vars

=============================================================================
