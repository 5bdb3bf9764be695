------------------------------ MODULE Articles ------------------------------
(***************************************************************************)
(* The table article and what the editor does to it: opening a form for a  *)
(* new or a present article (EditHandler::buildEditor) and saving one      *)
(* (processSaveArticle), each a few queries of one request among those of  *)
(* other requests, of the same session and of others.  Which user a        *)
(* session belongs to, and how it comes to be, is the subject of Sessions: *)
(* here people sign in and out in one step.                                *)
(***************************************************************************)
EXTENDS SessionStore, FiniteSets

CONSTANTS
    Ids,                 \* values of article.articleid
    New,                 \* in place of an id: a form without articleid
    Texts,               \* what can be typed into a form
    Requests,            \* requests that can be under way at once
    DbMayFail,           \* whether queries may raise DBError
    Patient              \* sessions whose browser waits for the end of one
                         \* request before it sends another, and posts
                         \* forms the way they were rendered

Row == [userid : Users, text : Texts]

(* The key a text was saved with, if by a patient browser; or None.        *)
Saved == Keys \cup {None}

(* A form as rendered: for which article, in which session and for whom,   *)
(* and, for a patient browser, with which key such a browser had saved the *)
(* text that it showed.                                                    *)
Form == [article : Ids \cup {New}, sid : Sids, user : Users, shown : Saved]

ASSUME ArticlesAssumption == /\ New \notin Ids
                             /\ None \notin Row \cup Form
                             /\ DbMayFail \in BOOLEAN /\ Patient \subseteq Sids
ASSUME FiniteAssumption == IsFiniteSet(Requests)

VARIABLES
    article,             \* article[a]: the row with that id, or None
    pc,                  \* pc[r]: the next step of request r
    req,                 \* req[r]: its locals
    inHand,              \* keys of the forms browsers have received
    made,                \* made[k]: the form rendered with key k
    writer               \* writer[a]: the key last saved with in a, if by a
                         \* patient browser; history

vars == <<store, article, pc, req, inHand, made, writer>>

(* sid and uid are UserSession's; article, key and text are what is posted, *)
(* or for "edit" the article asked for and the key just generated; shown   *)
(* is the key that the text it read had been saved with.                   *)
Request == [op : {"edit", "save"}, sid : Sids, uid : Users,
            article : Ids \cup {New}, shown : Saved,
            key : Keys \cup {Blank, None}, text : Texts \cup {None},
            reply : {"none", "form", "saved", "error"}]

ASSUME RequestAssumption == None \notin Request

(* The type invariant: in particular a row is always complete, and whoever *)
(* is under way was signed in.                                             *)
TypeOK ==
    /\ StoreTypeOK
    /\ article \in [Ids -> Row \cup {None}]
    /\ pc \in [Requests -> {"idle", "read", "issue", "verify", "store",
                            "reply"}]
    /\ req \in [Requests -> Request \cup {None}]
    /\ \A r \in Requests : pc[r] # "idle" => req[r] \in Request
    /\ inHand \subseteq Keys
    /\ made \in [Keys -> Form \cup {None}]
    /\ writer \in [Ids -> Saved]

(* Every session is signed in to one user, and there may be articles.      *)
Init ==
    /\ sess = [s \in Sids |-> "live"]
    /\ \E owner \in [Sids -> Users] :
          mapping = [s \in Sids |->
                        [u \in Users |-> IF u = owner[s] THEN Null ELSE NoRow]]
    /\ article \in [Ids -> Row \cup {None}]
    /\ pc = [r \in Requests |-> "idle"]
    /\ req = [r \in Requests |-> None]
    /\ inHand = {}
    /\ made = [k \in Keys |-> None]
    /\ writer = [a \in Ids |-> None]

-----------------------------------------------------------------------------
(* Bounds: a request begins only if no identifier can run short.           *)

FreshKeys == {k \in Keys : made[k] = None}
FreshIds == {a \in Ids : article[a] = None}

UnderWay(op) == {r \in Requests : pc[r] # "idle" /\ req[r].op = op}

EnoughKeys == Cardinality(FreshKeys) > Cardinality(UnderWay("edit"))
EnoughIds == Cardinality(FreshIds) > Cardinality(UnderWay("save"))

-----------------------------------------------------------------------------

Outcomes == IF DbMayFail THEN {"ok", "failed", "lost"} ELSE {"ok"}

Continue(r, step, q) == /\ pc' = [pc EXCEPT ![r] = step]
                        /\ req' = [req EXCEPT ![r] = q]

(* With its answer a request has no more use for its locals; only a form   *)
(* carries a key.                                                          *)
AnswerWith(r, kind, k) ==
    Continue(r, "reply", [req[r] EXCEPT !.article = New, !.shown = None,
                                        !.text = None, !.key = k,
                                        !.reply = kind])

Answer(r, kind) == AnswerWith(r, kind, None)

MayBegin(s) ==
    s \in Patient => \A r \in Requests : pc[r] # "idle" => req[r].sid # s

(* The session was looked up by onRequest and belongs to user u.           *)
Begin(r, op, step, s, u, a, k, t) ==
    /\ pc[r] = "idle" /\ MayBegin(s) /\ u \in MappedUsers(s)
    /\ Continue(r, step, [op |-> op, sid |-> s, uid |-> u, article |-> a,
                          shown |-> None, key |-> k, text |-> t,
                          reply |-> "none"])
    /\ UNCHANGED <<store, article, inHand, made, writer>>

(* /edit/new, or /edit/article with an id: the list there (getHeadlines)   *)
(* links to every article, and any other id may be asked for as well.      *)
OpenEditor(r, s, a, u) ==
    /\ EnoughKeys
    /\ Begin(r, "edit", IF a = New THEN "issue" ELSE "read", s, u, a, None,
             None)

(* History is kept of patient browsers only.                               *)
IfPatient(s, k) == IF s \in Patient THEN k ELSE None

(* getArticle: the form shows the text the article has now.                *)
ReadArticle(r) ==
    LET a == req[r].article
        shown == IfPatient(req[r].sid, writer[a])
    IN  /\ pc[r] = "read"
        /\ IF article[a] = None THEN Answer(r, "error")
           ELSE Continue(r, "issue", [req[r] EXCEPT !.shown = shown])
        /\ UNCHANGED <<store, article, inHand, made, writer>>

FormOf(q) == [article |-> q.article, sid |-> q.sid, user |-> q.uid,
              shown |-> q.shown]

(* genCSRFKey: there is one key per session and user, the last.            *)
IssueForm(r, k) ==
    LET q == req[r]
    IN  /\ pc[r] = "issue" /\ k \in FreshKeys
        /\ made' = [made EXCEPT ![k] = FormOf(q)]
        /\ \E outcome \in Outcomes :
              /\ IF outcome = "failed" THEN UNCHANGED store
                                       ELSE SaveCSRFKey(k, q.uid, q.sid)
              /\ IF outcome = "ok" THEN AnswerWith(r, "form", k)
                                   ELSE Answer(r, "error")
        /\ UNCHANGED <<article, inHand, writer>>

(* What is posted, and in which session, is up to the client: the key of   *)
(* any form that was received or a blank one, and any article.  A patient  *)
(* browser posts a form as it was rendered, perhaps not for the first time *)
(* and perhaps after it was signed in as another user.                     *)
Post(r, s, u, k, a, t) ==
    /\ k \in inHand \cup {Blank}
    /\ s \in Patient => k # Blank /\ a = made[k].article
    /\ a = New => EnoughIds
    /\ Begin(r, "save", "verify", s, u, a, k, t)

(* Mutant: every form of the session and user may be saved.                *)
WasIssued(q) == /\ q.key # Blank
                /\ made[q.key].sid = q.sid /\ made[q.key].user = q.uid

(* Mutant: the key of anybody who is signed in to the session will do.     *)
AnybodysKey(q) == \E u \in Users : GetCSRFKey(u, q.sid) = q.key

(* verifyCSRFKey: the key of the row, a blank one if the row has none.     *)
KeyMatches(q) == GetCSRFKey(q.uid, q.sid) = q.key

Verify(r) ==
    /\ pc[r] = "verify"
    /\ IF KeyMatches(req[r]) THEN Continue(r, "store", req[r])
                             ELSE Answer(r, "error")
    /\ UNCHANGED <<store, article, inHand, made, writer>>

(* A query that only reads fails, or SummaryBuilder refuses the text.      *)
Refuse(r) ==
    /\ \/ pc[r] \in {"read", "verify"} /\ DbMayFail
       \/ pc[r] = "store"
    /\ Answer(r, "error")
    /\ UNCHANGED <<store, article, inHand, made, writer>>

(* Mutant: the query's parameters are bound in the wrong order.            *)
RowSwapped(q) == [userid |-> q.text, text |-> q.uid]

RowOf(q) == [userid |-> q.uid, text |-> q.text]

Put(a, q) == /\ article' = [article EXCEPT ![a] = RowOf(q)]
             /\ writer' = [writer EXCEPT ![a] = IfPatient(q.sid, q.key)]

(* saveArticle: a new row, with an id no article has had.                  *)
SaveArticle(q) ==
    /\ q.article = New
    /\ \E a \in FreshIds : Put(a, q)

(* Mutant: only the author's own articles, WHERE articleid = $5 AND userid *)
(* = $1.                                                                   *)
UpdateOwn(q) ==
    LET a == q.article
    IN  /\ a # New
        /\ IF article[a] # None /\ article[a].userid = q.uid THEN Put(a, q)
           ELSE UNCHANGED <<article, writer>>

(* updateArticle: WHERE articleid = $5; nobody asks how many rows matched. *)
UpdateArticle(q) ==
    LET a == q.article
    IN  /\ a # New
        /\ IF article[a] # None THEN Put(a, q)
           ELSE UNCHANGED <<article, writer>>

Store(r) ==
    /\ pc[r] = "store"
    /\ \E outcome \in Outcomes :
          /\ \/ outcome = "failed" /\ UNCHANGED <<article, writer>>
             \/ outcome # "failed" /\ SaveArticle(req[r])
             \/ outcome # "failed" /\ UpdateArticle(req[r])
          /\ Answer(r, IF outcome = "ok" THEN "saved" ELSE "error")
    /\ UNCHANGED <<store, inHand, made>>

(* The reply arrives at the browser, or is lost on the way.                *)
End(r) == /\ pc[r] = "reply"
          /\ pc' = [pc EXCEPT ![r] = "idle"]
          /\ req' = [req EXCEPT ![r] = None]
          /\ UNCHANGED <<store, article, made, writer>>

Receive(r) ==
    /\ End(r)
    /\ inHand' = IF req[r].reply = "form" THEN inHand \cup {req[r].key}
                                          ELSE inHand

Lose(r) == End(r) /\ UNCHANGED inHand

SignOut(s, u) ==
    /\ MayBegin(s) /\ u \in MappedUsers(s)
    /\ UnmapUuidToUser(s, u)
    /\ UNCHANGED <<article, pc, req, inHand, made, writer>>

SignIn(s, u) ==
    /\ MayBegin(s) /\ u \notin MappedUsers(s)
    /\ MapUuidToUser(s, u)
    /\ UNCHANGED <<article, pc, req, inHand, made, writer>>

Next == \/ \E r \in Requests :
              \/ \E s \in Sids, a \in Ids \cup {New}, u \in Users :
                    OpenEditor(r, s, a, u)
              \/ ReadArticle(r)
              \/ \E k \in Keys : IssueForm(r, k)
              \/ \E s \in Sids, u \in Users, k \in Keys \cup {Blank},
                    a \in Ids \cup {New}, t \in Texts : Post(r, s, u, k, a, t)
              \/ Verify(r) \/ Refuse(r) \/ Store(r)
              \/ Receive(r) \/ Lose(r)
        \/ \E s \in Sids, u \in Users : SignOut(s, u) \/ SignIn(s, u)

Spec == Init /\ [][Next]_vars

-----------------------------------------------------------------------------
(* Properties.                                                             *)

(* An article changes only by a save that was posted for it (a new article: *)
(* by one that named none), and only with a form that was rendered in the  *)
(* same session for the user who is recorded as its author, whoever signs  *)
(* in and out meanwhile, or with a blank key: Sessions says when one is    *)
(* accepted.                                                               *)
ChangedByOwnForm ==
    [][\A a \in Ids :
          article'[a] # article[a] =>
              \E r \in Requests :
                  LET q == req[r]
                  IN  /\ pc[r] = "store"
                      /\ q.article = IF article[a] = None THEN New ELSE a
                      /\ \/ q.key = Blank
                         \/ /\ made[q.key].sid = q.sid
                            /\ made[q.key].user = article'[a].userid]_vars

(* The row of article a is what q posted: the article it named, or one     *)
(* that did not exist before.                                              *)
StoredIn(a, q) == /\ article'[a] = RowOf(q)
                  /\ q.article = IF article[a] = None THEN New ELSE a

(* Whoever is told that an article was saved or updated finds, at that     *)
(* moment, his text under his name in the article he named or in a new     *)
(* one, whoever wrote it before; unless no article has the id he posted:   *)
(* "Article updated" is said even then, and nothing changes.               *)
StoredAsTold ==
    [][\A r \in Requests :
          pc[r] = "store" /\ pc'[r] = "reply" /\ req'[r].reply = "saved" =>
              \/ \E a \in Ids : StoredIn(a, req[r])
              \/ req[r].article \in FreshIds /\ article' = article]_vars

Saves(r, a) == /\ pc[r] = "store" /\ pc'[r] = "reply"
               /\ req[r].article = a /\ writer'[a] = req[r].key

(* A browser that waits for its answers and posts forms as rendered does   *)
(* not lose its own work: a save replaces a text saved in the same session *)
(* by the same user only if its form showed that text, or had stored it    *)
(* itself.  The one key per session and user sees to it: a tab left open   *)
(* and saved later is refused.                                             *)
OwnWorkKept ==
    [][\A r \in Requests, a \in Ids :
          Saves(r, a) /\ req[r].sid \in Patient =>
              LET k == req[r].key
                  w == writer[a]
              IN  \/ w \in {None, k, made[k].shown}
                  \/ made[w].sid # made[k].sid
                  \/ made[w].user # made[k].user]_vars

=============================================================================
