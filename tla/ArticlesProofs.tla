--------------------------- MODULE ArticlesProofs ---------------------------
(***************************************************************************)
(* Proofs about Articles for any number of articles, forms, sessions,      *)
(* users and concurrent requests, with or without failing queries.         *)
(***************************************************************************)
EXTENDS Articles, TLAPS

Steps == {"idle", "read", "issue", "verify", "store", "reply"}

(* A posted key is blank or that of a form that was rendered, by a patient *)
(* browser for the article it posts.                                       *)
Posted(q) == /\ q.key \in Keys \cup {Blank}
             /\ q.key # Blank => made[q.key] # None
             /\ q.sid \in Patient => /\ q.key # Blank
                                     /\ made[q.key].article = q.article

(* A key is blank, or that of a form rendered in session s for user u.     *)
Accepted(k, s, u) == k = Blank \/ (made[k].sid = s /\ made[k].user = u)

(* What a request at step s with locals q relies on.                       *)
Fits(s, q) ==
    /\ s = "read" => q.article \in Ids
    /\ s \in {"read", "issue"} => q.op = "edit"
    /\ s \in {"verify", "store"} =>
          q.op = "save" /\ Posted(q) /\ q.text \in Texts
    /\ s = "store" => Accepted(q.key, q.sid, q.uid)
    /\ q.reply = "form" => q.key \in Keys /\ made[q.key] # None

RequestsFit == \A r \in Requests : pc[r] # "idle" => Fits(pc[r], req[r])

InHand == \A k \in inHand : made[k] # None

(* The key in a row of user_session is that of a form rendered for it.     *)
KeyOwners ==
    \A s \in Sids, u \in Users :
        mapping[s][u] \in Keys =>
            LET k == mapping[s][u]
            IN  made[k] # None /\ made[k].sid = s /\ made[k].user = u

Writers == \A a \in Ids : writer[a] \in Keys => made[writer[a]] # None

IInv == /\ TypeOK /\ RequestsFit /\ InHand /\ KeyOwners /\ Writers

-----------------------------------------------------------------------------
(* What each step keeps.                                                   *)

(* Forms, once rendered, stay as they are.                                 *)
Grows ==
    /\ made' \in [Keys -> Form \cup {None}]
    /\ \A k \in Keys : made[k] # None => made'[k] = made[k]

RequestsOK ==
    /\ pc \in [Requests -> Steps]
    /\ req \in [Requests -> Request \cup {None}]
    /\ \A r \in Requests : pc[r] # "idle" => req[r] \in Request
    /\ RequestsFit

LEMMA FitsKept ==
    ASSUME TypeOK, Grows, NEW s \in Steps, NEW q \in Request, Fits(s, q)
    PROVE  Fits(s, q)'
<1>1. s \in {"verify", "store"} =>
          Posted(q)' /\ (q.key # Blank => made'[q.key] = made[q.key])
  BY DEF Fits, Posted, Grows
<1>2. s = "store" => Accepted(q.key, q.sid, q.uid)'
  BY <1>1 DEF Fits, Accepted
<1>3. q.reply = "form" => made'[q.key] # None
  BY DEF Fits, Grows
<1> QED BY <1>1, <1>2, <1>3 DEF Fits

LEMMA Move ==
    ASSUME IInv, Grows, NEW r \in Requests, NEW s \in Steps, NEW q \in Request,
           Continue(r, s, q), Fits(s, q)'
    PROVE  RequestsOK'
<1>1. /\ pc' \in [Requests -> Steps]
      /\ pc'[r] = s /\ \A x \in Requests \ {r} : pc'[x] = pc[x]
  BY DEF IInv, TypeOK, Continue, Steps
<1>2. /\ req' \in [Requests -> Request \cup {None}]
      /\ req'[r] = q /\ \A x \in Requests \ {r} : req'[x] = req[x]
  BY DEF IInv, TypeOK, Continue
<1>3. \A x \in Requests : pc'[x] # "idle" => req'[x] \in Request
  BY <1>1, <1>2 DEF IInv, TypeOK
<1>4. ASSUME NEW x \in Requests, pc'[x] # "idle"
      PROVE  Fits(pc[x], req[x])'
  <2>1. CASE x = r
    BY <1>1, <1>2, <2>1
  <2>2. CASE x # r
    <3>1. pc[x] \in Steps /\ req[x] \in Request /\ Fits(pc[x], req[x])
      BY <1>1, <1>4, <2>2 DEF IInv, TypeOK, RequestsFit, Steps
    <3>2. \A p \in Steps, y \in Request : Fits(p, y) => Fits(p, y)'
      BY FitsKept DEF IInv
    <3> QED
      <4>1. pc'[x] = pc[x] /\ req'[x] = req[x]
        BY <1>1, <1>2, <2>2
      <4> QED BY <3>1, <3>2, <4>1 DEF Fits, Posted, Accepted
  <2> QED BY <2>1, <2>2
<1> QED BY <1>1, <1>2, <1>3, <1>4 DEF RequestsOK, RequestsFit

LEMMA Stay ==
    ASSUME IInv, Grows, UNCHANGED <<pc, req>>
    PROVE  RequestsOK'
<1>1. ASSUME NEW x \in Requests, pc'[x] # "idle"
      PROVE  Fits(pc[x], req[x])'
  <2>1. pc[x] \in Steps /\ req[x] \in Request /\ Fits(pc[x], req[x])
    BY <1>1 DEF IInv, TypeOK, RequestsFit, Steps
  <2>2. \A p \in Steps, y \in Request : Fits(p, y) => Fits(p, y)'
    BY FitsKept DEF IInv
  <2> QED BY <2>1, <2>2 DEF Fits, Posted, Accepted
<1> QED BY <1>1 DEF RequestsOK, RequestsFit, IInv, TypeOK, Steps

LEMMA Idle ==
    ASSUME IInv, Grows, NEW r \in Requests,
           pc' = [pc EXCEPT ![r] = "idle"], req' = [req EXCEPT ![r] = None]
    PROVE  RequestsOK'
<1>1. /\ pc' \in [Requests -> Steps]
      /\ pc'[r] = "idle" /\ \A x \in Requests \ {r} : pc'[x] = pc[x]
  BY DEF IInv, TypeOK, Steps
<1>2. /\ req' \in [Requests -> Request \cup {None}]
      /\ \A x \in Requests \ {r} : req'[x] = req[x]
  BY DEF IInv, TypeOK
<1>3. \A x \in Requests : pc'[x] # "idle" => req'[x] \in Request
  BY <1>1, <1>2 DEF IInv, TypeOK
<1>4. ASSUME NEW x \in Requests, pc'[x] # "idle"
      PROVE  Fits(pc[x], req[x])'
  <2>1. x # r /\ pc'[x] = pc[x] /\ req'[x] = req[x]
    BY <1>1, <1>2, <1>4
  <2>2. pc[x] \in Steps /\ req[x] \in Request /\ Fits(pc[x], req[x])
    BY <1>4, <2>1 DEF IInv, TypeOK, RequestsFit, Steps
  <2>3. \A p \in Steps, y \in Request : Fits(p, y) => Fits(p, y)'
    BY FitsKept DEF IInv
  <2> QED BY <2>1, <2>2, <2>3 DEF Fits, Posted, Accepted
<1> QED BY <1>1, <1>2, <1>3, <1>4 DEF RequestsOK, RequestsFit

(* A step that touches no form.                                            *)
LEMMA Keeps ==
    ASSUME IInv, UNCHANGED made
    PROVE  Grows
BY DEF IInv, TypeOK, Grows


(* The same with the parts of the invariant about articles and forms.      *)
Others == /\ StoreTypeOK /\ inHand \subseteq Keys
          /\ made \in [Keys -> Form \cup {None}]
          /\ article \in [Ids -> Row \cup {None}]
          /\ writer \in [Ids -> Saved]
          /\ InHand /\ KeyOwners /\ Writers

LEMMA Parts == (RequestsOK /\ Others)' => IInv'
BY DEF RequestsOK, Others, IInv, TypeOK, Steps

LEMMA OthersKept ==
    ASSUME IInv, UNCHANGED <<store, article, inHand, made, writer>>
    PROVE  Others'
BY DEF IInv, TypeOK, Others, StoreTypeOK, store, InHand, KeyOwners, Writers

-----------------------------------------------------------------------------
(* The invariant holds at first, and each step keeps it.                   *)

THEOREM InitIInv == Init => IInv
<1> SUFFICES ASSUME Init PROVE IInv
  OBVIOUS
<1>1. StoreTypeOK
  <2>1. PICK owner \in [Sids -> Users] :
            mapping = [s \in Sids |->
                          [u \in Users |-> IF u = owner[s] THEN Null ELSE NoRow]]
    BY DEF Init
  <2> QED BY <2>1 DEF Init, StoreTypeOK
<1>2. TypeOK
  BY <1>1 DEF Init, TypeOK, Saved
<1>3. KeyOwners
  <2>1. PICK owner \in [Sids -> Users] :
            mapping = [s \in Sids |->
                          [u \in Users |-> IF u = owner[s] THEN Null ELSE NoRow]]
    BY DEF Init
  <2>2. \A s \in Sids, u \in Users : mapping[s][u] \notin Keys
    BY <2>1, StoreAssumption
  <2> QED BY <2>2 DEF KeyOwners
<1> QED BY <1>2, <1>3, StoreAssumption DEF Init, IInv, RequestsFit, InHand, Writers

LEMMA BeginStep ==
    ASSUME IInv, NEW r \in Requests, NEW op \in {"edit", "save"},
           NEW step \in {"read", "issue", "verify"},
           NEW s \in Sids, NEW u \in Users, NEW a \in Ids \cup {New},
           NEW k \in Keys \cup {Blank, None}, NEW t \in Texts \cup {None},
           Begin(r, op, step, s, u, a, k, t),
           step = "read" => a \in Ids,
           step # "verify" => op = "edit",
           step = "verify" =>
               /\ op = "save" /\ t \in Texts
               /\ k \in Keys \cup {Blank} /\ (k # Blank => made[k] # None)
               /\ s \in Patient => k # Blank /\ made[k].article = a
    PROVE  IInv'
<1> DEFINE q == [op |-> op, sid |-> s, uid |-> u, article |-> a,
                 shown |-> None, key |-> k, text |-> t, reply |-> "none"]
<1>1. q \in Request /\ step \in Steps
  BY DEF Request, Saved, Steps
<1>2. Grows
  BY Keeps DEF Begin
<1>3. Continue(r, step, q)
  BY DEF Begin
<1>4. Fits(step, q)
  BY DEF Fits, Posted
<1>5. Fits(step, q)'
  BY <1>1, <1>2, <1>4, FitsKept DEF IInv
<1>6. RequestsOK'
  BY <1>1, <1>2, <1>3, <1>5, Move
<1>7. Others'
  BY OthersKept DEF Begin
<1> QED BY <1>6, <1>7, Parts

LEMMA OpenEditorStep ==
    ASSUME IInv, NEW r \in Requests, NEW s \in Sids, NEW a \in Ids \cup {New},
           NEW u \in Users, OpenEditor(r, s, a, u)
    PROVE  IInv'
<1> DEFINE step == IF a = New THEN "issue" ELSE "read"
<1>1. step \in {"read", "issue"} /\ (step = "read" => a \in Ids)
  OBVIOUS
<1>2. Begin(r, "edit", step, s, u, a, None, None)
  BY DEF OpenEditor
<1> HIDE DEF step
<1> QED BY <1>1, <1>2, BeginStep

LEMMA PostStep ==
    ASSUME IInv, NEW r \in Requests, NEW s \in Sids, NEW u \in Users,
           NEW k \in Keys \cup {Blank}, NEW a \in Ids \cup {New},
           NEW t \in Texts, Post(r, s, u, k, a, t)
    PROVE  IInv'
<1>1. Begin(r, "save", "verify", s, u, a, k, t)
  BY DEF Post
<1>2. k # Blank => made[k] # None
  BY DEF Post, IInv, InHand
<1>3. s \in Patient => k # Blank /\ made[k].article = a
  BY DEF Post
<1> QED BY <1>1, <1>2, <1>3, BeginStep

(* A request that has its answer: locals that are of no more use are reset. *)
LEMMA AnswerRequest ==
    ASSUME IInv, NEW r \in Requests, pc[r] # "idle",
           NEW kind \in {"form", "saved", "error"},
           NEW k \in Keys \cup {None}, AnswerWith(r, kind, k)
    PROVE  \E q \in Request :
              /\ Continue(r, "reply", q)
              /\ q.sid = req[r].sid /\ q.reply = kind /\ q.key = k
<1>1. req[r] \in Request
  BY DEF IInv, TypeOK
<1>2. PICK q : q = [req[r] EXCEPT !.article = New, !.shown = None,
                                  !.text = None, !.key = k, !.reply = kind]
  OBVIOUS
<1>3. q \in Request /\ q.sid = req[r].sid /\ q.reply = kind /\ q.key = k
  BY <1>1, <1>2 DEF Request, Saved
<1>4. Continue(r, "reply", q)
  BY <1>2 DEF AnswerWith
<1> QED BY <1>3, <1>4

LEMMA AnswerStep ==
    ASSUME IInv, NEW r \in Requests, pc[r] # "idle",
           NEW kind \in {"saved", "error"}, Answer(r, kind), Grows
    PROVE  RequestsOK'
<1>1. PICK q \in Request : Continue(r, "reply", q) /\ q.reply = kind
  BY AnswerRequest DEF Answer
<1>2. Fits("reply", q)'
  BY <1>1 DEF Fits
<1>3. "reply" \in Steps
  BY DEF Steps
<1> QED BY <1>1, <1>2, <1>3, Move

LEMMA ReadStep ==
    ASSUME IInv, NEW r \in Requests, ReadArticle(r)
    PROVE  IInv'
<1> DEFINE a == req[r].article
           shown == IfPatient(req[r].sid, writer[a])
<1>1. /\ pc[r] = "read" /\ req[r] \in Request /\ Fits("read", req[r])
      /\ UNCHANGED <<store, article, inHand, made, writer>>
  BY DEF ReadArticle, IInv, TypeOK, RequestsFit
<1>2. Grows
  BY <1>1, Keeps
<1>3. Others'
  BY <1>1, OthersKept
<1>4. CASE Answer(r, "error")
  BY <1>1, <1>2, <1>3, <1>4, AnswerStep, Parts
<1>5. CASE Continue(r, "issue", [req[r] EXCEPT !.shown = shown])
  <2>1. PICK q : q = [req[r] EXCEPT !.shown = shown]
    OBVIOUS
  <2>2. a \in Ids /\ shown \in Saved
    BY <1>1 DEF Fits, IInv, TypeOK, IfPatient, Saved
  <2>3. q \in Request /\ q.op = req[r].op /\ q.key = req[r].key
        /\ q.reply = req[r].reply
    BY <1>1, <2>1, <2>2 DEF Request
  <2>4. Fits("issue", q)
    BY <1>1, <2>3 DEF Fits
  <2>5. "issue" \in Steps
    BY DEF Steps
  <2>6. Fits("issue", q)'
    BY <1>2, <2>3, <2>4, <2>5, FitsKept DEF IInv
  <2>7. Continue(r, "issue", q)
    BY <1>5, <2>1
  <2>8. RequestsOK'
    BY <1>2, <2>3, <2>5, <2>6, <2>7, Move
  <2> QED BY <1>3, <2>8, Parts
<1> QED BY <1>4, <1>5 DEF ReadArticle

(* verifyCSRFKey accepts a blank key or that of a form of its own.         *)
LEMMA MatchedKey ==
    ASSUME IInv, NEW q \in Request, Posted(q), KeyMatches(q)
    PROVE  /\ Accepted(q.key, q.sid, q.uid)
           /\ q.key # Blank => mapping[q.sid][q.uid] = q.key
<1>1. q.sid \in Sids /\ q.uid \in Users /\ q.key \in Keys \cup {Blank}
  BY DEF Request, Posted
<1>2. q.key # Blank => mapping[q.sid][q.uid] = q.key
  BY DEF KeyMatches, GetCSRFKey
<1>3. q.key # Blank => made[q.key].sid = q.sid /\ made[q.key].user = q.uid
  BY <1>1, <1>2 DEF IInv, KeyOwners
<1> QED BY <1>2, <1>3 DEF Accepted

LEMMA VerifyStep ==
    ASSUME IInv, NEW r \in Requests, Verify(r)
    PROVE  IInv'
<1>1. /\ pc[r] = "verify" /\ req[r] \in Request /\ Fits("verify", req[r])
      /\ UNCHANGED <<store, article, inHand, made, writer>>
  BY DEF Verify, IInv, TypeOK, RequestsFit
<1>2. Grows
  BY <1>1, Keeps
<1>3. Others'
  BY <1>1, OthersKept
<1>4. CASE Answer(r, "error")
  BY <1>1, <1>2, <1>3, <1>4, AnswerStep, Parts
<1>5. CASE KeyMatches(req[r]) /\ Continue(r, "store", req[r])
  <2>1. PICK q : q = req[r]
    OBVIOUS
  <2>2. Accepted(q.key, q.sid, q.uid)
    BY <1>1, <1>5, <2>1, MatchedKey DEF Fits
  <2>4. Fits("store", q)
    BY <1>1, <2>1, <2>2 DEF Fits
  <2>5. "store" \in Steps
    BY DEF Steps
  <2>6. Fits("store", q)'
    BY <1>1, <1>2, <2>1, <2>4, <2>5, FitsKept DEF IInv
  <2>7. RequestsOK'
    BY <1>1, <1>2, <1>5, <2>1, <2>5, <2>6, Move
  <2> QED BY <1>3, <2>7, Parts
<1> QED BY <1>4, <1>5 DEF Verify

LEMMA RefuseStep ==
    ASSUME IInv, NEW r \in Requests, Refuse(r)
    PROVE  IInv'
<1>1. pc[r] # "idle"
  BY DEF Refuse
<1> QED BY <1>1, Keeps, OthersKept, AnswerStep, Parts DEF Refuse

LEMMA EndStep ==
    ASSUME IInv, NEW r \in Requests, Receive(r) \/ Lose(r)
    PROVE  IInv'
<1>1. RequestsOK' /\ UNCHANGED <<store, article, made, writer>>
  BY Keeps, Idle DEF Receive, Lose, End
<1>2. inHand' \subseteq Keys /\ \A k \in inHand' : made[k] # None
  <2>1. CASE inHand' = inHand
    BY <2>1 DEF IInv, TypeOK, InHand
  <2>2. CASE req[r].reply = "form" /\ inHand' = inHand \cup {req[r].key}
            /\ pc[r] = "reply"
    <3>1. req[r].key \in Keys /\ made[req[r].key] # None
      BY <2>2 DEF IInv, RequestsFit, Fits
    <3> QED BY <2>2, <3>1 DEF IInv, TypeOK, InHand
  <2> QED BY <2>1, <2>2 DEF Receive, Lose, End
<1>3. Others'
  BY <1>1, <1>2 DEF IInv, TypeOK, Others, StoreTypeOK, store, InHand, KeyOwners,
                    Writers
<1> QED BY <1>1, <1>3, Parts

LEMMA SignStep ==
    ASSUME IInv, NEW s \in Sids, NEW u \in Users, SignOut(s, u) \/ SignIn(s, u)
    PROVE  IInv'
<1>1. UNCHANGED <<article, pc, req, inHand, made, writer>> /\ sess' = sess
  BY DEF SignOut, SignIn, MapUuidToUser, UnmapUuidToUser
<1>2. RequestsOK'
  BY <1>1, Keeps, Stay
<1>3. /\ mapping' \in [Sids -> [Users -> Keys \cup {NoRow, Null}]]
      /\ \A s2 \in Sids, u2 \in Users :
            mapping'[s2][u2] \in Keys => mapping'[s2][u2] = mapping[s2][u2]
  <2>1. mapping \in [Sids -> [Users -> Keys \cup {NoRow, Null}]]
    BY DEF IInv, TypeOK, StoreTypeOK
  <2>2. CASE mapping' = mapping
    BY <2>1, <2>2
  <2>3. ASSUME NEW v \in {NoRow, Null}, mapping' = [mapping EXCEPT ![s][u] = v]
        PROVE  <1>3!:
    BY <2>1, <2>3, StoreAssumption
  <2>4. mapping' = mapping \/ \E v \in {NoRow, Null} :
                                 mapping' = [mapping EXCEPT ![s][u] = v]
    BY DEF SignOut, SignIn, MapUuidToUser, UnmapUuidToUser
  <2> QED BY <2>2, <2>3, <2>4
<1>4. StoreTypeOK'
  BY <1>1, <1>3 DEF IInv, TypeOK, StoreTypeOK
<1>5. KeyOwners'
  BY <1>1, <1>3 DEF IInv, KeyOwners
<1>6. Others'
  BY <1>1, <1>4, <1>5 DEF IInv, TypeOK, Others, InHand, Writers
<1> QED BY <1>2, <1>6, Parts

LEMMA IssueStep ==
    ASSUME IInv, NEW r \in Requests, NEW k \in Keys, IssueForm(r, k)
    PROVE  IInv'
<1>1. PICK form : form = FormOf(req[r])
  OBVIOUS
<1>2. /\ pc[r] = "issue" /\ req[r] \in Request
      /\ made[k] = None /\ made' = [made EXCEPT ![k] = form]
      /\ UNCHANGED <<article, inHand, writer>>
  BY <1>1 DEF IssueForm, FreshKeys, IInv, TypeOK
<1>3. /\ form \in Form /\ form.sid = req[r].sid /\ form.user = req[r].uid
      /\ req[r].sid \in Sids /\ req[r].uid \in Users
  BY <1>1, <1>2 DEF Request, FormOf, Form
<1>4. form # None
  BY <1>3, ArticlesAssumption
<1>5. /\ made' \in [Keys -> Form \cup {None}] /\ made'[k] = form
      /\ \A k2 \in Keys \ {k} : made'[k2] = made[k2]
  BY <1>2, <1>3 DEF IInv, TypeOK
<1>6. Grows
  BY <1>2, <1>5 DEF Grows, IInv, TypeOK
<1>7. RequestsOK'
  <2>1. AnswerWith(r, "form", k) \/ AnswerWith(r, "error", None)
    BY DEF IssueForm, Answer
  <2>2. PICK q \in Request :
            /\ Continue(r, "reply", q)
            /\ q.reply = "form" => q.key = k
    BY <1>2, <2>1, AnswerRequest
  <2>3. Fits("reply", q)'
    BY <1>4, <1>5, <2>2 DEF Fits
  <2>4. "reply" \in Steps
    BY DEF Steps
  <2> QED BY <1>6, <2>2, <2>3, <2>4, Move
<1>8. /\ mapping' \in [Sids -> [Users -> Keys \cup {NoRow, Null}]] /\ sess' = sess
      /\ \A s \in Sids, u \in Users :
            \/ mapping'[s][u] = mapping[s][u]
            \/ s = req[r].sid /\ u = req[r].uid /\ mapping'[s][u] = k
  <2>1. mapping \in [Sids -> [Users -> Keys \cup {NoRow, Null}]]
    BY DEF IInv, TypeOK, StoreTypeOK
  <2>2. mapping' = mapping \/ mapping' = [mapping EXCEPT ![req[r].sid][req[r].uid] = k]
    BY DEF IssueForm, SaveCSRFKey, store
  <2>3. sess' = sess
    BY DEF IssueForm, SaveCSRFKey, store
  <2> QED BY <1>3, <2>1, <2>2, <2>3
<1>9. KeyOwners'
  <2> SUFFICES ASSUME NEW s \in Sids, NEW u \in Users, mapping'[s][u] \in Keys
               PROVE  /\ made'[mapping'[s][u]] # None
                      /\ made'[mapping'[s][u]].sid = s
                      /\ made'[mapping'[s][u]].user = u
    BY DEF KeyOwners
  <2>1. CASE mapping'[s][u] = mapping[s][u]
    <3>1. made[mapping[s][u]] # None /\ made[mapping[s][u]].sid = s
          /\ made[mapping[s][u]].user = u
      BY <2>1 DEF IInv, KeyOwners
    <3> QED BY <1>2, <1>5, <2>1, <3>1
  <2>2. CASE s = req[r].sid /\ u = req[r].uid /\ mapping'[s][u] = k
    BY <1>3, <1>4, <1>5, <2>2
  <2> QED BY <1>8, <2>1, <2>2
<1>10. InHand' /\ Writers'
  BY <1>2, <1>5 DEF IInv, TypeOK, InHand, Writers
<1>11. Others'
  BY <1>2, <1>5, <1>8, <1>9, <1>10 DEF IInv, TypeOK, Others, StoreTypeOK
<1> QED BY <1>7, <1>11, Parts

(* What a step at "store" writes: nothing, or the request's row, in a new  *)
(* place or where it belongs.                                              *)
Written(r, a) ==
    /\ a \in Ids
    /\ req[r].article = IF article[a] = None THEN New ELSE a
    /\ Put(a, req[r])

LEMMA StoreWrites ==
    ASSUME IInv, NEW r \in Requests, Store(r)
    PROVE  \/ UNCHANGED <<article, writer>>
           \/ \E a \in Ids : Written(r, a)
<1>1. \/ UNCHANGED <<article, writer>>
      \/ SaveArticle(req[r]) \/ UpdateArticle(req[r])
  BY DEF Store
<1>2. ASSUME SaveArticle(req[r]) PROVE \E a \in Ids : Written(r, a)
  BY <1>2 DEF SaveArticle, FreshIds, Written
<1>3. ASSUME UpdateArticle(req[r])
      PROVE  UNCHANGED <<article, writer>> \/ \E a \in Ids : Written(r, a)
  <2>1. req[r].article \in Ids
    BY <1>3 DEF UpdateArticle, Store, IInv, TypeOK, Request
  <2> QED BY <1>3, <2>1 DEF UpdateArticle, Written
<1> QED BY <1>1, <1>2, <1>3

LEMMA WhatIsPut ==
    ASSUME IInv, NEW r \in Requests, pc[r] = "store", NEW a \in Ids,
           Written(r, a)
    PROVE  /\ article' \in [Ids -> Row \cup {None}]
           /\ writer' \in [Ids -> Saved]
           /\ article'[a] = RowOf(req[r])
           /\ writer'[a] = IfPatient(req[r].sid, req[r].key)
           /\ writer'[a] \in Keys => made[writer'[a]] # None
           /\ \A b \in Ids \ {a} : article'[b] = article[b]
                                   /\ writer'[b] = writer[b]
<1>1. req[r] \in Request /\ Fits("store", req[r])
  BY DEF IInv, TypeOK, RequestsFit
<1>2. PICK w : w = IfPatient(req[r].sid, req[r].key)
  OBVIOUS
<1>3. /\ w \in Saved /\ req[r].uid \in Users
      /\ w \in Keys => made[w] # None
  BY <1>1, <1>2, StoreAssumption DEF Fits, Posted, Request, Saved, IfPatient
<1>4. RowOf(req[r]) \in Row
  BY <1>1, <1>3 DEF Fits, RowOf, Row
<1>5. /\ article' = [article EXCEPT ![a] = RowOf(req[r])]
      /\ writer' = [writer EXCEPT ![a] = w]
  BY <1>2 DEF Written, Put
<1> QED BY <1>2, <1>4, <1>5, <1>3 DEF IInv, TypeOK

LEMMA StoreStep ==
    ASSUME IInv, NEW r \in Requests, Store(r)
    PROVE  IInv'
<1>1. pc[r] = "store" /\ UNCHANGED <<store, inHand, made>>
  BY DEF Store
<1>2. /\ article' \in [Ids -> Row \cup {None}]
      /\ writer' \in [Ids -> Saved]
      /\ \A b \in Ids : writer'[b] \in Keys => made[writer'[b]] # None
  <2>1. CASE UNCHANGED <<article, writer>>
    BY <2>1 DEF IInv, TypeOK, Writers
  <2>2. ASSUME NEW a \in Ids, Written(r, a) PROVE <1>2!:
    BY <1>1, <2>2, WhatIsPut DEF IInv, TypeOK, Writers
  <2> QED BY <2>1, <2>2, StoreWrites
<1>3. Grows
  BY <1>1, <1>2 DEF IInv, TypeOK, Grows
<1>4. PICK kind \in {"saved", "error"} : Answer(r, kind)
  BY DEF Store
<1>5. RequestsOK'
  BY <1>1, <1>3, <1>4, AnswerStep
<1>6. Others'
  BY <1>1, <1>2 DEF IInv, TypeOK, Others, StoreTypeOK, store, InHand, KeyOwners,
                    Writers
<1> QED BY <1>5, <1>6, Parts

LEMMA StutterStep == ASSUME IInv, UNCHANGED vars PROVE IInv'
BY DEF IInv, TypeOK, vars, store, StoreTypeOK, RequestsFit, Fits, Posted,
       Accepted, InHand, KeyOwners, Writers

THEOREM NextIInv == IInv /\ [Next]_vars => IInv'
<1> SUFFICES ASSUME IInv, [Next]_vars PROVE IInv'
  OBVIOUS
<1>1. CASE UNCHANGED vars
  BY <1>1, StutterStep
<1>2. ASSUME NEW r \in Requests, NEW s \in Sids, NEW a \in Ids \cup {New},
             NEW u \in Users, OpenEditor(r, s, a, u)
      PROVE  IInv'
  BY <1>2, OpenEditorStep
<1>3. ASSUME NEW r \in Requests, ReadArticle(r) PROVE IInv'
  BY <1>3, ReadStep
<1>4. ASSUME NEW r \in Requests, NEW k \in Keys, IssueForm(r, k) PROVE IInv'
  BY <1>4, IssueStep
<1>5. ASSUME NEW r \in Requests, NEW s \in Sids, NEW u \in Users,
             NEW k \in Keys \cup {Blank}, NEW a \in Ids \cup {New},
             NEW t \in Texts, Post(r, s, u, k, a, t)
      PROVE  IInv'
  BY <1>5, PostStep
<1>6. ASSUME NEW r \in Requests, Verify(r) PROVE IInv'
  BY <1>6, VerifyStep
<1>7. ASSUME NEW r \in Requests, Refuse(r) PROVE IInv'
  BY <1>7, RefuseStep
<1>8. ASSUME NEW r \in Requests, Store(r) PROVE IInv'
  BY <1>8, StoreStep
<1>9. ASSUME NEW r \in Requests, Receive(r) \/ Lose(r) PROVE IInv'
  BY <1>9, EndStep
<1>10. ASSUME NEW s \in Sids, NEW u \in Users, SignOut(s, u) \/ SignIn(s, u)
       PROVE  IInv'
  BY <1>10, SignStep
<1> QED BY <1>1, <1>2, <1>3, <1>4, <1>5, <1>6, <1>7, <1>8, <1>9, <1>10 DEF Next

(* IInv is an invariant: types, and what every request relies on.          *)
THEOREM Invariance == Spec => []IInv
BY InitIInv, NextIInv, PTL DEF Spec

(* The state is well typed, for any number of requests and articles.       *)
THEOREM TypeCorrect == Spec => []TypeOK
<1>1. IInv => TypeOK
  BY DEF IInv
<1> QED BY <1>1, Invariance, PTL

-----------------------------------------------------------------------------

(* Only Store writes.                                                      *)
LEMMA OnlyStoreWrites ==
    ASSUME IInv, [Next]_vars
    PROVE  \/ UNCHANGED <<article, writer>>
           \/ \E r \in Requests : Store(r)
<1>1. ASSUME NEW r \in Requests, NEW s \in Sids, NEW a \in Ids \cup {New},
             NEW u \in Users, OpenEditor(r, s, a, u)
      PROVE  UNCHANGED <<article, writer>>
  BY <1>1 DEF OpenEditor, Begin
<1>2. ASSUME NEW r \in Requests, NEW s \in Sids, NEW u \in Users,
             NEW k \in Keys \cup {Blank}, NEW a \in Ids \cup {New},
             NEW t \in Texts, Post(r, s, u, k, a, t)
      PROVE  UNCHANGED <<article, writer>>
  BY <1>2 DEF Post, Begin
<1>3. ASSUME NEW r \in Requests, NEW k \in Keys, IssueForm(r, k)
      PROVE  UNCHANGED <<article, writer>>
  BY <1>3 DEF IssueForm
<1>4. ASSUME NEW r \in Requests,
             ReadArticle(r) \/ Verify(r) \/ Refuse(r) \/ Receive(r) \/ Lose(r)
      PROVE  UNCHANGED <<article, writer>>
  BY <1>4 DEF ReadArticle, Verify, Refuse, Receive, Lose, End
<1>5. ASSUME NEW s \in Sids, NEW u \in Users, SignOut(s, u) \/ SignIn(s, u)
      PROVE  UNCHANGED <<article, writer>>
  BY <1>5 DEF SignOut, SignIn
<1>6. ASSUME UNCHANGED vars PROVE UNCHANGED <<article, writer>>
  BY <1>6 DEF vars
<1> QED BY <1>1, <1>2, <1>3, <1>4, <1>5, <1>6 DEF Next

LEMMA ChangedStep ==
    ASSUME IInv, [Next]_vars, NEW a \in Ids, article'[a] # article[a]
    PROVE  \E r \in Requests :
              /\ pc[r] = "store"
              /\ req[r].article = IF article[a] = None THEN New ELSE a
              /\ \/ req[r].key = Blank
                 \/ /\ made[req[r].key].sid = req[r].sid
                    /\ made[req[r].key].user = article'[a].userid
<1>1. PICK r \in Requests : Store(r)
  BY OnlyStoreWrites
<1>2. pc[r] = "store" /\ Fits("store", req[r])
  BY <1>1 DEF Store, IInv, RequestsFit
<1>3. PICK b \in Ids : Written(r, b)
  BY <1>1, StoreWrites
<1>4. b = a
  BY <1>2, <1>3, WhatIsPut
<1>5. article'[a].userid = req[r].uid
  <2>1. article'[a] = RowOf(req[r])
    BY <1>2, <1>3, <1>4, WhatIsPut
  <2> QED BY <2>1 DEF RowOf
<1> QED BY <1>2, <1>3, <1>4, <1>5 DEF Written, Fits, Accepted

(* Articles change only by saves that name them, with a key of a form of   *)
(* the same session and author or a blank one, whoever signs in and out    *)
(* and however the requests interleave.                                    *)
THEOREM ChangedByOwnFormHolds == Spec => ChangedByOwnForm
<1>1. IInv /\ [Next]_vars =>
        [\A a \in Ids :
           article'[a] # article[a] =>
              \E r \in Requests :
                  LET q == req[r]
                  IN  /\ pc[r] = "store"
                      /\ q.article = IF article[a] = None THEN New ELSE a
                      /\ \/ q.key = Blank
                         \/ /\ made[q.key].sid = q.sid
                            /\ made[q.key].user = article'[a].userid]_vars
  BY ChangedStep
<1> QED BY <1>1, Invariance, PTL DEF Spec, ChangedByOwnForm

(* A request that had to store its text ends in Store or in Refuse.        *)
LEMMA EndOfStore ==
    ASSUME IInv, [Next]_vars, NEW r \in Requests, pc[r] = "store",
           pc'[r] = "reply"
    PROVE  Store(r) \/ Refuse(r)
<1> DEFINE Goal == Store(r) \/ Refuse(r)
<1>0. /\ pc \in [Requests -> Steps]
      /\ \A x \in Requests : \A s, q :
            Continue(x, s, q) /\ x # r => pc'[r] = pc[r]
  BY DEF IInv, TypeOK, Steps, Continue
<1>1. ASSUME NEW x \in Requests, NEW s \in Sids, NEW a \in Ids \cup {New},
             NEW u \in Users, OpenEditor(x, s, a, u)
      PROVE  Goal
  BY <1>0, <1>1 DEF OpenEditor, Begin
<1>2. ASSUME NEW x \in Requests, NEW s \in Sids, NEW u \in Users,
             NEW k \in Keys \cup {Blank}, NEW a \in Ids \cup {New},
             NEW t \in Texts, Post(x, s, u, k, a, t)
      PROVE  Goal
  BY <1>0, <1>2 DEF Post, Begin
<1>3. ASSUME NEW x \in Requests, NEW k \in Keys, IssueForm(x, k) PROVE Goal
  BY <1>0, <1>3 DEF IssueForm, Answer, AnswerWith
<1>4. ASSUME NEW x \in Requests, ReadArticle(x) \/ Verify(x) PROVE Goal
  BY <1>0, <1>4 DEF ReadArticle, Verify, Answer, AnswerWith
<1>5. ASSUME NEW x \in Requests, Refuse(x) \/ Store(x) PROVE Goal
  <2>1. \A kind : Answer(x, kind) /\ x # r => pc'[r] = pc[r]
    BY <1>0 DEF Answer, AnswerWith
  <2> QED BY <1>5, <2>1 DEF Refuse, Store
<1>6. ASSUME NEW x \in Requests, Receive(x) \/ Lose(x) PROVE Goal
  BY <1>0, <1>6 DEF Receive, Lose, End
<1>7. ASSUME NEW s \in Sids, NEW u \in Users, SignOut(s, u) \/ SignIn(s, u)
      PROVE  Goal
  BY <1>7 DEF SignOut, SignIn
<1>8. ASSUME UNCHANGED vars PROVE Goal
  BY <1>8 DEF vars
<1> QED BY <1>1, <1>2, <1>3, <1>4, <1>5, <1>6, <1>7, <1>8 DEF Next

LEMMA StoredStep ==
    ASSUME IInv, [Next]_vars, NEW r \in Requests, pc[r] = "store",
           pc'[r] = "reply", req'[r].reply = "saved"
    PROVE  \/ \E a \in Ids : StoredIn(a, req[r])
           \/ req[r].article \in FreshIds /\ article' = article
<1>1. req[r] \in Request
  BY DEF IInv, TypeOK
<1>2. \A kind : Answer(r, kind) => req'[r].reply = kind
  BY <1>1 DEF IInv, TypeOK, Answer, AnswerWith, Continue, Request
<1>3. ~Refuse(r)
  BY <1>2 DEF Refuse
<1>4. Store(r)
  BY <1>3, EndOfStore
<1>5. SaveArticle(req[r]) \/ UpdateArticle(req[r])
  BY <1>2, <1>4 DEF Store
<1>6. ASSUME NEW a \in Ids, Written(r, a)
      PROVE  \E b \in Ids : StoredIn(b, req[r])
  BY <1>6, WhatIsPut DEF Written, StoredIn
<1>7. CASE SaveArticle(req[r])
  BY <1>6, <1>7 DEF SaveArticle, FreshIds, Written
<1>8. CASE UpdateArticle(req[r])
  <2>1. req[r].article \in Ids
    BY <1>1, <1>8 DEF UpdateArticle, Request
  <2>2. CASE article[req[r].article] # None
    BY <1>6, <1>8, <2>1, <2>2 DEF UpdateArticle, Written
  <2>3. CASE article[req[r].article] = None
    BY <1>8, <2>1, <2>3 DEF UpdateArticle, FreshIds
  <2> QED BY <2>2, <2>3
<1> QED BY <1>5, <1>7, <1>8

(* Who is told that his text is stored finds it stored, or has named an    *)
(* article that is not there.                                              *)
THEOREM StoredAsToldHolds == Spec => StoredAsTold
<1>1. IInv /\ [Next]_vars =>
        [\A r \in Requests :
          pc[r] = "store" /\ pc'[r] = "reply" /\ req'[r].reply = "saved" =>
              \/ \E a \in Ids : StoredIn(a, req[r])
              \/ req[r].article \in FreshIds /\ article' = article]_vars
  BY StoredStep
<1> QED BY <1>1, Invariance, PTL DEF Spec, StoredAsTold

-----------------------------------------------------------------------------
(* Browsers that wait for one answer before they ask again.                *)

(* Request r is under way in such a session.                               *)
Calm(r) == pc[r] # "idle" /\ req[r].sid \in Patient

(* One request of a session at a time.                                     *)
Alone == \A q, r \in Requests :
            Calm(q) /\ Calm(r) /\ req[q].sid = req[r].sid => q = r

(* So the key that was verified is still the session's when it is used.    *)
KeyHeld == \A r \in Requests :
              Calm(r) /\ pc[r] = "store" =>
                  mapping[req[r].sid][req[r].uid] = req[r].key

(* A text was saved with key w by somebody else, or it is not missed.      *)
Known(w, s, u, known) == \/ w \in known \cup {None}
                         \/ made[w].sid # s \/ made[w].user # u

(* A form with the session's key knows the last text of its article, or is *)
(* about to be made so.                                                    *)
CurrentKnows ==
    \A s \in Patient, u \in Users :
        LET k == mapping[s][u]
        IN  k \in Keys /\ made[k].article \in Ids =>
               Known(writer[made[k].article], s, u, {k, made[k].shown})

NextKnows ==
    \A r \in Requests :
        Calm(r) /\ pc[r] = "issue" /\ req[r].article \in Ids =>
            Known(writer[req[r].article], req[r].sid, req[r].uid,
                  {req[r].shown})

PInv == IInv /\ Alone /\ KeyHeld /\ CurrentKnows /\ NextKnows

(* What a step of request r leaves as it is for the others.                *)
OthersWait(r) == \A x \in Requests \ {r} : pc'[x] = pc[x] /\ req'[x] = req[x]

LEMMA ContinueAlone ==
    ASSUME PInv, NEW r \in Requests, NEW s \in Steps, NEW q,
           Continue(r, s, q)
    PROVE  OthersWait(r) /\ pc'[r] = s /\ req'[r] = q
BY DEF PInv, IInv, TypeOK, Continue, OthersWait, Steps

LEMMA AloneKept ==
    ASSUME PInv, NEW r \in Requests, OthersWait(r),
           pc[r] # "idle" /\ (pc'[r] # "idle" => req'[r].sid = req[r].sid)
    PROVE  Alone'
BY DEF PInv, Alone, Calm, OthersWait

(* The step of a request that touches no table.                            *)
LEMMA QuietStep ==
    ASSUME PInv, NEW r \in Requests, OthersWait(r), pc[r] # "idle",
           pc'[r] # "idle" => req'[r].sid = req[r].sid,
           pc'[r] \notin {"issue", "store"},
           UNCHANGED <<mapping, made, writer>>
    PROVE  (Alone /\ KeyHeld /\ CurrentKnows /\ NextKnows)'
<1>1. Alone'
  BY AloneKept
<1>2. KeyHeld'
  BY DEF PInv, KeyHeld, Calm, OthersWait
<1>3. CurrentKnows'
  BY DEF PInv, CurrentKnows, Known
<1>4. NextKnows'
  BY DEF PInv, NextKnows, Calm, Known, OthersWait
<1> QED BY <1>1, <1>2, <1>3, <1>4

LEMMA PInit == Init => PInv
<1> SUFFICES ASSUME Init PROVE PInv
  OBVIOUS
<1>1. IInv
  BY InitIInv
<1>2. \A s \in Sids, u \in Users : mapping[s][u] \notin Keys
  <2>1. PICK owner \in [Sids -> Users] :
            mapping = [s \in Sids |->
                          [u \in Users |-> IF u = owner[s] THEN Null ELSE NoRow]]
    BY DEF Init
  <2> QED BY <2>1, StoreAssumption
<1>3. \A r \in Requests : pc[r] = "idle"
  BY DEF Init
<1> QED BY <1>1, <1>2, <1>3, ArticlesAssumption
        DEF PInv, Alone, KeyHeld, CurrentKnows, NextKnows, Calm

(* The step in which a request gets its answer.                            *)
LEMMA PAnswer ==
    ASSUME PInv, NEW r \in Requests, pc[r] # "idle",
           NEW kind \in {"form", "saved", "error"},
           NEW k \in Keys \cup {None}, AnswerWith(r, kind, k)
    PROVE  OthersWait(r) /\ pc'[r] = "reply" /\ req'[r].sid = req[r].sid
<1>1. PICK q \in Request : Continue(r, "reply", q) /\ q.sid = req[r].sid
  BY AnswerRequest DEF PInv
<1>2. "reply" \in Steps
  BY DEF Steps
<1> QED BY <1>1, <1>2, ContinueAlone

LEMMA PBegin ==
    ASSUME PInv, NEW r \in Requests, NEW op,
           NEW step \in {"read", "issue", "verify"},
           NEW s \in Sids, NEW u, NEW a, NEW k, NEW t,
           Begin(r, op, step, s, u, a, k, t), step = "issue" => a \notin Ids
    PROVE  (Alone /\ KeyHeld /\ CurrentKnows /\ NextKnows)'
<1>1. PICK q : q = [op |-> op, sid |-> s, uid |-> u, article |-> a,
                    shown |-> None, key |-> k, text |-> t, reply |-> "none"]
  OBVIOUS
<1>2. q.sid = s /\ q.article = a
  BY <1>1
<1>3. OthersWait(r) /\ pc'[r] = step /\ req'[r] = q
  BY <1>1, ContinueAlone DEF Begin, Steps
<1>4. \A x \in Requests : Calm(x) => req[x].sid # s
  BY DEF Begin, MayBegin, Calm
<1>5. Alone'
  BY <1>2, <1>3, <1>4 DEF PInv, Alone, Calm, OthersWait
<1>6. UNCHANGED <<mapping, made, writer>>
  BY DEF Begin, store
<1>7. KeyHeld'
  BY <1>3, <1>6 DEF PInv, KeyHeld, Calm, OthersWait
<1>8. CurrentKnows'
  BY <1>6 DEF PInv, CurrentKnows, Known
<1>9. NextKnows'
  BY <1>2, <1>3, <1>6 DEF PInv, NextKnows, Calm, Known, OthersWait
<1> QED BY <1>5, <1>7, <1>8, <1>9

LEMMA PRead ==
    ASSUME PInv, NEW r \in Requests, ReadArticle(r)
    PROVE  (Alone /\ KeyHeld /\ CurrentKnows /\ NextKnows)'
<1> DEFINE shown == IfPatient(req[r].sid, writer[req[r].article])
<1>1. /\ pc[r] = "read" /\ UNCHANGED <<mapping, made, writer>>
      /\ req[r] \in Request
  BY DEF ReadArticle, store, PInv, IInv, TypeOK
<1>2. CASE Answer(r, "error")
  <2>1. OthersWait(r) /\ pc'[r] = "reply" /\ req'[r].sid = req[r].sid
    BY <1>1, <1>2, PAnswer DEF Answer
  <2> QED BY <1>1, <2>1, QuietStep
<1>3. CASE Continue(r, "issue", [req[r] EXCEPT !.shown = shown])
  <2>0. "issue" \in Steps
    BY DEF Steps
  <2>1. /\ OthersWait(r) /\ pc'[r] = "issue"
        /\ req'[r] = [req[r] EXCEPT !.shown = shown]
    BY <1>3, <2>0, ContinueAlone
  <2>2. /\ req'[r].sid = req[r].sid
        /\ req'[r].article = req[r].article
        /\ req'[r].shown = shown
    BY <1>1, <2>1 DEF Request
  <2>3. Alone'
    BY <1>1, <2>1, <2>2, AloneKept
  <2>4. KeyHeld' /\ CurrentKnows'
    BY <1>1, <2>1 DEF PInv, KeyHeld, Calm, CurrentKnows, Known, OthersWait
  <2>5. NextKnows'
    <3> SUFFICES ASSUME NEW x \in Requests, Calm(x)', pc'[x] = "issue",
                        req'[x].article \in Ids
                 PROVE  Known(writer[req[x].article], req[x].sid,
                              req[x].uid, {req[x].shown})'
      BY DEF NextKnows
    <3>1. CASE x = r
      BY <1>1, <2>2, <3>1 DEF Known, Calm, IfPatient
    <3>2. CASE x # r
      BY <1>1, <2>1, <3>2 DEF PInv, NextKnows, Calm, Known, OthersWait
    <3> QED BY <3>1, <3>2
  <2> QED BY <2>3, <2>4, <2>5
<1> QED BY <1>2, <1>3 DEF ReadArticle

LEMMA PVerify ==
    ASSUME PInv, NEW r \in Requests, Verify(r)
    PROVE  (Alone /\ KeyHeld /\ CurrentKnows /\ NextKnows)'
<1>1. /\ pc[r] = "verify" /\ UNCHANGED <<mapping, made, writer>>
      /\ req[r] \in Request
  BY DEF Verify, store, PInv, IInv, TypeOK
<1>2. "reply" \in Steps /\ "store" \in Steps
  BY DEF Steps
<1>3. CASE Answer(r, "error")
  <2>1. OthersWait(r) /\ pc'[r] = "reply" /\ req'[r].sid = req[r].sid
    BY <1>1, <1>3, PAnswer DEF Answer
  <2> QED BY <1>1, <2>1, QuietStep
<1>4. CASE KeyMatches(req[r]) /\ Continue(r, "store", req[r])
  <2>1. OthersWait(r) /\ pc'[r] = "store" /\ req'[r] = req[r]
    BY <1>2, <1>4, ContinueAlone
  <2>2. Alone'
    BY <1>1, <2>1, AloneKept
  <2>3. KeyHeld'
    <3>1. Posted(req[r])
      BY <1>1 DEF PInv, IInv, RequestsFit, Fits
    <3>2. req[r].sid \in Patient =>
             mapping[req[r].sid][req[r].uid] = req[r].key
      BY <1>1, <1>4, <3>1, MatchedKey DEF PInv, Posted
    <3> QED BY <1>1, <2>1, <3>2 DEF PInv, KeyHeld, Calm, OthersWait
  <2>4. CurrentKnows' /\ NextKnows'
    BY <1>1, <2>1
    DEF PInv, CurrentKnows, NextKnows, Calm, Known, OthersWait
  <2> QED BY <2>2, <2>3, <2>4
<1> QED BY <1>3, <1>4 DEF Verify

LEMMA PRefuse ==
    ASSUME PInv, NEW r \in Requests, Refuse(r)
    PROVE  (Alone /\ KeyHeld /\ CurrentKnows /\ NextKnows)'
<1>1. /\ pc[r] # "idle" /\ UNCHANGED <<mapping, made, writer>>
      /\ req[r] \in Request
  BY DEF Refuse, store, PInv, IInv, TypeOK
<1>2. OthersWait(r) /\ pc'[r] = "reply" /\ req'[r].sid = req[r].sid
  BY <1>1, PAnswer DEF Refuse, Answer
<1> QED BY <1>1, <1>2, QuietStep

LEMMA PEnd ==
    ASSUME PInv, NEW r \in Requests, Receive(r) \/ Lose(r)
    PROVE  (Alone /\ KeyHeld /\ CurrentKnows /\ NextKnows)'
<1>1. End(r)
  BY DEF Receive, Lose
<1>2. OthersWait(r) /\ pc[r] # "idle" /\ pc'[r] = "idle"
  BY <1>1 DEF End, PInv, IInv, TypeOK, OthersWait
<1>3. UNCHANGED <<mapping, made, writer>>
  BY <1>1 DEF End, store
<1> QED BY <1>2, <1>3, QuietStep

LEMMA PSign ==
    ASSUME PInv, NEW s \in Sids, NEW u \in Users,
           SignOut(s, u) \/ SignIn(s, u)
    PROVE  (Alone /\ KeyHeld /\ CurrentKnows /\ NextKnows)'
<1>1. UNCHANGED <<pc, req, made, writer>>
  BY DEF SignOut, SignIn
<1>2. \A x \in Requests : Calm(x) => req[x].sid # s /\ req[x].sid \in Sids
  BY ArticlesAssumption DEF SignOut, SignIn, MayBegin, Calm
<1>3. /\ \A s2 \in Sids \ {s} : mapping'[s2] = mapping[s2]
      /\ \A s2 \in Sids, u2 \in Users :
            mapping'[s2][u2] \in Keys => mapping'[s2][u2] = mapping[s2][u2]
  <2>1. mapping \in [Sids -> [Users -> Keys \cup {NoRow, Null}]]
    BY DEF PInv, IInv, TypeOK, StoreTypeOK
  <2>2. CASE mapping' = mapping
    BY <2>1, <2>2
  <2>3. ASSUME NEW v \in {NoRow, Null}, mapping' = [mapping EXCEPT ![s][u] = v]
        PROVE  <1>3!:
    BY <2>1, <2>3, StoreAssumption
  <2>4. mapping' = mapping \/ \E v \in {NoRow, Null} :
                                 mapping' = [mapping EXCEPT ![s][u] = v]
    BY DEF SignOut, SignIn, MapUuidToUser, UnmapUuidToUser
  <2> QED BY <2>2, <2>3, <2>4
<1>4. Alone' /\ NextKnows'
  BY <1>1 DEF PInv, Alone, Calm, NextKnows, Known
<1>5. KeyHeld'
  BY <1>1, <1>2, <1>3 DEF PInv, KeyHeld, Calm
<1>6. CurrentKnows'
  BY <1>1, <1>3, ArticlesAssumption DEF PInv, CurrentKnows, Known
<1> QED BY <1>4, <1>5, <1>6

LEMMA PIssue ==
    ASSUME PInv, NEW r \in Requests, NEW k \in Keys, IssueForm(r, k)
    PROVE  (Alone /\ KeyHeld /\ CurrentKnows /\ NextKnows)'
<1>1. PICK form : form = FormOf(req[r])
  OBVIOUS
<1>2. /\ pc[r] = "issue" /\ req[r] \in Request
      /\ made[k] = None /\ made' = [made EXCEPT ![k] = form]
      /\ writer' = writer
  BY <1>1 DEF IssueForm, FreshKeys, PInv, IInv, TypeOK
<1>3. /\ form.article = req[r].article /\ form.shown = req[r].shown
      /\ form.sid = req[r].sid /\ form.user = req[r].uid
      /\ req[r].sid \in Sids /\ req[r].uid \in Users
  BY <1>1, <1>2 DEF Request, FormOf
<1>4. /\ made'[k] = form /\ \A k2 \in Keys \ {k} : made'[k2] = made[k2]
  BY <1>2 DEF PInv, IInv, TypeOK
<1>5. \A a \in Ids : writer[a] # None => writer[a] \in Keys \ {k}
  BY <1>2 DEF PInv, IInv, TypeOK, Writers, Saved
<1>6. \A a \in Ids, s \in Sids, u \in Users : \A known :
         Known(writer[a], s, u, known) => Known(writer[a], s, u, known)'
  BY <1>2, <1>4, <1>5 DEF Known
<1>7. OthersWait(r) /\ pc'[r] = "reply" /\ req'[r].sid = req[r].sid
  <2>1. AnswerWith(r, "form", k) \/ AnswerWith(r, "error", None)
    BY DEF IssueForm, Answer
  <2> QED BY <1>2, <2>1, PAnswer
<1>8. Alone'
  BY <1>2, <1>7, AloneKept
<1>9. \A s \in Sids, u \in Users :
         \/ mapping'[s][u] = mapping[s][u]
         \/ s = req[r].sid /\ u = req[r].uid /\ mapping'[s][u] = k
  <2>1. mapping \in [Sids -> [Users -> Keys \cup {NoRow, Null}]]
    BY DEF PInv, IInv, TypeOK, StoreTypeOK
  <2>2. mapping' = mapping \/ mapping' = [mapping EXCEPT ![req[r].sid][req[r].uid] = k]
    BY DEF IssueForm, SaveCSRFKey, store
  <2> QED BY <1>3, <2>1, <2>2
<1>10. KeyHeld'
  <2> SUFFICES ASSUME NEW x \in Requests, Calm(x)', pc'[x] = "store"
               PROVE  mapping'[req'[x].sid][req'[x].uid] = req'[x].key
    BY DEF KeyHeld
  <2>1. x # r /\ Calm(x) /\ pc[x] = "store" /\ req'[x] = req[x]
    BY <1>7 DEF OthersWait, Calm
  <2>2. req[x].sid \in Sids /\ req[x].uid \in Users /\ req[x].sid # req[r].sid
    BY <1>2, <2>1 DEF PInv, IInv, TypeOK, Request, Alone, Calm
  <2>3. mapping[req[x].sid][req[x].uid] = req[x].key
    BY <2>1 DEF PInv, KeyHeld
  <2> QED BY <1>9, <2>1, <2>2, <2>3
<1>11. NextKnows'
  <2> SUFFICES ASSUME NEW x \in Requests, Calm(x)', pc'[x] = "issue",
                      req'[x].article \in Ids
               PROVE  Known(writer[req[x].article], req[x].sid, req[x].uid,
                            {req[x].shown})' 
    BY DEF NextKnows
  <2>1. x # r /\ Calm(x) /\ pc[x] = "issue" /\ req'[x] = req[x]
    BY <1>7 DEF OthersWait, Calm
  <2>2. req[x].sid \in Sids /\ req[x].uid \in Users
    BY <2>1 DEF PInv, IInv, TypeOK, Request
  <2>3. Known(writer[req[x].article], req[x].sid, req[x].uid,
              {req[x].shown})
    BY <2>1 DEF PInv, NextKnows
  <2> QED BY <1>2, <1>4, <1>5, <2>1, <2>2, <2>3 DEF Known
<1>12. CurrentKnows'
  <2> SUFFICES ASSUME NEW s \in Patient, NEW u \in Users,
                      mapping'[s][u] \in Keys,
                      made'[mapping'[s][u]].article \in Ids
               PROVE  Known(writer[made[mapping[s][u]].article], s, u,
                            {mapping[s][u], made[mapping[s][u]].shown})'
    BY DEF CurrentKnows
  <2>0. s \in Sids
    BY ArticlesAssumption
  <2>1. CASE mapping'[s][u] = mapping[s][u]
    <3>1. made[mapping[s][u]] # None
      BY <2>0, <2>1 DEF PInv, IInv, KeyOwners
    <3>2. made'[mapping'[s][u]] = made[mapping[s][u]]
      BY <1>2, <1>4, <2>1, <3>1
    <3>3. Known(writer[made[mapping[s][u]].article], s, u,
                {mapping[s][u], made[mapping[s][u]].shown})
      BY <2>1, <3>2 DEF PInv, CurrentKnows
    <3> QED BY <1>2, <1>4, <1>5, <2>1, <3>2, <3>3 DEF Known, Accepted
  <2>2. CASE s = req[r].sid /\ u = req[r].uid /\ mapping'[s][u] = k
    <3>1. Known(writer[form.article], s, u, {form.shown})
      BY <1>2, <1>3, <1>4, <2>2 DEF PInv, NextKnows, Calm
    <3>2. form.article \in Ids
      BY <1>4, <2>2
    <3> QED BY <1>2, <1>4, <1>5, <2>2, <3>1, <3>2 DEF Known
  <2> QED BY <1>9, <2>0, <2>1, <2>2
<1> QED BY <1>8, <1>10, <1>11, <1>12

LEMMA PStore ==
    ASSUME PInv, NEW r \in Requests, Store(r)
    PROVE  (Alone /\ KeyHeld /\ CurrentKnows /\ NextKnows)'
<1>1. /\ pc[r] = "store" /\ UNCHANGED <<mapping, made>>
      /\ req[r] \in Request /\ Fits("store", req[r])
  BY DEF Store, store, PInv, IInv, TypeOK, RequestsFit
<1>2. PICK kind \in {"saved", "error"} : Answer(r, kind)
  BY DEF Store
<1>3. OthersWait(r) /\ pc'[r] = "reply" /\ req'[r].sid = req[r].sid
  BY <1>1, <1>2, PAnswer DEF Answer
<1>4. CASE UNCHANGED <<article, writer>>
  BY <1>1, <1>3, <1>4, QuietStep
<1>5. ASSUME NEW a \in Ids, Written(r, a)
      PROVE  (Alone /\ KeyHeld /\ CurrentKnows /\ NextKnows)'
  <2>1. /\ writer'[a] = IfPatient(req[r].sid, req[r].key)
        /\ \A b \in Ids \ {a} : writer'[b] = writer[b]
    BY <1>1, <1>5, WhatIsPut DEF PInv
  <2>2. /\ req[r].sid \in Sids /\ req[r].uid \in Users
        /\ Accepted(req[r].key, req[r].sid, req[r].uid)
        /\ req[r].sid \in Patient =>
              /\ mapping[req[r].sid][req[r].uid] = req[r].key
              /\ req[r].key # Blank
    BY <1>1 DEF Fits, Posted, Request, PInv, KeyHeld, Calm
  <2>3. Alone'
    BY <1>1, <1>3, AloneKept
  <2>4. KeyHeld'
    BY <1>1, <1>3 DEF PInv, KeyHeld, Calm, OthersWait
  <2>5. CurrentKnows'
    <3> SUFFICES ASSUME NEW s \in Patient, NEW u \in Users,
                        mapping[s][u] \in Keys,
                        made[mapping[s][u]].article \in Ids
                 PROVE  Known(writer[made[mapping[s][u]].article], s, u,
                              {mapping[s][u], made[mapping[s][u]].shown})'
      BY <1>1 DEF CurrentKnows
    <3>1. CASE made[mapping[s][u]].article = a
      <4>1. CASE s = req[r].sid /\ u = req[r].uid
        BY <1>1, <2>1, <2>2, <3>1, <4>1 DEF Known, Accepted, IfPatient
      <4>2. CASE ~(s = req[r].sid /\ u = req[r].uid)
        BY <1>1, <2>1, <2>2, <3>1, <4>2 DEF Known, Accepted, IfPatient
      <4> QED BY <4>1, <4>2
    <3>2. CASE made[mapping[s][u]].article # a
      BY <1>1, <2>1, <3>2 DEF PInv, CurrentKnows, Known
    <3> QED BY <3>1, <3>2
  <2>6. NextKnows'
    <3> SUFFICES ASSUME NEW x \in Requests, Calm(x)', pc'[x] = "issue",
                        req'[x].article \in Ids
                 PROVE  Known(writer[req[x].article], req[x].sid,
                              req[x].uid, {req[x].shown})'
      BY DEF NextKnows
    <3>1. x # r /\ Calm(x) /\ pc[x] = "issue" /\ req'[x] = req[x]
      BY <1>3 DEF OthersWait, Calm
    <3>2. req[x].sid # req[r].sid
      BY <1>1, <3>1 DEF PInv, Alone, Calm
    <3>3. CASE req[x].article = a
      BY <1>1, <2>1, <2>2, <3>1, <3>2, <3>3 DEF Known, Accepted, IfPatient
    <3>4. CASE req[x].article # a
      BY <1>1, <2>1, <3>1, <3>4 DEF PInv, NextKnows, Known
    <3> QED BY <3>3, <3>4
  <2> QED BY <2>3, <2>4, <2>5, <2>6
<1>6. UNCHANGED <<article, writer>> \/ \E a \in Ids : Written(r, a)
  BY StoreWrites DEF PInv
<1> QED BY <1>4, <1>5, <1>6

LEMMA PNext == ASSUME PInv, [Next]_vars PROVE PInv'
<1> DEFINE Rest == Alone /\ KeyHeld /\ CurrentKnows /\ NextKnows
<1>0. IInv'
  BY NextIInv DEF PInv
<1>1. ASSUME UNCHANGED vars PROVE Rest'
  BY <1>1 DEF vars, store, PInv, Alone, KeyHeld, CurrentKnows, NextKnows,
              Calm, Known
<1>2. ASSUME NEW r \in Requests, NEW s \in Sids, NEW a \in Ids \cup {New},
             NEW u \in Users, OpenEditor(r, s, a, u)
      PROVE  Rest'
  <2> DEFINE step == IF a = New THEN "issue" ELSE "read"
  <2>1. step \in {"read", "issue"} /\ (step = "issue" => a \notin Ids)
    BY ArticlesAssumption
  <2>2. Begin(r, "edit", step, s, u, a, None, None)
    BY <1>2 DEF OpenEditor
  <2> HIDE DEF step
  <2> QED BY <2>1, <2>2, PBegin
<1>3. ASSUME NEW r \in Requests, NEW s \in Sids, NEW u \in Users,
             NEW k \in Keys \cup {Blank}, NEW a \in Ids \cup {New},
             NEW t \in Texts, Post(r, s, u, k, a, t)
      PROVE  Rest'
  <2>1. Begin(r, "save", "verify", s, u, a, k, t)
    BY <1>3 DEF Post
  <2> QED BY <2>1, PBegin
<1>4. ASSUME NEW r \in Requests, ReadArticle(r) PROVE Rest'
  BY <1>4, PRead
<1>5. ASSUME NEW r \in Requests, NEW k \in Keys, IssueForm(r, k) PROVE Rest'
  BY <1>5, PIssue
<1>6. ASSUME NEW r \in Requests, Verify(r) PROVE Rest'
  BY <1>6, PVerify
<1>7. ASSUME NEW r \in Requests, Refuse(r) PROVE Rest'
  BY <1>7, PRefuse
<1>8. ASSUME NEW r \in Requests, Store(r) PROVE Rest'
  BY <1>8, PStore
<1>9. ASSUME NEW r \in Requests, Receive(r) \/ Lose(r) PROVE Rest'
  BY <1>9, PEnd
<1>10. ASSUME NEW s \in Sids, NEW u \in Users, SignOut(s, u) \/ SignIn(s, u)
       PROVE  Rest'
  BY <1>10, PSign
<1>11. Rest'
  BY <1>1, <1>2, <1>3, <1>4, <1>5, <1>6, <1>7, <1>8, <1>9, <1>10 DEF Next
<1> QED BY <1>0, <1>11 DEF PInv

LEMMA KeptStep ==
    ASSUME PInv, [Next]_vars, NEW r \in Requests, NEW a \in Ids, Saves(r, a),
           req[r].sid \in Patient
    PROVE  \/ writer[a] \in {None, req[r].key, made[req[r].key].shown}
           \/ made[writer[a]].sid # made[req[r].key].sid
           \/ made[writer[a]].user # made[req[r].key].user
<1>1. /\ pc[r] = "store" /\ req[r].article = a
      /\ req[r] \in Request /\ Fits("store", req[r])
  BY DEF Saves, PInv, IInv, TypeOK, RequestsFit
<1>2. /\ req[r].key \in Keys /\ req[r].uid \in Users
      /\ made[req[r].key].sid = req[r].sid
      /\ made[req[r].key].user = req[r].uid
      /\ made[req[r].key].article = a
      /\ mapping[req[r].sid][req[r].uid] = req[r].key
  BY <1>1 DEF Fits, Posted, Accepted, Request, PInv, KeyHeld, Calm
<1>3. Known(writer[a], req[r].sid, req[r].uid,
            {req[r].key, made[req[r].key].shown})
  BY <1>2 DEF PInv, CurrentKnows
<1> QED BY <1>2, <1>3 DEF Known

(* A browser that waits does not lose its own work, in any number of tabs, *)
(* sessions and articles.                                                  *)
THEOREM OwnWorkKeptHolds == Spec => OwnWorkKept
<1>1. PInv /\ [Next]_vars => PInv'
  BY PNext
<1>2. PInv /\ [Next]_vars =>
        [\A r \in Requests, a \in Ids :
          Saves(r, a) /\ req[r].sid \in Patient =>
              LET k == req[r].key
                  w == writer[a]
              IN  \/ w \in {None, k, made[k].shown}
                  \/ made[w].sid # made[k].sid
                  \/ made[w].user # made[k].user]_vars
  BY KeptStep
<1> QED BY <1>1, <1>2, PInit, PTL DEF Spec, OwnWorkKept

=============================================================================
