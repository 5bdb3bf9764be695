---------------------------- MODULE ServerProofs ----------------------------
(***************************************************************************)
(* Proofs about Server, for any number of requests, threads, connections   *)
(* and restarts of the database; and about Routes, for any articles, files *)
(* and paths people type: every path that the pages offer is followed      *)
(* through the factory and the handlers.                                   *)
(***************************************************************************)
EXTENDS Server, Routes, FiniteSetTheorems, TLAPS

IInv == TypeOK /\ ConnectionsAreHeld

-----------------------------------------------------------------------------

LEMMA OpenIsFinite ==
    ASSUME TypeOK
    PROVE  /\ IsFiniteSet(open) /\ Cardinality(open) \in Nat
           /\ \A r \in Requests : IsFiniteSet(open \cup {r})
                                  /\ IsFiniteSet(open \ {r})
<1>1. open \subseteq Requests
  BY DEF TypeOK
<1>2. IsFiniteSet(open)
  BY <1>1, RequestsAssumption, FS_Subset
<1> QED BY <1>2, FS_CardinalityType, FS_AddElement, FS_RemoveElement

THEOREM InitIInv == Init => IInv
<1> SUFFICES ASSUME Init PROVE IInv
  OBVIOUS
<1>1. TypeOK
  BY RequestsAssumption, ServerAssumption DEF Init, TypeOK, InCallback
<1>2. Cardinality(open) = 0
  BY FS_EmptySet DEF Init
<1>3. ConnectionsAreHeld
  BY <1>2, MaxConnsAssumption DEF Init, ConnectionsAreHeld
<1> QED BY <1>1, <1>3 DEF IInv

(* Only Connect adds to open, and it looks at how many there are.          *)
LEMMA FewerAreHeld ==
    ASSUME IInv, open' \subseteq open,
           \A r \in open' : stage'[r] \notin {"none", "connect"}
    PROVE  ConnectionsAreHeld'
<1>1. IsFiniteSet(open) /\ Cardinality(open) \in Nat
      /\ Cardinality(open) <= MaxConns
  BY OpenIsFinite DEF IInv, ConnectionsAreHeld
<1>2. Cardinality(open') <= Cardinality(open) /\ IsFiniteSet(open')
  BY <1>1, FS_Subset
<1>3. Cardinality(open') \in Nat
  BY <1>2, FS_CardinalityType
<1> QED BY <1>1, <1>2, <1>3, MaxConnsAssumption DEF ConnectionsAreHeld

LEMMA AcceptStep ==
    ASSUME IInv, NEW r \in Requests, NEW t \in Threads, Accept(r, t)
    PROVE  IInv'
<1>1. TypeOK'
  BY RequestsAssumption, CookiesAssumption DEF Accept, Enter, IInv, TypeOK, InCallback
<1>2. ConnectionsAreHeld'
  <2>1. r \notin open
    BY DEF Accept, IInv, ConnectionsAreHeld
  <2> QED BY <2>1, FewerAreHeld
          DEF Accept, Enter, IInv, TypeOK, ConnectionsAreHeld
<1> QED BY <1>1, <1>2 DEF IInv

LEMMA ConnectStep ==
    ASSUME IInv, NEW r \in Requests, Connect(r) PROVE IInv'
<1>1. TypeOK'
  BY DEF Connect, IInv, TypeOK, InCallback
<1>2. /\ open' = open \cup {r} /\ r \notin open
      /\ Cardinality(open) < MaxConns /\ Cardinality(open) \in Nat
  BY OpenIsFinite DEF Connect, Connectable, IInv, ConnectionsAreHeld
<1>3. Cardinality(open') = Cardinality(open) + 1
  BY <1>2, OpenIsFinite, FS_AddElement DEF IInv
<1>4. Cardinality(open') <= MaxConns
  BY <1>2, <1>3, MaxConnsAssumption
<1>5. \A q \in open' : stage'[q] \notin {"none", "connect"}
  BY <1>2 DEF Connect, IInv, TypeOK, ConnectionsAreHeld
<1> QED BY <1>1, <1>4, <1>5 DEF IInv, ConnectionsAreHeld

LEMMA TerminateStep == ASSUME IInv, Terminate PROVE IInv'
<1>1. TypeOK'
  <2>1. /\ up' = FALSE /\ open' = {}
        /\ stage' = [q \in Requests |-> "none"]
        /\ running' = [t \in Threads |-> Nobody]
        /\ db' = db /\ thread' = thread /\ cookie' = cookie /\ restarts' = restarts
    BY DEF Terminate
  <2>2. \A r \in Requests : stage'[r] \notin InCallback /\ running'[thread'[r]] # r
    BY <2>1, RequestsAssumption DEF IInv, TypeOK, InCallback
  <2>3. stage' \in [Requests -> InCallback \cup {"none", "body", "sending"}]
        /\ running' \in [Threads -> Requests \cup {Nobody}]
    BY <2>1
  <2> QED BY <2>1, <2>2, <2>3 DEF IInv, TypeOK
<1>2. ConnectionsAreHeld'
  <2>1. Cardinality(open') = 0 /\ open' = {}
    BY FS_EmptySet DEF Terminate
  <2> QED BY <2>1, MaxConnsAssumption DEF ConnectionsAreHeld
<1> QED BY <1>1, <1>2 DEF IInv

LEMMA InitSessionStep ==
    ASSUME IInv, NEW r \in Requests, InitSession(r) PROVE IInv'
<1>1. TypeOK'
  BY RequestsAssumption DEF InitSession, Leave, IInv, TypeOK, InCallback
<1>2. ConnectionsAreHeld'
  BY FewerAreHeld DEF InitSession, Leave, IInv, TypeOK, ConnectionsAreHeld
<1> QED BY <1>1, <1>2 DEF IInv

LEMMA ProcessRequestStep ==
    ASSUME IInv, NEW r \in Requests, ProcessRequest(r) PROVE IInv'
<1>1. TypeOK'
  BY RequestsAssumption DEF ProcessRequest, Enter, IInv, TypeOK, InCallback
<1>2. ConnectionsAreHeld'
  BY FewerAreHeld DEF ProcessRequest, Enter, IInv, TypeOK, ConnectionsAreHeld
<1> QED BY <1>1, <1>2 DEF IInv

LEMMA ReplyStep == ASSUME IInv, NEW r \in Requests, Reply(r) PROVE IInv'
<1>1. TypeOK'
  BY RequestsAssumption DEF Reply, Leave, IInv, TypeOK, InCallback
<1>2. ConnectionsAreHeld'
  BY FewerAreHeld DEF Reply, Leave, IInv, TypeOK, ConnectionsAreHeld
<1> QED BY <1>1, <1>2 DEF IInv

LEMMA EndStep == ASSUME IInv, NEW r \in Requests, End(r) PROVE IInv'
<1>1. TypeOK'
  BY RequestsAssumption DEF End, Delete, IInv, TypeOK, InCallback
<1>2. ConnectionsAreHeld'
  BY FewerAreHeld DEF End, Delete, IInv, TypeOK, ConnectionsAreHeld
<1> QED BY <1>1, <1>2 DEF IInv

LEMMA DatabaseStep ==
    ASSUME IInv, DbRestart \/ DbStop \/ DbStart PROVE IInv'
<1>1. TypeOK'
  BY ServerAssumption DEF DbRestart, DbStop, DbStart, GoAway, IInv, TypeOK
<1>2. ConnectionsAreHeld'
  BY FewerAreHeld
     DEF DbRestart, DbStop, DbStart, GoAway, IInv, TypeOK, ConnectionsAreHeld
<1> QED BY <1>1, <1>2 DEF IInv

THEOREM NextIInv == IInv /\ [Next]_vars => IInv'
<1>1. IInv /\ UNCHANGED vars => IInv'
  BY DEF vars, IInv, TypeOK, ConnectionsAreHeld
<1> QED BY <1>1, AcceptStep, ConnectStep, TerminateStep, InitSessionStep,
           ProcessRequestStep, ReplyStep, EndStep, DatabaseStep
        DEF Next, FailToConnect, ParseValueless

THEOREM Invariance == Spec => []IInv
BY InitIInv, NextIInv, PTL DEF Spec

(* The state is well typed, and a thread is in one callback at a time.     *)
THEOREM TypeCorrect == Spec => []TypeOK
<1>1. IInv => TypeOK
  BY DEF IInv
<1> QED BY <1>1, Invariance, PTL

(* However often the database goes away, and with however many requests at *)
(* once, a connection is kept only by a handler that exists, and there are *)
(* never more of them than the database has.                               *)
THEOREM ConnectionsAlwaysHeld == Spec => []ConnectionsAreHeld
<1>1. IInv => ConnectionsAreHeld
  BY DEF IInv
<1> QED BY <1>1, Invariance, PTL

-----------------------------------------------------------------------------

(* Why the process ends.                                                   *)
OverLimit == db = "down" \/ Cardinality(Served) >= MaxConns

Valueless == \E r \in Requests : stage[r] = "session" /\ cookie[r] = "valueless"

LEMMA EndsOnlyThere ==
    ASSUME IInv, [Next]_vars, up' # up
    PROVE  OverLimit \/ Valueless
<1>1. PICK r \in Requests : FailToConnect(r) \/ ParseValueless(r)
  BY DEF Next, Accept, Connect, InitSession, ProcessRequest, Reply, End,
         DbRestart, DbStop, DbStart, GoAway, vars
<1>2. CASE ParseValueless(r)
  BY <1>2 DEF ParseValueless, Valueless
<1>3. CASE FailToConnect(r)
  <2>1. db = "up" => ~(Cardinality(open) < MaxConns)
    BY <1>3 DEF FailToConnect, Connectable
  <2>2. open \subseteq Served /\ Served \subseteq Requests
    BY DEF Served, IInv, TypeOK, ConnectionsAreHeld
  <2>3. IsFiniteSet(Served) /\ Cardinality(open) <= Cardinality(Served)
    BY <2>2, RequestsAssumption, FS_Subset
  <2>4. Cardinality(open) \in Nat /\ Cardinality(Served) \in Nat
    BY <2>3, OpenIsFinite, FS_CardinalityType DEF IInv
  <2>5. db \in {"up", "down"}
    BY DEF IInv, TypeOK
  <2> QED BY <2>1, <2>3, <2>4, <2>5, MaxConnsAssumption DEF OverLimit
<1> QED BY <1>1, <1>2, <1>3

(* Whatever becomes of its connections, the process ends only by a request *)
(* that cannot be connected because the database is down or as many others *)
(* as there are connections are under way, or by one whose cookie has no   *)
(* value.                                                                  *)
THEOREM SurvivesAlways == Spec => Survives
<1>1. IInv /\ [Next]_vars =>
        [up' # up => \/ db = "down" \/ Cardinality(Served) >= MaxConns
                     \/ \E r \in Requests : /\ stage[r] = "session"
                                            /\ cookie[r] = "valueless"]_vars
  BY EndsOnlyThere DEF OverLimit, Valueless
<1> QED BY <1>1, Invariance, PTL DEF Spec, Survives

(* A connection for every request there can be, a database that does no    *)
(* more than restart, and clients whose cookies have values.               *)
Enough == /\ ~DbMayStop /\ Cardinality(Requests) <= MaxConns
          /\ Cookies \subseteq {"valued"}

AllValued == \A r \in Requests : cookie[r] = "valued"

Alive == up /\ db = "up" /\ AllValued

LEMMA AlwaysConnectable ==
    ASSUME Enough, IInv, Alive, NEW r \in Requests, stage[r] = "connect"
    PROVE  Connectable
<1>1. r \notin open /\ open \subseteq Requests \ {r}
  BY DEF IInv, TypeOK, ConnectionsAreHeld
<1>2. /\ IsFiniteSet(Requests \ {r})
      /\ Cardinality(Requests \ {r}) = Cardinality(Requests) - 1
  BY RequestsAssumption, FS_RemoveElement
<1>3. Cardinality(open) <= Cardinality(Requests \ {r})
  BY <1>1, <1>2, FS_Subset
<1>4. Cardinality(open) \in Nat /\ Cardinality(Requests) \in Nat
  BY OpenIsFinite, RequestsAssumption, FS_CardinalityType DEF IInv
<1> QED BY <1>2, <1>3, <1>4, MaxConnsAssumption DEF Enough, Connectable, Alive

LEMMA StaysAlive ==
    ASSUME Enough, IInv, Alive, [Next]_vars PROVE Alive'
<1>1. \A r \in Requests : ~FailToConnect(r) /\ ~ParseValueless(r)
  BY AlwaysConnectable DEF FailToConnect, ParseValueless, Alive, AllValued
<1>2. CASE \E r \in Requests : \E t \in Threads : Accept(r, t)
  BY <1>2 DEF Alive, AllValued, Accept, Enough, IInv, TypeOK
<1>3. CASE \E r \in Requests :
              \/ Connect(r) \/ InitSession(r)
              \/ ProcessRequest(r) \/ Reply(r) \/ End(r)
  BY <1>3 DEF Alive, AllValued, Connect, InitSession, ProcessRequest, Reply, End
<1>4. CASE DbRestart \/ DbStop \/ DbStart \/ UNCHANGED vars
  BY <1>4 DEF Alive, AllValued, DbRestart, DbStop, DbStart, GoAway, Enough, vars
<1> QED BY <1>1, <1>2, <1>3, <1>4 DEF Next

(* With a connection for every request, and cookies that have values, the  *)
(* process survives any number of restarts of the database.                *)
THEOREM SurvivesWithEnough == Enough => (Spec => []up)
<1> SUFFICES ASSUME Enough PROVE Spec => []up
  OBVIOUS
<1>1. Init => Alive
  BY DEF Init, Alive, AllValued
<1>2. IInv /\ Alive /\ [Next]_vars => Alive'
  BY StaysAlive
<1>3. Alive => up
  BY DEF Alive
<1> QED BY <1>1, <1>2, <1>3, Invariance, PTL DEF Spec

-----------------------------------------------------------------------------
(* Routes.  What every answer is like, whatever is asked for.              *)

Destinations == {Home, Login, <<"edit">>}

AnyAnswer == [status : {200, 303, 400, 401, 404, 405, 500},
              page : PageNames, to : Destinations]

LEMMA PageIsAnswer ==
    ASSUME NEW n \in PageNames
    PROVE  Page(n) \in AnyAnswer /\ Page(n).status = 200
BY DEF Page, AnyAnswer, Destinations

LEMMA ErrorIsAnswer ==
    ASSUME NEW s \in {200, 400, 401, 404, 405, 500}
    PROVE  Error(s) \in AnyAnswer /\ Error(s).status = s
<1>1. "error" \in PageNames
  BY DEF PageNames
<1> QED BY <1>1 DEF Error, AnyAnswer, Destinations

LEMMA RedirectIsAnswer ==
    ASSUME NEW t \in Destinations
    PROVE  Redirect(t) \in AnyAnswer /\ Redirect(t).status = 303
<1>1. "error" \in PageNames
  BY DEF PageNames
<1> QED BY <1>1 DEF Redirect, AnyAnswer

LEMMA EditArticleTyped ==
    ASSUME NEW q PROVE EditArticle(q) \subseteq AnyAnswer
<1>1. "select" \in PageNames /\ "editor" \in PageNames
  BY DEF PageNames
<1> QED BY <1>1, PageIsAnswer, ErrorIsAnswer DEF EditArticle

LEMMA EditTyped ==
    ASSUME NEW m, NEW q PROVE EditAnswers(m, q) \subseteq AnyAnswer
<1>1. /\ "main" \in PageNames /\ "editor" \in PageNames /\ "saved" \in PageNames
      /\ "upload" \in PageNames /\ "uploaded" \in PageNames /\ "uploads" \in PageNames
  BY DEF PageNames
<1>2. Login \in Destinations
  BY DEF Destinations
<1> QED BY <1>1, <1>2, PageIsAnswer, ErrorIsAnswer, RedirectIsAnswer, EditArticleTyped
        DEF EditAnswers

LEMMA UserTyped ==
    ASSUME NEW m, NEW q PROVE UserAnswers(m, q) \subseteq AnyAnswer
<1>1. /\ "login" \in PageNames /\ "changepass" \in PageNames
      /\ "add" \in PageNames /\ "added" \in PageNames
  BY DEF PageNames
<1>2. Login \in Destinations /\ Home \in Destinations /\ <<"edit">> \in Destinations
  BY DEF Destinations
<1> QED BY <1>1, <1>2, PageIsAnswer, ErrorIsAnswer, RedirectIsAnswer
        DEF UserAnswers, LoginPage

LEMMA StaticTyped ==
    ASSUME NEW m, NEW q PROVE StaticAnswers(m, q) \subseteq AnyAnswer
<1>1. "file" \in PageNames
  BY DEF PageNames
<1> QED BY <1>1, PageIsAnswer, ErrorIsAnswer DEF StaticAnswers

LEMMA PrimaryTyped ==
    ASSUME NEW q PROVE PrimaryAnswers(q) \subseteq AnyAnswer
<1>1. "front" \in PageNames /\ "archive" \in PageNames /\ "article" \in PageNames
  BY DEF PageNames
<1> QED BY <1>1, PageIsAnswer, ErrorIsAnswer DEF PrimaryAnswers

LEMMA AnswersTyped ==
    ASSUME NEW m, NEW q PROVE Answers(m, q) \subseteq AnyAnswer
BY EditTyped, UserTyped, StaticTyped, PrimaryTyped DEF Answers

-----------------------------------------------------------------------------
(* What is offered, and what becomes of it.                                *)

(* Answers that are neither "Not Found" nor "Method Not Allowed".          *)
Found(answers) == \A a \in answers : a.status \notin {404, 405}

LEMMA PageFound ==
    ASSUME NEW n \in PageNames PROVE Page(n).status \notin {404, 405}
BY PageIsAnswer

LEMMA ErrorFound ==
    ASSUME NEW s \in {200, 400, 401, 500} PROVE Error(s).status \notin {404, 405}
BY ErrorIsAnswer

LEMMA RedirectFound ==
    ASSUME NEW t \in Destinations PROVE Redirect(t).status \notin {404, 405}
BY RedirectIsAnswer

(* SMT does not take the empty string, so Empty stays folded elsewhere.     *)
LEMMA EmptyIsNoWord ==
    Empty \notin {"about", "archives", "article", "user", "users", "login", "logout",
                  "changepass", "add", "edit", "editor", "new", "savearticle",
                  "upload", "viewupload", "static", "uploads", "favicon.ico"}
BY Zenon DEF Empty

(* Paths of one, two and three segments.                                   *)
LEMMA OneLong ==
    ASSUME NEW a
    PROVE  <<a>> \in Seq({a}) /\ Len(<<a>>) = 1 /\ <<a>>[1] = a
<1>1. <<a>> \in Seq({a})
  OBVIOUS
<1>2. Len(<<a>>) = 1
  OBVIOUS
<1>3. <<a>>[1] = a
  OBVIOUS
<1> QED BY <1>1, <1>2, <1>3

LEMMA OfOne ==
    ASSUME NEW a, NEW w, w = <<a>>
    PROVE  Len(w) = 1 /\ w[1] = a /\ Stripped(w) = w
<1>1. Len(w) = 1 /\ w[1] = a
  BY OneLong
<1>2. ASSUME NEW v, Len(v) = 1 PROVE Stripped(v) = v
  BY <1>2 DEF Stripped
<1> QED BY <1>1, <1>2

LEMMA OfTwo ==
    ASSUME NEW a, NEW b, b # Empty PROVE Stripped(<<a, b>>) = <<a, b>>
BY DEF Stripped, Last

LEMMA OfThree ==
    ASSUME NEW a, NEW b, NEW c, c # Empty PROVE Stripped(<<a, b, c>>) = <<a, b, c>>
BY DEF Stripped, Last

LEMMA PathOfOne == ASSUME NEW S, NEW a \in S PROVE <<a>> \in Seq(S)
OBVIOUS

LEMMA PathOfTwo == ASSUME NEW S, NEW a \in S, NEW b \in S PROVE <<a, b>> \in Seq(S)
OBVIOUS

LEMMA PathOfThree ==
    ASSUME NEW S, NEW a \in S, NEW b \in S, NEW c \in S PROVE <<a, b, c>> \in Seq(S)
OBVIOUS

LEMMA EditGuards ==
    ASSUME NEW q, NEW m, NEW s, s = Stripped(q),
           NEW answers, answers = EditAnswers(m, q)
    PROVE  /\ ~signedIn => answers = {Redirect(Login)}
           /\ signedIn /\ s = <<"edit">> => answers = {Page("main")}
           /\ signedIn /\ s = <<"edit", "new">> => answers = {Page("editor")}
           /\ signedIn /\ s = <<"edit", "savearticle">> /\ m = "POST" =>
                 answers = {Page("saved"), Error(400), Error(401), Error(500)}
           /\ signedIn /\ s \in {<<"edit", "article">>} \cup
                              {<<"edit", "article", a>> : a \in Ids}
                 => answers = EditArticle(q)
           /\ signedIn /\ s = <<"edit", "upload">> /\ m = "POST" =>
                 answers = {Page("uploaded"), Error(400), Error(401)}
           /\ signedIn /\ s = <<"edit", "upload">> /\ m = "GET" =>
                 answers = {Page("upload")}
           /\ signedIn /\ s = <<"edit", "viewupload">> =>
                 answers = {Page("uploads"), Error(500)}
<1>1. answers =
        CASE ~signedIn -> {Redirect(Login)}
          [] signedIn /\ s = <<"edit">> -> {Page("main")}
          [] signedIn /\ s = <<"edit", "new">> -> {Page("editor")}
          [] signedIn /\ s = <<"edit", "savearticle">> ->
                IF m = "POST"
                THEN {Page("saved"), Error(400), Error(401), Error(500)}
                ELSE {Error(405)}
          [] signedIn /\ IsPrefix(<<"edit", "article">>, s) -> EditArticle(q)
          [] signedIn /\ s = <<"edit", "upload">> ->
                IF m = "POST"
                THEN {Page("uploaded"), Error(400), Error(401)}
                ELSE {Page("upload")}
          [] signedIn /\ s = <<"edit", "viewupload">> ->
                {Page("uploads"), Error(500)}
          [] OTHER -> {Error(404)}
  BY DEF EditAnswers
<1>2. ~IsPrefix(<<"edit", "article">>, <<"edit">>)
  BY DEF IsPrefix
<1>3. /\ ~IsPrefix(<<"edit", "article">>, <<"edit", "new">>)
      /\ ~IsPrefix(<<"edit", "article">>, <<"edit", "savearticle">>)
      /\ ~IsPrefix(<<"edit", "article">>, <<"edit", "upload">>)
      /\ ~IsPrefix(<<"edit", "article">>, <<"edit", "viewupload">>)
  BY DEF IsPrefix
<1>4. CASE ~signedIn
  BY <1>1, <1>4
<1>5. CASE signedIn /\ s = <<"edit">>
  BY <1>1, <1>2, <1>5
<1>6. CASE signedIn /\ s = <<"edit", "new">>
  BY <1>1, <1>3, <1>6
<1>7. CASE signedIn /\ s = <<"edit", "savearticle">>
  BY <1>1, <1>3, <1>7
<1>8. CASE signedIn /\ s \in {<<"edit", "article">>} \cup
                            {<<"edit", "article", a>> : a \in Ids}
  <2>1. IsPrefix(<<"edit", "article">>, s)
    BY <1>8 DEF IsPrefix
  <2>2. s \notin {<<"edit">>, <<"edit", "new">>, <<"edit", "savearticle">>,
               <<"edit", "upload">>, <<"edit", "viewupload">>}
    BY <1>8
  <2> QED BY <1>1, <1>8, <2>1, <2>2
<1>9. CASE signedIn /\ s = <<"edit", "upload">>
  BY <1>1, <1>3, <1>9
<1>10. CASE signedIn /\ s = <<"edit", "viewupload">>
  BY <1>1, <1>3, <1>10
<1> QED BY <1>4, <1>5, <1>6, <1>7, <1>8, <1>9, <1>10

LEMMA UserGuards ==
    ASSUME NEW q, NEW m, NEW s, s = Stripped(q),
           NEW answers, answers = UserAnswers(m, q)
    PROVE  /\ s = <<"user", "login">> =>
                 answers = IF m = "POST" THEN {Redirect(Home), Page("login")}
                           ELSE LoginPage
           /\ s # <<"user", "login">> /\ ~signedIn => answers = {Redirect(Login)}
           /\ signedIn /\ s = <<"user", "logout">> => answers = {Redirect(Home)}
           /\ signedIn /\ s = <<"user", "changepass">> =>
                 answers = IF m = "POST" THEN {Redirect(Home), Page("changepass")}
                           ELSE {Page("changepass")}
           /\ signedIn /\ s = <<"user", "add">> =>
                 answers = IF m = "POST" THEN {Page("added"), Error(200), Error(400)}
                           ELSE {Page("add")}
<1>1. answers =
        CASE s = <<"user", "login">> ->
                IF m = "POST" THEN {Redirect(Home), Page("login")} ELSE LoginPage
          [] s # <<"user", "login">> /\ ~signedIn -> {Redirect(Login)}
          [] signedIn /\ s = <<"user", "logout">> -> {Redirect(Home)}
          [] signedIn /\ s = <<"user", "changepass">> ->
                IF m = "POST" THEN {Redirect(Home), Page("changepass")}
                ELSE {Page("changepass")}
          [] signedIn /\ s = <<"user", "add">> ->
                IF m = "POST" THEN {Page("added"), Error(200), Error(400)}
                ELSE {Page("add")}
          [] OTHER -> {Error(404)}
  BY DEF UserAnswers, Login
<1>2. CASE s = <<"user", "login">>
  BY <1>1, <1>2
<1>3. CASE s # <<"user", "login">> /\ ~signedIn
  BY <1>1, <1>3
<1>4. CASE signedIn /\ s = <<"user", "logout">>
  BY <1>1, <1>4
<1>5. CASE signedIn /\ s = <<"user", "changepass">>
  BY <1>1, <1>5
<1>6. CASE signedIn /\ s = <<"user", "add">>
  BY <1>1, <1>6
<1> QED BY <1>2, <1>3, <1>4, <1>5, <1>6

(* Which handler a path is given to.                                       *)
LEMMA HandlerOf ==
    ASSUME NEW q, NEW m
    PROVE  /\ q[1] = "edit" => Answers(m, q) = EditAnswers(m, q)
           /\ q[1] = "user" => Answers(m, q) = UserAnswers(m, q)
           /\ q[1] \in {"static", "uploads"} /\ Len(q) > 1 =>
                 Answers(m, q) = StaticAnswers(m, q)
           /\ q[1] \in {Empty, "archives", "article"} =>
                 Answers(m, q) = PrimaryAnswers(q)
<1>1. ASSUME q[1] \in {"edit", "user", Empty, "archives", "article"} PROVE ~IsStatic(q)
  <2>1. <<"favicon.ico">>[1] = "favicon.ico"
    OBVIOUS
  <2> QED BY <1>1, <2>1, EmptyIsNoWord DEF IsStatic
<1>2. ASSUME q[1] \in {"static", "uploads"}, Len(q) > 1 PROVE IsStatic(q)
  BY <1>2 DEF IsStatic
<1>3. CASE q[1] = "edit"
  BY <1>1, <1>3, EmptyIsNoWord DEF Answers
<1>4. CASE q[1] = "user"
  BY <1>1, <1>4, EmptyIsNoWord DEF Answers
<1>5. CASE q[1] \in {"static", "uploads"} /\ Len(q) > 1
  BY <1>2, <1>5, EmptyIsNoWord DEF Answers
<1>6. CASE q[1] \in {Empty, "archives", "article"}
  BY <1>1, <1>6, EmptyIsNoWord DEF Answers
<1> QED BY <1>3, <1>4, <1>5, <1>6

LEMMA EditorFound ==
    ASSUME NEW q \in {<<"edit">>, <<"edit", "new">>, <<"edit", "article">>,
                      <<"edit", "upload">>, <<"edit", "viewupload">>}
    PROVE  Found(Answers("GET", q))
<1>1. /\ "main" \in PageNames /\ "editor" \in PageNames /\ "select" \in PageNames
      /\ "upload" \in PageNames /\ "uploads" \in PageNames
  BY DEF PageNames
<1>2. Login \in Destinations
  BY DEF Destinations
<1>3. q[1] = "edit" /\ Stripped(q) = q
  <2>1. CASE q = <<"edit">>
    BY <2>1, OfOne
  <2>2. CASE q # <<"edit">>
    <3>1. PICK b \in {"new", "article", "upload", "viewupload"} : q = <<"edit", b>>
      BY <2>2
    <3>2. Stripped(<<"edit", b>>) = <<"edit", b>>
      BY OfTwo, EmptyIsNoWord
    <3> QED BY <3>1, <3>2
  <2> QED BY <2>1, <2>2
<1>4. Answers("GET", q) = EditAnswers("GET", q)
  BY <1>3, HandlerOf
<1>5. EditArticle(<<"edit", "article">>) = {Page("select")}
  BY DEF EditArticle
<1>6. EditAnswers("GET", q) \in {{Redirect(Login)}, {Page("main")}, {Page("editor")},
          {Page("select")}, {Page("upload")}, {Page("uploads"), Error(500)}}
  <2>1. CASE ~signedIn
    BY <2>1, EditGuards
  <2>2. CASE signedIn
    BY <1>3, <1>5, <2>2, EditGuards
  <2> QED BY <2>1, <2>2
<1> QED BY <1>1, <1>2, <1>4, <1>6, PageFound, RedirectFound, ErrorFound DEF Found

LEMMA SelectedFound ==
    ASSUME articles \subseteq Ids, NEW a \in articles
    PROVE  Found(Answers("GET", <<"edit", "article", a>>))
<1> DEFINE q == <<"edit", "article", a>>
<1>1. a # Empty /\ a \in Ids
  BY RoutesAssumption
<1>2. Stripped(q) = q /\ q[1] = "edit" /\ Len(q) = 3 /\ q[3] = a
  <2>1. Stripped(<<"edit", "article", a>>) = <<"edit", "article", a>>
    BY <1>1, OfThree
  <2> QED BY <2>1
<1>3. EditArticle(q) = {Page("editor")}
  <2>1. q # <<"edit", "article">>
    OBVIOUS
  <2> HIDE DEF q
  <2> QED BY <1>1, <1>2, <2>1 DEF EditArticle
<1>4. EditAnswers("GET", q) \in {{Redirect(Login)}, {Page("editor")}}
  <2>1. q \in {<<"edit", "article", x>> : x \in Ids}
    BY <1>1
  <2> HIDE DEF q
  <2> QED BY <1>2, <1>3, <2>1, EditGuards
<1>5. Answers("GET", q) = EditAnswers("GET", q)
  <2> HIDE DEF q
  <2> QED BY <1>2, HandlerOf
<1>6. Login \in Destinations /\ "editor" \in PageNames
  BY DEF Destinations, PageNames
<1> HIDE DEF q
<1>7. Found(Answers("GET", q))
  BY <1>4, <1>5, <1>6, PageFound, RedirectFound DEF Found
<1> QED BY <1>7 DEF q

LEMMA UserPagesFound ==
    ASSUME NEW q \in {<<"user", "add">>, <<"user", "logout">>,
                      <<"user", "changepass">>, <<"user", "login">>},
           NEW m \in {"GET", "POST"}
    PROVE  Found(Answers(m, q))
<1>1. /\ "login" \in PageNames /\ "changepass" \in PageNames
      /\ "add" \in PageNames /\ "added" \in PageNames
  BY DEF PageNames
<1>2. Login \in Destinations /\ Home \in Destinations /\ <<"edit">> \in Destinations
  BY DEF Destinations
<1>3. q[1] = "user" /\ Stripped(q) = q
  <2>1. PICK b \in {"add", "logout", "changepass", "login"} : q = <<"user", b>>
    OBVIOUS
  <2>2. Stripped(<<"user", b>>) = <<"user", b>>
    BY OfTwo, EmptyIsNoWord
  <2> QED BY <2>1, <2>2
<1>4. Answers(m, q) = UserAnswers(m, q)
  BY <1>3, HandlerOf
<1>5. Found(LoginPage)
  BY <1>1, <1>2, PageFound, RedirectFound DEF LoginPage, Found
<1>6. UserAnswers(m, q) \in {LoginPage, {Redirect(Home), Page("login")},
          {Redirect(Login)},
          {Redirect(Home)}, {Redirect(Home), Page("changepass")}, {Page("changepass")},
          {Page("added"), Error(200), Error(400)}, {Page("add")}}
  <2>1. CASE q = <<"user", "login">>
    BY <1>3, <2>1, UserGuards
  <2>2. CASE q # <<"user", "login">> /\ ~signedIn
    BY <1>3, <2>2, UserGuards
  <2>3. CASE q # <<"user", "login">> /\ signedIn
    BY <1>3, <2>3, UserGuards
  <2> QED BY <2>1, <2>2, <2>3
<1> QED BY <1>1, <1>2, <1>4, <1>5, <1>6, PageFound, RedirectFound, ErrorFound DEF Found

LEMMA FormsFound ==
    ASSUME NEW n, NEW q \in Form(n)
    PROVE  Found(Answers("POST", q)) /\ q \in Seq(Segments)
<1>1. q \in {<<"edit", "savearticle">>, <<"edit", "upload">>, <<"user", "login">>,
             <<"user", "changepass">>, <<"user", "add">>}
  BY DEF Form, EditorForm, UploadForm, LoginForm, Login, ChangePassForm, AddUserForm
<1>0. q \in Seq(Segments) /\ Stripped(q) = q
  <2>1. PICK a \in {"edit", "user"},
             b \in {"savearticle", "upload", "login", "changepass", "add"} :
             q = <<a, b>>
    BY <1>1
  <2>2. b # Empty /\ a \in Segments /\ b \in Segments
    BY RoutesAssumption, EmptyIsNoWord DEF Words
  <2>3. Stripped(<<a, b>>) = <<a, b>>
    BY <2>2, OfTwo
  <2>4. <<a, b>> \in Seq(Segments)
    BY <2>2, PathOfTwo
  <2> QED BY <2>1, <2>3, <2>4
<1>2. CASE q \in {<<"edit", "savearticle">>, <<"edit", "upload">>}
  <2>1. "saved" \in PageNames /\ "uploaded" \in PageNames /\ Login \in Destinations
    BY DEF PageNames, Destinations
  <2>2. q[1] = "edit" /\ Stripped(q) = q
    BY <1>0, <1>2
  <2>3. Answers("POST", q) = EditAnswers("POST", q)
    BY <2>2, HandlerOf
  <2>4. EditAnswers("POST", q) \in {{Redirect(Login)},
            {Page("saved"), Error(400), Error(401), Error(500)},
            {Page("uploaded"), Error(400), Error(401)}}
    BY <1>2, <2>2, EditGuards
  <2> QED BY <1>0, <2>1, <2>3, <2>4, PageFound, ErrorFound, RedirectFound DEF Found
<1>3. CASE q \in {<<"user", "login">>, <<"user", "changepass">>, <<"user", "add">>}
  BY <1>0, <1>3, UserPagesFound
<1> QED BY <1>0, <1>1, <1>2, <1>3

(* A path that parsePath leaves as it is.                                  *)
LEMMA PlainParsed ==
    ASSUME NEW q \in Seq(Segments), Plain(q)
    PROVE  ParsePath(q) = q /\ \A i \in DOMAIN q : q[i] # Refused
<1>1. q = [i \in DOMAIN q |-> q[i]]
  OBVIOUS
<1>2. \A i \in DOMAIN q : q[i] \in Segments
  OBVIOUS
<1> QED BY <1>1, <1>2, DecodedAssumption DEF ParsePath, Plain

LEMMA FilesFound ==
    ASSUME SameDir, files \subseteq Files, NEW f \in files, Decoded[f] = f
    PROVE  /\ Found(Answers("GET", <<"static", "uploads", f>>))
           /\ Found(Answers("GET", <<"uploads", f>>))
<1>1. "file" \in PageNames
  BY DEF PageNames
<1>2. ASSUME NEW q \in Seq(Segments), Plain(q), Exists(q),
             q[1] \in {"static", "uploads"}, Len(q) > 1,
             q # <<"favicon.ico">>
      PROVE  Found(Answers("GET", q))
  <2>1. Answers("GET", q) = StaticAnswers("GET", q)
    BY <1>2, HandlerOf
  <2>2. StaticAnswers("GET", q) = {Page("file")}
    BY <1>2, PlainParsed DEF StaticAnswers
  <2> QED BY <1>1, <2>1, <2>2, PageFound DEF Found
<1>3. Exists(<<"static", "uploads", f>>) /\ Exists(<<"uploads", f>>)
  BY DEF Exists
<1>4. /\ <<"static", "uploads", f>>[1] = "static" /\ Len(<<"static", "uploads", f>>) > 1
      /\ <<"static", "uploads", f>> # <<"favicon.ico">>
      /\ <<"uploads", f>>[1] = "uploads" /\ Len(<<"uploads", f>>) > 1
      /\ <<"uploads", f>> # <<"favicon.ico">>
  OBVIOUS
<1>5. "static" \in Segments /\ "uploads" \in Segments /\ f \in Segments
      /\ Decoded["static"] = "static" /\ Decoded["uploads"] = "uploads"
  BY RoutesAssumption, DecodedAssumption DEF Words
<1>6. /\ <<"static", "uploads", f>> \in Seq(Segments)
      /\ <<"uploads", f>> \in Seq(Segments)
  BY <1>5, PathOfTwo, PathOfThree
<1>7. Plain(<<"static", "uploads", f>>) /\ Plain(<<"uploads", f>>)
  BY <1>5 DEF Plain
<1> QED BY <1>2, <1>3, <1>4, <1>6, <1>7

MainPaths(as) == {Home, <<"archives">>} \cup ArchiveLinks(as)

LEMMA ArticlesFound ==
    ASSUME NEW q \in MainPaths(articles)
    PROVE  Found(Answers("GET", q))
<1>1. "front" \in PageNames /\ "archive" \in PageNames /\ "article" \in PageNames
  BY DEF PageNames
<1>2. /\ q[1] \in {Empty, "archives", "article"}
      /\ PrimaryAnswers(q) \in {{Page("front")}, {Page("archive")}, {Page("article")}}
  <2> DEFINE front == <<Empty>>
             archives == <<"archives">>
  <2>1. /\ front[1] = Empty /\ Len(front) = 1
        /\ archives[1] = "archives" /\ Len(archives) = 1
    BY OfOne
  <2>2. CASE q = front
    <3>1. q = Home /\ q # archives
      BY <2>1, <2>2, EmptyIsNoWord DEF Home
    <3>2. ~(Len(q) = 2)
      <4> HIDE DEF front, archives
      <4> QED BY <2>1, <2>2
    <3>3. PrimaryAnswers(q) = {Page("front")}
      BY <3>1, <3>2 DEF PrimaryAnswers
    <3> HIDE DEF front, archives
    <3> QED BY <2>1, <2>2, <3>3
  <2>3. CASE q = archives
    <3>1. q # Home
      <4>1. q # front
        <5> HIDE DEF front, archives
        <5> QED BY <2>1, <2>3, EmptyIsNoWord
      <4> QED BY <4>1 DEF Home
    <3>2. ~(Len(q) = 2)
      <4> HIDE DEF front, archives
      <4> QED BY <2>1, <2>3
    <3>3. PrimaryAnswers(q) = {Page("archive")}
      BY <2>3, <3>1, <3>2 DEF PrimaryAnswers
    <3> HIDE DEF front, archives
    <3> QED BY <2>1, <2>3, <3>3
  <2>4. CASE q \in {<<"article", a>> : a \in articles}
    <3>1. PICK a \in articles : q = <<"article", a>>
      BY <2>4
    <3>2. Len(q) = 2 /\ q[1] = "article" /\ q[2] = a
      BY <3>1
    <3>3. q # front /\ q # archives
      <4> HIDE DEF front, archives
      <4> QED BY <2>1, <3>2, EmptyIsNoWord
    <3>4. PrimaryAnswers(q) = {Page("article")}
      BY <3>2, <3>3 DEF PrimaryAnswers, Home
    <3> QED BY <3>2, <3>4
  <2> QED BY <2>2, <2>3, <2>4 DEF MainPaths, ArchiveLinks, Home
<1>3. Answers("GET", q) = PrimaryAnswers(q)
  BY <1>2, HandlerOf
<1> QED BY <1>1, <1>2, <1>3, PageFound DEF Found

(* All the paths a page may offer, except for "About".                     *)
Offered(as, fs) ==
    MainPaths(as) \cup SelectLinks(as) \cup
    ViewedLinks(fs) \cup {<<"uploads", f>> : f \in fs} \cup
    {<<"edit">>} \cup MainLinks \cup
    {<<"user", "add">>, <<"user", "logout">>, <<"user", "changepass">>,
     <<"user", "login">>}

LEMMA OfferedFound ==
    ASSUME SameDir, articles \subseteq Ids, files \subseteq Files,
           NEW q \in Offered(articles, files), Plain(q)
    PROVE  Found(Answers("GET", q))
<1>1. CASE q \in MainPaths(articles)
  BY <1>1, ArticlesFound
<1>2. CASE q \in SelectLinks(articles)
  BY <1>2, SelectedFound DEF SelectLinks
<1>3. CASE q \in ViewedLinks(files) \cup {<<"uploads", f>> : f \in files}
  <2>1. PICK f \in files : q = <<"static", "uploads", f>> \/ q = <<"uploads", f>>
    BY <1>3 DEF ViewedLinks
  <2>2. \E i \in DOMAIN q : q[i] = f
    <3>1. q = <<"static", "uploads", f>> => 3 \in DOMAIN q /\ q[3] = f
      OBVIOUS
    <3>2. q = <<"uploads", f>> => 2 \in DOMAIN q /\ q[2] = f
      OBVIOUS
    <3> QED BY <2>1, <3>1, <3>2
  <2>3. Decoded[f] = f
    BY <2>2 DEF Plain
  <2> QED BY <2>1, <2>3, FilesFound
<1>4. CASE q \in {<<"edit">>} \cup MainLinks
  <2>1. q \in {<<"edit">>, <<"edit", "new">>, <<"edit", "article">>,
               <<"edit", "upload">>, <<"edit", "viewupload">>}
    BY <1>4 DEF MainLinks
  <2> QED BY <2>1, EditorFound
<1>5. CASE q \in {<<"user", "add">>, <<"user", "logout">>, <<"user", "changepass">>,
                  <<"user", "login">>}
  BY <1>5, UserPagesFound
<1> QED BY <1>1, <1>2, <1>3, <1>4, <1>5 DEF Offered

LEMMA MainPathsTyped == ASSUME NEW as \in SUBSET Ids, NEW q \in MainPaths(as)
    PROVE q \in Seq(Segments)
<1>1. /\ Empty \in Segments /\ "archives" \in Segments /\ "article" \in Segments
      /\ as \subseteq Segments
  BY RoutesAssumption DEF Words
<1>2. Home \in Seq(Segments) /\ <<"archives">> \in Seq(Segments)
  BY <1>1, PathOfOne DEF Home
<1>3. \A a \in as : <<"article", a>> \in Seq(Segments)
  BY <1>1, PathOfTwo
<1> HIDE <1>1
<1> QED BY <1>2, <1>3 DEF MainPaths, ArchiveLinks

LEMMA OfferedTyped ==
    ASSUME NEW as \in SUBSET Ids, NEW fs \in SUBSET Files, NEW q \in Offered(as, fs)
    PROVE  q \in Seq(Segments)
<1>1. /\ Words \subseteq Segments /\ as \subseteq Segments /\ fs \subseteq Segments
  BY RoutesAssumption
<1>2. CASE q \in MainPaths(as)
  BY <1>2, MainPathsTyped
<1>3. CASE q \in SelectLinks(as)
  <2>1. "edit" \in Segments /\ "article" \in Segments
    BY <1>1 DEF Words
  <2> QED BY <1>1, <1>3, <2>1, PathOfThree DEF SelectLinks
<1>4. CASE q \in ViewedLinks(fs)
  <2>1. "static" \in Segments /\ "uploads" \in Segments
    BY <1>1 DEF Words
  <2> QED BY <1>1, <1>4, <2>1, PathOfThree DEF ViewedLinks
<1>5. CASE q \in {<<"uploads", f>> : f \in fs}
  <2>1. "uploads" \in Segments
    BY <1>1 DEF Words
  <2> QED BY <1>1, <1>5, <2>1, PathOfTwo
<1>6. CASE q = <<"edit">>
  <2>1. "edit" \in Segments
    BY <1>1 DEF Words
  <2> QED BY <1>6, <2>1, PathOfOne
<1>7. CASE q \in MainLinks \cup {<<"user", "add">>, <<"user", "logout">>,
                                  <<"user", "changepass">>, <<"user", "login">>}
  <2>1. PICK a \in {"edit", "user"},
             b \in {"new", "article", "upload", "viewupload", "add", "logout",
                    "changepass", "login"} : q = <<a, b>>
    BY <1>7 DEF MainLinks
  <2>2. a \in Segments /\ b \in Segments
    BY <1>1 DEF Words
  <2> QED BY <2>1, <2>2, PathOfTwo
<1> QED BY <1>2, <1>3, <1>4, <1>5, <1>6, <1>7 DEF Offered

About == <<"about">>

LEMMA ShownOffered ==
    ASSUME NEW a, NEW as, NEW fs
    PROVE  Shown(a, as, fs) \subseteq Offered(as, fs) \cup {About}
<1>1. Menu(signedIn) \subseteq Offered(as, fs) \cup {About}
  BY DEF Menu, Offered, MainPaths, About, Login, MainLinks
<1>2. Content(a.page, as, fs) \subseteq Offered(as, fs)
  <2>1. Content(a.page, as, fs) \in
          {ArchiveLinks(as), SelectLinks(as), MainLinks, ViewedLinks(fs),
           UploadedLink(fs), {}}
    BY DEF Content
  <2>2. UploadedLink(fs) \subseteq {<<"uploads", f>> : f \in fs}
    BY DEF UploadedLink
  <2> QED BY <2>1, <2>2 DEF Offered, MainPaths
<1> QED BY <1>1, <1>2 DEF Shown

LEMMA DestinationsOffered ==
    ASSUME NEW as, NEW fs PROVE Destinations \subseteq Offered(as, fs)
BY DEF Destinations, Offered, MainPaths, Login

(* One request, whatever it is.                                            *)
LEMMA AskAnswers ==
    ASSUME NEW m, NEW q, NEW h, Ask(m, q, h)
    PROVE  /\ asked' = [method |-> m, path |-> q, how |-> h]
           /\ changes' = changes
           /\ \E a \in Answers(m, q) :
                 /\ Effect(m, q, a)
                 /\ answer' = [status |-> a.status, page |-> a.page, to |-> a.to,
                               links |-> Shown(a, articles', files')]
BY DEF Ask

LEMMA EffectTyped ==
    ASSUME NEW m, NEW q, NEW a, Effect(m, q, a), signedIn \in BOOLEAN,
           articles \subseteq Ids, files \subseteq Files
    PROVE  signedIn' \in BOOLEAN /\ articles' \subseteq Ids /\ files' \subseteq Files
<1>1. signedIn' \in BOOLEAN
  <2> DEFINE s == Stripped(q)
  <2>1. signedIn' = \/ signedIn /\ s # <<"user", "logout">>
                    \/ m = "POST" /\ s = Login /\ a.status = 303
    BY DEF Effect
  <2> QED BY <2>1
<1>2. articles' \subseteq Ids
  BY DEF Effect
<1>3. files' \subseteq Files
  BY DEF Effect
<1> QED BY <1>1, <1>2, <1>3

LEMMA AskTyped ==
    ASSUME RoutesTypeOK, NEW m \in {"GET", "POST"}, NEW q \in Seq(Segments),
           NEW h \in {"link", "form", "redirect", "typed"}, Ask(m, q, h)
    PROVE  RoutesTypeOK'
<1>1. PICK a \in Answers(m, q) :
         /\ Effect(m, q, a)
         /\ answer' = [status |-> a.status, page |-> a.page, to |-> a.to,
                       links |-> Shown(a, articles', files')]
  BY AskAnswers
<1>2. signedIn' \in BOOLEAN /\ articles' \subseteq Ids /\ files' \subseteq Files
  BY <1>1, EffectTyped DEF RoutesTypeOK
<1>3. a.status \in {200, 303, 400, 401, 404, 405, 500} /\ a.page \in PageNames
      /\ a.to \in Destinations
  BY AnswersTyped DEF AnyAnswer
<1>4. a.to \in Seq(Segments)
  <2>1. a.to \in Offered(articles', files')
    BY <1>3, DestinationsOffered
  <2> QED BY <1>2, <2>1, OfferedTyped
<1>5. About \in Seq(Segments)
  <2>1. "about" \in Segments
    BY RoutesAssumption DEF Words
  <2> QED BY <2>1, PathOfOne DEF About
<1>6. Shown(a, articles', files') \subseteq Seq(Segments)
  BY <1>2, <1>5, ShownOffered, OfferedTyped
<1>7. answer' \in [status : {200, 303, 400, 401, 404, 405, 500},
                   page : PageNames, to : Seq(Segments), links : SUBSET Seq(Segments)]
  BY <1>1, <1>3, <1>4, <1>6
<1>8. answer'.page = "file" \/ answer'.status = 303 => answer'.links = {}
  BY <1>1 DEF Shown
<1>9. asked' \in [method : {"GET", "POST"}, path : Seq(Segments),
                  how : {"link", "form", "redirect", "typed"}]
  BY AskAnswers
<1>10. changes' \in 0..MaxChanges
  BY AskAnswers DEF RoutesTypeOK
<1> QED BY <1>2, <1>7, <1>8, <1>9, <1>10 DEF RoutesTypeOK

(* A request for what is found, or for what nobody offers, is served.      *)
OffersInv ==
    /\ answer.links \subseteq Offered(articles, files) \cup {About}
    /\ answer.status = 303 => answer.to \in Destinations
    /\ OffersAreServed

LEMMA AskServed ==
    ASSUME NEW m, NEW q, NEW h, Ask(m, q, h),
           h = "typed" \/ q = About \/ ~Plain(q) \/ Found(Answers(m, q))
    PROVE  OffersInv'
<1>1. PICK a \in Answers(m, q) :
         answer' = [status |-> a.status, page |-> a.page, to |-> a.to,
                    links |-> Shown(a, articles', files')]
  BY AskAnswers
<1>2. asked' = [method |-> m, path |-> q, how |-> h]
  BY AskAnswers
<1>3. answer'.links \subseteq Offered(articles', files') \cup {About}
  BY <1>1, ShownOffered
<1>4. answer'.to \in Destinations
  BY <1>1, AnswersTyped DEF AnyAnswer
<1>5. OffersAreServed'
  <2>1. asked'.how = h /\ asked'.path = q /\ answer'.status = a.status
    BY <1>1, <1>2
  <2>2. Plain(asked.path)' <=> Plain(q)
    BY <2>1 DEF Plain
  <2> QED BY <2>1, <2>2 DEF OffersAreServed, Found, About
<1> QED BY <1>3, <1>4, <1>5 DEF OffersInv

LEMMA RoutesTypedStep ==
    ASSUME RoutesTypeOK, [RoutesNext]_routesVars PROVE RoutesTypeOK'
<1>1. CASE FollowLink
  <2>1. PICK q \in answer.links : Ask("GET", q, "link")
    BY <1>1 DEF FollowLink
  <2>2. q \in Seq(Segments)
    BY <2>1 DEF RoutesTypeOK
  <2> QED BY <2>1, <2>2, AskTyped
<1>2. CASE PostForm
  <2>1. PICK q \in Form(answer.page) : Ask("POST", q, "form")
    BY <1>2 DEF PostForm
  <2> QED BY <2>1, FormsFound, AskTyped
<1>3. CASE FollowRedirect
  <2>1. answer.to \in Seq(Segments)
    BY DEF RoutesTypeOK
  <2> QED BY <1>3, <2>1, AskTyped DEF FollowRedirect
<1>4. CASE TypePath
  BY <1>4, RoutesAssumption, AskTyped DEF TypePath
<1>5. CASE Elsewhere
  <2>1. changes + 1 \in 0..MaxChanges
    BY <1>5, RoutesAssumption DEF Elsewhere, RoutesTypeOK
  <2> QED BY <1>5, <2>1 DEF Elsewhere, RoutesTypeOK
<1>6. CASE UNCHANGED routesVars
  BY <1>6 DEF routesVars, RoutesTypeOK
<1> QED BY <1>1, <1>2, <1>3, <1>4, <1>5, <1>6 DEF RoutesNext

LEMMA RoutesStart == RoutesInit => RoutesTypeOK /\ OffersInv
<1> SUFFICES ASSUME RoutesInit PROVE RoutesTypeOK /\ OffersInv
  OBVIOUS
<1>1. Menu(signedIn) \subseteq Offered(articles, files) \cup {About}
  BY DEF Menu, Offered, MainPaths, About, Login, MainLinks
<1>2. Home \in Seq(Segments) /\ About \in Seq(Segments)
  <2>1. Empty \in Segments /\ "about" \in Segments
    BY RoutesAssumption DEF Words
  <2> QED BY <2>1, PathOfOne DEF About, Home
<1>3. Offered(articles, files) \subseteq Seq(Segments)
  BY OfferedTyped DEF RoutesInit
<1>4. asked = [method |-> "GET", path |-> Home, how |-> "typed"]
      /\ answer = [status |-> 200, page |-> "front", to |-> Home,
                    links |-> Menu(signedIn)]
      /\ changes = 0 /\ signedIn \in BOOLEAN
      /\ articles \subseteq Ids /\ files \subseteq Files
  BY DEF RoutesInit
<1>5. "front" \in PageNames
  BY DEF PageNames
<1>6. 0 \in 0..MaxChanges
  BY RoutesAssumption
<1>7. RoutesTypeOK
  BY <1>1, <1>2, <1>3, <1>4, <1>5, <1>6 DEF RoutesTypeOK
<1>8. OffersInv
  BY <1>1, <1>4 DEF OffersInv, OffersAreServed
<1> QED BY <1>7, <1>8

LEMMA OffersStep ==
    ASSUME SameDir, RoutesTypeOK, OffersInv, [RoutesNext]_routesVars PROVE OffersInv'
<1>1. CASE FollowLink
  <2>1. PICK q \in answer.links : Ask("GET", q, "link")
    BY <1>1 DEF FollowLink
  <2>2. q = About \/ ~Plain(q) \/ Found(Answers("GET", q))
    BY <2>1, OfferedFound DEF OffersInv, RoutesTypeOK
  <2> QED BY <2>1, <2>2, AskServed
<1>2. CASE PostForm
  <2>1. PICK q \in Form(answer.page) : Ask("POST", q, "form")
    BY <1>2 DEF PostForm
  <2> QED BY <2>1, FormsFound, AskServed
<1>3. CASE FollowRedirect
  <2>1. answer.to \in Offered(articles, files)
    BY <1>3, DestinationsOffered DEF FollowRedirect, OffersInv
  <2>2. ~Plain(answer.to) \/ Found(Answers("GET", answer.to))
    BY <2>1, OfferedFound DEF RoutesTypeOK
  <2> QED BY <1>3, <2>2, AskServed DEF FollowRedirect
<1>4. CASE TypePath
  BY <1>4, AskServed DEF TypePath
<1>5. CASE Elsewhere
  BY <1>5 DEF Elsewhere, OffersInv, OffersAreServed, Plain
<1>6. CASE UNCHANGED routesVars
  BY <1>6 DEF routesVars, OffersInv, OffersAreServed, Plain
<1> QED BY <1>1, <1>2, <1>3, <1>4, <1>5, <1>6 DEF RoutesNext

(* Types, for all paths people may type: every request is answered by a    *)
(* page, an error or a redirect, and only what is neither a file nor a     *)
(* redirect offers links.                                                  *)
THEOREM RoutesTyped == RoutesSpec => []RoutesTypeOK
<1>1. RoutesInit => RoutesTypeOK
  BY RoutesStart
<1>2. RoutesTypeOK /\ [RoutesNext]_routesVars => RoutesTypeOK'
  BY RoutesTypedStep
<1> QED BY <1>1, <1>2, PTL DEF RoutesSpec

(* For any articles, and for any files of which parsePath leaves the names *)
(* as they are, where the uploads are a directory of the static files, as  *)
(* the links of EditHandler's list of uploads take for granted.            *)
THEOREM OffersAreAlwaysServed ==
    ASSUME SameDir PROVE RoutesSpec => []OffersAreServed
<1>1. RoutesInit => OffersInv
  BY RoutesStart
<1>2. RoutesTypeOK /\ OffersInv /\ [RoutesNext]_routesVars => OffersInv'
  BY OffersStep
<1>3. OffersInv => OffersAreServed
  BY DEF OffersInv
<1> QED BY <1>1, <1>2, <1>3, RoutesTyped, PTL DEF RoutesSpec

=============================================================================
