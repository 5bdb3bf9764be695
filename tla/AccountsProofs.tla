--------------------------- MODULE AccountsProofs ---------------------------
(***************************************************************************)
(* Proofs about Accounts for any number of emails, passwords and           *)
(* concurrent operations, with or without failing queries.                 *)
(***************************************************************************)
EXTENDS Accounts, TLAPS

At(o, step, kind) == pc[o] = step /\ op[o].kind = kind

(* Rows are never removed: an email reported as added stays taken.         *)
AddedExist == \A e \in added : Exists(e)

(* A change that got past its check is about an account that exists, and   *)
(* its "current password" was that account's since the change began.       *)
Checked ==
    \A o \in Operations :
        At(o, "write", "change") =>
            Exists(op[o].email) /\ op[o].old \in held[o]

(* What an account's password is now, every operation on it has seen.      *)
Witnessed ==
    \A o \in Operations :
        pc[o] = "read" => PasswordOf(op[o].email) \subseteq held[o]

(* An operation under way has not answered yet.                            *)
Unanswered ==
    \A o \in Operations : pc[o] \in {"read", "write"} => result[o] = "none"

IInv == TypeOK /\ AddedExist /\ Checked /\ Witnessed /\ Unanswered

-----------------------------------------------------------------------------
(* The three ways in which an operation moves on.                          *)

LEMMA UnderWay ==
    ASSUME IInv, NEW o \in Operations, pc[o] # "idle"
    PROVE  /\ op[o] \in Operation
           /\ op[o].kind \in {"create", "change"}
           /\ op[o].email \in Emails
           /\ op[o].old \in Passwords /\ op[o].new \in Passwords
BY DEF IInv, TypeOK, Operation

(* An operation that writes nothing keeps the invariant, provided that a   *)
(* change goes on to its write only after it was authenticated.            *)
LEMMA NoWrite ==
    ASSUME IInv, NEW o \in Operations, pc[o] # "idle",
           UNCHANGED <<users, op, added, held>>,
           NEW step \in {"write", "over"},
           step = "write" /\ op[o].kind = "change" =>
               Exists(op[o].email) /\ op[o].old \in held[o],
           pc' = [pc EXCEPT ![o] = step],
           \/ pc[o] \in {"read", "write"} /\ UNCHANGED result
           \/ /\ step = "over"
              /\ \E r \in {"false", "error"} :
                    result' = [result EXCEPT ![o] = r]
    PROVE  IInv'
<1>1. TypeOK'
  BY DEF IInv, TypeOK
<1>2. AddedExist'
  BY DEF IInv, AddedExist, Exists
<1>3. Checked'
  BY DEF IInv, TypeOK, Checked, At, Exists
<1>4. Witnessed'
  BY DEF IInv, TypeOK, Witnessed, PasswordOf, Exists
<1>5. Unanswered'
  BY DEF IInv, TypeOK, Unanswered
<1> QED BY <1>1, <1>2, <1>3, <1>4, <1>5 DEF IInv

(* A write puts a row for email e; the operations under way take note.     *)
LEMMA Written ==
    ASSUME IInv, NEW o \in Operations, pc[o] = "write",
           NEW e \in Emails, NEW row \in Account,
           users' = [users EXCEPT ![e] = row],
           HeldSince(e, row.password),
           \/ UNCHANGED added
           \/ added' = added \cup {e},
           UNCHANGED op,
           NEW r \in {"true", "error"}, Return(o, r)
    PROVE  IInv'
<1>1. row # None /\ row.password \in Passwords
  BY AccountsAssumption DEF Account
<1>2. \A x \in Emails : Exists(x)' <=> x = e \/ Exists(x)
  BY <1>1 DEF Exists, IInv, TypeOK
<1>3. \A x \in Emails : x # e => users'[x] = users[x]
  BY DEF IInv, TypeOK
<1>4. \A x \in Operations : held[x] \subseteq held'[x]
  BY DEF HeldSince, IInv, TypeOK
<1>5. TypeOK'
  <2>1. users' \in [Emails -> Account \cup {None}] /\ added' \subseteq Emails
    BY DEF IInv, TypeOK
  <2>2. held' \in [Operations -> SUBSET Passwords]
    BY <1>1 DEF HeldSince, IInv, TypeOK
  <2> QED BY <2>1, <2>2 DEF Return, IInv, TypeOK
<1>6. AddedExist'
  BY <1>2 DEF IInv, TypeOK, AddedExist
<1>7. Checked'
  <2> SUFFICES ASSUME NEW x \in Operations, At(x, "write", "change")'
               PROVE  Exists(op[x].email)' /\ op[x].old \in held'[x]
    BY DEF Checked
  <2>1. At(x, "write", "change")
    BY DEF At, Return, IInv, TypeOK
  <2> QED BY <1>2, <1>4, <2>1, UnderWay DEF At, IInv, Checked
<1>8. Witnessed'
  <2> SUFFICES ASSUME NEW x \in Operations, pc'[x] = "read"
               PROVE  PasswordOf(op[x].email)' \subseteq held'[x]
    BY DEF Witnessed
  <2>1. pc[x] = "read" /\ op[x].email \in Emails
    BY UnderWay DEF Return, IInv, TypeOK
  <2>2. CASE op[x].email = e
    BY <1>1, <2>1, <2>2 DEF HeldSince, PasswordOf, IInv, TypeOK
  <2>3. CASE op[x].email # e
    BY <1>2, <1>3, <1>4, <2>1, <2>3 DEF PasswordOf, IInv, Witnessed
  <2> QED BY <2>2, <2>3
<1>9. Unanswered'
  BY DEF Return, IInv, TypeOK, Unanswered
<1> QED BY <1>5, <1>6, <1>7, <1>8, <1>9 DEF IInv

-----------------------------------------------------------------------------
(* The actions.                                                            *)

LEMMA BeginStep ==
    ASSUME IInv, NEW o \in Operations, NEW p \in Operation, Begin(o, p)
    PROVE  IInv'
<1>1. p.email \in Emails
  BY DEF Operation
<1>2. PasswordOf(p.email) \subseteq Passwords
  BY <1>1 DEF PasswordOf, Exists, IInv, TypeOK, Account
<1>3. TypeOK'
  BY <1>2 DEF Begin, IInv, TypeOK
<1>4. AddedExist'
  BY DEF Begin, IInv, AddedExist, Exists
<1>5. Checked'
  BY DEF Begin, IInv, TypeOK, Checked, At, Exists
<1>6. Witnessed'
  BY DEF Begin, IInv, TypeOK, Witnessed, PasswordOf, Exists
<1>7. Unanswered'
  BY DEF Begin, IInv, TypeOK, Unanswered
<1> QED BY <1>3, <1>4, <1>5, <1>6, <1>7 DEF IInv

LEMMA ReadStep ==
    ASSUME IInv, NEW o \in Operations,
           CreateChecks(o) \/ ChangeChecks(o) \/ ReadFails(o)
    PROVE  IInv'
<1>1. CASE CreateChecks(o)
  BY <1>1, NoWrite DEF CreateChecks, Goto, Return
<1>2. CASE ChangeChecks(o)
  <2>1. Authenticated(o) => Exists(op[o].email) /\ op[o].old \in held[o]
    BY <1>2 DEF ChangeChecks, Authenticated, Found, PasswordOf, IInv,
                Witnessed
  <2> QED BY <1>2, <2>1, NoWrite DEF ChangeChecks, Goto, Return
<1>3. CASE ReadFails(o)
  BY <1>3, NoWrite DEF ReadFails, Return
<1> QED BY <1>1, <1>2, <1>3

LEMMA WriteStep ==
    ASSUME IInv, NEW o \in Operations, CreateWrites(o) \/ ChangeWrites(o)
    PROVE  IInv'
<1> DEFINE e == op[o].email
<1>1. pc[o] = "write" /\ UNCHANGED op
  BY DEF CreateWrites, ChangeWrites
<1>2. e \in Emails /\ op[o].new \in Passwords
  BY <1>1, UnderWay
<1>3. CASE UNCHANGED <<users, added, held>> /\ Return(o, "error")
  BY <1>1, <1>3, NoWrite DEF Return
<1>4. ASSUME AddUser(o, e), NEW r \in {"true", "error"}, Return(o, r),
             added' = added \cup {e} \/ UNCHANGED added
      PROVE  IInv'
  <2>1. Added(o) \in Account /\ Added(o).password = op[o].new
    BY <1>2 DEF Added, Account
  <2> HIDE DEF e
  <2> QED BY <1>1, <1>2, <1>4, <2>1, Written DEF AddUser
<1>5. ASSUME ChangeWrites(o), SavePassword(o, e), NEW r \in {"true", "error"},
             Return(o, r), UNCHANGED added
      PROVE  IInv'
  <2> DEFINE row == [users[e] EXCEPT !.password = op[o].new]
  <2>1. users[e] \in Account
    BY <1>1, <1>2, <1>5
       DEF ChangeWrites, IInv, TypeOK, Checked, At, Exists
  <2>2. row \in Account /\ row.password = op[o].new
    BY <1>2, <2>1 DEF Account
  <2>3. users' = [users EXCEPT ![e] = row]
    BY <1>5 DEF SavePassword
  <2>4. HeldSince(e, row.password)
    BY <1>5, <2>2 DEF SavePassword
  <2> HIDE DEF e, row
  <2> QED BY <1>1, <1>2, <1>5, <2>2, <2>3, <2>4, Written
<1> QED BY <1>3, <1>4, <1>5 DEF CreateWrites, ChangeWrites

LEMMA DeactivateStep ==
    ASSUME IInv, NEW e \in Emails, Deactivate(e)
    PROVE  IInv'
<1>1. users[e] \in Account
  BY DEF Deactivate, Found, Exists, IInv, TypeOK
<1>2. /\ users'[e] \in Account
      /\ users'[e].password = users[e].password
      /\ \A x \in Emails : x # e => users'[x] = users[x]
      /\ users' \in [Emails -> Account \cup {None}]
  BY <1>1 DEF Deactivate, IInv, TypeOK, Account
<1>3. \A x \in Emails : /\ Exists(x)' <=> Exists(x)
                        /\ PasswordOf(x)' = PasswordOf(x)
  BY <1>1, <1>2, AccountsAssumption DEF Exists, PasswordOf
<1>4. TypeOK'
  BY <1>2 DEF Deactivate, IInv, TypeOK
<1>5. AddedExist'
  BY <1>3 DEF Deactivate, IInv, TypeOK, AddedExist
<1>6. Checked'
  BY <1>3, UnderWay DEF Deactivate, IInv, Checked, At
<1>7. Witnessed'
  BY <1>3, UnderWay DEF Deactivate, IInv, Witnessed
<1>8. Unanswered'
  BY DEF Deactivate, IInv, Unanswered
<1> QED BY <1>4, <1>5, <1>6, <1>7, <1>8 DEF IInv

LEMMA Inductive == IInv /\ [Next]_vars => IInv'
<1> SUFFICES ASSUME IInv, [Next]_vars PROVE IInv'
  OBVIOUS
<1>1. CASE UNCHANGED vars
  BY <1>1 DEF vars, IInv, TypeOK, AddedExist, Checked, Witnessed, Unanswered,
              At, Exists, PasswordOf
<1> QED BY <1>1, BeginStep, ReadStep, WriteStep, DeactivateStep
   DEF Next, BeginCreate, BeginChange

LEMMA Initial == Init => IInv
BY DEF Init, IInv, TypeOK, AddedExist, Checked, Witnessed, Unanswered, At

LEMMA Invariance == Spec => []IInv
BY Initial, Inductive, PTL DEF Spec

-----------------------------------------------------------------------------

(* The variables stay in their types: in particular no account is left     *)
(* without the password and the mark that later queries read.              *)
THEOREM TypeCorrect == Spec => []TypeOK
BY Invariance, PTL DEF IInv

(* An operation answers "true" to an addition only in the step that adds   *)
(* the row, which the unique column lets happen once.                      *)
LEMMA AnswersTrue ==
    ASSUME IInv, Next, NEW o \in Operations, pc[o] = "write",
           op[o].kind = "create", result'[o] = "true"
    PROVE  ~Exists(op[o].email)
<1>1. result[o] = "none" /\ result'[o] # result[o]
  BY DEF IInv, Unanswered
<1>2. CASE \E x \in Operations, p \in Operation : Begin(x, p)
  BY <1>1, <1>2 DEF Begin, IInv, TypeOK
<1>3. CASE \E x \in Operations :
              CreateChecks(x) \/ ChangeChecks(x) \/ ReadFails(x)
  BY <1>1, <1>3
     DEF CreateChecks, ChangeChecks, ReadFails, Goto, Return, IInv, TypeOK
<1>4. CASE \E x \in Operations : ChangeWrites(x)
  BY <1>1, <1>4 DEF ChangeWrites, Return, IInv, TypeOK
<1>5. CASE \E x \in Operations : CreateWrites(x)
  <2>1. PICK x \in Operations : CreateWrites(x)
    BY <1>5
  <2>2. x = o
    BY <1>1, <2>1 DEF CreateWrites, Return, IInv, TypeOK
  <2> QED BY <2>1, <2>2 DEF CreateWrites, Return, AddUser, IInv, TypeOK
<1>6. CASE \E e \in Emails : Deactivate(e)
  BY <1>1, <1>6 DEF Deactivate
<1> QED BY <1>2, <1>3, <1>4, <1>5, <1>6 DEF Next, BeginCreate, BeginChange

(* However many operations add one email, at most one is told "added".     *)
THEOREM AlwaysAddedOnce == Spec => AddedOnce
<1>1. IInv /\ [Next]_vars =>
        [\A o \in Operations :
            pc[o] = "write" /\ op[o].kind = "create" /\ result'[o] = "true" =>
                op[o].email \notin added]_vars
  BY AnswersTrue DEF IInv, AddedExist
<1> QED BY <1>1, Invariance, PTL DEF Spec, AddedOnce

-----------------------------------------------------------------------------

(* Which step changes a stored password, and what it was checked against.  *)
LEMMA PasswordChanges ==
    ASSUME IInv, Next, NEW e \in Emails, Exists(e),
           users'[e].password # users[e].password
    PROVE  \E o \in Operations :
              /\ pc[o] = "write" /\ op[o].kind = "change"
              /\ op[o].email = e /\ op[o].new = users'[e].password
              /\ op[o].old \in held[o]
<1>1. users' # users
  OBVIOUS
<1>2. CASE \E x \in Operations, p \in Operation : Begin(x, p)
  BY <1>1, <1>2 DEF Begin
<1>3. CASE \E x \in Operations :
              CreateChecks(x) \/ ChangeChecks(x) \/ ReadFails(x)
  BY <1>1, <1>3 DEF CreateChecks, ChangeChecks, ReadFails
<1>4. CASE \E x \in Operations : CreateWrites(x)
  BY <1>4 DEF CreateWrites, AddUser, IInv, TypeOK
<1>5. CASE \E x \in Operations : ChangeWrites(x)
  <2>1. PICK x \in Operations : ChangeWrites(x)
    BY <1>5
  <2>2. /\ pc[x] = "write" /\ op[x].kind = "change"
        /\ op[x].old \in held[x]
    BY <2>1 DEF ChangeWrites, IInv, Checked, At
  <2>3. op[x].email \in Emails /\ users[e] \in Account
    BY <2>2, UnderWay DEF Exists, IInv, TypeOK
  <2>4. users' = [users EXCEPT ![op[x].email].password = op[x].new]
    BY <1>1, <2>1 DEF ChangeWrites, SavePassword
  <2>5. op[x].email = e
    BY <2>4 DEF IInv, TypeOK
  <2>6. users'[e].password = op[x].new
    BY <2>3, <2>4, <2>5 DEF Account, IInv, TypeOK
  <2> QED BY <2>2, <2>5, <2>6
<1>6. CASE \E x \in Emails : Deactivate(x)
  <2>1. users[e] \in Account
    BY DEF Exists, IInv, TypeOK
  <2> QED BY <1>6, <2>1 DEF Deactivate, Account, IInv, TypeOK
<1> QED BY <1>2, <1>3, <1>4, <1>5, <1>6 DEF Next, BeginCreate, BeginChange

(* A password is replaced only by someone who knew one the account had     *)
(* while the change was under way, however many changes compete.           *)
THEOREM AlwaysChangedByHolder == Spec => ChangedByHolder
<1>1. IInv /\ [Next]_vars =>
        [\A e \in Emails :
            Exists(e) /\ users'[e].password # users[e].password =>
                \E o \in Operations :
                    /\ pc[o] = "write" /\ op[o].kind = "change"
                    /\ op[o].email = e /\ op[o].new = users'[e].password
                    /\ op[o].old \in held[o]]_vars
  BY PasswordChanges
<1> QED BY <1>1, Invariance, PTL DEF Spec, ChangedByHolder

=============================================================================
