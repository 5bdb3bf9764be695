------------------------------ MODULE Accounts ------------------------------
(***************************************************************************)
(* The table users and what works on it: createLogin, run by requests for  *)
(* /user/add and by `mimeographer -adduser`, and changeUserPassword, run   *)
(* by requests for /user/changepass.  Both read with one query, decide,    *)
(* and write with another; other operations' queries come in between.      *)
(*                                                                         *)
(* An account is named by its email, which never changes once it is added. *)
(* A password stands for the salt and hash stored for it: they are written *)
(* together and read together, and two salts never repeat.                 *)
(***************************************************************************)
EXTENDS Integers

CONSTANTS
    Emails,
    Passwords,
    Operations,          \* operations that can be under way at once
    DbMayFail,           \* whether queries may raise DBError
    MayDeactivate,       \* whether an administrator clears users.isactive
    None                 \* no row with that email; no operation

Account == [password : Passwords, active : BOOLEAN]

(* old is meaningless for "create".                                        *)
Operation == [kind : {"create", "change"}, email : Emails,
              old : Passwords, new : Passwords]

ASSUME AccountsAssumption == /\ DbMayFail \in BOOLEAN
                             /\ MayDeactivate \in BOOLEAN
                             /\ None \notin Account \cup Operation

VARIABLES
    users,               \* users[e]: the row with that email
    pc,                  \* pc[o]: the next step of operation o
    op,                  \* op[o]: its parameters
    result,              \* result[o]: "true", "false", or "error" for DBError
    added,               \* emails whose addition was reported as done
    held                 \* held[o]: passwords of o's account since o began

vars == <<users, pc, op, result, added, held>>

(* The type invariant: in particular every row of users has a password and *)
(* a value in isactive, which getUserInfo's WHERE clause reads.            *)
TypeOK ==
    /\ users \in [Emails -> Account \cup {None}]
    /\ pc \in [Operations -> {"idle", "read", "write", "over"}]
    /\ op \in [Operations -> Operation \cup {None}]
    /\ \A o \in Operations : pc[o] # "idle" => op[o] \in Operation
    /\ result \in [Operations -> {"none", "true", "false", "error"}]
    /\ added \subseteq Emails
    /\ held \in [Operations -> SUBSET Passwords]

Init ==
    /\ users \in [Emails -> Account \cup {None}]
    /\ MayDeactivate \/ \A e \in Emails : users[e] # None => users[e].active
    /\ pc = [o \in Operations |-> "idle"]
    /\ op = [o \in Operations |-> None]
    /\ result = [o \in Operations |-> "none"]
    /\ added = {}
    /\ held = [o \in Operations |-> {}]

-----------------------------------------------------------------------------

Outcomes == IF DbMayFail THEN {"ok", "failed", "lost"} ELSE {"ok"}

Exists(e) == users[e] # None

(* getUserInfo: "... WHERE email=$1 AND isactive"                          *)
Found(e) == Exists(e) /\ users[e].active

PasswordOf(e) == IF Exists(e) THEN {users[e].password} ELSE {}

(* Every operation under way on account e has seen password p held.        *)
HeldSince(e, p) ==
    held' = [o \in Operations |->
                IF pc[o] \in {"read", "write"} /\ op[o].email = e
                THEN held[o] \cup {p} ELSE held[o]]

Goto(o, step) == pc' = [pc EXCEPT ![o] = step] /\ UNCHANGED result

Return(o, r) == /\ pc' = [pc EXCEPT ![o] = "over"]
                /\ result' = [result EXCEPT ![o] = r]

-----------------------------------------------------------------------------

Begin(o, p) ==
    /\ pc[o] \in {"idle", "over"}
    /\ op' = [op EXCEPT ![o] = p]
    /\ pc' = [pc EXCEPT ![o] = "read"]
    /\ result' = [result EXCEPT ![o] = "none"]
    /\ held' = [held EXCEPT ![o] = PasswordOf(p.email)]
    /\ UNCHANGED <<users, added>>

(* /user/add is posted, or the command line tool is started.               *)
BeginCreate(o, p) == p.kind = "create" /\ Begin(o, p)

(* /user/changepass is posted by a signed-in user: he has an account.      *)
BeginChange(o, p) == p.kind = "change" /\ Exists(p.email) /\ Begin(o, p)

(* getUserInfo finds nobody, so the password is hashed with a new salt.    *)
CreateChecks(o) ==
    /\ pc[o] = "read" /\ op[o].kind = "create"
    /\ IF Found(op[o].email) THEN Return(o, "false") ELSE Goto(o, "write")
    /\ UNCHANGED <<users, op, added, held>>

Added(o) == [password |-> op[o].new, active |-> TRUE]

(* Mutant: INSERT ... ON CONFLICT DO NOTHING.                              *)
AddOrIgnore(o, e) ==
    /\ users' = IF Exists(e) THEN users ELSE [users EXCEPT ![e] = Added(o)]
    /\ HeldSince(e, op[o].new)

(* Mutant: the column isactive is left without a value.                    *)
AddUnmarked(o, e) ==
    /\ ~Exists(e)
    /\ users' = [users EXCEPT ![e] = [Added(o) EXCEPT !.active = None]]
    /\ HeldSince(e, op[o].new)

(* addUser: users.email is UNIQUE, so the insert fails if it is taken.     *)
AddUser(o, e) ==
    /\ ~Exists(e)
    /\ users' = [users EXCEPT ![e] = Added(o)]
    /\ HeldSince(e, op[o].new)

CreateWrites(o) ==
    LET e == op[o].email
    IN  /\ pc[o] = "write" /\ op[o].kind = "create"
        /\ \E outcome \in Outcomes \cup {"failed"} :
              \/ /\ outcome = "ok" /\ AddUser(o, e)
                 /\ added' = added \cup {e} /\ Return(o, "true")
              \/ /\ outcome = "lost" /\ AddUser(o, e)
                 /\ UNCHANGED added /\ Return(o, "error")
              \/ /\ outcome = "failed" /\ (DbMayFail \/ Exists(e))
                 /\ UNCHANGED <<users, added, held>> /\ Return(o, "error")
        /\ UNCHANGED op

(* Mutant: any password will do for the current one.                       *)
NotAsked(o) == Found(op[o].email)

(* getUserInfo by id, then authenticateLogin with the current password.    *)
Authenticated(o) ==
    Found(op[o].email) /\ users[op[o].email].password = op[o].old

ChangeChecks(o) ==
    /\ pc[o] = "read" /\ op[o].kind = "change"
    /\ IF Authenticated(o) THEN Goto(o, "write") ELSE Return(o, "false")
    /\ UNCHANGED <<users, op, added, held>>

(* savePassword: an UPDATE by userid.                                      *)
SavePassword(o, e) ==
    /\ users' = [users EXCEPT ![e].password = op[o].new]
    /\ HeldSince(e, op[o].new)

ChangeWrites(o) ==
    LET e == op[o].email
    IN  /\ pc[o] = "write" /\ op[o].kind = "change"
        /\ \E outcome \in Outcomes :
              \/ outcome = "ok" /\ SavePassword(o, e) /\ Return(o, "true")
              \/ outcome = "lost" /\ SavePassword(o, e) /\ Return(o, "error")
              \/ /\ outcome = "failed"
                 /\ UNCHANGED <<users, held>> /\ Return(o, "error")
        /\ UNCHANGED <<op, added>>

ReadFails(o) ==
    /\ pc[o] = "read" /\ DbMayFail
    /\ Return(o, "error")
    /\ UNCHANGED <<users, op, added, held>>

(* Nothing in the program clears isactive, but every query reads it.       *)
Deactivate(e) ==
    /\ MayDeactivate /\ Found(e)
    /\ users' = [users EXCEPT ![e].active = FALSE]
    /\ UNCHANGED <<pc, op, result, added, held>>

Next == \/ \E o \in Operations, p \in Operation :
              BeginCreate(o, p) \/ BeginChange(o, p)
        \/ \E o \in Operations :
              CreateChecks(o) \/ CreateWrites(o) \/ ChangeChecks(o)
              \/ ChangeWrites(o) \/ ReadFails(o)
        \/ \E e \in Emails : Deactivate(e)

Spec == Init /\ [][Next]_vars

-----------------------------------------------------------------------------
(* Properties.                                                             *)

(* Of several operations that add the same email at once, by web or by     *)
(* command line, at most one is told that its user was added.              *)
AddedOnce ==
    [][\A o \in Operations :
          pc[o] = "write" /\ op[o].kind = "create" /\ result'[o] = "true" =>
              op[o].email \notin added]_vars

(* An account's password changes only to one chosen by an operation whose  *)
(* "current password" was the account's at some moment since it began, in  *)
(* whatever order the checks and writes of several changes fall.           *)
ChangedByHolder ==
    [][\A e \in Emails :
          Exists(e) /\ users'[e].password # users[e].password =>
              \E o \in Operations :
                  /\ pc[o] = "write" /\ op[o].kind = "change"
                  /\ op[o].email = e /\ op[o].new = users'[e].password
                  /\ op[o].old \in held[o]]_vars

(* createLogin: "true if email/password saved", and the tests expect false *)
(* for an email that is taken: unless the database fails there is always   *)
(* an answer.                                                              *)
CreateAnswers ==
    \A o \in Operations :
        pc[o] = "over" /\ op[o].kind = "create" => result[o] # "error"

=============================================================================
