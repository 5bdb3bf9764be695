---------------------------- MODULE SessionStore ----------------------------
(***************************************************************************)
(* The tables session and user_session (database/ddl.sql) and the queries  *)
(* of DBConn on them.  A query is atomic: PostgreSQL runs each statement in *)
(* a transaction of its own, and DBConn opens no other.                    *)
(*                                                                         *)
(* mapping[s][u] is the csrfkey column of the row of user_session for      *)
(* session s and user u: a key, Null, or NoRow when there is no such row.  *)
(***************************************************************************)
EXTENDS Integers

CONSTANTS
    Sids,                \* session identifiers
    Users,               \* user ids
    Keys,                \* CSRF keys
    None,                \* boost::none
    NoRow, Null,         \* see mapping
    Blank                \* the empty string in place of a key

ASSUME StoreAssumption == /\ None \notin Users \cup Keys \cup Sids
                          /\ NoRow \notin Keys /\ Null \notin Keys
                          /\ NoRow # Null
                          /\ Blank \notin Keys \cup {None, NoRow}

VARIABLES
    sess,                \* session: no row, last seen within the hour, or not
    mapping              \* user_session

store == <<sess, mapping>>

StoreTypeOK ==
    /\ sess \in [Sids -> {"absent", "live", "stale"}]
    /\ mapping \in [Sids -> [Users -> Keys \cup {NoRow, Null}]]

StoreInit ==
    /\ sess = [s \in Sids |-> "absent"]
    /\ mapping = [s \in Sids |-> [u \in Users |-> NoRow]]

-----------------------------------------------------------------------------
(* getSessionInfo: a row comes back when the session was seen within the   *)
(* hour; of several users mapped to it the query picks any.                *)

InUse(s) == sess[s] = "live"

MappedUsers(s) == {u \in Users : mapping[s][u] # NoRow}

LookupUsers(s) == IF MappedUsers(s) = {} THEN {None} ELSE MappedUsers(s)

(* The foreign key of user_session: the session must have a row.           *)
MayMap(s) == sess[s] # "absent"

SaveSession(s) == /\ sess' = [sess EXCEPT ![s] = "live"]
                  /\ UNCHANGED mapping

MapUuidToUser(s, u) ==
    /\ mapping' = IF mapping[s][u] = NoRow
                  THEN [mapping EXCEPT ![s][u] = Null] ELSE mapping
    /\ UNCHANGED sess

UnmapUuidToUser(s, u) == /\ mapping' = [mapping EXCEPT ![s][u] = NoRow]
                         /\ UNCHANGED sess

(* An UPDATE: without a row nothing is written and nothing is reported.    *)
SaveCSRFKey(k, u, s) ==
    /\ mapping' = IF mapping[s][u] # NoRow
                  THEN [mapping EXCEPT ![s][u] = k] ELSE mapping
    /\ UNCHANGED sess

(* getCSRFKey: boost::none, here NoRow, without a row; but a null column is *)
(* handed over like an empty one.                                          *)
GetCSRFKey(u, s) == IF mapping[s][u] = Null THEN Blank ELSE mapping[s][u]

(* An hour passes in which nobody refreshes session s.                     *)
HourPasses(s) == /\ sess[s] = "live"
                 /\ sess' = [sess EXCEPT ![s] = "stale"]
                 /\ UNCHANGED mapping

=============================================================================
