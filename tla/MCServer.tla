------------------------------ MODULE MCServer ------------------------------
(* Three requests on two threads with two connections, and a database that *)
(* goes away twice.  The process may end, and then really stops: deadlock  *)
(* is not checked.                                                         *)
EXTENDS Server
=============================================================================
