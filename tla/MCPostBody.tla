----------------------------- MODULE MCPostBody -----------------------------
(* Bodies with up to three parts: the two fields the handler asks for, in   *)
(* any order and repeated, and another one.                                *)
EXTENDS PostBody

=============================================================================
