------------------------------ MODULE MCPaths ------------------------------
(* A byte of each kind parsePath and urlEncode tell apart: a digit, two    *)
(* letters of which one is a hexadecimal digit, '%', '+', '-', ' ', a tab  *)
(* and one that is not ASCII.                                              *)
EXTENDS Paths

MCBytes == {50, 65, 82, 37, 43, 45, 32, 9, 195}
=============================================================================
