-------------------------- MODULE MCStaticHandler ---------------------------
(* Two executor threads and a file of three chunks: enough for a second    *)
(* reader to exist, for a pause between two chunks and for an end of file  *)
(* that follows a resumption.  Liveness is checked, so no symmetry.        *)
EXTENDS StaticHandler

=============================================================================
