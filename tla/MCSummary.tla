----------------------------- MODULE MCSummary ------------------------------
(* Documents of headings, paragraphs and quotes; texts of up to two bytes  *)
(* and a preview of three, so that a text ends before, at and beyond the   *)
(* limit.  The document has an end: deadlock is not checked.               *)
EXTENDS Summary

=============================================================================
