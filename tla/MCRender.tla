------------------------------ MODULE MCRender ------------------------------
(* Documents of lists, quotes and paragraphs in one another, with text and *)
(* emphasis: the nodes that renderArticle treats by where they stand, and  *)
(* a kind that it writes as it is.  The document has an end: deadlock is   *)
(* not checked.                                                            *)
EXTENDS Render

=============================================================================
