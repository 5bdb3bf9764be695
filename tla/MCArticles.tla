----------------------------- MODULE MCArticles -----------------------------
(* Two requests at a time of two users, with two forms and an article that *)
(* is present, missing or new, in two sessions, in one of which the browser *)
(* waits for its answers and posts forms as rendered.  The other sets are  *)
(* interchangeable values, so their permutations are symmetries.           *)
EXTENDS Articles, TLC

Symmetry == Permutations(Users) \cup Permutations(Keys) \cup
            Permutations(Requests)
=============================================================================
