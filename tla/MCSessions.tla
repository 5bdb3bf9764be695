----------------------------- MODULE MCSessions -----------------------------
(* Two requests at a time, and small sets of everything else; the sets are *)
(* interchangeable values, so all permutations of them are symmetries.     *)
EXTENDS Sessions, TLC

Symmetry == Permutations(Sids) \cup Permutations(Users) \cup
            Permutations(Keys) \cup Permutations(Requests) \cup
            Permutations(Browsers)
=============================================================================
