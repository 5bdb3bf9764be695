------------------------------ MODULE MCRoutes ------------------------------
(* Two articles, some paths nobody links to, and three files: parsePath    *)
(* looks for "a b" when "a+b" is asked for, and refuses "100%".           *)
EXTENDS Routes

MCTyped == {<<"">>, <<"edit", "">>, <<"edit", "article", "">>,
            <<"edit", "article", "2">>, <<"edit", "article", "x">>,
            <<"editor">>, <<"users">>, <<"user">>, <<"static">>,
            <<"favicon.ico">>, <<"uploads", "none">>, <<"uploads", "a b">>, <<"article", "x">>,
            <<"edit", "savearticle">>, <<"user", "login", "">>}

MCSegments == Words \cup Ids \cup Files \cup
              {"x", "none", "a b", "editor", "users", "favicon.ico"}

MCDecoded == [s \in MCSegments |-> CASE s = "a+b" -> "a b"
                                     [] s = "100%" -> Refused
                                     [] OTHER -> s]
=============================================================================
