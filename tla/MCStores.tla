------------------------------ MODULE MCStores ------------------------------
EXTENDS StoresProps, TLC

(* One set of actors serves the five stores; only one store is used.      *)
CONSTANTS Actors
ActorSymmetry == {f @@ g : f \in Permutations(Actors), g \in Permutations(Metas)}

Row(k, t) == [kind |-> "full", key |-> k, text |-> t]
Csv == {<<Row("k", "t"), Row("j", "t")>>, <<Row("j", "t"), Row("j", "u")>>,
        <<Row("k", "u"), [Row("j", "") EXCEPT !.kind = "empty"], [Row("j", "t") EXCEPT !.kind = "broken"]>>}

AlikeKeys == {<<"k", "K">>, <<"K", "k">>}
Scores    == [c \in {"note", "rule"} |-> IF c = "rule" THEN 1 ELSE 0]

OnWebOrNot == {{}, {"web"}}

Item(s, x) == [subject |-> s, skip |-> x]
Docs == {[o \in {"o1", "o2", "o3"} |-> Item("a", FALSE)],
         [o \in {"o1", "o3"} |-> Item("b", FALSE)],
         [o \in {"o2", "o3"} |-> Item("", o = "o2")]}
Under == {{"o1", "o2", "o3"}}

(* Two users in a session and a user in two; settings that leave room for  *)
(* no notice, a shorter and the longest one, and never cut a page.         *)
Party(s, o) == [session |-> s, owner |-> o]
Requesters  == {Party("s1", "u1"), Party("s1", "u2"), Party("s2", "u1")}
Cuts        == {10, 60, 130, 8000}
PageSizes   == {-1, 9000}
=============================================================================
