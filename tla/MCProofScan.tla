---------------------------- MODULE MCProofScan ----------------------------
(* A small corpus and a solver that is not monotone: a proves only under the  *)
(* larger configuration; b, which calls a, proves without lemmas under the    *)
(* smaller one and only with the law of a under the larger; c proves with the *)
(* law of b alone, which only a hint can bring into scope.                    *)
EXTENDS ProofScan

MCDeps == [h \in Def |-> IF h = "b" THEN {"a"} ELSE {}]

MCSolver ==
    [h \in Def |-> [k \in Config |->
        CASE h = "a" -> IF k = 2 THEN {{}} ELSE {}
          [] h = "b" -> IF k = 2 THEN {{"a"}} ELSE {{}}
          [] h = "c" -> {{"b"}}]]

\* What b, a lemma and a consumer, says is out of reach, or the listing is.
MCOutages == {{"b"}, {Listing}}
=============================================================================
