---------------------------- MODULE MCProveRun ----------------------------
(***************************************************************************)
(* Solvers for ProveRun: law 1 has a datatype binder, law 2 has none.  A    *)
(* false law is only ever discharged from a false lemma.                    *)
(***************************************************************************)
EXTENDS ProveRun

MCDtBinders == [p \in Law |-> IF p = 1 THEN 1 ELSE 0]

Vias == {"lemma-free", "preview", "direct", "induction", "recursion", "direct-fallback", "never"}

Laws == [truth : BOOLEAN, falsified : BOOLEAN, quantified : BOOLEAN, via : Vias,
         fam : SUBSET SUBSET Law]

Sensible(p, l) ==
    /\ l.falsified => ~l.truth
    /\ l.truth => l.quantified      \* only a false law has models to find
    /\ \A L \in l.fam : p \notin L
    /\ l.via \in {"lemma-free", "preview", "never"} => l.fam = {}
    /\ l.via \notin {"lemma-free", "preview", "never"} => l.fam # {}
    /\ l.via \in {"preview", "induction", "direct-fallback"} => MCDtBinders[p] > 0

Sound(w) ==
    \A p \in Law : ~w[p].truth =>
        /\ w[p].via \notin {"lemma-free", "preview"}
        /\ \A L \in w[p].fam : \E q \in L : ~w[q].truth

MCWorld == {w \in [Law -> UNION {{l \in Laws : Sensible(p, l)} : p \in Law}] :
              (\A p \in Law : Sensible(p, w[p])) /\ Sound(w)}

=============================================================================
