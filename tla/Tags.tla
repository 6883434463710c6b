--------------------------------- MODULE Tags ---------------------------------
(* The tags of the canonical encoding "O1" of oath/canon.go. *)
EXTENDS Integers, Sequences, TLC

CONSTANT Base       \* of the digits of an integer

ASSUME TagsAssumption == Base \in Nat /\ Base > 1

encMagic == <<79, 49>>
tagAtom == [int |-> 1, bool |-> 2, rat |-> 9]
tagTy == tagAtom @@ [var |-> 4, fun |-> 5, data |-> 6, rec |-> 7, record |-> 8]
tagTm == [var |-> 16, int |-> 17, bool |-> 18, lam |-> 20, app |-> 21, let |-> 22, if |-> 23, prim |-> 24,
          ref |-> 25, self |-> 26, ctor |-> 27, match |-> 28, record |-> 29, field |-> 30, rat |-> 31]
tagDef == [data |-> 1, func |-> 2]

\* Operators in the order of their encodings, by length first; to the codec any string is one.
Ops == <<"%", "*", "+", "-", "/", "<", "<=", "==", "or", "and", "neg", "not", "floor", "to-rat">>
OpName(n) == IF n \in DOMAIN Ops THEN Ops[n] ELSE ToString(n)

magnitude(n) == IF n < 0 THEN -n ELSE n
=============================================================================
