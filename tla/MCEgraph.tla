------------------------------- MODULE MCEgraph -------------------------------
(* Families of equal definitions, terms with every form, and every small arithmetic term. *)
EXTENDS Egraph, Terms

Box == "box"
MCDefs == [h \in {Box} |-> [k |-> "data", tyvars |-> 0, ctors |-> <<<<tInt>>, <<>>>>]]
          @@ [h \in {"inc"} |-> [k |-> "func", tyvars |-> 0, ty |-> tFun(tInt, tInt),
                                 body |-> Lam(tInt, Op("+", V(0), Num(1))), props |-> <<>>]]
MCHashNum == [h \in {Box} |-> 1] @@ [h \in {"inc"} |-> 2]
MCSampleInts == {-1, 0, 2}

RECURSIVE Lams(_, _), IntFun(_)
Lams(n, t) == IF n = 0 THEN t ELSE Lam(tInt, Lams(n - 1, t))
IntFun(n) == IF n = 0 THEN tInt ELSE tFun(tInt, IntFun(n - 1))
Body(n, depth, t, canonical) ==
    [t |-> Lams(n, t), ty |-> IntFun(n), params |-> n, depth |-> depth,
     canon |-> IF canonical.k = "none" THEN canonical ELSE Lams(n, canonical)]
Unknown == [k |-> "none"]

Mul(x, y) == Op("*", x, y)
Plus(x, y) == Op("+", x, y)
A == V(2)
B == V(1)
C == V(0)

Factored == Mul(A, Plus(C, B))
DistributionForms == {Body(3, 3, t, Factored) : t \in {
    Mul(A, Plus(B, C)), Mul(Plus(C, B), A), Plus(Mul(A, B), Mul(A, C)), Plus(Mul(C, A), Mul(B, A)),
    Plus(Plus(Mul(B, A), Num(0)), Mul(Mul(Num(1), A), C))}}
RemainderForms == {Body(3, 3, t, Plus(B, Factored)) : t \in {
    Plus(Mul(A, Plus(B, C)), B), Plus(B, Plus(Mul(C, A), Mul(A, B))), Plus(Plus(Mul(A, B), B), Mul(A, C))}}
SquareForms == {Body(2, 2, t, Mul(C, Plus(C, B))) : t \in {Plus(Mul(C, C), Mul(B, C)), Mul(Plus(B, C), C)}}
\* Three factorings of one size.
TieForms == {Body(3, 3, t, Plus(Mul(C, B), Factored)) : t \in {
    Plus(Plus(Mul(A, B), Mul(B, C)), Mul(C, A)), Plus(Mul(B, Plus(A, C)), Mul(A, C)), Plus(Mul(B, A), Mul(C, Plus(A, B)))}}

Less(x, y) == Op("<", x, y)
Rational(n, d) == Node("rat", <<>>) @@ [num |-> n, den |-> d]
Control == {Body(2, 3, t, Unknown) : t \in {
    If(Less(Op("/", B, C), Num(1)), Plus(B, C), Plus(C, B)),
    If(Op("and", Less(B, C), Op("and", Less(B, C), Truth(TRUE))), Num(1), Num(2)),
    If(Op("or", Op("==", Plus(B, C), Plus(C, B)), Truth(FALSE)), Prim("neg", <<Prim("neg", <<B>>)>>), C),
    If(Truth(FALSE), Op("%", B, Num(0)), C),
    Let(tBool, Less(B, C), If(V(0), Mul(V(2), V(1)), Mul(V(1), V(2)))),
    Let(tFun(tInt, tInt), Lam(tInt, App(Fn("inc", <<>>), V(0))), App(V(0), Plus(V(1), Mul(V(2), Num(1))))),
    Match(Box, <<Con(Box, 0, <<>>, <<Plus(C, B)>>), Mul(V(0), Plus(V(1), V(2))), Num(0)>>),
    Field(1, Rec(<<1, 2>>, <<Mul(Plus(B, C), Mul(C, B)), Truth(TRUE)>>)),
    If(Op("==", Mul(Rational(1, 2), Op("+", Prim("to-rat", <<C>>), Rational(0, 1))), Rational(1, 1)),
       Plus(Mul(B, B), Mul(B, Op("/", C, Num(0)))), Op("-", Mul(B, C), Mul(C, B))),
    Op("/", Mul(Plus(B, C), Plus(B, C)), C)}}

Leaves == {B, C}
Arithmetic == {Body(2, 2, Op(o1, Op(o2, w, x), Op(o3, y, z)), Unknown) :
                  o1 \in {"+", "*"}, o2 \in {"+", "*"}, o3 \in {"+", "*"}, w \in {B}, x \in Leaves, y \in Leaves, z \in Leaves}
              \cup {Body(2, 2, Op("*", Op(o1, Op(o2, B, x), y), Op("+", B, Num(1))), Unknown) :
                  o1 \in {"+", "*"}, o2 \in {"+", "*"}, x \in Leaves, y \in Leaves}

MCBodies == DistributionForms \cup RemainderForms \cup SquareForms \cup TieForms \cup Control \cup Arithmetic
=============================================================================
