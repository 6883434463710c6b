------------------------------- MODULE MCDecode -------------------------------
(* Definitions that use every form, and every edit of one token of their encodings. *)
EXTENDS Codec, Terms

MCDefs == [h \in {} |-> 0]
MCHashNum == [h \in 0 .. 40 |-> h]

Func(t, body, ps) == [k |-> "func", tyvars |-> 1, ty |-> t, body |-> body, props |-> ps]
Rational(n, d) == Node("rat", <<>>) @@ [num |-> n, den |-> d]
Corpus == {
    [k |-> "data", tyvars |-> 1, ctors |-> <<<<>>, <<tVar(0), tRec(<<tVar(0)>>)>>>>],
    [k |-> "data", tyvars |-> 0, ctors |-> <<<<tRecord(<<1, 2>>, <<tInt, tFun(tBool, tRat)>>)>>>>],
    [k |-> "data", tyvars |-> 0, ctors |-> <<<<tDataTy(3, <<tDataTy(3, <<tInt>>)>>)>>>>],
    \* As large as the budget.
    Func(tFun(tInt, tInt), Lam(tInt, If(Truth(TRUE), Op("+", V(0), Num(-5)), Num(0))),
         <<[binders |-> <<tInt>>, body |-> Op("==", App(Self(<<tVar(0)>>), V(0)), Num(2))]>>),
    Func(tRat, Let(tRat, Rational(-2, 3), V(0)), <<>>),
    Func(tInt, Match(3, <<Con(3, 1, <<tInt>>, <<Num(1)>>), V(0), Fn(4, <<tInt>>)>>), <<>>),
    Func(tInt, Field(2, Rec(<<1, 2>>, <<Num(0), Truth(FALSE)>>)), <<>>),
    \* One node larger.
    Func(tFun(tInt, tFun(tInt, tInt)), Lam(tInt, Op("*", Op("*", Num(1), Num(2)), Op("*", Num(3), Prim("neg", <<Num(4)>>)))),
         <<[binders |-> <<tInt>>, body |-> Op("<", V(0), V(0))]>>) }

Tokens == {0, 1, 2, 3, 4, 6, 8, 17, 18, 21, 27, 28, 29, 33}
Sub(s, i, n) == SubSeq(s, i, n)
Edits(s) ==
    {Sub(s, 1, i) : i \in 0 .. Len(s) - 1} \cup
    {Sub(s, 1, i - 1) \o Sub(s, i + 1, Len(s)) : i \in DOMAIN s} \cup
    {Sub(s, 1, i - 1) \o <<x>> \o Sub(s, i + 1, Len(s)) : i \in DOMAIN s, x \in Tokens} \cup
    {Sub(s, 1, i) \o <<x>> \o Sub(s, i + 1, Len(s)) : i \in 0 .. Len(s), x \in Tokens}
\* Nested headers that declare more than they hold.
Hostile == {encMagic \o <<1, 0, 1, 1>> \o [i \in 1 .. 2 * n |-> IF i % 2 = 1 THEN tagTy["rec"] ELSE c] : n \in 1 .. 9, c \in 1 .. 4}
MCInputs == Hostile \cup UNION {{encodeDef(d)} \cup Edits(encodeDef(d)) : d \in Corpus}

\* Decoding undoes encoding, and refuses exactly what is over the profile's budget.
AllRoundTrip == \A d \in Corpus : RoundTrip(d)

\* Definitions and accepted byte strings correspond one to one: a hash names one definition.
OneToOne == OneEncoding /\ AllRoundTrip
=============================================================================
