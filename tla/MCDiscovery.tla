---------------------------- MODULE MCDiscovery ----------------------------
(***************************************************************************)
(* A corpus of binary operations: commutative and not, over other operand   *)
(* types, polymorphic, with a phantom type parameter, not terminating,      *)
(* wrong only beyond the samples, one of them under two names; and queries  *)
(* that meet each of them.                                                  *)
(***************************************************************************)
EXTENDS Discovery, Terms

Opt(t) == tDataTy("Opt", <<t>>)
Bin(t) == tFun(t, tFun(t, t))
Lam2(t, x) == Lam(t, Lam(t, x))
Func(n, ty, body, props) == [k |-> "func", tyvars |-> n, ty |-> ty, body |-> body, props |-> props]
Law(binders, body) == [binders |-> binders, body |-> body]

SelfCall(a, b) == App2(Self(<<>>), a, b)
Comm(t) == Law(<<t, t>>, Op("==", SelfCall(V(1), V(0)), SelfCall(V(0), V(1))))
Idem(t) == Law(<<t>>, Op("==", SelfCall(V(0), V(0)), V(0)))
CommAt(t) == Law(<<t, t>>, Op("==", App2(Self(<<t>>), V(1), V(0)), App2(Self(<<t>>), V(0), V(1))))
Typed(t) == Law(<<t>>, Let(t, SelfCall(V(0), V(0)), Op("==", V(0), SelfCall(V(1), V(1)))))
Reflexive(t) == Law(<<t>>, Op("==", V(0), V(0)))

MCDefs ==
    [h \in {"Opt", "add", "sub", "late", "loop", "addR", "or", "first", "phantom", "lift", "eq", "orElse", "swap"} |->
       CASE h = "Opt" -> [k |-> "data", tyvars |-> 1, ctors |-> << <<>>, <<tVar(0)>> >>]
         [] h = "add" -> Func(0, Bin(tInt), Lam2(tInt, Op("+", V(1), V(0))), <<Comm(tInt), Idem(tInt)>>)
         [] h = "sub" -> Func(0, Bin(tInt), Lam2(tInt, Op("-", V(1), V(0))),
                              <<Comm(tInt), Reflexive(tInt), Idem(tInt)>>)
         [] h = "late" -> Func(0, Bin(tInt), Lam2(tInt, If(Op("<", V(1), Num(2)), Op("+", V(1), V(0)), V(1))), <<>>)
         [] h = "loop" -> Func(0, Bin(tInt), Lam2(tInt, SelfCall(V(1), V(0))), <<>>)
         [] h = "addR" -> Func(0, Bin(tRat), Lam2(tRat, Op("+", V(1), V(0))), <<Comm(tRat)>>)
         [] h = "or" -> Func(0, Bin(tBool), Lam2(tBool, Op("or", V(1), V(0))), <<Idem(tBool), Comm(tBool)>>)
         [] h = "first" -> Func(1, Bin(tVar(0)), Lam2(tVar(0), V(1)), <<>>)
         [] h = "phantom" -> Func(1, Bin(tInt), Lam2(tInt, Op("-", V(1), V(0))), <<>>)
         [] h = "lift" -> Func(1, tFun(tInt, tFun(tInt, tVar(0))), Lam2(tInt, App2(Self(<<tVar(0)>>), V(1), V(0))), <<>>)
         [] h = "eq" -> Func(0, tFun(tInt, tFun(tInt, tBool)), Lam2(tInt, Op("==", V(1), V(0))), <<Comm(tInt)>>)
         [] h = "orElse" -> Func(1, tFun(Opt(tVar(0)), tFun(tVar(0), tVar(0))),
                                 Lam(Opt(tVar(0)), Lam(tVar(0), Match("Opt", <<V(1), V(0), V(0)>>))), <<>>)
         [] h = "swap" -> Func(0, tFun(tBool, tFun(tBool, tRat)),
                               Lam2(tBool, If(Op("or", V(1), V(0)), Node("rat", <<>>) @@ [num |-> 1, den |-> 2],
                                              Node("rat", <<>>) @@ [num |-> 1, den |-> 1])), <<Comm(tBool)>>)]

Meta(names, failing, proven) == [propNames |-> names, failing |-> failing, proven |-> proven]
\* The properties of sub: the first fails under a name it shares with the second;
\* the third, without a name, passes under a fallback nobody else has.
MCMetas ==
    [h \in DOMAIN MCDefs \ {"Opt"} |->
       CASE h = "add" -> Meta(<<"comm", "idem">>, {2}, {1})
         [] h = "sub" -> Meta(<<"law", "law">>, {1, 3}, {})
         [] h = "or" -> Meta(<<>>, {}, {1, 2})
         [] h = "swap" -> Meta(<<"comm">>, {}, {1})
         [] h = "addR" -> Meta(<<"comm">>, {}, {})
         [] h = "eq" -> Meta(<<"comm">>, {}, {})
         [] OTHER -> Meta(<<>>, {}, {})]

Index(names) == [i \in DOMAIN names |-> [name |-> names[i], hash |-> IF names[i] = "add2" THEN "add" ELSE names[i]]]
MCCorpora == {Index(names) : names \in {<<"Opt", "add", "add2", "sub">>, <<"addR", "late", "loop">>,
                                         <<"first", "lift", "phantom">>, <<"eq", "or", "swap">>,
                                         <<"Opt", "orElse">>}}

Param(n, t) == [name |-> n, ty |-> t]
Query(n, params, ret, body, props) ==
    [tyvars |-> n, params |-> params, ret |-> ret, body |-> body, props |-> props, propNames |-> <<>>]
XY(t) == <<Param("x", t), Param("y", t)>>

MCQueries ==
    {Query(0, XY(t), t, NoBody, <<Comm(t)>>) : t \in {tInt, tBool}}
    \cup {Query(0, XY(tBool), tBool, NoBody, <<Typed(tBool)>>), Query(0, XY(tInt), tInt, NoBody, <<Typed(tInt), Idem(tInt)>>),
          Query(0, XY(tInt), tInt, NoBody, <<Reflexive(tInt)>>),
          Query(1, XY(tVar(0)), tVar(0), NoBody, <<CommAt(tInt)>>),
          Query(0, XY(tInt), tBool, Truth(TRUE), <<Comm(tInt)>>),
          Query(0, <<Param("x", Opt(tInt)), Param("y", tInt)>>, tInt, NoBody, <<Reflexive(tInt)>>),
          Query(0, <<Param("x", tRat), Param("y", tInt)>>, Opt(tInt), NoBody, <<Reflexive(tInt)>>),
          Query(0, <<Param("x", tRat), Param("y", tInt)>>, Opt(tInt), Con("Opt", 0, <<tInt>>, <<>>), <<Reflexive(tInt)>>),
          Query(0, <<Param("x", tInt), Param("x", tBool), Param("true", tInt)>>, tInt, NoBody, <<Reflexive(tInt)>>),
          Query(0, <<Param("x", tInt), Param("x", tBool), Param("y", tInt)>>, tInt, NoBody, <<Reflexive(tInt)>>),
          Query(0, XY(tInt), tInt, NoBody, <<>>)}
=============================================================================
