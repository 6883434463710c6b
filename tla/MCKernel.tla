------------------------------ MODULE MCKernel ------------------------------
(***************************************************************************)
(* A small library, and families of definitions over it: recursion on a     *)
(* Nat, on integers and on both; functions and capability records that are  *)
(* used, kept or passed on; arithmetic; and definitions with properties.    *)
(***************************************************************************)
EXTENDS Guarantees, Terms

Nat0 == tDataTy("Nat", <<>>)
IntList == tDataTy("List", <<tInt>>)
Suc(n) == Con("Nat", 1, <<>>, <<n>>)
Nil == Con("List", 0, <<tInt>>, <<>>)
Link(h, t) == Con("List", 1, <<tInt>>, <<h, t>>)
Me == Self(<<>>)
fInt == tFun(tInt, tInt)
fBool == tFun(tBool, tBool)

func(tyvars, ty, body) == [k |-> "func", tyvars |-> tyvars, ty |-> ty, body |-> body]

MCDefs ==
    [Nat |-> [k |-> "data", tyvars |-> 0, ctors |-> << <<>>, <<tRec(<<>>)>> >>],
     List |-> [k |-> "data", tyvars |-> 1, ctors |-> << <<>>, <<tVar(0), tRec(<<tVar(0)>>)>> >>],
     Span |-> [k |-> "data", tyvars |-> 0, ctors |-> << <<tInt, tInt>> >>],
     Neg |-> [k |-> "data", tyvars |-> 0, ctors |-> << <<tFun(tRec(<<>>), tInt)>> >>],
     Wrap |-> [k |-> "data", tyvars |-> 0, ctors |-> << <<fInt>> >>],
     id |-> func(1, tFun(tVar(0), tVar(0)), Lam(tVar(0), V(0))),
     count |-> func(0, fInt, Lam(tInt, If(Op("<=", V(0), Num(0)), Num(0), App(Me, Op("-", V(0), Num(1)))))),
     hop |-> func(0, fInt, Lam(tInt, If(Op("==", V(0), Num(0)), Num(0), App(Me, Op("-", V(0), V(0)))))),
     call1 |-> func(0, tFun(fInt, fInt), Lam(fInt, Lam(tInt, App(V(1), V(0))))),
     keep |-> func(0, tFun(fInt, fInt), Lam(fInt, Lam(tInt, App(Lam(fInt, Num(1)), V(1))))),
     mapList |-> func(0, tFun(fInt, tFun(IntList, IntList)),
                      Lam(fInt, Lam(IntList, Match("List", <<V(0), Nil,
                          Link(App(V(3), V(1)), App2(Me, V(3), V(0)))>>))))]

MCGenInts == {-2, -1, 0, 1, 3}
MCSmtInts == -3 .. 3

prop(binders, body) == [binders |-> binders, body |-> body]
def0(ty, body) == [ty |-> ty, body |-> body, props |-> <<>>]

\* Recursion over a Nat n (1) and an integer i (0): S m binds m at 0.
OnNat ==
    {def0(tFun(Nat0, fInt), Lam(Nat0, Lam(tInt, Match("Nat", <<V(1), V(0), body>>)))) :
        body \in {App2(Me, a, b) : a \in {V(0), V(2), Suc(V(0))}, b \in {V(1), Op("+", V(1), Num(1))}}
                 \cup {If(Op("<=", V(1), Num(0)), Num(0), App2(Me, a, b)) :
                         a \in {V(0), V(2)}, b \in {V(1), Op("-", V(1), Num(1))}}}

\* Recursion over x (1) and y (0).
OnInts ==
    {def0(tFun(tInt, fInt), Lam(tInt, Lam(tInt, If(g, Num(0), App2(Me, a, b))))) :
        g \in {Op("<=", V(1), Num(0)), Op("<=", V(0), V(1)), Op("==", V(1), Num(0)), Op("<", V(1), V(0))},
        a \in {V(1), Op("-", V(1), Num(1)), Op("+", V(1), Num(1)), Op("/", V(1), Num(2))},
        b \in {V(0), Op("-", V(0), Num(1))}}

\* A measure on a field of the only constructor; a call under a lambda; the callee decides.
OtherRecursion ==
    {def0(tFun(tDataTy("Span", <<>>), tInt),
          Lam(tDataTy("Span", <<>>), Match("Span", <<V(0),
              If(Op("<=", V(1), Num(0)), Num(0), App(Me, Con("Span", 0, <<>>, <<a, V(0)>>)))>>))) :
        a \in {V(1), Op("-", V(1), Num(1))}}
    \cup {def0(tFun(Nat0, tInt), Lam(Nat0, Match("Nat", <<V(0), Num(0), App(Lam(Nat0, App(Me, V(0))), V(0))>>))),
          def0(fInt, Lam(tInt, App(Fn("count", <<>>), V(0)))),
          def0(fInt, Lam(tInt, App(Fn("hop", <<>>), V(0)))),
          def0(fInt, Lam(tInt, Let(fInt, Me, App(V(0), V(1)))))}

\* f : Neg -> Int applied to itself through the datatype.
SelfApply == Lam(tDataTy("Neg", <<>>), Match("Neg", <<V(0), App(V(0), V(1))>>))
Omega == def0(fInt, Lam(tInt, App(SelfApply, Con("Neg", 0, <<>>, <<SelfApply>>))))

\* Uses of f (0) : Int -> Int.
Uses ==
    {V(0), App(V(0), Num(1)), Lam(tInt, App(V(1), V(0))), Lam(tInt, V(0)),
     App(V(0), App(V(0), Num(1))), Let(fInt, V(0), App(V(0), Num(2))),
     App2(Fn("call1", <<>>), V(0), Num(2)), App2(Fn("call1", <<>>), Lam(tInt, App(V(1), V(0))), Num(2)),
     App2(Fn("keep", <<>>), V(0), Num(2)), App2(Fn("mapList", <<>>), V(0), Link(Num(1), Nil)),
     If(Op("<", App(V(0), Num(0)), Num(1)), Num(1), App(V(0), Num(1))),
     Lam(tInt, Op("+", App(V(1), Num(1)), V(0))), Con("Wrap", 0, <<>>, <<V(0)>>), App(Me, V(0)),
     Rec(<<1, 2>>, <<App(V(0), Num(1)), V(0)>>), Rec(<<1>>, <<App(V(0), Num(1))>>)}
Results == {tInt, fInt, IntList, tDataTy("Wrap", <<>>), tRecord(<<1, 2>>, <<tInt, fInt>>), tRecord(<<1>>, <<tInt>>)}
OnFunction == {def0(tFun(fInt, r), Lam(fInt, u)) : r \in Results, u \in Uses}

\* Uses of a capability record r (0): 1 a function, 2 a value.
Caps == tRecord(<<1, 2>>, <<fInt, tInt>>)
OnCaps ==
    {def0(tFun(Caps, r), Lam(Caps, u)) :
        r \in {tInt, fInt, Caps},
        u \in {V(0), Field(1, V(0)), Field(2, V(0)), App(Field(1, V(0)), Field(2, V(0))),
               Lam(tInt, App(Field(1, V(1)), V(0))), Lam(tInt, Field(2, V(1))),
               App2(Fn("call1", <<>>), Lam(tInt, App(Field(1, V(1)), V(0))), Num(1)),
               App2(Fn("call1", <<>>), Field(1, V(0)), Num(1)), Let(tInt, Field(2, V(0)), V(0))}}
Curried == def0(tFun(tFun(tBool, fBool), fBool), Lam(tFun(tBool, fBool), App(V(0), Truth(TRUE))))

\* Arithmetic over x (1) and y (0), and what else is translated.
OnArith ==
    {def0(tFun(tInt, fInt), Lam(tInt, Lam(tInt, b))) :
        b \in {Op(o, x, y) : o \in {"+", "-", "*", "/", "%"}, x \in {V(1), Num(-3)}, y \in {V(0), Num(2)}}
              \cup {Prim("neg", <<Op("/", V(1), V(0))>>), Prim("floor", <<Op("/", Prim("to-rat", <<V(1)>>), Prim("to-rat", <<Num(2)>>))>>),
                    If(Op("<", V(1), V(0)), V(1), V(0)), Let(tInt, Op("/", V(1), V(0)), Op("+", V(0), V(2))),
                    App(Fn("count", <<>>), V(0)), App(Fn("id", <<tInt>>), V(0)), App(Fn("id", <<>>), V(1)),
                    Match("List", <<Link(V(1), Nil), Num(0), V(1)>>),
                    Field(2, Rec(<<1, 2>>, <<V(0), V(1)>>)), App(Lam(tInt, Op("-", V(0), V(2))), V(0))}}
    \cup {def0(tFun(tInt, tFun(tInt, tBool)), Lam(tInt, Lam(tInt, b))) :
            b \in {Op("==", Link(V(1), Nil), Link(V(0), Nil)), Op("or", Op("<=", V(1), V(0)), Prim("not", <<Op("<", V(0), V(1))>>)),
                   Op("==", Rec(<<1>>, <<V(0)>>), Rec(<<1>>, <<V(1)>>)), Op("and", Op("==", V(0), V(1)), Truth(TRUE))}}

\* Ill-typed: same form, other arguments.
Mistyped ==
    {def0(tDataTy("List", <<tBool>>), Link(Num(1), Nil)), def0(fBool, Lam(tBool, Num(1))),
     def0(tFun(tInt, fBool), Lam(tInt, Fn("count", <<>>)))}

\* Definitions with properties.
Tested ==
    {[ty |-> fInt, body |-> Lam(tInt, b), props |-> ps] :
        b \in {If(Op("<", V(0), Num(0)), Op("-", Num(0), V(0)), V(0)),
               If(Op("<=", V(0), Num(0)), Num(0), App(Me, Op("-", V(0), V(0)))),
               If(Op("<=", V(0), Num(0)), Num(0), App(Me, Op("-", V(0), Num(1)))),
               App(Fn("count", <<>>), V(0)),
               Op("/", Num(2), V(0))},
        ps \in {<<prop(<<tInt>>, Op("<=", Num(0), App(Me, V(0))))>>,
                <<prop(<<tInt>>, Op("==", App(Me, V(0)), Num(0)))>>,
                <<prop(<<tInt>>, Op("==", App(Me, V(0)), App(Me, V(0)))), prop(<<tInt>>, Op("<", App(Me, V(0)), Num(2)))>>}}

MCPrograms == OnNat \cup OnInts \cup OtherRecursion \cup {Omega, Curried} \cup OnFunction \cup OnCaps
              \cup OnArith \cup Mistyped \cup Tested

-----------------------------------------------------------------------------
(* Definitions on which the code departs from what its comments promise (see the *)
(* findings in README.md); they are not among MCPrograms.                        *)

\* h = fn [f] (call1 f): the callee is confined, and what it returns holds f.
LeakPrograms == {def0(tFun(fInt, fInt), Lam(fInt, App(Fn("call1", <<>>), V(0))))}
\* == at a datatype with a function in it.
EqPrograms == {def0(tFun(fInt, tBool), Lam(fInt, Op("==", Con("Wrap", 0, <<>>, <<V(0)>>), Con("Wrap", 0, <<>>, <<V(0)>>))))}
\* hop always ends at 0, and is not classified.
HopPrograms == {[ty |-> fInt, body |-> Lam(tInt, App(Fn("hop", <<>>), V(0))),
                 props |-> <<prop(<<tInt>>, Op("==", App(Me, V(0)), Num(0)))>>]}
\* x / 0 == x / 0.
ZeroPrograms == {[ty |-> fInt, body |-> Lam(tInt, Op("/", V(0), Num(0))),
                  props |-> <<prop(<<tInt>>, Op("==", App(Me, V(0)), App(Me, V(0))))>>]}
=============================================================================
