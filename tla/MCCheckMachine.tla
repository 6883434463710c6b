-------------------------- MODULE MCCheckMachine --------------------------
(***************************************************************************)
(* Bodies of depth two or three over a polymorphic Opt, a monomorphic Nat,  *)
(* and two polymorphic functions; with and without written type arguments,  *)
(* well and ill typed.                                                      *)
(***************************************************************************)
EXTENDS CheckMachine, Terms

Lit(k) == Node(k, <<>>)
Opt(t) == tDataTy("Opt", <<t>>)

MCDefs ==
    [h \in {"Opt", "Nat", "id", "orElse"} |->
       CASE h = "Opt" -> [k |-> "data", tyvars |-> 1, ctors |-> << <<>>, <<tVar(0)>> >>]
         [] h = "Nat" -> [k |-> "data", tyvars |-> 0, ctors |-> << <<>>, <<tRec(<<>>)>> >>]
         [] h = "id" -> [k |-> "func", tyvars |-> 1, ty |-> tFun(tVar(0), tVar(0))]
         [] h = "orElse" -> [k |-> "func", tyvars |-> 1,
                             ty |-> tFun(Opt(tVar(0)), tFun(tVar(0), tVar(0)))]]

None0 == Con("Opt", 0, <<>>, <<>>)
OrElse(a, b) == App(App(Fn("orElse", <<>>), a), b)

Leaf == {V(0), Lit("int"), Lit("bool"), None0, Con("Opt", 0, <<tInt>>, <<>>), Fn("id", <<>>),
         Fn("id", <<tInt>>), Self(<<>>)}
Few == {Lit("int"), None0, V(0)}

One == Leaf
    \cup {Con("Opt", 1, <<>>, <<a>>) : a \in Leaf}
    \cup {Con("Opt", 1, <<tInt>>, <<a>>) : a \in Few}
    \cup {Con("Nat", 1, <<>>, <<a>>) : a \in {Con("Nat", 0, <<>>, <<>>), None0}}
    \cup {App(f, a) : f \in {Fn("id", <<>>), Fn("id", <<tInt>>), Self(<<>>), V(0), Lam(tInt, V(0))}, a \in Leaf}
    \cup {OrElse(a, b) : a \in Leaf, b \in Few}
    \cup {Prim("==", <<a, b>>) : a \in Leaf, b \in Leaf}
    \cup {Prim("/", <<a, b>>) : a \in {Lit("int"), Lit("rat")}, b \in {Lit("int"), Lit("rat"), None0}}
    \cup {If(c, a, b) : c \in {Lit("bool"), Lit("int")}, a \in Few, b \in Few}
    \cup {Lam(ty, a) : ty \in {tInt, Opt(tInt), tVar(0), tVar(1)}, a \in Few}
    \cup {Let(ty, a, b) : ty \in {tInt, Opt(tInt)}, a \in Few, b \in Few}
    \cup {Match("Opt", <<c, a, b>>) : c \in {Con("Opt", 0, <<tInt>>, <<>>), Lit("int")}, a \in Few, b \in Few}
    \cup {Rec(ns, <<a, b>>) : ns \in {<<1, 2>>, <<2, 1>>}, a \in Few, b \in Few}
    \cup {Field(op, Rec(<<1>>, <<a>>)) : op \in {1, 2}, a \in Few}
    \cup {Prim("and", <<>>), Prim("==", <<Lit("int")>>), Rec(<<>>, <<>>), Con("Opt", 1, <<>>, <<>>),
          App(Lit("int"), Lit("int"))}

Two == One
    \cup {Con("Opt", 1, <<>>, <<a>>) : a \in One}
    \cup {OrElse(a, b) : a \in One, b \in {Lit("int")}}
    \cup {OrElse(a, b) : a \in {None0, Con("Opt", 0, <<tInt>>, <<>>)}, b \in One}
    \cup {Prim("==", <<a, b>>) : a \in One, b \in {None0}}
    \cup {Prim("==", <<b, a>>) : a \in One, b \in {None0}}
    \cup {App(Fn("id", <<>>), a) : a \in One}
    \cup {Match("Opt", <<a, Lit("int"), V(0)>>) : a \in One}
    \cup {If(Lit("bool"), a, Lit("int")) : a \in One}
    \cup {Let(Opt(tInt), Con("Opt", 1, <<>>, <<a>>), V(0)) : a \in One}

MCPrograms ==
    [ty : {tInt, Opt(tInt)}, body : Two]
    \cup [ty : {tFun(tInt, Opt(Opt(tInt))), tFun(tVar(0), tVar(0)), tBool}, body : {Lam(ty, a) : ty \in {tInt, tVar(0)}, a \in One} \cup One]
=============================================================================
