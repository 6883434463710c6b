-------------------------------- MODULE Terms --------------------------------
(* Constructors for the terms of the model-checking instances. *)
EXTENDS Sequences, TLC

Node(k, kids) == [k |-> k, kids |-> kids]
V(i) == Node("var", <<>>) @@ [idx |-> i]
Num(n) == Node("int", <<>>) @@ [int |-> n]
Truth(b) == Node("bool", <<>>) @@ [bool |-> b]
Con(h, i, tyargs, kids) == Node("ctor", kids) @@ [hash |-> h, idx |-> i, tyargs |-> tyargs]
Fn(h, tyargs) == Node("ref", <<>>) @@ [hash |-> h, tyargs |-> tyargs]
Self(tyargs) == Node("self", <<>>) @@ [tyargs |-> tyargs]
App(f, a) == Node("app", <<f, a>>)
App2(f, a, b) == App(App(f, a), b)
Lam(t, x) == Node("lam", <<x>>) @@ [ty |-> t]
Let(t, a, b) == Node("let", <<a, b>>) @@ [ty |-> t]
If(c, a, b) == Node("if", <<c, a, b>>)
Prim(op, kids) == Node("prim", kids) @@ [op |-> op]
Op(op, a, b) == Prim(op, <<a, b>>)
Match(h, kids) == Node("match", kids) @@ [hash |-> h]
Rec(names, kids) == Node("record", kids) @@ [names |-> names]
Field(op, r) == Node("field", <<r>>) @@ [op |-> op]
=============================================================================
