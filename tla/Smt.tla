--------------------------------- MODULE Smt ---------------------------------
(***************************************************************************)
(* The translation of terms into SMT and what the solver may conclude       *)
(* (oath/prove.go: sortOf, tr, call, ensureFn, formulaWith).  An SMT term   *)
(* is an expression tree; the solver is external and modelled by its        *)
(* semantics over a box of models: a value, or a "sym": a term the theory   *)
(* leaves open (a zero divisor, a selector on another constructor, a        *)
(* function without an equation) and of which it knows congruence only.     *)
(* A callee whose body has no translation has none at any of its calls.     *)
(***************************************************************************)
EXTENDS Eval

CONSTANT SmtInts        \* the integers of the solver's models

NoExpr == [e |-> "none"]
eFresh(n) == [e |-> "fresh", n |-> n]
eVal(v) == [e |-> "val", v |-> v]
eVar(i) == [e |-> "var", i |-> i]
eOp(op, args) == [e |-> "op", op |-> op, args |-> args]
eIte(c, a, b) == [e |-> "ite", args |-> <<c, a, b>>]
eCtor(h, i, args) == [e |-> "ctor", hash |-> h, i |-> i, args |-> args]
eRecord(names, args) == [e |-> "record", names |-> names, args |-> args]
eIs(i, x) == [e |-> "is", i |-> i, args |-> <<x>>]
eSel(h, i, j, x) == [e |-> "sel", hash |-> h, i |-> i, j |-> j, args |-> <<x>>]
eField(name, x) == [e |-> "field", name |-> name, args |-> <<x>>]
eSelect(f, x) == [e |-> "select", args |-> <<f, x>>]
eFn(body, args) == [e |-> "fn", body |-> body, args |-> args]

RECURSIVE hasSelfRef(_)
hasSelfRef(t) == t.k = "self" \/ \E i \in DOMAIN t.kids : hasSelfRef(t.kids[i])

RECURSIVE StripLam(_)
StripLam(t) == IF t.k = "lam" THEN StripLam(t.kids[1]) ELSE t
RECURSIVE Lams(_)
Lams(t) == IF t.k = "lam" THEN 1 + Lams(t.kids[1]) ELSE 0

\* smtPrimOps: what an operator is called over its operands' sort.
smtOpName(op) == CASE op = "/" -> "oath_tquo" [] op = "%" -> "oath_trem" [] op = "==" -> "=" [] OTHER -> op

RECURSIVE tr(_, _, _, _), trAll(_, _, _, _), call(_, _, _), SelectAll(_, _)

trAll(ts, env, slf, fns) == [i \in DOMAIN ts |-> tr(ts[i], env, slf, fns)]
SelectAll(f, args) == IF args = <<>> THEN f ELSE SelectAll(eSelect(f, Head(args)), Tail(args))

\* fns: the recursive functions already declared.
tr(t, env, slf, fns) ==
    LET kids == trAll(t.kids, env, slf, fns)
        whole(e) == IF \E i \in DOMAIN kids : kids[i] = NoExpr THEN NoExpr ELSE e
        sp == spine(t, <<>>)
        argTerms == [i \in DOMAIN sp.args |-> sp.args[i].t]
        args == trAll(argTerms, env, slf, fns)
        some(es, e) == IF \E i \in DOMAIN es : es[i] = NoExpr THEN NoExpr ELSE e
    IN  CASE t.k = "var" -> env[Len(env) - t.idx]
          [] t.k = "int" -> eVal(vInt(t.int))
          [] t.k = "rat" -> eVal(vRat(t.num, t.den))
          [] t.k = "bool" -> eVal(vBool(t.bool))
          [] t.k = "if" -> whole(eIte(kids[1], kids[2], kids[3]))
          [] t.k = "let" ->
               LET bound == tr(t.kids[1], env, slf, fns)
               IN  IF bound = NoExpr THEN NoExpr ELSE tr(t.kids[2], Append(env, bound), slf, fns)
          [] t.k = "prim" -> whole(eOp(smtOpName(t.op), kids))
          [] t.k = "ctor" -> whole(eCtor(t.hash, t.idx, kids))
          [] t.k = "record" -> whole(eRecord(t.names, kids))
          [] t.k = "field" -> whole(eField(t.op, kids[1]))
          [] t.k = "match" ->
               LET s == tr(t.kids[1], env, slf, fns)
                   n == Len(t.kids) - 1
                   fields(i) == [j \in 1 .. Len(Defs[t.hash].ctors[i]) |-> eSel(t.hash, i - 1, j, s)]
                   arm == [i \in 1 .. n |-> tr(t.kids[i + 1], env \o fields(i), slf, fns)]
                   chain[i \in 1 .. n] == IF i = n THEN arm[n] ELSE eIte(eIs(i - 1, s), arm[i], chain[i + 1])
               IN  IF s = NoExpr THEN NoExpr ELSE some(arm, chain[1])
          [] t.k \in {"ref", "self"} -> call(IF t.k = "ref" THEN Defs[t.hash].body ELSE slf, <<>>, fns)
          [] t.k = "app" ->
               CASE sp.head.k \in {"var", "field"} ->
                      LET f == tr(sp.head, env, slf, fns) IN some(args \o <<f>>, SelectAll(f, args))
                 [] sp.head.k = "ref" -> some(args, call(Defs[sp.head.hash].body, args, fns))
                 [] sp.head.k = "self" -> some(args, call(slf, args, fns))
                 [] sp.head.k = "lam" ->
                      IF Lams(sp.head) # Len(args) THEN NoExpr
                      ELSE some(args, tr(StripLam(sp.head), env \o args, slf, fns))
                 [] OTHER -> NoExpr
          [] OTHER -> NoExpr

\* A recursive callee is a declared function; any other is inlined.  ensureFn is its first call.
call(body, args, fns) ==
    LET params == [i \in 1 .. Lams(body) |-> eVar(i)]
        declared == body \in fns \/ tr(StripLam(body), params, body, fns \cup {body}) # NoExpr
    IN  IF Len(args) # Lams(body) THEN NoExpr
        ELSE IF ~hasSelfRef(body) THEN tr(StripLam(body), args, body, fns)
        ELSE IF ~declared THEN NoExpr
        ELSE eFn(body, args)

-----------------------------------------------------------------------------
(* The solver. *)

Sym(f, args) == [k |-> "sym", f |-> f, args |-> args]
RECURSIVE HasSym(_)
HasSym(v) == v.k = "sym" \/ (v.k \in {"data", "record"} /\ \E i \in DOMAIN v.fields : HasSym(v.fields[i]))

\* SMT-LIB's Euclidean division, and the kernel's quotient defined from it.
Ediv(a, b) == IF b > 0 THEN a \div b ELSE -(a \div (-b))
Emod(a, b) == a - b * Ediv(a, b)
\* Mutant: the solver's own division for the kernel's.
oath_tquo_euclid(a, b) == Ediv(a, b)
oath_tquo(a, b) ==
    IF a >= 0 \/ Emod(a, b) = 0 THEN Ediv(a, b) ELSE Ediv(a, b) + (IF b > 0 THEN 1 ELSE -1)
oath_trem(a, b) ==
    IF a >= 0 THEN Emod(a, b) ELSE IF Emod(a, b) = 0 THEN 0 ELSE Emod(a, b) - Abs(b)

smtOp(op, vs) ==
    LET a == vs[1]
        b == vs[2]
        open == \E i \in DOMAIN vs : HasSym(vs[i])
        false == \E i \in DOMAIN vs : vs[i] = vBool(FALSE)
        true == \E i \in DOMAIN vs : vs[i] = vBool(TRUE)
    IN  CASE op = "=" /\ a = b -> vBool(TRUE)
          [] op = "and" /\ false -> vBool(FALSE)
          [] op = "or" /\ true -> vBool(TRUE)
          [] open -> Sym(op, vs)
          [] op \in {"oath_tquo", "oath_trem"} /\ a.k = "rat" /\ b.num # 0 -> RatPrim("/", a, b)
          [] op = "oath_tquo" /\ a.k = "int" /\ b.int # 0 -> vInt(oath_tquo(a.int, b.int))
          [] op = "oath_trem" /\ a.k = "int" /\ b.int # 0 -> vInt(oath_trem(a.int, b.int))
          [] op \in {"oath_tquo", "oath_trem"} -> Sym(op, vs)
          [] OTHER -> primValue(IF op = "=" THEN "==" ELSE op, a, b)

ValueOr(r, open) == IF r.err = "" THEN r.v ELSE open
FnSym(e, vs) == Sym("fn", <<vClosure(<<>>, e.body, e.body)>> \o vs)

\* The value of an expression in a model; eqns: the functions with an equation.
RECURSIVE smtEval(_, _, _)
smtEval(e, model, eqns) ==
    LET vs == [i \in DOMAIN e.args |-> smtEval(e.args[i], model, eqns)]
        x == vs[1]
    IN  CASE e.e = "val" -> e.v
          [] e.e = "var" -> model[e.i]
          [] e.e = "fresh" -> Sym("fresh", <<vInt(e.n)>>)
          [] e.e = "op" -> smtOp(e.op, vs)
          [] e.e = "ite" ->
               IF x = vBool(TRUE) THEN vs[2] ELSE IF x = vBool(FALSE) \/ vs[2] = vs[3] THEN vs[3] ELSE Sym("ite", vs)
          [] e.e = "ctor" -> vData(e.hash, e.i, vs)
          [] e.e = "record" -> vRecord(e.names, vs)
          [] e.e = "is" -> IF x.k = "sym" THEN Sym("is", <<x, vInt(e.i)>>) ELSE vBool(x.idx = e.i)
          [] e.e = "sel" -> IF x.k # "sym" /\ x.idx = e.i THEN x.fields[e.j] ELSE Sym("sel", <<x, vInt(e.i), vInt(e.j)>>)
          [] e.e = "field" ->
               IF x.k = "sym" THEN Sym("field", <<x, vInt(e.name)>>)
               ELSE x.fields[CHOOSE i \in DOMAIN x.names : x.names[i] = e.name]
          [] e.e = "select" ->
               IF x.k = "sym" \/ HasSym(vs[2]) THEN Sym("select", vs) ELSE apply(x, vs[2], 1, 1).v
          [] e.e = "fn" ->
               IF e.body \in eqns /\ ~(\E i \in DOMAIN vs : HasSym(vs[i]))
               THEN ValueOr(Means(vs, e.body, StripLam(e.body)), FnSym(e, vs)) ELSE FnSym(e, vs)

\* In every model of the box, some guard is false or the goal is true.
Models(tys) == {m \in UNION {genAll(tys, size, SmtInts) : size \in GenSizes} : m # NoVal}
valid(tys, guards, goal, eqns) ==
    \A m \in Models(tys) : \E x \in ({FALSE} \X guards) \cup {<<TRUE, goal>>} :
        smtEval(x[2], m.all, eqns) = vBool(x[1])

\* The formula of a property: its binders are universally quantified.
formulaWith(p, slf) == tr(p.body, [i \in DOMAIN p.binders |-> eVar(i)], slf, {})
=============================================================================
