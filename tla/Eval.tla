-------------------------------- MODULE Eval --------------------------------
(***************************************************************************)
(* The evaluator (oath/eval.go) and the generated inputs of the property    *)
(* tester (oath/gen.go).  Evaluation is call by value, bounded by fuel      *)
(* (threaded through) and by depth.  slf is the body of the enclosing       *)
(* definition.  An error is "fuel", "depth", "zero" (a zero divisor), or    *)
(* "stuck": a state the checker is meant to rule out.  The draws of the     *)
(* random generator are sets; IEEE floats and the digest primitives are     *)
(* left out.                                                                *)
(***************************************************************************)
EXTENDS Check, FiniteSetsExt

CONSTANTS
    maxEvalDepth,       \* depth the host stack allows
    propFuel,           \* budget of one evaluation
    Ample,              \* a budget no terminating evaluation of the instance exhausts
    GenInts,            \* integers the generator reaches
    GenSizes            \* sizes of the draws

NoVal == [k |-> "none"]
vInt(n) == [k |-> "int", int |-> n]
vBool(b) == [k |-> "bool", bool |-> b]
vData(h, i, fields) == [k |-> "data", hash |-> h, idx |-> i, fields |-> fields]
vRecord(names, fields) == [k |-> "record", names |-> names, fields |-> fields]
vClosure(env, lam, slf) == [k |-> "closure", env |-> env, lam |-> lam, slf |-> slf]
vId == [k |-> "native", native |-> "id"]
vAffine(a, b) == [k |-> "native", native |-> "affine", na |-> a, nb |-> b]
vTable(keys, vals, dflt) == [k |-> "native", native |-> "table", fields |-> keys, tvals |-> vals, nval |-> dflt]

Abs(n) == IF n < 0 THEN -n ELSE n
Quo(a, b) == LET q == Abs(a) \div Abs(b) IN IF (a < 0) = (b < 0) THEN q ELSE -q
Rem(a, b) == a - b * Quo(a, b)

\* A rational in lowest terms, its denominator positive.
vRat(n, d) ==
    LET g == IF n = 0 THEN Abs(d)
             ELSE Max({c \in 1 .. Abs(d) : Abs(n) % c = 0 /\ Abs(d) % c = 0})
        s == IF d < 0 THEN -1 ELSE 1
    IN  [k |-> "rat", num |-> (s * n) \div g, den |-> Abs(d) \div g]

Val(v, fuel) == [v |-> v, err |-> "", fuel |-> fuel]
Stop(err, fuel) == [v |-> NoVal, err |-> err, fuel |-> fuel]

\* Structural equality: a value, or stuck where it meets a function.
RECURSIVE structEq(_, _), structEqAll(_, _, _)
structEq(a, b) ==
    CASE a.k # b.k -> vBool(FALSE)
      [] a.k \in {"int", "rat", "bool"} -> vBool(a = b)
      [] a.k = "record" -> structEqAll(a.fields, b.fields, 1)
      [] a.k = "data" -> IF a.hash = b.hash /\ a.idx = b.idx THEN structEqAll(a.fields, b.fields, 1)
                         ELSE vBool(FALSE)
      [] OTHER -> NoVal

structEqAll(as, bs, i) ==
    IF Len(as) # Len(bs) THEN vBool(FALSE)
    ELSE IF i > Len(as) THEN vBool(TRUE)
    ELSE LET r == structEq(as[i], bs[i]) IN IF r = vBool(TRUE) THEN structEqAll(as, bs, i + 1) ELSE r

\* A primitive over its evaluated operands.
RatPrim(op, a, b) ==
    CASE op = "<" -> vBool(a.num * b.den < b.num * a.den)
      [] op = "<=" -> vBool(a.num * b.den <= b.num * a.den)
      [] op = "/" -> vRat(a.num * b.den, a.den * b.num)
      [] OTHER -> vRat(CASE op = "+" -> a.num * b.den + b.num * a.den
                         [] op = "-" -> a.num * b.den - b.num * a.den
                         [] op = "*" -> a.num * b.num, a.den * b.den)

IntPrim(op, a, b) ==
    CASE op = "+" -> vInt(a + b)
      [] op = "-" -> vInt(a - b)
      [] op = "*" -> vInt(a * b)
      [] op = "/" -> vInt(Quo(a, b))
      [] op = "%" -> vInt(Rem(a, b))
      [] op = "<" -> vBool(a < b)
      [] op = "<=" -> vBool(a <= b)

ZeroDivisor(op, args) ==
    op \in {"/", "%"} /\ (IF args[2].k = "rat" THEN args[2].num = 0 ELSE args[2].int = 0)

primValue(op, a, b) ==
    CASE op = "==" -> structEq(a, b)
      [] op = "not" -> vBool(~a.bool)
      [] op = "and" -> vBool(a.bool /\ b.bool)
      [] op = "or" -> vBool(a.bool \/ b.bool)
      [] op = "to-rat" -> vRat(a.int, 1)
      [] op = "floor" -> vInt(a.num \div a.den)
      [] op = "neg" -> IF a.k = "rat" THEN vRat(-a.num, a.den) ELSE vInt(-a.int)
      [] OTHER -> IF a.k = "rat" THEN RatPrim(op, a, b) ELSE IntPrim(op, a.int, b.int)

ValOrStuck(v, fuel) == IF v = NoVal THEN Stop("stuck", fuel) ELSE Val(v, fuel)

evalPrim(op, args, fuel) ==
    IF ZeroDivisor(op, args) THEN Stop("zero", fuel)
    ELSE ValOrStuck(primValue(op, args[1], args[2]), fuel)

TableValue(f, a) ==
    LET hits == {i \in DOMAIN f.fields : structEq(f.fields[i], a) = vBool(TRUE)}
    IN  IF hits = {} THEN f.nval ELSE f.tvals[Min(hits)]

RECURSIVE eval(_, _, _, _, _), evalArgs(_, _, _, _, _, _), apply(_, _, _, _)

\* depth: of this call; the fuel is what is left.
eval(env, slf, t, depth, fuel) ==
    LET f == fuel - 1
        run(e, u, g) == eval(e, slf, u, depth + 1, g)
        kids(first, g) == evalArgs(env, slf, t.kids, depth + 1, g, first)
        a == run(env, t.kids[1], f)
    IN  IF depth > maxEvalDepth THEN Stop("depth", fuel)
        ELSE IF f < 0 THEN Stop("fuel", f)
        ELSE CASE t.k = "var" -> IF t.idx < Len(env) THEN Val(env[Len(env) - t.idx], f) ELSE Stop("stuck", f)
               [] t.k = "int" -> Val(vInt(t.int), f)
               [] t.k = "rat" -> Val(vRat(t.num, t.den), f)
               [] t.k = "bool" -> Val(vBool(t.bool), f)
               [] t.k = "lam" -> Val(vClosure(env, t, slf), f)
               [] t.k = "ref" -> eval(<<>>, Defs[t.hash].body, Defs[t.hash].body, depth + 1, f)
               [] t.k = "self" -> run(<<>>, slf, f)
               [] t.k \in {"record", "ctor", "prim"} ->
                    LET r == kids(<<>>, f)
                    IN  IF r.err # "" THEN r
                        ELSE IF t.k = "record" THEN Val(vRecord(t.names, r.v), r.fuel)
                        ELSE IF t.k = "ctor" THEN Val(vData(t.hash, t.idx, r.v), r.fuel)
                        ELSE evalPrim(t.op, r.v, r.fuel)
               [] a.err # "" -> a
               [] t.k = "field" ->
                    LET at == {i \in DOMAIN a.v.names : a.v.names[i] = t.op}
                    IN  IF at = {} THEN Stop("stuck", a.fuel) ELSE Val(a.v.fields[Min(at)], a.fuel)
               [] t.k = "app" ->
                    LET b == run(env, t.kids[2], a.fuel)
                    IN  IF b.err # "" THEN b ELSE apply(a.v, b.v, depth, b.fuel)
               [] t.k = "let" -> run(Append(env, a.v), t.kids[2], a.fuel)
               [] t.k = "if" -> run(env, t.kids[IF a.v.bool THEN 2 ELSE 3], a.fuel)
               [] t.k = "match" ->
                    IF a.v.k # "data" \/ a.v.idx >= Len(t.kids) - 1 THEN Stop("stuck", a.fuel)
                    ELSE run(env \o a.v.fields, t.kids[a.v.idx + 2], a.fuel)

evalArgs(env, slf, kids, depth, fuel, vals) ==
    IF Len(vals) = Len(kids) THEN Val(vals, fuel)
    ELSE LET r == eval(env, slf, kids[Len(vals) + 1], depth, fuel)
         IN  IF r.err # "" THEN r ELSE evalArgs(env, slf, kids, depth, r.fuel, Append(vals, r.v))

apply(fn, a, depth, fuel) ==
    LET f == fuel - 1
    IN  CASE f < 0 -> Stop("fuel", f)
          [] fn.k = "closure" -> eval(Append(fn.env, a), fn.slf, fn.lam.kids[1], depth + 1, f)
          [] fn.k = "native" ->
               Val(CASE fn.native = "id" -> a
                     [] fn.native = "affine" -> vInt(fn.na * a.int + fn.nb)
                     [] fn.native = "table" -> TableValue(fn, a), f)
          [] OTHER -> Stop("stuck", f)

Run(env, slf, t) == eval(env, slf, t, 1, propFuel)
\* What the term means: evaluation without the tester's budget.
Means(env, slf, t) == eval(env, slf, t, 1, Ample)

-----------------------------------------------------------------------------
(* Generated inputs. *)

RECURSIVE tyMentionsHash(_, _)
tyMentionsHash(t, h) ==
    \/ t.k = "data" /\ t.hash = h
    \/ t.k = "fun" /\ (tyMentionsHash(t.a, h) \/ tyMentionsHash(t.b, h))
    \/ HasArgs(t) /\ \E i \in DOMAIN t.args : tyMentionsHash(t.args[i], h)

ctorRecursive(h, tyargs, i) ==
    LET fields == instCtorFields(h, tyargs, i) IN \E j \in DOMAIN fields : tyMentionsHash(fields[j], h)

\* The values a draw of this type and size can give; NoVal: a draw that fails.
RECURSIVE genValue(_, _, _), genAll(_, _, _)
genValue(ty, size, ints) ==
    CASE ty.k = "int" -> {vInt(n) : n \in ints}
      [] ty.k = "rat" -> {vRat(n, 2) : n \in ints}
      [] ty.k = "bool" -> {vBool(TRUE), vBool(FALSE)}
      [] ty.k = "record" -> {IF fs = NoVal THEN NoVal ELSE vRecord(ty.names, fs.all) : fs \in genAll(ty.args, size, ints)}
      [] ty.k = "fun" ->
           LET tables == {IF fs = NoVal THEN NoVal ELSE vTable(<<fs.all[1]>>, <<fs.all[2]>>, fs.all[3]) :
                             fs \in genAll(<<ty.a, ty.b, ty.b>>, size, ints)}
               linear == {vAffine(n, 1) : n \in ints}
           IN  IF ty.a.k = "int" /\ ty.b.k = "int" THEN {vId} \cup linear \cup tables ELSE tables
      [] ty.k = "data" ->
           LET all == 0 .. Len(Defs[ty.hash].ctors) - 1
               base == {i \in all : ~ctorRecursive(ty.hash, ty.args, i)}
               build(i) == {IF fs = NoVal THEN NoVal ELSE vData(ty.hash, i, fs.all) :
                               fs \in genAll(instCtorFields(ty.hash, ty.args, i), size - 1, ints)}
           IN  IF size > 0 THEN UNION {build(i) : i \in all}
               ELSE IF base = {} THEN {NoVal}
               ELSE UNION {build(i) : i \in base}
      [] OTHER -> {NoVal}

\* One draw for each type of a list; NoVal when one of them fails.
genAll(tys, size, ints) ==
    IF tys = <<>> THEN {[all |-> <<>>]}
    ELSE {IF v = NoVal \/ rest = NoVal THEN NoVal ELSE [all |-> <<v>> \o rest.all] :
             v \in genValue(Head(tys), size, ints), rest \in genAll(Tail(tys), size, ints)}

\* Bindings of a property's binders, or of a function's parameters.
genPropCase(binders) == UNION {genAll(binders, size, GenInts) : size \in GenSizes}
=============================================================================
