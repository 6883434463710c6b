-------------------------------- MODULE Check --------------------------------
(***************************************************************************)
(* The recursive bidirectional checker of oath/check.go: it has no          *)
(* production caller any more and is the oracle the explicit machine is     *)
(* compared with.  A result is [ty, err, s]; s holds what the checker       *)
(* writes: the published type arguments and the count of inference entries. *)
(***************************************************************************)
EXTENDS Kernel

CONSTANTS selfTyVars    \* type parameters of the definition being checked

VARIABLE selfTy         \* its declared type

Ok(ty, s) == [ty |-> ty, err |-> "", s |-> s]
Err(what, s) == [ty |-> NoTy, err |-> what, s |-> s]
Fresh == [pub |-> <<>>, inferEntries |-> 0]

TyArgs(s, t, p) == IF p \in DOMAIN s.pub THEN s.pub[p] ELSE t.tyargs
Publish(s, p, tyargs) == [s EXCEPT !.pub = (p :> tyargs) @@ @]
WF(t) == checkTyWF(t, selfTyVars, FALSE)
AllWF(tys) == \A i \in DOMAIN tys : WF(tys[i])

\* The head of an application chain and its arguments, with their paths.
RECURSIVE spine(_, _)
spine(t, p) ==
    IF t.k # "app" THEN [head |-> t, at |-> p, args |-> <<>>]
    ELSE LET inner == spine(t.kids[1], Append(p, 1))
         IN  [inner EXCEPT !.args = Append(@, [t |-> t.kids[2], at |-> Append(p, 2)])]

\* The scheme of a ref or self head whose type arguments have to be inferred.
Scheme(head) ==
    IF head.k = "ref" THEN [ty |-> Defs[head.hash].ty, tyvars |-> Defs[head.hash].tyvars]
    ELSE [ty |-> selfTy, tyvars |-> selfTyVars]

NeedsInference(s, sp) ==
    /\ sp.head.k \in {"ref", "self"}
    /\ sp.head.k = "ref" => GetDef(sp.head.hash, "func")
    /\ inferReady(Scheme(sp.head).tyvars, TyArgs(s, sp.head, sp.at))

\* Parameter types of the first n arrows and the result; <<>> when there are too few.
RECURSIVE peel(_, _)
peel(ty, n) ==
    IF n = 0 THEN <<ty>>
    ELSE IF ty.k # "fun" THEN <<>>
    ELSE LET rest == peel(ty.b, n - 1) IN IF rest = <<>> THEN <<>> ELSE <<ty.a>> \o rest

Unsolved(n) == [i \in 1 .. n |-> NoTy]
Seed(pat, exp, n) == IF exp = NoTy THEN Unsolved(n) ELSE matchTy(pat, exp, Unsolved(n)).subst
Solved(subst) == \A i \in DOMAIN subst : subst[i] # NoTy

refSelfTy(s, t, p) ==
    LET tyargs == TyArgs(s, t, p)
        sch == Scheme(t)
    IN  IF t.k = "ref" /\ ~GetDef(t.hash, "func") THEN Err("no such function", s)
        ELSE IF Len(tyargs) # sch.tyvars THEN Err("type arity", s)
        ELSE IF ~AllWF(tyargs) THEN Err("type", s)
        ELSE Ok(substTy(sch.ty, tyargs), s)

FieldOf(ty, op, s) ==
    IF ty.k # "record" THEN Err("not a record", s)
    ELSE IF \A i \in DOMAIN ty.names : ty.names[i] # op THEN Err("no field", s)
    ELSE Ok(ty.args[CHOOSE i \in DOMAIN ty.names : ty.names[i] = op], s)

\* What a match asks of its scrutinee's type before any arm runs.
MatchFault(t, ty) ==
    CASE ty.k # "data" -> "not data"
      [] t.hash # ty.hash -> "other data"
      [] ~GetDef(ty.hash, "data") -> "no such data"
      [] Len(t.kids) - 1 # Len(Defs[ty.hash].ctors) -> "arms"
      [] OTHER -> ""

\* What a constructor application asks before its arguments are visited.
CtorFault(t) ==
    CASE ~GetDef(t.hash, "data") -> "no such data"
      [] t.idx \notin 0 .. Len(Defs[t.hash].ctors) - 1 -> "ctor index"
      [] Len(t.kids) # Len(Defs[t.hash].ctors[t.idx + 1]) -> "ctor arity"
      [] OTHER -> ""

\* exp = NoTy: synthesize; otherwise check against it.  Every recursive call goes through here.
RECURSIVE judge(_, _, _, _, _)

RECURSIVE synthArgs(_, _, _, _, _), synthArms(_, _, _, _, _, _), inferArgs(_, _, _, _, _, _),
          checkArgs(_, _, _, _, _), compareArgs(_, _, _, _, _, _)

\* Arguments left to right; the first failure ends it.  Record fields must ascend.
synthArgs(s, ctx, t, p, tys) ==
    LET i == Len(tys) + 1
    IN  IF i > Len(t.kids) THEN Ok(tys, s)
        ELSE IF t.k = "record" /\ i > 1 /\ t.names[i] <= t.names[i - 1] THEN Err("field order", s)
        ELSE LET r == judge(s, ctx, t.kids[i], Append(p, i), NoTy)
             IN  IF r.err # "" THEN r ELSE synthArgs(r.s, ctx, t, p, Append(tys, r.ty))

\* Arms from i; exp = NoTy: synthesized, and later arms agree with the first.
synthArms(s, ctx, t, p, scrut, st) ==
    IF st.i > Len(t.kids) - 1 THEN Ok(st.result, s)
    ELSE LET armCtx == ctx \o instCtorFields(scrut.hash, scrut.args, st.i - 1)
             kid == t.kids[st.i + 1]
             at == Append(p, st.i + 1)
             r == judge(s, armCtx, kid, at, st.exp)
             next == [st EXCEPT !.i = @ + 1, !.result = IF st.exp = NoTy THEN r.ty ELSE NoTy]
         IN  IF r.err # "" THEN r
             ELSE IF st.exp = NoTy /\ st.i > 1 /\ r.ty # st.result THEN Err("arms disagree", r.s)
             ELSE synthArms(r.s, ctx, t, p, scrut, next)

\* Inference pass: failures are suppressed.  pats[i] is matched with argument i's type.
inferArgs(s, ctx, args, pats, subst, tys) ==
    LET i == Len(tys) + 1
    IN  IF i > Len(args) THEN [s |-> s, subst |-> subst, tys |-> tys]
        ELSE LET r == judge(s, ctx, args[i].t, args[i].at, NoTy)
             IN  inferArgs(r.s, ctx, args, pats,
                           IF r.err = "" THEN matchTy(pats[i], r.ty, subst).subst ELSE subst,
                           Append(tys, r.ty))

checkArgs(s, ctx, args, tys, i) ==
    IF i > Len(args) THEN Ok(NoTy, s)
    ELSE LET r == judge(s, ctx, args[i].t, args[i].at, tys[i])
         IN  IF r.err # "" THEN r ELSE checkArgs(r.s, ctx, args, tys, i + 1)

ArgsOf(t, p) == [i \in DOMAIN t.kids |-> [t |-> t.kids[i], at |-> Append(p, i)]]

\* Infer, solve and publish, then validate every argument.
validateCtor(s, ctx, t, p, tyargs) ==
    LET r == checkArgs(s, ctx, ArgsOf(t, p), instCtorFields(t.hash, tyargs, t.idx), 1)
    IN  IF r.err # "" THEN r ELSE Ok(tDataTy(t.hash, tyargs), r.s)

solvedCtor(inf, p) ==
    IF Solved(inf.subst) THEN [err |-> "", s |-> Publish(inf.s, p, inf.subst), tyargs |-> inf.subst]
    ELSE [err |-> "cannot infer", s |-> inf.s, tyargs |-> <<>>]

\* The type arguments: published or written ones, or those the arguments determine.
ctorTyArgs(s, ctx, t, p, exp, n) ==
    LET tyargs == TyArgs(s, t, p)
        said(err) == [err |-> err, s |-> s, tyargs |-> tyargs]
    IN  CASE inferReady(n, tyargs) ->
               solvedCtor(inferArgs([s EXCEPT !.inferEntries = @ + 1], ctx, ArgsOf(t, p),
                                    instCtorFields(t.hash, identityTyArgs(n), t.idx),
                                    Seed(tDataTy(t.hash, identityTyArgs(n)), exp, n), <<>>), p)
          [] Len(tyargs) # n -> said("type arity")
          [] ~AllWF(tyargs) -> said("type")
          [] OTHER -> said("")

withTyArgs(ctx, t, p, a) == IF a.err # "" THEN Err(a.err, a.s) ELSE validateCtor(a.s, ctx, t, p, a.tyargs)

\* fault: what CtorFault says of the term.
synthCtor(s, ctx, t, p, exp, fault) ==
    IF fault # "" THEN Err(fault, s)
    ELSE withTyArgs(ctx, t, p, ctorTyArgs(s, ctx, t, p, exp, Defs[t.hash].tyvars))

\* Second pass of a spine: what synthesized is compared, what did not is checked.
compareArgs(s, ctx, args, params, tys, i) ==
    IF i > Len(args) THEN Ok(NoTy, s)
    ELSE IF tys[i] # NoTy
    THEN IF tys[i] = params[i] THEN compareArgs(s, ctx, args, params, tys, i + 1) ELSE Err("argument", s)
    ELSE LET r == judge(s, ctx, args[i].t, args[i].at, params[i])
         IN  IF r.err # "" THEN r ELSE compareArgs(r.s, ctx, args, params, tys, i + 1)

\* inf: what the inference pass over the arguments solved.
publishApp(ctx, sp, peeled, inf) ==
    LET params == [i \in DOMAIN sp.args |-> substTy(peeled[i], inf.subst)]
        r == compareArgs(Publish(inf.s, sp.at, inf.subst), ctx, sp.args, params, inf.tys, 1)
    IN  IF ~Solved(inf.subst) THEN Err("cannot infer", inf.s)
        ELSE IF r.err # "" THEN r
        ELSE Ok(substTy(peeled[Len(sp.args) + 1], inf.subst), r.s)

inferPeeled(s, ctx, sp, exp, tyvars, peeled) ==
    IF peeled = <<>> THEN Err("too many arguments", s)
    ELSE publishApp(ctx, sp, peeled,
                    inferArgs(s, ctx, sp.args, peeled, Seed(peeled[Len(sp.args) + 1], exp, tyvars), <<>>))

tryInferApp(s, ctx, sp, exp) ==
    LET sch == Scheme(sp.head) IN inferPeeled(s, ctx, sp, exp, sch.tyvars, peel(sch.ty, Len(sp.args)))

\* == types one operand and checks the other against it; a failure on the left is recovered.
synthPrim(s, ctx, t, p) ==
    IF t.op # "=="
    THEN LET r == synthArgs(s, ctx, t, p, <<>>)
             ty == primResultTy(t.op, r.ty)
         IN  IF r.err # "" THEN r ELSE IF ty = NoTy THEN Err("operands", r.s) ELSE Ok(ty, r.s)
    ELSE IF Len(t.kids) # 2 THEN Err("arity", s)
    ELSE LET l == judge(s, ctx, t.kids[1], Append(p, 1), NoTy)
             r == judge(l.s, ctx, t.kids[2], Append(p, 2), NoTy)
             known == IF l.err = "" THEN l ELSE r
             other == IF l.err = "" THEN 2 ELSE 1
             c == judge(known.s, ctx, t.kids[other], Append(p, other), known.ty)
         IN  IF known.err # "" THEN Err("cannot infer ==", known.s)
             ELSE IF tyHasFun(known.ty) THEN Err("== on functions", known.s)
             ELSE IF c.err # "" THEN c
             ELSE Ok(tBool, c.s)

synth(s, ctx, t, p) ==
    LET kid(st, i) == judge(st, ctx, t.kids[i], Append(p, i), NoTy)
    IN  CASE t.k = "var" -> IF t.idx \in 0 .. Len(ctx) - 1 THEN Ok(ctx[Len(ctx) - t.idx], s) ELSE Err("scope", s)
          [] t.k \in Atoms -> Ok([k |-> t.k], s)
          [] t.k = "record" ->
               LET r == synthArgs(s, ctx, t, p, <<>>)
               IN  IF r.err # "" THEN r ELSE Ok(tRecord(t.names, r.ty), r.s)
          [] t.k = "field" -> LET r == kid(s, 1) IN IF r.err # "" THEN r ELSE FieldOf(r.ty, t.op, r.s)
          [] t.k = "lam" ->
               IF ~WF(t.ty) THEN Err("type", s)
               ELSE LET r == judge(s, Append(ctx, t.ty), t.kids[1], Append(p, 1), NoTy)
                    IN  IF r.err # "" THEN r ELSE Ok(tFun(t.ty, r.ty), r.s)
          [] t.k = "app" ->
               LET f == kid(s, 1)
                   a == kid(f.s, 2)
               IN  IF f.err # "" THEN f
                   ELSE IF f.ty.k # "fun" THEN Err("not a function", f.s)
                   ELSE IF a.err # "" THEN a
                   ELSE IF a.ty # f.ty.a THEN Err("argument type", a.s)
                   ELSE Ok(f.ty.b, a.s)
          [] t.k = "let" ->
               IF ~WF(t.ty) THEN Err("type", s)
               ELSE LET b == kid(s, 1)
                    IN  IF b.err # "" THEN b
                        ELSE IF b.ty # t.ty THEN Err("annotation", b.s)
                        ELSE judge(b.s, Append(ctx, t.ty), t.kids[2], Append(p, 2), NoTy)
          [] t.k = "if" ->
               LET c == kid(s, 1)
                   a == kid(c.s, 2)
                   b == kid(a.s, 3)
               IN  IF c.err # "" THEN c
                   ELSE IF c.ty # tBool THEN Err("condition", c.s)
                   ELSE IF a.err # "" THEN a
                   ELSE IF b.err # "" THEN b
                   ELSE IF a.ty # b.ty THEN Err("branches disagree", b.s)
                   ELSE Ok(a.ty, b.s)
          [] t.k = "prim" -> synthPrim(s, ctx, t, p)
          [] t.k \in {"ref", "self"} -> refSelfTy(s, t, p)

\* Mutant: types of the same form are taken for equal.
CompareForm(r, exp) ==
    IF exp = NoTy \/ r.err # "" THEN r
    ELSE IF r.ty.k = exp.k THEN [r EXCEPT !.ty = NoTy] ELSE Err("expected", r.s)

\* Against the expected type, when there is one.
Compare(r, exp) ==
    IF exp = NoTy \/ r.err # "" THEN r
    ELSE IF tyEq(r.ty, exp) THEN [r EXCEPT !.ty = NoTy] ELSE Err("expected", r.s)

\* The expected type goes into the forms that can use it; the others synthesize and compare.
check(s, ctx, t, p, exp) ==
    LET chk(st, i, ty) == judge(st, ctx, t.kids[i], Append(p, i), ty)
    IN  CASE t.k = "lam" /\ exp.k = "fun" ->
               IF ~WF(t.ty) THEN Err("type", s)
               ELSE IF t.ty # exp.a THEN Err("parameter", s)
               ELSE judge(s, Append(ctx, t.ty), t.kids[1], Append(p, 1), exp.b)
          [] t.k = "if" ->
               LET c == judge(s, ctx, t.kids[1], Append(p, 1), NoTy)
                   a == chk(c.s, 2, exp)
               IN  IF c.err # "" THEN c
                   ELSE IF c.ty # tBool THEN Err("condition", c.s)
                   ELSE IF a.err # "" THEN a
                   ELSE chk(a.s, 3, exp)
          [] t.k = "let" ->
               IF ~WF(t.ty) THEN Err("type", s)
               ELSE LET b == chk(s, 1, t.ty)
                    IN  IF b.err # "" THEN b
                        ELSE judge(b.s, Append(ctx, t.ty), t.kids[2], Append(p, 2), exp)
          [] OTHER -> Compare(judge(s, ctx, t, p, NoTy), exp)

\* c: the scrutinee, synthesized.
judgeArms(c, ctx, t, p, exp, fault) ==
    IF c.err # "" THEN c
    ELSE IF fault # "" THEN Err(fault, c.s)
    ELSE synthArms(c.s, ctx, t, p, c.ty, [i |-> 1, exp |-> exp, result |-> NoTy])
judgeMatch(c, ctx, t, p, exp) == judgeArms(c, ctx, t, p, exp, MatchFault(t, c.ty))

\* Three forms do the same in both modes, with the expected type when there is one.
judge(s, ctx, t, p, exp) ==
    CASE t.k = "ctor" -> Compare(synthCtor(s, ctx, t, p, exp, CtorFault(t)), exp)
      [] t.k = "app" /\ NeedsInference(s, spine(t, p)) -> Compare(tryInferApp(s, ctx, spine(t, p), exp), exp)
      [] t.k = "match" -> judgeMatch(judge(s, ctx, t.kids[1], Append(p, 1), NoTy), ctx, t, p, exp)
      [] exp = NoTy -> synth(s, ctx, t, p)
      [] OTHER -> check(s, ctx, t, p, exp)

\* The gate for a function: its body, then its properties, each with a fresh checker.
BindersOK(p) == \A i \in DOMAIN p.binders : tyIsConcrete(p.binders[i]) /\ checkTyWF(p.binders[i], 0, FALSE)
Judgements(d) ==
    {[ctx |-> <<>>, t |-> d.body, ty |-> d.ty]}
    \cup {[ctx |-> d.props[i].binders, t |-> d.props[i].body, ty |-> tBool] : i \in DOMAIN d.props}

checkDef(d) ==
    /\ WF(d.ty)
    /\ \A i \in DOMAIN d.props : BindersOK(d.props[i])
    /\ \A j \in Judgements(d) : judge(Fresh, j.ctx, j.t, <<>>, j.ty).err = ""
=============================================================================
