------------------------------ MODULE Analyses ------------------------------
(***************************************************************************)
(* What the kernel derives from a definition it admitted: whether its       *)
(* recursion ends (oath/termination.go, oath/ranking.go) and whether it     *)
(* keeps the functions it is given (oath/confinement.go).  Verdicts about   *)
(* the definitions referred to are computed on demand: hashes have no       *)
(* cycles.                                                                  *)
(***************************************************************************)
EXTENDS Smt

\* The types of the parameters.
RECURSIVE Params(_)
Params(t) == IF t.k = "lam" THEN <<t.ty>> \o Params(t.kids[1]) ELSE <<>>

RECURSIVE bodyFuncRefs(_)
bodyFuncRefs(t) ==
    (IF t.k = "ref" THEN {t.hash} ELSE {}) \cup UNION {bodyFuncRefs(t.kids[i]) : i \in DOMAIN t.kids}

-----------------------------------------------------------------------------
(* Structural descent.  A relation is a function from the parameters a      *)
(* variable is known to come from to "eq" (is it) or "lt" (a strict part    *)
(* of it); <<>> is no relation.                                             *)

ltOf(r) == [p \in DOMAIN r |-> "lt"]
argRel(t, env) == IF t.k = "var" /\ t.idx < Len(env) THEN env[Len(env) - t.idx] ELSE <<>>
ArmFields(t, i) == Len(Defs[t.hash].ctors[i])

\* The self-calls below t: each the relations of the arguments of its spine.
RECURSIVE walk(_, _, _)
walk(t, env, spineRels) ==
    CASE t.k = "self" -> {spineRels}
      [] t.k = "app" -> walk(t.kids[1], env, <<argRel(t.kids[2], env)>> \o spineRels)
                        \cup walk(t.kids[2], env, <<>>)
      [] t.k = "lam" -> walk(t.kids[1], Append(env, <<>>), <<>>)
      [] t.k = "let" -> walk(t.kids[1], env, <<>>) \cup walk(t.kids[2], Append(env, <<>>), <<>>)
      [] t.k = "match" ->
           LET brel == IF t.kids[1].k = "var" THEN ltOf(argRel(t.kids[1], env)) ELSE <<>>
               arm(i) == env \o [j \in 1 .. ArmFields(t, i) |-> brel]
           IN  walk(t.kids[1], env, <<>>)
               \cup UNION {walk(t.kids[i + 1], arm(i), <<>>) : i \in 1 .. Len(t.kids) - 1}
      [] OTHER -> UNION {walk(t.kids[i], env, <<>>) : i \in DOMAIN t.kids}

relAt(site, j) == IF j <= Len(site) /\ j \in DOMAIN site[j] THEN site[j][j] ELSE ""

\* Some order of the positions in which every site first shrinks.
RECURSIVE lexDescends(_, _)
lexDescends(sites, positions) ==
    \/ sites = {}
    \/ \E j \in positions :
          /\ \A s \in sites : relAt(s, j) # ""
          /\ \E s \in sites : relAt(s, j) = "lt"
          /\ lexDescends({s \in sites : relAt(s, j) = "eq"}, positions \ {j})

-----------------------------------------------------------------------------
(* Ranking functions.  A site is the guards of its path and its arguments,  *)
(* as SMT terms over the parameters; "bad" is a self-call that cannot be    *)
(* analysed.                                                                *)

BadSite == [guards |-> {}, args |-> <<NoExpr>>]
\* es: the arguments of the call, translated.
recordSite(es, guards, broken, n) ==
    IF broken \/ Len(es) # n \/ \E i \in DOMAIN es : es[i] = NoExpr THEN {BadSite}
    ELSE {[guards |-> guards, args |-> es]}

RECURSIVE rankSites(_, _, _, _, _, _)
\* first: the translation of the first subterm.
sitesBelow(t, env, slf, guards, broken, n, first) ==
    LET sub(u, e, g, b) == rankSites(u, e, slf, g, b, n)
        here(i) == sub(t.kids[i], env, guards, broken)
        sp == spine(t, <<>>)
        args == [i \in DOMAIN sp.args |-> sp.args[i].t]
        bound == IF first = NoExpr THEN eFresh(Len(env)) ELSE first
    IN  CASE t.k \in {"self", "app"} ->
               (IF sp.head.k = "self" THEN recordSite(trAll(args, env, slf, {}), guards, broken, n)
                ELSE sub(sp.head, env, guards, broken))
               \cup UNION {sub(args[i], env, guards, broken) : i \in DOMAIN args}
          [] t.k = "if" ->
               LET b == broken \/ first = NoExpr
                   under(g) == IF first = NoExpr THEN guards ELSE guards \cup {g}
               IN  here(1) \cup sub(t.kids[2], env, under(first), b)
                   \cup sub(t.kids[3], env, under(eOp("not", <<first>>)), b)
          [] t.k = "let" -> here(1) \cup sub(t.kids[2], Append(env, bound), guards, broken)
          [] t.k = "lam" -> sub(t.kids[1], Append(env, eFresh(Len(env))), guards, broken)
          [] t.k = "match" ->
               LET sels(i) == [j \in 1 .. ArmFields(t, i) |->
                                 IF first = NoExpr THEN eFresh(Len(env) + j) ELSE eSel(t.hash, i - 1, j, first)]
                   tests(i) == IF first = NoExpr \/ Len(t.kids) = 2 THEN {} ELSE {eIs(i - 1, first)}
               IN  here(1) \cup UNION {sub(t.kids[i + 1], env \o sels(i), guards \cup tests(i),
                                           broken \/ first = NoExpr) : i \in 1 .. Len(t.kids) - 1}
          [] OTHER -> UNION {here(i) : i \in DOMAIN t.kids}

rankSites(t, env, slf, guards, broken, n) ==
    sitesBelow(t, env, slf, guards, broken, n, tr(t.kids[1], env, slf, {}))

\* Candidate measures over the parameters.
measures(tys) ==
    LET ints == {i \in DOMAIN tys : tys[i].k = "int"}
        single == {i \in DOMAIN tys : tys[i].k = "data" /\ Len(Defs[tys[i].hash].ctors) = 1}
    IN  {[m |-> "param", i |-> i, j |-> i] : i \in ints}
        \cup {[m |-> "diff", i |-> p[1], j |-> p[2]] : p \in {q \in ints \X ints : q[1] # q[2]}}
        \cup UNION {{[m |-> "field", i |-> i, j |-> f] :
                        f \in {g \in 1 .. Len(Defs[tys[i].hash].ctors[1]) :
                                 instCtorFields(tys[i].hash, tys[i].args, 0)[g] = tInt}} : i \in single}

measureAt(m, tys, vals) ==
    CASE m.m = "param" -> vals[m.i]
      [] m.m = "diff" -> eOp("-", <<vals[m.i], vals[m.j]>>)
      [] m.m = "field" -> eSel(tys[m.i].hash, 0, m.j, vals[m.i])

\* guards => mu(args) < mu(params) /\ mu(params) >= 0, with no equation of a callee.
measureClearsAllSites(m, tys, sites) ==
    LET params == [i \in DOMAIN tys |-> eVar(i)]
        mu == measureAt(m, tys, params)
    IN  \A s \in sites :
           valid(tys, s.guards, eOp("and", <<eOp("<", <<measureAt(m, tys, s.args), mu>>),
                                             eOp("<=", <<eVal(vInt(0)), mu>>)>>), {})

someMeasureClears(tys, sites) ==
    /\ BadSite \notin sites
    /\ sites # {}
    /\ \E m \in measures(tys) : measureClearsAllSites(m, tys, sites)

ranksTotal(body) ==
    LET tys == Params(body)
    IN  someMeasureClears(tys, rankSites(StripLam(body), [i \in DOMAIN tys |-> eVar(i)], body, {}, FALSE, Len(tys)))

isTotal(verdict) == verdict \in {"structural", "nonrecursive", "measure"}

RECURSIVE terminationOf(_)
terminationOf(body) ==
    LET n == Len(Params(body))
        sites == walk(StripLam(body), [i \in 1 .. n |-> (i :> "eq")], <<>>)
    IN  CASE \E h \in bodyFuncRefs(body) : ~isTotal(terminationOf(Defs[h].body)) -> "unknown"
          [] sites = {} -> "nonrecursive"
          [] lexDescends(sites, 1 .. n) -> "structural"
          [] ranksTotal(body) -> "measure"
          [] OTHER -> "unknown"

-----------------------------------------------------------------------------
(* Confinement of the parameter of type pt at position pos. *)

RECURSIVE ResultTy(_, _)
ResultTy(ty, n) == IF n = 0 THEN ty ELSE IF ty.k # "fun" THEN NoTy ELSE ResultTy(ty.b, n - 1)
\* Mutant: any application of the parameter counts as a use.
appliedToDataAlways(ty, n) == ResultTy(ty, n) # NoTy
appliedToData(ty, n) == LET r == ResultTy(ty, n) IN r # NoTy /\ ~tyHasFun(r)

fieldTy(pt, op) ==
    IF pt.k = "record" /\ \E i \in DOMAIN pt.names : pt.names[i] = op
    THEN pt.args[CHOOSE i \in DOMAIN pt.names : pt.names[i] = op] ELSE NoTy

IsVar(t, idx) == t.k = "var" /\ t.idx = idx
IsProjection(t, idx) == t.k = "field" /\ IsVar(t.kids[1], idx)

RECURSIVE confined(_, _, _, _), confinedClosure(_, _, _), confinementOf(_)

calleeConfines(head, j, w) ==
    IF head.k = "self" THEN j = w.selfPos
    ELSE LET c == confinementOf(Defs[head.hash].body) IN j \in DOMAIN c /\ c[j] = "confined"

\* w: what is asked about; idx: the parameter's index here; inLam: under an inner lambda.
confined(t, idx, inLam, w) ==
    LET sp == spine(t, <<>>)
        args == [i \in DOMAIN sp.args |-> sp.args[i].t]
        headOK == /\ ~inLam
                  /\ \/ IsVar(sp.head, idx) /\ appliedToData(w.paramTy, Len(args))
                     \/ IsProjection(sp.head, idx) /\ appliedToData(fieldTy(w.paramTy, sp.head.op), Len(args))
        passed(j) ==
            CASE IsVar(args[j], idx) -> ~inLam /\ calleeConfines(sp.head, j, w)
              [] args[j].k = "lam" /\ ~inLam /\ calleeConfines(sp.head, j, w) -> confinedClosure(args[j], idx, w)
              [] OTHER -> confined(args[j], idx, inLam, w)
    IN  CASE t.k = "var" -> t.idx # idx
          [] t.k = "field" ->
               \/ ~inLam /\ IsProjection(t, idx) /\ ~tyHasFun(fieldTy(w.paramTy, t.op))
               \/ confined(t.kids[1], idx, inLam, w)
          [] t.k = "app" ->
               IF ~headOK /\ sp.head.k \in {"ref", "self"} THEN \A j \in DOMAIN args : passed(j)
               ELSE /\ headOK \/ confined(sp.head, idx, inLam, w)
                    /\ \A j \in DOMAIN args : confined(args[j], idx, inLam, w)
          [] t.k = "lam" -> confined(t.kids[1], idx + 1, TRUE, w)
          [] t.k = "let" -> confined(t.kids[1], idx, inLam, w) /\ confined(t.kids[2], idx + 1, inLam, w)
          [] t.k = "match" ->
               /\ confined(t.kids[1], idx, inLam, w)
               /\ \A i \in 1 .. Len(t.kids) - 1 : confined(t.kids[i + 1], idx + ArmFields(t, i), inLam, w)
          [] OTHER -> \A i \in DOMAIN t.kids : confined(t.kids[i], idx, inLam, w)

\* A lambda a confined position will call and not keep.
confinedClosure(t, idx, w) ==
    IF t.k = "lam" THEN confinedClosure(t.kids[1], idx + 1, w) ELSE confined(t, idx, FALSE, w)

confinementOf(body) ==
    LET tys == Params(body)
        n == Len(tys)
        verdict(i) == IF confined(StripLam(body), n - i, FALSE, [selfPos |-> i, paramTy |-> tys[i]])
                      THEN "confined" ELSE "escapes"
    IN  [i \in 1 .. n |-> IF tyHasFun(tys[i]) THEN verdict(i) ELSE ""]
=============================================================================
