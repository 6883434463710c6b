----------------------------- MODULE Discovery -----------------------------
(***************************************************************************)
(* The discovery queries of oath/api.go: by stated law (find, find --spec), *)
(* by signature (find --shape) and by proof (find --implies), the last one  *)
(* under an optional wall-clock budget; and the demand counter of           *)
(* oath/demand.go that a missed law feeds.                                  *)
(*                                                                          *)
(* Encodings are injective, so the hash or the bytes of a type or of a      *)
(* property are the value itself.  Rendering is left out: a report is the   *)
(* set of facts it states.  The prover is external (ProveRun, Smt): on a    *)
(* well-typed goal it is right whenever it answers, on an ill-typed one it  *)
(* may answer anything.                                                     *)
(***************************************************************************)
EXTENDS Kernel, SequencesExt

CONSTANTS
    maxEvalDepth, propFuel, Ample, GenInts, GenSizes,   \* of the evaluator
    ProbeInts,      \* integers the samples of concreteProbe reach
    Corpora,        \* name indexes in order: sequences of [name, hash]
    Metas,          \* hash -> [propNames, failing, proven], for definitions with metadata
    Queries,        \* [tyvars, params, ret, body, props, propNames]
    NoBody,         \* a query written without a body
    Unreadable,     \* hashes whose reads may fail
    Callers,        \* concurrent requests that record misses
    MaxCount        \* bound: misses counted

VARIABLES
    corpus,         \* the name index
    query,          \* the query, elaborated
    mode,           \* implies | spec | shape
    budget,         \* whether --timeout was given
    elapsed,        \* whether it has passed
    at,             \* [prop, name]: the property and the name being examined
    phase,          \* query | refused | scan | probe | probed | prove | done
    goal,           \* the candidate with the query's property appended: [hash, def, prop]
    results,        \* per property: <<[name, hash, status]>>
    report,         \* [aborted, examined, excluded, none, hint, listing, near]
    demand,         \* property -> misses recorded
    loaded,         \* per caller: the records it read, or NotLoaded
    misses          \* history: property -> misses that happened

scanVars == <<elapsed, at, phase, goal, results, report>>
demandVars == <<demand, loaded, misses>>
vars == <<corpus, query, mode, budget, scanVars, demandVars>>

Lang == INSTANCE Eval WITH selfTyVars <- 0, selfTy <- NoTy
Checker(n, ty) == INSTANCE Check WITH selfTyVars <- n, selfTy <- ty

MaxTyVars == 2
checkDef(d) == \E n \in 0 .. MaxTyVars : n = d.tyvars /\ Checker(n, d.ty)!checkDef(d)

-----------------------------------------------------------------------------
(* Signatures up to primitive leaves. *)

Leaves == {"int", "rat", "bool"}

\* Kinds in order of first appearance, left to right.
RECURSIVE leavesOf(_)
leavesOf(t) ==
    CASE t.k \in Leaves -> <<t.k>>
      [] t.k = "fun" -> leavesOf(t.a) \o leavesOf(t.b)
      [] HasArgs(t) -> FoldLeft(LAMBDA acc, a : acc \o leavesOf(a), <<>>, t.args)
      [] OTHER -> <<>>

FirstSeen(kinds, k) ==
    Cardinality({kinds[i] : i \in 1 .. (CHOOSE i \in DOMAIN kinds : kinds[i] = k /\ \A j \in 1 .. i - 1 : kinds[j] # k)}) - 1

\* Rewrites the leaves a map names; what it does not name stays.
RECURSIVE retypeTyBySub(_, _)
retypeTyBySub(sub, t) ==
    CASE t.k \in DOMAIN sub -> sub[t.k]
      [] t.k = "fun" -> tFun(retypeTyBySub(sub, t.a), retypeTyBySub(sub, t.b))
      [] HasArgs(t) -> [t EXCEPT !.args = [i \in DOMAIN @ |-> retypeTyBySub(sub, @[i])]]
      [] OTHER -> t

generalizeTypes(tys) ==
    LET kinds == FoldLeft(LAMBDA acc, t : acc \o leavesOf(t), <<>>, tys)
        sub == [k \in Range(kinds) |-> tVar(FirstSeen(kinds, k))]
    IN  [i \in DOMAIN tys |-> retypeTyBySub(sub, tys[i])]

propHashGeneral(p) == [binders |-> generalizeTypes(p.binders), body |-> p.body]

\* The leaf map read off two signatures in parallel; a second type for a kind fails it.
NoMap == [ok |-> FALSE, sub |-> <<>>]
RECURSIVE walk(_, _, _), walkAll(_, _, _)
walk(a, b, m) ==
    CASE a.k \in DOMAIN m.sub -> IF m.sub[a.k] = b THEN m ELSE NoMap
      [] a.k \in Leaves -> [m EXCEPT !.sub = (a.k :> b) @@ @]
      [] a.k = "fun" -> IF b.k = "fun" THEN walkAll(<<a.a, a.b>>, <<b.a, b.b>>, m) ELSE NoMap
      [] HasArgs(a) -> IF b.k = a.k /\ Len(a.args) = Len(b.args) THEN walkAll(a.args, b.args, m) ELSE NoMap
      [] OTHER -> IF a = b THEN m ELSE NoMap

walkAll(as, bs, m) ==
    FoldLeft(LAMBDA acc, i : IF acc.ok THEN walk(as[i], bs[i], acc) ELSE acc, m, [i \in DOMAIN as |-> i])

crossTypeCompatible(qTy, cTy) ==
    IF generalizeTypes(<<qTy>>) # generalizeTypes(<<cTy>>) THEN NoMap
    ELSE walk(qTy, cTy, [ok |-> TRUE, sub |-> <<>>])

\* One-sided: the candidate's variables bind to parts of the query's type.
RECURSIVE typeSubsumes(_, _, _), subsumesAll(_, _, _)
typeSubsumes(cTy, qTy, m) ==
    CASE cTy.k = "var" -> IF cTy.var \in DOMAIN m.sub THEN (IF m.sub[cTy.var] = qTy THEN m ELSE NoMap)
                          ELSE [m EXCEPT !.sub = (cTy.var :> qTy) @@ @]
      [] cTy.k # qTy.k -> NoMap
      [] cTy.k = "fun" -> subsumesAll(<<cTy.a, cTy.b>>, <<qTy.a, qTy.b>>, m)
      [] HasArgs(cTy) ->
           IF /\ Len(cTy.args) = Len(qTy.args)
              /\ cTy.k = "data" => cTy.hash = qTy.hash
              /\ cTy.k = "record" => cTy.names = qTy.names
           THEN subsumesAll(cTy.args, qTy.args, m) ELSE NoMap
      [] OTHER -> IF cTy = qTy THEN m ELSE NoMap

subsumesAll(cs, qs, m) ==
    FoldLeft(LAMBDA acc, i : IF acc.ok THEN typeSubsumes(cs[i], qs[i], acc) ELSE acc, m, [i \in DOMAIN cs |-> i])

Subsumes(cTy, qTy) == typeSubsumes(cTy, qTy, [ok |-> TRUE, sub |-> <<>>]).ok

\* Declared type variables are moved out of the range the freed leaves take.
HoistBase == 10
RECURSIVE hoistVars(_, _)
hoistVars(t, base) ==
    CASE t.k = "var" -> tVar(t.var + base)
      [] t.k = "fun" -> tFun(hoistVars(t.a, base), hoistVars(t.b, base))
      [] HasArgs(t) -> [t EXCEPT !.args = [i \in DOMAIN @ |-> hoistVars(@[i], base)]]
      [] OTHER -> t

shapeKey(t) == generalizeTypes(<<hoistVars(t, HoistBase)>>)[1]

crossTypeRetypeBinders(binders, sub) == [i \in DOMAIN binders |-> retypeTyBySub(sub, binders[i])]

\* Every type a term embeds: annotations and type arguments.
RECURSIVE crossTypeRetypeBody(_, _)
crossTypeRetypeBody(t, sub) ==
    LET inner == [t EXCEPT !.kids = [i \in DOMAIN @ |-> crossTypeRetypeBody(@[i], sub)]]
    IN  CASE t.k \in {"lam", "let"} -> [inner EXCEPT !.ty = retypeTyBySub(sub, @)]
          [] t.k \in {"ref", "self", "ctor"} -> [inner EXCEPT !.tyargs = crossTypeRetypeBinders(@, sub)]
          [] OTHER -> inner

-----------------------------------------------------------------------------
(* The query. *)

SigOf(q) == FoldRight(LAMBDA p, t : tFun(p.ty, t), q.params, q.ret)

\* A name refers to its last binding; the placeholder is the first visible
\* parameter of the return type that does not read as a literal.
ReadsAsLiteral == {"true", "false"}
LastBinding(q, name) == Max({i \in DOMAIN q.params : q.params[i].name = name})

placeholders(q) ==
    {i \in DOMAIN q.params :
        /\ LastBinding(q, q.params[i].name) = i
        /\ q.params[i].name \notin ReadsAsLiteral
        /\ q.params[i].ty = q.ret}

\* A bare name as a body, resolved by the elaborator.
NameBody(q, name) == [k |-> "var", kids |-> <<>>, idx |-> Len(q.params) - LastBinding(q, name)]
ensureQueryBody(q) ==
    IF q.body # NoBody THEN q.body ELSE NameBody(q, q.params[Min(placeholders(q))].name)

Lambdas(q, body) == FoldRight(LAMBDA p, t : [k |-> "lam", kids |-> <<t>>, ty |-> p.ty], q.params, body)
elabFunc(q) ==
    [k |-> "func", tyvars |-> q.tyvars, ty |-> SigOf(q), body |-> Lambdas(q, ensureQueryBody(q)),
     props |-> q.props, propNames |-> q.propNames]

Answerable(q) == /\ q.body = NoBody => placeholders(q) # {}
                 /\ q.props # <<>>
                 /\ checkDef(elabFunc(q))

-----------------------------------------------------------------------------
(* Verdicts recorded for the properties of a stored definition. *)

NoMeta == [propNames |-> <<>>, failing |-> {}, proven |-> {}]
MetaOf(h) == IF h \in DOMAIN Metas THEN Metas[h] ELSE NoMeta

\* The positional fallback is the index itself.
storedPropName(m, i) == IF i \in DOMAIN m.propNames THEN m.propNames[i] ELSE ToString(i)
provenContains(m, i) == i \in m.proven

\* The verifier records the failing properties by name: how often each name occurs.
falsified(m, name) == Cardinality({j \in m.failing : storedPropName(m, j) = name})

\* Names may repeat: only when every property of that name is falsified.
refutedContains(m, i, n) ==
    LET name == storedPropName(m, i)
        inFalsified == falsified(m, name)
    IN  inFalsified > 0 /\ inFalsified >= Cardinality({j \in 1 .. n : storedPropName(m, j) = name})

mark(m, i, n) == IF provenContains(m, i) THEN "proven"
                 ELSE IF refutedContains(m, i, n) THEN "refuted" ELSE "tested"

IsFunc(h) == h \in DOMAIN Defs /\ Defs[h].k = "func"

-----------------------------------------------------------------------------
(* find, find --spec: definitions that state the same law. *)

\* In name order, then by property; the refuted ones go last.
MatchesIn(entry, law) ==
    LET d == Defs[entry.hash]
        hits == SelectSeq([i \in DOMAIN d.props |-> i], LAMBDA i : propHashGeneral(d.props[i]) = law)
    IN  [j \in DOMAIN hits |-> [name |-> entry.name, hash |-> entry.hash, prop |-> hits[j],
                                mark |-> mark(MetaOf(entry.hash), hits[j], Len(d.props))]]

findFromDef(law) ==
    LET found == FoldLeft(LAMBDA acc, e : IF IsFunc(e.hash) THEN acc \o MatchesIn(e, law) ELSE acc, <<>>, corpus)
        kept(yes) == SelectSeq(found, LAMBDA r : (r.mark = "refuted") = yes)
    IN  kept(FALSE) \o kept(TRUE)

\* Where to look after a miss: compatible signatures; the count is not capped.
signatureNeighboursN(q) ==
    {e \in Range(corpus) : /\ IsFunc(e.hash)
                           /\ Defs[e.hash].props # <<>>
                           /\ generalizeTypes(<<Defs[e.hash].ty>>) = generalizeTypes(<<q.ty>>)}

Laws(q) == {propHashGeneral(q.props[i]) : i \in DOMAIN q.props}

apiFindSpec ==
    /\ mode = "spec" /\ phase = "scan"
    /\ report' = [report EXCEPT !.listing = [law \in Laws(query) |-> findFromDef(law)],
                                !.near = Cardinality(signatureNeighboursN(query))]
    /\ phase' = "done"
    /\ UNCHANGED <<corpus, query, mode, budget, elapsed, at, goal, results, demandVars>>

\* recordMiss: read all records, count one, write all records.  The reads and
\* writes of concurrent requests interleave; a failed read is an empty table.
Missed == IF mode = "spec" /\ phase = "done" THEN {law \in Laws(query) : report.listing[law] = <<>>} ELSE {}
NotLoaded == [none |-> TRUE]
NoDemand == <<>>
demandKey == "discovery-demand"

loadDemand(c) ==
    /\ Missed # {} /\ loaded[c] = NotLoaded
    /\ \E law \in Missed, found \in {demand} \cup (IF demandKey \in Unreadable THEN {NoDemand} ELSE {}) :
          /\ loaded' = [loaded EXCEPT ![c] = [law |-> law, records |-> found]]
          /\ misses' = [l \in DOMAIN misses \cup {law} |->
                          (IF l \in DOMAIN misses THEN misses[l] ELSE 0) + (IF l = law THEN 1 ELSE 0)]
    /\ \A l \in DOMAIN misses : misses[l] < MaxCount
    /\ UNCHANGED <<corpus, query, mode, budget, scanVars, demand>>

Counted(records, law) ==
    (law :> (IF law \in DOMAIN records THEN records[law] + 1 ELSE 1)) @@ records

recordMiss(c) ==
    /\ loaded[c] # NotLoaded
    /\ demand' = Counted(loaded[c].records, loaded[c].law)
    /\ loaded' = [loaded EXCEPT ![c] = NotLoaded]
    /\ UNCHANGED <<corpus, query, mode, budget, scanVars, misses>>

-----------------------------------------------------------------------------
(* find --shape. *)

apiFindShape ==
    /\ mode = "shape" /\ phase = "scan"
    /\ LET funcs == {e \in Range(corpus) : IsFunc(e.hash)}
           same == {e \in funcs : shapeKey(Defs[e.hash].ty) = shapeKey(query.ty)}
       IN  report' = [report EXCEPT
                 !.listing = [atShape |-> same,
                              moreGeneral |-> {e \in funcs \ same : /\ Defs[e.hash].tyvars > 0
                                                                    /\ Subsumes(Defs[e.hash].ty, query.ty)}]]
    /\ phase' = "done"
    /\ UNCHANGED <<corpus, query, mode, budget, elapsed, at, goal, results, demandVars>>

-----------------------------------------------------------------------------
(* find --implies. *)

Now == corpus[at.name]
Late == budget /\ elapsed
NextName == [at EXCEPT !.name = @ + 1]
NoGoal == [none |-> TRUE]
Result(status) == [name |-> Now.name, hash |-> Now.hash, status |-> status]
Record(status) == [results EXCEPT ![at.prop] = Append(@, Result(status))]

\* The clock: any time while the search runs.
Elapse ==
    /\ mode = "implies" /\ budget /\ ~elapsed /\ phase # "done"
    /\ elapsed' = TRUE
    /\ UNCHANGED <<corpus, query, mode, budget, at, phase, goal, results, report, demandVars>>

\* The property as this candidate would have to satisfy it.
Exact(d) == d.ty = query.ty
Portable(d, p) ==
    LET m == crossTypeCompatible(query.ty, d.ty)
    IN  IF Exact(d) THEN [ok |-> TRUE, prop |-> p]
        ELSE [ok |-> m.ok, prop |-> [binders |-> crossTypeRetypeBinders(p.binders, m.sub),
                                     body |-> crossTypeRetypeBody(p.body, m.sub)]]

augment(d, p) == [d EXCEPT !.props = Append(@, p)]

\* Mutant: an exact signature needs no check.
AdmitsExact(d, q, typed) == q.ok /\ (Exact(d) \/ typed)
\* q: the property, ported; typed: the candidate with it passes the checker.
Admits(d, q, typed) == q.ok /\ typed

\* A monomorphic query cannot line up with a more general definition.
SkippedPoly(d) == query.tyvars = 0 /\ d.tyvars > 0 /\ Subsumes(d.ty, query.ty)

\* Mutant: the sentence about the world is printed for whatever was not found.
RenderedAnyway(res, complete) == res = <<>>
\* The only sentence about the world.
Rendered(res, complete) == res = <<>> /\ complete

AnyProven(res) == \E i \in DOMAIN res : \E j \in DOMAIN res[i] : res[i][j].status = "proven"

Finish(aborted, res) ==
    /\ phase' = "done" /\ goal' = NoGoal
    /\ results' = res
    /\ report' = [report EXCEPT !.aborted = aborted, !.hint = ~aborted /\ ~AnyProven(res) /\ report.excluded # {},
                                !.none = @ \cup IF Rendered(res[at.prop], ~aborted) THEN {at.prop} ELSE {}]

\* Checked before the fetch.
OutOfTime ==
    /\ mode = "implies" /\ phase = "scan" /\ at.name <= Len(corpus) /\ Late
    /\ Finish(TRUE, results)
    /\ UNCHANGED <<corpus, query, mode, budget, elapsed, at, demandVars>>

Scanning == mode = "implies" /\ phase = "scan" /\ at.name <= Len(corpus) /\ ~Late
Examined == [report EXCEPT !.examined = @ + 1]

\* GetDef or GetMeta failed, or this is not a function.
SkipUnread ==
    /\ Scanning
    /\ Now.hash \in Unreadable \/ ~IsFunc(Now.hash)
    /\ at' = NextName
    /\ UNCHANGED <<corpus, query, mode, budget, elapsed, phase, goal, results, report, demandVars>>

\* A candidate that cannot be asked is passed over; the goal remembers the checker's verdict.
Examine ==
    /\ Scanning /\ IsFunc(Now.hash)
    /\ \E d \in {Defs[Now.hash]} : \E q \in {Portable(d, query.props[at.prop])} :
       \E typed \in {q.ok /\ checkDef(augment(d, q.prop))} :
          IF Admits(d, q, typed)
          THEN /\ goal' = [def |-> d, prop |-> q.prop, typed |-> typed]
               /\ report' = Examined /\ phase' = "probe" /\ UNCHANGED at
          ELSE /\ report' = [Examined EXCEPT !.excluded = @ \cup IF SkippedPoly(d) THEN {Now.hash} ELSE {}]
               /\ at' = NextName /\ UNCHANGED <<goal, phase>>
    /\ UNCHANGED <<corpus, query, mode, budget, elapsed, results, demandVars>>

\* Outcomes of evaluating a property under every binding of a set.
OutcomeOf(r) == IF r.err # "" \/ r.v.k # "bool" THEN "limit" ELSE IF r.v.bool THEN "true" ELSE "false"
Outcomes(body, p, ints) ==
    {IF c = Lang!NoVal THEN "limit" ELSE OutcomeOf(Lang!Run(c.all, body, p.body)) :
        c \in UNION {Lang!genAll(p.binders, size, ints) : size \in GenSizes}}

probeVerdict(o) == IF "false" \in o THEN "falsified" ELSE IF "limit" \in o THEN "indeterminate" ELSE "none"
concreteProbe(body, p) == probeVerdict(Outcomes(body, p, ProbeInts))

\* The sampling loop looks at the clock too; cut short it decides nothing.
Probe ==
    /\ phase = "probe"
    /\ \E cut \in {FALSE} \cup (IF budget THEN {TRUE} ELSE {}) :
          /\ Late => cut
          /\ elapsed' = (elapsed \/ cut)
          /\ IF ~cut /\ concreteProbe(goal.def.body, goal.prop) = "falsified"
             THEN results' = Record("refuted") /\ at' = NextName /\ phase' = "scan" /\ goal' = NoGoal
             ELSE phase' = "probed" /\ UNCHANGED <<results, at, goal>>
    /\ UNCHANGED <<corpus, query, mode, budget, report, demandVars>>

\* No time left for a proof: this candidate is named, the rest is unreached.
OutOfTimeMidCandidate ==
    /\ phase = "probed" /\ Late
    /\ Finish(TRUE, Record("invalidated"))
    /\ UNCHANGED <<corpus, query, mode, budget, elapsed, at, demandVars>>

\* What a well-typed goal means, over all the bindings of the instance.
Meaning(body, p) == Outcomes(body, p, GenInts)

\* The prover: no claim against a well-typed goal's meaning; none valid once cut off.
soundClaims(o) ==
    {"unknown", "invalidated", "a later status"}
    \cup (IF o = {"true"} THEN {"proven"} ELSE {})
    \cup (IF "false" \in o THEN {"refuted"} ELSE {})
proveOne(g) ==
    IF Late THEN {"invalidated"}
    ELSE soundClaims(Meaning(g.def.body, g.prop))
         \cup (IF g.typed THEN {} ELSE {"proven", "refuted"})

\* Total; a status it does not know claims nothing.
classifyProofStatus(s) == IF s \in {"proven", "refuted", "unknown", "invalidated"} THEN s ELSE "unknown"

Prove ==
    /\ phase = "probed" /\ ~Late
    /\ phase' = "prove"
    /\ UNCHANGED <<corpus, query, mode, budget, elapsed, at, goal, results, report, demandVars>>

Classify ==
    /\ phase = "prove"
    /\ \E s \in proveOne(goal) : results' = Record(classifyProofStatus(s))
    /\ at' = NextName /\ phase' = "scan" /\ goal' = NoGoal
    /\ UNCHANGED <<corpus, query, mode, budget, elapsed, report, demandVars>>

\* All names examined: the next property, or the end.
NextProperty ==
    /\ mode = "implies" /\ phase = "scan" /\ at.name > Len(corpus)
    /\ IF at.prop < Len(query.props)
       THEN /\ at' = [prop |-> at.prop + 1, name |-> 1]
            /\ report' = [report EXCEPT !.none = @ \cup IF Rendered(results[at.prop], TRUE) THEN {at.prop} ELSE {}]
            /\ UNCHANGED <<phase, goal, results>>
       ELSE Finish(FALSE, results) /\ UNCHANGED at
    /\ UNCHANGED <<corpus, query, mode, budget, elapsed, demandVars>>

\* A shape query is only a signature; the others are elaborated and checked.
Start ==
    /\ phase = "query"
    /\ IF mode # "shape" /\ ~Answerable(query)
       THEN phase' = "refused" /\ UNCHANGED <<query, results>>
       ELSE /\ phase' = "scan"
            /\ query' = IF mode = "shape" THEN [query EXCEPT !.props = <<>>] @@ [ty |-> SigOf(query)]
                        ELSE elabFunc(query)
            /\ results' = [i \in DOMAIN query.props |-> <<>>]
    /\ UNCHANGED <<corpus, mode, budget, elapsed, at, goal, report, demandVars>>

-----------------------------------------------------------------------------
Init ==
    /\ corpus \in Corpora /\ query \in Queries
    /\ mode \in {"implies", "spec", "shape"}
    /\ budget \in BOOLEAN /\ (budget => mode = "implies")
    /\ elapsed = FALSE
    /\ at = [prop |-> 1, name |-> 1]
    /\ phase = "query" /\ goal = NoGoal /\ results = <<>>
    /\ report = [aborted |-> FALSE, examined |-> 0, excluded |-> {}, none |-> {}, listing |-> <<>>, near |-> 0,
                 hint |-> FALSE]
    /\ demand = NoDemand /\ misses = <<>>
    /\ loaded = [c \in Callers |-> NotLoaded]

Next ==
    \/ Start \/ Elapse
    \/ apiFindSpec \/ (\E c \in Callers : loadDemand(c) \/ recordMiss(c))
    \/ apiFindShape
    \/ OutOfTime \/ SkipUnread \/ Examine
    \/ Probe \/ OutOfTimeMidCandidate \/ Prove \/ Classify \/ NextProperty

Spec == Init /\ [][Next]_vars

-----------------------------------------------------------------------------
RECURSIVE Parts(_)
Parts(t) == {t} \cup CASE t.k = "fun" -> Parts(t.a) \cup Parts(t.b)
                      [] HasArgs(t) -> UNION {Parts(t.args[i]) : i \in DOMAIN t.args}
                      [] OTHER -> {}

\* Results are only ever appended to: what holds of the report held of every entry.
Answered == mode = "implies" /\ phase = "done"
LeafMaps == [Leaves -> {tInt, tRat, tBool} \cup {tVar(i) : i \in 0 .. MaxTyVars}]
Renamings == {m \in [Leaves -> {tInt, tRat, tBool}] : \A a, b \in Leaves : m[a] = m[b] => a = b}

\* A definition named as satisfying a query property has, for one replacement
\* of the primitive types, exactly the query's signature, and the property read
\* with the same replacement is well typed for it and true of it: neither the
\* widening to other operand types, nor aliases, phantom type parameters, the
\* budget or the samples make a hit of anything else.
HitsAreTrue ==
    Answered =>
    \A i \in DOMAIN results : \A j \in DOMAIN results[i] :
        results[i][j].status = "proven" =>
        LET d == Defs[results[i][j].hash]
            p == query.props[i]
        IN  \E m \in LeafMaps :
              /\ retypeTyBySub(m, query.ty) = d.ty
              /\ LET law == [binders |-> crossTypeRetypeBinders(p.binders, m),
                             body |-> crossTypeRetypeBody(p.body, m)]
                 IN  checkDef(augment(d, law)) /\ Meaning(d.body, law) = {"true"}

Askable(d, q) == q.ok /\ checkDef(augment(d, q.prop))

\* What the report says against definitions is earned.  A refuted one really
\* falsifies the property; "no definition provably satisfies this" is printed
\* only when no definition could have been asked, the hint about polymorphic
\* definitions when one has the query as an instance; and a report without the
\* abort banner has classified every definition that could be asked.
NegativesAreEarned ==
    Answered =>
    \A i \in DOMAIN results :
        \A askable \in {{e \in Range(corpus) : IsFunc(e.hash) /\ Askable(Defs[e.hash], Portable(Defs[e.hash], query.props[i]))}} :
            /\ \A j \in DOMAIN results[i] :
                  results[i][j].status = "refuted" =>
                  LET d == Defs[results[i][j].hash]
                  IN  "false" \in Meaning(d.body, Portable(d, query.props[i]).prop)
            /\ i \in report.none => askable = {}
            /\ report.hint => \E e \in Range(corpus) \ askable :
                  IsFunc(e.hash) /\ \E args \in [1 .. Defs[e.hash].tyvars -> Parts(query.ty)] :
                                        substTy(Defs[e.hash].ty, args) = query.ty
            /\ ~report.aborted =>
                  {e.name : e \in askable} = {results[i][j].name : j \in DOMAIN results[i]}

\* A query may leave its body out: the parameter that stands in for it is one
\* the name still refers to, so the query has the type it declares.
PlaceholderFits ==
    phase = "query" /\ query.body = NoBody /\ placeholders(query) # {} =>
        checkDef([elabFunc(query) EXCEPT !.props = <<>>])

\* find --spec lists a property exactly when it is the law up to a renaming of
\* the primitive types; it marks REFUTED no property that passed, even under a
\* name it shares with one that failed, leaves no failed property with a name
\* of its own unmarked, and lists the refuted ones last.
SpecListingRight ==
    mode = "spec" /\ phase = "done" =>
    \A i \in DOMAIN query.props :
        LET law == query.props[i]
            rows == report.listing[propHashGeneral(law)]
            sameLaw(p) == /\ p.body = law.body
                          /\ \E m \in Renamings : crossTypeRetypeBinders(law.binders, m) = p.binders
            listed == {<<rows[j].name, rows[j].prop>> : j \in DOMAIN rows}
            alone(m, n, k) == \A l \in 1 .. n : storedPropName(m, l) = storedPropName(m, k) => l = k
        IN  /\ listed = {<<e.name, k>> : <<e, k>> \in
                    {<<e, k>> \in {x \in Range(corpus) : IsFunc(x.hash)} \X (1 .. 3) :
                        k \in DOMAIN Defs[e.hash].props /\ sameLaw(Defs[e.hash].props[k])}}
            /\ \A j \in DOMAIN rows :
                  LET m == MetaOf(rows[j].hash)
                      k == rows[j].prop
                  IN  /\ rows[j].mark = "refuted" => k \in m.failing
                      /\ k \in m.failing /\ alone(m, Len(Defs[rows[j].hash].props), k) => rows[j].mark = "refuted"
                      /\ rows[j].mark = "refuted" =>
                            \A l \in DOMAIN rows : rows[l].mark # "refuted" => l < j

\* find --shape lists as "at this shape" exactly the definitions whose type is
\* the query's up to a renaming of primitive types, declared type variables
\* kept, and as more general exactly the others that have it as an instance.
ShapeListingRight ==
    mode = "shape" /\ phase = "done" =>
    \A e \in {x \in Range(corpus) : IsFunc(x.hash)} :
        LET d == Defs[e.hash]
            same == \E m \in Renamings : retypeTyBySub(m, d.ty) = query.ty
        IN  /\ e \in report.listing.atShape <=> same
            /\ e \in report.listing.moreGeneral <=>
                  /\ ~same /\ d.tyvars > 0
                  /\ \E args \in [1 .. d.tyvars -> Parts(query.ty)] : substTy(d.ty, args) = query.ty

\* The three ways to ask without a proof answer by what the corpus holds.
ListingsRight == PlaceholderFits /\ SpecListingRight /\ ShapeListingRight

\* Whichever way the corpus is asked, what the answer names is what was asked for.
AnswersAreTrue == HitsAreTrue /\ ListingsRight

\* What the comment on the reporting floor says: entries below it are still
\* counted.  Concurrent requests write over each other's counts.
EveryMissCounted ==
    (\A c \in Callers : loaded[c] = NotLoaded) => misses = demand
=============================================================================
