----------------------------- MODULE Guarantees -----------------------------
(***************************************************************************)
(* The life of one definition in the kernel: admission (admitPut: the gate, *)
(* the properties' tests, the analyses), later verification, proof runs,    *)
(* mutation scoring with survivor adjudication, and waivers (oath/verify.go,*)
(* oath/mutate.go, oath/adjudicate.go).  A mutant is its body: content      *)
(* addressing.  The case draws of a definition are fixed by its hash; here  *)
(* they are all the bindings the generator reaches.  The prover's outcome   *)
(* is any subset of what the solver can conclude (ProveRun has the rounds). *)
(***************************************************************************)
EXTENDS Analyses

CONSTANTS
    Programs,       \* [ty, body, props], props a sequence of [binders, body]
    MaxWaivers      \* bound: waivers recorded

VARIABLES
    def,            \* the definition submitted
    phase,          \* put | rejected | stored
    meta,           \* its metadata
    report          \* what the last operation said

vars == <<selfTy, def, phase, meta, report>>

NoMeta == [level |-> "none", falsified |-> {}, indeterminate |-> {}, proven |-> {},
           termination |-> "", confinement |-> <<>>, killed |-> 0, total |-> 0, waived |-> {}, campaign |-> {}]
NoReport == [refuted |-> {}, survivors |-> {}]

-----------------------------------------------------------------------------
(* Testing. *)

\* One property over its cases: only an evaluated false refutes.
caseOutcome(r) ==
    IF r.err # "" \/ r.v.k # "bool" THEN "indeterminate" ELSE IF r.v.bool THEN "passed" ELSE "falsified"

worst(outcomes) ==
    IF "falsified" \in outcomes THEN "falsified"
    ELSE IF "indeterminate" \in outcomes THEN "indeterminate" ELSE "passed"

runProp(body, p) ==
    worst({IF c = NoVal THEN "indeterminate" ELSE caseOutcome(Run(c.all, body, p.body)) : c \in genPropCase(p.binders)})

verifyReports(d) == [i \in DOMAIN d.props |-> runProp(d.body, d.props[i])]

guaranteeFromReports(reports) ==
    LET with(outcome) == {i \in DOMAIN reports : reports[i] = outcome}
    IN  [level |-> CASE reports = <<>> -> "asserted"
                     [] with("falsified") # {} -> "falsified"
                     [] with("indeterminate") # {} -> "asserted"
                     [] OTHER -> "tested",
         falsified |-> with("falsified"), indeterminate |-> with("indeterminate")]

resolveLevel(computed, prev, allProven) ==
    CASE computed = "falsified" -> "falsified"
      [] prev = "proven" /\ allProven -> "proven"
      [] OTHER -> computed

recordVerdict(d, m, g) ==
    LET allProven == d.props # <<>> /\ m.proven = DOMAIN d.props
        level == resolveLevel(g.level, m.level, allProven)
    IN  [m EXCEPT !.level = level, !.falsified = g.falsified, !.indeterminate = g.indeterminate,
                  !.proven = IF level = "falsified" THEN {} ELSE @]

verifyDef(d, m) == recordVerdict(d, m, guaranteeFromReports(verifyReports(d)))

-----------------------------------------------------------------------------
(* Proving: external solver. *)

\* The functions with an asserted equation: those classified total.
Library == {Defs[h].body : h \in {g \in DOMAIN Defs : Defs[g].k = "func"}}
Equations(body, verdict) ==
    {b \in Library : isTotal(terminationOf(b))} \cup (IF isTotal(verdict) THEN {body} ELSE {})

RECURSIVE MentionsFn(_, _)
MentionsFn(e, eqns) ==
    \/ e.e = "fn" /\ e.body \in eqns
    \/ "args" \in DOMAIN e /\ \E i \in DOMAIN e.args : MentionsFn(e.args[i], eqns)

\* What the solver says of a property, given the functions with an equation: a model that
\* refutes is believed only when no quantified axiom was asserted.
solverSays(p, f, eqns) ==
    IF f = NoExpr THEN "unknown"
    ELSE IF valid(p.binders, {}, f, eqns) THEN "proved"
    ELSE IF MentionsFn(f, eqns) THEN "unknown" ELSE "refuted"
proveOne(body, p, eqns) == solverSays(p, formulaWith(p, body), eqns)

-----------------------------------------------------------------------------
(* Mutation. *)

RECURSIVE Paths(_)
Paths(t) == {<<>>} \cup UNION {{<<i>> \o p : p \in Paths(t.kids[i])} : i \in DOMAIN t.kids}
RECURSIVE TermAt(_, _)
TermAt(t, p) == IF p = <<>> THEN t ELSE TermAt(t.kids[Head(p)], Tail(p))
RECURSIVE Replace(_, _, _)
Replace(t, p, u) == IF p = <<>> THEN u ELSE [t EXCEPT !.kids[Head(p)] = Replace(@, Tail(p), u)]

opMutations(op) ==
    CASE op = "+" -> {"-"} [] op = "-" -> {"+"} [] op = "*" -> {"+"} [] op = "/" -> {"*"} [] op = "%" -> {"/"}
      [] op = "<" -> {"<="} [] op = "<=" -> {"<"} [] op = "and" -> {"or"} [] op = "or" -> {"and"} [] OTHER -> {}
swappablePrims == {"-", "/", "%", "<", "<="}

SwapKids(n, i, j) == [n EXCEPT !.kids[i] = n.kids[j], !.kids[j] = n.kids[i]]

nodeMutants(n) ==
    LET sp == spine(n, <<>>)
        k == Len(n.kids)
    IN  CASE n.k = "prim" ->
               {[n EXCEPT !.op = o] : o \in opMutations(n.op)}
               \cup (IF n.op \in swappablePrims /\ k = 2 THEN {SwapKids(n, 1, 2)} ELSE {})
          [] n.k = "int" -> {[n EXCEPT !.int = v] : v \in {n.int + 1, n.int - 1, 0} \ {n.int}}
          [] n.k = "if" -> {SwapKids(n, 2, 3)}
          [] n.k = "app" ->
               (IF n.kids[1].k = "app"
                THEN {[n EXCEPT !.kids[2] = n.kids[1].kids[2], !.kids[1].kids[2] = n.kids[2]]} ELSE {})
               \cup (IF sp.head.k = "self" THEN {sp.args[i].t : i \in DOMAIN sp.args} ELSE {})
          [] n.k = "ctor" -> {SwapKids(n, i, i + 1) : i \in 1 .. k - 1}
          [] n.k = "match" ->
               {SwapKids(n, p[1], p[2]) : p \in {q \in (2 .. k) \X (2 .. k) : q[1] < q[2]}}
               \cup {n.kids[i + 1] : i \in {j \in 1 .. k - 1 : ArmFields(n, j) = 0}}
          [] OTHER -> {}

genMutants(d) ==
    {b \in UNION {{Replace(d.body, p, u) : u \in nodeMutants(TermAt(d.body, p))} : p \in Paths(d.body)} :
        b # d.body /\ checkDef([d EXCEPT !.body = b])}

\* Only a refutation kills; "no verdict" is told apart from "survived".
mutantKiller(d, b) ==
    LET r == verifyReports([d EXCEPT !.body = b])
    IN  CASE worst({r[i] : i \in DOMAIN r}) = "falsified" -> "killed"
          [] worst({r[i] : i \in DOMAIN r}) = "indeterminate" -> "no-verdict"
          [] OTHER -> "survived"

\* The metadata the prover sees for a mutant: no proofs, its own termination.
mutantMeta(d, b) == terminationOf(b)

\* What the solver says of the properties the original was proved to satisfy.
verdictOnProven(says) ==
    CASE says = {} -> "no-proven-props"
      [] "refuted" \in says -> "proof-refuted"
      [] "unknown" \in says -> "no-verdict"
      [] OTHER -> "holds"

proveMutant(d, b, verdict) ==
    verdictOnProven({proveOne(b, d.props[i], Equations(b, verdict)) : i \in meta.proven})

\* Mutant: a survivor without a termination verdict goes to the solver too.
adjudicateSurvivorAny(d, b, verdict) == proveMutant(d, b, verdict)

adjudicateSurvivor(d, b, verdict) ==
    IF meta.proven # {} /\ ~isTotal(verdict) THEN "non-total" ELSE proveMutant(d, b, verdict)

-----------------------------------------------------------------------------
Init ==
    /\ def \in Programs
    /\ selfTy = def.ty
    /\ phase = "put"
    /\ meta = NoMeta
    /\ report = NoReport

\* admitPut, the kernel's part.
Reject ==
    /\ phase = "put"
    /\ ~checkDef(def)
    /\ phase' = "rejected"
    /\ UNCHANGED <<selfTy, def, meta, report>>

Put ==
    /\ phase = "put"
    /\ checkDef(def)
    /\ phase' = "stored"
    /\ meta' = [verifyDef(def, NoMeta) EXCEPT !.termination = terminationOf(def.body),
                                              !.confinement = confinementOf(def.body)]
    /\ UNCHANGED <<selfTy, def, report>>

Verify ==
    /\ phase = "stored"
    /\ meta' = verifyDef(def, meta)
    /\ report' = NoReport
    /\ UNCHANGED <<selfTy, def, phase>>

promotableToProven(m) == m.level \in {"tested", "proven"} \/ (m.level = "asserted" /\ m.indeterminate # {})

\* The run keeps the proofs it found: a timeout may lose any of them.
Prove ==
    /\ phase = "stored"
    /\ def.props # <<>>
    /\ \E says \in {[i \in DOMAIN def.props |-> proveOne(def.body, def.props[i], Equations(def.body, meta.termination))]} :
       \E S \in SUBSET {i \in DOMAIN says : says[i] = "proved"} :
          LET allProven == S = DOMAIN def.props
              level == CASE allProven /\ promotableToProven(meta) -> "proven"
                         [] ~allProven /\ meta.level = "proven" ->
                              (IF meta.indeterminate # {} THEN "asserted" ELSE "tested")
                         [] OTHER -> meta.level
          IN  /\ meta' = [meta EXCEPT !.proven = S, !.level = level]
              /\ report' = [NoReport EXCEPT !.refuted = {i \in DOMAIN says : says[i] = "refuted"}]
    /\ UNCHANGED <<selfTy, def, phase>>

\* apiMutateHashOpt: scores, and with adjudicate classifies the survivors.
Mutate(adjudicate) ==
    /\ phase = "stored"
    /\ def.props # <<>>
    /\ \E muts \in {genMutants(def)} :
       \E killed \in {{b \in muts : mutantKiller(def, b) = "killed"}} :
          LET kind(b) == CASE b \in meta.waived -> "equivalent"
                           [] adjudicate -> adjudicateSurvivor(def, b, mutantMeta(def, b))
                           [] OTHER -> "unadjudicated"
          IN  /\ muts # {}
              /\ meta' = [meta EXCEPT !.killed = Cardinality(killed), !.total = Cardinality(muts),
                                      !.campaign = meta.waived]
              /\ report' = [NoReport EXCEPT !.survivors = {[body |-> b, kind |-> kind(b)] : b \in muts \ killed}]
    /\ UNCHANGED <<selfTy, def, phase>>

Waive ==
    /\ phase = "stored"
    /\ Cardinality(meta.waived) < MaxWaivers
    /\ \E b \in genMutants(def) :
          /\ mutantKiller(def, b) # "killed"
          /\ b \notin meta.waived
          /\ meta' = [meta EXCEPT !.waived = @ \cup {b}]
    /\ report' = NoReport
    /\ UNCHANGED <<selfTy, def, phase>>

Next == Reject \/ Put \/ Verify \/ Prove \/ (\E a \in BOOLEAN : Mutate(a)) \/ Waive

Spec == Init /\ [][Next]_vars

-----------------------------------------------------------------------------
(* Properties. *)

\* Parameters, applied one by one to a binding of them.
RECURSIVE ApplyAll(_, _)
ApplyAll(r, args) == IF args = <<>> \/ r.err # "" THEN r ELSE ApplyAll(apply(r.v, Head(args), 1, r.fuel), Tail(args))
Call(args) == ApplyAll(Means(<<>>, def.body, def.body), args)
Inputs == {c \in genPropCase(Params(def.body)) : c # NoVal}

RECURSIVE HasTy(_, _)
HasTy(v, ty) ==
    CASE ty.k = "fun" -> v.k \in {"closure", "native"}
      [] ty.k = "record" -> v.k = "record" /\ v.names = ty.names
                            /\ \A i \in DOMAIN v.fields : HasTy(v.fields[i], ty.args[i])
      [] ty.k = "data" -> /\ v.k = "data" /\ v.hash = ty.hash
                          /\ LET fs == instCtorFields(ty.hash, ty.args, v.idx)
                             IN  Len(fs) = Len(v.fields) /\ \A i \in DOMAIN fs : HasTy(v.fields[i], fs[i])
      [] OTHER -> v.k = ty.k

(***************************************************************************)
(* A definition the gate accepts never gets stuck: on every generated input *)
(* it yields a value of its declared type, or stops for fuel, depth or a    *)
(* zero divisor.  The erased evaluator relies on the checker for this.      *)
(***************************************************************************)
WellTypedRuns ==
    phase = "stored" =>
        \A c \in Inputs : LET r == Call(c.all)
                          IN  IF r.err = "" THEN HasTy(r.v, ResultTy(def.ty, Len(c.all)))
                              ELSE r.err \in {"fuel", "depth", "zero"}

(***************************************************************************)
(* A definition classified total (structural descent, a ranking function,   *)
(* or no recursion) ends on every input: the prover asserts its equation on *)
(* the strength of this verdict alone.                                      *)
(***************************************************************************)
TotalEnds ==
    phase = "stored" /\ isTotal(meta.termination) =>
        \A c \in Inputs : Call(c.all).err \notin {"fuel", "depth"}

RECURSIVE FreeIn(_, _)
FreeIn(t, idx) ==
    CASE t.k = "var" -> t.idx = idx
      [] t.k = "lam" -> FreeIn(t.kids[1], idx + 1)
      [] t.k = "let" -> FreeIn(t.kids[1], idx) \/ FreeIn(t.kids[2], idx + 1)
      [] t.k = "match" -> \/ FreeIn(t.kids[1], idx)
                          \/ \E i \in 1 .. Len(t.kids) - 1 : FreeIn(t.kids[i + 1], idx + ArmFields(t, i))
      [] OTHER -> \E i \in DOMAIN t.kids : FreeIn(t.kids[i], idx)

\* A generated function is reachable from the value.
RECURSIVE Holds(_)
Holds(v) ==
    CASE v.k = "native" -> TRUE
      [] v.k \in {"data", "record"} -> \E i \in DOMAIN v.fields : Holds(v.fields[i])
      [] v.k = "closure" -> \E i \in DOMAIN v.env : FreeIn(v.lam, Len(v.env) - i) /\ Holds(v.env[i])
      [] OTHER -> FALSE

(***************************************************************************)
(* A function whose only higher-order parameter is judged confined keeps    *)
(* nothing of it: no value derived from the capability is reachable from    *)
(* what it returns.                                                         *)
(***************************************************************************)
ConfinedKeepsNothing ==
    LET tys == Params(def.body)
        higher == {i \in DOMAIN tys : tyHasFun(tys[i])}
    IN  phase = "stored" /\ Cardinality(higher) = 1 /\ (\A i \in higher : meta.confinement[i] = "confined") =>
            \A c \in Inputs : LET r == Call(c.all) IN r.err = "" => ~Holds(r.v)

(***************************************************************************)
(* The SMT translation says what the evaluator does: where a body over its  *)
(* parameters evaluates to a value, its translation has that value in the   *)
(* same model or is left open.                                              *)
(***************************************************************************)
TranslationFaithful ==
    LET tys == Params(def.body)
        e == tr(StripLam(def.body), [i \in DOMAIN tys |-> eVar(i)], def.body, {})
    IN  phase = "stored" /\ e # NoExpr =>
            \A m \in Models(tys) :
                LET r == Means(m.all, def.body, StripLam(def.body))
                    s == smtEval(e, m.all, Equations(def.body, meta.termination))
                IN  r.err = "" => (HasSym(s) \/ s = r.v)

Evaluates(p, outcome) == \E c \in Models(p.binders) : Means(c.all, def.body, p.body).v = outcome

(***************************************************************************)
(* The recorded level is honest: "falsified" exactly when some input drawn  *)
(* refutes a property, no refuted property is recorded as proven, and       *)
(* "proven" has a proof of every property and no input, drawn or not, that  *)
(* refutes one.                                                             *)
(***************************************************************************)
LevelIsHonest ==
    LET falseOn(p) == \E c \in genPropCase(p.binders) : c # NoVal /\ Run(c.all, def.body, p.body).v = vBool(FALSE)
    IN  /\ meta.falsified \cap meta.proven = {}
        /\ phase = "stored" => ((meta.level = "falsified") <=> \E i \in DOMAIN def.props : falseOn(def.props[i]))
        /\ meta.level = "proven" => /\ meta.proven = DOMAIN def.props
                                    /\ \A i \in DOMAIN def.props : ~Evaluates(def.props[i], vBool(FALSE))

(***************************************************************************)
(* A survivor reported as refuted by proof really is excluded: on some      *)
(* input the mutant does not satisfy a property the original was proved to  *)
(* satisfy.                                                                 *)
(***************************************************************************)
AdjudicationHonest ==
    \A s \in report.survivors :
        s.kind = "proof-refuted" =>
            \E i \in meta.proven : \E c \in Models(def.props[i].binders) :
                Means(c.all, s.body, def.props[i].body).v # vBool(TRUE)

(***************************************************************************)
(* What is recorded and reported of a definition (its level, its proofs,    *)
(* the fate of its mutants) is true of the program.                         *)
(***************************************************************************)
VerdictsAreHonest == LevelIsHonest /\ AdjudicationHonest

(***************************************************************************)
(* A property reported refuted by the prover is not true of the program:    *)
(* some input makes it evaluate to something other than true (apiProveHash  *)
(* prints a counterexample).                                                *)
(***************************************************************************)
RefutationIsReal ==
    \A i \in report.refuted :
        \E c \in Models(def.props[i].binders) : Means(c.all, def.body, def.props[i].body).v # vBool(TRUE)

(***************************************************************************)
(* A proven property can be run: on every input it evaluates to true.       *)
(***************************************************************************)
ProvenIsRunnable ==
    \A i \in meta.proven : \A c \in Models(def.props[i].binders) :
        Means(c.all, def.body, def.props[i].body).v = vBool(TRUE)
=============================================================================
