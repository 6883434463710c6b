------------------------------ MODULE ProveRun ------------------------------
(***************************************************************************)
(* One run of apiProveHash (oath/prove.go) over the laws of one definition. *)
(* Three loops: rounds until the recorded set reproduces itself, passes     *)
(* over the laws until no new one proves, and for each law the strategies   *)
(* of proveOneInner, one solver attempt after the other.  An attempt may    *)
(* end without an answer (wall cap, memory, a dead solver).                 *)
(*                                                                          *)
(* The solver is a function of script and budget.  `world` says what it     *)
(* answers; it is not monotone: `fam` holds the sets of sibling lemmas      *)
(* under which the strategy `via` discharges the law.  Lemmas of other      *)
(* definitions do not change during a run and are left out.                 *)
(***************************************************************************)
EXTENDS Naturals, FiniteSets, Sequences

CONSTANTS
    Law,            \* 1 .. n: indices of the definition's properties
    None,
    World,          \* what the solver may be like
    DtBinders,      \* law -> number of datatype binders
    Ctors,          \* constructors of a datatype: the subgoals of an induction
    Measure,        \* is the definition total by a measure?
    Capped,         \* does a budget cap make the reduced and full budgets equal?
    AbortLemmaFree, \* may the lemma-free attempt abort, too?
    LastRound,      \* the bound on rounds
    MaxAborts       \* bound: environmental aborts

(***************************************************************************)
(* What is taken of the solver and the tester: z3 discharges a false law    *)
(* only with the help of a false lemma, and a counterexample of the tester  *)
(* is one.  A datatype has a constructor (checkDef).                        *)
(***************************************************************************)
ASSUME SolverAssumption ==
    \A w \in World, p \in Law :
        /\ w[p].falsified => ~w[p].truth
        /\ ~w[p].truth => /\ w[p].via \notin {"lemma-free", "preview"}
                          /\ \A L \in w[p].fam : \E q \in L : ~w[q].truth

ASSUME ProveRunAssumption ==
    /\ IsFiniteSet(Law) /\ Law = 1 .. Cardinality(Law)
    /\ DtBinders \in [Law -> Nat]
    /\ Ctors \in Nat \ {0}
    /\ Measure \in BOOLEAN /\ Capped \in BOOLEAN /\ AbortLemmaFree \in BOOLEAN
    /\ LastRound \in Nat /\ MaxAborts \in Nat

VARIABLES
    world,
    recorded, level,    \* Meta on the backend: proven laws, guarantee level
    cached,             \* ProvenProps of the cached Meta, which the run edits in place
    indeterminate,      \* did the tester leave laws undecided?
    pc, round,
    standing,           \* origProven: the set at the start of the round
    provenSet, withheld, aborted,
    lastEpoch, epoch,   \* epoch of each law's last attempt (0: none), current epoch
    progress, pi,       \* did this pass prove something; the law at hand
    group, sub, phase,  \* position in its strategies
    sawInvalid, directAborted,
    solved,             \* valid answers of this law's execution, by key
    tainted,            \* ghost: laws with an invalid attempt in their last execution
    aborts

vars == <<world, recorded, level, cached, indeterminate, pc, round, standing, provenSet, withheld,
          aborted, lastEpoch, epoch, progress, pi, group, sub, phase, sawInvalid,
          directAborted, solved, tainted, aborts>>

record == <<world, recorded, level, cached, indeterminate>>
passes == <<round, standing, provenSet, withheld, aborted, lastEpoch, epoch, progress, pi>>
search == <<group, sub, phase, sawInvalid, directAborted, solved>>

-----------------------------------------------------------------------------
(* Strategies. *)

inductionEligible(p) == DtBinders[p] > 0

budget(strategy, p) ==
    CASE Capped -> "reduced"
      [] strategy \in {"lemma-free", "recursion"} -> "reduced"
      [] strategy = "direct" /\ inductionEligible(p) -> "reduced"
      [] OTHER -> "full"

\* The strategies of proveOneInner, each with its number of subgoals: structural induction
\* on each datatype binder, on each ordered pair of them, and along the body's recursion.
induction(p) == [i \in 1 .. DtBinders[p] |-> [strategy |-> "induction", subgoals |-> Ctors]]

lexicographic(p) ==
    [i \in 1 .. DtBinders[p] * (DtBinders[p] - 1) |->
        [strategy |-> "lexicographic", subgoals |-> Ctors * Ctors]]

recursion == IF Measure THEN <<[strategy |-> "recursion", subgoals |-> 2]>> ELSE <<>>

directFallback(p) ==
    IF inductionEligible(p) THEN <<[strategy |-> "direct-fallback", subgoals |-> 1]>> ELSE <<>>

groups(p) ==
    <<[strategy |-> "lemma-free", subgoals |-> 1], [strategy |-> "direct", subgoals |-> 1]>>
    \o induction(p) \o lexicographic(p) \o recursion \o directFallback(p)

Strategy == groups(pi)[group].strategy

\* The admissible sibling lemmas: recorded or proven in this round, never the law itself.
siblingLemmas(p) == (cached \cup provenSet) \ {p}

WholeGoal == Strategy \in {"lemma-free", "direct", "direct-fallback"}

\* The script of an attempt, as far as two attempts can share it, and its budget.
solveKey ==
    [goal   |-> IF WholeGoal THEN <<0, 0, "direct">> ELSE <<group, sub, phase>>,
     lemmas |-> IF Strategy = "lemma-free" \/ phase = "preview" THEN {} ELSE siblingLemmas(pi),
     budget |-> budget(Strategy, pi)]

\* What z3 answers, given the key.
answer ==
    LET w == world[pi]
        fits == solveKey.lemmas \in w.fam
        wins == \/ w.via = "lemma-free" /\ WholeGoal /\ solveKey.lemmas = {}
                \/ w.via = "direct" /\ WholeGoal /\ fits
                \/ w.via = "direct-fallback" /\ WholeGoal
                     /\ solveKey.budget = "full" /\ fits
                \/ w.via = "preview" /\ phase = "preview"
                \/ w.via = Strategy /\ ~WholeGoal
                     /\ phase = "attempt" /\ fits
    IN  CASE wins -> "unsat"
          [] ~wins /\ ~w.truth /\ ~w.quantified /\ WholeGoal -> "sat"
          [] OTHER -> "unknown"

-----------------------------------------------------------------------------
(* The run. *)

Fresh ==
    /\ group' = 1 /\ sub' = 1 /\ phase' = "attempt"
    /\ sawInvalid' = FALSE /\ directAborted' = FALSE /\ solved' = {}

RoundStart(set) ==
    /\ standing' = set
    /\ provenSet' = {} /\ withheld' = {} /\ aborted' = {}
    /\ lastEpoch' = [p \in Law |-> 0] /\ epoch' = 1
    /\ progress' = FALSE /\ pi' = 1

Init ==
    /\ world \in World
    /\ recorded \in SUBSET {p \in Law : world[p].truth}
    /\ level \in {"tested", "proven", "asserted"}
    /\ indeterminate \in BOOLEAN
    /\ level = "asserted" => indeterminate
    /\ cached = recorded
    /\ pc = "pass" /\ round = 0
    /\ standing = recorded /\ provenSet = {} /\ withheld = {} /\ aborted = {}
    /\ lastEpoch = [p \in Law |-> 0] /\ epoch = 1 /\ progress = FALSE /\ pi = 1
    /\ group = 1 /\ sub = 1 /\ phase = "attempt"
    /\ sawInvalid = FALSE /\ directAborted = FALSE /\ solved = {}
    /\ tainted = {} /\ aborts = 0

\* Mutant: an attempted law is never tried again in the round.
GatedOnce(p) == p \in provenSet \cup withheld \/ lastEpoch[p] # 0

\* Proven, withheld, or no lemma appeared since the last attempt.
Gated(p) == p \in provenSet \cup withheld \/ lastEpoch[p] = epoch

\* The pass goes over law pi.
Skip ==
    /\ pc = "pass" /\ pi \in Law /\ Gated(pi)
    /\ pi' = pi + 1
    /\ UNCHANGED <<record, pc, round, standing, provenSet, withheld, aborted, lastEpoch,
                   epoch, progress, search, tainted, aborts>>

StartLaw ==
    /\ pc = "pass" /\ pi \in Law /\ ~Gated(pi)
    /\ pc' = "solve"
    /\ Fresh
    /\ tainted' = tainted \ {pi}
    /\ UNCHANGED <<record, passes, aborts>>

\* What apiProveHash does with the outcome of proveOne.
Outcome(status) ==
    /\ pc' = "pass"
    /\ pi' = pi + 1
    /\ lastEpoch' = [lastEpoch EXCEPT ![pi] = epoch]
    /\ CASE status = "invalidated" ->
              /\ aborted' = aborted \cup {pi}
              /\ UNCHANGED <<provenSet, withheld, epoch, progress>>
         [] status = "proven" /\ world[pi].falsified ->
              /\ withheld' = withheld \cup {pi}
              /\ UNCHANGED <<provenSet, aborted, epoch, progress>>
         [] status = "proven" /\ ~world[pi].falsified ->
              /\ provenSet' = provenSet \cup {pi}
              /\ aborted' = aborted \ {pi}
              /\ progress' = TRUE
              /\ epoch' = epoch + 1
              /\ UNCHANGED withheld
         [] OTHER -> UNCHANGED <<provenSet, withheld, aborted, epoch, progress>>
    /\ Fresh
    /\ UNCHANGED <<record, round, standing>>

\* The next attempt; induction tries the instantiated subgoal first.
Attempt(g, s, ph, invalid, direct, answers) ==
    /\ group' = g /\ sub' = s /\ phase' = ph
    /\ sawInvalid' = invalid /\ directAborted' = direct /\ solved' = answers
    /\ UNCHANGED <<record, passes, pc>>

FirstPhase(g) == IF groups(pi)[g].strategy = "induction" THEN "preview" ELSE "attempt"

\* On to the next strategy, or to the verdict when there is none.
GiveUp(invalid, direct, answers) ==
    LET next == group + 1
        last == next > Len(groups(pi))
        redundant == ~last /\ groups(pi)[next].strategy = "direct-fallback" /\ ~direct /\ Capped
    IN  IF last \/ redundant
        THEN Outcome(IF invalid THEN "invalidated" ELSE "unknown")
        ELSE Attempt(next, 1, FirstPhase(next), invalid, direct, answers)

\* A valid answer, remembered for this execution of the law's strategies.
Solve ==
    LET answers == solved \cup {solveKey}
    IN  /\ pc = "solve"
        /\ CASE answer = "unsat" /\ sub = groups(pi)[group].subgoals -> Outcome("proven")
             [] answer = "unsat" /\ sub < groups(pi)[group].subgoals ->
                  Attempt(group, sub + 1, FirstPhase(group), sawInvalid, directAborted, answers)
             [] answer = "sat" /\ Strategy \in {"direct", "direct-fallback"} -> Outcome("refuted")
             [] answer # "unsat" /\ phase = "preview" ->
                  Attempt(group, sub, "attempt", sawInvalid, directAborted, answers)
             [] OTHER -> GiveUp(sawInvalid, directAborted, answers)
        /\ UNCHANGED <<tainted, aborts>>

\* An environmental abort; that of the optional instantiated attempt is deliberately not
\* an invalid attempt, that of the lemma-free one is not counted either.  A remembered answer cannot be lost to one.
Abort ==
    /\ pc = "solve"
    /\ aborts < MaxAborts
    /\ solveKey \notin solved
    /\ Strategy = "lemma-free" => AbortLemmaFree
    /\ aborts' = aborts + 1
    /\ tainted' = IF phase = "preview" THEN tainted ELSE tainted \cup {pi}
    /\ CASE phase = "preview" -> Attempt(group, sub, "attempt", sawInvalid, directAborted, solved)
         [] Strategy = "lemma-free" -> GiveUp(sawInvalid, directAborted, solved)
         [] OTHER -> GiveUp(TRUE, directAborted \/ Strategy = "direct", solved)

EndPass ==
    /\ pc = "pass" /\ pi \notin Law
    /\ progress
    /\ progress' = FALSE /\ pi' = 1
    /\ UNCHANGED <<record, pc, round, standing, provenSet, withheld, aborted, lastEpoch,
                   epoch, search, tainted, aborts>>

\* Mutant: an aborted law counts as proven.
newIdxAborted == provenSet \cup aborted

\* Mutant: a law without a verdict loses its standing proof.
newIdxFresh == provenSet

newIdx == provenSet \cup (aborted \cap standing)

\* provenPropsAtRunStart: the run must leave no provisional set in the cache.
FailedCache == recorded

promotableToProven == level \in {"tested", "proven"} \/ (level = "asserted" /\ indeterminate)

\* Promoted and demoted from the current result.
guaranteeLevel ==
    CASE newIdx = Law /\ promotableToProven -> "proven"
      [] newIdx # Law /\ level = "proven" -> IF indeterminate THEN "asserted" ELSE "tested"
      [] OTHER -> level

EndRound ==
    /\ pc = "pass" /\ pi \notin Law
    /\ ~progress
    /\ IF newIdx = cached
       THEN /\ pc' = "done"
            /\ recorded' = newIdx /\ cached' = newIdx /\ level' = guaranteeLevel
            /\ UNCHANGED <<round, standing, provenSet, withheld, aborted, lastEpoch, epoch, progress, pi>>
       ELSE IF round >= LastRound
       THEN /\ pc' = "failed"
            /\ cached' = FailedCache
            /\ UNCHANGED <<recorded, level, round, standing, provenSet, withheld, aborted,
                           lastEpoch, epoch, progress, pi>>
       ELSE /\ cached' = newIdx
            /\ round' = round + 1
            /\ RoundStart(newIdx)
            /\ UNCHANGED <<recorded, level, pc>>
    /\ UNCHANGED <<world, indeterminate, search, aborts>>
    /\ tainted' = IF pc' = "pass" THEN {} ELSE tainted

Next == Skip \/ StartLaw \/ Solve \/ Abort \/ EndPass \/ EndRound

Spec == Init /\ [][Next]_vars /\ WF_vars(Next)

-----------------------------------------------------------------------------
TypeOK ==
    /\ {recorded, cached, standing, provenSet, withheld, aborted, tainted} \subseteq SUBSET Law
    /\ provenSet \cap (withheld \cup aborted) = {}
    /\ pc \in {"pass", "solve", "done", "failed"}
    /\ pc = "solve" => pi \in Law /\ group \in 1 .. Len(groups(pi)) /\ sub <= groups(pi)[group].subgoals
    /\ epoch = Cardinality(provenSet) + 1
    /\ standing = cached \/ pc \in {"done", "failed"}

(***************************************************************************)
(* Soundness of what is recorded: from a record of true laws a run makes a  *)
(* record of true laws, whatever order laws prove in, which lemmas they     *)
(* lean on and which attempts abort; and "proven" is never advertised over  *)
(* an incomplete proven set (apiProveHash, SPEC 7.2 and 5).                 *)
(***************************************************************************)
RecordedIsEarned ==
    /\ \A p \in recorded \cup cached : world[p].truth
    /\ pc = "done" /\ level = "proven" => recorded = Law

(***************************************************************************)
(* SPEC 7.2: a property "recorded UNPROVEN while any of its strategy        *)
(* attempts was invalid has no valid negative verdict" and "its STANDING    *)
(* VERDICT stands UNCHANGED": no round drops a standing proof of a law whose *)
(* last execution had an aborted attempt.                                   *)
(***************************************************************************)
NoEnvironmentalDemotion ==
    [][round' # round => tainted \cap standing \subseteq cached']_vars
-----------------------------------------------------------------------------
(* The reference for the lemma-growth gate: every law is tried on every pass. *)

\* Does an execution of p's strategies that nothing aborts discharge it from these lemmas?
Discharges(w, p, lemmas) ==
    \/ w[p].via = "lemma-free"
    \/ w[p].via = "direct" /\ {} \in w[p].fam
    \/ w[p].via = "preview" /\ inductionEligible(p)
    \/ /\ lemmas \in w[p].fam
       /\ \/ w[p].via \in {"direct", "direct-fallback"}
          \/ \E g \in DOMAIN groups(p) : groups(p)[g].strategy = w[p].via

NaiveStep(w, stood, p, got) ==
    IF p \notin got /\ ~w[p].falsified /\ Discharges(w, p, (stood \cup got) \ {p})
    THEN got \cup {p} ELSE got

\* What is proven after each law of a pass that begins with `got`.
NaivePass(w, stood, got) ==
    LET after[p \in 0 .. Cardinality(Law)] ==
          IF p = 0 THEN got ELSE NaiveStep(w, stood, p, after[p - 1])
    IN  after

\* What is proven after each pass; a pass that adds nothing ends it, so as many passes as
\* there are laws are enough.
NaivePasses(w, stood) ==
    LET after[k \in 0 .. Cardinality(Law)] ==
          IF k = 0 THEN {} ELSE NaivePass(w, stood, after[k - 1])[Cardinality(Law)]
    IN  after

(***************************************************************************)
(* The lemma-growth gate is "outcome-identical to naive iteration": a round *)
(* without aborts proves what re-attempting every law on every pass would   *)
(* (apiProveHash, the epoch test at the head of its inner loop).            *)
(***************************************************************************)
GatingIsHarmless ==
    pc = "pass" /\ pi \notin Law /\ ~progress /\ aborts = 0 /\ ~Capped
      => provenSet = NaivePasses(world, standing)[Cardinality(Law)]
=============================================================================
