--------------------------- MODULE ProveRunProofs ---------------------------
(***************************************************************************)
(* Machine-checked proofs about ProveRun: for every number of laws, every   *)
(* sound solver, every shape of their strategies and any number of aborted  *)
(* attempts.                                                                *)
(***************************************************************************)
EXTENDS ProveRun, NumberFacts, FiniteSetTheorems, TLAPS

-----------------------------------------------------------------------------
(* The strategies of a law are a sequence of groups with subgoals. *)

StrategyName ==
    {"lemma-free", "direct", "induction", "lexicographic", "recursion", "direct-fallback"}

Group == [strategy : StrategyName, subgoals : Nat \ {0}]

LEMMA PairTyped ==
    ASSUME NEW S, NEW x \in S, NEW y \in S
    PROVE  <<x, y>> \in Seq(S) /\ Len(<<x, y>>) = 2
OBVIOUS

LEMMA RepeatTyped ==
    ASSUME NEW S, NEW x \in S, NEW n \in Nat
    PROVE  [i \in 1 .. n |-> x] \in Seq(S)
OBVIOUS

LEMMA ConcatTyped ==
    ASSUME NEW S, NEW s \in Seq(S), NEW t \in Seq(S)
    PROVE  s \o t \in Seq(S) /\ Len(s \o t) = Len(s) + Len(t)
OBVIOUS

LEMMA OptionTyped ==
    ASSUME NEW S, NEW x \in S, NEW b
    PROVE  (IF b THEN <<x>> ELSE <<>>) \in Seq(S)
OBVIOUS

\* The number of ordered pairs of a law's datatype binders.
LEMMA PairsTyped == ASSUME NEW n \in Nat PROVE n * (n - 1) \in Nat
<1>1. CASE n = 0
  BY <1>1
<1>2. CASE n # 0
  <2>1. n - 1 \in Nat
    BY <1>2
  <2>2. \A i, j \in Nat : i * j \in Nat
    OBVIOUS
  <2> QED
    BY <2>1, <2>2
<1> QED
  BY <1>1, <1>2

\* The strategies of a law, each in its own sequence.
LEMMA PiecesTyped ==
    ASSUME NEW p \in Law
    PROVE  /\ <<[strategy |-> "lemma-free", subgoals |-> 1], [strategy |-> "direct", subgoals |-> 1]>> \in Seq(Group)
           /\ induction(p) \in Seq(Group) /\ lexicographic(p) \in Seq(Group)
           /\ recursion \in Seq(Group) /\ directFallback(p) \in Seq(Group)
<1> DEFINE lf == [strategy |-> "lemma-free", subgoals |-> 1]
           dr == [strategy |-> "direct", subgoals |-> 1]
           in == [strategy |-> "induction", subgoals |-> Ctors]
           lx == [strategy |-> "lexicographic", subgoals |-> Ctors * Ctors]
           rc == [strategy |-> "recursion", subgoals |-> 2]
           df == [strategy |-> "direct-fallback", subgoals |-> 1]
           n  == DtBinders[p]
<1>1. n \in Nat /\ n * (n - 1) \in Nat
  BY ProveRunAssumption, PairsTyped
<1>2. Ctors * Ctors \in Nat \ {0}
  <2>1. \A m \in Nat \ {0} : m * m \in Nat \ {0}
    OBVIOUS
  <2> QED
    BY <2>1, ProveRunAssumption
<1>3. lf \in Group /\ dr \in Group /\ in \in Group /\ lx \in Group /\ rc \in Group /\ df \in Group
  <2>1. \A s \in StrategyName, c \in Nat \ {0} : [strategy |-> s, subgoals |-> c] \in Group
    BY DEF Group
  <2>2. Ctors \in Nat \ {0}
    BY ProveRunAssumption
  <2>3. 1 \in Nat \ {0} /\ 2 \in Nat \ {0}
    OBVIOUS
  <2> QED
    BY <1>2, <2>1, <2>2, <2>3, Zenon DEF StrategyName
<1>4. <<lf, dr>> \in Seq(Group) /\ Len(<<lf, dr>>) = 2
  BY <1>3, PairTyped
<1>5. induction(p) \in Seq(Group) /\ lexicographic(p) \in Seq(Group)
  <2> HIDE DEF in, lx, n
  <2>1. [i \in 1 .. n |-> in] \in Seq(Group) /\ [i \in 1 .. n * (n - 1) |-> lx] \in Seq(Group)
    BY <1>1, <1>3, RepeatTyped
  <2> QED
    BY <2>1 DEF induction, lexicographic, in, lx, n
<1>6. recursion \in Seq(Group) /\ directFallback(p) \in Seq(Group)
  BY <1>3, OptionTyped DEF recursion, directFallback
<1> QED
  BY <1>4, <1>5, <1>6

\* A law has at least the lemma-free and the direct attempt, and no strategy is empty.
LEMMA GroupsTyped ==
    ASSUME NEW p \in Law
    PROVE  /\ groups(p) \in Seq(Group)
           /\ Len(groups(p)) >= 2
<1> DEFINE lf == [strategy |-> "lemma-free", subgoals |-> 1]
           dr == [strategy |-> "direct", subgoals |-> 1]
<1>4. <<lf, dr>> \in Seq(Group) /\ Len(<<lf, dr>>) = 2
  BY PiecesTyped
<1>5. induction(p) \in Seq(Group) /\ lexicographic(p) \in Seq(Group)
  BY PiecesTyped
<1>6. recursion \in Seq(Group) /\ directFallback(p) \in Seq(Group)
  BY PiecesTyped
<1>7. groups(p) = <<lf, dr>> \o induction(p) \o lexicographic(p) \o recursion \o directFallback(p)
  BY DEF groups
<1> HIDE DEF lf, dr
<1>8. /\ <<lf, dr>> \o induction(p) \in Seq(Group)
      /\ Len(<<lf, dr>> \o induction(p)) >= 2
  BY <1>4, <1>5, ConcatTyped
<1>9. /\ <<lf, dr>> \o induction(p) \o lexicographic(p) \in Seq(Group)
      /\ Len(<<lf, dr>> \o induction(p) \o lexicographic(p)) >= 2
  BY <1>5, <1>8, ConcatTyped
<1>10. /\ <<lf, dr>> \o induction(p) \o lexicographic(p) \o recursion \in Seq(Group)
       /\ Len(<<lf, dr>> \o induction(p) \o lexicographic(p) \o recursion) >= 2
  BY <1>6, <1>9, ConcatTyped
<1> QED
  BY <1>6, <1>7, <1>10, ConcatTyped

-----------------------------------------------------------------------------
(* The inductive invariant. *)

\* A law is attempted only while it is neither proven nor withheld in this round; only
\* induction has an instantiated attempt.
Typed ==
    /\ TypeOK
    /\ world \in World
    /\ pi \in Nat /\ sub \in Nat
    /\ pc = "solve" => pi \notin provenSet \cup withheld
    /\ pc = "solve" /\ phase = "preview" => Strategy = "induction"

\* Nothing false is recorded, cached, standing or proven in this round.
Earned == \A p \in recorded \cup cached \cup standing \cup provenSet : world[p].truth

\* A law whose last execution was cut short and that holds is aborted or proven.
Remembered ==
    \A p \in tainted :
        IF pc = "solve" /\ p = pi THEN sawInvalid = TRUE
        ELSE p \in aborted \cup provenSet \/ ~world[p].truth

Advertised == pc = "done" /\ level = "proven" => recorded = Law

RunInv == Typed /\ Earned /\ Advertised /\ (~AbortLemmaFree => Remembered)

LEMMA InitRunInv == Init => RunInv
<1> SUFFICES ASSUME Init PROVE RunInv
  OBVIOUS
<1>1. Cardinality(provenSet) = 0
  BY FS_EmptySet DEF Init
<1> QED
  BY <1>1 DEF Init, RunInv, Typed, TypeOK, Earned, Remembered, Advertised

\* What the solver discharges from true lemmas is true.
LEMMA UnsatIsTrue ==
    ASSUME RunInv, pc = "solve", answer = "unsat"
    PROVE  world[pi].truth
<1>1. pi \in Law /\ world \in World
  BY DEF RunInv, Typed, TypeOK
<1>2. \A q \in solveKey.lemmas : world[q].truth
  BY DEF RunInv, Earned, solveKey, siblingLemmas
<1>3. SUFFICES ASSUME ~world[pi].truth PROVE FALSE
  OBVIOUS
<1>4. /\ world[pi].via \notin {"lemma-free", "preview"}
      /\ \A L \in world[pi].fam : \E q \in L : ~world[q].truth
  BY <1>1, <1>3, SolverAssumption
<1>5. solveKey.lemmas \notin world[pi].fam
  BY <1>2, <1>4
<1> QED
  BY <1>4, <1>5 DEF answer

\* What the solver refutes is false.
LEMMA SatIsFalse ==
    ASSUME answer = "sat"
    PROVE  ~world[pi].truth
BY DEF answer

\* One more law proven makes one more epoch.
LEMMA ProvenCounts ==
    ASSUME NEW S \in SUBSET Law, NEW p \in Law, p \notin S
    PROVE  Cardinality(S \cup {p}) = Cardinality(S) + 1
<1>1. IsFiniteSet(S)
  BY ProveRunAssumption, FS_Subset
<1> QED
  BY <1>1, FS_AddElement

\* An outcome that is sound, and negative for no law that holds and was cut short.
LEMMA OutcomeKeeps ==
    ASSUME RunInv, pc = "solve", NEW status, Outcome(status),
           status = "proven" => world[pi].truth,
           tainted' \subseteq tainted \cup {pi},
           ~AbortLemmaFree /\ pi \in tainted' =>
               status \in {"invalidated", "proven"} \/ ~world[pi].truth
    PROVE  RunInv'
<1> USE DEF RunInv, Typed
<1>1. pi \in Law /\ pi \notin provenSet \cup withheld
  BY DEF TypeOK
<1>2. /\ pc' = "pass" /\ pi' = pi + 1 /\ sub' = 1
      /\ UNCHANGED <<record, round, standing>>
  BY DEF Outcome, Fresh
<1>3. tainted' \in SUBSET Law
  BY <1>1 DEF TypeOK
<1>4. CASE status = "invalidated"
  <2>1. aborted' = aborted \cup {pi} /\ UNCHANGED <<provenSet, withheld, epoch, progress>>
    BY <1>4 DEF Outcome
  <2>2. Typed'
    BY <1>1, <1>2, <1>3, <2>1 DEF TypeOK, record
  <2>3. Earned' /\ Advertised'
    BY <1>2, <2>1 DEF Earned, Advertised, record
  <2>4. ~AbortLemmaFree => Remembered'
    BY <1>2, <2>1 DEF Remembered, record
  <2> QED
    BY <2>2, <2>3, <2>4
<1>5. CASE status = "proven" /\ world[pi].falsified
  <2>1. FALSE
    BY <1>1, <1>5, SolverAssumption
  <2> QED
    BY <2>1
<1>6. CASE status = "proven" /\ ~world[pi].falsified
  <2>1. /\ provenSet' = provenSet \cup {pi}
        /\ aborted' = aborted \ {pi}
        /\ epoch' = epoch + 1
        /\ UNCHANGED withheld
    BY <1>6 DEF Outcome
  <2>2. Cardinality(provenSet \cup {pi}) = Cardinality(provenSet) + 1
    BY <1>1, ProvenCounts DEF TypeOK
  <2>3. Typed'
    <3>1. Cardinality(provenSet) \in Nat
      BY ProveRunAssumption, FS_Subset, FS_CardinalityType DEF TypeOK
    <3> QED
      BY <1>1, <1>2, <1>3, <2>1, <2>2, <3>1 DEF TypeOK, record
  <2>4. Earned' /\ Advertised'
    BY <1>2, <1>6, <2>1 DEF Earned, Advertised, record
  <2>5. ~AbortLemmaFree => Remembered'
    BY <1>2, <2>1 DEF Remembered, record
  <2> QED
    BY <2>3, <2>4, <2>5
<1>7. CASE status \notin {"invalidated", "proven"}
  <2>1. UNCHANGED <<provenSet, withheld, aborted, epoch, progress>>
    BY <1>7 DEF Outcome
  <2>2. Typed'
    BY <1>1, <1>2, <1>3, <2>1 DEF TypeOK, record
  <2>3. Earned' /\ Advertised'
    BY <1>2, <2>1 DEF Earned, Advertised, record
  <2>4. ~AbortLemmaFree => Remembered'
    BY <1>2, <1>7, <2>1 DEF Remembered, record
  <2> QED
    BY <2>2, <2>3, <2>4
<1> QED
  BY <1>4, <1>5, <1>6, <1>7

\* Going on to another attempt of the law at hand.
LEMMA AttemptKeeps ==
    ASSUME RunInv, pc = "solve", NEW g \in 1 .. Len(groups(pi)), NEW s \in Nat,
           s <= groups(pi)[g].subgoals, NEW ph, NEW invalid, NEW direct, NEW answers,
           Attempt(g, s, ph, invalid, direct, answers),
           ph = "preview" => groups(pi)[g].strategy = "induction",
           tainted' \subseteq tainted \cup {pi},
           ~AbortLemmaFree /\ pi \in tainted' => invalid = TRUE
    PROVE  RunInv'
<1> USE DEF RunInv, Typed
<1>1. pi \in Law
  BY DEF TypeOK
<1>2. /\ UNCHANGED <<world, recorded, level, cached, pc, standing, provenSet, withheld, aborted, epoch, pi>>
      /\ group' = g /\ sub' = s /\ phase' = ph /\ sawInvalid' = invalid
  BY DEF Attempt, record, passes
<1>3. Typed'
  BY <1>1, <1>2 DEF TypeOK, Strategy, groups, induction, lexicographic, recursion, directFallback, inductionEligible
<1>4. Earned' /\ Advertised'
  BY <1>2 DEF Earned, Advertised
<1>5. ~AbortLemmaFree => Remembered'
  BY <1>2 DEF Remembered
<1> QED
  BY <1>3, <1>4, <1>5

\* The next strategy, or the verdict.
LEMMA GiveUpKeeps ==
    ASSUME RunInv, pc = "solve", NEW invalid, NEW direct, NEW answers,
           GiveUp(invalid, direct, answers),
           tainted' \subseteq tainted \cup {pi},
           ~AbortLemmaFree /\ pi \in tainted' => invalid = TRUE
    PROVE  RunInv'
<1> DEFINE next == group + 1
           last == next > Len(groups(pi))
           redundant == ~last /\ groups(pi)[next].strategy = "direct-fallback" /\ ~direct /\ Capped
           status == IF invalid THEN "invalidated" ELSE "unknown"
<1>1. pi \in Law /\ group \in 1 .. Len(groups(pi))
  BY DEF RunInv, Typed, TypeOK
<1>2. groups(pi) \in Seq(Group)
  BY <1>1, GroupsTyped
<1>3. CASE last \/ redundant
  <2>1. Outcome(status)
    BY <1>3 DEF GiveUp
  <2>2. ~AbortLemmaFree /\ pi \in tainted' => status = "invalidated"
    OBVIOUS
  <2>3. status # "proven"
    OBVIOUS
  <2> HIDE DEF status
  <2> QED
    BY <2>1, <2>2, <2>3, OutcomeKeeps
<1>4. CASE ~(last \/ redundant)
  <2>1. Attempt(next, 1, FirstPhase(next), invalid, direct, answers)
    BY <1>4 DEF GiveUp
  <2>2. next \in 1 .. Len(groups(pi))
    BY <1>1, <1>2, <1>4
  <2>3. 1 <= groups(pi)[next].subgoals
    <3>1. groups(pi)[next] \in Group
      BY <1>2, <2>2
    <3> QED
      BY <3>1 DEF Group
  <2>4. FirstPhase(next) = "preview" => groups(pi)[next].strategy = "induction"
    BY DEF FirstPhase
  <2> HIDE DEF next
  <2> QED
    BY <2>1, <2>2, <2>3, <2>4, AttemptKeeps
<1> QED
  BY <1>3, <1>4

LEMMA SolveKeeps == ASSUME RunInv, Solve PROVE RunInv'
<1> DEFINE answers == solved \cup {solveKey}
<1>1. pc = "solve" /\ tainted' = tainted
  BY DEF Solve
<1>2. pi \in Law /\ group \in 1 .. Len(groups(pi)) /\ sub \in Nat /\ sub <= groups(pi)[group].subgoals
  BY <1>1 DEF RunInv, Typed, TypeOK
<1>3. groups(pi)[group].subgoals \in Nat
  <2>1. groups(pi)[group] \in Group
    BY <1>2, GroupsTyped
  <2> QED
    BY <2>1 DEF Group
<1>4. ~AbortLemmaFree /\ pi \in tainted => sawInvalid = TRUE
  BY <1>1 DEF RunInv, Remembered
<1>5. CASE answer = "unsat" /\ sub = groups(pi)[group].subgoals
  <2>1. Outcome("proven")
    BY <1>2, <1>3, <1>5 DEF Solve
  <2> QED
    BY <1>1, <1>5, <2>1, UnsatIsTrue, OutcomeKeeps
<1>6. CASE answer = "unsat" /\ sub < groups(pi)[group].subgoals
  <2>1. Attempt(group, sub + 1, FirstPhase(group), sawInvalid, directAborted, answers)
    BY <1>2, <1>3, <1>6 DEF Solve
  <2>2. sub + 1 \in Nat /\ sub + 1 <= groups(pi)[group].subgoals
    BY <1>2, <1>3, <1>6
  <2>3. FirstPhase(group) = "preview" => groups(pi)[group].strategy = "induction"
    BY DEF FirstPhase
  <2> HIDE DEF answers
  <2> QED
    BY <1>1, <1>2, <1>4, <2>1, <2>2, <2>3, AttemptKeeps
<1>7. CASE answer = "sat" /\ Strategy \in {"direct", "direct-fallback"}
  <2>1. phase # "preview"
    BY <1>1, <1>7 DEF RunInv, Typed
  <2>2. Outcome("refuted")
    BY <1>7, <2>1 DEF Solve
  <2> QED
    BY <1>1, <1>7, <2>2, SatIsFalse, OutcomeKeeps
<1>8. CASE /\ answer # "unsat"
           /\ ~(answer = "sat" /\ Strategy \in {"direct", "direct-fallback"})
  <2>1. \/ Attempt(group, sub, "attempt", sawInvalid, directAborted, answers)
        \/ GiveUp(sawInvalid, directAborted, answers)
    BY <1>8 DEF Solve
  <2> HIDE DEF answers
  <2> QED
    BY <1>1, <1>2, <1>4, <2>1, AttemptKeeps, GiveUpKeeps
<1>9. ~(sub > groups(pi)[group].subgoals)
  BY <1>2, <1>3
<1> QED
  BY <1>2, <1>3, <1>5, <1>6, <1>7, <1>8, <1>9

LEMMA AbortKeeps == ASSUME RunInv, Abort PROVE RunInv'
<1>1. /\ pc = "solve"
      /\ Strategy = "lemma-free" => AbortLemmaFree
      /\ tainted' = IF phase = "preview" THEN tainted ELSE tainted \cup {pi}
  BY DEF Abort
<1>2. pi \in Law /\ group \in 1 .. Len(groups(pi)) /\ sub \in Nat /\ sub <= groups(pi)[group].subgoals
  BY <1>1 DEF RunInv, Typed, TypeOK
<1>3. ~AbortLemmaFree /\ pi \in tainted => sawInvalid = TRUE
  BY <1>1 DEF RunInv, Remembered
<1>4. CASE phase = "preview"
  <2>1. Strategy # "lemma-free"
    BY <1>1, <1>4 DEF RunInv, Typed
  <2>2. Attempt(group, sub, "attempt", sawInvalid, directAborted, solved)
    BY <1>4, <2>1 DEF Abort
  <2> QED
    BY <1>1, <1>2, <1>3, <1>4, <2>2, AttemptKeeps
<1>5. CASE phase # "preview" /\ Strategy = "lemma-free"
  <2>1. GiveUp(sawInvalid, directAborted, solved)
    BY <1>5 DEF Abort
  <2> QED
    BY <1>1, <1>5, <2>1, GiveUpKeeps
<1>6. CASE phase # "preview" /\ Strategy # "lemma-free"
  <2>1. GiveUp(TRUE, directAborted \/ Strategy = "direct", solved)
    BY <1>6 DEF Abort
  <2> QED
    BY <1>1, <2>1, GiveUpKeeps
<1> QED
  BY <1>4, <1>5, <1>6

LEMMA StartLawKeeps == ASSUME RunInv, StartLaw PROVE RunInv'
<1> USE DEF RunInv, Typed
<1>1. /\ pc = "pass" /\ pi \in Law /\ pi \notin provenSet \cup withheld
      /\ pc' = "solve" /\ group' = 1 /\ sub' = 1 /\ phase' = "attempt"
      /\ tainted' = tainted \ {pi}
      /\ UNCHANGED <<record, passes>>
  BY DEF StartLaw, Fresh, Gated
<1>2. 1 \in 1 .. Len(groups(pi)) /\ 1 <= groups(pi)[1].subgoals
  <2>1. groups(pi) \in Seq(Group) /\ Len(groups(pi)) >= 2
    BY <1>1, GroupsTyped
  <2>2. 1 \in 1 .. Len(groups(pi)) /\ groups(pi)[1] \in Group
    BY <2>1
  <2> QED
    BY <2>2 DEF Group
<1>3. Typed'
  BY <1>1, <1>2 DEF TypeOK, record, passes, groups, induction, lexicographic, recursion,
                    directFallback, inductionEligible
<1>4. Earned' /\ Advertised'
  BY <1>1 DEF Earned, Advertised, record, passes
<1>5. ~AbortLemmaFree => Remembered'
  BY <1>1 DEF Remembered, record, passes
<1> QED
  BY <1>3, <1>4, <1>5

\* A law is only skipped or a pass ended between executions.
LEMMA PassKeeps == ASSUME RunInv, Skip \/ EndPass PROVE RunInv'
<1> USE DEF RunInv, Typed
<1>1. /\ pc = "pass" /\ pi' \in Nat
      /\ UNCHANGED <<record, pc, standing, provenSet, withheld, aborted, epoch, search, tainted>>
  BY DEF Skip, EndPass
<1>2. Typed'
  BY <1>1 DEF TypeOK, record, search
<1>3. Earned' /\ Advertised'
  BY <1>1 DEF Earned, Advertised, record
<1>4. ~AbortLemmaFree => Remembered'
  BY <1>1 DEF Remembered, record
<1> QED
  BY <1>2, <1>3, <1>4

\* What a round leaves behind holds.
LEMMA NewIdxEarned ==
    ASSUME RunInv
    PROVE  newIdx \in SUBSET Law /\ \A p \in newIdx : world[p].truth
BY DEF RunInv, Typed, TypeOK, Earned, newIdx

LEMMA EndRoundKeeps == ASSUME RunInv, EndRound PROVE RunInv'
<1> USE DEF RunInv, Typed
<1>1. newIdx \in SUBSET Law /\ \A p \in newIdx : world[p].truth
  BY NewIdxEarned
<1>2. pc = "pass" /\ UNCHANGED <<world, indeterminate, group, sub, phase, sawInvalid>>
  BY DEF EndRound, search
<1>3. CASE newIdx = cached
  <2>1. /\ pc' = "done" /\ recorded' = newIdx /\ cached' = newIdx /\ level' = guaranteeLevel
        /\ tainted' = tainted
        /\ UNCHANGED <<standing, provenSet, withheld, aborted, epoch, pi>>
    BY <1>3 DEF EndRound
  <2>2. Typed'
    BY <1>1, <1>2, <2>1 DEF TypeOK
  <2>3. Earned'
    BY <1>1, <1>2, <2>1 DEF Earned
  <2>4. Advertised'
    BY <2>1 DEF Advertised, guaranteeLevel, promotableToProven
  <2>5. ~AbortLemmaFree => Remembered'
    BY <1>2, <2>1 DEF Remembered
  <2> QED
    BY <2>2, <2>3, <2>4, <2>5
<1>4. CASE newIdx # cached /\ round >= LastRound
  <2>1. /\ pc' = "failed" /\ cached' = recorded /\ tainted' = tainted
        /\ UNCHANGED <<recorded, level, standing, provenSet, withheld, aborted, epoch, pi>>
    BY <1>4 DEF EndRound, FailedCache
  <2>2. Typed'
    BY <1>2, <2>1 DEF TypeOK
  <2>3. Earned' /\ Advertised'
    BY <1>2, <2>1 DEF Earned, Advertised
  <2>4. ~AbortLemmaFree => Remembered'
    BY <1>2, <2>1 DEF Remembered
  <2> QED
    BY <2>2, <2>3, <2>4
<1>5. CASE newIdx # cached /\ ~(round >= LastRound)
  <2>1. /\ cached' = newIdx /\ standing' = newIdx /\ tainted' = {}
        /\ provenSet' = {} /\ withheld' = {} /\ aborted' = {} /\ epoch' = 1 /\ pi' = 1
        /\ UNCHANGED <<recorded, level, pc>>
    BY <1>2, <1>5 DEF EndRound, RoundStart
  <2>2. Cardinality({}) = 0
    BY FS_EmptySet
  <2>3. Typed'
    BY <1>1, <1>2, <2>1, <2>2 DEF TypeOK
  <2>4. Earned' /\ Advertised' /\ Remembered'
    BY <1>1, <1>2, <2>1 DEF Earned, Advertised, Remembered
  <2> QED
    BY <2>3, <2>4
<1> QED
  BY <1>3, <1>4, <1>5

LEMMA NextRunInv == RunInv /\ [Next]_vars => RunInv'
<1> SUFFICES ASSUME RunInv, [Next]_vars PROVE RunInv'
  OBVIOUS
<1>1. CASE UNCHANGED vars
  <2>1. TypeOK'
    BY <1>1 DEF vars, RunInv, Typed, TypeOK, groups, induction, lexicographic, recursion,
                directFallback, inductionEligible
  <2> QED
    BY <1>1, <2>1 DEF vars, RunInv, Typed, Earned, Advertised, Remembered, Strategy, groups,
                      induction, lexicographic, recursion, directFallback, inductionEligible
<1> QED
  BY <1>1, PassKeeps, StartLawKeeps, SolveKeeps, AbortKeeps, EndRoundKeeps DEF Next

LEMMA RunInvariant == Spec => []RunInv
  BY InitRunInv, NextRunInv, PTL DEF Spec

(***************************************************************************)
(* apiProveHash keeps its books: laws proven in a round are neither         *)
(* withheld nor aborted, and the epoch that gates re-attempts counts them.  *)
(***************************************************************************)
THEOREM ProveRunTyped == Spec => []TypeOK
<1>1. RunInv => TypeOK
  BY DEF RunInv, Typed
<1> QED
  BY <1>1, RunInvariant, PTL

(***************************************************************************)
(* apiProveHash records only what holds, however laws lean on each other    *)
(* and whichever attempts abort, and advertises "proven" only over a        *)
(* complete set: for every sound solver and any number of laws.             *)
(***************************************************************************)
THEOREM RecordsAreEarned == Spec => []RecordedIsEarned
<1>1. RunInv => RecordedIsEarned
  BY DEF RunInv, Earned, Advertised, RecordedIsEarned
<1> QED
  BY <1>1, RunInvariant, PTL

(***************************************************************************)
(* Where the lemma-free attempt does not abort, no round drops a standing   *)
(* proof of a law whose last execution was cut short by the environment.    *)
(***************************************************************************)
THEOREM AbortsDemoteNothing == ASSUME ~AbortLemmaFree PROVE Spec => NoEnvironmentalDemotion
<1>1. RunInv /\ [Next]_vars => (round' # round => tainted \cap standing \subseteq cached')
  <2> SUFFICES ASSUME RunInv, [Next]_vars, round' # round,
                      NEW p \in tainted \cap standing
               PROVE  p \in cached'
    OBVIOUS
  <2>1. EndRound
    BY DEF vars, Next, Skip, StartLaw, Solve, Abort, EndPass, GiveUp, Outcome, Attempt, passes
  <2>2. cached' = newIdx /\ pc = "pass"
    BY <2>1 DEF EndRound
  <2>3. world[p].truth
    BY DEF RunInv, Earned
  <2>4. p \in aborted \cup provenSet
    BY <2>2, <2>3 DEF RunInv, Remembered
  <2> QED
    BY <2>2, <2>4 DEF newIdx
<1>2. RunInv /\ [Next]_vars =>
        [round' # round => tainted \cap standing \subseteq cached']_vars
  BY <1>1
<1> QED
  BY <1>2, RunInvariant, PTL DEF Spec, NoEnvironmentalDemotion

-----------------------------------------------------------------------------
(* The lemma-growth gate. *)

\* A strategy's own attempt is answered unsat, given the admissible lemmas.
AttemptWins(w, p, lemmas, s) ==
    LET whole == s \in {"lemma-free", "direct", "direct-fallback"}
        used  == IF s = "lemma-free" THEN {} ELSE lemmas
    IN  \/ w[p].via = "lemma-free" /\ whole /\ used = {}
        \/ w[p].via = "direct" /\ whole /\ used \in w[p].fam
        \/ w[p].via = "direct-fallback" /\ whole /\ budget(s, p) = "full" /\ used \in w[p].fam
        \/ w[p].via = s /\ ~whole /\ used \in w[p].fam

\* The strategy discharges the law, by its own attempt or the instantiated one before it.
GroupWins(w, p, lemmas, g) ==
    \/ AttemptWins(w, p, lemmas, groups(p)[g].strategy)
    \/ groups(p)[g].strategy = "induction" /\ w[p].via = "preview"

Available(p) == (standing \cup provenSet) \ {p}

\* The strategies before the one at hand have failed, and the instantiated attempt before
\* the induction at hand.
Searched ==
    pc = "solve" =>
        /\ phase \in {"attempt", "preview"}
        /\ \A g \in 1 .. group - 1 : ~GroupWins(world, pi, Available(pi), g)
        /\ phase = "attempt" /\ Strategy = "induction" => world[pi].via # "preview"

\* A law whose last attempt belongs to this epoch would fail again: the lemmas have not changed.
StillFails ==
    /\ lastEpoch \in [Law -> 0 .. epoch]
    /\ \A p \in Law : lastEpoch[p] = epoch => NaiveStep(world, standing, p, provenSet) = provenSet

\* The round is where naive iteration is in some pass k, which every pass before it led to
\* with at least one law more.
InStepWith(k) ==
    /\ provenSet = NaivePass(world, standing, NaivePasses(world, standing)[k])[pi - 1]
    /\ k <= Cardinality(NaivePasses(world, standing)[k])
    /\ progress = (provenSet # NaivePasses(world, standing)[k])

Gating ==
    /\ pi \in 1 .. Cardinality(Law) + 1
    /\ \A p \in withheld : world[p].falsified
    /\ Searched
    /\ StillFails
    /\ \E k \in 0 .. Cardinality(Law) : InStepWith(k)

GateInv ==
    /\ aborts \in Nat
    /\ aborts = 0 /\ ~Capped /\ pc \in {"pass", "solve"} => Gating

\* The strategies a law has.
Uses(gs, s) == \E i \in 1 .. Len(gs) : gs[i].strategy = s

LEMMA ConcatUses ==
    ASSUME NEW S, NEW a \in Seq(S), NEW b \in Seq(S), NEW s
    PROVE  Uses(a \o b, s) <=> Uses(a, s) \/ Uses(b, s)
<1>1. /\ Len(a) \in Nat /\ Len(b) \in Nat /\ Len(a \o b) = Len(a) + Len(b)
      /\ \A i \in 1 .. Len(a) : (a \o b)[i] = a[i]
      /\ \A i \in 1 .. Len(b) : (a \o b)[Len(a) + i] = b[i]
  OBVIOUS
<1>2. ASSUME Uses(a \o b, s) PROVE Uses(a, s) \/ Uses(b, s)
  <2>1. PICK i \in 1 .. Len(a) + Len(b) : (a \o b)[i].strategy = s
    BY <1>1, <1>2 DEF Uses
  <2>2. CASE i <= Len(a)
    BY <1>1, <2>1, <2>2 DEF Uses
  <2>3. CASE i > Len(a)
    <3>1. i - Len(a) \in 1 .. Len(b) /\ i = Len(a) + (i - Len(a))
      BY <1>1, <2>1, <2>3
    <3> DEFINE j == i - Len(a)
    <3>2. j \in 1 .. Len(b) /\ i = Len(a) + j
      BY <3>1
    <3> HIDE DEF j
    <3>3. b[j].strategy = s
      BY <1>1, <2>1, <3>2
    <3> QED
      BY <3>2, <3>3 DEF Uses
  <2> QED
    BY <1>1, <2>1, <2>2, <2>3
<1>3. ASSUME Uses(a, s) PROVE Uses(a \o b, s)
  BY <1>1, <1>3 DEF Uses
<1>4. ASSUME Uses(b, s) PROVE Uses(a \o b, s)
  <2>1. PICK j \in 1 .. Len(b) : b[j].strategy = s
    BY <1>4 DEF Uses
  <2>2. Len(a) + j \in 1 .. Len(a \o b)
    BY <1>1
  <2> QED
    BY <1>1, <2>1, <2>2 DEF Uses
<1> QED
  BY <1>2, <1>3, <1>4

LEMMA ConcatHead ==
    ASSUME NEW S, NEW a \in Seq(S), NEW b \in Seq(S), Len(a) >= 2
    PROVE  a \o b \in Seq(S) /\ Len(a \o b) >= 2 /\ (a \o b)[1] = a[1] /\ (a \o b)[2] = a[2]
OBVIOUS

\* What the attempts of a law are, as far as the order of its strategies matters.
LEMMA GroupsShape ==
    ASSUME NEW p \in Law
    PROVE  /\ groups(p)[1].strategy = "lemma-free"
           /\ groups(p)[2].strategy = "direct"
           /\ Uses(groups(p), "induction") <=> inductionEligible(p)
           /\ inductionEligible(p) => Uses(groups(p), "direct-fallback")
<1> DEFINE G  == Group
           A  == <<[strategy |-> "lemma-free", subgoals |-> 1], [strategy |-> "direct", subgoals |-> 1]>>
           n  == DtBinders[p]
<1>1. n \in Nat /\ n * (n - 1) \in Nat
  BY ProveRunAssumption, PairsTyped
<1>2. A \in Seq(G) /\ Len(A) = 2 /\ A[1].strategy = "lemma-free" /\ A[2].strategy = "direct"
  BY PiecesTyped
<1>3. /\ induction(p) \in Seq(G)
      /\ Uses(induction(p), "induction") <=> inductionEligible(p)
  <2>1. induction(p) \in Seq(G) /\ Len(induction(p)) = n
    BY <1>1, PiecesTyped DEF induction
  <2>2. \A i \in 1 .. n : induction(p)[i].strategy = "induction"
    BY <1>1 DEF induction
  <2> QED
    BY <1>1, <2>1, <2>2 DEF Uses, inductionEligible
<1>4. lexicographic(p) \in Seq(G) /\ ~Uses(lexicographic(p), "induction")
  <2> DEFINE m == n * (n - 1)
             x == [strategy |-> "lexicographic", subgoals |-> Ctors * Ctors]
  <2>1. lexicographic(p) = [i \in 1 .. m |-> x]
    BY DEF lexicographic
  <2>2. m \in Nat /\ x.strategy = "lexicographic"
    BY <1>1
  <2> HIDE DEF m, x
  <2>3. Len(lexicographic(p)) = m /\ \A i \in 1 .. m : lexicographic(p)[i] = x
    BY <2>1, <2>2
  <2> QED
    BY <2>2, <2>3, PiecesTyped DEF Uses
<1>5. recursion \in Seq(G) /\ ~Uses(recursion, "induction")
  <2>1. CASE recursion = <<>>
    BY <2>1, PiecesTyped DEF Uses
  <2>2. CASE recursion = <<[strategy |-> "recursion", subgoals |-> 2]>>
    BY <2>2, PiecesTyped DEF Uses
  <2> QED
    BY <2>1, <2>2 DEF recursion
<1>6. /\ directFallback(p) \in Seq(G)
      /\ ~Uses(directFallback(p), "induction")
      /\ inductionEligible(p) => Uses(directFallback(p), "direct-fallback")
  <2>1. CASE ~inductionEligible(p)
    <3>1. directFallback(p) = <<>>
      BY <2>1 DEF directFallback
    <3> QED
      BY <2>1, <3>1, PiecesTyped DEF Uses
  <2>2. CASE inductionEligible(p)
    <3>1. directFallback(p) = <<[strategy |-> "direct-fallback", subgoals |-> 1]>>
      BY <2>2 DEF directFallback
    <3>2. 1 \in 1 .. Len(directFallback(p)) /\ directFallback(p)[1].strategy = "direct-fallback"
      BY <3>1
    <3>3. \A i \in 1 .. Len(directFallback(p)) : directFallback(p)[i].strategy = "direct-fallback"
      BY <3>1
    <3> QED
      BY <3>2, <3>3, PiecesTyped DEF Uses
  <2> QED
    BY <2>1, <2>2
<1>7. groups(p) = (((A \o induction(p)) \o lexicographic(p)) \o recursion) \o directFallback(p)
  BY DEF groups
<1>8. ~Uses(A, "induction")
  BY <1>2 DEF Uses
<1> HIDE DEF A, G, n
<1> DEFINE B == A \o induction(p)
           C == B \o lexicographic(p)
           D == C \o recursion
<1>9. B \in Seq(G) /\ Len(B) >= 2 /\ B[1] = A[1] /\ B[2] = A[2]
  <2>1. A \in Seq(G) /\ induction(p) \in Seq(G) /\ Len(A) >= 2
    BY <1>2, <1>3
  <2> QED
    BY <2>1, ConcatHead
<1>10. Uses(B, "induction") <=> inductionEligible(p)
  BY <1>2, <1>3, <1>8, ConcatUses
<1> HIDE DEF B
<1>11. C \in Seq(G) /\ Len(C) >= 2 /\ C[1] = A[1] /\ C[2] = A[2]
  BY <1>4, <1>9, ConcatHead
<1>12. Uses(C, "induction") <=> inductionEligible(p)
  BY <1>4, <1>9, <1>10, ConcatUses
<1> HIDE DEF C
<1>13. D \in Seq(G) /\ Len(D) >= 2 /\ D[1] = A[1] /\ D[2] = A[2]
  BY <1>5, <1>11, ConcatHead
<1>14. Uses(D, "induction") <=> inductionEligible(p)
  BY <1>5, <1>11, <1>12, ConcatUses
<1> HIDE DEF D
<1>15. groups(p) = D \o directFallback(p)
  BY <1>7 DEF B, C, D
<1>16. groups(p)[1] = A[1] /\ groups(p)[2] = A[2]
  BY <1>6, <1>13, <1>15, ConcatHead
<1>17. Uses(groups(p), "induction") <=> inductionEligible(p)
  BY <1>6, <1>13, <1>14, <1>15, ConcatUses
<1>18. inductionEligible(p) => Uses(groups(p), "direct-fallback")
  BY <1>6, <1>13, <1>15, ConcatUses
<1> QED
  BY <1>2, <1>16, <1>17, <1>18

\* A law is discharged exactly when one of its strategies discharges it.
LEMMA DischargedByAGroup ==
    ASSUME ~Capped, NEW w, NEW p \in Law, NEW lemmas
    PROVE  Discharges(w, p, lemmas) <=> \E g \in 1 .. Len(groups(p)) : GroupWins(w, p, lemmas, g)
<1> DEFINE n == Len(groups(p))
           via == w[p].via
           st(g) == groups(p)[g].strategy
<1>1. n \in Nat /\ n >= 2 /\ DOMAIN groups(p) = 1 .. n
  BY GroupsTyped
<1>2. /\ st(1) = "lemma-free" /\ st(2) = "direct"
      /\ (\E g \in 1 .. n : st(g) = "induction") <=> inductionEligible(p)
      /\ inductionEligible(p) => \E g \in 1 .. n : st(g) = "direct-fallback"
  BY GroupsShape DEF Uses
<1>3. ASSUME NEW g \in 1 .. n, GroupWins(w, p, lemmas, g) PROVE Discharges(w, p, lemmas)
  <2>1. CASE st(g) = "induction" /\ via = "preview"
    BY <1>2, <2>1 DEF Discharges
  <2>2. CASE AttemptWins(w, p, lemmas, st(g))
    <3>1. CASE via = "lemma-free"
      BY <3>1 DEF Discharges
    <3>2. CASE via = "direct"
      BY <2>2, <3>2 DEF Discharges, AttemptWins
    <3>3. CASE via = "direct-fallback" /\ budget(st(g), p) = "full"
      <4>1. st(g) # "lemma-free"
        BY <3>3 DEF budget
      <4> QED
        BY <2>2, <3>3, <4>1 DEF Discharges, AttemptWins
    <3>4. CASE via = st(g) /\ st(g) \notin {"lemma-free", "direct", "direct-fallback"}
      BY <1>1, <2>2, <3>4 DEF Discharges, AttemptWins
    <3> QED
      BY <2>2, <3>1, <3>2, <3>3, <3>4 DEF AttemptWins
  <2> QED
    BY <1>3, <2>1, <2>2 DEF GroupWins
<1>4. ASSUME Discharges(w, p, lemmas) PROVE \E g \in 1 .. n : GroupWins(w, p, lemmas, g)
  <2>0. 1 \in 1 .. n /\ 2 \in 1 .. n
    BY <1>1
  <2>1. CASE via = "lemma-free" \/ (via = "direct" /\ {} \in w[p].fam)
    <3>1. GroupWins(w, p, lemmas, 1)
      BY <1>2, <2>1 DEF GroupWins, AttemptWins
    <3> QED
      BY <2>0, <3>1
  <2>2. CASE via = "preview" /\ inductionEligible(p)
    BY <1>2, <2>2 DEF GroupWins
  <2>3. CASE lemmas \in w[p].fam /\ via = "direct"
    <3>1. GroupWins(w, p, lemmas, 2)
      BY <1>2, <2>3 DEF GroupWins, AttemptWins
    <3> QED
      BY <2>0, <3>1
  <2>4. CASE lemmas \in w[p].fam /\ via = "direct-fallback"
    <3>1. CASE inductionEligible(p)
      <4>1. PICK g \in 1 .. n : st(g) = "direct-fallback"
        BY <1>2, <3>1
      <4>2. budget("direct-fallback", p) = "full"
        BY DEF budget
      <4>3. GroupWins(w, p, lemmas, g)
        BY <2>4, <4>1, <4>2 DEF GroupWins, AttemptWins
      <4> QED
        BY <4>3
    <3>2. CASE ~inductionEligible(p)
      <4>1. budget("direct", p) = "full"
        BY <3>2 DEF budget
      <4>2. GroupWins(w, p, lemmas, 2)
        BY <1>2, <2>4, <4>1 DEF GroupWins, AttemptWins
      <4> QED
        BY <2>0, <4>2
    <3> QED
      BY <3>1, <3>2
  <2>5. CASE lemmas \in w[p].fam /\ \E g \in DOMAIN groups(p) : st(g) = via
    <3>1. PICK g \in 1 .. n : st(g) = via
      BY <1>1, <2>5
    <3>2. CASE via \in {"lemma-free", "direct", "direct-fallback"}
      BY <2>1, <2>3, <2>4, <2>5, <3>2
    <3>3. CASE via \notin {"lemma-free", "direct", "direct-fallback"}
      <4>1. GroupWins(w, p, lemmas, g)
        BY <2>5, <3>1, <3>3 DEF GroupWins, AttemptWins
      <4> QED
        BY <4>1
    <3> QED
      BY <3>2, <3>3
  <2> QED
    BY <1>4, <2>1, <2>2, <2>3, <2>4, <2>5 DEF Discharges
<1> QED
  BY <1>3, <1>4
LEMMA LawCount == Cardinality(Law) \in Nat
  BY ProveRunAssumption, FS_CardinalityType

LEMMA NaiveStepTyped ==
    ASSUME NEW w, NEW stood, NEW p \in Law, NEW got \in SUBSET Law
    PROVE  NaiveStep(w, stood, p, got) \in SUBSET Law /\ got \subseteq NaiveStep(w, stood, p, got)
BY DEF NaiveStep

\* The recursive definition of a pass is one: each law adds to what the laws before it left.
LEMMA NaivePassSteps ==
    ASSUME NEW w, NEW stood, NEW got \in SUBSET Law
    PROVE  /\ NaivePass(w, stood, got)[0] = got
           /\ \A p \in Law :
                NaivePass(w, stood, got)[p] = NaiveStep(w, stood, p, NaivePass(w, stood, got)[p - 1])
           /\ \A i \in 0 .. Cardinality(Law) :
                NaivePass(w, stood, got)[i] \in SUBSET Law /\ got \subseteq NaivePass(w, stood, got)[i]
<1> DEFINE m == Cardinality(Law)
           T == {S \in SUBSET Law : got \subseteq S}
           step(i, cur) == NaiveStep(w, stood, i, cur)
           G == [i \in 1 .. m |-> [cur \in T |-> step(i, cur)]]
           Is(f) == f = [i \in 0 .. m |-> IF i = 0 THEN got ELSE step(i, f[i - 1])]
           h == NaivePass(w, stood, got)
<1>1. m \in Nat /\ Law = 1 .. m
  BY LawCount, ProveRunAssumption
<1>2. \A i \in 1 .. m : \A cur \in T : step(i, cur) \in T
  BY <1>1, NaiveStepTyped
<1>3. got \in T
  OBVIOUS
<1>4. h = CHOOSE g : Is(g)
  BY Zenon DEF NaivePass
<1> HIDE DEF m, step, T
<1>5. G \in Steps(m, T)
  BY <1>2 DEF Steps
<1>6. PICK f : Follows(f, T, got, m, G)
  <2> HIDE DEF G
  <2> QED
    BY <1>1, <1>3, <1>5, StepsExist
<1>7. ASSUME NEW i \in 0 .. m PROVE f[i] = IF i = 0 THEN got ELSE step(i, f[i - 1])
  <2>1. CASE i # 0
    <3>1. i \in 1 .. m /\ i - 1 \in 0 .. m
      BY <1>1, <2>1
    <3> QED
      BY <1>6, <2>1, <3>1 DEF Follows
  <2> QED
    BY <1>6, <2>1 DEF Follows
<1>8. Is(f)
  BY <1>6, <1>7 DEF Follows
<1> HIDE DEF h
<1>9. Is(h)
  <2> HIDE DEF Is
  <2> QED
    BY <1>4, <1>8, Zenon
<1>10. h[0] = got /\ \A i \in 1 .. m : h[i] = step(i, h[i - 1])
  BY <1>1, <1>9
<1>11. \A i \in 0 .. m : h[i] \in T
  <2>1. Inherits(h, m, T)
    BY <1>2, <1>3, <1>10 DEF Inherits
  <2> QED
    BY <1>1, <2>1, ValuesStay
<1> QED
  BY <1>1, <1>10, <1>11 DEF h, m, step, T

\* So is that of the passes.
LEMMA NaivePassesSteps ==
    ASSUME NEW w, NEW stood
    PROVE  /\ NaivePasses(w, stood)[0] = {}
           /\ \A k \in 1 .. Cardinality(Law) :
                NaivePasses(w, stood)[k] = NaivePass(w, stood, NaivePasses(w, stood)[k - 1])[Cardinality(Law)]
           /\ \A k \in 0 .. Cardinality(Law) : NaivePasses(w, stood)[k] \in SUBSET Law
<1> DEFINE m == Cardinality(Law)
           T == SUBSET Law
           step(cur) == NaivePass(w, stood, cur)[m]
           G == [i \in 1 .. m |-> [cur \in T |-> step(cur)]]
           Is(f) == f = [i \in 0 .. m |-> IF i = 0 THEN {} ELSE step(f[i - 1])]
           h == NaivePasses(w, stood)
<1>1. m \in Nat
  BY LawCount
<1>2. \A cur \in T : step(cur) \in T
  BY <1>1, NaivePassSteps
<1>3. {} \in T
  OBVIOUS
<1>4. h = CHOOSE g : Is(g)
  BY Zenon DEF NaivePasses
<1> HIDE DEF m, step, T
<1>5. G \in Steps(m, T)
  BY <1>2 DEF Steps
<1>6. PICK f : Follows(f, T, {}, m, G)
  <2> HIDE DEF G
  <2> QED
    BY <1>1, <1>3, <1>5, StepsExist
<1>7. ASSUME NEW i \in 0 .. m PROVE f[i] = IF i = 0 THEN {} ELSE step(f[i - 1])
  <2>1. CASE i # 0
    <3>1. i \in 1 .. m /\ i - 1 \in 0 .. m
      BY <1>1, <2>1
    <3> QED
      BY <1>6, <2>1, <3>1 DEF Follows
  <2> QED
    BY <1>6, <2>1 DEF Follows
<1>8. Is(f)
  BY <1>6, <1>7 DEF Follows
<1> HIDE DEF h
<1>9. Is(h)
  <2> HIDE DEF Is
  <2> QED
    BY <1>4, <1>8, Zenon
<1>10. h[0] = {} /\ \A i \in 1 .. m : h[i] = step(h[i - 1])
  BY <1>1, <1>9
<1>11. \A i \in 0 .. m : h[i] \in T
  <2>1. Inherits(h, m, T)
    BY <1>2, <1>3, <1>10 DEF Inherits
  <2> QED
    BY <1>1, <2>1, ValuesStay
<1> QED
  BY <1>10, <1>11 DEF h, m, step, T

\* A pass that adds nothing ends the iteration: all later ones leave the same.
LEMMA NaiveEnds ==
    ASSUME NEW w, NEW stood, NEW k \in 0 .. Cardinality(Law),
           NaivePass(w, stood, NaivePasses(w, stood)[k])[Cardinality(Law)] = NaivePasses(w, stood)[k]
    PROVE  NaivePasses(w, stood)[Cardinality(Law)] = NaivePasses(w, stood)[k]
<1> DEFINE m == Cardinality(Law)
           h == NaivePasses(w, stood)
           T == {h[k]}
           f == [i \in 0 .. m - k |-> h[k + i]]
<1>1. m \in Nat /\ k \in Nat /\ m - k \in Nat
  BY LawCount
<1>2. \A i \in 1 .. m : h[i] = NaivePass(w, stood, h[i - 1])[m]
  BY NaivePassesSteps
<1> HIDE DEF h, m
<1>3. f[0] \in T
  BY <1>1
<1>4. ASSUME NEW i \in 1 .. m - k, f[i - 1] \in T PROVE f[i] \in T
  <2>1. k + i \in 1 .. m /\ (k + i) - 1 = k + (i - 1) /\ i - 1 \in 0 .. m - k /\ i \in 0 .. m - k
    BY <1>1
  <2>2. h[k + (i - 1)] = h[k]
    BY <1>4, <2>1
  <2>3. h[k + i] = NaivePass(w, stood, h[k])[m]
    BY <1>2, <2>1, <2>2
  <2> QED
    BY <2>1, <2>3 DEF h, m
<1>5. Inherits(f, m - k, T)
  <2> HIDE DEF f, T
  <2> QED
    BY <1>3, <1>4 DEF Inherits
<1>6. f[m - k] \in T
  <2> HIDE DEF f, T
  <2>1. m - k \in 0 .. m - k
    BY <1>1
  <2> QED
    BY <1>1, <1>5, <2>1, ValuesStay
<1>7. f[m - k] = h[m]
  <2>1. m - k \in 0 .. m - k /\ k + (m - k) = m
    BY <1>1
  <2> QED
    BY <2>1
<1> QED
  BY <1>6, <1>7 DEF h, m
\* What the solver answers is what the attempt at hand gets.
LEMMA AnswerIsWin ==
    ASSUME RunInv, pc = "solve", phase \in {"attempt", "preview"}
    PROVE  answer = "unsat" <=>
             IF phase = "preview" THEN world[pi].via = "preview"
             ELSE AttemptWins(world, pi, Available(pi), Strategy)
<1>1. siblingLemmas(pi) = Available(pi)
  BY DEF RunInv, Typed, TypeOK, siblingLemmas, Available
<1>2. phase = "preview" => Strategy = "induction"
  BY DEF RunInv, Typed
<1>3. answer = "unsat" <=>
        \/ world[pi].via = "lemma-free" /\ WholeGoal /\ solveKey.lemmas = {}
        \/ world[pi].via = "direct" /\ WholeGoal /\ solveKey.lemmas \in world[pi].fam
        \/ world[pi].via = "direct-fallback" /\ WholeGoal /\ solveKey.budget = "full"
             /\ solveKey.lemmas \in world[pi].fam
        \/ world[pi].via = "preview" /\ phase = "preview"
        \/ world[pi].via = Strategy /\ ~WholeGoal /\ phase = "attempt" /\ solveKey.lemmas \in world[pi].fam
  BY DEF answer
<1>4. /\ solveKey.lemmas = IF Strategy = "lemma-free" \/ phase = "preview" THEN {} ELSE Available(pi)
      /\ solveKey.budget = budget(Strategy, pi)
  BY <1>1 DEF solveKey
<1>5. CASE phase = "preview"
  BY <1>2, <1>3, <1>5 DEF WholeGoal
<1>6. CASE phase = "attempt"
  BY <1>3, <1>4, <1>6 DEF WholeGoal, AttemptWins
<1> QED
  BY <1>5, <1>6

\* The solver refutes only what no strategy discharges from true lemmas.
LEMMA FalseIsUndischarged ==
    ASSUME RunInv, pc = "solve", ~world[pi].truth
    PROVE  ~Discharges(world, pi, Available(pi))
<1>1. pi \in Law /\ world \in World
  BY DEF RunInv, Typed, TypeOK
<1>2. /\ world[pi].via \notin {"lemma-free", "preview"}
      /\ \A L \in world[pi].fam : \E q \in L : ~world[q].truth
  BY <1>1, SolverAssumption
<1>3. \A q \in Available(pi) : world[q].truth
  BY DEF RunInv, Earned, Available
<1>4. Available(pi) \notin world[pi].fam /\ {} \notin world[pi].fam
  BY <1>2, <1>3
<1> QED
  BY <1>2, <1>4 DEF Discharges

\* Within a round nothing but the laws' outcomes moves: what the round has in common with
\* naive iteration when law pi has been dealt with.
LEMMA PassedOver ==
    ASSUME RunInv, Gating, pi \in Law,
           UNCHANGED <<world, standing, provenSet, progress>>, pi' = pi + 1,
           NaiveStep(world, standing, pi, provenSet) = provenSet
    PROVE  /\ pi' \in 1 .. Cardinality(Law) + 1
           /\ \E k \in 0 .. Cardinality(Law) : InStepWith(k)'
<1>1. PICK k \in 0 .. Cardinality(Law) : InStepWith(k)
  BY DEF Gating
<1>2. Cardinality(Law) \in Nat /\ pi \in 1 .. Cardinality(Law)
  BY LawCount, ProveRunAssumption
<1> DEFINE start == NaivePasses(world, standing)[k]
<1>3. start \in SUBSET Law
  BY NaivePassesSteps
<1>4. NaivePass(world, standing, start)[pi] = NaiveStep(world, standing, pi, NaivePass(world, standing, start)[pi - 1])
  BY <1>3, NaivePassSteps
<1>5. provenSet = NaivePass(world, standing, start)[pi]
  BY <1>1, <1>4 DEF InStepWith
<1>6. pi' - 1 = pi
  BY <1>2
<1>7. InStepWith(k)'
  BY <1>1, <1>5, <1>6 DEF InStepWith
<1> QED
  BY <1>2, <1>7

LEMMA ProvenInStep ==
    ASSUME RunInv, Gating, pi \in Law, pi \notin provenSet,
           UNCHANGED <<world, standing>>, provenSet' = provenSet \cup {pi}, progress' = TRUE, pi' = pi + 1,
           NaiveStep(world, standing, pi, provenSet) = provenSet \cup {pi}
    PROVE  /\ pi' \in 1 .. Cardinality(Law) + 1
           /\ \E k \in 0 .. Cardinality(Law) : InStepWith(k)'
<1>1. PICK k \in 0 .. Cardinality(Law) : InStepWith(k)
  BY DEF Gating
<1>2. Cardinality(Law) \in Nat /\ pi \in 1 .. Cardinality(Law)
  BY LawCount, ProveRunAssumption
<1> DEFINE start == NaivePasses(world, standing)[k]
<1>3. start \in SUBSET Law
  BY NaivePassesSteps
<1>4. NaivePass(world, standing, start)[pi] = NaiveStep(world, standing, pi, NaivePass(world, standing, start)[pi - 1])
  BY <1>3, NaivePassSteps
<1>5. provenSet' = NaivePass(world, standing, start)[pi]
  BY <1>1, <1>4 DEF InStepWith
<1>6. start \subseteq provenSet
  <2>1. pi - 1 \in 0 .. Cardinality(Law)
    BY <1>2
  <2> QED
    BY <1>1, <1>3, <2>1, NaivePassSteps DEF InStepWith
<1>7. pi' - 1 = pi
  BY <1>2
<1>8. InStepWith(k)'
  BY <1>1, <1>5, <1>6, <1>7 DEF InStepWith
<1> QED
  BY <1>2, <1>8

\* A negative outcome where naive iteration has one, too.
LEMMA NegativeOutcome ==
    ASSUME RunInv, Gating, pc = "solve", NEW status, status # "proven", Outcome(status),
           ~Discharges(world, pi, Available(pi))
    PROVE  Gating'
<1>1. pi \in Law /\ epoch = Cardinality(provenSet) + 1
  BY DEF RunInv, Typed, TypeOK
<1>2. /\ pc' = "pass" /\ pi' = pi + 1 /\ lastEpoch' = [lastEpoch EXCEPT ![pi] = epoch]
      /\ UNCHANGED <<world, standing>>
  BY DEF Outcome, record
<1>3. UNCHANGED <<provenSet, withheld, epoch, progress>>
  <2>1. CASE status = "invalidated"
    BY <2>1 DEF Outcome
  <2>2. CASE status # "invalidated"
    BY <2>2 DEF Outcome
  <2> QED
    BY <2>1, <2>2
<1>4. NaiveStep(world, standing, pi, provenSet) = provenSet
  BY DEF NaiveStep, Available
<1>5. pi' \in 1 .. Cardinality(Law) + 1 /\ \E k \in 0 .. Cardinality(Law) : InStepWith(k)'
  BY <1>1, <1>2, <1>3, <1>4, PassedOver
<1>6. epoch \in Nat
  <2>1. Cardinality(provenSet) \in Nat
    BY ProveRunAssumption, FS_Subset, FS_CardinalityType DEF RunInv, Typed, TypeOK
  <2> QED
    BY <1>1, <2>1
<1>7. StillFails'
  <2>1. lastEpoch \in [Law -> 0 .. epoch]
    BY DEF Gating, StillFails
  <2>2. lastEpoch' \in [Law -> 0 .. epoch]
    BY <1>1, <1>2, <1>6, <2>1
  <2>3. ASSUME NEW p \in Law, lastEpoch'[p] = epoch
        PROVE  NaiveStep(world, standing, p, provenSet) = provenSet
    <3>1. CASE p = pi
      BY <1>4, <3>1
    <3>2. CASE p # pi
      BY <1>1, <1>2, <2>1, <2>3, <3>2 DEF Gating, StillFails
    <3> QED
      BY <3>1, <3>2
  <2> QED
    BY <1>2, <1>3, <2>2, <2>3 DEF StillFails
<1> QED
  BY <1>2, <1>3, <1>5, <1>7 DEF Gating, Searched
\* A law is proven where naive iteration proves it; the epoch moves on from every attempt.
LEMMA PositiveOutcome ==
    ASSUME RunInv, Gating, pc = "solve", Outcome("proven"), world[pi].truth,
           Discharges(world, pi, Available(pi))
    PROVE  Gating'
<1>1. pi \in Law /\ pi \notin provenSet /\ ~world[pi].falsified
  BY SolverAssumption DEF RunInv, Typed, TypeOK
<1>2. /\ pc' = "pass" /\ pi' = pi + 1 /\ lastEpoch' = [lastEpoch EXCEPT ![pi] = epoch]
      /\ UNCHANGED <<world, standing>>
  BY DEF Outcome, record
<1>3. provenSet' = provenSet \cup {pi} /\ progress' = TRUE /\ epoch' = epoch + 1 /\ UNCHANGED withheld
  BY <1>1 DEF Outcome
<1>4. NaiveStep(world, standing, pi, provenSet) = provenSet \cup {pi}
  BY <1>1 DEF NaiveStep, Available
<1>5. pi' \in 1 .. Cardinality(Law) + 1 /\ \E k \in 0 .. Cardinality(Law) : InStepWith(k)'
  BY <1>1, <1>2, <1>3, <1>4, ProvenInStep
<1>6. epoch \in Nat
  <2>1. Cardinality(provenSet) \in Nat /\ epoch = Cardinality(provenSet) + 1
    BY ProveRunAssumption, FS_Subset, FS_CardinalityType DEF RunInv, Typed, TypeOK
  <2> QED
    BY <2>1
<1>7. StillFails'
  <2>1. lastEpoch' \in [Law -> 0 .. epoch]
    <3>1. lastEpoch \in [Law -> 0 .. epoch]
      BY DEF Gating, StillFails
    <3> QED
      BY <1>1, <1>2, <1>6, <3>1
  <2>2. lastEpoch' \in [Law -> 0 .. epoch + 1] /\ \A p \in Law : lastEpoch'[p] # epoch + 1
    BY <1>6, <2>1
  <2> QED
    BY <1>3, <2>2 DEF StillFails
<1> QED
  BY <1>2, <1>3, <1>5, <1>7 DEF Gating, Searched

\* Another attempt at the law at hand.
LEMMA NextAttempt ==
    ASSUME RunInv, Gating, pc = "solve", NEW g, NEW s, NEW ph \in {"attempt", "preview"},
           NEW invalid, NEW direct, NEW answers,
           Attempt(g, s, ph, invalid, direct, answers),
           \A h \in 1 .. g - 1 : ~GroupWins(world, pi, Available(pi), h),
           ph = "attempt" /\ groups(pi)[g].strategy = "induction" => world[pi].via # "preview"
    PROVE  Gating'
<1>1. /\ UNCHANGED <<world, standing, provenSet, withheld, lastEpoch, epoch, progress, pi, pc>>
      /\ group' = g /\ phase' = ph
  BY DEF Attempt, record, passes
<1>2. Searched'
  <2>1. Available(pi)' = Available(pi) /\ Strategy' = groups(pi)[g].strategy
    BY <1>1 DEF Available, Strategy
  <2>2. \A h \in 1 .. g - 1 : ~GroupWins(world', pi', Available(pi)', h)
    BY <1>1, <2>1
  <2>3. phase' = "attempt" /\ Strategy' = "induction" => world'[pi'].via # "preview"
    BY <1>1, <2>1
  <2> QED
    BY <1>1, <2>2, <2>3 DEF Searched
<1>3. StillFails'
  BY <1>1 DEF Gating, StillFails
<1>4. \E k \in 0 .. Cardinality(Law) : InStepWith(k)'
  BY <1>1 DEF Gating, InStepWith
<1> QED
  BY <1>1, <1>2, <1>3, <1>4 DEF Gating

LEMMA GivingUp ==
    ASSUME RunInv, Gating, ~Capped, pc = "solve", NEW invalid, NEW direct, NEW answers,
           GiveUp(invalid, direct, answers),
           ~GroupWins(world, pi, Available(pi), group)
    PROVE  Gating'
<1> DEFINE next == group + 1
           last == next > Len(groups(pi))
           status == IF invalid THEN "invalidated" ELSE "unknown"
<1>1. pi \in Law /\ group \in 1 .. Len(groups(pi)) /\ Len(groups(pi)) \in Nat
  BY GroupsTyped DEF RunInv, Typed, TypeOK
<1>2. \A h \in 1 .. group : ~GroupWins(world, pi, Available(pi), h)
  <2>1. \A h \in 1 .. group - 1 : ~GroupWins(world, pi, Available(pi), h)
    BY DEF Gating, Searched
  <2>2. \A h \in 1 .. group : h = group \/ h \in 1 .. group - 1
    BY <1>1
  <2> QED
    BY <2>1, <2>2
<1>3. CASE last
  <2>1. Outcome(status)
    BY <1>3 DEF GiveUp
  <2>2. status # "proven"
    OBVIOUS
  <2>3. ~Discharges(world, pi, Available(pi))
    <3>1. Len(groups(pi)) = group
      BY <1>1, <1>3
    <3> QED
      BY <1>1, <1>2, <3>1, DischargedByAGroup
  <2> HIDE DEF status
  <2> QED
    BY <2>1, <2>2, <2>3, NegativeOutcome
<1>4. CASE ~last
  <2>1. Attempt(next, 1, FirstPhase(next), invalid, direct, answers)
    BY <1>4 DEF GiveUp
  <2>2. /\ FirstPhase(next) \in {"attempt", "preview"}
        /\ FirstPhase(next) = "attempt" => groups(pi)[next].strategy # "induction"
    BY DEF FirstPhase
  <2>3. \A h \in 1 .. next - 1 : ~GroupWins(world, pi, Available(pi), h)
    BY <1>1, <1>2
  <2> HIDE DEF next
  <2> QED
    BY <2>1, <2>2, <2>3, NextAttempt
<1> QED
  BY <1>3, <1>4

LEMMA SolveGates == ASSUME RunInv, Gating, ~Capped, Solve PROVE Gating'
<1> DEFINE answers == solved \cup {solveKey}
           size == groups(pi)[group].subgoals
<1>1. pc = "solve"
  BY DEF Solve
<1>2. pi \in Law /\ group \in 1 .. Len(groups(pi)) /\ sub \in Nat /\ sub <= size
  BY <1>1 DEF RunInv, Typed, TypeOK
<1>3. size \in Nat
  <2>1. groups(pi)[group] \in Group
    BY <1>2, GroupsTyped
  <2> QED
    BY <2>1 DEF Group
<1>4. /\ phase \in {"attempt", "preview"}
      /\ \A h \in 1 .. group - 1 : ~GroupWins(world, pi, Available(pi), h)
      /\ phase = "attempt" /\ Strategy = "induction" => world[pi].via # "preview"
  BY <1>1 DEF Gating, Searched
<1>5. phase = "preview" => Strategy = "induction"
  BY <1>1 DEF RunInv, Typed
<1>6. /\ phase = "preview" => (answer = "unsat" <=> world[pi].via = "preview")
      /\ phase = "attempt" => (answer = "unsat" <=> AttemptWins(world, pi, Available(pi), Strategy))
  BY <1>1, <1>4, AnswerIsWin
<1>7. CASE answer = "unsat" /\ sub = size
  <2>1. Outcome("proven")
    BY <1>2, <1>3, <1>7 DEF Solve
  <2>2. world[pi].truth
    BY <1>1, <1>7, UnsatIsTrue
  <2>3. GroupWins(world, pi, Available(pi), group)
    BY <1>4, <1>5, <1>6, <1>7 DEF GroupWins, Strategy
  <2>4. Discharges(world, pi, Available(pi))
    BY <1>2, <2>3, DischargedByAGroup
  <2> QED
    BY <1>1, <2>1, <2>2, <2>4, PositiveOutcome
<1>8. CASE answer = "unsat" /\ sub < size
  <2>1. Attempt(group, sub + 1, FirstPhase(group), sawInvalid, directAborted, answers)
    BY <1>2, <1>3, <1>8 DEF Solve
  <2>2. /\ FirstPhase(group) \in {"attempt", "preview"}
        /\ FirstPhase(group) = "attempt" => groups(pi)[group].strategy # "induction"
    BY DEF FirstPhase
  <2> HIDE DEF answers
  <2> QED
    BY <1>1, <1>4, <2>1, <2>2, NextAttempt
<1>9. CASE answer = "sat" /\ Strategy \in {"direct", "direct-fallback"}
  <2>1. phase # "preview"
    BY <1>5, <1>9
  <2>2. Outcome("refuted")
    BY <1>9, <2>1 DEF Solve
  <2>3. ~Discharges(world, pi, Available(pi))
    BY <1>1, <1>9, SatIsFalse, FalseIsUndischarged
  <2> QED
    BY <1>1, <2>2, <2>3, NegativeOutcome
<1>10. CASE answer # "unsat" /\ phase = "preview"
  <2>1. Attempt(group, sub, "attempt", sawInvalid, directAborted, answers)
    BY <1>5, <1>10 DEF Solve
  <2>2. world[pi].via # "preview"
    BY <1>6, <1>10
  <2> HIDE DEF answers
  <2> QED
    BY <1>1, <1>4, <2>1, <2>2, NextAttempt
<1>11. CASE /\ answer # "unsat" /\ phase # "preview"
            /\ ~(answer = "sat" /\ Strategy \in {"direct", "direct-fallback"})
  <2>1. GiveUp(sawInvalid, directAborted, answers)
    BY <1>11 DEF Solve
  <2>2. ~GroupWins(world, pi, Available(pi), group)
    BY <1>4, <1>6, <1>11 DEF GroupWins, Strategy
  <2> HIDE DEF answers
  <2> QED
    BY <1>1, <2>1, <2>2, GivingUp
<1> QED
  BY <1>2, <1>3, <1>7, <1>8, <1>9, <1>10, <1>11

LEMMA SkipGates == ASSUME RunInv, Gating, Skip PROVE Gating'
<1>1. /\ pc = "pass" /\ pi \in Law /\ Gated(pi) /\ pi' = pi + 1
      /\ UNCHANGED <<world, pc, standing, provenSet, withheld, lastEpoch, epoch, progress>>
  BY DEF Skip, record
<1>2. NaiveStep(world, standing, pi, provenSet) = provenSet
  <2>1. CASE pi \in provenSet \cup withheld
    BY <2>1 DEF Gating, NaiveStep
  <2>2. CASE lastEpoch[pi] = epoch
    BY <1>1, <2>2 DEF Gating, StillFails
  <2> QED
    BY <1>1, <2>1, <2>2 DEF Gated
<1>3. pi' \in 1 .. Cardinality(Law) + 1 /\ \E k \in 0 .. Cardinality(Law) : InStepWith(k)'
  BY <1>1, <1>2, PassedOver
<1>4. StillFails' /\ Searched'
  BY <1>1 DEF Gating, StillFails, Searched
<1> QED
  BY <1>1, <1>3, <1>4 DEF Gating

LEMMA StartGates == ASSUME RunInv, Gating, StartLaw PROVE Gating'
<1>1. /\ pi \in Law /\ group' = 1 /\ phase' = "attempt"
      /\ UNCHANGED <<world, standing, provenSet, withheld, lastEpoch, epoch, progress, pi>>
  BY DEF StartLaw, Fresh, record, passes
<1>2. Searched'
  <2>1. groups(pi)[1].strategy = "lemma-free"
    BY <1>1, GroupsShape
  <2>2. Strategy' = "lemma-free"
    BY <1>1, <2>1 DEF Strategy, groups, induction, lexicographic, recursion, directFallback, inductionEligible
  <2>3. 1 .. 1 - 1 = {}
    OBVIOUS
  <2> QED
    BY <1>1, <2>2, <2>3 DEF Searched
<1>3. StillFails'
  BY <1>1 DEF Gating, StillFails
<1>4. \E k \in 0 .. Cardinality(Law) : InStepWith(k)'
  BY <1>1 DEF Gating, InStepWith
<1> QED
  BY <1>1, <1>2, <1>3, <1>4 DEF Gating

\* A pass that proved something leaves more laws proven than there were passes before it.
LEMMA EndPassGates == ASSUME RunInv, Gating, EndPass PROVE Gating'
<1> DEFINE m == Cardinality(Law)
           h == NaivePasses(world, standing)
<1>1. /\ pc = "pass" /\ pi \notin Law /\ progress /\ progress' = FALSE /\ pi' = 1
      /\ UNCHANGED <<world, pc, standing, provenSet, withheld, lastEpoch, epoch>>
  BY DEF EndPass, record
<1>2. m \in Nat /\ Law = 1 .. m /\ IsFiniteSet(Law)
  BY LawCount, ProveRunAssumption
<1>3. pi = m + 1
  BY <1>1, <1>2 DEF Gating
<1>4. PICK k \in 0 .. m : InStepWith(k)
  BY DEF Gating
<1>5. /\ h[k] \in SUBSET Law /\ provenSet = NaivePass(world, standing, h[k])[m]
      /\ h[k] \subseteq provenSet /\ provenSet \in SUBSET Law /\ provenSet # h[k]
      /\ k <= Cardinality(h[k])
  <2>1. h[k] \in SUBSET Law
    BY <1>4, NaivePassesSteps
  <2>2. pi - 1 = m /\ m \in 0 .. m
    BY <1>2, <1>3
  <2>3. provenSet = NaivePass(world, standing, h[k])[m] /\ k <= Cardinality(h[k])
    BY <1>4, <2>2 DEF InStepWith
  <2>4. provenSet # h[k]
    BY <1>1, <1>4 DEF InStepWith
  <2>5. h[k] \subseteq provenSet /\ provenSet \in SUBSET Law
    <3> HIDE DEF h
    <3> QED
      BY <2>1, <2>2, <2>3, NaivePassSteps
  <2> QED
    BY <2>1, <2>3, <2>4, <2>5
<1>6. Cardinality(h[k]) \in Nat /\ Cardinality(provenSet) \in Nat /\ Cardinality(h[k]) < Cardinality(provenSet)
      /\ Cardinality(provenSet) <= m
  <2>1. IsFiniteSet(provenSet) /\ IsFiniteSet(h[k])
    BY <1>2, <1>5, FS_Subset
  <2> QED
    BY <1>2, <1>5, <2>1, FS_Subset, FS_CardinalityType
<1>7. k + 1 \in 1 .. m /\ k + 1 \in 0 .. m /\ (k + 1) - 1 = k
  BY <1>2, <1>4, <1>5, <1>6
<1>8. h[k + 1] = provenSet
  BY <1>5, <1>7, NaivePassesSteps
<1>9. InStepWith(k + 1)'
  <2>1. NaivePass(world, standing, provenSet)[0] = provenSet
    BY <1>5, NaivePassSteps
  <2>2. k + 1 <= Cardinality(provenSet)
    BY <1>2, <1>4, <1>5, <1>6
  <2>3. pi' - 1 = 0
    BY <1>1
  <2> QED
    BY <1>1, <1>8, <2>1, <2>2, <2>3 DEF InStepWith
<1>10. StillFails' /\ Searched'
  BY <1>1 DEF Gating, StillFails, Searched
<1>11. pi' \in 1 .. m + 1
  BY <1>1, <1>2
<1> QED
  BY <1>1, <1>7, <1>9, <1>10, <1>11 DEF Gating

\* A round starts as naive iteration does.
FreshRound ==
    /\ provenSet = {} /\ withheld = {} /\ pi = 1 /\ progress = FALSE /\ epoch = 1
    /\ lastEpoch = [p \in Law |-> 0] /\ pc = "pass"

LEMMA FreshGating == FreshRound => Gating
<1> SUFFICES ASSUME FreshRound PROVE Gating
  OBVIOUS
<1>1. Cardinality(Law) \in Nat /\ Cardinality({}) = 0
  BY LawCount, FS_EmptySet
<1>2. NaivePasses(world, standing)[0] = {} /\ NaivePass(world, standing, {})[0] = {}
  BY NaivePassesSteps, NaivePassSteps
<1>3. InStepWith(0)
  <2>1. pi - 1 = 0
    BY DEF FreshRound
  <2>2. provenSet = NaivePass(world, standing, NaivePasses(world, standing)[0])[pi - 1]
    BY <1>2, <2>1 DEF FreshRound
  <2>3. progress = (provenSet # NaivePasses(world, standing)[0])
    BY <1>2 DEF FreshRound
  <2>4. 0 <= Cardinality(NaivePasses(world, standing)[0])
    BY <1>1, <1>2
  <2> QED
    BY <2>2, <2>3, <2>4 DEF InStepWith
<1>4. StillFails
  BY DEF StillFails, FreshRound
<1> QED
  BY <1>1, <1>3, <1>4 DEF Gating, Searched, FreshRound

LEMMA InitGates == Init => GateInv
<1> SUFFICES ASSUME Init PROVE GateInv
  OBVIOUS
<1>1. Gating
  BY FreshGating DEF Init, FreshRound
<1> QED
  BY <1>1 DEF GateInv, Init

LEMMA NextGates == RunInv /\ GateInv /\ [Next]_vars => GateInv'
<1> SUFFICES ASSUME RunInv, GateInv, [Next]_vars PROVE GateInv'
  OBVIOUS
<1>1. CASE Abort
  <2>1. aborts' = aborts + 1 /\ aborts \in Nat
    BY <1>1 DEF Abort, GateInv
  <2> QED
    BY <2>1 DEF GateInv
<1>2. CASE Skip \/ StartLaw \/ Solve \/ EndPass
  <2>1. aborts' = aborts /\ pc \in {"pass", "solve"}
    BY <1>2 DEF Skip, StartLaw, Solve, EndPass
  <2>2. CASE aborts = 0 /\ ~Capped
    BY <1>2, <2>1, <2>2, SkipGates, StartGates, SolveGates, EndPassGates DEF GateInv
  <2>3. CASE ~(aborts = 0 /\ ~Capped)
    BY <2>1, <2>3 DEF GateInv
  <2> QED
    BY <2>2, <2>3
<1>3. CASE EndRound
  <2>1. aborts' = aborts
    BY <1>3 DEF EndRound
  <2>2. CASE pc' \notin {"pass", "solve"}
    BY <2>1, <2>2 DEF GateInv
  <2>3. CASE pc' \in {"pass", "solve"}
    <3>1. FreshRound'
      BY <1>3, <2>3 DEF EndRound, RoundStart, FreshRound
    <3>2. Gating'
      BY <3>1, FreshGating, PTL
    <3> QED
      BY <2>1, <3>2 DEF GateInv
  <2> QED
    BY <2>2, <2>3
<1>4. CASE UNCHANGED vars
  <2>1. Gating => Gating'
    <3>1. Searched => Searched'
      <4>1. Available(pi)' = Available(pi) /\ Strategy' = Strategy
        BY <1>4 DEF vars, Available, Strategy
      <4> QED
        BY <1>4, <4>1 DEF vars, Searched
    <3>2. \A k : InStepWith(k) => InStepWith(k)'
      BY <1>4 DEF vars, InStepWith
    <3>3. StillFails => StillFails'
      BY <1>4 DEF vars, StillFails
    <3> QED
      BY <1>4, <3>1, <3>2, <3>3 DEF vars, Gating
  <2> QED
    BY <1>4, <2>1 DEF vars, GateInv
<1> QED
  BY <1>1, <1>2, <1>3, <1>4 DEF Next

(***************************************************************************)
(* The lemma-growth gate of apiProveHash loses nothing: for any number of   *)
(* laws and every sound solver, however unmonotone in its lemmas, a round   *)
(* without aborts that skips the laws whose lemmas have not grown since     *)
(* their last attempt proves exactly what trying every law on every pass    *)
(* proves.                                                                  *)
(***************************************************************************)
THEOREM GateLosesNothing == Spec => []GatingIsHarmless
<1>1. RunInv /\ GateInv => GatingIsHarmless
  <2> SUFFICES ASSUME RunInv, GateInv, pc = "pass", pi \notin Law, ~progress, aborts = 0, ~Capped
               PROVE  provenSet = NaivePasses(world, standing)[Cardinality(Law)]
    BY DEF GatingIsHarmless
  <2>1. Gating
    BY DEF GateInv
  <2>2. Cardinality(Law) \in Nat /\ Law = 1 .. Cardinality(Law)
    BY LawCount, ProveRunAssumption
  <2>3. pi = Cardinality(Law) + 1
    BY <2>1, <2>2 DEF Gating
  <2>4. PICK k \in 0 .. Cardinality(Law) : InStepWith(k)
    BY <2>1 DEF Gating
  <2>5. pi - 1 = Cardinality(Law)
    BY <2>2, <2>3
  <2>6. /\ provenSet = NaivePasses(world, standing)[k]
        /\ provenSet = NaivePass(world, standing, NaivePasses(world, standing)[k])[Cardinality(Law)]
    BY <2>4, <2>5 DEF InStepWith
  <2> QED
    BY <2>4, <2>6, NaiveEnds
<1> QED
  BY <1>1, InitGates, NextGates, RunInvariant, PTL DEF Spec
=============================================================================
