--------------------------- MODULE ProofScanProofs ---------------------------
(***************************************************************************)
(* Machine-checked proofs about ProofScan: a marker that reads as settled    *)
(* hides nothing that could prove, unless a scan behind it missed something  *)
(* in silence.  For every corpus, every solver, every interleaving with      *)
(* other processes and any number of faults.                                 *)
(***************************************************************************)
EXTENDS ProofScan, NumberFacts, FiniteSetTheorems

-----------------------------------------------------------------------------
(* What the edges reach. *)

LEMMA ClosureLeast ==
    ASSUME NEW e, NEW S, NEW C \in SUBSET Def, S \subseteq C, ClosedUnder(e, C)
    PROVE  closure(e, S) \subseteq C
BY DEF closure

LEMMA ClosureBase ==
    ASSUME NEW e, NEW S \in SUBSET Def
    PROVE  S \subseteq closure(e, S)
BY DEF closure

\* Where two sets of edges agree on a set that they do not leave, they reach the same.
LEMMA ClosureAgree ==
    ASSUME NEW B \in SUBSET Def, NEW e1, NEW e2, NEW S \in SUBSET B,
           B \subseteq DOMAIN e1, B \subseteq DOMAIN e2,
           \A h \in B : e1[h] = e2[h] /\ e1[h] \subseteq B
    PROVE  closure(e1, S) = closure(e2, S) /\ closure(e1, S) \subseteq B
<1>1. ASSUME NEW e, NEW f, B \subseteq DOMAIN e, B \subseteq DOMAIN f,
             \A h \in B : e[h] = f[h] /\ e[h] \subseteq B,
             NEW x \in closure(e, S), NEW C \in SUBSET Def, S \subseteq C, ClosedUnder(f, C)
      PROVE  x \in C
  <2>1. C \cap B \in SUBSET Def /\ S \subseteq C \cap B
    BY <1>1
  <2>2. ClosedUnder(e, C \cap B)
    BY <1>1 DEF ClosedUnder
  <2>3. x \in C \cap B
    BY <1>1, <2>1, <2>2, ClosureLeast
  <2> QED
    BY <2>3
<1>2. closure(e1, S) \subseteq closure(e2, S)
  <2>1. ASSUME NEW x \in closure(e1, S)
        PROVE  x \in closure(e2, S)
    <3>1. x \in Def
      BY <2>1 DEF closure
    <3>2. \A C \in SUBSET Def : S \subseteq C /\ ClosedUnder(e2, C) => x \in C
      BY <1>1, <2>1
    <3> QED
      BY <3>1, <3>2 DEF closure
  <2> QED
    BY <2>1
<1>3. closure(e2, S) \subseteq closure(e1, S)
  <2>1. ASSUME NEW x \in closure(e2, S)
        PROVE  x \in closure(e1, S)
    <3>1. x \in Def
      BY <2>1 DEF closure
    <3>2. \A C \in SUBSET Def : S \subseteq C /\ ClosedUnder(e1, C) => x \in C
      BY <1>1, <2>1
    <3> QED
      BY <3>1, <3>2 DEF closure
  <2> QED
    BY <2>1
<1>4. closure(e1, S) \subseteq B
  <2>1. ClosedUnder(e1, B)
    BY DEF ClosedUnder
  <2> QED
    BY <2>1, ClosureLeast
<1> QED
  BY <1>2, <1>3, <1>4

\* The largest set of definitions that the edges know and do not leave.
Founded(e) == {h \in DOMAIN e : \E C \in SUBSET DOMAIN e : h \in C /\ ClosedUnder(e, C)}

LEMMA FoundedFacts ==
    ASSUME NEW e
    PROVE  /\ Founded(e) \subseteq DOMAIN e
           /\ \A h \in Founded(e) : e[h] \subseteq Founded(e)
           /\ \A C \in SUBSET DOMAIN e : ClosedUnder(e, C) => C \subseteq Founded(e)
<1>1. ASSUME NEW h \in Founded(e), NEW g \in e[h]
      PROVE  g \in Founded(e)
  <2>1. PICK C \in SUBSET DOMAIN e : h \in C /\ ClosedUnder(e, C)
    BY DEF Founded
  <2>2. g \in C
    BY <1>1, <2>1 DEF ClosedUnder
  <2> QED
    BY <2>1, <2>2 DEF Founded
<1> QED
  BY <1>1 DEF Founded

-----------------------------------------------------------------------------
(* What a proof attempt finds depends only on the lemmas in scope. *)

\* The same library gives the same answer, and unreadable objects outside a set that holds
\* what the definition refers to do not change the library.
LEMMA SameAnswer ==
    ASSUME NEW B \in SUBSET Def, \A d \in B : Deps[d] \subseteq B, NEW h \in B,
           NEW k1 \in SUBSET Def, NEW k2 \in SUBSET Def, B \subseteq k1, B \subseteq k2,
           NEW m1, NEW m2, NEW c,
           m1[h].hints = m2[h].hints, m1[h].hints \subseteq B,
           \A l \in closure(Deps, Deps[h]) \cup m1[h].hints :
               (m1[l] # None /\ m1[l].proven) <=> (m2[l] # None /\ m2[l].proven)
    PROVE  Provable(h, m1, k1, c) <=> Provable(h, m2, k2, c)
<1>1. ASSUME NEW k \in SUBSET Def, B \subseteq k
      PROVE  /\ closure([d \in k |-> Deps[d]], Deps[h]) = closure(Deps, Deps[h])
             /\ closure(Deps, Deps[h]) \subseteq B
  <2> DEFINE e == [d \in k |-> Deps[d]]
  <2>1. B \subseteq DOMAIN e /\ B \subseteq DOMAIN Deps
    BY <1>1, ScanAssumption
  <2>2. \A d \in B : e[d] = Deps[d] /\ e[d] \subseteq B
    BY <1>1
  <2>3. Deps[h] \in SUBSET B
    OBVIOUS
  <2> HIDE DEF e
  <2>4. closure(e, Deps[h]) = closure(Deps, Deps[h]) /\ closure(e, Deps[h]) \subseteq B
    BY <2>1, <2>2, <2>3, ClosureAgree
  <2> QED
    BY <2>4 DEF e
<1>2. /\ lemmaScope(h, m1, k1) = closure(Deps, Deps[h]) \cup m1[h].hints
      /\ lemmaScope(h, m2, k2) = closure(Deps, Deps[h]) \cup m1[h].hints
      /\ closure(Deps, Deps[h]) \cup m1[h].hints \subseteq B
  BY <1>1 DEF lemmaScope
<1>3. loadLemmaLibrary(h, m1, k1) = loadLemmaLibrary(h, m2, k2)
  BY <1>2 DEF loadLemmaLibrary
<1> QED
  BY <1>3 DEF Provable

-----------------------------------------------------------------------------
(* The inductive invariant. *)

\* Hints and metadata as a pair of snapshots records them.
Hints(hints, h) == IF h \in DOMAIN hints THEN hints[h] ELSE {}

Recorded(proven, hints) ==
    [h \in Def |-> IF h \in DOMAIN proven
                   THEN [proven |-> proven[h], hints |-> Hints(hints, h)] ELSE None]

Snapshot(proven, hints) ==
    /\ DOMAIN proven \subseteq Def
    /\ \A h \in DOMAIN proven : proven[h] \in BOOLEAN
    /\ \A h \in DOMAIN hints : hints[h] \subseteq Def

\* The lemma graph over what a pair of snapshots knows, and the part of it that draws on
\* nothing the snapshots have taken for absent.
Graph(proven, hints) == [h \in DOMAIN proven |-> Deps[h] \cup Hints(hints, h)]

Inputs(p) == Graph(p.baseline, p.hints)

Core(p) == Founded(Inputs(p))

\* A cache holds what the store has, or had.
GoodView(v) ==
    /\ v \in [Def -> Metadata \cup {None}]
    /\ \A h \in Def : v[h] # None => h \in stored /\ v[h].hints \subseteq stored

\* The store holds what its objects and their metadata refer to, and the worker has read
\* nothing that is not stored.
StoreInv ==
    /\ stored \subseteq Def
    /\ meta \in [Def -> Metadata]
    /\ \A h \in stored : Deps[h] \subseteq stored
    /\ \A h \in Def : meta[h].hints \subseteq stored
    /\ GoodView(view)
    /\ decoded \subseteq stored

\* The marker's digest is its own; unless it rests on a blind scan, nothing unproven in it
\* that draws on nothing it lacks could prove.
MarkerInv ==
    marker # None =>
        /\ marker.digest = fingerprintOfSnapshot(marker.proven, marker.hints, marker.config)
        /\ DOMAIN marker.proven \subseteq stored
        /\ ~blind =>
              /\ Snapshot(marker.proven, marker.hints)
              /\ \A h \in Founded(Graph(marker.proven, marker.hints)) :
                    ~marker.proven[h] =>
                        ~Provable(h, Recorded(marker.proven, marker.hints), Def, marker.config)

\* Outside the attempts nothing has been produced or has failed; the snapshot of a plan
\* holds stored objects; an attempt is pending at one level only.
ControlInv ==
    /\ pc \in {"stopped", "plan", "levels", "prove"}
    /\ pc # "prove" => produced = {} /\ failed = FALSE
    /\ produced \subseteq {h \in Def : view[h] # None /\ view[h].proven}
    /\ pc \in {"levels", "prove"} => DOMAIN plan.baseline \subseteq stored
    /\ pc = "prove" =>
          /\ levels \in [0 .. Cardinality(Def) -> SUBSET Def]
          /\ \A l \in DOMAIN levels : levels[l] \subseteq stored
          /\ \A k, l \in DOMAIN levels : levels[k] \cap levels[l] # {} => k = l

\* A plan that may settle: the lemma graph over its core has no cycle, and the delta holds
\* whatever can draw a lemma from one of its members.
GoodPlan(p) ==
    /\ Snapshot(p.baseline, p.hints)
    /\ \A h \in Core(p) : h \notin closure(Inputs(p), Inputs(p)[h])
    /\ ~p.full =>
          \A g, h \in Core(p) :
              g \in p.attempt /\ g \in closure(Inputs(p), Inputs(p)[h]) => h \in p.attempt

\* The worker's view of what it planned differs from the plan by what it produced.
ViewOfPlan ==
    \A h \in DOMAIN plan.baseline :
        /\ h \in stored /\ h \in decoded
        /\ view[h] # None
        /\ view[h].hints = Hints(plan.hints, h)
        /\ view[h].proven = (h \in produced \/ plan.baseline[h])

\* What a delta leaves out could not prove when it was planned.
DeltaIsEnough ==
    \A h \in Core(plan) :
        ~plan.full /\ h \notin plan.attempt /\ ~view[h].proven => ~Provable(h, view, decoded, config)

\* A scan that may settle and has missed nothing.
Sighted == ~plan.noSettle /\ ~missed

PlanInv ==
    pc \in {"levels", "prove"} /\ Sighted =>
        GoodPlan(plan) /\ ViewOfPlan /\ (pc = "levels" /\ ~blind => DeltaIsEnough)

\* A definition is attempted after everything it draws lemmas from; one that is unproven
\* and no longer pending could not prove.
Pending(h) == \E l \in DOMAIN levels : h \in levels[l]

AttemptsInOrder ==
    \A h \in Core(plan) : \A k \in DOMAIN levels :
        \A g \in levels[k] \cap closure(Inputs(plan), Inputs(plan)[h]) :
            ~view[h].proven => \E l \in DOMAIN levels : l > k /\ h \in levels[l]

NothingMissed ==
    \A h \in Core(plan) :
        ~view[h].proven => Pending(h) \/ ~Provable(h, view, decoded, config)

LevelInv ==
    pc = "prove" /\ ~failed /\ Sighted =>
        AttemptsInOrder /\ (plan.full \/ ~blind => NothingMissed)

ScanInv == StoreInv /\ MarkerInv /\ ControlInv /\ PlanInv /\ LevelInv

-----------------------------------------------------------------------------
(* What the worker reads, and the lemma graph over it. *)

LEMMA FillFacts ==
    ASSUME StoreInv, NEW v, GoodView(v), NEW read \in SUBSET stored
    PROVE  /\ GoodView(Fill(v, read))
           /\ \A h \in Def : v[h] # None => Fill(v, read)[h] = v[h]
           /\ \A h \in read : Fill(v, read)[h] # None
           /\ \A h \in Def : v[h] = None => Fill(v, read)[h] = IF h \in read THEN meta[h] ELSE None
<1>1. \A h \in Def : meta[h] \in Metadata /\ meta[h] # None
  BY ScanAssumption DEF StoreInv
<1>2. \A h \in Def : Fill(v, read)[h] = IF v[h] # None THEN v[h]
                                        ELSE IF h \in read THEN meta[h] ELSE None
  BY DEF Fill
<1>3. \A h \in Def : v[h] \in Metadata \cup {None}
  BY DEF GoodView
<1>4. Fill(v, read) \in [Def -> Metadata \cup {None}]
  BY <1>1, <1>3 DEF Fill
<1>5. \A h \in Def : Fill(v, read)[h] # None => h \in stored /\ Fill(v, read)[h].hints \subseteq stored
  BY <1>2 DEF GoodView, StoreInv
<1>6. \A h \in read : Fill(v, read)[h] # None
  BY <1>1, <1>2 DEF StoreInv
<1> QED
  BY <1>2, <1>4, <1>5, <1>6 DEF GoodView

LEMMA ReadsStored ==
    /\ \A out, bad : Lists(out, bad) \subseteq stored
    /\ \A list, out, bad : Reads(list, out, bad) \subseteq list
BY DEF Lists, Reads

\* The core of a plan is closed: the lemma graph does not leave it, and the syntax trees
\* of its definitions do not either.
LEMMA CoreFacts ==
    ASSUME NEW p, Snapshot(p.baseline, p.hints)
    PROVE  /\ Core(p) \subseteq DOMAIN p.baseline /\ Core(p) \in SUBSET Def
           /\ DOMAIN Inputs(p) = DOMAIN p.baseline
           /\ \A h \in Core(p) : /\ Inputs(p)[h] = Deps[h] \cup Hints(p.hints, h)
                                 /\ Inputs(p)[h] \subseteq Core(p)
                                 /\ Deps[h] \subseteq Core(p) /\ Hints(p.hints, h) \subseteq Core(p)
<1>1. DOMAIN Inputs(p) = DOMAIN p.baseline /\ DOMAIN p.baseline \subseteq Def
  BY DEF Inputs, Graph, Snapshot
<1>2. /\ Core(p) \subseteq DOMAIN Inputs(p)
      /\ \A h \in Core(p) : Inputs(p)[h] \subseteq Core(p)
  BY FoundedFacts DEF Core
<1>3. \A h \in DOMAIN p.baseline : Inputs(p)[h] = Deps[h] \cup Hints(p.hints, h)
  BY DEF Inputs, Graph
<1> QED
  BY <1>1, <1>2, <1>3

\* Inside the core of a plan that may settle, the lemma graph holds the lemmas that are in
\* scope.
LEMMA ReachInPlan ==
    ASSUME NEW p, GoodPlan(p), NEW h \in Core(p)
    PROVE  /\ Inputs(p)[h] \in SUBSET Def
           /\ closure(Inputs(p), Inputs(p)[h]) \subseteq Core(p)
           /\ closure(Deps, Deps[h]) \subseteq closure(Inputs(p), Inputs(p)[h])
           /\ Hints(p.hints, h) \subseteq closure(Inputs(p), Inputs(p)[h])
           /\ Inputs(p)[h] \subseteq closure(Inputs(p), Inputs(p)[h])
           /\ \A g \in closure(Inputs(p), Inputs(p)[h]) :
                 closure(Inputs(p), Inputs(p)[g]) \subseteq closure(Inputs(p), Inputs(p)[h])
<1> DEFINE B == Core(p)
           e == Inputs(p)
           R == closure(e, e[h])
<1>1. /\ B \in SUBSET Def /\ B \subseteq DOMAIN e
      /\ \A g \in B : /\ e[g] = Deps[g] \cup Hints(p.hints, g)
                      /\ e[g] \subseteq B
  BY CoreFacts DEF GoodPlan
<1>2. e[h] \in SUBSET Def /\ e[h] \in SUBSET B
  BY <1>1
<1> HIDE DEF B, e
<1>3. R \subseteq B
  BY <1>1, <1>2, ClosureAgree
<1>4. e[h] \subseteq R
  BY <1>2, ClosureBase
<1>5. ASSUME NEW g \in R
      PROVE  e[g] \subseteq R
  <2>1. g \in B
    BY <1>3
  <2>2. ASSUME NEW C \in SUBSET Def, e[h] \subseteq C, ClosedUnder(e, C)
        PROVE  e[g] \subseteq C
    <3>1. g \in C
      BY <2>2 DEF closure
    <3> QED
      BY <1>1, <2>1, <2>2, <3>1 DEF ClosedUnder
  <2>3. e[g] \subseteq Def
    BY <1>1, <2>1
  <2> QED
    BY <2>2, <2>3 DEF closure
<1>6. R \in SUBSET Def
  BY <1>1, <1>3
<1>7. ClosedUnder(e, R) /\ ClosedUnder(Deps, R)
  BY <1>1, <1>3, <1>5 DEF ClosedUnder
<1>8. closure(Deps, Deps[h]) \subseteq R
  <2>1. Deps[h] \subseteq R
    BY <1>1, <1>4 DEF B
  <2> HIDE DEF R
  <2> QED
    BY <1>6, <1>7, <2>1, ClosureLeast
<1>9. ASSUME NEW g \in R
      PROVE  closure(e, e[g]) \subseteq R
  <2>1. e[g] \subseteq R
    BY <1>5
  <2> HIDE DEF R
  <2> QED
    BY <1>6, <1>7, <2>1, ClosureLeast
<1>10. Hints(p.hints, h) \subseteq R
  BY <1>1, <1>4 DEF B
<1> QED
  BY <1>2, <1>3, <1>4, <1>8, <1>9, <1>10 DEF B, e

\* What the metadata of the core of a plan say decides what can prove in it.
LEMMA ProvableInPlan ==
    ASSUME NEW p, GoodPlan(p), NEW h \in Core(p), NEW m1, NEW m2, NEW c,
           NEW k1 \in SUBSET Def, NEW k2 \in SUBSET Def, Core(p) \subseteq k1, Core(p) \subseteq k2,
           m1[h].hints = Hints(p.hints, h), m2[h].hints = Hints(p.hints, h),
           \A l \in closure(Inputs(p), Inputs(p)[h]) :
               (m1[l] # None /\ m1[l].proven) <=> (m2[l] # None /\ m2[l].proven)
    PROVE  Provable(h, m1, k1, c) <=> Provable(h, m2, k2, c)
<1>1. /\ Core(p) \in SUBSET Def /\ \A d \in Core(p) : Deps[d] \subseteq Core(p)
      /\ m1[h].hints \subseteq Core(p)
  BY CoreFacts DEF GoodPlan
<1>2. closure(Deps, Deps[h]) \cup m1[h].hints \subseteq closure(Inputs(p), Inputs(p)[h])
  BY ReachInPlan
<1>3. \A l \in closure(Deps, Deps[h]) \cup m1[h].hints :
          (m1[l] # None /\ m1[l].proven) <=> (m2[l] # None /\ m2[l].proven)
  BY <1>2
<1> QED
  BY <1>1, <1>3, SameAnswer

\* Where a graph agrees with that of a plan on the core, it reaches the same from there.
LEMMA SameReach ==
    ASSUME NEW p, GoodPlan(p), NEW in, Core(p) \subseteq DOMAIN in,
           \A h \in Core(p) : in[h] = Inputs(p)[h], NEW h \in Core(p)
    PROVE  closure(in, in[h]) = closure(Inputs(p), Inputs(p)[h])
<1> DEFINE B == Core(p)
           e == Inputs(p)
<1>1. B \in SUBSET Def /\ B \subseteq DOMAIN e /\ \A g \in B : e[g] \subseteq B
  BY CoreFacts DEF GoodPlan
<1>2. \A g \in B : e[g] = in[g] /\ e[g] \subseteq B
  BY <1>1
<1>3. e[h] \in SUBSET B /\ in[h] = e[h]
  BY <1>1
<1>4. B \subseteq DOMAIN in
  OBVIOUS
<1> HIDE DEF B, e
<1> QED
  BY <1>1, <1>2, <1>3, <1>4, ClosureAgree DEF B, e

-----------------------------------------------------------------------------
(* planProofScan. *)

\* What the passes of a plan have read.
LEMMA PlanReadsFacts ==
    ASSUME StoreInv, NEW hit, NEW r, r = PlanReads(hit)
    PROVE  /\ GoodView(r.proven) /\ GoodView(r.hints) /\ GoodView(r.cycle) /\ GoodView(r.delta)
           /\ \A h \in Def : view[h] # None => r.proven[h] = view[h]
           /\ \A h \in Def : r.proven[h] # None => r.hints[h] = r.proven[h]
           /\ \A h \in Def : r.hints[h] # None => r.cycle[h] = r.hints[h]
           /\ \A h \in Def : r.cycle[h] # None => r.delta[h] = r.cycle[h]
           /\ r.cycleKnown \subseteq r.deltaKnown /\ r.deltaKnown \subseteq stored
           /\ decoded \subseteq r.cycleKnown
<1> DEFINE read(pass) == Reads(Lists(down, pass \in hit), down, pass \in hit)
<1>1. \A pass : read(pass) \in SUBSET stored
  BY ReadsStored
<1> HIDE DEF read
<1>2. GoodView(view) /\ decoded \subseteq stored
  BY DEF StoreInv
<1>3. /\ r.proven = Fill(view, read("proven"))
      /\ r.hints = Fill(r.proven, read("hints"))
      /\ r.cycle = Fill(r.hints, read("cycle"))
      /\ r.delta = Fill(r.cycle, read("delta"))
      /\ r.cycleKnown = decoded \cup read("cycle")
      /\ r.deltaKnown = decoded \cup read("cycle") \cup read("delta")
  BY DEF PlanReads, read
<1>4. GoodView(r.proven) /\ \A h \in Def : view[h] # None => r.proven[h] = view[h]
  BY <1>1, <1>2, <1>3, FillFacts
<1>5. GoodView(r.hints) /\ \A h \in Def : r.proven[h] # None => r.hints[h] = r.proven[h]
  BY <1>1, <1>3, <1>4, FillFacts
<1>6. GoodView(r.cycle) /\ \A h \in Def : r.hints[h] # None => r.cycle[h] = r.hints[h]
  BY <1>1, <1>3, <1>5, FillFacts
<1>7. GoodView(r.delta) /\ \A h \in Def : r.cycle[h] # None => r.delta[h] = r.cycle[h]
  BY <1>1, <1>3, <1>6, FillFacts
<1> QED
  BY <1>1, <1>2, <1>3, <1>4, <1>5, <1>6, <1>7

\* A scan that has read the whole store for its cycle test.
PlanSees(r, hit) ==
    /\ Lists(down, "hints" \in hit) = stored
    /\ Complete(r.cycle, r.cycleKnown, Lists(down, "cycle" \in hit))

\* It knows the store, and its snapshots are right about what they hold.
PlanKnows(r, p) ==
    /\ \A h \in stored : /\ r.cycle[h] # None /\ r.cycle[h] \in Metadata
                         /\ r.cycle[h].hints \subseteq stored
                         /\ r.delta[h] = r.cycle[h]
    /\ r.cycleKnown = stored /\ r.deltaKnown = stored
    /\ DOMAIN p.baseline \subseteq stored
    /\ \A h \in DOMAIN p.baseline : /\ p.baseline[h] = r.cycle[h].proven
                                    /\ Hints(p.hints, h) = r.cycle[h].hints
                                    /\ h \in DOMAIN p.hints <=> r.cycle[h].hints # {}
    /\ Snapshot(p.baseline, p.hints)

LEMMA PlanFacts ==
    ASSUME StoreInv, NEW hit, NEW r, r = PlanReads(hit), NEW p, p = planProofScan(r, hit),
           PlanSees(r, hit)
    PROVE  PlanKnows(r, p)
<1> DEFINE list == Lists(down, "proven" \in hit)
<1>1. /\ p.baseline = provenSnapshot(r.proven, list)
      /\ p.hints = hintSnapshot(r.hints, stored)
  BY DEF planProofScan, PlanSees
<1>2. list \subseteq stored /\ stored \subseteq Def
  BY ReadsStored DEF StoreInv
<1>3. /\ GoodView(r.proven) /\ GoodView(r.hints) /\ GoodView(r.cycle) /\ GoodView(r.delta)
      /\ \A h \in Def : r.proven[h] # None => r.hints[h] = r.proven[h]
      /\ \A h \in Def : r.hints[h] # None => r.cycle[h] = r.hints[h]
      /\ \A h \in Def : r.cycle[h] # None => r.delta[h] = r.cycle[h]
      /\ r.cycleKnown \subseteq r.deltaKnown /\ r.deltaKnown \subseteq stored
  BY PlanReadsFacts
<1>4. stored \subseteq r.cycleKnown /\ \A h \in stored : r.cycle[h] # None
  BY DEF PlanSees, Complete
<1>5. ASSUME NEW h \in stored
      PROVE  /\ r.cycle[h] # None /\ r.cycle[h] \in Metadata
             /\ r.cycle[h].hints \subseteq stored
             /\ r.delta[h] = r.cycle[h]
  BY <1>2, <1>3, <1>4 DEF GoodView
<1> HIDE DEF list
<1>6. /\ DOMAIN p.baseline = {l \in list : r.proven[l] # None}
      /\ \A h \in DOMAIN p.baseline : p.baseline[h] = r.proven[h].proven
  BY <1>1 DEF provenSnapshot
<1>7. /\ DOMAIN p.hints = {l \in stored : r.hints[l] # None /\ r.hints[l].hints # {}}
      /\ \A h \in DOMAIN p.hints : p.hints[h] = r.hints[h].hints
  BY <1>1 DEF hintSnapshot
<1>8. ASSUME NEW h \in DOMAIN p.baseline
      PROVE  /\ h \in stored /\ p.baseline[h] = r.cycle[h].proven
             /\ Hints(p.hints, h) = r.cycle[h].hints
             /\ h \in DOMAIN p.hints <=> r.cycle[h].hints # {}
  <2>1. h \in stored /\ h \in Def /\ r.proven[h] # None
    BY <1>2, <1>6
  <2>2. r.hints[h] = r.proven[h] /\ r.cycle[h] = r.hints[h] /\ r.hints[h] # None
    BY <1>3, <2>1
  <2> QED
    BY <1>6, <1>7, <2>1, <2>2 DEF Hints
<1>9. \A h \in DOMAIN p.hints : p.hints[h] \subseteq Def
  BY <1>2, <1>3, <1>7 DEF GoodView
<1>10. \A h \in DOMAIN p.baseline : p.baseline[h] \in BOOLEAN
  BY <1>5, <1>8 DEF Metadata
<1>11. Snapshot(p.baseline, p.hints)
  BY <1>2, <1>8, <1>9, <1>10 DEF Snapshot
<1> QED
  BY <1>3, <1>4, <1>5, <1>8, <1>11 DEF PlanKnows

\* So its lemma graph is that of the store.
LEMMA WholeGraph ==
    ASSUME StoreInv, NEW v, NEW in, in = lemmaInputHashes(v, stored),
           \A h \in stored : v[h] # None /\ v[h] \in Metadata /\ v[h].hints \subseteq stored,
           NEW p, Snapshot(p.baseline, p.hints),
           \A h \in Core(p) : h \in stored /\ Hints(p.hints, h) = v[h].hints
    PROVE  /\ DOMAIN in = Def
           /\ \A h \in stored : in[h] \subseteq stored
           /\ \A h \in Core(p) : in[h] = Inputs(p)[h]
<1>1. DOMAIN in = Def
  BY DEF lemmaInputHashes
<1>2. \A h \in stored : in[h] = Deps[h] \cup v[h].hints
  BY DEF lemmaInputHashes, StoreInv
<1>3. \A h \in Core(p) : Inputs(p)[h] = Deps[h] \cup Hints(p.hints, h)
  BY CoreFacts
<1> QED
  BY <1>1, <1>2, <1>3 DEF StoreInv

LEMMA PlanIsGood ==
    ASSUME StoreInv, NEW hit, NEW r, r = PlanReads(hit), NEW p, p = planProofScan(r, hit),
           PlanSees(r, hit), ~p.noSettle
    PROVE  GoodPlan(p)
<1> DEFINE in    == lemmaInputHashes(r.cycle, stored)
           delta == lemmaInputHashes(r.delta, stored)
           e     == Inputs(p)
<1>1. /\ \A h \in stored : /\ r.cycle[h] # None /\ r.cycle[h] \in Metadata
                           /\ r.cycle[h].hints \subseteq stored
                           /\ r.delta[h] = r.cycle[h]
      /\ r.cycleKnown = stored /\ r.deltaKnown = stored
      /\ DOMAIN p.baseline \subseteq stored
      /\ \A h \in DOMAIN p.baseline : Hints(p.hints, h) = r.cycle[h].hints
      /\ Snapshot(p.baseline, p.hints)
  <2>1. PlanKnows(r, p)
    BY PlanFacts
  <2> QED
    BY <2>1 DEF PlanKnows
<1>2. Core(p) \subseteq DOMAIN p.baseline /\ Core(p) \subseteq stored /\ Core(p) \in SUBSET Def
  BY <1>1, CoreFacts
<1>3. /\ DOMAIN in = Def /\ \A h \in stored : in[h] \subseteq stored
      /\ \A h \in Core(p) : in[h] = e[h]
  BY <1>1, <1>2, WholeGraph
<1>4. /\ DOMAIN delta = Def /\ \A h \in stored : delta[h] \subseteq stored
      /\ \A h \in Core(p) : delta[h] = e[h]
  BY <1>1, <1>2, WholeGraph
<1>5. stored \subseteq Def
  BY DEF StoreInv
<1>6. \A h \in Core(p) : e[h] \subseteq Core(p)
  BY <1>1, CoreFacts
<1> HIDE DEF in, delta, e
<1>7. ASSUME NEW g, DOMAIN g = Def, \A h \in Core(p) : g[h] = e[h], NEW h \in Core(p)
      PROVE  closure(g, g[h]) = closure(e, e[h]) /\ closure(e, e[h]) \subseteq Core(p)
  <2>1. Core(p) \subseteq DOMAIN e
    BY <1>1, <1>2, CoreFacts DEF e
  <2>2. \A x \in Core(p) : e[x] = g[x] /\ e[x] \subseteq Core(p)
    BY <1>6, <1>7
  <2>3. e[h] \in SUBSET Core(p) /\ g[h] = e[h]
    BY <1>6, <1>7
  <2>4. closure(e, e[h]) = closure(g, e[h]) /\ closure(e, e[h]) \subseteq Core(p)
    BY <1>2, <1>7, <2>1, <2>2, <2>3, ClosureAgree
  <2> QED
    BY <2>3, <2>4
<1>8. ASSUME NEW h \in Core(p)
      PROVE  h \notin closure(e, e[h])
  <2>1. ~lemmaInputCycle(in, stored)
    BY <1>1 DEF planProofScan, PlanSees, Complete, in
  <2>2. h \notin closure(in, in[h])
    BY <1>2, <2>1 DEF lemmaInputCycle
  <2> QED
    BY <1>3, <1>7, <2>2
<1>9. ASSUME ~p.full, NEW g \in Core(p), NEW h \in Core(p), g \in p.attempt, g \in closure(e, e[h])
      PROVE  h \in p.attempt
  <2> DEFINE seeds == Seeds(p.baseline, p.hints)
  <2>1. /\ p.attempt = reverseDepClosure(lemmaInputHashes(r.delta, r.deltaKnown), Lists(down, "delta" \in hit), seeds)
        /\ Complete(r.delta, r.deltaKnown, Lists(down, "delta" \in hit))
    BY <1>9 DEF planProofScan
  <2>2. p.attempt = reverseDepClosure(delta, stored, seeds)
    BY <1>1, <2>1 DEF Complete, delta
  <2> HIDE DEF seeds
  <2>3. p.attempt = seeds \cup {x \in stored : closure(delta, delta[x]) \cap seeds # {}}
    BY <2>2 DEF reverseDepClosure
  <2>4. g \in closure(delta, delta[h])
    BY <1>4, <1>7, <1>9
  <2>5. closure(delta, delta[g]) \subseteq closure(delta, delta[h])
    <3>1. closure(delta, delta[g]) = closure(e, e[g]) /\ closure(delta, delta[h]) = closure(e, e[h])
      BY <1>4, <1>7
    <3>2. closure(e, e[h]) \subseteq Core(p)
      BY <1>3, <1>7
    <3>3. \A x \in Core(p) : x \in DOMAIN e
      BY <1>1, <1>2, CoreFacts DEF e
    <3>4. ASSUME NEW C \in SUBSET Def, e[h] \subseteq C, ClosedUnder(e, C)
          PROVE  e[g] \subseteq C
      <4>1. g \in C
        BY <1>9, <3>4 DEF closure
      <4> QED
        BY <3>3, <3>4, <4>1 DEF ClosedUnder
    <3>5. closure(e, e[g]) \subseteq closure(e, e[h])
      BY <3>4 DEF closure
    <3> QED
      BY <3>1, <3>5
  <2> QED
    BY <1>2, <1>9, <2>3, <2>4, <2>5
<1> QED
  BY <1>1, <1>8, <1>9 DEF GoodPlan, e

\* What the marker does not seed is as the marker knows it.
LEMMA NotSeeded ==
    ASSUME marker # None, MarkerInv, ~blind, NEW p, NEW l \in DOMAIN p.baseline, l \in Def,
           l \notin Seeds(p.baseline, p.hints)
    PROVE  /\ l \in DOMAIN marker.proven /\ marker.proven[l] = p.baseline[l]
           /\ Hints(marker.hints, l) = Hints(p.hints, l)
           /\ Recorded(marker.proven, marker.hints)[l] # None
           /\ Recorded(marker.proven, marker.hints)[l].proven = p.baseline[l]
           /\ Recorded(marker.proven, marker.hints)[l].hints = Hints(p.hints, l)
<1> DEFINE m == Recorded(marker.proven, marker.hints)
<1>1. l \in DOMAIN marker.proven /\ marker.proven[l] = p.baseline[l]
  BY DEF Seeds, provenSetMoved
<1>2. Hints(marker.hints, l) = Hints(p.hints, l)
  <2>1. CASE l \in DOMAIN p.hints
    BY <2>1 DEF Seeds, Hints
  <2>2. CASE l \notin DOMAIN p.hints
    BY <2>2 DEF Seeds, Hints
  <2> QED
    BY <2>1, <2>2
<1>3. m[l] = [proven |-> marker.proven[l], hints |-> Hints(marker.hints, l)]
  BY <1>1 DEF Recorded
<1>4. marker.proven[l] \in BOOLEAN /\ Hints(marker.hints, l) \subseteq Def
  BY <1>1 DEF MarkerInv, Snapshot, Hints
<1> HIDE DEF m
<1>5. m[l] \in Metadata
  BY <1>3, <1>4 DEF Metadata
<1>6. m[l] # None
  BY <1>5, ScanAssumption
<1>7. m[l].proven = marker.proven[l] /\ m[l].hints = Hints(marker.hints, l)
  BY <1>3
<1> QED
  BY <1>1, <1>2, <1>6, <1>7 DEF m

\* What the delta leaves out is as the marker knows it, and so is all it draws lemmas from.
LEMMA DeltaFacts ==
    ASSUME StoreInv, MarkerInv, ~blind,
           NEW hit, NEW r, r = PlanReads(hit), NEW p, p = planProofScan(r, hit),
           PlanSees(r, hit), ~p.noSettle, ~p.full,
           NEW h \in Core(p), h \notin p.attempt, ~r.delta[h].proven
    PROVE  ~Provable(h, r.delta, r.deltaKnown, config)
<1> DEFINE m == Recorded(marker.proven, marker.hints)
           seeds == Seeds(p.baseline, p.hints)
           in == lemmaInputHashes(r.delta, stored)
           e == Inputs(p)
           R == closure(e, e[h])
           f == Graph(marker.proven, marker.hints)
<1>1. GoodPlan(p)
  BY PlanIsGood
<1>2. /\ \A g \in stored : /\ r.cycle[g] # None /\ r.cycle[g] \in Metadata
                           /\ r.cycle[g].hints \subseteq stored
                           /\ r.delta[g] = r.cycle[g]
      /\ r.deltaKnown = stored
      /\ DOMAIN p.baseline \subseteq stored
      /\ \A g \in DOMAIN p.baseline : /\ p.baseline[g] = r.cycle[g].proven
                                      /\ Hints(p.hints, g) = r.cycle[g].hints
      /\ Snapshot(p.baseline, p.hints)
  <2>1. PlanKnows(r, p)
    BY PlanFacts
  <2> QED
    BY <2>1 DEF PlanKnows
<1>3. Core(p) \subseteq DOMAIN p.baseline /\ Core(p) \in SUBSET Def /\ Core(p) \subseteq stored
  BY <1>2, CoreFacts
<1>4. DOMAIN in = Def /\ \A g \in Core(p) : in[g] = e[g]
  BY <1>2, <1>3, WholeGraph
<1>5. /\ marker # None /\ marker.config = config
      /\ p.attempt = reverseDepClosure(lemmaInputHashes(r.delta, r.deltaKnown), Lists(down, "delta" \in hit), seeds)
      /\ Complete(r.delta, r.deltaKnown, Lists(down, "delta" \in hit))
  BY DEF planProofScan
<1>6. p.attempt = seeds \cup {x \in stored : closure(in, in[x]) \cap seeds # {}}
  <2> HIDE DEF seeds
  <2> QED
    BY <1>2, <1>5 DEF Complete, reverseDepClosure
<1>7. closure(in, in[h]) = R
  <2> HIDE DEF in
  <2> QED
    BY <1>1, <1>3, <1>4, SameReach
<1>8. h \notin seeds /\ R \cap seeds = {}
  <2> HIDE DEF seeds, in, R
  <2> QED
    BY <1>3, <1>6, <1>7
<1>9. R \subseteq Core(p) /\ e[h] \subseteq R
  BY <1>1, ReachInPlan
<1>10. ASSUME NEW l \in R \cup {h}
       PROVE  /\ l \in DOMAIN marker.proven /\ marker.proven[l] = p.baseline[l]
              /\ Hints(marker.hints, l) = Hints(p.hints, l)
              /\ m[l] # None /\ m[l].proven = p.baseline[l]
              /\ m[l].hints = Hints(p.hints, l)
  <2>1. l \in DOMAIN p.baseline /\ l \in Def /\ l \notin seeds
    BY <1>3, <1>8, <1>9
  <2> QED
    BY <1>5, <2>1, NotSeeded
<1>11. h \in Founded(f)
  <2>1. R \cup {h} \subseteq DOMAIN f
    BY <1>10 DEF Graph
  <2>2. ASSUME NEW l \in R \cup {h}
        PROVE  f[l] \subseteq R \cup {h}
    <3>1. f[l] = Deps[l] \cup Hints(p.hints, l)
      BY <1>10 DEF Graph
    <3>2. f[l] = e[l]
      BY <1>1, <1>3, <1>9, <3>1, CoreFacts DEF GoodPlan
    <3>3. CASE l = h
      BY <1>9, <3>2, <3>3
    <3>4. CASE l \in R
      <4>1. l \in Core(p)
        BY <1>9, <3>4
      <4>2. e[l] \subseteq closure(e, e[l]) /\ closure(e, e[l]) \subseteq R
        BY <1>1, <3>4, <4>1, ReachInPlan
      <4> QED
        BY <3>2, <4>2
    <3> QED
      BY <3>3, <3>4
  <2> HIDE DEF R, f
  <2>3. ClosedUnder(f, R \cup {h})
    BY <2>2 DEF ClosedUnder
  <2> QED
    BY <2>1, <2>3, FoundedFacts
<1>12. ~Provable(h, m, Def, config)
  <2>1. ~marker.proven[h]
    BY <1>2, <1>3, <1>10
  <2> QED
    BY <1>5, <1>11, <2>1 DEF MarkerInv
<1>13. ASSUME NEW l \in R
       PROVE  (m[l] # None /\ m[l].proven) <=> (r.delta[l] # None /\ r.delta[l].proven)
  <2>1. l \in DOMAIN p.baseline /\ l \in stored
    BY <1>3, <1>9
  <2> HIDE DEF m, R
  <2> QED
    BY <1>2, <1>10, <2>1
<1>14. m[h].hints = Hints(p.hints, h) /\ r.delta[h].hints = Hints(p.hints, h)
  <2> HIDE DEF m, R
  <2> QED
    BY <1>2, <1>3, <1>10
<1>15. Core(p) \subseteq Def /\ Core(p) \subseteq stored /\ stored \subseteq Def
  BY <1>3 DEF StoreInv
<1> HIDE DEF m, e
<1>16. Provable(h, m, Def, config) <=> Provable(h, r.delta, stored, config)
  BY <1>1, <1>13, <1>14, <1>15, ProvableInPlan DEF e
<1> QED
  BY <1>2, <1>12, <1>16

-----------------------------------------------------------------------------
(* topoFuncOrder and topoFuncLevels. *)

\* An order lists each object once.
LEMMA OrderOnce ==
    ASSUME NEW list \in SUBSET Def, NEW in, NEW ord \in Orders(in, list)
    PROVE  /\ Cardinality(list) \in Nat
           /\ ord \in [1 .. Cardinality(list) -> list]
           /\ \A h \in list : \E i \in DOMAIN ord : ord[i] = h
           /\ \A i, j \in DOMAIN ord : ord[i] = ord[j] => i = j
<1> DEFINE n == Cardinality(list)
<1>1. IsFiniteSet(list) /\ n \in Nat
  BY ScanAssumption, FS_Subset, FS_CardinalityType
<1>2. ord \in [1 .. n -> list] /\ \A h \in list : \E i \in 1 .. n : ord[i] = h
  BY DEF Orders
<1>3. IsFiniteSet(1 .. n) /\ Cardinality(1 .. n) = n
  <2>1. 1 \in Int /\ n \in Int
    BY <1>1
  <2>2. IsFiniteSet(1 .. n) /\ Cardinality(1 .. n) = IF 1 > n THEN 0 ELSE n - 1 + 1
    BY <2>1, FS_Interval
  <2> QED
    BY <1>1, <2>2
<1>4. ord \in Surjection(1 .. n, list)
  BY <1>2 DEF Surjection
<1>5. ord \in Injection(1 .. n, list)
  BY <1>1, <1>3, <1>4, FS_SurjSameCardinalityImpliesInj
<1>6. \A i, j \in 1 .. n : ord[i] = ord[j] => i = j
  BY <1>5 DEF Injection, IsInjective
<1> QED
  BY <1>1, <1>2, <1>6

\* A graph that is that of the plan on the core of the plan.
Agrees(in, p) ==
    Core(p) \subseteq DOMAIN in /\ \A h \in Core(p) : in[h] = Inputs(p)[h]

LEMMA LevelAboveInput ==
    ASSUME NEW p, GoodPlan(p), NEW in1, Agrees(in1, p), NEW in2, Agrees(in2, p),
           NEW list \in SUBSET Def,
           NEW ord \in Orders(in1, list), NEW level \in topoFuncLevels(in2, ord),
           NEW i \in DOMAIN ord, NEW j \in DOMAIN ord,
           ord[i] \in Core(p), ord[j] \in Inputs(p)[ord[i]]
    PROVE  level[j] < level[i]
<1> DEFINE e == Inputs(p)
<1>1. in1[ord[i]] = e[ord[i]] /\ in2[ord[i]] = e[ord[i]]
  BY DEF Agrees
<1>2. ord[j] \in Core(p)
  BY CoreFacts DEF GoodPlan
<1>3. ord[i] \notin closure(in1, in1[ord[j]])
  <2>1. closure(in1, in1[ord[j]]) = closure(e, e[ord[j]])
    BY <1>2, SameReach DEF Agrees
  <2>2. closure(e, e[ord[j]]) \subseteq closure(e, e[ord[i]])
    BY ReachInPlan
  <2>3. ord[i] \notin closure(e, e[ord[i]])
    BY DEF GoodPlan
  <2> QED
    BY <2>1, <2>2, <2>3
<1>4. j < i
  <2>1. ord[j] \in in1[ord[i]]
    BY <1>1
  <2> QED
    BY <1>3, <2>1, OrderOnce DEF Orders
<1>5. level \in [DOMAIN ord -> 0 .. Cardinality(Def)]
  BY DEF topoFuncLevels
<1> DEFINE below == {IF k < i THEN level[k] + 1 ELSE 1 : k \in {x \in DOMAIN ord : ord[x] \in in2[ord[i]]}}
<1>6. Deepest(below, level[i])
  BY DEF topoFuncLevels
<1>7. level[j] + 1 \in below
  BY <1>1, <1>4
<1>8. level[j] + 1 <= level[i]
  <2> HIDE DEF below
  <2> QED
    BY <1>6, <1>7 DEF Deepest
<1>9. Cardinality(Def) \in Nat
  BY ScanAssumption, FS_CardinalityType
<1> QED
  BY <1>5, <1>8, <1>9

\* Along any chain of inputs the level rises.
LEMMA LevelRises ==
    ASSUME NEW p, GoodPlan(p), NEW in1, Agrees(in1, p), NEW in2, Agrees(in2, p),
           NEW list \in SUBSET Def, Core(p) \subseteq list,
           NEW ord \in Orders(in1, list), NEW level \in topoFuncLevels(in2, ord),
           NEW i \in DOMAIN ord, NEW j \in DOMAIN ord,
           ord[i] \in Core(p), ord[j] \in closure(Inputs(p), Inputs(p)[ord[i]])
    PROVE  level[j] < level[i]
<1> DEFINE B == Core(p)
           e == Inputs(p)
           C == {x \in B : \A k \in DOMAIN ord : ord[k] = x => level[k] < level[i]}
<1>1. B \in SUBSET Def /\ \A x \in B : e[x] \subseteq B
  BY CoreFacts DEF GoodPlan
<1>2. \A x \in B : \E k \in DOMAIN ord : ord[k] = x
  <2>1. \A x \in list : \E k \in DOMAIN ord : ord[k] = x
    BY OrderOnce
  <2> QED
    BY <2>1
<1>3. \A k \in DOMAIN ord : level[k] \in Nat
  <2>1. Cardinality(Def) \in Nat
    BY ScanAssumption, FS_CardinalityType
  <2> QED
    BY <2>1 DEF topoFuncLevels
<1>4. \A a, b \in DOMAIN ord : ord[a] \in B /\ ord[b] \in e[ord[a]] => level[b] < level[a]
  BY LevelAboveInput
<1>5. e[ord[i]] \subseteq C
  BY <1>1, <1>4
<1>6. ASSUME NEW x \in C, NEW y \in e[x]
      PROVE  y \in C
  <2>1. PICK a \in DOMAIN ord : ord[a] = x
    BY <1>2
  <2>2. level[a] < level[i]
    BY <2>1
  <2>3. y \in B
    BY <1>1
  <2>4. ASSUME NEW b \in DOMAIN ord, ord[b] = y
        PROVE  level[b] < level[i]
    <3>1. level[b] < level[a]
      BY <1>4, <2>1, <2>4
    <3> QED
      BY <1>3, <2>2, <3>1
  <2> QED
    BY <2>3, <2>4
<1>7. ClosedUnder(e, C) /\ C \in SUBSET Def
  BY <1>1, <1>6 DEF ClosedUnder
<1>8. closure(e, e[ord[i]]) \subseteq C
  <2> HIDE DEF C, e
  <2> QED
    BY <1>5, <1>7, ClosureLeast
<1> QED
  BY <1>8

-----------------------------------------------------------------------------
(* The invariant holds at first, and the steps of the other processes keep it. *)

LEMMA InitInv == Init => ScanInv
<1> SUFFICES ASSUME Init PROVE ScanInv
  OBVIOUS
<1>1. Blank \in Metadata
  BY DEF Blank, Metadata
<1>2. StoreInv
  BY <1>1 DEF Init, StoreInv, GoodView, Blank
<1>3. ControlInv
  BY DEF Init, ControlInv
<1> QED
  BY <1>2, <1>3 DEF Init, ScanInv, MarkerInv, PlanInv, LevelInv

\* A step that leaves the worker's process and its marker alone.
LEMMA WorkerUntouched ==
    ASSUME ScanInv, stored \subseteq stored', UNCHANGED <<marker, blind, process>>
    PROVE  MarkerInv' /\ ControlInv' /\ PlanInv' /\ LevelInv'
<1>1. UNCHANGED <<marker, blind, pc, config, view, decoded, down, plan, levels, produced, failed, missed>>
  BY DEF process
<1>2. MarkerInv'
  BY <1>1 DEF ScanInv, MarkerInv, Snapshot
<1>3. ControlInv'
  BY <1>1 DEF ScanInv, ControlInv
<1>4. PlanInv'
  BY <1>1 DEF ScanInv, PlanInv, ViewOfPlan, DeltaIsEnough, Sighted
<1>5. LevelInv'
  BY <1>1 DEF ScanInv, LevelInv, AttemptsInOrder, NothingMissed, Pending, Sighted
<1> QED
  BY <1>2, <1>3, <1>4, <1>5

LEMMA OthersStep ==
    ASSUME ScanInv, Others
    PROVE  ScanInv'
<1>1. PICK h \in Def :
        \/ publish(h) \/ apiHintClear(h)
        \/ \E c \in Config : apiProve(h, c)
        \/ \E t \in Def : apiHint(h, t)
  BY DEF Others
<1>2. CASE publish(h)
  <2>1. StoreInv'
    <3>1. /\ stored' = stored \cup {h} /\ Deps[h] \subseteq stored /\ h \notin stored
          /\ UNCHANGED <<meta, view, decoded>>
      BY <1>2 DEF publish, process
    <3> QED
      BY <3>1 DEF ScanInv, StoreInv, GoodView
  <2> QED
    BY <1>2, <2>1, WorkerUntouched DEF publish, ScanInv
<1>3. ASSUME NEW m \in Metadata, h \in stored, m.hints \subseteq stored,
             meta' = [meta EXCEPT ![h] = m], UNCHANGED <<stored, view, decoded>>
      PROVE  StoreInv'
  <2>1. meta' \in [Def -> Metadata]
    BY <1>3 DEF ScanInv, StoreInv
  <2>2. \A g \in Def : meta'[g].hints \subseteq stored
    BY <1>3 DEF ScanInv, StoreInv
  <2> QED
    BY <1>3, <2>1, <2>2 DEF ScanInv, StoreInv, GoodView
<1>4. meta[h] \in Metadata /\ meta \in [Def -> Metadata]
  BY DEF ScanInv, StoreInv
<1>5. CASE apiHintClear(h)
  <2>1. StoreInv'
    BY <1>3, <1>4, <1>5 DEF apiHintClear, Metadata, process
  <2> QED
    BY <1>5, <2>1, WorkerUntouched DEF apiHintClear, ScanInv
<1>6. ASSUME NEW c \in Config, apiProve(h, c)
      PROVE  ScanInv'
  <2> DEFINE m == [meta[h] EXCEPT !.proven = Provable(h, meta, stored, c)]
  <2>1. m \in Metadata /\ m.hints = meta[h].hints
    <3>1. Provable(h, meta, stored, c) \in BOOLEAN
      BY DEF Provable
    <3> QED
      BY <1>4, <3>1 DEF Metadata
  <2>2. /\ meta' = [meta EXCEPT ![h] = m] /\ h \in stored
        /\ UNCHANGED <<stored, view, decoded>>
    BY <1>4, <1>6 DEF apiProve, process
  <2>3. m.hints \subseteq stored
    BY <2>1 DEF ScanInv, StoreInv
  <2>4. StoreInv'
    <3> HIDE DEF m
    <3> QED
      BY <1>3, <2>1, <2>2, <2>3
  <2> QED
    BY <1>6, <2>4, WorkerUntouched DEF apiProve, ScanInv
<1>7. ASSUME NEW t \in Def, apiHint(h, t)
      PROVE  ScanInv'
  <2>1. StoreInv'
    BY <1>3, <1>4, <1>7 DEF apiHint, Metadata, ScanInv, StoreInv, process
  <2> QED
    BY <1>7, <2>1, WorkerUntouched DEF apiHint, ScanInv
<1> QED
  BY <1>1, <1>2, <1>5, <1>6, <1>7

-----------------------------------------------------------------------------
(* The steps of the worker. *)

LEMMA MarkerKept ==
    ASSUME MarkerInv, UNCHANGED <<marker, blind, stored>>
    PROVE  MarkerInv'
BY DEF MarkerInv

LEMMA GateStep ==
    ASSUME ScanInv, NEW c \in Config, NEW out, NEW hit, Gate(c, out, hit)
    PROVE  ScanInv'
<1> DEFINE read(pass) == Reads(Lists(out, pass \in hit), out, pass \in hit)
           v == Fill(view, read("proven"))
           w == Fill(v, read("hints"))
<1>1. /\ pc = "stopped" /\ pc' \in {"stopped", "plan"} /\ view' \in {view, w}
      /\ UNCHANGED <<stored, meta, marker, blind, decoded, produced, failed>>
  BY DEF Gate, env
<1>2. \A pass : read(pass) \in SUBSET stored
  BY ReadsStored
<1>3. GoodView(view) /\ StoreInv
  BY DEF ScanInv, StoreInv
<1> HIDE DEF read
<1>4. GoodView(v) /\ \A h \in Def : view[h] # None => v[h] = view[h]
  BY <1>2, <1>3, FillFacts
<1> HIDE DEF v
<1>5. GoodView(w) /\ \A h \in Def : v[h] # None => w[h] = v[h]
  BY <1>2, <1>3, <1>4, FillFacts
<1> HIDE DEF w
<1>6. StoreInv' /\ MarkerInv'
  <2>1. GoodView(view)'
    BY <1>1, <1>3, <1>5 DEF GoodView
  <2> QED
    BY <1>1, <1>3, <2>1, MarkerKept DEF ScanInv, StoreInv
<1>7. ControlInv'
  BY <1>1 DEF ScanInv, ControlInv
<1> QED
  BY <1>1, <1>6, <1>7 DEF ScanInv, PlanInv, LevelInv

LEMMA PlanStep ==
    ASSUME ScanInv, NEW hit, Plan(hit)
    PROVE  ScanInv'
<1> DEFINE r == PlanReads(hit)
           p == planProofScan(r, hit)
<1>1. /\ pc = "plan" /\ pc' = "levels" /\ plan' = p
      /\ view' = IF p.full THEN r.cycle ELSE r.delta
      /\ decoded' = IF p.full THEN r.cycleKnown ELSE r.deltaKnown
      /\ ~missed' => PlanSees(r, hit)
      /\ UNCHANGED <<stored, meta, marker, blind, config, produced, failed>>
  BY DEF Plan, PlanSees, env
<1>2. StoreInv /\ MarkerInv
  BY DEF ScanInv
<1>3. /\ GoodView(r.cycle) /\ GoodView(r.delta)
      /\ r.cycleKnown \subseteq stored /\ r.deltaKnown \subseteq stored
  <2> HIDE DEF r
  <2>1. r = PlanReads(hit)
    BY DEF r
  <2> QED
    BY <1>2, <2>1, PlanReadsFacts
<1> HIDE DEF r, p
<1>4. GoodView(view)'
  BY <1>1, <1>3 DEF GoodView
<1>5. StoreInv' /\ MarkerInv'
  BY <1>1, <1>2, <1>3, <1>4, MarkerKept DEF StoreInv
<1>6. produced = {}
  BY <1>1 DEF ScanInv, ControlInv
<1>7. ControlInv'
  <2>1. DOMAIN p.baseline \subseteq stored
    BY ReadsStored DEF p, planProofScan, provenSnapshot
  <2> QED
    BY <1>1, <1>6, <2>1 DEF ScanInv, ControlInv
<1>8. ASSUME ~p.noSettle, ~missed'
      PROVE  GoodPlan(p) /\ ViewOfPlan' /\ (~blind => DeltaIsEnough')
  <2>1. r = PlanReads(hit) /\ p = planProofScan(r, hit) /\ PlanSees(r, hit)
    BY <1>1, <1>8 DEF r, p
  <2>2. GoodPlan(p)
    BY <1>2, <1>8, <2>1, PlanIsGood
  <2>3. PlanKnows(r, p)
    BY <1>2, <2>1, PlanFacts
  <2>4. /\ \A h \in stored : /\ r.cycle[h] # None /\ r.cycle[h] \in Metadata
                             /\ r.delta[h] = r.cycle[h]
        /\ r.cycleKnown = stored /\ r.deltaKnown = stored
        /\ DOMAIN p.baseline \subseteq stored
        /\ \A h \in DOMAIN p.baseline : /\ p.baseline[h] = r.cycle[h].proven
                                        /\ Hints(p.hints, h) = r.cycle[h].hints
    BY <2>3 DEF PlanKnows
  <2>5. \A h \in stored : view'[h] = r.cycle[h]
    BY <1>1, <2>4
  <2>6. decoded' = stored
    BY <1>1, <2>4
  <2>7. ViewOfPlan'
    BY <1>1, <1>6, <2>4, <2>5, <2>6 DEF ViewOfPlan, Metadata
  <2>8. ASSUME ~blind, NEW h \in Core(p), ~p.full, h \notin p.attempt, ~view'[h].proven
        PROVE  ~Provable(h, view', decoded', config)
    <3>1. view' = r.delta /\ decoded' = r.deltaKnown
      BY <1>1, <2>8
    <3> QED
      BY <1>2, <1>8, <2>1, <2>8, <3>1, DeltaFacts
  <2>9. ~blind => DeltaIsEnough'
    BY <1>1, <2>8 DEF DeltaIsEnough
  <2> QED
    BY <2>2, <2>7, <2>9
<1>9. PlanInv'
  BY <1>1, <1>8 DEF PlanInv, Sighted
<1> QED
  BY <1>1, <1>5, <1>7, <1>9 DEF ScanInv, LevelInv

\* A process that ends keeps nothing but what it has written.
LEMMA ResetStep ==
    ASSUME StoreInv, Reset, UNCHANGED env
    PROVE  StoreInv' /\ ControlInv' /\ PlanInv' /\ LevelInv'
<1>1. /\ pc' = "stopped" /\ view' = [h \in Def |-> None] /\ decoded' = {}
      /\ produced' = {} /\ failed' = FALSE
      /\ UNCHANGED <<stored, meta>>
  BY DEF Reset, env
<1>2. StoreInv'
  BY <1>1 DEF StoreInv, GoodView
<1>3. ControlInv'
  BY <1>1 DEF ControlInv
<1> QED
  BY <1>1, <1>2, <1>3 DEF PlanInv, LevelInv

LEMMA AgreesWithPlan ==
    ASSUME NEW p, GoodPlan(p), NEW v, NEW known,
           \A h \in DOMAIN p.baseline :
               h \in known /\ v[h] # None /\ v[h].hints = Hints(p.hints, h)
    PROVE  Agrees(lemmaInputHashes(v, known), p)
<1>1. /\ Core(p) \subseteq DOMAIN p.baseline /\ Core(p) \in SUBSET Def
      /\ \A h \in Core(p) : Inputs(p)[h] = Deps[h] \cup Hints(p.hints, h)
  BY CoreFacts DEF GoodPlan
<1> QED
  BY <1>1 DEF Agrees, lemmaInputHashes

LEMMA LevelsStep ==
    ASSUME ScanInv, NEW hit, Levels(hit)
    PROVE  ScanInv'
<1> DEFINE list == Lists(down, "order" \in hit)
           read == Reads(list, down, "order" \in hit)
           more == Reads(list, down, "levels" \in hit)
           v    == Fill(view, read)
           w    == Fill(v, more)
           in1  == lemmaInputHashes(v, decoded \cup read)
           in2  == lemmaInputHashes(w, decoded \cup read \cup more)
           N    == Cardinality(Def)
           B    == Core(plan)
           e    == Inputs(plan)
<1>1. /\ pc = "levels" /\ pc' = "prove" /\ view' = w
      /\ decoded' = decoded \cup read \cup more
      /\ missed' = (missed \/ list # stored)
      /\ UNCHANGED <<stored, meta, marker, blind, config, plan, produced, failed>>
      /\ \E ord \in Orders(in1, list) : \E level \in topoFuncLevels(in2, ord) : levels' = Todo(w, ord, level)
  BY DEF Levels, env
<1>2. PICK ord \in Orders(in1, list) : \E level \in topoFuncLevels(in2, ord) : levels' = Todo(w, ord, level)
  BY <1>1
<1>3. PICK level \in topoFuncLevels(in2, ord) : levels' = Todo(w, ord, level)
  BY <1>2
<1>4. /\ read \subseteq list /\ more \subseteq list /\ list \subseteq stored
      /\ stored \subseteq Def /\ StoreInv /\ GoodView(view) /\ decoded \subseteq stored
  BY ReadsStored DEF ScanInv, StoreInv
<1> HIDE DEF list, read, more
<1>5. GoodView(v) /\ \A h \in Def : view[h] # None => v[h] = view[h]
  BY <1>4, FillFacts
<1> HIDE DEF v
<1>6. GoodView(w) /\ \A h \in Def : v[h] # None => w[h] = v[h]
  BY <1>4, <1>5, FillFacts
<1> HIDE DEF w, in1, in2, N
<1>7. StoreInv' /\ MarkerInv'
  <2>1. GoodView(view)'
    BY <1>1, <1>6 DEF GoodView
  <2> QED
    BY <1>1, <1>4, <2>1, MarkerKept DEF ScanInv, StoreInv
<1>8. /\ \A i \in DOMAIN ord : ord[i] \in list
      /\ \A h \in list : \E i \in DOMAIN ord : ord[i] = h
      /\ \A i, j \in DOMAIN ord : ord[i] = ord[j] => i = j
  <2>1. list \in SUBSET Def
    BY <1>4
  <2>2. /\ ord \in [1 .. Cardinality(list) -> list]
        /\ \A h \in list : \E i \in DOMAIN ord : ord[i] = h
        /\ \A i, j \in DOMAIN ord : ord[i] = ord[j] => i = j
    BY <2>1, OrderOnce
  <2> QED
    BY <2>2
<1>9. level \in [DOMAIN ord -> 0 .. N]
  BY DEF topoFuncLevels, N
<1>10. DOMAIN levels' = 0 .. N /\ levels' = [l \in 0 .. N |-> levels'[l]]
  BY <1>3 DEF Todo, N
<1>11. \A l \in 0 .. N : \A h : h \in levels'[l] <=>
          /\ \E i \in DOMAIN ord : ord[i] = h /\ level[i] = l
          /\ plan.full \/ h \in plan.attempt
          /\ ~(w[h] # None /\ w[h].proven)
  <2>1. \A l \in 0 .. N : levels'[l] =
            {h \in {ord[i] : i \in {k \in DOMAIN ord : level[k] = l}} :
                (plan.full \/ h \in plan.attempt) /\ ~(w[h] # None /\ w[h].proven)}
    BY <1>3 DEF Todo, N
  <2> QED
    BY <2>1
<1>12. ControlInv'
  <2>1. produced = {} /\ failed = FALSE /\ DOMAIN plan.baseline \subseteq stored
    BY <1>1 DEF ScanInv, ControlInv
  <2>2. levels' \in [0 .. N -> SUBSET Def]
    <3>1. \A l \in 0 .. N : levels'[l] \subseteq Def
      BY <1>4, <1>8, <1>11
    <3> QED
      BY <1>10, <3>1
  <2>3. \A l \in 0 .. N : levels'[l] \subseteq stored'
    BY <1>1, <1>4, <1>8, <1>11
  <2>4. ASSUME NEW k \in 0 .. N, NEW l \in 0 .. N, NEW h \in levels'[k] \cap levels'[l]
        PROVE  k = l
    <3>1. PICK i \in DOMAIN ord : ord[i] = h /\ level[i] = k
      BY <1>11
    <3>2. PICK j \in DOMAIN ord : ord[j] = h /\ level[j] = l
      BY <1>11
    <3> QED
      BY <1>8, <3>1, <3>2
  <2>5. \A k, l \in DOMAIN levels' : levels'[k] \cap levels'[l] # {} => k = l
    BY <1>10, <2>4
  <2> QED
    BY <1>1, <1>10, <2>1, <2>2, <2>3, <2>5 DEF ControlInv, N
<1>13. ASSUME ~plan.noSettle, ~missed'
       PROVE  GoodPlan(plan) /\ ViewOfPlan' /\ AttemptsInOrder' /\ (plan.full \/ ~blind => NothingMissed')
  <2>1. GoodPlan(plan) /\ ViewOfPlan /\ (~blind => DeltaIsEnough) /\ list = stored
    BY <1>1, <1>13 DEF ScanInv, PlanInv, Sighted
  <2>2. /\ DOMAIN plan.baseline \subseteq stored /\ DOMAIN plan.baseline \subseteq decoded
        /\ \A h \in DOMAIN plan.baseline : view[h] # None /\ view[h].hints = Hints(plan.hints, h)
    BY <2>1 DEF ViewOfPlan
  <2>3. B \subseteq DOMAIN plan.baseline /\ B \subseteq stored /\ B \subseteq decoded /\ B \in SUBSET Def
    BY <1>4, <2>1, <2>2, CoreFacts DEF GoodPlan
  <2>4. \A h \in DOMAIN plan.baseline : v[h] = view[h] /\ w[h] = view[h]
    BY <1>4, <1>5, <1>6, <2>2
  <2>5. ViewOfPlan'
    BY <1>1, <2>1, <2>4 DEF ViewOfPlan
  <2>6. Agrees(in1, plan) /\ Agrees(in2, plan)
    BY <2>1, <2>2, <2>4, AgreesWithPlan DEF in1, in2
  <2>7. \A h \in B : closure(e, e[h]) \subseteq B
    BY <2>1, ReachInPlan
  <2>8. ASSUME NEW h \in B, plan.full \/ h \in plan.attempt, ~w[h].proven, NEW i \in DOMAIN ord, ord[i] = h
        PROVE  level[i] \in 0 .. N /\ h \in levels'[level[i]]
    BY <1>9, <1>11, <2>8
  <2>9. \A h \in B : \E i \in DOMAIN ord : ord[i] = h
    BY <1>8, <2>1, <2>3
  <2>10. ASSUME NEW h \in B, NEW k \in 0 .. N, NEW g \in levels'[k] \cap closure(e, e[h]),
                ~w[h].proven
         PROVE  \E l \in 0 .. N : l > k /\ h \in levels'[l]
    <3>1. PICK i \in DOMAIN ord : ord[i] = h
      BY <2>9
    <3>2. PICK j \in DOMAIN ord : ord[j] = g /\ level[j] = k
      BY <1>11, <2>10
    <3>3. level[j] < level[i]
      <4>1. list \in SUBSET Def /\ Core(plan) \subseteq list
        BY <1>4, <2>1, <2>3
      <4> QED
        BY <2>1, <2>6, <2>10, <3>1, <3>2, <4>1, LevelRises
    <3>4. plan.full \/ h \in plan.attempt
      <4>1. plan.full \/ g \in plan.attempt
        BY <1>11, <2>10
      <4>2. g \in B
        BY <2>7, <2>10
      <4> QED
        BY <2>1, <2>10, <4>1, <4>2 DEF GoodPlan
    <3>5. level[i] \in 0 .. N /\ h \in levels'[level[i]]
      BY <2>8, <2>10, <3>1, <3>4
    <3> QED
      BY <3>2, <3>3, <3>5
  <2>11. AttemptsInOrder'
    <3>1. /\ Core(plan)' = B /\ Inputs(plan)' = e
      BY <1>1
    <3> QED
      BY <1>1, <1>10, <2>10, <3>1 DEF AttemptsInOrder
  <2>12. ASSUME plan.full \/ ~blind, NEW h \in B, ~w[h].proven, ~(\E l \in 0 .. N : h \in levels'[l])
         PROVE  ~Provable(h, w, decoded', config)
    <3>1. PICK i \in DOMAIN ord : ord[i] = h
      BY <2>9
    <3>2. ~(plan.full \/ h \in plan.attempt)
      BY <2>8, <2>12, <3>1
    <3>3. ~Provable(h, view, decoded, config)
      BY <2>1, <2>3, <2>4, <2>12, <3>2 DEF DeltaIsEnough
    <3>4. w[h].hints = Hints(plan.hints, h) /\ view[h].hints = Hints(plan.hints, h)
      BY <2>2, <2>3, <2>4
    <3>5. \A l \in closure(e, e[h]) : (w[l] # None /\ w[l].proven) <=> (view[l] # None /\ view[l].proven)
      BY <2>3, <2>4, <2>7
    <3>6. decoded \in SUBSET Def /\ decoded' \in SUBSET Def /\ B \subseteq decoded /\ B \subseteq decoded'
      BY <1>1, <1>4, <2>3
    <3> QED
      BY <2>1, <2>12, <3>3, <3>4, <3>5, <3>6, ProvableInPlan
  <2>13. plan.full \/ ~blind => NothingMissed'
    BY <1>1, <1>10, <2>12 DEF NothingMissed, Pending
  <2> QED
    BY <2>1, <2>5, <2>11, <2>13
<1>14. PlanInv' /\ LevelInv'
  BY <1>1, <1>13 DEF PlanInv, LevelInv, Sighted
<1> QED
  BY <1>7, <1>12, <1>14 DEF ScanInv

\* What taking x from the lowest level that is not empty leaves pending.
LEMMA AttemptFacts ==
    ASSUME ControlInv, stored \subseteq Def, NEW x \in Def, Takes(x)
    PROVE  /\ pc = "prove" /\ x \in stored
           /\ DOMAIN levels = 0 .. Cardinality(Def) /\ DOMAIN levels' = DOMAIN levels
           /\ levels' \in [0 .. Cardinality(Def) -> SUBSET Def]
           /\ \A k \in DOMAIN levels : levels'[k] = levels[k] \ {x}
           /\ \A k, j \in DOMAIN levels' : levels'[k] \cap levels'[j] # {} => k = j
           /\ \E l \in DOMAIN levels :
                 /\ x \in levels[l]
                 /\ \A k \in DOMAIN levels : x \in levels[k] => k = l
                 /\ \A k \in DOMAIN levels : k < l => levels[k] = {}
<1>1. pc = "prove" /\ \E l \in Current : x \in levels[l] /\ levels' = [levels EXCEPT ![l] = @ \ {x}]
  BY DEF Takes
<1>2. PICK l \in Current : x \in levels[l] /\ levels' = [levels EXCEPT ![l] = @ \ {x}]
  BY <1>1
<1>3. l \in DOMAIN levels /\ \A k \in DOMAIN levels : k < l => levels[k] = {}
  BY DEF Current
<1>4. /\ levels \in [0 .. Cardinality(Def) -> SUBSET Def]
      /\ \A k \in DOMAIN levels : levels[k] \subseteq stored
      /\ \A k, j \in DOMAIN levels : levels[k] \cap levels[j] # {} => k = j
  BY <1>1 DEF ControlInv
<1>5. \A k \in DOMAIN levels : x \in levels[k] => k = l
  BY <1>2, <1>3, <1>4
<1>6. DOMAIN levels' = DOMAIN levels /\ \A k \in DOMAIN levels : levels'[k] = levels[k] \ {x}
  BY <1>2, <1>3, <1>5
<1>7. levels' \in [0 .. Cardinality(Def) -> SUBSET Def]
  BY <1>2, <1>3, <1>4
<1>8. \A k, j \in DOMAIN levels' : levels'[k] \cap levels'[j] # {} => k = j
  BY <1>4, <1>6
<1> QED
  BY <1>1, <1>2, <1>3, <1>4, <1>5, <1>6, <1>7, <1>8

\* What is still to attempt stays in order, when x is taken whose inputs are not pending.
LEMMA OrderKept ==
    ASSUME ControlInv, stored \subseteq Def, NEW x \in Def, Takes(x), UNCHANGED plan,
           AttemptsInOrder, \A h \in Core(plan) : ~view'[h].proven => ~view[h].proven
    PROVE  AttemptsInOrder'
<1> DEFINE e == Inputs(plan)
<1>1. /\ DOMAIN levels = 0 .. Cardinality(Def) /\ DOMAIN levels' = DOMAIN levels
      /\ \A k \in DOMAIN levels : levels'[k] = levels[k] \ {x}
      /\ \E l \in DOMAIN levels :
            /\ \A k \in DOMAIN levels : x \in levels[k] => k = l
            /\ \A k \in DOMAIN levels : k < l => levels[k] = {}
  BY AttemptFacts
<1>2. PICK l \in DOMAIN levels :
            /\ \A k \in DOMAIN levels : x \in levels[k] => k = l
            /\ \A k \in DOMAIN levels : k < l => levels[k] = {}
  BY <1>1
<1>3. ASSUME NEW h \in Core(plan), NEW k \in DOMAIN levels, NEW g \in levels'[k] \cap closure(e, e[h]),
             ~view'[h].proven
      PROVE  \E j \in DOMAIN levels : j > k /\ h \in levels'[j]
  <2>1. g \in levels[k] /\ ~view[h].proven
    BY <1>1, <1>3
  <2>2. PICK j \in DOMAIN levels : j > k /\ h \in levels[j]
    BY <1>3, <2>1 DEF AttemptsInOrder
  <2>3. h # x
    <3>1. SUFFICES ASSUME h = x PROVE FALSE
      OBVIOUS
    <3>2. j = l
      BY <1>2, <2>2, <3>1
    <3>3. k \in Nat /\ j \in Nat
      BY <1>1
    <3> QED
      BY <1>2, <2>1, <2>2, <3>2, <3>3
  <2> QED
    BY <1>1, <2>2, <2>3
<1>4. Core(plan)' = Core(plan) /\ Inputs(plan)' = e
  OBVIOUS
<1> QED
  BY <1>1, <1>3, <1>4 DEF AttemptsInOrder

\* The definition skipped is outside the core of the plan, which the worker has read, or
\* proven.
LEMMA SkipStep ==
    ASSUME ScanInv, NEW x \in Def, Skip(x)
    PROVE  ScanInv'
<1> DEFINE v == Fill(view, {x})
           B == Core(plan)
<1>1. /\ Takes(x)
      /\ \/ ~(x \in decoded /\ view[x] # None) /\ UNCHANGED <<view, decoded>>
         \/ v[x].proven /\ view' = v /\ decoded' = decoded \cup {x}
      /\ UNCHANGED <<stored, meta, marker, blind, pc, config, plan, produced, failed, missed>>
  BY DEF Skip, env
<1>2. ControlInv /\ StoreInv /\ stored \subseteq Def /\ GoodView(view) /\ decoded \subseteq stored
  BY DEF ScanInv, StoreInv
<1>3. /\ pc = "prove" /\ x \in stored
      /\ DOMAIN levels' = DOMAIN levels
      /\ levels' \in [0 .. Cardinality(Def) -> SUBSET Def]
      /\ \A k \in DOMAIN levels : levels'[k] = levels[k] \ {x}
      /\ \A k, j \in DOMAIN levels' : levels'[k] \cap levels'[j] # {} => k = j
  BY <1>1, <1>2, AttemptFacts
<1>4. GoodView(v) /\ \A h \in Def : view[h] # None => v[h] = view[h]
  BY <1>2, <1>3, FillFacts
<1> HIDE DEF v
<1>5. /\ \A h \in Def : view[h] # None => view'[h] = view[h]
      /\ decoded \subseteq decoded' /\ decoded' \subseteq stored
      /\ GoodView(view')
  BY <1>1, <1>2, <1>3, <1>4
<1>6. StoreInv' /\ MarkerInv'
  <2>1. GoodView(view)'
    BY <1>1, <1>5 DEF GoodView
  <2> QED
    BY <1>1, <1>2, <1>5, <2>1, MarkerKept DEF ScanInv, StoreInv
<1>7. ControlInv'
  <2>1. produced' \subseteq {h \in Def : view'[h] # None /\ view'[h].proven}
    BY <1>1, <1>2, <1>5 DEF ControlInv
  <2>2. \A k \in DOMAIN levels' : levels'[k] \subseteq stored'
    BY <1>1, <1>2, <1>3 DEF ControlInv
  <2> QED
    BY <1>1, <1>2, <1>3, <2>1, <2>2 DEF ControlInv
<1>8. ASSUME Sighted
      PROVE  /\ GoodPlan(plan) /\ ViewOfPlan /\ ViewOfPlan'
             /\ \A h \in B : view'[h] = view[h] /\ view[h] # None /\ h \in Def
             /\ B \subseteq decoded
             /\ x \in B => view[x].proven
  <2>1. GoodPlan(plan) /\ ViewOfPlan
    BY <1>3, <1>8 DEF ScanInv, PlanInv
  <2>2. DOMAIN plan.baseline \subseteq Def
    BY <2>1 DEF GoodPlan, Snapshot
  <2>3. \A h \in DOMAIN plan.baseline : view'[h] = view[h] /\ view[h] # None /\ h \in decoded /\ h \in decoded'
    BY <1>5, <2>1, <2>2 DEF ViewOfPlan
  <2>4. ViewOfPlan'
    BY <1>1, <2>1, <2>3 DEF ViewOfPlan
  <2>5. B \subseteq DOMAIN plan.baseline
    BY <2>1, CoreFacts DEF GoodPlan
  <2>6. x \in B => view[x].proven
    BY <1>1, <1>4, <2>3, <2>5
  <2> QED
    BY <2>1, <2>2, <2>3, <2>4, <2>5, <2>6
<1>9. PlanInv'
  BY <1>1, <1>3, <1>8 DEF PlanInv, Sighted
<1>10. ASSUME ~failed, Sighted
       PROVE  AttemptsInOrder' /\ (plan.full \/ ~blind => NothingMissed')
  <2>1. /\ GoodPlan(plan) /\ AttemptsInOrder /\ (plan.full \/ ~blind => NothingMissed)
        /\ \A h \in B : view'[h] = view[h] /\ h \in Def /\ view[h] # None
        /\ B \subseteq decoded
        /\ x \in B => view[x].proven
    BY <1>3, <1>8, <1>10 DEF ScanInv, LevelInv
  <2>2. AttemptsInOrder'
    BY <1>1, <1>2, <2>1, OrderKept
  <2>3. ASSUME plan.full \/ ~blind, NEW h \in B, ~view'[h].proven
        PROVE  (\E k \in DOMAIN levels : h \in levels'[k]) \/ ~Provable(h, view', decoded', config)
    <3>1. h # x
      BY <2>1, <2>3
    <3>2. CASE Pending(h)
      BY <1>3, <3>1, <3>2 DEF Pending
    <3>3. CASE ~Provable(h, view, decoded, config)
      <4>1. view[h].hints = Hints(plan.hints, h) /\ view'[h].hints = Hints(plan.hints, h)
        BY <1>8, <1>10, <2>1, <2>3, CoreFacts DEF ViewOfPlan, GoodPlan
      <4>2. \A l \in closure(Inputs(plan), Inputs(plan)[h]) :
                (view[l] # None /\ view[l].proven) <=> (view'[l] # None /\ view'[l].proven)
        BY <2>1, <2>3, ReachInPlan
      <4>3. decoded \in SUBSET Def /\ decoded' \in SUBSET Def /\ B \subseteq decoded /\ B \subseteq decoded'
        BY <1>2, <1>5, <2>1
      <4> QED
        BY <2>1, <2>3, <3>3, <4>1, <4>2, <4>3, ProvableInPlan
    <3> QED
      BY <2>1, <2>3, <3>2, <3>3 DEF NothingMissed
  <2>4. plan.full \/ ~blind => NothingMissed'
    BY <1>1, <1>3, <2>3 DEF NothingMissed, Pending
  <2> QED
    BY <2>2, <2>4
<1>11. LevelInv'
  BY <1>1, <1>3, <1>10 DEF LevelInv, Sighted
<1> QED
  BY <1>6, <1>7, <1>9, <1>11 DEF ScanInv

\* What a proof run reads is stored.
LEMMA ScopeStored ==
    ASSUME StoreInv, NEW x \in stored, NEW m, m[x].hints \subseteq stored, NEW readable \in SUBSET stored
    PROVE  lemmaScope(x, m, readable) \subseteq stored
<1> DEFINE e == [d \in readable |-> Deps[d]]
<1>1. ClosedUnder(e, stored) /\ stored \in SUBSET Def /\ Deps[x] \subseteq stored
  BY DEF ClosedUnder, StoreInv
<1> HIDE DEF e
<1>2. closure(e, Deps[x]) \subseteq stored
  BY <1>1, ClosureLeast
<1> QED
  BY <1>2 DEF lemmaScope, e

LEMMA proveHashStep ==
    ASSUME ScanInv, NEW x \in Def, NEW out, proveHash(x, out)
    PROVE  ScanInv'
<1> DEFINE readable == decoded \cup (stored \ out)
           known    == Fill(view, {x})
           scope    == {x} \cup lemmaScope(x, known, readable)
           more     == scope \ out
           v        == Fill(view, more)
           m        == [known[x] EXCEPT !.proven = Provable(x, v, readable, config)]
           B        == Core(plan)
           e        == Inputs(plan)
<1>1. /\ Takes(x) /\ (x \notin out \/ (x \in decoded /\ view[x] # None))
      /\ ~known[x].proven
      /\ view' = [v EXCEPT ![x] = m] /\ meta' = [meta EXCEPT ![x] = m]
      /\ decoded' = decoded \cup more
      /\ produced' = IF m.proven THEN produced \cup {x} ELSE produced
      /\ UNCHANGED <<stored, marker, blind, pc, config, plan, failed, missed>>
  BY DEF proveHash
<1>2. ControlInv /\ StoreInv /\ stored \subseteq Def /\ GoodView(view) /\ decoded \subseteq stored
  BY DEF ScanInv, StoreInv
<1>3. /\ pc = "prove" /\ x \in stored
      /\ DOMAIN levels = 0 .. Cardinality(Def) /\ DOMAIN levels' = DOMAIN levels
      /\ levels' \in [0 .. Cardinality(Def) -> SUBSET Def]
      /\ \A k \in DOMAIN levels : levels'[k] = levels[k] \ {x}
      /\ \A k, j \in DOMAIN levels' : levels'[k] \cap levels'[j] # {} => k = j
      /\ \E l \in DOMAIN levels : x \in levels[l]
  BY <1>1, <1>2, AttemptFacts
<1>4. /\ GoodView(known) /\ known[x] # None
      /\ view[x] # None => known[x] = view[x]
      /\ view[x] = None => known[x] = meta[x]
  BY <1>2, <1>3, FillFacts
<1>5. readable \in SUBSET stored /\ more \in SUBSET stored
  <2>1. readable \in SUBSET stored
    BY <1>2
  <2>2. known[x].hints \subseteq stored
    BY <1>4 DEF GoodView
  <2> HIDE DEF readable, known
  <2>3. lemmaScope(x, known, readable) \subseteq stored
    BY <1>2, <1>3, <2>1, <2>2, ScopeStored
  <2> QED
    BY <1>3, <2>1, <2>3
<1>6. x \in more \/ view[x] # None
  BY <1>1
<1>7. known[x] \in Metadata
  BY <1>4 DEF GoodView
<1> HIDE DEF known, more
<1>8. /\ GoodView(v)
      /\ \A h \in Def : view[h] # None => v[h] = view[h]
      /\ v[x] = known[x]
  <2>1. /\ GoodView(v)
        /\ \A h \in Def : view[h] # None => v[h] = view[h]
        /\ \A h \in Def : view[h] = None => v[h] = IF h \in more THEN meta[h] ELSE None
    BY <1>2, <1>5, FillFacts
  <2> HIDE DEF v
  <2> QED
    BY <1>4, <1>6, <2>1
<1> HIDE DEF v, readable
<1>9. m \in Metadata /\ m # None /\ m.hints = known[x].hints /\ m.proven = Provable(x, v, readable, config)
  <2>1. Provable(x, v, readable, config) \in BOOLEAN
    BY DEF Provable
  <2>2. m \in Metadata /\ m.hints = known[x].hints /\ m.proven = Provable(x, v, readable, config)
    BY <1>7, <2>1 DEF Metadata
  <2> QED
    BY <2>2, ScanAssumption
<1> HIDE DEF m
<1>10. view'[x] = m /\ \A h \in Def : h # x => view'[h] = v[h]
  BY <1>1, <1>8 DEF GoodView
<1>11. m.hints \subseteq stored
  BY <1>4, <1>9 DEF GoodView
<1>12. StoreInv'
  <2>1. view' \in [Def -> Metadata \cup {None}] /\ meta' \in [Def -> Metadata]
    BY <1>1, <1>2, <1>8, <1>9 DEF StoreInv, GoodView
  <2>2. \A h \in Def : meta'[h].hints \subseteq stored
    BY <1>1, <1>2, <1>11 DEF StoreInv
  <2>3. \A h \in Def : view'[h] # None => h \in stored /\ view'[h].hints \subseteq stored
    BY <1>3, <1>8, <1>10, <1>11 DEF GoodView
  <2>4. GoodView(view)'
    BY <1>1, <2>1, <2>3 DEF GoodView
  <2> QED
    BY <1>1, <1>2, <1>5, <2>1, <2>2, <2>4 DEF StoreInv
<1>13. MarkerInv'
  BY <1>1, MarkerKept DEF ScanInv
<1>14. x \notin produced /\ (view[x] # None => ~view[x].proven)
  BY <1>1, <1>2, <1>4 DEF ControlInv
<1>15. ControlInv'
  <2>1. produced' \subseteq {h \in Def : view'[h] # None /\ view'[h].proven}
    BY <1>1, <1>2, <1>8, <1>9, <1>10, <1>14 DEF ControlInv
  <2>2. \A k \in DOMAIN levels' : levels'[k] \subseteq stored'
    BY <1>1, <1>2, <1>3 DEF ControlInv
  <2> QED
    BY <1>1, <1>2, <1>3, <2>1, <2>2 DEF ControlInv
<1>16. ASSUME Sighted
       PROVE  /\ GoodPlan(plan) /\ ViewOfPlan /\ ViewOfPlan'
              /\ B \subseteq DOMAIN plan.baseline /\ B \in SUBSET Def /\ B \subseteq decoded
              /\ \A h \in B : v[h] = view[h] /\ view[h] # None
              /\ \A h \in B : v[h].hints = Hints(plan.hints, h) /\ view'[h].hints = Hints(plan.hints, h)
  <2>1. GoodPlan(plan) /\ ViewOfPlan
    BY <1>3, <1>16 DEF ScanInv, PlanInv
  <2>2. DOMAIN plan.baseline \subseteq Def
    BY <2>1 DEF GoodPlan, Snapshot
  <2>3. \A h \in DOMAIN plan.baseline :
            /\ v[h] = view[h] /\ view[h] # None /\ h \in decoded /\ h \in stored
            /\ v[h].hints = Hints(plan.hints, h)
            /\ view[h].proven = (h \in produced \/ plan.baseline[h])
    BY <1>8, <2>1, <2>2 DEF ViewOfPlan
  <2>4. ASSUME NEW h \in DOMAIN plan.baseline, h # x
        PROVE  view'[h] = view[h] /\ (h \in produced' <=> h \in produced)
    BY <1>1, <1>10, <2>2, <2>3, <2>4
  <2>5. ASSUME x \in DOMAIN plan.baseline
        PROVE  /\ view'[x].hints = v[x].hints /\ view'[x] # None
               /\ view'[x].proven = (x \in produced' \/ plan.baseline[x])
    <3>1. plan.baseline[x] = FALSE
      <4>1. plan.baseline[x] \in BOOLEAN
        BY <2>1, <2>5 DEF GoodPlan, Snapshot
      <4> QED
        BY <1>14, <2>3, <2>5, <4>1
    <3>2. m.proven \in BOOLEAN
      BY <1>9 DEF Metadata
    <3>3. x \in produced' <=> m.proven
      BY <1>1, <1>14
    <3>4. m.hints = v[x].hints
      BY <1>8, <1>9
    <3> QED
      BY <1>9, <1>10, <3>1, <3>2, <3>3, <3>4
  <2>6. ASSUME NEW h \in DOMAIN plan.baseline
        PROVE  /\ h \in stored' /\ h \in decoded' /\ view'[h] # None
               /\ view'[h].hints = Hints(plan.hints, h)
               /\ view'[h].proven = (h \in produced' \/ plan.baseline[h])
    <3>1. h \in stored' /\ h \in decoded'
      BY <1>1, <2>3
    <3>2. CASE h = x
      BY <2>3, <2>5, <3>1, <3>2
    <3>3. CASE h # x
      BY <2>3, <2>4, <3>1, <3>3
    <3> QED
      BY <3>2, <3>3
  <2>7. ViewOfPlan'
    BY <1>1, <2>6 DEF ViewOfPlan
  <2>8. B \subseteq DOMAIN plan.baseline
    BY <2>1, CoreFacts DEF GoodPlan
  <2> QED
    BY <2>1, <2>2, <2>3, <2>6, <2>7, <2>8
<1>17. PlanInv'
  BY <1>1, <1>3, <1>16 DEF PlanInv, Sighted
<1>18. ASSUME ~failed, Sighted
       PROVE  AttemptsInOrder' /\ (plan.full \/ ~blind => NothingMissed')
  <2>1. /\ GoodPlan(plan) /\ AttemptsInOrder /\ (plan.full \/ ~blind => NothingMissed)
        /\ B \in SUBSET Def /\ B \subseteq decoded
        /\ \A h \in B : v[h] = view[h] /\ view[h] # None
        /\ \A h \in B : v[h].hints = Hints(plan.hints, h) /\ view'[h].hints = Hints(plan.hints, h)
    BY <1>3, <1>16, <1>18 DEF ScanInv, LevelInv
  <2>2. \A h \in B : ~view'[h].proven => ~view[h].proven
    BY <1>10, <1>14, <2>1
  <2>3. AttemptsInOrder'
    BY <1>1, <1>2, <2>1, <2>2, OrderKept
  <2>4. \A h \in B : closure(e, e[h]) \subseteq B /\ h \notin closure(e, e[h])
    BY <2>1, ReachInPlan DEF GoodPlan
  <2>5. decoded' \in SUBSET Def /\ decoded \subseteq decoded' /\ decoded \in SUBSET Def
    BY <1>1, <1>2, <1>5
  <2>6. readable \in SUBSET Def /\ decoded \subseteq readable
    BY <1>2, <1>5 DEF readable
  \* Where x is not in reach, the attempt changes nothing.
  <2>7. ASSUME NEW h \in B, x \notin closure(e, e[h]), NEW k \in SUBSET Def, B \subseteq k
        PROVE  Provable(h, v, k, config) <=> Provable(h, view', decoded', config)
    <3>1. \A l \in closure(e, e[h]) : view'[l] = v[l]
      BY <1>10, <2>1, <2>4, <2>7
    <3>2. B \subseteq decoded'
      BY <2>1, <2>5
    <3> QED
      BY <2>1, <2>5, <2>7, <3>1, <3>2, ProvableInPlan
  <2>8. ASSUME plan.full \/ ~blind, NEW h \in B, ~view'[h].proven
        PROVE  (\E k \in DOMAIN levels : h \in levels'[k]) \/ ~Provable(h, view', decoded', config)
    <3>1. CASE h = x
      <4>1. ~Provable(h, v, readable, config)
        BY <1>9, <1>10, <2>8, <3>1
      <4> QED
        BY <2>1, <2>4, <2>6, <2>7, <3>1, <4>1
    <3>2. CASE h # x /\ \E k \in DOMAIN levels : h \in levels[k]
      BY <1>3, <3>2
    <3>3. CASE h # x /\ x \in closure(e, e[h])
      <4>1. PICK l \in DOMAIN levels : x \in levels[l]
        BY <1>3
      <4>2. PICK k \in DOMAIN levels : h \in levels[k]
        BY <2>1, <2>2, <2>8, <3>3, <4>1 DEF AttemptsInOrder
      <4> QED
        BY <1>3, <3>3, <4>2
    <3>4. CASE x \notin closure(e, e[h]) /\ ~(\E k \in DOMAIN levels : h \in levels[k])
      <4>1. ~Provable(h, view, decoded, config)
        BY <2>1, <2>2, <2>8, <3>4 DEF NothingMissed, Pending
      <4>2. ~Provable(h, v, decoded, config)
        <5>1. \A l \in closure(e, e[h]) : v[l] = view[l]
          BY <2>1, <2>4, <2>8
        <5>2. view[h].hints = Hints(plan.hints, h) /\ v[h].hints = Hints(plan.hints, h)
          BY <2>1, <2>8
        <5> QED
          BY <2>1, <2>5, <2>8, <4>1, <5>1, <5>2, ProvableInPlan
      <4> QED
        BY <2>1, <2>5, <2>7, <2>8, <3>4, <4>2
    <3> QED
      BY <3>1, <3>2, <3>3, <3>4
  <2>9. plan.full \/ ~blind => NothingMissed'
    BY <1>1, <1>3, <2>8 DEF NothingMissed, Pending
  <2> QED
    BY <2>3, <2>9
<1>19. LevelInv'
  BY <1>1, <1>3, <1>18 DEF LevelInv, Sighted
<1> QED
  BY <1>12, <1>13, <1>15, <1>17, <1>19 DEF ScanInv

LEMMA proveHashFailsStep ==
    ASSUME ScanInv, NEW x \in Def, proveHashFails(x)
    PROVE  ScanInv'
<1>1. /\ Takes(x) /\ failed' = TRUE
      /\ UNCHANGED <<stored, meta, marker, blind, pc, config, view, decoded, plan, produced, missed>>
  BY DEF proveHashFails, env
<1>2. ControlInv /\ StoreInv /\ stored \subseteq Def
  BY DEF ScanInv, StoreInv
<1>3. /\ pc = "prove"
      /\ DOMAIN levels' = DOMAIN levels
      /\ levels' \in [0 .. Cardinality(Def) -> SUBSET Def]
      /\ \A k \in DOMAIN levels : levels'[k] = levels[k] \ {x}
      /\ \A k, j \in DOMAIN levels' : levels'[k] \cap levels'[j] # {} => k = j
  BY <1>1, <1>2, AttemptFacts
<1>4. ControlInv'
  <2>1. \A k \in DOMAIN levels' : levels'[k] \subseteq stored'
    BY <1>1, <1>2, <1>3 DEF ControlInv
  <2> QED
    BY <1>1, <1>2, <1>3, <2>1 DEF ControlInv
<1>5. StoreInv' /\ MarkerInv'
  BY <1>1, <1>2, MarkerKept DEF ScanInv, StoreInv, GoodView
<1>6. PlanInv'
  BY <1>1 DEF ScanInv, PlanInv, ViewOfPlan, DeltaIsEnough, Sighted
<1> QED
  BY <1>1, <1>4, <1>5, <1>6 DEF ScanInv, LevelInv

LEMMA NothingPending ==
    ASSUME ControlInv, pc = "prove", Current = {}
    PROVE  \A l \in DOMAIN levels : levels[l] = {}
<1> DEFINE T == {l \in DOMAIN levels : levels[l] # {}}
<1>1. SUFFICES ASSUME T # {} PROVE FALSE
  OBVIOUS
<1>2. DOMAIN levels \subseteq Nat
  BY DEF ControlInv
<1>3. T \in SUBSET Nat
  BY <1>2
<1>4. PICK l \in T : \A k \in T : l <= k
  <2> HIDE DEF T
  <2> QED
    BY <1>1, <1>3, LeastNumber
<1>5. \A k \in DOMAIN levels : k < l => levels[k] = {}
  BY <1>2, <1>4
<1> QED
  BY <1>4, <1>5 DEF Current

\* A sighted scan that settles leaves a marker under which nothing unproven could prove.
LEMMA EndScanStep ==
    ASSUME ScanInv, EndScan
    PROVE  ScanInv'
<1>1. pc = "prove" /\ Current = {} /\ Reset /\ UNCHANGED env /\ stored' = stored
  BY DEF EndScan, env
<1>2. StoreInv' /\ ControlInv' /\ PlanInv' /\ LevelInv'
  BY <1>1, ResetStep DEF ScanInv
<1>3. CASE ~MaySettle
  BY <1>1, <1>2, <1>3, MarkerKept DEF EndScan, ScanInv
<1>4. CASE MaySettle
  <2> DEFINE B == Core(plan)
             e == Inputs(plan)
             m == Recorded(Banked, BankedHints)
  <2>1. /\ marker'.proven = Banked /\ marker'.hints = BankedHints /\ marker'.config = config
        /\ marker'.digest = fingerprintOfSnapshot(Banked, BankedHints, config)
        /\ ~blind' => ~missed /\ (plan.full \/ ~blind)
    <3>1. marker' = recordProofScanMarker /\ blind' = (missed \/ (blind /\ ~plan.full))
      BY <1>4 DEF EndScan
    <3>2. /\ recordProofScanMarker.proven = Banked /\ recordProofScanMarker.hints = BankedHints
          /\ recordProofScanMarker.config = config
          /\ recordProofScanMarker.digest = fingerprintOfSnapshot(Banked, BankedHints, config)
      BY DEF recordProofScanMarker
    <3>3. ~blind' => ~missed /\ (plan.full \/ ~blind)
      BY <3>1
    <3> HIDE DEF B, e, m
    <3> QED
      BY <3>1, <3>2, <3>3
  <2>2. DOMAIN Banked = DOMAIN plan.baseline
    BY DEF Banked
  <2>3. DOMAIN plan.baseline \subseteq stored
    BY <1>1 DEF ScanInv, ControlInv
  <2>4. ASSUME ~missed, plan.full \/ ~blind
        PROVE  /\ Snapshot(Banked, BankedHints)
               /\ \A h \in Founded(Graph(Banked, BankedHints)) :
                     ~Banked[h] => ~Provable(h, m, Def, config)
    <3>1. GoodPlan(plan) /\ ViewOfPlan /\ NothingMissed
      BY <1>1, <1>4, <2>4 DEF ScanInv, PlanInv, LevelInv, MaySettle, Sighted
    <3>2. Snapshot(plan.baseline, plan.hints)
      BY <3>1 DEF GoodPlan
    <3>3. \A h \in DOMAIN plan.baseline :
              /\ Banked[h] = view[h].proven /\ Banked[h] \in BOOLEAN
              /\ Hints(BankedHints, h) = Hints(plan.hints, h)
              /\ view[h] # None /\ view[h].hints = Hints(plan.hints, h)
              /\ Hints(plan.hints, h) \subseteq Def
              /\ h \in decoded
      BY <3>1, <3>2 DEF ViewOfPlan, Banked, BankedHints, Hints, Snapshot
    <3>4. Snapshot(Banked, BankedHints)
      <4>1. \A h \in DOMAIN BankedHints : BankedHints[h] \subseteq Def
        BY <3>2 DEF BankedHints, Snapshot
      <4> QED
        BY <2>2, <3>2, <3>3, <4>1 DEF Snapshot
    <3>5. Graph(Banked, BankedHints) = e
      BY <2>2, <3>3 DEF Graph, Inputs
    <3>6. B \subseteq DOMAIN plan.baseline /\ B \in SUBSET Def /\ B \subseteq decoded
      BY <3>2, <3>3, CoreFacts
    <3>7. ASSUME NEW h \in B
          PROVE  m[h] # None /\ m[h].proven = view[h].proven /\ m[h].hints = Hints(plan.hints, h)
      <4>1. m[h] = [proven |-> Banked[h], hints |-> Hints(plan.hints, h)]
        BY <2>2, <3>3, <3>6 DEF Recorded
      <4>2. m[h] \in Metadata
        BY <3>3, <3>6, <4>1 DEF Metadata
      <4> HIDE DEF m
      <4> QED
        BY <3>3, <3>6, <4>1, <4>2, ScanAssumption
    <3>8. ASSUME NEW h \in B, ~Banked[h]
          PROVE  ~Provable(h, m, Def, config)
      <4>1. ~view[h].proven
        BY <3>3, <3>6, <3>8
      <4>2. ~Provable(h, view, decoded, config)
        BY <1>1, <3>1, <4>1, NothingPending DEF NothingMissed, Pending, ScanInv
      <4>3. m[h].hints = Hints(plan.hints, h) /\ view[h].hints = Hints(plan.hints, h)
        BY <3>3, <3>6, <3>7
      <4>4. closure(e, e[h]) \subseteq B
        BY <3>1, ReachInPlan
      <4>5. \A l \in closure(e, e[h]) : (m[l] # None /\ m[l].proven) <=> (view[l] # None /\ view[l].proven)
        <5> HIDE DEF m, e
        <5> QED
          BY <3>3, <3>6, <3>7, <4>4
      <4>6. decoded \in SUBSET Def /\ B \subseteq Def
        BY <3>6 DEF ScanInv, StoreInv
      <4> HIDE DEF m
      <4> QED
        BY <3>1, <3>6, <4>2, <4>3, <4>5, <4>6, ProvableInPlan
    <3> HIDE DEF m
    <3> QED
      BY <3>4, <3>5, <3>8 DEF Core
  <2>5. MarkerInv'
    <3> HIDE DEF m
    <3>1. ASSUME ~blind'
          PROVE  /\ Snapshot(Banked, BankedHints)
                 /\ \A h \in Founded(Graph(Banked, BankedHints)) :
                       ~Banked[h] => ~Provable(h, m, Def, config)
      BY <2>1, <2>4, <3>1
    <3> QED
      BY <1>1, <2>1, <2>2, <2>3, <3>1 DEF MarkerInv, m
  <2> QED
    BY <1>2, <2>5 DEF ScanInv
<1> QED
  BY <1>3, <1>4

-----------------------------------------------------------------------------
(* The theorems. *)

LEMMA ScanInvariant == Spec => []ScanInv
<1>1. ASSUME ScanInv, [Next]_vars
      PROVE  ScanInv'
  <2>1. CASE Others
    BY <1>1, <2>1, OthersStep
  <2>2. ASSUME NEW c \in Config, NEW out, NEW hit, Gate(c, out, hit)
        PROVE  ScanInv'
    BY <1>1, <2>2, GateStep
  <2>3. ASSUME NEW hit, Plan(hit) \/ Levels(hit)
        PROVE  ScanInv'
    BY <1>1, <2>3, PlanStep, LevelsStep
  <2>4. ASSUME NEW h \in Def, Skip(h) \/ proveHashFails(h)
        PROVE  ScanInv'
    BY <1>1, <2>4, SkipStep, proveHashFailsStep
  <2>5. ASSUME NEW h \in Def, NEW out, proveHash(h, out)
        PROVE  ScanInv'
    BY <1>1, <2>5, proveHashStep
  <2>6. CASE EndScan
    BY <1>1, <2>6, EndScanStep
  <2>7. CASE CrashScan
    <3>1. Reset /\ UNCHANGED env /\ UNCHANGED <<marker, blind>>
      BY <2>7 DEF CrashScan
    <3> QED
      BY <1>1, <3>1, ResetStep, MarkerKept DEF ScanInv, env
  <2>8. CASE UNCHANGED vars
    <3>1. UNCHANGED <<stored, meta, marker, blind, process>>
      BY <2>8 DEF vars, env
    <3>2. StoreInv'
      BY <1>1, <3>1 DEF ScanInv, StoreInv, GoodView, process
    <3> QED
      BY <1>1, <3>1, <3>2, WorkerUntouched DEF ScanInv
  <2> QED
    BY <1>1, <2>1, <2>2, <2>3, <2>4, <2>5, <2>6, <2>7, <2>8 DEF Next, Worker
<1> QED
  BY <1>1, InitInv, PTL DEF Spec

(***************************************************************************)
(* The worker's state is well formed: what it has read is stored, what it   *)
(* has produced is proven in its view, and the marker names stored objects, *)
(* whatever its reads fail on.                                              *)
(***************************************************************************)
THEOREM ScanTyped == Spec => []TypeOK
<1>1. ScanInv => TypeOK
  <2> SUFFICES ASSUME ScanInv PROVE TypeOK
    OBVIOUS
  <2>1. \A h \in Def : view[h] # None => view[h] \in Metadata
    BY DEF ScanInv, StoreInv, GoodView
  <2> QED
    BY <2>1 DEF ScanInv, StoreInv, MarkerInv, ControlInv, TypeOK
<1> QED
  BY <1>1, ScanInvariant, PTL

(***************************************************************************)
(* scanBulkProve may skip: wherever the fingerprint of the store is the one *)
(* the marker holds and no scan behind it has missed something that it does *)
(* not report, no unproven definition of the store could prove.  For every  *)
(* corpus, every solver, every history of other processes and every pattern *)
(* of failed reads, failed proofs and crashes.                              *)
(***************************************************************************)
THEOREM SettledHidesNothing == Spec => []SettledIsFixpoint
<1>1. ScanInv => SettledIsFixpoint
  <2> SUFFICES ASSUME ScanInv, ~blind, NEW c \in Config, Settled(c), NEW h \in stored,
                      ~meta[h].proven, Provable(h, Live, stored, c)
               PROVE  FALSE
    BY DEF SettledIsFixpoint, Fixpoint
  <2> DEFINE m == Recorded(marker.proven, marker.hints)
             f == Graph(marker.proven, marker.hints)
  <2>1. \A l \in stored : Live[l] = meta[l] /\ meta[l] # None /\ meta[l] \in Metadata /\ l \in Def
    BY ScanAssumption DEF Live, ScanInv, StoreInv
  <2>2. Lists({}, "proven" \in {}) = stored /\ Lists({}, "hints" \in {}) = stored
    BY DEF Lists
  <2>3. /\ marker # None
        /\ marker.digest = fingerprintOfSnapshot(marker.proven, marker.hints, marker.config)
        /\ marker.digest = fingerprintOfSnapshot(provenSnapshot(Live, stored), hintSnapshot(Live, stored), c)
    BY <2>2 DEF Settled, proofStateFingerprint, ScanInv, MarkerInv
  <2>4. /\ marker.config = c /\ marker.proven = provenSnapshot(Live, stored)
        /\ marker.hints = hintSnapshot(Live, stored)
    BY <2>3 DEF fingerprintOfSnapshot
  <2>5. /\ DOMAIN marker.proven = stored
        /\ \A l \in stored : marker.proven[l] = meta[l].proven
    BY <2>1, <2>4 DEF provenSnapshot
  <2>6. \A l \in stored : Hints(marker.hints, l) = meta[l].hints
    BY <2>1, <2>4 DEF hintSnapshot, Hints
  <2>7. h \in Founded(f)
    <3>1. DOMAIN f = stored /\ \A l \in stored : f[l] = Deps[l] \cup meta[l].hints
      BY <2>5, <2>6 DEF Graph
    <3>2. \A l \in stored : Deps[l] \subseteq stored /\ meta[l].hints \subseteq stored
      BY <2>1 DEF ScanInv, StoreInv
    <3> HIDE DEF f
    <3>3. ClosedUnder(f, stored)
      BY <3>1, <3>2 DEF ClosedUnder
    <3> QED
      BY <3>1, <3>3, FoundedFacts
  <2>8. ~Provable(h, m, Def, c)
    BY <2>3, <2>4, <2>5, <2>7 DEF ScanInv, MarkerInv
  <2>9. \A l \in stored : m[l] = [proven |-> meta[l].proven, hints |-> meta[l].hints]
    BY <2>1, <2>5, <2>6 DEF Recorded
  <2> HIDE DEF m, f
  <2>10. \A l \in stored : m[l] # None /\ m[l].proven = meta[l].proven /\ m[l].hints = meta[l].hints
    <3>1. \A l \in stored : m[l] \in Metadata
      BY <2>1, <2>9 DEF Metadata
    <3>2. ASSUME NEW l \in stored
          PROVE  m[l].proven = meta[l].proven /\ m[l].hints = meta[l].hints
      <4>1. m[l] = [proven |-> meta[l].proven, hints |-> meta[l].hints]
        BY <2>9
      <4> QED
        BY <4>1
    <3> QED
      BY <3>1, <3>2, ScanAssumption
  <2>11. /\ stored \in SUBSET Def /\ \A d \in stored : Deps[d] \subseteq stored
         /\ meta[h].hints \subseteq stored
    BY <2>1 DEF ScanInv, StoreInv
  <2>12. closure(Deps, Deps[h]) \subseteq stored
    <3>1. ClosedUnder(Deps, stored)
      BY <2>11 DEF ClosedUnder
    <3> QED
      BY <2>11, <3>1, ClosureLeast
  <2>13. m[h].hints = Live[h].hints /\ m[h].hints \subseteq stored
    BY <2>1, <2>10, <2>11
  <2>14. \A l \in closure(Deps, Deps[h]) \cup m[h].hints :
            (m[l] # None /\ m[l].proven) <=> (Live[l] # None /\ Live[l].proven)
    BY <2>1, <2>10, <2>12, <2>13
  <2>15. Provable(h, m, Def, c) <=> Provable(h, Live, stored, c)
    BY <2>11, <2>13, <2>14, SameAnswer
  <2> QED
    BY <2>8, <2>15
<1> QED
  BY <1>1, ScanInvariant, PTL
=============================================================================
