----------------------------- MODULE ProofScan -----------------------------
(***************************************************************************)
(* The corpus scan of the proof worker (oath/prove_worker.go): a scheduled  *)
(* process that skips a corpus whose proof state it has seen, plans which   *)
(* definitions could newly prove, proves them level by level and records a  *)
(* marker over the state it attempted.  Beside it, other processes publish, *)
(* prove and hint.                                                          *)
(*                                                                          *)
(* Every definition swears one law.  `Solver` says under which libraries of *)
(* lemmas it proves: any sets of libraries, for a budget-limited solver is  *)
(* not monotone in its axioms.  The worker reads through its process's      *)
(* caches (Store.GetDef, Store.GetMeta): what it has read stays as it was   *)
(* until the process ends, and what it has not read may be out of reach.    *)
(* The code answers some failed reads by not settling and passes over the   *)
(* others in silence; `missed` and `blind` are ghosts that remember those.  *)
(***************************************************************************)
EXTENDS Naturals, FiniteSets, Sequences

CONSTANTS
    Def,            \* content hashes of function definitions
    None,
    Listing,        \* stands for the listing of the objects among what may fail
    Outages,        \* sets of objects, Listing among them, that may fail together
    Deps,           \* Def -> the definitions its syntax tree refers to
    Solver,         \* Def -> configuration -> the libraries under which its law proves
    Config,         \* proveConfigLine: a larger number is a larger budget
    MaxEvents,      \* bound: what other processes do, and faults
    MaxFaults       \* bound: outages of the storage, failed proofs and crashes

VARIABLES
    stored,         \* objects in the store
    meta,           \* Def -> [proven, hints]: the metadata on the backend
    marker,         \* the proof-scan-fixpoint record; None before the first
    blind,          \* ghost: the marker rests on a scan that missed something
    pc,             \* the worker
    config,         \* the configuration of the worker's process
    view,           \* its metadata cache: Def -> metadata or None
    decoded,        \* its cache of objects
    down,           \* what its reads may fail on, any number of times
    plan,           \* proofScanPlan
    levels,         \* level -> definitions still to attempt
    produced,       \* definitions this scan proved -> their proven set
    failed,         \* did an attempt fail?
    missed,         \* ghost: did the scan miss something that it does not report?
    events, faults  \* counters for the bounds

env == <<stored, meta, events>>
process == <<pc, config, view, decoded, down, plan, levels, produced, failed, missed>>
vars == <<env, marker, blind, process, faults>>

\* What the edges reach from a set of definitions: the least set closed under them.
ClosedUnder(edges, C) == \A h \in C \cap DOMAIN edges : edges[h] \subseteq C

closure(edges, from) ==
    {h \in Def : \A C \in SUBSET Def : from \subseteq C /\ ClosedUnder(edges, C) => h \in C}

Metadata == [proven : BOOLEAN, hints : SUBSET Def]

ASSUME ScanAssumption ==
    /\ IsFiniteSet(Def) /\ Deps \in [Def -> SUBSET Def]
    /\ Solver \in [Def -> [Config -> SUBSET SUBSET Def]]
    /\ Outages \subseteq SUBSET (Def \cup {Listing})
    /\ None \notin Metadata /\ Listing \notin Def

\* Definitions are content addressed: the tree of one cannot reach itself.
ASSUME DepsAcyclic == \A h \in Def : h \notin closure(Deps, Deps[h])

-----------------------------------------------------------------------------
(* What a proof attempt finds, where the objects in `readable` can be read. *)

\* The definitions whose laws a proof of h may use: its transitive dependencies, as far
\* as they can be read, and the targets of its hints.
lemmaScope(h, metas, readable) ==
    closure([d \in readable |-> Deps[d]], Deps[h]) \cup metas[h].hints

\* loadLemmaLibrary: what is proven among them.  An unreadable one is passed over.
loadLemmaLibrary(h, metas, readable) ==
    {l \in lemmaScope(h, metas, readable) : l \in readable /\ metas[l] # None /\ metas[l].proven}

Provable(h, metas, readable, c) == loadLemmaLibrary(h, metas, readable) \in Solver[h][c]

-----------------------------------------------------------------------------
(***************************************************************************)
(* What the scan reads.  It goes over the store in passes; a pass that      *)
(* meets an outage (`bad`) fails on what is down and not cached.            *)
(***************************************************************************)

\* AllHashes answers a failed listing with no objects.
Lists(out, bad) == IF bad /\ Listing \in out THEN {} ELSE stored

Reads(list, out, bad) == list \ (IF bad THEN out ELSE {})

Fill(v, read) == [h \in Def |-> IF v[h] # None THEN v[h]
                                ELSE IF h \in read THEN meta[h] ELSE None]

provenSnapshot(v, list) == [h \in {l \in list : v[l] # None} |-> v[h].proven]

hintSnapshot(v, list) == [h \in {l \in list : v[l] # None /\ v[l].hints # {}} |-> v[h].hints]

\* A digest without collisions is what it was computed from.
fingerprintOfSnapshot(proven, hints, c) == [config |-> c, proven |-> proven, hints |-> hints]

\* lemmaInputHashes: direct dependencies and hinted definitions, of what could be read.
lemmaInputHashes(v, known) ==
    [h \in Def |-> (IF h \in known THEN Deps[h] ELSE {}) \cup (IF v[h] # None THEN v[h].hints ELSE {})]

lemmaInputCycle(in, list) == \E h \in list : h \in closure(in, in[h])

\* reverseDepClosure: the seeds and everything that can draw a lemma from them.
reverseDepClosure(in, list, seeds) == seeds \cup {h \in list : closure(in, in[h]) \cap seeds # {}}

\* Mutant: as in "an earlier draft", a set that shrank has not moved.
provenSetGrew(was, now) == now /\ ~was

\* Either direction: with a lemma less a law may prove that did not prove before.
provenSetMoved(was, now) == was # now

\* What the marker does not know, what moved in it, what has other hints now.
Seeds(proven, hints) ==
    {h \in DOMAIN proven : h \notin DOMAIN marker.proven}
    \cup {h \in DOMAIN proven \cap DOMAIN marker.proven : provenSetMoved(marker.proven[h], proven[h])}
    \cup {h \in DOMAIN hints : h \notin DOMAIN marker.hints \/ marker.hints[h] # hints[h]}
    \cup {h \in DOMAIN marker.hints : h \notin DOMAIN hints}

(***************************************************************************)
(* planProofScanFrom goes over the store for the two snapshots, for the     *)
(* cycle test and, unless the pass will be full, for the closure of what    *)
(* moved; in between it checks the listing.  `hit` holds the passes that    *)
(* meet an outage.                                                          *)
(***************************************************************************)
PlanPasses == {"proven", "hints", "cycle", "check", "delta"}

\* The caches after each of its passes.
PlanReads(hit) ==
    LET read(pass) == Reads(Lists(down, pass \in hit), down, pass \in hit)
        proven     == Fill(view, read("proven"))
        hints      == Fill(proven, read("hints"))
        cycle      == Fill(hints, read("cycle"))
    IN  [proven |-> proven, hints |-> hints, cycle |-> cycle,
         cycleKnown |-> decoded \cup read("cycle"),
         delta      |-> Fill(cycle, read("delta")),
         deltaKnown |-> decoded \cup read("cycle") \cup read("delta")]

\* Did a pass list and read the whole store?
Complete(v, known, list) == list = stored /\ stored \subseteq known /\ \A h \in stored : v[h] # None

planProofScan(r, hit) ==
    LET baseline == provenSnapshot(r.proven, Lists(down, "proven" \in hit))
        hints    == hintSnapshot(r.hints, Lists(down, "hints" \in hit))
        cyclic   == lemmaInputCycle(lemmaInputHashes(r.cycle, r.cycleKnown), Lists(down, "cycle" \in hit))
        full     == marker = None \/ marker.config # config \/ cyclic
        deps     == Lists(down, "delta" \in hit)
    IN  [full     |-> full,
         attempt  |-> IF full THEN {}
                      ELSE reverseDepClosure(lemmaInputHashes(r.delta, r.deltaKnown), deps,
                                             Seeds(baseline, hints)),
         noSettle |-> \/ cyclic
                      \/ Lists(down, "check" \in hit) # stored
                      \/ ~full /\ ~Complete(r.delta, r.deltaKnown, deps),
         baseline |-> baseline,
         hints    |-> hints]

(***************************************************************************)
(* topoFuncOrder: each object once, and what an object draws lemmas from    *)
(* before it, except along an edge that hints have made part of a cycle.    *)
(***************************************************************************)
Orders(in, list) ==
    LET n == Cardinality(list)
    IN  {ord \in [1 .. n -> list] :
            /\ \A h \in list : \E i \in 1 .. n : ord[i] = h
            /\ \A i, j \in 1 .. n :
                  ord[i] \in in[ord[j]] /\ ord[j] \notin closure(in, in[ord[i]]) => i < j}

\* One past the deepest input; an input that comes later still counts as level 0.
Deepest(below, l) ==
    \/ below = {} /\ l = 0
    \/ l \in below /\ \A b \in below : b <= l

topoFuncLevels(in, ord) ==
    {level \in [DOMAIN ord -> 0 .. Cardinality(Def)] :
        \A i \in DOMAIN ord :
            Deepest({IF j < i THEN level[j] + 1 ELSE 1 : j \in {k \in DOMAIN ord : ord[k] \in in[ord[i]]}},
                    level[i])}

-----------------------------------------------------------------------------
Blank == [proven |-> FALSE, hints |-> {}]

NoPlan == [full |-> FALSE, attempt |-> {}, noSettle |-> FALSE, baseline |-> <<>>, hints |-> <<>>]

Init ==
    /\ stored \in {s \in SUBSET Def : \A h \in s : Deps[h] \subseteq s}
    /\ meta = [h \in Def |-> Blank]
    /\ marker = None /\ blind = FALSE
    /\ pc = "stopped"
    /\ config = 1
    /\ view = [h \in Def |-> None] /\ decoded = {} /\ down = {}
    /\ plan = NoPlan
    /\ levels = <<>>
    /\ produced = {}
    /\ failed = FALSE /\ missed = FALSE
    /\ events = 0 /\ faults = 0

\* What the worker's process holds is gone when it ends.
Reset ==
    /\ pc' = "stopped"
    /\ view' = [h \in Def |-> None] /\ decoded' = {} /\ down' = {}
    /\ plan' = NoPlan
    /\ levels' = <<>>
    /\ produced' = {}
    /\ failed' = FALSE /\ missed' = FALSE

Fault == faults < MaxFaults /\ events + faults < MaxEvents /\ faults' = faults + 1

-----------------------------------------------------------------------------
(* The worker. *)

\* proofStateFingerprint, from the caches after its two passes.
proofStateFingerprint(v, w, out, hit, c) ==
    fingerprintOfSnapshot(provenSnapshot(v, Lists(out, "proven" \in hit)),
                          hintSnapshot(w, Lists(out, "hints" \in hit)), c)

\* The passes of a step that may meet an outage.
Hits(out, passes) == IF out = {} THEN {{}} ELSE SUBSET passes

\* scanBulkProve's outer gate, in a process that is started with configuration c and whose
\* reads may fail on `out`.  Where it matches, the process has nothing left to scan.
Gate(c, out, hit) ==
    /\ pc = "stopped"
    /\ config' = c
    /\ LET read(pass) == Reads(Lists(out, pass \in hit), out, pass \in hit)
           proven == Fill(view, read("proven"))
           hints  == Fill(proven, read("hints"))
       IN  IF marker # None /\ marker.digest = proofStateFingerprint(proven, hints, out, hit, c)
           THEN UNCHANGED <<pc, view, down>>
           ELSE pc' = "plan" /\ view' = hints /\ down' = out
    /\ IF out = {} THEN UNCHANGED faults ELSE Fault
    /\ UNCHANGED <<env, marker, blind, decoded, plan, levels, produced, failed, missed>>

\* The scan is blind where the hints it plans with are not those it will use, or where
\* part of the lemma graph has escaped the cycle test: neither is reported.
Plan(hit) ==
    /\ pc = "plan"
    /\ LET r == PlanReads(hit)
           p == planProofScan(r, hit)
       IN  /\ plan' = p
           /\ view' = IF p.full THEN r.cycle ELSE r.delta
           /\ decoded' = IF p.full THEN r.cycleKnown ELSE r.deltaKnown
           /\ missed' = \/ Lists(down, "hints" \in hit) # stored
                        \/ ~Complete(r.cycle, r.cycleKnown, Lists(down, "cycle" \in hit))
    /\ pc' = "levels"
    /\ UNCHANGED <<env, marker, blind, config, down, levels, produced, failed, faults>>

\* Definitions outside the delta and those known to be proven are passed over.
Todo(v, ord, level) ==
    [l \in 0 .. Cardinality(Def) |->
        {h \in {ord[i] : i \in {k \in DOMAIN ord : level[k] = l}} :
            (plan.full \/ h \in plan.attempt) /\ ~(v[h] # None /\ v[h].proven)}]

\* Neither the order nor the levels ask whether an object could be read, and a failed
\* listing leaves nothing to attempt.
Levels(hit) ==
    /\ pc = "levels"
    /\ LET list == Lists(down, "order" \in hit)
           read == Reads(list, down, "order" \in hit)
           more == Reads(list, down, "levels" \in hit)
           v    == Fill(view, read)
       IN  /\ \E ord \in Orders(lemmaInputHashes(v, decoded \cup read), list) :
               \E level \in topoFuncLevels(lemmaInputHashes(Fill(v, more), decoded \cup read \cup more), ord) :
                  levels' = Todo(Fill(v, more), ord, level)
           /\ view' = Fill(v, more)
           /\ decoded' = decoded \cup read \cup more
           /\ missed' = (missed \/ list # stored)
    /\ pc' = "prove"
    /\ UNCHANGED <<env, marker, blind, config, down, plan, produced, failed, faults>>

Current == {l \in DOMAIN levels : levels[l] # {} /\ \A k \in DOMAIN levels : k < l => levels[k] = {}}

\* The next definition of the lowest level that has one.
Takes(h) ==
    /\ pc = "prove"
    /\ \E l \in Current : h \in levels[l] /\ levels' = [levels EXCEPT ![l] = @ \ {h}]

\* The loop goes on to the next definition, in silence, where it cannot read this one or
\* reads that it is proven.
Skip(h) ==
    /\ Takes(h)
    /\ \/ /\ h \in down /\ ~(h \in decoded /\ view[h] # None)
          /\ UNCHANGED <<view, decoded>>
       \/ /\ Fill(view, {h})[h].proven
          /\ view' = Fill(view, {h}) /\ decoded' = decoded \cup {h}
    /\ UNCHANGED <<env, marker, blind, pc, config, down, plan, produced, failed, missed, faults>>

\* apiProveHash on the worker's view, where the reads of the lemma library fail on `out`;
\* SetMeta writes that view back.
proveHash(h, out) ==
    /\ Takes(h)
    /\ out \subseteq down
    /\ h \notin out \/ (h \in decoded /\ view[h] # None)
    /\ LET readable == decoded \cup (stored \ out)
           known    == Fill(view, {h})
           scope    == {h} \cup lemmaScope(h, known, readable)
           v        == Fill(view, scope \ out)
           m        == [known[h] EXCEPT !.proven = Provable(h, v, readable, config)]
       IN  /\ ~known[h].proven
           /\ view' = [v EXCEPT ![h] = m]
           /\ decoded' = decoded \cup (scope \ out)
           /\ meta' = [meta EXCEPT ![h] = m]
           /\ produced' = IF m.proven THEN produced \cup {h} ELSE produced
    /\ UNCHANGED <<stored, events, marker, blind, pc, config, down, plan, failed, missed, faults>>

\* The run does not converge or the record cannot be written: nothing is kept.
proveHashFails(h) ==
    /\ Fault
    /\ Takes(h)
    /\ failed' = TRUE
    /\ UNCHANGED <<env, marker, blind, pc, config, view, decoded, down, plan, produced, missed>>

\* Mutant: the marker is taken over the store as it is when the scan ends.
recordProofScanMarkerLive ==
    LET live == [h \in stored |-> meta[h].proven]
    IN  [config |-> config, proven |-> live, hints |-> plan.hints,
         digest |-> fingerprintOfSnapshot(live, plan.hints, config)]

\* What a scan has settled: its own work over its baseline.
Banked == [h \in DOMAIN plan.baseline |-> IF h \in produced THEN TRUE ELSE plan.baseline[h]]

BankedHints == [h \in DOMAIN plan.hints \cap DOMAIN plan.baseline |-> plan.hints[h]]

\* Mutant: the digest in the marker leaves the hints out.
recordProofScanMarkerBare ==
    [config |-> config, proven |-> Banked, hints |-> BankedHints,
     digest |-> fingerprintOfSnapshot(Banked, <<>>, config)]

\* recordProofScanMarker: this scan's own work over the baseline, never the live store.
recordProofScanMarker ==
    [config |-> config, proven |-> Banked, hints |-> BankedHints,
     digest |-> fingerprintOfSnapshot(Banked, BankedHints, config)]

MaySettle == ~failed /\ ~plan.noSettle

\* A delta trusts the marker before it; a full pass does not.
EndScan ==
    /\ pc = "prove"
    /\ Current = {}
    /\ IF MaySettle
       THEN marker' = recordProofScanMarker /\ blind' = (missed \/ (blind /\ ~plan.full))
       ELSE UNCHANGED <<marker, blind>>
    /\ Reset
    /\ UNCHANGED <<env, config, faults>>

CrashScan ==
    /\ pc # "stopped"
    /\ Fault
    /\ Reset
    /\ UNCHANGED <<env, marker, blind, config>>

-----------------------------------------------------------------------------
(* Other processes, each with its own fresh view. *)

Event == events + faults < MaxEvents /\ events' = events + 1

publish(h) ==
    /\ Event
    /\ h \notin stored /\ Deps[h] \subseteq stored
    /\ stored' = stored \cup {h}
    /\ UNCHANGED <<meta, marker, blind, process, faults>>

apiProve(h, c) ==
    /\ Event
    /\ h \in stored
    /\ meta' = [meta EXCEPT ![h].proven = Provable(h, meta, stored, c)]
    /\ UNCHANGED <<stored, marker, blind, process, faults>>

\* Only a proven law of another definition can be hinted.
apiHint(h, target) ==
    /\ Event
    /\ {h, target} \subseteq stored
    /\ target # h /\ meta[target].proven
    /\ target \notin meta[h].hints
    /\ meta' = [meta EXCEPT ![h].hints = @ \cup {target}]
    /\ UNCHANGED <<stored, marker, blind, process, faults>>

apiHintClear(h) ==
    /\ Event
    /\ h \in stored /\ meta[h].hints # {}
    /\ meta' = [meta EXCEPT ![h].hints = {}]
    /\ UNCHANGED <<stored, marker, blind, process, faults>>

-----------------------------------------------------------------------------
\* The deployment's configuration only grows while it is observed.
Worker ==
    \/ \E c \in Config, out \in Outages \cup {{}} :
          \E hit \in Hits(out, {"proven", "hints"}) : c >= config /\ Gate(c, out, hit)
    \/ \E hit \in Hits(down, PlanPasses) : Plan(hit)
    \/ \E hit \in Hits(down, {"order", "levels"}) : Levels(hit)
    \/ \E h \in Def : Skip(h) \/ proveHashFails(h) \/ \E out \in SUBSET down : proveHash(h, out)
    \/ EndScan \/ CrashScan

Others ==
    \E h \in Def :
        \/ publish(h) \/ apiHintClear(h)
        \/ \E c \in Config : apiProve(h, c)
        \/ \E t \in Def : apiHint(h, t)

Next == Worker \/ Others

Spec == Init /\ [][Next]_vars

Live == [h \in Def |-> IF h \in stored THEN meta[h] ELSE None]

Settled(c) == marker # None /\ marker.digest = proofStateFingerprint(Live, Live, {}, {}, c)

(***************************************************************************)
(* The worker is started again and again (a scheduled job) and does not     *)
(* stop by itself between its steps.                                        *)
(***************************************************************************)
Resting == pc = "stopped" /\ Settled(config)

FairSpec == Spec /\ ([]<>Resting \/ []<><<Worker>>_vars)

-----------------------------------------------------------------------------
TypeOK ==
    /\ stored \subseteq Def
    /\ meta \in [Def -> Metadata]
    /\ pc \in {"stopped", "plan", "levels", "prove"}
    /\ \A h \in Def : view[h] # None => view[h] \in Metadata
    /\ decoded \subseteq stored
    /\ produced \subseteq {h \in Def : view[h] # None /\ view[h].proven}
    /\ marker # None => DOMAIN marker.proven \subseteq stored

\* Nothing of the store that is not proven could prove with the lemmas it has now.
Fixpoint(c) == \A h \in stored : ~meta[h].proven => ~Provable(h, Live, stored, c)

(***************************************************************************)
(* scanBulkProve: "the failure this design must not have is under-proving   *)
(* behind a marker that reads as settled".  Where the outer gate would skip *)
(* the scan, no unproven definition of the store could prove now, whatever  *)
(* was published, proved or hinted while earlier scans ran, whatever they   *)
(* failed to read and reported, and whatever they took for absent.          *)
(***************************************************************************)
SettledIsFixpoint == ~blind => \A c \in Config : Settled(c) => Fixpoint(c)

(***************************************************************************)
(* The same without the exemption of blind scans, as the comments at        *)
(* lemmaInputHashes and at the level loop have it: a scan whose reads       *)
(* failed must not settle.  The code does not keep it.                      *)
(***************************************************************************)
SettledWhateverFailed == \A c \in Config : Settled(c) => Fixpoint(c)

(***************************************************************************)
(* Fixpoint gating does not starve a definition: when the other processes   *)
(* are done, everything that can prove is proven and stays so, unless the   *)
(* scan that settled was blind.                                             *)
(***************************************************************************)
EverythingProvableProves == <>[](blind \/ Fixpoint(config))

(***************************************************************************)
(* Gating pays: a store without a hint cycle comes to rest, so that a scan  *)
(* ends at the outer gate (deploy.md: "the cadence only bites while the     *)
(* corpus is unsettled").                                                   *)
(***************************************************************************)
ScansComeToRest ==
    <>[](Settled(config) \/ lemmaInputCycle(lemmaInputHashes(Live, stored), stored))
=============================================================================
