# A TLA+ model of oath

Oath is a content-addressed language: a definition is stored under the hash of
its canonical form, names are mutable pointers to hashes, and every definition
carries a machine-earned guarantee (tested, proven, falsified).  Two kinds of
things can go wrong.  In the *registry*, request handlers of `oath serve` and
`oath prove-worker` processes share one store of mutable files (or Postgres
tables), die in the middle of an operation, and are sent signed statements late,
twice or never.  In the *kernel*, several pieces of code claim to say the same
thing about a program: two checkers, an encoder and a decoder, an evaluator and
an SMT translation, a definition and its normal form.  This project models both.

## Inventory

| Part (source under `oath/`) | State it keeps | Operations | Talks to |
|---|---|---|---|
| Store lock (`lock.go`, `pgIndex.lock`) | lock file and its mtime; advisory lock | `lock()`, release, stale break, timeout | taken by `Repoint`, `AppendLog`, `SetMeta` |
| Name index (`store.go`, `backend.go`, `backend_cloud.go`) | `names.json` / table `names` | `Names`, `Resolve`, `Repoint` | admission and worker write it, everybody reads it without the lock |
| Journal (`store.go`) | `log.jsonl` / table `journal`, hash-chained | `AppendLog`, `ReadLog`, `VerifyLog`, the transition fold | every operation appends; `nameRevision` and authority are folds of it |
| Metadata and its cache (`store.go`, `ast.go`) | `meta/<hash>.json`; map `metas` per process | `StoreObject` (merge), `GetMeta`, `SetMeta`, `RefreshMutable` | verifier, prover, mutation scorer, policy |
| Admission (`api.go`, `api_object.go`) | locals of a request | `apiPut`, `apiPutObject`, `admitPut` | all of the above, `checkDef`, `verifyDef`, policy, proof queue |
| Publication envelopes (`envelope.go`) | signed statements, held by authors | encode, sign, `checkPublication` | head of a name from `nameRevision` |
| Namespace authority (`reserve.go`, `delegate.go`, `transfer.go`, `ownership.go`) and policy (`policy.go`) | none of its own: folds of the journal; the rule file | reserve, delegate, revoke, transfer, census, `evalPolicy`, `provenGate` | journal, metadata |
| Proof queue (`proofq.go`, `backend.go`) | `<hash>.job`, `<hash>.lease` | enqueue, claim, reclaim, complete | put enqueues, worker drains |
| Proof worker (`prove_worker.go`) | locals; the scan marker | `processProofJob`, `scanBulkProve`, `scanBulkScore` | prover, metadata, index, journal |
| Prover (`prove.go`) | proven laws of a definition | `apiProveHash`, `proveOneInner`, `solve`, `tr` | z3, metadata |
| Type checker (`check.go`, `check_machine.go`) | frames of the machine; type arguments written into the term | `checkDef` | admission, elaboration |
| Evaluator, generators (`eval.go`, `gen.go`) | fuel and depth | `eval`, `apply`, `genValue` | verification, mutation testing |
| Static analyses (`termination.go`, `ranking.go`, `confinement.go`) | none | verdicts per definition | prover, policy, reports |
| Guarantees and mutation (`verify.go`, `mutate.go`, `adjudicate.go`) | level, proofs, score, waivers of a definition | verify, prove, mutate, waive | evaluator, prover, metadata |
| Canonical codec (`canon.go`, `profile.go`) | decoder work stack, node budget | `encodeDef`, `decodeDef`, `admitDef` | every store read and write |
| Equivalence discovery (`canon.go`, `egraph.go`) | work stack; e-graph | `eNormalize`, saturation, extraction | class keys of find |
| Discovery queries (`api.go`, `demand.go`) | clock; demand table | find, `--spec`, `--shape`, `--implies`, `recordMiss` | index, metadata, prover |
| Publishing client (`publish.go`, `publish_closure.go`) | plans, a throwaway seed store | plan, validate, sign, send, adopt | registry |
| Resolving client, transport, compilers, licences, migration, command line | - | - | - |

What makes each part hard and what makes it correct:

* **Lock**: polling waiters, a stale file left by a dead holder, deadlines.
  One holder at a time; every call returns; a dead holder does not wedge the
  store.
* **Index and journal**: read-modify-write of shared files by several
  processes; two *separate* critical sections per publication; ignored read and
  write errors; a non-atomic replacement on Postgres.  No update of another name
  is lost; the chain verifies; index and journal tell the same story; a signed
  statement works once.
* **Proof gate**: work handed to another process through a queue of files, with
  leases that expire.  A gated name is bound only to what was proved; what was
  promised as `pending` is bound.  A proof is never taken back.
* **Authority**: everything is derived from history, and signed statements
  arrive late.  Who may bind a name is who the signed history says; what was
  revoked stays revoked.
* **Corpus scan**: it runs for a long time over metadata others change, reads it
  in many passes any of which may fail, and records that there is nothing left to
  do.  The record is never wrong.
* **Proof run**: three nested loops with shortcuts, budgets and aborts.  What is
  recorded was earned; a slow machine takes no proof back; shortcuts lose nothing.
* **Checker machine**: the same language as the recursive checker.
* **Kernel verdicts**: "well typed", "total", "confined", "proven", "killed" are
  facts about what the evaluator does.
* **Codec**: one encoding per definition; a bounded decoder.
* **Discovery**: equal keys compute the same; an answer is true, and silence is
  reported as silence.
* **Publishing**: what is signed is what the author wrote, in an order the
  registry can follow, replacing only what was shown.

`PROJECT.json` lists every hazard at its line together with the property that
watches it.

## Modules

| Module | Models |
|---|---|
| `Mutex` | what the store asks of a lock: the abstract specification |
| `StoreLock`, `StoreLockProofs` | `fsFileLock`, one action per system call; mutual exclusion and refinement of `Mutex` |
| `Domains`, `ProofQueue`, `JournalFold` | shared constants; the file queue; chain, transition fold, revision, `checkPublication`, `VerifyLog` |
| `Registry` | the composition: handlers and workers over index, journal, metadata, queue and lock |
| `RegistryProofs` | proofs: types, chain, no lost repoint; no dangling name, the proof gate, recorded proofs stay; index and journal tell one story, an envelope moves its name once; a published name stays bound |
| `NumberFacts` | induction over the natural numbers, in a form the provers can use: least numbers, values along a chain, existence of a fold |
| `AuthorityFold`, `Authority` | reservations, delegations, ownership, policy rules as folds; clients that sign and handlers that decide and append |
| `AuthorityProofs` | proofs: delegates, first come, limits, revocation, the census |
| `ProofScan`, `ProofScanProofs` | the worker's corpus scan beside other processes; a settled marker hides nothing |
| `ProveRun`, `ProveRunProofs` | one `apiProveHash`: rounds, passes, strategies, budgets, aborts; what is recorded was earned, and gating loses nothing |
| `Kernel`, `Check`, `CheckMachine` | types and their rules; the recursive checker; the explicit machine |
| `Eval`, `Smt`, `Analyses`, `Guarantees` | evaluator and generators; translation and solver semantics; termination and confinement; the life of one definition's record |
| `Terms`, `Tags`, `Encode` | term constructors of the instances; the tag bytes; the canonical encoder |
| `Decode`, `DecodeProofs` | the iterative decoder, one action per task; its node budget is exact |
| `Codec` | what the decoder built, read back as a definition and compared with the encoder |
| `Normalize`, `Egraph` | E-normal form; saturation and extraction |
| `Discovery` | the queries and the demand counter |
| `Publish`, `PublishProofs` | the publishing client, the registry it talks to and the network; only what was shown is replaced, nothing is sent too early, dependencies come first |
| `MC...` | TLC instances |

`RECURSIVE` operators are confined to modules without theorems; where a proof
needs it a fold is a recursive function and a closure the least closed set.

### How Registry corresponds to the code

The store's shared state is `objects`, `proven` (hashes whose metadata says that
every property is proven), `names`, `journal`, `lock`, and the queue's `job`,
`lease` and `stale`.  A process (a handler in `Serve` or a worker in `Worker`)
has a program counter and the locals of the function it is in: the request, the
cached metadata (`copy`), the index `Repoint` read (`snap`), the journal
`AppendLog` read (`prior`), the entry to append and where to go afterwards.
Whatever lies between two accesses of shared state is one action, so TLC
interleaves at exactly the points where another process can act:

    put / putObject -> [PreCheck] -> Admit -> Store -> Gate
        refused:   -> AppendRead -> AppendWrite [-> Restore]
        deferred:  -> Enqueue -> AppendRead -> AppendWrite
        bound:     -> RepointRead -> RepointWrite -> Attribute
                   -> AppendRead -> AppendWrite
    Claim -> ClaimRename | ClaimTouch -> Prove -> AppendRead -> AppendWrite
        -> Bind -> (refused or bound as above) -> Complete

`RepointRead` and `AppendRead` include taking the lock, `RepointWrite` and
`AppendWrite` include the release.  On Postgres `RepointWrite` becomes
`RepointDelete` and one `RepointInsert` per name.  `Crash`, `AppendFails`,
`RepointReadError`, `AppendReadError` and `ProveError` are the failures; a run
says which kinds may happen (`Faults`) and how often (`MaxFaults`); `faults`
records those that did, a crash inside the Postgres replacement as `torn`.
`Crash` also stands for a handler that returns early on a store error, and on
Postgres for a failed insert: what was written stays and the lock is released.

Abstractions, and why they are harmless here:

* A hash stands for its definition.  Whether it type checks, fails its tests,
  swears properties or can be proved is a constant (`IllTyped`, `Falsified`,
  `NoProps`, `Provable`): these are functions of the content.
* A chain value is the sequence of entries it commits to: SHA-256 without
  collisions.  Signatures and principals are good: `checkPublication` keeps
  name, artifact, parent and revision.
* One request carries one definition; a batch is a sequence of requests by the
  same handler, because `apiPut` runs `admitPut` form by form.
* `evalPolicy` may answer either way for the names in `MayBlock`; `Authority`
  has its rules.
* Of a definition's metadata only the proof verdict is kept.  A handler keeps
  the copy it read in `Admit`; a fresher read after a concurrent request emptied
  the shared cache is not modelled.
* Read errors are modelled where a write follows from them (`Names` in
  `Repoint`, `readJournal` in `AppendLog`), not in `nameRevision`.
* `Sign` reads the head the way the `head` tool returns it.  An envelope, once
  signed, can be submitted by any handler at any later time, any number of
  times.

`moves` (every change of a binding) and `shown` (what the solver proved) are
ghosts: no action's guard reads them.

### How the other modules correspond to the code

* **Authority**: `cmdReserve`, `cmdDelegate` and `cmdTransfer` read the journal's
  folds and sign; `apiReserve`, `apiDelegate`, `apiTransfer` and `admitPut`
  decide on the journal of one step and append in a later one (`AppendLog`),
  since the lock covers only the append.  A name is the sequence of its segments,
  a prefix `a/b/*` the sequence `<<a, b>>`.  `at` in a statement is a ghost.
  `holding` and `appointed` are the replays of `reservations` and `delegates`,
  with a value for every prefix of the journal; `delegates` compares each grantor
  with the holder at the end, as the code does, and `appointedAtTheTime` is the
  reference that replays holders and grants together.
* **ProofScan**: `Gate`, `Plan`, `Levels`, `proveHash` per definition and
  `EndScan` are the worker; `publish`, `apiProve`, `apiHint` and `apiHintClear`
  are everybody else.  The worker reads through its process's caches (`view` for
  `GetMeta`, `decoded` for `GetDef`).  `Solver` gives for every law the libraries
  of lemmas under which it proves: any sets of libraries, because the solver is
  not monotone in its axioms.  `down` is what the worker's reads may fail on and
  `hit` the passes in which they do: a failed pass takes a listing for empty, an
  object for one without dependencies or metadata for absent, wherever the code
  does (`Lists`, `Reads`, `Fill`).  The level loop passes over what it cannot read
  (`Skip`), and a proof over a lemma it cannot read (`loadLemmaLibrary`).  The
  ghosts `missed` and `blind` remember what the code does not report; they steer
  no action.  The transitive closure is the least set closed under the edges;
  `topoFuncOrder` is any order that puts lemma inputs first, and the levels follow
  from it.
* **ProveRun**: the solver is a function of script and budget and need not be
  monotone; `World` is every such function for two laws that is sound, that is,
  discharges a false law only from a false lemma.  `GatingIsHarmless` compares
  with naive iteration (`NaiveStep`, `NaivePass`, `NaivePasses`): every law tried
  on every pass, as recursive functions of the law and of the pass.
* **CheckMachine**: one frame type per Go frame, `dispatch` and one `resume...`
  operator per frame; a node is a path in the body, and `pub` holds the type
  arguments the checker writes into the term.
* **Eval, Smt, Analyses, Guarantees**: terms with de Bruijn indices; fuel, depth
  and zero divisors as outcomes, "stuck" for what the checker should have ruled
  out.  The solver is external: validity over a box of models, with an open
  symbol where the theory leaves a term open.  Mutants are generated per node.
* **Tags, Encode, Decode, Codec**: an encoding is a sequence of numbers, one per
  field; the decoder has the code's task stack, prepaid children and budget.  The
  pointer a task fills is the path of its slot in the object, and `out` maps the
  paths that are filled to what they hold.  `admitDef`, a check of the finished
  definition, is the constant operator `admit`; `MCDecode` gives it the one of
  the code (`admitBuilt` in `Codec`, which puts the definition together from its
  slots).
* **Normalize, Egraph**: the work stack with deferred AC interiors; union-find,
  hash-consing, the three rules, rounds and node budget, extraction by cost.
* **Discovery**: the clock may run out at any test of the deadline; `Unreadable`
  definitions fail to load; a report is the set of facts it states.
* **Publish**: a form keeps the symbols of each syntactic position and, apart from
  them (`sugar`), the constructors its literals build; an object is the value a form
  elaborates to, so equality of objects is equality of hashes.  The registry starts
  with any part of the local store (`Published`), closed under dependencies.  It
  serves a request in three steps: `RegistryStore` (the statement is compared, the
  object checked and stored), `RegistryCheck` (compared again, then policy and proof
  gate) and `RegistryMove` (`Repoint`).  `OtherMoves` may come between any two of them,
  and a lost call may leave the request at work after the client has given up.  A
  report that says REJECTED or PENDING PROOF is no error to `finalizePublish`: a
  closure stops at the name that did not move (`Confirmed`), a single definition ends
  as if published, the report having been printed.  A failed read of the registry, or
  a persisted envelope other than the one signed, is `Stop`.

Left out throughout: IEEE floats, strings, formatting, logging.  `ProveRun` leaves out
that induction is also tried on an Int binder (`inductionEligible`); no property
depends on which binder a strategy inducts on.

## Runs

| Run | Bounds | Shows |
|---|---|---|
| `lock` | 3 callers, TTL 2, timeout 3, one crash | until the crash `fsFileLock` implements `Mutex`; every call returns; a dead holder's file is broken |
| `reg_gate` | Postgres, 1 handler, 2 workers, 5 definitions (provable, unprovable, falsified, ill-typed, data), one crash, lost append, failed read or prover error; fairness | chain and gate survive; what is pending gets bound; every handler ends |
| `reg_disjoint` | fs, 2 handlers and a worker, 4 requests, one of a falsified definition, 1 envelope, never two on one name or definition | `VerifyLog` accepts the journal; index and journal agree; no replay; no lost name; proofs survive re-puts |
| `authority` | 2 keys, nested prefixes, 3 statements, 4 entries and a fifth that publishes again, one handler | what was published under a prefix stays under it, through revocation (reserve, grant, publish, revoke, publish again) and transfer; delegates follow the signed history; first come, within the limit; the census predicts |
| `scan` | 3 definitions with a dependency and a hint, a solver that a lemma can make fail, 2 configurations, 3 events, one of them perhaps a fault (an object or the listing out of reach, a failed proof, a crash); fairness of the worker | a settled marker hides nothing unless its scan missed something in silence; everything provable proves; scanning comes to rest |
| `prove` | 2 laws, every sound solver, 1 abort | recorded is earned; no demotion by the environment; gating loses nothing |
| `check` | about 3000 bodies of depth 2 or 3 | machine and recursive checker agree; a second elaboration changes nothing |
| `kernel` | families of definitions over a small library | well-typed runs, total ends, confined keeps nothing, translation faithful, verdicts honest |
| `codec` | every one-token edit of encodings of every form; budget 18 nodes | definitions and accepted byte strings correspond one to one; what was built and promised is what was paid for, within the budget |
| `equiv` | equal families, every form, every small arithmetic term; 40 nodes, 4 rounds | equal keys compute the same; shortcuts change nothing; equal families meet |
| `discovery` | a corpus of binary operations, 2 callers, clock at will | answers are true; negatives are earned |
| `publish` | files of up to 3 of a pool of 12 forms and of 4 of its core of 8, 2 stores (in one the author has put a form already), 3 registries (knowing nothing, part or all of the store), 1 foreign move, 1 lost, blocked or pending call | signed is authored; orderly files are publishable; nothing ahead of what its batch publishes; only what was shown is replaced, but for a move after the registry's last comparison |

The bounds are chosen so that the case at issue happens: an A-B-A replay needs
four requests on one name and an envelope; a lost update needs two writers and
two names; a reclaimed lease needs a crash and a second worker; the boundary of
the TTL needs an age below, at and above it; a delegation outlived by its grantor
needs four entries; a stale marker needs one outside event during a scan and one
before it; the AC and distribution rules need three operands.  `reg_disjoint`
and `authority` use symmetry, which is sound: they check safety properties that
treat handlers, workers and keys alike.  Deadlock is not checked for systems
that rightly stop once the bounded inputs are used up; it is checked for
`StoreLock` and `Publish`.

Constraints that carry weight: `reg_disjoint` never runs two processes on one
name or definition (the findings below are what happens otherwise), `authority`
serves one request about authority at a time (docs/SPEC.md concedes that a first
reservation is not atomic; for grants it is a finding) and lets no holder reserve
twice; its bounds are `MaxStated` and `MaxJournal`, its fifth entry is the second
publication of a name after a revocation or a transfer (`FifthRepublishes`), and
clients sign between requests (`BetweenRequests`; with one handler, a signature in
the middle of a request sees what it would have seen before it).  `prove` does not
abort the lemma-free attempt (a finding).  `scan` lets every read fail, but claims
nothing of a marker that is `blind` (a finding).

### Fairness

`lock` assumes that a waiting caller keeps polling, that a critical section
ends, and that time passes; nobody is obliged to call `lock()`.  `reg_gate`
assumes weak fairness of each process's own steps (a handler that has started
runs on; the worker's loop polls the queue), and strong fairness of entering a
critical section: the lock is contended, so entering is enabled again and again
rather than continuously, and a caller that polls every 40 ms against sections of
milliseconds gets in.  Leases get old because time passes.  `scan` assumes that
the worker, which a scheduler starts again and again, either rests at the gate
time and again or takes steps for ever; that follows from weak fairness of its
steps, and outages and crashes are bounded.  No fairness is
assumed of requests, signatures, outside events or faults.

## Proofs

All proofs are for every value of the constants that satisfies the modules'
assumptions.

* `PromptMutualExclusion`, `PromptImplementsMutex` (`StoreLockProofs`): if no
  critical section outlives the TTL (`Prompt`), then until the first crash the
  lock file has one holder and refines `Mutex`.  Exclusion alone is not
  inductive: the invariant adds that the file exists exactly while its owner
  holds it, and that nobody is about to remove a file, because no file was ever
  found stale.
* `RegistryTyped` (`RegistryProofs`): type correctness of all of `Registry`.  The
  invariant adds that a process outside `idle` has a proper request and that the
  entry at hand is one the journal can hold.
* `JournalAlwaysChains`: with the lock on and until a read fails, the journal
  verifies, on either backend, whatever crashes and whichever append is lost.
  `JournalChains` is preserved by an append only if the writer's copy of the
  journal is current; so the invariant `LockInv` says who holds the lock
  (whoever is in a critical section), that the copy of whoever is appending
  equals the journal (`TailCurrent`), and that the copy of whoever is writing the
  index equals the index (`IndexCurrent`).  It holds until the record of faults
  contains a failed read; that record only grows.
* `RepointIsNeverLost`: the action property `NoLostRepoint` for the filesystem
  index, from the same invariant.
* `NamesAreStored`: no dangling name, even without the lock and with every
  fault.  The invariant says that every hash a process is about to bind, every
  queued or leased hash, every recorded copy of the index and the index itself
  name stored objects.
* `GateHolds`: a gated name points at no function the solver did not prove (a data
  definition passes the gate, as in `provenGate`).  The invariant
  carries the fact from the metadata and each handler's cached copy, through the
  decision to repoint, to the copies of the index.
* `RecordedProofsStay`: `ProofSurvives`, on either backend, without the lock and
  with every fault, as long as no two processes work on one definition
  (`DisjointHashes`; the finding shows why).  A handler writes back the copy it
  read several steps earlier; `CacheInv` says that a copy which is still to be
  written and does not say "proven" is that of a definition not proven.
* `PublishedStaysBound`: on the filesystem index, with the lock on and until a read
  fails, `NeverDeleted`: a published name is bound in every state, whatever
  crashes and whichever append is lost.  A journal line says that a name was
  published, and the index was written some steps before, possibly by a handler
  that has since died; so `BoundInv` adds that whoever is on the way to journal
  a binding finds the name bound already (`EntriesBound`).  `RepointWrite` keeps
  it because the copy of the index it writes back is current (`LockInv`).  On
  Postgres the property fails, which is a finding.

### One story in index and journal

`StoreVerifiesItsJournal`, `JournalTellsTheIndex` and `EnvelopesMoveOnce` prove
`JournalVerifies`, `IndexIsJournalled` and `NoReplay`, for `LockOn`, the
filesystem backend, `[]DisjointNames` and every state before the first fault.
Each condition is needed: the findings on a crash between `Repoint` and
`AppendLog`, on the Postgres replacement and (conceded by the documentation) on
two publications of one name are its counterexamples.

The properties are about folds over the whole journal.  `NumberFacts` derives
induction from the well-foundedness of the naturals, with sets of numbers in
place of an operator parameter, and `RegistryProofs` uses it to show that the fold
function exists, that it does not change on a prefix when a line is appended, and
what the last line adds.  With that `HistoryInv` is inductive: what each process
will append is known from its program counter (`HandlerInv`); the index equals
the fold except for names a process has moved and not yet journalled
(`IndexFollows`, `JournalExplains`); the stated transitions and the author
records verify; and the revision an envelope signs is below the current one as
soon as it has moved its name (`StatementsSpent`), which gives `NoReplay`.

### Authority (`AuthorityProofs`)

* `AuthorityTyped`: the journal holds only entries the handlers write, and a
  handler carries on what it decided.  Any number of handlers.
* `CensusIsRight`: `CensusPredicts`, for every policy and journal and any number
  of handlers.
* `DelegationFollowsHistory`, `FirstComeHolds`: `DelegationIsHistory` and
  `FirstComeWithinLimit` when requests are served one at a time
  (`[]OneAtATime`).  A decision and its append are separate steps, and with two
  handlers neither holds: the documentation concedes it of first reservations, of
  revocations it is a finding.
* `RevocationsRecover`: `RevocationRecovers` under the same condition when no
  holder reserves again what it holds (`~Reclaim`; the finding is what happens
  otherwise).  It states the rule of `evalPolicy` and of DEL-REVOCATION-RECOVERS: a
  name published under a prefix belongs to the prefix.  After a transfer the same
  rule takes it from the former holder, although XFER-NO-CAPTURE promises that
  names bound beneath the prefix stay with their owners: `TransferKeepsNames` is
  what that text says, and TLC refutes it (a finding).

The invariant has two parts besides the types.  `RequestInv`: a statement carries
the revision its signer saw (`Signed`), and what a handler decided is still true
of the journal it is about to append to (`Decided`).  `JournalInv`: nobody has
granted under a prefix that was never claimed; the fold of `delegates` agrees
with the replay at the time; a grant that is accepted has the delegation revision
of its signing, which counts every revocation, so none lies in between; holdings
are finite and within the limit; and without re-reservation a claim keeps its
place in the journal (`ReservedOnce`), so that retention ("the name is older than
the claim") cannot apply to a name published under the claim.

### Worker and prover

* `ScanTyped`, `SettledHidesNothing` (`ProofScanProofs`): `SettledIsFixpoint` for
  every finite corpus whose dependencies have no cycle, every solver, every
  history of other processes and every pattern of failed reads, failed proofs and
  crashes.  What it says nothing of is a marker that is `blind`: one recorded by a
  scan that lost the listing of the hints or of the levels, or part of the lemma
  graph of the cycle test, or by a delta on top of such a marker.  `ScanInv` says
  that the store is closed under references and the worker has read nothing else
  (`StoreInv`); that nothing unproven in the marker could prove from what the
  marker records (`MarkerInv`); that a plan which may still settle describes the
  worker's view, and that what a delta leaves out could not prove (`PlanInv`); and
  that every definition is attempted after everything it draws lemmas from, so
  that one which is unproven and no longer pending could not prove (`LevelInv`).
  All of these speak of the `Core` of a plan or a marker: the definitions that
  draw on nothing the snapshot has taken for absent.  Failed reads can make the
  core small, but what is in it has been read, and can neither be skipped nor
  scheduled before its lemmas; what is outside is new to the next scan.  Where
  the digest of the store equals the marker's, the core is the store.  The solver
  need not be monotone because the same library is compared with itself
  (`SameAnswer`), never a smaller one with a larger.
* `ProveRunTyped`, `RecordsAreEarned`, `AbortsDemoteNothing` (`ProveRunProofs`):
  types, `RecordedIsEarned`, and `NoEnvironmentalDemotion` for
  `~AbortLemmaFree` (a finding), for any number of laws and every sound solver.
  `RunInv` adds to the types that the laws in scope of an attempt hold
  (`Earned`), that "proven" is said of complete sets (`Advertised`), and that a
  standing proof whose attempt was cut short is still in the books
  (`Remembered`).
* `GateLosesNothing`: `GatingIsHarmless`, for any number of laws and every sound
  solver, also one that loses a law when a lemma is added.  Its condition is that
  of the property: a round in which no attempt aborted and the pass cap was not
  reached.  `GateInv` has three parts.  `Searched`: the strategies before the one at
  hand failed with the lemmas now available, so that a search that ends has tried
  what naive iteration tries.  `StillFails`: a law whose last attempt belongs to
  this epoch would fail again, so that skipping it is a pass of naive iteration
  that adds nothing.  `InStepWith`: the round stands where naive iteration stands
  in some pass, each pass before it having added a law; since there are finitely
  many laws that pass is among the first as many, and a pass without progress has
  reached the fixpoint.
* `OnlyShownIsReplaced` (`PublishProofs`): `ReplacesOnlyWhatWasShown`, for every
  file and store, any number of foreign moves at any step and of lost calls.
  `ShownInv`: nothing is signed before all plans are shown, and every signed statement
  is one of them.  `WorkInv`: the registry is at work on one request at a time, and
  what it compared last still stands unless the request was overtaken.  It does not
  say that a concurrent publisher is never overwritten: `Repoint` compares nothing, and
  what another publisher binds between the last comparison and `Repoint` is replaced
  unseen (envelope.go:56-64 concedes it).  The theorem says that this is the only way.
* `NothingSentTooEarly`, `DependenciesComeFirst`: two of the three parts of
  `NeverAheadOfDependency`.  The first is about sending: if of the batch's own
  definitions each plan shown refers only to those above it (`PlannedInOrder`), the
  registry never lacks one the batch publishes, whatever it knew before and whatever is
  lost, blocked, pending or moved by others, because the client goes on only when it
  has seen the name bound, and what is bound is there (`OrderInv`).  What the author
  has put but not published, and does not publish in this batch, the registry may
  lack: the client does not check it, and no theorem claims it.  The second is about
  the order: `topoOrderForms` places each definition once and after everything it has
  an edge to, and leaves something out only if it waits for what is left out.  The
  third part, that a definition resolves to what its edges name, is where the property
  has its exceptions (`AmbiguousCtor` without a namespace, `LiteralAhead`; both
  findings) and stays with TLC.

### Decoder (`DecodeProofs`)

`BudgetIsExact`: `PaidBeforeMade`, for every set of inputs, every budget, every
plausibility cap and whatever is admitted at the end: at every step the nodes
charged are those that were built and those promised to declared collections, each
once, and within the budget.  A counter is exact only if no slot is filled twice,
which is a fact about the whole stack.  Every task owns a part of the object under
construction (`Owns`): the slot it fills and what hangs below, or the children of
its node that are still to come.  `SlotInv` says that these parts are disjoint
(`Apart`), that nothing in them is built yet, and that a task which returns to its
node finds it built.  The lemmas say that what a task leaves on the stack splits the
part it owned (`Splits`), and that its new tasks are either all prepaid, their number
having been reserved before they were pushed, or pay for themselves when they run
(`PaidFor`).  There is one lemma per kind of task and one for the step.

### Only model-checked

* Liveness (`EveryCallReturns`, `CrashedLockIsBroken`, `PendingIsBound`,
  `EveryHandlerEnds`, `EverythingProvableProves`, `ScansComeToRest`): fairness is
  outside the prover's reach.
* All properties of `CheckMachine`, `Guarantees`, `Egraph` and `Discovery`: they
  compare `RECURSIVE` functions of programs, and need induction over terms.
* `OneToOne` (`MCDecode`): that what was decoded encodes to the bytes it was decoded
  from is an induction over the definition.
* `SignedIsAuthored`, `PutAcceptedIsPublishable`, and the part of
  `NeverAheadOfDependency` about the resolution of names: they compare elaborations
  of whole files under different sets of aliases and names.

## Findings

Where code and comment disagree, `PROJECT.json` quotes both.  Each of these is a
violation of the named property once the instance is changed as said; the passing
runs exclude exactly that.

| Where | Property | Instance |
|---|---|---|
| a crash between `Repoint` and `AppendLog` revives a used envelope | `NoReplay` | `MCRegistry`: 1 handler, 1 name, 2 hashes, 4 requests, `Faults = {"crash"}` |
| a crash between delete and inserts loses published names | `NeverDeleted` | `MCRegistry`: `Backend = "pg"`, 2 handlers, 2 names, `Faults = {"crash"}` |
| a reader between delete and inserts sees a published name unbound | `NoReplay` | `MCRegistry`: `Backend = "pg"`, 2 handlers, 4 requests, under `DisjointNames` |
| the queue is keyed by hash and carries one name | `PendingIsBound` | `MCRegistry`: `Gated = {n1, n2}`, one provable hash, `FairSpec` |
| cached metadata overwrites a recorded proof | `ProofSurvives` | `MCRegistry`: a worker and 2 handlers on one hash, without `DisjointHashes` |
| a holder's second reservation makes its names older than the claim | `RevocationRecovers` | `MCAuthority`: `Reclaim = TRUE` |
| a transfer takes the names published under the prefix along | `TransferKeepsNames` | `MCAuthority`, as it is |
| a second copy of a grant takes effect after a revocation | `DelegationIsHistory` | `MCAuthority`: 2 handlers, `MaxSigned = 4`, without `BetweenRequests` |
| an aborted lemma-free attempt counts as an answer | `NoEnvironmentalDemotion` | `MCProveRun`: `AbortLemmaFree = TRUE` |
| reads that fail in silence leave a settled marker | `SettledWhateverFailed` | `MCProofScan`, as it is; also with objects alone in `Outages` |
| == at a datatype with functions inside type checks | `WellTypedRuns` | `MCKernel`: `Programs <- EqPrograms` |
| a partial application keeps a confined capability | `ConfinedKeepsNothing` | `MCKernel`: `Programs <- LeakPrograms` |
| an uninterpreted callee yields REFUTED for a true law | `RefutationIsReal` | `MCKernel`: `Programs <- HopPrograms` |
| a law about x / 0 proves and cannot run | `ProvenIsRunnable` | `MCKernel`: `Programs <- ZeroPrograms` |
| concurrent misses are counted once | `EveryMissCounted` | `MCDiscovery`, as it is |
| an unreadable candidate does not make a search incomplete | `NegativesAreEarned` | `MCDiscovery`: `Unreadable` not empty |
| an unused alias is checked later than put checks it | `SignedIsAuthored` | `MCPublish`, without `Orderly` |
| without a namespace a name is only compared with itself | `NeverAheadOfDependency` | `MCPublish`, without `AmbiguousCtor` |
| a literal refers to constructors the dependency order does not see | `NeverAheadOfDependency` | `MCPublish`, without `LiteralAhead` |
| a lost answer is reported as "publication not applied" | `ConflictMeansNotApplied` | `MCPublish`, as it is |

Four more are disagreements between texts or a text and one line of code (the
waiver policy, proofs of a falsified definition, the decoder's comment on
recursion, and what the client sends) and need no run.  Divergences that the documentation concedes are not
listed: the window after a stale lock is broken (`lock.go:25`), two concurrent
publications signed against the same parent (`envelope.go:56-64`), and two first
reservations at once.

## Not modelled

* **Compilers and the runtime bridge** (`llvm.go`, `compile.go`, `program.go`,
  `bridge.go`): text generation, some 12000 lines, judged by running its output.
* **Command line, printing, conformance fixtures**: formatting.
* **HTTP and MCP transport, keys**: parsing, authentication and dispatch.
* **Resolving client**: every answer is checked by recomputing a hash.
* **Licences, migration, audit**: pure or offline computations.
* **The cache shared by concurrent requests** (`RefreshMutable`) and **the routing
  of statements through the lock-holding connection** (`pgIndex.exec`): real
  hazards, listed without a property.
* **The Postgres proof queue**: one `UPDATE`, atomic by itself.

## What is left

1. **MetaStore**: the shared cache, `RefreshMutable` and the merge of naming and
   verdict fields; a specification of what a handler may observe.
2. **Cloud backend**: the connection routing, the transactional queue.
3. **Abstract registry**: one atomic publication step (index and journal
   together) that `Registry` implements when no two publications of one name
   overlap.
4. **Proofs**: `NegativesAreEarned`, once the control of `Discovery` is separated
   from the recursive functions it calls, as `Decode` is from `Codec`;
   for `NeverAheadOfDependency`, that a plan resolves every name to the object the
   validated batch bound, if no constructor is ambiguous.
