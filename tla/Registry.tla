------------------------------ MODULE Registry ------------------------------
(***************************************************************************)
(* The registry core: how a definition gets into the store and how a name   *)
(* comes to point at it.                                                    *)
(*                                                                          *)
(*   serve process   apiPut / apiPutObject -> admitPut (oath/api.go,        *)
(*                   oath/api_object.go): gate, store, re-check, policy,    *)
(*                   then Repoint and AppendLog, or a refusal that is only  *)
(*                   journalled, or a deferred bind that is queued;         *)
(*   worker process  processProofJob (oath/prove_worker.go): claim, prove,  *)
(*                   journal the proof, then bind the waiting name.         *)
(*                                                                          *)
(* Repoint and AppendLog (oath/store.go) are two critical sections of one   *)
(* backend lock, not one.  Everything between two of a process's reads or   *)
(* writes of shared state is one action.  Taking the lock and the read that *)
(* follows it are one action, and so are the write and the release: nobody  *)
(* else can act on the locked state in between.                             *)
(***************************************************************************)
EXTENDS ProofQueue, JournalFold

CONSTANTS
    Serve,           \* request handlers of `oath serve` (goroutines or processes)
    Worker,          \* `oath prove-worker` processes
    IllTyped,        \* hashes checkDef refuses
    Falsified,       \* hashes whose properties fail under test
    Data,            \* hashes of data definitions; the others are functions
    NoProps,         \* hashes that swear no property
    Provable,        \* hashes the solver proves
    Gated,           \* names under a require_proven rule
    MayBlock,        \* names whose synchronous policy may refuse a bind
    Backend,         \* "fs" (names.json, one rename) or "pg" (delete, then inserts)
    LockOn,          \* OATH_STORE_LOCK is set, or the backend always locks
    MaxRequests,     \* bound: requests served
    Faults,          \* what may go wrong: see FaultKinds
    MaxSigned,       \* bound: envelopes signed by authors
    MaxFaults        \* bound: how often it does

Proc == Serve \union Worker

(***************************************************************************)
(* "crash"  a process dies, or its handler returns on an error; recorded as *)
(*          "torn" when it had deleted the index and not put it back (pg);  *)
(* "append" AppendLog fails (lock timeout, failed write): callers ignore it;*)
(* "read"   reading the index or the journal fails, which Names() and       *)
(*          AppendLog take for an empty one;                                *)
(* "prove"  apiProveHash returns an error (no solver, no fixpoint).         *)
(***************************************************************************)
FaultKinds == {"crash", "torn", "append", "read", "prove"}

ASSUME RegistryAssumption ==
    /\ None \notin Hash /\ None \notin Name /\ None \notin Proc
    /\ IllTyped \subseteq Hash /\ Falsified \subseteq Hash
    /\ NoProps \subseteq Hash /\ Provable \subseteq Hash
    /\ Gated \subseteq Name /\ MayBlock \subseteq Name
    /\ Backend \in {"fs", "pg"} /\ LockOn \in BOOLEAN
    /\ Provable \intersect (Falsified \union NoProps) = {}
    /\ Data \subseteq NoProps \ Falsified
    /\ MaxRequests \in Nat /\ MaxSigned \in Nat /\ MaxFaults \in Nat
    /\ Faults \subseteq FaultKinds
    /\ Serve \intersect Worker = {}

VARIABLES
    objects,   \* hashes with a stored object
    proven,    \* hashes whose metadata says every property is proven
    names,     \* the name index
    journal,   \* log.jsonl, a sequence of lines
    lock,      \* holder of the backend lock
    envs,      \* publication envelopes authors have signed; anyone may submit them
    moves,     \* ghost: every change of a binding, in the order they happened
    shown,     \* ghost: hashes the solver has proved
    requests, faults,
    \* one value per process: the locals of the handler it is running
    pc,        \* where it is
    req,       \* the request or job: [name, hash, env]
    copy,      \* the metadata of req.hash in the handler's cache
    snap,      \* Repoint's copy of the index
    prior,     \* AppendLog's copy of the journal
    entry,     \* the entry to be appended
    ret        \* where to go when the entry is in

storeVars == <<objects, proven, names, journal, lock>>
ghostVars == <<envs, moves, shown, requests, faults>>
locals == <<pc, req, copy, snap, prior, entry, ret>>
vars == <<storeVars, queueVars, ghostVars, locals>>

Index == [Name -> Hash \union {None}]
Empty == [n \in Name |-> None]

Envelope == [name : Name, artifact : Hash, parent : Hash \union {None}, rev : Nat]
Request == [name : Name, hash : Hash, env : Envelope \union {None}]
Body == [kind : {"func", "data", "put", "prove"}, name : Name,
         hash : Hash \union {None}, prev : Hash \union {None},
         status : {"accepted", "falsified", "rejected", "blocked", "pending"},
         stated : {"", "applied", "unchanged", "none"}, env : Envelope \union {None}]
Line == [seq : Nat, body : Body, chain : Seq([seq : Nat, body : Body])]

NoReq == [name |-> None, hash |-> None, env |-> None]
NoBody == [kind |-> "", name |-> None, hash |-> None, prev |-> None,
           status |-> "", stated |-> "", env |-> None]

Location == {"idle", "precheck", "admit", "store", "gate", "enqueue", "repoint", "writing",
             "inserting", "attribute", "log", "appending", "restore",
             "claim", "reclaim", "prove", "bind", "complete"}

Returns == {"idle", "restore", "bind", "complete"}

Metadata == {"absent", "unproven", "proven"}

Init ==
    /\ objects = {} /\ proven = {} /\ names = Empty /\ journal = <<>> /\ lock = None
    /\ QueueInit
    /\ envs = {} /\ moves = <<>> /\ shown = {} /\ requests = 0 /\ faults = <<>>
    /\ pc = [p \in Proc |-> "idle"]
    /\ req = [p \in Proc |-> NoReq]
    /\ copy = [p \in Proc |-> "absent"]
    /\ snap = [p \in Proc |-> Empty]
    /\ prior = [p \in Proc |-> <<>>]
    /\ entry = [p \in Proc |-> NoBody]
    /\ ret = [p \in Proc |-> "idle"]
-----------------------------------------------------------------------------
\* def.K, under which admitPut journals a definition.
Kind(h) == IF h \in Data THEN "data" ELSE "func"

\* The entry of a step that moved no name: it records no prev and no author.
NoBind(r, kind, h, status, stated) ==
    [kind |-> kind, name |-> r.name, hash |-> h, prev |-> None,
     status |-> status, stated |-> stated, env |-> None]

goto(p, l) == pc' = [pc EXCEPT ![p] = l]

\* Leave for AppendLog with entry e, and go on at l afterwards.
thenLog(p, e, l) ==
    /\ goto(p, "log")
    /\ entry' = [entry EXCEPT ![p] = e]
    /\ ret' = [ret EXCEPT ![p] = l]

\* The handler returns: its locals are gone.
done(p) ==
    /\ goto(p, "idle")
    /\ req' = [req EXCEPT ![p] = NoReq]
    /\ copy' = [copy EXCEPT ![p] = "absent"]

\* SetMeta: the handler's copy of the metadata replaces the stored one.
saveMeta(p) ==
    proven' = IF copy[p] = "proven" THEN proven \union {req[p].hash} ELSE proven \ {req[p].hash}

(***************************************************************************)
(* An author reads the head (the `head` tool returns nameRevision) and      *)
(* signs a publication against it.  Signing needs no registry; the envelope *)
(* can be submitted at once, late, twice or never.                          *)
(***************************************************************************)
Sign(n, h) ==
    LET head == nameRevision(journal, names, n)
    IN  /\ Cardinality(envs) < MaxSigned
        /\ envs' = envs \union {[name |-> n, artifact |-> h, parent |-> head.parent, rev |-> head.rev]}
        /\ UNCHANGED <<storeVars, queueVars, locals, moves, shown, requests, faults>>

Accept(p, r, l) ==
    /\ pc[p] = "idle"
    /\ requests < MaxRequests
    /\ requests' = requests + 1
    /\ req' = [req EXCEPT ![p] = r]
    /\ goto(p, l)
    /\ UNCHANGED <<storeVars, queueVars, envs, moves, shown, faults, copy, snap, prior, entry, ret>>

\* apiPut: source publication, unsigned.
put(p, n, h) == Accept(p, [name |-> n, hash |-> h, env |-> None], "admit")

\* apiPutObject: a signed statement and the object it names.
putObject(p, e) == Accept(p, [name |-> e.name, hash |-> e.artifact, env |-> e], "precheck")

\* The author-statement check; a request without a statement has nothing to check.
StatementHolds(r) ==
    r.env # None => checkPublication(r.env, r.name, r.hash, nameRevision(journal, names, r.name))

\* apiPutObject checks the statement before anything is stored.
PreCheck(p) ==
    /\ pc[p] = "precheck"
    /\ \/ /\ StatementHolds(req[p])
          /\ goto(p, "admit")
          /\ UNCHANGED <<entry, ret>>
       \/ /\ ~StatementHolds(req[p])
          /\ thenLog(p, NoBind(req[p], Kind(req[p].hash), req[p].hash, "rejected", "none"), "idle")
    /\ UNCHANGED <<storeVars, queueVars, ghostVars, req, copy, snap, prior>>

\* Mutant: a re-put starts from fresh metadata instead of merging the stored verdicts.
AdmitUnmerged(p) ==
    /\ pc[p] = "admit"
    /\ goto(p, "store")
    /\ copy' = [copy EXCEPT ![p] = "unproven"]
    /\ UNCHANGED <<storeVars, queueVars, ghostVars, req, snap, prior, entry, ret>>

(***************************************************************************)
(* admitPut, first part: the kernel gate, then the read of the metadata     *)
(* that every later GetMeta of the request finds in the cache.              *)
(***************************************************************************)
Admit(p) ==
    LET h == req[p].hash
    IN  /\ pc[p] = "admit"
        /\ \/ /\ h \in IllTyped
              /\ thenLog(p, NoBind(req[p], Kind(h), None, "rejected", ""), "idle")
              /\ UNCHANGED copy
           \/ /\ h \notin IllTyped
              /\ copy' = [copy EXCEPT ![p] = IF h \in proven THEN "proven"
                                             ELSE IF h \in objects THEN "unproven" ELSE "absent"]
              /\ goto(p, "store")
              /\ UNCHANGED <<entry, ret>>
        /\ UNCHANGED <<storeVars, queueVars, ghostVars, req, snap, prior>>

(***************************************************************************)
(* StoreObject and verifyDef: the object is written, and its metadata with  *)
(* the verdicts that were read.  Neither touches the names or the journal.  *)
(***************************************************************************)
Store(p) ==
    /\ pc[p] = "store"
    /\ objects' = objects \union {req[p].hash}
    /\ saveMeta(p)
    /\ goto(p, "gate")
    /\ UNCHANGED <<names, journal, lock, queueVars, ghostVars, req, copy, snap, prior, entry, ret>>

(***************************************************************************)
(* provenGate: may this name be bound to this hash, whose metadata is m,    *)
(* without a proof?  A data definition has nothing to prove and passes.     *)
(***************************************************************************)
provenGate(n, h, m) ==
    IF n \notin Gated \/ h \in Data \/ m = "proven" THEN "pass"
    ELSE IF h \in Falsified \union NoProps THEN "blocked"
    ELSE "pending"

\* The answers evalPolicy can give for a name.
evalPolicy(n) == IF n \in MayBlock THEN {TRUE, FALSE} ELSE {TRUE}

(***************************************************************************)
(* admitPut, second part: the author-statement gate again, evalPolicy, and  *)
(* the proof gate.  A refused object publication goes on to put back the    *)
(* naming its hash had before, if it had one.                               *)
(***************************************************************************)
Gate(p) ==
    LET r == req[p]
        refuse(status, stated) ==
            thenLog(p, NoBind(r, Kind(r.hash), r.hash, status, stated),
                    IF r.env # None /\ copy[p] # "absent" THEN "restore" ELSE "idle")
        gate == provenGate(r.name, r.hash, copy[p])
        holds == StatementHolds(r)
    IN  /\ pc[p] = "gate"
        /\ \/ ~holds /\ refuse("rejected", "none")
           \/ holds /\ FALSE \in evalPolicy(r.name) /\ refuse("blocked", "")
           \/ /\ holds /\ TRUE \in evalPolicy(r.name)
              /\ \/ gate = "blocked" /\ refuse("blocked", "")
                 \/ /\ gate = "pending"
                    /\ goto(p, "enqueue")
                    /\ UNCHANGED <<entry, ret>>
                 \/ /\ gate = "pass"
                    /\ goto(p, "repoint")
                    /\ UNCHANGED <<entry, ret>>
        /\ UNCHANGED <<storeVars, queueVars, ghostVars, req, copy, snap, prior>>

\* apiPutObject's repair of the naming rewrites the whole of the cached metadata.
Restore(p) ==
    /\ pc[p] = "restore"
    /\ saveMeta(p)
    /\ done(p)
    /\ UNCHANGED <<objects, names, journal, lock, queueVars, ghostVars, snap, prior, entry, ret>>

\* The deferred bind: queue the object first, journal `pending` after it.
Enqueue(p) ==
    /\ pc[p] = "enqueue"
    /\ enqueueProof(req[p].hash, req[p].name)
    /\ thenLog(p, NoBind(req[p], Kind(req[p].hash), req[p].hash, "pending", ""), "idle")
    /\ UNCHANGED <<storeVars, ghostVars, req, copy, snap, prior>>
-----------------------------------------------------------------------------
lockFree == ~LockOn \/ lock = None

take(p) == lock' = IF LockOn THEN p ELSE lock

\* Mutant: the release is forgotten.
releaseForgotten(p) == lock' = lock

release(p) == lock' = IF lock = p THEN None ELSE lock

\* Mutant: the index is read and written back without the lock.
RepointReadUnlocked(p) ==
    /\ pc[p] = "repoint"
    /\ snap' = [snap EXCEPT ![p] = names]
    /\ goto(p, "writing")
    /\ UNCHANGED <<storeVars, queueVars, ghostVars, req, copy, prior, entry, ret>>

\* Repoint: lock, read the whole index.
RepointRead(p) ==
    /\ pc[p] = "repoint"
    /\ lockFree
    /\ take(p)
    /\ snap' = [snap EXCEPT ![p] = names]
    /\ goto(p, "writing")
    /\ UNCHANGED <<objects, proven, names, journal, queueVars, ghostVars,
                   req, copy, prior, entry, ret>>

FaultAs(kind, record) ==
    /\ kind \in Faults
    /\ Len(faults) < MaxFaults
    /\ faults' = Append(faults, record)

Fault(kind) == FaultAs(kind, kind)

\* Names() drops the error of the read: the index looks empty.
RepointReadError(p) ==
    /\ pc[p] = "repoint"
    /\ Fault("read")
    /\ lockFree
    /\ take(p)
    /\ snap' = [snap EXCEPT ![p] = Empty]
    /\ goto(p, "writing")
    /\ UNCHANGED <<objects, proven, names, journal, queueVars, envs, moves, shown, requests,
                   req, copy, prior, entry, ret>>

(***************************************************************************)
(* What follows a successful Repoint.  admitPut states the transition it    *)
(* made and carries the author record; the worker's entry does neither.     *)
(***************************************************************************)
boundEntry(p, prev) ==
    IF p \in Worker
    THEN [kind |-> "put", name |-> req[p].name, hash |-> req[p].hash, prev |-> prev,
          status |-> "accepted", stated |-> "", env |-> None]
    ELSE [kind |-> Kind(req[p].hash), name |-> req[p].name, hash |-> req[p].hash, prev |-> prev,
          status |-> IF req[p].hash \in Falsified THEN "falsified" ELSE "accepted",
          stated |-> nameTransition(prev, req[p].hash), env |-> req[p].env]

\* Mutant: the new binding is not journalled.
afterRepointSilent(p) ==
    /\ goto(p, IF p \in Worker THEN "complete" ELSE "idle")
    /\ release(p)
    /\ snap' = [snap EXCEPT ![p] = Empty]
    /\ UNCHANGED <<entry, ret>>

afterRepoint(p) ==
    /\ goto(p, "attribute")
    /\ entry' = [entry EXCEPT ![p] = boundEntry(p, snap[p][req[p].name])]
    /\ ret' = [ret EXCEPT ![p] = IF p \in Worker THEN "complete" ELSE "idle"]
    /\ release(p)
    /\ snap' = [snap EXCEPT ![p] = Empty]

\* Ghost: remember a binding that really changed.
recordMove(p) ==
    moves' = IF names[req[p].name] = req[p].hash THEN moves
             ELSE Append(moves, [name |-> req[p].name, to |-> req[p].hash, env |-> req[p].env])

\* The index Repoint writes: the copy it read, with one name changed.
written(p) == [snap[p] EXCEPT ![req[p].name] = req[p].hash]

\* fs: names.json is replaced by one rename.
RepointWrite(p) ==
    /\ Backend = "fs"
    /\ pc[p] = "writing"
    /\ names' = written(p)
    /\ recordMove(p)
    /\ afterRepoint(p)
    /\ UNCHANGED <<objects, proven, journal, queueVars, envs, shown, requests, faults,
                   req, copy, prior>>

\* pg: `delete from names` ...
RepointDelete(p) ==
    /\ Backend = "pg"
    /\ pc[p] = "writing"
    /\ names' = Empty
    /\ recordMove(p)
    /\ goto(p, "inserting")
    /\ UNCHANGED <<objects, proven, journal, lock, queueVars, envs, shown, requests, faults,
                   req, copy, snap, prior, entry, ret>>

\* ... then one insert per name, each its own statement.
ToInsert(p) == {n \in Name : written(p)[n] # None /\ names[n] = None}

RepointInsert(p) ==
    /\ Backend = "pg"
    /\ pc[p] = "inserting"
    /\ \E n \in ToInsert(p) :
          /\ names' = [names EXCEPT ![n] = written(p)[n]]
          /\ \/ /\ ToInsert(p) = {n}
                /\ afterRepoint(p)
             \/ /\ ToInsert(p) # {n}
                /\ UNCHANGED <<lock, pc, snap, entry, ret>>
    /\ UNCHANGED <<objects, proven, journal, queueVars, ghostVars, req, copy, prior>>

\* The name is bound: the authorship is added to the cached metadata and that saved.
Attribute(p) ==
    /\ pc[p] = "attribute"
    /\ saveMeta(p)
    /\ goto(p, "log")
    /\ UNCHANGED <<objects, names, journal, lock, queueVars, ghostVars,
                   req, copy, snap, prior, entry, ret>>

\* Mutant: the tail is read before the lock is taken.
AppendReadUnlocked(p) ==
    /\ pc[p] = "log"
    /\ prior' = [prior EXCEPT ![p] = journal]
    /\ goto(p, "appending")
    /\ UNCHANGED <<storeVars, queueVars, ghostVars, req, copy, snap, entry, ret>>

\* AppendLog: lock, read the journal the chain continues from.
AppendRead(p) ==
    /\ pc[p] = "log"
    /\ lockFree
    /\ take(p)
    /\ prior' = [prior EXCEPT ![p] = journal]
    /\ goto(p, "appending")
    /\ UNCHANGED <<objects, proven, names, journal, queueVars, ghostVars,
                   req, copy, snap, entry, ret>>

\* AppendLog drops the error of the read: the journal looks empty.
AppendReadError(p) ==
    /\ pc[p] = "log"
    /\ Fault("read")
    /\ lockFree
    /\ take(p)
    /\ prior' = [prior EXCEPT ![p] = <<>>]
    /\ goto(p, "appending")
    /\ UNCHANGED <<objects, proven, names, journal, queueVars, envs, moves, shown, requests,
                   req, copy, snap, entry, ret>>

\* AppendLog returns, with the entry in the journal or not: unlock and go on.
afterAppend(p) ==
    /\ release(p)
    /\ prior' = [prior EXCEPT ![p] = <<>>]
    /\ entry' = [entry EXCEPT ![p] = NoBody]
    /\ ret' = [ret EXCEPT ![p] = "idle"]
    /\ \/ ret[p] = "idle" /\ done(p)
       \/ ret[p] # "idle" /\ goto(p, ret[p]) /\ UNCHANGED <<req, copy>>

\* AppendLog: append the line chained to what was read.
AppendWrite(p) ==
    /\ pc[p] = "appending"
    /\ journal' = Append(journal, nextLine(prior[p], entry[p]))
    /\ afterAppend(p)
    /\ UNCHANGED <<objects, proven, names, queueVars, ghostVars, snap>>

\* AppendLog fails; every caller drops the error and reports as if it had not.
AppendFails(p) ==
    /\ pc[p] \in {"log", "appending"}
    /\ Fault("append")
    /\ afterAppend(p)
    /\ UNCHANGED <<objects, proven, names, journal, queueVars, envs, moves, shown, requests, snap>>
-----------------------------------------------------------------------------
\* ClaimProof: read a job file, or a lease that has expired.
Claim(w) ==
    /\ pc[w] = "idle"
    /\ \E h \in Hash :
          \/ /\ FreshClaim(h)
             /\ req' = [req EXCEPT ![w] = [name |-> job[h], hash |-> h, env |-> None]]
             /\ goto(w, "claim")
          \/ /\ StaleClaim(h)
             /\ req' = [req EXCEPT ![w] = [name |-> lease[h], hash |-> h, env |-> None]]
             /\ goto(w, "reclaim")
    /\ UNCHANGED <<storeVars, queueVars, ghostVars, copy, snap, prior, entry, ret>>

\* ... then rename it; a job file that has gone is somebody else's.
ClaimRename(w) ==
    /\ pc[w] = "claim"
    /\ \/ /\ renameToLease(req[w].hash)
          /\ goto(w, "prove")
          /\ UNCHANGED <<req, copy>>
       \/ /\ ~FreshClaim(req[w].hash)
          /\ done(w)
          /\ UNCHANGED queueVars
    /\ UNCHANGED <<storeVars, ghostVars, snap, prior, entry, ret>>

ClaimTouch(w) ==
    /\ pc[w] = "reclaim"
    /\ touchLease(req[w].hash)
    /\ goto(w, "prove")
    /\ UNCHANGED <<storeVars, ghostVars, req, copy, snap, prior, entry, ret>>

(***************************************************************************)
(* apiProveHash records what it proves in the metadata; the worker journals *)
(* the proof event whatever the outcome, and keeps the verdict for the bind.*)
(***************************************************************************)
Prove(w) ==
    LET new == {req[w].hash} \intersect Provable
    IN  /\ pc[w] = "prove"
        /\ copy' = [copy EXCEPT ![w] = IF new = {} THEN "unproven" ELSE "proven"]
        /\ proven' = proven \union new
        /\ shown' = shown \union new
        /\ thenLog(w, NoBind(req[w], "prove", req[w].hash, "accepted", ""), "bind")
        /\ UNCHANGED <<objects, names, journal, lock, queueVars, envs, moves, requests, faults,
                       req, snap, prior>>

\* No verdict: the job is completed all the same, without a journal entry.
ProveError(w) ==
    /\ pc[w] = "prove"
    /\ Fault("prove")
    /\ goto(w, "complete")
    /\ UNCHANGED <<storeVars, queueVars, envs, moves, shown, requests,
                   req, copy, snap, prior, entry, ret>>

\* Mutant: the bind is completed without looking at the verdict.
BindUnproven(w) ==
    LET r == req[w]
    IN  /\ pc[w] = "bind"
        /\ \/ names[r.name] = r.hash /\ goto(w, "complete")
           \/ names[r.name] # r.hash /\ goto(w, "repoint")
        /\ UNCHANGED <<storeVars, queueVars, ghostVars, req, copy, snap, prior, entry, ret>>

(***************************************************************************)
(* The deferred bind, decided against the current world: already bound,     *)
(* not proven, refused by policy, or bound now.                             *)
(***************************************************************************)
Bind(w) ==
    LET r == req[w]
        block == thenLog(w, NoBind(r, "put", r.hash, "blocked", ""), "complete")
    IN  /\ pc[w] = "bind"
        /\ \/ names[r.name] = r.hash /\ goto(w, "complete") /\ UNCHANGED <<entry, ret>>
           \/ /\ names[r.name] # r.hash
              /\ \/ copy[w] # "proven" /\ block
                 \/ copy[w] = "proven" /\ FALSE \in evalPolicy(r.name) /\ block
                 \/ /\ copy[w] = "proven" /\ TRUE \in evalPolicy(r.name)
                    /\ goto(w, "repoint")
                    /\ UNCHANGED <<entry, ret>>
        /\ UNCHANGED <<storeVars, queueVars, ghostVars, req, copy, snap, prior>>

\* The deferred CompleteProof.
Complete(w) ==
    /\ pc[w] = "complete"
    /\ completeProof(req[w].hash)
    /\ done(w)
    /\ UNCHANGED <<storeVars, ghostVars, snap, prior, entry, ret>>

LeaseExpires(h) ==
    /\ leaseExpires(h)
    /\ UNCHANGED <<storeVars, ghostVars, locals>>

(***************************************************************************)
(* A process dies, or its handler returns early on an error of the store.   *)
(* Its locals are lost; what it wrote stays; its lock is given up (by the   *)
(* deferred release, the file's TTL, or the end of the database session).   *)
(* A worker that cannot repoint exits, and its lease stays.                 *)
(***************************************************************************)
Crash(p) ==
    /\ pc[p] # "idle"
    /\ FaultAs("crash", IF pc[p] = "inserting" THEN "torn" ELSE "crash")
    /\ done(p)
    /\ snap' = [snap EXCEPT ![p] = Empty]
    /\ prior' = [prior EXCEPT ![p] = <<>>]
    /\ entry' = [entry EXCEPT ![p] = NoBody]
    /\ ret' = [ret EXCEPT ![p] = "idle"]
    /\ release(p)
    /\ UNCHANGED <<objects, proven, names, journal, queueVars, envs, moves, shown, requests>>

(***************************************************************************)
(* The steps a running handler takes by itself, once it has started.        *)
(***************************************************************************)
Section(p) == RepointRead(p) \/ RepointWrite(p) \/ RepointDelete(p) \/ RepointInsert(p)
              \/ AppendRead(p) \/ AppendWrite(p)

ServeStep(p) == PreCheck(p) \/ Admit(p) \/ Store(p) \/ Gate(p) \/ Enqueue(p) \/ Restore(p)
                \/ Attribute(p) \/ Section(p)

WorkerStep(w) == Claim(w) \/ ClaimRename(w) \/ ClaimTouch(w) \/ Prove(w) \/ Bind(w)
                 \/ Complete(w) \/ Attribute(w) \/ Section(w)

FaultStep(p) == RepointReadError(p) \/ AppendReadError(p) \/ AppendFails(p) \/ Crash(p)

Next ==
    \/ \E n \in Name, h \in Hash : Sign(n, h)
    \/ \E p \in Serve, n \in Name, h \in Hash : put(p, n, h)
    \/ \E p \in Serve, e \in envs : putObject(p, e)
    \/ \E p \in Serve : ServeStep(p)
    \/ \E w \in Worker : WorkerStep(w)
    \/ \E h \in Hash : LeaseExpires(h)
    \/ \E p \in Proc : FaultStep(p)
    \/ \E w \in Worker : ProveError(w)

Spec == Init /\ [][Next]_vars

(***************************************************************************)
(* Fairness: a handler that has started runs on, the worker's loop polls    *)
(* the queue, and an abandoned lease gets old.  The lock is contended, so a *)
(* section is only enabled again and again: it gets strong fairness, which  *)
(* is what polling every 40 ms against millisecond sections amounts to.     *)
(***************************************************************************)
Fairness ==
    /\ \A p \in Serve : WF_vars(ServeStep(p)) /\ SF_vars(Section(p))
    /\ \A w \in Worker : WF_vars(WorkerStep(w)) /\ SF_vars(Section(w))
    /\ \A h \in Hash : WF_vars(LeaseExpires(h))

FairSpec == Spec /\ Fairness
-----------------------------------------------------------------------------
TypeOK ==
    /\ objects \in SUBSET Hash
    /\ proven \in SUBSET Hash
    /\ names \in Index
    /\ journal \in Seq(Line)
    /\ lock \in Proc \union {None}
    /\ QueueTypeOK
    /\ envs \in SUBSET Envelope
    /\ moves \in Seq([name : Name, to : Hash, env : Envelope \union {None}])
    /\ shown \in SUBSET Hash
    /\ requests \in Nat /\ faults \in Seq(FaultKinds)
    /\ pc \in [Proc -> Location]
    /\ req \in [Proc -> Request \union {NoReq}]
    /\ copy \in [Proc -> Metadata]
    /\ snap \in [Proc -> Index]
    /\ prior \in [Proc -> Seq(Line)]
    /\ entry \in [Proc -> Body \union {NoBody}]
    /\ ret \in [Proc -> Returns]

\* p has moved the binding of n (or, on pg, is moving it) and not journalled it yet.
Unlogged(p, n) ==
    /\ req[p].name = n
    /\ \/ pc[p] = "inserting"
       \/ pc[p] \in {"attribute", "log", "appending"} /\ entry[p].status \in BindingStatus /\ entry[p].kind # "prove"

Settled(n) == \A p \in Proc : ~Unlogged(p, n)

Published(n, h) ==
    \E i \in 1 .. Len(journal) :
        LET e == journal[i].body
        IN  e.name = n /\ e.hash = h /\ e.kind \in BindingKinds /\ e.status \in BindingStatus

(***************************************************************************)
(* The journal's sequence numbers and hash chain verify after any           *)
(* interleaving of appends by any number of processes, crashes included     *)
(* (AppendLog reads the tail and appends under the lock).  A failed read,   *)
(* which AppendLog takes for an empty journal, is where the chain forks.    *)
(***************************************************************************)
NoReadFailed == \A i \in 1 .. Len(faults) : faults[i] # "read"

Chained == ChainVerifies(journal)

JournalChains == NoReadFailed => Chained

\* No deferred bind has been given up: nobody has written the index from a failed read or died
\* between its deletion and its inserts, and no prover error has completed a job.
DeferralsKept == \A i \in 1 .. Len(faults) : faults[i] \notin {"read", "torn", "prove"}

(***************************************************************************)
(* Repoint rewrites the whole index, and yet a step changes one name only,  *)
(* to the hash its own request asked for: no concurrent repoint of another  *)
(* name is lost, until a read of the index fails and looks empty.           *)
(***************************************************************************)
NoLostRepoint ==
    [][NoReadFailed' =>
          \A n \in Name : names'[n] # names[n] =>
             \E p \in Proc : pc[p] = "writing" /\ req[p].name = n /\ req[p].hash = names'[n]]_vars

(***************************************************************************)
(* A name never points at an object that was not stored: admitPut stores    *)
(* before it repoints, and the worker binds only what was queued.           *)
(***************************************************************************)
NoDanglingName == \A n \in Name : names[n] \in objects \union {None}

(***************************************************************************)
(* A name under require_proven never points at a function the solver has    *)
(* not proved, whether the put or the worker bound it, and whatever         *)
(* happened to the metadata in between (a data definition is not gated).    *)
(***************************************************************************)
GatedIsProven == \A n \in Gated : names[n] \in shown \union Data \union {None}

(***************************************************************************)
(* "Verdict fields are facts about the hash and survive (a proof of this    *)
(* object is still a proof of it - whoever re-puts it)" (Put): no step      *)
(* takes a recorded proof back.                                             *)
(***************************************************************************)
ProofSurvives == [][proven \subseteq proven']_vars

(***************************************************************************)
(* Every binding in the index is explained by the journal, or by a process  *)
(* that is about to journal it.                                             *)
(***************************************************************************)
BindingAccounted ==
    \A n \in Name : names[n] # None =>
        \/ Published(n, names[n])
        \/ \E p \in Proc : Unlogged(p, n) /\ req[p].hash = names[n]

(***************************************************************************)
(* VerifyLog accepts the journal the store itself wrote: stored transitions *)
(* agree with history, and every applied entry records the transition its   *)
(* author signed.                                                           *)
(***************************************************************************)
JournalVerifies == VerifyLog(journal)

(***************************************************************************)
(* "Both halves are DERIVED, so a client and the registry compute the same  *)
(* values from the same journal" (nameRevision): once no publication of n   *)
(* is half done, the head the registry checks against is the head a reader  *)
(* of the journal computes.                                                 *)
(***************************************************************************)
HeadIsDerivable ==
    \A n \in Name : Settled(n) => nameRevision(journal, names, n) = journalHead(journal, n)

(***************************************************************************)
(* Index and journal tell one story at every moment: no binding the journal *)
(* will not explain, and no head a reader of the journal would miscompute.  *)
(***************************************************************************)
IndexIsJournalled == BindingAccounted /\ HeadIsDerivable

(***************************************************************************)
(* "This closes REPLAY (an old envelope is rejected)" (envelope.go): a      *)
(* signed envelope moves its name at most once, however often it is         *)
(* submitted and wherever the name has been since.                          *)
(***************************************************************************)
NoReplay ==
    \A i, j \in 1 .. Len(moves) :
        i # j /\ moves[i].env # None => moves[i].env # moves[j].env

(***************************************************************************)
(* "Names are only ever REPOINTED, never deleted" (nameRevision): a reader  *)
(* of the index never finds a published name unbound.                       *)
(***************************************************************************)
NeverDeleted ==
    \A n \in Name : names[n] = None => \A h \in Hash : ~Published(n, h)

(***************************************************************************)
(* A put that was told `pending` gets its name bound once the object can be *)
(* proven: neither the queue nor a dead worker loses the deferred bind (a   *)
(* torn or misread index may, with every other binding, and a prover error  *)
(* does: processProofJob completes the job).                                *)
(***************************************************************************)
Pending(n, h) ==
    \E i \in 1 .. Len(journal) :
        journal[i].body.status = "pending" /\ journal[i].body.name = n /\ journal[i].body.hash = h

PendingIsBound ==
    \A n \in Gated, h \in Provable :
        Pending(n, h) /\ DeferralsKept ~> names[n] = h \/ ~DeferralsKept

(***************************************************************************)
(* Nothing wedges: a handler that started comes to an end.                  *)
(***************************************************************************)
EveryHandlerEnds == \A p \in Proc : pc[p] # "idle" ~> pc[p] = "idle"

\* No other process works on the definition of a running handler (likewise).
DisjointHashes ==
    \A p \in Serve, q \in Proc : p # q /\ pc[p] # "idle" /\ pc[q] # "idle" => req[p].hash # req[q].hash

\* No two processes work on the same name (a constraint for runs, an assumption of proofs).
DisjointNames ==
    \A p, q \in Proc : p # q /\ pc[p] # "idle" /\ pc[q] # "idle" => req[p].name # req[q].name
=============================================================================
