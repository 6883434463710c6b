--------------------------- MODULE RegistryProofs ---------------------------
(***************************************************************************)
(* Machine-checked proofs about Registry: for every set of names, hashes    *)
(* and processes, every backend and every number of requests and crashes.   *)
(* The second part shows that the name index and the journal tell one       *)
(* story: what is derived from the journal is what the index holds.         *)
(***************************************************************************)
EXTENDS Registry, NumberFacts, FiniteSetTheorems, TLAPS

(***************************************************************************)
(* A handler that has started has its request, and an entry on its way to   *)
(* the journal is a complete one.                                           *)
(***************************************************************************)
LocalsOK ==
    \A p \in Proc :
        /\ pc[p] # "idle" => req[p] \in Request
        /\ pc[p] \in {"attribute", "log", "appending"} => entry[p] \in Body

TypeInv == TypeOK /\ LocalsOK

-----------------------------------------------------------------------------
\* Appending an element keeps a sequence typed.
LEMMA AppendTyped ==
    ASSUME NEW S, NEW s \in Seq(S), NEW x \in S
    PROVE  Append(s, x) \in Seq(S)
OBVIOUS

\* A name's revision is a number: the journal is finite.
LEMMA RevisionTyped ==
    ASSUME NEW lines \in Seq(Line), NEW index \in Index, NEW n \in Name
    PROVE  /\ nameRevision(lines, index, n).parent \in Hash \union {None}
           /\ nameRevision(lines, index, n).rev \in Nat
<1> DEFINE A == AppliedTo(lines, n)
<1>1. IsFiniteSet(1 .. Len(lines))
  BY FS_Interval
<1>2. A \subseteq 1 .. Len(lines)
  BY DEF AppliedTo
<1>3. Cardinality(A) \in Nat
  BY <1>1, <1>2, FS_Subset, FS_CardinalityType
<1>4. index[n] \in Hash \union {None}
  BY DEF Index
<1> QED
  BY <1>3, <1>4 DEF nameRevision

\* The line AppendLog makes is a line.
LEMMA NextLineTyped ==
    ASSUME NEW lines \in Seq(Line), NEW body \in Body
    PROVE  nextLine(lines, body) \in Line
<1>1. chainAnchor(lines) \in Seq([seq : Nat, body : Body])
  <2>1. CASE lines = <<>>
    BY <2>1 DEF chainAnchor
  <2>2. CASE lines # <<>>
    <3>1. Len(lines) \in 1 .. Len(lines)
      BY <2>2
    <3>2. lines[Len(lines)] \in Line
      BY <3>1
    <3> QED
      BY <2>2, <3>2 DEF chainAnchor, Line
  <2> QED
    BY <2>1, <2>2
<1>2. Len(lines) + 1 \in Nat
  OBVIOUS
<1>3. chainHash(chainAnchor(lines), Len(lines) + 1, body) \in Seq([seq : Nat, body : Body])
  BY <1>1, <1>2 DEF chainHash
<1> QED
  BY <1>2, <1>3 DEF nextLine, Line

LEMMA NoBindTyped ==
    ASSUME NEW r \in Request, NEW k \in {"func", "data", "put", "prove"},
           NEW h \in Hash \union {None},
           NEW s \in {"accepted", "rejected", "blocked", "pending"},
           NEW t \in {"", "none"}
    PROVE  NoBind(r, k, h, s, t) \in Body
BY DEF NoBind, Request, Body

LEMMA BoundEntryTyped ==
    ASSUME NEW p, req[p] \in Request, NEW prev \in Hash \union {None}
    PROVE  boundEntry(p, prev) \in Body
BY DEF boundEntry, nameTransition, Request, Body, Kind

\* Handing an entry to AppendLog keeps the locals typed.
LEMMA ThenLogTyped ==
    ASSUME TypeInv, NEW p \in Proc, pc[p] # "idle", UNCHANGED req,
           NEW e \in Body, NEW l \in Returns, thenLog(p, e, l)
    PROVE  /\ pc' \in [Proc -> Location]
           /\ entry' \in [Proc -> Body \union {NoBody}]
           /\ ret' \in [Proc -> Returns]
           /\ LocalsOK'
BY DEF TypeInv, TypeOK, LocalsOK, Location, thenLog, goto

\* So does going on to any other place.
LEMMA GotoTyped ==
    ASSUME TypeInv, NEW p \in Proc, pc[p] # "idle", UNCHANGED <<req, entry, ret>>,
           NEW l \in Location \ {"attribute", "log", "appending"}, goto(p, l)
    PROVE  /\ pc' \in [Proc -> Location]
           /\ entry' \in [Proc -> Body \union {NoBody}]
           /\ ret' \in [Proc -> Returns]
           /\ LocalsOK'
BY DEF TypeInv, TypeOK, LocalsOK, Location, goto

LEMMA InitTypeInv == Init => TypeInv
<1> SUFFICES ASSUME Init PROVE TypeInv
  OBVIOUS
<1>1. names \in Index
  BY DEF Init, Index, Empty
<1>2. QueueTypeOK
  BY DEF Init, QueueInit, QueueTypeOK
<1> QED
  BY <1>1, <1>2, RegistryAssumption DEF Init, TypeInv, TypeOK, LocalsOK, Index, Empty, Location, Returns, Metadata

LEMMA NextTypeInv == TypeInv /\ [Next]_vars => TypeInv'
<1> SUFFICES ASSUME TypeInv, [Next]_vars PROVE TypeInv'
  OBVIOUS
<1> USE RegistryAssumption DEF TypeInv, TypeOK, LocalsOK, Location, Returns, Metadata, QueueTypeOK
<1>1. ASSUME NEW n \in Name, NEW h \in Hash, Sign(n, h) PROVE TypeInv'
  <2> DEFINE head == nameRevision(journal, names, n)
             e == [name |-> n, artifact |-> h, parent |-> head.parent, rev |-> head.rev]
  <2>1. e \in Envelope
    BY RevisionTyped DEF Envelope
  <2>2. envs' = envs \union {e}
    BY <1>1 DEF Sign
  <2>3. envs' \subseteq Envelope
    BY <2>1, <2>2
  <2> QED
    BY <1>1, <2>3 DEF Sign, storeVars, queueVars, locals
<1>2. ASSUME NEW p \in Proc, NEW r \in Request, NEW l \in {"admit", "precheck"}, Accept(p, r, l)
      PROVE  TypeInv'
  BY <1>2 DEF Accept, goto, storeVars, queueVars
<1>3. ASSUME NEW p \in Proc, PreCheck(p) PROVE TypeInv'
  <2>1. req[p] \in Request /\ req[p].hash \in Hash
    BY <1>3 DEF PreCheck, Request
  <2>2. NoBind(req[p], Kind(req[p].hash), req[p].hash, "rejected", "none") \in Body
    BY <2>1, NoBindTyped DEF Kind
  <2>3. \/ goto(p, "admit") /\ UNCHANGED <<entry, ret>>
        \/ thenLog(p, NoBind(req[p], Kind(req[p].hash), req[p].hash, "rejected", "none"), "idle")
    BY <1>3 DEF PreCheck
  <2>4. pc[p] # "idle" /\ UNCHANGED <<storeVars, queueVars, ghostVars, req, copy, snap, prior>>
    BY <1>3 DEF PreCheck
  <2>5. pc' \in [Proc -> Location] /\ entry' \in [Proc -> Body \union {NoBody}]
        /\ ret' \in [Proc -> Returns] /\ LocalsOK'
    BY <2>2, <2>3, <2>4, ThenLogTyped, GotoTyped
  <2> QED
    BY <2>4, <2>5 DEF storeVars, queueVars, ghostVars
<1>4. ASSUME NEW p \in Proc, Admit(p) PROVE TypeInv'
  <2>1. req[p] \in Request /\ req[p].hash \in Hash
    BY <1>4 DEF Admit, Request
  <2>2. NoBind(req[p], Kind(req[p].hash), None, "rejected", "") \in Body
    BY <2>1, NoBindTyped DEF Kind
  <2>3. \/ goto(p, "store") /\ UNCHANGED <<entry, ret>>
        \/ thenLog(p, NoBind(req[p], Kind(req[p].hash), None, "rejected", ""), "idle")
    BY <1>4 DEF Admit
  <2>4. /\ pc[p] # "idle" /\ copy' \in [Proc -> Metadata]
        /\ UNCHANGED <<storeVars, queueVars, ghostVars, req, snap, prior>>
    BY <1>4 DEF Admit
  <2>5. pc' \in [Proc -> Location] /\ entry' \in [Proc -> Body \union {NoBody}]
        /\ ret' \in [Proc -> Returns] /\ LocalsOK'
    BY <2>2, <2>3, <2>4, ThenLogTyped, GotoTyped
  <2> QED
    BY <2>4, <2>5 DEF storeVars, queueVars, ghostVars
<1>28. ASSUME NEW p \in Proc, pc[p] # "idle", saveMeta(p) PROVE proven' \in SUBSET Hash
  <2>1. req[p].hash \in Hash
    BY <1>28 DEF Request
  <2> QED
    BY <1>28, <2>1 DEF saveMeta
<1>29. ASSUME NEW p \in Proc, Store(p) PROVE TypeInv'
  <2>1. req[p].hash \in Hash /\ saveMeta(p) /\ pc[p] # "idle"
    BY <1>29 DEF Store, Request
  <2> QED
    BY <1>28, <1>29, <2>1 DEF Store, goto, queueVars, ghostVars
<1>30. ASSUME NEW p \in Proc, Restore(p) PROVE TypeInv'
  <2>1. saveMeta(p) /\ pc[p] # "idle"
    BY <1>30 DEF Restore
  <2> QED
    BY <1>28, <1>30, <2>1 DEF Restore, done, goto, queueVars, ghostVars
<1>31. ASSUME NEW p \in Proc, Attribute(p) PROVE TypeInv'
  <2>1. saveMeta(p) /\ pc[p] # "idle"
    BY <1>31 DEF Attribute
  <2> QED
    BY <1>28, <1>31, <2>1 DEF Attribute, goto, queueVars, ghostVars
<1>5. ASSUME NEW p \in Proc, Gate(p) PROVE TypeInv'
  <2>1. req[p] \in Request /\ req[p].hash \in Hash
    BY <1>5 DEF Gate, Request
  <2>2. /\ NoBind(req[p], Kind(req[p].hash), req[p].hash, "rejected", "none") \in Body
        /\ NoBind(req[p], Kind(req[p].hash), req[p].hash, "blocked", "") \in Body
    BY <2>1, NoBindTyped DEF Kind
  <2>3. \/ goto(p, "enqueue") /\ UNCHANGED <<entry, ret>>
        \/ goto(p, "repoint") /\ UNCHANGED <<entry, ret>>
        \/ \E e \in Body, l \in Returns : thenLog(p, e, l)
    BY <1>5, <2>2 DEF Gate
  <2>4. pc[p] # "idle" /\ UNCHANGED <<storeVars, queueVars, ghostVars, req, copy, snap, prior>>
    BY <1>5 DEF Gate
  <2>5. pc' \in [Proc -> Location] /\ entry' \in [Proc -> Body \union {NoBody}]
        /\ ret' \in [Proc -> Returns] /\ LocalsOK'
    BY <2>3, <2>4, ThenLogTyped, GotoTyped
  <2> QED
    BY <2>4, <2>5 DEF storeVars, queueVars, ghostVars
<1>6. ASSUME NEW p \in Proc, Enqueue(p) PROVE TypeInv'
  <2>1. req[p] \in Request /\ req[p].hash \in Hash /\ req[p].name \in Name
    BY <1>6 DEF Enqueue, Request
  <2>2. NoBind(req[p], Kind(req[p].hash), req[p].hash, "pending", "") \in Body
    BY <2>1, NoBindTyped DEF Kind
  <2> QED
    BY <1>6, <2>1, <2>2 DEF Enqueue, enqueueProof, thenLog, goto, storeVars, ghostVars
<1>7. ASSUME NEW p \in Proc, RepointRead(p) \/ RepointReadError(p) PROVE TypeInv'
  <2>1. Empty \in Index
    BY DEF Empty, Index
  <2>2. CASE RepointRead(p)
    BY <2>2 DEF RepointRead, take, goto, queueVars, ghostVars
  <2>3. CASE RepointReadError(p)
    BY <2>1, <2>3 DEF RepointReadError, FaultAs, Fault, take, goto, queueVars
  <2> QED
    BY <1>7, <2>2, <2>3
<1>8. ASSUME NEW p \in Proc, pc[p] \in {"writing", "inserting"}, afterRepoint(p), UNCHANGED req
      PROVE  /\ pc' \in [Proc -> Location] /\ snap' \in [Proc -> Index]
             /\ entry' \in [Proc -> Body \union {NoBody}]
             /\ ret' \in [Proc -> Returns]
             /\ lock' \in Proc \union {None}
             /\ LocalsOK'
  <2>1. req[p] \in Request /\ req[p].name \in Name
    BY <1>8 DEF Request
  <2>2. snap[p][req[p].name] \in Hash \union {None}
    BY <2>1 DEF Index
  <2>3. boundEntry(p, snap[p][req[p].name]) \in Body
    BY <2>1, <2>2, BoundEntryTyped
  <2>4. Empty \in Index
    BY DEF Empty, Index
  <2> QED
    BY <1>8, <2>3, <2>4 DEF afterRepoint, goto, release
<1>9. ASSUME NEW p \in Proc, pc[p] \in {"writing", "inserting"}
      PROVE  written(p) \in Index /\ req[p].hash \in Hash /\ req[p].name \in Name
  BY <1>9 DEF written, Index, Request
<1>10. ASSUME NEW p \in Proc, pc[p] = "writing", recordMove(p)
       PROVE  moves' \in Seq([name : Name, to : Hash, env : Envelope \union {None}])
  <2>1. [name |-> req[p].name, to |-> req[p].hash, env |-> req[p].env]
            \in [name : Name, to : Hash, env : Envelope \union {None}]
    BY <1>10 DEF Request
  <2> QED
    BY <1>10, <2>1, AppendTyped DEF recordMove
<1>11. ASSUME NEW p \in Proc, RepointWrite(p) PROVE TypeInv'
  <2>1. /\ pc[p] = "writing" /\ recordMove(p) /\ afterRepoint(p) /\ names' = written(p)
        /\ UNCHANGED <<objects, proven, journal, queueVars, envs, shown, requests, faults,
                       req, copy, prior>>
    BY <1>11 DEF RepointWrite
  <2>2. names' \in Index /\ moves' \in Seq([name : Name, to : Hash, env : Envelope \union {None}])
    BY <2>1, <1>9, <1>10
  <2>3. /\ pc' \in [Proc -> Location] /\ snap' \in [Proc -> Index]
        /\ entry' \in [Proc -> Body \union {NoBody}] /\ ret' \in [Proc -> Returns]
        /\ lock' \in Proc \union {None} /\ LocalsOK'
    BY <2>1, <1>8
  <2> QED
    BY <2>1, <2>2, <2>3 DEF queueVars
<1>12. ASSUME NEW p \in Proc, RepointDelete(p) PROVE TypeInv'
  <2>1. Empty \in Index
    BY DEF Empty, Index
  <2>2. pc[p] = "writing" /\ recordMove(p)
    BY <1>12 DEF RepointDelete
  <2> QED
    BY <1>12, <1>10, <2>1, <2>2 DEF RepointDelete, goto, queueVars
<1>13. ASSUME NEW p \in Proc, RepointInsert(p) PROVE TypeInv'
  <2>1. PICK n \in Name :
            /\ names' = [names EXCEPT ![n] = written(p)[n]]
            /\ afterRepoint(p) \/ UNCHANGED <<lock, pc, snap, entry, ret>>
    BY <1>13 DEF RepointInsert, ToInsert
  <2>2. pc[p] = "inserting"
    BY <1>13 DEF RepointInsert
  <2>3. names' \in Index
    BY <2>1, <2>2, <1>9 DEF Index
  <2> QED
    BY <1>13, <1>8, <2>1, <2>2, <2>3 DEF RepointInsert, queueVars, ghostVars
<1>14. ASSUME NEW p \in Proc, AppendRead(p) \/ AppendReadError(p) PROVE TypeInv'
  <2>1. CASE AppendRead(p)
    BY <2>1 DEF AppendRead, take, goto, queueVars, ghostVars
  <2>2. CASE AppendReadError(p)
    BY <2>2 DEF AppendReadError, FaultAs, Fault, take, goto, queueVars
  <2> QED
    BY <1>14, <2>1, <2>2
<1>32. ASSUME NEW p \in Proc, pc[p] # "idle", afterAppend(p)
       PROVE  /\ lock' \in Proc \union {None} /\ prior' \in [Proc -> Seq(Line)]
              /\ entry' \in [Proc -> Body \union {NoBody}]
              /\ ret' \in [Proc -> Returns] /\ copy' \in [Proc -> Metadata]
              /\ req' \in [Proc -> Request \union {NoReq}] /\ pc' \in [Proc -> Location]
              /\ LocalsOK'
  <2>1. /\ lock' \in Proc \union {None} /\ prior' \in [Proc -> Seq(Line)]
        /\ entry' \in [Proc -> Body \union {NoBody}] /\ ret' \in [Proc -> Returns]
    BY <1>32 DEF afterAppend, release
  <2>2. CASE ret[p] = "idle" /\ done(p)
    BY <1>32, <2>1, <2>2 DEF afterAppend, done, goto
  <2>3. CASE ret[p] # "idle" /\ goto(p, ret[p]) /\ UNCHANGED <<req, copy>>
    BY <1>32, <2>1, <2>3 DEF afterAppend, goto
  <2> QED
    BY <1>32, <2>2, <2>3 DEF afterAppend
<1>15. ASSUME NEW p \in Proc, AppendWrite(p) PROVE TypeInv'
  <2>1. nextLine(prior[p], entry[p]) \in Line
    BY <1>15, NextLineTyped DEF AppendWrite
  <2>2. journal' \in Seq(Line)
    BY <1>15, <2>1, AppendTyped DEF AppendWrite
  <2>3. /\ pc[p] # "idle" /\ afterAppend(p)
        /\ UNCHANGED <<objects, proven, names, queueVars, ghostVars, snap>>
    BY <1>15 DEF AppendWrite
  <2> QED
    BY <2>2, <2>3, <1>32 DEF queueVars, ghostVars
<1>33. ASSUME NEW p \in Proc, AppendFails(p) PROVE TypeInv'
  <2>1. /\ pc[p] # "idle" /\ afterAppend(p) /\ faults' \in Seq(FaultKinds)
        /\ UNCHANGED <<objects, proven, names, journal, queueVars, envs, moves, shown, requests, snap>>
    BY <1>33 DEF AppendFails, FaultAs, Fault
  <2> QED
    BY <2>1, <1>32 DEF queueVars
<1>16. ASSUME NEW w \in Worker, Claim(w) PROVE TypeInv'
  <2>1. w \in Proc
    BY DEF Proc
  <2>2. PICK h \in Hash, n \in Name, l \in {"claim", "reclaim"} :
            /\ req' = [req EXCEPT ![w] = [name |-> n, hash |-> h, env |-> None]]
            /\ pc' = [pc EXCEPT ![w] = l]
    BY <1>16 DEF Claim, FreshClaim, StaleClaim, goto
  <2>3. [name |-> n, hash |-> h, env |-> None] \in Request
    BY DEF Request
  <2> QED
    BY <1>16, <2>1, <2>2, <2>3 DEF Claim, storeVars, queueVars, ghostVars
<1>17. ASSUME NEW w \in Worker, ClaimRename(w) PROVE TypeInv'
  <2>1. w \in Proc
    BY DEF Proc
  <2>2. req[w].hash \in Hash
    BY <1>17, <2>1 DEF ClaimRename, Request
  <2> QED
    BY <1>17, <2>1, <2>2 DEF ClaimRename, renameToLease, done, goto, storeVars, queueVars, ghostVars
<1>18. ASSUME NEW w \in Worker, ClaimTouch(w) PROVE TypeInv'
  <2>1. w \in Proc
    BY DEF Proc
  <2> QED
    BY <1>18, <2>1 DEF ClaimTouch, touchLease, goto, storeVars, ghostVars
<1>19. ASSUME NEW w \in Worker, Prove(w) PROVE TypeInv'
  <2>1. w \in Proc
    BY DEF Proc
  <2>2. req[w] \in Request /\ req[w].hash \in Hash
    BY <1>19, <2>1 DEF Prove, Request
  <2>3. NoBind(req[w], "prove", req[w].hash, "accepted", "") \in Body
    BY <2>2, NoBindTyped
  <2>4. /\ pc[w] # "idle"
        /\ thenLog(w, NoBind(req[w], "prove", req[w].hash, "accepted", ""), "bind")
        /\ UNCHANGED <<objects, names, journal, lock, queueVars, envs, moves, requests, faults,
                       req, snap, prior>>
    BY <1>19 DEF Prove
  <2>5. proven' \in SUBSET Hash /\ shown' \in SUBSET Hash /\ copy' \in [Proc -> Metadata]
    BY <1>19, <2>1, <2>2 DEF Prove
  <2>6. pc' \in [Proc -> Location] /\ entry' \in [Proc -> Body \union {NoBody}]
        /\ ret' \in [Proc -> Returns] /\ LocalsOK'
    BY <2>1, <2>3, <2>4, ThenLogTyped
  <2> QED
    BY <2>4, <2>5, <2>6 DEF queueVars
<1>34. ASSUME NEW w \in Worker, ProveError(w) PROVE TypeInv'
  <2>1. w \in Proc
    BY DEF Proc
  <2> QED
    BY <1>34, <2>1 DEF ProveError, FaultAs, Fault, goto, storeVars, queueVars
<1>20. ASSUME NEW w \in Worker, Bind(w) PROVE TypeInv'
  <2>1. w \in Proc
    BY DEF Proc
  <2>2. req[w] \in Request /\ req[w].hash \in Hash
    BY <1>20, <2>1 DEF Bind, Request
  <2>3. NoBind(req[w], "put", req[w].hash, "blocked", "") \in Body
    BY <2>2, NoBindTyped
  <2>4. \/ goto(w, "complete") /\ UNCHANGED <<entry, ret>>
        \/ goto(w, "repoint") /\ UNCHANGED <<entry, ret>>
        \/ thenLog(w, NoBind(req[w], "put", req[w].hash, "blocked", ""), "complete")
    BY <1>20 DEF Bind
  <2>5. pc[w] # "idle" /\ UNCHANGED <<storeVars, queueVars, ghostVars, req, copy, snap, prior>>
    BY <1>20 DEF Bind
  <2>6. pc' \in [Proc -> Location] /\ entry' \in [Proc -> Body \union {NoBody}]
        /\ ret' \in [Proc -> Returns] /\ LocalsOK'
    BY <2>1, <2>3, <2>4, <2>5, ThenLogTyped, GotoTyped
  <2> QED
    BY <2>5, <2>6 DEF storeVars, queueVars, ghostVars
<1>21. ASSUME NEW w \in Worker, Complete(w) PROVE TypeInv'
  <2>1. w \in Proc
    BY DEF Proc
  <2> QED
    BY <1>21, <2>1 DEF Complete, completeProof, done, goto, storeVars, ghostVars
<1>22. ASSUME NEW h \in Hash, LeaseExpires(h) PROVE TypeInv'
  BY <1>22 DEF LeaseExpires, leaseExpires, storeVars, ghostVars, locals
<1>23. ASSUME NEW p \in Proc, Crash(p) PROVE TypeInv'
  <2>1. Empty \in Index
    BY DEF Empty, Index
  <2>2. faults' \in Seq(FaultKinds)
    <3> DEFINE r == IF pc[p] = "inserting" THEN "torn" ELSE "crash"
    <3>1. r \in FaultKinds
      BY DEF FaultKinds
    <3>2. faults' = Append(faults, r)
      BY <1>23 DEF Crash, FaultAs
    <3> QED
      BY <3>1, <3>2, AppendTyped
  <2> QED
    BY <1>23, <2>1, <2>2 DEF Crash, done, goto, release, queueVars
<1>24. CASE UNCHANGED vars
  BY <1>24 DEF vars, storeVars, queueVars, ghostVars, locals
<1>25. ASSUME NEW p \in Proc, Section(p) PROVE TypeInv'
  BY <1>25, <1>7, <1>11, <1>12, <1>13, <1>14, <1>15 DEF Section
<1>26. ASSUME NEW p \in Serve, NEW n \in Name, NEW h \in Hash, put(p, n, h) PROVE TypeInv'
  <2>1. [name |-> n, hash |-> h, env |-> None] \in Request
    BY DEF Request
  <2> QED
    BY <1>2, <1>26, <2>1 DEF put, Proc
<1>27. ASSUME NEW p \in Serve, NEW e \in envs, putObject(p, e) PROVE TypeInv'
  <2>1. [name |-> e.name, hash |-> e.artifact, env |-> e] \in Request
    BY DEF Request, Envelope
  <2> QED
    BY <1>2, <1>27, <2>1 DEF putObject, Proc
<1> QED
  BY <1>1, <1>3, <1>4, <1>5, <1>6, <1>16, <1>17, <1>18, <1>19, <1>20, <1>21, <1>22, <1>23,
     <1>24, <1>25, <1>26, <1>27, <1>7, <1>14, <1>29, <1>30, <1>31, <1>33, <1>34
     DEF Next, ServeStep, WorkerStep, FaultStep, Proc

(***************************************************************************)
(* The store, the queue and every handler's locals keep their types.        *)
(***************************************************************************)
THEOREM RegistryTyped == Spec => []TypeOK
<1>1. Spec => []TypeInv
  BY InitTypeInv, NextTypeInv, PTL DEF Spec
<1>2. TypeInv => TypeOK
  BY DEF TypeInv
<1> QED
  BY <1>1, <1>2, PTL

-----------------------------------------------------------------------------
(***************************************************************************)
(* The lock and what it protects.  A process inside a critical section of   *)
(* Repoint or AppendLog holds the lock, what it read there is still what    *)
(* the store holds, and the chain is good so far.                           *)
(***************************************************************************)
InSection == {"writing", "inserting", "appending"}

HoldsLock == \A p \in Proc : pc[p] \in InSection => lock = p

TailCurrent == \A p \in Proc : pc[p] = "appending" => prior[p] = journal

IndexCurrent == \A p \in Proc : pc[p] = "writing" => snap[p] = names

LockInv == HoldsLock /\ TailCurrent /\ IndexCurrent /\ Chained

\* The line AppendLog writes after the journal it read continues the chain.
LEMMA ChainExtends ==
    ASSUME NEW lines \in Seq(Line), NEW body \in Body, ChainVerifies(lines)
    PROVE  ChainVerifies(Append(lines, nextLine(lines, body)))
<1> DEFINE l == nextLine(lines, body)
           more == Append(lines, l)
<1>1. l \in Line
  BY NextLineTyped
<1>2. Len(more) = Len(lines) + 1 /\ Len(lines) \in Nat
  BY <1>1
<1>3. \A i \in 1 .. Len(lines) : more[i] = lines[i]
  BY <1>1
<1>4. more[Len(lines) + 1] = l
  BY <1>1
<1> HIDE DEF more
<1>5. ASSUME NEW i \in 1 .. Len(lines)
      PROVE  /\ more[i].seq = i
             /\ more[i].chain
                  = chainHash(IF i = 1 THEN <<>> ELSE more[i - 1].chain, i, more[i].body)
  <2>1. more[i] = lines[i] /\ (i # 1 => more[i - 1] = lines[i - 1])
    BY <1>3
  <2> QED
    BY <2>1 DEF ChainVerifies
<1>6. /\ l.seq = Len(lines) + 1
      /\ l.chain = chainHash(IF Len(lines) + 1 = 1 THEN <<>> ELSE more[Len(lines)].chain,
                             Len(lines) + 1, l.body)
  <2>1. CASE lines = <<>>
    BY <2>1, <1>2 DEF nextLine, chainAnchor
  <2>2. CASE lines # <<>>
    <3>1. Len(lines) \in 1 .. Len(lines) /\ Len(lines) + 1 # 1
      BY <2>2, <1>2
    <3> QED
      BY <2>2, <3>1, <1>3 DEF nextLine, chainAnchor
  <2> QED
    BY <2>1, <2>2
<1>7. ChainVerifies(more)
  <2> SUFFICES ASSUME NEW i \in 1 .. Len(more)
               PROVE  /\ more[i].seq = i
                      /\ more[i].chain
                           = chainHash(IF i = 1 THEN <<>> ELSE more[i - 1].chain, i, more[i].body)
    BY DEF ChainVerifies
  <2>1. CASE i \in 1 .. Len(lines)
    BY <2>1, <1>5
  <2>2. CASE i = Len(lines) + 1
    <3>1. i - 1 = Len(lines)
      BY <2>2, <1>2
    <3> QED
      BY <2>2, <3>1, <1>4, <1>6
  <2> QED
    BY <2>1, <2>2, <1>2
<1> QED
  BY <1>7 DEF more

\* A step outside the critical sections disturbs nothing of this.
LEMMA OutsideKeepsLockInv ==
    ASSUME TypeOK, LockInv, NEW p \in Proc, NEW l \in Location \ InSection, goto(p, l),
           UNCHANGED <<names, journal, lock, snap, prior>>
    PROVE  LockInv'
BY DEF TypeOK, LockInv, HoldsLock, TailCurrent, IndexCurrent, Chained, InSection, goto

\* What a step of a handler outside its critical sections leaves alone.
LEMMA OutsideSteps ==
    ASSUME TypeOK, NEW p \in Proc,
           \/ PreCheck(p) \/ Admit(p) \/ Store(p) \/ Gate(p) \/ Enqueue(p) \/ Restore(p)
           \/ Attribute(p) \/ ProveError(p)
           \/ Claim(p) \/ ClaimRename(p) \/ ClaimTouch(p) \/ Prove(p) \/ Bind(p) \/ Complete(p)
    PROVE  /\ \E l \in Location \ InSection : goto(p, l)
           /\ UNCHANGED <<names, journal, lock, snap, prior>>
<1> USE DEF Location, Returns, InSection, storeVars, thenLog, done
<1>1. CASE PreCheck(p)
  BY <1>1 DEF PreCheck
<1>2. CASE Admit(p)
  BY <1>2 DEF Admit
<1>3. CASE Gate(p)
  BY <1>3 DEF Gate
<1>4. CASE Enqueue(p)
  BY <1>4 DEF Enqueue
<1>5. CASE Claim(p)
  BY <1>5 DEF Claim
<1>6. CASE ClaimRename(p)
  BY <1>6 DEF ClaimRename
<1>7. CASE ClaimTouch(p)
  BY <1>7 DEF ClaimTouch
<1>8. CASE Prove(p)
  BY <1>8 DEF Prove
<1>9. CASE Bind(p)
  BY <1>9 DEF Bind
<1>10. CASE Complete(p)
  BY <1>10 DEF Complete
<1>11. CASE Store(p)
  BY <1>11 DEF Store
<1>12. CASE Restore(p)
  BY <1>12 DEF Restore
<1>13. CASE Attribute(p)
  BY <1>13 DEF Attribute
<1>14. CASE ProveError(p)
  BY <1>14 DEF ProveError
<1> QED
  BY <1>1, <1>2, <1>3, <1>4, <1>5, <1>6, <1>7, <1>8, <1>9, <1>10, <1>11, <1>12, <1>13, <1>14

LEMMA InitLockInv == Init => LockInv
BY DEF Init, LockInv, HoldsLock, TailCurrent, IndexCurrent, Chained, ChainVerifies, InSection

\* What went wrong is never forgotten: a step records one more fault or none.
LEMMA FaultsGrow ==
    ASSUME [Next]_vars
    PROVE  faults' = faults \/ \E kind : faults' = Append(faults, kind)
<1> USE DEF ghostVars
<1>1. ASSUME NEW p \in Proc, ServeStep(p) \/ WorkerStep(p) PROVE faults' = faults
  <2>1. CASE Section(p)
    BY <2>1 DEF Section, RepointRead, RepointWrite, RepointDelete, RepointInsert, AppendRead, AppendWrite
  <2>2. CASE PreCheck(p) \/ Admit(p) \/ Store(p) \/ Gate(p) \/ Enqueue(p) \/ Restore(p) \/ Attribute(p)
    BY <2>2 DEF PreCheck, Admit, Store, Gate, Enqueue, Restore, Attribute
  <2>3. CASE Claim(p) \/ ClaimRename(p) \/ ClaimTouch(p) \/ Prove(p) \/ Bind(p) \/ Complete(p)
    BY <2>3 DEF Claim, ClaimRename, ClaimTouch, Prove, Bind, Complete
  <2> QED
    BY <1>1, <2>1, <2>2, <2>3 DEF ServeStep, WorkerStep
<1>2. ASSUME NEW p \in Proc, FaultStep(p) \/ ProveError(p) PROVE \E kind : faults' = Append(faults, kind)
  BY <1>2 DEF FaultStep, RepointReadError, AppendReadError, AppendFails, Crash, ProveError, FaultAs, Fault
<1>3. CASE \E n \in Name, h \in Hash : Sign(n, h)
  BY <1>3 DEF Sign
<1>4. CASE \E p \in Serve, n \in Name, h \in Hash : put(p, n, h)
  BY <1>4 DEF put, Accept
<1>5. CASE \E p \in Serve, e \in envs : putObject(p, e)
  BY <1>5 DEF putObject, Accept
<1>6. CASE \E h \in Hash : LeaseExpires(h)
  BY <1>6 DEF LeaseExpires
<1>7. CASE UNCHANGED vars
  BY <1>7 DEF vars
<1> QED
  BY <1>1, <1>2, <1>3, <1>4, <1>5, <1>6, <1>7 DEF Next, Proc

\* Without a failed read after the step there was none before it, and the step is none.
LEMMA NoReadFailedBefore ==
    ASSUME TypeInv, [Next]_vars, NoReadFailed'
    PROVE  /\ NoReadFailed
           /\ \A p \in Proc : ~RepointReadError(p) /\ ~AppendReadError(p)
<1>1. faults \in Seq(FaultKinds) /\ faults' \in Seq(FaultKinds)
  BY NextTypeInv DEF TypeInv, TypeOK
<1>2. NoReadFailed
  <2>1. CASE faults' = faults
    BY <2>1 DEF NoReadFailed
  <2>2. ASSUME NEW kind, faults' = Append(faults, kind) PROVE NoReadFailed
    <3>1. Len(faults') = Len(faults) + 1 /\ \A i \in 1 .. Len(faults) : faults'[i] = faults[i]
      BY <1>1, <2>2
    <3> QED
      BY <1>1, <3>1 DEF NoReadFailed
  <2> QED
    BY <2>1, <2>2, FaultsGrow
<1>3. ASSUME faults' = Append(faults, "read") PROVE FALSE
  <2>1. Len(faults') = Len(faults) + 1 /\ faults'[Len(faults) + 1] = "read" /\ Len(faults) \in Nat
    BY <1>1, <1>3
  <2> QED
    BY <2>1 DEF NoReadFailed
<1> QED
  BY <1>2, <1>3 DEF RepointReadError, AppendReadError, FaultAs, Fault

LEMMA NextLockInv ==
    ASSUME LockOn, TypeInv, LockInv, [Next]_vars, NoReadFailed'
    PROVE  LockInv'
<1> USE RegistryAssumption DEF TypeInv, TypeOK, Location, Returns, InSection
<1>1. ASSUME NEW n \in Name, NEW h \in Hash, Sign(n, h) PROVE LockInv'
  BY <1>1 DEF Sign, storeVars, locals, LockInv, HoldsLock, TailCurrent, IndexCurrent, Chained
<1>2. ASSUME NEW p \in Proc, NEW r, NEW l \in {"admit", "precheck"}, Accept(p, r, l) PROVE LockInv'
  BY <1>2, OutsideKeepsLockInv DEF Accept, storeVars
<1>3. ASSUME NEW p \in Proc, RepointRead(p) PROVE LockInv'
  BY <1>3 DEF RepointRead, lockFree, take, goto,
     LockInv, HoldsLock, TailCurrent, IndexCurrent, Chained
<1>4. ASSUME NEW p \in Proc, RepointWrite(p) PROVE LockInv'
  <2>1. /\ pc[p] = "writing" /\ pc' = [pc EXCEPT ![p] = "attribute"]
        /\ release(p) /\ snap' = [snap EXCEPT ![p] = Empty]
        /\ UNCHANGED <<journal, prior>>
    BY <1>4 DEF RepointWrite, afterRepoint, goto
  <2>2. \A q \in Proc \ {p} : pc[q] \notin InSection
    BY <2>1 DEF LockInv, HoldsLock
  <2> QED
    BY <2>1, <2>2 DEF LockInv, HoldsLock, TailCurrent, IndexCurrent, Chained
<1>5. ASSUME NEW p \in Proc, RepointDelete(p) PROVE LockInv'
  <2>1. /\ pc[p] = "writing" /\ pc' = [pc EXCEPT ![p] = "inserting"]
        /\ UNCHANGED <<journal, prior, lock, snap>>
    BY <1>5 DEF RepointDelete, goto
  <2>2. \A q \in Proc \ {p} : pc[q] \notin InSection
    BY <2>1 DEF LockInv, HoldsLock
  <2> QED
    BY <2>1, <2>2 DEF LockInv, HoldsLock, TailCurrent, IndexCurrent, Chained
<1>6. ASSUME NEW p \in Proc, RepointInsert(p) PROVE LockInv'
  <2>1. /\ pc[p] = "inserting" /\ UNCHANGED <<journal, prior>>
        /\ \/ UNCHANGED <<lock, pc, snap>>
           \/ /\ pc' = [pc EXCEPT ![p] = "attribute"] /\ release(p)
              /\ snap' = [snap EXCEPT ![p] = Empty]
    BY <1>6 DEF RepointInsert, afterRepoint, goto
  <2>2. \A q \in Proc \ {p} : pc[q] \notin InSection
    BY <2>1 DEF LockInv, HoldsLock
  <2> QED
    BY <2>1, <2>2 DEF LockInv, HoldsLock, TailCurrent, IndexCurrent, Chained
<1>7. ASSUME NEW p \in Proc, AppendRead(p) PROVE LockInv'
  BY <1>7 DEF AppendRead, lockFree, take, goto,
     LockInv, HoldsLock, TailCurrent, IndexCurrent, Chained
<1>8. ASSUME NEW p \in Proc, AppendWrite(p) PROVE LockInv'
  <2>1. /\ pc[p] = "appending" /\ release(p) /\ UNCHANGED <<names, snap>>
        /\ \E l \in Returns : pc' = [pc EXCEPT ![p] = l]
        /\ journal' = Append(journal, nextLine(prior[p], entry[p]))
        /\ prior' = [prior EXCEPT ![p] = <<>>]
    BY <1>8 DEF AppendWrite, afterAppend, done, goto
  <2>2. \A q \in Proc \ {p} : pc[q] \notin InSection
    BY <2>1 DEF LockInv, HoldsLock
  <2>3. prior[p] = journal /\ entry[p] \in Body
    BY <2>1 DEF LockInv, TailCurrent, LocalsOK
  <2>4. Chained'
    BY <2>1, <2>3, ChainExtends DEF LockInv, Chained
  <2> QED
    BY <2>1, <2>2, <2>4 DEF LockInv, HoldsLock, TailCurrent, IndexCurrent
<1>9. ASSUME NEW h \in Hash, LeaseExpires(h) PROVE LockInv'
  BY <1>9 DEF LeaseExpires, storeVars, locals,
     LockInv, HoldsLock, TailCurrent, IndexCurrent, Chained
<1>10. ASSUME NEW p \in Proc, Crash(p) PROVE LockInv'
  BY <1>10 DEF Crash, done, goto, release, LockInv, HoldsLock, TailCurrent, IndexCurrent, Chained
<1>14. ASSUME NEW p \in Proc, AppendFails(p) PROVE LockInv'
  <2>1. /\ release(p) /\ UNCHANGED <<names, snap, journal>>
        /\ \E l \in Returns : pc' = [pc EXCEPT ![p] = l]
        /\ prior' = [prior EXCEPT ![p] = <<>>]
    BY <1>14 DEF AppendFails, afterAppend, done, goto
  <2> QED
    BY <2>1 DEF release, LockInv, HoldsLock, TailCurrent, IndexCurrent, Chained
<1>15. ASSUME NEW p \in Proc, FaultStep(p) PROVE LockInv'
  BY <1>10, <1>14, <1>15, NoReadFailedBefore DEF FaultStep
<1>16. ASSUME NEW w \in Worker, ProveError(w) PROVE LockInv'
  BY <1>16, OutsideSteps, OutsideKeepsLockInv DEF Proc
<1>11. CASE UNCHANGED vars
  BY <1>11 DEF vars, storeVars, locals, LockInv, HoldsLock, TailCurrent, IndexCurrent, Chained
<1>12. ASSUME NEW p \in Proc, Section(p) PROVE LockInv'
  BY <1>12, <1>3, <1>4, <1>5, <1>6, <1>7, <1>8 DEF Section
<1>13. ASSUME NEW p \in Proc, ServeStep(p) \/ WorkerStep(p) PROVE LockInv'
  <2>1. CASE Section(p)
    BY <2>1, <1>12
  <2>2. CASE ~Section(p)
    BY <2>2, <1>13, OutsideSteps, OutsideKeepsLockInv DEF ServeStep, WorkerStep
  <2> QED
    BY <2>1, <2>2
<1> QED
  BY <1>1, <1>2, <1>9, <1>11, <1>13, <1>15, <1>16 DEF Next, put, putObject, Proc

\* The lock protects the sections in every reachable state, until a read fails.
LockedUntilMisread == NoReadFailed => LockInv

LEMMA LockInvariant ==
    ASSUME LockOn
    PROVE  Spec => [](TypeInv /\ LockedUntilMisread)
<1>1. TypeInv /\ LockedUntilMisread /\ [Next]_vars => (TypeInv /\ LockedUntilMisread)'
  BY NextTypeInv, NextLockInv, NoReadFailedBefore DEF LockedUntilMisread
<1>2. Init => LockedUntilMisread
  BY InitLockInv DEF LockedUntilMisread
<1> QED
  BY <1>1, <1>2, InitTypeInv, PTL DEF Spec

(***************************************************************************)
(* With the store lock on, the journal's sequence numbers and hash chain    *)
(* verify after any interleaving of AppendLog and Repoint by any number of  *)
(* processes, on either backend, with any number of crashes, lost appends   *)
(* and prover errors, for as long as no read of the store has failed.       *)
(***************************************************************************)
THEOREM JournalAlwaysChains == ASSUME LockOn PROVE Spec => []JournalChains
<1>1. LockedUntilMisread => JournalChains
  BY DEF LockedUntilMisread, LockInv, JournalChains
<1> QED
  BY <1>1, LockInvariant, PTL

\* Only the writes of Repoint change the index.
LEMMA IndexWriters ==
    ASSUME TypeOK, [Next]_vars, names' # names
    PROVE  \E p \in Proc : RepointWrite(p) \/ RepointDelete(p) \/ RepointInsert(p)
<1>1. ASSUME NEW p \in Proc, ServeStep(p) \/ WorkerStep(p)
      PROVE  RepointWrite(p) \/ RepointDelete(p) \/ RepointInsert(p)
  <2>1. ~RepointRead(p) /\ ~AppendRead(p) /\ ~AppendWrite(p)
    BY DEF RepointRead, AppendRead, AppendWrite
  <2>2. CASE Section(p)
    BY <2>1, <2>2 DEF Section
  <2>3. CASE ~Section(p)
    BY <2>3, <1>1, OutsideSteps DEF ServeStep, WorkerStep
  <2> QED
    BY <2>2, <2>3
<1>2. ~UNCHANGED vars
  BY DEF vars, storeVars
<1>3. ~\E n \in Name, h \in Hash : Sign(n, h)
  BY DEF Sign, storeVars
<1>4. ~\E p \in Serve, n \in Name, h \in Hash : put(p, n, h)
  BY DEF put, Accept, storeVars
<1>5. ~\E p \in Serve, e \in envs : putObject(p, e)
  BY DEF putObject, Accept, storeVars
<1>6. ~\E h \in Hash : LeaseExpires(h)
  BY DEF LeaseExpires, storeVars
<1>7. ~\E p \in Proc : FaultStep(p)
  BY DEF FaultStep, RepointReadError, AppendReadError, AppendFails, Crash
<1>8. ~\E w \in Worker : ProveError(w)
  BY DEF ProveError, storeVars
<1> QED
  BY <1>1, <1>2, <1>3, <1>4, <1>5, <1>6, <1>7, <1>8 DEF Next, Proc

(***************************************************************************)
(* On the filesystem store with the lock on, Repoint's read, modify and     *)
(* rewrite of the whole of names.json never loses a concurrent repoint: a   *)
(* step changes one name, to the hash its own request asked for, until a    *)
(* read of the store has failed.                                            *)
(***************************************************************************)
THEOREM RepointIsNeverLost ==
    ASSUME LockOn, Backend = "fs"
    PROVE  Spec => NoLostRepoint
<1> DEFINE Own == NoReadFailed' => \A n \in Name : names'[n] # names[n] =>
                     \E p \in Proc : pc[p] = "writing" /\ req[p].name = n /\ req[p].hash = names'[n]
<1>1. TypeInv /\ LockedUntilMisread /\ [Next]_vars => [Own]_vars
  <2> SUFFICES ASSUME TypeInv, LockedUntilMisread, [Next]_vars, NoReadFailed', names' # names
               PROVE  Own
    OBVIOUS
  <2>1. PICK p \in Proc : RepointWrite(p) \/ RepointDelete(p) \/ RepointInsert(p)
    BY IndexWriters DEF TypeInv
  <2>2. ~RepointDelete(p) /\ ~RepointInsert(p)
    BY DEF RepointDelete, RepointInsert
  <2>3. CASE RepointWrite(p)
    <3>1. pc[p] = "writing" /\ names' = [snap[p] EXCEPT ![req[p].name] = req[p].hash]
      BY <2>3 DEF RepointWrite, written
    <3>2. snap[p] = names
      BY <3>1, NoReadFailedBefore DEF LockedUntilMisread, LockInv, IndexCurrent
    <3>3. names \in [Name -> Hash \union {None}]
      BY DEF TypeInv, TypeOK, Index
    <3>4. \A n \in Name : names'[n] # names[n] => n = req[p].name /\ names'[n] = req[p].hash
      BY <3>1, <3>2, <3>3
    <3> QED
      BY <3>1, <3>4
  <2> QED
    BY <2>1, <2>2, <2>3
<1> QED
  BY <1>1, LockInvariant, PTL DEF NoLostRepoint, Spec

-----------------------------------------------------------------------------
(***************************************************************************)
(* What a name may point at: the index only ever holds stored objects and,  *)
(* under require_proven, proved ones.  Neither needs the lock: an object    *)
(* stays stored and a theorem stays proved, so a copy of the index that is  *)
(* out of date is still a copy of good bindings.                            *)
(***************************************************************************)

\* p works for a request whose object is in the store.
Vetted(p) ==
    \/ pc[p] \in {"gate", "enqueue", "repoint", "writing", "inserting",
                  "claim", "reclaim", "prove", "bind"}
    \/ pc[p] \in {"attribute", "log", "appending"} /\ ret[p] = "bind"

CopiesStored == \A p \in Proc, n \in Name : snap[p][n] \in objects \union {None}

QueueStored == \A h \in Hash : job[h] # None \/ lease[h] # None => h \in objects

VettedStored == \A p \in Proc : Vetted(p) => req[p].hash \in objects

StoredInv == NoDanglingName /\ CopiesStored /\ QueueStored /\ VettedStored

\* What metadata and its cached copies say of a proof, the solver has shown.
MetaShown == proven \subseteq shown

CopyShown == \A p \in Proc : copy[p] = "proven" => req[p].hash \in shown

IdleForgets == \A p \in Proc : pc[p] = "idle" => copy[p] = "absent"

\* A process about to bind a gated name binds it to a proven object, or to data.
CopiesProven == \A p \in Proc, n \in Gated : snap[p][n] \in shown \union Data \union {None}

BindsProven ==
    \A p \in Proc : pc[p] \in {"repoint", "writing", "inserting"} /\ req[p].name \in Gated
                        => req[p].hash \in shown \union Data

ProvenInv ==
    /\ GatedIsProven /\ CopiesProven /\ BindsProven
    /\ MetaShown /\ CopyShown /\ IdleForgets
-----------------------------------------------------------------------------
LEMMA InitStoredInv == Init => StoredInv
BY DEF Init, QueueInit, Empty, StoredInv, NoDanglingName, CopiesStored, QueueStored, VettedStored, Vetted

LEMMA InitProvenInv == Init => ProvenInv
BY RegistryAssumption DEF Init, Empty, ProvenInv, GatedIsProven, CopiesProven, BindsProven,
   MetaShown, CopyShown, IdleForgets

LEMMA NextStoredInv ==
    ASSUME TypeInv, StoredInv, [Next]_vars
    PROVE  StoredInv'
<1> USE RegistryAssumption DEF TypeInv, TypeOK, Location, Returns, Index, QueueTypeOK, StoredInv
<1>1. ASSUME UNCHANGED <<objects, names, snap, job, lease>>,
             NEW p \in Proc, NEW l \in Location, goto(p, l),
             UNCHANGED <<req, ret>>,
             l \in {"log", "appending", "admit", "store", "complete", "idle"} \/ req[p].hash \in objects,
             l \in {"log", "appending"} => ret[p] # "bind" \/ req[p].hash \in objects
      PROVE  StoredInv'
  BY <1>1 DEF goto, NoDanglingName, CopiesStored, QueueStored, VettedStored, Vetted
<1>2. ASSUME UNCHANGED <<objects, names, snap, job, lease, req>>,
             NEW p \in Proc, NEW e, NEW l \in Returns, thenLog(p, e, l),
             l = "bind" => req[p].hash \in objects
      PROVE  StoredInv'
  BY <1>2 DEF thenLog, goto, NoDanglingName, CopiesStored, QueueStored, VettedStored, Vetted
<1>3. ASSUME NEW n \in Name, NEW h \in Hash, Sign(n, h) PROVE StoredInv'
  BY <1>3 DEF Sign, storeVars, queueVars, locals,
     NoDanglingName, CopiesStored, QueueStored, VettedStored, Vetted
<1>4. ASSUME NEW p \in Proc, NEW r, NEW l \in {"admit", "precheck"}, Accept(p, r, l) PROVE StoredInv'
  BY <1>4 DEF Accept, goto, storeVars, queueVars,
     NoDanglingName, CopiesStored, QueueStored, VettedStored, Vetted
<1>5. ASSUME NEW p \in Proc, PreCheck(p) PROVE StoredInv'
  <2>1. /\ UNCHANGED <<objects, names, snap, job, lease, req>>
        /\ \/ goto(p, "admit") /\ UNCHANGED ret
           \/ thenLog(p, NoBind(req[p], Kind(req[p].hash), req[p].hash, "rejected", "none"), "idle")
    BY <1>5 DEF PreCheck, storeVars, queueVars
  <2> QED
    BY <2>1, <1>1, <1>2
<1>6. ASSUME NEW p \in Proc, Admit(p) PROVE StoredInv'
  <2>1. /\ UNCHANGED <<objects, names, snap, job, lease, req>>
        /\ \/ goto(p, "store") /\ UNCHANGED ret
           \/ thenLog(p, NoBind(req[p], Kind(req[p].hash), None, "rejected", ""), "idle")
    BY <1>6 DEF Admit, storeVars, queueVars
  <2> QED
    BY <2>1, <1>1, <1>2
<1>27. ASSUME NEW p \in Proc, Store(p) PROVE StoredInv'
  BY <1>27 DEF Store, goto, queueVars,
     NoDanglingName, CopiesStored, QueueStored, VettedStored, Vetted
<1>28. ASSUME NEW p \in Proc, Restore(p) PROVE StoredInv'
  BY <1>28 DEF Restore, done, goto, queueVars,
     NoDanglingName, CopiesStored, QueueStored, VettedStored, Vetted
<1>29. ASSUME NEW p \in Proc, Attribute(p) PROVE StoredInv'
  <2>1. /\ UNCHANGED <<objects, names, snap, job, lease, req, ret>>
        /\ goto(p, "log") /\ pc[p] = "attribute"
    BY <1>29 DEF Attribute, queueVars
  <2>2. ret[p] # "bind" \/ req[p].hash \in objects
    BY <2>1 DEF VettedStored, Vetted
  <2> QED
    BY <2>1, <2>2, <1>1
<1>7. ASSUME NEW p \in Proc, Gate(p) PROVE StoredInv'
  <2>1. /\ UNCHANGED <<objects, names, snap, job, lease, req>>
        /\ \/ \E l \in {"enqueue", "repoint"} : goto(p, l) /\ UNCHANGED ret
           \/ \E e : thenLog(p, e, "idle") \/ thenLog(p, e, "restore")
    BY <1>7 DEF Gate, storeVars, queueVars
  <2>2. req[p].hash \in objects
    BY <1>7 DEF Gate, VettedStored, Vetted
  <2> QED
    BY <2>1, <2>2, <1>1, <1>2
<1>8. ASSUME NEW p \in Proc, Enqueue(p) PROVE StoredInv'
  <2>1. req[p].hash \in objects
    BY <1>8 DEF Enqueue, VettedStored, Vetted
  <2> QED
    BY <1>8, <2>1 DEF Enqueue, enqueueProof, thenLog, goto, storeVars,
       NoDanglingName, CopiesStored, QueueStored, VettedStored, Vetted
<1>9. ASSUME NEW p \in Proc, RepointRead(p) \/ RepointReadError(p) PROVE StoredInv'
  <2>1. CASE RepointRead(p)
    BY <2>1 DEF RepointRead, goto, queueVars,
       NoDanglingName, CopiesStored, QueueStored, VettedStored, Vetted
  <2>2. CASE RepointReadError(p)
    BY <2>2 DEF RepointReadError, Empty, goto, queueVars,
       NoDanglingName, CopiesStored, QueueStored, VettedStored, Vetted
  <2> QED
    BY <1>9, <2>1, <2>2
<1>10. ASSUME NEW p \in Proc, pc[p] \in {"writing", "inserting"}
       PROVE  \A n \in Name : written(p)[n] \in objects \union {None}
  BY <1>10 DEF written, CopiesStored, VettedStored, Vetted
<1>11. ASSUME NEW p \in Proc, afterRepoint(p), UNCHANGED <<objects, job, lease, req>>, NoDanglingName'
       PROVE  StoredInv'
  BY <1>11 DEF afterRepoint, goto, Empty, NoDanglingName, CopiesStored, QueueStored, VettedStored, Vetted
<1>12. ASSUME NEW p \in Proc, RepointWrite(p) PROVE StoredInv'
  <2>1. NoDanglingName'
    BY <1>12, <1>10 DEF RepointWrite, NoDanglingName
  <2> QED
    BY <1>12, <1>11, <2>1 DEF RepointWrite, queueVars
<1>13. ASSUME NEW p \in Proc, RepointDelete(p) PROVE StoredInv'
  BY <1>13 DEF RepointDelete, goto, Empty, queueVars,
     NoDanglingName, CopiesStored, QueueStored, VettedStored, Vetted
<1>14. ASSUME NEW p \in Proc, RepointInsert(p) PROVE StoredInv'
  <2>1. PICK n \in Name :
            /\ names' = [names EXCEPT ![n] = written(p)[n]]
            /\ afterRepoint(p) \/ UNCHANGED <<pc, snap, ret>>
    BY <1>14 DEF RepointInsert, ToInsert
  <2>2. /\ UNCHANGED <<objects, job, lease, req>> /\ pc[p] = "inserting"
    BY <1>14 DEF RepointInsert, queueVars
  <2>3. NoDanglingName'
    BY <2>1, <2>2, <1>10 DEF NoDanglingName
  <2>4. CASE afterRepoint(p)
    BY <2>2, <2>3, <2>4, <1>11
  <2>5. CASE UNCHANGED <<pc, snap, ret>>
    BY <2>2, <2>3, <2>5 DEF CopiesStored, QueueStored, VettedStored, Vetted
  <2> QED
    BY <2>1, <2>4, <2>5
<1>15. ASSUME NEW p \in Proc, AppendRead(p) \/ AppendReadError(p) PROVE StoredInv'
  <2>1. /\ UNCHANGED <<objects, names, snap, job, lease, req, ret>> /\ goto(p, "appending")
        /\ pc[p] = "log"
    BY <1>15 DEF AppendRead, AppendReadError, queueVars
  <2>2. ret[p] # "bind" \/ req[p].hash \in objects
    BY <2>1 DEF VettedStored, Vetted
  <2> QED
    BY <2>1, <2>2, <1>1
<1>16. ASSUME NEW p \in Proc, AppendWrite(p) \/ AppendFails(p) PROVE StoredInv'
  <2>1. /\ UNCHANGED <<objects, names, snap, job, lease>> /\ pc[p] \in {"log", "appending"}
        /\ ret' = [ret EXCEPT ![p] = "idle"]
        /\ \/ pc' = [pc EXCEPT ![p] = "idle"] /\ req' = [req EXCEPT ![p] = NoReq]
           \/ pc' = [pc EXCEPT ![p] = ret[p]] /\ UNCHANGED req
    BY <1>16 DEF AppendWrite, AppendFails, afterAppend, done, goto, queueVars
  <2>2. ret[p] = "bind" => req[p].hash \in objects
    BY <2>1 DEF VettedStored, Vetted
  <2>3. ASSUME NEW q \in Proc, Vetted(q)' PROVE req'[q].hash \in objects'
    <3>1. CASE q # p
      <4>1. pc'[q] = pc[q] /\ ret'[q] = ret[q] /\ req'[q] = req[q]
        BY <2>1, <3>1
      <4> QED
        BY <2>1, <2>3, <4>1 DEF VettedStored, Vetted
    <3>2. CASE q = p
      <4>1. ret'[p] = "idle" /\ pc'[p] \in {"idle", ret[p]}
        BY <2>1
      <4>2. pc'[p] = "bind"
        BY <2>3, <3>2, <4>1 DEF Vetted
      <4>3. ret[p] = "bind" /\ req'[p] = req[p]
        BY <2>1, <4>1, <4>2
      <4> QED
        BY <2>1, <2>2, <3>2, <4>3
    <3> QED
      BY <3>1, <3>2
  <2>4. VettedStored'
    BY <2>3 DEF VettedStored
  <2> QED
    BY <2>1, <2>4 DEF NoDanglingName, CopiesStored, QueueStored
<1>17. ASSUME NEW p \in Proc, Claim(p) PROVE StoredInv'
  <2>1. PICK h \in Hash, n \in Name, l \in {"claim", "reclaim"} :
            /\ job[h] # None \/ lease[h] # None
            /\ req' = [req EXCEPT ![p] = [name |-> n, hash |-> h, env |-> None]]
            /\ pc' = [pc EXCEPT ![p] = l]
    BY <1>17 DEF Claim, FreshClaim, StaleClaim, goto
  <2>2. h \in objects
    BY <2>1 DEF QueueStored
  <2>3. UNCHANGED <<objects, names, snap, job, lease, ret>>
    BY <1>17 DEF Claim, storeVars, queueVars
  <2>4. VettedStored'
    BY <2>1, <2>2, <2>3 DEF VettedStored, Vetted
  <2> QED
    BY <2>3, <2>4 DEF NoDanglingName, CopiesStored, QueueStored
<1>18. ASSUME NEW p \in Proc, ClaimRename(p) PROVE StoredInv'
  <2>1. UNCHANGED <<objects, names, snap, ret>> /\ pc[p] = "claim"
    BY <1>18 DEF ClaimRename, storeVars
  <2>2. req[p].hash \in objects
    BY <2>1 DEF VettedStored, Vetted
  <2>3. QueueStored'
    BY <1>18, <2>1, <2>2 DEF ClaimRename, renameToLease, queueVars, QueueStored
  <2>4. \/ pc' = [pc EXCEPT ![p] = "prove"] /\ UNCHANGED req
        \/ pc' = [pc EXCEPT ![p] = "idle"] /\ req' = [req EXCEPT ![p] = NoReq]
    BY <1>18 DEF ClaimRename, done, goto
  <2>5. VettedStored'
    BY <2>1, <2>2, <2>4 DEF VettedStored, Vetted
  <2> QED
    BY <2>1, <2>3, <2>5 DEF NoDanglingName, CopiesStored
<1>19. ASSUME NEW p \in Proc, ClaimTouch(p) PROVE StoredInv'
  BY <1>19 DEF ClaimTouch, touchLease, goto, storeVars,
     NoDanglingName, CopiesStored, QueueStored, VettedStored, Vetted
<1>20. ASSUME NEW p \in Proc, Prove(p) PROVE StoredInv'
  <2>1. req[p].hash \in objects
    BY <1>20 DEF Prove, VettedStored, Vetted
  <2> QED
    BY <1>20, <2>1, <1>2 DEF Prove, queueVars
<1>21. ASSUME NEW p \in Proc, Bind(p) PROVE StoredInv'
  <2>1. /\ UNCHANGED <<objects, names, snap, job, lease, req>>
        /\ \/ \E l \in {"complete", "repoint"} : goto(p, l) /\ UNCHANGED ret
           \/ \E e : thenLog(p, e, "complete")
    BY <1>21 DEF Bind, storeVars, queueVars
  <2>2. req[p].hash \in objects
    BY <1>21 DEF Bind, VettedStored, Vetted
  <2> QED
    BY <2>1, <2>2, <1>1, <1>2
<1>22. ASSUME NEW p \in Proc, Complete(p) PROVE StoredInv'
  BY <1>22 DEF Complete, completeProof, done, goto, storeVars,
     NoDanglingName, CopiesStored, QueueStored, VettedStored, Vetted
<1>23. ASSUME NEW h \in Hash, LeaseExpires(h) PROVE StoredInv'
  BY <1>23 DEF LeaseExpires, leaseExpires, storeVars, locals,
     NoDanglingName, CopiesStored, QueueStored, VettedStored, Vetted
<1>24. ASSUME NEW p \in Proc, Crash(p) PROVE StoredInv'
  BY <1>24 DEF Crash, done, goto, Empty, queueVars,
     NoDanglingName, CopiesStored, QueueStored, VettedStored, Vetted
<1>30. ASSUME NEW w \in Worker, ProveError(w) PROVE StoredInv'
  <2>1. w \in Proc
    BY DEF Proc
  <2> QED
    BY <1>30, <2>1, <1>1 DEF ProveError, storeVars, queueVars
<1>25. CASE UNCHANGED vars
  BY <1>25 DEF vars, storeVars, queueVars, locals,
     NoDanglingName, CopiesStored, QueueStored, VettedStored, Vetted
<1>26. ASSUME NEW p \in Proc, ServeStep(p) \/ WorkerStep(p) PROVE StoredInv'
  BY <1>26, <1>5, <1>6, <1>7, <1>8, <1>9, <1>12, <1>13, <1>14, <1>15, <1>16, <1>17, <1>18,
     <1>19, <1>20, <1>21, <1>22, <1>27, <1>28, <1>29 DEF ServeStep, WorkerStep, Section
<1> QED
  BY <1>3, <1>4, <1>9, <1>15, <1>16, <1>23, <1>24, <1>25, <1>26, <1>30
     DEF Next, FaultStep, put, putObject, Proc

(***************************************************************************)
(* A name never points at an object that is not stored, whatever the lock,  *)
(* the backend and the faults.                                              *)
(***************************************************************************)
THEOREM NamesAreStored == Spec => []NoDanglingName
<1>1. TypeInv /\ StoredInv /\ [Next]_vars => (TypeInv /\ StoredInv)'
  BY NextTypeInv, NextStoredInv
<1>2. Spec => [](TypeInv /\ StoredInv)
  BY <1>1, InitTypeInv, InitStoredInv, PTL DEF Spec
<1>3. StoredInv => NoDanglingName
  BY DEF StoredInv
<1> QED
  BY <1>2, <1>3, PTL

LEMMA NextProvenInv ==
    ASSUME TypeInv, ProvenInv, [Next]_vars
    PROVE  ProvenInv'
<1> USE RegistryAssumption DEF TypeInv, TypeOK, Location, Returns, Index, ProvenInv
<1> DEFINE Binding == {"repoint", "writing", "inserting"}
<1> USE DEF GatedIsProven, CopiesProven, BindsProven, MetaShown, CopyShown, IdleForgets
<1>1. ASSUME NEW p \in Proc, UNCHANGED <<names, snap>>,
             shown \subseteq shown', proven' \subseteq shown',
             \A q \in Proc \ {p} : pc'[q] = pc[q] /\ req'[q] = req[q] /\ copy'[q] = copy[q],
             pc'[p] \in Binding /\ req'[p].name \in Gated => req'[p].hash \in shown' \union Data,
             copy'[p] = "proven" => req'[p].hash \in shown',
             pc'[p] = "idle" => copy'[p] = "absent"
      PROVE  ProvenInv'
  BY <1>1
<1>2. ASSUME NEW p \in Proc, NEW l \in Location \ (Binding \union {"idle"}), goto(p, l),
             UNCHANGED <<names, snap, proven, shown, req, copy>>
      PROVE  ProvenInv'
  BY <1>1, <1>2 DEF goto
<1>3. ASSUME NEW p \in Proc, PreCheck(p) \/ Enqueue(p) \/ AppendRead(p) \/ AppendReadError(p)
                            \/ ClaimTouch(p) \/ ProveError(p)
      PROVE  ProvenInv'
  <2>1. /\ UNCHANGED <<names, snap, proven, shown, req, copy>>
        /\ \E l \in {"admit", "log", "appending", "prove", "complete"} : goto(p, l)
    BY <1>3 DEF PreCheck, Enqueue, AppendRead, AppendReadError, ClaimTouch, ProveError,
       thenLog, storeVars, ghostVars
  <2> QED
    BY <2>1, <1>2
<1>4. ASSUME NEW p \in Proc, Admit(p) PROVE ProvenInv'
  <2>1. /\ UNCHANGED <<names, snap, proven, shown, req>>
        /\ \E l \in {"store", "log"} : pc' = [pc EXCEPT ![p] = l]
        /\ \/ UNCHANGED copy
           \/ \E c \in Metadata : /\ copy' = [copy EXCEPT ![p] = c]
                                  /\ c = "proven" => req[p].hash \in proven
    BY <1>4 DEF Admit, Metadata, thenLog, goto, storeVars, ghostVars
  <2> QED
    BY <2>1, <1>1
<1>5. ASSUME NEW p \in Proc, saveMeta(p) PROVE proven' \subseteq shown
  BY <1>5 DEF saveMeta
<1>6. ASSUME NEW p \in Proc, Store(p) \/ Attribute(p) PROVE ProvenInv'
  <2>1. /\ UNCHANGED <<names, snap, shown, req, copy>> /\ saveMeta(p)
        /\ \E l \in {"gate", "log"} : pc' = [pc EXCEPT ![p] = l]
    BY <1>6 DEF Store, Attribute, goto, ghostVars
  <2> QED
    BY <2>1, <1>1, <1>5
<1>7. ASSUME NEW p \in Proc, Restore(p) PROVE ProvenInv'
  <2>1. /\ UNCHANGED <<names, snap, shown>> /\ saveMeta(p)
        /\ pc' = [pc EXCEPT ![p] = "idle"] /\ req' = [req EXCEPT ![p] = NoReq]
        /\ copy' = [copy EXCEPT ![p] = "absent"]
    BY <1>7 DEF Restore, done, goto, ghostVars
  <2> QED
    BY <2>1, <1>1, <1>5
<1>8. ASSUME NEW p \in Proc, Gate(p) PROVE ProvenInv'
  <2>1. /\ UNCHANGED <<names, snap, proven, shown, req, copy>>
        /\ \/ \E l \in {"enqueue", "log"} : goto(p, l)
           \/ /\ pc' = [pc EXCEPT ![p] = "repoint"]
              /\ provenGate(req[p].name, req[p].hash, copy[p]) = "pass"
    BY <1>8 DEF Gate, thenLog, goto, storeVars, ghostVars
  <2>2. provenGate(req[p].name, req[p].hash, copy[p]) = "pass" /\ req[p].name \in Gated
            => req[p].hash \in shown \union Data
    BY DEF provenGate
  <2> QED
    BY <2>1, <2>2, <1>1, <1>2
<1>9. ASSUME NEW p \in Proc, RepointRead(p) \/ RepointReadError(p) PROVE ProvenInv'
  <2>1. /\ UNCHANGED <<names, shown, proven, req, copy>> /\ pc[p] = "repoint"
        /\ pc' = [pc EXCEPT ![p] = "writing"]
        /\ snap' = [snap EXCEPT ![p] = names] \/ snap' = [snap EXCEPT ![p] = Empty]
    BY <1>9 DEF RepointRead, RepointReadError, goto, ghostVars
  <2>2. CopiesProven'
    <3>1. \A n \in Gated : snap'[p][n] \in shown \union Data \union {None}
      BY <2>1 DEF Empty
    <3>2. \A q \in Proc \ {p} : snap'[q] = snap[q]
      BY <2>1
    <3> QED
      BY <2>1, <3>1, <3>2
  <2>3. BindsProven' /\ IdleForgets'
    BY <2>1
  <2> QED
    BY <2>1, <2>2, <2>3
<1>10. ASSUME NEW p \in Proc, pc[p] \in {"writing", "inserting"}
       PROVE  \A n \in Gated : written(p)[n] \in shown \union Data \union {None}
  BY <1>10 DEF written
<1>11. ASSUME NEW p \in Proc, afterRepoint(p), UNCHANGED <<proven, shown, req, copy>>, GatedIsProven'
       PROVE  ProvenInv'
  BY <1>11 DEF afterRepoint, goto, Empty
<1>12. ASSUME NEW p \in Proc, RepointWrite(p) PROVE ProvenInv'
  <2>1. GatedIsProven'
    BY <1>12, <1>10 DEF RepointWrite
  <2> QED
    BY <1>12, <1>11, <2>1 DEF RepointWrite
<1>13. ASSUME NEW p \in Proc, RepointDelete(p) PROVE ProvenInv'
  BY <1>13 DEF RepointDelete, goto, Empty
<1>14. ASSUME NEW p \in Proc, RepointInsert(p) PROVE ProvenInv'
  <2>1. PICK n \in Name :
            /\ names' = [names EXCEPT ![n] = written(p)[n]]
            /\ afterRepoint(p) \/ UNCHANGED <<pc, snap>>
    BY <1>14 DEF RepointInsert, ToInsert
  <2>2. UNCHANGED <<proven, shown, req, copy>> /\ pc[p] = "inserting"
    BY <1>14 DEF RepointInsert, ghostVars
  <2>3. GatedIsProven'
    BY <2>1, <2>2, <1>10
  <2>4. CASE afterRepoint(p)
    BY <2>2, <2>3, <2>4, <1>11
  <2>5. CASE UNCHANGED <<pc, snap>>
    BY <2>2, <2>3, <2>5
  <2> QED
    BY <2>1, <2>4, <2>5
<1>15. ASSUME NEW p \in Proc, AppendWrite(p) \/ AppendFails(p) PROVE ProvenInv'
  <2>1. UNCHANGED <<names, snap, proven, shown>> /\ afterAppend(p)
    BY <1>15 DEF AppendWrite, AppendFails, ghostVars
  <2>2. CASE ret[p] = "idle" /\ done(p)
    BY <2>1, <2>2, <1>1 DEF done, goto
  <2>3. CASE ret[p] # "idle" /\ goto(p, ret[p]) /\ UNCHANGED <<req, copy>>
    BY <2>1, <2>3, <1>2
  <2> QED
    BY <2>1, <2>2, <2>3 DEF afterAppend
<1>16. ASSUME NEW p \in Proc, Claim(p) PROVE ProvenInv'
  <2>1. /\ UNCHANGED <<names, snap, proven, shown, copy>> /\ pc[p] = "idle"
        /\ \E l \in {"claim", "reclaim"} : pc' = [pc EXCEPT ![p] = l]
        /\ \E r : req' = [req EXCEPT ![p] = r]
    BY <1>16 DEF Claim, goto, storeVars, ghostVars
  <2> QED
    BY <2>1, <1>1
<1>17. ASSUME NEW p \in Proc, ClaimRename(p) \/ Complete(p) PROVE ProvenInv'
  <2>1. /\ UNCHANGED <<names, snap, proven, shown>>
        /\ (goto(p, "prove") /\ UNCHANGED <<req, copy>>) \/ done(p)
    BY <1>17 DEF ClaimRename, Complete, storeVars, ghostVars
  <2>2. CASE goto(p, "prove") /\ UNCHANGED <<req, copy>>
    BY <2>1, <2>2, <1>2
  <2>3. CASE done(p)
    BY <2>1, <2>3, <1>1 DEF done, goto
  <2> QED
    BY <2>1, <2>2, <2>3
<1>18. ASSUME NEW p \in Proc, Prove(p) PROVE ProvenInv'
  <2> DEFINE new == {req[p].hash} \intersect Provable
  <2>1. /\ UNCHANGED <<names, snap, req>> /\ pc' = [pc EXCEPT ![p] = "log"]
        /\ proven' = proven \union new /\ shown' = shown \union new
        /\ copy' = [copy EXCEPT ![p] = IF new = {} THEN "unproven" ELSE "proven"]
    BY <1>18 DEF Prove, thenLog, goto
  <2> QED
    BY <2>1, <1>1
<1>19. ASSUME NEW p \in Proc, Bind(p) PROVE ProvenInv'
  <2>1. /\ UNCHANGED <<names, snap, proven, shown, req, copy>>
        /\ \/ \E l \in {"complete", "log"} : goto(p, l)
           \/ pc' = [pc EXCEPT ![p] = "repoint"] /\ copy[p] = "proven"
    BY <1>19 DEF Bind, thenLog, goto, storeVars, ghostVars
  <2> QED
    BY <2>1, <1>1, <1>2
<1>20. ASSUME NEW p \in Proc, Crash(p) PROVE ProvenInv'
  BY <1>20 DEF Crash, done, goto, Empty
<1>21. ASSUME NEW p \in Proc, NEW r, NEW l \in {"admit", "precheck"}, Accept(p, r, l) PROVE ProvenInv'
  BY <1>21, <1>1 DEF Accept, goto, storeVars
<1>22. ASSUME UNCHANGED <<names, proven, shown, pc, req, copy, snap>> PROVE ProvenInv'
  BY <1>22
<1>23. ASSUME NEW n \in Name, NEW h \in Hash, Sign(n, h) PROVE ProvenInv'
  BY <1>22, <1>23 DEF Sign, storeVars, locals
<1>24. ASSUME NEW h \in Hash, LeaseExpires(h) PROVE ProvenInv'
  BY <1>22, <1>24 DEF LeaseExpires, storeVars, ghostVars, locals
<1>25. CASE UNCHANGED vars
  BY <1>22, <1>25 DEF vars, storeVars, ghostVars, locals
<1>26. ASSUME NEW p \in Proc, ServeStep(p) \/ WorkerStep(p) PROVE ProvenInv'
  BY <1>26, <1>3, <1>4, <1>6, <1>7, <1>8, <1>9, <1>12, <1>13, <1>14, <1>15, <1>16, <1>17, <1>18, <1>19
     DEF ServeStep, WorkerStep, Section
<1>27. ASSUME NEW p \in Proc, FaultStep(p) \/ ProveError(p) PROVE ProvenInv'
  BY <1>27, <1>3, <1>9, <1>15, <1>20 DEF FaultStep
<1> QED
  BY <1>21, <1>23, <1>24, <1>25, <1>26, <1>27 DEF Next, put, putObject, Proc

(***************************************************************************)
(* A name under require_proven never points at a function the solver has    *)
(* not proved, however puts and workers interleave, on either backend, with *)
(* or without the lock, and whatever fails.                                 *)
(***************************************************************************)
THEOREM GateHolds == Spec => []GatedIsProven
<1>1. TypeInv /\ ProvenInv /\ [Next]_vars => (TypeInv /\ ProvenInv)'
  BY NextTypeInv, NextProvenInv
<1>2. Spec => [](TypeInv /\ ProvenInv)
  BY <1>1, InitTypeInv, InitProvenInv, PTL DEF Spec
<1>3. ProvenInv => GatedIsProven
  BY DEF ProvenInv
<1> QED
  BY <1>2, <1>3, PTL

-----------------------------------------------------------------------------
(* Recorded proofs: a handler writes back metadata it read some steps earlier. *)

\* p has read the metadata of its definition and may still write it back.
WillSave(p) ==
    \/ pc[p] \in {"store", "gate", "enqueue", "repoint", "writing", "inserting", "attribute", "restore"}
    \/ pc[p] \in {"log", "appending"} /\ ret[p] = "restore"

\* A copy that knows no proof is a put's, and there is none to know.
CacheInv ==
    \A p \in Proc : WillSave(p) /\ copy[p] # "proven" => p \in Serve /\ req[p].hash \notin proven

LEMMA CacheKept ==
    ASSUME TypeInv, CacheInv, DisjointHashes, NEW p \in Proc,
           \A q \in Proc \ {p} : pc'[q] = pc[q] /\ req'[q] = req[q] /\ copy'[q] = copy[q] /\ ret'[q] = ret[q],
           proven' = proven \/ (pc[p] # "idle" /\ proven' \subseteq proven \union {req[p].hash}),
           WillSave(p)' /\ copy'[p] # "proven" => p \in Serve /\ req'[p].hash \notin proven'
    PROVE  CacheInv'
<1> SUFFICES ASSUME NEW q \in Proc \ {p}, WillSave(q)', copy'[q] # "proven"
             PROVE  q \in Serve /\ req'[q].hash \notin proven'
  BY DEF CacheInv
<1>1. WillSave(q) /\ copy[q] # "proven" /\ pc[q] # "idle"
  BY DEF WillSave
<1>2. q \in Serve /\ req[q].hash \notin proven
  BY <1>1 DEF CacheInv
<1>3. pc[p] # "idle" => req[q].hash # req[p].hash
  BY <1>1, <1>2 DEF DisjointHashes
<1> QED
  BY <1>2, <1>3

\* A step of p that saves nothing and stays among the places that may, or leaves them.
LEMMA CacheCarried ==
    ASSUME TypeInv, CacheInv, DisjointHashes, NEW p \in Proc, UNCHANGED <<proven, req, copy>>,
           \A q \in Proc \ {p} : pc'[q] = pc[q] /\ ret'[q] = ret[q],
           WillSave(p)' => WillSave(p) \/ copy[p] = "proven"
    PROVE  CacheInv'
<1>1. WillSave(p)' /\ copy'[p] # "proven" => p \in Serve /\ req'[p].hash \notin proven'
  BY DEF CacheInv
<1> QED
  BY <1>1, CacheKept

LEMMA CacheDropped ==
    ASSUME TypeInv, CacheInv, DisjointHashes, NEW p \in Proc, UNCHANGED proven,
           \A q \in Proc \ {p} : pc'[q] = pc[q] /\ req'[q] = req[q] /\ copy'[q] = copy[q] /\ ret'[q] = ret[q],
           pc'[p] \in {"idle", "precheck", "admit", "claim", "reclaim"}
    PROVE  CacheInv'
BY CacheKept DEF WillSave

LEMMA SavedCache ==
    ASSUME CacheInv, NEW p \in Proc, WillSave(p), saveMeta(p)
    PROVE  /\ proven \subseteq proven' /\ proven' \subseteq proven \union {req[p].hash}
           /\ copy[p] # "proven" => p \in Serve /\ req[p].hash \notin proven'
BY DEF CacheInv, saveMeta

LEMMA NextCacheInv ==
    ASSUME TypeInv, CacheInv, DisjointHashes, [Next]_vars
    PROVE  CacheInv' /\ proven \subseteq proven'
<1> USE DEF storeVars, ghostVars
<1>0. /\ pc \in [Proc -> Location] /\ req \in [Proc -> Request \union {NoReq}]
      /\ copy \in [Proc -> Metadata] /\ ret \in [Proc -> Returns]
  BY DEF TypeInv, TypeOK
<1> DEFINE Kept == CacheInv' /\ proven \subseteq proven'
<1>1. ASSUME UNCHANGED <<proven, pc, req, copy, ret>> PROVE Kept
  BY <1>1 DEF CacheInv, WillSave
<1>2. ASSUME NEW p \in Proc, PreCheck(p) PROVE Kept
  <2>1. /\ UNCHANGED <<proven, req, copy>>
        /\ (goto(p, "admit") /\ UNCHANGED ret) \/ \E e : thenLog(p, e, "idle")
    BY <1>2 DEF PreCheck
  <2>2. /\ \A q \in Proc \ {p} : pc'[q] = pc[q] /\ ret'[q] = ret[q]
        /\ pc'[p] = "admit" \/ (pc'[p] = "log" /\ ret'[p] = "idle")
    BY <1>0, <2>1 DEF thenLog, goto
  <2> QED
    BY <2>1, <2>2, CacheCarried DEF WillSave
<1>3. ASSUME NEW p \in Serve, Admit(p) PROVE Kept
  <2>1. p \in Proc
    BY DEF Proc
  <2>2. /\ UNCHANGED <<proven, req>>
        /\ \A q \in Proc \ {p} : pc'[q] = pc[q] /\ copy'[q] = copy[q] /\ ret'[q] = ret[q]
        /\ \/ pc'[p] = "log" /\ ret'[p] = "idle"
           \/ req[p].hash \in proven => copy'[p] = "proven"
    BY <1>0, <1>3, <2>1 DEF Admit, thenLog, goto
  <2>3. WillSave(p)' /\ copy'[p] # "proven" => p \in Serve /\ req'[p].hash \notin proven'
    BY <2>2 DEF WillSave
  <2> QED
    BY <2>1, <2>2, <2>3, CacheKept
<1>4. ASSUME NEW p \in Proc, Store(p) \/ Attribute(p) PROVE Kept
  <2>1. /\ WillSave(p) /\ saveMeta(p) /\ UNCHANGED <<req, copy, ret>> /\ pc[p] # "idle"
        /\ \A q \in Proc \ {p} : pc'[q] = pc[q]
    BY <1>0, <1>4 DEF Store, Attribute, goto, WillSave
  <2>2. WillSave(p)' /\ copy'[p] # "proven" => p \in Serve /\ req'[p].hash \notin proven'
    BY <2>1, SavedCache
  <2> QED
    BY <2>1, <2>2, SavedCache, CacheKept
<1>5. ASSUME NEW p \in Proc, Restore(p) PROVE Kept
  <2>1. /\ WillSave(p) /\ saveMeta(p) /\ UNCHANGED ret /\ pc[p] # "idle" /\ pc'[p] = "idle"
        /\ \A q \in Proc \ {p} : pc'[q] = pc[q] /\ req'[q] = req[q] /\ copy'[q] = copy[q]
    BY <1>0, <1>5 DEF Restore, done, goto, WillSave
  <2>2. ~WillSave(p)'
    BY <2>1 DEF WillSave
  <2> QED
    BY <2>1, <2>2, SavedCache, CacheKept
<1>6. ASSUME NEW p \in Proc, Gate(p) PROVE Kept
  <2>1. /\ WillSave(p) /\ UNCHANGED <<proven, req, copy>>
        /\ \A q \in Proc \ {p} : pc'[q] = pc[q] /\ ret'[q] = ret[q]
    BY <1>0, <1>6 DEF Gate, thenLog, goto, WillSave
  <2> QED
    BY <2>1, CacheCarried
<1>7. ASSUME NEW p \in Proc, Enqueue(p) PROVE Kept
  <2>1. /\ WillSave(p) /\ UNCHANGED <<proven, req, copy>>
        /\ \A q \in Proc \ {p} : pc'[q] = pc[q] /\ ret'[q] = ret[q]
    BY <1>0, <1>7 DEF Enqueue, thenLog, goto, WillSave
  <2> QED
    BY <2>1, CacheCarried
<1>8. ASSUME NEW p \in Proc, RepointRead(p) \/ RepointReadError(p) \/ RepointDelete(p) PROVE Kept
  <2>1. /\ WillSave(p) /\ UNCHANGED <<proven, req, copy, ret>>
        /\ \A q \in Proc \ {p} : pc'[q] = pc[q]
    BY <1>0, <1>8 DEF RepointRead, RepointReadError, RepointDelete, goto, WillSave
  <2> QED
    BY <2>1, CacheCarried
<1>9. ASSUME NEW p \in Proc, RepointWrite(p) \/ RepointInsert(p) PROVE Kept
  <2>1. /\ pc[p] \in {"writing", "inserting"} /\ UNCHANGED <<proven, req, copy>>
        /\ afterRepoint(p) \/ UNCHANGED <<pc, ret>>
    BY <1>9 DEF RepointWrite, RepointInsert
  <2>2. WillSave(p) /\ \A q \in Proc \ {p} : pc'[q] = pc[q] /\ ret'[q] = ret[q]
    BY <1>0, <2>1 DEF afterRepoint, goto, WillSave
  <2> QED
    BY <2>1, <2>2, CacheCarried
<1>10. ASSUME NEW p \in Proc, AppendRead(p) \/ AppendReadError(p) PROVE Kept
  <2>1. /\ pc[p] = "log" /\ pc'[p] = "appending" /\ UNCHANGED <<proven, req, copy, ret>>
        /\ \A q \in Proc \ {p} : pc'[q] = pc[q]
    BY <1>0, <1>10 DEF AppendRead, AppendReadError, goto
  <2>2. WillSave(p)' => WillSave(p)
    BY <2>1 DEF WillSave
  <2> QED
    BY <2>1, <2>2, CacheCarried
<1>11. ASSUME NEW p \in Proc, AppendWrite(p) \/ AppendFails(p) PROVE Kept
  <2>1. UNCHANGED proven /\ afterAppend(p) /\ pc[p] \in {"log", "appending"}
    BY <1>11 DEF AppendWrite, AppendFails
  <2>2. /\ \A q \in Proc \ {p} : pc'[q] = pc[q] /\ req'[q] = req[q] /\ copy'[q] = copy[q] /\ ret'[q] = ret[q]
        /\ \/ pc'[p] = "idle"
           \/ pc'[p] = ret[p] /\ UNCHANGED <<req, copy>>
    BY <1>0, <2>1 DEF afterAppend, done, goto
  <2>3. CASE pc'[p] = "idle"
    BY <2>1, <2>2, <2>3, CacheDropped
  <2>4. CASE pc'[p] = ret[p] /\ UNCHANGED <<req, copy>>
    <3>1. WillSave(p)' => WillSave(p)
      BY <1>0, <2>1, <2>4 DEF WillSave, Returns
    <3> QED
      BY <2>1, <2>2, <2>4, <3>1, CacheCarried
  <2> QED
    BY <2>2, <2>3, <2>4
<1>12. ASSUME NEW p \in Proc, Claim(p) PROVE Kept
  <2>1. /\ UNCHANGED <<proven, copy, ret>> /\ pc'[p] \in {"claim", "reclaim"}
        /\ \A q \in Proc \ {p} : pc'[q] = pc[q] /\ req'[q] = req[q]
    BY <1>0, <1>12 DEF Claim, goto
  <2> QED
    BY <2>1, CacheDropped
<1>13. ASSUME NEW p \in Proc, ClaimRename(p) \/ ClaimTouch(p) \/ Complete(p) \/ ProveError(p) PROVE Kept
  <2>1. /\ UNCHANGED <<proven, ret>> /\ pc'[p] \in {"prove", "idle", "complete"}
        /\ \A q \in Proc \ {p} : pc'[q] = pc[q] /\ req'[q] = req[q] /\ copy'[q] = copy[q]
    BY <1>0, <1>13 DEF ClaimRename, ClaimTouch, Complete, ProveError, done, goto
  <2>2. ~WillSave(p)'
    BY <2>1 DEF WillSave
  <2> QED
    BY <2>1, <2>2, CacheKept
<1>14. ASSUME NEW p \in Proc, Prove(p) PROVE Kept
  <2>1. /\ UNCHANGED req /\ pc[p] = "prove" /\ pc'[p] = "log" /\ ret'[p] = "bind"
        /\ proven \subseteq proven' /\ proven' \subseteq proven \union {req[p].hash}
        /\ \A q \in Proc \ {p} : pc'[q] = pc[q] /\ copy'[q] = copy[q] /\ ret'[q] = ret[q]
    BY <1>0, <1>14 DEF Prove, thenLog, goto
  <2>2. ~WillSave(p)'
    BY <2>1 DEF WillSave
  <2> QED
    BY <2>1, <2>2, CacheKept
<1>15. ASSUME NEW p \in Proc, Bind(p) PROVE Kept
  <2>1. /\ UNCHANGED <<proven, req, copy>>
        /\ \A q \in Proc \ {p} : pc'[q] = pc[q] /\ ret'[q] = ret[q]
        /\ \/ pc'[p] = "complete"
           \/ pc'[p] = "log" /\ ret'[p] = "complete"
           \/ copy[p] = "proven"
    BY <1>0, <1>15 DEF Bind, thenLog, goto
  <2>2. WillSave(p)' => copy[p] = "proven"
    BY <2>1 DEF WillSave
  <2> QED
    BY <2>1, <2>2, CacheCarried
<1>16. ASSUME NEW p \in Proc, Crash(p) PROVE Kept
  <2>1. /\ UNCHANGED proven /\ pc'[p] = "idle"
        /\ \A q \in Proc \ {p} : pc'[q] = pc[q] /\ req'[q] = req[q] /\ copy'[q] = copy[q] /\ ret'[q] = ret[q]
    BY <1>0, <1>16 DEF Crash, done, goto
  <2> QED
    BY <2>1, CacheDropped
<1>17. ASSUME NEW p \in Proc, NEW r, NEW l \in {"admit", "precheck"}, Accept(p, r, l) PROVE Kept
  <2>1. /\ UNCHANGED <<proven, copy, ret>> /\ pc'[p] = l
        /\ \A q \in Proc \ {p} : pc'[q] = pc[q] /\ req'[q] = req[q]
    BY <1>0, <1>17 DEF Accept, goto
  <2> QED
    BY <2>1, CacheDropped
<1>18. CASE \/ \E n \in Name, h \in Hash : Sign(n, h)
            \/ \E h \in Hash : LeaseExpires(h)
            \/ UNCHANGED vars
  BY <1>1, <1>18 DEF Sign, LeaseExpires, vars, locals
<1>19. ASSUME NEW p \in Serve, ServeStep(p) PROVE Kept
  BY <1>2, <1>3, <1>4, <1>5, <1>6, <1>7, <1>8, <1>9, <1>10, <1>11, <1>19 DEF ServeStep, Section, Proc
<1>20. ASSUME NEW w \in Worker, WorkerStep(w) PROVE Kept
  BY <1>4, <1>8, <1>9, <1>10, <1>11, <1>12, <1>13, <1>14, <1>15, <1>20 DEF WorkerStep, Section, Proc
<1>21. ASSUME NEW p \in Proc, FaultStep(p) PROVE Kept
  BY <1>8, <1>10, <1>11, <1>16, <1>21 DEF FaultStep
<1> QED
  BY <1>13, <1>17, <1>18, <1>19, <1>20, <1>21 DEF Next, put, putObject, Proc

(***************************************************************************)
(* No step takes a recorded proof back, although a put writes back metadata *)
(* it read before storing, gating and repointing, as long as nobody else    *)
(* works on the same definition meanwhile: on either backend, with or       *)
(* without the lock, and whatever fails.                                    *)
(***************************************************************************)
THEOREM RecordedProofsStay == Spec /\ []DisjointHashes => ProofSurvives
<1>1. Init => CacheInv
  BY DEF Init, CacheInv, WillSave
<1>2. TypeInv /\ CacheInv /\ DisjointHashes /\ [Next]_vars => (TypeInv /\ CacheInv)' /\ [proven \subseteq proven']_vars
  BY NextTypeInv, NextCacheInv
<1> QED
  BY <1>1, <1>2, InitTypeInv, PTL DEF Spec, ProofSurvives


-----------------------------------------------------------------------------
(* The fold over the journal. *)

\* One line of nameTransitions' fold, from what n was bound to before it.
FoldStep(lines, n, i, bound) ==
    IF lines[i].body.name = n /\ deriveTransition(lines[i].body, bound) = "applied"
    THEN lines[i].body.hash ELSE bound

Folds(lines, n, m, f) ==
    f = [i \in 0 .. m |-> IF i = 0 THEN None ELSE FoldStep(lines, n, i, f[i - 1])]

LEMMA FoldExists ==
    ASSUME NEW lines, NEW n, NEW m \in Nat
    PROVE  \E f : Folds(lines, n, m, f)
<1> DEFINE S == {k \in Nat : \E f : Folds(lines, n, k, f)}
<1>1. 0 \in S
  <2> DEFINE f == [i \in 0 .. 0 |-> None]
  <2>1. f = [i \in 0 .. 0 |-> IF i = 0 THEN None ELSE FoldStep(lines, n, i, f[i - 1])]
    OBVIOUS
  <2>2. Folds(lines, n, 0, f)
    BY <2>1 DEF Folds
  <2> QED
    BY <2>2
<1>2. ASSUME NEW k \in S
      PROVE  k + 1 \in S
  <2>1. PICK f : Folds(lines, n, k, f)
    OBVIOUS
  <2> DEFINE g == [i \in 0 .. k + 1 |-> IF i = k + 1 THEN FoldStep(lines, n, i, f[k]) ELSE f[i]]
  <2>2. k \in Nat
    OBVIOUS
  <2>3. \A i \in 0 .. k : f[i] = IF i = 0 THEN None ELSE FoldStep(lines, n, i, f[i - 1])
    BY <2>1, <2>2 DEF Folds
  <2>4. \A i \in 0 .. k : g[i] = f[i]
    BY <2>2
  <2>5. ASSUME NEW i \in 0 .. k + 1
        PROVE  g[i] = IF i = 0 THEN None ELSE FoldStep(lines, n, i, g[i - 1])
    <3>1. CASE i = k + 1
      BY <2>2, <2>4, <3>1
    <3>2. CASE i \in 0 .. k
      <4>1. i # 0 => i - 1 \in 0 .. k
        BY <2>2, <3>2
      <4> HIDE DEF g
      <4> QED
        BY <2>3, <2>4, <3>2, <4>1
    <3> QED
      BY <2>2, <3>1, <3>2
  <2>6. g = [i \in 0 .. k + 1 |-> g[i]]
    OBVIOUS
  <2>7. g = [i \in 0 .. k + 1 |-> IF i = 0 THEN None ELSE FoldStep(lines, n, i, g[i - 1])]
    <3> HIDE DEF g
    <3> QED
      BY <2>5, <2>6
  <2>8. Folds(lines, n, k + 1, g)
    <3> HIDE DEF g
    <3> QED
      BY <2>7 DEF Folds
  <2> QED
    BY <2>2, <2>8
<1>3. S = Nat
  <2> HIDE DEF S
  <2>1. S \in SUBSET Nat
    BY DEF S
  <2> QED
    BY <1>1, <1>2, <2>1, SetInduction
<1> QED
  BY <1>3

LEMMA boundAfterFolds ==
    ASSUME NEW lines, NEW n, Len(lines) \in Nat
    PROVE  Folds(lines, n, Len(lines), boundAfter(lines, n))
<1>1. PICK f : Folds(lines, n, Len(lines), f)
  BY FoldExists
<1> QED
  BY <1>1, Zenon DEF Folds, FoldStep, boundAfter

\* What a name is bound to after each line follows from the lines up to it.
LEMMA FoldDetermined ==
    ASSUME NEW l1, NEW l2, NEW n, NEW m \in Nat, NEW k \in Nat, m <= k, NEW f, NEW g,
           Folds(l1, n, m, f), Folds(l2, n, k, g),
           \A i \in 1 .. m : l1[i] = l2[i]
    PROVE  \A i \in 0 .. m : f[i] = g[i]
<1> DEFINE S == {i \in Nat : i <= m => f[i] = g[i]}
<1>1. \A i \in 0 .. m : f[i] = IF i = 0 THEN None ELSE FoldStep(l1, n, i, f[i - 1])
  BY DEF Folds
<1>2. \A i \in 0 .. k : g[i] = IF i = 0 THEN None ELSE FoldStep(l2, n, i, g[i - 1])
  BY DEF Folds
<1>3. 0 \in S
  BY <1>1, <1>2
<1>4. ASSUME NEW i \in S
      PROVE  i + 1 \in S
  <2>1. SUFFICES ASSUME i + 1 <= m PROVE f[i + 1] = g[i + 1]
    OBVIOUS
  <2>2. f[i + 1] = FoldStep(l1, n, i + 1, f[i]) /\ g[i + 1] = FoldStep(l2, n, i + 1, g[i])
    BY <1>1, <1>2, <2>1
  <2>3. f[i] = g[i] /\ l1[i + 1] = l2[i + 1]
    BY <2>1
  <2> QED
    BY <2>2, <2>3 DEF FoldStep
<1>5. S = Nat
  <2> HIDE DEF S
  <2>1. S \in SUBSET Nat
    BY DEF S
  <2> QED
    BY <1>3, <1>4, <2>1, SetInduction
<1> QED
  BY <1>5

\* What a reader of the journal takes n to be bound to, and how often it moved.
LastBound(lines, n) == boundAfter(lines, n)[Len(lines)]
Count(lines, n) == Cardinality(AppliedTo(lines, n))

\* Does this line, after those lines, move n?
MovesName(lines, l, n) == l.body.name = n /\ deriveTransition(l.body, LastBound(lines, n)) = "applied"

LEMMA LinesAppended ==
    ASSUME NEW S, NEW lines \in Seq(S), NEW l \in S
    PROVE  /\ Len(lines) \in Nat
           /\ Len(Append(lines, l)) = Len(lines) + 1
           /\ \A i \in 1 .. Len(lines) : Append(lines, l)[i] = lines[i]
           /\ Append(lines, l)[Len(lines) + 1] = l
OBVIOUS

LEMMA BeforeOrLast ==
    ASSUME NEW L \in Nat, NEW i \in 1 .. L + 1
    PROVE  i \in 1 .. L \/ i = L + 1
OBVIOUS

LEMMA BoundAppended ==
    ASSUME NEW lines \in Seq(Line), NEW l \in Line, NEW n
    PROVE  /\ \A i \in 0 .. Len(lines) : boundAfter(Append(lines, l), n)[i] = boundAfter(lines, n)[i]
           /\ LastBound(Append(lines, l), n) = IF MovesName(lines, l, n) THEN l.body.hash
                                               ELSE LastBound(lines, n)
<1> DEFINE more == Append(lines, l)
           L == Len(lines)
<1>1. /\ L \in Nat /\ Len(more) = L + 1
      /\ \A i \in 1 .. L : more[i] = lines[i]
      /\ more[L + 1] = l
  BY LinesAppended
<1> HIDE DEF more, L
<1>2. Folds(lines, n, L, boundAfter(lines, n)) /\ Folds(more, n, L + 1, boundAfter(more, n))
  <2>1. Len(lines) \in Nat /\ Len(more) \in Nat
    BY <1>1 DEF L
  <2> QED
    BY <1>1, <2>1, boundAfterFolds DEF L
<1>3. \A i \in 0 .. L : boundAfter(lines, n)[i] = boundAfter(more, n)[i]
  <2>1. L + 1 \in Nat /\ L <= L + 1 /\ \A i \in 1 .. L : lines[i] = more[i]
    BY <1>1
  <2> QED
    BY <1>1, <1>2, <2>1, FoldDetermined
<1>4. boundAfter(more, n)[L + 1] = FoldStep(more, n, L + 1, boundAfter(more, n)[L])
  BY <1>1, <1>2 DEF Folds
<1>5. boundAfter(more, n)[L] = LastBound(lines, n)
  BY <1>1, <1>3 DEF LastBound, L
<1>6. LastBound(more, n) = boundAfter(more, n)[L + 1]
  BY <1>1 DEF LastBound
<1> QED
  BY <1>1, <1>3, <1>4, <1>5, <1>6 DEF FoldStep, MovesName, more, L

LEMMA DerivedAppended ==
    ASSUME NEW lines \in Seq(Line), NEW l \in Line
    PROVE  /\ \A i \in 1 .. Len(lines) :
                 derivedTransitionsByIndex(Append(lines, l))[i] = derivedTransitionsByIndex(lines)[i]
           /\ derivedTransitionsByIndex(Append(lines, l))[Len(lines) + 1]
                = deriveTransition(l.body, LastBound(lines, l.body.name))
<1> DEFINE more == Append(lines, l)
           L == Len(lines)
<1>1. /\ L \in Nat /\ Len(more) = L + 1
      /\ \A i \in 1 .. L : more[i] = lines[i]
      /\ more[L + 1] = l
  BY LinesAppended
<1>2. \A n : \A i \in 0 .. L : boundAfter(more, n)[i] = boundAfter(lines, n)[i]
  BY BoundAppended
<1> HIDE DEF more, L
<1>3. ASSUME NEW i \in 1 .. L
      PROVE  derivedTransitionsByIndex(more)[i] = derivedTransitionsByIndex(lines)[i]
  <2>1. i \in 1 .. Len(more) /\ i \in 1 .. Len(lines) /\ i - 1 \in 0 .. L
    BY <1>1 DEF L
  <2>2. derivedTransitionsByIndex(more)[i]
          = deriveTransition(lines[i].body, boundAfter(more, lines[i].body.name)[i - 1])
    BY <1>1, <2>1 DEF derivedTransitionsByIndex
  <2>3. derivedTransitionsByIndex(lines)[i]
          = deriveTransition(lines[i].body, boundAfter(lines, lines[i].body.name)[i - 1])
    BY <2>1 DEF derivedTransitionsByIndex
  <2> QED
    BY <1>2, <2>1, <2>2, <2>3
<1>4. derivedTransitionsByIndex(more)[L + 1] = deriveTransition(l.body, LastBound(lines, l.body.name))
  <2>1. L + 1 \in 1 .. Len(more) /\ L + 1 - 1 = L /\ L \in 0 .. L
    BY <1>1
  <2>2. derivedTransitionsByIndex(more)[L + 1]
          = deriveTransition(l.body, boundAfter(more, l.body.name)[L])
    BY <1>1, <2>1 DEF derivedTransitionsByIndex
  <2> QED
    BY <1>2, <2>1, <2>2 DEF LastBound, L
<1> QED
  BY <1>3, <1>4 DEF more, L

LEMMA AppliedFinite ==
    ASSUME NEW lines \in Seq(Line), NEW n
    PROVE  /\ IsFiniteSet(AppliedTo(lines, n)) /\ Count(lines, n) \in Nat
           /\ Count(lines, n) = 0 <=> AppliedTo(lines, n) = {}
<1>1. IsFiniteSet(1 .. Len(lines))
  BY FS_Interval
<1>2. AppliedTo(lines, n) \in SUBSET (1 .. Len(lines))
  BY DEF AppliedTo
<1>3. IsFiniteSet(AppliedTo(lines, n))
  BY <1>1, <1>2, FS_Subset
<1> QED
  BY <1>3, FS_CardinalityType, FS_EmptySet DEF Count

LEMMA CountAppended ==
    ASSUME NEW lines \in Seq(Line), NEW l \in Line, NEW n
    PROVE  /\ AppliedTo(Append(lines, l), n)
                = AppliedTo(lines, n) \cup (IF MovesName(lines, l, n) THEN {Len(lines) + 1} ELSE {})
           /\ Count(Append(lines, l), n)
                = IF MovesName(lines, l, n) THEN Count(lines, n) + 1 ELSE Count(lines, n)
<1> DEFINE more == Append(lines, l)
           L == Len(lines)
<1>1. /\ L \in Nat /\ Len(more) = L + 1
      /\ \A i \in 1 .. L : more[i] = lines[i]
      /\ more[L + 1] = l
  BY LinesAppended
<1>2. /\ \A i \in 1 .. L : derivedTransitionsByIndex(more)[i] = derivedTransitionsByIndex(lines)[i]
      /\ derivedTransitionsByIndex(more)[L + 1] = deriveTransition(l.body, LastBound(lines, l.body.name))
  BY DerivedAppended
<1> HIDE DEF more
<1>3. AppliedTo(more, n) = AppliedTo(lines, n) \cup (IF MovesName(lines, l, n) THEN {L + 1} ELSE {})
  <2>1. \A i : i \in AppliedTo(more, n) <=>
            i \in 1 .. L + 1 /\ more[i].body.name = n /\ derivedTransitionsByIndex(more)[i] = "applied"
    BY <1>1 DEF AppliedTo
  <2>2. \A i : i \in AppliedTo(lines, n) <=>
            i \in 1 .. L /\ lines[i].body.name = n /\ derivedTransitionsByIndex(lines)[i] = "applied"
    BY DEF AppliedTo
  <2>3. L + 1 \in AppliedTo(more, n) <=> MovesName(lines, l, n)
    BY <1>1, <1>2, <2>1 DEF MovesName
  <2>4. \A i : i \in 1 .. L + 1 <=> i \in 1 .. L \/ i = L + 1
    BY <1>1
  <2>5. \A i \in 1 .. L : i \in AppliedTo(more, n) <=> i \in AppliedTo(lines, n)
    BY <1>1, <1>2, <2>1, <2>2, <2>4
  <2> HIDE DEF L
  <2> QED
    BY <2>1, <2>2, <2>3, <2>4, <2>5
<1>4. L + 1 \notin AppliedTo(lines, n)
  BY <1>1 DEF AppliedTo
<1>5. Cardinality(AppliedTo(lines, n) \cup {L + 1}) = Cardinality(AppliedTo(lines, n)) + 1
  BY <1>4, AppliedFinite, FS_AddElement
<1> QED
  BY <1>3, <1>5 DEF Count, more

-----------------------------------------------------------------------------
(* The inductive invariant, for a history without faults on the filesystem store. *)

Logging == {"attribute", "log", "appending"}

Binding(e) == e.kind # "prove" /\ e.status \in BindingStatus

\* A running handler: its statement names its request; from the check of the statement to
\* the write, the statement's parent and revision are those of the name; an entry on its way
\* to the journal records the move from what the journal last bound, or binds nothing.
HandlerInv(p) ==
    LET n == req[p].name
        e == req[p].env
    IN  /\ pc[p] # "inserting"
        /\ p \in Worker => e = None
        /\ e # None => e.name = n /\ e.artifact = req[p].hash
        /\ pc[p] \in {"repoint", "writing"} /\ e # None =>
              e.parent = names[n] /\ e.rev = Count(journal, n)
        /\ pc[p] \in Logging /\ Binding(entry[p]) =>
              /\ entry[p] = boundEntry(p, LastBound(journal, n))
              /\ names[n] = req[p].hash
              /\ e # None => e.parent = LastBound(journal, n)
        /\ pc[p] \in Logging /\ ~Binding(entry[p]) => entry[p].stated \in {"", "none"}

\* A name no handler is publishing is bound to what the journal says.
IndexFollows == \A n \in Name : Settled(n) => names[n] = LastBound(journal, n)

\* What the journal binds a name to, one of its lines published.
JournalExplains ==
    \A n \in Name :
        /\ LastBound(journal, n) = None => AppliedTo(journal, n) = {}
        /\ LastBound(journal, n) # None => AppliedTo(journal, n) # {} /\ Published(n, LastBound(journal, n))

\* The revision of a statement that moved its name is below the name's, or will be when the
\* handler that moved it has journalled it.
StatementsSpent ==
    \A i \in 1 .. Len(moves) :
        LET e == moves[i].env
            n == moves[i].name
        IN  e # None =>
              /\ e.name = n
              /\ \/ e.rev < Count(journal, n)
                 \/ /\ e.rev <= Count(journal, n)
                    /\ \E p \in Proc : Unlogged(p, n) /\ req[p].hash # LastBound(journal, n)

HistoryInv ==
    /\ \A p \in Proc : HandlerInv(p)
    /\ IndexFollows
    /\ JournalExplains
    /\ TransitionsVerify(journal)
    /\ AuthorsVerify(journal)
    /\ StatementsSpent
    /\ NoReplay

LEMMA InitHistoryInv == Init => HistoryInv
<1> SUFFICES ASSUME Init PROVE HistoryInv
  OBVIOUS
<1>1. journal = <<>> /\ moves = <<>> /\ Len(journal) = 0 /\ Len(moves) = 0 /\ names = Empty
  BY DEF Init
<1>2. \A n : LastBound(journal, n) = None /\ AppliedTo(journal, n) = {}
  <2>1. ASSUME NEW n PROVE LastBound(journal, n) = None
    <3>1. Folds(journal, n, 0, boundAfter(journal, n))
      BY <1>1, boundAfterFolds
    <3> QED
      BY <1>1, <3>1 DEF Folds, LastBound
  <2>2. ASSUME NEW n PROVE AppliedTo(journal, n) = {}
    BY <1>1 DEF AppliedTo
  <2> QED
    BY <2>1, <2>2
<1>3. \A p \in Proc : HandlerInv(p)
  BY DEF Init, HandlerInv, NoReq, Logging
<1>4. IndexFollows /\ JournalExplains
  BY <1>1, <1>2 DEF IndexFollows, JournalExplains, Empty
<1>5. TransitionsVerify(journal) /\ AuthorsVerify(journal)
  BY <1>1 DEF TransitionsVerify, AuthorsVerify
<1>6. StatementsSpent /\ NoReplay
  BY <1>1 DEF StatementsSpent, NoReplay
<1> QED
  BY <1>3, <1>4, <1>5, <1>6 DEF HistoryInv

-----------------------------------------------------------------------------
(* Steps that move no name and append nothing. *)

LEMMA ElementTyped ==
    ASSUME NEW S, NEW s \in Seq(S), NEW i \in 1 .. Len(s)
    PROVE  s[i] \in S
OBVIOUS

LEMMA MoveTyped ==
    ASSUME TypeInv, NEW i \in 1 .. Len(moves)
    PROVE  moves[i].name \in Name /\ moves[i].env \in Envelope \union {None}
<1>1. moves[i] \in [name : Name, to : Hash, env : Envelope \union {None}]
  BY ElementTyped DEF TypeInv, TypeOK
<1> QED
  BY <1>1

LEMMA QuietStep ==
    ASSUME TypeInv, HistoryInv, NEW p \in Proc, UNCHANGED <<names, journal, moves>>,
           \A q \in Proc \ {p} : pc'[q] = pc[q] /\ req'[q] = req[q] /\ entry'[q] = entry[q],
           HandlerInv(p)',
           \A n \in Name : Unlogged(p, n)' <=> Unlogged(p, n),
           \A n \in Name : Unlogged(p, n) => req'[p].hash = req[p].hash
    PROVE  HistoryInv'
<1>1. \A q \in Proc, n \in Name : Unlogged(q, n)' <=> Unlogged(q, n)
  BY DEF Unlogged
<1>2. \A q \in Proc, n \in Name : Unlogged(q, n) => req'[q].hash = req[q].hash
  OBVIOUS
<1>3. \A q \in Proc : HandlerInv(q)'
  <2>1. SUFFICES ASSUME NEW q \in Proc \ {p} PROVE HandlerInv(q)'
    OBVIOUS
  <2>2. HandlerInv(q)
    BY DEF HistoryInv
  <2>3. \A b : boundEntry(q, b)' = boundEntry(q, b)
    BY DEF boundEntry
  <2> QED
    BY <2>2, <2>3 DEF HandlerInv
<1>4. IndexFollows'
  BY <1>1 DEF HistoryInv, IndexFollows, Settled
<1>5. JournalExplains' /\ TransitionsVerify(journal)' /\ AuthorsVerify(journal)' /\ NoReplay'
  BY DEF HistoryInv, JournalExplains, Published, NoReplay
<1>6. StatementsSpent'
  <2>1. \A i \in 1 .. Len(moves) : moves[i].name \in Name
    BY MoveTyped
  <2>2. SUFFICES ASSUME NEW i \in 1 .. Len(moves), moves[i].env # None
                 PROVE  LET e == moves[i].env
                            n == moves[i].name
                        IN  /\ e.name = n
                            /\ \/ e.rev < Count(journal, n)
                               \/ /\ e.rev <= Count(journal, n)
                                  /\ \E q \in Proc : Unlogged(q, n)' /\ req'[q].hash # LastBound(journal, n)
    BY DEF StatementsSpent
  <2>3. LET e == moves[i].env
            n == moves[i].name
        IN  /\ e.name = n
            /\ \/ e.rev < Count(journal, n)
               \/ /\ e.rev <= Count(journal, n)
                  /\ \E q \in Proc : Unlogged(q, n) /\ req[q].hash # LastBound(journal, n)
    BY <2>2 DEF HistoryInv, StatementsSpent
  <2> QED
    BY <1>1, <1>2, <2>1, <2>2, <2>3
<1> QED
  BY <1>3, <1>4, <1>5, <1>6 DEF HistoryInv

\* The ways a handler goes on outside its critical sections.
LEMMA GoesOn ==
    ASSUME TypeInv, HistoryInv, NEW p \in Proc, UNCHANGED <<names, journal, moves, req, entry>>,
           pc[p] \notin Logging,
           NEW l \in Location \ (Logging \cup {"repoint", "writing", "inserting"}), goto(p, l)
    PROVE  HistoryInv'
<1>1. pc'[p] = l /\ \A q \in Proc \ {p} : pc'[q] = pc[q]
  BY DEF goto, TypeInv, TypeOK
<1>2. pc[p] # "inserting"
  BY DEF HistoryInv, HandlerInv
<1>3. HandlerInv(p)'
  BY <1>1 DEF HistoryInv, HandlerInv
<1>4. \A n : ~Unlogged(p, n) /\ ~Unlogged(p, n)'
  BY <1>1, <1>2 DEF Unlogged, Logging
<1> QED
  BY <1>1, <1>3, <1>4, QuietStep

LEMMA HandlerReturns ==
    ASSUME TypeInv, HistoryInv, NEW p \in Proc, UNCHANGED <<names, journal, moves, entry>>,
           pc[p] \notin Logging, done(p)
    PROVE  HistoryInv'
<1>1. /\ pc'[p] = "idle" /\ req'[p] = NoReq
      /\ \A q \in Proc \ {p} : pc'[q] = pc[q] /\ req'[q] = req[q]
  BY DEF done, goto, TypeInv, TypeOK
<1>2. pc[p] # "inserting"
  BY DEF HistoryInv, HandlerInv
<1>3. HandlerInv(p)'
  BY <1>1 DEF HandlerInv, NoReq, Logging
<1>4. \A n : ~Unlogged(p, n) /\ ~Unlogged(p, n)'
  BY <1>1, <1>2 DEF Unlogged, Logging
<1> QED
  BY <1>1, <1>3, <1>4, QuietStep

LEMMA LogsNoBind ==
    ASSUME TypeInv, HistoryInv, NEW p \in Proc, UNCHANGED <<names, journal, moves, req>>,
           pc[p] \notin Logging, NEW e, NEW l, thenLog(p, e, l),
           ~Binding(e), e.stated \in {"", "none"}
    PROVE  HistoryInv'
<1>1. /\ pc'[p] = "log" /\ entry'[p] = e
      /\ \A q \in Proc \ {p} : pc'[q] = pc[q] /\ entry'[q] = entry[q]
  BY DEF thenLog, goto, TypeInv, TypeOK
<1>2. pc[p] # "inserting"
  BY DEF HistoryInv, HandlerInv
<1>3. HandlerInv(p)'
  BY <1>1 DEF HistoryInv, HandlerInv, Logging
<1>4. \A n : ~Unlogged(p, n) /\ ~Unlogged(p, n)'
  BY <1>1, <1>2 DEF Unlogged, Logging, Binding
<1> QED
  BY <1>1, <1>3, <1>4, QuietStep

\* Attribute and AppendRead: an entry stays on its way.
LEMMA StaysOnItsWay ==
    ASSUME TypeInv, HistoryInv, NEW p \in Proc, UNCHANGED <<names, journal, moves, req, entry>>,
           pc[p] \in Logging, NEW l \in Logging, goto(p, l)
    PROVE  HistoryInv'
<1>1. pc'[p] = l /\ \A q \in Proc \ {p} : pc'[q] = pc[q]
  BY DEF goto, TypeInv, TypeOK
<1>2. HandlerInv(p)'
  BY <1>1 DEF HistoryInv, HandlerInv, boundEntry, Logging
<1>3. \A n : Unlogged(p, n)' <=> Unlogged(p, n)
  BY <1>1 DEF Unlogged, Logging
<1> QED
  BY <1>1, <1>2, <1>3, QuietStep

\* While p works on its name, nobody else is about to journal a move of it.
LEMMA OwnNameSettled ==
    ASSUME TypeInv, HistoryInv, DisjointNames, NEW p \in Proc,
           pc[p] \notin Logging, pc[p] # "idle"
    PROVE  /\ req[p].name \in Name
           /\ \A q \in Proc : ~Unlogged(q, req[p].name)
           /\ names[req[p].name] = LastBound(journal, req[p].name)
<1>1. req[p].name \in Name
  BY DEF TypeInv, LocalsOK, Request
<1>2. ASSUME NEW q \in Proc, Unlogged(q, req[p].name) PROVE FALSE
  <2>1. pc[q] # "idle" /\ req[q].name = req[p].name
    BY <1>2 DEF Unlogged
  <2>2. q = p
    BY <2>1 DEF DisjointNames
  <2>3. pc[p] # "inserting"
    BY DEF HistoryInv, HandlerInv
  <2> QED
    BY <1>2, <2>2, <2>3 DEF Unlogged, Logging
<1> QED
  BY <1>1, <1>2 DEF HistoryInv, IndexFollows, Settled

\* The head a statement is checked against is what the index and the journal say.
LEMMA HeadIsCurrent ==
    ASSUME TypeInv, HistoryInv, NEW n \in Name, names[n] = LastBound(journal, n)
    PROVE  nameRevision(journal, names, n) = [parent |-> names[n], rev |-> Count(journal, n)]
<1>1. journal \in Seq(Line)
  BY DEF TypeInv, TypeOK
<1>2. Count(journal, n) = 0 <=> AppliedTo(journal, n) = {}
  BY <1>1, AppliedFinite
<1>3. names[n] = None <=> Count(journal, n) = 0
  BY <1>2 DEF HistoryInv, JournalExplains
<1>4. CASE names[n] = None
  BY <1>3, <1>4 DEF nameRevision
<1>5. CASE names[n] # None
  <2>1. Cardinality(AppliedTo(journal, n)) # 0
    BY <1>3, <1>5 DEF Count
  <2> QED
    BY <1>5, <2>1 DEF nameRevision, Count
<1> QED
  BY <1>4, <1>5

\* A handler that may repoint: its statement, if it has one, is about the head.
LEMMA GoesToRepoint ==
    ASSUME TypeInv, HistoryInv, DisjointNames, NEW p \in Proc,
           UNCHANGED <<names, journal, moves, req, entry>>,
           pc[p] \notin Logging, pc[p] # "idle",
           p \in Worker \/ StatementHolds(req[p]), goto(p, "repoint")
    PROVE  HistoryInv'
<1> DEFINE n == req[p].name
           e == req[p].env
<1>1. pc'[p] = "repoint" /\ \A q \in Proc \ {p} : pc'[q] = pc[q]
  BY DEF goto, TypeInv, TypeOK
<1>2. pc[p] # "inserting"
  BY DEF HistoryInv, HandlerInv
<1>3. n \in Name /\ names[n] = LastBound(journal, n)
  BY OwnNameSettled
<1>4. nameRevision(journal, names, n) = [parent |-> names[n], rev |-> Count(journal, n)]
  BY <1>3, HeadIsCurrent
<1>5. e # None => e.parent = names[n] /\ e.rev = Count(journal, n)
  <2>1. CASE p \in Worker
    BY <2>1 DEF HistoryInv, HandlerInv
  <2>2. CASE StatementHolds(req[p])
    BY <2>2, <1>4 DEF StatementHolds, checkPublication
  <2> QED
    BY <2>1, <2>2
<1>6. HandlerInv(p)'
  BY <1>1, <1>5 DEF HistoryInv, HandlerInv, Logging
<1>7. \A m : ~Unlogged(p, m) /\ ~Unlogged(p, m)'
  BY <1>1, <1>2 DEF Unlogged, Logging
<1> QED
  BY <1>1, <1>6, <1>7, QuietStep

LEMMA ReadsIndex ==
    ASSUME TypeInv, HistoryInv, NEW p \in Proc, RepointRead(p)
    PROVE  HistoryInv'
<1>1. /\ pc[p] = "repoint" /\ UNCHANGED <<names, journal, moves, req, entry>>
      /\ pc'[p] = "writing" /\ \A q \in Proc \ {p} : pc'[q] = pc[q]
  BY DEF RepointRead, goto, ghostVars, TypeInv, TypeOK
<1>2. HandlerInv(p)'
  BY <1>1 DEF HistoryInv, HandlerInv, Logging
<1>3. \A n : ~Unlogged(p, n) /\ ~Unlogged(p, n)'
  BY <1>1 DEF Unlogged
<1> QED
  BY <1>1, <1>2, <1>3, QuietStep

LEMMA HandlerStarts ==
    ASSUME TypeInv, HistoryInv, NEW p \in Proc, UNCHANGED <<names, journal, moves, entry>>,
           pc[p] = "idle", NEW r, req' = [req EXCEPT ![p] = r],
           p \in Worker => r.env = None,
           r.env # None => r.env.name = r.name /\ r.env.artifact = r.hash,
           NEW l \in {"admit", "precheck", "claim", "reclaim"}, goto(p, l)
    PROVE  HistoryInv'
<1>1. /\ pc'[p] = l /\ req'[p] = r
      /\ \A q \in Proc \ {p} : pc'[q] = pc[q] /\ req'[q] = req[q]
  BY DEF goto, TypeInv, TypeOK
<1>2. HandlerInv(p)'
  BY <1>1 DEF HandlerInv, Logging
<1>3. \A n : ~Unlogged(p, n) /\ ~Unlogged(p, n)'
  BY <1>1 DEF Unlogged
<1> QED
  BY <1>1, <1>2, <1>3, QuietStep

LEMMA OutsideKeepsHistory ==
    ASSUME TypeInv, HistoryInv, DisjointNames, NEW p \in Proc,
           \/ PreCheck(p) \/ Admit(p) \/ Store(p) \/ Gate(p) \/ Enqueue(p) \/ Restore(p)
           \/ p \in Worker /\ (Claim(p) \/ Bind(p))
           \/ ClaimRename(p) \/ ClaimTouch(p) \/ Prove(p) \/ Complete(p)
    PROVE  HistoryInv'
<1> USE DEF Location, Logging, storeVars, ghostVars
<1>20. \A k, h, t : /\ ~Binding(NoBind(req[p], k, h, "rejected", t))
                    /\ ~Binding(NoBind(req[p], k, h, "blocked", t))
                    /\ ~Binding(NoBind(req[p], k, h, "pending", t))
                    /\ ~Binding(NoBind(req[p], "prove", h, "accepted", t))
  BY DEF Binding, NoBind, BindingStatus
<1>21. \A k, h, s : /\ NoBind(req[p], k, h, s, "").stated = ""
                    /\ NoBind(req[p], k, h, s, "none").stated = "none"
  BY DEF NoBind
<1>1. CASE PreCheck(p)
  <2>1. pc[p] \notin Logging /\ UNCHANGED <<names, journal, moves, req>>
    BY <1>1 DEF PreCheck
  <2>2. \/ goto(p, "admit") /\ UNCHANGED entry
        \/ \E t : thenLog(p, NoBind(req[p], Kind(req[p].hash), req[p].hash, "rejected", "none"), t)
    BY <1>1 DEF PreCheck
  <2> QED
    BY <2>1, <2>2, <1>20, <1>21, GoesOn, LogsNoBind
<1>2. CASE Admit(p)
  <2>1. pc[p] \notin Logging /\ UNCHANGED <<names, journal, moves, req>>
    BY <1>2 DEF Admit
  <2>2. \/ goto(p, "store") /\ UNCHANGED entry
        \/ \E t : thenLog(p, NoBind(req[p], Kind(req[p].hash), None, "rejected", ""), t)
    BY <1>2 DEF Admit
  <2> QED
    BY <2>1, <2>2, <1>20, <1>21, GoesOn, LogsNoBind
<1>3. CASE Store(p)
  BY <1>3, GoesOn DEF Store
<1>4. CASE Gate(p)
  <2>1. pc[p] \notin Logging /\ pc[p] # "idle" /\ UNCHANGED <<names, journal, moves, req>>
    BY <1>4 DEF Gate
  <2>2. \/ goto(p, "enqueue") /\ UNCHANGED entry
        \/ StatementHolds(req[p]) /\ goto(p, "repoint") /\ UNCHANGED entry
        \/ \E t : thenLog(p, NoBind(req[p], Kind(req[p].hash), req[p].hash, "rejected", "none"), t)
        \/ \E t : thenLog(p, NoBind(req[p], Kind(req[p].hash), req[p].hash, "blocked", ""), t)
    BY <1>4 DEF Gate
  <2>3. CASE goto(p, "enqueue") /\ UNCHANGED entry
    BY <2>1, <2>3, GoesOn
  <2>4. CASE StatementHolds(req[p]) /\ goto(p, "repoint") /\ UNCHANGED entry
    BY <2>1, <2>4, GoesToRepoint
  <2> QED
    BY <2>1, <2>2, <2>3, <2>4, <1>20, <1>21, LogsNoBind
<1>5. CASE Enqueue(p)
  <2>1. pc[p] \notin Logging /\ UNCHANGED <<names, journal, moves, req>>
    BY <1>5 DEF Enqueue
  <2>2. thenLog(p, NoBind(req[p], Kind(req[p].hash), req[p].hash, "pending", ""), "idle")
    BY <1>5 DEF Enqueue
  <2> QED
    BY <2>1, <2>2, <1>20, <1>21, LogsNoBind
<1>6. CASE Restore(p)
  BY <1>6, HandlerReturns DEF Restore
<1>7. CASE p \in Worker /\ Claim(p)
  <2>1. PICK h \in Hash, m \in Name, l \in {"claim", "reclaim"} :
           /\ req' = [req EXCEPT ![p] = [name |-> m, hash |-> h, env |-> None]]
           /\ goto(p, l)
    BY <1>7 DEF Claim, FreshClaim, StaleClaim, TypeInv, TypeOK, QueueTypeOK
  <2>2. pc[p] = "idle" /\ UNCHANGED <<names, journal, moves, entry>>
    BY <1>7 DEF Claim
  <2> DEFINE r == [name |-> m, hash |-> h, env |-> None]
  <2>3. r.env = None /\ req' = [req EXCEPT ![p] = r]
    BY <2>1
  <2> HIDE DEF r
  <2> QED
    BY <2>1, <2>2, <2>3, HandlerStarts
<1>8. CASE p \in Worker /\ Bind(p)
  <2>1. pc[p] \notin Logging /\ pc[p] # "idle" /\ UNCHANGED <<names, journal, moves, req>>
    BY <1>8 DEF Bind
  <2>2. \/ goto(p, "complete") /\ UNCHANGED entry
        \/ goto(p, "repoint") /\ UNCHANGED entry
        \/ \E t : thenLog(p, NoBind(req[p], "put", req[p].hash, "blocked", ""), t)
    BY <1>8 DEF Bind
  <2>3. CASE goto(p, "complete") /\ UNCHANGED entry
    BY <2>1, <2>3, GoesOn
  <2>4. CASE goto(p, "repoint") /\ UNCHANGED entry
    BY <1>8, <2>1, <2>4, GoesToRepoint
  <2> QED
    BY <2>1, <2>2, <2>3, <2>4, <1>20, <1>21, LogsNoBind
<1>9. CASE ClaimRename(p)
  <2>1. pc[p] \notin Logging /\ UNCHANGED <<names, journal, moves, entry>>
    BY <1>9 DEF ClaimRename
  <2>2. (goto(p, "prove") /\ UNCHANGED req) \/ done(p)
    BY <1>9 DEF ClaimRename
  <2> QED
    BY <2>1, <2>2, GoesOn, HandlerReturns
<1>10. CASE ClaimTouch(p)
  BY <1>10, GoesOn DEF ClaimTouch
<1>11. CASE Prove(p)
  <2>1. pc[p] \notin Logging /\ UNCHANGED <<names, journal, moves, req>>
    BY <1>11 DEF Prove
  <2>2. thenLog(p, NoBind(req[p], "prove", req[p].hash, "accepted", ""), "bind")
    BY <1>11 DEF Prove
  <2> QED
    BY <2>1, <2>2, <1>20, <1>21, LogsNoBind
<1>12. CASE Complete(p)
  BY <1>12, HandlerReturns DEF Complete
<1> QED
  BY <1>1, <1>2, <1>3, <1>4, <1>5, <1>6, <1>7, <1>8, <1>9, <1>10, <1>11, <1>12

-----------------------------------------------------------------------------
(* The two steps that matter: the index is written, the journal is extended. *)

LEMMA BoundBinds ==
    ASSUME NEW p, NEW b
    PROVE  LET e == boundEntry(p, b)
           IN  /\ Binding(e) /\ e.kind \in BindingKinds /\ e.status \in BindingStatus
               /\ e.name = req[p].name /\ e.hash = req[p].hash /\ e.prev = b
               /\ e.stated \in {"", nameTransition(b, req[p].hash)}
               /\ e.env \in {None, req[p].env}
BY DEF boundEntry, Binding, BindingKinds, BindingStatus, Kind

\* What a statement that moved n at revision r must meet to be spent.
Spent(n, r) ==
    \/ r < Count(journal, n)
    \/ /\ r <= Count(journal, n)
       /\ \E p \in Proc : Unlogged(p, n) /\ req[p].hash # LastBound(journal, n)

LEMMA SpentMoves ==
    StatementsSpent <=>
        \A i \in 1 .. Len(moves) : moves[i].env # None =>
            moves[i].env.name = moves[i].name /\ Spent(moves[i].name, moves[i].env.rev)
BY DEF StatementsSpent, Spent

LEMMA SpentMovesNext ==
    ASSUME \A i \in 1 .. Len(moves') : \A n, r :
               moves'[i].env # None /\ n = moves'[i].name /\ r = moves'[i].env.rev
                 => moves'[i].env.name = n /\ Spent(n, r)'
    PROVE  StatementsSpent'
BY DEF StatementsSpent, Spent

LEMMA WritesIndex ==
    ASSUME TypeInv, LockInv, HistoryInv, DisjointNames, NEW p \in Proc, RepointWrite(p)
    PROVE  HistoryInv'
<1> DEFINE n == req[p].name
           h == req[p].hash
           e == req[p].env
<1>1. /\ pc[p] = "writing" /\ pc'[p] = "attribute"
      /\ \A q \in Proc \ {p} : pc'[q] = pc[q] /\ entry'[q] = entry[q]
      /\ snap[p] = names /\ names' = [names EXCEPT ![n] = h]
      /\ entry'[p] = boundEntry(p, names[n])
      /\ UNCHANGED <<journal, req>> /\ recordMove(p)
  BY DEF RepointWrite, afterRepoint, goto, written, LockInv, IndexCurrent, TypeInv, TypeOK
<1>2. /\ n \in Name /\ h \in Hash
      /\ \A q \in Proc : ~Unlogged(q, n)
      /\ names[n] = LastBound(journal, n)
  <2>1. h \in Hash
    BY <1>1 DEF TypeInv, LocalsOK, Request
  <2> QED
    BY <1>1, <2>1, OwnNameSettled DEF Logging
<1>3. /\ names'[n] = h
      /\ \A m \in Name \ {n} : names'[m] = names[m]
  BY <1>1, <1>2 DEF TypeInv, TypeOK, Index
<1>4. Unlogged(p, n)' /\ \A m : ~Unlogged(p, m) /\ (Unlogged(p, m)' => m = n)
  <2>1. Binding(boundEntry(p, names[n]))
    BY BoundBinds
  <2> QED
    BY <1>1, <2>1 DEF Unlogged, Binding
<1>5. \A q \in Proc \ {p}, m \in Name : Unlogged(q, m)' <=> Unlogged(q, m)
  BY <1>1 DEF Unlogged
<1>6. HandlerInv(p)'
  <2>1. HandlerInv(p) /\ Binding(boundEntry(p, names[n]))
    BY BoundBinds DEF HistoryInv
  <2>2. \A b : boundEntry(p, b)' = boundEntry(p, b)
    BY <1>1 DEF boundEntry
  <2> QED
    BY <1>1, <1>2, <1>3, <2>1, <2>2 DEF HandlerInv, Logging
<1>7. ASSUME NEW q \in Proc \ {p} PROVE HandlerInv(q)'
  <2>1. HandlerInv(q)
    BY DEF HistoryInv
  <2>2. pc[q] # "idle" => names'[req[q].name] = names[req[q].name]
    BY <1>1, <1>3 DEF DisjointNames, TypeInv, LocalsOK, Request
  <2>3. \A b : boundEntry(q, b)' = boundEntry(q, b)
    BY <1>1 DEF boundEntry
  <2> QED
    BY <1>1, <2>1, <2>2, <2>3 DEF HandlerInv, Logging
<1>8. IndexFollows'
  <2>1. SUFFICES ASSUME NEW m \in Name, Settled(m)' PROVE names'[m] = LastBound(journal, m)
    BY <1>1 DEF IndexFollows
  <2>2. m # n /\ Settled(m)
    BY <1>4, <1>5, <2>1 DEF Settled
  <2> QED
    BY <1>3, <2>2 DEF HistoryInv, IndexFollows
<1>9. JournalExplains' /\ TransitionsVerify(journal)' /\ AuthorsVerify(journal)'
  BY <1>1 DEF HistoryInv, JournalExplains, Published
<1>10. \A m \in Name : \A r : Spent(m, r) => Spent(m, r)'
  BY <1>1, <1>4, <1>5 DEF Spent
<1>11. CASE names[n] = h
  <2>1. moves' = moves
    BY <1>1, <1>11 DEF recordMove
  <2>2. StatementsSpent'
    BY <1>10, <2>1, MoveTyped, SpentMoves, SpentMovesNext DEF HistoryInv
  <2>3. NoReplay'
    BY <2>1 DEF HistoryInv, NoReplay
  <2> QED
    BY <1>6, <1>7, <1>8, <1>9, <2>2, <2>3 DEF HistoryInv
<1>12. CASE names[n] # h
  <2> DEFINE move == [name |-> n, to |-> h, env |-> e]
             L == Len(moves)
  <2>1. moves' = Append(moves, move)
    BY <1>1, <1>12 DEF recordMove
  <2>2. move \in [name : Name, to : Hash, env : Envelope \union {None}]
    BY <1>1 DEF TypeInv, LocalsOK, Request
  <2>3. /\ L \in Nat /\ Len(moves') = L + 1
        /\ \A i \in 1 .. L : moves'[i] = moves[i]
        /\ moves'[L + 1] = move
    <3>1. moves \in Seq([name : Name, to : Hash, env : Envelope \union {None}])
      BY DEF TypeInv, TypeOK
    <3> HIDE DEF move
    <3> QED
      BY <2>1, <2>2, <3>1, LinesAppended
  <2>4. move.name = n /\ move.env = e
    OBVIOUS
  <2>5. e # None => e.name = n /\ e.rev = Count(journal, n) /\ Count(journal, n) \in Nat
    <3>1. HandlerInv(p) /\ journal \in Seq(Line)
      BY DEF HistoryInv, TypeInv, TypeOK
    <3> QED
      BY <1>1, <3>1, AppliedFinite DEF HandlerInv
  <2>6. \A m, r : e # None /\ m = n /\ r = e.rev => Spent(m, r)'
    BY <1>1, <1>2, <1>4, <1>12, <2>5 DEF Spent
  <2> HIDE DEF move, L
  <2>7. ASSUME NEW i \in 1 .. Len(moves')
        PROVE  i \in 1 .. L \/ i = L + 1
    BY <2>3
  <2>8. StatementsSpent'
    <3>1. ASSUME NEW i \in 1 .. Len(moves'), NEW m, NEW r,
                 moves'[i].env # None, m = moves'[i].name, r = moves'[i].env.rev
          PROVE  moves'[i].env.name = m /\ Spent(m, r)'
      <4>1. CASE i \in 1 .. L
        <5>1. moves'[i] = moves[i] /\ i \in 1 .. Len(moves)
          BY <2>3, <4>1 DEF L
        <5>2. moves[i].env.name = moves[i].name /\ Spent(moves[i].name, moves[i].env.rev)
          BY <3>1, <5>1, SpentMoves DEF HistoryInv
        <5> QED
          BY <1>10, <3>1, <5>1, <5>2, MoveTyped
      <4>2. CASE i = L + 1
        BY <2>3, <2>4, <2>5, <2>6, <3>1, <4>2
      <4> QED
        BY <2>7, <4>1, <4>2
    <3> QED
      BY <3>1, SpentMovesNext
  <2>9. ASSUME NEW i \in 1 .. L, e # None PROVE moves[i].env # e
    <3>1. SUFFICES ASSUME moves[i].env = e PROVE FALSE
      OBVIOUS
    <3>2. moves[i].name = n /\ Spent(n, e.rev)
      BY <2>5, <2>9, <3>1, SpentMoves DEF HistoryInv, L
    <3> QED
      BY <1>2, <2>5, <2>9, <3>2 DEF Spent
  <2>10. NoReplay'
    <3>1. \A i, j \in 1 .. L : i # j /\ moves[i].env # None => moves[i].env # moves[j].env
      BY DEF HistoryInv, NoReplay, L
    <3>2. SUFFICES ASSUME NEW i \in 1 .. Len(moves'), NEW j \in 1 .. Len(moves'),
                          i # j, moves'[i].env # None
                   PROVE  moves'[i].env # moves'[j].env
      BY DEF NoReplay
    <3> QED
      BY <2>3, <2>4, <2>7, <2>9, <3>1, <3>2
  <2> QED
    BY <1>6, <1>7, <1>8, <1>9, <2>8, <2>10 DEF HistoryInv
<1> QED
  BY <1>11, <1>12

\* What the journal says after one more entry, handler p's, in terms of what it said before.
LEMMA EntryMoves ==
    ASSUME TypeInv, HistoryInv, NEW p \in Proc, pc[p] = "appending", NEW l \in Line, l.body = entry[p]
    PROVE  LET n == req[p].name
               h == req[p].hash
           IN  /\ n \in Name /\ h \in Hash /\ h # None
               /\ Binding(entry[p]) => /\ entry[p] = boundEntry(p, LastBound(journal, n))
                                       /\ names[n] = h
                                       /\ MovesName(journal, l, n) <=> h # LastBound(journal, n)
               /\ \A m : MovesName(journal, l, m) => Binding(entry[p]) /\ m = n /\ l.body.hash = h
<1> DEFINE n == req[p].name
           h == req[p].hash
           b == entry[p]
<1>1. n \in Name /\ h \in Hash /\ h # None /\ b \in Body
  BY RegistryAssumption DEF TypeInv, LocalsOK, Request
<1>2. Binding(b) => b = boundEntry(p, LastBound(journal, n)) /\ names[n] = h
  BY DEF HistoryInv, HandlerInv, Logging
<1>3. Binding(b) => b.name = n /\ b.hash = h /\ b.kind \in BindingKinds /\ b.status \in BindingStatus
  <2>1. ASSUME NEW x, x = boundEntry(p, LastBound(journal, n))
        PROVE  x.name = n /\ x.hash = h /\ x.kind \in BindingKinds /\ x.status \in BindingStatus
    BY <2>1, BoundBinds
  <2> QED
    BY <1>2, <2>1
<1>4. b.kind \in BindingKinds /\ b.status \in BindingStatus => Binding(b)
  BY DEF Binding, BindingKinds
<1>5. ASSUME NEW m, MovesName(journal, l, m)
      PROVE  Binding(b) /\ m = n /\ l.body.hash = h
  <2>1. b.name = m /\ b.kind \in BindingKinds /\ b.status \in BindingStatus
    BY <1>5 DEF MovesName, deriveTransition
  <2> QED
    BY <1>3, <1>4, <2>1
<1>6. Binding(b) => (MovesName(journal, l, n) <=> h # LastBound(journal, n))
  BY <1>1, <1>3 DEF MovesName, deriveTransition
<1> QED
  BY <1>1, <1>2, <1>5, <1>6

LEMMA PublishedGrows ==
    ASSUME journal \in Seq(Line), NEW l \in Line, journal' = Append(journal, l)
    PROVE  /\ \A n, h : Published(n, h) => Published(n, h)'
           /\ l.body.kind \in BindingKinds /\ l.body.status \in BindingStatus
                => \A n, h : n = l.body.name /\ h = l.body.hash => Published(n, h)'
<1>1. /\ Len(journal) \in Nat /\ Len(journal') = Len(journal) + 1
      /\ \A i \in 1 .. Len(journal) : journal'[i] = journal[i]
      /\ journal'[Len(journal) + 1] = l
  BY LinesAppended
<1>2. /\ \A i \in 1 .. Len(journal) : i \in 1 .. Len(journal')
      /\ Len(journal) + 1 \in 1 .. Len(journal')
  BY <1>1
<1> QED
  BY <1>1, <1>2 DEF Published

\* The line that is appended passes VerifyLog, and those before it still do.
LEMMA StillVerifies ==
    ASSUME NEW lines \in Seq(Line), NEW l \in Line, TransitionsVerify(lines), AuthorsVerify(lines),
           NEW t, t = deriveTransition(l.body, LastBound(lines, l.body.name)),
           l.body.stated \in {"", t},
           l.body.env # None /\ t = "applied" =>
              /\ l.body.env.name = l.body.name
              /\ l.body.env.artifact = l.body.hash
              /\ l.body.env.parent = l.body.prev
    PROVE  TransitionsVerify(Append(lines, l)) /\ AuthorsVerify(Append(lines, l))
<1> DEFINE more == Append(lines, l)
           L == Len(lines)
           derived == derivedTransitionsByIndex(more)
           before == derivedTransitionsByIndex(lines)
<1>1. /\ L \in Nat /\ Len(more) = L + 1
      /\ \A i \in 1 .. L : more[i] = lines[i]
      /\ more[L + 1] = l
  BY LinesAppended
<1>2. (\A i \in 1 .. L : derived[i] = before[i]) /\ derived[L + 1] = t
  BY DerivedAppended
<1> HIDE DEF more, derived, before
<1>3. ASSUME NEW i \in 1 .. Len(more)
      PROVE  /\ more[i].body.stated \in {"", derived[i]}
             /\ more[i].body.env # None /\ derived[i] = "applied" =>
                   /\ more[i].body.env.name = more[i].body.name
                   /\ more[i].body.env.artifact = more[i].body.hash
                   /\ more[i].body.env.parent = more[i].body.prev
  <2>1. CASE i \in 1 .. L
    <3>1. more[i] = lines[i] /\ derived[i] = before[i]
      BY <1>1, <1>2, <2>1
    <3> QED
      BY <2>1, <3>1 DEF TransitionsVerify, AuthorsVerify, before
  <2>2. CASE i = L + 1
    <3>1. more[i] = l /\ derived[i] = t
      BY <1>1, <1>2, <2>2
    <3> QED
      BY <3>1
  <2>3. i \in 1 .. L \/ i = L + 1
    <3>1. L \in Nat /\ i \in 1 .. L + 1
      BY <1>1
    <3> HIDE DEF L
    <3> QED
      BY <3>1, BeforeOrLast
  <2> QED
    BY <2>1, <2>2, <2>3
<1> QED
  BY <1>3 DEF TransitionsVerify, AuthorsVerify, derived, more

LEMMA ExtendsJournal ==
    ASSUME TypeInv, LockInv, HistoryInv, DisjointNames, NEW p \in Proc, AppendWrite(p)
    PROVE  HistoryInv'
<1> DEFINE n == req[p].name
           h == req[p].hash
           b == entry[p]
           l == nextLine(journal, b)
           last(m) == LastBound(journal, m)
           moved(m) == MovesName(journal, l, m)
<1>1. /\ pc[p] = "appending" /\ pc'[p] \in Returns /\ journal' = Append(journal, l)
      /\ \A q \in Proc \ {p} : pc'[q] = pc[q] /\ req'[q] = req[q] /\ entry'[q] = entry[q]
      /\ req'[p] \in {NoReq, req[p]}
      /\ UNCHANGED <<names, moves>>
  BY DEF AppendWrite, afterAppend, done, goto, ghostVars, LockInv, TailCurrent,
         TypeInv, TypeOK, Returns
<1>2. journal \in Seq(Line) /\ b \in Body /\ l \in Line /\ l.body = b
  <2>1. journal \in Seq(Line) /\ b \in Body
    BY <1>1 DEF TypeInv, TypeOK, LocalsOK
  <2> QED
    BY <2>1, NextLineTyped DEF nextLine
<1> HIDE DEF l
<1>3. /\ n \in Name /\ h \in Hash /\ h # None
      /\ Binding(b) => b = boundEntry(p, last(n)) /\ names[n] = h /\ (moved(n) <=> h # last(n))
      /\ \A m : moved(m) => Binding(b) /\ m = n /\ l.body.hash = h
  BY <1>1, <1>2, EntryMoves
<1>4. ASSUME NEW m
      PROVE  /\ LastBound(journal', m) = IF moved(m) THEN h ELSE last(m)
             /\ Count(journal', m) = IF moved(m) THEN Count(journal, m) + 1 ELSE Count(journal, m)
             /\ AppliedTo(journal', m)
                  = AppliedTo(journal, m) \cup (IF moved(m) THEN {Len(journal) + 1} ELSE {})
  BY <1>1, <1>2, <1>3, BoundAppended, CountAppended
<1>5. /\ \A q \in Proc \ {p}, m \in Name : Unlogged(q, m)' <=> Unlogged(q, m)
      /\ \A m : ~Unlogged(p, m)'
      /\ \A m : Unlogged(p, m) => m = n /\ Binding(b)
  BY <1>1 DEF Unlogged, Returns, Binding
<1> HIDE DEF moved, last
<1>6. HandlerInv(p)'
  <2>1. /\ pc'[p] \notin Logging \cup {"inserting", "repoint", "writing"}
        /\ p \in Worker => req'[p].env = None
        /\ req'[p].env # None => req'[p].env.name = req'[p].name /\ req'[p].env.artifact = req'[p].hash
    <3>1. HandlerInv(p)
      BY DEF HistoryInv
    <3>2. CASE req'[p] = NoReq
      BY <1>1, <3>2 DEF NoReq, Returns, Logging
    <3>3. CASE req'[p] = req[p]
      BY <1>1, <3>1, <3>3 DEF HandlerInv, Returns, Logging
    <3> QED
      BY <1>1, <3>2, <3>3
  <2> QED
    BY <2>1 DEF HandlerInv
<1>7. ASSUME NEW q \in Proc \ {p} PROVE HandlerInv(q)'
  <2> DEFINE m == req[q].name
  <2>1. HandlerInv(q)
    BY DEF HistoryInv
  <2>2. pc[q] # "idle" => m # n
    BY <1>1 DEF DisjointNames
  <2>3. pc[q] # "idle" => LastBound(journal', m) = LastBound(journal, m) /\ Count(journal', m) = Count(journal, m)
    BY <1>3, <1>4, <2>2 DEF last
  <2>4. \A x : boundEntry(q, x)' = boundEntry(q, x)
    BY <1>1 DEF boundEntry
  <2>5. pc'[q] = pc[q] /\ req'[q] = req[q] /\ entry'[q] = entry[q] /\ names' = names
    BY <1>1
  <2>6. CASE pc[q] = "idle"
    BY <2>1, <2>5, <2>6 DEF HandlerInv, Logging
  <2>7. CASE pc[q] # "idle"
    BY <2>1, <2>3, <2>4, <2>5, <2>7 DEF HandlerInv
  <2> QED
    BY <2>6, <2>7
<1>8. IndexFollows'
  <2>1. SUFFICES ASSUME NEW m \in Name, Settled(m)' PROVE names[m] = LastBound(journal', m)
    BY <1>1 DEF IndexFollows
  <2>2. CASE Binding(b) /\ m = n
    BY <1>3, <1>4, <2>2
  <2>3. CASE ~(Binding(b) /\ m = n)
    <3>1. Settled(m) /\ ~moved(m)
      BY <1>3, <1>5, <2>1, <2>3 DEF Settled
    <3> QED
      BY <1>4, <3>1 DEF HistoryInv, IndexFollows, last
  <2> QED
    BY <2>2, <2>3
<1>9. JournalExplains'
  <2>1. SUFFICES ASSUME NEW m \in Name
                 PROVE  /\ LastBound(journal', m) = None => AppliedTo(journal', m) = {}
                        /\ LastBound(journal', m) # None =>
                              AppliedTo(journal', m) # {}
                              /\ \A x : x = LastBound(journal', m) => Published(m, x)'
    BY DEF JournalExplains
  <2>2. CASE moved(m)
    <3>1. l.body.kind \in BindingKinds /\ l.body.status \in BindingStatus /\ l.body.name = m /\ l.body.hash = h
      BY <1>3, <2>2 DEF moved, MovesName, deriveTransition
    <3>2. \A x : x = h => Published(m, x)'
      BY <1>1, <1>2, <3>1, PublishedGrows
    <3> QED
      BY <1>3, <1>4, <2>2, <3>2
  <2>3. CASE ~moved(m)
    <3>1. \A x : Published(m, x) => Published(m, x)'
      BY <1>1, <1>2, PublishedGrows
    <3> QED
      BY <1>4, <2>3, <3>1 DEF HistoryInv, JournalExplains, last
  <2> QED
    BY <2>2, <2>3
<1>10. TransitionsVerify(journal)' /\ AuthorsVerify(journal)'
  <2> DEFINE t == deriveTransition(b, LastBound(journal, b.name))
  <2>1. CASE Binding(b)
    <3> DEFINE x == boundEntry(p, last(n))
    <3>1. /\ x.kind \in BindingKinds /\ x.status \in BindingStatus
          /\ x.name = n /\ x.hash = h /\ x.prev = last(n)
          /\ x.stated \in {"", nameTransition(last(n), h)} /\ x.env \in {None, req[p].env}
      BY BoundBinds
    <3>2. b = x
      BY <1>3, <2>1
    <3> HIDE DEF x
    <3>3. t = nameTransition(last(n), h)
      BY <1>3, <3>1, <3>2 DEF deriveTransition, nameTransition, last
    <3>4. req[p].env # None => /\ req[p].env.name = n /\ req[p].env.artifact = h
                               /\ req[p].env.parent = last(n)
      BY <1>1, <2>1 DEF HistoryInv, HandlerInv, Logging, last
    <3>5. b.stated \in {"", t} /\ (b.env # None => /\ b.env.name = b.name /\ b.env.artifact = b.hash
                                                   /\ b.env.parent = b.prev)
      BY <3>1, <3>2, <3>3, <3>4
    <3> QED
      BY <1>1, <1>2, <3>5, StillVerifies DEF HistoryInv
  <2>2. CASE ~Binding(b)
    <3>1. b.stated \in {"", "none"}
      BY <1>1, <2>2 DEF HistoryInv, HandlerInv, Logging
    <3>2. t = "none"
      BY <2>2 DEF deriveTransition, Binding, BindingKinds
    <3> QED
      BY <1>1, <1>2, <3>1, <3>2, StillVerifies DEF HistoryInv
  <2> QED
    BY <2>1, <2>2
<1>11. StatementsSpent' /\ NoReplay'
  <2>1. ASSUME NEW m \in Name, NEW r \in Nat, Spent(m, r) PROVE Spent(m, r)'
    <3>1. Count(journal, m) \in Nat
      BY <1>2, AppliedFinite
    <3>2. CASE moved(m)
      BY <1>4, <2>1, <3>1, <3>2 DEF Spent
    <3>3. CASE ~moved(m)
      <4>1. Count(journal', m) = Count(journal, m) /\ LastBound(journal', m) = LastBound(journal, m)
        BY <1>4, <3>3 DEF last
      <4>2. ASSUME NEW q \in Proc, Unlogged(q, m), req[q].hash # LastBound(journal, m)
            PROVE  Unlogged(q, m)' /\ req'[q].hash # LastBound(journal', m)
        <5>1. q # p
          BY <1>3, <1>5, <3>3, <4>2 DEF last
        <5> QED
          BY <1>1, <1>5, <4>1, <4>2, <5>1
      <4> QED
        BY <2>1, <4>1, <4>2 DEF Spent
    <3> QED
      BY <3>2, <3>3
  <2>2. ASSUME NEW i \in 1 .. Len(moves), moves[i].env # None
        PROVE  moves[i].name \in Name /\ moves[i].env.rev \in Nat
    BY <2>2, MoveTyped DEF Envelope
  <2>3. StatementsSpent'
    BY <1>1, <2>1, <2>2, SpentMoves, SpentMovesNext DEF HistoryInv
  <2> QED
    BY <1>1, <2>3 DEF HistoryInv, NoReplay
<1> QED
  BY <1>6, <1>7, <1>8, <1>9, <1>10, <1>11 DEF HistoryInv

-----------------------------------------------------------------------------
(* The whole specification. *)

\* Nothing has gone wrong yet: no crash, no lost append, no failed read, no prover error.
NoFault == faults = <<>>

LEMMA NoFaultBefore ==
    ASSUME TypeInv, [Next]_vars, NoFault'
    PROVE  /\ NoFault /\ NoReadFailed
           /\ \A p \in Proc : ~FaultStep(p)
           /\ \A w \in Worker : ~ProveError(w)
<1>1. faults \in Seq(FaultKinds) /\ faults' \in Seq(FaultKinds)
  BY NextTypeInv DEF TypeInv, TypeOK
<1>2. ASSUME NEW kind, faults' = Append(faults, kind) PROVE FALSE
  <2>1. Len(faults') = Len(faults) + 1 /\ Len(faults) \in Nat
    BY <1>1, <1>2
  <2> QED
    BY <2>1 DEF NoFault
<1>3. NoFault /\ NoReadFailed
  BY <1>2, FaultsGrow DEF NoFault, NoReadFailed
<1>4. ASSUME NEW p, FaultStep(p) \/ ProveError(p) PROVE \E kind : faults' = Append(faults, kind)
  BY <1>4 DEF FaultStep, RepointReadError, AppendReadError, AppendFails, Crash, ProveError, FaultAs, Fault
<1> QED
  BY <1>2, <1>3, <1>4

LEMMA IdleStep ==
    ASSUME HistoryInv, UNCHANGED <<names, journal, moves, pc, req, entry>>
    PROVE  HistoryInv'
<1>1. \A p \in Proc : HandlerInv(p)'
  BY DEF HistoryInv, HandlerInv, boundEntry
<1>2. IndexFollows' /\ JournalExplains'
  BY DEF HistoryInv, IndexFollows, JournalExplains, Settled, Unlogged, Published
<1>3. StatementsSpent' /\ NoReplay'
  BY DEF HistoryInv, StatementsSpent, NoReplay, Unlogged
<1> QED
  BY <1>1, <1>2, <1>3 DEF HistoryInv

LEMMA NextHistoryInv ==
    ASSUME Backend = "fs", TypeInv, LockInv, HistoryInv, DisjointNames, [Next]_vars, NoFault'
    PROVE  HistoryInv'
<1>1. CASE \E n \in Name, h \in Hash : Sign(n, h)
  BY <1>1, IdleStep DEF Sign, storeVars, locals
<1>2. ASSUME NEW p \in Serve, NEW n \in Name, NEW h \in Hash, put(p, n, h) PROVE HistoryInv'
  <2> DEFINE r == [name |-> n, hash |-> h, env |-> None]
  <2>1. p \in Proc /\ r.env = None
    BY DEF Proc
  <2>2. pc[p] = "idle" /\ goto(p, "admit") /\ req' = [req EXCEPT ![p] = r]
        /\ UNCHANGED <<names, journal, moves, entry>>
    BY <1>2 DEF put, Accept, storeVars
  <2> HIDE DEF r
  <2> QED
    BY <2>1, <2>2, HandlerStarts
<1>3. ASSUME NEW p \in Serve, NEW e \in envs, putObject(p, e) PROVE HistoryInv'
  <2> DEFINE r == [name |-> e.name, hash |-> e.artifact, env |-> e]
  <2>1. /\ p \in Proc /\ p \notin Worker
        /\ r.env = e /\ r.env.name = r.name /\ r.env.artifact = r.hash
    BY RegistryAssumption DEF Proc
  <2>2. pc[p] = "idle" /\ goto(p, "precheck") /\ req' = [req EXCEPT ![p] = r]
        /\ UNCHANGED <<names, journal, moves, entry>>
    BY <1>3 DEF putObject, Accept, storeVars
  <2> HIDE DEF r
  <2> QED
    BY <2>1, <2>2, HandlerStarts
<1>4. ASSUME NEW p \in Proc, Section(p) PROVE HistoryInv'
  <2>1. ~RepointDelete(p) /\ ~RepointInsert(p)
    BY DEF RepointDelete, RepointInsert
  <2>2. CASE AppendRead(p)
    <3>1. pc[p] \in Logging /\ "appending" \in Logging /\ goto(p, "appending")
          /\ UNCHANGED <<names, journal, moves, req, entry>>
      BY <2>2 DEF AppendRead, Logging, ghostVars
    <3> QED
      BY <3>1, StaysOnItsWay
  <2> QED
    BY <1>4, <2>1, <2>2, ReadsIndex, WritesIndex, ExtendsJournal DEF Section
<1>5. ASSUME NEW p \in Proc, Attribute(p) PROVE HistoryInv'
  <2>1. pc[p] \in Logging /\ "log" \in Logging /\ goto(p, "log")
        /\ UNCHANGED <<names, journal, moves, req, entry>>
    BY <1>5 DEF Attribute, Logging, ghostVars
  <2> QED
    BY <2>1, StaysOnItsWay
<1>6. ASSUME NEW p \in Serve, ServeStep(p) PROVE HistoryInv'
  BY <1>4, <1>5, <1>6, OutsideKeepsHistory DEF ServeStep, Proc
<1>7. ASSUME NEW w \in Worker, WorkerStep(w) PROVE HistoryInv'
  BY <1>4, <1>5, <1>7, OutsideKeepsHistory DEF WorkerStep, Proc
<1>8. CASE \E h \in Hash : LeaseExpires(h)
  BY <1>8, IdleStep DEF LeaseExpires, storeVars, ghostVars, locals
<1>9. CASE UNCHANGED vars
  BY <1>9, IdleStep DEF vars, storeVars, ghostVars, locals
<1> QED
  BY <1>1, <1>2, <1>3, <1>6, <1>7, <1>8, <1>9, NoFaultBefore DEF Next

\* Index and journal tell one story in every reachable state before the first fault.
Told == NoFault => HistoryInv

LEMMA HistoryInvariant ==
    ASSUME LockOn, Backend = "fs"
    PROVE  Spec /\ []DisjointNames => [](LockedUntilMisread /\ Told)
<1>1. Init => Told
  BY InitHistoryInv DEF Told
<1>2. TypeInv /\ LockedUntilMisread /\ DisjointNames /\ Told /\ [Next]_vars => Told'
  <2> SUFFICES ASSUME TypeInv, LockedUntilMisread, DisjointNames, Told, [Next]_vars, NoFault'
               PROVE  HistoryInv'
    BY DEF Told
  <2>1. LockInv /\ HistoryInv
    BY NoFaultBefore DEF LockedUntilMisread, Told
  <2> QED
    BY <2>1, NextHistoryInv
<1> QED
  BY <1>1, <1>2, LockInvariant, PTL DEF Spec

(***************************************************************************)
(* With the store lock on, on the filesystem store, and with no two         *)
(* handlers working on one name at the same time, VerifyLog accepts the     *)
(* journal the store wrote: its chain, the transitions its writers stated   *)
(* (taken from what Repoint returned, not from the journal) and the author  *)
(* records, in every state before the first fault.                          *)
(***************************************************************************)
THEOREM StoreVerifiesItsJournal ==
    ASSUME LockOn, Backend = "fs"
    PROVE  Spec /\ []DisjointNames => [](NoFault => JournalVerifies)
<1>1. LockedUntilMisread /\ Told => (NoFault => JournalVerifies)
  BY DEF LockedUntilMisread, Told, NoFault, NoReadFailed, LockInv, Chained, HistoryInv,
         JournalVerifies, VerifyLog
<1> QED
  BY <1>1, HistoryInvariant, PTL

(***************************************************************************)
(* Under the same conditions, every binding of the index is explained by    *)
(* the journal or by a handler about to journal it, and the head that       *)
(* nameRevision computes from index and journal is the one a client         *)
(* computes from the journal alone.                                         *)
(***************************************************************************)
THEOREM JournalTellsTheIndex ==
    ASSUME LockOn, Backend = "fs"
    PROVE  Spec /\ []DisjointNames => [](NoFault => IndexIsJournalled)
<1>1. ASSUME HistoryInv PROVE IndexIsJournalled
  <2>1. BindingAccounted
    <3> SUFFICES ASSUME NEW n \in Name, names[n] # None
                 PROVE  \/ Published(n, names[n])
                        \/ \E p \in Proc : Unlogged(p, n) /\ req[p].hash = names[n]
      BY DEF BindingAccounted
    <3>1. CASE Settled(n)
      BY <1>1, <3>1 DEF HistoryInv, IndexFollows, JournalExplains
    <3>2. ASSUME NEW p \in Proc, Unlogged(p, n) PROVE req[p].hash = names[n]
      BY <1>1, <3>2 DEF HistoryInv, HandlerInv, Unlogged, Logging, Binding
    <3> QED
      BY <3>1, <3>2 DEF Settled
  <2>2. HeadIsDerivable
    <3> SUFFICES ASSUME NEW n \in Name, Settled(n)
                 PROVE  nameRevision(journal, names, n) = journalHead(journal, n)
      BY DEF HeadIsDerivable
    <3>1. names[n] = boundAfter(journal, n)[Len(journal)]
      BY <1>1 DEF HistoryInv, IndexFollows, LastBound
    <3> QED
      BY <3>1 DEF journalHead, nameRevision
  <2> QED
    BY <2>1, <2>2 DEF IndexIsJournalled
<1>2. Told => (NoFault => IndexIsJournalled)
  BY <1>1 DEF Told
<1> QED
  BY <1>2, HistoryInvariant, PTL

(***************************************************************************)
(* Under the same conditions a signed envelope moves its name at most once, *)
(* however often it is submitted and wherever the name has been since: the  *)
(* revision it signs is spent by the move it makes.                         *)
(***************************************************************************)
THEOREM EnvelopesMoveOnce ==
    ASSUME LockOn, Backend = "fs"
    PROVE  Spec /\ []DisjointNames => [](NoFault => NoReplay)
<1>1. Told => (NoFault => NoReplay)
  BY DEF Told, HistoryInv
<1> QED
  BY <1>1, HistoryInvariant, PTL

-----------------------------------------------------------------------------
(***************************************************************************)
(* Published names stay bound on the filesystem store, where the index is   *)
(* replaced in one step: a name is bound before its entry is written.       *)
(***************************************************************************)
Binds(e) == e.kind \in BindingKinds /\ e.status \in BindingStatus

EntriesBound == \A p \in Proc : Binds(entry[p]) => names[entry[p].name] # None

BoundInv == NeverDeleted /\ EntriesBound

BoundUntilMisread == NoReadFailed => BoundInv

LEMMA InitBoundInv == Init => BoundInv
<1> SUFFICES ASSUME Init PROVE BoundInv
  OBVIOUS
<1>1. journal = <<>> /\ Len(journal) = 0 /\ \A p \in Proc : entry[p] = NoBody
  BY DEF Init
<1>2. \A n, h : ~Published(n, h)
  BY <1>1 DEF Published
<1>3. ~Binds(NoBody)
  BY DEF Binds, NoBody, BindingKinds
<1> QED
  BY <1>1, <1>2, <1>3 DEF BoundInv, NeverDeleted, EntriesBound

LEMMA NextBoundInv ==
    ASSUME TypeInv, LockInv, BoundInv, [Next]_vars, NoReadFailed', Backend = "fs"
    PROVE  BoundInv'
<1> USE RegistryAssumption DEF TypeInv, TypeOK, Location, Returns, Index
<1>1. ASSUME UNCHANGED <<names, journal, entry>> PROVE BoundInv'
  BY <1>1 DEF BoundInv, NeverDeleted, EntriesBound, Published
<1>2. ASSUME UNCHANGED <<names, journal>>, NEW p \in Proc, NEW e, ~Binds(e),
             entry' = [entry EXCEPT ![p] = e]
      PROVE  BoundInv'
  <2>1. \A q \in Proc : Binds(entry'[q]) => entry'[q] = entry[q]
    BY <1>2
  <2> QED
    BY <1>2, <2>1 DEF BoundInv, NeverDeleted, EntriesBound, Published
<1>3. /\ \A r, k, h, s, t : s \in {"rejected", "blocked", "pending"} => ~Binds(NoBind(r, k, h, s, t))
      /\ \A r, h, s, t : s \in {"rejected", "blocked", "pending"} => ~Binds(NoBind(r, "put", h, s, t))
      /\ \A r, h, s, t : ~Binds(NoBind(r, "prove", h, s, t))
      /\ ~Binds(NoBody)
  BY DEF NoBind, NoBody, Binds, BindingKinds, BindingStatus
<1>4. ASSUME NEW n \in Name, NEW h \in Hash, Sign(n, h) PROVE BoundInv'
  BY <1>4, <1>1 DEF Sign, storeVars, locals
<1>5. ASSUME NEW p \in Proc, NEW r, NEW l, Accept(p, r, l) PROVE BoundInv'
  BY <1>5, <1>1 DEF Accept, storeVars
<1>6. ASSUME NEW p \in Proc, PreCheck(p) PROVE BoundInv'
  BY <1>6, <1>1, <1>2, <1>3 DEF PreCheck, thenLog, storeVars
<1>7. ASSUME NEW p \in Proc, Admit(p) PROVE BoundInv'
  <2>1. /\ UNCHANGED <<names, journal>>
        /\ \/ UNCHANGED entry
           \/ entry' = [entry EXCEPT ![p] = NoBind(req[p], Kind(req[p].hash), None, "rejected", "")]
    BY <1>7 DEF Admit, thenLog, storeVars
  <2>2. ~Binds(NoBind(req[p], Kind(req[p].hash), None, "rejected", ""))
    BY DEF NoBind, Binds, BindingStatus
  <2> QED
    BY <2>1, <2>2, <1>1, <1>2
<1>8. ASSUME NEW p \in Proc, Gate(p) PROVE BoundInv'
  <2>1. /\ UNCHANGED <<names, journal>>
        /\ \/ UNCHANGED entry
           \/ entry' = [entry EXCEPT ![p] = NoBind(req[p], Kind(req[p].hash), req[p].hash, "rejected", "none")]
           \/ entry' = [entry EXCEPT ![p] = NoBind(req[p], Kind(req[p].hash), req[p].hash, "blocked", "")]
    BY <1>8 DEF Gate, thenLog, storeVars
  <2>2. ~Binds(NoBind(req[p], Kind(req[p].hash), req[p].hash, "rejected", "none")) /\ ~Binds(NoBind(req[p], Kind(req[p].hash), req[p].hash, "blocked", ""))
    BY DEF NoBind, Binds, BindingStatus
  <2> QED
    BY <2>1, <2>2, <1>1, <1>2
<1>9. ASSUME NEW p \in Proc, Enqueue(p) PROVE BoundInv'
  <2>1. /\ UNCHANGED <<names, journal>>
        /\ entry' = [entry EXCEPT ![p] = NoBind(req[p], Kind(req[p].hash), req[p].hash, "pending", "")]
    BY <1>9 DEF Enqueue, thenLog, storeVars
  <2>2. ~Binds(NoBind(req[p], Kind(req[p].hash), req[p].hash, "pending", ""))
    BY DEF NoBind, Binds, BindingStatus
  <2> QED
    BY <2>1, <2>2, <1>2
<1>10. ASSUME NEW p \in Proc, Store(p) \/ Restore(p) \/ Attribute(p) PROVE BoundInv'
  BY <1>10, <1>1 DEF Store, Restore, Attribute
<1>11. ASSUME NEW p \in Proc, RepointRead(p) \/ AppendRead(p) PROVE BoundInv'
  BY <1>11, <1>1 DEF RepointRead, AppendRead
<1>12. ASSUME NEW p \in Proc, RepointWrite(p) PROVE BoundInv'
  <2>1. /\ pc[p] = "writing" /\ names' = [snap[p] EXCEPT ![req[p].name] = req[p].hash] /\ UNCHANGED journal
        /\ \E prev : entry' = [entry EXCEPT ![p] = boundEntry(p, prev)]
    BY <1>12 DEF RepointWrite, written, afterRepoint
  <2>2. snap[p] = names
    BY <2>1 DEF LockInv, IndexCurrent
  <2>3. req[p].name \in Name /\ req[p].hash \in Hash /\ req[p].hash # None
    BY <2>1 DEF LocalsOK, Request
  <2>4. \A prev : boundEntry(p, prev).name = req[p].name
    BY DEF boundEntry
  <2>5. /\ names'[req[p].name] # None
        /\ \A n : n \in Name /\ names[n] # None => names'[n] # None
    BY <2>1, <2>2, <2>3
  <2>6. ASSUME NEW q \in Proc, Binds(entry'[q]) PROVE names'[entry'[q].name] # None
    <3>1. CASE q = p
      BY <2>1, <2>4, <2>5, <3>1
    <3>2. CASE q # p
      <4>1. entry'[q] = entry[q]
        BY <2>1, <3>2
      <4>2. entry[q].name \in Name
        BY <2>6, <4>1, <1>3 DEF Body
      <4> QED
        BY <2>5, <2>6, <4>1, <4>2 DEF BoundInv, EntriesBound
    <3> QED
      BY <3>1, <3>2
  <2>7. NeverDeleted'
    BY <2>1, <2>5 DEF BoundInv, NeverDeleted, Published
  <2> QED
    BY <2>6, <2>7 DEF BoundInv, EntriesBound
<1>13. ASSUME NEW p \in Proc PROVE ~RepointDelete(p) /\ ~RepointInsert(p)
  BY DEF RepointDelete, RepointInsert
<1>14. ASSUME NEW p \in Proc, AppendWrite(p) PROVE BoundInv'
  <2> DEFINE l == nextLine(prior[p], entry[p])
  <2>1. /\ UNCHANGED names /\ journal' = Append(journal, l) /\ pc[p] = "appending"
        /\ entry' = [entry EXCEPT ![p] = NoBody]
    BY <1>14 DEF AppendWrite, afterAppend
  <2>2. entry[p] \in Body /\ prior[p] \in Seq(Line)
    BY <2>1 DEF LocalsOK
  <2>3. l \in Line /\ l.body = entry[p]
    BY <2>2, NextLineTyped DEF nextLine
  <2> HIDE DEF l
  <2>4. \A n, h : Published(n, h)' => Published(n, h) \/ (n = l.body.name /\ Binds(l.body))
    <3>1. /\ Len(journal) \in Nat /\ Len(journal') = Len(journal) + 1
          /\ \A i \in 1 .. Len(journal) : journal'[i] = journal[i]
          /\ journal'[Len(journal) + 1] = l
      BY <2>1, <2>3, LinesAppended
    <3>2. \A i \in 1 .. Len(journal') : i \in 1 .. Len(journal) \/ i = Len(journal) + 1
      <4>1. \A m \in Nat : \A i \in 1 .. m + 1 : i \in 1 .. m \/ i = m + 1
        OBVIOUS
      <4> QED
        BY <3>1, <4>1, Zenon
    <3> QED
      BY <3>1, <3>2 DEF Published, Binds
  <2>5. NeverDeleted'
    <3>1. ASSUME NEW n \in Name, names'[n] = None, NEW h \in Hash, Published(n, h)' PROVE FALSE
      <4>1. names[n] = None /\ ~Published(n, h)
        BY <2>1, <3>1 DEF BoundInv, NeverDeleted
      <4>2. n = entry[p].name /\ Binds(entry[p])
        BY <2>3, <2>4, <3>1, <4>1
      <4> QED
        BY <4>1, <4>2 DEF BoundInv, EntriesBound
    <3> QED
      BY <3>1 DEF NeverDeleted
  <2>6. \A q \in Proc : Binds(entry'[q]) => entry'[q] = entry[q]
    BY <2>1, <1>3
  <2> QED
    BY <2>1, <2>5, <2>6 DEF BoundInv, EntriesBound
<1>15. ASSUME NEW p \in Proc, AppendFails(p) \/ Crash(p) PROVE BoundInv'
  BY <1>15, <1>2, <1>3 DEF AppendFails, afterAppend, Crash
<1>16. ASSUME NEW p \in Proc, Claim(p) \/ ClaimRename(p) \/ ClaimTouch(p) \/ Complete(p) PROVE BoundInv'
  BY <1>16, <1>1 DEF Claim, ClaimRename, ClaimTouch, Complete, storeVars
<1>17. ASSUME NEW p \in Proc, Prove(p) PROVE BoundInv'
  BY <1>17, <1>2, <1>3 DEF Prove, thenLog
<1>18. ASSUME NEW p \in Proc, Bind(p) PROVE BoundInv'
  <2>1. /\ UNCHANGED <<names, journal>>
        /\ \/ UNCHANGED entry
           \/ entry' = [entry EXCEPT ![p] = NoBind(req[p], "put", req[p].hash, "blocked", "")]
    BY <1>18 DEF Bind, thenLog, storeVars
  <2>2. ~Binds(NoBind(req[p], "put", req[p].hash, "blocked", ""))
    BY DEF NoBind, Binds, BindingStatus
  <2> QED
    BY <2>1, <2>2, <1>1, <1>2
<1>19. ASSUME NEW p \in Proc, ProveError(p) PROVE BoundInv'
  BY <1>19, <1>1 DEF ProveError, storeVars
<1>20. ASSUME NEW h \in Hash, LeaseExpires(h) PROVE BoundInv'
  BY <1>20, <1>1 DEF LeaseExpires, storeVars, locals
<1>21. CASE UNCHANGED vars
  BY <1>21, <1>1 DEF vars, storeVars, locals
<1>22. ASSUME NEW p \in Proc, ServeStep(p) \/ WorkerStep(p) PROVE BoundInv'
  BY <1>22, <1>6, <1>7, <1>8, <1>9, <1>10, <1>11, <1>12, <1>13, <1>14, <1>16, <1>17, <1>18
     DEF ServeStep, WorkerStep, Section
<1>23. \A p \in Proc : ~RepointReadError(p) /\ ~AppendReadError(p)
  BY NoReadFailedBefore
<1> QED
  BY <1>4, <1>5, <1>15, <1>19, <1>20, <1>21, <1>22, <1>23 DEF Next, FaultStep, put, putObject, Proc

(***************************************************************************)
(* "Names are only ever REPOINTED, never deleted" (nameRevision): on the    *)
(* filesystem store with the lock on, until a read of the store has failed, *)
(* a published name is bound whenever the index is read, whatever crashes   *)
(* and whichever append is lost.  (On Postgres it is not: see writeNames.)  *)
(***************************************************************************)
THEOREM PublishedStaysBound ==
    ASSUME LockOn, Backend = "fs"
    PROVE  Spec => [](NoReadFailed => NeverDeleted)
<1>1. Init => BoundUntilMisread
  BY InitBoundInv DEF BoundUntilMisread
<1>2. TypeInv /\ LockedUntilMisread /\ BoundUntilMisread /\ [Next]_vars => BoundUntilMisread'
  BY NextBoundInv, NoReadFailedBefore DEF BoundUntilMisread, LockedUntilMisread
<1>3. BoundUntilMisread => (NoReadFailed => NeverDeleted)
  BY DEF BoundUntilMisread, BoundInv
<1> QED
  BY <1>1, <1>2, <1>3, LockInvariant, PTL DEF Spec
=============================================================================
