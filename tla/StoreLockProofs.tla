-------------------------- MODULE StoreLockProofs --------------------------
(***************************************************************************)
(* Machine-checked proofs about StoreLock, for every set of callers and     *)
(* every TTL and timeout.                                                   *)
(***************************************************************************)
EXTENDS StoreLock, TLAPS

\* Every critical section fits in the TTL.
Prompt == MayOverrun = FALSE

(***************************************************************************)
(* What makes exclusion inductive: until a holder dies, the creator of the  *)
(* file is a live holder within the TTL while the file exists, so no caller *)
(* ever decides to remove it.                                               *)
(***************************************************************************)
OwnersHold ==
    /\ \A p \in Proc : pc[p] = "held" => owner = p
    /\ \A p \in Proc : pc[p] \notin {"remove", "crashed"}
    /\ owner # None => pc[owner] = "held" /\ age <= TTL

LockInv == TypeOK /\ (crashes = 0 => OwnersHold)

LEMMA InitLockInv == Init => LockInv
  BY LockAssumption DEF Init, LockInv, OwnersHold, TypeOK, Location

LEMMA NextLockInv == Prompt /\ LockInv /\ [Next]_vars => LockInv'
<1> SUFFICES ASSUME Prompt, LockInv, [Next]_vars
             PROVE  LockInv'
  OBVIOUS
<1> USE LockAssumption DEF LockInv, OwnersHold, TypeOK, Location
<1>1. ASSUME NEW p \in Proc, Start(p) PROVE LockInv'
  BY <1>1 DEF Start
<1>2. ASSUME NEW p \in Proc, Create(p) PROVE LockInv'
  BY <1>2 DEF Create
<1>3. ASSUME NEW p \in Proc, Stat(p) PROVE LockInv'
  BY <1>3 DEF Stat, Stale
<1>4. ASSUME NEW p \in Proc, Remove(p) PROVE LockInv'
  BY <1>4 DEF Remove
<1>5. ASSUME NEW p \in Proc, Deadline(p) PROVE LockInv'
  BY <1>5 DEF Deadline
<1>6. ASSUME NEW p \in Proc, Release(p) PROVE LockInv'
  BY <1>6 DEF Release
<1>7. ASSUME NEW p \in Proc, GiveUp(p) PROVE LockInv'
  BY <1>7 DEF GiveUp
<1>8. ASSUME NEW p \in Proc, Crash(p) PROVE LockInv'
  BY <1>8 DEF Crash
<1>9. ASSUME NEW p \in Proc, Restart(p) PROVE LockInv'
  BY <1>9 DEF Restart
<1>10. CASE Tick
  BY <1>10 DEF Tick, HolderAtLimit, Min2, Prompt
<1>11. CASE UNCHANGED vars
  BY <1>11 DEF vars
<1> QED
  BY <1>1, <1>2, <1>3, <1>4, <1>5, <1>6, <1>7, <1>8, <1>9, <1>10, <1>11 DEF Next, Step

LEMMA LockInvariant == ASSUME Prompt PROVE Spec => []LockInv
<1>1. LockInv /\ [Next]_vars => LockInv'
  BY NextLockInv
<1> QED
  BY InitLockInv, <1>1, PTL DEF Spec

(***************************************************************************)
(* Without overruns the O_EXCL lock file is a mutual exclusion lock until a *)
(* holder dies, for any number of callers.                                  *)
(***************************************************************************)
THEOREM PromptMutualExclusion == ASSUME Prompt PROVE Spec => []MutualExclusion
<1>1. LockInv => MutualExclusion
  BY DEF LockInv, OwnersHold, MutualExclusion, Holders
<1> QED
  BY LockInvariant, <1>1, PTL

(***************************************************************************)
(* Under the same conditions fsFileLock implements the mutex that Repoint   *)
(* and AppendLog are written against.                                       *)
(***************************************************************************)
THEOREM PromptImplementsMutex == ASSUME Prompt PROVE Spec => ImplementsMutex
<1>1. Init => Exclusive!Init
  BY DEF Init, Exclusive!Init, CrashFreeHolders, Holders
<1>2. LockInv /\ [Next]_vars => [Exclusive!Next]_CrashFreeHolders
  <2> SUFFICES ASSUME LockInv, [Next]_vars
               PROVE  [Exclusive!Next]_CrashFreeHolders
    OBVIOUS
  <2>1. CASE crashes # 0
    <3>1. crashes' # 0
      BY <2>1, LockAssumption
      DEF LockInv, TypeOK, Next, Start, Step, Create, Stat, Remove, Deadline, Release, GiveUp, Crash, Restart, Tick, vars
    <3> QED
      BY <2>1, <3>1 DEF CrashFreeHolders
  <2>2. CASE crashes = 0
    <3> USE <2>2, LockAssumption DEF LockInv, OwnersHold, TypeOK, Location, Holders, CrashFreeHolders
    <3>1. ASSUME NEW p \in Proc, Start(p) PROVE CrashFreeHolders' = CrashFreeHolders
      BY <3>1 DEF Start
    <3>2. ASSUME NEW p \in Proc, Create(p) PROVE [Exclusive!Next]_CrashFreeHolders
      <4>1. CASE owner = None
        <5>1. CrashFreeHolders = {}
          BY <4>1
        <5>2. CrashFreeHolders' = {p}
          BY <3>2, <4>1, <5>1 DEF Create
        <5> QED
          BY <5>1, <5>2 DEF Exclusive!Next, Exclusive!Acquire
      <4>2. CASE owner # None
        <5>1. CrashFreeHolders' = CrashFreeHolders
          BY <3>2, <4>2 DEF Create
        <5> QED
          BY <5>1
      <4> QED
        BY <4>1, <4>2
    <3>3. ASSUME NEW p \in Proc, Stat(p) PROVE CrashFreeHolders' = CrashFreeHolders
      BY <3>3 DEF Stat
    <3>4. ASSUME NEW p \in Proc, Remove(p) PROVE FALSE
      BY <3>4 DEF Remove
    <3>5. ASSUME NEW p \in Proc, Deadline(p) PROVE CrashFreeHolders' = CrashFreeHolders
      BY <3>5 DEF Deadline
    <3>6. ASSUME NEW p \in Proc, Release(p) PROVE [Exclusive!Next]_CrashFreeHolders
      <4>1. CrashFreeHolders = {p} /\ CrashFreeHolders' = {}
        BY <3>6 DEF Release
      <4> QED
        BY <4>1 DEF Exclusive!Next, Exclusive!Release
    <3>7. ASSUME NEW p \in Proc, GiveUp(p) PROVE CrashFreeHolders' = CrashFreeHolders
      BY <3>7 DEF GiveUp
    <3>8. ASSUME NEW p \in Proc, Crash(p) PROVE [Exclusive!Next]_CrashFreeHolders
      <4>1. CrashFreeHolders = {p} /\ CrashFreeHolders' = {}
        BY <3>8 DEF Crash
      <4> QED
        BY <4>1 DEF Exclusive!Next, Exclusive!Release
    <3>9. ASSUME NEW p \in Proc, Restart(p) PROVE FALSE
      BY <3>9 DEF Restart
    <3>10. CASE Tick
      BY <3>10 DEF Tick
    <3>11. CASE UNCHANGED vars
      BY <3>11 DEF vars
    <3> QED
      BY <3>1, <3>2, <3>3, <3>4, <3>5, <3>6, <3>7, <3>8, <3>9, <3>10, <3>11 DEF Next, Step
  <2> QED
    BY <2>1, <2>2
<1> QED
  BY LockInvariant, <1>1, <1>2, PTL DEF Spec, ImplementsMutex, Exclusive!Spec
=============================================================================
