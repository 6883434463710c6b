----------------------------- MODULE StoreLock -----------------------------
(***************************************************************************)
(* The cross-process store lock of oath/lock.go (fsFileLock): a lock file   *)
(* created with O_EXCL, broken by mtime staleness, waited for until a       *)
(* deadline.  One process is one call of fsFileLock; the code between two   *)
(* system calls is one action, because another process can run between any  *)
(* two of them.                                                             *)
(*                                                                          *)
(* Time is relative and saturating: `age` is the age of the lock file and   *)
(* `waited` the time since each caller started, each counted in ticks up to *)
(* one more than the limit the code compares it with.  The file stores its  *)
(* creator only as text nobody reads back; `owner` is a ghost that tells    *)
(* whose file it is.                                                        *)
(***************************************************************************)
EXTENDS Naturals, FiniteSets

CONSTANTS
    Proc,          \* callers of lock(): serve requests, the proof worker
    TTL,           \* storeLockTTL, in ticks
    Timeout,       \* storeLockTimeout, in ticks
    MaxCrash,      \* how many holders may die without releasing
    MayOverrun,    \* may a live holder keep the lock longer than TTL?
    None           \* no owner: the lock file does not exist

ASSUME LockAssumption ==
    /\ TTL \in Nat
    /\ Timeout \in Nat
    /\ MaxCrash \in Nat
    /\ MayOverrun \in BOOLEAN
    /\ None \notin Proc

VARIABLES
    owner,     \* creator of the lock file, None when there is no file
    age,       \* time since the file's mtime, saturating at TTL + 1
    pc,        \* where each caller is
    waited,    \* time since each caller entered fsFileLock, saturating
    crashes    \* holders lost so far

vars == <<owner, age, pc, waited, crashes>>

Location == {"idle", "create", "stat", "remove", "deadline", "held", "failed", "crashed"}

Min2(a, b) == IF a < b THEN a ELSE b

Init ==
    /\ owner = None
    /\ age = 0
    /\ pc = [p \in Proc |-> "idle"]
    /\ waited = [p \in Proc |-> 0]
    /\ crashes = 0

(***************************************************************************)
(* lock() is called: the deadline is computed once, before the loop.        *)
(***************************************************************************)
Start(p) ==
    /\ pc[p] = "idle"
    /\ pc' = [pc EXCEPT ![p] = "create"]
    /\ waited' = [waited EXCEPT ![p] = 0]
    /\ UNCHANGED <<owner, age, crashes>>

(***************************************************************************)
(* os.OpenFile(path, O_CREATE|O_EXCL): one winner, everybody else goes on   *)
(* to look at the file.                                                     *)
(***************************************************************************)
Create(p) ==
    /\ pc[p] = "create"
    /\ \/ /\ owner = None
          /\ owner' = p
          /\ age' = 0
          /\ pc' = [pc EXCEPT ![p] = "held"]
       \/ /\ owner # None
          /\ pc' = [pc EXCEPT ![p] = "stat"]
          /\ UNCHANGED <<owner, age>>
    /\ UNCHANGED <<waited, crashes>>

\* Mutant: >= for >, a lock is broken while its holder is still within the TTL.
StaleAtLimit == owner # None /\ age >= TTL

\* os.Stat succeeds and the file is older than storeLockTTL
Stale == owner # None /\ age > TTL

\* Mutant: nobody breaks a stale lock.
StatNeverStale(p) ==
    /\ pc[p] = "stat"
    /\ pc' = [pc EXCEPT ![p] = "deadline"]
    /\ UNCHANGED <<owner, age, waited, crashes>>

(***************************************************************************)
(* The staleness test.  A file that has gone since the failed create is not *)
(* stale: the caller falls through to the deadline test.                    *)
(***************************************************************************)
Stat(p) ==
    /\ pc[p] = "stat"
    /\ pc' = [pc EXCEPT ![p] = IF Stale THEN "remove" ELSE "deadline"]
    /\ UNCHANGED <<owner, age, waited, crashes>>

(***************************************************************************)
(* os.Remove(path): unconditional.  It removes whatever file has the name   *)
(* now, which need not be the file that was found stale.                    *)
(***************************************************************************)
Remove(p) ==
    /\ pc[p] = "remove"
    /\ owner' = None
    /\ pc' = [pc EXCEPT ![p] = "create"]
    /\ UNCHANGED <<age, waited, crashes>>

\* Mutant: the deadline is pushed back in every round.
DeadlineRenewed(p) ==
    /\ pc[p] = "deadline"
    /\ pc' = [pc EXCEPT ![p] = IF waited[p] > Timeout THEN "failed" ELSE "create"]
    /\ waited' = [waited EXCEPT ![p] = 0]
    /\ UNCHANGED <<owner, age, crashes>>

\* The deadline test: give up, or sleep one poll interval and try again.
Deadline(p) ==
    /\ pc[p] = "deadline"
    /\ pc' = [pc EXCEPT ![p] = IF waited[p] > Timeout THEN "failed" ELSE "create"]
    /\ UNCHANGED <<owner, age, waited, crashes>>

\* The release closure: os.Remove(path), again whatever file that is.
Release(p) ==
    /\ pc[p] = "held"
    /\ owner' = None
    /\ pc' = [pc EXCEPT ![p] = "idle"]
    /\ UNCHANGED <<age, waited, crashes>>

\* The error reached the caller, which may call lock() again later.
GiveUp(p) ==
    /\ pc[p] = "failed"
    /\ pc' = [pc EXCEPT ![p] = "idle"]
    /\ UNCHANGED <<owner, age, waited, crashes>>

\* The holder's process dies inside its critical section and leaves the file.
Crash(p) ==
    /\ pc[p] = "held"
    /\ crashes < MaxCrash
    /\ crashes' = crashes + 1
    /\ pc' = [pc EXCEPT ![p] = "crashed"]
    /\ UNCHANGED <<owner, age, waited>>

\* A crashed process is started again.
Restart(p) ==
    /\ pc[p] = "crashed"
    /\ pc' = [pc EXCEPT ![p] = "idle"]
    /\ UNCHANGED <<owner, age, waited, crashes>>

\* A live holder has used up the TTL.
HolderAtLimit == owner # None /\ pc[owner] = "held" /\ age >= TTL

(***************************************************************************)
(* Time passes.  "The critical sections are milliseconds; the TTL is        *)
(* generous" (lock.go): unless MayOverrun, a live holder is done by then.   *)
(***************************************************************************)
Tick ==
    /\ MayOverrun \/ ~HolderAtLimit
    /\ age' = Min2(age + 1, TTL + 1)
    /\ waited' = [p \in Proc |-> Min2(waited[p] + 1, Timeout + 1)]
    /\ UNCHANGED <<owner, pc, crashes>>

Step(p) == Create(p) \/ Stat(p) \/ Remove(p) \/ Deadline(p)

Next ==
    \/ \E p \in Proc : Start(p) \/ Step(p) \/ Release(p) \/ GiveUp(p) \/ Crash(p) \/ Restart(p)
    \/ Tick

(***************************************************************************)
(* Fairness: the loop of a waiting caller keeps running, a critical section *)
(* ends, and the clock moves.  Nobody is obliged to call lock().            *)
(***************************************************************************)
Fairness ==
    /\ \A p \in Proc : WF_vars(Step(p)) /\ WF_vars(Release(p))
    /\ WF_vars(Tick)

Spec == Init /\ [][Next]_vars

FairSpec == Spec /\ Fairness
-----------------------------------------------------------------------------
TypeOK ==
    /\ owner \in Proc \union {None}
    /\ age \in 0 .. TTL + 1
    /\ pc \in [Proc -> Location]
    /\ waited \in [Proc -> 0 .. Timeout + 1]
    /\ crashes \in 0 .. MaxCrash

Holders == {p \in Proc : pc[p] = "held"}

(***************************************************************************)
(* The exclusion that Repoint and AppendLog rely on: as long as no holder   *)
(* has died with the file in place, it has one live holder at a time.  (Two *)
(* callers that find a dead holder's file stale can remove each other's     *)
(* new file: breaking a lock is where the exclusion ends.)                  *)
(***************************************************************************)
MutualExclusion == crashes = 0 => \A p, q \in Holders : p = q

(***************************************************************************)
(* fsFileLock refines the mutex the store assumes, up to the first crash,   *)
(* which the mutex sees as the release of the dead holder.                  *)
(***************************************************************************)
CrashFreeHolders == IF crashes = 0 THEN Holders ELSE {}

Exclusive == INSTANCE Mutex WITH holders <- CrashFreeHolders

ImplementsMutex == Exclusive!Spec

(***************************************************************************)
(* Every call of fsFileLock comes back: with the lock, or with the timeout  *)
(* error, however often the lock changes hands or is broken meanwhile.      *)
(***************************************************************************)
EveryCallReturns ==
    \A p \in Proc : pc[p] = "create" ~> pc[p] \in {"held", "failed"}

(***************************************************************************)
(* A crashed holder does not wedge the store: while anybody still waits,    *)
(* the file it left behind is removed.                                      *)
(***************************************************************************)
Orphaned == owner # None /\ pc[owner] # "held"

Waiting == \E p \in Proc : pc[p] \in {"create", "stat", "remove", "deadline"}

CrashedLockIsBroken ==
    []<>Waiting => (Orphaned ~> ~Orphaned)
=============================================================================
