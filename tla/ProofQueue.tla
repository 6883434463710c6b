----------------------------- MODULE ProofQueue -----------------------------
(***************************************************************************)
(* The proof queue on the filesystem store (oath/proofq.go and the proofq/  *)
(* part of oath/backend.go).  A job is the file <hash>.job; a worker that   *)
(* claims it renames the file to <hash>.lease; a lease whose mtime is older *)
(* than the TTL can be claimed again; completing removes both files.        *)
(*                                                                          *)
(* The file name is the HASH, so there is at most one job and one lease per *)
(* hash whatever names wait for it.  This module is the queue's state and   *)
(* its operations; Registry composes them with the handlers that call them. *)
(***************************************************************************)
EXTENDS Domains

VARIABLES
    job,     \* <hash>.job: the name that waits for the proof, or None
    lease,   \* <hash>.lease: the name in the leased job, or None
    stale    \* the hashes whose lease is older than the lease TTL

queueVars == <<job, lease, stale>>

QueueTypeOK ==
    /\ job \in [Hash -> Name \union {None}]
    /\ lease \in [Hash -> Name \union {None}]
    /\ stale \in SUBSET Hash

QueueInit ==
    /\ job = [h \in Hash |-> None]
    /\ lease = [h \in Hash |-> None]
    /\ stale = {}

\* EnqueueProof: write <hash>.job, over whatever job that file held.
enqueueProof(h, n) ==
    /\ job' = [job EXCEPT ![h] = n]
    /\ UNCHANGED <<lease, stale>>

\* What claimProof may pick up: any job file, and any lease past its TTL.
FreshClaim(h) == job[h] # None

\* Mutant: a lease is never reclaimed.
StaleClaimNever(h) == FALSE

StaleClaim(h) == lease[h] # None /\ h \in stale

(***************************************************************************)
(* The second half of claimProof, after the file was read: rename the job   *)
(* to the lease, which moves the content the file has NOW and replaces any  *)
(* lease of that hash; then touch the lease.  A rename whose source is gone *)
(* claims nothing.                                                          *)
(***************************************************************************)
renameToLease(h) ==
    /\ job[h] # None
    /\ lease' = [lease EXCEPT ![h] = job[h]]
    /\ job' = [job EXCEPT ![h] = None]
    /\ stale' = stale \ {h}

\* A reclaimed lease is not renamed, only touched.
touchLease(h) ==
    /\ stale' = stale \ {h}
    /\ UNCHANGED <<job, lease>>

\* completeProof: remove <hash>.lease and <hash>.job, both unconditionally.
completeProof(h) ==
    /\ lease' = [lease EXCEPT ![h] = None]
    /\ job' = [job EXCEPT ![h] = None]
    /\ stale' = stale \ {h}

\* A lease outlives the TTL: its worker died, or is slow.
leaseExpires(h) ==
    /\ lease[h] # None
    /\ h \notin stale
    /\ stale' = stale \union {h}
    /\ UNCHANGED <<job, lease>>
=============================================================================
