---------------------------- MODULE JournalFold ----------------------------
(***************************************************************************)
(* What readers derive from the journal (oath/store.go, oath/api.go): the   *)
(* chain, the fold that gives every entry its transition, a name's revision *)
(* and the checks of VerifyLog.  Operators only; Registry holds the state.  *)
(*                                                                          *)
(* A line is [seq, body, chain]; a body is the authored part of a LogEntry: *)
(*   kind, name, hash, prev, status - as in the source;                     *)
(*   stated - the stored name_transition, "" when the writer left it out;   *)
(*   env    - the author's signed statement [name, artifact, parent, rev],  *)
(*            None when the entry carries no author record.                 *)
(* None stands for the empty string in hash and prev, and for noParent.     *)
(***************************************************************************)
EXTENDS Domains, Naturals, Sequences, FiniteSets

(***************************************************************************)
(* SHA-256(anchor, entry sans chain).  Without collisions a hash is as good *)
(* as what it was computed from: a chain value is the sequence of entries   *)
(* it commits to.                                                           *)
(***************************************************************************)
chainHash(anchor, seq, body) == Append(anchor, [seq |-> seq, body |-> body])

\* The chain of the last line; the hash of the empty prefix before the first.
chainAnchor(lines) == IF lines = <<>> THEN <<>> ELSE lines[Len(lines)].chain

(***************************************************************************)
(* AppendLog's line for `body` after the prefix it read.                    *)
(***************************************************************************)
nextLine(prior, body) ==
    [seq   |-> Len(prior) + 1,
     body  |-> body,
     chain |-> chainHash(chainAnchor(prior), Len(prior) + 1, body)]

\* Mutant: a publication counter, not a state version.
nameTransitionCounts(prev, h) == "applied"

\* nameTransition: what the writer states after Repoint returned prev
nameTransition(prev, h) == IF prev = h THEN "unchanged" ELSE "applied"

\* prove entries concern an artifact and touch no name
BindingKinds == {"func", "data", "put"}

BindingStatus == {"accepted", "falsified"}

deriveTransition(e, bound) ==
    IF e.kind \in BindingKinds /\ e.status \in BindingStatus
    THEN IF e.hash # None /\ e.hash = bound THEN "unchanged" ELSE "applied"
    ELSE "none"

(***************************************************************************)
(* The fold of nameTransitions: what n is bound to after each prefix.       *)
(***************************************************************************)
boundAfter(lines, n) ==
    LET bound[i \in 0 .. Len(lines)] ==
          IF i = 0 THEN None
          ELSE IF /\ lines[i].body.name = n
                  /\ deriveTransition(lines[i].body, bound[i - 1]) = "applied"
               THEN lines[i].body.hash
               ELSE bound[i - 1]
    IN  bound

\* The derived transition of every line.
derivedTransitionsByIndex(lines) ==
    [i \in 1 .. Len(lines) |->
        deriveTransition(lines[i].body, boundAfter(lines, lines[i].body.name)[i - 1])]

AppliedTo(lines, n) ==
    {i \in 1 .. Len(lines) :
        lines[i].body.name = n /\ derivedTransitionsByIndex(lines)[i] = "applied"}

(***************************************************************************)
(* nameRevision: the hash from the name INDEX, the count from the journal.  *)
(***************************************************************************)
nameRevision(lines, index, n) ==
    LET rev == Cardinality(AppliedTo(lines, n))
    IN  IF index[n] = None \/ rev = 0
        THEN [parent |-> None, rev |-> 0]
        ELSE [parent |-> index[n], rev |-> rev]

\* The same head computed by a party that holds only the journal.
journalHead(lines, n) ==
    nameRevision(lines, [m \in {n} |-> boundAfter(lines, n)[Len(lines)]], n)

\* Mutant: the revision is not compared, so an A-B-A name revives old statements.
checkPublicationNoRev(env, n, h, head) ==
    env.name = n /\ env.artifact = h /\ env.parent = head.parent

(***************************************************************************)
(* checkPublication, for a statement whose signature and principal are      *)
(* good: the signed transition is the one about to be made.                 *)
(***************************************************************************)
checkPublication(env, n, h, head) ==
    /\ env.name = n
    /\ env.artifact = h
    /\ env.parent = head.parent
    /\ env.rev = head.rev

(***************************************************************************)
(* VerifyLog, clause by clause.                                             *)
(***************************************************************************)
ChainVerifies(lines) ==
    \A i \in 1 .. Len(lines) :
        /\ lines[i].seq = i
        /\ lines[i].chain = chainHash(IF i = 1 THEN <<>> ELSE lines[i - 1].chain, i, lines[i].body)

TransitionsVerify(lines) ==
    \A i \in 1 .. Len(lines) :
        lines[i].body.stated \in {"", derivedTransitionsByIndex(lines)[i]}

AuthorsVerify(lines) ==
    \A i \in 1 .. Len(lines) :
        LET e == lines[i].body
        IN  e.env # None /\ derivedTransitionsByIndex(lines)[i] = "applied"
              => e.env.name = e.name /\ e.env.artifact = e.hash /\ e.env.parent = e.prev

VerifyLog(lines) == ChainVerifies(lines) /\ TransitionsVerify(lines) /\ AuthorsVerify(lines)
=============================================================================
