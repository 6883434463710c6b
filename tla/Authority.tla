----------------------------- MODULE Authority -----------------------------
(***************************************************************************)
(* Reserving, delegating, transferring and publishing (apiReserve,          *)
(* apiDelegate, apiTransfer, admitPut with evalPolicy).  Every handler      *)
(* decides on the journal as it is then and appends in a later step:        *)
(* AppendLog's lock covers the append, not the decision.                    *)
(***************************************************************************)
EXTENDS AuthorityFold

CONSTANTS
    Handler,        \* request handlers of one registry
    MaxHeld,        \* maxReservationsPerPrincipal
    Scope,          \* scopes of grants; None grants the whole prefix
    Reclaim,        \* may a holder reserve again what it holds?
    MaxSigned,      \* bound: statements signed
    MaxStated,      \* bound: journal entries after which no statement is served
    MaxJournal      \* bound: journal entries after which nothing is

VARIABLES
    journal,        \* sequence of [body, since]
    names,          \* the name index
    author,         \* Meta.Author of every stored object
    policy,         \* policy.json: absent at first, read by every publication
    statements,     \* signed statements, held by their signers
    pc, job,        \* per handler: where it is, the entry it is about to append
    since           \* ghost: length of the journal when the request arrived

vars == <<journal, names, author, policy, statements, pc, job, since>>

ASSUME AuthorityAssumption == None \notin Key /\ MaxHeld \in Nat

Init ==
    /\ journal = <<>>
    /\ names = [n \in Name |-> None]
    /\ author = [h \in Hash |-> None]
    /\ policy = <<>>
    /\ statements = {}
    /\ pc = [p \in Handler |-> "idle"]
    /\ job = [p \in Handler |-> None]
    /\ since = [p \in Handler |-> 0]

Entry(kind, name, hash, status, k, env) ==
    [kind |-> kind, name |-> name, hash |-> hash, status |-> status,
     author |-> k, env |-> env]

-----------------------------------------------------------------------------
(* Clients: read the current state, check what the command checks, sign.    *)
(* `at` is a ghost: the journal position the signer had seen.               *)

Sign(s) ==
    /\ Cardinality(statements) < MaxSigned
    /\ statements' = statements \cup {s}
    /\ UNCHANGED <<journal, names, author, policy, pc, job, since>>

cmdReserve(k, ns) ==
    LET cur == reservationRev(journal, ns)
    IN  /\ cur.key = None \/ (cur.key = k /\ Reclaim)
        /\ Sign([op |-> "reserve", ns |-> ns, authority |-> cur.key, rev |-> cur.rev,
                 by |-> k, at |-> Len(journal)])

cmdDelegate(k, op, ns, subject, scope) ==
    LET cur == reservationRev(journal, ns)
    IN  /\ cur.key = k
        /\ subject # k
        /\ validScopeUnder(scope, ns)
        /\ op = "revoke" => scope = None
        /\ Sign([op |-> op, ns |-> ns, subject |-> subject, scope |-> scope,
                 authority |-> k, rev |-> cur.rev, drev |-> delegationRev(journal, ns),
                 by |-> k, at |-> Len(journal)])

\* Both parties sign the same bytes; the attempt is a fresh nonce.
cmdTransfer(k, ns, to) ==
    LET cur == reservationRev(journal, ns)
    IN  /\ cur.key = k
        /\ to # k
        /\ Sign([op |-> "transfer", ns |-> ns, from |-> k, to |-> to, rev |-> cur.rev,
                 attempt |-> Cardinality(statements), by |-> k, at |-> Len(journal)])

-----------------------------------------------------------------------------
(* Handlers.  A decision either leaves the handler with an entry to append  *)
(* or ends the request without a trace.                                     *)

Room(max) == Len(journal) + Cardinality({p \in Handler : pc[p] # "idle"}) < max

Answer(p, e) ==
    /\ pc[p] = "idle"
    /\ Room(MaxStated)
    /\ pc' = [pc EXCEPT ![p] = "append"]
    /\ job' = [job EXCEPT ![p] = e]
    /\ since' = [since EXCEPT ![p] = Len(journal)]
    /\ UNCHANGED <<journal, names, author, policy, statements>>

\* Mutant: the overlap test looks upwards only.
MayReserveInside(s) ==
    LET cur == reservationRev(journal, s.ns)
    IN  /\ s.authority = cur.key /\ s.rev = cur.rev
        /\ cur.key \in {None, s.by}
        /\ \A ns \in reservations(journal) \ {s.ns} :
              reservationRev(journal, ns).key # s.by => ~IsPrefix(ns, s.ns)
        /\ cur.key # s.by => Cardinality(HeldBy(journal, s.by)) < MaxHeld

\* apiReserve's rules after signature and principal; a refusal is not journalled.
MayReserve(s) ==
    LET cur == reservationRev(journal, s.ns)
    IN  /\ s.authority = cur.key /\ s.rev = cur.rev
        /\ cur.key \in {None, s.by}
        /\ \A ns \in reservations(journal) \ {s.ns} :
              reservationRev(journal, ns).key # s.by => ~namespaceOverlaps(ns, s.ns)
        /\ cur.key # s.by => Cardinality(HeldBy(journal, s.by)) < MaxHeld

apiReserve(p, s) ==
    /\ s.op = "reserve"
    /\ MayReserve(s)
    /\ Answer(p, Entry("reserve", s.ns, None, "accepted", s.by, s))

\* Mutant: the permission state is not compared.
MayDelegateNoRev(s) ==
    LET cur    == reservationRev(journal, s.ns)
        active == delegates(journal, s.ns)[s.subject]
    IN  /\ cur.key = s.by /\ s.authority = cur.key /\ s.rev = cur.rev
        /\ IF s.op = "revoke" THEN active # None
           ELSE active # (IF s.scope = None THEN Prefix(s.ns) ELSE s.scope)

\* apiDelegate's rules; the permission-state compare-and-swap is the drev test.
MayDelegate(s) ==
    LET cur    == reservationRev(journal, s.ns)
        active == delegates(journal, s.ns)[s.subject]
    IN  /\ cur.key = s.by /\ s.authority = cur.key /\ s.rev = cur.rev
        /\ s.drev = delegationRev(journal, s.ns)
        /\ IF s.op = "revoke" THEN active # None
           ELSE active # (IF s.scope = None THEN Prefix(s.ns) ELSE s.scope)

apiDelegate(p, s) ==
    /\ s.op \in {"delegate", "revoke"}
    /\ Answer(p, Entry("delegate", s.ns, None,
                       IF MayDelegate(s) THEN "accepted" ELSE "rejected", s.by, s))

MayTransfer(s) ==
    LET cur == reservationRev(journal, s.ns)
    IN  /\ cur.key = s.from /\ s.rev = cur.rev
        /\ Cardinality(HeldBy(journal, s.to)) < MaxHeld

AttemptFresh(s) == s.attempt \notin consumedAttempts(journal)

\* A spent attempt is refused before the refusals that are journalled.
apiTransfer(p, s) ==
    /\ s.op = "transfer"
    /\ AttemptFresh(s)
    /\ Answer(p, Entry("transfer", s.ns, None,
                       IF MayTransfer(s) THEN "accepted" ELSE "rejected", s.from, s))

\* admitPut up to StoreObject: the metadata of the hash now names k as author.
StoreObject(p, k, n, h) ==
    /\ pc[p] = "idle"
    /\ Room(MaxJournal)
    /\ author' = [author EXCEPT ![h] = k]
    /\ pc' = [pc EXCEPT ![p] = "decide"]
    /\ job' = [job EXCEPT ![p] = Entry("put", n, h, "accepted", k, None)]
    /\ since' = [since EXCEPT ![p] = Len(journal)]
    /\ UNCHANGED <<journal, names, policy, statements>>

\* Mutant: whoever first bound a name keeps it, under a reservation or not.
NamespaceAllowsOwner(lines, n, k) ==
    LET ns == governingReservation(lines, n)
    IN  \/ ns = None
        \/ nameOwner(lines, n) = k
        \/ mayBindUnder(lines, ns, k, n)

\* evalPolicy's namespace part: retention covers names older than the reservation.
NamespaceAllows(lines, n, k) ==
    LET ns    == governingReservation(lines, n)
        res   == reservationRev(lines, ns)
        owner == nameOwner(lines, n)
        predates == owner # None /\ nameFirstBoundSeq(lines, n) < res.seq
    IN  \/ ns = None
        \/ predates /\ owner # res.key
        \/ mayBindUnder(lines, ns, k, n)

OwnershipAllows(rules, lines, n, k) ==
    LET rule == ruleFor(rules, n)
    IN  \/ rule = None
        \/ /\ rule.owner = None /\ rule.tofu => nameOwner(lines, n) \in {None, k}
           /\ rule.owner \in {None, k}

\* evalPolicy asks the METADATA of the hash who the submitter is.
evalPolicy(n, h) ==
    NamespaceAllows(journal, n, author[h]) /\ OwnershipAllows(policy, journal, n, author[h])

Decide(p) ==
    LET e == job[p]
    IN  /\ pc[p] = "decide"
        /\ IF evalPolicy(e.name, e.hash)
           THEN pc' = [pc EXCEPT ![p] = "repoint"] /\ UNCHANGED job
           ELSE /\ pc' = [pc EXCEPT ![p] = "append"]
                /\ job' = [job EXCEPT ![p].status = "blocked"]
        /\ UNCHANGED <<journal, names, author, policy, statements, since>>

Repoint(p) ==
    /\ pc[p] = "repoint"
    /\ names' = [names EXCEPT ![job[p].name] = job[p].hash]
    /\ pc' = [pc EXCEPT ![p] = "append"]
    /\ UNCHANGED <<journal, author, policy, statements, job, since>>

AppendLog(p) ==
    /\ pc[p] = "append"
    /\ journal' = Append(journal, [body |-> job[p], since |-> since[p]])
    /\ pc' = [pc EXCEPT ![p] = "idle"]
    /\ job' = [job EXCEPT ![p] = None]
    /\ since' = [since EXCEPT ![p] = 0]
    /\ UNCHANGED <<names, author, policy, statements>>

\* The operator turns ownership enforcement on.
EnforceOwnership ==
    /\ policy = <<>>
    /\ policy' = Policy
    /\ UNCHANGED <<journal, names, author, statements, pc, job, since>>

Next ==
    \/ EnforceOwnership
    \/ \E k \in Key, ns \in Namespace :
          \/ cmdReserve(k, ns)
          \/ \E q \in Key, sc \in Scope : cmdDelegate(k, "delegate", ns, q, sc)
          \/ \E q \in Key : cmdDelegate(k, "revoke", ns, q, None)
          \/ \E q \in Key : cmdTransfer(k, ns, q)
    \/ \E p \in Handler :
          \/ \E s \in statements : apiReserve(p, s) \/ apiDelegate(p, s) \/ apiTransfer(p, s)
          \/ \E k \in Key, n \in Name, h \in Hash : StoreObject(p, k, n, h)
          \/ Decide(p) \/ Repoint(p) \/ AppendLog(p)

Spec == Init /\ [][Next]_vars

-----------------------------------------------------------------------------
\* Statements, and the entries that carry them; a publication carries none here.
ReserveStatement ==
    [op : {"reserve"}, ns : Namespace, authority : Key \cup {None}, rev : Nat, by : Key, at : Nat]
GrantStatement ==
    [op : {"delegate", "revoke"}, ns : Namespace, subject : Key, scope : Scope \cup {None},
     authority : Key, rev : Nat, drev : Nat, by : Key, at : Nat]
TransferStatement ==
    [op : {"transfer"}, ns : Namespace, from : Key, to : Key, rev : Nat, attempt : Nat,
     by : Key, at : Nat]

Carrying(kind, status, S) ==
    [kind : {kind}, name : Namespace, hash : {None}, status : status, author : Key, env : S]
PutEntry ==
    [kind : {"put"}, name : Name, hash : Hash, status : {"accepted", "blocked"}, author : Key, env : {None}]
Body ==
    PutEntry \cup Carrying("reserve", {"accepted"}, ReserveStatement)
             \cup Carrying("delegate", {"accepted", "rejected"}, GrantStatement)
             \cup Carrying("transfer", {"accepted", "rejected"}, TransferStatement)

TypeOK ==
    /\ journal \in Seq([body : Body, since : Nat])
    /\ \A i \in DOMAIN journal : journal[i].since < i
    /\ names \in [Name -> Hash \cup {None}]
    /\ author \in [Hash -> Key \cup {None}]
    /\ statements \subseteq ReserveStatement \cup GrantStatement \cup TransferStatement
    /\ \A s \in statements : s.at <= Len(journal)
    /\ pc \in [Handler -> {"idle", "decide", "repoint", "append"}]
    /\ since \in [Handler -> 0 .. Len(journal)]
    /\ job \in [Handler -> Body \cup {None}]
    /\ \A p \in Handler :
          CASE pc[p] = "idle" -> job[p] = None
            [] pc[p] = "append" -> job[p] \in Body
            [] OTHER -> job[p] \in PutEntry /\ job[p].status = "accepted"

\* The registry serves one request at a time (a constraint for runs, an assumption of proofs).
OneAtATime == \A p, q \in Handler : p # q => pc[p] = "idle" \/ pc[q] = "idle"

Upto(i) == SubSeq(journal, 1, i)

\* Bindings the journal records under a reservation that is older than the name.
UnderReservation(i) ==
    LET n  == journal[i].body.name
        ns == governingReservation(Upto(i - 1), n)
    IN  /\ journal[i].body.kind = "put" /\ journal[i].body.status = "accepted"
        /\ ns # None
        /\ \E j \in 1 .. nameFirstBoundSeq(Upto(i - 1), n) - 1 :
              j < i /\ Accepted(journal, j, "reserve") /\ journal[j].body.name = ns

(***************************************************************************)
(* DEL-REVOCATION-RECOVERS (policy.go, evalPolicy): what was published      *)
(* under a reservation stays under it.  Every later binding of such a name  *)
(* is by a key that was holder or in-scope delegate at some moment while    *)
(* the request was served, whoever published the name first: a revoked      *)
(* delegate, or the holder of before a transfer, does not bind it again.    *)
(***************************************************************************)
RevocationRecovers ==
    \A i \in DOMAIN journal : UnderReservation(i) =>
        \E m \in journal[i].since .. i - 1 :
            LET ns == governingReservation(Upto(m), journal[i].body.name)
            IN  ns = None \/ mayBindUnder(Upto(m), ns, journal[i].body.author, journal[i].body.name)

(***************************************************************************)
(* XFER-NO-CAPTURE as the documentation has it: whoever owned a name under  *)
(* a prefix, and could bind it, still can when the prefix is handed over.   *)
(* evalPolicy keeps this for names older than the reservation only.         *)
(***************************************************************************)
TransferKeepsNames ==
    \A i \in DOMAIN journal, n \in Name :
        LET owner == nameOwner(Upto(i - 1), n)
        IN  Accepted(journal, i, "transfer") /\ owner # None /\ NamespaceAllows(Upto(i - 1), n, owner)
              => NamespaceAllows(Upto(i), n, owner)

(***************************************************************************)
(* What delegates promises: "a grant counts only if the grantor WAS THE     *)
(* HOLDER AT THE TIME".  The code compares with the holder at the end of    *)
(* the journal; the reference replays holders and grants together.          *)
(***************************************************************************)
appointedAtTheTime(lines, ns) ==
    LET held == holding(lines, ns)
        set[i \in 0 .. Len(lines)] ==
          IF i = 0 THEN Nobody
          ELSE IF held[i].key # held[i - 1].key THEN Nobody
          ELSE delegatesStep(lines[i].body, ns, held[i - 1].key, set[i - 1])
    IN  set

DelegatesMatchHistory ==
    \A ns \in Namespace : delegates(journal, ns) = appointedAtTheTime(journal, ns)[Len(journal)]

(***************************************************************************)
(* Revocation is durable (delegate.go, DelegationRev): no grant signed      *)
(* before a revocation takes effect after it.                               *)
(***************************************************************************)
RevocationIsDurable ==
    \A i, j \in DOMAIN journal :
        /\ i < j
        /\ Accepted(journal, i, "delegate") /\ journal[i].body.env.op = "revoke"
        /\ Accepted(journal, j, "delegate") /\ journal[j].body.env.op = "delegate"
        /\ journal[i].body.name = journal[j].body.name
        /\ journal[i].body.env.subject = journal[j].body.env.subject
        => journal[j].body.env.at >= i

(***************************************************************************)
(* Who is a delegate is what the signed history says, and a revocation in   *)
(* it is final for every grant signed before it.                            *)
(***************************************************************************)
DelegationIsHistory == DelegatesMatchHistory /\ RevocationIsDurable

(***************************************************************************)
(* RES-FIRST-COME: overlapping prefixes belong to one key, unless one of    *)
(* them was handed over; and nobody holds more than the limit, by whatever  *)
(* mixture of reservations and transfers.                                   *)
(***************************************************************************)
FirstComeWithinLimit ==
    /\ \A a, b \in reservations(journal) :
          \/ ~namespaceOverlaps(a, b)
          \/ reservationRev(journal, a).key = reservationRev(journal, b).key
          \/ \E i \in DOMAIN journal :
                Accepted(journal, i, "transfer") /\ journal[i].body.name \in {a, b}
    /\ \A k \in Key : Cardinality(HeldBy(journal, k)) <= MaxHeld

(***************************************************************************)
(* The census (ownership.go) is a go/no-go signal: where no reservation     *)
(* governs a name and the census says that enforcement would let its last   *)
(* publisher go on, evalPolicy under the enforced rules does let it.        *)
(***************************************************************************)
CensusPredicts ==
    \A n \in Name : governingReservation(journal, n) = None =>
        LET taken == Publications(journal, n)
        IN  \A i \in taken :
                /\ \A j \in taken : j <= i
                /\ wouldEnforcementAllow(Policy, journal, n)
                => OwnershipAllows(Policy, journal, n, journal[i].body.author)
=============================================================================
