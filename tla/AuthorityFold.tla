--------------------------- MODULE AuthorityFold ---------------------------
(***************************************************************************)
(* Who may bind a name, derived from the journal (oath/reserve.go,          *)
(* delegate.go, transfer.go, policy.go, ownership.go).  Nothing of this is  *)
(* stored: holders, delegates, revisions and owners are folds.  Operators   *)
(* only; Authority holds the state.                                         *)
(*                                                                          *)
(* A name is the sequence of its segments, a namespace "a/b/*" the sequence *)
(* <<a, b>>, a policy pattern one of the three forms of patternSpecificity. *)
(* Statements carry no signature: parsing and verification accept exactly   *)
(* what the encoders emit and the key signed.                               *)
(***************************************************************************)
EXTENDS JournalFold, SequencesExt

CONSTANTS
    Key,            \* principals: public keys
    Namespace,      \* prefixes that clients claim
    Policy          \* the rules the operator may put into policy.json, in file order

-----------------------------------------------------------------------------
(* Patterns. *)

Exact(n)  == [form |-> "exact", path |-> n]
Prefix(p) == [form |-> "prefix", path |-> p]
Everything == [form |-> "any", path |-> <<>>]

patternSpecificity(p, n) ==
    CASE p = Exact(n) -> Len(n) + 1
      [] p.form = "any" -> 0
      [] p.form = "prefix" /\ IsStrictPrefix(p.path, n) -> Len(p.path)
      [] OTHER -> -1

Covers(p, n) == patternSpecificity(p, n) >= 0

namespaceCovers(ns, n) == Covers(Prefix(ns), n)

namespaceOverlaps(a, b) == IsPrefix(a, b) \/ IsPrefix(b, a)

protocolRoots == {"key", "sys"}

validNamespacePattern(ns) == ns # <<>> /\ Head(ns) \notin protocolRoots

\* An exact name or a sub-prefix strictly under ns; None is the whole prefix.
validScopeUnder(scope, ns) ==
    scope # None => scope.form # "any" /\ IsStrictPrefix(ns, scope.path)

\* Policy.validate: nothing empty, and no pattern in two rules.
validPolicy(rules) ==
    /\ \A i \in DOMAIN rules : rules[i].names # {}
    /\ \A i, j \in DOMAIN rules : i # j => rules[i].names \cap rules[j].names = {}
    /\ \A i \in DOMAIN rules : \A p \in rules[i].names :
          IF p.form = "any" THEN p = Everything ELSE p.path # <<>>

\* matchedPattern's score: the best of a rule's patterns.
RuleScore(rule, n) ==
    CHOOSE s \in {patternSpecificity(p, n) : p \in rule.names} :
        \A p \in rule.names : patternSpecificity(p, n) <= s

ruleFor(rules, n) ==
    LET matching == {i \in DOMAIN rules : RuleScore(rules[i], n) >= 0}
    IN  IF matching = {} THEN None
        ELSE rules[CHOOSE i \in matching :
                     \A j \in matching : RuleScore(rules[j], n) <= RuleScore(rules[i], n)]

ASSUME PolicyAssumption == validPolicy(Policy)
ASSUME NamespaceAssumption == \A ns \in Namespace : validNamespacePattern(ns)

-----------------------------------------------------------------------------
(* The folds.  An authority entry's body has kind "reserve", "delegate" or  *)
(* "transfer", the namespace as its name, and the statement as its env.     *)

Accepted(lines, i, op) ==
    lines[i].body.kind = op /\ lines[i].body.status = "accepted"

Unclaimed == [key |-> None, rev |-> 0, seq |-> 0]

\* reservations: one step of the replay for namespace ns.
reservationStep(e, i, ns, cur) ==
    IF e.status # "accepted" \/ e.name # ns THEN cur
    ELSE CASE e.kind = "transfer" ->
                IF cur.key = e.env.from /\ cur.key # None /\ e.env.rev + 1 > cur.rev
                THEN [key |-> e.env.to, rev |-> e.env.rev + 1, seq |-> cur.seq]
                ELSE cur
           [] e.kind = "reserve" ->
                IF e.env.rev + 1 > cur.rev
                THEN [key |-> e.env.by, rev |-> e.env.rev + 1, seq |-> i]
                ELSE cur
           [] OTHER -> cur

\* The holder of ns after every prefix of the journal.
holding(lines, ns) ==
    LET held[i \in 0 .. Len(lines)] ==
          IF i = 0 THEN Unclaimed
          ELSE reservationStep(lines[i].body, i, ns, held[i - 1])
    IN  held

reservationRev(lines, ns) == holding(lines, ns)[Len(lines)]

reservations(lines) == {ns \in Namespace : reservationRev(lines, ns).key # None}

HeldBy(lines, k) == {ns \in reservations(lines) : reservationRev(lines, ns).key = k}

\* governingReservation: the most specific one, None when nobody reserved.
governingReservation(lines, n) ==
    LET over == {ns \in reservations(lines) : namespaceCovers(ns, n)}
    IN  IF over = {} THEN None
        ELSE CHOOSE ns \in over : \A m \in over : Len(m) <= Len(ns)

Nobody == [k \in Key |-> None]

\* One step of delegates: `set` maps each current delegate of ns to its scope.
delegatesStep(e, ns, holder, set) ==
    IF e.status # "accepted" \/ e.name # ns THEN set
    ELSE CASE e.kind = "transfer" -> Nobody
           [] e.kind = "delegate" /\ e.env.by = holder ->
                [set EXCEPT ![e.env.subject] =
                    IF e.env.op = "revoke" THEN None
                    ELSE IF e.env.scope = None THEN Prefix(ns) ELSE e.env.scope]
           [] OTHER -> set

\* The delegates of ns after every prefix of the journal, as far as `holder` appointed them.
appointed(lines, ns, holder) ==
    LET set[i \in 0 .. Len(lines)] ==
          IF i = 0 THEN Nobody
          ELSE delegatesStep(lines[i].body, ns, holder, set[i - 1])
    IN  set

\* delegates compares every grantor with the holder the WHOLE journal gives.
delegates(lines, ns) == appointed(lines, ns, reservationRev(lines, ns).key)[Len(lines)]

delegationRev(lines, ns) ==
    Cardinality({i \in DOMAIN lines :
        /\ lines[i].body.name = ns
        /\ Accepted(lines, i, "delegate") \/ Accepted(lines, i, "transfer")})

mayBindUnder(lines, ns, k, n) ==
    \/ k = reservationRev(lines, ns).key
    \/ delegates(lines, ns)[k] # None /\ Covers(delegates(lines, ns)[k], n)

consumedAttempts(lines) ==
    {lines[i].body.env.attempt : i \in {j \in DOMAIN lines : lines[j].body.kind = "transfer"}}

\* nameOwner and nameFirstBoundSeq: the first entry that applied a transition.
nameFirstBoundSeq(lines, n) ==
    IF AppliedTo(lines, n) = {} THEN Len(lines) + 1
    ELSE CHOOSE i \in AppliedTo(lines, n) : \A j \in AppliedTo(lines, n) : i <= j

nameOwner(lines, n) ==
    IF AppliedTo(lines, n) = {} THEN None
    ELSE lines[nameFirstBoundSeq(lines, n)].body.author

\* Publications of n that were taken, whether or not they moved it.
Publications(lines, n) ==
    {i \in DOMAIN lines :
        lines[i].body.name = n /\ derivedTransitionsByIndex(lines)[i] # "none"}

\* Mutant: only publications that moved the name count.
lastPublisherApplied(lines, n) ==
    IF AppliedTo(lines, n) = {} THEN None
    ELSE lines[CHOOSE i \in AppliedTo(lines, n) :
                 \A j \in AppliedTo(lines, n) : j <= i].body.author

lastPublisher(lines, n) ==
    IF Publications(lines, n) = {} THEN None
    ELSE lines[CHOOSE i \in Publications(lines, n) :
                 \A j \in Publications(lines, n) : j <= i].body.author

\* nameOwnerUnderPolicy: a configured key outranks history.
nameOwnerUnderPolicy(rules, lines, n) ==
    LET rule == ruleFor(rules, n)
    IN  IF rule # None /\ rule.owner # None THEN rule.owner ELSE nameOwner(lines, n)

\* ownershipCensus: may the last publisher of n go on under enforcement?
wouldEnforcementAllow(rules, lines, n) ==
    LET rule  == ruleFor(rules, n)
        owner == nameOwnerUnderPolicy(rules, lines, n)
    IN  \/ rule = None
        \/ rule.owner = None /\ ~rule.tofu
        \/ owner = None
        \/ owner = lastPublisher(lines, n)
=============================================================================
