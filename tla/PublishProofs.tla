--------------------------- MODULE PublishProofs ---------------------------
(***************************************************************************)
(* Machine-checked proofs about Publish: for every file, every local store, *)
(* any number of moves by other publishers and of lost calls.               *)
(***************************************************************************)
EXTENDS Publish, NumberFacts, FiniteSetTheorems, TLAPS

LEMMA AppendTyped ==
    ASSUME NEW S, NEW s \in Seq(S), NEW x
    PROVE  /\ Append(s, x) \in Seq(S \cup {x})
           /\ DOMAIN Append(s, x) = 1 .. Len(s) + 1
OBVIOUS

\* The plans shown.
Shown == {plans[k] : k \in DOMAIN plans}

\* Nothing is signed before every plan has been shown, and only what was shown is signed;
\* while a publication is under way `at` is one of the plans.
ShownInv ==
    /\ \E S : plans \in Seq(S)
    /\ at \in Nat \ {0}
    /\ pc \in {"start", "plan"} => at = 1 /\ signed = {} /\ applied = {}
    /\ pc \in {"confirm", "sent", "answered"} => at \in DOMAIN plans
    /\ signed \subseteq Shown

\* The registry is at work on one request of this client at a time, since the client signs
\* again only after an answer; what it compared last stands until somebody overtakes it.
WorkInv ==
    /\ requests \subseteq [plan : signed, stage : {"sent", "stored", "checked", "overtaken"}]
    /\ \A q, r \in requests : q = r
    /\ pc \in {"start", "plan", "confirm", "answered"} => requests = {}
    /\ pc = "sent" /\ reply \notin {"none", "error"} => requests = {}
    /\ \A q \in requests : q.stage = "checked" => Current(q.plan)

LEMMA InitShown == Init => ShownInv /\ WorkInv /\ ReplacesOnlyWhatWasShown
<1> SUFFICES ASSUME Init PROVE ShownInv /\ WorkInv /\ ReplacesOnlyWhatWasShown
  OBVIOUS
<1>1. /\ plans = <<>> /\ at = 1 /\ signed = {} /\ requests = {} /\ applied = {} /\ pc = "start"
  BY DEF Init
<1>2. plans \in Seq({})
  BY <1>1
<1> QED
  BY <1>1, <1>2 DEF ShownInv, WorkInv, ReplacesOnlyWhatWasShown

LEMMA StepShown == ShownInv /\ WorkInv /\ [Next]_vars => ShownInv'
<1> SUFFICES ASSUME ShownInv, WorkInv, [Next]_vars PROVE ShownInv'
  OBVIOUS
<1>1. ASSUME UNCHANGED <<plans, at, signed>>,
             pc' \in {"start", "plan"} => pc \in {"start", "plan"} /\ UNCHANGED applied,
             pc' \in {"confirm", "sent", "answered"} => pc \in {"confirm", "sent", "answered"}
      PROVE  ShownInv'
  BY <1>1 DEF ShownInv, Shown
<1>2. CASE Prepare
  <2>1. pc = "start" /\ pc' \in {"plan", "refused"} /\ UNCHANGED <<plans, at, signed, applied>>
    BY <1>2 DEF Prepare
  <2> QED
    BY <1>1, <2>1
<1>3. CASE Plan
  <2>1. pc = "plan" /\ UNCHANGED <<at, signed, applied>>
    BY <1>3 DEF Plan
  <2>2. \/ pc' = "refused" /\ UNCHANGED plans
        \/ pc' \in {"plan", "confirm"} /\ \E x : plans' = Append(plans, x)
    BY <1>3 DEF Plan
  <2>3. CASE pc' = "refused" /\ UNCHANGED plans
    BY <1>1, <2>1, <2>3
  <2>4. CASE pc' \in {"plan", "confirm"} /\ \E x : plans' = Append(plans, x)
    <3>1. PICK x : plans' = Append(plans, x)
      BY <2>4
    <3>2. PICK S : plans \in Seq(S)
      BY DEF ShownInv
    <3>3. plans' \in Seq(S \cup {x}) /\ DOMAIN plans' = 1 .. Len(plans) + 1 /\ Len(plans) \in Nat
      BY <3>1, <3>2, AppendTyped
    <3>4. at' = 1 /\ signed' = {} /\ applied' = {}
      BY <2>1 DEF ShownInv
    <3>5. at' \in DOMAIN plans'
      BY <3>3, <3>4
    <3> QED
      BY <3>3, <3>4, <3>5 DEF ShownInv
  <2> QED
    BY <2>2, <2>3, <2>4
<1>4. CASE Stop
  BY <1>1, <1>4 DEF Stop
<1>5. CASE Sign
  <2>1. pc = "confirm" /\ pc' = "sent" /\ signed' = signed \cup {plans[at]} /\ UNCHANGED <<plans, at>>
    BY <1>5 DEF Sign, Send
  <2>2. plans[at] \in Shown
    BY <2>1 DEF ShownInv, Shown
  <2> QED
    BY <2>1, <2>2 DEF ShownInv, Shown
<1>6. CASE \E q \in requests : RegistryStore(q) \/ RegistryCheck(q) \/ RegistryMove(q)
  <2>1. UNCHANGED <<pc, plans, at, signed>> /\ requests # {}
    BY <1>6 DEF RegistryStore, RegistryCheck, RegistryMove
  <2>2. pc \notin {"start", "plan"}
    BY <2>1 DEF WorkInv
  <2> QED
    BY <1>1, <2>1, <2>2
<1>7. CASE LoseCall
  BY <1>1, <1>7 DEF LoseCall
<1>8. CASE Receive
  <2>1. /\ pc = "sent" /\ pc' \in {"answered", "blocked", "conflict", "failed"}
        /\ UNCHANGED <<plans, at, signed, applied>>
    BY <1>8 DEF Receive, Outcome
  <2> QED
    BY <1>1, <2>1
<1>9. CASE Continue
  <2>1. pc = "answered" /\ UNCHANGED <<plans, signed, applied>>
    BY <1>9 DEF Continue
  <2>2. \/ pc' \in {"unbound", "done"} /\ at' = at
        \/ pc' = "confirm" /\ at < Len(plans) /\ at' = at + 1
    BY <1>9 DEF Continue
  <2>3. CASE pc' \in {"unbound", "done"} /\ at' = at
    BY <1>1, <2>1, <2>3
  <2>4. CASE pc' = "confirm" /\ at < Len(plans) /\ at' = at + 1
    <3>1. DOMAIN plans = 1 .. Len(plans) /\ Len(plans) \in Nat /\ at \in Nat
      BY DEF ShownInv
    <3>2. at' \in DOMAIN plans /\ at' \in Nat \ {0}
      BY <2>4, <3>1
    <3> QED
      BY <2>1, <2>4, <3>2 DEF ShownInv, Shown
  <2> QED
    BY <2>2, <2>3, <2>4
<1>10. CASE \E k \in DOMAIN plans : OtherMoves(plans[k].name)
  BY <1>1, <1>10 DEF OtherMoves
<1>11. CASE Ended \/ UNCHANGED vars
  BY <1>1, <1>11 DEF Ended, vars
<1> QED
  BY <1>2, <1>3, <1>4, <1>5, <1>6, <1>7, <1>8, <1>9, <1>10, <1>11 DEF Next

\* What a name means changes only when it is moved.
LEMMA MovesOne ==
    ASSUME NEW n, NEW art, NEW rev, remote' = moveName(n, art, rev), NEW m, m # n
    PROVE  remoteNameRevision(m)' = remoteNameRevision(m)
BY DEF moveName, remoteNameRevision

\* A request at work is the only one.
LEMMA OneRequest ==
    ASSUME WorkInv, NEW q \in requests
    PROVE  /\ requests = {q} /\ q.plan \in signed
           /\ q.stage \in {"sent", "stored", "checked", "overtaken"}
           /\ \A stage : [q EXCEPT !.stage = stage] = [plan |-> q.plan, stage |-> stage]
           /\ \A r : Answer(q, r) => requests' = {}
           /\ \A stage : Advance(q, stage) => requests' = {[plan |-> q.plan, stage |-> stage]}
<1>1. requests = {q} /\ q \in [plan : signed, stage : {"sent", "stored", "checked", "overtaken"}]
  BY DEF WorkInv
<1>2. \A stage : [q EXCEPT !.stage = stage] = [plan |-> q.plan, stage |-> stage]
  BY <1>1
<1> QED
  BY <1>1, <1>2 DEF Answer, Advance

LEMMA StepWork == ShownInv /\ WorkInv /\ [Next]_vars => WorkInv'
<1> SUFFICES ASSUME ShownInv, WorkInv, [Next]_vars PROVE WorkInv'
  OBVIOUS
<1>1. ASSUME requests' = {} PROVE WorkInv'
  BY <1>1 DEF WorkInv
<1>2. ASSUME UNCHANGED <<signed, remote>>, requests' \subseteq requests,
             pc' \in {"start", "plan", "confirm", "answered"} =>
                 pc \in {"start", "plan", "confirm", "answered"},
             pc' = "sent" /\ reply' \notin {"none", "error"} => pc = "sent" /\ UNCHANGED reply
      PROVE  WorkInv'
  BY <1>2 DEF WorkInv, Current, remoteNameRevision
<1>3. CASE Prepare \/ Plan \/ Continue
  <2>1. pc \in {"start", "plan", "answered"} /\ UNCHANGED requests
    BY <1>3 DEF Prepare, Plan, Continue
  <2> QED
    BY <1>1, <2>1 DEF WorkInv
<1>4. CASE Stop
  BY <1>2, <1>4 DEF Stop
<1>5. CASE Sign
  <2>1. /\ pc' = "sent" /\ reply' = "none" /\ signed' = signed \cup {plans[at]} /\ pc = "confirm"
        /\ requests' = requests \cup {[plan |-> plans[at], stage |-> "sent"]}
    BY <1>5 DEF Sign, Send
  <2>2. requests' = {[plan |-> plans[at], stage |-> "sent"]}
    BY <2>1 DEF WorkInv
  <2> QED
    BY <2>1, <2>2 DEF WorkInv
<1>6. ASSUME NEW q \in requests, RegistryStore(q) PROVE WorkInv'
  <2>1. \/ \E r : Answer(q, r)
        \/ Advance(q, "stored") /\ UNCHANGED reply
    BY <1>6 DEF RegistryStore
  <2>2. CASE \E r : Answer(q, r)
    BY <1>1, <2>2, OneRequest
  <2>3. CASE Advance(q, "stored") /\ UNCHANGED reply
    <3>1. requests' = {[plan |-> q.plan, stage |-> "stored"]} /\ q.plan \in signed /\ requests # {}
      BY <2>3, OneRequest
    <3>2. UNCHANGED <<pc, signed, reply>>
      BY <1>6, <2>3 DEF RegistryStore
    <3> QED
      BY <3>1, <3>2 DEF WorkInv
  <2> QED
    BY <2>1, <2>2, <2>3
<1>7. ASSUME NEW q \in requests, RegistryCheck(q) PROVE WorkInv'
  <2>1. \/ \E r : Answer(q, r)
        \/ Current(q.plan) /\ Advance(q, "checked") /\ UNCHANGED reply
    BY <1>7 DEF RegistryCheck
  <2>2. CASE \E r : Answer(q, r)
    BY <1>1, <2>2, OneRequest
  <2>3. CASE Current(q.plan) /\ Advance(q, "checked") /\ UNCHANGED reply
    <3>1. requests' = {[plan |-> q.plan, stage |-> "checked"]} /\ q.plan \in signed /\ requests # {}
      BY <2>3, OneRequest
    <3>2. UNCHANGED <<pc, signed, reply, remote>>
      BY <1>7, <2>3 DEF RegistryCheck
    <3>3. remoteNameRevision(q.plan.name)' = remoteNameRevision(q.plan.name)
      BY <3>2 DEF remoteNameRevision
    <3>4. \A r \in requests' : r.plan = q.plan /\ Current(r.plan)'
      BY <2>3, <3>1, <3>3 DEF Current
    <3> QED
      BY <3>1, <3>2, <3>4 DEF WorkInv
  <2> QED
    BY <2>1, <2>2, <2>3
<1>8. ASSUME NEW q \in requests, RegistryMove(q) PROVE WorkInv'
  BY <1>1, <1>8, OneRequest DEF RegistryMove
<1>9. CASE LoseCall
  BY <1>2, <1>9 DEF LoseCall
<1>10. CASE Receive
  <2>1. /\ pc = "sent" /\ reply # "none" /\ pc' = Outcome(reply, plans[at])
        /\ UNCHANGED <<signed, requests, remote, reply>>
    BY <1>10 DEF Receive
  <2>2. pc' = "answered" => reply \notin {"none", "error"}
    BY <2>1 DEF Outcome
  <2>3. pc' \in {"answered", "blocked", "conflict", "failed"}
    BY <2>1 DEF Outcome
  <2>4. CASE pc' = "answered"
    BY <1>1, <2>1, <2>2, <2>4 DEF WorkInv
  <2>5. CASE pc' # "answered"
    BY <1>2, <2>1, <2>3, <2>5
  <2> QED
    BY <2>4, <2>5
<1>11. ASSUME NEW k \in DOMAIN plans, OtherMoves(plans[k].name) PROVE WorkInv'
  <2> DEFINE n == plans[k].name
             Mark(q) == IF q.stage = "checked" /\ q.plan.name = n THEN [q EXCEPT !.stage = "overtaken"] ELSE q
  <2>1. /\ UNCHANGED <<pc, reply, signed>> /\ requests' = {Mark(q) : q \in requests}
        /\ remote' = moveName(n, Foreign, remoteNameRevision(n).rev + 1)
    BY <1>11 DEF OtherMoves
  <2>2. CASE requests = {}
    BY <1>1, <2>1, <2>2
  <2>3. CASE requests # {}
    <3>1. PICK q : q \in requests
      BY <2>3
    <3>2. requests = {q} /\ q \in [plan : signed, stage : {"sent", "stored", "checked", "overtaken"}]
      BY <3>1 DEF WorkInv
    <3>3. requests' = {Mark(q)}
      BY <2>1, <3>2
    <3>4. /\ requests' \subseteq [plan : signed, stage : {"sent", "stored", "checked", "overtaken"}]
          /\ \A r, t \in requests' : r = t
          /\ \A r \in requests' :
               r.plan = q.plan /\ (r.stage = "checked" => q.stage = "checked" /\ q.plan.name # n)
      BY <3>2, <3>3
    <3>5. ASSUME NEW r \in requests', r.stage = "checked" PROVE Current(r.plan)'
      <4>1. r.plan = q.plan /\ q.plan.name # n /\ Current(q.plan)
        BY <3>1, <3>4, <3>5 DEF WorkInv
      <4>2. remoteNameRevision(q.plan.name)' = remoteNameRevision(q.plan.name)
        <5> HIDE DEF n
        <5> QED
          BY <2>1, <4>1, MovesOne
      <4> QED
        BY <4>1, <4>2 DEF Current
    <3>6. /\ pc' \notin {"start", "plan", "confirm", "answered"}
          /\ ~(pc' = "sent" /\ reply' \notin {"none", "error"})
      BY <2>1, <2>3 DEF WorkInv
    <3> QED
      BY <2>1, <3>4, <3>5, <3>6 DEF WorkInv
  <2> QED
    BY <2>2, <2>3
<1>12. CASE Ended \/ UNCHANGED vars
  BY <1>2, <1>12 DEF Ended, vars
<1> QED
  BY <1>3, <1>4, <1>5, <1>6, <1>7, <1>8, <1>9, <1>10, <1>11, <1>12 DEF Next

LEMMA StepReplaces ==
    ShownInv /\ WorkInv /\ ReplacesOnlyWhatWasShown /\ [Next]_vars => ReplacesOnlyWhatWasShown'
<1> SUFFICES ASSUME ShownInv, WorkInv, ReplacesOnlyWhatWasShown, [Next]_vars
             PROVE  ReplacesOnlyWhatWasShown'
  OBVIOUS
<1>1. ASSUME UNCHANGED <<plans, applied>> PROVE ReplacesOnlyWhatWasShown'
  BY <1>1 DEF ReplacesOnlyWhatWasShown
<1>2. CASE Plan
  <2>1. applied' = {}
    BY <1>2 DEF Plan, ShownInv
  <2> QED
    BY <2>1 DEF ReplacesOnlyWhatWasShown
<1>3. ASSUME NEW q \in requests, RegistryMove(q) PROVE ReplacesOnlyWhatWasShown'
  <2> DEFINE p == q.plan
             new == [name |-> p.name, art |-> p.art, replaced |-> remoteNameRevision(p.name),
                     overtaken |-> q.stage = "overtaken"]
  <2>1. applied' = applied \cup {new} /\ UNCHANGED plans /\ q.stage \in {"checked", "overtaken"}
    BY <1>3 DEF RegistryMove
  <2>2. PICK k \in DOMAIN plans : plans[k] = p
    BY OneRequest DEF ShownInv, Shown
  <2>3. q.stage = "checked" => remoteNameRevision(p.name) = [parent |-> p.parent, rev |-> p.rev]
    BY DEF WorkInv, Current
  <2>4. /\ plans[k].name = new.name /\ plans[k].art = new.art
        /\ new.overtaken \/ new.replaced = [parent |-> plans[k].parent, rev |-> plans[k].rev]
    BY <2>1, <2>2, <2>3
  <2> HIDE DEF new
  <2> QED
    BY <2>1, <2>4 DEF ReplacesOnlyWhatWasShown
<1>4. CASE \/ Prepare \/ Stop \/ Sign \/ LoseCall \/ Receive \/ Continue \/ Ended \/ UNCHANGED vars
           \/ \E q \in requests : RegistryStore(q) \/ RegistryCheck(q)
           \/ \E k \in DOMAIN plans : OtherMoves(plans[k].name)
  BY <1>1, <1>4 DEF Prepare, Stop, Sign, Send, LoseCall, Receive, Continue, Ended, vars,
                    RegistryStore, RegistryCheck, OtherMoves
<1> QED
  BY <1>2, <1>3, <1>4 DEF Next

(***************************************************************************)
(* What a publication replaces is what its author was shown: finalizePublish *)
(* signs the plan as displayed and never a rebased one, and the registry     *)
(* compares the statement with the name twice, so that a move by another     *)
(* publisher at any other time than between the last comparison and Repoint  *)
(* never ends in a binding replaced unseen.  That one window is open, as     *)
(* envelope.go says, and the statement leaves it open (overtaken).           *)
(***************************************************************************)
THEOREM OnlyShownIsReplaced == Spec => []ReplacesOnlyWhatWasShown
<1>1. Init => ShownInv /\ WorkInv /\ ReplacesOnlyWhatWasShown
  BY InitShown
<1>2. ShownInv /\ WorkInv /\ ReplacesOnlyWhatWasShown /\ [Next]_vars
        => (ShownInv /\ WorkInv /\ ReplacesOnlyWhatWasShown)'
  BY StepShown, StepWork, StepReplaces
<1> QED
  BY <1>1, <1>2, PTL DEF Spec
---------------------------------------------------------------------------
(* Dependencies. *)

\* The first k - 1 plans' artifacts.
Before(k) == {plans[j].art : j \in 1 .. k - 1}

\* What topoOrderForms and the validation in the seed are for: of the batch's own definitions,
\* each plan the author has been shown refers only to those shown above it.
PlannedInOrder ==
    pc = "confirm" /\ signed = {} =>
        \A k \in DOMAIN plans : DepsOf(plans[k].art) \cap Batch \subseteq Before(k)

\* The registry has every plan before the one at hand, since the client goes on only when it
\* has seen the name bound to it, and what is bound is there.
OrderInv ==
    /\ signed # {} => /\ at \in DOMAIN plans
                      /\ \A k \in DOMAIN plans : DepsOf(plans[k].art) \cap Batch \subseteq Before(k)
    /\ signed = {} => pc \notin {"sent", "answered"} /\ reply = "none"
    /\ Before(at) \subseteq objects
    /\ \A n \in DOMAIN remote : remote[n].art \in objects
    /\ \A q \in requests : q.stage # "sent" => q.plan.art \in objects
    /\ pc = "plan" => Closure \/ Len(batch.planText) = 1
    /\ Closure \/ Len(plans) <= 1

LEMMA InitOrder == Init => OrderInv
<1> SUFFICES ASSUME Init PROVE OrderInv
  OBVIOUS
<1>1. /\ signed = {} /\ requests = {} /\ plans = <<>> /\ at = 1 /\ pc = "start" /\ reply = "none"
  BY DEF Init
<1>2. Before(at) = {}
  BY <1>1 DEF Before
<1>3. \A n \in DOMAIN remote : remote[n].art \in objects
  <2>1. PICK held \in Published :
          /\ remote = [n \in held \cap DOMAIN local |-> [art |-> local[n].obj, rev |-> 1]]
          /\ objects = {local[n].obj : n \in held \cap DOMAIN local}
    BY DEF Init
  <2> QED
    BY <2>1
<1> QED
  BY <1>1, <1>2, <1>3 DEF OrderInv

\* What is bound stays there when a name is moved to an object that is there.
LEMMA BoundIsThere ==
    ASSUME \A n \in DOMAIN remote : remote[n].art \in objects,
           NEW m, NEW art, NEW rev, remote' = moveName(m, art, rev),
           objects \subseteq objects', art \in objects'
    PROVE  \A n \in DOMAIN remote' : remote'[n].art \in objects'
BY DEF moveName

LEMMA StepOrder == ShownInv /\ WorkInv /\ OrderInv /\ PlannedInOrder /\ [Next]_vars => OrderInv'
<1> SUFFICES ASSUME ShownInv, WorkInv, OrderInv, PlannedInOrder, [Next]_vars PROVE OrderInv'
  OBVIOUS
<1>1. ASSUME UNCHANGED <<file, ns, plans, at, signed, batch>>, objects \subseteq objects',
             pc' \in {"plan", "sent", "answered"} => pc' = pc \/ (pc' # "plan" /\ pc = "sent"),
             UNCHANGED reply \/ pc = "sent" \/ requests # {},
             requests # {} => signed # {},
             \A n \in DOMAIN remote' : remote'[n].art \in objects',
             \A q \in requests' : q.stage # "sent" => q.plan.art \in objects'
      PROVE  OrderInv'
  <2>1. (Closure' <=> Closure) /\ Batch' = Batch /\ Before(at)' = Before(at)
    BY <1>1 DEF Closure, Batch, Before
  <2>2. \A k : Before(k)' = Before(k)
    BY <1>1 DEF Before
  <2>3. (signed = {} => pc \notin {"sent", "answered"} /\ reply = "none")'
    BY <1>1 DEF OrderInv
  <2> QED
    BY <1>1, <2>1, <2>2, <2>3 DEF OrderInv
<1>2. requests # {} => signed # {}
  BY DEF WorkInv
<1>3. CASE Prepare
  <2>1. /\ pc = "start" /\ pc' \in {"plan", "refused"}
        /\ UNCHANGED <<file, ns, plans, at, signed, requests, remote, objects, reply>>
        /\ Closure \/ batch'.planText = <<file>>
    BY <1>3 DEF Prepare
  <2>2. signed = {} /\ Len(<<file>>) = 1
    BY <2>1 DEF ShownInv
  <2> QED
    BY <2>1, <2>2 DEF OrderInv, Before, Closure
<1>4. CASE Plan
  <2>1. /\ pc = "plan" /\ pc' \in {"plan", "refused", "confirm"} /\ Len(plans) < Len(batch.planText)
        /\ UNCHANGED <<file, ns, batch, at, signed, requests, remote, objects, reply>>
        /\ UNCHANGED plans \/ \E x : plans' = Append(plans, x)
    BY <1>4 DEF Plan
  <2>2. signed = {} /\ at = 1
    BY <2>1 DEF ShownInv
  <2>3. Before(at)' = {}
    BY <2>1, <2>2 DEF Before
  <2>4. (Closure \/ Len(plans) <= 1)'
    <3>1. PICK S : plans \in Seq(S)
      BY DEF ShownInv
    <3>2. CASE UNCHANGED plans
      BY <2>1, <3>2 DEF OrderInv, Closure
    <3>3. CASE \E x : plans' = Append(plans, x)
      <4>1. Len(plans) \in Nat /\ Len(plans') = Len(plans) + 1
        BY <3>1, <3>3
      <4>2. Closure' <=> Closure
        BY <2>1 DEF Closure
      <4>3. Closure \/ Len(batch.planText) = 1
        BY <2>1 DEF OrderInv
      <4>4. Closure \/ Len(plans') <= 1
        <5>1. CASE Len(batch.planText) = 1
          <6>1. Len(plans) < 1
            BY <2>1, <5>1
          <6> QED
            BY <4>1, <6>1
        <5> QED
          BY <4>3, <5>1
      <4> QED
        BY <4>2, <4>4
    <3> QED
      BY <2>1, <3>2, <3>3
  <2> QED
    BY <2>1, <2>2, <2>3, <2>4 DEF OrderInv, Closure
<1>5. CASE Stop
  BY <1>1, <1>2, <1>5 DEF Stop, OrderInv
<1>6. CASE Sign
  <2>1. /\ pc = "confirm" /\ pc' = "sent" /\ signed' = signed \cup {plans[at]}
        /\ requests' = requests \cup {[plan |-> plans[at], stage |-> "sent"]}
        /\ UNCHANGED <<file, ns, plans, at, batch, remote, objects>>
    BY <1>6 DEF Sign, Send
  <2>2. /\ at \in DOMAIN plans
        /\ \A k \in DOMAIN plans : DepsOf(plans[k].art) \cap Batch \subseteq Before(k)
    BY <2>1 DEF OrderInv, PlannedInOrder, ShownInv
  <2>3. (Closure' <=> Closure) /\ Batch' = Batch /\ \A k : Before(k)' = Before(k)
    BY <2>1 DEF Closure, Batch, Before
  <2>4. requests = {}
    BY <2>1 DEF WorkInv
  <2> QED
    BY <2>1, <2>2, <2>3, <2>4 DEF OrderInv
<1>7. ASSUME NEW q \in requests, RegistryStore(q) PROVE OrderInv'
  <2>1. /\ UNCHANGED <<file, ns, pc, batch, plans, at, signed, remote>> /\ objects \subseteq objects'
        /\ \A r \in requests' : r.stage # "sent" => r.plan.art \in objects'
    <3>1. \/ (\E r : Answer(q, r)) /\ UNCHANGED objects
          \/ Advance(q, "stored") /\ objects' = objects \cup {q.plan.art}
      BY <1>7 DEF RegistryStore
    <3>2. \/ requests' = {} /\ UNCHANGED objects
          \/ /\ requests' = {[plan |-> q.plan, stage |-> "stored"]}
             /\ objects' = objects \cup {q.plan.art}
      BY <3>1, OneRequest
    <3> QED
      BY <1>7, <3>2 DEF RegistryStore
  <2> QED
    BY <1>1, <1>2, <2>1 DEF OrderInv
<1>8. ASSUME NEW q \in requests, RegistryCheck(q) PROVE OrderInv'
  <2>1. /\ UNCHANGED <<file, ns, pc, batch, plans, at, signed, remote, objects>> /\ q.stage = "stored"
        /\ (\E r : Answer(q, r)) \/ Advance(q, "checked")
    BY <1>8 DEF RegistryCheck
  <2>2. requests' = {} \/ requests' = {[plan |-> q.plan, stage |-> "checked"]}
    BY <2>1, OneRequest
  <2>3. q.plan.art \in objects
    BY <2>1 DEF OrderInv
  <2> QED
    BY <1>1, <1>2, <2>1, <2>2, <2>3 DEF OrderInv
<1>9. ASSUME NEW q \in requests, RegistryMove(q) PROVE OrderInv'
  <2>1. /\ UNCHANGED <<file, ns, pc, batch, plans, at, signed, objects>>
        /\ q.stage # "sent" /\ requests' = {}
        /\ \E rev : remote' = moveName(q.plan.name, q.plan.art, rev)
    BY <1>9, OneRequest DEF RegistryMove
  <2>2. q.plan.art \in objects
    BY <2>1 DEF OrderInv
  <2>3. \A n \in DOMAIN remote' : remote'[n].art \in objects'
    BY <2>1, <2>2, BoundIsThere DEF OrderInv
  <2> QED
    BY <1>1, <1>2, <2>1, <2>3
<1>10. CASE LoseCall
  BY <1>1, <1>2, <1>10 DEF LoseCall, OrderInv
<1>11. CASE Receive
  <2>1. /\ pc = "sent" /\ UNCHANGED <<file, ns, plans, at, signed, batch, requests, remote, objects, reply>>
        /\ pc' \in {"answered", "blocked", "conflict", "failed"}
    BY <1>11 DEF Receive, Outcome
  <2> QED
    BY <1>1, <1>2, <2>1 DEF OrderInv
<1>12. CASE Continue
  <2>1. /\ pc = "answered" /\ pc' \in {"confirm", "done", "unbound"}
        /\ UNCHANGED <<file, ns, batch, plans, signed, requests, remote, objects, reply>>
        /\ at' = at \/ (at' = at + 1 /\ at < Len(plans) /\ Confirmed(plans[at]))
    BY <1>12 DEF Continue
  <2>2. signed # {} /\ at \in Nat \ {0} /\ DOMAIN plans = 1 .. Len(plans) /\ Len(plans) \in Nat
    BY <2>1 DEF OrderInv, ShownInv
  <2>3. at' \in DOMAIN plans /\ Before(at)' \subseteq objects
    <3>1. CASE at' = at
      BY <2>1, <2>2, <3>1 DEF OrderInv, Before
    <3>2. CASE at' = at + 1 /\ at < Len(plans) /\ Confirmed(plans[at])
      <4>1. Closure
        BY <2>2, <3>2 DEF OrderInv
      <4>2. plans[at].art \in objects
        BY <3>2, <4>1 DEF Confirmed, OrderInv
      <4>3. \A j \in 1 .. at' - 1 : j \in 1 .. at - 1 \/ j = at
        BY <2>2, <3>2
      <4>4. at' \in DOMAIN plans
        BY <2>2, <3>2
      <4> QED
        BY <2>1, <4>2, <4>3, <4>4 DEF OrderInv, Before
    <3> QED
      BY <2>1, <3>1, <3>2
  <2>4. (Closure' <=> Closure) /\ Batch' = Batch /\ \A k : Before(k)' = Before(k)
    BY <2>1 DEF Closure, Batch, Before
  <2> QED
    BY <2>1, <2>2, <2>3, <2>4 DEF OrderInv
<1>13. ASSUME NEW k \in DOMAIN plans, OtherMoves(plans[k].name) PROVE OrderInv'
  <2> DEFINE n == plans[k].name
             Mark(q) == IF q.stage = "checked" /\ q.plan.name = n THEN [q EXCEPT !.stage = "overtaken"] ELSE q
  <2>1. /\ UNCHANGED <<file, ns, batch, plans, at, signed, pc, reply>> /\ objects' = objects \cup {Foreign}
        /\ requests' = {Mark(q) : q \in requests}
        /\ \E rev : remote' = moveName(n, Foreign, rev)
    BY <1>13 DEF OtherMoves
  <2>2. \A m \in DOMAIN remote' : remote'[m].art \in objects'
    <3> HIDE DEF n
    <3> QED
      BY <2>1, BoundIsThere DEF OrderInv
  <2>3. \A r \in requests' : r.stage # "sent" => r.plan.art \in objects'
    <3>1. \A q \in requests : q.stage # "sent" => q.plan.art \in objects
      BY DEF OrderInv
    <3>2. \A q \in requests : Mark(q).plan = q.plan /\ (Mark(q).stage # "sent" => q.stage # "sent")
      BY DEF WorkInv
    <3> HIDE DEF Mark
    <3> QED
      BY <2>1, <3>1, <3>2
  <2> QED
    BY <1>1, <1>2, <2>1, <2>2, <2>3
<1>14. CASE Ended \/ UNCHANGED vars
  BY <1>1, <1>2, <1>14 DEF Ended, vars, OrderInv
<1> QED
  BY <1>3, <1>4, <1>5, <1>6, <1>7, <1>8, <1>9, <1>10, <1>11, <1>12, <1>13, <1>14 DEF Next

(***************************************************************************)
(* The sending half of NeverAheadOfDependency, for publishBatch and         *)
(* finalizePublish, whatever part of the local store the registry knows:    *)
(* when the plans shown are in dependency order among themselves, no lost   *)
(* call, blocked or pending publication, conflict or move by another        *)
(* publisher makes the registry refuse an object for want of one that the   *)
(* batch publishes.                                                         *)
(***************************************************************************)
THEOREM NothingSentTooEarly == Spec /\ []PlannedInOrder => []~SentTooEarly
<1>1. Init => ShownInv /\ WorkInv /\ OrderInv
  BY InitShown, InitOrder
<1>2. ShownInv /\ WorkInv /\ OrderInv /\ PlannedInOrder /\ [Next]_vars
        => (ShownInv /\ WorkInv /\ OrderInv)'
  BY StepShown, StepWork, StepOrder
<1>3. OrderInv => ~SentTooEarly
  BY DEF OrderInv, SentTooEarly
<1> QED
  BY <1>1, <1>2, <1>3, PTL DEF Spec
---------------------------------------------------------------------------
(* The dependency order. *)

\* Definitions placed so far: each once, and each after everything it has an edge to.
Sorted(fs, qs, rename, out) ==
    /\ \A j, k \in DOMAIN out : out[j] = out[k] => j = k
    /\ \A k \in DOMAIN out :
         DepEdges(fs, qs, out[k], rename) \subseteq {qs[out[j]].name : j \in 1 .. k - 1}

SortedOver(D, fs, qs, rename) == {out \in Seq(D) : Sorted(fs, qs, rename, out)}

LEMMA DefinedFinite ==
    ASSUME NEW F, NEW fs \in Seq(F)
    PROVE  IsFiniteSet(Defined(fs))
<1>1. 1 \in Int /\ Len(fs) \in Int /\ Defined(fs) \subseteq 1 .. Len(fs)
  BY DEF Defined
<1>2. IsFiniteSet(1 .. Len(fs))
  BY <1>1, FS_Interval
<1> QED
  BY <1>1, <1>2, FS_Subset

\* The first of the ready ones is one of them.
LEMMA FirstExists ==
    ASSUME NEW T \in SUBSET Nat, T # {}
    PROVE  (CHOOSE i \in T : \A j \in T : i <= j) \in T
BY LeastNumber

\* A step of Kahn's algorithm keeps the order and, while anything is ready, places one more.
LEMMA PlaceNextSorts ==
    ASSUME NEW F, NEW fs \in Seq(F), NEW qs, NEW rename,
           NEW out \in SortedOver(Defined(fs), fs, qs, rename)
    PROVE  /\ PlaceNext(fs, qs, rename, out) \in SortedOver(Defined(fs), fs, qs, rename)
           /\ Ready(fs, qs, rename, out) = {} => PlaceNext(fs, qs, rename, out) = out
           /\ Ready(fs, qs, rename, out) # {} => Len(PlaceNext(fs, qs, rename, out)) = Len(out) + 1
<1> DEFINE D == Defined(fs)
           ready == Ready(fs, qs, rename, out)
           i == CHOOSE n \in ready : \A m \in ready : n <= m
           new == Append(out, i)
<1>1. PlaceNext(fs, qs, rename, out) = IF ready = {} THEN out ELSE new
  BY DEF PlaceNext
<1>2. CASE ready = {}
  BY <1>1, <1>2
<1>3. CASE ready # {}
  <2>1. D \in SUBSET Nat
    BY DEF Defined
  <2>2. ready \in SUBSET Nat
    BY <2>1 DEF Ready
  <2>3. i \in ready
    BY <1>3, <2>2, FirstExists
  <2> HIDE DEF i
  <2>4. /\ i \in D /\ \A k \in DOMAIN out : out[k] # i
        /\ DepEdges(fs, qs, i, rename) \subseteq {qs[out[j]].name : j \in DOMAIN out}
    <3>1. i \in Defined(fs) /\ i \notin Range(out)
      BY <2>3, Zenon DEF Ready
    <3>2. DepEdges(fs, qs, i, rename) \subseteq {qs[j].name : j \in Range(out)}
      BY <2>3, Zenon DEF Ready
    <3>3. {qs[j].name : j \in Range(out)} \subseteq {qs[out[j]].name : j \in DOMAIN out}
      BY Zenon DEF Range
    <3>4. \A k \in DOMAIN out : out[k] # i
      BY <3>1, Zenon DEF Range
    <3> QED
      BY <3>1, <3>2, <3>3, <3>4, Zenon
  <2> HIDE DEF ready, D
  <2>5. out \in Seq(D) /\ Sorted(fs, qs, rename, out)
    BY DEF SortedOver, D
  <2>6. /\ new \in Seq(D) /\ Len(new) = Len(out) + 1 /\ Len(out) \in Nat
        /\ DOMAIN out = 1 .. Len(out) /\ DOMAIN new = 1 .. Len(out) + 1
        /\ \A k \in 1 .. Len(out) : new[k] = out[k]
        /\ new[Len(out) + 1] = i
    BY <2>4, <2>5
  <2> HIDE DEF new
  <2>7. ASSUME NEW j \in DOMAIN new, NEW k \in DOMAIN new, new[j] = new[k] PROVE j = k
    BY <2>4, <2>5, <2>6, <2>7 DEF Sorted
  <2>8. ASSUME NEW k \in DOMAIN new
        PROVE  DepEdges(fs, qs, new[k], rename) \subseteq {qs[new[j]].name : j \in 1 .. k - 1}
    <3>1. CASE k = Len(out) + 1
      <4>1. 1 .. k - 1 = DOMAIN out /\ new[k] = i
        BY <2>6, <3>1
      <4> QED
        BY <2>4, <2>6, <4>1
    <3>2. CASE k # Len(out) + 1
      <4>1. k \in DOMAIN out /\ new[k] = out[k] /\ \A j \in 1 .. k - 1 : new[j] = out[j]
        BY <2>6, <3>2
      <4>2. DepEdges(fs, qs, out[k], rename) \subseteq {qs[out[j]].name : j \in 1 .. k - 1}
        BY <2>5, <4>1 DEF Sorted
      <4> QED
        BY <4>1, <4>2
    <3> QED
      BY <3>1, <3>2
  <2> QED
    <3>1. Sorted(fs, qs, rename, new)
      BY <2>7, <2>8 DEF Sorted
    <3>2. new \in SortedOver(D, fs, qs, rename)
      BY <2>6, <3>1 DEF SortedOver
    <3> QED
      BY <1>1, <1>3, <2>6, <3>2 DEF D, ready
<1> QED
  BY <1>2, <1>3

\* The recursive definition of the rounds is one.
LEMMA PlacedSteps ==
    ASSUME NEW F, NEW fs \in Seq(F), NEW qs, NEW rename
    PROVE  /\ Cardinality(Defined(fs)) \in Nat
           /\ Placed(fs, qs, rename)[0] = <<>>
           /\ \A n \in 1 .. Cardinality(Defined(fs)) :
                Placed(fs, qs, rename)[n] = PlaceNext(fs, qs, rename, Placed(fs, qs, rename)[n - 1])
           /\ \A n \in 0 .. Cardinality(Defined(fs)) :
                Placed(fs, qs, rename)[n] \in SortedOver(Defined(fs), fs, qs, rename)
<1> DEFINE m == Cardinality(Defined(fs))
           T == SortedOver(Defined(fs), fs, qs, rename)
           step(cur) == PlaceNext(fs, qs, rename, cur)
           G == [i \in 1 .. m |-> [cur \in T |-> step(cur)]]
           Is(f) == f = [i \in 0 .. m |-> IF i = 0 THEN <<>> ELSE step(f[i - 1])]
           h == Placed(fs, qs, rename)
<1>1. m \in Nat
  BY DefinedFinite, FS_CardinalityType
<1>2. \A cur \in T : step(cur) \in T
  BY PlaceNextSorts
<1>3. <<>> \in T
  BY DEF SortedOver, Sorted
<1>4. h = CHOOSE g : Is(g)
  BY Zenon DEF Placed
<1> HIDE DEF m, step, T
<1>5. G \in Steps(m, T)
  BY <1>2 DEF Steps
<1>6. PICK f : Follows(f, T, <<>>, m, G)
  <2> HIDE DEF G
  <2> QED
    BY <1>1, <1>3, <1>5, StepsExist
<1>7. ASSUME NEW i \in 0 .. m PROVE f[i] = IF i = 0 THEN <<>> ELSE step(f[i - 1])
  <2>1. CASE i # 0
    <3>1. i \in 1 .. m /\ i - 1 \in 0 .. m
      BY <1>1, <2>1
    <3> QED
      BY <1>6, <2>1, <3>1 DEF Follows
  <2> QED
    BY <1>6, <2>1 DEF Follows
<1>8. Is(f)
  BY <1>6, <1>7 DEF Follows
<1> HIDE DEF h
<1>9. Is(h)
  <2> HIDE DEF Is
  <2> QED
    BY <1>4, <1>8, Zenon
<1>10. h[0] = <<>> /\ \A i \in 1 .. m : h[i] = step(h[i - 1])
  BY <1>1, <1>9
<1>11. \A i \in 0 .. m : h[i] \in T
  <2>1. Inherits(h, m, T)
    BY <1>2, <1>3, <1>10 DEF Inherits
  <2> QED
    BY <1>1, <2>1, ValuesStay
<1> QED
  BY <1>1, <1>10, <1>11 DEF h, m, step, T

\* Every round places one more definition, until none is ready.
LEMMA PlacedGrows ==
    ASSUME NEW F, NEW fs \in Seq(F), NEW qs, NEW rename
    PROVE  \A n \in 0 .. Cardinality(Defined(fs)) :
             \/ Len(Placed(fs, qs, rename)[n]) = n
             \/ Ready(fs, qs, rename, Placed(fs, qs, rename)[n]) = {}
<1> DEFINE m == Cardinality(Defined(fs))
           h == Placed(fs, qs, rename)
           Grown(n) == Len(h[n]) = n \/ Ready(fs, qs, rename, h[n]) = {}
           S == {n \in Nat : n <= m => Grown(n)}
<1>1. /\ m \in Nat /\ h[0] = <<>> /\ \A n \in 1 .. m : h[n] = PlaceNext(fs, qs, rename, h[n - 1])
      /\ \A n \in 0 .. m : h[n] \in SortedOver(Defined(fs), fs, qs, rename)
  BY PlacedSteps
<1> HIDE DEF m, h
<1>2. 0 \in S
  BY <1>1
<1>3. ASSUME NEW n \in S PROVE n + 1 \in S
  <2>1. SUFFICES ASSUME n + 1 <= m PROVE Grown(n + 1)
    BY DEF S
  <2>2. n \in 0 .. m /\ n + 1 \in 1 .. m /\ n <= m /\ (n + 1) - 1 = n
    BY <1>1, <2>1
  <2>3. Grown(n) /\ h[n + 1] = PlaceNext(fs, qs, rename, h[n])
    BY <1>1, <1>3, <2>2
  <2>4. /\ Ready(fs, qs, rename, h[n]) = {} => h[n + 1] = h[n]
        /\ Ready(fs, qs, rename, h[n]) # {} => Len(h[n + 1]) = Len(h[n]) + 1
    BY <1>1, <2>2, <2>3, PlaceNextSorts
  <2> QED
    BY <2>3, <2>4
<1>4. S = Nat
  <2> S \in SUBSET Nat
    OBVIOUS
  <2> HIDE DEF S
  <2> QED
    BY <1>2, <1>3, SetInduction
<1>5. ASSUME NEW n \in 0 .. m PROVE Grown(n)
  <2>1. n \in Nat /\ n <= m
    BY <1>1
  <2>2. n \in S
    <3> HIDE DEF S
    <3> QED
      BY <1>4, <2>1
  <2> HIDE DEF Grown
  <2> QED
    BY <2>1, <2>2
<1> QED
  BY <1>5 DEF m, h

(***************************************************************************)
(* topoOrderForms, for every file, renaming and renamed forms: it places no *)
(* definition twice and each after everything it has an edge to; and it     *)
(* leaves out only what waits for a definition left out, so that a closure  *)
(* is refused as cyclic only when it is.                                    *)
(***************************************************************************)
THEOREM DependenciesComeFirst ==
    ASSUME NEW F, NEW fs \in Seq(F), NEW qs, NEW rename
    PROVE  /\ Sorted(fs, qs, rename, topoOrderForms(fs, qs, rename))
           /\ Range(topoOrderForms(fs, qs, rename)) \subseteq Defined(fs)
           /\ \A i \in Defined(fs) \ Range(topoOrderForms(fs, qs, rename)) :
                ~(DepEdges(fs, qs, i, rename)
                    \subseteq {qs[j].name : j \in Range(topoOrderForms(fs, qs, rename))})
<1> DEFINE m == Cardinality(Defined(fs))
           out == topoOrderForms(fs, qs, rename)
<1>1. m \in Nat /\ out \in Seq(Defined(fs)) /\ Sorted(fs, qs, rename, out)
  BY PlacedSteps DEF SortedOver, topoOrderForms
<1>2. Len(out) = m \/ Ready(fs, qs, rename, out) = {}
  <2>1. m \in 0 .. m
    BY <1>1
  <2> HIDE DEF m
  <2>2. Len(Placed(fs, qs, rename)[m]) = m \/ Ready(fs, qs, rename, Placed(fs, qs, rename)[m]) = {}
    BY <2>1, PlacedGrows DEF m
  <2> QED
    BY <2>2 DEF topoOrderForms, m
<1>3. IsFiniteSet(Defined(fs))
  BY DefinedFinite
<1> HIDE DEF out
<1>4. Range(out) \subseteq Defined(fs)
  BY <1>1 DEF Range
<1>5. Len(out) = m => Range(out) = Defined(fs)
  <2>1. out \in Injection(1 .. Len(out), Defined(fs)) /\ Len(out) \in Nat
    BY <1>1 DEF Sorted, Injection, IsInjective
  <2>2. Cardinality(1 .. Len(out)) = Len(out)
    <3>1. 1 \in Int /\ Len(out) \in Int
      BY <2>1
    <3>2. Cardinality(1 .. Len(out)) = IF 1 > Len(out) THEN 0 ELSE Len(out) - 1 + 1
      BY <3>1, FS_Interval
    <3> QED
      BY <2>1, <3>2
  <2>3. ASSUME Len(out) = m PROVE Range(out) = Defined(fs)
    <3>1. out \in Surjection(1 .. Len(out), Defined(fs))
      BY <1>3, <2>1, <2>2, <2>3, FS_Injection
    <3> QED
      BY <1>4, <3>1 DEF Surjection, Range
  <2> QED
    BY <2>3
<1>6. Ready(fs, qs, rename, out) = {} =>
        \A i \in Defined(fs) \ Range(out) :
            ~(DepEdges(fs, qs, i, rename) \subseteq {qs[j].name : j \in Range(out)})
  BY DEF Ready
<1> QED
  BY <1>1, <1>2, <1>4, <1>5, <1>6 DEF out
=============================================================================
