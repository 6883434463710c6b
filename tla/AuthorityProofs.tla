--------------------------- MODULE AuthorityProofs ---------------------------
(***************************************************************************)
(* Machine-checked proofs about Authority: who may bind a name is who the    *)
(* signed history says, for any keys, namespaces, scopes and rules, as long  *)
(* as the registry serves one request at a time.                             *)
(***************************************************************************)
EXTENDS Authority, NumberFacts, FiniteSetTheorems

Line == [body : Body, since : Nat]

-----------------------------------------------------------------------------
(* The fold that gives the holder of a namespace. *)

Holding == [key : Key \cup {None}, rev : Nat, seq : Nat]

LEMMA LinesAppended ==
    ASSUME NEW S, NEW lines \in Seq(S), NEW l \in S
    PROVE  /\ Len(lines) \in Nat
           /\ Append(lines, l) \in Seq(S)
           /\ Len(Append(lines, l)) = Len(lines) + 1
           /\ \A i \in 1 .. Len(lines) : Append(lines, l)[i] = lines[i]
           /\ Append(lines, l)[Len(lines) + 1] = l
OBVIOUS

LEMMA reservationStepType ==
    ASSUME NEW e \in Body, NEW i \in Nat, NEW ns, NEW cur \in Holding
    PROVE  reservationStep(e, i, ns, cur) \in Holding
<1>1. CASE e.kind = "reserve"
  <2>1. e.env \in ReserveStatement
    BY <1>1 DEF Body, Carrying, PutEntry
  <2>2. e.env.by \in Key /\ e.env.rev + 1 \in Nat
    BY <2>1 DEF ReserveStatement
  <2> QED
    BY <1>1, <2>2 DEF reservationStep, Holding
<1>2. CASE e.kind = "transfer"
  <2>1. e.env \in TransferStatement
    BY <1>2 DEF Body, Carrying, PutEntry
  <2>2. e.env.to \in Key /\ e.env.rev + 1 \in Nat
    BY <2>1 DEF TransferStatement
  <2> QED
    BY <1>2, <2>2 DEF reservationStep, Holding
<1>3. CASE e.kind \notin {"reserve", "transfer"}
  BY <1>3 DEF reservationStep
<1> QED
  BY <1>1, <1>2, <1>3

LEMMA holdingSteps ==
    ASSUME NEW lines \in Seq(Line), NEW ns
    PROVE  /\ holding(lines, ns) \in [0 .. Len(lines) -> Holding]
           /\ holding(lines, ns)[0] = Unclaimed
           /\ \A i \in 1 .. Len(lines) :
                 holding(lines, ns)[i] = reservationStep(lines[i].body, i, ns, holding(lines, ns)[i - 1])
<1> DEFINE m == Len(lines)
           step(i, cur) == reservationStep(lines[i].body, i, ns, cur)
           G == [i \in 1 .. m |-> [cur \in Holding |-> step(i, cur)]]
           Is(f) == f = [i \in 0 .. m |-> IF i = 0 THEN Unclaimed ELSE step(i, f[i - 1])]
<1>1. m \in Nat /\ \A i \in 1 .. m : lines[i].body \in Body
  <2>1. m \in Nat /\ \A i \in 1 .. m : lines[i] \in Line
    OBVIOUS
  <2> QED
    BY <2>1 DEF Line
<1>2. \A i \in 1 .. m : \A cur \in Holding : step(i, cur) \in Holding
  BY <1>1, reservationStepType
<1>3. Unclaimed \in Holding
  BY DEF Unclaimed, Holding
<1> HIDE DEF m, step
<1>4. G \in Steps(m, Holding)
  BY <1>2 DEF Steps
<1>5. PICK f : Follows(f, Holding, Unclaimed, m, G)
  <2> HIDE DEF G
  <2> QED
    BY <1>1, <1>3, <1>4, StepsExist
<1>6. ASSUME NEW i \in 0 .. m PROVE f[i] = IF i = 0 THEN Unclaimed ELSE step(i, f[i - 1])
  <2>1. CASE i # 0
    <3>1. i \in 1 .. m /\ i - 1 \in 0 .. m
      BY <1>1, <2>1
    <3> QED
      BY <1>5, <2>1, <3>1 DEF Follows
  <2> QED
    BY <1>5, <2>1 DEF Follows
<1>7. Is(f)
  BY <1>5, <1>6 DEF Follows
<1>8. Is(holding(lines, ns))
  <2>1. holding(lines, ns) = CHOOSE g : Is(g)
    BY Zenon DEF holding, m, step
  <2> HIDE DEF Is
  <2> QED
    BY <1>7, <2>1, Zenon
<1> DEFINE h == holding(lines, ns)
<1>9. h[0] = Unclaimed /\ \A i \in 1 .. m : h[i] = step(i, h[i - 1])
  <2> HIDE DEF h
  <2>1. h = [i \in 0 .. m |-> IF i = 0 THEN Unclaimed ELSE step(i, h[i - 1])]
    BY <1>8 DEF h
  <2> QED
    BY <1>1, <2>1
<1>10. \A i \in 0 .. m : h[i] \in Holding
  <2>1. \A i \in 1 .. m : h[i - 1] \in Holding => h[i] \in Holding
    BY <1>2, <1>9
  <2> HIDE DEF h
  <2>2. Inherits(h, m, Holding)
    BY <1>3, <1>9, <2>1 DEF Inherits
  <2> QED
    BY <1>1, <2>2, ValuesStay
<1>11. h \in [0 .. m -> Holding]
  <2> HIDE DEF h
  <2>1. h = [i \in 0 .. m |-> IF i = 0 THEN Unclaimed ELSE step(i, h[i - 1])]
    BY <1>8 DEF h
  <2>2. h = [i \in 0 .. m |-> h[i]]
    BY <2>1
  <2> QED
    BY <1>10, <2>2
<1> QED
  BY <1>9, <1>11 DEF m, step

\* What the journal says up to a line does not change when it grows.
LEMMA HoldingAppended ==
    ASSUME NEW lines \in Seq(Line), NEW l \in Line, NEW ns
    PROVE  /\ \A i \in 0 .. Len(lines) : holding(Append(lines, l), ns)[i] = holding(lines, ns)[i]
           /\ reservationRev(Append(lines, l), ns)
                = reservationStep(l.body, Len(lines) + 1, ns, reservationRev(lines, ns))
<1> DEFINE more == Append(lines, l)
           m == Len(lines)
           f == holding(lines, ns)
           g == holding(more, ns)
<1>1. /\ m \in Nat /\ Len(more) = m + 1 /\ more \in Seq(Line)
      /\ \A i \in 1 .. m : more[i] = lines[i]
      /\ more[m + 1] = l
  BY LinesAppended
<1>2. f[0] = Unclaimed /\ \A i \in 1 .. m : f[i] = reservationStep(lines[i].body, i, ns, f[i - 1])
  BY holdingSteps
<1> HIDE DEF more, m
<1>3. g[0] = Unclaimed /\ \A i \in 1 .. m + 1 : g[i] = reservationStep(more[i].body, i, ns, g[i - 1])
  BY <1>1, holdingSteps
<1> HIDE DEF f, g
<1>4. \A i \in 1 .. m : g[i - 1] = f[i - 1] => g[i] = f[i]
  <2>1. \A i \in 1 .. m : i \in 1 .. m + 1
    BY <1>1
  <2> QED
    BY <1>1, <1>2, <1>3, <2>1
<1>5. \A i \in 0 .. m : g[i] = f[i]
  <2>1. m \in Nat /\ g[0] = f[0]
    BY <1>1, <1>2, <1>3
  <2>2. InStep(g, f, m)
    BY <1>4, <2>1 DEF InStep
  <2> QED
    BY <2>1, <2>2, ValuesAgree
<1>6. g[m + 1] = reservationStep(l.body, m + 1, ns, g[m])
  <2>1. m + 1 \in 1 .. m + 1 /\ (m + 1) - 1 = m
    BY <1>1
  <2> QED
    BY <1>1, <1>3, <2>1
<1>7. g[m] = f[m]
  BY <1>1, <1>5
<1> QED
  BY <1>1, <1>5, <1>6, <1>7 DEF f, g, more, m, reservationRev

LEMMA reservationRevType ==
    ASSUME NEW lines \in Seq(Line), NEW ns
    PROVE  reservationRev(lines, ns) \in Holding
<1>1. Len(lines) \in 0 .. Len(lines)
  OBVIOUS
<1> QED
  BY <1>1, holdingSteps DEF reservationRev

LEMMA NobodyHoldsAtFirst ==
    ASSUME NEW ns
    PROVE  reservationRev(<<>>, ns) = Unclaimed
<1>1. <<>> \in Seq(Line) /\ Len(<<>>) = 0
  OBVIOUS
<1> QED
  BY <1>1, holdingSteps DEF reservationRev

-----------------------------------------------------------------------------
(* The folds that give the delegates of a namespace. *)

Appointments(ns) == [Key -> Scope \cup {None, Prefix(ns)}]

LEMMA delegatesStepType ==
    ASSUME NEW e \in Body, NEW ns, NEW holder, NEW set \in Appointments(ns)
    PROVE  delegatesStep(e, ns, holder, set) \in Appointments(ns)
<1>1. Nobody \in Appointments(ns)
  BY DEF Nobody, Appointments
<1>2. CASE e.kind = "delegate"
  <2>1. e.env \in GrantStatement
    BY <1>2 DEF Body, Carrying, PutEntry
  <2> DEFINE v == IF e.env.op = "revoke" THEN None ELSE IF e.env.scope = None THEN Prefix(ns) ELSE e.env.scope
  <2>2. v \in Scope \cup {None, Prefix(ns)}
    BY <2>1 DEF GrantStatement
  <2> HIDE DEF v
  <2>3. [set EXCEPT ![e.env.subject] = v] \in Appointments(ns)
    BY <2>2 DEF Appointments
  <2> QED
    BY <1>2, <2>3 DEF delegatesStep, v
<1> QED
  BY <1>1, <1>2 DEF delegatesStep

\* Both folds: `reset` are the lines that end all grants, H[i] is who may grant in line i.
Appoints(f, lines, ns, reset, H) ==
    /\ f \in [0 .. Len(lines) -> Appointments(ns)]
    /\ f[0] = Nobody
    /\ \A i \in 1 .. Len(lines) :
          f[i] = IF i \in reset THEN Nobody ELSE delegatesStep(lines[i].body, ns, H[i], f[i - 1])

LEMMA AppointmentsExist ==
    ASSUME NEW lines \in Seq(Line), NEW ns, NEW reset, NEW H
    PROVE  \E f : Appoints(f, lines, ns, reset, H)
<1> DEFINE m == Len(lines)
           T == Appointments(ns)
           step(i, set) == IF i \in reset THEN Nobody ELSE delegatesStep(lines[i].body, ns, H[i], set)
           G == [i \in 1 .. m |-> [set \in T |-> step(i, set)]]
<1>1. m \in Nat /\ \A i \in 1 .. m : lines[i].body \in Body
  <2>1. m \in Nat /\ \A i \in 1 .. m : lines[i] \in Line
    OBVIOUS
  <2> QED
    BY <2>1 DEF Line
<1>2. Nobody \in T
  BY DEF Nobody, Appointments
<1>3. \A i \in 1 .. m : \A set \in T : step(i, set) \in T
  BY <1>1, <1>2, delegatesStepType
<1> HIDE DEF m, T, step
<1>4. G \in Steps(m, T)
  BY <1>3 DEF Steps
<1>5. PICK f : Follows(f, T, Nobody, m, G)
  <2> HIDE DEF G
  <2> QED
    BY <1>1, <1>2, <1>4, StepsExist
<1>6. ASSUME NEW i \in 1 .. m PROVE f[i] = step(i, f[i - 1])
  <2>1. i - 1 \in 0 .. m
    BY <1>1
  <2> QED
    BY <1>5, <2>1 DEF Follows
<1>7. f \in [0 .. m -> T] /\ f[0] = Nobody
  BY <1>5 DEF Follows
<1> QED
  BY <1>6, <1>7 DEF m, T, step, Appoints

LEMMA appointedSteps ==
    ASSUME NEW lines \in Seq(Line), NEW ns, NEW holder
    PROVE  /\ appointed(lines, ns, holder)[0] = Nobody
           /\ \A i \in 1 .. Len(lines) :
                 appointed(lines, ns, holder)[i]
                   = delegatesStep(lines[i].body, ns, holder, appointed(lines, ns, holder)[i - 1])
<1> DEFINE m == Len(lines)
           step(i, set) == delegatesStep(lines[i].body, ns, holder, set)
           Is(f) == f = [i \in 0 .. m |-> IF i = 0 THEN Nobody ELSE step(i, f[i - 1])]
           a == appointed(lines, ns, holder)
<1>1. m \in Nat
  OBVIOUS
<1>2. \E f \in [0 .. m -> Appointments(ns)] :
          f[0] = Nobody /\ \A i \in 1 .. m : f[i] = step(i, f[i - 1])
  <2>1. PICK f : Appoints(f, lines, ns, {}, [i \in 1 .. m |-> holder])
    BY AppointmentsExist
  <2> QED
    BY <2>1 DEF Appoints
<1>3. a = CHOOSE g : Is(g)
  BY Zenon DEF appointed
<1> HIDE DEF m, step, a
<1>4. \E f : Is(f)
  <2>1. PICK f \in [0 .. m -> Appointments(ns)] :
            f[0] = Nobody /\ \A i \in 1 .. m : f[i] = step(i, f[i - 1])
    BY <1>2
  <2>2. \A i \in 0 .. m : f[i] = IF i = 0 THEN Nobody ELSE step(i, f[i - 1])
    BY <1>1, <2>1
  <2> QED
    BY <2>1, <2>2
<1>5. Is(a)
  <2> HIDE DEF Is
  <2> QED
    BY <1>3, <1>4, Zenon
<1>6. a[0] = Nobody /\ \A i \in 1 .. m : a[i] = step(i, a[i - 1])
  BY <1>1, <1>5
<1> QED
  BY <1>6 DEF m, step, a

LEMMA atTheTimeSteps ==
    ASSUME NEW lines \in Seq(Line), NEW ns
    PROVE  /\ appointedAtTheTime(lines, ns)[0] = Nobody
           /\ \A i \in 1 .. Len(lines) :
                 appointedAtTheTime(lines, ns)[i] =
                   IF holding(lines, ns)[i].key # holding(lines, ns)[i - 1].key THEN Nobody
                   ELSE delegatesStep(lines[i].body, ns, holding(lines, ns)[i - 1].key,
                                      appointedAtTheTime(lines, ns)[i - 1])
<1> DEFINE m == Len(lines)
           held == holding(lines, ns)
           step(i, set) == IF held[i].key # held[i - 1].key THEN Nobody
                           ELSE delegatesStep(lines[i].body, ns, held[i - 1].key, set)
           Is(f) == f = [i \in 0 .. m |-> IF i = 0 THEN Nobody ELSE step(i, f[i - 1])]
           a == appointedAtTheTime(lines, ns)
<1>1. m \in Nat
  OBVIOUS
<1>2. \E f \in [0 .. m -> Appointments(ns)] :
          f[0] = Nobody /\ \A i \in 1 .. m : f[i] = step(i, f[i - 1])
  <2> DEFINE reset == {i \in 1 .. m : held[i].key # held[i - 1].key}
             H == [i \in 1 .. m |-> held[i - 1].key]
  <2>1. PICK f : Appoints(f, lines, ns, reset, H)
    BY AppointmentsExist
  <2> QED
    BY <2>1 DEF Appoints
<1>3. a = CHOOSE g : Is(g)
  BY Zenon DEF appointedAtTheTime
<1> HIDE DEF m, step, a
<1>4. \E f : Is(f)
  <2>1. PICK f \in [0 .. m -> Appointments(ns)] :
            f[0] = Nobody /\ \A i \in 1 .. m : f[i] = step(i, f[i - 1])
    BY <1>2
  <2>2. \A i \in 0 .. m : f[i] = IF i = 0 THEN Nobody ELSE step(i, f[i - 1])
    BY <1>1, <2>1
  <2> QED
    BY <2>1, <2>2
<1>5. Is(a)
  <2> HIDE DEF Is
  <2> QED
    BY <1>3, <1>4, Zenon
<1>6. a[0] = Nobody /\ \A i \in 1 .. m : a[i] = step(i, a[i - 1])
  BY <1>1, <1>5
<1> QED
  BY <1>6 DEF m, step, a

LEMMA AppointedAppended ==
    ASSUME NEW lines \in Seq(Line), NEW l \in Line, NEW ns, NEW holder
    PROVE  appointed(Append(lines, l), ns, holder)[Len(lines) + 1]
             = delegatesStep(l.body, ns, holder, appointed(lines, ns, holder)[Len(lines)])
<1> DEFINE more == Append(lines, l)
           m == Len(lines)
           f == appointed(lines, ns, holder)
           g == appointed(more, ns, holder)
<1>1. /\ m \in Nat /\ Len(more) = m + 1 /\ more \in Seq(Line)
      /\ \A i \in 1 .. m : more[i] = lines[i]
      /\ more[m + 1] = l
  BY LinesAppended
<1>2. f[0] = Nobody /\ \A i \in 1 .. m : f[i] = delegatesStep(lines[i].body, ns, holder, f[i - 1])
  BY appointedSteps
<1> HIDE DEF more, m
<1>3. g[0] = Nobody /\ \A i \in 1 .. m + 1 : g[i] = delegatesStep(more[i].body, ns, holder, g[i - 1])
  BY <1>1, appointedSteps
<1> HIDE DEF f, g
<1>4. \A i \in 1 .. m : g[i - 1] = f[i - 1] => g[i] = f[i]
  <2>1. \A i \in 1 .. m : i \in 1 .. m + 1
    BY <1>1
  <2> QED
    BY <1>1, <1>2, <1>3, <2>1
<1>5. \A i \in 0 .. m : g[i] = f[i]
  <2>1. m \in Nat /\ g[0] = f[0]
    BY <1>1, <1>2, <1>3
  <2>2. InStep(g, f, m)
    BY <1>4, <2>1 DEF InStep
  <2> QED
    BY <2>1, <2>2, ValuesAgree
<1>6. g[m + 1] = delegatesStep(l.body, ns, holder, g[m])
  <2>1. m + 1 \in 1 .. m + 1 /\ (m + 1) - 1 = m
    BY <1>1
  <2> QED
    BY <1>1, <1>3, <2>1
<1>7. g[m] = f[m]
  BY <1>1, <1>5
<1> QED
  BY <1>6, <1>7 DEF f, g, more, m

LEMMA AtTheTimeAppended ==
    ASSUME NEW lines \in Seq(Line), NEW l \in Line, NEW ns
    PROVE  appointedAtTheTime(Append(lines, l), ns)[Len(lines) + 1] =
             IF reservationRev(Append(lines, l), ns).key # reservationRev(lines, ns).key THEN Nobody
             ELSE delegatesStep(l.body, ns, reservationRev(lines, ns).key,
                                appointedAtTheTime(lines, ns)[Len(lines)])
<1> DEFINE more == Append(lines, l)
           m == Len(lines)
           f == appointedAtTheTime(lines, ns)
           g == appointedAtTheTime(more, ns)
           hf == holding(lines, ns)
           hg == holding(more, ns)
<1>1. /\ m \in Nat /\ Len(more) = m + 1 /\ more \in Seq(Line)
      /\ \A i \in 1 .. m : more[i] = lines[i]
      /\ more[m + 1] = l
  BY LinesAppended
<1>2. f[0] = Nobody /\ \A i \in 1 .. m :
          f[i] = IF hf[i].key # hf[i - 1].key THEN Nobody
                 ELSE delegatesStep(lines[i].body, ns, hf[i - 1].key, f[i - 1])
  BY atTheTimeSteps
<1>3. \A i \in 0 .. m : hg[i] = hf[i]
  BY HoldingAppended
<1> HIDE DEF more, m
<1>4. g[0] = Nobody /\ \A i \in 1 .. m + 1 :
          g[i] = IF hg[i].key # hg[i - 1].key THEN Nobody
                 ELSE delegatesStep(more[i].body, ns, hg[i - 1].key, g[i - 1])
  BY <1>1, atTheTimeSteps
<1> HIDE DEF f, g, hf, hg
<1>5. ASSUME NEW i \in 1 .. m, g[i - 1] = f[i - 1] PROVE g[i] = f[i]
  <2>1. i \in 1 .. m + 1 /\ i \in 0 .. m /\ i - 1 \in 0 .. m
    BY <1>1
  <2>2. hg[i] = hf[i] /\ hg[i - 1] = hf[i - 1] /\ more[i] = lines[i]
    BY <1>1, <1>3, <2>1
  <2> QED
    BY <1>2, <1>4, <1>5, <2>1, <2>2
<1>6. \A i \in 0 .. m : g[i] = f[i]
  <2>1. m \in Nat /\ g[0] = f[0]
    BY <1>1, <1>2, <1>4
  <2>2. InStep(g, f, m)
    BY <1>5, <2>1 DEF InStep
  <2> QED
    BY <2>1, <2>2, ValuesAgree
<1>7. m + 1 \in 1 .. m + 1 /\ (m + 1) - 1 = m /\ m \in 0 .. m
  BY <1>1
<1>8. g[m + 1] = IF hg[m + 1].key # hg[m].key THEN Nobody ELSE delegatesStep(l.body, ns, hg[m].key, g[m])
  BY <1>1, <1>4, <1>7
<1>9. g[m] = f[m] /\ hg[m] = hf[m]
  BY <1>3, <1>6, <1>7
<1>10. reservationRev(more, ns) = hg[m + 1] /\ reservationRev(lines, ns) = hf[m]
  BY <1>1 DEF reservationRev, hf, hg, m
<1> QED
  BY <1>8, <1>9, <1>10 DEF f, g, more, m

\* Without an accepted grant there is no delegate, whoever the holder is.
NoGrant(lines, ns) ==
    \A i \in 1 .. Len(lines) : lines[i].body.name = ns => ~Accepted(lines, i, "delegate")

LEMMA NoGrantNobody ==
    ASSUME NEW lines \in Seq(Line), NEW ns, NEW holder, NoGrant(lines, ns)
    PROVE  appointed(lines, ns, holder)[Len(lines)] = Nobody
<1> DEFINE m == Len(lines)
           f == appointed(lines, ns, holder)
<1>1. m \in Nat /\ m \in 0 .. m
  OBVIOUS
<1>2. f[0] = Nobody /\ \A i \in 1 .. m : f[i] = delegatesStep(lines[i].body, ns, holder, f[i - 1])
  BY appointedSteps
<1>3. \A i \in 1 .. m : f[i - 1] \in {Nobody} => f[i] \in {Nobody}
  BY <1>2 DEF NoGrant, Accepted, delegatesStep
<1> HIDE DEF f, m
<1>4. \A i \in 0 .. m : f[i] \in {Nobody}
  <2>1. f[0] \in {Nobody}
    BY <1>2
  <2> DEFINE T == {Nobody}
  <2> HIDE DEF T
  <2>2. Inherits(f, m, T)
    BY <1>3, <2>1 DEF T, Inherits
  <2>3. \A i \in 0 .. m : f[i] \in T
    BY <1>1, <2>2, ValuesStay
  <2> QED
    BY <2>3 DEF T
<1> QED
  BY <1>1, <1>4 DEF f, m

-----------------------------------------------------------------------------
(* The revision of a permission state, and prefixes of the journal. *)

Grants(lines, ns, m) ==
    {i \in 1 .. m : /\ lines[i].body.name = ns
                    /\ Accepted(lines, i, "delegate") \/ Accepted(lines, i, "transfer")}

LEMMA GrantsFinite ==
    ASSUME NEW lines, NEW ns, NEW m \in Nat
    PROVE  IsFiniteSet(Grants(lines, ns, m)) /\ Cardinality(Grants(lines, ns, m)) \in Nat
<1>1. IsFiniteSet(1 .. m)
  BY FS_Interval
<1>2. Grants(lines, ns, m) \in SUBSET (1 .. m)
  BY DEF Grants
<1>3. IsFiniteSet(Grants(lines, ns, m))
  BY <1>1, <1>2, FS_Subset
<1> QED
  BY <1>3, FS_CardinalityType

LEMMA delegationRevCounts ==
    ASSUME NEW S, NEW lines \in Seq(S), NEW ns
    PROVE  delegationRev(lines, ns) = Cardinality(Grants(lines, ns, Len(lines)))
<1>1. DOMAIN lines = 1 .. Len(lines)
  OBVIOUS
<1> QED
  BY <1>1 DEF delegationRev, Grants

LEMMA SubSeqFacts ==
    ASSUME NEW S, NEW lines \in Seq(S), NEW m \in 0 .. Len(lines)
    PROVE  /\ SubSeq(lines, 1, m) \in Seq(S)
           /\ Len(SubSeq(lines, 1, m)) = m
           /\ \A i \in 1 .. m : SubSeq(lines, 1, m)[i] = lines[i]
OBVIOUS

LEMMA RevOfPrefix ==
    ASSUME NEW S, NEW lines \in Seq(S), NEW ns, NEW m \in 0 .. Len(lines)
    PROVE  delegationRev(SubSeq(lines, 1, m), ns) = Cardinality(Grants(lines, ns, m))
<1> DEFINE less == SubSeq(lines, 1, m)
<1>1. less \in Seq(S) /\ Len(less) = m /\ \A i \in 1 .. m : less[i] = lines[i]
  BY SubSeqFacts
<1> HIDE DEF less
<1>2. delegationRev(less, ns) = Cardinality(Grants(less, ns, m))
  BY <1>1, delegationRevCounts
<1>3. Grants(less, ns, m) = Grants(lines, ns, m)
  BY <1>1 DEF Grants, Accepted
<1> QED
  BY <1>2, <1>3 DEF less

\* A statement signed before a grant or transfer that the journal holds is out of date after it.
LEMMA RevGrows ==
    ASSUME NEW lines, NEW ns, NEW a \in Nat, NEW b \in Nat, NEW i \in Grants(lines, ns, b),
           a < i
    PROVE  Cardinality(Grants(lines, ns, a)) # Cardinality(Grants(lines, ns, b))
<1>1. i \in 1 .. b
  BY DEF Grants
<1>2. Grants(lines, ns, a) \in SUBSET Grants(lines, ns, b)
  BY <1>1 DEF Grants
<1>3. i \notin Grants(lines, ns, a)
  BY <1>1 DEF Grants
<1> QED
  BY <1>2, <1>3, GrantsFinite, FS_Subset

LEMMA PrefixStays ==
    ASSUME NEW S, NEW lines \in Seq(S), NEW l \in S, NEW m \in 0 .. Len(lines)
    PROVE  SubSeq(Append(lines, l), 1, m) = SubSeq(lines, 1, m)
OBVIOUS

LEMMA WholePrefix ==
    ASSUME NEW S, NEW lines \in Seq(S)
    PROVE  SubSeq(lines, 1, Len(lines)) = lines
OBVIOUS

-----------------------------------------------------------------------------
(* Types. *)

TypeInv == TypeOK /\ IsFiniteSet(statements)

Statement == ReserveStatement \cup GrantStatement \cup TransferStatement

JobOK(p) ==
    CASE pc[p] = "idle" -> job[p] = None
      [] pc[p] = "append" -> job[p] \in Body
      [] OTHER -> job[p] \in PutEntry /\ job[p].status = "accepted"

LEMMA TypesHold ==
    ASSUME TypeInv
    PROVE  /\ journal \in Seq(Line) /\ Len(journal) \in Nat /\ DOMAIN journal = 1 .. Len(journal)
           /\ IsFiniteSet(statements) /\ Cardinality(statements) \in Nat
           /\ statements \subseteq Statement
           /\ \A p \in Handler : JobOK(p)
<1>1. journal \in Seq(Line)
  BY DEF TypeInv, TypeOK, Line
<1>2. Len(journal) \in Nat /\ DOMAIN journal = 1 .. Len(journal)
  BY <1>1
<1> QED
  BY <1>1, <1>2, FS_CardinalityType DEF TypeInv, TypeOK, Statement, JobOK

\* Signing adds a statement of the right form.
LEMMA SignTyped ==
    ASSUME TypeInv, NEW s \in Statement, s.at = Len(journal), Sign(s)
    PROVE  TypeInv'
<1>1. statements' = statements \cup {s} /\ UNCHANGED <<journal, names, author, policy, pc, job, since>>
  BY DEF Sign
<1>2. IsFiniteSet(statements')
  BY <1>1, FS_AddElement DEF TypeInv
<1>3. \A t \in statements' : t.at <= Len(journal)
  <2>1. Len(journal) <= Len(journal)
    BY TypesHold
  <2> QED
    BY <1>1, <2>1 DEF TypeInv, TypeOK
<1> QED
  BY <1>1, <1>2, <1>3 DEF TypeInv, TypeOK, Statement

LEMMA cmdReserveTyped ==
    ASSUME TypeInv, NEW k \in Key, NEW ns \in Namespace, cmdReserve(k, ns)
    PROVE  TypeInv'
<1> DEFINE cur == reservationRev(journal, ns)
           s == [op |-> "reserve", ns |-> ns, authority |-> cur.key, rev |-> cur.rev,
                 by |-> k, at |-> Len(journal)]
<1>1. cur \in Holding /\ Len(journal) \in Nat
  BY TypesHold, reservationRevType
<1> HIDE DEF cur
<1>2. s \in ReserveStatement
  BY <1>1 DEF Holding, ReserveStatement
<1>3. Sign(s)
  BY DEF cmdReserve, cur
<1> QED
  BY <1>2, <1>3, SignTyped DEF Statement

LEMMA cmdDelegateTyped ==
    ASSUME TypeInv, NEW k \in Key, NEW op \in {"delegate", "revoke"}, NEW ns \in Namespace,
           NEW q \in Key, NEW sc \in Scope \cup {None}, cmdDelegate(k, op, ns, q, sc)
    PROVE  TypeInv'
<1> DEFINE cur == reservationRev(journal, ns)
           drev == delegationRev(journal, ns)
           s == [op |-> op, ns |-> ns, subject |-> q, scope |-> sc, authority |-> k,
                 rev |-> cur.rev, drev |-> drev, by |-> k, at |-> Len(journal)]
<1>1. cur \in Holding /\ Len(journal) \in Nat /\ drev \in Nat
  BY TypesHold, reservationRevType, delegationRevCounts, GrantsFinite
<1> HIDE DEF cur, drev
<1>2. s \in GrantStatement
  BY <1>1 DEF Holding, GrantStatement
<1>3. Sign(s)
  BY DEF cmdDelegate, cur, drev
<1> QED
  BY <1>2, <1>3, SignTyped DEF Statement

LEMMA cmdTransferTyped ==
    ASSUME TypeInv, NEW k \in Key, NEW ns \in Namespace, NEW q \in Key, cmdTransfer(k, ns, q)
    PROVE  TypeInv'
<1> DEFINE cur == reservationRev(journal, ns)
           n == Cardinality(statements)
           s == [op |-> "transfer", ns |-> ns, from |-> k, to |-> q, rev |-> cur.rev,
                 attempt |-> n, by |-> k, at |-> Len(journal)]
<1>1. cur \in Holding /\ Len(journal) \in Nat /\ n \in Nat
  BY TypesHold, reservationRevType
<1> HIDE DEF cur, n
<1>2. s \in TransferStatement
  BY <1>1 DEF Holding, TransferStatement
<1>3. Sign(s)
  BY DEF cmdTransfer, cur, n
<1> QED
  BY <1>2, <1>3, SignTyped DEF Statement

\* A decision leaves an entry of the right form.
LEMMA AnswerTyped ==
    ASSUME TypeInv, NEW p \in Handler, NEW e \in Body, Answer(p, e)
    PROVE  TypeInv'
<1>1. /\ pc' = [pc EXCEPT ![p] = "append"] /\ job' = [job EXCEPT ![p] = e]
      /\ since' = [since EXCEPT ![p] = Len(journal)]
      /\ UNCHANGED <<journal, names, author, policy, statements>>
  BY DEF Answer
<1>2. since' \in [Handler -> 0 .. Len(journal)]
  <2>1. Len(journal) \in 0 .. Len(journal)
    BY TypesHold
  <2> QED
    BY <1>1, <2>1 DEF TypeInv, TypeOK
<1> QED
  BY <1>1, <1>2 DEF TypeInv, TypeOK

LEMMA HandlerTyped ==
    ASSUME TypeInv, NEW p \in Handler,
           \/ \E s \in statements : apiReserve(p, s) \/ apiDelegate(p, s) \/ apiTransfer(p, s)
           \/ \E k \in Key, n \in Name, h \in Hash : StoreObject(p, k, n, h)
           \/ Decide(p) \/ Repoint(p) \/ AppendLog(p)
    PROVE  TypeInv'
<1>1. ASSUME NEW s \in statements, apiReserve(p, s) PROVE TypeInv'
  <2>1. s \in ReserveStatement
    BY <1>1, TypesHold DEF apiReserve, Statement, ReserveStatement, GrantStatement, TransferStatement
  <2>2. Entry("reserve", s.ns, None, "accepted", s.by, s) \in Body
    BY <2>1 DEF Entry, Body, Carrying, ReserveStatement
  <2> QED
    BY <1>1, <2>2, AnswerTyped DEF apiReserve
<1>2. ASSUME NEW s \in statements, apiDelegate(p, s) PROVE TypeInv'
  <2>1. s \in GrantStatement
    BY <1>2, TypesHold DEF apiDelegate, Statement, ReserveStatement, GrantStatement, TransferStatement
  <2>2. \A st \in {"accepted", "rejected"} : Entry("delegate", s.ns, None, st, s.by, s) \in Body
    BY <2>1 DEF Entry, Body, Carrying, GrantStatement
  <2> QED
    BY <1>2, <2>2, AnswerTyped DEF apiDelegate
<1>3. ASSUME NEW s \in statements, apiTransfer(p, s) PROVE TypeInv'
  <2>1. s \in TransferStatement
    BY <1>3, TypesHold DEF apiTransfer, Statement, ReserveStatement, GrantStatement, TransferStatement
  <2>2. \A st \in {"accepted", "rejected"} : Entry("transfer", s.ns, None, st, s.from, s) \in Body
    BY <2>1 DEF Entry, Body, Carrying, TransferStatement
  <2> QED
    BY <1>3, <2>2, AnswerTyped DEF apiTransfer
<1>4. ASSUME NEW k \in Key, NEW n \in Name, NEW h \in Hash, StoreObject(p, k, n, h) PROVE TypeInv'
  <2> DEFINE e == Entry("put", n, h, "accepted", k, None)
  <2>1. e \in PutEntry /\ e.status = "accepted"
    BY DEF Entry, PutEntry
  <2>2. /\ pc' = [pc EXCEPT ![p] = "decide"] /\ job' = [job EXCEPT ![p] = e]
        /\ since' = [since EXCEPT ![p] = Len(journal)] /\ author' = [author EXCEPT ![h] = k]
        /\ UNCHANGED <<journal, names, policy, statements>>
    BY <1>4 DEF StoreObject
  <2> HIDE DEF e
  <2>3. since' \in [Handler -> 0 .. Len(journal)]
    <3>1. Len(journal) \in 0 .. Len(journal)
      BY TypesHold
    <3> QED
      BY <2>2, <3>1 DEF TypeInv, TypeOK
  <2> QED
    BY <2>1, <2>2, <2>3 DEF TypeInv, TypeOK, Body
<1>5. ASSUME Decide(p) PROVE TypeInv'
  <2>1. pc[p] = "decide" /\ UNCHANGED <<journal, names, author, policy, statements, since>>
    BY <1>5 DEF Decide
  <2>2. job[p] \in PutEntry /\ job[p].status = "accepted"
    BY <2>1, TypesHold DEF JobOK
  <2>3. CASE pc' = [pc EXCEPT ![p] = "repoint"] /\ UNCHANGED job
    BY <2>1, <2>2, <2>3 DEF TypeInv, TypeOK
  <2>4. CASE pc' = [pc EXCEPT ![p] = "append"] /\ job' = [job EXCEPT ![p].status = "blocked"]
    <3>1. job'[p] = [job[p] EXCEPT !.status = "blocked"]
      BY <2>4 DEF TypeInv, TypeOK
    <3>2. [job[p] EXCEPT !.status = "blocked"] \in PutEntry
      BY <2>2 DEF PutEntry
    <3>3. job'[p] \in Body
      BY <3>1, <3>2 DEF Body
    <3>4. job' = [job EXCEPT ![p] = job'[p]]
      BY <2>4 DEF TypeInv, TypeOK
    <3> QED
      BY <2>1, <2>4, <3>3, <3>4 DEF TypeInv, TypeOK
  <2> QED
    BY <1>5, <2>3, <2>4 DEF Decide
<1>6. ASSUME Repoint(p) PROVE TypeInv'
  <2>1. /\ pc[p] = "repoint" /\ pc' = [pc EXCEPT ![p] = "append"]
        /\ names' = [names EXCEPT ![job[p].name] = job[p].hash]
        /\ UNCHANGED <<journal, author, policy, statements, job, since>>
    BY <1>6 DEF Repoint
  <2>2. job[p] \in PutEntry
    BY <2>1, TypesHold DEF JobOK
  <2>3. job[p].hash \in Hash
    BY <2>2 DEF PutEntry
  <2> QED
    BY <2>1, <2>2, <2>3 DEF TypeInv, TypeOK, Body
<1>7. ASSUME AppendLog(p) PROVE TypeInv'
  <2> DEFINE l == [body |-> job[p], since |-> since[p]]
  <2>1. /\ pc[p] = "append" /\ journal' = Append(journal, l)
        /\ pc' = [pc EXCEPT ![p] = "idle"] /\ job' = [job EXCEPT ![p] = None]
        /\ since' = [since EXCEPT ![p] = 0]
        /\ UNCHANGED <<names, author, policy, statements>>
    BY <1>7 DEF AppendLog
  <2>2. job[p] \in Body /\ since[p] \in 0 .. Len(journal) /\ Len(journal) \in Nat
    BY <2>1, TypesHold DEF JobOK, TypeInv, TypeOK
  <2>3. l \in Line /\ l.since = since[p] /\ journal \in Seq(Line)
    BY <2>2, TypesHold DEF Line
  <2> HIDE DEF l
  <2>4. /\ Append(journal, l) \in Seq(Line) /\ Len(Append(journal, l)) = Len(journal) + 1
        /\ \A i \in 1 .. Len(journal) : Append(journal, l)[i] = journal[i]
        /\ Append(journal, l)[Len(journal) + 1] = l
    BY <2>3, LinesAppended
  <2>5. \A i \in DOMAIN journal' : journal'[i].since < i
    <3> SUFFICES ASSUME NEW i \in 1 .. Len(journal) + 1 PROVE Append(journal, l)[i].since < i
      BY <2>1, <2>4
    <3>1. CASE i = Len(journal) + 1
      BY <2>2, <2>3, <2>4, <3>1
    <3>2. CASE i \in 1 .. Len(journal)
      BY <2>4, <3>2, TypesHold DEF TypeInv, TypeOK
    <3> QED
      BY <2>2, <3>1, <3>2
  <2>6. \A s \in statements : s.at <= Len(journal) + 1
    <3>1. \A s \in statements : s.at \in Nat /\ s.at <= Len(journal)
      BY TypesHold DEF TypeInv, TypeOK, ReserveStatement, GrantStatement, TransferStatement, Statement
    <3> QED
      BY <2>2, <3>1
  <2>7. since' \in [Handler -> 0 .. Len(journal) + 1]
    BY <2>1, <2>2 DEF TypeInv, TypeOK
  <2>8. journal' \in Seq([body : Body, since : Nat])
    BY <2>1, <2>4 DEF Line
  <2> QED
    BY <2>1, <2>4, <2>5, <2>6, <2>7, <2>8 DEF TypeInv, TypeOK
<1> QED
  BY <1>1, <1>2, <1>3, <1>4, <1>5, <1>6, <1>7

LEMMA NextTyped == TypeInv /\ [Next]_vars => TypeInv'
<1> SUFFICES ASSUME TypeInv, [Next]_vars PROVE TypeInv'
  OBVIOUS
<1>1. CASE UNCHANGED vars
  BY <1>1 DEF vars, TypeInv, TypeOK
<1>2. CASE EnforceOwnership
  BY <1>2 DEF EnforceOwnership, TypeInv, TypeOK
<1>3. ASSUME NEW k \in Key, NEW ns \in Namespace,
             \/ cmdReserve(k, ns)
             \/ \E q \in Key, sc \in Scope : cmdDelegate(k, "delegate", ns, q, sc)
             \/ \E q \in Key : cmdDelegate(k, "revoke", ns, q, None)
             \/ \E q \in Key : cmdTransfer(k, ns, q)
      PROVE  TypeInv'
  BY <1>3, cmdReserveTyped, cmdDelegateTyped, cmdTransferTyped
<1> QED
  BY <1>1, <1>2, <1>3, HandlerTyped DEF Next

LEMMA InitTyped == Init => TypeInv
<1> SUFFICES ASSUME Init PROVE TypeInv
  OBVIOUS
<1>1. journal = <<>> /\ Len(journal) = 0 /\ DOMAIN journal = {}
  BY DEF Init
<1>2. IsFiniteSet(statements)
  BY FS_EmptySet DEF Init
<1> QED
  BY <1>1, <1>2 DEF Init, TypeInv, TypeOK

(***************************************************************************)
(* The journal holds only entries that apiReserve, apiDelegate, apiTransfer *)
(* and admitPut write, and a handler only carries on what it decided.       *)
(***************************************************************************)
THEOREM AuthorityTyped == Spec => []TypeOK
<1>1. TypeInv => TypeOK
  BY DEF TypeInv
<1> QED
  BY <1>1, InitTyped, NextTyped, PTL DEF Spec

-----------------------------------------------------------------------------
(* The census. *)

(***************************************************************************)
(* ownershipCensus is no false alarm in the dangerous direction: where it   *)
(* predicts that enforcement lets the last publisher of a name go on,       *)
(* evalPolicy with the rules enforced does, for every policy and journal,   *)
(* with any number of handlers at work.                                     *)
(***************************************************************************)
THEOREM CensusIsRight == Spec => []CensusPredicts
<1>1. ASSUME TypeInv PROVE CensusPredicts
  <2> SUFFICES ASSUME NEW n \in Name, NEW i \in DOMAIN journal,
                      i \in Publications(journal, n),
                      \A j \in Publications(journal, n) : j <= i,
                      wouldEnforcementAllow(Policy, journal, n)
               PROVE  OwnershipAllows(Policy, journal, n, journal[i].body.author)
    BY DEF CensusPredicts, Publications
  <2>1. Publications(journal, n) \in SUBSET Nat
    BY <1>1, TypesHold DEF Publications
  <2> DEFINE P == Publications(journal, n)
             last == CHOOSE j \in P : \A k \in P : k <= j
  <2>2. last = i
    <3>1. last \in P /\ \A k \in P : k <= last
      BY Zenon
    <3> HIDE DEF P, last
    <3>2. P \in SUBSET Nat /\ i \in P /\ \A k \in P : k <= i
      BY <2>1 DEF P
    <3>3. last \in Nat /\ i \in Nat /\ last <= i /\ i <= last
      BY <3>1, <3>2
    <3> QED
      BY <3>3
  <2>3. lastPublisher(journal, n) = journal[i].body.author
    BY <2>2 DEF lastPublisher
  <2> HIDE DEF P, last
  <2> DEFINE k == journal[i].body.author
             rule == ruleFor(Policy, n)
             first == nameOwner(journal, n)
  <2>4. \/ rule = None
        \/ rule.owner = None /\ ~rule.tofu
        \/ (IF rule # None /\ rule.owner # None THEN rule.owner ELSE first) \in {None, k}
    BY <2>3 DEF wouldEnforcementAllow, nameOwnerUnderPolicy
  <2> HIDE DEF k, rule, first
  <2>5. \/ rule = None
        \/ /\ rule.owner = None /\ rule.tofu => first \in {None, k}
           /\ rule.owner \in {None, k}
    BY <2>4
  <2> QED
    BY <2>5 DEF OwnershipAllows, k, rule, first
<1> QED
  BY <1>1, InitTyped, NextTyped, PTL DEF Spec

-----------------------------------------------------------------------------
(* The inductive invariant, for one request at a time. *)

\* A signer signed the state it saw.
Signed(s) ==
    /\ s.op = "transfer" => s.from # s.to
    /\ s.op \in {"delegate", "revoke"} => s.drev = delegationRev(Upto(s.at), s.ns)
    /\ s.op = "reserve" /\ ~Reclaim => s.authority = None

\* What a handler decided still holds of the journal when it appends.
Decided(p) ==
    LET e == job[p]
    IN  /\ since[p] = Len(journal)
        /\ e.kind = "put" =>
              /\ author[e.hash] = e.author
              /\ pc[p] # "decide" /\ e.status = "accepted" => NamespaceAllows(journal, e.name, e.author)
        /\ e.kind # "put" => e.env \in statements /\ e.name = e.env.ns
        /\ e.kind = "reserve" => MayReserve(e.env)
        /\ e.kind = "delegate" /\ e.status = "accepted" => MayDelegate(e.env)
        /\ e.kind = "transfer" /\ e.status = "accepted" => MayTransfer(e.env)

RequestInv ==
    /\ \A s \in statements : Signed(s)
    /\ \A p \in Handler : pc[p] # "idle" => Decided(p)

\* Nobody grants before somebody reserved.
GrantsFollow ==
    \A ns \in Namespace : reservationRev(journal, ns).key = None => NoGrant(journal, ns)

\* A namespace is reserved once, and the reservation keeps its place in the journal.
ReservedOnce ==
    \A j \in 1 .. Len(journal) : Accepted(journal, j, "reserve") =>
        /\ reservationRev(journal, journal[j].body.name).key # None
        /\ reservationRev(journal, journal[j].body.name).seq = j

JournalInv ==
    /\ GrantsFollow
    /\ IsFiniteSet(reservations(journal))
    /\ DelegationIsHistory
    /\ FirstComeWithinLimit
    /\ ~Reclaim => ReservedOnce /\ RevocationRecovers

LEMMA JournalKept ==
    ASSUME JournalInv, UNCHANGED journal
    PROVE  JournalInv'
BY DEF JournalInv, GrantsFollow, DelegationIsHistory, DelegatesMatchHistory, RevocationIsDurable,
       FirstComeWithinLimit, ReservedOnce, RevocationRecovers, UnderReservation, Upto

\* A decision stands as long as the journal does not grow.
LEMMA DecidedKept ==
    ASSUME NEW q, Decided(q), UNCHANGED <<journal, author>>, statements \subseteq statements',
           pc'[q] = pc[q], job'[q] = job[q], since'[q] = since[q]
    PROVE  Decided(q)'
BY DEF Decided, MayReserve, MayDelegate, MayTransfer

LEMMA SignedKept ==
    ASSUME NEW s, Signed(s), UNCHANGED journal
    PROVE  Signed(s)'
BY DEF Signed, Upto

LEMMA SignKeeps ==
    ASSUME RequestInv, NEW s, Sign(s), Signed(s)
    PROVE  RequestInv'
<1>1. statements' = statements \cup {s} /\ UNCHANGED <<journal, names, author, policy, pc, job, since>>
  BY DEF Sign
<1>2. \A t \in statements' : Signed(t)'
  BY <1>1, SignedKept DEF RequestInv
<1>3. \A p \in Handler : pc'[p] # "idle" => Decided(p)'
  <2> SUFFICES ASSUME NEW p \in Handler, pc[p] # "idle" PROVE Decided(p)'
    BY <1>1
  <2> QED
    BY <1>1, DecidedKept DEF RequestInv
<1> QED
  BY <1>2, <1>3 DEF RequestInv

LEMMA ClientKeeps ==
    ASSUME TypeInv, RequestInv, NEW k \in Key, NEW ns \in Namespace,
           \/ cmdReserve(k, ns)
           \/ \E q \in Key, sc \in Scope : cmdDelegate(k, "delegate", ns, q, sc)
           \/ \E q \in Key : cmdDelegate(k, "revoke", ns, q, None)
           \/ \E q \in Key : cmdTransfer(k, ns, q)
    PROVE  RequestInv' /\ UNCHANGED journal
<1> DEFINE cur == reservationRev(journal, ns)
           drev == delegationRev(journal, ns)
<1>1. ASSUME cmdReserve(k, ns) PROVE RequestInv' /\ UNCHANGED journal
  <2> DEFINE s == [op |-> "reserve", ns |-> ns, authority |-> cur.key, rev |-> cur.rev,
                   by |-> k, at |-> Len(journal)]
  <2>1. Sign(s) /\ (cur.key = None \/ (cur.key = k /\ Reclaim))
    BY <1>1 DEF cmdReserve
  <2>2. Signed(s)
    BY <2>1 DEF Signed
  <2> QED
    BY <2>1, <2>2, SignKeeps DEF Sign
<1>2. ASSUME NEW op \in {"delegate", "revoke"}, NEW q \in Key, NEW sc, cmdDelegate(k, op, ns, q, sc)
      PROVE  RequestInv' /\ UNCHANGED journal
  <2> DEFINE s == [op |-> op, ns |-> ns, subject |-> q, scope |-> sc, authority |-> k,
                   rev |-> cur.rev, drev |-> drev, by |-> k, at |-> Len(journal)]
  <2>1. Sign(s)
    BY <1>2 DEF cmdDelegate
  <2>2. Upto(Len(journal)) = journal
    BY TypesHold, WholePrefix DEF Upto
  <2>3. Signed(s)
    BY <2>2 DEF Signed
  <2> QED
    BY <2>1, <2>3, SignKeeps DEF Sign
<1>3. ASSUME NEW q \in Key, cmdTransfer(k, ns, q) PROVE RequestInv' /\ UNCHANGED journal
  <2> DEFINE s == [op |-> "transfer", ns |-> ns, from |-> k, to |-> q, rev |-> cur.rev,
                   attempt |-> Cardinality(statements), by |-> k, at |-> Len(journal)]
  <2>1. Sign(s) /\ q # k
    BY <1>3 DEF cmdTransfer
  <2>2. Signed(s)
    BY <2>1 DEF Signed
  <2> QED
    BY <2>1, <2>2, SignKeeps DEF Sign
<1> QED
  BY <1>1, <1>2, <1>3

\* The other handlers' decisions, when p's step leaves the journal alone.
LEMMA OthersKeep ==
    ASSUME TypeInv, RequestInv, NEW p \in Handler, UNCHANGED <<journal, author, statements>>,
           \A q \in Handler : q # p => pc'[q] = pc[q] /\ job'[q] = job[q] /\ since'[q] = since[q],
           pc'[p] # "idle" => Decided(p)'
    PROVE  RequestInv'
<1>1. \A s \in statements' : Signed(s)'
  BY SignedKept DEF RequestInv
<1>2. ASSUME NEW q \in Handler, q # p, pc'[q] # "idle" PROVE Decided(q)'
  BY <1>2, DecidedKept DEF RequestInv
<1> QED
  BY <1>1, <1>2 DEF RequestInv

LEMMA AnswerKeeps ==
    ASSUME TypeInv, RequestInv, NEW p \in Handler, NEW s \in statements, NEW kind, NEW status, NEW k,
           kind \in {"reserve", "delegate", "transfer"},
           Answer(p, Entry(kind, s.ns, None, status, k, s)),
           kind = "reserve" => MayReserve(s),
           kind = "delegate" /\ status = "accepted" => MayDelegate(s),
           kind = "transfer" /\ status = "accepted" => MayTransfer(s)
    PROVE  RequestInv' /\ UNCHANGED journal
<1> DEFINE e == Entry(kind, s.ns, None, status, k, s)
<1>1. /\ pc' = [pc EXCEPT ![p] = "append"] /\ job' = [job EXCEPT ![p] = e]
      /\ since' = [since EXCEPT ![p] = Len(journal)]
      /\ UNCHANGED <<journal, names, author, policy, statements>>
  BY DEF Answer
<1>2. e.kind = kind /\ e.name = s.ns /\ e.status = status /\ e.env = s
  BY DEF Entry
<1> HIDE DEF e
<1>3. job'[p] = e /\ since'[p] = Len(journal')
  BY <1>1 DEF TypeInv, TypeOK
<1>4. Decided(p)'
  BY <1>1, <1>2, <1>3 DEF Decided, MayReserve, MayDelegate, MayTransfer
<1>5. \A q \in Handler : q # p => pc'[q] = pc[q] /\ job'[q] = job[q] /\ since'[q] = since[q]
  BY <1>1 DEF TypeInv, TypeOK
<1> QED
  BY <1>1, <1>4, <1>5, OthersKeep

LEMMA ApiKeeps ==
    ASSUME TypeInv, RequestInv, NEW p \in Handler, NEW s \in statements,
           apiReserve(p, s) \/ apiDelegate(p, s) \/ apiTransfer(p, s)
    PROVE  RequestInv' /\ UNCHANGED journal
<1>1. CASE apiReserve(p, s)
  <2>1. MayReserve(s) /\ Answer(p, Entry("reserve", s.ns, None, "accepted", s.by, s))
    BY <1>1 DEF apiReserve
  <2>2. "reserve" # "delegate" /\ "reserve" # "transfer"
    OBVIOUS
  <2> QED
    BY <2>1, <2>2, AnswerKeeps
<1>2. CASE apiDelegate(p, s)
  BY <1>2, AnswerKeeps DEF apiDelegate
<1>3. CASE apiTransfer(p, s)
  BY <1>3, AnswerKeeps DEF apiTransfer
<1> QED
  BY <1>1, <1>2, <1>3

LEMMA StoreObjectKeeps ==
    ASSUME TypeInv, RequestInv, OneAtATime', NEW p \in Handler, NEW k \in Key, NEW n \in Name,
           NEW h \in Hash, StoreObject(p, k, n, h)
    PROVE  RequestInv' /\ UNCHANGED journal
<1> DEFINE e == Entry("put", n, h, "accepted", k, None)
<1>1. /\ pc' = [pc EXCEPT ![p] = "decide"] /\ job' = [job EXCEPT ![p] = e]
      /\ since' = [since EXCEPT ![p] = Len(journal)] /\ author' = [author EXCEPT ![h] = k]
      /\ UNCHANGED <<journal, names, policy, statements>>
  BY DEF StoreObject
<1>2. e.kind = "put" /\ e.hash = h /\ e.author = k
  BY DEF Entry
<1> HIDE DEF e
<1>3. pc'[p] = "decide" /\ job'[p] = e /\ since'[p] = Len(journal') /\ author'[h] = k
  BY <1>1 DEF TypeInv, TypeOK
<1>4. Decided(p)'
  BY <1>2, <1>3 DEF Decided
<1>5. \A q \in Handler : q # p => pc'[q] = "idle"
  BY <1>3 DEF OneAtATime
<1>6. \A s \in statements' : Signed(s)'
  BY <1>1, SignedKept DEF RequestInv
<1> QED
  BY <1>1, <1>4, <1>5, <1>6 DEF RequestInv

LEMMA DecideKeeps ==
    ASSUME TypeInv, RequestInv, NEW p \in Handler, Decide(p)
    PROVE  RequestInv' /\ UNCHANGED journal
<1>1. pc[p] = "decide" /\ UNCHANGED <<journal, names, author, policy, statements, since>>
  BY DEF Decide
<1>2. job[p] \in PutEntry /\ job[p].status = "accepted" /\ Decided(p)
  BY <1>1, TypesHold DEF JobOK, RequestInv
<1>3. job[p].kind = "put" /\ author[job[p].hash] = job[p].author /\ since[p] = Len(journal)
  BY <1>2 DEF PutEntry, Decided
<1>4. CASE /\ evalPolicy(job[p].name, job[p].hash)
           /\ pc' = [pc EXCEPT ![p] = "repoint"] /\ UNCHANGED job
  <2>1. NamespaceAllows(journal', job'[p].name, job'[p].author)
    BY <1>1, <1>3, <1>4 DEF evalPolicy
  <2>2. Decided(p)'
    BY <1>1, <1>3, <1>4, <2>1 DEF Decided
  <2>3. \A q \in Handler : q # p => pc'[q] = pc[q] /\ job'[q] = job[q] /\ since'[q] = since[q]
    BY <1>1, <1>4 DEF TypeInv, TypeOK
  <2> QED
    BY <1>1, <2>2, <2>3, OthersKeep
<1>5. CASE pc' = [pc EXCEPT ![p] = "append"] /\ job' = [job EXCEPT ![p].status = "blocked"]
  <2>1. job'[p] = [job[p] EXCEPT !.status = "blocked"]
    BY <1>5 DEF TypeInv, TypeOK
  <2>2. /\ job'[p].kind = "put" /\ job'[p].status = "blocked"
        /\ job'[p].hash = job[p].hash /\ job'[p].author = job[p].author
    BY <1>2, <1>3, <2>1 DEF PutEntry
  <2>3. Decided(p)'
    BY <1>1, <1>3, <2>2 DEF Decided
  <2>4. \A q \in Handler : q # p => pc'[q] = pc[q] /\ job'[q] = job[q] /\ since'[q] = since[q]
    BY <1>1, <1>5 DEF TypeInv, TypeOK
  <2> QED
    BY <1>1, <2>3, <2>4, OthersKeep
<1> QED
  BY <1>4, <1>5 DEF Decide

LEMMA RepointKeeps ==
    ASSUME TypeInv, RequestInv, NEW p \in Handler, Repoint(p)
    PROVE  RequestInv' /\ UNCHANGED journal
<1>1. /\ pc[p] = "repoint" /\ pc' = [pc EXCEPT ![p] = "append"]
      /\ UNCHANGED <<journal, author, policy, statements, job, since>>
  BY DEF Repoint
<1>2. Decided(p) /\ job[p].kind = "put"
  BY <1>1, TypesHold DEF RequestInv, JobOK, PutEntry
<1>3. Decided(p)'
  BY <1>1, <1>2 DEF Decided
<1>4. \A q \in Handler : q # p => pc'[q] = pc[q] /\ job'[q] = job[q] /\ since'[q] = since[q]
  BY <1>1 DEF TypeInv, TypeOK
<1> QED
  BY <1>1, <1>3, <1>4, OthersKeep

-----------------------------------------------------------------------------
(* The append. *)

\* The line that p appends, and what is known of it.
LEMMA AppendFacts ==
    ASSUME TypeInv, RequestInv, NEW p \in Handler, AppendLog(p)
    PROVE  \E l \in Line :
              /\ journal' = Append(journal, l) /\ l.body = job[p] /\ l.since = Len(journal)
              /\ Decided(p) /\ pc[p] = "append" /\ pc' = [pc EXCEPT ![p] = "idle"]
              /\ UNCHANGED <<author, statements>>
<1> DEFINE l == [body |-> job[p], since |-> since[p]]
<1>1. /\ pc[p] = "append" /\ journal' = Append(journal, l) /\ pc' = [pc EXCEPT ![p] = "idle"]
      /\ UNCHANGED <<author, statements>>
  BY DEF AppendLog
<1>2. Decided(p) /\ job[p] \in Body
  BY <1>1, TypesHold DEF RequestInv, JobOK
<1>3. since[p] = Len(journal) /\ Len(journal) \in Nat
  BY <1>2, TypesHold DEF Decided
<1>4. l \in Line /\ l.body = job[p] /\ l.since = Len(journal)
  BY <1>2, <1>3 DEF Line
<1> HIDE DEF l
<1> QED
  BY <1>1, <1>2, <1>4

\* What the three kinds of statement look like in the journal.
LEMMA BodyFacts ==
    ASSUME NEW e \in Body
    PROVE  /\ e.status \in {"accepted", "rejected", "blocked"}
           /\ e.kind \in {"put", "reserve", "delegate", "transfer"}
           /\ e.kind = "reserve" =>
                 /\ e.status = "accepted" /\ e.name \in Namespace /\ e.env.op = "reserve"
                 /\ e.env.by \in Key /\ e.env.rev \in Nat
           /\ e.kind = "delegate" =>
                 e.name \in Namespace /\ e.env.op \in {"delegate", "revoke"} /\ e.env.by \in Key
                   /\ e.env.at \in Nat
           /\ e.kind = "transfer" =>
                 /\ e.name \in Namespace /\ e.env.op = "transfer"
                 /\ e.env.from \in Key /\ e.env.to \in Key /\ e.env.rev \in Nat
BY DEF Body, Carrying, PutEntry, ReserveStatement, GrantStatement, TransferStatement

\* Whom a namespace belongs to after a line that was decided on the journal before it.
LEMMA HolderAfter ==
    ASSUME TypeInv, NEW l \in Line, NEW ns
    PROVE  LET cur == reservationRev(journal, ns)
               new == reservationRev(Append(journal, l), ns)
               e   == l.body
           IN  /\ e.status # "accepted" \/ e.name # ns \/ e.kind \in {"put", "delegate"} => new = cur
               /\ e.kind = "reserve" /\ e.name = ns /\ e.env.rev = cur.rev =>
                     new = [key |-> e.env.by, rev |-> cur.rev + 1, seq |-> Len(journal) + 1]
               /\ e.kind = "transfer" /\ e.status = "accepted" /\ e.name = ns
                    /\ e.env.rev = cur.rev /\ e.env.from = cur.key =>
                     new = [key |-> e.env.to, rev |-> cur.rev + 1, seq |-> cur.seq]
<1> DEFINE cur == reservationRev(journal, ns)
           new == reservationRev(Append(journal, l), ns)
           e   == l.body
<1>1. new = reservationStep(e, Len(journal) + 1, ns, cur)
  BY TypesHold, HoldingAppended
<1>2. cur \in Holding /\ e \in Body
  BY TypesHold, reservationRevType DEF Line
<1> HIDE DEF cur, new, e
<1>3. cur.rev \in Nat /\ cur.rev + 1 > cur.rev
  BY <1>2 DEF Holding
<1>4. e.status # "accepted" \/ e.name # ns \/ e.kind \in {"put", "delegate"} => new = cur
  BY <1>1 DEF reservationStep
<1>5. e.kind = "reserve" /\ e.name = ns /\ e.env.rev = cur.rev =>
          new = [key |-> e.env.by, rev |-> cur.rev + 1, seq |-> Len(journal) + 1]
  BY <1>1, <1>2, <1>3, BodyFacts DEF reservationStep
<1>6. e.kind = "transfer" /\ e.status = "accepted" /\ e.name = ns
        /\ e.env.rev = cur.rev /\ e.env.from = cur.key =>
          new = [key |-> e.env.to, rev |-> cur.rev + 1, seq |-> cur.seq]
  <2>1. e.kind = "transfer" => e.env.from # None
    BY <1>2, BodyFacts, AuthorityAssumption
  <2> QED
    BY <1>1, <1>2, <1>3, <2>1 DEF reservationStep
<1> QED
  BY <1>4, <1>5, <1>6 DEF cur, new, e

\* A step of the journal: a line l that a handler decided on, seen from namespace ns.
\* The holder stays, or the namespace is claimed, or it is handed over.
Stays(l, ns) == reservationRev(Append(journal, l), ns) = reservationRev(journal, ns)

Claimed(l, ns) ==
    /\ l.body.kind = "reserve" /\ l.body.name = ns /\ MayReserve(l.body.env) /\ l.body.env.ns = ns
    /\ reservationRev(Append(journal, l), ns)
         = [key |-> l.body.env.by, rev |-> reservationRev(journal, ns).rev + 1, seq |-> Len(journal) + 1]

HandedOver(l, ns) ==
    /\ l.body.kind = "transfer" /\ l.body.status = "accepted" /\ l.body.name = ns
    /\ MayTransfer(l.body.env) /\ l.body.env.ns = ns
    /\ l.body.env.from # l.body.env.to
    /\ reservationRev(Append(journal, l), ns)
         = [key |-> l.body.env.to, rev |-> reservationRev(journal, ns).rev + 1,
            seq |-> reservationRev(journal, ns).seq]

LEMMA HolderCases ==
    ASSUME TypeInv, RequestInv, NEW p \in Handler, NEW l \in Line, l.body = job[p], Decided(p), NEW ns
    PROVE  Stays(l, ns) \/ Claimed(l, ns) \/ HandedOver(l, ns)
<1> DEFINE e == l.body
           cur == reservationRev(journal, ns)
<1>1. e \in Body /\ e = job[p]
  BY DEF Line
<1>2. CASE e.status # "accepted" \/ e.name # ns \/ e.kind \in {"put", "delegate"}
  BY <1>2, HolderAfter DEF Stays
<1>3. CASE e.kind = "reserve" /\ e.name = ns
  <2>1. MayReserve(e.env) /\ e.env.ns = ns
    BY <1>1, <1>3 DEF Decided
  <2>2. e.env.rev = cur.rev
    BY <2>1 DEF MayReserve
  <2> QED
    BY <1>3, <2>1, <2>2, HolderAfter DEF Claimed
<1>4. CASE e.kind = "transfer" /\ e.status = "accepted" /\ e.name = ns
  <2>1. MayTransfer(e.env) /\ e.env.ns = ns /\ e.env \in statements
    BY <1>1, <1>4 DEF Decided
  <2>2. e.env.rev = cur.rev /\ e.env.from = cur.key
    BY <2>1 DEF MayTransfer
  <2>3. e.env.from # e.env.to
    BY <1>1, <1>4, <2>1, BodyFacts DEF RequestInv, Signed
  <2> QED
    BY <1>4, <2>1, <2>2, <2>3, HolderAfter DEF HandedOver
<1> QED
  BY <1>1, <1>2, <1>3, <1>4, BodyFacts

\* p appends the line l.
Logs(p, l) ==
    /\ l \in Line /\ l.body = job[p] /\ l.since = Len(journal)
    /\ Decided(p)
    /\ journal' = Append(journal, l)

LEMMA LoggedLine ==
    ASSUME TypeInv, NEW p \in Handler, NEW l, Logs(p, l)
    PROVE  /\ l \in Line /\ l.body \in Body /\ journal \in Seq(Line) /\ Len(journal) \in Nat
           /\ DOMAIN journal = 1 .. Len(journal) /\ DOMAIN journal' = 1 .. Len(journal) + 1
           /\ Len(journal') = Len(journal) + 1
           /\ \A i \in 1 .. Len(journal) : journal'[i] = journal[i]
           /\ journal'[Len(journal) + 1] = l
           /\ \A i \in 1 .. Len(journal) + 1 : i \in 1 .. Len(journal) \/ i = Len(journal) + 1
<1>1. l \in Line /\ l.body \in Body /\ journal \in Seq(Line) /\ Len(journal) \in Nat /\ journal' = Append(journal, l)
  BY TypesHold DEF Logs, Line
<1>2. /\ journal' \in Seq(Line) /\ Len(journal') = Len(journal) + 1
      /\ \A i \in 1 .. Len(journal) : journal'[i] = journal[i]
      /\ journal'[Len(journal) + 1] = l
  BY <1>1, LinesAppended
<1>3. DOMAIN journal' = 1 .. Len(journal')
  BY <1>2
<1>4. \A i \in 1 .. Len(journal) + 1 : i \in 1 .. Len(journal) \/ i = Len(journal) + 1
  BY <1>1
<1> QED
  BY <1>1, <1>2, <1>3, <1>4, TypesHold

\* A namespace that is held stays held.
LEMMA HeldStays ==
    ASSUME TypeInv, RequestInv, NEW p \in Handler, NEW l, Logs(p, l), NEW ns,
           reservationRev(journal, ns).key # None
    PROVE  reservationRev(journal', ns).key # None
<1>1. Stays(l, ns) \/ Claimed(l, ns) \/ HandedOver(l, ns)
  BY HolderCases DEF Logs
<1>2. l.body \in Body /\ journal' = Append(journal, l)
  BY LoggedLine DEF Logs
<1> QED
  BY <1>1, <1>2, BodyFacts, AuthorityAssumption DEF Stays, Claimed, HandedOver

LEMMA GrantsFollowKept ==
    ASSUME TypeInv, RequestInv, JournalInv, NEW p \in Handler, NEW l, Logs(p, l)
    PROVE  GrantsFollow'
<1> SUFFICES ASSUME NEW ns \in Namespace, reservationRev(journal', ns).key = None,
                    NEW i \in 1 .. Len(journal'), journal'[i].body.name = ns,
                    Accepted(journal', i, "delegate")
             PROVE  FALSE
  BY DEF GrantsFollow, NoGrant
<1>1. reservationRev(journal, ns).key = None /\ NoGrant(journal, ns)
  BY HeldStays DEF JournalInv, GrantsFollow
<1>2. CASE i \in 1 .. Len(journal)
  BY <1>1, <1>2, LoggedLine DEF NoGrant, Accepted
<1>3. CASE i = Len(journal) + 1
  <2>1. l.body.kind = "delegate" /\ l.body.status = "accepted" /\ l.body.name = ns
    BY <1>3, LoggedLine DEF Accepted
  <2>2. MayDelegate(l.body.env) /\ l.body.env.ns = ns
    BY <2>1 DEF Logs, Decided
  <2>3. l.body.env.by = None
    BY <1>1, <2>2 DEF MayDelegate
  <2> QED
    BY <2>1, <2>3, LoggedLine, BodyFacts, AuthorityAssumption
<1> QED
  BY <1>2, <1>3, LoggedLine

LEMMA DelegatesKept ==
    ASSUME TypeInv, RequestInv, JournalInv, NEW p \in Handler, NEW l, Logs(p, l)
    PROVE  DelegatesMatchHistory'
<1> SUFFICES ASSUME NEW ns \in Namespace
             PROVE  delegates(journal', ns) = appointedAtTheTime(journal', ns)[Len(journal')]
  BY DEF DelegatesMatchHistory
<1> DEFINE old == reservationRev(journal, ns).key
           new == reservationRev(journal', ns).key
           L == Len(journal)
<1>1. l \in Line /\ journal \in Seq(Line) /\ Len(journal') = L + 1 /\ journal' = Append(journal, l)
  BY LoggedLine DEF Logs
<1>2. delegates(journal', ns) = delegatesStep(l.body, ns, new, appointed(journal, ns, new)[L])
  BY <1>1, AppointedAppended DEF delegates
<1>3. appointedAtTheTime(journal', ns)[L + 1] =
          IF new # old THEN Nobody
          ELSE delegatesStep(l.body, ns, old, appointedAtTheTime(journal, ns)[L])
  BY <1>1, AtTheTimeAppended
<1>4. appointed(journal, ns, old)[L] = appointedAtTheTime(journal, ns)[L]
  BY DEF JournalInv, DelegationIsHistory, DelegatesMatchHistory, delegates
<1>5. CASE new = old
  BY <1>1, <1>2, <1>3, <1>4, <1>5
<1>6. CASE new # old
  <2>1. Claimed(l, ns) \/ HandedOver(l, ns)
    BY <1>1, <1>6, HolderCases DEF Logs, Stays
  <2>2. CASE HandedOver(l, ns)
    BY <1>1, <1>2, <1>3, <1>6, <2>2 DEF HandedOver, delegatesStep
  <2>3. CASE Claimed(l, ns)
    <3>1. old = None
      BY <1>1, <1>6, <2>3 DEF Claimed, MayReserve
    <3>2. appointed(journal, ns, new)[L] = Nobody
      BY <1>1, <3>1, NoGrantNobody DEF JournalInv, GrantsFollow
    <3> QED
      BY <1>1, <1>2, <1>3, <1>6, <2>3, <3>2 DEF Claimed, delegatesStep
  <2> QED
    BY <2>1, <2>2, <2>3
<1> QED
  BY <1>5, <1>6

LEMMA DurableKept ==
    ASSUME TypeInv, RequestInv, JournalInv, NEW p \in Handler, NEW l, Logs(p, l)
    PROVE  RevocationIsDurable'
<1> SUFFICES ASSUME NEW i \in DOMAIN journal', NEW j \in DOMAIN journal', i < j,
                    Accepted(journal', i, "delegate"), journal'[i].body.env.op = "revoke",
                    Accepted(journal', j, "delegate"), journal'[j].body.env.op = "delegate",
                    journal'[i].body.name = journal'[j].body.name,
                    journal'[i].body.env.subject = journal'[j].body.env.subject
             PROVE  journal'[j].body.env.at >= i
  BY DEF RevocationIsDurable
<1>1. i \in 1 .. Len(journal) /\ journal'[i] = journal[i]
  BY LoggedLine
<1>2. CASE j \in 1 .. Len(journal)
  <2>1. journal'[j] = journal[j] /\ i \in DOMAIN journal /\ j \in DOMAIN journal
    BY <1>1, <1>2, LoggedLine
  <2> QED
    BY <1>1, <2>1 DEF JournalInv, DelegationIsHistory, RevocationIsDurable, Accepted
<1>3. CASE j = Len(journal) + 1
  <2> DEFINE s == l.body.env
             ns == l.body.name
  <2>1. journal'[j] = l /\ l.body.kind = "delegate" /\ l.body.status = "accepted" /\ l.body \in Body
    BY <1>3, LoggedLine DEF Accepted
  <2>2. MayDelegate(s) /\ s.ns = ns /\ s \in statements
    BY <2>1 DEF Logs, Decided
  <2>3. s.at \in Nat /\ s.op \in {"delegate", "revoke"}
    BY <2>1, BodyFacts
  <2>4. s.at \in 0 .. Len(journal)
    BY <2>2, <2>3, LoggedLine DEF TypeInv, TypeOK
  <2>5. s.drev = delegationRev(journal, ns) /\ s.drev = delegationRev(Upto(s.at), ns)
    BY <2>2, <2>3 DEF MayDelegate, RequestInv, Signed
  <2>6. Cardinality(Grants(journal, ns, s.at)) = Cardinality(Grants(journal, ns, Len(journal)))
    <3>1. journal \in Seq(Line)
      BY LoggedLine
    <3>2. delegationRev(journal, ns) = Cardinality(Grants(journal, ns, Len(journal)))
      BY <3>1, delegationRevCounts
    <3>3. delegationRev(Upto(s.at), ns) = Cardinality(Grants(journal, ns, s.at))
      BY <2>4, <3>1, RevOfPrefix DEF Upto
    <3> QED
      BY <2>5, <3>2, <3>3
  <2>7. i \in Grants(journal, ns, Len(journal))
    BY <1>1, <2>1 DEF Grants, Accepted
  <2>8. ~(s.at < i)
    BY <2>3, <2>6, <2>7, LoggedLine, RevGrows
  <2> QED
    BY <1>1, <2>1, <2>3, <2>8, LoggedLine
<1> QED
  BY <1>2, <1>3, LoggedLine

\* Only the namespace that the line names can change hands.
LEMMA OthersStay ==
    ASSUME TypeInv, NEW p \in Handler, NEW l, Logs(p, l), NEW ns, ns # l.body.name
    PROVE  reservationRev(journal', ns) = reservationRev(journal, ns)
<1>1. l \in Line /\ journal' = Append(journal, l)
  BY DEF Logs
<1> QED
  BY <1>1, HolderAfter

\* What a line can do to the namespace it names.
LEMMA NamedCases ==
    ASSUME TypeInv, RequestInv, NEW p \in Handler, NEW l, Logs(p, l), NEW ns
    PROVE  \/ reservationRev(journal', ns) = reservationRev(journal, ns)
           \/ /\ Claimed(l, ns) /\ reservationRev(journal', ns).key = l.body.env.by
              /\ reservationRev(journal', ns).seq = Len(journal) + 1
           \/ /\ HandedOver(l, ns) /\ reservationRev(journal', ns).key = l.body.env.to
              /\ reservationRev(journal', ns).seq = reservationRev(journal, ns).seq
<1>1. Stays(l, ns) \/ Claimed(l, ns) \/ HandedOver(l, ns)
  BY HolderCases DEF Logs
<1>2. journal' = Append(journal, l)
  BY DEF Logs
<1> QED
  BY <1>1, <1>2 DEF Stays, Claimed, HandedOver

LEMMA FirstComeKept ==
    ASSUME TypeInv, RequestInv, JournalInv, NEW p \in Handler, NEW l, Logs(p, l),
           NEW a \in reservations(journal'), NEW b \in reservations(journal'),
           namespaceOverlaps(a, b),
           reservationRev(journal', a).key # reservationRev(journal', b).key
    PROVE  \E i \in DOMAIN journal' :
              Accepted(journal', i, "transfer") /\ journal'[i].body.name \in {a, b}
<1> DEFINE key(x) == reservationRev(journal, x).key
           now(x) == reservationRev(journal', x).key
<1>1. CASE HandedOver(l, a) \/ HandedOver(l, b)
  <2>1. /\ Len(journal) + 1 \in DOMAIN journal' /\ journal'[Len(journal) + 1] = l
    BY LoggedLine
  <2>2. l.body.kind = "transfer" /\ l.body.status = "accepted" /\ l.body.name \in {a, b}
    BY <1>1 DEF HandedOver
  <2> QED
    BY <2>1, <2>2 DEF Accepted
<1>2. CASE reservationRev(journal', a) = reservationRev(journal, a)
           /\ reservationRev(journal', b) = reservationRev(journal, b)
  <2>1. a \in reservations(journal) /\ b \in reservations(journal)
    BY <1>2 DEF reservations
  <2>2. PICK i \in DOMAIN journal :
            Accepted(journal, i, "transfer") /\ journal[i].body.name \in {a, b}
    BY <1>2, <2>1 DEF JournalInv, FirstComeWithinLimit
  <2>3. i \in DOMAIN journal' /\ journal'[i] = journal[i]
    BY LoggedLine
  <2> QED
    BY <2>2, <2>3 DEF Accepted
<1>3. ASSUME NEW x \in reservations(journal'), NEW y \in reservations(journal'),
             Claimed(l, x), now(x) = l.body.env.by, now(x) # now(y)
      PROVE  ~namespaceOverlaps(y, x)
  <2>1. y # x /\ y # l.body.name
    BY <1>3 DEF Claimed
  <2>2. reservationRev(journal', y) = reservationRev(journal, y)
    BY <2>1, OthersStay
  <2>3. y \in reservations(journal) \ {x} /\ key(y) # l.body.env.by
    BY <1>3, <2>1, <2>2 DEF reservations
  <2> QED
    BY <1>3, <2>3 DEF Claimed, MayReserve
<1>4. CASE Claimed(l, a) /\ now(a) = l.body.env.by
  BY <1>3, <1>4 DEF namespaceOverlaps
<1>5. CASE Claimed(l, b) /\ now(b) = l.body.env.by
  BY <1>3, <1>5 DEF namespaceOverlaps
<1> QED
  BY <1>1, <1>2, <1>4, <1>5, NamedCases

LEMMA OneMore ==
    ASSUME NEW S, IsFiniteSet(S), NEW x
    PROVE  /\ IsFiniteSet(S \cup {x}) /\ Cardinality(S \cup {x}) \in Nat
           /\ Cardinality(S \cup {x}) <= Cardinality(S) + 1
<1>1. IsFiniteSet(S \cup {x})
  BY FS_AddElement
<1>2. Cardinality(S) \in Nat /\ Cardinality(S \cup {x}) \in Nat
  BY <1>1, FS_CardinalityType
<1>3. Cardinality(S \cup {x}) = IF x \in S THEN Cardinality(S) ELSE Cardinality(S) + 1
  BY FS_AddElement
<1> QED
  BY <1>1, <1>2, <1>3

LEMMA HoldingsKept ==
    ASSUME TypeInv, RequestInv, JournalInv, NEW p \in Handler, NEW l, Logs(p, l)
    PROVE  IsFiniteSet(reservations(journal')) /\ FirstComeWithinLimit'
<1> DEFINE ns == l.body.name
           key(x) == reservationRev(journal, x).key
           now(x) == reservationRev(journal', x).key
<1>1. \A x : x # ns => now(x) = key(x)
  BY OthersStay
<1>2. IsFiniteSet(reservations(journal'))
  <2>1. reservations(journal') \in SUBSET (reservations(journal) \cup {ns})
    BY <1>1 DEF reservations
  <2>2. IsFiniteSet(reservations(journal) \cup {ns})
    BY FS_AddElement DEF JournalInv
  <2> QED
    BY <2>1, <2>2, FS_Subset
<1>3. ASSUME NEW k \in Key PROVE Cardinality(HeldBy(journal', k)) <= MaxHeld
  <2> DEFINE H == HeldBy(journal, k)
             N == HeldBy(journal', k)
  <2>1. IsFiniteSet(H) /\ Cardinality(H) \in Nat /\ Cardinality(H) <= MaxHeld /\ MaxHeld \in Nat
    <3>1. H \in SUBSET reservations(journal)
      BY DEF HeldBy
    <3>2. IsFiniteSet(H)
      BY <3>1, FS_Subset DEF JournalInv
    <3> QED
      BY <3>2, FS_CardinalityType, AuthorityAssumption DEF JournalInv, FirstComeWithinLimit
  <2>2. IsFiniteSet(N) /\ Cardinality(N) \in Nat
    <3>1. N \in SUBSET reservations(journal')
      BY DEF HeldBy
    <3> QED
      BY <1>2, <3>1, FS_Subset, FS_CardinalityType
  <2>3. N \in SUBSET H \/ (N \in SUBSET (H \cup {ns}) /\ Cardinality(H) < MaxHeld)
    <3>1. \A x \in N : x # ns => x \in H
      BY <1>1 DEF HeldBy, reservations
    <3>2. CASE now(ns) # k
      BY <3>1, <3>2 DEF HeldBy
    <3>3. CASE now(ns) = k /\ key(ns) = k
      <4>1. ns \in N => ns \in H
        BY <3>3, AuthorityAssumption DEF HeldBy, reservations
      <4> QED
        BY <3>1, <4>1
    <3>4. CASE now(ns) = k /\ key(ns) # k
      <4>1. \/ Claimed(l, ns) /\ l.body.env.by = k
            \/ HandedOver(l, ns) /\ l.body.env.to = k
        BY <3>4, NamedCases
      <4>2. Cardinality(H) < MaxHeld
        BY <3>4, <4>1 DEF Claimed, HandedOver, MayReserve, MayTransfer
      <4> QED
        BY <3>1, <4>2
    <3> QED
      BY <3>2, <3>3, <3>4
  <2> HIDE DEF H, N
  <2>4. CASE N \in SUBSET H
    <3>1. Cardinality(N) <= Cardinality(H)
      BY <2>1, <2>4, FS_Subset
    <3> QED
      BY <2>1, <2>2, <3>1 DEF N
  <2>5. CASE N \in SUBSET (H \cup {ns}) /\ Cardinality(H) < MaxHeld
    <3>1. IsFiniteSet(H \cup {ns}) /\ Cardinality(H \cup {ns}) \in Nat
            /\ Cardinality(H \cup {ns}) <= Cardinality(H) + 1
      BY <2>1, OneMore
    <3>2. Cardinality(N) <= Cardinality(H \cup {ns})
      BY <2>5, <3>1, FS_Subset
    <3> QED
      BY <2>1, <2>2, <2>5, <3>1, <3>2 DEF N
  <2> QED
    BY <2>3, <2>4, <2>5
<1> HIDE DEF ns, key, now
<1>4. \A a, b \in reservations(journal') :
          \/ ~namespaceOverlaps(a, b)
          \/ reservationRev(journal', a).key = reservationRev(journal', b).key
          \/ \E i \in DOMAIN journal' :
                Accepted(journal', i, "transfer") /\ journal'[i].body.name \in {a, b}
  BY FirstComeKept
<1> QED
  BY <1>2, <1>3, <1>4 DEF FirstComeWithinLimit

\* Nobody reserves what is held, unless it is its holder that may.
LEMMA OnceKept ==
    ASSUME TypeInv, RequestInv, ReservedOnce, ~Reclaim, NEW p \in Handler, NEW l, Logs(p, l)
    PROVE  ReservedOnce'
<1> SUFFICES ASSUME NEW j \in 1 .. Len(journal'), Accepted(journal', j, "reserve")
             PROVE  /\ reservationRev(journal', journal'[j].body.name).key # None
                    /\ reservationRev(journal', journal'[j].body.name).seq = j
  BY DEF ReservedOnce
<1> DEFINE ns == journal'[j].body.name
<1>1. CASE j = Len(journal) + 1
  <2>1. journal'[j] = l /\ l.body.kind = "reserve" /\ l.body \in Body
    BY <1>1, LoggedLine DEF Accepted
  <2>2. MayReserve(l.body.env) /\ l.body.env.ns = ns
    BY <2>1 DEF Logs, Decided
  <2>3. l.body.status = "accepted" /\ l.body.env.by \in Key
    BY <2>1, BodyFacts
  <2>4. l.body.env.rev = reservationRev(journal, ns).rev
    BY <2>2 DEF MayReserve
  <2>5. reservationRev(journal', ns) = [key |-> l.body.env.by,
            rev |-> reservationRev(journal, ns).rev + 1, seq |-> Len(journal) + 1]
    BY <2>1, <2>4, HolderAfter DEF Logs
  <2> QED
    BY <1>1, <2>3, <2>5, AuthorityAssumption
<1>2. CASE j \in 1 .. Len(journal)
  <2>1. journal'[j] = journal[j]
    BY <1>2, LoggedLine
  <2>2. reservationRev(journal, ns).key # None /\ reservationRev(journal, ns).seq = j
    BY <1>2, <2>1 DEF ReservedOnce, Accepted
  <2>3. ~Claimed(l, ns)
    <3> SUFFICES ASSUME Claimed(l, ns) PROVE FALSE
      OBVIOUS
    <3>1. l.body.kind = "reserve" /\ l.body \in Body /\ MayReserve(l.body.env) /\ l.body.env.ns = ns
      BY LoggedLine DEF Claimed
    <3>2. l.body.env \in statements /\ l.body.env.op = "reserve"
      BY <3>1, BodyFacts DEF Logs, Decided
    <3>3. l.body.env.authority = None
      BY <3>2 DEF RequestInv, Signed
    <3> QED
      BY <2>2, <3>1, <3>3 DEF MayReserve
  <2> QED
    BY <2>2, <2>3, HeldStays, NamedCases
<1> QED
  BY <1>1, <1>2, LoggedLine

LEMMA FirstBoundType ==
    ASSUME NEW lines \in Seq(Line), NEW n
    PROVE  nameFirstBoundSeq(lines, n) \in Nat
<1> DEFINE A == AppliedTo(lines, n)
<1>1. A \in SUBSET Nat /\ Len(lines) + 1 \in Nat
  BY DEF AppliedTo
<1>2. CASE A = {}
  BY <1>1, <1>2 DEF nameFirstBoundSeq
<1>3. CASE A # {}
  <2> DEFINE first == CHOOSE i \in A : \A j \in A : i <= j
  <2>1. nameFirstBoundSeq(lines, n) = first
    BY <1>3 DEF nameFirstBoundSeq
  <2> HIDE DEF A
  <2>2. \E i \in A : \A j \in A : i <= j
    BY <1>1, <1>3, LeastNumber
  <2>3. first \in A
    BY <2>2
  <2> QED
    BY <1>1, <2>1, <2>3
<1> QED
  BY <1>2, <1>3

\* What was read of a prefix of the journal is read of it after the append.
LEMMA PrefixKept ==
    ASSUME TypeInv, NEW p \in Handler, NEW l, Logs(p, l), NEW m \in 0 .. Len(journal)
    PROVE  Upto(m)' = Upto(m)
<1>1. l \in Line /\ journal \in Seq(Line) /\ journal' = Append(journal, l)
  BY LoggedLine DEF Logs
<1>2. SubSeq(Append(journal, l), 1, m) = SubSeq(journal, 1, m)
  BY <1>1, PrefixStays
<1> QED
  BY <1>1, <1>2 DEF Upto

\* The decision allowed the binding: not by retention, for the reservation is older than the name.
LEMMA RecoversKept ==
    ASSUME TypeInv, RequestInv, ReservedOnce, RevocationRecovers,
           NEW p \in Handler, NEW l, Logs(p, l), pc[p] = "append"
    PROVE  RevocationRecovers'
<1> SUFFICES ASSUME NEW i \in DOMAIN journal', UnderReservation(i)'
             PROVE  \E m \in journal'[i].since .. i - 1 :
                       LET ns == governingReservation(Upto(m)', journal'[i].body.name)
                       IN  \/ ns = None
                           \/ mayBindUnder(Upto(m)', ns, journal'[i].body.author, journal'[i].body.name)
  BY DEF RevocationRecovers
<1> DEFINE n == journal'[i].body.name
           before == Upto(i - 1)
           gov == governingReservation(before, n)
<1>1. i - 1 \in 0 .. Len(journal) /\ Len(journal) \in Nat /\ i \in Nat
  BY LoggedLine
<1>2. Upto(i - 1)' = before /\ before \in Seq(Line)
  BY <1>1, PrefixKept, LoggedLine, SubSeqFacts DEF Upto
<1>3. nameFirstBoundSeq(before, n) \in Nat
  BY <1>2, FirstBoundType
<1>4. /\ journal'[i].body.kind = "put" /\ journal'[i].body.status = "accepted" /\ gov # None
      /\ \E j \in 1 .. nameFirstBoundSeq(before, n) - 1 :
            j < i /\ Accepted(journal', j, "reserve") /\ journal'[j].body.name = gov
  BY <1>2 DEF UnderReservation
<1>5. PICK j \in 1 .. nameFirstBoundSeq(before, n) - 1 :
          j < i /\ Accepted(journal', j, "reserve") /\ journal'[j].body.name = gov
  BY <1>4
<1>6. j \in 1 .. Len(journal) /\ journal'[j] = journal[j]
  BY <1>1, <1>3, <1>5, LoggedLine
<1>7. Accepted(journal, j, "reserve") /\ journal[j].body.name = gov
  BY <1>5, <1>6 DEF Accepted
<1>8. CASE i \in 1 .. Len(journal)
  <2>1. journal'[i] = journal[i] /\ i \in DOMAIN journal
    BY <1>8, LoggedLine
  <2>2. UnderReservation(i)
    BY <1>4, <1>5, <1>7, <2>1 DEF UnderReservation
  <2>3. PICK m \in journal[i].since .. i - 1 :
            LET ns == governingReservation(Upto(m), n)
            IN  ns = None \/ mayBindUnder(Upto(m), ns, journal[i].body.author, n)
    BY <2>1, <2>2 DEF RevocationRecovers
  <2>4. journal[i].since \in Nat
    <3>1. journal[i] \in Line
      BY <1>8, TypesHold
    <3> QED
      BY <3>1 DEF Line
  <2>5. Upto(m)' = Upto(m)
    BY <1>8, <2>3, <2>4, LoggedLine, PrefixKept
  <2> QED
    BY <2>1, <2>3, <2>5
<1>9. CASE i = Len(journal) + 1
  <2>1. journal'[i] = l /\ l.since = Len(journal) /\ l.body = job[p] /\ i - 1 = Len(journal)
    BY <1>1, <1>9, LoggedLine DEF Logs
  <2>2. before = journal
    BY <2>1, WholePrefix, LoggedLine DEF Upto
  <2>3. NamespaceAllows(journal, n, l.body.author)
    BY <1>4, <2>1 DEF Logs, Decided
  <2>4. reservationRev(journal, gov).seq = j
    BY <1>6, <1>7 DEF ReservedOnce
  <2>5. ~(nameFirstBoundSeq(journal, n) < reservationRev(journal, gov).seq)
    BY <1>3, <1>5, <2>2, <2>4
  <2>6. mayBindUnder(journal, gov, l.body.author, n)
    BY <1>4, <2>2, <2>3, <2>5 DEF NamespaceAllows
  <2>7. i - 1 \in journal'[i].since .. i - 1
    BY <1>1, <2>1
  <2> QED
    BY <1>2, <2>1, <2>2, <2>6, <2>7
<1> QED
  BY <1>8, <1>9, LoggedLine

LEMMA AppendKeeps ==
    ASSUME TypeInv, RequestInv, JournalInv, OneAtATime, NEW p \in Handler, AppendLog(p)
    PROVE  RequestInv' /\ JournalInv'
<1>1. PICK l \in Line :
          /\ journal' = Append(journal, l) /\ l.body = job[p] /\ l.since = Len(journal)
          /\ Decided(p) /\ pc[p] = "append" /\ pc' = [pc EXCEPT ![p] = "idle"]
          /\ UNCHANGED <<author, statements>>
  BY AppendFacts
<1>2. Logs(p, l)
  BY <1>1 DEF Logs
<1>3. RequestInv'
  <2>1. ASSUME NEW s \in statements PROVE Signed(s)'
    <3>1. s.at \in 0 .. Len(journal)
      BY TypesHold DEF TypeInv, TypeOK, Statement, ReserveStatement, GrantStatement, TransferStatement
    <3>2. Upto(s.at)' = Upto(s.at)
      BY <1>2, <3>1, PrefixKept
    <3> QED
      BY <3>2 DEF RequestInv, Signed
  <2>2. \A q \in Handler : pc'[q] = "idle"
    BY <1>1 DEF OneAtATime, TypeInv, TypeOK
  <2> QED
    BY <1>1, <2>1, <2>2 DEF RequestInv
<1>4. ~Reclaim => (ReservedOnce /\ RevocationRecovers)'
  BY <1>1, <1>2, OnceKept, RecoversKept DEF JournalInv
<1>5. GrantsFollow' /\ DelegationIsHistory' /\ IsFiniteSet(reservations(journal')) /\ FirstComeWithinLimit'
  BY <1>2, GrantsFollowKept, DelegatesKept, DurableKept, HoldingsKept DEF DelegationIsHistory
<1> QED
  BY <1>3, <1>4, <1>5 DEF JournalInv

-----------------------------------------------------------------------------
(* The theorems. *)

AuthorityInv == TypeInv /\ RequestInv /\ JournalInv

LEMMA InitAuthority == Init => AuthorityInv
<1> SUFFICES ASSUME Init PROVE AuthorityInv
  OBVIOUS
<1>1. journal = <<>> /\ <<>> \in Seq(Line) /\ Len(<<>>) = 0 /\ DOMAIN journal = {}
        /\ statements = {} /\ \A p \in Handler : pc[p] = "idle"
  BY DEF Init
<1>2. \A ns : reservationRev(journal, ns).key = None
  BY <1>1, NobodyHoldsAtFirst DEF Unclaimed
<1>3. reservations(journal) = {} /\ \A k : HeldBy(journal, k) = {}
  BY <1>2 DEF reservations, HeldBy
<1>4. GrantsFollow /\ ReservedOnce /\ RevocationRecovers /\ RevocationIsDurable
  BY <1>1 DEF GrantsFollow, NoGrant, ReservedOnce, RevocationRecovers, RevocationIsDurable
<1>5. DelegatesMatchHistory
  <2>1. Len(journal) = 0 /\ journal \in Seq(Line)
    BY <1>1
  <2>2. \A ns, holder : appointed(journal, ns, holder)[0] = Nobody
    BY <2>1, appointedSteps
  <2>3. \A ns : appointedAtTheTime(journal, ns)[0] = Nobody
    BY <2>1, atTheTimeSteps
  <2> QED
    BY <2>1, <2>2, <2>3 DEF DelegatesMatchHistory, delegates
<1>6. FirstComeWithinLimit /\ IsFiniteSet(reservations(journal))
  <2>1. IsFiniteSet({}) /\ Cardinality({}) = 0 /\ 0 <= MaxHeld
    BY FS_EmptySet, AuthorityAssumption
  <2> QED
    BY <1>3, <2>1 DEF FirstComeWithinLimit
<1> QED
  BY <1>1, <1>4, <1>5, <1>6, InitTyped DEF AuthorityInv, RequestInv, JournalInv, DelegationIsHistory

LEMMA NextAuthority ==
    AuthorityInv /\ OneAtATime /\ OneAtATime' /\ [Next]_vars => AuthorityInv'
<1> SUFFICES ASSUME AuthorityInv, OneAtATime, OneAtATime', [Next]_vars PROVE AuthorityInv'
  OBVIOUS
<1>1. TypeInv /\ RequestInv /\ JournalInv /\ TypeInv'
  BY NextTyped DEF AuthorityInv
<1>2. SUFFICES RequestInv' /\ JournalInv'
  BY <1>1 DEF AuthorityInv
<1>3. CASE UNCHANGED vars \/ EnforceOwnership
  <2>1. UNCHANGED <<journal, author, statements, pc, job, since>>
    BY <1>3 DEF vars, EnforceOwnership
  <2>2. \A s \in statements' : Signed(s)'
    BY <1>1, <2>1, SignedKept DEF RequestInv
  <2>3. \A p \in Handler : pc'[p] # "idle" => Decided(p)'
    BY <1>1, <2>1, DecidedKept DEF RequestInv
  <2> QED
    BY <1>1, <2>1, <2>2, <2>3, JournalKept DEF RequestInv
<1>4. ASSUME NEW k \in Key, NEW ns \in Namespace,
             \/ cmdReserve(k, ns)
             \/ \E q \in Key, sc \in Scope : cmdDelegate(k, "delegate", ns, q, sc)
             \/ \E q \in Key : cmdDelegate(k, "revoke", ns, q, None)
             \/ \E q \in Key : cmdTransfer(k, ns, q)
      PROVE  RequestInv' /\ JournalInv'
  BY <1>1, <1>4, ClientKeeps, JournalKept
<1>5. ASSUME NEW p \in Handler, NEW s \in statements,
             apiReserve(p, s) \/ apiDelegate(p, s) \/ apiTransfer(p, s)
      PROVE  RequestInv' /\ JournalInv'
  BY <1>1, <1>5, ApiKeeps, JournalKept
<1>6. ASSUME NEW p \in Handler, NEW k \in Key, NEW n \in Name, NEW h \in Hash, StoreObject(p, k, n, h)
      PROVE  RequestInv' /\ JournalInv'
  BY <1>1, <1>6, StoreObjectKeeps, JournalKept
<1>7. ASSUME NEW p \in Handler, Decide(p) \/ Repoint(p) PROVE RequestInv' /\ JournalInv'
  BY <1>1, <1>7, DecideKeeps, RepointKeeps, JournalKept
<1>8. ASSUME NEW p \in Handler, AppendLog(p) PROVE RequestInv' /\ JournalInv'
  BY <1>1, <1>8, AppendKeeps
<1> QED
  BY <1>3, <1>4, <1>5, <1>6, <1>7, <1>8 DEF Next

LEMMA AuthorityHolds == Spec /\ []OneAtATime => []AuthorityInv
BY InitAuthority, NextAuthority, PTL DEF Spec

(***************************************************************************)
(* Who is a delegate is what the signed history says, and a revocation is   *)
(* final (delegates, apiDelegate): comparing every grantor with the holder  *)
(* at the END of the journal gives the delegates that the holders at the    *)
(* time appointed, because a grant needs the state its signer saw.  For     *)
(* every number of keys, namespaces and statements, in a registry that      *)
(* serves one request at a time.                                            *)
(***************************************************************************)
THEOREM DelegationFollowsHistory == Spec /\ []OneAtATime => []DelegationIsHistory
<1>1. AuthorityInv => DelegationIsHistory
  BY DEF AuthorityInv, JournalInv
<1> QED
  BY <1>1, AuthorityHolds, PTL

(***************************************************************************)
(* RES-FIRST-COME and the limit (apiReserve, apiTransfer): overlapping      *)
(* prefixes have one holder unless one was handed over, and nobody holds    *)
(* more than MaxHeld, when requests are served one at a time.               *)
(***************************************************************************)
THEOREM FirstComeHolds == Spec /\ []OneAtATime => []FirstComeWithinLimit
<1>1. AuthorityInv => FirstComeWithinLimit
  BY DEF AuthorityInv, JournalInv
<1> QED
  BY <1>1, AuthorityHolds, PTL

(***************************************************************************)
(* DEL-REVOCATION-RECOVERS (evalPolicy): a name published under a           *)
(* reservation stays under it, when requests are served one at a time and   *)
(* holders do not reserve again what they hold.                             *)
(***************************************************************************)
THEOREM RevocationsRecover ==
    ASSUME ~Reclaim
    PROVE  Spec /\ []OneAtATime => []RevocationRecovers
<1>1. AuthorityInv => RevocationRecovers
  BY DEF AuthorityInv, JournalInv
<1> QED
  BY <1>1, AuthorityHolds, PTL
=============================================================================
