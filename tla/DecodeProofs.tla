---------------------------- MODULE DecodeProofs ----------------------------
(***************************************************************************)
(* The node budget of Decode is exact, for every input and every budget.    *)
(* A node is charged once because no slot is filled twice: every task owns  *)
(* a part of the object under construction, and no two own the same part.   *)
(***************************************************************************)
EXTENDS Decode, FiniteSetTheorems, TLAPS

Path == Seq(Int)

\* q lies in the subtree at p; strictly below it.
Below(p, q) == Len(p) <= Len(q) /\ \A i \in 1 .. Len(p) : q[i] = p[i]
Deeper(p, q) == Below(p, q) /\ Len(p) < Len(q)

\* Tasks that fill the slot they are at; the others belong to a node that is there.
Fills == {"def", "ty", "term", "tyname", "name", "ctor", "prop"}
Returns == {"args", "field", "props"}

Work ==
    {t \in [kind : Fills \cup Returns, at : Path, prepaid : BOOLEAN, n : Int] :
        /\ t.kind \in {"ty", "term"} \/ (t.prepaid <=> t.kind \in {"tyname", "name"})
        /\ t.kind \in {"def", "props"} => t.at = Root
        /\ t.kind \in {"ty", "term", "tyname", "name"} => t.at # Root}

\* The slots a task and the tasks it leaves will fill.
Owns(t, q) ==
    \/ t.kind \in Fills /\ Below(t.at, q)
    \/ t.kind = "args" /\ Deeper(t.at, q) /\ q[Len(t.at) + 1] >= t.n
    \/ t.kind = "props" /\ Deeper(t.at, q) /\ q[Len(t.at) + 1] >= 3

Apart(s) == \A i, j \in DOMAIN s : i # j => \A q \in Path : ~(Owns(s[i], q) /\ Owns(s[j], q))

TypeInv ==
    /\ b \in Seq(Nat) /\ pos \in Nat
    /\ stack \in Seq(Work)
    /\ DOMAIN out \in SUBSET Path /\ IsFiniteSet(DOMAIN out)
    /\ \A p \in DOMAIN out : "k" \in DOMAIN out[p]

SlotInv ==
    /\ \A i \in DOMAIN stack : stack[i].kind \in Returns => stack[i].at \in DOMAIN out
    /\ \A i \in DOMAIN stack : \A q \in DOMAIN out : ~Owns(stack[i], q)
    /\ Apart(stack)

DecodeInv == TypeInv /\ SlotInv /\ PaidBeforeMade

-----------------------------------------------------------------------------
(* Paths. *)

\* The subtree of a child is told by the child's index.
LEMMA ChildSubtree ==
    ASSUME NEW p \in Path, NEW c \in Int, NEW q \in Path
    PROVE  Below(Append(p, c), q) <=> Deeper(p, q) /\ q[Len(p) + 1] = c
<1>1. /\ Len(p) \in Nat /\ Len(q) \in Nat /\ Len(Append(p, c)) = Len(p) + 1
      /\ \A i \in 1 .. Len(p) : Append(p, c)[i] = p[i]
      /\ Append(p, c)[Len(p) + 1] = c
  BY DEF Path
<1>2. ASSUME Below(Append(p, c), q) PROVE Deeper(p, q) /\ q[Len(p) + 1] = c
  BY <1>1, <1>2 DEF Below, Deeper
<1>3. ASSUME Deeper(p, q), q[Len(p) + 1] = c PROVE Below(Append(p, c), q)
  BY <1>1, <1>3 DEF Below, Deeper
<1> QED
  BY <1>2, <1>3

LEMMA ChildIsPath ==
    ASSUME NEW p \in Path, NEW c \in Int
    PROVE  Append(p, c) \in Path /\ Append(p, c) # Root
<1>1. Append(p, c) \in Seq(Int) /\ Len(Append(p, c)) = Len(p) + 1 /\ Len(p) \in Nat
  BY DEF Path
<1>2. Len(Root) = 0
  BY DEF Root
<1> QED
  BY <1>1, <1>2 DEF Path

LEMMA OwnSlot ==
    ASSUME NEW p \in Path
    PROVE  Below(p, p) /\ ~Deeper(p, p)
BY DEF Path, Below, Deeper

-----------------------------------------------------------------------------
(* What a task leaves. *)

\* The tasks a task leaves: each within its part and below the slot it fills, no two overlapping.
Splits(task, left) ==
    /\ left \in Seq(Work)
    /\ \A i \in DOMAIN left : left[i].kind \in Returns => left[i].at = task.at
    /\ \A i \in DOMAIN left : \A q \in Path : Owns(left[i], q) => Owns(task, q) /\ q # task.at
    /\ Apart(left)

\* Either every slot was made and paid for here, or the tasks pay for theirs.
PaidFor(left, made) ==
    \/ made = 0 /\ \A i \in DOMAIN left : ~left[i].prepaid
    \/ made = Len(left) /\ \A i \in DOMAIN left : left[i].prepaid

NodeOf(task, node) ==
    /\ "k" \in DOMAIN node
    /\ task.kind \in {"ty", "term"} => node.k # "tys"
    /\ task.kind \in {"ctor", "prop"} => node.k = "tys"
    /\ task.kind \in Returns => node.k = out[task.at].k

Reads(task, r) ==
    r.node.k # "bad" =>
        /\ r.n \in Nat /\ r.made \in Nat
        /\ Splits(task, r.tasks) /\ PaidFor(r.tasks, r.made)
        /\ NodeOf(task, r.node)

\* Where each task of a list belongs to children of one node, with labels for which.
Labelled(left, p, label) ==
    \A i \in DOMAIN left : \A q \in Path :
        Owns(left[i], q) => Deeper(p, q) /\ q[Len(p) + 1] \in label[i]

\* How far the part of a task reaches.
Reaches(task, c) == task.kind \in Fills \/ (task.kind = "args" /\ c >= task.n) \/ (task.kind = "props" /\ c >= 3)

LEMMA LabelsSplit ==
    ASSUME NEW task \in Work, NEW left \in Seq(Work), NEW label,
           \A i \in DOMAIN left : \A c \in label[i] : Reaches(task, c),
           Labelled(left, task.at, label),
           \A i, j \in DOMAIN left : i # j => label[i] \cap label[j] = {},
           \A i \in DOMAIN left : left[i].kind \in Returns => left[i].at = task.at
    PROVE  Splits(task, left)
<1>1. task.at \in Path
  BY DEF Work
<1>2. ASSUME NEW i \in DOMAIN left, NEW q \in Path, Owns(left[i], q)
      PROVE  Owns(task, q) /\ q # task.at
  <2>1. Deeper(task.at, q) /\ q[Len(task.at) + 1] \in label[i]
    BY <1>2 DEF Labelled
  <2>2. q # task.at
    BY <1>1, <2>1, OwnSlot
  <2>3. Owns(task, q)
    BY <2>1 DEF Owns, Deeper, Reaches
  <2> QED
    BY <2>2, <2>3
<1>3. Apart(left)
  <2> SUFFICES ASSUME NEW i \in DOMAIN left, NEW j \in DOMAIN left, i # j, NEW q \in Path,
                      Owns(left[i], q), Owns(left[j], q)
               PROVE  FALSE
    BY DEF Apart
  <2> QED
    BY DEF Labelled
<1> QED
  BY <1>2, <1>3 DEF Splits

\* One child, filled by a task of its own.
Child(t, p, c) == t \in Work /\ t.kind \in Fills /\ t.at = Append(p, c)

LEMMA ChildOwns ==
    ASSUME NEW p \in Path, NEW c \in Int, NEW t, Child(t, p, c), NEW q \in Path, Owns(t, q)
    PROVE  Deeper(p, q) /\ q[Len(p) + 1] = c
<1>1. Below(Append(p, c), q)
  BY DEF Owns, Child, Fills
<1> QED
  BY <1>1, ChildSubtree

LEMMA OwingChild ==
    ASSUME NEW p \in Path, NEW c \in Int, NEW kind \in {"ty", "term", "ctor", "prop"}
    PROVE  Child(Owing(kind, Append(p, c)), p, c) /\ ~Owing(kind, Append(p, c)).prepaid
<1> DEFINE t == Owing(kind, Append(p, c))
<1>1. t = [kind |-> kind, at |-> Append(p, c), prepaid |-> FALSE, n |-> 0]
  BY DEF Owing, Task
<1>2. Append(p, c) \in Path /\ Append(p, c) # Root
  BY ChildIsPath
<1> HIDE DEF t
<1>3. t \in Work /\ t.kind \in Fills /\ t.at = Append(p, c) /\ ~t.prepaid
  BY <1>1, <1>2 DEF Work, Fills, Returns
<1> QED
  BY <1>3 DEF Child, t

LEMMA PaidChild ==
    ASSUME NEW p \in Path, NEW c \in Int, NEW kind \in {"ty", "term", "tyname", "name"}
    PROVE  Child(Task(kind, Append(p, c), TRUE, c), p, c) /\ Task(kind, Append(p, c), TRUE, c).prepaid
BY ChildIsPath DEF Child, Task, Work, Fills, Returns

\* Tasks for different children of the node at hand split it.
LEMMA ChildrenApart ==
    ASSUME NEW task \in Work, NEW left \in Seq(Work), NEW child,
           \A i \in DOMAIN left : child[i] \in Int /\ Child(left[i], task.at, child[i]) /\ Reaches(task, child[i]),
           \A i, j \in DOMAIN left : i # j => child[i] # child[j]
    PROVE  Splits(task, left)
<1> DEFINE label == [i \in DOMAIN left |-> {child[i]}]
<1>1. task.at \in Path
  BY DEF Work
<1>2. Labelled(left, task.at, label)
  BY <1>1, ChildOwns DEF Labelled
<1>3. \A i \in DOMAIN left : left[i].kind \notin Returns
  BY DEF Child, Fills, Returns
<1>4. \A i, j \in DOMAIN left : i # j => label[i] \cap label[j] = {}
  OBVIOUS
<1>5. \A i \in DOMAIN left : \A c \in label[i] : Reaches(task, c)
  OBVIOUS
<1> HIDE DEF label
<1> QED
  BY <1>2, <1>3, <1>4, <1>5, LabelsSplit

\* As above, with a task that comes back to the node for the children after those.
LEMMA ReturnsApart ==
    ASSUME NEW task \in Work, NEW left \in Seq(Work), NEW child, task.kind \in Fills,
           1 \in DOMAIN left, left[1].kind \in Returns, left[1].at = task.at,
           \A i \in DOMAIN left \ {1} :
                /\ child[i] \in Int /\ Child(left[i], task.at, child[i])
                /\ left[1].kind = "args" => child[i] < left[1].n
                /\ left[1].kind = "props" => child[i] < 3,
           \A i, j \in DOMAIN left \ {1} : i # j => child[i] # child[j]
    PROVE  Splits(task, left)
<1> DEFINE after == {c \in Int : Reaches(left[1], c)}
           label == [i \in DOMAIN left |-> IF i = 1 THEN after ELSE {child[i]}]
<1>1. task.at \in Path /\ left[1] \in Work
  BY DEF Work
<1>2. Labelled(left, task.at, label)
  <2> SUFFICES ASSUME NEW i \in DOMAIN left, NEW q \in Path, Owns(left[i], q)
               PROVE  Deeper(task.at, q) /\ q[Len(task.at) + 1] \in label[i]
    BY DEF Labelled
  <2>1. CASE i # 1
    <3>1. Deeper(task.at, q) /\ q[Len(task.at) + 1] = child[i]
      BY <1>1, <2>1, ChildOwns
    <3> QED
      BY <2>1, <3>1
  <2>2. CASE i = 1
    <3>1. /\ Deeper(task.at, q)
          /\ \/ left[1].kind = "args" /\ q[Len(task.at) + 1] >= left[1].n
             \/ left[1].kind = "props" /\ q[Len(task.at) + 1] >= 3
      <4>1. left[1].kind \notin Fills
        BY DEF Returns, Fills
      <4> QED
        BY <2>2, <4>1 DEF Owns
    <3>2. q[Len(task.at) + 1] \in Int
      BY <1>1, <3>1 DEF Deeper, Path
    <3> QED
      BY <2>2, <3>1, <3>2 DEF Reaches
  <2> QED
    BY <2>1, <2>2
<1>3. \A i \in DOMAIN left : left[i].kind \in Returns => left[i].at = task.at
  BY DEF Child, Fills, Returns
<1>4. \A i, j \in DOMAIN left : i # j => label[i] \cap label[j] = {}
  <2>1. \A i \in DOMAIN left \ {1} : child[i] \notin after
    BY <1>1 DEF Reaches, Work, Returns, Fills
  <2> HIDE DEF after
  <2> QED
    BY <2>1
<1>5. \A i \in DOMAIN left : \A c \in label[i] : Reaches(task, c)
  BY DEF Reaches
<1> HIDE DEF label
<1> QED
  BY <1>2, <1>3, <1>4, <1>5, LabelsSplit

LEMMA NothingLeft == ASSUME NEW task PROVE Splits(task, <<>>) /\ PaidFor(<<>>, 0)
BY DEF Splits, Apart, PaidFor

\* The children of a declared collection.
LEMMA DeclaredChildren ==
    ASSUME NEW task \in Work, NEW kind \in {"ty", "term", "tyname", "name"}, NEW from \in Int, NEW n \in Nat,
           task.kind \in Fills \/ (task.kind = "args" /\ from >= task.n)
    PROVE  Splits(task, Children(kind, task.at, from, n)) /\ PaidFor(Children(kind, task.at, from, n), n)
<1> DEFINE left == Children(kind, task.at, from, n)
           child == [i \in 1 .. n |-> from + n - i]
<1>1. /\ left = [i \in 1 .. n |-> Task(kind, Append(task.at, from + n - i), TRUE, from + n - i)]
      /\ DOMAIN left = 1 .. n
  BY DEF Children
<1>2. ASSUME NEW i \in 1 .. n
      PROVE  child[i] \in Int /\ Child(left[i], task.at, child[i]) /\ left[i].prepaid /\ Reaches(task, child[i])
  <2>1. child[i] = from + n - i /\ child[i] \in Int /\ child[i] >= from /\ task.at \in Path
    BY DEF Work
  <2>2. left[i] = Task(kind, Append(task.at, child[i]), TRUE, child[i])
    BY <1>1, <2>1
  <2>3. Reaches(task, child[i])
    BY <2>1 DEF Reaches, Work
  <2> QED
    BY <2>1, <2>2, <2>3, PaidChild
<1>3. left \in Seq(Work) /\ Len(left) = n
  <2>1. \A i \in 1 .. n : left[i] \in Work
    BY <1>2 DEF Child
  <2> HIDE DEF child
  <2>2. left \in [1 .. n -> Work]
    <3> HIDE DEF left
    <3>1. left = [i \in 1 .. n |-> left[i]]
      BY <1>1
    <3> QED
      BY <2>1, <3>1
  <2> QED
    BY <2>2
<1>4. \A i, j \in 1 .. n : i # j => child[i] # child[j]
  OBVIOUS
<1> HIDE DEF left, child
<1>5. Splits(task, left)
  BY <1>1, <1>2, <1>3, <1>4, ChildrenApart
<1>6. PaidFor(left, n)
  BY <1>1, <1>2, <1>3 DEF PaidFor
<1> QED
  BY <1>5, <1>6 DEF left

\* Types that pay for themselves, after a task for the node or for its body.
LEMMA TyListIs ==
    ASSUME NEW p \in Path, NEW n \in Nat
    PROVE  /\ TyList(p, n) \in Seq(Work) /\ Len(TyList(p, n)) = n
           /\ \A i \in 1 .. n : /\ i - n - 1 \in Int /\ Child(TyList(p, n)[i], p, i - n - 1)
                                /\ ~TyList(p, n)[i].prepaid
<1> DEFINE left == TyList(p, n)
<1>1. left = [i \in 1 .. n |-> Owing("ty", Append(p, i - n - 1))]
  BY DEF TyList
<1>2. \A i \in 1 .. n : i - n - 1 \in Int /\ Child(left[i], p, i - n - 1) /\ ~left[i].prepaid
  BY <1>1, OwingChild
<1>3. left \in [1 .. n -> Work]
  <2>1. \A i \in 1 .. n : left[i] \in Work
    BY <1>2 DEF Child
  <2> HIDE DEF left
  <2> QED
    BY <1>1, <2>1
<1>4. left \in Seq(Work) /\ Len(left) = n
  BY <1>3
<1> QED
  BY <1>2, <1>4

LEMMA TysLeft ==
    ASSUME NEW task \in Work, task.kind \in Fills, NEW n \in Nat
    PROVE  Splits(task, TyList(task.at, n)) /\ PaidFor(TyList(task.at, n), 0)
<1> DEFINE left == TyList(task.at, n)
           child == [i \in 1 .. n |-> i - n - 1]
<1>1. task.at \in Path
  BY DEF Work
<1>2. /\ left \in Seq(Work) /\ DOMAIN left = 1 .. n
      /\ \A i \in 1 .. n : child[i] \in Int /\ Child(left[i], task.at, child[i]) /\ ~left[i].prepaid
  BY <1>1, TyListIs
<1>3. \A i, j \in 1 .. n : i # j => child[i] # child[j]
  OBVIOUS
<1>4. \A i \in 1 .. n : Reaches(task, child[i])
  BY DEF Reaches
<1> HIDE DEF left, child
<1> QED
  <2>1. \A i \in DOMAIN left :
            child[i] \in Int /\ Child(left[i], task.at, child[i]) /\ Reaches(task, child[i])
    BY <1>2, <1>4
  <2>2. \A i, j \in DOMAIN left : i # j => child[i] # child[j]
    BY <1>2, <1>3
  <2>3. Splits(task, left)
    BY <1>2, <2>1, <2>2, ChildrenApart
  <2>4. PaidFor(left, 0)
    BY <1>2 DEF PaidFor
  <2> QED
    BY <2>3, <2>4 DEF left

\* A task before the types: the body of a property, or the rest of a constructor's node.
LEMMA OneAndTysLeft ==
    ASSUME NEW task \in Work, task.kind \in Fills, NEW n \in Nat, NEW t \in Work, ~t.prepaid,
           \/ Child(t, task.at, 0)
           \/ t.kind = "args" /\ t.at = task.at /\ t.n = 1
    PROVE  Splits(task, <<t>> \o TyList(task.at, n)) /\ PaidFor(<<t>> \o TyList(task.at, n), 0)
<1> DEFINE list == TyList(task.at, n)
           left == <<t>> \o list
           child == [i \in 1 .. n + 1 |-> IF i = 1 THEN 0 ELSE i - n - 2]
<1>1. task.at \in Path
  BY DEF Work
<1>2. /\ list \in Seq(Work) /\ Len(list) = n
      /\ \A i \in 1 .. n : Child(list[i], task.at, i - n - 1) /\ ~list[i].prepaid
  BY <1>1, TyListIs
<1>3. /\ left \in Seq(Work) /\ DOMAIN left = 1 .. n + 1 /\ left[1] = t
      /\ \A i \in (1 .. n + 1) \ {1} : i - 1 \in 1 .. n /\ left[i] = list[i - 1]
  <2> HIDE DEF list
  <2> QED
    BY <1>2
<1>4. \A i \in (1 .. n + 1) \ {1} : /\ child[i] \in Int /\ child[i] < 0 /\ child[i] = (i - 1) - n - 1
                                    /\ Child(left[i], task.at, child[i]) /\ ~left[i].prepaid
  BY <1>2, <1>3
<1>5. \A i, j \in 1 .. n + 1 : i # j => child[i] # child[j]
  OBVIOUS
<1>6. child[1] = 0 /\ 1 \in 1 .. n + 1
  OBVIOUS
<1> HIDE DEF left, child
<1>7. Splits(task, left)
  <2>1. CASE Child(t, task.at, 0)
    <3>1. \A i \in DOMAIN left : child[i] \in Int /\ Child(left[i], task.at, child[i]) /\ Reaches(task, child[i])
      BY <1>3, <1>4, <1>6, <2>1 DEF Reaches
    <3>2. \A i, j \in DOMAIN left : i # j => child[i] # child[j]
      BY <1>3, <1>5
    <3>3. left \in Seq(Work)
      BY <1>3
    <3> QED
      BY <3>1, <3>2, <3>3, ChildrenApart
  <2>2. CASE t.kind = "args" /\ t.at = task.at /\ t.n = 1
    <3>1. \A i \in DOMAIN left \ {1} :
            /\ child[i] \in Int /\ Child(left[i], task.at, child[i])
            /\ left[1].kind = "args" => child[i] < left[1].n
            /\ left[1].kind = "props" => child[i] < 3
      BY <1>3, <1>4, <2>2
    <3>2. \A i, j \in DOMAIN left \ {1} : i # j => child[i] # child[j]
      BY <1>3, <1>5
    <3>3. 1 \in DOMAIN left /\ left[1].kind \in Returns /\ left[1].at = task.at
      BY <1>3, <1>6, <2>2 DEF Returns
    <3> QED
      BY <1>3, <3>1, <3>2, <3>3, ReturnsApart
  <2> QED
    BY <2>1, <2>2
<1>8. PaidFor(left, 0)
  BY <1>3, <1>4 DEF PaidFor
<1> QED
  BY <1>7, <1>8 DEF left

\* Two or three children that pay for themselves.
LEMMA TwoLeft ==
    ASSUME NEW task \in Work, task.kind \in Fills, NEW c \in Int, NEW d \in Int, c # d,
           NEW t, Child(t, task.at, c), ~t.prepaid, NEW u, Child(u, task.at, d), ~u.prepaid
    PROVE  Splits(task, <<t, u>>) /\ PaidFor(<<t, u>>, 0)
<1> DEFINE left == <<t, u>>
           child == <<c, d>>
<1>1. left \in Seq(Work) /\ DOMAIN left = {1, 2} /\ left[1] = t /\ left[2] = u /\ child[1] = c /\ child[2] = d
  BY DEF Child
<1> HIDE DEF left, child
<1>2. \A i \in DOMAIN left : child[i] \in Int /\ Child(left[i], task.at, child[i]) /\ Reaches(task, child[i])
  BY <1>1 DEF Reaches
<1>3. \A i, j \in DOMAIN left : i # j => child[i] # child[j]
  BY <1>1
<1>4. left \in Seq(Work)
  BY <1>1
<1>5. Splits(task, left)
  BY <1>2, <1>3, <1>4, ChildrenApart
<1>6. PaidFor(left, 0)
  BY <1>1 DEF PaidFor
<1> QED
  BY <1>5, <1>6 DEF left

LEMMA ThreeLeft ==
    ASSUME NEW task \in Work, task.kind \in Fills, NEW c \in Int, NEW d \in Int, NEW e \in Int,
           c # d, d # e, c # e,
           NEW t, Child(t, task.at, c), ~t.prepaid, NEW u, Child(u, task.at, d), ~u.prepaid,
           NEW v, Child(v, task.at, e), ~v.prepaid
    PROVE  Splits(task, <<t, u, v>>) /\ PaidFor(<<t, u, v>>, 0)
<1> DEFINE left == <<t, u, v>>
           child == <<c, d, e>>
<1>1. /\ left \in Seq(Work) /\ DOMAIN left = {1, 2, 3} /\ left[1] = t /\ left[2] = u /\ left[3] = v
      /\ child[1] = c /\ child[2] = d /\ child[3] = e
  BY DEF Child
<1> HIDE DEF left, child
<1>2. \A i \in DOMAIN left : child[i] \in Int /\ Child(left[i], task.at, child[i]) /\ Reaches(task, child[i])
  BY <1>1 DEF Reaches
<1>3. \A i, j \in DOMAIN left : i # j => child[i] # child[j]
  BY <1>1
<1>4. left \in Seq(Work)
  BY <1>1
<1>5. Splits(task, left)
  BY <1>2, <1>3, <1>4, ChildrenApart
<1>6. PaidFor(left, 0)
  BY <1>1 DEF PaidFor
<1> QED
  BY <1>5, <1>6 DEF left

\* A task that comes back to the node after one or two of its children.
LEMMA ReturnLeft ==
    ASSUME NEW task \in Work, task.kind \in Fills, NEW t \in Work, ~t.prepaid, t.kind \in Returns, t.at = task.at,
           NEW c \in Int, t.kind = "args" => c < t.n, t.kind = "props" => c < 3,
           NEW u, Child(u, task.at, c), ~u.prepaid
    PROVE  Splits(task, <<t, u>>) /\ PaidFor(<<t, u>>, 0)
<1> DEFINE left == <<t, u>>
           child == <<0, c>>
<1>1. left \in Seq(Work) /\ DOMAIN left = {1, 2} /\ left[1] = t /\ left[2] = u /\ child[2] = c
  BY DEF Child
<1> HIDE DEF left, child
<1>2. \A i \in DOMAIN left \ {1} : /\ child[i] \in Int /\ Child(left[i], task.at, child[i])
                                   /\ left[1].kind = "args" => child[i] < left[1].n
                                   /\ left[1].kind = "props" => child[i] < 3
  BY <1>1
<1>3. \A i, j \in DOMAIN left \ {1} : i # j => child[i] # child[j]
  BY <1>1
<1>4. left \in Seq(Work) /\ 1 \in DOMAIN left /\ left[1].kind \in Returns /\ left[1].at = task.at
  BY <1>1
<1>5. Splits(task, left)
  BY <1>2, <1>3, <1>4, ReturnsApart
<1>6. PaidFor(left, 0)
  BY <1>1 DEF PaidFor
<1> QED
  BY <1>5, <1>6 DEF left

LEMMA ReturnAfterTwo ==
    ASSUME NEW task \in Work, task.kind \in Fills, NEW t \in Work, ~t.prepaid, t.kind = "props", t.at = task.at,
           NEW c \in Int, NEW d \in Int, c # d, c < 3, d < 3,
           NEW u, Child(u, task.at, c), ~u.prepaid, NEW v, Child(v, task.at, d), ~v.prepaid
    PROVE  Splits(task, <<t, u, v>>) /\ PaidFor(<<t, u, v>>, 0)
<1> DEFINE left == <<t, u, v>>
           child == <<0, c, d>>
<1>1. /\ left \in Seq(Work) /\ DOMAIN left = {1, 2, 3} /\ left[1] = t /\ left[2] = u /\ left[3] = v
      /\ child[2] = c /\ child[3] = d
  BY DEF Child
<1> HIDE DEF left, child
<1>2. \A i \in DOMAIN left \ {1} : /\ child[i] \in Int /\ Child(left[i], task.at, child[i])
                                   /\ left[1].kind = "args" => child[i] < left[1].n
                                   /\ left[1].kind = "props" => child[i] < 3
  BY <1>1
<1>3. \A i, j \in DOMAIN left \ {1} : i # j => child[i] # child[j]
  BY <1>1
<1>4. left \in Seq(Work) /\ 1 \in DOMAIN left /\ left[1].kind \in Returns /\ left[1].at = task.at
  BY <1>1 DEF Returns
<1>5. Splits(task, left)
  BY <1>2, <1>3, <1>4, ReturnsApart
<1>6. PaidFor(left, 0)
  BY <1>1 DEF PaidFor
<1> QED
  BY <1>5, <1>6 DEF left

\* Constructors or properties, one after the other.
LEMMA ListLeft ==
    ASSUME NEW task \in Work, task.kind = "def" \/ task.kind = "props",
           NEW kind \in {"ctor", "prop"}, NEW from \in Int, NEW n \in Nat, task.kind = "props" => from >= 3
    PROVE  LET left == [i \in 1 .. n |-> Owing(kind, Append(task.at, from + n - i))]
           IN  Splits(task, left) /\ PaidFor(left, 0)
<1> DEFINE left == [i \in 1 .. n |-> Owing(kind, Append(task.at, from + n - i))]
           child == [i \in 1 .. n |-> from + n - i]
<1>1. task.at \in Path /\ DOMAIN left = 1 .. n
  BY DEF Work
<1>2. \A i \in 1 .. n : /\ child[i] \in Int /\ child[i] >= from /\ Child(left[i], task.at, child[i])
                        /\ ~left[i].prepaid
  BY <1>1, OwingChild
<1>3. \A i, j \in 1 .. n : i # j => child[i] # child[j]
  OBVIOUS
<1>4. left \in [1 .. n -> Work]
  <2>1. \A i \in 1 .. n : left[i] \in Work
    BY <1>2 DEF Child
  <2>2. left = [i \in 1 .. n |-> left[i]]
    OBVIOUS
  <2> HIDE DEF left, child
  <2> QED
    BY <2>1, <2>2
<1>5. left \in Seq(Work) /\ Len(left) = n
  BY <1>4
<1> HIDE DEF left, child
<1>6. \A i \in DOMAIN left : child[i] \in Int /\ Child(left[i], task.at, child[i]) /\ Reaches(task, child[i])
  BY <1>1, <1>2 DEF Reaches, Fills
<1>7. \A i, j \in DOMAIN left : i # j => child[i] # child[j]
  BY <1>1, <1>3
<1>8. Splits(task, left)
  BY <1>5, <1>6, <1>7, ChildrenApart
<1>9. PaidFor(left, 0)
  BY <1>1, <1>2 DEF PaidFor
<1> QED
  BY <1>8, <1>9 DEF left

-----------------------------------------------------------------------------
(* What is read. *)

LEMMA CountIsNat ==
    ASSUME TypeInv, NEW i \in Nat \ {0}, U32(i) PROVE Tok(i) \in Nat
BY DEF TypeInv, U32, Have, Tok

LEMMA LeafReads ==
    ASSUME NEW task \in Work, NEW n \in Nat, NEW node, NodeOf(task, node)
    PROVE  Reads(task, Leaf(n, node))
BY NothingLeft DEF Reads, Leaf

LEMMA BranchReads ==
    ASSUME NEW task \in Work, NEW n \in Nat, NEW node, NodeOf(task, node),
           NEW left, Splits(task, left), PaidFor(left, 0)
    PROVE  Reads(task, Branch(n, node, left))
BY DEF Reads, Branch

LEMMA WideReads ==
    ASSUME NEW task \in Work, task.kind \in Fills, NEW n \in Nat, NEW node, NodeOf(task, node),
           NEW kind \in {"ty", "term", "tyname", "name"}, NEW count \in Nat
    PROVE  Reads(task, Wide(n, count, node, kind, task.at))
BY DeclaredChildren DEF Reads, Wide

LEMMA BadReads == ASSUME NEW task PROVE Reads(task, Bad)
BY DEF Reads, Bad

LEMMA TyReads ==
    ASSUME TypeInv, NEW task \in Work, task.kind = "ty"
    PROVE  Reads(task, readTy(task.at))
<1> DEFINE at == task.at
           r == readTy(at)
<1>1. at \in Path /\ task.kind \in Fills /\ task.kind \notin Returns
  BY DEF Work, Fills, Returns
<1> DEFINE tag(k) == Have(1) /\ Tok(1) = tagTy[k]
           atom == CHOOSE k \in DOMAIN tagAtom : tag(k)
<1>2. \/ (\E k \in DOMAIN tagAtom : tag(k)) /\ r = Leaf(1, [k |-> atom])
      \/ r = Leaf(2, [k |-> "var", var |-> Tok(2)])
      \/ r = Branch(1, [k |-> "fun"], <<Owing("ty", Append(at, 2)), Owing("ty", Append(at, 1))>>)
      \/ U32(3) /\ r = Wide(3, Tok(3), [k |-> "data", hash |-> Tok(2), n |-> Tok(3)], "ty", at)
      \/ U32(2) /\ r = Wide(2, Tok(2), [k |-> "rec", n |-> Tok(2)], "ty", at)
      \/ U32(2) /\ r = Wide(2, Tok(2), [k |-> "record", names |-> <<>>, n |-> Tok(2)], "tyname", at)
      \/ r = Bad
  BY SMT DEF readTy
<1>3. DOMAIN tagAtom = {"int", "bool", "rat"}
  BY DEF tagAtom
<1>4. (U32(3) => Tok(3) \in Nat) /\ (U32(2) => Tok(2) \in Nat)
  BY CountIsNat
<1> HIDE DEF r, at
<1>5. (\E k \in DOMAIN tagAtom : tag(k)) => NodeOf(task, [k |-> atom])
  <2>1. (\E k \in DOMAIN tagAtom : tag(k)) => atom \in DOMAIN tagAtom
    BY Zenon
  <2> HIDE DEF atom
  <2> QED
    BY <1>1, <1>3, <2>1 DEF NodeOf
<1> HIDE DEF atom, tag
<1>6. /\ NodeOf(task, [k |-> "var", var |-> Tok(2)])
      /\ NodeOf(task, [k |-> "fun"])
      /\ NodeOf(task, [k |-> "data", hash |-> Tok(2), n |-> Tok(3)])
      /\ NodeOf(task, [k |-> "rec", n |-> Tok(2)])
      /\ NodeOf(task, [k |-> "record", names |-> <<>>, n |-> Tok(2)])
  BY <1>1 DEF NodeOf
<1>7. /\ Splits(task, <<Owing("ty", Append(at, 2)), Owing("ty", Append(at, 1))>>)
      /\ PaidFor(<<Owing("ty", Append(at, 2)), Owing("ty", Append(at, 1))>>, 0)
  <2>1. /\ Child(Owing("ty", Append(at, 2)), at, 2) /\ ~Owing("ty", Append(at, 2)).prepaid
        /\ Child(Owing("ty", Append(at, 1)), at, 1) /\ ~Owing("ty", Append(at, 1)).prepaid
    BY <1>1, OwingChild
  <2> QED
    BY <1>1, <2>1, TwoLeft DEF at
<1> QED
  BY <1>1, <1>2, <1>3, <1>4, <1>5, <1>6, <1>7, LeafReads, BranchReads, WideReads, BadReads DEF at, r

LEMMA IntegerEnds ==
    ASSUME TypeInv, NEW i \in Nat \ {0}, BigintOk(i) PROVE After(i) \in Nat /\ After(i) >= i + 2
<1>1. Tok(i + 1) \in Nat
  BY CountIsNat DEF BigintOk
<1> QED
  BY <1>1 DEF After

LEMMA ListedReads ==
    ASSUME TypeInv, NEW task \in Work, task.kind = "term"
    PROVE  Reads(task, readListed(task.at))
<1> DEFINE at == task.at
           r == readListed(at)
           kid(i) == Owing("term", Append(at, i))
<1>1. at \in Path /\ task.kind \in Fills /\ task.kind \notin Returns
  BY DEF Work, Fills, Returns
<1>2. \/ r = Bad
      \/ U32(3) /\ r = Wide(3, Tok(3), [k |-> "prim", op |-> OpName(Tok(2)), n |-> Tok(3)], "term", at)
      \/ U32(3) /\ r = Branch(3, [k |-> "ref", hash |-> Tok(2), tys |-> Tok(3), n |-> 0], TyList(at, Tok(3)))
      \/ U32(2) /\ r = Branch(2, [k |-> "self", tys |-> Tok(2), n |-> 0], TyList(at, Tok(2)))
      \/ U32(4) /\ r = Branch(4, [k |-> "ctor", hash |-> Tok(2), idx |-> Tok(3), tys |-> Tok(4), n |-> 0],
                              <<Task("args", at, FALSE, 1)>> \o TyList(at, Tok(4)))
      \/ r = Branch(2, [k |-> "match", hash |-> Tok(2), n |-> 1], <<Task("args", at, FALSE, 2), kid(1)>>)
      \/ U32(2) /\ r = Wide(2, Tok(2), [k |-> "record", names |-> <<>>, n |-> Tok(2)], "name", at)
      \/ r = Branch(1, [k |-> "field", op |-> 0, n |-> 1], <<Owing("field", at), kid(1)>>)
  BY SMT DEF readListed
<1>3. (U32(2) => Tok(2) \in Nat) /\ (U32(3) => Tok(3) \in Nat) /\ (U32(4) => Tok(4) \in Nat)
  BY CountIsNat
<1>4. Child(kid(1), at, 1) /\ ~kid(1).prepaid
  BY <1>1, OwingChild
<1>6. ASSUME NEW node, "k" \in DOMAIN node, node.k # "tys" PROVE NodeOf(task, node)
  BY <1>1, <1>6 DEF NodeOf
<1>7. /\ Task("args", at, FALSE, 1) \in Work /\ ~Task("args", at, FALSE, 1).prepaid
      /\ Task("args", at, FALSE, 1).kind = "args" /\ Task("args", at, FALSE, 1).at = at
      /\ Task("args", at, FALSE, 1).n = 1
      /\ Task("args", at, FALSE, 2) \in Work /\ ~Task("args", at, FALSE, 2).prepaid
      /\ Task("args", at, FALSE, 2).kind = "args" /\ Task("args", at, FALSE, 2).at = at
      /\ Task("args", at, FALSE, 2).n = 2
      /\ Owing("field", at) \in Work /\ ~Owing("field", at).prepaid
      /\ Owing("field", at).kind = "field" /\ Owing("field", at).at = at
  BY <1>1 DEF Task, Owing, Work, Fills, Returns
<1> HIDE DEF r, at, kid
<1>5. CASE r = Bad
  BY <1>5, BadReads DEF r, at
<1>8. CASE U32(3) /\ r = Wide(3, Tok(3), [k |-> "prim", op |-> OpName(Tok(2)), n |-> Tok(3)], "term", at)
  <2>1. NodeOf(task, [k |-> "prim", op |-> OpName(Tok(2)), n |-> Tok(3)])
    BY <1>6
  <2> QED
    BY <1>1, <1>3, <1>8, <2>1, WideReads DEF r, at
<1>9. CASE U32(3) /\ r = Branch(3, [k |-> "ref", hash |-> Tok(2), tys |-> Tok(3), n |-> 0], TyList(at, Tok(3)))
  <2>1. NodeOf(task, [k |-> "ref", hash |-> Tok(2), tys |-> Tok(3), n |-> 0])
    BY <1>6
  <2>2. Splits(task, TyList(at, Tok(3))) /\ PaidFor(TyList(at, Tok(3)), 0)
    BY <1>1, <1>3, <1>9, TysLeft DEF at
  <2> QED
    BY <1>9, <2>1, <2>2, BranchReads DEF r, at
<1>10. CASE U32(2) /\ r = Branch(2, [k |-> "self", tys |-> Tok(2), n |-> 0], TyList(at, Tok(2)))
  <2>1. NodeOf(task, [k |-> "self", tys |-> Tok(2), n |-> 0])
    BY <1>6
  <2>2. Splits(task, TyList(at, Tok(2))) /\ PaidFor(TyList(at, Tok(2)), 0)
    BY <1>1, <1>3, <1>10, TysLeft DEF at
  <2> QED
    BY <1>10, <2>1, <2>2, BranchReads DEF r, at
<1>11. CASE U32(4) /\ r = Branch(4, [k |-> "ctor", hash |-> Tok(2), idx |-> Tok(3), tys |-> Tok(4), n |-> 0],
                                <<Task("args", at, FALSE, 1)>> \o TyList(at, Tok(4)))
  <2>1. NodeOf(task, [k |-> "ctor", hash |-> Tok(2), idx |-> Tok(3), tys |-> Tok(4), n |-> 0])
    BY <1>6
  <2>2. /\ Splits(task, <<Task("args", at, FALSE, 1)>> \o TyList(at, Tok(4)))
        /\ PaidFor(<<Task("args", at, FALSE, 1)>> \o TyList(at, Tok(4)), 0)
    BY <1>1, <1>3, <1>7, <1>11, OneAndTysLeft DEF at
  <2> QED
    BY <1>11, <2>1, <2>2, BranchReads DEF r, at
<1>12. CASE r = Branch(2, [k |-> "match", hash |-> Tok(2), n |-> 1], <<Task("args", at, FALSE, 2), kid(1)>>)
  <2>1. NodeOf(task, [k |-> "match", hash |-> Tok(2), n |-> 1])
    BY <1>6
  <2>2. /\ Splits(task, <<Task("args", at, FALSE, 2), kid(1)>>)
        /\ PaidFor(<<Task("args", at, FALSE, 2), kid(1)>>, 0)
    <3> DEFINE t == Task("args", at, FALSE, 2)
    <3>1. t \in Work /\ ~t.prepaid /\ t.kind = "args" /\ t.at = at /\ t.n = 2
      BY <1>7, Zenon
    <3> HIDE DEF t
    <3>2. /\ t \in Work /\ ~t.prepaid /\ t.kind \in Returns /\ t.at = task.at
          /\ (t.kind = "args" => 1 < t.n) /\ (t.kind = "props" => 1 < 3)
      BY <3>1 DEF at, Returns
    <3>3. Splits(task, <<t, kid(1)>>) /\ PaidFor(<<t, kid(1)>>, 0)
      BY <1>1, <1>4, <3>2, ReturnLeft DEF at
    <3>4. t = Task("args", at, FALSE, 2)
      BY DEF t
    <3> QED
      BY <3>3, <3>4, Zenon
  <2> QED
    BY <1>12, <2>1, <2>2, BranchReads DEF r, at
<1>13. CASE U32(2) /\ r = Wide(2, Tok(2), [k |-> "record", names |-> <<>>, n |-> Tok(2)], "name", at)
  <2>1. NodeOf(task, [k |-> "record", names |-> <<>>, n |-> Tok(2)])
    BY <1>6
  <2> QED
    BY <1>1, <1>3, <1>13, <2>1, WideReads DEF r, at
<1>14. CASE r = Branch(1, [k |-> "field", op |-> 0, n |-> 1], <<Owing("field", at), kid(1)>>)
  <2>1. NodeOf(task, [k |-> "field", op |-> 0, n |-> 1])
    BY <1>6
  <2>2. /\ Splits(task, <<Owing("field", at), kid(1)>>)
        /\ PaidFor(<<Owing("field", at), kid(1)>>, 0)
    <3> DEFINE t == Owing("field", at)
    <3>1. /\ t \in Work /\ ~t.prepaid /\ t.kind \in Returns /\ t.at = task.at
          /\ (t.kind = "args" => 1 < t.n) /\ (t.kind = "props" => 1 < 3)
      BY <1>7 DEF at, Returns
    <3> HIDE DEF t
    <3>2. Splits(task, <<t, kid(1)>>) /\ PaidFor(<<t, kid(1)>>, 0)
      BY <1>1, <1>4, <3>1, ReturnLeft DEF at
    <3>3. t = Owing("field", at)
      BY DEF t
    <3> QED
      BY <3>2, <3>3, Zenon
  <2> QED
    BY <1>14, <2>1, <2>2, BranchReads DEF r, at
<1> QED
  BY <1>2, <1>5, <1>8, <1>9, <1>10, <1>11, <1>12, <1>13, <1>14 DEF r, at

LEMMA TermReads ==
    ASSUME TypeInv, NEW task \in Work, task.kind = "term"
    PROVE  Reads(task, readTerm(task.at))
<1> DEFINE at == task.at
           r == readTerm(at)
           kid(i) == Owing("term", Append(at, i))
           ofTy == Owing("ty", Append(at, 0))
           num == Bigint(2)
           den == Bigint(After(2))
<1>1. at \in Path /\ task.kind \in Fills /\ task.kind \notin Returns
  BY DEF Work, Fills, Returns
<1>2. \/ r = Bad
      \/ r = Leaf(2, [k |-> "var", idx |-> Tok(2), n |-> 0])
      \/ BigintOk(2) /\ r = Leaf(After(2) - 1, [k |-> "int", int |-> Bigint(2), n |-> 0])
      \/ BigintOk(2) /\ BigintOk(After(2)) /\ r = Leaf(After(After(2)) - 1, [k |-> "rat", num |-> num, den |-> den, n |-> 0])
      \/ r = Leaf(2, [k |-> "bool", bool |-> Tok(2) = 1, n |-> 0])
      \/ r = Branch(1, [k |-> "lam", n |-> 1], <<kid(1), ofTy>>)
      \/ r = Branch(1, [k |-> "app", n |-> 2], <<kid(2), kid(1)>>)
      \/ r = Branch(1, [k |-> "let", n |-> 2], <<kid(2), kid(1), ofTy>>)
      \/ r = Branch(1, [k |-> "if", n |-> 3], <<kid(3), kid(2), kid(1)>>)
      \/ r = readListed(at)
  BY SMT DEF readTerm
<1>4. \A i \in {1, 2, 3} : Child(kid(i), at, i) /\ ~kid(i).prepaid
  BY <1>1, OwingChild
<1>5. Child(ofTy, at, 0) /\ ~ofTy.prepaid
  BY <1>1, OwingChild
<1>6. ASSUME NEW node, "k" \in DOMAIN node, node.k # "tys" PROVE NodeOf(task, node)
  BY <1>1, <1>6 DEF NodeOf
<1> HIDE DEF r, at, kid, ofTy, num, den
<1>8. CASE r = Bad
  BY <1>8, BadReads DEF r, at
<1>9. CASE r = Leaf(2, [k |-> "var", idx |-> Tok(2), n |-> 0])
  <2>1. NodeOf(task, [k |-> "var", idx |-> Tok(2), n |-> 0])
    BY <1>6
  <2> QED
    BY <1>9, <2>1, LeafReads DEF r, at
<1>10. CASE BigintOk(2) /\ r = Leaf(After(2) - 1, [k |-> "int", int |-> Bigint(2), n |-> 0])
  <2>1. NodeOf(task, [k |-> "int", int |-> Bigint(2), n |-> 0])
    BY <1>6
  <2>2. After(2) - 1 \in Nat
    BY <1>10, IntegerEnds
  <2> QED
    BY <1>10, <2>1, <2>2, LeafReads DEF r, at
<1>11. CASE BigintOk(2) /\ BigintOk(After(2)) /\ r = Leaf(After(After(2)) - 1, [k |-> "rat", num |-> num, den |-> den, n |-> 0])
  <2>1. NodeOf(task, [k |-> "rat", num |-> num, den |-> den, n |-> 0])
    BY <1>6
  <2>2. After(2) \in Nat \ {0}
    BY <1>11, IntegerEnds
  <2>3. After(After(2)) - 1 \in Nat
    <3>1. After(After(2)) \in Nat /\ After(After(2)) >= After(2) + 2
      BY <1>11, <2>2, IntegerEnds
    <3> QED
      BY <2>2, <3>1
  <2> QED
    BY <1>11, <2>1, <2>3, LeafReads DEF r, at
<1>12. CASE r = Leaf(2, [k |-> "bool", bool |-> Tok(2) = 1, n |-> 0])
  <2>1. NodeOf(task, [k |-> "bool", bool |-> Tok(2) = 1, n |-> 0])
    BY <1>6
  <2> QED
    BY <1>12, <2>1, LeafReads DEF r, at
<1>13. CASE r = Branch(1, [k |-> "lam", n |-> 1], <<kid(1), ofTy>>)
  <2>1. NodeOf(task, [k |-> "lam", n |-> 1])
    BY <1>6
  <2>2. Splits(task, <<kid(1), ofTy>>) /\ PaidFor(<<kid(1), ofTy>>, 0)
    BY <1>1, <1>4, <1>5, TwoLeft DEF at
  <2> QED
    BY <1>13, <2>1, <2>2, BranchReads DEF r, at
<1>14. CASE r = Branch(1, [k |-> "app", n |-> 2], <<kid(2), kid(1)>>)
  <2>1. NodeOf(task, [k |-> "app", n |-> 2])
    BY <1>6
  <2>2. Splits(task, <<kid(2), kid(1)>>) /\ PaidFor(<<kid(2), kid(1)>>, 0)
    BY <1>1, <1>4, TwoLeft DEF at
  <2> QED
    BY <1>14, <2>1, <2>2, BranchReads DEF r, at
<1>15. CASE r = Branch(1, [k |-> "let", n |-> 2], <<kid(2), kid(1), ofTy>>)
  <2>1. NodeOf(task, [k |-> "let", n |-> 2])
    BY <1>6
  <2>2. Splits(task, <<kid(2), kid(1), ofTy>>) /\ PaidFor(<<kid(2), kid(1), ofTy>>, 0)
    BY <1>1, <1>4, <1>5, ThreeLeft DEF at
  <2> QED
    BY <1>15, <2>1, <2>2, BranchReads DEF r, at
<1>16. CASE r = Branch(1, [k |-> "if", n |-> 3], <<kid(3), kid(2), kid(1)>>)
  <2>1. NodeOf(task, [k |-> "if", n |-> 3])
    BY <1>6
  <2>2. Splits(task, <<kid(3), kid(2), kid(1)>>) /\ PaidFor(<<kid(3), kid(2), kid(1)>>, 0)
    BY <1>1, <1>4, ThreeLeft DEF at
  <2> QED
    BY <1>16, <2>1, <2>2, BranchReads DEF r, at
<1>17. CASE r = readListed(at)
  BY <1>17, ListedReads DEF r, at
<1> QED
  BY <1>2, <1>8, <1>9, <1>10, <1>11, <1>12, <1>13, <1>14, <1>15, <1>16, <1>17 DEF r, at

LEMMA ArgsRead ==
    ASSUME TypeInv, NEW task \in Work, task.kind = "args", task.at \in DOMAIN out
    PROVE  Reads(task, readArgs(task.at, task.n))
<1> DEFINE r == readArgs(task.at, task.n)
           node == [out[task.at] EXCEPT !.n = task.n - 1 + Tok(1)]
<1>1. CASE ~U32(1)
  BY <1>1, BadReads DEF readArgs
<1>2. CASE U32(1)
  <2>1. r = [n |-> 1, made |-> Tok(1), node |-> node, tasks |-> Children("term", task.at, task.n, Tok(1))]
    BY <1>2 DEF readArgs
  <2>2. Tok(1) \in Nat
    BY <1>2, CountIsNat
  <2>3. NodeOf(task, node)
    <3>1. "k" \in DOMAIN out[task.at]
      BY DEF TypeInv
    <3> QED
      BY <3>1 DEF NodeOf
  <2>4. /\ Splits(task, Children("term", task.at, task.n, Tok(1)))
        /\ PaidFor(Children("term", task.at, task.n, Tok(1)), Tok(1))
    <3>1. task.n \in Int /\ task.n >= task.n
      BY DEF Work
    <3> QED
      BY <2>2, <3>1, DeclaredChildren
  <2> HIDE DEF r, node
  <2>5. Reads(task, r)
    BY <2>1, <2>2, <2>3, <2>4 DEF Reads
  <2> QED
    BY <2>5 DEF r
<1> QED
  BY <1>1, <1>2

LEMMA FieldReads ==
    ASSUME TypeInv, NEW task \in Work, task.kind = "field", task.at \in DOMAIN out
    PROVE  Reads(task, readField(task.at))
<1> DEFINE node == [out[task.at] EXCEPT !.op = Tok(1)]
<1>1. NodeOf(task, node)
  <2>1. "k" \in DOMAIN out[task.at]
    BY DEF TypeInv
  <2> QED
    BY <2>1 DEF NodeOf
<1>2. readField(task.at) = Leaf(1, node) \/ readField(task.at) = Bad
  BY DEF readField
<1> HIDE DEF node
<1> QED
  BY <1>1, <1>2, LeafReads, BadReads

LEMMA PropsRead ==
    ASSUME TypeInv, NEW task \in Work, task.kind = "props", task.at = Root, Root \in DOMAIN out
    PROVE  Reads(task, readProps)
<1> DEFINE node == [out[Root] EXCEPT !.n = Tok(1)]
           left == [i \in 1 .. Tok(1) |-> Owing("prop", Append(Root, 3 + Tok(1) - i))]
<1>1. CASE ~U32(1)
  BY <1>1, BadReads DEF readProps
<1>2. CASE U32(1)
  <2>1. readProps = Branch(1, node, left)
    BY <1>2 DEF readProps
  <2>2. Tok(1) \in Nat
    BY <1>2, CountIsNat
  <2>3. NodeOf(task, node)
    <3>1. "k" \in DOMAIN out[Root]
      BY DEF TypeInv
    <3> QED
      BY <3>1 DEF NodeOf
  <2>4. Splits(task, left) /\ PaidFor(left, 0)
    BY <2>2, ListLeft
  <2> HIDE DEF node, left
  <2> QED
    BY <2>1, <2>3, <2>4, BranchReads
<1> QED
  BY <1>1, <1>2

LEMMA TysRead ==
    ASSUME TypeInv, NEW task \in Work, task.kind \in {"ctor", "prop"}, NEW body,
           body = <<>> \/ body = <<Owing("term", Append(task.at, 0))>>
    PROVE  Reads(task, readTys(task.at, body))
<1> DEFINE node == [k |-> "tys", tys |-> Tok(1)]
           left == body \o TyList(task.at, Tok(1))
<1>1. CASE ~U32(1)
  BY <1>1, BadReads DEF readTys
<1>2. CASE U32(1)
  <2>1. readTys(task.at, body) = Branch(1, node, left)
    BY <1>2 DEF readTys
  <2>2. Tok(1) \in Nat /\ task.at \in Path /\ task.kind \in Fills
    BY <1>2, CountIsNat DEF Work, Fills
  <2>3. NodeOf(task, node)
    BY DEF NodeOf, Returns
  <2>4. Splits(task, left) /\ PaidFor(left, 0)
    <3>1. CASE body = <<>>
      <4>1. TyList(task.at, Tok(1)) \in Seq(Work)
        BY <2>2, TyListIs
      <4>2. left = TyList(task.at, Tok(1))
        BY <3>1, <4>1
      <4> QED
        BY <2>2, <4>2, TysLeft
    <3>2. CASE body = <<Owing("term", Append(task.at, 0))>>
      <4> DEFINE t == Owing("term", Append(task.at, 0))
      <4>1. Child(t, task.at, 0) /\ ~t.prepaid /\ t \in Work
        BY <2>2, OwingChild DEF Child
      <4> HIDE DEF t
      <4>2. Splits(task, <<t>> \o TyList(task.at, Tok(1))) /\ PaidFor(<<t>> \o TyList(task.at, Tok(1)), 0)
        BY <2>2, <4>1, OneAndTysLeft
      <4> QED
        BY <3>2, <4>2 DEF t
    <3> QED
      BY <3>1, <3>2
  <2> HIDE DEF node, left
  <2> QED
    BY <2>1, <2>3, <2>4, BranchReads
<1> QED
  BY <1>1, <1>2

LEMMA DefReads ==
    ASSUME TypeInv, NEW task \in Work, task.kind = "def"
    PROVE  Reads(task, readDef)
<1> DEFINE r == readDef
           data == [k |-> "data", tyvars |-> Tok(4), n |-> Tok(5)]
           func == [k |-> "func", tyvars |-> Tok(4), n |-> 0]
           lists(n) == [i \in 1 .. n |-> Owing("ctor", Append(Root, n + 1 - i))]
           rest == Owing("props", Root)
           body == Owing("term", Append(Root, 2))
           type == Owing("ty", Append(Root, 1))
<1>1. task.at = Root /\ Root \in Path /\ task.kind \in Fills /\ task.kind \notin Returns
  BY DEF Work, Fills, Returns
<1>2. \/ U32(5) /\ r = Branch(5, data, lists(Tok(5)))
      \/ r = Branch(4, func, <<rest, body, type>>)
      \/ r = Bad
  BY SMT DEF readDef
<1>3. NodeOf(task, data) /\ NodeOf(task, func)
  BY <1>1 DEF NodeOf
<1>4. ASSUME U32(5) PROVE Splits(task, lists(Tok(5))) /\ PaidFor(lists(Tok(5)), 0)
  <2>1. Tok(5) \in Nat
    BY <1>4, CountIsNat
  <2> DEFINE other == [i \in 1 .. Tok(5) |-> Owing("ctor", Append(task.at, 1 + Tok(5) - i))]
  <2>2. Splits(task, other) /\ PaidFor(other, 0)
    <3>1. task.kind = "def" /\ task.kind # "props" /\ "ctor" \in {"ctor", "prop"} /\ 1 \in Int
      OBVIOUS
    <3> QED
      BY <2>1, <3>1, ListLeft
  <2>3. other = lists(Tok(5))
    BY <1>1, <2>1
  <2> QED
    BY <2>2, <2>3
<1>5. Splits(task, <<rest, body, type>>) /\ PaidFor(<<rest, body, type>>, 0)
  <2>1. rest \in Work /\ ~rest.prepaid /\ rest.kind = "props" /\ rest.at = task.at
    BY <1>1 DEF Owing, Task, Work, Fills, Returns
  <2>2. /\ Child(body, task.at, 2) /\ ~body.prepaid
        /\ Child(type, task.at, 1) /\ ~type.prepaid
    BY <1>1, OwingChild
  <2> HIDE DEF rest, body, type
  <2> QED
    BY <1>1, <2>1, <2>2, ReturnAfterTwo
<1> HIDE DEF r, data, func, lists, rest, body, type
<1>6. Reads(task, r)
  BY <1>2, <1>3, <1>4, <1>5, BranchReads, BadReads
<1> QED
  BY <1>6 DEF r

-----------------------------------------------------------------------------
(* What a step pays. *)

Prepaid(s) == {i \in DOMAIN s : s[i].prepaid}

LEMMA PromisedAfter ==
    ASSUME NEW s \in Seq(Work), s # <<>>, NEW left \in Seq(Work), NEW made \in Nat, PaidFor(left, made)
    PROVE  LET rest == SubSeq(s, 1, Len(s) - 1)
               top == s[Len(s)]
           IN  /\ Cardinality(Prepaid(rest \o left)) \in Nat
               /\ Cardinality(Prepaid(s)) \in Nat
               /\ Cardinality(Prepaid(rest \o left)) + (IF top.prepaid THEN 1 ELSE 0)
                     = Cardinality(Prepaid(s)) + made
<1> DEFINE m == Len(s)
           rest == SubSeq(s, 1, m - 1)
           top == s[m]
           old == {i \in 1 .. m - 1 : s[i].prepaid}
           both == rest \o left
           new == m .. m + made - 1
<1>1. m \in Nat /\ m > 0 /\ DOMAIN s = 1 .. m /\ Len(left) \in Nat /\ DOMAIN left = 1 .. Len(left)
  OBVIOUS
<1>2. /\ DOMAIN both = 1 .. m - 1 + Len(left)
      /\ \A i \in 1 .. m - 1 : both[i] = s[i]
      /\ \A i \in m .. m - 1 + Len(left) : i - m + 1 \in DOMAIN left /\ both[i] = left[i - m + 1]
  <2>1. rest \in Seq(Work) /\ Len(rest) = m - 1 /\ \A i \in 1 .. m - 1 : rest[i] = s[i]
    BY <1>1
  <2> HIDE DEF rest
  <2>2. Len(both) = m - 1 + Len(left) /\ both \in Seq(Work)
    BY <1>1, <2>1
  <2>3. \A i \in 1 .. m - 1 : both[i] = s[i]
    BY <1>1, <2>1
  <2>4. ASSUME NEW i \in m .. m - 1 + Len(left)
        PROVE  i - m + 1 \in DOMAIN left /\ both[i] = left[i - m + 1]
    <3>1. i - Len(rest) = i - m + 1 /\ i - m + 1 \in DOMAIN left /\ i > Len(rest)
      BY <1>1, <2>1
    <3> QED
      BY <1>1, <2>1, <3>1
  <2> HIDE DEF both
  <2> QED
    BY <2>2, <2>3, <2>4
<1> HIDE DEF m, both, rest
<1>3. Prepaid(both) = old \cup {i \in m .. m - 1 + Len(left) : left[i - m + 1].prepaid}
  <2>1. 1 .. m - 1 + Len(left) = (1 .. m - 1) \cup (m .. m - 1 + Len(left))
    BY <1>1
  <2> QED
    BY <1>2, <2>1, Zenon DEF Prepaid
<1>4. IsFiniteSet(old) /\ Cardinality(old) \in Nat
  <2>1. 1 \in Int /\ m - 1 \in Int
    BY <1>1
  <2>2. IsFiniteSet(1 .. m - 1)
    BY <2>1, FS_Interval
  <2> QED
    BY <2>2, FS_Subset, FS_CardinalityType
<1>5. IsFiniteSet(new) /\ Cardinality(new) = made
  <2>1. m + made - 1 \in Int /\ m \in Int
    BY <1>1
  <2>2. /\ IsFiniteSet(m .. m + made - 1)
        /\ Cardinality(m .. m + made - 1) = IF m > m + made - 1 THEN 0 ELSE m + made - 1 - m + 1
    BY <2>1, FS_Interval
  <2> QED
    BY <1>1, <2>2
<1>6. Cardinality(Prepaid(s)) = Cardinality(old) + (IF top.prepaid THEN 1 ELSE 0)
  <2>1. CASE top.prepaid
    <3>1. Prepaid(s) = old \cup {m} /\ m \notin old
      BY <1>1, <2>1 DEF Prepaid
    <3> HIDE DEF old, top
    <3> QED
      BY <1>4, <2>1, <3>1, FS_AddElement
  <2>2. CASE ~top.prepaid
    <3>1. Prepaid(s) = old
      BY <1>1, <2>2 DEF Prepaid
    <3> HIDE DEF old, top
    <3> QED
      BY <1>4, <2>2, <3>1
  <2> QED
    BY <2>1, <2>2
<1>7. Cardinality(Prepaid(both)) = Cardinality(old) + made
  <2>1. CASE made = 0 /\ \A i \in DOMAIN left : ~left[i].prepaid
    <3>1. {i \in m .. m - 1 + Len(left) : left[i - m + 1].prepaid} = {}
      BY <1>2, <2>1
    <3>2. Prepaid(both) = old
      BY <1>3, <3>1
    <3> HIDE DEF old
    <3> QED
      BY <1>4, <2>1, <3>2
  <2>2. CASE made = Len(left) /\ \A i \in DOMAIN left : left[i].prepaid
    <3>1. old \cap new = {}
      BY <1>1
    <3>2. {i \in m .. m - 1 + Len(left) : left[i - m + 1].prepaid} = new
      <4>1. m - 1 + Len(left) = m + made - 1
        BY <1>1, <2>2
      <4> QED
        BY <1>2, <2>2, <4>1
    <3>3. Prepaid(both) = old \cup new
      BY <1>3, <3>2
    <3> HIDE DEF old, new
    <3>4. Cardinality(old \cup new) = Cardinality(old) + Cardinality(new) - Cardinality(old \cap new)
      BY <1>4, <1>5, FS_Union
    <3>5. Cardinality(old \cap new) = 0
      BY <3>1, FS_EmptySet
    <3> QED
      BY <1>4, <1>5, <3>3, <3>4, <3>5
  <2> QED
    BY <2>1, <2>2 DEF PaidFor
<1> HIDE DEF old, top
<1>8. /\ Cardinality(Prepaid(both)) \in Nat /\ Cardinality(Prepaid(s)) \in Nat
      /\ Cardinality(Prepaid(both)) + (IF top.prepaid THEN 1 ELSE 0) = Cardinality(Prepaid(s)) + made
  BY <1>4, <1>6, <1>7
<1> QED
  BY <1>8 DEF both, rest, m, top

-----------------------------------------------------------------------------
(* A step keeps the invariant. *)

LEMMA CountsAreNat ==
    ASSUME TypeInv
    PROVE  /\ IsFiniteSet(Built) /\ Cardinality(Built) \in Nat
           /\ IsFiniteSet(Promised) /\ Cardinality(Promised) \in Nat
<1>1. IsFiniteSet(Built)
  <2>1. Built \in SUBSET DOMAIN out
    BY DEF Built
  <2> QED
    BY <2>1, FS_Subset DEF TypeInv
<1>2. IsFiniteSet(Promised)
  <2>1. Promised \in SUBSET (1 .. Len(stack)) /\ Len(stack) \in Int /\ 1 \in Int
    BY DEF Promised, TypeInv
  <2>2. IsFiniteSet(1 .. Len(stack))
    BY <2>1, FS_Interval
  <2> QED
    BY <2>1, <2>2, FS_Subset
<1> QED
  BY <1>1, <1>2, FS_CardinalityType

LEMMA TopIsWork ==
    ASSUME TypeInv, stack # <<>>
    PROVE  Len(stack) \in DOMAIN stack /\ Top \in Work /\ Top = stack[Len(stack)]
BY DEF TypeInv, Top

\* What is under the top of the stack, and then what the top leaves.
LEMMA AfterPush ==
    ASSUME TypeInv, stack # <<>>, NEW left \in Seq(Work)
    PROVE  /\ Pop \o left \in Seq(Work)
           /\ \A i \in DOMAIN (Pop \o left) :
                \/ i \in 1 .. Len(stack) - 1 /\ (Pop \o left)[i] = stack[i]
                \/ /\ i \in Nat /\ i >= Len(stack)
                   /\ i - Len(stack) + 1 \in DOMAIN left
                   /\ (Pop \o left)[i] = left[i - Len(stack) + 1]
<1> DEFINE m == Len(stack)
           both == Pop \o left
<1>1. /\ m \in Nat /\ m > 0 /\ Pop \in Seq(Work) /\ Len(Pop) = m - 1
      /\ \A i \in 1 .. m - 1 : Pop[i] = stack[i]
      /\ Len(left) \in Nat /\ DOMAIN left = 1 .. Len(left)
  <2>1. m \in Nat /\ m > 0 /\ stack \in Seq(Work)
    BY DEF TypeInv
  <2>2. Len(left) \in Nat /\ DOMAIN left = 1 .. Len(left)
    OBVIOUS
  <2>3. Pop \in Seq(Work) /\ Len(Pop) = m - 1 /\ \A i \in 1 .. m - 1 : Pop[i] = stack[i]
    <3>1. Pop = SubSeq(stack, 1, m - 1)
      BY DEF Pop
    <3>2. m = Len(stack)
      OBVIOUS
    <3> HIDE DEF m
    <3>3. Pop \in Seq(Work) /\ Len(Pop) = m - 1
      BY <2>1, <3>1, <3>2
    <3>4. \A i \in 1 .. m - 1 : Pop[i] = stack[i]
      BY <2>1, <3>1, <3>2
    <3> QED
      BY <3>3, <3>4
  <2> QED
    BY <2>1, <2>2, <2>3
<1> HIDE DEF m
<1>2. both \in Seq(Work) /\ DOMAIN both = 1 .. m - 1 + Len(left)
  <2>1. both \in Seq(Work) /\ Len(both) = m - 1 + Len(left)
    BY <1>1
  <2> QED
    BY <2>1
<1>3. \A i \in 1 .. m - 1 : both[i] = stack[i]
  BY <1>1
<1>4. ASSUME NEW i \in m .. m - 1 + Len(left)
      PROVE  i - m + 1 \in DOMAIN left /\ both[i] = left[i - m + 1]
  <2>1. i - Len(Pop) = i - m + 1 /\ i - m + 1 \in DOMAIN left /\ i > Len(Pop)
    BY <1>1
  <2> QED
    BY <1>1, <2>1
<1>5. \A i \in 1 .. m - 1 + Len(left) : i \in 1 .. m - 1 \/ (i \in m .. m - 1 + Len(left) /\ i \in Nat /\ i >= m)
  BY <1>1
<1> HIDE DEF both, m
<1>6. \A i \in DOMAIN both :
            \/ i \in 1 .. m - 1 /\ both[i] = stack[i]
            \/ i \in Nat /\ i >= m /\ i - m + 1 \in DOMAIN left /\ both[i] = left[i - m + 1]
  BY <1>2, <1>3, <1>4, <1>5, Zenon
<1> QED
  BY <1>2, <1>6 DEF both, m

\* The slot of the top is filled, and what the top leaves has the rest of its part.
LEMMA SlotsStayApart ==
    ASSUME TypeInv, SlotInv, stack # <<>>, NEW left, Splits(Top, left),
           stack' = Pop \o left, DOMAIN out' = DOMAIN out \cup {Top.at}
    PROVE  SlotInv'
<1> DEFINE m == Len(stack)
<1>1. /\ left \in Seq(Work)
      /\ \A i \in DOMAIN left : left[i].kind \in Returns => left[i].at = Top.at
      /\ \A i \in DOMAIN left : \A q \in Path : Owns(left[i], q) => Owns(Top, q) /\ q # Top.at
      /\ \A i, j \in DOMAIN left : i # j => \A q \in Path : ~(Owns(left[i], q) /\ Owns(left[j], q))
  BY DEF Splits, Apart
<1>2. /\ m \in DOMAIN stack /\ m \in Nat /\ DOMAIN stack = 1 .. m /\ Top = stack[m] /\ Top.at \in Path
      /\ Top.kind \in Fills \cup Returns
  BY TopIsWork DEF TypeInv, Work
<1>3. \A i \in DOMAIN stack' :
            \/ i \in 1 .. m - 1 /\ stack'[i] = stack[i]
            \/ i \in Nat /\ i >= m /\ i - m + 1 \in DOMAIN left /\ stack'[i] = left[i - m + 1]
  BY <1>1, AfterPush
<1> HIDE DEF m
<1>4. \A i \in 1 .. m - 1 : i \in DOMAIN stack /\ i # m
  BY <1>2
<1>5. /\ \A i \in DOMAIN stack : stack[i].kind \in Returns => stack[i].at \in DOMAIN out
      /\ \A i \in DOMAIN stack : \A q \in DOMAIN out : ~Owns(stack[i], q)
      /\ \A i, j \in DOMAIN stack : i # j => \A q \in Path : ~(Owns(stack[i], q) /\ Owns(stack[j], q))
  BY DEF SlotInv, Apart
<1>6. DOMAIN out \in SUBSET Path
  BY DEF TypeInv
<1>7. \A i \in DOMAIN stack' : stack'[i].kind \in Returns => stack'[i].at \in DOMAIN out'
  BY <1>1, <1>3, <1>4, <1>5
<1>8. \A i \in 1 .. m - 1 : ~Owns(stack[i], Top.at)
  <2>1. CASE Top.kind \in Fills
    <3>1. Owns(Top, Top.at)
      BY <1>2, <2>1, OwnSlot DEF Owns
    <3> QED
      BY <1>2, <1>4, <1>5, <3>1
  <2>2. CASE Top.kind \in Returns
    BY <1>2, <1>4, <1>5, <2>2
  <2> QED
    BY <1>2, <2>1, <2>2
<1>9. ASSUME NEW i \in DOMAIN stack', NEW q \in DOMAIN out' PROVE ~Owns(stack'[i], q)
  <2>1. CASE i \in 1 .. m - 1 /\ stack'[i] = stack[i]
    BY <1>4, <1>5, <1>8, <1>9, <2>1
  <2>2. CASE i - m + 1 \in DOMAIN left /\ stack'[i] = left[i - m + 1]
    BY <1>1, <1>2, <1>5, <1>6, <1>9, <2>2
  <2> QED
    BY <1>3, <1>9, <2>1, <2>2
<1>10. ASSUME NEW i \in DOMAIN stack', NEW j \in DOMAIN stack', i # j, NEW q \in Path,
              Owns(stack'[i], q), Owns(stack'[j], q)
       PROVE  FALSE
  <2>1. CASE i \in 1 .. m - 1 /\ stack'[i] = stack[i] /\ j \in 1 .. m - 1 /\ stack'[j] = stack[j]
    BY <1>4, <1>5, <1>10, <2>1
  <2>2. ASSUME NEW k \in DOMAIN stack, k # m, NEW l \in DOMAIN left, Owns(stack[k], q), Owns(left[l], q)
        PROVE  FALSE
    BY <1>1, <1>2, <1>5, <2>2
  <2>3. CASE /\ i \in Nat /\ i - m + 1 \in DOMAIN left /\ stack'[i] = left[i - m + 1]
             /\ j \in Nat /\ j - m + 1 \in DOMAIN left /\ stack'[j] = left[j - m + 1]
    <3>1. i - m + 1 # j - m + 1
      BY <1>2, <1>10, <2>3
    <3> QED
      BY <1>1, <1>10, <2>3, <3>1
  <2> QED
    BY <1>3, <1>4, <1>10, <2>1, <2>2, <2>3
<1> QED
  BY <1>7, <1>9, <1>10 DEF SlotInv, Apart

\* A slot is filled where nothing was built, and the node at a slot that is rewritten stays of its kind.
LEMMA BuiltAfter ==
    ASSUME TypeInv, SlotInv, stack # <<>>, NEW node, NodeOf(Top, node), Top.kind \notin {"tyname", "name"}
    PROVE  LET after == {p \in (DOMAIN out \cup {Top.at}) \ {Root} : Fill(Top.at, node)[p].k # "tys"}
           IN  /\ Top.kind \in {"ty", "term"} => after = Built \cup {Top.at} /\ Top.at \notin Built
               /\ Top.kind \notin {"ty", "term"} => after = Built
<1> DEFINE filled == Fill(Top.at, node)
           after == {p \in (DOMAIN out \cup {Top.at}) \ {Root} : filled[p].k # "tys"}
<1>1. /\ Len(stack) \in DOMAIN stack /\ Top \in Work /\ Top = stack[Len(stack)]
      /\ Top.at \in Path /\ Top.kind \in Fills \cup Returns
  BY TopIsWork DEF Work
<1>2. \A p \in DOMAIN out \cup {Top.at} : filled[p] = IF p = Top.at THEN node ELSE out[p]
  BY DEF Fill
<1>3. Top.kind \in Fills => Top.at \notin DOMAIN out
  BY <1>1, OwnSlot DEF SlotInv, Owns
<1>4. Top.kind \in Returns => Top.at \in DOMAIN out
  BY <1>1 DEF SlotInv
<1> HIDE DEF filled
<1>5. CASE Top.kind \in {"ty", "term"}
  <2>1. Top.at # Root /\ node.k # "tys" /\ Top.at \notin DOMAIN out
    BY <1>1, <1>3, <1>5 DEF Work, NodeOf, Fills
  <2>2. after = Built \cup {Top.at} /\ Top.at \notin Built
    BY <1>2, <2>1 DEF Built
  <2> QED
    BY <1>5, <2>2 DEF filled
<1>6. CASE Top.kind \in {"ctor", "prop"}
  <2>1. node.k = "tys" /\ Top.at \notin DOMAIN out
    BY <1>3, <1>6 DEF NodeOf, Fills
  <2>2. after = Built
    BY <1>2, <2>1 DEF Built
  <2> QED
    BY <1>6, <2>2 DEF filled
<1>7. CASE Top.kind = "def"
  <2>1. Top.at = Root
    BY <1>1, <1>7 DEF Work
  <2>2. after = Built
    BY <1>2, <2>1 DEF Built
  <2> QED
    BY <1>7, <2>2 DEF filled
<1>8. CASE Top.kind \in Returns
  <2>1. node.k = out[Top.at].k /\ Top.at \in DOMAIN out
    BY <1>4, <1>8 DEF NodeOf
  <2>2. after = Built
    BY <1>2, <2>1 DEF Built
  <2> QED
    BY <1>8, <2>2 DEF filled, Returns
<1> QED
  BY <1>1, <1>5, <1>6, <1>7, <1>8 DEF Fills

LEMMA RefuseKeeps ==
    ASSUME DecodeInv, NEW why, Refuse(why)
    PROVE  DecodeInv'
BY DEF DecodeInv, Refuse, TypeInv, SlotInv, PaidBeforeMade, Built, Promised

\* A task that is done leaves the invariant as it was.
LEMMA PerformKeeps ==
    ASSUME DecodeInv, stack # <<>>, NEW r, Reads(Top, r), Top.kind \notin {"tyname", "name"}, Perform(Top, r)
    PROVE  DecodeInv'
<1> DEFINE charged == nodes + chargeOwn(Top)
<1>1. CASE \E why : Refuse(why)
  BY <1>1, RefuseKeeps
<1>2. CASE /\ r.node.k # "bad" /\ ~(charged + r.made > maxCanonicalNodes)
           /\ pos' = pos + r.n /\ nodes' = charged + r.made
           /\ stack' = Pop \o r.tasks /\ out' = Fill(Top.at, r.node)
           /\ UNCHANGED <<b, err>>
  <2>1. TypeInv /\ SlotInv /\ PaidBeforeMade
    BY DEF DecodeInv
  <2>2. /\ r.n \in Nat /\ r.made \in Nat /\ Splits(Top, r.tasks) /\ PaidFor(r.tasks, r.made)
        /\ NodeOf(Top, r.node) /\ r.tasks \in Seq(Work)
    BY <1>2 DEF Reads, Splits
  <2>3. Top \in Work /\ Top.at \in Path /\ Top = stack[Len(stack)]
    BY <2>1, TopIsWork DEF Work
  <2>4. /\ DOMAIN out' = DOMAIN out \cup {Top.at}
        /\ \A p \in DOMAIN out' : out'[p] = IF p = Top.at THEN r.node ELSE out[p]
    BY <1>2 DEF Fill
  <2>5. TypeInv'
    <3>1. b' \in Seq(Nat) /\ pos' \in Nat
      BY <1>2, <2>1, <2>2 DEF TypeInv
    <3>2. stack' \in Seq(Work)
      BY <1>2, <2>1, <2>2, AfterPush
    <3>3. DOMAIN out' \in SUBSET Path /\ IsFiniteSet(DOMAIN out')
      <4>1. DOMAIN out \in SUBSET Path /\ IsFiniteSet(DOMAIN out)
        BY <2>1 DEF TypeInv
      <4>2. IsFiniteSet(DOMAIN out \cup {Top.at})
        BY <4>1, FS_AddElement
      <4> QED
        BY <2>3, <2>4, <4>1, <4>2
    <3>4. \A p \in DOMAIN out' : "k" \in DOMAIN out'[p]
      BY <2>1, <2>2, <2>4 DEF TypeInv, NodeOf
    <3> QED
      BY <3>1, <3>2, <3>3, <3>4 DEF TypeInv
  <2>6. SlotInv'
    BY <1>2, <2>1, <2>2, <2>4, SlotsStayApart
  <2>7. /\ Cardinality(Promised') \in Nat
        /\ Cardinality(Promised') + (IF Top.prepaid THEN 1 ELSE 0) = Cardinality(Promised) + r.made
    <3>1. Promised = Prepaid(stack) /\ Promised' = Prepaid(stack')
      BY DEF Promised, Prepaid
    <3>2. stack \in Seq(Work)
      BY <2>1 DEF TypeInv
    <3> QED
      BY <1>2, <2>2, <2>3, <3>1, <3>2, PromisedAfter DEF Pop
  <2>8. Cardinality(Built') = Cardinality(Built) + (IF Top.kind \in {"ty", "term"} THEN 1 ELSE 0)
    <3>1. Built' = {p \in (DOMAIN out \cup {Top.at}) \ {Root} : Fill(Top.at, r.node)[p].k # "tys"}
      BY <1>2, <2>4 DEF Built
    <3>2. /\ Top.kind \in {"ty", "term"} => Built' = Built \cup {Top.at} /\ Top.at \notin Built
          /\ Top.kind \notin {"ty", "term"} => Built' = Built
      BY <2>1, <2>2, <3>1, BuiltAfter
    <3>3. IsFiniteSet(Built) /\ Cardinality(Built) \in Nat
      BY <2>1, CountsAreNat
    <3> QED
      BY <3>2, <3>3, FS_AddElement
  <2>9. chargeOwn(Top) + (IF Top.prepaid THEN 1 ELSE 0) = (IF Top.kind \in {"ty", "term"} THEN 1 ELSE 0)
    BY <2>3 DEF chargeOwn, Work
  <2>10. PaidBeforeMade'
    <3>1. /\ Cardinality(Built) \in Nat /\ Cardinality(Promised) \in Nat
          /\ nodes = Cardinality(Built) + Cardinality(Promised)
          /\ nodes' = nodes + chargeOwn(Top) + r.made /\ ~(nodes + chargeOwn(Top) + r.made > maxCanonicalNodes)
          /\ chargeOwn(Top) \in Nat /\ maxCanonicalNodes \in Nat
      BY <1>2, <2>1, CountsAreNat, DecodeAssumption DEF PaidBeforeMade, chargeOwn
    <3>2. nodes' = Cardinality(Built') + Cardinality(Promised') /\ nodes' <= maxCanonicalNodes
      <4> DEFINE own == chargeOwn(Top)
                 paid == IF Top.prepaid THEN 1 ELSE 0
                 one == IF Top.kind \in {"ty", "term"} THEN 1 ELSE 0
                 built == Cardinality(Built)
                 promised == Cardinality(Promised)
                 promisedNext == Cardinality(Promised')
                 made == r.made
      <4>1. /\ own \in Nat /\ paid \in Nat /\ one \in Nat /\ made \in Nat
            /\ built \in Nat /\ promised \in Nat /\ promisedNext \in Nat /\ maxCanonicalNodes \in Nat
        BY <2>2, <2>7, <3>1
      <4>2. /\ own + paid = one
            /\ promisedNext + paid = promised + made
            /\ Cardinality(Built') = built + one
            /\ nodes = built + promised
            /\ nodes' = nodes + own + made /\ ~(nodes + own + made > maxCanonicalNodes)
        BY <2>7, <2>8, <2>9, <3>1
      <4> HIDE DEF own, paid, one, built, promised, promisedNext, made
      <4>3. nodes' = (built + one) + promisedNext /\ nodes' <= maxCanonicalNodes
        BY <4>1, <4>2
      <4> QED
        BY <4>2, <4>3, Zenon DEF promisedNext
    <3> QED
      BY <3>2 DEF PaidBeforeMade
  <2> QED
    BY <2>5, <2>6, <2>10 DEF DecodeInv
<1> QED
  <2> HIDE DEF charged
  <2>1. \/ Refuse("limit") \/ Refuse("malformed")
        \/ /\ r.node.k # "bad" /\ ~(charged + r.made > maxCanonicalNodes)
           /\ pos' = pos + r.n /\ nodes' = charged + r.made
           /\ stack' = Pop \o r.tasks /\ out' = Fill(Top.at, r.node)
           /\ UNCHANGED <<b, err>>
    <3>1. charged \in Int /\ maxCanonicalNodes \in Int
      BY CountsAreNat, DecodeAssumption DEF charged, DecodeInv, PaidBeforeMade, chargeOwn
    <3>2. charged > maxCanonicalNodes \/ charged <= maxCanonicalNodes
      BY <3>1
    <3> QED
      BY <3>2 DEF Perform, reserveNodes, charged
  <2> QED
    BY <1>1, <1>2, <2>1

\* The name of a record entry is read: the slot that was made for the entry is still to be filled.
LEMMA EntryKeeps ==
    ASSUME DecodeInv, stack # <<>>, entry
    PROVE  DecodeInv'
<1> DEFINE m == Len(stack)
           parent == SubSeq(Top.at, 1, Len(Top.at) - 1)
           kind == IF Top.kind = "name" THEN "term" ELSE "ty"
           t == Task(kind, Top.at, TRUE, 0)
<1>1. CASE Refuse("malformed")
  BY <1>1, RefuseKeeps
<1>2. CASE /\ pos' = pos + 1 /\ stack' = Append(Pop, t)
           /\ out' = [out EXCEPT ![parent].names = Append(@, Tok(1))]
           /\ UNCHANGED <<b, nodes, err>>
  <2>1. TypeInv /\ SlotInv /\ PaidBeforeMade
    BY DEF DecodeInv
  <2>2. /\ m \in Nat /\ m \in DOMAIN stack /\ DOMAIN stack = 1 .. m /\ Top = stack[m] /\ stack \in Seq(Work)
        /\ Top \in Work /\ Top.at \in Path /\ Top.kind \in {"tyname", "name"}
        /\ Top.at # Root /\ Top.prepaid
    BY <2>1, TopIsWork DEF entry, Work, TypeInv
  <2>3. /\ t \in Work /\ t.prepaid /\ t.at = Top.at /\ t.kind \in {"ty", "term"}
    <3>1. t = [kind |-> kind, at |-> Top.at, prepaid |-> TRUE, n |-> 0] /\ kind \in {"ty", "term"}
      BY DEF Task
    <3> HIDE DEF t, kind
    <3> QED
      BY <2>2, <3>1 DEF Work, Fills, Returns
  <2> HIDE DEF t, kind, parent
  <2>4. /\ stack' \in Seq(Work) /\ DOMAIN stack' = DOMAIN stack
        /\ \A i \in DOMAIN stack : stack'[i] = IF i = m THEN t ELSE stack[i]
    <3>1. Pop \in Seq(Work) /\ Len(Pop) = m - 1 /\ \A i \in 1 .. m - 1 : Pop[i] = stack[i]
      <4>1. Pop = SubSeq(stack, 1, m - 1) /\ m = Len(stack)
        BY DEF Pop
      <4> HIDE DEF m
      <4>2. Pop \in Seq(Work) /\ Len(Pop) = m - 1
        BY <2>2, <4>1
      <4>3. \A i \in 1 .. m - 1 : Pop[i] = stack[i]
        BY <2>2, <4>1
      <4> QED
        BY <4>2, <4>3
    <3> HIDE DEF m
    <3>2. stack' \in Seq(Work) /\ Len(stack') = m /\ DOMAIN stack' = 1 .. m
      BY <1>2, <2>2, <2>3, <3>1
    <3>3. \A i \in 1 .. m : stack'[i] = IF i = m THEN t ELSE stack[i]
      BY <1>2, <2>2, <2>3, <3>1
    <3> QED
      BY <2>2, <3>2, <3>3
  <2> HIDE DEF m
  <2>5. /\ DOMAIN out' = DOMAIN out
        /\ \A p \in DOMAIN out : "k" \in DOMAIN out'[p] /\ out'[p].k = out[p].k
    <3>1. \A p \in DOMAIN out : "k" \in DOMAIN out[p]
      BY <2>1 DEF TypeInv
    <3>2. DOMAIN out' = DOMAIN out
      BY <1>2
    <3>3. ASSUME NEW p \in DOMAIN out PROVE "k" \in DOMAIN out'[p] /\ out'[p].k = out[p].k
      <4>1. CASE p # parent
        BY <1>2, <3>1, <4>1
      <4>2. CASE p = parent
        <5>1. out'[p] = [out[p] EXCEPT !.names = Append(@, Tok(1))]
          BY <1>2, <4>2
        <5> QED
          BY <3>1, <5>1
      <4> QED
        BY <4>1, <4>2
    <3> QED
      BY <3>2, <3>3
  <2>6. \A i \in DOMAIN stack : /\ \A q \in Path : Owns(stack'[i], q) <=> Owns(stack[i], q)
                                /\ stack'[i].prepaid <=> stack[i].prepaid
                                /\ stack'[i].kind \in Returns => stack'[i].at = stack[i].at /\ stack[i].kind \in Returns
    <3>1. /\ \A q \in Path : Owns(t, q) <=> Owns(Top, q)
          /\ t.prepaid <=> Top.prepaid
          /\ t.kind \notin Returns
      BY <2>2, <2>3 DEF Owns, Fills, Returns
    <3> QED
      BY <2>2, <2>4, <3>1
  <2>7. TypeInv'
    BY <1>2, <2>1, <2>4, <2>5 DEF TypeInv
  <2>8. SlotInv'
    <3>1. DOMAIN out \in SUBSET Path
      BY <2>1 DEF TypeInv
    <3> QED
      BY <2>1, <2>4, <2>5, <2>6, <3>1 DEF SlotInv, Apart
  <2>9. Built' = Built
    BY <2>5 DEF Built
  <2>10. Promised' = Promised
    BY <2>4, <2>6 DEF Promised
  <2>11. PaidBeforeMade'
    BY <1>2, <2>1, <2>9, <2>10 DEF PaidBeforeMade
  <2> QED
    BY <2>7, <2>8, <2>11 DEF DecodeInv
<1> QED
  BY <1>1, <1>2 DEF entry

LEMMA BudgetStarts == ASSUME Init PROVE DecodeInv
<1>1. DOMAIN out = {} /\ stack = <<Owing("def", Root)>> /\ nodes = 0 /\ pos = 0 /\ b \in Inputs
  BY DEF Init
<1> DEFINE t == Owing("def", Root)
<1>2. t \in Work /\ ~t.prepaid /\ t.kind = "def"
  <2>1. t = [kind |-> "def", at |-> Root, prepaid |-> FALSE, n |-> 0] /\ Root \in Path
    BY DEF Owing, Task, Root, Path
  <2> HIDE DEF t
  <2> QED
    BY <2>1 DEF Work, Fills, Returns
<1> HIDE DEF t
<1>3. stack \in Seq(Work) /\ DOMAIN stack = {1} /\ stack[1] = t
  BY <1>1, <1>2 DEF t
<1>4. TypeInv
  BY <1>1, <1>3, FS_EmptySet, DecodeAssumption DEF TypeInv
<1>5. SlotInv
  BY <1>1, <1>2, <1>3 DEF SlotInv, Apart, Returns
<1>6. PaidBeforeMade
  <2>1. Built = {} /\ Promised = {}
    BY <1>1, <1>2, <1>3 DEF Built, Promised
  <2> QED
    BY <1>1, <2>1, FS_EmptySet, DecodeAssumption DEF PaidBeforeMade
<1> QED
  BY <1>4, <1>5, <1>6 DEF DecodeInv

LEMMA BudgetStep == ASSUME DecodeInv, [Next]_vars PROVE DecodeInv'
<1>1. TypeInv /\ SlotInv
  BY DEF DecodeInv
<1>2. CASE UNCHANGED vars
  BY <1>2 DEF vars, DecodeInv, TypeInv, SlotInv, PaidBeforeMade, Built, Promised
<1>3. CASE decodeDef
  BY <1>3 DEF decodeDef, DecodeInv, TypeInv, SlotInv, PaidBeforeMade, Built, Promised
<1>4. ASSUME stack # <<>>, ty \/ term \/ args \/ field \/ def \/ props \/ tys PROVE DecodeInv'
  <2>1. Top \in Work /\ (Top.kind \in Returns => Top.at \in DOMAIN out) /\ (Top.kind = "props" => Top.at = Root)
    BY <1>1, <1>4, TopIsWork DEF SlotInv, Work
  <2>2. CASE ty
    BY <1>1, <1>4, <2>1, <2>2, TyReads, PerformKeeps DEF ty
  <2>3. CASE term
    BY <1>1, <1>4, <2>1, <2>3, TermReads, PerformKeeps DEF term
  <2>4. CASE args
    BY <1>1, <1>4, <2>1, <2>4, ArgsRead, PerformKeeps DEF args, Returns
  <2>5. CASE field
    BY <1>1, <1>4, <2>1, <2>5, FieldReads, PerformKeeps DEF field, Returns
  <2>6. CASE def
    BY <1>1, <1>4, <2>1, <2>6, DefReads, PerformKeeps DEF def
  <2>7. CASE props
    BY <1>1, <1>4, <2>1, <2>7, PropsRead, PerformKeeps DEF props, Returns
  <2>8. CASE Top.kind = "ctor" /\ Perform(Top, readTys(Top.at, <<>>))
    <3>1. Reads(Top, readTys(Top.at, <<>>))
      BY <1>1, <2>1, <2>8, TysRead
    <3> QED
      BY <1>4, <2>8, <3>1, PerformKeeps
  <2>9. CASE Top.kind = "prop" /\ Perform(Top, readTys(Top.at, <<Owing("term", Append(Top.at, 0))>>))
    <3>1. Reads(Top, readTys(Top.at, <<Owing("term", Append(Top.at, 0))>>))
      BY <1>1, <2>1, <2>9, TysRead
    <3> QED
      BY <1>4, <2>9, <3>1, PerformKeeps
  <2> QED
    BY <1>4, <2>2, <2>3, <2>4, <2>5, <2>6, <2>7, <2>8, <2>9 DEF tys
<1>5. CASE stack # <<>> /\ entry
  BY <1>5, EntryKeeps
<1> QED
  BY <1>2, <1>3, <1>4, <1>5 DEF Next

\* The strict decoder pays for every node of the object exactly once, and for a declared
\* collection before it makes room for it: for every input, every budget and every plausibility
\* cap, whatever the profile then admits, nodes counts what was built and what was promised and
\* never passes maxCanonicalNodes (dec.countNodes, dec.reserveNodes, dec.ty and dec.term in canon.go).
THEOREM BudgetIsExact == Spec => []PaidBeforeMade
<1>1. Init => DecodeInv
  BY BudgetStarts
<1>2. DecodeInv /\ [Next]_vars => DecodeInv'
  BY BudgetStep
<1>3. DecodeInv => PaidBeforeMade
  BY DEF DecodeInv
<1> QED
  BY <1>1, <1>2, <1>3, PTL DEF Spec
=============================================================================
