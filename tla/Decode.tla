-------------------------------- MODULE Decode --------------------------------
(***************************************************************************)
(* The strict decoder of oath/canon.go: the explicit work stack of dec.term *)
(* and dec.ty, the driver dec.def, and the node budget of oath/profile.go   *)
(* that is charged while the object is being built.                         *)
(*                                                                          *)
(* A pointer to a slot that is to be filled is the path of that slot: the   *)
(* children of a node are 1, 2, ..., the type of a term is 0 and its type   *)
(* arguments are -1, -2, ...  `out` maps each filled slot to its node.      *)
(***************************************************************************)
EXTENDS Tags, FiniteSets

CONSTANTS
    Inputs,             \* the byte strings the decoder is given
    maxCanonicalNodes,
    maxCount,           \* the plausibility cap of u32 (1<<24)
    admit(_)            \* admitDef, of the definition that was built

\* An input is a sequence of fields: a tag, a count, a digest or a digit is a number.
ASSUME DecodeAssumption ==
    /\ Inputs \subseteq Seq(Nat)
    /\ maxCanonicalNodes \in Nat /\ maxCount \in Nat

VARIABLES
    b,          \* the input
    pos,        \* how much of it was read
    nodes,      \* nodes charged
    stack,      \* work that is still to do; the last task is next
    out,        \* path -> decoded node
    err         \* "" while decoding, then "ok", "malformed" or "limit"

vars == <<b, pos, nodes, stack, out, err>>

Root == <<>>
Task(kind, at, prepaid, n) == [kind |-> kind, at |-> at, prepaid |-> prepaid, n |-> n]
Owing(kind, at) == Task(kind, at, FALSE, 0)
\* The children from .. from + n - 1 of a node, each paid for by it; the first is on top.
Children(kind, at, from, n) ==
    [i \in 1 .. n |-> Task(kind, Append(at, from + n - i), TRUE, from + n - i)]
\* A list of types: the count does not pay for them.
TyList(at, n) == [i \in 1 .. n |-> Owing("ty", Append(at, i - n - 1))]

Init ==
    /\ b \in Inputs
    /\ pos = 0 /\ nodes = 0
    /\ stack = <<Owing("def", Root)>>
    /\ out = [p \in {} |-> [k |-> "none"]]
    /\ err = ""

Have(n) == pos + n <= Len(b)
Tok(i) == b[pos + i]
\* A count or an index: present and plausible.
U32(i) == Have(i) /\ Tok(i) <= maxCount

\* Mutant: negative zero is read as zero.
BigintOkSigned(i) ==
    /\ Have(i) /\ Tok(i) <= 1 /\ U32(i + 1)
    /\ Have(i + 1 + Tok(i + 1))
    /\ \A j \in 1 .. Tok(i + 1) : Tok(i + 1 + j) < Base       \* a digit is a byte
    /\ Tok(i + 1) > 0 => Tok(i + 2) # 0
\* An integer at token i: sign, length, minimal digits; zero has one form.
BigintOk(i) ==
    /\ Have(i) /\ Tok(i) <= 1 /\ U32(i + 1)
    /\ Have(i + 1 + Tok(i + 1))
    /\ \A j \in 1 .. Tok(i + 1) : Tok(i + 1 + j) < Base       \* a digit is a byte
    /\ Tok(i + 1) > 0 => Tok(i + 2) # 0
    /\ ~(Tok(i) = 1 /\ Tok(i + 1) = 0)
After(i) == i + 2 + Tok(i + 1)
Bigint(i) ==
    LET mag[j \in 0 .. Tok(i + 1)] == IF j = 0 THEN 0 ELSE mag[j - 1] * Base + Tok(i + 1 + j)
    IN  IF Tok(i) = 1 THEN -mag[Tok(i + 1)] ELSE mag[Tok(i + 1)]
Coprime(x, y) == \A d \in 2 .. y : ~(x % d = 0 /\ y % d = 0)

-----------------------------------------------------------------------------
(* What is read at a tag: [n: tokens read, made: slots made and paid for, node, tasks]. *)

Bad == [n |-> 0, made |-> 0, node |-> [k |-> "bad"], tasks |-> <<>>]
Leaf(n, node) == [n |-> n, made |-> 0, node |-> node, tasks |-> <<>>]
Branch(n, node, tasks) == [n |-> n, made |-> 0, node |-> node, tasks |-> tasks]
\* A node with `count` children, which it pays for before it makes them.
Wide(n, count, node, kind, at) ==
    [n |-> n, made |-> count, node |-> node, tasks |-> Children(kind, at, 1, count)]

readTy(at) ==
    LET tag(k) == Have(1) /\ Tok(1) = tagTy[k]
    IN  CASE \E k \in DOMAIN tagAtom : tag(k) -> Leaf(1, [k |-> CHOOSE k \in DOMAIN tagAtom : tag(k)])
          [] tag("var") /\ U32(2) -> Leaf(2, [k |-> "var", var |-> Tok(2)])
          [] tag("fun") -> Branch(1, [k |-> "fun"], <<Owing("ty", Append(at, 2)), Owing("ty", Append(at, 1))>>)
          [] tag("data") /\ U32(3) -> Wide(3, Tok(3), [k |-> "data", hash |-> Tok(2), n |-> Tok(3)], "ty", at)
          [] tag("rec") /\ U32(2) -> Wide(2, Tok(2), [k |-> "rec", n |-> Tok(2)], "ty", at)
          [] tag("record") /\ U32(2) -> Wide(2, Tok(2), [k |-> "record", names |-> <<>>, n |-> Tok(2)], "tyname", at)
          [] OTHER -> Bad

\* Forms that hold lists or a hash.
readListed(at) ==
    LET tag(k) == Have(1) /\ Tok(1) = tagTm[k]
        kid(i) == Owing("term", Append(at, i))
    IN  CASE tag("prim") /\ U32(3) -> Wide(3, Tok(3), [k |-> "prim", op |-> OpName(Tok(2)), n |-> Tok(3)], "term", at)
          [] tag("ref") /\ U32(3) -> Branch(3, [k |-> "ref", hash |-> Tok(2), tys |-> Tok(3), n |-> 0], TyList(at, Tok(3)))
          [] tag("self") /\ U32(2) -> Branch(2, [k |-> "self", tys |-> Tok(2), n |-> 0], TyList(at, Tok(2)))
          [] tag("ctor") /\ U32(3) /\ U32(4) ->
               Branch(4, [k |-> "ctor", hash |-> Tok(2), idx |-> Tok(3), tys |-> Tok(4), n |-> 0],
                      <<Task("args", at, FALSE, 1)>> \o TyList(at, Tok(4)))
          [] tag("match") /\ Have(2) ->
               Branch(2, [k |-> "match", hash |-> Tok(2), n |-> 1], <<Task("args", at, FALSE, 2), kid(1)>>)
          [] tag("record") /\ U32(2) -> Wide(2, Tok(2), [k |-> "record", names |-> <<>>, n |-> Tok(2)], "name", at)
          [] tag("field") -> Branch(1, [k |-> "field", op |-> 0, n |-> 1], <<Owing("field", at), kid(1)>>)
          [] OTHER -> Bad

readTerm(at) ==
    LET tag(k) == Have(1) /\ Tok(1) = tagTm[k]
        kid(i) == Owing("term", Append(at, i))
        ofTy == Owing("ty", Append(at, 0))
    IN  CASE tag("var") /\ U32(2) -> Leaf(2, [k |-> "var", idx |-> Tok(2), n |-> 0])
          [] tag("int") /\ BigintOk(2) -> Leaf(After(2) - 1, [k |-> "int", int |-> Bigint(2), n |-> 0])
          [] tag("rat") /\ BigintOk(2) /\ BigintOk(After(2)) ->
               LET num == Bigint(2) den == Bigint(After(2))
               IN  IF den > 0 /\ Coprime(magnitude(num), den)
                   THEN Leaf(After(After(2)) - 1, [k |-> "rat", num |-> num, den |-> den, n |-> 0]) ELSE Bad
          [] tag("bool") /\ Have(2) /\ Tok(2) <= 1 -> Leaf(2, [k |-> "bool", bool |-> Tok(2) = 1, n |-> 0])
          [] tag("lam") -> Branch(1, [k |-> "lam", n |-> 1], <<kid(1), ofTy>>)
          [] tag("app") -> Branch(1, [k |-> "app", n |-> 2], <<kid(2), kid(1)>>)
          [] tag("let") -> Branch(1, [k |-> "let", n |-> 2], <<kid(2), kid(1), ofTy>>)
          [] tag("if") -> Branch(1, [k |-> "if", n |-> 3], <<kid(3), kid(2), kid(1)>>)
          [] OTHER -> readListed(at)

\* The number of arguments or of arms comes after the types or the scrutinee.
readArgs(at, from) ==
    IF ~U32(1) THEN Bad
    ELSE [n |-> 1, made |-> Tok(1), node |-> [out[at] EXCEPT !.n = from - 1 + Tok(1)],
          tasks |-> Children("term", at, from, Tok(1))]

readField(at) == IF Have(1) THEN Leaf(1, [out[at] EXCEPT !.op = Tok(1)]) ELSE Bad

\* The magic, the kind and the type variables; then the constructors, or type, body and properties.
readDef ==
    LET ok == U32(4) /\ Tok(1) = encMagic[1] /\ Tok(2) = encMagic[2]
        lists(n) == [i \in 1 .. n |-> Owing("ctor", Append(Root, n + 1 - i))]
    IN  CASE ok /\ Tok(3) = tagDef["data"] /\ U32(5) ->
               Branch(5, [k |-> "data", tyvars |-> Tok(4), n |-> Tok(5)], lists(Tok(5)))
          [] ok /\ Tok(3) = tagDef["func"] ->
               Branch(4, [k |-> "func", tyvars |-> Tok(4), n |-> 0],
                      <<Owing("props", Root), Owing("term", Append(Root, 2)), Owing("ty", Append(Root, 1))>>)
          [] OTHER -> Bad

readProps ==
    IF ~U32(1) THEN Bad
    ELSE Branch(1, [out[Root] EXCEPT !.n = Tok(1)], [i \in 1 .. Tok(1) |-> Owing("prop", Append(Root, 3 + Tok(1) - i))])

\* The fields of a constructor; the binders of a property and then its body.
readTys(at, body) ==
    IF ~U32(1) THEN Bad ELSE Branch(1, [k |-> "tys", tys |-> Tok(1)], body \o TyList(at, Tok(1)))

-----------------------------------------------------------------------------
(* The loop. *)

Fill(p, node) == [q \in DOMAIN out \cup {p} |-> IF q = p THEN node ELSE out[q]]

Refuse(why) == err' = why /\ UNCHANGED <<b, pos, nodes, stack, out>>
Top == stack[Len(stack)]
Pop == SubSeq(stack, 1, Len(stack) - 1)

\* A node is charged where it is decoded, unless its parent paid for it.
chargeOwn(task) == IF task.kind \in {"ty", "term"} /\ ~task.prepaid THEN 1 ELSE 0

\* Mutant: a declared length is compared with the budget and not charged.
reserveNodesUnpaid(n) == 0
\* A declared length is charged before the slice is made.
reserveNodes(n) == n

\* A task charges, reads, reserves, fills its slot and leaves its tasks.
Perform(task, r) ==
    LET charged == nodes + chargeOwn(task)
    IN  CASE charged > maxCanonicalNodes -> Refuse("limit")
          [] charged <= maxCanonicalNodes /\ r.node.k = "bad" -> Refuse("malformed")
          [] OTHER ->
               IF charged + r.made > maxCanonicalNodes THEN Refuse("limit")
               ELSE /\ pos' = pos + r.n
                    /\ nodes' = charged + reserveNodes(r.made)
                    /\ stack' = Pop \o r.tasks
                    /\ out' = Fill(task.at, r.node)
                    /\ UNCHANGED <<b, err>>

ty == Top.kind = "ty" /\ Perform(Top, readTy(Top.at))
term == Top.kind = "term" /\ Perform(Top, readTerm(Top.at))
args == Top.kind = "args" /\ Perform(Top, readArgs(Top.at, Top.n))
field == Top.kind = "field" /\ Perform(Top, readField(Top.at))
def == Top.kind = "def" /\ Perform(Top, readDef)
props == Top.kind = "props" /\ Perform(Top, readProps)
tys == \/ Top.kind = "ctor" /\ Perform(Top, readTys(Top.at, <<>>))
       \/ Top.kind = "prop" /\ Perform(Top, readTys(Top.at, <<Owing("term", Append(Top.at, 0))>>))

Ascends(names, name) == names # <<>> => name > names[Len(names)]

\* A record entry: its name goes to the parent, then its type or term follows.
entry ==
    /\ Top.kind \in {"tyname", "name"}
    /\ LET parent == SubSeq(Top.at, 1, Len(Top.at) - 1)
           kind == IF Top.kind = "name" THEN "term" ELSE "ty"
       IN  IF Have(1) /\ Ascends(out[parent].names, Tok(1))
           THEN /\ pos' = pos + 1
                /\ stack' = Append(Pop, Task(kind, Top.at, TRUE, 0))
                /\ out' = [out EXCEPT ![parent].names = Append(@, Tok(1))]
                /\ UNCHANGED <<b, nodes, err>>
           ELSE Refuse("malformed")

\* Nothing is left to do: no byte may be left either, and the profile admits what was built.
decodeDef ==
    /\ stack = <<>>
    /\ err' = IF pos # Len(b) THEN "malformed" ELSE IF admit(out) THEN "ok" ELSE "limit"
    /\ UNCHANGED <<b, pos, nodes, stack, out>>

Next ==
    /\ err = ""
    /\ \/ decodeDef
       \/ stack # <<>> /\ (ty \/ term \/ args \/ field \/ def \/ props \/ tys \/ entry)

Spec == Init /\ [][Next]_vars

-----------------------------------------------------------------------------
(* Properties. *)

\* Types and terms that were decoded, and slots that were made for ones that were not yet.
Built == {p \in DOMAIN out \ {Root} : out[p].k # "tys"}
Promised == {i \in DOMAIN stack : stack[i].prepaid}

\* Every node is charged exactly once, and a slot of a declared collection before it is made: at
\* every step, however collections nest, what was built and what was promised is what was
\* paid for, within the budget.
PaidBeforeMade ==
    /\ nodes = Cardinality(Built) + Cardinality(Promised)
    /\ nodes <= maxCanonicalNodes
=============================================================================
