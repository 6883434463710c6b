-------------------------------- MODULE Egraph --------------------------------
(***************************************************************************)
(* The bounded e-graph of oath/egraph.go that discovery runs after          *)
(* eNormalize: distribution and factoring over Int and Rat have no normal   *)
(* form to rewrite to, so a set of equal terms is grown until nothing       *)
(* changes or the budget is spent, and its cheapest term is taken.          *)
(*                                                                          *)
(* A class is the number of the node that created it (add appends one class *)
(* for one node), so nodeCls[i] is find(i), and the hash-cons table holds   *)
(* exactly the stored nodes: looking a node up is looking for an equal one. *)
(***************************************************************************)
EXTENDS Normalize

CONSTANTS
    Bodies,             \* bodies of closed definitions, with their types
    egNodes, egIters,   \* the budget
    egMaxTermNodes,
    SampleInts          \* the integers the meaning of a term is sampled at

VARIABLES
    body,       \* the definition, with the form its class is known to have
    force,      \* build the graph even where the survey sees nothing to do
    phase,      \* "normalize", "saturate", "extract", "done"
    g,          \* [parent, nodes, exhausted]
    root,       \* the class of the body
    todo,       \* [nid, cls] still to match in this round
    roundIndex, \* class -> its nodes when the round began
    iter, changed,
    best,       \* class -> [cost, term]
    passes,
    result      \* the term that is hashed

vars == <<selfTy, normVars, body, force, phase, g, root, todo, roundIndex, iter, changed, best, passes, result>>
graphVars == <<g, root, todo, roundIndex, iter, changed, best, passes, result>>

-----------------------------------------------------------------------------
(* The graph. *)

newEgraph == [parent |-> <<>>, nodes |-> <<>>, exhausted |-> FALSE]

RECURSIVE find(_, _)
find(gr, c) == IF gr.parent[c] = c THEN c ELSE find(gr, gr.parent[c])

\* The smaller class survives.
union(gr, a, b) ==
    LET ra == find(gr, a) rb == find(gr, b)
    IN  [gr EXCEPT !.parent[IF ra < rb THEN rb ELSE ra] = IF ra < rb THEN ra ELSE rb]
Joined(gr, a, b) == find(gr, a) = find(gr, b)

Hole == [k |-> "bool", bool |-> FALSE, kids |-> <<>>]
acNode(op, tag, args) == [ac |-> TRUE, op |-> op, tag |-> tag, tmpl |-> Hole, args |-> args]
SameSym(n, op, tag) == n.ac /\ n.op = op /\ n.tag = tag

\* The arguments of an AC node are a multiset.
canon(gr, n) ==
    LET args == [i \in DOMAIN n.args |-> find(gr, n.args[i])]
    IN  [n EXCEPT !.args = IF n.ac THEN SortSeq(args, LAMBDA a, b : a < b) ELSE args]

\* [g, c, ok]: hash-consed; ok is false when the budget is spent.
add(gr, node) ==
    LET n == canon(gr, node)
        same == {i \in DOMAIN gr.nodes : gr.nodes[i] = n}
        new == Len(gr.nodes) + 1
    IN  CASE n.ac /\ Len(n.args) = 1 -> [g |-> gr, c |-> n.args[1], ok |-> TRUE]
          [] same # {} -> [g |-> gr, c |-> find(gr, Min(same)), ok |-> TRUE]
          [] Len(gr.nodes) >= egNodes -> [g |-> [gr EXCEPT !.exhausted = TRUE], c |-> 0, ok |-> FALSE]
          [] OTHER -> [g |-> [gr EXCEPT !.parent = Append(@, new), !.nodes = Append(@, n)], c |-> new, ok |-> TRUE]

\* Several nodes, in order; the classes they got.
addAll(gr, nodes) ==
    FoldLeft(LAMBDA st, n : IF ~st.ok THEN st
                            ELSE LET r == add(st.g, n) IN [g |-> r.g, cs |-> Append(st.cs, r.c), ok |-> r.ok],
             [g |-> gr, cs |-> <<>>, ok |-> TRUE], nodes)

\* One pass of congruence: nodes that have become equal have their classes joined.
RebuildPass(gr) ==
    FoldLeft(LAMBDA st, i :
               LET n == canon(st.g, st.g.nodes[i])
                   g1 == [st.g EXCEPT !.nodes[i] = n]
                   earlier == {j \in 1 .. i - 1 : g1.nodes[j] = n}
               IN  IF earlier = {} \/ Joined(g1, Min(earlier), i) THEN [st EXCEPT !.g = g1]
                   ELSE [g |-> union(g1, Min(earlier), i), changed |-> TRUE],
             [g |-> gr, changed |-> FALSE], [i \in DOMAIN gr.nodes |-> i])

RECURSIVE rebuild(_)
rebuild(gr) == LET r == RebuildPass(gr) IN IF r.changed THEN rebuild(r.g) ELSE r.g

-----------------------------------------------------------------------------
(* From a term to a graph. *)

Tag(ctx, t) ==
    IF ~Binary(t, {"+", "*"}) THEN ""
    ELSE IF TyOf(ctx, t.kids[1]) = tInt THEN "int"
    ELSE IF TyOf(ctx, t.kids[1]) = tRat THEN "rat" ELSE ""

RECURSIVE egAnnotate(_, _)
egAnnotate(ctx, t) ==
    {tag \in {Tag(ctx, t)} : tag # ""} \cup UNION {egAnnotate(ChildCtx(ctx, t, i), t.kids[i]) : i \in DOMAIN t.kids}

egShape(t) == [t EXCEPT !.kids = [i \in DOMAIN @ |-> Hole]]

\* [g, c, ok]: the children first; a chain of an exact AC operator is one node over its leaves.
RECURSIVE insert(_, _, _)
insertAll(gr, kids) ==
    FoldLeft(LAMBDA st, kid : IF ~st.ok THEN st
                              ELSE LET r == insert(st.g, kid.ctx, kid.t)
                                   IN  [g |-> r.g, cs |-> Append(st.cs, r.c), ok |-> r.ok],
             [g |-> gr, cs |-> <<>>, ok |-> TRUE], kids)
insertNode(below, t, tag) ==
    IF ~below.ok THEN [g |-> below.g, c |-> 0, ok |-> FALSE]
    ELSE add(below.g, IF tag # "" THEN acNode(t.op, tag, below.cs)
                      ELSE [ac |-> FALSE, op |-> "", tag |-> "", tmpl |-> egShape(t), args |-> below.cs])
Leaf(ctx, t) == [t |-> t, ctx |-> ctx]
insertTagged(gr, ctx, t, tag) ==
    LET leaves == acFlatten(t.op, <<t>>)
    IN  insertNode(insertAll(gr, IF tag = "" THEN [i \in DOMAIN t.kids |-> Leaf(ChildCtx(ctx, t, i), t.kids[i])]
                                 ELSE [i \in DOMAIN leaves |-> Leaf(ctx, leaves[i])]), t, tag)
insert(gr, ctx, t) == insertTagged(gr, ctx, t, Tag(ctx, t))

\* Can distribution or factoring apply anywhere? Asked once for each maximal chain.
RECURSIVE arithIn(_, _)
arithIn(t, chainOp) ==
    LET chain == IF Binary(t, {"+", "*"}) THEN t.op ELSE ""
        leaves == acFlatten(t.op, <<t>>)
        hits(op) == {i \in DOMAIN leaves : Binary(leaves[i], {op})}
    IN  \/ chain = "*" /\ chainOp # "*" /\ hits("+") # {}
        \/ chain = "+" /\ chainOp # "+" /\ Cardinality(hits("*")) >= 2
        \/ \E i \in DOMAIN t.kids : arithIn(t.kids[i], chain)

RECURSIVE termSize(_)
termSize(t) == 1 + SumOver([i \in DOMAIN t.kids |-> termSize(t.kids[i])])

-----------------------------------------------------------------------------
(* The rules: a step is [g, changed, stop]. *)

Without(s, i) == SubSeq(s, 1, i - 1) \o SubSeq(s, i + 1, Len(s))
Stopped(st, gr) == [st EXCEPT !.g = gr, !.stop = TRUE]
UnionIn(st, gr, c, cls) ==
    [st EXCEPT !.g = union(gr, c, cls), !.changed = @ \/ ~Joined(gr, c, cls)]
Members(st, a) == LET c == find(st.g, a) IN IF c \in DOMAIN roundIndex THEN roundIndex[c] ELSE <<>>

\* Apply Rule to every argument i of n and every node of its class that has the symbol, in order.
ForEach(st0, n, op, Rule(_, _, _)) ==
    FoldLeft(LAMBDA st, i :
               FoldLeft(LAMBDA s, mid : IF s.stop \/ ~SameSym(s.g.nodes[mid], op, n.tag) THEN s
                                        ELSE Rule(s, i, s.g.nodes[mid]),
                        st, Members(st, n.args[i])),
             st0, [i \in DOMAIN n.args |-> i])

ruleFlatten(st0, n, cls) ==
    ForEach(st0, n, n.op, LAMBDA st, i, m :
        LET r == add(st.g, acNode(n.op, n.tag, Without(n.args, i) \o m.args))
        IN  IF ~r.ok THEN Stopped(st, r.g) ELSE UnionIn(st, r.g, r.c, cls))

\* Mutant: the last addend loses the other factors.
ruleDistributeShort(st0, n, cls) ==
    ForEach(st0, n, "+", LAMBDA st, i, s :
        LET ps == addAll(st.g, [j \in 1 .. Len(s.args) - 1 |-> acNode("*", n.tag, Append(Without(n.args, i), s.args[j]))])
            r == add(ps.g, acNode("+", n.tag, Append(ps.cs, s.args[Len(s.args)])))
        IN  IF ~ps.ok THEN Stopped(st, ps.g)
            ELSE IF ~r.ok THEN Stopped(st, r.g) ELSE UnionIn(st, r.g, r.c, cls))
ruleDistribute(st0, n, cls) ==
    ForEach(st0, n, "+", LAMBDA st, i, s :
        LET ps == addAll(st.g, [j \in DOMAIN s.args |-> acNode("*", n.tag, Append(Without(n.args, i), s.args[j]))])
            r == add(ps.g, acNode("+", n.tag, ps.cs))
        IN  IF ~ps.ok THEN Stopped(st, ps.g)
            ELSE IF ~r.ok THEN Stopped(st, r.g) ELSE UnionIn(st, r.g, r.c, cls))

\* Factors in the order they are met, each with the addends that offer it: [factor, uses: <<i, product>>].
Candidates(st, n) ==
    LET offers == FoldLeft(LAMBDA acc, i :
                      FoldLeft(LAMBDA a, pid :
                          IF ~SameSym(st.g.nodes[pid], "*", n.tag) THEN a
                          ELSE FoldLeft(LAMBDA b, f :
                                   IF \E j \in DOMAIN b : b[j].i = i /\ b[j].f = f THEN b
                                   ELSE Append(b, [i |-> i, f |-> f, p |-> st.g.nodes[pid]]),
                               a, st.g.nodes[pid].args),
                      acc, Members(st, n.args[i])),
                  <<>>, [i \in DOMAIN n.args |-> i])
        isFirst(j) == \A l \in 1 .. j - 1 : offers[l].f # offers[j].f
    IN  [c \in DOMAIN SelectSeq([j \in DOMAIN offers |-> j], isFirst) |->
            LET f == offers[SelectSeq([j \in DOMAIN offers |-> j], isFirst)[c]].f
            IN  [factor |-> f, uses |-> SelectSeq(offers, LAMBDA o : o.f = f)]]

IndexOf(s, x) == Min({i \in DOMAIN s : s[i] = x})

\* The factor is taken out of every addend that offers it; the others stay.
ruleFactor(st0, n, cls) ==
    FoldLeft(LAMBDA st, c :
        LET qs == addAll(st.g, [j \in DOMAIN c.uses |-> acNode("*", n.tag, Without(c.uses[j].p.args, IndexOf(c.uses[j].p.args, c.factor)))])
            sum == add(qs.g, acNode("+", n.tag, qs.cs))
            prod == add(sum.g, acNode("*", n.tag, <<c.factor, sum.c>>))
            support == {c.uses[j].i : j \in DOMAIN c.uses}
            rest == SelectSeq([i \in DOMAIN n.args |-> i], LAMBDA i : i \notin support)
            res == add(prod.g, acNode("+", n.tag, <<prod.c>> \o [i \in DOMAIN rest |-> n.args[rest[i]]]))
        IN  CASE st.stop \/ Len(c.uses) < 2 -> st
              [] ~qs.ok -> Stopped(st, qs.g)
              [] ~sum.ok -> Stopped(st, sum.g)
              [] ~prod.ok -> Stopped(st, prod.g)
              [] ~res.ok -> Stopped(st, res.g)
              [] OTHER -> UnionIn(st, res.g, res.c, cls),
        st0, Candidates(st0, n))

\* Both rules that a node takes part in; a spent budget ends the first and not the second.
ApplyRules(gr, nid, cls) ==
    LET n == gr.nodes[nid]
        flat == ruleFlatten([g |-> gr, changed |-> FALSE, stop |-> FALSE], n, cls)
        again == [flat EXCEPT !.stop = FALSE]
    IN  IF n.op = "*" THEN ruleDistribute(again, n, cls) ELSE ruleFactor(again, n, cls)

-----------------------------------------------------------------------------
(* The pass. *)

Classes(gr) == SelectSeq([i \in DOMAIN gr.nodes |-> i], LAMBDA i : find(gr, i) = i)
members(gr) ==
    [c \in {find(gr, i) : i \in DOMAIN gr.nodes} |->
        SelectSeq([i \in DOMAIN gr.nodes |-> i], LAMBDA i : find(gr, i) = c)]

Init ==
    /\ body \in Bodies /\ force \in BOOLEAN
    /\ selfTy = body.ty
    /\ StartNormalize(body.t)
    /\ phase = "normalize"
    /\ g = newEgraph /\ root = 0 /\ todo = <<>> /\ roundIndex = <<>>
    /\ iter = 0 /\ changed = TRUE
    /\ best = <<>> /\ passes = 0 /\ result = Hole

NormalizeStep ==
    /\ phase = "normalize" /\ eNormalize
    /\ UNCHANGED <<selfTy, body, force, phase, graphVars>>

Finish(t) == result' = t /\ phase' = "done"

\* The survey, the types, the initial graph; the normalized term when one of them declines.
eCanonicalArith ==
    /\ phase = "normalize" /\ work = <<>>
    /\ IF termSize(out) > egMaxTermNodes \/ ~(arithIn(out, "") \/ force) \/ egAnnotate(<<>>, out) = {}
       THEN Finish(out) /\ UNCHANGED <<g, root>>
       ELSE \E ins \in {insert(newEgraph, <<>>, out)} :
               IF ~ins.ok THEN Finish(out) /\ g' = ins.g /\ UNCHANGED root
               ELSE g' = rebuild(ins.g) /\ root' = ins.c /\ phase' = "saturate" /\ UNCHANGED result
    /\ UNCHANGED <<selfTy, normVars, body, force, todo, roundIndex, iter, changed, best, passes>>

\* A round reads the classes as they are when it begins.
BeginRound ==
    /\ phase = "saturate" /\ todo = <<>>
    /\ IF changed /\ iter < egIters /\ ~g.exhausted
       THEN LET index == members(g)
            IN  /\ roundIndex' = index
                /\ todo' = FoldLeft(LAMBDA acc, c : acc \o [j \in DOMAIN index[c] |-> [nid |-> index[c][j], cls |-> c]],
                                    <<>>, Classes(g))
                /\ iter' = iter + 1 /\ changed' = FALSE
                /\ UNCHANGED phase
       ELSE phase' = "extract" /\ UNCHANGED <<todo, roundIndex, iter, changed>>
    /\ UNCHANGED <<selfTy, normVars, body, force, g, root, best, passes, result>>

\* At the end of a round, or where the budget is spent, congruence is restored.
AfterRound(gr, last) == IF last \/ gr.exhausted THEN rebuild(gr) ELSE gr

MatchNode ==
    /\ phase = "saturate" /\ todo # <<>>
    /\ \E m \in {Head(todo)} :
       \E st \in {IF g.nodes[m.nid].ac THEN ApplyRules(g, m.nid, m.cls) ELSE [g |-> g, changed |-> FALSE]} :
          /\ g' = AfterRound(st.g, Len(todo) = 1)
          /\ changed' = (changed \/ st.changed)
          /\ todo' = IF st.g.exhausted THEN <<>> ELSE Tail(todo)
    /\ UNCHANGED <<selfTy, normVars, body, force, phase, root, roundIndex, iter, best, passes, result>>

build(n, kids) == IF n.ac THEN acRebuild(n.op, kids) ELSE [n.tmpl EXCEPT !.kids = kids]

\* A chain of n terms is n - 1 nodes.
nodeCost(n) == IF n.ac THEN Len(n.args) - 1 ELSE 1

\* Mutant: the first of the cheapest terms is kept, which depends on how the term was written.
ConsiderFirst(bst, cls, n) ==
    LET kids == [j \in DOMAIN n.args |-> bst[find(g, n.args[j])]]
        cost == nodeCost(n) + SumOver([j \in DOMAIN n.args |-> kids[j].cost])
    IN  IF \E j \in DOMAIN n.args : find(g, n.args[j]) \notin DOMAIN bst THEN bst
        ELSE IF cls \notin DOMAIN bst \/ cost < bst[cls].cost
        THEN (cls :> [cost |-> cost, term |-> build(n, [j \in DOMAIN n.args |-> kids[j].term])]) @@ bst ELSE bst
\* The best term of a class after a node is considered: cheaper, or as cheap and smaller in bytes.
Consider(bst, cls, n) ==
    LET kids == [j \in DOMAIN n.args |-> bst[find(g, n.args[j])]]
        cost == nodeCost(n) + SumOver([j \in DOMAIN n.args |-> kids[j].cost])
        t == build(n, [j \in DOMAIN n.args |-> kids[j].term])
        old == bst[cls]
    IN  IF \E j \in DOMAIN n.args : find(g, n.args[j]) \notin DOMAIN bst THEN bst
        ELSE IF cls \notin DOMAIN bst THEN (cls :> [cost |-> cost, term |-> t]) @@ bst
        ELSE IF cost < old.cost \/ (cost = old.cost /\ LexLess(encTerm(t), encTerm(old.term)))
        THEN [bst EXCEPT ![cls] = [cost |-> cost, term |-> t]] ELSE bst

\* One relaxation pass; the normalized term when it does not converge.
extract ==
    LET index == members(g)
        relaxed == FoldLeft(LAMBDA acc, c : FoldLeft(LAMBDA b, nid : Consider(b, c, g.nodes[nid]), acc, index[c]),
                            best, Classes(g))
    IN  /\ phase = "extract"
        /\ IF passes >= Cardinality(DOMAIN index) + 2 THEN Finish(out) /\ UNCHANGED <<best, passes>>
           ELSE IF relaxed = best
           THEN Finish(IF find(g, root) \in DOMAIN best THEN best[find(g, root)].term ELSE out) /\ UNCHANGED <<best, passes>>
           ELSE best' = relaxed /\ passes' = passes + 1 /\ UNCHANGED <<phase, result>>
        /\ UNCHANGED <<selfTy, normVars, body, force, g, root, todo, roundIndex, iter, changed>>

Next == NormalizeStep \/ eCanonicalArith \/ BeginRound \/ MatchNode \/ extract

Spec == Init /\ [][Next]_vars

-----------------------------------------------------------------------------
(* Properties. *)

\* Errors are not told apart, nor are functions.
SameMeaning(a, b) ==
    /\ (a.err = "") = (b.err = "")
    /\ a.err = "" /\ a.v.k # "closure" => a.v = b.v

RECURSIVE Applied(_, _)
Applied(t, args) == IF args = <<>> THEN t ELSE Applied([k |-> "app", kids |-> <<t, Head(args)>>], Tail(args))
Inputs == {[i \in 1 .. body.params |-> [k |-> "int", int |-> f[i], kids |-> <<>>]] : f \in [1 .. body.params -> SampleInts]}

\* KeySound: the class representative computes what the definition computes, on every input, and fails
\* where it fails: a divisor of zero in a dropped condition or operand would change that.
KeySound ==
    phase = "done" =>
        \A args \in Inputs : SameMeaning(Means(<<>>, src, Applied(src, args)), Means(<<>>, src, Applied(result, args)))

\* Leaving the inner nodes of a chain to its root builds the term that rebuilding each of them
\* builds, whatever lies between two chains of one operator, and leaves none unresolved.
DeferralHarmless == phase # "normalize" => out = Oracle(<<>>, src)

RECURSIVE Rep(_)
Rep(c) == build(g.nodes[c], [i \in DOMAIN g.nodes[c].args |-> Rep(find(g, g.nodes[c].args[i]))])
Envs == [1 .. body.depth -> {vInt(n) : n \in SampleInts}]

\* At every step of saturation, also in the middle of a round and where the budget ran out, the
\* nodes of one class have one value.
ClassesEqual ==
    \A i \in DOMAIN g.nodes :
        g.nodes[i].ac /\ phase # "done" =>
            \A env \in Envs :
                SameMeaning(Means(env, src, Rep(find(g, i))),
                            Means(env, src, build(g.nodes[i], [j \in DOMAIN g.nodes[i].args |-> Rep(find(g, g.nodes[i].args[j]))])))

\* Definitions that are put in one class compute the same, and so do the terms an interrupted
\* saturation has put together so far.
EquivalenceSound == KeySound /\ ClassesEqual

\* Two ways to write one function meet: the definition gets the representative of its class,
\* however it was written, when the budget is not spent.
FormsMeet == phase = "done" /\ body.canon.k # "none" /\ ~g.exhausted => result = body.canon

\* Where the survey sees nothing to do, doing it anyway changes nothing.
SurveyMissesNothing == phase = "done" /\ force /\ ~arithIn(out, "") => result = out

\* What is skipped for speed, inner nodes of chains and terms without arithmetic, changes no key.
ShortcutsHarmless == DeferralHarmless /\ SurveyMissesNothing
=============================================================================
