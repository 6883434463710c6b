------------------------------ MODULE Normalize ------------------------------
(***************************************************************************)
(* eNormalize of oath/canon.go: the confluent rewriting that discovery runs *)
(* on a definition's body before it looks for equivalent definitions.  The  *)
(* work stack holds nodes by their path; `src` is the (copied) body that is *)
(* read and `out` the term being built at the same paths.  A chain of one   *)
(* associative operator is rebuilt once, at its root: its inner nodes are   *)
(* `deferred`.  The rule for Float multiplication is left out, as floats    *)
(* are.                                                                     *)
(***************************************************************************)
EXTENDS Eval, Encode, SequencesExt

VARIABLES
    src,        \* the body
    out,        \* its normal form, as far as it is built
    work,       \* pending visits; the last is next
    deferred    \* paths of chain nodes that wait for their root

normVars == <<src, out, work, deferred>>

RECURSIVE At(_, _), Put(_, _, _)
At(t, p) == IF p = <<>> THEN t ELSE At(t.kids[Head(p)], Tail(p))
Put(t, p, u) == IF p = <<>> THEN u ELSE [t EXCEPT !.kids[Head(p)] = Put(@, Tail(p), u)]

-----------------------------------------------------------------------------
(* The rules. *)

commutativePrims == {"+", "*", "==", "and", "or"}
idempotentPrims == {"and", "or"}
Binary(t, ops) == t.k = "prim" /\ t.op \in ops /\ Len(t.kids) = 2

isACPrim(op, argTy) == op \in {"and", "or"} \/ (op \in {"+", "*"} /\ argTy.k \in {"int", "rat"})

\* The identity element of the operator, of any type.
acUnitLeaf(op, t) ==
    \/ op = "+" /\ ((t.k = "int" /\ t.int = 0) \/ (t.k = "rat" /\ t.num = 0))
    \/ op = "*" /\ ((t.k = "int" /\ t.int = 1) \/ (t.k = "rat" /\ t.num = 1 /\ t.den = 1))
    \/ op = "and" /\ t.k = "bool" /\ t.bool
    \/ op = "or" /\ t.k = "bool" /\ ~t.bool

acDropUnits(op, leaves) ==
    LET kept == SelectSeq(leaves, LAMBDA t : ~acUnitLeaf(op, t))
    IN  IF kept = <<>> THEN <<leaves[1]>> ELSE kept

\* The leaves of a chain of one operator, in source order.
RECURSIVE acFlatten(_, _)
acFlatten(op, args) ==
    FoldLeft(LAMBDA acc, t : acc \o (IF Binary(t, {op}) THEN acFlatten(op, t.kids) ELSE <<t>>), <<>>, args)

Dedup(s) == FoldLeft(LAMBDA acc, t : IF acc # <<>> /\ acc[Len(acc)] = t THEN acc ELSE Append(acc, t), <<>>, s)

\* The canonical chain of these leaves: no units, sorted by their bytes, nested to the right.
acRebuild(op, leaves) ==
    LET sorted == SortSeq(acDropUnits(op, leaves), LAMBDA t, u : LexLess(encTerm(t), encTerm(u)))
        chain == IF op \in idempotentPrims THEN Dedup(sorted) ELSE sorted
    IN  FoldRight(LAMBDA t, acc : [k |-> "prim", op |-> op, kids |-> <<t, acc>>],
                  SubSeq(chain, 1, Len(chain) - 1), chain[Len(chain)])

Doubled(t) == t.k = "prim" /\ t.op = "neg" /\ t.kids[1].k = "prim" /\ t.kids[1].op = "neg"
negInvolution(t) == IF Doubled(t) THEN t.kids[1].kids[1] ELSE t

\* A constant condition selects; a condition that is a value is dropped when the branches agree.
ifSelect(t) ==
    CASE t.kids[1].k = "bool" -> IF t.kids[1].bool THEN t.kids[2] ELSE t.kids[3]
      [] t.kids[1].k = "var" /\ compareTermsCanonical(t.kids[2], t.kids[3]) = 0 -> t.kids[2]
      [] OTHER -> t

\* fn x. (f x) is f when f is a variable other than x, or a definition that is a function.
etaReduce(t) ==
    LET b == t.kids[1]
        h == b.kids[1]
        redex == b.k = "app" /\ b.kids[2].k = "var" /\ b.kids[2].idx = 0
    IN  CASE redex /\ h.k = "var" /\ h.idx > 0 -> [h EXCEPT !.idx = @ - 1]
          [] redex /\ h.k = "ref" /\ h.hash \in DOMAIN Defs /\ Defs[h.hash].k = "func"
                /\ Defs[h.hash].body.k = "lam" -> h
          [] OTHER -> t

-----------------------------------------------------------------------------
(* The walk. *)

Item(at, ctx, exit, chainOp) == [at |-> at, ctx |-> ctx, exit |-> exit, chainOp |-> chainOp]
TyOf(ctx, t) == judge(Fresh, ctx, t, <<>>, NoTy).ty
\* What an arm sees: the fields of its constructor, when the scrutinee's type is known.
ArmCtx(ctx, t, i, scrut) ==
    IF scrut.k = "data" /\ GetDef(t.hash, "data") /\ i <= Len(Defs[t.hash].ctors)
    THEN ctx \o instCtorFields(scrut.hash, scrut.args, i - 1) ELSE ctx
ChildCtx(ctx, t, i) ==
    CASE t.k = "lam" \/ (t.k = "let" /\ i = 2) -> Append(ctx, t.ty)
      [] t.k = "match" /\ i > 1 -> ArmCtx(ctx, t, i - 1, TyOf(ctx, t.kids[1]))
      [] OTHER -> ctx

Next1 == work[Len(work)]
Rest == SubSeq(work, 1, Len(work) - 1)
Here == At(src, Next1.at)
Built == At(out, Next1.at)

Children(from, to, chainOp) ==
    [j \in 1 .. to - from + 1 |->
        LET i == to + 1 - j IN Item(Append(Next1.at, i), ChildCtx(Next1.ctx, Here, i), FALSE, chainOp)]

\* First visit: copy the node, schedule its children; the nodes with a second phase come back.
Descend ==
    LET chain == IF Binary(Here, commutativePrims) THEN Here.op ELSE ""
        again == IF Here.k \in {"lam", "if", "match", "prim"} THEN <<[Next1 EXCEPT !.exit = TRUE]>> ELSE <<>>
        last == IF Here.k = "match" THEN 1 ELSE Len(Here.kids)
    IN  /\ ~Next1.exit
        /\ out' = Put(out, Next1.at, Here)
        /\ work' = Rest \o again \o Children(1, last, chain)
        /\ UNCHANGED <<src, deferred>>

\* The scrutinee is done: its type is the context of the arms.
ExitMatch ==
    /\ Next1.exit /\ Here.k = "match"
    /\ work' = Rest \o Children(2, Len(Here.kids), "")
    /\ UNCHANGED <<src, out, deferred>>

ExitIf ==
    /\ Next1.exit /\ Here.k = "if"
    /\ out' = Put(out, Next1.at, ifSelect(Built))
    /\ work' = Rest /\ UNCHANGED <<src, deferred>>

ExitLam ==
    /\ Next1.exit /\ Here.k = "lam"
    /\ out' = Put(out, Next1.at, etaReduce(Built))
    /\ work' = Rest /\ UNCHANGED <<src, deferred>>

\* Mutant: the chain's root is taken for an inner node of the operator above it.
InnerNodeAny(chainOp, op) == chainOp # ""
\* The parent will flatten through this node.
InnerNode(chainOp, op) == chainOp = op

forceAC(t, at) == IF at \in deferred THEN acRebuild(t.op, acFlatten(t.op, t.kids)) ELSE t

\* Operands in the order of their bytes.
Ordered(kids) == IF compareTermsCanonical(kids[1], kids[2]) > 0 THEN <<kids[2], kids[1]>> ELSE kids

ExitPrim ==
    LET op == Here.op
        forced == [i \in DOMAIN Built.kids |-> forceAC(Built.kids[i], Append(Next1.at, i))]
    IN  /\ Next1.exit /\ Here.k = "prim"
        /\ work' = Rest /\ UNCHANGED src
        /\ CASE op = "neg" -> out' = Put(out, Next1.at, negInvolution(Built)) /\ UNCHANGED deferred
             [] Binary(Here, commutativePrims) ->
                  IF ~isACPrim(op, TyOf(Next1.ctx, Here.kids[1]))
                  THEN /\ out' = Put(out, Next1.at, [Built EXCEPT !.kids = Ordered(forced)])
                       /\ deferred' = deferred \ {Append(Next1.at, i) : i \in 1 .. 2}
                  ELSE IF InnerNode(Next1.chainOp, op) THEN deferred' = deferred \cup {Next1.at} /\ UNCHANGED out
                  ELSE out' = Put(out, Next1.at, acRebuild(op, acFlatten(op, Built.kids))) /\ UNCHANGED deferred
             [] OTHER -> UNCHANGED <<out, deferred>>

StartNormalize(body) ==
    /\ src = body /\ out = body /\ deferred = {}
    /\ work = <<Item(<<>>, <<>>, FALSE, "")>>

eNormalize == work # <<>> /\ (Descend \/ ExitMatch \/ ExitIf \/ ExitLam \/ ExitPrim)

-----------------------------------------------------------------------------
\* Every node rebuilt where it stands, its children first: what deferring is measured against.
OracleAt(ctx, t, n) ==
    CASE t.k = "if" -> ifSelect(n)
      [] t.k = "lam" -> etaReduce(n)
      [] t.k = "prim" /\ t.op = "neg" -> negInvolution(n)
      [] Binary(t, commutativePrims) ->
           IF isACPrim(t.op, TyOf(ctx, t.kids[1])) THEN acRebuild(t.op, acFlatten(t.op, n.kids))
           ELSE [n EXCEPT !.kids = Ordered(@)]
      [] OTHER -> n
RECURSIVE Oracle(_, _)
Oracle(ctx, t) ==
    OracleAt(ctx, t, [t EXCEPT !.kids = [i \in DOMAIN @ |-> Oracle(ChildCtx(ctx, t, i), @[i])]])
=============================================================================
