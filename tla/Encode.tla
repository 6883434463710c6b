-------------------------------- MODULE Encode --------------------------------
(***************************************************************************)
(* The canonical encoding "O1" of oath/canon.go: what a definition's hash   *)
(* is taken over, and the order discovery sorts by.  An encoding is a       *)
(* sequence of numbers: a tag, a count, a digest or a name is one number    *)
(* (its bytes have a fixed width or follow their length), an integer is its *)
(* sign, its length and its digits.  IEEE floats are left out.              *)
(***************************************************************************)
EXTENDS Kernel, Tags

CONSTANTS
    HashNum,        \* hash -> number: the digests in byte order (SHA-256, external)
    FirstWindow     \* how much of two encodings is compared first

ASSUME EncodeAssumption == FirstWindow \in Nat /\ FirstWindow > 0

OpNum == [op \in {OpName(n) : n \in 0 .. 63} |-> CHOOSE n \in 0 .. 63 : OpName(n) = op]

\* Digits of a magnitude, most significant first; none for zero.
digits[n \in Nat] == IF n = 0 THEN <<>> ELSE Append(digits[n \div Base], n % Base)
encBigint(n) == <<IF n < 0 THEN 1 ELSE 0, Len(digits[magnitude(n)])>> \o digits[magnitude(n)]

RECURSIVE Concat(_)
Concat(ss) == IF ss = <<>> THEN <<>> ELSE Head(ss) \o Concat(Tail(ss))

RECURSIVE encTy(_)
encTy(t) ==
    LET args == Concat([i \in DOMAIN t.args |-> encTy(t.args[i])])
    IN  <<tagTy[t.k]>> \o
        CASE t.k \in Atoms -> <<>>
          [] t.k = "var" -> <<t.var>>
          [] t.k = "fun" -> encTy(t.a) \o encTy(t.b)
          [] t.k = "data" -> <<HashNum[t.hash], Len(t.args)>> \o args
          [] t.k = "rec" -> <<Len(t.args)>> \o args
          [] t.k = "record" -> <<Len(t.names)>> \o Concat([i \in DOMAIN t.args |-> <<t.names[i]>> \o encTy(t.args[i])])

encTys(ts) == <<Len(ts)>> \o Concat([i \in DOMAIN ts |-> encTy(ts[i])])

RECURSIVE encTerm(_)
encTerm(t) ==
    LET kids == Concat([i \in DOMAIN t.kids |-> encTerm(t.kids[i])])
    IN  <<tagTm[t.k]>> \o
        CASE t.k = "var" -> <<t.idx>>
          [] t.k = "int" -> encBigint(t.int)
          [] t.k = "rat" -> encBigint(t.num) \o encBigint(t.den)
          [] t.k = "bool" -> <<IF t.bool THEN 1 ELSE 0>>
          [] t.k \in {"lam", "let"} -> encTy(t.ty) \o kids
          [] t.k \in {"app", "if"} -> kids
          [] t.k = "prim" -> <<OpNum[t.op], Len(t.kids)>> \o kids
          [] t.k = "ref" -> <<HashNum[t.hash]>> \o encTys(t.tyargs)
          [] t.k = "self" -> encTys(t.tyargs)
          [] t.k = "ctor" -> <<HashNum[t.hash], t.idx>> \o encTys(t.tyargs) \o <<Len(t.kids)>> \o kids
          [] t.k = "match" -> <<HashNum[t.hash]>> \o encTerm(t.kids[1]) \o <<Len(t.kids) - 1>>
                              \o Concat([i \in 1 .. Len(t.kids) - 1 |-> encTerm(t.kids[i + 1])])
          [] t.k = "record" -> <<Len(t.names)>> \o Concat([i \in DOMAIN t.kids |-> <<t.names[i]>> \o encTerm(t.kids[i])])
          [] t.k = "field" -> kids \o <<t.op>>

encodeDef(d) ==
    encMagic \o <<tagDef[d.k], d.tyvars>> \o
    IF d.k = "data" THEN <<Len(d.ctors)>> \o Concat([i \in DOMAIN d.ctors |-> encTys(d.ctors[i])])
    ELSE encTy(d.ty) \o encTerm(d.body) \o <<Len(d.props)>>
         \o Concat([i \in DOMAIN d.props |-> encTys(d.props[i].binders) \o encTerm(d.props[i].body)])

\* bytes.Compare: a proper prefix comes first.
LexLess(a, b) ==
    \/ \E i \in DOMAIN a \cap DOMAIN b : a[i] < b[i] /\ \A j \in 1 .. i - 1 : a[j] = b[j]
    \/ Len(a) < Len(b) /\ \A j \in DOMAIN a : a[j] = b[j]

\* The encoder stops after `limit` numbers; only what both sides wrote can decide.
RECURSIVE compareWithin(_, _, _)
compareWithin(x, y, limit) ==
    LET n == CHOOSE m \in {Len(x), Len(y), limit} : m <= Len(x) /\ m <= Len(y) /\ m <= limit
        px == SubSeq(x, 1, n)
        py == SubSeq(y, 1, n)
    IN  CASE LexLess(px, py) -> -1
          [] LexLess(py, px) -> 1
          [] px = py /\ Len(x) <= limit /\ Len(y) <= limit -> IF x = y THEN 0 ELSE IF LexLess(x, y) THEN -1 ELSE 1
          [] OTHER -> compareWithin(x, y, 2 * limit)

compareTermsCanonical(t, u) == compareWithin(encTerm(t), encTerm(u), FirstWindow)

-----------------------------------------------------------------------------
(* Size. *)

SumOver(n) == LET sum[i \in 0 .. Len(n)] == IF i = 0 THEN 0 ELSE sum[i - 1] + n[i] IN sum[Len(n)]

RECURSIVE tyNodes(_)
tyNodes(t) ==
    1 + (IF t.k = "fun" THEN tyNodes(t.a) + tyNodes(t.b) ELSE 0)
      + (IF HasArgs(t) THEN SumOver([i \in DOMAIN t.args |-> tyNodes(t.args[i])]) ELSE 0)
tysNodes(ts) == SumOver([i \in DOMAIN ts |-> tyNodes(ts[i])])

RECURSIVE termNodes(_)
termNodes(t) ==
    1 + SumOver([i \in DOMAIN t.kids |-> termNodes(t.kids[i])])
      + (IF "ty" \in DOMAIN t THEN tyNodes(t.ty) ELSE 0)
      + (IF "tyargs" \in DOMAIN t THEN tysNodes(t.tyargs) ELSE 0)

countCanonicalNodes(d) ==
    IF d.k = "data" THEN SumOver([i \in DOMAIN d.ctors |-> tysNodes(d.ctors[i])])
    ELSE tyNodes(d.ty) + termNodes(d.body)
         + SumOver([i \in DOMAIN d.props |-> tysNodes(d.props[i].binders) + termNodes(d.props[i].body)])

admitDef(d, max) == countCanonicalNodes(d) <= max /\ d.tyvars \in 0 .. max
=============================================================================
