----------------------------- MODULE MCPublish -----------------------------
(* Files of up to MaxForms different forms of a pool that exercises each rule, and *)
(* files of one more of its core.                                                *)
EXTENDS Publish

CONSTANT MaxForms   \* bound: forms in a file, core files having one more

B(x) == [ns |-> "", id |-> x]
N(x) == [ns |-> "n", id |-> x]

Form(kind, name, code) ==
    [kind |-> kind, name |-> name, code |-> code, tyvars |-> {}, locals |-> {}, words |-> {},
     ctors |-> <<>>, types |-> <<>>, ptypes |-> <<>>, refs |-> <<>>, sugar |-> <<>>]

MCBuiltins == {B("Int")}
MCReserved == {B("let")}
MCNameOrder == <<B("D"), B("Int"), B("O"), B("P"), B("f"), B("g"), B("h"), B("let"), N("D"), N("P"), N("f"), N("g"), N("h"), N("let")>>

Pool == {
    \* datatypes: one plain, one over another datatype, one that shares a constructor
    [Form("data", B("P"), "p") EXCEPT !.ctors = <<B("MkP")>>, !.types = <<B("Int")>>],
    [Form("data", B("P"), "po") EXCEPT !.ctors = <<B("MkP"), B("f")>>, !.types = <<B("O")>>],
    [Form("data", B("D"), "d") EXCEPT !.ctors = <<B("MkP")>>, !.types = <<B("P")>>],
    \* aliases: of a datatype, of an alias, of a parameter spelled like a datatype
    [Form("type", B("A"), "") EXCEPT !.types = <<B("P")>>],
    [Form("type", B("C"), "") EXCEPT !.types = <<B("A"), B("Int")>>],
    [Form("type", B("A"), "") EXCEPT !.types = <<B("P")>>, !.tyvars = {B("P")}],
    \* functions: over an alias, with a type variable spelled like one, a recursive one
    [Form("defn", B("f"), "f1") EXCEPT !.types = <<B("A")>>],
    [Form("defn", B("f"), "f2") EXCEPT !.types = <<B("A"), B("C")>>, !.ptypes = <<B("Int")>>, !.tyvars = {B("A")}],
    [Form("defn", B("g"), "g1") EXCEPT !.types = <<B("Int")>>, !.refs = <<B("f"), B("g")>>, !.words = {B("let")}],
    [Form("defn", B("g"), "g2") EXCEPT !.refs = <<B("MkP"), N("f")>>, !.ptypes = <<B("P")>>],
    \* a function with a literal
    [Form("defn", B("h"), "h") EXCEPT !.sugar = <<B("MkP")>>],
    \* a function named like a keyword
    [Form("defn", B("let"), "l") EXCEPT !.refs = <<B("MkO")>>, !.types = <<B("C")>>, !.locals = {B("g")}]}

\* The forms of which longer files are made: what chains through aliases, references,
\* constructors and literals.
Core == {f \in Pool : f.code \in {"p", "f1", "g1", "g2", "h", "l"} \/ (f.kind = "type" /\ f.tyvars = {})}

Lists(S, n) == {fs \in [1..n -> S] : IsInjective(fs)}
MCFiles == UNION {Lists(Pool, n) : n \in 1..MaxForms} \cup Lists(Core, MaxForms + 1)

Obj(kind, code) == [k |-> kind, code |-> code, tys |-> <<>>, ptys |-> <<>>, refs |-> <<>>]
DataO == [obj |-> Obj("data", "o"), ctors |-> <<B("MkO")>>]
FuncF == [obj |-> Obj("func", "oldf"), ctors |-> <<>>]
\* What the author has put already: the object of the pool's plain datatype.
PutP  == [obj |-> [Obj("data", "p") EXCEPT !.tys = <<[k |-> "builtin", id |-> "Int"]>>], ctors |-> <<B("MkP")>>]

\* The registry knows nothing, everything, or all but what constructs O.
MCPublished == {{}, Range(MCNameOrder), {N("f"), B("f"), B("P")}}

MCStores == {(B("O") :> DataO) @@ (N("f") :> FuncF),
             (B("O") :> DataO) @@ (B("P") :> PutP) @@ (B("f") :> FuncF) @@ (N("f") :> FuncF)}
=============================================================================
