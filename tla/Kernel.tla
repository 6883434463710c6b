------------------------------- MODULE Kernel -------------------------------
(***************************************************************************)
(* The language of oath/ast.go and the type rules of oath/check.go.         *)
(*                                                                          *)
(* A term is [k, kids] plus the fields its form uses; kids are the subterms *)
(* in source order (a match has its scrutinee first, then one arm for each  *)
(* constructor).  Variables are de Bruijn indices.  Field names of records  *)
(* are numbers: only their order matters.  Rat and Float type like Int and  *)
(* are represented by "rat"; strings are data.  Errors are the category of  *)
(* the diagnostic.                                                          *)
(*                                                                          *)
(* The checker writes solved type arguments into the term (t.TyArgs = ...): *)
(* that is `pub`, from the path of a node to its arguments, threaded        *)
(* through synth and check with the count of inference entries.             *)
(***************************************************************************)
EXTENDS Integers, Sequences, FiniteSets, TLC

CONSTANT Defs       \* the store: hash -> definition

tInt == [k |-> "int"]
tRat == [k |-> "rat"]
tBool == [k |-> "bool"]
tVar(i) == [k |-> "var", var |-> i]
tFun(a, b) == [k |-> "fun", a |-> a, b |-> b]
tDataTy(h, args) == [k |-> "data", hash |-> h, args |-> args]
tRec(args) == [k |-> "rec", args |-> args]
tRecord(names, args) == [k |-> "record", names |-> names, args |-> args]
NoTy == [k |-> "none"]

Atoms == {"int", "rat", "bool"}
HasArgs(t) == t.k \in {"data", "rec", "record"}
RECURSIVE checkData(_), checkTyWF(_, _, _), strictlyPositiveTy(_, _)
\* The store holds what passed the gate.
GetDef(h, kind) ==
    /\ h \in DOMAIN Defs
    /\ Defs[h].k = kind
    /\ kind = "data" => checkData(Defs[h])

-----------------------------------------------------------------------------
(* Types. *)

RECURSIVE substTy(_, _)
substTy(t, args) ==
    CASE t.k = "var" -> IF t.var < Len(args) THEN args[t.var + 1] ELSE t
      [] t.k = "fun" -> tFun(substTy(t.a, args), substTy(t.b, args))
      [] HasArgs(t) -> [t EXCEPT !.args = [i \in DOMAIN @ |-> substTy(@[i], args)]]
      [] OTHER -> t

RECURSIVE resolveRec(_, _)
resolveRec(t, h) ==
    LET inner == [i \in DOMAIN t.args |-> resolveRec(t.args[i], h)]
    IN  CASE t.k = "fun" -> tFun(resolveRec(t.a, h), resolveRec(t.b, h))
          [] t.k = "rec" -> tDataTy(h, inner)
          [] t.k \in {"data", "record"} -> [t EXCEPT !.args = inner]
          [] OTHER -> t

tyEq(a, b) == a = b

\* One-sided: solves the variables of pat; a failed match keeps what it solved before.
RECURSIVE matchTy(_, _, _), matchAll(_, _, _, _)
matchTy(pat, got, subst) ==
    LET no == [ok |-> FALSE, subst |-> subst]
        yes == [ok |-> TRUE, subst |-> subst]
    IN  CASE pat.k = "var" /\ pat.var < Len(subst) ->
               IF subst[pat.var + 1] = NoTy
               THEN [ok |-> TRUE, subst |-> [subst EXCEPT ![pat.var + 1] = got]]
               ELSE IF tyEq(subst[pat.var + 1], got) THEN yes ELSE no
          [] pat.k # got.k -> no
          [] pat.k \in Atoms -> yes
          [] pat.k = "var" -> IF pat.var = got.var THEN yes ELSE no
          [] pat.k = "fun" ->
               LET a == matchTy(pat.a, got.a, subst)
               IN  IF a.ok THEN matchTy(pat.b, got.b, a.subst) ELSE a
          [] pat.k = "record" ->
               IF pat.names = got.names THEN matchAll(pat.args, got.args, 1, subst) ELSE no
          [] OTHER ->
               IF Len(pat.args) = Len(got.args) /\ (pat.k = "data" => pat.hash = got.hash)
               THEN matchAll(pat.args, got.args, 1, subst) ELSE no

matchAll(pats, gots, i, subst) ==
    IF i > Len(pats) THEN [ok |-> TRUE, subst |-> subst]
    ELSE LET r == matchTy(pats[i], gots[i], subst)
         IN  IF r.ok THEN matchAll(pats, gots, i + 1, r.subst) ELSE r

inferReady(tyvars, tyargs) == tyvars > 0 /\ tyargs = <<>>

RECURSIVE tyHasFun(_)
tyHasFun(t) ==
    \/ t.k = "fun"
    \/ HasArgs(t) /\ \E i \in DOMAIN t.args : tyHasFun(t.args[i])

RECURSIVE tyIsConcrete(_)
tyIsConcrete(t) ==
    /\ t.k \notin {"var", "rec"}
    /\ t.k = "fun" => tyIsConcrete(t.a) /\ tyIsConcrete(t.b)
    /\ HasArgs(t) => \A i \in DOMAIN t.args : tyIsConcrete(t.args[i])

Ascending(names) == \A i \in 2 .. Len(names) : names[i - 1] < names[i]

checkTyWF(t, ntyvars, allowRec) ==
    LET argsWF == \A i \in DOMAIN t.args : checkTyWF(t.args[i], ntyvars, allowRec)
    IN  CASE t.k \in Atoms -> TRUE
          [] t.k = "var" -> t.var \in 0 .. ntyvars - 1
          [] t.k = "fun" -> checkTyWF(t.a, ntyvars, allowRec) /\ checkTyWF(t.b, ntyvars, allowRec)
          [] t.k = "record" -> Len(t.names) = Len(t.args) /\ Ascending(t.names) /\ argsWF
          [] t.k = "rec" -> allowRec /\ Len(t.args) = ntyvars /\ argsWF
          [] t.k = "data" -> GetDef(t.hash, "data") /\ Len(t.args) = Defs[t.hash].tyvars /\ argsWF
          [] OTHER -> FALSE

\* No function type anywhere in the constructors, through the datatypes they use.
RECURSIVE dataArrowFree(_), arrowFreeTy(_)
dataArrowFree(h) ==
    /\ GetDef(h, "data")
    /\ \A i \in DOMAIN Defs[h].ctors : \A f \in DOMAIN Defs[h].ctors[i] :
          arrowFreeTy(Defs[h].ctors[i][f])

arrowFreeTy(t) ==
    /\ t.k # "fun"
    /\ t.k = "data" => dataArrowFree(t.hash)
    /\ HasArgs(t) => \A i \in DOMAIN t.args : arrowFreeTy(t.args[i])

\* Mutant: the domain of a function type is not negative.
strictlyPositiveTyAnywhere(t, negative) == TRUE

strictlyPositiveTy(t, negative) ==
    CASE t.k = "fun" -> strictlyPositiveTy(t.a, ~negative) /\ strictlyPositiveTy(t.b, negative)
      [] t.k = "rec" -> ~negative /\ \A i \in DOMAIN t.args : strictlyPositiveTy(t.args[i], negative)
      [] t.k = "record" -> \A i \in DOMAIN t.args : strictlyPositiveTy(t.args[i], negative)
      [] t.k = "data" -> \A i \in DOMAIN t.args :
                           strictlyPositiveTy(t.args[i], negative \/ ~dataArrowFree(t.hash))
      [] OTHER -> TRUE

\* The gate for a datatype.
checkData(d) ==
    /\ d.ctors # <<>>
    /\ \A i \in DOMAIN d.ctors : \A f \in DOMAIN d.ctors[i] :
          checkTyWF(d.ctors[i][f], d.tyvars, TRUE) /\ strictlyPositiveTy(d.ctors[i][f], FALSE)

identityTyArgs(n) == [i \in 1 .. n |-> tVar(i - 1)]

instCtorFields(h, tyargs, idx) ==
    LET fields == Defs[h].ctors[idx + 1]
    IN  [i \in DOMAIN fields |-> resolveRec(substTy(fields[i], tyargs), h)]

\* A primitive's rule over the types of its arguments; "" is no type.
primResultTy(op, tys) ==
    LET all(kinds) == \A i \in DOMAIN tys : tys[i].k \in kinds
        numeric == all({"int"}) \/ all({"rat"})
        n == Len(tys)
    IN  CASE op \in {"+", "-", "*", "/"} /\ n = 2 /\ numeric -> tys[1]
          [] op = "%" /\ n = 2 /\ all({"int"}) -> tInt
          [] op = "neg" /\ n = 1 /\ numeric -> tys[1]
          [] op \in {"<", "<="} /\ n = 2 /\ numeric -> tBool
          [] op \in {"and", "or"} /\ n = 2 /\ all({"bool"}) -> tBool
          [] op = "not" /\ n = 1 /\ all({"bool"}) -> tBool
          [] op = "to-rat" /\ n = 1 /\ all({"int"}) -> tRat
          [] op = "floor" /\ n = 1 /\ all({"rat"}) -> tInt
          [] OTHER -> NoTy
=============================================================================
