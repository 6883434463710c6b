-------------------------------- MODULE Codec --------------------------------
(* What the decoder of Decode builds, against the encoder of Encode. *)
EXTENDS Decode, Encode

-----------------------------------------------------------------------------
(* What was decoded. *)

RECURSIVE TyAt(_, _)
TyAt(slots, p) ==
    LET o == slots[p]
        sub == [i \in 1 .. o.n |-> TyAt(slots, Append(p, i))]
    IN  CASE o.k \in Atoms \cup {"var"} -> o
          [] o.k = "fun" -> tFun(TyAt(slots, Append(p, 1)), TyAt(slots, Append(p, 2)))
          [] o.k = "data" -> tDataTy(o.hash, sub)
          [] o.k = "rec" -> tRec(sub)
          [] o.k = "record" -> tRecord(o.names, sub)
TysAt(slots, p) == [i \in 1 .. slots[p].tys |-> TyAt(slots, Append(p, -i))]

RECURSIVE TermAt(_, _)
TermAt(slots, p) ==
    LET o == slots[p]
    IN  [f \in DOMAIN o \ {"n", "tys"} |-> o[f]]
        @@ [kids |-> [i \in 1 .. o.n |-> TermAt(slots, Append(p, i))]]
        @@ (IF o.k \in {"lam", "let"} THEN [ty |-> TyAt(slots, Append(p, 0))] ELSE <<>>)
        @@ (IF "tys" \in DOMAIN o THEN [tyargs |-> TysAt(slots, p)] ELSE <<>>)

DecodedIn(slots) ==
    LET o == slots[Root]
    IN  IF o.k = "data" THEN [k |-> "data", tyvars |-> o.tyvars, ctors |-> [i \in 1 .. o.n |-> TysAt(slots, <<i>>)]]
        ELSE [k |-> "func", tyvars |-> o.tyvars, ty |-> TyAt(slots, <<1>>), body |-> TermAt(slots, <<2>>),
              props |-> [i \in 1 .. o.n |-> [binders |-> TysAt(slots, <<2 + i>>), body |-> TermAt(slots, <<2 + i, 0>>)]]]

admitBuilt(slots) == admitDef(DecodedIn(slots), maxCanonicalNodes)

-----------------------------------------------------------------------------
(* Properties. *)

Decoded == DecodedIn(out)

\* Two byte strings never decode to one definition: what the decoder accepts is the canonical
\* encoding of what it built, so a definition has one hash.
OneEncoding == err = "ok" => encodeDef(Decoded) = b

\* The decoder accepts exactly what the profile admits: the canonical bytes of an admitted
\* definition are decoded to it, and each of its nodes was charged once.
RoundTrip(d) ==
    b = encodeDef(d) /\ err # "" =>
        IF admitDef(d, maxCanonicalNodes)
        THEN err = "ok" /\ Decoded = d /\ nodes = countCanonicalNodes(d)
        ELSE err = "limit"
=============================================================================
