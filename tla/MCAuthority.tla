---------------------------- MODULE MCAuthority ----------------------------
(* Small instances of Authority for TLC. *)
EXTENDS Authority, SequencesExt, TLC

MCNamespace == {<<"a">>, <<"a", "s">>}
MCName == {<<"a", "s", "x">>}
MCScope == {None, Exact(<<"a", "s", "x">>)}
MCPolicy == <<[names |-> {Everything}, owner |-> None, tofu |-> FALSE],
              [names |-> {Prefix(<<"a">>)}, owner |-> None, tofu |-> TRUE]>>

(***************************************************************************)
(* Statements are signed, and enforcement turned on, between requests.  One *)
(* handler serves them, so the journal such a step reads or meets is that   *)
(* of the last request served: a step in the middle of a request can as     *)
(* well be taken before it.                                                 *)
(***************************************************************************)
BetweenRequests ==
    <<statements, policy>>' # <<statements, policy>> => \A p \in Handler : pc[p] = "idle"

(***************************************************************************)
(* Bound: a fifth entry, recorded or about to be, is the second publication *)
(* of a name, after a grant was revoked or its prefix handed over.          *)
(***************************************************************************)
Entries == [i \in DOMAIN journal |-> journal[i].body]
             \o SetToSeq({job[p] : p \in {q \in Handler : pc[q] # "idle"}})

Ends(e) == e.status = "accepted" /\ e.env # None /\ e.env.op \in {"revoke", "transfer"}

FifthRepublishes ==
    Len(Entries) = 5 =>
        /\ Entries[5].kind = "put"
        /\ \E i \in 1 .. 4 : Entries[i].kind = "put" /\ Entries[i].status = "accepted"
        /\ \E i \in 1 .. 4 : Ends(Entries[i])

KeySymmetry == Permutations(Key)

=============================================================================
