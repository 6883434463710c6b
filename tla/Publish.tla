------------------------------ MODULE Publish ------------------------------
(***************************************************************************)
(* The publishing client: `oath publish` of a file of definitions.         *)
(*                                                                         *)
(* A file is a sequence of forms: functions, datatypes, and (type ...)     *)
(* aliases, which publish nothing.  The client renames the declared names  *)
(* into the namespace token by token, puts the definitions in dependency   *)
(* order, elaborates the batch twice (bare and renamed) in a throwaway     *)
(* seed store, reads each name's parent from the registry, shows the       *)
(* plans, and then signs and sends them one at a time.                     *)
(*                                                                         *)
(* A name is a record (namespace, identifier).  A form keeps the symbols   *)
(* of each syntactic position and no syntax: types and ptypes (the type    *)
(* positions outside and inside properties), refs (free term references),  *)
(* locals (binders, property names and record labels), words (the keywords *)
(* it uses), an opaque code, and in sugar the constructors its string and  *)
(* list literals build, which are no symbols of its text.  An object is    *)
(* the value a form elaborates to, with the objects it refers to inside    *)
(* it: equality of objects is equality of hashes.                          *)
(*                                                                         *)
(* The registry holds some of what the local store holds.  It serves a     *)
(* request in three steps, and other publishers move names in between.     *)
(***************************************************************************)
EXTENDS Naturals, Sequences, FiniteSets, SequencesExt, TLC

CONSTANTS
    Files,          \* the source files tried: sequences of forms
    Stores,         \* the local stores tried: name -> [obj, ctors]
    Published,      \* the sets of names tried as those the registry knows already
    Namespaces,     \* the --namespace values tried; "" is none
    NameOrder,      \* every name, in the byte order FindCtor sorts by
    Reserved,       \* the keywords of the surface language
    Builtins,       \* Int, Rat, Float, Bool
    MaxMoves,       \* bound: moves of names by other publishers
    MaxFaults       \* bound: lost calls and refusals of the registry

VARIABLES
    file, ns, local,    \* the command's inputs, and the local name index
    pc,                 \* where the command is
    batch,              \* what buildPublishBatch returned
    seed,               \* the throwaway store
    plans,              \* the plans shown, in dependency order
    at,                 \* the plan being published
    signed,             \* every statement signed: a set of plans
    requests,           \* what the registry is at work on: [plan, stage]
    remote,             \* the registry: name -> [art, rev]
    objects,            \* the objects the registry holds
    applied,            \* the plans the registry applied, with what they replaced
    reply,              \* the answer the client gets, or the error it sees
    moves, faults

vars == <<file, ns, local, pc, batch, seed, plans, at, signed, requests, remote, objects,
          applied, reply, moves, faults>>

---------------------------------------------------------------------------
(* Symbols *)

isTypeAliasForm(f) == f.kind = "type"
Definitions(fs) == SelectSeq([i \in DOMAIN fs |-> i], LAMBDA i : ~isTypeAliasForm(fs[i]))
Defined(fs) == {i \in DOMAIN fs : ~isTypeAliasForm(fs[i])}
AliasesOf(fs) == {i \in DOMAIN fs : isTypeAliasForm(fs[i])}

\* Every symbol of a form, whatever its position.
walkSyms(f) == {f.name} \cup f.tyvars \cup f.locals \cup f.words
                 \cup Range(f.ctors) \cup Range(f.types) \cup Range(f.ptypes) \cup Range(f.refs)

\* The symbols that are not free references.
collectDeclared(f) == f.tyvars \cup f.locals \cup Range(f.ctors)
                        \cup (IF isTypeAliasForm(f) THEN {f.name} ELSE {})

aliasBodySyms(f) == Range(f.types) \ f.tyvars

\* The function's type variables are not in scope in its properties.
formTypeRefs(f) == (Range(f.types) \ f.tyvars) \cup Range(f.ptypes)

---------------------------------------------------------------------------
(* Elaboration: surface.go *)

Unknown == [k |-> "unknown"]
TyVar   == [k |-> "tyvar"]
Self    == [k |-> "self"]
NoName  == [ns |-> "", id |-> ""]

\* The first datatype, by name, that has constructor c.
FindCtor(st, c) ==
    LET ks == SelectSeq(NameOrder, LAMBDA k : k \in DOMAIN st /\ c \in Range(st[k].ctors))
    IN  IF ks = <<>> THEN Unknown
        ELSE [k |-> "ctor", of |-> st[ks[1]].obj,
              idx |-> CHOOSE i \in DOMAIN st[ks[1]].ctors : st[ks[1]].ctors[i] = c]

\* A type name: builtin, type variable, the datatype being defined, alias, stored datatype.
parseTy(st, aliases, tyvars, self, s) ==
    CASE s \in Builtins -> [k |-> "builtin", id |-> s.id]
      [] s \notin Builtins /\ s \in tyvars -> TyVar
      [] s \notin Builtins \cup tyvars /\ s = self -> Self
      [] s \notin Builtins \cup tyvars /\ s # self /\ s \in DOMAIN aliases -> aliases[s]
      [] OTHER -> IF s \in DOMAIN st /\ st[s].obj.k = "data" THEN st[s].obj ELSE Unknown

\* A value name: the function itself, then a constructor, then a stored function.
elabName(st, self, s) ==
    IF s = self THEN Self
    ELSE IF FindCtor(st, s) # Unknown THEN FindCtor(st, s)
    ELSE IF s \in DOMAIN st /\ st[s].obj.k = "func" THEN st[s].obj ELSE Unknown

\* A string literal builds SCons and SNil, (list ...) builds Cons and Nil: constructors only.
elabSugar(st, f) == [i \in DOMAIN f.sugar |-> FindCtor(st, f.sugar[i])]

elabFormWith(st, aliases, f) ==
    LET data == f.kind = "data"
        tys  == [i \in DOMAIN f.types |->
                   parseTy(st, aliases, f.tyvars, IF data THEN f.name ELSE NoName, f.types[i])]
        ptys == [i \in DOMAIN f.ptypes |-> parseTy(st, aliases, {}, NoName, f.ptypes[i])]
        refs == [i \in DOMAIN f.refs |-> elabName(st, f.name, f.refs[i])]
                  \o elabSugar(st, f)
    IN  IF \/ Unknown \in Range(tys) \cup Range(ptys) \cup Range(refs)
           \/ ~(f.words \subseteq Reserved)
        THEN Unknown
        ELSE [k |-> IF data THEN "data" ELSE "func", code |-> f.code,
              tys |-> tys, ptys |-> ptys, refs |-> refs]

\* The datatypes a type is made of.
TypeDeps(x) == CASE x.k = "data" -> {x} [] x.k = "arrow" -> x.deps [] OTHER -> {}

\* An alias is closed over its own parameters and may hide no builtin, alias or datatype.
registerTypeAlias(s, f) ==
    LET tys == [i \in DOMAIN f.types |-> parseTy(s.names, s.aliases, f.tyvars, NoName, f.types[i])]
    IN  IF \/ f.name \in Builtins \cup DOMAIN s.aliases
           \/ f.name \in DOMAIN s.names /\ s.names[f.name].obj.k = "data"
           \/ Unknown \in Range(tys)
        THEN [s EXCEPT !.ok = FALSE]
        ELSE [s EXCEPT !.aliases = (f.name :> IF Len(tys) = 1 THEN tys[1]
                                              ELSE [k |-> "arrow", of |-> tys,
                                                    deps |-> UNION {TypeDeps(t) : t \in Range(tys)}]) @@ @]

\* One form of apiPut: it stops at the first rejection.
putForm(s, f) ==
    IF ~s.ok THEN s
    ELSE IF isTypeAliasForm(f) THEN registerTypeAlias(s, f)
    ELSE LET obj == IF f.kind = "data" /\ f.name \in DOMAIN s.aliases THEN Unknown
                    ELSE elabFormWith(s.names, s.aliases, f)
         IN  IF obj = Unknown THEN [s EXCEPT !.ok = FALSE]
             ELSE [s EXCEPT !.names = (f.name :> [obj |-> obj, ctors |-> f.ctors]) @@ @]

putBatch(names, fs) ==
    FoldLeft(putForm, [ok |-> TRUE, names |-> names, aliases |-> <<>>], fs)

---------------------------------------------------------------------------
(* The source transformation: publish_closure.go *)

applyNamespace(name, space) == IF space = "" THEN name ELSE [ns |-> space, id |-> name.id]

Renames(fs, space) ==
    [n \in {fs[i].name : i \in Defined(fs)} |-> applyNamespace(n, space)]

\* Token by token: every position a symbol can be in.
qualifyNames(f, rename) ==
    LET q(s)     == IF s \in DOMAIN rename THEN rename[s] ELSE s
        qset(S)  == {q(s) : s \in S}
        qseq(ss) == [i \in DOMAIN ss |-> q(ss[i])]
    IN  [f EXCEPT !.name = q(@), !.tyvars = qset(@), !.locals = qset(@), !.words = qset(@),
                  !.ctors = qseq(@), !.types = qseq(@), !.ptypes = qseq(@), !.refs = qseq(@)]

collisionUnderQualification(fs, rename, space) ==
    space # "" /\ \E i \in DOMAIN fs : collectDeclared(fs[i]) \cap DOMAIN rename # {}

\* The alias a name means at position i: the latest one above it.
LatestAlias(fs, i, s) ==
    LET above == {j \in AliasesOf(fs) : j < i /\ fs[j].name = s}
    IN  IF above = {} THEN 0 ELSE CHOOSE j \in above : \A l \in above : l <= j

AliasUses(fs, i) == {LatestAlias(fs, i, s) : s \in aliasBodySyms(fs[i])} \ {0}

\* The names of an alias body that are not earlier aliases.
AliasFree(fs, i) == {s \in aliasBodySyms(fs[i]) : LatestAlias(fs, i, s) = 0}

DeclaredAt(fs, s) == CHOOSE i \in Defined(fs) : fs[i].name = s

\* A body that names what the file declares only below it is refused.
collectBatchAliasesRefuses(fs, rename) ==
    \E i \in AliasesOf(fs) : \E s \in AliasFree(fs, i) :
        s \in DOMAIN rename /\ DeclaredAt(fs, s) > i

AliasBatch(fs, i, rename) == AliasFree(fs, i) \cap DOMAIN rename
AliasExt(fs, rename, names) ==
    UNION {(AliasFree(fs, i) \ DOMAIN rename) \cap DOMAIN names : i \in AliasesOf(fs)}

\* The aliases definition i needs in scope: those it names, and what they expand.
aliasesNeededBy_Direct(fs, i) == {LatestAlias(fs, i, s) : s \in formTypeRefs(fs[i])} \ {0}
aliasesNeededBy(fs, i) ==
    LET Expand[j \in AliasesOf(fs)] == {j} \cup UNION {Expand[u] : u \in AliasUses(fs, j)}
    IN  UNION {Expand[j] : j \in {LatestAlias(fs, i, s) : s \in formTypeRefs(fs[i])} \ {0}}

\* The last datatype of the file that declares constructor c.
CtorOwner(fs, c) ==
    LET owners == {j \in Defined(fs) : c \in Range(fs[j].ctors)}
    IN  IF owners = {} THEN 0 ELSE CHOOSE j \in owners : \A l \in owners : l <= j

\* The batch members definition i must follow, as far as its symbols tell.
DepEdges(fs, qs, i, rename) ==
    LET batchNames == Range(rename)
        syms       == walkSyms(qs[i])
        owners     == {qs[CtorOwner(fs, c)].name : c \in {s \in syms \ batchNames : CtorOwner(fs, s) # 0}}
        extra      == UNION {{rename[s] : s \in AliasBatch(fs, j, rename)} :
                             j \in aliasesNeededBy(fs, i)}
    IN  ((syms \cap batchNames) \cup owners \cup extra) \ {qs[i].name}

\* Kahn's algorithm, ties by declaration order; a cycle leaves definitions out.
Ready(fs, qs, rename, out) ==
    {i \in Defined(fs) \ Range(out) :
        DepEdges(fs, qs, i, rename) \subseteq {qs[j].name : j \in Range(out)}}
PlaceNext(fs, qs, rename, out) ==
    LET ready == Ready(fs, qs, rename, out)
    IN  IF ready = {} THEN out
        ELSE Append(out, CHOOSE i \in ready : \A j \in ready : i <= j)
Placed(fs, qs, rename) ==
    LET out[n \in 0 .. Cardinality(Defined(fs))] ==
          IF n = 0 THEN <<>> ELSE PlaceNext(fs, qs, rename, out[n - 1])
    IN  out
topoOrderForms(fs, qs, rename) == Placed(fs, qs, rename)[Cardinality(Defined(fs))]

Ascending(S) == SetToSortSeq(S, LAMBDA a, b : a < b)

\* What is hashed for one definition: the aliases it needs, then the definition.
planSource(fs, texts, i) ==
    Append([n \in DOMAIN Ascending(aliasesNeededBy(fs, i)) |->
              texts[Ascending(aliasesNeededBy(fs, i))[n]]], texts[i])

\* The whole batch as one text: each alias once, at its first user or at the end.
batchSource(fs, texts, order) ==
    LET Emit(out, i) == out \o SelectSeq(Ascending(aliasesNeededBy(fs, i)),
                                         LAMBDA a : a \notin Range(out)) \o <<i>>
        placed == FoldLeft(Emit, <<>>, order)
        rest   == Ascending(AliasesOf(fs) \ Range(placed))
    IN  [n \in DOMAIN (placed \o rest) |-> texts[(placed \o rest)[n]]]

Refused == [ok |-> FALSE]

buildPublishBatch(fs, space, names) ==
    LET defs   == Definitions(fs)
        rename == Renames(fs, space)
        qs     == [i \in DOMAIN fs |-> qualifyNames(fs[i], rename)]
        order  == topoOrderForms(fs, qs, rename)
    IN  IF \/ defs = <<>>
           \/ \E i, j \in Range(defs) : i # j /\ fs[i].name = fs[j].name
           \/ space # "" /\ \E i \in Range(defs) : fs[i].name.ns # ""
           \/ collisionUnderQualification(fs, rename, space)
           \/ collectBatchAliasesRefuses(fs, rename)
           \/ Len(order) # Len(defs)
        THEN Refused
        ELSE [ok |-> TRUE, rename |-> rename, order |-> order,
              aliasExt |-> AliasExt(fs, rename, names),
              planText |-> [k \in DOMAIN order |-> planSource(fs, qs, order[k])],
              batchBare |-> batchSource(fs, fs, order),
              batchQual |-> batchSource(fs, qs, order)]

\* All datatypes of the local store, and what the forms name that the batch does not declare.
seedResolutionStore(names, b, fs) ==
    LET wanted == {n \in DOMAIN names : names[n].obj.k = "data"} \cup b.aliasExt
                    \cup (UNION {walkSyms(fs[i]) : i \in DOMAIN fs} \ DOMAIN b.rename)
    IN  [n \in wanted \cap DOMAIN names |-> names[n]]

\* Renaming may only redirect references: every definition keeps its hash.
SameIdentity_Unchecked(names, rename) == TRUE
SameIdentity(names, rename) ==
    \A bare \in DOMAIN rename :
        /\ {bare, rename[bare]} \subseteq DOMAIN names
        /\ names[bare].obj = names[rename[bare]].obj

\* The seed after both validation puts; not ok if either fails or an identity changed.
Validate(names, b, fs) ==
    LET bare == putBatch(seedResolutionStore(names, b, fs), b.batchBare)
        qual == putBatch(bare.names, b.batchQual)
    IN  IF bare.ok /\ qual.ok /\ SameIdentity(qual.names, b.rename)
        THEN [ok |-> TRUE, names |-> qual.names] ELSE Refused

\* The definition a plan's text declares, elaborated where it stands in the text; what
\* follows it is checked against a scratch store in which it is bound.
PlanArtifact(names, text) ==
    LET s == putBatch(names, text)
    IN  IF s.ok THEN s.names[text[Definitions(text)[1]].name].obj ELSE Unknown

\* A file with one definition and no namespace is planned as it stands.
multiDefinition(fs) == Len(Definitions(fs)) > 1

---------------------------------------------------------------------------
(* The command *)

NoBatch == [ok |-> FALSE, planText |-> <<>>]
NoParent == [k |-> "none"]
Foreign == [k |-> "func", code |-> "foreign", tys |-> <<>>, ptys |-> <<>>, refs |-> <<>>]

Objects(names) == {names[n].obj : n \in DOMAIN names}

\* The objects an object refers to.
DepsOf(obj) ==
    UNION {TypeDeps(t) : t \in Range(obj.tys) \cup Range(obj.ptys)}
      \cup {x.of : x \in {r \in Range(obj.refs) : r.k = "ctor"}}
      \cup {x \in Range(obj.refs) : x.k = "func"}

\* The registry and the local store hold different sets of names and objects; what the
\* registry holds, it holds with everything that it refers to.
Init ==
    /\ file \in Files /\ ns \in Namespaces /\ local \in Stores
    /\ pc = "start" /\ batch = NoBatch /\ seed = <<>> /\ plans = <<>> /\ at = 1
    /\ signed = {} /\ requests = {} /\ applied = {} /\ reply = "none" /\ moves = 0 /\ faults = 0
    /\ \E held \in Published :
         /\ remote = [n \in held \cap DOMAIN local |-> [art |-> local[n].obj, rev |-> 1]]
         /\ objects = {local[n].obj : n \in held \cap DOMAIN local}
    /\ UNION {DepsOf(x) : x \in objects} \subseteq objects

\* nameRevision at the registry: what a publication of the name would replace.
remoteNameRevision(n) ==
    IF n \in DOMAIN remote THEN [parent |-> remote[n].art, rev |-> remote[n].rev]
    ELSE [parent |-> NoParent, rev |-> 0]

Closure == ns # "" \/ multiDefinition(file)

\* Transform, seed and validate; nothing has been read from the registry or signed.
Prepare ==
    /\ pc = "start"
    /\ LET b == buildPublishBatch(file, ns, local)
           v == IF b.ok THEN Validate(local, b, file) ELSE Refused
       IN  IF Closure
           THEN /\ pc' = IF v.ok THEN "plan" ELSE "refused"
                /\ batch' = IF v.ok THEN b ELSE NoBatch
                /\ seed' = IF v.ok THEN v.names ELSE <<>>
           ELSE /\ pc' = IF Definitions(file) = <<>> THEN "refused" ELSE "plan"
                /\ batch' = [ok |-> TRUE, planText |-> <<file>>]
                /\ seed' = local
    /\ UNCHANGED <<file, ns, local, plans, at, signed, requests, remote, objects, applied, reply, moves, faults>>

\* One plan: the artifact from its text, the parent and revision from the registry now.
Plan ==
    /\ pc = "plan" /\ Len(plans) < Len(batch.planText)
    /\ LET text == batch.planText[Len(plans) + 1]
           name == text[Definitions(text)[1]].name
           art  == PlanArtifact(seed, text)
       IN  IF art = Unknown THEN pc' = "refused" /\ UNCHANGED plans
           ELSE /\ plans' = Append(plans, [name |-> name, art |-> art,
                                           parent |-> remoteNameRevision(name).parent,
                                           rev |-> remoteNameRevision(name).rev])
                /\ pc' = IF Len(plans') = Len(batch.planText) THEN "confirm" ELSE "plan"
    /\ UNCHANGED <<file, ns, local, batch, seed, at, signed, requests, remote, objects, applied, reply, moves, faults>>

\* --dry-run, a declined confirmation, a failed read of the registry, a persisted envelope
\* that is not the one signed, or a kill.
Stop ==
    /\ pc \in {"plan", "confirm", "sent", "answered"}
    /\ pc' = "stopped"
    /\ UNCHANGED <<file, ns, local, batch, seed, plans, at, signed, requests, remote, objects, applied, reply, moves, faults>>

\* The exact bytes shown are signed and sent.
Send(p) ==
    /\ pc = "confirm" /\ pc' = "sent" /\ reply' = "none"
    /\ signed' = signed \cup {p}
    /\ requests' = requests \cup {[plan |-> p, stage |-> "sent"]}
    /\ UNCHANGED <<file, ns, local, batch, seed, plans, at, remote, objects, applied, moves, faults>>

Sign_Rebased == Send([plans[at] EXCEPT !.parent = remoteNameRevision(plans[at].name).parent,
                                       !.rev = remoteNameRevision(plans[at].name).rev])
Sign == Send(plans[at])

---------------------------------------------------------------------------
(* The registry *)

Current(p) == remoteNameRevision(p.name) = [parent |-> p.parent, rev |-> p.rev]

moveName(n, art, rev) ==
    [m \in DOMAIN remote \cup {n} |-> IF m = n THEN [art |-> art, rev |-> rev] ELSE remote[m]]

Advance(q, stage) == requests' = (requests \ {q}) \cup {[q EXCEPT !.stage = stage]}

\* The end of a request; nobody hears it if the call was lost.
Answer(q, r) ==
    /\ requests' = requests \ {q}
    /\ reply' = IF reply = "none" THEN r ELSE reply

\* apiPutObject: the statement, then the dependencies, then the object is stored.
RegistryStore(q) ==
    /\ q.stage = "sent"
    /\ \/ ~Current(q.plan) /\ Answer(q, "error") /\ UNCHANGED objects
       \/ /\ Current(q.plan) /\ ~(DepsOf(q.plan.art) \subseteq objects)
          /\ Answer(q, "missing") /\ UNCHANGED objects
       \/ /\ Current(q.plan) /\ DepsOf(q.plan.art) \subseteq objects
          /\ objects' = objects \cup {q.plan.art}
          /\ Advance(q, "stored") /\ UNCHANGED reply
    /\ UNCHANGED <<file, ns, local, pc, batch, seed, plans, at, signed, remote, applied, moves, faults>>

\* admitPut: the statement again, then policy and the proof gate.
RegistryCheck(q) ==
    /\ q.stage = "stored"
    /\ \/ ~Current(q.plan) /\ Answer(q, "rejected") /\ UNCHANGED faults
       \/ /\ Current(q.plan) /\ faults < MaxFaults /\ faults' = faults + 1
          /\ \E r \in {"blocked", "pending"} : Answer(q, r)
       \/ Current(q.plan) /\ Advance(q, "checked") /\ UNCHANGED <<reply, faults>>
    /\ UNCHANGED <<file, ns, local, pc, batch, seed, plans, at, signed, remote, objects, applied, moves>>

\* Repoint, which compares nothing, and the journal entry.
RegistryMove(q) ==
    /\ q.stage \in {"checked", "overtaken"}
    /\ LET prev == remoteNameRevision(q.plan.name)
       IN  /\ remote' = moveName(q.plan.name, q.plan.art,
                                 IF prev.parent = q.plan.art THEN prev.rev ELSE prev.rev + 1)
           /\ applied' = applied \cup {[name |-> q.plan.name, art |-> q.plan.art, replaced |-> prev,
                                        overtaken |-> q.stage = "overtaken"]}
    /\ Answer(q, "ok")
    /\ UNCHANGED <<file, ns, local, pc, batch, seed, plans, at, signed, objects, moves, faults>>

\* Another publisher moves one of the names.
OtherMoves(n) ==
    /\ moves < MaxMoves /\ pc \in {"plan", "confirm", "sent", "answered"}
    /\ moves' = moves + 1
    /\ remote' = moveName(n, Foreign, remoteNameRevision(n).rev + 1)
    /\ objects' = objects \cup {Foreign}
    /\ requests' = {IF q.stage = "checked" /\ q.plan.name = n THEN [q EXCEPT !.stage = "overtaken"]
                    ELSE q : q \in requests}
    /\ UNCHANGED <<file, ns, local, pc, batch, seed, plans, at, signed, applied, reply, faults>>

\* The request or its answer is lost: the client sees an error either way.
LoseCall ==
    /\ pc = "sent" /\ reply # "error" /\ faults < MaxFaults
    /\ reply' = "error" /\ faults' = faults + 1
    /\ requests' \in {requests, {q \in requests : q.stage # "sent"}}
    /\ UNCHANGED <<file, ns, local, pc, batch, seed, plans, at, signed, remote, objects, applied, moves>>

---------------------------------------------------------------------------
(* The client, when it has an answer *)

\* finalizePublish: after an error, a moved parent is a conflict and is never signed again;
\* a blocked publication is an error; any other report, also one that says REJECTED or
\* PENDING PROOF, goes on.
Outcome(r, p) ==
    CASE r = "blocked" -> "blocked"
      [] r = "error" -> IF Current(p) THEN "failed" ELSE "conflict"
      [] OTHER -> "answered"

Receive_SkipsFailed ==
    /\ pc = "sent" /\ reply # "none"
    /\ IF reply = "ok" \/ at = Len(plans)
       THEN pc' = Outcome(reply, plans[at]) /\ UNCHANGED at
       ELSE pc' = "confirm" /\ at' = at + 1
    /\ UNCHANGED <<file, ns, local, batch, seed, plans, signed, requests, remote, objects, applied, reply, moves, faults>>
Receive ==
    /\ pc = "sent" /\ reply # "none"
    /\ pc' = Outcome(reply, plans[at])
    /\ UNCHANGED <<file, ns, local, batch, seed, plans, at, signed, requests, remote, objects, applied, reply, moves, faults>>

\* In a closure the name must have moved before a dependent is sent; the published name
\* is then bound in the local store as well, whatever it pointed at.
Confirmed(p) == Closure => p.name \in DOMAIN remote /\ remote[p.name].art = p.art
adoptPublished(p) == IF Closure THEN (p.name :> [obj |-> p.art, ctors |-> seed[p.name].ctors]) @@ local
                     ELSE local
Continue ==
    /\ pc = "answered"
    /\ IF Confirmed(plans[at])
       THEN /\ local' \in {local, adoptPublished(plans[at])}
            /\ at' = IF at < Len(plans) THEN at + 1 ELSE at
            /\ pc' = IF at < Len(plans) THEN "confirm" ELSE "done"
       ELSE pc' = "unbound" /\ UNCHANGED <<local, at>>
    /\ UNCHANGED <<file, ns, batch, seed, plans, signed, requests, remote, objects, applied, reply, moves, faults>>

Ended == pc \in {"refused", "stopped", "conflict", "failed", "blocked", "unbound", "done"} /\ UNCHANGED vars

Next ==
    \/ Prepare \/ Plan \/ Stop \/ Sign \/ LoseCall \/ Receive \/ Continue
    \/ \E q \in requests : RegistryStore(q)
    \/ \E q \in requests : RegistryCheck(q)
    \/ \E q \in requests : RegistryMove(q)
    \/ \E k \in DOMAIN plans : OtherMoves(plans[k].name)
    \/ Ended

Spec == Init /\ [][Next]_vars

---------------------------------------------------------------------------
(* Properties *)

\* What `oath put` of the same file, read top to bottom, would bind.
Put == putBatch(local, file)

\* What a form can refer to.
Mentions(f) == walkSyms(f) \cup Range(f.sugar)

\* The file declares before it mentions: no form mentions a later definition, or a
\* constructor that a definition of the file takes away or brings in later, and no
\* alias names a later alias (batchSource may put that one first, where `put` rejects).
Orderly(fs, names) ==
    /\ \A i, j \in AliasesOf(fs) : j > i => fs[j].name \notin Range(fs[i].types)
    /\ \A i \in DOMAIN fs : \A j \in Defined(fs) :
        /\ fs[i].name = fs[j].name => i = j \/ isTypeAliasForm(fs[i])
        /\ j > i => Mentions(fs[i]) \cap ({fs[j].name} \cup Range(fs[j].ctors)) = {}
        /\ fs[j].name \in DOMAIN names =>
              Range(names[fs[j].name].ctors) \cap Mentions(fs[i]) \subseteq Range(fs[j].ctors)

\* A constructor is spelled like a definition, or two datatypes have it.
AmbiguousCtor(fs) ==
    \E i, j \in Defined(fs) :
        \/ fs[j].name \in Range(fs[i].ctors)
        \/ i # j /\ Range(fs[i].ctors) \cap Range(fs[j].ctors) # {}

\* A published definition is the one its author wrote: for a file that declares before it
\* mentions, every artifact signed is the object `put` of the bare source binds, whatever
\* the namespace, the aliases and the names the local store already holds -- and a file
\* `put` rejects is never signed (buildPublishBatch, the identity control, planSource).
SignedIsAuthored ==
    (Orderly(file, local) /\ at = 1 /\ pc = "sent") =>
        /\ Put.ok
        /\ \A k \in DOMAIN plans : \E n \in DOMAIN Put.names :
             /\ applyNamespace(n, ns) = plans[k].name
             /\ n \in {file[i].name : i \in Defined(file)}
             /\ plans[k].art = Put.names[n].obj

\* Without a namespace publication refuses no orderly file that `put` accepts: the
\* dependency order, the alias analysis and the seed lose nothing the batch needs.
PutAcceptedIsPublishable ==
    (pc = "refused" /\ ns = "" /\ Orderly(file, local) /\ Definitions(file) # <<>>) => ~Put.ok

\* The artifacts of the batch.
Batch == {plans[k].art : k \in DOMAIN plans}

\* The dependency order places a definition with a literal ahead of the datatype of the
\* file that its literal builds: the literal is no symbol, so there is no edge.
LiteralAhead ==
    Closure /\ \E j, k \in DOMAIN plans :
        j < k /\ Range(file[batch.order[j]].sugar) \cap Range(file[batch.order[k]].ctors) # {}

\* The registry refuses an object for a dependency that the batch publishes itself.
SentTooEarly == reply = "missing" /\ (DepsOf(plans[at].art) \ objects) \cap Batch # {}

\* Nothing is sent ahead of what it depends on in its batch, wherever the batch stopped,
\* was blocked or lost an answer (what else the registry lacks, the author has not
\* published).  Except when a constructor is spelled like a definition of the file, or two
\* of its datatypes have it, or a literal builds a datatype of the file placed after it:
\* without a namespace the second validation put and the plans resolve the name to a
\* constructor, or to the datatype first by name, where the order follows the definition,
\* or the datatype declared last, or nothing; and the identity control, comparing a name to
\* itself, cannot see it.
NeverAheadOfDependency ==
    SentTooEarly => (ns = "" /\ AmbiguousCtor(file)) \/ LiteralAhead

\* The client never replaces a binding its author was not shown: what each applied
\* publication replaced is the parent and revision displayed before signing -- unless
\* another publisher moved the name after the registry's last comparison, which Repoint
\* does not repeat (envelope.go concedes it).  Moves between display and signature, on the
\* way, and between the registry's two comparisons are all caught.
ReplacesOnlyWhatWasShown ==
    \A a \in applied : \E k \in DOMAIN plans :
        /\ plans[k].name = a.name /\ plans[k].art = a.art
        /\ a.overtaken \/ a.replaced = [parent |-> plans[k].parent, rev |-> plans[k].rev]

\* "stale parent: publication not applied" is only said of a publication not applied.
ConflictMeansNotApplied ==
    pc = "conflict" => ~\E a \in applied : a.name = plans[at].name /\ a.art = plans[at].art
=============================================================================
