---------------------------- MODULE CheckMachine ----------------------------
(***************************************************************************)
(* The explicit checker machine of oath/check_machine.go, which replaced    *)
(* the recursive checker: a stack of suspended frames instead of the host's *)
(* stack.  A step is dispatched: it yields a result, or it pushes a frame   *)
(* and continues with a child.  A result resumes the top frame, which asks  *)
(* for another child (and stays) or is done.                                *)
(***************************************************************************)
EXTENDS Check

CONSTANTS Programs      \* [ty, body] of the definitions to check

VARIABLES
    root,           \* the body under check
    step,           \* the pending judgement: mode, ctx, path of its term, expected type
    stack,          \* suspended frames, the top one last
    ret,            \* the result being handed up
    st,             \* what the checker has written
    pc              \* dispatch | unwind | done

vars == <<selfTy, root, step, stack, ret, st, pc>>

RECURSIVE NodeAt(_, _)
NodeAt(t, p) == IF p = <<>> THEN t ELSE NodeAt(t.kids[Head(p)], Tail(p))
At(p) == NodeAt(root, p)

modeSynth(ctx, p) == [mode |-> "synth", ctx |-> ctx, at |-> p, exp |-> NoTy]
modeCheck(ctx, p, exp) == [mode |-> "check", ctx |-> ctx, at |-> p, exp |-> exp]
\* Check against exp where there is one, else synthesize.
Either(ctx, p, exp) == IF exp = NoTy THEN modeSynth(ctx, p) ELSE modeCheck(ctx, p, exp)
Kid(f, i) == Append(f.at, i)

\* Outcomes of a dispatch or a resumed frame: a result, or a child to run under a frame.
Done(ty, s) == [kind |-> "done", ty |-> ty, err |-> "", s |-> s]
Fail(what, s) == [kind |-> "done", ty |-> NoTy, err |-> what, s |-> s]
Suspend(frame, next, s) == [kind |-> "next", frames |-> <<frame>>, next |-> next, s |-> s]
FromResult(r) == IF r.err = "" THEN Done(r.ty, r.s) ELSE Fail(r.err, r.s)

-----------------------------------------------------------------------------
(* The frames: what each suspended judgement keeps until its child answers. *)

Base(f, sp) == [f |-> f, ctx |-> sp.ctx, at |-> sp.at, exp |-> sp.exp]
ctorFrame(sp) == [f |-> "ctor", ctx |-> sp.ctx, at |-> sp.at, fields |-> <<>>, subst |-> <<>>,
                  idx |-> 1, phase |-> "validate"]
inferAppFrame(sp, spn, params, subst) ==
    [f |-> "inferapp", ctx |-> sp.ctx, at |-> spn.at, args |-> spn.args, params |-> params,
     result |-> params[Len(params)], subst |-> subst, tys |-> <<>>, idx |-> 1, phase |-> "infer"]
appArgFrame(sp) == Base("app", sp) @@ [part |-> "fn", fnTy |-> NoTy]
ifBranchFrame(sp) == Base("if", sp) @@ [part |-> "cond", thenTy |-> NoTy]
letBodyFrame(sp) == Base("let", sp) @@ [part |-> "bound"]
matchArmFrame(sp) == Base("match", sp) @@ [part |-> "scrutinee", scrutTy |-> NoTy, idx |-> 0, result |-> NoTy]
primArgFrame(sp) == Base("prim", sp) @@ [tys |-> <<>>]
eqFrame(sp) == Base("eq", sp) @@ [part |-> "left"]
lamBodyFrame(paramTy, exp) == [f |-> "lam", paramTy |-> paramTy, exp |-> exp]
recordFieldFrame(sp) == Base("record", sp) @@ [tys |-> <<>>]
fieldAccessFrame(op) == [f |-> "field", op |-> op]
checkCompareFrame(sp) == [f |-> "compare", exp |-> sp.exp]

-----------------------------------------------------------------------------
(* Constructors: infer, solve, publish, validate. *)

ctorRouteFor(s, t, p) ==
    IF inferReady(Defs[t.hash].tyvars, TyArgs(s, t, p)) THEN "infer" ELSE "validate"

beginValidation(f, s) ==
    LET t == At(f.at)
        tyargs == TyArgs(s, t, f.at)
        fields == instCtorFields(t.hash, tyargs, t.idx)
    IN  IF t.kids = <<>> THEN Done(tDataTy(t.hash, tyargs), s)
        ELSE Suspend([f EXCEPT !.fields = fields, !.phase = "validate", !.idx = 1],
                     modeCheck(f.ctx, Kid(f, 1), fields[1]), s)

finishInference(f, s) ==
    IF Solved(f.subst) THEN beginValidation(f, Publish(s, f.at, f.subst)) ELSE Fail("cannot infer", s)

beginCtor(sp, exp, s) ==
    LET t == At(sp.at)
        n == Defs[t.hash].tyvars
        tyargs == TyArgs(s, t, sp.at)
        infer == [ctorFrame(sp) EXCEPT !.phase = "infer",
                               !.fields = instCtorFields(t.hash, identityTyArgs(n), t.idx),
                               !.subst = Seed(tDataTy(t.hash, identityTyArgs(n)), exp, n)]
        counted == [s EXCEPT !.inferEntries = @ + 1]
    IN  CASE CtorFault(t) # "" -> Fail(CtorFault(t), s)
          [] ctorRouteFor(s, t, sp.at) = "infer" ->
               IF t.kids = <<>> THEN finishInference(infer, counted)
               ELSE Suspend(infer, modeSynth(sp.ctx, Append(sp.at, 1)), counted)
          [] Len(tyargs) # n -> Fail("type arity", s)
          [] ~AllWF(tyargs) -> Fail("type", s)
          [] OTHER -> beginValidation(ctorFrame(sp), s)

resumeCtor(f, r, s) ==
    LET t == At(f.at)
        more == f.idx < Len(t.kids)
        seen == [f EXCEPT !.subst = IF r.err = "" THEN matchTy(f.fields[f.idx], r.ty, @).subst ELSE @]
    IN  CASE f.phase = "infer" /\ more ->
               Suspend([seen EXCEPT !.idx = @ + 1], modeSynth(f.ctx, Kid(f, f.idx + 1)), s)
          [] f.phase = "infer" /\ ~more -> finishInference(seen, s)
          [] r.err # "" -> Fail(r.err, s)
          [] more -> Suspend([f EXCEPT !.idx = @ + 1],
                             modeCheck(f.ctx, Kid(f, f.idx + 1), f.fields[f.idx + 1]), s)
          [] OTHER -> Done(tDataTy(t.hash, TyArgs(s, t, f.at)), s)

-----------------------------------------------------------------------------
(* Application spines headed by a reference without type arguments. *)

\* The validation pass: compares what synthesized, suspends for what did not.
RECURSIVE advanceInferApp(_, _)
advanceInferApp(f, s) ==
    LET solved == substTy(f.params[f.idx], f.subst)
    IN  IF f.idx > Len(f.args) THEN Done(substTy(f.result, f.subst), s)
        ELSE IF f.tys[f.idx] = NoTy
        THEN Suspend(f, modeCheck(f.ctx, f.args[f.idx].at, solved), s)
        ELSE IF f.tys[f.idx] # solved THEN Fail("argument", s)
        ELSE advanceInferApp([f EXCEPT !.idx = @ + 1], s)

\* Mutant: the solved arguments are used and never written into the head.
finishInferAppUnpublished(f, s) ==
    IF Solved(f.subst) THEN advanceInferApp([f EXCEPT !.phase = "validate", !.idx = 1], s)
    ELSE Fail("cannot infer", s)

finishInferApp(f, s) ==
    IF Solved(f.subst) THEN advanceInferApp([f EXCEPT !.phase = "validate", !.idx = 1],
                                            Publish(s, f.at, f.subst))
    ELSE Fail("cannot infer", s)

beginInferApp(sp, spn, exp, s) ==
    LET sch == Scheme(spn.head)
        peeled == peel(sch.ty, Len(spn.args))
    IN  IF peeled = <<>> THEN Fail("too many arguments", s)
        ELSE Suspend(inferAppFrame(sp, spn, peeled, Seed(peeled[Len(peeled)], exp, sch.tyvars)),
                     modeSynth(sp.ctx, spn.args[1].at), s)

resumeInferApp(f, r, s) ==
    LET seen == [f EXCEPT !.tys = Append(@, r.ty),
                          !.subst = IF r.err = "" THEN matchTy(f.params[f.idx], r.ty, @).subst ELSE @]
    IN  CASE f.phase = "infer" /\ f.idx < Len(f.args) ->
               Suspend([seen EXCEPT !.idx = @ + 1], modeSynth(f.ctx, f.args[f.idx + 1].at), s)
          [] f.phase = "infer" /\ f.idx = Len(f.args) -> finishInferApp(seen, s)
          [] r.err # "" -> Fail(r.err, s)
          [] OTHER -> advanceInferApp([f EXCEPT !.idx = @ + 1], s)

-----------------------------------------------------------------------------
(* The other frames; a failed child fails the frame, except for ==. *)

resumeCompare(f, r, s) == IF tyEq(r.ty, f.exp) THEN Done(NoTy, s) ELSE Fail("expected", s)

resumeLam(f, r, s) == Done(IF f.exp = NoTy THEN tFun(f.paramTy, r.ty) ELSE NoTy, s)

resumeIf(f, r, s) ==
    CASE f.part = "cond" ->
           IF r.ty # tBool THEN Fail("condition", s)
           ELSE Suspend([f EXCEPT !.part = "then"], Either(f.ctx, Kid(f, 2), f.exp), s)
      [] f.part = "then" ->
           Suspend([f EXCEPT !.part = "else", !.thenTy = r.ty], Either(f.ctx, Kid(f, 3), f.exp), s)
      [] OTHER -> IF tyEq(f.thenTy, r.ty) THEN Done(r.ty, s) ELSE Fail("branches disagree", s)

resumeLet(f, r, s) ==
    LET ty == At(f.at).ty
    IN  IF f.part = "body" THEN Done(r.ty, s)
        ELSE IF f.exp = NoTy /\ r.ty # ty THEN Fail("annotation", s)
        ELSE Suspend([f EXCEPT !.part = "body"], Either(Append(f.ctx, ty), Kid(f, 2), f.exp), s)

armStep(f, i) ==
    Either(f.ctx \o instCtorFields(f.scrutTy.hash, f.scrutTy.args, i - 1), Kid(f, i + 1), f.exp)

resumeMatch(f, r, s) ==
    LET t == At(f.at)
        arms == Len(t.kids) - 1
        next == [f EXCEPT !.idx = @ + 1, !.result = r.ty]
        scrutinized == [f EXCEPT !.part = "arm", !.scrutTy = r.ty, !.idx = 1]
    IN  CASE f.part = "scrutinee" ->
               IF MatchFault(t, r.ty) # "" THEN Fail(MatchFault(t, r.ty), s)
               ELSE Suspend(scrutinized, armStep(scrutinized, 1), s)
          [] f.exp = NoTy /\ f.idx > 1 /\ f.result # r.ty -> Fail("arms disagree", s)
          [] f.idx < arms -> Suspend(next, armStep(f, f.idx + 1), s)
          [] OTHER -> Done(r.ty, s)

resumePrim(f, r, s) ==
    LET t == At(f.at)
        tys == Append(f.tys, r.ty)
    IN  IF Len(tys) < Len(t.kids)
        THEN Suspend([f EXCEPT !.tys = tys], modeSynth(f.ctx, Kid(f, Len(tys) + 1)), s)
        ELSE IF primResultTy(t.op, tys) = NoTy THEN Fail("operands", s)
        ELSE Done(primResultTy(t.op, tys), s)

\* Mutant: the left operand's failure is not recovered.
resumeEqStrict(f, r, s) ==
    CASE r.err # "" -> Fail("cannot infer ==", s)
      [] f.part = "compare" -> Done(tBool, s)
      [] tyHasFun(r.ty) -> Fail("== on functions", s)
      [] OTHER -> Suspend([f EXCEPT !.part = "compare"], modeCheck(f.ctx, Kid(f, 2), r.ty), s)

resumeEq(f, r, s) ==
    LET settle(other) ==
            IF tyHasFun(r.ty) THEN Fail("== on functions", s)
            ELSE Suspend([f EXCEPT !.part = "compare"], modeCheck(f.ctx, Kid(f, other), r.ty), s)
    IN  CASE f.part = "left" /\ r.err = "" -> settle(2)
          [] f.part = "left" /\ r.err # "" ->
               Suspend([f EXCEPT !.part = "right-recover"], modeSynth(f.ctx, Kid(f, 2)), s)
          [] f.part = "right-recover" -> IF r.err = "" THEN settle(1) ELSE Fail("cannot infer ==", s)
          [] OTHER -> IF r.err = "" THEN Done(tBool, s) ELSE Fail(r.err, s)

resumeApp(f, r, s) ==
    CASE f.part = "fn" ->
           IF r.ty.k # "fun" THEN Fail("not a function", s)
           ELSE Suspend([f EXCEPT !.part = "arg", !.fnTy = r.ty], modeSynth(f.ctx, Kid(f, 2)), s)
      [] OTHER -> IF tyEq(r.ty, f.fnTy.a) THEN Done(f.fnTy.b, s) ELSE Fail("argument type", s)

resumeRecord(f, r, s) ==
    LET t == At(f.at)
        tys == Append(f.tys, r.ty)
        i == Len(tys) + 1
    IN  IF i > Len(t.kids) THEN Done(tRecord(t.names, tys), s)
        ELSE IF t.names[i] <= t.names[i - 1] THEN Fail("field order", s)
        ELSE Suspend([f EXCEPT !.tys = tys], modeSynth(f.ctx, Kid(f, i)), s)

resumeField(f, r, s) == FromResult(FieldOf(r.ty, f.op, s))

resume(f, r, s) ==
    CASE f.f = "ctor" -> resumeCtor(f, r, s)
      [] f.f = "inferapp" -> resumeInferApp(f, r, s)
      [] f.f = "eq" -> resumeEq(f, r, s)
      [] r.err # "" -> Fail(r.err, s)
      [] f.f = "compare" -> resumeCompare(f, r, s)
      [] f.f = "lam" -> resumeLam(f, r, s)
      [] f.f = "if" -> resumeIf(f, r, s)
      [] f.f = "let" -> resumeLet(f, r, s)
      [] f.f = "match" -> resumeMatch(f, r, s)
      [] f.f = "prim" -> resumePrim(f, r, s)
      [] f.f = "app" -> resumeApp(f, r, s)
      [] f.f = "record" -> resumeRecord(f, r, s)
      [] f.f = "field" -> resumeField(f, r, s)

-----------------------------------------------------------------------------
(* Dispatch. *)

First(sp) == modeSynth(sp.ctx, Append(sp.at, 1))
Under(frame, out) ==
    IF out.kind = "next" THEN [out EXCEPT !.frames = <<frame>> \o @]
    ELSE [out EXCEPT !.kind = "under"] @@ [frames |-> <<frame>>]

\* The forms that treat both modes alike but for where the expected type goes.
dispatchCommon(sp, s) ==
    LET t == At(sp.at)
    IN  CASE t.k = "match" -> Suspend(matchArmFrame(sp), First(sp), s)
          [] t.k = "if" -> Suspend(ifBranchFrame(sp), First(sp), s)
          [] t.k = "let" ->
               IF ~WF(t.ty) THEN Fail("type", s)
               ELSE Suspend(letBodyFrame(sp),
                            Either(sp.ctx, Append(sp.at, 1), IF sp.exp = NoTy THEN NoTy ELSE t.ty), s)

dispatchCheck(sp, s) ==
    LET t == At(sp.at)
        spn == spine(t, sp.at)
    IN  CASE t.k \in {"match", "if", "let"} -> dispatchCommon(sp, s)
          [] t.k = "ctor" -> Under(checkCompareFrame(sp), beginCtor(sp, sp.exp, s))
          [] t.k = "app" /\ NeedsInference(s, spn) ->
               Under(checkCompareFrame(sp), beginInferApp(sp, spn, sp.exp, s))
          [] t.k = "lam" /\ sp.exp.k = "fun" ->
               IF ~WF(t.ty) THEN Fail("type", s)
               ELSE IF t.ty # sp.exp.a THEN Fail("parameter", s)
               ELSE Suspend(lamBodyFrame(t.ty, sp.exp),
                            modeCheck(Append(sp.ctx, t.ty), Append(sp.at, 1), sp.exp.b), s)
          [] OTHER -> Suspend(checkCompareFrame(sp), modeSynth(sp.ctx, sp.at), s)

dispatchSynth(sp, s) ==
    LET t == At(sp.at)
        spn == spine(t, sp.at)
        n == Len(t.kids)
    IN  CASE t.k \in {"match", "if", "let"} -> dispatchCommon(sp, s)
          [] t.k = "var" ->
               IF t.idx \in 0 .. Len(sp.ctx) - 1 THEN Done(sp.ctx[Len(sp.ctx) - t.idx], s) ELSE Fail("scope", s)
          [] t.k \in Atoms -> Done([k |-> t.k], s)
          [] t.k \in {"ref", "self"} -> FromResult(refSelfTy(s, t, sp.at))
          [] t.k = "ctor" -> beginCtor(sp, NoTy, s)
          [] t.k = "record" ->
               IF n = 0 THEN Done(tRecord(<<>>, <<>>), s)
               ELSE Suspend(recordFieldFrame(sp), First(sp), s)
          [] t.k = "field" -> Suspend(fieldAccessFrame(t.op), First(sp), s)
          [] t.k = "app" ->
               IF NeedsInference(s, spn) THEN beginInferApp(sp, spn, NoTy, s)
               ELSE Suspend(appArgFrame(sp), First(sp), s)
          [] t.k = "lam" ->
               IF ~WF(t.ty) THEN Fail("type", s)
               ELSE Suspend(lamBodyFrame(t.ty, NoTy),
                            modeSynth(Append(sp.ctx, t.ty), Append(sp.at, 1)), s)
          [] t.k = "prim" /\ t.op = "==" ->
               IF n # 2 THEN Fail("arity", s)
               ELSE Suspend(eqFrame(sp), First(sp), s)
          [] t.k = "prim" /\ t.op # "==" ->
               IF n = 0 THEN Fail("operands", s)
               ELSE Suspend(primArgFrame(sp), First(sp), s)

dispatch(sp, s) == IF sp.mode = "check" THEN dispatchCheck(sp, s) ELSE dispatchSynth(sp, s)

-----------------------------------------------------------------------------
(* The run loop. *)

Init ==
    \E d \in Programs :
        /\ selfTy = d.ty
        /\ root = d.body
        /\ step = modeCheck(<<>>, <<>>, d.ty)
        /\ stack = <<>>
        /\ ret = [ty |-> NoTy, err |-> ""]
        /\ st = Fresh
        /\ pc = "dispatch"

\* rest: the frames below the one at work.
Proceed(rest, out) ==
    /\ st' = out.s
    /\ CASE out.kind = "next" ->
              /\ stack' = rest \o out.frames
              /\ step' = out.next
              /\ pc' = "dispatch"
              /\ UNCHANGED ret
         [] out.kind = "under" ->
              /\ stack' = rest \o out.frames
              /\ ret' = [ty |-> out.ty, err |-> out.err]
              /\ pc' = "unwind"
              /\ UNCHANGED step
         [] OTHER ->
              /\ stack' = rest
              /\ ret' = [ty |-> out.ty, err |-> out.err]
              /\ pc' = "unwind"
              /\ UNCHANGED step
    /\ UNCHANGED <<selfTy, root>>

Dispatch == pc = "dispatch" /\ Proceed(stack, dispatch(step, st))

Resume ==
    /\ pc = "unwind"
    /\ stack # <<>>
    /\ Proceed(SubSeq(stack, 1, Len(stack) - 1), resume(stack[Len(stack)], ret, st))

Finish ==
    /\ pc = "unwind"
    /\ stack = <<>>
    /\ pc' = "done"
    /\ UNCHANGED <<selfTy, root, step, stack, ret, st>>

Next == Dispatch \/ Resume \/ Finish

Spec == Init /\ [][Next]_vars /\ WF_vars(Next)

-----------------------------------------------------------------------------
(***************************************************************************)
(* The machine is the recursive checker: same verdict, same category of     *)
(* diagnostic, the same type arguments published at the same nodes, and the *)
(* same number of inference entries (without the last, a machine could be   *)
(* right and exponential).  checkDef trusts the machine alone.              *)
(***************************************************************************)
MachineAgrees ==
    pc = "done" =>
        LET r == judge(Fresh, <<>>, root, <<>>, selfTy)
        IN  ret.err = r.err /\ st = r.s

\* The term with every published type argument written in.
RECURSIVE Elaborate(_, _, _)
Elaborate(t, p, pub) ==
    LET kids == [t EXCEPT !.kids = [i \in DOMAIN @ |-> Elaborate(@[i], Append(p, i), pub)]]
    IN  IF p \in DOMAIN pub THEN [kids EXCEPT !.tyargs = pub[p]] ELSE kids

(***************************************************************************)
(* Elaboration is stable: an accepted definition, with its inferred type    *)
(* arguments written in, is accepted again and nothing is inferred anew, so *)
(* the inferred call is the explicit one and has its hash (checkDef, and    *)
(* GetDef's revalidation of what was stored).                               *)
(***************************************************************************)
ElaborationStable ==
    pc = "done" /\ ret.err = "" =>
        LET r == judge(Fresh, <<>>, Elaborate(root, <<>>, st.pub), <<>>, selfTy)
        IN  r.err = "" /\ r.s = Fresh
=============================================================================
