-------------------------- MODULE CompiledTemplate --------------------------
(***************************************************************************)
(* The template contexts of compiled templates (pkg/template).             *)
(*                                                                         *)
(* A template is compiled to a Starlark program that builds its output in  *)
(* a context: the program starts one, adds nodes to it, and ends it.  A    *)
(* function that contains template nodes gets a context of its own, from   *)
(* a StartCtx that ProgramAST inserts before its body and an EndCtx that   *)
(* it puts into its returns and after its body.  The contexts of one       *)
(* CompiledTemplate form a stack, whichever template calls the functions.  *)
(*                                                                         *)
(* The content of nodes is left out: EvaluationCtx has it.                 *)
(***************************************************************************)
EXTENDS Integers, Sequences

CONSTANTS Template,       \* the templates, each evaluated at most once
          Main,           \* the one that is evaluated for output
          Function, Home, \* functions, and the templates that define them
          Programs,       \* candidate programs: [top, body]
          MaxActivations  \* bound on calls, loads included

\* A statement under a condition (cond) may be skipped.  A return without a
\* value yields the template's fragment.
Statement ==
  [op : {"node", "fail", "return", "return_value"}, cond : BOOLEAN]
    \cup [op : {"call", "try_to"}, cond : BOOLEAN, fn : Function]
    \cup [op : {"load"}, cond : {FALSE}, tpl : Template]

\* top: the code at the top level of a template, where Starlark has no return;
\* body: the code of a function, where it has no load.
Program == [top : [Template -> Seq(Statement)], body : [Function -> Seq(Statement)]]

IsReturn(s) == s.op \in {"return", "return_value"}

ASSUME ProgramAssumption ==
  /\ Programs \subseteq Program
  /\ \A p \in Programs :
       /\ \A t \in Template : \A k \in DOMAIN p.top[t] : ~IsReturn(p.top[t][k])
       /\ \A f \in Function : \A k \in DOMAIN p.body[f] : p.body[f][k].op # "load"
ASSUME HomeAssumption == Main \in Template /\ Home \in [Function -> Template]
ASSUME ActivationAssumption == MaxActivations \in Nat \ {0}

VARIABLES program,   \* the program that runs
          frames,    \* Starlark's call stack
          ctxs,      \* per template, its stack of contexts
          rootCtx,   \* per template, the activation of its root context, or 0
          loaded,    \* templates that were evaluated, or are being evaluated
          calls,     \* how many activations there were
          returned,  \* the last fragment returned: by whom, and whose it is
          panics,    \* what panicked so far
          status     \* "running", "ok" or "error"

vars == <<program, frames, ctxs, rootCtx, loaded, calls, returned, panics, status>>

-----------------------------------------------------------------------------
(* ProgramAST: the context instructions around the code of a function.        *)

\* Mutant: nodes under a condition are not seen.
UsesTplOutsideIf(body) == \E k \in DOMAIN body : body[k].op = "node" /\ ~body[k].cond

UsesTpl(body) == \E k \in DOMAIN body : body[k].op = "node"

\* Mutant: returns keep their contexts.
RewrittenNever(body) == body

\* A return gets its EndCtx if a node has been seen before it.
Rewritten(body) ==
  [k \in DOMAIN body |->
     IF IsReturn(body[k]) /\ UsesTpl(SubSeq(body, 1, k - 1))
     THEN [body[k] EXCEPT !.op = IF @ = "return" THEN "end" ELSE "end_value"]
     ELSE body[k]]

Instr(op) == [op |-> op, cond |-> FALSE]

\* Mutant: no EndCtx after the body.
FunctionCodeOpenEnd(body) ==
  IF UsesTpl(body) THEN <<Instr("start")>> \o Rewritten(body)
                   ELSE body \o <<Instr("return_value")>>

\* Falling off the end of a function without a context returns None.
FunctionCode(body) ==
  IF UsesTpl(body) THEN <<Instr("start")>> \o Rewritten(body) \o <<Instr("end")>>
                   ELSE body \o <<Instr("return_value")>>

\* Template.Compile: the top level of a template.
TopCode(body) == <<Instr("start")>> \o body \o <<Instr("end_top")>>

-----------------------------------------------------------------------------

Running == status = "running"
Top == frames[Len(frames)]
Current == Top.code[Top.pc]
Ctxs == ctxs[Top.tpl]

\* An activation of a function, or of the top level of a template; tried: it
\* was called by assert.try_to.
Frame(tpl, code, act, tried) ==
  [tpl |-> tpl, code |-> code, pc |-> 1, act |-> act, tried |-> tried]

Pop == SubSeq(frames, 1, Len(frames) - 1)
Advanced == [frames EXCEPT ![Len(frames)].pc = @ + 1]

At(op) == Running /\ Current.op = op

\* An error unwinds Starlark's stack, and no contexts: to the innermost
\* assert.try_to, which returns it, or else out of the evaluation.
Unwind ==
  LET tries == {i \in DOMAIN frames : frames[i].tried}
  IN  \/ /\ tries = {}
         /\ status' = "error"
         /\ frames' = << >>
      \/ \E i \in tries :
           /\ \A j \in tries : j <= i
           /\ frames' = [SubSeq(frames, 1, i - 1) EXCEPT ![i - 1].pc = @ + 1]
           /\ status' = status

\* A panic is recovered and becomes an error: by ErrWrapper around each context
\* instruction, and by CompiledTemplate.eval.
Panic(message) ==
  /\ Unwind
  /\ panics' = panics \cup {message}
  /\ UNCHANGED <<program, ctxs, rootCtx, loaded, calls, returned>>

\* A condition is false.
SkipStatement ==
  /\ Running /\ Current.cond
  /\ frames' = Advanced
  /\ UNCHANGED <<program, ctxs, rootCtx, loaded, calls, returned, panics, status>>

\* Mutant: every context becomes the root context.
StartCtxAlwaysRoot ==
  /\ At("start")
  /\ frames' = Advanced
  /\ ctxs' = [ctxs EXCEPT ![Top.tpl] = Append(@, [act |-> Top.act, frame |-> Len(frames)])]
  /\ rootCtx' = [rootCtx EXCEPT ![Top.tpl] = Top.act]
  /\ UNCHANGED <<program, loaded, calls, returned, panics, status>>

\* tplStartCtx
StartCtx ==
  /\ At("start")
  /\ frames' = Advanced
  /\ ctxs' = [ctxs EXCEPT ![Top.tpl] = Append(@, [act |-> Top.act, frame |-> Len(frames)])]
  /\ rootCtx' = IF Len(Ctxs) = 0 /\ rootCtx[Top.tpl] = 0
                THEN [rootCtx EXCEPT ![Top.tpl] = Top.act] ELSE rootCtx
  /\ UNCHANGED <<program, loaded, calls, returned, panics, status>>

\* tplStartNode, with the instructions that belong to the node.
StartNode ==
  /\ At("node")
  /\ IF Ctxs = << >> THEN Panic("no ctx")
     ELSE /\ frames' = Advanced
          /\ UNCHANGED <<program, ctxs, rootCtx, loaded, calls, returned, panics, status>>

\* The caller goes on after the call; the main template is done.
Resume == frames' = [Pop EXCEPT ![Len(frames) - 1].pc = @ + 1]

\* A return that was not rewritten.
Return ==
  /\ At("return") \/ At("return_value")
  /\ Resume
  /\ UNCHANGED <<program, ctxs, rootCtx, loaded, calls, returned, panics, status>>

\* return of tplEndCtx
EndCtx ==
  /\ At("end") \/ At("end_value")
  /\ IF Ctxs = << >> THEN Panic("unexpected ctx end")
     ELSE /\ Resume
          /\ ctxs' = [ctxs EXCEPT ![Top.tpl] = SubSeq(@, 1, Len(@) - 1)]
          /\ returned' = IF Current.op = "end"
                         THEN [by |-> Top.act, of |-> Ctxs[Len(Ctxs)].act] ELSE returned
          /\ UNCHANGED <<program, rootCtx, loaded, calls, panics, status>>

\* The end of CompiledTemplate.eval: tplEndCtx of the root context, and the
\* check that no context is left.
EndTop ==
  /\ At("end_top")
  /\ IF Len(Ctxs) # 1
     THEN Panic(IF Ctxs = << >> THEN "unexpected ctx end" ELSE "expected all ctxs to end")
     ELSE /\ ctxs' = [ctxs EXCEPT ![Top.tpl] = << >>]
          /\ returned' = [by |-> Top.act, of |-> rootCtx[Top.tpl]]
          /\ IF Len(frames) = 1 THEN frames' = << >> /\ status' = "ok"
                                ELSE Resume /\ status' = status
          /\ UNCHANGED <<program, rootCtx, loaded, calls, panics>>

\* A function is called, directly or by assert.try_to; it may be one that is
\* already active (resolve.AllowRecursion).
Call ==
  /\ At("call") \/ At("try_to")
  /\ calls < MaxActivations
  /\ frames' = Append(frames, Frame(Home[Current.fn],
                                    FunctionCode(program.body[Current.fn]),
                                    calls + 1, Current.op = "try_to"))
  /\ calls' = calls + 1
  /\ UNCHANGED <<program, ctxs, rootCtx, loaded, returned, panics, status>>

\* load: CompiledTemplate.eval of another template.
Load ==
  /\ At("load")
  /\ calls < MaxActivations
  /\ Current.tpl \notin loaded
  /\ frames' = Append(frames, Frame(Current.tpl, TopCode(program.top[Current.tpl]), calls + 1, FALSE))
  /\ ctxs' = [ctxs EXCEPT ![Current.tpl] = << >>]
  /\ rootCtx' = [rootCtx EXCEPT ![Current.tpl] = 0]
  /\ loaded' = loaded \cup {Current.tpl}
  /\ calls' = calls + 1
  /\ UNCHANGED <<program, returned, panics, status>>

Fail ==
  /\ At("fail")
  /\ Unwind
  /\ UNCHANGED <<program, ctxs, rootCtx, loaded, calls, returned, panics>>

Init ==
  /\ program \in Programs
  /\ frames = <<Frame(Main, TopCode(program.top[Main]), 1, FALSE)>>
  /\ ctxs = [t \in Template |-> << >>]
  /\ rootCtx = [t \in Template |-> 0]
  /\ loaded = {Main}
  /\ calls = 1
  /\ returned = [by |-> 0, of |-> 0]
  /\ panics = {}
  /\ status = "running"

Next == \/ SkipStatement \/ StartCtx \/ StartNode \/ Return \/ EndCtx \/ EndTop
        \/ Call \/ Load \/ Fail

Spec == Init /\ [][Next]_vars

-----------------------------------------------------------------------------

Op == {"node", "fail", "return", "return_value", "call", "try_to", "load",
       "start", "end", "end_value", "end_top"}

\* Every activation has an instruction to execute next (ProgramAST closes every
\* function), and contexts belong to activations.
TypeOK ==
  /\ program \in Program
  /\ \A i \in DOMAIN frames :
       LET f == frames[i] IN
       /\ f.tpl \in Template /\ f.tried \in BOOLEAN /\ f.act \in 1 .. calls
       /\ f.pc \in DOMAIN f.code /\ f.code[f.pc].op \in Op
  /\ ctxs \in [Template -> Seq([act : 1 .. calls, frame : Nat])]
  /\ rootCtx \in [Template -> 0 .. calls]
  /\ loaded \subseteq Template
  /\ calls \in 1 .. MaxActivations
  /\ status = "running" => frames # << >>

\* In a function with template nodes every return comes after a node, and no
\* failure is caught in the middle of a function.
WellBehaved(p) ==
  /\ \A f \in Function : \A k \in DOMAIN p.body[f] :
       UsesTpl(p.body[f]) /\ IsReturn(p.body[f][k]) =>
         UsesTpl(SubSeq(p.body[f], 1, k - 1))
  /\ \A f \in Function : \A k \in DOMAIN p.body[f] : p.body[f][k].op # "try_to"
  /\ \A t \in Template : \A k \in DOMAIN p.top[t] : p.top[t][k].op # "try_to"

\* The activation at position i has started its context and not ended it.
InCtx(i) == frames[i].code[1].op = "start" /\ frames[i].pc > 1

\* The contexts of a template are, in order, those of the activations of its
\* functions and of its top level that are in progress.
Bracketed ==
  WellBehaved(program) /\ Running =>
    /\ \A t \in Template : \A k \in DOMAIN ctxs[t] :
         LET i == ctxs[t][k].frame IN
         /\ i \in DOMAIN frames /\ InCtx(i)
         /\ frames[i].tpl = t /\ frames[i].act = ctxs[t][k].act
         /\ \A l \in k + 1 .. Len(ctxs[t]) : i < ctxs[t][l].frame
    /\ \A i \in DOMAIN frames : InCtx(i) =>
         \E k \in DOMAIN ctxs[frames[i].tpl] : ctxs[frames[i].tpl][k].frame = i

\* A function returns the fragment that it built itself, and a template's result
\* is what its own top level built, however templates call each other's
\* functions (tplEndCtx, CompiledTemplate.eval).
FragmentIsOwn == WellBehaved(program) => returned.by = returned.of

\* The context instructions never find the stack of contexts in an unexpected
\* state (the panics of tplEndCtx and CompiledTemplate.eval).
NoPanic == WellBehaved(program) => panics = {}

\* "expected all ctxs to end": the assertion of CompiledTemplate.eval, for every
\* program.
AllCtxsEnd == "expected all ctxs to end" \notin panics

=============================================================================
