---------------------- MODULE CompiledTemplate_proofs ----------------------
(***************************************************************************)
(* The contexts of compiled templates follow the call stack, for every     *)
(* well-behaved program and any number of activations.                     *)
(*                                                                         *)
(* First come the three shapes of code that Template.Compile and           *)
(* ProgramAST produce, then the inductive invariant, then one lemma for    *)
(* each action.                                                            *)
(***************************************************************************)
EXTENDS CompiledTemplate, TLAPS

CallOps == {"call", "try_to", "load"}

Instruction == Statement \cup [op : Op \ CallOps, cond : BOOLEAN]

\* The code at the top level of a template.
TopLike(c) ==
  /\ Len(c) > 1
  /\ c[1].op = "start" /\ ~c[1].cond
  /\ c[Len(c)].op = "end_top" /\ ~c[Len(c)].cond
  /\ \A k \in 2 .. Len(c) - 1 : c[k].op \in {"node", "fail"} \cup CallOps

\* The code of a function with template nodes.
CtxLike(c) ==
  /\ Len(c) > 1
  /\ c[1].op = "start" /\ ~c[1].cond
  /\ c[Len(c)].op = "end" /\ ~c[Len(c)].cond
  /\ \A k \in 2 .. Len(c) - 1 :
       c[k].op \in {"node", "fail", "call", "try_to", "return", "return_value", "end", "end_value"}

\* The code of a function without any.
PlainLike(c) ==
  /\ Len(c) > 0
  /\ c[Len(c)].op = "return_value" /\ ~c[Len(c)].cond
  /\ \A k \in 1 .. Len(c) - 1 :
       c[k].op \in {"fail", "call", "try_to", "return", "return_value"}

\* What holds for well-behaved programs in addition.
Tame(c) ==
  /\ \A k \in DOMAIN c : c[k].op # "try_to"
  /\ CtxLike(c) => \A k \in DOMAIN c : ~IsReturn(c[k])

\* The fields of a statement.
LEMMA StatementFields ==
  ASSUME NEW s \in Statement
  PROVE  /\ s.op \in {"node", "fail", "return", "return_value"} \cup CallOps
         /\ s.cond \in BOOLEAN
         /\ s.op \in {"call", "try_to"} => s.fn \in Function
         /\ s.op = "load" => s.tpl \in Template
         /\ s.op \in {"return", "return_value"} => s = [op |-> s.op, cond |-> s.cond]
<1>1. CASE s \in [op : {"node", "fail", "return", "return_value"}, cond : BOOLEAN]
  BY <1>1 DEF CallOps
<1>2. CASE s \in [op : {"call", "try_to"}, cond : BOOLEAN, fn : Function]
  BY <1>2 DEF CallOps
<1>3. CASE s \in [op : {"load"}, cond : {FALSE}, tpl : Template]
  BY <1>3, Zenon DEF CallOps
<1> QED BY <1>1, <1>2, <1>3, Zenon DEF Statement

\* Template.Compile puts a start and an end around the code of a template.
LEMMA TopShape ==
  ASSUME NEW p \in Programs, NEW t \in Template
  PROVE  /\ TopCode(p.top[t]) \in Seq(Instruction)
         /\ TopLike(TopCode(p.top[t]))
         /\ WellBehaved(p) => Tame(TopCode(p.top[t]))
<1> DEFINE b == p.top[t]
           c == TopCode(b)
<1>1. b \in Seq(Statement) /\ (\A k \in DOMAIN b : ~IsReturn(b[k]))
  BY ProgramAssumption DEF Program
<1>2. \A k \in 1 .. Len(b) : b[k] \in Statement /\ b[k].op \in {"node", "fail"} \cup CallOps
  BY <1>1, StatementFields DEF IsReturn
<1>3. Instr("start") \in Instruction /\ Instr("end_top") \in Instruction
  BY DEF Instr, Instruction, Op, CallOps
<1>4. b \in Seq(Instruction)
  BY <1>1, <1>2 DEF Instruction
<1> HIDE DEF b
<1>5. c \in Seq(Instruction) /\ Len(c) = Len(b) + 2
  BY <1>1, <1>3, <1>4 DEF TopCode
<1>6. c[1] = Instr("start") /\ c[Len(c)] = Instr("end_top")
      /\ \A k \in 2 .. Len(c) - 1 : c[k] = b[k - 1]
  BY <1>1, <1>3, <1>4 DEF TopCode
<1> HIDE DEF c
<1>7. TopLike(c)
  <2>1. Len(b) \in Nat
    BY <1>1
  <2>2. \A k \in 2 .. Len(c) - 1 : k - 1 \in 1 .. Len(b)
    BY <2>1, <1>5
  <2> QED BY <1>2, <1>5, <1>6, <2>1, <2>2 DEF TopLike, Instr
<1>8. WellBehaved(p) => Tame(c)
  <2> SUFFICES ASSUME WellBehaved(p) PROVE Tame(c)
    OBVIOUS
  <2>1. \A k \in DOMAIN b : b[k].op # "try_to"
    BY DEF WellBehaved, b
  <2>2. ~CtxLike(c)
    BY <1>7 DEF CtxLike, TopLike
  <2>3. ASSUME NEW k \in DOMAIN c PROVE c[k].op # "try_to"
    <3>1. CASE k = 1
      BY <3>1, <1>6 DEF Instr
    <3>2. CASE k = Len(c)
      BY <3>2, <1>6 DEF Instr
    <3>3. CASE k # 1 /\ k # Len(c)
      <4>1. k \in 2 .. Len(c) - 1 /\ k - 1 \in DOMAIN b
        BY <1>1, <1>5, <3>3
      <4> QED BY <4>1, <2>1, <1>6
    <3> QED BY <3>1, <3>2, <3>3
  <2> QED BY <2>2, <2>3 DEF Tame
<1> QED BY <1>5, <1>7, <1>8 DEF c, b

\* ProgramAST.stmt changes nothing but the operation of some returns.
LEMMA RewrittenShape ==
  ASSUME NEW b \in Seq(Statement), \A k \in DOMAIN b : b[k].op # "load"
  PROVE  /\ Rewritten(b) \in Seq(Instruction) /\ Len(Rewritten(b)) = Len(b)
         /\ \A k \in 1 .. Len(b) :
              \/ Rewritten(b)[k] = b[k] /\ ~(IsReturn(b[k]) /\ UsesTpl(SubSeq(b, 1, k - 1)))
              \/ Rewritten(b)[k].op \in {"end", "end_value"}
<1> DEFINE r == Rewritten(b)
<1>1. ASSUME NEW k \in 1 .. Len(b)
      PROVE  /\ r[k] \in Instruction
             /\ \/ r[k] = b[k] /\ ~(IsReturn(b[k]) /\ UsesTpl(SubSeq(b, 1, k - 1)))
                \/ r[k].op \in {"end", "end_value"}
  <2>1. b[k] \in Statement
    OBVIOUS
  <2>2. CASE IsReturn(b[k]) /\ UsesTpl(SubSeq(b, 1, k - 1))
    <3>1. r[k] = [b[k] EXCEPT !.op = IF @ = "return" THEN "end" ELSE "end_value"]
      BY <2>2, SMTT(30) DEF Rewritten
    <3>2. b[k] = [op |-> b[k].op, cond |-> b[k].cond] /\ b[k].cond \in BOOLEAN
      BY <2>1, <2>2, StatementFields DEF IsReturn
    <3>3. r[k] = [op |-> IF b[k].op = "return" THEN "end" ELSE "end_value", cond |-> b[k].cond]
      BY <3>1, <3>2
    <3> HIDE DEF r
    <3> QED BY <3>2, <3>3 DEF Instruction, Op, CallOps
  <2>3. CASE ~(IsReturn(b[k]) /\ UsesTpl(SubSeq(b, 1, k - 1)))
    <3>1. r[k] = b[k]
      BY <2>3 DEF Rewritten
    <3> HIDE DEF r
    <3> QED BY <2>1, <2>3, <3>1 DEF Instruction
  <2> QED BY <2>2, <2>3
<1>2. r = [k \in 1 .. Len(b) |-> r[k]]
  BY DEF Rewritten
<1> HIDE DEF r
<1>3. r \in Seq(Instruction) /\ Len(r) = Len(b)
  <2>1. r \in [1 .. Len(b) -> Instruction]
    BY <1>1, <1>2
  <2> QED BY <2>1
<1> QED BY <1>1, <1>3 DEF r

\* ProgramAST.AddTplCtx closes every function, with or without a context.
LEMMA FunctionShape ==
  ASSUME NEW p \in Programs, NEW f \in Function
  PROVE  LET c == FunctionCode(p.body[f]) IN
         /\ c \in Seq(Instruction)
         /\ CtxLike(c) \/ PlainLike(c)
         /\ WellBehaved(p) => Tame(c)
<1> DEFINE b == p.body[f]
           c == FunctionCode(b)
<1>1. b \in Seq(Statement) /\ (\A k \in DOMAIN b : b[k].op # "load")
  BY ProgramAssumption DEF Program
<1>2. \A k \in 1 .. Len(b) :
        /\ b[k] \in Statement /\ b[k].op # "load"
        /\ b[k].op \in {"node", "fail", "call", "try_to", "return", "return_value"}
  BY <1>1, StatementFields DEF CallOps
<1>3. WellBehaved(p) =>
        /\ \A k \in 1 .. Len(b) : b[k].op # "try_to"
        /\ \A k \in 1 .. Len(b) :
             UsesTpl(b) /\ IsReturn(b[k]) => UsesTpl(SubSeq(b, 1, k - 1))
  <2>1. DOMAIN b = 1 .. Len(b)
    BY <1>1
  <2> QED BY <2>1 DEF WellBehaved
<1>4. Len(b) \in Nat
  BY <1>1
<1>5. Instr("start") \in Instruction /\ Instr("end") \in Instruction
      /\ Instr("return_value") \in Instruction
  BY DEF Instr, Instruction, Op, CallOps
<1>6. b \in Seq(Instruction)
  BY <1>1, <1>2 DEF Instruction
<1> HIDE DEF b
<1>7. CASE UsesTpl(b)
  <2> DEFINE r == Rewritten(b)
  <2>1. /\ r \in Seq(Instruction) /\ Len(r) = Len(b)
        /\ \A k \in 1 .. Len(b) :
              \/ r[k] = b[k] /\ ~(IsReturn(b[k]) /\ UsesTpl(SubSeq(b, 1, k - 1)))
              \/ r[k].op \in {"end", "end_value"}
    BY <1>1, RewrittenShape
  <2> HIDE DEF r
  <2>2. c = <<Instr("start")>> \o r \o <<Instr("end")>>
    BY <1>7 DEF FunctionCode, r
  <2> HIDE DEF c
  <2>3. c \in Seq(Instruction) /\ Len(c) = Len(b) + 2
    BY <2>1, <2>2, <1>4, <1>5
  <2>4. c[1] = Instr("start") /\ c[Len(c)] = Instr("end")
        /\ \A k \in 2 .. Len(c) - 1 : c[k] = r[k - 1]
    BY <2>1, <2>2, <1>4, <1>5
  <2>5. \A k \in 2 .. Len(c) - 1 : k - 1 \in 1 .. Len(b)
    BY <2>3, <1>4
  <2>6. CtxLike(c)
    <3>1. \A k \in 1 .. Len(b) :
            r[k].op \in {"node", "fail", "call", "try_to", "return", "return_value", "end", "end_value"}
      BY <2>1, <1>2
    <3> QED BY <3>1, <2>3, <2>4, <2>5, <1>4 DEF CtxLike, Instr
  <2>7. WellBehaved(p) => Tame(c)
    <3> SUFFICES ASSUME WellBehaved(p), NEW k \in DOMAIN c
                 PROVE  c[k].op # "try_to" /\ ~IsReturn(c[k])
      BY DEF Tame
    <3>1. CASE k = 1
      BY <3>1, <2>4 DEF Instr, IsReturn
    <3>2. CASE k = Len(c)
      BY <3>2, <2>4 DEF Instr, IsReturn
    <3>3. CASE k # 1 /\ k # Len(c)
      <4>1. k \in 2 .. Len(c) - 1
        BY <2>3, <1>4, <3>3
      <4> DEFINE j == k - 1
      <4>2. j \in 1 .. Len(b) /\ c[k] = r[j]
        BY <4>1, <2>4, <2>5, Zenon
      <4> HIDE DEF j
      <4>3. b[j].op # "try_to" /\ (IsReturn(b[j]) => UsesTpl(SubSeq(b, 1, j - 1)))
        BY <4>2, <1>3, <1>7
      <4> QED BY <4>2, <4>3, <2>1 DEF IsReturn
    <3> QED BY <3>1, <3>2, <3>3
  <2> QED BY <2>3, <2>6, <2>7 DEF c, b
<1>8. CASE ~UsesTpl(b)
  <2>1. c = b \o <<Instr("return_value")>>
    BY <1>8 DEF FunctionCode
  <2> HIDE DEF c
  <2>2. c \in Seq(Instruction) /\ Len(c) = Len(b) + 1
    BY <2>1, <1>4, <1>5, <1>6
  <2>3. c[Len(c)] = Instr("return_value") /\ \A k \in 1 .. Len(c) - 1 : c[k] = b[k]
    BY <2>1, <1>4, <1>5, <1>6
  <2>4. \A k \in 1 .. Len(b) : b[k].op # "node"
    <3>1. DOMAIN b = 1 .. Len(b)
      BY <1>1
    <3> QED BY <3>1, <1>8 DEF UsesTpl
  <2>5. PlainLike(c)
    <3>1. \A k \in 1 .. Len(c) - 1 : k \in 1 .. Len(b)
      BY <2>2, <1>4
    <3> QED BY <3>1, <2>2, <2>3, <2>4, <1>2, <1>4 DEF PlainLike, Instr
  <2>6. WellBehaved(p) => Tame(c)
    <3> SUFFICES ASSUME WellBehaved(p) PROVE Tame(c)
      OBVIOUS
    <3>1. ~CtxLike(c)
      BY <2>3 DEF CtxLike, Instr
    <3>2. ASSUME NEW k \in DOMAIN c PROVE c[k].op # "try_to"
      <4>1. CASE k = Len(c)
        BY <4>1, <2>3 DEF Instr
      <4>2. CASE k # Len(c)
        <5>1. k \in 1 .. Len(c) - 1 /\ k \in 1 .. Len(b)
          BY <4>2, <2>2, <1>4
        <5> QED BY <5>1, <2>3, <1>3
      <4> QED BY <4>1, <4>2
    <3> QED BY <3>1, <3>2 DEF Tame
  <2> QED BY <2>2, <2>5, <2>6 DEF c, b
<1> QED BY <1>7, <1>8

-----------------------------------------------------------------------------
(* The inductive invariant.                                                  *)

FrameRecord == [tpl : Template, code : Seq(Instruction), pc : Nat, act : Nat, tried : BOOLEAN]

FrameOK(f) ==
  /\ f.pc \in 1 .. Len(f.code) /\ f.act \in 1 .. calls
  /\ TopLike(f.code) \/ CtxLike(f.code) \/ PlainLike(f.code)

Calling(f) == f.code[f.pc].op \in CallOps

\* Every activation but the last one is at a call or a load.
FramesOK ==
  /\ program \in Programs /\ calls \in 1 .. MaxActivations
  /\ frames \in Seq(FrameRecord)
  /\ \A i \in 1 .. Len(frames) : FrameOK(frames[i])
  /\ \A i \in 1 .. Len(frames) - 1 : Calling(frames[i])
  /\ Len(frames) > 0 => TopLike(frames[1].code) /\ ~frames[1].tried
  /\ Running => Len(frames) > 0

Context == [act : Nat, frame : Nat]

CtxsOK ==
  /\ ctxs \in [Template -> Seq(Context)]
  /\ \A t \in Template : \A k \in 1 .. Len(ctxs[t]) : ctxs[t][k].act \in 1 .. calls
  /\ rootCtx \in [Template -> 0 .. calls]
  /\ loaded \subseteq Template

\* Templates are loaded from the top level of others, each once; the root
\* context of a template is that of its top level.
Nesting ==
  WellBehaved(program) /\ Running =>
    /\ \A i \in 1 .. Len(frames) : ~frames[i].tried /\ Tame(frames[i].code)
    /\ \A i, j \in 1 .. Len(frames) : i < j /\ TopLike(frames[j].code) =>
         TopLike(frames[i].code) /\ frames[i].tpl # frames[j].tpl
    /\ \A i \in 1 .. Len(frames) : TopLike(frames[i].code) =>
         /\ frames[i].tpl \in loaded
         /\ rootCtx[frames[i].tpl] = IF frames[i].pc = 1 THEN 0 ELSE frames[i].act

IInv == FramesOK /\ CtxsOK /\ Nesting /\ Bracketed /\ FragmentIsOwn /\ NoPanic

-----------------------------------------------------------------------------
(* What the shapes say about the instruction that is next.                   *)

\* An instruction that is conditional, or starts or calls something, is not the last.
LEMMA LastInstruction ==
  ASSUME NEW c, Len(c) \in Nat, NEW k \in 1 .. Len(c),
         TopLike(c) \/ CtxLike(c) \/ PlainLike(c),
         c[k].cond \/ c[k].op \in {"start", "node"} \cup CallOps
  PROVE  k < Len(c)
<1>1. CASE TopLike(c)
  BY <1>1 DEF TopLike, CallOps
<1>2. CASE CtxLike(c)
  BY <1>2 DEF CtxLike, CallOps
<1>3. CASE PlainLike(c)
  BY <1>3 DEF PlainLike, CallOps
<1> QED BY <1>1, <1>2, <1>3

\* Code has at most one of the three shapes.
LEMMA ShapesDiffer ==
  ASSUME NEW c
  PROVE  /\ ~(TopLike(c) /\ CtxLike(c)) /\ ~(TopLike(c) /\ PlainLike(c))
         /\ ~(CtxLike(c) /\ PlainLike(c))
BY DEF TopLike, CtxLike, PlainLike

\* Only the first instruction starts a context, and only in code that has one.
LEMMA StartIsFirst ==
  ASSUME NEW c, Len(c) \in Nat, NEW k \in 1 .. Len(c),
         TopLike(c) \/ CtxLike(c) \/ PlainLike(c)
  PROVE  /\ c[k].op = "start" => k = 1 /\ ~PlainLike(c)
         /\ c[1].op = "start" <=> ~PlainLike(c)
<1>1. CASE TopLike(c)
  BY <1>1, ShapesDiffer DEF TopLike, CallOps
<1>2. CASE CtxLike(c)
  BY <1>2, ShapesDiffer DEF CtxLike
<1>3. CASE PlainLike(c)
  BY <1>3, ShapesDiffer, SMTT(30) DEF PlainLike
<1> QED BY <1>1, <1>2, <1>3

\* Which code an instruction can be in.
LEMMA OpShape ==
  ASSUME NEW c, Len(c) \in Nat, NEW k \in 1 .. Len(c),
         TopLike(c) \/ CtxLike(c) \/ PlainLike(c)
  PROVE  /\ c[k].op = "node" => ~PlainLike(c) /\ k # 1
         /\ c[k].op \in {"end", "end_value"} => CtxLike(c) /\ k # 1
         /\ c[k].op = "end_top" => TopLike(c) /\ k # 1
         /\ c[k].op = "load" => TopLike(c) /\ k # 1
         /\ c[k].op \in {"return", "return_value"} => ~TopLike(c)
         /\ c[k].op \in CallOps /\ ~PlainLike(c) => k # 1
<1>1. CASE TopLike(c)
  BY <1>1, ShapesDiffer DEF TopLike, CallOps
<1>2. CASE CtxLike(c)
  BY <1>2, ShapesDiffer DEF CtxLike, CallOps
<1>3. CASE PlainLike(c)
  BY <1>3, ShapesDiffer DEF PlainLike, CallOps
<1> QED BY <1>1, <1>2, <1>3

-----------------------------------------------------------------------------
(* The three ways in which the call stack changes.                           *)

\* The activation keeps everything but its program counter.
SameFrame(f, g) == g.tpl = f.tpl /\ g.code = f.code /\ g.act = f.act /\ g.tried = f.tried

Stepped(f) == [f EXCEPT !.pc = @ + 1]

\* An activation that goes to its next instruction stays well formed.
LEMMA SteppedFrame ==
  ASSUME NEW f \in FrameRecord, FrameOK(f), f.pc < Len(f.code)
  PROVE  /\ Stepped(f) \in FrameRecord /\ FrameOK(Stepped(f))
         /\ SameFrame(f, Stepped(f)) /\ Stepped(f).pc = f.pc + 1
<1>1. Stepped(f) \in FrameRecord /\ SameFrame(f, Stepped(f)) /\ Stepped(f).pc = f.pc + 1
  BY DEF Stepped, FrameRecord, SameFrame
<1>2. f.pc \in Nat /\ Len(f.code) \in Nat
  BY DEF FrameRecord
<1> QED BY <1>1, <1>2 DEF FrameOK, SameFrame

\* Going to the next instruction changes the top activation only.
LEMMA AdvancedFrames ==
  ASSUME FramesOK, Running, Top.pc < Len(Top.code),
         frames' = Advanced, UNCHANGED <<program, calls, status>>
  PROVE  /\ FramesOK'
         /\ Len(frames') = Len(frames)
         /\ \A i \in 1 .. Len(frames) : SameFrame(frames[i], frames'[i])
         /\ \A i \in 1 .. Len(frames) - 1 : frames'[i] = frames[i]
         /\ frames'[Len(frames)].pc = Top.pc + 1
<1> DEFINE n == Len(frames)
<1>1. n \in Nat /\ n > 0 /\ frames \in Seq(FrameRecord)
  BY DEF FramesOK
<1>2. Top = frames[n] /\ Top \in FrameRecord /\ FrameOK(Top)
  BY <1>1 DEF Top, FramesOK
<1>3. /\ Stepped(Top) \in FrameRecord /\ FrameOK(Stepped(Top))
      /\ SameFrame(Top, Stepped(Top)) /\ Stepped(Top).pc = Top.pc + 1
  BY <1>2, SteppedFrame
<1>4. frames' = [frames EXCEPT ![n] = Stepped(Top)]
  BY <1>1, <1>2 DEF Advanced, Stepped
<1>5. frames' \in Seq(FrameRecord) /\ Len(frames') = n
  BY <1>1, <1>3, <1>4
<1>6. frames'[n] = Stepped(Top) /\ \A i \in 1 .. n - 1 : frames'[i] = frames[i]
  BY <1>1, <1>4
<1>7. \A i \in 1 .. n : SameFrame(frames[i], frames'[i])
  BY <1>1, <1>2, <1>3, <1>6 DEF SameFrame
<1>8. FramesOK'
  <2>1. \A i \in 1 .. n : FrameOK(frames'[i])
    BY <1>1, <1>3, <1>6 DEF FramesOK
  <2>2. \A i \in 1 .. Len(frames') : FrameOK(frames[i])'
    BY <1>5, <2>1, Zenon DEF FrameOK
  <2>3. \A i \in 1 .. Len(frames') - 1 : Calling(frames[i])'
    BY <1>1, <1>5, <1>6 DEF FramesOK, Calling
  <2>4. TopLike(frames'[1].code) /\ ~frames'[1].tried
    BY <1>1, <1>7 DEF FramesOK, SameFrame
  <2> QED BY <1>1, <1>5, <2>2, <2>3, <2>4 DEF FramesOK, Running
<1> QED BY <1>2, <1>3, <1>5, <1>6, <1>7, <1>8

\* What is left of the stack when the activation at m goes on.
Resumed(fs, m) == [SubSeq(fs, 1, m) EXCEPT ![m].pc = @ + 1]

\* The activations below m stay, and m goes to its next instruction.
LEMMA ResumedStack ==
  ASSUME NEW fs \in Seq(FrameRecord), NEW m \in 1 .. Len(fs),
         Stepped(fs[m]) \in FrameRecord
  PROVE  /\ Resumed(fs, m) \in Seq(FrameRecord) /\ Len(Resumed(fs, m)) = m
         /\ Resumed(fs, m)[m] = Stepped(fs[m])
         /\ \A i \in 1 .. m - 1 : Resumed(fs, m)[i] = fs[i]
<1> DEFINE s == SubSeq(fs, 1, m)
           g == Stepped(fs[m])
<1>1. s \in Seq(FrameRecord) /\ Len(s) = m /\ \A i \in 1 .. m : s[i] = fs[i]
  OBVIOUS
<1>2. m \in Nat /\ m > 0 /\ Len(fs) \in Nat
  OBVIOUS
<1>3. Resumed(fs, m) = [s EXCEPT ![m] = Stepped(s[m])]
  BY DEF Resumed, Stepped
<1>4. s[m] = fs[m]
  BY <1>1, <1>2
<1> HIDE DEF s
<1>5. Resumed(fs, m) = [s EXCEPT ![m] = g]
  BY <1>3, <1>4
<1> HIDE DEF g
<1>6. /\ [s EXCEPT ![m] = g] \in Seq(FrameRecord) /\ Len([s EXCEPT ![m] = g]) = m
      /\ [s EXCEPT ![m] = g][m] = g
      /\ \A i \in 1 .. m - 1 : [s EXCEPT ![m] = g][i] = fs[i]
  <2>1. g \in FrameRecord
    BY DEF g
  <2> QED BY <1>1, <1>2, <2>1
<1> QED BY <1>5, <1>6 DEF g

\* A return to an activation below.
LEMMA ResumedFrames ==
  ASSUME FramesOK, Running, NEW m \in 1 .. Len(frames) - 1,
         frames' = Resumed(frames, m), UNCHANGED <<program, calls, status>>
  PROVE  /\ FramesOK'
         /\ Len(frames') = m
         /\ \A i \in 1 .. m : SameFrame(frames[i], frames'[i])
         /\ \A i \in 1 .. m - 1 : frames'[i] = frames[i]
         /\ frames'[m].pc = frames[m].pc + 1
<1>1. Len(frames) \in Nat /\ frames \in Seq(FrameRecord) /\ m \in Nat /\ m > 0
  BY DEF FramesOK
<1>2. m \in 1 .. Len(frames)
  BY <1>1
<1>3. frames[m] \in FrameRecord /\ FrameOK(frames[m]) /\ Calling(frames[m])
  BY <1>1 DEF FramesOK
<1>4. frames[m].pc < Len(frames[m].code)
  <2>1. Len(frames[m].code) \in Nat
    BY <1>3 DEF FrameRecord
  <2> QED BY <1>3, <2>1, LastInstruction DEF FrameOK, Calling
<1>5. /\ Stepped(frames[m]) \in FrameRecord /\ FrameOK(Stepped(frames[m]))
      /\ SameFrame(frames[m], Stepped(frames[m])) /\ Stepped(frames[m]).pc = frames[m].pc + 1
  BY <1>3, <1>4, SteppedFrame
<1>7. frames' \in Seq(FrameRecord) /\ Len(frames') = m
  BY <1>1, <1>2, <1>5, ResumedStack
<1>8. frames'[m] = Stepped(frames[m]) /\ \A i \in 1 .. m - 1 : frames'[i] = frames[i]
  BY <1>1, <1>2, <1>5, ResumedStack
<1>9. \A i \in 1 .. m : SameFrame(frames[i], frames'[i])
  BY <1>1, <1>5, <1>8 DEF SameFrame
<1>10. FramesOK'
  <2>1. \A i \in 1 .. m : FrameOK(frames'[i])
    BY <1>1, <1>5, <1>8 DEF FramesOK
  <2>2. \A i \in 1 .. Len(frames') : FrameOK(frames[i])'
    BY <1>7, <2>1 DEF FrameOK
  <2>3. \A i \in 1 .. Len(frames') - 1 : Calling(frames[i])'
    BY <1>1, <1>7, <1>8 DEF FramesOK, Calling
  <2>4. TopLike(frames'[1].code) /\ ~frames'[1].tried
    BY <1>1, <1>9 DEF FramesOK, SameFrame
  <2> QED BY <1>1, <1>7, <2>2, <2>3, <2>4 DEF FramesOK, Running
<1> QED BY <1>5, <1>7, <1>8, <1>9, <1>10

\* A new activation.
LEMMA PushedFrames ==
  ASSUME FramesOK, Running, Calling(Top), calls < MaxActivations,
         NEW f \in FrameRecord, f.pc = 1, f.act = calls + 1,
         TopLike(f.code) \/ CtxLike(f.code) \/ PlainLike(f.code),
         frames' = Append(frames, f), calls' = calls + 1, UNCHANGED <<program, status>>
  PROVE  /\ FramesOK'
         /\ Len(frames') = Len(frames) + 1
         /\ \A i \in 1 .. Len(frames) : frames'[i] = frames[i]
         /\ frames'[Len(frames) + 1] = f
<1> DEFINE n == Len(frames)
<1>1. n \in Nat /\ n > 0 /\ frames \in Seq(FrameRecord) /\ calls \in 1 .. MaxActivations
  BY DEF FramesOK
<1>2. frames' \in Seq(FrameRecord) /\ Len(frames') = n + 1
      /\ frames'[n + 1] = f /\ \A i \in 1 .. n : frames'[i] = frames[i]
  BY <1>1
<1>3. MaxActivations \in Nat
  BY ActivationAssumption
<1>4. FramesOK'
  <2>1. ASSUME NEW i \in 1 .. n + 1
        PROVE  /\ frames'[i].pc \in 1 .. Len(frames'[i].code) /\ frames'[i].act \in 1 .. calls + 1
               /\ TopLike(frames'[i].code) \/ CtxLike(frames'[i].code) \/ PlainLike(frames'[i].code)
    <3>1. CASE i = n + 1
      <4>1. Len(f.code) \in Nat /\ Len(f.code) > 0
        BY DEF TopLike, CtxLike, PlainLike, FrameRecord
      <4> QED BY <1>1, <1>2, <3>1, <4>1
    <3>2. CASE i # n + 1
      BY <1>1, <1>2, <3>2 DEF FramesOK, FrameOK
    <3> QED BY <3>1, <3>2
  <2>2. \A i \in 1 .. Len(frames') : FrameOK(frames[i])'
    BY <1>2, <2>1, Zenon DEF FrameOK
  <2>3. \A i \in 1 .. Len(frames') - 1 : Calling(frames[i])'
    <3>1. Calling(frames[n])
      BY <1>1 DEF Top
    <3> QED BY <1>1, <1>2, <3>1 DEF FramesOK, Calling
  <2>4. TopLike(frames'[1].code) /\ ~frames'[1].tried
    BY <1>1, <1>2 DEF FramesOK
  <2>5. calls' \in 1 .. MaxActivations
    BY <1>1, <1>3
  <2> QED BY <1>1, <1>2, <2>2, <2>3, <2>4, <2>5 DEF FramesOK, Running
<1> QED BY <1>2, <1>4

-----------------------------------------------------------------------------
(* The actions.                                                              *)

\* An activation has started its context iff it has left the first instruction.
LEMMA InCtxShape ==
  ASSUME FramesOK, NEW i \in 1 .. Len(frames)
  PROVE  InCtx(i) <=> ~PlainLike(frames[i].code) /\ frames[i].pc # 1
<1>1. frames[i] \in FrameRecord /\ FrameOK(frames[i]) /\ Len(frames) \in Nat
  BY DEF FramesOK
<1>2. Len(frames[i].code) \in Nat /\ frames[i].pc \in Nat
  BY <1>1 DEF FrameRecord
<1> QED BY <1>1, <1>2, StartIsFirst DEF FrameOK, InCtx

\* Every activation belongs to a template.
LEMMA FrameTemplates ==
  ASSUME FramesOK
  PROVE  \A i \in 1 .. Len(frames) : frames[i] \in FrameRecord /\ frames[i].tpl \in Template
<1>1. frames \in Seq(FrameRecord)
  BY DEF FramesOK
<1>2. \A i \in 1 .. Len(frames) : frames[i] \in FrameRecord
  BY <1>1
<1> QED BY <1>2 DEF FrameRecord

Entered(f) == f.code[1].op = "start" /\ f.pc > 1

\* The instruction that is next, and the code that it is in.
LEMMA TopFacts ==
  ASSUME FramesOK, Running
  PROVE  /\ Len(frames) \in Nat /\ Len(frames) > 0 /\ Top = frames[Len(frames)]
         /\ Top \in FrameRecord /\ FrameOK(Top) /\ Top.tpl \in Template
         /\ Len(Top.code) \in Nat /\ Top.pc \in 1 .. Len(Top.code) /\ Top.act \in Nat
         /\ Current = Top.code[Top.pc] /\ Current \in Instruction
<1>1. Len(frames) \in Nat /\ Len(frames) > 0 /\ frames \in Seq(FrameRecord)
  BY DEF FramesOK
<1>2. Top = frames[Len(frames)] /\ Top \in FrameRecord /\ FrameOK(Top)
  BY <1>1 DEF Top, FramesOK
<1>3. Len(Top.code) \in Nat /\ Top.pc \in 1 .. Len(Top.code) /\ Top.act \in Nat
      /\ Top.code \in Seq(Instruction) /\ Top.tpl \in Template
  BY <1>2 DEF FrameRecord, FrameOK
<1> QED BY <1>1, <1>2, <1>3 DEF Current

\* The activation of a context, and the context of an activation.
LEMMA CtxFrame ==
  ASSUME FramesOK, CtxsOK, Bracketed, Running, WellBehaved(program),
         NEW t \in Template, NEW k \in 1 .. Len(ctxs[t])
  PROVE  LET i == ctxs[t][k].frame IN
         /\ i \in 1 .. Len(frames) /\ Entered(frames[i]) /\ frames[i].tpl = t
         /\ frames[i].act = ctxs[t][k].act
         /\ \A l \in k + 1 .. Len(ctxs[t]) : i < ctxs[t][l].frame
<1> DEFINE i == ctxs[t][k].frame
<1>1. ctxs[t] \in Seq(Context) /\ frames \in Seq(FrameRecord)
  BY DEF CtxsOK, FramesOK
<1>2. k \in DOMAIN ctxs[t] /\ DOMAIN frames = 1 .. Len(frames)
  BY <1>1
<1>3. /\ i \in DOMAIN frames /\ InCtx(i) /\ frames[i].tpl = t /\ frames[i].act = ctxs[t][k].act
      /\ \A l \in k + 1 .. Len(ctxs[t]) : i < ctxs[t][l].frame
  BY <1>2, Zenon DEF Bracketed
<1> QED BY <1>2, <1>3, Zenon DEF InCtx, Entered

\* An activation that has started a context still has it on its template's stack.
LEMMA FrameCtx ==
  ASSUME FramesOK, CtxsOK, Bracketed, Running, WellBehaved(program),
         NEW i \in 1 .. Len(frames), Entered(frames[i])
  PROVE  /\ frames[i].tpl \in Template
         /\ \E k \in 1 .. Len(ctxs[frames[i].tpl]) : ctxs[frames[i].tpl][k].frame = i
<1> DEFINE t == frames[i].tpl
<1>1. t \in Template
  BY FrameTemplates
<1>2. ctxs[t] \in Seq(Context) /\ frames \in Seq(FrameRecord)
  BY <1>1 DEF CtxsOK, FramesOK
<1>3. DOMAIN ctxs[t] = 1 .. Len(ctxs[t]) /\ i \in DOMAIN frames
  BY <1>2
<1>4. \E k \in DOMAIN ctxs[t] : ctxs[t][k].frame = i
  BY <1>3, Zenon DEF Bracketed, InCtx, Entered
<1> QED BY <1>1, <1>3, <1>4, Zenon

\* Contexts still match if activations stay in theirs.
LEMMA SameCtxs ==
  ASSUME FramesOK, CtxsOK, Bracketed, Running, FramesOK', Len(frames') = Len(frames),
         \A i \in 1 .. Len(frames) : SameFrame(frames[i], frames'[i]),
         \A i \in 1 .. Len(frames) : InCtx(i)' <=> InCtx(i),
         UNCHANGED <<program, ctxs>>
  PROVE  Bracketed'
<1> SUFFICES ASSUME WellBehaved(program), Running' PROVE Bracketed'
  BY Zenon DEF Bracketed
<1> DEFINE n == Len(frames)
<1>1. n \in Nat /\ DOMAIN frames = 1 .. n /\ DOMAIN frames' = 1 .. n
  BY SMTT(30) DEF FramesOK
<1>2. ASSUME NEW t \in Template, NEW k \in DOMAIN ctxs[t]
      PROVE  LET i == ctxs[t][k].frame IN
             /\ i \in 1 .. n /\ InCtx(i)' /\ frames'[i].tpl = t
             /\ frames'[i].act = ctxs[t][k].act
             /\ \A l \in k + 1 .. Len(ctxs[t]) : i < ctxs[t][l].frame
  BY <1>1, <1>2 DEF Bracketed, SameFrame
<1>3. ASSUME NEW i \in 1 .. n, InCtx(i)'
      PROVE  \E k \in DOMAIN ctxs[frames'[i].tpl] : ctxs[frames'[i].tpl][k].frame = i
  BY <1>1, <1>3 DEF Bracketed, SameFrame
<1> QED BY <1>1, <1>2, <1>3, ZenonT(60) DEF Bracketed

\* The next instruction in the same activation, unless it starts a context.
LEMMA AdvanceKeeps ==
  ASSUME IInv, Running, Current.op # "start", Top.pc < Len(Top.code), frames' = Advanced,
         UNCHANGED <<program, ctxs, rootCtx, loaded, calls, returned, panics, status>>
  PROVE  IInv'
<1> DEFINE n == Len(frames)
<1>1. FramesOK /\ CtxsOK /\ Nesting /\ Bracketed /\ FragmentIsOwn /\ NoPanic
  BY DEF IInv
<1>2. /\ FramesOK' /\ Len(frames') = n
      /\ \A i \in 1 .. n : SameFrame(frames[i], frames'[i])
      /\ \A i \in 1 .. n - 1 : frames'[i] = frames[i]
      /\ frames'[n].pc = Top.pc + 1
  BY <1>1, AdvancedFrames
<1>3. /\ n \in Nat /\ n > 0 /\ Top = frames[n] /\ FrameOK(Top)
      /\ Len(Top.code) \in Nat /\ Top.pc \in 1 .. Len(Top.code) /\ Current = Top.code[Top.pc]
  BY <1>1, TopFacts
<1>4. Top.pc = 1 => PlainLike(Top.code)
  BY <1>3, StartIsFirst DEF FrameOK
<1>5. CtxsOK'
  BY <1>1 DEF CtxsOK
<1>6. \A i \in 1 .. n : InCtx(i)' <=> InCtx(i)
  <2>1. ASSUME NEW i \in 1 .. n PROVE InCtx(i)' <=> InCtx(i)
    <3>2. CASE i = n
      <4>1. frames[i].code[1].op = "start" => frames[i].pc > 1
        BY <3>2, <1>3
      <4>2. frames'[i].code = frames[i].code /\ frames'[i].pc > 1
        BY <1>2, <1>3, <3>2 DEF SameFrame
      <4> QED BY <4>1, <4>2 DEF InCtx
    <3>3. CASE i # n
      <4>1. frames'[i] = frames[i]
        BY <1>2, <1>3, <3>3, SMTT(30)
      <4> QED BY <4>1 DEF InCtx
    <3> QED BY <3>2, <3>3
  <2> QED BY <2>1
<1>7. Bracketed'
  BY <1>1, <1>2, <1>6, SameCtxs
<1>8. Nesting'
  <2> SUFFICES ASSUME WellBehaved(program), Running' PROVE Nesting'
    BY DEF Nesting
  <2>1. /\ \A i \in 1 .. n : ~frames'[i].tried /\ Tame(frames'[i].code)
        /\ \A i, j \in 1 .. n : i < j /\ TopLike(frames'[j].code) =>
             TopLike(frames'[i].code) /\ frames'[i].tpl # frames'[j].tpl
    BY <1>1, <1>2, SMTT(30) DEF Nesting, SameFrame
  <2>2. ASSUME NEW i \in 1 .. n, TopLike(frames'[i].code)
        PROVE  /\ frames'[i].tpl \in loaded
               /\ rootCtx[frames'[i].tpl] = IF frames'[i].pc = 1 THEN 0 ELSE frames'[i].act
    <3>1. CASE i = n
      <4>1. TopLike(Top.code) /\ Top.pc # 1
        BY <1>2, <1>3, <1>4, <2>2, <3>1, ShapesDiffer, Zenon DEF SameFrame
      <4>2. frames'[i].pc # 1
        BY <1>2, <1>3, <3>1
      <4> QED BY <1>1, <1>2, <1>3, <3>1, <4>1, <4>2 DEF Nesting, SameFrame
    <3>2. CASE i # n
      <4>1. frames'[i] = frames[i]
        BY <1>2, <1>3, <3>2
      <4> QED BY <1>1, <4>1, <2>2 DEF Nesting
    <3> QED BY <3>1, <3>2, Zenon
  <2> QED BY <1>2, <2>1, <2>2, SMTT(30) DEF Nesting
<1>9. FragmentIsOwn' /\ NoPanic'
  BY <1>1 DEF FragmentIsOwn, NoPanic
<1> QED BY <1>2, <1>5, <1>7, <1>8, <1>9 DEF IInv

\* Skipping a statement keeps the invariant.
LEMMA SkipKeeps ==
  ASSUME IInv, SkipStatement
  PROVE  IInv'
<1>1. FramesOK /\ Running
  BY DEF IInv, SkipStatement
<1>2. /\ FrameOK(Top) /\ Len(Top.code) \in Nat /\ Top.pc \in 1 .. Len(Top.code)
      /\ Current = Top.code[Top.pc] /\ Current.cond
  BY <1>1, TopFacts DEF SkipStatement
<1>3. Top.pc < Len(Top.code)
  BY <1>2, LastInstruction DEF FrameOK
<1>4. Current.op # "start"
  <2>1. Current.op = "start" => Top.pc = 1 /\ ~PlainLike(Top.code)
    BY <1>2, StartIsFirst DEF FrameOK
  <2> QED BY <2>1, <1>2 DEF FrameOK, TopLike, CtxLike
<1> QED BY <1>1, <1>3, <1>4, AdvanceKeeps DEF SkipStatement

\* An error, caught or not, keeps the invariant, but for what a panic does to
\* NoPanic.
LEMMA UnwindKeeps ==
  ASSUME IInv, Running, Unwind, NoPanic',
         UNCHANGED <<program, ctxs, rootCtx, loaded, calls, returned>>
  PROVE  IInv'
<1> DEFINE n == Len(frames)
           tries == {i \in DOMAIN frames : frames[i].tried}
<1>1. FramesOK /\ CtxsOK /\ Nesting /\ Bracketed /\ FragmentIsOwn
  BY DEF IInv
<1>2. n \in Nat /\ n > 0 /\ DOMAIN frames = 1 .. n
  BY <1>1 DEF FramesOK
<1>3. UNCHANGED <<program, ctxs, rootCtx, loaded, calls, returned>>
  OBVIOUS
<1>4. CtxsOK' /\ FragmentIsOwn'
  BY <1>1, <1>3 DEF CtxsOK, FragmentIsOwn
<1>5. CASE status' = "error" /\ frames' = << >>
  <2>1. FramesOK'
    BY <1>1, <1>3, <1>5, SMTT(30) DEF FramesOK, Running
  <2>2. Nesting' /\ Bracketed'
    BY <1>5 DEF Nesting, Bracketed, Running
  <2> QED BY <1>4, <2>1, <2>2, SMTT(30) DEF IInv
<1>6. ASSUME NEW i \in tries, frames' = [SubSeq(frames, 1, i - 1) EXCEPT ![i - 1].pc = @ + 1],
             status' = status
      PROVE  IInv'
  <2>1. i \in 1 .. n /\ frames[i].tried
    BY <1>2, Zenon
  <2>2. ~WellBehaved(program)
    BY <1>1, <2>1 DEF Nesting
  <2>3. i - 1 \in 1 .. n - 1
    <3>1. i # 1
      BY <1>1, <1>2, <2>1 DEF FramesOK
    <3> QED BY <1>2, <2>1, <3>1
  <2>4. frames' = Resumed(frames, i - 1)
    BY <1>6 DEF Resumed
  <2>5. FramesOK'
    BY <1>1, <1>3, <1>6, <2>3, <2>4, ResumedFrames, Zenon
  <2>6. Nesting' /\ Bracketed'
    BY <1>3, <2>2 DEF Nesting, Bracketed
  <2> QED BY <1>4, <2>5, <2>6 DEF IInv
<1> QED BY <1>5, <1>6, Zenon DEF Unwind

\* A panic, which needs an ill-behaved program, keeps the invariant.
LEMMA PanicKeeps ==
  ASSUME IInv, Running, ~WellBehaved(program), NEW message, Panic(message)
  PROVE  IInv'
<1>1. Unwind /\ UNCHANGED <<program, ctxs, rootCtx, loaded, calls, returned>>
  BY Zenon DEF Panic
<1>2. NoPanic'
  BY <1>1 DEF NoPanic
<1> QED BY <1>1, <1>2, UnwindKeeps

\* An activation that is in its context finds it.
LEMMA CtxThere ==
  ASSUME IInv, Running, WellBehaved(program), ~PlainLike(Top.code), Top.pc # 1
  PROVE  /\ \E k \in 1 .. Len(Ctxs) : Ctxs[k].frame = Len(frames)
         /\ Ctxs \in Seq(Context) /\ Len(Ctxs) \in Nat /\ Len(Ctxs) > 0
<1>1. FramesOK /\ CtxsOK /\ Bracketed
  BY DEF IInv
<1>2. Len(frames) \in Nat /\ Len(frames) > 0 /\ Top = frames[Len(frames)] /\ Top.tpl \in Template
  BY <1>1, TopFacts
<1>3. InCtx(Len(frames))
  BY <1>1, <1>2, InCtxShape
<1>4. Ctxs \in Seq(Context) /\ Ctxs = ctxs[Top.tpl]
  BY <1>1, <1>2 DEF Ctxs, CtxsOK
<1>5. Len(frames) \in DOMAIN frames
  BY <1>1, <1>2, SMTT(30) DEF FramesOK
<1>6. \E k \in DOMAIN ctxs[frames[Len(frames)].tpl] :
         ctxs[frames[Len(frames)].tpl][k].frame = Len(frames)
  BY <1>1, <1>3, <1>5 DEF Bracketed
<1> QED BY <1>2, <1>4, <1>6

\* StartNode keeps the invariant.
LEMMA StartNodeKeeps ==
  ASSUME IInv, StartNode
  PROVE  IInv'
<1>1. FramesOK /\ Running /\ Current.op = "node"
  BY Zenon DEF IInv, StartNode, At
<1>2. /\ FrameOK(Top) /\ Len(Top.code) \in Nat /\ Top.pc \in 1 .. Len(Top.code)
      /\ Current = Top.code[Top.pc]
  BY <1>1, TopFacts
<1>3. Top.pc < Len(Top.code)
  BY <1>1, <1>2, LastInstruction DEF FrameOK
<1>4. CASE Ctxs = << >>
  <2>1. ~PlainLike(Top.code) /\ Top.pc # 1
    BY <1>1, <1>2, OpShape DEF FrameOK
  <2>2. ~WellBehaved(program)
    BY <1>1, <1>4, <2>1, CtxThere
  <2> QED BY <1>1, <1>4, <2>2, PanicKeeps, Zenon DEF StartNode
<1>5. CASE Ctxs # << >>
  BY <1>1, <1>3, <1>5, AdvanceKeeps DEF StartNode
<1> QED BY <1>4, <1>5

\* StartCtx keeps the invariant.
LEMMA StartCtxKeeps ==
  ASSUME IInv, StartCtx
  PROVE  IInv'
<1> DEFINE n == Len(frames)
           tpl == Top.tpl
           new == [act |-> Top.act, frame |-> n]
<1>1. FramesOK /\ CtxsOK /\ Nesting /\ Bracketed /\ FragmentIsOwn /\ NoPanic /\ Running
  BY DEF IInv, StartCtx, At
<1>2. /\ n \in Nat /\ n > 0 /\ Top = frames[n] /\ FrameOK(Top) /\ tpl \in Template
      /\ Len(Top.code) \in Nat /\ Top.pc \in 1 .. Len(Top.code) /\ Top.act \in Nat
      /\ Current = Top.code[Top.pc] /\ Current.op = "start"
  BY <1>1, TopFacts, Zenon DEF StartCtx, At
<1>3. Top.pc = 1 /\ ~PlainLike(Top.code) /\ Top.pc < Len(Top.code)
  BY <1>2, StartIsFirst, LastInstruction DEF FrameOK
<1>4. /\ FramesOK' /\ Len(frames') = n
      /\ \A i \in 1 .. n : SameFrame(frames[i], frames'[i])
      /\ \A i \in 1 .. n - 1 : frames'[i] = frames[i]
      /\ frames'[n].pc = 2
  BY <1>1, <1>3, AdvancedFrames DEF StartCtx
<1>5. UNCHANGED <<program, loaded, calls, returned, panics, status>>
  BY DEF StartCtx
<1>6. ctxs' = [ctxs EXCEPT ![tpl] = Append(@, new)]
  BY DEF StartCtx
<1>7. new \in Context /\ new.act \in 1 .. calls
  BY <1>2, Zenon DEF Context, FrameOK
<1>8. /\ ctxs[tpl] \in Seq(Context) /\ Len(ctxs[tpl]) \in Nat
      /\ ctxs'[tpl] = Append(ctxs[tpl], new) /\ Len(ctxs'[tpl]) = Len(ctxs[tpl]) + 1
      /\ ctxs'[tpl] \in Seq(Context)
      /\ \A k \in 1 .. Len(ctxs[tpl]) : ctxs'[tpl][k] = ctxs[tpl][k]
      /\ ctxs'[tpl][Len(ctxs[tpl]) + 1] = new
      /\ \A t \in Template \ {tpl} : ctxs'[t] = ctxs[t]
  BY <1>1, <1>2, <1>6, <1>7, SMTT(30) DEF CtxsOK
<1>9. rootCtx' = IF Len(ctxs[tpl]) = 0 /\ rootCtx[tpl] = 0
                 THEN [rootCtx EXCEPT ![tpl] = Top.act] ELSE rootCtx
  BY DEF StartCtx, Ctxs
<1> HIDE DEF new, tpl
<1>10. CtxsOK'
  <2>1. ctxs' \in [Template -> Seq(Context)]
    BY <1>1, <1>2, <1>6, <1>8 DEF CtxsOK
  <2>2. ASSUME NEW t \in Template, NEW k \in 1 .. Len(ctxs'[t])
        PROVE  ctxs'[t][k].act \in 1 .. calls
    <3>1. CASE t # tpl
      BY <1>1, <1>8, <2>2, <3>1, Zenon DEF CtxsOK
    <3>2. CASE t = tpl /\ k = Len(ctxs[tpl]) + 1
      BY <1>7, <1>8, <3>2
    <3>3. CASE t = tpl /\ k # Len(ctxs[tpl]) + 1
      <4>1. k \in 1 .. Len(ctxs[tpl])
        BY <1>8, <3>3
      <4> QED BY <1>1, <1>8, <3>3, <4>1, Zenon DEF CtxsOK
    <3> QED BY <3>1, <3>2, <3>3
  <2>3. rootCtx' \in [Template -> 0 .. calls]
    <3>1. Top.act \in 0 .. calls
      BY <1>2, SMTT(30) DEF FrameOK
    <3> QED BY <1>1, <1>2, <1>9, <3>1 DEF CtxsOK
  <2> QED BY <1>1, <1>5, <2>1, <2>2, <2>3, Zenon DEF CtxsOK
<1>11. /\ ~Entered(frames[n]) /\ Entered(frames'[n])
       /\ \A i \in 1 .. n - 1 : Entered(frames'[i]) <=> Entered(frames[i])
  <2>1. Top.code[1].op = "start"
    BY <1>2, <1>3, Zenon
  <2>2. frames'[n].code = Top.code
    BY <1>2, <1>4, SMTT(30) DEF SameFrame
  <2> QED BY <1>2, <1>3, <1>4, <2>1, <2>2, SMTT(30) DEF Entered
<1>12. ASSUME WellBehaved(program), NEW t \in Template, NEW k \in 1 .. Len(ctxs[t])
       PROVE  LET i == ctxs[t][k].frame IN
              /\ i \in 1 .. n - 1 /\ Entered(frames[i]) /\ frames[i].tpl = t
              /\ frames[i].act = ctxs[t][k].act
              /\ \A l \in k + 1 .. Len(ctxs[t]) : i < ctxs[t][l].frame
  <2>1. DOMAIN ctxs[t] = 1 .. Len(ctxs[t]) /\ DOMAIN frames = 1 .. n
    BY <1>1, SMTT(30) DEF CtxsOK, FramesOK
  <2> DEFINE i == ctxs[t][k].frame
  <2>2. /\ i \in 1 .. n /\ Entered(frames[i]) /\ frames[i].tpl = t
        /\ frames[i].act = ctxs[t][k].act
        /\ \A l \in k + 1 .. Len(ctxs[t]) : i < ctxs[t][l].frame
    BY <1>1, <1>12, CtxFrame
  <2> HIDE DEF i
  <2>3. i # n
    BY <2>2, <1>11, Zenon
  <2> QED BY <1>2, <2>2, <2>3 DEF i
<1>13. Bracketed'
  <2> SUFFICES ASSUME WellBehaved(program) PROVE Bracketed'
    BY <1>5, Zenon DEF Bracketed, InCtx, Entered
  <2>1. DOMAIN frames' = 1 .. n /\ DOMAIN frames = 1 .. n
    BY <1>1, <1>4, SMTT(30) DEF FramesOK
  <2>2. ASSUME NEW t \in Template, NEW k \in 1 .. Len(ctxs'[t])
        PROVE  LET i == ctxs'[t][k].frame IN
               /\ i \in 1 .. n /\ Entered(frames'[i]) /\ frames'[i].tpl = t
               /\ frames'[i].act = ctxs'[t][k].act
               /\ \A l \in k + 1 .. Len(ctxs'[t]) : i < ctxs'[t][l].frame
    <3> DEFINE i == ctxs'[t][k].frame
    <3>1. CASE t # tpl
      <4>1. ctxs'[t] = ctxs[t]
        BY <1>8, <3>1, Zenon
      <4>2. /\ i \in 1 .. n - 1 /\ Entered(frames[i]) /\ frames[i].tpl = t
            /\ frames[i].act = ctxs[t][k].act
            /\ \A l \in k + 1 .. Len(ctxs[t]) : i < ctxs[t][l].frame
        BY <1>12, <2>2, <4>1, SMTT(30)
      <4> HIDE DEF i
      <4>3. i \in 1 .. n /\ Entered(frames'[i]) /\ frames'[i] = frames[i]
        BY <1>2, <1>4, <1>11, <4>2, SMTT(30)
      <4> QED BY <4>1, <4>2, <4>3 DEF i
    <3>2. CASE t = tpl /\ k = Len(ctxs[tpl]) + 1
      <4>1. i = n /\ ctxs'[t][k].act = Top.act
        BY <1>8, <3>2 DEF new
      <4>2. n \in 1 .. n /\ frames'[n].tpl = tpl /\ frames'[n].act = Top.act
        BY <1>2, <1>4 DEF SameFrame, tpl
      <4>3. \A l \in k + 1 .. Len(ctxs'[t]) : FALSE
        BY <1>8, <3>2, SMTT(30)
      <4> QED BY <3>2, <4>1, <4>2, <4>3, <1>11, SMTT(30)
    <3>3. CASE t = tpl /\ k # Len(ctxs[tpl]) + 1
      <4>1. k \in 1 .. Len(ctxs[tpl]) /\ ctxs'[t][k] = ctxs[t][k]
        BY <1>8, <3>3, <2>2, SMTT(30)
      <4>2. /\ i \in 1 .. n - 1 /\ Entered(frames[i]) /\ frames[i].tpl = t
            /\ frames[i].act = ctxs[t][k].act
            /\ \A l \in k + 1 .. Len(ctxs[t]) : i < ctxs[t][l].frame
        BY <1>12, <3>3, <4>1
      <4> HIDE DEF i
      <4>3. i \in 1 .. n /\ Entered(frames'[i]) /\ frames'[i] = frames[i]
        BY <1>2, <1>4, <1>11, <4>2
      <4>4. ASSUME NEW l \in k + 1 .. Len(ctxs'[t]) PROVE i < ctxs'[t][l].frame
        <5>1. CASE l = Len(ctxs[tpl]) + 1
          <6>1. ctxs'[t][l].frame = n
            BY <1>8, <3>3, <5>1 DEF new
          <6> QED BY <6>1, <4>2, <1>2
        <5>2. CASE l # Len(ctxs[tpl]) + 1
          <6>1. l \in 1 .. Len(ctxs[tpl]) /\ l \in k + 1 .. Len(ctxs[t])
            BY <1>8, <3>3, <4>1, <5>2, SMTT(30)
          <6> QED BY <6>1, <4>2, <1>8, <3>3, Zenon
        <5> QED BY <5>1, <5>2, Zenon
      <4> QED BY <4>1, <4>2, <4>3, <4>4, Zenon DEF i
    <3> QED BY <3>1, <3>2, <3>3, Zenon
  <2>3. ASSUME NEW i \in 1 .. n, Entered(frames'[i])
        PROVE  \E k \in 1 .. Len(ctxs'[frames'[i].tpl]) : ctxs'[frames'[i].tpl][k].frame = i
    <3>1. CASE i = n
      <4>1. frames'[i].tpl = tpl
        BY <1>2, <1>4, <3>1, SMTT(30) DEF SameFrame, tpl
      <4>2. Len(ctxs[tpl]) + 1 \in 1 .. Len(ctxs'[tpl]) /\ ctxs'[tpl][Len(ctxs[tpl]) + 1].frame = n
        BY <1>8, SMTT(30) DEF new
      <4> QED BY <3>1, <4>1, <4>2, SMTT(30)
    <3>2. CASE i # n
      <4>0. i \in 1 .. n - 1
        BY <1>2, <3>2
      <4>1. frames'[i] = frames[i] /\ Entered(frames[i]) /\ i \in DOMAIN frames
        BY <1>4, <1>11, <2>1, <2>3, <4>0
      <4> DEFINE t == frames[i].tpl
      <4>2. t \in Template
        BY <1>1, FrameTemplates
      <4>3. DOMAIN ctxs[t] = 1 .. Len(ctxs[t])
        BY <1>1, <4>2, SMTT(30) DEF CtxsOK
      <4>4. PICK k \in 1 .. Len(ctxs[t]) : ctxs[t][k].frame = i
        BY <1>1, <4>1, <4>3 DEF Bracketed, InCtx, Entered
      <4> HIDE DEF t
      <4>5. k \in 1 .. Len(ctxs'[t]) /\ ctxs'[t][k] = ctxs[t][k]
        <5>1. CASE t = tpl
          BY <1>8, <4>4, <5>1
        <5>2. CASE t # tpl
          BY <1>8, <4>2, <4>4, <5>2
        <5> QED BY <5>1, <5>2
      <4> QED BY <4>1, <4>4, <4>5 DEF t
    <3> QED BY <3>1, <3>2
  <2>4. \A t \in Template : DOMAIN ctxs'[t] = 1 .. Len(ctxs'[t])
    BY <1>10 DEF CtxsOK
  <2>5. \A i \in 1 .. n : frames'[i].tpl \in Template
    BY <1>1, <1>4, FrameTemplates, Zenon DEF SameFrame
  <2>6. \A t \in Template : \A k \in DOMAIN ctxs'[t] :
          LET i == ctxs'[t][k].frame IN
          /\ i \in DOMAIN frames' /\ Entered(frames'[i]) /\ frames'[i].tpl = t
          /\ frames'[i].act = ctxs'[t][k].act
          /\ \A l \in k + 1 .. Len(ctxs'[t]) : i < ctxs'[t][l].frame
    BY <2>1, <2>2, <2>4, SMTT(30)
  <2>7. \A i \in DOMAIN frames' : Entered(frames'[i]) =>
          \E k \in DOMAIN ctxs'[frames'[i].tpl] : ctxs'[frames'[i].tpl][k].frame = i
    BY <2>1, <2>3, <2>4, <2>5, Zenon
  <2> QED BY <2>6, <2>7, SMTT(30) DEF Bracketed, InCtx, Entered
<1>14. Nesting'
  <2> SUFFICES ASSUME WellBehaved(program) PROVE Nesting'
    BY <1>5, SMTT(30) DEF Nesting
  <2>1. /\ \A i \in 1 .. n : ~frames'[i].tried /\ Tame(frames'[i].code)
        /\ \A i, j \in 1 .. n : i < j /\ TopLike(frames'[j].code) =>
             TopLike(frames'[i].code) /\ frames'[i].tpl # frames'[j].tpl
    BY <1>1, <1>4, SMTT(30) DEF Nesting, SameFrame
  <2>2. ASSUME NEW i \in 1 .. n, TopLike(frames'[i].code)
        PROVE  /\ frames'[i].tpl \in loaded
               /\ rootCtx'[frames'[i].tpl] = IF frames'[i].pc = 1 THEN 0 ELSE frames'[i].act
    <3>1. TopLike(frames[i].code) /\ frames'[i].tpl = frames[i].tpl /\ frames'[i].act = frames[i].act
      BY <1>4, <2>2 DEF SameFrame
    <3>2. /\ frames[i].tpl \in loaded
          /\ rootCtx[frames[i].tpl] = IF frames[i].pc = 1 THEN 0 ELSE frames[i].act
      BY <1>1, <3>1, Zenon DEF Nesting
    <3>3. CASE i = n
      <4>1. rootCtx[tpl] = 0 /\ frames[i].tpl = tpl /\ frames[i].act = Top.act
        BY <1>2, <1>3, <3>2, <3>3, Zenon DEF tpl
      <4>2. Len(ctxs[tpl]) = 0
        <5> SUFFICES ASSUME Len(ctxs[tpl]) # 0 PROVE FALSE
          BY Zenon
        <5> DEFINE j == ctxs[tpl][1].frame
        <5>1. j \in 1 .. n - 1 /\ frames[j].tpl = tpl
          BY <1>2, <1>8, <1>12
        <5> HIDE DEF j
        <5>2. j \in 1 .. n /\ j < n
          BY <1>2, <5>1, SMTT(30)
        <5> QED BY <1>1, <1>2, <3>1, <3>3, <4>1, <5>1, <5>2 DEF Nesting
      <4>3. rootCtx'[tpl] = Top.act
        BY <1>1, <1>2, <1>9, <4>1, <4>2 DEF CtxsOK
      <4> QED BY <1>4, <3>1, <3>2, <3>3, <4>1, <4>3
    <3>4. CASE i # n
      <4>1. i \in 1 .. n - 1 /\ frames'[i] = frames[i]
        BY <1>2, <1>4, <3>4
      <4>2. frames[i].pc # 1
        <5>1. Calling(frames[i]) /\ FrameOK(frames[i]) /\ frames[i] \in FrameRecord
          BY <1>1, <1>2, <4>1 DEF FramesOK
        <5>2. Len(frames[i].code) \in Nat
          BY <5>1 DEF FrameRecord
        <5>3. ~PlainLike(frames[i].code)
          BY <3>1, ShapesDiffer
        <5> QED BY <5>1, <5>2, <5>3, OpShape, Zenon DEF Calling, FrameOK
      <4>3. CASE frames[i].tpl = tpl
        <5>1. Entered(frames[i]) /\ i \in DOMAIN frames
          <6>1. ~PlainLike(frames[i].code)
            BY <3>1, ShapesDiffer
          <6> QED BY <1>1, <1>2, <4>1, <4>2, <6>1, InCtxShape, SMTT(30) DEF FramesOK, InCtx, Entered
        <5>2. DOMAIN ctxs[tpl] # {}
          BY <1>1, <5>1, <4>3 DEF Bracketed, InCtx, Entered
        <5>3. Len(ctxs[tpl]) # 0
          BY <5>2, <1>8
        <5> QED BY <5>3, <1>9, <3>2, <4>1, Zenon
      <4>4. CASE frames[i].tpl # tpl
        <5>1. frames[i].tpl \in Template
          BY <3>2, <1>1 DEF CtxsOK
        <5>2. rootCtx'[frames[i].tpl] = rootCtx[frames[i].tpl]
          BY <1>1, <1>9, <4>4, <5>1 DEF CtxsOK
        <5> QED BY <5>2, <3>2, <4>1, Zenon
      <4> QED BY <4>3, <4>4, Zenon
    <3> QED BY <3>3, <3>4
  <2> QED BY <1>4, <1>5, <2>1, <2>2, SMTT(30) DEF Nesting
<1>15. FragmentIsOwn' /\ NoPanic'
  BY <1>1, <1>5, Zenon DEF FragmentIsOwn, NoPanic
<1> QED BY <1>4, <1>10, <1>13, <1>14, <1>15 DEF IInv

\* A return to the caller: what it keeps of the activations below.
LEMMA ReturnFrames ==
  ASSUME IInv, Running, Len(frames) > 1, Resume,
         UNCHANGED <<program, rootCtx, loaded, calls, status>>
  PROVE  /\ FramesOK' /\ Nesting' /\ Len(frames') = Len(frames) - 1
         /\ \A i \in 1 .. Len(frames) - 1 :
              SameFrame(frames[i], frames'[i]) /\ (Entered(frames'[i]) <=> Entered(frames[i]))
<1> DEFINE n == Len(frames)
           m == n - 1
<1>1. FramesOK /\ Nesting
  BY DEF IInv
<1>2. n \in Nat /\ m \in 1 .. n - 1 /\ m \in Nat /\ m > 0 /\ n = m + 1
  BY <1>1 DEF FramesOK
<1>3. frames' = Resumed(frames, m)
  BY DEF Resume, Pop, Resumed
<1> HIDE DEF m
<1>4. /\ FramesOK' /\ Len(frames') = m
      /\ \A i \in 1 .. m : SameFrame(frames[i], frames'[i])
      /\ \A i \in 1 .. m - 1 : frames'[i] = frames[i]
      /\ frames'[m].pc = frames[m].pc + 1
  BY <1>1, <1>2, <1>3, ResumedFrames, Zenon
<1>5. ASSUME NEW i \in 1 .. m
      PROVE  /\ ~PlainLike(frames[i].code) => frames[i].pc # 1 /\ frames'[i].pc # 1
             /\ Entered(frames'[i]) <=> Entered(frames[i])
  <2>1. i \in 1 .. n - 1 /\ i \in 1 .. n
    BY <1>2
  <2>2. FrameOK(frames[i]) /\ Calling(frames[i]) /\ frames[i] \in FrameRecord
    BY <1>1, <2>1, FrameTemplates, Zenon DEF FramesOK
  <2>3. Len(frames[i].code) \in Nat /\ frames[i].pc \in Nat /\ frames[i].pc > 0
    BY <2>2, SMTT(30) DEF FrameRecord, FrameOK
  <2>4. ~PlainLike(frames[i].code) => frames[i].pc # 1
    BY <2>2, <2>3, OpShape, Zenon DEF FrameOK, Calling
  <2>5. frames[i].code[1].op = "start" <=> ~PlainLike(frames[i].code)
    BY <2>2, <2>3, StartIsFirst DEF FrameOK
  <2>6. frames'[i].pc = frames[i].pc \/ frames'[i].pc = frames[i].pc + 1
    BY <1>2, <1>4
  <2>7. frames'[i].code = frames[i].code
    BY <1>4, Zenon DEF SameFrame
  <2> QED BY <2>3, <2>4, <2>5, <2>6, <2>7 DEF Entered
<1>6. Nesting'
  <2> SUFFICES ASSUME WellBehaved(program) PROVE Nesting'
    BY DEF Nesting
  <2>1. \A i \in 1 .. m : i \in 1 .. n
    BY <1>2, SMTT(30)
  <2>2. /\ \A i \in 1 .. m : ~frames'[i].tried /\ Tame(frames'[i].code)
        /\ \A i, j \in 1 .. m : i < j /\ TopLike(frames'[j].code) =>
             TopLike(frames'[i].code) /\ frames'[i].tpl # frames'[j].tpl
    BY <1>1, <1>4, <2>1, SMTT(30) DEF Nesting, SameFrame
  <2>3. ASSUME NEW i \in 1 .. m, TopLike(frames'[i].code)
        PROVE  /\ frames'[i].tpl \in loaded
               /\ rootCtx[frames'[i].tpl] = IF frames'[i].pc = 1 THEN 0 ELSE frames'[i].act
    <3>1. SameFrame(frames[i], frames'[i]) /\ TopLike(frames[i].code)
      BY <1>4, <2>3, Zenon DEF SameFrame
    <3>2. frames[i].pc # 1 /\ frames'[i].pc # 1
      BY <1>5, <3>1, ShapesDiffer, ZenonT(60)
    <3> QED BY <1>1, <2>1, <3>1, <3>2 DEF Nesting, SameFrame
  <2> QED BY <1>4, <2>2, <2>3, Zenon DEF Nesting
<1> QED BY <1>4, <1>5, <1>6, Zenon DEF m

\* The contexts below are kept, and the one of the activation that returns is gone.
LEMMA ReturnCtxs ==
  ASSUME IInv, Running, WellBehaved(program), CtxsOK',
         Len(frames') = Len(frames) - 1, FramesOK',
         \A i \in 1 .. Len(frames) - 1 :
           SameFrame(frames[i], frames'[i]) /\ (Entered(frames'[i]) <=> Entered(frames[i])),
         \A t \in Template :
           /\ Len(ctxs'[t]) <= Len(ctxs[t])
           /\ \A k \in 1 .. Len(ctxs'[t]) :
                ctxs'[t][k] = ctxs[t][k] /\ ctxs[t][k].frame # Len(frames)
           /\ \A k \in 1 .. Len(ctxs[t]) :
                ctxs[t][k].frame # Len(frames) => k \in 1 .. Len(ctxs'[t])
  PROVE  Bracketed'
<1> DEFINE n == Len(frames)
<1>1. FramesOK /\ CtxsOK /\ Bracketed
  BY Zenon DEF IInv
<1>2. n \in Nat /\ DOMAIN frames = 1 .. n /\ DOMAIN frames' = 1 .. n - 1
  BY <1>1, SMTT(30) DEF FramesOK
<1>3. \A t \in Template : /\ DOMAIN ctxs[t] = 1 .. Len(ctxs[t]) /\ Len(ctxs[t]) \in Nat
                            /\ DOMAIN ctxs'[t] = 1 .. Len(ctxs'[t]) /\ Len(ctxs'[t]) \in Nat
  BY <1>1, SMTT(30) DEF CtxsOK
<1>4. ASSUME NEW t \in Template, NEW k \in 1 .. Len(ctxs'[t])
      PROVE  LET i == ctxs'[t][k].frame IN
             /\ i \in 1 .. n - 1 /\ Entered(frames'[i]) /\ frames'[i].tpl = t
             /\ frames'[i].act = ctxs'[t][k].act
             /\ \A l \in k + 1 .. Len(ctxs'[t]) : i < ctxs'[t][l].frame
  <2> DEFINE i == ctxs[t][k].frame
  <2>1. k \in 1 .. Len(ctxs[t]) /\ ctxs'[t][k] = ctxs[t][k] /\ i # n
    BY <1>3, SMTT(30)
  <2>2. /\ i \in 1 .. n /\ Entered(frames[i]) /\ frames[i].tpl = t
        /\ frames[i].act = ctxs[t][k].act
        /\ \A l \in k + 1 .. Len(ctxs[t]) : i < ctxs[t][l].frame
    BY <1>1, <2>1, CtxFrame, Zenon
  <2> HIDE DEF i
  <2>3. i \in 1 .. n - 1
    BY <1>2, <2>1, <2>2, SMTT(30)
  <2>4. \A l \in k + 1 .. Len(ctxs'[t]) :
          l \in k + 1 .. Len(ctxs[t]) /\ l \in 1 .. Len(ctxs'[t]) /\ ctxs'[t][l] = ctxs[t][l]
    BY <1>3, SMTT(30)
  <2> QED BY <2>1, <2>2, <2>3, <2>4, Zenon DEF i, SameFrame
<1>5. ASSUME NEW i \in 1 .. n - 1, Entered(frames'[i])
      PROVE  /\ frames'[i].tpl \in Template
             /\ \E k \in 1 .. Len(ctxs'[frames'[i].tpl]) : ctxs'[frames'[i].tpl][k].frame = i
  <2> DEFINE t == frames[i].tpl
  <2>1. i \in 1 .. n /\ Entered(frames[i]) /\ frames'[i].tpl = t
    BY <1>2, <1>5 DEF SameFrame
  <2>2. t \in Template
    BY <1>1, <2>1, FrameTemplates, Zenon
  <2>3. PICK k \in 1 .. Len(ctxs[t]) : ctxs[t][k].frame = i
    BY <1>1, <2>1, FrameCtx, Zenon
  <2> HIDE DEF t
  <2>4. i # n
    BY <1>2
  <2>5. k \in 1 .. Len(ctxs'[t]) /\ ctxs'[t][k] = ctxs[t][k]
    BY <2>2, <2>3, <2>4, Zenon
  <2> QED BY <2>1, <2>2, <2>3, <2>5, Zenon
<1>6. \A t \in Template : \A k \in DOMAIN ctxs'[t] :
        LET i == ctxs'[t][k].frame IN
        /\ i \in DOMAIN frames' /\ Entered(frames'[i]) /\ frames'[i].tpl = t
        /\ frames'[i].act = ctxs'[t][k].act
        /\ \A l \in k + 1 .. Len(ctxs'[t]) : i < ctxs'[t][l].frame
  BY <1>2, <1>3, <1>4, SMTT(30)
<1>7. \A i \in DOMAIN frames' : Entered(frames'[i]) =>
        \E k \in DOMAIN ctxs'[frames'[i].tpl] : ctxs'[frames'[i].tpl][k].frame = i
  BY <1>2, <1>3, <1>5, Zenon
<1> QED BY <1>6, <1>7, ZenonT(40) DEF Bracketed, InCtx, Entered

\* The context of the last activation is the last one of its template.
LEMMA LastCtx ==
  ASSUME IInv, Running, WellBehaved(program), ~PlainLike(Top.code), Top.pc # 1
  PROVE  /\ Ctxs \in Seq(Context) /\ Len(Ctxs) \in Nat /\ Len(Ctxs) > 0
         /\ Ctxs[Len(Ctxs)].frame = Len(frames) /\ Ctxs[Len(Ctxs)].act = Top.act
         /\ \A k \in 1 .. Len(Ctxs) - 1 : Ctxs[k].frame # Len(frames)
         /\ \A t \in Template \ {Top.tpl} : \A k \in 1 .. Len(ctxs[t]) :
              ctxs[t][k].frame # Len(frames)
<1> DEFINE n == Len(frames)
           q == Len(Ctxs)
<1>1. FramesOK /\ CtxsOK /\ Bracketed
  BY DEF IInv
<1>2. n \in Nat /\ n > 0 /\ Top = frames[n] /\ Top.tpl \in Template /\ DOMAIN frames = 1 .. n
  BY <1>1, TopFacts DEF FramesOK
<1>3. Ctxs \in Seq(Context) /\ q \in Nat /\ q > 0
  BY CtxThere
<1>4. PICK j \in 1 .. q : Ctxs[j].frame = n
  BY CtxThere
<1>5. ASSUME NEW t \in Template PROVE DOMAIN ctxs[t] = 1 .. Len(ctxs[t])
  <2>1. ctxs[t] \in Seq(Context)
    BY <1>1, Zenon DEF CtxsOK
  <2> QED BY <2>1
<1>6. \A t \in Template : \A k \in 1 .. Len(ctxs[t]) :
        /\ ctxs[t][k].frame \in 1 .. n /\ frames[ctxs[t][k].frame].tpl = t
        /\ frames[ctxs[t][k].frame].act = ctxs[t][k].act
        /\ \A l \in k + 1 .. Len(ctxs[t]) : ctxs[t][k].frame < ctxs[t][l].frame
  BY <1>1, CtxFrame, Zenon
<1>7. \A k \in 1 .. q :
        /\ Ctxs[k].frame \in 1 .. n /\ frames[Ctxs[k].frame].act = Ctxs[k].act
        /\ \A l \in k + 1 .. q : Ctxs[k].frame < Ctxs[l].frame
  BY <1>2, <1>6, ZenonT(60) DEF Ctxs
<1>8. j = q
  <2>1. ASSUME j # q PROVE FALSE
    <3>1. q \in j + 1 .. q /\ q \in 1 .. q
      BY <1>3, <2>1
    <3>2. n < Ctxs[q].frame /\ Ctxs[q].frame \in 1 .. n
      BY <1>4, <1>7, <3>1, Zenon
    <3> QED BY <1>2, <3>2
  <2> QED BY <2>1
<1>9. \A k \in 1 .. q - 1 : Ctxs[k].frame # n
  <2>1. \A k \in 1 .. q - 1 : k \in 1 .. q /\ q \in k + 1 .. q
    BY <1>3, SMTT(30)
  <2> QED BY <1>2, <1>4, <1>7, <1>8, <2>1
<1>10. \A t \in Template \ {Top.tpl} : \A k \in 1 .. Len(ctxs[t]) : ctxs[t][k].frame # n
  BY <1>2, <1>6
<1> QED BY <1>2, <1>3, <1>4, <1>7, <1>8, <1>9, <1>10, Zenon

\* A function returns to somebody.
LEMMA HasCaller ==
  ASSUME FramesOK, Running, ~TopLike(Top.code)
  PROVE  Len(frames) > 1
<1>1. Len(frames) \in Nat /\ Len(frames) > 0 /\ Top = frames[Len(frames)]
  BY TopFacts
<1> QED BY <1>1 DEF FramesOK

\* A return keeps the invariant.
LEMMA ReturnKeeps ==
  ASSUME IInv, Return
  PROVE  IInv'
<1> DEFINE n == Len(frames)
<1>1. FramesOK /\ CtxsOK /\ Nesting /\ Bracketed /\ FragmentIsOwn /\ NoPanic /\ Running
  BY Zenon DEF IInv, Return, At
<1>2. /\ n \in Nat /\ n > 0 /\ Top = frames[n] /\ FrameOK(Top)
      /\ Len(Top.code) \in Nat /\ Top.pc \in 1 .. Len(Top.code)
      /\ Current = Top.code[Top.pc] /\ Current.op \in {"return", "return_value"}
  BY <1>1, TopFacts, Zenon DEF Return, At
<1>3. ~TopLike(Top.code)
  BY <1>2, OpShape DEF FrameOK
<1>4. n > 1
  BY <1>1, <1>3, HasCaller
<1>5. Resume /\ UNCHANGED <<program, ctxs, rootCtx, loaded, calls, returned, panics, status>>
  BY DEF Return
<1>6. /\ FramesOK' /\ Nesting' /\ Len(frames') = n - 1
      /\ \A i \in 1 .. n - 1 :
           SameFrame(frames[i], frames'[i]) /\ (Entered(frames'[i]) <=> Entered(frames[i]))
  BY <1>1, <1>4, <1>5, ReturnFrames
<1>7. CtxsOK' /\ FragmentIsOwn' /\ NoPanic'
  BY <1>1, <1>5, Zenon DEF CtxsOK, FragmentIsOwn, NoPanic
<1>8. Bracketed'
  <2> SUFFICES ASSUME WellBehaved(program) PROVE Bracketed'
    BY <1>5, Zenon DEF Bracketed
  <2>1. Tame(Top.code)
    BY <1>1, <1>2, SMTT(30) DEF Nesting
  <2>2. ~CtxLike(Top.code)
    <3>1. DOMAIN Top.code = 1 .. Len(Top.code)
      BY <1>1, TopFacts, SMTT(30) DEF FrameRecord
    <3> QED BY <2>1, <1>2, <3>1 DEF Tame, IsReturn
  <2>3. PlainLike(Top.code)
    BY <1>2, <1>3, <2>2, Zenon DEF FrameOK
  <2>4. ~InCtx(n)
    BY <1>1, <1>2, <2>3, InCtxShape, SMTT(30)
  <2>5. ASSUME NEW t \in Template, NEW k \in 1 .. Len(ctxs[t]) PROVE ctxs[t][k].frame # n
    <3>1. DOMAIN ctxs[t] = 1 .. Len(ctxs[t])
      BY <1>1 DEF CtxsOK
    <3> QED BY <1>1, <2>4, <3>1 DEF Bracketed
  <2>6. \A t \in Template : ctxs'[t] = ctxs[t] /\ Len(ctxs[t]) \in Nat
    BY <1>1, <1>5 DEF CtxsOK
  <2>7. \A t \in Template :
           /\ Len(ctxs'[t]) <= Len(ctxs[t])
           /\ \A k \in 1 .. Len(ctxs'[t]) :
                ctxs'[t][k] = ctxs[t][k] /\ ctxs[t][k].frame # n
           /\ \A k \in 1 .. Len(ctxs[t]) :
                ctxs[t][k].frame # n => k \in 1 .. Len(ctxs'[t])
    BY <2>5, <2>6
  <2> QED BY <1>1, <1>6, <1>7, <2>7, ReturnCtxs, Zenon
<1> QED BY <1>6, <1>7, <1>8 DEF IInv

\* EndCtx keeps the invariant.
LEMMA EndCtxKeeps ==
  ASSUME IInv, EndCtx
  PROVE  IInv'
<1> DEFINE n == Len(frames)
           tpl == Top.tpl
           q == Len(ctxs[tpl])
<1>1. FramesOK /\ CtxsOK /\ Nesting /\ Bracketed /\ FragmentIsOwn /\ NoPanic /\ Running
  BY Zenon DEF IInv, EndCtx, At
<1>2. /\ n \in Nat /\ n > 0 /\ Top = frames[n] /\ FrameOK(Top) /\ tpl \in Template
      /\ Len(Top.code) \in Nat /\ Top.pc \in 1 .. Len(Top.code)
      /\ Current = Top.code[Top.pc] /\ Current.op \in {"end", "end_value"}
  BY <1>1, TopFacts, Zenon DEF EndCtx, At
<1>3. CtxLike(Top.code) /\ Top.pc # 1
  BY <1>2, OpShape DEF FrameOK
<1>4. ~TopLike(Top.code) /\ ~PlainLike(Top.code)
  BY <1>3, ShapesDiffer
<1>5. n > 1
  BY <1>1, <1>4, HasCaller
<1>6. CASE Ctxs = << >>
  <2>1. ~WellBehaved(program)
    BY <1>1, <1>3, <1>4, <1>6, CtxThere
  <2> QED BY <1>1, <1>6, <2>1, PanicKeeps, Zenon DEF EndCtx
<1>7. CASE Ctxs # << >>
  <2>1. /\ Resume /\ UNCHANGED <<program, rootCtx, loaded, calls, panics, status>>
        /\ ctxs' = [ctxs EXCEPT ![tpl] = SubSeq(@, 1, Len(@) - 1)]
        /\ returned' = IF Current.op = "end"
                       THEN [by |-> Top.act, of |-> Ctxs[Len(Ctxs)].act] ELSE returned
    BY <1>7, Zenon DEF EndCtx
  <2>2. /\ FramesOK' /\ Nesting' /\ Len(frames') = n - 1
        /\ \A i \in 1 .. n - 1 :
             SameFrame(frames[i], frames'[i]) /\ (Entered(frames'[i]) <=> Entered(frames[i]))
    BY <1>1, <1>5, <2>1, ReturnFrames
  <2>3. ctxs[tpl] \in Seq(Context) /\ q \in Nat /\ q > 0 /\ Ctxs = ctxs[tpl]
    <3>1. ctxs[tpl] \in Seq(Context) /\ Ctxs = ctxs[tpl]
      BY <1>1, <1>2, Zenon DEF CtxsOK, Ctxs
    <3> QED BY <1>7, <3>1
  <2> HIDE DEF tpl
  <2>4. /\ ctxs'[tpl] = SubSeq(ctxs[tpl], 1, q - 1)
        /\ \A t \in Template \ {tpl} : ctxs'[t] = ctxs[t]
    BY <1>1, <1>2, <2>1 DEF CtxsOK
  <2>5. /\ ctxs'[tpl] \in Seq(Context) /\ Len(ctxs'[tpl]) = q - 1
        /\ \A k \in 1 .. q - 1 : ctxs'[tpl][k] = ctxs[tpl][k]
    <3>1. SubSeq(ctxs[tpl], 1, q - 1) \in Seq(Context) /\ Len(SubSeq(ctxs[tpl], 1, q - 1)) = q - 1
          /\ \A k \in 1 .. q - 1 : SubSeq(ctxs[tpl], 1, q - 1)[k] = ctxs[tpl][k]
      BY <2>3, SMTT(30)
    <3> QED BY <2>4, <3>1
  <2>6. CtxsOK'
    <3>1. ctxs' \in [Template -> Seq(Context)]
      BY <1>1, <1>2, <2>1, <2>4, <2>5 DEF CtxsOK
    <3>2. ASSUME NEW t \in Template, NEW k \in 1 .. Len(ctxs'[t])
          PROVE  ctxs'[t][k].act \in 1 .. calls
      <4>1. CASE t # tpl
        BY <1>1, <2>4, <3>2, <4>1, Zenon DEF CtxsOK
      <4>2. CASE t = tpl
        <5>1. k \in 1 .. q - 1 /\ k \in 1 .. q
          BY <2>3, <2>5, <4>2
        <5> QED BY <1>1, <1>2, <2>5, <4>2, <5>1, Zenon DEF CtxsOK
      <4> QED BY <4>1, <4>2
    <3> QED BY <1>1, <2>1, <3>1, <3>2, Zenon DEF CtxsOK
  <2>7. ASSUME WellBehaved(program)
        PROVE  Bracketed' /\ returned'.by = returned'.of
    <3>1. /\ Ctxs[q].frame = n /\ Ctxs[q].act = Top.act
          /\ \A k \in 1 .. q - 1 : Ctxs[k].frame # n
          /\ \A t \in Template \ {tpl} : \A k \in 1 .. Len(ctxs[t]) : ctxs[t][k].frame # n
      BY <1>1, <1>3, <1>4, <2>3, <2>7, LastCtx, Zenon DEF tpl
    <3>2. ASSUME NEW t \in Template
          PROVE  /\ Len(ctxs'[t]) <= Len(ctxs[t])
                 /\ \A k \in 1 .. Len(ctxs'[t]) :
                      ctxs'[t][k] = ctxs[t][k] /\ ctxs[t][k].frame # n
                 /\ \A k \in 1 .. Len(ctxs[t]) :
                      ctxs[t][k].frame # n => k \in 1 .. Len(ctxs'[t])
      <4>1. CASE t # tpl
        <5>1. Len(ctxs[t]) \in Nat
          BY <1>1 DEF CtxsOK
        <5> QED BY <2>4, <3>1, <4>1, <5>1, SMTT(30)
      <4>2. CASE t = tpl
        <5>1. \A k \in 1 .. q : k = q \/ k \in 1 .. q - 1
          BY <2>3
        <5> QED BY <2>3, <2>5, <3>1, <4>2, <5>1, SMTT(30)
      <4> QED BY <4>1, <4>2, Zenon
    <3>3. Bracketed'
      BY <1>1, <2>2, <2>6, <2>7, <3>2, ReturnCtxs
    <3>4. returned'.by = returned'.of
      BY <1>1, <2>1, <2>3, <2>7, <3>1 DEF FragmentIsOwn
    <3> QED BY <3>3, <3>4
  <2>8. Bracketed' /\ FragmentIsOwn' /\ NoPanic'
    <3>1. CASE WellBehaved(program)
      BY <1>1, <2>1, <2>7, <3>1, Zenon DEF FragmentIsOwn, NoPanic
    <3>2. CASE ~WellBehaved(program)
      BY <2>1, <3>2 DEF Bracketed, FragmentIsOwn, NoPanic
    <3> QED BY <3>1, <3>2, Zenon
  <2> QED BY <2>2, <2>6, <2>8 DEF IInv
<1> QED BY <1>6, <1>7

\* A positive number other than 1.
LEMMA MoreThanOne ==
  ASSUME NEW x \in Nat, x > 0, x # 1
  PROVE  x > 1 /\ 1 \in 1 .. x - 1 /\ 1 \in 1 .. x
OBVIOUS

\* The end of a template's top level keeps the invariant.
LEMMA EndTopKeeps ==
  ASSUME IInv, EndTop
  PROVE  IInv'
<1> DEFINE n == Len(frames)
           tpl == Top.tpl
<1>1. FramesOK /\ CtxsOK /\ Nesting /\ Bracketed /\ FragmentIsOwn /\ NoPanic /\ Running
  BY Zenon DEF IInv, EndTop, At
<1>2. /\ n \in Nat /\ n > 0 /\ Top = frames[n] /\ FrameOK(Top) /\ tpl \in Template
      /\ Len(Top.code) \in Nat /\ Top.pc \in 1 .. Len(Top.code)
      /\ Current = Top.code[Top.pc] /\ Current.op = "end_top"
  BY <1>1, TopFacts, Zenon DEF EndTop, At
<1>3. TopLike(Top.code) /\ Top.pc # 1
  BY <1>2, OpShape DEF FrameOK
<1>4. ~PlainLike(Top.code)
  BY <1>3, ShapesDiffer
<1>5. Ctxs = ctxs[tpl]
  BY Zenon DEF Ctxs
<1>6. ASSUME WellBehaved(program)
      PROVE  Len(Ctxs) = 1 /\ Ctxs[1].frame = n
             /\ \A t \in Template \ {tpl} : \A k \in 1 .. Len(ctxs[t]) : ctxs[t][k].frame # n
  <2> DEFINE q == Len(Ctxs)
  <2>1. /\ q \in Nat /\ q > 0 /\ Ctxs[q].frame = n
        /\ \A t \in Template \ {tpl} : \A k \in 1 .. Len(ctxs[t]) : ctxs[t][k].frame # n
        /\ \A k \in 1 .. q - 1 : Ctxs[k].frame # n
    BY <1>1, <1>3, <1>4, <1>6, LastCtx, Zenon
  <2>2. ASSUME q # 1 PROVE FALSE
    <3> DEFINE i == ctxs[tpl][1].frame
    <3>1. 1 \in 1 .. q - 1 /\ 1 \in 1 .. Len(ctxs[tpl])
      BY <1>5, <2>1, <2>2, MoreThanOne, Zenon
    <3>2. i \in 1 .. n /\ frames[i].tpl = tpl /\ i # n
      <4>1. i \in 1 .. n /\ frames[i].tpl = tpl
        BY <1>1, <1>2, <1>6, <3>1, CtxFrame, Zenon
      <4>2. i # n
        BY <1>5, <2>1, <3>1, Zenon
      <4> QED BY <4>1, <4>2, Zenon
    <3> HIDE DEF i
    <3>3. i < n /\ n \in 1 .. n
      BY <1>2, <3>2
    <3> QED BY <1>1, <1>2, <1>3, <1>6, <3>2, <3>3, Zenon DEF Nesting
  <2> QED BY <2>1, <2>2, Zenon
<1>7. CASE Len(Ctxs) # 1
  <2>1. ~WellBehaved(program)
    BY <1>6, <1>7
  <2> DEFINE m == IF Ctxs = << >> THEN "unexpected ctx end" ELSE "expected all ctxs to end"
  <2>2. Panic(m)
    BY <1>7, Zenon DEF EndTop
  <2> HIDE DEF m
  <2> QED BY <1>1, <2>1, <2>2, PanicKeeps, Zenon
<1>8. CASE Len(Ctxs) = 1
  <2>1. /\ ctxs' = [ctxs EXCEPT ![tpl] = << >>]
        /\ returned' = [by |-> Top.act, of |-> rootCtx[tpl]]
        /\ IF n = 1 THEN frames' = << >> /\ status' = "ok" ELSE Resume /\ status' = status
        /\ UNCHANGED <<program, rootCtx, loaded, calls, panics>>
    BY <1>8 DEF EndTop
  <2> HIDE DEF tpl
  <2>2. ctxs'[tpl] = << >> /\ \A t \in Template \ {tpl} : ctxs'[t] = ctxs[t]
    BY <1>1, <1>2, <2>1, Zenon DEF CtxsOK
  <2>3. CtxsOK'
    <3>1. ctxs' \in [Template -> Seq(Context)]
      BY <1>1, <1>2, <2>1 DEF CtxsOK
    <3>2. ASSUME NEW t \in Template, NEW k \in 1 .. Len(ctxs'[t])
          PROVE  ctxs'[t][k].act \in 1 .. calls
      <4>1. CASE t # tpl
        BY <1>1, <2>2, <3>2, <4>1 DEF CtxsOK
      <4>2. CASE t = tpl
        BY <2>2, <3>2, <4>2
      <4> QED BY <4>1, <4>2
    <3> QED BY <1>1, <2>1, <3>1, <3>2, Zenon DEF CtxsOK
  <2>4. FragmentIsOwn'
    <3> SUFFICES ASSUME WellBehaved(program) PROVE returned'.by = returned'.of
      BY <2>1, Zenon DEF FragmentIsOwn
    <3>1. rootCtx[tpl] = Top.act
      BY <1>1, <1>2, <1>3 DEF Nesting, tpl
    <3> QED BY <2>1, <3>1, Zenon
  <2>5. CASE n = 1
    <3>1. frames' = << >> /\ status' = "ok"
      BY <2>1, <2>5, Zenon
    <3>2. FramesOK'
      BY <1>1, <2>1, <3>1, SMTT(30) DEF FramesOK, Running
    <3>3. Nesting' /\ Bracketed' /\ NoPanic'
      BY <1>1, <2>1, <3>1, Zenon DEF Nesting, Bracketed, NoPanic, Running
    <3> QED BY <2>3, <2>4, <3>2, <3>3 DEF IInv
  <2>6. CASE n # 1
    <3>0. n > 1
      BY <1>2, <2>6, MoreThanOne, Zenon
    <3>1. Resume /\ status' = status /\ n > 1
      BY <2>1, <2>6, <3>0, Zenon
    <3>2. /\ FramesOK' /\ Nesting' /\ Len(frames') = n - 1
          /\ \A i \in 1 .. n - 1 :
               SameFrame(frames[i], frames'[i]) /\ (Entered(frames'[i]) <=> Entered(frames[i]))
      BY <1>1, <2>1, <3>1, ReturnFrames, Zenon
    <3>3. Bracketed'
      <4> SUFFICES ASSUME WellBehaved(program) PROVE Bracketed'
        BY <2>1, Zenon DEF Bracketed
      <4>1. ASSUME NEW t \in Template
            PROVE  /\ Len(ctxs'[t]) <= Len(ctxs[t])
                   /\ \A k \in 1 .. Len(ctxs'[t]) :
                        ctxs'[t][k] = ctxs[t][k] /\ ctxs[t][k].frame # n
                   /\ \A k \in 1 .. Len(ctxs[t]) :
                        ctxs[t][k].frame # n => k \in 1 .. Len(ctxs'[t])
        <5>1. Len(ctxs[t]) \in Nat
          BY <1>1 DEF CtxsOK
        <5>2. CASE t # tpl
          BY <1>6, <2>2, <5>1, <5>2
        <5>3. CASE t = tpl
          <6>1. Len(ctxs'[t]) = 0 /\ Len(ctxs[t]) = 1 /\ ctxs[t][1].frame = n
            BY <1>5, <1>6, <2>2, <5>3, Zenon
          <6> QED BY <6>1
        <5> QED BY <5>2, <5>3, Zenon
      <4> QED BY <1>1, <2>3, <3>2, <4>1, ReturnCtxs, Zenon
    <3>4. NoPanic'
      BY <1>1, <2>1, <3>1, Zenon DEF NoPanic
    <3> QED BY <2>3, <2>4, <3>2, <3>3, <3>4 DEF IInv
  <2> QED BY <2>5, <2>6, SMTT(30)
<1> QED BY <1>7, <1>8, Zenon

\* A new activation has no context yet.
LEMMA CallCtxs ==
  ASSUME IInv, Running, WellBehaved(program), FramesOK', Len(frames') = Len(frames) + 1,
         \A i \in 1 .. Len(frames) : frames'[i] = frames[i],
         frames'[Len(frames) + 1].pc = 1,
         \A t \in Template : ctxs'[t] = ctxs[t]
  PROVE  Bracketed'
<1> DEFINE n == Len(frames)
<1>1. FramesOK /\ CtxsOK /\ Bracketed
  BY DEF IInv
<1>2. n \in Nat /\ DOMAIN frames = 1 .. n /\ DOMAIN frames' = 1 .. n + 1
  BY <1>1 DEF FramesOK
<1>3. \A i \in 1 .. n : i \in 1 .. n + 1
  BY <1>2
<1>4. ASSUME NEW t \in Template, NEW k \in DOMAIN ctxs'[t]
      PROVE  LET i == ctxs'[t][k].frame IN
             /\ i \in DOMAIN frames' /\ Entered(frames'[i]) /\ frames'[i].tpl = t
             /\ frames'[i].act = ctxs'[t][k].act
             /\ \A l \in k + 1 .. Len(ctxs'[t]) : i < ctxs'[t][l].frame
  <2> DEFINE i == ctxs[t][k].frame
  <2>1. ctxs'[t] = ctxs[t] /\ k \in DOMAIN ctxs[t]
    BY Zenon
  <2>2. /\ i \in 1 .. n /\ Entered(frames[i]) /\ frames[i].tpl = t
        /\ frames[i].act = ctxs[t][k].act
        /\ \A l \in k + 1 .. Len(ctxs[t]) : i < ctxs[t][l].frame
    <3>1. k \in 1 .. Len(ctxs[t])
      BY <1>1, <2>1 DEF CtxsOK
    <3> QED BY <1>1, <3>1, CtxFrame, Zenon
  <2> HIDE DEF i
  <2>3. frames'[i] = frames[i] /\ i \in 1 .. n + 1
    BY <1>3, <2>2, Zenon
  <2> QED BY <1>2, <2>1, <2>2, <2>3, Zenon DEF i
<1>5. ASSUME NEW i \in DOMAIN frames', Entered(frames'[i])
      PROVE  \E k \in DOMAIN ctxs'[frames'[i].tpl] : ctxs'[frames'[i].tpl][k].frame = i
  <2>1. i \in 1 .. n
    BY <1>2, <1>5 DEF Entered
  <2>2. frames'[i] = frames[i]
    BY <2>1, Zenon
  <2>3. /\ frames[i].tpl \in Template
        /\ \E k \in 1 .. Len(ctxs[frames[i].tpl]) : ctxs[frames[i].tpl][k].frame = i
    BY <1>1, <1>5, <2>1, <2>2, FrameCtx, Zenon
  <2>4. DOMAIN ctxs[frames[i].tpl] = 1 .. Len(ctxs[frames[i].tpl])
    BY <1>1, <2>3 DEF CtxsOK
  <2> QED BY <2>2, <2>3, <2>4, Zenon
<1> QED BY <1>4, <1>5, ZenonT(60) DEF Bracketed, InCtx, Entered

\* A call keeps the invariant.
LEMMA CallKeeps ==
  ASSUME IInv, Call
  PROVE  IInv'
<1> DEFINE n == Len(frames)
           fn == Current.fn
           c == FunctionCode(program.body[fn])
           f == Frame(Home[fn], c, calls + 1, Current.op = "try_to")
<1>1. FramesOK /\ CtxsOK /\ Nesting /\ Bracketed /\ FragmentIsOwn /\ NoPanic /\ Running
  BY SMTT(30) DEF IInv, Call, At
<1>2. /\ n \in Nat /\ n > 0 /\ Top = frames[n] /\ FrameOK(Top)
      /\ Len(Top.code) \in Nat /\ Top.pc \in 1 .. Len(Top.code)
      /\ Current = Top.code[Top.pc] /\ Current \in Instruction /\ Current.op \in {"call", "try_to"}
  BY <1>1, TopFacts, SMTT(30) DEF Call, At
<1>3. fn \in Function
  BY <1>2, StatementFields DEF Instruction, CallOps
<1>4. program \in Programs /\ calls \in Nat /\ calls \in 1 .. MaxActivations
  BY <1>1, SMTT(30) DEF FramesOK
<1>5. /\ c \in Seq(Instruction) /\ (CtxLike(c) \/ PlainLike(c))
      /\ WellBehaved(program) => Tame(c)
  BY <1>3, <1>4, FunctionShape, SMTT(30)
<1>6. Calling(Top) /\ calls < MaxActivations
  BY <1>2 DEF Calling, CallOps, Call
<1>7. frames' = Append(frames, f) /\ calls' = calls + 1
      /\ UNCHANGED <<program, ctxs, rootCtx, loaded, returned, panics, status>>
  BY Zenon DEF Call
<1> HIDE DEF c
<1>8. /\ f \in FrameRecord /\ f.pc = 1 /\ f.act = calls + 1 /\ f.code = c
      /\ Current.op # "try_to" => ~f.tried
  <2> DEFINE h == Home[fn]
             a == calls + 1
  <2>1. h \in Template /\ a \in Nat
    BY <1>3, <1>4, HomeAssumption
  <2>2. CASE Current.op = "try_to"
    <3> DEFINE g == Frame(h, c, a, TRUE)
    <3>1. f = g
      BY <2>2, Zenon
    <3> HIDE DEF f, h, a
    <3>2. g \in FrameRecord /\ g.pc = 1 /\ g.act = a /\ g.code = c
      BY <1>5, <2>1 DEF Frame, FrameRecord
    <3> HIDE DEF g
    <3> QED BY <2>2, <3>1, <3>2 DEF a
  <2>3. CASE Current.op # "try_to"
    <3> DEFINE g == Frame(h, c, a, FALSE)
    <3>1. f = g
      BY <2>3, Zenon
    <3> HIDE DEF f, h, a
    <3>2. g \in FrameRecord /\ g.pc = 1 /\ g.act = a /\ g.code = c /\ ~g.tried
      BY <1>5, <2>1, SMTT(30) DEF Frame, FrameRecord
    <3> HIDE DEF g
    <3> QED BY <3>1, <3>2 DEF a
  <2> QED BY <2>2, <2>3, Zenon
<1> HIDE DEF f
<1>9. /\ FramesOK' /\ Len(frames') = n + 1
      /\ \A i \in 1 .. n : frames'[i] = frames[i]
      /\ frames'[n + 1] = f
  BY <1>1, <1>5, <1>6, <1>7, <1>8, PushedFrames, SMTT(30)
<1>10. CtxsOK'
  <2>1. \A x \in 1 .. calls : x \in 1 .. calls'
    BY <1>4, <1>7
  <2>2. \A x \in 0 .. calls : x \in 0 .. calls'
    BY <1>4, <1>7
  <2> QED BY <1>1, <1>7, <2>1, <2>2 DEF CtxsOK
<1>11. FragmentIsOwn' /\ NoPanic'
  BY <1>1, <1>7, Zenon DEF FragmentIsOwn, NoPanic
<1>12. CASE ~WellBehaved(program)
  <2>1. Nesting' /\ Bracketed'
    BY <1>7, <1>12, Zenon DEF Nesting, Bracketed
  <2> QED BY <1>9, <1>10, <1>11, <2>1, Zenon DEF IInv
<1>13. CASE WellBehaved(program)
  <2>1. Bracketed'
    BY <1>1, <1>7, <1>8, <1>9, <1>13, CallCtxs, Zenon
  <2>2. Tame(Top.code) /\ Tame(c) /\ ~TopLike(c)
    BY <1>1, <1>2, <1>5, <1>13, ShapesDiffer, SMTT(30) DEF Nesting
  <2>3. Current.op # "try_to"
    <3>1. DOMAIN Top.code = 1 .. Len(Top.code)
      BY <1>1, TopFacts DEF FrameRecord
    <3> QED BY <1>2, <2>2, <3>1, SMTT(30) DEF Tame
  <2>4. \A i \in 1 .. n + 1 : i = n + 1 \/ i \in 1 .. n
    BY <1>2, SMTT(30)
  <2>5. \A i \in 1 .. n + 1 : ~frames'[i].tried /\ Tame(frames'[i].code)
    BY <1>1, <1>8, <1>9, <1>13, <2>2, <2>3, <2>4, Zenon DEF Nesting
  <2>6. \A i \in 1 .. n + 1 : TopLike(frames'[i].code) => i \in 1 .. n
    BY <1>8, <1>9, <2>2, <2>4, SMTT(30)
  <2>7. \A i, j \in 1 .. n + 1 : i < j /\ j \in 1 .. n => i \in 1 .. n
    BY <1>2, SMTT(30)
  <2>8. \A i, j \in 1 .. n + 1 : i < j /\ TopLike(frames'[j].code) =>
             TopLike(frames'[i].code) /\ frames'[i].tpl # frames'[j].tpl
    BY <1>1, <1>9, <1>13, <2>6, <2>7, Zenon DEF Nesting
  <2>9. \A i \in 1 .. n + 1 : TopLike(frames'[i].code) =>
             /\ frames'[i].tpl \in loaded
             /\ rootCtx[frames'[i].tpl] = IF frames'[i].pc = 1 THEN 0 ELSE frames'[i].act
    BY <1>1, <1>9, <1>13, <2>6, Zenon DEF Nesting
  <2>10. Nesting'
    BY <1>7, <1>9, <2>5, <2>8, <2>9, SMTT(30) DEF Nesting
  <2> QED BY <1>9, <1>10, <1>11, <2>1, <2>10, Zenon DEF IInv
<1> QED BY <1>12, <1>13

\* Everything below the top level of a template is the top level of another one.
LEMMA LoadKeeps ==
  ASSUME IInv, Load
  PROVE  IInv'
<1> DEFINE n == Len(frames)
           tpl == Current.tpl
           c == TopCode(program.top[tpl])
           f == Frame(tpl, c, calls + 1, FALSE)
<1>1. FramesOK /\ CtxsOK /\ Nesting /\ Bracketed /\ FragmentIsOwn /\ NoPanic /\ Running
  BY Zenon DEF IInv, Load, At
<1>2. /\ n \in Nat /\ n > 0 /\ Top = frames[n] /\ FrameOK(Top)
      /\ Len(Top.code) \in Nat /\ Top.pc \in 1 .. Len(Top.code)
      /\ Current = Top.code[Top.pc] /\ Current \in Instruction /\ Current.op = "load"
  BY <1>1, TopFacts, Zenon DEF Load, At
<1>3. tpl \in Template
  BY <1>2, StatementFields DEF Instruction, CallOps
<1>4. program \in Programs /\ calls \in Nat /\ calls \in 1 .. MaxActivations /\ calls + 1 \in Nat
  BY <1>1, SMTT(30) DEF FramesOK
<1>5. /\ c \in Seq(Instruction) /\ TopLike(c)
      /\ WellBehaved(program) => Tame(c)
  BY <1>3, <1>4, TopShape, Zenon
<1>6. Calling(Top) /\ calls < MaxActivations /\ tpl \notin loaded
  BY <1>2, Zenon DEF Calling, CallOps, Load
<1>7. /\ frames' = Append(frames, f) /\ calls' = calls + 1
      /\ ctxs' = [ctxs EXCEPT ![tpl] = << >>] /\ rootCtx' = [rootCtx EXCEPT ![tpl] = 0]
      /\ loaded' = loaded \cup {tpl}
      /\ UNCHANGED <<program, returned, panics, status>>
  BY Zenon DEF Load
<1> HIDE DEF c
<1>8. /\ f \in FrameRecord /\ f.pc = 1 /\ f.act = calls + 1 /\ f.code = c
      /\ ~f.tried /\ f.tpl = tpl
  BY <1>3, <1>4, <1>5, Zenon DEF Frame, FrameRecord
<1> HIDE DEF f, tpl
<1>9. /\ FramesOK' /\ Len(frames') = n + 1
      /\ \A i \in 1 .. n : frames'[i] = frames[i]
      /\ frames'[n + 1] = f
  BY <1>1, <1>5, <1>6, <1>7, <1>8, PushedFrames, Zenon
<1>10. /\ ctxs'[tpl] = << >> /\ \A t \in Template \ {tpl} : ctxs'[t] = ctxs[t]
       /\ rootCtx'[tpl] = 0 /\ \A t \in Template \ {tpl} : rootCtx'[t] = rootCtx[t]
  BY <1>1, <1>3, <1>7 DEF CtxsOK
<1>11. CtxsOK'
  <2>1. \A x \in 1 .. calls : x \in 1 .. calls'
    BY <1>4, <1>7
  <2>2. 0 \in 0 .. calls' /\ \A x \in 0 .. calls : x \in 0 .. calls'
    BY <1>4, <1>7
  <2>3. ctxs' \in [Template -> Seq(Context)]
    BY <1>1, <1>3, <1>7 DEF CtxsOK
  <2>4. rootCtx' \in [Template -> 0 .. calls']
    BY <1>1, <1>3, <1>7, <2>2 DEF CtxsOK
  <2>5. ASSUME NEW t \in Template, NEW k \in 1 .. Len(ctxs'[t])
        PROVE  ctxs'[t][k].act \in 1 .. calls'
    <3>1. CASE t # tpl
      BY <1>1, <1>10, <2>1, <2>5, <3>1, Zenon DEF CtxsOK
    <3>2. CASE t = tpl
      BY <1>10, <2>5, <3>2, SMTT(30)
    <3> QED BY <3>1, <3>2, Zenon
  <2>6. loaded' \subseteq Template
    BY <1>1, <1>3, <1>7 DEF CtxsOK
  <2> QED BY <2>3, <2>4, <2>5, <2>6 DEF CtxsOK
<1>12. FragmentIsOwn' /\ NoPanic'
  BY <1>1, <1>7, Zenon DEF FragmentIsOwn, NoPanic
<1>13. CASE ~WellBehaved(program)
  <2>1. Nesting' /\ Bracketed'
    BY <1>7, <1>13, Zenon DEF Nesting, Bracketed
  <2> QED BY <1>9, <1>11, <1>12, <2>1 DEF IInv
<1>14. CASE WellBehaved(program)
  <2>1. TopLike(Top.code)
    BY <1>2, OpShape, Zenon DEF FrameOK
  <2>2. \A i \in 1 .. n : TopLike(frames[i].code) /\ frames[i].tpl \in loaded /\ frames[i].tpl # tpl
    <3>1. \A i \in 1 .. n : i = n \/ i < n
      BY <1>2
    <3>2. n \in 1 .. n
      BY <1>2
    <3> QED BY <1>1, <1>2, <1>6, <1>14, <2>1, <3>1, <3>2, Zenon DEF Nesting
  <2>3. ctxs[tpl] = << >>
    <3>1. ctxs[tpl] \in Seq(Context) /\ DOMAIN frames = 1 .. n
      BY <1>1, <1>3, SMTT(30) DEF CtxsOK, FramesOK
    <3>2. \A k \in DOMAIN ctxs[tpl] : FALSE
      BY <1>1, <1>3, <1>14, <2>2, <3>1 DEF Bracketed
    <3>3. Len(ctxs[tpl]) = 0
      <4>1. Len(ctxs[tpl]) \in Nat /\ DOMAIN ctxs[tpl] = 1 .. Len(ctxs[tpl])
        BY <3>1
      <4> QED BY <3>2, <4>1
    <3> QED BY <3>1, <3>3
  <2>4. \A t \in Template : ctxs'[t] = ctxs[t]
    BY <1>10, <2>3, Zenon
  <2>5. Bracketed'
    BY <1>1, <1>8, <1>9, <1>14, <2>4, CallCtxs, Zenon
  <2>6. \A i \in 1 .. n + 1 : i = n + 1 \/ i \in 1 .. n
    BY <1>2, SMTT(30)
  <2>7. \A i \in 1 .. n + 1 : ~frames'[i].tried /\ Tame(frames'[i].code)
    BY <1>1, <1>5, <1>8, <1>9, <1>14, <2>6, Zenon DEF Nesting
  <2>8. \A i, j \in 1 .. n + 1 : i < j => i \in 1 .. n
    BY <1>2, SMTT(30)
  <2>9. \A i, j \in 1 .. n + 1 : i < j /\ TopLike(frames'[j].code) =>
             TopLike(frames'[i].code) /\ frames'[i].tpl # frames'[j].tpl
    BY <1>1, <1>8, <1>9, <1>14, <2>2, <2>6, <2>8, ZenonT(60) DEF Nesting
  <2>10. ASSUME NEW i \in 1 .. n + 1
         PROVE  /\ frames'[i].tpl \in loaded'
                /\ rootCtx'[frames'[i].tpl] = IF frames'[i].pc = 1 THEN 0 ELSE frames'[i].act
    <3>1. CASE i = n + 1
      BY <1>7, <1>8, <1>9, <1>10, <3>1, Zenon
    <3>2. CASE i \in 1 .. n
      <4>1. frames'[i] = frames[i] /\ frames[i].tpl \in Template \ {tpl}
        BY <1>1, <1>9, <2>2, <3>2, Zenon DEF CtxsOK
      <4>2. rootCtx'[frames[i].tpl] = rootCtx[frames[i].tpl]
        BY <1>10, <4>1, Zenon
      <4> QED BY <1>1, <1>7, <1>14, <2>2, <3>2, <4>1, <4>2, Zenon DEF Nesting
    <3> QED BY <2>6, <3>1, <3>2, Zenon
  <2>11. Nesting'
    BY <1>7, <1>9, <2>7, <2>9, <2>10, SMTT(60) DEF Nesting
  <2> QED BY <1>9, <1>11, <1>12, <2>5, <2>11 DEF IInv
<1> QED BY <1>13, <1>14

\* A failure, caught or not, keeps the invariant.
LEMMA FailKeeps ==
  ASSUME IInv, Fail
  PROVE  IInv'
<1>1. /\ Running /\ Unwind /\ UNCHANGED <<program, ctxs, rootCtx, loaded, calls, returned>>
      /\ panics' = panics
  BY Zenon DEF Fail, At
<1>2. NoPanic'
  BY <1>1 DEF IInv, NoPanic
<1> QED BY <1>1, <1>2, UnwindKeeps

\* The invariant holds initially.
LEMMA InitKeeps ==
  ASSUME Init
  PROVE  IInv
<1> DEFINE c == TopCode(program.top[Main])
           f == Frame(Main, c, 1, FALSE)
<1>1. program \in Programs /\ Main \in Template
  BY HomeAssumption DEF Init
<1>2. c \in Seq(Instruction) /\ TopLike(c) /\ (WellBehaved(program) => Tame(c))
  BY <1>1, TopShape, Zenon
<1>3. frames = <<f>> /\ calls = 1 /\ status = "running" /\ panics = {} /\ loaded = {Main}
      /\ ctxs = [t \in Template |-> << >>] /\ rootCtx = [t \in Template |-> 0]
      /\ returned = [by |-> 0, of |-> 0]
  BY Zenon DEF Init
<1> HIDE DEF c
<1>4. f \in FrameRecord /\ f.pc = 1 /\ f.act = 1 /\ f.code = c /\ ~f.tried /\ f.tpl = Main
  BY <1>1, <1>2 DEF Frame, FrameRecord
<1> HIDE DEF f
<1>5. frames \in Seq(FrameRecord) /\ Len(frames) = 1 /\ frames[1] = f
  BY <1>3, <1>4, SMTT(30)
<1>6. FramesOK
  <2>1. MaxActivations \in Nat /\ MaxActivations > 0
    BY ActivationAssumption, SMTT(30)
  <2>2. Len(c) \in Nat /\ Len(c) > 1
    BY <1>2 DEF TopLike
  <2>3. FrameOK(f)
    BY <1>2, <1>3, <1>4, <2>2 DEF FrameOK
  <2>4. \A i \in 1 .. Len(frames) : i = 1
    BY <1>5
  <2>5. \A i \in 1 .. Len(frames) : FrameOK(frames[i])
    BY <1>5, <2>3, <2>4
  <2>6. \A i \in 1 .. Len(frames) - 1 : Calling(frames[i])
    BY <1>5
  <2>7. calls \in 1 .. MaxActivations
    BY <1>3, <2>1, SMTT(30)
  <2> QED BY <1>1, <1>2, <1>4, <1>5, <2>5, <2>6, <2>7 DEF FramesOK
<1>7. CtxsOK
  BY <1>1, <1>3, SMTT(30) DEF CtxsOK
<1>8. Nesting
  <2> SUFFICES ASSUME WellBehaved(program) PROVE Nesting
    BY DEF Nesting
  <2>1. \A i \in 1 .. Len(frames) : i = 1 /\ frames[i] = f
    BY <1>5
  <2>2. rootCtx[Main] = 0 /\ Main \in loaded
    BY <1>1, <1>3, Zenon
  <2> QED BY <1>2, <1>4, <2>1, <2>2, SMTT(30) DEF Nesting
<1>9. Bracketed
  <2>1. ASSUME NEW t \in Template, NEW k \in DOMAIN ctxs[t] PROVE FALSE
    <3>1. ctxs[t] = << >>
      BY <1>3
    <3> QED BY <2>1, <3>1
  <2>2. \A i \in DOMAIN frames : frames[i].pc = 1
    BY <1>3, <1>4
  <2>3. \A i \in DOMAIN frames : ~InCtx(i)
    BY <2>2 DEF InCtx
  <2> QED BY <2>1, <2>3 DEF Bracketed
<1>10. FragmentIsOwn /\ NoPanic
  BY <1>3 DEF FragmentIsOwn, NoPanic
<1> QED BY <1>6, <1>7, <1>8, <1>9, <1>10, Zenon DEF IInv

-----------------------------------------------------------------------------

\* The invariant is inductive: every action of the compiled program keeps it.
THEOREM Inductive == Spec => []IInv
<1>1. Init => IInv
  BY InitKeeps
<1>2. IInv /\ [Next]_vars => IInv'
  <2> SUFFICES ASSUME IInv, [Next]_vars PROVE IInv'
    OBVIOUS
  <2>1. CASE UNCHANGED vars
    <3>1. UNCHANGED <<program, frames, ctxs, rootCtx, loaded, calls, returned, panics, status>>
      BY <2>1, Zenon DEF vars
    <3>2. FramesOK'
      BY <3>1 DEF IInv, FramesOK, FrameOK, Calling, Running
    <3>3. CtxsOK'
      BY <3>1, Zenon DEF IInv, CtxsOK
    <3>4. Nesting'
      BY <3>1 DEF IInv, Nesting, Running
    <3>5. Bracketed'
      <4>1. CASE Running
        <5>1. \A i \in 1 .. Len(frames) : InCtx(i)' <=> InCtx(i)
          BY <3>1, Zenon DEF InCtx
        <5> QED BY <3>1, <3>2, <4>1, <5>1, SameCtxs DEF IInv, SameFrame
      <4>2. CASE ~Running
        BY <3>1, <4>2, Zenon DEF Bracketed, Running
      <4> QED BY <4>1, <4>2
    <3>6. FragmentIsOwn' /\ NoPanic'
      BY <3>1 DEF IInv, FragmentIsOwn, NoPanic
    <3> QED BY <3>2, <3>3, <3>4, <3>5, <3>6 DEF IInv
  <2>2. CASE SkipStatement
    BY <2>2, SkipKeeps
  <2>3. CASE StartCtx
    BY <2>3, StartCtxKeeps, SMTT(30)
  <2>4. CASE StartNode
    BY <2>4, StartNodeKeeps
  <2>5. CASE Return
    BY <2>5, ReturnKeeps
  <2>6. CASE EndCtx
    BY <2>6, EndCtxKeeps
  <2>7. CASE EndTop
    BY <2>7, EndTopKeeps
  <2>8. CASE Call
    BY <2>8, CallKeeps
  <2>9. CASE Load
    BY <2>9, LoadKeeps
  <2>10. CASE Fail
    BY <2>10, FailKeeps
  <2> QED BY <2>1, <2>2, <2>3, <2>4, <2>5, <2>6, <2>7, <2>8, <2>9, <2>10 DEF Next
<1> QED BY <1>1, <1>2, PTL DEF Spec

\* Every activation of a compiled program has an instruction to execute next:
\* ProgramAST closes the code of every function, and a caller is never at the
\* last instruction of its code.
THEOREM TypeCorrect == Spec => []TypeOK
<1>1. IInv => TypeOK
  <2> SUFFICES ASSUME IInv PROVE TypeOK
    OBVIOUS
  <2>1. FramesOK /\ CtxsOK
    BY SMTT(30) DEF IInv
  <2>2. program \in Program /\ calls \in 1 .. MaxActivations /\ (status = "running" => frames # << >>)
    BY <2>1, ProgramAssumption, SMTT(30) DEF FramesOK, Running
  <2>3. ASSUME NEW i \in DOMAIN frames
        PROVE  LET f == frames[i] IN
               /\ f.tpl \in Template /\ f.tried \in BOOLEAN /\ f.act \in 1 .. calls
               /\ f.pc \in DOMAIN f.code /\ f.code[f.pc].op \in Op
    <3> DEFINE f == frames[i]
    <3>1. f \in FrameRecord /\ FrameOK(f)
      BY <2>1 DEF FramesOK
    <3> HIDE DEF f
    <3>2. /\ f.tpl \in Template /\ f.tried \in BOOLEAN /\ f.act \in 1 .. calls
          /\ f.code \in Seq(Instruction) /\ f.pc \in 1 .. Len(f.code)
      BY <3>1 DEF FrameRecord, FrameOK
    <3>3. f.pc \in DOMAIN f.code /\ f.code[f.pc] \in Instruction
      BY <3>2
    <3>4. ASSUME NEW s \in Instruction PROVE s.op \in Op
      <4>1. CASE s \in Statement
        BY <4>1, StatementFields DEF Op, CallOps
      <4>2. CASE s \in [op : Op \ CallOps, cond : BOOLEAN]
        BY <4>2
      <4> QED BY <4>1, <4>2 DEF Instruction
    <3> QED BY <3>2, <3>3, <3>4 DEF f
  <2>4. ctxs \in [Template -> Seq([act : 1 .. calls, frame : Nat])]
    <3>1. ASSUME NEW t \in Template PROVE ctxs[t] \in Seq([act : 1 .. calls, frame : Nat])
      <4>1. ctxs[t] \in Seq(Context) /\ \A k \in 1 .. Len(ctxs[t]) : ctxs[t][k].act \in 1 .. calls
        BY <2>1, SMTT(30) DEF CtxsOK
      <4>2. ASSUME NEW k \in 1 .. Len(ctxs[t])
            PROVE  ctxs[t][k] \in [act : 1 .. calls, frame : Nat]
        <5>1. ctxs[t][k] \in Context /\ ctxs[t][k].act \in 1 .. calls
          BY <4>1
        <5> QED BY <5>1 DEF Context
      <4> DEFINE q == ctxs[t]
                 R == [act : 1 .. calls, frame : Nat]
      <4>3. q \in Seq(Context) /\ \A k \in 1 .. Len(q) : q[k] \in R
        BY <4>1, <4>2
      <4> HIDE DEF q, R
      <4>4. q \in Seq(R)
        BY <4>3
      <4> QED BY <4>4 DEF q, R
    <3> QED BY <2>1, <3>1, Zenon DEF CtxsOK
  <2> QED BY <2>1, <2>2, <2>3, <2>4, Zenon DEF TypeOK, CtxsOK
<1> QED BY <1>1, Inductive, PTL

\* The contexts of a template are those of its activations in progress, in the
\* order of the call stack (tplStartCtx, tplEndCtx).
THEOREM ContextsAreBracketed == Spec => []Bracketed
<1>1. IInv => Bracketed
  BY DEF IInv
<1> QED BY <1>1, Inductive, PTL

\* Functions and templates return the fragments that they built themselves
\* (tplEndCtx, CompiledTemplate.eval).
THEOREM FragmentsAreOwn == Spec => []FragmentIsOwn
<1>1. IInv => FragmentIsOwn
  BY DEF IInv
<1> QED BY <1>1, Inductive, PTL

\* No well-behaved program makes tplEndCtx, tplStartNode or CompiledTemplate.eval
\* panic.
THEOREM NeverPanics == Spec => []NoPanic
<1>1. IInv => NoPanic
  BY DEF IInv
<1> QED BY <1>1, Inductive, PTL

=============================================================================
