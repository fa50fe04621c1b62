----------------------- MODULE LibraryExecution_proofs -----------------------
(***************************************************************************)
(* Proofs about LibraryExecution: what the executions on the stack hold    *)
(* and in which order, for every tree of libraries and all its documents.  *)
(***************************************************************************)
EXTENDS LibraryEnvelopes_proofs

-----------------------------------------------------------------------------
(* The inductive invariant.                                                   *)

InstanceValue == [path : Path, alias : Alias \cup {""}, skip : BOOLEAN,
                  added : Seq(Envelope), addedSchemas : Seq(Envelope)]

Frame == [lib : Library, ref : LibraryRef, call : Calls, skip : BOOLEAN, run : Nat,
          schema : Seq(Envelope), values : Seq(Envelope),
          libSchemas : Seq(Envelope \cup {Nil}), libValues : Seq(Envelope),
          usedSchemas : SUBSET Nat, usedValues : SUBSET Nat,
          instances : Seq(InstanceValue), calls : Nat]

\* A library instance that execution f at this depth holds.
InstanceOK(inst, f, depth) ==
  /\ inst.path \in DOMAIN Private[f.lib]
  /\ f.skip => inst.skip
  /\ \A e \in Range(inst.added) : Addable(e, "dv", depth, f.calls)
  /\ \A e \in Range(inst.addedSchemas) : Addable(e, "schema", depth, f.calls)
  /\ Sorted(inst.added, DeeperPairs) /\ Sorted(inst.addedSchemas, DeeperPairs)

FrameOK(f, depth) ==
  /\ \A e \in Range(f.libValues) : Postable(e, "dv", f.run, depth)
  /\ \A e \in Range(f.libSchemas) \ {Nil} : Postable(e, "schema", f.run, depth)
  /\ Sorted(f.libValues, DeeperPairs) /\ Sorted(f.libSchemas, DeeperPairs)
  /\ Merged(f.values) /\ Merged(f.schema)
  /\ f.usedValues \subseteq DOMAIN f.libValues
  /\ f.usedSchemas \subseteq DOMAIN f.libSchemas
  /\ \A i \in DOMAIN f.instances : InstanceOK(f.instances[i], f, depth)

\* The schema and the data values of instance inst of execution f, as [own,
\* children], when the execution of its library would be number run.
SchemasFor(f, inst, run, depth) ==
  librarySchemas(f.libSchemas \o inst.addedSchemas, Ref(inst), Private[f.lib][inst.path],
                 run, depth)
ValuesFor(f, inst, run, depth) ==
  libraryValues(f.libValues \o inst.added, Ref(inst), Private[f.lib][inst.path],
                SchemasFor(f, inst, run, depth).own, run, depth)

\* What evaluating instance number i of execution f merges, whenever it happens:
\* the number of the new execution, here 0, is not part of it.
MergedLayers(f, i, depth) == Layers(ValuesFor(f, f.instances[i], 0, depth + 1).own)

\* The executions in progress, when r were started.
StackOK(st, r) ==
  /\ st \in Seq(Frame) /\ Len(st) <= r
  /\ \A d \in 1 .. Len(st) : FrameOK(st[d], d) /\ st[d].run <= r
  /\ \A c, d \in 1 .. Len(st) : c < d => st[c].run < st[d].run
  /\ \A c, d \in 1 .. Len(st) : c < d /\ st[c].skip => st[d].skip

\* An outcome of an execution in progress is that of the instance it names.
OutcomeOK(o, st, r) ==
  /\ o.instance[1] \in Nat /\ o.instance[1] <= r
  /\ \A d \in 1 .. Len(st) : o.instance[1] = st[d].run =>
       /\ o.instance[2] \in DOMAIN st[d].instances
       /\ o.layers = MergedLayers(st[d], o.instance[2], d)

OutcomesOK(O, st, r) ==
  /\ \A o \in O : OutcomeOK(o, st, r)
  /\ \A a, b \in O : a.instance = b.instance => a.layers = b.layers

IInv ==
  /\ runs \in Nat /\ runs <= MaxRuns
  /\ StackOK(stack, runs)
  /\ OutcomesOK(outcomes, stack, runs)
  /\ \A doc \in declared : doc \in Document /\ doc.run <= runs
  /\ status \in {"init", "running", "inspected", "ok", "error"}
  /\ Running <=> stack # << >>
  /\ status = "init" => runs = 0

-----------------------------------------------------------------------------
(* The executions.                                                            *)

\* What the execution of one library hands to an instance of a library below.
LEMMA GivenLists ==
  ASSUME NEW f \in Frame, NEW d \in Nat, FrameOK(f, d), Nil \notin Range(f.libSchemas),
         NEW i \in DOMAIN f.instances
  PROVE  /\ f.instances[i] \in InstanceValue
         /\ Private[f.lib][f.instances[i].path] \in Library
         /\ f.run \in Nat
         /\ GivenList(f.libValues \o f.instances[i].added, "dv", f.run, d)
         /\ GivenList(f.libSchemas \o f.instances[i].addedSchemas, "schema", f.run, d)
  <1> DEFINE inst == f.instances[i]
             lv == f.libValues
             ls == f.libSchemas
             av == inst.added
             as == inst.addedSchemas
  <1>1. /\ f.instances \in Seq(InstanceValue) /\ f.run \in Nat /\ f.calls \in Nat
        /\ lv \in Seq(Envelope) /\ ls \in Seq(Envelope \cup {Nil}) /\ f.lib \in Library
    BY DEF Frame
  <1>2. inst \in InstanceValue
    BY <1>1, LenProperties, ElementOfSeq
  <1>3. inst.path \in DOMAIN Private[f.lib]
    BY DEF FrameOK, InstanceOK
  <1>4. Private[f.lib][inst.path] \in Library
    <2>1. Private[f.lib] \in UNION {[P -> Library] : P \in SUBSET Path}
      BY <1>1, TreeAssumption DEF Tree
    <2>2. PICK P \in SUBSET Path : Private[f.lib] \in [P -> Library]
      BY <2>1
    <2> QED
      BY <1>3, <2>2
  <1>5. av \in Seq(Envelope) /\ as \in Seq(Envelope)
    BY <1>2, Zenon DEF InstanceValue
  <1>6. /\ \A e \in Range(lv) : Postable(e, "dv", f.run, d)
        /\ Sorted(lv, DeeperPairs)
        /\ \A e \in Range(ls) : Postable(e, "schema", f.run, d)
        /\ Sorted(ls, DeeperPairs)
    BY DEF FrameOK
  <1>7. /\ \A e \in Range(av) : Addable(e, "dv", d, f.calls)
        /\ Sorted(av, DeeperPairs)
        /\ \A e \in Range(as) : Addable(e, "schema", d, f.calls)
        /\ Sorted(as, DeeperPairs)
    BY DEF FrameOK, InstanceOK
  <1> HIDE DEF inst, lv, ls, av, as
  <1>8. ls \in Seq(Envelope)
    <2>1. Range(ls) \subseteq Envelope
      BY <1>6 DEF Postable
    <2> QED
      BY <1>1, <2>1, SequenceOver
  <1>9. GivenList(lv \o av, "dv", f.run, d)
    BY <1>1, <1>5, <1>6, <1>7, GivenSorted, Zenon DEF GivenList
  <1>10. GivenList(ls \o as, "schema", f.run, d)
    BY <1>1, <1>5, <1>6, <1>7, <1>8, GivenSorted, Zenon DEF GivenList
  <1> QED
    BY <1>1, <1>2, <1>4, <1>9, <1>10 DEF inst, lv, ls, av, as

\* The documents of the library that an instance stands for.
LEMMA InstanceResults ==
  ASSUME NEW f \in Frame, NEW d \in Nat, FrameOK(f, d), Nil \notin Range(f.libSchemas),
         NEW i \in DOMAIN f.instances, NEW run \in Nat, f.run <= run
  PROVE  /\ ResultOK(SchemasFor(f, f.instances[i], run, d + 1), "schema", run, d + 1)
         /\ ResultOK(ValuesFor(f, f.instances[i], run, d + 1), "dv", run, d + 1)
         /\ ValuesFor(f, f.instances[i], run, d + 1).children \in Seq(Envelope)
  <1> DEFINE inst == f.instances[i]
             lib == Private[f.lib][inst.path]
             v == f.libValues \o inst.added
             s == f.libSchemas \o inst.addedSchemas
             S == SchemasFor(f, inst, run, d + 1)
             V == ValuesFor(f, inst, run, d + 1)
  <1>1. /\ lib \in Library /\ f.run \in Nat
        /\ GivenList(v, "dv", f.run, d) /\ GivenList(s, "schema", f.run, d)
    BY GivenLists
  <1>2. /\ S = librarySchemas(s, Ref(inst), lib, run, d + 1)
        /\ V = libraryValues(v, Ref(inst), lib, S.own, run, d + 1)
    BY DEF SchemasFor, ValuesFor
  <1> HIDE DEF lib, v, s, S, V
  <1>3. ResultOK(S, "schema", run, d + 1)
    BY <1>1, <1>2, LibrarySchemasOK
  <1>4. S.own \in Seq(Envelope)
    BY <1>3 DEF ResultOK
  <1>5. ResultOK(V, "dv", run, d + 1) /\ V.children \in Seq(Envelope)
    BY <1>1, <1>2, <1>4, LibraryValuesOK
  <1> QED
    BY <1>3, <1>5 DEF S, V

\* A new execution.
LEMMA NewExecution ==
  ASSUME NEW lib \in Library, NEW ref \in LibraryRef, NEW call \in Calls, NEW skip \in BOOLEAN,
         NEW run \in Nat, NEW d, NEW S, NEW V, ResultOK(S, "schema", run, d),
         ResultOK(V, "dv", run, d), V.children \in Seq(Envelope)
  PROVE  /\ Execution(lib, ref, call, skip, S, V, run) \in Frame
         /\ FrameOK(Execution(lib, ref, call, skip, S, V, run), d)
  <1> DEFINE f == Execution(lib, ref, call, skip, S, V, run)
  <1>1. /\ f.lib = lib /\ f.run = run /\ f.schema = S.own /\ f.values = V.own
        /\ f.libSchemas = S.children /\ f.libValues = V.children
        /\ f.usedSchemas = {} /\ f.usedValues = {} /\ f.instances = << >>
    BY DEF Execution
  <1>2. << >> \in Seq(InstanceValue) /\ 0 \in Nat
    OBVIOUS
  <1>3. f \in Frame
    BY <1>2 DEF Execution, Frame, ResultOK
  <1> HIDE DEF f
  <1>4. DOMAIN f.instances = {}
    BY <1>1
  <1>5. Nil \notin Range(f.libValues)
    BY <1>1, RangeIndex, NilAssumption
  <1>6. FrameOK(f, d)
    BY <1>1, <1>4, <1>5 DEF FrameOK, ResultOK
  <1> QED
    BY <1>3, <1>6 DEF f

\* The documents of the root library: those of its files, and the flags.
Flags == NewEnvelopes(FlagValues, "dv", "flag", 1, 1)
RootSchemas == Schemas(RootLibrary, << >>, 1, 1)
RootFound == Values(RootLibrary, Own(Flags), RootSchemas.own, 1, 1)
RootValues == [RootFound EXCEPT !.children = @ \o Children(Flags)]

\* The envelopes of the flags are new, and in order.
LEMMA FlagsShape ==
  /\ Flags \in Seq(Envelope) /\ Sorted(Flags, DeeperPairs)
  /\ \A e \in Range(Flags) : Fresh(e, "dv", "flag", 1, 1)
  /\ Sorted(Flags, OwnPairs) /\ Sorted(Flags, ChildPairs)
  <1>1. FlagValues \in Seq(DocDecl)
    BY DocsAssumption
  <1>2. Around(Flags, FlagValues, "dv", "flag", 1, 1)
    BY <1>1, NewEnvelopesShape DEF Flags
  <1>3. Sorted(Flags, DeeperPairs) /\ \A e \in Range(Flags) : Fresh(e, "dv", "flag", 1, 1)
    BY <1>1, <1>2, AroundSorted, Zenon
  <1>4. Flags \in Seq(Envelope)
    BY <1>2 DEF Around
  <1> QED
    BY <1>3, <1>4, FreshSorted, Zenon

\* The root library's schemas are merged in order.
LEMMA RootSchemasOK == ResultOK(RootSchemas, "schema", 1, 1)
  <1> DEFINE o == << >>
             F == SchemaFiles(RootLibrary, 1, 1)
             v == RootSchemas
  <1>1. o \in Seq(Envelope) /\ Range(o) = {} /\ RootLibrary \in Library
    BY TreeAssumption DEF Range
  <1>2. Beyond(Range(o)) = {} /\ Sorted(o, BelowPairs) /\ \A e \in Range(o) : AboveFiles(e, 1)
    BY <1>1 DEF Beyond, Sorted
  <1>3. v = Schemas(RootLibrary, o, 1, 1)
    BY DEF RootSchemas
  <1> HIDE DEF o
  <1>4. TakesApart(v, F \o o, For(Range(F)) \cup Range(o), Beyond(Range(F)))
    BY <1>1, <1>2, <1>3, SchemasSets, Zenon
  <1>5. Merged(v.own) /\ Sorted(v.children, DeeperPairs)
    BY <1>1, <1>2, <1>3, SchemasSorted, Zenon
  <1>6. \A e \in Range(F) : Fresh(e, "schema", "file", 1, 1) /\ ~e.after
    BY <1>1, FilesSorted
  <1> HIDE DEF F, v
  <1>7. /\ v.own \in Seq(Envelope) /\ v.children \in Seq(Envelope)
        /\ Range(v.children) = Beyond(Range(F))
    BY <1>4 DEF TakesApart
  <1>8. ASSUME NEW e \in Range(v.children) PROVE Postable(e, "schema", 1, 1)
    <2>1. Fresh(e, "schema", "file", 1, 1) /\ ~e.after /\ e.libRef # << >>
      BY <1>6, <1>7 DEF Beyond
    <2> QED
      BY <2>1, FreshPostable
  <1>9. v.children \in Seq(Envelope \cup {Nil})
    BY <1>7, SeqMonotonic
  <1>10. ResultOK(v, "schema", 1, 1)
    BY <1>5, <1>7, <1>8, <1>9 DEF ResultOK
  <1> QED
    BY <1>10 DEF v

\* The flags go on top of the root library's files, and come after them.
LEMMA RootValuesOK ==
  ResultOK(RootValues, "dv", 1, 1) /\ RootValues.children \in Seq(Envelope)
  <1> DEFINE o == Own(Flags)
             ch == Children(Flags)
             F == ValueFiles(RootLibrary, 1, 1)
             schema == RootSchemas.own
             D == DefaultDataValues(schema, 1, 1)
             found == RootFound
             v == RootValues
  <1>1. RootLibrary \in Library /\ schema \in Seq(Envelope)
    BY TreeAssumption, RootSchemasOK DEF ResultOK
  <1>2. /\ o \in Seq(Envelope) /\ Range(o) = For(Range(Flags)) /\ Embeds(o, Flags)
        /\ ch \in Seq(Envelope) /\ Range(ch) = Beyond(Range(Flags)) /\ Embeds(ch, Flags)
    BY FlagsShape, OwnProperties
  <1>3. found = Values(RootLibrary, o, schema, 1, 1)
    BY DEF RootFound
  <1> HIDE DEF o, ch, schema
  <1>4. /\ \A e \in Range(o) : Fresh(e, "dv", "flag", 1, 1) /\ e.libRef = << >>
        /\ \A e \in Range(ch) : Fresh(e, "dv", "flag", 1, 1) /\ e.libRef # << >>
    BY <1>2, FlagsShape DEF For, Beyond
  <1>5. Beyond(Range(o)) = {}
    BY <1>4 DEF Beyond
  <1>6. Sorted(o, BelowPairs)
    <2>1. Sorted(o, OwnPairs)
      BY <1>2, FlagsShape, SortedEmbeds
    <2>2. ASSUME NEW a \in Range(o), NEW b \in Range(o), <<a, b>> \in OwnPairs
          PROVE  <<a, b>> \in BelowPairs
      BY <1>4, <2>2, InPairs DEF Fresh
    <2> QED
      BY <1>2, <2>1, <2>2, SortedWeaken
  <1>7. Sorted(ch, DeeperPairs)
    BY <1>2, FlagsShape, SortedEmbeds
  <1>8. ASSUME NEW e \in Range(o) PROVE AboveFiles(e, 1)
    <2>1. e \in Envelope /\ e.doc.via = "flag" /\ e.depth = 1 /\ e.libRef = << >> /\ ~e.after
      BY <1>4 DEF Fresh
    <2>2. Rank(e) = 1
      BY <2>1, RankValue
    <2>3. ASSUME NEW d \in Envelope, OfLibrary(d, 1) PROVE Below(d, e)
      <3>1. CASE d.doc.via = "defaults"
        <4>1. Rank(d) = 0
          BY <2>3, <3>1, RankValue DEF OfLibrary
        <4> QED
          BY <2>2, <4>1 DEF Below
      <3>2. CASE d.doc.via = "file" /\ d.depth = 1
        <4>1. Rank(d) = 1
          BY <2>3, <3>2, RankValue DEF OfLibrary
        <4>2. Deeper(d, e)
          BY <2>1, <3>2 DEF Deeper
        <4> QED
          BY <2>2, <4>1, <4>2 DEF Below
      <3> QED
        BY <2>3, <3>1, <3>2 DEF OfLibrary
    <2> QED
      BY <2>1, <2>3 DEF AboveFiles
  <1>9. TakesApart(found, D \o F \o o, Range(D) \cup For(Range(F)) \cup Range(o),
                   Beyond(Range(F)))
    BY <1>1, <1>2, <1>3, <1>5, ValuesSets
  <1>10. Merged(found.own) /\ Sorted(found.children, DeeperPairs)
    BY <1>1, <1>2, <1>3, <1>5, <1>6, <1>8, ValuesSorted
  <1>11. \A e \in Range(F) : Fresh(e, "dv", "file", 1, 1)
    BY <1>1, FilesSorted
  <1>12. v.own = found.own /\ v.children = found.children \o ch
    BY <1>3 DEF RootValues, Values, ch
  <1> HIDE DEF D, F, found, v
  <1>13. /\ found.own \in Seq(Envelope) /\ found.children \in Seq(Envelope)
         /\ Range(found.children) = Beyond(Range(F))
    BY <1>9 DEF TakesApart
  <1>14. /\ v.children \in Seq(Envelope)
         /\ Range(v.children) = Range(found.children) \cup Range(ch)
    BY <1>2, <1>12, <1>13, RangeConcat
  <1>15. ASSUME NEW a \in Range(found.children), NEW b \in Range(ch)
         PROVE  <<a, b>> \in DeeperPairs
    <2>1. a \in Envelope /\ a.depth = 1 /\ a.doc.via = "file"
      BY <1>11, <1>13 DEF Fresh, Beyond
    <2>2. b \in Envelope /\ b.depth = 1 /\ b.doc.via = "flag"
      BY <1>4 DEF Fresh
    <2>3. Deeper(a, b)
      BY <2>1, <2>2 DEF Deeper
    <2> QED
      BY <2>1, <2>2, <2>3, InPairs
  <1>16. Sorted(v.children, DeeperPairs)
    BY <1>2, <1>7, <1>10, <1>12, <1>13, <1>15, SortedConcat
  <1>17. ASSUME NEW e \in Range(v.children) PROVE Postable(e, "dv", 1, 1)
    <2>1. CASE e \in Range(found.children)
      <3>1. Fresh(e, "dv", "file", 1, 1) /\ e.libRef # << >>
        BY <1>11, <1>13, <2>1 DEF Beyond
      <3> QED
        BY <3>1, FreshPostable
    <2>2. CASE e \in Range(ch)
      BY <1>4, <2>2, FreshPostable
    <2> QED
      BY <1>14, <2>1, <2>2
  <1>18. v.children \in Seq(Envelope \cup {Nil})
    BY <1>14, SeqMonotonic
  <1>19. ResultOK(v, "dv", 1, 1)
    BY <1>10, <1>12, <1>13, <1>16, <1>17, <1>18 DEF ResultOK
  <1> QED
    BY <1>14, <1>19 DEF v

-----------------------------------------------------------------------------
(* The stack.                                                                 *)

\* Execution f goes on as g: what it was given and the instances that its
\* templates hold stay the same.
Evolves(f, g) ==
  /\ g \in Frame
  /\ g.lib = f.lib /\ g.ref = f.ref /\ g.call = f.call /\ g.skip = f.skip /\ g.run = f.run
  /\ g.schema = f.schema /\ g.values = f.values
  /\ g.libSchemas = f.libSchemas /\ g.libValues = f.libValues
  /\ Len(f.instances) <= Len(g.instances)
  /\ \A i \in 1 .. Len(f.instances) : g.instances[i] = f.instances[i]

\* Later calls may only add more.
LEMMA InstanceLater ==
  ASSUME NEW inst, NEW f \in Frame, NEW g \in Frame, NEW d, InstanceOK(inst, f, d),
         g.lib = f.lib, g.skip = f.skip, f.calls <= g.calls
  PROVE  InstanceOK(inst, g, d)
  <1>1. f.calls \in Nat /\ g.calls \in Nat
    BY DEF Frame
  <1>2. ASSUME NEW e, NEW kind, Addable(e, kind, d, f.calls) PROVE Addable(e, kind, d, g.calls)
    <2>1. e.doc.pos \in Nat /\ e.doc.pos <= f.calls
      BY <1>2 DEF Addable, Envelope, Document
    <2>2. e.doc.pos <= g.calls
      BY <1>1, <2>1
    <2> QED
      BY <1>2, <2>2 DEF Addable
  <1> QED
    BY <1>2 DEF InstanceOK

\* A call that only marks envelopes as used.
Marking(f, A, B) == [f EXCEPT !.calls = @ + 1, !.usedSchemas = @ \cup A, !.usedValues = @ \cup B]

\* It leaves the execution well formed.
LEMMA MarkingEvolves ==
  ASSUME NEW f \in Frame, NEW d, FrameOK(f, d),
         NEW A \in SUBSET DOMAIN f.libSchemas, NEW B \in SUBSET DOMAIN f.libValues
  PROVE  Evolves(f, Marking(f, A, B)) /\ FrameOK(Marking(f, A, B), d)
  <1> DEFINE g == Marking(f, A, B)
  <1>1. /\ f.calls \in Nat /\ f.usedSchemas \subseteq Nat /\ f.usedValues \subseteq Nat
        /\ f.libSchemas \in Seq(Envelope \cup {Nil}) /\ f.libValues \in Seq(Envelope)
        /\ f.instances \in Seq(InstanceValue)
    BY DEF Frame
  <1>2. /\ DOMAIN f.libSchemas \subseteq Nat /\ DOMAIN f.libValues \subseteq Nat
        /\ Len(f.instances) \in Nat
    BY <1>1, LenProperties
  <1>3. /\ f.calls + 1 \in Nat
        /\ f.usedSchemas \cup A \subseteq Nat /\ f.usedValues \cup B \subseteq Nat
    BY <1>1, <1>2
  <1>4. g \in Frame
    BY <1>3, Zenon DEF Frame, Marking
  <1>5. /\ g.lib = f.lib /\ g.ref = f.ref /\ g.call = f.call /\ g.skip = f.skip /\ g.run = f.run
        /\ g.schema = f.schema /\ g.values = f.values
        /\ g.libSchemas = f.libSchemas /\ g.libValues = f.libValues
        /\ g.instances = f.instances /\ g.calls = f.calls + 1
        /\ g.usedSchemas = f.usedSchemas \cup A /\ g.usedValues = f.usedValues \cup B
    BY DEF Frame, Marking
  <1> HIDE DEF g
  <1>6. f.calls <= g.calls
    BY <1>1, <1>5
  <1>7. \A i \in DOMAIN f.instances : InstanceOK(f.instances[i], g, d)
    BY <1>4, <1>5, <1>6, InstanceLater DEF FrameOK
  <1>8. FrameOK(g, d)
    BY <1>5, <1>7 DEF FrameOK
  <1>9. Evolves(f, g)
    BY <1>2, <1>4, <1>5 DEF Evolves
  <1> QED
    BY <1>8, <1>9 DEF g

\* A call that makes a new instance.
Adding(f, inst) == [f EXCEPT !.calls = @ + 1, !.instances = Append(@, inst)]

\* It leaves the execution well formed, if the new instance is.
LEMMA AddingEvolves ==
  ASSUME NEW f \in Frame, NEW d, FrameOK(f, d), NEW inst \in InstanceValue,
         InstanceOK(inst, Adding(f, inst), d)
  PROVE  Evolves(f, Adding(f, inst)) /\ FrameOK(Adding(f, inst), d)
  <1> DEFINE g == Adding(f, inst)
             n == Len(f.instances)
  <1>1. f.calls \in Nat /\ f.instances \in Seq(InstanceValue)
    BY DEF Frame
  <1>2. /\ n \in Nat /\ DOMAIN f.instances = 1 .. n
        /\ Append(f.instances, inst) \in Seq(InstanceValue)
        /\ Len(Append(f.instances, inst)) = n + 1
        /\ \A i \in 1 .. n : Append(f.instances, inst)[i] = f.instances[i]
        /\ Append(f.instances, inst)[n + 1] = inst
    BY <1>1, LenProperties, AppendProperties
  <1>3. g \in Frame
    <2> DEFINE all == Append(f.instances, inst)
               next == f.calls + 1
    <2>1. all \in Seq(InstanceValue) /\ next \in Nat
      BY <1>1, <1>2
    <2>2. g = [f EXCEPT !.calls = next, !.instances = all]
      BY DEF Adding, Frame
    <2> HIDE DEF all, next, g
    <2> QED
      BY <2>1, <2>2, Zenon DEF Frame
  <1>4. /\ g.lib = f.lib /\ g.ref = f.ref /\ g.call = f.call /\ g.skip = f.skip /\ g.run = f.run
        /\ g.schema = f.schema /\ g.values = f.values
        /\ g.libSchemas = f.libSchemas /\ g.libValues = f.libValues
        /\ g.instances = Append(f.instances, inst) /\ g.calls = f.calls + 1
        /\ g.usedSchemas = f.usedSchemas /\ g.usedValues = f.usedValues
    BY DEF Frame, Adding
  <1> HIDE DEF g, n
  <1>5. f.calls <= g.calls
    BY <1>1, <1>4
  <1>6. \A i \in 1 .. n : InstanceOK(g.instances[i], g, d)
    BY <1>2, <1>3, <1>4, <1>5, InstanceLater DEF FrameOK
  <1>7. InstanceOK(g.instances[n + 1], g, d)
    BY <1>2, <1>4 DEF g
  <1>8. DOMAIN g.instances = 1 .. n + 1
    BY <1>2, <1>4, LenProperties
  <1>9. \A i \in DOMAIN g.instances : InstanceOK(g.instances[i], g, d)
    BY <1>2, <1>6, <1>7, <1>8
  <1>10. FrameOK(g, d)
    BY <1>4, <1>9 DEF FrameOK
  <1>11. Evolves(f, g)
    BY <1>2, <1>3, <1>4 DEF Evolves, n
  <1> QED
    BY <1>10, <1>11 DEF g

\* What an instance merges does not depend on the later calls.
LEMMA EvolvedLayers ==
  ASSUME NEW f \in Frame, NEW g, Evolves(f, g), NEW i \in DOMAIN f.instances, NEW d
  PROVE  i \in DOMAIN g.instances /\ MergedLayers(g, i, d) = MergedLayers(f, i, d)
  <1>1. f.instances \in Seq(InstanceValue) /\ g.instances \in Seq(InstanceValue)
    BY DEF Frame, Evolves
  <1>2. /\ DOMAIN f.instances = 1 .. Len(f.instances) /\ Len(f.instances) \in Nat
        /\ DOMAIN g.instances = 1 .. Len(g.instances) /\ Len(g.instances) \in Nat
    BY <1>1, LenProperties
  <1>3. i \in DOMAIN g.instances /\ g.instances[i] = f.instances[i]
    BY <1>2 DEF Evolves
  <1> QED
    BY <1>3 DEF Evolves, MergedLayers, ValuesFor, SchemasFor

\* Sequences that differ in the last element.
LEMMA TopReplaced ==
  ASSUME NEW S, NEW st \in Seq(S), st # << >>, NEW g \in S
  PROVE  LET t == [st EXCEPT ![Len(st)] = g]
         IN  /\ t \in Seq(S) /\ Len(t) = Len(st) /\ t # << >>
             /\ t[Len(st)] = g
             /\ \A i \in 1 .. Len(st) : i # Len(st) => t[i] = st[i]
  <1> DEFINE t == [st EXCEPT ![Len(st)] = g]
             n == Len(st)
  <1>1. n \in Nat /\ n # 0 /\ st \in [1 .. n -> S] /\ t = [st EXCEPT ![n] = g]
    BY LenProperties, EmptySeq
  <1> HIDE DEF n, t
  <1>2. t \in [1 .. n -> S] /\ t[n] = g /\ \A i \in 1 .. n : i # n => t[i] = st[i]
    <2>1. n \in 1 .. n
      BY <1>1
    <2> QED
      BY <1>1, <2>1
  <1>3. t \in Seq(S) /\ Len(t) = n
    BY <1>1, <1>2, FunctionIsSequence
  <1> QED
    BY <1>1, <1>2, <1>3, EmptySeq, Zenon DEF t, n

\* The execution on top goes on.
LEMMA EvolveStack ==
  ASSUME NEW st, NEW r \in Nat, StackOK(st, r), st # << >>, NEW g,
         Evolves(st[Len(st)], g), FrameOK(g, Len(st))
  PROVE  /\ StackOK([st EXCEPT ![Len(st)] = g], r)
         /\ \A O : OutcomesOK(O, st, r) => OutcomesOK(O, [st EXCEPT ![Len(st)] = g], r)
  <1> DEFINE t == [st EXCEPT ![Len(st)] = g]
             n == Len(st)
  <1>1. st \in Seq(Frame) /\ g \in Frame
    BY DEF StackOK, Evolves
  <1>2. /\ t \in Seq(Frame) /\ Len(t) = n /\ t[n] = g
        /\ \A i \in 1 .. n : i # n => t[i] = st[i]
    BY <1>1, TopReplaced
  <1>3. n \in Nat /\ n # 0
    BY <1>1, LenProperties, EmptySeq
  <1> HIDE DEF t
  <1>4. \A i \in 1 .. n : t[i].run = st[i].run /\ t[i].skip = st[i].skip
    BY <1>2 DEF Evolves
  <1>5. \A i \in 1 .. n : FrameOK(t[i], i)
    BY <1>2 DEF StackOK
  <1>6. StackOK(t, r)
    BY <1>2, <1>4, <1>5 DEF StackOK
  <1>7. ASSUME NEW O, OutcomesOK(O, st, r), NEW o \in O PROVE OutcomeOK(o, t, r)
    <2>1. OutcomeOK(o, st, r)
      BY <1>7 DEF OutcomesOK
    <2>2. ASSUME NEW d \in 1 .. n, o.instance[1] = t[d].run
          PROVE  /\ o.instance[2] \in DOMAIN t[d].instances
                 /\ o.layers = MergedLayers(t[d], o.instance[2], d)
      <3>1. /\ o.instance[2] \in DOMAIN st[d].instances
            /\ o.layers = MergedLayers(st[d], o.instance[2], d)
        BY <1>4, <2>1, <2>2 DEF OutcomeOK
      <3>2. CASE d # n
        BY <1>2, <3>1, <3>2
      <3>3. CASE d = n
        <4>1. st[n] \in Frame
          BY <1>1, <1>3, ElementOfSeq
        <4> QED
          BY <1>2, <3>1, <3>3, <4>1, EvolvedLayers
      <3> QED
        BY <3>2, <3>3
    <2> QED
      BY <1>2, <2>1, <2>2 DEF OutcomeOK
  <1> QED
    BY <1>6, <1>7, Zenon DEF t, OutcomesOK

\* An execution is started on top.
LEMMA PushStack ==
  ASSUME NEW st, NEW r \in Nat, StackOK(st, r), NEW f \in Frame, f.run = r + 1,
         FrameOK(f, Len(st) + 1), \A d \in 1 .. Len(st) : st[d].skip => f.skip
  PROVE  /\ StackOK(Append(st, f), r + 1)
         /\ \A O : OutcomesOK(O, st, r) => OutcomesOK(O, Append(st, f), r + 1)
  <1> DEFINE t == Append(st, f)
             n == Len(st)
  <1>1. st \in Seq(Frame)
    BY DEF StackOK
  <1>2. /\ t \in Seq(Frame) /\ Len(t) = n + 1 /\ t[n + 1] = f
        /\ \A i \in 1 .. n : t[i] = st[i]
    BY <1>1, AppendProperties
  <1>3. n \in Nat /\ n <= r
    BY <1>1, LenProperties DEF StackOK
  <1>4. \A i \in 1 .. n : st[i] \in Frame
    BY <1>1, ElementOfSeq
  <1>5. \A i \in 1 .. n : st[i].run \in Nat /\ st[i].run <= r
    BY <1>4, Zenon DEF StackOK, Frame
  <1> HIDE DEF t, n
  <1>6. \A i \in 1 .. n + 1 : i = n + 1 \/ i \in 1 .. n
    BY <1>3
  <1>7. \A i \in 1 .. n + 1 : FrameOK(t[i], i) /\ t[i].run <= r + 1
    <2>1. \A i \in 1 .. n : FrameOK(t[i], i) /\ t[i].run <= r + 1
      BY <1>2, <1>5 DEF StackOK, n
    <2>2. FrameOK(t[n + 1], n + 1) /\ t[n + 1].run <= r + 1
      BY <1>2 DEF n
    <2> QED
      BY <1>6, <2>1, <2>2
  <1>8. ASSUME NEW c \in 1 .. n + 1, NEW d \in 1 .. n + 1, c < d
        PROVE  t[c].run < t[d].run /\ (t[c].skip => t[d].skip)
    <2>1. c \in 1 .. n
      BY <1>3, <1>8
    <2>2. CASE d \in 1 .. n
      BY <1>2, <1>8, <2>1, <2>2 DEF StackOK, n
    <2>3. CASE d = n + 1
      BY <1>2, <1>5, <2>1, <2>3 DEF n
    <2> QED
      BY <1>6, <2>2, <2>3
  <1>9. StackOK(t, r + 1)
    BY <1>2, <1>3, <1>7, <1>8 DEF StackOK
  <1>10. ASSUME NEW O, OutcomesOK(O, st, r), NEW o \in O PROVE OutcomeOK(o, t, r + 1)
    <2>1. OutcomeOK(o, st, r) /\ o.instance[1] \in Nat /\ o.instance[1] <= r
      BY <1>10 DEF OutcomesOK, OutcomeOK
    <2>2. ASSUME NEW d \in 1 .. n + 1, o.instance[1] = t[d].run
          PROVE  /\ o.instance[2] \in DOMAIN t[d].instances
                 /\ o.layers = MergedLayers(t[d], o.instance[2], d)
      <3>1. d # n + 1
        BY <1>2, <2>1, <2>2
      <3>2. d \in 1 .. n
        BY <1>6, <3>1
      <3> QED
        BY <1>2, <2>1, <2>2, <3>2 DEF OutcomeOK, n
    <2>3. o.instance[1] <= r + 1
      BY <2>1
    <2> QED
      BY <1>2, <2>1, <2>2, <2>3 DEF OutcomeOK
  <1> QED
    BY <1>9, <1>10 DEF t, OutcomesOK

\* Executions end.
LEMMA PopStack ==
  ASSUME NEW st, NEW r \in Nat, StackOK(st, r), NEW k \in 0 .. Len(st)
  PROVE  /\ StackOK(SubSeq(st, 1, k), r) /\ Len(SubSeq(st, 1, k)) = k
         /\ \A O : OutcomesOK(O, st, r) => OutcomesOK(O, SubSeq(st, 1, k), r)
  <1> DEFINE t == SubSeq(st, 1, k)
  <1>1. st \in Seq(Frame) /\ Len(st) \in Nat /\ Len(st) <= r
    BY LenProperties DEF StackOK
  <1>2. t \in Seq(Frame) /\ Len(t) = k /\ \A i \in 1 .. k : t[i] = st[i]
    BY <1>1, SubSeqProperties
  <1>3. k <= r /\ \A i \in 1 .. k : i \in 1 .. Len(st)
    BY <1>1
  <1> HIDE DEF t
  <1>4. StackOK(t, r)
    BY <1>2, <1>3, Zenon DEF StackOK
  <1>5. \A o : OutcomeOK(o, st, r) => OutcomeOK(o, t, r)
    BY <1>2, <1>3 DEF OutcomeOK
  <1> QED
    BY <1>2, <1>4, <1>5 DEF t, OutcomesOK

-----------------------------------------------------------------------------
(* One evaluation of an instance is like another.                            *)

\* Evaluating an instance merges what MergedLayers says, at any time.
LEMMA AlwaysSameLayers ==
  ASSUME NEW f \in Frame, NEW d \in Nat, FrameOK(f, d), Nil \notin Range(f.libSchemas),
         NEW i \in DOMAIN f.instances, NEW run \in Nat
  PROVE  Layers(ValuesFor(f, f.instances[i], run, d + 1).own) = MergedLayers(f, i, d)
  <1> DEFINE inst == f.instances[i]
             lib == Private[f.lib][inst.path]
             v == f.libValues \o inst.added
             s == f.libSchemas \o inst.addedSchemas
             ov == Overlays(v, Ref(inst))
             os == Own(TakenList(s, Ref(inst)))
             S == SchemasFor(f, inst, run, d + 1)
             T == SchemasFor(f, inst, 0, d + 1)
             V == ValuesFor(f, inst, run, d + 1)
             W == ValuesFor(f, inst, 0, d + 1)
             n == d + 1
  <1>1. lib \in Library /\ v \in Seq(Envelope) /\ s \in Seq(Envelope)
    BY GivenLists DEF GivenList
  <1>2. n \in Nat
    OBVIOUS
  <1>3. /\ S = librarySchemas(s, Ref(inst), lib, run, n)
        /\ T = librarySchemas(s, Ref(inst), lib, 0, n)
        /\ V = libraryValues(v, Ref(inst), lib, S.own, run, n)
        /\ W = libraryValues(v, Ref(inst), lib, T.own, 0, n)
    BY Zenon DEF SchemasFor, ValuesFor
  <1> HIDE DEF lib, v, s, S, T, V, W, n
  <1>4. ov \in Seq(Envelope) /\ os \in Seq(Envelope)
    BY <1>1, OverlaysSets, TakenLists
  <1>5. S.own = Schemas(lib, os, run, n).own /\ T.own = Schemas(lib, os, 0, n).own
    <2>1. /\ Composed(S, Schemas(lib, os, run, n), Onward(s, Ref(inst)),
                      For(Range(SchemaFiles(lib, run, n))) \cup For(Taken(Range(s), Ref(inst))),
                      Beyond(Range(SchemaFiles(lib, run, n))) \cup Beyond(Taken(Range(s), Ref(inst))))
          /\ Composed(T, Schemas(lib, os, 0, n), Onward(s, Ref(inst)),
                      For(Range(SchemaFiles(lib, 0, n))) \cup For(Taken(Range(s), Ref(inst))),
                      Beyond(Range(SchemaFiles(lib, 0, n))) \cup Beyond(Taken(Range(s), Ref(inst))))
      BY <1>1, <1>2, <1>3, LibrarySchemasSets
    <2> QED
      BY <2>1, Zenon DEF Composed
  <1>6. V.own = Values(lib, ov, S.own, run, n).own /\ W.own = Values(lib, ov, T.own, 0, n).own
    BY <1>3, Zenon DEF libraryValues, TakenList, Overlays, Befores, Afters
  <1> HIDE DEF ov, os
  <1>7. Alike(S.own, T.own)
    BY <1>1, <1>2, <1>4, <1>5, SchemasAlike, Zenon
  <1>8. S.own \in Seq(Envelope) /\ T.own \in Seq(Envelope) /\ (S.own = << >> <=> T.own = << >>)
    BY <1>7, EmptySeq DEF Alike
  <1>9. Alike(V.own, W.own)
    <2> DEFINE a == S.own
               b == T.own
    <2>1. a \in Seq(Envelope) /\ b \in Seq(Envelope) /\ (a = << >> <=> b = << >>)
      BY <1>8
    <2> HIDE DEF a, b
    <2>2. Alike(Values(lib, ov, a, run, n).own, Values(lib, ov, b, 0, n).own)
      BY <1>1, <1>2, <1>4, <2>1, ValuesAlike, Zenon
    <2> QED
      BY <1>6, <2>2 DEF a, b
  <1>10. Layers(V.own) = Layers(W.own)
    BY <1>9, LayersAlike
  <1> QED
    BY <1>10 DEF V, W, MergedLayers

-----------------------------------------------------------------------------
(* The steps.                                                                 *)

\* The execution on top.
LEMMA TopFacts ==
  ASSUME IInv, Running
  PROVE  /\ stack \in Seq(Frame) /\ stack # << >>
         /\ Depth \in Nat /\ Depth # 0 /\ Depth \in 1 .. Depth
         /\ Top \in Frame /\ FrameOK(Top, Depth)
         /\ Top.run \in Nat /\ Top.run <= runs
  <1>1. stack \in Seq(Frame) /\ stack # << >>
    BY DEF IInv, StackOK
  <1>2. Depth \in Nat /\ Depth # 0 /\ Depth \in 1 .. Depth
    BY <1>1, LenProperties, EmptySeq DEF Depth
  <1>3. Top \in Frame /\ FrameOK(Top, Depth) /\ Top.run <= runs
    BY <1>1, <1>2, ElementOfSeq DEF Top, Depth, IInv, StackOK
  <1> QED
    BY <1>1, <1>2, <1>3, Zenon DEF Frame

\* Marking the schemas at positions A, in a call of the library module.
LEMMA SchemasMarked ==
  ASSUME stack \in Seq(Frame), stack # << >>, NEW A
  PROVE  [Calling EXCEPT ![Depth].usedSchemas = @ \cup A]
           = [stack EXCEPT ![Depth] = Marking(Top, A, {})]
  <1> DEFINE n == Depth
             h == [Top EXCEPT !.calls = @ + 1, !.usedSchemas = @ \cup A]
  <1>1. n \in Nat /\ n \in 1 .. n /\ stack \in [1 .. n -> Frame]
    BY LenProperties, EmptySeq DEF Depth
  <1>2. Top = stack[n] /\ Top \in Frame
    BY <1>1 DEF Top, Depth
  <1>3. Calling = [stack EXCEPT ![n] = [Top EXCEPT !.calls = @ + 1]]
    BY <1>1, <1>2 DEF Calling
  <1> HIDE DEF n
  <1>4. [Calling EXCEPT ![n].usedSchemas = @ \cup A] = [stack EXCEPT ![n] = h]
    BY <1>1, <1>2, <1>3, Zenon DEF Frame
  <1>5. Top.usedValues \cup {} = Top.usedValues
    BY <1>2 DEF Frame
  <1>6. Marking(Top, A, {}) = [Top EXCEPT !.calls = @ + 1, !.usedSchemas = @ \cup A,
                                          !.usedValues = Top.usedValues]
    BY <1>5 DEF Marking
  <1>7. Marking(Top, A, {}) = h
    BY <1>2, <1>6, Zenon DEF Frame
  <1> QED
    BY <1>4, <1>7, Zenon DEF n

\* How a call of the library module changes the stack.
LEMMA CallStack ==
  ASSUME stack \in Seq(Frame), stack # << >>, NEW inst
  PROVE  /\ [Calling EXCEPT ![Depth].instances = Append(@, inst)]
              = [stack EXCEPT ![Depth] = Adding(Top, inst)]
         /\ MarkSchemas(Calling, inst)
              = [stack EXCEPT ![Depth] = Marking(Top, Marked(Top.libSchemas, Ref(inst)), {})]
         /\ MarkValues(MarkSchemas(Calling, inst), inst)
              = [stack EXCEPT ![Depth] = Marking(Top, Marked(Top.libSchemas, Ref(inst)),
                                                 Marked(Top.libValues, Ref(inst)))]
  <1> DEFINE n == Depth
             A == Marked(Top.libSchemas, Ref(inst))
             B == Marked(Top.libValues, Ref(inst))
  <1>1. n \in Nat /\ n \in 1 .. n /\ stack \in [1 .. n -> Frame]
    BY LenProperties, EmptySeq DEF Depth
  <1>2. Top = stack[n] /\ Top \in Frame
    BY <1>1 DEF Top, Depth
  <1>3. Calling = [stack EXCEPT ![n] = [Top EXCEPT !.calls = @ + 1]]
    BY <1>1, <1>2 DEF Calling
  <1> HIDE DEF n, A, B
  <1>4. [Calling EXCEPT ![n].instances = Append(@, inst)] = [stack EXCEPT ![n] = Adding(Top, inst)]
    BY <1>1, <1>2, <1>3, Zenon DEF Adding, Frame
  <1>5. [Calling EXCEPT ![n].usedSchemas = @ \cup A] = [stack EXCEPT ![n] = Marking(Top, A, {})]
    BY SchemasMarked, Zenon DEF n
  <1>6. [[Calling EXCEPT ![n].usedSchemas = @ \cup A] EXCEPT ![n].usedValues = @ \cup B]
          = [stack EXCEPT ![n] = Marking(Top, A, B)]
    BY <1>1, <1>2, <1>3, Zenon DEF Marking, Frame
  <1> QED
    BY <1>4, <1>5, <1>6 DEF n, A, B, MarkSchemas, MarkValues

\* One more outcome, of an instance of the execution on top.
LEMMA NewOutcome ==
  ASSUME NEW st, NEW r \in Nat, StackOK(st, r), st # << >>, NEW O, OutcomesOK(O, st, r),
         NEW i \in DOMAIN st[Len(st)].instances, NEW o,
         o = [instance |-> <<st[Len(st)].run, i>>,
              layers |-> MergedLayers(st[Len(st)], i, Len(st))]
  PROVE  OutcomesOK(O \cup {o}, st, r)
  <1> DEFINE n == Len(st)
             f == st[n]
  <1>1. st \in Seq(Frame) /\ n \in Nat /\ n \in 1 .. n
    BY LenProperties, EmptySeq DEF StackOK
  <1>2. \A d \in 1 .. n : st[d] \in Frame
    BY <1>1, ElementOfSeq
  <1>3. f.run \in Nat /\ f.run <= r
    BY <1>1, <1>2, Zenon DEF StackOK, Frame
  <1>4. /\ o.instance = <<f.run, i>> /\ o.instance[1] = f.run /\ o.instance[2] = i
        /\ o.layers = MergedLayers(f, i, n)
    OBVIOUS
  <1>5. ASSUME NEW d \in 1 .. n, st[d].run = f.run PROVE d = n
    <2>1. d \in Int /\ d <= n
      BY <1>1
    <2>2. ~(d < n)
      BY <1>1, <1>3, <1>5 DEF StackOK
    <2> QED
      BY <1>1, <2>1, <2>2
  <1>6. OutcomeOK(o, st, r)
    BY <1>3, <1>4, <1>5 DEF OutcomeOK
  <1>7. ASSUME NEW b \in O, b.instance = o.instance PROVE b.layers = o.layers
    <2>1. OutcomeOK(b, st, r)
      BY DEF OutcomesOK
    <2>2. b.instance[1] = f.run /\ b.instance[2] = i
      BY <1>4, <1>7
    <2> QED
      BY <1>1, <1>4, <2>1, <2>2 DEF OutcomeOK
  <1> HIDE DEF f, n
  <1> QED
    BY <1>6, <1>7, Zenon DEF OutcomesOK

\* The invariant after a step that leaves the documents and the outcomes alone.
LEMMA InvKept ==
  ASSUME IInv, StackOK(stack', runs'), OutcomesOK(outcomes', stack', runs'),
         runs' = runs, declared' = declared, Running, stack' # << >>, status' = status
  PROVE  IInv'
  BY DEF IInv, Running

\* The stack after a call that the execution on top makes.
LEMMA EvolveKeeps ==
  ASSUME IInv, Running, NEW g, Evolves(Top, g), FrameOK(g, Depth)
  PROVE  /\ StackOK([stack EXCEPT ![Depth] = g], runs)
         /\ \A O : OutcomesOK(O, stack, runs) => OutcomesOK(O, [stack EXCEPT ![Depth] = g], runs)
         /\ [stack EXCEPT ![Depth] = g] # << >>
         /\ Len([stack EXCEPT ![Depth] = g]) = Depth
         /\ \A d \in 1 .. Depth : [stack EXCEPT ![Depth] = g][d].skip = stack[d].skip
  <1> DEFINE t == [stack EXCEPT ![Depth] = g]
  <1>1. runs \in Nat /\ StackOK(stack, runs) /\ stack \in Seq(Frame) /\ stack # << >>
    BY TopFacts DEF IInv
  <1>2. StackOK(t, runs) /\ \A O : OutcomesOK(O, stack, runs) => OutcomesOK(O, t, runs)
    BY <1>1, EvolveStack, Zenon DEF Top, Depth
  <1>3. /\ t # << >> /\ Len(t) = Depth /\ t[Depth] = g
        /\ \A d \in 1 .. Depth : d # Depth => t[d] = stack[d]
    BY <1>1, TopReplaced DEF Depth, Evolves
  <1> HIDE DEF t
  <1>4. \A d \in 1 .. Depth : t[d].skip = stack[d].skip
    BY <1>3 DEF Evolves, Top, Depth
  <1> QED
    BY <1>2, <1>3, <1>4, Zenon DEF t

\* The invariant holds initially.
LEMMA InitInv == Init => IInv
  <1> SUFFICES ASSUME Init PROVE IInv
    OBVIOUS
  <1>1. stack \in Seq(Frame) /\ Len(stack) = 0 /\ runs = 0 /\ outcomes = {} /\ declared = {}
    BY DEF Init
  <1>2. StackOK(stack, runs)
    BY <1>1 DEF StackOK
  <1>3. OutcomesOK(outcomes, stack, runs)
    BY <1>1 DEF OutcomesOK
  <1>4. status = "init" /\ stack = << >>
    BY DEF Init
  <1> QED
    BY <1>1, <1>2, <1>3, <1>4, BoundsAssumption DEF IInv, Running

\* Adding an instance keeps the invariant.
LEMMA AddInstanceInv ==
  ASSUME IInv, Running, NEW inst \in InstanceValue, InstanceOK(inst, Adding(Top, inst), Depth),
         AddInstance(inst)
  PROVE  IInv'
  <1> DEFINE g == Adding(Top, inst)
  <1>1. stack \in Seq(Frame) /\ stack # << >> /\ Top \in Frame /\ FrameOK(Top, Depth)
    BY TopFacts
  <1>2. stack' = [stack EXCEPT ![Depth] = g]
    BY <1>1, CallStack, Zenon DEF AddInstance
  <1>3. Evolves(Top, g) /\ FrameOK(g, Depth)
    BY <1>1, AddingEvolves
  <1> HIDE DEF g
  <1>4. StackOK(stack', runs) /\ stack' # << >> /\ OutcomesOK(outcomes, stack', runs)
    BY <1>2, <1>3, EvolveKeeps, Zenon DEF IInv
  <1>5. runs' = runs /\ declared' = declared /\ status' = status /\ outcomes' = outcomes
    BY DEF AddInstance, fates
  <1> QED
    BY <1>4, <1>5, InvKept

\* The document that a template passes in the call that is now made.
LEMMA TemplateDocument ==
  ASSUME Top \in Frame, Depth \in Nat, NEW kind \in {"dv", "schema"}
  PROVE  LET e == Stamped(FromTemplate(kind))
         IN  Addable(e, kind, Depth, Top.calls + 1) /\ e.doc.pos = Top.calls + 1
  <1> DEFINE docs == <<[address |-> << >>, after |-> FALSE]>>
             b == FromTemplate(kind)
             e == Stamped(b)
             n == Top.calls + 1
  <1>1. Top.run \in Nat /\ Top.calls \in Nat
    BY DEF Frame
  <1>2. docs \in Seq(DocDecl) /\ Len(docs) = 1 /\ docs[1] = [address |-> << >>, after |-> FALSE]
    BY DEF DocDecl
  <1>3. b = NewEnvelopes(docs, kind, "module", Top.run, Depth)[1]
    BY DEF FromTemplate
  <1> HIDE DEF docs, b
  <1>4. Around(NewEnvelopes(docs, kind, "module", Top.run, Depth), docs, kind, "module", Top.run, Depth)
    BY <1>1, <1>2, NewEnvelopesShape
  <1>5. Seals(b, docs[1], kind, "module", Top.run, Depth, 1)
    <2> DEFINE all == NewEnvelopes(docs, kind, "module", Top.run, Depth)
    <2>1. Len(all) = 1 /\ \A k \in 1 .. Len(all) : Seals(all[k], docs[k], kind, "module", Top.run, Depth, k)
      BY <1>2, <1>4 DEF Around
    <2>2. b = all[1]
      BY <1>3
    <2> HIDE DEF all
    <2>3. 1 \in 1 .. Len(all)
      BY <2>1
    <2> QED
      BY <2>1, <2>2, <2>3, Zenon
  <1>6. docs[1].address = << >> /\ docs[1].after = FALSE
    BY <1>2
  <1>7. /\ b \in Envelope /\ b.doc.kind = kind /\ b.doc.via = "module"
        /\ b.depth = Depth /\ ~b.after /\ b.original = << >> /\ b.libRef = << >>
    BY <1>5, <1>6 DEF Seals
  <1>8. n \in Nat /\ e = [b EXCEPT !.doc = [b.doc EXCEPT !.pos = n]]
    BY <1>1 DEF Stamped
  <1> HIDE DEF n, e
  <1> DEFINE x == [b.doc EXCEPT !.pos = n]
  <1>9. x \in Document /\ x.kind = kind /\ x.via = "module" /\ x.pos = n
    BY <1>7, <1>8 DEF Envelope, Document
  <1> HIDE DEF x
  <1>10. /\ e \in Envelope /\ e.doc = x /\ e.depth = b.depth /\ e.after = b.after
         /\ e.original = b.original /\ e.libRef = b.libRef
    <2>1. e = [b EXCEPT !.doc = x]
      BY <1>8 DEF x
    <2> QED
      BY <1>7, <1>9, <2>1 DEF Envelope
  <1>11. e.doc.kind = kind /\ e.doc.via = "module" /\ e.doc.pos = n
    BY <1>9, <1>10
  <1>12. Addable(e, kind, Depth, n)
    BY <1>7, <1>8, <1>10, <1>11 DEF Addable
  <1> QED
    BY <1>11, <1>12 DEF e, n, b

\* A template's document goes on top of the ones added before.
LEMMA AddedSorted ==
  ASSUME NEW s \in Seq(Envelope), NEW kind, NEW d, NEW n \in Nat,
         \A e \in Range(s) : Addable(e, kind, d, n), Sorted(s, DeeperPairs),
         NEW e, Addable(e, kind, d, n + 1), e.doc.pos = n + 1
  PROVE  /\ Append(s, e) \in Seq(Envelope) /\ Sorted(Append(s, e), DeeperPairs)
         /\ \A x \in Range(Append(s, e)) : Addable(x, kind, d, n + 1)
  <1> DEFINE t == <<e>>
  <1>1. t \in Seq(Envelope) /\ Len(t) = 1 /\ t[1] = e
    BY DEF Addable
  <1>2. Append(s, e) = s \o t
    OBVIOUS
  <1> HIDE DEF t
  <1>3. Range(t) = {e}
    <2>1. \A x : x \in Range(t) <=> \E k \in 1 .. Len(t) : x = t[k]
      BY <1>1, RangeIndex, Zenon
    <2>2. \A k : k \in 1 .. Len(t) <=> k = 1
      BY <1>1
    <2> QED
      BY <1>1, <2>1, <2>2, Zenon
  <1>4. Sorted(t, DeeperPairs)
    BY <1>1 DEF Sorted
  <1>5. ASSUME NEW x \in Range(s) PROVE <<x, e>> \in DeeperPairs /\ Addable(x, kind, d, n + 1)
    <2>1. /\ x \in Envelope /\ x.doc.via = "module" /\ x.doc.pos \in Nat /\ x.doc.pos <= n
          /\ x.depth = d
      BY DEF Addable, Envelope, Document
    <2>2. e \in Envelope /\ e.doc.via = "module" /\ e.depth = d
      BY DEF Addable
    <2>3. x.doc.pos < e.doc.pos /\ x.doc.pos <= n + 1
      BY <2>1
    <2>4. Deeper(x, e)
      BY <2>1, <2>2, <2>3 DEF Deeper
    <2> QED
      BY <2>1, <2>2, <2>3, <2>4, InPairs, SMTT(30) DEF Addable
  <1>6. s \o t \in Seq(Envelope) /\ Range(s \o t) = Range(s) \cup Range(t)
    BY <1>1, RangeConcat
  <1>7. Sorted(s \o t, DeeperPairs)
    BY <1>1, <1>3, <1>4, <1>5, SortedConcat
  <1> QED
    BY <1>2, <1>3, <1>5, <1>6, <1>7, Zenon

\* An execution that adds an instance keeps its library, and counts the call.
LEMMA AddingShape ==
  ASSUME NEW f \in Frame, NEW inst
  PROVE  /\ Adding(f, inst).lib = f.lib /\ Adding(f, inst).skip = f.skip
         /\ Adding(f, inst).calls = f.calls + 1
  BY DEF Adding, Frame

\* A new instance has no documents of its own.
LEMMA NothingAdded ==
  /\ << >> \in Seq(Envelope) /\ Sorted(<< >>, DeeperPairs)
  /\ \A e : e \notin Range(<< >>)
  <1> DEFINE none == << >>
  <1>1. none \in Seq(Envelope) /\ Len(none) = 0
    OBVIOUS
  <1> HIDE DEF none
  <1>2. \A k : k \notin 1 .. Len(none)
    BY <1>1
  <1>3. \A e : e \in Range(none) <=> \E k \in 1 .. Len(none) : e = none[k]
    BY <1>1, RangeIndex, Zenon
  <1>4. (\A e : e \notin Range(none)) /\ Sorted(none, DeeperPairs)
    BY <1>2, <1>3, Zenon DEF Sorted
  <1> QED
    BY <1>1, <1>4 DEF none

\* Get keeps the invariant.
LEMMA GetInv ==
  ASSUME IInv, NEW p \in Path, NEW a \in Alias \cup {""}, NEW b \in SkipOptions[p],
         Get(p, a, b)
  PROVE  IInv'
  <1> DEFINE inst == [path |-> p, alias |-> a, skip |-> Top.skip \/ b,
                      added |-> << >>, addedSchemas |-> << >>]
             g == Adding(Top, inst)
  <1>1. Running /\ p \in DOMAIN Private[Top.lib] /\ AddInstance(inst)
    BY Zenon DEF Get, CanCall
  <1>2. Top \in Frame
    BY <1>1, TopFacts, Zenon
  <1>3. g.lib = Top.lib /\ g.skip = Top.skip
    BY <1>2, AddingShape, Zenon
  <1>4. /\ inst.path = p /\ inst.skip = (Top.skip \/ b)
        /\ inst.added = << >> /\ inst.addedSchemas = << >>
    BY Zenon
  <1>5. inst \in InstanceValue
    <2>1. b \in BOOLEAN
      BY SkipAssumption, Zenon
    <2>2. (Top.skip \/ b) \in BOOLEAN
      BY Zenon
    <2> QED
      BY <2>2, NothingAdded, Zenon DEF InstanceValue
  <1> HIDE DEF inst, g
  <1>6. InstanceOK(inst, g, Depth)
    BY <1>1, <1>3, <1>4, NothingAdded, Zenon DEF InstanceOK
  <1> QED
    BY <1>1, <1>5, <1>6, AddInstanceInv, Zenon DEF g

\* WithDataValues and WithDataValuesSchema keep the invariant.
LEMMA WithDataValuesInv ==
  ASSUME IInv, NEW i \in DOMAIN Top.instances, WithDataValues(i) \/ WithDataValuesSchema(i)
  PROVE  IInv'
  <1> DEFINE old == Top.instances[i]
             v == Stamped(FromTemplate("dv"))
             s == Stamped(FromTemplate("schema"))
             n == Top.calls
  <1>1. Running
    BY DEF WithDataValues, WithDataValuesSchema, CanCall
  <1>2. Top \in Frame /\ FrameOK(Top, Depth) /\ Depth \in Nat /\ n \in Nat
    BY <1>1, TopFacts, Zenon DEF Frame
  <1>3. old \in InstanceValue
    <2>1. Top.instances \in Seq(InstanceValue)
      BY <1>2 DEF Frame
    <2> QED
      BY <2>1, LenProperties, ElementOfSeq
  <1>4. InstanceOK(old, Top, Depth)
    BY <1>2 DEF FrameOK
  <1>5. /\ Addable(v, "dv", Depth, n + 1) /\ v.doc.pos = n + 1
        /\ Addable(s, "schema", Depth, n + 1) /\ s.doc.pos = n + 1
    BY <1>2, TemplateDocument, Zenon
  <1>6. WithDataValues(i) => AddInstance([old EXCEPT !.added = Append(@, v)])
    BY DEF WithDataValues
  <1>7. WithDataValuesSchema(i) => AddInstance([old EXCEPT !.addedSchemas = Append(@, s)])
    BY DEF WithDataValuesSchema
  <1> HIDE DEF old, v, s, n
  <1> DEFINE av == Append(old.added, v)
             as == Append(old.addedSchemas, s)
             iv == [old EXCEPT !.added = av]
             is == [old EXCEPT !.addedSchemas = as]
  <1>8. /\ old.added \in Seq(Envelope) /\ old.addedSchemas \in Seq(Envelope)
        /\ \A e \in Range(old.added) : Addable(e, "dv", Depth, n)
        /\ \A e \in Range(old.addedSchemas) : Addable(e, "schema", Depth, n)
        /\ Sorted(old.added, DeeperPairs) /\ Sorted(old.addedSchemas, DeeperPairs)
    BY <1>3, <1>4, Zenon DEF InstanceOK, InstanceValue, n
  <1>9. /\ av \in Seq(Envelope) /\ Sorted(av, DeeperPairs)
        /\ \A x \in Range(av) : Addable(x, "dv", Depth, n + 1)
    BY <1>2, <1>5, <1>8, AddedSorted, Zenon
  <1>10. /\ as \in Seq(Envelope) /\ Sorted(as, DeeperPairs)
         /\ \A x \in Range(as) : Addable(x, "schema", Depth, n + 1)
    BY <1>2, <1>5, <1>8, AddedSorted, Zenon
  <1>11. \A e, kind : Addable(e, kind, Depth, n) => Addable(e, kind, Depth, n + 1)
    <2>1. ASSUME NEW e, NEW kind, Addable(e, kind, Depth, n) PROVE Addable(e, kind, Depth, n + 1)
      <3>1. e.doc.pos \in Nat /\ e.doc.pos <= n
        BY <2>1 DEF Addable, Envelope, Document
      <3>2. e.doc.pos <= n + 1
        BY <1>2, <3>1
      <3> QED
        BY <2>1, <3>2 DEF Addable
    <2> QED
      BY <2>1
  <1> HIDE DEF av, as
  <1>12. /\ iv \in InstanceValue /\ iv.path = old.path /\ iv.skip = old.skip
         /\ iv.added = av /\ iv.addedSchemas = old.addedSchemas
    BY <1>3, <1>9, Zenon DEF InstanceValue
  <1>13. /\ is \in InstanceValue /\ is.path = old.path /\ is.skip = old.skip
         /\ is.added = old.added /\ is.addedSchemas = as
    BY <1>3, <1>10, Zenon DEF InstanceValue
  <1> HIDE DEF iv, is
  <1>14. InstanceOK(iv, Adding(Top, iv), Depth)
    <2>1. Adding(Top, iv).lib = Top.lib /\ Adding(Top, iv).skip = Top.skip /\ Adding(Top, iv).calls = n + 1
      BY <1>2, AddingShape, Zenon DEF n
    <2> HIDE DEF Adding
    <2> QED
      BY <1>4, <1>8, <1>9, <1>11, <1>12, <2>1, Zenon DEF InstanceOK
  <1>15. InstanceOK(is, Adding(Top, is), Depth)
    <2>1. Adding(Top, is).lib = Top.lib /\ Adding(Top, is).skip = Top.skip /\ Adding(Top, is).calls = n + 1
      BY <1>2, AddingShape, Zenon DEF n
    <2> QED
      BY <1>4, <1>8, <1>10, <1>11, <1>13, <2>1, Zenon DEF InstanceOK
  <1>16. CASE WithDataValues(i)
    BY <1>1, <1>6, <1>12, <1>14, <1>16, AddInstanceInv, SMTT(30) DEF iv, av
  <1>17. CASE WithDataValuesSchema(i)
    BY <1>1, <1>7, <1>13, <1>15, <1>17, AddInstanceInv, SMTT(30) DEF is, as
  <1> QED
    BY <1>16, <1>17

\* What a call that evaluates instance i, or asks for its data values, does:
\* the envelopes are marked, and the outcome is the one of every such call.
LEMMA MarkedCall ==
  ASSUME IInv, Running, ~HasNilSchema, NEW i \in DOMAIN Top.instances,
         NEW A \in SUBSET DOMAIN Top.libSchemas, NEW B \in SUBSET DOMAIN Top.libValues
  PROVE  LET t == [stack EXCEPT ![Depth] = Marking(Top, A, B)]
             o == Outcome(i, ValuesOf(Top.instances[i]).own)
         IN  /\ StackOK(t, runs) /\ t # << >> /\ Len(t) = Depth
             /\ \A d \in 1 .. Depth : t[d].skip = stack[d].skip
             /\ OutcomesOK(outcomes, t, runs) /\ OutcomesOK(outcomes \cup {o}, t, runs)
  <1> DEFINE t == [stack EXCEPT ![Depth] = Marking(Top, A, B)]
             V == ValuesOf(Top.instances[i])
             o == Outcome(i, V.own)
             g == Marking(Top, A, B)
  <1>1. /\ stack # << >> /\ Depth \in Nat /\ Top \in Frame /\ FrameOK(Top, Depth)
        /\ runs \in Nat /\ StackOK(stack, runs) /\ OutcomesOK(outcomes, stack, runs)
    BY TopFacts DEF IInv
  <1>2. Evolves(Top, g) /\ FrameOK(g, Depth)
    BY <1>1, MarkingEvolves
  <1> HIDE DEF g
  <1>3. /\ StackOK(t, runs) /\ t # << >> /\ Len(t) = Depth
        /\ \A O : OutcomesOK(O, stack, runs) => OutcomesOK(O, t, runs)
        /\ \A d \in 1 .. Depth : t[d].skip = stack[d].skip
    BY <1>2, EvolveKeeps, Zenon DEF g
  <1>4. V = ValuesFor(Top, Top.instances[i], runs + 1, Depth + 1)
    BY Zenon DEF ValuesOf, SchemasOf, ValuesFor, SchemasFor
  <1> HIDE DEF t, V
  <1>5. Layers(V.own) = MergedLayers(Top, i, Depth)
    <2>1. Nil \notin Range(Top.libSchemas)
      BY DEF HasNilSchema
    <2>2. runs + 1 \in Nat
      BY <1>1
    <2> QED
      BY <1>1, <1>4, <2>1, <2>2, AlwaysSameLayers, SMTT(30)
  <1>6. OutcomesOK(outcomes \cup {o}, stack, runs)
    <2>1. o = [instance |-> <<stack[Len(stack)].run, i>>,
               layers |-> MergedLayers(stack[Len(stack)], i, Len(stack))]
      BY <1>5 DEF Outcome, Top, Depth
    <2>2. i \in DOMAIN stack[Len(stack)].instances
      BY DEF Top
    <2> HIDE DEF o
    <2> QED
      BY <1>1, <2>1, <2>2, NewOutcome, SMTT(30)
  <1>7. OutcomesOK(outcomes, t, runs) /\ OutcomesOK(outcomes \cup {o}, t, runs)
    BY <1>1, <1>3, <1>6
  <1> QED
    BY <1>3, <1>7 DEF t, V

\* The execution that Eval starts.
LEMMA EvalChild ==
  ASSUME IInv, Running, ~HasNilSchema, NEW i \in DOMAIN Top.instances, NEW call \in Calls
  PROVE  LET inst == Top.instances[i]
             child == Execution(Private[Top.lib][inst.path], Ref(inst), call, inst.skip,
                                SchemasOf(inst), ValuesOf(inst), runs + 1)
         IN  /\ child \in Frame /\ FrameOK(child, Depth + 1)
             /\ child.run = runs + 1 /\ child.values = ValuesOf(inst).own
             /\ Top.skip => child.skip
  <1> DEFINE inst == Top.instances[i]
             S == SchemasOf(inst)
             V == ValuesOf(inst)
             lib == Private[Top.lib][inst.path]
             child == Execution(lib, Ref(inst), call, inst.skip, S, V, runs + 1)
             n == runs + 1
             d == Depth + 1
  <1>1. /\ Depth \in Nat /\ Top \in Frame /\ FrameOK(Top, Depth)
        /\ runs \in Nat /\ Top.run \in Nat /\ Top.run <= runs
    BY TopFacts DEF IInv
  <1>2. n \in Nat /\ Top.run <= n
    BY <1>1
  <1>3. Nil \notin Range(Top.libSchemas)
    BY DEF HasNilSchema
  <1>4. /\ S = SchemasFor(Top, inst, n, d)
        /\ V = ValuesFor(Top, inst, n, d)
    BY Zenon DEF ValuesOf, SchemasOf, ValuesFor, SchemasFor
  <1>5. ResultOK(S, "schema", n, d) /\ ResultOK(V, "dv", n, d) /\ V.children \in Seq(Envelope)
    <2> HIDE DEF S, V, n
    <2> QED
      BY <1>1, <1>2, <1>3, <1>4, InstanceResults, SMTT(30)
  <1>6. inst \in InstanceValue /\ lib \in Library
    BY <1>1, <1>3, GivenLists
  <1>7. Ref(inst) \in LibraryRef /\ inst.skip \in BOOLEAN
    BY <1>6, Zenon DEF Ref, LibraryRef, InstanceValue
  <1>8. Top.skip => inst.skip
    BY <1>1, Zenon DEF FrameOK, InstanceOK
  <1> HIDE DEF S, V, n, d, inst, lib
  <1>9. child \in Frame /\ FrameOK(child, d)
    BY <1>2, <1>5, <1>6, <1>7, NewExecution, SMTT(30) DEF n
  <1>10. child.run = n /\ child.values = V.own /\ child.skip = inst.skip
    BY DEF Execution, n
  <1> HIDE DEF child
  <1>11. Top.skip => child.skip
    BY <1>8, <1>10
  <1> QED
    BY <1>9, <1>10, <1>11, Zenon DEF child, S, V, n, d, inst, lib

\* The documents in the envelopes that an execution posts.
LEMMA PostedDocs ==
  ASSUME NEW f \in Frame, NEW d, FrameOK(f, d), NEW e \in Posted(f)
  PROVE  e.doc \in Document /\ e.doc.run \in Nat /\ e.doc.run <= f.run
  <1>1. Postable(e, "dv", f.run, d) \/ Postable(e, "schema", f.run, d)
    BY DEF Posted, FrameOK
  <1> QED
    BY <1>1, Zenon DEF Postable, Envelope, Document

\* Eval and Export keep the invariant.
LEMMA EvalInv ==
  ASSUME IInv, Running, NEW i \in DOMAIN Top.instances, NEW call \in Calls, Eval(i, call)
  PROVE  IInv'
  <1> DEFINE inst == Top.instances[i]
             child == Execution(Private[Top.lib][inst.path], Ref(inst), call, inst.skip,
                                SchemasOf(inst), ValuesOf(inst), runs + 1)
             A == Marked(Top.libSchemas, Ref(inst))
             B == Marked(Top.libValues, Ref(inst))
             t == [stack EXCEPT ![Depth] = Marking(Top, A, B)]
             o == Outcome(i, ValuesOf(inst).own)
             new == {e.doc : e \in {f \in Posted(child) : f.doc.run = runs + 1}}
  <1>1. /\ ~HasNilSchema /\ runs < MaxRuns
        /\ stack' = Append(MarkValues(MarkSchemas(Calling, inst), inst), child)
        /\ runs' = runs + 1 /\ declared' = declared \cup new
        /\ outcomes' = outcomes \cup {Outcome(i, child.values)} /\ status' = status
    BY Zenon DEF Eval
  <1>2. /\ stack \in Seq(Frame) /\ stack # << >> /\ Depth \in Nat /\ Depth \in 1 .. Depth
        /\ runs \in Nat /\ StackOK(stack, runs) /\ status = "running"
        /\ \A doc \in declared : doc \in Document /\ doc.run <= runs
    BY TopFacts DEF IInv, Running
  <1>3. /\ child \in Frame /\ FrameOK(child, Depth + 1)
        /\ child.run = runs + 1 /\ child.values = ValuesOf(inst).own
        /\ Top.skip => child.skip
    BY <1>1, EvalChild, Zenon
  <1>4. A \in SUBSET DOMAIN Top.libSchemas /\ B \in SUBSET DOMAIN Top.libValues
    BY Zenon DEF Marked
  <1>5. MarkValues(MarkSchemas(Calling, inst), inst) = t
    BY <1>2, CallStack, Zenon
  <1> HIDE DEF A, B, child, new
  <1>6. /\ StackOK(t, runs) /\ t # << >> /\ Len(t) = Depth
        /\ \A d \in 1 .. Depth : t[d].skip = stack[d].skip
        /\ OutcomesOK(outcomes \cup {o}, t, runs)
    BY <1>1, <1>4, MarkedCall, Zenon
  <1> HIDE DEF t, o
  <1>7. ASSUME NEW d \in 1 .. Len(t), t[d].skip PROVE child.skip
    <2>1. d \in 1 .. Depth /\ stack[d].skip
      BY <1>6, <1>7
    <2>2. d = Depth \/ d < Depth
      BY <1>2, <2>1
    <2>3. Top.skip
      BY <1>2, <2>1, <2>2 DEF StackOK, Top, Depth
    <2> QED
      BY <1>3, <2>3, Zenon
  <1>8. StackOK(Append(t, child), runs + 1) /\ OutcomesOK(outcomes \cup {o}, Append(t, child), runs + 1)
    BY <1>2, <1>3, <1>6, <1>7, PushStack, Zenon
  <1>9. stack' = Append(t, child) /\ outcomes' = outcomes \cup {o}
    BY <1>1, <1>3, <1>5, Zenon DEF o
  <1>10. stack' # << >>
    <2>1. t \in Seq(Frame)
      BY <1>6 DEF StackOK
    <2> QED
      BY <1>3, <1>9, <2>1, AppendProperties, SMTT(30)
  <1>11. \A doc \in declared' : doc \in Document /\ doc.run <= runs'
    <2>1. ASSUME NEW doc \in declared PROVE doc \in Document /\ doc.run <= runs + 1
      BY <1>2 DEF Document
    <2>2. ASSUME NEW doc \in new PROVE doc \in Document /\ doc.run <= runs + 1
      <3>1. PICK e \in Posted(child) : doc = e.doc
        BY DEF new
      <3> QED
        BY <1>3, <3>1, PostedDocs
    <2> QED
      BY <1>1, <2>1, <2>2
  <1>12. runs' \in Nat /\ runs' <= MaxRuns
    BY <1>1, <1>2, BoundsAssumption
  <1> QED
    BY <1>1, <1>2, <1>8, <1>9, <1>10, <1>11, <1>12, Zenon DEF IInv, Running

\* DataValues keeps the invariant.
LEMMA DataValuesInv ==
  ASSUME IInv, Running, NEW i \in DOMAIN Top.instances, DataValues(i)
  PROVE  IInv'
  <1> DEFINE inst == Top.instances[i]
             A == Marked(Top.libSchemas, Ref(inst))
             B == Marked(Top.libValues, Ref(inst))
             t == [stack EXCEPT ![Depth] = Marking(Top, A, B)]
             o == Outcome(i, ValuesOf(inst).own)
  <1>1. /\ ~HasNilSchema /\ stack' = MarkValues(MarkSchemas(Calling, inst), inst)
        /\ runs' = runs /\ declared' = declared /\ outcomes' = outcomes \cup {o} /\ status' = status
    BY Zenon DEF DataValues
  <1>2. stack \in Seq(Frame) /\ stack # << >>
    BY TopFacts
  <1>3. A \in SUBSET DOMAIN Top.libSchemas /\ B \in SUBSET DOMAIN Top.libValues
    BY DEF Marked
  <1>4. stack' = t
    BY <1>1, <1>2, CallStack, Zenon
  <1> HIDE DEF A, B
  <1>5. StackOK(t, runs) /\ t # << >> /\ OutcomesOK(outcomes \cup {o}, t, runs)
    BY <1>1, <1>3, MarkedCall, Zenon
  <1> HIDE DEF t, o
  <1> QED
    BY <1>1, <1>4, <1>5, InvKept

\* An error ends executions: those that are left are the lowest k ones.
LEMMA UnwindShape ==
  ASSUME stack \in Seq(Frame), stack # << >>, Unwind
  PROVE  \E k \in 0 .. Depth : /\ k < Depth /\ stack' = SubSeq(stack, 1, k)
                               /\ status' = IF k = 0 THEN "error" ELSE "running"
                               /\ aborted' = aborted \cup UNION {Docs(Posted(stack[j])) : j \in k + 1 .. Depth}
  <1> DEFINE guards == {j \in 2 .. Depth : stack[j].call.guarded}
             k == IF guards = {} THEN 0 ELSE Max(guards) - 1
  <1>1. Depth \in Nat /\ Depth # 0
    BY LenProperties, EmptySeq DEF Depth
  <1>2. guards \in SUBSET (2 .. Depth)
    OBVIOUS
  <1>3. /\ stack' = SubSeq(stack, 1, k)
        /\ status' = IF k = 0 THEN "error" ELSE "running"
        /\ aborted' = aborted \cup UNION {Docs(Posted(stack[j])) : j \in k + 1 .. Depth}
    BY Zenon DEF Unwind
  <1>4. k \in 0 .. Depth /\ k < Depth
    <2> HIDE DEF guards
    <2>1. CASE guards = {}
      BY <1>1, <2>1
    <2>2. CASE guards # {}
      <3>1. Max(guards) \in 2 .. Depth
        <4>1. Max(guards) \in guards
          <5>1. 2 \in Int /\ Depth \in Int
            BY <1>1
          <5> QED
            BY <1>2, <2>2, <5>1, MaxOfInterval, Zenon
        <4> QED
          BY <1>2, <4>1, Zenon
      <3>2. k = Max(guards) - 1
        BY <2>2
      <3> HIDE DEF k
      <3> QED
        BY <1>1, <3>1, <3>2
    <2> QED
      BY <2>1, <2>2
  <1> HIDE DEF k
  <1> QED
    BY <1>3, <1>4

\* Fewer executions in progress.
LEMMA PopInv ==
  ASSUME IInv, Running, NEW k \in 0 .. Depth, stack' = SubSeq(stack, 1, k), runs' = runs,
         declared' = declared, outcomes' = outcomes, status' \in {"ok", "error", "running"},
         status' = "running" <=> k # 0
  PROVE  IInv'
  <1>1. /\ runs \in Nat /\ runs <= MaxRuns /\ StackOK(stack, runs) /\ OutcomesOK(outcomes, stack, runs)
        /\ \A doc \in declared : doc \in Document /\ doc.run <= runs
    BY DEF IInv
  <1>2. StackOK(stack', runs) /\ Len(stack') = k /\ OutcomesOK(outcomes, stack', runs)
    BY <1>1, PopStack DEF Depth
  <1>3. stack' = << >> <=> k = 0
    BY <1>2, EmptySeq, Zenon DEF StackOK
  <1> QED
    BY <1>1, <1>2, <1>3 DEF IInv, Running

\* An error keeps the invariant.
LEMMA UnwindInv ==
  ASSUME IInv, Running, Unwind
  PROVE  IInv'
  <1>1. stack \in Seq(Frame) /\ stack # << >>
    BY TopFacts
  <1>2. PICK k \in 0 .. Depth : /\ stack' = SubSeq(stack, 1, k)
                                /\ status' = IF k = 0 THEN "error" ELSE "running"
    BY <1>1, UnwindShape
  <1>3. runs' = runs /\ declared' = declared /\ outcomes' = outcomes
    BY DEF Unwind
  <1>4. status' \in {"ok", "error", "running"} /\ (status' = "running" <=> k # 0)
    BY <1>2
  <1> QED
    BY <1>2, <1>3, <1>4, PopInv, SMTT(30)

\* A failed call keeps the invariant.
LEMMA CallFailsInv ==
  ASSUME IInv, Running, NEW i \in DOMAIN Top.instances, NEW guarded \in BOOLEAN,
         CallFails(i, guarded)
  PROVE  IInv'
  <1> DEFINE inst == Top.instances[i]
             A == Marked(Top.libSchemas, Ref(inst))
             B == Marked(Top.libValues, Ref(inst))
             s == [stack EXCEPT ![Depth] = Marking(Top, A, {})]
             t == [stack EXCEPT ![Depth] = Marking(Top, A, B)]
  <1>1. stack \in Seq(Frame) /\ stack # << >> /\ Depth \in Nat /\ Depth <= Depth
    BY TopFacts
  <1>2. ~HasNilSchema
    BY Zenon DEF CallFails
  <1>3. MarkSchemas(Calling, inst) = s /\ MarkValues(MarkSchemas(Calling, inst), inst) = t
    BY <1>1, CallStack, Zenon
  <1>4. \/ Unwind
        \/ /\ stack' = s \/ stack' = t
           /\ status' = status /\ runs' = runs /\ declared' = declared /\ outcomes' = outcomes
    BY <1>3, Zenon DEF CallFails
  <1>5. A \in SUBSET DOMAIN Top.libSchemas /\ B \in SUBSET DOMAIN Top.libValues
        /\ {} \in SUBSET DOMAIN Top.libValues
    BY DEF Marked
  <1> HIDE DEF A, B
  <1>6. /\ StackOK(s, runs) /\ s # << >> /\ OutcomesOK(outcomes, s, runs)
        /\ StackOK(t, runs) /\ t # << >> /\ OutcomesOK(outcomes, t, runs)
    BY <1>2, <1>5, MarkedCall, Zenon
  <1> HIDE DEF s, t
  <1>7. CASE Unwind
    BY <1>7, UnwindInv, SMTT(30)
  <1>8. CASE /\ stack' = s \/ stack' = t
             /\ status' = status /\ runs' = runs /\ declared' = declared /\ outcomes' = outcomes
    BY <1>6, <1>8, InvKept
  <1> QED
    BY <1>4, <1>7, <1>8

\* A call that meets a nil schema keeps the invariant.
LEMMA CallPanicsInv ==
  ASSUME IInv, Running, NEW i \in DOMAIN Top.instances, NEW guarded \in BOOLEAN,
         CallPanics(i, guarded)
  PROVE  IInv'
  <1> DEFINE A == MarkedBeforeNil(Top.instances[i])
             g == Marking(Top, A, {})
             s == [stack EXCEPT ![Depth] = g]
  <1>1. /\ stack \in Seq(Frame) /\ stack # << >> /\ Depth \in Nat /\ Top \in Frame
        /\ FrameOK(Top, Depth) /\ runs \in Nat /\ StackOK(stack, runs)
        /\ OutcomesOK(outcomes, stack, runs)
    BY TopFacts DEF IInv
  <1>2. [Calling EXCEPT ![Depth].usedSchemas = @ \cup A] = s
    BY <1>1, SchemasMarked, Zenon
  <1>3. \/ Unwind
        \/ stack' = s /\ status' = status /\ runs' = runs /\ declared' = declared /\ outcomes' = outcomes
    BY <1>2, Zenon DEF CallPanics
  <1>4. A \in SUBSET DOMAIN Top.libSchemas /\ {} \in SUBSET DOMAIN Top.libValues
    BY DEF MarkedBeforeNil
  <1> HIDE DEF A
  <1>5. Evolves(Top, g) /\ FrameOK(g, Depth)
    BY <1>1, <1>4, MarkingEvolves
  <1> HIDE DEF g
  <1>6. StackOK(s, runs) /\ s # << >> /\ OutcomesOK(outcomes, s, runs)
    BY <1>1, <1>5, EvolveKeeps, Zenon
  <1> HIDE DEF s
  <1>7. CASE Unwind
    BY <1>7, UnwindInv, SMTT(30)
  <1>8. CASE stack' = s /\ status' = status /\ runs' = runs /\ declared' = declared /\ outcomes' = outcomes
    BY <1>6, <1>8, InvKept
  <1> QED
    BY <1>3, <1>7, <1>8

\* The end of an evaluation keeps the invariant.
LEMMA FinishInv ==
  ASSUME IInv, Finish
  PROVE  IInv'
  <1>1. /\ Running /\ stack' = SubSeq(stack, 1, Depth - 1) /\ status' = IF Depth = 1 THEN "ok" ELSE "running"
        /\ runs' = runs /\ declared' = declared /\ outcomes' = outcomes
    BY DEF Finish, fates
  <1>2. Depth \in Nat /\ Depth # 0
    BY <1>1, TopFacts
  <1> DEFINE k == Depth - 1
  <1>3. stack' = SubSeq(stack, 1, k)
    BY <1>1
  <1>4. k \in 0 .. Depth /\ (k # 0 <=> Depth # 1)
    BY <1>2
  <1> HIDE DEF k
  <1>5. status' \in {"ok", "error", "running"} /\ (status' = "running" <=> k # 0)
    BY <1>1, <1>4
  <1> QED
    BY <1>1, <1>3, <1>4, <1>5, PopInv, Zenon

\* The root library's execution starts.
LEMMA RootStarts ==
  ASSUME IInv, status = "init", NEW root \in Frame, FrameOK(root, 1), root.run = 1,
         stack' = <<root>>, runs' = 1, status' = "running", outcomes' = outcomes,
         declared' = Docs(Posted(root))
  PROVE  IInv'
  <1>1. runs = 0 /\ stack = << >> /\ Len(stack) = 0
    BY DEF IInv, Running
  <1>2. StackOK(stack, 0) /\ OutcomesOK(outcomes, stack, 0)
    BY <1>1 DEF IInv
  <1>3. stack' = Append(stack, root) /\ stack' # << >>
    BY <1>1
  <1>4. FrameOK(root, Len(stack) + 1) /\ root.run = 0 + 1
    BY <1>1
  <1>5. \A d \in 1 .. Len(stack) : stack[d].skip => root.skip
    BY <1>1
  <1>6. StackOK(Append(stack, root), 0 + 1) /\ OutcomesOK(outcomes, Append(stack, root), 0 + 1)
    BY <1>2, <1>4, <1>5, PushStack
  <1>7. StackOK(stack', 1) /\ OutcomesOK(outcomes, stack', 1)
    <2>1. 0 + 1 = 1
      OBVIOUS
    <2> QED
      BY <1>3, <1>6, <2>1, Zenon
  <1>8. \A doc \in Docs(Posted(root)) : doc \in Document /\ doc.run <= 1
    <2>1. ASSUME NEW e \in Posted(root) PROVE e.doc \in Document /\ e.doc.run <= 1
      BY PostedDocs
    <2> QED
      BY <2>1, Zenon DEF Docs
  <1>9. 1 <= MaxRuns
    BY BoundsAssumption
  <1> QED
    BY <1>3, <1>7, <1>8, <1>9, SMTT(30) DEF IInv, Running

\* The root library's execution, and how RunWithFiles starts it.
Root(b) == Execution(RootLibrary, [path |-> "", alias |-> ""],
                     [how |-> "eval", guarded |-> FALSE], b, RootSchemas, RootValues, 1)

\* The root library's execution is well formed.
LEMMA RootFrame ==
  ASSUME NEW b \in BOOLEAN
  PROVE  Root(b) \in Frame /\ FrameOK(Root(b), 1) /\ Root(b).run = 1
  <1> DEFINE ref == [path |-> "", alias |-> ""]
             call == [how |-> "eval", guarded |-> FALSE]
  <1>1. ref \in LibraryRef /\ call \in Calls /\ RootLibrary \in Library
    BY TreeAssumption DEF LibraryRef, Calls
  <1>2. /\ ResultOK(RootSchemas, "schema", 1, 1) /\ ResultOK(RootValues, "dv", 1, 1)
        /\ RootValues.children \in Seq(Envelope)
    BY RootSchemasOK, RootValuesOK
  <1>3. Root(b).run = 1
    BY DEF Root, Execution
  <1> HIDE DEF ref, call
  <1>4. Execution(RootLibrary, ref, call, b, RootSchemas, RootValues, 1) \in Frame
        /\ FrameOK(Execution(RootLibrary, ref, call, b, RootSchemas, RootValues, 1), 1)
    BY <1>1, <1>2, NewExecution
  <1> QED
    BY <1>3, <1>4, Zenon DEF Root, ref, call

\* RunWithFiles either stops, or starts the execution of the root library.
LEMMA StartShape ==
  ASSUME RunWithFiles
  PROVE  /\ status = "init" /\ runs' = 1 /\ outcomes' = outcomes
         /\ delivered' = delivered /\ peeked' = peeked /\ aborted' = aborted
         /\ \/ /\ status' \in {"error", "inspected"}
               /\ stack' = stack /\ declared' = declared
            \/ \E b \in BOOLEAN : /\ stack' = <<Root(b)>> /\ status' = "running"
                                  /\ declared' = Docs(Posted(Root(b)))
  <1>1. SkipOptions[""] \subseteq BOOLEAN
    BY SkipAssumption, Zenon
  <1> QED
    BY <1>1, Zenon DEF RunWithFiles, Root, RootSchemas, RootValues, RootFound, Flags, fates

\* RunWithFiles keeps the invariant.
LEMMA StartInv ==
  ASSUME IInv, RunWithFiles
  PROVE  IInv'
  <1>1. status = "init" /\ runs' = 1 /\ outcomes' = outcomes
    BY StartShape
  <1>2. runs = 0 /\ stack = << >>
    BY <1>1 DEF IInv, Running
  <1>3. /\ StackOK(stack, 0) /\ OutcomesOK(outcomes, stack, 0)
        /\ \A doc \in declared : doc \in Document /\ doc.run <= 0
    BY <1>2 DEF IInv
  <1>4. 1 <= MaxRuns
    BY BoundsAssumption
  <1>5. CASE status' \in {"error", "inspected"} /\ stack' = stack /\ declared' = declared
    <2>1. Len(stack) = 0 /\ stack \in Seq(Frame)
      BY <1>2
    <2>2. StackOK(stack, 1)
      BY <2>1 DEF StackOK
    <2>3. OutcomesOK(outcomes, stack, 1)
      BY <1>3, <2>1 DEF OutcomesOK, OutcomeOK
    <2>4. \A doc \in declared : doc \in Document /\ doc.run <= 1
      BY <1>3 DEF Document
    <2> QED
      BY <1>1, <1>2, <1>4, <1>5, <2>2, <2>3, <2>4, SMTT(30) DEF IInv, Running
  <1>6. ASSUME NEW b \in BOOLEAN, stack' = <<Root(b)>>, status' = "running",
               declared' = Docs(Posted(Root(b)))
        PROVE  IInv'
    BY <1>1, <1>6, RootFrame, RootStarts, Zenon
  <1> QED
    BY <1>5, <1>6, StartShape

\* A step keeps the invariant.
LEMMA StepInv == IInv /\ [Next]_vars => IInv'
  <1> SUFFICES ASSUME IInv, [Next]_vars PROVE IInv'
    OBVIOUS
  <1>1. CASE RunWithFiles
    BY <1>1, StartInv
  <1>2. CASE Running /\ LibraryCall
    <2>1. ASSUME NEW p \in Path, NEW a \in Alias \cup {""}, NEW b \in SkipOptions[p], Get(p, a, b)
          PROVE  IInv'
      BY <2>1, GetInv, Zenon
    <2>2. ASSUME NEW i \in DOMAIN Top.instances,
                 \/ WithDataValues(i) \/ WithDataValuesSchema(i) \/ DataValues(i)
                 \/ \E call \in Calls : Eval(i, call)
                 \/ \E guarded \in BOOLEAN : CallFails(i, guarded) \/ CallPanics(i, guarded)
          PROVE  IInv'
      <3>1. CASE WithDataValues(i) \/ WithDataValuesSchema(i)
        BY <3>1, WithDataValuesInv
      <3>2. CASE DataValues(i)
        BY <1>2, <3>2, DataValuesInv
      <3>3. CASE \E guarded \in BOOLEAN : CallPanics(i, guarded)
        BY <1>2, <3>3, CallPanicsInv, Zenon
      <3>4. CASE \E call \in Calls : Eval(i, call)
        BY <1>2, <3>4, EvalInv
      <3>5. CASE \E guarded \in BOOLEAN : CallFails(i, guarded)
        BY <1>2, <3>5, CallFailsInv, Zenon
      <3> QED
        BY <2>2, <3>1, <3>2, <3>3, <3>4, <3>5, SMTT(30)
    <2> QED
      BY <1>2, <2>1, <2>2, Zenon DEF LibraryCall
  <1>3. CASE TemplateFails \/ UnusedFails \/ UnusedPanics \/ ExportFails
    <2>1. Running /\ Unwind
      BY <1>3 DEF TemplateFails, UnusedFails, UnusedPanics, ExportFails
    <2> QED
      BY <2>1, UnwindInv, SMTT(30)
  <1>4. CASE Finish
    BY <1>4, FinishInv
  <1>5. CASE UNCHANGED vars
    BY <1>5, Zenon DEF vars, IInv, Running
  <1> QED
    BY <1>1, <1>2, <1>3, <1>4, <1>5, SMTT(30) DEF Next

-----------------------------------------------------------------------------

\* The executions in progress and what their instances merged are well-formed
\* in every reachable state.
THEOREM Invariance == Spec => []IInv
  BY InitInv, StepInv, PTL DEF Spec

\* In every execution in progress, in any tree of libraries and whatever library
\* calls the templates make, the documents of the data values and of the schema
\* are overlaid in the one documented order, and belong to that library.
THEOREM MergesInOrder == Spec => []MergePrecedence
  <1>1. IInv => MergePrecedence
    <2> SUFFICES ASSUME IInv, NEW i \in DOMAIN stack, NEW s \in {stack[i].values, stack[i].schema}
                 PROVE  /\ \A j, k \in DOMAIN s : j < k => Below(s[j], s[k])
                        /\ \A j \in DOMAIN s : ~IntendedForAnotherLibrary(s[j])
      BY DEF MergePrecedence
    <2>1. stack \in Seq(Frame) /\ \A d \in 1 .. Len(stack) : FrameOK(stack[d], d)
      BY DEF IInv, StackOK
    <2>2. stack[i] \in Frame /\ FrameOK(stack[i], i)
      BY <2>1, LenProperties, ElementOfSeq
    <2>3. s \in Seq(Envelope) /\ Merged(s)
      BY <2>2, Zenon DEF Frame, FrameOK
    <2>4. DOMAIN s = 1 .. Len(s) /\ \A j \in 1 .. Len(s) : s[j] \in Range(s)
      BY <2>3, RangeIndex, Zenon
    <2>5. ASSUME NEW j \in DOMAIN s, NEW k \in DOMAIN s, j < k PROVE Below(s[j], s[k])
      <3> DEFINE p == <<s[j], s[k]>>
      <3>1. p \in BelowPairs
        BY <2>3, <2>4, <2>5 DEF Merged, Sorted
      <3>2. Below(p[1], p[2])
        BY <3>1, Zenon DEF BelowPairs
      <3> QED
        BY <3>2
    <2>6. \A j \in DOMAIN s : ~IntendedForAnotherLibrary(s[j])
      BY <2>3, <2>4, SMTT(30) DEF Merged, IntendedForAnotherLibrary
    <2> QED
      BY <2>5, <2>6
  <1> QED
    BY <1>1, Invariance, PTL

\* Two evaluations of one library instance, or an evaluation and data_values(),
\* merge the same documents in the same order, whatever happened in between.
THEOREM EvaluationIsRepeatable == Spec => []RepeatableEvaluation
  <1>1. IInv => RepeatableEvaluation
    BY Zenon DEF IInv, OutcomesOK, RepeatableEvaluation
  <1> QED
    BY <1>1, Invariance, PTL

\* A library that is evaluated on behalf of one that skips the validations of
\* data values skips them as well, however deep.
THEOREM SkippingIsInherited == Spec => []SkipIsInherited
  <1>1. IInv => SkipIsInherited
    BY LenProperties DEF IInv, StackOK, SkipIsInherited
  <1> QED
    BY <1>1, Invariance, PTL

\* How the stack changes in a step: executions start and end on top, and the
\* others go on.
GoesOn(f, g) == g = f \/ Evolves(f, g)

\* After a call, every execution goes on.
LEMMA EvolvedStack ==
  ASSUME IInv, Running, NEW g, Evolves(Top, g), NEW i \in DOMAIN stack
  PROVE  GoesOn(stack[i], [stack EXCEPT ![Depth] = g][i])
  <1>1. stack \in Seq(Frame) /\ stack # << >> /\ g \in Frame /\ Depth = Len(stack)
    BY TopFacts DEF Evolves, Depth
  <1>2. i \in 1 .. Len(stack)
    BY <1>1, LenProperties
  <1>3. i = Depth \/ i # Depth
    OBVIOUS
  <1> QED
    BY <1>1, <1>2, <1>3, TopReplaced, SMTT(30) DEF GoesOn, Top

\* What the calls that make a new instance do.
LEMMA AddingCalls ==
  ASSUME IInv, Running, LibraryCall
  PROVE  \/ \E inst \in InstanceValue : AddInstance(inst)
         \/ \E i \in DOMAIN Top.instances :
              \/ \E call \in Calls : Eval(i, call)
              \/ DataValues(i)
              \/ \E guarded \in BOOLEAN : CallFails(i, guarded) \/ CallPanics(i, guarded)
  <1>1. Top \in Frame /\ Depth \in Nat
    BY TopFacts
  <1>2. ASSUME NEW p \in Path, NEW a \in Alias \cup {""}, NEW b \in SkipOptions[p], Get(p, a, b)
        PROVE  \E inst \in InstanceValue : AddInstance(inst)
    <2> DEFINE inst == [path |-> p, alias |-> a, skip |-> Top.skip \/ b,
                        added |-> << >>, addedSchemas |-> << >>]
    <2>1. (Top.skip \/ b) \in BOOLEAN
      BY Zenon
    <2>2. inst \in InstanceValue
      BY <2>1, NothingAdded, Zenon DEF InstanceValue
    <2>3. AddInstance(inst)
      BY <1>2, Zenon DEF Get
    <2> QED
      BY <2>2, <2>3, Zenon
  <1>3. ASSUME NEW i \in DOMAIN Top.instances, WithDataValues(i) \/ WithDataValuesSchema(i)
        PROVE  \E inst \in InstanceValue : AddInstance(inst)
    <2> DEFINE old == Top.instances[i]
               v == Stamped(FromTemplate("dv"))
               s == Stamped(FromTemplate("schema"))
    <2>1. old \in InstanceValue
      BY <1>1, LenProperties, ElementOfSeq, SMTT(30) DEF Frame
    <2>2. v \in Envelope /\ s \in Envelope
      <3>1. Addable(v, "dv", Depth, Top.calls + 1) /\ Addable(s, "schema", Depth, Top.calls + 1)
        BY <1>1, TemplateDocument
      <3> HIDE DEF v, s
      <3> QED
        BY <3>1 DEF Addable
    <2>3. \/ AddInstance([old EXCEPT !.added = Append(@, v)])
          \/ AddInstance([old EXCEPT !.addedSchemas = Append(@, s)])
      BY <1>3 DEF WithDataValues, WithDataValuesSchema
    <2> HIDE DEF old, v, s
    <2>4. Append(old.added, v) \in Seq(Envelope) /\ Append(old.addedSchemas, s) \in Seq(Envelope)
      <3>1. old.added \in Seq(Envelope) /\ old.addedSchemas \in Seq(Envelope)
        BY <2>1, Zenon DEF InstanceValue
      <3> QED
        BY <2>2, <3>1, AppendProperties
    <2>5. /\ [old EXCEPT !.added = Append(@, v)] \in InstanceValue
          /\ [old EXCEPT !.addedSchemas = Append(@, s)] \in InstanceValue
      BY <2>1, <2>4, Zenon DEF InstanceValue
    <2> QED
      BY <2>3, <2>5, Zenon
  <1> QED
    BY <1>2, <1>3, Zenon DEF LibraryCall

\* An execution goes on with one more instance.
LEMMA AddingGoesOn ==
  ASSUME NEW f \in Frame, NEW inst \in InstanceValue
  PROVE  Evolves(f, Adding(f, inst))
  <1> DEFINE g == Adding(f, inst)
             s == f.instances
             t == Append(s, inst)
  <1>1. s \in Seq(InstanceValue) /\ f.calls \in Nat /\ f.calls + 1 \in Nat
    BY DEF Frame
  <1>2. /\ t \in Seq(InstanceValue) /\ Len(s) <= Len(t)
        /\ \A i \in 1 .. Len(s) : t[i] = s[i]
    BY <1>1, AppendProperties, LenProperties
  <1>3. g = [f EXCEPT !.calls = f.calls + 1, !.instances = t]
    BY DEF Adding
  <1> HIDE DEF g, t
  <1> QED
    BY <1>1, <1>2, <1>3, Zenon DEF Evolves, Frame, g

\* The executions that an error leaves are as they were.
LEMMA UnwindGoesOn ==
  ASSUME stack \in Seq(Frame), stack # << >>, Unwind,
         NEW i \in DOMAIN stack, i \in DOMAIN stack'
  PROVE  GoesOn(stack[i], stack'[i])
  <1>1. PICK k \in 0 .. Depth : stack' = SubSeq(stack, 1, k)
    BY UnwindShape
  <1>2. k \in Nat /\ Len(stack') = k /\ stack' \in Seq(Frame) /\ \A j \in 1 .. k : stack'[j] = stack[j]
    BY <1>1, SubSeqProperties, LenProperties DEF Depth
  <1>3. i \in 1 .. k
    BY <1>2, LenProperties
  <1> QED
    BY <1>2, <1>3 DEF GoesOn

\* A call of the library module only changes the execution that makes it.
LEMMA CallGoesOn ==
  ASSUME IInv, Running, LibraryCall, NEW i \in DOMAIN stack, i \in DOMAIN stack'
  PROVE  GoesOn(stack[i], stack'[i])
  <1>1. /\ stack \in Seq(Frame) /\ stack # << >> /\ Top \in Frame /\ FrameOK(Top, Depth)
        /\ Depth \in Nat /\ Depth <= Depth /\ Depth = Len(stack) /\ DOMAIN stack = 1 .. Depth
    BY TopFacts, LenProperties DEF Depth
  <1>2. ASSUME NEW inst \in InstanceValue, AddInstance(inst)
        PROVE  GoesOn(stack[i], stack'[i])
    <2>1. stack' = [stack EXCEPT ![Depth] = Adding(Top, inst)]
      BY <1>1, <1>2, CallStack, Zenon DEF AddInstance
    <2>2. Evolves(Top, Adding(Top, inst))
      BY <1>1, AddingGoesOn
    <2> QED
      BY <2>1, <2>2, EvolvedStack
  <1>3. ASSUME NEW j \in DOMAIN Top.instances,
               \/ \E call \in Calls : Eval(j, call)
               \/ DataValues(j)
               \/ \E guarded \in BOOLEAN : CallFails(j, guarded) \/ CallPanics(j, guarded)
        PROVE  GoesOn(stack[i], stack'[i])
    <2> DEFINE inst == Top.instances[j]
               A == Marked(Top.libSchemas, Ref(inst))
               B == Marked(Top.libValues, Ref(inst))
               C == MarkedBeforeNil(inst)
               p == [stack EXCEPT ![Depth] = Marking(Top, C, {})]
               s == [stack EXCEPT ![Depth] = Marking(Top, A, {})]
               t == [stack EXCEPT ![Depth] = Marking(Top, A, B)]
    <2>1. /\ MarkSchemas(Calling, inst) = s /\ MarkValues(MarkSchemas(Calling, inst), inst) = t
          /\ [Calling EXCEPT ![Depth].usedSchemas = @ \cup C] = p
      BY <1>1, CallStack, SchemasMarked, Zenon
    <2>2. /\ A \in SUBSET DOMAIN Top.libSchemas /\ B \in SUBSET DOMAIN Top.libValues
          /\ C \in SUBSET DOMAIN Top.libSchemas /\ {} \in SUBSET DOMAIN Top.libValues
      BY DEF Marked, MarkedBeforeNil
    <2>3. /\ Evolves(Top, Marking(Top, A, {})) /\ Evolves(Top, Marking(Top, A, B))
          /\ Evolves(Top, Marking(Top, C, {}))
      BY <1>1, <2>2, MarkingEvolves, Zenon
    <2>4. GoesOn(stack[i], s[i]) /\ GoesOn(stack[i], t[i]) /\ GoesOn(stack[i], p[i])
      BY <2>3, EvolvedStack, Zenon
    <2>5. t \in Seq(Frame) /\ Len(t) = Depth
      <3> DEFINE g == Marking(Top, A, B)
      <3>1. g \in Frame
        BY <2>3, Zenon DEF Evolves
      <3> HIDE DEF g
      <3>2. /\ [stack EXCEPT ![Len(stack)] = g] \in Seq(Frame)
            /\ Len([stack EXCEPT ![Len(stack)] = g]) = Len(stack)
        BY <1>1, <3>1, TopReplaced
      <3> QED
        BY <3>2, Zenon DEF g, Depth
    <2>6. CASE stack' = s \/ stack' = t \/ stack' = p
      BY <2>4, <2>6, Zenon
    <2>7. CASE \E child : stack' = Append(t, child)
      <3>1. PICK child : stack' = Append(t, child)
        BY <2>7, Zenon
      <3>2. stack'[i] = t[i]
        <4> HIDE DEF t
        <4>1. i \in 1 .. Len(t)
          BY <1>1, <2>5
        <4> QED
          BY <2>5, <3>1, <4>1
      <3> QED
        BY <2>4, <3>2, Zenon
    <2>8. CASE Unwind
      BY <1>1, <2>8, UnwindGoesOn, SMTT(30)
    <2> QED
      BY <1>3, <2>1, <2>6, <2>7, <2>8, Zenon DEF Eval, DataValues, CallFails, CallPanics
  <1> QED
    BY <1>2, <1>3, AddingCalls, Zenon

\* Any step.
LEMMA StepGoesOn ==
  ASSUME IInv, [Next]_vars, NEW i \in DOMAIN stack, i \in DOMAIN stack'
  PROVE  GoesOn(stack[i], stack'[i])
  <1>1. CASE RunWithFiles
    <2>1. stack = << >>
      BY <1>1, Zenon DEF RunWithFiles, IInv, Running
    <2> QED
      BY <2>1
  <1>2. CASE Running /\ LibraryCall
    BY <1>2, CallGoesOn
  <1>3. CASE TemplateFails \/ UnusedFails \/ UnusedPanics \/ ExportFails
    <2>1. Running /\ Unwind
      BY <1>3 DEF TemplateFails, UnusedFails, UnusedPanics, ExportFails
    <2>2. stack \in Seq(Frame) /\ stack # << >>
      BY <2>1, TopFacts
    <2> QED
      BY <2>1, <2>2, UnwindGoesOn, SMTT(30)
  <1>4. CASE Finish
    <2> DEFINE m == Depth - 1
    <2>1. Running /\ stack' = SubSeq(stack, 1, m)
      BY <1>4 DEF Finish
    <2>2. m \in 0 .. Len(stack) /\ stack \in Seq(Frame) /\ m \in Nat
      BY <2>1, TopFacts DEF Depth
    <2> HIDE DEF m
    <2>3. Len(stack') = m /\ stack' \in Seq(Frame) /\ \A j \in 1 .. m : stack'[j] = stack[j]
      BY <2>1, <2>2, SubSeqProperties
    <2>4. i \in 1 .. m
      BY <2>2, <2>3, LenProperties
    <2> QED
      BY <2>3, <2>4, SMTT(30) DEF GoesOn
  <1>5. CASE UNCHANGED vars
    BY <1>5 DEF vars, GoesOn
  <1> QED
    BY <1>1, <1>2, <1>3, <1>4, <1>5, SMTT(30) DEF Next

\* Once a template holds a library instance, no call of any template changes it.
THEOREM InstancesStay == Spec => InstancesAreImmutable
  <1>1. ASSUME IInv, [Next]_vars, NEW i \in DOMAIN stack \cap DOMAIN stack'
        PROVE  stack[i].instances = SubSeq(stack'[i].instances, 1, Len(stack[i].instances))
    <2> DEFINE s == stack[i].instances
               t == stack'[i].instances
    <2>1. stack[i] \in Frame /\ GoesOn(stack[i], stack'[i])
      BY <1>1, StepGoesOn, LenProperties, ElementOfSeq, SMTT(30) DEF IInv, StackOK
    <2>2. /\ s \in Seq(InstanceValue) /\ t \in Seq(InstanceValue)
          /\ Len(s) \in Nat /\ Len(t) \in Nat /\ Len(s) <= Len(t)
          /\ \A k \in 1 .. Len(s) : t[k] = s[k]
      <3>1. /\ (stack'[i] \in Frame /\ Len(s) <= Len(t)) \/ stack'[i] = stack[i]
            /\ \A k \in 1 .. Len(s) : t[k] = s[k]
        BY <2>1, Zenon DEF GoesOn, Evolves
      <3>2. s \in Seq(InstanceValue) /\ t \in Seq(InstanceValue)
        BY <2>1, <3>1, Zenon DEF Frame
      <3>3. Len(s) \in Nat /\ Len(t) \in Nat
        BY <3>2, LenProperties
      <3> HIDE DEF s, t
      <3>4. stack'[i] = stack[i] => s = t
        BY Zenon DEF s, t
      <3> QED
        BY <3>1, <3>2, <3>3, <3>4, SMTT(30)
    <2> HIDE DEF s, t
    <2>3. s = SubSeq(t, 1, Len(s))
      <3> DEFINE n == Len(s)
                 u == SubSeq(t, 1, n)
      <3>1. u \in Seq(InstanceValue) /\ Len(u) = n /\ \A k \in 1 .. n : u[k] = t[k]
        BY <2>2, SubSeqProperties
      <3> HIDE DEF u
      <3> QED
        BY <2>2, <3>1, SeqEqual, SMTT(30) DEF u
    <2> QED
      BY <2>3 DEF s, t
  <1>2. IInv /\ [Next]_vars =>
          [\A i \in DOMAIN stack \cap DOMAIN stack' :
             stack[i].run = stack'[i].run =>
               stack[i].instances = SubSeq(stack'[i].instances, 1, Len(stack[i].instances))]_stack
    BY <1>1
  <1> QED
    BY <1>2, Invariance, PTL DEF Spec, InstancesAreImmutable

==============================================================================
