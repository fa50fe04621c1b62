----------------------- MODULE LibraryDelivery_proofs -----------------------
(***************************************************************************)
(* LibraryExecution implements EnvelopeDelivery: whatever library calls    *)
(* the templates make, in any tree of libraries, envelopes are delivered   *)
(* as that specification allows.                                           *)
(***************************************************************************)
EXTENDS LibraryMail_proofs

-----------------------------------------------------------------------------
(* Steps.                                                                     *)

\* The operators of EnvelopeDelivery, for the execution on top.
LEMMA DeliveryOperators ==
  ASSUME IInv, Running, NEW ref
  PROVE  LET P == Abstract(Posted(Top))
         IN  /\ AbstractStack = SeenStack(stack) /\ Len(AbstractStack) = Depth
             /\ Delivery!Top = Seen(Top) /\ Delivery!Running
             /\ Delivery!Matching(ref) = Selected(P, ref)
             /\ Delivery!Arrived(ref) = ArrivedOf(P, ref)
             /\ Delivery!Onward(ref) = OnwardOf(P, ref)
  <1> DEFINE P == Abstract(Posted(Top))
  <1>1. AbstractStack = SeenStack(stack)
    BY AbstractStackIs, Zenon
  <1>2. stack \in Seq(Frame) /\ Depth \in 1 .. Depth
    BY TopFacts
  <1>3. Len(SeenStack(stack)) = Depth /\ SeenStack(stack)[Depth] = Seen(Top)
    BY <1>2, SeenShape DEF Depth, Top
  <1>4. Delivery!Top = Seen(Top)
    BY <1>1, <1>3, Zenon DEF Delivery!Top
  <1>5. Seen(Top).posted = P
    BY DEF Seen
  <1>6. Delivery!Running
    BY Zenon DEF Delivery!Running, Running
  <1> HIDE DEF P
  <1>7. Delivery!Matching(ref) = Selected(P, ref)
    BY <1>4, <1>5, Zenon DEF Delivery!Matching, Delivery!Matches, Selected, Matches
  <1>8. \A x : Delivery!Forward(x) = Forwarded(x)
    BY Zenon DEF Delivery!Forward, Forwarded
  <1>9. Delivery!Arrived(ref) = ArrivedOf(P, ref)
    BY <1>7, <1>8, Zenon DEF Delivery!Arrived, ArrivedOf
  <1>10. Delivery!Onward(ref) = OnwardOf(P, ref)
    BY <1>7, <1>8, Zenon DEF Delivery!Onward, OnwardOf
  <1> QED
    BY <1>1, <1>3, <1>4, <1>6, <1>7, <1>9, <1>10, Zenon DEF P

\* The envelopes around a library's mail.
LEMMA DeliverySealed ==
  ASSUME NEW mail, NEW depth
  PROVE  /\ Delivery!NewEnvelopes(mail, depth) = Sealed(mail, depth)
         /\ \A E : Delivery!Docs(E) = SeenDocs(E)
  BY Zenon DEF Delivery!NewEnvelopes, Sealed, Delivery!Docs, SeenDocs

\* Marking the envelopes of positions A and B as used.
LEMMA DeliveryMarks ==
  ASSUME IInv, Running, NEW A \in SUBSET DOMAIN Top.libSchemas,
         NEW B \in SUBSET DOMAIN Top.libValues
  PROVE  LET M == {Top.libValues[k] : k \in B} \cup {Top.libSchemas[k] : k \in A}
         IN  SeenStack([stack EXCEPT ![Depth] = Marking(Top, A, B)])
               = Delivery!MarkUsed(Abstract(M))
  <1> DEFINE M == {Top.libValues[k] : k \in B} \cup {Top.libSchemas[k] : k \in A}
             g == Marking(Top, A, B)
             s == SeenStack(stack)
             n == Depth
  <1>1. /\ stack \in Seq(Frame) /\ stack # << >> /\ Top \in Frame /\ FrameOK(Top, Depth)
        /\ n \in 1 .. n
    BY TopFacts
  <1>2. g \in Frame
    BY <1>1, MarkingEvolves DEF Evolves
  <1>3. AbstractStack = s
    BY AbstractStackIs, Zenon
  <1>4. Len(s) = n /\ DOMAIN s = 1 .. n /\ s[n] = Seen(Top)
    BY <1>1, SeenShape DEF Depth, Top
  <1>5. Seen(g) = [Seen(Top) EXCEPT !.used = @ \cup Abstract(M)]
    BY <1>1, SeenMarking, Zenon
  <1>6. SeenStack([stack EXCEPT ![n] = g]) = [s EXCEPT ![n] = Seen(g)]
    BY <1>1, <1>2, SeenTop, Zenon DEF Depth
  <1>7. Delivery!MarkUsed(Abstract(M)) = [s EXCEPT ![n].used = @ \cup Abstract(M)]
    BY <1>3, <1>4, Zenon DEF Delivery!MarkUsed
  <1> HIDE DEF M, g, s, n
  <1>8. [s EXCEPT ![n].used = @ \cup Abstract(M)]
          = [s EXCEPT ![n] = [Seen(Top) EXCEPT !.used = @ \cup Abstract(M)]]
    BY <1>4, Zenon
  <1>9. SeenStack([stack EXCEPT ![n] = g]) = Delivery!MarkUsed(Abstract(M))
    BY <1>5, <1>6, <1>7, <1>8, Zenon
  <1> QED
    BY <1>9, Zenon DEF M, g, n

\* The envelopes that a call for the library ref marks.
LEMMA MarkedSelected ==
  ASSUME IInv, Running, ~HasNilSchema, NEW ref
  PROVE  LET A == Marked(Top.libSchemas, ref)
             B == Marked(Top.libValues, ref)
         IN  /\ A \in SUBSET DOMAIN Top.libSchemas /\ B \in SUBSET DOMAIN Top.libValues
             /\ Abstract({Top.libValues[k] : k \in B} \cup {Top.libSchemas[k] : k \in A})
                  = Selected(Abstract(Posted(Top)), ref)
             /\ {Top.libValues[k] : k \in B} \cup {Top.libSchemas[k] : k \in A}
                  = Takes(Posted(Top), ref)
  <1> DEFINE A == Marked(Top.libSchemas, ref)
             B == Marked(Top.libValues, ref)
             R == Range(Top.libValues) \cup Range(Top.libSchemas)
  <1>1. A \in SUBSET DOMAIN Top.libSchemas /\ B \in SUBSET DOMAIN Top.libValues
    BY DEF Marked
  <1>2. Top \in Frame /\ FrameOK(Top, Depth)
    BY TopFacts
  <1>3. Posted(Top) = R
    <2>1. Top.libValues \in Seq(Envelope)
      BY <1>2 DEF Frame
    <2>2. Nil \notin Range(Top.libValues)
      BY <2>1, RangeIndex, NilAssumption, SMTT(30)
    <2> QED
      BY <2>2, Zenon DEF Posted, HasNilSchema
  <1>4. {Top.libValues[k] : k \in B} = Takes(Range(Top.libValues), ref)
        /\ {Top.libSchemas[k] : k \in A} = Takes(Range(Top.libSchemas), ref)
    BY MarkedAre
  <1>5. Takes(R, ref) = Takes(Range(Top.libValues), ref) \cup Takes(Range(Top.libSchemas), ref)
    BY TakesUnion
  <1>6. {Top.libValues[k] : k \in B} \cup {Top.libSchemas[k] : k \in A} = Takes(Posted(Top), ref)
    BY <1>3, <1>4, <1>5, Zenon
  <1>7. \A e \in Posted(Top) : InPost(e) /\ e # Nil /\ e.original # << >>
    BY <1>2, PostedInPost
  <1>8. Abstract(Takes(Posted(Top), ref)) = Selected(Abstract(Posted(Top)), ref)
    BY <1>7, HandedDown
  <1> QED
    BY <1>1, <1>6, <1>8, Zenon

\* The mail of execution number n was not declared before.
LEMMA MailUnseen ==
  ASSUME IInv, NEW lib \in Library, NEW n \in Nat, runs < n, n <= MaxRuns
  PROVE  MailOf(lib, n) \in Mail /\ Delivery!Unseen(MailOf(lib, n))
  <1> DEFINE mail == MailOf(lib, n)
  <1>1. MaxRuns \in Nat /\ runs \in Nat
    BY BoundsAssumption DEF IInv
  <1>2. n \in 1 .. MaxRuns
    BY <1>1
  <1>3. mail \in Mail
    BY <1>2 DEF Mail
  <1>4. \A m \in mail : m.doc.run = n
    BY MailUnique, Zenon
  <1>5. \A m, o \in mail : m.doc = o.doc => m = o
    BY MailUnique
  <1>6. \A doc \in declared : doc.run # n
    BY <1>1 DEF IInv, Document
  <1> HIDE DEF mail
  <1>7. {m.doc : m \in mail} \cap declared = {}
    BY <1>4, <1>6, Zenon
  <1>8. Delivery!Unseen(mail)
    BY <1>5, <1>7, Zenon DEF Delivery!Unseen
  <1> QED
    BY <1>3, <1>8 DEF mail

\* A stack of one execution.
LEMMA SeenSingle ==
  ASSUME NEW f \in Frame
  PROVE  SeenStack(<<f>>) = <<Seen(f)>>
  <1> DEFINE s == << >>
  <1>1. s \in Seq(Frame) /\ Append(s, f) = <<f>>
    OBVIOUS
  <1>2. SeenStack(s) = << >>
    <2>1. s \in Seq(Frame) /\ Len(s) = 0
      OBVIOUS
    <2>2. SeenStack(s) \in Seq(SeenFrame) /\ Len(SeenStack(s)) = 0
      BY <2>1, SeenShape, Zenon
    <2> QED
      BY <2>2, EmptySeq
  <1>3. SeenStack(Append(s, f)) = Append(SeenStack(s), Seen(f))
    BY <1>1, SeenPush, Zenon
  <1>4. Append(<< >>, Seen(f)) = <<Seen(f)>>
    OBVIOUS
  <1> QED
    BY <1>1, <1>2, <1>3, <1>4, Zenon

\* RunWithFiles starts the run with the root library's mail, or stops early.
LEMMA RunWithFilesDelivers ==
  ASSUME IInv, RunWithFiles
  PROVE  Delivery!Next
  <1> DEFINE mail == MailOf(RootLibrary, 1)
  <1>1. /\ status = "init" /\ delivered' = delivered /\ peeked' = peeked /\ aborted' = aborted
        /\ \/ /\ status' \in {"error", "inspected"}
              /\ stack' = stack /\ declared' = declared
           \/ \E b \in BOOLEAN : /\ stack' = <<Root(b)>> /\ status' = "running"
                                 /\ declared' = Docs(Posted(Root(b)))
    BY StartShape
  <1>2. AbstractStack = SeenStack(stack) /\ AbstractStack' = SeenStack(stack')
    BY AbstractStackIs, Zenon
  <1>3. CASE status' \in {"error", "inspected"} /\ stack' = stack /\ declared' = declared
    <2>1. AbstractStack' = AbstractStack
      BY <1>2, <1>3, Zenon
    <2>2. Delivery!StopEarly
      BY <1>1, <1>3, <2>1, Zenon DEF Delivery!StopEarly
    <2> QED
      BY <2>2, Zenon DEF Delivery!Next
  <1>4. ASSUME NEW b \in BOOLEAN, stack' = <<Root(b)>>, status' = "running",
               declared' = Docs(Posted(Root(b)))
        PROVE  Delivery!Next
    <2> DEFINE X == (Range(RootValues.children) \cup Range(RootSchemas.children)) \ {Nil}
               root == [path |-> "", alias |-> ""]
    <2>1. runs < 1 /\ 1 <= MaxRuns /\ 1 \in Nat /\ RootLibrary \in Library
      BY <1>1, TreeAssumption, BoundsAssumption, SMTT(30) DEF IInv
    <2>2. mail \in Mail /\ Delivery!Unseen(mail)
      BY <2>1, MailUnseen
    <2>3. Root(b) \in Frame
      BY RootFrame
    <2>4. AbstractStack' = <<Seen(Root(b))>>
      BY <1>2, <1>4, <2>3, SeenSingle, Zenon
    <2>5. /\ Posted(Root(b)) = X
          /\ Seen(Root(b)) = [ref |-> root,
                              inbox |-> Abstract(Range(RootValues.own) \cup Range(RootSchemas.own)),
                              posted |-> Abstract(X), used |-> {}]
      <3>1. StartsWith(Root(b), root, RootSchemas, RootValues)
        BY SeenExecution, Zenon DEF Root
      <3> QED
        BY <3>1, Zenon DEF StartsWith
    <2>6. /\ Abstract(Range(RootValues.own) \cup Range(RootSchemas.own)) = {}
          /\ Abstract(X) = Sealed(mail, 1) /\ Docs(X) = SeenDocs(Sealed(mail, 1))
      BY RootSets, Zenon
    <2>7. /\ Delivery!NewEnvelopes(mail, 1) = Sealed(mail, 1)
          /\ \A E : Delivery!Docs(E) = SeenDocs(E)
      BY DeliverySealed, Zenon
    <2> HIDE DEF mail, X
    <2>8. AbstractStack' = <<[ref |-> root, inbox |-> {},
                              posted |-> Delivery!NewEnvelopes(mail, 1), used |-> {}]>>
      BY <2>4, <2>5, <2>6, <2>7, Zenon
    <2>9. declared' = Delivery!Docs(Delivery!NewEnvelopes(mail, 1))
      BY <1>4, <2>5, <2>6, <2>7, Zenon
    <2>10. Delivery!Start(mail)
      BY <1>1, <1>4, <2>2, <2>8, <2>9, Zenon DEF Delivery!Start
    <2> QED
      BY <2>2, <2>10, Zenon DEF Delivery!Next
  <1> QED
    BY <1>1, <1>3, <1>4, Zenon

\* A call that makes a new instance is not seen.
LEMMA AddInstanceDelivers ==
  ASSUME IInv, Running, NEW inst \in InstanceValue, AddInstance(inst)
  PROVE  UNCHANGED Delivery!vars
  <1> DEFINE g == Adding(Top, inst)
             s == SeenStack(stack)
             n == Depth
  <1>1. stack \in Seq(Frame) /\ stack # << >> /\ Top \in Frame /\ n \in 1 .. n
    BY TopFacts
  <1>2. stack' = [stack EXCEPT ![n] = g]
    BY <1>1, CallStack, Zenon DEF AddInstance
  <1>3. g \in Frame
    BY <1>1, AddingGoesOn DEF Evolves
  <1>4. Seen(g) = Seen(Top)
    BY <1>1, SeenAdding
  <1>5. Len(s) = n /\ s \in Seq(SeenFrame) /\ s[n] = Seen(Top)
    BY <1>1, SeenShape DEF Depth, Top
  <1>6. SeenStack([stack EXCEPT ![n] = g]) = [s EXCEPT ![n] = Seen(g)]
    BY <1>1, <1>3, SeenTop, Zenon DEF Depth
  <1>7. AbstractStack = s /\ AbstractStack' = SeenStack(stack')
    BY AbstractStackIs, Zenon
  <1> HIDE DEF g, s, n
  <1>8. [s EXCEPT ![n] = Seen(g)] = s
    BY <1>4, <1>5
  <1>9. AbstractStack' = AbstractStack
    BY <1>2, <1>6, <1>7, <1>8, Zenon
  <1> QED
    BY <1>9, Zenon DEF Delivery!vars, AddInstance, fates

\* Executions end: with an error, down to number k ...
LEMMA UnwindDelivers ==
  ASSUME IInv, Running, Unwind
  PROVE  Delivery!Next
  <1> DEFINE s == SeenStack(stack)
  <1>1. stack \in Seq(Frame) /\ stack # << >> /\ Depth \in Nat /\ Len(stack) = Depth
    BY TopFacts DEF Depth
  <1>2. PICK k \in 0 .. Depth :
          /\ k < Depth /\ stack' = SubSeq(stack, 1, k)
          /\ status' = IF k = 0 THEN "error" ELSE "running"
          /\ aborted' = aborted \cup UNION {Docs(Posted(stack[j])) : j \in k + 1 .. Depth}
    BY <1>1, UnwindShape, SMTT(30)
  <1>3. declared' = declared /\ delivered' = delivered /\ peeked' = peeked
    BY DEF Unwind
  <1>4. AbstractStack = s /\ AbstractStack' = SeenStack(stack')
    BY AbstractStackIs, Zenon
  <1>5. Len(s) = Depth /\ \A j \in 1 .. Depth : s[j] = Seen(stack[j])
    BY <1>1, SeenShape, SMTT(30)
  <1>6. SeenStack(SubSeq(stack, 1, k)) = SubSeq(s, 1, k)
    BY <1>1, SeenPop
  <1>7. ASSUME NEW j \in k + 1 .. Depth
        PROVE  Delivery!Docs(s[j].posted) = Docs(Posted(stack[j]))
    <2>1. j \in 1 .. Depth
      OBVIOUS
    <2>2. stack[j] \in Frame /\ FrameOK(stack[j], j)
      BY <1>1, <2>1, ElementOfSeq, SMTT(30) DEF IInv, StackOK
    <2>3. s[j].posted = Abstract(Posted(stack[j]))
      <3>1. \A f : Seen(f).posted = Abstract(Posted(f))
        BY DEF Seen
      <3> QED
        BY <1>5, <2>1, <3>1, Zenon
    <2>4. {x.doc : x \in Abstract(Posted(stack[j]))} = Docs(Posted(stack[j]))
      BY <2>2, PostedInPost
    <2> QED
      BY <2>3, <2>4, Zenon DEF Delivery!Docs
  <1> HIDE DEF s
  <1>8. {Delivery!Docs(s[j].posted) : j \in k + 1 .. Depth}
          = {Docs(Posted(stack[j])) : j \in k + 1 .. Depth}
    BY <1>7, Zenon
  <1>9. Delivery!Running
    BY Zenon DEF Delivery!Running, Running
  <1>10. AbstractStack' = SubSeq(AbstractStack, 1, k) /\ Len(AbstractStack) = Depth
    BY <1>2, <1>4, <1>5, <1>6, Zenon
  <1>11. aborted' = aborted \cup UNION {Delivery!Docs(AbstractStack[j].posted) :
                                         j \in k + 1 .. Len(AbstractStack)}
    BY <1>2, <1>4, <1>8, <1>10, Zenon
  <1>12. Delivery!Fail(k)
    BY <1>2, <1>3, <1>9, <1>10, <1>11, Zenon DEF Delivery!Fail
  <1>13. k \in 0 .. Len(AbstractStack) - 1
    BY <1>1, <1>2, <1>10, SMTT(30)
  <1> QED
    BY <1>12, <1>13, Zenon DEF Delivery!Next

\* ... or the one on top with a result, when all that it posted was used.
LEMMA FinishDelivers ==
  ASSUME IInv, Finish
  PROVE  Delivery!Next
  <1> DEFINE s == SeenStack(stack)
  <1>1. /\ Running /\ AllUsed /\ stack' = SubSeq(stack, 1, Depth - 1)
        /\ status' = IF Depth = 1 THEN "ok" ELSE "running"
        /\ declared' = declared /\ delivered' = delivered /\ peeked' = peeked
        /\ aborted' = aborted
    BY DEF Finish, fates
  <1>2. /\ stack \in Seq(Frame) /\ Depth \in Nat /\ Depth # 0 /\ Top \in Frame
        /\ Len(stack) = Depth
    BY <1>1, TopFacts DEF Depth
  <1>3. /\ AbstractStack = s /\ Len(AbstractStack) = Depth /\ Delivery!Top = Seen(Top)
        /\ Delivery!Running
    BY <1>1, DeliveryOperators, Zenon
  <1>4. Seen(Top).posted = Seen(Top).used
    BY <1>1, <1>2, SeenAllUsed, Zenon DEF AllUsed
  <1>5. Depth - 1 \in 0 .. Len(stack)
    BY <1>2
  <1>6. SeenStack(SubSeq(stack, 1, Depth - 1)) = SubSeq(s, 1, Depth - 1)
    BY <1>2, <1>5, SeenPop, SMTT(30)
  <1>7. AbstractStack' = SeenStack(stack')
    BY AbstractStackIs, Zenon
  <1> HIDE DEF s
  <1>8. AbstractStack' = SubSeq(AbstractStack, 1, Len(AbstractStack) - 1)
    BY <1>1, <1>3, <1>6, <1>7, Zenon
  <1>9. Delivery!Close
    BY <1>1, <1>3, <1>4, <1>8, Zenon DEF Delivery!Close
  <1> QED
    BY <1>9, Zenon DEF Delivery!Next

\* A library instance answers to its path and alias.
LEMMA RefOfInstance ==
  ASSUME NEW inst \in InstanceValue
  PROVE  Ref(inst) \in Delivery!Instance
  BY Zenon DEF InstanceValue, Ref, Delivery!Instance

\* What Eval, Export and DataValues do to the posted envelopes of the execution
\* that calls them.
LEMMA CallMarks ==
  ASSUME IInv, Running, ~HasNilSchema, NEW i \in DOMAIN Top.instances
  PROVE  LET inst == Top.instances[i]
             ref == Ref(inst)
             t == MarkValues(MarkSchemas(Calling, inst), inst)
         IN  /\ t \in Seq(Frame) /\ Len(t) = Depth
             /\ SeenStack(t) = Delivery!MarkUsed(Delivery!Matching(ref))
             /\ ref \in Delivery!Instance
  <1> DEFINE inst == Top.instances[i]
             ref == Ref(inst)
             A == Marked(Top.libSchemas, ref)
             B == Marked(Top.libValues, ref)
             g == Marking(Top, A, B)
             t == MarkValues(MarkSchemas(Calling, inst), inst)
             M == {Top.libValues[k] : k \in B} \cup {Top.libSchemas[k] : k \in A}
  <1>1. /\ stack \in Seq(Frame) /\ stack # << >> /\ Top \in Frame /\ FrameOK(Top, Depth)
        /\ Len(stack) = Depth
    BY TopFacts DEF Depth
  <1>2. t = [stack EXCEPT ![Depth] = g]
    BY <1>1, CallStack, Zenon
  <1>3. /\ A \in SUBSET DOMAIN Top.libSchemas /\ B \in SUBSET DOMAIN Top.libValues
        /\ Abstract(M) = Selected(Abstract(Posted(Top)), ref)
    BY MarkedSelected, Zenon
  <1>4. SeenStack([stack EXCEPT ![Depth] = g]) = Delivery!MarkUsed(Abstract(M))
    BY <1>3, DeliveryMarks, Zenon
  <1>5. Delivery!Matching(ref) = Selected(Abstract(Posted(Top)), ref)
    BY DeliveryOperators, Zenon
  <1>6. inst \in InstanceValue
    <2>1. Top.instances \in Seq(InstanceValue)
      BY <1>1 DEF Frame
    <2> QED
      BY <2>1, LenProperties, ElementOfSeq, SMTT(30)
  <1> HIDE DEF inst
  <1>7. ref \in Delivery!Instance
    BY <1>6, RefOfInstance, SMTT(30)
  <1>8. g \in Frame
    BY <1>1, <1>3, MarkingEvolves, Zenon DEF Evolves
  <1> HIDE DEF A, B, g, t, M, ref
  <1>9. t \in Seq(Frame) /\ Len(t) = Depth
    BY <1>1, <1>2, <1>8, TopReplaced, SMTT(30)
  <1>10. SeenStack(t) = Delivery!MarkUsed(Delivery!Matching(ref))
    BY <1>2, <1>3, <1>4, <1>5, Zenon
  <1> QED
    BY <1>7, <1>9, <1>10, Zenon DEF inst, ref, t

\* What the library below gets, as seen.
LEMMA CallGets ==
  ASSUME IInv, Running, ~HasNilSchema, NEW i \in DOMAIN Top.instances
  PROVE  LET inst == Top.instances[i]
             ref == Ref(inst)
             S == SchemasOf(inst)
             V == ValuesOf(inst)
             X == (Range(V.children) \cup Range(S.children)) \ {Nil}
             mail == Sealed(MailOf(Private[Top.lib][inst.path], runs + 1), Depth + 1)
         IN  /\ Abstract(Range(V.own) \cup Range(S.own)) = Delivery!Arrived(ref)
             /\ Arrived(inst) = Delivery!Docs(Delivery!Arrived(ref))
             /\ Abstract(X) = Delivery!Onward(ref) \cup mail
             /\ Docs({x \in X : x.doc.run = runs + 1}) = SeenDocs(mail)
             /\ Docs({x \in X : x.doc.run # runs + 1}) = Delivery!Docs(Delivery!Onward(ref))
             /\ Private[Top.lib][inst.path] \in Library
  <1> DEFINE inst == Top.instances[i]
             ref == Ref(inst)
             lib == Private[Top.lib][inst.path]
             S == SchemasOf(inst)
             V == ValuesOf(inst)
             X == (Range(V.children) \cup Range(S.children)) \ {Nil}
             P == Abstract(Posted(Top))
             A == ArrivedOf(P, ref)
             mail == Sealed(MailOf(lib, runs + 1), Depth + 1)
  <1>1. /\ Top \in Frame /\ FrameOK(Top, Depth) /\ Depth \in Nat /\ Depth # 0
        /\ Top.run \in Nat /\ Top.run <= runs
    BY TopFacts
  <1>2. runs \in Nat /\ Depth <= runs
    BY DEF IInv, StackOK, Depth
  <1>3. runs + 1 \in Nat /\ Top.run < runs + 1 /\ runs + 1 # 1
    BY <1>1, <1>2
  <1>4. Nil \notin Range(Top.libSchemas)
    BY DEF HasNilSchema
  <1>5. S = SchemasFor(Top, inst, runs + 1, Depth + 1) /\ V = ValuesFor(Top, inst, runs + 1, Depth + 1)
    BY Zenon DEF ValuesOf, SchemasOf, ValuesFor, SchemasFor
  <1>6. Delivery!Arrived(ref) = A /\ Delivery!Onward(ref) = OnwardOf(P, ref)
    BY DeliveryOperators, Zenon
  <1>7. \A E : Delivery!Docs(E) = SeenDocs(E)
    BY DeliverySealed, Zenon
  <1> DEFINE S0 == SchemasFor(Top, inst, runs + 1, Depth + 1)
             V0 == ValuesFor(Top, inst, runs + 1, Depth + 1)
             X0 == (Range(V0.children) \cup Range(S0.children)) \ {Nil}
  <1>8. /\ Abstract(Range(V.own) \cup Range(S.own)) = A
        /\ AddressedDocs(S.own) \cup AddressedDocs(V.own) = SeenDocs(A)
    <2>1. /\ Abstract(Range(V0.own) \cup Range(S0.own)) = A
          /\ AddressedDocs(S0.own) \cup AddressedDocs(V0.own) = SeenDocs(A)
      BY <1>1, <1>3, <1>4, ChildInbox, Zenon
    <2> QED
      BY <1>5, <2>1, Zenon
  <1>9. /\ Abstract(X) = OnwardOf(P, ref) \cup mail
        /\ Docs({x \in X : x.doc.run = runs + 1}) = SeenDocs(mail)
        /\ Docs({x \in X : x.doc.run # runs + 1}) = SeenDocs(OnwardOf(P, ref))
    <2>1. PostIs(X0, OnwardOf(P, ref), mail, runs + 1)
      BY <1>1, <1>3, <1>4, ChildPost, Zenon
    <2>2. X = X0
      BY <1>5, Zenon
    <2> HIDE DEF X, X0, mail, P, ref
    <2> QED
      BY <2>1, <2>2, Zenon DEF PostIs
  <1>10. lib \in Library
    BY <1>1, <1>4, GivenLists, Zenon
  <1>11. Arrived(inst) = SeenDocs(A)
    BY <1>8, Zenon DEF Arrived
  <1> QED
    BY <1>6, <1>7, <1>8, <1>9, <1>10, <1>11, Zenon

\* Evaluating an instance opens it.
LEMMA EvalDelivers ==
  ASSUME IInv, Running, NEW i \in DOMAIN Top.instances, NEW call \in Calls, Eval(i, call)
  PROVE  Delivery!Next
  <1> DEFINE inst == Top.instances[i]
             ref == Ref(inst)
             lib == Private[Top.lib][inst.path]
             S == SchemasOf(inst)
             V == ValuesOf(inst)
             X == (Range(V.children) \cup Range(S.children)) \ {Nil}
             child == Execution(lib, ref, call, inst.skip, S, V, runs + 1)
             t == MarkValues(MarkSchemas(Calling, inst), inst)
             mail == MailOf(lib, runs + 1)
             new == Sealed(mail, Depth + 1)
  <1>1. /\ ~HasNilSchema /\ runs < MaxRuns /\ stack' = Append(t, child)
        /\ declared' = declared \cup {e.doc : e \in {f \in Posted(child) : f.doc.run = runs + 1}}
        /\ delivered' = delivered \cup Arrived(inst)
        /\ status' = status /\ peeked' = peeked /\ aborted' = aborted
    BY Zenon DEF Eval
  <1>2. /\ Depth \in Nat /\ runs \in Nat /\ MaxRuns \in Nat /\ Depth <= runs
    BY TopFacts, BoundsAssumption, SMTT(30) DEF IInv, StackOK, Depth
  <1>3. /\ t \in Seq(Frame) /\ SeenStack(t) = Delivery!MarkUsed(Delivery!Matching(ref))
        /\ ref \in Delivery!Instance
    BY <1>1, CallMarks, Zenon
  <1>4. /\ Abstract(Range(V.own) \cup Range(S.own)) = Delivery!Arrived(ref)
        /\ Arrived(inst) = Delivery!Docs(Delivery!Arrived(ref))
        /\ Abstract(X) = Delivery!Onward(ref) \cup new
        /\ Docs({x \in X : x.doc.run = runs + 1}) = SeenDocs(new)
        /\ lib \in Library
    BY <1>1, CallGets, Zenon
  <1>5. child \in Frame
    BY <1>1, EvalChild, Zenon
  <1>6. StartsWith(child, ref, S, V)
    BY SeenExecution, Zenon
  <1>7. /\ Posted(child) = X
        /\ Seen(child) = [ref |-> ref, inbox |-> Abstract(Range(V.own) \cup Range(S.own)),
                          posted |-> Abstract(X), used |-> {}]
    BY <1>6, Zenon DEF StartsWith
  <1>8. mail \in Mail /\ Delivery!Unseen(mail)
    <2>0. runs < MaxRuns
      BY <1>1, Zenon
    <2>1. runs + 1 \in Nat /\ runs < runs + 1 /\ runs + 1 <= MaxRuns
      BY <1>2, <2>0, SMTT(30)
    <2> QED
      BY <1>4, <2>1, MailUnseen, Zenon
  <1>9. /\ AbstractStack' = SeenStack(stack') /\ Len(AbstractStack) = Depth
        /\ Delivery!Running
    BY AbstractStackIs, DeliveryOperators, Zenon
  <1>10. /\ Delivery!NewEnvelopes(mail, Depth + 1) = new
         /\ \A E : Delivery!Docs(E) = SeenDocs(E)
    BY DeliverySealed, Zenon
  <1> HIDE DEF inst, ref, lib, S, V, X, child, t, mail, new
  <1>11. SeenStack(Append(t, child)) = Append(SeenStack(t), Seen(child))
    BY <1>3, <1>5, SeenPush, SMTT(30)
  <1>12. AbstractStack' = Append(Delivery!MarkUsed(Delivery!Matching(ref)),
                     [ref |-> ref, inbox |-> Delivery!Arrived(ref),
                      posted |-> Delivery!Onward(ref)
                                   \cup Delivery!NewEnvelopes(mail, Len(AbstractStack) + 1),
                      used |-> {}])
    BY <1>1, <1>3, <1>4, <1>7, <1>9, <1>10, <1>11, Zenon
  <1>13. declared' = declared
                       \cup Delivery!Docs(Delivery!NewEnvelopes(mail, Len(AbstractStack) + 1))
    <2>1. {e.doc : e \in {f \in Posted(child) : f.doc.run = runs + 1}} = SeenDocs(new)
      BY <1>4, <1>7, Zenon DEF Docs
    <2> QED
      BY <1>1, <1>9, <1>10, <2>1, Zenon
  <1>14. delivered' = delivered \cup Delivery!Docs(Delivery!Arrived(ref))
    BY <1>1, <1>4, Zenon
  <1>15. Len(AbstractStack) < MaxRuns
    BY <1>1, <1>2, <1>9, SMTT(30)
  <1>16. Delivery!Open(ref, mail)
    BY <1>1, <1>8, <1>9, <1>12, <1>13, <1>14, <1>15, Zenon DEF Delivery!Open
  <1> QED
    BY <1>3, <1>8, <1>16, Zenon DEF Delivery!Next

\* The envelopes for the libraries below an instance.
LEMMA GivenChildren ==
  ASSUME IInv, Running, ~HasNilSchema, NEW i \in DOMAIN Top.instances
  PROVE  LET inst == Top.instances[i]
         IN  /\ SchemasOf(inst).children \in Seq(Envelope \cup {Nil})
             /\ ValuesOf(inst).children \in Seq(Envelope \cup {Nil})
  <1> DEFINE inst == Top.instances[i]
             S == SchemasOf(inst)
             V == ValuesOf(inst)
             n == runs + 1
             d == Depth + 1
  <1>1. /\ Depth \in Nat /\ Top \in Frame /\ FrameOK(Top, Depth)
        /\ runs \in Nat /\ Top.run \in Nat /\ Top.run <= runs
    BY TopFacts DEF IInv
  <1>2. n \in Nat /\ Top.run <= n
    BY <1>1
  <1>3. Nil \notin Range(Top.libSchemas)
    BY DEF HasNilSchema
  <1>4. /\ S = SchemasFor(Top, inst, n, d)
        /\ V = ValuesFor(Top, inst, n, d)
    BY Zenon DEF ValuesOf, SchemasOf, ValuesFor, SchemasFor
  <1>5. ResultOK(S, "schema", n, d) /\ ResultOK(V, "dv", n, d)
    <2> HIDE DEF S, V, n
    <2> QED
      BY <1>1, <1>2, <1>3, <1>4, InstanceResults, SMTT(30)
  <1> QED
    BY <1>5, Zenon DEF ResultOK

\* data_values() peeks.
LEMMA DataValuesDelivers ==
  ASSUME IInv, Running, NEW i \in DOMAIN Top.instances, DataValues(i)
  PROVE  Delivery!Next
  <1> DEFINE inst == Top.instances[i]
             ref == Ref(inst)
             S == SchemasOf(inst)
             V == ValuesOf(inst)
             X == (Range(V.children) \cup Range(S.children)) \ {Nil}
             all == S.children \o V.children
             t == MarkValues(MarkSchemas(Calling, inst), inst)
  <1>1. /\ ~HasNilSchema /\ stack' = t
        /\ peeked' = peeked \cup Docs({e \in Range(Found(all)) : e.doc.run # runs + 1})
        /\ delivered' = delivered \cup Arrived(inst)
        /\ status' = status /\ declared' = declared /\ aborted' = aborted
    BY Zenon DEF DataValues
  <1>2. /\ SeenStack(t) = Delivery!MarkUsed(Delivery!Matching(ref))
        /\ ref \in Delivery!Instance
    BY <1>1, CallMarks, Zenon
  <1>3. /\ Arrived(inst) = Delivery!Docs(Delivery!Arrived(ref))
        /\ Docs({x \in X : x.doc.run # runs + 1}) = Delivery!Docs(Delivery!Onward(ref))
    BY <1>1, CallGets, Zenon
  <1>4. /\ S.children \in Seq(Envelope \cup {Nil}) /\ V.children \in Seq(Envelope \cup {Nil})
    BY <1>1, GivenChildren
  <1>5. AbstractStack' = SeenStack(stack') /\ Delivery!Running
    BY AbstractStackIs, DeliveryOperators, Zenon
  <1> HIDE DEF inst, ref, S, V, t
  <1>6. Range(Found(all)) = X
    <2> DEFINE a == S.children
               b == V.children
               keep == Range(a \o b) \ {Nil}
    <2> HIDE DEF a, b
    <2>1. a \in Seq(Envelope \cup {Nil}) /\ b \in Seq(Envelope \cup {Nil})
      BY <1>4 DEF a, b
    <2>2. Range(a \o b) = Range(a) \cup Range(b) /\ a \o b \in Seq(Envelope \cup {Nil})
      BY <2>1, RangeConcat
    <2> HIDE DEF keep
    <2>3. Range(Filter(a \o b, keep)) = Range(a \o b) \cap keep
      BY <2>2, FilterProperties, Zenon
    <2> QED
      BY <2>2, <2>3, Zenon DEF Found, keep, a, b
  <1> HIDE DEF X, all
  <1>7. peeked' = peeked \cup Delivery!Docs(Delivery!Onward(ref))
    BY <1>1, <1>3, <1>6, Zenon
  <1>8. AbstractStack' = Delivery!MarkUsed(Delivery!Matching(ref))
    BY <1>1, <1>2, <1>5, Zenon
  <1>9. delivered' = delivered \cup Delivery!Docs(Delivery!Arrived(ref))
    BY <1>1, <1>3, Zenon
  <1>10. Delivery!Peek(ref)
    BY <1>1, <1>5, <1>7, <1>8, <1>9, Zenon DEF Delivery!Peek
  <1> QED
    BY <1>2, <1>10, Zenon DEF Delivery!Next

\* A call that fails has marked the schemas, or the schemas and the values.
LEMMA CallFailsDelivers ==
  ASSUME IInv, Running, NEW i \in DOMAIN Top.instances, NEW guarded \in BOOLEAN,
         CallFails(i, guarded)
  PROVE  Delivery!Next
  <1> DEFINE inst == Top.instances[i]
             ref == Ref(inst)
             A == Marked(Top.libSchemas, ref)
             B == Marked(Top.libValues, ref)
             schemas == {Top.libSchemas[k] : k \in A}
             values == {Top.libValues[k] : k \in B}
             none == {Top.libValues[k] : k \in {}}
             s == [stack EXCEPT ![Depth] = Marking(Top, A, {})]
             t == [stack EXCEPT ![Depth] = Marking(Top, A, B)]
  <1>1. stack \in Seq(Frame) /\ stack # << >> /\ Depth \in Nat /\ Depth <= Depth
        /\ Top \in Frame /\ FrameOK(Top, Depth)
    BY TopFacts
  <1>2. ~HasNilSchema
    BY Zenon DEF CallFails
  <1>3. MarkSchemas(Calling, inst) = s /\ MarkValues(MarkSchemas(Calling, inst), inst) = t
    BY <1>1, CallStack, Zenon
  <1>4. \/ Unwind
        \/ /\ \/ stack' = s /\ aborted' = aborted \cup Docs(schemas)
              \/ stack' = t /\ aborted' = aborted \cup Docs(schemas \cup values)
           /\ status' = status /\ declared' = declared /\ delivered' = delivered
           /\ peeked' = peeked
    BY <1>3, Zenon DEF CallFails
  <1>5. /\ A \in SUBSET DOMAIN Top.libSchemas /\ B \in SUBSET DOMAIN Top.libValues
        /\ {} \in SUBSET DOMAIN Top.libValues
        /\ Abstract(values \cup schemas) = Selected(Abstract(Posted(Top)), ref)
        /\ values \cup schemas = Takes(Posted(Top), ref)
    BY <1>2, MarkedSelected, Zenon
  <1>6. /\ SeenStack(s) = Delivery!MarkUsed(Abstract(none \cup schemas))
        /\ SeenStack(t) = Delivery!MarkUsed(Abstract(values \cup schemas))
    BY <1>5, DeliveryMarks, Zenon
  <1>7. /\ Delivery!Matching(ref) = Selected(Abstract(Posted(Top)), ref)
        /\ Delivery!Running /\ AbstractStack' = SeenStack(stack')
    BY AbstractStackIs, DeliveryOperators, Zenon
  <1>8. ref \in Delivery!Instance
    BY <1>2, CallMarks, Zenon
  <1>9. \A e \in Posted(Top) : e # Nil /\ e.original # << >>
    BY <1>1, PostedInPost, Zenon
  <1>10. Takes(Posted(Top), ref) \subseteq Posted(Top)
    BY Zenon DEF Takes
  <1> HIDE DEF ref, s, t, schemas, values
  <1>11. none \cup schemas = schemas
    OBVIOUS
  <1> HIDE DEF none
  <1>12. ASSUME NEW E \in SUBSET (values \cup schemas),
                AbstractStack' = Delivery!MarkUsed(Abstract(E)),
                aborted' = aborted \cup Docs(E),
                status' = status, declared' = declared, delivered' = delivered,
                peeked' = peeked
         PROVE  Delivery!Next
    <2>1. Abstract(E) \subseteq Delivery!Matching(ref)
      <3>1. Abstract(E) \subseteq Abstract(values \cup schemas)
        BY Zenon DEF Abstract
      <3> QED
        BY <1>5, <1>7, <3>1, Zenon
    <2>2. \A e \in E : e # Nil /\ e.original # << >>
      BY <1>5, <1>9, <1>10, Zenon
    <2>3. {x.doc : x \in Abstract(E)} = Docs(E)
      BY <2>2, AbstractDocs, SMTT(30)
    <2>4. aborted' = aborted \cup Delivery!Docs(Abstract(E))
      BY <1>12, <2>3, Zenon DEF Delivery!Docs
    <2> DEFINE M == Abstract(E)
    <2> HIDE DEF M
    <2>5. Delivery!OpenFails(M)
      BY <1>7, <1>12, <2>4, Zenon DEF Delivery!OpenFails, M
    <2>6. M \in SUBSET Delivery!Matching(ref)
      BY <2>1, Zenon DEF M
    <2> QED
      BY <1>7, <1>8, <2>5, <2>6, Zenon DEF Delivery!Next
  <1>13. CASE Unwind
    BY <1>13, UnwindDelivers, SMTT(30)
  <1>14. CASE /\ stack' = s /\ aborted' = aborted \cup Docs(schemas)
              /\ status' = status /\ declared' = declared /\ delivered' = delivered
              /\ peeked' = peeked
    <2>1. AbstractStack' = Delivery!MarkUsed(Abstract(schemas))
      BY <1>6, <1>7, <1>11, <1>14, Zenon
    <2> QED
      BY <1>12, <1>14, <2>1, Zenon
  <1>15. CASE /\ stack' = t /\ aborted' = aborted \cup Docs(schemas \cup values)
              /\ status' = status /\ declared' = declared /\ delivered' = delivered
              /\ peeked' = peeked
    <2>1. AbstractStack' = Delivery!MarkUsed(Abstract(values \cup schemas))
      BY <1>6, <1>7, <1>15, Zenon
    <2>2. schemas \cup values = values \cup schemas
      OBVIOUS
    <2> QED
      BY <1>12, <1>15, <2>1, <2>2, Zenon
  <1> QED
    BY <1>4, <1>13, <1>14, <1>15, Zenon

\* A call that meets a nil schema has marked those in front of it.
LEMMA CallPanicsDelivers ==
  ASSUME IInv, Running, NEW i \in DOMAIN Top.instances, NEW guarded \in BOOLEAN,
         CallPanics(i, guarded)
  PROVE  Delivery!Next
  <1> DEFINE inst == Top.instances[i]
             ref == Ref(inst)
             A == MarkedBeforeNil(inst)
             E == {Top.libSchemas[k] : k \in A}
             none == {Top.libValues[k] : k \in {}}
             s == [stack EXCEPT ![Depth] = Marking(Top, A, {})]
             M == Abstract(E)
  <1>1. stack \in Seq(Frame) /\ stack # << >> /\ Top \in Frame /\ FrameOK(Top, Depth)
    BY TopFacts
  <1>2. [Calling EXCEPT ![Depth].usedSchemas = @ \cup A] = s
    BY <1>1, SchemasMarked, Zenon
  <1>3. \/ Unwind
        \/ /\ stack' = s /\ aborted' = aborted \cup Docs(E)
           /\ status' = status /\ declared' = declared /\ delivered' = delivered
           /\ peeked' = peeked
    BY <1>2, Zenon DEF CallPanics
  <1>4. A \in SUBSET DOMAIN Top.libSchemas /\ {} \in SUBSET DOMAIN Top.libValues
    BY DEF MarkedBeforeNil
  <1>5. SeenStack(s) = Delivery!MarkUsed(Abstract(none \cup E))
    BY <1>4, DeliveryMarks, Zenon
  <1>6. E \subseteq Takes(Posted(Top), ref)
    <2>1. \A k \in A : /\ k \in DOMAIN Top.libSchemas /\ UsedInLibrary(Top.libSchemas[k], ref) # Nil
                       /\ Top.libSchemas[k] # Nil
      <3>1. Top.libSchemas \in Seq(Envelope \cup {Nil})
        BY <1>1 DEF Frame
      <3>2. \A k \in DOMAIN Top.libSchemas : k \in 1 .. k
        BY <3>1
      <3> QED
        BY <3>2, Zenon DEF MarkedBeforeNil
    <2>2. \A k \in DOMAIN Top.libSchemas : Top.libSchemas[k] \in Range(Top.libSchemas)
      BY Zenon DEF Range
    <2> QED
      BY <2>1, <2>2, Zenon DEF Takes, Posted
  <1>7. \A e \in Posted(Top) : InPost(e) /\ e # Nil /\ e.original # << >>
    BY <1>1, PostedInPost, Zenon
  <1>8. Abstract(Takes(Posted(Top), ref)) = Selected(Abstract(Posted(Top)), ref)
    BY <1>7, HandedDown, Zenon
  <1>9. /\ Delivery!Matching(ref) = Selected(Abstract(Posted(Top)), ref)
        /\ Delivery!Running /\ AbstractStack' = SeenStack(stack')
    BY AbstractStackIs, DeliveryOperators, Zenon
  <1>10. ref \in Delivery!Instance
    <2>1. inst \in InstanceValue
      BY <1>1, LenProperties, ElementOfSeq DEF Frame
    <2> QED
      BY <2>1, RefOfInstance
  <1> HIDE DEF A, s
  <1>11. none \cup E = E
    OBVIOUS
  <1> HIDE DEF ref, E, none
  <1>12. M \in SUBSET Delivery!Matching(ref)
    BY <1>6, <1>8, <1>9, Zenon DEF Abstract
  <1>13. \A e \in E : e # Nil /\ e.original # << >>
    BY <1>6, <1>7, Zenon DEF Takes
  <1>14. {x.doc : x \in M} = Docs(E)
    BY <1>13, AbstractDocs
  <1> HIDE DEF M
  <1>15. CASE Unwind
    BY <1>15, UnwindDelivers, SMTT(30)
  <1>16. CASE /\ stack' = s /\ aborted' = aborted \cup Docs(E)
              /\ status' = status /\ declared' = declared /\ delivered' = delivered
              /\ peeked' = peeked
    <2>1. AbstractStack' = Delivery!MarkUsed(M)
      BY <1>5, <1>9, <1>11, <1>16, Zenon DEF M
    <2>2. aborted' = aborted \cup Delivery!Docs(M)
      BY <1>14, <1>16, Zenon DEF Delivery!Docs
    <2>3. Delivery!OpenFails(M)
      BY <1>9, <1>16, <2>1, <2>2, Zenon DEF Delivery!OpenFails
    <2> QED
      BY <1>9, <1>10, <1>12, <2>3, Zenon DEF Delivery!Next
  <1> QED
    BY <1>3, <1>15, <1>16, Zenon

\* Every step of LibraryExecution is a step of EnvelopeDelivery, or not seen.
LEMMA StepDelivers == IInv /\ [Next]_vars => [Delivery!Next]_(Delivery!vars)
  <1> SUFFICES ASSUME IInv, [Next]_vars PROVE Delivery!Next \/ UNCHANGED Delivery!vars
    OBVIOUS
  <1>1. CASE RunWithFiles
    BY <1>1, RunWithFilesDelivers, SMTT(30)
  <1>2. CASE Running /\ LibraryCall
    <2>1. CASE \E inst \in InstanceValue : AddInstance(inst)
      BY <1>2, <2>1, AddInstanceDelivers, Zenon
    <2>2. ASSUME NEW i \in DOMAIN Top.instances,
                 \/ \E call \in Calls : Eval(i, call)
                 \/ DataValues(i)
                 \/ \E guarded \in BOOLEAN : CallFails(i, guarded) \/ CallPanics(i, guarded)
          PROVE  Delivery!Next
      <3>1. CASE \E call \in Calls : Eval(i, call)
        BY <1>2, <3>1, EvalDelivers, Zenon
      <3>2. CASE DataValues(i)
        BY <1>2, <3>2, DataValuesDelivers, Zenon
      <3>3. CASE \E guarded \in BOOLEAN : CallFails(i, guarded)
        BY <1>2, <3>3, CallFailsDelivers, Zenon
      <3>4. CASE \E guarded \in BOOLEAN : CallPanics(i, guarded)
        BY <1>2, <3>4, CallPanicsDelivers, Zenon
      <3> QED
        BY <2>2, <3>1, <3>2, <3>3, <3>4, Zenon
    <2> QED
      BY <1>2, <2>1, <2>2, AddingCalls, Zenon
  <1>3. CASE TemplateFails \/ UnusedFails \/ UnusedPanics \/ ExportFails
    <2>1. Running /\ Unwind
      BY <1>3 DEF TemplateFails, UnusedFails, UnusedPanics, ExportFails
    <2> QED
      BY <2>1, UnwindDelivers, SMTT(30)
  <1>4. CASE Finish
    BY <1>4, FinishDelivers
  <1>5. CASE UNCHANGED vars
    <2>1. AbstractStack = SeenStack(stack) /\ AbstractStack' = SeenStack(stack')
      BY AbstractStackIs, Zenon
    <2>2. /\ stack' = stack /\ status' = status /\ declared' = declared
          /\ delivered' = delivered /\ peeked' = peeked /\ aborted' = aborted
      BY <1>5, Zenon DEF vars, fates
    <2> QED
      BY <2>1, <2>2, Zenon DEF Delivery!vars
  <1> QED
    BY <1>1, <1>2, <1>3, <1>4, <1>5, SMTT(30) DEF Next

\* Nothing is posted before the run.
LEMMA InitDelivers == Init => Delivery!Init
  <1> SUFFICES ASSUME Init PROVE Delivery!Init
    OBVIOUS
  <1>1. DOMAIN << >> = {}
    OBVIOUS
  <1>2. AbstractStack = << >>
    BY <1>1 DEF Init, AbstractStack
  <1> QED
    BY <1>2, Zenon DEF Init, Delivery!Init

-----------------------------------------------------------------------------

\* Every run of LibraryExecution, in any tree of libraries and whatever library
\* calls its templates make, delivers envelopes the way EnvelopeDelivery allows.
THEOREM Delivers == Spec => DeliversEnvelopes
  BY Invariance, InitDelivers, StepDelivers, PTL DEF Spec, DeliversEnvelopes, Delivery!Spec

-----------------------------------------------------------------------------
(* What EnvelopeDelivery_proofs shows holds for the runs of LibraryExecution.  *)

\* A letter has an address, which is not empty.
LEMMA LetterAddress ==
  ASSUME NEW docs \in Seq(DocDecl), NEW kind, NEW via, NEW run
  PROVE  \A m \in Letters(docs, kind, via, run) :
           /\ m = [doc |-> m.doc, original |-> m.original]
           /\ m.original \in Seq(LibraryRef) \ {<< >>}
  <1> SUFFICES ASSUME NEW k \in DOMAIN docs, docs[k].address # << >>
               PROVE  LET m == [doc |-> Identity(kind, via, run, k),
                                original |-> docs[k].address]
                      IN  /\ m = [doc |-> m.doc, original |-> m.original]
                          /\ m.original \in Seq(LibraryRef) \ {<< >>}
    BY Zenon DEF Letters
  <1>1. docs[k] \in DocDecl
    BY LenProperties, ElementOfSeq, SMTT(30)
  <1>2. docs[k].address \in Seq(LibraryRef)
    BY <1>1 DEF DocDecl
  <1> DEFINE a == docs[k].address
             d == Identity(kind, via, run, k)
  <1> HIDE DEF a, d
  <1>3. [doc |-> d, original |-> a].original = a /\ [doc |-> d, original |-> a].doc = d
    OBVIOUS
  <1> QED
    BY <1>2, <1>3, Zenon DEF a, d

\* So do the letters that a library declares.
LEMMA MailAddress ==
  ASSUME NEW mail \in Mail
  PROVE  \A m \in mail : /\ m = [doc |-> m.doc, original |-> m.original]
                         /\ m.original \in Seq(LibraryRef) \ {<< >>}
  <1>1. PICK lib \in Library, n \in 1 .. MaxRuns : mail = MailOf(lib, n)
    BY DEF Mail
  <1>2. n \in Nat
    BY BoundsAssumption
  <1> DEFINE V == Letters(DataValueDocs[lib], "dv", "file", n)
             S == Letters(SchemaDocs[lib], "schema", "file", n)
             F == Letters(FlagValues, "dv", "flag", n)
             OK(E) == \A m \in E : /\ m = [doc |-> m.doc, original |-> m.original]
                                   /\ m.original \in Seq(LibraryRef) \ {<< >>}
  <1>3. /\ DataValueDocs[lib] \in Seq(DocDecl) /\ SchemaDocs[lib] \in Seq(DocDecl)
        /\ FlagValues \in Seq(DocDecl)
    <2>1. SchemaDocs[lib] \in Seq(SchemaDecl) /\ SchemaDecl \subseteq DocDecl
      BY DocsAssumption DEF SchemaDecl
    <2> QED
      BY <2>1, DocsAssumption, SMTT(30)
  <1>4. OK(V) /\ OK(S) /\ OK(F)
    BY <1>3, LetterAddress, Zenon
  <1>5. mail = V \cup S \cup F \/ mail = V \cup S
    BY <1>1, <1>2, MailIs, Zenon DEF FileLetters
  <1> HIDE DEF V, S, F
  <1> QED
    BY <1>4, <1>5, Zenon

\* The results about EnvelopeDelivery, for what it sees of LibraryExecution.
Results ==
  INSTANCE EnvelopeDelivery_proofs WITH
    stack <- AbstractStack, Mail <- Mail, MaxDepth <- MaxRuns,
    Doc <- {m.doc : m \in UNION Mail}, Address <- {m.original : m \in UNION Mail}

\* In every run of LibraryExecution a document addressed to a library takes
\* effect only in the libraries its whole address selects, every declared one
\* is accounted for, and none is lost when the run succeeds.
THEOREM EnvelopesArrive ==
  Spec => [](/\ Delivery!OnItsWay /\ Delivery!ReachesAddressee
             /\ Delivery!Accounted /\ Delivery!NothingLost)
  <1>1. {m.original : m \in UNION Mail} \subseteq Seq(Results!LibraryRef) \ {<< >>}
    BY MailAddress, Zenon DEF Results!LibraryRef, LibraryRef
  <1>2. Mail \subseteq SUBSET [doc : {m.doc : m \in UNION Mail},
                               original : {m.original : m \in UNION Mail}]
    <2> SUFFICES ASSUME NEW mail \in Mail, NEW m \in mail
                 PROVE  m \in [doc : {x.doc : x \in UNION Mail},
                               original : {x.original : x \in UNION Mail}]
      BY Zenon
    <2> DEFINE D == {x.doc : x \in UNION Mail}
               O == {x.original : x \in UNION Mail}
    <2>1. m.doc \in D /\ m.original \in O
      BY Zenon
    <2>2. m = [doc |-> m.doc, original |-> m.original]
      BY MailAddress, Zenon
    <2> HIDE DEF D, O
    <2>3. m \in [doc : D, original : O]
      BY <2>1, <2>2, SMTT(30)
    <2> QED
      BY <2>3, SMTT(30) DEF D, O
  <1>3. MaxRuns \in Nat \ {0}
    BY BoundsAssumption, SMTT(30)
  <1>4. Results!Spec => [](Results!OnItsWay /\ Results!ReachesAddressee)
    BY <1>1, <1>2, <1>3, Results!AddressCorrect, Zenon
  <1>5. Results!Spec => [](Results!Accounted /\ Results!NothingLost)
    BY <1>1, <1>2, <1>3, Results!DeliveryCorrect, Zenon
  <1>6. Delivery!Init => Results!Init
    BY Zenon DEF Delivery!Init, Results!Init
  <1>7. [Delivery!Next]_(Delivery!vars) => [Results!Next]_(Results!vars)
    BY Zenon
    DEF Delivery!Next, Results!Next, Delivery!StopEarly, Results!StopEarly,
        Delivery!Start, Results!Start, Delivery!Open, Results!Open, Delivery!Peek,
        Results!Peek, Delivery!OpenFails, Results!OpenFails, Delivery!Close,
        Results!Close, Delivery!Fail, Results!Fail, Delivery!Running, Results!Running,
        Delivery!Unseen, Results!Unseen, Delivery!Matching, Results!Matching,
        Delivery!Matches, Results!Matches, Delivery!Arrived, Results!Arrived,
        Delivery!Onward, Results!Onward, Delivery!Forward, Results!Forward,
        Delivery!MarkUsed, Results!MarkUsed, Delivery!NewEnvelopes,
        Results!NewEnvelopes, Delivery!Docs, Results!Docs, Delivery!Top, Results!Top,
        Delivery!Instance, Results!Instance, Delivery!vars, Results!vars
  <1>8. /\ Results!OnItsWay => Delivery!OnItsWay
        /\ Results!ReachesAddressee => Delivery!ReachesAddressee
        /\ Results!Accounted => Delivery!Accounted
        /\ Results!NothingLost => Delivery!NothingLost
    BY Zenon
    DEF Delivery!OnItsWay, Results!OnItsWay, Delivery!ReachesAddressee,
        Results!ReachesAddressee, Delivery!Accounted, Results!Accounted,
        Delivery!NothingLost, Results!NothingLost, Delivery!Follows, Results!Follows,
        Delivery!Matches, Results!Matches
  <1> QED
    BY <1>4, <1>5, <1>6, <1>7, <1>8, Delivers, PTL
    DEF DeliversEnvelopes, Delivery!Spec, Results!Spec

==============================================================================
