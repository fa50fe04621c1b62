----------------------- MODULE EnvelopeDelivery_proofs -----------------------
(***************************************************************************)
(* Proofs that EnvelopeDelivery keeps its types, that every envelope stays  *)
(* on the path it is addressed to, and that no document is lost.            *)
(***************************************************************************)
EXTENDS EnvelopeDelivery, SequenceTheorems, TLAPS

-----------------------------------------------------------------------------
(* The operators the actions are built from.                                  *)

\* An evaluation in progress is on top of a stack that is not empty.
LEMMA TopType ==
  ASSUME TypeOK, Running
  PROVE  /\ Len(stack) \in Nat \ {0}
         /\ Top \in Evaluation
         /\ \A i \in 1 .. Len(stack) : stack[i] \in Evaluation
  BY EmptySeq, ElementOfSeq DEF TypeOK, Running, Top

\* UsedInLibrary takes posted envelopes that have an address piece left, and
\* the copies it hands down are envelopes.
LEMMA ForwardType ==
  ASSUME TypeOK, Running, NEW ref
  PROVE  /\ Matching(ref) \subseteq Top.posted
         /\ Matching(ref) \subseteq Envelope
         /\ Arrived(ref) \subseteq Envelope
         /\ Onward(ref) \subseteq Envelope
  <1>1. Top.posted \subseteq Envelope
    BY TopType DEF Evaluation
  <1>2. Matching(ref) \subseteq Top.posted
    BY DEF Matching
  <1>3. \A e \in Envelope : Forward(e) \in Envelope
    BY DEF Envelope, Forward
  <1> QED
    BY <1>1, <1>2, <1>3 DEF Arrived, Onward

\* Declaring documents puts well-formed envelopes in the post.
LEMMA NewEnvelopesType ==
  ASSUME NEW mail \in Mail, NEW depth \in Nat
  PROVE  /\ NewEnvelopes(mail, depth) \subseteq Envelope
         /\ Docs(NewEnvelopes(mail, depth)) \subseteq Doc
  <1>1. \A m \in mail : m.doc \in Doc /\ m.original \in Address
    BY MailAssumption
  <1> QED
    BY <1>1 DEF NewEnvelopes, Envelope, Docs

\* The documents in a set of envelopes are documents.
LEMMA DocsType ==
  ASSUME NEW E \in SUBSET Envelope
  PROVE  Docs(E) \subseteq Doc
  BY DEF Docs, Envelope

\* Marking envelopes as used changes nothing else of the evaluation on top.
LEMMA MarkUsedShape ==
  ASSUME TypeOK, Running, NEW M \in SUBSET Envelope
  PROVE  /\ MarkUsed(M) \in Seq(Evaluation)
         /\ Len(MarkUsed(M)) = Len(stack)
         /\ \A i \in 1 .. Len(stack) :
              /\ MarkUsed(M)[i].ref = stack[i].ref
              /\ MarkUsed(M)[i].inbox = stack[i].inbox
              /\ MarkUsed(M)[i].posted = stack[i].posted
              /\ MarkUsed(M)[i].used =
                   IF i = Len(stack) THEN stack[i].used \cup M ELSE stack[i].used
  <1> DEFINE top == [stack[Len(stack)] EXCEPT !.used = @ \cup M]
  <1>1. stack \in Seq(Evaluation) /\ Len(stack) \in 1 .. Len(stack)
    BY TopType DEF TypeOK
  <1>2. stack[Len(stack)] \in Evaluation
    BY <1>1, ElementOfSeq
  <1>3. /\ top \in Evaluation
        /\ top.ref = stack[Len(stack)].ref
        /\ top.inbox = stack[Len(stack)].inbox
        /\ top.posted = stack[Len(stack)].posted
        /\ top.used = stack[Len(stack)].used \cup M
    BY <1>2 DEF Evaluation
  <1>4. MarkUsed(M) = [stack EXCEPT ![Len(stack)] = top]
    BY DEF MarkUsed
  <1> HIDE DEF top
  <1>5. /\ MarkUsed(M) \in Seq(Evaluation)
        /\ Len(MarkUsed(M)) = Len(stack)
        /\ \A j \in 1 .. Len(stack) :
             MarkUsed(M)[j] = IF j = Len(stack) THEN top ELSE stack[j]
    BY <1>1, <1>3, <1>4, ExceptSeq
  <1> QED
    BY <1>3, <1>5, Zenon

\* Unwinding the stack to position k keeps the evaluations up to k.
LEMMA SubSeqShape ==
  ASSUME TypeOK, Running, NEW k \in 0 .. Len(stack) - 1
  PROVE  /\ SubSeq(stack, 1, k) \in Seq(Evaluation)
         /\ Len(SubSeq(stack, 1, k)) = k
         /\ \A i \in 1 .. k : SubSeq(stack, 1, k)[i] = stack[i]
  <1>1. k \in Int /\ 1 \in Int /\ \A i \in 1 .. k : stack[i] \in Evaluation
    BY TopType
  <1>2. /\ SubSeq(stack, 1, k) \in Seq(Evaluation)
        /\ Len(SubSeq(stack, 1, k)) = IF 1 <= k THEN k - 1 + 1 ELSE 0
        /\ \A i \in 1 .. k - 1 + 1 : SubSeq(stack, 1, k)[i] = stack[1 + i - 1]
    BY <1>1, SubSeqProperties
  <1> QED
    BY <1>1, <1>2, TopType

-----------------------------------------------------------------------------
(* Type correctness.                                                          *)

\* Each step of a run keeps the stack a sequence of evaluations, which is not
\* empty exactly while the run goes on.
LEMMA TypeStep ==
  ASSUME TypeOK, [Next]_vars
  PROVE  TypeOK'
  <1>1. CASE UNCHANGED vars
    BY <1>1 DEF TypeOK, vars
  <1>2. CASE StopEarly
    BY <1>2 DEF TypeOK, StopEarly
  <1>3. ASSUME NEW mail \in Mail, Start(mail)
        PROVE  TypeOK'
    <2>1. 1 \in Nat
      OBVIOUS
    <2>2. /\ NewEnvelopes(mail, 1) \subseteq Envelope
          /\ Docs(NewEnvelopes(mail, 1)) \subseteq Doc
      BY <2>1, NewEnvelopesType
    <2> DEFINE root == [ref |-> [path |-> "", alias |-> ""], inbox |-> {},
                        posted |-> NewEnvelopes(mail, 1), used |-> {}]
    <2>3. root \in Evaluation
      BY <2>2 DEF Evaluation, LibraryRef
    <2>4. stack' = <<root>> /\ status' = "running"
      BY <1>3, Zenon DEF Start
    <2> HIDE DEF root
    <2>5. stack' \in Seq(Evaluation) /\ stack' # << >>
      BY <2>3, <2>4
    <2> QED
      BY <1>3, <2>2, <2>4, <2>5, Zenon DEF TypeOK, Start
  <1>4. ASSUME NEW ref \in Instance, NEW mail \in Mail, Open(ref, mail)
        PROVE  TypeOK'
    <2>1. Running /\ Len(stack) + 1 \in Nat
      BY <1>4, TopType DEF Open
    <2>2. /\ NewEnvelopes(mail, Len(stack) + 1) \subseteq Envelope
          /\ Docs(NewEnvelopes(mail, Len(stack) + 1)) \subseteq Doc
      BY <2>1, NewEnvelopesType
    <2>3. /\ Matching(ref) \subseteq Envelope
          /\ Arrived(ref) \subseteq Envelope
          /\ Onward(ref) \subseteq Envelope
      BY <2>1, ForwardType
    <2>4. MarkUsed(Matching(ref)) \in Seq(Evaluation)
      BY <2>1, <2>3, MarkUsedShape
    <2> DEFINE child == [ref |-> ref, inbox |-> Arrived(ref),
                         posted |-> Onward(ref) \cup NewEnvelopes(mail, Len(stack) + 1),
                         used |-> {}]
    <2>5. child \in Evaluation
      BY <2>2, <2>3, Zenon DEF Evaluation, LibraryRef, Instance
    <2>6. stack' = Append(MarkUsed(Matching(ref)), child)
      BY <1>4 DEF Open
    <2> HIDE DEF child
    <2>7. stack' \in Seq(Evaluation) /\ stack' # << >>
      BY <2>4, <2>5, <2>6, AppendProperties
    <2>8. Docs(Arrived(ref)) \subseteq Doc
      BY <2>3, DocsType
    <2> QED
      BY <1>4, <2>1, <2>2, <2>7, <2>8 DEF TypeOK, Open, Running
  <1>5. ASSUME NEW ref \in Instance, Peek(ref)
        PROVE  TypeOK'
    <2>1. Running
      BY <1>5 DEF Peek
    <2>2. /\ Matching(ref) \subseteq Envelope
          /\ Docs(Arrived(ref)) \subseteq Doc
          /\ Docs(Onward(ref)) \subseteq Doc
      BY <2>1, ForwardType, DocsType
    <2>3. stack' \in Seq(Evaluation) /\ stack' # << >>
      BY <1>5, <2>1, <2>2, MarkUsedShape, TopType DEF Peek
    <2> QED
      BY <1>5, <2>1, <2>2, <2>3 DEF TypeOK, Peek, Running
  <1>6. ASSUME NEW ref \in Instance, NEW M \in SUBSET Matching(ref), OpenFails(M)
        PROVE  TypeOK'
    <2>1. Running
      BY <1>6 DEF OpenFails
    <2>2. M \subseteq Envelope /\ Docs(M) \subseteq Doc
      BY <2>1, ForwardType, DocsType
    <2>3. stack' \in Seq(Evaluation) /\ stack' # << >>
      BY <1>6, <2>1, <2>2, MarkUsedShape, TopType DEF OpenFails
    <2> QED
      BY <1>6, <2>1, <2>2, <2>3 DEF TypeOK, OpenFails, Running
  <1>7. CASE Close
    <2>1. Running /\ Len(stack) - 1 \in 0 .. Len(stack) - 1
      BY <1>7, TopType DEF Close
    <2>2. /\ stack' \in Seq(Evaluation)
          /\ Len(stack') = Len(stack) - 1
      BY <1>7, <2>1, SubSeqShape, Zenon DEF Close
    <2>3. stack' = << >> <=> Len(stack) = 1
      BY <2>1, <2>2, TopType, EmptySeq
    <2> QED
      BY <1>7, <2>2, <2>3 DEF TypeOK, Close
  <1>8. ASSUME NEW k \in 0 .. Len(stack) - 1, Fail(k)
        PROVE  TypeOK'
    <2>1. Running
      BY <1>8 DEF Fail
    <2>2. /\ stack' \in Seq(Evaluation)
          /\ Len(stack') = k
      BY <1>8, <2>1, SubSeqShape DEF Fail
    <2>3. stack' = << >> <=> k = 0
      BY <2>1, <2>2, EmptySeq
    <2>4. \A i \in k + 1 .. Len(stack) : Docs(stack[i].posted) \subseteq Doc
      <3> SUFFICES ASSUME NEW i \in k + 1 .. Len(stack)
                   PROVE  Docs(stack[i].posted) \subseteq Doc
        OBVIOUS
      <3>1. stack[i] \in Evaluation
        BY <2>1, TopType
      <3> QED
        BY <3>1, DocsType DEF Evaluation
    <2>5. aborted' \subseteq Doc
      BY <1>8, <2>4 DEF Fail, TypeOK
    <2> QED
      BY <1>8, <2>2, <2>3, <2>5 DEF TypeOK, Fail
  <1> QED
    BY <1>1, <1>2, <1>3, <1>4, <1>5, <1>6, <1>7, <1>8 DEF Next

\* Type correctness, for any paths, aliases, documents and nesting.
THEOREM TypeCorrect == Spec => []TypeOK
  <1>1. Init => TypeOK
    BY EmptySeq DEF Init, TypeOK
  <1>2. TypeOK /\ [Next]_vars => TypeOK'
    BY TypeStep
  <1> QED
    BY <1>1, <1>2, PTL DEF Spec

-----------------------------------------------------------------------------
(* Every envelope is on the path it is addressed to.                          *)

\* What is said of an envelope at position i of stack s.
PostedAt(s, i, e) ==
  /\ e.depth \in 1 .. i
  /\ e.hop = i - e.depth
  /\ e.hop < Len(e.original)
  /\ \A k \in 1 .. e.hop : Matches(e.original[k], s[e.depth + k].ref)

ArrivedAt(s, i, e) ==
  /\ e.depth \in 1 .. i
  /\ Len(e.original) = i - e.depth
  /\ \A k \in 1 .. Len(e.original) : Matches(e.original[k], s[e.depth + k].ref)

AddressInv == OnItsWay /\ ReachesAddressee

\* OnItsWay and ReachesAddressee, position by position.
LEMMA AddressInvAlt ==
  AddressInv <=> \A i \in 1 .. Len(stack) :
                   /\ \A e \in stack[i].posted : PostedAt(stack, i, e)
                   /\ \A e \in stack[i].inbox : ArrivedAt(stack, i, e)
  BY Zenon DEF AddressInv, OnItsWay, ReachesAddressee, Follows, PostedAt, ArrivedAt

\* An address is a sequence of pieces, at least one.
LEMMA AddressType ==
  ASSUME NEW e \in Envelope
  PROVE  Len(e.original) \in Nat \ {0} /\ e.depth \in Nat /\ e.hop \in Nat
  BY AddressAssumption, EmptySeq DEF Envelope

\* Steps that keep the evaluations 1 .. n and only mark envelopes of theirs.
LEMMA AddressInvKept ==
  ASSUME TypeOK, AddressInv, NEW n \in 0 .. Len(stack), Len(stack') = n,
         \A i \in 1 .. n : /\ stack'[i].ref = stack[i].ref
                           /\ stack'[i].inbox = stack[i].inbox
                           /\ stack'[i].posted = stack[i].posted
  PROVE  AddressInv'
  <1>0. stack \in Seq(Evaluation) /\ Len(stack) \in Nat
    BY DEF TypeOK
  <1> SUFFICES ASSUME NEW i \in 1 .. n
               PROVE  /\ \A e \in stack'[i].posted : PostedAt(stack', i, e)
                      /\ \A e \in stack'[i].inbox : ArrivedAt(stack', i, e)
    BY AddressInvAlt, Zenon DEF AddressInv, OnItsWay, ReachesAddressee, Follows, PostedAt, ArrivedAt
  <1>1. i \in 1 .. Len(stack) /\ stack[i] \in Evaluation
    BY <1>0, ElementOfSeq
  <1>2. ASSUME NEW e \in stack[i].posted
        PROVE  PostedAt(stack', i, e)
    <2>1. PostedAt(stack, i, e) /\ e \in Envelope
      BY <1>1, <1>2, AddressInvAlt DEF Evaluation
    <2>2. \A k \in 1 .. e.hop : e.depth + k \in 1 .. n
      BY <2>1, AddressType, SMTT(30) DEF PostedAt
    <2> QED
      BY <2>1, <2>2, Zenon DEF PostedAt
  <1>3. ASSUME NEW e \in stack[i].inbox
        PROVE  ArrivedAt(stack', i, e)
    <2>1. ArrivedAt(stack, i, e) /\ e \in Envelope
      BY <1>1, <1>3, AddressInvAlt DEF Evaluation
    <2>2. \A k \in 1 .. Len(e.original) : e.depth + k \in 1 .. n
      BY <2>1, AddressType, SMTT(30) DEF ArrivedAt
    <2> QED
      BY <2>1, <2>2, Zenon DEF ArrivedAt
  <1> QED
    BY <1>2, <1>3

\* Opening an evaluation of ref hands down envelopes whose next piece is ref.
LEMMA AddressInvOpen ==
  ASSUME TypeOK, AddressInv, NEW ref \in Instance, NEW mail \in Mail, Open(ref, mail),
         TypeOK'
  PROVE  AddressInv'
  <1> DEFINE n == Len(stack)
             new == NewEnvelopes(mail, n + 1)
             child == [ref |-> ref, inbox |-> Arrived(ref),
                       posted |-> Onward(ref) \cup new, used |-> {}]
  <1>1. Running /\ n \in Nat \ {0}
    BY TopType DEF Open
  <1>2. /\ Matching(ref) \subseteq Top.posted
        /\ Matching(ref) \subseteq Envelope
        /\ Arrived(ref) \subseteq Envelope
        /\ Onward(ref) \subseteq Envelope
    BY <1>1, ForwardType
  <1>3. new \subseteq Envelope
    BY <1>1, NewEnvelopesType
  <1>4. child \in Evaluation
    BY <1>2, <1>3, Zenon DEF Evaluation, LibraryRef, Instance
  <1>5. stack' = Append(MarkUsed(Matching(ref)), child)
    BY DEF Open
  <1>6. /\ MarkUsed(Matching(ref)) \in Seq(Evaluation)
        /\ Len(MarkUsed(Matching(ref))) = n
        /\ \A i \in 1 .. n : /\ MarkUsed(Matching(ref))[i].ref = stack[i].ref
                             /\ MarkUsed(Matching(ref))[i].inbox = stack[i].inbox
                             /\ MarkUsed(Matching(ref))[i].posted = stack[i].posted
    BY <1>1, <1>2, MarkUsedShape, Zenon
  <1>7. /\ child.ref = ref
        /\ child.inbox = Arrived(ref)
        /\ child.posted = Onward(ref) \cup new
    OBVIOUS
  <1> HIDE DEF child, new, n
  <1>8. /\ Len(stack') = n + 1
        /\ \A i \in 1 .. n : stack'[i] = MarkUsed(Matching(ref))[i]
        /\ stack'[n + 1] = child
    BY <1>4, <1>5, <1>6, AppendProperties
  <1>9. \A i \in 1 .. n : /\ stack'[i].ref = stack[i].ref
                          /\ stack'[i].inbox = stack[i].inbox
                          /\ stack'[i].posted = stack[i].posted
    BY <1>6, <1>8
  <1>10. ASSUME NEW i \in 1 .. n
         PROVE  /\ \A e \in stack'[i].posted : PostedAt(stack', i, e)
                /\ \A e \in stack'[i].inbox : ArrivedAt(stack', i, e)
    <2>1. stack[i] \in Evaluation
      BY <1>1, <1>10, TopType DEF n
    <2>2. ASSUME NEW e \in stack[i].posted
          PROVE  PostedAt(stack', i, e)
      <3>1. PostedAt(stack, i, e) /\ e \in Envelope
        BY <2>1, <2>2, AddressInvAlt DEF Evaluation, n
      <3>2. \A k \in 1 .. e.hop : e.depth + k \in 1 .. n
        BY <1>1, <3>1, AddressType DEF PostedAt
      <3> QED
        BY <1>9, <3>1, <3>2, Zenon DEF PostedAt
    <2>3. ASSUME NEW e \in stack[i].inbox
          PROVE  ArrivedAt(stack', i, e)
      <3>1. ArrivedAt(stack, i, e) /\ e \in Envelope
        BY <2>1, <2>3, AddressInvAlt DEF Evaluation, n
      <3>2. \A k \in 1 .. Len(e.original) : e.depth + k \in 1 .. n
        BY <1>1, <3>1, AddressType DEF ArrivedAt
      <3> QED
        BY <1>9, <3>1, <3>2, Zenon DEF ArrivedAt
    <2> QED
      BY <1>9, <2>2, <2>3
  <1>11. ASSUME NEW m \in Matching(ref)
         PROVE  /\ Forward(m).depth = m.depth
                /\ Forward(m).hop = m.hop + 1
                /\ Forward(m).original = m.original
                /\ m.depth \in 1 .. n + 1
                /\ m.hop + 1 = (n + 1) - m.depth
                /\ \A k \in 1 .. m.hop + 1 :
                     Matches(m.original[k], stack'[m.depth + k].ref)
    <2>1. m \in Envelope /\ m \in stack[n].posted /\ Matches(m.original[m.hop + 1], ref)
      BY <1>2 DEF Matching, Top, n
    <2>2. /\ Forward(m).depth = m.depth
          /\ Forward(m).hop = m.hop + 1
          /\ Forward(m).original = m.original
      BY <2>1 DEF Forward, Envelope
    <2>3. n \in 1 .. Len(stack) /\ PostedAt(stack, n, m)
      BY <1>1, <2>1, AddressInvAlt DEF n
    <2>4. m.depth \in 1 .. n /\ m.hop = n - m.depth /\ m.hop \in Nat
      BY <2>1, <2>3, AddressType DEF PostedAt
    <2>5. ASSUME NEW k \in 1 .. m.hop + 1
          PROVE  Matches(m.original[k], stack'[m.depth + k].ref)
      <3>1. CASE k \in 1 .. m.hop
        <4>1. m.depth + k \in 1 .. n
          BY <1>1, <2>4, <3>1
        <4> QED
          BY <1>9, <2>3, <3>1, <4>1, Zenon DEF PostedAt
      <3>2. CASE k = m.hop + 1
        <4>1. m.depth + k = n + 1
          BY <1>1, <2>4, <3>2
        <4> QED
          BY <1>7, <1>8, <2>1, <3>2, <4>1
      <3> QED
        BY <2>4, <3>1, <3>2
    <2> QED
      BY <1>1, <2>2, <2>4, <2>5
  <1>12. \A e \in Onward(ref) : PostedAt(stack', n + 1, e)
    <2> SUFFICES ASSUME NEW m \in Matching(ref), m.hop + 1 < Len(m.original)
                 PROVE  PostedAt(stack', n + 1, Forward(m))
      BY DEF Onward
    <2> DEFINE f == Forward(m)
    <2>1. /\ f.depth = m.depth
          /\ f.hop = m.hop + 1
          /\ f.original = m.original
          /\ m.depth \in 1 .. n + 1
          /\ m.hop + 1 = (n + 1) - m.depth
          /\ \A k \in 1 .. m.hop + 1 :
               Matches(m.original[k], stack'[m.depth + k].ref)
      BY <1>11
    <2> HIDE DEF f
    <2>2. m.depth \in Nat /\ m.hop \in Nat /\ Len(m.original) \in Nat
      BY <1>2, AddressType
    <2>3. \A k \in 1 .. m.hop + 1 :
            Matches(f.original[k], stack'[f.depth + k].ref)
      BY <2>1
    <2>4. PostedAt(stack', n + 1, f)
      BY <1>1, <2>1, <2>2, <2>3 DEF PostedAt
    <2> QED
      BY <2>4 DEF f
  <1>13. \A e \in Arrived(ref) : ArrivedAt(stack', n + 1, e)
    <2> SUFFICES ASSUME NEW f \in Arrived(ref)
                 PROVE  ArrivedAt(stack', n + 1, f)
      OBVIOUS
    <2>1. PICK m \in Matching(ref) : m.hop + 1 = Len(m.original) /\ f = Forward(m)
      BY DEF Arrived
    <2>2. m.depth \in Nat /\ m.hop \in Nat
      BY <1>2, AddressType
    <2>3. /\ f.depth = m.depth
          /\ Len(f.original) = m.hop + 1
          /\ f.depth \in 1 .. n + 1
          /\ Len(f.original) = (n + 1) - f.depth
      BY <1>11, <2>1
    <2>4. \A k \in 1 .. m.hop + 1 : Matches(f.original[k], stack'[f.depth + k].ref)
      BY <1>11, <2>1
    <2>5. \A k \in 1 .. Len(f.original) : Matches(f.original[k], stack'[f.depth + k].ref)
      BY <2>3, <2>4
    <2> QED
      BY <2>3, <2>5 DEF ArrivedAt
  <1>14. \A e \in new : PostedAt(stack', n + 1, e)
    <2> SUFFICES ASSUME NEW e \in new
                 PROVE  PostedAt(stack', n + 1, e)
      OBVIOUS
    <2>1. e \in Envelope /\ e.depth = n + 1 /\ e.hop = 0
      BY <1>3 DEF new, NewEnvelopes
    <2>2. Len(e.original) \in Nat \ {0}
      BY <2>1, AddressType
    <2> QED
      BY <1>1, <2>1, <2>2 DEF PostedAt
  <1>15. \A i \in 1 .. n + 1 : /\ \A e \in stack'[i].posted : PostedAt(stack', i, e)
                               /\ \A e \in stack'[i].inbox : ArrivedAt(stack', i, e)
    <2> SUFFICES ASSUME NEW i \in 1 .. n + 1
                 PROVE  /\ \A e \in stack'[i].posted : PostedAt(stack', i, e)
                        /\ \A e \in stack'[i].inbox : ArrivedAt(stack', i, e)
      OBVIOUS
    <2>1. CASE i \in 1 .. n
      BY <1>10, <2>1, SMTT(30)
    <2>2. CASE i = n + 1
      BY <1>7, <1>8, <1>12, <1>13, <1>14, <2>2
    <2> QED
      BY <1>1, <2>1, <2>2
  <1> QED
    BY <1>8, <1>15 DEF AddressInv, OnItsWay, ReachesAddressee, Follows, PostedAt, ArrivedAt

\* Every step of a run keeps the envelopes on the paths they are addressed to.
LEMMA AddressStep ==
  ASSUME TypeOK, TypeOK', AddressInv, [Next]_vars
  PROVE  AddressInv'
  <1>0. stack \in Seq(Evaluation) /\ Len(stack) \in Nat
    BY DEF TypeOK
  <1>1. CASE UNCHANGED vars
    BY <1>0, <1>1, AddressInvKept DEF vars
  <1>2. CASE StopEarly
    BY <1>0, <1>2, AddressInvKept, SMTT(30) DEF StopEarly
  <1>3. ASSUME NEW mail \in Mail, Start(mail)
        PROVE  AddressInv'
    <2> DEFINE new == NewEnvelopes(mail, 1)
    <2>1. /\ Len(stack') = 1
          /\ stack'[1].inbox = {}
          /\ stack'[1].posted = new
      BY <1>3, Zenon DEF Start
    <2>2. \A e \in new : e \in Envelope /\ e.depth = 1 /\ e.hop = 0
      BY NewEnvelopesType DEF NewEnvelopes
    <2> HIDE DEF new
    <2>3. \A e \in new : PostedAt(stack', 1, e)
      BY <2>2, AddressType DEF PostedAt
    <2> QED
      BY <2>1, <2>3 DEF AddressInv, OnItsWay, ReachesAddressee, Follows, PostedAt
  <1>4. ASSUME NEW ref \in Instance, NEW mail \in Mail, Open(ref, mail)
        PROVE  AddressInv'
    BY <1>4, AddressInvOpen
  <1>5. ASSUME NEW M \in SUBSET Envelope, Running, stack' = MarkUsed(M)
        PROVE  AddressInv'
    <2>1. /\ Len(stack') = Len(stack)
          /\ \A i \in 1 .. Len(stack) : /\ stack'[i].ref = stack[i].ref
                                       /\ stack'[i].inbox = stack[i].inbox
                                       /\ stack'[i].posted = stack[i].posted
      BY <1>5, MarkUsedShape, Zenon
    <2> QED
      BY <1>0, <2>1, AddressInvKept
  <1>6. ASSUME NEW ref \in Instance, Peek(ref)
        PROVE  AddressInv'
    BY <1>5, <1>6, ForwardType DEF Peek
  <1>7. ASSUME NEW ref \in Instance, Running, NEW M \in SUBSET Matching(ref), OpenFails(M)
        PROVE  AddressInv'
    BY <1>5, <1>7, ForwardType DEF OpenFails
  <1>8. ASSUME NEW k \in 0 .. Len(stack) - 1, Running, stack' = SubSeq(stack, 1, k)
        PROVE  AddressInv'
    BY <1>0, <1>8, SubSeqShape, AddressInvKept
  <1>9. CASE Close
    <2>1. Len(stack) - 1 \in 0 .. Len(stack) - 1
      BY <1>9, TopType DEF Close
    <2> QED
      BY <1>8, <1>9, <2>1 DEF Close
  <1>10. ASSUME NEW k \in 0 .. Len(stack) - 1, Fail(k)
         PROVE  AddressInv'
    BY <1>8, <1>10 DEF Fail
  <1> QED
    BY <1>1, <1>2, <1>3, <1>4, <1>6, <1>7, <1>9, <1>10 DEF Next

\* Data values and schemas only take effect in the library that the address
\* they were declared with selects, through any number of nested libraries.
\* OnItsWay is the strengthening: an envelope that has some pieces of its
\* address left was handed down along the pieces it has lost.
THEOREM AddressCorrect == Spec => [](OnItsWay /\ ReachesAddressee)
  <1>1. Init => AddressInv
    BY DEF Init, AddressInv, OnItsWay, ReachesAddressee
  <1>2. TypeOK /\ TypeOK' /\ AddressInv /\ [Next]_vars => AddressInv'
    BY AddressStep
  <1>3. AddressInv => OnItsWay /\ ReachesAddressee
    BY DEF AddressInv
  <1> QED
    BY <1>1, <1>2, <1>3, TypeCorrect, PTL DEF Spec

-----------------------------------------------------------------------------
(* No document is lost silently.                                              *)

\* Document d is posted and not yet taken by the evaluation at position i.
Waits(s, i, d) == \E e \in s[i].posted \ s[i].used : e.doc = d

\* Taking the envelopes that match a library leaves the others waiting, and the
\* documents of the ones taken have arrived or are handed on.
LEMMA TakenOrWaiting ==
  ASSUME TypeOK, AddressInv, Running, NEW ref, NEW i \in 1 .. Len(stack), NEW d,
         Waits(stack, i, d)
  PROVE  \/ Waits(MarkUsed(Matching(ref)), i, d)
         \/ d \in Docs(Arrived(ref))
         \/ \E e \in Onward(ref) : e.doc = d
  <1>1. PICK e \in stack[i].posted \ stack[i].used : e.doc = d
    BY DEF Waits
  <1>2. /\ Matching(ref) \subseteq Envelope
        /\ stack[i] \in Evaluation
    BY ForwardType, TopType
  <1>3. e \in Envelope
    BY <1>1, <1>2 DEF Evaluation
  <1>4. CASE e \notin Matching(ref) \/ i # Len(stack)
    <2>1. /\ MarkUsed(Matching(ref))[i].posted = stack[i].posted
          /\ MarkUsed(Matching(ref))[i].used =
               stack[i].used \cup IF i = Len(stack) THEN Matching(ref) ELSE {}
      BY <1>2, MarkUsedShape, ZenonT(30)
    <2>2. e \in MarkUsed(Matching(ref))[i].posted \ MarkUsed(Matching(ref))[i].used
      BY <1>1, <1>4, <2>1
    <2> QED
      BY <1>1, <2>2 DEF Waits
  <1>5. CASE e \in Matching(ref)
    <2>1. PostedAt(stack, Len(stack), e)
      BY <1>5, TopType, ForwardType, AddressInvAlt DEF Top
    <2>5. e.hop + 1 = Len(e.original) \/ e.hop + 1 < Len(e.original)
      <3>1. e.hop < Len(e.original)
        BY <2>1 DEF PostedAt
      <3>2. Len(e.original) \in Nat /\ e.hop \in Nat
        BY <1>3, AddressType
      <3> QED
        BY <3>1, <3>2
    <2>2. Forward(e).doc = d
      BY <1>1, <1>3 DEF Forward, Envelope
    <2>3. CASE e.hop + 1 = Len(e.original)
      BY <1>5, <2>2, <2>3 DEF Arrived, Docs
    <2>4. CASE e.hop + 1 < Len(e.original)
      BY <1>5, <2>2, <2>4 DEF Onward
    <2> QED
      BY <2>3, <2>4, <2>5
  <1> QED
    BY <1>4, <1>5

\* Opening an evaluation loses no document.
LEMMA AccountedOpen ==
  ASSUME TypeOK, AddressInv, Accounted,
         NEW ref \in Instance, NEW mail \in Mail, Open(ref, mail)
  PROVE  Accounted'
  <1> DEFINE n == Len(stack)
             new == NewEnvelopes(mail, n + 1)
             marked == MarkUsed(Matching(ref))
             child == [ref |-> ref, inbox |-> Arrived(ref),
                       posted |-> Onward(ref) \cup new, used |-> {}]
  <1>1. Running /\ n \in Nat \ {0}
    BY TopType DEF Open
  <1>2. /\ Matching(ref) \subseteq Envelope
        /\ Arrived(ref) \subseteq Envelope
        /\ Onward(ref) \subseteq Envelope
        /\ new \subseteq Envelope
    BY <1>1, ForwardType, NewEnvelopesType
  <1>3. child \in Evaluation
    BY <1>2, Zenon DEF Evaluation, LibraryRef, Instance
  <1>4. marked \in Seq(Evaluation) /\ Len(marked) = n
    BY <1>1, <1>2, MarkUsedShape
  <1>5. /\ stack' = Append(marked, child)
        /\ declared' = declared \cup Docs(new)
        /\ delivered' = delivered \cup Docs(Arrived(ref))
        /\ peeked' = peeked /\ aborted' = aborted
    BY DEF Open
  <1>6. child.posted = Onward(ref) \cup new /\ child.used = {}
    OBVIOUS
  <1> HIDE DEF child, marked, new, n
  <1>7. /\ Len(stack') = n + 1
        /\ \A i \in 1 .. n : stack'[i] = marked[i]
        /\ stack'[n + 1] = child
    BY <1>3, <1>4, <1>5, AppendProperties
  <1>8. \A e \in Onward(ref) \cup new : Waits(stack', n + 1, e.doc)
    BY <1>6, <1>7 DEF Waits
  <1>9. n + 1 \in 1 .. Len(stack') /\ \A i \in 1 .. n : i \in 1 .. Len(stack')
    BY <1>1, <1>7
  <1> SUFFICES ASSUME NEW d \in declared', d \notin delivered' \cup peeked' \cup aborted'
               PROVE  \E i \in 1 .. Len(stack') : Waits(stack', i, d)
    BY DEF Accounted, Waits
  <1>10. CASE d \in Docs(new)
    BY <1>8, <1>9, <1>10 DEF Docs
  <1>11. CASE d \in declared
    <2>1. PICK i \in 1 .. n : Waits(stack, i, d)
      BY <1>5, <1>11 DEF Accounted, Waits, n
    <2>2. Waits(marked, i, d) \/ \E e \in Onward(ref) : e.doc = d
      BY <1>1, <1>5, <2>1, TakenOrWaiting DEF marked, n
    <2>3. CASE Waits(marked, i, d)
      BY <1>7, <1>9, <2>3 DEF Waits
    <2> QED
      BY <1>8, <1>9, <2>2, <2>3
  <1> QED
    BY <1>5, <1>10, <1>11

\* Every step of a run keeps account of the declared documents.
LEMMA AccountedStep ==
  ASSUME TypeOK, AddressInv, Accounted, [Next]_vars
  PROVE  Accounted'
  <1>0. stack \in Seq(Evaluation) /\ Len(stack) \in Nat
    BY DEF TypeOK
  <1>1. CASE UNCHANGED vars
    BY <1>1 DEF Accounted, vars
  <1>2. CASE StopEarly
    BY <1>2 DEF Accounted, StopEarly
  <1>3. ASSUME NEW mail \in Mail, Start(mail)
        PROVE  Accounted'
    <2> DEFINE new == NewEnvelopes(mail, 1)
    <2>1. /\ Len(stack') = 1
          /\ stack'[1].posted = new /\ stack'[1].used = {}
          /\ declared' = Docs(new)
      BY <1>3, Zenon DEF Start
    <2> HIDE DEF new
    <2>2. 1 \in 1 .. Len(stack')
      BY <2>1, SMTT(30)
    <2> SUFFICES ASSUME NEW d \in Docs(new)
                 PROVE  \E e \in stack'[1].posted \ stack'[1].used : e.doc = d
      BY <2>1, <2>2 DEF Accounted
    <2> QED
      BY <2>1 DEF Docs
  <1>4. ASSUME NEW ref \in Instance, NEW mail \in Mail, Open(ref, mail)
        PROVE  Accounted'
    BY <1>4, AccountedOpen
  <1>5. ASSUME NEW ref \in Instance, Peek(ref)
        PROVE  Accounted'
    <2>1. Running /\ stack' = MarkUsed(Matching(ref)) /\ Len(stack') = Len(stack)
      BY <1>5, ForwardType, MarkUsedShape DEF Peek
    <2> SUFFICES ASSUME NEW d \in declared', d \notin delivered' \cup peeked' \cup aborted'
                 PROVE  \E i \in 1 .. Len(stack') : Waits(stack', i, d)
      BY DEF Accounted, Waits
    <2>2. PICK i \in 1 .. Len(stack) : Waits(stack, i, d)
      BY <1>5 DEF Accounted, Waits, Peek
    <2>3. d \notin Docs(Arrived(ref)) /\ d \notin Docs(Onward(ref))
      BY <1>5, SMTT(30) DEF Peek
    <2>4. Waits(stack', i, d)
      BY <2>1, <2>2, <2>3, TakenOrWaiting DEF Docs
    <2> QED
      BY <2>1, <2>4, SMTT(30)
  <1>6. ASSUME NEW ref \in Instance, Running, NEW M \in SUBSET Matching(ref), OpenFails(M)
        PROVE  Accounted'
    <2>1. M \in SUBSET Envelope /\ stack' = MarkUsed(M)
      BY <1>6, ForwardType DEF OpenFails
    <2>2. /\ Len(stack') = Len(stack)
          /\ \A i \in 1 .. Len(stack) : /\ stack'[i].posted = stack[i].posted
                                        /\ stack'[i].used \subseteq stack[i].used \cup M
      BY <1>6, <2>1, MarkUsedShape, ZenonT(30)
    <2> SUFFICES ASSUME NEW d \in declared', d \notin delivered' \cup peeked' \cup aborted'
                 PROVE  \E i \in 1 .. Len(stack') : Waits(stack', i, d)
      BY DEF Accounted, Waits
    <2>3. PICK i \in 1 .. Len(stack) : Waits(stack, i, d)
      BY <1>6 DEF Accounted, Waits, OpenFails
    <2>4. PICK e \in stack[i].posted \ stack[i].used : e.doc = d
      BY <2>3 DEF Waits
    <2>5. e \notin M
      BY <1>6, <2>4 DEF OpenFails, Docs
    <2> QED
      BY <2>2, <2>4, <2>5 DEF Waits
  <1>7. ASSUME NEW k \in 0 .. Len(stack) - 1, Running, stack' = SubSeq(stack, 1, k),
               UNCHANGED <<declared, delivered, peeked>>, aborted \subseteq aborted',
               \A i \in k + 1 .. Len(stack) :
                 Docs(stack[i].posted \ stack[i].used) \subseteq aborted'
        PROVE  Accounted'
    <2>1. Len(stack') = k /\ \A i \in 1 .. k : stack'[i] = stack[i]
      BY <1>7, SubSeqShape
    <2> SUFFICES ASSUME NEW d \in declared', d \notin delivered' \cup peeked' \cup aborted'
                 PROVE  \E i \in 1 .. Len(stack') : Waits(stack', i, d)
      BY DEF Accounted, Waits
    <2>2. PICK i \in 1 .. Len(stack) : Waits(stack, i, d)
      BY <1>7 DEF Accounted, Waits
    <2>3. i \in 1 .. k
      <3>1. i \notin k + 1 .. Len(stack)
        BY <1>7, <2>2 DEF Waits, Docs
      <3> QED
        BY <1>0, <3>1
    <2> QED
      BY <2>1, <2>2, <2>3 DEF Waits
  <1>8. CASE Close
    <2>1. Len(stack) - 1 \in 0 .. Len(stack) - 1 /\ Running
      BY <1>8, TopType DEF Close
    <2>2. \A i \in (Len(stack) - 1) + 1 .. Len(stack) : stack[i].posted \ stack[i].used = {}
      BY <1>0, <1>8 DEF Close, Top
    <2> QED
      BY <1>7, <1>8, <2>1, <2>2, SMTT(30) DEF Close, Docs
  <1>9. ASSUME NEW k \in 0 .. Len(stack) - 1, Fail(k)
        PROVE  Accounted'
    BY <1>7, <1>9 DEF Fail, Docs
  <1> QED
    BY <1>1, <1>2, <1>3, <1>4, <1>5, <1>6, <1>8, <1>9 DEF Next

\* A run that succeeds has lost no document silently: whatever a library
\* declares for the libraries below it was delivered, unless
\* library.data_values() dropped it or a library evaluation that had it failed
\* and a template caught the failure.  Accounted is the inductive part: a
\* document that is neither delivered nor dropped is still posted and unused,
\* so that checkUnusedDVsOrSchemas will report it.
THEOREM DeliveryCorrect == Spec => [](Accounted /\ NothingLost)
  <1>1. Init => Accounted
    BY DEF Init, Accounted
  <1>2. TypeOK /\ AddressInv /\ Accounted /\ [Next]_vars => Accounted'
    BY AccountedStep
  <1>3. TypeOK /\ Accounted => NothingLost
    <2> SUFFICES ASSUME TypeOK, Accounted, status = "ok"
                 PROVE  declared \subseteq delivered \cup peeked \cup aborted
      BY DEF NothingLost
    <2>1. Len(stack) = 0
      BY EmptySeq DEF TypeOK
    <2> QED
      BY <2>1 DEF Accounted
  <1>4. OnItsWay /\ ReachesAddressee => AddressInv
    BY DEF AddressInv
  <1> QED
    BY <1>1, <1>2, <1>3, <1>4, TypeCorrect, AddressCorrect, PTL DEF Spec

=============================================================================
