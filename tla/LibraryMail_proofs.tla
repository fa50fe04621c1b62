------------------------- MODULE LibraryMail_proofs -------------------------
(***************************************************************************)
(* What EnvelopeDelivery sees of an execution of LibraryExecution: the     *)
(* envelopes it posts, the ones it takes from its parent, and the mail of  *)
(* its own library.                                                        *)
(***************************************************************************)
EXTENDS LibraryDelivery, LibraryExecution_proofs

-----------------------------------------------------------------------------
(* What EnvelopeDelivery sees of the stack.                                   *)

\* Of one execution.
Seen(f) ==
  [ref    |-> f.ref,
   inbox  |-> Abstract(Range(f.values) \cup Range(f.schema)),
   posted |-> Abstract(Posted(f)),
   used   |-> Abstract({f.libValues[k] : k \in f.usedValues}
                       \cup {f.libSchemas[k] : k \in f.usedSchemas})]

\* Of all of them.
SeenStack(st) == [i \in DOMAIN st |-> Seen(st[i])]
SeenFrame == {Seen(f) : f \in Frame}

\* SeenStack is the refinement mapping.
LEMMA AbstractStackIs == AbstractStack = SeenStack(stack) /\ AbstractStack' = SeenStack(stack')
  BY Zenon DEF AbstractStack, SeenStack, Seen

\* It is a sequence like the stack.
LEMMA SeenShape ==
  ASSUME NEW st \in Seq(Frame)
  PROVE  /\ SeenStack(st) \in Seq(SeenFrame) /\ Len(SeenStack(st)) = Len(st)
         /\ DOMAIN SeenStack(st) = 1 .. Len(st)
         /\ \A i \in 1 .. Len(st) : SeenStack(st)[i] = Seen(st[i])
  <1> DEFINE t == SeenStack(st)
  <1>1. Len(st) \in Nat /\ DOMAIN st = 1 .. Len(st)
    BY LenProperties
  <1>2. \A i \in 1 .. Len(st) : Seen(st[i]) \in SeenFrame
    <2>1. \A i \in 1 .. Len(st) : st[i] \in Frame
      BY ElementOfSeq
    <2> QED
      BY <2>1, Zenon DEF SeenFrame
  <1>3. t = [i \in 1 .. Len(st) |-> Seen(st[i])]
    BY <1>1, Zenon DEF SeenStack
  <1>4. t \in [1 .. Len(st) -> SeenFrame]
    BY <1>2, <1>3
  <1>5. \A i \in 1 .. Len(st) : t[i] = Seen(st[i])
    BY <1>3
  <1> HIDE DEF t
  <1>6. t \in Seq(SeenFrame) /\ Len(t) = Len(st)
    BY <1>1, <1>4, FunctionIsSequence
  <1>7. DOMAIN t = 1 .. Len(st)
    BY <1>4
  <1> QED
    BY <1>5, <1>6, <1>7 DEF t

\* Two sequences of the same length with the same elements.
LEMMA SameSequence ==
  ASSUME NEW S, NEW s \in Seq(S), NEW t \in Seq(S), Len(s) = Len(t),
         \A i \in 1 .. Len(s) : s[i] = t[i]
  PROVE  s = t
  BY SeqEqual

\* It follows the stack as executions start and end on top.
LEMMA SeenPush ==
  ASSUME NEW st \in Seq(Frame), NEW f \in Frame
  PROVE  SeenStack(Append(st, f)) = Append(SeenStack(st), Seen(f))
  <1> DEFINE n == Len(st)
             s == SeenStack(st)
             u == Append(st, f)
             a == SeenStack(u)
             b == Append(s, Seen(f))
  <1>1. n \in Nat /\ Seen(f) \in SeenFrame
    BY LenProperties, Zenon DEF SeenFrame
  <1>2. u \in Seq(Frame) /\ Len(u) = n + 1 /\ u[n + 1] = f /\ \A i \in 1 .. n : u[i] = st[i]
    BY AppendProperties
  <1>3. s \in Seq(SeenFrame) /\ Len(s) = n /\ \A i \in 1 .. n : s[i] = Seen(st[i])
    BY SeenShape
  <1> HIDE DEF n, s, u
  <1>4. a \in Seq(SeenFrame) /\ Len(a) = n + 1 /\ \A i \in 1 .. n + 1 : a[i] = Seen(u[i])
    BY <1>2, SeenShape
  <1>5. b \in Seq(SeenFrame) /\ Len(b) = n + 1 /\ b[n + 1] = Seen(f) /\ \A i \in 1 .. n : b[i] = s[i]
    BY <1>1, <1>3, AppendProperties
  <1> HIDE DEF a, b
  <1>6. \A i \in 1 .. n + 1 : a[i] = b[i]
    <2> SUFFICES ASSUME NEW i \in 1 .. n + 1 PROVE a[i] = b[i]
      OBVIOUS
    <2>1. i = n + 1 \/ i \in 1 .. n
      BY <1>1
    <2> QED
      BY <1>2, <1>3, <1>4, <1>5, <2>1, SMTT(30)
  <1>7. a = b
    BY <1>4, <1>5, <1>6, SameSequence, SMTT(30)
  <1> QED
    BY <1>7 DEF a, b, s, u

\* Ending the executions above k.
LEMMA SeenPop ==
  ASSUME NEW st \in Seq(Frame), NEW k \in 0 .. Len(st)
  PROVE  SeenStack(SubSeq(st, 1, k)) = SubSeq(SeenStack(st), 1, k)
  <1> DEFINE s == SeenStack(st)
             u == SubSeq(st, 1, k)
             a == SeenStack(u)
             b == SubSeq(s, 1, k)
  <1>1. Len(st) \in Nat /\ k \in Nat /\ \A i \in 1 .. k : i \in 1 .. Len(st)
    BY LenProperties
  <1>2. u \in Seq(Frame) /\ Len(u) = k /\ \A i \in 1 .. k : u[i] = st[i]
    BY <1>1, SubSeqProperties
  <1>3. s \in Seq(SeenFrame) /\ Len(s) = Len(st) /\ \A i \in 1 .. Len(st) : s[i] = Seen(st[i])
    BY SeenShape
  <1> HIDE DEF s, u
  <1>4. a \in Seq(SeenFrame) /\ Len(a) = k /\ \A i \in 1 .. k : a[i] = Seen(u[i])
    BY <1>2, SeenShape
  <1>5. b \in Seq(SeenFrame) /\ Len(b) = k /\ \A i \in 1 .. k : b[i] = s[i]
    BY <1>1, <1>3, SubSeqProperties
  <1> HIDE DEF a, b
  <1>6. \A i \in 1 .. k : a[i] = b[i]
    BY <1>1, <1>2, <1>3, <1>4, <1>5, Zenon
  <1>7. a = b
    BY <1>4, <1>5, <1>6, SameSequence, SMTT(30)
  <1> QED
    BY <1>7 DEF a, b, s, u

\* It follows the execution on top.
LEMMA SeenTop ==
  ASSUME NEW st \in Seq(Frame), st # << >>, NEW g \in Frame
  PROVE  SeenStack([st EXCEPT ![Len(st)] = g]) = [SeenStack(st) EXCEPT ![Len(st)] = Seen(g)]
  <1> DEFINE n == Len(st)
             s == SeenStack(st)
             u == [st EXCEPT ![n] = g]
             a == SeenStack(u)
             b == [s EXCEPT ![n] = Seen(g)]
  <1>1. n \in Nat /\ n # 0 /\ n \in 1 .. n /\ Seen(g) \in SeenFrame
    <2>1. n \in Nat /\ n # 0 /\ n \in 1 .. n
      BY LenProperties, EmptySeq
    <2> QED
      BY <2>1, Zenon DEF SeenFrame
  <1>2. u \in Seq(Frame) /\ Len(u) = n /\ u[n] = g /\ \A i \in 1 .. n : i # n => u[i] = st[i]
    BY TopReplaced
  <1>3. s \in Seq(SeenFrame) /\ Len(s) = n /\ \A i \in 1 .. n : s[i] = Seen(st[i])
    BY SeenShape
  <1> HIDE DEF n, s, u
  <1>4. a \in Seq(SeenFrame) /\ Len(a) = n /\ \A i \in 1 .. n : a[i] = Seen(u[i])
    BY <1>2, SeenShape
  <1>5. s # << >>
    BY <1>1, <1>3, EmptySeq
  <1>6. b \in Seq(SeenFrame) /\ Len(b) = n /\ b[n] = Seen(g) /\ \A i \in 1 .. n : i # n => b[i] = s[i]
    BY <1>1, <1>3, <1>5, TopReplaced, SMTT(30)
  <1> HIDE DEF a, b
  <1>7. \A i \in 1 .. n : a[i] = b[i]
    BY <1>2, <1>3, <1>4, <1>6, SMTT(30)
  <1>8. a = b
    BY <1>4, <1>6, <1>7, SameSequence, SMTT(30)
  <1> QED
    BY <1>8 DEF a, b, s, u, n

-----------------------------------------------------------------------------
(* Envelopes, as EnvelopeDelivery sees them.                                  *)

\* The envelopes of P whose next address piece selects ref; the copy that is
\* handed down; the copies that arrive, and those that go further.
Selected(P, ref) == {x \in P : Matches(x.original[x.hop + 1], ref)}
Forwarded(x) == [x EXCEPT !.hop = @ + 1]
ArrivedOf(P, ref) ==
  {Forwarded(x) : x \in {m \in Selected(P, ref) : m.hop + 1 = Len(m.original)}}
OnwardOf(P, ref) ==
  {Forwarded(x) : x \in {m \in Selected(P, ref) : m.hop + 1 < Len(m.original)}}

\* The envelopes around addressed documents of the execution at this depth.
Sealed(mail, depth) ==
  {[doc |-> m.doc, original |-> m.original, depth |-> depth, hop |-> 0] : m \in mail}

\* Which envelopes EnvelopeDelivery sees.
LEMMA InAbstract ==
  ASSUME NEW E, NEW x
  PROVE  x \in Abstract(E) <=>
           \E e \in E : e # Nil /\ e.original # << >> /\ x = AbstractEnvelope(e)
  BY Zenon DEF Abstract

\* Abstract distributes over unions, and leaves out what has no address.
LEMMA AbstractUnion ==
  ASSUME NEW D, NEW E
  PROVE  Abstract(D \cup E) = Abstract(D) \cup Abstract(E)
  BY DEF Abstract

\* What has no address is not seen.
LEMMA AbstractEmpty ==
  ASSUME NEW E, \A e \in E : e.original = << >>
  PROVE  Abstract(E) = {}
  BY DEF Abstract

\* The documents in envelopes that all have an address.
LEMMA AbstractDocs ==
  ASSUME NEW E, \A e \in E : e # Nil /\ e.original # << >>
  PROVE  {x.doc : x \in Abstract(E)} = Docs(E)
  <1>1. \A e : AbstractEnvelope(e).doc = e.doc
    BY DEF AbstractEnvelope
  <1>2. \A e \in E : AbstractEnvelope(e) \in Abstract(E)
    BY InAbstract, Zenon
  <1>3. \A x \in Abstract(E) : \E e \in E : x = AbstractEnvelope(e)
    BY InAbstract, Zenon
  <1> QED
    BY <1>1, <1>2, <1>3, Zenon DEF Docs

\* An envelope that an execution posts.
InPost(e) == e \in Envelope /\ e.libRef # << >> /\ OnRoute(e)

\* What an execution may post has an address and is on its route.
LEMMA PostableInPost ==
  ASSUME NEW e, NEW kind, NEW run, NEW depth, Postable(e, kind, run, depth)
  PROVE  InPost(e) /\ e # Nil /\ e.original # << >>
  <1>1. e \in Envelope /\ e.libRef # << >> /\ OnRoute(e)
    BY DEF Postable
  <1>2. e.libRef \in Seq(LibraryRef) /\ e.original \in Seq(LibraryRef)
    BY <1>1 DEF Envelope
  <1>3. Len(e.libRef) # 0 /\ Len(e.libRef) \in Nat /\ Len(e.libRef) <= Len(e.original)
    BY <1>1, <1>2, EmptySeq, LenProperties, SMTT(30) DEF OnRoute, EndsWith
  <1>4. e.original # << >>
    BY <1>2, <1>3, EmptySeq
  <1> QED
    BY <1>1, <1>4, NilAssumption DEF InPost

\* The next piece of the address is the one that UsedInLibrary compares, and
\* the copy is the forwarded envelope.
LEMMA OneHop ==
  ASSUME NEW e, InPost(e), NEW ref
  PROVE  LET a == AbstractEnvelope(e)
             c == UsedInLibrary(e, ref)
         IN  /\ c # Nil <=> Matches(a.original[a.hop + 1], ref)
             /\ c # Nil => /\ c.original = e.original
                           /\ AbstractEnvelope(c) = Forwarded(a)
                           /\ c.libRef = << >> <=> a.hop + 1 = Len(a.original)
                           /\ c.libRef # << >> <=> a.hop + 1 < Len(a.original)
  <1> DEFINE a == AbstractEnvelope(e)
             c == UsedInLibrary(e, ref)
             n == Len(e.original)
             m == Len(e.libRef)
  <1>1. /\ e \in Envelope /\ e.libRef # << >> /\ OnRoute(e)
        /\ e.libRef \in Seq(LibraryRef) /\ e.original \in Seq(LibraryRef)
    BY DEF InPost, Envelope
  <1>2. n \in Nat /\ m \in Nat /\ m # 0 /\ m <= n /\ 1 \in 1 .. m
    BY <1>1, EmptySeq, LenProperties DEF OnRoute, EndsWith
  <1>3. Head(e.libRef) = e.libRef[1]
    BY <1>1, HeadTailProperties
  <1>4. e.libRef[1] = e.original[n - m + 1]
    BY <1>1, <1>2, Zenon DEF OnRoute, EndsWith
  <1>5. a = [doc |-> e.doc, original |-> e.original, depth |-> e.depth, hop |-> n - m]
    BY DEF AbstractEnvelope
  <1>6. /\ ~Matches(Head(e.libRef), ref) => c = Nil
        /\ Matches(Head(e.libRef), ref) => c.libRef = Tail(e.libRef) /\ Len(c.libRef) = m - 1
        /\ c # Nil => /\ c \in Envelope /\ c.doc = e.doc /\ c.depth = e.depth
                      /\ c.original = e.original
    BY <1>1, UsedInLibraryShape
  <1>7. Matches(Head(e.libRef), ref) => c # Nil
    <2>1. Matches(Head(e.libRef), ref) => c = [e EXCEPT !.libRef = Tail(@)]
      BY <1>1 DEF UsedInLibrary
    <2>2. [e EXCEPT !.libRef = Tail(@)] \in Envelope
      <3>1. Tail(e.libRef) \in Seq(LibraryRef)
        BY <1>1, HeadTailProperties
      <3> QED
        BY <1>1, <3>1, Zenon DEF Envelope
    <2> QED
      BY <2>1, <2>2, NilAssumption, Zenon
  <1> HIDE DEF a, c, n, m
  <1>8. a.original = e.original /\ a.hop = n - m /\ a.doc = e.doc /\ a.depth = e.depth
    BY <1>5
  <1>9. c # Nil <=> Matches(a.original[a.hop + 1], ref)
    BY <1>3, <1>4, <1>6, <1>7, <1>8, SMTT(30)
  <1>10. ASSUME c # Nil
         PROVE  /\ c.original = e.original
                /\ AbstractEnvelope(c) = Forwarded(a)
                /\ c.libRef = << >> <=> a.hop + 1 = Len(a.original)
                /\ c.libRef # << >> <=> a.hop + 1 < Len(a.original)
    <2>1. /\ c \in Envelope /\ c.doc = e.doc /\ c.depth = e.depth /\ c.original = e.original
          /\ Len(c.libRef) = m - 1
      BY <1>6, <1>10
    <2>2. c.libRef \in Seq(LibraryRef)
      BY <2>1 DEF Envelope
    <2>3. c.libRef = << >> <=> m - 1 = 0
      BY <2>1, <2>2, EmptySeq, Zenon
    <2>4. Len(a.original) = n
      BY <1>8 DEF n
    <2>5. n - (m - 1) = n - m + 1
      BY <1>2
    <2>6. AbstractEnvelope(c) = [doc |-> e.doc, original |-> e.original, depth |-> e.depth,
                                 hop |-> n - (m - 1)]
      BY <2>1 DEF AbstractEnvelope, n
    <2>7. Forwarded(a) = [doc |-> e.doc, original |-> e.original, depth |-> e.depth,
                          hop |-> n - m + 1]
      BY <1>5 DEF Forwarded
    <2>8. AbstractEnvelope(c) = Forwarded(a)
      BY <2>5, <2>6, <2>7
    <2> QED
      BY <1>2, <1>8, <2>1, <2>3, <2>4, <2>8, SMTT(30)
  <1> QED
    BY <1>9, <1>10 DEF a, c

\* Taking copies of posted envelopes is what EnvelopeDelivery calls Matching,
\* Arrived and Onward.
Takes(E, ref) == {e \in E : UsedInLibrary(e, ref) # Nil}

\* The envelopes an instance takes are the matching ones, with those that
\* arrive and those that go on.
LEMMA HandedDown ==
  ASSUME NEW E, \A e \in E : InPost(e) /\ e # Nil /\ e.original # << >>, NEW ref
  PROVE  /\ Abstract(Takes(E, ref)) = Selected(Abstract(E), ref)
         /\ Abstract(For(Taken(E, ref))) = ArrivedOf(Abstract(E), ref)
         /\ Abstract(Beyond(Taken(E, ref))) = OnwardOf(Abstract(E), ref)
  <1> DEFINE A(e) == AbstractEnvelope(e)
             U(e) == UsedInLibrary(e, ref)
             M(x) == Matches(x.original[x.hop + 1], ref)
             N(x) == x.hop + 1 = Len(x.original)
             L(x) == x.hop + 1 < Len(x.original)
             S == Selected(Abstract(E), ref)
  <1>1. ASSUME NEW e \in E
        PROVE  /\ U(e) # Nil <=> M(A(e))
               /\ U(e) # Nil => /\ U(e).original # << >> /\ A(U(e)) = Forwarded(A(e))
                                /\ U(e).libRef = << >> <=> N(A(e))
                                /\ U(e).libRef # << >> <=> L(A(e))
    BY OneHop
  <1>2. Abstract(E) = {A(e) : e \in E}
    BY Zenon DEF Abstract
  <1>3. S = {x \in Abstract(E) : M(x)}
    BY Zenon DEF Selected
  <1>4. \A x : x \in Taken(E, ref) <=> \E e \in E : U(e) # Nil /\ x = U(e)
    BY Zenon DEF Taken
  <1>5. /\ ArrivedOf(Abstract(E), ref) = {Forwarded(x) : x \in {m \in S : N(m)}}
        /\ OnwardOf(Abstract(E), ref) = {Forwarded(x) : x \in {m \in S : L(m)}}
    BY Zenon DEF ArrivedOf, OnwardOf
  <1>6. /\ \A x : x \in For(Taken(E, ref)) <=> x \in Taken(E, ref) /\ x.libRef = << >>
        /\ \A x : x \in Beyond(Taken(E, ref)) <=> x \in Taken(E, ref) /\ x.libRef # << >>
    BY Zenon DEF For, Beyond
  <1>7. /\ \A x : x \in Abstract(For(Taken(E, ref))) <=>
             \E c \in For(Taken(E, ref)) : c # Nil /\ c.original # << >> /\ x = A(c)
        /\ \A x : x \in Abstract(Beyond(Taken(E, ref))) <=>
             \E c \in Beyond(Taken(E, ref)) : c # Nil /\ c.original # << >> /\ x = A(c)
        /\ \A x : x \in Abstract(Takes(E, ref)) <=>
             \E c \in Takes(E, ref) : c # Nil /\ c.original # << >> /\ x = A(c)
    BY Zenon DEF Abstract
  <1>8. \A e : e \in Takes(E, ref) <=> e \in E /\ U(e) # Nil
    BY Zenon DEF Takes
  <1> HIDE DEF A, U, M, N, L, S
  <1>9. Abstract(Takes(E, ref)) = S
    <2>1. ASSUME NEW x \in Abstract(Takes(E, ref)) PROVE x \in S
      <3>1. PICK e \in E : x = A(e) /\ U(e) # Nil
        BY <1>7, <1>8, Zenon
      <3> QED
        BY <1>1, <1>2, <1>3, <3>1, Zenon
    <2>2. ASSUME NEW x \in S PROVE x \in Abstract(Takes(E, ref))
      <3>1. PICK e \in E : x = A(e) /\ M(A(e)) /\ e # Nil /\ e.original # << >>
        BY <1>2, <1>3, Zenon
      <3>2. e \in Takes(E, ref)
        BY <1>1, <1>8, <3>1, Zenon
      <3> QED
        BY <1>7, <3>1, <3>2, Zenon
    <2> QED
      BY <2>1, <2>2, Zenon
  <1>10. Abstract(For(Taken(E, ref))) = {Forwarded(x) : x \in {m \in S : N(m)}}
    <2>1. ASSUME NEW c \in For(Taken(E, ref))
          PROVE  A(c) \in {Forwarded(x) : x \in {m \in S : N(m)}}
      <3>1. PICK e \in E : U(e) # Nil /\ c = U(e) /\ c.libRef = << >>
        BY <1>4, <1>6, Zenon
      <3>2. A(c) = Forwarded(A(e)) /\ N(A(e)) /\ A(e) \in S
        BY <1>1, <1>2, <1>3, <3>1, Zenon
      <3> QED
        BY <3>2, Zenon
    <2>2. ASSUME NEW y \in S, N(y)
          PROVE  \E c \in For(Taken(E, ref)) : c # Nil /\ c.original # << >> /\ Forwarded(y) = A(c)
      <3>1. PICK e \in E : y = A(e) /\ M(A(e)) /\ N(A(e))
        BY <1>2, <1>3, <2>2, Zenon
      <3>2. U(e) # Nil /\ U(e).original # << >> /\ A(U(e)) = Forwarded(y) /\ U(e).libRef = << >>
        BY <1>1, <3>1, Zenon
      <3>3. U(e) \in For(Taken(E, ref))
        BY <1>4, <1>6, <3>2, Zenon
      <3> QED
        BY <3>2, <3>3, Zenon
    <2>3. ASSUME NEW z \in Abstract(For(Taken(E, ref)))
          PROVE  z \in {Forwarded(x) : x \in {m \in S : N(m)}}
      <3>1. PICK c \in For(Taken(E, ref)) : z = A(c)
        BY <1>7, Zenon
      <3> QED
        BY <2>1, <3>1, Zenon
    <2>4. ASSUME NEW z \in {Forwarded(x) : x \in {m \in S : N(m)}}
          PROVE  z \in Abstract(For(Taken(E, ref)))
      <3>1. PICK y \in S : N(y) /\ z = Forwarded(y)
        BY Zenon
      <3>2. PICK c \in For(Taken(E, ref)) : c # Nil /\ c.original # << >> /\ z = A(c)
        BY <2>2, <3>1, Zenon
      <3> QED
        BY <1>7, <3>2, Zenon
    <2> QED
      BY <2>3, <2>4, Zenon
  <1>11. Abstract(Beyond(Taken(E, ref))) = {Forwarded(x) : x \in {m \in S : L(m)}}
    <2>1. ASSUME NEW c \in Beyond(Taken(E, ref))
          PROVE  A(c) \in {Forwarded(x) : x \in {m \in S : L(m)}}
      <3>1. PICK e \in E : U(e) # Nil /\ c = U(e) /\ c.libRef # << >>
        BY <1>4, <1>6, Zenon
      <3>2. A(c) = Forwarded(A(e)) /\ L(A(e)) /\ A(e) \in S
        BY <1>1, <1>2, <1>3, <3>1, Zenon
      <3> QED
        BY <3>2, Zenon
    <2>2. ASSUME NEW y \in S, L(y)
          PROVE  \E c \in Beyond(Taken(E, ref)) : c # Nil /\ c.original # << >> /\ Forwarded(y) = A(c)
      <3>1. PICK e \in E : y = A(e) /\ M(A(e)) /\ L(A(e))
        BY <1>2, <1>3, <2>2, Zenon
      <3>2. U(e) # Nil /\ U(e).original # << >> /\ A(U(e)) = Forwarded(y) /\ U(e).libRef # << >>
        BY <1>1, <3>1, Zenon
      <3>3. U(e) \in Beyond(Taken(E, ref))
        BY <1>4, <1>6, <3>2, Zenon
      <3> QED
        BY <3>2, <3>3, Zenon
    <2>3. ASSUME NEW z \in Abstract(Beyond(Taken(E, ref)))
          PROVE  z \in {Forwarded(x) : x \in {m \in S : L(m)}}
      <3>1. PICK c \in Beyond(Taken(E, ref)) : z = A(c)
        BY <1>7, Zenon
      <3> QED
        BY <2>1, <3>1, Zenon
    <2>4. ASSUME NEW z \in {Forwarded(x) : x \in {m \in S : L(m)}}
          PROVE  z \in Abstract(Beyond(Taken(E, ref)))
      <3>1. PICK y \in S : L(y) /\ z = Forwarded(y)
        BY Zenon
      <3>2. PICK c \in Beyond(Taken(E, ref)) : c # Nil /\ c.original # << >> /\ z = A(c)
        BY <2>2, <3>1, Zenon
      <3> QED
        BY <1>7, <3>2, Zenon
    <2> QED
      BY <2>3, <2>4, Zenon
  <1> QED
    BY <1>5, <1>9, <1>10, <1>11, Zenon DEF S

\* What is taken of two sets.
LEMMA TakenUnion ==
  ASSUME NEW D, NEW E, NEW ref
  PROVE  /\ Taken(D \cup E, ref) = Taken(D, ref) \cup Taken(E, ref)
         /\ For(D \cup E) = For(D) \cup For(E) /\ Beyond(D \cup E) = Beyond(D) \cup Beyond(E)
  <1>1. Taken(D \cup E, ref) = Taken(D, ref) \cup Taken(E, ref)
    BY Zenon DEF Taken
  <1>2. For(D \cup E) = For(D) \cup For(E) /\ Beyond(D \cup E) = Beyond(D) \cup Beyond(E)
    BY Zenon DEF For, Beyond
  <1> QED
    BY <1>1, <1>2

\* Documents that templates add are not addressed: every library takes them.
LEMMA AddedTaken ==
  ASSUME NEW E, \A e \in E : e \in Envelope /\ e.libRef = << >>, NEW ref
  PROVE  Taken(E, ref) = E
  <1>1. \A e \in E : UsedInLibrary(e, ref) = e /\ e # Nil
    BY NilAssumption, UsedInLibraryShape
  <1> QED
    BY <1>1, Zenon DEF Taken

-----------------------------------------------------------------------------
(* One execution, as EnvelopeDelivery sees it.                                *)

\* All that an execution posts is addressed.
LEMMA PostedInPost ==
  ASSUME NEW f \in Frame, NEW d, FrameOK(f, d)
  PROVE  /\ \A e \in Posted(f) : InPost(e) /\ e # Nil /\ e.original # << >>
         /\ {x.doc : x \in Abstract(Posted(f))} = Docs(Posted(f))
  <1>1. ASSUME NEW e \in Posted(f) PROVE InPost(e) /\ e # Nil /\ e.original # << >>
    <2>1. e \in Range(f.libValues) \/ e \in Range(f.libSchemas) \ {Nil}
      BY Zenon DEF Posted
    <2>2. Postable(e, "dv", f.run, d) \/ Postable(e, "schema", f.run, d)
      BY <2>1, Zenon DEF FrameOK
    <2> QED
      BY <2>2, PostableInPost
  <1>2. {x.doc : x \in Abstract(Posted(f))} = Docs(Posted(f))
    BY <1>1, AbstractDocs
  <1> QED
    BY <1>1, <1>2

\* The envelopes that a call marks as used.
LEMMA MarkedAre ==
  ASSUME NEW s, NEW ref
  PROVE  {s[k] : k \in Marked(s, ref)} = Takes(Range(s), ref)
  <1>1. Range(s) = {s[k] : k \in DOMAIN s}
    BY Zenon DEF Range
  <1>2. Marked(s, ref) = {k \in DOMAIN s : UsedInLibrary(s[k], ref) # Nil}
    BY Zenon DEF Marked
  <1> QED
    BY <1>1, <1>2, Zenon DEF Takes

\* What is taken of two sets, for the envelopes that are marked.
LEMMA TakesUnion ==
  ASSUME NEW D, NEW E, NEW ref
  PROVE  Takes(D \cup E, ref) = Takes(D, ref) \cup Takes(E, ref)
  BY Zenon DEF Takes

\* Marking envelopes only changes which ones are used.
LEMMA SeenMarking ==
  ASSUME NEW f \in Frame, NEW A, NEW B
  PROVE  LET M == {f.libValues[k] : k \in B} \cup {f.libSchemas[k] : k \in A}
         IN  Seen(Marking(f, A, B)) = [Seen(f) EXCEPT !.used = @ \cup Abstract(M)]
  <1> DEFINE g == Marking(f, A, B)
             V(S) == {f.libValues[k] : k \in S}
             W(S) == {f.libSchemas[k] : k \in S}
  <1>1. /\ g.ref = f.ref /\ g.values = f.values /\ g.schema = f.schema
        /\ g.libValues = f.libValues /\ g.libSchemas = f.libSchemas
        /\ g.usedValues = f.usedValues \cup B /\ g.usedSchemas = f.usedSchemas \cup A
    BY DEF Marking, Frame
  <1>2. Posted(g) = Posted(f)
    BY <1>1 DEF Posted
  <1>3. V(f.usedValues \cup B) \cup W(f.usedSchemas \cup A)
          = (V(f.usedValues) \cup W(f.usedSchemas)) \cup (V(B) \cup W(A))
    BY Zenon
  <1> HIDE DEF g
  <1>4. Seen(g) = [ref |-> f.ref, inbox |-> Abstract(Range(f.values) \cup Range(f.schema)),
                   posted |-> Abstract(Posted(f)),
                   used |-> Abstract(V(f.usedValues \cup B) \cup W(f.usedSchemas \cup A))]
    BY <1>1, <1>2, Zenon DEF Seen
  <1>5. Seen(f) = [ref |-> f.ref, inbox |-> Abstract(Range(f.values) \cup Range(f.schema)),
                   posted |-> Abstract(Posted(f)),
                   used |-> Abstract(V(f.usedValues) \cup W(f.usedSchemas))]
    BY Zenon DEF Seen
  <1>6. Abstract(V(f.usedValues \cup B) \cup W(f.usedSchemas \cup A))
          = Abstract(V(f.usedValues) \cup W(f.usedSchemas)) \cup Abstract(V(B) \cup W(A))
    BY <1>3, AbstractUnion, Zenon
  <1> HIDE DEF V, W
  <1>7. Seen(g) = [Seen(f) EXCEPT !.used = @ \cup Abstract(V(B) \cup W(A))]
    <2> DEFINE s == Seen(f)
               r == f.ref
               i == Abstract(Range(f.values) \cup Range(f.schema))
               p == Abstract(Posted(f))
               u == Abstract(V(f.usedValues) \cup W(f.usedSchemas))
               m == Abstract(V(B) \cup W(A))
    <2>1. s = [ref |-> r, inbox |-> i, posted |-> p, used |-> u]
      BY <1>5
    <2>2. Seen(g) = [ref |-> r, inbox |-> i, posted |-> p, used |-> u \cup m]
      BY <1>4, <1>6, Zenon
    <2> HIDE DEF s, r, i, p, u, m
    <2>3. [s EXCEPT !.used = @ \cup m]
            = [ref |-> r, inbox |-> i, posted |-> p, used |-> u \cup m]
      BY <2>1
    <2>4. Seen(g) = [s EXCEPT !.used = @ \cup m]
      BY <2>2, <2>3, Zenon
    <2> QED
      BY <2>4 DEF s, m
  <1> QED
    BY <1>7 DEF g, V, W

\* A new instance changes nothing that EnvelopeDelivery sees.
LEMMA SeenAdding ==
  ASSUME NEW f \in Frame, NEW inst
  PROVE  Seen(Adding(f, inst)) = Seen(f)
  <1> DEFINE g == Adding(f, inst)
  <1>1. /\ g.ref = f.ref /\ g.values = f.values /\ g.schema = f.schema
        /\ g.libValues = f.libValues /\ g.libSchemas = f.libSchemas
        /\ g.usedValues = f.usedValues /\ g.usedSchemas = f.usedSchemas
    BY DEF Adding, Frame
  <1>2. Posted(g) = Posted(f)
    BY <1>1 DEF Posted
  <1> HIDE DEF g
  <1>3. Seen(g) = Seen(f)
    BY <1>1, <1>2, Zenon DEF Seen
  <1> QED
    BY <1>3 DEF g

\* When everything was used, it is seen so.
LEMMA SeenAllUsed ==
  ASSUME NEW f \in Frame, f.usedValues = DOMAIN f.libValues,
         f.usedSchemas = DOMAIN f.libSchemas
  PROVE  Seen(f).posted = Seen(f).used
  <1> DEFINE R == Range(f.libValues) \cup Range(f.libSchemas)
  <1>1. {f.libValues[k] : k \in f.usedValues} \cup {f.libSchemas[k] : k \in f.usedSchemas} = R
    BY Zenon DEF Range
  <1>2. Posted(f) = R \ {Nil}
    BY Zenon DEF Posted
  <1> HIDE DEF R
  <1>3. Abstract(R \ {Nil}) = Abstract(R)
    BY Zenon DEF Abstract
  <1> QED
    BY <1>1, <1>2, <1>3, Zenon DEF Seen

-----------------------------------------------------------------------------
(* The documents that a library declares.                                     *)

Identity(kind, via, run, k) == [run |-> run, kind |-> kind, via |-> via, pos |-> k]

\* The addressed ones among docs, with their addresses.
Letters(docs, kind, via, run) ==
  {[doc |-> Identity(kind, via, run, k), original |-> docs[k].address] :
     k \in {j \in DOMAIN docs : docs[j].address # << >>}}

\* The letters of a set of envelopes.
LettersIn(E) == {[doc |-> e.doc, original |-> e.original] : e \in E}

\* The envelopes around documents: the addressed ones are the letters.
LEMMA NewLetters ==
  ASSUME NEW docs, NEW kind, NEW via, NEW run, NEW depth
  PROVE  LET E == Range(NewEnvelopes(docs, kind, via, run, depth))
         IN  /\ LettersIn(Beyond(E)) = Letters(docs, kind, via, run)
             /\ \A e \in For(E) : e.original = << >>
             /\ \A e \in Beyond(E) : e.doc.run = run /\ e.depth = depth
                                     /\ e.libRef = e.original /\ e.original # << >>
  <1> DEFINE s == NewEnvelopes(docs, kind, via, run, depth)
             E == Range(s)
             P == {j \in DOMAIN docs : docs[j].address # << >>}
             I(k) == Identity(kind, via, run, k)
             B(k) == [doc |-> I(k), original |-> docs[k].address]
             b(e) == [doc |-> e.doc, original |-> e.original]
  <1>1. /\ DOMAIN s = DOMAIN docs
        /\ \A k \in DOMAIN docs :
             s[k] = [doc |-> I(k), depth |-> depth, after |-> docs[k].after,
                     original |-> docs[k].address, libRef |-> docs[k].address]
    BY Zenon DEF NewEnvelopes, Identity
  <1>2. \A k \in DOMAIN docs :
          /\ s[k].doc = I(k) /\ s[k].depth = depth /\ s[k].original = docs[k].address
          /\ s[k].libRef = docs[k].address
    BY <1>1
  <1>3. \A k : I(k).run = run
    BY DEF Identity
  <1>4. E = {s[k] : k \in DOMAIN docs}
    BY <1>1, Zenon DEF Range
  <1>5. /\ \A e : e \in Beyond(E) <=> e \in E /\ e.libRef # << >>
        /\ \A e : e \in For(E) <=> e \in E /\ e.libRef = << >>
    BY Zenon DEF Beyond, For
  <1>6. \A k : k \in P <=> k \in DOMAIN docs /\ docs[k].address # << >>
    BY Zenon
  <1>7. LettersIn(Beyond(E)) = {b(e) : e \in Beyond(E)}
    BY Zenon DEF LettersIn
  <1>8. Letters(docs, kind, via, run) = {B(k) : k \in P}
    BY Zenon DEF Letters
  <1>9. \A k \in DOMAIN docs : b(s[k]) = B(k)
    BY <1>2, Zenon
  <1> HIDE DEF s, E, P, I, B, b
  <1>10. ASSUME NEW e \in Beyond(E) PROVE \E k \in P : e = s[k]
    <2>1. PICK k \in DOMAIN docs : e = s[k]
      BY <1>4, <1>5, Zenon
    <2> QED
      BY <1>2, <1>5, <1>6, <2>1, Zenon
  <1>11. ASSUME NEW k \in P PROVE s[k] \in Beyond(E) /\ k \in DOMAIN docs
    BY <1>2, <1>4, <1>5, <1>6, Zenon
  <1>12. {b(e) : e \in Beyond(E)} = {B(k) : k \in P}
    <2>1. ASSUME NEW e \in Beyond(E) PROVE \E k \in P : b(e) = B(k)
      BY <1>6, <1>9, <1>10, Zenon
    <2>2. ASSUME NEW k \in P PROVE \E e \in Beyond(E) : b(e) = B(k)
      BY <1>9, <1>11, Zenon
    <2> QED
      BY <2>1, <2>2, Zenon
  <1>13. ASSUME NEW e \in For(E) PROVE e.original = << >>
    <2>1. e.libRef = << >> /\ \E k \in DOMAIN docs : e = s[k]
      BY <1>4, <1>5, Zenon
    <2> QED
      BY <1>2, <2>1, Zenon
  <1>14. ASSUME NEW e \in Beyond(E)
         PROVE  e.doc.run = run /\ e.depth = depth /\ e.libRef = e.original /\ e.original # << >>
    <2>1. PICK k \in P : e = s[k]
      BY <1>10, Zenon
    <2>2. k \in DOMAIN docs /\ docs[k].address # << >>
      BY <1>6, Zenon
    <2> QED
      BY <1>2, <1>3, <2>1, <2>2, Zenon
  <1>15. LettersIn(Beyond(E)) = Letters(docs, kind, via, run)
    BY <1>7, <1>8, <1>12, Zenon
  <1> QED
    BY <1>13, <1>14, <1>15, Zenon DEF E, s

\* A document has one address.
LEMMA LettersUnique ==
  ASSUME NEW docs, NEW kind, NEW via, NEW run
  PROVE  \A m \in Letters(docs, kind, via, run) :
           /\ m.doc.run = run /\ m.doc.kind = kind /\ m.doc.via = via
           /\ m = [doc |-> m.doc, original |-> docs[m.doc.pos].address]
  <1> SUFFICES ASSUME NEW m \in Letters(docs, kind, via, run)
               PROVE  /\ m.doc.run = run /\ m.doc.kind = kind /\ m.doc.via = via
                      /\ m = [doc |-> m.doc, original |-> docs[m.doc.pos].address]
    BY Zenon
  <1>1. PICK k \in DOMAIN docs :
          m = [doc |-> Identity(kind, via, run, k), original |-> docs[k].address]
    BY Zenon DEF Letters
  <1>2. m.doc = Identity(kind, via, run, k)
    BY <1>1
  <1>3. m.doc.pos = k /\ m.doc.run = run /\ m.doc.kind = kind /\ m.doc.via = via
    BY <1>2 DEF Identity
  <1> QED
    BY <1>1, <1>2, <1>3, Zenon

\* The letters of two sets.
LEMMA LettersUnion ==
  ASSUME NEW D, NEW E
  PROVE  LettersIn(D \cup E) = LettersIn(D) \cup LettersIn(E)
  BY Zenon DEF LettersIn

\* Envelopes that have not been handed down are seen as sealed letters.
LEMMA SealedLetters ==
  ASSUME NEW E, NEW depth,
         \A e \in E : e \in Envelope /\ e.depth = depth /\ e.libRef = e.original
                      /\ e.original # << >>
  PROVE  /\ Abstract(E) = Sealed(LettersIn(E), depth)
         /\ {x.doc : x \in Sealed(LettersIn(E), depth)} = Docs(E)
  <1> DEFINE b(e) == [doc |-> e.doc, original |-> e.original]
             S(m) == [doc |-> m.doc, original |-> m.original, depth |-> depth, hop |-> 0]
  <1>1. ASSUME NEW e \in E PROVE AbstractEnvelope(e) = S(b(e)) /\ e # Nil
    <2>1. e \in Envelope /\ e.depth = depth /\ e.libRef = e.original
      OBVIOUS
    <2>2. e.original \in Seq(LibraryRef) /\ e # Nil
      BY <2>1, NilAssumption DEF Envelope
    <2>3. Len(e.original) - Len(e.libRef) = 0
      BY <2>1, <2>2, LenProperties, SMTT(30)
    <2>4. AbstractEnvelope(e)
            = [doc |-> e.doc, original |-> e.original, depth |-> depth, hop |-> 0]
      BY <2>1, <2>3, Zenon DEF AbstractEnvelope
    <2>5. b(e).doc = e.doc /\ b(e).original = e.original
      BY Zenon
    <2> QED
      BY <2>2, <2>4, <2>5, Zenon
  <1>2. LettersIn(E) = {b(e) : e \in E}
    BY Zenon DEF LettersIn
  <1>3. Sealed(LettersIn(E), depth) = {S(m) : m \in LettersIn(E)}
    BY Zenon DEF Sealed
  <1>4. Abstract(E) = {AbstractEnvelope(e) : e \in E}
    BY <1>1, Zenon DEF Abstract
  <1> HIDE DEF b, S
  <1>5. Abstract(E) = {S(m) : m \in LettersIn(E)}
    <2>1. ASSUME NEW e \in E PROVE \E m \in LettersIn(E) : AbstractEnvelope(e) = S(m)
      BY <1>1, <1>2, Zenon
    <2>2. ASSUME NEW m \in LettersIn(E) PROVE \E e \in E : S(m) = AbstractEnvelope(e)
      BY <1>1, <1>2, Zenon
    <2> QED
      BY <1>4, <2>1, <2>2, Zenon
  <1>6. {x.doc : x \in Abstract(E)} = Docs(E)
    BY <1>1, AbstractDocs
  <1> QED
    BY <1>3, <1>5, <1>6, Zenon

\* The addressed documents in the files of a library.
FileLetters(lib, run) == Letters(DataValueDocs[lib], "dv", "file", run)
                           \cup Letters(SchemaDocs[lib], "schema", "file", run)
FilesBeyond(lib, run, depth) ==
  Beyond(Range(ValueFiles(lib, run, depth))) \cup Beyond(Range(SchemaFiles(lib, run, depth)))

\* What an execution posts of the files of its library.
LEMMA FilesPosted ==
  ASSUME NEW lib \in Library, NEW run \in Nat, NEW depth \in Nat
  PROVE  LET F == FilesBeyond(lib, run, depth)
         IN  /\ \A e \in F : e \in Envelope /\ e.depth = depth /\ e.libRef = e.original
                             /\ e.original # << >> /\ e.doc.run = run
             /\ LettersIn(F) = FileLetters(lib, run)
             /\ \A e \in For(Range(ValueFiles(lib, run, depth))) : e.original = << >>
             /\ \A e \in For(Range(SchemaFiles(lib, run, depth))) : e.original = << >>
  <1> DEFINE v == ValueFiles(lib, run, depth)
             s == SchemaFiles(lib, run, depth)
  <1>1. v \in Seq(Envelope) /\ s \in Seq(Envelope)
    BY FilesType, Zenon
  <1>2. Range(v) \subseteq Envelope /\ Range(s) \subseteq Envelope
    BY <1>1, RangeIndex, Zenon
  <1>3. Beyond(Range(v)) \subseteq Envelope /\ Beyond(Range(s)) \subseteq Envelope
    BY <1>2, Zenon DEF Beyond
  <1>4. /\ LettersIn(Beyond(Range(v))) = Letters(DataValueDocs[lib], "dv", "file", run)
        /\ \A e \in For(Range(v)) : e.original = << >>
        /\ \A e \in Beyond(Range(v)) : e.doc.run = run /\ e.depth = depth
                                       /\ e.libRef = e.original /\ e.original # << >>
    BY NewLetters DEF ValueFiles
  <1>5. /\ LettersIn(Beyond(Range(s))) = Letters(SchemaDocs[lib], "schema", "file", run)
        /\ \A e \in For(Range(s)) : e.original = << >>
        /\ \A e \in Beyond(Range(s)) : e.doc.run = run /\ e.depth = depth
                                       /\ e.libRef = e.original /\ e.original # << >>
    BY NewLetters DEF SchemaFiles
  <1>6. FilesBeyond(lib, run, depth) = Beyond(Range(v)) \cup Beyond(Range(s))
    BY Zenon DEF FilesBeyond
  <1> HIDE DEF v, s
  <1>7. LettersIn(FilesBeyond(lib, run, depth)) = FileLetters(lib, run)
    BY <1>4, <1>5, <1>6, LettersUnion, SMTT(30) DEF FileLetters
  <1> QED
    BY <1>3, <1>4, <1>5, <1>6, <1>7, Zenon DEF v, s

\* They are the library's mail, to which the root library adds that of the flags.
LEMMA MailIs ==
  ASSUME NEW lib \in Library, NEW n \in Nat
  PROVE  /\ n = 1 => MailOf(lib, n) = FileLetters(lib, 1) \cup Letters(FlagValues, "dv", "flag", 1)
         /\ n # 1 => MailOf(lib, n) = FileLetters(lib, n)
  <1> DEFINE v == ValueFiles(lib, n, 1)
             s == SchemaFiles(lib, n, 1)
             f == IF n = 1 THEN Flags ELSE << >>
             all == v \o s \o f
  <1>1. v \in Seq(Envelope) /\ s \in Seq(Envelope)
    BY FilesType, 1 \in Nat
  <1>2. f \in Seq(Envelope) /\ (n = 1 => f = Flags) /\ (n # 1 => Range(f) = {})
    BY FlagsShape DEF Range
  <1>3. MailOf(lib, n) = LettersIn(Range(Children(all)))
    BY Zenon DEF MailOf, LettersIn, ValueFiles, SchemaFiles, Flags
  <1>4. LettersIn(Beyond(Range(v)) \cup Beyond(Range(s))) = FileLetters(lib, n)
    <2>1. LettersIn(FilesBeyond(lib, n, 1)) = FileLetters(lib, n)
      BY FilesPosted, 1 \in Nat
    <2> QED
      BY <2>1, Zenon DEF FilesBeyond
  <1>5. LettersIn(Beyond(Range(Flags))) = Letters(FlagValues, "dv", "flag", 1)
    BY NewLetters DEF Flags
  <1> HIDE DEF v, s, f
  <1>6. all \in Seq(Envelope) /\ Range(all) = Range(v) \cup Range(s) \cup Range(f)
    BY <1>1, <1>2, RangeConcat3, SMTT(30)
  <1> HIDE DEF all
  <1>7. Range(Children(all)) = Beyond(Range(all))
    BY <1>6, OwnProperties, Zenon
  <1>8. Beyond(Range(all)) = (Beyond(Range(v)) \cup Beyond(Range(s))) \cup Beyond(Range(f))
    BY <1>6, Zenon DEF Beyond
  <1>9. MailOf(lib, n) = FileLetters(lib, n) \cup LettersIn(Beyond(Range(f)))
    BY <1>3, <1>4, <1>7, <1>8, LettersUnion, SMTT(30)
  <1>10. Range(f) = {} => LettersIn(Beyond(Range(f))) = {}
    BY Zenon DEF LettersIn, Beyond
  <1> QED
    BY <1>2, <1>5, <1>9, <1>10, Zenon

\* In the mail of a library, a document occurs once; all are of its execution.
LEMMA MailUnique ==
  ASSUME NEW lib \in Library, NEW n \in Nat
  PROVE  /\ \A m \in MailOf(lib, n) : m.doc.run = n
         /\ \A m, o \in MailOf(lib, n) : m.doc = o.doc => m = o
  <1> DEFINE V == Letters(DataValueDocs[lib], "dv", "file", n)
             S == Letters(SchemaDocs[lib], "schema", "file", n)
             F == Letters(FlagValues, "dv", "flag", n)
             v(m) == [doc |-> m.doc, original |-> DataValueDocs[lib][m.doc.pos].address]
             s(m) == [doc |-> m.doc, original |-> SchemaDocs[lib][m.doc.pos].address]
             f(m) == [doc |-> m.doc, original |-> FlagValues[m.doc.pos].address]
  <1>1. \A m \in V : m.doc.run = n /\ m.doc.kind = "dv" /\ m.doc.via = "file" /\ m = v(m)
    BY LettersUnique
  <1>2. \A m \in S : m.doc.run = n /\ m.doc.kind = "schema" /\ m.doc.via = "file" /\ m = s(m)
    BY LettersUnique
  <1>3. \A m \in F : m.doc.run = n /\ m.doc.kind = "dv" /\ m.doc.via = "flag" /\ m = f(m)
    BY LettersUnique
  <1>4. \A m \in MailOf(lib, n) : m \in V \/ m \in S \/ m \in F
    <2>1. CASE n = 1
      <3>1. MailOf(lib, n) = FileLetters(lib, 1) \cup Letters(FlagValues, "dv", "flag", 1)
        BY <2>1, MailIs
      <3> QED
        BY <2>1, <3>1, Zenon DEF FileLetters
    <2>2. CASE n # 1
      <3>1. MailOf(lib, n) = FileLetters(lib, n)
        BY <2>2, MailIs
      <3> QED
        BY <3>1, Zenon DEF FileLetters
    <2> QED
      BY <2>1, <2>2, Zenon
  <1>5. ASSUME NEW m, NEW o, m.doc = o.doc
        PROVE  v(m) = v(o) /\ s(m) = s(o) /\ f(m) = f(o)
    BY <1>5, Zenon
  <1> HIDE DEF V, S, F, v, s, f
  <1>6. \A m \in MailOf(lib, n) : m.doc.run = n
    BY <1>1, <1>2, <1>3, <1>4, Zenon
  <1>7. "dv" # "schema" /\ "file" # "flag"
    OBVIOUS
  <1>8. ASSUME NEW m \in MailOf(lib, n), NEW o \in MailOf(lib, n), m.doc = o.doc
        PROVE  m = o
    <2>1. CASE m \in V
      BY <1>1, <1>2, <1>3, <1>4, <1>5, <1>7, <1>8, <2>1, SMTT(30)
    <2>2. CASE m \in S
      BY <1>1, <1>2, <1>3, <1>4, <1>5, <1>7, <1>8, <2>2, Zenon
    <2>3. CASE m \in F
      BY <1>1, <1>2, <1>3, <1>4, <1>5, <1>7, <1>8, <2>3, Zenon
    <2> QED
      BY <1>4, <2>1, <2>2, <2>3, Zenon
  <1> QED
    BY <1>6, <1>8, Zenon

-----------------------------------------------------------------------------
(* What the library below gets.                                               *)

\* Of a list given to an instance, EnvelopeDelivery sees the posted part.
LEMMA GivenTaken ==
  ASSUME NEW p \in Seq(Envelope), NEW a \in Seq(Envelope), NEW ref,
         \A e \in Range(a) : e.libRef = << >> /\ e.original = << >>
  PROVE  LET T == Taken(Range(p \o a), ref)
         IN  /\ Abstract(For(T)) = Abstract(For(Taken(Range(p), ref)))
             /\ Beyond(T) = Beyond(Taken(Range(p), ref))
             /\ T \subseteq Envelope
  <1> DEFINE R == Range(a)
             Q == Taken(Range(p), ref)
             T == Taken(Range(p \o a), ref)
  <1>1. Range(p \o a) = Range(p) \cup R /\ R \subseteq Envelope
    BY RangeConcat, RangeIndex
  <1>2. Taken(R, ref) = R
    BY <1>1, AddedTaken
  <1>3. T = Q \cup R
    <2>1. Taken(Range(p) \cup R, ref) = Q \cup Taken(R, ref)
      BY Zenon DEF Taken
    <2> QED
      BY <1>1, <1>2, <2>1, Zenon
  <1>4. T \subseteq Envelope
    <2>1. p \o a \in Seq(Envelope)
      BY RangeConcat
    <2>2. Found(Copies(p \o a, ref)) \in Seq(Envelope)
          /\ Range(Found(Copies(p \o a, ref))) = T
      BY <2>1, CopiesProperties, Zenon
    <2> QED
      BY <2>2, RangeIndex
  <1> HIDE DEF R, Q, T
  <1>5. For(R) = R /\ Beyond(R) = {}
    BY Zenon DEF For, Beyond, R
  <1>6. For(T) = For(Q) \cup R /\ Beyond(T) = Beyond(Q)
    <2>1. For(Q \cup R) = For(Q) \cup For(R) /\ Beyond(Q \cup R) = Beyond(Q) \cup Beyond(R)
      BY TakenUnion, Zenon
    <2> QED
      BY <1>3, <1>5, <2>1, Zenon
  <1>7. Abstract(R) = {}
    BY AbstractEmpty DEF R
  <1>8. Abstract(For(T)) = Abstract(For(Q))
    <2>1. Abstract(For(Q) \cup R) = Abstract(For(Q)) \cup Abstract(R)
      BY AbstractUnion, Zenon
    <2> QED
      BY <1>6, <1>7, <2>1, Zenon
  <1> QED
    BY <1>4, <1>6, <1>8, SMTT(30) DEF T, Q

\* The same for what a library takes of the data values and of the schemas that
\* the execution f above it posts.
LEMMA PostedTaken ==
  ASSUME NEW f \in Frame, NEW d, FrameOK(f, d), Nil \notin Range(f.libSchemas), NEW ref
  PROVE  LET V == Taken(Range(f.libValues), ref)
             S == Taken(Range(f.libSchemas), ref)
         IN  /\ Abstract(For(V) \cup For(S)) = ArrivedOf(Abstract(Posted(f)), ref)
             /\ Beyond(V) \cup Beyond(S) = Beyond(Taken(Posted(f), ref))
             /\ Abstract(Beyond(V) \cup Beyond(S)) = OnwardOf(Abstract(Posted(f)), ref)
             /\ \A e \in Beyond(V) \cup Beyond(S) :
                  e # Nil /\ e.original # << >> /\ e.doc.run \in Nat /\ e.doc.run <= f.run
  <1> DEFINE P == Posted(f)
             V == Taken(Range(f.libValues), ref)
             S == Taken(Range(f.libSchemas), ref)
  <1>1. P = Range(f.libValues) \cup Range(f.libSchemas)
    <2>1. \A e \in P : e # Nil
      BY PostedInPost
    <2>2. P = (Range(f.libValues) \cup Range(f.libSchemas)) \ {Nil}
      BY Zenon DEF Posted
    <2>3. f.libValues \in Seq(Envelope)
      BY DEF Frame
    <2>4. Nil \notin Range(f.libValues)
      BY <2>3, RangeIndex, NilAssumption, SMTT(30)
    <2> QED
      BY <2>2, <2>4, Zenon
  <1>2. \A e \in P : InPost(e) /\ e # Nil /\ e.original # << >>
    BY PostedInPost
  <1>3. \A e \in P : e.doc.run \in Nat /\ e.doc.run <= f.run
    BY PostedDocs
  <1> HIDE DEF P
  <1>4. V \cup S = Taken(P, ref)
    BY <1>1, Zenon DEF Taken
  <1>5. /\ Abstract(For(Taken(P, ref))) = ArrivedOf(Abstract(P), ref)
        /\ Abstract(Beyond(Taken(P, ref))) = OnwardOf(Abstract(P), ref)
    BY <1>2, HandedDown
  <1> HIDE DEF V, S
  <1>6. For(V) \cup For(S) = For(Taken(P, ref)) /\ Beyond(V) \cup Beyond(S) = Beyond(Taken(P, ref))
    BY <1>4, Zenon DEF For, Beyond
  <1>7. ASSUME NEW c \in Taken(P, ref)
        PROVE  c # Nil /\ c.original # << >> /\ c.doc.run \in Nat /\ c.doc.run <= f.run
    <2>1. PICK e \in P : c = UsedInLibrary(e, ref) /\ c # Nil
      BY Zenon DEF Taken
    <2>2. e \in Envelope /\ e.original # << >> /\ e.doc.run \in Nat /\ e.doc.run <= f.run
      BY <1>2, <1>3, Zenon DEF InPost
    <2>3. c.doc = e.doc /\ c.original = e.original
      BY <2>1, <2>2, UsedInLibraryShape, SMTT(30)
    <2> QED
      BY <2>1, <2>2, <2>3, Zenon
  <1>8. \A c \in Beyond(Taken(P, ref)) : c \in Taken(P, ref)
    BY Zenon DEF Beyond
  <1>9. /\ Abstract(For(V) \cup For(S)) = ArrivedOf(Abstract(P), ref)
        /\ Abstract(Beyond(V) \cup Beyond(S)) = OnwardOf(Abstract(P), ref)
    BY <1>5, <1>6, Zenon
  <1>10. \A e \in Beyond(V) \cup Beyond(S) :
           e # Nil /\ e.original # << >> /\ e.doc.run \in Nat /\ e.doc.run <= f.run
    BY <1>6, <1>7, <1>8, Zenon
  <1> QED
    BY <1>6, <1>9, <1>10, Zenon DEF P, V, S

\* The documents that the library of instance inst merges and those that it
\* posts: of its own files, and of what execution f above it posts.
ChildGets(f, inst, run, depth) ==
  LET lib == Private[f.lib][inst.path]
      S == SchemasFor(f, inst, run, depth)
      V == ValuesFor(f, inst, run, depth)
      TV == Taken(Range(f.libValues), Ref(inst))
      TS == Taken(Range(f.libSchemas), Ref(inst))
  IN  /\ Abstract(Range(V.own)) = Abstract(For(TV))
      /\ Abstract(Range(S.own)) = Abstract(For(TS))
      /\ Range(V.own) \subseteq Envelope /\ Range(S.own) \subseteq Envelope
      /\ Range(V.children) \ {Nil} = Beyond(Range(ValueFiles(lib, run, depth))) \cup Beyond(TV)
      /\ Range(S.children) \ {Nil} = Beyond(Range(SchemaFiles(lib, run, depth))) \cup Beyond(TS)
      /\ lib \in Library

\* What a library gets, by the execution of the one above.
LEMMA ChildSets ==
  ASSUME NEW f \in Frame, NEW d \in Nat, FrameOK(f, d), Nil \notin Range(f.libSchemas),
         NEW i \in DOMAIN f.instances, NEW run \in Nat
  PROVE  ChildGets(f, f.instances[i], run, d + 1)
  <1> DEFINE inst == f.instances[i]
             lib == Private[f.lib][inst.path]
             ref == Ref(inst)
             lv == f.libValues
             ls == f.libSchemas
             av == inst.added
             as == inst.addedSchemas
             S == SchemasFor(f, inst, run, d + 1)
             V == ValuesFor(f, inst, run, d + 1)
             FV == Range(ValueFiles(lib, run, d + 1))
             FS == Range(SchemaFiles(lib, run, d + 1))
             TV == Taken(Range(lv), ref)
             TS == Taken(Range(ls), ref)
             GV == Taken(Range(lv \o av), ref)
             GS == Taken(Range(ls \o as), ref)
             D == Range(DefaultDataValues(S.own, run, d + 1))
  <1>1. /\ inst \in InstanceValue /\ lib \in Library /\ f.run \in Nat
        /\ GivenList(lv \o av, "dv", f.run, d) /\ GivenList(ls \o as, "schema", f.run, d)
    BY GivenLists, Zenon
  <1>2. av \in Seq(Envelope) /\ as \in Seq(Envelope) /\ lv \in Seq(Envelope)
    BY <1>1, Zenon DEF InstanceValue, Frame
  <1>3. ls \in Seq(Envelope)
    <2>1. ls \in Seq(Envelope \cup {Nil})
      BY Zenon DEF Frame
    <2>2. Range(ls) \subseteq Envelope
      BY <2>1, RangeIndex
    <2> QED
      BY <2>1, <2>2, SequenceOver, SMTT(30)
  <1>4. /\ \A e \in Range(av) : e.libRef = << >> /\ e.original = << >>
        /\ \A e \in Range(as) : e.libRef = << >> /\ e.original = << >>
    <2>1. InstanceOK(inst, f, d)
      BY Zenon DEF FrameOK
    <2> QED
      BY <2>1, Zenon DEF InstanceOK, Addable
  <1>5. /\ S = librarySchemas(ls \o as, ref, lib, run, d + 1)
        /\ V = libraryValues(lv \o av, ref, lib, S.own, run, d + 1)
    BY Zenon DEF SchemasFor, ValuesFor
  <1>6. lv \o av \in Seq(Envelope) /\ ls \o as \in Seq(Envelope) /\ d + 1 \in Nat
    BY <1>2, <1>3, RangeConcat, SMTT(30)
  <1>7. /\ Abstract(For(GV)) = Abstract(For(TV)) /\ Beyond(GV) = Beyond(TV)
        /\ GV \subseteq Envelope
    BY <1>2, <1>4, GivenTaken, Zenon
  <1>8. /\ Abstract(For(GS)) = Abstract(For(TS)) /\ Beyond(GS) = Beyond(TS)
        /\ GS \subseteq Envelope
    BY <1>2, <1>3, <1>4, GivenTaken, Zenon
  <1>9. /\ \A e \in For(FV) : e.original = << >>
        /\ \A e \in For(FS) : e.original = << >>
    <2> HIDE DEF lib
    <2> QED
      BY <1>1, <1>6, FilesPosted, SMTT(30)
  <1> HIDE DEF inst, lib, ref, lv, ls, av, as, S, V, FV, FS, TV, TS, GV, GS, D
  <1>10. Composed(S, Schemas(lib, Own(TakenList(ls \o as, ref)), run, d + 1),
                  Onward(ls \o as, ref), For(FS) \cup For(GS), Beyond(FS) \cup Beyond(GS))
    BY <1>1, <1>5, <1>6, LibrarySchemasSets, Zenon DEF FS, GS
  <1>11. /\ Range(S.own) = For(FS) \cup For(GS) /\ S.own \in Seq(Envelope)
         /\ Range(S.children) \ {Nil} = Beyond(FS) \cup Beyond(GS)
    BY <1>10, Zenon DEF Composed
  <1>12. Composed(V, Values(lib, Overlays(lv \o av, ref), S.own, run, d + 1),
                  Children(TakenList(lv \o av, ref)),
                  D \cup For(FV) \cup For(GV), Beyond(FV) \cup Beyond(GV))
    BY <1>1, <1>5, <1>6, <1>11, LibraryValuesSets, Zenon DEF FV, GV, D
  <1>13. /\ Range(V.own) = D \cup For(FV) \cup For(GV) /\ V.own \in Seq(Envelope)
         /\ Range(V.children) \ {Nil} = Beyond(FV) \cup Beyond(GV)
    BY <1>12, Zenon DEF Composed
  <1>14. \A e \in D : e.original = << >>
    <2>1. IsDefaults(DefaultDataValues(S.own, run, d + 1), S.own, run, d + 1)
      BY <1>6, <1>11, DefaultsShape, SMTT(30)
    <2> QED
      BY <2>1, Zenon DEF IsDefaults, Fresh, D
  <1>15. Abstract(D \cup For(FV)) = {} /\ Abstract(For(FS)) = {}
    <2>1. \A e \in D \cup For(FV) : e.original = << >>
      BY <1>9, <1>14, Zenon
    <2> QED
      BY <1>9, <2>1, AbstractEmpty, SMTT(30)
  <1>16. Abstract(Range(V.own)) = Abstract(For(TV))
    <2>1. Abstract((D \cup For(FV)) \cup For(GV)) = Abstract(D \cup For(FV)) \cup Abstract(For(GV))
      BY AbstractUnion
    <2> QED
      BY <1>7, <1>13, <1>15, <2>1, Zenon
  <1>17. Abstract(Range(S.own)) = Abstract(For(TS))
    <2>1. Abstract(For(FS) \cup For(GS)) = Abstract(For(FS)) \cup Abstract(For(GS))
      BY AbstractUnion
    <2> QED
      BY <1>8, <1>11, <1>15, <2>1, Zenon
  <1>18. Range(V.own) \subseteq Envelope /\ Range(S.own) \subseteq Envelope
    BY <1>11, <1>13, RangeIndex, Zenon
  <1> QED
    BY <1>1, <1>7, <1>8, <1>11, <1>13, <1>16, <1>17, <1>18, Zenon
    DEF ChildGets, inst, lib, ref, lv, ls, S, V, FV, FS, TV, TS

\* The documents of envelopes that EnvelopeDelivery sees.
SeenDocs(P) == {x.doc : x \in P}

\* The documents with an address among envelopes.
LEMMA AddressedAre ==
  ASSUME NEW s, Range(s) \subseteq Envelope
  PROVE  AddressedDocs(s) = SeenDocs(Abstract(Range(s)))
  <1> DEFINE E == {e \in Range(s) : e.original # << >>}
  <1>1. \A e \in E : e # Nil /\ e.original # << >>
    BY NilAssumption, Zenon
  <1>2. Abstract(Range(s)) = Abstract(E)
    BY <1>1, Zenon DEF Abstract
  <1>3. AddressedDocs(s) = Docs(E)
    BY Zenon DEF AddressedDocs, Docs
  <1> HIDE DEF E
  <1>4. {x.doc : x \in Abstract(E)} = Docs(E)
    BY <1>1, AbstractDocs, Zenon
  <1> QED
    BY <1>2, <1>3, <1>4, Zenon DEF SeenDocs

\* The envelopes X that an execution starts to hold, seen: those passed on and
\* those of its library's own files, with the documents of each.
PostIs(X, onward, mail, run) ==
  /\ Abstract(X) = onward \cup mail
  /\ Docs({x \in X : x.doc.run = run}) = SeenDocs(mail)
  /\ Docs({x \in X : x.doc.run # run}) = SeenDocs(onward)

\* The post of the library below: the documents of its own execution are its
\* mail, the others were handed down.
LEMMA ChildPost ==
  ASSUME NEW f \in Frame, NEW d \in Nat, FrameOK(f, d), Nil \notin Range(f.libSchemas),
         NEW i \in DOMAIN f.instances, NEW run \in Nat, f.run < run, run # 1
  PROVE  LET inst == f.instances[i]
             S == SchemasFor(f, inst, run, d + 1)
             V == ValuesFor(f, inst, run, d + 1)
             X == (Range(V.children) \cup Range(S.children)) \ {Nil}
             P == Abstract(Posted(f))
             mail == Sealed(MailOf(Private[f.lib][inst.path], run), d + 1)
         IN  PostIs(X, OnwardOf(P, Ref(inst)), mail, run)
  <1> DEFINE inst == f.instances[i]
             lib == Private[f.lib][inst.path]
             ref == Ref(inst)
             S == SchemasFor(f, inst, run, d + 1)
             V == ValuesFor(f, inst, run, d + 1)
             X == (Range(V.children) \cup Range(S.children)) \ {Nil}
             P == Abstract(Posted(f))
             TV == Taken(Range(f.libValues), ref)
             TS == Taken(Range(f.libSchemas), ref)
             F == FilesBeyond(lib, run, d + 1)
             B == Beyond(TV) \cup Beyond(TS)
             mail == Sealed(MailOf(lib, run), d + 1)
  <1>1. /\ Range(V.children) \ {Nil} = Beyond(Range(ValueFiles(lib, run, d + 1))) \cup Beyond(TV)
        /\ Range(S.children) \ {Nil} = Beyond(Range(SchemaFiles(lib, run, d + 1))) \cup Beyond(TS)
        /\ lib \in Library
    <2>1. ChildGets(f, inst, run, d + 1)
      BY ChildSets
    <2> QED
      BY <2>1, Zenon DEF ChildGets
  <1>2. X = F \cup B
    BY <1>1, Zenon DEF FilesBeyond
  <1>3. /\ Abstract(B) = OnwardOf(P, ref)
        /\ \A e \in B : e # Nil /\ e.original # << >> /\ e.doc.run \in Nat /\ e.doc.run <= f.run
    BY PostedTaken, Zenon
  <1>4. d + 1 \in Nat /\ f.run \in Nat
    BY DEF Frame
  <1> HIDE DEF inst, lib, ref, S, V, X, P, TV, TS, F, B
  <1>5. /\ \A e \in F : e \in Envelope /\ e.depth = d + 1 /\ e.libRef = e.original
                        /\ e.original # << >> /\ e.doc.run = run
        /\ LettersIn(F) = FileLetters(lib, run)
    BY <1>1, <1>4, FilesPosted, SMTT(30) DEF F
  <1>6. MailOf(lib, run) = LettersIn(F)
    BY <1>1, <1>5, MailIs, SMTT(30)
  <1>7. Abstract(F) = mail /\ {x.doc : x \in mail} = Docs(F)
    BY <1>5, <1>6, SealedLetters, SMTT(30)
  <1>8. \A e \in B : e.doc.run # run
    BY <1>3, <1>4
  <1>9. {x \in X : x.doc.run = run} = F /\ {x \in X : x.doc.run # run} = B
    BY <1>2, <1>5, <1>8, Zenon
  <1>10. {x.doc : x \in Abstract(B)} = Docs(B)
    BY <1>3, AbstractDocs
  <1> HIDE DEF mail
  <1>11. Abstract(X) = OnwardOf(P, ref) \cup mail
    <2>1. Abstract(F \cup B) = Abstract(F) \cup Abstract(B)
      BY AbstractUnion
    <2> QED
      BY <1>2, <1>3, <1>7, <2>1, Zenon
  <1>12. /\ Docs({x \in X : x.doc.run = run}) = SeenDocs(mail)
         /\ Docs({x \in X : x.doc.run # run}) = SeenDocs(OnwardOf(P, ref))
    BY <1>3, <1>7, <1>9, <1>10, Zenon DEF SeenDocs
  <1>13. PostIs(X, OnwardOf(P, ref), mail, run)
    BY <1>11, <1>12, Zenon DEF PostIs
  <1> QED
    BY <1>13, Zenon DEF inst, lib, ref, S, V, X, P, mail

\* The envelopes that arrive.
LEMMA ChildInbox ==
  ASSUME NEW f \in Frame, NEW d \in Nat, FrameOK(f, d), Nil \notin Range(f.libSchemas),
         NEW i \in DOMAIN f.instances, NEW run \in Nat
  PROVE  LET inst == f.instances[i]
             S == SchemasFor(f, inst, run, d + 1)
             V == ValuesFor(f, inst, run, d + 1)
             A == ArrivedOf(Abstract(Posted(f)), Ref(inst))
         IN  /\ Abstract(Range(V.own) \cup Range(S.own)) = A
             /\ AddressedDocs(S.own) \cup AddressedDocs(V.own) = SeenDocs(A)
  <1> DEFINE inst == f.instances[i]
             ref == Ref(inst)
             S == SchemasFor(f, inst, run, d + 1)
             V == ValuesFor(f, inst, run, d + 1)
             A == ArrivedOf(Abstract(Posted(f)), ref)
             TV == Taken(Range(f.libValues), ref)
             TS == Taken(Range(f.libSchemas), ref)
  <1>1. /\ Abstract(Range(V.own)) = Abstract(For(TV))
        /\ Abstract(Range(S.own)) = Abstract(For(TS))
        /\ Range(V.own) \subseteq Envelope /\ Range(S.own) \subseteq Envelope
    <2>1. ChildGets(f, inst, run, d + 1)
      BY ChildSets
    <2> QED
      BY <2>1, Zenon DEF ChildGets
  <1>2. Abstract(For(TV) \cup For(TS)) = A
    BY PostedTaken, Zenon
  <1> HIDE DEF inst, ref, S, V, A, TV, TS
  <1>3. /\ Abstract(Range(V.own) \cup Range(S.own)) = Abstract(Range(V.own)) \cup Abstract(Range(S.own))
        /\ Abstract(For(TV) \cup For(TS)) = Abstract(For(TV)) \cup Abstract(For(TS))
    BY AbstractUnion
  <1>4. /\ AddressedDocs(V.own) = SeenDocs(Abstract(Range(V.own)))
        /\ AddressedDocs(S.own) = SeenDocs(Abstract(Range(S.own)))
    BY <1>1, AddressedAre
  <1>5. Abstract(Range(V.own) \cup Range(S.own)) = A
    BY <1>1, <1>2, <1>3, Zenon
  <1>6. A = Abstract(Range(V.own)) \cup Abstract(Range(S.own))
    BY <1>3, <1>5, Zenon
  <1>7. AddressedDocs(S.own) \cup AddressedDocs(V.own) = SeenDocs(A)
    BY <1>4, <1>6, Zenon DEF SeenDocs
  <1> QED
    BY <1>5, <1>7, Zenon DEF inst, ref, S, V, A

\* Execution g starts, with the schemas S and the data values V.
StartsWith(g, ref, S, V) ==
  LET X == (Range(V.children) \cup Range(S.children)) \ {Nil}
  IN  /\ Posted(g) = X
      /\ Seen(g) = [ref |-> ref, inbox |-> Abstract(Range(V.own) \cup Range(S.own)),
                    posted |-> Abstract(X), used |-> {}]

\* What EnvelopeDelivery sees of an execution that starts.
LEMMA SeenExecution ==
  ASSUME NEW lib, NEW ref, NEW call, NEW skip, NEW S, NEW V, NEW run
  PROVE  StartsWith(Execution(lib, ref, call, skip, S, V, run), ref, S, V)
  <1> DEFINE g == Execution(lib, ref, call, skip, S, V, run)
             X == (Range(V.children) \cup Range(S.children)) \ {Nil}
  <1>1. /\ g.ref = ref /\ g.schema = S.own /\ g.values = V.own
        /\ g.libSchemas = S.children /\ g.libValues = V.children
        /\ g.usedSchemas = {} /\ g.usedValues = {}
    BY DEF Execution
  <1> HIDE DEF g
  <1>2. Posted(g) = X
    BY <1>1, Zenon DEF Posted
  <1>3. {g.libValues[k] : k \in g.usedValues} \cup {g.libSchemas[k] : k \in g.usedSchemas} = {}
    BY <1>1, Zenon
  <1>4. Abstract({}) = {}
    BY Zenon DEF Abstract
  <1> HIDE DEF X
  <1>5. Seen(g) = [ref |-> ref, inbox |-> Abstract(Range(V.own) \cup Range(S.own)),
                   posted |-> Abstract(X), used |-> {}]
    BY <1>1, <1>2, <1>3, <1>4, Zenon DEF Seen
  <1> QED
    BY <1>2, <1>5, Zenon DEF g, X, StartsWith

\* The root library has nothing in its inbox, and posts its mail.
LEMMA RootSets ==
  LET X == (Range(RootValues.children) \cup Range(RootSchemas.children)) \ {Nil}
      mail == Sealed(MailOf(RootLibrary, 1), 1)
  IN  /\ Abstract(Range(RootValues.own) \cup Range(RootSchemas.own)) = {}
      /\ Abstract(X) = mail /\ Docs(X) = SeenDocs(mail)
  <1> DEFINE o == Own(Flags)
             c == Children(Flags)
             S == RootSchemas
             G == RootFound
             V == RootValues
             sf == SchemaFiles(RootLibrary, 1, 1)
             vf == ValueFiles(RootLibrary, 1, 1)
             df == DefaultDataValues(S.own, 1, 1)
             F == FilesBeyond(RootLibrary, 1, 1)
             B == Beyond(Range(Flags))
             X == (Range(V.children) \cup Range(S.children)) \ {Nil}
             mail == Sealed(MailOf(RootLibrary, 1), 1)
  <1>1. RootLibrary \in Library /\ 1 \in Nat /\ << >> \in Seq(Envelope)
    BY TreeAssumption
  <1>2. Range(<< >>) = {} /\ Beyond({}) = {}
    BY DEF Range, Beyond
  <1>3. S = Schemas(RootLibrary, << >>, 1, 1) /\ G = Values(RootLibrary, o, S.own, 1, 1)
    BY Zenon DEF RootSchemas, RootFound
  <1>4. V.own = G.own /\ V.children = G.children \o c
    BY DEF RootValues, RootFound, Values
  <1>5. /\ Flags \in Seq(Envelope) /\ o \in Seq(Envelope) /\ Range(o) = For(Range(Flags))
        /\ c \in Seq(Envelope) /\ Range(c) = B
    BY FlagsShape, OwnProperties, SMTT(30)
  <1>6. Beyond(Range(o)) = {}
    BY <1>5, Zenon DEF For, Beyond
  <1>7. /\ \A e \in F : e \in Envelope /\ e.depth = 1 /\ e.libRef = e.original
                        /\ e.original # << >> /\ e.doc.run = 1
        /\ LettersIn(F) = FileLetters(RootLibrary, 1)
        /\ \A e \in For(Range(vf)) : e.original = << >>
        /\ \A e \in For(Range(sf)) : e.original = << >>
    BY <1>1, FilesPosted, SMTT(30)
  <1>8. /\ LettersIn(B) = Letters(FlagValues, "dv", "flag", 1)
        /\ \A e \in For(Range(Flags)) : e.original = << >>
        /\ \A e \in B : e.depth = 1 /\ e.libRef = e.original /\ e.original # << >>
    BY NewLetters DEF Flags
  <1>9. B \subseteq Envelope
    <2>1. Range(Flags) \subseteq Envelope
      BY <1>5, RangeIndex, SMTT(30)
    <2> QED
      BY <2>1, Zenon DEF Beyond
  <1>10. F = Beyond(Range(vf)) \cup Beyond(Range(sf))
    BY Zenon DEF FilesBeyond
  <1>11. S.own \in Seq(Envelope)
    BY RootSchemasOK DEF ResultOK
  <1> HIDE DEF o, c, S, G, V, sf, vf, df, F, B, mail
  <1>12. TakesApart(S, sf \o << >>, For(Range(sf)) \cup Range(<< >>), Beyond(Range(sf)))
    BY <1>1, <1>2, <1>3, SchemasSets, Zenon DEF sf
  <1>13. TakesApart(G, df \o vf \o o, Range(df) \cup For(Range(vf)) \cup Range(o), Beyond(Range(vf)))
    BY <1>1, <1>3, <1>5, <1>6, <1>11, ValuesSets, SMTT(30) DEF df, vf
  <1>14. /\ Range(S.own) = For(Range(sf)) /\ Range(S.children) = Beyond(Range(sf))
    BY <1>2, <1>12, Zenon DEF TakesApart
  <1>15. /\ Range(V.own) = Range(df) \cup For(Range(vf)) \cup For(Range(Flags))
         /\ G.children \in Seq(Envelope) /\ Range(G.children) = Beyond(Range(vf))
    BY <1>4, <1>5, <1>13, Zenon DEF TakesApart
  <1>16. Range(V.children) = Beyond(Range(vf)) \cup B
    BY <1>4, <1>5, <1>15, RangeConcat, SMTT(30)
  <1>17. \A e \in Range(df) : e.original = << >>
    <2>1. IsDefaults(df, S.own, 1, 1)
      BY <1>1, <1>11, DefaultsShape, SMTT(30) DEF df
    <2> QED
      BY <2>1, Zenon DEF IsDefaults, Fresh
  <1>18. Abstract(Range(V.own) \cup Range(S.own)) = {}
    <2>1. \A e \in Range(V.own) \cup Range(S.own) : e.original = << >>
      BY <1>7, <1>8, <1>14, <1>15, <1>17, Zenon
    <2> QED
      BY <2>1, AbstractEmpty
  <1>19. X = F \cup B
    <2>1. Range(V.children) \cup Range(S.children) = F \cup B
      BY <1>10, <1>14, <1>16, Zenon
    <2>2. Nil \notin F \cup B
      BY <1>7, <1>9, NilAssumption, Zenon
    <2> QED
      BY <2>1, <2>2, Zenon
  <1> HIDE DEF X
  <1>20. LettersIn(X) = MailOf(RootLibrary, 1)
    <2>1. LettersIn(F \cup B) = LettersIn(F) \cup LettersIn(B)
      BY LettersUnion
    <2>2. MailOf(RootLibrary, 1) = FileLetters(RootLibrary, 1) \cup Letters(FlagValues, "dv", "flag", 1)
      BY <1>1, MailIs, SMTT(30)
    <2> QED
      BY <1>7, <1>8, <1>19, <2>1, <2>2, Zenon
  <1>21. \A e \in X : e \in Envelope /\ e.depth = 1 /\ e.libRef = e.original /\ e.original # << >>
    BY <1>7, <1>8, <1>9, <1>19, Zenon
  <1>22. /\ Abstract(X) = Sealed(LettersIn(X), 1)
         /\ {x.doc : x \in Sealed(LettersIn(X), 1)} = Docs(X)
    BY <1>21, SealedLetters
  <1> QED
    BY <1>18, <1>20, <1>22, Zenon DEF S, V, X, mail, SeenDocs

=============================================================================
