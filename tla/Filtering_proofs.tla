-------------------------- MODULE Filtering_proofs --------------------------
(***************************************************************************)
(* Facts about filtered sequences, and about the greatest and the least    *)
(* element of a set of numbers.                                            *)
(*                                                                         *)
(* They need induction.  The induction theorems of the library take the    *)
(* induction hypothesis as an operator, which the provers cannot           *)
(* instantiate.  LeastNumber says the same of sets, which they can: the    *)
(* proofs below look at the least number for which a fact fails.           *)
(***************************************************************************)
EXTENDS Filtering, FiniteSetsExt, SequenceTheorems, WellFoundedInduction, TLAPS

\* No sequence of natural numbers decreases for ever.
LEMMA LessIsWellFounded == IsWellFoundedOn({p \in Nat \X Nat : p[1] < p[2]}, Nat)
  <1>1. IsWellFoundedOn(OpToRel(<, Nat), Nat)
    BY NatLessThanWellFounded, Zenon
  <1> QED
    BY <1>1, Zenon DEF OpToRel

\* A set of natural numbers that is not empty has a least element.
LEMMA LeastNumber ==
  ASSUME NEW S \in SUBSET Nat, S # {}
  PROVE  \E n \in S : \A m \in S : n <= m
  <1> DEFINE R == {p \in Nat \X Nat : p[1] < p[2]}
  <1>1. IsWellFoundedOn(R, Nat)
    BY LessIsWellFounded
  <1>2. \E n \in S : \A m \in S : ~ (<<m, n>> \in R)
    <2> HIDE DEF R
    <2> QED
      BY <1>1, WFMin, Zenon
  <1>3. PICK n \in S : \A m \in S : ~ (<<m, n>> \in R)
    BY <1>2
  <1>4. \A m \in S : ~(m < n)
    BY <1>3, Zenon
  <1> QED
    BY <1>4

\* Max and Min of a set that is not empty, and that lies in an interval.
LEMMA MaxOfInterval ==
  ASSUME NEW a \in Int, NEW b \in Int, NEW S \in SUBSET (a .. b), S # {}
  PROVE  Max(S) \in S /\ \A y \in S : y <= Max(S)
  <1> DEFINE D == {b - x : x \in S}
  <1>1. D \in SUBSET Nat /\ D # {}
    <2>1. \A x \in S : x \in a .. b
      OBVIOUS
    <2>2. \A x \in S : b - x \in Nat
      BY <2>1
    <2>3. D # {}
      BY Zenon
    <2> QED
      BY <2>2, <2>3
  <1>2. PICK d \in D : \A m \in D : d <= m
    BY <1>1, LeastNumber, Zenon
  <1>3. PICK x \in S : d = b - x
    BY <1>2
  <1>4. \A y \in S : y <= x
    <2> SUFFICES ASSUME NEW y \in S PROVE y <= x
      OBVIOUS
    <2>1. b - y \in D
      OBVIOUS
    <2>2. b - x <= b - y
      BY <2>1, <1>2, <1>3, Zenon
    <2> QED
      BY <2>2
  <1>5. \E z \in S : \A y \in S : z >= y
    BY <1>4
  <1> QED
    BY <1>5, Zenon DEF Max

\* A nonempty set of integers within an interval has a least element.
LEMMA MinOfInterval ==
  ASSUME NEW a \in Int, NEW b \in Int, NEW S \in SUBSET (a .. b), S # {}
  PROVE  Min(S) \in S /\ \A y \in S : Min(S) <= y
  <1> DEFINE D == {x - a : x \in S}
  <1>1. D \in SUBSET Nat /\ D # {}
    <2>1. \A x \in S : x \in a .. b
      OBVIOUS
    <2>2. \A x \in S : x - a \in Nat
      BY <2>1
    <2>3. D # {}
      BY Zenon
    <2> QED
      BY <2>2, <2>3
  <1>2. PICK d \in D : \A m \in D : d <= m
    BY <1>1, LeastNumber, Zenon
  <1>3. PICK x \in S : d = x - a
    BY <1>2
  <1>4. \A y \in S : x <= y
    <2> SUFFICES ASSUME NEW y \in S PROVE x <= y
      OBVIOUS
    <2>1. y - a \in D
      OBVIOUS
    <2>2. x - a <= y - a
      BY <2>1, <1>2, <1>3
    <2> QED
      BY <2>2
  <1>5. \E z \in S : \A y \in S : z <= y
    BY <1>4
  <1> QED
    BY <1>5, Zenon DEF Min

-----------------------------------------------------------------------------

\* What the loop of Collected does with one more element.
Collect(s, S, r, n) == IF s[n] \in S THEN Append(r, s[n]) ELSE r

\* f[n] is what the loop has collected after n elements.
Loop(f, s, S, len) ==
  f = [n \in 0 .. len |-> IF n = 0 THEN << >> ELSE Collect(s, S, f[n - 1], n)]

\* The loop can be run for any number of elements.
LEMMA LoopExists ==
  ASSUME NEW s, NEW S, NEW len \in Nat
  PROVE  \E f : Loop(f, s, S, len)
  <1> DEFINE Good(n) == \E f : Loop(f, s, S, n)
             Bad == {n \in Nat : ~Good(n)}
  <1>1. Good(0)
    <2> DEFINE f == [m \in 0 .. 0 |-> << >>]
    <2>1. Loop(f, s, S, 0)
      BY DEF Loop
    <2> QED
      BY <2>1
  <1>2. ASSUME NEW n \in Nat, Good(n) PROVE Good(n + 1)
    <2>1. PICK f : Loop(f, s, S, n)
      BY <1>2
    <2> DEFINE g == [m \in 0 .. n + 1 |->
                       IF m <= n THEN f[m] ELSE Collect(s, S, f[n], n + 1)]
    <2>2. ASSUME NEW m \in 0 .. n + 1
          PROVE  g[m] = IF m = 0 THEN << >> ELSE Collect(s, S, g[m - 1], m)
      <3>1. CASE m = 0
        BY <3>1, <2>1 DEF Loop
      <3>2. CASE m # 0 /\ m <= n
        <4>1. m - 1 \in 0 .. n + 1 /\ m - 1 <= n /\ m \in 0 .. n
          BY <3>2
        <4>2. g[m - 1] = f[m - 1] /\ g[m] = f[m]
          BY <4>1, <3>2
        <4>3. f[m] = Collect(s, S, f[m - 1], m)
          BY <4>1, <3>2, <2>1 DEF Loop
        <4> QED
          BY <4>2, <4>3, <3>2
      <3>3. CASE m = n + 1
        <4>1. n \in 0 .. n + 1 /\ n <= n /\ m # 0 /\ m - 1 = n /\ ~(m <= n)
          BY <3>3
        <4>2. g[n] = f[n] /\ g[m] = Collect(s, S, f[n], n + 1)
          BY <4>1
        <4> QED
          BY <4>1, <4>2, <3>3
      <3> QED
        BY <3>1, <3>2, <3>3
    <2>3. Loop(g, s, S, n + 1)
      <3>1. g = [m \in 0 .. n + 1 |-> g[m]]
        OBVIOUS
      <3> HIDE DEF g
      <3> QED
        BY <3>1, <2>2, Zenon DEF Loop
    <2> QED
      BY <2>3
  <1>3. Bad = {}
    <2> SUFFICES ASSUME Bad # {} PROVE FALSE
      OBVIOUS
    <2>1. Bad \in SUBSET Nat
      OBVIOUS
    <2>2. PICK n \in Bad : \A m \in Bad : n <= m
      <3> HIDE DEF Bad
      <3> QED
        BY <2>1, LeastNumber
    <2>3. n \in Nat /\ ~Good(n)
      BY <2>2
    <2> HIDE DEF Good
    <2>4. n # 0
      BY <1>1, <2>3
    <2>5. n - 1 \in Nat /\ n - 1 \notin Bad /\ n - 1 + 1 = n
      BY <2>2, <2>3, <2>4
    <2> QED
      BY <1>2, <2>3, <2>5
  <1> QED
    BY <1>3

\* Collected is that loop.
LEMMA CollectedIsLoop ==
  ASSUME NEW s, NEW S, Len(s) \in Nat
  PROVE  Loop(Collected(s, S), s, S, Len(s))
  <1>1. Collected(s, S) = CHOOSE f : Loop(f, s, S, Len(s))
    BY DEF Collected, Collect, Loop
  <1> QED
    BY <1>1, LoopExists

-----------------------------------------------------------------------------

\* r holds the elements of S among the first n of s; h numbers their positions.
Keeps(h, s, S, n, r) ==
  /\ r \in Seq({s[i] : i \in 1 .. n})
  /\ h \in [1 .. Len(r) -> 1 .. n]
  /\ \A k \in 1 .. Len(r) : r[k] = s[h[k]]
  /\ \A j, k \in 1 .. Len(r) : j < k => h[j] < h[k]
  /\ \A i \in 1 .. n : s[i] \in S <=> \E k \in 1 .. Len(r) : h[k] = i

\* Filtering s and t keeps the same positions.
KeepAlike(s, S, t, T) ==
  \E h : /\ Keeps(h, s, S, Len(s), Filter(s, S))
         /\ Keeps(h, t, T, Len(s), Filter(t, T))
         /\ Len(Filter(s, S)) = Len(Filter(t, T))

\* An element that is not kept changes nothing.
LEMMA KeepsSkip ==
  ASSUME NEW s, NEW S, NEW n \in Nat, NEW h, NEW r, Keeps(h, s, S, n, r), s[n + 1] \notin S
  PROVE  Keeps(h, s, S, n + 1, r)
  <1>1. {s[i] : i \in 1 .. n} \subseteq {s[i] : i \in 1 .. n + 1}
    OBVIOUS
  <1>2. r \in Seq({s[i] : i \in 1 .. n + 1}) /\ Len(r) \in Nat
    BY <1>1, SeqMonotonic, LenProperties DEF Keeps
  <1>3. h \in [1 .. Len(r) -> 1 .. n + 1]
    BY <1>2 DEF Keeps
  <1>4. \A i \in 1 .. n + 1 : s[i] \in S <=> \E k \in 1 .. Len(r) : h[k] = i
    <2> SUFFICES ASSUME NEW i \in 1 .. n + 1
                 PROVE  s[i] \in S <=> \E k \in 1 .. Len(r) : h[k] = i
      OBVIOUS
    <2>1. CASE i \in 1 .. n
      BY <2>1 DEF Keeps
    <2>2. CASE i = n + 1
      BY <2>2, <1>2 DEF Keeps
    <2> QED
      BY <2>1, <2>2
  <1> QED
    BY <1>2, <1>3, <1>4, Zenon DEF Keeps

\* An element that is kept comes last.
LEMMA KeepsAppend ==
  ASSUME NEW s, NEW S, NEW n \in Nat, NEW h, NEW r, Keeps(h, s, S, n, r), s[n + 1] \in S
  PROVE  /\ Keeps([k \in 1 .. Len(r) + 1 |-> IF k <= Len(r) THEN h[k] ELSE n + 1],
                  s, S, n + 1, Append(r, s[n + 1]))
         /\ Len(Append(r, s[n + 1])) = Len(r) + 1
  <1> DEFINE U == {s[i] : i \in 1 .. n + 1}
             g == [k \in 1 .. Len(r) + 1 |-> IF k <= Len(r) THEN h[k] ELSE n + 1]
             q == Append(r, s[n + 1])
  <1>1. {s[i] : i \in 1 .. n} \subseteq U /\ s[n + 1] \in U
    OBVIOUS
  <1>2. r \in Seq(U) /\ Len(r) \in Nat
    BY <1>1, SeqMonotonic, LenProperties DEF Keeps
  <1>3. /\ q \in Seq(U) /\ Len(q) = Len(r) + 1
        /\ \A k \in 1 .. Len(r) : q[k] = r[k]
        /\ q[Len(r) + 1] = s[n + 1]
    <2> HIDE DEF U
    <2> QED
      BY <1>1, <1>2, AppendProperties
  <1>4. \A k \in 1 .. Len(r) : h[k] \in 1 .. n
    BY DEF Keeps
  <1>5. g \in [1 .. Len(q) -> 1 .. n + 1]
    BY <1>2, <1>3, <1>4
  <1>6. /\ \A k \in 1 .. Len(r) : g[k] = h[k]
        /\ g[Len(r) + 1] = n + 1
    BY <1>2
  <1> HIDE DEF U, g, q
  <1>7. \A k \in 1 .. Len(q) : q[k] = s[g[k]]
    <2> SUFFICES ASSUME NEW k \in 1 .. Len(q) PROVE q[k] = s[g[k]]
      OBVIOUS
    <2>1. CASE k \in 1 .. Len(r)
      BY <2>1, <1>3, <1>6 DEF Keeps
    <2>2. CASE k = Len(r) + 1
      BY <2>2, <1>3, <1>6
    <2> QED
      BY <2>1, <2>2, <1>2, <1>3
  <1>8. \A j, k \in 1 .. Len(q) : j < k => g[j] < g[k]
    <2> SUFFICES ASSUME NEW j \in 1 .. Len(q), NEW k \in 1 .. Len(q), j < k
                 PROVE  g[j] < g[k]
      OBVIOUS
    <2>1. j \in 1 .. Len(r)
      BY <1>2, <1>3
    <2>2. CASE k \in 1 .. Len(r)
      BY <2>1, <2>2, <1>6 DEF Keeps
    <2>3. CASE k = Len(r) + 1
      BY <2>1, <2>3, <1>4, <1>6
    <2> QED
      BY <2>2, <2>3, <1>2, <1>3
  <1>9. \A i \in 1 .. n + 1 : s[i] \in S <=> \E k \in 1 .. Len(q) : g[k] = i
    <2> SUFFICES ASSUME NEW i \in 1 .. n + 1
                 PROVE  s[i] \in S <=> \E k \in 1 .. Len(q) : g[k] = i
      OBVIOUS
    <2>1. CASE i \in 1 .. n
      <3>1. s[i] \in S <=> \E k \in 1 .. Len(r) : h[k] = i
        BY <2>1 DEF Keeps
      <3>2. (\E k \in 1 .. Len(r) : h[k] = i) <=> \E k \in 1 .. Len(q) : g[k] = i
        <4>1. ASSUME NEW k \in 1 .. Len(r), h[k] = i PROVE k \in 1 .. Len(q) /\ g[k] = i
          BY <4>1, <1>2, <1>3, <1>6
        <4>2. ASSUME NEW k \in 1 .. Len(q), g[k] = i PROVE k \in 1 .. Len(r) /\ h[k] = i
          <5>1. i # n + 1
            BY <2>1
          <5>2. k # Len(r) + 1
            BY <4>2, <5>1, <1>6
          <5>3. k \in 1 .. Len(r)
            BY <5>2, <1>2, <1>3
          <5> QED
            BY <4>2, <5>3, <1>6
        <4> QED
          BY <4>1, <4>2
      <3> QED
        BY <3>1, <3>2
    <2>2. CASE i = n + 1
      BY <2>2, <1>2, <1>3, <1>6
    <2> QED
      BY <2>1, <2>2
  <1> QED
    BY <1>3, <1>5, <1>7, <1>8, <1>9, SMTT(30) DEF Keeps, U, g, q

\* Two sequences that agree on which of their elements are kept keep the same
\* positions.
LEMMA CollectedPositions ==
  ASSUME NEW s, NEW S, NEW t, NEW T, Len(s) \in Nat, Len(t) = Len(s),
         \A i \in 1 .. Len(s) : s[i] \in S <=> t[i] \in T
  PROVE  KeepAlike(s, S, t, T)
  <1> DEFINE a == Collected(s, S)
             b == Collected(t, T)
             Good(m) == \E h : /\ Keeps(h, s, S, m, a[m])
                               /\ Keeps(h, t, T, m, b[m])
                               /\ Len(a[m]) = Len(b[m])
             Bad == {m \in 0 .. Len(s) : ~Good(m)}
  <1>1. /\ a[0] = << >> /\ b[0] = << >>
        /\ \A m \in 0 .. Len(s) - 1 : a[m + 1] = Collect(s, S, a[m], m + 1)
        /\ \A m \in 0 .. Len(s) - 1 : b[m + 1] = Collect(t, T, b[m], m + 1)
    <2>1. Loop(a, s, S, Len(s)) /\ Loop(b, t, T, Len(s))
      BY CollectedIsLoop
    <2>2. /\ 0 \in 0 .. Len(s)
          /\ \A m \in 0 .. Len(s) - 1 :
               m + 1 \in 0 .. Len(s) /\ m + 1 # 0 /\ m + 1 - 1 = m
      OBVIOUS
    <2> HIDE DEF a, b
    <2> QED
      BY <2>1, <2>2 DEF Loop
  <1>2. Filter(s, S) = a[Len(s)] /\ Filter(t, T) = b[Len(s)]
    BY DEF Filter
  <1> HIDE DEF a, b
  <1>3. Good(0)
    <2> DEFINE h == [k \in 1 .. 0 |-> 1]
    <2>1. Len(<< >>) = 0 /\ 1 .. 0 = {}
      OBVIOUS
    <2>2. << >> \in Seq({s[i] : i \in 1 .. 0}) /\ << >> \in Seq({t[i] : i \in 1 .. 0})
      OBVIOUS
    <2>3. Keeps(h, s, S, 0, << >>) /\ Keeps(h, t, T, 0, << >>)
      BY <2>1, <2>2 DEF Keeps
    <2> QED
      BY <1>1, <2>1, <2>3
  <1>4. ASSUME NEW m \in 0 .. Len(s) - 1, Good(m) PROVE Good(m + 1)
    <2>1. PICK h : /\ Keeps(h, s, S, m, a[m])
                   /\ Keeps(h, t, T, m, b[m])
                   /\ Len(a[m]) = Len(b[m])
      BY <1>4
    <2>2. m \in Nat /\ m + 1 \in 1 .. Len(s)
      OBVIOUS
    <2>3. CASE s[m + 1] \in S
      <3>1. t[m + 1] \in T
        BY <2>2, <2>3
      <3>2. a[m + 1] = Append(a[m], s[m + 1]) /\ b[m + 1] = Append(b[m], t[m + 1])
        BY <1>1, <2>3, <3>1, Zenon DEF Collect
      <3> DEFINE g == [k \in 1 .. Len(a[m]) + 1 |-> IF k <= Len(a[m]) THEN h[k] ELSE m + 1]
      <3>3. Keeps(g, s, S, m + 1, a[m + 1]) /\ Len(a[m + 1]) = Len(a[m]) + 1
        BY <2>1, <2>2, <2>3, <3>2, KeepsAppend, SMTT(30)
      <3>4. Keeps(g, t, T, m + 1, b[m + 1]) /\ Len(b[m + 1]) = Len(b[m]) + 1
        BY <2>1, <2>2, <3>1, <3>2, KeepsAppend
      <3> QED
        BY <2>1, <3>3, <3>4
    <2>4. CASE s[m + 1] \notin S
      <3>1. t[m + 1] \notin T
        BY <2>2, <2>4
      <3>2. a[m + 1] = a[m] /\ b[m + 1] = b[m]
        BY <1>1, <2>4, <3>1 DEF Collect
      <3>3. Keeps(h, s, S, m + 1, a[m]) /\ Keeps(h, t, T, m + 1, b[m])
        BY <2>1, <2>2, <2>4, <3>1, KeepsSkip
      <3> QED
        BY <2>1, <3>2, <3>3
    <2> QED
      BY <2>3, <2>4
  <1>5. Bad = {}
    <2> SUFFICES ASSUME Bad # {} PROVE FALSE
      OBVIOUS
    <2>1. Bad \in SUBSET Nat
      OBVIOUS
    <2>2. PICK n \in Bad : \A m \in Bad : n <= m
      <3> HIDE DEF Bad
      <3> QED
        BY <2>1, LeastNumber
    <2>3. n \in 0 .. Len(s) /\ ~Good(n)
      BY <2>2
    <2> HIDE DEF Good
    <2>4. n # 0
      BY <1>3, <2>3
    <2>5. n - 1 \in 0 .. Len(s) - 1 /\ n - 1 \notin Bad /\ n - 1 + 1 = n
      BY <2>2, <2>3, <2>4
    <2> QED
      BY <1>4, <2>3, <2>5
  <1>6. Good(Len(s))
    BY <1>5
  <1> QED
    BY <1>2, <1>6 DEF KeepAlike

\* Two elements of r that follow each other also do so in s.
Embeds(r, s) == \A j, k \in 1 .. Len(r) : j < k =>
                  \E p, q \in 1 .. Len(s) : p < q /\ r[j] = s[p] /\ r[k] = s[q]

\* Filtering keeps the type, keeps exactly the elements of the set, and keeps
\* their order.
LEMMA FilterProperties ==
  ASSUME NEW A, NEW s \in Seq(A), NEW S
  PROVE  /\ Filter(s, S) \in Seq(A)
         /\ Range(Filter(s, S)) = Range(s) \cap S
         /\ Embeds(Filter(s, S), s)
  <1> DEFINE r == Filter(s, S)
             U == {s[i] : i \in 1 .. Len(s)}
  <1>1. Len(s) \in Nat /\ DOMAIN s = 1 .. Len(s) /\ U \subseteq A
    BY LenProperties, ElementOfSeq
  <1>2. PICK h : Keeps(h, s, S, Len(s), r)
    <2>1. KeepAlike(s, S, s, S)
      BY <1>1, CollectedPositions
    <2> QED
      BY <2>1 DEF KeepAlike
  <1> HIDE DEF r
  <1>3. r \in Seq(U) /\ r \in Seq(A)
    BY <1>1, <1>2, SeqMonotonic DEF Keeps
  <1>4. Len(r) \in Nat /\ DOMAIN r = 1 .. Len(r)
    BY <1>3, LenProperties
  <1>5. /\ \A k \in 1 .. Len(r) : h[k] \in 1 .. Len(s) /\ r[k] = s[h[k]]
        /\ \A j, k \in 1 .. Len(r) : j < k => h[j] < h[k]
        /\ \A i \in 1 .. Len(s) : s[i] \in S <=> \E k \in 1 .. Len(r) : h[k] = i
    BY <1>2, SMTT(30) DEF Keeps
  <1>6. Range(r) = Range(s) \cap S
    <2>1. ASSUME NEW k \in 1 .. Len(r) PROVE r[k] \in Range(s) \cap S
      BY <1>1, <1>5 DEF Range
    <2>2. ASSUME NEW i \in 1 .. Len(s), s[i] \in S PROVE s[i] \in Range(r)
      BY <1>4, <1>5, <2>2, Zenon DEF Range
    <2> QED
      BY <1>1, <1>4, <2>1, <2>2 DEF Range
  <1> QED
    BY <1>3, <1>5, <1>6, Zenon DEF r, Embeds

\* Filtering two sequences of the same length that agree on which elements to
\* keep gives sequences of the same length with elements of the same positions.
LEMMA FilterAlike ==
  ASSUME NEW A, NEW s \in Seq(A), NEW S, NEW t \in Seq(A), NEW T, Len(s) = Len(t),
         \A i \in 1 .. Len(s) : s[i] \in S <=> t[i] \in T
  PROVE  /\ Len(Filter(s, S)) = Len(Filter(t, T))
         /\ \A k \in 1 .. Len(Filter(s, S)) :
              \E p \in 1 .. Len(s) : Filter(s, S)[k] = s[p] /\ Filter(t, T)[k] = t[p]
  <1>1. Len(s) \in Nat /\ Len(t) = Len(s)
    BY LenProperties
  <1>2. KeepAlike(s, S, t, T)
    BY <1>1, CollectedPositions
  <1>3. PICK h : /\ Keeps(h, s, S, Len(s), Filter(s, S))
                 /\ Keeps(h, t, T, Len(s), Filter(t, T))
                 /\ Len(Filter(s, S)) = Len(Filter(t, T))
    BY <1>2 DEF KeepAlike
  <1> QED
    BY <1>3, SMTT(30) DEF Keeps

-----------------------------------------------------------------------------
(* Sequences.                                                                 *)

\* A function on 1 .. n is a sequence of length n.
LEMMA FunctionIsSequence ==
  ASSUME NEW n \in Nat, NEW S, NEW f \in [1 .. n -> S]
  PROVE  f \in Seq(S) /\ Len(f) = n
  OBVIOUS

\* The elements of a sequence, by position.
LEMMA RangeIndex ==
  ASSUME NEW S, NEW s \in Seq(S)
  PROVE  /\ DOMAIN s = 1 .. Len(s)
         /\ Range(s) \subseteq S
         /\ \A e : e \in Range(s) <=> \E k \in 1 .. Len(s) : e = s[k]
         /\ \A k \in 1 .. Len(s) : s[k] \in Range(s)
  BY LenProperties DEF Range

\* A sequence is one over any set that has its elements.
LEMMA SequenceOver ==
  ASSUME NEW S, NEW s \in Seq(S), NEW T, Range(s) \subseteq T
  PROVE  s \in Seq(T)
  <1>1. Len(s) \in Nat /\ s \in [1 .. Len(s) -> S]
    BY LenProperties
  <1>2. s \in [1 .. Len(s) -> T]
    BY <1>1, RangeIndex
  <1> QED
    BY <1>1, <1>2, FunctionIsSequence

\* The elements of a concatenation.
LEMMA RangeConcat ==
  ASSUME NEW S, NEW s \in Seq(S), NEW t \in Seq(S)
  PROVE  s \o t \in Seq(S) /\ Range(s \o t) = Range(s) \cup Range(t)
  <1>1. /\ s \o t \in Seq(S) /\ Len(s \o t) = Len(s) + Len(t)
        /\ \A i \in 1 .. Len(s) + Len(t) :
             (s \o t)[i] = IF i <= Len(s) THEN s[i] ELSE t[i - Len(s)]
    BY ConcatProperties
  <1>2. Len(s) \in Nat /\ Len(t) \in Nat
    BY LenProperties
  <1>3. ASSUME NEW i \in 1 .. Len(s \o t) PROVE (s \o t)[i] \in Range(s) \cup Range(t)
    <2>1. CASE i <= Len(s)
      BY <1>1, <1>2, <2>1, RangeIndex
    <2>2. CASE ~(i <= Len(s))
      <3>1. i - Len(s) \in 1 .. Len(t) /\ (s \o t)[i] = t[i - Len(s)]
        BY <1>1, <1>2, <2>2
      <3> QED
        BY <3>1, RangeIndex
    <2> QED
      BY <2>1, <2>2
  <1>4. ASSUME NEW i \in 1 .. Len(s) PROVE s[i] \in Range(s \o t)
    <2>1. i \in 1 .. Len(s \o t) /\ (s \o t)[i] = s[i]
      BY <1>1, <1>2
    <2> QED
      BY <1>1, <2>1, RangeIndex, Zenon
  <1>5. ASSUME NEW i \in 1 .. Len(t) PROVE t[i] \in Range(s \o t)
    <2>1. Len(s) + i \in 1 .. Len(s \o t) /\ (s \o t)[Len(s) + i] = t[i]
      BY <1>1, <1>2
    <2> QED
      BY <1>1, <2>1, RangeIndex, Zenon
  <1>6. ASSUME NEW e \in Range(s \o t) PROVE e \in Range(s) \cup Range(t)
    <2>1. PICK k \in 1 .. Len(s \o t) : e = (s \o t)[k]
      BY <1>1, RangeIndex, ZenonT(40)
    <2> QED
      BY <1>3, <2>1
  <1>7. Range(s) \subseteq Range(s \o t)
    BY <1>4, RangeIndex
  <1>8. Range(t) \subseteq Range(s \o t)
    BY <1>5, RangeIndex
  <1> QED
    BY <1>1, <1>6, <1>7, <1>8

\* The elements of three sequences, one after the other.
LEMMA RangeConcat3 ==
  ASSUME NEW S, NEW s \in Seq(S), NEW t \in Seq(S), NEW u \in Seq(S)
  PROVE  /\ s \o t \o u \in Seq(S)
         /\ Range(s \o t \o u) = Range(s) \cup Range(t) \cup Range(u)
  <1> DEFINE st == s \o t
  <1>1. st \in Seq(S) /\ Range(st) = Range(s) \cup Range(t)
    BY RangeConcat
  <1> HIDE DEF st
  <1>2. st \o u \in Seq(S) /\ Range(st \o u) = Range(st) \cup Range(u)
    BY <1>1, RangeConcat
  <1> QED
    BY <1>1, <1>2 DEF st

\* Having the elements of another sequence in the same order is transitive.
LEMMA EmbedsTrans ==
  ASSUME NEW r, NEW s, NEW t, Embeds(r, s), Embeds(s, t)
  PROVE  Embeds(r, t)
  <1> SUFFICES ASSUME NEW j \in 1 .. Len(r), NEW k \in 1 .. Len(r), j < k
               PROVE  \E p, q \in 1 .. Len(t) : p < q /\ r[j] = t[p] /\ r[k] = t[q]
    BY DEF Embeds
  <1>1. PICK p, q \in 1 .. Len(s) : p < q /\ r[j] = s[p] /\ r[k] = s[q]
    BY Zenon DEF Embeds
  <1>2. PICK m, n \in 1 .. Len(t) : m < n /\ s[p] = t[m] /\ s[q] = t[n]
    BY <1>1 DEF Embeds
  <1> QED
    BY <1>1, <1>2

-----------------------------------------------------------------------------
(* Sorted sequences.                                                          *)

\* Relation R, a set of pairs, holds between any two elements in their order.
Sorted(s, R) == \A j, k \in 1 .. Len(s) : j < k => <<s[j], s[k]>> \in R

\* A sequence with the elements of another in the same order is sorted with it.
LEMMA SortedEmbeds ==
  ASSUME NEW s, NEW r, NEW R, Sorted(s, R), Embeds(r, s)
  PROVE  Sorted(r, R)
  BY DEF Sorted, Embeds

\* Two sorted sequences, one after the other.
LEMMA SortedConcat ==
  ASSUME NEW S, NEW s \in Seq(S), NEW t \in Seq(S), NEW R, Sorted(s, R), Sorted(t, R),
         \A d \in Range(s), e \in Range(t) : <<d, e>> \in R
  PROVE  Sorted(s \o t, R)
  <1>1. /\ s \o t \in Seq(S) /\ Len(s \o t) = Len(s) + Len(t)
        /\ \A i \in 1 .. Len(s) + Len(t) :
             (s \o t)[i] = IF i <= Len(s) THEN s[i] ELSE t[i - Len(s)]
    BY ConcatProperties
  <1>2. Len(s) \in Nat /\ Len(t) \in Nat
    BY LenProperties
  <1> DEFINE st == s \o t
  <1>3. /\ Len(st) = Len(s) + Len(t)
        /\ \A i \in 1 .. Len(st) : i <= Len(s) => i \in 1 .. Len(s) /\ st[i] = s[i]
        /\ \A i \in 1 .. Len(st) : ~(i <= Len(s)) =>
             i - Len(s) \in 1 .. Len(t) /\ st[i] = t[i - Len(s)]
    BY <1>1, <1>2
  <1> HIDE DEF st
  <1>4. ASSUME NEW j \in 1 .. Len(st), NEW k \in 1 .. Len(st), j < k
        PROVE  <<st[j], st[k]>> \in R
    <2>1. j \in Int /\ k \in Int
      BY <1>2, <1>3
    <2>2. CASE k <= Len(s)
      BY <1>2, <1>3, <1>4, <2>1, <2>2 DEF Sorted
    <2>3. CASE j <= Len(s) /\ ~(k <= Len(s))
      <3>1. s[j] \in Range(s) /\ t[k - Len(s)] \in Range(t)
        BY <1>3, <2>3, RangeIndex
      <3> QED
        BY <1>3, <2>3, <3>1
    <2>4. CASE ~(j <= Len(s)) /\ ~(k <= Len(s))
      <3> DEFINE m == j - Len(s)
                 n == k - Len(s)
      <3>1. m \in 1 .. Len(t) /\ n \in 1 .. Len(t) /\ m < n
        BY <1>2, <1>3, <1>4, <2>1, <2>4
      <3>2. st[j] = t[m] /\ st[k] = t[n]
        BY <1>3, <2>4
      <3> HIDE DEF m, n
      <3> QED
        BY <3>1, <3>2 DEF Sorted
    <2>5. k <= Len(s) \/ (j <= Len(s) /\ ~(k <= Len(s))) \/ (~(j <= Len(s)) /\ ~(k <= Len(s)))
      OBVIOUS
    <2> QED
      BY <2>2, <2>3, <2>4, <2>5
  <1> QED
    BY <1>4 DEF Sorted, st

\* A sequence sorted by one relation is sorted by any that its pairs are in.
LEMMA SortedWeaken ==
  ASSUME NEW S, NEW s \in Seq(S), NEW Q, NEW R, Sorted(s, Q),
         \A d, e \in Range(s) : <<d, e>> \in Q => <<d, e>> \in R
  PROVE  Sorted(s, R)
  BY RangeIndex DEF Sorted

==============================================================================
