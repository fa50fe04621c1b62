----------------------- MODULE LibraryEnvelopes_proofs -----------------------
(***************************************************************************)
(* Facts about the operators of LibraryExecution: which documents one      *)
(* library gets, from its files and from the libraries above it, and in    *)
(* which order.                                                            *)
(***************************************************************************)
EXTENDS LibraryExecution, Filtering_proofs

-----------------------------------------------------------------------------
(* Envelopes.                                                                 *)

\* e is the envelope around document d at position k.
Seals(e, d, kind, via, run, depth, k) ==
  /\ e \in Envelope /\ d \in DocDecl
  /\ e.doc.run = run /\ e.doc.kind = kind /\ e.doc.via = via /\ e.doc.pos = k
  /\ e.depth = depth /\ e.after = d.after
  /\ e.original = d.address /\ e.libRef = d.address

\* An envelope that has not been handed down to any library.
Fresh(e, kind, via, run, depth) ==
  /\ e \in Envelope
  /\ e.doc.kind = kind /\ e.doc.via = via /\ e.doc.run = run /\ e.depth = depth
  /\ e.libRef = e.original
  /\ e.after => e.libRef # << >>

\* A new envelope has not been handed down.
LEMMA SealsFresh ==
  ASSUME NEW e, NEW d, NEW kind, NEW via, NEW run, NEW depth, NEW k,
         Seals(e, d, kind, via, run, depth, k)
  PROVE  Fresh(e, kind, via, run, depth)
  <1>1. d.after => d.address # << >>
    BY DEF Seals, DocDecl
  <1>2. e.after = d.after /\ e.libRef = d.address
    BY DEF Seals
  <1> QED
    BY <1>1, <1>2 DEF Seals, Fresh

\* envs are the envelopes around documents: one for each, with its position.
Around(envs, docs, kind, via, run, depth) ==
  /\ envs \in Seq(Envelope) /\ Len(envs) = Len(docs)
  /\ \A k \in 1 .. Len(envs) : Seals(envs[k], docs[k], kind, via, run, depth, k)

\* NewEnvelopes makes one envelope for each document.
LEMMA NewEnvelopesShape ==
  ASSUME NEW docs \in Seq(DocDecl), NEW kind \in {"dv", "schema"},
         NEW via \in {"defaults", "file", "flag", "module"}, NEW run \in Nat, NEW depth \in Nat
  PROVE  Around(NewEnvelopes(docs, kind, via, run, depth), docs, kind, via, run, depth)
  <1> DEFINE envs == NewEnvelopes(docs, kind, via, run, depth)
  <1>1. Len(docs) \in Nat /\ DOMAIN docs = 1 .. Len(docs)
    BY LenProperties
  <1>2. \A k \in 1 .. Len(docs) : docs[k] \in DocDecl
    BY ElementOfSeq
  <1>3. envs \in [1 .. Len(docs) -> Envelope]
    BY <1>1, <1>2 DEF NewEnvelopes, DocDecl, Envelope, Document
  <1>4. envs \in Seq(Envelope) /\ Len(envs) = Len(docs)
    BY <1>1, <1>3, FunctionIsSequence
  <1>5. ASSUME NEW k \in 1 .. Len(docs)
        PROVE  Seals(envs[k], docs[k], kind, via, run, depth, k)
    <2> DEFINE e == [doc |-> [run |-> run, kind |-> kind, via |-> via, pos |-> k],
                     depth |-> depth, after |-> docs[k].after,
                     original |-> docs[k].address, libRef |-> docs[k].address]
    <2>1. envs[k] = e
      BY <1>1 DEF NewEnvelopes
    <2>2. envs[k] \in Envelope /\ docs[k] \in DocDecl
      BY <1>2, <1>3
    <2>3. /\ e.doc.run = run /\ e.doc.kind = kind /\ e.doc.via = via /\ e.doc.pos = k
          /\ e.depth = depth /\ e.after = docs[k].after
          /\ e.original = docs[k].address /\ e.libRef = docs[k].address
      OBVIOUS
    <2> HIDE DEF e, envs
    <2> QED
      BY <2>1, <2>2, <2>3 DEF Seals
  <1> QED
    BY <1>4, <1>5 DEF Around

\* Sequence s ends with t.
EndsWith(s, t) == /\ Len(t) <= Len(s)
                  /\ \A k \in 1 .. Len(t) : t[k] = s[Len(s) - Len(t) + k]

\* The rest of an envelope's address is what is left of its original address.
OnRoute(e) == EndsWith(e.original, e.libRef)

\* The tail of a suffix is a suffix.
LEMMA TailOfSuffix ==
  ASSUME NEW S, NEW s \in Seq(S), NEW t \in Seq(S), t # << >>, EndsWith(s, t)
  PROVE  EndsWith(s, Tail(t))
  <1>1. /\ Len(Tail(t)) = Len(t) - 1
        /\ \A i \in 1 .. Len(Tail(t)) : Tail(t)[i] = t[i + 1]
    BY HeadTailProperties
  <1>2. Len(s) \in Nat /\ Len(t) \in Nat
    BY LenProperties
  <1>3. ASSUME NEW k \in 1 .. Len(Tail(t))
        PROVE  Tail(t)[k] = s[Len(s) - Len(Tail(t)) + k]
    <2>1. k + 1 \in 1 .. Len(t) /\ k \in Int
      BY <1>1, <1>2
    <2>2. t[k + 1] = s[Len(s) - Len(t) + (k + 1)]
      BY <2>1 DEF EndsWith
    <2>3. Len(s) - Len(t) + (k + 1) = Len(s) - Len(Tail(t)) + k
      BY <1>1, <1>2, <2>1
    <2> QED
      BY <1>1, <2>2, <2>3
  <1> QED
    BY <1>1, <1>2, <1>3 DEF EndsWith

\* UsedInLibrary makes a copy, with one piece of the address less.
LEMMA UsedInLibraryShape ==
  ASSUME NEW e \in Envelope, NEW ref
  PROVE  LET c == UsedInLibrary(e, ref)
         IN  /\ e.libRef = << >> => c = e
             /\ e.libRef # << >> /\ ~Matches(Head(e.libRef), ref) => c = Nil
             /\ e.libRef # << >> /\ Matches(Head(e.libRef), ref) =>
                  /\ c.libRef = Tail(e.libRef)
                  /\ Len(c.libRef) = Len(e.libRef) - 1
                  /\ OnRoute(e) => OnRoute(c)
             /\ c # Nil => /\ c \in Envelope
                           /\ c.doc = e.doc /\ c.depth = e.depth /\ c.after = e.after
                           /\ c.original = e.original
  <1>1. e.libRef \in Seq(LibraryRef)
    BY DEF Envelope
  <1>2. CASE e.libRef = << >>
    BY <1>2, NilAssumption DEF UsedInLibrary
  <1>3. CASE e.libRef # << >> /\ ~Matches(Head(e.libRef), ref)
    BY <1>3 DEF UsedInLibrary
  <1>4. CASE e.libRef # << >> /\ Matches(Head(e.libRef), ref)
    <2> DEFINE c == [e EXCEPT !.libRef = Tail(@)]
    <2>1. UsedInLibrary(e, ref) = c
      BY <1>4 DEF UsedInLibrary
    <2>2. /\ Tail(e.libRef) \in Seq(LibraryRef)
          /\ Len(Tail(e.libRef)) = Len(e.libRef) - 1
          /\ \A i \in 1 .. Len(Tail(e.libRef)) : Tail(e.libRef)[i] = e.libRef[i + 1]
      BY <1>1, <1>4, HeadTailProperties
    <2>3. /\ c \in Envelope /\ c.libRef = Tail(e.libRef)
          /\ c.doc = e.doc /\ c.depth = e.depth /\ c.after = e.after
          /\ c.original = e.original
      BY <2>2, Zenon DEF Envelope
    <2>4. OnRoute(e) => OnRoute(c)
      <3> HIDE DEF c
      <3> SUFFICES ASSUME OnRoute(e) PROVE OnRoute(c)
        OBVIOUS
      <3>1. e.original \in Seq(LibraryRef) /\ EndsWith(e.original, e.libRef)
        BY DEF OnRoute, Envelope
      <3>2. EndsWith(e.original, Tail(e.libRef))
        BY <1>1, <1>4, <3>1, TailOfSuffix
      <3> QED
        BY <2>3, <3>2 DEF OnRoute
    <2> HIDE DEF c
    <2> QED
      BY <1>4, <2>1, <2>2, <2>3, <2>4
  <1> QED
    BY <1>2, <1>3, <1>4

-----------------------------------------------------------------------------
(* What executions post, and what their templates add.                         *)

\* Pairs of envelopes in the order of documents for libraries further down, and
\* in the order in which documents are overlaid.
DeeperPairs == {p \in (Envelope \cup {Nil}) \X (Envelope \cup {Nil}) :
                  p[1] # Nil /\ p[2] # Nil => Deeper(p[1], p[2])}
BelowPairs == {p \in Envelope \X Envelope : Below(p[1], p[2])}

\* An envelope that the execution at this depth, number run, posts: it comes
\* from a file or a flag of this library or of one above it.
Postable(e, kind, run, depth) ==
  /\ e \in Envelope
  /\ e.doc.kind = kind /\ e.doc.via \in {"file", "flag"} /\ e.doc.run <= run
  /\ e.depth \in 1 .. depth
  /\ e.libRef # << >> /\ OnRoute(e)
  /\ kind = "schema" => ~e.after

\* An envelope that the templates of the execution at this depth added to an
\* instance, in one of its first n library calls.
Addable(e, kind, depth, n) ==
  /\ e \in Envelope
  /\ e.doc.kind = kind /\ e.doc.via = "module" /\ e.doc.pos <= n
  /\ e.depth = depth /\ ~e.after
  /\ e.original = << >> /\ e.libRef = << >>

\* The overlaid documents of an execution are in order, and its own.
Merged(s) == Sorted(s, BelowPairs) /\ \A e \in Range(s) : e.libRef = << >>

-----------------------------------------------------------------------------
(* What a library gets: the sets of envelopes.                                *)

\* Those of E for the library itself, and those for the libraries below it.
For(E) == {e \in E : e.libRef = << >>}
Beyond(E) == {e \in E : e.libRef # << >>}

\* The copies that the library instance ref takes of E.
Taken(E, ref) == {UsedInLibrary(e, ref) : e \in E} \ {Nil}

\* Own and Children take a list of envelopes apart.
LEMMA OwnProperties ==
  ASSUME NEW s \in Seq(Envelope)
  PROVE  /\ Own(s) \in Seq(Envelope) /\ Range(Own(s)) = For(Range(s)) /\ Embeds(Own(s), s)
         /\ Children(s) \in Seq(Envelope) /\ Range(Children(s)) = Beyond(Range(s))
         /\ Embeds(Children(s), s)
  <1> DEFINE S == {e \in Range(s) : ~IntendedForAnotherLibrary(e)}
             T == {e \in Range(s) : IntendedForAnotherLibrary(e)}
  <1>1. /\ Filter(s, S) \in Seq(Envelope) /\ Range(Filter(s, S)) = Range(s) \cap S
        /\ Embeds(Filter(s, S), s)
        /\ Filter(s, T) \in Seq(Envelope) /\ Range(Filter(s, T)) = Range(s) \cap T
        /\ Embeds(Filter(s, T), s)
    BY FilterProperties
  <1>2. Range(s) \cap S = For(Range(s)) /\ Range(s) \cap T = Beyond(Range(s))
    BY DEF For, Beyond, IntendedForAnotherLibrary
  <1>3. Own(s) = Filter(s, S) /\ Children(s) = Filter(s, T)
    BY DEF Own, Children
  <1> QED
    BY <1>1, <1>2, <1>3, Zenon

\* The copies of a list of envelopes, and those that are not nil.
LEMMA CopiesProperties ==
  ASSUME NEW s \in Seq(Envelope), NEW ref
  PROVE  /\ Copies(s, ref) \in Seq(Envelope \cup {Nil}) /\ Len(Copies(s, ref)) = Len(s)
         /\ \A k \in 1 .. Len(s) : Copies(s, ref)[k] = UsedInLibrary(s[k], ref)
         /\ Range(Copies(s, ref)) \ {Nil} = Taken(Range(s), ref)
         /\ Found(Copies(s, ref)) \in Seq(Envelope)
         /\ Range(Found(Copies(s, ref))) = Taken(Range(s), ref)
         /\ Embeds(Found(Copies(s, ref)), Copies(s, ref))
  <1> DEFINE c == Copies(s, ref)
             S == Range(c) \ {Nil}
  <1>1. Len(s) \in Nat /\ DOMAIN s = 1 .. Len(s)
    BY LenProperties
  <1>2. \A k \in 1 .. Len(s) : s[k] \in Envelope
    BY ElementOfSeq
  <1>3. \A k \in 1 .. Len(s) : UsedInLibrary(s[k], ref) \in Envelope \cup {Nil}
    BY <1>2, UsedInLibraryShape
  <1>4. c = [k \in 1 .. Len(s) |-> UsedInLibrary(s[k], ref)]
    BY <1>1 DEF Copies
  <1>5. c \in [1 .. Len(s) -> Envelope \cup {Nil}]
    BY <1>3, <1>4
  <1>6. c \in Seq(Envelope \cup {Nil}) /\ Len(c) = Len(s)
    BY <1>1, <1>5, FunctionIsSequence
  <1>7. \A k \in 1 .. Len(s) : c[k] = UsedInLibrary(s[k], ref)
    BY <1>4
  <1> HIDE DEF c
  <1>8. Range(c) = {UsedInLibrary(e, ref) : e \in Range(s)}
    <2>1. ASSUME NEW x \in Range(c) PROVE x \in {UsedInLibrary(e, ref) : e \in Range(s)}
      <3>1. PICK k \in 1 .. Len(s) : x = c[k]
        BY <1>6, RangeIndex
      <3>2. s[k] \in Range(s)
        BY RangeIndex
      <3> QED
        BY <1>7, <3>1, <3>2
    <2>2. ASSUME NEW e \in Range(s) PROVE UsedInLibrary(e, ref) \in Range(c)
      <3>1. PICK k \in 1 .. Len(s) : e = s[k]
        BY RangeIndex
      <3>2. c[k] \in Range(c)
        BY <1>6, RangeIndex
      <3> QED
        BY <1>7, <3>1, <3>2
    <2> QED
      BY <2>1, <2>2
  <1>9. S = Taken(Range(s), ref)
    BY <1>8 DEF Taken
  <1>10. /\ Filter(c, S) \in Seq(Envelope \cup {Nil}) /\ Range(Filter(c, S)) = Range(c) \cap S
         /\ Embeds(Filter(c, S), c)
    BY <1>6, FilterProperties
  <1>11. Found(c) = Filter(c, S) /\ Range(c) \cap S = S
    BY DEF Found
  <1>12. S \subseteq Envelope
    BY <1>6, RangeIndex
  <1>13. Found(c) \in Seq(Envelope)
    BY <1>10, <1>11, <1>12, SequenceOver, Zenon
  <1> QED
    BY <1>6, <1>7, <1>9, <1>10, <1>11, <1>13, Zenon DEF c

\* The envelopes of a library's own files.
ValueFiles(lib, run, depth) == NewEnvelopes(DataValueDocs[lib], "dv", "file", run, depth)
SchemaFiles(lib, run, depth) == NewEnvelopes(SchemaDocs[lib], "schema", "file", run, depth)

\* They are envelopes with the whole address ahead of them.
LEMMA FilesType ==
  ASSUME NEW lib \in Library, NEW run \in Nat, NEW depth \in Nat
  PROVE  /\ DataValueDocs[lib] \in Seq(DocDecl) /\ SchemaDocs[lib] \in Seq(DocDecl)
         /\ SchemaDocs[lib] \in Seq(SchemaDecl)
         /\ ValueFiles(lib, run, depth) \in Seq(Envelope)
         /\ Around(ValueFiles(lib, run, depth), DataValueDocs[lib], "dv", "file", run, depth)
         /\ SchemaFiles(lib, run, depth) \in Seq(Envelope)
         /\ Around(SchemaFiles(lib, run, depth), SchemaDocs[lib], "schema", "file", run, depth)
  <1>1. DataValueDocs[lib] \in Seq(DocDecl) /\ SchemaDocs[lib] \in Seq(SchemaDecl)
    BY DocsAssumption
  <1>2. SchemaDecl \subseteq DocDecl
    BY DEF SchemaDecl
  <1>3. SchemaDocs[lib] \in Seq(DocDecl)
    BY <1>1, <1>2, SeqMonotonic
  <1>4. /\ Around(ValueFiles(lib, run, depth), DataValueDocs[lib], "dv", "file", run, depth)
        /\ Around(SchemaFiles(lib, run, depth), SchemaDocs[lib], "schema", "file", run, depth)
    BY <1>1, <1>3, NewEnvelopesShape DEF ValueFiles, SchemaFiles
  <1> QED
    BY <1>1, <1>3, <1>4 DEF Around

\* The data values of a schema's defaults: at most one document, for the library.
IsDefaults(defaults, schema, run, depth) ==
  /\ defaults \in Seq(Envelope)
  /\ Len(defaults) = IF schema = << >> THEN 0 ELSE 1
  /\ \A e \in Range(defaults) :
       Fresh(e, "dv", "defaults", run, depth) /\ e.doc.pos = 1 /\ ~e.after /\ e.libRef = << >>

\* DefaultDataValues gives a document exactly if there is a schema.
LEMMA DefaultsShape ==
  ASSUME NEW schema \in Seq(Envelope), NEW run \in Nat, NEW depth \in Nat
  PROVE  IsDefaults(DefaultDataValues(schema, run, depth), schema, run, depth)
  <1> DEFINE defaults == DefaultDataValues(schema, run, depth)
             docs == <<[address |-> << >>, after |-> FALSE]>>
  <1>1. docs \in Seq(DocDecl) /\ Len(docs) = 1 /\ docs[1] = [address |-> << >>, after |-> FALSE]
    BY DEF DocDecl
  <1>2. CASE schema = << >>
    <2>1. defaults = << >>
      BY <1>2 DEF DefaultDataValues
    <2>2. defaults \in Seq(Envelope) /\ Len(defaults) = 0 /\ Range(defaults) = {}
      BY <2>1 DEF Range
    <2> QED
      BY <1>2, <2>2 DEF IsDefaults
  <1>3. CASE schema # << >>
    <2>1. defaults = NewEnvelopes(docs, "dv", "defaults", run, depth)
      BY <1>3 DEF DefaultDataValues
    <2> HIDE DEF docs, defaults
    <2>2. Around(defaults, docs, "dv", "defaults", run, depth)
      BY <1>1, <2>1, NewEnvelopesShape
    <2>3. /\ defaults \in Seq(Envelope) /\ Len(defaults) = 1
          /\ Seals(defaults[1], docs[1], "dv", "defaults", run, depth, 1)
      <3>1. defaults \in Seq(Envelope) /\ Len(defaults) = 1
        BY <1>1, <2>2 DEF Around
      <3>2. 1 \in 1 .. Len(defaults)
        BY <3>1
      <3> QED
        BY <2>2, <3>1, <3>2 DEF Around
    <2>4. docs[1].after = FALSE /\ docs[1].address = << >>
      BY <1>1
    <2>5. /\ Fresh(defaults[1], "dv", "defaults", run, depth)
          /\ defaults[1].doc.pos = 1 /\ ~defaults[1].after /\ defaults[1].libRef = << >>
      BY <2>3, <2>4, SealsFresh DEF Seals
    <2>6. \A e \in Range(defaults) : e = defaults[1]
      BY <2>3, RangeIndex
    <2> QED
      BY <1>3, <2>3, <2>5, <2>6 DEF defaults, IsDefaults
  <1> QED
    BY <1>2, <1>3

\* v, as [own, children], takes the list all apart into the envelopes of own,
\* which are for the library, and those of children, which are not.
TakesApart(v, all, own, children) ==
  /\ all \in Seq(Envelope) /\ v.own \in Seq(Envelope) /\ v.children \in Seq(Envelope)
  /\ Embeds(v.own, all) /\ Range(v.own) = own
  /\ Embeds(v.children, all) /\ Range(v.children) = children
  /\ \A e \in own : e.libRef = << >>
  /\ \A e \in children : e.libRef # << >>

\* LibraryExecution.Values, with overlays that are for this library.
LEMMA ValuesSets ==
  ASSUME NEW lib \in Library, NEW overlays \in Seq(Envelope), NEW schema \in Seq(Envelope),
         NEW run \in Nat, NEW depth \in Nat, Beyond(Range(overlays)) = {}
  PROVE  TakesApart(Values(lib, overlays, schema, run, depth),
                    DefaultDataValues(schema, run, depth) \o ValueFiles(lib, run, depth)
                      \o overlays,
                    Range(DefaultDataValues(schema, run, depth))
                      \cup For(Range(ValueFiles(lib, run, depth))) \cup Range(overlays),
                    Beyond(Range(ValueFiles(lib, run, depth))))
  <1> DEFINE D == DefaultDataValues(schema, run, depth)
             F == ValueFiles(lib, run, depth)
             all == D \o F \o overlays
             v == Values(lib, overlays, schema, run, depth)
  <1>1. /\ D \in Seq(Envelope) /\ For(Range(D)) = Range(D) /\ Beyond(Range(D)) = {}
        /\ F \in Seq(Envelope)
    <2>1. F \in Seq(Envelope)
      BY FilesType
    <2>2. IsDefaults(D, schema, run, depth)
      BY DefaultsShape
    <2> HIDE DEF D
    <2>3. \A e \in Range(D) : e.libRef = << >>
      BY <2>2 DEF IsDefaults
    <2> QED
      BY <2>1, <2>2, <2>3 DEF IsDefaults, For, Beyond
  <1>2. v.own = Own(all) /\ v.children = Children(all)
    BY DEF Values, ValueFiles
  <1> HIDE DEF D, F, v
  <1>3. all \in Seq(Envelope) /\ Range(all) = Range(D) \cup Range(F) \cup Range(overlays)
    BY <1>1, RangeConcat3
  <1> HIDE DEF all
  <1>4. /\ v.own \in Seq(Envelope) /\ Range(v.own) = For(Range(all)) /\ Embeds(v.own, all)
        /\ v.children \in Seq(Envelope) /\ Range(v.children) = Beyond(Range(all))
        /\ Embeds(v.children, all)
    BY <1>2, <1>3, OwnProperties, Zenon
  <1>5. For(Range(all)) = Range(D) \cup For(Range(F)) \cup Range(overlays)
    BY <1>1, <1>3 DEF For, Beyond
  <1>6. Beyond(Range(all)) = Beyond(Range(F))
    BY <1>1, <1>3 DEF Beyond
  <1>7. /\ \A e \in Range(v.own) : e.libRef = << >>
        /\ \A e \in Range(v.children) : e.libRef # << >>
    BY <1>4 DEF For, Beyond
  <1> QED
    BY <1>3, <1>4, <1>5, <1>6, <1>7, Zenon DEF D, F, all, v, TakesApart

\* LibraryExecution.Schemas, with overlays that are for this library.
LEMMA SchemasSets ==
  ASSUME NEW lib \in Library, NEW overlays \in Seq(Envelope),
         NEW run \in Nat, NEW depth \in Nat, Beyond(Range(overlays)) = {}
  PROVE  TakesApart(Schemas(lib, overlays, run, depth),
                    SchemaFiles(lib, run, depth) \o overlays,
                    For(Range(SchemaFiles(lib, run, depth))) \cup Range(overlays),
                    Beyond(Range(SchemaFiles(lib, run, depth))))
  <1> DEFINE F == SchemaFiles(lib, run, depth)
             all == F \o overlays
             v == Schemas(lib, overlays, run, depth)
  <1>1. F \in Seq(Envelope)
    BY FilesType
  <1>2. v.own = Own(all) /\ v.children = Children(all)
    BY DEF Schemas, SchemaFiles
  <1> HIDE DEF F, v
  <1>3. all \in Seq(Envelope) /\ Range(all) = Range(F) \cup Range(overlays)
    BY <1>1, RangeConcat
  <1> HIDE DEF all
  <1>4. /\ v.own \in Seq(Envelope) /\ Range(v.own) = For(Range(all)) /\ Embeds(v.own, all)
        /\ v.children \in Seq(Envelope) /\ Range(v.children) = Beyond(Range(all))
        /\ Embeds(v.children, all)
    BY <1>2, <1>3, OwnProperties, Zenon
  <1>5. For(Range(all)) = For(Range(F)) \cup Range(overlays)
    BY <1>1, <1>3 DEF For, Beyond
  <1>6. Beyond(Range(all)) = Beyond(Range(F))
    BY <1>1, <1>3 DEF Beyond
  <1>7. /\ \A e \in Range(v.own) : e.libRef = << >>
        /\ \A e \in Range(v.children) : e.libRef # << >>
    BY <1>4 DEF For, Beyond
  <1> QED
    BY <1>3, <1>4, <1>5, <1>6, <1>7, Zenon DEF F, all, v, TakesApart

\* The copies that an instance takes of s: those for its library, without and
\* with after_library_module, and those for libraries below.
TakenList(s, ref) == Found(Copies(s, ref))
Befores(s, ref) == Filter(Own(TakenList(s, ref)), {e \in Range(TakenList(s, ref)) : ~e.after})
Afters(s, ref) == Filter(Own(TakenList(s, ref)), {e \in Range(TakenList(s, ref)) : e.after})
Onward(s, ref) ==
  Filter(Copies(s, ref), {e \in Range(Copies(s, ref)) : e = Nil \/ IntendedForAnotherLibrary(e)})

\* The copies that an instance takes keep the order of the envelopes.
LEMMA TakenLists ==
  ASSUME NEW s \in Seq(Envelope), NEW ref
  PROVE  LET T == Taken(Range(s), ref)
             c == Copies(s, ref)
             t == TakenList(s, ref)
         IN  /\ t \in Seq(Envelope) /\ Range(t) = T /\ Embeds(t, c)
             /\ Own(t) \in Seq(Envelope) /\ Range(Own(t)) = For(T) /\ Embeds(Own(t), c)
             /\ Children(t) \in Seq(Envelope) /\ Range(Children(t)) = Beyond(T)
             /\ Embeds(Children(t), c)
  <1> DEFINE T == Taken(Range(s), ref)
             c == Copies(s, ref)
             t == TakenList(s, ref)
  <1>1. t \in Seq(Envelope) /\ Range(t) = T /\ Embeds(t, c)
    BY CopiesProperties DEF TakenList
  <1> HIDE DEF T, c, t
  <1>2. /\ Own(t) \in Seq(Envelope) /\ Range(Own(t)) = For(T) /\ Embeds(Own(t), t)
        /\ Children(t) \in Seq(Envelope) /\ Range(Children(t)) = Beyond(T)
        /\ Embeds(Children(t), t)
    BY <1>1, OwnProperties
  <1>3. Embeds(Own(t), c) /\ Embeds(Children(t), c)
    BY <1>1, <1>2, EmbedsTrans
  <1> QED
    BY <1>1, <1>2, <1>3 DEF T, c, t

\* So do those without, and those with, after_library_module.
LEMMA OverlayLists ==
  ASSUME NEW s \in Seq(Envelope), NEW ref
  PROVE  LET T == Taken(Range(s), ref)
             c == Copies(s, ref)
         IN  /\ Befores(s, ref) \in Seq(Envelope)
             /\ Range(Befores(s, ref)) = {e \in For(T) : ~e.after}
             /\ Embeds(Befores(s, ref), c)
             /\ Afters(s, ref) \in Seq(Envelope)
             /\ Range(Afters(s, ref)) = {e \in For(T) : e.after}
             /\ Embeds(Afters(s, ref), c)
  <1> DEFINE T == Taken(Range(s), ref)
             c == Copies(s, ref)
             t == TakenList(s, ref)
             own == Own(t)
             A == {e \in Range(t) : e.after}
             B == {e \in Range(t) : ~e.after}
  <1>1. Range(t) = T /\ own \in Seq(Envelope) /\ Range(own) = For(T) /\ Embeds(own, c)
    BY TakenLists
  <1>2. Befores(s, ref) = Filter(own, B) /\ Afters(s, ref) = Filter(own, A)
    BY DEF Befores, Afters
  <1> HIDE DEF T, c, t, own
  <1>3. /\ Filter(own, B) \in Seq(Envelope) /\ Range(Filter(own, B)) = Range(own) \cap B
        /\ Embeds(Filter(own, B), own)
        /\ Filter(own, A) \in Seq(Envelope) /\ Range(Filter(own, A)) = Range(own) \cap A
        /\ Embeds(Filter(own, A), own)
    BY <1>1, FilterProperties
  <1>4. Embeds(Filter(own, B), c) /\ Embeds(Filter(own, A), c)
    BY <1>1, <1>3, EmbedsTrans
  <1>5. Range(own) \cap B = {e \in For(T) : ~e.after} /\ Range(own) \cap A = {e \in For(T) : e.after}
    BY <1>1 DEF For
  <1> HIDE DEF A, B
  <1> QED
    BY <1>2, <1>3, <1>4, <1>5 DEF T, c

\* What librarySchemas hands on: the nil copies are among it.
LEMMA OnwardList ==
  ASSUME NEW s \in Seq(Envelope), NEW ref
  PROVE  /\ Onward(s, ref) \in Seq(Envelope \cup {Nil})
         /\ Range(Onward(s, ref)) \ {Nil} = Beyond(Taken(Range(s), ref))
         /\ Embeds(Onward(s, ref), Copies(s, ref))
  <1> DEFINE c == Copies(s, ref)
             S == {e \in Range(c) : e = Nil \/ IntendedForAnotherLibrary(e)}
  <1>1. c \in Seq(Envelope \cup {Nil}) /\ Range(c) \ {Nil} = Taken(Range(s), ref)
    BY CopiesProperties
  <1>2. Onward(s, ref) = Filter(c, S)
    BY DEF Onward
  <1> HIDE DEF c
  <1>3. /\ Filter(c, S) \in Seq(Envelope \cup {Nil}) /\ Range(Filter(c, S)) = Range(c) \cap S
        /\ Embeds(Filter(c, S), c)
    BY <1>1, FilterProperties
  <1>4. (Range(c) \cap S) \ {Nil} = Beyond(Taken(Range(s), ref))
    BY <1>1 DEF Beyond, IntendedForAnotherLibrary
  <1> HIDE DEF S
  <1> QED
    BY <1>2, <1>3, <1>4 DEF c

\* The overlays that libraryValues gives to LibraryExecution.Values.
Overlays(s, ref) == Befores(s, ref) \o Afters(s, ref)

\* The overlays are the copies that are for the instance's library.
LEMMA OverlaysSets ==
  ASSUME NEW s \in Seq(Envelope), NEW ref
  PROVE  /\ Overlays(s, ref) \in Seq(Envelope)
         /\ Range(Overlays(s, ref)) = For(Taken(Range(s), ref))
         /\ Beyond(Range(Overlays(s, ref))) = {}
  <1> DEFINE T == For(Taken(Range(s), ref))
             b == Befores(s, ref)
             a == Afters(s, ref)
  <1>1. /\ b \in Seq(Envelope) /\ Range(b) = {e \in T : ~e.after}
        /\ a \in Seq(Envelope) /\ Range(a) = {e \in T : e.after}
    BY OverlayLists
  <1>2. \A e \in T : e.libRef = << >>
    BY DEF For
  <1> HIDE DEF T, a, b
  <1>3. b \o a \in Seq(Envelope) /\ Range(b \o a) = Range(b) \cup Range(a)
    BY <1>1, RangeConcat
  <1>4. Range(b) \cup Range(a) = T
    BY <1>1
  <1>5. Beyond(T) = {}
    BY <1>2 DEF Beyond
  <1> QED
    BY <1>3, <1>4, <1>5, Zenon DEF T, a, b, Overlays

\* v, as [own, children], is found with more for libraries below; it has the
\* envelopes of own and children, and perhaps nil ones.
Composed(v, found, more, own, children) ==
  /\ v.own = found.own /\ v.children = found.children \o more
  /\ v.own \in Seq(Envelope) /\ v.children \in Seq(Envelope \cup {Nil})
  /\ Range(v.own) = own /\ Range(v.children) \ {Nil} = children

\* libraryValues: the library's defaults, its files and the copies for it; what
\* is for libraries below comes from its files and from the copies.
LEMMA LibraryValuesSets ==
  ASSUME NEW s \in Seq(Envelope), NEW ref, NEW lib \in Library, NEW schema \in Seq(Envelope),
         NEW run \in Nat, NEW depth \in Nat
  PROVE  /\ Composed(libraryValues(s, ref, lib, schema, run, depth),
                     Values(lib, Overlays(s, ref), schema, run, depth),
                     Children(TakenList(s, ref)),
                     Range(DefaultDataValues(schema, run, depth))
                       \cup For(Range(ValueFiles(lib, run, depth))) \cup For(Taken(Range(s), ref)),
                     Beyond(Range(ValueFiles(lib, run, depth))) \cup Beyond(Taken(Range(s), ref)))
         /\ libraryValues(s, ref, lib, schema, run, depth).children \in Seq(Envelope)
  <1> DEFINE v == libraryValues(s, ref, lib, schema, run, depth)
             o == Overlays(s, ref)
             found == Values(lib, o, schema, run, depth)
             defaults == Range(DefaultDataValues(schema, run, depth))
             files == Range(ValueFiles(lib, run, depth))
             T == Taken(Range(s), ref)
             ch == Children(TakenList(s, ref))
  <1>1. v.own = found.own /\ v.children = found.children \o ch
    BY DEF libraryValues, TakenList, Overlays, Befores, Afters
  <1>2. o \in Seq(Envelope) /\ Range(o) = For(T) /\ Beyond(Range(o)) = {}
    BY OverlaysSets
  <1>3. ch \in Seq(Envelope) /\ Range(ch) = Beyond(T)
    BY TakenLists
  <1> HIDE DEF o
  <1>4. /\ found.own \in Seq(Envelope) /\ found.children \in Seq(Envelope)
        /\ Range(found.own) = defaults \cup For(files) \cup Range(o)
        /\ Range(found.children) = Beyond(files)
    <2>1. TakesApart(found, DefaultDataValues(schema, run, depth) \o ValueFiles(lib, run, depth) \o o,
                     defaults \cup For(files) \cup Range(o), Beyond(files))
      BY <1>2, ValuesSets
    <2> QED
      BY <2>1 DEF TakesApart
  <1> HIDE DEF v, found, defaults, files, T, ch
  <1>5. /\ found.children \o ch \in Seq(Envelope)
        /\ Range(found.children \o ch) = Range(found.children) \cup Range(ch)
    BY <1>3, <1>4, RangeConcat
  <1>6. /\ v.own = found.own /\ v.children = found.children \o ch
        /\ v.own \in Seq(Envelope) /\ v.children \in Seq(Envelope)
        /\ Range(v.own) = defaults \cup For(files) \cup For(T)
        /\ Range(v.children) = Beyond(files) \cup Beyond(T)
    BY <1>1, <1>2, <1>3, <1>4, <1>5
  <1>7. v.children \in Seq(Envelope \cup {Nil}) /\ Range(v.children) \ {Nil} = Range(v.children)
    <2>1. v.children \in Seq(Envelope \cup {Nil})
      BY <1>6, SeqMonotonic
    <2>2. Range(v.children) \subseteq Envelope
      BY <1>6, RangeIndex, Zenon
    <2> QED
      BY <2>1, <2>2, NilAssumption
  <1>8. Composed(v, found, ch, defaults \cup For(files) \cup For(T), Beyond(files) \cup Beyond(T))
    BY <1>6, <1>7 DEF Composed
  <1> QED
    BY <1>6, <1>8, Zenon DEF v, found, defaults, files, T, ch, o

\* librarySchemas: the same for schemas, which have no defaults.
LEMMA LibrarySchemasSets ==
  ASSUME NEW s \in Seq(Envelope), NEW ref, NEW lib \in Library,
         NEW run \in Nat, NEW depth \in Nat
  PROVE  Composed(librarySchemas(s, ref, lib, run, depth),
                  Schemas(lib, Own(TakenList(s, ref)), run, depth), Onward(s, ref),
                  For(Range(SchemaFiles(lib, run, depth))) \cup For(Taken(Range(s), ref)),
                  Beyond(Range(SchemaFiles(lib, run, depth))) \cup Beyond(Taken(Range(s), ref)))
  <1> DEFINE v == librarySchemas(s, ref, lib, run, depth)
             o == Own(TakenList(s, ref))
             found == Schemas(lib, o, run, depth)
             files == Range(SchemaFiles(lib, run, depth))
             T == Taken(Range(s), ref)
             ch == Onward(s, ref)
  <1>1. v.own = found.own /\ v.children = found.children \o ch
    BY DEF librarySchemas, TakenList, Onward
  <1>2. o \in Seq(Envelope) /\ Range(o) = For(T)
    BY TakenLists
  <1>3. Beyond(Range(o)) = {}
    BY <1>2 DEF For, Beyond
  <1>4. ch \in Seq(Envelope \cup {Nil}) /\ Range(ch) \ {Nil} = Beyond(T)
    BY OnwardList
  <1> HIDE DEF o
  <1>5. /\ found.own \in Seq(Envelope) /\ found.children \in Seq(Envelope)
        /\ Range(found.own) = For(files) \cup Range(o)
        /\ Range(found.children) = Beyond(files)
    <2>1. TakesApart(found, SchemaFiles(lib, run, depth) \o o,
                     For(files) \cup Range(o), Beyond(files))
      BY <1>2, <1>3, SchemasSets
    <2> QED
      BY <2>1 DEF TakesApart
  <1>6. files \subseteq Envelope
    BY FilesType, RangeIndex
  <1> HIDE DEF v, found, files, T, ch
  <1>7. found.children \in Seq(Envelope \cup {Nil})
    BY <1>5, SeqMonotonic
  <1>8. /\ found.children \o ch \in Seq(Envelope \cup {Nil})
        /\ Range(found.children \o ch) = Range(found.children) \cup Range(ch)
    BY <1>4, <1>7, RangeConcat
  <1>9. Nil \notin Beyond(files)
    BY <1>6, NilAssumption DEF Beyond
  <1>10. /\ v.own = found.own /\ v.children = found.children \o ch
         /\ v.own \in Seq(Envelope) /\ v.children \in Seq(Envelope \cup {Nil})
         /\ Range(v.own) = For(files) \cup For(T)
         /\ Range(v.children) \ {Nil} = Beyond(files) \cup Beyond(T)
    BY <1>1, <1>2, <1>4, <1>5, <1>8, <1>9
  <1>11. Composed(v, found, ch, For(files) \cup For(T), Beyond(files) \cup Beyond(T))
    BY <1>10 DEF Composed
  <1> QED
    BY <1>11, Zenon DEF v, found, files, T, ch, o

-----------------------------------------------------------------------------
(* What a library gets: the order.                                            *)

\* The ranks of an envelope, by where it comes from.
LEMMA RankValue ==
  ASSUME NEW e \in Envelope
  PROVE  /\ e.doc.via = "defaults" /\ ~e.after => Rank(e) = 0
         /\ e.doc.via \in {"file", "flag"} /\ ~e.after => Rank(e) = 1
         /\ e.doc.via = "module" /\ ~e.after => Rank(e) = 2
         /\ e.doc.via \in {"file", "flag"} /\ e.after => Rank(e) = 3
  BY DEF Rank

\* The envelopes around documents are fresh, and in the order of the documents.
LEMMA AroundSorted ==
  ASSUME NEW envs, NEW docs \in Seq(DocDecl), NEW kind, NEW via, NEW run \in Nat,
         NEW depth \in Nat, Around(envs, docs, kind, via, run, depth)
  PROVE  /\ \A e \in Range(envs) : Fresh(e, kind, via, run, depth)
         /\ Sorted(envs, DeeperPairs)
  <1>1. /\ envs \in Seq(Envelope) /\ Len(envs) \in Nat
        /\ \A k \in 1 .. Len(envs) : Seals(envs[k], docs[k], kind, via, run, depth, k)
    BY LenProperties DEF Around
  <1>2. \A k \in 1 .. Len(envs) : Fresh(envs[k], kind, via, run, depth)
    BY <1>1, SealsFresh
  <1>3. ASSUME NEW j \in 1 .. Len(envs), NEW k \in 1 .. Len(envs), j < k
        PROVE  <<envs[j], envs[k]>> \in DeeperPairs
    <2>1. Deeper(envs[j], envs[k])
      BY <1>1, <1>3 DEF Deeper, Seals
    <2> QED
      BY <1>1, <2>1 DEF DeeperPairs, Seals
  <1> QED
    BY <1>1, <1>2, <1>3, RangeIndex DEF Sorted

\* Both for the files of a library; schemas never are after_library_module.
LEMMA FilesSorted ==
  ASSUME NEW lib \in Library, NEW run \in Nat, NEW depth \in Nat
  PROVE  /\ \A e \in Range(ValueFiles(lib, run, depth)) : Fresh(e, "dv", "file", run, depth)
         /\ Sorted(ValueFiles(lib, run, depth), DeeperPairs)
         /\ \A e \in Range(SchemaFiles(lib, run, depth)) :
              Fresh(e, "schema", "file", run, depth) /\ ~e.after
         /\ Sorted(SchemaFiles(lib, run, depth), DeeperPairs)
  <1> DEFINE V == ValueFiles(lib, run, depth)
             S == SchemaFiles(lib, run, depth)
  <1>1. /\ DataValueDocs[lib] \in Seq(DocDecl) /\ SchemaDocs[lib] \in Seq(DocDecl)
        /\ SchemaDocs[lib] \in Seq(SchemaDecl)
        /\ Around(V, DataValueDocs[lib], "dv", "file", run, depth)
        /\ Around(S, SchemaDocs[lib], "schema", "file", run, depth)
    BY FilesType
  <1> HIDE DEF V, S
  <1>2. /\ \A e \in Range(V) : Fresh(e, "dv", "file", run, depth)
        /\ Sorted(V, DeeperPairs)
        /\ \A e \in Range(S) : Fresh(e, "schema", "file", run, depth)
        /\ Sorted(S, DeeperPairs)
    BY <1>1, AroundSorted, Zenon
  <1>3. ASSUME NEW e \in Range(S) PROVE ~e.after
    <2>1. S \in Seq(Envelope) /\ Len(S) = Len(SchemaDocs[lib])
      BY <1>1 DEF Around
    <2>2. PICK k \in 1 .. Len(S) : e = S[k]
      BY <2>1, RangeIndex
    <2>3. e.after = SchemaDocs[lib][k].after
      BY <1>1, <2>2 DEF Around, Seals
    <2>4. SchemaDocs[lib][k] \in SchemaDecl
      BY <1>1, <2>1, <2>2, ElementOfSeq
    <2> QED
      BY <2>3, <2>4 DEF SchemaDecl
  <1> QED
    BY <1>2, <1>3 DEF V, S

\* Pairs that are in order as long as both are for the library, or both are not.
OwnPairs == {p \in Envelope \X Envelope :
               p[1].libRef = << >> /\ p[2].libRef = << >> => Below(p[1], p[2])}
ChildPairs == {p \in Envelope \X Envelope :
                 p[1].libRef # << >> /\ p[2].libRef # << >> => Deeper(p[1], p[2])}

\* What it is for a pair to be in one of these relations.
LEMMA InPairs ==
  ASSUME NEW d \in Envelope, NEW e \in Envelope
  PROVE  /\ <<d, e>> \in DeeperPairs <=> Deeper(d, e)
         /\ <<d, e>> \in BelowPairs <=> Below(d, e)
         /\ <<d, e>> \in OwnPairs <=> (d.libRef = << >> /\ e.libRef = << >> => Below(d, e))
         /\ <<d, e>> \in ChildPairs <=> (d.libRef # << >> /\ e.libRef # << >> => Deeper(d, e))
  <1>1. d # Nil /\ e # Nil
    BY NilAssumption
  <1> DEFINE p == <<d, e>>
  <1>2. /\ p \in Envelope \X Envelope /\ p[1] = d /\ p[2] = e
        /\ p \in (Envelope \cup {Nil}) \X (Envelope \cup {Nil})
    OBVIOUS
  <1> HIDE DEF p
  <1>3. p \in DeeperPairs <=> Deeper(d, e)
    BY <1>1, <1>2, Zenon DEF DeeperPairs
  <1>4. p \in BelowPairs <=> Below(d, e)
    BY <1>2, Zenon DEF BelowPairs
  <1>5. p \in OwnPairs <=> (d.libRef = << >> /\ e.libRef = << >> => Below(d, e))
    BY <1>2, Zenon DEF OwnPairs
  <1>6. p \in ChildPairs <=> (d.libRef # << >> /\ e.libRef # << >> => Deeper(d, e))
    BY <1>2, Zenon DEF ChildPairs
  <1> QED
    BY <1>3, <1>4, <1>5, <1>6 DEF p

\* A document of the library's own: a schema default or from one of its files.
OfLibrary(d, depth) ==
  ~d.after /\ (d.doc.via = "defaults" \/ (d.doc.via = "file" /\ d.depth = depth))

\* A document that is overlaid on top of those.
AboveFiles(e, depth) ==
  e.libRef = << >> /\ \A d \in Envelope : OfLibrary(d, depth) => Below(d, e)

\* Documents of one origin, in the order of the documents, are in both orders.
LEMMA FreshSorted ==
  ASSUME NEW s \in Seq(Envelope), NEW kind, NEW via \in {"file", "flag"}, NEW run, NEW depth,
         \A e \in Range(s) : Fresh(e, kind, via, run, depth), Sorted(s, DeeperPairs)
  PROVE  Sorted(s, OwnPairs) /\ Sorted(s, ChildPairs)
  <1>1. ASSUME NEW d \in Range(s), NEW e \in Range(s), <<d, e>> \in DeeperPairs
        PROVE  <<d, e>> \in OwnPairs /\ <<d, e>> \in ChildPairs
    <2>1. /\ d \in Envelope /\ d.doc.via = via /\ (d.after => d.libRef # << >>)
          /\ e \in Envelope /\ e.doc.via = via /\ (e.after => e.libRef # << >>)
      BY DEF Fresh
    <2>2. Deeper(d, e)
      BY <1>1, <2>1, InPairs
    <2>3. ASSUME d.libRef = << >>, e.libRef = << >> PROVE Below(d, e)
      <3>1. ~d.after /\ ~e.after
        BY <2>1, <2>3
      <3>2. Rank(d) = 1 /\ Rank(e) = 1
        BY <2>1, <3>1, RankValue
      <3> QED
        BY <2>2, <3>2 DEF Below
    <2> QED
      BY <2>1, <2>2, <2>3, InPairs
  <1> QED
    BY <1>1, SortedWeaken

\* With overlays that go on top of the library's own documents, what it merges
\* is in order, and so is what it hands on.
LEMMA TakenApartSorted ==
  ASSUME NEW base \in Seq(Envelope), NEW overlays \in Seq(Envelope), NEW depth,
         Sorted(base, OwnPairs), Sorted(base, ChildPairs),
         \A d \in Range(base) : d.libRef = << >> => OfLibrary(d, depth),
         Sorted(overlays, BelowPairs), \A e \in Range(overlays) : AboveFiles(e, depth),
         NEW v, NEW own, NEW children, TakesApart(v, base \o overlays, own, children)
  PROVE  Merged(v.own) /\ Sorted(v.children, DeeperPairs)
  <1> DEFINE all == base \o overlays
  <1>1. Range(base) \subseteq Envelope /\ Range(overlays) \subseteq Envelope
    BY RangeIndex
  <1>2. \A e \in Range(overlays) : e.libRef = << >>
    BY DEF AboveFiles
  <1>3. Sorted(overlays, OwnPairs) /\ Sorted(overlays, ChildPairs)
    <2>1. ASSUME NEW d \in Range(overlays), NEW e \in Range(overlays), <<d, e>> \in BelowPairs
          PROVE  <<d, e>> \in OwnPairs /\ <<d, e>> \in ChildPairs
      BY <1>1, <1>2, <2>1, InPairs
    <2> QED
      BY <2>1, SortedWeaken
  <1>4. ASSUME NEW d \in Range(base), NEW e \in Range(overlays)
        PROVE  <<d, e>> \in OwnPairs /\ <<d, e>> \in ChildPairs
    <2>1. d.libRef = << >> => Below(d, e)
      BY <1>1 DEF AboveFiles
    <2> QED
      BY <1>1, <1>2, <2>1, InPairs
  <1>5. Sorted(all, OwnPairs) /\ Sorted(all, ChildPairs)
    BY <1>3, <1>4, SortedConcat
  <1> HIDE DEF all
  <1>6. /\ v.own \in Seq(Envelope) /\ Embeds(v.own, all)
        /\ \A e \in Range(v.own) : e.libRef = << >>
        /\ v.children \in Seq(Envelope) /\ Embeds(v.children, all)
        /\ \A e \in Range(v.children) : e.libRef # << >>
    BY DEF TakesApart, all
  <1>7. Sorted(v.own, OwnPairs) /\ Sorted(v.children, ChildPairs)
    BY <1>5, <1>6, SortedEmbeds, SMTT(30)
  <1>8. Sorted(v.own, BelowPairs)
    <2>1. ASSUME NEW d \in Range(v.own), NEW e \in Range(v.own), <<d, e>> \in OwnPairs
          PROVE  <<d, e>> \in BelowPairs
      BY <1>6, <2>1, RangeIndex, InPairs, Zenon
    <2> QED
      BY <1>6, <1>7, <2>1, SortedWeaken
  <1>9. Sorted(v.children, DeeperPairs)
    <2>1. ASSUME NEW d \in Range(v.children), NEW e \in Range(v.children), <<d, e>> \in ChildPairs
          PROVE  <<d, e>> \in DeeperPairs
      BY <1>6, <2>1, RangeIndex, InPairs, Zenon
    <2> QED
      BY <1>6, <1>7, <2>1, SortedWeaken, Zenon
  <1> QED
    BY <1>6, <1>8, <1>9 DEF Merged

\* LibraryExecution.Values merges in order, below overlays that are in order.
LEMMA ValuesSorted ==
  ASSUME NEW lib \in Library, NEW overlays \in Seq(Envelope), NEW schema \in Seq(Envelope),
         NEW run \in Nat, NEW depth \in Nat, Beyond(Range(overlays)) = {},
         Sorted(overlays, BelowPairs), \A e \in Range(overlays) : AboveFiles(e, depth)
  PROVE  /\ Merged(Values(lib, overlays, schema, run, depth).own)
         /\ Sorted(Values(lib, overlays, schema, run, depth).children, DeeperPairs)
  <1> DEFINE D == DefaultDataValues(schema, run, depth)
             F == ValueFiles(lib, run, depth)
             base == D \o F
             v == Values(lib, overlays, schema, run, depth)
             own == Range(D) \cup For(Range(F)) \cup Range(overlays)
             children == Beyond(Range(F))
  <1>1. TakesApart(v, base \o overlays, own, children)
    BY ValuesSets
  <1>2. IsDefaults(D, schema, run, depth)
    BY DefaultsShape
  <1>3. /\ F \in Seq(Envelope) /\ Sorted(F, DeeperPairs)
        /\ \A e \in Range(F) : Fresh(e, "dv", "file", run, depth)
    BY FilesType, FilesSorted, Zenon
  <1> HIDE DEF D, F, v, own, children
  <1>4. /\ D \in Seq(Envelope) /\ Len(D) \in {0, 1}
        /\ \A e \in Range(D) : /\ e \in Envelope /\ e.doc.via = "defaults"
                               /\ ~e.after /\ e.libRef = << >>
    BY <1>2 DEF IsDefaults, Fresh
  <1>5. Sorted(F, OwnPairs) /\ Sorted(F, ChildPairs)
    BY <1>3, FreshSorted, Zenon
  <1>6. Sorted(D, OwnPairs) /\ Sorted(D, ChildPairs)
    BY <1>4, SMTT(30) DEF Sorted
  <1>7. ASSUME NEW d \in Range(D), NEW e \in Range(F)
        PROVE  <<d, e>> \in OwnPairs /\ <<d, e>> \in ChildPairs
    <2>1. /\ d \in Envelope /\ d.doc.via = "defaults" /\ ~d.after /\ d.libRef = << >>
          /\ e \in Envelope /\ e.doc.via = "file" /\ (e.after => e.libRef # << >>)
      BY <1>3, <1>4 DEF Fresh
    <2>2. ASSUME e.libRef = << >> PROVE Below(d, e)
      <3>1. ~e.after
        BY <2>1, <2>2
      <3>2. Rank(d) = 0 /\ Rank(e) = 1
        BY <2>1, <3>1, RankValue, SMTT(30)
      <3> QED
        BY <3>2 DEF Below
    <2> QED
      BY <2>1, <2>2, InPairs, SMTT(30)
  <1>8. Sorted(base, OwnPairs) /\ Sorted(base, ChildPairs)
    BY <1>3, <1>4, <1>5, <1>6, <1>7, SortedConcat, SMTT(30)
  <1>9. base \in Seq(Envelope) /\ Range(base) = Range(D) \cup Range(F)
    BY <1>3, <1>4, RangeConcat
  <1> HIDE DEF base
  <1>10. ASSUME NEW d \in Range(base), d.libRef = << >> PROVE OfLibrary(d, depth)
    BY <1>3, <1>4, <1>9, <1>10 DEF Fresh, OfLibrary
  <1>11. Merged(v.own) /\ Sorted(v.children, DeeperPairs)
    BY <1>1, <1>8, <1>9, <1>10, TakenApartSorted, Zenon
  <1> QED
    BY <1>11 DEF v

\* So does LibraryExecution.Schemas.
LEMMA SchemasSorted ==
  ASSUME NEW lib \in Library, NEW overlays \in Seq(Envelope),
         NEW run \in Nat, NEW depth \in Nat, Beyond(Range(overlays)) = {},
         Sorted(overlays, BelowPairs), \A e \in Range(overlays) : AboveFiles(e, depth)
  PROVE  /\ Merged(Schemas(lib, overlays, run, depth).own)
         /\ Sorted(Schemas(lib, overlays, run, depth).children, DeeperPairs)
  <1> DEFINE F == SchemaFiles(lib, run, depth)
             v == Schemas(lib, overlays, run, depth)
             own == For(Range(F)) \cup Range(overlays)
             children == Beyond(Range(F))
  <1>1. TakesApart(v, F \o overlays, own, children)
    BY SchemasSets
  <1>2. /\ F \in Seq(Envelope) /\ Sorted(F, DeeperPairs)
        /\ \A e \in Range(F) : Fresh(e, "schema", "file", run, depth)
    BY FilesType, FilesSorted, Zenon
  <1> HIDE DEF F, v, own, children
  <1>3. Sorted(F, OwnPairs) /\ Sorted(F, ChildPairs)
    BY <1>2, FreshSorted, Zenon
  <1>4. ASSUME NEW d \in Range(F), d.libRef = << >> PROVE OfLibrary(d, depth)
    BY <1>2, <1>4 DEF Fresh, OfLibrary
  <1>5. Merged(v.own) /\ Sorted(v.children, DeeperPairs)
    BY <1>1, <1>2, <1>3, <1>4, TakenApartSorted, Zenon
  <1> QED
    BY <1>5 DEF v

-----------------------------------------------------------------------------
(* What an instance is given by the execution at this depth: the envelopes    *)
(* that the execution posts, then the ones that its templates added.          *)

Given(e, kind, run, depth) ==
  \/ Postable(e, kind, run, depth)
  \/ \E n \in Nat : Addable(e, kind, depth, n)

\* Given documents, and the copies that a library takes, are in order: those
\* with the same after_library_module, and those for libraries below.
GivenPairs == {p \in Envelope \X Envelope :
                 /\ p[1].after = p[2].after => Below(p[1], p[2])
                 /\ p[1].libRef # << >> /\ p[2].libRef # << >> => Deeper(p[1], p[2])}
CopyPairs == {p \in (Envelope \cup {Nil}) \X (Envelope \cup {Nil}) :
                p[1] # Nil /\ p[2] # Nil => p \in GivenPairs}

\* When two envelopes are in the order of given documents.
LEMMA InGivenPairs ==
  ASSUME NEW d \in Envelope, NEW e \in Envelope
  PROVE  /\ <<d, e>> \in GivenPairs <=>
              /\ d.after = e.after => Below(d, e)
              /\ d.libRef # << >> /\ e.libRef # << >> => Deeper(d, e)
         /\ <<d, e>> \in CopyPairs <=> <<d, e>> \in GivenPairs
  <1>1. d # Nil /\ e # Nil
    BY NilAssumption
  <1> DEFINE p == <<d, e>>
  <1>2. /\ p \in Envelope \X Envelope /\ p[1] = d /\ p[2] = e
        /\ p \in (Envelope \cup {Nil}) \X (Envelope \cup {Nil})
    OBVIOUS
  <1> HIDE DEF p
  <1>3. p \in GivenPairs <=> /\ d.after = e.after => Below(d, e)
                             /\ d.libRef # << >> /\ e.libRef # << >> => Deeper(d, e)
    BY <1>2, Zenon DEF GivenPairs
  <1>4. p \in CopyPairs <=> p \in GivenPairs
    BY <1>1, <1>2, Zenon DEF CopyPairs
  <1> QED
    BY <1>3, <1>4 DEF p

\* What a given envelope is like.
LEMMA GivenShape ==
  ASSUME NEW e, NEW kind, NEW run, NEW depth \in Nat, Given(e, kind, run, depth)
  PROVE  /\ e \in Envelope /\ e.depth \in Nat /\ e.depth <= depth /\ OnRoute(e)
         /\ e.doc.kind = kind
         /\ \/ e.doc.via \in {"file", "flag"} /\ ~e.after /\ Rank(e) = 1
            \/ e.doc.via \in {"file", "flag"} /\ e.after /\ Rank(e) = 3
            \/ e.doc.via = "module" /\ ~e.after /\ Rank(e) = 2
         /\ e.libRef # << >> => e.doc.run <= run /\ e.doc.via \in {"file", "flag"} /\ 1 <= e.depth
         /\ kind = "schema" => ~e.after
         /\ e.doc.via = "module" => e.original = << >>
         /\ e.doc.via \in {"file", "flag"} => e.libRef # << >>
  <1>1. CASE Postable(e, kind, run, depth)
    <2>1. e \in Envelope /\ e.doc.via \in {"file", "flag"} /\ e.after \in BOOLEAN
      BY <1>1 DEF Postable, Envelope
    <2>2. (~e.after => Rank(e) = 1) /\ (e.after => Rank(e) = 3)
      BY <2>1, RankValue
    <2>3. e.doc.via # "module"
      BY <2>1
    <2> QED
      BY <1>1, <2>1, <2>2, <2>3 DEF Postable
  <1>2. CASE \E n \in Nat : Addable(e, kind, depth, n)
    <2>1. PICK n \in Nat : Addable(e, kind, depth, n)
      BY <1>2
    <2>2. e \in Envelope /\ e.doc.via = "module" /\ ~e.after /\ Rank(e) = 2
      BY <2>1, RankValue DEF Addable
    <2>3. OnRoute(e)
      BY <2>1 DEF Addable, OnRoute, EndsWith
    <2>4. e.doc.via \notin {"file", "flag"}
      BY <2>2
    <2> QED
      BY <2>1, <2>2, <2>3, <2>4 DEF Addable
  <1> QED
    BY <1>1, <1>2, Zenon DEF Given

\* Such a document goes on top of the own ones of the library one level down.
LEMMA GivenAbove ==
  ASSUME NEW e, NEW kind, NEW run, NEW depth \in Nat, Given(e, kind, run, depth),
         NEW c \in Envelope, c.doc = e.doc, c.depth = e.depth, c.after = e.after, c.libRef = << >>
  PROVE  AboveFiles(c, depth + 1)
  <1> SUFFICES ASSUME NEW d \in Envelope, OfLibrary(d, depth + 1) PROVE Below(d, c)
    BY DEF AboveFiles
  <1>1. /\ e \in Envelope /\ e.depth \in Nat /\ e.depth <= depth
        /\ Rank(e) \in {1, 2, 3}
        /\ Rank(e) = 1 => e.doc.via \in {"file", "flag"} /\ ~e.after
    BY GivenShape
  <1>2. Rank(c) = Rank(e)
    BY DEF Rank
  <1>3. CASE d.doc.via = "defaults"
    <2>1. Rank(d) = 0
      BY <1>3, RankValue DEF OfLibrary
    <2> QED
      BY <1>1, <1>2, <2>1 DEF Below
  <1>4. CASE d.doc.via = "file" /\ d.depth = depth + 1
    <2>1. Rank(d) = 1
      BY <1>4, RankValue DEF OfLibrary
    <2>2. Deeper(d, c)
      BY <1>1, <1>4 DEF Deeper
    <2> QED
      BY <1>1, <1>2, <2>1, <2>2 DEF Below
  <1> QED
    BY <1>3, <1>4 DEF OfLibrary

\* The list given to an instance.
LEMMA GivenSorted ==
  ASSUME NEW posted \in Seq(Envelope), NEW added \in Seq(Envelope), NEW kind, NEW run,
         NEW depth \in Nat, NEW n \in Nat,
         \A e \in Range(posted) : Postable(e, kind, run, depth), Sorted(posted, DeeperPairs),
         \A e \in Range(added) : Addable(e, kind, depth, n), Sorted(added, DeeperPairs)
  PROVE  /\ posted \o added \in Seq(Envelope) /\ Sorted(posted \o added, GivenPairs)
         /\ Range(posted \o added) = Range(posted) \cup Range(added)
         /\ \A e \in Range(posted \o added) : Given(e, kind, run, depth)
  <1>1. Range(posted) \subseteq Envelope /\ Range(added) \subseteq Envelope
    BY RangeIndex
  <1>2. posted \o added \in Seq(Envelope) /\ Range(posted \o added) = Range(posted) \cup Range(added)
    BY RangeConcat
  <1>3. \A e \in Range(posted) \cup Range(added) : Given(e, kind, run, depth)
    BY DEF Given
  <1>4. ASSUME NEW d \in Range(posted), NEW e \in Range(posted), <<d, e>> \in DeeperPairs
        PROVE  <<d, e>> \in GivenPairs
    <2>1. d \in Envelope /\ e \in Envelope /\ Deeper(d, e)
      BY <1>1, <1>4, InPairs
    <2>2. d.doc.via \in {"file", "flag"} /\ e.doc.via \in {"file", "flag"}
      BY DEF Postable
    <2>3. ASSUME d.after = e.after PROVE Rank(d) = Rank(e)
      <3>1. d.after \in BOOLEAN
        BY <2>1 DEF Envelope
      <3>2. CASE d.after
        BY <2>1, <2>2, <2>3, <3>2, RankValue, Zenon
      <3>3. CASE ~d.after
        BY <2>1, <2>2, <2>3, <3>3, RankValue, SMTT(30)
      <3> QED
        BY <3>2, <3>3
    <2> QED
      BY <2>1, <2>3, InGivenPairs, SMTT(30) DEF Below
  <1>5. ASSUME NEW d \in Range(added), NEW e \in Range(added), <<d, e>> \in DeeperPairs
        PROVE  <<d, e>> \in GivenPairs
    <2>1. d \in Envelope /\ e \in Envelope /\ Deeper(d, e)
      BY <1>1, <1>5, InPairs, SMTT(30)
    <2>2. Rank(d) = 2 /\ Rank(e) = 2
      BY <2>1, RankValue DEF Addable
    <2> QED
      BY <2>1, <2>2, InGivenPairs, SMTT(30) DEF Below
  <1>6. ASSUME NEW d \in Range(posted), NEW e \in Range(added) PROVE <<d, e>> \in GivenPairs
    <2>1. d \in Envelope /\ e \in Envelope
      BY <1>1
    <2>2. e.doc.via = "module" /\ ~e.after /\ e.libRef = << >> /\ d.doc.via \in {"file", "flag"}
      BY DEF Addable, Postable
    <2>3. ASSUME d.after = e.after PROVE Below(d, e)
      <3>1. ~d.after
        BY <2>2, <2>3, SMTT(30)
      <3>2. Rank(d) = 1 /\ Rank(e) = 2
        BY <2>1, <2>2, <3>1, RankValue
      <3> QED
        BY <3>2, SMTT(30) DEF Below
    <2> QED
      BY <2>1, <2>2, <2>3, InGivenPairs
  <1>7. Sorted(posted, GivenPairs) /\ Sorted(added, GivenPairs)
    BY <1>4, <1>5, SortedWeaken
  <1>8. Sorted(posted \o added, GivenPairs)
    BY <1>6, <1>7, SortedConcat
  <1> QED
    BY <1>2, <1>3, <1>8

\* A list of given envelopes.
GivenList(s, kind, run, depth) ==
  /\ s \in Seq(Envelope) /\ Sorted(s, GivenPairs)
  /\ \A e \in Range(s) : Given(e, kind, run, depth)

\* The order survives the copying: an address only becomes shorter.
LEMMA CopiesSorted ==
  ASSUME NEW s \in Seq(Envelope), NEW ref, Sorted(s, GivenPairs)
  PROVE  Sorted(Copies(s, ref), CopyPairs)
  <1> DEFINE c == Copies(s, ref)
  <1>1. /\ c \in Seq(Envelope \cup {Nil}) /\ Len(c) = Len(s)
        /\ \A k \in 1 .. Len(s) : c[k] = UsedInLibrary(s[k], ref)
    BY CopiesProperties
  <1> HIDE DEF c
  <1>2. ASSUME NEW j \in 1 .. Len(c), NEW k \in 1 .. Len(c), j < k
        PROVE  <<c[j], c[k]>> \in CopyPairs
    <2>1. s[j] \in Envelope /\ s[k] \in Envelope
      BY <1>1, ElementOfSeq
    <2>2. <<s[j], s[k]>> \in GivenPairs
      BY <1>1, <1>2 DEF Sorted
    <2>3. CASE c[j] = Nil \/ c[k] = Nil
      <3> DEFINE p == <<c[j], c[k]>>
      <3>1. /\ p \in (Envelope \cup {Nil}) \X (Envelope \cup {Nil})
            /\ p[1] = c[j] /\ p[2] = c[k]
        BY <1>1, ElementOfSeq
      <3> HIDE DEF p
      <3>2. p \in CopyPairs
        BY <2>3, <3>1, Zenon DEF CopyPairs
      <3> QED
        BY <3>2 DEF p
    <2>4. CASE c[j] # Nil /\ c[k] # Nil
      <3>1. /\ c[j] \in Envelope /\ c[j].doc = s[j].doc /\ c[j].depth = s[j].depth
            /\ c[j].after = s[j].after /\ (s[j].libRef = << >> => c[j].libRef = << >>)
        <4>1. s[j] \in Envelope /\ c[j] = UsedInLibrary(s[j], ref)
          BY <1>1, <2>1
        <4> QED
          BY <2>4, <4>1, UsedInLibraryShape, Zenon
      <3>2. /\ c[k] \in Envelope /\ c[k].doc = s[k].doc /\ c[k].depth = s[k].depth
            /\ c[k].after = s[k].after /\ (s[k].libRef = << >> => c[k].libRef = << >>)
        <4>1. s[k] \in Envelope /\ c[k] = UsedInLibrary(s[k], ref)
          BY <1>1, <2>1
        <4> QED
          BY <2>4, <4>1, UsedInLibraryShape, ZenonT(40)
      <3>3. Deeper(s[j], s[k]) => Deeper(c[j], c[k])
        BY <3>1, <3>2 DEF Deeper
      <3>4. Below(s[j], s[k]) => Below(c[j], c[k])
        BY <3>1, <3>2, Zenon DEF Deeper, Below, Rank
      <3> QED
        BY <2>1, <2>2, <3>1, <3>2, <3>3, <3>4, InGivenPairs
    <2> QED
      BY <2>3, <2>4
  <1> QED
    BY <1>2 DEF Sorted, c

\* What is left of the envelopes that an instance takes.
LEMMA TakenGiven ==
  ASSUME NEW E, NEW ref, NEW kind, NEW run, NEW depth \in Nat,
         \A e \in E : Given(e, kind, run, depth), NEW c \in Taken(E, ref)
  PROVE  /\ c \in Envelope /\ c.depth \in Nat /\ c.depth <= depth
         /\ c.libRef = << >> =>
              /\ AboveFiles(c, depth + 1)
              /\ IF c.after THEN Rank(c) = 3 ELSE Rank(c) \in {1, 2}
         /\ kind = "schema" => ~c.after
         /\ c.libRef # << >> => Postable(c, kind, run, depth)
  <1>1. PICK e \in E : c = UsedInLibrary(e, ref) /\ c # Nil
    BY DEF Taken
  <1>2. Given(e, kind, run, depth)
    OBVIOUS
  <1>3. /\ e \in Envelope /\ e.depth \in Nat /\ e.depth <= depth /\ OnRoute(e)
        /\ e.doc.kind = kind /\ (kind = "schema" => ~e.after)
        /\ e.libRef # << >> => e.doc.run <= run /\ e.doc.via \in {"file", "flag"} /\ 1 <= e.depth
        /\ IF e.after THEN Rank(e) = 3 ELSE Rank(e) \in {1, 2}
    BY <1>2, GivenShape
  <1>4. /\ c \in Envelope /\ c.doc = e.doc /\ c.depth = e.depth /\ c.after = e.after
        /\ e.libRef = << >> => c.libRef = << >>
    BY <1>1, <1>3, UsedInLibraryShape, Zenon
  <1>5. OnRoute(c)
    BY <1>1, <1>3, UsedInLibraryShape, Zenon
  <1>6. Rank(c) = Rank(e)
    BY <1>4 DEF Rank
  <1>7. c.libRef = << >> => AboveFiles(c, depth + 1)
    BY <1>2, <1>4, GivenAbove, Zenon
  <1>8. c.libRef # << >> => Postable(c, kind, run, depth)
    BY <1>3, <1>4, <1>5 DEF Postable
  <1> QED
    BY <1>3, <1>4, <1>6, <1>7, <1>8

\* The overlays for the library's own data values are in order: first those
\* that are not after_library_module, then those that are.
LEMMA OverlaysSorted ==
  ASSUME NEW s, NEW ref, NEW kind, NEW run, NEW depth \in Nat, GivenList(s, kind, run, depth)
  PROVE  /\ Sorted(Overlays(s, ref), BelowPairs)
         /\ \A e \in Range(Overlays(s, ref)) : AboveFiles(e, depth + 1)
  <1> DEFINE T == Taken(Range(s), ref)
             c == Copies(s, ref)
             b == Befores(s, ref)
             a == Afters(s, ref)
  <1>1. s \in Seq(Envelope) /\ Sorted(s, GivenPairs) /\ \A e \in Range(s) : Given(e, kind, run, depth)
    BY DEF GivenList
  <1>2. /\ b \in Seq(Envelope) /\ Range(b) = {e \in For(T) : ~e.after} /\ Embeds(b, c)
        /\ a \in Seq(Envelope) /\ Range(a) = {e \in For(T) : e.after} /\ Embeds(a, c)
    BY <1>1, OverlayLists
  <1>3. Sorted(c, CopyPairs)
    BY <1>1, CopiesSorted
  <1>4. \A e \in T : /\ e \in Envelope
                     /\ e.libRef = << >> =>
                          /\ AboveFiles(e, depth + 1)
                          /\ IF e.after THEN Rank(e) = 3 ELSE Rank(e) \in {1, 2}
    BY <1>1, TakenGiven, Zenon
  <1>5. Range(Overlays(s, ref)) = For(T)
    BY <1>1, OverlaysSets
  <1> HIDE DEF T, c, b, a
  <1>6. Sorted(b, CopyPairs) /\ Sorted(a, CopyPairs)
    BY <1>2, <1>3, SortedEmbeds, SMTT(30)
  <1>7. ASSUME NEW d \in Range(b), NEW e \in Range(b), <<d, e>> \in CopyPairs
        PROVE  <<d, e>> \in BelowPairs
    <2>1. d \in Envelope /\ e \in Envelope /\ ~d.after /\ ~e.after
      BY <1>2, <1>4 DEF For
    <2>2. d.after = e.after
      BY <2>1 DEF Envelope
    <2> QED
      BY <1>7, <2>1, <2>2, InGivenPairs, InPairs
  <1>8. ASSUME NEW d \in Range(a), NEW e \in Range(a), <<d, e>> \in CopyPairs
        PROVE  <<d, e>> \in BelowPairs
    <2>1. d \in Envelope /\ e \in Envelope /\ d.after /\ e.after
      BY <1>2, <1>4 DEF For
    <2>2. d.after = e.after
      BY <2>1 DEF Envelope
    <2> QED
      BY <1>8, <2>1, <2>2, InGivenPairs, InPairs, Zenon
  <1>9. ASSUME NEW d \in Range(b), NEW e \in Range(a) PROVE <<d, e>> \in BelowPairs
    <2>1. d \in T /\ e \in T /\ d.libRef = << >> /\ e.libRef = << >> /\ ~d.after /\ e.after
      BY <1>2 DEF For
    <2>2. d \in Envelope /\ e \in Envelope /\ Rank(d) \in {1, 2} /\ Rank(e) = 3
      BY <1>4, <2>1
    <2>3. Below(d, e)
      BY <2>2 DEF Below
    <2> QED
      BY <2>2, <2>3, InPairs
  <1>10. Sorted(b, BelowPairs) /\ Sorted(a, BelowPairs)
    BY <1>2, <1>6, <1>7, <1>8, SortedWeaken
  <1>11. Sorted(b \o a, BelowPairs)
    BY <1>2, <1>9, <1>10, SortedConcat
  <1>12. \A e \in For(T) : AboveFiles(e, depth + 1)
    BY <1>4 DEF For
  <1> QED
    BY <1>5, <1>11, <1>12 DEF Overlays, a, b

\* The envelopes for libraries below that a library declares itself, and those
\* that it takes over from the execution one level up.
LEMMA FreshPostable ==
  ASSUME NEW e, NEW kind, NEW via \in {"file", "flag"}, NEW run \in Nat, NEW depth \in Nat,
         1 <= depth, Fresh(e, kind, via, run, depth), e.libRef # << >>,
         kind = "schema" => ~e.after
  PROVE  Postable(e, kind, run, depth)
  <1>1. e.libRef \in Seq(LibraryRef)
    BY DEF Fresh, Envelope
  <1>2. Len(e.libRef) \in Nat
    BY <1>1, LenProperties
  <1>3. OnRoute(e)
    BY <1>2 DEF OnRoute, EndsWith, Fresh
  <1> QED
    BY <1>3 DEF Fresh, Postable

\* What may be posted may be posted again one library further down.
LEMMA PostableBelow ==
  ASSUME NEW e, NEW kind, NEW r \in Nat, NEW d \in Nat, Postable(e, kind, r, d),
         NEW run \in Nat, r <= run
  PROVE  Postable(e, kind, run, d + 1)
  <1>1. e.doc.run \in Nat /\ e.depth \in 1 .. d
    BY DEF Postable, Envelope, Document
  <1> QED
    BY <1>1 DEF Postable

\* A nil envelope is in order with everything.
LEMMA NilPairs ==
  ASSUME NEW a \in Envelope \cup {Nil}, NEW b \in Envelope \cup {Nil}, a = Nil \/ b = Nil
  PROVE  <<a, b>> \in DeeperPairs
  <1> DEFINE p == <<a, b>>
  <1>1. p \in (Envelope \cup {Nil}) \X (Envelope \cup {Nil}) /\ p[1] = a /\ p[2] = b
    OBVIOUS
  <1> HIDE DEF p
  <1>2. p \in DeeperPairs
    BY <1>1, Zenon DEF DeeperPairs
  <1> QED
    BY <1>2 DEF p

\* What one library gets, as [own, children], is well-formed and in order.
ResultOK(v, kind, run, depth) ==
  /\ v.own \in Seq(Envelope) /\ Merged(v.own)
  /\ v.children \in Seq(Envelope \cup {Nil}) /\ Sorted(v.children, DeeperPairs)
  /\ \A e \in Range(v.children) \ {Nil} : Postable(e, kind, run, depth)

\* libraryValues merges in order, and posts envelopes in order.
LEMMA LibraryValuesOK ==
  ASSUME NEW s, NEW ref, NEW lib \in Library, NEW schema \in Seq(Envelope),
         NEW r \in Nat, NEW run \in Nat, NEW d \in Nat, GivenList(s, "dv", r, d), r <= run
  PROVE  /\ ResultOK(libraryValues(s, ref, lib, schema, run, d + 1), "dv", run, d + 1)
         /\ libraryValues(s, ref, lib, schema, run, d + 1).children \in Seq(Envelope)
  <1> DEFINE v == libraryValues(s, ref, lib, schema, run, d + 1)
             o == Overlays(s, ref)
             found == Values(lib, o, schema, run, d + 1)
             F == ValueFiles(lib, run, d + 1)
             T == Taken(Range(s), ref)
             ch == Children(TakenList(s, ref))
  <1>1. s \in Seq(Envelope) /\ Sorted(s, GivenPairs) /\ \A e \in Range(s) : Given(e, "dv", r, d)
    BY DEF GivenList
  <1>2. d + 1 \in Nat
    OBVIOUS
  <1>3. /\ v.own = found.own /\ v.children = found.children \o ch
        /\ v.own \in Seq(Envelope) /\ v.children \in Seq(Envelope)
        /\ Range(v.children) = Beyond(Range(F)) \cup Beyond(T)
    <2>1. /\ Composed(v, found, ch,
                      Range(DefaultDataValues(schema, run, d + 1)) \cup For(Range(F)) \cup For(T),
                      Beyond(Range(F)) \cup Beyond(T))
          /\ v.children \in Seq(Envelope)
      BY <1>1, <1>2, LibraryValuesSets, Zenon
    <2> HIDE DEF v, found, F, T, ch
    <2>2. Range(v.children) \ {Nil} = Range(v.children)
      <3>1. Range(v.children) \subseteq Envelope
        BY <2>1, RangeIndex, Zenon
      <3> QED
        BY <3>1, NilAssumption, Zenon
    <2> QED
      BY <2>1, <2>2, Zenon DEF Composed
  <1>4. o \in Seq(Envelope) /\ Beyond(Range(o)) = {}
    BY <1>1, OverlaysSets
  <1>5. Sorted(o, BelowPairs) /\ \A e \in Range(o) : AboveFiles(e, d + 1)
    BY OverlaysSorted
  <1>6. ch \in Seq(Envelope) /\ Range(ch) = Beyond(T) /\ Embeds(ch, Copies(s, ref))
    BY <1>1, TakenLists
  <1>7. Sorted(Copies(s, ref), CopyPairs)
    BY <1>1, CopiesSorted
  <1>8. \A e \in Range(F) : Fresh(e, "dv", "file", run, d + 1)
    BY <1>2, FilesSorted
  <1>9. \A c \in T : c \in Envelope /\ (c.libRef # << >> => Postable(c, "dv", r, d))
    BY <1>1, TakenGiven, Zenon
  <1> HIDE DEF o
  <1>10. Merged(found.own) /\ Sorted(found.children, DeeperPairs)
    BY <1>2, <1>4, <1>5, ValuesSorted
  <1>11. found.children \in Seq(Envelope) /\ Range(found.children) = Beyond(Range(F))
    <2>1. TakesApart(found, DefaultDataValues(schema, run, d + 1) \o F \o o,
                     Range(DefaultDataValues(schema, run, d + 1)) \cup For(Range(F)) \cup Range(o),
                     Beyond(Range(F)))
      BY <1>2, <1>4, ValuesSets
    <2> QED
      BY <2>1, Zenon DEF TakesApart
  <1> HIDE DEF v, found, F, T, ch
  <1>12. \A e \in Beyond(T) : e \in Envelope /\ e.libRef # << >> /\ Postable(e, "dv", r, d)
    BY <1>9 DEF Beyond
  <1>13. \A e \in Beyond(Range(F)) : /\ e \in Envelope /\ e.libRef # << >>
                                     /\ Fresh(e, "dv", "file", run, d + 1)
    BY <1>8 DEF Beyond, Fresh
  <1>14. Sorted(ch, DeeperPairs)
    <2>1. Sorted(ch, CopyPairs)
      BY <1>6, <1>7, SortedEmbeds
    <2>2. ASSUME NEW a \in Range(ch), NEW b \in Range(ch), <<a, b>> \in CopyPairs
          PROVE  <<a, b>> \in DeeperPairs
      BY <1>6, <1>12, <2>2, InGivenPairs, InPairs, Zenon
    <2> QED
      BY <1>6, <2>1, <2>2, SortedWeaken
  <1>15. ASSUME NEW a \in Range(found.children), NEW b \in Range(ch)
         PROVE  <<a, b>> \in DeeperPairs
    <2>1. a \in Envelope /\ a.depth = d + 1
      BY <1>11, <1>13, SMTT(30) DEF Fresh
    <2>2. b \in Envelope /\ b.depth \in 1 .. d
      BY <1>6, <1>12 DEF Postable
    <2>3. Deeper(a, b)
      BY <2>1, <2>2 DEF Deeper
    <2> QED
      BY <2>1, <2>2, <2>3, InPairs, Zenon
  <1>16. Sorted(v.children, DeeperPairs)
    BY <1>3, <1>6, <1>10, <1>11, <1>14, <1>15, SortedConcat, Zenon
  <1>17. ASSUME NEW e \in Range(v.children) \ {Nil} PROVE Postable(e, "dv", run, d + 1)
    <2>1. CASE e \in Beyond(Range(F))
      BY <1>2, <1>13, <2>1, FreshPostable
    <2>2. CASE e \in Beyond(T)
      BY <1>12, <2>2, PostableBelow
    <2> QED
      BY <1>3, <2>1, <2>2
  <1>18. v.children \in Seq(Envelope \cup {Nil})
    BY <1>3, SeqMonotonic
  <1>19. ResultOK(v, "dv", run, d + 1)
    BY <1>3, <1>10, <1>16, <1>17, <1>18 DEF ResultOK
  <1> QED
    BY <1>3, <1>19, Zenon DEF v

\* So does librarySchemas.
LEMMA LibrarySchemasOK ==
  ASSUME NEW s, NEW ref, NEW lib \in Library, NEW r \in Nat, NEW run \in Nat, NEW d \in Nat,
         GivenList(s, "schema", r, d), r <= run
  PROVE  ResultOK(librarySchemas(s, ref, lib, run, d + 1), "schema", run, d + 1)
  <1> DEFINE v == librarySchemas(s, ref, lib, run, d + 1)
             t == TakenList(s, ref)
             o == Own(t)
             found == Schemas(lib, o, run, d + 1)
             F == SchemaFiles(lib, run, d + 1)
             T == Taken(Range(s), ref)
             ch == Onward(s, ref)
  <1>1. /\ s \in Seq(Envelope) /\ Sorted(s, GivenPairs)
        /\ \A e \in Range(s) : Given(e, "schema", r, d)
    BY DEF GivenList
  <1>2. d + 1 \in Nat
    OBVIOUS
  <1>3. /\ v.own = found.own /\ v.children = found.children \o ch
        /\ v.own \in Seq(Envelope) /\ v.children \in Seq(Envelope \cup {Nil})
        /\ Range(v.children) \ {Nil} = Beyond(Range(F)) \cup Beyond(T)
    <2>1. Composed(v, found, ch, For(Range(F)) \cup For(T), Beyond(Range(F)) \cup Beyond(T))
      BY <1>1, <1>2, LibrarySchemasSets
    <2> QED
      BY <2>1, Zenon DEF Composed
  <1>4. o \in Seq(Envelope) /\ Range(o) = For(T) /\ Embeds(o, Copies(s, ref))
    BY <1>1, TakenLists
  <1>5. /\ ch \in Seq(Envelope \cup {Nil}) /\ Range(ch) \ {Nil} = Beyond(T)
        /\ Embeds(ch, Copies(s, ref))
    BY <1>1, OnwardList
  <1>6. Sorted(Copies(s, ref), CopyPairs)
    BY <1>1, CopiesSorted
  <1>7. \A e \in Range(F) : Fresh(e, "schema", "file", run, d + 1) /\ ~e.after
    BY <1>2, FilesSorted
  <1>8. \A c \in T : /\ c \in Envelope /\ ~c.after
                     /\ c.libRef # << >> => Postable(c, "schema", r, d)
                     /\ c.libRef = << >> => AboveFiles(c, d + 1)
    BY <1>1, TakenGiven, Zenon
  <1> HIDE DEF t, o, T, ch
  <1>9. Beyond(Range(o)) = {} /\ \A e \in Range(o) : AboveFiles(e, d + 1)
    BY <1>4, <1>8 DEF For, Beyond
  <1>10. Sorted(o, BelowPairs)
    <2>1. Sorted(o, CopyPairs)
      BY <1>4, <1>6, SortedEmbeds, SMTT(30)
    <2>2. ASSUME NEW a \in Range(o), NEW b \in Range(o), <<a, b>> \in CopyPairs
          PROVE  <<a, b>> \in BelowPairs
      <3>1. a \in Envelope /\ b \in Envelope /\ ~a.after /\ ~b.after
        BY <1>4, <1>8 DEF For
      <3>2. a.after = b.after
        BY <3>1 DEF Envelope
      <3> QED
        BY <2>2, <3>1, <3>2, InGivenPairs, InPairs, SMTT(30)
    <2> QED
      BY <1>4, <2>1, <2>2, SortedWeaken
  <1>11. Merged(found.own) /\ Sorted(found.children, DeeperPairs)
    BY <1>2, <1>4, <1>9, <1>10, SchemasSorted
  <1>12. found.children \in Seq(Envelope) /\ Range(found.children) = Beyond(Range(F))
    <2>1. TakesApart(found, F \o o, For(Range(F)) \cup Range(o), Beyond(Range(F)))
      BY <1>2, <1>4, <1>9, SchemasSets
    <2> QED
      BY <2>1, Zenon DEF TakesApart
  <1> HIDE DEF v, found, F
  <1>13. \A e \in Beyond(T) : e \in Envelope /\ e.libRef # << >> /\ Postable(e, "schema", r, d)
    BY <1>8 DEF Beyond
  <1>14. \A e \in Beyond(Range(F)) : /\ e \in Envelope /\ e.libRef # << >> /\ ~e.after
                                     /\ Fresh(e, "schema", "file", run, d + 1)
    BY <1>7 DEF Beyond, Fresh
  <1>15. Sorted(ch, DeeperPairs)
    <2>1. Sorted(ch, CopyPairs)
      BY <1>5, <1>6, SortedEmbeds
    <2>2. ASSUME NEW a \in Range(ch), NEW b \in Range(ch), <<a, b>> \in CopyPairs
          PROVE  <<a, b>> \in DeeperPairs
      <3>1. CASE a # Nil /\ b # Nil
        BY <1>5, <1>13, <2>2, <3>1, InGivenPairs, InPairs, Zenon
      <3>2. CASE a = Nil \/ b = Nil
        BY <1>5, <3>2, NilPairs, RangeIndex
      <3> QED
        BY <3>1, <3>2
    <2> QED
      BY <1>5, <2>1, <2>2, SortedWeaken
  <1>16. ASSUME NEW a \in Range(found.children), NEW b \in Range(ch)
         PROVE  <<a, b>> \in DeeperPairs
    <2>1. a \in Envelope /\ a.depth = d + 1
      BY <1>12, <1>14 DEF Fresh
    <2>2. CASE b # Nil
      <3>1. b \in Envelope /\ b.depth \in 1 .. d
        BY <1>5, <1>13, <2>2, Zenon DEF Postable
      <3>2. Deeper(a, b)
        BY <2>1, <3>1 DEF Deeper
      <3> QED
        BY <2>1, <3>1, <3>2, InPairs
    <2>3. CASE b = Nil
      BY <2>1, <2>3, NilPairs
    <2> QED
      BY <2>2, <2>3
  <1>17. found.children \in Seq(Envelope \cup {Nil})
    BY <1>12, SeqMonotonic
  <1>18. Sorted(v.children, DeeperPairs)
    <2>1. Sorted(found.children \o ch, DeeperPairs)
      BY <1>5, <1>11, <1>15, <1>16, <1>17, SortedConcat, Zenon
    <2> QED
      BY <1>3, <2>1, Zenon
  <1>19. ASSUME NEW e \in Range(v.children) \ {Nil} PROVE Postable(e, "schema", run, d + 1)
    <2>1. CASE e \in Beyond(Range(F))
      BY <1>2, <1>14, <2>1, FreshPostable
    <2>2. CASE e \in Beyond(T)
      BY <1>13, <2>2, PostableBelow
    <2> QED
      BY <1>3, <2>1, <2>2
  <1>20. ResultOK(v, "schema", run, d + 1)
    BY <1>3, <1>11, <1>18, <1>19 DEF ResultOK
  <1> QED
    BY <1>20 DEF v

-----------------------------------------------------------------------------
(* What is merged does not depend on how many executions there were before.   *)

\* Envelopes around the same document, in different executions of its library.
SameDocument(a, b) == /\ a.depth = b.depth /\ a.doc.via = b.doc.via /\ a.doc.pos = b.doc.pos
                      /\ a.libRef = b.libRef

Alike(s, t) == /\ s \in Seq(Envelope) /\ t \in Seq(Envelope) /\ Len(t) = Len(s)
               /\ \A k \in 1 .. Len(s) : SameDocument(s[k], t[k])

\* A list is like itself.
LEMMA AlikeSelf ==
  ASSUME NEW s \in Seq(Envelope)
  PROVE  Alike(s, s)
  BY DEF Alike, SameDocument

\* Envelopes around the same documents in two executions are alike.
LEMMA AroundAlike ==
  ASSUME NEW s, NEW t, NEW docs, NEW kind, NEW via, NEW q, NEW r, NEW depth,
         Around(s, docs, kind, via, q, depth), Around(t, docs, kind, via, r, depth)
  PROVE  Alike(s, t)
  <1>1. s \in Seq(Envelope) /\ t \in Seq(Envelope) /\ Len(t) = Len(s)
    BY DEF Around
  <1>2. ASSUME NEW k \in 1 .. Len(s) PROVE SameDocument(s[k], t[k])
    <2>1. Seals(s[k], docs[k], kind, via, q, depth, k) /\ Seals(t[k], docs[k], kind, via, r, depth, k)
      BY <1>1, Zenon DEF Around
    <2> QED
      BY <2>1, Zenon DEF Seals, SameDocument
  <1> QED
    BY <1>1, <1>2 DEF Alike

\* Concatenations of like lists are alike.
LEMMA ConcatAlike ==
  ASSUME NEW s, NEW t, Alike(s, t), NEW u, NEW w, Alike(u, w)
  PROVE  Alike(s \o u, t \o w)
  <1> DEFINE a == s \o u
             b == t \o w
  <1>1. /\ s \in Seq(Envelope) /\ t \in Seq(Envelope) /\ Len(t) = Len(s) /\ Len(s) \in Nat
        /\ u \in Seq(Envelope) /\ w \in Seq(Envelope) /\ Len(w) = Len(u) /\ Len(u) \in Nat
    BY LenProperties DEF Alike
  <1>2. /\ a \in Seq(Envelope) /\ Len(a) = Len(s) + Len(u)
        /\ \A i \in 1 .. Len(s) + Len(u) : a[i] = IF i <= Len(s) THEN s[i] ELSE u[i - Len(s)]
    BY <1>1, ConcatProperties
  <1>3. /\ b \in Seq(Envelope) /\ Len(b) = Len(t) + Len(w)
        /\ \A i \in 1 .. Len(t) + Len(w) : b[i] = IF i <= Len(t) THEN t[i] ELSE w[i - Len(t)]
    BY <1>1, ConcatProperties, Zenon
  <1> HIDE DEF a, b
  <1>4. ASSUME NEW k \in 1 .. Len(a) PROVE SameDocument(a[k], b[k])
    <2>1. CASE k <= Len(s)
      <3>1. k \in 1 .. Len(s) /\ a[k] = s[k] /\ b[k] = t[k]
        BY <1>1, <1>2, <1>3, <2>1
      <3> QED
        BY <3>1 DEF Alike
    <2>2. CASE ~(k <= Len(s))
      <3> DEFINE m == k - Len(s)
      <3>1. m \in 1 .. Len(u) /\ a[k] = u[m] /\ b[k] = w[m]
        BY <1>1, <1>2, <1>3, <2>2
      <3> HIDE DEF m
      <3> QED
        BY <3>1 DEF Alike
    <2> QED
      BY <2>1, <2>2
  <1>5. Len(b) = Len(a)
    BY <1>1, <1>2, <1>3
  <1>6. Alike(a, b)
    BY <1>2, <1>3, <1>4, <1>5 DEF Alike
  <1> QED
    BY <1>6 DEF a, b

\* What like lists have for the library is alike.
LEMMA OwnAlike ==
  ASSUME NEW s, NEW t, Alike(s, t)
  PROVE  Alike(Own(s), Own(t))
  <1> DEFINE S == {e \in Range(s) : ~IntendedForAnotherLibrary(e)}
             T == {e \in Range(t) : ~IntendedForAnotherLibrary(e)}
             a == Filter(s, S)
             b == Filter(t, T)
  <1>1. s \in Seq(Envelope) /\ t \in Seq(Envelope) /\ Len(s) = Len(t)
    BY DEF Alike
  <1>2. ASSUME NEW k \in 1 .. Len(s) PROVE s[k] \in S <=> t[k] \in T
    <2>1. s[k] \in Range(s) /\ t[k] \in Range(t)
      BY <1>1, RangeIndex
    <2>2. s[k].libRef = t[k].libRef
      BY DEF Alike, SameDocument
    <2> QED
      BY <2>1, <2>2 DEF IntendedForAnotherLibrary
  <1>3. Own(s) = a /\ Own(t) = b
    BY DEF Own
  <1>4. a \in Seq(Envelope) /\ b \in Seq(Envelope)
    BY <1>1, FilterProperties
  <1> HIDE DEF S, T
  <1>5. /\ Len(a) = Len(b)
        /\ \A k \in 1 .. Len(a) : \E p \in 1 .. Len(s) : a[k] = s[p] /\ b[k] = t[p]
    BY <1>1, <1>2, FilterAlike
  <1> HIDE DEF a, b
  <1>6. \A k \in 1 .. Len(a) : SameDocument(a[k], b[k])
    BY <1>5 DEF Alike
  <1> QED
    BY <1>3, <1>4, <1>5, <1>6 DEF Alike

\* Like lists have the same layers.
LEMMA LayersAlike ==
  ASSUME NEW s, NEW t, Alike(s, t)
  PROVE  Layers(s) = Layers(t)
  <1>1. DOMAIN s = 1 .. Len(s) /\ DOMAIN t = 1 .. Len(s)
    BY LenProperties DEF Alike
  <1>2. \A k \in 1 .. Len(s) : <<s[k].depth, s[k].doc.via, s[k].doc.pos>>
                               = <<t[k].depth, t[k].doc.via, t[k].doc.pos>>
    BY DEF Alike, SameDocument
  <1> QED
    BY <1>1, <1>2 DEF Layers

\* Schema defaults are there or not, whichever execution computes them.
LEMMA DefaultsAlike ==
  ASSUME NEW s \in Seq(Envelope), NEW t \in Seq(Envelope), s = << >> <=> t = << >>,
         NEW q \in Nat, NEW r \in Nat, NEW depth \in Nat
  PROVE  Alike(DefaultDataValues(s, q, depth), DefaultDataValues(t, r, depth))
  <1> DEFINE a == DefaultDataValues(s, q, depth)
             b == DefaultDataValues(t, r, depth)
  <1>1. IsDefaults(a, s, q, depth) /\ IsDefaults(b, t, r, depth)
    BY DefaultsShape
  <1> HIDE DEF a, b
  <1>2. a \in Seq(Envelope) /\ b \in Seq(Envelope) /\ Len(b) = Len(a)
    BY <1>1 DEF IsDefaults
  <1>3. ASSUME NEW k \in 1 .. Len(a) PROVE SameDocument(a[k], b[k])
    <2>1. a[k] \in Range(a) /\ b[k] \in Range(b)
      BY <1>2, RangeIndex
    <2> QED
      BY <1>1, <2>1 DEF IsDefaults, Fresh, SameDocument
  <1>4. Alike(a, b)
    BY <1>2, <1>3 DEF Alike
  <1> QED
    BY <1>4 DEF a, b

\* Two executions of a library with the same overlays get like schemas,
LEMMA SchemasAlike ==
  ASSUME NEW lib \in Library, NEW o \in Seq(Envelope), NEW q \in Nat, NEW r \in Nat,
         NEW depth \in Nat
  PROVE  Alike(Schemas(lib, o, q, depth).own, Schemas(lib, o, r, depth).own)
  <1> DEFINE F == SchemaFiles(lib, q, depth)
             G == SchemaFiles(lib, r, depth)
  <1>1. /\ Around(F, SchemaDocs[lib], "schema", "file", q, depth)
        /\ Around(G, SchemaDocs[lib], "schema", "file", r, depth)
    BY FilesType, Zenon
  <1>2. Schemas(lib, o, q, depth).own = Own(F \o o) /\ Schemas(lib, o, r, depth).own = Own(G \o o)
    BY DEF Schemas, SchemaFiles
  <1> HIDE DEF F, G
  <1>3. Alike(F, G) /\ Alike(o, o)
    BY <1>1, AroundAlike, AlikeSelf
  <1>4. Alike(F \o o, G \o o)
    BY <1>3, ConcatAlike
  <1>5. Alike(Own(F \o o), Own(G \o o))
    BY <1>4, OwnAlike
  <1> QED
    BY <1>2, <1>5

\* and like data values.
LEMMA ValuesAlike ==
  ASSUME NEW lib \in Library, NEW o \in Seq(Envelope), NEW s \in Seq(Envelope),
         NEW t \in Seq(Envelope), s = << >> <=> t = << >>, NEW q \in Nat, NEW r \in Nat,
         NEW depth \in Nat
  PROVE  Alike(Values(lib, o, s, q, depth).own, Values(lib, o, t, r, depth).own)
  <1> DEFINE F == ValueFiles(lib, q, depth)
             G == ValueFiles(lib, r, depth)
             D == DefaultDataValues(s, q, depth)
             E == DefaultDataValues(t, r, depth)
             DF == D \o F
             EG == E \o G
  <1>1. /\ Around(F, DataValueDocs[lib], "dv", "file", q, depth)
        /\ Around(G, DataValueDocs[lib], "dv", "file", r, depth)
    BY FilesType, Zenon
  <1>2. Alike(D, E)
    BY DefaultsAlike
  <1>3. Values(lib, o, s, q, depth).own = Own(DF \o o) /\ Values(lib, o, t, r, depth).own = Own(EG \o o)
    BY DEF Values, ValueFiles
  <1> HIDE DEF D, E, F, G
  <1>4. Alike(F, G) /\ Alike(o, o)
    BY <1>1, AroundAlike, AlikeSelf
  <1>5. Alike(DF, EG)
    BY <1>2, <1>4, ConcatAlike
  <1> HIDE DEF DF, EG
  <1>6. Alike(DF \o o, EG \o o)
    BY <1>4, <1>5, ConcatAlike
  <1>7. Alike(Own(DF \o o), Own(EG \o o))
    BY <1>6, OwnAlike
  <1> QED
    BY <1>3, <1>7

==============================================================================
