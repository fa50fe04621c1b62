-------------------------- MODULE LibraryExecution --------------------------
(***************************************************************************)
(* A run of ytt over a tree of libraries (pkg/workspace).                  *)
(*                                                                         *)
(* The root library computes its schema and its data values and evaluates  *)
(* its templates; a template may take an instance of a private library,    *)
(* give it more data values or schema, and evaluate it, which repeats the  *)
(* same three steps one level down.  Go's call stack is the variable       *)
(* stack, one record per LibraryExecution in progress.                     *)
(*                                                                         *)
(* A document's content is abstracted to where it comes from.  The data    *)
(* values of a library are then the sequence of documents overlaid to      *)
(* produce them, lowest first.                                             *)
(***************************************************************************)
EXTENDS Integers, Sequences, FiniteSetsExt, Functions, Filtering

CONSTANTS Path, Alias,
          Library,        \* the libraries of the tree
          RootLibrary,
          Private,        \* Private[l]: path -> library below l
          DataValueDocs,  \* DataValueDocs[l]: the data values documents of l's files
          SchemaDocs,     \* SchemaDocs[l]: its schema documents
          FlagValues,     \* the data values given on the command line
          Nil,            \* the nil *Envelope and *SchemaEnvelope
          SkipOptions,    \* SkipOptions[p]: what get(p) may pass for
                          \* dangerous_data_values_disable_validation; "": the flag
          MaxCalls,       \* bound on library calls by the templates of one execution
          MaxRuns         \* bound on executions

\* The private libraries of a library, by path.
Tree == [Library -> UNION {[P -> Library] : P \in SUBSET Path}]

LibraryRef == [path : Path \cup {""}, alias : Alias \cup {""}]

\* Only an addressed document may say after_library_module (parseDVLibAnnotations).
DocDecl == {d \in [address : Seq(LibraryRef), after : BOOLEAN] :
              d.after => d.address # << >>}

\* There is no such argument for the schema (NewSchemaEnvelope).
SchemaDecl == {d \in DocDecl : ~d.after}

ASSUME TreeAssumption == RootLibrary \in Library /\ Private \in Tree
ASSUME DocsAssumption == /\ DataValueDocs \in [Library -> Seq(DocDecl)]
                         /\ SchemaDocs \in [Library -> Seq(SchemaDecl)]
                         /\ FlagValues \in Seq(DocDecl)
ASSUME SkipAssumption == SkipOptions \in [Path \cup {""} -> SUBSET BOOLEAN]
ASSUME BoundsAssumption == MaxCalls \in Nat /\ MaxRuns \in Nat \ {0}

\* Where a document comes from stands for the document.  Envelope and
\* SchemaEnvelope, which has no after; depth is that of the library's execution.
Document == [run : Nat, kind : {"dv", "schema"},
             via : {"defaults", "file", "flag", "module"}, pos : Nat]
Envelope == [doc : Document, depth : Nat, after : BOOLEAN,
             original : Seq(LibraryRef), libRef : Seq(LibraryRef)]

ASSUME NilAssumption == Nil \notin Envelope

VARIABLES stack,     \* the executions in progress, the root library's first
          status,    \* "init", "running", "inspected", "ok" or "error"
          runs,      \* how many executions were started
          declared, delivered, peeked, aborted,  \* fates of addressed documents
          outcomes   \* what evaluating an instance merged: a history

vars == <<stack, status, runs, declared, delivered, peeked, aborted, outcomes>>
fates == <<declared, delivered, peeked, aborted>>

-----------------------------------------------------------------------------
(* Envelope and SchemaEnvelope.  The flag "used" of the envelopes that an     *)
(* execution posts is kept by the execution, see usedValues and usedSchemas.  *)

Matches(p, q) == /\ p.alias # "" => p.alias = q.alias
                 /\ p.alias = "" \/ p.path # "" => p.path = q.path

\* NewEnvelope, NewEnvelopeWithLibRef and NewSchemaEnvelope around documents
\* docs.  run, depth and via only say where they come from.
NewEnvelopes(docs, kind, via, run, depth) ==
  [k \in DOMAIN docs |->
     [doc |-> [run |-> run, kind |-> kind, via |-> via, pos |-> k], depth |-> depth,
      after |-> docs[k].after, original |-> docs[k].address, libRef |-> docs[k].address]]

IntendedForAnotherLibrary(e) == e.libRef # << >>

\* The copy of e for the library instance ref, or nil.
UsedInLibrary(e, ref) ==
  CASE e.libRef = << >>                -> e
    [] e.libRef # << >> /\ Matches(Head(e.libRef), ref)  -> [e EXCEPT !.libRef = Tail(@)]
    [] e.libRef # << >> /\ ~Matches(Head(e.libRef), ref) -> Nil

\* The positions of envs that UsedInLibrary marks as used.
Marked(envs, ref) == {k \in DOMAIN envs : UsedInLibrary(envs[k], ref) # Nil}

Copies(envs, ref) == [k \in DOMAIN envs |-> UsedInLibrary(envs[k], ref)]

Own(envs) == Filter(envs, {e \in Range(envs) : ~IntendedForAnotherLibrary(e)})
Children(envs) == Filter(envs, {e \in Range(envs) : IntendedForAnotherLibrary(e)})

Found(envs) == Filter(envs, Range(envs) \ {Nil})

-----------------------------------------------------------------------------
(* LibraryExecution.Schemas and LibraryExecution.Values: what a library's     *)
(* files contribute, then the overlays handed to it.  The result is [own,     *)
(* children]: the merged documents, and the envelopes for libraries below.    *)

Schemas(lib, overlays, run, depth) ==
  LET all == NewEnvelopes(SchemaDocs[lib], "schema", "file", run, depth) \o overlays
  IN  [own |-> Own(all), children |-> Children(all)]

DefaultDataValues(schema, run, depth) ==
  IF schema = << >> THEN << >>
  ELSE NewEnvelopes(<<[address |-> << >>, after |-> FALSE]>>, "dv", "defaults", run, depth)

Values(lib, overlays, schema, run, depth) ==
  LET all == DefaultDataValues(schema, run, depth)
               \o NewEnvelopes(DataValueDocs[lib], "dv", "file", run, depth) \o overlays
  IN  [own |-> Own(all), children |-> Children(all)]

(* libraryValue.librarySchemas and libraryValue.libraryValues: the envelopes  *)
(* of a library instance, sorted into the ones for this library and the ones  *)
(* for the libraries below it.                                                *)

librarySchemas(schemas, ref, lib, run, depth) ==
  LET copies == Copies(schemas, ref)
      forCurrentLib == Own(Found(copies))
      forChildLib == Filter(copies, {e \in Range(copies) : e = Nil \/ IntendedForAnotherLibrary(e)})
      found == Schemas(lib, forCurrentLib, run, depth)
  IN  [own |-> found.own, children |-> found.children \o forChildLib]

\* Mutant of libraryValues: the child's own documents go on top of the parent's.
libraryValuesSwapped(dataValuess, ref, lib, schema, run, depth) ==
  LET copies == Found(Copies(dataValuess, ref))
      dvss == Filter(Own(copies), {e \in Range(copies) : ~e.after})
      afterLibModDVss == Filter(Own(copies), {e \in Range(copies) : e.after})
      found == Values(lib, dvss \o afterLibModDVss, schema, run, depth)
  IN  [own |-> found.own, children |-> Children(copies) \o found.children]

libraryValues(dataValuess, ref, lib, schema, run, depth) ==
  LET copies == Found(Copies(dataValuess, ref))
      dvss == Filter(Own(copies), {e \in Range(copies) : ~e.after})
      afterLibModDVss == Filter(Own(copies), {e \in Range(copies) : e.after})
      found == Values(lib, dvss \o afterLibModDVss, schema, run, depth)
  IN  [own |-> found.own, children |-> found.children \o Children(copies)]

-----------------------------------------------------------------------------

Top == stack[Len(stack)]
Running == status = "running"
Depth == Len(stack)

\* The documents in the envelopes that execution f posts.
Posted(f) == (Range(f.libValues) \cup Range(f.libSchemas)) \ {Nil}
Docs(E) == {e.doc : e \in E}

\* A LibraryExecution that starts to evaluate templates.  The envelopes in
\* libValues and libSchemas are addressed to libraries below; usedValues and
\* usedSchemas are the positions of those that were used.  instances are the
\* libraryValues its templates hold.
Execution(lib, ref, call, skip, schemas, values, run) ==
  [lib |-> lib, ref |-> ref, call |-> call, skip |-> skip, run |-> run,
   schema |-> schemas.own, values |-> values.own,
   libSchemas |-> schemas.children, libValues |-> values.children,
   usedSchemas |-> {}, usedValues |-> {}, instances |-> << >>, calls |-> 0]

\* How an execution was called: "guarded" if from within assert.try_to.
Calls == [how : {"eval", "export"}, guarded : BOOLEAN]

\* Options.RunWithFiles: errors before the evaluation, the two inspect modes,
\* or the evaluation of the root library.
RunWithFiles ==
  /\ status = "init"
  /\ runs' = 1
  /\ \/ /\ status' \in {"error", "inspected"}
        /\ UNCHANGED <<stack, fates, outcomes>>
     \/ \E skip \in SkipOptions[""] :
          LET flags == NewEnvelopes(FlagValues, "dv", "flag", 1, 1)
              schemas == Schemas(RootLibrary, << >>, 1, 1)
              values == Values(RootLibrary, Own(flags), schemas.own, 1, 1)
              libraryVals == [values EXCEPT !.children = @ \o Children(flags)]
              root == Execution(RootLibrary, [path |-> "", alias |-> ""],
                                [how |-> "eval", guarded |-> FALSE],
                                skip, schemas, libraryVals, 1)
          IN  /\ stack' = <<root>>
              /\ status' = "running"
              /\ declared' = Docs(Posted(root))
              /\ UNCHANGED <<delivered, peeked, aborted, outcomes>>

\* A call of the library module by a template of the execution on top.
CanCall == Running /\ Top.calls < MaxCalls
Calling == [stack EXCEPT ![Depth].calls = @ + 1]

AddInstance(inst) ==
  /\ stack' = [Calling EXCEPT ![Depth].instances = Append(@, inst)]
  /\ UNCHANGED <<status, runs, fates, outcomes>>

\* Mutant of Get: the new factory forgets that its library skips validations.
GetForgetsSkip(path, alias, skip) ==
  /\ CanCall
  /\ path \in DOMAIN Private[Top.lib]
  /\ AddInstance([path |-> path, alias |-> alias, skip |-> skip,
                  added |-> << >>, addedSchemas |-> << >>])

\* LibraryModule.Get.  The instance copies the list of envelopes of the
\* execution; "added" are the ones it gets on top of that list.
Get(path, alias, skip) ==
  /\ CanCall
  /\ path \in DOMAIN Private[Top.lib]
  /\ AddInstance([path |-> path, alias |-> alias, skip |-> Top.skip \/ skip,
                  added |-> << >>, addedSchemas |-> << >>])

\* The envelope around a document that a template passes: it has no address.
FromTemplate(kind) ==
  NewEnvelopes(<<[address |-> << >>, after |-> FALSE]>>, kind, "module",
               Top.run, Depth)[1]

Stamped(e) == [e EXCEPT !.doc.pos = Top.calls + 1]

\* Mutant of WithDataValues: changes the instance it is called on.
WithDataValuesInPlace(i) ==
  /\ CanCall
  /\ stack' = [Calling EXCEPT ![Depth].instances[i].added =
                  Append(@, Stamped(FromTemplate("dv")))]
  /\ UNCHANGED <<status, runs, fates, outcomes>>

WithDataValues(i) ==
  /\ CanCall
  /\ AddInstance([Top.instances[i] EXCEPT !.added = Append(@, Stamped(FromTemplate("dv")))])

WithDataValuesSchema(i) ==
  /\ CanCall
  /\ AddInstance([Top.instances[i] EXCEPT
                    !.addedSchemas = Append(@, Stamped(FromTemplate("schema")))])

-----------------------------------------------------------------------------
(* Evaluating an instance.                                                    *)

\* An error ends the executions down to the innermost one called from within
\* assert.try_to.  A panic below a call of the library module is an error of that
\* call (ErrWrapper).
Unwind ==
  LET guards == {j \in 2 .. Depth : stack[j].call.guarded}
      k == IF guards = {} THEN 0 ELSE Max(guards) - 1
  IN  /\ stack' = SubSeq(stack, 1, k)
      /\ status' = IF k = 0 THEN "error" ELSE "running"
      /\ aborted' = aborted \cup UNION {Docs(Posted(stack[j])) : j \in k + 1 .. Depth}
      /\ UNCHANGED <<runs, declared, delivered, peeked, outcomes>>

Ref(inst) == [path |-> inst.path, alias |-> inst.alias]

\* The schema and the data values of instance inst, as [own, children].
SchemasOf(inst) ==
  librarySchemas(Top.libSchemas \o inst.addedSchemas, Ref(inst),
                 Private[Top.lib][inst.path], runs + 1, Depth + 1)

\* Mutant of ValuesOf: an envelope is handed out only once.
ValuesOfUnused(inst) ==
  LET unused == [k \in DOMAIN Top.libValues |->
                   IF k \in Top.usedValues THEN Nil ELSE Top.libValues[k]]
  IN  libraryValues(Found(unused) \o inst.added, Ref(inst), Private[Top.lib][inst.path],
                    SchemasOf(inst).own, runs + 1, Depth + 1)

ValuesOf(inst) ==
  libraryValues(Top.libValues \o inst.added, Ref(inst), Private[Top.lib][inst.path],
                SchemasOf(inst).own, runs + 1, Depth + 1)

MarkSchemas(s, inst) ==
  [s EXCEPT ![Depth].usedSchemas = @ \cup Marked(Top.libSchemas, Ref(inst))]

MarkValues(s, inst) ==
  [s EXCEPT ![Depth].usedValues = @ \cup Marked(Top.libValues, Ref(inst))]

\* UsedInLibrary is called on a nil *SchemaEnvelope.
HasNilSchema == Nil \in Range(Top.libSchemas)

AddressedDocs(envs) == {e.doc : e \in {f \in Range(envs) : f.original # << >>}}

Arrived(inst) == AddressedDocs(SchemasOf(inst).own) \cup AddressedDocs(ValuesOf(inst).own)

\* What was merged, without the number of the execution.
Layers(values) ==
  [k \in DOMAIN values |-> <<values[k].depth, values[k].doc.via, values[k].doc.pos>>]

\* What evaluating instance number i merged.
Outcome(i, values) == [instance |-> <<Top.run, i>>, layers |-> Layers(values)]

\* libraryValue.Eval and libraryValue.Export up to the evaluation of templates.
Eval(i, call) ==
  LET inst == Top.instances[i]
      child == Execution(Private[Top.lib][inst.path], Ref(inst), call, inst.skip,
                         SchemasOf(inst), ValuesOf(inst), runs + 1)
  IN  /\ CanCall
      /\ ~HasNilSchema
      /\ runs < MaxRuns
      /\ stack' = Append(MarkValues(MarkSchemas(Calling, inst), inst), child)
      /\ runs' = runs + 1
      /\ declared' = declared \cup
           {e.doc : e \in {f \in Posted(child) : f.doc.run = runs + 1}}
      /\ delivered' = delivered \cup Arrived(inst)
      /\ outcomes' = outcomes \cup {Outcome(i, child.values)}
      /\ UNCHANGED <<status, peeked, aborted>>

\* libraryValue.DataValues: what is addressed to libraries below is dropped.
DataValues(i) ==
  LET inst == Top.instances[i]
      dropped == {e \in Range(Found(SchemasOf(inst).children \o ValuesOf(inst).children)) :
                    e.doc.run # runs + 1}
  IN  /\ CanCall
      /\ ~HasNilSchema
      /\ stack' = MarkValues(MarkSchemas(Calling, inst), inst)
      /\ delivered' = delivered \cup Arrived(inst)
      /\ peeked' = peeked \cup Docs(dropped)
      /\ outcomes' = outcomes \cup {Outcome(i, ValuesOf(inst).own)}
      /\ UNCHANGED <<status, runs, declared, aborted>>

\* Eval, Export or DataValues fail while the schema is computed, or later while
\* the data values are: the envelopes looked at until then are marked.
CallFails(i, guarded) ==
  LET inst == Top.instances[i]
      schemas == {Top.libSchemas[k] : k \in Marked(Top.libSchemas, Ref(inst))}
      values == {Top.libValues[k] : k \in Marked(Top.libValues, Ref(inst))}
  IN  /\ CanCall
      /\ ~HasNilSchema
      /\ \/ ~guarded /\ Unwind
         \/ /\ guarded
            /\ \/ /\ stack' = MarkSchemas(Calling, inst)
                  /\ aborted' = aborted \cup Docs(schemas)
               \/ /\ stack' = MarkValues(MarkSchemas(Calling, inst), inst)
                  /\ aborted' = aborted \cup Docs(schemas \cup values)
            /\ UNCHANGED <<status, runs, declared, delivered, peeked, outcomes>>

\* The positions of the schemas that are marked for inst before a nil schema is
\* met.
MarkedBeforeNil(inst) ==
  {k \in DOMAIN Top.libSchemas :
     /\ \A j \in 1 .. k : Top.libSchemas[j] # Nil
     /\ UsedInLibrary(Top.libSchemas[k], Ref(inst)) # Nil}

\* A nil schema makes each of the three calls panic.  ErrWrapper returns the panic
\* as an error, which assert.try_to catches like any other: the template goes on,
\* with the schemas in front of the nil one marked.
CallPanics(i, guarded) ==
  LET marked == MarkedBeforeNil(Top.instances[i])
  IN  /\ CanCall
      /\ HasNilSchema
      /\ \/ ~guarded /\ Unwind
         \/ /\ guarded
            /\ stack' = [Calling EXCEPT ![Depth].usedSchemas = @ \cup marked]
            /\ aborted' = aborted \cup Docs({Top.libSchemas[k] : k \in marked})
            /\ UNCHANGED <<status, runs, declared, delivered, peeked, outcomes>>

\* A template, an overlay or the printing of a document fails.
TemplateFails == Running /\ Unwind

\* Mutant of AllUsed: unused data values are not reported.
AllUsedSchemas == Top.usedSchemas = DOMAIN Top.libSchemas

\* checkUnusedDVsOrSchemas
AllUsed == /\ Top.usedValues = DOMAIN Top.libValues
           /\ Top.usedSchemas = DOMAIN Top.libSchemas

\* All templates were evaluated, but some envelope was not used; or the check
\* meets a nil schema and panics, an error of the call of this evaluation.
UnusedFails == Running /\ ~HasNilSchema /\ ~AllUsed /\ Unwind
UnusedPanics == Running /\ HasNilSchema /\ Unwind

\* libraryValue.Export does not find exactly one such symbol.
ExportFails == /\ Running /\ ~HasNilSchema /\ AllUsed
               /\ Top.call.how = "export"
               /\ Unwind

\* The evaluation succeeds and its result is returned to the caller.
Finish ==
  /\ Running /\ ~HasNilSchema /\ AllUsed
  /\ stack' = SubSeq(stack, 1, Depth - 1)
  /\ status' = IF Depth = 1 THEN "ok" ELSE "running"
  /\ UNCHANGED <<runs, fates, outcomes>>

Init == /\ stack = << >> /\ status = "init" /\ runs = 0
        /\ declared = {} /\ delivered = {} /\ peeked = {} /\ aborted = {}
        /\ outcomes = {}

LibraryCall ==
  \/ \E path \in Path, alias \in Alias \cup {""} :
       \E skip \in SkipOptions[path] : Get(path, alias, skip)
  \/ \E i \in DOMAIN Top.instances :
       \/ WithDataValues(i)
       \/ WithDataValuesSchema(i)
       \/ \E call \in Calls : Eval(i, call)
       \/ DataValues(i)
       \/ \E guarded \in BOOLEAN : CallFails(i, guarded) \/ CallPanics(i, guarded)

Next == \/ RunWithFiles
        \/ Running /\ LibraryCall
        \/ TemplateFails
        \/ UnusedFails
        \/ UnusedPanics
        \/ ExportFails
        \/ Finish

Spec == Init /\ [][Next]_vars

-----------------------------------------------------------------------------

\* Which of two documents is overlaid on top of the other: schema defaults, the
\* documents of files and of flags, the ones a template passes with
\* with_data_values, and the ones with after_library_module.
Rank(e) == CASE e.doc.via = "defaults"                      -> 0
             [] e.doc.via \in {"file", "flag"} /\ ~e.after  -> 1
             [] e.doc.via = "module"                        -> 2
             [] e.after                                     -> 3

\* d belongs to a library further down the tree than e; or both belong to the
\* same library, and d comes from an earlier document, or from a file while e
\* comes from a flag.
Deeper(d, e) ==
  \/ d.depth > e.depth
  \/ /\ d.depth = e.depth
     /\ \/ d.doc.via = e.doc.via /\ d.doc.pos < e.doc.pos
        \/ d.doc.via = "file" /\ e.doc.via = "flag"

\* d is overlaid before e.
Below(d, e) == Rank(d) < Rank(e) \/ (Rank(d) = Rank(e) /\ Deeper(d, e))

\* Through any number of libraries, data values (and schema) are overlaid in
\* one fixed order, "data values specified in a parent library, on top of data
\* values specified within a child library", no document twice, and none that
\* is meant for another library
\* (libraryValues, librarySchemas, DataValuesPreProcessing.collectDataValuesDocs).
MergePrecedence ==
  \A i \in DOMAIN stack : \A s \in {stack[i].values, stack[i].schema} :
    /\ \A j, k \in DOMAIN s : j < k => Below(s[j], s[k])
    /\ \A j \in DOMAIN s : ~IntendedForAnotherLibrary(s[j])

\* Evaluating an instance again, or asking for its data_values(), merges the
\* same documents in the same order: that an envelope was used before, by this
\* or another instance, does not matter (libraryValue is immutable and
\* UsedInLibrary hands out copies).
RepeatableEvaluation ==
  \A a, b \in outcomes : a.instance = b.instance => a.layers = b.layers

\* Once validations of data values are skipped for a library, they are skipped
\* for every library evaluated on its behalf (ThatSkipsDataValuesValidations).
SkipIsInherited ==
  \A i, j \in DOMAIN stack : i < j /\ stack[i].skip => stack[j].skip

\* A libraryValue never changes once a template holds it: with_data_values and
\* with_data_values_schema make a new one ("Instances are immutable").
InstancesAreImmutable ==
  [][\A i \in DOMAIN stack \cap DOMAIN stack' :
       stack[i].run = stack'[i].run =>
         stack[i].instances = SubSeq(stack'[i].instances, 1, Len(stack[i].instances))]_stack

\* The slice of schemas given to an evaluation holds schemas "intended for
\* child libraries" (LibraryExecution.Schemas), and nothing else.
OnlySchemasForChildren ==
  \A i \in DOMAIN stack : Nil \notin Range(stack[i].libSchemas)

=============================================================================
