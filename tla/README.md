# ytt: a TLA+ verification project

ytt renders YAML and text templates.  One run reads files, computes a *schema*
and *data values* for the root library, evaluates templates, applies overlays
and writes the result.  Templates may load *private libraries* and evaluate them
with data values of their own, so the whole pipeline is recursive.  ytt is
single-threaded: what makes it hard to test is not concurrency, but long chains
of calls over shared mutable structures (envelopes with a `used` flag, slices,
AST nodes, a stack of template contexts) and the order in which several sources
are merged.

## 1. Inventory

| Part (source) | State | Operations | Hard behaviour | What must hold |
|---|---|---|---|---|
| Run (`pkg/cmd/template/cmd.go`) | inputs, flags | `RunWithFiles` | early exits (inspect modes, errors) | nothing is evaluated after an error |
| Library execution (`pkg/workspace/library_execution.go`, `library_execution_factory.go`) | schema, data values, slices of envelopes for child libraries, skip-validation flag | `Schemas`, `Values`, `Eval`, `checkUnusedDVsOrSchemas` | recursion through templates; an evaluation succeeds only if every envelope was used | order of merging, no silent loss, flags inherited |
| Library module (`pkg/workspace/library_module.go`) | library instances | `get`, `with_data_values`, `with_data_values_schema`, `eval`, `export`, `data_values` | instances share envelopes; calls may fail half way and be caught by `assert.try_to` | instances are immutable, evaluation is repeatable |
| Envelopes (`pkg/workspace/datavalues`, `pkg/workspace/ref`) | address still to go, `used` | `UsedInLibrary`, `markUsed`, `Matches` | one piece of an address is consumed per library | a document takes effect only where its address leads |
| Data values and schema pre-processing (`pkg/workspace/data_values*_pre_processing.go`) | the document so far | collect, type, overlay, check | the check runs after each overlay, defaults are shared with the schema | values conform to the schema |
| Library tree (`pkg/workspace/library.go`) | tree of libraries and files | listing, lookup, sorting | private libraries hide files | only accessible files are evaluated |
| Template loading (`pkg/workspace/template_loader.go`) | thread locals | `Load`, `EvalYAML`, `EvalText`, `EvalStarlark` | a module is evaluated again by each load; no cycle check | |
| Template contexts (`pkg/template`) | stack of contexts, each with a tree under construction, pending annotations and map key | `StartCtx`, `EndCtx`, `StartNode`, `SetNode`, `Replace`... | contexts are started and ended by code that the compiler inserts around functions and returns | every started context is ended |
| YAML construction (`pkg/yamltemplate`) | nodes under construction | `Replace` in document sets, maps, arrays | splicing into a slice while iterating | nothing is lost or duplicated |
| Overlays (`pkg/yttlibrary/overlay`, `overlay_post_processing.go`) | the left document sets | merge, remove, replace, insert, append, assert, match | `left` is changed in place; expectations on the number of matches; the order of files is the order of a Go map | result independent of that order, a failing match changes nothing |
| Schema types (`pkg/schema`) | type tree with defaults | infer, assign, check | defaults are shared between the type and many nodes | a default is the same each time |
| Validations (`pkg/validations`) | rules on nodes | `Run` | `when`, null values, priorities | values that break a rule are never used |
| Ordered map (`pkg/orderedmap`) | list of pairs | set, get, delete | keys of any type are compared deeply | one entry per key |
| Files (`pkg/files`, `file_marks.go`) | file flags | sorted loading, marks, output directory | exclusive marks, overlapping marks; the directory is removed before it is written | old files or new ones, never both |
| Data value flags (`data_values_flags.go`) | | flags to overlays | library references in keys | later flags win |
| YAML (`pkg/yamlmeta`, with `internal/yaml.v2`, a fork with line numbers and strict resolution) | token queue, simple keys, state stacks, comments not yet given to a node | scan, parse, decode, resolve, encode, emit | look-ahead, line corrections, ambiguous scalars | parsing ends, comments find their node, output reads back as it was |
| Text templates (`pkg/texttemplate`), the standard library (`pkg/yttlibrary`) | | | | |
| Around the algorithm: `pkg/website`, `cmd/ytt-lambda-website`, `ui`, `experiments`, `version`, `feature` | | | | |

The hazards that follow from this survey are listed with their lines in
`PROJECT.json`.


## 2. How the modules fit together

| Module | Models | Extends or implements |
|---|---|---|
| `EnvelopeDelivery` | abstract delivery of addressed documents | proved about in `EnvelopeDelivery_proofs` |
| `Filtering` | a Go loop that keeps some elements of a slice | proved about in `Filtering_proofs` |
| `LibraryExecution` | a run over a tree of libraries | extends `Filtering`; proved about in `LibraryEnvelopes_proofs` (its operators) and `LibraryExecution_proofs` (its steps) |
| `LibraryDelivery` | what `EnvelopeDelivery` sees of such a run | extends `LibraryExecution`, which implements `EnvelopeDelivery`: proved in `LibraryMail_proofs` (one execution) and `LibraryDelivery_proofs` (the steps) |
| `CompiledTemplate` | Starlark's call stack against stacks of contexts | proved about in `CompiledTemplate_proofs` |
| `EvaluationCtx` | the tree that one context builds | |
| `OverlayOp` | overlay operations inside documents, on a heap of shared nodes | |
| `OverlayModule` | a template that calls `overlay.apply` | extends `OverlayOp` |
| `SchemaTypes` | types, defaults, checks, validations | extends `OverlayOp` |
| `DataValues` | the data values of a library | extends `SchemaTypes` |
| `YamlChars`, `YamlScanner`, `YamlParser`, `YamlResolve`, `YamlDecoder` | the fork of yaml.v2, from text to values | each extends the ones before; implement `YamlEvents` |
| `YamlmetaParser` | ytt's parser on top of it: lines and comments | extends `YamlDecoder` |
| `YamlEmitter`, `YamlRoundTrip` | printing, and reading back what was printed | extends `YamlmetaParser` |
| `OverlayPostProcessing` | overlays on documents of several files | |
| `OutputDirectory` | writing of the output | proved about in `OutputDirectory_proofs` |
| `TemplateRun` | a whole run, from the marks on files to the output | extends `OverlayPostProcessing` and `OutputDirectory`, implements the latter |

Modules to be proved about take their parameters as constants with named
assumptions, have one action per operation and declare no recursive operators.

## 3. The modules

An operator whose comment starts with "Mutant" is a plausible mistake in the
definition that follows it. No specification uses it; replacing the definition
by it must make a property fail.

### EnvelopeDelivery

What the delivery of addressed documents promises, without order, instances or
causes of failures. `stack` holds one record for each `LibraryExecution` in
progress: the `ref` it answers to, the envelopes that took effect in it
(`inbox`), the ones it holds for libraries below (`posted`) and those that have
been taken (`used`). An envelope remembers its original address, the depth where
it was declared, and how many pieces of the address were consumed; in the code
the consumed pieces are gone (`UsedInLibrary` copies the tail). `Open` is
`libraryValue.Eval` or `Export`, `Peek` is `DataValues`, `OpenFails` a call that
fails before its evaluation, `Close` the end of `LibraryExecution.Eval` with
`checkUnusedDVsOrSchemas`, `Fail` an error that unwinds to an `assert.try_to` or
out of the run, and `StopEarly` a run that ends before evaluation. The sets
`declared`, `delivered`, `peeked` and `aborted` are histories.

### LibraryExecution

The same with everything that decides about order: slices of envelopes,
schema defaults, documents of files, flags, `with_data_values`,
`after_library_module`, and the instances that templates hold. A document's
content is the place it comes from; the data values of a library are the
sequence of documents overlaid to make them. The actions are `RunWithFiles`, one
for each function of the library module (`Get`, `WithDataValues`,
`WithDataValuesSchema`, `Eval` for both `eval` and `export`, `DataValues`), the
ways they fail (`CallFails`, `CallPanics`), and the ways an evaluation ends
(`TemplateFails`, `UnusedFails`, `UnusedPanics`, `ExportFails`, `Finish`).
Templates are nondeterministic: they make any calls in any order. An error may be
caught by `assert.try_to`, and so may a panic: `ErrWrapper` around each function of
the library module returns it as an error. A caught `CallPanics` leaves the
schemas in front of the nil one marked as used.

A document declares an address, and whether it says `after_library_module`; a
schema document has no such argument (`SchemaDecl`). Loops that collect some of
the elements of a slice are `Filter` of `Filtering`, a recursive function. The
refinement mapping to `EnvelopeDelivery` is in `LibraryDelivery`: it forgets order,
instances and documents without an address, and turns the pieces of an address that
are left into the number of pieces consumed.

### CompiledTemplate

A template compiles to a Starlark program in which `ProgramAST` inserts
`StartCtx` and `EndCtx` around the code of functions. `frames` is Starlark's call
stack, `ctxs` the stack of contexts of each `CompiledTemplate`; the two need to
agree, although functions of one template are called by another, recursion is
allowed, and errors unwind only the first. A program is an element of the
constant `Programs`: bodies of statements (a node, a failure, a return, a call,
`assert.try_to`, a load), each of which may stand under a condition.

A panic of an instruction is returned as an error by `ErrWrapper`, one of
`CompiledTemplate.eval` by its own `recover`; either unwinds the call stack like any
other error, to an `assert.try_to` if there is one, and is remembered in `panics`.
Left out are loops (they repeat
statements in a context without changing contexts) and the contexts of text
templates in a value.

`Bracketed`, `FragmentIsOwn` and `NoPanic` are stated for programs in which each
return follows a node and no failure is caught (`WellBehaved`). Without the first
condition they fail (finding `all_ctxs_end`). Without the second, a failure that
is caught leaves the contexts of the functions it unwound on the stack; the
programs of the run include such ones, for the steps that follow, but the
properties say nothing about them.

### EvaluationCtx

One context. A tag is the path of a node in the source, so its ancestors are its
prefixes. `StartNode`, `StartNodeAnnotation`, `SetMapItemKey`, `SetNode` and
`Replace` are the instructions of a context; `MayStart` says which instruction the
compiled code may execute next, for every way in which loops and conditions can
surround the items of a container. `scope` tells the code of a whole template
from that of a function inside it. A node is an instance number, its value is
left out except for `template.replace`, whose values are lists of new items; setting
a value that the node cannot have is an error, which ends the context.

### OverlayPostProcessing

`Collect` is one iteration of the loop over the Go map of document sets: any
file may be next. `StartOverlays` sorts the overlays, `ApplyOverlay` applies
one, `Finish` gives the document sets back to the files. All six operations on
documents work on positions in the list of document sets. A document is a pointer,
told apart by its `id`, and its content is the list of overlays that edited it:
`insertDocument` puts one new document on both sides of a match if the overlay says
before and after, so that a later merge that matches both edits it twice, and
`EditsInOrder` allows that case and no other. A matcher is a set of names, a
function of earlier edits, or an index; the call of a matcher, a merge, an
assertion and a `via` function may each fail on a document, and the `via` of
`or_add` on the nil that it is passed.

`OrderIndependent` leaves out overlays of which the outcome depends on the order
of a Go map: `append`, `replace` with `or_add`, and matching by `overlay.index`
work on the list of document sets as the loop left it, so that their result may
change from run to run.

### OutputDirectory and TemplateRun

`OutputDirectory` writes a list of output files to a directory that is emptied
first (`Write`) or not (`Add`), or prints them. Removing may stop at any file,
making the directory may fail, and creating a file may leave what was there, or
a part of the new one. The process may be killed at any step; since nothing is
recovered later, what the properties say of every state covers it. `Evaluated`
stands for the run before.

`TemplateRun` is that run, on regular files: `ApplyMark` is one iteration of
`FileMarksOpts.Apply`, `EndMarks` its end with the exclusive marks, `Schemas` and
`Values` find the files that are not for output, `EvalFile` is one iteration of
`eval`, `PostProcess` is a step of `OverlayPostProcessing` and `Results` hands
over the output files. A file is its path, the documents of its result, the kind
of documents it holds and the step that fails on it. What `Schemas` and `Values`
compute is in `DataValues`, how libraries are evaluated in `LibraryExecution`.
`DirectoryIsOutput` says what the directory holds in the end, as an equation: under
each path the documents of the last file that has it, and what was there before
under the other paths if the directory is not emptied.

Three consequences of the code that the model shows and that no document
excludes: `--files-inspect` and `--data-values-inspect` together with
`--dangerous-emptied-output-directory` empty the directory, as their result has
no files; `--output-files` does not compare paths, so that the last of two files
with one path stays; and a file that is exclusively for output and then excluded
leaves nothing for output.

### OverlayOp and OverlayModule

`Op.Apply` changes its left argument in place, so nodes are addresses in a heap
and a step is one item of the right side, or one match of it on the left. The
stack holds the open calls of `apply` with the place in the right side and the
matches still to be handled. `OverlayModule` is a template that applies overlays
to fragments it holds, in `assert.try_to`: an overlay that fails half way leaves
its edits, and the template goes on with what there is. It may also embed
fragments in one another, after which sharing is its own doing.

`AppliesByValue` compares the result with a definition of what an overlay means on
plain values (`Overlaid`), without a heap, a stack or annotations. It is stated for
left sides that share no node with themselves or with the overlay, and for overlays
that put no value at several places (`Spreads`); for the others the in-place edits
do show at more than one place. `NoSharing` makes the same exception, and
`UniqueKeys` excepts replacements of all items that a matcher selects, which give each
its own key.

### SchemaTypes and DataValues

A type is a value with the addresses of its defaults in the heap. `DataValues`
follows one library: schema documents are merged and become a type, the
defaults, the documents and the flags are merged in order, typed and checked
after each, and the result is validated; a library may be evaluated again, with
the heap that the first evaluation left. `ResultIsMerge` compares the result with
a merge of plain values that knows neither heap nor steps.

`SharingOnlyOfDefaults` says exactly how far sharing goes. `MapItemType.GetDefaultValue`
hands out its node uncopied (the top of a schema is copied, `schema.go:77`), and
filling in defaults puts it into data values, so that an overlay on one place may
edit the default and every other place that took it: `n={}`, `n.m.x=2`, `n={}`
leaves `n.m.x` at 2.

Other behaviour seen while modelling: `@assert/validate` on a map item is lost when
the item is merged onto a default of the schema and kept otherwise, as the tests
have it; an overlay that removes the data values document makes
`data_values_pre_processing.go:174` index an empty slice; `one_not_null` counts a
missing key as not null.

### The YAML modules

The scanner and the parser are one record in the code and in the model. An
operator of `YamlScanner` is a function of `scannerc.go`; the actions of
`YamlParser` are the handlers of its states, and `FetchMoreTokens` is the call
that fills the token queue. `YamlDecoder` builds the tree of nodes and turns it
into values, with anchors and merges; `YamlResolve` says what a plain scalar stands
for, also under `--strict`. `YamlmetaParser` calls the decoder for one document
after another, corrects lines for the marker that it may have put before the
text, and gives each comment to a node. `YamlEvents` is the grammar of events
that a caller may rely on. `YamlEmitter` is the encoder and the emitter as ytt
configures them, `YamlRoundTrip` prints documents and then reads the text.

Characters are kept where the scanner tells them apart, so that texts are
sequences of symbols; this is the one place where properties depend on single
characters.

Other behaviour seen while modelling: `<<: [*a, *b]` always fails, although the
message of `failWantMap` allows it, because sequences hold item nodes here
(`decode.go:775`); the string `<<` as a key is printed plain and is a merge key
when it is read (`encode.go:321`), so that such keys are not among the inputs of
the round trip; a lone carriage return, NEL, LS or PS counts as a line for the scanner and not
for `strings.Split` in `parser.go:93`, so that looking up the line of a node behind
one may be out of range and panic (`BeyondLines`), also for a text that ytt itself
printed, as the emitter leaves LS and PS unescaped: `NoPanic` and `RoundTrip` name
this exception, and hold for all other texts; comments after the last `...` are lost;
`yamlParserParseFlowSequenceEntryMappingKey` steps over a token on an empty key,
which its grammar does not; `AsBytesWithPrinter` ignores the error of `Print`.

## 4. Runs

| Run | Question | Result |
|---|---|---|
| `envelope_delivery` | Does an envelope reach its addressee, and is each accounted for, through nested evaluations, peeks and caught failures? | holds |
| `library_execution` | Are documents merged in one order, do evaluations repeat, are instances immutable, is skipping of validations inherited, and does the run implement `EnvelopeDelivery`? | holds |
| `nil_schema` | Do the schemas for child libraries consist of schemas? | violated: a schema for another library leaves a nil |
| `compiled_template` | Do contexts follow the call stack, and does each function return its own fragment? | holds for well-behaved programs |
| `all_ctxs_end` | Do all contexts end? | violated: by a return above the first node of its function |
| `evaluation_ctx` | Is the tree complete, in execution order, under the right parents and without duplicate keys? | holds |
| `template_run` | Does the output follow from marks, files and overlays, whatever the order of a Go map, and does the directory hold the old files or the new, whatever fails? | holds, for overlays that match by value |
| `overlay_values` | Does `overlay.apply` change only its left side, keep keys unique, share nothing and give what the overlay means on values, also after failures? | holds, for overlays that put no value at two places |
| `yaml_parse` | Does every text parse or fail in the end, without a panic, with well-nested events, and do items and comments keep their places? | holds, but for texts with line breaks other than `\n` that lead past the last line |
| `error_line` | Is the line of every error at least 1? | violated: for a parser error on the first line |
| `yaml_round_trip` | Do printed documents read back as they were? | holds, with the same exception |
| `data_values` | Do data values conform to their schema, equal the merge in the documented order, pass validations, and come out the same each time? | holds, sharing is of defaults only |

The three violated runs are the findings of `PROJECT.json`, with the lines of the
source and the statements they contradict.

**Bounds, and why they are enough.**

- `envelope_delivery`: two paths, an alias, addresses of one and two pieces, two
  documents, `MaxDepth = 3`. Depth 3 is the least at which an envelope is handed on
  and then arrives. Documents are symmetric.
- `library_execution`, `nil_schema`: a root, two private libraries
  and one below one of them; a library under the same path at two levels tells
  apart matching by the next piece and by the last. `MaxRuns = 3` executions
  and `MaxCalls = 3` calls by each allow to evaluate an instance twice, and to
  evaluate down to the third level.
- `compiled_template`, `all_ctxs_end`: all bodies of up to three statements for a
  function of the main template and up to two for a function of a loaded one, which
  call each other and themselves; `MaxActivations = 7`.
- `evaluation_ctx`: a map with a templated key, an overriding key with a list of
  maps below it, and a plain key; `MaxNodes = 8` instances. The
  whole template then reaches its innermost item; the code of a function for one of
  the containers has room to repeat that container's items, with all that is
  below them, and to override and replace items of a map after it has unwound
  from a nested one.
- `template_run`: `NFiles = 3`. One family of runs has all orders of visit and up to
  four of twelve overlays with each operation and each outcome of matching; the other
  has all pairs of 18 marks with nine kinds of second file, triples of nine marks,
  the destinations, and each point of failure. Two marks can contradict each other,
  the third can overrule either.
- `overlay_values`: `MaxApplies = 2`, so that the second overlay meets what the
  first one left, whole or half done.
- `data_values`: 683 libraries, each with a few documents and flags of one to three
  levels, `MaxEvals = 2`: the second evaluation meets the defaults as the first one
  left them.
- `yaml_parse`, `error_line`: every text of up to `MaxChunks = 3` of 25 chunks (1
  for `error_line`), two chunks inside each of seven beginnings, and longer texts
  for directives, escapes, block scalars and merges. `SimpleKeyLimit = 6` in place
  of 1024 lets keys reach the limit.
- `yaml_round_trip`: strings of up to `StringLimit = 2` of 18 symbols, of three of
  the eight that matter for line breaks, and a list of awkward ones, as key, item and
  document; `KeyLimit = 3` in place of 128. `SimpleKeyLimit = 24` is above what
  `KeyLimit` lets the emitter write, as in the code.

**Deadlock.** `yaml_parse`, `yaml_round_trip` and `error_line` check it: their
last states stutter, and a parser or an emitter that cannot go on would be an error.
The other runs set `CHECK_DEADLOCK FALSE`, since a run of ytt ends and so does each
model, and the bounds stop it elsewhere.

**Fairness.** `Terminates` in `yaml_parse` assumes that steps keep being taken
while the parser is decoding, which is weak fairness of its one sequence of steps:
the code is a loop in one thread that never waits. The variable `tick` makes a step
that changes nothing else visible, so that a loop without progress would be found.
No other liveness property is stated: whether the rest of a run ends depends on the
templates, which may recurse.

## 5. Proofs

`EnvelopeDelivery_proofs` proves, for every set of paths, aliases, documents and
addresses, every choice of declared documents, and every depth:

- `TypeCorrect`: `Spec => []TypeOK`.
- `AddressCorrect`: `Spec => []ReachesAddressee`. That an envelope in an `inbox` has
  had its whole address matched says nothing about envelopes still under way, so
  it is not inductive. The strengthening is `OnItsWay`: each posted envelope has
  consumed as many pieces as there are libraries between its origin and the place
  it is at, each of them matched, and at least one is left. `Open` either extends the
  path by the next piece, which it has just matched, or completes it.
- `DeliveryCorrect`: `Spec => []NothingLost`. The strengthening is `Accounted`: a
  document that is neither delivered, nor peeked at, nor aborted is posted and
  unused in some evaluation in progress. `Close` needs `posted = used`, so it
  removes no such evaluation; after a successful run none is left.

They rest on `AddressAssumption`, `MailAssumption` and `DepthAssumption`: addresses
are non-empty sequences of references, declared documents carry such addresses, and
the bound on depth is a positive number.

`LibraryExecution_proofs` proves, for every tree of libraries, every choice of
documents and flags, every choice of skip options and any bounds:

- `MergesInOrder`: `Spec => []MergePrecedence`.
- `EvaluationIsRepeatable`: `Spec => []RepeatableEvaluation`.
- `SkippingIsInherited`: `Spec => []SkipIsInherited`.
- `InstancesStay`: `Spec => InstancesAreImmutable`, an action property.

None of the three invariants is inductive: the order of what an execution merges
comes from the order of what its parent posted, which comes from its own parent. The
inductive invariant `IInv` (`Invariance`: `Spec => []IInv`) says of every execution
on the stack (`FrameOK`) that the envelopes it posts are in order, the ones from
further down the tree first (`Sorted(libValues, DeeperPairs)`), that each is at
the right place of its address (`Postable`), comes from an execution that is not
later and from a library that is not deeper, that what it merged is in order
(`Merged`), and of each instance that what was added to it comes from this
execution, in the order of the calls (`InstanceOK`). It
also says that the numbers and the skip flags of executions grow along the stack
(`StackOK`), and that each recorded outcome of an instance that is still there
is the one a new evaluation would have (`OutcomesOK`). That last conjunct is what
makes repeatability inductive: an outcome is compared with a function of the
instance and the slices, which no call changes, instead of with earlier outcomes.
The run `library_execution` checks the properties and not `IInv`, which lives in the
module with the proofs.

The argument goes by the lists that the code builds. A list obtained by `Filter` embeds
in the list it is taken from (`Filtering_proofs`), so it is sorted if that is; a
concatenation is sorted if both parts are and each element of the first goes below
each of the second. `LibraryEnvelopes_proofs` follows `librarySchemas` and
`libraryValues` in this way: schema defaults, files, documents of templates, and
documents with `after_library_module` rank in this order, and inside a rank the
deeper libraries come first, because an execution's own files are appended below the
copies it was handed. The proof needs that a schema
never says `after_library_module`; with such schema documents, which the
code cannot read, the order of the schemas would be another one.

`LibraryDelivery_proofs`, with the lemmas of `LibraryMail_proofs` about what is seen of one
execution, proves, under the same assumptions, that `LibraryExecution`
implements `EnvelopeDelivery`:

- `Delivers`: `Spec => DeliversEnvelopes`. Each execution is seen as a record of
  the abstract stack (`Seen`). The copies that `UsedInLibrary` makes are the
  abstract `Arrived` and `Onward` (`HandedDown`), because an envelope on its route has as
  many pieces consumed as its original address is longer than what is left of it; the
  envelopes around a library's own documents are a piece of mail that nobody
  declared before (`MailUnseen`), because their documents carry the number of the
  execution. `RunWithFiles` is then `StopEarly` or `Start`; `Eval` is `Open`;
  `DataValues` is `Peek`; `CallFails` and `CallPanics` are `OpenFails` if they are caught
  and `Fail` if not; every way to unwind is
  `Fail`; `Finish` is `Close`, as `AllUsed` makes the used envelopes the posted
  ones (`SeenAllUsed`); and calls that only make instances are not seen.
- `EnvelopesArrive`: so what is proved about `EnvelopeDelivery` (`OnItsWay`,
  `ReachesAddressee`, `Accounted`, `NothingLost`) holds for every run of
  `LibraryExecution`. It instantiates the theorems of `EnvelopeDelivery_proofs`
  with the refinement mapping, after showing that the assumptions about mail and
  addresses follow from those of `LibraryExecution`.

The assumptions are `TreeAssumption` (private libraries are libraries),
`DocsAssumption` (documents have addresses that are sequences of references, and
only addressed data values say `after_library_module`), `SkipAssumption`,
`BoundsAssumption` and `NilAssumption` (nil is no envelope).

`CompiledTemplate_proofs` proves, for every set of templates and functions, all
programs and every bound on activations, `TypeCorrect` (`TypeOK`),
`ContextsAreBracketed` (`Bracketed`), `FragmentsAreOwn` (`FragmentIsOwn`) and
`NeverPanics` (`NoPanic`); like the properties, they speak of well-behaved programs.
The inductive invariant `IInv` adds three facts to the properties:

- `FramesOK`: the code that an activation still has to execute has one of three
  shapes. At the top level of a template, and in a function with nodes, a context is
  open and an `EndCtx` lies ahead on every way through; in a function without
  nodes there is no instruction for contexts. Every activation but the last is at a
  call or a load.
- `CtxsOK`: contexts and root contexts belong to activations that were started.
- `Nesting`: templates are loaded from the top level of others, each once, and the
  root context of a template is that of its top level.

`EndCtx` pops the last context of its template; from `Bracketed` and the shape of
the code that context is the one of the activation itself. The assumptions are
`ProgramAssumption` (programs are well formed), `HomeAssumption` (each function has
a template) and `ActivationAssumption` (the bound is positive).

`OutputDirectory_proofs` proves, for every list of output files, every directory and
every step that fails, without assumptions on the constants:

- `NeverMixesOldAndNew`: `OutputSpec => []OldOrNew`.
- `LeavesTheOutput`: `OutputSpec => []HoldsOutput`: after a run that ends well the
  directory has every file whole.

Neither is inductive. The invariant `IInv` adds that nothing is touched before
`Write` has compared all paths (`Untouched`), that a directory that is emptied has no
old file from then on, unless removing stopped, when it has nothing but old files
(`Emptied`), and that the directory is at each point what the files created so far
make of it, a later file replacing an earlier one with its path (`Created`).
`WritesResult` in `template_run` connects the two: every step of `TemplateRun` is a step
of `OutputSpec` or leaves its variables alone, so the theorems hold of the whole run as
far as TLC has checked that.

Only model-checked are the refinements `EventsSpec` and `WritesResult` and the
properties of the other modules. What a loop over a slice computes can be proved: the
theorems of the library about induction take an operator as a parameter, which the
provers do not instantiate, but a least counterexample exists (`LeastNumber` in
`Filtering_proofs`), and with a recursive function in place of a recursive operator
each step of it can be taken. The modules that are only model-checked recurse over
trees and texts, by recursive operators or with operators as arguments of folds, and
those stay out of the prover's reach, as do liveness under fairness (`Terminates`)
and `ENABLED`.

## 6. What is not modelled

The components without a module are listed in `PROJECT.json` with the reason. They have
no state that outlives a call (conversions, the standard library, text templates,
ordered maps, layout), or are input and output around a run. Inside the modelled
parts these are left out:

- reading of files, standard input, HTTP and symbolic links, and bulk input;
- lookup of files and libraries by path for `load()` and `data.read()`, and loads that
  form a cycle, which never end;
- for data values: documents with overlay annotations of their own on the document,
  errors in `when=`, malformed `@assert/validate`, and documentation annotations;
- for YAML: the reader's decoding of UTF-8 and UTF-16 and byte order marks, `!!binary`,
  decoding into Go structs, and what ytt never emits (flow style, anchors, tags,
  folding);
- for overlays: what a `via` function makes of a whole document, and the annotations
  that documents added in post-processing keep (`library.eval` would hand them on);
- loops inside a template's contexts, and the contexts of text templates in a value;
- the content of messages, and positions apart from lines.

A composition of `CompiledTemplate` with `EvaluationCtx`, or of `DataValues` with
`LibraryExecution`, would multiply state spaces that are independent: contexts know
nothing of the nodes in them, and the delivery of a document nothing of its content.
