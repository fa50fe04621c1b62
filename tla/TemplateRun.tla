---------------------------- MODULE TemplateRun ----------------------------
(***************************************************************************)
(* A run of `ytt template` on regular files, from the list of files to the *)
(* output directory: file marks (pkg/cmd/template/file_marks.go), the tree *)
(* of libraries (pkg/workspace/library.go), what becomes of each file of   *)
(* the root library (pkg/workspace/library_execution.go), overlays         *)
(* (OverlayPostProcessing), and the writing of the result                  *)
(* (OutputDirectory).                                                      *)
(*                                                                         *)
(* The run is sequential.  What varies is the files, the marks and the     *)
(* flags, which step of writing fails, and the order of a Go map.          *)
(***************************************************************************)
EXTENDS OverlayPostProcessing, OutputDirectory

CONSTANT Runs  \* a sequence of sets of runs [files, marks, relaxed, inspect, openapi,
               \*                        dest, old]

\* A path is [dirs, base, lib, ext]: ext is the type that the extension stands for,
\* lib says that ".lib" is before it.
Types == {"yaml", "text", "starlark", "unknown"}
PrivateName == "_ytt_lib"
Unmarked == "unmarked"

\* The values of a type mark: the type, and whether it is a template.
TypeMark ==
  [v \in {"yaml-template", "yaml-plain", "text-template", "text-plain", "starlark", "data"} |->
     CASE v = "yaml-template" -> [type |-> "yaml", template |-> "true"]
       [] v = "yaml-plain"    -> [type |-> "yaml", template |-> "false"]
       [] v = "text-template" -> [type |-> "text", template |-> "true"]
       [] v = "text-plain"    -> [type |-> "text", template |-> "false"]
       [] v = "starlark"      -> [type |-> "starlark", template |-> "false"]
       [] v = "data"          -> [type |-> "unknown", template |-> "false"]]

\* files: each has its path, the documents of its result, the kind of document
\* (holds) that makes it a file of values or of a schema, and the step that fails
\* on it.  marks: a pattern and a key; "unknown" stands for every key and value that
\* is not known.  openapi: the output type.  dest: where the output goes; old: what is there already.
ASSUME RunAssumption ==
  \A i \in DOMAIN Runs : \A r \in Runs[i] :
    /\ \A k \in ToSet(r.marks) :
         /\ k.pattern.kind \in {"path", "*", "**/*"}
         /\ k.key \in {"path", "exclude", "type", "for-output", "exclusive-for-output",
                       "unknown", "malformed"}
    /\ Len(r.files) = NFiles
    /\ \A f \in Files :
         /\ r.files[f].path.ext \in Types
         /\ ToSet(r.files[f].docs) \subseteq Plain \cup Overlay
         /\ r.files[f].holds \in {"templates", "schema", "values"}
         /\ r.files[f].fails \in {"never", "parse", "preprocess", "eval"}
    /\ r.inspect \in {"nothing", "files", "schema", "values"} /\ r.openapi \in BOOLEAN
    /\ r.dest \in {"emptied", "suspicious", "added", "stdout"}

VARIABLES run,       \* the command line and the files it names
          marked,    \* for each file its path and marks: [path, type, template, forOutput]
          present,   \* filesToProcess: the files that are not excluded
          exclusive, \* exclusiveForOutputFiles
          marks,     \* marks still to be applied
          pending,   \* accessible files still to be evaluated
          stage,     \* what the run does next while it evaluates
          texts      \* outputFiles of eval: the results of text files

runVars == <<run, marked, present, exclusive, marks, pending, stage, texts>>
vars == <<overlayVars, outputVars, runVars>>

At(s) == phase = "evaluating" /\ stage = s

\* An error ends the run.
Refuse == phase' = "refused" /\ UNCHANGED <<dest, old, out, written, dir>>

-----------------------------------------------------------------------------
(* files.File: m is the path and marks of a file.                            *)

TypeOf(m) == IF m.type # Unmarked THEN m.type ELSE m.path.ext
IsLibrary(m) == m.path.lib \/ TypeOf(m) = "starlark"
isTemplate(m) == ~IsLibrary(m) /\ TypeOf(m) \in {"yaml", "text"}
IsTemplate(m) == IF m.template # Unmarked THEN m.template = "true" ELSE isTemplate(m)
IsForOutput(m) ==
  IF m.forOutput # Unmarked THEN m.forOutput = "true" ELSE m.template = "true" \/ isTemplate(m)

\* Neither compiled nor searched for annotations.
IsPlain(m) == ~IsTemplate(m) /\ ~IsLibrary(m)

-----------------------------------------------------------------------------
(* FileMarksOpts.Apply                                                       *)

MatchesPath(path, pattern) ==
  CASE pattern.kind = "path" -> path = pattern.path
    [] pattern.kind = "*"    -> path.dirs = pattern.path.dirs
    [] pattern.kind = "**/*" -> IsPrefix(pattern.path.dirs, path.dirs)

\* Mutant: the pattern is compared with the path that an earlier mark gave.
fileMarkMatchesMarked(f, pattern) == MatchesPath(marked[f].path, pattern)

\* The original path is what counts.
fileMarkMatches(f, pattern) == MatchesPath(run.files[f].path, pattern)

MarkFile(m, k) ==
  CASE k.key = "path"       -> [m EXCEPT !.path = k.to]
    [] k.key = "type"       -> [m EXCEPT !.type = TypeMark[k.value].type,
                                         !.template = TypeMark[k.value].template]
    [] k.key = "for-output" -> [m EXCEPT !.forOutput = "true"]
    [] OTHER                -> m

\* The mark is an error, given the files that it matches.
MarkFails(k, matched) ==
  \/ k.key = "malformed"
  \/ k.key = "unknown" /\ matched # << >>
  \/ matched = << >> /\ ~(run.relaxed /\ k.pattern.kind # "path")

\* One mark, on all files that it matches.
ApplyMark ==
  /\ At("marks") /\ marks # << >>
  /\ LET k == Head(marks)
         matched == SelectSeq(present, LAMBDA f : fileMarkMatches(f, k.pattern))
     IN  IF MarkFails(k, matched)
         THEN Refuse /\ UNCHANGED <<marked, present, exclusive>>
         ELSE /\ marked' = [f \in Files |-> IF f \in ToSet(matched) THEN MarkFile(marked[f], k)
                                                                    ELSE marked[f]]
              /\ present' = IF k.key # "exclude" THEN present
                            ELSE SelectSeq(present, LAMBDA f : f \notin ToSet(matched))
              /\ exclusive' = IF k.key # "exclusive-for-output" THEN exclusive
                              ELSE exclusive \o matched
              /\ UNCHANGED outputVars
  /\ marks' = Tail(marks)
  /\ UNCHANGED <<overlayVars, run, pending, stage, texts>>

\* Files that are exclusively for output, also excluded ones, take it from others.
ExclusiveMarks ==
  [f \in Files |->
     IF f \in ToSet(exclusive) THEN [marked[f] EXCEPT !.forOutput = "true"]
     ELSE IF exclusive # << >> /\ f \in ToSet(present)
     THEN [marked[f] EXCEPT !.forOutput = "false"] ELSE marked[f]]

\* RunWithFiles returns an Output with the given files.
Return(files) == phase' = "output" /\ out' = files /\ UNCHANGED <<dest, old, written, dir>>

\* What the flags ask to inspect ends the run, with a document and no files.
ReturnIf(inspect, next) ==
  IF run.inspect = inspect THEN Return(<< >>) /\ UNCHANGED stage
                           ELSE stage' = next /\ UNCHANGED outputVars

EndMarks ==
  /\ At("marks") /\ marks = << >>
  /\ marked' = ExclusiveMarks
  /\ ReturnIf("files", "schema")
  /\ UNCHANGED <<overlayVars, run, present, exclusive, marks, pending, texts>>

-----------------------------------------------------------------------------
(* NewRootLibrary and listAccessibleFiles: a directory is a library, which   *)
(* lists its own files before those of its children, in the order in which   *)
(* the files made them; private ones are left out.                           *)

Dirs(f) == marked[f].path.dirs

\* The libraries just below dirs, in the order of the files fs.
Children(fs, dirs) ==
  FoldLeft(LAMBDA names, f : IF Dirs(f)[Len(dirs) + 1] \in ToSet(names) THEN names
                             ELSE Append(names, Dirs(f)[Len(dirs) + 1]),
           << >>, SelectSeq(fs, LAMBDA f : IsStrictPrefix(dirs, Dirs(f))))

RECURSIVE listAccessibleFiles(_, _)
listAccessibleFiles(fs, dirs) ==
  LET public == SelectSeq(Children(fs, dirs), LAMBDA name : name # PrivateName)
  IN  SelectSeq(fs, LAMBDA f : Dirs(f) = dirs)
        \o FlattenSeq([i \in DOMAIN public |-> listAccessibleFiles(fs, Append(dirs, public[i]))])

ListAccessibleFiles == listAccessibleFiles(present, << >>)

-----------------------------------------------------------------------------
(* LibraryExecution: Schemas, Values and eval.                               *)

\* The accessible YAML templates; all of them are parsed.
YAMLTemplates ==
  {f \in ToSet(ListAccessibleFiles) : TypeOf(marked[f]) = "yaml" /\ IsTemplate(marked[f])}

\* Files of the given kind of document leave the output.
filesByAnnotation(kind) ==
  [f \in Files |-> IF f \in YAMLTemplates /\ run.files[f].holds = kind
                   THEN [marked[f] EXCEPT !.forOutput = "false"] ELSE marked[f]]

PreProcessFails(kind) ==
  \E f \in YAMLTemplates : \/ run.files[f].fails = "parse"
                           \/ run.files[f].holds = kind /\ run.files[f].fails = "preprocess"

\* Schemas, and nothing else, are written as an OpenAPI document.
WrongFormat(kind) == kind = "schema" /\ run.openapi # (run.inspect = "schema")

PreProcess(kind, next) ==
  /\ At(kind)
  /\ IF PreProcessFails(kind) \/ WrongFormat(kind) THEN Refuse /\ UNCHANGED <<marked, pending, stage>>
     ELSE /\ marked' = filesByAnnotation(kind)
          /\ ReturnIf(kind, next)
          /\ pending' = ListAccessibleFiles
  /\ UNCHANGED <<overlayVars, run, present, exclusive, marks, texts>>

Schemas == PreProcess("schema", "values")
Values == PreProcess("values", "eval")

\* EvalYAML, EvalText or EvalStarlark returns an error.
EvalFails(f) == \/ run.files[f].fails = "parse" /\ TypeOf(marked[f]) = "yaml"
                \/ /\ run.files[f].fails = "eval" /\ ~IsPlain(marked[f])
                   /\ TypeOf(marked[f]) # "unknown"

\* The comments of a plain file are not read: its documents are no overlays.
ResultOf(f) ==
  [i \in DOMAIN run.files[f].docs |->
     IF IsPlain(marked[f])
     THEN [overlay |-> FALSE, name |-> run.files[f].docs[i].name,
           empty |-> ~run.files[f].docs[i].overlay /\ run.files[f].docs[i].empty]
     ELSE run.files[f].docs[i]]

EvalError(f) ==
  \/ IsForOutput(marked[f]) /\ TypeOf(marked[f]) \notin {"yaml", "text"}
  \/ EvalFails(f) /\ (IsForOutput(marked[f]) \/ IsLibrary(marked[f]))

ForOutput(f, type) == IsForOutput(marked[f]) /\ TypeOf(marked[f]) = type
TextFile(f) == [path |-> marked[f].path, file |-> f, docs |-> << >>]

\* Mutant: a text file is handed over before the rest is evaluated.
EvalTextEarly(f) ==
  texts' = Append(texts, TextFile(f)) /\ out' = texts' /\ UNCHANGED <<dest, old, phase, written, dir>>

\* EvalText for a file that is for output.
EvalText(f) == texts' = Append(texts, TextFile(f)) /\ UNCHANGED outputVars

\* The loop of eval: the next accessible file.  Library files are only evaluated.
EvalFile ==
  /\ At("eval") /\ pending # << >>
  /\ LET f == Head(pending)
     IN  \/ EvalError(f) /\ Refuse /\ UNCHANGED <<input, texts>>
         \/ /\ ~EvalError(f) /\ ForOutput(f, "yaml")
            /\ input' = input @@ (f :> ResultOf(f)) /\ UNCHANGED <<outputVars, texts>>
         \/ ~EvalError(f) /\ ForOutput(f, "text") /\ EvalText(f) /\ UNCHANGED input
         \/ ~IsForOutput(marked[f]) /\ ~EvalError(f) /\ UNCHANGED <<input, outputVars, texts>>
  /\ pending' = Tail(pending)
  /\ UNCHANGED <<collected, left, todo, status, run, marked, present, exclusive, marks, stage>>

\* checkUnusedDVsOrSchemas, for which see EnvelopeDelivery, may return an error.
EndEval ==
  /\ At("eval") /\ pending = << >>
  /\ \/ stage' = "overlays" /\ StartCollecting /\ UNCHANGED outputVars
     \/ Refuse /\ UNCHANGED <<overlayVars, stage>>
  /\ UNCHANGED <<run, marked, present, exclusive, marks, pending, texts>>

PostProcess == At("overlays") /\ OverlayNext /\ UNCHANGED <<outputVars, runVars>>

\* Mutant: the path that the file had before it was marked.
DocSetFilesUnmarked ==
  LET sets == SortSeq(left, LAMBDA a, b : a.file < b.file)
  IN  [i \in DOMAIN sets |-> [path |-> run.files[sets[i].file].path, file |-> sets[i].file,
                              docs |-> sets[i].items]]

\* sortedOutputDocSets: document sets follow the text files, in file order.
DocSetFiles ==
  LET sets == SortSeq(left, LAMBDA a, b : a.file < b.file)
  IN  [i \in DOMAIN sets |-> [path |-> marked[sets[i].file].path, file |-> sets[i].file,
                              docs |-> sets[i].items]]

Results ==
  /\ At("overlays")
  /\ \/ status = "error" /\ Refuse
     \/ status = "done" /\ Return(texts \o DocSetFiles)
  /\ UNCHANGED <<overlayVars, runVars>>

-----------------------------------------------------------------------------

Init ==
  /\ OverlayInit
  /\ \E i \in DOMAIN Runs : run \in Runs[i]
  /\ marked = [f \in Files |-> [path |-> run.files[f].path, type |-> Unmarked,
                                template |-> Unmarked, forOutput |-> Unmarked]]
  /\ present = [f \in Files |-> f] /\ exclusive = << >> /\ marks = run.marks
  /\ pending = << >> /\ stage = "marks" /\ texts = << >>
  /\ dest = run.dest /\ old = run.old
  /\ phase = "evaluating" /\ out = << >> /\ written = 0 /\ dir = old

Next ==
  \/ ApplyMark \/ EndMarks \/ Schemas \/ Values
  \/ EvalFile \/ EndEval \/ PostProcess \/ Results
  \/ WriteOutput /\ UNCHANGED <<overlayVars, runVars>>

Spec == Init /\ [][Next]_vars

-----------------------------------------------------------------------------
(* What the marks say, all at once: the last mark of a kind counts.          *)

MarksOn(f, key) ==
  SelectSeq(run.marks, LAMBDA k : k.key = key /\ MatchesPath(run.files[f].path, k.pattern))

FinalPath(f) ==
  IF MarksOn(f, "path") = << >> THEN run.files[f].path ELSE Last(MarksOn(f, "path")).to

FinalMarks(f) ==
  LET types == MarksOn(f, "type")
  IN  [path |-> FinalPath(f), forOutput |-> Unmarked,
       type |-> IF types = << >> THEN Unmarked ELSE TypeMark[Last(types).value].type,
       template |-> IF types = << >> THEN Unmarked ELSE TypeMark[Last(types).value].template]

\* Files with an exclusive mark before which no mark excludes them.
Exclusive ==
  {f \in Files : \E i \in DOMAIN run.marks :
     LET before == SubSeq(run.marks, 1, i - 1)
     IN  /\ run.marks[i].key = "exclusive-for-output"
         /\ MatchesPath(run.files[f].path, run.marks[i].pattern)
         /\ \A k \in ToSet(before) : k.key = "exclude" =>
              ~MatchesPath(run.files[f].path, k.pattern)}

\* The file has a place in the output.
Expected(f) ==
  LET m == FinalMarks(f)
      data == TypeOf(m) = "yaml" /\ IsTemplate(m) /\ run.files[f].holds # "templates"
  IN  /\ MarksOn(f, "exclude") = << >> /\ PrivateName \notin ToSet(m.path.dirs) /\ ~data
      /\ IF Exclusive # {} THEN f \in Exclusive
         ELSE MarksOn(f, "for-output") # << >> \/ IsForOutput(m)

\* The files that are evaluated for output are those that the marks, taken together,
\* ask for, whatever their order on the command line: the last path and type count, an
\* exclusion counts for good, exclusive marks overrule for-output, and files of data
\* values and schemas and private libraries stay out (FileMarksOpts.Apply, eval).
OutputFollowsMarks ==
  stage = "overlays" => DOMAIN input \cup {t.file : t \in ToSet(texts)} = {f \in Files : Expected(f)}

\* The directory holds the result of each expected file under the path that the file
\* was given.  If it was emptied before, no two files have the same path and there is
\* no other file.  If it was not, other files stay as they were, and of files with the
\* same path the last one is there: a document set rather than a text, and of either
\* the one that comes last in the order of the files (OutputDirectory.Write, WriteFiles
\* and sortedOutputDocSets).
DirectoryIsOutput ==
  phase = "done" /\ dest \in {"emptied", "added"} =>
    LET sets == IF run.inspect # "nothing" THEN {} ELSE {s.file : s \in ToSet(left)}
        textFiles == IF run.inspect # "nothing" THEN {}
                     ELSE {f \in Files : Expected(f) /\ TypeOf(FinalMarks(f)) = "text"}
        Under(fs, p) == {f \in fs : FinalPath(f) = p}
        LastAt(p) == IF Under(sets, p) # {} THEN Max(Under(sets, p)) ELSE Max(Under(textFiles, p))
        paths == {FinalPath(f) : f \in sets \cup textFiles}
        stay == IF dest = "added" THEN DOMAIN old \ paths ELSE {}
    IN  /\ dir = [p \in paths \cup stay |->
                   IF p \in stay THEN old[p]
                   ELSE [of |-> LastAt(p), docs |-> Output(left)[LastAt(p)]]]
        /\ dest = "emptied" => Cardinality(paths) = Cardinality(sets \cup textFiles)

\* The run hands over its output files at once, when all of it has succeeded, and the
\* directory is not touched before (Options.RunWithFiles).
WritesResult == OutputSpec

=============================================================================
