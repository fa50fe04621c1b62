--------------------------- MODULE MCTemplateRun ---------------------------
(* Three files.  One family of runs has up to four overlays on up to three   *)
(* documents and no marks; the other has up to three marks, the kinds of     *)
(* files and destinations that they tell apart, and one overlay.             *)
EXTENDS TemplateRun

Doc(name) == [overlay |-> FALSE, name |-> name, empty |-> FALSE]
EmptyDoc == [overlay |-> FALSE, name |-> "empty", empty |-> TRUE]

O(name, op, by, expects) ==
  [overlay |-> TRUE, name |-> name, op |-> op, by |-> by, expects |-> expects,
   when |-> FALSE, before |-> FALSE, after |-> FALSE, orAdd |-> FALSE, fails |-> {}]
ByName(names) == [kind |-> "names", names |-> names, fails |-> {}]
AnyNumber == 0 .. 9

Merge == O("merge", "merge", ByName({"a", "c"}), {1, 2})
MergeAll == O("merge-all", "merge", ByName({"a", "b", "c"}), {3})
MergeFirst == O("merge-first", "merge", [kind |-> "index", i |-> 0, fails |-> {}], {1})
RemoveB == O("remove", "remove", ByName({"b"}), AnyNumber)
Insert == [O("insert", "insert", [kind |-> "edited", name |-> "merge", fails |-> {}], {2})
             EXCEPT !.before = TRUE, !.after = TRUE, !.when = TRUE]
MergeInserted == O("merge-inserted", "merge", ByName({"insert"}), AnyNumber)
AddDoc == O("append", "append", ByName({}), {1})
ReplaceA == O("replace", "replace", ByName({"a"}), {1})
ReplaceOrAdd == [O("replace-or-add", "replace", ByName({"x"}), {0, 1}) EXCEPT !.orAdd = TRUE]
\* via fails if there is nothing to replace.
OrAddFails == [O("or-add-fails", "replace", ByName({"a"}), AnyNumber)
                 EXCEPT !.orAdd = TRUE, !.fails = {Absent}]
\* The matcher fails on a document that `when` would have skipped.
MatcherFails == [O("matcher-fails", "merge", [ByName({"a"}) EXCEPT !.fails = {"b", "insert"}], {1})
                   EXCEPT !.when = TRUE]
AssertBC == [O("assert", "assert", ByName({"b", "c"}), AnyNumber) EXCEPT !.fails = {"c"}]

MCPlain == {Doc("a"), Doc("b"), Doc("c"), EmptyDoc}
MCOverlay == {Merge, MergeAll, MergeFirst, RemoveB, Insert, MergeInserted, AddDoc, ReplaceA,
              ReplaceOrAdd, OrAddFails, MatcherFails, AssertBC}

MCPath == [dirs : Seq(STRING), base : STRING, lib : BOOLEAN, ext : Types]
MCData == Seq([name : STRING, id : [by : STRING, file : Nat, place : Nat], edits : Seq(STRING)])

-----------------------------------------------------------------------------

P(dirs, base, ext) == [dirs |-> dirs, base |-> base, lib |-> FALSE, ext |-> ext]
File(path, docs) == [path |-> path, docs |-> docs, holds |-> "templates", fails |-> "never"]

A == P(<< >>, "a", "yaml")
B == P(<<"d">>, "b", "yaml")
C == P(<<"d", "e">>, "c", "text")
Moved == P(<<"d">>, "moved", "yaml")
Private == P(<<PrivateName, "d">>, "b", "yaml")

OldDir == (A :> [of |-> Old, docs |-> << >>]) @@ (Private :> [of |-> Old, docs |-> << >>])

\* Overlays: three YAML files, printed.
OverlayInputs ==
  {<<f1, f2, f3>> :
     f1 \in {<<Doc("a")>>, <<EmptyDoc>>} \cup {<<o, Doc("a")>> : o \in MCOverlay},
     f2 \in {<< >>, <<Doc("b")>>, <<Doc("b"), Doc("c")>>} \cup {<<o>> : o \in {Merge, Insert}},
     f3 \in {<<Doc("c")>>} \cup {<<o, p>> : o, p \in MCOverlay}
              \cup {<<o, Doc("c"), p>> : o, p \in MCOverlay}}

Distinct(in) ==
  LET all == SelectSeq(in[1] \o in[2] \o in[3], IsOverlay)
  IN  Cardinality(ToSet(all)) = Len(all)

OverlayRun(in) ==
  [files |-> <<File(A, in[1]), File(B, in[2]), File(P(<<"d">>, "c", "yaml"), in[3])>>,
   marks |-> << >>, relaxed |-> FALSE, inspect |-> "nothing", openapi |-> FALSE, dest |-> "stdout", old |-> << >>]

OverlayRuns == {OverlayRun(in) : in \in {i \in OverlayInputs : Distinct(i)}}

\* Marks.
M(kind, path, key, value) ==
  [pattern |-> [kind |-> kind, path |-> path], key |-> key, value |-> value, to |-> path]
Marks ==
  {[M("path", A, "path", "") EXCEPT !.to = Moved],
   [M("path", A, "path", "") EXCEPT !.to = Private],
   [M("*", B, "path", "") EXCEPT !.to = A],
   M("path", A, "exclude", ""), M("**/*", B, "exclude", ""), M("path", Moved, "exclude", ""),
   M("*", A, "type", "yaml-plain"), M("**/*", B, "type", "text-template"),
   M("path", C, "type", "data"), M("path", B, "type", "starlark"), M("path", B, "type", "yaml-template"),
   M("path", C, "type", "text-plain"),
   M("**/*", A, "for-output", ""), M("path", B, "for-output", ""),
   M("path", B, "exclusive-for-output", ""), M("**/*", B, "exclusive-for-output", ""),
   M("*", Private, "unknown", ""), M("path", A, "malformed", "")}

\* The second file: a template, a library, values, a schema, in a private library,
\* and files that fail at each step.
SecondFiles ==
  LET b == File(B, <<Doc("b")>>)
  IN  {b, [b EXCEPT !.path.lib = TRUE], [b EXCEPT !.holds = "values"], [b EXCEPT !.holds = "schema"],
       [b EXCEPT !.path = Private], [b EXCEPT !.fails = "parse"], [b EXCEPT !.fails = "eval"],
       [b EXCEPT !.holds = "values", !.fails = "preprocess"], [b EXCEPT !.path.ext = "unknown"]}

MarkRun(second, marksOf, relaxed, inspect, where) ==
  [files |-> <<File(A, <<RemoveB, Doc("a")>>), second, File(C, << >>)>>,
   marks |-> marksOf, relaxed |-> relaxed, inspect |-> inspect, openapi |-> inspect = "schema",
   dest |-> where, old |-> OldDir]

One == {<< >>} \cup {<<k>> : k \in Marks}
Two == {<<k, l>> : k, l \in Marks}
\* The marks that three in a row are chosen from.
Few == {[M("path", A, "path", "") EXCEPT !.to = Moved], [M("*", B, "path", "") EXCEPT !.to = A],
        M("path", A, "exclude", ""), M("**/*", B, "exclude", ""),
        M("*", A, "type", "yaml-plain"), M("**/*", B, "type", "text-template"),
        M("**/*", A, "for-output", ""), M("path", B, "exclusive-for-output", ""),
        M("**/*", B, "exclusive-for-output", "")}
Three == {<<k, l, m>> : k, l, m \in Few}
Plainly == File(B, <<Doc("b")>>)

MCRuns ==
  <<OverlayRuns,
    {MarkRun(second, marksOf, relaxed, "nothing", where) :
       second \in SecondFiles, marksOf \in One, relaxed \in BOOLEAN,
       where \in {"emptied", "suspicious", "added"}},
    {MarkRun(second, marksOf, TRUE, "nothing", "emptied") :
       second \in SecondFiles, marksOf \in Two},
    {MarkRun(Plainly, marksOf, TRUE, "nothing", "added") : marksOf \in Two \cup Three},
    {MarkRun(Plainly, << >>, FALSE, inspect, where) :
       inspect \in {"files", "schema", "values"}, where \in {"emptied", "added"}},
    {[MarkRun(Plainly, << >>, FALSE, inspect, "emptied") EXCEPT !.openapi = ~@] :
       inspect \in {"nothing", "files", "schema", "values"}}>>

=============================================================================
