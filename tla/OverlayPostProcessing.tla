----------------------- MODULE OverlayPostProcessing -----------------------
(***************************************************************************)
(* Overlays on the documents of a library's output                         *)
(* (pkg/workspace/overlay_post_processing.go and the document operations   *)
(* of pkg/yttlibrary/overlay).                                             *)
(*                                                                         *)
(* The evaluated files are the keys of a Go map, so they are collected in  *)
(* any order.  Documents annotated with overlay/match are overlays; they   *)
(* apply in file order to the other documents of all files.  Documents are *)
(* pointers: id tells them apart, and an edit of one shows wherever it is. *)
(* The content of a document is the sequence of overlays that have edited  *)
(* it.                                                                     *)
(***************************************************************************)
EXTENDS Integers, SequencesExt

CONSTANTS NFiles,   \* files 1 .. NFiles, numbered in their assigned order
          Plain,    \* documents that are not overlays: [overlay |-> FALSE, name, empty]
          Overlay   \* overlays: [overlay |-> TRUE, name, op, by, expects, when,
                    \*            before, after, orAdd, fails]

Files == 1 .. NFiles
Own == "own"
Absent == "absent"
Ops == {"merge", "remove", "replace", "insert", "append", "assert"}

\* by: a matcher; names: a function of the value; edited: one that sees the edit
\* of another overlay; index: overlay.index; by.fails: the documents on which the
\* call fails or gives no boolean.  expects: the numbers of matches that are accepted;
\* when: a number that is not skips the overlay.  fails: the documents on which the
\* merge, the assertion or the via function fails; Absent if via fails without one.
ASSUME OverlayAssumption ==
  /\ NFiles \in Nat
  /\ \A d \in Plain : ~d.overlay
  /\ \A o \in Overlay : /\ o.overlay /\ o.op \in Ops
                        /\ o.by.kind \in {"names", "edited", "index"}
                        /\ o.name # Own

VARIABLES input,     \* docSets: the documents of each file that was evaluated
          collected, \* files that the loop over the map has visited
          left,      \* docSetsWithoutOverlays: [file, items], in order of visit
          todo,      \* overlays still to be applied
          status     \* "idle", "collecting", "overlaying", "done" or "error"

overlayVars == <<input, collected, left, todo, status>>

InputOf(f) == IF f \in DOMAIN input THEN input[f] ELSE << >>

IsOverlay(d) == d.overlay

\* A document is made by its file, or by an overlay at a place of a file.
NewDoc(name, id) == [name |-> name, id |-> id, edits |-> << >>]
MadeBy(o, file, place) == NewDoc(o.name, [by |-> o.name, file |-> file, place |-> place])
MadeFrom(o, sets, i, j) == MadeBy(o, sets[i].file, j)
Added(o) == MadeBy(o, 0, 0)

-----------------------------------------------------------------------------
(* DocumentMatchAnnotation: positions <<docset, item>> of matching documents. *)

Positions(sets) == UNION {{i} \X DOMAIN sets[i].items : i \in DOMAIN sets}
DocAt(sets, p) == sets[p[1]].items[p[2]]

CombinedIdx(sets, p) ==
  FoldLeft(LAMBDA n, s : n + Len(s.items), 0, SubSeq(sets, 1, p[1] - 1)) + p[2] - 1

Matched(sets, o) ==
  {p \in Positions(sets) :
     CASE o.by.kind = "names"  -> DocAt(sets, p).name \in o.by.names
       [] o.by.kind = "edited" -> o.by.name \in ToSet(DocAt(sets, p).edits)
       [] o.by.kind = "index"  -> CombinedIdx(sets, p) = o.by.i}

\* The matcher is called with every document.
MatchFails(sets, o) == \E p \in Positions(sets) : DocAt(sets, p).name \in o.by.fails

-----------------------------------------------------------------------------
(* The operations on documents.                                               *)

Edited(d, o, n) == [d EXCEPT !.edits = @ \o [k \in 1 .. n |-> o.name]]

\* Mutant: the position is looked up in the first document set.
mergeDocumentFirstSet(sets, o, ps) ==
  [i \in DOMAIN sets |-> [sets[i] EXCEPT !.items =
     [j \in DOMAIN @ |-> IF i = 1 /\ \E p \in ps : p[2] = j THEN Edited(@[j], o, 1) ELSE @[j]]]]

\* Each match edits its document in place, one that is at two places twice.
\* assertDocument merges what it has checked.
mergeDocument(sets, o, ps) ==
  LET Times(d) == Cardinality({p \in ps : DocAt(sets, p).id = d.id})
  IN  [i \in DOMAIN sets |-> [sets[i] EXCEPT !.items =
         [j \in DOMAIN @ |-> Edited(@[j], o, Times(@[j]))]]]

\* Each item gives way to a sequence of items.
Expanded(sets, Expand(_, _, _)) ==
  [i \in DOMAIN sets |-> [sets[i] EXCEPT !.items =
     FlattenSeq([j \in DOMAIN @ |-> Expand(i, j, @[j])])]]

\* Mutant: documents of other sets at the same position go, too.
removeDocumentAnySet(sets, o, ps) ==
  Expanded(sets, LAMBDA i, j, d : IF \E p \in ps : p[2] = j THEN << >> ELSE <<d>>)

removeDocument(sets, o, ps) ==
  Expanded(sets, LAMBDA i, j, d : IF <<i, j>> \in ps THEN << >> ELSE <<d>>)

\* One new document serves both sides of a match.
insertDocument(sets, o, ps) ==
  Expanded(sets, LAMBDA i, j, d :
    IF <<i, j>> \notin ps THEN <<d>>
    ELSE LET new == <<MadeFrom(o, sets, i, j)>>
         IN  (IF o.before THEN new ELSE << >>) \o <<d>> \o (IF o.after THEN new ELSE << >>))

appendDocument(sets, o) ==
  [sets EXCEPT ![Len(sets)].items = Append(@, Added(o))]

replaceDocument(sets, o, ps) ==
  IF ps = {} /\ o.orAdd THEN [sets EXCEPT ![1].items = Append(@, Added(o))]
  ELSE Expanded(sets, LAMBDA i, j, d :
         IF <<i, j>> \in ps THEN <<MadeFrom(o, sets, i, j)>> ELSE <<d>>)

\* The operation fails on a match, or on the nil that or_add passes to via.
OperationFails(sets, o, ps) ==
  \/ o.op # "remove" /\ \E p \in ps : DocAt(sets, p).name \in o.fails
  \/ o.op = "replace" /\ o.orAdd /\ ps = {} /\ Absent \in o.fails

\* applyDocSet for one overlay: the new document sets, or Failed.
Failed == << >>

applyDocSet(sets, o) ==
  LET ps == Matched(sets, o) IN
  IF o.op = "append" THEN appendDocument(sets, o)
  ELSE CASE MatchFails(sets, o) -> Failed
         [] ~MatchFails(sets, o) /\ Cardinality(ps) \notin o.expects ->
              IF o.when THEN sets ELSE Failed
         [] OTHER ->
              CASE OperationFails(sets, o, ps) -> Failed
                [] o.op \in {"merge", "assert"} -> mergeDocument(sets, o, ps)
                [] o.op = "remove"  -> removeDocument(sets, o, ps)
                [] o.op = "insert"  -> insertDocument(sets, o, ps)
                [] o.op = "replace" -> replaceDocument(sets, o, ps)

-----------------------------------------------------------------------------
(* OverlayPostProcessing.Apply                                                *)

\* The documents of a file that stay: neither overlays nor empty.
NewItems(f) ==
  LET kept == SelectSeq(InputOf(f), LAMBDA d : ~IsOverlay(d) /\ ~d.empty)
  IN  [k \in DOMAIN kept |-> NewDoc(kept[k].name, [by |-> Own, file |-> f, place |-> k])]

\* Mutant: the last file first.
SortedOverlaysBackwards ==
  FlattenSeq([k \in Files |-> SelectSeq(InputOf(NFiles + 1 - k), IsOverlay)])

\* The overlays of all files in file order, whatever the order of visit.
SortedOverlays ==
  FlattenSeq([f \in Files |-> SelectSeq(InputOf(f), IsOverlay)])

\* The first file with an overlay takes the documents if no file has any.
Prepared(sets, overlays) ==
  IF sets # << >> \/ overlays = << >> THEN sets
  ELSE <<[file |-> Min({f \in Files : SelectSeq(InputOf(f), IsOverlay) # << >>}),
          items |-> << >>]>>

Collected(sets, f) ==
  IF NewItems(f) = << >> THEN sets
  ELSE Append(sets, [file |-> f, items |-> NewItems(f)])

\* One iteration of the loop over the map of document sets.
Collect(f) ==
  /\ status = "collecting" /\ f \in DOMAIN input \ ToSet(collected)
  /\ collected' = Append(collected, f)
  /\ left' = Collected(left, f)
  /\ UNCHANGED <<input, todo, status>>

\* The overlays are put in order.
StartOverlays ==
  /\ status = "collecting" /\ ToSet(collected) = DOMAIN input
  /\ todo' = SortedOverlays
  /\ left' = Prepared(left, todo')
  /\ status' = "overlaying"
  /\ UNCHANGED <<input, collected>>

\* The next overlay is applied; its error ends the run.
ApplyOverlay ==
  /\ status = "overlaying" /\ todo # << >>
  /\ LET new == applyDocSet(left, Head(todo))
     IN  IF new = Failed THEN status' = "error" /\ left' = left
                         ELSE status' = status /\ left' = new
  /\ todo' = Tail(todo)
  /\ UNCHANGED <<input, collected>>

\* Document sets go back to their files; the one that was added goes if empty.
Finish ==
  /\ status = "overlaying" /\ todo = << >>
  /\ status' = "done"
  /\ left' = IF \A f \in Files : NewItems(f) = << >>
             THEN SelectSeq(left, LAMBDA s : s.items # << >>) ELSE left
  /\ UNCHANGED <<input, collected, todo>>

OverlayInit ==
  /\ input = << >> /\ collected = << >> /\ left = << >> /\ todo = << >>
  /\ status = "idle"

\* LibraryExecution.Eval hands over the document sets of the evaluated files.
StartCollecting ==
  /\ status = "idle" /\ status' = "collecting"
  /\ UNCHANGED <<input, collected, left, todo>>

OverlayNext ==
  \/ \E f \in Files : Collect(f)
  \/ StartOverlays \/ ApplyOverlay \/ Finish

-----------------------------------------------------------------------------

Overlays == FlattenSeq([f \in Files |-> SelectSeq(InputOf(f), IsOverlay)])

\* What the overlays make of the document sets in file order.
Reference ==
  LET sets == FoldLeft(Collected, << >>, [f \in Files |-> f])
  IN  FoldLeft(LAMBDA s, o : IF s = Failed THEN s ELSE applyDocSet(s, o),
               Prepared(sets, SortedOverlays), SortedOverlays)

Output(sets) ==
  [f \in Files |-> FlattenSeq([i \in DOMAIN sets |->
                                 IF sets[i].file = f THEN sets[i].items ELSE << >>])]

\* The result of a run is the same for every order in which the loop over the map
\* of files may visit them.
Deterministic ==
  /\ status = "done" => Output(left) = Output(Reference)
  /\ status = "error" => Reference = Failed

\* Operations that depend on which document set is first or last.
OrderSensitive(o) == \/ o.op = "append"
                     \/ o.op = "replace" /\ o.orAdd
                     \/ o.by.kind = "index"

\* Overlays that match by value, and add nothing unmatched, give the same result in
\* every order of the files (OverlayPostProcessing.Apply).
OrderIndependent == (\A o \in ToSet(Overlays) : ~OrderSensitive(o)) => Deterministic

\* The overlay named n is before the one named m: in an earlier file, or earlier in
\* the same file.
Before(n, m) ==
  \E f, g \in Files : \E i \in DOMAIN InputOf(f), j \in DOMAIN InputOf(g) :
    /\ IsOverlay(InputOf(f)[i]) /\ InputOf(f)[i].name = n
    /\ IsOverlay(InputOf(g)[j]) /\ InputOf(g)[j].name = m
    /\ f < g \/ (f = g /\ i < j)

\* One overlay put the document at two places.
AtTwoPlaces(d) ==
  \E o \in ToSet(Overlays) : o.name = d.id.by /\ o.op = "insert" /\ o.before /\ o.after

\* A document is edited by overlays in the order of their files, and within a file
\* in the order of the documents (SortFilesInLibrary); one that an overlay made, only by
\* overlays after that one.  Each edits it once, or twice if it was inserted both
\* before and after a match: it is one document then (insertDocument).
EditsInOrder ==
  \A i \in DOMAIN left : \A d \in ToSet(left[i].items) : \A k, l \in DOMAIN d.edits :
    /\ k < l => \/ Before(d.edits[k], d.edits[l])
                \/ d.edits[k] = d.edits[l] /\ AtTwoPlaces(d) /\ l = k + 1
    /\ d.id.by # Own => Before(d.id.by, d.edits[k])

\* The documents of a file stay in it, in their order; unless an overlay removes or
\* replaces documents, none is missing.
KeptInPlace ==
  status = "done" =>
    \A f \in Files :
      LET own == NewItems(f)
          Ids(docs) == [k \in DOMAIN docs |-> docs[k].id]
          kept == SelectSeq(Ids(Output(left)[f]), LAMBDA id : id.by = Own)
      IN  /\ kept = SelectSeq(Ids(own), LAMBDA id : id \in ToSet(kept))
          /\ kept = Ids(own) \/ \E o \in ToSet(Overlays) :
               /\ o.op \in {"remove", "replace"}
               /\ o.by.kind = "names" => \E d \in ToSet(own) : d.name \in o.by.names

=============================================================================
