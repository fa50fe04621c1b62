----------------------------- MODULE OverlayOp -----------------------------
(***************************************************************************)
(* Overlay operations on maps and arrays (pkg/yttlibrary/overlay).         *)
(*                                                                         *)
(* Op.Apply edits its left argument in place: nodes are pointers that      *)
(* several holders may share, items are copied at some places and shared   *)
(* at others, and an error leaves the edits made so far.  The model        *)
(* therefore keeps the nodes in a heap, and takes one step for each item   *)
(* of the right side and for each item it matches on the left.             *)
(*                                                                         *)
(* A value is an integer: 0 is null, a negative number is a scalar, a      *)
(* positive number is the address of a Map or an Array.  heap.node gives   *)
(* the containers, heap.item the map and array items they point to (an     *)
(* array item has the key NoKey).  Positions, comments and metas are left  *)
(* out.                                                                    *)
(***************************************************************************)
EXTENDS Integers, Sequences, SequencesExt

CONSTANT MoreAnns   \* the annotations that overlays have, by name

VARIABLES
    heap,    \* [node : Seq([kind, items]), item : Seq([key, val, ann])]
    stack,   \* the calls of apply that are open, as frames
    status,  \* of the current Op.Apply: "idle", "running", "ok" or "failed"
    args,    \* its left and right value
    pre      \* the heap it began with

opVars == <<heap, stack, status, args, pre>>

Null == 0
NoKey == "-"
None == [t |-> "none"]

IsNode(v) == v > 0

(* FoldLeft, with the accumulator bound to its value at every step: TLC    *)
(* would otherwise put off evaluating it to the innermost of nested folds. *)
Fold(op(_, _), base, s) ==
    LET acc[i \in 0 .. Len(s)] ==
            IF i = 0 THEN base ELSE CHOOSE r \in {op(x, s[i]) : x \in {acc[i - 1]}} : TRUE
    IN  acc[Len(s)]

(***************************************************************************)
(* The overlay annotations of a node: the operations it names, the kwargs  *)
(* of overlay/match and of overlay/match-child-defaults, those of insert   *)
(* (its kwargs that are not False, {"false"} if all are), replace and      *)
(* assert, and the annotations that have an unknown kwarg.  An item has    *)
(* the name of its annotations; AnnOf tells what they are.                 *)
(***************************************************************************)
NoExpects == [expects |-> None, missingOK |-> None, when |-> None]

Bare ==
    [ops |-> {}, match |-> FALSE, by |-> None, kw |-> NoExpects,
     child |-> NoExpects, insert |-> {}, orAdd |-> FALSE, via |-> "none",
     unknown |-> {}]

MissingOK ==
    [Bare EXCEPT !.match = TRUE, !.kw = [NoExpects EXCEPT !.missingOK = [t |-> "true"]]]

NoAnns == "none"

(* Those of a plain merge: missing_ok, with replace or_add at the leaves. *)
AnnOf ==
    MoreAnns @@ NoAnns :> Bare @@ "missing_ok" :> MissingOK
    @@ "replace_or_add" :> [MissingOK EXCEPT !.ops = {"replace"}, !.orAdd = TRUE]

AnnsOf(h, i) == AnnOf[h.item[i].ann]

whichOp(ann) == IF ann.ops = {} THEN {"merge"} ELSE ann.ops

-----------------------------------------------------------------------------
(* Copies (yamlmeta deep_copy.go): every item and container anew. *)

PutItem(c, item) ==
    [h |-> [c.h EXCEPT !.item = Append(@, [item EXCEPT !.val = c.v])], v |-> Len(c.h.item) + 1]

PutNode(c, node) ==
    [h |-> [c.h EXCEPT !.node = Append(@, [node EXCEPT !.items = c.items])],
     v |-> Len(c.h.node) + 1]

PutNext(c, items) == [h |-> c.h, items |-> Append(items, c.v)]

RECURSIVE CopyVal(_, _)

CopyItem(h, i) == PutItem(CopyVal(h, h.item[i].val), h.item[i])

CopyVal(h, v) ==
    IF ~IsNode(v) THEN [h |-> h, v |-> v]
    ELSE PutNode(Fold(LAMBDA acc, i : PutNext(CopyItem(acc.h, i), acc.items),
                      [h |-> h, items |-> << >>], h.node[v].items),
                 h.node[v])

-----------------------------------------------------------------------------
(* Comparison: right is contained in left, arrays by prefix. *)

(* Two containers here would be compared with their positions: map_key is  *)
(* given scalars only.                                                     *)
CompareLeafs(l, r) == l = r

RECURSIVE Compare(_, _, _)
Compare(h, l, r) ==
    IF ~IsNode(r) THEN CompareLeafs(l, r)
    ELSE /\ IsNode(l)
         /\ h.node[l].kind = h.node[r].kind
         /\ LET ls == h.node[l].items
                rs == h.node[r].items
            IN  IF h.node[r].kind = "map"
                THEN \A j \in DOMAIN rs :
                        LET same == {i \in DOMAIN ls : h.item[ls[i]].key = h.item[rs[j]].key}
                        IN  /\ same # {}
                            /\ \A i \in same : Compare(h, h.item[ls[i]].val, h.item[rs[j]].val)
                ELSE /\ Len(rs) <= Len(ls)
                     /\ \A j \in DOMAIN rs : Compare(h, h.item[ls[j]].val, h.item[rs[j]].val)

-----------------------------------------------------------------------------
(* Matchers (api.go).  A call returns "true", "false" or "error". *)

Bool(b) == IF b THEN "true" ELSE "false"

(* The values under key k of map v: empty when v is no map or lacks k. *)
pullOutMapValue(h, k, v) ==
    IF ~IsNode(v) \/ h.node[v].kind # "map" THEN << >>
    ELSE LET its == SelectSeq(h.node[v].items, LAMBDA i : h.item[i].key = k)
         IN  [j \in DOMAIN its |-> h.item[its[j]].val]

compareByMapKey(h, k, old, new) ==
    LET o == pullOutMapValue(h, k, old)
        n == pullOutMapValue(h, k, new)
    IN  IF o = << >> \/ n = << >> THEN "error" ELSE Bool(CompareLeafs(o[1], n[1]))

IndexMatcher(m, kind, i) == IF kind = "map" THEN "error" ELSE Bool(m.index = i)

SubsetMatcher(h, m, old) == Bool(Compare(h, old, m.expected))

(* A call of matcher m with (key or index, left value, new value). *)
RECURSIVE CallMatcher(_, _, _, _, _, _)

(* and_op and or_op stop at the first argument that decides. *)
AndOp(h, m, kind, i, old, new) ==
    Fold(LAMBDA acc, a : IF acc # "true" THEN acc ELSE CallMatcher(h, a, kind, i, old, new),
             "true", m.args)

OrOp(h, m, kind, i, old, new) ==
    Fold(LAMBDA acc, a : IF acc # "false" THEN acc ELSE CallMatcher(h, a, kind, i, old, new),
             "false", m.args)

NotOp(h, m, kind, i, old, new) ==
    LET r == CallMatcher(h, m.args[1], kind, i, old, new)
    IN  IF r = "error" THEN r ELSE Bool(r = "false")

CallMatcher(h, m, kind, i, old, new) ==
    CASE m.t = "all"     -> "true"
      [] m.t = "index"   -> IndexMatcher(m, kind, i)
      [] m.t = "map_key" -> compareByMapKey(h, m.key, old, new)
      [] m.t = "subset"  -> SubsetMatcher(h, m, old)
      [] m.t = "and"     -> AndOp(h, m, kind, i, old, new)
      [] m.t = "or"      -> OrOp(h, m, kind, i, old, new)
      [] m.t = "not"     -> NotOp(h, m, kind, i, old, new)
      [] OTHER           -> "error"

-----------------------------------------------------------------------------
(* Expectations (match_annotation_expects_kwarg.go).  A check returns "ok", *)
(* "skip" (a number that `when` does not accept) or "error".               *)

FillInDefaults(kw, defaults) ==
    [f \in DOMAIN kw |-> IF kw[f] = None THEN defaults[f] ELSE kw[f]]

Mismatch(kw) == IF kw.when # None THEN "skip" ELSE "error"

RECURSIVE checkValue(_, _, _)

(* The first accepting element decides; the error of the last one remains. *)
checkList(kw, e, n) ==
    Fold(LAMBDA acc, x : IF acc.done THEN acc
                             ELSE LET r == checkValue(kw, x, n) IN [res |-> r, done |-> r = "ok"],
             [res |-> "ok", done |-> FALSE], e.list).res

checkValue(kw, e, n) ==
    CASE e.t = "int"  -> IF e.n = n THEN "ok" ELSE Mismatch(kw)
      [] e.t = "plus" -> IF n >= e.n THEN "ok" ELSE Mismatch(kw)
      [] e.t = "func" -> IF n \in e.accepts THEN "ok" ELSE Mismatch(kw)
      [] e.t = "list" -> checkList(kw, e, n)
      [] OTHER        -> "error"

Num(n) == [t |-> "int", n |-> n]

Check(kw, n) ==
    LET given == {f \in DOMAIN kw : kw[f] # None}
    IN  CASE \E f, g \in given : f # g -> "error"
          [] given = {"missingOK"} ->
                CASE kw.missingOK.t = "true"  ->
                        checkValue(kw, [t |-> "list", list |-> <<Num(0), Num(1)>>], n)
                  [] kw.missingOK.t = "false" -> checkValue(kw, Num(1), n)
                  [] OTHER -> "error"
          [] given = {"when"}    -> checkValue(kw, kw.when, n)
          [] given = {"expects"} -> checkValue(kw, kw.expects, n)
          [] OTHER -> checkValue(kw, Num(1), n)

-----------------------------------------------------------------------------
(* Which items of container l the annotations of item new select: idxs in  *)
(* order, and st as in Check.                                              *)

AllIdxs(h, l) == [i \in DOMAIN h.node[l].items |-> i]
ItemAt(h, l, i) == h.item[h.node[l].items[i]]

Called(h, l, new, m) ==
    [i \in DOMAIN h.node[l].items |->
        CallMatcher(h, m, h.node[l].kind, i - 1, ItemAt(h, l, i).val, h.item[new].val)]

Where(res) ==
    [bad |-> "error" \in Range(res),
     idxs |-> SelectSeq([i \in DOMAIN res |-> i], LAMBDA i : res[i] = "true")]

Selected(h, l, new, m) == Where(Called(h, l, new, m))

MatchError == [st |-> "error", idxs |-> << >>]

Indexes(sel, kw) ==
    IF sel.bad THEN MatchError ELSE [st |-> Check(kw, Len(sel.idxs)), idxs |-> sel.idxs]

SameKey(h, l, new) ==
    [bad |-> FALSE,
     idxs |-> SelectSeq(AllIdxs(h, l), LAMBDA i : ItemAt(h, l, i).key = h.item[new].key)]

(* A string given as `by` is a map_key matcher already. *)
MapItemMatch(h, l, new, ann, defaults) ==
    IF "match" \in ann.unknown THEN MatchError
    ELSE Indexes(IF ann.by = None THEN SameKey(h, l, new) ELSE Selected(h, l, new, ann.by),
                 FillInDefaults(ann.kw, defaults))

ArrayItemMatch(h, l, new, ann, defaults) ==
    CASE ~ann.match ->
            Indexes([bad |-> FALSE, idxs |-> << >>], [NoExpects EXCEPT !.expects = Num(0)])
      [] ann.match /\ ("match" \in ann.unknown \/ ann.by = None) -> MatchError
      [] OTHER -> Indexes(Selected(h, l, new, ann.by), FillInDefaults(ann.kw, defaults))

Match(h, l, new, defaults) ==
    IF h.node[l].kind = "map" THEN MapItemMatch(h, l, new, AnnsOf(h, new), defaults)
    ELSE ArrayItemMatch(h, l, new, AnnsOf(h, new), defaults)

-----------------------------------------------------------------------------
(* Values that replace, insert and assert compute. *)

SetItems(h, l, items) == [h EXCEPT !.node[l].items = items]
SetValue(h, i, v) == [h EXCEPT !.item[i].val = v]

(* NewMatchChildDefaultsAnnotation: own kwargs, completed by the parent's. *)
ChildDefaults(h, new, parent) == FillInDefaults(AnnsOf(h, new).child, parent)

(* A new item for item new, and its value: what `via` makes of copies of   *)
(* both values.  It returns one of them, fails, or returns a document set, *)
(* which SetValue refuses after it has reset the item.                     *)
ItemWithCopy(c, old) ==
    CASE c.via \in {"none", "new"} -> [h |-> c.h, ok |-> TRUE, v |-> c.v]
      [] c.via = "old" -> [h |-> SetValue(old.h, c.v, old.v), ok |-> TRUE, v |-> c.v]
      [] OTHER -> [h |-> SetValue(c.h, c.v, Null), ok |-> FALSE, v |-> c.v]

WithVia(c, via) == [h |-> c.h, v |-> c.v, via |-> via]

ViaItem(c, existing) == ItemWithCopy(c, CopyVal(c.h, existing))

(* Mutant: the item has the value of new itself, not a copy. *)
ReplaceItemUncopied(h, new, existing) ==
    [h |-> [h EXCEPT !.item = Append(@, h.item[new])], ok |-> TRUE, v |-> Len(h.item) + 1]

ReplaceItem(h, new, existing) ==
    ViaItem(WithVia(CopyItem(h, new), AnnsOf(h, new).via), existing)

InsertItem(h, new, existing) ==
    ViaItem(WithVia(CopyItem(h, new), AnnsOf(h, new).via), existing)

IsValidValue(h, new) == AnnsOf(h, new).via # "docset"

(* AssertAnnotation.Check: without via, the copies are compared. *)
AssertCheck(h, new, existing) ==
    CASE AnnsOf(h, new).via = "none" -> Compare(h, existing, h.item[new].val)
      [] AnnsOf(h, new).via \in {"fail", "docset"} -> FALSE
      [] OTHER -> TRUE

-----------------------------------------------------------------------------
(* What a value reaches. *)

Below(h, v) == {n \in {h.item[i].val : i \in Range(h.node[v].items)} : IsNode(n)}

RECURSIVE ReachFrom(_, _)
ReachFrom(h, S) ==
    IF UNION {Below(h, v) : v \in S} \subseteq S THEN S
    ELSE ReachFrom(h, S \cup UNION {Below(h, v) : v \in S})

Reach(h, v) == IF IsNode(v) THEN ReachFrom(h, {v}) ELSE {}
ReachItems(h, v) == UNION {Range(h.node[n].items) : n \in Reach(h, v)}

StripItems(h, S) ==
    [h EXCEPT !.item = [i \in DOMAIN h.item |->
                          IF i \in S THEN [h.item[i] EXCEPT !.ann = NoAnns] ELSE h.item[i]]]

removeOverlayAnns(h, v) == StripItems(h, ReachItems(h, v))

-----------------------------------------------------------------------------
(* Op.Apply as a machine.  A frame is an open loop: over the items of a    *)
(* right container ("items"), over what one item does ("item"), or over    *)
(* the matches of an item ("matches").                                     *)

ItemsFrame(l, rest, defaults) ==
    [t |-> "items", l |-> l, rest |-> rest, defaults |-> defaults]
ItemFrame(l, new, defaults) ==
    [t |-> "item", l |-> l, new |-> new, defaults |-> defaults]
MatchesFrame(op, l, new, idxs, child) ==
    [t |-> "matches", op |-> op, l |-> l, new |-> new, idxs |-> idxs, child |-> child]

OpIdle == [l |-> Null, r |-> Null]

OpInit ==
    /\ stack = << >>
    /\ status = "idle"
    /\ args = OpIdle
    /\ pre = heap

Top == stack[Len(stack)]
Running(t) == status = "running" /\ stack # << >> /\ Top.t = t
Pop(st) == SubSeq(st, 1, Len(st) - 1)
Push(st, f) == Append(st, f)
ReplaceTop(f) == stack' = Push(Pop(stack), f)

(* An error ends all open calls; what was edited stays edited. *)
Fail(h) ==
    /\ heap' = h
    /\ stack' = << >>
    /\ status' = "failed"
    /\ UNCHANGED <<args, pre>>

Goes(h) == heap' = h /\ UNCHANGED <<status, args, pre>>
DoneItem(h) == Goes(h) /\ stack' = Pop(stack)

SameKind(h, l, r) == IsNode(l) /\ h.node[l].kind = h.node[r].kind

(* NewASTFromInterface leaves nodes as they are. *)
Begin(l, r) ==
    /\ status # "running"
    /\ args' = [l |-> l, r |-> r]
    /\ pre' = heap
    /\ IF IsNode(r) /\ ~SameKind(heap, l, r)
       THEN stack' = << >> /\ status' = "failed"
       ELSE /\ stack' = IF IsNode(r) THEN <<ItemsFrame(l, heap.node[r].items, NoExpects)>> ELSE << >>
            /\ status' = "running"
    /\ UNCHANGED heap

(* Mutant: the overlay loses its annotations as well. *)
FinishStripsBoth ==
    /\ status = "running" /\ stack = << >>
    /\ heap' = removeOverlayAnns(removeOverlayAnns(heap, args.l), args.r)
    /\ status' = "ok"
    /\ UNCHANGED <<stack, args, pre>>

(* The annotations of the left side go only when all succeeded. *)
Finish ==
    /\ status = "running" /\ stack = << >>
    /\ heap' = removeOverlayAnns(heap, args.l)
    /\ status' = "ok"
    /\ UNCHANGED <<stack, args, pre>>

(* apply's loop: the next item of the right side is copied. *)
ApplyItem ==
    /\ Running("items")
    /\ IF Top.rest = << >>
       THEN heap' = heap /\ stack' = Pop(stack)
       ELSE \E c \in {CopyItem(heap, Head(Top.rest))} :
                /\ heap' = c.h
                /\ stack' = Push(Push(Pop(stack), [Top EXCEPT !.rest = Tail(@)]),
                                 ItemFrame(Top.l, c.v, Top.defaults))
    /\ UNCHANGED <<status, args, pre>>

Ann == AnnsOf(heap, Top.new)
Kind == heap.node[Top.l].kind
Items == heap.node[Top.l].items
Item(op) == Running("item") /\ whichOp(Ann) = {op}
Matched == Match(heap, Top.l, Top.new, Top.defaults)
Child == ChildDefaults(heap, Top.new, Top.defaults)

(* Annotations read before the matches: a kwarg none of them knows fails   *)
(* even when the item would be skipped.                                    *)
ReadFirst(op) ==
    CASE op = "merge" -> {"child", "match"}
      [] op = "assert" -> {"child", "match", "assert"}
      [] op = "replace" -> {"match", "replace"}
      [] OTHER -> {"match"}

Readable(op) == Ann.unknown \cap ReadFirst(op) = {}

(* Two operations, or one that map items do not have, or annotations that  *)
(* cannot be read.                                                         *)
ItemFails ==
    /\ Running("item")
    /\ \/ \A op \in whichOp(Ann) : whichOp(Ann) # {op}
       \/ Kind = "map" /\ whichOp(Ann) \cap {"insert", "append"} # {}
       \/ \E op \in whichOp(Ann) \ {"append"} : ~Readable(op)
    /\ Fail(heap)

Operates(op) ==
    /\ Item(op)
    /\ Readable(op)
    /\ Kind = "map" => op \notin {"insert", "append"}

(* Then the matches: an unexpected number is an error, or with `when` the  *)
(* end of this item.                                                       *)
Unmatched ==
    \E op \in {"merge", "remove", "replace", "insert", "assert"} :
        /\ Operates(op)
        /\ \E st \in {Matched.st} :
              \/ st = "error" /\ Fail(heap)
              \/ st = "skip" /\ DoneItem(heap)

Visit(op, m) ==
    Goes(heap) /\ ReplaceTop(MatchesFrame(op, Top.l, Top.new, m.idxs, Child))

(* Mutant: appends although there are matches. *)
mergeMapItemAppends ==
    /\ Operates("merge") /\ Kind = "map"
    /\ Matched.st = "ok"
    /\ DoneItem(SetItems(heap, Top.l, Append(Items, Top.new)))

mergeMapItem ==
    /\ Operates("merge") /\ Kind = "map"
    /\ \E m \in {Matched} :
          /\ m.st = "ok"
          /\ IF m.idxs = << >>
             THEN DoneItem(SetItems(heap, Top.l, Append(Items, Top.new)))
             ELSE Visit("merge", m)

AppendCopy(c) == DoneItem(SetItems(c.h, Top.l, Append(Items, c.v)))

mergeArrayItem ==
    /\ Operates("merge") /\ Kind = "array"
    /\ \E m \in {Matched} :
          /\ m.st = "ok"
          /\ IF m.idxs = << >> THEN AppendCopy(CopyItem(heap, Top.new)) ELSE Visit("merge", m)

appendArrayItem ==
    /\ Operates("append")
    /\ AppendCopy(CopyItem(heap, Top.new))

removeItem ==
    \E m \in {Matched} :
        /\ m.st = "ok"
        /\ DoneItem(SetItems(heap, Top.l,
              [j \in 1 .. Len(Items) - Len(m.idxs) |->
                  Items[SelectSeq(AllIdxs(heap, Top.l), LAMBDA i : i \notin Range(m.idxs))[j]]]))

removeMapItem == Operates("remove") /\ Kind = "map" /\ removeItem
removeArrayItem == Operates("remove") /\ Kind = "array" /\ removeItem

(* With no match, an item that may be added is replaced at the end. *)
Added(r) ==
    IF r.ok THEN DoneItem(SetItems(r.h, Top.l, Append(Items, r.v)))
    ELSE Fail(IF IsValidValue(heap, Top.new) THEN heap
              ELSE SetItems(r.h, Top.l, Append(Items, r.v)))

replaceItem ==
    \E m \in {Matched} :
        /\ m.st = "ok"
        /\ IF m.idxs = << >> /\ Ann.orAdd
           THEN Added(ReplaceItem(heap, Top.new, Null))
           ELSE Visit("replace", m)

replaceMapItem == Operates("replace") /\ Kind = "map" /\ replaceItem
replaceArrayItem == Operates("replace") /\ Kind = "array" /\ replaceItem

assertItem == \E m \in {Matched} : m.st = "ok" /\ Visit("assert", m)

assertMapItem == Operates("assert") /\ Kind = "map" /\ assertItem
assertArrayItem == Operates("assert") /\ Kind = "array" /\ assertItem

(* One inserted item serves both sides of a match; the array changes only  *)
(* when every match succeeded.                                             *)
InsertAround(acc, r, i, sides) ==
    [h |-> r.h, ok |-> r.ok,
     items |-> acc.items \o (IF "before" \in sides THEN <<r.v>> ELSE << >>)
               \o <<i>> \o (IF "after" \in sides THEN <<r.v>> ELSE << >>)]

InsertNext(acc, j, new, idxs, sides) ==
    CASE ~acc.ok -> acc
      [] acc.ok /\ j \notin Range(idxs) -> [acc EXCEPT !.items = Append(@, Items[j])]
      [] OTHER -> InsertAround(acc, InsertItem(acc.h, new, acc.h.item[Items[j]].val), Items[j], sides)

insertArrayItem ==
    /\ Operates("insert")
    /\ \E m \in {Matched} :
       \E all \in {Fold(LAMBDA acc, j : InsertNext(acc, j, Top.new, m.idxs, Ann.insert),
                        [h |-> heap, ok |-> TRUE, items |-> << >>], AllIdxs(heap, Top.l))} :
          /\ m.st = "ok"
          /\ IF Ann.insert = {} \/ "insert" \in Ann.unknown \/ ~all.ok THEN Fail(heap)
             ELSE DoneItem(SetItems(all.h, Top.l, all.items))

-----------------------------------------------------------------------------
(* The next match of an item. *)

Match1(op) == Running("matches") /\ Top.idxs # << >> /\ Top.op = op
Old == Items[Head(Top.idxs)]
OldVal == heap.item[Old].val
NewVal == heap.item[Top.new].val
Advanced == [Top EXCEPT !.idxs = Tail(@)]

MatchesDone == Running("matches") /\ Top.idxs = << >> /\ DoneItem(heap)

(* Mutant: match-child-defaults are not handed down. *)
DescendWithoutDefaults ==
    /\ IsNode(NewVal)
    /\ IF SameKind(heap, OldVal, NewVal)
       THEN /\ stack' = Push(Push(Pop(stack), Advanced),
                             ItemsFrame(OldVal, heap.node[NewVal].items, NoExpects))
            /\ Goes(heap)
       ELSE Fail(heap)

(* The recursive call of apply. *)
Descend ==
    /\ IsNode(NewVal)
    /\ IF SameKind(heap, OldVal, NewVal)
       THEN /\ stack' = Push(Push(Pop(stack), Advanced),
                             ItemsFrame(OldVal, heap.node[NewVal].items, Top.child))
            /\ Goes(heap)
       ELSE Fail(heap)

(* The value of the new item itself goes into every item it replaces. *)
MergeMatch ==
    /\ Match1("merge")
    /\ IF OldVal = Null \/ ~IsNode(NewVal)
       THEN Goes(SetValue(heap, Old, NewVal)) /\ ReplaceTop(Advanced)
       ELSE Descend

AssertMatch ==
    /\ Match1("assert")
    /\ CASE ~AssertCheck(heap, Top.new, OldVal) -> Fail(heap)
         [] AssertCheck(heap, Top.new, OldVal) /\ IsNode(NewVal) -> Descend
         [] OTHER -> Goes(heap) /\ ReplaceTop(Advanced)

PutAt(h, i) == SetItems(h, Top.l, [Items EXCEPT ![Head(Top.idxs)] = i])

ReplaceMatch ==
    /\ Match1("replace")
    /\ \E r \in {ReplaceItem(heap, Top.new, OldVal)} :
          IF r.ok THEN Goes(PutAt(r.h, r.v)) /\ ReplaceTop(Advanced)
          ELSE Fail(IF IsValidValue(heap, Top.new) THEN heap ELSE PutAt(r.h, r.v))

OpNext ==
    \/ ApplyItem \/ ItemFails \/ Unmatched
    \/ mergeMapItem \/ mergeArrayItem \/ appendArrayItem \/ insertArrayItem
    \/ removeMapItem \/ removeArrayItem \/ replaceMapItem \/ replaceArrayItem
    \/ assertMapItem \/ assertArrayItem
    \/ MergeMatch \/ AssertMatch \/ ReplaceMatch \/ MatchesDone
    \/ Finish

-----------------------------------------------------------------------------
(* AnnotateForPlainMerge: the annotations that make node v a plain merge.  *)
PlainAnn(merged) == IF merged THEN "missing_ok" ELSE "replace_or_add"

IsMap(h, v) == IsNode(v) /\ h.node[v].kind = "map"

(* Mutant: arrays are merged, not replaced. *)
addOverlayReplaceScalars(h, v) ==
    [h EXCEPT !.item = [i \in DOMAIN h.item |->
        IF i \in ReachItems(h, v) THEN [h.item[i] EXCEPT !.ann = PlainAnn(IsNode(h.item[i].val))]
        ELSE h.item[i]]]

(* The maps v reaches without going through an array. *)
RECURSIVE MapsFrom(_, _)
MapsFrom(h, S) ==
    IF {n \in UNION {Below(h, v) : v \in S} : IsMap(h, n)} \subseteq S THEN S
    ELSE MapsFrom(h, S \cup {n \in UNION {Below(h, v) : v \in S} : IsMap(h, n)})

addOverlayReplace(h, v) ==
    [h EXCEPT !.item = [i \in DOMAIN h.item |->
        IF i \in UNION {Range(h.node[n].items) : n \in MapsFrom(h, {v})}
        THEN [h.item[i] EXCEPT !.ann = PlainAnn(IsMap(h, h.item[i].val))]
        ELSE h.item[i]]]
=============================================================================
