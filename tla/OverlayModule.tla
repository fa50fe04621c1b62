--------------------------- MODULE OverlayModule ---------------------------
(***************************************************************************)
(* A template that calls overlay.apply on fragments it holds (in           *)
(* assert.try_to, so that an error does not end it) and embeds fragments   *)
(* in one another (pkg/yttlibrary/overlay/api.go on top of OverlayOp).     *)
(***************************************************************************)
EXTENDS OverlayOp

CONSTANTS
    Heaps,      \* the heaps a run starts from, each with the values of Names
    Lefts,      \* names of the fragments a template passes as left side
    Rights,     \* names of the fragments it passes as right side
    MaxApplies  \* bound: number of overlays applied

VARIABLES
    root,       \* [Lefts \cup Rights -> value]
    left,       \* the left side of the current call of overlay.apply
    todo,       \* its right sides, from the current one on
    applied,    \* the right sides applied so far, failed or not
    embedded    \* a template has put one left inside another one

vars == <<opVars, root, left, todo, applied, embedded>>

Names == Lefts \cup Rights

Init ==
    /\ \E s \in Heaps : heap = s.heap /\ root = s.root
    /\ OpInit
    /\ left = CHOOSE l \in Lefts : TRUE
    /\ todo = << >>
    /\ applied = << >>
    /\ embedded = FALSE

(* overlay.apply(l, r, ...): the next overlay is applied to the result of  *)
(* the one before, and is not tried when that one failed.                  *)
Apply(l, rs) ==
    /\ status # "running" /\ todo = << >>
    /\ Len(applied) + Len(rs) <= MaxApplies
    /\ Begin(root[l], root[rs[1]])
    /\ left' = l
    /\ todo' = rs
    /\ UNCHANGED <<root, applied, embedded>>

ApplyStep ==
    /\ OpNext
    /\ UNCHANGED <<root, left, todo, applied, embedded>>

ApplyNext ==
    /\ status = "ok" /\ Len(todo) > 1
    /\ Begin(args.l, root[todo[2]])
    /\ todo' = Tail(todo)
    /\ applied' = Append(applied, todo[1])
    /\ UNCHANGED <<root, left, embedded>>

ApplyReturns ==
    /\ todo # << >>
    /\ status = "failed" \/ (status = "ok" /\ Len(todo) = 1)
    /\ applied' = Append(applied, todo[1])
    /\ todo' = << >>
    /\ status' = "idle"
    /\ args' = OpIdle
    /\ pre' = heap
    /\ UNCHANGED <<heap, stack, root, left, embedded>>

(* A map item of one fragment is given another fragment as its value: the  *)
(* node itself, not a copy (TplSetNode, StarlarkFragment.AsGoValue).       *)
Embed(l, k, ann) ==
    /\ status = "idle" /\ ~embedded
    /\ IsNode(root[l]) /\ IsNode(root[k]) /\ l # k
    /\ heap.node[root[l]].kind = "map"
    /\ heap' = [heap EXCEPT
                  !.item = Append(@, [key |-> "embedded", val |-> root[k], ann |-> ann]),
                  !.node[root[l]].items = Append(@, Len(heap.item) + 1)]
    /\ pre' = heap'
    /\ embedded' = TRUE
    /\ UNCHANGED <<root, stack, status, args, left, todo, applied>>

Next ==
    \/ \E l \in Lefts, r \in Names : Apply(l, <<r>>)
    \/ \E l \in Lefts, r, s \in Rights : Apply(l, <<r, s>>)
    \/ ApplyStep \/ ApplyNext \/ ApplyReturns
    \/ \E l, k \in Lefts, ann \in {NoAnns, "missing_ok"} : Embed(l, k, ann)

Spec == Init /\ [][Next]_vars

-----------------------------------------------------------------------------
(* Properties *)

(* The value of a fragment with its annotations. *)
RECURSIVE AnnTree(_, _)
AnnTree(h, v) ==
    IF ~IsNode(v) THEN [leaf |-> v]
    ELSE [kind |-> h.node[v].kind,
          items |-> [j \in DOMAIN h.node[v].items |->
                        <<ItemAt(h, v, j).key, ItemAt(h, v, j).ann, AnnTree(h, ItemAt(h, v, j).val)>>]]

(* overlay.apply, at every step and whether it then fails or not, changes  *)
(* only what the template can reach from a node of its left side: the      *)
(* right side, and every fragment that has no node in common with the      *)
(* left, keep their values and annotations.                                *)
OnlyLeftChanges ==
    \A n \in Names :
        Reach(pre, root[n]) \cap Reach(pre, args.l) = {}
        => AnnTree(heap, root[n]) = AnnTree(pre, root[n])

(* The kwargs may accept more than one match. *)
Several(kw) == kw.expects # None \/ kw.when # None

(* Overlays that put one value at several places: a merge of a container   *)
(* that accepts more than one match, itself or for what is below it, and   *)
(* an insertion both before and after.                                     *)
Spreads(ann, v) ==
    \/ IsNode(v) /\ whichOp(ann) = {"merge"} /\ ann.by # None /\ Several(ann.kw)
    \/ Several(ann.child)
    \/ {"before", "after"} \subseteq ann.insert

(* The places of containers S that hold item i. *)
Holders(h, S, i) ==
    Cardinality(UNION {{<<n, j>> : j \in {k \in DOMAIN h.node[n].items : h.node[n].items[k] = i}} : n \in S})

(* Two paths lead from v to the same node or item. *)
Shares(h, v) ==
    \/ \E i \in ReachItems(h, v) : Holders(h, Reach(h, v), i) > 1
    \/ \E i, j \in {x \in ReachItems(h, v) : IsNode(h.item[x].val)} :
          i # j /\ h.item[i].val = h.item[j].val

UsedOverlays == Range(applied) \cup Range(todo)
UsedItems == UNION {ReachItems(heap, root[r]) : r \in UsedOverlays}

(* Without such an overlay, no node is at two places of a fragment, or of  *)
(* two fragments, however many matches a replacement or an insertion has   *)
(* and whatever `via` returns: an edit made through one place is never     *)
(* seen at another one.                                                    *)
NoSharing ==
    (/\ ~embedded
     /\ \A i \in UsedItems : ~Spreads(AnnsOf(heap, i), heap.item[i].val))
    => /\ \A n \in Names : ~Shares(heap, root[n])
       /\ \A n, k \in Names : n # k => Reach(heap, root[n]) \cap Reach(heap, root[k]) = {}

(* A map has each key once (convert.go:68 panics otherwise): overlays that *)
(* match map items by their key keep it so.  One that replaces all items a *)
(* `by` matcher selects does not: it gives each of them its own key.       *)
UniqueKeys ==
    (\A i \in UsedItems : AnnsOf(heap, i).by = None)
    => \A l \in Lefts : \A n \in Reach(heap, root[l]) : heap.node[n].kind = "map"
        => \A i, j \in DOMAIN heap.node[n].items :
              ItemAt(heap, n, i).key = ItemAt(heap, n, j).key => i = j

-----------------------------------------------------------------------------
(* What an overlay means: the same operations on values that are never     *)
(* edited, so that nothing has to be copied.  A result is a heap with more *)
(* nodes, the value, and whether there was no error.                       *)

Result(h, v) == [h |-> h, v |-> v, ok |-> TRUE]
Refused(h) == [h |-> h, v |-> Null, ok |-> FALSE]

(* Container l with other items. *)
Having(h, l, items) ==
    Result([h EXCEPT !.node = Append(@, [kind |-> h.node[l].kind, items |-> items])],
           Len(h.node) + 1)

ViaFails(ann) == ann.via \in {"fail", "docset"}
ViaValue(ann, old, new) == IF ann.via = "old" THEN old ELSE new

(* Item new of an overlay is one that container l may have. *)
IsOperation(h, l, new) ==
    \E op \in {"merge", "remove", "replace", "insert", "append", "assert"} :
        /\ whichOp(AnnsOf(h, new)) = {op}
        /\ op = "append" \/ AnnsOf(h, new).unknown \cap ReadFirst(op) = {}
        /\ op \in {"insert", "append"} => h.node[l].kind = "array"

RECURSIVE Overlaid(_, _, _, _)

(* The value that item new gives to an item that it matches. *)
ValueFor(op, h, old, new, child) ==
    LET ann == AnnsOf(h, new)
        val == h.item[new].val
    IN  CASE op = "replace" -> IF ViaFails(ann) THEN Refused(h) ELSE Result(h, ViaValue(ann, old, val))
          [] op = "assert" /\ ~AssertCheck(h, new, old) -> Refused(h)
          [] op = "assert" /\ AssertCheck(h, new, old) /\ ~IsNode(val) -> Result(h, old)
          [] op = "merge" /\ (old = Null \/ ~IsNode(val)) -> Result(h, val)
          [] OTHER -> Overlaid(h, old, val, child)

(* A replaced item has the key of the new one. *)
MatchedAt(op, c, j, new, child) ==
    LET old == ItemAt(c.h, c.v, j)
        val == ValueFor(op, c.h, old.val, new, child)
        put == PutItem(val, IF op = "replace" THEN c.h.item[new] ELSE old)
    IN  CASE ~c.ok -> c
          [] c.ok /\ ~val.ok -> val
          [] OTHER -> Having(put.h, c.v, [c.h.node[c.v].items EXCEPT ![j] = put.v])

InsertedAt(c, acc, j, new, idxs) ==
    LET ann == AnnsOf(c.h, new)
        old == c.h.node[c.v].items[j]
        put == PutItem([h |-> acc.h, v |-> ViaValue(ann, c.h.item[old].val, c.h.item[new].val)],
                       c.h.item[new])
        at(side) == IF side \in ann.insert THEN <<put.v>> ELSE << >>
    IN  IF j \notin Range(idxs) THEN [acc EXCEPT !.items = Append(@, old)]
        ELSE [h |-> put.h, items |-> acc.items \o at("before") \o <<old>> \o at("after")]

OverlaidItem(c, new, defaults) ==
    LET h == c.h
        ann == AnnsOf(h, new)
        op == CHOOSE o \in whichOp(ann) : TRUE
        items == h.node[c.v].items
        m == Match(h, c.v, new, defaults)
        added == PutItem([h |-> h, v |-> ViaValue(ann, Null, h.item[new].val)], h.item[new])
        inserted == Fold(LAMBDA acc, j : InsertedAt(c, acc, j, new, m.idxs),
                         [h |-> h, items |-> << >>], AllIdxs(h, c.v))
        kept == SelectSeq(AllIdxs(h, c.v), LAMBDA j : j \notin Range(m.idxs))
    IN  CASE ~c.ok -> c
          [] c.ok /\ ~IsOperation(h, c.v, new) -> Refused(h)
          [] OTHER ->
        CASE op = "append" -> Having(h, c.v, Append(items, new))
          [] op # "append" /\ m.st = "error" -> Refused(h)
          [] op # "append" /\ m.st = "skip" -> c
          [] OTHER ->
        CASE op = "remove" -> Having(h, c.v, [j \in DOMAIN kept |-> items[kept[j]]])
          [] op = "insert" -> IF \/ ann.insert = {} \/ "insert" \in ann.unknown
                                 \/ ViaFails(ann) /\ m.idxs # << >>
                              THEN Refused(h) ELSE Having(inserted.h, c.v, inserted.items)
          [] op = "merge" /\ m.idxs = << >> -> Having(h, c.v, Append(items, new))
          [] op = "replace" /\ m.idxs = << >> /\ ann.orAdd ->
                IF ViaFails(ann) THEN Refused(h) ELSE Having(added.h, c.v, Append(items, added.v))
          [] OTHER -> Fold(LAMBDA acc, j : MatchedAt(op, acc, j, new, ChildDefaults(h, new, defaults)),
                           c, m.idxs)

Overlaid(h, l, r, defaults) ==
    CASE ~IsNode(r) -> Result(h, l)
      [] IsNode(r) /\ ~SameKind(h, l, r) -> Refused(h)
      [] OTHER -> Fold(LAMBDA c, new : OverlaidItem(c, new, defaults), Result(h, l), h.node[r].items)

Unannotated(h) == [h EXCEPT !.item = [i \in DOMAIN h.item |-> [h.item[i] EXCEPT !.ann = NoAnns]]]

(* overlay.apply, which edits nodes in place item after item, with indexes *)
(* found before the edits, and copies some values and not others, comes to *)
(* what the overlay means on values, without annotations, and fails when   *)
(* that fails: if the left side has no node twice or in common with the    *)
(* overlay, and the overlay puts no value at several places (op.go).       *)
AppliesByValue ==
    (/\ status \in {"ok", "failed"}
     /\ ~Shares(pre, args.l) /\ Reach(pre, args.l) \cap Reach(pre, args.r) = {}
     /\ \A i \in ReachItems(pre, args.r) : ~Spreads(AnnsOf(pre, i), pre.item[i].val))
    => \E res \in {Overlaid(pre, args.l, args.r, NoExpects)} :
          /\ res.ok = (status = "ok")
          /\ res.ok => AnnTree(heap, args.l) = AnnTree(Unannotated(res.h), res.v)
=============================================================================
