---------------------------- MODULE MCOverlayModule --------------------------
(* Small fragments and overlays for OverlayModule. *)
EXTENDS OverlayModule

(* Fragments as literals: Leaf, M and A, put on the heap by Load. *)
Leaf(v) == [kind |-> "leaf", v |-> v]
M(items) == [kind |-> "map", items |-> items]
A(items) == [kind |-> "array", items |-> items]
KV(k, t) == [key |-> k, t |-> t, ann |-> NoAnns]
AKV(ann, k, t) == [key |-> k, t |-> t, ann |-> ann]
I(t) == [key |-> NoKey, t |-> t, ann |-> NoAnns]
AI(ann, t) == [key |-> NoKey, t |-> t, ann |-> ann]

RECURSIVE Load(_, _)
Load(h, tree) ==
    IF tree.kind = "leaf" THEN [h |-> h, v |-> tree.v]
    ELSE LET One(acc, x) ==
                 LET s == Load(acc.h, x.t)
                 IN  [h |-> [s.h EXCEPT !.item = Append(@, [key |-> x.key, val |-> s.v, ann |-> x.ann])],
                      items |-> Append(acc.items, Len(s.h.item) + 1)]
             all == Fold(One, [h |-> h, items |-> << >>], tree.items)
         IN  [h |-> [all.h EXCEPT !.node = Append(@, [kind |-> tree.kind, items |-> all.items])],
              v |-> Len(all.h.node) + 1]

LoadAll(names, tree) ==
    Fold(LAMBDA acc, n : LET s == Load(acc.heap, tree[n])
                             IN  [heap |-> s.h, root |-> [acc.root EXCEPT ![n] = s.v]],
             [heap |-> [node |-> << >>, item |-> << >>], root |-> [n \in Names |-> Null]], names)

Op(op) == [Bare EXCEPT !.ops = {op}]
By(ann, m) == [ann EXCEPT !.match = TRUE, !.by = m]
Expects(ann, e) == [ann EXCEPT !.match = TRUE, !.kw.expects = e]
When(ann, e) == [ann EXCEPT !.match = TRUE, !.kw.when = e]
MissOK(ann) == [ann EXCEPT !.match = TRUE, !.kw.missingOK = [t |-> "true"]]
Childs(ann) == [ann EXCEPT !.child.missingOK = [t |-> "true"]]
Via(ann, v) == [ann EXCEPT !.via = v]
Plus(n) == [t |-> "plus", n |-> n]
All == [t |-> "all"]
Index(n) == [t |-> "index", index |-> n]
MapKey(k) == [t |-> "map_key", key |-> k]
Subset(v) == [t |-> "subset", expected |-> v]
And(s) == [t |-> "and", args |-> s]
Or(s) == [t |-> "or", args |-> s]
Not(m) == [t |-> "not", args |-> <<m>>]
Insert(sides) ==
    [Expects(By(Op("insert"), Or(<<Index(0), Index(9)>>)),
             [t |-> "list", list |-> <<Num(2), Plus(1)>>]) EXCEPT !.insert = sides]

(* The annotations of the overlays below. *)
MCAnns ==
    "ok_child"    :> MissOK(Childs(Bare))
    @@ "ok_repl"  :> MissOK([Op("replace") EXCEPT !.orAdd = TRUE])
    @@ "rm_when"  :> When(Op("remove"), Plus(1))
    @@ "assert"   :> Op("assert")
    @@ "rm_ok"    :> MissOK(Op("remove"))
    @@ "via_old"  :> Via(Op("replace"), "old")
    @@ "via_docs" :> Via(Op("replace"), "docset")
    @@ "child"    :> Childs(Bare)
    @@ "one"      :> Expects(Bare, Num(1))
    @@ "by_k"     :> By(Bare, MapKey("k"))
    @@ "repl_all" :> Expects(By(Op("replace"), All), Plus(1))
    @@ "ins"      :> Insert({})
    @@ "ins_a"    :> Insert({"after"})
    @@ "ins_ba"   :> Insert({"before", "after"})
    @@ "rm_0"     :> By(Op("remove"), Index(0))
    @@ "not_0"    :> Expects(By(Bare, And(<<Not(Index(0)), All>>)), Num(2))
    @@ "append"   :> Op("append")
    @@ "assert_a" :> By(Op("assert"), Subset(-1))
    @@ "two_ops"  :> [Op("merge") EXCEPT !.ops = {"merge", "remove"}]
    @@ "unknown"  :> [Bare EXCEPT !.unknown = {"match"}]

a == Leaf(-1)
b == Leaf(-2)
c == Leaf(-3)
null == Leaf(Null)

MCLefts == {"x", "y"}
MCRights == {"o", "p"}

X1 == M(<<KV("k", a), KV("m", M(<<KV("k", b)>>)), KV("n", null)>>)
X2 == M(<<KV("m", A(<<I(M(<<KV("k", a)>>)), I(M(<<KV("k", b)>>))>>))>>)
X3 == A(<<I(a), I(null), I(M(<<KV("k", b)>>))>>)
Y1 == M(<<KV("k", c), KV("l", A(<<I(a)>>))>>)

(* Overlays that match map items by key. *)
O1 == M(<<KV("k", b), AKV("ok_child", "m", M(<<KV("k", c), KV("l", a)>>))>>)
O2 == M(<<AKV("ok_repl", "n", M(<<KV("k", a)>>)), AKV("rm_when", "q", null), AKV("assert", "k", a)>>)
O3 == M(<<AKV("rm_ok", "k", null), AKV("via_old", "m", null), AKV("via_docs", "n", null)>>)
(* An item whose own expectation meets the one its parent hands down. *)
O4 == M(<<AKV("child", "m", M(<<AKV("one", "k", c)>>))>>)
(* Overlays on the items of arrays. *)
O5 == M(<<KV("m", A(<<AI("by_k", M(<<KV("k", b), AKV("missing_ok", "z", M(<<KV("k", a)>>))>>)),
                      AI("repl_all", M(<<KV("k", c)>>)),
                      I(M(<<AKV("missing_ok", "k", a)>>))>>))>>)
O6(ann) == A(<<AI(ann, M(<<KV("k", a)>>)), AI("rm_0", null)>>)
O7 == A(<<AI("not_0", M(<<AKV("missing_ok", "e", M(<<KV("k", a)>>))>>)),
          AI("append", M(<<KV("k", c)>>)),
          AI("assert_a", b)>>)
O8 == M(<<AKV("two_ops", "k", b)>>)
O9 == M(<<KV("k", c), AKV("unknown", "n", b)>>)
O10 == M(<<KV("m", A(<<AI("repl_all", M(<<KV("k", c)>>))>>))>>)
O11 == M(<<KV("k", null), AKV("missing_ok", "l", A(<<I(b)>>))>>)

Start(x, o, p) ==
    LoadAll(<<"x", "y", "o", "p">>,
            [n \in Names |-> CASE n = "x" -> x [] n = "y" -> Y1 [] n = "o" -> o [] n = "p" -> p])

MapOverlays == {O1, O2, O3, O4, O5, O8, O9, O11}
ArrayOverlays == {O6("ins"), O6("ins_a"), O6("ins_ba"), O7}

MCHeaps ==
    {Start(X1, o, O1) : o \in MapOverlays} \cup {Start(X2, o, O5) : o \in {O1, O10}}
    \cup {Start(X3, o, O7) : o \in ArrayOverlays}
=============================================================================
