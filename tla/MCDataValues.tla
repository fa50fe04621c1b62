----------------------------- MODULE MCDataValues -----------------------------
(* Small libraries for DataValues. *)
EXTENDS DataValues

(* Documents as literals, put on the heap by Load. *)
Leaf(v) == [kind |-> "leaf", v |-> v]
M(items) == [kind |-> "map", items |-> items]
A(items) == [kind |-> "array", items |-> items]
Full(k, ann, sch, t) == [key |-> k, ann |-> ann, sch |-> sch, t |-> t]
KV(k, t) == Full(k, NoAnns, NoSch, t)
AKV(ann, k, t) == Full(k, ann, NoSch, t)
SKV(sch, k, t) == Full(k, NoAnns, sch, t)
I(t) == KV(NoKey, t)
AI(ann, t) == AKV(ann, NoKey, t)
D(t) == M(<<KV("doc", t)>>)

RECURSIVE Load(_, _)

Put(s, def, x, items) ==
    [h |-> [s.h EXCEPT !.item = Append(@, [key |-> x.key, val |-> s.v, ann |-> x.ann, sch |-> def])],
     items |-> Append(items, Len(s.h.item) + 1)]

PutDefault(d, x, items) == Put(Load(d.h, x.t), [x.sch EXCEPT !.def = <<d.v>>], x, items)

LoadItem(h, x, items) ==
    IF x.sch.def = << >> THEN Put(Load(h, x.t), x.sch, x, items)
    ELSE PutDefault(Load(h, x.sch.def[1]), x, items)

Close(all, kind) ==
    [h |-> [all.h EXCEPT !.node = Append(@, [kind |-> kind, items |-> all.items])],
     v |-> Len(all.h.node) + 1]

Load(h, tree) ==
    IF tree.kind = "leaf" THEN [h |-> h, v |-> tree.v]
    ELSE Close(Fold(LAMBDA acc, x : LoadItem(acc.h, x, acc.items), [h |-> h, items |-> << >>], tree.items),
               tree.kind)

AddDoc(l, s, name) == [l EXCEPT !.heap = s.h, ![name] = Append(@, ForLib(s.v, FALSE))]
AddFlag(l, s, f) ==
    [l EXCEPT !.heap = s.h,
              !.flags = Append(@, [t |-> f.t, keys |-> f.keys, doc |-> s.v, val |-> s.v,
                                   other |-> f.other, readable |-> f.readable])]

LoadDocs(l, name, ts) == Fold(LAMBDA acc, t : AddDoc(acc, Load(acc.heap, D(t)), name), l, ts)
LoadFlags(l, fs) ==
    Fold(LAMBDA acc, f : AddFlag(acc, Load(acc.heap, IF f.t = "file" THEN D(f.tree) ELSE f.tree), f), l, fs)

Empty ==
    [heap |-> [node |-> << >>, item |-> << >>], root |-> FALSE, validate |-> TRUE, broken |-> "none",
     schemas |-> << >>, schemaOverlays |-> << >>, values |-> << >>, given |-> << >>, flags |-> << >>]

Plain(schemas, values, flags) ==
    LoadFlags(LoadDocs(LoadDocs(Empty, "schemas", schemas), "values", values), flags)
Lib(schemas, schemaOverlays, values, given, flags) ==
    LoadDocs(LoadDocs(Plain(schemas, values, flags), "schemaOverlays", schemaOverlays), "given", given)
ToOther(docs, j) == [docs EXCEPT ![j].other = TRUE]

File(t) == [t |-> "file", keys |-> << >>, tree |-> t, other |-> FALSE, readable |-> TRUE]
Flag(t, keys, v) == [t |-> t, keys |-> keys, tree |-> v, other |-> FALSE, readable |-> TRUE]

(* Scalars: strings, integers, a float and a Boolean. *)
MCGoType ==
    [v \in -8 .. -1 |-> CASE v \in {-1, -2, -3} -> "string" [] v \in {-4, -5} -> "int"
                          [] v = -6 -> "float" [] OTHER -> "bool"]
a == Leaf(-1)
b == Leaf(-2)
c == Leaf(-3)
one == Leaf(-4)
two == Leaf(-5)
pi == Leaf(-6)
null == Leaf(Null)

Nullable == [NoSch EXCEPT !.nullable = TRUE]
AnyValue == [NoSch EXCEPT !.any = TRUE]
Default(t) == [NoSch EXCEPT !.def = <<t>>]

Valid(sch, va) == [sch EXCEPT !.validation = va]
Asserted(va) == [NoSch EXCEPT !.assert = va]
Rules(rules) == [t |-> "validation", notNull |-> FALSE, when |-> None, rules |-> rules]
LenIn(m, n) == [t |-> "len", min |-> m, max |-> n]
Accepts(vs) == [t |-> "accepts", accepts |-> vs]

MCAnns ==
    "rm"      :> [Bare EXCEPT !.ops = {"remove"}]
    @@ "at_0" :> [Bare EXCEPT !.match = TRUE, !.by = [t |-> "index", index |-> 0]]

(* Schemas.  S1: every kind of value; S2: an array of maps. *)
S1 ==
    M(<<SKV(Valid(NoSch, Rules(<<Accepts({-1, -2})>>)), "k", a),
        SKV(Valid(NoSch, [Rules(<<[t |-> "one_not_null", keys |-> {"x", "y"}]>>)
                          EXCEPT !.when = [t |-> "when", key |-> "k", is |-> -2]]),
            "m", M(<<KV("x", pi), SKV(Nullable, "y", a), KV("l", A(<<I(a)>>))>>)),
        SKV(Nullable, "n", M(<<KV("k", one), KV("m", M(<<KV("x", one)>>))>>)),
        SKV(AnyValue, "z", A(<<I(a), I(one)>>))>>)
S2 ==
    M(<<SKV(Valid(Default(A(<<I(M(<< >>))>>)), Rules(<<LenIn(1, 2)>>)),
            "l", A(<<I(M(<<KV("x", one), KV("m", M(<<KV("k", a)>>))>>))>>)),
        SKV(Valid(Nullable, [Rules(<<Accepts({-1, -2})>>) EXCEPT !.notNull = TRUE]), "k", a)>>)

(* Data values documents and flags that go with them. *)
Pool1 ==
    Lib(<<S1>>, << >>,
        <<M(<<KV("m", M(<<KV("x", one), KV("l", A(<<I(c)>>))>>))>>),
          M(<<KV("n", M(<<KV("k", two)>>)), KV("m", M(<<KV("l", A(<<I(a)>>))>>))>>)>>,
        << >>,
        <<File(M(<<KV("m", M(<<KV("l", A(<<I(b), I(c)>>)), KV("y", b)>>)), KV("k", b)>>)),
          Flag("env", <<"k">>, c), Flag("env_yaml", <<"z">>, M(<<KV("k", one)>>)),
          Flag("kv", <<"k">>, b), Flag("kv", <<"q">>, a),
          Flag("kv_yaml", <<"m">>, M(<< >>)), Flag("kv_yaml", <<"m", "x">>, one),
          Flag("kv_yaml", <<"m", "l">>, A(<<I(c)>>)),
          Flag("kv_yaml", <<"n">>, M(<< >>)), Flag("kv_yaml", <<"n">>, null),
          Flag("kv_yaml", <<"n", "m", "x">>, two), Flag("kv_file", <<"k">>, a)>>)
Pool2 ==
    Lib(<<S2>>, << >>, <<M(<<KV("l", A(<<I(M(<<KV("x", two)>>))>>)), KV("k", b)>>)>>, << >>,
        <<Flag("kv_yaml", <<"l">>, A(<<I(M(<< >>)), I(M(<<KV("m", M(<<KV("k", b)>>))>>))>>)),
          File(M(<<KV("l", A(<<I(M(<<KV("x", two)>>))>>)), KV("k", a)>>)), File(null),
          Flag("kv", <<"k">>, b), Flag("kv", <<"l">>, a), Flag("env", <<"l", "m">>, a),
          Flag("kv_yaml", <<"l">>, null)>>)

(* Up to two flags of a pool, with all of its documents or none. *)
Pairs(n) == {<< >>} \cup {<<i>> : i \in 1 .. n} \cup {<<i, j>> : i, j \in 1 .. n}
Picks(pool) ==
    {[pool EXCEPT !.values = vs, !.flags = [j \in DOMAIN p |-> pool.flags[p[j]]]] :
        vs \in {<< >>, pool.values}, p \in Pairs(Len(pool.flags))}

(* n = {}, n.m.x = 2, n = {}: the edit is one of the schema's default.     *)
Edits == [Pool1 EXCEPT !.values = << >>, !.flags = <<@[9], @[11], @[9]>>]

(* The default of S2's array, a second item that lacks its map, and an     *)
(* edit of the first: that of the second, and the default, change with it. *)
Shares ==
    Lib(<<S2>>, << >>, <<M(<<KV("l", A(<<I(M(<< >>))>>)), KV("k", b)>>)>>,
        <<M(<<KV("l", A(<<AI("at_0", M(<<KV("m", M(<<KV("k", c)>>))>>))>>))>>)>>, << >>)

(* Documents that are sent to the library, and that edit each other. *)
SentSchemas ==
    Lib(<< >>, <<M(<<KV("k", a), KV("l", one)>>), M(<<AKV("rm", "l", one)>>)>>, << >>, << >>,
        <<Flag("kv", <<"k">>, b)>>)
SentValues ==
    Lib(<< >>, << >>, << >>, <<M(<<KV("k", a), KV("l", one)>>), M(<<AKV("rm", "l", null)>>)>>,
        <<Flag("kv", <<"k">>, b)>>)

WrongSchemas ==
    {M(<<SKV([Nullable EXCEPT !.malformed = TRUE], "k", a)>>), M(<<KV("k", null)>>), M(<<KV("l", A(<< >>))>>), M(<<KV("l", A(<<SKV(Default(a), NoKey, b)>>))>>),
     M(<<SKV(AnyValue, "m", M(<<SKV(Nullable, "k", a)>>))>>), M(<<SKV(Default(a), "m", M(<< >>))>>),
     M(<<SKV(Default(M(<<KV("q", a)>>)), "m", M(<<KV("k", a)>>))>>)}

(* @assert/validate stays with array items, and without a schema. *)
OfSchema == Valid(NoSch, Rules(<<Accepts({-1, -2})>>))
OfValues == Asserted(Rules(<<Accepts({-2, -3})>>))
Asserts ==
    {Plain(<<M(<<KV("l", A(<<SKV(OfSchema, NoKey, a)>>))>>)>>,
           <<M(<<KV("l", A(<<SKV(OfValues, NoKey, v)>>))>>)>>, << >>) : v \in {a, b, c}}
    \cup {Plain(ss, <<M(<<SKV(OfValues, "k", v)>>)>>, << >>) : ss \in {<< >>, <<S1>>}, v \in {a, b}}

MCLibraries ==
    Picks(Pool1) \cup Picks(Pool2) \cup Picks([Pool2 EXCEPT !.schemas = << >>])
    \cup {Plain(<<s>>, << >>, << >>) : s \in WrongSchemas}
    \cup {Edits, Shares, [Shares EXCEPT !.validate = FALSE], [Shares EXCEPT !.broken = "schemas"],
          [Shares EXCEPT !.broken = "values"], [Shares EXCEPT !.given = ToOther(@, 1)]}
    \cup {SentSchemas, SentValues}
    \cup {[l EXCEPT !.root = TRUE] : l \in Picks([Pool2 EXCEPT !.schemas = << >>])}
    \cup {Plain(<<S2, M(<<AKV("missing_ok", "k", one)>>)>>, << >>, << >>),
          Plain(<<S1, M(<<KV("q", one)>>)>>, << >>, << >>),
          Plain(<<S1>>, <<M(<<KV("k", b), AKV("rm", "m", null)>>)>>, << >>),
          Plain(<<S1>>, << >>, <<Flag("kv", <<"k">>, b), [Flag("kv_file", <<"k">>, c) EXCEPT !.readable = FALSE]>>),
          Plain(<<S1>>, << >>, <<[Flag("kv", <<"q">>, b) EXCEPT !.other = TRUE], Flag("env", <<"k">>, b)>>)}
    \cup Asserts
=============================================================================
