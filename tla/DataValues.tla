----------------------------- MODULE DataValues -----------------------------
(***************************************************************************)
(* The data values of a library: schema documents are merged into one and  *)
(* become a type (data_values_schema_pre_processing.go); its defaults, the *)
(* data values documents and the values given by flags are merged in turn, *)
(* and the result is typed and checked after each of them                  *)
(* (data_values_pre_processing.go); what comes out is validated            *)
(* (library_execution.go).  A library may be evaluated more than once.     *)
(***************************************************************************)
EXTENDS SchemaTypes

CONSTANTS
    Libraries,   \* what a run may start from, see lib
    MaxEvals     \* bound: evaluations of the library

VARIABLES
    lib,       \* see below
    overlays,  \* the data values documents that flags stand for
    pc,        \* where the evaluation is
    todo,      \* the documents it has still to merge
    doc,       \* what it has merged so far; 0 before the first
    schema,    \* the merged schema document, and the type made of it
    children,  \* documents that are for other libraries
    results    \* of the evaluations that have ended

dvVars == <<lib, overlays, pc, todo, doc, schema, children, results>>
vars == <<opVars, tags, dvVars>>

(***************************************************************************)
(* lib is [heap, root, validate, broken, schemas, schemaOverlays, values,  *)
(* given, flags]: whether the library is the root library, which is        *)
(* evaluated once and sent nothing but the flags' documents; whether       *)
(* values are validated; which of its files do not evaluate to documents   *)
(* of their kind alone ("schemas", "values" or "none"); its schema and     *)
(* data values documents, those from its own files apart from those that   *)
(* were sent to it (envelopes); and the flags for it.                      *)
(***************************************************************************)

NullSchema == [doc |-> 0, ty |-> Holder("doc", AnyType(Null), Null, NoValidation)]

Init ==
    /\ lib \in Libraries
    /\ heap = lib.heap
    /\ OpInit
    /\ tags = NoTags
    /\ overlays = << >>
    /\ pc = "flags"
    /\ todo = << >> /\ doc = 0 /\ children = << >>
    /\ schema = NullSchema
    /\ results = << >>

-----------------------------------------------------------------------------
(* Flags (data_values_flags.go).  Each flag gives documents, or fails.     *)

ForLib(d, other) == [doc |-> d, other |-> other]

(* One map for each key, the innermost first, and the document: merged     *)
(* down to the last key, which has annotations ann.                        *)
KeyPath(h, keys, v, ann) ==
    LET n == Len(keys)
        item(j) == [key |-> keys[n - j + 1], sch |-> NoSch,
                    ann |-> IF j = 1 THEN ann ELSE "missing_ok",
                    val |-> IF j = 1 THEN v ELSE Len(h.node) + j - 1]
        top == [key |-> "doc", sch |-> NoSch, ann |-> NoAnns, val |-> Len(h.node) + n]
        map(j) == [kind |-> "map", items |-> <<Len(h.item) + j>>]
    IN  [item |-> h.item \o [j \in 1 .. n |-> item(j)] \o <<top>>,
         node |-> h.node \o [j \in 1 .. n + 1 |-> map(j)]]

(* The whole value of the last key is replaced, or added. *)
buildOverlay(h, keys, v) == KeyPath(h, keys, v, "replace_or_add")

(* --data-value, --data-value-yaml, --data-values-env, --data-value-file:  *)
(* they differ in where the value comes from.                              *)
kv(acc, flag) ==
    LET h == buildOverlay(acc.h, flag.keys, flag.val)
    IN  [h |-> h, ok |-> TRUE, docs |-> Append(acc.docs, ForLib(Len(h.node), flag.other))]

(* --data-values-file: a copy of each document that is not empty, as a     *)
(* plain merge.                                                            *)
AsOverlay(c, acc, other) ==
    [h |-> addOverlayReplace(c.h, c.v), ok |-> TRUE, docs |-> Append(acc.docs, ForLib(c.v, other))]

file(acc, flag) ==
    IF acc.h.item[acc.h.node[flag.doc].items[1]].val = Null THEN acc
    ELSE AsOverlay(CopyVal(acc.h, flag.doc), acc, flag.other)

ReadFlag(acc, flag) ==
    CASE ~acc.ok -> acc
      [] acc.ok /\ ~flag.readable -> [acc EXCEPT !.ok = FALSE]
      [] acc.ok /\ flag.readable /\ flag.t = "file" -> file(acc, flag)
      [] OTHER -> kv(acc, flag)

OfKind(flags, t) == SelectSeq(flags, LAMBDA f : f.t = t)

(* Mutant: environment variables go last. *)
AsOverlaysEnvLast(h, flags) ==
    Fold(LAMBDA acc, f : ReadFlag(acc, f), [h |-> h, ok |-> TRUE, docs |-> << >>],
         OfKind(flags, "file") \o OfKind(flags, "kv") \o OfKind(flags, "kv_yaml")
         \o OfKind(flags, "kv_file") \o OfKind(flags, "env") \o OfKind(flags, "env_yaml"))

(* In the order in which they take precedence, whatever that on the        *)
(* command line was.                                                       *)
AsOverlays(h, flags) ==
    Fold(LAMBDA acc, f : ReadFlag(acc, f), [h |-> h, ok |-> TRUE, docs |-> << >>],
         OfKind(flags, "file") \o OfKind(flags, "env") \o OfKind(flags, "env_yaml")
         \o OfKind(flags, "kv") \o OfKind(flags, "kv_yaml") \o OfKind(flags, "kv_file"))

ReadFlags ==
    /\ pc = "flags"
    /\ \E r \in {AsOverlays(heap, lib.flags)} :
          /\ heap' = IF r.ok THEN r.h ELSE heap
          /\ overlays' = IF r.ok THEN r.docs ELSE << >>
          /\ pc' = IF r.ok THEN "idle" ELSE "refused"
    /\ UNCHANGED <<stack, status, args, pre, tags, lib, todo, doc, schema, children, results>>

-----------------------------------------------------------------------------
(* An evaluation. *)

CopyDocs(h, ds) ==
    Fold(LAMBDA acc, d :
            LET c == CopyVal(acc.h, d.doc)
            IN  [h |-> c.h, docs |-> Append(acc.docs, ForLib(c.v, d.other))],
         [h |-> h, docs |-> << >>], ds)

(* Mutant: the documents themselves. *)
DeliveredUncopied(h, ds) == [h |-> h, docs |-> ds]

(* UsedInLibrary: envelopes are copied when they are delivered.  The root  *)
(* library takes those of the flags as they are.                           *)
Delivered(h, ds) == IF lib.root THEN [h |-> h, docs |-> ds] ELSE CopyDocs(h, ds)

(* Mutant: the documents themselves. *)
DeliveredSchemasUncopied(h, ds) == [h |-> h, docs |-> ds]

(* The same, of the envelopes of schemas, which the root library is never  *)
(* given.                                                                  *)
DeliveredSchemas(h, ds) == CopyDocs(h, ds)

(* Files are evaluated each time. *)
Evaluated(h, ds) == CopyDocs(h, ds)

Mine(ds) == SelectSeq(ds, LAMBDA d : ~d.other)
Others(ds) == SelectSeq(ds, LAMBDA d : d.other)

Built(s, d) == NewHolderType(s, s.h.node[d].items[1])

State(h) == [h |-> h, tags |-> tags, ok |-> TRUE]

Ends(result) ==
    /\ results' = Append(results, result)
    /\ pc' = "ended"

EvalFails ==
    /\ Ends([ok |-> FALSE])
    /\ UNCHANGED <<opVars, tags, lib, overlays, todo, doc, schema, children>>

(* Every schema document must be a schema by itself. *)
collectSchemaDocs ==
    /\ pc \in {"idle", "ended"} /\ Len(results) < (IF lib.root THEN 1 ELSE MaxEvals)
    /\ \E c \in {Evaluated(heap, lib.schemas)} :
       \E o \in {DeliveredSchemas(c.h, lib.schemaOverlays)} :
          /\ heap' = o.h
          /\ todo' = Mine(c.docs \o o.docs)
          /\ children' = Others(c.docs \o o.docs)
          /\ IF lib.broken # "schemas" /\ \A d \in Range(c.docs \o o.docs) : Built(State(o.h), d.doc).ok
             THEN pc' = "schema" /\ UNCHANGED results
             ELSE Ends([ok |-> FALSE])
    /\ doc' = 0
    /\ schema' = NullSchema
    /\ tags' = NoTags
    /\ status' = "idle" /\ args' = OpIdle /\ pre' = heap'
    /\ UNCHANGED <<stack, lib, overlays>>

(* What a value is, whichever nodes it is made of. *)
RECURSIVE Tree(_, _)
Tree(h, v) ==
    CASE ~IsNode(v) -> [leaf |-> v]
      [] IsMap(h, v) -> [map |-> [k \in {h.item[i].key : i \in Range(h.node[v].items)} |->
                           Tree(h, h.item[Head(SelectSeq(h.node[v].items, LAMBDA i : h.item[i].key = k))].val)]]
      [] OTHER -> [array |-> [j \in DOMAIN h.node[v].items |-> Tree(h, ItemAt(h, v, j).val)]]

(* The first document is the one that the others change. *)
TakeNext(merging, after) ==
    /\ todo # << >>
    /\ todo' = Tail(todo)
    /\ IF doc = 0
       THEN /\ doc' = Head(todo).doc
            /\ pc' = after
            /\ UNCHANGED opVars
       ELSE /\ Begin(doc, Head(todo).doc)
            /\ pc' = merging
            /\ UNCHANGED doc
    /\ UNCHANGED <<tags, lib, overlays, schema, children, results>>

NextSchema == pc = "schema" /\ TakeNext("schema_op", "schema")

OpStep ==
    /\ pc \in {"schema_op", "values_op"}
    /\ OpNext
    /\ UNCHANGED <<tags, dvVars>>

OpFailed ==
    /\ pc \in {"schema_op", "values_op"} /\ status = "failed"
    /\ EvalFails

SchemaMerged ==
    /\ pc = "schema_op" /\ status = "ok"
    /\ pc' = "schema"
    /\ UNCHANGED <<opVars, tags, lib, overlays, todo, doc, schema, children, results>>

(* NewSchema, or NewNullSchema without any schema document. *)
NewSchema ==
    /\ pc = "schema" /\ todo = << >>
    /\ IF doc = 0 THEN pc' = "collect" /\ UNCHANGED <<heap, tags, schema, results>>
       ELSE \E b \in {Built(State(heap), doc)} :
              IF b.ok THEN /\ heap' = b.h /\ tags' = b.tags
                           /\ schema' = [doc |-> doc, ty |-> b.ty]
                           /\ pc' = "collect"
                           /\ UNCHANGED results
              ELSE Ends([ok |-> FALSE]) /\ UNCHANGED <<heap, tags, schema>>
    /\ UNCHANGED <<stack, status, args, pre, lib, overlays, todo, doc, children>>

DefaultDataValues(h, ty) ==
    LET d == PutFreshNode(PutFreshItem(h, "doc", ty.def), "map", Len(h.item) + 1)
    IN  CopyVal(d, Len(d.node))

(* Defaults first, if there is a schema; then files; then envelopes. *)
collectDataValuesDocs ==
    /\ pc = "collect"
    /\ \E c \in {Evaluated(heap, lib.values)} :
       \E o \in {Delivered(c.h, lib.given \o overlays)} :
       \E d \in {IF schema.doc = 0 THEN [h |-> o.h, v |-> 0] ELSE DefaultDataValues(o.h, schema.ty)} :
          /\ heap' = d.h
          /\ todo' = (IF d.v = 0 THEN << >> ELSE <<ForLib(d.v, FALSE)>>) \o Mine(c.docs \o o.docs)
          /\ children' = children \o Others(c.docs \o o.docs)
    /\ doc' = 0
    /\ IF lib.broken = "values" THEN Ends([ok |-> FALSE])
       ELSE pc' = "values" /\ UNCHANGED results
    /\ UNCHANGED <<stack, status, args, pre, tags, lib, overlays, schema>>

NextValues == pc = "values" /\ TakeNext("values_op", "check")

ValuesMerged ==
    /\ pc = "values_op" /\ status = "ok"
    /\ pc' = "check"
    /\ UNCHANGED <<opVars, tags, lib, overlays, todo, doc, schema, children, results>>

DocItem(h, d) == h.node[d].items[1]

(* Each document is typed and checked as soon as it is merged. *)
typeAndCheck ==
    /\ pc = "check"
    /\ \E s \in {AssignItemType(State(heap), DocItem(heap, doc), schema.ty)} :
          IF s.ok /\ CheckNode(s, doc)
          THEN heap' = s.h /\ tags' = s.tags /\ pc' = "values" /\ UNCHANGED results
          ELSE Ends([ok |-> FALSE]) /\ UNCHANGED <<heap, tags>>
    /\ UNCHANGED <<stack, status, args, pre, lib, overlays, todo, doc, schema, children>>

(* Mutant: those of @assert/validate take the place of the schema's. *)
ValidationsOfLast(h, i) ==
    IF h.item[i].sch.assert # NoValidation THEN {h.item[i].sch.assert}
    ELSE {va \in {tags.item[j].validation : j \in DOMAIN tags.item \cap {i}} : va # NoValidation}

(* AssignSchemaValidations sets the validation of an item's type; those of *)
(* @assert/validate are added to it at the end.                            *)
ValidationsOf(h, i) ==
    {va \in {tags.item[j].validation : j \in DOMAIN tags.item \cap {i}} \cup {h.item[i].sch.assert} :
        va # NoValidation}

Invalid(h, d) ==
    \E n \in Reach(h, d) : \E i \in Range(h.node[n].items) : \E va \in ValidationsOf(h, i) :
        ~Validate(h, h.item[i].val, n, va)

Result(h, d) ==
    [ok |-> TRUE, tree |-> Tree(h, h.item[DocItem(h, d)].val),
     children |-> [j \in DOMAIN children |-> Tree(h, children[j].doc)]]

(* No document at all leaves an empty map. *)
EmptyDoc(h) ==
    PutFreshNode(PutFreshItem(PutFreshNode(h, "map", Len(h.item) + 1), "doc", Len(h.node) + 1),
                 "map", Len(h.item) + 1)

validateValues ==
    /\ pc = "values" /\ todo = << >>
    /\ IF doc = 0
       THEN heap' = EmptyDoc(heap) /\ doc' = Len(heap.node) + 2
       ELSE UNCHANGED <<heap, doc>>
    /\ Ends(IF lib.validate /\ Invalid(heap', doc') THEN [ok |-> FALSE] ELSE Result(heap', doc'))
    /\ UNCHANGED <<stack, status, args, pre, tags, lib, overlays, todo, schema, children>>

Next ==
    \/ ReadFlags
    \/ collectSchemaDocs \/ NextSchema \/ SchemaMerged \/ NewSchema
    \/ collectDataValuesDocs \/ NextValues \/ ValuesMerged \/ typeAndCheck \/ validateValues
    \/ OpStep \/ OpFailed

Spec == Init /\ [][Next]_vars

-----------------------------------------------------------------------------
(* Properties *)

(* What the schema document says, without types: value v may stand where   *)
(* item i of the schema does.                                              *)
RECURSIVE ConformsTo(_, _, _)
ConformsTo(h, v, i) ==
    LET e == h.item[i].val
        items(n) == Range(h.node[n].items)
    IN  CASE h.item[i].sch.any \/ (h.item[i].sch.nullable /\ v = Null) -> TRUE
          [] OTHER ->
             IF ~IsNode(e) THEN ~IsNode(v) /\ v # Null
                                /\ (GoType[v] = GoType[e] \/ (GoType[v] = "int" /\ GoType[e] = "float"))
             ELSE /\ IsNode(v) /\ h.node[v].kind = h.node[e].kind
                  /\ IF IsMap(h, e)
                     THEN /\ {h.item[j].key : j \in items(v)} = {h.item[j].key : j \in items(e)}
                          /\ \A j \in items(v), k \in items(e) :
                                h.item[j].key = h.item[k].key => ConformsTo(h, h.item[j].val, k)
                     ELSE \A j \in items(v) : ConformsTo(h, h.item[j].val, h.node[e].items[1])

Held(h, d) == h.item[DocItem(h, d)].val

(* Each time a document has been merged and accepted, the data values have *)
(* every key of the schema and no other, and values that the schema        *)
(* allows, however deep and whether they were given or filled in           *)
(* (data_values_pre_processing.go:67).                                     *)
Conforms ==
    (pc = "values" /\ doc # 0 /\ schema.doc # 0)
    => ConformsTo(heap, Held(heap, doc), DocItem(heap, schema.doc))

(* The documented precedence of flags (data_values_flags.go:90). *)
Precedence == [file |-> 1, env |-> 2, env_yaml |-> 3, kv |-> 4, kv_yaml |-> 5, kv_file |-> 6]

IsMapTree(t) == "map" \in DOMAIN t
IsArrayTree(t) == "array" \in DOMAIN t
At(t, k) == IF IsMapTree(t) THEN IF k \in DOMAIN t.map THEN t.map[k] ELSE [map |-> << >>] ELSE [map |-> << >>]
With(t, k, u) == [map |-> (k :> u) @@ (IF IsMapTree(t) THEN t.map ELSE << >>)]

RECURSIVE SetAt(_, _, _)
SetAt(t, keys, u) == IF keys = << >> THEN u ELSE With(t, Head(keys), SetAt(At(t, Head(keys)), Tail(keys), u))

(* t with u merged into it: maps key by key; an array adds its items, or   *)
(* if plain takes the place of the one that is there.                      *)
RECURSIVE MergeTree(_, _, _)
MergeTree(t, u, plain) ==
    CASE IsMapTree(t) /\ IsMapTree(u) ->
            [map |-> [k \in DOMAIN t.map \cup DOMAIN u.map |->
                IF k \notin DOMAIN u.map THEN t.map[k]
                ELSE IF k \notin DOMAIN t.map THEN u.map[k]
                ELSE MergeTree(t.map[k], u.map[k], plain)]]
      [] IsArrayTree(t) /\ IsArrayTree(u) /\ ~plain -> [array |-> t.array \o u.array]
      [] OTHER -> u

(* The default that item i of the schema stands for, and t with whatever   *)
(* maps in it lack of the schema.                                          *)
RECURSIVE SchemaTree(_, _), FillIn(_, _, _)

SchemaTree(h, i) ==
    LET item == h.item[i]
    IN  CASE item.sch.def # << >> -> FillIn(h, Tree(h, item.sch.def[1]), i)
          [] item.sch.def = << >> /\ item.sch.nullable -> [leaf |-> Null]
          [] OTHER ->
             IF item.sch.any \/ ~IsNode(item.val) THEN Tree(h, item.val)
             ELSE IF IsMap(h, item.val) THEN FillIn(h, [map |-> << >>], i) ELSE [array |-> << >>]

FillIn(h, t, i) ==
    LET item == h.item[i]
        its == IF IsNode(item.val) THEN h.node[item.val].items ELSE << >>
        of(k) == CHOOSE j \in Range(its) : h.item[j].key = k
    IN  IF item.sch.any THEN t
        ELSE IF IsMapTree(t)
        THEN [map |-> [k \in DOMAIN t.map \cup {h.item[j].key : j \in Range(its)} |->
                IF k \in DOMAIN t.map THEN FillIn(h, t.map[k], of(k)) ELSE SchemaTree(h, of(k))]]
        ELSE IF IsArrayTree(t)
        THEN [array |-> [j \in DOMAIN t.array |-> FillIn(h, t.array[j], its[1])]]
        ELSE t

(* What the library's documents and flags add up to, taken as data. *)
Reference ==
    LET h == lib.heap
        sch == IF lib.schemas = << >> THEN 0 ELSE DocItem(h, lib.schemas[1].doc)
        filled(t) == IF sch = 0 THEN t ELSE FillIn(h, t, sch)
        docTree(d) == Tree(h, Held(h, d))
        merged == FoldLeft(LAMBDA t, d : filled(MergeTree(t, docTree(d.doc), FALSE)),
                           IF sch = 0 THEN [map |-> << >>] ELSE SchemaTree(h, sch),
                           Mine(lib.values))
        one(t, f) == IF f.t = "file" /\ Held(h, f.doc) = Null THEN t
                     ELSE filled(IF f.t = "file" THEN MergeTree(t, docTree(f.doc), TRUE)
                                 ELSE SetAt(t, f.keys, Tree(h, f.val)))
        ranked == [r \in 1 .. 6 |-> SelectSeq(lib.flags, LAMBDA f : Precedence[f.t] = r)]
    IN  FoldLeft(one, merged, Mine(FlattenSeq(ranked)))

(* Nothing but data: no overlay annotation, and one schema at most. *)
PlainLibrary ==
    /\ \A i \in DOMAIN lib.heap.item : lib.heap.item[i].ann = NoAnns
    /\ Len(lib.schemas) <= 1 /\ \A d \in Range(lib.schemas) : ~d.other
    /\ lib.schemaOverlays = << >> /\ lib.given = << >>

(* The values that the type hands out as defaults. *)
RECURSIVE Defaults(_)
Defaults(ty) ==
    CASE ty.t = "holder" -> {ty.def} \cup Defaults(ty.vt)
      [] ty.t = "map"    -> UNION {Defaults(it) : it \in Range(ty.items)}
      [] ty.t = "array"  -> {ty.def} \cup Defaults(ty.it)
      [] ty.t = "null"   -> Defaults(ty.vt)
      [] OTHER           -> {ty.def}

NodesOf(h, vs) == UNION {Reach(h, v) : v \in {w \in vs : IsNode(w)}}
DefaultNodes == NodesOf(heap, Defaults(schema.ty))

(* The values of a library of plain data are the schema's defaults and     *)
(* what files and flags give, in the order of their precedence, whatever   *)
(* the order on the command line; maps that are given in part are filled   *)
(* in.  The one exception is a result that has a node of the schema's own  *)
(* defaults in it, as that may have been edited at another place           *)
(* (assign.go:68, type.go:165).                                            *)
ResultIsMerge ==
    (pc = "ended" /\ PlainLibrary /\ Last(results).ok /\ Reach(heap, doc) \cap DefaultNodes = {})
    => Last(results).tree = Reference

(* Two places of the data values have the same node only if it is one of   *)
(* the schema's defaults; and a library that may be evaluated again never  *)
(* works on the documents that it was sent (envelope.go:126), of which     *)
(* the first to be merged is edited in place                               *)
(* (data_values_pre_processing.go:60).                                     *)
SharingOnlyOfDefaults ==
    (pc \in {"values", "values_op", "check", "ended"} /\ doc # 0)
    => /\ \A i, j \in ReachItems(heap, doc) :
             (i # j /\ IsNode(heap.item[i].val) /\ heap.item[i].val = heap.item[j].val)
             => heap.item[i].val \in DefaultNodes
       /\ lib.root \/ Reach(heap, doc) \cap NodesOf(heap, {d.doc : d \in Range(lib.given \o overlays)}) = {}

(* A library that is evaluated again comes to the same values, or fails    *)
(* again: no evaluation leaves anything behind in the documents that the   *)
(* next one starts from (envelope.go:126, schema.go:168).                  *)
SameEveryTime == \A r \in Range(results) : r = results[1]

(* The items of the data values that an item of the schema is about, with  *)
(* the node they are in.                                                   *)
RECURSIVE Places(_, _, _, _)
Places(h, n, i, s) ==
    LET v == h.item[i].val
        e == h.item[s].val
    IN  {<<n, i, s>>}
        \cup IF h.item[s].sch.any \/ ~IsNode(v) THEN {}
             ELSE UNION {Places(h, v, j, k) : <<j, k>> \in
                            {p \in Range(h.node[v].items) \X Range(h.node[e].items) :
                                h.item[p[1]].key = h.item[p[2]].key}}

(* Values that come out of an evaluation satisfy every validation: those   *)
(* of the schema at all the places they are for, given or filled in, and   *)
(* with them those that items brought along from data values documents     *)
(* (annotations.go:58).                                                    *)
Validated ==
    (pc = "ended" /\ lib.validate /\ Last(results).ok)
    => /\ schema.doc # 0 =>
             \A p \in Places(heap, doc, DocItem(heap, doc), DocItem(heap, schema.doc)) :
                LET va == heap.item[p[3]].sch.validation
                IN  va # NoValidation => Validate(heap, heap.item[p[2]].val, p[1], va)
       /\ \A n \in Reach(heap, doc) : \A i \in Range(heap.node[n].items) :
             LET va == heap.item[i].sch.assert
             IN  va # NoValidation => Validate(heap, heap.item[i].val, n, va)
=============================================================================
