---------------------------- MODULE SchemaTypes ----------------------------
(***************************************************************************)
(* Types of a data values schema (pkg/schema), how they are built from a   *)
(* schema document, how they are assigned to data values, and how those    *)
(* are checked and validated (pkg/validations).                            *)
(*                                                                         *)
(* Nodes are those of OverlayOp's heap.  A document is a map with the one  *)
(* item "doc", as documents are merged like map items that always match.   *)
(* An item has, next to the fields that overlays use, its schema           *)
(* annotations sch.  A type is a value, but the defaults in it are values  *)
(* of the heap: what is done to such a node is done to the default.        *)
(*                                                                         *)
(* Operators that allocate take and return a record s with the heap, the   *)
(* types that nodes have been given (tags) and whether all went well (ok). *)
(***************************************************************************)
EXTENDS OverlayOp

CONSTANT GoType  \* [scalar -> {"string", "int", "float", "bool"}]

VARIABLE
    tags   \* schema/type metas: [node, item : partial functions to types]

NoValidation == [t |-> "none"]

(* @schema/type any=True, @schema/nullable, @schema/default (a sequence of *)
(* at most one value), @schema/validation, and @assert/validate; whether   *)
(* one that begins with @schema has arguments that it cannot have.         *)
NoSch ==
    [any |-> FALSE, nullable |-> FALSE, def |-> << >>,
     validation |-> NoValidation, assert |-> NoValidation, malformed |-> FALSE]

NoTags == [node |-> << >>, item |-> << >>]

Holder(key, vt, def, validation) ==
    [t |-> "holder", key |-> key, vt |-> vt, def |-> def, validation |-> validation]

AnyType(def) == [t |-> "any", def |-> def]

Failed(s) == [s EXCEPT !.ok = FALSE]
WithType(s, ty) == [h |-> s.h, tags |-> s.tags, ok |-> s.ok, ty |-> ty]
WithVal(s, v) == [h |-> s.h, tags |-> s.tags, ok |-> s.ok, v |-> v]

TagNode(s, v, ty) == [s EXCEPT !.tags.node = (v :> ty) @@ @]
TagItem(s, i, ty) == [s EXCEPT !.tags.item = (i :> ty) @@ @]

PutFreshItem(h, key, v) ==
    [h EXCEPT !.item = Append(@, [key |-> key, val |-> v, ann |-> NoAnns, sch |-> NoSch])]

(* A new node whose items are the newest ones of the heap, from i on. *)
PutFreshNode(h, kind, i) ==
    [h EXCEPT !.node =
        Append(@, [kind |-> kind, items |-> [j \in 1 .. Len(h.item) - i + 1 |-> i + j - 1]])]

-----------------------------------------------------------------------------
(* Default values (type.go).  An item's default is handed out as it is.    *)

MapDefault(h, ty) ==
    PutFreshNode([h EXCEPT !.item = @ \o
                    [j \in DOMAIN ty.items |->
                        [key |-> ty.items[j].key, val |-> ty.items[j].def,
                         ann |-> NoAnns, sch |-> NoSch]]],
                 "map", Len(h.item) + 1)

GetDefaultValue(s, ty) ==
    CASE ty.t = "map" ->
            \* the node just made
            WithVal([s EXCEPT !.h = MapDefault(s.h, ty)], Len(s.h.node) + 1)
      [] ty.t = "any" ->
            LET c == CopyVal(s.h, ty.def) IN WithVal([s EXCEPT !.h = c.h], c.v)
      [] ty.t = "null" -> WithVal(s, Null)
      [] OTHER -> WithVal(s, ty.def)

RECURSIVE SetDefaultValue(_, _)
SetDefaultValue(ty, v) ==
    CASE ty.t = "map"  -> ty
      [] ty.t = "null" -> [ty EXCEPT !.vt = SetDefaultValue(@, v)]
      [] OTHER -> [ty EXCEPT !.def = v]

-----------------------------------------------------------------------------
(* AssignTypeTo (assign.go). *)

RECURSIVE AssignTypeTo(_, _, _)

(* To a document, a map item or an array item. *)
AssignItemType(s, i, ty) ==
    IF IsNode(s.h.item[i].val)
    THEN AssignTypeTo(TagItem(s, i, ty), s.h.item[i].val, ty.vt)
    ELSE TagItem(s, i, ty)

ItemTypes(ty, key) == SelectSeq(ty.items, LAMBDA it : it.key = key)

AssignFound(s, i, its) == IF its = << >> THEN s ELSE AssignItemType(s, i, Head(its))

(* The items that ty has and map v lacks.  TypeCheck is passed by value:   *)
(* what it collects here is lost.                                          *)
applySchemaDefaults(s, v, ty, found) ==
    Fold(LAMBDA acc, it :
            IF it.key \in found THEN acc
            ELSE LET i == Len(acc.h.item) + 1
                     a == AssignItemType([acc EXCEPT !.h = PutFreshItem(@, it.key, it.def)], i, it)
                 IN  [a EXCEPT !.h = SetItems(@, v, Append(a.h.node[v].items, i)), !.ok = s.ok],
         s, ty.items)

FoundKeys(h, v, ty) ==
    {h.item[i].key : i \in Range(h.node[v].items)} \cap {it.key : it \in Range(ty.items)}

AssignMapType(s, v, ty) ==
    applySchemaDefaults(
        Fold(LAMBDA acc, i : AssignFound(acc, i, ItemTypes(ty, acc.h.item[i].key)),
             TagNode(s, v, ty), s.h.node[v].items),
        v, ty, FoundKeys(s.h, v, ty))

AssignArrayType(s, v, ty) ==
    Fold(LAMBDA acc, i : AssignItemType(acc, i, ty.it), TagNode(s, v, ty), s.h.node[v].items)

AssignTypeTo(s, v, ty) ==
    CASE ty.t \in {"map", "array"} ->
            IF s.h.node[v].kind # ty.t THEN Failed(s)
            ELSE IF ty.t = "map" THEN AssignMapType(s, v, ty) ELSE AssignArrayType(s, v, ty)
      [] ty.t = "null" -> AssignTypeTo(s, v, ty.vt)
      [] ty.t = "any"  -> s
      [] OTHER -> Failed(s)

-----------------------------------------------------------------------------
(* CheckType (check.go), of what a holder has when that is no node. *)

RECURSIVE CheckHeld(_, _)
CheckHeld(v, ty) ==
    CASE ty.t = "scalar" -> v # Null /\ (GoType[v] = ty.go \/ (GoType[v] = "int" /\ ty.go = "float"))
      [] ty.t = "any"    -> TRUE
      [] ty.t = "null"   -> v = Null \/ CheckHeld(v, ty.vt)
      [] OTHER           -> FALSE

AllowsKey(ty, key) == \E it \in Range(ty.items) : it.key = key

(* Mutant: keys that the type does not have are let through. *)
CheckNodeAnyKey(s, v) ==
    \A i \in ReachItems(s.h, v) \cap DOMAIN s.tags.item :
        IsNode(s.h.item[i].val) \/ CheckHeld(s.h.item[i].val, s.tags.item[i].vt)

(* Every node below v that has been given a type. *)
CheckNode(s, v) ==
    /\ \A i \in ReachItems(s.h, v) \cap DOMAIN s.tags.item :
          IsNode(s.h.item[i].val) \/ CheckHeld(s.h.item[i].val, s.tags.item[i].vt)
    /\ \A n \in Reach(s.h, v) \cap DOMAIN s.tags.node :
          s.tags.node[n].t = "map"
          => \A i \in Range(s.h.node[n].items) : AllowsKey(s.tags.node[n], s.h.item[i].key)

-----------------------------------------------------------------------------
(* Types from schema documents (schema.go, annotations.go). *)

RECURSIVE InferTypeFromValue(_, _)

AsNull(b) == WithType(b, [t |-> "null", vt |-> b.ty])

checkForAnnotations(h, v) ==
    \A i \in ReachItems(h, v) :
        ~h.item[i].sch.any /\ ~h.item[i].sch.nullable /\ h.item[i].sch.def = << >>

WellFormed(s, i) == [s EXCEPT !.ok = @ /\ ~s.h.item[i].sch.malformed]

(* any=True wins over nullable, which then makes the default null. *)
getTypeFromAnnotations(s, sch, v) ==
    CASE sch.any -> WithType(s, AnyType(IF sch.nullable THEN Null ELSE v))
      [] ~sch.any /\ sch.nullable -> AsNull(InferTypeFromValue(s, v))
      [] OTHER -> InferTypeFromValue(s, v)

valueTypeAllowsItemValue(h, sch, v) == IF sch.any THEN checkForAnnotations(h, v) ELSE v # Null

getType(s, i) ==
    IF valueTypeAllowsItemValue(s.h, s.h.item[i].sch, s.h.item[i].val)
    THEN getTypeFromAnnotations(s, s.h.item[i].sch, s.h.item[i].val)
    ELSE WithType(Failed(s), AnyType(Null))

CheckedDefault(s, v) == WithVal([s EXCEPT !.ok = @ /\ CheckNode(s, v)], v)

getValueFromAnn(s, v, ty) ==
    IF ~IsNode(v) THEN WithVal([s EXCEPT !.ok = @ /\ CheckHeld(v, ty)], v)
    ELSE LET c == CopyVal(s.h, v)
         IN  CheckedDefault(AssignTypeTo([s EXCEPT !.h = c.h], c.v, ty), c.v)

(* @schema/default is not for array items. *)
getValue(s, i, ty) ==
    CASE s.h.item[i].sch.def = << >> -> GetDefaultValue(s, ty)
      [] s.h.item[i].sch.def # << >> /\ s.h.item[i].key = NoKey -> WithVal(Failed(s), Null)
      [] OTHER -> getValueFromAnn(s, s.h.item[i].sch.def[1], ty)

HolderOf(d, item, vt) ==
    WithType(d, Holder(item.key, SetDefaultValue(vt, d.v), d.v, item.sch.validation))

DefaultOf(b, i) ==
    IF ~b.ok THEN b
    ELSE HolderOf(getValue([h |-> b.h, tags |-> b.tags, ok |-> TRUE], i, b.ty), b.h.item[i], b.ty)

(* NewDocumentType, NewMapItemType, NewArrayItemType. *)
NewHolderType(s, i) == DefaultOf(getType(WellFormed(s, i), i), i)

MapType(its) == [t |-> "map", items |-> its]

NewMapType(s, v) ==
    Fold(LAMBDA acc, i :
            IF ~acc.ok THEN acc
            ELSE LET b == NewHolderType([h |-> acc.h, tags |-> acc.tags, ok |-> TRUE], i)
                 IN  WithType(b, MapType(Append(acc.ty.items, b.ty))),
         WithType(s, MapType(<< >>)), s.h.node[v].items)

(* The default of an array is a new, empty one. *)
ArrayOf(b) ==
    WithType([b EXCEPT !.h = PutFreshNode(b.h, "array", Len(b.h.item) + 1)],
             [t |-> "array", it |-> b.ty, def |-> Len(b.h.node) + 1])

NewArrayType(s, v) ==
    IF Len(s.h.node[v].items) # 1 THEN WithType(Failed(s), AnyType(Null))
    ELSE ArrayOf(NewHolderType(s, s.h.node[v].items[1]))

InferTypeFromValue(s, v) ==
    CASE ~IsNode(v) -> WithType(s, [t |-> "scalar", go |-> GoType[v], def |-> v])
      [] IsMap(s.h, v) -> NewMapType(s, v)
      [] OTHER -> NewArrayType(s, v)

-----------------------------------------------------------------------------
(* Validations.  One is a `when` and rules; not_null is among them first.  *)

(* A rule: the number of items, or which scalars it accepts. *)
NumItems(h, v) == IF IsNode(v) THEN Len(h.node[v].items) ELSE 0

(* A listed key that the map lacks counts as one that is not null. *)
oneNotNull(h, v, keys) ==
    /\ IsMap(h, v)
    /\ Cardinality({k \in keys : \A i \in Range(h.node[v].items) :
                                    h.item[i].key = k => h.item[i].val # Null}) = 1

RuleHolds(h, v, rule) ==
    CASE rule.t = "len"          -> IsNode(v) /\ NumItems(h, v) \in rule.min .. rule.max
      [] rule.t = "one_not_null" -> oneNotNull(h, v, rule.keys)
      [] rule.t = "not_null"     -> v # Null
      [] OTHER                   -> v \in rule.accepts

(* when= sees the parent of the item: here, what one of its keys has. *)
WhenHolds(h, parent, when) ==
    \/ when = None
    \/ \E i \in Range(h.node[parent].items) :
          h.item[i].key = when.key /\ h.item[i].val = when.is

shouldValidate(h, v, parent, va) ==
    /\ v = Null => va.notNull
    /\ WhenHolds(h, parent, va.when)

asRules(va) == (IF va.notNull THEN <<[t |-> "not_null"]>> ELSE << >>) \o va.rules

Validate(h, v, parent, va) ==
    shouldValidate(h, v, parent, va) => \A r \in Range(asRules(va)) : RuleHolds(h, v, r)
=============================================================================
