---------------------------- MODULE YamlDecoder ----------------------------
(* The decoder (decode.go, yaml.go): it builds the node tree of a document   *)
(* from the parser's events, and at the document's end unmarshals the tree   *)
(* into plain values.  A tree is the sequence of its nodes, in the order     *)
(* they began; a node holds the places of its children.  ytt added the item  *)
(* nodes, which carry the lines of a sequence's entries.  !!binary scalars,  *)
(* whose base64 text the code decodes, and anchors declared again for a node *)
(* of another kind are not among the inputs.                                 *)
EXTENDS YamlParser, YamlResolve

VARIABLES nodes, open, anchors
decoderVars == <<nodes, open, anchors>>

Node(kind, line) == [kind |-> kind, line |-> line, tag |-> "", value |-> <<>>, implicit |-> FALSE,
                     children |-> <<>>, alias |-> 0]
(* The parser's record also says which of the two rules resolves scalars     *)
(* (resolveFunc): the option --strict.                                       *)
newDecoder(text, strict) == [strict |-> strict] @@ NewParser(text)
NoAnchors == [name \in {} |-> 0]

KnownTags == {"str", "bool", "int", "float", "null", "timestamp", "merge"}
TagName(tag) ==
    CASE tag = <<>> -> ""
      [] tag # <<>> /\ \E k \in KnownTags : tag = <<"tag:yaml.org,2002:">> \o Chars(k) ->
            CHOOSE k \in KnownTags : tag = <<"tag:yaml.org,2002:">> \o Chars(k)
      [] OTHER -> "other"

-----------------------------------------------------------------------------
(* Building the tree.                                                        *)

TopNode == nodes[Last(open)]
Pending == TopNode.kind = "sequence" /\ parser.pendingSeqItem # NoItem
AddChild(tree, n) == Append([tree EXCEPT ![Last(open)].children = Append(@, Len(tree) + 1)], n)
WithItem == IF Pending THEN AddChild(nodes, Node("item", parser.pendingSeqItem)) ELSE nodes
AddNode(tree, n) ==
    /\ nodes' = AddChild(tree, n)
    /\ anchors' = IF "anchor" \in DOMAIN event /\ event.typ # "ALIAS" /\ event.anchor # <<>>
                  THEN (event.anchor :> (Len(tree) + 1)) @@ anchors ELSE anchors
    /\ parser' = [parser EXCEPT !.pendingSeqItem = IF Pending THEN NoItem ELSE @]
    /\ event' = NoEvent

(* failf, without a line. *)
Stops(what) == parser' = FailAt(parser, what, 0) /\ event' = NoEvent /\ UNCHANGED decoderVars

StreamStart ==
    /\ event.typ = "STREAM-START"
    /\ event' = NoEvent /\ UNCHANGED <<parser, decoderVars>>
document ==
    /\ event.typ = "DOCUMENT-START"
    /\ nodes' = <<Node("document", event.line)>> /\ open' = <<1>> /\ anchors' = NoAnchors
    /\ event' = NoEvent /\ UNCHANGED parser
scalar ==
    /\ event.typ = "SCALAR"
    /\ AddNode(WithItem, [Node("scalar", event.line) EXCEPT
                            !.tag = TagName(event.tag), !.value = event.value, !.implicit = event.implicit])
    /\ UNCHANGED open
alias ==
    /\ event.typ = "ALIAS"
    /\ IF event.anchor \notin DOMAIN anchors THEN Stops("unknown anchor referenced")
       ELSE /\ AddNode(WithItem, [Node("alias", event.line) EXCEPT
                                    !.value = event.anchor, !.alias = anchors[event.anchor]])
            /\ UNCHANGED open
Opening(tree, kind) == AddNode(tree, Node(kind, event.line)) /\ open' = Append(open, Len(tree) + 1)
sequence == event.typ = "SEQUENCE-START" /\ Opening(WithItem, "sequence")
mapping == event.typ = "MAPPING-START" /\ Opening(WithItem, "mapping")
(* An end event that does not match the open collection is one that parse()  *)
(* panics at.                                                                *)
EndsOther == TopNode.kind # (IF event.typ = "SEQUENCE-END" THEN "sequence" ELSE "mapping")
collectionEnd ==
    /\ event.typ \in {"SEQUENCE-END", "MAPPING-END"}
    /\ parser' = IF EndsOther THEN Fail(parser, "panic") ELSE parser
    /\ open' = IF EndsOther THEN open ELSE Front(open)
    /\ event' = NoEvent /\ UNCHANGED <<nodes, anchors>>
BuildTree == StreamStart \/ document \/ scalar \/ alias \/ sequence \/ mapping \/ collectionEnd

-----------------------------------------------------------------------------
(* Unmarshalling the finished tree into values of interface type.  A failure *)
(* is a value as well; the first one ends Decode.                            *)

Failed(what) == [kind |-> "failed", what |-> what]
ScalarValue(r) == IF r.tag = "error" THEN Failed("cannot decode")
                  ELSE [kind |-> "scalar", tag |-> IF r.tag \in KnownTags \ {"timestamp", "merge"} THEN r.tag ELSE "str",
                        value |-> r.value]
unmarshalScalar(n) ==
    CASE n.tag = "" /\ ~n.implicit -> ScalarValue(Str(n.value))
      [] (n.tag # "" \/ n.implicit) /\ parser.strict -> ScalarValue(strictScalarResolve(n.tag, n.value))
      [] OTHER -> ScalarValue(resolve(n.tag, n.value))

isMerge(n) == n.kind = "scalar" /\ n.value = <<"<", "<">> /\ (n.implicit \/ n.tag = "merge")
ItemsOf(tree, n) == SelectSeq(n.children, LAMBDA c : tree[c].kind = "item")
OthersOf(tree, n) == SelectSeq(n.children, LAMBDA c : tree[c].kind # "item")
FailureIn(values) == values[CHOOSE i \in DOMAIN values : values[i].kind = "failed"]
Failing(values) == \E i \in DOMAIN values : values[i].kind = "failed"

SequenceOf(tree, items, values) ==
    CASE Len(items) # Len(values) -> Failed("panic")
      [] Len(items) = Len(values) /\ Failing(values) -> FailureIn(values)
      [] OTHER -> [kind |-> "array", items |-> [i \in DOMAIN items |-> [line |-> tree[items[i]].line, value |-> values[i]]]]
(* One entry of a mapping: the items it adds, several for a merge. *)
Merged(value) == IF value.kind = "failed" THEN <<value>> ELSE value.items
Entry(key, value, line) ==
    IF key.kind = "failed" \/ value.kind = "failed" THEN <<FailureIn(<<key, value>>)>>
    ELSE <<[kind |-> "item", line |-> line, key |-> key, value |-> value]>>
MappingOf(items) == IF Failing(items) THEN FailureIn(items) ELSE [kind |-> "map", items |-> items]

(* What merge demands of its value before it unmarshals it.  The children of *)
(* a sequence are looked at from the last one on, and the item nodes among   *)
(* them are neither mappings nor aliases.                                    *)
MergeKind(tree, n) == IF n.kind = "alias" THEN tree[anchors[n.value]].kind ELSE n.kind
CanMerge(tree, n) ==
    IF n.kind = "sequence" THEN \A i \in DOMAIN n.children : MergeKind(tree, tree[n.children[i]]) = "mapping"
    ELSE MergeKind(tree, n) = "mapping"

RECURSIVE unmarshal(_, _, _)
mapEntry(tree, key, val, aliases) ==
    IF isMerge(tree[key])
    THEN IF ~CanMerge(tree, tree[val]) THEN <<Failed("map merge requires map or sequence of maps as the value")>>
         ELSE Merged(IF tree[val].kind = "sequence" THEN MappingOf(<<>>) ELSE unmarshal(tree, val, aliases))
    ELSE Entry(unmarshal(tree, key, aliases), unmarshal(tree, val, aliases), tree[key].line)
unmarshal(tree, i, aliases) ==
    CASE tree[i].kind = "document" -> unmarshal(tree, tree[i].children[1], aliases)
      [] tree[i].kind = "scalar" -> unmarshalScalar(tree[i])
      [] tree[i].kind = "alias" ->
            IF i \in aliases THEN Failed("anchor value contains itself")
            ELSE unmarshal(tree, tree[i].alias, aliases \cup {i})
      [] tree[i].kind = "sequence" ->
            SequenceOf(tree, ItemsOf(tree, tree[i]),
                       [c \in DOMAIN OthersOf(tree, tree[i]) |->
                            unmarshal(tree, OthersOf(tree, tree[i])[c], aliases)])
      [] tree[i].kind = "mapping" ->
            IF Len(tree[i].children) % 2 = 1 THEN Failed("panic")
            ELSE MappingOf(FlattenSeq([c \in 1 .. Len(tree[i].children) \div 2 |->
                    mapEntry(tree, tree[i].children[2 * c - 1], tree[i].children[2 * c], aliases)]))
=============================================================================
