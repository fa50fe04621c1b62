---------------------------- MODULE EvaluationCtx ----------------------------
(***************************************************************************)
(* How a template context builds its tree (pkg/template/evaluation_ctx.go  *)
(* with the YAML dialect, pkg/yamltemplate/evaluation_ctx.go).             *)
(*                                                                         *)
(* The instructions of a context name nodes of the source by their tags:   *)
(* a tag is the path of the node in the source, so that its ancestors are  *)
(* its prefixes, and NodeTagRoot is the empty path.  Loops and conditions  *)
(* start a node any number of times.  Each start makes an instance, that   *)
(* is added below the instance of the closest ancestor still on the stack. *)
(* Instances are numbered as they are made; instance 1 is the root.        *)
(***************************************************************************)
EXTENDS Integers, SequencesExt

CONSTANTS Kind,       \* [tag -> kind of source node], for every tag
          SourceKey,  \* [tag of a map item -> its key in the source]
          Annotated,  \* map items with the annotation that overrides a key
          Templated,  \* map items whose keys are text templates
          Keys,       \* keys that a templated key may evaluate to
          Implicit,   \* whether map keys are overridden without annotation
          Values,     \* values of template.replace: [type, items]
          MaxNodes    \* bound on the number of instances

Tags == DOMAIN Kind
NodeTagRoot == << >>
Override == "yaml/map-key-override"
NoKey == "no key"

ItemIn == [docset |-> "doc", map |-> "mapitem", array |-> "arrayitem"]
Containers == DOMAIN ItemIn
Items == {ItemIn[c] : c \in Containers}

\* Comments, and with them code and annotations, belong to items; a container
\* other than the document set is the value of an item.
ASSUME SourceAssumption ==
  /\ \A t \in Tags : t # NodeTagRoot /\ (Front(t) = NodeTagRoot \/ Front(t) \in Tags)
  /\ \A t \in Tags : Kind[t] \in Containers \cup Items
  /\ \A t \in Tags : IF Front(t) = NodeTagRoot THEN Kind[t] = "docset"
                     ELSE IF Kind[t] \in Items THEN Kind[t] = ItemIn[Kind[Front(t)]]
                     ELSE Kind[t] # "docset" /\ Kind[Front(t)] \in Items
  /\ SourceKey \in [{t \in Tags : Kind[t] = "mapitem"} -> Keys]
  /\ Annotated \cup Templated \subseteq DOMAIN SourceKey
  /\ Implicit \in BOOLEAN /\ MaxNodes \in Nat

VARIABLES scope,    \* the code: of the template (NodeTagRoot), or a function
                    \* whose nodes are items of this container
          nodes,    \* instances: [tag, key, anns, kids]
          stack,    \* parentNodes, as instances
          pendingAnnotations, pendingMapItemKeys,
          phase,    \* "code", or the "value" of the last node is due or "set"
          replaced, \* instances that template.replace took out
          status    \* "running", "error" or a panic

vars == <<scope, nodes, stack, pendingAnnotations, pendingMapItemKeys, phase,
          replaced, status>>

-----------------------------------------------------------------------------
(* Ancestors                                                                 *)

\* Mutant: the current node is not a candidate.
FindCommonProperParentTag(currTag, newTag) ==
  LET common == {n \in 0 .. Len(newTag) - 1 : IsPrefix(SubSeq(newTag, 1, n), Front(currTag))}
  IN  SubSeq(newTag, 1, Max(common))

\* The deepest tag that is newTag's proper ancestor, and currTag or its ancestor.
FindCommonParentTag(currTag, newTag) ==
  LET common == {n \in 0 .. Len(newTag) - 1 : IsPrefix(SubSeq(newTag, 1, n), currTag)}
  IN  SubSeq(newTag, 1, Max(common))

\* Positions of a tag in the stack; unwindToTag keeps the stack up to the first.
PositionsOf(tag, ns, st) == {i \in DOMAIN st : ns[st[i]].tag = tag}

\* Mutant: the stack only grows.
unwindNothing(st, positions) == st

unwindToTag(st, positions) == SubSeq(st, 1, Min(positions))

-----------------------------------------------------------------------------
(* MapItemOverride.Apply for a new item: the items of the map that stay, or  *)
(* none if there is a conflict.                                              *)

Conflict(kids, ns, new, placeholder) ==
  {i \in DOMAIN kids : kids[i] # placeholder /\ ns[kids[i]].key = new.key}

Allowed(new, strict) == Implicit \/ Override \in new.anns \/ ~strict

\* Mutant: the earlier item stays.
ApplyKeeps(kids, ns, new, placeholder) == kids

\* Mutant: the items after the earlier one go with it.
ApplyTruncates(kids, ns, new, placeholder) ==
  LET c == Conflict(kids, ns, new, placeholder)
  IN  IF c = {} THEN kids ELSE SubSeq(kids, 1, Max(c) - 1)

Apply(kids, ns, new, placeholder) ==
  LET c == Conflict(kids, ns, new, placeholder)
  IN  IF c = {} THEN kids ELSE RemoveAt(kids, Max(c))

-----------------------------------------------------------------------------

Running == status = "running"
Curr == nodes[Last(stack)].tag
Children(tag) == {t \in Tags : Front(t) = tag}
IsLeaf(tag) == Kind[tag] \in Items /\ Children(tag) = {}

\* What the compiled code may start next: the value of an item follows the item
\* at once; otherwise, with loops and conditions around any items of one
\* container, the next item is below the current node or one of its ancestors
\* within the scope.
MayStart(tag) ==
  /\ Running /\ phase # "value"
  /\ IF nodes = << >> THEN Front(tag) = scope
     ELSE /\ IsPrefix(Front(tag), Curr) /\ IsPrefix(scope, Front(tag))
          /\ IF Kind[Curr] \in Items /\ ~IsLeaf(Curr) THEN Front(tag) = Curr
             ELSE Kind[tag] \in Items
  /\ \A t \in Tags \ {tag} : pendingAnnotations[t] = {} /\ pendingMapItemKeys[t] = NoKey

Stop(reason) ==
  /\ status' = reason
  /\ UNCHANGED <<scope, nodes, stack, pendingAnnotations, pendingMapItemKeys, phase, replaced>>

\* TplStartNodeAnnotation, for the annotation of map items that changes the tree.
StartNodeAnnotation(tag, name) ==
  /\ MayStart(tag) /\ tag \in Annotated
  /\ pendingAnnotations[tag] = {}
  /\ pendingAnnotations' = [pendingAnnotations EXCEPT ![tag] = @ \cup {name}]
  /\ UNCHANGED <<scope, nodes, stack, pendingMapItemKeys, phase, replaced, status>>

\* TplSetMapItemKey: the key of a map item is a text template.
SetMapItemKey(tag, key) ==
  /\ MayStart(tag) /\ tag \in Templated
  /\ tag \in Annotated => pendingAnnotations[tag] # {}
  /\ pendingMapItemKeys[tag] = NoKey
  /\ pendingMapItemKeys' = [pendingMapItemKeys EXCEPT ![tag] = key]
  /\ UNCHANGED <<scope, nodes, stack, pendingAnnotations, phase, replaced, status>>

Instance(tag) ==
  [tag |-> tag, kids |-> << >>, anns |-> pendingAnnotations[tag],
   key |-> IF Kind[tag] # "mapitem" THEN NoKey
           ELSE IF pendingMapItemKeys[tag] # NoKey THEN pendingMapItemKeys[tag]
           ELSE SourceKey[tag]]

\* AddValue: items collect in containers, and an item has one value.
CanAdd(parent, kind) == IF parent \in Containers THEN kind = ItemIn[parent]
                        ELSE kind \in {"map", "array"}
AddValue(parent, kids, id) == IF parent \in Containers THEN Append(kids, id) ELSE <<id>>

\* startNode.  The root of a context is a container: if the first node is an
\* item, its parent is started before it.
StartNode(tag) ==
  /\ MayStart(tag)
  /\ tag \in Annotated => pendingAnnotations[tag] # {}
  /\ tag \in Templated => pendingMapItemKeys[tag] # NoKey
  /\ Len(nodes) + (IF nodes = << >> THEN 2 ELSE 1) <= MaxNodes
  /\ LET new == Instance(tag)
         wrap == nodes = << >> /\ Kind[tag] \in Items
         ns == IF wrap THEN <<Instance(Front(tag))>> ELSE nodes
         st == IF wrap THEN <<1>> ELSE stack
         id == Len(ns) + 1
         positions == PositionsOf(FindCommonParentTag(ns[Last(st)].tag, tag), ns, st)
         parent == st[Min(positions)]
         inMap == Kind[ns[parent].tag] = "map" /\ Kind[tag] = "mapitem"
         kids == IF inMap THEN Apply(ns[parent].kids, ns, new, 0) ELSE ns[parent].kids
     IN  IF st = << >> THEN nodes' = <<new>> /\ stack' = <<1>> /\ status' = status
         ELSE IF positions = {}
         THEN status' = "expected to find tag when unwinding" /\ UNCHANGED <<nodes, stack>>
         ELSE IF /\ inMap
                 /\ Conflict(ns[parent].kids, ns, new, 0) # {}
                 /\ ~Allowed(new, TRUE)
         THEN status' = "error" /\ UNCHANGED <<nodes, stack>>
         ELSE IF ~CanAdd(Kind[ns[parent].tag], Kind[tag])
         THEN status' = "cannot add value" /\ UNCHANGED <<nodes, stack>>
         ELSE /\ nodes' = Append([ns EXCEPT ![parent].kids =
                                    AddValue(Kind[ns[parent].tag], kids, id)], new)
              /\ stack' = Append(unwindToTag(st, positions), id)
              /\ status' = status
  /\ pendingAnnotations' = [pendingAnnotations EXCEPT ![tag] = {}]
  /\ pendingMapItemKeys' = [pendingMapItemKeys EXCEPT ![tag] = NoKey]
  /\ phase' = IF IsLeaf(tag) THEN "value" ELSE "code"
  /\ UNCHANGED <<scope, replaced>>

\* TplSetNode with the value of the source, or with a value that an expression
\* yields: the last node gets it, unless it is a value that no item can have.
SetNode ==
  /\ Running /\ phase = "value"
  /\ \/ phase' = "set" /\ UNCHANGED status
     \/ status' = "error" /\ UNCHANGED phase
  /\ UNCHANGED <<scope, nodes, stack, pendingAnnotations, pendingMapItemKeys, replaced>>

\* The types of values that can take the place of an item; only the items of a
\* fragment carry annotations.
Replaces == [doc |-> {"docset", "list"}, mapitem |-> {"map", "dict"},
             arrayitem |-> {"array", "list"}]

\* Mutant: the new items go one position too far to the left.
SpliceOffByOne(kids, at, ids) ==
  IF at = 1 THEN ids \o Tail(kids)
  ELSE SubSeq(kids, 1, at - 2) \o ids \o <<kids[at - 1]>> \o SubSeq(kids, at + 1, Len(kids))

\* The items ids in the place of the one at position at.
Splice(kids, at, ids) ==
  SubSeq(kids, 1, at - 1) \o ids \o SubSeq(kids, at + 1, Len(kids))

\* TplReplace: a value of the last node is template.replace(val).  A node may have
\* several values.
Replace(val) ==
  /\ Running /\ phase \in {"value", "set"} /\ IsLeaf(Curr)
  /\ Len(nodes) + Len(val.items) <= MaxNodes
  /\ LET placeholder == Last(stack)
         parent == stack[Len(stack) - 1]
         kids == nodes[parent].kids
         new == [i \in DOMAIN val.items |->
                   [tag |-> NodeTagRoot, kids |-> << >>,
                    key |-> val.items[i].key, anns |-> val.items[i].anns]]
         ids == [i \in DOMAIN new |-> Len(nodes) + i]
         isMap == Kind[Curr] = "mapitem"
         left == IF isMap
                 THEN FoldLeft(LAMBDA ks, n : Apply(ks, nodes, n, placeholder), kids, new)
                 ELSE kids
         at == {i \in DOMAIN left : left[i] = placeholder}
     IN  IF \/ val.type \notin Replaces[Kind[Curr]]
            \/ isMap /\ \E i \in DOMAIN new :
                 /\ Conflict(kids, nodes, new[i], placeholder) # {}
                 /\ ~Allowed(new[i], val.type = "map")
            \/ at = {}
         THEN Stop("error")
         ELSE /\ nodes' = [nodes EXCEPT ![parent].kids =
                             Splice(left, Min(at), ids)] \o new
              /\ replaced' = replaced \cup {placeholder}
              /\ phase' = "set"
              /\ UNCHANGED <<scope, stack, pendingAnnotations, pendingMapItemKeys, status>>

Init ==
  /\ scope \in {NodeTagRoot} \cup {t \in Tags : Kind[t] \in Containers}
  /\ nodes = << >> /\ stack = << >>
  /\ pendingAnnotations = [t \in Tags |-> {}]
  /\ pendingMapItemKeys = [t \in Tags |-> NoKey]
  /\ phase = "code"
  /\ replaced = {}
  /\ status = "running"

Next ==
  \/ \E tag \in Tags : StartNode(tag) \/ StartNodeAnnotation(tag, Override)
  \/ \E tag \in Tags, key \in Keys : SetMapItemKey(tag, key)
  \/ SetNode
  \/ \E val \in Values : Replace(val)

Spec == Init /\ [][Next]_vars

-----------------------------------------------------------------------------

\* Instances that StartNode made, not counting the root.
Started == {i \in 2 .. Len(nodes) : nodes[i].tag # NodeTagRoot}

\* The instance, among those made before i, that the code of i is nested in.
LatestParent(i) == Max({j \in 1 .. i - 1 : nodes[j].tag = Front(nodes[i].tag)})

\* A node is added below the latest instance of its parent in the source,
\* whatever loops and conditions have run before (startNode).
ParentIsLatest ==
  \A j \in DOMAIN nodes : \A i \in ToSet(nodes[j].kids) \cap Started : j = LatestParent(i)

\* A node that was started is in the tree, unless template.replace took it out
\* or a later map item with its key has overridden it.
NothingDropped ==
  \A i \in Started \ replaced :
    LET siblings == ToSet(nodes[LatestParent(i)].kids)
    IN  \/ i \in siblings
        \/ /\ nodes[i].key # NoKey
           /\ \E j \in (siblings \cup replaced) \ 1 .. i : nodes[j].key = nodes[i].key

\* The items of a container are in the order in which the code made them, the
\* ones that template.replace inserts included, and each is there once.
ExecutionOrder ==
  \A i \in DOMAIN nodes : \A k, l \in DOMAIN nodes[i].kids :
    k < l => nodes[i].kids[k] < nodes[i].kids[l]

\* No map has a key twice (MapItemOverride), whether its items are written in the
\* template, have templated keys, or are inserted.
UniqueKeys ==
  \A i \in DOMAIN nodes : \A k, l \in DOMAIN nodes[i].kids :
    LET a == nodes[nodes[i].kids[k]] b == nodes[nodes[i].kids[l]]
    IN  k # l /\ a.key # NoKey => a.key # b.key

\* Code that the compiler emits never adds a node where it cannot be, nor unwinds
\* to a node that is not on the stack (AddValue, unwindToTag).
WellPlaced == status \in {"running", "error"}

==============================================================================
