--------------------------- MODULE MCEvaluationCtx ---------------------------
(* A template with keys, one of them with a list of maps:                    *)
(*   (@= k @): 1                                                             *)
(*   #@yaml/map-key-override                                                 *)
(*   b:                                                                      *)
(*   - a: 2                                                                  *)
(*   a: 3                                                                    *)
EXTENDS EvaluationCtx

TheMap == <<1, 1, 1>>
B == TheMap \o <<2>>
Nested == B \o <<1, 1, 1>>

MCKind ==
  (<<1>> :> "docset") @@ (<<1, 1>> :> "doc") @@ (TheMap :> "map")
  @@ (TheMap \o <<1>> :> "mapitem") @@ (B :> "mapitem") @@ (TheMap \o <<3>> :> "mapitem")
  @@ (B \o <<1>> :> "array") @@ (B \o <<1, 1>> :> "arrayitem")
  @@ (Nested :> "map") @@ (Nested \o <<1>> :> "mapitem")

MCSourceKey ==
  (TheMap \o <<1>> :> "a") @@ (B :> "b") @@ (TheMap \o <<3>> :> "a") @@ (Nested \o <<1>> :> "a")
MCAnnotated == {B}
MCTemplated == {TheMap \o <<1>>}

Item(key, anns) == [key |-> key, anns |-> anns]

MCValues ==
  {[type |-> "dict", items |-> <<Item("b", {}), Item("a", {})>>],
   [type |-> "map", items |-> <<Item("b", {Override})>>],
   [type |-> "map", items |-> <<Item("a", {})>>],
   [type |-> "map", items |-> << >>],
   [type |-> "list", items |-> <<Item(NoKey, {})>>]}

==============================================================================
