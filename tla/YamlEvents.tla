----------------------------- MODULE YamlEvents -----------------------------
(* What the YAML parser promises to its caller: the grammar of its events.   *)
(* A stream is a series of documents, a document is one node, and a node is  *)
(* a leaf, a sequence of nodes, or a mapping of as many keys as values.      *)
(* begun is the nodes that are open, outermost first: for each its kind and  *)
(* how many nodes it holds so far.                                           *)
EXTENDS Integers, Sequences, SequencesExt

VARIABLES stream, begun

Begun(kind) == [kind |-> kind, holds |-> 0]
Holding == [begun EXCEPT ![Len(begun)].holds = @ + 1]
MayHold == begun # <<>> /\ (Last(begun).kind = "document" => Last(begun).holds = 0)
Balanced == Last(begun).kind = "mapping" => Last(begun).holds % 2 = 0

Init == stream = "open" /\ begun = <<>>
DocumentStart == /\ stream = "open" /\ begun = <<>>
                 /\ begun' = <<Begun("document")>> /\ UNCHANGED stream
Leaf == stream = "open" /\ MayHold /\ begun' = Holding /\ UNCHANGED stream
CollectionStart == /\ stream = "open" /\ MayHold
                   /\ \E kind \in {"sequence", "mapping"} : begun' = Append(Holding, Begun(kind))
                   /\ UNCHANGED stream
CollectionEnd == /\ stream = "open" /\ Len(begun) > 1 /\ Balanced
                 /\ begun' = Front(begun) /\ UNCHANGED stream
DocumentEnd == /\ stream = "open" /\ Len(begun) = 1 /\ begun[1].holds = 1
               /\ begun' = <<>> /\ UNCHANGED stream
StreamEnd == /\ stream = "open" /\ begun = <<>>
             /\ stream' = "closed" /\ UNCHANGED begun
(* A text that is not YAML is given up on anywhere. *)
GiveUp == /\ stream = "open" /\ stream' = "failed" /\ begun' = <<>>
Next == DocumentStart \/ Leaf \/ CollectionStart \/ CollectionEnd \/ DocumentEnd \/ StreamEnd \/ GiveUp
Spec == Init /\ [][Next]_<<stream, begun>>
=============================================================================
