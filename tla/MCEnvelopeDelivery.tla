------------------------ MODULE MCEnvelopeDelivery ------------------------
(* Two library paths, one alias, and addresses of one and two pieces. *)
EXTENDS EnvelopeDelivery, TLC

CONSTANTS d1, d2

MCDoc == {d1, d2}
MCPath == {"a", "b"}
MCAlias == {"x"}

P(path) == [path |-> path, alias |-> ""]
X == [path |-> "", alias |-> "x"]

\* "@a", "@~x", "@a@b", "@a@~x"
MCAddress == {<<P("a")>>, <<X>>, <<P("a"), P("b")>>, <<P("a"), X>>}

\* A library declares at most two documents.
MCMail == {m \in SUBSET [doc : MCDoc, original : MCAddress] :
             \A a, b \in m : a.doc = b.doc => a = b}

DocSymmetry == Permutations(MCDoc)

=============================================================================
