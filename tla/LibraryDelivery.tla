-------------------------- MODULE LibraryDelivery --------------------------
(***************************************************************************)
(* LibraryExecution implements EnvelopeDelivery: the envelopes of one run  *)
(* of ytt are delivered as that specification promises.                    *)
(***************************************************************************)
EXTENDS LibraryExecution

AbstractEnvelope(e) ==
  [doc |-> e.doc, original |-> e.original, depth |-> e.depth,
   hop |-> Len(e.original) - Len(e.libRef)]

Abstract(E) == {AbstractEnvelope(e) : e \in {f \in E : f # Nil /\ f.original # << >>}}

AbstractStack ==
  [i \in DOMAIN stack |->
     [ref    |-> stack[i].ref,
      inbox  |-> Abstract(Range(stack[i].values) \cup Range(stack[i].schema)),
      posted |-> Abstract(Posted(stack[i])),
      used   |-> Abstract({stack[i].libValues[k] : k \in stack[i].usedValues}
                          \cup {stack[i].libSchemas[k] : k \in stack[i].usedSchemas})]]

\* The addressed documents that a library declares when it is the n-th to run.
MailOf(lib, n) ==
  LET envs == NewEnvelopes(DataValueDocs[lib], "dv", "file", n, 1)
                \o NewEnvelopes(SchemaDocs[lib], "schema", "file", n, 1)
                \o (IF n = 1 THEN NewEnvelopes(FlagValues, "dv", "flag", 1, 1) ELSE << >>)
  IN  {[doc |-> e.doc, original |-> e.original] : e \in Range(Children(envs))}

Mail == {MailOf(lib, n) : lib \in Library, n \in 1 .. MaxRuns}

Delivery ==
  INSTANCE EnvelopeDelivery WITH
    stack <- AbstractStack, Mail <- Mail, MaxDepth <- MaxRuns,
    Doc <- {m.doc : m \in UNION Mail}, Address <- {m.original : m \in UNION Mail}

\* Every run delivers envelopes the way EnvelopeDelivery allows: whatever the
\* order of calls, only matching libraries take an envelope, it is handed down
\* piece by piece, and a library succeeds only when all it posted were taken.
DeliversEnvelopes == Delivery!Spec

=============================================================================
