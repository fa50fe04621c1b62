-------------------------- MODULE EnvelopeDelivery --------------------------
(***************************************************************************)
(* What the delivery of enveloped documents promises.                      *)
(*                                                                         *)
(* A library may carry data values and schema documents that are addressed *)
(* to the libraries below it ("@a@b~x").  Such a document travels in an    *)
(* Envelope (pkg/workspace/datavalues).  Every evaluation of a library     *)
(* posts the envelopes it declares and the ones handed down to it; the     *)
(* evaluation of a child library takes the posted envelopes whose next     *)
(* address piece matches it, and an evaluation may only succeed once all   *)
(* it posted have been taken.                                              *)
(*                                                                         *)
(* This module leaves out order, library instances and the causes of       *)
(* failures: LibraryExecution has them, and implements this specification. *)
(***************************************************************************)
EXTENDS Integers, Sequences

CONSTANTS Path,      \* library paths, as given to library.get
          Alias,     \* aliases of library instances
          Doc,       \* identities of declared documents
          Address,   \* the addresses documents carry: sequences of references
          Mail,      \* what one library may declare: sets of addressed documents
          MaxDepth   \* bound on nested library evaluations

\* A piece of an address.  A missing path or alias is the empty string.
LibraryRef == [path : Path \cup {""}, alias : Alias \cup {""}]

\* What a library instance answers to: library.get names a path.
Instance == [path : Path, alias : Alias \cup {""}]

ASSUME AddressAssumption == Address \subseteq Seq(LibraryRef) \ {<< >>}
ASSUME MailAssumption == Mail \subseteq SUBSET [doc : Doc, original : Address]
ASSUME DepthAssumption == MaxDepth \in Nat \ {0}

VARIABLES stack,      \* the evaluations in progress, outermost first
          status,     \* of the run: see TypeOK
          declared,   \* documents that some evaluation posted first
          delivered,  \* documents that reached the library they address
          peeked,     \* documents dropped by library.data_values()
          aborted     \* documents in the hands of an evaluation that failed

vars == <<stack, status, declared, delivered, peeked, aborted>>

-----------------------------------------------------------------------------

\* LibraryRef.Matches: does address piece p select the library instance q?
Matches(p, q) == /\ p.alias # "" => p.alias = q.alias
                 /\ p.alias = "" \/ p.path # "" => p.path = q.path

\* depth: the position on the stack of the evaluation that declared it;
\* hop: how many pieces of the original address have been consumed.
Envelope == [doc : Doc, original : Address, depth : Nat, hop : Nat]

Evaluation == [ref    : LibraryRef,
               inbox  : SUBSET Envelope,   \* the ones that reached this library
               posted : SUBSET Envelope,   \* the ones for libraries below it
               used   : SUBSET Envelope]   \* the posted ones that were taken

Docs(E) == {e.doc : e \in E}

Top == stack[Len(stack)]

\* Mutant of Matching: compares the last piece of the address, not the next.
MatchingLastPiece(ref) == {e \in Top.posted : Matches(e.original[Len(e.original)], ref)}

\* The posted envelopes that an evaluation of ref takes.
Matching(ref) == {e \in Top.posted : Matches(e.original[e.hop + 1], ref)}

\* The copy that is handed down: one more address piece is consumed.
Forward(e) == [e EXCEPT !.hop = @ + 1]

Arrived(ref) ==
  {Forward(e) : e \in {m \in Matching(ref) : m.hop + 1 = Len(m.original)}}

Onward(ref) ==
  {Forward(e) : e \in {m \in Matching(ref) : m.hop + 1 < Len(m.original)}}

MarkUsed(M) == [stack EXCEPT ![Len(stack)].used = @ \cup M]

\* The envelopes around the documents that the evaluation at this depth declares.
NewEnvelopes(mail, depth) ==
  {[doc |-> m.doc, original |-> m.original, depth |-> depth, hop |-> 0] : m \in mail}

\* A document is declared once.
Unseen(mail) == /\ {m.doc : m \in mail} \cap declared = {}
                /\ \A m, n \in mail : m.doc = n.doc => m = n

Running == status = "running"

-----------------------------------------------------------------------------

\* The root library posts its documents.
Start(mail) ==
  /\ status = "init"
  /\ Unseen(mail)
  /\ stack' = <<[ref |-> [path |-> "", alias |-> ""], inbox |-> {},
                 posted |-> NewEnvelopes(mail, 1), used |-> {}]>>
  /\ status' = "running"
  /\ declared' = Docs(NewEnvelopes(mail, 1))
  /\ UNCHANGED <<delivered, peeked, aborted>>

\* library.eval() or library.export() starts an evaluation of ref.
Open(ref, mail) ==
  /\ Running
  /\ Unseen(mail)
  /\ Len(stack) < MaxDepth
  /\ stack' = Append(MarkUsed(Matching(ref)),
                     [ref |-> ref, inbox |-> Arrived(ref),
                      posted |-> Onward(ref) \cup NewEnvelopes(mail, Len(stack) + 1),
                      used |-> {}])
  /\ declared' = declared \cup Docs(NewEnvelopes(mail, Len(stack) + 1))
  /\ delivered' = delivered \cup Docs(Arrived(ref))
  /\ UNCHANGED <<status, peeked, aborted>>

\* library.data_values(): what is addressed further down is not kept.
Peek(ref) ==
  /\ Running
  /\ stack' = MarkUsed(Matching(ref))
  /\ delivered' = delivered \cup Docs(Arrived(ref))
  /\ peeked' = peeked \cup Docs(Onward(ref))
  /\ UNCHANGED <<status, declared, aborted>>

\* A call that fails before the evaluation proper begins, and whose error is
\* caught: some of the envelopes have already been marked as used.
OpenFails(M) ==
  /\ Running
  /\ stack' = MarkUsed(M)
  /\ aborted' = aborted \cup Docs(M)
  /\ UNCHANGED <<status, declared, delivered, peeked>>

\* Mutants of Close: without the check for unused envelopes; without the end of
\* the run.
CloseUnchecked ==
  /\ Running
  /\ stack' = SubSeq(stack, 1, Len(stack) - 1)
  /\ status' = IF Len(stack) = 1 THEN "ok" ELSE "running"
  /\ UNCHANGED <<declared, delivered, peeked, aborted>>

CloseStillRunning ==
  /\ Running
  /\ Top.posted = Top.used
  /\ stack' = SubSeq(stack, 1, Len(stack) - 1)
  /\ UNCHANGED <<status, declared, delivered, peeked, aborted>>

\* An evaluation succeeds: everything it posted was taken.
Close ==
  /\ Running
  /\ Top.posted = Top.used
  /\ stack' = SubSeq(stack, 1, Len(stack) - 1)
  /\ status' = IF Len(stack) = 1 THEN "ok" ELSE "running"
  /\ UNCHANGED <<declared, delivered, peeked, aborted>>

\* An error unwinds to the evaluation at position k, which caught it, or out
\* of the root (k = 0).
Fail(k) ==
  /\ Running
  /\ stack' = SubSeq(stack, 1, k)
  /\ status' = IF k = 0 THEN "error" ELSE "running"
  /\ aborted' = aborted \cup UNION {Docs(stack[i].posted) : i \in k + 1 .. Len(stack)}
  /\ UNCHANGED <<declared, delivered, peeked>>

\* The run ends after the schema or the data values were inspected, or after
\* an error of the root library: nothing was evaluated.
StopEarly ==
  /\ status = "init"
  /\ status' \in {"inspected", "error"}
  /\ UNCHANGED <<stack, declared, delivered, peeked, aborted>>

Init == /\ stack = << >>
        /\ status = "init"
        /\ declared = {}
        /\ delivered = {}
        /\ peeked = {}
        /\ aborted = {}

Next == \/ StopEarly
        \/ \E mail \in Mail : Start(mail)
        \/ \E ref \in Instance :
             \/ \E mail \in Mail : Open(ref, mail)
             \/ Peek(ref)
             \/ Running /\ \E M \in SUBSET Matching(ref) : OpenFails(M)
        \/ Close
        \/ \E k \in 0 .. Len(stack) - 1 : Fail(k)

Spec == Init /\ [][Next]_vars

-----------------------------------------------------------------------------

TypeOK == /\ stack \in Seq(Evaluation)
          /\ status \in {"init", "inspected", "running", "ok", "error"}
          /\ status = "running" <=> stack # << >>
          /\ declared \subseteq Doc
          /\ delivered \subseteq Doc
          /\ peeked \subseteq Doc
          /\ aborted \subseteq Doc

\* The first n pieces of e's original address select, one after the other, the
\* libraries on the stack above the one that declared e.
Follows(e, n) == \A k \in 1 .. n : Matches(e.original[k], stack[e.depth + k].ref)

\* An envelope is on the path it is addressed to: every piece consumed so far
\* selected the library it was handed down to, and one piece is left.
OnItsWay ==
  \A i \in 1 .. Len(stack) : \A e \in stack[i].posted :
    /\ e.depth \in 1 .. i
    /\ e.hop = i - e.depth
    /\ e.hop < Len(e.original)
    /\ Follows(e, e.hop)

\* Data values and schemas only take effect in the library they are addressed
\* to: the whole original address selects the libraries between the one that
\* declares the document and the one that uses it (Envelope.UsedInLibrary and
\* SchemaEnvelope.UsedInLibrary, through any number of libraries).
ReachesAddressee ==
  \A i \in 1 .. Len(stack) : \A e \in stack[i].inbox :
    /\ e.depth \in 1 .. i
    /\ Len(e.original) = i - e.depth
    /\ Follows(e, Len(e.original))

\* A document that is not accounted for is still posted, and not yet taken, by
\* some evaluation in progress: it will be reported as unused.
Accounted ==
  \A d \in declared :
    \/ d \in delivered \cup peeked \cup aborted
    \/ \E i \in 1 .. Len(stack) : \E e \in stack[i].posted \ stack[i].used : e.doc = d

\* When a run succeeds, every document addressed to a library was delivered
\* there; the only ones that were not are those that library.data_values()
\* dropped and those in the hands of a library evaluation whose failure a
\* template caught with assert.try_to (checkUnusedDVsOrSchemas).
NothingLost == status = "ok" => declared \subseteq delivered \cup peeked \cup aborted

=============================================================================
