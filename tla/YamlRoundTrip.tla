--------------------------- MODULE YamlRoundTrip ---------------------------
(* Printing documents and reading them back: AsBytesWithPrinter of the       *)
(* document set (document_set.go) with the YAMLPrinter (printers.go), which  *)
(* marshals one document after another, and yamlmeta's Parser on the text.   *)
EXTENDS YamlEmitter, YamlmetaParser

CONSTANT DocumentSets     \* sequences of documents [value, injected]

(* given is the document set, docs what is left of it; pending holds the     *)
(* events that the encoder still has to emit; out is the printer's buffer.   *)
VARIABLES given, docs, pending, emitter, out
printVars == <<given, docs, pending, emitter, out>>
allVars == <<printVars, vars>>

Idle == emitter.state = "STREAM-START" /\ pending = <<>>
RoundTripInit ==
    /\ given \in DocumentSets /\ docs = given
    /\ pending = <<>> /\ emitter = NewEmitter /\ out = <<>>
    /\ parser = newDecoder(<<>>, FALSE) /\ event = NoEvent /\ correction = 0
    /\ nodes = <<>> /\ open = <<>> /\ anchors = NoAnchors
    /\ docSet = <<>> /\ unassigned = <<>> /\ status = "printing" /\ tick = FALSE

IsEmpty(doc) == \/ doc.value.kind = "scalar" /\ doc.value.tag = "null"
                \/ doc.value.kind \in {"map", "array"} /\ doc.value.items = <<>>
Skipped(doc) == doc.injected \/ IsEmpty(doc)
writtenOnce == out # <<>>
SkipDocument ==
    /\ Idle /\ docs # <<>> /\ Skipped(Head(docs))
    /\ docs' = Tail(docs) /\ UNCHANGED <<given, pending, emitter, out>>
Print1 ==
    /\ Idle /\ docs # <<>> /\ ~Skipped(Head(docs))
    /\ out' = IF writtenOnce THEN out \o <<"-", "-", "-", "\n">> ELSE out
    /\ pending' = Marshal(Head(docs).value)
    /\ docs' = Tail(docs) /\ UNCHANGED <<given, emitter>>
EmitEvent ==
    /\ pending # <<>> /\ NeedMoreEvents(emitter)
    /\ emitter' = [emitter EXCEPT !.events = Append(@, Head(pending))] /\ pending' = Tail(pending)
    /\ UNCHANGED <<given, docs, out>>
EmitterStep ==
    /\ ~NeedMoreEvents(emitter)
    /\ emitter' = [EmitterStateMachine(emitter, Head(emitter.events)) EXCEPT !.events = Tail(@)]
    /\ UNCHANGED <<given, docs, pending, out>>
Flush ==
    /\ emitter.state = "END"
    /\ out' = out \o emitter.out /\ emitter' = NewEmitter
    /\ UNCHANGED <<given, docs, pending>>
PrintNext == SkipDocument \/ Print1 \/ EmitEvent \/ EmitterStep \/ Flush

ReadBack ==
    /\ Idle /\ docs = <<>>
    /\ parser' = newDecoder(Marked(out), FALSE) /\ correction' = nodeLineCorrection(out)
    /\ status' = "decoding"
    /\ UNCHANGED <<event, decoderVars, docSet, unassigned, printVars>>

RoundTripGoes ==
    \/ status = "printing" /\ PrintNext /\ UNCHANGED <<parserVars, decoderVars, yamlmetaVars>>
    \/ status = "printing" /\ ReadBack
    \/ status = "decoding" /\ Goes /\ UNCHANGED printVars
RoundTripNext ==
    \/ RoundTripGoes /\ tick' = ~tick
    \/ status \notin {"printing", "decoding"} /\ UNCHANGED allVars
RoundTripSpec == RoundTripInit /\ [][RoundTripNext]_allVars

-----------------------------------------------------------------------------
Begun == {"BLOCK-SEQUENCE", "BLOCK-MAPPING", "BLOCK-MAPPING-VALUE", "BLOCK-MAPPING-SIMPLE-VALUE"}
(* The emitter's stacks: it has an indentation to go back to for each block  *)
(* collection that has begun, and no flow collection stays open.             *)
EmitterOK == /\ emitter.indent >= -1 /\ emitter.column >= 0 /\ emitter.flowLevel = 0
             /\ Len(emitter.indents) = Len(SelectSeq(Append(emitter.states, emitter.state), LAMBDA s : s \in Begun))
             /\ emitter.error = "none"

(* Two values are the same, wherever they stand in a text. *)
RECURSIVE Same(_, _)
SameItem(a, b) == /\ Same(a.value, b.value)
                  /\ "key" \in DOMAIN a => Same(a.key, b.key)
Same(a, b) ==
    /\ a.kind = b.kind
    /\ IF a.kind = "scalar" THEN a.tag = b.tag /\ a.value = b.value
       ELSE Len(a.items) = Len(b.items) /\ \A i \in DOMAIN a.items : SameItem(a.items[i], b.items[i])

Kept == SelectSeq(given, LAMBDA doc : ~Skipped(doc))
SameDocuments == Len(docSet) = Len(Kept) /\ \A i \in DOMAIN Kept : Same(Kept[i].value, docSet[i].value)
(* What ytt prints reads back as what it printed: the same documents in the  *)
(* same order, without those that are skipped, with the same keys and values *)
(* of the same types.  A text chosen too plainly by the emitter (a colon, a  *)
(* number-like string, a line break, an indentation at the wrong place)      *)
(* would be read as something else, or not at all.  The exception is a text  *)
(* with line or paragraph separators, which the emitter writes as they are:  *)
(* looking up a line behind them may panic (Parser.parse).                   *)
RoundTrip ==
    /\ \/ status \in {"printing", "decoding", "parsed"}
       \/ parser.error = OutOfRange /\ ToSet(out) \cap {"LS", "PS"} # {}
    /\ status = "parsed" /\ Kept # <<>> => SameDocuments
=============================================================================
