----------------------------- MODULE YamlParser -----------------------------
(* The YAML parser (parserc.go): a pushdown machine that turns the scanner's *)
(* tokens into events, one per call of yamlParserParse.  Its handlers look   *)
(* at the head of the token queue, which peekToken fills by calling the      *)
(* scanner (FetchMoreTokens, an action of its own here); a handler that      *)
(* steps over a token and looks at the next one is one step per token, and   *)
(* parser.inside says where in the handler it is.  Of the marks that the     *)
(* parser puts into events only the line is kept: nothing in ytt reads the   *)
(* others.                                                                   *)
EXTENDS YamlScanner

VARIABLES parser, event
parserVars == <<parser, event>>

NoEvent == [typ |-> "none"]
NoProps == [anchor |-> <<>>, tag |-> <<>>, tagged |-> FALSE, tagLine |-> -1, line |-> -1, block |-> FALSE, indentless |-> FALSE]
NoItem == -1

NewParser(text) ==
    [state |-> "STREAM-START", states |-> <<>>, marks |-> <<>>, inside |-> "none", props |-> NoProps,
     tagDirectives |-> <<>>, version |-> FALSE, start |-> -1, pendingSeqItem |-> NoItem,
     streamEndProduced |-> FALSE] @@ NewScanner(text)

-----------------------------------------------------------------------------
(* Tokens and the state stack.                                               *)

Peek(p) == Head(p.tokens)
skipToken(p) == [p EXCEPT !.tokensParsed = @ + 1, !.tokens = Tail(@),
                          !.streamEndProduced = Peek(p).typ = "STREAM-END"]
Goto(p, state) == [p EXCEPT !.state = state, !.inside = "none"]
PushState(p, state) == [p EXCEPT !.states = Append(@, state), !.inside = "none"]
PopState(p) == IF p.states = <<>> THEN Fail(p, "panic")
               ELSE [p EXCEPT !.state = Last(p.states), !.states = Front(@), !.inside = "none"]
PushMark(p) == [p EXCEPT !.marks = Append(@, Peek(p).mark.line)]
PopMark(p) == IF p.marks = <<>> THEN Fail(p, "panic") ELSE [p EXCEPT !.marks = Front(@)]
Inside(p, place) == [p EXCEPT !.inside = place]
Start(p) == [p EXCEPT !.start = Peek(p).mark.line]
SeqItem(p) == [p EXCEPT !.pendingSeqItem = Peek(p).mark.line]

(* What a step of a handler leaves: the parser, and the event if it made one. *)
Gives(p, e) == [p |-> p, event |-> e]
Continues(p) == Gives(p, NoEvent)
Fails(p, what) == Continues(FailAt(p, what, Peek(p).mark.line))

Event(typ, line) == [typ |-> typ, line |-> line]
ContentEvent(typ, props, style) ==
    [typ |-> typ, line |-> props.line, anchor |-> props.anchor, tag |-> props.tag,
     implicit |-> props.tag = <<>>, style |-> style]
ScalarEvent(props, value, implicit, style) ==
    [typ |-> "SCALAR", line |-> props.line, anchor |-> props.anchor, tag |-> props.tag,
     implicit |-> implicit, style |-> style, value |-> value]
ProcessEmptyScalar(p, line) == Gives(p, ScalarEvent([NoProps EXCEPT !.line = line], <<>>, TRUE, "plain"))

-----------------------------------------------------------------------------
(* Streams and documents.                                                    *)

ParseStreamStart(p) == Gives(skipToken(Goto(p, "IMPLICIT-DOCUMENT-START")), Event("STREAM-START", Peek(p).mark.line))

defaultTagDirectives == << <<<<"!">>, <<"!">>>>, <<<<"!", "!">>, <<"tag:yaml.org,2002:">>>> >>
Declared(p, handle) == \E i \in DOMAIN p.tagDirectives : p.tagDirectives[i][1] = handle
AppendDefault(p, directive) ==
    IF Declared(p, directive[1]) THEN p ELSE [p EXCEPT !.tagDirectives = Append(@, directive)]
WithDefaults(p) == AppendDefault(AppendDefault(p, defaultTagDirectives[1]), defaultTagDirectives[2])

IsDirective(token) == token.typ \in {"VERSION-DIRECTIVE", "TAG-DIRECTIVE"}
AppendDirective(p, token) ==
    IF token.typ = "VERSION-DIRECTIVE"
    THEN IF p.version \/ token.value # <<1, 1>> THEN FailAt(p, "found incompatible YAML document", token.mark.line)
         ELSE [p EXCEPT !.version = TRUE]
    ELSE IF Declared(p, token.value[1]) THEN FailAt(p, "found duplicate %TAG directive", token.mark.line)
         ELSE [p EXCEPT !.tagDirectives = Append(@, token.value)]
ProcessDirective(p) ==
    Continues(skipToken(Inside(AppendDirective(IF p.inside = "none" THEN Start(p) ELSE p, Peek(p)), "directives")))

ExplicitDocument(p) ==
    Gives(skipToken(PushState(Goto([p EXCEPT !.version = FALSE], "DOCUMENT-CONTENT"), "DOCUMENT-END")),
          Event("DOCUMENT-START", p.start))
(* Mutant: a second "..." is looked at but not stepped over. *)
ParseDocumentStartStays(p, implicit) ==
    CASE ~implicit /\ p.inside = "none" /\ Peek(p).typ = "DOCUMENT-END" -> Continues(p)
      [] IsDirective(Peek(p)) -> ProcessDirective(p)
      [] Peek(p).typ = "DOCUMENT-START" -> ExplicitDocument(WithDefaults(IF p.inside = "none" THEN Start(p) ELSE p))
      [] p.inside = "none" /\ Peek(p).typ = "STREAM-END" ->
            Gives(skipToken(Goto(p, "END")), Event("STREAM-END", Peek(p).mark.line))
      [] OTHER -> Fails(p, "did not find expected <document start>")
ParseDocumentStart(p, implicit) ==
    CASE ~implicit /\ p.inside = "none" /\ Peek(p).typ = "DOCUMENT-END" -> Continues(skipToken(p))
      [] IsDirective(Peek(p)) -> ProcessDirective(p)
      [] Peek(p).typ = "DOCUMENT-START" -> ExplicitDocument(WithDefaults(IF p.inside = "none" THEN Start(p) ELSE p))
      [] p.inside = "none" /\ Peek(p).typ = "STREAM-END" ->
            Gives(skipToken(Goto(p, "END")), Event("STREAM-END", Peek(p).mark.line))
      [] OTHER ->
            IF implicit /\ p.inside = "none"
            THEN Gives(Goto(PushState(WithDefaults(p), "DOCUMENT-END"), "BLOCK-NODE"),
                       Event("DOCUMENT-START", Peek(p).mark.line))
            ELSE Fails(p, "did not find expected <document start>")

ParseDocumentEnd(p) ==
    Gives(Goto([(IF Peek(p).typ = "DOCUMENT-END" THEN skipToken(p) ELSE p) EXCEPT !.tagDirectives = <<>>],
               "DOCUMENT-START"),
          Event("DOCUMENT-END", Peek(p).mark.line))

-----------------------------------------------------------------------------
(* Nodes: properties, then content.  block and indentless are the arguments  *)
(* of yamlParserParseNode.                                                   *)

WithProp(p, block, indentless) ==
    Inside([p EXCEPT !.props.block = block, !.props.indentless = indentless,
                     !.props.line = IF @ = -1 THEN Peek(p).mark.line ELSE @], "node")
AddAnchor(p) == Continues(skipToken([p EXCEPT !.props.anchor = Peek(p).value]))
AddTag(p) == Continues(skipToken([p EXCEPT !.props.tag = Peek(p).value, !.props.tagged = TRUE,
                                          !.props.tagLine = Peek(p).mark.line]))

(* The tag that <<handle, suffix>> stands for; <<>> if the handle is unknown. *)
TagOf(p, tag) ==
    IF tag[1] = <<>> THEN tag[2]
    ELSE IF ~Declared(p, tag[1]) THEN <<>>
    ELSE (CHOOSE d \in ToSet(p.tagDirectives) : d[1] = tag[1])[2] \o tag[2]

Opens(p, state, typ, props, style) == Gives(Goto(p, state), ContentEvent(typ, props, style))
Content(p, props, token) ==
    CASE props.indentless /\ token.typ = "BLOCK-ENTRY" ->
            Opens(p, "INDENTLESS-SEQUENCE-ENTRY", "SEQUENCE-START", props, "block")
      [] token.typ = "SCALAR" ->
            Gives(skipToken(PopState(p)),
                  ScalarEvent(props, token.value,
                              (props.tag = <<>> /\ token.style = "plain") \/ props.tag = <<"!">>, token.style))
      [] token.typ = "FLOW-SEQUENCE-START" ->
            Opens(p, "FLOW-SEQUENCE-FIRST-ENTRY", "SEQUENCE-START", props, "flow")
      [] token.typ = "FLOW-MAPPING-START" ->
            Opens(p, "FLOW-MAPPING-FIRST-KEY", "MAPPING-START", props, "flow")
      [] props.block /\ token.typ = "BLOCK-SEQUENCE-START" ->
            Opens(p, "BLOCK-SEQUENCE-FIRST-ENTRY", "SEQUENCE-START", props, "block")
      [] props.block /\ token.typ = "BLOCK-MAPPING-START" ->
            Opens(p, "BLOCK-MAPPING-FIRST-KEY", "MAPPING-START", props, "block")
      [] OTHER -> IF props.anchor # <<>> \/ props.tag # <<>>
                  THEN Gives(PopState(p), ScalarEvent(props, <<>>, props.tag = <<>>, "plain"))
                  ELSE Fails(p, "did not find expected node content")
NodeContent(p, props) ==
    IF props.tagged /\ TagOf(p, props.tag) = <<>> THEN Continues(FailAt(p, "found undefined tag handle", props.tagLine))
    ELSE Content([p EXCEPT !.props = NoProps],
                 [props EXCEPT !.tag = IF props.tagged THEN TagOf(p, props.tag) ELSE <<>>], Peek(p))

ParseNode(p, block, indentless) ==
    CASE Peek(p).typ = "ALIAS" /\ p.props = NoProps ->
            Gives(skipToken(PopState(p)),
                  [typ |-> "ALIAS", line |-> Peek(p).mark.line, anchor |-> Peek(p).value])
      [] Peek(p).typ = "ANCHOR" /\ p.props.anchor = <<>> -> AddAnchor(WithProp(p, block, indentless))
      [] Peek(p).typ = "TAG" /\ ~p.props.tagged -> AddTag(WithProp(p, block, indentless))
      [] OTHER -> NodeContent(p, WithProp(p, block, indentless).props)

ParseDocumentContent(p) ==
    IF Peek(p).typ \in {"VERSION-DIRECTIVE", "TAG-DIRECTIVE", "DOCUMENT-START", "DOCUMENT-END", "STREAM-END"}
    THEN ProcessEmptyScalar(PopState(p), Peek(p).mark.line)
    ELSE ParseNode(p, TRUE, FALSE)

-----------------------------------------------------------------------------
(* Block collections.  An entry, key or value with nothing behind it is an   *)
(* empty scalar.                                                             *)

First(p, state) == Continues(skipToken(Goto(PushMark(p), state)))
Step(p, place) == Continues(skipToken(Inside(Start(p), place)))
Behind(p, ends, next, block, indentless) ==
    IF Peek(p).typ \in ends THEN ProcessEmptyScalar(Goto(p, next), p.start)
    ELSE ParseNode(PushState(p, next), block, indentless)
Closes(p, typ) == Gives(skipToken(PopMark(PopState(p))), Event(typ, Peek(p).mark.line))

ParseBlockSequenceEntry(p) ==
    CASE p.inside = "entry" -> Behind(p, {"BLOCK-ENTRY", "BLOCK-END"}, "BLOCK-SEQUENCE-ENTRY", TRUE, FALSE)
      [] p.inside = "none" /\ Peek(p).typ = "BLOCK-ENTRY" -> Step(SeqItem(p), "entry")
      [] p.inside = "none" /\ Peek(p).typ = "BLOCK-END" -> Closes(p, "SEQUENCE-END")
      [] OTHER -> Fails(PopMark(p), "did not find expected '-' indicator")

(* Mutant: ends as a block sequence does, which has pushed a mark. *)
ParseIndentlessSequenceEntryPopsMark(p) ==
    CASE p.inside = "entry" ->
            Behind(p, {"BLOCK-ENTRY", "KEY", "VALUE", "BLOCK-END"}, "INDENTLESS-SEQUENCE-ENTRY", TRUE, FALSE)
      [] p.inside = "none" /\ Peek(p).typ = "BLOCK-ENTRY" -> Step(SeqItem(p), "entry")
      [] OTHER -> Gives(PopMark(PopState(p)), Event("SEQUENCE-END", Peek(p).mark.line))
ParseIndentlessSequenceEntry(p) ==
    CASE p.inside = "entry" ->
            Behind(p, {"BLOCK-ENTRY", "KEY", "VALUE", "BLOCK-END"}, "INDENTLESS-SEQUENCE-ENTRY", TRUE, FALSE)
      [] p.inside = "none" /\ Peek(p).typ = "BLOCK-ENTRY" -> Step(SeqItem(p), "entry")
      [] OTHER -> Gives(PopState(p), Event("SEQUENCE-END", Peek(p).mark.line))

ParseBlockMappingKey(p) ==
    CASE p.inside = "key" -> Behind(p, {"KEY", "VALUE", "BLOCK-END"}, "BLOCK-MAPPING-VALUE", TRUE, TRUE)
      [] p.inside = "none" /\ Peek(p).typ = "KEY" -> Step(p, "key")
      [] p.inside = "none" /\ Peek(p).typ = "BLOCK-END" -> Closes(p, "MAPPING-END")
      [] OTHER -> Fails(PopMark(p), "did not find expected key")

(* Mutant: a key without a value gets none. *)
ParseBlockMappingValueNone(p) ==
    CASE p.inside = "value" -> Behind(p, {"KEY", "VALUE", "BLOCK-END"}, "BLOCK-MAPPING-KEY", TRUE, TRUE)
      [] p.inside = "none" /\ Peek(p).typ = "VALUE" -> Step(p, "value")
      [] OTHER -> Continues(Goto(p, "BLOCK-MAPPING-KEY"))
ParseBlockMappingValue(p) ==
    CASE p.inside = "value" -> Behind(p, {"KEY", "VALUE", "BLOCK-END"}, "BLOCK-MAPPING-KEY", TRUE, TRUE)
      [] p.inside = "none" /\ Peek(p).typ = "VALUE" -> Step(p, "value")
      [] OTHER -> ProcessEmptyScalar(Goto(p, "BLOCK-MAPPING-KEY"), Peek(p).mark.line)

-----------------------------------------------------------------------------
(* Flow collections.                                                         *)

FlowSequenceItem(p) ==
    CASE Peek(p).typ = "FLOW-SEQUENCE-END" -> Closes(p, "SEQUENCE-END")
      [] Peek(p).typ = "KEY" ->
            Gives(skipToken(Goto(p, "FLOW-SEQUENCE-ENTRY-MAPPING-KEY")),
                  ContentEvent("MAPPING-START", [NoProps EXCEPT !.line = Peek(p).mark.line], "flow"))
      [] OTHER -> ParseNode(PushState(p, "FLOW-SEQUENCE-ENTRY"), FALSE, FALSE)
(* Mutant: only the first entry has its line noted. *)
ParseFlowSequenceEntryNoLine(p) ==
    CASE p.inside = "entry" -> FlowSequenceItem(p)
      [] p.inside = "none" /\ p.state = "FLOW-SEQUENCE-FIRST-ENTRY" -> Step(PushMark(SeqItem(p)), "entry")
      [] p.inside = "none" /\ p.state = "FLOW-SEQUENCE-ENTRY" /\ Peek(p).typ = "FLOW-ENTRY" -> Step(p, "entry")
      [] p.inside = "none" /\ p.state = "FLOW-SEQUENCE-ENTRY" /\ Peek(p).typ = "FLOW-SEQUENCE-END" ->
            Closes(p, "SEQUENCE-END")
      [] OTHER -> Fails(PopMark(p), "did not find expected ',' or ']'")
ParseFlowSequenceEntry(p) ==
    CASE p.inside = "entry" -> FlowSequenceItem(p)
      [] p.inside = "none" /\ p.state = "FLOW-SEQUENCE-FIRST-ENTRY" -> Step(PushMark(SeqItem(p)), "entry")
      [] p.inside = "none" /\ p.state = "FLOW-SEQUENCE-ENTRY" /\ Peek(p).typ = "FLOW-ENTRY" ->
            Step(SeqItem(p), "entry")
      [] p.inside = "none" /\ p.state = "FLOW-SEQUENCE-ENTRY" /\ Peek(p).typ = "FLOW-SEQUENCE-END" ->
            Closes(p, "SEQUENCE-END")
      [] OTHER -> Fails(PopMark(p), "did not find expected ',' or ']'")

(* An empty key steps over the token behind it, whatever it is. *)
ParseFlowSequenceEntryMappingKey(p) ==
    IF Peek(p).typ \in {"VALUE", "FLOW-ENTRY", "FLOW-SEQUENCE-END"}
    THEN ProcessEmptyScalar(skipToken(Goto(p, "FLOW-SEQUENCE-ENTRY-MAPPING-VALUE")), Peek(p).mark.line)
    ELSE ParseNode(PushState(p, "FLOW-SEQUENCE-ENTRY-MAPPING-VALUE"), FALSE, FALSE)
ParseFlowSequenceEntryMappingValue(p) ==
    CASE p.inside = "value" ->
            Behind(p, {"FLOW-ENTRY", "FLOW-SEQUENCE-END"}, "FLOW-SEQUENCE-ENTRY-MAPPING-END", FALSE, FALSE)
      [] p.inside = "none" /\ Peek(p).typ = "VALUE" -> Step(p, "value")
      [] OTHER -> ProcessEmptyScalar(Goto(p, "FLOW-SEQUENCE-ENTRY-MAPPING-END"), Peek(p).mark.line)
ParseFlowSequenceEntryMappingEnd(p) ==
    Gives(Goto(p, "FLOW-SEQUENCE-ENTRY"), Event("MAPPING-END", Peek(p).mark.line))

FlowMappingItem(p) ==
    CASE Peek(p).typ = "FLOW-MAPPING-END" -> Closes(p, "MAPPING-END")
      [] Peek(p).typ = "KEY" -> Step(p, "key")
      [] OTHER -> ParseNode(PushState(p, "FLOW-MAPPING-EMPTY-VALUE"), FALSE, FALSE)
ParseFlowMappingKey(p) ==
    CASE p.inside = "entry" -> FlowMappingItem(p)
      [] p.inside = "key" ->
            Behind(Start(p), {"VALUE", "FLOW-ENTRY", "FLOW-MAPPING-END"}, "FLOW-MAPPING-VALUE", FALSE, FALSE)
      [] p.inside = "none" /\ p.state = "FLOW-MAPPING-FIRST-KEY" -> Step(PushMark(p), "entry")
      [] p.inside = "none" /\ p.state = "FLOW-MAPPING-KEY" /\ Peek(p).typ = "FLOW-ENTRY" -> Step(p, "entry")
      [] p.inside = "none" /\ p.state = "FLOW-MAPPING-KEY" /\ Peek(p).typ = "FLOW-MAPPING-END" ->
            Closes(p, "MAPPING-END")
      [] OTHER -> Fails(PopMark(p), "did not find expected ',' or '}'")
ParseFlowMappingValue(p) ==
    CASE p.inside = "value" ->
            Behind(Start(p), {"FLOW-ENTRY", "FLOW-MAPPING-END"}, "FLOW-MAPPING-KEY", FALSE, FALSE)
      [] p.inside = "none" /\ p.state = "FLOW-MAPPING-VALUE" /\ Peek(p).typ = "VALUE" -> Step(p, "value")
      [] OTHER -> ProcessEmptyScalar(Goto(p, "FLOW-MAPPING-KEY"), Peek(p).mark.line)

-----------------------------------------------------------------------------
(* yamlParserParse.                                                          *)

Parsing == /\ event = NoEvent
           /\ parser.error = "none" /\ ~parser.streamEndProduced /\ parser.state # "END"
FetchTokens == /\ Parsing /\ NeedMoreTokens(parser)
               /\ parser' = FetchMoreTokens(parser)
               /\ UNCHANGED event
Handles(states, result) ==
    /\ Parsing /\ ~NeedMoreTokens(parser)
    /\ parser.state \in states /\ parser.inside # "node"
    /\ \E r \in {result} : parser' = r.p /\ event' = r.event
RestOfNode ==
    /\ Parsing /\ ~NeedMoreTokens(parser) /\ parser.inside = "node"
    /\ \E r \in {ParseNode(parser, parser.props.block, parser.props.indentless)} :
            parser' = r.p /\ event' = r.event
StateMachine ==
    \/ Handles({"STREAM-START"}, ParseStreamStart(parser))
    \/ Handles({"IMPLICIT-DOCUMENT-START", "DOCUMENT-START"},
               ParseDocumentStart(parser, parser.state = "IMPLICIT-DOCUMENT-START"))
    \/ Handles({"DOCUMENT-CONTENT"}, ParseDocumentContent(parser))
    \/ Handles({"DOCUMENT-END"}, ParseDocumentEnd(parser))
    \/ Handles({"BLOCK-NODE"}, ParseNode(parser, TRUE, FALSE))
    \/ Handles({"BLOCK-SEQUENCE-FIRST-ENTRY"}, First(parser, "BLOCK-SEQUENCE-ENTRY"))
    \/ Handles({"BLOCK-SEQUENCE-ENTRY"}, ParseBlockSequenceEntry(parser))
    \/ Handles({"INDENTLESS-SEQUENCE-ENTRY"}, ParseIndentlessSequenceEntry(parser))
    \/ Handles({"BLOCK-MAPPING-FIRST-KEY"}, First(parser, "BLOCK-MAPPING-KEY"))
    \/ Handles({"BLOCK-MAPPING-KEY"}, ParseBlockMappingKey(parser))
    \/ Handles({"BLOCK-MAPPING-VALUE"}, ParseBlockMappingValue(parser))
    \/ Handles({"FLOW-SEQUENCE-FIRST-ENTRY", "FLOW-SEQUENCE-ENTRY"}, ParseFlowSequenceEntry(parser))
    \/ Handles({"FLOW-SEQUENCE-ENTRY-MAPPING-KEY"}, ParseFlowSequenceEntryMappingKey(parser))
    \/ Handles({"FLOW-SEQUENCE-ENTRY-MAPPING-VALUE"}, ParseFlowSequenceEntryMappingValue(parser))
    \/ Handles({"FLOW-SEQUENCE-ENTRY-MAPPING-END"}, ParseFlowSequenceEntryMappingEnd(parser))
    \/ Handles({"FLOW-MAPPING-FIRST-KEY", "FLOW-MAPPING-KEY"}, ParseFlowMappingKey(parser))
    \/ Handles({"FLOW-MAPPING-VALUE", "FLOW-MAPPING-EMPTY-VALUE"}, ParseFlowMappingValue(parser))
    \/ RestOfNode
=============================================================================
