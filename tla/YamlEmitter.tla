---------------------------- MODULE YamlEmitter ----------------------------
(* The YAML encoder (encode.go) and emitter (emitterc.go): values to events  *)
(* to text.  The emitter is a pushdown machine like the parser; the record e *)
(* of the operators below is the yamlEmitterT.  Modelled as ytt sets it up:  *)
(* an indentation of 2, no limit on the width, unicode, not canonical, and   *)
(* no anchors, tags, directives or flow styles, since yaml.Marshal is only   *)
(* given plain values and MapSlices (strings that are not valid UTF-8, which *)
(* become !!binary, are left out).  Flow collections are the empty ones.     *)
EXTENDS YamlResolve

CONSTANT KeyLimit         \* the longest simple key that is emitted: 128 bytes in the code
ASSUME KeyLimitAssumption == KeyLimit \in Nat

bestIndent == 2

-----------------------------------------------------------------------------
(* encode.go: the events of a value.                                         *)

Ev(typ) == [typ |-> typ]
emitScalar(value, style) == <<[typ |-> "SCALAR", value |-> value, style |-> style]>>

(* The expression of isBase60Float, without its sign: digits, groups of one *)
(* or two digits behind colons, a point and digits.                          *)
Group60(s, i) == /\ i < Len(s) /\ isDigit(s[i + 1])
                 /\ (i + 2 \in DOMAIN s /\ isDigit(s[i + 2])) => asDigit(s[i + 1]) <= 5
                 /\ ~(i + 3 \in DOMAIN s /\ \A k \in 1 .. 3 : isDigit(s[i + k]))
Groups60(s) == /\ \A i \in DOMAIN s : isDigit(s[i]) \/ s[i] = ":"
               /\ \A i \in DOMAIN s : s[i] = ":" => Group60(s, i)
IsBase60(s, colon, point) ==
    /\ colon \in 2 .. point - 1 /\ isDigit(s[1])
    /\ ToSet(SubSeq(s, 1, colon - 1)) \cup ToSet(From(s, point)) \subseteq Digits \cup {"_"}
    /\ Groups60(SubSeq(s, colon, point - 1))
PlaceOf(s, c) == NotInSet(s, 1, {c}) + 1
Unsigned60(u) == IsBase60(u, PlaceOf(u, ":"), PlaceOf(u, "."))
isBase60Float(s) == Unsigned60(Unsigned(s))

stringv(s) ==
    emitScalar(s, CASE "\n" \in ToSet(s) -> "literal"
                    [] "\n" \notin ToSet(s) /\ resolve("", s).tag = "str" /\ ~isBase60Float(s) -> "plain"
                    [] OTHER -> "double-quoted")
scalarv(v) ==
    CASE v.tag = "str" -> stringv(v.value)
      [] v.tag = "null" -> emitScalar(Chars("null"), "plain")
      [] v.tag = "bool" -> emitScalar(IF v.value THEN Chars("true") ELSE Chars("false"), "plain")
      [] v.tag = "int" -> emitScalar(Chars(ToString(v.value)), "plain")
      [] OTHER -> emitScalar(v.value, "plain")
RECURSIVE marshal(_)
itemEvents(item) == (IF "key" \in DOMAIN item THEN marshal(item.key) ELSE <<>>) \o marshal(item.value)
marshal(v) ==
    IF v.kind = "scalar" THEN scalarv(v)
    ELSE <<Ev(IF v.kind = "map" THEN "MAPPING-START" ELSE "SEQUENCE-START")>>
            \o FlattenSeq([i \in DOMAIN v.items |-> itemEvents(v.items[i])])
            \o <<Ev(IF v.kind = "map" THEN "MAPPING-END" ELSE "SEQUENCE-END")>>
(* yaml.Marshal: one encoder per document. *)
Marshal(v) == <<Ev("STREAM-START"), Ev("DOCUMENT-START")>> \o marshal(v) \o <<Ev("DOCUMENT-END"), Ev("STREAM-END")>>

NewEmitter == [out |-> <<>>, column |-> 0, events |-> <<>>, state |-> "STREAM-START", states |-> <<>>,
               indent |-> 0, indents |-> <<>>, flowLevel |-> 0, whitespace |-> FALSE, indention |-> FALSE,
               openEnded |-> FALSE, root |-> FALSE, mapping |-> FALSE, simpleKey |-> FALSE, error |-> "none"]

-----------------------------------------------------------------------------
(* Writing.                                                                  *)

put(e, s) == [e EXCEPT !.out = @ \o s, !.column = @ + Len(s)]
putBreak(e) == [e EXCEPT !.out = Append(@, "\n"), !.column = 0]
writeBreak(e, c) == IF c = "\n" THEN putBreak(e) ELSE [e EXCEPT !.out = Append(@, c), !.column = 0]
SpaceChars(n) == [i \in 1 .. n |-> " "]
IndentOf(e) == Max({e.indent, 0})
WhereIndented(e) ==
    IF ~e.indention \/ e.column > IndentOf(e) \/ (e.column = IndentOf(e) /\ ~e.whitespace) THEN putBreak(e) ELSE e
Padded(e) == [put(e, SpaceChars(IndentOf(e) - e.column)) EXCEPT !.whitespace = TRUE, !.indention = TRUE]
WriteIndent(e) == Padded(WhereIndented(e))
Separated(e, needed) == IF needed /\ ~e.whitespace THEN put(e, <<" ">>) ELSE e
WriteIndicator(e, indicator, needWhitespace, isWhitespace, isIndention) ==
    [put(Separated(e, needWhitespace), indicator) EXCEPT
        !.whitespace = isWhitespace, !.indention = @ /\ isIndention, !.openEnded = FALSE]
Indicator(e, indicator, needWhitespace) == WriteIndicator(e, indicator, needWhitespace, FALSE, FALSE)
Written(e) == [e EXCEPT !.whitespace = FALSE, !.indention = FALSE]

(* Plain and single-quoted text; the first of a run of line feeds is written *)
(* twice, since a reader folds it.                                           *)
RECURSIVE WriteFolded(_, _, _, _)
FoldedBreak(e, c, breaks) ==
    [writeBreak(IF ~breaks /\ c = "\n" THEN putBreak(e) ELSE e, c) EXCEPT !.indention = TRUE]
FoldedChar(e, c, breaks, quoted) ==
    [put(IF breaks THEN WriteIndent(e) ELSE e, IF quoted /\ c = "'" THEN <<"'", "'">> ELSE <<c>>) EXCEPT
        !.indention = FALSE]
WriteFolded(e, s, breaks, quoted) ==
    CASE s = <<>> -> e
      [] s # <<>> /\ isSpace(Head(s)) -> WriteFolded(put(e, <<" ">>), Tail(s), breaks, quoted)
      [] s # <<>> /\ isBreak(Head(s)) -> WriteFolded(FoldedBreak(e, Head(s), breaks), Tail(s), TRUE, quoted)
      [] OTHER -> WriteFolded(FoldedChar(e, Head(s), breaks, quoted), Tail(s), FALSE, quoted)
WritePlainScalar(e, s) ==
    [Written(WriteFolded(Separated(e, TRUE), s, FALSE, FALSE)) EXCEPT !.openEnded = @ \/ e.root]
WriteSingleQuotedScalar(e, s) ==
    Written(Indicator(WriteFolded(Indicator(e, <<"'">>, TRUE), s, FALSE, TRUE), <<"'">>, FALSE))

HexChars == Chars("0123456789ABCDEF")
Hex(v, n) == [i \in 1 .. n |-> HexChars[((v \div 16 ^ (n - i)) % 16) + 1]]
ShortEscapes == [v \in {0, 7, 8, 9, 10, 11, 12, 13, 27, 34, 92, 133, 160, 8232, 8233} |->
    CASE v = 0 -> "0" [] v = 7 -> "a" [] v = 8 -> "b" [] v = 9 -> "t" [] v = 10 -> "n" [] v = 11 -> "v"
      [] v = 12 -> "f" [] v = 13 -> "r" [] v = 27 -> "e" [] v = 34 -> "\"" [] v = 92 -> "\\"
      [] v = 133 -> "N" [] v = 160 -> "_" [] v = 8232 -> "L" [] v = 8233 -> "P"]
EscapeOf(v) == CASE v \in DOMAIN ShortEscapes -> <<ShortEscapes[v]>>
                 [] v \notin DOMAIN ShortEscapes /\ v <= 255 -> <<"x">> \o Hex(v, 2)
                 [] OTHER -> <<"u">> \o Hex(v, 4)
DoubleQuotedChar(c) ==
    IF ~isPrintable(c) \/ c = BOM \/ isBreak(c) \/ c \in {"\"", "\\"} THEN <<"\\">> \o EscapeOf(CodePoint[c]) ELSE <<c>>
WriteDoubleQuotedScalar(e, s) ==
    Written(Indicator(put(Indicator(e, <<"\"">>, TRUE), FlattenSeq([i \in DOMAIN s |-> DoubleQuotedChar(s[i])])),
                      <<"\"">>, FALSE))

(* The chomping indicator keeps as many line feeds as the text ends with. *)
(* Mutant: blank lines at the end are left to the default chomping. *)
ChompHintClips(s) == IF s = <<>> \/ ~isBreak(Last(s)) THEN <<"-">> ELSE <<>>
ChompHint(s) == CASE s = <<>> \/ ~isBreak(Last(s)) -> <<"-">>
                  [] s # <<>> /\ isBreak(Last(s)) /\ (Len(s) = 1 \/ isBreak(s[Len(s) - 1])) -> <<"+">>
                  [] OTHER -> <<>>
ChompHinted(e, hint) == IF hint = <<>> THEN e ELSE Indicator([e EXCEPT !.openEnded = hint = <<"+">>], hint, FALSE)
WriteBlockScalarHints(e, s) ==
    ChompHinted([(IF s # <<>> /\ (isSpace(s[1]) \/ isBreak(s[1])) THEN Indicator(e, <<ToString(bestIndent)>>, FALSE) ELSE e)
                    EXCEPT !.openEnded = FALSE], ChompHint(s))
RECURSIVE WriteLiteral(_, _, _)
WriteLiteral(e, s, breaks) ==
    CASE s = <<>> -> e
      [] s # <<>> /\ isBreak(Head(s)) ->
            WriteLiteral([writeBreak(e, Head(s)) EXCEPT !.indention = TRUE], Tail(s), TRUE)
      [] OTHER -> WriteLiteral([put(IF breaks THEN WriteIndent(e) ELSE e, <<Head(s)>>) EXCEPT !.indention = FALSE],
                               Tail(s), FALSE)
WriteLiteralScalar(e, s) ==
    WriteLiteral([putBreak(WriteBlockScalarHints(Indicator(e, <<"|">>, TRUE), s)) EXCEPT
                    !.indention = TRUE, !.whitespace = TRUE], s, TRUE)

-----------------------------------------------------------------------------
(* AnalyzeScalar: what the text of a scalar rules out.                       *)

Bytes(c) == CASE c \in DOMAIN CodePoint /\ CodePoint[c] \in 128 .. 2047 -> 2
              [] c \in DOMAIN CodePoint /\ CodePoint[c] > 2047 -> 3
              [] OTHER -> 1
RECURSIVE ByteLen(_)
ByteLen(s) == IF s = <<>> THEN 0 ELSE Bytes(Head(s)) + ByteLen(Tail(s))

Before(s, i) == i = 1 \/ isBlankz(s[i - 1])
Behind1(s, i) == i = Len(s) \/ isBlank(s[i + 1])
Pair(s, First1, Second1) == \E i \in 1 .. Len(s) - 1 : s[i] \in First1 /\ s[i + 1] \in Second1
DocumentMark(s) == Len(s) >= 3 /\ SubSeq(s, 1, 3) \in {<<"-", "-", "-">>, <<".", ".", ".">>}
Opening1 == ToSet(Chars("#,[]{}&*!|>'\"%@")) \cup {"grave"}
blockIndicators(s) ==
    \/ DocumentMark(s) \/ s[1] \in Opening1
    \/ s[1] \in {"?", ":", "-"} /\ Behind1(s, 1)
    \/ \E i \in 2 .. Len(s) : (s[i] = ":" /\ Behind1(s, i)) \/ (s[i] = "#" /\ Before(s, i))
flowIndicators(s) ==
    \/ DocumentMark(s) \/ s[1] \in Opening1 \cup {"?", ":"}
    \/ s[1] = "-" /\ Behind1(s, 1)
    \/ \E i \in 2 .. Len(s) : s[i] \in {",", "?", "[", "]", "{", "}", ":"} \/ (s[i] = "#" /\ Before(s, i))
lineBreaks(s) == \E i \in DOMAIN s : isBreak(s[i])
specialCharacters(s) == \E i \in DOMAIN s : ~isPrintable(s[i])
Special(s) == specialCharacters(s) \/ Pair(s, {" "}, BreakChars)
Ragged(s) == (isSpace(s[1]) \/ isSpace(Last(s))) \/ lineBreaks(s)
multiline(s) == lineBreaks(s)
plainAllowed(s, flow) ==
    IF s = <<>> THEN ~flow
    ELSE ~Ragged(s) /\ ~Special(s) /\ ~(IF flow THEN flowIndicators(s) ELSE blockIndicators(s))
singleQuotedAllowed(s) == s = <<>> \/ (~Pair(s, BreakChars, {" "}) /\ ~Special(s))
blockAllowed(s) == s # <<>> /\ ~isSpace(Last(s)) /\ ~Special(s)

SelectScalarStyle(e, s, style) ==
    LET flow == e.flowLevel > 0
        wanted == IF e.simpleKey /\ multiline(s) THEN "double-quoted" ELSE style
        plain == wanted = "plain" /\ plainAllowed(s, flow) /\ ~(s = <<>> /\ (flow \/ e.simpleKey))
    IN  CASE plain -> "plain"
          [] wanted = "plain" /\ ~plain -> IF singleQuotedAllowed(s) THEN "single-quoted" ELSE "double-quoted"
          [] wanted = "literal" -> IF blockAllowed(s) /\ ~flow /\ ~e.simpleKey THEN "literal" ELSE "double-quoted"
          [] OTHER -> wanted
ProcessScalar(e, s, style) ==
    CASE style = "plain" -> WritePlainScalar(e, s)
      [] style = "single-quoted" -> WriteSingleQuotedScalar(e, s)
      [] style = "double-quoted" -> WriteDoubleQuotedScalar(e, s)
      [] style = "literal" -> WriteLiteralScalar(e, s)

-----------------------------------------------------------------------------
(* The state machine.                                                        *)

EmitError(e, what) == [e EXCEPT !.error = what]
ToState(e, state) == [e EXCEPT !.state = state]
PushEmit(e, state) == [e EXCEPT !.states = Append(@, state)]
PopEmit(e) == [e EXCEPT !.state = Last(e.states), !.states = Front(@)]
PopIndent(e) == [e EXCEPT !.indent = Last(e.indents), !.indents = Front(@)]
IncreaseIndent(e, flow, indentless) ==
    [e EXCEPT !.indents = Append(@, e.indent),
              !.indent = CASE @ < 0 -> IF flow THEN bestIndent ELSE 0
                           [] @ >= 0 -> IF indentless THEN @ ELSE @ + bestIndent]

(* The events before the last one of the queue are looked ahead at. *)
IsStart(ev) == ev.typ \in {"STREAM-START", "DOCUMENT-START", "SEQUENCE-START", "MAPPING-START"}
IsEnd(ev) == ev.typ \in {"STREAM-END", "DOCUMENT-END", "SEQUENCE-END", "MAPPING-END"}
Level(events, i) == Cardinality({k \in 1 .. i : IsStart(events[k])}) - Cardinality({k \in 1 .. i : IsEnd(events[k])})
Accumulate(ev) == CASE ev.typ = "DOCUMENT-START" -> 1 [] ev.typ = "SEQUENCE-START" -> 2
                    [] ev.typ = "MAPPING-START" -> 3 [] OTHER -> 0
NeedMoreEvents(e) ==
    e.events # <<>> =>
        /\ Accumulate(Head(e.events)) > 0 /\ Len(e.events) <= Accumulate(Head(e.events))
        /\ \A i \in DOMAIN e.events : Level(e.events, i) # 0
CheckEmpty(e) == /\ Len(e.events) >= 2
                 /\ <<e.events[1].typ, e.events[2].typ>> \in
                        {<<"SEQUENCE-START", "SEQUENCE-END">>, <<"MAPPING-START", "MAPPING-END">>}
CheckSimpleKey(e, ev) == IF ev.typ = "SCALAR" THEN ~multiline(ev.value) /\ ByteLen(ev.value) <= KeyLimit
                         ELSE CheckEmpty(e)

EmitScalar(e, ev) ==
    PopEmit(PopIndent(ProcessScalar(IncreaseIndent(e, TRUE, FALSE), ev.value, SelectScalarStyle(e, ev.value, ev.style))))
EmitCollection(e, what) ==
    ToState(e, IF e.flowLevel > 0 \/ CheckEmpty(e) THEN "FLOW-" \o what \o "-FIRST" ELSE "BLOCK-" \o what \o "-FIRST")
EmitNode(e, ev, root, mapping, simpleKey) ==
    LET c == [e EXCEPT !.root = root, !.mapping = mapping, !.simpleKey = simpleKey]
    IN  CASE ev.typ = "SCALAR" -> EmitScalar(c, ev)
          [] ev.typ = "SEQUENCE-START" -> EmitCollection(c, "SEQUENCE")
          [] ev.typ = "MAPPING-START" -> EmitCollection(c, "MAPPING")
          [] OTHER -> EmitError(c, "expected SCALAR, SEQUENCE-START, MAPPING-START, or ALIAS")

EmitStreamStart(e, ev) ==
    [ToState(e, "FIRST-DOCUMENT-START") EXCEPT !.indent = -1, !.column = 0, !.whitespace = TRUE, !.indention = TRUE]
(* Marshal's single document is implicit; before STREAM-END the encoder      *)
(* (finish) has said that nothing is open-ended.                             *)
EmitDocumentStart(e, ev) ==
    ToState(e, IF ev.typ = "STREAM-END" THEN "END" ELSE "DOCUMENT-CONTENT")
EmitDocumentContent(e, ev) == EmitNode(PushEmit(e, "DOCUMENT-END"), ev, TRUE, FALSE, FALSE)
EmitDocumentEnd(e, ev) == ToState(WriteIndent(e), "DOCUMENT-START")

FlowFirst(e, bracket) ==
    [IncreaseIndent(WriteIndicator(e, bracket, TRUE, TRUE, FALSE), TRUE, FALSE) EXCEPT !.flowLevel = @ + 1]
(* Mutant: the indentation of the flow collection stays. *)
FlowEndIndented(e, bracket) == PopEmit(Indicator([e EXCEPT !.flowLevel = @ - 1], bracket, FALSE))
FlowEnd(e, bracket) == PopEmit(Indicator(PopIndent([e EXCEPT !.flowLevel = @ - 1]), bracket, FALSE))
(* Only empty collections get here. *)
EmitFlowSequenceItem(e, ev) ==
    IF ev.typ = "SEQUENCE-END" THEN FlowEnd(FlowFirst(e, <<"[">>), <<"]">>)
    ELSE EmitError(e, "a flow sequence that is not empty")
EmitFlowMappingKey(e, ev) ==
    IF ev.typ = "MAPPING-END" THEN FlowEnd(FlowFirst(e, <<"{">>), <<"}">>)
    ELSE EmitError(e, "a flow mapping that is not empty")

BlockSequenceItem(e, ev) ==
    IF ev.typ = "SEQUENCE-END" THEN PopEmit(PopIndent(e))
    ELSE EmitNode(PushEmit(WriteIndicator(WriteIndent(e), <<"-">>, TRUE, FALSE, TRUE), "BLOCK-SEQUENCE"),
                  ev, FALSE, FALSE, FALSE)
EmitBlockSequenceItem(e, ev, first) ==
    BlockSequenceItem(IF first THEN IncreaseIndent(e, FALSE, e.mapping /\ ~e.indention) ELSE e, ev)
BlockMappingKey(e, ev) ==
    CASE ev.typ = "MAPPING-END" -> PopEmit(PopIndent(e))
      [] ev.typ # "MAPPING-END" /\ CheckSimpleKey(e, ev) ->
            EmitNode(PushEmit(WriteIndent(e), "BLOCK-MAPPING-SIMPLE-VALUE"), ev, FALSE, TRUE, TRUE)
      [] OTHER -> EmitNode(PushEmit(WriteIndicator(WriteIndent(e), <<"?">>, TRUE, FALSE, TRUE), "BLOCK-MAPPING-VALUE"),
                           ev, FALSE, TRUE, FALSE)
EmitBlockMappingKey(e, ev, first) == BlockMappingKey(IF first THEN IncreaseIndent(e, FALSE, FALSE) ELSE e, ev)
EmitBlockMappingValue(e, ev, simple) ==
    EmitNode(PushEmit(IF simple THEN Indicator(e, <<":">>, FALSE)
                      ELSE WriteIndicator(WriteIndent(e), <<":">>, TRUE, FALSE, TRUE), "BLOCK-MAPPING"),
             ev, FALSE, TRUE, FALSE)

EmitterStateMachine(e, ev) ==
    CASE e.state = "STREAM-START" -> EmitStreamStart(e, ev)
      [] e.state \in {"FIRST-DOCUMENT-START", "DOCUMENT-START"} -> EmitDocumentStart(e, ev)
      [] e.state = "DOCUMENT-CONTENT" -> EmitDocumentContent(e, ev)
      [] e.state = "DOCUMENT-END" -> EmitDocumentEnd(e, ev)
      [] e.state = "FLOW-SEQUENCE-FIRST" -> EmitFlowSequenceItem(e, ev)
      [] e.state = "FLOW-MAPPING-FIRST" -> EmitFlowMappingKey(e, ev)
      [] e.state \in {"BLOCK-SEQUENCE-FIRST", "BLOCK-SEQUENCE"} ->
            EmitBlockSequenceItem(e, ev, e.state = "BLOCK-SEQUENCE-FIRST")
      [] e.state \in {"BLOCK-MAPPING-FIRST", "BLOCK-MAPPING"} ->
            EmitBlockMappingKey(e, ev, e.state = "BLOCK-MAPPING-FIRST")
      [] e.state \in {"BLOCK-MAPPING-SIMPLE-VALUE", "BLOCK-MAPPING-VALUE"} ->
            EmitBlockMappingValue(e, ev, e.state = "BLOCK-MAPPING-SIMPLE-VALUE")
=============================================================================
