---------------------------- MODULE YamlScanner ----------------------------
(* The YAML scanner (scannerc.go): text to tokens.  The code keeps scanner   *)
(* and parser in one yamlParserT, the record p of the operators below; one   *)
(* operator stands for one function of the file and returns the record as    *)
(* the function leaves it.  A character is looked at in p.text instead of    *)
(* the reader's buffer; p.mark.index is its place.  An error is a value of   *)
(* p.error; what a failing function does after it is not looked at again.    *)
(* Byte order marks inside the text are left out: isBom looks at the start   *)
(* of the reader's buffer.                                                   *)
EXTENDS YamlChars, FiniteSets

CONSTANT SimpleKeyLimit   \* how long a simple key may be: 1024 in the code
ASSUME SimpleKeyLimitAssumption == SimpleKeyLimit \in Nat

(* The first error, and what parser.fail makes of its place: the library's   *)
(* line, counted from 0, and one more for an error of the scanner.           *)
FailAt(p, what, line) == IF p.error = "none" THEN [p EXCEPT !.error = what, !.errorLine = line] ELSE p
Fail(p, what) == FailAt(p, what, IF p.mark.line = 0 THEN 0 ELSE p.mark.line + 1)
FailIf(cond, p, what) == IF cond THEN Fail(p, what) ELSE p

-----------------------------------------------------------------------------
(* The place in the text. *)

At(p, k) == IF p.mark.index + 1 + k <= Len(p.text) THEN p.text[p.mark.index + 1 + k] ELSE Z
Here(p) == At(p, 0)
skip(p, n) == [p EXCEPT !.mark.index = @ + n, !.mark.column = @ + n]
skipLine(p) ==
    IF ~isBreak(Here(p)) THEN p
    ELSE [p EXCEPT !.mark = [index |-> @.index + (IF Here(p) = "\r" /\ At(p, 1) = "\n" THEN 2 ELSE 1),
                             line |-> @.line + 1, column |-> 0]]
(* What readLine copies of the break that skipLine steps over. *)
readLine(p) == IF ~isBreak(Here(p)) THEN <<>> ELSE IF Here(p) \in {"LS", "PS"} THEN <<Here(p)>> ELSE <<"\n">>

(* How many characters of the set come next, or how many until one of it. *)
Run(p, set) == InSet(p.text, p.mark.index + 1, set)
Until(p, set) == NotInSet(p.text, p.mark.index + 1, set)
read(p, n) == SubSeq(p.text, p.mark.index + 1, p.mark.index + n)
Alphas(p) == Run(p, AlphaChars)
Blanks(p) == Run(p, BlankChars)
ToLineEnd(p) == Until(p, BreakChars)
DocumentIndicator(p, c) == /\ p.mark.column = 0
                           /\ \A k \in 0 .. 2 : At(p, k) = c
                           /\ isBlankz(At(p, 3))

-----------------------------------------------------------------------------
(* The token queue.  p.tokens is the part of it from tokensHead on.  Any     *)
(* negative place means the end of the queue; one behind it is a slice panic *)
(* in the code.                                                              *)

Token(typ, mark, value, style) == [typ |-> typ, mark |-> mark, value |-> value, style |-> style]
Mere(typ, mark) == Token(typ, mark, <<>>, "none")
yamlInsertToken(p, pos, token) ==
    CASE pos < 0 -> [p EXCEPT !.tokens = Append(@, token)]
      [] pos \in 0 .. Len(p.tokens) -> [p EXCEPT !.tokens = InsertAt(@, pos + 1, token)]
      [] OTHER -> Fail(p, "panic")
Produce(p, token) == yamlInsertToken(p, -1, token)

-----------------------------------------------------------------------------
(* Potential simple keys, one per flow level.                                *)

NoSimpleKey == [possible |-> FALSE, required |-> FALSE, tokenNumber |-> 0,
                mark |-> [index |-> 0, line |-> 0, column |-> 0]]
TopKey(p) == p.simpleKeys[Len(p.simpleKeys)]
SetTopKey(p, key) == [p EXCEPT !.simpleKeys[Len(p.simpleKeys)] = key]
Allow(p, allowed) == [p EXCEPT !.simpleKeyAllowed = allowed]

Stale(p, key) ==
    key.possible /\ (key.mark.line < p.mark.line \/ key.mark.index + SimpleKeyLimit < p.mark.index)
StaleSimpleKeys(p) ==
    FailIf(\E i \in DOMAIN p.simpleKeys : Stale(p, p.simpleKeys[i]) /\ p.simpleKeys[i].required,
           [p EXCEPT !.simpleKeys = [i \in DOMAIN @ |->
                [@[i] EXCEPT !.possible = @ /\ ~Stale(p, p.simpleKeys[i])]]],
           "could not find expected ':'")

RemoveSimpleKey(p) ==
    FailIf(TopKey(p).possible /\ TopKey(p).required,
           SetTopKey(p, [TopKey(p) EXCEPT !.possible = FALSE]), "could not find expected ':'")

SaveSimpleKey(p) ==
    IF ~p.simpleKeyAllowed THEN p
    ELSE SetTopKey(RemoveSimpleKey(p),
                   [possible |-> TRUE,
                    required |-> p.flowLevel = 0 /\ p.indent = p.mark.column,
                    tokenNumber |-> p.tokensParsed + Len(p.tokens),
                    mark |-> p.mark])

IncreaseFlowLevel(p) == [p EXCEPT !.simpleKeys = Append(@, NoSimpleKey), !.flowLevel = @ + 1]
DecreaseFlowLevel(p) ==
    IF p.flowLevel = 0 THEN p ELSE [p EXCEPT !.simpleKeys = Front(@), !.flowLevel = @ - 1]

-----------------------------------------------------------------------------
(* Indentation: a deeper column opens a block collection, a shallower one    *)
(* closes all the deeper ones.                                               *)

RollIndent(p, column, number, typ, mark) ==
    IF p.flowLevel > 0 \/ p.indent >= column THEN p
    ELSE yamlInsertToken([p EXCEPT !.indents = Append(@, p.indent), !.indent = column],
                         IF number = -1 THEN -1 ELSE number - p.tokensParsed,
                         Mere(typ, mark))

RECURSIVE UnrollIndent(_, _)
UnrollIndent(p, column) ==
    IF p.flowLevel > 0 \/ p.indent <= column THEN p
    ELSE UnrollIndent(Produce([p EXCEPT !.indent = Last(p.indents), !.indents = Front(@)],
                              Mere("BLOCK-END", p.mark)),
                      column)

(* What every token that ends a document starts with. *)
Reset(p) == Allow(RemoveSimpleKey(UnrollIndent(p, -1)), FALSE)

-----------------------------------------------------------------------------
(* Fetchers of the indicators.                                               *)

FetchStreamStart(p) ==
    Produce([p EXCEPT !.indent = -1, !.simpleKeys = <<NoSimpleKey>>,
                      !.simpleKeyAllowed = TRUE, !.streamStartProduced = TRUE],
            Mere("STREAM-START", p.mark))

NewLine(mark) == IF mark.column = 0 THEN mark ELSE [mark EXCEPT !.column = 0, !.line = @ + 1]
FetchStreamEnd(p) ==
    Produce(Reset([p EXCEPT !.mark = NewLine(@)]), Mere("STREAM-END", NewLine(p.mark)))

FetchDocumentIndicator(p, typ) == Produce(skip(Reset(p), 3), Mere(typ, p.mark))
FetchFlowCollectionStart(p, typ) ==
    Produce(skip(Allow(IncreaseFlowLevel(SaveSimpleKey(p)), TRUE), 1), Mere(typ, p.mark))
FetchFlowCollectionEnd(p, typ) ==
    Produce(skip(Allow(DecreaseFlowLevel(RemoveSimpleKey(p)), FALSE), 1), Mere(typ, p.mark))
FetchFlowEntry(p) ==
    Produce(skip(Allow(RemoveSimpleKey(p), TRUE), 1), Mere("FLOW-ENTRY", p.mark))

(* '-', '?' and a ':' behind no simple key open a block collection. *)
Opened(p, typ) ==
    IF p.flowLevel > 0 THEN p
    ELSE FailIf(~p.simpleKeyAllowed, RollIndent(p, p.mark.column, -1, typ, p.mark),
                "not allowed in this context")
FetchBlockEntry(p) ==
    Produce(skip(Allow(RemoveSimpleKey(Opened(p, "BLOCK-SEQUENCE-START")), TRUE), 1),
            Mere("BLOCK-ENTRY", p.mark))
FetchKey(p) ==
    Produce(skip(Allow(RemoveSimpleKey(Opened(p, "BLOCK-MAPPING-START")), p.flowLevel = 0), 1),
            Mere("KEY", p.mark))

(* The KEY token goes to where the simple key began, and a mapping that the  *)
(* key opens goes before it.                                                 *)
KeyBegan(p, key) ==
    Allow(SetTopKey(RollIndent(yamlInsertToken(p, key.tokenNumber - p.tokensParsed, Mere("KEY", key.mark)),
                               key.mark.column, key.tokenNumber, "BLOCK-MAPPING-START", key.mark),
                    [key EXCEPT !.possible = FALSE]),
          FALSE)
FetchValue(p) ==
    Produce(skip(IF TopKey(p).possible THEN KeyBegan(p, TopKey(p))
                 ELSE Allow(Opened(p, "BLOCK-MAPPING-START"), p.flowLevel = 0), 1),
            Mere("VALUE", p.mark))

-----------------------------------------------------------------------------
(* Comments.  ytt added this list to the scanner: annotations and template   *)
(* code are comments.  Comments behind a directive or the header of a block  *)
(* scalar are stepped over (SkipRest) and not on the list.                   *)

FetchComment(p) ==
    [skip(p, ToLineEnd(p)) EXCEPT !.comments = Append(@, [mark |-> p.mark, data |-> Tail(read(p, ToLineEnd(p)))])]

Spaces(p) == Run(p, IF p.flowLevel > 0 \/ ~p.simpleKeyAllowed THEN BlankChars ELSE {" "})
PastComment(p) == IF Here(p) = "#" THEN FetchComment(p) ELSE p
RECURSIVE ScanToNextToken(_)
AtLineBreak(p) ==
    IF isBreak(Here(p)) THEN ScanToNextToken(skipLine(Allow(p, p.simpleKeyAllowed \/ p.flowLevel = 0)))
    ELSE p
ScanToNextToken(p) == AtLineBreak(PastComment(skip(p, Spaces(p))))

PastHash(p) == IF Here(p) = "#" THEN skip(p, ToLineEnd(p)) ELSE p
SkipRest(p) == PastHash(skip(p, Blanks(p)))
EndLine(p) == skipLine(FailIf(~isBreakz(Here(p)), p, "did not find expected comment or line break"))

-----------------------------------------------------------------------------
(* Directives.                                                               *)

maxNumberLength == 2
DigitsAhead(p) == Run(p, Digits)
BadVersion(p) == DigitsAhead(p) \notin 1 .. maxNumberLength
Version(p) == Number(read(p, DigitsAhead(p)), 10)

ScanDirectiveEnd(p, token) == Produce(EndLine(SkipRest(p)), token)
ScanMinor(p, start, major) ==
    IF BadVersion(p) THEN Fail(p, "found a bad version number")
    ELSE ScanDirectiveEnd(skip(p, DigitsAhead(p)),
                          Token("VERSION-DIRECTIVE", start, <<major, Version(p)>>, "none"))
ScanVersionDirectiveValue(p, start) ==
    IF BadVersion(p) \/ At(p, DigitsAhead(p)) # "." THEN Fail(p, "found a bad version number")
    ELSE ScanMinor(skip(p, DigitsAhead(p) + 1), start, Version(p))

(* A tag handle is "!", "!name!" or, where it is not a handle after all, the *)
(* first part "!name" of a tag.                                              *)
HandleName(p) == 1 + Alphas(skip(p, 1))
HandleLength(p) == IF At(p, HandleName(p)) = "!" THEN HandleName(p) + 1 ELSE HandleName(p)
BadHandle(p, directive) ==
    Here(p) # "!" \/ (directive /\ At(p, HandleName(p)) # "!" /\ HandleName(p) # 1)

URIChars == AlphaChars \cup ToSet(Chars(";/?:@&=+$,.!~*'()[]"))
(* An escaped character: %XX for each octet of its UTF-8 encoding. *)
Octet(p, k) == 16 * asHex(At(p, 3 * k + 1)) + asHex(At(p, 3 * k + 2))
IsOctet(p, k) == At(p, 3 * k) = "%" /\ isHex(At(p, 3 * k + 1)) /\ isHex(At(p, 3 * k + 2))
BadEscape(p) ==
    \/ ~IsOctet(p, 0)
    \/ width(Octet(p, 0)) = 0
    \/ \E k \in 1 .. width(Octet(p, 0)) - 1 : ~IsOctet(p, k) \/ Octet(p, k) \div 64 # 2
RECURSIVE Trailing(_, _)
Trailing(p, k) == IF k = 0 THEN 0 ELSE (Octet(p, k) % 64) + (64 * Trailing(p, k - 1))
RECURSIVE Power64(_)
Power64(n) == IF n = 0 THEN 1 ELSE 64 * Power64(n - 1)
Escaped(p, w) ==
    (Octet(p, 0) % (CASE w = 1 -> 128 [] w = 2 -> 32 [] w = 3 -> 16 [] OTHER -> 8)) * Power64(w - 1)
        + Trailing(p, w - 1)
RECURSIVE ScanTagURI(_, _)
ScanTagURI(p, s) ==
    CASE Here(p) \in URIChars -> ScanTagURI(skip(p, 1), Append(s, Here(p)))
      [] Here(p) = "%" /\ BadEscape(p) -> [p |-> Fail(p, "did not find URI escaped octet"), s |-> s]
      [] Here(p) = "%" /\ ~BadEscape(p) ->
            ScanTagURI(skip(p, 3 * width(Octet(p, 0))),
                       Append(s, CharOf(Escaped(p, width(Octet(p, 0))))))
      [] OTHER -> [p |-> p, s |-> s]
NoURI(uri, start) == uri.p.mark.index = start.mark.index

ScanTagPrefix(uri, from, handle, start) ==
    ScanDirectiveEnd(FailIf(NoURI(uri, from) \/ ~isBlankz(Here(uri.p)), uri.p, "did not find expected tag URI"),
                     Token("TAG-DIRECTIVE", start, <<handle, uri.s>>, "none"))
ScanAfterHandle(p, handle, start) ==
    IF ~isBlank(Here(p)) THEN Fail(p, "did not find expected whitespace")
    ELSE ScanTagPrefix(ScanTagURI(skip(p, Blanks(p)), <<>>), skip(p, Blanks(p)), handle, start)
ScanTagDirectiveValue(p, start) ==
    IF BadHandle(p, TRUE) THEN Fail(p, "did not find expected '!'")
    ELSE ScanAfterHandle(skip(p, HandleLength(p)), read(p, HandleLength(p)), start)

ScanDirective(p, name, start) ==
    CASE name = <<>> \/ ~isBlankz(Here(p)) -> Fail(p, "could not find expected directive name")
      [] name = Chars("YAML") /\ isBlankz(Here(p)) ->
            ScanVersionDirectiveValue(skip(p, Blanks(p)), start)
      [] name = Chars("TAG") /\ isBlankz(Here(p)) ->
            ScanTagDirectiveValue(skip(p, Blanks(p)), start)
      [] OTHER -> Fail(p, "found unknown directive name")
ScanDirectiveName(p, start) == ScanDirective(skip(p, Alphas(p)), read(p, Alphas(p)), start)
FetchDirective(p) == ScanDirectiveName(skip(Reset(p), 1), p.mark)

-----------------------------------------------------------------------------
(* Anchors, aliases and tags.                                                *)

ScanAnchor(p, typ, start) ==
    Produce(FailIf(\/ Alphas(p) = 0
                   \/ LET c == At(p, Alphas(p)) IN ~(isBlankz(c) \/ c \in {"?", ":", ",", "]", "}", "%", "@", "grave"}),
                   skip(p, Alphas(p)), "did not find expected alphabetic or numeric character"),
            Token(typ, start, read(p, Alphas(p)), "none"))
FetchAnchor(p, typ) == ScanAnchor(skip(Allow(SaveSimpleKey(p), FALSE), 1), typ, p.mark)

TagEnd(p, handle, suffix, start) ==
    Produce(FailIf(~isBlankz(Here(p)), p, "did not find expected whitespace or line break"),
            Token("TAG", start, <<handle, suffix>>, "none"))
ScanVerbatim(uri, from, start) ==
    TagEnd(skip(FailIf(NoURI(uri, from) \/ Here(uri.p) # ">", uri.p, "did not find the expected '>'"), 1),
           <<>>, uri.s, start)
ScanSuffix(uri, from, handle, start) ==
    TagEnd(FailIf(NoURI(uri, from), uri.p, "did not find expected tag URI"), handle, uri.s, start)
ScanShorthand(uri, start) ==
    IF uri.s = <<>> THEN TagEnd(uri.p, <<>>, <<"!">>, start) ELSE TagEnd(uri.p, <<"!">>, uri.s, start)
ScanTag(p, handle, start) ==
    CASE At(p, 1) = "<" -> ScanVerbatim(ScanTagURI(skip(p, 2), <<>>), skip(p, 2), start)
      [] At(p, 1) # "<" /\ Len(handle) > 1 /\ Last(handle) = "!" ->
            ScanSuffix(ScanTagURI(skip(p, Len(handle)), <<>>), skip(p, Len(handle)), handle, start)
      [] OTHER -> ScanShorthand(ScanTagURI(skip(p, Len(handle)), Tail(handle)), start)
FetchTag(p) == ScanTag(Allow(SaveSimpleKey(p), FALSE), read(p, HandleLength(p)), p.mark)

-----------------------------------------------------------------------------
(* Block scalars: the header's indicators in either order, then lines of at  *)
(* least the indentation that the header or the first line gives.            *)

IsChomp(c) == c \in {"+", "-"}
HeaderLength(p) ==
    CASE \/ IsChomp(Here(p)) /\ isDigit(At(p, 1))
         \/ isDigit(Here(p)) /\ IsChomp(At(p, 1)) -> 2
      [] \/ IsChomp(Here(p)) /\ ~isDigit(At(p, 1))
         \/ isDigit(Here(p)) /\ ~IsChomp(At(p, 1)) -> 1
      [] OTHER -> 0
Increment(header) == IF \E c \in header : isDigit(c) THEN asDigit(CHOOSE c \in header : isDigit(c)) ELSE 0

(* indent = 0: not known yet *)
IndentSpaces(p, indent) ==
    IF indent = 0 THEN Run(p, {" "})
    ELSE Max({0, Min({Run(p, {" "}), indent - p.mark.column})})
RECURSIVE BreaksFrom(_, _, _, _)
ScanBlockScalarBreaks(p, indent, breaks, maxIndent) ==
    BreaksFrom(skip(p, IndentSpaces(p, indent)), indent, breaks, maxIndent)
BreaksFrom(p, indent, breaks, maxIndent) ==
    CASE isBreak(Here(p)) ->
            ScanBlockScalarBreaks(skipLine(p), indent, breaks \o readLine(p), Max({maxIndent, p.mark.column}))
      [] isTab(Here(p)) /\ (indent = 0 \/ p.mark.column < indent) ->
            [p |-> Fail(p, "found a tab character where an indentation space is expected"),
             indent |-> indent, breaks |-> breaks]
      [] OTHER ->
            [p |-> p, breaks |-> breaks,
             indent |-> IF indent > 0 THEN indent ELSE Max({maxIndent, p.mark.column, p.indent + 1, 1})]

(* The break before a line, as it is copied: folded into a space or dropped  *)
(* before further breaks, unless the scalar is literal or either line starts *)
(* with a blank.                                                             *)
BreakBefore(b, literal, leadingBreak, leadingBlank) ==
    IF ~literal /\ ~leadingBlank /\ ~isBlank(Here(b.p)) /\ leadingBreak # <<>> /\ Head(leadingBreak) = "\n"
    THEN IF b.breaks = <<>> THEN <<" ">> ELSE <<>>
    ELSE leadingBreak
RECURSIVE BlockLines(_, _, _, _, _)
BlockLines(b, literal, s, leadingBreak, leadingBlank) ==
    IF b.p.error # "none" \/ b.p.mark.column # b.indent \/ isZ(Here(b.p))
    THEN [p |-> b.p, s |-> s, leadingBreak |-> leadingBreak, trailingBreaks |-> b.breaks]
    ELSE BlockLines(ScanBlockScalarBreaks(skipLine(skip(b.p, ToLineEnd(b.p))), b.indent, <<>>, 0),
                    literal,
                    s \o BreakBefore(b, literal, leadingBreak, leadingBlank) \o b.breaks
                      \o read(b.p, ToLineEnd(b.p)),
                    readLine(skip(b.p, ToLineEnd(b.p))),
                    isBlank(Here(b.p)))
Chomped(l, header) ==
    l.s \o (IF "-" \in header THEN <<>> ELSE l.leadingBreak)
        \o (IF "+" \in header THEN l.trailingBreaks ELSE <<>>)
BlockScalarToken(l, header, style, start) == Produce(l.p, Token("SCALAR", start, Chomped(l, header), style))
ScanBlockScalar(p, header, style, start) ==
    BlockScalarToken(
        BlockLines(ScanBlockScalarBreaks(
                       EndLine(SkipRest(FailIf("0" \in header, p, "found an indentation indicator equal to 0"))),
                       IF Increment(header) = 0 THEN 0 ELSE Max({p.indent, 0}) + Increment(header),
                       <<>>, 0),
                   style = "literal", <<>>, <<>>, FALSE),
        header, style, start)
BlockHeader(p, style, start) ==
    ScanBlockScalar(skip(p, HeaderLength(p)), ToSet(read(p, HeaderLength(p))), style, start)
FetchBlockScalar(p, style) == BlockHeader(skip(Allow(RemoveSimpleKey(p), TRUE), 1), style, p.mark)

-----------------------------------------------------------------------------
(* White space inside of quoted and plain scalars.  lines: leadingBlanks of  *)
(* the code, a line was left; lead, trail: the first break and the others.   *)

White(p, lines) == [p |-> p, spaces |-> <<>>, lead |-> <<>>, trail |-> <<>>, lines |-> lines]
RECURSIVE ConsumeWhite(_, _)
ConsumeWhite(w, indent) ==
    CASE isTab(Here(w.p)) /\ w.lines /\ w.p.mark.column < indent ->
            [w EXCEPT !.p = Fail(@, "found a tab character that violates indentation")]
      [] isBlank(Here(w.p)) /\ ~(isTab(Here(w.p)) /\ w.lines /\ w.p.mark.column < indent) ->
            ConsumeWhite([w EXCEPT !.p = skip(@, 1),
                                   !.spaces = IF w.lines THEN @ ELSE Append(@, Here(w.p))], indent)
      [] isBreak(Here(w.p)) ->
            ConsumeWhite([w EXCEPT !.p = skipLine(@), !.spaces = IF w.lines THEN @ ELSE <<>>, !.lines = TRUE,
                                   !.lead = IF w.lines THEN @ ELSE readLine(w.p),
                                   !.trail = IF w.lines THEN @ \o readLine(w.p) ELSE @], indent)
      [] OTHER -> w
Joined(w) ==
    CASE ~w.lines -> w.spaces
      [] w.lines /\ w.lead = <<"\n">> -> IF w.trail = <<>> THEN <<" ">> ELSE w.trail
      [] OTHER -> w.lead \o w.trail

-----------------------------------------------------------------------------
(* Quoted scalars.                                                           *)

Escapes == [c \in {"0", "a", "b", "t", "\t", "n", "v", "f", "r", "e", " ", "\"", "'", "\\", "N", "_", "L", "P"} |->
    CASE c = "0" -> Z [] c = "a" -> "x07" [] c = "b" -> "x08" [] c \in {"t", "\t"} -> "\t" [] c = "n" -> "\n"
      [] c = "v" -> "x0B" [] c = "f" -> "x0C" [] c = "r" -> "\r" [] c = "e" -> "ESC"
      [] c = "N" -> "NEL" [] c = "_" -> "NBSP" [] c = "L" -> "LS" [] c = "P" -> "PS" [] OTHER -> c]
CodeLength(c) == CASE c = "x" -> 2 [] c = "u" -> 4 [] c = "U" -> 8 [] OTHER -> 0
Code(p, n) == Number(read(skip(p, 2), n), 16)
BadCode(p, n) ==
    \/ n = 0
    \/ \E k \in 2 .. n + 1 : ~isHex(At(p, k))
    \/ Code(p, n) \in 55296 .. 57343 \/ Code(p, n) > 1114111
EscapeLength(p) == 2 + CodeLength(At(p, 1))
EscapedChar(p) == IF At(p, 1) \in DOMAIN Escapes THEN Escapes[At(p, 1)] ELSE CharOf(Code(p, CodeLength(At(p, 1))))
RightQuote(p, single) ==
    IF single THEN Here(p) = "'" /\ At(p, 1) # "'" ELSE Here(p) = "\""

RECURSIVE FlowChars(_, _, _)
FlowChars(p, s, single) ==
    CASE isBlankz(Here(p)) \/ RightQuote(p, single) -> [s |-> s, w |-> White(p, FALSE)]
      [] single /\ Here(p) = "'" /\ At(p, 1) = "'" -> FlowChars(skip(p, 2), Append(s, "'"), single)
      [] ~single /\ Here(p) = "\\" /\ isBreak(At(p, 1)) -> [s |-> s, w |-> White(skipLine(skip(p, 1)), TRUE)]
      [] ~single /\ Here(p) = "\\" /\ ~isBreak(At(p, 1)) ->
            IF At(p, 1) \notin DOMAIN Escapes /\ BadCode(p, CodeLength(At(p, 1)))
            THEN [s |-> s, w |-> White(Fail(p, "found unknown escape character"), FALSE)]
            ELSE FlowChars(skip(p, EscapeLength(p)), Append(s, EscapedChar(p)), single)
      [] OTHER -> FlowChars(skip(p, 1), Append(s, Here(p)), single)
RECURSIVE ScanFlowScalar(_, _, _)
FlowScalarToken(p, s, single, start) ==
    Produce(skip(p, 1), Token("SCALAR", start, s, IF single THEN "single-quoted" ELSE "double-quoted"))
FlowRest(w, s, single, start) == ScanFlowScalar(w.p, s \o Joined(w), <<single, start>>)
FlowWord(f, single, start) ==
    CASE f.w.p.error # "none" -> f.w.p
      [] f.w.p.error = "none" /\ Here(f.w.p) = (IF single THEN "'" ELSE "\"") ->
            FlowScalarToken(f.w.p, f.s, single, start)
      [] OTHER -> FlowRest(ConsumeWhite(f.w, -1), f.s, single, start)
ScanFlowScalar(p, s, q) ==
    CASE DocumentIndicator(p, "-") \/ DocumentIndicator(p, ".") -> Fail(p, "found unexpected document indicator")
      [] isZ(Here(p)) -> Fail(p, "found unexpected end of stream")
      [] OTHER -> FlowWord(FlowChars(p, s, q[1]), q[1], q[2])
FetchFlowScalar(p, single) == ScanFlowScalar(skip(Allow(SaveSimpleKey(p), FALSE), 1), <<>>, <<single, p.mark>>)

-----------------------------------------------------------------------------
(* Plain scalars.                                                            *)

PlainStops(p, k) ==
    \/ isBlankz(At(p, k))
    \/ At(p, k) = ":" /\ isBlankz(At(p, k + 1))
    \/ p.flowLevel > 0 /\ At(p, k) \in {",", "?", "[", "]", "{", "}"}
PlainWord(p) == CHOOSE n \in 0 .. Len(p.text) : PlainStops(p, n) /\ \A k \in 0 .. n - 1 : ~PlainStops(p, k)
PlainToken(w, s, start) ==
    Produce(Allow(w.p, w.p.simpleKeyAllowed \/ w.lines), Token("SCALAR", start, s, "plain"))
RECURSIVE ScanPlainScalar(_, _, _)
PlainRest(w, s, start) ==
    IF w.p.error # "none" \/ (w.p.flowLevel = 0 /\ w.p.mark.column < w.p.indent + 1)
    THEN PlainToken(w, s, start) ELSE ScanPlainScalar(w, s, start)
PlainWhite(w, s, start) ==
    IF isBlank(Here(w.p)) \/ isBreak(Here(w.p)) THEN PlainRest(ConsumeWhite(w, w.p.indent + 1), s, start)
    ELSE PlainToken(w, s, start)
ScanPlainScalar(w, s, start) ==
    CASE DocumentIndicator(w.p, "-") \/ DocumentIndicator(w.p, ".") \/ Here(w.p) = "#" -> PlainToken(w, s, start)
      [] ~(DocumentIndicator(w.p, "-") \/ DocumentIndicator(w.p, ".") \/ Here(w.p) = "#") /\ PlainWord(w.p) = 0 ->
            PlainWhite(w, s, start)
      [] OTHER -> PlainWhite(White(skip(w.p, PlainWord(w.p)), FALSE),
                             s \o Joined(w) \o read(w.p, PlainWord(w.p)), start)
FetchPlainScalar(p) == ScanPlainScalar(White(Allow(SaveSimpleKey(p), FALSE), FALSE), <<>>, p.mark)

-----------------------------------------------------------------------------
(* The dispatcher.  q is the record where the next token starts.             *)

PlainStart(q) ==
    \/ ~isBlankz(Here(q)) /\ Here(q) \notin {"-", "?", ":", ",", "[", "]", "{", "}", "#", "&", "*", "!",
                                             "|", ">", "'", "\"", "%", "@", "grave"}
    \/ Here(q) = "-" /\ ~isBlank(At(q, 1))
    \/ q.flowLevel = 0 /\ Here(q) \in {"?", ":"} /\ ~isBlankz(At(q, 1))
Dispatch(q) ==
    LET c == Here(q)
        indicator == q.flowLevel > 0 \/ isBlankz(At(q, 1))
    IN  IF q.error # "none" THEN q
        ELSE CASE isZ(c) -> FetchStreamEnd(q)
               [] c = "%" /\ q.mark.column = 0 -> FetchDirective(q)
               [] DocumentIndicator(q, "-") -> FetchDocumentIndicator(q, "DOCUMENT-START")
               [] DocumentIndicator(q, ".") -> FetchDocumentIndicator(q, "DOCUMENT-END")
               [] c = "[" -> FetchFlowCollectionStart(q, "FLOW-SEQUENCE-START")
               [] c = "{" -> FetchFlowCollectionStart(q, "FLOW-MAPPING-START")
               [] c = "]" -> FetchFlowCollectionEnd(q, "FLOW-SEQUENCE-END")
               [] c = "}" -> FetchFlowCollectionEnd(q, "FLOW-MAPPING-END")
               [] c = "," -> FetchFlowEntry(q)
               [] c = "-" /\ isBlankz(At(q, 1)) -> FetchBlockEntry(q)
               [] c = "?" /\ indicator -> FetchKey(q)
               [] c = ":" /\ indicator -> FetchValue(q)
               [] c = "*" -> FetchAnchor(q, "ALIAS")
               [] c = "&" -> FetchAnchor(q, "ANCHOR")
               [] c = "!" -> FetchTag(q)
               [] c = "|" /\ q.flowLevel = 0 -> FetchBlockScalar(q, "literal")
               [] c = ">" /\ q.flowLevel = 0 -> FetchBlockScalar(q, "folded")
               [] c = "'" -> FetchFlowScalar(q, TRUE)
               [] c = "\"" -> FetchFlowScalar(q, FALSE)
               [] OTHER -> IF PlainStart(q) THEN FetchPlainScalar(q)
                           ELSE Fail(q, "found character that cannot start any token")
ToNextToken(p) == StaleSimpleKeys(ScanToNextToken(p))
Unrolled(q) == UnrollIndent(q, q.mark.column)
FetchNextToken(p) ==
    IF ~p.streamStartProduced THEN FetchStreamStart(p) ELSE Dispatch(Unrolled(ToNextToken(p)))

(* FetchMoreTokens loops while this holds: the queue is empty, or its head   *)
(* may still turn out to be the start of a simple key.                       *)
NeedMoreTokens(p) ==
    \/ p.tokens = <<>>
    \/ \E i \in DOMAIN p.simpleKeys : p.simpleKeys[i].possible /\ p.simpleKeys[i].tokenNumber = p.tokensParsed
FetchMoreTokens(p) == StaleSimpleKeys(FetchNextToken(p))

NewScanner(text) ==
    [text |-> text, mark |-> [index |-> 0, line |-> 0, column |-> 0],
     streamStartProduced |-> FALSE, tokens |-> <<>>, tokensParsed |-> 0,
     simpleKeys |-> <<>>, simpleKeyAllowed |-> FALSE, flowLevel |-> 0,
     indent |-> 0, indents |-> <<>>, comments |-> <<>>,
     error |-> "none", errorLine |-> 0]
====
