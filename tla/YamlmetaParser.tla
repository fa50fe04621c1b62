--------------------------- MODULE YamlmetaParser ---------------------------
(* yamlmeta's Parser (parser.go): it calls Decode until the stream ends,     *)
(* gives every item its line in the file, and gives every comment (an        *)
(* annotation or a piece of template code) to the document, map item or      *)
(* array item that it stands on or above.                                    *)
EXTENDS YamlDecoder

CONSTANTS Files,          \* the texts of the files that are parsed
          StrictFiles     \* those parsed with --strict
ASSUME FilesAssumption == Files # {}

(* tick changes with every step of the parse, so that a step that changes    *)
(* nothing else is told from no step at all.                                 *)
VARIABLES correction, docSet, unassigned, status, tick
yamlmetaVars == <<correction, docSet, unassigned, status>>
vars == <<parserVars, decoderVars, yamlmetaVars, tick>>

-----------------------------------------------------------------------------
(* ParseBytes: a text without a document marker is given one, and the line   *)
(* numbers are corrected for it.                                             *)

IsSpaceChar(c) == c \in {" ", "\t", "\n", "\r"}
SpaceRun(text) == InSet(text, 1, {" ", "\t", "\n", "\r"})
startsWithDocMarker(text) ==
    /\ Len(text) > SpaceRun(text) + 3 /\ IsSpaceChar(text[SpaceRun(text) + 4])
    /\ SubSeq(text, SpaceRun(text) + 1, SpaceRun(text) + 3) = <<"-", "-", "-">>
Marked(text) == IF startsWithDocMarker(text) THEN text ELSE <<"-", "-", "-", "\n">> \o text
nodeLineCorrection(text) == IF startsWithDocMarker(text) THEN 1 ELSE 0
errLineCorrection == correction - 1

Parses(text, strict) == /\ parser = newDecoder(Marked(text), strict)
                        /\ correction = nodeLineCorrection(text)
Init == /\ \/ \E text \in Files : Parses(text, FALSE)
           \/ \E text \in StrictFiles : Parses(text, TRUE)
        /\ event = NoEvent
        /\ nodes = <<>> /\ open = <<>> /\ anchors = NoAnchors
        /\ docSet = <<>> /\ unassigned = <<>> /\ status = "decoding" /\ tick = FALSE

-----------------------------------------------------------------------------
(* The items of a document's value, outermost first, with their lines in the *)
(* file (parse, buildLineLocs).  A document's own line is 0 when it is not   *)
(* known.                                                                    *)

RECURSIVE ItemLines(_)
ItemsFrom(items) == FlattenSeq([i \in DOMAIN items |-> <<items[i].line + correction>> \o ItemLines(items[i].value)])
ItemLines(value) == IF value.kind = "scalar" THEN <<>> ELSE ItemsFrom(value.items)
newDocPosition(line) == line + correction
buildLineLocs(docLine, value) == <<docLine>> \o ItemLines(value)

(* Each position looks its line up in lines, which is the text split at "\n": *)
(* a panic if the scanner, which counts other breaks as well, is further on.   *)
LineCount(text) == Cardinality({i \in DOMAIN text : text[i] = "\n"}) + 1
BeyondLines(locs, comments) ==
    \E line \in ToSet(locs) \cup {comments[i].line : i \in DOMAIN comments} :
        line - correction >= LineCount(parser.text)
OutOfRange == "line out of range"

(* The owner of a comment among the lines of a document's nodes, as a place  *)
(* in that list; 0 if there is none.  A known line is at least 1.            *)
(* Mutant: a comment belongs to what is below it, never to what it stands behind. *)
OwnerLinesBelow(locs, line) == {l \in ToSet(locs) : l > 0 /\ l > line}
OwnerLines(locs, line) == {l \in ToSet(locs) : l > 0 /\ l >= line}
Owner(locs, line) ==
    CASE OwnerLines(locs, line) = {} -> 0
      [] line \in OwnerLines(locs, line) -> Max({i \in DOMAIN locs : locs[i] = line})
      [] OTHER -> Min({i \in DOMAIN locs : locs[i] = Min(OwnerLines(locs, line))})

(* The comments that a Decode left, with their lines in the file. *)
Comments == [i \in DOMAIN parser.comments |-> [line |-> parser.comments[i].mark.line + correction,
                                               data |-> parser.comments[i].data]]
assignComments(locs, comments) ==
    [i \in DOMAIN comments |-> [comment |-> comments[i], owner |-> Owner(locs, comments[i].line)]]
IsOwned(c) == c.owner # 0
NotOwned(c) == c.owner = 0

Document(docLine, value, carried, assigned) ==
    [line |-> docLine, value |-> value, injected |-> FALSE,
     locs |-> buildLineLocs(docLine, value),
     comments |-> [i \in DOMAIN carried |-> [comment |-> carried[i], owner |-> 1]]
                    \o SelectSeq(assigned, IsOwned)]
Leftover(assigned) == [i \in DOMAIN SelectSeq(assigned, NotOwned) |-> SelectSeq(assigned, NotOwned)[i].comment]

-----------------------------------------------------------------------------
(* The loop of parseBytes.  A document's end is the return of Decode and the *)
(* rest of the loop's body; the next Decode starts by forgetting the         *)
(* comments.                                                                 *)

Decoded(value, docLine, assigned) ==
    /\ docSet' = Append(docSet, Document(docLine, value, unassigned, assigned))
    /\ unassigned' = Leftover(assigned)
    /\ parser' = [parser EXCEPT !.comments = <<>>]
    /\ UNCHANGED status
DecodeFails(what) ==
    /\ parser' = FailAt(parser, what, 0)
    /\ UNCHANGED <<docSet, unassigned, status>>
DecodeEnds ==
    /\ event.typ = "DOCUMENT-END"
    /\ \E value \in {unmarshal(nodes, 1, {})}, docLine \in {newDocPosition(nodes[1].line)} :
            CASE value.kind = "failed" -> DecodeFails(value.what)
              [] value.kind # "failed" /\ BeyondLines(buildLineLocs(docLine, value), Comments) ->
                    DecodeFails(OutOfRange)
              [] OTHER -> Decoded(value, docLine, assignComments(buildLineLocs(docLine, value), Comments))
    /\ nodes' = <<>> /\ open' = <<>> /\ anchors' = NoAnchors
    /\ event' = NoEvent /\ UNCHANGED correction

(* io.EOF.  Comments that nothing owns become those of a last document that  *)
(* is not in the file, and the first document is said to start at line 1.    *)
EndDocument ==
    [line |-> 0, value |-> ScalarValue(Null), injected |-> TRUE, locs |-> <<0>>,
     comments |-> [i \in DOMAIN unassigned |-> [comment |-> unassigned[i], owner |-> 1]]]
WithEnd == IF unassigned = <<>> THEN docSet ELSE Append(docSet, EndDocument)
FirstAtLineOne(docs) == IF correction = 0 /\ docs[1].line = 0 THEN [docs EXCEPT ![1].line = 1] ELSE docs
EOF ==
    /\ event.typ = "STREAM-END"
    /\ docSet' = FirstAtLineOne(WithEnd) /\ status' = "parsed"
    /\ event' = NoEvent
    /\ UNCHANGED <<parser, decoderVars, correction, unassigned>>

(* correctLineNumInErr; line 0 is no line in the message. *)
ReturnsError ==
    /\ status = "decoding" /\ event = NoEvent /\ parser.error # "none"
    /\ status' = IF parser.error \in {"panic", OutOfRange} \/ (parser.errorLine # 0 /\ parser.errorLine + errLineCorrection <= 0)
                 THEN "panicked" ELSE "failed"
    /\ UNCHANGED <<parserVars, decoderVars, correction, docSet, unassigned>>

Goes == \/ (FetchTokens \/ StateMachine) /\ UNCHANGED <<decoderVars, yamlmetaVars>>
        \/ BuildTree /\ UNCHANGED yamlmetaVars
        \/ DecodeEnds
        \/ EOF
        \/ ReturnsError
Next == \/ Goes /\ tick' = ~tick
        \/ status # "decoding" /\ UNCHANGED vars

(* Weak fairness of Goes: while the parse goes on there always is a step.    *)
Spec == Init /\ [][Next]_vars /\ (<>[](status = "decoding") => []<><<TRUE>>_vars)

-----------------------------------------------------------------------------

(* No text makes the library panic: a KEY or BLOCK-MAPPING-START token is    *)
(* never put behind the end of the token queue (yamlInsertToken),            *)
(* the parser's stacks of states and marks never run empty (it pops what it  *)
(* pushed), an end event is that of the open collection (parse), a sequence  *)
(* has as many item lines as children (decoder.sequence), and a mapping as   *)
(* many values as keys (mappingSlice).  Nor does ytt's parser, when it looks *)
(* a position's line up, unless the text has a break that Split does not     *)
(* know; a carriage return before "\n" is not one.                           *)
OtherBreaks(text) ==
    {i \in DOMAIN text : /\ text[i] \in BreakChars \ {"\n"}
                         /\ ~(text[i] = "\r" /\ i < Len(text) /\ text[i + 1] = "\n")}
NoPanic == /\ parser.error # "panic"
           /\ parser.error = OutOfRange => OtherBreaks(parser.text) # {}

(* The lines of a node's children do not decrease, from the line of the node *)
(* on; each entry of a sequence has one item node, before it.  The lines of  *)
(* ytt's item nodes come from a field that the parser sets and the decoder   *)
(* clears (pendingSeqItemEvent): a left-over of an empty sequence must not   *)
(* get into another one.                                                     *)
ItemLinesInOrder ==
    \A n \in DOMAIN nodes :
        LET node == nodes[n]
            line(k) == nodes[node.children[k]].line
        IN  /\ \A k \in DOMAIN node.children : line(k) >= (IF k = 1 THEN node.line ELSE line(k - 1))
            /\ node.kind = "sequence" =>
                \A k \in DOMAIN node.children : (nodes[node.children[k]].kind = "item") <=> (k % 2 = 1)

(* A comment is owned by the node that the rule "on the same line, or else   *)
(* the next one below" picks in the whole stream, although the code looks at *)
(* one document at a time.  Comments below every node go to the document at  *)
(* the end.                                                                  *)
OwnerIsNext(d, c) ==
    LET owner == docSet[d].locs[c.owner]
    IN  /\ \A e \in 1 .. d - 1 : \A i \in DOMAIN docSet[e].locs : docSet[e].locs[i] < c.comment.line
        /\ docSet[d].injected \/ owner >= c.comment.line
        /\ \A i \in DOMAIN docSet[d].locs : docSet[d].locs[i] \notin c.comment.line .. owner - 1

(* Where the comments of a text are, from the text alone: at each '#' that   *)
(* starts a word.  For texts without quoted and block scalars, in which a    *)
(* '#' may be anything, and without "...", behind which the last comments of *)
(* a file are dropped (EOF does not look at them).                           *)
Hashes(text) == {i \in DOMAIN text : text[i] = "#"}
StartsWord(text, i) == i = 1 \/ isBlankz(text[i - 1])
IsPlainText(text) == /\ ToSet(text) \cap {"'", "\"", "|", ">", "!", "%"} = {}
                     /\ \A i \in 1 .. Len(text) - 2 : SubSeq(text, i, i + 2) # <<".", ".", ".">>
LineOf(text, i) == Cardinality({k \in 1 .. i - 1 : text[k] = "\n"}) + correction
CommentLines == UNION {{docSet[d].comments[k].comment.line : k \in DOMAIN docSet[d].comments} : d \in DOMAIN docSet}

(* Annotations reach the node they stand above.  Although the scanner reads  *)
(* ahead, and may find a comment of the next document before this one ends,  *)
(* each comment is owned by the next node of the stream, and when a file was *)
(* parsed the document set holds each of its comments, at the line where it  *)
(* is: none is lost between two Decodes.                                     *)
CommentsFindTheirNode ==
    /\ \A d \in DOMAIN docSet : \A k \in DOMAIN docSet[d].comments : OwnerIsNext(d, docSet[d].comments[k])
    /\ status = "parsed" /\ IsPlainText(parser.text) =>
        /\ CommentLines \subseteq {LineOf(parser.text, i) : i \in Hashes(parser.text)}
        /\ {LineOf(parser.text, i) : i \in {j \in Hashes(parser.text) : StartsWord(parser.text, j)}}
                \subseteq CommentLines

(* parser.go:53 says that the "YAML library uses 1-based line numbers for    *)
(* errors", and takes one off for the marker that it put before the text:    *)
(* the line of an error then is a line of the file, 1 or more, which is what *)
(* NewPosition asks for.  The library adds the 1 to the scanner's errors     *)
(* only (fail, decode.go), not to the parser's.                              *)
ErrorLinesOneBased ==
    parser.error # "none" /\ parser.errorLine # 0 => parser.errorLine + errLineCorrection >= 1

(* Every text is parsed or refused: neither the scanner's loops nor the      *)
(* parser's states go round without reading on.                              *)
Terminates == <>(status # "decoding")
=============================================================================
