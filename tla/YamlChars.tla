----------------------------- MODULE YamlChars -----------------------------
(* The characters of YAML text and their classes (yamlprivateh.go).  Text is *)
(* a sequence of characters; a character is a string, of one symbol for the  *)
(* ASCII ones and of a name for the others.                                  *)
EXTENDS Integers, Sequences, SequencesExt

Z == "NUL"       \* what the reader puts behind the end of the text
BOM == "BOM"
Digits == {"0", "1", "2", "3", "4", "5", "6", "7", "8", "9"}
Chars(s) == [i \in 1 .. Len(s) |-> SubSeq(s, i, i)]
Letters == ToSet(Chars("abcdefghijklmnopqrstuvwxyzABCDEFGHIJKLMNOPQRSTUVWXYZ"))
Controls == {"x01", "x07", "x08", "\t", "x0B", "x0C", "\r", "ESC"}
Wide == {"NEL", "LS", "PS", "NBSP", "U+FFFE", "e-acute"}

AlphaChars == Digits \cup Letters \cup {"_", "-"}
isAlpha(c) == c \in AlphaChars
isDigit(c) == c \in Digits
asDigit(c) == CHOOSE n \in 0 .. 9 : c = ToString(n)
HexLetters == <<"a", "b", "c", "d", "e", "f">>
HexCapitals == <<"A", "B", "C", "D", "E", "F">>
isHex(c) == c \in Digits \cup ToSet(HexLetters) \cup ToSet(HexCapitals)
asHex(c) == IF isDigit(c) THEN asDigit(c)
            ELSE 9 + (CHOOSE n \in 1 .. 6 : c \in {HexLetters[n], HexCapitals[n]})
isSpace(c) == c = " "
isTab(c) == c = "\t"
BlankChars == {" ", "\t"}
BreakChars == {"\r", "\n", "NEL", "LS", "PS"}
isBlank(c) == c \in BlankChars
isBreak(c) == c \in BreakChars
isZ(c) == c = Z
isBreakz(c) == isBreak(c) \/ isZ(c)
isBlankz(c) == isBlank(c) \/ isBreakz(c)
(* Printable and not escaped in a double-quoted scalar; non-ASCII letters   *)
(* are, since the encoder sets emitter.unicode.                             *)
isPrintable(c) == c \notin Controls \cup {Z, BOM, "NEL", "U+FFFE"}

(* Code points, of the characters that escapes can stand for. *)
CodePoint ==
    [c \in Controls \cup Wide \cup {Z, BOM, "\n", " ", "\"", "\\"} |->
        CASE c = Z -> 0 [] c = "x01" -> 1 [] c = "x07" -> 7 [] c = "x08" -> 8 [] c = "\t" -> 9
          [] c = "\n" -> 10 [] c = "x0B" -> 11 [] c = "x0C" -> 12 [] c = "\r" -> 13
          [] c = "ESC" -> 27 [] c = " " -> 32 [] c = "\"" -> 34 [] c = "\\" -> 92
          [] c = "NEL" -> 133 [] c = "NBSP" -> 160 [] c = "e-acute" -> 233
          [] c = "LS" -> 8232 [] c = "PS" -> 8233 [] c = BOM -> 65279 [] c = "U+FFFE" -> 65534]

CharOf(v) ==
    IF \E c \in DOMAIN CodePoint : CodePoint[c] = v
    THEN CHOOSE c \in DOMAIN CodePoint : CodePoint[c] = v
    ELSE ToString(v)

(* The number of octets of a UTF-8 sequence, from its first one. *)
width(octet) == CASE octet < 128 -> 1
                  [] octet \div 32 = 6 -> 2
                  [] octet \div 16 = 14 -> 3
                  [] octet \div 8 = 30 -> 4
                  [] OTHER -> 0

(* How many characters of the text from place i on are in the set, or not   *)
(* in it.                                                                    *)
InSet(text, i, set) == (CHOOSE k \in i .. Len(text) + 1 :
                            /\ k = Len(text) + 1 \/ text[k] \notin set
                            /\ \A j \in i .. k - 1 : text[j] \in set) - i
NotInSet(text, i, set) == (CHOOSE k \in i .. Len(text) + 1 :
                            /\ k = Len(text) + 1 \/ text[k] \in set
                            /\ \A j \in i .. k - 1 : text[j] \notin set) - i

(* Digits as a number, in base 10 or 16. *)
RECURSIVE Number(_, _)
Number(digits, base) ==
    IF digits = <<>> THEN 0 ELSE base * Number(Front(digits), base) + asHex(Last(digits))
=============================================================================
