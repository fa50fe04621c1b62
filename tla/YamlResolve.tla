---------------------------- MODULE YamlResolve ----------------------------
(* What a scalar's text stands for: resolve.go, and the stricter rules of    *)
(* strict_scalar_resolve.go that the option --strict turns on.  A resolved   *)
(* scalar is a tag and a value; a float and a timestamp keep their text as   *)
(* value, integers are small enough for TLC's.                               *)
EXTENDS YamlChars

Resolved(tag, value) == [tag |-> tag, value |-> value]
Str(in) == Resolved("str", in)
Null == Resolved("null", <<>>)
Unresolvable == Resolved("error", <<>>)

Words(list) == {Chars(list[i]) : i \in DOMAIN list}
TrueWords == Words(<<"y", "Y", "yes", "Yes", "YES", "true", "True", "TRUE", "on", "On", "ON">>)
FalseWords == Words(<<"n", "N", "no", "No", "NO", "false", "False", "FALSE", "off", "Off", "OFF">>)
NullWords == Words(<<"", "~", "null", "Null", "NULL">>)
FloatWords == Words(<<".nan", ".NaN", ".NAN", ".inf", ".Inf", ".INF", "+.inf", "+.Inf", "+.INF",
                      "-.inf", "-.Inf", "-.INF">>)

-----------------------------------------------------------------------------
(* Numbers and dates.                                                        *)

Signs == {"+", "-"}
Unsigned(s) == IF s # <<>> /\ Head(s) \in Signs THEN Tail(s) ELSE s
AllIn(s, set) == s # <<>> /\ ToSet(s) \subseteq set
Plain(in) == SelectSeq(in, LAMBDA c : c # "_")

(* strconv.ParseInt with base 0: 0x, 0o or 0, and 0b before the digits. *)
BaseOf(u) == CASE Len(u) > 1 /\ u[1] = "0" /\ u[2] \in {"x", "X"} -> 16
               [] Len(u) > 1 /\ u[1] = "0" /\ u[2] \in {"b", "B"} -> 2
               [] Len(u) > 1 /\ u[1] = "0" /\ u[2] \notin {"x", "X", "b", "B"} -> 8
               [] OTHER -> 10
DigitsOf(u) == IF BaseOf(u) = 10 THEN u
               ELSE SubSeq(u, IF isDigit(u[2]) THEN 2 ELSE 3, Len(u))
IsDigits(digits, base) == digits # <<>> /\ \A i \in DOMAIN digits : isHex(digits[i]) /\ asHex(digits[i]) < base
IsUnsigned(u) == /\ \A i \in DOMAIN u : u[i] \in AlphaChars
                 /\ BaseOf(u) = 8 => isDigit(u[2]) \/ u[2] \in {"o", "O"}
                 /\ IsDigits(DigitsOf(u), BaseOf(u))
IsInt(s) == IsUnsigned(Unsigned(s))
IntValue(s) == (IF s[1] = "-" THEN -1 ELSE 1) * Number(DigitsOf(Unsigned(s)), BaseOf(Unsigned(s)))

(* After "0b", strconv.ParseInt with base 2: a sign may be there. *)
IsSignedBinary(s) == /\ Len(s) > 3 /\ SubSeq(s, 1, 2) = <<"0", "b">> /\ s[3] \in Signs
                     /\ IsDigits(SubSeq(s, 4, Len(s)), 2)
SignedBinary(s) == (IF s[3] = "-" THEN -1 ELSE 1) * Number(SubSeq(s, 4, Len(s)), 2)

(* The regular expression of a float: digits, a point with digits on either  *)
(* side of it, an exponent.                                                  *)
Exponent(s) == /\ s # <<>> => s[1] \in {"e", "E"} /\ AllIn(Unsigned(Tail(s)), Digits)
DigitRun(s) == InSet(s, 1, Digits)
From(s, n) == SubSeq(s, n + 1, Len(s))
AfterPoint(s, least) == DigitRun(s) >= least /\ Exponent(From(s, DigitRun(s)))
AfterDigits(s) == IF s # <<>> /\ s[1] = "." THEN AfterPoint(Tail(s), 0) ELSE Exponent(s)
FloatDigits(s) == /\ s # <<>>
                  /\ IF s[1] = "." THEN AfterPoint(Tail(s), 1)
                     ELSE DigitRun(s) > 0 /\ AfterDigits(From(s, DigitRun(s)))
IsFloat(s) == FloatDigits(Unsigned(s))

(* parseTimestamp: four digits, "-", and one of the formats.  Of the formats *)
(* only the date is modelled; a time of day may follow it in the code.       *)
TwoDigits(s) == Len(s) \in 1 .. 2 /\ AllIn(s, Digits) /\ Number(s, 10) > 0
IsDate(rest, dash) == /\ TwoDigits(SubSeq(rest, 1, dash - 1)) /\ Number(SubSeq(rest, 1, dash - 1), 10) <= 12
                      /\ TwoDigits(From(rest, dash)) /\ Number(From(rest, dash), 10) <= 31
IsTimestamp(s) == /\ Len(s) > 5 /\ DigitRun(s) = 4 /\ s[5] = "-"
                  /\ \E dash \in 2 .. 3 : dash < Len(s) - 5 /\ s[5 + dash] = "-" /\ IsDate(From(s, 5), dash)

-----------------------------------------------------------------------------
(* resolve: the first character is a hint of what the text may be.           *)

Hint(in) == CASE in = <<>> -> "N"
              [] in # <<>> /\ Head(in) \in Signs -> "S"
              [] in # <<>> /\ Head(in) \in Digits -> "D"
              [] in # <<>> /\ Head(in) \in ToSet(Chars("yYnNtTfFoO~")) -> "M"
              [] in # <<>> /\ Head(in) = "." -> "."
              [] OTHER -> "none"
Quantity(in, plain) ==
    CASE IsInt(plain) -> Resolved("int", IntValue(plain))
      [] ~IsInt(plain) /\ IsFloat(plain) -> Resolved("float", plain)
      [] IsSignedBinary(plain) -> Resolved("int", SignedBinary(plain))
      [] OTHER -> Str(in)
Numeric(tag, in, plain) ==
    IF tag \in {"", "timestamp"} /\ IsTimestamp(in) THEN Resolved("timestamp", in) ELSE Quantity(in, plain)
Hinted(tag, in, hint) ==
    CASE hint = "none" -> Str(in)
      [] hint # "none" /\ in \in TrueWords -> Resolved("bool", TRUE)
      [] hint # "none" /\ in \in FalseWords -> Resolved("bool", FALSE)
      [] hint # "none" /\ in \in NullWords -> Null
      [] hint # "none" /\ in \in FloatWords -> Resolved("float", in)
      [] hint = "." /\ in \notin FloatWords -> IF FloatDigits(in) THEN Resolved("float", in) ELSE Str(in)
      [] hint \in {"D", "S"} /\ in \notin FloatWords -> Numeric(tag, in, Plain(in))
      [] OTHER -> Str(in)
resolvableTag(tag) == tag \in {"", "str", "bool", "int", "float", "null", "timestamp"}
(* The deferred check that the text is what its tag says. *)
AsTagged(tag, r) ==
    CASE tag \in {"", r.tag, "str"} -> r
      [] tag = "float" /\ r.tag = "int" -> Resolved("float", Chars(ToString(r.value)))
      [] OTHER -> Unresolvable
resolve(tag, in) ==
    CASE ~resolvableTag(tag) -> Resolved(tag, in)
      [] tag = "str" -> Str(in)
      [] OTHER -> AsTagged(tag, Hinted(tag, in, Hint(in)))

-----------------------------------------------------------------------------
(* strictScalarResolve: a second, conservative reading has to agree.         *)

StrictInt(u) == AllIn(u, Digits) /\ (Len(u) = 1 \/ u[1] # "0")
Minus(in) == IF in # <<>> /\ Head(in) = "-" THEN Tail(in) ELSE in
StrictFraction(s) == IF s # <<>> /\ s[1] = "." THEN AfterPoint(Tail(s), 1) ELSE Exponent(s)
StrictFloat(u) == StrictInt(SubSeq(u, 1, DigitRun(u))) /\ StrictFraction(From(u, DigitRun(u)))
HasDashes(in) == \E i \in 1 .. Len(in) - 2 : SubSeq(in, i, i + 2) = <<"-", "-", "-">>
strictScalarResolveConservative(in) ==
    CASE in = <<>> -> Null
      [] in = Chars("true") -> Resolved("bool", TRUE)
      [] in = Chars("false") -> Resolved("bool", FALSE)
      [] StrictInt(Minus(in)) -> Resolved("int", IntValue(in))
      [] StrictFloat(Minus(in)) /\ ~StrictInt(Minus(in)) -> Resolved("float", in)
      [] OTHER -> IF ToSet(in) \cap {" ", "\n", "\r", "\t", ":"} # {} \/ HasDashes(in) THEN Unresolvable ELSE Str(in)
Agreed(native, conservative) == IF native.tag = conservative.tag /\ native.value = conservative.value THEN native ELSE Unresolvable
strictScalarResolve(tag, in) ==
    IF tag # "" THEN resolve(tag, in) ELSE Agreed(resolve(tag, in), strictScalarResolveConservative(in))
=============================================================================
