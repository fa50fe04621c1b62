-------------------------- MODULE MCYamlRoundTrip --------------------------
(* YamlRoundTrip on short strings in every position of small documents.      *)
EXTENDS YamlRoundTrip

CONSTANTS StringLimit
Symbols == {"a", "1", " ", "\n", ":", "#", "-", "'", "\"", "~", "\t", "NEL", "LS", "{", ",", "!", "?", "e-acute"}
Curated == {"", "yes", "null", "1.5", "1e3", "0x1", "1:20", "---", "...", "- a", "a: b", "a #b", "=", "\\", "*a",
            "a\nb", "a\n\n", "a\n b", " a\nb\n", "\n\na", "a\n\n\nb\n", "a \nb", "2001-01-01", "%a", "@", "|", "&a", "]", ".5", "+1", "1_000", "0b1", "0b-1"}
LineSymbols == {"a", " ", "\n", ":", "#", "-", "'", "LS"}
Strings == [1 .. StringLimit + 1 -> LineSymbols] \cup UNION {[1 .. n -> Symbols] : n \in 1 .. StringLimit} \cup {Chars(s) : s \in Curated}

Scalar(tag, value) == [kind |-> "scalar", tag |-> tag, value |-> value]
S(s) == Scalar("str", s)
NullValue == Scalar("null", <<>>)
Scalars == {S(s) : s \in Strings} \cup {NullValue, Scalar("bool", TRUE), Scalar("int", -12), Scalar("float", Chars("1.5"))}
A == S(<<"a">>)
B == S(<<"b">>)
Map1(k, v) == [kind |-> "map", items |-> <<[key |-> k, value |-> v]>>]
Map2(k, v, l, w) == [kind |-> "map", items |-> <<[key |-> k, value |-> v], [key |-> l, value |-> w]>>]
Arr(vs) == [kind |-> "array", items |-> [i \in DOMAIN vs |-> [value |-> vs[i]]]]
Doc(v) == [value |-> v, injected |-> FALSE]
Empty == Arr(<<>>)
EmptyMap == [kind |-> "map", items |-> <<>>]

Around(s) == {s, Arr(<<s, Arr(<<s, A>>), Empty>>), Map2(B, Map1(s, Arr(<<s>>)), S(<<"c">>), s),
              Arr(<<Map2(s, EmptyMap, S(<<"z">>), Map1(B, s))>>)}
MCDocumentSets ==
    UNION {{<<Doc(v)>> : v \in Around(s)} \cup {<<Doc(s), Doc(Map1(s, s))>>} : s \in Scalars}
      \cup {<<[Doc(A) EXCEPT !.injected = TRUE], Doc(Empty), Doc(NullValue), Doc(B), Doc(EmptyMap)>>, <<Doc(Empty)>>,
            <<Doc(Map1(A, S(<<"<", "<">>)))>>}
MCFiles == {<<>>}
=============================================================================
