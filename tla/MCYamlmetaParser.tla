-------------------------- MODULE MCYamlmetaParser --------------------------
(* YamlmetaParser on every text of a few chunks.                             *)
EXTENDS YamlmetaParser

CONSTANTS MaxChunks
Chunks == {"a", "b: ", "- ", "? ", "\n", "  ", "[", "]", "{", "}", ", ", ": ", "&x ", "*x", "#c\n", "---\n", "...\n",
           "<<: ", "'", "\"", "\\x", "|\n", ">-\n", "!!int ", "1"}
Concat(chunks) == FlattenSeq([i \in DOMAIN chunks |-> Chars(chunks[i])])
AllChunks(n) == UNION {[1 .. m -> Chunks] : m \in 1 .. n}
(* Shorter runs of chunks in the middle of collections and documents. *)
Frames == {"- a\n", "k:\n- ", "{a: ", "[a, ", "? a\n", "--- #c\na: 1\n", "a: &x {b: 1}\n"}
Endings == {"", "\nz: 1\n"}
Framed == {<<frame>> \o chunks \o <<ending>> : frame \in Frames, chunks \in AllChunks(MaxChunks - 1), ending \in Endings}
(* The constructs that are longer than that. *)
Longer == {"%YAML 1.1\n---\na\n", "%YAML 1.1\n%YAML 1.1\n---\n", "%YAML 2.1\n---\n", "%TAG ! tag:a,%41:\n---\n!b 1\n",
           "%TAG !e! tag:e:\n---\n!e!b 1\n", "%FOO x #c\n--- a\n", "!<tag:yaml.org,2002:int> 1\n", "!!str 1\n", "!e!b 1\n",
           "\"\\x41\\u0041\\n\\\n  b\"\n", "\"\\xZZ\"", "\"\\q\"", "'a''b'", "'a\n\n b'", "a\n b\n\n c\n",
           "|2-\n   a\n  b\n\n", ">+1\n a\n b\n\n", "|0\n a", ">\n a\n  b\n c\n", "|\n\ta\n",
           "a: &x {b: *x}\n", "a: &x [1, 2]\n<<: *x\n", "a: &x {b: 1}\n<<: [*x]\n", "a: &x {b: 1}\n<<: *x\nc: 2\n",
           "a\n...\n...\n", "a\n...\n#c\n", "a: 1\n---\n#c\nb: 2 #c\n", "- #c\n  - a #c\n  -\n", "? - a\n: - b\n", "{? a : b, c, : d}\n",
           "[a: b, ? c : d, ? ]\n", "aaaaaaaaa: b\n", "- - a\n - b\n", "&x !!str a\n", "!!str &x a\n", "[a: ]\n", "@", "a: b: c\n", "a\nb: c\n"}
(* Breaks of every kind before an item, a comment and a document. *)
Broken == {Chars("- 'a") \o <<b>> \o Chars("b'\n") \o Chars(rest) :
             b \in BreakChars, rest \in {"", "- c", "#c", "--- c", "- c\n\n"}} \cup {Chars("a:\r\n- b\r\n- c")}
MCFiles == {Concat(chunks) : chunks \in AllChunks(MaxChunks) \cup Framed} \cup {Chars(text) : text \in Longer} \cup Broken
(* --strict, and what it reads otherwise. *)
Doubtful == {"a: yes\n", "- ~\n-\n", "a b\n", "a:b\n", "01\n", "-12\n", "1.5\n", ".5\n", "1e3\n", "0x1\n", "0b-1\n", "true\n", "!!bool yes\n",
             "'a b'\n", "a---\n", "{a: 1, b}\n", "2001-01-01\n"}
MCStrictFiles == {Concat(chunks) : chunks \in AllChunks(MaxChunks - 1)} \cup {Chars(text) : text \in Doubtful}

Begins(i) == [kind |-> nodes[open[i]].kind, holds |-> Len(OthersOf(nodes, nodes[open[i]]))]
Events == INSTANCE YamlEvents WITH
    stream <- IF parser.error # "none" THEN "failed" ELSE IF status = "parsed" THEN "closed" ELSE "open",
    begun <- IF parser.error # "none" THEN <<>> ELSE [i \in DOMAIN open |-> Begins(i)]
EventsSpec == Events!Spec
=============================================================================
