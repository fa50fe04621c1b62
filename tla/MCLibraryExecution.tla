------------------------- MODULE MCLibraryExecution -------------------------
(* A root library with two private libraries, each of which has its own.    *)
EXTENDS LibraryDelivery

MCPath == {"a", "b"}
MCAlias == {"x"}
MCLibrary == {"root", "a", "b", "ab"}

NoPaths == [p \in {} |-> "root"]
MCPrivate == [root |-> [a |-> "a", b |-> "b"], a |-> [b |-> "ab"],
              b |-> [a |-> "ab"], ab |-> NoPaths]

R(path, alias) == [path |-> path, alias |-> alias]
D(address, after) == [address |-> address, after |-> after]

\* root declares values for "@a@b", and for "@~x" on top of what the library
\* module passes; library a declares values for itself and for "@b".
MCDataValueDocs ==
  [root |-> <<D(<<R("a", ""), R("b", "")>>, FALSE), D(<<R("", "x")>>, TRUE)>>,
   a    |-> <<D(<< >>, FALSE), D(<<R("b", "")>>, FALSE)>>,
   b    |-> << >>,
   ab   |-> <<D(<< >>, FALSE)>>]

MCFlagValues == <<D(<<R("a", ""), R("b", "")>>, FALSE)>>

NoSchemas == [l \in MCLibrary |-> << >>]

\* root declares a schema for "@a@b", which also has one of its own.  Library b
\* declares one for "@a": when root evaluates b, the schemas for libraries below b
\* are that one and, after it, a nil one in place of root's.
SchemaForChild == [NoSchemas EXCEPT !["root"] = <<D(<<R("a", ""), R("b", "")>>, FALSE)>>,
                                    !["b"] = <<D(<<R("a", "")>>, FALSE)>>,
                                    !["ab"] = <<D(<< >>, FALSE)>>]

\* Templates get library a, and not b, with validations disabled.
MCSkipOptions == [p \in MCPath \cup {""} |-> {p = "a"}]

=============================================================================
