----------------------- MODULE OutputDirectory_proofs -----------------------
(* For every list of output files, every directory and every step that fails: *)
(* what a run leaves in the output directory.                                 *)
EXTENDS OutputDirectory, TLAPS

Before == {"evaluating", "output", "refused"}
Writing == {"mkdir", "writing", "done"}

TypeInv ==
  /\ dest \in {"emptied", "suspicious", "added", "stdout"}
  /\ phase \in Before \cup Writing \cup {"broken"}
  /\ out \in Seq(OutputFile) /\ written \in Nat /\ written <= Len(out)

Paths(n) == {out[i].path : i \in 1 .. n}

\* A step that may fail is before the first change, or the directory is written.
Untouched ==
  /\ phase \in Before => dir = old /\ written = 0
  /\ dest \in {"suspicious", "stdout"} => dir = old /\ phase \in Before \cup {"done"}
  /\ phase = "mkdir" => written = 0
  /\ \A p \in DOMAIN old : old[p].of = Old

\* What is left of the old files.
Emptied ==
  dest = "emptied" =>
    /\ phase \in Writing => \A p \in DOMAIN dir : dir[p].of # Old
    /\ phase \in Writing => \A i, j \in 1 .. Len(out) : i # j => out[i].path # out[j].path
    /\ phase = "broken" => \/ \A p \in DOMAIN dir : dir[p].of # Old
                           \/ \A p \in DOMAIN dir : dir[p].of = Old
Added ==
  dest = "added" =>
    \A p \in DOMAIN old : \/ p \in DOMAIN dir /\ dir[p].of = Old
                          \/ p \in Paths(Len(out))

\* The files that are created so far.
Created ==
  phase \in Writing /\ dest \in {"emptied", "added"} =>
    /\ DOMAIN dir = Paths(written) \cup (IF dest = "added" THEN DOMAIN old ELSE {})
    /\ \A i \in 1 .. written : \/ dir[out[i].path] = Whole(out[i])
                               \/ \E j \in i + 1 .. written : out[j].path = out[i].path
    /\ phase = "done" => written = Len(out)

IInv == TypeInv /\ Untouched /\ Emptied /\ Added /\ Created

-----------------------------------------------------------------------------

\* An output file is not an old one, whole or in part.
LEMMA NewIsNotOld == \A o \in OutputFile : Whole(o).of # Old /\ Part(o).of # Old
BY DEF OutputFile, Whole, Part, Old

\* The next output file that Create writes.
LEMMA NextFile ==
  ASSUME TypeInv, written < Len(out)
  PROVE  /\ written + 1 \in 1 .. Len(out)
         /\ out[written + 1] \in OutputFile
         /\ Paths(written + 1) = Paths(written) \cup {out[written + 1].path}
         /\ out[written + 1].path \in Paths(Len(out))
<1>1. written + 1 \in 1 .. Len(out) /\ out[written + 1] \in OutputFile
  BY DEF TypeInv
<1>2. 1 .. written + 1 = (1 .. written) \cup {written + 1}
  BY DEF TypeInv
<1>3. Paths(written + 1) = Paths(written) \cup {out[written + 1].path}
  BY <1>2, Zenon DEF Paths
<1> QED BY <1>1, <1>3, Zenon DEF Paths

\* A run starts with the directory as it was.
LEMMA InitInv == OutputInit => IInv
BY DEF OutputInit, IInv, TypeInv, Untouched, Emptied, Added, Created, Before, Writing, Paths

\* Evaluation does not touch the directory.
LEMMA EvaluatedInv == IInv /\ Evaluated => IInv'
<1> SUFFICES ASSUME IInv, Evaluated PROVE IInv'
  OBVIOUS
<1>1. phase' \in Before /\ out' \in Seq(OutputFile) /\ dir' = old' /\ written' = 0
      /\ dest' = dest /\ old' = old
  BY DEF Evaluated, IInv, TypeInv, Untouched, Before
<1>2. TypeInv'
  BY <1>1 DEF IInv, TypeInv
<1>3. Untouched' /\ Emptied' /\ Created'
  BY <1>1 DEF IInv, Untouched, Emptied, Created, Before, Writing
<1>4. Added'
  BY <1>1 DEF IInv, Added, Untouched
<1> QED BY <1>2, <1>3, <1>4 DEF IInv

\* Printing, and starting to write into a directory that is not emptied.
LEMMA StartInv ==
  ASSUME IInv, ToStdout \/ Add, UNCHANGED <<dest, old, out, written>>
  PROVE  IInv'
<1>1. /\ dir' = old' /\ dir' = dir /\ written' = 0
      /\ dest' = dest /\ old' = old /\ out' = out
      /\ \/ phase' \in {"done", "refused"} /\ dest = "stdout"
         \/ phase' = "mkdir" /\ dest = "added"
  BY DEF ToStdout, Add, IInv, Untouched, Before
<1>2. TypeInv' /\ Untouched' /\ Emptied'
  BY <1>1 DEF IInv, TypeInv, Untouched, Emptied, Before, Writing
<1>3. Added'
  BY <1>1 DEF IInv, Added, Untouched
<1>4. {out'[i].path : i \in 1 .. written'} = {} /\ 1 .. written' = {}
  BY <1>1
<1>5. Created'
  BY <1>1, <1>4 DEF Created, Writing, Paths
<1> QED BY <1>2, <1>3, <1>5 DEF IInv

\* Write refuses, or empties the directory and leaves no old file, or stops before.
LEMMA WriteInv ==
  ASSUME IInv, Write, UNCHANGED <<dest, old, out, written>>
  PROVE  IInv'
<1>1. dir = old /\ written = 0 /\ dest \in {"emptied", "suspicious"} /\ phase = "output"
  BY DEF Write, IInv, Untouched, Before
<1>2. CASE phase' = "refused" /\ dir' = dir
  BY <1>1, <1>2 DEF IInv, TypeInv, Untouched, Emptied, Added, Created, Before, Writing
<1>3. CASE ~SameDestination /\ dest = "emptied" /\ RemoveAll
  <2>1. \A i, j \in 1 .. Len(out) : i # j => out[i].path # out[j].path
    BY <1>3 DEF SameDestination, IInv, TypeInv
  <2>2. CASE phase' = "mkdir" /\ dir' = [p \in {} |-> dir[p]]
    <3>1. {out'[i].path : i \in 1 .. written'} = {} /\ 1 .. written' = {}
      BY <1>1
    <3>2. DOMAIN dir' = {}
      BY <2>2
    <3> QED BY <1>1, <1>3, <2>1, <2>2, <3>1, <3>2
              DEF IInv, TypeInv, Untouched, Emptied, Added, Created, Before, Writing, Paths
  <2>3. CASE phase' = "broken" /\ \E kept \in SUBSET DOMAIN dir : dir' = [p \in kept |-> dir[p]]
    <3>1. \A p \in DOMAIN dir' : dir'[p].of = Old
      BY <1>1, <2>3 DEF IInv, Untouched
    <3> QED BY <1>1, <1>3, <2>3, <3>1
              DEF IInv, TypeInv, Untouched, Emptied, Added, Created, Before, Writing
  <2> QED BY <1>3, <2>2, <2>3 DEF RemoveAll
<1> QED BY <1>1, <1>2, <1>3 DEF Write

\* Making the directory changes no file.
LEMMA MkdirAllInv ==
  ASSUME IInv, MkdirAll, UNCHANGED <<dest, old, out, written>>
  PROVE  IInv'
<1>1. phase = "mkdir" /\ phase' \in {"writing", "broken"} /\ dir' = dir
      /\ dest \in {"emptied", "added"}
  BY DEF MkdirAll, IInv, TypeInv, Untouched, Before
<1>2. TypeInv' /\ Untouched'
  BY <1>1 DEF IInv, TypeInv, Untouched, Before, Writing
<1>3. Emptied' /\ Added'
  BY <1>1 DEF IInv, Emptied, Added, Writing, Paths
<1>4. Created'
  BY <1>1 DEF IInv, Created, Writing, Paths
<1> QED BY <1>2, <1>3, <1>4 DEF IInv

\* Create replaces one path, by a new file or a part of one.
LEMMA CreateInv == IInv /\ Create => IInv'
<1> SUFFICES ASSUME IInv, Create PROVE IInv'
  OBVIOUS
<1> DEFINE o == out[written + 1]
<1>1. /\ phase = "writing" /\ written < Len(out) /\ dest \in {"emptied", "added"}
      /\ dest' = dest /\ old' = old /\ out' = out
  BY DEF Create, IInv, TypeInv, Untouched, Before
<1>2. /\ written + 1 \in 1 .. Len(out) /\ o \in OutputFile
      /\ Paths(written + 1) = Paths(written) \cup {o.path} /\ o.path \in Paths(Len(out))
  BY <1>1, NextFile DEF IInv
<1>3. Whole(o).of # Old /\ Part(o).of # Old
  BY <1>2, NewIsNotOld
<1>4. \A n : {out'[i].path : i \in 1 .. n} = Paths(n)
  BY <1>1, Zenon DEF Paths
<1>5. CASE dir' = Put(o.path, Whole(o)) /\ written' = written + 1 /\ phase' = phase
  <2>1. /\ DOMAIN dir' = DOMAIN dir \cup {o.path} /\ dir'[o.path] = Whole(o)
        /\ \A p \in DOMAIN dir : p # o.path => dir'[p] = dir[p]
    BY <1>5 DEF Put
  <2>2. TypeInv' /\ Untouched'
    BY <1>1, <1>2, <1>5 DEF IInv, TypeInv, Untouched, Before
  <2>3. Emptied'
    BY <1>1, <1>3, <1>5, <2>1 DEF IInv, Emptied, Writing
  <2>4. Added'
    BY <1>1, <1>2, <2>1 DEF IInv, Added, Paths
  <2>5. DOMAIN dir' = {out'[i].path : i \in 1 .. written'}
                        \cup (IF dest' = "added" THEN DOMAIN old' ELSE {})
    <3>1. DOMAIN dir = Paths(written) \cup (IF dest = "added" THEN DOMAIN old ELSE {})
      BY <1>1 DEF IInv, Created, Writing
    <3>2. {out'[i].path : i \in 1 .. written'} = Paths(written) \cup {o.path}
      BY <1>2, <1>4, <1>5, Zenon
    <3> QED BY <1>1, <2>1, <3>1, <3>2
  <2>6. ASSUME NEW i \in 1 .. written'
        PROVE  \/ dir'[out'[i].path] = Whole(out'[i])
               \/ \E j \in i + 1 .. written' : out'[j].path = out'[i].path
    <3>1. CASE i = written + 1
      BY <1>1, <2>1, <3>1
    <3>2. CASE i # written + 1 /\ out[i].path = o.path
      <4>1. written + 1 \in i + 1 .. written'
        BY <1>5, <2>6, <3>2 DEF IInv, TypeInv
      <4> QED BY <1>1, <3>2, <4>1
    <3>3. CASE i # written + 1 /\ out[i].path # o.path
      <4>1. i \in 1 .. written /\ i + 1 .. written \subseteq i + 1 .. written'
        BY <1>5, <2>6, <3>3 DEF IInv, TypeInv
      <4>2. out[i].path \in DOMAIN dir
        BY <1>1, <4>1 DEF IInv, Created, Writing, Paths
      <4>3. \/ dir[out[i].path] = Whole(out[i])
            \/ \E j \in i + 1 .. written : out[j].path = out[i].path
        BY <1>1, <4>1 DEF IInv, Created, Writing
      <4> QED BY <1>1, <2>1, <3>3, <4>1, <4>2, <4>3
    <3> QED BY <3>1, <3>2, <3>3
  <2>7. Created'
    BY <1>1, <1>5, <2>5, <2>6 DEF Created, Paths, Whole
  <2> QED BY <2>2, <2>3, <2>4, <2>7 DEF IInv
<1>6. CASE dir' \in {dir, Put(o.path, Part(o))} /\ phase' = "broken" /\ written' = written
  <2>1. \/ dir' = dir
        \/ /\ DOMAIN dir' = DOMAIN dir \cup {o.path} /\ dir'[o.path] = Part(o)
           /\ \A p \in DOMAIN dir : p # o.path => dir'[p] = dir[p]
    BY <1>6 DEF Put
  <2>2. TypeInv' /\ Untouched' /\ Created'
    BY <1>1, <1>6 DEF IInv, TypeInv, Untouched, Created, Before, Writing
  <2>3. Emptied'
    BY <1>1, <1>3, <1>6, <2>1 DEF IInv, Emptied, Writing
  <2>4. Added'
    BY <1>1, <1>2, <2>1 DEF IInv, Added, Paths
  <2> QED BY <2>2, <2>3, <2>4 DEF IInv
<1> QED BY <1>5, <1>6 DEF Create

\* The end of writing: all files are created.
LEMMA EndWriteInv == IInv /\ EndWrite => IInv'
<1> SUFFICES ASSUME IInv, EndWrite PROVE IInv'
  OBVIOUS
<1>1. /\ phase = "writing" /\ phase' = "done" /\ written = Len(out)
      /\ UNCHANGED <<dest, old, out, written, dir>>
  BY DEF EndWrite
<1>2. TypeInv' /\ Untouched'
  BY <1>1 DEF IInv, TypeInv, Untouched, Before, Writing
<1>3. Emptied' /\ Added'
  BY <1>1 DEF IInv, Emptied, Added, Writing, Paths
<1>4. Created'
  BY <1>1 DEF IInv, Created, Writing, Paths
<1> QED BY <1>2, <1>3, <1>4 DEF IInv

\* No step of a run breaks the invariant.
LEMMA StepInv == IInv /\ [Evaluated \/ WriteOutput]_outputVars => IInv'
<1> SUFFICES ASSUME IInv, [Evaluated \/ WriteOutput]_outputVars PROVE IInv'
  OBVIOUS
<1>1. CASE Evaluated
  BY <1>1, EvaluatedInv
<1>2. CASE (ToStdout \/ Add \/ Write \/ MkdirAll) /\ UNCHANGED <<dest, old, out, written>>
  BY <1>2, StartInv, WriteInv, MkdirAllInv
<1>3. CASE Create
  BY <1>3, CreateInv
<1>4. CASE EndWrite
  BY <1>4, EndWriteInv
<1>5. CASE UNCHANGED outputVars
  BY <1>5 DEF outputVars, IInv, TypeInv, Untouched, Emptied, Added, Created, Paths
<1> QED BY <1>1, <1>2, <1>3, <1>4, <1>5 DEF WriteOutput

\* A run that fails before it writes leaves the directory as it was, and one that
\* fails later never leaves old files beside new ones in a directory that is emptied,
\* nor loses another file of one that is not (OutputDirectory.Write, WriteFiles).
THEOREM NeverMixesOldAndNew == OutputSpec => []OldOrNew
<1>1. IInv => OldOrNew
  <2> SUFFICES ASSUME IInv PROVE OldOrNew
    OBVIOUS
  <2> DEFINE kept == {p \in DOMAIN dir : dir[p].of = Old}
  <2>1. DOMAIN out = 1 .. Len(out)
    BY DEF IInv, TypeInv
  <2>2. phase \in Before => dir = old
    BY DEF IInv, Untouched
  <2>3. dest \in {"suspicious", "stdout"} => dir = old
    BY DEF IInv, Untouched
  <2>4. ASSUME dest = "emptied" PROVE kept \in {{}, DOMAIN dir}
    <3>1. \/ \A p \in DOMAIN dir : dir[p].of # Old
          \/ \A p \in DOMAIN dir : dir[p].of = Old
      BY <2>4 DEF IInv, TypeInv, Emptied, Untouched
    <3> QED BY <3>1, Zenon
  <2>5. ASSUME dest = "added" PROVE DOMAIN old \ kept \subseteq {out[i].path : i \in DOMAIN out}
    BY <2>1, <2>5 DEF IInv, Added, Paths
  <2> QED BY <2>2, <2>3, <2>4, <2>5 DEF OldOrNew, Before
<1> QED BY <1>1, InitInv, StepInv, PTL DEF OutputSpec

\* A run that ends well leaves every output file whole in the directory, of two with
\* one path the last, and nothing else if the directory was emptied.
THEOREM LeavesTheOutput == OutputSpec => []HoldsOutput
<1>1. IInv => HoldsOutput
  <2> SUFFICES ASSUME IInv, phase = "done", dest \in {"emptied", "added"} PROVE HoldsOutput
    BY DEF HoldsOutput
  <2>1. DOMAIN out = 1 .. Len(out) /\ written = Len(out)
    BY DEF IInv, TypeInv, Created, Writing
  <2>2. DOMAIN dir = {out[i].path : i \in DOMAIN out} \cup (IF dest = "added" THEN DOMAIN old ELSE {})
    BY <2>1 DEF IInv, Created, Writing, Paths
  <2>3. \A i \in DOMAIN out : \/ dir[out[i].path] = Whole(out[i])
                              \/ \E j \in i + 1 .. Len(out) : out[j].path = out[i].path
    BY <2>1 DEF IInv, Created, Writing
  <2>4. dest = "emptied" => \A i, j \in DOMAIN out : i # j => out[i].path # out[j].path
    BY <2>1 DEF IInv, Emptied, Writing
  <2>5. \A i \in DOMAIN out : \A j \in i + 1 .. Len(out) : j \in DOMAIN out /\ i # j
    BY <2>1 DEF IInv, TypeInv
  <2>6. \A i \in DOMAIN out :
          \/ dir[out[i].path] = Whole(out[i])
          \/ dest = "added" /\ \E j \in i + 1 .. Len(out) : out[j].path = out[i].path
    BY <2>3, <2>4, <2>5
  <2> QED BY <2>2, <2>6 DEF HoldsOutput
<1> QED BY <1>1, InitInv, StepInv, PTL DEF OutputSpec

=============================================================================
