-------------------------- MODULE OutputDirectory --------------------------
(***************************************************************************)
(* The output of a run: pkg/files/output_directory.go, output_file.go, and *)
(* RegularFilesSource.Output, which hands them the output files once the   *)
(* whole run has succeeded.                                                *)
(*                                                                         *)
(* Every operation on the file system may fail.  The process may also stop *)
(* at any step, which needs no action: properties hold in every state.     *)
(***************************************************************************)
EXTENDS Integers, Sequences

CONSTANTS Path,  \* paths of output files
          Data   \* contents of output files

\* file: the number of the input file that an output file is the result of.
OutputFile == [path : Path, file : Nat \ {0}, docs : Data]

Whole(o) == [of |-> o.file, docs |-> o.docs]
Part(o) == [of |-> 0, docs |-> o.docs]   \* some beginning of the data
Old == -1                                \* in place of the number: was there before

VARIABLES dest,    \* where the output goes
          old,     \* what the output directory holds before the run
          phase,   \* "evaluating", "output", "mkdir", "writing", "done"; "refused" if the
                   \* run ends with an error before it writes, "broken" if later
          out,     \* the output files, in order
          written, \* how many of them are created
          dir      \* the output directory: a function from paths to contents

outputVars == <<dest, old, phase, out, written, dir>>

\* dest: --dangerous-emptied-output-directory, the same with a path like "/" or ".",
\* --output-files, or none of them.
OutputInit ==
  /\ dest \in {"emptied", "suspicious", "added", "stdout"}
  /\ old = [p \in DOMAIN old |-> old[p]] /\ DOMAIN old \subseteq Path
  /\ \A p \in DOMAIN old : old[p].of = Old
  /\ phase = "evaluating" /\ out = << >> /\ written = 0 /\ dir = old

\* The run before the output: it gives the output files, or an error.
Evaluated ==
  /\ phase = "evaluating"
  /\ \/ phase' = "refused" /\ UNCHANGED out
     \/ phase' = "output" /\ out' \in Seq(OutputFile)
  /\ UNCHANGED <<dest, old, written, dir>>

\* An unknown output format is an error.
ToStdout ==
  phase = "output" /\ dest = "stdout" /\ phase' \in {"done", "refused"} /\ UNCHANGED dir

\* WriteFiles into a directory that is not emptied.
Add == phase = "output" /\ dest = "added" /\ phase' = "mkdir" /\ UNCHANGED dir

SameDestination == \E i, j \in DOMAIN out : i # j /\ out[i].path = out[j].path

\* RemoveAll may stop at any file.
RemoveAll ==
  \/ dir' = [p \in {} |-> dir[p]] /\ phase' = "mkdir"
  \/ \E kept \in SUBSET DOMAIN dir : dir' = [p \in kept |-> dir[p]] /\ phase' = "broken"

\* Mutant: the directory is removed before the paths are compared.
WriteUnchecked ==
  /\ phase = "output" /\ dest \in {"emptied", "suspicious"}
  /\ IF dest = "suspicious" THEN phase' = "refused" /\ UNCHANGED dir
     ELSE IF SameDestination THEN phase' = "refused" /\ dir' = [p \in {} |-> dir[p]] ELSE RemoveAll

Write ==
  /\ phase = "output" /\ dest \in {"emptied", "suspicious"}
  /\ IF SameDestination \/ dest = "suspicious" THEN phase' = "refused" /\ UNCHANGED dir
                                               ELSE RemoveAll

MkdirAll == phase = "mkdir" /\ phase' \in {"writing", "broken"} /\ UNCHANGED dir

Put(path, content) ==
  [p \in DOMAIN dir \cup {path} |-> IF p = path THEN content ELSE dir[p]]

\* The next file is truncated, or made, and written: an error leaves what was there,
\* or a part of the new file.
Create ==
  /\ phase = "writing" /\ written < Len(out)
  /\ LET o == out[written + 1]
     IN  \/ dir' = Put(o.path, Whole(o)) /\ written' = written + 1 /\ UNCHANGED phase
         \/ dir' \in {dir, Put(o.path, Part(o))} /\ phase' = "broken" /\ UNCHANGED written
  /\ UNCHANGED <<dest, old, out>>

EndWrite ==
  /\ phase = "writing" /\ written = Len(out) /\ phase' = "done"
  /\ UNCHANGED <<dest, old, out, written, dir>>

WriteOutput ==
  \/ (ToStdout \/ Add \/ Write \/ MkdirAll) /\ UNCHANGED <<dest, old, out, written>>
  \/ Create \/ EndWrite

OutputSpec == OutputInit /\ [][Evaluated \/ WriteOutput]_outputVars

-----------------------------------------------------------------------------

\* A run that fails before it writes leaves the directory as it was; a directory that
\* is emptied never has old files beside new ones, even if a step of writing fails; and
\* one that is not keeps its other files (RegularFilesSource.Output).
OldOrNew ==
  /\ phase \in {"evaluating", "output", "refused"} => dir = old
  /\ dest \in {"suspicious", "stdout"} => dir = old
  /\ LET kept == {p \in DOMAIN dir : dir[p].of = Old}
     IN  /\ dest = "emptied" => kept \in {{}, DOMAIN dir}
         /\ dest = "added" => DOMAIN old \ kept \subseteq {out[i].path : i \in DOMAIN out}

\* After a run the directory has every output file whole, of two with the same path
\* the last one; if it is emptied, all paths differ, and it has nothing else.
HoldsOutput ==
  phase = "done" /\ dest \in {"emptied", "added"} =>
    /\ \A i \in DOMAIN out :
         \/ dir[out[i].path] = Whole(out[i])
         \/ dest = "added" /\ \E j \in i + 1 .. Len(out) : out[j].path = out[i].path
    /\ DOMAIN dir = {out[i].path : i \in DOMAIN out} \cup (IF dest = "added" THEN DOMAIN old ELSE {})

=============================================================================
