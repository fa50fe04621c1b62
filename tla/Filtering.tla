------------------------------ MODULE Filtering ------------------------------
(***************************************************************************)
(* The elements of a sequence that belong to a set, in the order in which  *)
(* the sequence has them: a Go loop that appends some of the elements of a *)
(* slice to a new one.  A recursive function, so that facts about it can   *)
(* be proved by induction on the length of the sequence.                   *)
(***************************************************************************)
EXTENDS Integers, Sequences

\* What the loop has collected after n elements of s.
Collected(s, S) ==
  LET result[n \in 0 .. Len(s)] ==
        IF n = 0 THEN << >>
        ELSE IF s[n] \in S THEN Append(result[n - 1], s[n])
        ELSE result[n - 1]
  IN  result

Filter(s, S) == Collected(s, S)[Len(s)]

==============================================================================
