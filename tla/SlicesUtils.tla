---------------------------- MODULE SlicesUtils ----------------------------
(***************************************************************************)
(* internal/utils/slicesutils/slicesutils.go: slices of strings.  A slice  *)
(* shares its array with its caller, so a function that writes gives, next *)
(* to its result, what the caller's slice has become.                      *)
(***************************************************************************)
EXTENDS Integers, Sequences, FiniteSets

CONSTANT Str

Slices == Seq(Str)
Slots(s) == 1..Len(s)

-----------------------------------------------------------------------------

Contains(s, e) == \E k \in Slots(s) : s[k] = e

\* Indices count from 0 in the code, slots from 1.
Find(s, e) ==
  IF Contains(s, e)
  THEN (CHOOSE k \in Slots(s) : s[k] = e /\ \A j \in 1..k-1 : s[j] # e) - 1
  ELSE -1

\* It panics when i is not an index of s.
Remove(s, i) ==
  LET array == [s EXCEPT ![i + 1] = s[Len(s)]]
  IN [caller |-> array, result |-> SubSeq(array, 1, Len(s) - 1)]

RemoveString(s, e) ==
  IF Find(s, e) >= 0 THEN Remove(s, Find(s, e)) ELSE [caller |-> s, result |-> s]
============================================================================
