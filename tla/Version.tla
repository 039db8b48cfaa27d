------------------------------ MODULE Version ------------------------------
(***************************************************************************)
(* internal/config/version.go: version texts and their order.              *)
(*                                                                         *)
(* strings.Split cuts a text at "." into fields and a field at "-" into    *)
(* pieces, so a text is a sequence of sequences of pieces here.  strconv   *)
(* is a constant: what it makes of a field, and of a number.               *)
(***************************************************************************)
EXTENDS Integers, Sequences

CONSTANTS Piece,     \* texts without "." and "-"
          Empty,     \* the one of length 0
          ParseInt,  \* what a field is as a number of 32 bits, or Error
          Decimal,   \* the digits of a natural number
          Error

Fields == Seq(Piece) \ {<<>>}
Texts == Seq(Fields) \ {<<>>}
NoText == << <<Empty>> >>

MaxInt32 == 2147483647

Versions == [Major : Int, Minor : Int, Patch : Int, Special : Texts]

-----------------------------------------------------------------------------

\* Only the third field may have a special part, which ends at its second "-".
HasSpecial(text) == Len(text) > 2 /\ Len(text[3]) > 1

Number(text, i) ==
  IF Len(text) < i THEN 0
  ELSE ParseInt[IF i = 3 /\ HasSpecial(text) THEN <<text[3][1]>> ELSE text[i]]

\* The first number that does not parse ends it; what was parsed before stays in
\* the version, which the code returns with the error.
ParseVersion(text) ==
  LET failed(i) == \E j \in 1..i : Number(text, j) = Error
      number(i) == IF failed(i) THEN 0 ELSE Number(text, i)
  IN [version |-> [Major |-> number(1), Minor |-> number(2), Patch |-> number(3),
                   Special |-> IF HasSpecial(text) /\ ~failed(2)
                               THEN << <<text[3][2]>> >> ELSE NoText],
      ok |-> ~failed(3)]

\* For versions of natural numbers; a negative one is written with a "-".
String(v) ==
  LET patch == <<Decimal[v.Patch]>>
      core == << <<Decimal[v.Major]>>, <<Decimal[v.Minor]>> >>
  IN IF v.Special = NoText THEN Append(core, patch)
     ELSE Append(core, patch \o Head(v.Special)) \o Tail(v.Special)

IsGreaterThan(v, o) ==
  \/ v.Major > o.Major
  \/ v.Major = o.Major /\ v.Minor > o.Minor
  \/ v.Major = o.Major /\ v.Minor = o.Minor /\ v.Patch > o.Patch

IsSmallerThan(v, o) ==
  \/ v.Major < o.Major
  \/ v.Major = o.Major /\ v.Minor < o.Minor
  \/ v.Major = o.Major /\ v.Minor = o.Minor /\ v.Patch < o.Patch

IsEqual(v, o) ==
  v.Major = o.Major /\ v.Minor = o.Minor /\ v.Patch = o.Patch /\ v.Special = o.Special
=============================================================================
