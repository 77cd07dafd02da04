-------------------------- MODULE PackageVersions --------------------------
(***************************************************************************)
(* comparePackageVersions (internal/catalog/store.go), by which the store  *)
(* picks one of several publishers' releases of the same source.  No state.*)
(*                                                                         *)
(* A version is the sequence the loop moves along: each element is a whole *)
(* run of digits, with the number it spells, or one other character, with  *)
(* its byte.  Two runs are never adjacent.                                 *)
(***************************************************************************)
EXTENDS Integers, Sequences

Run(n) == [digits |-> TRUE, value |-> n]
Char(byte) == [digits |-> FALSE, value |-> byte]

Tilde == Char(126)

Elements == [digits : {TRUE}, value : Nat] \cup
            [digits : {FALSE}, value : 0 .. 255 \ 48 .. 57]

Versions == Seq(Elements)

\* Where byte order puts a run of digits: no other byte lies between "0" and "9".
Byte(x) == IF x.digits THEN 48 ELSE x.value

Sign(n) == IF n > 0 THEN 1 ELSE IF n < 0 THEN -1 ELSE 0

\* One turn of the loop: '~' before everything, two runs as numbers (leading
\* zeros trimmed, then by length, then digit by digit), all else by byte.
CompareElements(x, y) ==
  IF x = y                      THEN 0
  ELSE IF x = Tilde             THEN -1
  ELSE IF y = Tilde             THEN 1
  ELSE IF x.digits /\ y.digits  THEN Sign(x.value - y.value)
  ELSE Sign(Byte(x) - Byte(y))

\* The loop gets past the first i elements of both.
Agree(left, right, i) ==
  i <= Len(left) /\ i <= Len(right) /\ \A j \in 1 .. i : left[j] = right[j]

\* Where it stops: at a difference, or past the end of one of them.
Stop(left, right) ==
  CHOOSE i \in 1 .. Len(left) + 1 : Agree(left, right, i - 1) /\ ~Agree(left, right, i)

\* The end of a version is before anything that could follow, '~' included.
ComparePackageVersions(left, right) ==
  LET i == Stop(left, right)
  IN  IF i > Len(left) THEN IF i > Len(right) THEN 0 ELSE -1
      ELSE IF i > Len(right) THEN 1
      ELSE CompareElements(left[i], right[i])

-----------------------------------------------------------------------------
(* The order its comment describes, as a ranking of the elements. *)

Rank(x) ==
  IF x = Tilde           THEN <<0, 0>>
  ELSE IF x.digits       THEN <<2, x.value>>
  ELSE IF x.value < 48   THEN <<1, x.value>>
  ELSE <<3, x.value>>

RankedAfter(x, y) ==
  \/ Rank(x)[1] > Rank(y)[1]
  \/ Rank(x)[1] = Rank(y)[1] /\ Rank(x)[2] > Rank(y)[2]

\* left is a later version than right.
LaterVersion(left, right) ==
  \E i \in 1 .. Len(left) :
    /\ Agree(left, right, i - 1)
    /\ i <= Len(right) => RankedAfter(left[i], right[i])
=============================================================================
