------------------------------- MODULE Helpers -------------------------------
(***************************************************************************)
(* The idioms of the browser application that its figures are made with:   *)
(* values that may be missing, Array.map, filter, find and reduce, and     *)
(* divisions and products that round.                                      *)
(***************************************************************************)
EXTENDS Integers, Sequences, SequencesExt

Undef == -1

OptNat == Nat \union {Undef}

(* `value ?? fallback' *)
Or(v, fallback) == IF v = Undef THEN fallback ELSE v

(* {...record, ...patch} *)
Patched(record, patch) ==
  [x \in DOMAIN record |-> IF x \in DOMAIN patch THEN patch[x] ELSE record[x]]

(* {...map, ...entries}, keys that are new included *)
Overlaid(map, entries) ==
  [x \in DOMAIN map \union DOMAIN entries |->
     IF x \in DOMAIN entries THEN entries[x] ELSE map[x]]

Map(F(_), seq) == [i \in DOMAIN seq |-> F(seq[i])]

(* The elements at the places in I, in their order. *)
Picked(seq, I) ==
  LET picked[n \in 0..Len(seq)] == IF n = 0 THEN <<>>
                                   ELSE IF n \in I THEN Append(picked[n - 1], seq[n])
                                   ELSE picked[n - 1]
  IN picked[Len(seq)]

Keep(seq, Test(_)) == Picked(seq, {i \in DOMAIN seq : Test(seq[i])})

(* The distinct elements, in the order of first appearance. *)
Distinct(seq) == Picked(seq, {i \in DOMAIN seq : \A j \in 1..(i - 1) : seq[j] # seq[i]})

FirstWhere(seq, Test(_)) == seq[SelectInSeq(seq, Test)]

LastWhere(seq, Test(_)) == seq[SelectLastInSeq(seq, Test)]

Sum(F(_), seq) == FoldLeft(LAMBDA acc, e : acc + F(e), 0, seq)

CeilDiv(a, b) == (a + b - 1) \div b

(* Math.round of a non-negative fraction a/b *)
RoundDiv(a, b) == (2 * a + b) \div (2 * b)

(* How far the double 1 + p / 100 is from its decimal value, in hundredths *)
(* of 2^-52, for a whole percentage up to 100.  The quotient is rounded to *)
(* a double of its own, which turns some errors to the other side.         *)
GrowthError(p) ==
  LET nearest == (4 * p) % 100
      turnedUp == {14, 39, 64, 66, 68, 89, 91, 93}
      turnedDown == {36, 57, 59, 61, 82, 84, 86}
  IN IF p \in turnedUp \/ (nearest < 50 /\ p \notin turnedDown) THEN nearest ELSE nearest - 100

(* Math.ceil(x * (1 + p / 100)): one more than the exact ceiling when the  *)
(* product is a whole number and the double falls above it, as 110 * 1.1   *)
(* does and 40 * 1.1 does not: by more than half the distance of the       *)
(* doubles there, which doubles at every power of two.                     *)
CeilGrown(x, p) ==
  LET exact == CeilDiv(x * (100 + p), 100)
      FallsAbove == /\ x > 0 /\ x * (100 + p) = 100 * exact
                    /\ \A i \in 0..24 : 2^i <= exact => x * GrowthError(p) > 50 * 2^i
  IN IF FallsAbove THEN exact + 1 ELSE exact

Larger(a, b) == IF a >= b THEN a ELSE b
=============================================================================
