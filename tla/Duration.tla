------------------------------ MODULE Duration ------------------------------
(***************************************************************************)
(* duration.Parse, token by token, and duration.Format.  A token is a run  *)
(* of digits (its value and its length), a unit suffix, or anything else.  *)
(* Units are indices into Length, largest first.  Durations are signed     *)
(* words: products and sums wrap, as Go's int64 does.                      *)
(*                                                                         *)
(* 64 bits and nanoseconds are out of TLC's reach; Word, Length and        *)
(* MaxDigits are parameters, and the instances keep the proportions of the *)
(* code: a number of MaxDigits digits times the largest unit is far beyond *)
(* Word, and the smallest unit (the second) is many nanoseconds.           *)
(***************************************************************************)
EXTENDS Integers, Sequences

CONSTANTS
  Numbers,     \* runs of digits: [value, digits]
  Length,      \* the length of each unit
  MaxDigits,   \* 9
  Word         \* 2^64

ASSUME DurationAssumption ==
  /\ Numbers \subseteq [value : Nat, digits : Nat \ {0}]
  /\ Length \in Seq(Nat \ {0}) /\ Length # << >>
  /\ \A u, v \in DOMAIN Length : u < v => Length[u] > Length[v]
  /\ \A u \in DOMAIN Length : Length[u] % Length[Len(Length)] = 0
  /\ MaxDigits \in Nat
  /\ Word \in Nat /\ Word % 2 = 0 /\ Word > 0

VARIABLES
  input,      \* the tokens read so far
  expects,    \* what the loop reads next: "number" or "unit"
  total,
  lastUnit,
  outcome     \* "parsing", "ok" or "error"

vars == << input, expects, total, lastUnit, outcome >>

Units == DOMAIN Length
Other == [other |-> TRUE]

Wrap(x) == ((x + Word \div 2) % Word) - Word \div 2

Init ==
  /\ input = << >>
  /\ expects = "number"
  /\ total = 0
  /\ lastUnit = 0
  /\ outcome = "parsing"

Reads(token) == outcome = "parsing" /\ input' = Append(input, token)

Rejects == outcome' = "error" /\ UNCHANGED << expects, total, lastUnit >>

ReadNumber(t) ==
  /\ expects = "number"
  /\ Reads(t)
  /\ t.digits <= MaxDigits
  /\ expects' = "unit"
  /\ UNCHANGED << total, lastUnit, outcome >>

NumberTooLong(t) == expects = "number" /\ Reads(t) /\ t.digits > MaxDigits /\ Rejects

NoNumber(t) == expects = "number" /\ Reads(t) /\ Rejects

Amount(u) == input[Len(input)].value * Length[u]

\* mutant: repeated units are let through
ReadUnitBug(u) ==
  /\ expects = "unit"
  /\ Reads([unit |-> u])
  /\ u >= lastUnit
  /\ lastUnit' = u
  /\ total' = Wrap(total + Wrap(Amount(u)))
  /\ expects' = "number"
  /\ Len(input) < 2 * Len(Length)
  /\ UNCHANGED outcome

ReadUnit(u) ==
  /\ expects = "unit"
  /\ Reads([unit |-> u])
  /\ u > lastUnit
  /\ lastUnit' = u
  /\ total' = Wrap(total + Wrap(Amount(u)))
  /\ expects' = "number"
  /\ UNCHANGED outcome

UnitOutOfOrder(u) ==
  expects = "unit" /\ Reads([unit |-> u]) /\ u <= lastUnit /\ Rejects

UnknownUnit == expects = "unit" /\ Reads(Other) /\ Rejects

\* The end of the text: nothing at all, a number without a unit, or a total
\* that is not positive are errors.
End ==
  /\ outcome = "parsing"
  /\ outcome' = IF expects = "number" /\ total > 0 THEN "ok" ELSE "error"
  /\ UNCHANGED << input, expects, total, lastUnit >>

Next ==
  \/ \E t \in Numbers : ReadNumber(t) \/ NumberTooLong(t)
  \/ \E u \in Units : ReadUnit(u) \/ UnitOutOfOrder(u) \/ NoNumber([unit |-> u])
  \/ NoNumber(Other) \/ UnknownUnit
  \/ End

Spec == Init /\ [][Next]_vars

-----------------------------------------------------------------------------
\* mutant: what the larger units take is not taken off the rest
FormatBug(d) == [u \in Units |-> d \div Length[u]]

\* What the units larger than u leave of d.
Rest(d) ==
  LET rest[u \in Units] == IF u = 1 THEN d ELSE rest[u - 1] % Length[u - 1]
  IN  rest

\* Format, as the number in front of each unit; zeros are not printed.
Format(d) == [u \in Units |-> Rest(d)[u] \div Length[u]]

-----------------------------------------------------------------------------
(***************************************************************************)
(* Properties.                                                             *)
(***************************************************************************)

\* What the text says, read as a whole: a number before each unit, each unit
\* once at most, largest first, no number with too many digits.
Pairs(s) == 1..(Len(s) \div 2)

PairsRead(s) ==
  /\ \A i \in Pairs(s) :
       /\ s[2*i - 1] \in Numbers /\ s[2*i - 1].digits <= MaxDigits
       /\ "unit" \in DOMAIN s[2*i]
  /\ \A i, j \in Pairs(s) : i < j => s[2*i].unit < s[2*j].unit

WellFormed(s) == Len(s) % 2 = 0 /\ PairsRead(s)

\* The sum of the first pairs, and of all.
Sums(s) ==
  LET sum[i \in 0..(Len(s) \div 2)] ==
        IF i = 0 THEN 0 ELSE sum[i - 1] + s[2*i - 1].value * Length[s[2*i].unit]
  IN  sum

Meaning(s) == Sums(s)[Len(s) \div 2]

\* Parse accepts exactly the well-formed texts of positive meaning.  (Where
\* nothing overflows.)
AcceptsExactly ==
  /\ outcome = "ok" => WellFormed(input) /\ Meaning(input) > 0
  /\ outcome = "error" => ~(WellFormed(input) /\ Meaning(input) > 0)

\* What Format prints, read back: of each unit its number, largest first.
Printed(p) ==
  LET sum[u \in 0..Len(Length)] == IF u = 0 THEN 0 ELSE sum[u - 1] + p[u] * Length[u]
  IN  sum

ReadBack(p) == Printed(p)[Len(Length)]

\* What Format prints of a duration Parse has returned reads back as that
\* duration; if the sum has wrapped, what is below the smallest unit is cut off.
RoundTrip ==
  outcome = "ok" =>
    /\ ReadBack(Format(total)) = total - (total % Length[Len(Length)])
    /\ total = Meaning(input) => ReadBack(Format(total)) = total

\* duration_test.go: "overflow-sized values are all schedule bugs" that Parse
\* rejects: a duration it returns is the one the text means.
OverflowRejected == outcome = "ok" => total = Meaning(input)
=============================================================================
