------------------------------- MODULE Money -------------------------------
(***************************************************************************)
(* Fixed-point conversion (pkg/money/fx.go) and the check digits of        *)
(* account numbers (services/account/internal/domain/domain.go).           *)
(*                                                                         *)
(* The scale of a rate and the width of an amount are parameters: 10^6 and *)
(* 2^63 in the code.  A number is the sequence of its digits after "KZ";   *)
(* 10 stands for a character that is no digit.                             *)
(***************************************************************************)
EXTENDS Integers, Sequences

CONSTANTS
  RateScale,   \* micros per unit of a rate
  HalfRange,   \* amounts lie in -HalfRange .. HalfRange - 1
  BBANLength   \* digits of the bank code and the random part (16 in the code)

ASSUME MoneyAssumption ==
  RateScale \in Nat \ {0} /\ HalfRange \in Nat \ {0} /\ BBANLength \in 0..16

-----------------------------------------------------------------------------
(* Conversion *)

\* QuoRem rounds towards zero.
Quo(n, d) == IF n >= 0 THEN n \div d ELSE -((-n) \div d)

\* mulDivHalfEven for a positive denominator (the table's CHECK on rates).
MulDivHalfEven(v, num, den) ==
  LET n == v * num
      q == Quo(n, den)
      r == n - q * den
      twice == 2 * (IF r >= 0 THEN r ELSE -r)
      away == twice > den \/ (twice = den /\ q % 2 = 1)
  IN  IF ~away THEN q ELSE IF n < 0 THEN q - 1 ELSE q + 1

Convert(v, rate) == MulDivHalfEven(v, rate, RateScale)
ConvertInverse(v, rate) == MulDivHalfEven(v, RateScale, rate)

\* IsInt64: otherwise the conversion answers ErrOverflow.
Fits(q) == q \in (-HalfRange) .. (HalfRange - 1)

\* Reference: q is n/d rounded to the nearest integer, a tie to the even one.
Nearest(q, n, d) ==
  LET off == IF n >= q * d THEN n - q * d ELSE q * d - n
  IN  2 * off < d \/ (2 * off = d /\ q % 2 = 0)

-----------------------------------------------------------------------------
(* Account numbers *)

\* The remainder after each digit.
Remainders(digits) ==
  LET rem[i \in 0..Len(digits)] == IF i = 0 THEN 0 ELSE (rem[i - 1] * 10 + digits[i]) % 97
  IN  rem

\* -1 answers a character that is no digit.
Mod97(digits) ==
  IF \A i \in DOMAIN digits : digits[i] \in 0..9 THEN Remainders(digits)[Len(digits)] ELSE -1

GenerateNumber(bban) ==
  LET check == 98 - Mod97(bban \o <<2, 0, 3, 5, 0, 0>>)
  IN  <<check \div 10, check % 10>> \o bban

\* Variant: only the length is looked at.
ValidLength(number) == Len(number) = BBANLength + 2

ValidNumber(number) ==
  /\ Len(number) = BBANLength + 2
  /\ Mod97(SubSeq(number, 3, Len(number)) \o <<2, 0, 3, 5>> \o SubSeq(number, 1, 2)) = 1
=============================================================================
