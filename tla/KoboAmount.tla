----------------------------- MODULE KoboAmount -----------------------------
(***************************************************************************)
(* The amount of a transfer: initiatePayment parses the order's decimal    *)
(* amount as a float64, multiplies it by 100 and truncates; the message of *)
(* /payments divides the kobo by 100 and prints two decimals.  A float is  *)
(* m / 2^e with a mantissa of at most Precision bits (53 in the code), and *)
(* every operation rounds its exact result to the nearest one.  The module *)
(* has no state.                                                           *)
(***************************************************************************)
EXTENDS Integers

CONSTANTS
  Precision,  \* bits of a mantissa
  Scale,      \* amounts are multiples of 1/Scale naira
  MaxAmount   \* the largest, in these units

ASSUME PrecisionAssumption == Precision \in Nat \ {0} /\ Scale \in Nat \ {0}
\* Every amount in kobo has a mantissa's worth of integer bits, and five to spare.
ASSUME AmountAssumption == MaxAmount \in Nat /\ 100 * MaxAmount * 32 < Scale * 2^Precision

\* The integer nearest to a/b, an even one when there are two.
Rounded(a, b) ==
  LET q == a \div b
      r == a % b
  IN IF 2 * r < b \/ (2 * r = b /\ q % 2 = 0) THEN q ELSE q + 1

Mantissas == 2^(Precision - 1)..2^Precision - 1

\* The float nearest to a/b, of a positive a below b * 2^Precision.
Nearest(a, b) ==
  LET e == CHOOSE e \in 0..2 * Precision : (a * 2^e) \div b \in Mantissas
  IN [m |-> Rounded(a * 2^e, b), e |-> e]

\* The float nearest to m / 2^e, of an m of too many bits.
Normal(m, e) ==
  LET s == CHOOSE s \in 0..Precision : m \div 2^s \in Mantissas
  IN [m |-> Rounded(m, 2^s), e |-> e - s]

\* Mutant: the next whole kobo.
TruncateUp(f) == (f.m \div 2^f.e) + 1

\* int64(f)
Truncate(f) == f.m \div 2^f.e

\* int64(amtFloat * 100), of the amtFloat that strconv.ParseFloat returns
AmountKobo(amount) ==
  LET float == Nearest(amount, Scale)
  IN Truncate(Normal(100 * float.m, float.e))

\* Mutant: one digit.
ShownOneDigit(kobo) ==
  LET f == Nearest(kobo, 100)
  IN 10 * Rounded(f.m * 10, 2^f.e)

\* "%.2f" of float64(AmountKobo)/100, in hundredths
Shown(kobo) ==
  LET f == Nearest(kobo, 100)
  IN Rounded(f.m * 100, 2^f.e)
=============================================================================
