---------------------------- MODULE SatoshiPrice ----------------------------
(***************************************************************************)
(* The conversion of prices to satoshis (types/morpher.go), the same for   *)
(* prices of Chainlink and of Pyth: an integer and a decimal exponent      *)
(* become an integer of fixed scale, and that becomes a uint64.            *)
(***************************************************************************)
EXTENDS Integers

CONSTANTS Answers,       \* the integers of prices
          Exponents,
          SatoshiScale,  \* 10^8, or a smaller power of ten
          Modulus,       \* 2^64, or a smaller power of two
          None           \* a nil *big.Int, and nothing computed yet

VARIABLES price, satoshi, word

vars == <<price, satoshi, word>>

\* big.Int's Exp without a modulus: 1 for every exponent that is not positive.
Exp(base, e) == IF e <= 0 THEN 1 ELSE base ^ e

InSatoshi(p) == p.answer * (Exp(10, p.exponent) * SatoshiScale)

\* big.Int's Uint64 keeps the low bits, of the two's complement if negative.
Uint64(n) == n % Modulus

Init == /\ price \in [answer : Answers \cup {None}, exponent : Exponents]
        /\ satoshi = None
        /\ word = None

\* A nil price is an error.
GetPriceInSatoshi == /\ price.answer # None
                     /\ satoshi = None
                     /\ satoshi' = InSatoshi(price)
                     /\ UNCHANGED <<price, word>>

GetUint64SatoshiPrice == /\ price.answer # None
                         /\ word = None
                         /\ word' = Uint64(InSatoshi(price))
                         /\ UNCHANGED <<price, satoshi>>

Next == GetPriceInSatoshi \/ GetUint64SatoshiPrice

Spec == Init /\ [][Next]_vars

-----------------------------------------------------------------------------
(* Properties *)

\* "Formula: actualPrice = Answer * 10^exponent, then satoshiPrice =
\* actualPrice * SatoshiScale" (morpher.go:79), rounded one way or the other.
\* The exponents of both sources are negative, and the code does not divide.
SatoshiFormula ==
  satoshi # None =>
    LET e == price.exponent
    IN IF e >= 0
         THEN satoshi = price.answer * 10 ^ e * SatoshiScale
         ELSE LET exact == price.answer * SatoshiScale
              IN satoshi * 10 ^ (-e) \in exact - 10 ^ (-e) .. exact + 10 ^ (-e)
=============================================================================
