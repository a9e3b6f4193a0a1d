--------------------------- MODULE MCSatoshiPrice ---------------------------
(* Prices of up to four digits and exponents of both signs.                *)
EXTENDS SatoshiPrice

MCAnswers == {0, 1, 25, 5000}
MCExponents == -3 .. 2
=============================================================================
