SPECIFICATION Spec
CONSTANTS
  Answers <- MCAnswers
  Exponents <- MCExponents
  SatoshiScale = 100
  Modulus = 1024
  None = None
INVARIANT
  SatoshiFormula
CHECK_DEADLOCK FALSE
