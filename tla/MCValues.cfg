CONSTANTS
  TinyBits = 3
  SmallBits = 4
  IntBits = 8
  BigBits = 9
  MantissaBits = 7
  Sample <- MCSample
SPECIFICATION Spec
INVARIANT ArithmeticExact
INVARIANT ComparisonsAgree
INVARIANT CastKeepsValue
INVARIANT TwoCastsAgree
INVARIANT TupleKeepsValues
