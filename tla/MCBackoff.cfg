SPECIFICATION Spec
CONSTANTS
  UINT_MAX = 31
  DoneTimes <- MCDoneTimes
  Cost = 1
INVARIANTS AtMostDoubles
