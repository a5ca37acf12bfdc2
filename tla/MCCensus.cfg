SPECIFICATION Spec
CONSTANTS
  Sessions <- MCSessions
  Proofs <- MCProofs
  Name <- MCName
  Keywords <- MCKeywords
  Plain = {"lemma"}
  Fragile = {"f", "g", "h"}
  Garbled = Garbled
  MaxRuns = 4
INVARIANTS MeasuredOnce LossesTold
CHECK_DEADLOCK FALSE
