SPECIFICATION Spec
CONSTANTS
  Keys <- MCKeys
  Fold <- MCFold
  Assets <- MCAssets
  Member = "b"
  MaxAdds = 3
INVARIANTS TypeOK PayloadIsLastWrites DispatchedOnce
PROPERTY NoSilentLoss
