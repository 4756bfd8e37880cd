SPECIFICATION Spec
CONSTANTS
  Fetchers = {f1, f2}
  Converters = {c1, c2}
  Runners = {r1}
INVARIANTS LockMeansInputs VerifiedStays LoadsWholeModel
