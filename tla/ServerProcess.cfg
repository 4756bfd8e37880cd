SPECIFICATION FairSpec
CONSTANTS
  Leader = leader
  Children = {c1, c2}
  Platforms = {"posix", "win32"}
INVARIANTS VerifiedTermination SignalsOwnGroup HandlesClosed
PROPERTIES KeepsPromise
