SPECIFICATION Spec
CONSTANTS
  Leader = leader
  Children = {c1}
  Platforms = {"posix"}
INVARIANTS StoppedMeansGone
