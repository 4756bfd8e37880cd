SPECIFICATION FairSpec
CONSTANTS
  Writers = {w1, w2}
  ReplacesEmpty = TRUE
INVARIANTS PublishedVerifies ReaderSeesOneBundle LitterHasAReason
PROPERTIES WritersEnd IsWrittenOnce
