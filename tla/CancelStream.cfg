SPECIFICATION FairSpec
INVARIANTS ReportTruthful
PROPERTIES KeepsPromise Quiesces
