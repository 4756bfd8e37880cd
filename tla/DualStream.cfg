SPECIFICATION FairSpec
CONSTANT First = 1
INVARIANTS TypeOK ReportTruthful NoErrorSwallowed IdleReportLasts SurvivorHeld
PROPERTIES KeepsPromise Quiesces
