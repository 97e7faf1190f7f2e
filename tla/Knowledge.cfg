\* Two entries of up to three versions, one submission, two requests in progress.
SPECIFICATION Spec
CONSTANTS
  Entry = {e1,e2}
  Submission = {s1}
  Text = {t1, t2}
  NewText = {t1}
  NoText = NoText
  NoEntry = NoEntry
  Curated = Curated
  Slot = {r1, r2}
  MaxVersion = 3
INVARIANTS TypeOK HistoryMatches NoLostEdit ProvenanceKept RefusedStaysOut
PROPERTY StagingIsPurged
CHECK_DEADLOCK FALSE
