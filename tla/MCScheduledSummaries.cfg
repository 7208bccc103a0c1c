SPECIFICATION FairSpec
CONSTANTS
  Services = {s1, s2}
  Changes = {"rate", "status"}
  Request <- MCRequest
  Category <- MCCategory
  Managed = {"ENG"}
INVARIANTS ToldOnce SummaryIsTold
PROPERTIES RoundKeepsWhatItFound EverySummaryComes
CHECK_DEADLOCK FALSE
