CONSTANTS
  NumCpus = 3
  MembersPerGroup = 2
  EarlyFinish = TRUE
  MaxRounds = 3
SPECIFICATION FairSpec
PROPERTY PartnersReleased
CHECK_DEADLOCK FALSE
