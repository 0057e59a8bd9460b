SPECIFICATION FairSpec
CONSTANTS
  r1 = r1
  r2 = r2
  Requests <- MCRequests
  Offers <- MCOffers
  MaxLists = 3
  Scale = 2
  Junk = Junk
  Absent = Absent
INVARIANTS
  OnlyTheImageDecides
  AnswersAreHonest
PROPERTY
  EveryRequestAnswered
CHECK_DEADLOCK FALSE
