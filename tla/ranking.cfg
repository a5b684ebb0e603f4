SPECIFICATION Spec
CONSTANTS
  Offers <- MCOffers
  MaxPool = 4
INVARIANTS
  TypeOK
  TrimKeepsTheBest
  HeadIsBest
  MatchFollowsCost
