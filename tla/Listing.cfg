SPECIFICATION FairSpec
CONSTANTS
  NumClients = 4
  ByHand = {2}
  Copies = {i1, i2}
INVARIANTS
  TypeOK
  ListedInOrder
  ListedComplete
  RevocationShown
PROPERTIES
  EventuallyListed
