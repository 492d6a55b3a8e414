\* Two RM threads and two clients that call select() on one file in a loop.
SPECIFICATION FairSpec
CONSTANTS
  p1 = p1  p2 = p2  w1 = w1  w2 = w2  
  Posters = {p1, p2}
  Waiters = {w1, w2}
  Nobody = Nobody
INVARIANTS NoSleeperBesideEvent OnlyRegisteredNotified
PROPERTY EventReachesClient
