CONSTANTS
  s1 = s1  s2 = s2  i1 = i1  i2 = i2
  Nobody = Nobody
  Subnet = {s1, s2}
  Replica = {i1, i2}
  MaxChange = 2
  MaxEnd = 2
SPECIFICATION FairPublisherSpec
INVARIANT PublisherTypeOK
INVARIANT FullIsTold
PROPERTY AvailableTakesBack
PROPERTY SlicesSettle
CHECK_DEADLOCK FALSE
