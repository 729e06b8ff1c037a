\* Two producers and one consumer that polls without a timeout, as CanBase does.
SPECIFICATION FairSpec
CONSTANTS
  p1 = p1
  p2 = p2
  c1 = c1
  Producers = {p1, p2}
  Consumers = {c1}
  Pollers = {c1}
  Nobody = Nobody
  MaxSize = 1
  MaxCalls = 2
PROPERTIES
  PollersReturn
  Drained
