\* Three producers and two consumers with timeouts on a queue of two places.
SPECIFICATION Spec
CONSTANTS
  p1 = p1
  p2 = p2
  p3 = p3
  c1 = c1
  c2 = c2
  Producers = {p1, p2, p3}
  Consumers = {c1, c2}
  Pollers = {}
  Nobody = Nobody
  MaxSize = 2
  MaxCalls = 2
SYMMETRY Symmetry
INVARIANTS
  TypeOK
  TakeFindsElement
  FirstInFirstOut
  Bounded
