CONSTANTS
  Producers = {p1, p2}
  Consumers = {c1, c2}
  Value = {v1, v2}
  bound = 2
  MaxPushes = 5
SPECIFICATION FairSpec
INVARIANT NoLostWakeup
INVARIANT IInv
PROPERTY FifoSpec
PROPERTY EventuallyDrained
