SPECIFICATION FairSpec
CONSTANTS
  k1 = k1  k2 = k2  k3 = k3
  Waker <- Waker3
INVARIANTS EventIsPosted MarkIsDelivered NoLostWakeup
PROPERTIES EventsAreSeen SignalSpec
