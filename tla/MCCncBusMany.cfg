CONSTANTS
  Senders = {s1, s2}
  Dispatchers = {d1, d2}
  Cdc = cdc
  Receivers = {1}
  Frags = {f1, f2}
  Chains = {c1, c2}
  NoFrag = nofrag
  NoChain = nochain
  Destinations <- OneOrAll
  Modes = {"flush"}
  SlotModulus = 1
  MaxMessages = 2
SPECIFICATION Spec
SYMMETRY Symmetry
INVARIANTS
  ReadersExcludeCdc
  SerialDelivery
