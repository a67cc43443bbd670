CONSTANTS
  Senders = {s1}
  Dispatchers = {d1}
  Cdc = cdc
  Receivers = {1}
  Frags = {f1}
  Chains = {c1}
  NoFrag = nofrag
  NoChain = nochain
  Destinations = {{1}}
  Modes = {"flush"}
  SlotModulus = 1
  MaxMessages = 1
SPECIFICATION WeakSpec
INVARIANT
  ReadersExcludeCdc
