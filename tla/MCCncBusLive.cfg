CONSTANTS
  Senders = {s1}
  Dispatchers = {d1}
  Cdc = cdc
  Receivers = {1}
  Frags = {f1, f2}
  Chains = {c1, c2}
  NoFrag = nofrag
  NoChain = nochain
  Destinations <- OneOrAll
  Modes = {"flush"}
  SlotModulus = 1
  MaxMessages = 2
SPECIFICATION FairSpec
PROPERTIES
  QueuedIsDelivered
  CallsReturn
