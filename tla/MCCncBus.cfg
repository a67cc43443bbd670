CONSTANTS
  Senders = {s1}
  Dispatchers = {d1}
  Cdc = cdc
  Receivers = {1, 2}
  Frags = {f1, f2}
  Chains = {c1, c2}
  NoFrag = nofrag
  NoChain = nochain
  Destinations <- OneOrAll
  Modes = {"single_message", "flush"}
  SlotModulus = 2
  MaxMessages = 2
SPECIFICATION Spec
SYMMETRY Symmetry
INVARIANTS
  NoUseAfterDisconnect
  MessagesConserved
PROPERTIES
  ImplementsBusService
