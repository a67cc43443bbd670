CONSTANTS
  Sizes = {12, 20, 24}
  BlockSizes = {1, 3, 9}
  Alignments = {1, 2, 8}
  HeaderSizes = {4, 6}
  PageSize = 8
  NULL = NULL
  Users = {u, v, w}
  RegionSize = 18
  Ofs = 2
  HeapSizes = {1, 2, 4, 5}
  F = 4
  D = 2
  MsgOfs = 1
  Frags = 3
  Amounts = {1, 2, 5}
  HeadSeeks = FALSE
  EndSeeks = FALSE
  Shrinks = FALSE
  Receivers = {1, 2, 3, 4}
  Addresses = {2, 5, 9, 13}
  Masks = {12, 15}
  Dests = {0, 1, 5, 9, 15}
  Keys = {bundle}
  Modes = {"atomic", "in_place"}
  MaxVersion = 3
  MaxFaults = 6
  Faults = {"lost", "crash", "write", "open", "rename", "redirect", "refused", "no_length"}
SPECIFICATION PartsSpec
SYMMETRY UserSymmetry
INVARIANTS
  HeapVerifies
  BytesKept
  PoolVerifies
  FreeListSound
  SendReachesSubnet
  ReadableIsWhole
PROPERTY ImplementsFlatMessage
CHECK_DEADLOCK FALSE
