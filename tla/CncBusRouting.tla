--------------------------- MODULE CncBusRouting ----------------------------
(***************************************************************************)
(* Addresses on the bus (cncbus.c:529-615, 838-873): the sorted table of   *)
(* receivers, the search a connect and a disconnect make in it, and the    *)
(* selection a send makes.  One thread: the interleavings are those of     *)
(* CncBus.                                                                 *)
(***************************************************************************)
EXTENDS Integers, SequencesExt, Bitwise

CONSTANTS
  Receivers,
  Addresses,  \* of receivers; several may have the same
  Masks,      \* subnet masks sent to
  Dests       \* destinations sent to, 0 is CNCBUS_BROADCAST_ADDRESS

VARIABLES
  address,    \* of each receiver, NoAddress while it is not connected
  receivers, receiver_addresses,  \* the two arrays of the bus
  sent        \* the last send: [dest, mask, matched]

vars == <<address, receivers, receiver_addresses, sent>>

NoAddress == 0
NothingSent == [dest |-> 0, mask |-> 0, matched |-> <<>>]
NumReceivers == Len(receivers)

Init ==
  /\ address = [r \in Receivers |-> NoAddress]
  /\ receivers = <<>> /\ receiver_addresses = <<>>
  /\ sent = NothingSent

\* compare_less: a descending order
Before(a, b) == a > b

\* lower_bound_const_with_predicate, by halves over [left, right)
LowerBound(a) ==
  LET search[left, right \in 0 .. NumReceivers] ==
        IF left >= right THEN right
        ELSE LET mid == (left + right) \div 2
             IN IF Before(address[receivers[mid + 1]], a) THEN search[mid + 1, right]
                ELSE search[left, mid]
  IN search[0, NumReceivers]

\* cncbus_init_receiver and cncbus_connect: both arrays move up from there.
Connect(r, a) ==
  /\ address[r] = NoAddress
  /\ address' = [address EXCEPT ![r] = a]
  /\ receivers' = InsertAt(receivers, LowerBound(a) + 1, r)
  /\ receiver_addresses' = InsertAt(receiver_addresses, LowerBound(a) + 1, a)
  /\ sent' = NothingSent

\* cncbus_disconnect looks from the lower bound on for the receiver itself.
Found(r) == CHOOSE i \in LowerBound(address[r]) + 1 .. NumReceivers : receivers[i] = r

Disconnect(r) ==
  /\ address[r] # NoAddress
  /\ receivers' = RemoveAt(receivers, Found(r))
  /\ receiver_addresses' = RemoveAt(receiver_addresses, Found(r))
  /\ address' = [address EXCEPT ![r] = NoAddress]
  /\ sent' = NothingSent

\* collect_receivers goes as far as the first address above the mask.
Reached(mask) ==
  LET above == {i \in 1 .. NumReceivers : mask < receiver_addresses[i]}
  IN IF above = {} THEN NumReceivers ELSE (CHOOSE i \in above : \A j \in above : i <= j) - 1

\* Mutant: the destination is not masked.
BugMatches(i, dest, mask) == (receiver_addresses[i] & mask) = dest

\* One receiver's address against the destination, under the mask
Matches(i, dest, mask) == (receiver_addresses[i] & mask) = (dest & mask)

Collected(dest, mask) ==
  IF dest = 0 THEN receivers
  ELSE LET positions == SelectSeq([i \in 1 .. Reached(mask) |-> i],
                                  LAMBDA i : Matches(i, dest, mask))
       IN [k \in DOMAIN positions |-> receivers[positions[k]]]

\* cncbus_send_async
Send(dest, mask) ==
  /\ sent' = [dest |-> dest, mask |-> mask, matched |-> Collected(dest, mask)]
  /\ UNCHANGED <<address, receivers, receiver_addresses>>

Next == \/ \E r \in Receivers : Disconnect(r) \/ \E a \in Addresses : Connect(r, a)
        \/ \E d \in Dests, m \in Masks : Send(d, m)

Spec == Init /\ [][Next]_vars

-----------------------------------------------------------------------------
(* Properties. *)

Connected == {r \in Receivers : address[r] # NoAddress}

\* The two arrays list the connected receivers, each once, at the same
\* places, and the descending order they are kept in is that of addresses.
TableInOrder ==
  /\ Range(receivers) = Connected /\ IsInjective(receivers)
  /\ receiver_addresses = [i \in 1 .. NumReceivers |-> address[receivers[i]]]
  /\ \A i \in 1 .. NumReceivers - 1 : ~Before(receiver_addresses[i + 1], receiver_addresses[i])

\* A send reaches exactly the receivers whose address is the destination's
\* under the mask, each once, and a broadcast reaches all, however the table
\* came about; unless the mask is below an address that is connected, where
\* collect_receivers gives up.
SendReachesSubnet ==
  LET inSubnet(r) == sent.dest = 0 \/ (address[r] & sent.mask) = (sent.dest & sent.mask)
      masked == sent.dest = 0 \/ \A r \in Connected : address[r] <= sent.mask
  IN /\ TableInOrder
     /\ sent # NothingSent /\ masked =>
          /\ Range(sent.matched) = {r \in Connected : inSubnet(r)}
          /\ IsInjective(sent.matched)
=============================================================================
