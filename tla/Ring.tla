-------------------------------- MODULE Ring --------------------------------
(***************************************************************************)
(* The single-producer single-consumer sample ring of the recorder         *)
(* (DataCollection/src/common/ring.hpp, ring.cpp).  The receive thread     *)
(* owns head, the writer thread owns tail; both only grow, and a slot is   *)
(* addressed by its cursor modulo NSlots.                                  *)
(*                                                                         *)
(* The samples themselves are abstracted to their place in the stream: a   *)
(* slot holds the block of n samples that starts at position "from" of     *)
(* what capture "cap" has published.  Only n exists in the program (the    *)
(* array valid_); cap and from name the bytes in the slot, so that reading *)
(* the wrong slot, or a slot of another capture, is visible.               *)
(***************************************************************************)
EXTENDS Naturals

CONSTANTS NSlots,    \* slots in the ring (nslots_)
          SlotSamps  \* capacity of a slot, in samples per channel (slot_samps_)

ASSUME RingAssumption == /\ NSlots \in Nat \ {0}
                         /\ SlotSamps \in Nat \ {0}

VARIABLES head,      \* slots published since the ring was allocated (head_)
          tail,      \* slots released since the ring was allocated (tail_)
          slots,     \* contents of the slots (ring_ and valid_)
          ringDrop   \* samples dropped because the ring was full (ring_drop_samps_)

ringVars == <<head, tail, slots, ringDrop>>

SlotIndex == 0 .. NSlots - 1

Block == [cap : Nat, from : Nat, n : Nat]

RingTypeOK == /\ head \in Nat
              /\ tail \in Nat
              /\ slots \in [SlotIndex -> Block]
              /\ ringDrop \in Nat

\* The constructor zeroes the whole ring, valid_ included.
RingInit == /\ head = 0
            /\ tail = 0
            /\ slots = [i \in SlotIndex |-> [cap |-> 0, from |-> 0, n |-> 0]]
            /\ ringDrop = 0

-----------------------------------------------------------------------------
(* An operator whose name has a suffix after "_" is a mutated form of the     *)
(* operator that follows it: a plausible bug, which a property must find.     *)

Full_OffByOne == head - tail > NSlots

Full == head - tail >= NSlots

HasData == tail < head

TailBlock == slots[tail % NSlots]

Publish_NextSlot(block) == /\ slots' = [slots EXCEPT ![(head + 1) % NSlots] = block]
                           /\ head' = head + 1
                           /\ UNCHANGED <<tail, ringDrop>>

Publish(block) == /\ slots' = [slots EXCEPT ![head % NSlots] = block]
                  /\ head' = head + 1
                  /\ UNCHANGED <<tail, ringDrop>>

AddRingDrop(n) == /\ ringDrop' = ringDrop + n
                  /\ UNCHANGED <<head, tail, slots>>

Release == /\ tail' = tail + 1
           /\ UNCHANGED <<head, slots, ringDrop>>

=============================================================================
