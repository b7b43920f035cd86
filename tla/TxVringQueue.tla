---------------------------- MODULE TxVringQueue ----------------------------
(***************************************************************************)
(* The transmit rings read as the queue of TxQueue: what is between two of *)
(* the indices is a part of the queue.                                     *)
(***************************************************************************)
EXTENDS TxVring

\* The index k after x.
Ahead(x, k) == (x + k) % IndexMod

\* The heads at the n indices from x on, in ring r.
Heads(r, x, n) == [k \in 1..n |-> r[Slot(Ahead(x, k - 1))]]

UsedIds == [s \in Descs |-> used_ring[s].id]

\* The three parts of the queue.
PendingHeads  == Heads(avail_ring, last_avail_idx, Dist(last_avail_idx, avail_idx))
DoneHeads     == Heads(UsedIds, used_idx, Dist(used_idx, last_used_idx))
ReturnedHeads == Heads(UsedIds, guest_used, Dist(guest_used, used_idx))

Queue == INSTANCE TxQueue WITH
    Buffers  <- Descs,
    Capacity <- Num,
    pending  <- PendingHeads,
    done     <- DoneHeads,
    returned <- ReturnedHeads

(* The rings implement the abstract transmit queue: chains are consumed     *)
(* once and in order, and come back once and in order, all of them unless   *)
(* the server dies of a packet that is too short.                           *)
ImplementsTxQueue ==
    /\ Queue!Safety
    /\ [](pc # "crashed") => Queue!Fairness
=============================================================================
