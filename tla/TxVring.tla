------------------------------ MODULE TxVring ------------------------------
(***************************************************************************)
(* The transmit vring: a guest driver that makes descriptor chains         *)
(* available, and the server's main thread that consumes them.             *)
(*                                                                         *)
(* The server side is loop_server -> traverse_fd_list -> _kick_server and  *)
(* loop_server -> vhost_user_poll_handler, both of which run               *)
(* _poll_avail_vring -> process_avail_vring -> process_desc.  It is one    *)
(* sequential thread; `pc' is its program point and every access to the    *)
(* memory shared with the guest is a step of its own, so that the guest    *)
(* (another CPU) may act between any two of them.                          *)
(*                                                                         *)
(* The guest driver is outside src/: its actions are the weakest contract  *)
(* under which the server's ring arithmetic makes sense.  Memory is        *)
(* sequentially consistent (the code has no barriers and is built for      *)
(* x86, whose loads and stores are not reordered in the ways that matter). *)
(***************************************************************************)
EXTENDS Integers, Sequences

CONSTANTS
    Num,            \* vring[TX].num, the number of descriptors
    IndexMod,       \* 2^16: the wrap-around of every uint16_t ring index
    EthPacketSize,  \* ETH_PACKET_SIZE, the size of process_desc's buffer
    HdrLen,         \* sizeof(struct virtio_net_hdr)
    ChainLens       \* the chains a guest sends: sequences of descriptor sizes

ASSUME NumAssumption ==
    /\ Num \in Nat \ {0}
    /\ IndexMod \in Nat
    /\ Num < IndexMod
    /\ IndexMod % Num = 0

ASSUME SizeAssumption ==
    /\ EthPacketSize \in Nat
    /\ HdrLen \in Nat
    /\ \A c \in ChainLens :
          /\ c \in Seq(Nat)
          /\ Len(c) > 0

\* The first descriptor of every chain fits process_desc's buffer, so that
\* something of each packet is copied.
FirstFits == \A c \in ChainLens : 0 < c[1] /\ c[1] < EthPacketSize

Descs == 0..(Num - 1)
Index == 0..(IndexMod - 1)
NoNext == Num                  \* VIRTIO_DESC_F_NEXT is clear
NoPacket == [head |-> Num, size |-> 0]    \* buffer_size = 0

VARIABLES
    \* memory shared by the guest and the server
    desc,           \* descriptor table: size, and the successor in the chain
    avail_ring,     \* avail->ring
    avail_idx,      \* avail->idx
    used_ring,      \* used->ring
    used_idx,       \* used->idx
    kickfd,         \* TRUE: the TX eventfd is readable
    \* the guest driver
    chain,          \* per head, the descriptors of the chain in flight
    staged,         \* an avail slot is filled whose index is not published
    guest_used,     \* the driver's own last_used_idx
    \* the server
    last_avail_idx, \* vring[TX].last_avail_idx
    last_used_idx,  \* vring[TX].last_used_idx
    buffer,         \* vhost_user->buffer and buffer_size
    pc,             \* where the main thread is
    caller,         \* what process_avail_vring returns to
    a_idx,          \* local of process_avail_vring
    d_idx,          \* local of process_desc: the head of the chain
    i,              \* local of process_desc: the current descriptor
    len             \* local of process_desc: the bytes copied so far

shared == <<desc, avail_ring, avail_idx, used_ring, used_idx, kickfd>>
guest  == <<chain, staged, guest_used>>
locals == <<pc, caller, a_idx, d_idx, i, len>>
server == <<last_avail_idx, last_used_idx, buffer, locals>>
vars   == <<shared, guest, server>>

\* ++ on a uint16_t.
Inc(x) == (x + 1) % IndexMod

\* The ring slot of an index.
Slot(x) == x % Num

\* How far index y is ahead of index x.
Dist(x, y) == IF x <= y THEN y - x ELSE y - x + IndexMod

PCs == {"traverse", "poll", "start", "test", "walk", "finish", "echo", "crashed"}

TypeOK ==
    /\ desc \in [Descs -> [len : Nat, next : Descs \cup {NoNext}]]
    /\ avail_ring \in [Descs -> Descs]
    /\ used_ring \in [Descs -> [id : Descs, len : Nat]]
    /\ {avail_idx, used_idx, guest_used, last_avail_idx, last_used_idx}
         \subseteq Index
    /\ chain \in [Descs -> SUBSET Descs]
    /\ {kickfd, staged} \subseteq BOOLEAN
    /\ buffer \in [head : Descs \cup {Num}, size : Int]
    /\ pc \in PCs
    /\ caller \in {"poll", "echo"}
    /\ {a_idx, d_idx, i} \subseteq Descs
    /\ len \in Nat

Init ==
    /\ desc = [d \in Descs |-> [len |-> 0, next |-> NoNext]]
    /\ avail_ring = [s \in Descs |-> 0]
    /\ used_ring = [s \in Descs |-> [id |-> 0, len |-> 0]]
    /\ avail_idx = 0 /\ used_idx = 0 /\ guest_used = 0
    /\ last_avail_idx = 0 /\ last_used_idx = 0
    /\ chain = [h \in Descs |-> {}]
    /\ kickfd = FALSE /\ staged = FALSE
    /\ buffer = NoPacket
    /\ pc = "traverse" /\ caller = "poll"
    /\ a_idx = 0 /\ d_idx = 0 /\ i = 0 /\ len = 0

-----------------------------------------------------------------------------
(* The guest driver.                                                       *)

Free == Descs \ UNION {chain[h] : h \in Descs}

\* The driver takes free descriptors, links them into a chain and writes the
\* head into the next avail slot.  At most Num chains are outstanding.
GuestAdd(c, s) ==
    /\ ~staged
    /\ Dist(guest_used, avail_idx) < Num
    /\ \A j, k \in DOMAIN s : j # k => s[j] # s[k]
    /\ desc' = [d \in Descs |->
                  IF \E k \in DOMAIN s : s[k] = d
                  THEN LET k == CHOOSE k \in DOMAIN s : s[k] = d
                       IN [len  |-> c[k],
                           next |-> IF k < Len(c) THEN s[k + 1] ELSE NoNext]
                  ELSE desc[d]]
    /\ avail_ring' = [avail_ring EXCEPT ![Slot(avail_idx)] = s[1]]
    /\ chain' = [chain EXCEPT ![s[1]] = {s[k] : k \in DOMAIN s}]
    /\ staged' = TRUE
    /\ UNCHANGED <<avail_idx, used_ring, used_idx, kickfd, guest_used, server>>

\* The driver publishes the slot it has filled.
GuestPublish ==
    /\ staged
    /\ avail_idx' = Inc(avail_idx)
    /\ staged' = FALSE
    /\ UNCHANGED <<desc, avail_ring, used_ring, used_idx, kickfd,
                   chain, guest_used, server>>

\* The driver notifies the device: the hypervisor signals the TX eventfd.
GuestKick ==
    /\ kickfd' = TRUE
    /\ UNCHANGED <<desc, avail_ring, avail_idx, used_ring, used_idx,
                   guest, server>>

\* The driver takes back the chain named by the next used entry.  It refuses
\* an entry that does not name the head of a chain in flight.
GuestReclaim ==
    /\ guest_used # used_idx
    /\ LET h == used_ring[Slot(guest_used)].id
       IN /\ chain[h] # {}
          /\ chain' = [chain EXCEPT ![h] = {}]
    /\ guest_used' = Inc(guest_used)
    /\ UNCHANGED <<shared, staged, server>>

GuestNext ==
    \/ \E c \in ChainLens : \E s \in [1..Len(c) -> Free] : GuestAdd(c, s)
    \/ GuestPublish
    \/ GuestKick
    \/ GuestReclaim

-----------------------------------------------------------------------------
(* The server's main thread.                                               *)

\* traverse_fd_list: select times out because no kick is pending.
SelectTimeout ==
    /\ pc = "traverse"
    /\ ~kickfd
    /\ pc' = "poll"
    /\ UNCHANGED <<shared, guest, last_avail_idx, last_used_idx, buffer,
                   caller, a_idx, d_idx, i, len>>

\* traverse_fd_list: the TX kickfd is readable; its handler drains the
\* eventfd and polls the TX ring.
KickServer ==
    /\ pc = "traverse"
    /\ kickfd
    /\ kickfd' = FALSE
    /\ pc' = "start"
    /\ caller' = "poll"
    /\ UNCHANGED <<desc, avail_ring, avail_idx, used_ring, used_idx, guest,
                   last_avail_idx, last_used_idx, buffer, a_idx, d_idx, i, len>>

\* vhost_user_poll_handler polls the TX ring on every turn of the loop.
PollHandler ==
    /\ pc = "poll"
    /\ pc' = "start"
    /\ caller' = "echo"
    /\ UNCHANGED <<shared, guest, last_avail_idx, last_used_idx, buffer,
                   a_idx, d_idx, i, len>>

\* Mutant: every call starts at the first slot again.
ProcessAvailVringRestarted ==
    /\ pc = "start"
    /\ a_idx' = 0
    /\ pc' = "test"
    /\ UNCHANGED <<shared, guest, last_avail_idx, last_used_idx, buffer,
                   caller, d_idx, i, len>>

\* process_avail_vring: the slot where processing resumes.
ProcessAvailVring ==
    /\ pc = "start"
    /\ a_idx' = Slot(last_avail_idx)
    /\ pc' = "test"
    /\ UNCHANGED <<shared, guest, last_avail_idx, last_used_idx, buffer,
                   caller, d_idx, i, len>>

\* Mutant: used->idx is published one entry too far.
EndOfAvailOneMore ==
    /\ pc = "test"
    /\ last_avail_idx = avail_idx
    /\ used_idx' = Inc(last_used_idx)
    /\ pc' = caller
    /\ UNCHANGED <<desc, avail_ring, avail_idx, used_ring, kickfd, guest,
                   last_avail_idx, last_used_idx, buffer,
                   caller, a_idx, d_idx, i, len>>

\* Mutant: only the kick handler's call publishes used->idx.
EndOfAvailKickOnly ==
    /\ pc = "test"
    /\ last_avail_idx = avail_idx
    /\ used_idx' = IF caller = "poll" THEN last_used_idx ELSE used_idx
    /\ pc' = caller
    /\ UNCHANGED <<desc, avail_ring, avail_idx, used_ring, kickfd, guest,
                   last_avail_idx, last_used_idx, buffer,
                   caller, a_idx, d_idx, i, len>>

\* The end of avail is reached: everything processed is published at once.
EndOfAvail ==
    /\ pc = "test"
    /\ last_avail_idx = avail_idx
    /\ used_idx' = last_used_idx
    /\ pc' = caller
    /\ UNCHANGED <<desc, avail_ring, avail_idx, used_ring, kickfd, guest,
                   last_avail_idx, last_used_idx, buffer,
                   caller, a_idx, d_idx, i, len>>

\* Mutant: the chain is taken from the slot after the current one.
ProcessDescNextSlot ==
    /\ pc = "test"
    /\ last_avail_idx # avail_idx
    /\ d_idx' = avail_ring[(a_idx + 1) % Num]
    /\ i' = avail_ring[(a_idx + 1) % Num]
    /\ len' = 0
    /\ pc' = "walk"
    /\ UNCHANGED <<shared, guest, last_avail_idx, last_used_idx, buffer,
                   caller, a_idx>>

\* process_desc is entered for the chain in the current avail slot.
ProcessDesc ==
    /\ pc = "test"
    /\ last_avail_idx # avail_idx
    /\ d_idx' = avail_ring[a_idx]
    /\ i' = avail_ring[a_idx]
    /\ len' = 0
    /\ pc' = "walk"
    /\ UNCHANGED <<shared, guest, last_avail_idx, last_used_idx, buffer,
                   caller, a_idx>>

\* Mutant: the length of the last descriptor replaces the packet's length.
CopyDescLastLen ==
    /\ pc = "walk"
    /\ LET fits == len + desc[i].len < EthPacketSize
           more == fits /\ desc[i].next # NoNext
       IN /\ len' = IF fits THEN desc[i].len ELSE len
          /\ i' = IF more THEN desc[i].next ELSE i
          /\ pc' = IF more THEN "walk" ELSE "finish"
    /\ UNCHANGED <<shared, guest, last_avail_idx, last_used_idx, buffer,
                   caller, a_idx, d_idx>>

\* One turn of process_desc's loop: a descriptor that fits is copied and the
\* chain followed, one that does not ends the walk.
CopyDesc ==
    /\ pc = "walk"
    /\ LET fits == len + desc[i].len < EthPacketSize
           more == fits /\ desc[i].next # NoNext
       IN /\ len' = IF fits THEN len + desc[i].len ELSE len
          /\ i' = IF more THEN desc[i].next ELSE i
          /\ pc' = IF more THEN "walk" ELSE "finish"
    /\ UNCHANGED <<shared, guest, last_avail_idx, last_used_idx, buffer,
                   caller, a_idx, d_idx>>

\* avail_handler_server: the one packet buffer holds the last packet copied;
\* a packet that is only a header leaves it empty.
avail_handler_server(head, size) ==
    buffer' = IF size = 0 THEN NoPacket ELSE [head |-> head, size |-> size]

\* len - hdr_len is a subtraction of unsigned numbers: it wraps around for a
\* packet of which less than a net header was copied.
PayloadWraps == 0 < len /\ len < HdrLen

\* The rest of process_desc and of process_avail_vring's loop body.  A packet
\* of which nothing was copied is not entered in the used ring.
FinishDesc ==
    /\ pc = "finish"
    /\ ~PayloadWraps
    /\ IF len = 0
       THEN UNCHANGED <<used_ring, buffer>>
       ELSE /\ used_ring' = [used_ring EXCEPT ![Slot(last_used_idx)] =
                               [id |-> d_idx, len |-> len]]
            /\ avail_handler_server(d_idx, len - HdrLen)
    /\ a_idx' = (a_idx + 1) % Num
    /\ last_avail_idx' = Inc(last_avail_idx)
    /\ last_used_idx' = Inc(last_used_idx)
    /\ pc' = "test"
    /\ UNCHANGED <<desc, avail_ring, avail_idx, used_idx, kickfd, guest,
                   caller, d_idx, i, len>>

\* The same with a payload length that wraps around: the packet is entered in
\* the used ring, then avail_handler_server copies almost 2^64 bytes and the
\* server dies.
CrashDesc ==
    /\ pc = "finish"
    /\ PayloadWraps
    /\ used_ring' = [used_ring EXCEPT ![Slot(last_used_idx)] =
                        [id |-> d_idx, len |-> len]]
    /\ pc' = "crashed"
    /\ UNCHANGED <<desc, avail_ring, avail_idx, used_idx, kickfd, guest,
                   last_avail_idx, last_used_idx, buffer,
                   caller, a_idx, d_idx, i, len>>

\* The end of vhost_user_poll_handler: a buffered packet is handed to the
\* receive ring and the buffer is marked empty.
EchoBuffer ==
    /\ pc = "echo"
    /\ buffer' = NoPacket
    /\ pc' = "traverse"
    /\ UNCHANGED <<shared, guest, last_avail_idx, last_used_idx,
                   caller, a_idx, d_idx, i, len>>

ServerNext ==
    \/ SelectTimeout
    \/ KickServer
    \/ PollHandler
    \/ ProcessAvailVring
    \/ EndOfAvail
    \/ ProcessDesc
    \/ CopyDesc
    \/ FinishDesc
    \/ CrashDesc
    \/ EchoBuffer

Next == GuestNext \/ ServerNext

Spec == Init /\ [][Next]_vars /\ WF_vars(ServerNext)

-----------------------------------------------------------------------------
(* Properties.                                                             *)

\* One past the last avail slot the driver has filled.
FilledIdx == IF staged THEN Inc(avail_idx) ELSE avail_idx

\* The indices of the chains in flight, and of those among them that
\* process_avail_vring has not finished with.
InFlight == {x \in Index : Dist(guest_used, x) < Dist(guest_used, FilledIdx)}
Pending  == {x \in Index : Dist(last_avail_idx, x) < Dist(last_avail_idx, FilledIdx)}

\* The chain a ring index stands for: its avail entry until it is processed,
\* its used entry from then on.
HeadAt(x) == IF x \in Pending THEN avail_ring[Slot(x)] ELSE used_ring[Slot(x)].id

(* The 16-bit indices never overtake each other, wrap-around included:      *)
(* process_avail_vring never consumes past avail->idx, used->idx never      *)
(* exposes more than was processed, and a_idx stays the slot of             *)
(* last_avail_idx although the two are incremented separately.              *)
IndexWindow ==
    /\ last_used_idx = last_avail_idx
    /\ Dist(guest_used, used_idx) <= Dist(guest_used, last_used_idx)
    /\ Dist(guest_used, last_used_idx) <= Dist(guest_used, avail_idx)
    /\ Dist(guest_used, avail_idx) <= Num
    /\ staged => Dist(guest_used, avail_idx) < Num
    /\ pc \in {"test", "walk", "finish"} => a_idx = Slot(last_avail_idx)
    /\ pc \in {"walk", "finish", "crashed"} => last_avail_idx # avail_idx

(* No buffer is lost or returned twice: the chains the driver has in flight *)
(* are exactly the ones the rings account for, each at one index.           *)
ExactlyOnce ==
    /\ {HeadAt(x) : x \in InFlight} = {h \in Descs : chain[h] # {}}
    /\ \A x, y \in InFlight : HeadAt(x) = HeadAt(y) => x = y

(* process_desc reads only descriptors of the chain it is processing, which *)
(* the driver has handed over and cannot have taken back or reused.         *)
ReadsOnlyHandedOver ==
    pc = "walk" => /\ i \in chain[d_idx]
                   /\ d_idx = HeadAt(last_avail_idx)

\* The sizes of the descriptors in D, 0 for all others, and the sum of such
\* numbers.
Lens(table, D) == [d \in Descs |-> IF d \in D THEN table[d].len ELSE 0]
Total(w) == LET F[n \in 0..Num] == IF n = 0 THEN 0 ELSE F[n - 1] + w[n - 1]
            IN F[Num]

(* The payload length len - hdr_len wraps around, and the server dies of it, *)
(* only for a packet that is shorter than a net header, or that is too large *)
(* for the buffer and begins with a descriptor shorter than a net header.    *)
(* No other split of the header over the descriptors leads there.            *)
WrapsOnlyIfShort ==
    pc = "crashed" =>
        LET total == Total(Lens(desc, chain[d_idx]))
        IN \/ total < HdrLen
           \/ EthPacketSize <= total /\ desc[d_idx].len < HdrLen

(* The length process_desc reports in the used ring is that of the whole    *)
(* packet, added up descriptor by descriptor along the chain, whenever the  *)
(* packet fits the server's buffer.                                         *)
UsedLenIsPacketLen ==
    \A x \in InFlight \ Pending :
        LET u == used_ring[Slot(x)]
            total == Total(Lens(desc, chain[u.id]))
        IN total < EthPacketSize => u.len = total

(* A used entry the driver can see is never overwritten before the driver   *)
(* has taken it: process_desc only fills slots outside the visible part.    *)
VisibleUsedStable ==
    [][\A x \in Index :
         Dist(guest_used, x) < Dist(guest_used, used_idx)
           => used_ring'[Slot(x)] = used_ring[Slot(x)]]_vars

(* Every chain that was made available is eventually returned in the used   *)
(* ring, although used->idx is only published once avail is exhausted,      *)
(* unless the server dies of a packet that is too short.                    *)
EventuallyReturned ==
    \A x \in Index :
        Dist(last_avail_idx, x) < Dist(last_avail_idx, avail_idx)
          ~> \/ x \notin InFlight
             \/ Dist(guest_used, x) < Dist(guest_used, used_idx)
             \/ pc = "crashed"
=============================================================================
