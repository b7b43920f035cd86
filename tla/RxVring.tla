------------------------------ MODULE RxVring ------------------------------
(***************************************************************************)
(* The receive vring.  Two threads of the server put frames into it: the   *)
(* transport thread (rdma_read_send -> send_packet -> put_rx_vring) the    *)
(* frames that came over the network, and the main thread                  *)
(* (vhost_user_poll_handler -> put_vring) the echo of what the guest sent. *)
(* No lock protects the ring.  Every access to a location that another     *)
(* thread or the guest may write is a step of its own, the load and the    *)
(* store of avail->idx++ included; used->idx is only written by the        *)
(* transport thread, so that its load goes with the store that follows.    *)
(* Frames are numbered, and a buffer is abstracted to the number of the    *)
(* frame that was last copied into it.                                     *)
(*                                                                         *)
(* The ring is taken from the moment SET_VRING_ADDR has set it up.  The    *)
(* guest driver is outside src/.                                           *)
(***************************************************************************)
EXTENDS Integers, Sequences

CONSTANTS
    Num,        \* vring[RX].num, the number of descriptors
    BufLen,     \* the length of every buffer the guest supplies
    HdrLen,     \* sizeof(struct virtio_net_hdr)
    Sizes,      \* the sizes of the frames put into the ring
    Putters,    \* the threads that put frames into the ring
    MaxFrames   \* bound: the number of frames offered

ASSUME RxAssumption ==
    /\ Num \in Nat \ {0}
    /\ BufLen \in Nat /\ HdrLen \in Nat /\ MaxFrames \in Nat
    /\ Sizes \subseteq Nat
    /\ Putters \subseteq {"main", "transport"}

Descs == 0..(Num - 1)
VRING_IDX_NONE == Num          \* 65535: an index outside the table
Heads == Descs \cup {VRING_IDX_NONE}
Threads == {"main", "transport"}

VARIABLES
    \* memory shared with the guest
    desc,           \* descriptor table: len and next
    buf,            \* per descriptor, the frame in its buffer
    avail_ring, avail_idx,
    used_ring, used_idx,
    callfd,         \* TRUE: the guest's interrupt is pending
    \* the guest driver
    napi,           \* TRUE: the driver is polling the used ring
    guest_used,     \* used entries it has taken
    got,            \* what it read: frames and lengths, in order
    spare,          \* descriptors it has taken back and not posted again
    \* the server
    last_avail_idx, last_used_idx,
    pc, a_idx, u_idx, frame,   \* per thread: program point and locals
    idx,            \* per thread: the value of avail->idx it is about to use
    \* history
    frames,         \* frames offered so far
    heads,          \* times the available head was moved
    sent,           \* frames and lengths entered in the used ring, in order
    open            \* descriptors posted by the guest and not filled since

avail  == <<avail_ring, avail_idx>>
used   == <<used_ring, used_idx>>
ring   == <<desc, buf, avail, used, callfd>>
guest  == <<napi, guest_used, got, spare>>
last   == <<last_avail_idx, last_used_idx>>
locals == <<a_idx, u_idx, frame, idx>>
server == <<last, pc, locals>>
hist   == <<frames, heads, sent, open>>
vars   == <<ring, guest, server, hist>>

Points == {"idle", "check", "head", "uhead", "copy", "desc", "aslot", "aring",
           "aload", "aidx", "uring", "uidx", "kick", "undefined"}

Entry == [id : 0..MaxFrames, len : Nat]

TypeOK ==
    /\ desc \in [Descs -> [len : Nat, next : Heads]]
    /\ buf \in [Descs -> 0..MaxFrames]
    /\ avail_ring \in [Descs -> Descs]
    /\ used_ring \in [Descs -> [id : Descs, len : Nat]]
    /\ {avail_idx, used_idx, guest_used, heads} \subseteq Nat
    /\ frames \in 0..MaxFrames
    /\ {callfd, napi} \subseteq BOOLEAN
    /\ got \in Seq(Entry) /\ sent \in Seq(Entry)
    /\ spare \subseteq Descs /\ open \subseteq Descs
    /\ {last_avail_idx, last_used_idx} \subseteq Heads
    /\ pc \in [Threads -> Points]
    /\ a_idx \in [Threads -> Heads] /\ u_idx \in [Threads -> Heads]
    /\ frame \in [Threads -> [id : 0..MaxFrames, size : Nat]]
    /\ idx \in [Threads -> Nat]

\* The driver has filled the ring: every descriptor is posted, linked to its
\* neighbour as the driver's free list left it.
Init ==
    /\ desc = [d \in Descs |-> [len |-> BufLen, next |-> (d + 1) % Num]]
    /\ buf = [d \in Descs |-> 0]
    /\ avail_ring = [s \in Descs |-> s] /\ avail_idx = Num
    /\ used_ring = [s \in Descs |-> [id |-> 0, len |-> 0]] /\ used_idx = 0
    /\ callfd = FALSE /\ napi = FALSE
    /\ guest_used = 0 /\ got = <<>> /\ spare = {} /\ open = Descs
    /\ last_avail_idx = 0 /\ last_used_idx = 0
    /\ pc = [t \in Threads |-> "idle"]
    /\ a_idx = [t \in Threads |-> 0] /\ u_idx = [t \in Threads |-> 0]
    /\ frame = [t \in Threads |-> [id |-> 0, size |-> 0]]
    /\ idx = [t \in Threads |-> 0]
    /\ frames = 0 /\ heads = 0 /\ sent = <<>>

-----------------------------------------------------------------------------
(* The two functions, as the order of their accesses to shared memory.      *)

\* put_vring, and the kick its caller does whatever it returned.
PutVring ==
    [check |-> "head", head |-> "copy", copy |-> "desc", desc |-> "aslot",
     aslot |-> "aring", aring |-> "aload", aload |-> "aidx", aidx |-> "kick",
     refused |-> "kick"]

\* Mutant: the used entry is published before the frame is copied.
PutRxVringEarly ==
    [check |-> "head", head |-> "uhead", uhead |-> "uring", uring |-> "uidx",
     uidx |-> "copy", copy |-> "desc", desc |-> "aslot", aslot |-> "aring",
     aring |-> "aload", aload |-> "aidx", aidx |-> "kick", refused |-> "idle"]

\* Mutant: the caller does not kick.
PutRxVringNoKick ==
    [check |-> "head", head |-> "uhead", uhead |-> "copy", copy |-> "desc",
     desc |-> "aslot", aslot |-> "aring", aring |-> "aload", aload |-> "aidx",
     aidx |-> "uring", uring |-> "uidx", uidx |-> "idle", refused |-> "idle"]

\* put_rx_vring, and the kick of send_packet, which only follows success.
PutRxVring ==
    [check |-> "head", head |-> "uhead", uhead |-> "copy", copy |-> "desc",
     desc |-> "aslot", aslot |-> "aring", aring |-> "aload", aload |-> "aidx",
     aidx |-> "uring", uring |-> "uidx", uidx |-> "kick", refused |-> "idle"]

Then(t, p) == IF t = "main" THEN PutVring[p] ELSE PutRxVring[p]

\* Thread t leaves point p of its function.
At(t, p) ==
    /\ pc[t] = p
    /\ pc' = [pc EXCEPT ![t] = Then(t, p)]

\* A frame arrives from the network, or the guest sent one to be echoed, and
\* the function reads the heads of the ring.
PutStart(t, n) ==
    /\ pc[t] = "idle"
    /\ t \in Putters
    /\ frames < MaxFrames
    /\ frames' = frames + 1
    /\ frame' = [frame EXCEPT ![t] = [id |-> frames + 1, size |-> n]]
    /\ a_idx' = [a_idx EXCEPT ![t] = last_avail_idx]
    /\ u_idx' = [u_idx EXCEPT ![t] = last_used_idx]
    /\ pc' = [pc EXCEPT ![t] = "check"]
    /\ UNCHANGED <<ring, guest, last, idx, heads, sent, open>>

\* desc[] is read at an index outside the table: whatever follows is
\* undefined, and the thread is not followed any further.
WildIndex(t) ==
    /\ \/ pc[t] = "check" /\ a_idx[t] \notin Descs
       \/ pc[t] = "uhead" /\ u_idx[t] \notin Descs
    /\ pc' = [pc EXCEPT ![t] = "undefined"]
    /\ UNCHANGED <<ring, guest, last, locals, hist>>

\* A frame larger than the descriptor is refused.
PutRefused(t) ==
    /\ pc[t] = "check" /\ a_idx[t] \in Descs
    /\ frame[t].size > desc[a_idx[t]].len
    /\ pc' = [pc EXCEPT ![t] = Then(t, "refused")]
    /\ UNCHANGED <<ring, guest, last, locals, hist>>

PutAccepted(t) ==
    /\ At(t, "check") /\ a_idx[t] \in Descs
    /\ frame[t].size <= desc[a_idx[t]].len
    /\ UNCHANGED <<ring, guest, last, locals, hist>>

\* Mutant: the available head is not moved.
MoveHeadStays(t) ==
    /\ At(t, "head")
    /\ heads' = heads + 1
    /\ UNCHANGED <<ring, guest, last, locals, frames, sent, open>>

\* Move the available head to the descriptor's successor.
MoveHead(t) ==
    /\ At(t, "head")
    /\ last_avail_idx' = desc[a_idx[t]].next
    /\ heads' = heads + 1
    /\ UNCHANGED <<ring, guest, last_used_idx, locals, frames, sent, open>>

\* Move the used head; only put_rx_vring has one.
MoveUsedHead(t) ==
    /\ At(t, "uhead") /\ u_idx[t] \in Descs
    /\ last_used_idx' = desc[u_idx[t]].next
    /\ UNCHANGED <<ring, guest, last_avail_idx, locals, hist>>

\* Map the buffer, clear the net header, copy the frame behind it.
CopyFrame(t) ==
    /\ At(t, "copy")
    /\ buf' = [buf EXCEPT ![a_idx[t]] = frame[t].id]
    /\ open' = open \ {a_idx[t]}
    /\ UNCHANGED <<desc, avail, used, callfd, guest, last, locals, frames, heads,
                   sent>>

\* Write the descriptor: the length of header and frame, and no successor.
SetDesc(t) ==
    /\ At(t, "desc")
    /\ desc' = [desc EXCEPT ![a_idx[t]] =
                  [len |-> HdrLen + frame[t].size, next |-> VRING_IDX_NONE]]
    /\ UNCHANGED <<buf, avail, used, callfd, guest, last, locals, hist>>

\* Load avail->idx, once for the slot to fill and once for its increment.
LoadAvail(t) ==
    /\ At(t, "aslot") \/ At(t, "aload")
    /\ idx' = [idx EXCEPT ![t] = avail_idx]
    /\ UNCHANGED <<ring, guest, last, a_idx, u_idx, frame, hist>>

AddAvail(t) ==
    /\ At(t, "aring")
    /\ avail_ring' = [avail_ring EXCEPT ![idx[t] % Num] = a_idx[t]]
    /\ idx' = [idx EXCEPT ![t] = 0]
    /\ UNCHANGED <<desc, buf, avail_idx, used, callfd, guest, last, a_idx, u_idx,
                   frame, hist>>

BumpAvail(t) ==
    /\ At(t, "aidx")
    /\ avail_idx' = idx[t] + 1
    /\ idx' = [idx EXCEPT ![t] = 0]
    /\ UNCHANGED <<desc, buf, avail_ring, used, callfd, guest, last, a_idx, u_idx,
                   frame, hist>>

AddUsed(t) ==
    /\ At(t, "uring")
    /\ used_ring' = [used_ring EXCEPT ![used_idx % Num] =
                       [id |-> u_idx[t], len |-> HdrLen + frame[t].size]]
    /\ UNCHANGED <<desc, buf, avail, used_idx, callfd, guest, last, locals, hist>>

BumpUsed(t) ==
    /\ At(t, "uidx")
    /\ used_idx' = used_idx + 1
    /\ sent' = Append(sent, [id |-> frame[t].id, len |-> HdrLen + frame[t].size])
    /\ UNCHANGED <<desc, buf, avail, used_ring, callfd, guest, last, locals,
                   frames, heads, open>>

\* kick signals the guest through callfd.  Its write to the ring's kickfd is
\* read by nobody: only the transmit ring's kickfd is in the fd list.
Kick(t) ==
    /\ pc[t] = "kick"
    /\ pc' = [pc EXCEPT ![t] = "idle"]
    /\ callfd' = TRUE
    /\ UNCHANGED <<desc, buf, avail, used, guest, last, locals, hist>>

\* A thread goes on with the put it has begun.
PutStep(t) ==
    \/ WildIndex(t) \/ PutRefused(t) \/ PutAccepted(t) \/ MoveHead(t) \/ MoveUsedHead(t)
    \/ CopyFrame(t) \/ SetDesc(t) \/ LoadAvail(t) \/ AddAvail(t) \/ BumpAvail(t)
    \/ AddUsed(t) \/ BumpUsed(t) \/ Kick(t)

-----------------------------------------------------------------------------
(* The guest driver.                                                       *)

\* The interrupt starts a poll of the used ring.
GuestInterrupt ==
    /\ callfd
    /\ callfd' = FALSE /\ napi' = TRUE
    /\ UNCHANGED <<desc, buf, avail, used, guest_used, got, spare, server, hist>>

\* The driver takes the frame the next used entry names.  It refuses an entry
\* that does not name a descriptor it has posted.
GuestTake ==
    /\ napi /\ guest_used # used_idx
    /\ LET e == used_ring[guest_used % Num]
       IN /\ e.id \notin spare
          /\ got' = Append(got, [id |-> buf[e.id], len |-> e.len])
          /\ spare' = spare \cup {e.id}
    /\ guest_used' = guest_used + 1
    /\ UNCHANGED <<ring, napi, server, hist>>

GuestIdle ==
    /\ napi /\ guest_used = used_idx
    /\ napi' = FALSE
    /\ UNCHANGED <<ring, guest_used, got, spare, server, hist>>

\* The driver posts a buffer again.  It is a chain of one, whose next field
\* means nothing and holds what the driver's free list left there.
GuestPost(d, n) ==
    /\ d \in spare
    /\ spare' = spare \ {d}
    /\ desc' = [desc EXCEPT ![d] = [len |-> BufLen, next |-> n]]
    /\ avail_ring' = [avail_ring EXCEPT ![avail_idx % Num] = d]
    /\ avail_idx' = avail_idx + 1
    /\ open' = open \cup {d}
    /\ UNCHANGED <<buf, used, callfd, napi, guest_used, got, server, frames, heads,
                   sent>>

-----------------------------------------------------------------------------
Next ==
    \/ \E t \in Threads : PutStep(t) \/ \E n \in Sizes : PutStart(t, n)
    \/ GuestInterrupt \/ GuestTake \/ GuestIdle
    \/ \E d, n \in Descs : GuestPost(d, n)

Spec == Init /\ [][Next]_vars

\* A thread that has begun a put goes on, and the guest serves its interrupt.
FairSpec == /\ Spec
            /\ \A t \in Threads : WF_vars(PutStep(t))
            /\ WF_vars(GuestInterrupt) /\ WF_vars(GuestTake)

-----------------------------------------------------------------------------
(* Properties.                                                             *)

\* A thread that has put no frame has not taken a frame number.
Idle(t) == frame[t].id = 0

(* While nothing has been echoed, and during the first pass over the        *)
(* descriptor table, the guest receives exactly the frames put_rx_vring     *)
(* entered in the used ring, in their order and with their lengths: the     *)
(* used entry, whose id comes from one head of the ring, names the buffer   *)
(* the frame was copied to, which comes from the other, and it is published *)
(* after the copy.                                                          *)
FramesInOrder ==
    heads <= Num /\ Idle("main") =>
        /\ Len(got) <= Len(sent)
        /\ \A k \in 1..Len(got) : got[k] = sent[k]

(* During the first pass, while only one of the two threads puts frames, a  *)
(* frame is copied only into a buffer the guest has posted and that holds   *)
(* no other frame.                                                          *)
FirstPassUsesPosted ==
    \A t \in Threads :
        pc[t] = "copy" /\ heads <= Num /\ (\E s \in Threads : Idle(s)) => a_idx[t] \in open

(* A frame is only ever copied into a buffer the guest has posted and that  *)
(* holds no other frame (put_rx_vring: "guest has allocated available index *)
(* for you").                                                               *)
UsesPosted ==
    \A t \in Threads : pc[t] = "copy" => a_idx[t] \in open

(* During the first pass, and while nothing has been echoed, every frame    *)
(* entered in the used ring is eventually taken by the guest, which only    *)
(* looks at the ring when it is interrupted.                                *)
Delivered ==
    \A k \in 1..MaxFrames :
        used_idx >= k ~> guest_used >= k \/ heads > Num \/ ~Idle("main")
=============================================================================
