--------------------------- MODULE ControlChannel ---------------------------
(***************************************************************************)
(* The vhost-user control channel: QEMU configures the rings over a unix   *)
(* stream socket, the server handles what recvmsg returns.                 *)
(*                                                                         *)
(* QEMU never waits for an answer.  A stream has no message boundaries:    *)
(* recvmsg returns what is queued up to and including the first write that *)
(* carried descriptors, but no more than a VHostUserMsg, and the server    *)
(* handles the first message of what it got.  A later QEMU may connect     *)
(* while messages of an earlier one are still unread.                      *)
(***************************************************************************)
EXTENDS Integers, Sequences

CONSTANTS
    QueueSize,    \* virtio_queue_get_num
    IndexMod,     \* 2^16, the range of the ring indices
    MaxConns,     \* bound: connections
    MaxStarts,    \* bound: starts of the device, over all connections
    MaxAsides,    \* bound: messages sent on their own, by the timer or when asked
    MaxAvail,     \* bound: transmit buffers the guest of a connection publishes
    MaxQueued,    \* bound: unread messages that fit the socket, then sendmsg waits
    MemRegions    \* the number of regions in a SET_MEM_TABLE

ASSUME ChannelAssumption ==
    /\ QueueSize \in Nat \ {0} /\ IndexMod \in Nat \ {0}
    /\ {MaxConns, MaxStarts, MaxAsides, MaxAvail, MaxQueued} \subseteq Nat
    /\ MaxAvail < IndexMod
    /\ MemRegions \in 1..8    \* VHOST_MEMORY_MAX_NREGIONS

RX == 0    \* VHOST_CLIENT_VRING_IDX_RX
TX == 1    \* VHOST_CLIENT_VRING_IDX_TX
Rings == {RX, TX}
ConnIds == 1..MaxConns

\* The descriptors a message may carry, by what they are and whose.
NoFd == [kind |-> "none", ring |-> RX, conn |-> 0]
FdOf(k, i, c) == [kind |-> k, ring |-> i, conn |-> c]
FdSet == [kind : {"none", "kick", "masked", "guest", "memory"}, ring : Rings, conn : 0..MaxConns]

Requests == {"ECHO", "SET_OWNER", "GET_FEATURES", "SET_FEATURES", "SET_MEM_TABLE",
             "SET_VRING_NUM", "SET_VRING_BASE", "SET_VRING_ADDR", "SET_VRING_KICK",
             "SET_VRING_CALL", "NET_SET_BACKEND", "GET_VRING_BASE"}
MsgSet == [req : Requests, ring : Rings, num : Nat, fd : FdSet, conn : ConnIds]

VARIABLES
    cur,          \* QEMU: the connection, 0 before the first
    started,      \* QEMU: hdev->started
    script,       \* QEMU: the messages the running function has yet to send
    last_avail_idx,  \* QEMU: the transmit queue's VirtQueue.last_avail_idx
    starts,       \* the number of starts so far
    asides,       \* the number of messages sent on their own so far
    avail,        \* per connection, avail->idx of its guest's transmit ring
    chan,         \* per connection, what the server has not read
    ended,        \* the connections QEMU has closed
    eofs,         \* the closed connections whose end the server has not read
    memory,       \* server: the connection whose memory is mapped, 0 for none
    vring,        \* server: vring_table
    last,         \* server: what the stack still holds of the message before
    torn,         \* the connections of whose next message a part has been read
    processed,    \* per connection, how often a transmit buffer was processed
    kept,         \* history: no message of the current QEMU was dropped, and none of
                  \* an earlier one was read after the server had heard it
    status        \* server: "ok", "assert" (an assertion failed), "crash", or
                  \* "garbled" (a read began inside a message)

qemu   == <<cur, started, script, last_avail_idx, starts, asides, avail>>
server == <<memory, vring, last, torn, status>>
vars   == <<qemu, chan, ended, eofs, server, processed, kept>>

VringSet == [num : {0, QueueSize}, last_avail_idx : 0..(IndexMod - 1),
             desc : 0..MaxConns, kickfd : FdSet, callfd : FdSet]

TypeOK ==
    /\ cur \in 0..MaxConns /\ started \in BOOLEAN
    /\ script \in Seq(MsgSet)
    /\ last_avail_idx \in 0..(IndexMod - 1) /\ starts \in 0..MaxStarts
    /\ asides \in 0..MaxAsides
    /\ avail \in [ConnIds -> 0..MaxAvail]
    /\ chan \in [ConnIds -> Seq(MsgSet)]
    /\ ended \subseteq ConnIds /\ eofs \subseteq ended
    /\ memory \in 0..MaxConns
    /\ vring \in [Rings -> VringSet]
    /\ last \in Seq(MsgSet) /\ Len(last) <= 1
    /\ torn \subseteq ConnIds
    /\ processed \in [ConnIds -> Nat]
    /\ kept \in BOOLEAN
    /\ status \in {"ok", "assert", "crash", "garbled"}

Init ==
    /\ cur = 0 /\ started = FALSE /\ script = <<>>
    /\ last_avail_idx = 0 /\ starts = 0 /\ asides = 0
    /\ avail = [c \in ConnIds |-> 0]
    /\ chan = [c \in ConnIds |-> <<>>]
    /\ ended = {} /\ eofs = {}
    /\ memory = 0
    /\ vring = [i \in Rings |-> [num |-> 0, last_avail_idx |-> 0, desc |-> 0,
                                 kickfd |-> NoFd, callfd |-> NoFd]]
    /\ last = <<>> /\ torn = {}
    /\ processed = [c \in ConnIds |-> 0]
    /\ kept = TRUE
    /\ status = "ok"

-----------------------------------------------------------------------------
(* QEMU.                                                                   *)

Msg(r, i, n, fd, c) == [req |-> r, ring |-> i, num |-> n, fd |-> fd, conn |-> c]
Plain(r, c) == Msg(r, RX, 0, NoFd, c)
Call(k, i, c) == Msg("SET_VRING_CALL", i, 0, FdOf(k, i, c), c)

\* vhost_user_init and vhost_dev_init.
InitMsgs(c) ==
    <<Plain("ECHO", c), Plain("SET_OWNER", c), Plain("GET_FEATURES", c),
      Call("masked", RX, c), Call("masked", TX, c)>>

MemTable(c) == Msg("SET_MEM_TABLE", RX, 0, FdOf("memory", RX, c), c)

\* Mutant: the size of the ring is sent last.
VirtqueueStartNumLast(i, base, c) ==
    <<Msg("SET_VRING_BASE", i, base, NoFd, c), Msg("SET_VRING_ADDR", i, 0, NoFd, c),
      Msg("SET_VRING_KICK", i, 0, FdOf("kick", i, c), c),
      Msg("SET_VRING_NUM", i, QueueSize, NoFd, c)>>

\* vhost_virtqueue_start.
VirtqueueStart(i, base, c) ==
    <<Msg("SET_VRING_NUM", i, QueueSize, NoFd, c), Msg("SET_VRING_BASE", i, base, NoFd, c),
      Msg("SET_VRING_ADDR", i, 0, NoFd, c),
      Msg("SET_VRING_KICK", i, 0, FdOf("kick", i, c), c)>>

\* vhost_dev_start.
StartMsgs(base, c) ==
    <<Plain("SET_FEATURES", c), MemTable(c)>>
       \o VirtqueueStart(RX, 0, c) \o VirtqueueStart(TX, base, c)

\* vhost_net_stop_one and vhost_virtqueue_stop; no descriptor is sent with -1,
\* and GET_VRING_BASE is sent without its payload.
StopMsgs(c) ==
    <<Msg("NET_SET_BACKEND", RX, 0, NoFd, c), Msg("NET_SET_BACKEND", TX, 0, NoFd, c),
      Plain("GET_VRING_BASE", c), Plain("GET_VRING_BASE", c)>>

\* What happens after the server has died is of no interest.
Up == status = "ok"

\* The thread that talks to the server is in none of the functions above.
Idle == cur # 0 /\ cur \notin ended /\ script = <<>>

Connect ==
    /\ Up
    /\ cur = 0 \/ cur \in ended
    /\ cur < MaxConns
    /\ cur' = cur + 1
    /\ script' = InitMsgs(cur + 1)
    /\ last_avail_idx' = 0
    /\ kept' = TRUE
    /\ UNCHANGED <<started, starts, asides, avail, chan, ended, eofs, server, processed>>

\* QEMU goes away, whatever it was doing.
Close ==
    /\ Up
    /\ cur # 0 /\ cur \notin ended
    /\ ended' = ended \cup {cur} /\ eofs' = eofs \cup {cur}
    /\ script' = <<>> /\ started' = FALSE
    /\ UNCHANGED <<cur, last_avail_idx, starts, asides, avail, chan, server, processed, kept>>

\* vhost_user_send_fds.
SendFds ==
    /\ Up
    /\ script # <<>>
    /\ Len(chan[cur]) < MaxQueued
    /\ chan' = [chan EXCEPT ![cur] = Append(@, Head(script))]
    /\ script' = Tail(script)
    /\ UNCHANGED <<cur, started, last_avail_idx, starts, asides, avail, ended, eofs, server, processed, kept>>

DevStart ==
    /\ Up
    /\ Idle /\ ~started
    /\ starts < MaxStarts
    /\ started' = TRUE /\ starts' = starts + 1
    /\ script' = StartMsgs(last_avail_idx, cur)
    /\ UNCHANGED <<cur, last_avail_idx, asides, avail, chan, ended, eofs, server, processed, kept>>

\* The position to resume at is taken from a reply that is not read.
DevStop ==
    /\ Up
    /\ Idle /\ started
    /\ started' = FALSE
    /\ script' = StopMsgs(cur)
    /\ last_avail_idx' = 0
    /\ UNCHANGED <<cur, starts, asides, avail, chan, ended, eofs, server, processed, kept>>

\* One message at a time: the timer's vhost_user_echo, vhost_virtqueue_mask,
\* and vhost_commit when the memory map has changed.
SendOne ==
    /\ Up
    /\ Idle
    /\ asides < MaxAsides
    /\ asides' = asides + 1
    /\ \/ script' = <<Plain("ECHO", cur)>>
       \/ started /\ \E i \in Rings, k \in {"masked", "guest"} : script' = <<Call(k, i, cur)>>
       \/ started /\ script' = <<MemTable(cur)>>
    /\ UNCHANGED <<cur, started, last_avail_idx, starts, avail, chan, ended, eofs, server, processed, kept>>

GuestPublish ==
    /\ Up
    /\ started
    /\ avail[cur] < MaxAvail
    /\ avail' = [avail EXCEPT ![cur] = @ + 1]
    /\ UNCHANGED <<cur, started, script, last_avail_idx, starts, asides, chan, ended, eofs, server, processed, kept>>

-----------------------------------------------------------------------------
(* The handlers of the server.                                             *)

SetRing(i, f) == vring' = [vring EXCEPT ![i] = f] /\ UNCHANGED <<memory, status>>
Fail(s) == status' = s /\ UNCHANGED <<memory, vring>>

\* _set_mem_table: a region whose descriptor is not positive is left out, one
\* whose descriptor is on the stack but did not come asserts.
_set_mem_table(m, nfds) ==
    IF m.fd # NoFd /\ nfds = 0 THEN Fail("assert")
    ELSE /\ memory' = IF m.fd = NoFd THEN 0 ELSE m.conn
         /\ UNCHANGED <<vring, status>>

_set_vring_num(m) == SetRing(m.ring, [vring[m.ring] EXCEPT !.num = m.num])
_set_vring_base(m) == SetRing(m.ring, [vring[m.ring] EXCEPT !.last_avail_idx = m.num])

\* The addresses are looked up in the memory that is mapped; an address that
\* is in none of its regions maps to 0, and used->idx is read through it.
_set_vring_addr(m) ==
    \/ memory # 0 /\ SetRing(m.ring, [vring[m.ring] EXCEPT !.desc = memory])
    \/ memory # m.conn /\ Fail("crash")

\* Mutant: the ring the descriptor is for is not looked at.
SetKickAnyRing(m, nfds) ==
    IF nfds # 1 THEN Fail("assert")
    ELSE SetRing(TX, [vring[TX] EXCEPT !.kickfd = m.fd])

_set_vring_kick(m, nfds) ==
    IF nfds # 1 THEN Fail("assert")
    ELSE SetRing(m.ring, [vring[m.ring] EXCEPT !.kickfd = m.fd])

\* Mutant: a call descriptor that is set is kept.
SetCallOnce(m) ==
    SetRing(m.ring, [vring[m.ring] EXCEPT !.callfd = IF @ = NoFd THEN m.fd ELSE @])

_set_vring_call(m) == SetRing(m.ring, [vring[m.ring] EXCEPT !.callfd = m.fd])

\* The ring number is not in the message: it is the request number of the
\* message behind it, or else what the stack holds.
_get_vring_base(behind) ==
    \/ Fail("assert")
    \/ ~behind /\ UNCHANGED <<memory, vring, status>>

\* in_msg_server.
InMsgServer(m, nfds, behind) ==
    \/ m.req = "SET_MEM_TABLE" /\ _set_mem_table(m, nfds)
    \/ m.req = "SET_VRING_NUM" /\ _set_vring_num(m)
    \/ m.req = "SET_VRING_BASE" /\ _set_vring_base(m)
    \/ m.req = "SET_VRING_ADDR" /\ _set_vring_addr(m)
    \/ m.req = "SET_VRING_KICK" /\ _set_vring_kick(m, nfds)
    \/ m.req = "SET_VRING_CALL" /\ _set_vring_call(m)
    \/ m.req = "GET_VRING_BASE" /\ _get_vring_base(behind)
    \/ /\ m.req \in {"ECHO", "SET_OWNER", "GET_FEATURES", "SET_FEATURES", "NET_SET_BACKEND"}
       /\ UNCHANGED <<memory, vring, status>>

-----------------------------------------------------------------------------
(* The server reads.                                                       *)

\* The length of a message and of the buffer it is read into, in 32-bit words:
\* VHOST_USER_HDR_SIZE + msg.size and sizeof(struct VHostUserMsg).
Words(m) ==
    CASE m.req \in {"ECHO", "SET_OWNER", "GET_FEATURES", "GET_VRING_BASE"} -> 3
      [] m.req = "SET_VRING_ADDR" -> 13
      [] m.req = "SET_MEM_TABLE" -> 5 + 6 * MemRegions
      [] OTHER -> 5
BufferWords == 53

\* The words of the first k messages that are queued.
Upto(c, k) ==
    LET F[n \in 0..Len(chan[c])] == IF n = 0 THEN 0 ELSE F[n - 1] + Words(chan[c][n])
    IN F[k]

\* recvmsg stops behind the first write that carried descriptors, when the
\* buffer is full, and when nothing more is queued.
Stops(c) == {k \in 1..Len(chan[c]) : \/ chan[c][k].fd # NoFd
                                     \/ Upto(c, k) >= BufferWords
                                     \/ k = Len(chan[c])}
Taken(c) == CHOOSE k \in Stops(c) : \A j \in Stops(c) : k <= j

\* The server has heard the current QEMU.
Heard == last # <<>> /\ last[1].conn = cur

\* vhost_user_receive and receive_sock_server: the first message is handled,
\* with the descriptors that came, and the rest of what was read is dropped.
Receive(c) ==
    /\ Up
    /\ chan[c] # <<>> /\ c \notin torn
    /\ LET n == Taken(c)
           m == [Head(chan[c]) EXCEPT !.fd = chan[c][n].fd]
       IN /\ InMsgServer(m, IF m.fd = NoFd THEN 0 ELSE 1, n > 1)
          /\ last' = <<m>>
          /\ chan' = [chan EXCEPT ![c] = SubSeq(@, n + 1, Len(@))]
          /\ torn' = IF Upto(c, n) > BufferWords THEN torn \cup {c} ELSE torn
          /\ kept' = (kept /\ IF c = cur THEN n = 1 ELSE ~Heard)
    /\ UNCHANGED <<qemu, ended, eofs, processed>>

\* A read begins inside a message, whose words are taken for a request.  What
\* the server does from then on is not followed.
ReceiveTorn(c) ==
    /\ Up
    /\ c \in torn
    /\ Fail("garbled")
    /\ UNCHANGED <<qemu, chan, ended, eofs, last, torn, processed, kept>>

\* The end of the stream: the message is not initialised and is handled all
\* the same, as what the stack happens to hold.
ReceiveEof(c) ==
    /\ Up
    /\ c \in eofs /\ chan[c] = <<>> /\ c \notin torn
    /\ eofs' = eofs \ {c}
    /\ \/ UNCHANGED <<memory, vring, status>>
       \/ Fail("assert")
       \/ last # <<>> /\ InMsgServer(last[1], 0, FALSE)
    /\ UNCHANGED <<qemu, chan, ended, last, torn, processed, kept>>

\* Mutant: the position in the ring is not moved.
PollAvailVringStays ==
    LET v == vring[TX] IN
    /\ Up
    /\ vring[RX].desc # 0 \/ v.kickfd # NoFd
    /\ v.desc # 0
    /\ IF v.num = 0
       THEN Fail("crash") /\ processed' = processed
       ELSE /\ v.last_avail_idx # avail[v.desc]
            /\ processed' = [processed EXCEPT ![v.desc] = @ + 1]
            /\ UNCHANGED <<memory, vring, status>>
    /\ UNCHANGED <<qemu, chan, ended, eofs, last, torn, kept>>

\* vhost_user_poll_handler or _kick_server, then process_avail_vring, one
\* buffer of the transmit ring.
PollAvailVring ==
    LET v == vring[TX] IN
    /\ Up
    /\ vring[RX].desc # 0 \/ v.kickfd # NoFd
    /\ v.desc # 0
    /\ IF v.num = 0
       THEN Fail("crash") /\ processed' = processed
       ELSE /\ v.last_avail_idx # avail[v.desc]
            /\ SetRing(TX, [v EXCEPT !.last_avail_idx = (@ + 1) % IndexMod])
            /\ processed' = [processed EXCEPT ![v.desc] = @ + 1]
    /\ UNCHANGED <<qemu, chan, ended, eofs, last, torn, kept>>

Next ==
    \/ Connect \/ Close \/ SendFds \/ DevStart \/ DevStop \/ SendOne \/ GuestPublish
    \/ \E c \in ConnIds : Receive(c) \/ ReceiveTorn(c) \/ ReceiveEof(c)
    \/ PollAvailVring

Spec == Init /\ [][Next]_vars

-----------------------------------------------------------------------------
(* Properties.                                                             *)

(* Whatever messages are swallowed, process_avail_vring never divides by a *)
(* ring size of 0: a ring has its size before it has its addresses, since  *)
(* SET_VRING_NUM directly follows a message with a descriptor.             *)
NumBeforeDesc == \A i \in Rings : vring[i].desc # 0 => vring[i].num # 0

(* A ring's eventfds are that ring's own: descriptors are never taken for  *)
(* those of another request or ring, although recvmsg may return them with *)
(* an earlier message's bytes.                                             *)
OwnDescriptors ==
    \A i \in Rings :
        /\ vring[i].kickfd = NoFd \/ (vring[i].kickfd.kind = "kick" /\ vring[i].kickfd.ring = i)
        /\ vring[i].callfd = NoFd \/ (/\ vring[i].callfd.kind \in {"masked", "guest"}
                                      /\ vring[i].callfd.ring = i)

\* The server has each ring's size, addresses and eventfds as the current QEMU
\* sent them.
Configured ==
    /\ memory = cur
    /\ \A i \in Rings : /\ vring[i].num = QueueSize
                        /\ vring[i].desc = cur
                        /\ vring[i].kickfd = FdOf("kick", i, cur)
                        /\ vring[i].callfd.conn = cur

(* Once QEMU has started the device and the server has read everything,    *)
(* the server has its configuration.                                       *)
ConfigMatches ==
    Idle /\ started /\ Up /\ eofs = {} /\ (\A c \in ConnIds : chan[c] = <<>>) => Configured

(* The only ways to lose the configuration are a read that returns a       *)
(* second message of this QEMU, which receive_sock_server drops, and one   *)
(* of an earlier QEMU's messages after this one was heard.  Otherwise a    *)
(* server that has read what QEMU sent has its configuration, whatever     *)
(* earlier ones had sent, lost or left half done.                          *)
ConfigArrives == kept /\ Idle /\ started /\ chan[cur] = <<>> => Configured

(* Until the device is started a second time, a transmit buffer is         *)
(* processed at most once, whichever of the kick handler and the poll      *)
(* handler gets to it and whatever is configured meanwhile.                *)
ProcessedOnce == starts <= 1 => \A c \in ConnIds : processed[c] <= avail[c]
=============================================================================
