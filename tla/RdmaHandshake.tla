--------------------------- MODULE RdmaHandshake ---------------------------
(***************************************************************************)
(* How the transport threads of two vhost_user processes set up their RDMA *)
(* connection: handle_rdma_transport in the process that sends ("server")  *)
(* and handle_rdma_transport_receive in the one that receives ("client").  *)
(* Each prepares a queue pair (QP), they exchange its parameters over TCP, *)
(* and bring it to the state they need.  Every failure ends the process    *)
(* (the TEST macros call exit), the thread that serves QEMU included.      *)
(*                                                                         *)
(* The receiving thread then polls g_send_lock, by which the main thread,  *)
(* in _set_vring_addr, tells it that the receive ring is set up.  Each     *)
(* store of _set_vring_addr is a step of its own.  The transmit ring is    *)
(* set up by the same function, which sets the same lock; QEMU sends the   *)
(* receive ring's message first, but a message can be lost on the way (see *)
(* ControlChannel), so the two come in any order here.                     *)
(***************************************************************************)
EXTENDS Integers, Sequences

CONSTANTS
    NAddrs,     \* the addresses getaddrinfo gives for the server's name
    MaxConfigs  \* bound: how often the receive ring is set up

ASSUME HandshakeAssumption == NAddrs \in Nat \ {0} /\ MaxConfigs \in Nat

VARIABLES
    thread,     \* what each transport thread does next
    qp,         \* the state of each queue pair
    listening,  \* the server's socket listens
    conns,      \* the number of connections the client has made
    sock,       \* the connection each side uses, 0 before it has one
    wrote,      \* the sides that have written their parameters
    configs,    \* how often the client's main thread has begun to set up its receive ring
    store,      \* the store of _set_vring_addr it makes next, 0 outside of it
    ring,       \* the ring it sets up, or did last
    vring,      \* per field of the receive ring, the number of the configuration it is of
    lock,       \* g_send_lock
    ahead       \* history: the lock was set before the receive ring was first set up

hands == <<qp, listening, conns, sock, wrote>>
main  == <<configs, store, ring, vring, lock, ahead>>
handshakeVars == <<thread, hands, main>>

Procs == {"client", "server"}
Peer(p) == IF p = "client" THEN "server" ELSE "client"

\* Mutant: the lock is set before the ring is.
StoresLockFirst == <<"g_send_lock", "desc", "avail", "used", "last_used_idx">>

\* Mutant: the lock is not set.
StoresNoLock == <<"desc", "avail", "used", "last_used_idx">>

\* What _set_vring_addr stores, in this order.
Stores == <<"desc", "avail", "used", "last_used_idx", "g_send_lock">>

Fields == {"desc", "avail", "used", "last_used_idx"}

HandshakeTypeOK ==
    /\ thread \in [Procs -> {"init", "listen", "accept", "connect", "write", "read",
                             "rtr", "rts", "done", "poll", "put", "exited"}]
    /\ qp \in [Procs -> {"RESET", "INIT", "RTR", "RTS"}]
    /\ listening \in BOOLEAN
    /\ conns \in 0..NAddrs
    /\ sock \in [Procs -> 0..NAddrs]
    /\ wrote \subseteq Procs
    /\ configs \in 0..MaxConfigs /\ store \in 0..Len(Stores)
    /\ ring \in {"rx", "tx"} /\ vring \in [Fields -> 0..MaxConfigs]
    /\ lock \in BOOLEAN /\ ahead \in BOOLEAN

HandshakeInit ==
    /\ thread = [p \in Procs |-> "init"]
    /\ qp = [p \in Procs |-> "RESET"]
    /\ listening = FALSE /\ conns = 0
    /\ sock = [p \in Procs |-> 0]
    /\ wrote = {}
    /\ configs = 0 /\ store = 0 /\ ring = "tx" /\ vring = [l \in Fields |-> 0]
    /\ lock = FALSE /\ ahead = FALSE

Goto(p, l) == thread' = [thread EXCEPT ![p] = l]
Exited(p)  == thread[p] = "exited"

\* exit: the sockets of the process are closed.
Exit(p) ==
    /\ Goto(p, "exited")
    /\ listening' = (listening /\ p # "server")
    /\ UNCHANGED <<qp, conns, sock, wrote, main>>

\* init_context and set_local_ib_connection.
InitContext(p) ==
    /\ thread[p] = "init"
    /\ qp' = [qp EXCEPT ![p] = "INIT"]
    /\ Goto(p, IF p = "server" THEN "listen" ELSE "connect")
    /\ UNCHANGED <<listening, conns, sock, wrote, main>>

\* tcp_server_listen, up to accept.
Listen ==
    /\ thread["server"] = "listen"
    /\ listening' = TRUE
    /\ Goto("server", "accept")
    /\ UNCHANGED <<qp, conns, sock, wrote, main>>

\* accept: the first connection, which may have been waiting for a while.
Accept ==
    /\ thread["server"] = "accept" /\ conns > 0
    /\ sock' = [sock EXCEPT !["server"] = 1]
    /\ Goto("server", "write")
    /\ UNCHANGED <<qp, listening, conns, wrote, main>>

\* tcp_client_connect makes a connection to every address and keeps the last.
Connect ==
    /\ thread["client"] = "connect"
    /\ listening
    /\ conns' = conns + 1
    /\ sock' = [sock EXCEPT !["client"] = conns + 1]
    /\ Goto("client", IF conns + 1 = NAddrs THEN "write" ELSE "connect")
    /\ UNCHANGED <<qp, listening, wrote, main>>

\* Nobody listens yet.
ConnectRefused ==
    /\ thread["client"] = "connect"
    /\ ~listening
    /\ Exit("client")

\* What the peer wrote can be read on the connection that p uses.
Readable(p) == Peer(p) \in wrote /\ sock[p] = sock[Peer(p)]

\* Mutant: each side reads before it writes.
WriteInfoAfterRead(p) ==
    /\ thread[p] = "write" /\ Readable(p)
    /\ wrote' = wrote \cup {p}
    /\ Goto(p, "read")
    /\ UNCHANGED <<qp, listening, conns, sock, main>>

\* tcp_exch_ib_connection_info: first write, ...
WriteInfo(p) ==
    /\ thread[p] = "write"
    /\ wrote' = wrote \cup {p}
    /\ Goto(p, "read")
    /\ UNCHANGED <<qp, listening, conns, sock, main>>

\* Mutant: the answer is not waited for.
ReadInfoNoWait(p) ==
    /\ thread[p] = "read"
    /\ Goto(p, "rtr")
    /\ UNCHANGED <<hands, main>>

\* ... then read, which blocks.  The peer writes all five fields in the widths
\* that are read, so what is read in full can always be parsed.
ReadInfo(p) ==
    /\ thread[p] = "read" /\ Readable(p)
    /\ Goto(p, "rtr")
    /\ UNCHANGED <<hands, main>>

\* read returns less than the parameters, because the peer has exited.
ReadFails(p) ==
    /\ thread[p] = "read" /\ Exited(Peer(p))
    /\ Exit(p)

\* qp_change_state_rtr
ChangeToRtr(p) ==
    /\ thread[p] = "rtr"
    /\ qp' = [qp EXCEPT ![p] = "RTR"]
    /\ Goto(p, IF p = "server" THEN "rts" ELSE "poll")
    /\ UNCHANGED <<listening, conns, sock, wrote, main>>

\* qp_change_state_rts, after qp_change_state_rtr
ChangeToRts ==
    /\ thread["server"] = "rts"
    /\ qp' = [qp EXCEPT !["server"] = "RTS"]
    /\ Goto("server", "done")
    /\ UNCHANGED <<listening, conns, sock, wrote, main>>

\* A call of the verbs library, of socket, bind, listen, accept, write or read fails.
CallFails(p) ==
    /\ thread[p] \in {"init", "listen", "accept", "connect", "write", "read", "rtr", "rts"}
    /\ Exit(p)

-----------------------------------------------------------------------------
(* After the handshake, in the client.                                      *)

\* The transport thread looks at g_send_lock once a second; send_packet looks
\* at the ring's desc as well.
PollLock ==
    /\ thread["client"] = "poll"
    /\ lock /\ vring["desc"] # 0
    /\ Goto("client", "put")
    /\ UNCHANGED <<hands, main>>

\* rdma_read_send puts a frame into the ring (see RxVring).
ReadSend ==
    /\ thread["client"] = "put"
    /\ Goto("client", "poll")
    /\ UNCHANGED <<hands, main>>

\* SET_VRING_ADDR arrives for a ring.
SetVringAddr(r) ==
    /\ ~Exited("client") /\ store = 0
    /\ r = "rx" => configs < MaxConfigs
    /\ configs' = IF r = "rx" THEN configs + 1 ELSE configs
    /\ ring' = r /\ store' = 1
    /\ UNCHANGED <<thread, hands, vring, lock, ahead>>

\* _set_vring_addr, one store: the lock is the same for both rings.
MainStore ==
    /\ ~Exited("client") /\ store # 0
    /\ IF Stores[store] = "g_send_lock"
       THEN /\ lock' = TRUE /\ ahead' = (ahead \/ configs = 0)
            /\ UNCHANGED vring
       ELSE /\ vring' = IF ring = "rx" THEN [vring EXCEPT ![Stores[store]] = configs] ELSE vring
            /\ UNCHANGED <<lock, ahead>>
    /\ store' = IF store < Len(Stores) THEN store + 1 ELSE 0
    /\ UNCHANGED <<thread, hands, configs, ring>>

-----------------------------------------------------------------------------
Step(p) ==
    \/ InitContext(p)
    \/ p = "server" /\ (Listen \/ Accept \/ ChangeToRts)
    \/ p = "client" /\ (Connect \/ ConnectRefused \/ PollLock \/ ReadSend)
    \/ WriteInfo(p) \/ ReadInfo(p) \/ ReadFails(p) \/ ChangeToRtr(p)

HandshakeNext ==
    \/ \E p \in Procs : Step(p) \/ CallFails(p)
    \/ \E r \in {"rx", "tx"} : SetVringAddr(r)
    \/ MainStore

\* The threads run; that QEMU configures the ring is not assumed.
HandshakeSpec == /\ HandshakeInit /\ [][HandshakeNext]_handshakeVars
                 /\ \A p \in Procs : WF_handshakeVars(Step(p))
                 /\ WF_handshakeVars(MainStore)

-----------------------------------------------------------------------------
(* Properties.                                                             *)

(* A side that has given its queue pair the parameters of a remote one has  *)
(* them from the peer on the same connection, and the peer's queue pair had *)
(* been initialised before they were sent: the server can send only to a    *)
(* queue pair that exists.                                                  *)
ConnectedToPeer ==
    \A p \in Procs : qp[p] \in {"RTR", "RTS"} =>
        /\ sock[p] # 0 /\ sock[p] = sock[Peer(p)]
        /\ qp[Peer(p)] # "RESET"

(* When a name has one address, the client's transport thread comes to an   *)
(* end of the handshake, ready or not, however the server fares, and so does *)
(* a server that has taken a connection: the two sides never wait for each   *)
(* other's parameters.                                                      *)
BothSettle ==
    /\ <>(thread["client"] \in {"poll", "put", "exited"})
    /\ sock["server"] # 0 ~> thread["server"] \in {"done", "exited"}

(* "initialization done. Set the global send lock": what the receiving      *)
(* thread finds in the receive ring when it puts a frame into it.  Every    *)
(* field is of the last configuration, or of the one before it while        *)
(* _set_vring_addr replaces that.  A field is found that was never stored   *)
(* only while the ring is set up for the first time, only if the transmit   *)
(* ring's message had set the lock before, and it is never desc.            *)
PutsIntoReadyRing ==
    thread["client"] = "put" =>
        \A l \in Fields :
            /\ vring[l] = configs \/ (store # 0 /\ ring = "rx" /\ vring[l] = configs - 1)
            /\ vring[l] = 0 => ahead /\ configs = 1 /\ store # 0 /\ l # "desc"

(* A receiver that has done the handshake gets to put frames into a ring    *)
(* that has been set up, whichever of the two came first.                   *)
ReceiverStarts ==
    configs > 0 /\ thread["client"] = "poll" ~> thread["client"] \in {"put", "exited"}
=============================================================================
