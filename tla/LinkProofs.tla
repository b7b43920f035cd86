----------------------------- MODULE LinkProofs -----------------------------
(***************************************************************************)
(* Proofs about the connections: QEMU's to the server (VhostUserLink), for *)
(* any number of faults and with set_link, and the one between the         *)
(* transport threads of two servers (RdmaHandshake), for any number of     *)
(* addresses and of configurations of the ring.                            *)
(***************************************************************************)
EXTENDS VhostUserLink, RdmaHandshake, TLAPS

\* Where the flags of the device stand while a function is running.
LinkInv ==
    /\ TypeOK
    /\ StartedAgrees
    /\ ~vhost_net => ~started /\ ~vhost_started
    /\ pc \in {"start", "undo", "notify", "stop", "call"} => vhost_net /\ started /\ vhost_started
    /\ pc \in {"start", "undo", "notify", "call"} => ret = "idle"
    /\ pc = "init" => ~vhost_net
    /\ pc = "down" => vhost_net /\ ~started /\ ~vhost_started

\* The two records of what happened.
Flags == monitor \in BOOLEAN /\ fell_back \in BOOLEAN

-----------------------------------------------------------------------------
(* QEMU starts connected and with the device not started.                 *)
LEMMA InitLink == Init => LinkInv
<1> SUFFICES ASSUME Init PROVE LinkInv
  OBVIOUS
<1>1. 0 \in 0..MaxFaults /\ 0 \in 0..StartCalls
  BY LinkAssumption DEF StartCalls
<1>2. TypeOK
  BY <1>1, Zenon DEF Init, TypeOK
<1> QED
  BY <1>2 DEF Init, LinkInv, StartedAgrees

(* The counter of faults stays within its bound.                           *)
LEMMA FaultRange ==
    ASSUME LinkInv, faults < MaxFaults PROVE faults + 1 \in 0..MaxFaults
  BY LinkAssumption DEF LinkInv, TypeOK

(* The server's coming and going changes no flag of QEMU.                  *)
LEMMA ServerStep == LinkInv /\ Flags' /\ (ServerDies \/ ServerStarts) => LinkInv'
<1>1. ASSUME LinkInv, Flags', ServerDies PROVE LinkInv'
  <2>1. faults' \in 0..MaxFaults
    BY <1>1, FaultRange DEF ServerDies
  <2> QED
    BY <1>1, <2>1, ZenonT(60) DEF LinkInv, TypeOK, Flags, StartedAgrees, ServerDies, nic
<1>2. ASSUME LinkInv, Flags', ServerStarts PROVE LinkInv'
  BY <1>2 DEF LinkInv, TypeOK, Flags, StartedAgrees, ServerStarts, nic
<1> QED
  BY <1>1, <1>2

(* A call changes nothing but the socket and the number of calls left.     *)
LEMMA CallStep == LinkInv /\ Flags' /\ (VhostUserCall \/ SendTimeout) => LinkInv'
<1> SUFFICES ASSUME LinkInv, Flags', VhostUserCall \/ SendTimeout PROVE LinkInv'
  OBVIOUS
<1>1. todo' \in 0..StartCalls
  BY DEF LinkInv, TypeOK, VhostUserCall, SendTimeout, StartCalls
<1>2. CASE VhostUserCall
  BY <1>1, <1>2 DEF LinkInv, TypeOK, Flags, StartedAgrees, VhostUserCall, net, nic
<1>3. CASE SendTimeout
  <2>1. faults' \in 0..MaxFaults
    BY <1>3, FaultRange DEF SendTimeout
  <2> QED
    BY <1>1, <1>3, <2>1, ZenonT(60) DEF LinkInv, TypeOK, Flags, StartedAgrees, SendTimeout, nic
<1> QED
  BY <1>2, <1>3

(* The ways in which a running function ends: a failed start takes both    *)
(* flags back, a stop clears them, the others leave them set.              *)
LEMMA ReturnStep ==
    LinkInv /\ Flags' /\ (StartFails \/ AssertFails \/ StartReturns \/ CallReturns \/ StopReturns
                          \/ StartGivesUp) => LinkInv'
<1> USE DEF LinkInv, TypeOK, Flags, StartedAgrees, net, nic
<1>1. ASSUME LinkInv, Flags', StartFails PROVE LinkInv'
  BY <1>1, Zenon DEF StartFails
<1>2. ASSUME LinkInv, Flags', AssertFails PROVE LinkInv'
  BY <1>2 DEF AssertFails
<1>3. ASSUME LinkInv, Flags', StartReturns PROVE LinkInv'
  <2>1. todo' \in 0..StartCalls
    BY <1>3 DEF StartReturns, Vectors, StartCalls
  <2> QED
    BY <1>3, <2>1 DEF StartReturns
<1>4. ASSUME LinkInv, Flags', CallReturns PROVE LinkInv'
  BY <1>4 DEF CallReturns
<1>5. ASSUME LinkInv, Flags', StopReturns PROVE LinkInv'
  BY <1>5, Zenon DEF StopReturns
<1>6. ASSUME LinkInv, Flags', StartGivesUp PROVE LinkInv'
  <2>0. todo \in 0..StartCalls
    BY <1>6, Zenon
  <2>1. todo' \in 0..StartCalls
    <3>1. 1 \in 0..StartCalls /\ \A v \in Vectors : StopCalls + v \in 0..StartCalls
      BY DEF StopCalls, Vectors, StartCalls
    <3>2. todo' = todo \/ todo' = 1 \/ todo' \in {StopCalls + v : v \in Vectors}
      BY <1>6, Zenon DEF StartGivesUp
    <3> QED
      BY <2>0, <3>1, <3>2, Zenon
  <2>2. \/ started' = FALSE /\ vhost_started' = FALSE /\ pc' = ret
        \/ pc' = "undo" /\ UNCHANGED <<started, vhost_started>>
    BY <1>6, Zenon DEF StartGivesUp
  <2>3. /\ pc = "start"
        /\ UNCHANGED <<up, alive, faults, link_down, link_up, driver, vhost_net, control, ret>>
    BY <1>6, Zenon DEF StartGivesUp
  <2> QED
    BY <1>6, <2>1, <2>2, <2>3, Zenon
<1> QED
  BY <1>1, <1>2, <1>3, <1>4, <1>5, <1>6, Zenon

(* What virtio_net_vhost_status leaves behind.                             *)
LEMMA StatusFacts ==
    ASSUME LinkInv, NEW has \in BOOLEAN, NEW drv \in BOOLEAN, NEW lup \in BOOLEAN,
           NEW ldown \in BOOLEAN, NEW next \in {"idle", "down"},
           has => (vhost_started <=> started), ~has => ~vhost_started /\ ~started,
           next = "down" => ~lup /\ has,
           VhostStatus(has, drv, lup, ldown, next)
    PROVE  /\ todo' \in 0..StartCalls /\ ret' = next
           /\ started' \in BOOLEAN /\ vhost_started' \in BOOLEAN
           /\ vhost_started' <=> started'
           /\ pc' \in {"start", "stop", next}
           /\ pc' # next => has /\ started'
           /\ pc' = "start" => next = "idle"
           /\ next = "down" /\ pc' = next => ~started'
           /\ ~has => ~started'
<1>1. todo \in 0..StartCalls /\ started \in BOOLEAN /\ vhost_started \in BOOLEAN
  BY DEF LinkInv, TypeOK
<1>2. CASE ~has \/ vhost_started = (drv /\ lup /\ ~ldown)
  BY <1>1, <1>2 DEF VhostStatus
<1>3. CASE ~(~has \/ vhost_started = (drv /\ lup /\ ~ldown)) /\ vhost_started
  <2>1. \A v \in Vectors : StopCalls + v \in 0..StartCalls
    BY DEF Vectors, StopCalls, StartCalls
  <2>2. todo' \in {StopCalls + v : v \in Vectors} /\ pc' = "stop" /\ ret' = next
        /\ UNCHANGED <<started, vhost_started>>
    BY <1>3 DEF VhostStatus
  <2>3. todo' \in 0..StartCalls
    BY <2>1, <2>2
  <2> QED
    BY <1>1, <1>3, <2>2, <2>3
<1>4. CASE ~(~has \/ vhost_started = (drv /\ lup /\ ~ldown)) /\ ~vhost_started
  <2>1. todo' = StartCalls /\ pc' = "start" /\ ret' = next /\ started' = TRUE /\ vhost_started' = TRUE
    BY <1>4 DEF VhostStatus
  <2>2. next = "idle"
    BY <1>1, <1>4
  <2>3. todo' \in 0..StartCalls
    BY <2>1 DEF StartCalls
  <2> QED
    BY <1>1, <1>4, <2>1, <2>2, <2>3
<1> QED
  BY <1>2, <1>3, <1>4

(* The handlers outside the timer keep the invariant.                      *)
LEMMA HandlerStep == LinkInv /\ Flags' /\ (SetStatus \/ SetLink \/ MaskOrCommit) => LinkInv'
<1>1. ASSUME LinkInv, Flags', SetStatus PROVE LinkInv'
  <2>1. /\ VhostStatus(vhost_net, ~driver, link_up, link_down, "idle") /\ driver' \in BOOLEAN
        /\ UNCHANGED <<up, alive, faults, link_down, link_up, vhost_net, control>>
    BY <1>1, Zenon DEF SetStatus, net
  <2>2. /\ vhost_net => (vhost_started <=> started)
        /\ ~vhost_net => ~vhost_started /\ ~started
        /\ vhost_net \in BOOLEAN /\ (~driver) \in BOOLEAN /\ link_up \in BOOLEAN /\ link_down \in BOOLEAN
    BY <1>1 DEF SetStatus, LinkInv, TypeOK, StartedAgrees
  <2>3. /\ todo' \in 0..StartCalls /\ ret' = "idle"
        /\ started' \in BOOLEAN /\ vhost_started' \in BOOLEAN /\ (vhost_started' <=> started')
        /\ pc' \in {"start", "stop", "idle"} /\ (pc' # "idle" => vhost_net /\ started')
        /\ ~vhost_net => ~started'
    BY <1>1, <2>1, <2>2, StatusFacts, ZenonT(60)
  <2> QED
    BY <1>1, <2>1, <2>3, <2>2 DEF LinkInv, TypeOK, Flags, StartedAgrees
<1>2. ASSUME LinkInv, Flags', SetLink PROVE LinkInv'
  <2>1. PICK on \in BOOLEAN, ldown \in BOOLEAN :
           /\ link_down' = ldown /\ link_up' = on
           /\ VhostStatus(vhost_net, driver, on, ldown, "idle")
    BY <1>2 DEF SetLink
  <2>2. /\ UNCHANGED <<up, alive, faults, driver, vhost_net, control>>
        /\ vhost_net => (vhost_started <=> started)
        /\ ~vhost_net => ~vhost_started /\ ~started
        /\ vhost_net \in BOOLEAN /\ driver \in BOOLEAN
    BY <1>2 DEF SetLink, net, LinkInv, TypeOK, StartedAgrees
  <2>3. /\ todo' \in 0..StartCalls /\ ret' = "idle"
        /\ started' \in BOOLEAN /\ vhost_started' \in BOOLEAN /\ (vhost_started' <=> started')
        /\ pc' \in {"start", "stop", "idle"} /\ (pc' # "idle" => vhost_net /\ started')
        /\ ~vhost_net => ~started'
    BY <1>2, <2>1, <2>2, StatusFacts
  <2> QED
    BY <1>2, <2>1, <2>2, <2>3 DEF LinkInv, TypeOK, Flags, StartedAgrees
<1>3. ASSUME LinkInv, Flags', MaskOrCommit PROVE LinkInv'
  <2>1. todo' \in 0..StartCalls
    BY <1>3 DEF MaskOrCommit, StartCalls
  <2> QED
    BY <1>3, <2>1 DEF MaskOrCommit, LinkInv, TypeOK, Flags, StartedAgrees, net, nic
<1> QED
  BY <1>1, <1>2, <1>3

(* The steps of vhost_user_timer_handler keep the invariant.               *)
LEMMA TimerStep ==
    LinkInv /\ Flags' /\ (TimerDown \/ VhostUserStop \/ TimerConnect \/ InitFails \/ InitReturns) => LinkInv'
<1>1. ASSUME LinkInv, Flags', TimerDown PROVE LinkInv'
  <2>1. /\ VhostStatus(vhost_net, driver, FALSE, TRUE, "down") /\ link_down' = TRUE /\ link_up' = FALSE
        /\ UNCHANGED <<up, alive, faults, driver, vhost_net, control>>
        /\ vhost_net /\ (vhost_started <=> started)
        /\ vhost_net \in BOOLEAN /\ driver \in BOOLEAN
    BY <1>1, Zenon DEF TimerDown, net, LinkInv, TypeOK, StartedAgrees
  <2>2. /\ todo' \in 0..StartCalls /\ ret' = "down"
        /\ started' \in BOOLEAN /\ vhost_started' \in BOOLEAN /\ (vhost_started' <=> started')
        /\ pc' \in {"stop", "down"} /\ (pc' # "down" => started') /\ (pc' = "down" => ~started')
    BY <1>1, <2>1, StatusFacts, Zenon
  <2> QED
    BY <1>1, <2>1, <2>2, Zenon DEF LinkInv, TypeOK, Flags, StartedAgrees
<1>2. ASSUME LinkInv, Flags', VhostUserStop PROVE LinkInv'
  BY <1>2, Zenon DEF VhostUserStop, LinkInv, TypeOK, Flags, StartedAgrees, nic
<1>3. ASSUME LinkInv, Flags', TimerConnect PROVE LinkInv'
  <2>1. InitCalls \in 0..StartCalls
    BY DEF InitCalls, StartCalls
  <2>2. CASE up
    BY <1>3, <2>1, <2>2 DEF TimerConnect, LinkInv, TypeOK, Flags, StartedAgrees, nic
  <2>3. CASE ~up
    BY <1>3, <2>3, Zenon DEF TimerConnect, NoBackend, LinkInv, TypeOK, Flags, StartedAgrees
  <2> QED
    BY <2>2, <2>3
<1>4. ASSUME LinkInv, Flags', InitFails PROVE LinkInv'
  BY <1>4, Zenon DEF InitFails, NoBackend, LinkInv, TypeOK, Flags, StartedAgrees
<1>5. ASSUME LinkInv, Flags', InitReturns PROVE LinkInv'
  <2>1. /\ VhostStatus(link_down, driver, TRUE, FALSE, "idle") /\ link_down' = FALSE
        /\ link_up' \in BOOLEAN /\ vhost_net' = TRUE
        /\ UNCHANGED <<up, alive, faults, driver, control>>
        /\ ~vhost_started /\ ~started /\ link_down \in BOOLEAN /\ driver \in BOOLEAN
    BY <1>5, Zenon DEF InitReturns, net, LinkInv, TypeOK
  <2>2. /\ todo' \in 0..StartCalls /\ ret' = "idle"
        /\ started' \in BOOLEAN /\ vhost_started' \in BOOLEAN /\ (vhost_started' <=> started')
        /\ pc' \in {"start", "stop", "idle"} /\ (pc' # "idle" => started')
    BY <1>5, <2>1, StatusFacts, Zenon
  <2> QED
    BY <1>5, <2>1, <2>2, Zenon DEF LinkInv, TypeOK, Flags, StartedAgrees
<1> QED
  BY <1>1, <1>2, <1>3, <1>4, <1>5

(* Every step keeps the invariant.                                         *)
LEMMA LinkStep == LinkInv /\ [Next]_vars => LinkInv'
<1> SUFFICES ASSUME LinkInv, [Next]_vars PROVE LinkInv'
  OBVIOUS
<1>1. CASE UNCHANGED vars
  BY <1>1 DEF vars, net, nic, LinkInv, TypeOK, StartedAgrees
<1>2. CASE Next
  <2>1. Flags'
    <3>1. monitor' \in BOOLEAN
      BY <1>2, Zenon DEF Next, Timer, Calls, Others, SetLink, LinkInv, TypeOK
    <3>2. UNCHANGED fell_back \/ fell_back' = TRUE \/ fell_back' = FALSE
      BY <1>2, Zenon DEF Next, Timer, Calls, Others, SetLink, SetStatus, TimerDown, InitReturns,
         StartGivesUp, VhostStatus
    <3> QED
      BY <3>1, <3>2, Zenon DEF Flags, LinkInv, TypeOK
  <2> QED
    BY <1>2, <2>1, ServerStep, CallStep, ReturnStep, HandlerStep, TimerStep
       DEF Next, Timer, Calls, Others
<1> QED
  BY <1>1, <1>2

-----------------------------------------------------------------------------
(* What the guest is told, as long as set_link is not used.                *)

\* The connection is being taken down: the NIC has been told, the back end not.
GoingDown == pc = "down" \/ (pc = "stop" /\ ret = "down")

\* The link is down exactly while there is no connection or it is being taken
\* down; the device is stopped otherwise only because the driver is not ready,
\* and is not started only because a call has failed.
SeenInv ==
    ~monitor =>
        /\ pc # "aborted" => (link_up <=> ~link_down) /\ (link_down <=> ~vhost_net \/ GoingDown)
        /\ pc = "stop" /\ ret = "idle" => ~driver
        /\ pc = "undo" => fell_back
        /\ UpIsStarted

(* It holds when QEMU starts.                                              *)
LEMMA InitSeen == Init => SeenInv
  BY DEF Init, SeenInv, GoingDown, UpIsStarted

(* The calls, and what follows them, keep it.                              *)
LEMMA SeenCalls ==
    ASSUME LinkInv, SeenInv, UNCHANGED <<monitor, fell_back>>,
           \/ ServerDies \/ ServerStarts \/ VhostUserCall \/ SendTimeout \/ StartFails
           \/ AssertFails \/ StartReturns \/ CallReturns \/ StopReturns \/ MaskOrCommit
    PROVE  SeenInv'
<1> USE DEF LinkInv, SeenInv, GoingDown, UpIsStarted, nic
<1>1. CASE ServerDies \/ ServerStarts \/ VhostUserCall \/ SendTimeout
  BY <1>1 DEF ServerDies, ServerStarts, VhostUserCall, SendTimeout, Sending
<1>2. CASE StartFails \/ AssertFails \/ StartReturns
  BY <1>2 DEF StartFails, AssertFails, StartReturns
<1>3. CASE CallReturns \/ StopReturns \/ MaskOrCommit
  BY <1>3, SMTT(60) DEF CallReturns, StopReturns, MaskOrCommit, TypeOK
<1> QED
  BY <1>1, <1>2, <1>3, SMTT(60)

(* A start that QEMU gives up keeps it.                                    *)
LEMMA SeenGivesUp == ASSUME LinkInv, SeenInv, UNCHANGED monitor, StartGivesUp PROVE SeenInv'
<1>1. /\ pc = "start" /\ (pc' = ret \/ pc' = "undo") /\ fell_back' = TRUE
      /\ UNCHANGED <<link_down, link_up, driver, vhost_net, control, ret>>
  BY Zenon DEF StartGivesUp, nic
<1> QED
  BY <1>1 DEF LinkInv, SeenInv, GoingDown, UpIsStarted

(* The handlers that change the state of the link keep it.                 *)
LEMMA SeenHandlers ==
    ASSUME LinkInv, SeenInv, UNCHANGED monitor,
           \/ SetStatus \/ TimerDown \/ InitReturns
           \/ (VhostUserStop \/ TimerConnect \/ InitFails) /\ UNCHANGED fell_back
    PROVE  SeenInv'
<1> USE DEF LinkInv, TypeOK, SeenInv, GoingDown, UpIsStarted, nic
<1>1. CASE SetStatus
  BY <1>1, SMTT(60) DEF SetStatus, VhostStatus
<1>2. CASE TimerDown
  BY <1>2 DEF TimerDown, VhostStatus
<1>3. CASE (VhostUserStop) /\ UNCHANGED fell_back
  BY <1>3 DEF VhostUserStop
<1>4. CASE (TimerConnect \/ InitFails) /\ UNCHANGED fell_back
  BY <1>4, Zenon DEF TimerConnect, InitFails, NoBackend
<1>5. CASE InitReturns
  BY <1>5 DEF InitReturns, VhostStatus
<1> QED
  BY <1>1, <1>2, <1>3, <1>4, <1>5, SMTT(60)

(* Every step keeps it.                                                    *)
LEMMA SeenStep == LinkInv /\ SeenInv /\ [Next]_vars => SeenInv'
<1> SUFFICES ASSUME LinkInv, SeenInv, [Next]_vars PROVE SeenInv'
  OBVIOUS
<1>1. CASE UNCHANGED vars
  BY <1>1 DEF vars, net, nic, SeenInv, GoingDown, UpIsStarted
<1>2. CASE SetLink
  BY <1>2 DEF SetLink, SeenInv
<1>3. CASE Timer \/ Calls \/ Others
  BY <1>3, SeenCalls, SeenGivesUp, SeenHandlers, Zenon DEF Timer, Calls, Others
<1> QED
  BY <1>1, <1>2, <1>3 DEF Next

-----------------------------------------------------------------------------
(* Theorems.                                                               *)

(* Between handlers n->vhost_started, the existence of a vhost_net and its *)
(* dev.started agree, whatever calls failed and however often.             *)
THEOREM FlagsAgree == Spec => []StartedAgrees
<1>1. LinkInv => StartedAgrees
  BY DEF LinkInv
<1> QED
  BY <1>1, InitLink, LinkStep, PTL DEF Spec

(* Every variable has its type, and the number of calls the running        *)
(* function has left stays within those of vhost_dev_start, the longest.   *)
THEOREM LinkTypeCorrect == Spec => []TypeOK
<1>1. LinkInv => TypeOK
  BY DEF LinkInv
<1> QED
  BY <1>1, InitLink, LinkStep, PTL DEF Spec

(* While no connection exists the guest has been told so, and the NIC does *)
(* not run in the server, however often and wherever the server dies.      *)
THEOREM DownIsAlwaysSeen == Spec => []DownIsSeen
<1>1. LinkInv /\ SeenInv => DownIsSeen
  BY DEF LinkInv, SeenInv, GoingDown, DownIsSeen, TypeOK
<1> QED
  BY <1>1, InitLink, LinkStep, InitSeen, SeenStep, PTL DEF Spec

(* A ready driver whose connection is not known to be broken runs in the   *)
(* server, after any number of deaths and reconnects.                      *)
THEOREM StartedAfterReconnect == Spec => []UpIsStarted
<1>1. SeenInv => UpIsStarted
  BY DEF SeenInv, UpIsStarted
<1> QED
  BY <1>1, InitLink, LinkStep, InitSeen, SeenStep, PTL DEF Spec

-----------------------------------------------------------------------------
(* The handshake of the transport threads.                                 *)

\* A side that has read the parameters of its peer.
Answered(p) == qp[p] \in {"RTR", "RTS"} \/ thread[p] \in {"rtr", "rts", "done", "poll", "put"}

\* Where a side stands that has no connection, or not its last one.
Before(p) == IF p = "client" THEN {"init", "connect"} ELSE {"init", "listen", "accept"}

\* The parameters that are sent are those of a queue pair that exists, on the
\* connection that its side keeps; they are read on the same one.
HandInv ==
    /\ \A p \in Procs :
         /\ thread[p] \notin {"init", "exited"} => qp[p] # "RESET"
         /\ thread[p] \in {"write", "read"} => sock[p] # 0
         /\ thread[p] = "read" => p \in wrote
         /\ p \in wrote => qp[p] # "RESET" /\ sock[p] # 0 /\ thread[p] \notin Before(p)
         /\ Answered(p) => p \in wrote /\ Peer(p) \in wrote /\ sock[p] = sock[Peer(p)]
    /\ wrote \subseteq Procs

(* There are two sides, and each is the other's peer.                      *)
LEMMA TwoSides ==
    /\ Procs = {"client", "server"}
    /\ Peer("client") = "server" /\ Peer("server") = "client"
  BY DEF Procs, Peer

HandTypes ==
    /\ thread \in [Procs -> {"init", "listen", "accept", "connect", "write", "read",
                             "rtr", "rts", "done", "poll", "put", "exited"}]
    /\ qp \in [Procs -> {"RESET", "INIT", "RTR", "RTS"}]
    /\ conns \in Nat /\ sock \in [Procs -> Nat]

Hands == HandTypes /\ HandInv

(* No side has anything when its process starts.                           *)
LEMMA InitHands == HandshakeInit => Hands
  BY TwoSides DEF HandshakeInit, Hands, HandInv, HandTypes, Answered, Before

(* A queue pair is initialised before anything is sent.                    *)
LEMMA ContextStep ==
    ASSUME Hands, NEW p \in Procs, InitContext(p) PROVE Hands'
  BY TwoSides DEF InitContext, Goto, Hands, HandInv, HandTypes, Answered, Before

(* A process that ends leaves its peer what it has written.                *)
LEMMA ExitStep ==
    ASSUME Hands, NEW p \in Procs, Exit(p) PROVE Hands'
  BY TwoSides DEF Exit, Goto, Hands, HandInv, HandTypes, Answered, Before

(* The server comes to listen,                                             *)
LEMMA ListenStep == ASSUME Hands, Listen PROVE Hands'
  BY TwoSides DEF Listen, Goto, Hands, HandInv, HandTypes, Answered, Before

(* and takes a connection before it has written anything.                  *)
LEMMA AcceptStep == ASSUME Hands, Accept PROVE Hands'
  BY TwoSides DEF Accept, Goto, Hands, HandInv, HandTypes, Answered, Before

(* The client changes its connection only before it has written anything.  *)
LEMMA ConnectToStep == ASSUME Hands, Connect PROVE Hands'
  BY TwoSides DEF Connect, Goto, Hands, HandInv, HandTypes, Answered, Before

(* A side writes the parameters of a queue pair it has,                    *)
LEMMA WriteStep ==
    ASSUME Hands, NEW p \in Procs, WriteInfo(p) PROVE Hands'
  BY TwoSides, SMTT(60) DEF WriteInfo, Goto, Hands, HandInv, HandTypes, Answered, Before

(* reads those of its peer on the connection both use,                     *)
LEMMA ReadStep ==
    ASSUME Hands, NEW p \in Procs, ReadInfo(p) PROVE Hands'
  BY TwoSides DEF ReadInfo, Readable, Goto, hands, Hands, HandInv, HandTypes, Answered, Before

(* and gives them to its queue pair,                                       *)
LEMMA RtrStep ==
    ASSUME Hands, NEW p \in Procs, ChangeToRtr(p) PROVE Hands'
  BY TwoSides, SMTT(60) DEF ChangeToRtr, Goto, Hands, HandInv, HandTypes, Answered, Before

(* which the server then makes ready to send.                              *)
LEMMA RtsStep == ASSUME Hands, ChangeToRts PROVE Hands'
  BY TwoSides DEF ChangeToRts, Goto, Hands, HandInv, HandTypes, Answered, Before

(* The receive loop of the client changes no connection.                   *)
LEMMA PollStep == ASSUME Hands, PollLock PROVE Hands'
  BY TwoSides DEF PollLock, Goto, hands, Hands, HandInv, HandTypes, Answered, Before

(* Nor does what it puts into the ring.                                    *)
LEMMA PutStep == ASSUME Hands, ReadSend PROVE Hands'
  BY TwoSides DEF ReadSend, Goto, hands, Hands, HandInv, HandTypes, Answered, Before

(* Nor does the client's main thread.                                      *)
LEMMA MainStep == ASSUME Hands, UNCHANGED <<thread, qp, listening, conns, sock, wrote>> PROVE Hands'
  BY DEF Hands, HandInv, HandTypes, Answered, Before

(* Every step of the two transport threads, failing calls included, keeps  *)
(* the invariant of the handshake.                                         *)
LEMMA HandsStep == ASSUME Hands, [HandshakeNext]_handshakeVars PROVE Hands'
<1>1. ASSUME NEW p \in Procs, CallFails(p) \/ ReadFails(p) PROVE Hands'
  BY <1>1, ExitStep, Zenon DEF CallFails, ReadFails
<1>2. CASE ConnectRefused
  <2>1. "client" \in Procs
    BY TwoSides
  <2> QED
    BY <1>2, <2>1, ExitStep, Zenon DEF ConnectRefused
<1>3. CASE (\E r \in {"rx", "tx"} : SetVringAddr(r)) \/ MainStore \/ UNCHANGED handshakeVars
  BY <1>3, MainStep, Zenon DEF SetVringAddr, MainStore, handshakeVars, hands
<1>4. ASSUME NEW p \in Procs, Step(p) PROVE Hands'
  BY <1>1, <1>2, <1>4, ContextStep, ListenStep, AcceptStep, ConnectToStep, WriteStep, ReadStep,
     RtrStep, RtsStep, PollStep, PutStep, Zenon DEF Step
<1> QED
  BY <1>1, <1>3, <1>4, Zenon DEF HandshakeNext

(* A queue pair is given only the parameters of a peer on the same         *)
(* connection whose queue pair exists, for any number of addresses of the  *)
(* server and wherever either process ends.                                *)
THEOREM HandshakeReachesPeer == HandshakeSpec => []ConnectedToPeer
<1>1. Hands => ConnectedToPeer
  BY TwoSides DEF Hands, HandInv, HandTypes, Answered, ConnectedToPeer
<1> QED
  BY <1>1, InitHands, HandsStep, PTL DEF HandshakeSpec

-----------------------------------------------------------------------------
(* The lock of the receive ring.                                           *)

\* The receive ring is being set up.
Storing == store # 0 /\ ring = "rx"

\* The stores of _set_vring_addr that are done: the lock is the last.
RingInv ==
    /\ configs \in 0..MaxConfigs /\ store \in 0..5
    /\ ring \in {"rx", "tx"} /\ vring \in [Fields -> 0..MaxConfigs]
    /\ lock \in BOOLEAN /\ ahead \in BOOLEAN
    /\ ~Storing => \A l \in Fields : vring[l] = configs
    /\ Storing => /\ configs # 0
                  /\ \A k \in 1..4 : /\ k < store => vring[Stores[k]] = configs
                                     /\ k >= store => vring[Stores[k]] = configs - 1
    /\ lock /\ ~ahead => configs # 0 /\ (Storing => configs # 1)
    /\ thread["client"] = "put" => lock /\ vring["desc"] # 0

(* Nothing is stored at first.                                             *)
LEMMA InitRing == HandshakeInit => RingInv
<1> SUFFICES ASSUME HandshakeInit PROVE RingInv
  BY Zenon
<1>1. /\ configs = 0 /\ store = 0 /\ ring = "tx" /\ lock = FALSE /\ ahead = FALSE
      /\ vring = [l \in Fields |-> 0] /\ thread["client"] = "init"
  BY TwoSides DEF HandshakeInit
<1>2. 0 \in 0..MaxConfigs /\ 0 \in 0..5 /\ "init" # "put"
  BY HandshakeAssumption
<1>3. ~Storing /\ vring \in [Fields -> 0..MaxConfigs] /\ \A l \in Fields : vring[l] = 0
  BY <1>1, <1>2, Zenon DEF Storing
<1>4. lock \in BOOLEAN /\ ahead \in BOOLEAN /\ ring \in {"rx", "tx"} /\ ~lock
  BY <1>1, Zenon
<1> QED
  BY <1>1, <1>2, <1>3, <1>4, Zenon DEF RingInv

(* A step of the transport threads changes no location and puts only when  *)
(* the lock is set.                                                        *)
LEMMA ThreadStep ==
    ASSUME RingInv, UNCHANGED main,
           thread'["client"] = "put" => thread["client"] = "put" \/ (lock /\ vring["desc"] # 0)
    PROVE  RingInv'
  BY Zenon DEF RingInv, Storing, main

(* The transport threads change nothing of the ring.                       *)
LEMMA ThreadKeepsRing ==
    ASSUME HandTypes, RingInv, NEW p \in Procs, Step(p) \/ CallFails(p)
    PROVE  RingInv'
<1> DEFINE Puts == thread'["client"] = "put" =>
                       thread["client"] = "put" \/ (lock /\ vring["desc"] # 0)
<1>1. ASSUME NEW q \in Procs, Exit(q) PROVE UNCHANGED main /\ Puts
  BY <1>1, TwoSides DEF Exit, Goto, main, HandTypes
<1>2. CASE InitContext(p)
  BY <1>2, TwoSides, ThreadStep DEF InitContext, Goto, HandTypes
<1>3. CASE Listen
  BY <1>3, TwoSides, ThreadStep DEF Listen, Goto, HandTypes
<1>4. CASE Accept
  BY <1>4, TwoSides, ThreadStep DEF Accept, Goto, HandTypes
<1>5. CASE ChangeToRts
  BY <1>5, TwoSides, ThreadStep DEF ChangeToRts, Goto, HandTypes
<1>6. CASE Connect
  BY <1>6, TwoSides, ThreadStep DEF Connect, Goto, HandTypes
<1>7. CASE PollLock
  BY <1>7, TwoSides, ThreadStep DEF PollLock, Goto, HandTypes
<1>8. CASE ReadSend
  BY <1>8, TwoSides, ThreadStep DEF ReadSend, Goto, HandTypes
<1>9. CASE WriteInfo(p)
  BY <1>9, TwoSides, ThreadStep DEF WriteInfo, Goto, HandTypes
<1>10. CASE ReadInfo(p)
  BY <1>10, TwoSides, ThreadStep DEF ReadInfo, Goto, HandTypes
<1>11. CASE ChangeToRtr(p)
  BY <1>11, TwoSides, ThreadStep DEF ChangeToRtr, Goto, HandTypes
<1>12. CASE ConnectRefused \/ ReadFails(p) \/ CallFails(p)
  <2>1. "client" \in Procs
    BY TwoSides
  <2>2. \E q \in Procs : Exit(q)
    BY <1>12, <2>1, Zenon DEF ConnectRefused, ReadFails, CallFails
  <2> QED
    BY <1>1, <2>2, ThreadStep, Zenon
<1> QED
  BY <1>2, <1>3, <1>4, <1>5, <1>6, <1>7, <1>8, <1>9, <1>10, <1>11, <1>12, Zenon DEF Step

(* _set_vring_addr stores the lock last.                                   *)
LEMMA StoresFacts ==
    /\ Len(Stores) = 5 /\ Stores[5] = "g_send_lock" /\ Stores[1] = "desc"
    /\ \A k \in 1..4 : Stores[k] \in Fields /\ Stores[k] # "g_send_lock"
    /\ \A l \in Fields : \E k \in 1..4 : Stores[k] = l
    /\ \A j, k \in 1..4 : Stores[j] = Stores[k] => j = k
  BY DEF Stores, Fields

(* A message that sets the receive ring up,                                *)
LEMMA ConfigStep == ASSUME RingInv, SetVringAddr("rx") PROVE RingInv'
<1>1. /\ configs \in 0..MaxConfigs /\ MaxConfigs \in Nat /\ configs < MaxConfigs /\ store = 0
      /\ configs' = configs + 1 /\ store' = 1 /\ ring' = "rx"
      /\ UNCHANGED <<vring, thread, lock, ahead>>
  BY HandshakeAssumption DEF RingInv, SetVringAddr
<1>2. configs' \in 0..MaxConfigs /\ store' \in 0..5 /\ Storing' /\ configs' # 0
  BY <1>1 DEF Storing
<1>3. \A l \in Fields : vring[l] = configs
  BY <1>1, Zenon DEF RingInv, Storing
<1>4. ASSUME NEW k \in 1..4
      PROVE  ~(k < store') /\ vring'[Stores[k]] = configs' - 1
  <2>1. vring[Stores[k]] = configs
    BY <1>3, StoresFacts, Zenon
  <2> QED
    BY <1>1, <2>1
<1>5. lock /\ ~ahead => configs' # 1
  <2>1. lock /\ ~ahead => configs # 0
    BY Zenon DEF RingInv
  <2> QED
    BY <1>1, <2>1
<1> QED
  BY <1>1, <1>2, <1>4, <1>5, Zenon DEF RingInv

(* one that sets the transmit ring up,                                     *)
LEMMA TxConfigStep == ASSUME RingInv, SetVringAddr("tx") PROVE RingInv'
<1>1. /\ store = 0 /\ configs' = configs /\ store' = 1 /\ ring' = "tx"
      /\ UNCHANGED <<vring, thread, lock, ahead>>
  BY DEF SetVringAddr
<1>2. ~Storing /\ ~Storing' /\ store' \in 0..5
  BY <1>1 DEF Storing
<1> QED
  BY <1>1, <1>2, Zenon DEF RingInv

(* a store of its handler into a field,                                    *)
LEMMA FieldStep == ASSUME RingInv, MainStore, store # 5 PROVE RingInv'
<1> DEFINE n == Stores[store]
<1>1. /\ configs \in 0..MaxConfigs /\ MaxConfigs \in Nat
      /\ store \in 1..4 /\ vring \in [Fields -> 0..MaxConfigs]
      /\ UNCHANGED <<thread, configs, ring>>
  BY HandshakeAssumption DEF RingInv, MainStore
<1>2. n \in Fields /\ n # "g_send_lock"
  BY <1>1, StoresFacts, Zenon
<1>3. UNCHANGED <<lock, ahead>> /\ vring' = IF ring = "rx" THEN [vring EXCEPT ![n] = configs] ELSE vring
  BY <1>2, Zenon DEF MainStore
<1>4. store' = store + 1
  BY <1>1, StoresFacts DEF MainStore
<1>5. store' \in 0..5 /\ store # 0 /\ store' # 0
  BY <1>1, <1>4
<1> HIDE DEF n
<1>6. CASE ring # "rx"
  <2>1. ~Storing /\ ~Storing' /\ vring' = vring
    BY <1>1, <1>3, <1>6, Zenon DEF Storing
  <2> QED
    BY <1>1, <1>3, <1>5, <2>1, Zenon DEF RingInv
<1>7. CASE ring = "rx"
  <2>1. /\ vring' \in [Fields -> 0..MaxConfigs] /\ vring'[n] = configs
        /\ \A l \in Fields : l # n => vring'[l] = vring[l]
    BY <1>1, <1>2, <1>3, <1>7, Zenon
  <2>2. Storing /\ Storing' /\ configs # 0
    BY <1>1, <1>5, <1>7, Zenon DEF RingInv, Storing
  <2>3. ASSUME NEW k \in 1..4
        PROVE  /\ k < store' => vring'[Stores[k]] = configs
               /\ k >= store' => vring'[Stores[k]] = configs - 1
    <3>0. /\ k < store => vring[Stores[k]] = configs
          /\ k >= store => vring[Stores[k]] = configs - 1
      BY <2>2, Zenon DEF RingInv
    <3>1. CASE k = store
      <4>1. vring'[Stores[k]] = configs
        BY <2>1, <3>1, Zenon DEF n
      <4> QED
        BY <1>1, <1>4, <3>1, <4>1
    <3>2. CASE k # store
      <4>1. Stores[k] # n /\ Stores[k] \in Fields
        BY <1>1, <3>2, StoresFacts, Zenon DEF n
      <4>2. vring'[Stores[k]] = vring[Stores[k]]
        BY <2>1, <4>1, Zenon
      <4>3. (k < store' => k < store) /\ (k >= store' => k >= store)
        BY <1>1, <1>4, <3>2
      <4> QED
        BY <3>0, <4>2, <4>3, Zenon
    <3> QED
      BY <3>1, <3>2, Zenon
  <2>4. "desc" \in Fields /\ (vring["desc"] # 0 => vring'["desc"] # 0)
    <3>1. "desc" \in Fields
      BY Zenon DEF Fields
    <3> QED
      BY <2>1, <2>2, <3>1, Zenon
  <2> QED
    BY <1>1, <1>3, <1>5, <2>1, <2>2, <2>3, <2>4, Zenon DEF RingInv
<1> QED
  BY <1>6, <1>7, Zenon

(* and the store into the lock, which ends it.                             *)
LEMMA LockStep == ASSUME RingInv, MainStore, store = 5 PROVE RingInv'
<1>1. /\ UNCHANGED <<thread, configs, ring, vring>>
      /\ lock' = TRUE /\ ahead' = (ahead \/ configs = 0)
  <2>1. Stores[store] = "g_send_lock"
    BY StoresFacts, Zenon
  <2> QED
    BY <2>1, Zenon DEF MainStore
<1>2. store' = 0 /\ 0 \in 0..5
  BY StoresFacts DEF MainStore
<1>3. ~Storing' /\ store' \in 0..5
  BY <1>2, Zenon DEF Storing
<1>4. lock' \in BOOLEAN /\ ahead' \in BOOLEAN /\ (~ahead' => configs # 0)
  BY <1>1, Zenon
<1>5. ASSUME NEW l \in Fields PROVE vring[l] = configs
  <2>1. CASE Storing
    <3>1. PICK k \in 1..4 : Stores[k] = l
      BY StoresFacts, Zenon
    <3>2. k < store
      OBVIOUS
    <3> QED
      BY <2>1, <3>1, <3>2, Zenon DEF RingInv
  <2>2. CASE ~Storing
    BY <2>2, Zenon DEF RingInv
  <2> QED
    BY <2>1, <2>2, Zenon
<1> QED
  BY <1>1, <1>3, <1>4, <1>5, Zenon DEF RingInv

(* Every step keeps the ring as the stores leave it.                       *)
LEMMA RingStep == ASSUME Hands, RingInv, [HandshakeNext]_handshakeVars PROVE RingInv'
<1>1. CASE UNCHANGED handshakeVars
  BY <1>1, ThreadStep, Zenon DEF handshakeVars
<1>2. CASE MainStore
  BY <1>2, FieldStep, LockStep, Zenon
<1>3. ASSUME NEW r \in {"rx", "tx"}, SetVringAddr(r) PROVE RingInv'
  BY <1>3, ConfigStep, TxConfigStep, Zenon
<1> QED
  BY <1>1, <1>2, <1>3, ThreadKeepsRing, Zenon DEF HandshakeNext, Hands

(* What the receiving thread finds when it puts a frame into the ring:     *)
(* every field is of the last configuration, or of the one that            *)
(* _set_vring_addr is replacing, however often the ring is set up and      *)
(* wherever its look at g_send_lock falls between the stores.  A field     *)
(* that was never stored is found only during the first set-up, only when  *)
(* the transmit ring's message had set the lock, and it is never desc.     *)
THEOREM RingIsReadyForFrames == HandshakeSpec => []PutsIntoReadyRing
<1>1. RingInv => PutsIntoReadyRing
  <2> SUFFICES ASSUME RingInv, thread["client"] = "put", NEW l \in Fields
               PROVE  /\ vring[l] = configs \/ (store # 0 /\ ring = "rx" /\ vring[l] = configs - 1)
                      /\ vring[l] = 0 => ahead /\ configs = 1 /\ store # 0 /\ l # "desc"
    BY Zenon DEF PutsIntoReadyRing
  <2>1. configs \in Nat /\ store \in 0..5 /\ lock /\ vring["desc"] # 0 /\ "desc" \in Fields
    BY DEF RingInv, Fields
  <2>2. CASE ~Storing
    <3>1. vring[l] = configs /\ vring["desc"] = configs
      BY <2>1, <2>2, Zenon DEF RingInv
    <3> QED
      BY <2>1, <3>1, Zenon
  <2>3. CASE Storing
    <3>1. PICK k \in 1..4 : Stores[k] = l
      BY StoresFacts, Zenon
    <3>2. k < store \/ k >= store
      BY <2>1
    <3>3. vring[l] = configs \/ vring[l] = configs - 1
      BY <2>3, <3>1, <3>2, Zenon DEF RingInv
    <3>4. configs # 0 /\ (~ahead => configs # 1)
      BY <2>1, <2>3, Zenon DEF RingInv
    <3>5. ASSUME vring[l] = 0 PROVE configs = 1
      BY <2>1, <3>3, <3>4, <3>5
    <3> QED
      BY <2>1, <2>3, <3>3, <3>4, <3>5, Zenon DEF Storing
  <2> QED
    BY <2>2, <2>3, Zenon
<1>2. Hands /\ RingInv /\ [HandshakeNext]_handshakeVars => RingInv'
  BY RingStep, Zenon
<1> QED
  BY <1>1, <1>2, InitHands, InitRing, HandsStep, PTL DEF HandshakeSpec

-----------------------------------------------------------------------------
(* The connections the client makes.                                       *)

\* One to each address, and none once it has written.
ConnInv ==
    /\ listening \in BOOLEAN
    /\ conns \in 0..NAddrs /\ sock \in [Procs -> 0..NAddrs]
    /\ thread["client"] = "init" => conns = 0
    /\ thread["client"] = "connect" => conns < NAddrs

(* There is none at first.                                                 *)
LEMMA InitConn == HandshakeInit => ConnInv
<1> SUFFICES ASSUME HandshakeInit PROVE ConnInv
  BY Zenon
<1>1. /\ listening = FALSE /\ conns = 0 /\ sock = [p \in Procs |-> 0]
      /\ thread["client"] = "init"
  BY TwoSides DEF HandshakeInit
<1>2. 0 \in 0..NAddrs
  BY HandshakeAssumption
<1>3. "init" # "connect"
  OBVIOUS
<1> QED
  BY <1>1, <1>2, <1>3, Zenon DEF ConnInv

(* A step that makes no connection.                                        *)
LEMMA ConnKept ==
    ASSUME ConnInv, UNCHANGED <<conns, sock>>, listening' \in BOOLEAN,
           thread'["client"] \in {"init", "connect"} =>
               thread["client"] \in {"init", thread'["client"]}
    PROVE  ConnInv'
  BY HandshakeAssumption DEF ConnInv

(* Every step keeps the number of connections within that of addresses.    *)
LEMMA ConnStep ==
    ASSUME HandTypes, ConnInv, NEW p \in Procs, Step(p) \/ CallFails(p)
    PROVE  ConnInv'
<1>1. ASSUME NEW q \in Procs, Exit(q) PROVE ConnInv'
  BY <1>1, TwoSides, ConnKept DEF Exit, Goto, HandTypes
<1>2. CASE InitContext(p)
  BY <1>2, TwoSides, ConnKept DEF InitContext, Goto, HandTypes, ConnInv
<1>3. CASE Listen
  BY <1>3, TwoSides, ConnKept DEF Listen, Goto, HandTypes
<1>4. CASE Accept
  BY <1>4, TwoSides, HandshakeAssumption DEF Accept, Goto, HandTypes, ConnInv
<1>5. CASE ChangeToRts
  BY <1>5, TwoSides, ConnKept DEF ChangeToRts, Goto, HandTypes, ConnInv
<1>6. CASE Connect
  BY <1>6, TwoSides, HandshakeAssumption DEF Connect, Goto, HandTypes, ConnInv
<1>7. CASE PollLock
  BY <1>7, TwoSides, ConnKept, SMTT(60) DEF PollLock, Goto, hands, HandTypes, ConnInv
<1>8. CASE ReadSend
  BY <1>8, TwoSides, ConnKept DEF ReadSend, Goto, hands, HandTypes, ConnInv
<1>9. CASE WriteInfo(p)
  BY <1>9, TwoSides, ConnKept DEF WriteInfo, Goto, HandTypes, ConnInv
<1>10. CASE ReadInfo(p)
  BY <1>10, TwoSides, ConnKept DEF ReadInfo, Goto, hands, HandTypes, ConnInv
<1>11. CASE ChangeToRtr(p)
  BY <1>11, TwoSides, ConnKept DEF ChangeToRtr, Goto, HandTypes, ConnInv
<1>12. CASE ConnectRefused \/ ReadFails(p) \/ CallFails(p)
  <2>1. "client" \in Procs
    BY TwoSides
  <2>2. \E q \in Procs : Exit(q)
    BY <1>12, <2>1, Zenon DEF ConnectRefused, ReadFails, CallFails
  <2> QED
    BY <1>1, <2>2, Zenon
<1> QED
  BY <1>2, <1>3, <1>4, <1>5, <1>6, <1>7, <1>8, <1>9, <1>10, <1>11, <1>12, Zenon DEF Step

(* Nor does any other step of the two processes.                           *)
LEMMA ConnNext == Hands /\ ConnInv /\ [HandshakeNext]_handshakeVars => ConnInv'
<1> SUFFICES ASSUME Hands, ConnInv, [HandshakeNext]_handshakeVars PROVE ConnInv'
  BY Zenon
<1>1. CASE (\E r \in {"rx", "tx"} : SetVringAddr(r)) \/ MainStore \/ UNCHANGED handshakeVars
  BY <1>1, Zenon DEF SetVringAddr, MainStore, handshakeVars, hands, ConnInv
<1> QED
  BY <1>1, ConnStep, Zenon DEF HandshakeNext, Hands

(* The type invariant of the handshake: the client makes no more           *)
(* connections than the name has addresses.                                *)
THEOREM HandshakeTypeCorrect == HandshakeSpec => []HandshakeTypeOK
<1>1. Hands /\ RingInv /\ ConnInv => HandshakeTypeOK
  BY StoresFacts, Zenon DEF Hands, HandTypes, HandInv, RingInv, ConnInv, HandshakeTypeOK
<1>2. Hands /\ RingInv /\ [HandshakeNext]_handshakeVars => RingInv'
  BY RingStep, Zenon
<1> QED
  BY <1>1, <1>2, InitHands, InitRing, InitConn, HandsStep, ConnNext, PTL DEF HandshakeSpec

-----------------------------------------------------------------------------
(* Who waits for whom.                                                     *)

\* The client uses the last connection it made, the server the first.
SockInv ==
    /\ sock["client"] = conns
    /\ sock["server"] # 0 => sock["server"] = 1 /\ conns > 0

\* A side that is not waiting for its peer.
CanGoOn(p) ==
    \/ thread[p] \in {"init", "listen", "connect", "write"}
    \/ thread[p] = "accept" /\ conns > 0

(* A side that waits for parameters which its peer has not written on the  *)
(* connection it reads has a peer that goes on by itself or has exited: the *)
(* two threads never wait for each other.                                  *)
NeverBothWait ==
    \A p \in Procs :
        thread[p] = "read" /\ ~Readable(p) => Exited(Peer(p)) \/ CanGoOn(Peer(p))

(* The connections are taken as they are made.                             *)
LEMMA SockStep ==
    ASSUME Hands, ConnInv, SockInv, [HandshakeNext]_handshakeVars
    PROVE  SockInv'
<1>1. /\ conns \in Nat /\ sock \in [Procs -> Nat]
  BY Zenon DEF Hands, HandTypes
<1>2. CASE UNCHANGED <<conns, sock>>
  BY <1>2, Zenon DEF SockInv
<1>3. CASE Accept
  BY <1>1, <1>3, TwoSides DEF Accept, SockInv
<1>4. CASE Connect
  BY <1>1, <1>4, TwoSides DEF Connect, SockInv
<1>5. ASSUME NEW p \in Procs, Step(p) \/ CallFails(p), ~Accept, ~Connect
      PROVE  UNCHANGED <<conns, sock>>
  BY <1>5, Zenon DEF Step, CallFails, InitContext, Listen, ChangeToRts, ConnectRefused,
     PollLock, ReadSend, WriteInfo, ReadInfo, ReadFails, ChangeToRtr, Exit, hands
<1>6. ASSUME (\E r \in {"rx", "tx"} : SetVringAddr(r)) \/ MainStore \/ UNCHANGED handshakeVars
      PROVE  UNCHANGED <<conns, sock>>
  BY <1>6, Zenon DEF SetVringAddr, MainStore, handshakeVars, hands
<1> QED
  BY <1>2, <1>3, <1>4, <1>5, <1>6, Zenon DEF HandshakeNext

(* When the server's name has one address, the two transport threads never *)
(* wait for each other's parameters, wherever either of them fails: the    *)
(* safety part of BothSettle.  With more addresses they may, since the     *)
(* client keeps its last connection and the server its first.              *)
THEOREM HandshakeNeverCrosses ==
    ASSUME NAddrs = 1
    PROVE  HandshakeSpec => []NeverBothWait
<1>1. ASSUME Hands, ConnInv, SockInv PROVE NeverBothWait
  <2> SUFFICES ASSUME NEW p \in Procs, thread[p] = "read", ~Readable(p),
                      ~Exited(Peer(p)), ~CanGoOn(Peer(p))
               PROVE  FALSE
    BY Zenon DEF NeverBothWait
  <2> DEFINE q == Peer(p)
  <2>1. p \in wrote /\ sock[p] # 0 /\ q \in Procs /\ Peer(q) = p
    BY <1>1, TwoSides DEF Hands, HandInv
  <2>2. conns = 1 /\ sock["client"] = 1
    BY <1>1, <2>1, TwoSides DEF ConnInv, SockInv
  <2>3. thread[q] \notin {"init", "listen", "connect", "write", "accept", "exited"}
    BY <2>2 DEF CanGoOn, Exited
  <2>4. thread[q] = "read" \/ Answered(q)
    <3>1. thread[q] \in {"init", "listen", "accept", "connect", "write", "read",
                         "rtr", "rts", "done", "poll", "put", "exited"}
      BY <1>1, <2>1, Zenon DEF Hands, HandTypes
    <3> QED
      BY <2>3, <3>1, Zenon DEF Answered
  <2>5. q \in wrote /\ sock[q] # 0
    BY <1>1, <2>1, <2>4, Zenon DEF Hands, HandInv
  <2>6. sock[p] = sock[q]
    BY <1>1, <2>1, <2>2, <2>5, TwoSides DEF SockInv
  <2> QED
    BY <2>5, <2>6, Zenon DEF Readable
<1>2. HandshakeInit => SockInv
  BY TwoSides DEF HandshakeInit, SockInv
<1>3. Hands /\ ConnInv /\ SockInv /\ [HandshakeNext]_handshakeVars => SockInv'
  BY SockStep, Zenon
<1> QED
  BY <1>1, <1>2, <1>3, InitHands, InitConn, HandsStep, ConnNext, PTL DEF HandshakeSpec
=============================================================================
