---------------------------- MODULE VhostUserLink ----------------------------
(***************************************************************************)
(* QEMU's network back end "vhost-user": the timer that watches the        *)
(* connection to the server and makes a new one, and the start and stop of *)
(* the device that follow from it.                                         *)
(*                                                                         *)
(* The handlers run under QEMU's global lock, one at a time; the server    *)
(* may die between any two messages a handler sends.                       *)
(***************************************************************************)
EXTENDS Naturals

CONSTANTS
    MaxFaults     \* bound: deaths of the server and send timeouts

ASSUME LinkAssumption == MaxFaults \in Nat

VARIABLES
    up,             \* the server accepts connections
    alive,          \* the server's end of QEMU's connection is open
    faults,         \* deaths and timeouts so far
    vhost_net,      \* s->vhost_net is set
    control,        \* dev.control >= 0
    started,        \* dev.started
    vhost_started,  \* n->vhost_started
    link_down,      \* s->nc.link_down
    link_up,        \* VIRTIO_NET_S_LINK_UP of the NIC
    monitor,        \* set_link has been used
    driver,         \* VIRTIO_CONFIG_S_DRIVER_OK and the VM runs
    pc,             \* the function that is sending, or "idle"
    todo,           \* the calls it has yet to make
    ret,            \* what follows it
    fell_back       \* the last start has failed for a reason of QEMU's own

net  == <<up, alive, faults>>
nic  == <<link_down, link_up, driver>>
vars == <<net, nic, monitor, vhost_net, control, started, vhost_started, pc, todo, ret, fell_back>>

\* The calls that vhost_dev_init, vhost_dev_start and vhost_net_stop_one make.
InitCalls == 5     \* ECHO, SET_OWNER, GET_FEATURES, SET_VRING_CALL twice
StartCalls == 10   \* SET_FEATURES, SET_MEM_TABLE, four for each queue
QueueCalls == 4
StopCalls == 4     \* NET_SET_BACKEND twice, GET_VRING_BASE twice
Vectors == 0..2    \* queues whose vector the guest has unmasked

TypeOK ==
    /\ up \in BOOLEAN /\ alive \in BOOLEAN /\ vhost_net \in BOOLEAN /\ control \in BOOLEAN
    /\ started \in BOOLEAN /\ vhost_started \in BOOLEAN
    /\ link_down \in BOOLEAN /\ link_up \in BOOLEAN /\ driver \in BOOLEAN
    /\ monitor \in BOOLEAN
    /\ faults \in 0..MaxFaults
    /\ pc \in {"idle", "init", "start", "undo", "notify", "stop", "call", "down", "aborted"}
    /\ todo \in 0..StartCalls
    /\ ret \in {"idle", "down"} /\ fell_back \in BOOLEAN

\* QEMU does not start without the server.
Init ==
    /\ up = TRUE /\ alive = TRUE /\ faults = 0
    /\ vhost_net = TRUE /\ control = TRUE
    /\ started = FALSE /\ vhost_started = FALSE
    /\ link_down = FALSE /\ link_up = TRUE /\ driver = FALSE /\ monitor = FALSE
    /\ pc = "idle" /\ todo = 0 /\ ret = "idle" /\ fell_back = FALSE

-----------------------------------------------------------------------------
(* The server.                                                             *)

ServerDies ==
    /\ up /\ faults < MaxFaults
    /\ up' = FALSE /\ alive' = FALSE /\ faults' = faults + 1
    /\ UNCHANGED <<nic, vhost_net, control, started, vhost_started, pc, todo, ret>>

ServerStarts ==
    /\ ~up /\ up' = TRUE
    /\ UNCHANGED <<alive, faults, nic, vhost_net, control, started, vhost_started, pc, todo, ret>>

-----------------------------------------------------------------------------
(* The calls of a running function.                                        *)

Sending == pc \in {"init", "start", "undo", "notify", "stop", "call"}

\* vhost_user_call with a socket: a failed send closes it and returns 0.
VhostUserCall ==
    /\ Sending /\ todo > 0 /\ control
    /\ todo' = todo - 1
    /\ control' = alive
    /\ UNCHANGED <<net, nic, vhost_net, started, vhost_started, pc, ret>>

\* The same when SO_SNDTIMEO expires.
SendTimeout ==
    /\ Sending /\ todo > 0 /\ control /\ alive
    /\ faults < MaxFaults /\ faults' = faults + 1
    /\ todo' = todo - 1
    /\ control' = FALSE /\ alive' = FALSE
    /\ UNCHANGED <<up, nic, vhost_net, started, vhost_started, pc, ret>>

\* Mutant: the flag of the NIC is not taken back.
StartFailsKeepsFlag ==
    /\ pc = "start" /\ todo > 0 /\ ~control
    /\ started' = FALSE
    /\ pc' = IF todo <= QueueCalls THEN "aborted" ELSE ret
    /\ UNCHANGED <<net, nic, vhost_net, control, vhost_started, todo, ret>>

\* vhost_user_call without a socket returns -1.  vhost_dev_start gives up; if
\* the first queue was started, stopping it fails an assertion.
StartFails ==
    /\ pc = "start" /\ todo > 0 /\ ~control
    /\ started' = FALSE /\ vhost_started' = FALSE
    /\ pc' = IF todo <= QueueCalls THEN "aborted" ELSE ret
    /\ UNCHANGED <<net, nic, vhost_net, control, todo, ret>>

\* A start fails for a reason of QEMU's own.  Host notifiers cannot be enabled,
\* or the rings of the first queue not be mapped: nothing has to be undone.
\* Those of the second cannot: the first is stopped.  Guest notifiers cannot be
\* set: what was masked is unmasked and the device is stopped.
StartGivesUp ==
    /\ pc = "start"
    /\ \/ /\ todo \in {StartCalls, QueueCalls + 2}
          /\ started' = FALSE /\ vhost_started' = FALSE
          /\ pc' = ret /\ UNCHANGED todo
       \/ /\ todo = 2
          /\ pc' = "undo" /\ todo' = 1
          /\ UNCHANGED <<started, vhost_started>>
       \/ /\ todo = 0
          /\ pc' = "undo" /\ todo' \in {StopCalls + v : v \in Vectors}
          /\ UNCHANGED <<started, vhost_started>>
    /\ fell_back' = TRUE
    /\ UNCHANGED <<net, nic, vhost_net, control, ret>>

\* Everywhere else but in vhost_dev_init the result is asserted.
AssertFails ==
    /\ pc \in {"undo", "notify", "stop", "call"} /\ todo > 0 /\ ~control
    /\ pc' = "aborted"
    /\ UNCHANGED <<net, nic, vhost_net, control, started, vhost_started, todo, ret>>

StartReturns ==
    /\ pc = "start" /\ todo = 0
    /\ pc' = "notify" /\ todo' \in Vectors
    /\ UNCHANGED <<net, nic, vhost_net, control, started, vhost_started, ret>>

CallReturns ==
    /\ pc \in {"notify", "call"} /\ todo = 0
    /\ pc' = ret
    /\ UNCHANGED <<net, nic, vhost_net, control, started, vhost_started, todo, ret>>

StopReturns ==
    /\ pc \in {"undo", "stop"} /\ todo = 0
    /\ started' = FALSE /\ vhost_started' = FALSE
    /\ pc' = ret
    /\ UNCHANGED <<net, nic, vhost_net, control, todo, ret>>

-----------------------------------------------------------------------------
(* What calls them.                                                        *)

\* virtio_net_vhost_status, for a device that has a vhost_net if has.
VhostStatus(has, drv, lup, ldown, next) ==
    LET wanted == drv /\ lup /\ ~ldown IN
    /\ ret' = next
    /\ IF ~has \/ vhost_started = wanted
       THEN pc' = next /\ UNCHANGED <<todo, started, vhost_started, fell_back>>
       ELSE IF vhost_started
       THEN /\ pc' = "stop" /\ todo' \in {StopCalls + v : v \in Vectors}
            /\ UNCHANGED <<started, vhost_started, fell_back>>
       ELSE /\ pc' = "start" /\ todo' = StartCalls
            /\ started' = TRUE /\ vhost_started' = TRUE /\ fell_back' = FALSE

\* virtio_set_status, and virtio_vmstate_change.
SetStatus ==
    /\ pc = "idle"
    /\ driver' = ~driver
    /\ VhostStatus(vhost_net, ~driver, link_up, link_down, "idle")
    /\ UNCHANGED <<net, link_down, link_up, vhost_net, control>>

\* qmp_set_link on the back end, which changes the NIC too, or on the NIC.
SetLink ==
    /\ pc = "idle"
    /\ monitor' = TRUE
    /\ \E on \in BOOLEAN, ldown \in BOOLEAN :
         /\ ldown = ~on \/ ldown = link_down
         /\ link_down' = ldown /\ link_up' = on
         /\ VhostStatus(vhost_net, driver, on, ldown, "idle")
    /\ UNCHANGED <<net, driver, vhost_net, control>>

\* vhost_virtqueue_mask, when the guest masks or unmasks a vector, and
\* vhost_commit, when the memory map has changed.
MaskOrCommit ==
    /\ pc = "idle" /\ vhost_started
    /\ pc' = "call" /\ todo' = 1 /\ ret' = "idle"
    /\ UNCHANGED <<net, nic, vhost_net, control, started, vhost_started>>

-----------------------------------------------------------------------------
(* vhost_user_timer_handler.                                               *)

\* Mutant: the back end is stopped before the NIC is told.
TimerDownStopsFirst ==
    /\ pc = "idle" /\ vhost_net
    /\ ~link_down /\ ~control
    /\ link_down' = TRUE /\ link_up' = FALSE
    /\ vhost_net' = FALSE
    /\ VhostStatus(FALSE, driver, FALSE, TRUE, "idle")
    /\ UNCHANGED <<net, driver, control>>

\* A connection that is known to be broken.  That the echo fails is not looked
\* at, so that a break is known only from a call that failed.
TimerDown ==
    /\ pc = "idle" /\ vhost_net
    /\ ~link_down /\ ~control
    /\ link_down' = TRUE /\ link_up' = FALSE
    /\ VhostStatus(vhost_net, driver, FALSE, TRUE, "down")
    /\ UNCHANGED <<net, driver, vhost_net, control>>

\* vhost_user_stop, after the NIC has been told.
VhostUserStop ==
    /\ pc = "down"
    /\ vhost_net' = FALSE /\ control' = FALSE /\ alive' = FALSE
    /\ pc' = "idle"
    /\ UNCHANGED <<up, faults, nic, started, vhost_started, todo, ret>>

\* vhost_user_start fails: the link is down, and the NIC has no vhost_net.
NoBackend(next) ==
    /\ pc' = next
    /\ link_down' = TRUE
    /\ link_up' = IF link_down THEN link_up ELSE FALSE
    /\ UNCHANGED <<driver, started, vhost_started, ret>>

\* Mutant: once the link is down no connection is tried.
TimerConnectOnce ==
    /\ pc = "idle" /\ ~vhost_net /\ ~link_down
    /\ IF up
       THEN /\ control' = TRUE /\ alive' = TRUE
            /\ pc' = "init" /\ todo' = InitCalls
            /\ UNCHANGED <<nic, started, vhost_started, ret>>
       ELSE NoBackend("idle") /\ UNCHANGED <<control, alive, todo>>
    /\ UNCHANGED <<up, faults, vhost_net>>

TimerConnect ==
    /\ pc = "idle" /\ ~vhost_net
    /\ IF up
       THEN /\ control' = TRUE /\ alive' = TRUE
            /\ pc' = "init" /\ todo' = InitCalls
            /\ UNCHANGED <<nic, started, vhost_started, ret>>
       ELSE NoBackend("idle") /\ UNCHANGED <<control, alive, todo>>
    /\ UNCHANGED <<up, faults, vhost_net>>

InitFails ==
    /\ pc = "init" /\ todo > 0 /\ ~control
    /\ NoBackend("idle")
    /\ alive' = FALSE
    /\ UNCHANGED <<up, faults, vhost_net, control, todo>>

\* Mutant: the NIC is told while the link still counts as down.
InitReturnsLate ==
    /\ pc = "init" /\ todo = 0
    /\ vhost_net' = TRUE
    /\ link_down' = FALSE
    /\ link_up' = IF link_down THEN TRUE ELSE link_up
    /\ VhostStatus(link_down, driver, TRUE, link_down, "idle")
    /\ UNCHANGED <<net, driver, control>>

\* The connection is made; the NIC is told if the link was down.  The new
\* vhost_dev is not started, as the one before it was not when it was freed.
InitReturns ==
    /\ pc = "init" /\ todo = 0
    /\ vhost_net' = TRUE
    /\ link_down' = FALSE
    /\ link_up' = IF link_down THEN TRUE ELSE link_up
    /\ VhostStatus(link_down, driver, TRUE, FALSE, "idle")
    /\ UNCHANGED <<net, driver, control>>

Timer ==
    /\ UNCHANGED monitor
    /\ \/ TimerDown \/ InitReturns
       \/ (VhostUserStop \/ TimerConnect \/ InitFails) /\ UNCHANGED fell_back

Calls ==
    /\ UNCHANGED monitor
    /\ \/ /\ VhostUserCall \/ StartFails \/ AssertFails \/ StartReturns
             \/ CallReturns \/ StopReturns
          /\ UNCHANGED fell_back
       \/ StartGivesUp

Others ==
    /\ UNCHANGED monitor
    /\ \/ (ServerDies \/ ServerStarts \/ SendTimeout \/ MaskOrCommit) /\ UNCHANGED fell_back
       \/ SetStatus

Next == Timer \/ Calls \/ Others \/ SetLink

Spec == Init /\ [][Next]_vars

\* The timer is set again at the end of every call, and a handler that has
\* begun runs to its end.
FairSpec == Spec /\ WF_vars(Timer) /\ WF_vars(Calls)

-----------------------------------------------------------------------------
(* Properties.                                                             *)

(* Between handlers the three records of whether the device runs in the    *)
(* server agree, whatever call failed: n->vhost_started exactly when there *)
(* is a vhost_net and its dev.started.  A vhost_started without vhost_net  *)
(* would make the next mask of a vector use a null pointer.                *)
StartedAgrees == pc = "idle" => (vhost_started <=> vhost_net /\ started)

(* While no connection exists, the guest has been told that the link is    *)
(* down, unless set_link has told it otherwise, and the NIC does not run   *)
(* in the server.                                                          *)
DownIsSeen ==
    pc = "idle" /\ ~vhost_net => (monitor \/ (link_down /\ ~link_up)) /\ ~vhost_started

(* After a reconnect the device is started again: a driver that is ready,  *)
(* on a link that is up, with a connection not known to be broken, runs in *)
(* the server, unless set_link has taken its link down or the last start   *)
(* failed in QEMU itself ("falling back on userspace virtio").             *)
UpIsStarted ==
    pc = "idle" /\ vhost_net /\ control /\ driver /\ ~monitor => vhost_started \/ fell_back

(* A server that is up for good gets a connection, however often it went   *)
(* away before.                                                            *)
Reconnects == <>[]up => []<>(vhost_net \/ pc = "aborted")

(* The assertions assert(r >= 0) of vhost_net_stop_one hold: the device    *)
(* can be stopped also when its connection has broken.                     *)
StopAssertions == [][pc = "stop" => pc' # "aborted"]_vars
=============================================================================
