----------------------------- MODULE EventLoop -----------------------------
(***************************************************************************)
(* The main thread's event loop: FdList, select, and the handlers that     *)
(* change the list while a select result is being worked off.              *)
(*                                                                         *)
(* The kernel hands out the lowest free descriptor number, so a number     *)
(* that is closed by one handler may come back with another file before    *)
(* process_fd_set has looked at the remaining nodes.  Front ends connect,  *)
(* send, reconnect and close at any time.  Sockets are blocking.           *)
(***************************************************************************)
EXTENDS Integers, Sequences

CONSTANTS
    ListSize,     \* FD_LIST_SIZE
    Fds,          \* the descriptor numbers the process may open
    Conns,        \* connections front ends make, each at most once
    Kicks,        \* the TX kick eventfds they send, each at most once
    Listener, Other, Closed,   \* further values of `file'
    MaxInbox      \* bound: unread messages per connection

ASSUME ListAssumption ==
    /\ ListSize \in Nat \ {0}
    /\ Fds \subseteq Nat /\ Fds # {}

ASSUME FileAssumption ==
    /\ Conns \cap Kicks = {}
    /\ {Listener, Other, Closed} \cap (Conns \cup Kicks) = {}
    /\ Closed \notin {Listener, Other}
    /\ {"plain", "fd", "eof"} \cap Kicks = {}
    /\ MaxInbox \in Nat

Nodes == 0..(ListSize - 1)
NoNode == [fd |-> -1, handler |-> "none"]
Handlers == {"none", "accept", "receive", "kick"}

\* A message is told apart by the descriptor it carries: none, one that is
\* not registered (call, memory, RX kick), or a TX kick eventfd.
Msgs == {"plain", "fd", "eof"} \cup Kicks

VARIABLES
    read_fds,     \* fd_list.read_fds
    file,         \* the process's descriptor table
    backlog,      \* connections waiting to be accepted
    inbox,        \* per connection, what its front end has sent
    sent,         \* the connections made and the eventfds sent
    signalled,    \* the eventfds that are readable
    ready,        \* read_fdset after select
    idx,          \* local of process_fd_set
    pc            \* "select", "process" or "aborted"

env  == <<backlog, inbox, sent, signalled>>
vars == <<read_fds, file, env, ready, idx, pc>>

Least(S) == CHOOSE x \in S : \A y \in S : x <= y

Free == {f \in Fds : file[f] = Closed}
Empty == {k \in Nodes : read_fds[k].fd = -1}
Registered == {read_fds[k].fd : k \in Nodes} \ {-1}

TypeOK ==
    /\ read_fds \in [Nodes -> [fd : Fds \cup {-1}, handler : Handlers]]
    /\ file \in [Fds -> Conns \cup Kicks \cup {Listener, Other, Closed}]
    /\ backlog \in Seq(Conns)
    /\ inbox \in [Conns -> Seq(Msgs)]
    /\ sent \subseteq Conns \cup Kicks
    /\ signalled \subseteq Kicks
    /\ ready \subseteq Fds
    /\ idx \in Nat
    /\ pc \in {"select", "process", "aborted"}

\* vhost_user_open_socket: only the listening socket is registered.
Init ==
    /\ file = [f \in Fds |-> IF f = Least(Fds) THEN Listener ELSE Closed]
    /\ read_fds = [k \in Nodes |-> IF k = 0
                                   THEN [fd |-> Least(Fds), handler |-> "accept"]
                                   ELSE NoNode]
    /\ backlog = <<>>
    /\ inbox = [c \in Conns |-> <<>>]
    /\ sent = {} /\ signalled = {} /\ ready = {}
    /\ idx = 0 /\ pc = "select"

-----------------------------------------------------------------------------
(* The front ends and the kernel.                                          *)

Connect(c) ==
    /\ c \notin sent
    /\ sent' = sent \cup {c}
    /\ backlog' = Append(backlog, c)
    /\ UNCHANGED <<read_fds, file, inbox, signalled, ready, idx, pc>>

\* A message is written, or the connection is closed.
Send(c, m) ==
    /\ c \in sent
    /\ Len(inbox[c]) < MaxInbox
    /\ m \notin sent
    /\ \A k \in 1..Len(inbox[c]) : inbox[c][k] # "eof"
    /\ \/ \E f \in Fds : file[f] = c
       \/ \E k \in 1..Len(backlog) : backlog[k] = c
    /\ inbox' = [inbox EXCEPT ![c] = Append(@, m)]
    /\ sent' = sent \cup ({m} \cap Kicks)
    /\ UNCHANGED <<read_fds, file, backlog, signalled, ready, idx, pc>>

\* A kick eventfd is signalled, or drained by the front end itself.
Signal(k) ==
    /\ k \in sent
    /\ signalled' \in {signalled \cup {k}, signalled \ {k}}
    /\ UNCHANGED <<read_fds, file, backlog, inbox, sent, ready, idx, pc>>

Readable(f) ==
    \/ file[f] = Listener /\ backlog # <<>>
    \/ file[f] \in Conns /\ inbox[file[f]] # <<>>
    \/ file[f] \in signalled

-----------------------------------------------------------------------------
(* FdList.                                                                 *)

\* add_fd_list: the first empty node is used; a full list is left as it is.
add_fd_list(fd, h) ==
    read_fds' = IF Empty = {} THEN read_fds
                ELSE [read_fds EXCEPT ![Least(Empty)] = [fd |-> fd, handler |-> h]]

\* del_fd_list: the first node with this descriptor is cleared.
del_fd_list(fd) ==
    LET found == {k \in Nodes : read_fds[k].fd = fd}
    IN read_fds' = IF found = {} THEN read_fds
                   ELSE [read_fds EXCEPT ![Least(found)] = NoNode]

\* Mutant: FD_ZERO is missing.
TraverseKeepsBits ==
    /\ pc = "select"
    /\ ready' = ready \cup {f \in Registered : Readable(f)}
    /\ idx' = 0
    /\ pc' = IF ready' = {} THEN "select" ELSE "process"
    /\ UNCHANGED <<read_fds, file, env>>

\* Mutant: process_fd_set starts at the second node.
TraverseFromOne ==
    /\ pc = "select"
    /\ ready' = {f \in Registered : Readable(f)}
    /\ idx' = 1
    /\ pc' = IF ready' = {} THEN "select" ELSE "process"
    /\ UNCHANGED <<read_fds, file, env>>

\* traverse_fd_list: select reports the registered descriptors that are
\* readable; a timeout leaves everything as it is.
TraverseFdList ==
    /\ pc = "select"
    /\ ready' = {f \in Registered : Readable(f)}
    /\ idx' = 0
    /\ pc' = IF ready' = {} THEN "select" ELSE "process"
    /\ UNCHANGED <<read_fds, file, env>>

\* The node process_fd_set is looking at.
Node == read_fds[idx]
IsSet(h) == pc = "process" /\ idx < ListSize /\ Node.fd \in ready /\ Node.handler = h

\* The handler at the current node has returned.
Return == idx' = idx + 1 /\ pc' = pc /\ ready' = ready

\* Mutant: process_fd_set may stop before the last node.
SkipNodeShort ==
    /\ pc = "process"
    /\ IF idx < ListSize - 1
       THEN /\ Node.fd \notin ready \/ Node.handler = "none"
            /\ idx' = idx + 1 /\ pc' = pc
       ELSE idx' = 0 /\ pc' = "select"
    /\ UNCHANGED <<read_fds, file, env, ready>>

\* FD_ISSET is false or there is no handler; after the last node, select.
SkipNode ==
    /\ pc = "process"
    /\ IF idx < ListSize
       THEN /\ Node.fd \notin ready \/ Node.handler = "none"
            /\ idx' = idx + 1 /\ pc' = pc
       ELSE idx' = 0 /\ pc' = "select"
    /\ UNCHANGED <<read_fds, file, env, ready>>

\* accept_sock_server.  A failed accept registers descriptor -1.
AcceptSockServer ==
    /\ IsSet("accept")
    /\ backlog # <<>>
    /\ IF Free = {}
       THEN /\ add_fd_list(-1, "receive")
            /\ UNCHANGED <<file, backlog>>
       ELSE /\ file' = [file EXCEPT ![Least(Free)] = Head(backlog)]
            /\ backlog' = Tail(backlog)
            /\ add_fd_list(Least(Free), "receive")
    /\ Return
    /\ UNCHANGED <<inbox, sent, signalled>>

\* The connection at the current node, and taking its next message.
Peer == file[Node.fd]
Take == /\ inbox[Peer] # <<>>
        /\ inbox' = [inbox EXCEPT ![Peer] = Tail(@)]
        /\ UNCHANGED <<backlog, sent, signalled>>

\* receive_sock_server, for a message whose handler leaves the list alone.  A
\* descriptor it carries is installed and never closed; when there is no room
\* for it the handler runs on what the stack holds and may fail an assertion.
ReceiveOther ==
    /\ IsSet("receive")
    /\ Take
    /\ Head(inbox[Peer]) \in {"plain", "fd"}
    /\ read_fds' = read_fds
    /\ IF Head(inbox[Peer]) = "fd" /\ Free # {}
       THEN file' = [file EXCEPT ![Least(Free)] = Other] /\ Return
       ELSE /\ file' = file
            /\ \/ Return
               \/ /\ Head(inbox[Peer]) = "fd"
                  /\ pc' = "aborted" /\ UNCHANGED <<idx, ready>>

\* receive_sock_server with _set_vring_kick for the TX ring: the eventfd is
\* registered; assert(msg->fd_num == 1) fails when it could not be installed.
SetVringKick ==
    /\ IsSet("receive")
    /\ Take
    /\ Head(inbox[Peer]) \in Kicks
    /\ IF Free = {}
       THEN /\ pc' = "aborted"
            /\ UNCHANGED <<read_fds, file, idx, ready>>
       ELSE /\ file' = [file EXCEPT ![Least(Free)] = Head(inbox[Peer])]
            /\ add_fd_list(Least(Free), "kick")
            /\ Return

\* Mutant: the socket is closed but stays on the list.
ReceiveEofKeepsNode ==
    /\ IsSet("receive")
    /\ Take
    /\ Head(inbox[Peer]) = "eof"
    /\ read_fds' = read_fds
    /\ file' = [file EXCEPT ![Node.fd] = Closed]
    /\ \/ Return
       \/ pc' = "aborted" /\ UNCHANGED <<idx, ready>>

\* receive_sock_server at end of file: the node and the socket are closed,
\* and the uninitialised message is handled all the same.
ReceiveEof ==
    /\ IsSet("receive")
    /\ Take
    /\ Head(inbox[Peer]) = "eof"
    /\ del_fd_list(Node.fd)
    /\ file' = [file EXCEPT ![Node.fd] = Closed]
    /\ \/ Return
       \/ pc' = "aborted" /\ UNCHANGED <<idx, ready>>

\* _kick_server: the (non-blocking) eventfd is drained.
KickServer ==
    /\ IsSet("kick")
    /\ signalled' = signalled \ {Peer}
    /\ Return
    /\ UNCHANGED <<read_fds, file, backlog, inbox, sent>>

ServerNext ==
    \/ TraverseFdList
    \/ SkipNode
    \/ AcceptSockServer
    \/ ReceiveOther
    \/ SetVringKick
    \/ ReceiveEof
    \/ KickServer

\* What the others do after the server has aborted is of no interest.
EnvNext ==
    /\ pc # "aborted"
    /\ \/ \E c \in Conns : Connect(c)
       \/ \E c \in Conns, m \in Msgs : Send(c, m)
       \/ \E k \in Kicks : Signal(k)

Next == EnvNext \/ ServerNext

Spec == Init /\ [][Next]_vars /\ WF_vars(ServerNext)

-----------------------------------------------------------------------------
(* Properties.                                                             *)

(* Every registered descriptor is open, is registered once and refers to    *)
(* the kind of file its handler expects; the listening socket stays first.  *)
(* Closing a connection never leaves a node behind for its number.          *)
ListMatchesFiles ==
    /\ \A k \in Nodes : read_fds[k].fd # -1 =>
          /\ read_fds[k].handler = "accept" => file[read_fds[k].fd] = Listener
          /\ read_fds[k].handler = "receive" => file[read_fds[k].fd] \in Conns
          /\ read_fds[k].handler = "kick" => file[read_fds[k].fd] \in Kicks
          /\ read_fds[k].handler # "none"
    /\ \A j, k \in Nodes :
          read_fds[j].fd = read_fds[k].fd /\ read_fds[j].fd # -1 => j = k
    /\ read_fds[0].handler = "accept"

(* process_fd_set never calls a handler that would block in accept or       *)
(* recvmsg: the ready bit of a descriptor is not stale when it is looked    *)
(* at, although handlers have closed and reopened descriptors since select. *)
NeverBlocks ==
    IsSet("accept") \/ IsSet("receive") => Readable(Node.fd)

(* A connection the front end has closed is eventually taken off the list,  *)
(* whatever the other connections do, unless the server aborts.             *)
ClosedIsRemoved ==
    \A c \in Conns :
        (/\ \E f \in Registered : file[f] = c
         /\ \E k \in 1..Len(inbox[c]) : inbox[c][k] = "eof")
        ~> (pc = "aborted" \/ \A f \in Registered : file[f] # c)

(* A front end that connects is eventually accepted while a descriptor is   *)
(* free, unless the server aborts.                                          *)
ConnectIsAccepted ==
    \A c \in Conns :
        (\E k \in 1..Len(backlog) : backlog[k] = c)
        ~> (pc = "aborted" \/ Free = {} \/ \A k \in 1..Len(backlog) : backlog[k] # c)
=============================================================================
