-------------------------- MODULE EventLoopProofs --------------------------
(***************************************************************************)
(* Proofs about EventLoop, for every list size and every set of            *)
(* descriptors, connections and eventfds.                                  *)
(***************************************************************************)
EXTENDS EventLoop, WellFoundedInduction, TLAPS

\* Who is where: a connection is behind at most one descriptor and never both
\* accepted and waiting.
ConnInv ==
    /\ \A f, g \in Fds : file[f] \in Conns /\ file[f] = file[g] => f = g
    /\ \A f \in Fds : file[f] \in Conns => file[f] \in sent
    /\ \A j \in 1..Len(backlog) : /\ backlog[j] \in sent
                                  /\ \A f \in Fds : file[f] # backlog[j]
    /\ \A j, k \in 1..Len(backlog) : backlog[j] = backlog[k] => j = k

\* The listening socket has the first node to itself.
FirstNode ==
    /\ read_fds[0].fd \in Fds
    /\ \A k \in Nodes : read_fds[k].handler = "accept" => k = 0

\* The ready bits that process_fd_set has yet to look at are not stale, and
\* at the first node nothing that select reported has been closed.
ReadyInv ==
    pc = "process" =>
      /\ \A k \in Nodes :
           k >= idx /\ read_fds[k].fd \in ready =>
             /\ read_fds[k].handler = "accept" => backlog # <<>>
             /\ read_fds[k].handler = "receive" => inbox[file[read_fds[k].fd]] # <<>>
      /\ idx = 0 => \A f \in ready : file[f] # Closed

LoopInv == TypeOK /\ ListMatchesFiles /\ FirstNode /\ ConnInv /\ ReadyInv

-----------------------------------------------------------------------------
(* A set of numbers that is not empty has a least member.                  *)
LEMMA LeastIn ==
    ASSUME NEW S, S \subseteq Nat, S # {}
    PROVE  Least(S) \in S
<1>1. \E x \in S : \A y \in S : ~(<<y, x>> \in OpToRel(<, Nat))
  BY NatLessThanWellFounded, WFMin, Zenon
<1>2. \E x \in S : \A y \in S : ~(<<y, x>> \in {ss \in Nat \X Nat : ss[1] < ss[2]})
  BY <1>1, Zenon DEF OpToRel
<1>3. PICK x \in S : \A y \in S : ~(<<y, x>> \in {ss \in Nat \X Nat : ss[1] < ss[2]})
  BY <1>2
<1>4. ASSUME NEW y \in S PROVE x <= y
  <2>1. x \in Nat /\ y \in Nat
    OBVIOUS
  <2>2. <<y, x>> \in Nat \X Nat /\ <<y, x>>[1] = y /\ <<y, x>>[2] = x
    BY <2>1
  <2>3. ~(y < x)
    BY <1>3, <2>2
  <2> QED
    BY <2>1, <2>3
<1> QED
  BY <1>4, Zenon DEF Least

(* What the assumptions on the constants say about single values.          *)
LEMMA Distinct ==
    /\ \A c \in Conns : c \notin Kicks /\ c # Listener /\ c # Other /\ c # Closed
    /\ \A k \in Kicks : k # Listener /\ k # Other /\ k # Closed
    /\ Listener # Closed
    /\ -1 \notin Fds
    /\ 0 \in Nodes
    /\ Nodes \subseteq Nat
BY FileAssumption, ListAssumption DEF Nodes

\* The types of the list and of the descriptor table.
ListType == [Nodes -> [fd : Fds \cup {-1}, handler : Handlers]]
FileType == [Fds -> Conns \cup Kicks \cup {Listener, Other, Closed}]

(* The lowest free descriptor is one.                                      *)
LEMMA FreeFacts ==
    ASSUME Free # {}
    PROVE  Least(Free) \in Fds /\ file[Least(Free)] = Closed
<1>1. Free \subseteq Nat
  BY ListAssumption, Zenon DEF Free
<1>2. Least(Free) \in Free
  BY <1>1, LeastIn, Zenon
<1> QED
  BY <1>2 DEF Free

(* A registered descriptor is open.                                        *)
LEMMA RegisteredOpen ==
    ASSUME TypeOK, ListMatchesFiles, NEW k \in Nodes, read_fds[k].fd # -1
    PROVE  /\ read_fds[k].fd \in Fds
           /\ file[read_fds[k].fd] # Closed
<1>1. read_fds[k] \in [fd : Fds \cup {-1}, handler : Handlers]
  BY DEF TypeOK
<1>2. read_fds[k].handler \in {"accept", "receive", "kick"}
  BY <1>1 DEF ListMatchesFiles, Handlers
<1> QED
  BY <1>1, <1>2, Distinct DEF ListMatchesFiles

(* add_fd_list changes at most one node, which was empty.                  *)
LEMMA AddFacts ==
    ASSUME TypeOK, FirstNode, NEW fd \in Fds \cup {-1}, NEW h \in Handlers,
           add_fd_list(fd, h)
    PROVE  /\ read_fds' \in ListType
           /\ \/ read_fds' = read_fds
              \/ \E e \in Nodes \ {0} :
                    /\ read_fds[e].fd = -1
                    /\ read_fds' = [read_fds EXCEPT ![e] = [fd |-> fd, handler |-> h]]
<1>1. CASE Empty = {}
  BY <1>1 DEF add_fd_list, TypeOK, ListType
<1>2. CASE Empty # {}
  <2>1. Least(Empty) \in Empty
    BY <1>2, LeastIn, Distinct, Zenon DEF Empty
  <2>2. Least(Empty) \in Nodes \ {0} /\ read_fds[Least(Empty)].fd = -1
    BY <2>1, Distinct DEF Empty, FirstNode
  <2>3. read_fds' = [read_fds EXCEPT ![Least(Empty)] = [fd |-> fd, handler |-> h]]
    BY <1>2 DEF add_fd_list
  <2> QED
    BY <2>2, <2>3, Zenon DEF TypeOK, ListType
<1> QED
  BY <1>1, <1>2

(* del_fd_list clears the one node with that descriptor.                   *)
LEMMA DelFacts ==
    ASSUME TypeOK, ListMatchesFiles, NEW k \in Nodes, read_fds[k].fd # -1,
           del_fd_list(read_fds[k].fd)
    PROVE  read_fds' = [read_fds EXCEPT ![k] = NoNode]
<1> DEFINE found == {j \in Nodes : read_fds[j].fd = read_fds[k].fd}
<1>1. found = {k}
  BY DEF ListMatchesFiles
<1>2. Least(found) = k
  BY <1>1, LeastIn, Distinct
<1> QED
  BY <1>1, <1>2, Zenon DEF del_fd_list

(* Registering a descriptor that has just been opened keeps the list and   *)
(* the descriptor table in step.                                           *)
LEMMA InstallKeepsList ==
    ASSUME TypeOK, ListMatchesFiles, FirstNode, Free # {},
           NEW x \in Conns \cup Kicks,
           NEW h \in {"receive", "kick"},
           h = "receive" => x \in Conns,
           h = "kick" => x \in Kicks,
           add_fd_list(Least(Free), h),
           file' = [file EXCEPT ![Least(Free)] = x]
    PROVE  /\ read_fds' \in ListType
           /\ file' \in FileType
           /\ ListMatchesFiles'
           /\ FirstNode'
<1> DEFINE f == Least(Free)
<1>1. f \in Fds /\ file[f] = Closed
  BY FreeFacts
<1> HIDE DEF f
<1>2. /\ read_fds' \in ListType
      /\ \/ read_fds' = read_fds
         \/ \E e \in Nodes \ {0} :
               /\ read_fds[e].fd = -1
               /\ read_fds' = [read_fds EXCEPT ![e] = [fd |-> f, handler |-> h]]
  BY <1>1, AddFacts DEF Handlers, f
<1>3. /\ file' \in FileType
      /\ file'[f] = x
      /\ \A g \in Fds : g # f => file'[g] = file[g]
  BY <1>1 DEF TypeOK, FileType, f
<1>4. \A k \in Nodes : read_fds[k].fd # -1 => read_fds[k].fd \in Fds /\ read_fds[k].fd # f
  BY <1>1, RegisteredOpen
<1>5. CASE read_fds' = read_fds
  BY <1>2, <1>3, <1>4, <1>5 DEF ListMatchesFiles, FirstNode
<1>6. ASSUME NEW e \in Nodes \ {0}, read_fds[e].fd = -1,
             read_fds' = [read_fds EXCEPT ![e] = [fd |-> f, handler |-> h]]
      PROVE  ListMatchesFiles' /\ FirstNode'
  <2>1. /\ read_fds'[e].fd = f /\ read_fds'[e].handler = h
        /\ \A k \in Nodes : k # e => read_fds'[k] = read_fds[k]
    BY <1>6 DEF TypeOK
  <2>2. f # -1
    BY <1>1, Distinct
  <2> QED
    BY <1>3, <1>4, <2>1, <2>2, Distinct DEF ListMatchesFiles, FirstNode
<1> QED
  BY <1>2, <1>3, <1>5, <1>6

-----------------------------------------------------------------------------
(* The invariant holds once vhost_user_open_socket has registered the      *)
(* listening socket.                                                       *)
LEMMA InitLoop == Init => LoopInv
<1> SUFFICES ASSUME Init PROVE LoopInv
  OBVIOUS
<1>1. Least(Fds) \in Fds
  BY LeastIn, ListAssumption, Zenon
<1>2. TypeOK
  BY <1>1, Distinct DEF Init, TypeOK, Handlers, NoNode, Msgs
<1>3. ListMatchesFiles /\ FirstNode
  BY <1>1, Distinct DEF Init, ListMatchesFiles, FirstNode, NoNode
<1>4. ConnInv
  BY Distinct DEF Init, ConnInv
<1>5. ReadyInv
  BY DEF Init, ReadyInv
<1> QED
  BY <1>2, <1>3, <1>4, <1>5 DEF LoopInv

(* The front ends only add to what can be read.                            *)
LEMMA EnvStep == LoopInv /\ EnvNext => LoopInv'
<1> SUFFICES ASSUME LoopInv, EnvNext PROVE LoopInv'
  OBVIOUS
<1> USE DEF LoopInv
<1>1. ASSUME NEW c \in Conns, Connect(c) PROVE LoopInv'
  <2>1. TypeOK'
    BY <1>1 DEF Connect, TypeOK
  <2>2. ListMatchesFiles' /\ FirstNode'
    BY <1>1 DEF Connect, ListMatchesFiles, FirstNode
  <2>3. /\ Len(backlog') = Len(backlog) + 1 /\ Len(backlog) \in Nat
        /\ \A j \in 1..Len(backlog) : backlog'[j] = backlog[j]
        /\ backlog'[Len(backlog) + 1] = c
        /\ backlog' # <<>>
    <3>1. backlog \in Seq(Conns) /\ backlog' = Append(backlog, c)
      BY <1>1 DEF Connect, TypeOK
    <3>2. Len(backlog') = Len(backlog) + 1 /\ Len(backlog) \in Nat
      BY <3>1
    <3>3. \A j \in 1..Len(backlog) : backlog'[j] = backlog[j]
      BY <3>1
    <3>4. backlog'[Len(backlog) + 1] = c
      BY <3>1
    <3>5. backlog' # <<>>
      BY <3>2
    <3> QED
      BY <3>2, <3>3, <3>4, <3>5
  <2>4. c \notin sent /\ sent' = sent \cup {c} /\ file' = file
    BY <1>1 DEF Connect
  <2>5. ConnInv'
    <3>1. \A j \in 1..Len(backlog') : j \in 1..Len(backlog) \/ j = Len(backlog) + 1
      BY <2>3
    <3>2. \A j \in 1..Len(backlog') : /\ backlog'[j] \in sent'
                                       /\ \A f \in Fds : file'[f] # backlog'[j]
      BY <2>3, <2>4, <3>1 DEF ConnInv
    <3>3. \A j, k \in 1..Len(backlog') : backlog'[j] = backlog'[k] => j = k
      BY <2>3, <2>4, <3>1 DEF ConnInv
    <3> QED
      BY <2>4, <3>2, <3>3 DEF ConnInv
  <2>6. ReadyInv'
    BY <1>1, <2>3 DEF Connect, ReadyInv
  <2> QED
    BY <2>1, <2>2, <2>5, <2>6
<1>2. ASSUME NEW c \in Conns, NEW m \in Msgs, Send(c, m) PROVE LoopInv'
  <2>1. TypeOK'
    BY <1>2 DEF Send, TypeOK
  <2>2. ListMatchesFiles' /\ FirstNode'
    BY <1>2 DEF Send, ListMatchesFiles, FirstNode
  <2>3. ConnInv'
    BY <1>2 DEF Send, ConnInv
  <2>4. \A d \in Conns : inbox[d] # <<>> => inbox'[d] # <<>>
    BY <1>2, SMTT(60) DEF Send
  <2>5. \A k \in Nodes : read_fds[k].fd \in ready /\ read_fds[k].handler = "receive"
                            => file[read_fds[k].fd] \in Conns
    BY Distinct DEF ListMatchesFiles, TypeOK
  <2>6. ReadyInv'
    BY <1>2, <2>4, <2>5, SMTT(60) DEF Send, ReadyInv
  <2> QED
    BY <2>1, <2>2, <2>3, <2>6
<1>3. ASSUME NEW k \in Kicks, Signal(k) PROVE LoopInv'
  <2>1. TypeOK'
    BY <1>3 DEF Signal, TypeOK
  <2> QED
    BY <1>3, <2>1 DEF Signal, ListMatchesFiles, FirstNode, ConnInv, ReadyInv
<1> QED
  BY <1>1, <1>2, <1>3 DEF EnvNext

(* select sets the bits of readable descriptors only.                      *)
LEMMA TraverseStep == LoopInv /\ TraverseFdList => LoopInv'
<1> SUFFICES ASSUME LoopInv, TraverseFdList PROVE LoopInv'
  OBVIOUS
<1> USE DEF LoopInv
<1>1. /\ read_fds' = read_fds /\ file' = file /\ backlog' = backlog
      /\ inbox' = inbox /\ sent' = sent /\ signalled' = signalled /\ idx' = 0
      /\ pc' \in {"select", "process"}
      /\ ready' = {f \in Registered : Readable(f)}
  BY DEF TraverseFdList, env
<1>2. Registered \subseteq Fds
  BY DEF Registered, TypeOK
<1>3. TypeOK'
  BY <1>1, <1>2, SMTT(60) DEF TypeOK
<1>4. ListMatchesFiles' /\ FirstNode' /\ ConnInv'
  BY <1>1 DEF ListMatchesFiles, FirstNode, ConnInv
<1>5. ASSUME NEW k \in Nodes, read_fds[k].fd \in ready'
      PROVE  /\ read_fds[k].handler = "accept" => backlog # <<>>
             /\ read_fds[k].handler = "receive" => inbox[file[read_fds[k].fd]] # <<>>
  <2>1. Readable(read_fds[k].fd) /\ read_fds[k].fd # -1
    BY <1>1, <1>5 DEF Registered
  <2> QED
    BY <2>1, Distinct DEF Readable, ListMatchesFiles, TypeOK
<1>6. ASSUME NEW f \in ready' PROVE file[f] # Closed
  BY <1>1, <1>6, Distinct, SMTT(60) DEF Readable, TypeOK
<1>7. ReadyInv'
  BY <1>1, <1>5, <1>6 DEF ReadyInv
<1> QED
  BY <1>3, <1>4, <1>7

(* process_fd_set goes past a node whose descriptor is not ready.          *)
LEMMA SkipStep == LoopInv /\ SkipNode => LoopInv'
<1> SUFFICES ASSUME LoopInv, SkipNode PROVE LoopInv'
  OBVIOUS
<1> USE DEF LoopInv
<1>1. TypeOK'
  BY SMTT(60) DEF SkipNode, env, TypeOK
<1>2. ListMatchesFiles' /\ FirstNode' /\ ConnInv'
  BY DEF SkipNode, env, ListMatchesFiles, FirstNode, ConnInv
<1>3. ReadyInv'
  <2>1. CASE idx < ListSize
    <3>1. idx' = idx + 1 /\ idx \in Nat
      BY <2>1 DEF SkipNode, TypeOK
    <3>2. idx' # 0 /\ \A k \in Nodes : k >= idx' => k >= idx
      BY <3>1, ListAssumption DEF Nodes
    <3> QED
      BY <3>2 DEF SkipNode, env, ReadyInv
  <2>2. CASE ~(idx < ListSize)
    BY <2>2 DEF SkipNode, ReadyInv
  <2> QED
    BY <2>1, <2>2
<1> QED
  BY <1>1, <1>2, <1>3

(* The node a handler runs for.                                            *)
LEMMA AtNode ==
    ASSUME LoopInv, NEW h, IsSet(h)
    PROVE  /\ idx \in Nodes /\ idx \in Nat /\ idx + 1 # 0 /\ pc = "process"
           /\ read_fds[idx].fd \in ready /\ read_fds[idx].fd \in Fds
           /\ read_fds[idx].fd # -1
           /\ read_fds[idx].handler = h
           /\ \A k \in Nodes : k >= idx + 1 => k >= idx /\ k # idx
<1> USE DEF LoopInv
<1>1. idx \in Nat /\ idx < ListSize
  BY Zenon DEF TypeOK, IsSet
<1>2. idx \in Nodes /\ \A k \in Nodes : k >= idx + 1 => k >= idx /\ k # idx
  BY <1>1, ListAssumption DEF Nodes
<1>3. read_fds[idx].fd \in ready /\ read_fds[idx].handler = h /\ pc = "process"
  BY Zenon DEF IsSet, Node
<1>4. read_fds[idx].fd \in Fds
  BY <1>3, Zenon DEF TypeOK
<1> QED
  BY <1>1, <1>2, <1>3, <1>4, ListAssumption

(* accept runs for the first node, when nothing has been closed since      *)
(* select: the descriptor it opens has no ready bit.                       *)
LEMMA AcceptStep == LoopInv /\ AcceptSockServer => LoopInv'
<1> SUFFICES ASSUME LoopInv, AcceptSockServer PROVE LoopInv'
  BY Zenon
<1> USE DEF LoopInv
<1>1. IsSet("accept")
  BY Zenon DEF AcceptSockServer
<1>2. /\ idx = 0 /\ idx' = 1 /\ pc = "process" /\ pc' = "process" /\ ready' = ready
      /\ inbox' = inbox /\ sent' = sent /\ signalled' = signalled
  BY <1>1, AtNode DEF AcceptSockServer, Return, FirstNode
<1>3. \A k \in Nodes : k >= 1 => k >= idx /\ k # 0
  BY <1>2 DEF Nodes
<1>4. CASE Free = {}
  <2>1. file' = file /\ backlog' = backlog /\ add_fd_list(-1, "receive")
    BY <1>4, Zenon DEF AcceptSockServer
  <2>2. /\ read_fds' \in ListType
        /\ \/ read_fds' = read_fds
           \/ \E e \in Nodes \ {0} :
                 /\ read_fds[e].fd = -1
                 /\ read_fds' = [read_fds EXCEPT ![e] = [fd |-> -1, handler |-> "receive"]]
    BY <2>1, AddFacts, Zenon DEF Handlers
  <2>3. /\ \A k \in Nodes : read_fds'[k].fd = read_fds[k].fd
        /\ \A k \in Nodes : read_fds'[k] = read_fds[k]
                              \/ (read_fds'[k].fd = -1 /\ read_fds'[k].handler = "receive")
        /\ read_fds'[0] = read_fds[0]
    BY <2>2, Distinct DEF TypeOK
  <2>4. TypeOK'
    BY <1>2, <2>1, <2>2, Zenon DEF TypeOK, ListType
  <2>5. ListMatchesFiles' /\ FirstNode'
    BY <2>1, <2>3, Distinct DEF ListMatchesFiles, FirstNode
  <2>6. ConnInv'
    BY <1>2, <2>1, Zenon DEF ConnInv
  <2>7. -1 \notin ready
    BY Distinct, Zenon DEF TypeOK
  <2>8. ReadyInv'
    BY <1>2, <1>3, <2>1, <2>3, <2>7, Zenon DEF ReadyInv
  <2> QED
    BY <2>4, <2>5, <2>6, <2>8, Zenon
<1>5. CASE Free # {}
  <2> DEFINE f == Least(Free)
             c == Head(backlog)
  <2>1. /\ backlog # <<>> /\ backlog' = Tail(backlog)
        /\ file' = [file EXCEPT ![f] = c] /\ add_fd_list(f, "receive")
    BY <1>5, Zenon DEF AcceptSockServer
  <2>2. /\ backlog \in Seq(Conns) /\ Len(backlog) \in Nat /\ Len(backlog) >= 1
        /\ c = backlog[1] /\ c \in Conns
    BY <2>1 DEF TypeOK
  <2>3. /\ backlog' \in Seq(Conns) /\ Len(backlog') = Len(backlog) - 1
        /\ \A j \in 1..Len(backlog') : backlog'[j] = backlog[j + 1]
    BY <2>1, <2>2
  <2>4. f \in Fds /\ file[f] = Closed
    BY <1>5, FreeFacts, Zenon
  <2>5. /\ read_fds' \in ListType /\ file' \in FileType
        /\ ListMatchesFiles' /\ FirstNode'
    BY <1>5, <2>1, <2>2, InstallKeepsList, Zenon
  <2>6. \/ read_fds' = read_fds
        \/ \E e \in Nodes \ {0} :
              /\ read_fds[e].fd = -1
              /\ read_fds' = [read_fds EXCEPT ![e] = [fd |-> f, handler |-> "receive"]]
    BY <2>1, <2>4, AddFacts, Zenon DEF Handlers
  <2> HIDE DEF f, c
  <2>7. file'[f] = c /\ \A g \in Fds : g # f => file'[g] = file[g]
    BY <2>1, <2>4, Zenon DEF TypeOK
  <2>8. TypeOK'
    BY <1>2, <2>3, <2>5, Zenon DEF TypeOK, ListType, FileType
  <2>9. ConnInv'
    <3>1. 1 \in 1..Len(backlog) /\ \A j \in 1..Len(backlog') :
                                    j + 1 \in 1..Len(backlog) /\ j + 1 # 1
      BY <2>2, <2>3
    <3>2. c \in sent /\ \A g \in Fds : file[g] # c
      BY <2>2, <3>1, Zenon DEF ConnInv
    <3>3. \A j \in 1..Len(backlog') : /\ backlog'[j] \in sent /\ backlog'[j] # c
                                       /\ \A g \in Fds : file[g] # backlog'[j]
      BY <2>2, <2>3, <3>1, SMTT(60) DEF ConnInv
    <3>4. \A j, k \in 1..Len(backlog') : backlog'[j] = backlog'[k] => j = k
      <4> SUFFICES ASSUME NEW j \in 1..Len(backlog'), NEW k \in 1..Len(backlog'),
                          backlog'[j] = backlog'[k]
                   PROVE  j = k
        BY Zenon
      <4>1. j + 1 = k + 1
        BY <2>3, <3>1 DEF ConnInv
      <4> QED
        BY <4>1
    <3>5. \A g, i \in Fds : file'[g] \in Conns /\ file'[g] = file'[i] => g = i
      BY <2>7, <3>2, Zenon DEF ConnInv
    <3>6. \A g \in Fds : file'[g] \in Conns => file'[g] \in sent
      BY <2>7, <3>2, Zenon DEF ConnInv
    <3>7. \A j \in 1..Len(backlog') : \A g \in Fds : file'[g] # backlog'[j]
      BY <2>7, <3>3, Zenon
    <3> QED
      BY <1>2, <3>3, <3>4, <3>5, <3>6, <3>7, Zenon DEF ConnInv
  <2>10. f \notin ready
    BY <1>2, <2>4, Zenon DEF ReadyInv
  <2>11. \A k \in Nodes : read_fds'[k] = read_fds[k] \/ read_fds'[k].fd = f
    BY <2>6 DEF TypeOK
  <2>12. ASSUME NEW k \in Nodes, k >= 1, read_fds'[k].fd \in ready
         PROVE  /\ read_fds'[k].handler # "accept"
                /\ read_fds'[k].handler = "receive" =>
                     inbox[file'[read_fds'[k].fd]] # <<>>
    <3>1. read_fds'[k] = read_fds[k] /\ read_fds[k].fd # f
      BY <2>10, <2>11, <2>12, Zenon
    <3>2. read_fds[k].fd \in Fds
      BY <2>12, <3>1, Zenon DEF TypeOK
    <3>3. file'[read_fds[k].fd] = file[read_fds[k].fd]
      BY <2>7, <3>1, <3>2, Zenon
    <3> QED
      BY <1>2, <1>3, <2>12, <3>1, <3>3, Zenon DEF ReadyInv, FirstNode
  <2>13. ReadyInv'
    <3>1. idx' = 1 /\ idx' # 0 /\ ready' = ready /\ inbox' = inbox
      BY <1>2, SMT
    <3> QED
      BY <2>12, <3>1, ZenonT(60) DEF ReadyInv
  <2> QED
    BY <2>5, <2>8, <2>9, <2>13, Zenon
<1> QED
  BY <1>4, <1>5, Zenon

(* Taking a message leaves the later nodes' connections as they were.      *)
LEMMA TakeFacts ==
    ASSUME LoopInv, IsSet("receive"), Take
    PROVE  /\ Peer \in Conns
           /\ inbox' \in [Conns -> Seq(Msgs)]
           /\ backlog' = backlog /\ sent' = sent /\ signalled' = signalled
           /\ \A k \in Nodes :
                k >= idx + 1 /\ read_fds[k].fd \in ready =>
                  /\ read_fds[k].fd # read_fds[idx].fd
                  /\ read_fds[k].handler = "accept" => backlog # <<>>
                  /\ read_fds[k].handler = "receive" =>
                       inbox'[file[read_fds[k].fd]] # <<>>
<1> USE DEF LoopInv
<1>1. Peer = file[read_fds[idx].fd] /\ Peer \in Conns
  BY AtNode, Zenon DEF Peer, Node, ListMatchesFiles
<1> HIDE DEF LoopInv
<1>2. /\ inbox[Peer] \in Seq(Msgs) /\ inbox[Peer] # <<>>
      /\ inbox' = [inbox EXCEPT ![Peer] = Tail(inbox[Peer])]
      /\ backlog' = backlog /\ sent' = sent /\ signalled' = signalled
  BY <1>1, Zenon DEF Take, LoopInv, TypeOK
<1>3. Tail(inbox[Peer]) \in Seq(Msgs)
  BY <1>2
<1>4. /\ inbox' \in [Conns -> Seq(Msgs)]
      /\ \A d \in Conns : d # Peer => inbox'[d] = inbox[d]
  BY <1>2, <1>3, Zenon DEF LoopInv, TypeOK
<1>5. ASSUME NEW k \in Nodes, k >= idx + 1, read_fds[k].fd \in ready
      PROVE  /\ read_fds[k].fd # read_fds[idx].fd
             /\ read_fds[k].handler = "accept" => backlog # <<>>
             /\ read_fds[k].handler = "receive" =>
                  inbox'[file[read_fds[k].fd]] # <<>>
  <2>1. k >= idx /\ k # idx /\ pc = "process" /\ idx \in Nodes
    BY <1>5, AtNode, Zenon
  <2>2. read_fds[k].fd \in Fds /\ read_fds[k].fd # -1 /\ read_fds[idx].fd \in Fds
    BY <1>5, AtNode, Distinct, Zenon DEF LoopInv, TypeOK
  <2>3. read_fds[k].fd # read_fds[idx].fd
    BY <2>1, <2>2, Zenon DEF LoopInv, ListMatchesFiles
  <2>4. read_fds[k].handler = "receive" => file[read_fds[k].fd] \in Conns
    BY <2>2, Zenon DEF LoopInv, ListMatchesFiles
  <2>5. read_fds[k].handler = "receive" => file[read_fds[k].fd] # Peer
    BY <1>1, <2>2, <2>3, <2>4, Zenon DEF LoopInv, ConnInv
  <2> QED
    BY <1>4, <1>5, <2>1, <2>3, <2>4, <2>5, Zenon DEF LoopInv, ReadyInv
<1> QED
  BY <1>1, <1>2, <1>4, <1>5, Zenon

(* receive_sock_server takes a message that changes no registration.       *)
LEMMA ReceiveOtherStep == LoopInv /\ ReceiveOther => LoopInv'
<1> SUFFICES ASSUME LoopInv, ReceiveOther PROVE LoopInv'
  BY Zenon
<1>1. IsSet("receive") /\ Take /\ read_fds' = read_fds
  BY Zenon DEF ReceiveOther
<1>2. /\ \/ idx' = idx + 1 /\ pc' = pc
         \/ idx' = idx /\ pc' = "aborted"
      /\ ready' = ready
  BY Zenon DEF ReceiveOther, Return
<1>3. \/ file' = file
      \/ Free # {} /\ file' = [file EXCEPT ![Least(Free)] = Other]
  BY Zenon DEF ReceiveOther
<1>4. /\ file' \in FileType
      /\ \A g \in Fds : file[g] # Closed => file'[g] = file[g]
      /\ \A g \in Fds : file'[g] # file[g] => file'[g] = Other
  <2>1. file \in FileType
    BY Zenon DEF LoopInv, TypeOK, FileType
  <2>2. CASE file' = file
    BY <2>1, <2>2, Zenon
  <2>3. CASE Free # {} /\ file' = [file EXCEPT ![Least(Free)] = Other]
    <3>1. Least(Free) \in Fds /\ file[Least(Free)] = Closed
      BY <2>3, FreeFacts, Zenon
    <3> QED
      BY <2>1, <2>3, <3>1, Zenon DEF FileType
  <2> QED
    BY <1>3, <2>2, <2>3, Zenon
<1>5. TypeOK'
  BY <1>1, <1>2, <1>4, TakeFacts DEF LoopInv, TypeOK, FileType
<1>6. \A k \in Nodes : read_fds[k].fd # -1 =>
           read_fds[k].fd \in Fds /\ file'[read_fds[k].fd] = file[read_fds[k].fd]
  BY <1>4, RegisteredOpen, Zenon DEF LoopInv
<1>7. ListMatchesFiles' /\ FirstNode'
  BY <1>1, <1>6, Zenon DEF LoopInv, ListMatchesFiles, FirstNode
<1>8. ConnInv'
  <2>1. \A g \in Fds : file'[g] \in Conns => file'[g] = file[g]
    BY <1>4, Distinct, Zenon
  <2>2. \A j \in 1..Len(backlog) : backlog[j] \in Conns
    BY DEF LoopInv, TypeOK
  <2>3. backlog' = backlog /\ sent' = sent
    BY <1>1, TakeFacts, Zenon
  <2>4. \A g, i \in Fds : file'[g] \in Conns /\ file'[g] = file'[i] => g = i
    BY <2>1, Zenon DEF LoopInv, ConnInv
  <2>5. \A j \in 1..Len(backlog) : \A g \in Fds : file'[g] # backlog[j]
    BY <2>1, <2>2, Zenon DEF LoopInv, ConnInv
  <2> QED
    BY <2>1, <2>3, <2>4, <2>5, ZenonT(60) DEF LoopInv, ConnInv
<1>9. ReadyInv'
  <2>1. CASE idx' = idx + 1 /\ pc' = pc
    <3>1. idx' # 0
      BY <1>1, <2>1, AtNode, Zenon
    <3>2. \A k \in Nodes : read_fds[k].fd \in ready => read_fds[k].fd # -1
      BY Distinct, Zenon DEF LoopInv, TypeOK
    <3> QED
      BY <1>1, <1>2, <1>6, <2>1, <3>1, <3>2, TakeFacts, Zenon DEF ReadyInv
  <2>2. CASE pc' = "aborted"
    BY <2>2, Zenon DEF ReadyInv
  <2> QED
    BY <1>2, <2>1, <2>2, Zenon
<1> QED
  BY <1>5, <1>7, <1>8, <1>9, Zenon DEF LoopInv

(* The kick descriptor may get a number whose ready bit is still set, but  *)
(* its handler does not block.                                             *)
LEMMA SetVringKickStep == LoopInv /\ SetVringKick => LoopInv'
<1> SUFFICES ASSUME LoopInv, SetVringKick PROVE LoopInv'
  BY Zenon
<1>1. IsSet("receive") /\ Take
  BY Zenon DEF SetVringKick
<1>2. CASE Free = {}
  <2>1. /\ pc' = "aborted" /\ read_fds' = read_fds /\ file' = file
        /\ idx' = idx /\ ready' = ready
    BY <1>2, Zenon DEF SetVringKick
  <2>2. TypeOK'
    BY <1>1, <2>1, TakeFacts, ZenonT(60) DEF LoopInv, TypeOK
  <2>3. ListMatchesFiles' /\ FirstNode' /\ ConnInv' /\ ReadyInv'
    BY <1>1, <2>1, TakeFacts, Zenon DEF LoopInv, ListMatchesFiles, FirstNode, ConnInv, ReadyInv
  <2> QED
    BY <2>2, <2>3, Zenon DEF LoopInv
<1>3. CASE Free # {}
  <2> DEFINE f == Least(Free)
             x == Head(inbox[Peer])
  <2>1. /\ x \in Kicks /\ file' = [file EXCEPT ![f] = x] /\ add_fd_list(f, "kick")
        /\ idx' = idx + 1 /\ pc' = pc /\ ready' = ready
    BY <1>3, Zenon DEF SetVringKick, Return
  <2>2. f \in Fds /\ file[f] = Closed
    BY <1>3, FreeFacts, Zenon
  <2>3. /\ read_fds' \in ListType /\ file' \in FileType
        /\ ListMatchesFiles' /\ FirstNode'
    BY <1>3, <2>1, InstallKeepsList, Zenon DEF LoopInv
  <2>4. \/ read_fds' = read_fds
        \/ \E e \in Nodes \ {0} :
              /\ read_fds[e].fd = -1
              /\ read_fds' = [read_fds EXCEPT ![e] = [fd |-> f, handler |-> "kick"]]
    BY <2>1, <2>2, AddFacts, Zenon DEF Handlers, LoopInv
  <2> HIDE DEF f, x
  <2>5. file'[f] = x /\ \A g \in Fds : g # f => file'[g] = file[g]
    BY <2>1, <2>2, Zenon DEF LoopInv, TypeOK
  <2>6. TypeOK'
    BY <1>1, <2>1, <2>3, TakeFacts DEF LoopInv, TypeOK, ListType, FileType
  <2>7. ConnInv'
    <3>1. \A g \in Fds : file'[g] \in Conns => file'[g] = file[g]
      BY <2>1, <2>5, Distinct, Zenon
    <3>2. \A j \in 1..Len(backlog) : backlog[j] \in Conns
      BY DEF LoopInv, TypeOK
    <3>3. backlog' = backlog /\ sent' = sent
      BY <1>1, TakeFacts, Zenon
    <3>4. \A g, i \in Fds : file'[g] \in Conns /\ file'[g] = file'[i] => g = i
      BY <3>1, Zenon DEF LoopInv, ConnInv
    <3>5. \A j \in 1..Len(backlog) : \A g \in Fds : file'[g] # backlog[j]
      BY <3>1, <3>2, Zenon DEF LoopInv, ConnInv
    <3> QED
      BY <3>1, <3>3, <3>4, <3>5, Zenon DEF LoopInv, ConnInv
  <2>8. ReadyInv'
    <3>1. idx' # 0
      BY <1>1, <2>1, AtNode, Zenon
    <3>2. \A k \in Nodes : read_fds'[k] = read_fds[k] \/ read_fds'[k].handler = "kick"
      BY <2>4 DEF LoopInv, TypeOK
    <3>3. \A k \in Nodes : read_fds[k].fd \in ready =>
               file'[read_fds[k].fd] = file[read_fds[k].fd]
      BY <2>2, <2>5, RegisteredOpen, Distinct, ZenonT(60) DEF LoopInv, TypeOK
    <3> QED
      BY <1>1, <2>1, <3>1, <3>2, <3>3, TakeFacts, ZenonT(60) DEF ReadyInv
  <2> QED
    BY <2>3, <2>6, <2>7, <2>8, Zenon DEF LoopInv
<1> QED
  BY <1>2, <1>3, Zenon

(* The node goes before its descriptor can be given out again.             *)
LEMMA ReceiveEofStep == LoopInv /\ ReceiveEof => LoopInv'
<1> SUFFICES ASSUME LoopInv, ReceiveEof PROVE LoopInv'
  BY Zenon
<1> DEFINE f == read_fds[idx].fd
<1>1. IsSet("receive") /\ Take /\ del_fd_list(f) /\ file' = [file EXCEPT ![f] = Closed]
  BY Zenon DEF ReceiveEof, Node
<1>2. /\ \/ idx' = idx + 1 /\ pc' = pc
         \/ idx' = idx /\ pc' = "aborted"
      /\ ready' = ready
  BY Zenon DEF ReceiveEof, Return
<1>3. idx \in Nodes /\ f \in Fds /\ f # -1 /\ read_fds[idx].handler = "receive"
  BY <1>1, AtNode, Zenon
<1>4. read_fds' = [read_fds EXCEPT ![idx] = NoNode]
  BY <1>1, <1>3, DelFacts, Zenon DEF LoopInv
<1>5. /\ read_fds'[idx].fd = -1 /\ read_fds'[idx].handler = "none"
      /\ \A k \in Nodes : k # idx => read_fds'[k] = read_fds[k]
      /\ read_fds' \in ListType
  BY <1>3, <1>4, Zenon DEF LoopInv, TypeOK, NoNode, ListType, Handlers
<1>6. \A k \in Nodes : k # idx => read_fds[k].fd # f
  BY <1>3, Zenon DEF LoopInv, ListMatchesFiles
<1> HIDE DEF f
<1>7. /\ file'[f] = Closed /\ \A g \in Fds : g # f => file'[g] = file[g]
      /\ file' \in FileType
  BY <1>1, <1>3, Zenon DEF LoopInv, TypeOK, FileType
<1>8. TypeOK'
  BY <1>1, <1>2, <1>5, <1>7, TakeFacts DEF LoopInv, TypeOK, ListType, FileType
<1>9. \A k \in Nodes : k # idx /\ read_fds[k].fd # -1 =>
           read_fds[k].fd \in Fds /\ file'[read_fds[k].fd] = file[read_fds[k].fd]
  BY <1>6, <1>7, RegisteredOpen, Zenon DEF LoopInv
<1>10. idx # 0 /\ 0 \in Nodes
  BY <1>3, Distinct, Zenon DEF LoopInv, ListMatchesFiles
<1>11. ListMatchesFiles'
  <2>1. ASSUME NEW k \in Nodes, read_fds'[k].fd # -1
        PROVE  /\ read_fds'[k].handler = "accept" => file'[read_fds'[k].fd] = Listener
               /\ read_fds'[k].handler = "receive" => file'[read_fds'[k].fd] \in Conns
               /\ read_fds'[k].handler = "kick" => file'[read_fds'[k].fd] \in Kicks
               /\ read_fds'[k].handler # "none"
    BY <1>5, <1>9, <2>1, ZenonT(60) DEF LoopInv, ListMatchesFiles
  <2>2. \A j, k \in Nodes :
           read_fds'[j].fd = read_fds'[k].fd /\ read_fds'[j].fd # -1 => j = k
    BY <1>5 DEF LoopInv, ListMatchesFiles
  <2>3. read_fds'[0].handler = "accept"
    BY <1>5, <1>10, Zenon DEF LoopInv, ListMatchesFiles
  <2> QED
    BY <2>1, <2>2, <2>3, Zenon DEF ListMatchesFiles
<1>12. FirstNode'
  BY <1>5, <1>10, Zenon DEF LoopInv, FirstNode
<1>13. ConnInv'
  <2>1. \A g \in Fds : file'[g] \in Conns => file'[g] = file[g]
    BY <1>7, Distinct, Zenon
  <2>2. \A j \in 1..Len(backlog) : backlog[j] \in Conns
    BY DEF LoopInv, TypeOK
  <2>3. backlog' = backlog /\ sent' = sent
    BY <1>1, TakeFacts, ZenonT(60)
  <2>4. \A g, i \in Fds : file'[g] \in Conns /\ file'[g] = file'[i] => g = i
    BY <2>1, Zenon DEF LoopInv, ConnInv
  <2>5. \A j \in 1..Len(backlog) : \A g \in Fds : file'[g] # backlog[j]
    BY <2>1, <2>2, Zenon DEF LoopInv, ConnInv
  <2> QED
    BY <2>1, <2>3, <2>4, <2>5, Zenon DEF LoopInv, ConnInv
<1>14. ReadyInv'
  <2>1. CASE idx' = idx + 1 /\ pc' = pc
    <3>1. idx' # 0
      BY <1>1, <2>1, AtNode, Zenon
    <3>2. \A k \in Nodes : k >= idx + 1 => k # idx
      BY <1>1, AtNode, Zenon
    <3>3. \A k \in Nodes : read_fds[k].fd \in ready => read_fds[k].fd # -1
      BY Distinct, Zenon DEF LoopInv, TypeOK
    <3> QED
      BY <1>1, <1>2, <1>5, <1>9, <2>1, <3>1, <3>2, <3>3, TakeFacts DEF ReadyInv
  <2>2. CASE pc' = "aborted"
    BY <2>2, Zenon DEF ReadyInv
  <2> QED
    BY <1>2, <2>1, <2>2, Zenon
<1> QED
  BY <1>8, <1>11, <1>12, <1>13, <1>14, Zenon DEF LoopInv

(* _kick_server reads its eventfd and leaves the list alone.               *)
LEMMA KickStep == LoopInv /\ KickServer => LoopInv'
<1> SUFFICES ASSUME LoopInv, KickServer PROVE LoopInv'
  BY Zenon
<1>1. /\ IsSet("kick") /\ signalled' \subseteq signalled
      /\ idx' = idx + 1 /\ pc' = pc /\ ready' = ready /\ read_fds' = read_fds
      /\ file' = file /\ backlog' = backlog /\ inbox' = inbox /\ sent' = sent
  BY Zenon DEF KickServer, Return
<1>2. TypeOK'
  <2>1. idx' \in Nat
    BY <1>1, AtNode, SMT
  <2> QED
    BY <1>1, <2>1, ZenonT(60) DEF LoopInv, TypeOK
<1>3. ListMatchesFiles' /\ FirstNode' /\ ConnInv'
  BY <1>1, ZenonT(60) DEF LoopInv, ListMatchesFiles, FirstNode, ConnInv
<1>4. ReadyInv'
  BY <1>1, AtNode, Zenon DEF LoopInv, ReadyInv
<1> QED
  BY <1>2, <1>3, <1>4, Zenon DEF LoopInv

(* Every step of the loop, the kernel and the front ends keeps the         *)
(* invariant.                                                              *)
LEMMA LoopStep == LoopInv /\ [Next]_vars => LoopInv'
<1> SUFFICES ASSUME LoopInv, [Next]_vars PROVE LoopInv'
  BY Zenon
<1>1. CASE UNCHANGED vars
  BY <1>1 DEF vars, env, LoopInv, TypeOK, ListMatchesFiles, FirstNode, ConnInv, ReadyInv
<1>2. CASE Next
  BY <1>2, EnvStep, TraverseStep, SkipStep, AcceptStep, ReceiveOtherStep,
     SetVringKickStep, ReceiveEofStep, KickStep, Zenon DEF Next, ServerNext
<1> QED
  BY <1>1, <1>2, Zenon

-----------------------------------------------------------------------------
(* The inductive invariant of the event loop.                              *)
THEOREM LoopCorrect == Spec => []LoopInv
BY InitLoop, LoopStep, PTL DEF Spec

(* The list, the descriptor table and the event loop's position always     *)
(* have their types: add_fd_list never writes past the list's end, and no  *)
(* handler runs for a descriptor the process could not have opened.        *)
THEOREM LoopTypeCorrect == Spec => []TypeOK
<1>1. LoopInv => TypeOK
  BY Zenon DEF LoopInv
<1> QED
  BY <1>1, LoopCorrect, PTL

(* However front ends connect, close and reconnect, a node of the list     *)
(* never names a closed descriptor or one that was reopened as something   *)
(* its handler does not expect.                                            *)
THEOREM ListCorrect == Spec => []ListMatchesFiles
<1>1. LoopInv => ListMatchesFiles
  BY Zenon DEF LoopInv
<1> QED
  BY <1>1, LoopCorrect, PTL

(* process_fd_set never runs accept or recvmsg on a stale ready bit, for   *)
(* any number of connections and any size of the list.                     *)
THEOREM LoopNeverBlocks == Spec => []NeverBlocks
<1>1. ASSUME LoopInv PROVE NeverBlocks
  <2>1. CASE IsSet("accept")
    <3>1. idx \in Nodes /\ idx >= idx /\ backlog # <<>> /\ read_fds[idx].fd # -1
      <4>1. idx >= idx
        BY <1>1, <2>1, AtNode, SMT
      <4>2. /\ idx \in Nodes /\ pc = "process" /\ read_fds[idx].fd \in ready
            /\ read_fds[idx].fd # -1 /\ read_fds[idx].handler = "accept"
        BY <1>1, <2>1, AtNode, Zenon
      <4> QED
        BY <1>1, <4>1, <4>2, Zenon DEF LoopInv, ReadyInv
    <3>2. file[read_fds[idx].fd] = Listener
      BY <1>1, <2>1, <3>1, AtNode, Zenon DEF LoopInv, ListMatchesFiles
    <3> QED
      BY <3>1, <3>2, Zenon DEF NeverBlocks, Readable, Node
  <2>2. CASE IsSet("receive")
    <3>1. idx \in Nodes /\ idx >= idx /\ read_fds[idx].fd # -1
          /\ inbox[file[read_fds[idx].fd]] # <<>>
      <4>1. idx >= idx
        BY <1>1, <2>2, AtNode, SMT
      <4> QED
        BY <1>1, <2>2, <4>1, AtNode, ZenonT(60) DEF LoopInv, ReadyInv
    <3>2. file[read_fds[idx].fd] \in Conns
      BY <1>1, <2>2, <3>1, AtNode, Zenon DEF LoopInv, ListMatchesFiles
    <3> QED
      BY <3>1, <3>2, Zenon DEF NeverBlocks, Readable, Node
  <2> QED
    BY <2>1, <2>2, Zenon DEF NeverBlocks
<1> QED
  BY <1>1, LoopCorrect, PTL
=============================================================================
