--------------------------- MODULE ControlProofs ---------------------------
(***************************************************************************)
(* Proofs about ControlChannel, for any number of connections and starts   *)
(* and for a server that reads at any time.                                *)
(***************************************************************************)
EXTENDS ControlChannel, WellFoundedInduction, TLAPS

\* What a connection has yet to deliver: what is queued (ch) and, for the
\* current one, what QEMU is about to send (pn).
Pending(cr, sc, c) == IF c = cr THEN sc ELSE <<>>
At(ch, pn, k) == IF k <= Len(ch) THEN ch[k] ELSE pn[k - Len(ch)]
Items(ch, pn) == 1..(Len(ch) + Len(pn))

\* A request that needs descriptors carries its own.
WellFormed(m) ==
    /\ m.req = "SET_VRING_KICK" => m.fd.kind = "kick" /\ m.fd.ring = m.ring
    /\ m.req = "SET_VRING_CALL" => m.fd.kind \in {"masked", "guest"} /\ m.fd.ring = m.ring
    /\ m.req = "SET_VRING_NUM" => m.num = QueueSize
    /\ m.req = "SET_VRING_BASE" => m.num \in 0..(IndexMod - 1)

IsNum(m, i) == m.req = "SET_VRING_NUM" /\ m.ring = i
IsAddr(m, i) == m.req = "SET_VRING_ADDR" /\ m.ring = i

AllWell(ch, pn) == \A k \in Items(ch, pn) : WellFormed(At(ch, pn, k))

\* Before a ring's addresses comes its size, and the size cannot be swallowed:
\* it is the first message, or a recvmsg ends just before it.
Guarded(ch, pn, i) ==
    \A p \in Items(ch, pn) : IsAddr(At(ch, pn, p), i) =>
        \E q \in 1..(p - 1) : /\ IsNum(At(ch, pn, q), i)
                              /\ q = 1 \/ At(ch, pn, q - 1).fd # NoFd

\* The same for what one function of QEMU sends, whatever was sent before it.
GoodScript(w) ==
    /\ w \in Seq(MsgSet)
    /\ \A k \in 1..Len(w) : WellFormed(w[k])
    /\ \A p \in 1..Len(w), i \in Rings : IsAddr(w[p], i) =>
         \E q \in 2..(p - 1) : IsNum(w[q], i) /\ w[q - 1].fd # NoFd

ScriptInv == /\ script # <<>> => cur # 0 /\ cur \notin ended
             /\ \A c \in ended : c <= cur
MsgsInv == \A c \in ConnIds : AllWell(chan[c], Pending(cur, script, c))
LastInv == last # <<>> =>
             /\ WellFormed(last[1])
             /\ \A i \in Rings : IsAddr(last[1], i) => vring[i].num # 0
GuardInv == \A c \in ConnIds, i \in Rings :
               vring[i].num = 0 => Guarded(chan[c], Pending(cur, script, c), i)

ControlInv == /\ TypeOK /\ ScriptInv /\ MsgsInv /\ LastInv /\ GuardInv
              /\ NumBeforeDesc /\ OwnDescriptors

-----------------------------------------------------------------------------
(* A set of numbers that is not empty has a least member.                  *)
LEMMA LeastMember ==
    ASSUME NEW S, S \subseteq Nat, S # {}
    PROVE  LET x == CHOOSE k \in S : \A j \in S : k <= j
           IN x \in S /\ \A j \in S : x <= j
<1>1. \E x \in S : \A y \in S : ~(<<y, x>> \in OpToRel(<, Nat))
  BY NatLessThanWellFounded, WFMin, Zenon
<1>2. \E x \in S : \A y \in S : ~(<<y, x>> \in {ss \in Nat \X Nat : ss[1] < ss[2]})
  BY <1>1, Zenon DEF OpToRel
<1>3. PICK x \in S : \A y \in S : ~(<<y, x>> \in {ss \in Nat \X Nat : ss[1] < ss[2]})
  BY <1>2
<1>4. ASSUME NEW y \in S PROVE x <= y
  <2>1. x \in Nat /\ y \in Nat /\ <<y, x>> \in Nat \X Nat
    OBVIOUS
  <2>2. <<y, x>>[1] = y /\ <<y, x>>[2] = x
    OBVIOUS
  <2> QED
    BY <1>3, <2>1, <2>2
<1> QED
  BY <1>4, Zenon

(* recvmsg returns at least one message and nothing behind one that        *)
(* carries descriptors.                                                    *)
LEMMA TakenFacts ==
    ASSUME TypeOK, NEW c \in ConnIds, chan[c] # <<>>
    PROVE  /\ Taken(c) \in 1..Len(chan[c])
           /\ \A k \in 1..Len(chan[c]) : chan[c][k].fd # NoFd => Taken(c) <= k
<1>1. chan[c] \in Seq(MsgSet) /\ Len(chan[c]) \in Nat /\ Len(chan[c]) >= 1
  BY DEF TypeOK
<1>2. Stops(c) \subseteq 1..Len(chan[c]) /\ Len(chan[c]) \in Stops(c)
  BY <1>1 DEF Stops
<1>3. Stops(c) \subseteq Nat /\ Stops(c) # {}
  BY <1>1, <1>2
<1>4. Taken(c) \in Stops(c) /\ \A j \in Stops(c) : Taken(c) <= j
  BY <1>3, LeastMember, Zenon DEF Taken
<1>5. \A k \in 1..Len(chan[c]) : chan[c][k].fd # NoFd => k \in Stops(c)
  BY DEF Stops
<1> QED
  BY <1>2, <1>4, <1>5, Zenon

(* What a handler does to the ring table: it sets at most what its request *)
(* names, from the message.                                                *)
LEMMA HandlerFacts ==
    ASSUME TypeOK, NEW m \in MsgSet, WellFormed(m), NEW nfds, NEW behind,
           InMsgServer(m, nfds, behind)
    PROVE  /\ memory' \in 0..MaxConns
           /\ status' \in {"ok", "assert", "crash", "garbled"}
           /\ vring' \in [Rings -> VringSet]
           /\ \A i \in Rings :
                /\ vring'[i].num = vring[i].num \/ (IsNum(m, i) /\ vring'[i].num = QueueSize)
                /\ IsNum(m, i) => vring'[i].num = QueueSize
                /\ vring'[i].desc = vring[i].desc \/ IsAddr(m, i)
                /\ vring'[i].kickfd = vring[i].kickfd
                     \/ (m.req = "SET_VRING_KICK" /\ m.ring = i /\ vring'[i].kickfd = m.fd)
                /\ vring'[i].callfd = vring[i].callfd
                     \/ (m.req = "SET_VRING_CALL" /\ m.ring = i /\ vring'[i].callfd = m.fd)
<1>1. m.ring \in Rings /\ m.num \in Nat /\ m.fd \in FdSet /\ m.conn \in 0..MaxConns
  BY ChannelAssumption, SMT DEF MsgSet, ConnIds
<1> USE DEF TypeOK, VringSet, IsNum, IsAddr
<1>2. CASE UNCHANGED <<memory, vring, status>> /\ ~(m.req = "SET_VRING_NUM")
  BY <1>2
<1>4. CASE m.req = "SET_MEM_TABLE" /\ _set_mem_table(m, nfds)
  <2>1. CASE Fail("assert")
    BY <1>4, <2>1, Zenon DEF Fail
  <2>2. CASE memory' \in {0, m.conn} /\ UNCHANGED <<vring, status>>
    <3>1. memory' \in 0..MaxConns
      BY <1>1, <2>2, ChannelAssumption, SMTT(60)
    <3> QED
      BY <1>4, <2>2, <3>1, Zenon
  <2> QED
    BY <1>4, <2>1, <2>2, Zenon DEF _set_mem_table
<1>5. CASE m.req = "SET_VRING_NUM" /\ _set_vring_num(m)
  BY <1>1, <1>5, ZenonT(150) DEF _set_vring_num, SetRing, WellFormed
<1>6. CASE m.req = "SET_VRING_BASE" /\ _set_vring_base(m)
  BY <1>1, <1>6, ZenonT(150) DEF _set_vring_base, SetRing, WellFormed
<1>7. CASE m.req = "SET_VRING_ADDR" /\ _set_vring_addr(m)
  <2>1. CASE Fail("crash")
    BY <1>7, <2>1 DEF Fail
  <2>2. CASE SetRing(m.ring, [vring[m.ring] EXCEPT !.desc = memory])
    BY <1>1, <1>7, <2>2, ZenonT(60) DEF SetRing
  <2> QED
    BY <1>7, <2>1, <2>2 DEF _set_vring_addr
<1>8. CASE m.req = "SET_VRING_KICK" /\ _set_vring_kick(m, nfds)
  <2>1. CASE Fail("assert")
    BY <1>8, <2>1 DEF Fail
  <2>2. CASE SetRing(m.ring, [vring[m.ring] EXCEPT !.kickfd = m.fd])
    BY <1>1, <1>8, <2>2, ZenonT(60) DEF SetRing
  <2> QED
    BY <1>8, <2>1, <2>2 DEF _set_vring_kick
<1>9. CASE m.req = "SET_VRING_CALL" /\ _set_vring_call(m)
  BY <1>1, <1>9, ZenonT(60) DEF _set_vring_call, SetRing
<1>10. CASE m.req = "GET_VRING_BASE" /\ _get_vring_base(behind)
  BY <1>10 DEF _get_vring_base, Fail
<1> QED
  BY <1>2, <1>4, <1>5, <1>6, <1>7, <1>8, <1>9, <1>10, Zenon DEF InMsgServer

-----------------------------------------------------------------------------
(* Lemmas on what is queued and what is about to be sent.                  *)

(* A new script of vhost_dev_start or another function, put behind what is *)
(* queued, keeps every address behind its ring's size.                     *)
LEMMA AppendScript ==
    ASSUME NEW ch \in Seq(MsgSet), NEW w, GoodScript(w), NEW i \in Rings
    PROVE  /\ AllWell(ch, <<>>) => AllWell(ch, w)
           /\ Guarded(ch, <<>>, i) => Guarded(ch, w, i)
<1>1. /\ Len(ch) \in Nat /\ Len(w) \in Nat /\ w \in Seq(MsgSet)
      /\ Items(ch, <<>>) = 1..Len(ch) /\ Items(ch, w) = 1..(Len(ch) + Len(w))
  BY DEF GoodScript, Items
<1>2. \A k \in 1..Len(ch) : At(ch, <<>>, k) = ch[k] /\ At(ch, w, k) = ch[k]
  BY DEF At
<1>3. \A k \in 1..Len(w) : At(ch, w, Len(ch) + k) = w[k]
  BY <1>1 DEF At
<1>4. \A k \in Items(ch, w) : k \in 1..Len(ch) \/ k - Len(ch) \in 1..Len(w)
  BY <1>1
<1>5. ASSUME AllWell(ch, <<>>), NEW k \in Items(ch, w)
      PROVE  WellFormed(At(ch, w, k))
  <2>1. CASE k \in 1..Len(ch)
    BY <1>1, <1>2, <1>5, <2>1 DEF AllWell
  <2>2. CASE k - Len(ch) \in 1..Len(w)
    <3>1. k = Len(ch) + (k - Len(ch))
      BY <1>1
    <3>2. At(ch, w, k) = w[k - Len(ch)]
      BY <1>3, <2>2, <3>1
    <3> QED
      BY <2>2, <3>2 DEF GoodScript
  <2> QED
    BY <1>4, <2>1, <2>2
<1>6. ASSUME Guarded(ch, <<>>, i), NEW p \in Items(ch, w), IsAddr(At(ch, w, p), i)
      PROVE  \E q \in 1..(p - 1) : /\ IsNum(At(ch, w, q), i)
                                   /\ q = 1 \/ At(ch, w, q - 1).fd # NoFd
  <2>1. CASE p \in 1..Len(ch)
    <3>1. PICK q \in 1..(p - 1) : /\ IsNum(At(ch, <<>>, q), i)
                                  /\ q = 1 \/ At(ch, <<>>, q - 1).fd # NoFd
      BY <1>1, <1>2, <1>6, <2>1 DEF Guarded
    <3>2. q \in 1..Len(ch) /\ (q = 1 \/ q - 1 \in 1..Len(ch))
      BY <1>1, <2>1
    <3> QED
      BY <1>2, <3>1, <3>2
  <2>2. CASE p - Len(ch) \in 1..Len(w)
    <3>1. At(ch, w, p) = w[p - Len(ch)]
      <4>1. p = Len(ch) + (p - Len(ch))
        BY <1>1
      <4> QED
        BY <1>3, <2>2, <4>1
    <3>2. PICK q \in 2..(p - Len(ch) - 1) : IsNum(w[q], i) /\ w[q - 1].fd # NoFd
      BY <1>6, <2>2, <3>1 DEF GoodScript
    <3>3. /\ q \in 1..Len(w) /\ q - 1 \in 1..Len(w) /\ Len(ch) + q \in 1..(p - 1)
          /\ (Len(ch) + q) - 1 = Len(ch) + (q - 1)
      BY <1>1, <2>2, <3>2, SMTT(60)
    <3>4. At(ch, w, Len(ch) + q) = w[q] /\ At(ch, w, (Len(ch) + q) - 1) = w[q - 1]
      BY <1>3, <3>3
    <3> QED
      BY <3>2, <3>3, <3>4
  <2> QED
    BY <1>4, <2>1, <2>2
<1> QED
  BY <1>5, <1>6 DEF AllWell, Guarded

(* Sending moves a message from one to the other.                          *)
LEMMA MoveOne ==
    ASSUME NEW ch \in Seq(MsgSet), NEW pn \in Seq(MsgSet), pn # <<>>
    PROVE  LET ch2 == Append(ch, Head(pn))
               pn2 == Tail(pn)
           IN /\ Items(ch2, pn2) = Items(ch, pn)
              /\ \A k \in Items(ch, pn) : At(ch2, pn2, k) = At(ch, pn, k)
<1> DEFINE ch2 == Append(ch, Head(pn))
           pn2 == Tail(pn)
<1>1. Len(ch) \in Nat /\ Len(pn) \in Nat /\ Len(pn) >= 1
  OBVIOUS
<1>2. ch2 \in Seq(MsgSet) /\ Len(ch2) = Len(ch) + 1
      /\ ch2[Len(ch) + 1] = pn[1] /\ \A k \in 1..Len(ch) : ch2[k] = ch[k]
  OBVIOUS
<1>3. Len(pn2) = Len(pn) - 1 /\ \A k \in 1..(Len(pn) - 1) : pn2[k] = pn[k + 1]
  OBVIOUS
<1> HIDE DEF ch2, pn2
<1>4. Items(ch2, pn2) = Items(ch, pn)
  BY <1>1, <1>2, <1>3 DEF Items
<1>5. ASSUME NEW k \in Items(ch, pn) PROVE At(ch2, pn2, k) = At(ch, pn, k)
  <2>1. k \in 1..(Len(ch) + Len(pn))
    BY DEF Items
  <2>2. CASE k <= Len(ch)
    BY <1>1, <1>2, <2>1, <2>2 DEF At
  <2>3. CASE k = Len(ch) + 1
    BY <1>1, <1>2, <2>3 DEF At
  <2>4. CASE k > Len(ch) + 1
    <3>1. At(ch2, pn2, k) = pn2[k - (Len(ch) + 1)]
      BY <1>1, <1>2, <2>1, <2>4 DEF At
    <3>2. k - (Len(ch) + 1) \in 1..(Len(pn) - 1) /\ (k - (Len(ch) + 1)) + 1 = k - Len(ch)
      BY <1>1, <2>1, <2>4
    <3>3. pn2[k - (Len(ch) + 1)] = pn[k - Len(ch)]
      BY <1>3, <3>2
    <3> QED
      BY <1>1, <2>1, <2>4, <3>1, <3>3 DEF At
  <2> QED
    BY <1>1, <2>1, <2>2, <2>3, <2>4
<1> QED
  BY <1>4, <1>5 DEF ch2, pn2

(* When QEMU goes away, what it had queued is still delivered.             *)
LEMMA Cut ==
    ASSUME NEW ch \in Seq(MsgSet), NEW pn \in Seq(MsgSet), NEW i \in Rings
    PROVE  /\ AllWell(ch, pn) => AllWell(ch, <<>>)
           /\ Guarded(ch, pn, i) => Guarded(ch, <<>>, i)
<1>1. /\ Len(ch) \in Nat /\ Len(pn) \in Nat
      /\ Items(ch, <<>>) = 1..Len(ch) /\ Items(ch, pn) = 1..(Len(ch) + Len(pn))
  BY DEF Items
<1>2. \A k \in 1..Len(ch) : At(ch, <<>>, k) = At(ch, pn, k) /\ k \in Items(ch, pn)
  BY <1>1 DEF At
<1>3. ASSUME Guarded(ch, pn, i), NEW p \in 1..Len(ch), IsAddr(At(ch, <<>>, p), i)
      PROVE  \E q \in 1..(p - 1) : /\ IsNum(At(ch, <<>>, q), i)
                                   /\ q = 1 \/ At(ch, <<>>, q - 1).fd # NoFd
  <2>1. PICK q \in 1..(p - 1) : /\ IsNum(At(ch, pn, q), i)
                                /\ q = 1 \/ At(ch, pn, q - 1).fd # NoFd
    BY <1>2, <1>3 DEF Guarded
  <2>2. q \in 1..Len(ch) /\ (q = 1 \/ q - 1 \in 1..Len(ch))
    BY <1>1
  <2> QED
    BY <1>2, <2>1, <2>2
<1> QED
  BY <1>1, <1>2, <1>3, Zenon DEF AllWell, Guarded

(* A read takes messages from the front, but no size of a ring other than  *)
(* the one it handles.                                                     *)
LEMMA TakeFront ==
    ASSUME NEW ch \in Seq(MsgSet), NEW pn \in Seq(MsgSet), NEW i \in Rings,
           NEW n \in 1..Len(ch)
    PROVE  LET ch2 == SubSeq(ch, n + 1, Len(ch))
           IN /\ ch2 \in Seq(MsgSet)
              /\ AllWell(ch, pn) => AllWell(ch2, pn)
              /\ /\ Guarded(ch, pn, i) /\ ~IsNum(ch[1], i)
                 /\ \A k \in 1..Len(ch) : ch[k].fd # NoFd => n <= k
                 => Guarded(ch2, pn, i)
<1> DEFINE ch2 == SubSeq(ch, n + 1, Len(ch))
<1>1. Len(ch) \in Nat /\ Len(pn) \in Nat
  OBVIOUS
<1>2. ch2 \in Seq(MsgSet) /\ Len(ch2) = Len(ch) - n
  OBVIOUS
<1>3. \A k \in 1..(Len(ch) - n) : ch2[k] = ch[k + n]
  OBVIOUS
<1> HIDE DEF ch2
<1>4. /\ Items(ch2, pn) = 1..((Len(ch) - n) + Len(pn))
      /\ Items(ch, pn) = 1..(Len(ch) + Len(pn))
  BY <1>2 DEF Items
<1>5. ASSUME NEW k \in Items(ch2, pn)
      PROVE  k + n \in Items(ch, pn) /\ At(ch2, pn, k) = At(ch, pn, k + n)
  <2>1. k + n \in Items(ch, pn)
    BY <1>1, <1>4
  <2>2. CASE k <= Len(ch) - n
    BY <1>1, <1>2, <1>3, <1>4, <2>2, SMTT(60) DEF At
  <2>3. CASE ~(k <= Len(ch) - n)
    <3>1. k - (Len(ch) - n) = (k + n) - Len(ch) /\ ~(k + n <= Len(ch))
      BY <1>1, <1>4, <2>3
    <3> QED
      BY <1>2, <2>1, <2>3, <3>1 DEF At
  <2> QED
    BY <2>1, <2>2, <2>3
<1>6. AllWell(ch, pn) => AllWell(ch2, pn)
  BY <1>5 DEF AllWell
<1>7. ASSUME Guarded(ch, pn, i), ~IsNum(ch[1], i),
             \A k \in 1..Len(ch) : ch[k].fd # NoFd => n <= k,
             NEW p \in Items(ch2, pn), IsAddr(At(ch2, pn, p), i)
      PROVE  \E q \in 1..(p - 1) : /\ IsNum(At(ch2, pn, q), i)
                                   /\ q = 1 \/ At(ch2, pn, q - 1).fd # NoFd
  <2>1. PICK q \in 1..(p + n - 1) : /\ IsNum(At(ch, pn, q), i)
                                    /\ q = 1 \/ At(ch, pn, q - 1).fd # NoFd
    BY <1>4, <1>5, <1>7 DEF Guarded
  <2>2. q # 1
    BY <1>1, <1>7, <2>1 DEF At
  <2>3. n <= q - 1
    <3>1. CASE q - 1 <= Len(ch)
      <4>1. q - 1 \in 1..Len(ch) /\ At(ch, pn, q - 1) = ch[q - 1]
        BY <1>1, <2>2, <3>1 DEF At
      <4> QED
        BY <1>7, <2>1, <2>2, <4>1
    <3>2. CASE ~(q - 1 <= Len(ch))
      BY <1>1, <3>2
    <3> QED
      BY <3>1, <3>2
  <2>4. /\ q - n \in 1..(p - 1) /\ q - n \in Items(ch2, pn)
        /\ q - n = 1 \/ (q - n) - 1 \in Items(ch2, pn)
        /\ (q - n) + n = q /\ ((q - n) - 1) + n = q - 1
    BY <1>1, <1>4, <2>3, SMTT(60)
  <2>5. At(ch2, pn, q - n) = At(ch, pn, q)
    BY <1>5, <2>4
  <2>6. q - n = 1 \/ At(ch2, pn, (q - n) - 1) = At(ch, pn, q - 1)
    BY <1>5, <2>4
  <2> QED
    BY <2>1, <2>2, <2>4, <2>5, <2>6
<1>8. /\ Guarded(ch, pn, i) /\ ~IsNum(ch[1], i)
      /\ \A k \in 1..Len(ch) : ch[k].fd # NoFd => n <= k
      => Guarded(ch2, pn, i)
  BY <1>7 DEF Guarded
<1> QED
  BY <1>2, <1>6, <1>8 DEF ch2

-----------------------------------------------------------------------------
(* What QEMU sends.                                                        *)

(* The fields of a message that vhost_user_call builds.                    *)
LEMMA MsgType ==
    ASSUME NEW r \in Requests, NEW i \in Rings, NEW n \in Nat, NEW fd \in FdSet,
           NEW c \in ConnIds
    PROVE  /\ Msg(r, i, n, fd, c) \in MsgSet
           /\ Msg(r, i, n, fd, c).req = r /\ Msg(r, i, n, fd, c).ring = i
           /\ Msg(r, i, n, fd, c).num = n /\ Msg(r, i, n, fd, c).fd = fd
           /\ Msg(r, i, n, fd, c).conn = c
  BY DEF Msg, MsgSet

(* The descriptors a message may carry are told apart by kind and ring.    *)
LEMMA FdType ==
    ASSUME NEW k \in {"kick", "masked", "guest", "memory"}, NEW i \in Rings, NEW c \in ConnIds
    PROVE  /\ FdOf(k, i, c) \in FdSet /\ NoFd \in FdSet /\ FdOf(k, i, c) # NoFd
           /\ FdOf(k, i, c).kind = k /\ FdOf(k, i, c).ring = i
<1>1. c \in 0..MaxConns /\ 0 \in 0..MaxConns
  BY ChannelAssumption DEF ConnIds
<1>2. FdOf(k, i, c).kind = k /\ FdOf(k, i, c).ring = i /\ NoFd.kind = "none"
  BY DEF FdOf, NoFd
<1>3. FdOf(k, i, c) \in FdSet
  BY <1>1 DEF FdOf, FdSet
<1>4. NoFd \in FdSet
  BY <1>1, SMTT(60) DEF NoFd, FdSet, Rings
<1> QED
  BY <1>2, <1>3, <1>4

(* A message without a descriptor that names no ring is well formed.       *)
LEMMA PlainGood ==
    ASSUME NEW r \in Requests, NEW i \in Rings, NEW c \in ConnIds,
           r \notin {"SET_VRING_NUM", "SET_VRING_BASE", "SET_VRING_ADDR",
                    "SET_VRING_KICK", "SET_VRING_CALL"}
    PROVE  LET m == Msg(r, i, 0, NoFd, c)
           IN m \in MsgSet /\ WellFormed(m) /\ m.req # "SET_VRING_ADDR"
  BY MsgType, FdType, SMTT(60) DEF WellFormed

(* The SET_VRING_CALL of a ring carries that ring's eventfd.               *)
LEMMA CallGood ==
    ASSUME NEW k \in {"masked", "guest"}, NEW i \in Rings, NEW c \in ConnIds
    PROVE  LET m == Call(k, i, c)
           IN m \in MsgSet /\ WellFormed(m) /\ m.req # "SET_VRING_ADDR"
<1>1. "SET_VRING_CALL" \in Requests /\ FdOf(k, i, c) \in FdSet
      /\ FdOf(k, i, c).kind = k /\ FdOf(k, i, c).ring = i
  BY FdType, SMTT(60) DEF Requests
<1> QED
  BY <1>1, MsgType DEF WellFormed, Call

(* SET_MEM_TABLE carries a descriptor, behind which recvmsg stops.         *)
LEMMA MemTableGood ==
    ASSUME NEW c \in ConnIds
    PROVE  LET m == MemTable(c)
           IN /\ m \in MsgSet /\ WellFormed(m) /\ m.req = "SET_MEM_TABLE" /\ m.fd # NoFd
<1>1. /\ "SET_MEM_TABLE" \in Requests /\ FdOf("memory", RX, c) \in FdSet /\ RX \in Rings
      /\ FdOf("memory", RX, c) # NoFd
  BY FdType DEF Requests, Rings
<1> QED
  BY <1>1, MsgType DEF WellFormed, MemTable

(* A script without addresses needs no size before it.                     *)
LEMMA NoAddrGood ==
    ASSUME NEW w \in Seq(MsgSet),
           \A k \in 1..Len(w) : WellFormed(w[k]) /\ w[k].req # "SET_VRING_ADDR"
    PROVE  GoodScript(w)
  BY DEF GoodScript, IsAddr

(* A single message that sets no addresses is a script that needs no size  *)
(* before it: the echo, a mask, a memory table.                            *)
LEMMA OneGood ==
    ASSUME NEW m \in MsgSet, WellFormed(m), m.req # "SET_VRING_ADDR"
    PROVE  GoodScript(<<m>>)
<1>1. <<m>> \in Seq(MsgSet) /\ \A k \in 1..Len(<<m>>) : <<m>>[k] = m
  OBVIOUS
<1> QED
  BY <1>1, NoAddrGood, Zenon

(* The messages of vhost_user_init and vhost_dev_init are well formed.     *)
LEMMA InitGood ==
    ASSUME NEW c \in ConnIds
    PROVE  GoodScript(InitMsgs(c))
<1> DEFINE m1 == Plain("ECHO", c)
           m2 == Plain("SET_OWNER", c)
           m3 == Plain("GET_FEATURES", c)
           m4 == Call("masked", RX, c)
           m5 == Call("masked", TX, c)
           Good(m) == m \in MsgSet /\ WellFormed(m) /\ m.req # "SET_VRING_ADDR"
<1>1. Good(m1) /\ Good(m2) /\ Good(m3)
  BY PlainGood DEF Plain, Requests, Rings
<1>2. Good(m4) /\ Good(m5)
  BY CallGood DEF Rings
<1>3. InitMsgs(c) = <<m1, m2, m3, m4, m5>>
  BY DEF InitMsgs
<1> HIDE DEF m1, m2, m3, m4, m5
<1>4. InitMsgs(c) \in Seq(MsgSet) /\ Len(InitMsgs(c)) = 5
  BY <1>1, <1>2, <1>3
<1>5. \A k \in 1..5 : Good(InitMsgs(c)[k])
  BY <1>1, <1>2, <1>3
<1> QED
  BY <1>4, <1>5, NoAddrGood, SMTT(60)

(* The messages of vhost_net_stop_one and vhost_virtqueue_stop are well    *)
(* formed.                                                                 *)
LEMMA StopGood ==
    ASSUME NEW c \in ConnIds
    PROVE  GoodScript(StopMsgs(c))
<1> DEFINE m1 == Msg("NET_SET_BACKEND", RX, 0, NoFd, c)
           m2 == Msg("NET_SET_BACKEND", TX, 0, NoFd, c)
           m3 == Plain("GET_VRING_BASE", c)
           Good(m) == m \in MsgSet /\ WellFormed(m) /\ m.req # "SET_VRING_ADDR"
<1>1. Good(m1) /\ Good(m2) /\ Good(m3)
  BY PlainGood DEF Plain, Requests, Rings
<1>2. StopMsgs(c) = <<m1, m2, m3, m3>>
  BY DEF StopMsgs
<1> HIDE DEF m1, m2, m3
<1>3. StopMsgs(c) \in Seq(MsgSet) /\ Len(StopMsgs(c)) = 4
  BY <1>1, <1>2
<1>4. \A k \in 1..4 : Good(StopMsgs(c)[k])
  BY <1>1, <1>2
<1> QED
  BY <1>3, <1>4, NoAddrGood

\* The ten elements of a sequence made of two and four and four.
Parts(w, A, B, C) ==
    /\ w \in Seq(MsgSet) /\ Len(w) = 10
    /\ w[1] = A[1] /\ w[2] = A[2]
    /\ w[3] = B[1] /\ w[4] = B[2] /\ w[5] = B[3] /\ w[6] = B[4]
    /\ w[7] = C[1] /\ w[8] = C[2] /\ w[9] = C[3] /\ w[10] = C[4]

(* The elements of a concatenation.                                        *)
LEMMA ConcatFacts ==
    ASSUME NEW s \in Seq(MsgSet), NEW t \in Seq(MsgSet)
    PROVE  /\ s \o t \in Seq(MsgSet) /\ Len(s \o t) = Len(s) + Len(t)
           /\ \A k \in 1..(Len(s) + Len(t)) :
                 (s \o t)[k] = IF k <= Len(s) THEN s[k] ELSE t[k - Len(s)]
OBVIOUS

(* The messages of vhost_dev_start, counted through its three parts.       *)
LEMMA Concat ==
    ASSUME NEW A \in Seq(MsgSet), Len(A) = 2, NEW B \in Seq(MsgSet), Len(B) = 4,
           NEW C \in Seq(MsgSet), Len(C) = 4
    PROVE  Parts(A \o B \o C, A, B, C)
<1> DEFINE v == A \o B
           w == v \o C
<1>1. /\ v \in Seq(MsgSet) /\ Len(v) = 6
      /\ \A k \in 1..6 : v[k] = IF k <= 2 THEN A[k] ELSE B[k - 2]
  <2>1. /\ v \in Seq(MsgSet) /\ Len(v) = Len(A) + Len(B)
        /\ \A k \in 1..(Len(A) + Len(B)) : v[k] = IF k <= Len(A) THEN A[k] ELSE B[k - Len(A)]
    BY ConcatFacts, ZenonT(60)
  <2> HIDE DEF v
  <2> QED
    BY <2>1
<1> HIDE DEF v
<1>2. /\ w \in Seq(MsgSet) /\ Len(w) = 10
      /\ \A k \in 1..10 : w[k] = IF k <= 6 THEN v[k] ELSE C[k - 6]
  <2>1. /\ w \in Seq(MsgSet) /\ Len(w) = Len(v) + Len(C)
        /\ \A k \in 1..(Len(v) + Len(C)) : w[k] = IF k <= Len(v) THEN v[k] ELSE C[k - Len(v)]
    BY <1>1, ConcatFacts, ZenonT(60)
  <2> HIDE DEF w
  <2> QED
    BY <1>1, <2>1
<1> HIDE DEF w
<1>3. Parts(w, A, B, C)
  BY <1>1, <1>2 DEF Parts
<1> QED
  BY <1>3, Zenon DEF v, w

(* The start: each ring's size comes right behind a message that carries a *)
(* descriptor, the memory table's or the other ring's kick.                *)
LEMMA StartGood ==
    ASSUME NEW c \in ConnIds, NEW b \in 0..(IndexMod - 1)
    PROVE  GoodScript(StartMsgs(b, c))
<1> DEFINE m1 == Plain("SET_FEATURES", c)
           m2 == MemTable(c)
           nu(i) == Msg("SET_VRING_NUM", i, QueueSize, NoFd, c)
           ba(i, n) == Msg("SET_VRING_BASE", i, n, NoFd, c)
           ad(i) == Msg("SET_VRING_ADDR", i, 0, NoFd, c)
           ki(i) == Msg("SET_VRING_KICK", i, 0, FdOf("kick", i, c), c)
           A == <<m1, m2>>
           B == <<nu(RX), ba(RX, 0), ad(RX), ki(RX)>>
           C == <<nu(TX), ba(TX, b), ad(TX), ki(TX)>>
           w == A \o B \o C
<1>1. StartMsgs(b, c) = w
  BY Zenon DEF StartMsgs, VirtqueueStart
<1>2. RX \in Rings /\ TX \in Rings /\ RX # TX
  BY DEF RX, TX, Rings
<1>3. /\ {"SET_VRING_NUM", "SET_VRING_BASE", "SET_VRING_ADDR", "SET_VRING_KICK"} \subseteq Requests
      /\ QueueSize \in Nat /\ IndexMod \in Nat \ {0} /\ b \in Nat /\ 0 \in 0..(IndexMod - 1)
      /\ NoFd \in FdSet
  BY ChannelAssumption, FdType, <1>2 DEF Requests
<1>4. m1 \in MsgSet /\ WellFormed(m1) /\ m1.req # "SET_VRING_ADDR"
  BY PlainGood, <1>2, Zenon DEF Plain, Requests
<1>5. m2 \in MsgSet /\ WellFormed(m2) /\ m2.req # "SET_VRING_ADDR" /\ m2.fd # NoFd
  BY MemTableGood, Zenon
<1>6. ASSUME NEW i \in Rings
      PROVE  nu(i) \in MsgSet /\ WellFormed(nu(i)) /\ IsNum(nu(i), i) /\ nu(i).req # "SET_VRING_ADDR"
  BY <1>3, MsgType, SMTT(60) DEF WellFormed, IsNum
<1>7. ASSUME NEW i \in Rings, NEW n \in 0..(IndexMod - 1)
      PROVE  ba(i, n) \in MsgSet /\ WellFormed(ba(i, n)) /\ ba(i, n).req # "SET_VRING_ADDR"
  BY <1>3, MsgType, SMTT(60) DEF WellFormed
<1>8. ASSUME NEW i \in Rings
      PROVE  ad(i) \in MsgSet /\ WellFormed(ad(i)) /\ ad(i).ring = i
  BY <1>3, MsgType, SMTT(60) DEF WellFormed
<1>9. ASSUME NEW i \in Rings
      PROVE  ki(i) \in MsgSet /\ WellFormed(ki(i)) /\ ki(i).req # "SET_VRING_ADDR" /\ ki(i).fd # NoFd
  <2>1. /\ FdOf("kick", i, c) \in FdSet /\ FdOf("kick", i, c) # NoFd
        /\ FdOf("kick", i, c).kind = "kick" /\ FdOf("kick", i, c).ring = i
    BY FdType
  <2> QED
    BY <1>3, <2>1, MsgType DEF WellFormed
<1> HIDE DEF m1, m2, nu, ba, ad, ki
<1>10. /\ w \in Seq(MsgSet) /\ Len(w) = 10
       /\ w[1] = m1 /\ w[2] = m2
       /\ w[3] = nu(RX) /\ w[4] = ba(RX, 0) /\ w[5] = ad(RX) /\ w[6] = ki(RX)
       /\ w[7] = nu(TX) /\ w[8] = ba(TX, b) /\ w[9] = ad(TX) /\ w[10] = ki(TX)
  <2>1. A \in Seq(MsgSet) /\ Len(A) = 2 /\ A[1] = m1 /\ A[2] = m2
    BY <1>4, <1>5
  <2>2. /\ B \in Seq(MsgSet) /\ Len(B) = 4
        /\ B[1] = nu(RX) /\ B[2] = ba(RX, 0) /\ B[3] = ad(RX) /\ B[4] = ki(RX)
    BY <1>2, <1>3, <1>6, <1>7, <1>8, <1>9, SMTT(60)
  <2>3. /\ C \in Seq(MsgSet) /\ Len(C) = 4
        /\ C[1] = nu(TX) /\ C[2] = ba(TX, b) /\ C[3] = ad(TX) /\ C[4] = ki(TX)
    BY <1>2, <1>3, <1>6, <1>7, <1>8, <1>9
  <2> HIDE DEF A, B, C
  <2>4. Parts(w, A, B, C)
    BY <2>1, <2>2, <2>3, Concat, ZenonT(60)
  <2> HIDE DEF w
  <2> QED
    BY <2>1, <2>2, <2>3, <2>4, Zenon DEF Parts
<1> HIDE DEF w
<1>11. \A k \in 1..10 : WellFormed(w[k])
  BY <1>2, <1>3, <1>4, <1>5, <1>6, <1>7, <1>8, <1>9, <1>10, SMTT(60)
<1>12. ASSUME NEW p \in 1..10, NEW i \in Rings, IsAddr(w[p], i)
       PROVE  \E q \in 2..(p - 1) : IsNum(w[q], i) /\ w[q - 1].fd # NoFd
  <2>1. w[p].req = "SET_VRING_ADDR" /\ w[p].ring = i
    BY <1>12, Zenon DEF IsAddr
  <2>2. (p = 5 /\ w[p] = ad(RX)) \/ (p = 9 /\ w[p] = ad(TX))
    BY <2>1, <1>2, <1>3, <1>4, <1>5, <1>6, <1>7, <1>9, <1>10, SMTT(60)
  <2>3. CASE p = 5 /\ w[p] = ad(RX)
    <3>1. i = RX /\ w[3] = nu(RX) /\ w[3 - 1] = m2 /\ 3 \in 2..(p - 1)
      BY <1>2, <1>8, <1>10, <2>1, <2>3, SMTT(60)
    <3> QED
      BY <1>5, <1>6, <3>1, Zenon
  <2>4. CASE p = 9 /\ w[p] = ad(TX)
    <3>1. i = TX /\ w[7] = nu(TX) /\ w[7 - 1] = ki(RX) /\ 7 \in 2..(p - 1)
      BY <1>2, <1>8, <1>10, <2>1, <2>4, SMTT(60)
    <3> QED
      BY <1>2, <1>6, <1>9, <3>1, Zenon
  <2> QED
    BY <2>2, <2>3, <2>4, Zenon
<1>13. GoodScript(w)
  BY <1>10, <1>11, <1>12, Zenon DEF GoodScript
<1> QED
  BY <1>1, <1>13, Zenon

-----------------------------------------------------------------------------
(* The steps.                                                              *)

(* The invariant holds when the server has just started.                   *)
LEMMA InitControl == Init => ControlInv
<1> SUFFICES ASSUME Init PROVE ControlInv
  BY Zenon
<1>1. NoFd \in FdSet /\ 0 \in 0..MaxConns /\ 0 \in 0..(IndexMod - 1)
      /\ 0 \in 0..MaxStarts /\ 0 \in 0..MaxAsides /\ 0 \in 0..MaxAvail
  BY ChannelAssumption DEF NoFd, FdSet, Rings
<1>2. TypeOK
  <2>1. vring \in [Rings -> VringSet]
    BY <1>1, Zenon DEF Init, VringSet
  <2>2. avail \in [ConnIds -> 0..MaxAvail] /\ processed \in [ConnIds -> Nat]
    BY <1>1, Zenon DEF Init
  <2>3. chan \in [ConnIds -> Seq(MsgSet)] /\ script \in Seq(MsgSet) /\ last \in Seq(MsgSet)
        /\ Len(last) <= 1
    BY DEF Init
  <2> QED
    BY <1>1, <2>1, <2>2, <2>3, Zenon DEF Init, TypeOK
<1>3. ScriptInv /\ LastInv /\ NumBeforeDesc /\ OwnDescriptors
  BY Zenon DEF Init, ScriptInv, LastInv, NumBeforeDesc, OwnDescriptors
<1>4. \A c \in ConnIds : chan[c] = <<>> /\ Pending(cur, script, c) = <<>>
  BY Zenon DEF Init, Pending
<1>5. Items(<<>>, <<>>) = {}
  BY DEF Items
<1>6. AllWell(<<>>, <<>>) /\ \A i \in Rings : Guarded(<<>>, <<>>, i)
  BY <1>5, Zenon DEF AllWell, Guarded
<1>7. MsgsInv /\ GuardInv
  BY <1>4, <1>6, Zenon DEF MsgsInv, GuardInv
<1> QED
  BY <1>2, <1>3, <1>7, Zenon DEF ControlInv

(* QEMU enters a function that sends messages.                             *)
LEMMA NewScript ==
    ASSUME ControlInv, script = <<>>, NEW d \in ConnIds, cur <= d, d \notin ended,
           NEW w, GoodScript(w), cur' = d, script' = w, TypeOK', UNCHANGED <<chan, ended, vring, last>>
    PROVE  ControlInv'
<1> USE DEF ControlInv
<1>1. ScriptInv' /\ LastInv' /\ NumBeforeDesc' /\ OwnDescriptors'
  <2>1. d # 0 /\ \A c \in ended : c <= d
    BY SMTT(60) DEF ConnIds, ScriptInv, TypeOK
  <2> QED
    BY <2>1, Zenon DEF ScriptInv, LastInv, NumBeforeDesc, OwnDescriptors
<1>2. \A c \in ConnIds : chan[c] \in Seq(MsgSet) /\ Pending(cur, script, c) = <<>>
  BY Zenon DEF TypeOK, Pending
<1>3. \A c \in ConnIds : Pending(cur', script', c) = IF c = d THEN w ELSE <<>>
  BY Zenon DEF Pending
<1>4. ASSUME NEW c \in ConnIds PROVE AllWell(chan'[c], Pending(cur', script', c))
  <2>1. AllWell(chan[c], <<>>) /\ RX \in Rings
    BY <1>2, Zenon DEF MsgsInv, Rings
  <2>2. AllWell(chan[c], w)
    BY <1>2, <2>1, AppendScript, Zenon
  <2> QED
    BY <1>3, <2>1, <2>2, Zenon
<1>5. ASSUME NEW c \in ConnIds, NEW i \in Rings, vring'[i].num = 0
      PROVE  Guarded(chan'[c], Pending(cur', script', c), i)
  <2>1. Guarded(chan[c], <<>>, i)
    BY <1>2, <1>5, Zenon DEF GuardInv
  <2>2. Guarded(chan[c], w, i)
    BY <1>2, <2>1, AppendScript, Zenon
  <2> QED
    BY <1>3, <2>1, <2>2, Zenon
<1> QED
  BY <1>1, <1>4, <1>5, Zenon DEF MsgsInv, GuardInv

(* A new connection starts with an empty channel.                          *)
LEMMA ConnectStep == ControlInv /\ Connect => ControlInv'
<1> SUFFICES ASSUME ControlInv, Connect PROVE ControlInv'
  BY Zenon
<1> USE DEF ControlInv
<1>1. script = <<>> /\ cur + 1 \in ConnIds /\ cur + 1 \in 0..MaxConns
  BY ChannelAssumption, SMTT(60) DEF Connect, ScriptInv, TypeOK, ConnIds
<1>2. GoodScript(InitMsgs(cur + 1))
  BY <1>1, InitGood, Zenon
<1>3. cur + 1 \notin ended
  BY ChannelAssumption, SMTT(60) DEF ScriptInv, TypeOK
<1>4. TypeOK'
  <2>1. 0 \in 0..(IndexMod - 1)
    BY ChannelAssumption, SMT
  <2> QED
    BY <1>1, <1>2, <2>1, ZenonT(60) DEF Connect, TypeOK, GoodScript, server
<1> QED
  <2>1. cur <= cur + 1
    BY DEF TypeOK
  <2> QED
    BY <1>1, <1>2, <1>3, <1>4, <2>1, NewScript, Zenon DEF Connect, server

(* vhost_dev_start, vhost_dev_stop and single messages begin scripts that  *)
(* keep every address behind its ring's size.                              *)
LEMMA SendingStep == ControlInv /\ (DevStart \/ DevStop \/ SendOne) => ControlInv'
<1> SUFFICES ASSUME ControlInv, DevStart \/ DevStop \/ SendOne PROVE ControlInv'
  BY Zenon
<1> USE DEF ControlInv
<1>1. script = <<>> /\ cur \in ConnIds /\ cur \notin ended /\ cur' = cur
      /\ UNCHANGED <<chan, ended, vring, last>>
  BY DEF DevStart, DevStop, SendOne, Idle, TypeOK, ConnIds, server
<1>2. ASSUME GoodScript(script') PROVE TypeOK'
  <2>1. script' \in Seq(MsgSet)
    BY <1>2, Zenon DEF GoodScript
  <2>2. CASE DevStart
    <3>1. starts' \in 0..MaxStarts
      BY <2>2, ChannelAssumption, SMTT(60) DEF DevStart, TypeOK
    <3> QED
      BY <2>1, <2>2, <3>1, Zenon DEF DevStart, TypeOK, server
  <2>3. CASE DevStop
    <3>1. last_avail_idx' \in 0..(IndexMod - 1)
      BY <2>3, ChannelAssumption DEF DevStop
    <3> QED
      BY <2>1, <2>3, <3>1, Zenon DEF DevStop, TypeOK, server
  <2>4. CASE SendOne
    <3>1. asides' \in 0..MaxAsides
      BY <2>4, ChannelAssumption, SMTT(60) DEF SendOne, TypeOK
    <3> QED
      BY <2>1, <2>4, <3>1, Zenon DEF SendOne, TypeOK, server
  <2> QED
    BY <2>2, <2>3, <2>4, Zenon
<1>3. GoodScript(script')
  <2>1. CASE DevStart
    BY <1>1, <2>1, StartGood, Zenon DEF DevStart, TypeOK
  <2>2. CASE DevStop
    BY <1>1, <2>2, StopGood, Zenon DEF DevStop
  <2>3. CASE SendOne /\ script' = <<Plain("ECHO", cur)>>
    <3>1. Plain("ECHO", cur) \in MsgSet /\ WellFormed(Plain("ECHO", cur))
          /\ Plain("ECHO", cur).req # "SET_VRING_ADDR"
      BY <1>1, PlainGood, Zenon DEF Plain, Requests, Rings
    <3> QED
      BY <2>3, <3>1, OneGood, Zenon
  <2>4. ASSUME NEW i \in Rings, NEW k \in {"masked", "guest"}, script' = <<Call(k, i, cur)>>
        PROVE  GoodScript(script')
    <3>1. Call(k, i, cur) \in MsgSet /\ WellFormed(Call(k, i, cur))
          /\ Call(k, i, cur).req # "SET_VRING_ADDR"
      BY <1>1, CallGood, Zenon
    <3> QED
      BY <2>4, <3>1, OneGood, Zenon
  <2>5. CASE SendOne /\ script' = <<MemTable(cur)>>
    <3>1. MemTable(cur) \in MsgSet /\ WellFormed(MemTable(cur))
          /\ MemTable(cur).req # "SET_VRING_ADDR"
      BY <1>1, MemTableGood, ZenonT(60)
    <3> QED
      BY <2>5, <3>1, OneGood, Zenon
  <2> QED
    BY <2>1, <2>2, <2>3, <2>4, <2>5, Zenon DEF SendOne
<1> QED
  <2>1. cur <= cur
    BY DEF TypeOK
  <2> QED
    BY <1>1, <1>2, <1>3, <2>1, NewScript, Zenon

(* A QEMU that goes away leaves what it has sent in the channel.           *)
LEMMA CloseStep == ControlInv /\ Close => ControlInv'
<1> SUFFICES ASSUME ControlInv, Close PROVE ControlInv'
  BY Zenon
<1> USE DEF ControlInv
<1>1. cur \in ConnIds /\ cur' = cur /\ script' = <<>> /\ <<>> \in Seq(MsgSet)
      /\ UNCHANGED <<chan, vring, last>>
  BY DEF Close, TypeOK, ConnIds, server
<1>2. TypeOK'
  BY <1>1, Zenon DEF Close, TypeOK, server
<1>3. ScriptInv'
  BY <1>1 DEF Close, ScriptInv, TypeOK
<1>4. LastInv' /\ NumBeforeDesc' /\ OwnDescriptors'
  BY <1>1, Zenon DEF LastInv, NumBeforeDesc, OwnDescriptors
<1>5. \A c \in ConnIds : /\ chan[c] \in Seq(MsgSet) /\ Pending(cur, script, c) \in Seq(MsgSet)
                         /\ Pending(cur', script', c) = <<>>
  BY <1>1, Zenon DEF TypeOK, Pending
<1>6. ASSUME NEW c \in ConnIds PROVE AllWell(chan'[c], Pending(cur', script', c))
  <2>1. AllWell(chan[c], Pending(cur, script, c)) /\ RX \in Rings
    BY Zenon DEF MsgsInv, Rings
  <2> QED
    BY <1>1, <1>5, <2>1, Cut, Zenon
<1>7. ASSUME NEW c \in ConnIds, NEW i \in Rings, vring'[i].num = 0
      PROVE  Guarded(chan'[c], Pending(cur', script', c), i)
  <2>1. Guarded(chan[c], Pending(cur, script, c), i)
    BY <1>1, <1>7, Zenon DEF GuardInv
  <2> QED
    BY <1>1, <1>5, <2>1, Cut, Zenon
<1> QED
  BY <1>2, <1>3, <1>4, <1>6, <1>7, Zenon DEF MsgsInv, GuardInv

(* vhost_user_send_fds moves a message from the script to the channel,     *)
(* which together stay the same.                                           *)
LEMMA SendFdsStep == ControlInv /\ SendFds => ControlInv'
<1> SUFFICES ASSUME ControlInv, SendFds PROVE ControlInv'
  BY Zenon
<1> USE DEF ControlInv
<1>1. /\ script \in Seq(MsgSet) /\ script # <<>> /\ script' = Tail(script)
      /\ cur' = cur /\ cur \in ConnIds
      /\ UNCHANGED <<started, last_avail_idx, starts, asides, avail, ended, eofs>>
      /\ UNCHANGED <<memory, vring, last, torn, status, processed, kept>>
      /\ chan' = [chan EXCEPT ![cur] = Append(chan[cur], Head(script))]
      /\ chan \in [ConnIds -> Seq(MsgSet)]
  BY DEF SendFds, ScriptInv, TypeOK, ConnIds, server
<1>2. Head(script) \in MsgSet /\ Tail(script) \in Seq(MsgSet)
  BY <1>1
<1>3. Append(chan[cur], Head(script)) \in Seq(MsgSet)
  BY <1>1, <1>2
<1>4. TypeOK'
  <2>1. chan' \in [ConnIds -> Seq(MsgSet)]
    BY <1>1, <1>3, Zenon
  <2> QED
    BY <1>1, <1>2, <2>1, Zenon DEF TypeOK
<1>5. ScriptInv' /\ LastInv' /\ NumBeforeDesc' /\ OwnDescriptors'
  BY <1>1, ZenonT(60) DEF ScriptInv, LastInv, NumBeforeDesc, OwnDescriptors
<1>6. ASSUME NEW c \in ConnIds
      PROVE  LET ch == chan[c]   pn == Pending(cur, script, c)
                 ch2 == chan'[c] pn2 == Pending(cur', script', c)
             IN /\ Items(ch2, pn2) = Items(ch, pn)
                /\ \A k \in Items(ch, pn) : At(ch2, pn2, k) = At(ch, pn, k)
  <2>1. CASE c = cur
    <3>1. /\ Pending(cur, script, c) = script /\ Pending(cur', script', c) = Tail(script)
          /\ chan'[c] = Append(chan[c], Head(script)) /\ chan[c] \in Seq(MsgSet)
      BY <1>1, <2>1, Zenon DEF Pending
    <3>2. LET ch2 == Append(chan[c], Head(script))
              pn2 == Tail(script)
          IN /\ Items(ch2, pn2) = Items(chan[c], script)
             /\ \A k \in Items(chan[c], script) : At(ch2, pn2, k) = At(chan[c], script, k)
      BY <1>1, <3>1, MoveOne, ZenonT(60)
    <3> QED
      BY <3>1, <3>2, Zenon
  <2>2. CASE c # cur
    BY <1>1, <2>2, ZenonT(60) DEF Pending
  <2> QED
    BY <2>1, <2>2, Zenon
<1>7. ASSUME NEW c \in ConnIds PROVE AllWell(chan'[c], Pending(cur', script', c))
  BY <1>6, Zenon DEF MsgsInv, AllWell
<1>8. ASSUME NEW c \in ConnIds, NEW i \in Rings, vring'[i].num = 0
      PROVE  Guarded(chan'[c], Pending(cur', script', c), i)
  <2> DEFINE ch == chan[c]
             pn == Pending(cur, script, c)
             ch2 == chan'[c]
             pn2 == Pending(cur', script', c)
  <2>1. Guarded(ch, pn, i)
    BY <1>1, <1>8, ZenonT(60) DEF GuardInv
  <2>2. /\ Items(ch2, pn2) = Items(ch, pn) /\ Len(ch) + Len(pn) \in Nat
        /\ \A k \in Items(ch, pn) : At(ch2, pn2, k) = At(ch, pn, k)
    <3>1. Len(ch) + Len(pn) \in Nat
      BY <1>1 DEF Pending
    <3> QED
      BY <1>6, <3>1, Zenon
  <2> HIDE DEF ch, pn, ch2, pn2
  <2>3. \A p \in Items(ch, pn) : \A q \in 1..(p - 1) :
          q \in Items(ch, pn) /\ (q = 1 \/ q - 1 \in Items(ch, pn))
    BY <2>2 DEF Items
  <2>4. Guarded(ch2, pn2, i)
    BY <2>1, <2>2, <2>3, ZenonT(150) DEF Guarded
  <2> QED
    BY <2>4, Zenon DEF ch2, pn2
<1> QED
  BY <1>4, <1>5, <1>7, <1>8, Zenon DEF MsgsInv, GuardInv

(* The guest's publishing of a buffer touches no message and no ring of    *)
(* the server.                                                             *)
LEMMA PublishStep == ControlInv /\ GuestPublish => ControlInv'
<1> SUFFICES ASSUME ControlInv, GuestPublish PROVE ControlInv'
  BY Zenon
<1> USE DEF ControlInv
<1>1. UNCHANGED <<cur, started, script, last_avail_idx, starts, asides, chan, ended, eofs>>
      /\ UNCHANGED <<memory, vring, last, torn, status, processed, kept>>
  BY Zenon DEF GuestPublish, server
<1>2. avail' \in [ConnIds -> 0..MaxAvail]
  <2>1. /\ avail \in [ConnIds -> 0..MaxAvail] /\ avail[cur] < MaxAvail
        /\ avail' = [avail EXCEPT ![cur] = avail[cur] + 1]
    BY Zenon DEF GuestPublish, TypeOK
  <2>2. CASE cur \in ConnIds
    <3>1. avail[cur] + 1 \in 0..MaxAvail
      BY <2>1, <2>2, ChannelAssumption
    <3> QED
      BY <2>1, <2>2, <3>1, Zenon
  <2>3. CASE cur \notin ConnIds
    BY <2>1, <2>3, Zenon
  <2> QED
    BY <2>2, <2>3, Zenon
<1>3. TypeOK'
  BY <1>1, <1>2, Zenon DEF TypeOK
<1> QED
  BY <1>1, <1>3, Zenon DEF ScriptInv, MsgsInv, LastInv, GuardInv, NumBeforeDesc, OwnDescriptors

(* The data path moves the ring's position and nothing else.               *)
LEMMA PollStep == ControlInv /\ PollAvailVring => ControlInv'
<1> SUFFICES ASSUME ControlInv, PollAvailVring PROVE ControlInv'
  BY Zenon
<1> USE DEF ControlInv
<1>1. /\ UNCHANGED <<cur, started, script, last_avail_idx, starts, asides, avail, chan, ended>>
      /\ UNCHANGED <<eofs, last, memory, torn, kept>>
  BY Zenon DEF PollAvailVring, Fail, SetRing, qemu
<1>2. vring[TX].num # 0
  BY Zenon DEF PollAvailVring, NumBeforeDesc, Rings
<1>3. /\ vring' = [vring EXCEPT ![TX] = [vring[TX] EXCEPT !.last_avail_idx = (@ + 1) % IndexMod]]
      /\ status' = status
      /\ processed' = [processed EXCEPT ![vring[TX].desc] = @ + 1]
  BY <1>2, Zenon DEF PollAvailVring, SetRing
<1>4. vring \in [Rings -> VringSet] /\ TX \in Rings /\ vring[TX] \in VringSet
  BY Zenon DEF TypeOK, Rings
<1>5. (vring[TX].last_avail_idx + 1) % IndexMod \in 0..(IndexMod - 1)
  BY <1>4, ChannelAssumption DEF VringSet
<1>6. vring' \in [Rings -> VringSet]
  BY <1>3, <1>4, <1>5, Zenon DEF VringSet
<1>7. \A i \in Rings : /\ vring'[i].num = vring[i].num /\ vring'[i].desc = vring[i].desc
                       /\ vring'[i].kickfd = vring[i].kickfd /\ vring'[i].callfd = vring[i].callfd
  BY <1>3, <1>4, Zenon DEF VringSet
<1>8. processed' \in [ConnIds -> Nat]
  <2>1. vring[TX].desc \in ConnIds
    BY <1>4, ChannelAssumption DEF PollAvailVring, VringSet, ConnIds
  <2>2. processed \in [ConnIds -> Nat] /\ processed[vring[TX].desc] + 1 \in Nat
    <3>1. processed \in [ConnIds -> Nat]
      BY Zenon DEF TypeOK
    <3> QED
      BY <2>1, <3>1, SMT
  <2> QED
    BY <1>3, <2>1, <2>2, Zenon
<1>9. TypeOK'
  BY <1>1, <1>3, <1>6, <1>8, Zenon DEF TypeOK
<1>10. ScriptInv' /\ MsgsInv'
  BY <1>1, Zenon DEF ScriptInv, MsgsInv
<1>11. GuardInv' /\ LastInv'
  BY <1>1, <1>7, Zenon DEF GuardInv, LastInv
<1>12. NumBeforeDesc'
  BY <1>7, Zenon DEF NumBeforeDesc
<1>13. OwnDescriptors'
  <2> SUFFICES ASSUME NEW i \in Rings
               PROVE  /\ vring'[i].kickfd = NoFd
                           \/ (vring'[i].kickfd.kind = "kick" /\ vring'[i].kickfd.ring = i)
                      /\ vring'[i].callfd = NoFd
                           \/ (/\ vring'[i].callfd.kind \in {"masked", "guest"}
                               /\ vring'[i].callfd.ring = i)
    BY Zenon DEF OwnDescriptors
  <2>1. vring'[i].kickfd = vring[i].kickfd /\ vring'[i].callfd = vring[i].callfd
    BY <1>7, Zenon
  <2> QED
    BY <2>1, ZenonT(150) DEF OwnDescriptors
<1> QED
  BY <1>9, <1>10, <1>11, <1>12, <1>13, Zenon

(* A message that is handled, if its ring has its size when it is about    *)
(* the addresses.                                                          *)
LEMMA Handled ==
    ASSUME ControlInv, NEW m \in MsgSet, WellFormed(m), NEW nfds, NEW behind,
           InMsgServer(m, nfds, behind),
           \A i \in Rings : IsAddr(m, i) => vring[i].num # 0
    PROVE  /\ NumBeforeDesc' /\ OwnDescriptors'
           /\ \A i \in Rings : vring'[i].num = 0 => vring[i].num = 0 /\ ~IsNum(m, i)
<1> USE DEF ControlInv
<1>1. QueueSize # 0
  BY ChannelAssumption, Zenon
<1>2. \A i \in Rings :
         /\ vring'[i].num = vring[i].num \/ (IsNum(m, i) /\ vring'[i].num = QueueSize)
         /\ IsNum(m, i) => vring'[i].num = QueueSize
         /\ vring'[i].desc = vring[i].desc \/ IsAddr(m, i)
         /\ vring'[i].kickfd = vring[i].kickfd
              \/ (m.req = "SET_VRING_KICK" /\ m.ring = i /\ vring'[i].kickfd = m.fd)
         /\ vring'[i].callfd = vring[i].callfd
              \/ (m.req = "SET_VRING_CALL" /\ m.ring = i /\ vring'[i].callfd = m.fd)
  BY HandlerFacts, ZenonT(60)
<1>3. \A i \in Rings : vring'[i].num = 0 => vring[i].num = 0 /\ ~IsNum(m, i)
  BY <1>1, <1>2, Zenon
<1>4. ASSUME NEW i \in Rings, vring'[i].desc # 0 PROVE vring'[i].num # 0
  BY <1>2, <1>3, <1>4, ZenonT(60) DEF NumBeforeDesc
<1>5. ASSUME NEW i \in Rings
      PROVE  /\ \/ vring'[i].kickfd = NoFd
                \/ vring'[i].kickfd.kind = "kick" /\ vring'[i].kickfd.ring = i
             /\ \/ vring'[i].callfd = NoFd
                \/ vring'[i].callfd.kind \in {"masked", "guest"} /\ vring'[i].callfd.ring = i
  <2>1. \/ vring'[i].kickfd = NoFd
        \/ vring'[i].kickfd.kind = "kick" /\ vring'[i].kickfd.ring = i
    BY <1>2, ZenonT(150) DEF OwnDescriptors, WellFormed
  <2>2. \/ vring'[i].callfd = NoFd
        \/ vring'[i].callfd.kind \in {"masked", "guest"} /\ vring'[i].callfd.ring = i
    BY <1>2, ZenonT(150) DEF OwnDescriptors, WellFormed
  <2> QED
    BY <2>1, <2>2, Zenon
<1>6. NumBeforeDesc' /\ OwnDescriptors'
  BY <1>4, <1>5, ZenonT(60) DEF NumBeforeDesc, OwnDescriptors
<1> QED
  BY <1>3, <1>6, Zenon

(* The message the server sees has its own request, and its own            *)
(* descriptor when the request needs one.                                  *)
LEMMA ReadMessage ==
    ASSUME ControlInv, NEW c \in ConnIds, chan[c] # <<>>
    PROVE  LET m == [Head(chan[c]) EXCEPT !.fd = chan[c][Taken(c)].fd]
           IN /\ m \in MsgSet /\ WellFormed(m)
              /\ m.req = chan[c][1].req /\ m.ring = chan[c][1].ring
              /\ m.num = chan[c][1].num /\ m.conn = chan[c][1].conn
              /\ \A i \in Rings : IsAddr(m, i) => vring[i].num # 0
<1> USE DEF ControlInv
<1> DEFINE ch == chan[c]
           pn == Pending(cur, script, c)
           m == [Head(ch) EXCEPT !.fd = ch[Taken(c)].fd]
<1>1. ch \in Seq(MsgSet) /\ Len(ch) \in Nat /\ Len(ch) >= 1 /\ Head(ch) = ch[1]
      /\ ch[1] \in MsgSet /\ pn \in Seq(MsgSet) /\ Len(pn) \in Nat
  BY SMTT(60) DEF TypeOK, Pending
<1>2. Taken(c) \in 1..Len(ch) /\ \A k \in 1..Len(ch) : ch[k].fd # NoFd => Taken(c) <= k
  BY TakenFacts, Zenon
<1>3. ch[Taken(c)] \in MsgSet /\ ch[Taken(c)].fd \in FdSet
  <2>1. ch[Taken(c)] \in MsgSet
    BY <1>1, <1>2
  <2> QED
    BY <2>1, ZenonT(60) DEF MsgSet
<1>4. /\ m \in MsgSet /\ m.req = ch[1].req /\ m.ring = ch[1].ring /\ m.num = ch[1].num
      /\ m.fd = ch[Taken(c)].fd /\ m.conn = ch[1].conn
  BY <1>1, <1>3, Zenon DEF MsgSet
<1>5. 1 \in Items(ch, pn) /\ At(ch, pn, 1) = ch[1]
  BY <1>1 DEF Items, At
<1>6. WellFormed(ch[1])
  <2>1. AllWell(ch, pn)
    BY Zenon DEF MsgsInv
  <2> QED
    BY <1>5, <2>1, Zenon DEF AllWell
<1>7. ch[1].fd # NoFd => Taken(c) = 1
  BY <1>1, <1>2
<1> HIDE DEF ch, pn, m
<1>8. m.fd = ch[1].fd \/ ch[1].fd = NoFd
  BY <1>4, <1>7, Zenon
<1>9. NoFd.kind = "none"
  BY Zenon DEF NoFd
<1>10. WellFormed(m)
  BY <1>4, <1>6, <1>8, <1>9, Zenon DEF WellFormed
<1>11. ASSUME NEW i \in Rings, IsAddr(m, i), vring[i].num = 0 PROVE FALSE
  <2>1. Guarded(ch, pn, i)
    BY <1>11, Zenon DEF GuardInv, ch, pn
  <2>2. IsAddr(At(ch, pn, 1), i)
    BY <1>4, <1>5, <1>11, Zenon DEF IsAddr
  <2> QED
    BY <1>5, <2>1, <2>2, SMTT(60) DEF Guarded
<1>12. m = [Head(chan[c]) EXCEPT !.fd = chan[c][Taken(c)].fd] /\ ch = chan[c]
  BY Zenon DEF m, ch
<1> QED
  BY <1>4, <1>10, <1>11, <1>12, Zenon

(* vhost_user_receive handles the first message and drops those behind it  *)
(* up to the next descriptor, and never the size that a following address  *)
(* relies on.                                                              *)
LEMMA ReceiveStep == ASSUME ControlInv, NEW c \in ConnIds, Receive(c) PROVE ControlInv'
<1> USE DEF ControlInv
<1> DEFINE n == Taken(c)
           m == [Head(chan[c]) EXCEPT !.fd = chan[c][n].fd]
           nfds == IF m.fd = NoFd THEN 0 ELSE 1
<1>1. /\ chan[c] # <<>> /\ chan[c] \in Seq(MsgSet) /\ chan \in [ConnIds -> Seq(MsgSet)]
      /\ InMsgServer(m, nfds, n > 1) /\ last' = <<m>>
      /\ chan' = [chan EXCEPT ![c] = SubSeq(@, n + 1, Len(@))]
      /\ UNCHANGED <<cur, started, script, last_avail_idx, starts, asides, avail, ended, eofs>>
      /\ processed' = processed /\ torn' \in {torn, torn \cup {c}} /\ kept' \in BOOLEAN
  BY Zenon DEF Receive, TypeOK, qemu
<1>2. /\ m \in MsgSet /\ WellFormed(m)
      /\ m.req = chan[c][1].req /\ m.ring = chan[c][1].ring
      /\ \A i \in Rings : IsAddr(m, i) => vring[i].num # 0
  BY <1>1, ReadMessage, Zenon
<1>3. n \in 1..Len(chan[c]) /\ \A k \in 1..Len(chan[c]) : chan[c][k].fd # NoFd => n <= k
  BY <1>1, TakenFacts, Zenon
<1> HIDE DEF n, m, nfds
<1>4. /\ memory' \in 0..MaxConns /\ status' \in {"ok", "assert", "crash", "garbled"}
      /\ vring' \in [Rings -> VringSet]
  BY <1>1, <1>2, HandlerFacts, ZenonT(60)
<1>5. /\ NumBeforeDesc' /\ OwnDescriptors'
      /\ \A i \in Rings : vring'[i].num = 0 => vring[i].num = 0 /\ ~IsNum(m, i)
  BY <1>1, <1>2, Handled, Zenon
<1>6. \A d \in ConnIds : chan'[d] = IF d = c THEN SubSeq(chan[c], n + 1, Len(chan[c])) ELSE chan[d]
  BY <1>1, Zenon
<1>7. \A d \in ConnIds : Pending(cur', script', d) = Pending(cur, script, d)
                         /\ Pending(cur, script, d) \in Seq(MsgSet)
  BY <1>1 DEF Pending, TypeOK
<1>8. SubSeq(chan[c], n + 1, Len(chan[c])) \in Seq(MsgSet)
  BY <1>1, <1>3, SMTT(60)
<1>9. TypeOK'
  <2>1. chan' \in [ConnIds -> Seq(MsgSet)]
    BY <1>1, <1>8, Zenon
  <2>2. last' \in Seq(MsgSet) /\ Len(last') <= 1
    BY <1>1, <1>2
  <2>3. torn' \subseteq ConnIds
    BY <1>1, Zenon DEF TypeOK
  <2> QED
    BY <1>1, <1>4, <2>1, <2>2, <2>3, Zenon DEF TypeOK
<1>10. ScriptInv'
  BY <1>1, ZenonT(60) DEF ScriptInv
<1>11. LastInv'
  <2>1. last'[1] = m
    BY <1>1, Zenon
  <2> QED
    BY <1>2, <1>5, <2>1, Zenon DEF LastInv
<1>12. ASSUME NEW d \in ConnIds PROVE AllWell(chan'[d], Pending(cur', script', d))
  <2>1. AllWell(chan[d], Pending(cur, script, d)) /\ RX \in Rings
    BY Zenon DEF MsgsInv, Rings
  <2>2. CASE d = c
    BY <1>1, <1>3, <1>6, <1>7, <2>1, <2>2, TakeFront, Zenon
  <2>3. CASE d # c
    BY <1>6, <1>7, <2>1, <2>3, Zenon
  <2> QED
    BY <2>2, <2>3, Zenon
<1>13. ASSUME NEW d \in ConnIds, NEW i \in Rings, vring'[i].num = 0
       PROVE  Guarded(chan'[d], Pending(cur', script', d), i)
  <2>1. vring[i].num = 0 /\ ~IsNum(m, i)
    BY <1>5, <1>13, ZenonT(60)
  <2>2. Guarded(chan[d], Pending(cur, script, d), i)
    BY <2>1, Zenon DEF GuardInv
  <2>3. ~IsNum(chan[c][1], i)
    BY <1>2, <2>1, Zenon DEF IsNum
  <2>4. CASE d = c
    BY <1>1, <1>3, <1>6, <1>7, <2>2, <2>3, <2>4, TakeFront, Zenon
  <2>5. CASE d # c
    BY <1>6, <1>7, <2>2, <2>5, ZenonT(60)
  <2> QED
    BY <2>4, <2>5, Zenon
<1> QED
  BY <1>5, <1>9, <1>10, <1>11, <1>12, <1>13, Zenon DEF MsgsInv, GuardInv

(* The uninitialised message handled at the end of a stream is one that    *)
(* was handled before, without its descriptor.                             *)
LEMMA EofStep == ASSUME ControlInv, NEW c \in ConnIds, ReceiveEof(c) PROVE ControlInv'
<1> USE DEF ControlInv
<1>1. /\ eofs' \subseteq eofs
      /\ UNCHANGED <<cur, started, script, last_avail_idx, starts, asides, avail, ended, chan>>
      /\ UNCHANGED <<last, torn, processed, kept>>
  BY Zenon DEF ReceiveEof, qemu
<1>2. /\ memory' \in 0..MaxConns /\ status' \in {"ok", "assert", "crash", "garbled"}
      /\ vring' \in [Rings -> VringSet]
      /\ NumBeforeDesc' /\ OwnDescriptors'
      /\ \A i \in Rings : vring'[i].num = 0 => vring[i].num = 0
  <2>1. CASE memory' = memory /\ vring' = vring /\ status' \in {"ok", "assert", "crash", "garbled"}
    BY <2>1, Zenon DEF TypeOK, NumBeforeDesc, OwnDescriptors
  <2>2. CASE last # <<>> /\ InMsgServer(last[1], 0, FALSE)
    <3>1. /\ last[1] \in MsgSet /\ WellFormed(last[1])
          /\ \A i \in Rings : IsAddr(last[1], i) => vring[i].num # 0
      BY <2>2, SMTT(60) DEF TypeOK, LastInv
    <3>2. /\ memory' \in 0..MaxConns /\ status' \in {"ok", "assert", "crash", "garbled"}
          /\ vring' \in [Rings -> VringSet]
      BY <2>2, <3>1, HandlerFacts, Zenon
    <3>3. /\ NumBeforeDesc' /\ OwnDescriptors'
          /\ \A i \in Rings : vring'[i].num = 0 => vring[i].num = 0
      BY <2>2, <3>1, Handled, Zenon
    <3> QED
      BY <3>2, <3>3, Zenon
  <2> QED
    BY <2>1, <2>2, ZenonT(60) DEF ReceiveEof, Fail, TypeOK
<1>3. TypeOK'
  BY <1>1, <1>2, Zenon DEF TypeOK
<1>4. ScriptInv' /\ MsgsInv'
  BY <1>1, Zenon DEF ScriptInv, MsgsInv
<1>5. LastInv' /\ GuardInv'
  BY <1>1, <1>2, Zenon DEF LastInv, GuardInv
<1> QED
  BY <1>2, <1>3, <1>4, <1>5, Zenon

(* A read that begins inside a message ends what is followed.              *)
LEMMA TornStep == ASSUME ControlInv, NEW c \in ConnIds, ReceiveTorn(c) PROVE ControlInv'
<1> USE DEF ControlInv
<1>1. /\ UNCHANGED <<cur, started, script, last_avail_idx, starts, asides, avail, ended, chan>>
      /\ UNCHANGED <<eofs, memory, vring, last, torn, processed, kept>>
      /\ status' = "garbled"
  BY Zenon DEF ReceiveTorn, Fail, qemu
<1>2. TypeOK'
  BY <1>1, ZenonT(60) DEF TypeOK
<1> QED
  BY <1>1, <1>2, Zenon DEF ScriptInv, MsgsInv, LastInv, GuardInv, NumBeforeDesc, OwnDescriptors

(* Every step of the control channel keeps the invariant.                  *)
LEMMA ControlStep == ControlInv /\ [Next]_vars => ControlInv'
<1> SUFFICES ASSUME ControlInv, [Next]_vars PROVE ControlInv'
  BY Zenon
<1>1. CASE UNCHANGED vars
  BY <1>1, ZenonT(60) DEF vars, qemu, server, ControlInv, TypeOK, ScriptInv, MsgsInv, LastInv, GuardInv,
              NumBeforeDesc, OwnDescriptors
<1> QED
  BY <1>1, ConnectStep, CloseStep, SendFdsStep, SendingStep, PublishStep, ReceiveStep, TornStep, EofStep,
     PollStep, Zenon DEF Next

-----------------------------------------------------------------------------
(* The inductive invariant holds of every run.                             *)
THEOREM ControlCorrect == Spec => []ControlInv
  BY InitControl, ControlStep, PTL DEF Spec

(* Every state of the control channel has its type, for any number of      *)
(* connections: in particular the ring positions stay below 2^16.          *)
THEOREM ControlTypeCorrect == Spec => []TypeOK
<1>1. ControlInv => TypeOK
  BY Zenon DEF ControlInv
<1> QED
  BY <1>1, ControlCorrect, PTL

(* process_avail_vring never computes a remainder by a ring size of 0,     *)
(* however the messages of any number of connections run together.         *)
THEOREM SizeBeforeAddresses == Spec => []NumBeforeDesc
<1>1. ControlInv => NumBeforeDesc
  BY Zenon DEF ControlInv
<1> QED
  BY <1>1, ControlCorrect, PTL

(* A ring's eventfds are that ring's own, however recvmsg pairs            *)
(* descriptors with the bytes of earlier messages.                         *)
THEOREM DescriptorsAreOwn == Spec => []OwnDescriptors
<1>1. ControlInv => OwnDescriptors
  BY Zenon DEF ControlInv
<1> QED
  BY <1>1, ControlCorrect, PTL

-----------------------------------------------------------------------------
(* What is pending, as one queue.                                          *)

\* One queue is what is left of another from some message on, or less.
Remains(ch2, pn2, ch, pn) ==
    \E n \in Nat : \A k \in Items(ch2, pn2) :
        k + n \in Items(ch, pn) /\ At(ch2, pn2, k) = At(ch, pn, k + n)

(* What a read leaves is the queue without its first n messages.           *)
LEMMA AfterRead ==
    ASSUME NEW ch \in Seq(MsgSet), NEW pn \in Seq(MsgSet), NEW n \in 1..Len(ch)
    PROVE  LET ch2 == SubSeq(ch, n + 1, Len(ch))
           IN /\ ch2 \in Seq(MsgSet) /\ Len(ch2) = Len(ch) - n
              /\ \A k \in Items(ch2, pn) : k + n \in Items(ch, pn) /\ At(ch2, pn, k) = At(ch, pn, k + n)
<1> DEFINE ch2 == SubSeq(ch, n + 1, Len(ch))
<1>1. Len(ch) \in Nat /\ Len(pn) \in Nat
  OBVIOUS
<1>2. ch2 \in Seq(MsgSet) /\ Len(ch2) = Len(ch) - n
  OBVIOUS
<1>3. \A k \in 1..(Len(ch) - n) : ch2[k] = ch[k + n]
  OBVIOUS
<1> HIDE DEF ch2
<1>4. /\ Items(ch2, pn) = 1..((Len(ch) - n) + Len(pn))
      /\ Items(ch, pn) = 1..(Len(ch) + Len(pn))
  BY <1>2 DEF Items
<1>5. ASSUME NEW k \in Items(ch2, pn)
      PROVE  k + n \in Items(ch, pn) /\ At(ch2, pn, k) = At(ch, pn, k + n)
  <2>1. k + n \in Items(ch, pn)
    BY <1>1, <1>4
  <2>2. CASE k <= Len(ch) - n
    <3>1. k \in 1..(Len(ch) - n) /\ k + n <= Len(ch) /\ k <= Len(ch2)
      BY <1>1, <1>2, <1>4, <2>2
    <3> QED
      BY <1>3, <2>1, <3>1, Zenon DEF At
  <2>3. CASE ~(k <= Len(ch) - n)
    <3>1. k - (Len(ch) - n) = (k + n) - Len(ch) /\ ~(k + n <= Len(ch))
      BY <1>1, <1>4, <2>3
    <3> QED
      BY <1>2, <2>1, <2>3, <3>1, Zenon DEF At
  <2> QED
    BY <2>1, <2>2, <2>3, Zenon
<1> QED
  BY <1>2, <1>5, Zenon DEF ch2

(* What a QEMU that goes away had queued is the front of the queue.        *)
LEMMA AfterClose ==
    ASSUME NEW ch \in Seq(MsgSet), NEW pn \in Seq(MsgSet)
    PROVE  \A k \in Items(ch, <<>>) : k \in Items(ch, pn) /\ At(ch, <<>>, k) = At(ch, pn, k)
<1>1. /\ Len(ch) \in Nat /\ Len(pn) \in Nat
      /\ Items(ch, <<>>) = 1..Len(ch) /\ Items(ch, pn) = 1..(Len(ch) + Len(pn))
  BY DEF Items
<1>2. \A k \in 1..Len(ch) : k \in 1..(Len(ch) + Len(pn)) /\ k <= Len(ch)
  BY <1>1
<1> QED
  BY <1>1, <1>2, Zenon DEF At

(* A new script comes behind what is queued.                               *)
LEMMA AfterNew ==
    ASSUME NEW ch \in Seq(MsgSet), NEW w \in Seq(MsgSet)
    PROVE  /\ \A k \in Items(ch, w) :
                \/ k \in Items(ch, <<>>) /\ At(ch, w, k) = At(ch, <<>>, k)
                \/ /\ k - Len(ch) \in 1..Len(w) /\ At(ch, w, k) = w[k - Len(ch)]
                   /\ k = Len(ch) + (k - Len(ch))
           /\ \A k \in Items(ch, <<>>) :
                k \in Items(ch, w) /\ At(ch, w, k) = At(ch, <<>>, k) /\ k <= Len(ch)
           /\ \A k \in 1..Len(w) : Len(ch) + k \in Items(ch, w) /\ At(ch, w, Len(ch) + k) = w[k]
<1>1. /\ Len(ch) \in Nat /\ Len(w) \in Nat
      /\ Items(ch, <<>>) = 1..Len(ch) /\ Items(ch, w) = 1..(Len(ch) + Len(w))
  BY DEF Items
<1>2. \A k \in 1..Len(w) : Len(ch) + k \in Items(ch, w) /\ At(ch, w, Len(ch) + k) = w[k]
  <2> SUFFICES ASSUME NEW k \in 1..Len(w)
               PROVE  Len(ch) + k \in Items(ch, w) /\ At(ch, w, Len(ch) + k) = w[k]
    OBVIOUS
  <2>1. /\ ~(Len(ch) + k <= Len(ch)) /\ (Len(ch) + k) - Len(ch) = k
        /\ Len(ch) + k \in 1..(Len(ch) + Len(w))
    BY <1>1
  <2> QED
    BY <1>1, <2>1, Zenon DEF At
<1>3. ASSUME NEW k \in Items(ch, <<>>)
      PROVE  k \in Items(ch, w) /\ At(ch, w, k) = At(ch, <<>>, k) /\ k <= Len(ch)
  <2>1. k <= Len(ch) /\ k \in 1..(Len(ch) + Len(w))
    BY <1>1
  <2> QED
    BY <1>1, <2>1, Zenon DEF At
<1>4. ASSUME NEW k \in Items(ch, w)
      PROVE  \/ k \in Items(ch, <<>>) /\ At(ch, w, k) = At(ch, <<>>, k)
             \/ /\ k - Len(ch) \in 1..Len(w) /\ At(ch, w, k) = w[k - Len(ch)]
                /\ k = Len(ch) + (k - Len(ch))
  <2>1. CASE k <= Len(ch)
    <3>1. k \in 1..Len(ch)
      BY <1>1, <2>1
    <3> QED
      BY <1>1, <2>1, <3>1, Zenon DEF At
  <2>2. CASE ~(k <= Len(ch))
    <3>1. k - Len(ch) \in 1..Len(w) /\ k = Len(ch) + (k - Len(ch))
      BY <1>1, <2>2, SMTT(60)
    <3> QED
      BY <2>2, <3>1, Zenon DEF At
  <2> QED
    BY <2>1, <2>2, Zenon
<1> QED
  BY <1>2, <1>3, <1>4, Zenon

-----------------------------------------------------------------------------
(* Whose a message is.                                                     *)

\* A message of connection c carries descriptors of c.
Own(m, c) ==
    /\ m.conn = c
    /\ m.req = "SET_VRING_KICK" => m.fd = FdOf("kick", m.ring, c)
    /\ m.req = "SET_VRING_CALL" => m.fd.conn = c
    /\ m.req = "SET_MEM_TABLE" => m.fd # NoFd

OwnMsgs(ch, pn, c) == \A k \in Items(ch, pn) : Own(At(ch, pn, k), c)
OwnInv == \A c \in ConnIds : OwnMsgs(chan[c], Pending(cur, script, c), c)

\* The same of a script.
OwnScript(w, c) == w \in Seq(MsgSet) /\ \A k \in 1..Len(w) : Own(w[k], c)

(* Messages of vhost_user_call without a descriptor, or with the kick,     *)
LEMMA MsgOwn ==
    ASSUME NEW r \in Requests, r # "SET_VRING_CALL", NEW i \in Rings, NEW n \in Nat,
           NEW c \in ConnIds, NEW fd \in FdSet,
           r = "SET_VRING_KICK" => fd = FdOf("kick", i, c),
           r = "SET_MEM_TABLE" => fd # NoFd
    PROVE  LET m == Msg(r, i, n, fd, c)
           IN m \in MsgSet /\ Own(m, c) /\ m.req = r /\ m.ring = i /\ m.num = n
  BY MsgType, SMT DEF Own

(* or with the call eventfd.                                               *)
LEMMA CallOwn ==
    ASSUME NEW k \in {"masked", "guest"}, NEW i \in Rings, NEW c \in ConnIds
    PROVE  LET m == Call(k, i, c)
           IN m \in MsgSet /\ Own(m, c) /\ m.req = "SET_VRING_CALL" /\ m.ring = i
<1>1. "SET_VRING_CALL" \in Requests /\ FdOf(k, i, c) \in FdSet /\ FdOf(k, i, c).conn = c
      /\ 0 \in Nat
  <2>1. FdOf(k, i, c).conn = c /\ "SET_VRING_CALL" \in Requests
    BY Zenon DEF FdOf, Requests
  <2>2. k \in {"kick", "masked", "guest", "memory"}
    BY SMTT(60)
  <2> QED
    BY <2>1, <2>2, FdType, SMT
<1>2. /\ Call(k, i, c) \in MsgSet /\ Call(k, i, c).req = "SET_VRING_CALL"
      /\ Call(k, i, c).ring = i /\ Call(k, i, c).fd = FdOf(k, i, c) /\ Call(k, i, c).conn = c
  BY <1>1, MsgType, SMT DEF Call
<1>3. "SET_VRING_CALL" # "SET_VRING_KICK" /\ "SET_VRING_CALL" # "SET_MEM_TABLE"
  OBVIOUS
<1> QED
  BY <1>1, <1>2, <1>3, Zenon DEF Own

(* or with the memory.                                                     *)
LEMMA MemTableOwn ==
    ASSUME NEW c \in ConnIds
    PROVE  MemTable(c) \in MsgSet /\ Own(MemTable(c), c) /\ MemTable(c).req = "SET_MEM_TABLE"
<1>1. /\ "SET_MEM_TABLE" \in Requests /\ RX \in Rings /\ 0 \in Nat
      /\ FdOf("memory", RX, c) \in FdSet
      /\ "SET_MEM_TABLE" # "SET_VRING_KICK" /\ "SET_MEM_TABLE" # "SET_VRING_CALL"
  BY FdType DEF Requests, Rings
<1>2. FdOf("memory", RX, c) # NoFd
  BY Zenon DEF FdOf, NoFd
<1> QED
  BY <1>1, <1>2, MsgOwn, SMTT(60) DEF MemTable

(* The messages of the first contact are the client's own and configure    *)
(* nothing but the two calls.                                              *)
LEMMA InitList ==
    ASSUME NEW c \in ConnIds
    PROVE  /\ OwnScript(InitMsgs(c), c) /\ Len(InitMsgs(c)) = 5
           /\ \A k \in 1..5 : InitMsgs(c)[k].req \in
                {"ECHO", "SET_OWNER", "GET_FEATURES", "SET_VRING_CALL"}
           /\ InitMsgs(c)[4] = Call("masked", RX, c) /\ InitMsgs(c)[5] = Call("masked", TX, c)
<1> DEFINE m1 == Plain("ECHO", c)
           m2 == Plain("SET_OWNER", c)
           m3 == Plain("GET_FEATURES", c)
           m4 == Call("masked", RX, c)
           m5 == Call("masked", TX, c)
           Few == {"ECHO", "SET_OWNER", "GET_FEATURES", "SET_VRING_CALL"}
           Good(m) == m \in MsgSet /\ Own(m, c) /\ m.req \in Few
<1>1. Good(m1) /\ Good(m2) /\ Good(m3)
  <2>1. /\ {"ECHO", "SET_OWNER", "GET_FEATURES"} \subseteq Requests
        /\ RX \in Rings /\ 0 \in Nat /\ NoFd \in FdSet
    BY FdType DEF Requests, Rings
  <2>2. ASSUME NEW r \in {"ECHO", "SET_OWNER", "GET_FEATURES"} PROVE Good(Plain(r, c))
    <3>1. /\ r \in Requests /\ r # "SET_VRING_CALL" /\ r # "SET_VRING_KICK" /\ r \in Few
          /\ r # "SET_MEM_TABLE"
      BY <2>1
    <3> QED
      BY <2>1, <3>1, MsgOwn, SMT DEF Plain
  <2> QED
    BY <2>2, SMTT(60)
<1>2. Good(m4) /\ Good(m5)
  BY CallOwn DEF Rings
<1>3. InitMsgs(c) = <<m1, m2, m3, m4, m5>>
  BY DEF InitMsgs
<1> HIDE DEF m1, m2, m3, m4, m5, Few
<1>4. /\ InitMsgs(c) \in Seq(MsgSet) /\ Len(InitMsgs(c)) = 5
      /\ InitMsgs(c)[4] = m4 /\ InitMsgs(c)[5] = m5
  BY <1>1, <1>2, <1>3
<1>5. \A k \in 1..5 : Good(InitMsgs(c)[k])
  BY <1>1, <1>2, <1>3
<1> QED
  BY <1>4, <1>5, Zenon DEF OwnScript, m4, m5, Few

(* So are those of the stop.                                               *)
LEMMA StopList ==
    ASSUME NEW c \in ConnIds
    PROVE  /\ OwnScript(StopMsgs(c), c)
           /\ \A k \in 1..Len(StopMsgs(c)) :
                StopMsgs(c)[k].req \in {"NET_SET_BACKEND", "GET_VRING_BASE"}
<1> DEFINE m1 == Msg("NET_SET_BACKEND", RX, 0, NoFd, c)
           m2 == Msg("NET_SET_BACKEND", TX, 0, NoFd, c)
           m3 == Plain("GET_VRING_BASE", c)
           Few == {"NET_SET_BACKEND", "GET_VRING_BASE"}
           Good(m) == m \in MsgSet /\ Own(m, c) /\ m.req \in Few
<1>1. Good(m1) /\ Good(m2) /\ Good(m3)
  <2>1. Few \subseteq Requests /\ RX \in Rings /\ TX \in Rings /\ 0 \in Nat /\ NoFd \in FdSet
    BY FdType DEF Requests, Rings
  <2>2. ASSUME NEW r \in Few, NEW i \in Rings PROVE Good(Msg(r, i, 0, NoFd, c))
    <3>1. /\ r \in Requests /\ r # "SET_VRING_CALL" /\ r # "SET_VRING_KICK"
          /\ r # "SET_MEM_TABLE"
      BY <2>1
    <3> QED
      BY <2>1, <3>1, MsgOwn, SMT
  <2> QED
    BY <2>1, <2>2, SMTT(60) DEF Plain
<1>2. StopMsgs(c) = <<m1, m2, m3, m3>>
  BY DEF StopMsgs
<1> HIDE DEF m1, m2, m3, Few
<1>3. StopMsgs(c) \in Seq(MsgSet) /\ Len(StopMsgs(c)) = 4
  BY <1>1, <1>2, SMTT(60)
<1>4. \A k \in 1..4 : Good(StopMsgs(c)[k])
  BY <1>1, <1>2
<1> QED
  BY <1>3, <1>4, Zenon DEF OwnScript, Few

\* Message m is request r about ring i.
Is(m, r, i) == m.req = r /\ m.ring = i

(* The ten messages of the start.                                          *)
LEMMA StartList ==
    ASSUME NEW c \in ConnIds, NEW b \in 0..(IndexMod - 1)
    PROVE  LET w == StartMsgs(b, c)
           IN /\ OwnScript(w, c) /\ Len(w) = 10
              /\ w[1].req = "SET_FEATURES" /\ w[2].req = "SET_MEM_TABLE"
              /\ Is(w[3], "SET_VRING_NUM", RX) /\ Is(w[4], "SET_VRING_BASE", RX)
              /\ Is(w[5], "SET_VRING_ADDR", RX) /\ Is(w[6], "SET_VRING_KICK", RX)
              /\ Is(w[7], "SET_VRING_NUM", TX) /\ Is(w[8], "SET_VRING_BASE", TX) /\ w[8].num = b
              /\ Is(w[9], "SET_VRING_ADDR", TX) /\ Is(w[10], "SET_VRING_KICK", TX)
<1> DEFINE m1 == Plain("SET_FEATURES", c)
           m2 == MemTable(c)
           nu(i) == Msg("SET_VRING_NUM", i, QueueSize, NoFd, c)
           ba(i, n) == Msg("SET_VRING_BASE", i, n, NoFd, c)
           ad(i) == Msg("SET_VRING_ADDR", i, 0, NoFd, c)
           ki(i) == Msg("SET_VRING_KICK", i, 0, FdOf("kick", i, c), c)
           A == <<m1, m2>>
           B == <<nu(RX), ba(RX, 0), ad(RX), ki(RX)>>
           C == <<nu(TX), ba(TX, b), ad(TX), ki(TX)>>
           w == A \o B \o C
           Good(m) == m \in MsgSet /\ Own(m, c)
<1>1. StartMsgs(b, c) = w
  BY Zenon DEF StartMsgs, VirtqueueStart
<1>2. /\ RX \in Rings /\ TX \in Rings /\ 0 \in Nat /\ b \in Nat /\ QueueSize \in Nat
      /\ {"SET_FEATURES", "SET_VRING_NUM", "SET_VRING_BASE", "SET_VRING_ADDR", "SET_VRING_KICK"}
            \subseteq Requests
      /\ NoFd \in FdSet /\ \A i \in Rings : FdOf("kick", i, c) \in FdSet
  BY ChannelAssumption, FdType DEF Rings, Requests
<1>3. Good(m1) /\ m1.req = "SET_FEATURES"
  BY <1>2, MsgOwn, SMT DEF Plain
<1>4. Good(m2) /\ m2.req = "SET_MEM_TABLE"
  BY MemTableOwn, Zenon
<1>5. ASSUME NEW i \in Rings PROVE Good(nu(i)) /\ Is(nu(i), "SET_VRING_NUM", i)
  BY <1>2, MsgOwn, SMTT(60) DEF Is
<1>6. ASSUME NEW i \in Rings, NEW n \in Nat
      PROVE  Good(ba(i, n)) /\ Is(ba(i, n), "SET_VRING_BASE", i) /\ ba(i, n).num = n
  BY <1>2, MsgOwn, SMT DEF Is
<1>7. ASSUME NEW i \in Rings PROVE Good(ad(i)) /\ Is(ad(i), "SET_VRING_ADDR", i)
  BY <1>2, MsgOwn, SMTT(60) DEF Is
<1>8. ASSUME NEW i \in Rings PROVE Good(ki(i)) /\ Is(ki(i), "SET_VRING_KICK", i)
  BY <1>2, MsgOwn, SMT DEF Is
<1> HIDE DEF m1, m2, nu, ba, ad, ki, Good
<1>9. /\ m1 \in MsgSet /\ m2 \in MsgSet
      /\ \A i \in Rings : nu(i) \in MsgSet /\ ad(i) \in MsgSet /\ ki(i) \in MsgSet
      /\ ba(RX, 0) \in MsgSet /\ ba(TX, b) \in MsgSet
  BY <1>2, <1>3, <1>4, <1>5, <1>6, <1>7, <1>8, Zenon DEF Good
<1>10. /\ w \in Seq(MsgSet) /\ Len(w) = 10
       /\ w[1] = m1 /\ w[2] = m2
       /\ w[3] = nu(RX) /\ w[4] = ba(RX, 0) /\ w[5] = ad(RX) /\ w[6] = ki(RX)
       /\ w[7] = nu(TX) /\ w[8] = ba(TX, b) /\ w[9] = ad(TX) /\ w[10] = ki(TX)
  <2>1. A \in Seq(MsgSet) /\ Len(A) = 2 /\ A[1] = m1 /\ A[2] = m2
    BY <1>9, SMTT(60)
  <2>2. /\ B \in Seq(MsgSet) /\ Len(B) = 4
        /\ B[1] = nu(RX) /\ B[2] = ba(RX, 0) /\ B[3] = ad(RX) /\ B[4] = ki(RX)
    BY <1>2, <1>9, SMTT(60)
  <2>3. /\ C \in Seq(MsgSet) /\ Len(C) = 4
        /\ C[1] = nu(TX) /\ C[2] = ba(TX, b) /\ C[3] = ad(TX) /\ C[4] = ki(TX)
    BY <1>2, <1>9, SMTT(60)
  <2> HIDE DEF A, B, C
  <2>4. Parts(w, A, B, C)
    BY <2>1, <2>2, <2>3, Concat, ZenonT(60)
  <2> HIDE DEF w
  <2> QED
    BY <2>1, <2>2, <2>3, <2>4, Zenon DEF Parts
<1> HIDE DEF w
<1>11. /\ Good(w[1]) /\ Good(w[2]) /\ Good(w[3]) /\ Good(w[4]) /\ Good(w[5])
       /\ Good(w[6]) /\ Good(w[7]) /\ Good(w[8]) /\ Good(w[9]) /\ Good(w[10])
  BY <1>2, <1>3, <1>4, <1>5, <1>6, <1>7, <1>8, <1>10, Zenon
<1>12. \A k \in 1..10 : Good(w[k])
  BY <1>11
<1>13. OwnScript(w, c)
  BY <1>10, <1>12, Zenon DEF OwnScript, Good
<1> QED
  BY <1>1, <1>2, <1>3, <1>4, <1>5, <1>6, <1>7, <1>8, <1>10, <1>13, ZenonT(60)

-----------------------------------------------------------------------------
(* Steps that add nothing to what is pending.                              *)

NothingNew ==
    \A c \in ConnIds :
        Remains(chan'[c], Pending(cur', script', c), chan[c], Pending(cur, script, c))

(* A queue remains if its messages stay where they are.                    *)
LEMMA StayRemains ==
    ASSUME NEW ch2, NEW pn2, NEW ch, NEW pn,
           \A k \in Items(ch2, pn2) : k \in Items(ch, pn) /\ At(ch2, pn2, k) = At(ch, pn, k)
    PROVE  Remains(ch2, pn2, ch, pn)
<1>1. \A k \in Items(ch2, pn2) : k + 0 = k
  BY DEF Items
<1>2. 0 \in Nat
  OBVIOUS
<1> QED
  BY <1>1, <1>2, Zenon DEF Remains

(* vhost_user_send_fds.                                                    *)
LEMMA SendRemains == ASSUME ControlInv, SendFds PROVE NothingNew
<1>1. /\ script \in Seq(MsgSet) /\ script # <<>> /\ script' = Tail(script)
      /\ cur' = cur /\ cur \in ConnIds
      /\ chan' = [chan EXCEPT ![cur] = Append(chan[cur], Head(script))]
      /\ chan \in [ConnIds -> Seq(MsgSet)]
  BY DEF SendFds, ControlInv, ScriptInv, TypeOK, ConnIds
<1> SUFFICES ASSUME NEW c \in ConnIds
             PROVE  Remains(chan'[c], Pending(cur', script', c), chan[c], Pending(cur, script, c))
  BY Zenon DEF NothingNew
<1>2. CASE c = cur
  <2>1. /\ Pending(cur, script, c) = script /\ Pending(cur', script', c) = Tail(script)
        /\ chan'[c] = Append(chan[c], Head(script)) /\ chan[c] \in Seq(MsgSet)
    BY <1>1, <1>2, Zenon DEF Pending
  <2>2. LET ch2 == Append(chan[c], Head(script))
            pn2 == Tail(script)
        IN /\ Items(ch2, pn2) = Items(chan[c], script)
           /\ \A k \in Items(chan[c], script) : At(ch2, pn2, k) = At(chan[c], script, k)
    BY <1>1, <2>1, MoveOne, ZenonT(60)
  <2> QED
    BY <2>1, <2>2, StayRemains, Zenon
<1>3. CASE c # cur
  <2>1. chan'[c] = chan[c] /\ Pending(cur', script', c) = Pending(cur, script, c)
    BY <1>1, <1>3, Zenon DEF Pending
  <2> QED
    BY <2>1, StayRemains, Zenon
<1> QED
  BY <1>2, <1>3, Zenon

(* QEMU goes away.                                                         *)
LEMMA CloseRemains == ASSUME ControlInv, Close PROVE NothingNew
<1>1. script' = <<>> /\ chan' = chan
  BY Zenon DEF Close
<1> SUFFICES ASSUME NEW c \in ConnIds
             PROVE  Remains(chan'[c], Pending(cur', script', c), chan[c], Pending(cur, script, c))
  BY Zenon DEF NothingNew
<1>2. /\ chan[c] \in Seq(MsgSet) /\ Pending(cur, script, c) \in Seq(MsgSet)
      /\ Pending(cur', script', c) = <<>>
  BY <1>1 DEF ControlInv, TypeOK, Pending
<1>3. \A k \in Items(chan[c], <<>>) :
         /\ k \in Items(chan[c], Pending(cur, script, c))
         /\ At(chan[c], <<>>, k) = At(chan[c], Pending(cur, script, c), k)
  BY <1>2, AfterClose, Zenon
<1> QED
  BY <1>1, <1>2, <1>3, StayRemains, Zenon

(* vhost_user_receive.                                                     *)
LEMMA ReceiveRemains == ASSUME ControlInv, NEW d \in ConnIds, Receive(d) PROVE NothingNew
<1> DEFINE n == Taken(d)
<1>1. /\ chan[d] # <<>> /\ chan \in [ConnIds -> Seq(MsgSet)] /\ script \in Seq(MsgSet)
      /\ chan' = [chan EXCEPT ![d] = SubSeq(chan[d], n + 1, Len(chan[d]))]
      /\ cur' = cur /\ script' = script
  BY Zenon DEF Receive, ControlInv, TypeOK, qemu
<1>2. n \in 1..Len(chan[d])
  BY <1>1, TakenFacts, Zenon DEF ControlInv
<1>3. n \in Nat
  BY <1>2
<1> HIDE DEF n
<1> SUFFICES ASSUME NEW c \in ConnIds
             PROVE  Remains(chan'[c], Pending(cur', script', c), chan[c], Pending(cur, script, c))
  BY Zenon DEF NothingNew
<1>4. Pending(cur', script', c) = Pending(cur, script, c) /\ Pending(cur, script, c) \in Seq(MsgSet)
  BY <1>1 DEF Pending
<1>5. CASE c = d
  <2>1. chan'[c] = SubSeq(chan[c], n + 1, Len(chan[c])) /\ chan[c] \in Seq(MsgSet)
    BY <1>1, <1>5, Zenon
  <2> DEFINE pn == Pending(cur, script, c)
             ch == chan[c]
             ch2 == SubSeq(ch, n + 1, Len(ch))
  <2>2. pn \in Seq(MsgSet) /\ ch \in Seq(MsgSet) /\ n \in 1..Len(ch)
    BY <1>2, <1>4, <1>5, <2>1, Zenon
  <2> HIDE DEF pn, ch
  <2>3. \A k \in Items(ch2, pn) : k + n \in Items(ch, pn) /\ At(ch2, pn, k) = At(ch, pn, k + n)
    BY <2>2, AfterRead, Zenon
  <2>4. Remains(ch2, pn, ch, pn)
    BY <1>3, <2>3, Zenon DEF Remains
  <2> QED
    BY <1>4, <2>1, <2>4, Zenon DEF pn, ch
<1>6. CASE c # d
  <2>1. chan'[c] = chan[c]
    BY <1>1, <1>6, Zenon
  <2> QED
    BY <1>4, <2>1, StayRemains, Zenon
<1> QED
  BY <1>5, <1>6, Zenon

(* The others.                                                             *)
LEMMA QuietRemains == ASSUME UNCHANGED <<cur, script, chan>> PROVE NothingNew
  BY StayRemains, Zenon DEF NothingNew

(* Nothing new means that all that is pending is still whose it was.       *)
LEMMA OwnRemains == ASSUME OwnInv, NothingNew PROVE OwnInv'
<1> SUFFICES ASSUME NEW c \in ConnIds
             PROVE  OwnMsgs(chan'[c], Pending(cur', script', c), c)
  BY Zenon DEF OwnInv
<1>1. OwnMsgs(chan[c], Pending(cur, script, c), c)
  BY Zenon DEF OwnInv
<1>2. Remains(chan'[c], Pending(cur', script', c), chan[c], Pending(cur, script, c))
  BY Zenon DEF NothingNew
<1> QED
  BY <1>1, <1>2, Zenon DEF OwnMsgs, Remains

(* A single message is a script of its own.                                *)
LEMMA OneOwn ==
    ASSUME NEW m \in MsgSet, NEW c, Own(m, c)
    PROVE  OwnScript(<<m>>, c) /\ Len(<<m>>) = 1 /\ <<m>>[1] = m
<1>1. <<m>> \in Seq(MsgSet) /\ Len(<<m>>) = 1 /\ <<m>>[1] = m /\ \A k \in 1..1 : k = 1
  OBVIOUS
<1> QED
  BY <1>1, Zenon DEF OwnScript

(* What QEMU may begin to send on its own is a call, a memory table or an  *)
(* echo.                                                                   *)
LEMMA OneMessage ==
    ASSUME ControlInv, SendOne
    PROVE  /\ OwnScript(script', cur) /\ Len(script') = 1
           /\ script'[1].req \in {"ECHO", "SET_VRING_CALL", "SET_MEM_TABLE"}
           /\ script'[1].req = "SET_MEM_TABLE" => started
<1>1. cur \in ConnIds
  BY DEF SendOne, Idle, ControlInv, TypeOK, ConnIds
<1>2. CASE script' = <<Plain("ECHO", cur)>>
  <2>1. Plain("ECHO", cur) \in MsgSet /\ Own(Plain("ECHO", cur), cur) /\ Plain("ECHO", cur).req = "ECHO"
    <3>1. /\ "ECHO" \in Requests /\ RX \in Rings /\ 0 \in Nat /\ NoFd \in FdSet
          /\ "ECHO" # "SET_VRING_CALL" /\ "ECHO" # "SET_VRING_KICK"
      BY <1>1, FdType DEF Requests, Rings
    <3> QED
      BY <1>1, <3>1, MsgOwn, SMT DEF Plain
  <2>2. "ECHO" # "SET_MEM_TABLE"
    OBVIOUS
  <2> QED
    BY <1>2, <2>1, <2>2, OneOwn, Zenon
<1>3. ASSUME NEW i \in Rings, NEW k \in {"masked", "guest"}, script' = <<Call(k, i, cur)>>
      PROVE  /\ OwnScript(script', cur) /\ Len(script') = 1
             /\ script'[1].req = "SET_VRING_CALL"
  <2> DEFINE m == Call(k, i, cur)
  <2>1. m \in MsgSet /\ Own(m, cur) /\ m.req = "SET_VRING_CALL"
    BY <1>1, CallOwn, SMT
  <2> HIDE DEF m
  <2>2. OwnScript(<<m>>, cur) /\ Len(<<m>>) = 1 /\ <<m>>[1] = m
    BY <2>1, OneOwn, Zenon
  <2> QED
    BY <1>3, <2>1, <2>2, Zenon DEF m
<1>4. "SET_VRING_CALL" # "SET_MEM_TABLE"
  OBVIOUS
<1>5. CASE started /\ script' = <<MemTable(cur)>>
  BY <1>1, <1>5, MemTableOwn, OneOwn, Zenon
<1> QED
  BY <1>2, <1>3, <1>4, <1>5, Zenon DEF SendOne

(* A script is begun when there is none.                                   *)
LEMMA Begins ==
    ASSUME ControlInv, Connect \/ DevStart \/ DevStop \/ SendOne
    PROVE  /\ script = <<>> /\ cur' \in ConnIds /\ OwnScript(script', cur')
           /\ chan' = chan /\ vring' = vring /\ memory' = memory /\ last' = last
           /\ processed' = processed /\ avail' = avail
<1>1. CASE Connect
  <2>1. script = <<>> /\ cur + 1 \in ConnIds /\ cur' = cur + 1 /\ script' = InitMsgs(cur + 1)
    BY <1>1, ChannelAssumption, SMTT(60) DEF Connect, ControlInv, ScriptInv, TypeOK, ConnIds
  <2>2. OwnScript(InitMsgs(cur + 1), cur + 1)
    BY <2>1, InitList, Zenon
  <2> QED
    BY <1>1, <2>1, <2>2, Zenon DEF Connect, server
<1>2. CASE DevStart \/ DevStop \/ SendOne
  <2>1. script = <<>> /\ cur \in ConnIds /\ cur' = cur
    BY <1>2 DEF DevStart, DevStop, SendOne, Idle, ControlInv, TypeOK, ConnIds
  <2>2. CASE DevStart
    <3>1. last_avail_idx \in 0..(IndexMod - 1)
      BY Zenon DEF ControlInv, TypeOK
    <3>2. OwnScript(StartMsgs(last_avail_idx, cur), cur)
      BY <2>1, <3>1, StartList, Zenon
    <3> QED
      BY <2>1, <2>2, <3>2, Zenon DEF DevStart, server
  <2>3. CASE DevStop
    BY <2>1, <2>3, StopList, Zenon DEF DevStop, server
  <2>4. CASE SendOne
    BY <2>1, <2>4, OneMessage, Zenon DEF SendOne, server
  <2> QED
    BY <1>2, <2>2, <2>3, <2>4, ZenonT(60)
<1> QED
  BY <1>1, <1>2, Zenon

(* A new script is the connection's own.                                   *)
LEMMA OwnNew ==
    ASSUME ControlInv, OwnInv, Connect \/ DevStart \/ DevStop \/ SendOne
    PROVE  OwnInv'
<1>1. /\ script = <<>> /\ cur' \in ConnIds /\ OwnScript(script', cur') /\ chan' = chan
      /\ script' \in Seq(MsgSet)
  BY Begins, Zenon DEF OwnScript
<1> SUFFICES ASSUME NEW c \in ConnIds
             PROVE  OwnMsgs(chan'[c], Pending(cur', script', c), c)
  BY Zenon DEF OwnInv
<1>2. chan[c] \in Seq(MsgSet) /\ Pending(cur, script, c) = <<>>
  BY <1>1, Zenon DEF ControlInv, TypeOK, Pending
<1>3. OwnMsgs(chan[c], <<>>, c)
  BY <1>2, Zenon DEF OwnInv
<1>4. CASE c = cur'
  <2>1. Pending(cur', script', c) = script'
    BY <1>4, Zenon DEF Pending
  <2>2. \A k \in Items(chan[c], script') :
          \/ k \in Items(chan[c], <<>>) /\ At(chan[c], script', k) = At(chan[c], <<>>, k)
          \/ /\ k - Len(chan[c]) \in 1..Len(script')
             /\ At(chan[c], script', k) = script'[k - Len(chan[c])]
    BY <1>1, <1>2, AfterNew, Zenon
  <2>3. OwnMsgs(chan[c], script', c)
    BY <1>1, <1>3, <1>4, <2>2, Zenon DEF OwnMsgs, OwnScript
  <2> QED
    BY <1>1, <2>1, <2>3, Zenon
<1>5. CASE c # cur'
  BY <1>1, <1>3, <1>5, Zenon DEF Pending
<1> QED
  BY <1>4, <1>5, Zenon

(* Which steps add nothing.                                                *)
LEMMA NothingNewSteps ==
    ASSUME ControlInv, [Next]_vars, ~(Connect \/ DevStart \/ DevStop \/ SendOne)
    PROVE  NothingNew
<1>1. CASE \/ UNCHANGED vars \/ GuestPublish \/ PollAvailVring
          \/ \E c \in ConnIds : ReceiveTorn(c) \/ ReceiveEof(c)
  <2>1. UNCHANGED <<cur, script, chan>>
    BY <1>1, Zenon DEF vars, qemu, GuestPublish, PollAvailVring, ReceiveTorn, ReceiveEof
  <2> QED
    BY <2>1, QuietRemains, Zenon
<1> QED
  BY <1>1, SendRemains, CloseRemains, ReceiveRemains, Zenon DEF Next

(* Every message is whose channel it is in.                                *)
LEMMA OwnStep == ASSUME ControlInv, OwnInv, [Next]_vars PROVE OwnInv'
  BY OwnNew, NothingNewSteps, OwnRemains, Zenon

(* Nothing has been sent at first.                                         *)
LEMMA InitOwn == ASSUME Init PROVE OwnInv
<1>1. \A c \in ConnIds : chan[c] = <<>> /\ Pending(cur, script, c) = <<>>
  BY Zenon DEF Init, Pending
<1>2. Items(<<>>, <<>>) = {}
  BY DEF Items
<1> QED
  BY <1>1, <1>2, Zenon DEF OwnInv, OwnMsgs

-----------------------------------------------------------------------------
(* Buffers are processed once.                                             *)

\* The messages that only a start sends, and those of the transmit ring.
StartReqs == {"SET_MEM_TABLE", "SET_VRING_BASE", "SET_VRING_ADDR"}
Base(m) == Is(m, "SET_VRING_BASE", TX)
Addr(m) == Is(m, "SET_VRING_ADDR", TX)

NoStart(ch, pn) == \A k \in Items(ch, pn) : At(ch, pn, k).req \notin StartReqs
NoBase(ch, pn)  == \A k \in Items(ch, pn) : ~Base(At(ch, pn, k))

\* The transmit ring is to begin at 0, and it is told so before its addresses.
BaseFirst(ch, pn) ==
    /\ \A k \in Items(ch, pn) : Base(At(ch, pn, k)) => At(ch, pn, k).num = 0
    /\ \A j, k \in Items(ch, pn) : Addr(At(ch, pn, j)) /\ Base(At(ch, pn, k)) => k < j

\* d is the connection of the only start so far, 0 before it.
Queues(d) ==
    /\ d = 0 <=> starts = 0
    /\ started => cur = d
    /\ \A c \in ConnIds : c # d => NoStart(chan[c], Pending(cur, script, c))
    /\ \A c \in ConnIds : c = d =>
         /\ BaseFirst(chan[c], Pending(cur, script, c))
         /\ vring[TX].desc # 0 \/ (last # <<>> /\ Addr(last[1]))
              => NoBase(chan[c], Pending(cur, script, c))

LastOnce(d) ==
    last # <<>> =>
        /\ last[1].req \in StartReqs => last[1].conn = d
        /\ Base(last[1]) => vring[TX].desc = 0 /\ last[1].num = 0

\* The position in the transmit ring counts the buffers of d processed.
RingOnce(d) ==
    /\ memory \in {0, d} /\ vring[TX].desc \in {0, d}
    /\ vring[TX].desc = 0 => vring[TX].last_avail_idx = 0
    /\ \A c \in ConnIds : c # vring[TX].desc => processed[c] = 0
    /\ \A c \in ConnIds : c = vring[TX].desc =>
         processed[c] = vring[TX].last_avail_idx /\ processed[c] <= avail[c]

OneStart(d) == Queues(d) /\ LastOnce(d) /\ RingOnce(d)

OnceInv ==
    /\ last_avail_idx = 0
    /\ started => cur \in ConnIds /\ cur \notin ended
    /\ starts <= 1 => \E d \in 0..MaxConns : OneStart(d)

(* What a handler does to the memory and the transmit ring.                *)
LEMMA HandlerOnce ==
    ASSUME TypeOK, NEW m \in MsgSet, NEW nfds, NEW behind, InMsgServer(m, nfds, behind)
    PROVE  /\ memory' = memory \/ (m.req = "SET_MEM_TABLE" /\ memory' \in {0, m.conn})
           /\ \/ vring'[TX].desc = vring[TX].desc
              \/ Addr(m) /\ memory # 0 /\ vring'[TX].desc = memory
           /\ \/ vring'[TX].last_avail_idx = vring[TX].last_avail_idx
              \/ Base(m) /\ vring'[TX].last_avail_idx = m.num
<1>1. m.ring \in Rings /\ TX \in Rings /\ vring \in [Rings -> VringSet]
  BY Zenon DEF MsgSet, Rings, TypeOK
<1>2. vring[m.ring] \in VringSet /\ vring[TX] \in VringSet
  BY <1>1, Zenon
<1>3. CASE UNCHANGED <<memory, vring>>
  BY <1>3, Zenon
<1>4. CASE m.req = "SET_MEM_TABLE" /\ _set_mem_table(m, nfds)
  BY <1>4, Zenon DEF _set_mem_table, Fail
<1>5. CASE m.req = "SET_VRING_NUM" /\ _set_vring_num(m)
  BY <1>1, <1>2, <1>5, Zenon DEF _set_vring_num, SetRing, VringSet
<1>6. CASE m.req = "SET_VRING_BASE" /\ _set_vring_base(m)
  BY <1>1, <1>2, <1>6, Zenon DEF _set_vring_base, SetRing, VringSet, Base, Is
<1>7. CASE m.req = "SET_VRING_ADDR" /\ _set_vring_addr(m)
  <2>1. CASE Fail("crash")
    BY <2>1, Zenon DEF Fail
  <2>2. CASE memory # 0 /\ SetRing(m.ring, [vring[m.ring] EXCEPT !.desc = memory])
    BY <1>1, <1>2, <1>7, <2>2, Zenon DEF SetRing, VringSet, Addr, Is
  <2> QED
    BY <1>7, <2>1, <2>2, Zenon DEF _set_vring_addr
<1>8. CASE m.req = "SET_VRING_KICK" /\ _set_vring_kick(m, nfds)
  <2>1. CASE Fail("assert")
    BY <2>1, Zenon DEF Fail
  <2>2. CASE SetRing(m.ring, [vring[m.ring] EXCEPT !.kickfd = m.fd])
    BY <1>1, <1>2, <2>2, Zenon DEF SetRing, VringSet
  <2> QED
    BY <1>8, <2>1, <2>2, Zenon DEF _set_vring_kick
<1>9. CASE m.req = "SET_VRING_CALL" /\ _set_vring_call(m)
  BY <1>1, <1>2, <1>9, Zenon DEF _set_vring_call, SetRing, VringSet
<1>10. CASE m.req = "GET_VRING_BASE" /\ _get_vring_base(behind)
  BY <1>10, Zenon DEF _get_vring_base, Fail
<1> QED
  BY <1>3, <1>4, <1>5, <1>6, <1>7, <1>8, <1>9, <1>10, Zenon DEF InMsgServer

(* What remains of a queue has no more in it.                              *)
LEMMA LessRemains ==
    ASSUME NEW ch2, NEW pn2, NEW ch, NEW pn, Remains(ch2, pn2, ch, pn),
           Len(ch2) + Len(pn2) \in Nat
    PROVE  /\ NoStart(ch, pn) => NoStart(ch2, pn2)
           /\ NoBase(ch, pn) => NoBase(ch2, pn2)
           /\ BaseFirst(ch, pn) => BaseFirst(ch2, pn2)
<1>1. PICK n \in Nat : \A k \in Items(ch2, pn2) :
                          k + n \in Items(ch, pn) /\ At(ch2, pn2, k) = At(ch, pn, k + n)
  BY Zenon DEF Remains
<1>2. \A j, k \in Items(ch2, pn2) : k + n < j + n => k < j
  BY DEF Items
<1>3. NoStart(ch, pn) => NoStart(ch2, pn2)
  BY <1>1, Zenon DEF NoStart
<1>4. NoBase(ch, pn) => NoBase(ch2, pn2)
  BY <1>1, Zenon DEF NoBase
<1>5. BaseFirst(ch, pn) => BaseFirst(ch2, pn2)
  BY <1>1, <1>2, Zenon DEF BaseFirst
<1> QED
  BY <1>3, <1>4, <1>5, Zenon

(* A script that says nothing of the ring's position or addresses.         *)
LEMMA QuietScript ==
    ASSUME NEW ch \in Seq(MsgSet), NEW w \in Seq(MsgSet),
           \A k \in 1..Len(w) : w[k].req \notin {"SET_VRING_BASE", "SET_VRING_ADDR"}
    PROVE  /\ (\A k \in 1..Len(w) : w[k].req # "SET_MEM_TABLE") /\ NoStart(ch, <<>>) => NoStart(ch, w)
           /\ NoBase(ch, <<>>) => NoBase(ch, w)
           /\ BaseFirst(ch, <<>>) => BaseFirst(ch, w)
<1>1. \A k \in Items(ch, w) :
         \/ k \in Items(ch, <<>>) /\ At(ch, w, k) = At(ch, <<>>, k)
         \/ k - Len(ch) \in 1..Len(w) /\ At(ch, w, k) = w[k - Len(ch)]
  BY AfterNew, Zenon
<1>2. \A k \in Items(ch, w) :
         \/ k \in Items(ch, <<>>) /\ At(ch, w, k) = At(ch, <<>>, k)
         \/ ~Base(At(ch, w, k)) /\ ~Addr(At(ch, w, k))
  BY <1>1, Zenon DEF Base, Addr, Is
<1>3. (\A k \in 1..Len(w) : w[k].req # "SET_MEM_TABLE") /\ NoStart(ch, <<>>) => NoStart(ch, w)
  BY <1>1, Zenon DEF NoStart, StartReqs
<1>4. NoBase(ch, <<>>) => NoBase(ch, w)
  BY <1>2, Zenon DEF NoBase
<1>5. BaseFirst(ch, <<>>) => BaseFirst(ch, w)
  BY <1>2, Zenon DEF BaseFirst
<1> QED
  BY <1>3, <1>4, <1>5, Zenon

(* What is pending stays so if nothing is new and no ring got addresses    *)
(* with its position still to come.                                        *)
LEMMA QueuesRemain ==
    ASSUME TypeOK', NEW d, Queues(d), NothingNew,
           starts' = starts, cur' = cur, started' => started,
           \/ vring'[TX].desc # 0 \/ (last' # <<>> /\ Addr(last'[1]))
              => vring[TX].desc # 0 \/ (last # <<>> /\ Addr(last[1]))
           \/ \A c \in ConnIds : c = d => NoBase(chan[c], Pending(cur, script, c))
    PROVE  Queues(d)'
<1>1. ASSUME NEW c \in ConnIds
      PROVE  LET ch == chan[c]
                 pn == Pending(cur, script, c)
                 ch2 == chan'[c]
                 pn2 == Pending(cur', script', c)
             IN /\ NoStart(ch, pn) => NoStart(ch2, pn2)
                /\ NoBase(ch, pn) => NoBase(ch2, pn2)
                /\ BaseFirst(ch, pn) => BaseFirst(ch2, pn2)
  <2>1. Len(chan'[c]) + Len(Pending(cur', script', c)) \in Nat
    BY SMTT(60) DEF TypeOK, Pending
  <2>2. Remains(chan'[c], Pending(cur', script', c), chan[c], Pending(cur, script, c))
    BY Zenon DEF NothingNew
  <2> QED
    BY <2>1, <2>2, LessRemains, ZenonT(60)
<1> QED
  BY <1>1, Zenon DEF Queues

(* The indices of the avail ring are natural numbers.                      *)
LEMMA AvailNumbers == 0..MaxAvail \subseteq Nat /\ \A k \in 0..MaxAvail : 0 <= k
  BY SMT

(* A handler and the transmit ring: the position is set before the ring    *)
(* has its addresses.                                                      *)
LEMMA HandleOnce ==
    ASSUME ControlInv, NEW d, RingOnce(d),
           NEW m \in MsgSet, NEW nfds, NEW behind, InMsgServer(m, nfds, behind),
           m.req \in StartReqs => m.conn = d,
           Base(m) => vring[TX].desc = 0 /\ m.num = 0,
           processed' = processed, avail' = avail
    PROVE  /\ RingOnce(d)'
           /\ vring'[TX].desc # 0 => vring[TX].desc # 0 \/ Addr(m)
           /\ Base(m) => vring'[TX].desc = 0
<1>1. /\ memory' = memory \/ (m.req = "SET_MEM_TABLE" /\ memory' \in {0, m.conn})
      /\ \/ vring'[TX].desc = vring[TX].desc
         \/ Addr(m) /\ memory # 0 /\ vring'[TX].desc = memory
      /\ \/ vring'[TX].last_avail_idx = vring[TX].last_avail_idx
         \/ Base(m) /\ vring'[TX].last_avail_idx = m.num
  BY HandlerOnce, Zenon DEF ControlInv
<1>2. Base(m) => ~Addr(m)
  BY Zenon DEF Base, Addr, Is
<1>3. memory' \in {0, d} /\ vring'[TX].desc \in {0, d}
  BY <1>1, Zenon DEF RingOnce, StartReqs
<1>4. vring'[TX].last_avail_idx = vring[TX].last_avail_idx
  BY <1>1, Zenon DEF RingOnce
<1>5. \/ vring'[TX].desc = vring[TX].desc
      \/ vring[TX].desc = 0 /\ vring'[TX].desc = d
  BY <1>1, Zenon DEF RingOnce
<1>6. avail \in [ConnIds -> Nat] /\ \A c \in ConnIds : 0 <= avail[c]
  <2>1. avail \in [ConnIds -> 0..MaxAvail]
    BY ZenonT(60) DEF ControlInv, TypeOK
  <2> QED
    BY <2>1, AvailNumbers, Zenon
<1>7. RingOnce(d)'
  BY <1>3, <1>4, <1>5, <1>6, Zenon DEF RingOnce, ConnIds
<1> QED
  BY <1>1, <1>2, <1>7, Zenon

(* vhost_user_receive.                                                     *)
LEMMA ReceiveOnce ==
    ASSUME ControlInv, ControlInv', OwnInv, NEW d, OneStart(d), NEW c \in ConnIds, Receive(c)
    PROVE  OneStart(d)'
<1> DEFINE n == Taken(c)
           m == [Head(chan[c]) EXCEPT !.fd = chan[c][n].fd]
           nfds == IF m.fd = NoFd THEN 0 ELSE 1
           ch == chan[c]
           pn == Pending(cur, script, c)
<1>1. /\ chan[c] # <<>> /\ InMsgServer(m, nfds, n > 1) /\ last' = <<m>>
      /\ UNCHANGED <<cur, started, script, starts, avail, processed>>
  BY Zenon DEF Receive, qemu
<1>2. /\ m \in MsgSet /\ m.req = ch[1].req /\ m.ring = ch[1].ring
      /\ m.num = ch[1].num /\ m.conn = ch[1].conn
  BY <1>1, ReadMessage, ZenonT(60)
<1>3. 1 \in Items(ch, pn) /\ At(ch, pn, 1) = ch[1] /\ \A k \in Items(ch, pn) : ~(k < 1)
  <2>1. ch \in Seq(MsgSet) /\ ch # <<>> /\ script \in Seq(MsgSet)
    BY <1>1, Zenon DEF ControlInv, TypeOK
  <2> HIDE DEF ch
  <2>2. pn \in Seq(MsgSet)
    BY <2>1 DEF Pending
  <2> HIDE DEF pn
  <2>3. Len(ch) \in Nat /\ Len(ch) >= 1 /\ Len(pn) \in Nat
    BY <2>1, <2>2
  <2> QED
    BY <2>3 DEF Items, At
<1>4. last' # <<>> /\ last'[1] = m
  BY <1>1
<1>5. /\ Own(At(ch, pn, 1), c)
      /\ c # d => NoStart(ch, pn)
      /\ c = d => BaseFirst(ch, pn) /\ (vring[TX].desc # 0 => NoBase(ch, pn))
  BY <1>3, Zenon DEF OwnInv, OwnMsgs, OneStart, Queues
<1> HIDE DEF m, n, nfds, ch, pn
<1>6. m.req \in StartReqs => c = d /\ m.conn = d
  BY <1>2, <1>3, <1>5, Zenon DEF NoStart, Own
<1>7. Base(m) => c = d /\ vring[TX].desc = 0 /\ m.num = 0
  <2>1. Base(m) => m.req \in StartReqs /\ Base(At(ch, pn, 1))
    BY <1>2, <1>3, Zenon DEF Base, Is, StartReqs
  <2> QED
    BY <1>2, <1>3, <1>5, <1>6, <2>1, Zenon DEF NoBase, BaseFirst
<1>8. Addr(m) => c = d /\ NoBase(ch, pn)
  <2>1. Addr(m) => m.req \in StartReqs /\ Addr(At(ch, pn, 1))
    BY <1>2, <1>3, Zenon DEF Addr, Is, StartReqs
  <2> QED
    BY <1>3, <1>5, <1>6, <2>1, Zenon DEF NoBase, BaseFirst
<1>9. /\ RingOnce(d)'
      /\ vring'[TX].desc # 0 => vring[TX].desc # 0 \/ Addr(m)
      /\ Base(m) => vring'[TX].desc = 0
  BY <1>1, <1>2, <1>6, <1>7, HandleOnce, Zenon DEF OneStart
<1>10. LastOnce(d)'
  BY <1>4, <1>6, <1>7, <1>9, Zenon DEF LastOnce
<1>11. NothingNew
  BY ReceiveRemains, Zenon
<1>12. Queues(d)'
  BY <1>1, <1>4, <1>8, <1>9, <1>11, QueuesRemain, Zenon DEF OneStart, ControlInv, ch, pn
<1> QED
  BY <1>9, <1>10, <1>12, Zenon DEF OneStart

(* What is handled at the end of a stream was handled before.              *)
LEMMA EofOnce ==
    ASSUME ControlInv, ControlInv', NEW d, OneStart(d), NEW c \in ConnIds, ReceiveEof(c)
    PROVE  OneStart(d)'
<1>1. UNCHANGED <<cur, started, script, starts, avail, chan, last, processed>>
  BY Zenon DEF ReceiveEof, qemu
<1>2. NothingNew
  BY <1>1, QuietRemains, Zenon
<1>3. CASE memory' = memory /\ vring' = vring
  <2>1. Queues(d)'
    BY <1>1, <1>2, <1>3, QueuesRemain, Zenon DEF OneStart, ControlInv
  <2> QED
    BY <1>1, <1>3, <2>1, Zenon DEF OneStart, LastOnce, RingOnce
<1>4. CASE last # <<>> /\ InMsgServer(last[1], 0, FALSE)
  <2>1. last[1] \in MsgSet
    <3>1. last \in Seq(MsgSet)
      BY Zenon DEF ControlInv, TypeOK
    <3> QED
      BY <1>4, <3>1
  <2>2. /\ last[1].req \in StartReqs => last[1].conn = d
        /\ Base(last[1]) => vring[TX].desc = 0 /\ last[1].num = 0
    BY <1>4, Zenon DEF OneStart, LastOnce
  <2>3. /\ RingOnce(d)'
        /\ vring'[TX].desc # 0 => vring[TX].desc # 0 \/ Addr(last[1])
        /\ Base(last[1]) => vring'[TX].desc = 0
    BY <1>1, <1>4, <2>1, <2>2, HandleOnce, Zenon DEF OneStart
  <2>4. Queues(d)'
    BY <1>1, <1>2, <1>4, <2>3, QueuesRemain, Zenon DEF OneStart, ControlInv
  <2> QED
    BY <1>1, <2>2, <2>3, <2>4, Zenon DEF OneStart, LastOnce
<1> QED
  BY <1>3, <1>4, Zenon DEF ReceiveEof, Fail

(* The position in the ring does not wrap around before every buffer that  *)
(* the bounds allow is used.                                               *)
LEMMA NoWrap ==
    ASSUME NEW n \in Nat, NEW a \in 0..MaxAvail, n <= a, n # a
    PROVE  (n + 1) % IndexMod = n + 1 /\ n + 1 <= a
<1>1. MaxAvail \in Nat /\ IndexMod \in Nat /\ MaxAvail < IndexMod
  BY ChannelAssumption
<1>2. n + 1 \in Nat /\ n + 1 <= a /\ n + 1 < IndexMod
  BY <1>1
<1> QED
  BY <1>1, <1>2, SMTT(60)

(* process_avail_vring takes a buffer that was published.                  *)
LEMMA PollOnce ==
    ASSUME ControlInv, ControlInv', NEW d, OneStart(d), PollAvailVring
    PROVE  OneStart(d)'
<1> DEFINE v == vring[TX]
<1>1. /\ UNCHANGED <<cur, started, script, starts, avail, chan, last>> /\ v.desc # 0
      /\ memory' = memory
  BY Zenon DEF PollAvailVring, qemu, SetRing, Fail
<1>2. NothingNew
  BY <1>1, QuietRemains, Zenon
<1>3. /\ TX \in Rings /\ vring \in [Rings -> VringSet] /\ v \in VringSet
      /\ processed \in [ConnIds -> Nat]
      /\ v.desc \in ConnIds /\ avail[v.desc] \in 0..MaxAvail
  <2>1. TX \in Rings /\ vring \in [Rings -> VringSet] /\ processed \in [ConnIds -> Nat]
    BY Zenon DEF Rings, ControlInv, TypeOK
  <2>2. v \in VringSet /\ v.desc \in 0..MaxConns
    BY <2>1, Zenon DEF VringSet
  <2>3. MaxConns \in Nat
    BY ChannelAssumption, Zenon
  <2>4. v.desc \in ConnIds
    BY <1>1, <2>2, <2>3 DEF ConnIds
  <2> QED
    BY <2>1, <2>2, <2>4, Zenon DEF ControlInv, TypeOK
<1>4. CASE v.num = 0
  BY <1>1, <1>4, Zenon DEF ControlInv, NumBeforeDesc, Rings
<1>5. CASE v.num # 0
  <2>1. /\ v.last_avail_idx # avail[v.desc]
        /\ vring' = [vring EXCEPT ![TX] = [v EXCEPT !.last_avail_idx = (@ + 1) % IndexMod]]
        /\ processed' = [processed EXCEPT ![v.desc] = @ + 1]
    BY <1>5, Zenon DEF PollAvailVring, SetRing
  <2>2. /\ vring'[TX].desc = v.desc
        /\ vring'[TX].last_avail_idx = (v.last_avail_idx + 1) % IndexMod
    BY <1>3, <2>1, Zenon DEF VringSet
  <2>3. /\ processed[v.desc] = v.last_avail_idx /\ processed[v.desc] <= avail[v.desc]
        /\ processed[v.desc] \in Nat
    BY <1>3, Zenon DEF OneStart, RingOnce
  <2>4. /\ (v.last_avail_idx + 1) % IndexMod = v.last_avail_idx + 1
        /\ v.last_avail_idx + 1 <= avail[v.desc]
    BY <1>3, <2>1, <2>3, NoWrap, Zenon
  <2>5. /\ processed'[v.desc] = processed[v.desc] + 1
        /\ \A c \in ConnIds : c # v.desc => processed'[c] = processed[c]
    BY <1>3, <2>1, Zenon
  <2>6. RingOnce(d)'
    BY <1>1, <2>2, <2>3, <2>4, <2>5, Zenon DEF OneStart, RingOnce
  <2>7. LastOnce(d)'
    BY <1>1, <2>2, Zenon DEF OneStart, LastOnce
  <2>8. Queues(d)'
    BY <1>1, <1>2, <2>2, QueuesRemain, Zenon DEF OneStart, ControlInv
  <2> QED
    BY <2>6, <2>7, <2>8, Zenon DEF OneStart
<1> QED
  BY <1>4, <1>5, Zenon

(* The guest publishes a buffer.                                           *)
LEMMA PublishOnce ==
    ASSUME ControlInv, ControlInv', NEW d, OneStart(d), GuestPublish,
           cur \in ConnIds
    PROVE  OneStart(d)'
<1>1. /\ UNCHANGED <<cur, started, script, starts, chan, last, memory, vring, processed>>
      /\ avail' = [avail EXCEPT ![cur] = @ + 1] /\ avail \in [ConnIds -> 0..MaxAvail]
      /\ processed \in [ConnIds -> Nat]
  BY Zenon DEF GuestPublish, server, ControlInv, TypeOK
<1>2. NothingNew
  BY <1>1, QuietRemains, Zenon
<1>3. Queues(d)'
  BY <1>1, <1>2, QueuesRemain, Zenon DEF OneStart, ControlInv
<1>4. ASSUME NEW c \in ConnIds, processed[c] <= avail[c] PROVE processed[c] <= avail'[c]
  <2>1. avail'[c] = avail[c] \/ avail'[c] = avail[c] + 1
    BY <1>1, Zenon
  <2>2. avail[c] \in Nat /\ processed[c] \in Nat
    BY <1>1
  <2> QED
    BY <1>4, <2>1, <2>2
<1>5. RingOnce(d)'
  BY <1>1, <1>4, Zenon DEF OneStart, RingOnce
<1> QED
  BY <1>1, <1>3, <1>5, Zenon DEF OneStart, LastOnce

(* QEMU sends or goes away, or the server stops making sense of it.        *)
LEMMA QemuOnce ==
    ASSUME ControlInv, ControlInv', NEW d, OneStart(d),
           SendFds \/ Close \/ UNCHANGED vars \/ \E c \in ConnIds : ReceiveTorn(c)
    PROVE  OneStart(d)'
<1>1. /\ UNCHANGED <<cur, starts, last, memory, vring, avail, processed>>
      /\ started' \in {started, FALSE}
  BY Zenon DEF SendFds, Close, ReceiveTorn, Fail, server, vars, qemu
<1>2. NothingNew
  <2>1. CASE UNCHANGED vars \/ \E c \in ConnIds : ReceiveTorn(c)
    BY <2>1, QuietRemains, Zenon DEF vars, qemu, ReceiveTorn
  <2> QED
    BY <2>1, SendRemains, CloseRemains, Zenon
<1>3. started' => started
  BY <1>1, Zenon
<1>4. Queues(d)'
  BY <1>1, <1>2, <1>3, QueuesRemain, Zenon DEF OneStart, ControlInv
<1> QED
  BY <1>1, <1>4, Zenon DEF OneStart, LastOnce, RingOnce

(* A script without a ring's position or addresses changes nothing.        *)
LEMMA NewQueues ==
    ASSUME ControlInv, NEW d, Queues(d),
           Connect \/ DevStart \/ DevStop \/ SendOne,
           \A k \in 1..Len(script') : script'[k].req \notin {"SET_VRING_BASE", "SET_VRING_ADDR"},
           cur' # d => \A k \in 1..Len(script') : script'[k].req # "SET_MEM_TABLE",
           starts' = starts, started' => cur' = d
    PROVE  Queues(d)'
<1>1. /\ script = <<>> /\ cur' \in ConnIds /\ script' \in Seq(MsgSet)
      /\ chan' = chan /\ vring' = vring /\ last' = last
  BY Begins, Zenon DEF OwnScript
<1>2. ASSUME NEW c \in ConnIds
      PROVE  LET ch == chan[c]
                 pn2 == Pending(cur', script', c)
             IN /\ Pending(cur, script, c) = <<>>
                /\ c # d /\ NoStart(ch, <<>>) => NoStart(ch, pn2)
                /\ NoBase(ch, <<>>) => NoBase(ch, pn2)
                /\ BaseFirst(ch, <<>>) => BaseFirst(ch, pn2)
  <2>1. chan[c] \in Seq(MsgSet) /\ Pending(cur, script, c) = <<>>
    BY <1>1, Zenon DEF ControlInv, TypeOK, Pending
  <2>2. CASE c = cur'
    <3>1. Pending(cur', script', c) = script'
      BY <2>2, Zenon DEF Pending
    <3> QED
      BY <1>1, <2>1, <2>2, <3>1, QuietScript, Zenon
  <2>3. CASE c # cur'
    <3>1. Pending(cur', script', c) = <<>>
      BY <2>3, Zenon DEF Pending
    <3> QED
      BY <2>1, <3>1, Zenon
  <2> QED
    BY <2>2, <2>3, Zenon
<1> QED
  BY <1>1, <1>2, Zenon DEF Queues

(* Connecting, stopping and the messages that are sent one at a time.      *)
LEMMA BeginOnce ==
    ASSUME ControlInv, NEW d, OneStart(d), started => cur \in ConnIds /\ cur \notin ended,
           Connect \/ DevStop \/ SendOne
    PROVE  OneStart(d)'
<1>1. /\ cur' \in ConnIds /\ chan' = chan /\ vring' = vring /\ memory' = memory /\ last' = last
      /\ processed' = processed /\ avail' = avail
  BY Begins, Zenon
<1>2. started => cur = d
  BY Zenon DEF OneStart, Queues
<1>3. ASSUME Connect PROVE Queues(d)'
  <2>1. /\ cur + 1 \in ConnIds /\ script' = InitMsgs(cur + 1) /\ starts' = starts
        /\ started' = started /\ (cur = 0 \/ cur \in ended)
    BY <1>3, ChannelAssumption, SMTT(60) DEF Connect, ControlInv, TypeOK, ConnIds
  <2>2. 0 \notin ConnIds
    BY DEF ConnIds
  <2>3. ~started'
    BY <2>1, <2>2, Zenon
  <2>4. \A k \in 1..Len(script') : script'[k].req \in
           {"ECHO", "SET_OWNER", "GET_FEATURES", "SET_VRING_CALL"}
    BY <2>1, InitList, Zenon
  <2>5. \A k \in 1..Len(script') :
           /\ script'[k].req \notin {"SET_VRING_BASE", "SET_VRING_ADDR"}
           /\ script'[k].req # "SET_MEM_TABLE"
    BY <2>4, Zenon
  <2> QED
    BY <1>3, <2>1, <2>3, <2>5, NewQueues, ZenonT(60) DEF OneStart
<1>4. ASSUME DevStop PROVE Queues(d)'
  <2>1. script' = StopMsgs(cur) /\ starts' = starts /\ ~started' /\ cur' = cur
    BY <1>4, Zenon DEF DevStop
  <2>2. \A k \in 1..Len(script') : script'[k].req \in {"NET_SET_BACKEND", "GET_VRING_BASE"}
    BY <1>1, <2>1, StopList, Zenon
  <2>3. \A k \in 1..Len(script') :
           /\ script'[k].req \notin {"SET_VRING_BASE", "SET_VRING_ADDR"}
           /\ script'[k].req # "SET_MEM_TABLE"
    BY <2>2, Zenon
  <2> QED
    BY <1>4, <2>1, <2>3, NewQueues, Zenon DEF OneStart
<1>5. ASSUME SendOne PROVE Queues(d)'
  <2>1. starts' = starts /\ started' = started /\ cur' = cur
    BY <1>5, Zenon DEF SendOne
  <2>2. /\ Len(script') = 1
        /\ script'[1].req \in {"ECHO", "SET_VRING_CALL", "SET_MEM_TABLE"}
        /\ script'[1].req = "SET_MEM_TABLE" => started
    BY <1>5, OneMessage, Zenon
  <2>3. \A k \in 1..Len(script') : k = 1
    BY <2>2
  <2>4. \A k \in 1..Len(script') :
           script'[k].req \notin {"SET_VRING_BASE", "SET_VRING_ADDR"}
    BY <2>2, <2>3, Zenon
  <2>5. cur' # d => \A k \in 1..Len(script') : script'[k].req # "SET_MEM_TABLE"
    BY <1>2, <2>1, <2>2, <2>3, Zenon
  <2> QED
    BY <1>2, <1>5, <2>1, <2>4, <2>5, NewQueues, Zenon DEF OneStart
<1>6. Queues(d)'
  BY <1>3, <1>4, <1>5, Zenon
<1> QED
  BY <1>1, <1>6, Zenon DEF OneStart, LastOnce, RingOnce

(* The messages of the first start come in the order that is relied on.    *)
LEMMA StartScript ==
    ASSUME NEW c \in ConnIds, NEW ch \in Seq(MsgSet), NoStart(ch, <<>>)
    PROVE  BaseFirst(ch, StartMsgs(0, c))
<1> DEFINE w == StartMsgs(0, c)
<1>1. 0 \in 0..(IndexMod - 1)
  BY ChannelAssumption
<1>2. /\ w \in Seq(MsgSet) /\ Len(w) = 10
      /\ w[1].req = "SET_FEATURES" /\ w[2].req = "SET_MEM_TABLE"
      /\ Is(w[3], "SET_VRING_NUM", RX) /\ Is(w[4], "SET_VRING_BASE", RX)
      /\ Is(w[5], "SET_VRING_ADDR", RX) /\ Is(w[6], "SET_VRING_KICK", RX)
      /\ Is(w[7], "SET_VRING_NUM", TX) /\ Is(w[8], "SET_VRING_BASE", TX) /\ w[8].num = 0
      /\ Is(w[9], "SET_VRING_ADDR", TX) /\ Is(w[10], "SET_VRING_KICK", TX)
  BY <1>1, StartList, ZenonT(60) DEF OwnScript
<1> HIDE DEF w
<1>3. RX # TX
  BY DEF RX, TX
<1>4. \A k \in 1..10 : k \in {1, 2, 3, 4, 5, 6, 7, 8, 9, 10}
  OBVIOUS
<1>5. \A k \in 1..10 : Base(w[k]) => k = 8
  BY <1>2, <1>3, <1>4, ZenonT(60) DEF Base, Is
<1>6. \A k \in 1..10 : Addr(w[k]) => k = 9
  BY <1>2, <1>3, <1>4, ZenonT(60) DEF Addr, Is
<1>7. \A k \in Items(ch, w) :
         \/ k \in Items(ch, <<>>) /\ At(ch, w, k) = At(ch, <<>>, k)
         \/ /\ k - Len(ch) \in 1..10 /\ At(ch, w, k) = w[k - Len(ch)]
            /\ k = Len(ch) + (k - Len(ch))
  BY <1>2, AfterNew, Zenon
<1>8. \A k \in Items(ch, <<>>) : ~Base(At(ch, <<>>, k)) /\ ~Addr(At(ch, <<>>, k))
  BY Zenon DEF NoStart, StartReqs, Base, Addr, Is
<1>9. \A k \in Items(ch, w) :
         Base(At(ch, w, k)) => k = Len(ch) + 8 /\ At(ch, w, k).num = 0
  BY <1>2, <1>5, <1>7, <1>8, Zenon
<1>10. \A k \in Items(ch, w) : Addr(At(ch, w, k)) => k = Len(ch) + 9
  BY <1>6, <1>7, <1>8, Zenon
<1>11. Len(ch) + 8 < Len(ch) + 9
  OBVIOUS
<1> QED
  BY <1>9, <1>10, <1>11, Zenon DEF BaseFirst, w

(* The first start.                                                        *)
LEMMA StartOnce ==
    ASSUME ControlInv, last_avail_idx = 0, NEW d, OneStart(d), DevStart, starts' <= 1
    PROVE  cur \in ConnIds /\ OneStart(cur)'
<1>1. /\ script = <<>> /\ cur' = cur /\ cur \in ConnIds
      /\ chan' = chan /\ vring' = vring /\ memory' = memory /\ last' = last
      /\ processed' = processed /\ avail' = avail
  BY Begins, Zenon DEF DevStart
<1>2. script' = StartMsgs(0, cur) /\ starts' = starts + 1 /\ starts \in Nat
  BY DEF DevStart, ControlInv, TypeOK
<1>3. starts = 0 /\ starts' # 0 /\ d = 0 /\ cur # 0
  <2>1. starts = 0 /\ starts' # 0
    BY <1>2
  <2>2. cur # 0
    BY <1>1 DEF ConnIds
  <2> QED
    BY <2>1, <2>2, Zenon DEF OneStart, Queues
<1>4. memory = 0 /\ vring[TX].desc = 0
  BY <1>3, Zenon DEF OneStart, RingOnce
<1>5. RingOnce(cur)'
  BY <1>1, <1>3, <1>4, Zenon DEF OneStart, RingOnce
<1>6. last # <<>> => last[1].req \notin StartReqs
  <2>1. ASSUME last # <<>> PROVE last[1].conn # 0
    <3>1. last \in Seq(MsgSet)
      BY Zenon DEF ControlInv, TypeOK
    <3>2. last[1] \in MsgSet
      BY <2>1, <3>1
    <3>3. last[1].conn \in ConnIds
      BY <3>2, Zenon DEF MsgSet
    <3> QED
      BY <3>3 DEF ConnIds
  <2> QED
    BY <1>3, <2>1, Zenon DEF OneStart, LastOnce
<1>7. last # <<>> => ~Base(last[1]) /\ ~Addr(last[1])
  BY <1>6, Zenon DEF Base, Addr, Is, StartReqs
<1>8. LastOnce(cur)'
  BY <1>1, <1>6, <1>7, Zenon DEF LastOnce
<1>9. \A c \in ConnIds : NoStart(chan[c], <<>>) /\ chan[c] \in Seq(MsgSet)
  <2>0. 0 \notin ConnIds
    BY DEF ConnIds
  <2>1. \A c \in ConnIds : c # d /\ Pending(cur, script, c) = <<>>
    BY <1>1, <1>3, <2>0, Zenon DEF Pending
  <2> QED
    BY <2>1, Zenon DEF OneStart, Queues, ControlInv, TypeOK
<1>10. BaseFirst(chan[cur], StartMsgs(0, cur))
  BY <1>1, <1>9, StartScript, Zenon
<1>11. \A c \in ConnIds :
         /\ c # cur => Pending(cur', script', c) = <<>>
         /\ c = cur => Pending(cur', script', c) = StartMsgs(0, cur)
  BY <1>1, <1>2, Zenon DEF Pending
<1>12. Queues(cur)'
  <2>1. cur' = 0 <=> starts' = 0
    BY <1>1, <1>3, Zenon
  <2>2. \A c \in ConnIds : c # cur' => NoStart(chan'[c], Pending(cur', script', c))
    <3> SUFFICES ASSUME NEW c \in ConnIds, c # cur'
                 PROVE  NoStart(chan'[c], Pending(cur', script', c))
      BY Zenon
    <3>1. Pending(cur', script', c) = <<>> /\ chan'[c] = chan[c]
      BY <1>1, <1>11, Zenon
    <3> QED
      BY <1>9, <3>1, Zenon
  <2>3. \A c \in ConnIds : c = cur' => BaseFirst(chan'[c], Pending(cur', script', c))
    BY <1>1, <1>10, <1>11, Zenon
  <2>4. ~(vring'[TX].desc # 0 \/ (last' # <<>> /\ Addr(last'[1])))
    BY <1>1, <1>4, <1>7, Zenon
  <2> QED
    BY <2>1, <2>2, <2>3, <2>4, Zenon DEF Queues
<1> QED
  BY <1>1, <1>5, <1>8, <1>12, Zenon DEF OneStart

(* It holds at first.                                                      *)
LEMMA InitOnce == ASSUME Init PROVE OnceInv
<1>1. 0 \in 0..MaxConns /\ 0 \notin ConnIds
  BY ChannelAssumption DEF ConnIds
<1>2. \A c \in ConnIds : chan[c] = <<>> /\ Pending(cur, script, c) = <<>> /\ processed[c] = 0
  BY Zenon DEF Init, Pending
<1>3. Items(<<>>, <<>>) = {}
  BY DEF Items
<1>4. TX \in Rings
  BY Zenon DEF Rings
<1>5. memory = 0 /\ vring[TX].desc = 0 /\ vring[TX].last_avail_idx = 0
  BY <1>4, Zenon DEF Init
<1>6. ~started /\ last = <<>> /\ starts = 0 /\ last_avail_idx = 0
  BY Zenon DEF Init
<1>7. Queues(0)
  BY <1>1, <1>2, <1>3, <1>6, Zenon DEF Queues, NoStart
<1>8. LastOnce(0)
  BY <1>6, Zenon DEF LastOnce
<1>9. RingOnce(0)
  BY <1>1, <1>2, <1>5, Zenon DEF RingOnce
<1> QED
  BY <1>1, <1>6, <1>7, <1>8, <1>9, Zenon DEF OnceInv, OneStart

(* Every step keeps it.                                                    *)
LEMMA OnceStep ==
    ASSUME ControlInv, ControlInv', OwnInv, OnceInv, [Next]_vars
    PROVE  OnceInv'
<1>1. last_avail_idx' = 0
  BY Zenon DEF OnceInv, Next, vars, qemu, Connect, Close, SendFds, DevStart, DevStop, SendOne,
     GuestPublish, Receive, ReceiveTorn, ReceiveEof, PollAvailVring
<1>2. started' => cur' \in ConnIds /\ cur' \notin ended'
  <2>1. CASE started' = started /\ cur' = cur /\ ended' = ended
    BY <2>1, Zenon DEF OnceInv
  <2>2. CASE DevStart
    <3>1. cur' \in ConnIds
      BY <2>2, Begins, Zenon
    <3> QED
      BY <2>2, <3>1, Zenon DEF DevStart, Idle
  <2>3. CASE Close \/ DevStop
    BY <2>3, Zenon DEF Close, DevStop
  <2>4. CASE Connect
    <3>1. 0 \notin ConnIds
      BY DEF ConnIds
    <3>2. ~started
      BY <2>4, <3>1, Zenon DEF Connect, OnceInv
    <3> QED
      BY <2>4, <3>2, Zenon DEF Connect
  <2> QED
    BY <2>1, <2>2, <2>3, <2>4, Zenon DEF Next, vars, qemu, SendFds, SendOne,
       GuestPublish, Receive, ReceiveTorn, ReceiveEof, PollAvailVring
<1>3. ASSUME starts' <= 1 PROVE \E d \in 0..MaxConns : OneStart(d)'
  <2>1. starts <= 1
    <3>1. starts' = starts \/ starts' = starts + 1
      BY Zenon DEF Next, vars, qemu, Connect, Close, SendFds, DevStart, DevStop, SendOne,
         GuestPublish, Receive, ReceiveTorn, ReceiveEof, PollAvailVring
    <3>2. starts \in Nat
      BY DEF ControlInv, TypeOK
    <3> QED
      BY <1>3, <3>1, <3>2
  <2>2. PICK d \in 0..MaxConns : OneStart(d)
    BY <2>1, Zenon DEF OnceInv
  <2>3. CASE DevStart
    <3>1. cur \in ConnIds /\ OneStart(cur)'
      BY <1>3, <2>2, <2>3, StartOnce, Zenon DEF OnceInv
    <3>2. cur \in 0..MaxConns
      BY Zenon DEF ControlInv, TypeOK
    <3>3. cur' = cur
      BY <2>3, Zenon DEF DevStart
    <3> QED
      BY <3>1, <3>2, <3>3, Zenon
  <2>4. CASE Connect \/ DevStop \/ SendOne
    BY <2>2, <2>4, BeginOnce, Zenon DEF OnceInv
  <2>5. CASE SendFds \/ Close \/ UNCHANGED vars \/ \E c \in ConnIds : ReceiveTorn(c)
    BY <2>2, <2>5, QemuOnce, Zenon
  <2>6. CASE GuestPublish
    <3>1. cur \in ConnIds
      BY <2>6, Zenon DEF GuestPublish, OnceInv
    <3> QED
      BY <2>2, <2>6, <3>1, PublishOnce, Zenon
  <2>7. CASE PollAvailVring
    BY <2>2, <2>7, PollOnce, Zenon
  <2>8. CASE \E c \in ConnIds : Receive(c) \/ ReceiveEof(c)
    BY <2>2, <2>8, ReceiveOnce, EofOnce, Zenon
  <2> QED
    BY <2>3, <2>4, <2>5, <2>6, <2>7, <2>8, Zenon DEF Next
<1> QED
  BY <1>1, <1>2, <1>3, Zenon DEF OnceInv

(* What is pending belongs to its connection, and the only start's         *)
(* configuration is the transmit ring's, in every run.                     *)
THEOREM OnceCorrect == Spec => [](ControlInv /\ OwnInv /\ OnceInv)
<1>1. Init => ControlInv /\ OwnInv /\ OnceInv
  BY InitControl, InitOwn, InitOnce, Zenon
<1>2. ControlInv /\ OwnInv /\ OnceInv /\ [Next]_vars => (ControlInv /\ OwnInv /\ OnceInv)'
  BY ControlStep, OwnStep, OnceStep, Zenon
<1> QED
  BY <1>1, <1>2, PTL DEF Spec

(* Until the device is started a second time process_avail_vring takes     *)
(* every transmit buffer at most once, however reads coalesce messages,    *)
(* however often QEMU reconnects and whatever is handled at the end of a   *)
(* stream.                                                                 *)
THEOREM BuffersProcessedOnce == Spec => []ProcessedOnce
<1>1. ControlInv /\ OnceInv => ProcessedOnce
  <2> SUFFICES ASSUME ControlInv, OnceInv, starts <= 1, NEW c \in ConnIds
               PROVE  processed[c] <= avail[c]
    BY Zenon DEF ProcessedOnce
  <2>1. PICK d \in 0..MaxConns : OneStart(d)
    BY Zenon DEF OnceInv
  <2>2. processed[c] = 0 \/ processed[c] <= avail[c]
    BY <2>1, Zenon DEF OneStart, RingOnce
  <2>3. avail[c] \in 0..MaxAvail
    BY Zenon DEF ControlInv, TypeOK
  <2> QED
    BY <2>2, <2>3
<1> QED
  BY <1>1, OnceCorrect, PTL

-----------------------------------------------------------------------------
(* A configuration that is read message by message arrives.                *)

\* A request about one of the rings I is pending; of an ADDR the memory comes first.
Waits(ch, pn, r, I) == \E k \in Items(ch, pn) : At(ch, pn, k).req = r /\ At(ch, pn, k).ring \in I
MemFirst(ch, pn) ==
    \A p \in Items(ch, pn) : At(ch, pn, p).req = "SET_VRING_ADDR" =>
        \E q \in Items(ch, pn) : q < p /\ At(ch, pn, q).req = "SET_MEM_TABLE"

\* All that vhost_dev_start sends about the memory and the rings is pending.
StartWaits(ch, pn) ==
    /\ Waits(ch, pn, "SET_MEM_TABLE", Rings)
    /\ \A i \in Rings : /\ Waits(ch, pn, "SET_VRING_NUM", {i})
                        /\ Waits(ch, pn, "SET_VRING_ADDR", {i})
                        /\ Waits(ch, pn, "SET_VRING_KICK", {i})

\* QEMU is connected.
Live == cur # 0 /\ cur \notin ended

ChannelInv ==
    /\ \A c \in ConnIds : c > cur => chan[c] = <<>>
    /\ last # <<>> => last[1].conn <= cur
    /\ started => Live

\* Before the server has heard QEMU, all it sent is pending.
UnheardInv ==
    Live /\ ~Heard => /\ MemFirst(chan[cur], script)
                      /\ started => StartWaits(chan[cur], script)
                      /\ \A i \in Rings : Waits(chan[cur], script, "SET_VRING_CALL", {i})

\* What QEMU configured is as it says, or will be.
LastOwn == Live /\ Heard => Own(last[1], cur)
CallInv == Live => \A i \in Rings :
    vring[i].callfd.conn = cur \/ Waits(chan[cur], script, "SET_VRING_CALL", {i})
MemoryInv == Live =>
    /\ memory = cur \/ MemFirst(chan[cur], script)
    /\ Heard /\ last[1].req = "SET_VRING_ADDR" => memory = cur
StartInv == started =>
    /\ memory = cur \/ Waits(chan[cur], script, "SET_MEM_TABLE", Rings)
    /\ \A i \in Rings :
         /\ vring[i].num = QueueSize \/ Waits(chan[cur], script, "SET_VRING_NUM", {i})
         /\ vring[i].desc = cur \/ Waits(chan[cur], script, "SET_VRING_ADDR", {i})
         /\ vring[i].kickfd = FdOf("kick", i, cur) \/ Waits(chan[cur], script, "SET_VRING_KICK", {i})

Arrives == UnheardInv /\ LastOwn /\ CallInv /\ MemoryInv /\ StartInv
ConfInv == ChannelInv /\ (kept => Arrives)

(* A handler leaves what its request does not name, and sets what it does. *)
LEMMA HandlerSets ==
    ASSUME TypeOK, NEW m \in MsgSet, NEW nfds, NEW behind, InMsgServer(m, nfds, behind)
    PROVE  /\ m.req = "SET_MEM_TABLE" /\ m.fd # NoFd =>
                memory' = (IF nfds = 0 THEN memory ELSE m.conn)
           /\ \A i \in Rings :
                /\ vring'[i].desc = vring[i].desc \/ (m.req = "SET_VRING_ADDR" /\ vring'[i].desc = memory)
                /\ Is(m, "SET_VRING_ADDR", i) /\ memory = m.conn => vring'[i].desc = memory
                /\ Is(m, "SET_VRING_KICK", i) /\ nfds = 1 => vring'[i].kickfd = m.fd
                /\ Is(m, "SET_VRING_CALL", i) => vring'[i].callfd = m.fd
<1>1. m.ring \in Rings /\ vring \in [Rings -> VringSet]
  BY Zenon DEF MsgSet, TypeOK
<1>2. vring[m.ring] \in VringSet
  BY <1>1, Zenon
<1>3. m.req = "SET_MEM_TABLE" /\ m.fd # NoFd => memory' = (IF nfds = 0 THEN memory ELSE m.conn)
  BY Zenon DEF InMsgServer, _set_mem_table, Fail
<1>4. ASSUME NEW i \in Rings, Is(m, "SET_VRING_KICK", i), nfds = 1
      PROVE  vring'[i].kickfd = m.fd
  <2>1. SetRing(m.ring, [vring[m.ring] EXCEPT !.kickfd = m.fd])
    BY <1>4, Zenon DEF InMsgServer, _set_vring_kick, Is
  <2> QED
    BY <1>1, <1>2, <1>4, <2>1, Zenon DEF SetRing, VringSet, Is
<1>5. ASSUME NEW i \in Rings, Is(m, "SET_VRING_CALL", i)
      PROVE  vring'[i].callfd = m.fd
  <2>1. SetRing(m.ring, [vring[m.ring] EXCEPT !.callfd = m.fd])
    BY <1>5, Zenon DEF InMsgServer, _set_vring_call, Is
  <2> QED
    BY <1>1, <1>2, <1>5, <2>1, Zenon DEF SetRing, VringSet, Is
<1>6. ASSUME NEW i \in Rings, Is(m, "SET_VRING_ADDR", i), memory = m.conn
      PROVE  vring'[i].desc = memory
  <2>1. SetRing(m.ring, [vring[m.ring] EXCEPT !.desc = memory])
    BY <1>6, Zenon DEF InMsgServer, _set_vring_addr, Is
  <2> QED
    BY <1>1, <1>2, <1>6, <2>1, Zenon DEF SetRing, VringSet, Is
<1>7. ASSUME m.req = "SET_VRING_ADDR", NEW i \in Rings
      PROVE  vring'[i].desc = vring[i].desc \/ vring'[i].desc = memory
  <2>1. CASE Fail("crash")
    BY <2>1, Zenon DEF Fail
  <2>2. CASE SetRing(m.ring, [vring[m.ring] EXCEPT !.desc = memory])
    BY <1>1, <1>2, <1>7, <2>2, Zenon DEF SetRing, VringSet
  <2> QED
    BY <1>7, <2>1, <2>2, Zenon DEF InMsgServer, _set_vring_addr
<1>8. ASSUME m.req # "SET_VRING_ADDR", NEW i \in Rings
      PROVE  vring'[i].desc = vring[i].desc
  <2>1. CASE vring' = vring
    BY <2>1, Zenon
  <2>2. CASE m.req = "SET_VRING_NUM" /\ _set_vring_num(m)
    BY <1>1, <1>2, <2>2, Zenon DEF _set_vring_num, SetRing, VringSet
  <2>3. CASE m.req = "SET_VRING_BASE" /\ _set_vring_base(m)
    BY <1>1, <1>2, <2>3, Zenon DEF _set_vring_base, SetRing, VringSet
  <2>4. CASE SetRing(m.ring, [vring[m.ring] EXCEPT !.kickfd = m.fd])
    BY <1>1, <1>2, <2>4, Zenon DEF SetRing, VringSet
  <2>5. CASE m.req = "SET_VRING_CALL" /\ _set_vring_call(m)
    BY <1>1, <1>2, <2>5, Zenon DEF _set_vring_call, SetRing, VringSet
  <2> QED
    BY <1>8, <2>1, <2>2, <2>3, <2>4, <2>5, Zenon
       DEF InMsgServer, _set_mem_table, _set_vring_kick, _get_vring_base, Fail
<1> QED
  BY <1>3, <1>4, <1>5, <1>6, <1>7, <1>8, Zenon

(* A read that returns one message handles it and takes nothing else.      *)
LEMMA ReadOne ==
    ASSUME ControlInv, NEW c \in ConnIds, Receive(c), Taken(c) = 1
    PROVE  LET m == chan[c][1]
           IN /\ chan[c] # <<>> /\ m \in MsgSet /\ WellFormed(m)
              /\ InMsgServer(m, IF m.fd = NoFd THEN 0 ELSE 1, FALSE)
              /\ last' = <<m>> /\ chan' = [chan EXCEPT ![c] = SubSeq(chan[c], 2, Len(chan[c]))]
              /\ UNCHANGED <<qemu, ended, eofs, processed>>
<1> DEFINE ch == chan[c]
           n == Taken(c)
           m == [Head(ch) EXCEPT !.fd = ch[n].fd]
<1>1. /\ ch # <<>> /\ ch \in Seq(MsgSet)
      /\ InMsgServer(m, IF m.fd = NoFd THEN 0 ELSE 1, n > 1)
      /\ last' = <<m>> /\ chan' = [chan EXCEPT ![c] = SubSeq(ch, n + 1, Len(ch))]
      /\ UNCHANGED <<qemu, ended, eofs, processed>>
  BY Zenon DEF Receive, ControlInv, TypeOK
<1>2. n \in 1..Len(ch)
  BY <1>1, TakenFacts, Zenon DEF ControlInv
<1>3. WellFormed(m)
  BY <1>1, ReadMessage, Zenon
<1>4. n = 1
  OBVIOUS
<1> HIDE DEF ch, n
<1>5. ch[1] \in MsgSet /\ Head(ch) = ch[1]
  BY <1>1
<1>6. m = ch[1]
  <2> DEFINE r == ch[1]
  <2>1. r \in MsgSet
    BY <1>5
  <2> HIDE DEF r
  <2>2. [r EXCEPT !.fd = r.fd] = r
    BY <2>1 DEF MsgSet
  <2> QED
    BY <1>4, <1>5, <2>2, Zenon DEF r
<1>7. SubSeq(ch, n + 1, Len(ch)) = SubSeq(ch, 2, Len(ch)) /\ (n > 1) = FALSE
  BY <1>4
<1> HIDE DEF m
<1>8. InMsgServer(ch[1], IF ch[1].fd = NoFd THEN 0 ELSE 1, FALSE)
  BY <1>1, <1>6, <1>7, Zenon
<1> QED
  BY <1>1, <1>3, <1>5, <1>6, <1>7, <1>8, Zenon DEF ch

(* What the others wait for is still to come.                              *)
LEMMA RestWaits ==
    ASSUME NEW ch \in Seq(MsgSet), NEW pn \in Seq(MsgSet), ch # <<>>,
           NEW ch2, ch2 = SubSeq(ch, 2, Len(ch))
    PROVE  /\ \A r, I : Waits(ch, pn, r, I) =>
                (ch[1].req = r /\ ch[1].ring \in I) \/ Waits(ch2, pn, r, I)
           /\ MemFirst(ch, pn) => ch[1].req = "SET_MEM_TABLE" \/ MemFirst(ch2, pn)
           /\ MemFirst(ch, pn) => ch[1].req # "SET_VRING_ADDR"
<1>0. Len(ch) \in Nat /\ Len(pn) \in Nat /\ 1 \in 1..Len(ch) /\ 1 + 1 = 2
  OBVIOUS
<1>1. /\ Len(ch2) = Len(ch) - 1
      /\ \A k \in Items(ch2, pn) : k + 1 \in Items(ch, pn) /\ At(ch2, pn, k) = At(ch, pn, k + 1)
  <2> DEFINE d == SubSeq(ch, 1 + 1, Len(ch))
  <2>1. d = ch2
    BY <1>0
  <2>2. /\ Len(d) = Len(ch) - 1
        /\ \A k \in Items(d, pn) : k + 1 \in Items(ch, pn) /\ At(d, pn, k) = At(ch, pn, k + 1)
    BY <1>0, AfterRead, ZenonT(60)
  <2> HIDE DEF d
  <2> QED
    BY <2>1, <2>2
<1>2. 1 \in Items(ch, pn) /\ At(ch, pn, 1) = ch[1] /\ \A k \in Items(ch, pn) : ~(k < 1)
  BY <1>0 DEF At, Items
<1>3. \A k \in Items(ch, pn) : k # 1 => k - 1 \in Items(ch2, pn) /\ At(ch2, pn, k - 1) = At(ch, pn, k)
  <2> SUFFICES ASSUME NEW k \in Items(ch, pn), k # 1
               PROVE  k - 1 \in Items(ch2, pn) /\ At(ch2, pn, k - 1) = At(ch, pn, k)
    OBVIOUS
  <2>1. k - 1 \in Items(ch2, pn) /\ (k - 1) + 1 = k
    BY <1>0, <1>1, SMT DEF Items
  <2> QED
    BY <1>1, <2>1
<1>5. \A p \in Items(ch2, pn), q \in Items(ch, pn) : q < p + 1 /\ q # 1 => q - 1 < p
  BY <1>0, <1>1 DEF Items
<1>6. \A r, I : Waits(ch, pn, r, I) =>
         (ch[1].req = r /\ ch[1].ring \in I) \/ Waits(ch2, pn, r, I)
  BY <1>2, <1>3, Zenon DEF Waits
<1>8. MemFirst(ch, pn) => ch[1].req # "SET_VRING_ADDR"
  BY <1>2, Zenon DEF MemFirst
<1>9. ASSUME MemFirst(ch, pn), ch[1].req # "SET_MEM_TABLE",
             NEW p \in Items(ch2, pn), At(ch2, pn, p).req = "SET_VRING_ADDR"
      PROVE  \E q \in Items(ch2, pn) : q < p /\ At(ch2, pn, q).req = "SET_MEM_TABLE"
  <2>1. PICK q \in Items(ch, pn) : q < p + 1 /\ At(ch, pn, q).req = "SET_MEM_TABLE"
    BY <1>1, <1>9, Zenon DEF MemFirst
  <2>2. q # 1
    BY <1>2, <1>9, <2>1, Zenon
  <2> QED
    BY <1>3, <1>5, <2>1, <2>2, Zenon
<1> QED
  BY <1>6, <1>8, <1>9, Zenon DEF MemFirst

(* The first message of a channel is the connection's own.                 *)
LEMMA FirstOwn ==
    ASSUME ControlInv, OwnInv, NEW c \in ConnIds, chan[c] # <<>>
    PROVE  Own(chan[c][1], c)
<1>1. chan[c] \in Seq(MsgSet) /\ script \in Seq(MsgSet)
  BY Zenon DEF ControlInv, TypeOK
<1>2. Len(Pending(cur, script, c)) \in Nat
  BY <1>1 DEF Pending
<1>3. /\ 1 \in Items(chan[c], Pending(cur, script, c))
      /\ At(chan[c], Pending(cur, script, c), 1) = chan[c][1]
  BY <1>1, <1>2 DEF Items, At
<1> QED
  BY <1>3, Zenon DEF OwnInv, OwnMsgs

(* Reading leaves the channels as they should be.                          *)
LEMMA ReceiveChannels ==
    ASSUME ControlInv, OwnInv, ChannelInv, NEW c \in ConnIds, Receive(c)
    PROVE  /\ ChannelInv' /\ Live' = Live /\ last' # <<>> /\ last'[1].conn = c
           /\ UNCHANGED <<cur, started, script, ended>>
           /\ \A d \in ConnIds : d # c => chan'[d] = chan[d]
<1> DEFINE n == Taken(c)
           m == [Head(chan[c]) EXCEPT !.fd = chan[c][n].fd]
<1>1. /\ chan[c] # <<>> /\ last' = <<m>>
      /\ chan' = [chan EXCEPT ![c] = SubSeq(chan[c], n + 1, Len(chan[c]))]
      /\ UNCHANGED <<cur, started, script, ended>>
  BY Zenon DEF Receive, qemu
<1>2. m.conn = chan[c][1].conn
  BY <1>1, ReadMessage, Zenon
<1>3. chan[c][1].conn = c
  BY <1>1, FirstOwn, Zenon DEF Own
<1> HIDE DEF m, n
<1>4. last' # <<>> /\ last'[1].conn = c
  <2>1. <<m>> # <<>> /\ <<m>>[1] = m
    OBVIOUS
  <2> QED
    BY <1>1, <1>2, <1>3, <2>1, Zenon
<1>5. cur \in Int /\ \A d \in ConnIds : d \in Int
  BY DEF ControlInv, TypeOK, ConnIds
<1>6. c <= cur
  <2>1. ~(c > cur)
    BY <1>1, Zenon DEF ChannelInv
  <2> QED
    BY <1>5, <2>1
<1>7. \A d \in ConnIds : d # c => chan'[d] = chan[d]
  BY <1>1, Zenon DEF ControlInv, TypeOK
<1>8. ~(c > cur)
  BY <1>5, <1>6
<1>9. \A d \in ConnIds : d > cur' => chan'[d] = <<>>
  BY <1>1, <1>7, <1>8, Zenon DEF ChannelInv
<1>10. Live' = Live
  BY <1>1, Zenon DEF Live
<1> QED
  BY <1>1, <1>4, <1>6, <1>7, <1>9, <1>10, Zenon DEF ChannelInv

(* What an earlier QEMU left is read before this one is heard.             *)
LEMMA OtherReads ==
    ASSUME ControlInv, OwnInv, ConfInv, NEW c \in ConnIds, Receive(c), c # cur, kept'
    PROVE  Arrives'
<1>1. /\ ChannelInv' /\ Live' = Live /\ last' # <<>> /\ last'[1].conn = c
      /\ UNCHANGED <<cur, started, script, ended>>
      /\ \A d \in ConnIds : d # c => chan'[d] = chan[d]
  BY ReceiveChannels, Zenon DEF ConfInv
<1>2. kept /\ ~Heard
  BY Zenon DEF Receive
<1>3. Live => /\ MemFirst(chan[cur], script)
              /\ started => StartWaits(chan[cur], script)
              /\ \A i \in Rings : Waits(chan[cur], script, "SET_VRING_CALL", {i})
  BY <1>2, Zenon DEF ConfInv, Arrives, UnheardInv
<1>4. Live => cur \in ConnIds
  BY DEF Live, ControlInv, TypeOK, ConnIds
<1>5. Live => chan'[cur'] = chan[cur] /\ script' = script
  BY <1>1, <1>4, Zenon
<1>6. ~Heard'
  BY <1>1, Zenon DEF Heard
<1>7. started => Live
  BY Zenon DEF ConfInv, ChannelInv
<1>8. UnheardInv' /\ CallInv'
  BY <1>1, <1>3, <1>5, Zenon DEF UnheardInv, CallInv
<1>9. MemoryInv' /\ LastOwn'
  BY <1>1, <1>3, <1>5, <1>6, Zenon DEF MemoryInv, LastOwn
<1>10. StartInv'
  BY <1>1, <1>3, <1>5, <1>7, Zenon DEF StartInv, StartWaits
<1> QED
  BY <1>8, <1>9, <1>10, Zenon DEF Arrives

(* What this QEMU sent is handled as it asks.                              *)
LEMMA OwnReads ==
    ASSUME ControlInv, OwnInv, ConfInv, cur \in ConnIds, Receive(cur), Live, kept'
    PROVE  LastOwn' /\ CallInv' /\ MemoryInv' /\ StartInv'
<1> DEFINE ch == chan[cur]
           rest == SubSeq(ch, 2, Len(ch))
           m == ch[1]
           nfds == IF m.fd = NoFd THEN 0 ELSE 1
<1>0. Arrives /\ Taken(cur) = 1
  BY Zenon DEF Receive, ConfInv
<1>2. /\ ch # <<>> /\ m \in MsgSet /\ WellFormed(m) /\ InMsgServer(m, nfds, FALSE)
      /\ chan' = [chan EXCEPT ![cur] = rest] /\ last' = <<m>>
      /\ UNCHANGED <<cur, started, script, ended>>
  BY <1>0, ReadOne, Zenon DEF qemu
<1>3. Own(m, cur)
  BY <1>2, FirstOwn, ZenonT(60)
<1>1. /\ last' # <<>> /\ last'[1] = m /\ m.conn = cur
  BY <1>2, <1>3 DEF Own
<1>4. chan \in [ConnIds -> Seq(MsgSet)] /\ ch \in Seq(MsgSet) /\ script \in Seq(MsgSet)
  BY Zenon DEF ControlInv, TypeOK
<1>5. chan'[cur'] = rest /\ script' = script
  BY <1>2, <1>4, Zenon
<1> HIDE DEF ch
<1>6. /\ \A r, I : Waits(ch, script, r, I) =>
           (m.req = r /\ m.ring \in I) \/ Waits(rest, script, r, I)
      /\ MemFirst(ch, script) => m.req = "SET_MEM_TABLE" \/ MemFirst(rest, script)
      /\ MemFirst(ch, script) => m.req # "SET_VRING_ADDR"
  BY <1>2, <1>4, RestWaits, Zenon
<1> HIDE DEF m, nfds, rest
<1>7. \A i \in Rings :
         /\ vring'[i].num = vring[i].num \/ vring'[i].num = QueueSize
         /\ IsNum(m, i) => vring'[i].num = QueueSize
         /\ vring'[i].kickfd = vring[i].kickfd
              \/ (m.req = "SET_VRING_KICK" /\ m.ring = i /\ vring'[i].kickfd = m.fd)
         /\ vring'[i].callfd = vring[i].callfd
              \/ (m.req = "SET_VRING_CALL" /\ m.ring = i /\ vring'[i].callfd = m.fd)
  BY <1>2, HandlerFacts, Zenon DEF ControlInv
<1>8. /\ m.req = "SET_MEM_TABLE" /\ m.fd # NoFd =>
           memory' = (IF nfds = 0 THEN memory ELSE m.conn)
      /\ \A i \in Rings :
           /\ vring'[i].desc = vring[i].desc \/ (m.req = "SET_VRING_ADDR" /\ vring'[i].desc = memory)
           /\ Is(m, "SET_VRING_ADDR", i) /\ memory = m.conn => vring'[i].desc = memory
           /\ Is(m, "SET_VRING_KICK", i) /\ nfds = 1 => vring'[i].kickfd = m.fd
           /\ Is(m, "SET_VRING_CALL", i) => vring'[i].callfd = m.fd
  BY <1>2, HandlerSets, Zenon DEF ControlInv
<1>9. memory' = memory \/ m.req = "SET_MEM_TABLE"
  BY <1>2, HandlerOnce, Zenon DEF ControlInv
<1>10. m.fd # NoFd => nfds = 1 /\ nfds # 0
  BY DEF nfds
<1>11. /\ m.req = "SET_VRING_KICK" => m.fd = FdOf("kick", m.ring, cur) /\ m.fd # NoFd
       /\ m.req = "SET_VRING_CALL" => m.fd.conn = cur
       /\ m.req = "SET_MEM_TABLE" => m.fd # NoFd
  <2>1. \A i : FdOf("kick", i, cur) # NoFd
    BY Zenon DEF FdOf, NoFd
  <2> QED
    BY <1>3, <2>1, Zenon DEF Own
<1>12. ASSUME NEW i \in Rings PROVE \A r : m.req = r /\ m.ring \in {i} => Is(m, r, i)
  BY Zenon DEF Is
<1>13. memory = cur \/ m.req = "SET_MEM_TABLE" => memory' = cur
  BY <1>1, <1>8, <1>9, <1>10, <1>11, Zenon
<1>14. m.req = "SET_VRING_ADDR" => memory = cur
  BY <1>0, <1>6, Zenon DEF Arrives, MemoryInv, ch
<1>15. ASSUME NEW i \in Rings
       PROVE  vring'[i].callfd.conn = cur \/ Waits(rest, script, "SET_VRING_CALL", {i})
  <2>1. vring[i].callfd.conn = cur \/ Waits(ch, script, "SET_VRING_CALL", {i})
    BY <1>0, Zenon DEF Arrives, CallInv, ch
  <2>2. vring[i].callfd.conn = cur => vring'[i].callfd.conn = cur
    BY <1>7, <1>11, Zenon
  <2>3. Is(m, "SET_VRING_CALL", i) => vring'[i].callfd.conn = cur
    BY <1>8, <1>11, Zenon DEF Is
  <2> QED
    BY <1>6, <1>12, <2>1, <2>2, <2>3, Zenon
<1>16. CallInv'
  BY <1>2, <1>5, <1>15, Zenon DEF CallInv
<1>17. memory' = cur \/ MemFirst(rest, script)
  BY <1>0, <1>6, <1>13, Zenon DEF Arrives, MemoryInv, ch
<1>18. MemoryInv'
  BY <1>1, <1>2, <1>5, <1>13, <1>14, <1>17, Zenon DEF MemoryInv
<1>19. ASSUME started PROVE memory' = cur \/ Waits(rest, script, "SET_MEM_TABLE", Rings)
  BY <1>0, <1>6, <1>13, <1>19, ZenonT(60) DEF Arrives, StartInv, ch
<1>20. ASSUME started, NEW i \in Rings
       PROVE  /\ vring'[i].num = QueueSize \/ Waits(rest, script, "SET_VRING_NUM", {i})
              /\ vring'[i].desc = cur \/ Waits(rest, script, "SET_VRING_ADDR", {i})
              /\ \/ vring'[i].kickfd = FdOf("kick", i, cur)
                 \/ Waits(rest, script, "SET_VRING_KICK", {i})
  <2>1. /\ vring[i].num = QueueSize \/ Waits(ch, script, "SET_VRING_NUM", {i})
        /\ vring[i].desc = cur \/ Waits(ch, script, "SET_VRING_ADDR", {i})
        /\ vring[i].kickfd = FdOf("kick", i, cur) \/ Waits(ch, script, "SET_VRING_KICK", {i})
    BY <1>0, <1>20, Zenon DEF Arrives, StartInv, ch
  <2>2. vring'[i].num = QueueSize \/ Waits(rest, script, "SET_VRING_NUM", {i})
    BY <1>6, <1>7, <1>12, <2>1, Zenon DEF Is, IsNum
  <2>3. vring'[i].desc = cur \/ Waits(rest, script, "SET_VRING_ADDR", {i})
    <3>1. vring[i].desc = cur => vring'[i].desc = cur
      BY <1>8, <1>14, Zenon
    <3>2. Is(m, "SET_VRING_ADDR", i) => vring'[i].desc = cur
      BY <1>1, <1>8, <1>14, Zenon DEF Is
    <3> QED
      BY <1>6, <1>12, <2>1, <3>1, <3>2, Zenon
  <2>4. \/ vring'[i].kickfd = FdOf("kick", i, cur)
        \/ Waits(rest, script, "SET_VRING_KICK", {i})
    <3>1. vring[i].kickfd = FdOf("kick", i, cur) => vring'[i].kickfd = FdOf("kick", i, cur)
      BY <1>7, <1>11, Zenon
    <3>2. Is(m, "SET_VRING_KICK", i) => vring'[i].kickfd = FdOf("kick", i, cur)
      BY <1>8, <1>10, <1>11, Zenon DEF Is
    <3> QED
      BY <1>6, <1>12, <2>1, <3>1, <3>2, Zenon
  <2> QED
    BY <2>2, <2>3, <2>4, Zenon
<1>21. StartInv'
  BY <1>2, <1>5, <1>19, <1>20, Zenon DEF StartInv
<1>22. LastOwn'
  BY <1>1, <1>2, <1>3, Zenon DEF LastOwn
<1> QED
  BY <1>16, <1>18, <1>21, <1>22, Zenon

(* vhost_user_receive.                                                     *)
LEMMA ReceiveConf ==
    ASSUME ControlInv, OwnInv, ConfInv, NEW c \in ConnIds, Receive(c)
    PROVE  ConfInv'
<1>1. /\ ChannelInv' /\ Live' = Live /\ last' # <<>> /\ last'[1].conn = c
      /\ UNCHANGED <<cur, started>>
  BY ReceiveChannels, Zenon DEF ConfInv
<1>2. ASSUME kept', c = cur PROVE Arrives'
  <2>1. UnheardInv'
    BY <1>1, <1>2, Zenon DEF UnheardInv, Heard
  <2>2. CASE Live
    BY <1>2, <2>1, <2>2, OwnReads, Zenon DEF Arrives
  <2>3. CASE ~Live
    <3>1. ~started' /\ ~Live'
      BY <1>1, <2>3, Zenon DEF ConfInv, ChannelInv
    <3> QED
      BY <2>1, <3>1, Zenon DEF Arrives, LastOwn, CallInv, MemoryInv, StartInv
  <2> QED
    BY <2>2, <2>3, Zenon
<1> QED
  BY <1>1, <1>2, OtherReads, Zenon DEF ConfInv

(* What is handled again at the end of a stream was handled before.        *)
LEMMA EofConf ==
    ASSUME ControlInv, ConfInv, NEW c \in ConnIds, ReceiveEof(c)
    PROVE  ConfInv'
<1>1. UNCHANGED <<cur, started, script, chan, ended, last, kept>>
  BY Zenon DEF ReceiveEof, qemu
<1>2. ChannelInv' /\ Live' = Live /\ Heard' = Heard
  BY <1>1, Zenon DEF ConfInv, ChannelInv, Live, Heard
<1> SUFFICES ASSUME kept PROVE Arrives'
  BY <1>1, <1>2, Zenon DEF ConfInv
<1>3. Arrives /\ UnheardInv' /\ LastOwn'
  BY <1>1, <1>2, Zenon DEF ConfInv, Arrives, UnheardInv, LastOwn
<1>4. CASE UNCHANGED <<memory, vring>>
  BY <1>1, <1>2, <1>3, <1>4, Zenon DEF Arrives, CallInv, MemoryInv, StartInv
<1>5. CASE last # <<>> /\ InMsgServer(last[1], 0, FALSE)
  <2>1. CASE ~Live
    <3>1. ~started' /\ ~Live'
      BY <1>1, <1>2, <2>1, Zenon DEF ConfInv, ChannelInv
    <3> QED
      BY <1>3, <3>1, Zenon DEF Arrives, CallInv, MemoryInv, StartInv
  <2>2. CASE Live /\ ~Heard
    <3>1. /\ MemFirst(chan[cur], script)
          /\ started => StartWaits(chan[cur], script)
          /\ \A i \in Rings : Waits(chan[cur], script, "SET_VRING_CALL", {i})
      BY <1>3, <2>2, Zenon DEF Arrives, UnheardInv
    <3>2. CallInv' /\ StartInv'
      BY <1>1, <3>1, Zenon DEF CallInv, StartInv, StartWaits
    <3>3. MemoryInv'
      BY <1>1, <1>2, <2>2, <3>1, Zenon DEF MemoryInv
    <3> QED
      BY <1>3, <3>2, <3>3, Zenon DEF Arrives
  <2>3. CASE Live /\ Heard
    <3> DEFINE m == last[1]
    <3>1. last \in Seq(MsgSet) /\ WellFormed(m) /\ m.conn = cur /\ Own(m, cur)
      BY <1>3, <1>5, <2>3, Zenon DEF ControlInv, TypeOK, LastInv, Arrives, LastOwn, Heard
    <3>2. m \in MsgSet
      BY <1>5, <3>1
    <3>3. m.req = "SET_VRING_ADDR" => memory = cur
      BY <1>3, <2>3, Zenon DEF Arrives, MemoryInv
    <3> HIDE DEF m
    <3>4. InMsgServer(m, 0, FALSE)
      BY <1>5, Zenon DEF m
    <3>5. memory' = memory
      <4>1. m.req = "SET_MEM_TABLE" => memory' = memory
        <5>1. m.req = "SET_MEM_TABLE" => memory' = (IF 0 = 0 THEN memory ELSE m.conn)
          BY <3>1, <3>2, <3>4, HandlerSets, Zenon DEF ControlInv, Own
        <5> QED
          BY <5>1, Zenon
      <4> QED
        BY <3>2, <3>4, <4>1, HandlerOnce, Zenon DEF ControlInv
    <3>6. \A i \in Rings :
             /\ vring'[i].num = vring[i].num \/ vring'[i].num = QueueSize
             /\ vring'[i].kickfd = vring[i].kickfd
                  \/ (m.req = "SET_VRING_KICK" /\ m.ring = i /\ vring'[i].kickfd = m.fd)
             /\ vring'[i].callfd = vring[i].callfd
                  \/ (m.req = "SET_VRING_CALL" /\ m.ring = i /\ vring'[i].callfd = m.fd)
      BY <3>1, <3>2, <3>4, HandlerFacts, Zenon DEF ControlInv
    <3>7. \A i \in Rings :
             vring'[i].desc = vring[i].desc \/ (m.req = "SET_VRING_ADDR" /\ vring'[i].desc = memory)
      BY <3>2, <3>4, HandlerSets, Zenon DEF ControlInv
    <3>8. ASSUME NEW i \in Rings
          PROVE  /\ vring[i].num = QueueSize => vring'[i].num = QueueSize
                 /\ vring[i].desc = cur => vring'[i].desc = cur
                 /\ vring[i].kickfd = FdOf("kick", i, cur) => vring'[i].kickfd = FdOf("kick", i, cur)
                 /\ vring[i].callfd.conn = cur => vring'[i].callfd.conn = cur
      BY <3>1, <3>3, <3>6, <3>7, Zenon DEF Own
    <3>9. CallInv'
      BY <1>1, <1>2, <1>3, <3>8, Zenon DEF Arrives, CallInv
    <3>10. MemoryInv'
      BY <1>1, <1>2, <1>3, <3>5, Zenon DEF Arrives, MemoryInv
    <3>11. StartInv'
      BY <1>1, <1>3, <3>5, <3>8, Zenon DEF Arrives, StartInv
    <3> QED
      BY <1>3, <3>9, <3>10, <3>11, Zenon DEF Arrives
  <2> QED
    BY <2>1, <2>2, <2>3, Zenon
<1> QED
  BY <1>4, <1>5, Zenon DEF ReceiveEof, Fail

(* Steps that leave what is pending where it is in the queue, and the      *)
(* configuration.                                                          *)
LEMMA KeepConf ==
    ASSUME TypeOK, ConfInv, UNCHANGED <<cur, started, ended, last, memory, kept>>,
           \A i \in Rings : /\ vring'[i].num = vring[i].num /\ vring'[i].desc = vring[i].desc
                            /\ vring'[i].kickfd = vring[i].kickfd
                            /\ vring'[i].callfd = vring[i].callfd,
           Live => /\ Items(chan'[cur], script') = Items(chan[cur], script)
                   /\ \A k \in Items(chan[cur], script) :
                        At(chan'[cur], script', k) = At(chan[cur], script, k),
           \A c \in ConnIds : chan'[c] = chan[c] \/ c = cur
    PROVE  ConfInv'
<1>1. ~(cur > cur)
  <2>1. cur \in 0..MaxConns
    BY Zenon DEF TypeOK
  <2> QED
    BY <2>1
<1>2. Live' = Live /\ Heard' = Heard
  BY Zenon DEF Live, Heard
<1>3. Live => /\ \A r, I : Waits(chan[cur], script, r, I) => Waits(chan'[cur], script', r, I)
              /\ MemFirst(chan[cur], script) => MemFirst(chan'[cur], script')
  BY Zenon DEF Waits, MemFirst
<1>4. ChannelInv'
  BY <1>1, <1>2, Zenon DEF ConfInv, ChannelInv
<1> SUFFICES ASSUME kept PROVE Arrives'
  BY <1>4, Zenon DEF ConfInv
<1>5. Arrives
  BY Zenon DEF ConfInv
<1>6. UnheardInv'
  BY <1>2, <1>3, <1>5, Zenon DEF Arrives, UnheardInv, StartWaits
<1>7. MemoryInv' /\ CallInv' /\ LastOwn'
  BY <1>2, <1>3, <1>5, Zenon DEF Arrives, MemoryInv, CallInv, LastOwn
<1>8. StartInv'
  BY <1>2, <1>3, <1>5, Zenon DEF ConfInv, Arrives, ChannelInv, StartInv
<1> QED
  BY <1>6, <1>7, <1>8, ZenonT(60) DEF Arrives

(* vhost_user_send_fds.                                                    *)
LEMMA SendConf == ASSUME ControlInv, ConfInv, SendFds PROVE ConfInv'
<1>1. /\ script \in Seq(MsgSet) /\ script # <<>> /\ script' = Tail(script)
      /\ cur \in ConnIds
      /\ chan' = [chan EXCEPT ![cur] = Append(chan[cur], Head(script))]
      /\ chan \in [ConnIds -> Seq(MsgSet)]
      /\ UNCHANGED <<cur, started, ended, last, memory, vring, kept>>
  BY DEF SendFds, ControlInv, ScriptInv, TypeOK, ConnIds, server
<1>2. /\ chan'[cur] = Append(chan[cur], Head(script)) /\ chan[cur] \in Seq(MsgSet)
      /\ \A c \in ConnIds : c # cur => chan'[c] = chan[c]
  BY <1>1, Zenon
<1>3. LET ch2 == Append(chan[cur], Head(script))
          pn2 == Tail(script)
      IN /\ Items(ch2, pn2) = Items(chan[cur], script)
         /\ \A k \in Items(chan[cur], script) : At(ch2, pn2, k) = At(chan[cur], script, k)
  BY <1>1, <1>2, MoveOne, ZenonT(60)
<1>4. \A c \in ConnIds : chan'[c] = chan[c] \/ c = cur
  BY <1>2, Zenon
<1> QED
  BY <1>1, <1>2, <1>3, <1>4, KeepConf, ZenonT(60) DEF ControlInv

(* The guest, the poll handler, a read inside a message and nothing at     *)
(* all.                                                                    *)
LEMMA QuietConf ==
    ASSUME ControlInv, ConfInv,
           GuestPublish \/ PollAvailVring \/ UNCHANGED vars \/ \E c \in ConnIds : ReceiveTorn(c)
    PROVE  ConfInv'
<1>1. UNCHANGED <<cur, started, script, chan, ended, last, memory, kept>>
  BY Zenon DEF GuestPublish, PollAvailVring, ReceiveTorn, vars, qemu, server, SetRing, Fail
<1>2. ASSUME NEW i \in Rings
      PROVE  /\ vring'[i].num = vring[i].num /\ vring'[i].desc = vring[i].desc
             /\ vring'[i].kickfd = vring[i].kickfd /\ vring'[i].callfd = vring[i].callfd
  <2>1. CASE vring' = vring
    BY <2>1, Zenon
  <2>2. CASE SetRing(TX, [vring[TX] EXCEPT !.last_avail_idx = (@ + 1) % IndexMod])
    <3>1. vring \in [Rings -> VringSet] /\ TX \in Rings
      BY Zenon DEF ControlInv, TypeOK, Rings
    <3>2. vring[TX] \in VringSet
      BY <3>1, Zenon
    <3> QED
      BY <2>2, <3>1, <3>2, Zenon DEF SetRing, VringSet
  <2> QED
    BY <2>1, <2>2, Zenon DEF GuestPublish, PollAvailVring, ReceiveTorn, vars, server, Fail
<1> QED
  BY <1>1, <1>2, KeepConf, Zenon DEF ControlInv

(* QEMU goes away.                                                         *)
LEMMA CloseConf == ASSUME ConfInv, Close PROVE ConfInv'
<1>1. /\ ended' = ended \cup {cur} /\ ~started'
      /\ UNCHANGED <<cur, chan, last>>
  BY Zenon DEF Close, server
<1>2. ~Live'
  BY <1>1, Zenon DEF Live
<1>3. ChannelInv'
  BY <1>1, <1>2, Zenon DEF ConfInv, ChannelInv
<1> QED
  BY <1>1, <1>2, <1>3, Zenon DEF ConfInv, Arrives, UnheardInv, LastOwn, CallInv, MemoryInv, StartInv

(* A new script comes behind what is pending.                              *)
LEMMA MoreWaits ==
    ASSUME NEW ch \in Seq(MsgSet), NEW w \in Seq(MsgSet)
    PROVE  /\ \A r, I : Waits(ch, <<>>, r, I) => Waits(ch, w, r, I)
           /\ \A r, I : \A k \in 1..Len(w) : w[k].req = r /\ w[k].ring \in I => Waits(ch, w, r, I)
           /\ (\A k \in 1..Len(w) : w[k].req # "SET_VRING_ADDR") =>
                (MemFirst(ch, <<>>) => MemFirst(ch, w))
<1>1. /\ \A k \in Items(ch, w) :
           \/ k \in Items(ch, <<>>) /\ At(ch, w, k) = At(ch, <<>>, k)
           \/ k - Len(ch) \in 1..Len(w) /\ At(ch, w, k) = w[k - Len(ch)]
      /\ \A k \in Items(ch, <<>>) : k \in Items(ch, w) /\ At(ch, w, k) = At(ch, <<>>, k)
      /\ \A k \in 1..Len(w) : Len(ch) + k \in Items(ch, w) /\ At(ch, w, Len(ch) + k) = w[k]
  BY AfterNew, Zenon
<1>2. \A r, I : Waits(ch, <<>>, r, I) => Waits(ch, w, r, I)
  BY <1>1, Zenon DEF Waits
<1>3. \A r, I : \A k \in 1..Len(w) : w[k].req = r /\ w[k].ring \in I => Waits(ch, w, r, I)
  BY <1>1, Zenon DEF Waits
<1>4. ASSUME \A k \in 1..Len(w) : w[k].req # "SET_VRING_ADDR"
      PROVE  MemFirst(ch, <<>>) => MemFirst(ch, w)
  BY <1>1, <1>4, Zenon DEF MemFirst
<1> QED
  BY <1>2, <1>3, <1>4, Zenon

(* Stopping, and the messages that are sent one at a time.                 *)
LEMMA MoreConf == ASSUME ControlInv, ConfInv, DevStop \/ SendOne PROVE ConfInv'
<1>1. /\ script = <<>> /\ cur' \in ConnIds /\ script' \in Seq(MsgSet)
      /\ UNCHANGED <<chan, vring, memory, last>>
  BY Begins, Zenon DEF OwnScript
<1>2. cur' = cur /\ ended' = ended /\ kept' = kept /\ started' \in {started, FALSE}
  BY Zenon DEF DevStop, SendOne
<1>3. started' => started
  BY <1>2, Zenon
<1>4. \A k \in 1..Len(script') : script'[k].req # "SET_VRING_ADDR"
  <2>1. CASE DevStop
    <3>1. script' = StopMsgs(cur)
      BY <2>1, Zenon DEF DevStop
    <3> QED
      BY <1>1, <1>2, <3>1, StopList, Zenon
  <2>2. CASE SendOne
    <3>1. Len(script') = 1 /\ script'[1].req \in {"ECHO", "SET_VRING_CALL", "SET_MEM_TABLE"}
      BY <2>2, OneMessage, Zenon
    <3>2. \A k \in 1..Len(script') : k = 1
      BY <3>1
    <3> QED
      BY <3>1, <3>2, Zenon
  <2> QED
    BY <2>1, <2>2, Zenon
<1>5. chan[cur] \in Seq(MsgSet) /\ chan'[cur'] = chan[cur]
  BY <1>1, <1>2, Zenon DEF ControlInv, TypeOK
<1>6. /\ \A r, I : Waits(chan[cur], <<>>, r, I) => Waits(chan[cur], script', r, I)
      /\ MemFirst(chan[cur], <<>>) => MemFirst(chan[cur], script')
  BY <1>1, <1>4, <1>5, MoreWaits, Zenon
<1>7. Live' = Live /\ Heard' = Heard
  BY <1>1, <1>2, Zenon DEF Live, Heard
<1>8. ChannelInv'
  BY <1>1, <1>2, <1>3, <1>7, Zenon DEF ConfInv, ChannelInv
<1> SUFFICES ASSUME kept PROVE Arrives'
  BY <1>2, <1>8, Zenon DEF ConfInv
<1>9. Arrives
  BY Zenon DEF ConfInv
<1>10. UnheardInv'
  BY <1>1, <1>3, <1>5, <1>6, <1>7, <1>9, Zenon DEF Arrives, UnheardInv, StartWaits
<1>11. MemoryInv' /\ CallInv' /\ LastOwn'
  BY <1>1, <1>2, <1>5, <1>6, <1>7, <1>9, Zenon DEF Arrives, MemoryInv, CallInv, LastOwn
<1>12. StartInv'
  BY <1>1, <1>2, <1>3, <1>5, <1>6, <1>9, Zenon DEF Arrives, StartInv
<1> QED
  BY <1>10, <1>11, <1>12, Zenon DEF Arrives

(* A new QEMU announces its calls first.                                   *)
LEMMA ConnectConf == ASSUME ControlInv, ConfInv, Connect PROVE ConfInv'
<1> DEFINE e == cur + 1
           w == InitMsgs(e)
<1>1. /\ cur' = e /\ script' = w /\ (cur = 0 \/ cur \in ended)
      /\ UNCHANGED <<started, chan, ended, last, vring, memory>>
  BY ZenonT(60) DEF Connect, server
<1>2. /\ e \in ConnIds /\ e # 0 /\ e > cur /\ cur \in Int /\ \A c \in ConnIds : c \in Int
  BY ChannelAssumption, SMTT(60) DEF Connect, ControlInv, TypeOK, ConnIds
<1>3. e \notin ended
  <2>1. \A c \in ended : c <= cur
    BY Zenon DEF ControlInv, ScriptInv
  <2> QED
    BY <1>2, <2>1
<1>4. ~started
  BY <1>1, Zenon DEF ConfInv, ChannelInv, Live
<1>5. ~Heard'
  <2>1. last # <<>> => last[1].conn <= cur
    BY Zenon DEF ConfInv, ChannelInv
  <2>2. ~(e <= cur)
    BY <1>2
  <2> QED
    BY <1>1, <2>1, <2>2, Zenon DEF Heard
<1> HIDE DEF e
<1>6. /\ w \in Seq(MsgSet) /\ Len(w) = 5
      /\ \A k \in 1..5 : w[k].req \in {"ECHO", "SET_OWNER", "GET_FEATURES", "SET_VRING_CALL"}
      /\ w[4] = Call("masked", RX, e) /\ w[5] = Call("masked", TX, e)
  BY <1>2, InitList, Zenon DEF OwnScript
<1>7. /\ w[4].req = "SET_VRING_CALL" /\ w[4].ring = RX
      /\ w[5].req = "SET_VRING_CALL" /\ w[5].ring = TX
  <2>1. RX \in Rings /\ TX \in Rings /\ "masked" \in {"masked", "guest"}
    BY Zenon DEF Rings
  <2>2. \A i \in Rings : Call("masked", i, e).req = "SET_VRING_CALL" /\ Call("masked", i, e).ring = i
    BY <1>2, <2>1, CallOwn, SMTT(60)
  <2> QED
    BY <1>6, <2>1, <2>2, Zenon
<1>8. chan[e] = <<>> /\ <<>> \in Seq(MsgSet)
  BY <1>2, Zenon DEF ConfInv, ChannelInv, ControlInv, TypeOK
<1> HIDE DEF w
<1>9. \A k \in 1..Len(w) : w[k].req # "SET_VRING_ADDR"
  BY <1>6, Zenon
<1>10. MemFirst(<<>>, <<>>)
  <2>1. Items(<<>>, <<>>) = {}
    BY DEF Items
  <2> QED
    BY <2>1, Zenon DEF MemFirst
<1>11. MemFirst(<<>>, w)
  BY <1>6, <1>8, <1>9, <1>10, MoreWaits, Zenon
<1>12. \A i \in Rings : Waits(<<>>, w, "SET_VRING_CALL", {i})
  <2>1. 4 \in 1..Len(w) /\ 5 \in 1..Len(w)
    BY <1>6
  <2>2. Waits(<<>>, w, "SET_VRING_CALL", {RX}) /\ Waits(<<>>, w, "SET_VRING_CALL", {TX})
    BY <1>6, <1>7, <1>8, <2>1, MoreWaits, Zenon
  <2> QED
    BY <2>2, ZenonT(60) DEF Rings
<1>13. chan'[cur'] = <<>> /\ script' = w
  BY <1>1, <1>8, Zenon
<1>14. UnheardInv' /\ CallInv'
  BY <1>1, <1>4, <1>11, <1>12, <1>13, Zenon DEF UnheardInv, CallInv
<1>15. MemoryInv' /\ LastOwn'
  BY <1>5, <1>11, <1>13, Zenon DEF MemoryInv, LastOwn
<1>16. ChannelInv'
  <2>1. \A c \in ConnIds : c > cur' => c > cur
    BY <1>1, <1>2, SMTT(60)
  <2>2. last # <<>> => last[1].conn <= cur'
    <3> SUFFICES ASSUME last # <<>> PROVE last[1].conn <= cur'
      BY Zenon
    <3>1. last \in Seq(MsgSet)
      BY Zenon DEF ControlInv, TypeOK
    <3>2. last[1] \in MsgSet
      BY <3>1
    <3>3. last[1].conn \in ConnIds /\ last[1].conn <= cur
      BY <3>2, Zenon DEF MsgSet, ConfInv, ChannelInv
    <3>4. last[1].conn \in Int
      BY <1>2, <3>3, Zenon
    <3> QED
      BY <1>1, <1>2, <3>3, <3>4, SMTT(60)
  <2> QED
    BY <1>1, <1>4, <1>5, <2>1, <2>2, Zenon DEF ConfInv, ChannelInv
<1> QED
  BY <1>1, <1>4, <1>14, <1>15, <1>16, Zenon DEF ConfInv, Arrives, StartInv

(* The members of a sequence of messages.                                  *)
LEMMA Member == ASSUME NEW w \in Seq(MsgSet), NEW k \in 1..Len(w) PROVE w[k] \in MsgSet
  OBVIOUS

(* The start sends all of the configuration, the memory before the rings.  *)
LEMMA StartAllWaits ==
    ASSUME NEW c \in ConnIds, NEW b \in 0..(IndexMod - 1), NEW ch \in Seq(MsgSet)
    PROVE  LET w == StartMsgs(b, c)
           IN /\ w \in Seq(MsgSet)
              /\ StartWaits(ch, w)
              /\ MemFirst(ch, <<>>) => MemFirst(ch, w)
<1> DEFINE w == StartMsgs(b, c)
<1>1. /\ w \in Seq(MsgSet) /\ Len(w) = 10
      /\ w[1].req = "SET_FEATURES" /\ w[2].req = "SET_MEM_TABLE"
      /\ Is(w[3], "SET_VRING_NUM", RX) /\ Is(w[5], "SET_VRING_ADDR", RX)
      /\ Is(w[6], "SET_VRING_KICK", RX)
      /\ Is(w[7], "SET_VRING_NUM", TX) /\ Is(w[9], "SET_VRING_ADDR", TX)
      /\ Is(w[10], "SET_VRING_KICK", TX)
  BY StartList, ZenonT(60) DEF OwnScript
<1> HIDE DEF w
<1>2. \A k \in 1..10 : k \in 1..Len(w)
  BY <1>1
<1>3. /\ 2 \in 1..10 /\ 3 \in 1..10 /\ 5 \in 1..10 /\ 6 \in 1..10 /\ 7 \in 1..10
      /\ 9 \in 1..10 /\ 10 \in 1..10
  OBVIOUS
<1>4. w[2].ring \in Rings
  <2>1. w[2] \in MsgSet
    BY <1>1, <1>2, <1>3, Member, Zenon
  <2> QED
    BY <2>1, Zenon DEF MsgSet
<1>5. \A r, I : \A k \in 1..10 : w[k].req = r /\ w[k].ring \in I => Waits(ch, w, r, I)
  BY <1>1, <1>2, MoreWaits, Zenon
<1>6. Waits(ch, w, "SET_MEM_TABLE", Rings)
  BY <1>1, <1>3, <1>4, <1>5, Zenon
<1>7. /\ Waits(ch, w, "SET_VRING_NUM", {RX}) /\ Waits(ch, w, "SET_VRING_NUM", {TX})
      /\ Waits(ch, w, "SET_VRING_ADDR", {RX}) /\ Waits(ch, w, "SET_VRING_ADDR", {TX})
      /\ Waits(ch, w, "SET_VRING_KICK", {RX}) /\ Waits(ch, w, "SET_VRING_KICK", {TX})
  <2>1. \A r, i : \A k \in 1..10 : Is(w[k], r, i) => Waits(ch, w, r, {i})
    BY <1>5, Zenon DEF Is
  <2> QED
    BY <1>1, <1>3, <2>1, Zenon
<1>8. \A i \in Rings : /\ Waits(ch, w, "SET_VRING_NUM", {i})
                       /\ Waits(ch, w, "SET_VRING_ADDR", {i})
                       /\ Waits(ch, w, "SET_VRING_KICK", {i})
  BY <1>7, Zenon DEF Rings
<1>9. ASSUME MemFirst(ch, <<>>), NEW p \in Items(ch, w), At(ch, w, p).req = "SET_VRING_ADDR"
      PROVE  \E q \in Items(ch, w) : q < p /\ At(ch, w, q).req = "SET_MEM_TABLE"
  <2>0. w \in Seq(MsgSet) /\ Len(w) = 10
    BY <1>1, Zenon
  <2>1. /\ \A k \in Items(ch, w) :
             \/ k \in Items(ch, <<>>) /\ At(ch, w, k) = At(ch, <<>>, k)
             \/ /\ k - Len(ch) \in 1..10 /\ At(ch, w, k) = w[k - Len(ch)]
                /\ k = Len(ch) + (k - Len(ch))
        /\ \A k \in Items(ch, <<>>) : k \in Items(ch, w) /\ At(ch, w, k) = At(ch, <<>>, k)
        /\ \A k \in 1..Len(w) : Len(ch) + k \in Items(ch, w) /\ At(ch, w, Len(ch) + k) = w[k]
    <3>1. \A k \in Items(ch, w) :
             \/ k \in Items(ch, <<>>) /\ At(ch, w, k) = At(ch, <<>>, k)
             \/ /\ k - Len(ch) \in 1..10 /\ At(ch, w, k) = w[k - Len(ch)]
                /\ k = Len(ch) + (k - Len(ch))
      BY <2>0, AfterNew, Zenon
    <3>2. \A k \in Items(ch, <<>>) : k \in Items(ch, w) /\ At(ch, w, k) = At(ch, <<>>, k)
      BY <2>0, AfterNew, Zenon
    <3>3. \A k \in 1..Len(w) : Len(ch) + k \in Items(ch, w) /\ At(ch, w, Len(ch) + k) = w[k]
      BY <2>0, AfterNew, Zenon
    <3> QED
      BY <3>1, <3>2, <3>3, Zenon
  <2>2. CASE p \in Items(ch, <<>>) /\ At(ch, w, p) = At(ch, <<>>, p)
    BY <1>9, <2>1, <2>2, Zenon DEF MemFirst
  <2>3. CASE /\ p - Len(ch) \in 1..10 /\ At(ch, w, p) = w[p - Len(ch)]
             /\ p = Len(ch) + (p - Len(ch))
    <3>1. p - Len(ch) # 1 /\ p - Len(ch) # 2
      BY <1>1, <1>9, <2>3, Zenon
    <3>2. \A a \in Nat, k \in 1..10 : k # 1 /\ k # 2 => a + 2 < a + k
      OBVIOUS
    <3>3. Len(ch) \in Nat
      OBVIOUS
    <3>4. Len(ch) + 2 < p
      BY <2>3, <3>1, <3>2, <3>3, Zenon
    <3> QED
      BY <1>1, <1>2, <1>3, <2>1, <3>4, ZenonT(60)
  <2> QED
    BY <2>1, <2>2, <2>3, Zenon
<1> QED
  BY <1>1, <1>6, <1>8, <1>9, Zenon DEF MemFirst, StartWaits, w

(* vhost_dev_start.                                                        *)
LEMMA StartConf == ASSUME ControlInv, ConfInv, DevStart PROVE ConfInv'
<1>1. /\ script = <<>> /\ cur \in ConnIds /\ cur' = cur /\ ended' = ended /\ Live /\ kept' = kept
      /\ UNCHANGED <<chan, vring, memory, last>>
      /\ script' = StartMsgs(last_avail_idx, cur)
  BY Begins, Zenon DEF DevStart, Idle, Live
<1>2. chan[cur] \in Seq(MsgSet) /\ last_avail_idx \in 0..(IndexMod - 1)
  BY <1>1, Zenon DEF ControlInv, TypeOK
<1> DEFINE w == StartMsgs(last_avail_idx, cur)
<1>3. /\ w \in Seq(MsgSet)
      /\ StartWaits(chan[cur], w)
      /\ MemFirst(chan[cur], <<>>) => MemFirst(chan[cur], w)
  BY <1>1, <1>2, StartAllWaits, Zenon
<1> HIDE DEF w
<1>4. chan'[cur'] = chan[cur] /\ script' = w
  BY <1>1, Zenon DEF w
<1>5. \A i \in Rings : Waits(chan[cur], <<>>, "SET_VRING_CALL", {i})
                         => Waits(chan[cur], w, "SET_VRING_CALL", {i})
  BY <1>2, <1>3, MoreWaits, Zenon
<1>6. Heard' = Heard /\ Live'
  BY <1>1, Zenon DEF Heard, Live
<1>7. ChannelInv'
  BY <1>1, <1>6, Zenon DEF ConfInv, ChannelInv
<1> SUFFICES ASSUME kept PROVE Arrives'
  BY <1>1, <1>7, Zenon DEF ConfInv
<1>8. UnheardInv' /\ CallInv' /\ LastOwn'
  BY <1>1, <1>3, <1>4, <1>5, <1>6, Zenon DEF ConfInv, Arrives, UnheardInv, CallInv, LastOwn
<1>9. MemoryInv'
  BY <1>1, <1>3, <1>4, <1>6, Zenon DEF ConfInv, Arrives, MemoryInv
<1>10. StartInv'
  BY <1>3, <1>4, Zenon DEF StartInv, StartWaits
<1> QED
  BY <1>8, <1>9, <1>10, Zenon DEF Arrives

(* It holds at first.                                                      *)
LEMMA InitConf == ASSUME Init PROVE ConfInv
<1>1. ~started /\ last = <<>> /\ ~Live /\ \A c \in ConnIds : chan[c] = <<>>
  BY Zenon DEF Init, Live
<1> QED
  BY <1>1, Zenon DEF ConfInv, ChannelInv, Arrives, UnheardInv, LastOwn, CallInv, MemoryInv, StartInv

(* Every step keeps it.                                                    *)
LEMMA ConfStep ==
    ASSUME ControlInv, OwnInv, ConfInv, [Next]_vars
    PROVE  ConfInv'
  BY ConnectConf, CloseConf, SendConf, StartConf, MoreConf, QuietConf, ReceiveConf, EofConf,
     Zenon DEF Next

(* A started device is configured in the server as its QEMU asked, once    *)
(* what it sent is read: the memory, and each ring's size, addresses and   *)
(* eventfds, however far QEMU runs ahead of the server, whatever QEMUs     *)
(* before it had sent and however they ended.  Only a read that returns    *)
(* two of its messages, or one of an earlier QEMU's after the server has   *)
(* heard it, loses some of it.                                             *)
THEOREM ConfigurationArrives == Spec => []ConfigArrives
<1>1. Init => ControlInv /\ OwnInv /\ ConfInv
  BY InitControl, InitOwn, InitConf, Zenon
<1>2. ControlInv /\ OwnInv /\ ConfInv /\ [Next]_vars => (ControlInv /\ OwnInv /\ ConfInv)'
  BY ControlStep, OwnStep, ConfStep, Zenon
<1>3. ControlInv /\ ConfInv => ConfigArrives
  <2> SUFFICES ASSUME ControlInv, ConfInv, kept, Idle, started, chan[cur] = <<>>
               PROVE  Configured
    BY Zenon DEF ConfigArrives
  <2>1. script = <<>> /\ Live /\ Arrives
    BY Zenon DEF Idle, Live, ConfInv
  <2>2. Items(<<>>, <<>>) = {}
    BY DEF Items
  <2>3. \A r, I : ~Waits(chan[cur], script, r, I)
    BY <2>1, <2>2, Zenon DEF Waits
  <2> QED
    BY <2>1, <2>3, Zenon DEF Arrives, CallInv, StartInv, Configured
<1> QED
  BY <1>1, <1>2, <1>3, PTL DEF Spec
=============================================================================
