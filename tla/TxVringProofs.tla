--------------------------- MODULE TxVringProofs ---------------------------
(***************************************************************************)
(* Proofs about TxVring for every ring size, index width, packet size and  *)
(* chain shape.  First the arithmetic of wrapping indices and of the parts *)
(* of a ring between two of them, then the type and index invariants, then *)
(* the ownership of the buffers, then the length of a packet as a sum over *)
(* its chain, then the refinement of TxQueue.                              *)
(***************************************************************************)
EXTENDS TxVringQueue, WellFoundedInduction, TLAPS

-----------------------------------------------------------------------------
(* The two fields of a descriptor.                                         *)
LEMMA DescFields ==
    ASSUME NEW l, NEW n
    PROVE  [len |-> l, next |-> n].len = l /\ [len |-> l, next |-> n].next = n
BY SMT

(* The order of the numbers, for the steps that reason about nothing else. *)
LEMMA NotBoth == /\ \A a, b \in Nat : a < b => ~(b <= a)
                 /\ ~(0 > 0)
                 /\ \A n \in Nat : \A k \in 1..n : k < n => k + 1 \in 1..n
BY SMT

(* Division with remainder, and slots of consecutive or nearby indices.    *)

(* A natural number is determined by its quotient and remainder.           *)
LEMMA DivMod ==
    ASSUME NEW x \in Nat, NEW n \in Nat \ {0}
    PROVE  /\ x \div n \in Nat
           /\ x % n \in 0..(n - 1)
           /\ x = n * (x \div n) + (x % n)
BY SMTT(30)

(* The remainder of n * q + r is r.                                        *)
LEMMA ModUnique ==
    ASSUME NEW n \in Nat \ {0}, NEW q \in Nat, NEW r \in 0..(n - 1)
    PROVE  (n * q + r) % n = r
BY SMTT(30)

(* Stepping an index steps its slot, back to 0 after the last.             *)
LEMMA ModInc ==
    ASSUME NEW n \in Nat \ {0}, NEW x \in Nat
    PROVE  (x + 1) % n = IF (x % n) + 1 = n THEN 0 ELSE (x % n) + 1
<1> DEFINE q == x \div n
           r == x % n
<1>1. q \in Nat /\ r \in 0..(n - 1) /\ x = n * q + r
  BY DivMod, Zenon
<1> HIDE DEF q, r
<1>2. CASE r + 1 = n
  <2>1. x + 1 = n * (q + 1) + 0
    BY <1>1, <1>2
  <2>2. (n * (q + 1) + 0) % n = 0
    BY <1>1, ModUnique
  <2> QED
    BY <1>2, <2>1, <2>2 DEF r
<1>3. CASE r + 1 # n
  <2>1. x + 1 = n * q + (r + 1) /\ r + 1 \in 0..(n - 1)
    BY <1>1, <1>3
  <2>2. (n * q + (r + 1)) % n = r + 1
    BY <1>1, <2>1, ModUnique
  <2> QED
    BY <1>3, <2>1, <2>2 DEF r
<1> QED
  BY <1>2, <1>3

(* Two different numbers less than n apart have different remainders.      *)
LEMMA ModDistinct ==
    ASSUME NEW n \in Nat \ {0}, NEW x \in Nat, NEW y \in Nat,
           x < y, y < x + n
    PROVE  x % n # y % n
<1> DEFINE q == x \div n
           r == x % n
           p == y \div n
           s == y % n
<1>1. q \in Nat /\ r \in 0..(n - 1) /\ x = n * q + r
  BY DivMod, Zenon
<1>2. p \in Nat /\ s \in 0..(n - 1) /\ y = n * p + s
  BY DivMod, Zenon
<1> HIDE DEF q, r, p, s
<1>3. SUFFICES ASSUME r = s PROVE FALSE
  BY DEF r, s
<1>4. y - x = n * (p - q)
  BY <1>1, <1>2, <1>3
<1>5. CASE p <= q
  <2>1. n * (p - q) <= 0
    BY <1>1, <1>2, <1>5
  <2> QED
    BY <2>1, <1>4
<1>6. CASE p > q
  <2>1. n * (p - q) >= n
    BY <1>1, <1>2, <1>6
  <2> QED
    BY <2>1, <1>4
<1> QED
  BY <1>1, <1>2, <1>5, <1>6

(* Adding a multiple of n leaves the remainder as it is.                   *)
LEMMA ModShift ==
    ASSUME NEW n \in Nat \ {0}, NEW x \in Nat, NEW m \in Nat, m % n = 0
    PROVE  (x + m) % n = x % n
<1> DEFINE q == x \div n
           r == x % n
           k == m \div n
<1>1. q \in Nat /\ r \in 0..(n - 1) /\ x = n * q + r
  BY DivMod, Zenon
<1>2. k \in Nat /\ m = n * k
  <2>1. k \in Nat /\ m % n \in 0..(n - 1) /\ m = n * k + (m % n)
    BY DivMod
  <2> HIDE DEF k
  <2> QED
    BY <2>1
<1> HIDE DEF q, r, k
<1>3. x + m = n * (q + k) + r
  BY <1>1, <1>2
<1>4. (n * (q + k) + r) % n = r
  BY <1>1, <1>2, ModUnique
<1> QED
  BY <1>3, <1>4 DEF r

(* What the assumptions on the ring size say in linear terms.              *)
LEMMA NumFacts ==
    /\ Num \in Nat /\ Num > 0
    /\ IndexMod \in Nat /\ Num < IndexMod
BY NumAssumption

(* ++ on a 16-bit index.                                                   *)
LEMMA IncIndex ==
    ASSUME NEW x \in Index
    PROVE  /\ Inc(x) \in Index
           /\ Inc(x) = IF x + 1 = IndexMod THEN 0 ELSE x + 1
<1>1. x \in Nat /\ x < IndexMod /\ IndexMod \in Nat \ {0}
  BY NumFacts DEF Index
<1>2. (x + 1) % IndexMod = IF x + 1 = IndexMod THEN 0 ELSE x + 1
  BY <1>1, SMTT(30)
<1> QED
  BY <1>1, <1>2 DEF Inc, Index

(* The slot of an index is a slot of the ring.                             *)
LEMMA SlotType ==
    ASSUME NEW x \in Index
    PROVE  Slot(x) \in Descs
BY DivMod, NumFacts DEF Slot, Descs, Index

(* The next index has the next slot, also where the index wraps: the ring  *)
(* size divides 2^16.                                                      *)
LEMMA SlotInc ==
    ASSUME NEW x \in Index
    PROVE  Slot(Inc(x)) = (Slot(x) + 1) % Num
<1>1. x \in Nat /\ Num \in Nat \ {0} /\ IndexMod \in Nat /\ x < IndexMod
  BY NumFacts DEF Index
<1> DEFINE r == x % Num
<1>2. r \in 0..(Num - 1)
  BY <1>1, DivMod
<1>3. (x + 1) % Num = IF r + 1 = Num THEN 0 ELSE r + 1
  BY <1>1, ModInc, Zenon
<1> HIDE DEF r
<1>4. (r + 1) % Num = IF r + 1 = Num THEN 0 ELSE r + 1
  BY <1>1, <1>2, SMTT(30)
<1>5. CASE x + 1 = IndexMod
  <2>1. Inc(x) = 0
    BY <1>5, IncIndex
  <2>2. (x + 1) % Num = 0
    BY <1>5, NumAssumption
  <2>3. 0 % Num = 0
    BY <1>1, SMTT(30)
  <2> QED
    BY <1>3, <1>4, <2>1, <2>2, <2>3 DEF Slot, r
<1>6. CASE x + 1 # IndexMod
  BY <1>3, <1>4, <1>6, IncIndex DEF Slot, r
<1> QED
  BY <1>5, <1>6

(* Two indices less than a ring apart have different slots.                *)
LEMMA SlotDistinct ==
    ASSUME NEW x \in Index, NEW y \in Index, x # y, Dist(x, y) < Num
    PROVE  Slot(x) # Slot(y)
<1>1. x \in Nat /\ y \in Nat /\ Num \in Nat \ {0} /\ IndexMod \in Nat
  BY NumFacts DEF Index
<1>2. CASE x < y
  <2>1. y < x + Num
    BY <1>1, <1>2 DEF Dist
  <2>2. x % Num # y % Num
    BY <1>1, <1>2, <2>1, ModDistinct
  <2> QED
    BY <2>2 DEF Slot
<1>3. CASE y < x
  <2>1. x < y + IndexMod /\ y + IndexMod < x + Num /\ y + IndexMod \in Nat
    BY <1>1, <1>3, NumFacts DEF Dist, Index
  <2>2. x % Num # (y + IndexMod) % Num
    BY <1>1, <2>1, ModDistinct, Zenon
  <2>3. (y + IndexMod) % Num = y % Num
    BY <1>1, NumAssumption, ModShift, Zenon
  <2> QED
    BY <2>2, <2>3 DEF Slot
<1> QED
  BY <1>1, <1>2, <1>3

-----------------------------------------------------------------------------
(* Type correctness.                                                       *)

(* Every step keeps every variable in its type; in particular a walk along *)
(* `next' stays inside the descriptor table.                               *)
LEMMA TypeStep == TypeOK /\ [Next]_vars => TypeOK'
<1> SUFFICES ASSUME TypeOK, [Next]_vars PROVE TypeOK'
  OBVIOUS
<1> USE DEF TypeOK
<1>1. ASSUME NEW c \in ChainLens, NEW s \in [1..Len(c) -> Free], GuestAdd(c, s)
      PROVE  TypeOK'
  <2>1. Len(c) \in Nat /\ Len(c) > 0 /\ \A k \in 1..Len(c) : c[k] \in Nat
    BY SizeAssumption
  <2>2. \A k \in 1..Len(c) : s[k] \in Descs
    BY DEF Free
  <2>3. DOMAIN s = 1..Len(c) /\ s[1] \in Descs
    BY <2>1, <2>2
  <2>4. desc' \in [Descs -> [len : Nat, next : Descs \cup {NoNext}]]
    <3>1. ASSUME NEW d \in Descs, NEW k \in 1..Len(c)
          PROVE  [len |-> c[k], next |-> IF k < Len(c) THEN s[k + 1] ELSE NoNext]
                   \in [len : Nat, next : Descs \cup {NoNext}]
      BY <2>1, <2>2
    <3>2. ASSUME NEW d \in Descs, \E k \in DOMAIN s : s[k] = d
          PROVE  (CHOOSE k \in DOMAIN s : s[k] = d) \in 1..Len(c)
      BY <2>3, <3>2
    <3> QED
      BY <1>1, <2>3, <3>1, <3>2 DEF GuestAdd
  <2>5. avail_ring' \in [Descs -> Descs]
    BY <1>1, <2>3, Zenon DEF GuestAdd
  <2>6. chain' \in [Descs -> SUBSET Descs]
    BY <1>1, <2>2, <2>3 DEF GuestAdd
  <2> QED
    BY <1>1, <2>4, <2>5, <2>6, Zenon DEF GuestAdd, server, locals
<1>2. CASE GuestPublish
  BY <1>2, IncIndex, ZenonT(60) DEF GuestPublish, server, locals
<1>3. CASE GuestKick
  BY <1>3 DEF GuestKick, guest, server, locals
<1>4. CASE GuestReclaim
  BY <1>4, IncIndex, ZenonT(60) DEF GuestReclaim, shared, server, locals
<1>5. CASE SelectTimeout
  BY <1>5 DEF SelectTimeout, shared, guest, PCs
<1>6. CASE KickServer
  BY <1>6, Zenon DEF KickServer, shared, guest, PCs
<1>7. CASE PollHandler
  BY <1>7 DEF PollHandler, shared, guest, PCs
<1>8. CASE ProcessAvailVring
  BY <1>8, SlotType DEF ProcessAvailVring, shared, guest, PCs
<1>9. CASE EndOfAvail
  BY <1>9 DEF EndOfAvail, guest, PCs
<1>10. CASE ProcessDesc
  BY <1>10 DEF ProcessDesc, shared, guest, PCs
<1>11. CASE CopyDesc
  <2>1. desc[i].len \in Nat /\ desc[i].next \in Descs \cup {NoNext}
    OBVIOUS
  <2> QED
    BY <1>11, <2>1 DEF CopyDesc, shared, guest, PCs
<1>12. CASE FinishDesc
  <2>1. a_idx' \in Descs
    <3>0. a_idx \in Descs
      OBVIOUS
    <3>1. a_idx + 1 \in Nat /\ Num \in Nat \ {0}
      BY <3>0, NumFacts DEF Descs
    <3>2. (a_idx + 1) % Num \in 0..(Num - 1)
      BY <3>1, DivMod, Zenon
    <3> QED
      BY <1>12, <3>2 DEF FinishDesc, Descs
  <2>2. used_ring' \in [Descs -> [id : Descs, len : Nat]]
    BY <1>12, SlotType DEF FinishDesc
  <2>3. buffer' \in [head : Descs \cup {Num}, size : Int]
    BY <1>12, SizeAssumption DEF FinishDesc, avail_handler_server, NoPacket
  <2> QED
    BY <1>12, <2>1, <2>2, <2>3, IncIndex DEF FinishDesc, guest, PCs
<1>13. CASE EchoBuffer
  BY <1>13 DEF EchoBuffer, NoPacket, shared, guest, PCs
<1>14. CASE UNCHANGED vars
  BY <1>14 DEF vars, shared, guest, server, locals
<1>15. CASE CrashDesc
  <2>1. used_ring' \in [Descs -> [id : Descs, len : Nat]]
    BY <1>15, SlotType DEF CrashDesc
  <2> QED
    BY <1>15, <2>1 DEF CrashDesc, guest, PCs
<1> QED
  BY <1>1, <1>2, <1>3, <1>4, <1>5, <1>6, <1>7, <1>8, <1>9, <1>10, <1>11,
     <1>12, <1>13, <1>14, <1>15, Zenon DEF Next, GuestNext, ServerNext

(* The ring starts empty and well typed.                                   *)
LEMMA TypeInit == Init => TypeOK
<1> SUFFICES ASSUME Init PROVE TypeOK
  OBVIOUS
<1>1. 0 \in Descs /\ 0 \in Index /\ Num \in Nat
  BY NumFacts DEF Descs, Index
<1>2. desc \in [Descs -> [len : Nat, next : Descs \cup {NoNext}]]
  BY DEF Init
<1>3. /\ avail_ring \in [Descs -> Descs]
      /\ used_ring \in [Descs -> [id : Descs, len : Nat]]
      /\ buffer \in [head : Descs \cup {Num}, size : Int]
  BY <1>1 DEF Init, NoPacket
<1> QED
  BY <1>1, <1>2, <1>3, Zenon DEF Init, TypeOK, PCs

(* Every variable of the transmit path keeps its type.                     *)
THEOREM TypeCorrect == Spec => []TypeOK
BY TypeInit, TypeStep, PTL DEF Spec

-----------------------------------------------------------------------------
(* The ring indices.                                                       *)

(* Distances are measured around the circle of 16-bit values.              *)
LEMMA DistFacts ==
    ASSUME NEW x \in Index, NEW y \in Index
    PROVE  /\ Dist(x, y) \in Nat
           /\ Dist(x, y) < IndexMod
           /\ Dist(x, y) = 0 <=> x = y
BY NumFacts DEF Dist, Index

(* Advancing the far end of a distance adds one to it ...                  *)
LEMMA DistIncFar ==
    ASSUME NEW x \in Index, NEW y \in Index, Dist(x, y) + 1 < IndexMod
    PROVE  Dist(x, Inc(y)) = Dist(x, y) + 1
<1>1. Inc(y) = IF y + 1 = IndexMod THEN 0 ELSE y + 1
  BY IncIndex
<1> QED
  BY <1>1, NumFacts DEF Dist, Index

(* ... and advancing the near end takes one off.                           *)
LEMMA DistIncNear ==
    ASSUME NEW x \in Index, NEW y \in Index, x # y
    PROVE  Dist(Inc(x), y) = Dist(x, y) - 1
<1>1. Inc(x) = IF x + 1 = IndexMod THEN 0 ELSE x + 1
  BY IncIndex
<1> QED
  BY <1>1, NumFacts DEF Dist, Index

(* Distances along the circle add up.                                      *)
LEMMA DistSum ==
    ASSUME NEW g \in Index, NEW x \in Index, NEW y \in Index,
           Dist(g, x) <= Dist(g, y)
    PROVE  Dist(x, y) = Dist(g, y) - Dist(g, x)
BY NumFacts DEF Dist, Index

(* Two indices at the same distance from a third are equal.                *)
LEMMA DistEqual ==
    ASSUME NEW g \in Index, NEW x \in Index, NEW y \in Index,
           Dist(g, x) = Dist(g, y)
    PROVE  x = y
BY NumFacts DEF Dist, Index

(* The types of the indices, in the form the proofs below use.             *)
LEMMA IndexTypes ==
    TypeOK => /\ guest_used \in Index /\ used_idx \in Index
              /\ last_used_idx \in Index /\ last_avail_idx \in Index
              /\ avail_idx \in Index
BY DEF TypeOK

-----------------------------------------------------------------------------
(* Parts of a ring as sequences.                                           *)

(* The index k after x, also where it wraps.                               *)
LEMMA AheadFacts ==
    ASSUME NEW x \in Index, NEW k \in Nat, k < IndexMod
    PROVE  /\ Ahead(x, k) = IF x + k < IndexMod THEN x + k ELSE x + k - IndexMod
           /\ Ahead(x, k) \in Index
           /\ Dist(x, Ahead(x, k)) = k
<1>1. x \in Nat /\ x < IndexMod /\ IndexMod \in Nat \ {0}
  BY NumFacts DEF Index
<1>2. (x + k) % IndexMod = IF x + k < IndexMod THEN x + k ELSE x + k - IndexMod
  BY <1>1, SMTT(30)
<1> QED
  BY <1>1, <1>2 DEF Ahead, Index, Dist

(* Going on from an index that is ahead of g.                              *)
LEMMA AheadSum ==
    ASSUME NEW g \in Index, NEW x \in Index, NEW k \in Nat, Dist(g, x) + k < IndexMod
    PROVE  /\ Ahead(x, k) = Ahead(g, Dist(g, x) + k)
           /\ Dist(g, Ahead(x, k)) = Dist(g, x) + k
<1>1. Dist(g, x) \in Nat /\ IndexMod \in Nat
  BY DistFacts, NumFacts
<1>2. /\ Ahead(x, k) = IF x + k < IndexMod THEN x + k ELSE x + k - IndexMod
      /\ LET m == Dist(g, x) + k
         IN  Ahead(g, m) = IF g + m < IndexMod THEN g + m ELSE g + m - IndexMod
      /\ Dist(g, Ahead(g, Dist(g, x) + k)) = Dist(g, x) + k
  BY <1>1, AheadFacts
<1>3. Ahead(x, k) = Ahead(g, Dist(g, x) + k)
  BY <1>1, <1>2, NumFacts DEF Dist, Index
<1> QED
  BY <1>2, <1>3

(* A part of a ring is a sequence of heads.                                *)
LEMMA HeadsType ==
    ASSUME NEW r \in [Descs -> Descs], NEW x \in Index, NEW n \in Nat, n <= Num
    PROVE  /\ Heads(r, x, n) \in Seq(Descs)
           /\ Len(Heads(r, x, n)) = n
           /\ DOMAIN Heads(r, x, n) = 1..n
           /\ \A k \in 1..n : Heads(r, x, n)[k] = r[Slot(Ahead(x, k - 1))]
<1>1. \A k \in 1..n : Ahead(x, k - 1) \in Index
  BY AheadFacts, NumFacts
<1>2. \A k \in 1..n : r[Slot(Ahead(x, k - 1))] \in Descs
  BY <1>1, SlotType
<1> QED
  BY <1>2 DEF Heads

(* Rings that agree in the slots of a part agree in the part.              *)
LEMMA HeadsSame ==
    ASSUME NEW r, NEW q, NEW x \in Index, NEW n \in Nat,
           \A k \in 0..(n - 1) : r[Slot(Ahead(x, k))] = q[Slot(Ahead(x, k))]
    PROVE  Heads(r, x, n) = Heads(q, x, n)
<1>1. \A k \in 1..n : r[Slot(Ahead(x, k - 1))] = q[Slot(Ahead(x, k - 1))]
  <2> TAKE k \in 1..n
  <2>1. k - 1 \in 0..(n - 1)
    OBVIOUS
  <2> QED
    BY <2>1, Zenon
<1> QED
  BY <1>1, Zenon DEF Heads

(* A part that is longer by one has one more head at its end.              *)
LEMMA HeadsAppend ==
    ASSUME NEW r \in [Descs -> Descs], NEW x \in Index, NEW n \in Nat, n < Num
    PROVE  Heads(r, x, n + 1) = Append(Heads(r, x, n), r[Slot(Ahead(x, n))])
<1>1. n + 1 \in Nat /\ n + 1 <= Num /\ n <= Num /\ (n + 1) - 1 = n /\ n < IndexMod
  BY NumFacts
<1>2. r[Slot(Ahead(x, n))] \in Descs
  BY <1>1, AheadFacts, SlotType
<1> HIDE DEF Heads
<1> QED
  BY <1>1, <1>2, HeadsType

(* Two sequences with the same elements are equal.                         *)
LEMMA SameSeq ==
    ASSUME NEW s \in Seq(Descs), NEW t \in Seq(Descs),
           Len(s) = Len(t), \A k \in 1..Len(s) : s[k] = t[k]
    PROVE  s = t
OBVIOUS

(* The elements of a tail and of a concatenation.                          *)
LEMMA SeqFacts ==
    ASSUME NEW s \in Seq(Descs), NEW t \in Seq(Descs)
    PROVE  /\ s # << >> => /\ Tail(s) \in Seq(Descs) /\ Len(Tail(s)) = Len(s) - 1
                          /\ \A k \in 1..Len(Tail(s)) : Tail(s)[k] = s[k + 1]
           /\ s \o t \in Seq(Descs) /\ Len(s \o t) = Len(s) + Len(t)
           /\ \A k \in 1..(Len(s) + Len(t)) :
                 (s \o t)[k] = IF k <= Len(s) THEN s[k] ELSE t[k - Len(s)]
OBVIOUS

(* The first head, and what is behind it.                                  *)
LEMMA HeadsTail ==
    ASSUME NEW r \in [Descs -> Descs], NEW x \in Index, NEW n \in Nat, n > 0, n <= Num
    PROVE  /\ Heads(r, x, n) # << >>
           /\ Head(Heads(r, x, n)) = r[Slot(x)]
           /\ Tail(Heads(r, x, n)) = Heads(r, Inc(x), n - 1)
<1> DEFINE s == Heads(r, x, n)
           t == Heads(r, Inc(x), n - 1)
<1>1. n - 1 \in Nat /\ n - 1 <= Num /\ Inc(x) \in Index
      /\ Num \in Nat /\ Num < IndexMod /\ IndexMod \in Nat
  BY NumFacts, IncIndex
<1>2. Ahead(x, 0) = x
  BY <1>1, AheadFacts DEF Index
<1>3. ASSUME NEW k \in 1..(n - 1) PROVE Ahead(x, k) = Ahead(Inc(x), k - 1)
  <2>1. /\ k \in Nat /\ k < IndexMod /\ k - 1 \in Nat /\ k - 1 < IndexMod
        /\ x \in Nat /\ x < IndexMod
    BY <1>1 DEF Index
  <2>2. /\ Ahead(x, k) = IF x + k < IndexMod THEN x + k ELSE x + k - IndexMod
        /\ LET y == Inc(x)
           IN  Ahead(y, k - 1) = IF y + (k - 1) < IndexMod THEN y + (k - 1) ELSE y + (k - 1) - IndexMod
        /\ Inc(x) = IF x + 1 = IndexMod THEN 0 ELSE x + 1
    BY <1>1, <2>1, AheadFacts, IncIndex, ZenonT(60)
  <2> QED
    BY <1>1, <2>1, <2>2
<1>4. /\ s \in Seq(Descs) /\ Len(s) = n
      /\ \A k \in 1..n : s[k] = r[Slot(Ahead(x, k - 1))]
      /\ t \in Seq(Descs) /\ Len(t) = n - 1
      /\ \A k \in 1..(n - 1) : t[k] = r[Slot(Ahead(Inc(x), k - 1))]
  BY <1>1, HeadsType, ZenonT(60)
<1> HIDE DEF s, t
<1>5. s # << >> /\ Head(s) = s[1]
  BY <1>4
<1>6. Head(s) = r[Slot(x)]
  BY <1>2, <1>4, <1>5
<1>7. /\ Tail(s) \in Seq(Descs) /\ Len(Tail(s)) = n - 1
      /\ \A k \in 1..(n - 1) : Tail(s)[k] = s[k + 1]
  <2>1. /\ Tail(s) \in Seq(Descs) /\ Len(Tail(s)) = Len(s) - 1
        /\ \A k \in 1..Len(Tail(s)) : Tail(s)[k] = s[k + 1]
    BY <1>4, <1>5, SeqFacts, Zenon
  <2> QED
    BY <1>4, <2>1, Zenon
<1>8. ASSUME NEW k \in 1..(n - 1) PROVE Tail(s)[k] = t[k]
  <2>1. k + 1 \in 1..n /\ (k + 1) - 1 = k
    OBVIOUS
  <2>2. s[k + 1] = r[Slot(Ahead(x, k))]
    BY <1>4, <2>1, Zenon
  <2> QED
    BY <1>3, <1>4, <1>7, <2>2, Zenon
<1>9. Tail(s) = t
  BY <1>4, <1>7, <1>8, SameSeq, Zenon
<1> QED
  BY <1>5, <1>6, <1>9 DEF s, t

(* Two parts in a row are one.                                             *)
LEMMA HeadsConcat ==
    ASSUME NEW r \in [Descs -> Descs], NEW x \in Index, NEW y \in Index, NEW n \in Nat,
           Dist(x, y) + n <= Num
    PROVE  Heads(r, x, Dist(x, y)) \o Heads(r, y, n) = Heads(r, x, Dist(x, y) + n)
<1> DEFINE m == Dist(x, y)
           s == Heads(r, x, m)
           t == Heads(r, y, n)
           u == Heads(r, x, m + n)
<1>1. m \in Nat /\ m + n \in Nat /\ m + n <= Num /\ m <= Num /\ n <= Num /\ Num \in Nat /\ Num < IndexMod
      /\ IndexMod \in Nat
  BY NumFacts, DistFacts
<1>2. /\ s \in Seq(Descs) /\ Len(s) = m /\ t \in Seq(Descs) /\ Len(t) = n
      /\ u \in Seq(Descs) /\ Len(u) = m + n
      /\ \A k \in 1..m : s[k] = r[Slot(Ahead(x, k - 1))]
      /\ \A k \in 1..n : t[k] = r[Slot(Ahead(y, k - 1))]
      /\ \A k \in 1..(m + n) : u[k] = r[Slot(Ahead(x, k - 1))]
  BY <1>1, HeadsType, ZenonT(60)
<1>3. ASSUME NEW j \in Nat, m + j < IndexMod PROVE Ahead(y, j) = Ahead(x, m + j)
  BY <1>3, AheadSum, Zenon
<1> HIDE DEF s, t, u, m
<1>4. /\ s \o t \in Seq(Descs) /\ Len(s \o t) = m + n
      /\ \A k \in 1..(m + n) : (s \o t)[k] = IF k <= m THEN s[k] ELSE t[k - m]
  BY <1>2, SeqFacts, ZenonT(60)
<1>5. ASSUME NEW k \in 1..(m + n) PROVE (s \o t)[k] = u[k]
  <2>1. CASE k <= m
    <3>1. k \in 1..m
      BY <1>1, <2>1
    <3> QED
      BY <1>2, <1>4, <2>1, <3>1, Zenon
  <2>2. CASE ~(k <= m)
    <3>1. k - m \in 1..n /\ (k - m) - 1 \in Nat /\ m + ((k - m) - 1) = k - 1 /\ k - 1 < IndexMod
      BY <1>1, <2>2
    <3>2. Ahead(y, (k - m) - 1) = Ahead(x, k - 1)
      BY <1>3, <3>1, Zenon
    <3> QED
      BY <1>2, <1>4, <2>2, <3>1, <3>2, ZenonT(150)
  <2> QED
    BY <2>1, <2>2, Zenon
<1>6. s \o t = u
  BY <1>2, <1>4, <1>5, SameSeq, Zenon
<1> QED
  BY <1>6 DEF s, t, u, m

(* The lengths of the three parts, and the types of what they are read     *)
(* from.                                                                   *)
LEMMA PartLengths ==
    ASSUME TypeOK, IndexWindow
    PROVE  /\ avail_ring \in [Descs -> Descs] /\ UsedIds \in [Descs -> Descs]
           /\ guest_used \in Index /\ used_idx \in Index /\ avail_idx \in Index
           /\ last_avail_idx \in Index /\ last_used_idx = last_avail_idx
           /\ Dist(guest_used, used_idx) \in Nat
           /\ Dist(used_idx, last_used_idx) \in Nat
           /\ Dist(last_avail_idx, avail_idx) \in Nat
           /\ Dist(guest_used, last_used_idx)
                = Dist(guest_used, used_idx) + Dist(used_idx, last_used_idx)
           /\ Dist(guest_used, avail_idx)
                = Dist(guest_used, last_used_idx) + Dist(last_avail_idx, avail_idx)
           /\ Dist(guest_used, avail_idx) <= Num
<1>1. avail_ring \in [Descs -> Descs] /\ UsedIds \in [Descs -> Descs]
  BY Zenon DEF TypeOK, UsedIds
<1>2. /\ guest_used \in Index /\ used_idx \in Index /\ avail_idx \in Index
      /\ last_avail_idx \in Index /\ last_used_idx = last_avail_idx
  BY IndexTypes, Zenon DEF IndexWindow
<1> QED
  BY <1>1, <1>2, DistFacts, DistSum, NumFacts DEF IndexWindow

(* A part that ends at or before an index e is kept when nothing but the   *)
(* slot of e changes.                                                      *)
LEMMA HeadsKept ==
    ASSUME NEW r \in [Descs -> Descs], NEW q \in [Descs -> Descs],
           NEW g \in Index, NEW x \in Index, NEW n \in Nat, NEW e \in Index,
           Dist(g, x) + n <= Dist(g, e), Dist(g, e) < Num,
           \A d \in Descs : d # Slot(e) => q[d] = r[d]
    PROVE  Heads(q, x, n) = Heads(r, x, n)
<1>1. Dist(g, x) \in Nat /\ Dist(g, e) \in Nat /\ Num \in Nat /\ Num < IndexMod /\ IndexMod \in Nat
  BY DistFacts, NumFacts
<1>2. ASSUME NEW k \in 0..(n - 1)
      PROVE  q[Slot(Ahead(x, k))] = r[Slot(Ahead(x, k))]
  <2>1. k \in Nat /\ k < IndexMod /\ Dist(g, x) + k < IndexMod /\ Dist(g, x) + k < Dist(g, e)
    BY <1>1
  <2>2. Ahead(x, k) \in Index /\ Dist(g, Ahead(x, k)) = Dist(g, x) + k
    BY <2>1, AheadFacts, AheadSum
  <2>3. /\ Dist(Ahead(x, k), e) = Dist(g, e) - (Dist(g, x) + k)
        /\ Ahead(x, k) # e
    BY <1>1, <2>1, <2>2, DistSum
  <2>4. Dist(Ahead(x, k), e) < Num
    BY <1>1, <2>1, <2>3
  <2> QED
    BY <2>2, <2>3, <2>4, SlotDistinct, SlotType, Zenon
<1> QED
  BY <1>2, HeadsSame, Zenon


-----------------------------------------------------------------------------
(* The order of the indices.                                               *)

(* Every step keeps the indices in order.                                  *)
LEMMA WindowStep == TypeOK /\ IndexWindow /\ [Next]_vars => IndexWindow'
<1> SUFFICES ASSUME TypeOK, IndexWindow, [Next]_vars PROVE IndexWindow'
  OBVIOUS
<1>0. /\ guest_used \in Index /\ used_idx \in Index
      /\ last_used_idx \in Index /\ last_avail_idx \in Index
      /\ avail_idx \in Index
  BY IndexTypes
<1>a. Num \in Nat /\ IndexMod \in Nat /\ Num < IndexMod
  BY NumFacts
<1>b. /\ Dist(guest_used, used_idx) \in Nat
      /\ Dist(guest_used, last_used_idx) \in Nat
      /\ Dist(guest_used, avail_idx) \in Nat
  BY <1>0, DistFacts, SMTT(60)
<1>1. ASSUME NEW c \in ChainLens, NEW s \in [1..Len(c) -> Free], GuestAdd(c, s)
      PROVE  IndexWindow'
  BY <1>1 DEF IndexWindow, GuestAdd, server, locals
<1>2. CASE GuestPublish
  <2>1. Dist(guest_used, Inc(avail_idx)) = Dist(guest_used, avail_idx) + 1
    BY <1>0, <1>a, <1>b, <1>2, DistIncFar DEF IndexWindow, GuestPublish
  <2>2. last_avail_idx # Inc(avail_idx)
    BY <1>b, <2>1 DEF IndexWindow
  <2> QED
    BY <1>2, <1>a, <1>b, <2>1, <2>2 DEF IndexWindow, GuestPublish, server, locals
<1>3. CASE GuestKick
  BY <1>3 DEF IndexWindow, GuestKick, guest, server, locals
<1>4. CASE GuestReclaim
  <2>1. guest_used # used_idx
    BY <1>4 DEF GuestReclaim
  <2>2. Dist(guest_used, used_idx) > 0
    BY <1>0, <1>b, <2>1, DistFacts
  <2>3. guest_used # last_used_idx /\ guest_used # avail_idx
    BY <1>0, <1>b, <2>2, DistFacts DEF IndexWindow
  <2>4. /\ Dist(Inc(guest_used), used_idx) = Dist(guest_used, used_idx) - 1
        /\ Dist(Inc(guest_used), last_used_idx) = Dist(guest_used, last_used_idx) - 1
        /\ Dist(Inc(guest_used), avail_idx) = Dist(guest_used, avail_idx) - 1
    BY <1>0, <2>1, <2>3, DistIncNear
  <2> QED
    BY <1>4, <1>a, <1>b, <2>4
       DEF IndexWindow, GuestReclaim, shared, server, locals
<1>5. CASE SelectTimeout
  BY <1>5 DEF IndexWindow, SelectTimeout, shared, guest
<1>6. CASE KickServer
  BY <1>6 DEF IndexWindow, KickServer, guest
<1>7. CASE PollHandler
  BY <1>7 DEF IndexWindow, PollHandler, shared, guest
<1>8. CASE ProcessAvailVring
  BY <1>8 DEF IndexWindow, ProcessAvailVring, shared, guest
<1>9. CASE EndOfAvail
  <2>1. pc' \notin {"test", "walk", "finish", "crashed"}
    BY <1>9 DEF EndOfAvail, TypeOK
  <2> QED
    BY <1>9, <1>b, <2>1 DEF IndexWindow, EndOfAvail, guest
<1>10. CASE ProcessDesc
  BY <1>10, SMTT(60) DEF IndexWindow, ProcessDesc, shared, guest
<1>11. CASE CopyDesc
  <2>1. pc = "walk" /\ pc' \in {"walk", "finish"}
    BY <1>11, SMTT(60) DEF CopyDesc
  <2> QED
    BY <1>11, <2>1 DEF IndexWindow, CopyDesc, shared, guest
<1>12. CASE FinishDesc
  <2>1. last_avail_idx = last_used_idx /\ last_avail_idx # avail_idx
    BY <1>12 DEF FinishDesc, IndexWindow
  <2>2. Dist(guest_used, last_used_idx) < Dist(guest_used, avail_idx)
    BY <1>0, <1>b, <2>1, DistEqual DEF IndexWindow
  <2>3. Dist(guest_used, Inc(last_used_idx)) = Dist(guest_used, last_used_idx) + 1
    BY <1>0, <1>a, <1>b, <2>2, DistIncFar, SMTT(60) DEF IndexWindow
  <2>4. a_idx' = Slot(Inc(last_avail_idx))
    BY <1>0, <1>12, SlotInc, SMTT(60) DEF IndexWindow, FinishDesc
  <2> QED
    BY <1>12, <1>b, <2>1, <2>2, <2>3, <2>4, SMTT(60) DEF IndexWindow, FinishDesc, guest
<1>13. CASE EchoBuffer
  BY <1>13 DEF IndexWindow, EchoBuffer, shared, guest
<1>14. CASE UNCHANGED vars
  BY <1>14 DEF IndexWindow, vars, shared, guest, server, locals
<1>15. CASE CrashDesc
  BY <1>15 DEF IndexWindow, CrashDesc, guest
<1> QED
  BY <1>1, <1>2, <1>3, <1>4, <1>5, <1>6, <1>7, <1>8, <1>9, <1>10, <1>11,
     <1>12, <1>13, <1>14, <1>15, SMTT(60) DEF Next, GuestNext, ServerNext

(* All indices start at 0.                                                 *)
LEMMA WindowInit == Init => IndexWindow
BY NumFacts DEF Init, IndexWindow, Dist

(* The indices of the transmit ring never overtake each other, however     *)
(* often they wrap and whatever the packets look like.                     *)
THEOREM WindowCorrect == Spec => []IndexWindow
BY WindowInit, WindowStep, TypeCorrect, PTL DEF Spec

-----------------------------------------------------------------------------
(* The ownership of the buffers, for chains whose first descriptor fits    *)
(* the server's packet buffer.                                             *)

\* The chains in flight are disjoint, closed under `next', and start with a
\* descriptor that fits the packet buffer.
ChainShape ==
    /\ \A h \in Descs : chain[h] # {} =>
          /\ h \in chain[h]
          /\ 0 < desc[h].len /\ desc[h].len < EthPacketSize
    /\ \A h \in Descs : \A d \in chain[h] : desc[d].next \in chain[h] \cup {NoNext}
    /\ \A g, h \in Descs : g # h => chain[g] \cap chain[h] = {}

\* What process_desc has established about the chain it is walking.
WalkInv ==
    /\ pc \in {"walk", "finish", "crashed"} => d_idx = avail_ring[Slot(last_avail_idx)]
    /\ pc = "walk" => /\ i \in chain[d_idx]
                      /\ len = 0 => i = d_idx
                      /\ len = 0 \/ len >= desc[d_idx].len
    /\ pc \in {"finish", "crashed"} => len > 0 /\ len >= desc[d_idx].len
    /\ pc = "crashed" => len < HdrLen

\* The inductive invariant behind the ownership theorems.
Ownership == TypeOK /\ IndexWindow /\ ExactlyOnce /\ ChainShape /\ WalkInv

(* A part of the circle that starts at l inside the part from g to f.      *)
LEMMA SubWindow ==
    ASSUME NEW g \in Index, NEW l \in Index, NEW f \in Index, NEW x \in Index,
           Dist(g, l) <= Dist(g, f)
    PROVE  Dist(l, x) < Dist(l, f)
             <=> Dist(g, l) <= Dist(g, x) /\ Dist(g, x) < Dist(g, f)
BY NumFacts DEF Dist, Index

(* The part that lies behind an index it has just left.                    *)
LEMMA DistBehind ==
    ASSUME NEW g \in Index
    PROVE  Dist(Inc(g), g) = IndexMod - 1
<1>1. Inc(g) = IF g + 1 = IndexMod THEN 0 ELSE g + 1
  BY IncIndex, Zenon
<1> QED
  BY <1>1, NumFacts DEF Dist, Index

(* The order of the indices, with the slot the driver has filled but not   *)
(* published as the far end.                                               *)
LEMMA FilledFacts ==
    ASSUME TypeOK, IndexWindow
    PROVE  /\ FilledIdx \in Index
           /\ Dist(guest_used, FilledIdx) <= Num
           /\ Dist(guest_used, avail_idx) <= Dist(guest_used, FilledIdx)
           /\ Dist(guest_used, last_avail_idx) <= Dist(guest_used, FilledIdx)
           /\ pc \in {"walk", "finish", "crashed"}
                => Dist(guest_used, last_avail_idx) < Dist(guest_used, FilledIdx)
<1>1. /\ guest_used \in Index /\ last_avail_idx \in Index /\ avail_idx \in Index
  BY IndexTypes, Zenon
<1>2. /\ Dist(guest_used, last_avail_idx) \in Nat
      /\ Dist(guest_used, avail_idx) \in Nat
      /\ Num \in Nat /\ IndexMod \in Nat /\ Num < IndexMod
  BY <1>1, DistFacts, NumFacts, Zenon
<1>3. last_avail_idx # avail_idx
        => Dist(guest_used, last_avail_idx) < Dist(guest_used, avail_idx)
  BY <1>1, <1>2, DistEqual, SMTT(60) DEF IndexWindow
<1>4. CASE staged
  <2>1. Dist(guest_used, Inc(avail_idx)) = Dist(guest_used, avail_idx) + 1
    BY <1>1, <1>2, <1>4, DistIncFar, SMTT(60) DEF IndexWindow
  <2> QED
    BY <1>1, <1>2, <1>3, <1>4, <2>1, IncIndex DEF IndexWindow, FilledIdx
<1>5. CASE ~staged
  BY <1>1, <1>2, <1>3, <1>5 DEF IndexWindow, FilledIdx
<1> QED
  BY <1>4, <1>5, Zenon DEF TypeOK

(* The unprocessed chains are the tail of the chains in flight.            *)
LEMMA PendingTail ==
    ASSUME TypeOK, IndexWindow, NEW x \in Index
    PROVE  x \in Pending <=> /\ x \in InFlight
                             /\ Dist(guest_used, last_avail_idx) <= Dist(guest_used, x)
BY FilledFacts, SubWindow, IndexTypes, Zenon DEF Pending, InFlight

(* Steps that touch neither the rings nor the chains keep the ownership.   *)
LEMMA QuietStep ==
    ASSUME ExactlyOnce, ChainShape,
           UNCHANGED <<desc, avail_ring, used_ring, chain, guest_used,
                       last_avail_idx, FilledIdx>>
    PROVE  ExactlyOnce' /\ ChainShape'
<1>1. Pending' = Pending /\ InFlight' = InFlight
  BY Zenon DEF Pending, InFlight
<1>2. \A x \in Index : HeadAt(x)' = HeadAt(x)
  BY <1>1, Zenon DEF HeadAt
<1>3. ExactlyOnce'
  BY <1>1, <1>2 DEF ExactlyOnce, InFlight
<1>4. ChainShape'
  BY Zenon DEF ChainShape
<1> QED
  BY <1>3, <1>4, Zenon

(* A slot the driver fills enters the chains in flight, unprocessed.       *)
LEMMA AddWindow ==
    ASSUME TypeOK, IndexWindow, NEW c, NEW s, GuestAdd(c, s)
    PROVE  /\ InFlight' = InFlight \cup {avail_idx} /\ avail_idx \notin InFlight
           /\ Pending' = Pending \cup {avail_idx} /\ avail_idx \notin Pending
<1>2. /\ guest_used \in Index /\ last_avail_idx \in Index /\ avail_idx \in Index
      /\ Num \in Nat /\ IndexMod \in Nat /\ Num < IndexMod
      /\ Dist(guest_used, avail_idx) \in Nat
      /\ Dist(guest_used, last_avail_idx) \in Nat
  BY IndexTypes, NumFacts, DistFacts, Zenon
<1>3. /\ ~staged /\ staged' /\ Dist(guest_used, avail_idx) < Num
      /\ UNCHANGED <<avail_idx, guest_used, last_avail_idx>>
  BY Zenon DEF GuestAdd, server
<1>4. FilledIdx = avail_idx /\ FilledIdx' = Inc(avail_idx)
  BY <1>3, Zenon DEF FilledIdx
<1>5. Dist(guest_used, Inc(avail_idx)) = Dist(guest_used, avail_idx) + 1
  BY <1>2, <1>3, DistIncFar
<1>6. InFlight' = InFlight \cup {avail_idx} /\ avail_idx \notin InFlight
  <2>1. \A x \in Index : /\ Dist(guest_used, x) \in Nat
                         /\ Dist(guest_used, x) = Dist(guest_used, avail_idx) => x = avail_idx
    BY <1>2, DistFacts, DistEqual, Zenon
  <2>2. \A x \in Index : Dist(guest_used, x) < Dist(guest_used, avail_idx) + 1
          <=> Dist(guest_used, x) < Dist(guest_used, avail_idx) \/ x = avail_idx
    BY <1>2, <2>1
  <2> QED
    BY <1>2, <1>3, <1>4, <1>5, <2>2 DEF InFlight
<1>7. Pending' = Pending \cup {avail_idx} /\ avail_idx \notin Pending
  <2>1. /\ Inc(avail_idx) \in Index
        /\ Dist(guest_used, last_avail_idx) <= Dist(guest_used, avail_idx)
        /\ Dist(guest_used, last_avail_idx) <= Dist(guest_used, Inc(avail_idx))
    BY <1>2, <1>5, IncIndex DEF IndexWindow
  <2>2. \A x \in Index : x \in Pending' <=>
          x \in InFlight' /\ Dist(guest_used, last_avail_idx) <= Dist(guest_used, x)
    BY <1>2, <1>3, <1>4, <2>1, SubWindow, Zenon DEF Pending, InFlight
  <2>3. \A x \in Index : x \in Pending <=>
          x \in InFlight /\ Dist(guest_used, last_avail_idx) <= Dist(guest_used, x)
    BY PendingTail, Zenon
  <2> QED
    BY <1>2, <1>6, <2>1, <2>2, <2>3, Zenon DEF Pending
<1> QED
  BY <1>6, <1>7, Zenon

\* The table and the chains when the driver adds a chain.
Added(c, s) ==
    /\ DOMAIN s = 1..Len(c) /\ 1 \in 1..Len(c) /\ Len(c) \in Nat /\ Len(c) > 0
    /\ \A k \in 1..Len(c) : c[k] \in Nat
    /\ s[1] \in Descs
    /\ \A k \in DOMAIN s : s[k] \in Descs /\ \A h \in Descs : s[k] \notin chain[h]
    /\ \A h \in Descs : chain'[h] = IF h = s[1] THEN {s[k] : k \in DOMAIN s} ELSE chain[h]
    /\ \A d \in Descs : (\A k \in DOMAIN s : s[k] # d) => desc'[d] = desc[d]
    /\ \A k \in DOMAIN s :
          /\ desc'[s[k]].len = c[k]
          /\ desc'[s[k]].next = IF k < Len(c) THEN s[k + 1] ELSE NoNext

(* What the driver writes: the descriptors of the new chain, all of them   *)
(* free, and nothing else.                                                 *)
LEMMA AddTable ==
    ASSUME TypeOK, NEW c \in ChainLens, NEW s \in [1..Len(c) -> Free], GuestAdd(c, s)
    PROVE  Added(c, s)
<1>1. /\ Len(c) \in Nat /\ Len(c) > 0 /\ 1 \in 1..Len(c)
      /\ DOMAIN s = 1..Len(c) /\ \A k \in 1..Len(c) : c[k] \in Nat
  BY SizeAssumption
<1>3. chain' = [chain EXCEPT ![s[1]] = {s[k] : k \in DOMAIN s}]
  BY Zenon DEF GuestAdd
<1>10. /\ s[1] \in Descs
       /\ \A k \in DOMAIN s : s[k] \in Descs /\ \A h \in Descs : s[k] \notin chain[h]
  BY <1>1, Zenon DEF Free
<1>12. \A h \in Descs : chain'[h] = IF h = s[1] THEN {s[k] : k \in DOMAIN s} ELSE chain[h]
  BY <1>3, <1>10 DEF TypeOK
<1>15. \A d \in Descs : (\A k \in DOMAIN s : s[k] # d) => desc'[d] = desc[d]
  BY Zenon DEF GuestAdd
<1>16. \A k \in DOMAIN s :
         /\ desc'[s[k]].len = c[k]
         /\ desc'[s[k]].next = IF k < Len(c) THEN s[k + 1] ELSE NoNext
  <2> SUFFICES ASSUME NEW k \in DOMAIN s
               PROVE  /\ desc'[s[k]].len = c[k]
                      /\ desc'[s[k]].next = IF k < Len(c) THEN s[k + 1] ELSE NoNext
    BY Zenon
  <2>1. (CHOOSE j \in DOMAIN s : s[j] = s[k]) = k
    BY Zenon DEF GuestAdd
  <2> DEFINE n == IF k < Len(c) THEN s[k + 1] ELSE NoNext
  <2>2. desc'[s[k]] = [len |-> c[k], next |-> n]
    BY <1>10, <2>1, Zenon DEF GuestAdd
  <2> HIDE DEF n
  <2>3. [len |-> c[k], next |-> n].len = c[k] /\ [len |-> c[k], next |-> n].next = n
    BY DescFields, Zenon
  <2>4. desc'[s[k]].len = c[k] /\ desc'[s[k]].next = n
    BY <2>2, <2>3, Zenon
  <2> QED
    BY <2>4, Zenon DEF n
<1> QED
  BY <1>1, <1>10, <1>12, <1>15, <1>16, Zenon DEF Added

(* The driver fills a slot outside the pending part of the avail ring with *)
(* the head of a chain of free descriptors.                                *)
LEMMA AddStep ==
    ASSUME Ownership, TypeOK', IndexWindow', FirstFits,
           NEW c \in ChainLens, NEW s \in [1..Len(c) -> Free], GuestAdd(c, s)
    PROVE  ExactlyOnce' /\ ChainShape' /\ WalkInv'
<1> USE DEF Ownership
<1>1. /\ Len(c) \in Nat /\ Len(c) > 0 /\ 1 \in 1..Len(c)
      /\ DOMAIN s = 1..Len(c) /\ \A k \in 1..Len(c) : c[k] \in Nat
      /\ 0 < c[1] /\ c[1] < EthPacketSize
  BY SizeAssumption, SMTT(60) DEF FirstFits
<1>2. /\ guest_used \in Index /\ last_avail_idx \in Index /\ avail_idx \in Index
      /\ Num \in Nat /\ IndexMod \in Nat /\ Num < IndexMod
      /\ Dist(guest_used, avail_idx) \in Nat
      /\ Dist(guest_used, last_avail_idx) \in Nat
  BY IndexTypes, NumFacts, DistFacts, Zenon
<1>3. /\ ~staged /\ staged' /\ Dist(guest_used, avail_idx) < Num
      /\ UNCHANGED <<avail_idx, used_ring, used_idx, guest_used, last_avail_idx>>
      /\ avail_ring' = [avail_ring EXCEPT ![Slot(avail_idx)] = s[1]]
      /\ chain' = [chain EXCEPT ![s[1]] = {s[k] : k \in DOMAIN s}]
      /\ UNCHANGED <<pc, d_idx, i, len>>
  BY Zenon DEF GuestAdd, server, locals
<1>4. FilledIdx = avail_idx /\ FilledIdx' = Inc(avail_idx)
  BY <1>3, Zenon DEF FilledIdx
<1>5. Dist(guest_used, Inc(avail_idx)) = Dist(guest_used, avail_idx) + 1
  BY <1>2, <1>3, DistIncFar
<1>6. InFlight' = InFlight \cup {avail_idx} /\ avail_idx \notin InFlight
  BY AddWindow, Zenon
<1>7. Pending' = Pending \cup {avail_idx} /\ avail_idx \notin Pending
  BY AddWindow, Zenon
<1> DEFINE HeadNext(x) == IF x \in Pending' THEN avail_ring'[Slot(x)]
                                            ELSE used_ring'[Slot(x)].id
<1>8. \A x \in InFlight : HeadNext(x) = HeadAt(x)
  <2> SUFFICES ASSUME NEW x \in InFlight PROVE HeadNext(x) = HeadAt(x)
    BY Zenon
  <2>1. x \in Index /\ x # avail_idx /\ (x \in Pending' <=> x \in Pending)
    BY <1>6, <1>7, Zenon DEF InFlight
  <2>2. Dist(x, avail_idx) < Num
    <3>1. Dist(guest_used, x) \in Nat /\ Dist(guest_used, x) < Dist(guest_used, avail_idx)
      BY <1>2, <1>4, <2>1, DistFacts, Zenon DEF InFlight
    <3>2. Dist(x, avail_idx) = Dist(guest_used, avail_idx) - Dist(guest_used, x)
      BY <1>2, <2>1, <3>1, DistSum
    <3> QED
      BY <1>2, <1>3, <3>1, <3>2
  <2>3. Slot(x) # Slot(avail_idx) /\ Slot(x) \in Descs
    BY <1>2, <2>1, <2>2, SlotDistinct, SlotType, Zenon
  <2> QED
    BY <1>3, <2>1, <2>3, ZenonT(60) DEF HeadAt, TypeOK
<1>9. HeadNext(avail_idx) = s[1]
  BY <1>2, <1>3, <1>7, SlotType, ZenonT(60) DEF TypeOK
<1>20. Added(c, s)
  BY <1>1, AddTable, Zenon
<1>10. /\ s[1] \in Descs
       /\ \A k \in DOMAIN s : s[k] \in Descs /\ \A h \in Descs : s[k] \notin chain[h]
  BY <1>20, Zenon DEF Added
<1>11. chain[s[1]] = {}
  BY <1>1, <1>10, Zenon DEF ChainShape
<1>12. \A h \in Descs : chain'[h] = IF h = s[1] THEN {s[k] : k \in DOMAIN s} ELSE chain[h]
  BY <1>20, Zenon DEF Added
<1>13. s[1] \in {s[k] : k \in DOMAIN s}
  BY <1>1, Zenon
<1>14. ExactlyOnce'
  <2>1. {h \in Descs : chain'[h] # {}} = {h \in Descs : chain[h] # {}} \cup {s[1]}
    BY <1>10, <1>12, <1>13, Zenon
  <2> HIDE DEF HeadNext
  <2>2. {HeadNext(x) : x \in InFlight'} = {HeadAt(x) : x \in InFlight} \cup {s[1]}
    BY <1>6, <1>8, <1>9, Zenon
  <2>3. \A x \in InFlight : HeadAt(x) # s[1]
    BY <1>11, Zenon DEF ExactlyOnce
  <2>4. \A x, y \in InFlight' : HeadNext(x) = HeadNext(y) => x = y
    <3> SUFFICES ASSUME NEW x \in InFlight', NEW y \in InFlight', HeadNext(x) = HeadNext(y)
                 PROVE  x = y
      BY Zenon
    <3>1. x = avail_idx <=> y = avail_idx
      BY <1>6, <1>8, <1>9, <2>3, ZenonT(60)
    <3>2. CASE x = avail_idx
      BY <3>1, <3>2, Zenon
    <3>3. CASE x # avail_idx
      <4>1. x \in InFlight /\ y \in InFlight
        BY <1>6, <3>1, <3>3, Zenon
      <4> QED
        BY <1>8, <4>1, Zenon DEF ExactlyOnce
    <3> QED
      BY <3>2, <3>3, Zenon
  <2>5. /\ {HeadNext(x) : x \in InFlight'} = {h \in Descs : chain'[h] # {}}
        /\ \A x, y \in InFlight' : HeadNext(x) = HeadNext(y) => x = y
    BY <2>1, <2>2, <2>4, Zenon DEF ExactlyOnce
  <2> QED
    BY <2>5, Zenon DEF ExactlyOnce, HeadAt, HeadNext
<1>15. \A d \in Descs : (\A k \in DOMAIN s : s[k] # d) => desc'[d] = desc[d]
  BY <1>20, Zenon DEF Added
<1>16. \A k \in DOMAIN s :
         /\ desc'[s[k]].len = c[k]
         /\ desc'[s[k]].next = IF k < Len(c) THEN s[k + 1] ELSE NoNext
  BY <1>20, Zenon DEF Added
<1>17. ChainShape'
  <2>1. ASSUME NEW h \in Descs, chain'[h] # {}
        PROVE  /\ h \in chain'[h]
               /\ 0 < desc'[h].len /\ desc'[h].len < EthPacketSize
    <3>1. CASE h = s[1]
      <4>1. desc'[h].len = c[1]
        BY <1>1, <1>16, <3>1, Zenon
      <4> QED
        BY <1>1, <1>12, <1>13, <3>1, <4>1, Zenon
    <3>2. CASE h # s[1]
      <4>1. chain'[h] = chain[h] /\ h \in chain[h]
        BY <1>12, <2>1, <3>2, Zenon DEF ChainShape
      <4>2. desc'[h] = desc[h]
        BY <1>10, <1>15, <4>1, Zenon
      <4> QED
        BY <2>1, <4>1, <4>2, Zenon DEF ChainShape
    <3> QED
      BY <3>1, <3>2, Zenon
  <2>2. ASSUME NEW h \in Descs, NEW d \in chain'[h]
        PROVE  desc'[d].next \in chain'[h] \cup {NoNext}
    <3>1. CASE h = s[1]
      <4>0. chain'[h] = {s[k] : k \in DOMAIN s}
        BY <1>12, <3>1, Zenon
      <4>1. PICK k \in DOMAIN s : d = s[k]
        BY <4>0, Zenon
      <4>2. desc'[d].next = IF k < Len(c) THEN s[k + 1] ELSE NoNext
        BY <1>16, <4>1, Zenon
      <4>3. k < Len(c) => k + 1 \in DOMAIN s
        BY <1>1, NotBoth, Zenon
      <4> QED
        BY <1>12, <3>1, <4>2, <4>3, ZenonT(60)
    <3>2. CASE h # s[1]
      <4>1. chain'[h] = chain[h] /\ d \in Descs
        BY <1>12, <3>2, Zenon DEF TypeOK
      <4>2. desc'[d] = desc[d]
        BY <1>10, <1>15, <4>1, Zenon
      <4> QED
        BY <4>1, <4>2, Zenon DEF ChainShape
    <3> QED
      BY <3>1, <3>2, Zenon
  <2>3. ASSUME NEW g \in Descs, NEW h \in Descs, g # h
        PROVE  chain'[g] \cap chain'[h] = {}
    <3>1. \A e \in Descs : {s[k] : k \in DOMAIN s} \cap chain[e] = {}
      BY <1>10, Zenon
    <3>2. chain[g] \cap chain[h] = {}
      BY <2>3, Zenon DEF ChainShape
    <3>3. CASE g = s[1]
      BY <1>12, <2>3, <3>1, <3>3, Zenon
    <3>4. CASE h = s[1]
      BY <1>12, <2>3, <3>1, <3>4, Zenon
    <3> QED
      BY <1>12, <3>2, <3>3, <3>4, Zenon
  <2> QED
    BY <2>1, <2>2, <2>3, Zenon DEF ChainShape
<1>18. WalkInv'
  <2>1. ASSUME pc \in {"walk", "finish", "crashed"}
        PROVE  /\ avail_ring'[Slot(last_avail_idx)] = avail_ring[Slot(last_avail_idx)]
               /\ chain'[d_idx] = chain[d_idx] /\ desc'[d_idx] = desc[d_idx]
    <3>1. last_avail_idx \in InFlight /\ last_avail_idx \in Pending
      BY <1>2, <2>1, FilledFacts, PendingTail DEF InFlight
    <3>2. HeadNext(last_avail_idx) = HeadAt(last_avail_idx) /\ last_avail_idx \in Pending'
      BY <1>7, <1>8, <3>1, Zenon
    <3>3. avail_ring'[Slot(last_avail_idx)] = avail_ring[Slot(last_avail_idx)]
      BY <1>3, <3>1, <3>2, Zenon DEF HeadAt
    <3>4. d_idx = HeadAt(last_avail_idx) /\ d_idx \in Descs
      BY <2>1, <3>1, Zenon DEF WalkInv, HeadAt, TypeOK
    <3>5. chain[d_idx] # {}
      BY <3>1, <3>4, Zenon DEF ExactlyOnce
    <3>6. desc'[d_idx] = desc[d_idx]
      <4>1. d_idx \in chain[d_idx]
        BY <3>4, <3>5, Zenon DEF ChainShape
      <4> QED
        BY <1>10, <1>15, <3>4, <4>1, Zenon
    <3> QED
      BY <1>11, <1>12, <3>3, <3>4, <3>5, <3>6, Zenon
  <2> QED
    BY <1>3, <2>1, Zenon DEF WalkInv
<1> QED
  BY <1>14, <1>17, <1>18, Zenon

(* The oldest index leaves the chains in flight; it was processed.         *)
LEMMA ReclaimWindow ==
    ASSUME TypeOK, IndexWindow, GuestReclaim
    PROVE  /\ guest_used \in InFlight /\ guest_used \notin Pending
           /\ InFlight' = InFlight \ {guest_used} /\ Pending' = Pending
<1>1. /\ guest_used \in Index /\ last_avail_idx \in Index /\ used_idx \in Index
      /\ Num \in Nat /\ IndexMod \in Nat /\ Num < IndexMod
      /\ Dist(guest_used, used_idx) \in Nat
      /\ Dist(guest_used, last_avail_idx) \in Nat
  BY IndexTypes, NumFacts, DistFacts, Zenon
<1>2. /\ guest_used # used_idx /\ guest_used' = Inc(guest_used)
      /\ UNCHANGED <<last_avail_idx, avail_idx, staged>>
  BY Zenon DEF GuestReclaim, shared, server
<1>3. FilledIdx \in Index /\ FilledIdx' = FilledIdx /\ Pending' = Pending
  BY <1>2, FilledFacts, Zenon DEF FilledIdx, Pending
<1>4. /\ 0 < Dist(guest_used, last_avail_idx)
      /\ Dist(guest_used, last_avail_idx) <= Dist(guest_used, FilledIdx)
      /\ Dist(guest_used, FilledIdx) \in Nat
      /\ Dist(guest_used, FilledIdx) <= Num
      /\ guest_used # FilledIdx
  BY <1>1, <1>2, <1>3, DistFacts, FilledFacts DEF IndexWindow
<1>5. guest_used \in InFlight /\ guest_used \notin Pending
  <2>1. Dist(guest_used, guest_used) = 0
    BY <1>1, DistFacts, Zenon
  <2> QED
    BY <1>1, <1>4, <2>1, PendingTail DEF InFlight
<1>6. InFlight' = InFlight \ {guest_used}
  <2>1. Dist(Inc(guest_used), FilledIdx) = Dist(guest_used, FilledIdx) - 1
    BY <1>1, <1>3, <1>4, DistIncNear, Zenon
  <2>2. ASSUME NEW x \in Index
        PROVE  Dist(Inc(guest_used), x) < Dist(Inc(guest_used), FilledIdx)
                 <=> x # guest_used /\ Dist(guest_used, x) < Dist(guest_used, FilledIdx)
    <3>1. CASE x = guest_used
      BY <1>1, <1>4, <2>1, <3>1, DistBehind, SMTT(60)
    <3>2. CASE x # guest_used
      <4>1. Dist(Inc(guest_used), x) = Dist(guest_used, x) - 1 /\ Dist(guest_used, x) \in Nat
        BY <1>1, <3>2, DistIncNear, DistFacts, Zenon
      <4> QED
        BY <1>4, <2>1, <3>2, <4>1
    <3> QED
      BY <3>1, <3>2, Zenon
  <2> QED
    BY <1>2, <1>3, <2>2, Zenon DEF InFlight
<1> QED
  BY <1>3, <1>5, <1>6, Zenon

(* The driver takes back the chain at the oldest index, which the server   *)
(* has finished with.                                                      *)
LEMMA ReclaimStep ==
    ASSUME Ownership, GuestReclaim
    PROVE  ExactlyOnce' /\ ChainShape' /\ WalkInv'
<1> USE DEF Ownership
<1> DEFINE h == used_ring[Slot(guest_used)].id
<1>1. /\ guest_used \in Index /\ last_avail_idx \in Index /\ used_idx \in Index
      /\ Num \in Nat /\ IndexMod \in Nat /\ Num < IndexMod
      /\ Dist(guest_used, used_idx) \in Nat
      /\ Dist(guest_used, last_avail_idx) \in Nat
  BY IndexTypes, NumFacts, DistFacts, Zenon
<1>2. /\ guest_used # used_idx /\ guest_used' = Inc(guest_used)
      /\ chain' = [chain EXCEPT ![h] = {}]
      /\ UNCHANGED <<desc, avail_ring, used_ring, last_avail_idx, avail_idx, staged>>
      /\ UNCHANGED <<pc, d_idx, i, len>>
  BY Zenon DEF GuestReclaim, shared, server, locals
<1>3. Pending' = Pending
  BY ReclaimWindow, Zenon
<1>5. guest_used \in InFlight /\ guest_used \notin Pending
  BY ReclaimWindow, Zenon
<1>6. InFlight' = InFlight \ {guest_used}
  BY ReclaimWindow, Zenon
<1>7. h = HeadAt(guest_used) /\ h \in Descs
  BY <1>1, <1>5, SlotType, Zenon DEF HeadAt, TypeOK
<1>8. \A g \in Descs : chain'[g] = IF g = h THEN {} ELSE chain[g]
  BY <1>2, <1>7, Zenon DEF TypeOK
<1> HIDE DEF h
<1>9. ExactlyOnce'
  <2>1. \A x \in InFlight' : HeadAt(x) # h
    BY <1>5, <1>6, <1>7, Zenon DEF ExactlyOnce
  <2>2. {HeadAt(x) : x \in InFlight'} = {HeadAt(x) : x \in InFlight} \ {h}
    BY <1>5, <1>6, <1>7, <2>1, Zenon
  <2>3. {g \in Descs : chain'[g] # {}} = {g \in Descs : chain[g] # {}} \ {h}
    BY <1>8, Zenon
  <2>4. /\ {HeadAt(x) : x \in InFlight'} = {g \in Descs : chain'[g] # {}}
        /\ \A x, y \in InFlight' : HeadAt(x) = HeadAt(y) => x = y
    BY <1>6, <2>2, <2>3, Zenon DEF ExactlyOnce
  <2> DEFINE HeadNext(x) == IF x \in Pending' THEN avail_ring'[Slot(x)]
                            ELSE used_ring'[Slot(x)].id
  <2>5. \A x : HeadNext(x) = HeadAt(x)
    BY <1>2, <1>3, Zenon DEF HeadAt
  <2>6. {HeadNext(x) : x \in InFlight'} = {HeadAt(x) : x \in InFlight'}
    BY <2>5, Zenon
  <2>7. \A x, y \in InFlight' : HeadNext(x) = HeadNext(y) => x = y
    BY <2>4, <2>5, Zenon
  <2> QED
    BY <2>4, <2>6, <2>7, Zenon DEF ExactlyOnce, HeadAt
<1>10. ChainShape'
  <2>1. desc' = desc /\ \A g \in Descs : chain'[g] = {} \/ chain'[g] = chain[g]
    BY <1>2, <1>8, Zenon
  <2> QED
    BY <2>1, ZenonT(60) DEF ChainShape
<1>11. WalkInv'
  <2>1. ASSUME pc = "walk"
        PROVE  chain'[d_idx] = chain[d_idx]
    <3>1. last_avail_idx \in InFlight /\ last_avail_idx \in Pending
      BY <1>1, <2>1, FilledFacts, PendingTail DEF InFlight
    <3>2. d_idx = HeadAt(last_avail_idx) /\ d_idx \in Descs
      BY <2>1, <3>1, Zenon DEF WalkInv, HeadAt, TypeOK
    <3>3. d_idx # h
      BY <1>5, <1>7, <3>1, <3>2, Zenon DEF ExactlyOnce
    <3> QED
      BY <1>8, <3>2, <3>3, Zenon
  <2> QED
    BY <1>2, <2>1, Zenon DEF WalkInv
<1> QED
  BY <1>9, <1>10, <1>11, Zenon

(* The used slot of the chain being processed is one that no processed     *)
(* chain in flight occupies.                                               *)
LEMMA UsedSlotFree ==
    ASSUME TypeOK, IndexWindow, pc = "finish"
    PROVE  LET l == last_avail_idx
           IN /\ l \in InFlight /\ l \in Pending
              /\ \A x \in InFlight \ Pending : Slot(x) # Slot(l)
<1> DEFINE l == last_avail_idx
<1>1. /\ guest_used \in Index /\ l \in Index
      /\ Num \in Nat /\ IndexMod \in Nat /\ Num < IndexMod
      /\ Dist(guest_used, l) \in Nat
  BY IndexTypes, NumFacts, DistFacts, ZenonT(60)
<1>2. /\ FilledIdx \in Index
      /\ Dist(guest_used, FilledIdx) \in Nat
      /\ Dist(guest_used, l) < Dist(guest_used, FilledIdx)
      /\ Dist(guest_used, FilledIdx) <= Num
  BY <1>1, FilledFacts, DistFacts, ZenonT(60)
<1>3. l \in InFlight /\ l \in Pending
  BY <1>1, <1>2, PendingTail DEF InFlight
<1>4. \A x \in InFlight \ Pending : Slot(x) # Slot(l)
  <2> SUFFICES ASSUME NEW x \in InFlight, x \notin Pending PROVE Slot(x) # Slot(l)
    BY Zenon
  <2>0. x \in Index /\ x # l
    BY <1>3, Zenon DEF InFlight
  <2>1. Dist(guest_used, x) < Dist(guest_used, l) /\ Dist(guest_used, x) \in Nat
    BY <1>1, <2>0, PendingTail, DistFacts
  <2>2. Dist(x, l) = Dist(guest_used, l) - Dist(guest_used, x)
    BY <1>1, <2>0, <2>1, DistSum
  <2>3. Dist(x, l) < Num
    BY <1>1, <1>2, <2>1, <2>2
  <2> QED
    BY <1>1, <2>0, <2>3, SlotDistinct, ZenonT(60)
<1> QED
  BY <1>3, <1>4, Zenon

(* A processed chain stops being pending.                                  *)
LEMMA FinishWindow ==
    ASSUME TypeOK, IndexWindow, pc = "finish", FinishDesc
    PROVE  LET l == last_avail_idx
           IN /\ l \in InFlight /\ l \in Pending /\ InFlight' = InFlight
              /\ \A x \in Index : x \in Pending' <=> x \in Pending /\ x # l
<1> DEFINE l == last_avail_idx
<1>1. /\ guest_used \in Index /\ l \in Index
      /\ Num \in Nat /\ IndexMod \in Nat /\ Num < IndexMod
      /\ Dist(guest_used, l) \in Nat
  BY IndexTypes, NumFacts, DistFacts, ZenonT(60)
<1>2. /\ last_avail_idx' = Inc(l)
      /\ UNCHANGED <<avail_idx, staged, guest_used>>
  BY Zenon DEF FinishDesc, guest
<1>3. /\ FilledIdx \in Index /\ FilledIdx' = FilledIdx /\ InFlight' = InFlight
      /\ Dist(guest_used, FilledIdx) \in Nat
      /\ Dist(guest_used, l) < Dist(guest_used, FilledIdx)
      /\ Dist(guest_used, FilledIdx) <= Num
  BY <1>1, <1>2, FilledFacts, DistFacts, ZenonT(60) DEF FilledIdx, InFlight
<1>4. Dist(guest_used, Inc(l)) = Dist(guest_used, l) + 1 /\ Inc(l) \in Index
  BY <1>1, <1>3, DistIncFar, IncIndex
<1>5. l \in InFlight /\ l \in Pending
  BY UsedSlotFree, Zenon
<1>6. \A x \in Index : x \in Pending' <=> x \in Pending /\ x # l
  <2> SUFFICES ASSUME NEW x \in Index PROVE x \in Pending' <=> x \in Pending /\ x # l
    BY Zenon
  <2>1. Dist(Inc(l), x) < Dist(Inc(l), FilledIdx)
          <=> Dist(guest_used, Inc(l)) <= Dist(guest_used, x)
              /\ Dist(guest_used, x) < Dist(guest_used, FilledIdx)
    BY <1>1, <1>3, <1>4, SubWindow
  <2>2. Dist(guest_used, x) \in Nat /\ (Dist(guest_used, x) = Dist(guest_used, l) <=> x = l)
    BY <1>1, DistFacts, DistEqual, Zenon
  <2>3. x \in Pending <=> /\ Dist(guest_used, x) < Dist(guest_used, FilledIdx)
                          /\ Dist(guest_used, l) <= Dist(guest_used, x)
    BY PendingTail, Zenon DEF InFlight
  <2>4. x \in Pending' <=> Dist(Inc(l), x) < Dist(Inc(l), FilledIdx)
    BY <1>2, <1>3, Zenon DEF Pending
  <2> QED
    BY <1>1, <1>4, <2>1, <2>2, <2>3, <2>4
<1> QED
  BY <1>3, <1>5, <1>6, Zenon

(* A processed chain moves from the avail to the used ring at the same     *)
(* index, into a slot no chain in flight occupies.                         *)
LEMMA FinishStep ==
    ASSUME Ownership, FinishDesc
    PROVE  ExactlyOnce' /\ ChainShape' /\ WalkInv'
<1> USE DEF Ownership
<1> DEFINE l == last_avail_idx
<1>1. /\ guest_used \in Index /\ l \in Index
      /\ Num \in Nat /\ IndexMod \in Nat /\ Num < IndexMod
      /\ Dist(guest_used, l) \in Nat
  BY IndexTypes, NumFacts, DistFacts, ZenonT(60)
<1>2. /\ pc = "finish" /\ pc' = "test" /\ len > 0
      /\ last_avail_idx' = Inc(l)
      /\ used_ring' = [used_ring EXCEPT ![Slot(l)] = [id |-> d_idx, len |-> len]]
      /\ UNCHANGED <<desc, avail_ring, avail_idx, chain, staged, guest_used>>
  <2>1. pc = "finish" /\ len > 0 /\ last_used_idx = l
    BY ZenonT(60) DEF FinishDesc, WalkInv, IndexWindow
  <2>2. len # 0
    BY <2>1, NotBoth, Zenon
  <2> QED
    BY <2>1, <2>2, ZenonT(60) DEF FinishDesc, guest
<1>3. InFlight' = InFlight
  BY <1>2, FinishWindow, Zenon
<1>5. l \in InFlight /\ l \in Pending
  BY <1>2, FinishWindow, Zenon
<1>6. \A x \in Index : x \in Pending' <=> x \in Pending /\ x # l
  BY <1>2, FinishWindow, Zenon
<1> DEFINE HeadNext(x) == IF x \in Pending' THEN avail_ring'[Slot(x)]
                                            ELSE used_ring'[Slot(x)].id
<1>7. \A x \in InFlight : HeadNext(x) = HeadAt(x)
  <2> SUFFICES ASSUME NEW x \in InFlight PROVE HeadNext(x) = HeadAt(x)
    BY Zenon
  <2>0. x \in Index /\ Slot(x) \in Descs /\ Slot(l) \in Descs
    BY <1>1, SlotType, ZenonT(60) DEF InFlight
  <2>1. CASE x = l
    BY <1>2, <1>5, <1>6, <2>0, <2>1, Zenon DEF HeadAt, WalkInv, TypeOK
  <2>2. CASE x # l /\ x \in Pending
    BY <1>2, <1>6, <2>0, <2>2, Zenon DEF HeadAt
  <2>3. CASE x # l /\ x \notin Pending
    <3>4. Slot(x) # Slot(l)
      BY <1>2, <2>3, UsedSlotFree, Zenon
    <3> QED
      BY <1>2, <1>6, <2>0, <2>3, <3>4, ZenonT(60) DEF HeadAt, TypeOK
  <2> QED
    BY <2>1, <2>2, <2>3, Zenon
<1>8. ExactlyOnce'
  <2> HIDE DEF HeadNext
  <2>1. {HeadNext(x) : x \in InFlight'} = {HeadAt(x) : x \in InFlight}
    BY <1>3, <1>7, ZenonT(60)
  <2>2. \A x, y \in InFlight' : HeadNext(x) = HeadNext(y) => x = y
    BY <1>3, <1>7, SMTT(60) DEF ExactlyOnce
  <2>3. {HeadNext(x) : x \in InFlight'} = {h \in Descs : chain'[h] # {}}
    BY <1>2, <2>1, Zenon DEF ExactlyOnce
  <2> QED
    BY <2>2, <2>3, Zenon DEF ExactlyOnce, HeadAt, HeadNext
<1>9. ChainShape' /\ WalkInv'
  BY <1>2, Zenon DEF ChainShape, WalkInv
<1> QED
  BY <1>8, <1>9, Zenon

(* The used entry of a chain of which too little was copied is written     *)
(* into a slot no processed chain in flight occupies.                      *)
LEMMA CrashStep ==
    ASSUME Ownership, CrashDesc
    PROVE  ExactlyOnce' /\ ChainShape' /\ WalkInv'
<1> USE DEF Ownership
<1> DEFINE l == last_avail_idx
           e == [id |-> d_idx, len |-> len]
<1>1. /\ pc = "finish" /\ pc' = "crashed" /\ len < HdrLen
      /\ used_ring' = [used_ring EXCEPT ![Slot(l)] = e]
      /\ UNCHANGED <<desc, avail_ring, avail_idx, chain, staged, guest_used>>
      /\ UNCHANGED <<last_avail_idx, d_idx, len>>
  BY ZenonT(60) DEF CrashDesc, PayloadWraps, IndexWindow, guest
<1>2. l \in InFlight /\ l \in Pending /\ \A x \in InFlight \ Pending : Slot(x) # Slot(l)
  BY <1>1, UsedSlotFree, Zenon
<1>3. FilledIdx' = FilledIdx /\ InFlight' = InFlight /\ Pending' = Pending
  BY <1>1, Zenon DEF FilledIdx, InFlight, Pending
<1> DEFINE HeadNext(x) == IF x \in Pending' THEN avail_ring'[Slot(x)]
                                            ELSE used_ring'[Slot(x)].id
<1> HIDE DEF e
<1>4. \A x \in InFlight : HeadNext(x) = HeadAt(x)
  <2> SUFFICES ASSUME NEW x \in InFlight PROVE HeadNext(x) = HeadAt(x)
    BY Zenon
  <2>1. CASE x \in Pending
    BY <1>1, <1>3, <2>1, Zenon DEF HeadAt
  <2>2. CASE x \notin Pending
    <3>1. Slot(x) # Slot(l) /\ Slot(x) \in Descs
      BY <1>2, <2>2, SlotType, Zenon DEF InFlight
    <3>2. used_ring'[Slot(x)] = used_ring[Slot(x)]
      BY <1>1, <3>1, Zenon DEF TypeOK
    <3> QED
      BY <1>3, <2>2, <3>2, Zenon DEF HeadAt
  <2> QED
    BY <2>1, <2>2, Zenon
<1>5. ExactlyOnce'
  <2> HIDE DEF HeadNext
  <2>1. {HeadNext(x) : x \in InFlight'} = {HeadAt(x) : x \in InFlight}
    BY <1>3, <1>4, ZenonT(60)
  <2>2. \A x, y \in InFlight' : HeadNext(x) = HeadNext(y) => x = y
    BY <1>3, <1>4, SMTT(60) DEF ExactlyOnce
  <2>3. {HeadNext(x) : x \in InFlight'} = {h \in Descs : chain'[h] # {}}
    BY <1>1, <2>1, Zenon DEF ExactlyOnce
  <2> QED
    BY <2>2, <2>3, Zenon DEF ExactlyOnce, HeadAt, HeadNext
<1>6. ChainShape' /\ WalkInv'
  BY <1>1, Zenon DEF ChainShape, WalkInv
<1> QED
  BY <1>5, <1>6, Zenon

(* The chain process_desc is about to walk is in flight.                   *)
LEMMA NextChain ==
    ASSUME TypeOK, IndexWindow, ExactlyOnce, last_avail_idx # avail_idx
    PROVE  /\ Slot(last_avail_idx) \in Descs
           /\ avail_ring[Slot(last_avail_idx)] \in Descs
           /\ chain[avail_ring[Slot(last_avail_idx)]] # {}
           /\ HeadAt(last_avail_idx) = avail_ring[Slot(last_avail_idx)]
<1>1. /\ guest_used \in Index /\ last_avail_idx \in Index /\ avail_idx \in Index
      /\ Dist(guest_used, last_avail_idx) \in Nat
      /\ Dist(guest_used, avail_idx) \in Nat
      /\ FilledIdx \in Index
      /\ Dist(guest_used, FilledIdx) \in Nat
  BY IndexTypes, DistFacts, FilledFacts, ZenonT(60)
<1>2. Dist(guest_used, last_avail_idx) < Dist(guest_used, FilledIdx)
  BY <1>1, DistEqual, FilledFacts, SMTT(60) DEF IndexWindow
<1>3. last_avail_idx \in InFlight /\ last_avail_idx \in Pending
  BY <1>1, <1>2, PendingTail DEF InFlight
<1>4. HeadAt(last_avail_idx) = avail_ring[Slot(last_avail_idx)]
  BY <1>3, Zenon DEF HeadAt
<1>5. HeadAt(last_avail_idx) \in {h \in Descs : chain[h] # {}}
  BY <1>3, Zenon DEF ExactlyOnce
<1> QED
  BY <1>1, <1>4, <1>5, SlotType, Zenon

(* Every step keeps the ownership of the buffers.                          *)
LEMMA OwnershipStep ==
    ASSUME FirstFits
    PROVE  Ownership /\ [Next]_vars => Ownership'
<1> SUFFICES ASSUME Ownership, [Next]_vars PROVE Ownership'
  BY Zenon
<1> USE DEF Ownership
<1>0. TypeOK' /\ IndexWindow'
  BY TypeStep, WindowStep, Zenon
<1> SUFFICES ExactlyOnce' /\ ChainShape' /\ WalkInv'
  BY <1>0, Zenon
<1>1. ASSUME NEW c \in ChainLens, NEW s \in [1..Len(c) -> Free], GuestAdd(c, s)
      PROVE  ExactlyOnce' /\ ChainShape' /\ WalkInv'
  BY <1>0, <1>1, AddStep, ZenonT(60)
<1>2. CASE GuestPublish
  <2>1. /\ FilledIdx' = FilledIdx
        /\ UNCHANGED <<desc, avail_ring, used_ring, chain, guest_used, last_avail_idx>>
        /\ UNCHANGED <<pc, d_idx, i, len>>
    BY <1>2, Zenon DEF GuestPublish, FilledIdx, server, locals
  <2>2. ExactlyOnce' /\ ChainShape'
    BY <2>1, QuietStep, Zenon
  <2> QED
    BY <2>1, <2>2, Zenon DEF WalkInv
<1>3. CASE GuestKick
  BY <1>3, QuietStep, Zenon DEF GuestKick, FilledIdx, WalkInv, guest, server, locals
<1>4. CASE GuestReclaim
  BY <1>4, ReclaimStep, Zenon
<1>5. CASE SelectTimeout
  BY <1>5, QuietStep, Zenon DEF SelectTimeout, FilledIdx, WalkInv, shared, guest
<1>6. CASE KickServer
  BY <1>6, QuietStep, Zenon DEF KickServer, FilledIdx, WalkInv, guest
<1>7. CASE PollHandler
  BY <1>7, QuietStep, Zenon DEF PollHandler, FilledIdx, WalkInv, shared, guest
<1>8. CASE ProcessAvailVring
  BY <1>8, QuietStep, ZenonT(60) DEF ProcessAvailVring, FilledIdx, WalkInv, shared, guest
<1>9. CASE EndOfAvail
  <2>1. pc' \notin {"walk", "finish", "crashed"}
    BY <1>9, ZenonT(60) DEF EndOfAvail, TypeOK
  <2> QED
    BY <1>9, <2>1, QuietStep, Zenon DEF EndOfAvail, FilledIdx, WalkInv, guest
<1>10. CASE ProcessDesc
  <2>1. ExactlyOnce' /\ ChainShape'
    BY <1>10, QuietStep, Zenon DEF ProcessDesc, FilledIdx, shared, guest
  <2>2. /\ last_avail_idx # avail_idx /\ a_idx = Slot(last_avail_idx)
        /\ d_idx' = avail_ring[a_idx] /\ i' = avail_ring[a_idx] /\ len' = 0
        /\ pc' = "walk" /\ UNCHANGED <<chain, avail_ring, last_avail_idx>>
    BY <1>10, ZenonT(60) DEF ProcessDesc, IndexWindow, shared, guest
  <2>3. avail_ring[a_idx] \in chain[avail_ring[a_idx]]
    BY <2>2, NextChain, Zenon DEF ChainShape
  <2> QED
    BY <2>1, <2>2, <2>3, Zenon DEF WalkInv
<1>11. CASE CopyDesc
  <2>1. ExactlyOnce' /\ ChainShape'
    BY <1>11, QuietStep, Zenon DEF CopyDesc, FilledIdx, shared, guest
  <2>2. /\ pc = "walk" /\ i \in chain[d_idx] /\ d_idx \in Descs /\ i \in Descs
        /\ desc[i].len \in Nat /\ desc[i].next \in chain[d_idx] \cup {NoNext}
        /\ len \in Nat /\ (len = 0 => i = d_idx) /\ (len = 0 \/ len >= desc[d_idx].len)
        /\ desc[d_idx].len \in Nat /\ EthPacketSize \in Nat
    BY <1>11, SizeAssumption, Zenon DEF CopyDesc, WalkInv, ChainShape, TypeOK
  <2>3. len = 0 => /\ 0 < desc[i].len /\ desc[i].len < EthPacketSize
                   /\ desc[i].len = desc[d_idx].len
    BY <2>2, Zenon DEF ChainShape
  <2>4. UNCHANGED <<desc, chain, avail_ring, last_avail_idx, d_idx>>
    BY <1>11, Zenon DEF CopyDesc, shared, guest
  <2>5. CASE ~(len + desc[i].len < EthPacketSize)
    <3>1. pc' = "finish" /\ len' = len
      BY <1>11, <2>5, Zenon DEF CopyDesc
    <3>2. len > 0 /\ len >= desc[d_idx].len
      BY <2>2, <2>3, <2>5, SMT
    <3> QED
      BY <2>1, <2>2, <2>4, <3>1, <3>2, ZenonT(60) DEF WalkInv
  <2>6. CASE len + desc[i].len < EthPacketSize
    <3>1. len' = len + desc[i].len /\ len' > 0 /\ len' >= desc[d_idx].len
      BY <1>11, <2>2, <2>3, <2>6, SMTT(60) DEF CopyDesc
    <3>2. \/ pc' = "walk" /\ i' = desc[i].next /\ desc[i].next # NoNext
          \/ pc' = "finish"
      BY <1>11, <2>6, Zenon DEF CopyDesc
    <3>3. len' # 0
      BY <3>1, SMTT(60)
    <3> QED
      BY <2>1, <2>2, <2>4, <3>1, <3>2, <3>3, ZenonT(60) DEF WalkInv
  <2> QED
    BY <2>1, <2>5, <2>6, Zenon
<1>12. CASE FinishDesc
  BY <1>12, FinishStep, Zenon
<1>13. CASE EchoBuffer
  BY <1>13, QuietStep, ZenonT(60) DEF EchoBuffer, FilledIdx, WalkInv, shared, guest
<1>14. CASE UNCHANGED vars
  BY <1>14, QuietStep, Zenon DEF FilledIdx, WalkInv, vars, shared, guest, server, locals
<1>15. CASE CrashDesc
  BY <1>15, CrashStep, Zenon
<1> QED
  BY <1>1, <1>2, <1>3, <1>4, <1>5, <1>6, <1>7, <1>8, <1>9, <1>10, <1>11,
     <1>12, <1>13, <1>14, <1>15, ZenonT(60) DEF Next, GuestNext, ServerNext

(* The inductive invariant holds throughout.                               *)
LEMMA OwnershipCorrect ==
    ASSUME FirstFits
    PROVE  Spec => []Ownership
<1>1. Init => Ownership
  <2> SUFFICES ASSUME Init PROVE Ownership
    BY Zenon
  <2>1. TypeOK /\ IndexWindow
    BY TypeInit, WindowInit, Zenon
  <2>2. InFlight = {}
    <3>1. \A x \in Index : ~(Dist(0, x) < Dist(0, 0))
      BY NumFacts DEF Dist, Index
    <3> QED
      BY <3>1, Zenon DEF Init, InFlight, FilledIdx
  <2>3. \A h \in Descs : chain[h] = {}
    BY Zenon DEF Init
  <2> QED
    BY <2>1, <2>2, <2>3, Zenon DEF Init, Ownership, ExactlyOnce, ChainShape, WalkInv
<1>2. Ownership /\ [Next]_vars => Ownership'
  BY OwnershipStep, Zenon
<1> QED
  BY <1>1, <1>2, PTL DEF Spec

(* As long as the first descriptor of every chain fits the packet buffer,  *)
(* the transmit path neither loses a buffer nor returns one twice.         *)
THEOREM NoBufferLostOrDuplicated ==
    ASSUME FirstFits
    PROVE  Spec => []ExactlyOnce
<1>1. Ownership => ExactlyOnce
  BY ZenonT(60) DEF Ownership
<1> QED
  BY <1>1, OwnershipCorrect, PTL

(* Under the same condition process_desc never reads a descriptor that the *)
(* driver has not handed over, or has taken back.                          *)
THEOREM OnlyHandedOverIsRead ==
    ASSUME FirstFits
    PROVE  Spec => []ReadsOnlyHandedOver
<1>1. Ownership => ReadsOnlyHandedOver
  BY NextChain, ZenonT(60) DEF Ownership, WalkInv, IndexWindow, ReadsOnlyHandedOver
<1> QED
  BY <1>1, OwnershipCorrect, PTL

(* A used entry the driver can see is not overwritten before it is taken,  *)
(* whatever the packets look like.                                         *)
THEOREM VisibleEntriesStable == Spec => VisibleUsedStable
<1> DEFINE Stable == \A x \in Index :
                        Dist(guest_used, x) < Dist(guest_used, used_idx)
                          => used_ring'[Slot(x)] = used_ring[Slot(x)]
<1>1. TypeOK /\ IndexWindow /\ [Next]_vars => [Stable]_vars
  <2> SUFFICES ASSUME TypeOK, IndexWindow, [Next]_vars PROVE Stable
    BY ZenonT(60)
  <2>1. CASE FinishDesc \/ CrashDesc
    <3> SUFFICES ASSUME NEW x \in Index,
                        Dist(guest_used, x) < Dist(guest_used, used_idx)
                 PROVE  used_ring'[Slot(x)] = used_ring[Slot(x)]
      BY Zenon
    <3>1. /\ guest_used \in Index /\ used_idx \in Index /\ last_used_idx \in Index
          /\ avail_idx \in Index /\ last_avail_idx \in Index
          /\ Num \in Nat
          /\ Dist(guest_used, x) \in Nat /\ Dist(guest_used, used_idx) \in Nat
          /\ Dist(guest_used, last_used_idx) \in Nat
          /\ Dist(guest_used, avail_idx) \in Nat
      BY IndexTypes, DistFacts, NumFacts, Zenon
    <3>2. last_used_idx = last_avail_idx /\ last_avail_idx # avail_idx
      BY <2>1, Zenon DEF FinishDesc, CrashDesc, IndexWindow
    <3>3. Dist(guest_used, last_used_idx) < Dist(guest_used, avail_idx)
      BY <3>1, <3>2, DistEqual, SMTT(60) DEF IndexWindow
    <3>4. /\ Dist(x, last_used_idx) = Dist(guest_used, last_used_idx) - Dist(guest_used, x)
          /\ x # last_used_idx
      BY <3>1, DistSum, SMTT(60) DEF IndexWindow
    <3>5. Dist(x, last_used_idx) < Num
      BY <3>1, <3>3, <3>4 DEF IndexWindow
    <3>6. Slot(x) # Slot(last_used_idx) /\ Slot(x) \in Descs
      BY <3>1, <3>4, <3>5, SlotDistinct, SlotType, ZenonT(60)
    <3> QED
      BY <2>1, <3>6, Zenon DEF FinishDesc, CrashDesc, TypeOK
  <2>2. ASSUME NEW c \in ChainLens, NEW s \in [1..Len(c) -> Free], GuestAdd(c, s)
        PROVE  used_ring' = used_ring
    BY <2>2, Zenon DEF GuestAdd
  <2>3. CASE ~FinishDesc /\ ~CrashDesc
    <3>1. used_ring' = used_ring
      BY <2>2, <2>3, Zenon DEF Next, GuestNext, ServerNext, GuestPublish, GuestKick,
         GuestReclaim, SelectTimeout, KickServer, PollHandler, ProcessAvailVring,
         EndOfAvail, ProcessDesc, CopyDesc, EchoBuffer, vars, shared
    <3> QED
      BY <3>1, Zenon
  <2> QED
    BY <2>1, <2>3, Zenon
<1> QED
  BY <1>1, TypeCorrect, WindowCorrect, PTL DEF Spec, VisibleUsedStable

(* Outside process_avail_vring every packet that was processed is          *)
(* published: used->idx is stored only where avail is exhausted, but there *)
(* is no other way out of the loop, the server's death apart.              *)
NothingHeldBack == pc \notin {"test", "walk", "finish", "crashed"} => used_idx = last_used_idx

(* No processed packet waits for the next one to be published with it: the *)
(* safety part of EventuallyReturned, whatever the packets look like.      *)
THEOREM ProcessedIsPublished == Spec => []NothingHeldBack
<1>1. Init => NothingHeldBack
  BY Zenon DEF Init, NothingHeldBack
<1>2. NothingHeldBack /\ [Next]_vars => NothingHeldBack'
  <2> SUFFICES ASSUME NothingHeldBack, [Next]_vars PROVE NothingHeldBack'
    OBVIOUS
  <2> USE DEF shared, guest, server, locals
  <2>1. ASSUME GuestNext \/ UNCHANGED vars PROVE UNCHANGED <<pc, used_idx, last_used_idx>>
    <3>1. ASSUME NEW c \in ChainLens, NEW s \in [1..Len(c) -> Free], GuestAdd(c, s)
          PROVE  UNCHANGED <<pc, used_idx, last_used_idx>>
      BY <3>1, Zenon DEF GuestAdd
    <3> QED
      BY <2>1, <3>1, Zenon DEF GuestNext, GuestPublish, GuestKick, GuestReclaim, vars
  <2>2. CASE EndOfAvail
    BY <2>2, Zenon DEF EndOfAvail, NothingHeldBack
  <2>3. CASE ProcessAvailVring \/ ProcessDesc \/ CopyDesc \/ FinishDesc \/ CrashDesc
    <3>1. pc' \in {"test", "walk", "finish", "crashed"}
      BY <2>3 DEF ProcessAvailVring, ProcessDesc, CopyDesc, FinishDesc, CrashDesc
    <3> QED
      BY <3>1, ZenonT(60) DEF NothingHeldBack
  <2>4. CASE SelectTimeout \/ KickServer \/ PollHandler \/ EchoBuffer
    <3>1. pc \notin {"test", "walk", "finish", "crashed"} /\ UNCHANGED <<used_idx, last_used_idx>>
      BY <2>4 DEF SelectTimeout, KickServer, PollHandler, EchoBuffer
    <3> QED
      BY <3>1, Zenon DEF NothingHeldBack
  <2>5. CASE UNCHANGED <<pc, used_idx, last_used_idx>>
    BY <2>5, Zenon DEF NothingHeldBack
  <2> QED
    BY <2>1, <2>2, <2>3, <2>4, <2>5, Zenon DEF Next, ServerNext
<1> QED
  BY <1>1, <1>2, PTL DEF Spec

-----------------------------------------------------------------------------
(* Sums over the descriptor table.                                         *)

(* A set of numbers that is not empty has a least member.                  *)
LEMMA LeastNumber ==
    ASSUME NEW S, S \subseteq Nat, S # {}
    PROVE  \E x \in S : \A y \in S : x <= y
<1>1. \E x \in S : \A y \in S : ~(<<y, x>> \in OpToRel(<, Nat))
  BY NatLessThanWellFounded, WFMin, Zenon
<1>2. \E x \in S : \A y \in S : ~(<<y, x>> \in {ss \in Nat \X Nat : ss[1] < ss[2]})
  BY <1>1, Zenon DEF OpToRel
<1>3. PICK x \in S : \A y \in S : ~(<<y, x>> \in {ss \in Nat \X Nat : ss[1] < ss[2]})
  BY <1>2, Zenon
<1>4. ASSUME NEW y \in S PROVE x <= y
  <2>1. x \in Nat /\ y \in Nat /\ <<y, x>> \in Nat \X Nat
    OBVIOUS
  <2>2. <<y, x>>[1] = y /\ <<y, x>>[2] = x
    OBVIOUS
  <2> QED
    BY <1>3, <2>1, <2>2
<1> QED
  BY <1>4, Zenon

(* What holds before a loop and is kept by each of its N rounds holds after *)
(* every round.                                                            *)
LEMMA BoundedInduction ==
    ASSUME NEW N \in Nat, NEW S, 0 \in S,
           \A n \in 0..N : n # N /\ n \in S => n + 1 \in S
    PROVE  \A n \in 0..N : n \in S
<1> DEFINE T == {n \in 0..N : n \notin S}
<1> SUFFICES ASSUME T # {} PROVE FALSE
  OBVIOUS
<1>1. PICK x \in T : \A y \in T : x <= y
  <2>1. T \subseteq Nat
    OBVIOUS
  <2> QED
    BY <2>1, LeastNumber, Zenon
<1>2. x \in 0..N /\ x # 0
  BY <1>1
<1>3. x - 1 \in 0..N /\ x - 1 # N /\ x - 1 + 1 = x
  BY <1>2
<1>4. x - 1 \in S
  BY <1>1, <1>3
<1> QED
  BY <1>1, <1>3, <1>4, Zenon

\* The sum after each descriptor.
TotalLoop(w, N, f) == f = [n \in 0..N |-> IF n = 0 THEN 0 ELSE f[n - 1] + w[n - 1]]

(* What adding one more descriptor does.                                   *)
LEMMA TotalRound ==
    ASSUME NEW w, NEW N \in Nat, NEW f, TotalLoop(w, N, f)
    PROVE  /\ f[0] = 0
           /\ \A n \in 0..N : n # N => f[n + 1] = f[n] + w[n]
<1>1. ASSUME NEW k \in 0..N
      PROVE  /\ k = 0 => f[k] = 0
             /\ k # 0 => f[k] = f[k - 1] + w[k - 1]
  BY Zenon DEF TotalLoop
<1>2. ASSUME NEW n \in 0..N, n # N PROVE f[n + 1] = f[n] + w[n]
  <2>1. PICK k \in 0..N : k = n + 1 /\ k # 0 /\ k - 1 = n
    BY <1>2
  <2> QED
    BY <1>1, <2>1, Zenon
<1>3. 0 \in 0..N
  OBVIOUS
<1> QED
  BY <1>1, <1>2, <1>3, Zenon

(* There is a sum after any number of descriptors.                         *)
LEMMA TotalRuns ==
    ASSUME NEW w, NEW N \in Nat
    PROVE  \E f : TotalLoop(w, N, f)
<1> DEFINE S == {n \in 0..N : \E f : TotalLoop(w, n, f)}
<1>1. 0 \in S
  <2> DEFINE z == [n \in 0..0 |-> 0]
             y == [n \in 0..0 |-> IF n = 0 THEN 0 ELSE z[n - 1] + w[n - 1]]
  <2>1. ASSUME NEW n \in 0..0 PROVE z[n] = y[n]
    <3>1. n = 0
      OBVIOUS
    <3> QED
      BY <3>1, Zenon
  <2>2. z = y
    BY <2>1, Zenon
  <2>3. TotalLoop(w, 0, z)
    BY <2>2, Zenon DEF TotalLoop
  <2>4. 0 \in 0..N
    OBVIOUS
  <2> QED
    BY <2>3, <2>4, Zenon
<1>2. ASSUME NEW n \in 0..N, n # N, n \in S PROVE n + 1 \in S
  <2>1. PICK f : TotalLoop(w, n, f)
    BY <1>2, Zenon
  <2> DEFINE last == f[n] + w[n]
             g == [k \in 0..(n + 1) |-> IF k = n + 1 THEN last ELSE f[k]]
             h == [k \in 0..(n + 1) |-> IF k = 0 THEN 0 ELSE g[k - 1] + w[k - 1]]
  <2>2. ASSUME NEW k \in 0..(n + 1) PROVE g[k] = h[k]
    <3>1. CASE k = n + 1
      <4>1. n + 1 # 0 /\ n + 1 - 1 = n /\ n # n + 1 /\ n \in 0..(n + 1)
        OBVIOUS
      <4>2. g[n] = f[n] /\ g[n + 1] = last
        BY <4>1
      <4>3. k # 0 /\ k - 1 = n
        BY <3>1
      <4>4. h[k] = g[k - 1] + w[k - 1]
        BY <4>3, Zenon
      <4> QED
        BY <3>1, <4>2, <4>3, <4>4, Zenon
    <3>2. CASE k # n + 1
      <4>1. k \in 0..n
        BY <3>2
      <4>2. g[k] = f[k]
        BY <3>2, Zenon
      <4>3. f[k] = IF k = 0 THEN 0 ELSE f[k - 1] + w[k - 1]
        BY <2>1, <4>1, Zenon DEF TotalLoop
      <4>4. k # 0 => k - 1 \in 0..(n + 1) /\ k - 1 # n + 1
        BY <4>1
      <4>5. k # 0 => g[k - 1] = f[k - 1]
        BY <4>4, Zenon
      <4>6. h[k] = IF k = 0 THEN 0 ELSE g[k - 1] + w[k - 1]
        BY Zenon
      <4> QED
        BY <4>2, <4>3, <4>5, <4>6, Zenon
    <3> QED
      BY <3>1, <3>2, Zenon
  <2>3. g = h
    BY <2>2, Zenon
  <2>4. TotalLoop(w, n + 1, g)
    BY <2>3, Zenon DEF TotalLoop
  <2>5. n + 1 \in 0..N
    BY <1>2
  <2> QED
    BY <2>4, <2>5, Zenon
<1>3. \A n \in 0..N : n \in S
  <2> HIDE DEF S
  <2> QED
    BY <1>1, <1>2, BoundedInduction, Zenon
<1>4. N \in 0..N
  OBVIOUS
<1> QED
  BY <1>3, <1>4, Zenon

(* The sum over the table, descriptor by descriptor.                       *)
LEMMA TotalSteps ==
    ASSUME NEW w
    PROVE  \E f : /\ f[0] = 0 /\ Total(w) = f[Num]
                  /\ \A n \in 0..Num : n # Num => f[n + 1] = f[n] + w[n]
<1> DEFINE f == CHOOSE f : TotalLoop(w, Num, f)
<1>1. Num \in Nat
  BY NumFacts, Zenon
<1>2. TotalLoop(w, Num, f)
  BY <1>1, TotalRuns, Zenon
<1>3. Total(w) = f[Num]
  BY Zenon DEF Total, TotalLoop
<1> HIDE DEF f
<1>4. /\ f[0] = 0
      /\ \A n \in 0..Num : n # Num => f[n + 1] = f[n] + w[n]
  BY <1>1, <1>2, TotalRound, ZenonT(60)
<1> QED
  BY <1>3, <1>4

(* A sum of sizes is a number, and no less than a sum of smaller sizes.    *)
LEMMA TotalMonotone ==
    ASSUME NEW w \in [Descs -> Nat], NEW v \in [Descs -> Nat],
           \A d \in Descs : w[d] <= v[d]
    PROVE  Total(w) \in Nat /\ Total(v) \in Nat /\ Total(w) <= Total(v)
<1>0. Num \in Nat /\ 0 \in 0..Num /\ Num \in 0..Num
  BY NumFacts
<1>1. PICK f : /\ f[0] = 0 /\ Total(w) = f[Num]
               /\ \A n \in 0..Num : n # Num => f[n + 1] = f[n] + w[n]
  BY TotalSteps, Zenon
<1>2. PICK g : /\ g[0] = 0 /\ Total(v) = g[Num]
               /\ \A n \in 0..Num : n # Num => g[n + 1] = g[n] + v[n]
  BY TotalSteps, Zenon
<1> DEFINE S == {n \in 0..Num : f[n] \in Nat /\ g[n] \in Nat /\ f[n] <= g[n]}
<1>3. 0 \in S
  BY <1>0, <1>1, <1>2, SMT
<1>4. ASSUME NEW n \in 0..Num, n # Num, n \in S PROVE n + 1 \in S
  <2>1. n \in Descs /\ n + 1 \in 0..Num
    BY <1>0, <1>4 DEF Descs
  <2>2. w[n] \in Nat /\ v[n] \in Nat /\ w[n] <= v[n]
    BY <2>1, Zenon
  <2>3. f[n + 1] = f[n] + w[n] /\ g[n + 1] = g[n] + v[n]
    BY <1>1, <1>2, <1>4, Zenon
  <2>4. f[n] \in Nat /\ g[n] \in Nat /\ f[n] <= g[n]
    BY <1>4, Zenon
  <2>5. f[n + 1] \in Nat /\ g[n + 1] \in Nat /\ f[n + 1] <= g[n + 1]
    BY <2>2, <2>3, <2>4, SMT
  <2> QED
    BY <2>1, <2>5, Zenon
<1>5. \A n \in 0..Num : n \in S
  <2> HIDE DEF S
  <2> QED
    BY <1>0, <1>3, <1>4, BoundedInduction, Zenon
<1> QED
  BY <1>0, <1>1, <1>2, <1>5, Zenon

(* A sum in which one size is added where there was none.                  *)
LEMMA TotalAdds ==
    ASSUME NEW w \in [Descs -> Nat], NEW v \in [Descs -> Nat], NEW e \in Descs,
           w[e] = 0, \A d \in Descs : d # e => v[d] = w[d]
    PROVE  Total(v) = Total(w) + v[e]
<1>0. Num \in Nat /\ 0 \in 0..Num /\ Num \in 0..Num /\ e \in Nat /\ e < Num
  BY NumFacts DEF Descs
<1>1. PICK f : /\ f[0] = 0 /\ Total(w) = f[Num]
               /\ \A n \in 0..Num : n # Num => f[n + 1] = f[n] + w[n]
  BY TotalSteps, Zenon
<1>2. PICK g : /\ g[0] = 0 /\ Total(v) = g[Num]
               /\ \A n \in 0..Num : n # Num => g[n + 1] = g[n] + v[n]
  BY TotalSteps, Zenon
<1> DEFINE S == {n \in 0..Num : /\ f[n] \in Nat
                                /\ n \in 0..e => g[n] = f[n]
                                /\ n \notin 0..e => g[n] = f[n] + v[e]}
<1>3. 0 \in S
  BY <1>0, <1>1, <1>2, SMT
<1>4. ASSUME NEW n \in 0..Num, n # Num, n \in S PROVE n + 1 \in S
  <2>1. n \in Descs /\ n + 1 \in 0..Num /\ n \in Nat
    BY <1>0, <1>4 DEF Descs
  <2>2. w[n] \in Nat /\ v[n] \in Nat /\ v[e] \in Nat /\ (n # e => v[n] = w[n])
    BY <2>1, Zenon
  <2>3. f[n + 1] = f[n] + w[n] /\ g[n + 1] = g[n] + v[n]
    BY <1>1, <1>2, <1>4, Zenon
  <2>4. /\ f[n] \in Nat
        /\ n \in 0..e => g[n] = f[n]
        /\ n \notin 0..e => g[n] = f[n] + v[e]
    BY <1>4, Zenon
  <2>5. n = e => w[n] = 0 /\ v[n] = v[e]
    BY Zenon
  <2>6. f[n + 1] \in Nat
    BY <2>2, <2>3, <2>4, SMTT(60)
  <2>7. n + 1 \in 0..e => g[n + 1] = f[n + 1]
    BY <1>0, <2>1, <2>2, <2>3, <2>4, SMT
  <2>8. n + 1 \notin 0..e => g[n + 1] = f[n + 1] + v[e]
    <3>1. CASE n = e
      BY <1>0, <2>2, <2>3, <2>4, <2>5, <3>1, SMTT(60)
    <3>2. CASE n # e
      BY <1>0, <2>1, <2>2, <2>3, <2>4, <3>2, SMT
    <3> QED
      BY <3>1, <3>2, Zenon
  <2> QED
    BY <2>1, <2>6, <2>7, <2>8, Zenon
<1>5. \A n \in 0..Num : n \in S
  <2> HIDE DEF S
  <2> QED
    BY <1>0, <1>3, <1>4, BoundedInduction, Zenon
<1>6. Num \notin 0..e
  BY <1>0, SMT
<1>7. g[Num] = f[Num] + v[e]
  BY <1>0, <1>5, <1>6, Zenon
<1> QED
  BY <1>1, <1>2, <1>7, Zenon

(* The sum of no sizes.                                                    *)
LEMMA TotalNone ==
    ASSUME NEW w, \A d \in Descs : w[d] = 0
    PROVE  Total(w) = 0
<1>0. Num \in Nat /\ 0 \in 0..Num /\ Num \in 0..Num
  BY NumFacts
<1>1. PICK f : /\ f[0] = 0 /\ Total(w) = f[Num]
               /\ \A n \in 0..Num : n # Num => f[n + 1] = f[n] + w[n]
  BY TotalSteps, Zenon
<1> DEFINE S == {n \in 0..Num : f[n] = 0}
<1>2. 0 \in S
  BY <1>0, <1>1, Zenon
<1>3. ASSUME NEW n \in 0..Num, n # Num, n \in S PROVE n + 1 \in S
  <2>1. n \in Descs /\ n + 1 \in 0..Num
    BY <1>0, <1>3 DEF Descs
  <2>2. f[n + 1] = 0 + 0
    BY <1>1, <1>3, <2>1, Zenon
  <2>3. f[n + 1] = 0
    BY <2>2, SMT
  <2> QED
    BY <2>1, <2>3, Zenon
<1>4. \A n \in 0..Num : n \in S
  <2> HIDE DEF S
  <2> QED
    BY <1>0, <1>2, <1>3, BoundedInduction, Zenon
<1> QED
  BY <1>0, <1>1, <1>4, Zenon

\* The tables the driver can write.
Tables == [Descs -> [len : Nat, next : Descs \cup {NoNext}]]

(* Lens is a vector of sizes.                                              *)
LEMMA LensType ==
    ASSUME NEW t \in Tables, NEW D
    PROVE  /\ Lens(t, D) \in [Descs -> Nat]
           /\ \A d \in Descs : /\ d \in D => Lens(t, D)[d] = t[d].len
                               /\ d \notin D => Lens(t, D)[d] = 0
<1>1. \A d \in Descs : t[d].len \in Nat
  BY DEF Tables
<1>2. \A d \in Descs : /\ d \in D => Lens(t, D)[d] = t[d].len
                       /\ d \notin D => Lens(t, D)[d] = 0
  BY Zenon DEF Lens
<1>3. \A d \in Descs : Lens(t, D)[d] \in Nat
  BY <1>1, <1>2, SMT
<1>4. Lens(t, D) = [d \in Descs |-> Lens(t, D)[d]]
  BY Zenon DEF Lens
<1> QED
  BY <1>2, <1>3, <1>4, Zenon

(* The sizes depend only on the descriptors they are the sizes of.         *)
LEMMA LensSame ==
    ASSUME NEW t, NEW u, NEW D, \A d \in D : u[d] = t[d]
    PROVE  Lens(u, D) = Lens(t, D)
<1>1. ASSUME NEW d \in Descs
      PROVE  (IF d \in D THEN u[d].len ELSE 0) = (IF d \in D THEN t[d].len ELSE 0)
  BY Zenon
<1> QED
  BY <1>1, Zenon DEF Lens

(* More descriptors hold no fewer bytes.                                   *)
LEMMA PacketMonotone ==
    ASSUME NEW t \in Tables, NEW D, NEW E, D \subseteq E
    PROVE  /\ Total(Lens(t, D)) \in Nat /\ Total(Lens(t, E)) \in Nat
           /\ Total(Lens(t, D)) <= Total(Lens(t, E))
<1>1. Lens(t, D) \in [Descs -> Nat] /\ Lens(t, E) \in [Descs -> Nat]
  BY LensType, Zenon
<1>2. ASSUME NEW d \in Descs PROVE Lens(t, D)[d] <= Lens(t, E)[d]
  <2>1. Lens(t, E)[d] \in Nat
    BY <1>1, Zenon
  <2>2. Lens(t, D)[d] = Lens(t, E)[d] \/ Lens(t, D)[d] = 0
    <3>1. d \in D => Lens(t, D)[d] = t[d].len /\ Lens(t, E)[d] = t[d].len
      BY Zenon DEF Lens
    <3>2. d \notin D => Lens(t, D)[d] = 0
      BY Zenon DEF Lens
    <3> QED
      BY <3>1, <3>2, Zenon
  <2> QED
    BY <2>1, <2>2, SMT
<1> QED
  BY <1>1, <1>2, TotalMonotone, Zenon

(* One more descriptor adds its size.                                      *)
LEMMA PacketAdds ==
    ASSUME NEW t \in Tables, NEW D, NEW e \in Descs, e \notin D
    PROVE  Total(Lens(t, D \cup {e})) = Total(Lens(t, D)) + t[e].len
<1> DEFINE w == Lens(t, D)
           v == Lens(t, D \cup {e})
<1>1. w \in [Descs -> Nat] /\ v \in [Descs -> Nat]
  BY LensType, Zenon
<1>2. w[e] = 0 /\ v[e] = t[e].len
  BY LensType, Zenon
<1>3. ASSUME NEW d \in Descs, d # e PROVE v[d] = w[d]
  <2>1. d \in D <=> d \in D \cup {e}
    BY <1>3, Zenon
  <2>2. d \in D => w[d] = t[d].len /\ v[d] = t[d].len
    BY Zenon DEF Lens
  <2>3. d \notin D => w[d] = 0 /\ v[d] = 0
    BY <1>3, <2>1 DEF Lens
  <2> QED
    BY <2>2, <2>3, SMT
<1> HIDE DEF w, v
<1>4. Total(v) = Total(w) + v[e]
  BY <1>1, <1>2, <1>3, TotalAdds, Zenon
<1> QED
  BY <1>2, <1>4, Zenon DEF w, v

(* No descriptors hold no bytes.                                           *)
LEMMA PacketNone ==
    ASSUME NEW t \in Tables
    PROVE  Total(Lens(t, {})) = 0
BY LensType, TotalNone, Zenon

-----------------------------------------------------------------------------
(* The length process_desc adds up.                                        *)

\* s lists the n descriptors of the chain C in the order in which `next'
\* links them, the head h first.
Linked(t, C, h, n, s) ==
    /\ s[1] = h
    /\ C = {s[k] : k \in 1..n}
    /\ \A j, k \in 1..n : s[j] = s[k] => j = k
    /\ \A k \in 1..n : t[s[k]].next = IF k = n THEN NoNext ELSE s[k + 1]

\* The chains in flight are linked lists.
ChainsLinked ==
    \A h \in Descs : chain[h] # {} =>
        \E n \in Nat \ {0} : \E s \in [1..n -> Descs] : Linked(desc, chain[h], h, n, s)

\* The bytes of the whole packet whose head is h.
PacketLen(h) == Total(Lens(desc, chain[h]))

\* process_desc has copied the descriptors before the current one, and at
\* the end of the walk the whole packet if it fits.
WalkLength ==
    /\ pc = "walk" =>
          \E n \in Nat \ {0} : \E s \in [1..n -> Descs] : \E k \in 1..n :
              /\ Linked(desc, chain[d_idx], d_idx, n, s)
              /\ i = s[k]
              /\ len = Total(Lens(desc, {s[j] : j \in 1..(k - 1)}))
    /\ pc \in {"finish", "crashed"} =>
          (PacketLen(d_idx) < EthPacketSize => len = PacketLen(d_idx))

\* The inductive invariant behind the length in the used ring.
LengthInv == ChainsLinked /\ WalkLength /\ UsedLenIsPacketLen

(* A list stays linked when its descriptors are not written.               *)
LEMMA LinkedKept ==
    ASSUME NEW t, NEW u, NEW C, NEW h, NEW n, NEW s, Linked(t, C, h, n, s),
           \A d \in C : u[d] = t[d]
    PROVE  Linked(u, C, h, n, s)
<1>1. ASSUME NEW k \in 1..n PROVE u[s[k]].next = t[s[k]].next
  BY Zenon DEF Linked
<1> QED
  BY <1>1, Zenon DEF Linked

\* The k-th descriptor of the list s adds its size to the ones before it,
\* and is the last one exactly when it has no successor.
AtPosition(t, C, n, s, k) ==
    LET before == {s[j] : j \in 1..(k - 1)}
        upto   == {s[j] : j \in 1..k}
    IN /\ Total(Lens(t, upto)) = Total(Lens(t, before)) + t[s[k]].len
       /\ Total(Lens(t, upto)) \in Nat /\ Total(Lens(t, C)) \in Nat
       /\ Total(Lens(t, upto)) <= Total(Lens(t, C))
       /\ t[s[k]].next = NoNext => upto = C
       /\ t[s[k]].next # NoNext => k + 1 \in 1..n /\ t[s[k]].next = s[k + 1]

(* Every descriptor of a linked chain is at such a position.               *)
LEMMA WalkPosition ==
    ASSUME NEW t \in Tables, NEW C, NEW h, NEW n \in Nat \ {0},
           NEW s \in [1..n -> Descs], Linked(t, C, h, n, s), NEW k \in 1..n
    PROVE  AtPosition(t, C, n, s, k)
<1> DEFINE before == {s[j] : j \in 1..(k - 1)}
           upto   == {s[j] : j \in 1..k}
<1>1. /\ \A j \in 1..(k - 1) : j \in 1..n /\ j # k /\ j \in 1..k
      /\ \A j \in 1..k : j \in 1..n /\ (j \in 1..(k - 1) \/ j = k)
      /\ k \in 1..k
      /\ k = n => 1..k = 1..n
      /\ k # n => k + 1 \in 1..n
  BY SMT
<1>2. s[k] \in Descs /\ s[k] \notin before
  <2>1. \A j \in 1..(k - 1) : s[j] # s[k]
    BY <1>1, Zenon DEF Linked
  <2> QED
    BY <2>1, Zenon
<1>3. upto = before \cup {s[k]}
  BY <1>1, Zenon
<1>4. upto \subseteq C
  BY <1>1, Zenon DEF Linked
<1>5. t[s[k]].next = IF k = n THEN NoNext ELSE s[k + 1]
  BY Zenon DEF Linked
<1>6. k # n => s[k + 1] # NoNext
  <2>1. NoNext \notin Descs
    BY NumFacts DEF NoNext, Descs
  <2> QED
    BY <1>1, <2>1, Zenon
<1>7. k = n => upto = C
  <2>1. C = {s[j] : j \in 1..n}
    BY Zenon DEF Linked
  <2> QED
    BY <1>1, <2>1, Zenon
<1> HIDE DEF before, upto
<1>8. Total(Lens(t, upto)) = Total(Lens(t, before)) + t[s[k]].len
  BY <1>2, <1>3, PacketAdds, Zenon
<1>9. /\ Total(Lens(t, upto)) \in Nat /\ Total(Lens(t, C)) \in Nat
      /\ Total(Lens(t, upto)) <= Total(Lens(t, C))
  BY <1>4, PacketMonotone, Zenon
<1>10. /\ t[s[k]].next = NoNext => upto = C
       /\ t[s[k]].next # NoNext => k + 1 \in 1..n /\ t[s[k]].next = s[k + 1]
  BY <1>1, <1>5, <1>6, <1>7, Zenon
<1> QED
  BY <1>8, <1>9, <1>10, Zenon DEF AtPosition, before, upto

(* What process_desc has added up stays right while the chain it walks is  *)
(* not written.                                                            *)
LEMMA WalkKept ==
    ASSUME WalkLength, UNCHANGED <<pc, d_idx, i, len>>,
           pc \in {"walk", "finish", "crashed"} =>
               chain'[d_idx] = chain[d_idx] /\ \A d \in chain[d_idx] : desc'[d] = desc[d]
    PROVE  WalkLength'
<1> DEFINE C == chain[d_idx]
<1>1. ASSUME pc = "walk"
      PROVE  \E n \in Nat \ {0} : \E s \in [1..n -> Descs] : \E k \in 1..n :
                 /\ Linked(desc', C, d_idx, n, s)
                 /\ i = s[k]
                 /\ len = Total(Lens(desc', {s[j] : j \in 1..(k - 1)}))
  <2>1. PICK n \in Nat \ {0} : \E s \in [1..n -> Descs] : \E k \in 1..n :
            /\ Linked(desc, C, d_idx, n, s)
            /\ i = s[k]
            /\ len = Total(Lens(desc, {s[j] : j \in 1..(k - 1)}))
    BY <1>1, Zenon DEF WalkLength
  <2>2. PICK s \in [1..n -> Descs] : \E k \in 1..n :
            /\ Linked(desc, C, d_idx, n, s)
            /\ i = s[k]
            /\ len = Total(Lens(desc, {s[j] : j \in 1..(k - 1)}))
    BY <2>1, Zenon
  <2>3. PICK k \in 1..n : /\ Linked(desc, C, d_idx, n, s)
                          /\ i = s[k]
                          /\ len = Total(Lens(desc, {s[j] : j \in 1..(k - 1)}))
    BY <2>2, Zenon
  <2> DEFINE D == {s[j] : j \in 1..(k - 1)}
  <2>4. \A d \in C : desc'[d] = desc[d]
    BY <1>1, Zenon
  <2>5. Linked(desc', C, d_idx, n, s)
    BY <2>3, <2>4, LinkedKept, Zenon
  <2>6. D \subseteq C
    <3>1. \A j \in 1..(k - 1) : j \in 1..n
      BY SMT
    <3>2. C = {s[j] : j \in 1..n}
      BY <2>3, Zenon DEF Linked
    <3> QED
      BY <3>1, <3>2, Zenon
  <2>7. Lens(desc', D) = Lens(desc, D)
    <3> HIDE DEF C, D
    <3>1. \A d \in D : desc'[d] = desc[d]
      BY <2>4, <2>6, Zenon
    <3> QED
      BY <3>1, LensSame, Zenon
  <2>8. len = Total(Lens(desc', D))
    BY <2>3, <2>7, Zenon
  <2> QED
    BY <2>3, <2>5, <2>8, Zenon
<1>2. ASSUME pc \in {"finish", "crashed"}
      PROVE  chain'[d_idx] = C /\ Lens(desc', C) = Lens(desc, C)
  <2>1. chain'[d_idx] = C /\ \A d \in C : desc'[d] = desc[d]
    BY <1>2, Zenon
  <2> HIDE DEF C
  <2> QED
    BY <2>1, LensSame, ZenonT(60)
<1>3. /\ pc' = pc /\ d_idx' = d_idx /\ i' = i /\ len' = len
      /\ pc = "walk" => chain'[d_idx] = C
  BY Zenon
<1> DEFINE W(t, D) == \E n \in Nat \ {0} : \E s \in [1..n -> Descs] : \E k \in 1..n :
                          /\ Linked(t, D, d_idx', n, s)
                          /\ i' = s[k]
                          /\ len' = Total(Lens(t, {s[j] : j \in 1..(k - 1)}))
<1>4. pc' = "walk" => W(desc', C)
  BY <1>1, <1>3, Zenon
<1>5. pc' = "walk" => W(desc', chain'[d_idx'])
  <2> HIDE DEF W, C
  <2> QED
    BY <1>3, <1>4, Zenon
<1>6. pc' \in {"finish", "crashed"} =>
        (Total(Lens(desc', chain'[d_idx'])) < EthPacketSize
           => len' = Total(Lens(desc', chain'[d_idx'])))
  <2>1. pc \in {"finish", "crashed"} =>
          (Total(Lens(desc, C)) < EthPacketSize => len = Total(Lens(desc, C)))
    BY Zenon DEF WalkLength, PacketLen
  <2> HIDE DEF W, C
  <2> QED
    BY <1>2, <1>3, <2>1, Zenon
<1>7. (pc = "walk" =>
          \E n \in Nat \ {0} : \E s \in [1..n -> Descs] : \E k \in 1..n :
              /\ Linked(desc, chain[d_idx], d_idx, n, s)
              /\ i = s[k]
              /\ len = Total(Lens(desc, {s[j] : j \in 1..(k - 1)})))'
  BY <1>5, Zenon
<1> HIDE DEF W, C
<1> QED
  BY <1>6, <1>7, Zenon DEF WalkLength, PacketLen

(* The used entries stay right while they and their chains are not         *)
(* written.                                                                *)
LEMMA UsedKept ==
    ASSUME UsedLenIsPacketLen, InFlight' \ Pending' \subseteq InFlight \ Pending,
           \A x \in InFlight' \ Pending' :
               LET u == used_ring[Slot(x)]
               IN /\ used_ring'[Slot(x)] = u
                  /\ chain'[u.id] = chain[u.id]
                  /\ \A d \in chain[u.id] : desc'[d] = desc[d]
    PROVE  UsedLenIsPacketLen'
<1> SUFFICES ASSUME NEW x \in InFlight' \ Pending'
             PROVE  LET v == used_ring'[Slot(x)]
                        total == Total(Lens(desc', chain'[v.id]))
                    IN total < EthPacketSize => v.len = total
  BY Zenon DEF UsedLenIsPacketLen
<1> DEFINE u == used_ring[Slot(x)]
<1>1. /\ used_ring'[Slot(x)] = u /\ chain'[u.id] = chain[u.id]
      /\ \A d \in chain[u.id] : desc'[d] = desc[d]
  BY Zenon
<1>2. Total(Lens(desc, chain[u.id])) < EthPacketSize
        => u.len = Total(Lens(desc, chain[u.id]))
  BY Zenon DEF UsedLenIsPacketLen
<1> HIDE DEF u
<1>3. Lens(desc', chain[u.id]) = Lens(desc, chain[u.id])
  <2> DEFINE C == chain[u.id]
  <2>1. \A d \in C : desc'[d] = desc[d]
    BY <1>1, Zenon
  <2> HIDE DEF C
  <2>2. Lens(desc', C) = Lens(desc, C)
    BY <2>1, LensSame, Zenon
  <2> QED
    BY <2>2, Zenon DEF C
<1> QED
  BY <1>1, <1>2, <1>3, Zenon

(* The chain that is being processed is in flight and pending.             *)
LEMMA CurrentChain ==
    ASSUME Ownership, pc \in {"walk", "finish", "crashed"}
    PROVE  /\ d_idx \in Descs /\ chain[d_idx] # {}
           /\ d_idx = HeadAt(last_avail_idx)
           /\ last_avail_idx \in InFlight /\ last_avail_idx \in Pending
<1>1. TypeOK /\ IndexWindow /\ ExactlyOnce /\ WalkInv
  BY Zenon DEF Ownership
<1>2. last_avail_idx # avail_idx /\ d_idx = avail_ring[Slot(last_avail_idx)]
  BY <1>1, Zenon DEF IndexWindow, WalkInv
<1>3. last_avail_idx \in Index
  BY <1>1, IndexTypes, Zenon
<1>4. Dist(guest_used, last_avail_idx) < Dist(guest_used, FilledIdx)
  BY <1>1, FilledFacts, Zenon
<1>5. last_avail_idx \in InFlight
  BY <1>3, <1>4, Zenon DEF InFlight
<1>6. Dist(guest_used, last_avail_idx) <= Dist(guest_used, last_avail_idx)
  BY <1>1, <1>3, IndexTypes, DistFacts, SMTT(60)
<1>7. last_avail_idx \in Pending
  BY <1>1, <1>3, <1>5, <1>6, PendingTail, Zenon
<1>8. /\ d_idx \in Descs /\ chain[d_idx] # {}
      /\ HeadAt(last_avail_idx) = avail_ring[Slot(last_avail_idx)]
  BY <1>1, <1>2, NextChain, SMTT(60)
<1> QED
  BY <1>2, <1>5, <1>7, <1>8, Zenon

(* A used entry of a chain in flight names that chain.                     *)
LEMMA UsedHead ==
    ASSUME Ownership, NEW x \in InFlight, x \notin Pending
    PROVE  /\ used_ring[Slot(x)].id = HeadAt(x)
           /\ used_ring[Slot(x)].id \in Descs
           /\ chain[used_ring[Slot(x)].id] # {}
<1>1. used_ring[Slot(x)].id = HeadAt(x)
  BY Zenon DEF HeadAt
<1>2. HeadAt(x) \in {h \in Descs : chain[h] # {}}
  BY Zenon DEF Ownership, ExactlyOnce
<1> QED
  BY <1>1, <1>2, Zenon

(* Steps that write neither the chains nor the used ring.                  *)
LEMMA QuietLength ==
    ASSUME LengthInv,
           UNCHANGED <<desc, used_ring, chain, guest_used, last_avail_idx, FilledIdx>>
    PROVE  ChainsLinked' /\ UsedLenIsPacketLen'
<1>1. ChainsLinked'
  BY Zenon DEF LengthInv, ChainsLinked
<1>2. Pending' = Pending /\ InFlight' = InFlight
  BY Zenon DEF Pending, InFlight
<1>3. UsedLenIsPacketLen'
  BY <1>2, Zenon DEF LengthInv, UsedLenIsPacketLen
<1> QED
  BY <1>1, <1>3, Zenon

(* A new chain is linked in the order of its descriptors, none of which    *)
(* belongs to another chain.                                               *)
LEMMA AddLength ==
    ASSUME Ownership, LengthInv,
           NEW c \in ChainLens, NEW s \in [1..Len(c) -> Free], GuestAdd(c, s)
    PROVE  LengthInv'
<1>1. TypeOK /\ IndexWindow /\ ChainShape
  BY Zenon DEF Ownership
<1>2. /\ DOMAIN s = 1..Len(c) /\ 1 \in 1..Len(c) /\ Len(c) \in Nat /\ Len(c) > 0
      /\ s[1] \in Descs
      /\ \A k \in DOMAIN s : s[k] \in Descs /\ \A h \in Descs : s[k] \notin chain[h]
      /\ \A h \in Descs : chain'[h] = IF h = s[1] THEN {s[k] : k \in DOMAIN s} ELSE chain[h]
      /\ \A d \in Descs : (\A k \in DOMAIN s : s[k] # d) => desc'[d] = desc[d]
      /\ \A k \in DOMAIN s :
            desc'[s[k]].next = IF k < Len(c) THEN s[k + 1] ELSE NoNext
  <2>1. Added(c, s)
    BY <1>1, AddTable, Zenon
  <2> QED
    BY <2>1, Zenon DEF Added
<1>3. ASSUME NEW h \in Descs, chain[h] # {}
      PROVE  h # s[1] /\ chain'[h] = chain[h] /\ \A d \in chain[h] : desc'[d] = desc[d]
  <2>1. h \in chain[h] /\ chain[h] \subseteq Descs
    BY <1>1, <1>3, Zenon DEF ChainShape, TypeOK
  <2>2. h # s[1]
    <3>1. s[1] \notin chain[h]
      BY <1>2, Zenon
    <3> QED
      BY <2>1, <3>1, Zenon
  <2> QED
    BY <1>2, <2>1, <2>2, ZenonT(60)
<1>4. ChainsLinked'
  <2> SUFFICES ASSUME NEW h \in Descs, chain'[h] # {}
               PROVE  \E n \in Nat \ {0} : \E q \in [1..n -> Descs] :
                          Linked(desc', chain'[h], h, n, q)
    BY Zenon DEF ChainsLinked
  <2>1. CASE h = s[1]
    <3> DEFINE n == Len(c)
    <3>1. n \in Nat \ {0}
      BY <1>2, SMT
    <3>2. s \in [1..n -> Descs]
      BY Zenon DEF Free
    <3>3. chain'[h] = {s[k] : k \in 1..n}
      BY <1>2, <2>1, Zenon
    <3>4. \A j, k \in 1..n : s[j] = s[k] => j = k
      BY <1>2, Zenon DEF GuestAdd
    <3>5. ASSUME NEW k \in 1..n
          PROVE  desc'[s[k]].next = IF k = n THEN NoNext ELSE s[k + 1]
      <4>1. k < Len(c) <=> k # n
        BY <1>2, SMT
      <4>2. desc'[s[k]].next = IF k < Len(c) THEN s[k + 1] ELSE NoNext
        BY <1>2, Zenon
      <4> QED
        BY <4>1, <4>2, Zenon
    <3> HIDE DEF n
    <3>6. Linked(desc', chain'[h], h, n, s)
      BY <2>1, <3>3, <3>4, <3>5, Zenon DEF Linked
    <3> QED
      BY <3>1, <3>2, <3>6, Zenon
  <2>2. CASE h # s[1]
    <3>1. chain'[h] = chain[h] /\ chain[h] # {}
      BY <1>2, <2>2, Zenon
    <3>2. \A d \in chain[h] : desc'[d] = desc[d]
      BY <1>3, <3>1, Zenon
    <3>3. PICK n \in Nat \ {0} : \E q \in [1..n -> Descs] : Linked(desc, chain[h], h, n, q)
      BY <3>1, Zenon DEF LengthInv, ChainsLinked
    <3>4. PICK q \in [1..n -> Descs] : Linked(desc, chain[h], h, n, q)
      BY <3>3, Zenon
    <3>5. Linked(desc', chain[h], h, n, q)
      <4> DEFINE C == chain[h]
      <4>1. Linked(desc, C, h, n, q) /\ \A d \in C : desc'[d] = desc[d]
        BY <3>2, <3>4, Zenon
      <4> HIDE DEF C
      <4>2. Linked(desc', C, h, n, q)
        BY <4>1, LinkedKept, Zenon
      <4> QED
        BY <4>2, Zenon DEF C
    <3> QED
      BY <3>1, <3>5, Zenon
  <2> QED
    BY <2>1, <2>2, Zenon
<1>5. WalkLength'
  <2>1. UNCHANGED <<pc, d_idx, i, len>>
    BY Zenon DEF GuestAdd, server, locals
  <2>2. pc \in {"walk", "finish", "crashed"} =>
          chain'[d_idx] = chain[d_idx] /\ \A d \in chain[d_idx] : desc'[d] = desc[d]
    BY <1>3, CurrentChain, Zenon
  <2> QED
    BY <2>1, <2>2, WalkKept, Zenon DEF LengthInv
<1>6. UsedLenIsPacketLen'
  <2>1. InFlight' \ Pending' \subseteq InFlight \ Pending
    BY <1>1, AddWindow, Zenon
  <2>2. used_ring' = used_ring
    BY Zenon DEF GuestAdd
  <2>3. ASSUME NEW x \in InFlight' \ Pending'
        PROVE  /\ chain'[used_ring[Slot(x)].id] = chain[used_ring[Slot(x)].id]
               /\ \A d \in chain[used_ring[Slot(x)].id] : desc'[d] = desc[d]
    <3>1. x \in InFlight /\ x \notin Pending
      BY <2>1, Zenon
    <3>2. used_ring[Slot(x)].id \in Descs /\ chain[used_ring[Slot(x)].id] # {}
      BY <3>1, UsedHead, Zenon
    <3> QED
      BY <1>3, <3>2, Zenon
  <2> QED
    BY <2>1, <2>2, <2>3, UsedKept, Zenon DEF LengthInv
<1> QED
  BY <1>4, <1>5, <1>6, Zenon DEF LengthInv

(* A chain that is taken back is not the one being processed, nor one the  *)
(* used ring still names.                                                  *)
LEMMA ReclaimLength ==
    ASSUME Ownership, LengthInv, GuestReclaim
    PROVE  LengthInv'
<1>1. TypeOK /\ IndexWindow /\ ExactlyOnce
  BY Zenon DEF Ownership
<1> DEFINE h == used_ring[Slot(guest_used)].id
<1>2. /\ chain' = [chain EXCEPT ![h] = {}]
      /\ UNCHANGED <<desc, used_ring, pc, d_idx, i, len>>
  BY Zenon DEF GuestReclaim, shared, server, locals
<1>3. /\ guest_used \in InFlight /\ guest_used \notin Pending
      /\ InFlight' = InFlight \ {guest_used} /\ Pending' = Pending
  BY <1>1, ReclaimWindow, Zenon
<1>4. h = HeadAt(guest_used)
  BY <1>3, UsedHead, Zenon
<1>5. \A g \in Descs : /\ chain'[g] # {} => chain'[g] = chain[g]
                       /\ g # h => chain'[g] = chain[g]
  <2>1. DOMAIN chain = Descs
    BY <1>1, Zenon DEF TypeOK
  <2> HIDE DEF h
  <2> QED
    BY <1>2, <2>1, SMT
<1> HIDE DEF h
<1>6. ChainsLinked'
  BY <1>2, <1>5, Zenon DEF LengthInv, ChainsLinked
<1>7. WalkLength'
  <2>1. ASSUME pc \in {"walk", "finish", "crashed"} PROVE chain'[d_idx] = chain[d_idx]
    <3>1. d_idx \in Descs /\ d_idx = HeadAt(last_avail_idx)
          /\ last_avail_idx \in InFlight /\ last_avail_idx \in Pending
      BY <2>1, CurrentChain, Zenon
    <3>2. d_idx # h
      BY <1>1, <1>3, <1>4, <3>1, Zenon DEF ExactlyOnce
    <3> QED
      BY <1>5, <3>1, <3>2, Zenon
  <2> QED
    BY <1>2, <2>1, WalkKept, Zenon DEF LengthInv
<1>8. UsedLenIsPacketLen'
  <2>1. InFlight' \ Pending' \subseteq InFlight \ Pending
    BY <1>3, Zenon
  <2>2. ASSUME NEW x \in InFlight' \ Pending'
        PROVE  chain'[used_ring[Slot(x)].id] = chain[used_ring[Slot(x)].id]
    <3>1. x \in InFlight /\ x \notin Pending /\ x # guest_used
      BY <1>3, Zenon
    <3>2. used_ring[Slot(x)].id \in Descs /\ used_ring[Slot(x)].id = HeadAt(x)
      BY <3>1, UsedHead, Zenon
    <3>3. HeadAt(x) # h
      BY <1>1, <1>3, <1>4, <3>1, Zenon DEF ExactlyOnce
    <3> QED
      BY <1>5, <3>2, <3>3, Zenon
  <2> QED
    BY <1>2, <2>1, <2>2, UsedKept, Zenon DEF LengthInv
<1> QED
  BY <1>6, <1>7, <1>8, Zenon DEF LengthInv

(* The finished chain enters the used ring with the length that was added  *)
(* up.                                                                     *)
LEMMA FinishLength ==
    ASSUME Ownership, LengthInv, FinishDesc
    PROVE  LengthInv'
<1> DEFINE l == last_avail_idx
           e == [id |-> d_idx, len |-> len]
<1>1. TypeOK /\ IndexWindow /\ WalkInv
  BY Zenon DEF Ownership
<1>2. pc = "finish" /\ len > 0 /\ last_used_idx = l /\ d_idx \in Descs
  BY <1>1, Zenon DEF FinishDesc, WalkInv, IndexWindow, TypeOK
<1>3. /\ used_ring' = [used_ring EXCEPT ![Slot(l)] = e]
      /\ UNCHANGED <<desc, chain>>
      /\ pc' = "test"
  <2>1. len # 0
    BY <1>2, NotBoth, Zenon
  <2> QED
    BY <1>2, <2>1, ZenonT(60) DEF FinishDesc, guest
<1>4. /\ l \in InFlight /\ l \in Pending /\ InFlight' = InFlight
      /\ \A x \in Index : x \in Pending' <=> x \in Pending /\ x # l
      /\ \A x \in InFlight \ Pending : Slot(x) # Slot(l)
  BY <1>1, <1>2, FinishWindow, UsedSlotFree, Zenon
<1>5. ChainsLinked'
  BY <1>3, Zenon DEF LengthInv, ChainsLinked
<1>6. WalkLength'
  BY <1>3, Zenon DEF WalkLength
<1>7. UsedLenIsPacketLen'
  <2> SUFFICES ASSUME NEW x \in InFlight' \ Pending'
               PROVE  LET v == used_ring'[Slot(x)]
                          total == Total(Lens(desc', chain'[v.id]))
                      IN total < EthPacketSize => v.len = total
    BY Zenon DEF UsedLenIsPacketLen
  <2>1. x \in Index /\ x \in InFlight /\ (x \in Pending => x = l)
    BY <1>4, Zenon DEF InFlight
  <2>2. Slot(x) \in Descs /\ Slot(l) \in Descs /\ DOMAIN used_ring = Descs
    BY <1>1, <2>1, IndexTypes, SlotType, Zenon DEF TypeOK
  <2>3. CASE x \in Pending
    <3>1. used_ring'[Slot(x)] = e
      BY <1>3, <2>1, <2>2, <2>3, Zenon
    <3>2. e.id = d_idx /\ e.len = len
      BY SMT
    <3>3. PacketLen(d_idx) < EthPacketSize => len = PacketLen(d_idx)
      BY <1>2, Zenon DEF LengthInv, WalkLength
    <3> HIDE DEF e
    <3> QED
      BY <1>3, <3>1, <3>2, <3>3, Zenon DEF PacketLen
  <2>4. CASE x \notin Pending
    <3>1. Slot(x) # Slot(l)
      BY <1>4, <2>1, <2>4, Zenon
    <3>2. used_ring'[Slot(x)] = used_ring[Slot(x)]
      BY <1>3, <2>2, <3>1, Zenon
    <3> QED
      BY <1>3, <2>1, <2>4, <3>2, Zenon DEF LengthInv, UsedLenIsPacketLen
  <2> QED
    BY <2>3, <2>4, Zenon
<1> QED
  BY <1>5, <1>6, <1>7, Zenon DEF LengthInv

(* The used entry of a chain of which too little was copied overwrites     *)
(* none that counts.                                                       *)
LEMMA CrashLength ==
    ASSUME Ownership, LengthInv, CrashDesc
    PROVE  LengthInv'
<1> DEFINE l == last_avail_idx
           e == [id |-> d_idx, len |-> len]
<1>1. TypeOK /\ IndexWindow /\ ExactlyOnce
  BY Zenon DEF Ownership
<1>2. /\ pc = "finish" /\ pc' = "crashed"
      /\ used_ring' = [used_ring EXCEPT ![Slot(l)] = e]
      /\ UNCHANGED <<desc, chain, avail_idx, staged, guest_used>>
      /\ UNCHANGED <<last_avail_idx, d_idx, len>>
  BY <1>1, ZenonT(60) DEF CrashDesc, IndexWindow, guest
<1> HIDE DEF e
<1>3. \A x \in InFlight \ Pending : Slot(x) # Slot(l)
  BY <1>1, <1>2, UsedSlotFree, Zenon
<1>4. FilledIdx' = FilledIdx /\ InFlight' = InFlight /\ Pending' = Pending
  BY <1>2, Zenon DEF FilledIdx, InFlight, Pending
<1>5. ChainsLinked'
  BY <1>2, Zenon DEF LengthInv, ChainsLinked
<1>6. WalkLength'
  BY <1>2, Zenon DEF LengthInv, WalkLength, PacketLen
<1>7. UsedLenIsPacketLen'
  <2>1. ASSUME NEW x \in InFlight' \ Pending'
        PROVE  used_ring'[Slot(x)] = used_ring[Slot(x)]
    <3>1. x \in Index /\ Slot(x) # Slot(l)
      BY <1>3, <1>4, Zenon DEF InFlight
    <3>2. Slot(x) \in Descs /\ DOMAIN used_ring = Descs
      BY <1>1, <3>1, SlotType, Zenon DEF TypeOK
    <3> QED
      BY <1>2, <3>1, <3>2, Zenon
  <2> QED
    BY <1>2, <1>4, <2>1, UsedKept, Zenon DEF LengthInv
<1> QED
  BY <1>5, <1>6, <1>7, Zenon DEF LengthInv

(* The walk starts at the head of a linked chain with nothing copied.      *)
LEMMA StartLength ==
    ASSUME Ownership, LengthInv, ProcessDesc
    PROVE  WalkLength'
<1> DEFINE h == avail_ring[a_idx]
<1>1. TypeOK /\ IndexWindow /\ ExactlyOnce
  BY Zenon DEF Ownership
<1>2. /\ last_avail_idx # avail_idx /\ a_idx = Slot(last_avail_idx)
      /\ d_idx' = h /\ i' = h /\ len' = 0 /\ pc' = "walk"
      /\ UNCHANGED <<desc, chain>>
  BY <1>1, ZenonT(60) DEF ProcessDesc, IndexWindow, shared, guest
<1>3. h \in Descs /\ chain[h] # {}
  BY <1>1, <1>2, NextChain, Zenon
<1> HIDE DEF h
<1>4. PICK n \in Nat \ {0} : \E s \in [1..n -> Descs] : Linked(desc, chain[h], h, n, s)
  BY <1>3, Zenon DEF LengthInv, ChainsLinked
<1>5. PICK s \in [1..n -> Descs] : Linked(desc, chain[h], h, n, s)
  BY <1>4, Zenon
<1>6. 1 \in 1..n /\ ~\E j : j \in 1..(1 - 1)
  BY SMT
<1>7. {s[j] : j \in 1..(1 - 1)} = {}
  BY <1>6, Zenon
<1>8. Total(Lens(desc, {})) = 0
  <2>1. desc \in Tables
    BY <1>1, Zenon DEF TypeOK, Tables
  <2> QED
    BY <2>1, PacketNone, Zenon
<1>9. 0 = Total(Lens(desc, {s[j] : j \in 1..(1 - 1)}))
  BY <1>7, <1>8, Zenon
<1>10. h = s[1]
  BY <1>5, Zenon DEF Linked
<1>11. \E k \in 1..n : /\ h = s[k]
                       /\ 0 = Total(Lens(desc, {s[j] : j \in 1..(k - 1)}))
  BY <1>6, <1>9, <1>10, Zenon
<1>12. \E m \in Nat \ {0} : \E q \in [1..m -> Descs] : \E k \in 1..m :
           /\ Linked(desc, chain[h], h, m, q)
           /\ h = q[k]
           /\ 0 = Total(Lens(desc, {q[j] : j \in 1..(k - 1)}))
  BY <1>5, <1>11, Zenon
<1>13. pc' \notin {"finish", "crashed"}
  BY <1>2, Zenon
<1> QED
  BY <1>2, <1>12, <1>13, Zenon DEF WalkLength

(* A turn of the walk adds the current descriptor and goes on to the next, *)
(* or ends it: at the last descriptor with the whole packet added up, at   *)
(* one that does not fit with a packet that does not fit either.           *)
LEMMA CopyLength ==
    ASSUME Ownership, LengthInv, CopyDesc
    PROVE  WalkLength'
<1> DEFINE C == chain[d_idx]
<1>1. TypeOK /\ pc = "walk" /\ desc \in Tables
  BY Zenon DEF Ownership, CopyDesc, TypeOK, Tables
<1>2. UNCHANGED <<desc, chain, d_idx>>
  BY Zenon DEF CopyDesc, shared, guest
<1>3. PICK n \in Nat \ {0} : \E s \in [1..n -> Descs] : \E k \in 1..n :
          /\ Linked(desc, C, d_idx, n, s)
          /\ i = s[k]
          /\ len = Total(Lens(desc, {s[j] : j \in 1..(k - 1)}))
  BY <1>1, Zenon DEF LengthInv, WalkLength
<1>4. PICK s \in [1..n -> Descs] : \E k \in 1..n :
          /\ Linked(desc, C, d_idx, n, s)
          /\ i = s[k]
          /\ len = Total(Lens(desc, {s[j] : j \in 1..(k - 1)}))
  BY <1>3, Zenon
<1>5. PICK k \in 1..n : /\ Linked(desc, C, d_idx, n, s)
                        /\ i = s[k]
                        /\ len = Total(Lens(desc, {s[j] : j \in 1..(k - 1)}))
  BY <1>4, Zenon
<1> DEFINE sum == Total(Lens(desc, {s[j] : j \in 1..k}))
           all == Total(Lens(desc, C))
<1>6. /\ sum = len + desc[i].len
      /\ sum \in Nat /\ all \in Nat /\ sum <= all
      /\ desc[i].next = NoNext => sum = all
      /\ desc[i].next # NoNext => k + 1 \in 1..n /\ desc[i].next = s[k + 1]
  <2> DEFINE before == {s[j] : j \in 1..(k - 1)}
             upto   == {s[j] : j \in 1..k}
  <2> HIDE DEF C
  <2>1. desc \in Tables /\ Linked(desc, C, d_idx, n, s)
    BY <1>1, <1>5, Zenon
  <2>2. AtPosition(desc, C, n, s, k)
    BY <2>1, WalkPosition, Zenon
  <2>3. /\ Total(Lens(desc, upto)) = Total(Lens(desc, before)) + desc[s[k]].len
        /\ Total(Lens(desc, upto)) \in Nat /\ Total(Lens(desc, C)) \in Nat
        /\ Total(Lens(desc, upto)) <= Total(Lens(desc, C))
        /\ desc[s[k]].next = NoNext => upto = C
        /\ desc[s[k]].next # NoNext => k + 1 \in 1..n /\ desc[s[k]].next = s[k + 1]
    BY <2>2, Zenon DEF AtPosition
  <2>4. i = s[k] /\ len = Total(Lens(desc, before))
    BY <1>5, Zenon
  <2> HIDE DEF before, upto
  <2>5. /\ Total(Lens(desc, upto)) = len + desc[i].len
        /\ desc[i].next = NoNext => upto = C
        /\ desc[i].next # NoNext => k + 1 \in 1..n /\ desc[i].next = s[k + 1]
    BY <2>3, <2>4, SMT
  <2>6. desc[i].next = NoNext => Total(Lens(desc, upto)) = Total(Lens(desc, C))
    BY <2>5, Zenon
  <2> QED
    BY <2>3, <2>5, <2>6, Zenon DEF upto
<1>7. EthPacketSize \in Nat
  BY SizeAssumption, Zenon
<1>8. CASE ~(len + desc[i].len < EthPacketSize)
  <2>1. pc' = "finish" /\ pc' # "walk"
    BY <1>8, Zenon DEF CopyDesc
  <2>2. ~(all < EthPacketSize)
    <3> HIDE DEF sum, all
    <3> QED
      BY <1>6, <1>7, <1>8, SMT
  <2> QED
    BY <1>2, <2>1, <2>2, Zenon DEF WalkLength, PacketLen
<1>9. CASE len + desc[i].len < EthPacketSize /\ desc[i].next = NoNext
  <2>1. pc' = "finish" /\ pc' # "walk" /\ len' = len + desc[i].len
    BY <1>9, Zenon DEF CopyDesc
  <2>2. len' = all
    BY <1>6, <1>9, <2>1, Zenon
  <2> QED
    BY <1>2, <2>1, <2>2, Zenon DEF WalkLength, PacketLen
<1>10. CASE len + desc[i].len < EthPacketSize /\ desc[i].next # NoNext
  <2>1. pc' = "walk" /\ pc' \notin {"finish", "crashed"} /\ len' = len + desc[i].len /\ i' = desc[i].next
    BY <1>10, Zenon DEF CopyDesc
  <2>2. k + 1 \in 1..n /\ i' = s[k + 1] /\ len' = sum
    BY <1>6, <1>10, <2>1, Zenon
  <2>3. (k + 1) - 1 = k
    BY SMT
  <2>4. len' = Total(Lens(desc, {s[j] : j \in 1..((k + 1) - 1)}))
    BY <2>2, <2>3, Zenon
  <2> DEFINE m == k + 1
  <2>5. m \in 1..n /\ i' = s[m] /\ len' = Total(Lens(desc, {s[j] : j \in 1..(m - 1)}))
    BY <2>2, <2>4, Zenon
  <2> HIDE DEF m
  <2>6. Linked(desc, C, d_idx, n, s)
    BY <1>5, Zenon
  <2> DEFINE W(t, D, h) == \E b \in Nat \ {0} : \E q \in [1..b -> Descs] : \E a \in 1..b :
                             /\ Linked(t, D, h, b, q)
                             /\ i' = q[a]
                             /\ len' = Total(Lens(t, {q[j] : j \in 1..(a - 1)}))
  <2>7. W(desc, C, d_idx)
    <3> HIDE DEF C
    <3> QED
      BY <2>5, <2>6, Zenon
  <2>8. W(desc', chain'[d_idx'], d_idx')
    <3> HIDE DEF W
    <3> QED
      BY <1>2, <2>7, Zenon
  <2> QED
    BY <2>1, <2>8, Zenon DEF WalkLength
<1> QED
  BY <1>8, <1>9, <1>10, Zenon

(* Every step keeps the lengths right.                                     *)
LEMMA LengthStep ==
    ASSUME Ownership, LengthInv, [Next]_vars
    PROVE  LengthInv'
<1> USE DEF LengthInv
<1>1. ASSUME NEW c \in ChainLens, NEW s \in [1..Len(c) -> Free], GuestAdd(c, s)
      PROVE  LengthInv'
  <2> HIDE DEF LengthInv
  <2> QED
    BY <1>1, AddLength, Zenon
<1>2. CASE GuestPublish
  <2>1. /\ FilledIdx' = FilledIdx
        /\ UNCHANGED <<desc, used_ring, chain, guest_used, last_avail_idx>>
        /\ UNCHANGED <<pc, d_idx, i, len>>
    BY <1>2, Zenon DEF GuestPublish, FilledIdx, server, locals
  <2> QED
    BY <2>1, QuietLength, WalkKept, Zenon
<1>3. CASE GuestKick
  BY <1>3, QuietLength, WalkKept, Zenon DEF GuestKick, FilledIdx, guest, server, locals
<1>4. CASE GuestReclaim
  BY <1>4, ReclaimLength, Zenon
<1>5. CASE SelectTimeout
  BY <1>5, QuietLength, Zenon DEF SelectTimeout, FilledIdx, WalkLength, shared, guest
<1>6. CASE KickServer
  BY <1>6, QuietLength, Zenon DEF KickServer, FilledIdx, WalkLength, guest
<1>7. CASE PollHandler
  BY <1>7, QuietLength, Zenon DEF PollHandler, FilledIdx, WalkLength, shared, guest
<1>8. CASE ProcessAvailVring
  BY <1>8, QuietLength, Zenon DEF ProcessAvailVring, FilledIdx, WalkLength, shared, guest
<1>9. CASE EndOfAvail
  <2>1. pc' \notin {"walk", "finish", "crashed"}
    BY <1>9, Zenon DEF EndOfAvail, Ownership, TypeOK
  <2> QED
    BY <1>9, <2>1, QuietLength, Zenon DEF EndOfAvail, FilledIdx, WalkLength, guest
<1>10. CASE ProcessDesc
  BY <1>10, QuietLength, StartLength, Zenon DEF ProcessDesc, FilledIdx, shared, guest
<1>11. CASE CopyDesc
  BY <1>11, QuietLength, CopyLength, Zenon DEF CopyDesc, FilledIdx, shared, guest
<1>12. CASE FinishDesc
  BY <1>12, FinishLength, Zenon
<1>13. CASE EchoBuffer
  BY <1>13, QuietLength, Zenon DEF EchoBuffer, FilledIdx, WalkLength, shared, guest
<1>14. CASE UNCHANGED vars
  BY <1>14, QuietLength, WalkKept, Zenon DEF FilledIdx, vars, shared, guest, server, locals
<1>15. CASE CrashDesc
  BY <1>15, CrashLength, Zenon
<1> HIDE DEF LengthInv
<1> QED
  BY <1>1, <1>2, <1>3, <1>4, <1>5, <1>6, <1>7, <1>8, <1>9, <1>10, <1>11,
     <1>12, <1>13, <1>14, <1>15, ZenonT(60) DEF Next, GuestNext, ServerNext

(* As long as the first descriptor of every chain fits the packet buffer,  *)
(* what process_desc has added up is the length of the packet.             *)
LEMMA LengthCorrect ==
    ASSUME FirstFits
    PROVE  Spec => []LengthInv
<1>1. Init => LengthInv
  <2> SUFFICES ASSUME Init PROVE LengthInv
    BY Zenon
  <2>1. InFlight = {}
    <3>1. \A x \in Index : ~(Dist(0, x) < Dist(0, 0))
      BY NumFacts DEF Dist, Index
    <3> QED
      BY <3>1, Zenon DEF Init, InFlight, FilledIdx
  <2>2. \A h \in Descs : chain[h] = {}
    BY Zenon DEF Init
  <2>3. pc \notin {"walk", "finish", "crashed"}
    BY Zenon DEF Init
  <2> QED
    BY <2>1, <2>2, <2>3, Zenon DEF LengthInv, ChainsLinked, WalkLength, UsedLenIsPacketLen
<1>2. Ownership /\ LengthInv /\ [Next]_vars => LengthInv'
  BY LengthStep, Zenon
<1> QED
  BY <1>1, <1>2, OwnershipCorrect, PTL DEF Spec

(* Under the same condition the length process_desc enters in the used     *)
(* ring is the length of the whole packet whenever that packet fits.       *)
THEOREM UsedLengthCorrect ==
    ASSUME FirstFits
    PROVE  Spec => []UsedLenIsPacketLen
<1>1. LengthInv => UsedLenIsPacketLen
  BY Zenon DEF LengthInv
<1> QED
  BY <1>1, LengthCorrect, PTL

(* Under the same condition the payload length wraps around only for a     *)
(* packet shorter than a net header, or one that does not fit and whose    *)
(* first descriptor is shorter than a net header.                          *)
THEOREM PayloadLengthCorrect ==
    ASSUME FirstFits
    PROVE  Spec => []WrapsOnlyIfShort
<1>1. Ownership /\ LengthInv => WrapsOnlyIfShort
  <2> SUFFICES ASSUME Ownership, LengthInv, pc = "crashed"
               PROVE  \/ PacketLen(d_idx) < HdrLen
                      \/ EthPacketSize <= PacketLen(d_idx) /\ desc[d_idx].len < HdrLen
    BY Zenon DEF WrapsOnlyIfShort, PacketLen
  <2>1. /\ len \in Nat /\ d_idx \in Descs /\ desc[d_idx].len \in Nat
        /\ len >= desc[d_idx].len /\ len < HdrLen
    BY Zenon DEF Ownership, TypeOK, WalkInv
  <2>2. PacketLen(d_idx) \in Nat
    <3>1. desc \in Tables
      BY Zenon DEF Ownership, TypeOK, Tables
    <3> QED
      BY <3>1, PacketMonotone, Zenon DEF PacketLen
  <2>3. PacketLen(d_idx) < EthPacketSize => len = PacketLen(d_idx)
    BY Zenon DEF LengthInv, WalkLength
  <2>4. EthPacketSize \in Nat /\ HdrLen \in Nat
    BY SizeAssumption, Zenon
  <2> QED
    BY <2>1, <2>2, <2>3, <2>4, SMT
<1> QED
  BY <1>1, OwnershipCorrect, LengthCorrect, PTL

-----------------------------------------------------------------------------
(* Steps of the rings as steps of the queue.                               *)

(* Filling an avail slot that is not published is not a step of the queue. *)
LEMMA AddIsStutter ==
    ASSUME TypeOK, TypeOK', IndexWindow, NEW c, NEW s, GuestAdd(c, s)
    PROVE  UNCHANGED <<PendingHeads, DoneHeads, ReturnedHeads>>
<1>1. /\ ~staged /\ Dist(guest_used, avail_idx) < Num
      /\ avail_ring' = [avail_ring EXCEPT ![Slot(avail_idx)] = s[1]]
      /\ UNCHANGED <<avail_idx, used_ring, used_idx, guest_used, last_avail_idx, last_used_idx>>
  BY Zenon DEF GuestAdd, server
<1>2. \A d \in Descs : d # Slot(avail_idx) => avail_ring'[d] = avail_ring[d]
  BY <1>1, Zenon DEF TypeOK
<1>3. avail_ring' \in [Descs -> Descs]
  BY Zenon DEF TypeOK
<1>4. /\ avail_ring \in [Descs -> Descs]
      /\ guest_used \in Index /\ last_avail_idx \in Index /\ avail_idx \in Index
      /\ Dist(guest_used, last_avail_idx) + Dist(last_avail_idx, avail_idx)
           <= Dist(guest_used, avail_idx)
      /\ Dist(guest_used, avail_idx) < Num
      /\ Dist(last_avail_idx, avail_idx) \in Nat
  BY <1>1, PartLengths, DistFacts, SMTT(60)
<1>5. Heads(avail_ring', last_avail_idx, Dist(last_avail_idx, avail_idx))
        = Heads(avail_ring, last_avail_idx, Dist(last_avail_idx, avail_idx))
  BY <1>2, <1>3, <1>4, HeadsKept
<1> QED
  BY <1>1, <1>5, Zenon DEF PendingHeads, DoneHeads, ReturnedHeads, UsedIds

(* Taking back a used entry.                                               *)
LEMMA ReclaimTakesBack ==
    ASSUME TypeOK, IndexWindow, GuestReclaim
    PROVE  Queue!TakeBack
<1>1. /\ guest_used # used_idx /\ guest_used' = Inc(guest_used)
      /\ UNCHANGED <<avail_ring, avail_idx, used_ring, used_idx, last_avail_idx, last_used_idx>>
  BY Zenon DEF GuestReclaim, shared, server
<1>2. Dist(Inc(guest_used), used_idx) = Dist(guest_used, used_idx) - 1
  BY <1>1, PartLengths, DistIncNear, Zenon
<1>3. Dist(guest_used, used_idx) > 0 /\ Dist(guest_used, used_idx) <= Num
  BY <1>1, PartLengths, DistFacts, NumFacts, SMTT(60)
<1>4. ReturnedHeads # << >> /\ ReturnedHeads' = Tail(ReturnedHeads)
  <2>1. /\ UsedIds \in [Descs -> Descs] /\ guest_used \in Index
        /\ Dist(guest_used, used_idx) \in Nat
    BY PartLengths, Zenon
  <2>2. /\ ReturnedHeads # << >>
        /\ Tail(ReturnedHeads) = Heads(UsedIds, Inc(guest_used), Dist(guest_used, used_idx) - 1)
    BY <1>3, <2>1, HeadsTail, Zenon DEF ReturnedHeads
  <2> QED
    BY <1>1, <1>2, <2>2, Zenon DEF ReturnedHeads, UsedIds
<1>5. UNCHANGED <<PendingHeads, DoneHeads>>
  BY <1>1, Zenon DEF PendingHeads, DoneHeads, UsedIds
<1> QED
  BY <1>4, <1>5, Zenon DEF Queue!TakeBack

(* The end of avail: what was consumed is published, if there is any.      *)
LEMMA EndPublishes ==
    ASSUME TypeOK, IndexWindow, EndOfAvail
    PROVE  Queue!Publish \/ UNCHANGED <<PendingHeads, DoneHeads, ReturnedHeads>>
<1>1. /\ used_idx' = last_used_idx
      /\ UNCHANGED <<avail_ring, avail_idx, used_ring, guest_used, last_avail_idx, last_used_idx>>
  BY Zenon DEF EndOfAvail, guest
<1>2. UNCHANGED PendingHeads
  BY <1>1, Zenon DEF PendingHeads
<1>3. CASE used_idx = last_used_idx
  BY <1>1, <1>2, <1>3, Zenon DEF DoneHeads, ReturnedHeads, UsedIds
<1>4. CASE used_idx # last_used_idx
  <2>1. /\ Dist(used_idx, last_used_idx) > 0
        /\ Dist(guest_used, used_idx) + Dist(used_idx, last_used_idx) <= Num
        /\ Dist(used_idx, last_used_idx) <= Num
        /\ Dist(last_used_idx, last_used_idx) = 0
        /\ Dist(guest_used, last_used_idx) = Dist(guest_used, used_idx) + Dist(used_idx, last_used_idx)
        /\ UsedIds \in [Descs -> Descs] /\ guest_used \in Index /\ used_idx \in Index
        /\ Dist(used_idx, last_used_idx) \in Nat
    BY <1>4, PartLengths, DistFacts, NumFacts
  <2>2. DoneHeads # << >>
    BY <2>1, HeadsTail, Zenon DEF DoneHeads
  <2>3. DoneHeads' = << >>
    BY <1>1, <2>1, SMTT(60) DEF DoneHeads, Heads
  <2>4. ReturnedHeads \o DoneHeads = Heads(UsedIds, guest_used, Dist(guest_used, last_used_idx))
    BY <2>1, HeadsConcat DEF DoneHeads, ReturnedHeads
  <2>5. ReturnedHeads' = ReturnedHeads \o DoneHeads
    BY <1>1, <2>4, Zenon DEF ReturnedHeads, UsedIds
  <2> QED
    BY <1>2, <2>2, <2>3, <2>5, Zenon DEF Queue!Publish
<1> QED
  BY <1>3, <1>4, Zenon

(* Finishing a chain consumes the first pending one: its head moves from   *)
(* the avail ring to the used ring.                                        *)
LEMMA FinishConsumes ==
    ASSUME Ownership, TypeOK', IndexWindow', FinishDesc
    PROVE  Queue!Consume
<1>0. TypeOK /\ IndexWindow /\ WalkInv
  BY Zenon DEF Ownership
<1> DEFINE l == last_used_idx
           n == Dist(used_idx, l)
<1>1. /\ pc = "finish" /\ len > 0 /\ d_idx = avail_ring[Slot(last_avail_idx)]
      /\ last_avail_idx # avail_idx
  BY <1>0, Zenon DEF FinishDesc, WalkInv, IndexWindow
<1>2. /\ used_ring' = [used_ring EXCEPT ![Slot(l)] = [id |-> d_idx, len |-> len]]
      /\ last_avail_idx' = Inc(last_avail_idx) /\ last_used_idx' = Inc(l)
      /\ UNCHANGED <<avail_ring, avail_idx, used_idx, guest_used>>
  BY <1>0, <1>1 DEF FinishDesc, guest, TypeOK
<1>3. /\ avail_ring \in [Descs -> Descs] /\ UsedIds \in [Descs -> Descs]
      /\ guest_used \in Index /\ used_idx \in Index /\ l \in Index /\ avail_idx \in Index
      /\ last_avail_idx = l /\ n \in Nat
      /\ Dist(guest_used, used_idx) \in Nat /\ Dist(l, avail_idx) \in Nat
      /\ Dist(guest_used, l) = Dist(guest_used, used_idx) + n
      /\ Dist(guest_used, avail_idx) = Dist(guest_used, l) + Dist(l, avail_idx)
      /\ Dist(guest_used, avail_idx) <= Num
  BY <1>0, PartLengths, Zenon
<1>a. UsedIds' \in [Descs -> Descs]
  BY Zenon DEF TypeOK, UsedIds
<1>4. Slot(l) \in Descs /\ UsedIds'[Slot(l)] = d_idx
  BY <1>0, <1>2, <1>3, SlotType, ZenonT(60) DEF TypeOK, UsedIds
<1>5. \A d \in Descs : d # Slot(l) => UsedIds'[d] = UsedIds[d]
  BY <1>0, <1>2, <1>3, SMTT(60) DEF UsedIds
<1>6. /\ Dist(l, avail_idx) > 0 /\ Dist(l, avail_idx) <= Num
      /\ Dist(guest_used, l) < Num /\ n < Num /\ n + 1 < IndexMod
      /\ Dist(guest_used, used_idx) + n <= Dist(guest_used, l)
      /\ Dist(guest_used, guest_used) + Dist(guest_used, used_idx) <= Dist(guest_used, l)
  BY <1>1, <1>3, DistFacts, NumFacts, SMTT(60)
<1>7. /\ Dist(used_idx, Inc(l)) = n + 1 /\ Dist(Inc(l), avail_idx) = Dist(l, avail_idx) - 1
  BY <1>1, <1>3, <1>6, DistIncFar, DistIncNear, Zenon
<1>8. Ahead(used_idx, n) = l
  <2>1. Ahead(used_idx, n) \in Index /\ Dist(used_idx, Ahead(used_idx, n)) = n
    BY <1>3, <1>6, NumFacts, AheadFacts
  <2> QED
    BY <1>3, <2>1, DistEqual, Zenon
<1> HIDE DEF l, n
<1>9. /\ PendingHeads # << >> /\ Head(PendingHeads) = d_idx
      /\ Tail(PendingHeads) = Heads(avail_ring, Inc(l), Dist(l, avail_idx) - 1)
  BY <1>1, <1>3, <1>6, HeadsTail, ZenonT(60) DEF PendingHeads
<1>10. PendingHeads' = Tail(PendingHeads)
  BY <1>2, <1>3, <1>7, <1>9, Zenon DEF PendingHeads
<1>11. /\ Heads(UsedIds', used_idx, n) = Heads(UsedIds, used_idx, n)
       /\ Heads(UsedIds', guest_used, Dist(guest_used, used_idx))
            = Heads(UsedIds, guest_used, Dist(guest_used, used_idx))
  BY <1>3, <1>a, <1>5, <1>6, HeadsKept, SMTT(60)
<1>12. Heads(UsedIds', used_idx, n + 1) = Append(Heads(UsedIds', used_idx, n), d_idx)
  BY <1>3, <1>a, <1>4, <1>6, <1>8, HeadsAppend, Zenon
<1>13. DoneHeads' = Append(DoneHeads, Head(PendingHeads))
  BY <1>2, <1>7, <1>9, <1>11, <1>12, Zenon DEF DoneHeads, l, n
<1>14. UNCHANGED ReturnedHeads
  BY <1>2, <1>11, Zenon DEF ReturnedHeads
<1> QED
  BY <1>9, <1>10, <1>13, <1>14, Zenon DEF Queue!Consume

(* A used entry written behind the processed ones is not in the queue.     *)
LEMMA CrashIsStutter ==
    ASSUME Ownership, TypeOK', CrashDesc
    PROVE  UNCHANGED <<PendingHeads, DoneHeads, ReturnedHeads>>
<1>0. TypeOK /\ IndexWindow
  BY Zenon DEF Ownership
<1> DEFINE l == last_used_idx
           n == Dist(used_idx, l)
<1>1. /\ used_ring' = [used_ring EXCEPT ![Slot(l)] = [id |-> d_idx, len |-> len]]
      /\ UNCHANGED <<avail_ring, avail_idx, used_idx, guest_used,
                     last_avail_idx, last_used_idx>>
      /\ last_avail_idx # avail_idx
  BY <1>0, Zenon DEF CrashDesc, IndexWindow, guest
<1>2. /\ UsedIds \in [Descs -> Descs]
      /\ guest_used \in Index /\ used_idx \in Index /\ l \in Index /\ avail_idx \in Index
      /\ last_avail_idx = l /\ n \in Nat
      /\ Dist(guest_used, used_idx) \in Nat /\ Dist(l, avail_idx) \in Nat
      /\ Dist(guest_used, l) = Dist(guest_used, used_idx) + n
      /\ Dist(guest_used, avail_idx) = Dist(guest_used, l) + Dist(l, avail_idx)
      /\ Dist(guest_used, avail_idx) <= Num
  BY <1>0, PartLengths, Zenon
<1>3. UsedIds' \in [Descs -> Descs]
  BY Zenon DEF TypeOK, UsedIds
<1>4. \A d \in Descs : d # Slot(l) => UsedIds'[d] = UsedIds[d]
  BY <1>0, <1>1, <1>2, SMTT(60) DEF UsedIds
<1>5. /\ Dist(guest_used, l) < Num
      /\ Dist(guest_used, used_idx) + n <= Dist(guest_used, l)
      /\ Dist(guest_used, guest_used) + Dist(guest_used, used_idx) <= Dist(guest_used, l)
  BY <1>1, <1>2, DistFacts, NumFacts, SMTT(60)
<1> HIDE DEF l, n
<1>6. /\ Heads(UsedIds', used_idx, n) = Heads(UsedIds, used_idx, n)
      /\ Heads(UsedIds', guest_used, Dist(guest_used, used_idx))
           = Heads(UsedIds, guest_used, Dist(guest_used, used_idx))
  BY <1>2, <1>3, <1>4, <1>5, HeadsKept, SMTT(60)
<1> QED
  BY <1>1, <1>6, Zenon DEF PendingHeads, DoneHeads, ReturnedHeads, l, n

(* The head of a published slot is that of no chain outstanding: the       *)
(* driver has just taken it from the free descriptors.                     *)
LEMMA StagedIsNew ==
    ASSUME Ownership, staged, NEW x \in Index, Dist(guest_used, x) < Dist(guest_used, avail_idx)
    PROVE  /\ Dist(guest_used, last_avail_idx) <= Dist(guest_used, x)
                => avail_ring[Slot(x)] # avail_ring[Slot(avail_idx)]
           /\ Dist(guest_used, x) < Dist(guest_used, last_avail_idx)
                => UsedIds[Slot(x)] # avail_ring[Slot(avail_idx)]
<1>0. TypeOK /\ IndexWindow /\ ExactlyOnce
  BY Zenon DEF Ownership
<1>1. /\ guest_used \in Index /\ avail_idx \in Index /\ last_avail_idx \in Index
      /\ Dist(guest_used, avail_idx) \in Nat /\ Dist(guest_used, x) \in Nat
      /\ Dist(guest_used, last_avail_idx) \in Nat
      /\ Num \in Nat /\ IndexMod \in Nat /\ Num < IndexMod
      /\ Dist(guest_used, avail_idx) < Num
      /\ Dist(guest_used, last_avail_idx) <= Dist(guest_used, avail_idx)
  BY <1>0, IndexTypes, DistFacts, NumFacts, Zenon DEF IndexWindow
<1>2. Dist(guest_used, FilledIdx) = Dist(guest_used, avail_idx) + 1
  BY <1>1, DistIncFar, SMTT(60) DEF FilledIdx
<1>3. x \in InFlight /\ avail_idx \in InFlight /\ x # avail_idx
  BY <1>1, <1>2 DEF InFlight
<1>4. avail_idx \in Pending
  BY <1>0, <1>1, <1>3, PendingTail, Zenon
<1>5. HeadAt(x) # HeadAt(avail_idx) /\ HeadAt(avail_idx) = avail_ring[Slot(avail_idx)]
  BY <1>0, <1>3, <1>4, Zenon DEF ExactlyOnce, HeadAt
<1>6. x \in Pending <=> Dist(guest_used, last_avail_idx) <= Dist(guest_used, x)
  BY <1>0, <1>3, PendingTail, Zenon
<1>7. Slot(x) \in Descs
  BY SlotType, Zenon
<1>8. UsedIds[Slot(x)] = used_ring[Slot(x)].id
  BY <1>7, Zenon DEF UsedIds
<1>9. Dist(guest_used, x) < Dist(guest_used, last_avail_idx) => x \notin Pending
  BY <1>1, <1>6, NotBoth, Zenon
<1> QED
  BY <1>5, <1>6, <1>8, <1>9, Zenon DEF HeadAt

(* The elements of a sequence of three parts.                              *)
LEMMA NotInConcat ==
    ASSUME NEW a \in Seq(Descs), NEW b \in Seq(Descs), NEW c \in Seq(Descs), NEW v \in Descs,
           \A k \in 1..Len(a) : a[k] # v,
           \A k \in 1..Len(b) : b[k] # v,
           \A k \in 1..Len(c) : c[k] # v
    PROVE  /\ Len(a \o b \o c) = Len(a) + Len(b) + Len(c)
           /\ \A k \in 1..Len(a \o b \o c) : (a \o b \o c)[k] # v
BY SMTT(60)

(* Publishing the slot submits its chain.                                  *)
LEMMA PublishSubmits ==
    ASSUME Ownership, GuestPublish
    PROVE  Queue!Submit(avail_ring[Slot(avail_idx)])
<1> DEFINE b == avail_ring[Slot(avail_idx)]
           p == Dist(last_avail_idx, avail_idx)
           n == Dist(used_idx, last_used_idx)
           m == Dist(guest_used, used_idx)
<1>0. TypeOK /\ IndexWindow /\ staged
  BY Zenon DEF Ownership, GuestPublish
<1>1. /\ avail_idx' = Inc(avail_idx)
      /\ UNCHANGED <<avail_ring, used_ring, used_idx, guest_used, last_avail_idx, last_used_idx>>
  BY Zenon DEF GuestPublish, server
<1>2. /\ avail_ring \in [Descs -> Descs] /\ UsedIds \in [Descs -> Descs]
      /\ guest_used \in Index /\ used_idx \in Index /\ avail_idx \in Index
      /\ last_avail_idx \in Index /\ last_used_idx = last_avail_idx
      /\ m \in Nat /\ n \in Nat /\ p \in Nat
      /\ Dist(guest_used, last_avail_idx) = m + n
      /\ Dist(guest_used, avail_idx) = m + n + p
  BY <1>0, PartLengths, Zenon
<1>3. m + n + p < Num /\ Num \in Nat /\ Num < IndexMod /\ IndexMod \in Nat
  BY <1>0, <1>2, NumFacts, ZenonT(60) DEF IndexWindow
<1>4. ASSUME NEW y \in Index, NEW j \in Nat, Dist(guest_used, y) + j < m + n + p
      PROVE  /\ Ahead(y, j) \in Index
             /\ Dist(guest_used, Ahead(y, j)) = Dist(guest_used, y) + j
  <2>1. Dist(guest_used, y) + j < IndexMod /\ j < IndexMod
    BY <1>2, <1>3, <1>4, DistFacts
  <2> QED
    BY <1>2, <2>1, AheadFacts, AheadSum, SMTT(60)
<1>5. /\ PendingHeads \in Seq(Descs) /\ Len(PendingHeads) = p
      /\ DoneHeads \in Seq(Descs) /\ Len(DoneHeads) = n
      /\ ReturnedHeads \in Seq(Descs) /\ Len(ReturnedHeads) = m
      /\ \A k \in 1..p : PendingHeads[k] = avail_ring[Slot(Ahead(last_avail_idx, k - 1))]
      /\ \A k \in 1..n : DoneHeads[k] = UsedIds[Slot(Ahead(used_idx, k - 1))]
      /\ \A k \in 1..m : ReturnedHeads[k] = UsedIds[Slot(Ahead(guest_used, k - 1))]
  <2>1. p <= Num /\ n <= Num /\ m <= Num
    BY <1>2, <1>3
  <2>2. /\ PendingHeads \in Seq(Descs) /\ Len(PendingHeads) = p
        /\ \A k \in 1..p : PendingHeads[k] = avail_ring[Slot(Ahead(last_avail_idx, k - 1))]
    BY <1>2, <2>1, HeadsType, ZenonT(60) DEF PendingHeads
  <2>3. /\ DoneHeads \in Seq(Descs) /\ Len(DoneHeads) = n
        /\ \A k \in 1..n : DoneHeads[k] = UsedIds[Slot(Ahead(used_idx, k - 1))]
    BY <1>2, <2>1, HeadsType, ZenonT(60) DEF DoneHeads
  <2>4. /\ ReturnedHeads \in Seq(Descs) /\ Len(ReturnedHeads) = m
        /\ \A k \in 1..m : ReturnedHeads[k] = UsedIds[Slot(Ahead(guest_used, k - 1))]
    BY <1>2, <2>1, HeadsType, ZenonT(60) DEF ReturnedHeads
  <2> QED
    BY <2>2, <2>3, <2>4, Zenon
<1>6. Dist(guest_used, guest_used) = 0
  BY <1>2, DistFacts, Zenon
<1> HIDE DEF b, p, n, m
<1>7. ASSUME NEW k \in 1..p PROVE PendingHeads[k] # b
  <2>1. k - 1 \in Nat /\ m + n + (k - 1) < m + n + p /\ m + n <= m + n + (k - 1)
    BY <1>2
  <2>2. LET x == Ahead(last_avail_idx, k - 1) IN x \in Index /\ Dist(guest_used, x) = m + n + (k - 1)
    BY <1>2, <1>4, <2>1, Zenon
  <2>3. avail_ring[Slot(Ahead(last_avail_idx, k - 1))] # b
    BY <1>0, <1>2, <2>1, <2>2, StagedIsNew, Zenon DEF b
  <2> QED
    BY <1>5, <2>3, Zenon
<1>8. ASSUME NEW k \in 1..n PROVE DoneHeads[k] # b
  <2>1. k - 1 \in Nat /\ m + (k - 1) < m + n + p /\ m + (k - 1) < m + n
    BY <1>2
  <2>2. LET x == Ahead(used_idx, k - 1) IN x \in Index /\ Dist(guest_used, x) = m + (k - 1)
    BY <1>2, <1>4, <2>1, Zenon DEF m
  <2>3. UsedIds[Slot(Ahead(used_idx, k - 1))] # b
    BY <1>0, <1>2, <2>1, <2>2, StagedIsNew, Zenon DEF b
  <2> QED
    BY <1>5, <2>3, Zenon
<1>9. ASSUME NEW k \in 1..m PROVE ReturnedHeads[k] # b
  <2>1. k - 1 \in Nat /\ 0 + (k - 1) < m + n + p /\ k - 1 < m + n /\ k - 1 < m + n + p
    BY <1>2, SMTT(60)
  <2>2. LET x == Ahead(guest_used, k - 1) IN x \in Index /\ Dist(guest_used, x) = k - 1
    BY <1>2, <1>4, <1>6, <2>1
  <2>3. UsedIds[Slot(Ahead(guest_used, k - 1))] # b
    BY <1>0, <1>2, <2>1, <2>2, StagedIsNew, Zenon DEF b
  <2> QED
    BY <1>5, <2>3, Zenon
<1>10. LET o == PendingHeads \o DoneHeads \o ReturnedHeads
       IN  Len(o) < Num /\ \A k \in 1..Len(o) : o[k] # b
  <2>1. p + n + m < Num
    BY <1>2, <1>3
  <2>2. /\ \A k \in 1..Len(PendingHeads) : PendingHeads[k] # b
        /\ \A k \in 1..Len(DoneHeads) : DoneHeads[k] # b
        /\ \A k \in 1..Len(ReturnedHeads) : ReturnedHeads[k] # b
    BY <1>5, <1>7, <1>8, <1>9, Zenon
  <2>3. /\ b \in Descs
        /\ PendingHeads \in Seq(Descs) /\ DoneHeads \in Seq(Descs) /\ ReturnedHeads \in Seq(Descs)
    BY <1>2, <1>5, SlotType, Zenon DEF b
  <2>4. /\ Len(PendingHeads \o DoneHeads \o ReturnedHeads)
             = Len(PendingHeads) + Len(DoneHeads) + Len(ReturnedHeads)
        /\ \A k \in 1..Len(PendingHeads \o DoneHeads \o ReturnedHeads) :
              (PendingHeads \o DoneHeads \o ReturnedHeads)[k] # b
    BY <2>2, <2>3, NotInConcat, Zenon
  <2> QED
    BY <1>5, <2>1, <2>4, Zenon
<1>11. PendingHeads' = Append(PendingHeads, b)
  <2>1. Dist(last_avail_idx, Inc(avail_idx)) = p + 1 /\ p < Num
    BY <1>2, <1>3, DistIncFar DEF p
  <2>2. Ahead(last_avail_idx, p) = avail_idx
    <3>1. /\ Ahead(last_avail_idx, p) \in Index
          /\ Dist(last_avail_idx, Ahead(last_avail_idx, p)) = p
      BY <1>2, <1>3, AheadFacts, SMTT(60)
    <3> QED
      BY <1>2, <3>1, DistEqual, Zenon DEF p
  <2>3. Heads(avail_ring, last_avail_idx, p + 1)
          = Append(Heads(avail_ring, last_avail_idx, p), avail_ring[Slot(Ahead(last_avail_idx, p))])
    BY <1>2, <2>1, HeadsAppend, Zenon
  <2> QED
    BY <1>1, <2>1, <2>2, <2>3, Zenon DEF PendingHeads, p, b
<1>12. UNCHANGED <<DoneHeads, ReturnedHeads>>
  BY <1>1, Zenon DEF DoneHeads, ReturnedHeads, UsedIds
<1> QED
  BY <1>10, <1>11, <1>12, Zenon DEF Queue!Submit, Queue!Outstanding, b

(* Every step of the rings is a step of the queue, or none.                *)
LEMMA QueueStep ==
    ASSUME Ownership, Ownership', [Next]_vars
    PROVE  [Queue!Next]_(Queue!vars)
<1>0. TypeOK /\ IndexWindow /\ TypeOK' /\ IndexWindow'
  BY Zenon DEF Ownership
<1> DEFINE Same == UNCHANGED <<PendingHeads, DoneHeads, ReturnedHeads>>
<1>1. SUFFICES Queue!Next \/ Same
  BY Zenon DEF Queue!vars
<1>2. ASSUME NEW c \in ChainLens, NEW s \in [1..Len(c) -> Free], GuestAdd(c, s)
      PROVE  Same
  BY <1>0, <1>2, AddIsStutter, Zenon
<1>3. CASE GuestPublish
  <2>1. avail_ring[Slot(avail_idx)] \in Descs
    BY <1>0, PartLengths, SlotType, Zenon
  <2> QED
    BY <1>3, <2>1, PublishSubmits, Zenon DEF Queue!Next
<1>4. CASE GuestReclaim \/ EndOfAvail \/ FinishDesc
  BY <1>0, <1>4, ReclaimTakesBack, EndPublishes, FinishConsumes, Zenon DEF Queue!Next
<1>5. CASE UNCHANGED <<avail_ring, avail_idx, used_ring, used_idx, guest_used,
                       last_avail_idx, last_used_idx>>
  BY <1>5, Zenon DEF PendingHeads, DoneHeads, ReturnedHeads, UsedIds
<1>6. CASE \/ GuestKick \/ SelectTimeout \/ KickServer \/ PollHandler \/ ProcessAvailVring
           \/ ProcessDesc \/ CopyDesc \/ EchoBuffer \/ UNCHANGED vars
  BY <1>5, <1>6, Zenon DEF GuestKick, SelectTimeout, KickServer, PollHandler,
     ProcessAvailVring, ProcessDesc, CopyDesc, EchoBuffer, vars, shared, guest, server
<1>7. CASE CrashDesc
  BY <1>0, <1>7, CrashIsStutter, Zenon
<1> QED
  BY <1>2, <1>3, <1>4, <1>6, <1>7, Zenon DEF Next, GuestNext, ServerNext

(* The empty rings are the empty queue.                                    *)
LEMMA QueueInit == Init => Queue!Init
<1>1. Init => Dist(last_avail_idx, avail_idx) = 0 /\ Dist(used_idx, last_used_idx) = 0
              /\ Dist(guest_used, used_idx) = 0
  BY DEF Init, Dist
<1> QED
  BY <1>1, SMTT(60) DEF Queue!Init, PendingHeads, DoneHeads, ReturnedHeads, Heads

(* As long as the first descriptor of every chain fits the packet buffer,  *)
(* the rings implement the safety part of the abstract transmit queue, for *)
(* every ring size and index width: chains are consumed once and in order, *)
(* and come back once and in order.                                        *)
THEOREM RingsImplementQueue ==
    ASSUME FirstFits
    PROVE  Spec => Queue!Safety
<1>1. Ownership /\ Ownership' /\ [Next]_vars => [Queue!Next]_(Queue!vars)
  BY QueueStep, Zenon
<1> QED
  BY <1>1, QueueInit, OwnershipCorrect, PTL DEF Spec, Queue!Safety
=============================================================================
