---------------------------- MODULE MemMapProofs ----------------------------
(***************************************************************************)
(* Proofs about QEMU's copy of the guest's memory map (MemMap), for every  *)
(* number of pages, every layout and every length of the array.            *)
(*                                                                         *)
(* Three parts: what the two loops of vhost_dev_unassign_memory and        *)
(* vhost_dev_assign_memory do to an array of regions; what the ranges of   *)
(* the flattened view are; and the invariant that ties the array to the    *)
(* ranges the memory core has announced.  Loops are reasoned about by      *)
(* induction on the number of rounds (BoundedInduction), which rests on    *)
(* the library's theorem that < is well founded on the natural numbers.    *)
(***************************************************************************)
EXTENDS MemMap, WellFoundedInduction, TLAPS

-----------------------------------------------------------------------------
(* Induction and loops.                                                    *)

(* A set of numbers that is not empty has a least member.                  *)
LEMMA LeastNumber ==
    ASSUME NEW S, S \subseteq Nat, S # {}
    PROVE  \E x \in S : \A y \in S : x <= y
<1>1. \E x \in S : \A y \in S : ~(<<y, x>> \in OpToRel(<, Nat))
  BY NatLessThanWellFounded, WFMin, Zenon
<1>2. \E x \in S : \A y \in S : ~(<<y, x>> \in {ss \in Nat \X Nat : ss[1] < ss[2]})
  BY <1>1, Zenon DEF OpToRel
<1>3. PICK x \in S : \A y \in S : ~(<<y, x>> \in {ss \in Nat \X Nat : ss[1] < ss[2]})
  BY <1>2, Zenon
<1>4. ASSUME NEW y \in S PROVE x <= y
  <2>1. x \in Nat /\ y \in Nat /\ <<y, x>> \in Nat \X Nat
    OBVIOUS
  <2>2. <<y, x>>[1] = y /\ <<y, x>>[2] = x
    OBVIOUS
  <2> QED
    BY <1>3, <2>1, <2>2
<1> QED
  BY <1>4, Zenon

(* What holds before a loop and is kept by each of its N rounds holds after *)
(* every round.                                                            *)
LEMMA BoundedInduction ==
    ASSUME NEW N \in Nat, NEW S, 0 \in S,
           \A n \in 0..N : n # N /\ n \in S => n + 1 \in S
    PROVE  \A n \in 0..N : n \in S
<1> DEFINE T == {n \in 0..N : n \notin S}
<1> SUFFICES ASSUME T # {} PROVE FALSE
  OBVIOUS
<1>1. PICK x \in T : \A y \in T : x <= y
  <2>1. T \subseteq Nat
    OBVIOUS
  <2> QED
    BY <2>1, LeastNumber, Zenon
<1>2. x \in 0..N /\ x # 0
  BY <1>1
<1>3. x - 1 \in 0..N /\ x - 1 # N /\ x - 1 + 1 = x
  BY <1>2
<1>4. x - 1 \in S
  BY <1>1, <1>3
<1> QED
  BY <1>1, <1>3, <1>4

(* Append puts one member behind the others.                               *)
LEMMA Appended ==
    ASSUME NEW V, NEW q \in Seq(V), NEW e \in V
    PROVE  /\ Append(q, e) \in Seq(V) /\ Len(Append(q, e)) = Len(q) + 1
           /\ Append(q, e)[Len(q) + 1] = e
           /\ \A k \in 1..Len(q) : Append(q, e)[k] = q[k]
  OBVIOUS

\* The value of the loop of Select after each round.
SelectLoop(a, K, N, f) ==
    f = [n \in 0..N |->
           IF n = 0 THEN <<>>
           ELSE IF n \in K THEN Append(f[n - 1], a[n]) ELSE f[n - 1]]

(* What one round of the loop of Select does.                              *)
LEMMA SelectRound ==
    ASSUME NEW a, NEW K, NEW N \in Nat, NEW f, SelectLoop(a, K, N, f)
    PROVE  /\ f[0] = <<>>
           /\ \A n \in 0..N :
                n # N => f[n + 1] = IF n + 1 \in K THEN Append(f[n], a[n + 1]) ELSE f[n]
<1>1. ASSUME NEW k \in 0..N
      PROVE  /\ k = 0 => f[k] = <<>>
             /\ k # 0 /\ k \in K => f[k] = Append(f[k - 1], a[k])
             /\ k # 0 /\ k \notin K => f[k] = f[k - 1]
  BY Zenon DEF SelectLoop
<1>2. ASSUME NEW n \in 0..N, n # N
      PROVE  f[n + 1] = IF n + 1 \in K THEN Append(f[n], a[n + 1]) ELSE f[n]
  <2>1. PICK k \in 0..N : k = n + 1 /\ k # 0 /\ k - 1 = n
    BY <1>2
  <2> QED
    BY <1>1, <2>1, Zenon
<1>3. 0 \in 0..N
  OBVIOUS
<1> QED
  BY <1>1, <1>2, <1>3, Zenon

(* The loop of Select runs to its end.                                     *)
LEMMA SelectRuns ==
    ASSUME NEW a, NEW K, NEW N \in Nat
    PROVE  \E f : SelectLoop(a, K, N, f)
<1> DEFINE S == {n \in 0..N : \E f : SelectLoop(a, K, n, f)}
<1>1. 0 \in S
  <2> DEFINE z == [n \in 0..0 |-> <<>>]
  <2>1. SelectLoop(a, K, 0, z)
    BY DEF SelectLoop
  <2> QED
    BY <2>1
<1>2. ASSUME NEW n \in 0..N, n # N, n \in S PROVE n + 1 \in S
  <2>1. PICK f : SelectLoop(a, K, n, f)
    BY <1>2
  <2> DEFINE last == IF n + 1 \in K THEN Append(f[n], a[n + 1]) ELSE f[n]
             g == [k \in 0..(n + 1) |-> IF k = n + 1 THEN last ELSE f[k]]
             h == [k \in 0..(n + 1) |->
                     IF k = 0 THEN <<>>
                     ELSE IF k \in K THEN Append(g[k - 1], a[k]) ELSE g[k - 1]]
  <2>2. ASSUME NEW k \in 0..(n + 1) PROVE g[k] = h[k]
    <3>1. CASE k = n + 1
      <4>1. n + 1 # 0 /\ n + 1 - 1 = n /\ n # n + 1 /\ n \in 0..(n + 1)
        OBVIOUS
      <4>2. g[n] = f[n] /\ g[n + 1] = last
        BY <4>1
      <4>3. h[n + 1] = IF n + 1 \in K THEN Append(g[n], a[n + 1]) ELSE g[n]
        BY <4>1
      <4> QED
        BY <3>1, <4>2, <4>3, Zenon
    <3>2. CASE k # n + 1
      <4>1. k \in 0..n
        BY <3>2
      <4>2. g[k] = f[k]
        BY <3>2
      <4>3. f[k] = IF k = 0 THEN <<>>
                   ELSE IF k \in K THEN Append(f[k - 1], a[k]) ELSE f[k - 1]
        BY <2>1, <4>1, Zenon DEF SelectLoop
      <4>4. k # 0 => k - 1 \in 0..(n + 1) /\ k - 1 # n + 1
        BY <4>1
      <4>5. k # 0 => g[k - 1] = f[k - 1]
        BY <4>4, Zenon
      <4>6. h[k] = IF k = 0 THEN <<>>
                   ELSE IF k \in K THEN Append(g[k - 1], a[k]) ELSE g[k - 1]
        BY Zenon
      <4> QED
        BY <4>2, <4>3, <4>5, <4>6, Zenon
    <3> QED
      BY <3>1, <3>2, Zenon
  <2>3. g = h
    BY <2>2, Zenon
  <2>4. SelectLoop(a, K, n + 1, g)
    BY <2>3, Zenon DEF SelectLoop
  <2>5. n + 1 \in 0..N
    BY <1>2
  <2> QED
    BY <2>4, <2>5, Zenon
<1>3. \A n \in 0..N : n \in S
  <2> HIDE DEF S
  <2> QED
    BY <1>1, <1>2, BoundedInduction, Zenon
<1>4. N \in 0..N
  OBVIOUS
<1> QED
  BY <1>3, <1>4, Zenon

\* q holds the members of a at the places in K among the first n, each once;
\* src[j] is the place its j-th member comes from.
Selected(a, K, n, q, src) ==
    /\ src \in [1..Len(q) -> {k \in 1..n : k \in K}]
    /\ \A j \in 1..Len(q) : q[j] = a[src[j]]
    /\ \A i, j \in 1..Len(q) : src[i] = src[j] => i = j
    /\ \A k \in 1..n : k \in K => \E j \in 1..Len(q) : src[j] = k

(* The numbers up to l + 1 are those up to l and one more.                  *)
LEMMA OneMore ==
    ASSUME NEW l \in Nat
    PROVE  /\ \A j \in 1..(l + 1) : j # l + 1 => j \in 1..l
           /\ \A j \in 1..l : j \in 1..(l + 1) /\ j # l + 1
           /\ 1..l \subseteq 1..(l + 1) /\ l + 1 \in 1..(l + 1)
  BY SMT

(* One more round of the loop of Select.                                   *)
LEMMA SelectStep ==
    ASSUME NEW V, NEW a \in Seq(V), NEW K, NEW n \in Nat, n + 1 \in 1..Len(a),
           NEW q \in Seq(V), Len(q) <= n, NEW src, Selected(a, K, n, q, src),
           NEW r, r = IF n + 1 \in K THEN Append(q, a[n + 1]) ELSE q
    PROVE  /\ r \in Seq(V) /\ Len(r) <= n + 1
           /\ \E t : Selected(a, K, n + 1, r, t)
<1>0. Len(q) \in Nat /\ a[n + 1] \in V
  OBVIOUS
<1>1. CASE n + 1 \notin K
  <2>1. r = q
    BY <1>1, Zenon
  <2>2. \A k \in 1..(n + 1) : k \in K => k \in 1..n
    BY <1>1
  <2>3. {k \in 1..(n + 1) : k \in K} = {k \in 1..n : k \in K}
    BY <2>2
  <2>4. Selected(a, K, n + 1, q, src)
    BY <2>2, <2>3, Zenon DEF Selected
  <2>5. Len(q) <= n + 1
    BY <1>0
  <2> QED
    BY <2>1, <2>4, <2>5, Zenon
<1>2. CASE n + 1 \in K
  <2> DEFINE L == Len(q)
             t == [j \in 1..(L + 1) |-> IF j = L + 1 THEN n + 1 ELSE src[j]]
  <2>1. r = Append(q, a[n + 1])
    BY <1>2, Zenon
  <2>2. /\ r \in Seq(V) /\ Len(r) = L + 1 /\ r[L + 1] = a[n + 1]
        /\ \A k \in 1..L : r[k] = q[k]
    BY <2>1, <1>0, Appended, SMT
  <2>3. /\ \A j \in 1..(L + 1) : j # L + 1 => j \in 1..L
        /\ 1..L \subseteq 1..(L + 1) /\ L + 1 \in 1..(L + 1)
        /\ \A j \in 1..L : j # L + 1
        /\ \A k \in 1..n : k \in 1..(n + 1) /\ k # n + 1
        /\ \A k \in 1..(n + 1) : k # n + 1 => k \in 1..n
        /\ n + 1 \in 1..(n + 1)
    <3> HIDE DEF L
    <3>1. L \in Nat
      BY <1>0, Zenon DEF L
    <3> QED
      BY <3>1, OneMore, Zenon
  <2>4. t[L + 1] = n + 1 /\ \A j \in 1..L : t[j] = src[j]
    BY <2>3, Zenon
  <2>5. \A j \in 1..L : src[j] \in 1..n /\ src[j] \in K
    BY Zenon DEF Selected
  <2>6. t \in [1..(L + 1) -> {k \in 1..(n + 1) : k \in K}]
    BY <1>2, <2>3, <2>5, Zenon
  <2>7. \A j \in 1..(L + 1) : r[j] = a[t[j]]
    BY <2>2, <2>3, <2>4, Zenon DEF Selected
  <2>8. \A i, j \in 1..(L + 1) : t[i] = t[j] => i = j
    BY <2>3, <2>4, <2>5, Zenon DEF Selected
  <2>9. \A k \in 1..(n + 1) : k \in K => \E j \in 1..(L + 1) : t[j] = k
    <3> SUFFICES ASSUME NEW k \in 1..(n + 1), k \in K
                 PROVE  \E j \in 1..(L + 1) : t[j] = k
      OBVIOUS
    <3>1. CASE k = n + 1
      BY <3>1, <2>3, <2>4, Zenon
    <3>2. CASE k # n + 1
      <4>1. PICK j \in 1..L : src[j] = k
        BY <3>2, <2>3, Zenon DEF Selected
      <4> QED
        BY <4>1, <2>3, <2>4, Zenon
    <3> QED
      BY <3>1, <3>2, Zenon
  <2>10. Selected(a, K, n + 1, r, t)
    BY <2>2, <2>6, <2>7, <2>8, <2>9, Zenon DEF Selected
  <2> QED
    BY <2>2, <2>10, <1>0
<1> QED
  BY <1>1, <1>2, Zenon

(* Select returns the members of the array at the places in K, each once.  *)
LEMMA SelectFacts ==
    ASSUME NEW V, NEW a \in Seq(V), NEW K
    PROVE  /\ Select(a, K) \in Seq(V) /\ Len(Select(a, K)) <= Len(a)
           /\ \E src : Selected(a, K, Len(a), Select(a, K), src)
<1> DEFINE N == Len(a)
           f == CHOOSE f : SelectLoop(a, K, N, f)
           Good(n) == /\ f[n] \in Seq(V) /\ Len(f[n]) <= n
                      /\ \E src : Selected(a, K, n, f[n], src)
           S == {n \in 0..N : Good(n)}
<1>0. N \in Nat
  OBVIOUS
<1>1. SelectLoop(a, K, N, f)
  BY <1>0, SelectRuns, Zenon
<1>2. Select(a, K) = f[N]
  BY Zenon DEF Select, SelectLoop
<1> HIDE DEF N, f
<1>7. /\ f[0] = <<>>
      /\ \A n \in 0..N :
           n # N => f[n + 1] = IF n + 1 \in K THEN Append(f[n], a[n + 1]) ELSE f[n]
  BY <1>0, <1>1, SelectRound, SMT
<1> USE DEF N
<1>3. 0 \in S
  <2>1. 0 \in 0..N
    BY <1>0
  <2>2. f[0] = <<>>
    BY <1>7, Zenon
  <2>3. <<>> \in Seq(V) /\ Len(<<>>) = 0 /\ 1..0 = {} /\ 0 <= 0
    OBVIOUS
  <2>4. Selected(a, K, 0, <<>>, [j \in {} |-> j])
    <3> DEFINE e == <<>>
    <3>1. 1..Len(e) = {} /\ 1..0 = {}
      OBVIOUS
    <3> HIDE DEF e
    <3>2. [j \in {} |-> j] \in [{} -> {k \in 1..0 : k \in K}]
      BY Zenon
    <3>3. Selected(a, K, 0, e, [j \in {} |-> j])
      BY <3>1, <3>2 DEF Selected
    <3> QED
      BY <3>3, Zenon DEF e
  <2> QED
    BY <2>1, <2>2, <2>3, <2>4, Zenon
<1>4. ASSUME NEW n \in 0..N, n # N, n \in S PROVE n + 1 \in S
  <2>1. n + 1 \in 0..N /\ n + 1 \in 1..Len(a) /\ n + 1 # 0 /\ n + 1 - 1 = n /\ n \in Nat
    BY <1>0, <1>4
  <2>2. f[n + 1] = IF n + 1 \in K THEN Append(f[n], a[n + 1]) ELSE f[n]
    BY <1>7, <1>4, Zenon
  <2>3. PICK src : Selected(a, K, n, f[n], src)
    BY <1>4, Zenon
  <2>4. Good(n + 1)
    BY <1>4, <2>1, <2>2, <2>3, SelectStep, ZenonT(60)
  <2> QED
    BY <2>1, <2>4, Zenon
<1>5. \A n \in 0..N : n \in S
  <2> HIDE DEF S
  <2> QED
    BY <1>0, <1>3, <1>4, BoundedInduction, Zenon
<1>6. N \in 0..N
  BY <1>0
<1> QED
  BY <1>2, <1>5, <1>6, Zenon

-----------------------------------------------------------------------------
(* Regions.                                                                *)

\* A region within the guest's address space and within RAM.
Inside(r) == r \in Region /\ LastPage(r) \in Pages /\ LastHost(r) \in Host

\* Region r puts RAM page h behind guest page p.
Maps(r, p, h) ==
    p \in r.guest_phys_addr..LastPage(r) /\ h = r.userspace_addr + (p - r.guest_phys_addr)

\* Two regions that neither overlap nor could be merged.
Apart(r, t) == ~ranges_overlap(r, t) /\ ~Adjacent(r, t)

\* Region x is a part of region r.
PartOf(x, r) ==
    /\ Inside(x)
    /\ r.guest_phys_addr <= x.guest_phys_addr /\ LastPage(x) <= LastPage(r)
    /\ x.userspace_addr = r.userspace_addr + (x.guest_phys_addr - r.guest_phys_addr)

\* The same with plain numbers.
Span == [guest_phys_addr : Nat, memory_size : Nat, userspace_addr : Nat]
Numbers(r) ==
    /\ r \in Span /\ r.memory_size >= 1
    /\ r.guest_phys_addr + r.memory_size <= GuestPages
    /\ r.userspace_addr + r.memory_size <= HostPages

(* A region is inside when its three numbers are.                          *)
LEMMA InsideNumbers ==
    ASSUME NEW r, Inside(r)
    PROVE  Numbers(r)
<1>1. r \in Region /\ LastPage(r) < GuestPages /\ LastHost(r) < HostPages
  BY MemAssumption, SMT DEF Inside, Pages, Host
<1>2. r \in Span /\ r.memory_size >= 1
  BY <1>1, MemAssumption, SMT DEF Span, Region, Pages, Host
<1>3. r.guest_phys_addr + r.memory_size <= GuestPages
  BY <1>1, <1>2, MemAssumption, SMT DEF Span, LastPage
<1>4. r.userspace_addr + r.memory_size <= HostPages
  BY <1>1, <1>2, MemAssumption, SMT DEF Span, LastHost
<1> QED
  BY <1>2, <1>3, <1>4, Zenon DEF Numbers

(* The converse, for a record of three numbers.                            *)
LEMMA NumbersInside ==
    ASSUME NEW a \in Int, NEW b \in Int, NEW c \in Int,
           0 <= a, 1 <= b, 0 <= c, a + b <= GuestPages, c + b <= HostPages,
           NEW r, r = [guest_phys_addr |-> a, memory_size |-> b, userspace_addr |-> c]
    PROVE  /\ Inside(r) /\ r.guest_phys_addr = a /\ r.memory_size = b /\ r.userspace_addr = c
           /\ LastPage(r) = a + b - 1 /\ LastHost(r) = c + b - 1
<1>1. r.guest_phys_addr = a /\ r.memory_size = b /\ r.userspace_addr = c
  OBVIOUS
<1>2. LastPage(r) = a + b - 1 /\ LastHost(r) = c + b - 1
  BY <1>1 DEF LastPage, LastHost
<1>3. a \in Pages /\ b \in 1..GuestPages /\ c \in Host /\ a + b - 1 \in Pages /\ c + b - 1 \in Host
  BY MemAssumption DEF Pages, Host
<1>4. r \in Region
  BY <1>3 DEF Region
<1> QED
  BY <1>1, <1>2, <1>3, <1>4 DEF Inside

(* Parts of two regions that are apart are apart: a part that was cut off  *)
(* its region at one end does not touch anything there.                    *)
LEMMA PartsApart ==
    ASSUME NEW r, NEW t, Inside(r), Inside(t), Apart(r, t),
           NEW x, NEW y, PartOf(x, r), PartOf(y, t)
    PROVE  Apart(x, y)
<1>1. Numbers(r) /\ Numbers(t) /\ Numbers(x) /\ Numbers(y)
  BY InsideNumbers DEF PartOf
<1>2. r \in Span /\ t \in Span /\ x \in Span /\ y \in Span
  BY <1>1, Zenon DEF Numbers
<1>3. /\ ~ranges_overlap(x, y)
      /\ ~(LastPage(x) + 1 = y.guest_phys_addr /\ LastHost(x) + 1 = y.userspace_addr)
  BY <1>1, <1>2, SMT DEF Span, Numbers, PartOf, Apart, Adjacent, ranges_overlap, LastPage, LastHost
<1>4. ~(LastPage(y) + 1 = x.guest_phys_addr /\ LastHost(y) + 1 = x.userspace_addr)
  BY <1>1, <1>2, SMTT(60) DEF Span, Numbers, PartOf, Apart, Adjacent, ranges_overlap, LastPage, LastHost
<1> QED
  BY <1>3, <1>4, Zenon DEF Apart, Adjacent

(* Being apart does not depend on the order.                               *)
LEMMA ApartSym ==
    ASSUME NEW r, NEW t, Apart(r, t)
    PROVE  Apart(t, r)
  BY Zenon DEF Apart, ranges_overlap, Adjacent

\* Region x is what r has of the pages in lo..hi, at least one.
Cut(x, r, lo, hi) ==
    /\ PartOf(x, r) /\ x \in Span
    /\ x.guest_phys_addr = lo /\ LastPage(x) = hi

(* What is left in front of a range is a part of the region that ends      *)
(* where the range begins.                                                 *)
LEMMA FrontCut ==
    ASSUME NEW r, NEW s, Inside(r), Inside(s), HasFront(r, s)
    PROVE  Cut(InFront(r, s), r, r.guest_phys_addr, s.guest_phys_addr - 1)
<1>1. Numbers(r) /\ Numbers(s)
  BY InsideNumbers, Zenon
<1>2. r \in Span /\ s \in Span
  BY <1>1, Zenon DEF Numbers
<1> DEFINE a == r.guest_phys_addr  b == s.guest_phys_addr - r.guest_phys_addr
           c == r.userspace_addr
           x == [guest_phys_addr |-> a, memory_size |-> b, userspace_addr |-> c]
<1>3. InFront(r, s) = x
  BY <1>2 DEF InFront, Span
<1>4. /\ a \in Int /\ b \in Int /\ c \in Int
      /\ 0 <= a /\ 1 <= b /\ 0 <= c /\ a + b <= GuestPages /\ c + b <= HostPages
      /\ a + b - 1 = s.guest_phys_addr - 1 /\ a <= a /\ c = c + (a - a)
      /\ a + b - 1 <= r.guest_phys_addr + r.memory_size - 1
  BY <1>1, <1>2, MemAssumption, SMT DEF Span, Numbers, HasFront, ranges_overlap, LastPage
<1>5. /\ Inside(x) /\ x.guest_phys_addr = a /\ x.memory_size = b /\ x.userspace_addr = c
      /\ LastPage(x) = a + b - 1
  BY <1>4, NumbersInside
<1>6. x \in Span
  BY <1>5, InsideNumbers, Zenon DEF Numbers
<1> QED
  BY <1>3, <1>4, <1>5, <1>6, Zenon DEF Cut, PartOf, LastPage

(* What is left behind a range is a part of the region that begins where   *)
(* the range ends, at the RAM page the region has there.                   *)
LEMMA BehindCut ==
    ASSUME NEW r, NEW s, Inside(r), Inside(s), HasBehind(r, s)
    PROVE  Cut(Behind(r, s), r, LastPage(s) + 1, LastPage(r))
<1>1. Numbers(r) /\ Numbers(s)
  BY InsideNumbers, Zenon
<1>2. r \in Span /\ s \in Span
  BY <1>1, Zenon DEF Numbers
<1> DEFINE d == LastPage(s) + 1 - r.guest_phys_addr
           a == r.guest_phys_addr + d  b == r.memory_size - d
           c == r.userspace_addr + d
           x == [guest_phys_addr |-> a, memory_size |-> b, userspace_addr |-> c]
<1>3. Behind(r, s) = x
  BY Zenon DEF Behind
<1>4. /\ a \in Int /\ b \in Int /\ c \in Int
      /\ 0 <= a /\ 1 <= b /\ 0 <= c /\ a + b <= GuestPages /\ c + b <= HostPages
      /\ a = LastPage(s) + 1 /\ r.guest_phys_addr <= a
      /\ c = r.userspace_addr + (a - r.guest_phys_addr)
      /\ a + b - 1 = LastPage(r) /\ LastPage(r) <= LastPage(r)
  BY <1>1, <1>2, MemAssumption, SMT DEF Span, Numbers, HasBehind, ranges_overlap, LastPage
<1>5. /\ Inside(x) /\ x.guest_phys_addr = a /\ x.memory_size = b /\ x.userspace_addr = c
      /\ LastPage(x) = a + b - 1
  BY <1>4, NumbersInside
<1>6. x \in Span
  BY <1>5, InsideNumbers, Zenon DEF Numbers
<1> HIDE DEF x
<1> QED
  BY <1>3, <1>4, <1>5, <1>6, Zenon DEF Cut, PartOf

(* A page is in a region when it is between its first and its last page.   *)
LEMMA InPages ==
    ASSUME NEW r \in Span, NEW p \in Int
    PROVE  p \in PagesOf(r) <=> r.guest_phys_addr <= p /\ p <= r.guest_phys_addr + r.memory_size - 1
  BY DEF PagesOf, Span, LastPage

(* A part of a region maps its pages as the region does.                   *)
LEMMA PartMaps ==
    ASSUME NEW r, NEW x, Inside(r), PartOf(x, r), NEW p, NEW h
    PROVE  Maps(x, p, h) <=> Maps(r, p, h) /\ p \in PagesOf(x)
<1>1. Numbers(r) /\ Numbers(x)
  BY InsideNumbers, Zenon DEF PartOf
<1>2. r \in Span /\ x \in Span
  BY <1>1, Zenon DEF Numbers
<1>3. CASE p \notin PagesOf(x)
  BY <1>3, Zenon DEF Maps, PagesOf
<1>4. CASE p \in PagesOf(x)
  <2>1. p \in Int
    BY <1>2, <1>4, SMT DEF PagesOf, Span, LastPage
  <2>2. /\ p \in PagesOf(r)
        /\ x.userspace_addr + (p - x.guest_phys_addr) = r.userspace_addr + (p - r.guest_phys_addr)
    <3>1. /\ r.guest_phys_addr <= x.guest_phys_addr /\ LastPage(x) <= LastPage(r)
          /\ x.userspace_addr = r.userspace_addr + (x.guest_phys_addr - r.guest_phys_addr)
      BY <1>1, Zenon DEF PartOf
    <3>2. p \in PagesOf(r)
      BY <1>2, <1>4, <2>1, <3>1, SMT DEF PagesOf, Span, LastPage
    <3>3. x.userspace_addr + (p - x.guest_phys_addr) = r.userspace_addr + (p - r.guest_phys_addr)
      BY <1>2, <2>1, <3>1, SMTT(60) DEF Span
    <3> QED
      BY <3>2, <3>3, Zenon
  <2> QED
    BY <1>4, <2>2, Zenon DEF Maps, PagesOf
<1> QED
  BY <1>3, <1>4, Zenon

(* What vhost_dev_unassign_memory makes of one region: the parts it keeps  *)
(* lie outside the range and map what the region mapped there.             *)
LEMMA UnassignRegion ==
    ASSUME NEW r, NEW s, Inside(r), Inside(s)
    PROVE  /\ Remains(r, s) => PartOf(Kept(r, s), r) /\ ~ranges_overlap(Kept(r, s), s)
           /\ HasFront(r, s) /\ HasBehind(r, s)
                => /\ PartOf(Behind(r, s), r) /\ ~ranges_overlap(Behind(r, s), s)
                   /\ Apart(Kept(r, s), Behind(r, s))
           /\ \A p, h \in Int :
                Maps(r, p, h) /\ p \notin PagesOf(s)
                  <=> \/ Remains(r, s) /\ Maps(Kept(r, s), p, h)
                      \/ HasFront(r, s) /\ HasBehind(r, s) /\ Maps(Behind(r, s), p, h)
<1>1. Numbers(r) /\ Numbers(s) /\ r \in Span /\ s \in Span
  BY InsideNumbers, Zenon DEF Numbers
<1> DEFINE f == InFront(r, s)
           b == Behind(r, s)
<1>2. CASE ~ranges_overlap(r, s)
  <2>1. ~HasFront(r, s) /\ ~HasBehind(r, s) /\ Kept(r, s) = r /\ Remains(r, s)
    BY <1>2, Zenon DEF HasFront, HasBehind, Kept, Remains
  <2>2. PartOf(r, r)
    BY <1>1, SMT DEF PartOf, Span, LastPage
  <2>3. ASSUME NEW p \in Int, p \in PagesOf(r) PROVE p \notin PagesOf(s)
    BY <1>1, <1>2, <2>3, InPages, SMT DEF ranges_overlap, Span, LastPage
  <2> QED
    BY <1>2, <2>1, <2>2, <2>3, Zenon DEF Maps, PagesOf
<1>3. CASE ranges_overlap(r, s) /\ ~HasFront(r, s) /\ ~HasBehind(r, s)
  <2>1. ~Remains(r, s)
    BY <1>3, Zenon DEF Remains
  <2>2. ASSUME NEW p \in Int, p \in PagesOf(r) PROVE p \in PagesOf(s)
    BY <1>1, <1>3, <2>2, SMT DEF HasFront, HasBehind, PagesOf, Span, LastPage
  <2> QED
    BY <1>3, <2>1, <2>2, Zenon DEF Maps, PagesOf
<1>4. CASE HasFront(r, s) /\ ~HasBehind(r, s)
  <2>1. Kept(r, s) = f /\ Remains(r, s) /\ ranges_overlap(r, s)
    BY <1>4, Zenon DEF Kept, Remains, HasFront
  <2>2. PartOf(f, r) /\ f \in Span /\ f.guest_phys_addr = r.guest_phys_addr
        /\ LastPage(f) = s.guest_phys_addr - 1
    BY <1>4, FrontCut, Zenon DEF Cut
  <2> HIDE DEF f
  <2>3. ~ranges_overlap(f, s)
    BY <1>1, <2>2, SMT DEF ranges_overlap, Span, LastPage
  <2>4. ASSUME NEW p \in Int PROVE p \in PagesOf(f) <=> p \in PagesOf(r) /\ p \notin PagesOf(s)
    BY <1>1, <1>4, <2>1, <2>2, InPages, SMT
       DEF HasBehind, HasFront, ranges_overlap, Numbers, Span, LastPage
  <2>5. ASSUME NEW p \in Int, NEW h \in Int
        PROVE  Maps(f, p, h) <=> Maps(r, p, h) /\ p \notin PagesOf(s)
    <3>1. Maps(f, p, h) <=> Maps(r, p, h) /\ p \in PagesOf(f)
      BY <2>2, PartMaps, Zenon
    <3>2. Maps(r, p, h) => p \in PagesOf(r)
      BY Zenon DEF Maps, PagesOf
    <3> QED
      BY <2>4, <3>1, <3>2, Zenon
  <2> QED
    BY <1>4, <2>1, <2>2, <2>3, <2>5, Zenon
<1>5. CASE ~HasFront(r, s) /\ HasBehind(r, s)
  <2>1. Kept(r, s) = b /\ Remains(r, s) /\ ranges_overlap(r, s)
    BY <1>5, Zenon DEF Kept, Remains, HasBehind
  <2>2. PartOf(b, r) /\ b \in Span /\ b.guest_phys_addr = LastPage(s) + 1
        /\ LastPage(b) = LastPage(r)
    BY <1>5, BehindCut, Zenon DEF Cut
  <2> HIDE DEF b
  <2>3. ~ranges_overlap(b, s)
    BY <1>1, <2>2, SMT DEF ranges_overlap, Span, LastPage
  <2>4. ASSUME NEW p \in Int PROVE p \in PagesOf(b) <=> p \in PagesOf(r) /\ p \notin PagesOf(s)
    BY <1>1, <1>5, <2>1, <2>2, InPages, SMTT(60)
       DEF HasBehind, HasFront, ranges_overlap, Numbers, Span, LastPage
  <2>5. ASSUME NEW p \in Int, NEW h \in Int
        PROVE  Maps(b, p, h) <=> Maps(r, p, h) /\ p \notin PagesOf(s)
    <3>1. Maps(b, p, h) <=> Maps(r, p, h) /\ p \in PagesOf(b)
      BY <2>2, PartMaps, Zenon
    <3>2. Maps(r, p, h) => p \in PagesOf(r)
      BY Zenon DEF Maps, PagesOf
    <3> QED
      BY <2>4, <3>1, <3>2, Zenon
  <2> QED
    BY <1>5, <2>1, <2>2, <2>3, <2>5, Zenon
<1>6. CASE HasFront(r, s) /\ HasBehind(r, s)
  <2>1. Kept(r, s) = f /\ Remains(r, s) /\ ranges_overlap(r, s)
    BY <1>6, Zenon DEF Kept, Remains, HasFront
  <2>2. PartOf(f, r) /\ f \in Span /\ f.guest_phys_addr = r.guest_phys_addr
        /\ LastPage(f) = s.guest_phys_addr - 1
    BY <1>6, FrontCut, Zenon DEF Cut
  <2>3. PartOf(b, r) /\ b \in Span /\ b.guest_phys_addr = LastPage(s) + 1
        /\ LastPage(b) = LastPage(r)
    BY <1>6, BehindCut, Zenon DEF Cut
  <2> HIDE DEF f, b
  <2>4. ~ranges_overlap(f, s) /\ ~ranges_overlap(b, s)
    BY <1>1, <2>2, <2>3, SMT DEF ranges_overlap, Span, LastPage
  <2>5. Apart(f, b)
    <3>1. Numbers(f) /\ Numbers(b)
      BY <2>2, <2>3, InsideNumbers, Zenon DEF PartOf
    <3> QED
      BY <1>1, <2>2, <2>3, <3>1, SMT DEF Apart, ranges_overlap, Adjacent, Span, Numbers, LastPage
  <2>6. ASSUME NEW p \in Int
        PROVE  p \in PagesOf(f) \/ p \in PagesOf(b) <=> p \in PagesOf(r) /\ p \notin PagesOf(s)
    BY <1>1, <1>6, <2>1, <2>2, <2>3, SMT
       DEF HasBehind, HasFront, Numbers, PagesOf, Span, LastPage
  <2>7. ASSUME NEW p \in Int, NEW h \in Int
        PROVE  Maps(f, p, h) \/ Maps(b, p, h) <=> Maps(r, p, h) /\ p \notin PagesOf(s)
    <3>1. /\ Maps(f, p, h) <=> Maps(r, p, h) /\ p \in PagesOf(f)
          /\ Maps(b, p, h) <=> Maps(r, p, h) /\ p \in PagesOf(b)
      BY <2>2, <2>3, PartMaps, Zenon
    <3>2. Maps(r, p, h) => p \in PagesOf(r)
      BY Zenon DEF Maps, PagesOf
    <3> QED
      BY <2>6, <3>1, <3>2, Zenon
  <2> QED
    BY <1>6, <2>1, <2>2, <2>3, <2>4, <2>5, <2>7, Zenon DEF b
<1> QED
  BY <1>2, <1>3, <1>4, <1>5, <1>6

-----------------------------------------------------------------------------
(* Arrays of regions.                                                      *)

\* An array as dev->mem has to be.
Sound(m) ==
    /\ m \in Seq(Region)
    /\ \A k \in 1..Len(m) : Inside(m[k])
    /\ \A j, k \in 1..Len(m) : j # k => Apart(m[j], m[k])

\* Some region of the array puts RAM page h behind guest page p.
Covers(m, p, h) == \E k \in 1..Len(m) : Maps(m[k], p, h)

\* No region of the array has a page of the range.
Clear(m, s) == \A k \in 1..Len(m) : ~ranges_overlap(m[k], s)

(* A sequence is one over any set that has its members.                    *)
LEMMA SeqOver ==
    ASSUME NEW V, NEW W, NEW q \in Seq(V), \A k \in 1..Len(q) : q[k] \in W
    PROVE  q \in Seq(W)
  OBVIOUS

(* The members of two arrays put together.                                 *)
LEMMA Concatenated ==
    ASSUME NEW V, NEW q \in Seq(V), NEW r \in Seq(V)
    PROVE  /\ q \o r \in Seq(V) /\ Len(q \o r) = Len(q) + Len(r)
           /\ \A k \in 1..Len(q) : k \in 1..Len(q \o r) /\ (q \o r)[k] = q[k]
           /\ \A k \in 1..Len(r) :
                Len(q) + k \in 1..Len(q \o r) /\ (q \o r)[Len(q) + k] = r[k]
           /\ \A k \in 1..Len(q \o r) :
                \/ k \in 1..Len(q)
                \/ \E j \in 1..Len(r) : k = Len(q) + j
<1>1. /\ q \o r \in Seq(V) /\ Len(q \o r) = Len(q) + Len(r) /\ Len(q) \in Nat /\ Len(r) \in Nat
  OBVIOUS
<1>2. ASSUME NEW k \in 1..Len(q) PROVE k \in 1..Len(q \o r) /\ (q \o r)[k] = q[k]
  OBVIOUS
<1>3. ASSUME NEW k \in 1..Len(r)
      PROVE  Len(q) + k \in 1..Len(q \o r) /\ (q \o r)[Len(q) + k] = r[k]
  OBVIOUS
<1>4. ASSUME NEW k \in 1..Len(q \o r), k \notin 1..Len(q)
      PROVE  k - Len(q) \in 1..Len(r) /\ k = Len(q) + (k - Len(q))
  BY <1>1, <1>4
<1> QED
  BY <1>1, <1>2, <1>3, <1>4, Zenon

\* Region x is what vhost_dev_unassign_memory leaves of the region at place k.
FirstPiece(m, s, k, x) == Remains(m[k], s) /\ x = Kept(m[k], s)
RearPiece(m, s, k, x) == HasFront(m[k], s) /\ HasBehind(m[k], s) /\ x = Behind(m[k], s)

\* The array that is left is q and, behind it, r; f and g say from which place
\* the members come.
Pieces(m, s, q, r, f, g) ==
    /\ q \in Seq(Region) /\ r \in Seq(Region)
    /\ Unassign(m, s) = q \o r
    /\ Len(q) <= Len(m)
    /\ \A j \in 1..Len(q) : f[j] \in 1..Len(m) /\ FirstPiece(m, s, f[j], q[j])
    /\ \A j \in 1..Len(r) : g[j] \in 1..Len(m) /\ RearPiece(m, s, g[j], r[j])
    /\ \A i, j \in 1..Len(q) : f[i] = f[j] => i = j
    /\ \A i, j \in 1..Len(r) : g[i] = g[j] => i = j
    /\ \A k \in 1..Len(m) : Remains(m[k], s) => \E j \in 1..Len(q) : f[j] = k
    /\ \A k \in 1..Len(m) : HasFront(m[k], s) /\ HasBehind(m[k], s)
                              => \E j \in 1..Len(r) : g[j] = k

(* Each member vhost_dev_unassign_memory leaves in the array comes from a  *)
(* place of its own.                                                       *)
LEMMA UnassignPieces ==
    ASSUME NEW m, Sound(m), NEW s, Inside(s)
    PROVE  \E q, r, f, g : Pieces(m, s, q, r, f, g)
<1> DEFINE a  == [k \in DOMAIN m |-> Kept(m[k], s)]
           b  == [k \in DOMAIN m |-> Behind(m[k], s)]
           K1 == {k \in DOMAIN m : Remains(m[k], s)}
           K2 == {k \in DOMAIN m : HasFront(m[k], s) /\ HasBehind(m[k], s)}
           V1 == {a[k] : k \in DOMAIN m}
           V2 == {b[k] : k \in DOMAIN m}
           q  == Select(a, K1)
           r  == Select(b, K2)
<1>1. m \in Seq(Region) /\ Len(m) \in Nat /\ DOMAIN m = 1..Len(m)
  BY DEF Sound
<1>2. a \in Seq(V1) /\ b \in Seq(V2) /\ Len(a) = Len(m) /\ Len(b) = Len(m)
  <2>1. a \in [1..Len(m) -> V1] /\ b \in [1..Len(m) -> V2]
    BY <1>1, Zenon
  <2> HIDE DEF a, b, V1, V2
  <2> QED
    BY <1>1, <2>1, SMT
<1>3. Unassign(m, s) = q \o r
  BY Zenon DEF Unassign
<1>4. q \in Seq(V1) /\ Len(q) <= Len(m) /\ \E f : Selected(a, K1, Len(m), q, f)
  <2> HIDE DEF a, K1, V1
  <2> QED
    BY <1>2, SelectFacts, Zenon
<1>5. r \in Seq(V2) /\ Len(r) <= Len(m) /\ \E g : Selected(b, K2, Len(m), r, g)
  <2> HIDE DEF b, K2, V2
  <2> QED
    BY <1>2, SelectFacts, Zenon
<1> HIDE DEF q, r
<1>6. PICK f : Selected(a, K1, Len(m), q, f)
  BY <1>4, Zenon
<1>7. PICK g : Selected(b, K2, Len(m), r, g)
  BY <1>5, Zenon
<1>8. ASSUME NEW j \in 1..Len(q)
      PROVE  /\ f[j] \in 1..Len(m) /\ FirstPiece(m, s, f[j], q[j]) /\ q[j] \in Region
  <2>1. f[j] \in 1..Len(m) /\ f[j] \in K1 /\ q[j] = a[f[j]]
    BY <1>6, Zenon DEF Selected
  <2>2. FirstPiece(m, s, f[j], q[j])
    BY <1>1, <2>1, Zenon DEF FirstPiece
  <2>3. PartOf(q[j], m[f[j]])
    BY <2>1, <2>2, UnassignRegion, Zenon DEF Sound, FirstPiece
  <2> QED
    BY <2>1, <2>2, <2>3, Zenon DEF PartOf, Inside
<1>9. ASSUME NEW j \in 1..Len(r)
      PROVE  /\ g[j] \in 1..Len(m) /\ RearPiece(m, s, g[j], r[j]) /\ r[j] \in Region
  <2>1. g[j] \in 1..Len(m) /\ g[j] \in K2 /\ r[j] = b[g[j]]
    BY <1>7, Zenon DEF Selected
  <2>2. RearPiece(m, s, g[j], r[j])
    BY <1>1, <2>1, Zenon DEF RearPiece
  <2>3. PartOf(r[j], m[g[j]])
    BY <2>1, <2>2, UnassignRegion, Zenon DEF Sound, RearPiece
  <2> QED
    BY <2>1, <2>2, <2>3, Zenon DEF PartOf, Inside
<1>10. q \in Seq(Region) /\ r \in Seq(Region)
  BY <1>4, <1>5, <1>8, <1>9, SeqOver, Zenon
<1>11. /\ \A k \in 1..Len(m) : Remains(m[k], s) => \E j \in 1..Len(q) : f[j] = k
       /\ \A k \in 1..Len(m) : HasFront(m[k], s) /\ HasBehind(m[k], s)
                                 => \E j \in 1..Len(r) : g[j] = k
  BY <1>1, <1>6, <1>7, Zenon DEF Selected
<1>12. /\ \A i, j \in 1..Len(q) : f[i] = f[j] => i = j
       /\ \A i, j \in 1..Len(r) : g[i] = g[j] => i = j
  BY <1>6, <1>7, Zenon DEF Selected
<1>13. Pieces(m, s, q, r, f, g)
  BY <1>3, <1>4, <1>8, <1>9, <1>10, <1>11, <1>12, Zenon DEF Pieces
<1> QED
  BY <1>13, Zenon

(* Two regions that stick out of a range in front overlap.                 *)
LEMMA FrontsOverlap ==
    ASSUME NEW a \in Span, NEW b \in Span, NEW s \in Span, HasFront(a, s), HasFront(b, s)
    PROVE  ranges_overlap(a, b)
  BY SMT DEF HasFront, ranges_overlap, Span, LastPage

(* vhost_dev_unassign_memory takes the range out of the array, leaves the  *)
(* rest mapped as it was, in regions that cannot be merged, and needs room *)
(* for one region more, for none if nothing overlaps the range.            *)
LEMMA UnassignFacts ==
    ASSUME NEW m, Sound(m), NEW s, Inside(s)
    PROVE  /\ Sound(Unassign(m, s)) /\ Clear(Unassign(m, s), s)
           /\ \A p, h \in Int :
                Covers(Unassign(m, s), p, h) <=> Covers(m, p, h) /\ p \notin PagesOf(s)
           /\ Len(Unassign(m, s)) <= Len(m) + 1
           /\ Clear(m, s) => Len(Unassign(m, s)) <= Len(m)
<1>1. PICK q, r, f, g : Pieces(m, s, q, r, f, g)
  BY UnassignPieces, Zenon
<1> DEFINE u == q \o r
           N == Len(q)
<1>2. q \in Seq(Region) /\ r \in Seq(Region) /\ Unassign(m, s) = u /\ Len(q) <= Len(m)
  BY <1>1, Zenon DEF Pieces
<1>3. Len(q) \in Nat /\ Len(r) \in Nat /\ Len(m) \in Nat
  BY <1>2, SMT DEF Sound
<1>4. /\ u \in Seq(Region) /\ Len(u) = Len(q) + Len(r)
      /\ \A k \in 1..Len(q) : k \in 1..Len(u) /\ u[k] = q[k]
      /\ \A k \in 1..Len(r) : Len(q) + k \in 1..Len(u) /\ u[Len(q) + k] = r[k]
      /\ \A k \in 1..Len(u) : k \in 1..Len(q) \/ \E j \in 1..Len(r) : k = Len(q) + j
  BY <1>2, Concatenated, ZenonT(60)
<1> HIDE DEF u
<1>5. ASSUME NEW j \in 1..Len(q)
      PROVE  /\ f[j] \in 1..Len(m) /\ Inside(m[f[j]]) /\ Remains(m[f[j]], s)
             /\ u[j] = Kept(m[f[j]], s)
             /\ PartOf(u[j], m[f[j]]) /\ ~ranges_overlap(u[j], s)
  <2>1. f[j] \in 1..Len(m) /\ Remains(m[f[j]], s) /\ u[j] = Kept(m[f[j]], s)
    BY <1>1, <1>4, Zenon DEF Pieces, FirstPiece
  <2>2. Inside(m[f[j]])
    BY <2>1, Zenon DEF Sound
  <2> QED
    BY <2>1, <2>2, UnassignRegion, Zenon
<1>6. ASSUME NEW j \in 1..Len(r)
      PROVE  /\ g[j] \in 1..Len(m) /\ Inside(m[g[j]])
             /\ HasFront(m[g[j]], s) /\ HasBehind(m[g[j]], s)
             /\ u[N + j] = Behind(m[g[j]], s)
             /\ PartOf(u[N + j], m[g[j]]) /\ ~ranges_overlap(u[N + j], s)
             /\ Apart(Kept(m[g[j]], s), u[N + j])
  <2>1. /\ g[j] \in 1..Len(m) /\ HasFront(m[g[j]], s) /\ HasBehind(m[g[j]], s)
        /\ u[N + j] = Behind(m[g[j]], s)
    BY <1>1, <1>4, Zenon DEF Pieces, RearPiece
  <2>2. Inside(m[g[j]])
    BY <2>1, Zenon DEF Sound
  <2> QED
    BY <2>1, <2>2, UnassignRegion, Zenon
<1>7. ASSUME NEW k \in 1..Len(u) PROVE Inside(u[k]) /\ ~ranges_overlap(u[k], s)
  BY <1>4, <1>5, <1>6, Zenon DEF PartOf
<1>8. ASSUME NEW i \in 1..Len(u), NEW j \in 1..Len(u), i # j PROVE Apart(u[i], u[j])
  <2>1. ASSUME NEW x \in 1..Len(q), NEW y \in 1..Len(q), x # y PROVE Apart(u[x], u[y])
    <3>1. f[x] # f[y]
      BY <1>1, <2>1, Zenon DEF Pieces
    <3>2. Apart(m[f[x]], m[f[y]])
      BY <1>5, <3>1, Zenon DEF Sound
    <3> QED
      BY <1>5, <3>2, PartsApart, Zenon
  <2>2. ASSUME NEW x \in 1..Len(r), NEW y \in 1..Len(r), x # y PROVE Apart(u[N + x], u[N + y])
    <3>1. g[x] # g[y]
      BY <1>1, <2>2, Zenon DEF Pieces
    <3>2. Apart(m[g[x]], m[g[y]])
      BY <1>6, <3>1, Zenon DEF Sound
    <3> QED
      BY <1>6, <3>2, PartsApart, Zenon
  <2>3. ASSUME NEW x \in 1..Len(q), NEW y \in 1..Len(r)
        PROVE  Apart(u[x], u[N + y]) /\ Apart(u[N + y], u[x])
    <3>1. CASE f[x] = g[y]
      BY <1>5, <1>6, <3>1, ApartSym, Zenon
    <3>2. CASE f[x] # g[y]
      <4>1. Apart(m[f[x]], m[g[y]])
        BY <1>5, <1>6, <3>2, Zenon DEF Sound
      <4>2. Apart(u[x], u[N + y])
        BY <1>5, <1>6, <4>1, PartsApart, Zenon
      <4> QED
        BY <4>2, ApartSym, Zenon
    <3> QED
      BY <3>1, <3>2, Zenon
  <2>4. CASE i \in 1..Len(q) /\ j \in 1..Len(q)
    BY <1>8, <2>1, <2>4, Zenon
  <2>5. CASE i \in 1..Len(q) /\ j \notin 1..Len(q)
    BY <1>4, <2>3, <2>5, Zenon
  <2>6. CASE i \notin 1..Len(q) /\ j \in 1..Len(q)
    BY <1>4, <2>3, <2>6, Zenon
  <2>7. CASE i \notin 1..Len(q) /\ j \notin 1..Len(q)
    <3>1. PICK x \in 1..Len(r) : i = N + x
      BY <1>4, <2>7, Zenon
    <3>2. PICK y \in 1..Len(r) : j = N + y
      BY <1>4, <2>7, Zenon
    <3>3. x # y
      BY <1>8, <3>1, <3>2, Zenon
    <3> QED
      BY <2>2, <3>1, <3>2, <3>3, Zenon
  <2> QED
    BY <2>4, <2>5, <2>6, <2>7, Zenon
<1>9. ASSUME NEW p \in Int, NEW h \in Int
      PROVE  Covers(u, p, h) <=> Covers(m, p, h) /\ p \notin PagesOf(s)
  <2>1. ASSUME Covers(u, p, h) PROVE Covers(m, p, h) /\ p \notin PagesOf(s)
    <3>1. PICK k \in 1..Len(u) : Maps(u[k], p, h)
      BY <2>1, Zenon DEF Covers
    <3>2. CASE k \in 1..Len(q)
      <4>0. Inside(m[f[k]]) /\ Remains(m[f[k]], s) /\ Maps(Kept(m[f[k]], s), p, h)
        BY <1>5, <3>1, <3>2, Zenon
      <4>1. Maps(m[f[k]], p, h) /\ p \notin PagesOf(s)
        BY <4>0, UnassignRegion, Zenon
      <4> QED
        BY <1>5, <3>2, <4>1, Zenon DEF Covers
    <3>3. CASE k \notin 1..Len(q)
      <4>1. PICK j \in 1..Len(r) : k = N + j
        BY <1>4, <3>3, Zenon
      <4>2. /\ Inside(m[g[j]]) /\ HasFront(m[g[j]], s) /\ HasBehind(m[g[j]], s)
            /\ Maps(Behind(m[g[j]], s), p, h)
        BY <1>6, <3>1, <4>1, Zenon
      <4>3. Maps(m[g[j]], p, h) /\ p \notin PagesOf(s)
        BY <4>2, UnassignRegion, Zenon
      <4> QED
        BY <1>6, <4>3, Zenon DEF Covers
    <3> QED
      BY <3>2, <3>3, Zenon
  <2>2. ASSUME Covers(m, p, h), p \notin PagesOf(s) PROVE Covers(u, p, h)
    <3>1. PICK k \in 1..Len(m) : Maps(m[k], p, h)
      BY <2>2, Zenon DEF Covers
    <3>2. \/ Remains(m[k], s) /\ Maps(Kept(m[k], s), p, h)
          \/ HasFront(m[k], s) /\ HasBehind(m[k], s) /\ Maps(Behind(m[k], s), p, h)
      BY <2>2, <3>1, UnassignRegion, Zenon DEF Sound
    <3>3. CASE Remains(m[k], s) /\ Maps(Kept(m[k], s), p, h)
      <4>1. PICK j \in 1..Len(q) : f[j] = k
        BY <1>1, <3>3, Zenon DEF Pieces
      <4> QED
        BY <1>4, <1>5, <3>3, <4>1, Zenon DEF Covers
    <3>4. CASE HasFront(m[k], s) /\ HasBehind(m[k], s) /\ Maps(Behind(m[k], s), p, h)
      <4>1. PICK j \in 1..Len(r) : g[j] = k
        BY <1>1, <3>4, Zenon DEF Pieces
      <4> QED
        BY <1>4, <1>6, <3>4, <4>1, Zenon DEF Covers
    <3> QED
      BY <3>2, <3>3, <3>4, Zenon
  <2> QED
    BY <2>1, <2>2, Zenon
<1>10. Len(r) <= 1
  <2> SUFFICES ASSUME Len(r) > 1 PROVE FALSE
    BY <1>3
  <2>1. 1 \in 1..Len(r) /\ 2 \in 1..Len(r) /\ 1 # 2
    BY <1>3
  <2>2. g[1] # g[2]
    BY <1>1, <2>1, Zenon DEF Pieces
  <2> DEFINE a == m[g[1]]
             b == m[g[2]]
  <2>3. ~ranges_overlap(a, b)
    BY <1>6, <2>1, <2>2, Zenon DEF Sound, Apart
  <2>4. a \in Span /\ b \in Span /\ s \in Span
    BY <1>6, <2>1, InsideNumbers, Zenon DEF Numbers
  <2>5. HasFront(a, s) /\ HasFront(b, s)
    BY <1>6, <2>1, Zenon
  <2> HIDE DEF a, b
  <2> QED
    BY <2>3, <2>4, <2>5, FrontsOverlap, Zenon
<1>11. ASSUME Clear(m, s) PROVE Len(r) = 0
  <2> SUFFICES ASSUME Len(r) # 0 PROVE FALSE
    OBVIOUS
  <2>1. 1 \in 1..Len(r)
    BY <1>3
  <2> QED
    BY <1>6, <1>11, <2>1, Zenon DEF Clear, HasFront
<1>12. Len(u) <= Len(m) + 1 /\ (Clear(m, s) => Len(u) <= Len(m))
  BY <1>2, <1>3, <1>4, <1>10, <1>11
<1> QED
  BY <1>2, <1>4, <1>7, <1>8, <1>9, <1>12, Zenon DEF Sound, Clear

\* The value of the loop of vhost_dev_assign_memory after each round.
AssignStart(s) == [out |-> <<>>, merged |-> 0, sec |-> s]
AssignLoop(m, s, N, f) ==
    f = [n \in 0..N |-> IF n = 0 THEN [out |-> <<>>, merged |-> 0, sec |-> s]
                        ELSE AssignRegion(f[n - 1], m[n])]

(* What one round of the loop does.                                        *)
LEMMA AssignRound ==
    ASSUME NEW m, NEW s, NEW N \in Nat, NEW f, AssignLoop(m, s, N, f)
    PROVE  /\ f[0] = AssignStart(s)
           /\ \A n \in 0..N : n # N => f[n + 1] = AssignRegion(f[n], m[n + 1])
<1>1. ASSUME NEW k \in 0..N
      PROVE  /\ k = 0 => f[k] = AssignStart(s)
             /\ k # 0 => f[k] = AssignRegion(f[k - 1], m[k])
  BY Zenon DEF AssignLoop, AssignStart
<1>2. ASSUME NEW n \in 0..N, n # N
      PROVE  f[n + 1] = AssignRegion(f[n], m[n + 1])
  <2>1. PICK k \in 0..N : k = n + 1 /\ k # 0 /\ k - 1 = n
    BY <1>2
  <2> QED
    BY <1>1, <2>1, Zenon
<1>3. 0 \in 0..N
  OBVIOUS
<1> QED
  BY <1>1, <1>2, <1>3, Zenon

(* The loop of vhost_dev_assign_memory runs to its end.                    *)
LEMMA AssignRuns ==
    ASSUME NEW m, NEW s, NEW N \in Nat
    PROVE  \E f : AssignLoop(m, s, N, f)
<1> DEFINE S == {n \in 0..N : \E f : AssignLoop(m, s, n, f)}
<1>1. 0 \in S
  <2> DEFINE z == [n \in 0..0 |-> AssignStart(s)]
             y == [n \in 0..0 |-> IF n = 0 THEN [out |-> <<>>, merged |-> 0, sec |-> s]
                                  ELSE AssignRegion(z[n - 1], m[n])]
  <2>1. ASSUME NEW n \in 0..0 PROVE z[n] = y[n]
    <3>1. n = 0
      OBVIOUS
    <3> QED
      BY <3>1, Zenon DEF AssignStart
  <2>2. z = y
    BY <2>1, Zenon
  <2>3. AssignLoop(m, s, 0, z)
    BY <2>2, Zenon DEF AssignLoop
  <2>4. 0 \in 0..N
    OBVIOUS
  <2> QED
    BY <2>3, <2>4, Zenon
<1>2. ASSUME NEW n \in 0..N, n # N, n \in S PROVE n + 1 \in S
  <2>1. PICK f : AssignLoop(m, s, n, f)
    BY <1>2, Zenon
  <2> DEFINE last == AssignRegion(f[n], m[n + 1])
             g == [k \in 0..(n + 1) |-> IF k = n + 1 THEN last ELSE f[k]]
             h == [k \in 0..(n + 1) |->
                     IF k = 0 THEN [out |-> <<>>, merged |-> 0, sec |-> s]
                     ELSE AssignRegion(g[k - 1], m[k])]
  <2>2. ASSUME NEW k \in 0..(n + 1) PROVE g[k] = h[k]
    <3>1. CASE k = n + 1
      <4>1. n + 1 # 0 /\ n + 1 - 1 = n /\ n # n + 1 /\ n \in 0..(n + 1)
        OBVIOUS
      <4>2. g[n] = f[n] /\ g[n + 1] = last
        BY <4>1
      <4>3. k # 0 /\ k - 1 = n
        BY <3>1
      <4>4. h[k] = AssignRegion(g[k - 1], m[k])
        BY <4>3, Zenon
      <4> QED
        BY <3>1, <4>2, <4>3, <4>4, Zenon
    <3>2. CASE k # n + 1
      <4>1. k \in 0..n
        BY <3>2
      <4>2. g[k] = f[k]
        BY <3>2, Zenon
      <4>3. f[k] = IF k = 0 THEN [out |-> <<>>, merged |-> 0, sec |-> s]
                   ELSE AssignRegion(f[k - 1], m[k])
        BY <2>1, <4>1, Zenon DEF AssignLoop
      <4>4. k # 0 => k - 1 \in 0..(n + 1) /\ k - 1 # n + 1
        BY <4>1
      <4>5. k # 0 => g[k - 1] = f[k - 1]
        BY <4>4, Zenon
      <4>6. h[k] = IF k = 0 THEN [out |-> <<>>, merged |-> 0, sec |-> s]
                   ELSE AssignRegion(g[k - 1], m[k])
        BY Zenon
      <4> QED
        BY <4>2, <4>3, <4>5, <4>6, Zenon
    <3> QED
      BY <3>1, <3>2, Zenon
  <2>3. g = h
    BY <2>2, Zenon
  <2>4. AssignLoop(m, s, n + 1, g)
    BY <2>3, Zenon DEF AssignLoop
  <2>5. n + 1 \in 0..N
    BY <1>2
  <2> QED
    BY <2>4, <2>5, Zenon
<1>3. \A n \in 0..N : n \in S
  <2> HIDE DEF S
  <2> QED
    BY <1>1, <1>2, BoundedInduction, Zenon
<1>4. N \in 0..N
  OBVIOUS
<1> QED
  BY <1>3, <1>4, Zenon

(* Merging two adjacent regions: the result maps what the two mapped, and  *)
(* is apart from what was apart from both.                                 *)
LEMMA MergeFacts ==
    ASSUME NEW r, NEW x, Inside(r), Inside(x), Adjacent(r, x)
    PROVE  /\ Inside(Merge(r, x))
           /\ \A p, h \in Int : Maps(Merge(r, x), p, h) <=> Maps(r, p, h) \/ Maps(x, p, h)
           /\ \A t : Inside(t) /\ ~ranges_overlap(r, t) /\ ~ranges_overlap(x, t)
                       => ~ranges_overlap(Merge(r, x), t)
           /\ \A t : Inside(t) /\ Apart(t, r) /\ Apart(t, x) => Apart(t, Merge(r, x))
<1>1. Numbers(r) /\ Numbers(x) /\ r \in Span /\ x \in Span
  BY InsideNumbers, Zenon DEF Numbers
<1> DEFINE a == IF r.guest_phys_addr < x.guest_phys_addr THEN r.guest_phys_addr
                ELSE x.guest_phys_addr
           b == r.memory_size + x.memory_size
           c == IF r.userspace_addr < x.userspace_addr THEN r.userspace_addr
                ELSE x.userspace_addr
           u == [guest_phys_addr |-> a, memory_size |-> b, userspace_addr |-> c]
<1>2. Merge(r, x) = u
  BY Zenon DEF Merge
<1>3. /\ a \in Int /\ b \in Int /\ c \in Int
      /\ 0 <= a /\ 1 <= b /\ 0 <= c /\ a + b <= GuestPages /\ c + b <= HostPages
  BY <1>1, MemAssumption, SMT DEF Span, Numbers, Adjacent, LastPage, LastHost
<1>4. /\ Inside(u) /\ u.guest_phys_addr = a /\ u.memory_size = b /\ u.userspace_addr = c
  BY <1>3, NumbersInside
<1>5. Numbers(u) /\ u \in Span
  BY <1>4, InsideNumbers, Zenon DEF Numbers
<1>6. u.guest_phys_addr = a /\ u.memory_size = b /\ u.userspace_addr = c
  BY <1>4, Zenon
<1> HIDE DEF u
<1>7. ASSUME NEW p \in Int, NEW h \in Int
      PROVE  Maps(u, p, h) <=> Maps(r, p, h) \/ Maps(x, p, h)
  BY <1>1, <1>5, <1>6, SMT DEF Maps, Span, Numbers, Adjacent, LastPage, LastHost
<1>8. ASSUME NEW t, Inside(t), ~ranges_overlap(r, t), ~ranges_overlap(x, t)
      PROVE  ~ranges_overlap(u, t)
  <2>1. Numbers(t) /\ t \in Span
    BY <1>8, InsideNumbers, Zenon DEF Numbers
  <2> QED
    BY <1>1, <1>5, <1>6, <1>8, <2>1, SMT DEF ranges_overlap, Span, Numbers, Adjacent, LastPage, LastHost
<1>9. ASSUME NEW t, Inside(t), Apart(t, r), Apart(t, x)
      PROVE  Apart(t, u)
  <2>1. Numbers(t) /\ t \in Span
    BY <1>9, InsideNumbers, Zenon DEF Numbers
  <2>2. ~ranges_overlap(t, u)
    BY <1>8, <1>9, Zenon DEF Apart, ranges_overlap
  <2>3. ~Adjacent(t, u)
    BY <1>1, <1>5, <1>6, <1>9, <2>1, SMT
       DEF Apart, ranges_overlap, Span, Numbers, Adjacent, LastPage, LastHost
  <2> QED
    BY <2>2, <2>3, Zenon DEF Apart
<1> QED
  BY <1>2, <1>4, <1>7, <1>8, <1>9, Zenon

\* The loop invariant of vhost_dev_assign_memory, after n rounds over the array m:
\* the array written so far, the regions still to come and the range that has
\* grown fit together.
Merging(m, s, n, q, e, x) ==
    /\ q \in Seq(Region) /\ Len(q) <= n /\ e \in 0..Len(q) /\ Inside(x)
    /\ \A j \in 1..Len(q) : Inside(q[j])
    /\ \A i, j \in 1..Len(q) : i # j => Apart(q[i], q[j])
    /\ \A j \in 1..Len(q), k \in 1..Len(m) : j # e /\ n < k => Apart(q[j], m[k])
    /\ \A k \in 1..Len(m) : n < k => ~ranges_overlap(x, m[k])
    /\ e = 0 => x = s /\ \A j \in 1..Len(q) : Apart(q[j], x)
    /\ e # 0 => q[e] = x
    /\ \A p, h \in Int :
         Covers(q, p, h) \/ Maps(x, p, h)
           <=> Maps(s, p, h) \/ \E k \in 1..n : Maps(m[k], p, h)

(* A round that does not merge.                                            *)
LEMMA AssignKeeps ==
    ASSUME NEW m, Sound(m), NEW s, Inside(s), NEW n \in Nat, n + 1 \in 1..Len(m),
           NEW q, NEW e, NEW x, Merging(m, s, n, q, e, x), ~Adjacent(m[n + 1], x)
    PROVE  Merging(m, s, n + 1, Append(q, m[n + 1]), e, x)
<1> DEFINE r == m[n + 1]
           z == Append(q, r)
           L == Len(q)
<1>1. /\ q \in Seq(Region) /\ L \in Nat /\ L <= n /\ e \in 0..L /\ Inside(r) /\ r \in Region
      /\ Len(m) \in Nat
  <2>1. q \in Seq(Region) /\ L <= n /\ e \in 0..L /\ Inside(r) /\ m \in Seq(Region)
    BY Zenon DEF Merging, Sound
  <2> QED
    BY <2>1 DEF Inside
<1>2. /\ z \in Seq(Region) /\ Len(z) = L + 1 /\ z[L + 1] = r
      /\ \A k \in 1..L : z[k] = q[k]
  BY <1>1, Appended, SMT
<1>3. /\ \A j \in 1..(L + 1) : j \in 1..L \/ j = L + 1
      /\ \A j \in 1..L : j \in 1..(L + 1) /\ j # L + 1
      /\ L + 1 \in 1..(L + 1) /\ L + 1 # e /\ L + 1 <= n + 1 /\ e \in 0..(L + 1)
      /\ n < n + 1 /\ e # L + 1
      /\ \A k \in 1..Len(m) : n + 1 < k => n < k /\ k # n + 1
      /\ e # 0 => e \in 1..L
      /\ \A k \in 1..(n + 1) : k \in 1..n \/ k = n + 1
      /\ \A k \in 1..n : k \in 1..(n + 1)
      /\ n + 1 \in 1..(n + 1)
  BY <1>1
<1> HIDE DEF z
<1>4. Apart(x, r) /\ Apart(r, x)
  <2>1. ~ranges_overlap(x, r)
    BY <1>3, Zenon DEF Merging
  <2> QED
    BY <2>1, Zenon DEF Apart, ranges_overlap, Adjacent
<1>5. \A j \in 1..L : Apart(q[j], r) /\ Apart(r, q[j])
  <2>1. ASSUME NEW j \in 1..L, j # e PROVE Apart(q[j], r)
    BY <1>3, <2>1, Zenon DEF Merging
  <2>2. ASSUME NEW j \in 1..L, j = e PROVE Apart(q[j], r)
    <3>1. e # 0
      BY <2>2
    <3> QED
      BY <1>4, <2>2, <3>1, Zenon DEF Merging
  <2> QED
    BY <2>1, <2>2, ApartSym, Zenon
<1>6. \A j \in 1..(L + 1) : Inside(z[j])
  BY <1>1, <1>2, <1>3, Zenon DEF Merging
<1>7. \A i, j \in 1..(L + 1) : i # j => Apart(z[i], z[j])
  BY <1>2, <1>3, <1>5, Zenon DEF Merging
<1>8. \A j \in 1..(L + 1), k \in 1..Len(m) : j # e /\ n + 1 < k => Apart(z[j], m[k])
  <2>1. ASSUME NEW j \in 1..L, NEW k \in 1..Len(m), j # e, n + 1 < k PROVE Apart(z[j], m[k])
    BY <1>2, <1>3, <2>1, Zenon DEF Merging
  <2>2. ASSUME NEW k \in 1..Len(m), n + 1 < k PROVE Apart(z[L + 1], m[k])
    BY <1>2, <1>3, <2>2, Zenon DEF Sound
  <2> QED
    BY <1>3, <2>1, <2>2, Zenon
<1>9. \A k \in 1..Len(m) : n + 1 < k => ~ranges_overlap(x, m[k])
  BY <1>3, Zenon DEF Merging
<1>10. e = 0 => x = s /\ \A j \in 1..(L + 1) : Apart(z[j], x)
  BY <1>2, <1>3, <1>4, Zenon DEF Merging
<1>11. e # 0 => z[e] = x
  BY <1>2, <1>3, Zenon DEF Merging
<1>12. ASSUME NEW p \in Int, NEW h \in Int
       PROVE  Covers(z, p, h) \/ Maps(x, p, h)
                <=> Maps(s, p, h) \/ \E k \in 1..(n + 1) : Maps(m[k], p, h)
  <2>1. Covers(z, p, h) <=> Covers(q, p, h) \/ Maps(r, p, h)
    BY <1>2, <1>3, Zenon DEF Covers
  <2>2. Covers(q, p, h) \/ Maps(x, p, h)
          <=> Maps(s, p, h) \/ \E k \in 1..n : Maps(m[k], p, h)
    BY Zenon DEF Merging
  <2>3. (\E k \in 1..(n + 1) : Maps(m[k], p, h))
          <=> Maps(r, p, h) \/ \E k \in 1..n : Maps(m[k], p, h)
    BY <1>3, Zenon
  <2> QED
    BY <2>1, <2>2, <2>3, Zenon
<1>13. Inside(x)
  BY Zenon DEF Merging
<1>14. Merging(m, s, n + 1, z, e, x)
  BY <1>2, <1>3, <1>6, <1>7, <1>8, <1>9, <1>10, <1>11, <1>12, <1>13, Zenon DEF Merging
<1> QED
  BY <1>14, Zenon DEF z

(* The first region the range is merged with makes room for it.            *)
LEMMA AssignFirst ==
    ASSUME NEW m, Sound(m), NEW s, Inside(s), NEW n \in Nat, n + 1 \in 1..Len(m),
           NEW q, NEW x, Merging(m, s, n, q, 0, x), Adjacent(m[n + 1], x)
    PROVE  Merging(m, s, n + 1, Append(q, Merge(m[n + 1], x)), Len(q) + 1, Merge(m[n + 1], x))
<1> DEFINE r == m[n + 1]
           u == Merge(r, x)
           z == Append(q, u)
           L == Len(q)
<1>1. /\ q \in Seq(Region) /\ L \in Nat /\ L <= n /\ Inside(r) /\ Inside(x) /\ Len(m) \in Nat
  <2>1. q \in Seq(Region) /\ L <= n /\ Inside(r) /\ Inside(x) /\ m \in Seq(Region)
    BY Zenon DEF Merging, Sound
  <2> QED
    BY <2>1
<1>2. /\ Inside(u)
      /\ \A p, h \in Int : Maps(u, p, h) <=> Maps(r, p, h) \/ Maps(x, p, h)
      /\ \A t : Inside(t) /\ ~ranges_overlap(r, t) /\ ~ranges_overlap(x, t)
                  => ~ranges_overlap(u, t)
      /\ \A t : Inside(t) /\ Apart(t, r) /\ Apart(t, x) => Apart(t, u)
  BY <1>1, MergeFacts, Zenon
<1> HIDE DEF u
<1>3. u \in Region
  BY <1>2, Zenon DEF Inside
<1>4. /\ z \in Seq(Region) /\ Len(z) = L + 1 /\ z[L + 1] = u
      /\ \A k \in 1..L : z[k] = q[k]
  BY <1>1, <1>3, Appended, SMT
<1>5. /\ \A j \in 1..(L + 1) : j \in 1..L \/ j = L + 1
      /\ \A j \in 1..L : j \in 1..(L + 1) /\ j # L + 1 /\ j # 0
      /\ L + 1 \in 1..(L + 1) /\ L + 1 <= n + 1 /\ L + 1 \in 0..(L + 1)
      /\ n < n + 1 /\ L + 1 # 0
      /\ \A k \in 1..Len(m) : n + 1 < k => n < k /\ k # n + 1
      /\ \A k \in 1..(n + 1) : k \in 1..n \/ k = n + 1
      /\ \A k \in 1..n : k \in 1..(n + 1)
      /\ n + 1 \in 1..(n + 1)
  BY <1>1
<1> HIDE DEF z
<1>6. \A j \in 1..L : Apart(q[j], u) /\ Apart(u, q[j])
  <2>1. ASSUME NEW j \in 1..L PROVE Inside(q[j]) /\ Apart(q[j], r) /\ Apart(q[j], x)
    BY <1>5, Zenon DEF Merging
  <2> QED
    BY <1>2, <2>1, ApartSym, Zenon
<1>7. \A j \in 1..(L + 1) : Inside(z[j])
  BY <1>2, <1>4, <1>5, Zenon DEF Merging
<1>8. \A i, j \in 1..(L + 1) : i # j => Apart(z[i], z[j])
  BY <1>4, <1>5, <1>6, Zenon DEF Merging
<1>9. \A j \in 1..(L + 1), k \in 1..Len(m) : j # L + 1 /\ n + 1 < k => Apart(z[j], m[k])
  BY <1>4, <1>5, Zenon DEF Merging
<1>10. \A k \in 1..Len(m) : n + 1 < k => ~ranges_overlap(u, m[k])
  <2> SUFFICES ASSUME NEW k \in 1..Len(m), n + 1 < k PROVE ~ranges_overlap(u, m[k])
    BY Zenon
  <2>1. ~ranges_overlap(x, m[k])
    BY <1>5, Zenon DEF Merging
  <2>2. ~ranges_overlap(r, m[k]) /\ Inside(m[k])
    BY <1>5, Zenon DEF Sound, Apart
  <2> QED
    BY <1>2, <2>1, <2>2, Zenon
<1>11. ASSUME NEW p \in Int, NEW h \in Int
       PROVE  Covers(z, p, h) \/ Maps(u, p, h)
                <=> Maps(s, p, h) \/ \E k \in 1..(n + 1) : Maps(m[k], p, h)
  <2>1. Covers(z, p, h) <=> Covers(q, p, h) \/ Maps(u, p, h)
    BY <1>4, <1>5, Zenon DEF Covers
  <2>2. Covers(q, p, h) \/ Maps(x, p, h)
          <=> Maps(s, p, h) \/ \E k \in 1..n : Maps(m[k], p, h)
    BY Zenon DEF Merging
  <2>3. (\E k \in 1..(n + 1) : Maps(m[k], p, h))
          <=> Maps(r, p, h) \/ \E k \in 1..n : Maps(m[k], p, h)
    BY <1>5, Zenon
  <2>4. Maps(u, p, h) <=> Maps(r, p, h) \/ Maps(x, p, h)
    BY <1>2, Zenon
  <2> QED
    BY <2>1, <2>2, <2>3, <2>4, Zenon
<1>12. Merging(m, s, n + 1, z, L + 1, u)
  BY <1>2, <1>4, <1>5, <1>7, <1>8, <1>9, <1>10, <1>11, Zenon DEF Merging
<1> QED
  BY <1>12, Zenon DEF z, u

(* A later one is taken out of the array, and the merged region grows.     *)
LEMMA AssignNext ==
    ASSUME NEW m, Sound(m), NEW s, Inside(s), NEW n \in Nat, n + 1 \in 1..Len(m),
           NEW q, NEW e, NEW x, e # 0, Merging(m, s, n, q, e, x), Adjacent(m[n + 1], x)
    PROVE  Merging(m, s, n + 1, [q EXCEPT ![e] = Merge(m[n + 1], x)], e, Merge(m[n + 1], x))
<1> DEFINE r == m[n + 1]
           u == Merge(r, x)
           z == [q EXCEPT ![e] = u]
           L == Len(q)
<1>1. /\ q \in Seq(Region) /\ L \in Nat /\ L <= n /\ e \in 1..L /\ Inside(r) /\ Inside(x)
      /\ Len(m) \in Nat /\ q[e] = x
  <2>1. /\ q \in Seq(Region) /\ L <= n /\ e \in 0..L /\ Inside(r) /\ Inside(x)
        /\ m \in Seq(Region) /\ q[e] = x
    BY Zenon DEF Merging, Sound
  <2> QED
    BY <2>1
<1>2. /\ Inside(u)
      /\ \A p, h \in Int : Maps(u, p, h) <=> Maps(r, p, h) \/ Maps(x, p, h)
      /\ \A t : Inside(t) /\ ~ranges_overlap(r, t) /\ ~ranges_overlap(x, t)
                  => ~ranges_overlap(u, t)
      /\ \A t : Inside(t) /\ Apart(t, r) /\ Apart(t, x) => Apart(t, u)
  BY <1>1, MergeFacts, Zenon
<1> HIDE DEF u
<1>3. u \in Region
  BY <1>2, Zenon DEF Inside
<1>4. /\ z \in Seq(Region) /\ Len(z) = L /\ z[e] = u
      /\ \A k \in 1..L : k # e => z[k] = q[k]
  BY <1>1, <1>3, SMTT(60)
<1>5. /\ L <= n + 1 /\ e \in 0..L
      /\ n < n + 1
      /\ \A k \in 1..Len(m) : n + 1 < k => n < k /\ k # n + 1
      /\ \A k \in 1..(n + 1) : k \in 1..n \/ k = n + 1
      /\ \A k \in 1..n : k \in 1..(n + 1)
      /\ n + 1 \in 1..(n + 1)
  BY <1>1
<1> HIDE DEF z
<1>6. \A j \in 1..L : j # e => Apart(q[j], u) /\ Apart(u, q[j])
  <2>1. ASSUME NEW j \in 1..L, j # e PROVE Inside(q[j]) /\ Apart(q[j], r) /\ Apart(q[j], x)
    BY <1>1, <1>5, <2>1, Zenon DEF Merging
  <2> QED
    BY <1>2, <2>1, ApartSym, Zenon
<1>7. \A j \in 1..L : Inside(z[j])
  BY <1>2, <1>4, Zenon DEF Merging
<1>8. \A i, j \in 1..L : i # j => Apart(z[i], z[j])
  BY <1>4, <1>6, Zenon DEF Merging
<1>9. \A j \in 1..L, k \in 1..Len(m) : j # e /\ n + 1 < k => Apart(z[j], m[k])
  BY <1>4, <1>5, Zenon DEF Merging
<1>10. \A k \in 1..Len(m) : n + 1 < k => ~ranges_overlap(u, m[k])
  <2> SUFFICES ASSUME NEW k \in 1..Len(m), n + 1 < k PROVE ~ranges_overlap(u, m[k])
    BY Zenon
  <2>1. ~ranges_overlap(x, m[k])
    BY <1>5, Zenon DEF Merging
  <2>2. ~ranges_overlap(r, m[k]) /\ Inside(m[k])
    BY <1>5, Zenon DEF Sound, Apart
  <2> QED
    BY <1>2, <2>1, <2>2, Zenon
<1>11. ASSUME NEW p \in Int, NEW h \in Int
       PROVE  Covers(z, p, h) \/ Maps(u, p, h)
                <=> Maps(s, p, h) \/ \E k \in 1..(n + 1) : Maps(m[k], p, h)
  <2>1. Covers(z, p, h) \/ Maps(u, p, h) <=> Covers(q, p, h) \/ Maps(u, p, h)
    <3>1. ASSUME NEW k \in 1..L, Maps(z[k], p, h) PROVE Maps(q[k], p, h) \/ Maps(u, p, h)
      BY <1>4, <3>1, Zenon
    <3>2. ASSUME NEW k \in 1..L, Maps(q[k], p, h) PROVE Maps(z[k], p, h) \/ Maps(u, p, h)
      BY <1>1, <1>2, <1>4, <3>2, Zenon
    <3> QED
      BY <1>4, <3>1, <3>2, Zenon DEF Covers
  <2>2. Covers(q, p, h) \/ Maps(x, p, h)
          <=> Maps(s, p, h) \/ \E k \in 1..n : Maps(m[k], p, h)
    BY Zenon DEF Merging
  <2>3. (\E k \in 1..(n + 1) : Maps(m[k], p, h))
          <=> Maps(r, p, h) \/ \E k \in 1..n : Maps(m[k], p, h)
    BY <1>5, Zenon
  <2>4. Maps(u, p, h) <=> Maps(r, p, h) \/ Maps(x, p, h)
    BY <1>2, Zenon
  <2> QED
    BY <2>1, <2>2, <2>3, <2>4, Zenon
<1>12. Merging(m, s, n + 1, z, e, u)
  BY <1>2, <1>4, <1>5, <1>7, <1>8, <1>9, <1>10, <1>11, Zenon DEF Merging
<1> QED
  BY <1>12, Zenon DEF z, u

\* What a round of the loop works on.
Acc == [out : Seq(Region), merged : Nat, sec : Region]

(* The fields of a record of three.                                        *)
LEMMA AccRecord ==
    ASSUME NEW q \in Seq(Region), NEW e \in Nat, NEW x \in Region,
           NEW w, w = [out |-> q, merged |-> e, sec |-> x]
    PROVE  w \in Acc /\ w.out = q /\ w.merged = e /\ w.sec = x
  BY DEF Acc

(* The loop begins with such a record.                                     *)
LEMMA AccStart ==
    ASSUME NEW s \in Region
    PROVE  /\ AssignStart(s) \in Acc /\ AssignStart(s).out = <<>>
           /\ AssignStart(s).merged = 0 /\ AssignStart(s).sec = s
  BY SMTT(30) DEF AssignStart, Acc

(* Giving such a record another first field.                               *)
LEMMA AccExcept ==
    ASSUME NEW w \in Acc, NEW v
    PROVE  [w EXCEPT !.out = v] = [out |-> v, merged |-> w.merged, sec |-> w.sec]
<1> DEFINE O == Seq(Region)
           X == Region
<1>1. w \in [out : O, merged : Nat, sec : X]
  BY Zenon DEF Acc
<1> HIDE DEF O, X
<1> QED
  BY <1>1, SMT

(* The three outcomes of a round.                                          *)
LEMMA AssignFields ==
    ASSUME NEW w \in Acc, NEW r \in Region
    PROVE  /\ ~Adjacent(r, w.sec)
                => AssignRegion(w, r) =
                     [out |-> Append(w.out, r), merged |-> w.merged, sec |-> w.sec]
           /\ Adjacent(r, w.sec) /\ w.merged = 0
                => AssignRegion(w, r) =
                     [out |-> Append(w.out, Merge(r, w.sec)), merged |-> Len(w.out) + 1,
                      sec |-> Merge(r, w.sec)]
           /\ Adjacent(r, w.sec) /\ w.merged # 0
                => AssignRegion(w, r) =
                     [out |-> [w.out EXCEPT ![w.merged] = Merge(r, w.sec)],
                      merged |-> w.merged, sec |-> Merge(r, w.sec)]
<1>1. ~Adjacent(r, w.sec)
        => AssignRegion(w, r) = [w EXCEPT !.out = Append(w.out, r)]
  BY Zenon DEF AssignRegion
<1>2. [w EXCEPT !.out = Append(w.out, r)] =
        [out |-> Append(w.out, r), merged |-> w.merged, sec |-> w.sec]
  BY AccExcept, Zenon
<1> QED
  BY <1>1, <1>2, Zenon DEF AssignRegion

(* vhost_dev_assign_memory adds the range to an array that has no page of  *)
(* it, merges it with every region it can be merged with, leaves the rest  *)
(* mapped as it was and needs room for at most one region more.            *)
LEMMA AssignFacts ==
    ASSUME NEW m, Sound(m), NEW s, Inside(s), Clear(m, s)
    PROVE  /\ Sound(Assign(m, s)) /\ Len(Assign(m, s)) <= Len(m) + 1
           /\ \A p, h \in Int :
                Covers(Assign(m, s), p, h) <=> Covers(m, p, h) \/ Maps(s, p, h)
<1> DEFINE N == Len(m)
           f == CHOOSE f : AssignLoop(m, s, N, f)
           Good(n) == f[n] \in Acc /\ Merging(m, s, n, f[n].out, f[n].merged, f[n].sec)
           S == {n \in 0..N : Good(n)}
<1>0. N \in Nat /\ m \in Seq(Region) /\ s \in Region /\ \A k \in 1..N : m[k] \in Region
  BY DEF Sound, Inside
<1>1. AssignLoop(m, s, N, f)
  BY <1>0, AssignRuns, Zenon
<1>2. Assign(m, s) = IF f[N].merged = 0 THEN Append(f[N].out, s) ELSE f[N].out
  BY Zenon DEF Assign, AssignLoop
<1> HIDE DEF N, f
<1>3. /\ f[0] = AssignStart(s)
      /\ \A n \in 0..N : n # N => f[n + 1] = AssignRegion(f[n], m[n + 1])
  BY <1>0, <1>1, AssignRound, SMT
<1>4. 0 \in S
  <2> DEFINE q == <<>>
  <2>1. /\ f[0] \in Acc /\ f[0].out = q /\ f[0].merged = 0 /\ f[0].sec = s
    BY <1>0, <1>3, AccStart, Zenon
  <2>2. Len(q) = 0 /\ q \in Seq(Region) /\ Len(q) <= 0 /\ 0 \in 0..Len(q) /\ 1..Len(q) = {}
        /\ 1..0 = {} /\ 0 \in 0..N
    BY <1>0
  <2> HIDE DEF q
  <2>3. \A k \in 1..Len(m) : ~ranges_overlap(s, m[k])
    BY Zenon DEF Clear, ranges_overlap
  <2>4. \A p, h \in Int : Covers(q, p, h) \/ Maps(s, p, h)
                            <=> Maps(s, p, h) \/ \E k \in 1..0 : Maps(m[k], p, h)
    BY <2>2, Zenon DEF Covers
  <2>5. Merging(m, s, 0, q, 0, s)
    BY <2>2, <2>3, <2>4, Zenon DEF Merging
  <2> QED
    BY <2>1, <2>2, <2>5, Zenon
<1>5. ASSUME NEW n \in 0..N, n # N, n \in S PROVE n + 1 \in S
  <2>1. n + 1 \in 0..N /\ n + 1 \in 1..Len(m) /\ n \in Nat
    BY <1>0, <1>5 DEF N
  <2> DEFINE w == f[n]
             r == m[n + 1]
  <2>2. f[n + 1] = AssignRegion(w, r) /\ w \in Acc /\ Merging(m, s, n, w.out, w.merged, w.sec)
    BY <1>3, <1>5, Zenon
  <2>3. r \in Region /\ Inside(r) /\ w.merged \in Nat
    <3>1. r \in Region /\ Inside(r)
      BY <2>1, Zenon DEF Sound, Inside
    <3> QED
      BY <3>1, <2>2 DEF Acc
  <2> HIDE DEF r, w
  <2>4. \E q, e, x : /\ f[n + 1] = [out |-> q, merged |-> e, sec |-> x]
                     /\ Merging(m, s, n + 1, q, e, x)
    <3>1. CASE ~Adjacent(r, w.sec)
      <4>1. Merging(m, s, n + 1, Append(w.out, r), w.merged, w.sec)
        BY <2>1, <2>2, <3>1, AssignKeeps, Zenon DEF r
      <4> QED
        BY <2>2, <2>3, <3>1, <4>1, AssignFields, Zenon
    <3>2. CASE Adjacent(r, w.sec) /\ w.merged = 0
      <4>1. Merging(m, s, n + 1, Append(w.out, Merge(r, w.sec)), Len(w.out) + 1, Merge(r, w.sec))
        BY <2>1, <2>2, <3>2, AssignFirst, Zenon DEF r
      <4> QED
        BY <2>2, <2>3, <3>2, <4>1, AssignFields, Zenon
    <3>3. CASE Adjacent(r, w.sec) /\ w.merged # 0
      <4>1. Merging(m, s, n + 1, [w.out EXCEPT ![w.merged] = Merge(r, w.sec)], w.merged,
                    Merge(r, w.sec))
        BY <2>1, <2>2, <3>3, AssignNext, Zenon DEF r
      <4> QED
        BY <2>2, <2>3, <3>3, <4>1, AssignFields, Zenon
    <3> QED
      BY <3>1, <3>2, <3>3, Zenon
  <2>5. PICK q, e, x : /\ f[n + 1] = [out |-> q, merged |-> e, sec |-> x]
                       /\ Merging(m, s, n + 1, q, e, x)
    BY <2>4, Zenon
  <2>6. q \in Seq(Region) /\ e \in Nat /\ x \in Region
    <3>1. q \in Seq(Region) /\ e \in 0..Len(q) /\ x \in Region
      BY <2>5, Zenon DEF Merging, Inside
    <3> QED
      BY <3>1
  <2>7. f[n + 1] \in Acc /\ f[n + 1].out = q /\ f[n + 1].merged = e /\ f[n + 1].sec = x
    BY <2>5, <2>6, AccRecord, SMT
  <2> QED
    BY <2>1, <2>5, <2>7, Zenon
<1>6. \A n \in 0..N : n \in S
  <2> HIDE DEF S
  <2> QED
    BY <1>0, <1>4, <1>5, BoundedInduction, Zenon
<1>7. N \in 0..N
  BY <1>0
<1>8. PICK q, e, x : /\ Merging(m, s, N, q, e, x)
                     /\ Assign(m, s) = IF e = 0 THEN Append(q, s) ELSE q
  BY <1>2, <1>6, <1>7, Zenon
<1>9. q \in Seq(Region) /\ Len(q) \in Nat /\ Len(q) <= N /\ e \in 0..Len(q)
  <2>1. q \in Seq(Region) /\ Len(q) <= N /\ e \in 0..Len(q)
    BY <1>8, Zenon DEF Merging
  <2> QED
    BY <2>1
<1>10. \A p, h \in Int : Covers(q, p, h) \/ Maps(x, p, h) <=> Maps(s, p, h) \/ Covers(m, p, h)
  BY <1>8, Zenon DEF Merging, Covers, N
<1>11. CASE e = 0
  <2> DEFINE z == Append(q, s)
             L == Len(q)
  <2>1. /\ z \in Seq(Region) /\ Len(z) = L + 1 /\ z[L + 1] = s
        /\ \A k \in 1..L : z[k] = q[k]
    BY <1>0, <1>9, Appended, SMTT(60)
  <2>2. /\ \A j \in 1..(L + 1) : j \in 1..L \/ j = L + 1
        /\ \A j \in 1..L : j \in 1..(L + 1)
        /\ L + 1 \in 1..(L + 1) /\ L + 1 <= N + 1
    BY <1>0, <1>9
  <2> HIDE DEF z
  <2>3. x = s /\ \A j \in 1..L : Inside(q[j]) /\ Apart(q[j], s) /\ Apart(s, q[j])
    BY <1>8, <1>11, ApartSym, Zenon DEF Merging
  <2>4. \A i, j \in 1..(L + 1) : i # j => Apart(z[i], z[j])
    BY <1>8, <2>1, <2>2, <2>3, Zenon DEF Merging
  <2>5. Sound(z)
    BY <2>1, <2>2, <2>3, <2>4, Zenon DEF Sound
  <2>6. ASSUME NEW p \in Int, NEW h \in Int
        PROVE  Covers(z, p, h) <=> Covers(q, p, h) \/ Maps(s, p, h)
    BY <2>1, <2>2, Zenon DEF Covers
  <2>7. Assign(m, s) = z
    BY <1>8, <1>11, Zenon DEF z
  <2> QED
    BY <1>10, <2>1, <2>2, <2>3, <2>5, <2>6, <2>7, Zenon DEF N
<1>12. CASE e # 0
  <2>1. e \in 1..Len(q) /\ Len(q) <= N + 1
    BY <1>0, <1>9, <1>12
  <2>2. Assign(m, s) = q /\ q[e] = x
    BY <1>8, <1>12, Zenon DEF Merging
  <2>3. Sound(q)
    BY <1>8, Zenon DEF Sound, Merging
  <2>4. ASSUME NEW p \in Int, NEW h \in Int PROVE Maps(x, p, h) => Covers(q, p, h)
    BY <2>1, <2>2, Zenon DEF Covers
  <2> QED
    BY <1>10, <2>1, <2>2, <2>3, <2>4, Zenon DEF N
<1> QED
  BY <1>11, <1>12, Zenon

-----------------------------------------------------------------------------
(* The ranges of the flattened view.                                       *)

(* What is behind a page of a layout.                                      *)
LEMMA PageOfView ==
    ASSUME NEW v \in Views, NEW p \in Pages
    PROVE  v[p].ram \in Host \cup {None}
<1>1. v[p] \in [ram : Host \cup {None}, readonly : BOOLEAN]
  BY Zenon DEF Views
<1> QED
  BY <1>1, SMT

(* A page that goes on where the page before it ends.                      *)
LEMMA GoesOn ==
    ASSUME NEW v, NEW j \in Int, NEW k \in Int, k = j + 1, can_merge(v, k)
    PROVE  v[k].ram # None /\ v[k].ram = v[j].ram + 1 /\ k \in Pages
<1>1. k - 1 = j
  OBVIOUS
<1>2. v[k].ram # None /\ v[k].ram = v[k - 1].ram + 1 /\ k \in Pages
  BY Zenon DEF can_merge
<1> QED
  BY <1>1, <1>2, Zenon

(* What a range is, with plain numbers.                                    *)
LEMMA RangeFields ==
    ASSUME NEW v \in Views, NEW r \in FlatRanges(v)
    PROVE  /\ r \in Region /\ r \in Span /\ r.memory_size >= 1
           /\ r.guest_phys_addr + r.memory_size <= GuestPages
           /\ r.userspace_addr = v[r.guest_phys_addr].ram /\ r.userspace_addr \in Host
           /\ ~can_merge(v, r.guest_phys_addr)
           /\ ~can_merge(v, r.guest_phys_addr + r.memory_size)
           /\ \A k \in Int : r.guest_phys_addr < k /\ k < r.guest_phys_addr + r.memory_size
                              => can_merge(v, k)
<1>1. /\ r \in Region /\ LastPage(r) \in Pages /\ r.userspace_addr = v[r.guest_phys_addr].ram
      /\ ~can_merge(v, r.guest_phys_addr) /\ ~can_merge(v, LastPage(r) + 1)
      /\ \A k \in (r.guest_phys_addr + 1)..LastPage(r) : can_merge(v, k)
  BY Zenon DEF FlatRanges
<1>2. /\ r \in Span /\ r.memory_size >= 1
      /\ r.guest_phys_addr + r.memory_size <= GuestPages /\ r.userspace_addr \in Host
      /\ LastPage(r) + 1 = r.guest_phys_addr + r.memory_size
  BY <1>1, MemAssumption, SMTT(60) DEF Region, Span, Pages, Host, LastPage
<1>3. ASSUME NEW k \in Int, r.guest_phys_addr < k, k < r.guest_phys_addr + r.memory_size
      PROVE  k \in (r.guest_phys_addr + 1)..LastPage(r)
  BY <1>2, <1>3, SMT DEF Span, LastPage
<1> QED
  BY <1>1, <1>2, <1>3, Zenon

(* A range maps each of its pages as the layout does.                      *)
LEMMA RangeMaps ==
    ASSUME NEW v \in Views, NEW r \in FlatRanges(v)
    PROVE  /\ Inside(r)
           /\ \A p \in PagesOf(r) :
                /\ p \in Pages
                /\ v[p].ram = r.userspace_addr + (p - r.guest_phys_addr)
                /\ v[p].ram \in Host
<1> DEFINE g == r.guest_phys_addr
           u == r.userspace_addr
           N == r.memory_size - 1
           Good(i) == v[g + i].ram = u + i /\ u + i \in Host
           S == {i \in 0..N : Good(i)}
<1>1. /\ r \in Region /\ r \in Span /\ r.memory_size >= 1
      /\ g + r.memory_size <= GuestPages /\ u = v[g].ram /\ u \in Host
      /\ \A k \in Int : g < k /\ k < g + r.memory_size => can_merge(v, k)
  BY RangeFields, Zenon
<1>2. g \in Nat /\ u \in Nat /\ N \in Nat /\ g + 0 = g /\ u + 0 = u /\ g + N < GuestPages
  BY <1>1, MemAssumption, SMT DEF Span
<1>3. 0 \in S
  <2>1. 0 \in 0..N
    BY <1>2
  <2> QED
    BY <1>1, <1>2, <2>1, Zenon
<1>4. ASSUME NEW i \in 0..N, i # N, i \in S PROVE i + 1 \in S
  <2>1. /\ i + 1 \in 0..N /\ g + i \in Int /\ g + (i + 1) \in Int /\ g + (i + 1) = g + i + 1
        /\ g < g + (i + 1) /\ g + (i + 1) < g + r.memory_size
        /\ g + (i + 1) \in Pages /\ u + i + 1 = u + (i + 1)
    BY <1>1, <1>2, <1>4, MemAssumption, SMT DEF Span, Pages
  <2>2. can_merge(v, g + (i + 1))
    BY <1>1, <2>1, Zenon
  <2>3. v[g + (i + 1)].ram # None /\ v[g + (i + 1)].ram = v[g + i].ram + 1
    BY <2>1, <2>2, GoesOn, Zenon
  <2>4. v[g + (i + 1)].ram = u + (i + 1)
    BY <1>4, <2>1, <2>3, Zenon
  <2>5. v[g + (i + 1)].ram \in Host
    BY <2>1, <2>3, PageOfView, Zenon
  <2> QED
    BY <2>1, <2>4, <2>5, Zenon
<1>5. \A i \in 0..N : i \in S
  <2> HIDE DEF S, N
  <2> QED
    BY <1>2, <1>3, <1>4, BoundedInduction, Zenon
<1>6. ASSUME NEW p \in PagesOf(r)
      PROVE  p - g \in 0..N /\ g + (p - g) = p /\ p \in Pages
  BY <1>1, <1>2, MemAssumption, SMT DEF PagesOf, LastPage, Span, Pages
<1>7. ASSUME NEW p \in PagesOf(r)
      PROVE  p \in Pages /\ v[p].ram = u + (p - g) /\ v[p].ram \in Host
  <2>1. Good(p - g)
    BY <1>5, <1>6, <1>7, Zenon
  <2> QED
    BY <1>6, <1>7, <2>1, Zenon
<1>8. Inside(r)
  <2>1. N \in 0..N
    BY <1>2
  <2>2. u + N \in Host
    BY <1>5, <2>1, Zenon
  <2>3. LastPage(r) \in Pages /\ LastHost(r) = u + N
    BY <1>1, <1>2, MemAssumption, SMT DEF Span, LastPage, LastHost, Pages
  <2> QED
    BY <1>1, <2>2, <2>3, Zenon DEF Inside
<1> QED
  BY <1>7, <1>8, Zenon

(* Two ranges of a layout that share a page are one.                       *)
LEMMA RangesDisjoint ==
    ASSUME NEW v \in Views, NEW r \in FlatRanges(v), NEW t \in FlatRanges(v), ranges_overlap(r, t)
    PROVE  r = t
<1> DEFINE a == r.guest_phys_addr
           b == r.memory_size
           c == t.guest_phys_addr
           d == t.memory_size
<1>1. /\ r \in Span /\ b >= 1 /\ r.userspace_addr = v[a].ram
      /\ ~can_merge(v, a) /\ ~can_merge(v, a + b)
      /\ \A k \in Int : a < k /\ k < a + b => can_merge(v, k)
  BY RangeFields, Zenon
<1>2. /\ t \in Span /\ d >= 1 /\ t.userspace_addr = v[c].ram
      /\ ~can_merge(v, c) /\ ~can_merge(v, c + d)
      /\ \A k \in Int : c < k /\ k < c + d => can_merge(v, k)
  BY RangeFields, Zenon
<1>3. a \in Nat /\ b \in Nat /\ c \in Nat /\ d \in Nat
  BY <1>1, <1>2, SMT DEF Span
<1>4. a < c + d /\ c < a + b
  BY <1>1, <1>2, SMT DEF ranges_overlap, LastPage, Span
<1>5. ~(a < c) /\ ~(c < a)
  <2>1. a \in Int /\ c \in Int
    BY <1>3
  <2> QED
    BY <1>1, <1>2, <1>4, <2>1, Zenon
<1>6. a = c
  BY <1>3, <1>5
<1>7. ~(a + b < c + d) /\ ~(c + d < a + b)
  <2>1. a + b \in Int /\ c + d \in Int /\ c < a + b /\ a < c + d
    BY <1>3, <1>4
  <2> QED
    BY <1>1, <1>2, <2>1, Zenon
<1>8. b = d
  BY <1>3, <1>6, <1>7
<1>9. r.userspace_addr = t.userspace_addr
  BY <1>1, <1>2, <1>6, Zenon
<1>10. ASSUME NEW x \in Span, NEW y \in Span, x.guest_phys_addr = y.guest_phys_addr,
              x.memory_size = y.memory_size, x.userspace_addr = y.userspace_addr
       PROVE  x = y
  BY <1>10, SMT DEF Span
<1> QED
  BY <1>1, <1>2, <1>6, <1>8, <1>9, <1>10, Zenon

(* Every page of RAM is in a range.                                        *)
LEMMA RangeOfPage ==
    ASSUME NEW v \in Views, NEW p \in Pages, v[p].ram # None
    PROVE  \E r \in FlatRanges(v) : p \in PagesOf(r)
<1> DEFINE A == {a \in 0..p : \A k \in (a + 1)..p : can_merge(v, k)}
           B == {b \in p..(GuestPages - 1) : ~can_merge(v, b + 1)}
<1>0. p \in Nat /\ p < GuestPages /\ GuestPages \in Nat /\ HostPages \in Nat
  BY MemAssumption DEF Pages
<1>1. PICK a \in A : \A y \in A : a <= y
  <2>1. p \in A
    BY <1>0
  <2>2. A \subseteq Nat
    BY <1>0
  <2> HIDE DEF A
  <2> QED
    BY <2>1, <2>2, LeastNumber, Zenon
<1>2. PICK b \in B : \A y \in B : b <= y
  <2>1. GuestPages - 1 + 1 \notin Pages
    BY <1>0 DEF Pages
  <2>2. GuestPages - 1 \in p..(GuestPages - 1)
    BY <1>0
  <2>3. GuestPages - 1 \in B
    BY <2>1, <2>2, Zenon DEF can_merge
  <2>4. B \subseteq Nat
    BY <1>0
  <2> HIDE DEF B
  <2> QED
    BY <2>3, <2>4, LeastNumber, Zenon
<1>3. /\ a \in Nat /\ a <= p /\ b \in Nat /\ p <= b /\ b < GuestPages
      /\ \A k \in (a + 1)..p : can_merge(v, k)
      /\ ~can_merge(v, b + 1)
  BY <1>0, <1>1, <1>2
<1>4. ~can_merge(v, a)
  <2> SUFFICES ASSUME can_merge(v, a) PROVE FALSE
    BY SMTT(60)
  <2>1. a - 1 \in Nat
    BY <1>3 DEF can_merge, Pages
  <2>2. a - 1 \in 0..p /\ \A k \in (a - 1 + 1)..p : k = a \/ k \in (a + 1)..p
    BY <1>0, <1>3, <2>1
  <2>3. a - 1 \in A
    BY <1>3, <2>2, Zenon
  <2> QED
    BY <1>1, <1>3, <2>3, SMT
<1>5. ASSUME NEW k \in (a + 1)..b PROVE can_merge(v, k)
  <2>1. CASE k \in (a + 1)..p
    BY <1>3, <2>1, Zenon
  <2>2. CASE k \notin (a + 1)..p
    <3>1. k - 1 \in p..(GuestPages - 1) /\ k - 1 + 1 = k /\ ~(b <= k - 1)
      BY <1>0, <1>3, <2>2
    <3> QED
      BY <1>2, <3>1, Zenon
  <2> QED
    BY <2>1, <2>2, Zenon
<1>6. v[a].ram \in Host
  <2>1. CASE a = p
    BY <2>1, PageOfView, Zenon
  <2>2. CASE a # p
    <3>1. a + 1 \in (a + 1)..p /\ a \in Pages /\ a \in Int /\ a + 1 \in Int /\ a + 1 \in Pages
      BY <1>0, <1>3, <2>2 DEF Pages
    <3>2. can_merge(v, a + 1)
      BY <1>3, <3>1, Zenon
    <3>3. v[a + 1].ram = v[a].ram + 1 /\ v[a + 1].ram # None
      BY <3>1, <3>2, GoesOn, Zenon
    <3>4. v[a + 1].ram \in Host /\ v[a].ram \in Host \cup {None}
      BY <3>1, <3>3, PageOfView, Zenon
    <3> QED
      BY <1>0, <3>3, <3>4, SMT DEF Host, None
  <2> QED
    BY <2>1, <2>2, Zenon
<1> DEFINE r == [guest_phys_addr |-> a, memory_size |-> b - a + 1, userspace_addr |-> v[a].ram]
<1>7. r.guest_phys_addr = a /\ r.memory_size = b - a + 1 /\ r.userspace_addr = v[a].ram
  OBVIOUS
<1>8. a \in Pages /\ b \in Pages /\ b - a + 1 \in 1..GuestPages /\ a + (b - a + 1) - 1 = b
      /\ p \in a..b
  BY <1>0, <1>3 DEF Pages
<1>9. r \in Region
  BY <1>6, <1>8 DEF Region
<1> HIDE DEF r
<1>10. LastPage(r) = b
  BY <1>7, <1>8, Zenon DEF LastPage
<1>11. r \in FlatRanges(v)
  BY <1>3, <1>4, <1>5, <1>7, <1>8, <1>9, <1>10, Zenon DEF FlatRanges
<1> QED
  BY <1>7, <1>8, <1>10, <1>11, Zenon DEF PagesOf

-----------------------------------------------------------------------------
(* The invariant.                                                          *)

Old == FlatRanges(view)
New == FlatRanges(target)

\* The ranges an update leaves alone, deletes and adds.
Stay  == Unchanged(view, target)
Gone  == Old \ Stay
Fresh == New \ Stay

\* The ranges the memory core has told the device about.
Present == IF updating THEN Stay \cup dels \cup (Fresh \ adds) ELSE Old

\* All ranges that are gone are deleted before the first new one is added.
PassInv ==
    /\ updating => /\ dels \subseteq Gone /\ adds \subseteq Fresh
                   /\ dels # {} => adds = Fresh
    /\ ~updating => dels = {} /\ adds = {}

\* The array maps the ranges that are present, but for the pages that were logged
\* when they were added, and nothing else.
CoverInv ==
    \A p, h \in Int :
        Covers(mem, p, h) <=> p \notin skipped /\ \E r \in Present : Maps(r, p, h)

\* A table that is not the current one is one that vhost_commit will replace.
TableInv ==
    started => table = mem \/ (updating /\ memory_changed /\ changed.start <= changed.end)

\* The running update has deleted or added the page.
Touched(p) == updating /\ \E r \in (Gone \ dels) \cup (Fresh \ adds) : p \in PagesOf(r)

\* The changed range has the page.
Noted(p) == memory_changed /\ changed.start <= p /\ p <= changed.end

\* The changed range has every page that was deleted from the array or added to it.
NotedInv == \A p \in Int : Touched(p) /\ p \notin skipped => Noted(p)

\* The ring is where it was, until the running update touches it.
RingInv ==
    started =>
        /\ ring \in Host
        /\ RingPage \notin skipped /\ ~Touched(RingPage) => view[RingPage].ram = ring

MemInv ==
    TypeOK /\ Sound(mem) /\ PassInv /\ CoverInv /\ TableInv /\ NotedInv /\ RingInv

(* The section the memory core passes on is one of those still to be       *)
(* passed on.                                                              *)
LEMMA LowestIn ==
    ASSUME NEW S, S \subseteq Region, S # {}
    PROVE  Lowest(S) \in S
<1> DEFINE G == {r.guest_phys_addr : r \in S}
<1>1. G \subseteq Nat /\ G # {}
  BY MemAssumption DEF Region, Pages
<1>2. PICK x \in G : \A y \in G : x <= y
  BY <1>1, LeastNumber, Zenon
<1>3. \E r \in S : \A t \in S : r.guest_phys_addr <= t.guest_phys_addr
  BY <1>2, Zenon
<1> QED
  BY <1>3, Zenon DEF Lowest

(* vhost_dev_find_reg finds a region that overlaps the range, if there is  *)
(* one.                                                                    *)
LEMMA FindReg ==
    ASSUME NEW m \in Seq(Region), NEW s
    PROVE  /\ find_reg(m, s) = 0 <=> Clear(m, s)
           /\ find_reg(m, s) # 0 =>
                find_reg(m, s) \in 1..Len(m) /\ ranges_overlap(m[find_reg(m, s)], s)
<1> DEFINE hit == {k \in DOMAIN m : ranges_overlap(m[k], s)}
<1>1. DOMAIN m = 1..Len(m)
  OBVIOUS
<1>2. hit = {} <=> Clear(m, s)
  BY <1>1, Zenon DEF Clear
<1>3. CASE hit = {}
  <2>1. find_reg(m, s) = 0
    BY <1>3, Zenon DEF find_reg
  <2> QED
    BY <1>2, <1>3, <2>1, Zenon
<1>4. CASE hit # {}
  <2>1. hit \subseteq Nat /\ 0 \notin hit
    BY <1>1, SMT
  <2>2. \E x \in hit : \A y \in hit : x <= y
    <3> HIDE DEF hit
    <3> QED
      BY <1>4, <2>1, LeastNumber, Zenon
  <2>3. find_reg(m, s) = CHOOSE k \in hit : \A j \in hit : k <= j
    BY <1>4, Zenon DEF find_reg
  <2>4. find_reg(m, s) \in hit
    BY <2>2, <2>3, Zenon
  <2>5. find_reg(m, s) # 0
    BY <2>1, <2>4, Zenon
  <2> QED
    BY <1>1, <1>2, <1>4, <2>4, <2>5, Zenon
<1> QED
  BY <1>3, <1>4, Zenon

(* Regions that overlap share a page.                                      *)
LEMMA SharedPage ==
    ASSUME NEW r, NEW s, Inside(r), Inside(s)
    PROVE  ranges_overlap(r, s) <=> \E p \in Int : p \in PagesOf(r) /\ p \in PagesOf(s)
<1>1. Numbers(r) /\ Numbers(s) /\ r \in Span /\ s \in Span
  BY InsideNumbers, Zenon DEF Numbers
<1>2. r.guest_phys_addr \in Int /\ s.guest_phys_addr \in Int
  BY <1>1, SMT DEF Span
<1>3. ASSUME ranges_overlap(r, s)
      PROVE  \/ s.guest_phys_addr \in PagesOf(r) /\ s.guest_phys_addr \in PagesOf(s)
             \/ r.guest_phys_addr \in PagesOf(r) /\ r.guest_phys_addr \in PagesOf(s)
  BY <1>1, <1>3, SMT DEF ranges_overlap, PagesOf, LastPage, Span, Numbers
<1>4. ASSUME NEW p \in Int, p \in PagesOf(r), p \in PagesOf(s) PROVE ranges_overlap(r, s)
  BY <1>1, <1>4, SMT DEF ranges_overlap, PagesOf, LastPage, Span, Numbers
<1> QED
  BY <1>2, <1>3, <1>4, Zenon

(* An array that has no page of the range covers none.                     *)
LEMMA ClearCovers ==
    ASSUME NEW m, Sound(m), NEW s, Inside(s)
    PROVE  Clear(m, s) <=> \A p, h \in Int : Covers(m, p, h) => p \notin PagesOf(s)
<1>1. ASSUME NEW k \in 1..Len(m), ranges_overlap(m[k], s)
      PROVE  \E p, h \in Int : Covers(m, p, h) /\ p \in PagesOf(s)
  <2>1. Inside(m[k])
    BY Zenon DEF Sound
  <2>2. PICK p \in Int : p \in PagesOf(m[k]) /\ p \in PagesOf(s)
    BY <1>1, <2>1, SharedPage, Zenon
  <2>3. m[k].userspace_addr + (p - m[k].guest_phys_addr) \in Int
    <3>1. m[k] \in Span
      BY <2>1, InsideNumbers, Zenon DEF Numbers
    <3> QED
      BY <3>1, SMT DEF Span
  <2>4. Maps(m[k], p, m[k].userspace_addr + (p - m[k].guest_phys_addr))
    BY <2>2, Zenon DEF Maps, PagesOf
  <2> QED
    BY <2>2, <2>3, <2>4, Zenon DEF Covers
<1>2. ASSUME NEW p \in Int, NEW h \in Int, Covers(m, p, h), p \in PagesOf(s), Clear(m, s)
      PROVE  FALSE
  <2>1. PICK k \in 1..Len(m) : Maps(m[k], p, h)
    BY <1>2, Zenon DEF Covers
  <2>2. p \in PagesOf(m[k]) /\ Inside(m[k])
    BY <2>1, Zenon DEF Maps, PagesOf, Sound
  <2>3. ranges_overlap(m[k], s)
    BY <1>2, <2>2, SharedPage, Zenon
  <2> QED
    BY <1>2, <2>3, Zenon DEF Clear
<1> QED
  BY <1>1, <1>2, Zenon DEF Clear

(* A section that is mapped as it stands: vhost_dev_cmp_memory.            *)
LEMMA AlreadyMapped ==
    ASSUME NEW m, Sound(m), NEW s, Inside(s), ~cmp_memory(m, s)
    PROVE  \A p, h \in Int :
             Covers(m, p, h) <=> (Covers(m, p, h) /\ p \notin PagesOf(s)) \/ Maps(s, p, h)
<1> DEFINE k == find_reg(m, s)
           r == m[k]
<1>1. /\ k # 0 /\ ~(s.guest_phys_addr < r.guest_phys_addr) /\ ~(LastPage(s) > LastPage(r))
      /\ s.userspace_addr = r.userspace_addr + s.guest_phys_addr - r.guest_phys_addr
  BY Zenon DEF cmp_memory
<1>2. k \in 1..Len(m) /\ Inside(r)
  BY <1>1, FindReg, Zenon DEF Sound
<1> HIDE DEF k
<1>3. r \in Span /\ s \in Span
  BY <1>2, InsideNumbers, Zenon DEF Numbers
<1>4. PartOf(s, r)
  BY <1>1, <1>3, SMTT(60) DEF PartOf, Span, LastPage
<1>5. \A p \in PagesOf(s) : p \in Int /\ p \in PagesOf(r)
  BY <1>3, <1>4, SMT DEF PartOf, PagesOf, Span, LastPage
<1>6. ASSUME NEW p \in Int, NEW h \in Int, Maps(s, p, h) PROVE Covers(m, p, h)
  <2>1. Maps(r, p, h)
    BY <1>2, <1>4, <1>6, PartMaps, Zenon
  <2> QED
    BY <1>2, <2>1, Zenon DEF Covers
<1>7. ASSUME NEW p \in Int, NEW h \in Int, Covers(m, p, h), p \in PagesOf(s) PROVE Maps(s, p, h)
  <2>1. PICK j \in 1..Len(m) : Maps(m[j], p, h)
    BY <1>7, Zenon DEF Covers
  <2>2. p \in PagesOf(m[j]) /\ Inside(m[j]) /\ p \in PagesOf(r)
    BY <1>5, <1>7, <2>1, Zenon DEF Maps, PagesOf, Sound
  <2>3. ranges_overlap(m[j], r)
    BY <1>2, <2>2, SharedPage, Zenon
  <2>4. j = k
    BY <1>2, <2>3, Zenon DEF Sound, Apart
  <2> QED
    BY <1>2, <1>4, <1>7, <2>1, <2>4, PartMaps, Zenon
<1> QED
  BY <1>6, <1>7, Zenon

\* What vhost_set_memory does to the array: the section is mapped as it stands,
\* or not at all.
Replaces(m, s, adding, n) ==
    /\ Sound(n)
    /\ \A p, h \in Int :
         Covers(n, p, h) <=> (Covers(m, p, h) /\ p \notin PagesOf(s)) \/ (adding /\ Maps(s, p, h))

(* vhost_set_memory, whichever of its early returns it takes.  It notes a  *)
(* change whenever it makes one, whenever it is to remove a section that   *)
(* has a page in the array, and whenever it maps one that has none.        *)
LEMMA SetMemory ==
    ASSUME NEW s, Inside(s), NEW add \in BOOLEAN, Sound(mem), vhost_set_memory(s, add)
    PROVE  /\ Replaces(mem, s, add /\ ~is_logging(s), mem')
           /\ \/ UNCHANGED <<mem, changed, memory_changed>>
              \/ changed' = ChangeRange(s) /\ memory_changed' = TRUE
           /\ add \/ Clear(mem, s) \/ (changed' = ChangeRange(s) /\ memory_changed' = TRUE)
           /\ add /\ ~is_logging(s) /\ Clear(mem, s) =>
                changed' = ChangeRange(s) /\ memory_changed' = TRUE
<1> DEFINE adding == add /\ ~is_logging(s)
           free   == Unassign(mem, s)
           twice  == Unassign(free, s)
<1>1. /\ Sound(free) /\ Clear(free, s)
      /\ \A p, h \in Int : Covers(free, p, h) <=> Covers(mem, p, h) /\ p \notin PagesOf(s)
  BY UnassignFacts, Zenon
<1>2. adding \in BOOLEAN
  BY DEF is_logging
<1>3. mem \in Seq(Region)
  BY Zenon DEF Sound
<1>4. CASE adding /\ cmp_memory(mem, s)
  <2>1. mem' = Assign(free, s) /\ changed' = ChangeRange(s) /\ memory_changed' = TRUE
    BY <1>4, Zenon DEF vhost_set_memory
  <2> HIDE DEF free
  <2>2. /\ Sound(mem')
        /\ \A p, h \in Int : Covers(mem', p, h) <=> Covers(free, p, h) \/ Maps(s, p, h)
    BY <1>1, <2>1, AssignFacts, Zenon
  <2>3. Replaces(mem, s, adding, mem')
    BY <1>1, <1>4, <2>2, Zenon DEF Replaces
  <2> QED
    BY <2>1, <2>3, Zenon
<1>5. CASE adding /\ ~cmp_memory(mem, s)
  <2>1. UNCHANGED <<mem, changed, memory_changed>>
    BY <1>5, Zenon DEF vhost_set_memory
  <2>2. Replaces(mem, s, adding, mem)
    BY <1>5, AlreadyMapped, Zenon DEF Replaces
  <2>3. add
    BY <1>5, Zenon
  <2>4. mem' = mem
    BY <2>1, Zenon
  <2>5. ~Clear(mem, s)
    BY <1>3, <1>5, FindReg, Zenon DEF cmp_memory
  <2> QED
    BY <2>1, <2>2, <2>3, <2>4, <2>5, Zenon
<1>6. CASE ~adding /\ find_reg(mem, s) # 0
  <2>1. mem' = twice /\ changed' = ChangeRange(s) /\ memory_changed' = TRUE
    BY <1>6, Zenon DEF vhost_set_memory
  <2> HIDE DEF free
  <2>2. /\ Sound(twice)
        /\ \A p, h \in Int : Covers(twice, p, h) <=> Covers(free, p, h) /\ p \notin PagesOf(s)
    BY <1>1, UnassignFacts, Zenon
  <2> HIDE DEF twice
  <2>3. Replaces(mem, s, adding, mem')
    BY <1>1, <1>6, <2>1, <2>2, Zenon DEF Replaces
  <2> QED
    BY <2>1, <2>3, Zenon
<1>7. CASE ~adding /\ find_reg(mem, s) = 0
  <2>1. UNCHANGED <<mem, changed, memory_changed>>
    BY <1>7, Zenon DEF vhost_set_memory
  <2>2. Clear(mem, s)
    BY <1>3, <1>7, FindReg, Zenon
  <2>3. \A p, h \in Int : Covers(mem, p, h) => p \notin PagesOf(s)
    BY <2>2, ClearCovers, Zenon
  <2>4. Replaces(mem, s, adding, mem)
    BY <1>7, <2>3, Zenon DEF Replaces
  <2>5. mem' = mem
    BY <2>1, Zenon
  <2> QED
    BY <1>7, <2>1, <2>2, <2>4, <2>5, Zenon
<1> QED
  BY <1>2, <1>4, <1>5, <1>6, <1>7, Zenon

(* The changed range grows by the section.                                 *)
LEMMA ChangeRangeFacts ==
    ASSUME TypeOK, NEW s, Inside(s)
    PROVE  /\ ChangeRange(s) \in [start : 0..GuestPages, end : Pages]
           /\ ChangeRange(s).start <= s.guest_phys_addr /\ LastPage(s) <= ChangeRange(s).end
           /\ ChangeRange(s).start <= changed.start /\ changed.end <= ChangeRange(s).end
           /\ ChangeRange(s).start <= ChangeRange(s).end
<1>1. Numbers(s) /\ s \in Span
  BY InsideNumbers, Zenon DEF Numbers
<1>2. changed \in [start : 0..GuestPages, end : Pages]
  BY Zenon DEF TypeOK
<1> QED
  BY <1>1, <1>2, MemAssumption, SMT DEF ChangeRange, Span, Numbers, LastPage, Pages

(* A page that is noted stays noted, and so do the pages of a section.     *)
LEMMA NotedStays ==
    ASSUME TypeOK, NEW s, Inside(s), NEW p \in Int,
           \/ UNCHANGED <<mem, changed, memory_changed>>
           \/ changed' = ChangeRange(s) /\ memory_changed' = TRUE
    PROVE  /\ Noted(p) => Noted(p)'
           /\ p \in PagesOf(s) /\ changed' = ChangeRange(s) /\ memory_changed' => Noted(p)'
<1>1. CASE UNCHANGED <<mem, changed, memory_changed>> /\ changed' # ChangeRange(s)
  BY <1>1, Zenon DEF Noted
<1>2. CASE changed' = ChangeRange(s)
  <2>1. /\ ChangeRange(s) \in [start : 0..GuestPages, end : Pages]
        /\ ChangeRange(s).start <= s.guest_phys_addr /\ LastPage(s) <= ChangeRange(s).end
        /\ ChangeRange(s).start <= changed.start /\ changed.end <= ChangeRange(s).end
    BY ChangeRangeFacts, Zenon
  <2>2. changed \in [start : 0..GuestPages, end : Pages] /\ s \in Span
    BY InsideNumbers, Zenon DEF TypeOK, Numbers
  <2>a. memory_changed => memory_changed'
    <3>1. memory_changed' = memory_changed \/ memory_changed' = TRUE
      BY Zenon
    <3> QED
      BY <3>1, Zenon
  <2>3. /\ changed.start \in Int /\ changed.end \in Int
        /\ ChangeRange(s).start \in Int /\ ChangeRange(s).end \in Int
    BY <2>1, <2>2, MemAssumption, SMT DEF Pages
  <2>4. /\ s.guest_phys_addr \in Int /\ LastPage(s) \in Int
        /\ p \in PagesOf(s) => s.guest_phys_addr <= p /\ p <= LastPage(s)
    BY <2>2, SMT DEF Span, LastPage, PagesOf
  <2> HIDE DEF LastPage, ChangeRange
  <2>5. /\ changed.start <= p /\ p <= changed.end =>
             ChangeRange(s).start <= p /\ p <= ChangeRange(s).end
        /\ p \in PagesOf(s) => ChangeRange(s).start <= p /\ p <= ChangeRange(s).end
    BY <2>1, <2>3, <2>4, SMT
  <2> QED
    BY <1>2, <2>a, <2>5, Zenon DEF Noted
<1> QED
  BY <1>1, <1>2, Zenon

(* The ranges of the layouts are sections, and those that share a page are *)
(* one.                                                                    *)
LEMMA OldNew ==
    ASSUME TypeOK
    PROVE  /\ view \in Views /\ target \in Views
           /\ Old \subseteq Region /\ New \subseteq Region
           /\ Stay \subseteq Old /\ Stay \subseteq New
           /\ \A r \in Old \cup New : Inside(r)
           /\ \A r, t \in Old : ranges_overlap(r, t) => r = t
           /\ \A r, t \in New : ranges_overlap(r, t) => r = t
<1>1. view \in Views /\ target \in Views
  BY Zenon DEF TypeOK
<1>2. \A r \in Old \cup New : Inside(r)
  BY <1>1, RangeMaps, Zenon DEF Old, New
<1>3. Old \subseteq Region /\ New \subseteq Region
  BY Zenon DEF Old, New, FlatRanges
<1>4. Stay \subseteq Old /\ Stay \subseteq New
  BY Zenon DEF Stay, Unchanged, Old, New
<1> QED
  BY <1>1, <1>2, <1>3, <1>4, RangesDisjoint, Zenon DEF Old, New

(* A section that is deleted is taken out of the array, and noted.         *)
LEMMA DelStep ==
    ASSUME MemInv, vhost_region_del
    PROVE  MemInv'
<1> DEFINE s == Lowest(dels)
<1>1. /\ updating /\ dels # {} /\ vhost_set_memory(s, FALSE) /\ dels' = dels \ {s}
      /\ view' = view /\ target' = target /\ adds' = adds /\ updating' = updating
      /\ started' = started /\ ring' = ring /\ aborted' = aborted /\ table' = table
      /\ logging' = logging /\ skipped' = skipped
  BY Zenon DEF vhost_region_del
<1>2. TypeOK /\ Sound(mem) /\ dels \subseteq Gone /\ adds = Fresh
  BY <1>1, Zenon DEF MemInv, PassInv
<1>3. Gone' = Gone /\ Fresh' = Fresh /\ Stay' = Stay
  BY <1>1, Zenon DEF Old, New, Gone, Fresh, Stay
<1>4. /\ dels \subseteq Region /\ Gone \subseteq Old /\ Stay \subseteq Old
      /\ \A r \in Old \cup New : Inside(r)
      /\ \A r, t \in Old : ranges_overlap(r, t) => r = t
  BY <1>2, OldNew, Zenon DEF Gone
<1>5. s \in dels /\ s \in Old /\ s \notin Stay /\ Inside(s)
  BY <1>1, <1>2, <1>4, LowestIn, Zenon DEF Gone
<1>6. /\ Present = Stay \cup dels
      /\ Present' = Stay \cup (dels \ {s})
      /\ Present \subseteq Old /\ s \in Present
  BY <1>1, <1>2, <1>3, <1>4, <1>5, Zenon DEF Present
<1> HIDE DEF s
<1>7. /\ Replaces(mem, s, FALSE, mem')
      /\ \/ UNCHANGED <<mem, changed, memory_changed>>
         \/ changed' = ChangeRange(s) /\ memory_changed' = TRUE
      /\ Clear(mem, s) \/ (changed' = ChangeRange(s) /\ memory_changed' = TRUE)
  <2>1. /\ Replaces(mem, s, FALSE /\ ~is_logging(s), mem')
        /\ \/ UNCHANGED <<mem, changed, memory_changed>>
           \/ changed' = ChangeRange(s) /\ memory_changed' = TRUE
        /\ FALSE \/ Clear(mem, s) \/ (changed' = ChangeRange(s) /\ memory_changed' = TRUE)
    BY <1>1, <1>2, <1>5, SetMemory, Zenon
  <2> QED
    BY <2>1, Zenon DEF Replaces
<1>8. /\ ChangeRange(s) \in [start : 0..GuestPages, end : Pages]
      /\ ChangeRange(s).start <= s.guest_phys_addr /\ LastPage(s) <= ChangeRange(s).end
      /\ ChangeRange(s).start <= changed.start /\ changed.end <= ChangeRange(s).end
      /\ ChangeRange(s).start <= ChangeRange(s).end
  BY <1>2, <1>5, ChangeRangeFacts, Zenon
<1>9. TypeOK'
  <2>1. changed' \in [start : 0..GuestPages, end : Pages] /\ memory_changed' \in BOOLEAN
    BY <1>2, <1>7, <1>8, Zenon DEF TypeOK
  <2>2. mem' \in Seq(Region)
    BY <1>7, Zenon DEF Replaces, Sound
  <2>3. dels' \subseteq Region
    BY <1>1, <1>4, Zenon
  <2> QED
    BY <1>1, <1>2, <2>1, <2>2, <2>3, Zenon DEF TypeOK
<1>10. Sound(mem')
  BY <1>7, Zenon DEF Replaces
<1>11. PassInv'
  BY <1>1, <1>2, <1>3, Zenon DEF PassInv
<1>12. CoverInv'
  <2> SUFFICES ASSUME NEW p \in Int, NEW h \in Int
               PROVE  Covers(mem', p, h) <=>
                        p \notin skipped /\ \E r \in Present' : Maps(r, p, h)
    BY <1>1, Zenon DEF CoverInv
  <2>1. Covers(mem', p, h) <=> Covers(mem, p, h) /\ p \notin PagesOf(s)
    BY <1>7, Zenon DEF Replaces
  <2>2. Covers(mem, p, h) <=> p \notin skipped /\ \E r \in Present : Maps(r, p, h)
    BY Zenon DEF MemInv, CoverInv
  <2>3. ASSUME NEW r \in Present, Maps(r, p, h), p \notin PagesOf(s) PROVE r \in Present'
    BY <1>6, <2>3, Zenon DEF Maps, PagesOf
  <2>4. ASSUME NEW r \in Present', Maps(r, p, h) PROVE r \in Present /\ p \notin PagesOf(s)
    <3>1. r \in Present /\ r \in Old /\ r # s /\ Inside(r)
      BY <1>4, <1>5, <1>6, Zenon
    <3>2. p \in PagesOf(r)
      BY <2>4, Zenon DEF Maps, PagesOf
    <3> QED
      BY <1>4, <1>5, <3>1, <3>2, SharedPage, Zenon
  <2> QED
    BY <2>1, <2>2, <2>3, <2>4, Zenon
<1>13. TableInv'
  <2>1. CASE UNCHANGED <<mem, changed, memory_changed>>
    BY <1>1, <2>1, Zenon DEF MemInv, TableInv
  <2>2. CASE changed' = ChangeRange(s) /\ memory_changed' = TRUE
    BY <1>1, <1>8, <2>2, Zenon DEF TableInv
  <2> QED
    BY <1>7, <2>1, <2>2, Zenon
<1>14. NotedInv'
  <2> SUFFICES ASSUME NEW p \in Int, Touched(p)', p \notin skipped PROVE Noted(p)'
    BY <1>1, Zenon DEF NotedInv
  <2>1. CASE Touched(p)
    BY <1>2, <1>5, <1>7, <2>1, NotedStays, Zenon DEF MemInv, NotedInv
  <2>2. CASE ~Touched(p)
    <3>1. p \in PagesOf(s)
      BY <1>1, <1>3, <2>2, Zenon DEF Touched
    <3>2. ~Clear(mem, s)
      <4>1. s \in Span
        BY <1>5, InsideNumbers, Zenon DEF Numbers
      <4> DEFINE h == s.userspace_addr + (p - s.guest_phys_addr)
      <4>2. h \in Int
        BY <4>1, SMT DEF Span
      <4>3. Maps(s, p, h)
        BY <3>1, Zenon DEF Maps, PagesOf
      <4> HIDE DEF h
      <4>4. Covers(mem, p, h)
        BY <1>6, <4>2, <4>3, Zenon DEF MemInv, CoverInv
      <4> QED
        BY <1>2, <1>5, <3>1, <4>2, <4>4, ClearCovers, Zenon
    <3> QED
      BY <1>2, <1>5, <1>7, <3>1, <3>2, NotedStays, Zenon
  <2> QED
    BY <2>1, <2>2, Zenon
<1>15. RingInv'
  <2>1. Touched(RingPage) => Touched(RingPage)'
    BY <1>1, <1>3, Zenon DEF Touched
  <2> QED
    BY <1>1, <2>1, Zenon DEF MemInv, RingInv
<1> QED
  BY <1>9, <1>10, <1>11, <1>12, <1>13, <1>14, <1>15, Zenon DEF MemInv

(* While sections are added, none of the pages of the next one is mapped.  *)
LEMMA AddClear ==
    ASSUME MemInv, dels = {}, NEW s \in adds
    PROVE  /\ updating /\ s \in Fresh /\ Inside(s) /\ Clear(mem, s)
           /\ Present = Stay \cup (Fresh \ adds)
           /\ \A r \in Present : r \in New /\ Inside(r)
           /\ \A r \in Present, p \in Int : p \in PagesOf(r) => p \notin PagesOf(s)
<1>1. TypeOK /\ Sound(mem) /\ updating /\ adds \subseteq Fresh
  BY Zenon DEF MemInv, PassInv
<1>2. /\ Stay \subseteq New /\ Fresh \subseteq New /\ Fresh \cap Stay = {}
      /\ \A r \in Old \cup New : Inside(r)
      /\ \A r, t \in New : ranges_overlap(r, t) => r = t
  BY <1>1, OldNew, Zenon DEF Fresh
<1>3. s \in New /\ s \in Fresh /\ Inside(s)
  BY <1>1, <1>2, Zenon
<1>4. /\ Present = Stay \cup (Fresh \ adds)
      /\ s \notin Present
      /\ \A r \in Present : r \in New /\ Inside(r)
  BY <1>1, <1>2, <1>3, Zenon DEF Present
<1>5. ASSUME NEW r \in Present, NEW p \in Int, p \in PagesOf(r) PROVE p \notin PagesOf(s)
  BY <1>2, <1>3, <1>4, <1>5, SharedPage, Zenon
<1>6. ASSUME NEW p \in Int, NEW h \in Int, Covers(mem, p, h) PROVE p \notin PagesOf(s)
  <2>1. PICK r \in Present : Maps(r, p, h)
    BY <1>6, Zenon DEF MemInv, CoverInv
  <2>2. p \in PagesOf(r)
    BY <2>1, Zenon DEF Maps, PagesOf
  <2> QED
    BY <1>5, <2>2, Zenon
<1>7. Clear(mem, s)
  BY <1>1, <1>3, <1>6, ClearCovers, Zenon
<1> QED
  BY <1>1, <1>3, <1>4, <1>5, <1>7, Zenon

(* A section that is added is mapped, unless it is logged.                 *)
LEMMA AddStep ==
    ASSUME MemInv, vhost_region_add
    PROVE  MemInv'
<1> DEFINE s == Lowest(adds)
<1>1. /\ updating /\ dels = {} /\ adds # {} /\ vhost_set_memory(s, TRUE) /\ adds' = adds \ {s}
      /\ view' = view /\ target' = target /\ dels' = dels /\ updating' = updating
      /\ started' = started /\ ring' = ring /\ aborted' = aborted /\ table' = table
      /\ logging' = logging
      /\ skipped' = IF is_logging(s) THEN skipped \cup PagesOf(s) ELSE skipped \ PagesOf(s)
  BY Zenon DEF vhost_region_add
<1>2. TypeOK /\ Sound(mem) /\ adds \subseteq Fresh /\ adds \subseteq Region
  BY <1>1, Zenon DEF MemInv, PassInv, TypeOK
<1>3. Gone' = Gone /\ Fresh' = Fresh /\ Stay' = Stay
  BY <1>1, Zenon DEF Old, New, Gone, Fresh, Stay
<1>4. s \in adds
  BY <1>1, <1>2, LowestIn, Zenon
<1> HIDE DEF s
<1>5. /\ s \in Fresh /\ Inside(s) /\ Clear(mem, s)
      /\ Present = Stay \cup (Fresh \ adds)
      /\ \A r \in Present, p \in Int : p \in PagesOf(r) => p \notin PagesOf(s)
  BY <1>1, <1>4, AddClear, Zenon
<1>6. Present' = Present \cup {s}
  <2>1. Present' = Stay \cup {} \cup (Fresh \ (adds \ {s}))
    BY <1>1, <1>3, Zenon DEF Present
  <2> QED
    BY <1>4, <1>5, <2>1, Zenon
<1>7. /\ Replaces(mem, s, ~is_logging(s), mem')
      /\ \/ UNCHANGED <<mem, changed, memory_changed>>
         \/ changed' = ChangeRange(s) /\ memory_changed' = TRUE
      /\ ~is_logging(s) => changed' = ChangeRange(s) /\ memory_changed' = TRUE
  <2>1. /\ Replaces(mem, s, TRUE /\ ~is_logging(s), mem')
        /\ \/ UNCHANGED <<mem, changed, memory_changed>>
           \/ changed' = ChangeRange(s) /\ memory_changed' = TRUE
        /\ TRUE /\ ~is_logging(s) /\ Clear(mem, s) =>
             changed' = ChangeRange(s) /\ memory_changed' = TRUE
    BY <1>1, <1>2, <1>5, SetMemory, Zenon
  <2> QED
    BY <1>5, <2>1, Zenon DEF Replaces
<1>8. /\ ChangeRange(s) \in [start : 0..GuestPages, end : Pages]
      /\ ChangeRange(s).start <= changed.start /\ changed.end <= ChangeRange(s).end
      /\ ChangeRange(s).start <= ChangeRange(s).end
  BY <1>2, <1>5, ChangeRangeFacts, Zenon
<1>9. TypeOK'
  <2>1. changed' \in [start : 0..GuestPages, end : Pages] /\ memory_changed' \in BOOLEAN
    BY <1>2, <1>7, <1>8, Zenon DEF TypeOK
  <2>2. mem' \in Seq(Region)
    BY <1>7, Zenon DEF Replaces, Sound
  <2>3. adds' \subseteq Region
    BY <1>1, <1>2, Zenon
  <2>4. skipped' \subseteq Pages
    <3>1. PagesOf(s) \subseteq Pages
      <4>1. Numbers(s)
        BY <1>5, InsideNumbers, Zenon
      <4> QED
        BY <4>1, MemAssumption, SMT DEF Numbers, Span, PagesOf, LastPage, Pages
    <3> QED
      BY <1>1, <1>2, <3>1, Zenon DEF TypeOK
  <2> QED
    BY <1>1, <1>2, <2>1, <2>2, <2>3, <2>4, Zenon DEF TypeOK
<1>10. Sound(mem')
  BY <1>7, Zenon DEF Replaces
<1>11. PassInv'
  BY <1>1, <1>2, <1>3, Zenon DEF PassInv
<1>12. CoverInv'
  <2> SUFFICES ASSUME NEW p \in Int, NEW h \in Int
               PROVE  Covers(mem', p, h) <=>
                        p \notin skipped' /\ \E r \in Present' : Maps(r, p, h)
    BY Zenon DEF CoverInv
  <2>1. Covers(mem', p, h) <=>
          (Covers(mem, p, h) /\ p \notin PagesOf(s)) \/ (~is_logging(s) /\ Maps(s, p, h))
    BY <1>7, Zenon DEF Replaces
  <2>2. Covers(mem, p, h) <=> p \notin skipped /\ \E r \in Present : Maps(r, p, h)
    BY Zenon DEF MemInv, CoverInv
  <2>3. ASSUME NEW r \in Present, Maps(r, p, h) PROVE p \notin PagesOf(s)
    BY <1>5, <2>3, Zenon DEF Maps, PagesOf
  <2>4. Maps(s, p, h) => p \in PagesOf(s)
    BY Zenon DEF Maps, PagesOf
  <2>5. /\ p \in PagesOf(s) => (p \in skipped' <=> is_logging(s))
        /\ p \notin PagesOf(s) => (p \in skipped' <=> p \in skipped)
    BY <1>1, Zenon
  <2>6. CASE p \in PagesOf(s)
    BY <1>6, <2>1, <2>3, <2>5, <2>6, Zenon
  <2>7. CASE p \notin PagesOf(s)
    BY <1>6, <2>1, <2>2, <2>4, <2>5, <2>7, Zenon
  <2> QED
    BY <2>6, <2>7, Zenon
<1>13. TableInv'
  <2>1. CASE UNCHANGED <<mem, changed, memory_changed>>
    BY <1>1, <2>1, Zenon DEF MemInv, TableInv
  <2>2. CASE changed' = ChangeRange(s) /\ memory_changed' = TRUE
    BY <1>1, <1>8, <2>2, Zenon DEF TableInv
  <2> QED
    BY <1>7, <2>1, <2>2, Zenon
<1>14. NotedInv'
  <2> SUFFICES ASSUME NEW p \in Int, Touched(p)', p \notin skipped' PROVE Noted(p)'
    BY Zenon DEF NotedInv
  <2>1. CASE p \in PagesOf(s)
    <3>1. ~is_logging(s)
      BY <1>1, <2>1, Zenon
    <3> QED
      BY <1>2, <1>5, <1>7, <2>1, <3>1, NotedStays, Zenon
  <2>2. CASE p \notin PagesOf(s)
    <3>1. Touched(p) /\ p \notin skipped
      BY <1>1, <1>3, <2>2, Zenon DEF Touched
    <3> QED
      BY <1>2, <1>5, <1>7, <3>1, NotedStays, Zenon DEF MemInv, NotedInv
  <2> QED
    BY <2>1, <2>2, Zenon
<1>15. RingInv'
  <2>1. ASSUME RingPage \notin skipped', ~Touched(RingPage)'
        PROVE  RingPage \notin skipped /\ ~Touched(RingPage)
    <3>1. /\ RingPage \notin PagesOf(s)
          /\ ~Touched(RingPage)
      BY <1>1, <1>3, <1>4, <1>5, <2>1, Zenon DEF Touched
    <3> QED
      BY <1>1, <2>1, <3>1, Zenon
  <2> QED
    BY <1>1, <2>1, Zenon DEF MemInv, RingInv
<1> QED
  BY <1>9, <1>10, <1>11, <1>12, <1>13, <1>14, <1>15, Zenon DEF MemInv

(* An update starts with every range of the old layout present.            *)
LEMMA BeginStep ==
    ASSUME MemInv, NEW v \in Layouts, NEW L \in SUBSET Display, Begin(v, L)
    PROVE  MemInv'
<1>1. /\ ~updating /\ target' = v /\ updating' = TRUE /\ logging' = L
      /\ dels' = Old \ Unchanged(view, v) /\ adds' = FlatRanges(v) \ Unchanged(view, v)
      /\ changed' = [start |-> GuestPages, end |-> 0]
      /\ view' = view /\ mem' = mem /\ memory_changed' = memory_changed /\ started' = started
      /\ ring' = ring /\ aborted' = aborted /\ table' = table /\ skipped' = skipped
  BY Zenon DEF Begin, Old
<1>2. Old' = Old /\ New' = FlatRanges(v) /\ Stay' = Unchanged(view, v)
  BY <1>1, Zenon DEF Old, New, Stay
<1>3. TypeOK /\ Present = Old
  BY <1>1, Zenon DEF MemInv, Present
<1>4. TypeOK'
  <2>1. v \in Views /\ 0 \in Pages /\ GuestPages \in 0..GuestPages
    BY MemAssumption DEF Pages
  <2>2. changed' \in [start : 0..GuestPages, end : Pages]
    BY <1>1, <2>1
  <2>3. dels' \subseteq Region /\ adds' \subseteq Region
    BY <1>1, Zenon DEF Old, FlatRanges
  <2> QED
    BY <1>1, <1>3, <2>1, <2>2, <2>3, Zenon DEF TypeOK
<1>5. /\ dels' = Gone' /\ adds' = Fresh' /\ Stay' \subseteq Old
      /\ Gone' = Old \ Stay'
  BY <1>1, <1>2, Zenon DEF Gone, Fresh, Unchanged, Old
<1>6. Present' = Old
  <2>1. Present' = Stay' \cup dels' \cup (Fresh' \ adds')
    BY <1>1, Zenon DEF Present
  <2> QED
    BY <1>5, <2>1, Zenon
<1>7. CoverInv'
  BY <1>1, <1>3, <1>6, Zenon DEF MemInv, CoverInv
<1>8. \A p : ~Touched(p) /\ ~Touched(p)'
  BY <1>1, <1>5, Zenon DEF Touched
<1>9. Sound(mem') /\ PassInv' /\ NotedInv'
  BY <1>1, <1>5, <1>8, Zenon DEF MemInv, PassInv, NotedInv
<1>10. TableInv' /\ RingInv'
  BY <1>1, <1>8, Zenon DEF MemInv, TableInv, RingInv
<1> QED
  BY <1>4, <1>7, <1>9, <1>10, Zenon DEF MemInv

(* A change of the layout that moves the ring is in the changed range, so  *)
(* that vhost_commit looks at the ring.                                    *)
LEMMA RingChecked ==
    ASSUME MemInv, updating, dels = {}, adds = {}, started, RingPage \notin skipped,
           MustSend => verify_ring_mappings
    PROVE  target[RingPage].ram = ring
<1>a. RingPage \in Int
  BY MemAssumption, SMT DEF Pages
<1>1. TypeOK /\ view \in Views /\ target \in Views /\ RingPage \in Pages /\ RingPage \in Int
  BY <1>a, MemAssumption, Zenon DEF MemInv, TypeOK
<1>2. CASE Touched(RingPage)
  <2>1. memory_changed /\ changed.start <= RingPage /\ RingPage <= changed.end
    BY <1>1, <1>2, Zenon DEF MemInv, NotedInv, Noted
  <2>2. changed \in [start : 0..GuestPages, end : Pages]
    BY <1>1, Zenon DEF TypeOK
  <2>3. changed.start <= changed.end /\ RingPage \in changed.start..changed.end
    <3>1. changed.start \in Int /\ changed.end \in Int
      BY <2>2, MemAssumption, SMT DEF Pages
    <3> QED
      BY <1>1, <2>1, <3>1, SMT
  <2> QED
    BY <2>1, <2>3, Zenon DEF MustSend, verify_ring_mappings
<1>3. CASE ~Touched(RingPage)
  <2>1. ring \in Host /\ view[RingPage].ram = ring
    BY <1>3, Zenon DEF MemInv, RingInv
  <2>2. view[RingPage].ram # None
    BY <2>1, MemAssumption, SMT DEF Host, None
  <2>3. PICK r \in Old : RingPage \in PagesOf(r)
    BY <1>1, <2>2, RangeOfPage, Zenon DEF Old
  <2>4. ring = r.userspace_addr + (RingPage - r.guest_phys_addr)
    BY <1>1, <2>1, <2>3, RangeMaps, Zenon DEF Old
  <2>5. r \in New
    BY <1>1, <1>3, <2>3, OldNew, Zenon DEF Touched, Gone
  <2> QED
    BY <1>1, <2>3, <2>4, <2>5, RangeMaps, Zenon DEF New
<1> QED
  BY <1>2, <1>3, Zenon

(* vhost_commit: the new layout is the current one, and the device has it. *)
LEMMA CommitStep ==
    ASSUME MemInv, Commit
    PROVE  MemInv'
<1>1. /\ updating /\ dels = {} /\ adds = {} /\ (MustSend => verify_ring_mappings)
      /\ updating' = FALSE /\ view' = target /\ target' = target /\ dels' = dels /\ adds' = adds
      /\ mem' = mem /\ changed' = changed /\ started' = started /\ ring' = ring
      /\ aborted' = aborted /\ logging' = logging /\ skipped' = skipped
  BY Zenon DEF Commit
<1>2. /\ MustSend => table' = mem /\ memory_changed' = FALSE
      /\ ~MustSend => table' = table /\ memory_changed' = memory_changed
  BY Zenon DEF Commit
<1>3. TypeOK
  BY Zenon DEF MemInv
<1>4. TypeOK'
  <2>1. memory_changed' \in BOOLEAN /\ table' \in Seq(Region)
    BY <1>2, <1>3, Zenon DEF TypeOK
  <2> QED
    BY <1>1, <1>3, <2>1, Zenon DEF TypeOK
<1>5. Present = New /\ Present' = New
  <2>1. Present = Stay \cup {} \cup (Fresh \ {}) /\ Present' = New
    BY <1>1, Zenon DEF Present, Old, New
  <2> QED
    BY <1>3, <2>1, OldNew, Zenon DEF Fresh
<1>6. CoverInv'
  BY <1>1, <1>5, Zenon DEF MemInv, CoverInv
<1>7. TableInv'
  <2>1. CASE MustSend
    BY <1>1, <1>2, <2>1, Zenon DEF TableInv
  <2>2. CASE ~MustSend
    BY <1>1, <1>2, <2>2, Zenon DEF MemInv, TableInv, MustSend
  <2> QED
    BY <2>1, <2>2, Zenon
<1>8. Sound(mem') /\ PassInv' /\ NotedInv'
  BY <1>1, Zenon DEF MemInv, PassInv, NotedInv, Touched
<1>9. RingInv'
  BY <1>1, RingChecked, Zenon DEF MemInv, RingInv
<1> QED
  BY <1>4, <1>6, <1>7, <1>8, <1>9, Zenon DEF MemInv

(* Starting and stopping the device, and an assertion that fails, leave    *)
(* the array alone.                                                        *)
LEMMA DeviceStep ==
    ASSUME MemInv, CommitAborts \/ Start \/ Stop \/ UNCHANGED vars
    PROVE  MemInv'
<1>1. TypeOK
  BY Zenon DEF MemInv
<1>2. /\ view' = view /\ target' = target /\ dels' = dels /\ adds' = adds /\ updating' = updating
      /\ mem' = mem /\ changed' = changed /\ memory_changed' = memory_changed
      /\ logging' = logging /\ skipped' = skipped
  BY Zenon DEF CommitAborts, Start, Stop, vars, core, dev
<1>3. Present' = Present /\ Gone' = Gone /\ Fresh' = Fresh
  BY <1>2, Zenon DEF Present, Old, New, Gone, Fresh, Stay
<1>4. Sound(mem') /\ PassInv'
  BY <1>2, <1>3, Zenon DEF MemInv, PassInv
<1>a. \A p : (Touched(p)' <=> Touched(p)) /\ (Noted(p)' <=> Noted(p))
  BY <1>2, <1>3, Zenon DEF Touched, Noted
<1>b. NotedInv'
  BY <1>2, <1>a, Zenon DEF MemInv, NotedInv
<1>5. CoverInv'
  BY <1>2, <1>3, Zenon DEF MemInv, CoverInv
<1>6. TypeOK' /\ TableInv' /\ RingInv'
  <2>1. CASE CommitAborts \/ UNCHANGED vars
    <3>1. /\ started' = started /\ ring' = ring /\ table' = table
          /\ aborted' = aborted \/ aborted' = TRUE
      BY <2>1, Zenon DEF CommitAborts, vars, core, dev
    <3>2. aborted' \in BOOLEAN
      BY <1>1, <3>1, Zenon DEF TypeOK
    <3> QED
      BY <1>1, <1>2, <1>a, <3>1, <3>2, Zenon DEF TypeOK, MemInv, TableInv, RingInv
  <2>2. CASE Start
    <3>1. /\ started' = TRUE /\ table' = mem /\ ring' = view[RingPage].ram /\ aborted' = aborted
          /\ view[RingPage].ram # None
      BY <2>2, Zenon DEF Start
    <3>2. view[RingPage].ram \in Host
      BY <1>1, <3>1, MemAssumption, PageOfView, Zenon DEF TypeOK
    <3> QED
      BY <1>1, <1>2, <3>1, <3>2, Zenon DEF TypeOK, TableInv, RingInv
  <2>3. CASE Stop
    <3>1. started' = FALSE /\ table' = <<>> /\ ring' = None /\ aborted' = aborted
      BY <2>3, Zenon DEF Stop
    <3>2. table' \in Seq(Region)
      BY <3>1, SMT
    <3> QED
      BY <1>1, <1>2, <3>1, <3>2, Zenon DEF TypeOK, TableInv, RingInv
  <2> QED
    BY <2>1, <2>2, <2>3, Zenon
<1> QED
  BY <1>4, <1>5, <1>6, <1>b, Zenon DEF MemInv

(* No RAM, no regions, no device.                                          *)
LEMMA InitMem == Init => MemInv
<1> SUFFICES ASSUME Init PROVE MemInv
  OBVIOUS
<1>1. /\ view = [p \in Pages |-> [ram |-> None, readonly |-> FALSE]] /\ target = view
      /\ logging = {} /\ skipped = {} /\ dels = {} /\ adds = {}
      /\ updating = FALSE /\ mem = <<>> /\ table = <<>> /\ started = FALSE
      /\ memory_changed = FALSE /\ aborted = FALSE /\ ring = None
      /\ changed = [start |-> GuestPages, end |-> 0]
  BY Zenon DEF Init
<1>2. view \in Views
  <2>1. [ram |-> None, readonly |-> FALSE] \in [ram : Host \cup {None}, readonly : BOOLEAN]
    BY SMT
  <2> QED
    BY <1>1, <2>1, Zenon DEF Views
<1>3. TypeOK
  <2>1. 0 \in Pages /\ GuestPages \in 0..GuestPages
    BY MemAssumption, SMTT(60) DEF Pages
  <2>2. changed \in [start : 0..GuestPages, end : Pages]
    BY <1>1, <2>1
  <2>3. mem \in Seq(Region) /\ table \in Seq(Region)
    BY <1>1, SMT
  <2> QED
    BY <1>1, <1>2, <2>2, <2>3, Zenon DEF TypeOK
<1>4. Len(mem) = 0 /\ \A k \in 1..Len(mem) : FALSE
  BY <1>1, SMT
<1>5. Old = {}
  <2> SUFFICES ASSUME NEW r \in Old PROVE FALSE
    BY Zenon
  <2>1. /\ r.userspace_addr = view[r.guest_phys_addr].ram /\ r.userspace_addr \in Host
        /\ r \in Region
    BY <1>2, RangeFields, Zenon DEF Old
  <2>2. r.guest_phys_addr \in Pages
    BY <2>1, SMT DEF Region
  <2>3. None \in Host
    <3>1. view[r.guest_phys_addr] = [ram |-> None, readonly |-> FALSE]
      BY <1>1, <2>2, Zenon
    <3> QED
      BY <2>1, <3>1, SMT
  <2> QED
    BY <2>3, MemAssumption, SMT DEF None, Host
<1>6. Sound(mem)
  BY <1>3, <1>4, Zenon DEF Sound, TypeOK
<1>7. CoverInv
  BY <1>1, <1>4, <1>5, Zenon DEF CoverInv, Covers, Present
<1> QED
  BY <1>1, <1>3, <1>6, <1>7, Zenon DEF MemInv, PassInv, TableInv, NotedInv, Touched, RingInv

(* The array of regions of a vhost device is at every moment what the      *)
(* calls of the memory core that came so far leave of the layout: regions  *)
(* that do not overlap and could not be merged, and that map the ranges    *)
(* present that were not logged when they were added, for every address    *)
(* space and every sequence of layouts and of changes of logging.          *)
THEOREM MemInvariant == Spec => []MemInv
<1>1. ASSUME MemInv, [Next]_vars PROVE MemInv'
  <2>1. CASE \E v \in Layouts, L \in SUBSET Display : Begin(v, L)
    BY <1>1, <2>1, BeginStep, Zenon
  <2>2. CASE vhost_region_del
    BY <1>1, <2>2, DelStep, Zenon
  <2>3. CASE vhost_region_add
    BY <1>1, <2>3, AddStep, Zenon
  <2>4. CASE Commit
    BY <1>1, <2>4, CommitStep, Zenon
  <2>5. CASE CommitAborts \/ Start \/ Stop \/ UNCHANGED vars
    BY <1>1, <2>5, DeviceStep, Zenon
  <2> QED
    BY <1>1, <2>1, <2>2, <2>3, <2>4, <2>5, Zenon DEF Next
<1> QED
  BY <1>1, InitMem, PTL DEF Spec

-----------------------------------------------------------------------------
(* The properties.                                                         *)

(* A region of the array puts behind a page what the layout has there.     *)
LEMMA RegionMapsView ==
    ASSUME MemInv, ~updating, NEW p \in Pages, NEW k \in DOMAIN mem,
           p \in PagesOf(mem[k])
    PROVE  /\ mem[k].userspace_addr + p - mem[k].guest_phys_addr = view[p].ram
           /\ p \notin skipped
<1> DEFINE g == mem[k].guest_phys_addr
           u == mem[k].userspace_addr
<1>1. TypeOK /\ Sound(mem) /\ view \in Views /\ Present = Old
  BY Zenon DEF MemInv, TypeOK, Present
<1>2. k \in 1..Len(mem)
  BY <1>1, SMT DEF Sound
<1>3. mem[k] \in Span
  BY <1>1, <1>2, InsideNumbers, Zenon DEF Numbers, Sound
<1>4. p \in Int /\ u + (p - g) \in Int /\ u + p - g = u + (p - g)
  BY <1>3, SMT DEF Span, Pages
<1>5. Covers(mem, p, u + (p - g))
  BY <1>2, Zenon DEF Covers, Maps, PagesOf
<1>6. p \notin skipped /\ \E r \in Old : Maps(r, p, u + (p - g))
  BY <1>1, <1>4, <1>5, Zenon DEF MemInv, CoverInv
<1>a. PICK r \in Old : Maps(r, p, u + (p - g))
  BY <1>6, Zenon
<1>7. p \in PagesOf(r) /\ u + (p - g) = r.userspace_addr + (p - r.guest_phys_addr)
  BY <1>a, Zenon DEF Maps, PagesOf
<1>8. view[p].ram = r.userspace_addr + (p - r.guest_phys_addr)
  BY <1>1, <1>a, <1>7, RangeMaps, Zenon DEF Old
<1> QED
  BY <1>4, <1>6, <1>7, <1>8, Zenon

(* A page of RAM that was not logged when it was added is in a region of   *)
(* the array.                                                              *)
LEMMA PageIsMapped ==
    ASSUME MemInv, ~updating, NEW p \in Pages, view[p].ram # None, p \notin skipped
    PROVE  \E k \in DOMAIN mem : p \in PagesOf(mem[k])
<1>1. TypeOK /\ Sound(mem) /\ view \in Views /\ Present = Old
  BY Zenon DEF MemInv, TypeOK, Present
<1>2. PICK r \in Old : p \in PagesOf(r)
  BY <1>1, RangeOfPage, Zenon DEF Old
<1>3. /\ view[p].ram = r.userspace_addr + (p - r.guest_phys_addr)
      /\ view[p].ram \in Host
  BY <1>1, <1>2, RangeMaps, Zenon DEF Old
<1>4. p \in Int /\ view[p].ram \in Int
  BY <1>3, SMT DEF Pages, Host
<1>5. Maps(r, p, view[p].ram)
  BY <1>2, <1>3, Zenon DEF Maps, PagesOf
<1>6. Covers(mem, p, view[p].ram)
  BY <1>1, <1>4, <1>5, Zenon DEF MemInv, CoverInv
<1>7. DOMAIN mem = 1..Len(mem)
  BY <1>1, SMT DEF Sound
<1> QED
  BY <1>6, <1>7, Zenon DEF Covers, Maps, PagesOf

(* Between two updates the array maps exactly the RAM of the guest whose   *)
(* range was not logged when it was added, each page to the place where    *)
(* QEMU has it, after any number of splits, shifts and merges and however  *)
(* often logging was turned on and off.                                    *)
THEOREM ArrayMapsView == Spec => []MapsView
<1>1. MemInv => MapsView
  <2> SUFFICES ASSUME MemInv, ~updating, NEW p \in Pages
               PROVE  MappedBy(mem)[p] = IF p \in skipped THEN None ELSE view[p].ram
    BY Zenon DEF MapsView, MappedBy
  <2> DEFINE at == {k \in DOMAIN mem : p \in PagesOf(mem[k])}
             j  == CHOOSE k \in at : TRUE
  <2>1. MappedBy(mem)[p] = IF at = {} THEN None
                           ELSE mem[j].userspace_addr + p - mem[j].guest_phys_addr
    BY Zenon DEF MappedBy
  <2>2. CASE at = {}
    <3>1. ~(view[p].ram # None /\ p \notin skipped)
      BY <2>2, PageIsMapped, Zenon
    <3> QED
      BY <2>1, <2>2, <3>1, Zenon
  <2>3. CASE at # {}
    <3>1. j \in at
      BY <2>3, Zenon
    <3>2. /\ mem[j].userspace_addr + p - mem[j].guest_phys_addr = view[p].ram
          /\ p \notin skipped
      BY <3>1, RegionMapsView, Zenon
    <3> QED
      BY <2>1, <2>3, <3>2, Zenon
  <2> QED
    BY <2>2, <2>3, Zenon
<1> QED
  BY <1>1, MemInvariant, PTL

(* No two regions of the array overlap or could be merged, also between    *)
(* two calls of one update.                                                *)
THEOREM ArrayNonOverlapping == Spec => []NonOverlapping
<1>1. MemInv => NonOverlapping
  <2> SUFFICES ASSUME MemInv, NEW j \in DOMAIN mem, NEW k \in DOMAIN mem, j # k
               PROVE  ~ranges_overlap(mem[j], mem[k]) /\ ~Adjacent(mem[j], mem[k])
    BY Zenon DEF NonOverlapping
  <2>1. Sound(mem)
    BY Zenon DEF MemInv
  <2>2. j \in 1..Len(mem) /\ k \in 1..Len(mem)
    BY <2>1, SMT DEF Sound
  <2> QED
    BY <2>1, <2>2, Zenon DEF Sound, Apart
<1> QED
  BY <1>1, MemInvariant, PTL

(* The section of the next call is one of the layouts', and while sections *)
(* are added it has no page in the array.                                  *)
LEMMA NextSection ==
    ASSUME MemInv, Pending # {}
    PROVE  /\ Sound(mem) /\ Inside(Lowest(Pending))
           /\ dels = {} => Clear(mem, Lowest(Pending))
<1> DEFINE s == Lowest(Pending)
<1>1. TypeOK /\ Sound(mem) /\ dels \subseteq Region /\ adds \subseteq Region
  BY Zenon DEF MemInv, TypeOK
<1>2. dels \cup adds \subseteq Old \cup New
  BY Zenon DEF MemInv, PassInv, Gone, Fresh
<1>3. Pending \subseteq Region /\ Pending \subseteq dels \cup adds /\ (dels = {} => Pending = adds)
  BY <1>1, Zenon DEF Pending
<1>4. s \in Pending
  BY <1>3, LowestIn, Zenon
<1> HIDE DEF s
<1>5. Inside(s)
  BY <1>1, <1>2, <1>3, <1>4, OldNew, Zenon
<1>6. dels = {} => Clear(mem, s)
  BY <1>3, <1>4, AddClear, Zenon
<1> QED
  BY <1>1, <1>5, <1>6, Zenon DEF s

(* Of regions that do not overlap at most one sticks out of the range in   *)
(* front and one behind, and one that does both is the only one the range  *)
(* overlaps.                                                               *)
LEMMA UnassignAssertsHold ==
    ASSUME NEW m, Sound(m), NEW s, Inside(s)
    PROVE  UnassignAsserts(m, s)
<1>1. DOMAIN m = 1..Len(m)
  BY DEF Sound
<1>2. Numbers(s) /\ s \in Span
  BY InsideNumbers, Zenon DEF Numbers
<1>3. ASSUME NEW j \in DOMAIN m, NEW k \in DOMAIN m,
             ranges_overlap(m[j], s), ranges_overlap(m[k], s),
             \/ HasFront(m[j], s) /\ HasFront(m[k], s)
             \/ HasBehind(m[j], s) /\ HasBehind(m[k], s)
             \/ HasFront(m[k], s) /\ HasBehind(m[k], s)
      PROVE  j = k
  <2>1. Inside(m[j]) /\ Inside(m[k]) /\ (j # k => ~ranges_overlap(m[j], m[k]))
    BY <1>1, Zenon DEF Sound, Apart
  <2>2. Numbers(m[j]) /\ m[j] \in Span /\ Numbers(m[k]) /\ m[k] \in Span
    BY <2>1, InsideNumbers, ZenonT(60) DEF Numbers
  <2>3. ranges_overlap(m[j], m[k])
    BY <1>2, <1>3, <2>2, SMT DEF ranges_overlap, HasFront, HasBehind, LastPage, Span, Numbers
  <2> QED
    BY <2>1, <2>3, Zenon
<1> DEFINE hit == {k \in DOMAIN m : ranges_overlap(m[k], s)}
<1>4. /\ \A j, k \in hit : HasFront(m[j], s) /\ HasFront(m[k], s) => j = k
      /\ \A j, k \in hit : HasBehind(m[j], s) /\ HasBehind(m[k], s) => j = k
      /\ \A j, k \in hit : HasFront(m[k], s) /\ HasBehind(m[k], s) => j = k
  BY <1>3, Zenon
<1>5. \A k \in hit : HasFront(m[k], s) /\ HasBehind(m[k], s) => hit = {k}
  <2> HIDE DEF hit
  <2> QED
    BY <1>4, Zenon
<1> QED
  BY <1>4, <1>5, Zenon DEF UnassignAsserts

(* No assertion of vhost_dev_unassign_memory or vhost_dev_assign_memory    *)
(* fails for the next section the memory core passes on.                   *)
THEOREM ArrayAssertionsHold == Spec => []AssertionsHold
<1>1. MemInv => AssertionsHold
  <2> SUFFICES ASSUME MemInv, Pending # {}
               PROVE  /\ UnassignAsserts(mem, Lowest(Pending))
                      /\ AssignAsserts(Unassign(mem, Lowest(Pending)), Lowest(Pending))
    BY Zenon DEF AssertionsHold
  <2> DEFINE s == Lowest(Pending)
  <2>1. Sound(mem) /\ Inside(s)
    BY NextSection, Zenon
  <2> HIDE DEF s
  <2>2. UnassignAsserts(mem, s)
    BY <2>1, UnassignAssertsHold, Zenon
  <2> DEFINE u == Unassign(mem, s)
  <2>3. Sound(u) /\ Clear(u, s)
    BY <2>1, UnassignFacts, Zenon
  <2> HIDE DEF u
  <2>4. DOMAIN u = 1..Len(u)
    BY <2>3, SMT DEF Sound
  <2>5. AssignAsserts(u, s)
    BY <2>3, <2>4, Zenon DEF AssignAsserts, Clear
  <2> QED
    BY <2>2, <2>5, Zenon DEF s, u
<1> QED
  BY <1>1, MemInvariant, PTL

(* The array never outgrows the room for one more region, neither while a  *)
(* region is split nor before regions are merged.                          *)
THEOREM ArrayFitsAllocation == Spec => []FitsAllocation
<1>1. MemInv => FitsAllocation
  <2> SUFFICES ASSUME MemInv, Pending # {}
               PROVE  /\ Len(Unassign(mem, Lowest(Pending))) <= Slots
                      /\ dels = {} =>
                           Len(Assign(Unassign(mem, Lowest(Pending)), Lowest(Pending))) <= Slots
    BY Zenon DEF FitsAllocation
  <2> DEFINE s == Lowest(Pending)
  <2>1. Sound(mem) /\ Inside(s) /\ (dels = {} => Clear(mem, s))
    BY NextSection, Zenon
  <2> HIDE DEF s
  <2> DEFINE u == Unassign(mem, s)
  <2>2. /\ Sound(u) /\ Clear(u, s) /\ Len(u) <= Len(mem) + 1
        /\ Clear(mem, s) => Len(u) <= Len(mem)
    BY <2>1, UnassignFacts, Zenon
  <2> HIDE DEF u
  <2>3. Sound(Assign(u, s)) /\ Len(Assign(u, s)) <= Len(u) + 1
    BY <2>1, <2>2, AssignFacts, Zenon
  <2> DEFINE w == Assign(u, s)
  <2>4. Len(mem) \in Nat /\ Len(u) \in Nat /\ Len(w) \in Nat
    BY <2>1, <2>2, <2>3 DEF Sound
  <2> HIDE DEF w
  <2>5. Len(w) <= Len(u) + 1
    BY <2>3, Zenon DEF w
  <2>6. Len(u) <= Slots /\ (dels = {} => Len(w) <= Slots)
    <3>1. Len(u) <= Slots /\ (Len(u) <= Len(mem) => Len(w) <= Slots)
      BY <2>2, <2>4, <2>5, SMTT(60) DEF Slots
    <3> QED
      BY <2>1, <2>2, <3>1, Zenon
  <2> QED
    BY <2>6, Zenon DEF s, u, w
<1> QED
  BY <1>1, MemInvariant, PTL

(* The ring of a running device is in the RAM it was mapped to when the    *)
(* device was started, whatever the layout has become since, unless its    *)
(* page was last added while it was logged.                                *)
THEOREM DeviceRingStaysMapped == Spec => []RingStaysMapped
<1>1. MemInv => RingStaysMapped
  BY Zenon DEF MemInv, RingInv, Touched, RingStaysMapped
<1> QED
  BY <1>1, MemInvariant, PTL

(* Between two updates a running device has the current table.             *)
THEOREM DeviceTableIsCurrent == Spec => []TableIsCurrent
<1>1. MemInv => TableIsCurrent
  BY Zenon DEF MemInv, TableInv, TableIsCurrent
<1> QED
  BY <1>1, MemInvariant, PTL

(* The array, the layouts and the device's table keep their types: what    *)
(* the two loops leave is again a sequence of regions.                     *)
THEOREM MemMapTypeCorrect == Spec => []TypeOK
<1>1. MemInv => TypeOK
  BY Zenon DEF MemInv
<1> QED
  BY <1>1, MemInvariant, PTL
=============================================================================
