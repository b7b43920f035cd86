------------------------- MODULE GuestMemoryProofs -------------------------
(***************************************************************************)
(* Proofs about the server's memory table, for every list of RAM blocks,   *)
(* every number of regions and every mmap that fails: a search that is not *)
(* disturbed is right, and one that only the same table disturbs leads to  *)
(* no memory of another address.                                           *)
(***************************************************************************)
EXTENDS GuestMemory, WellFoundedInduction, TLAPS

-----------------------------------------------------------------------------
(* Induction and loops.                                                    *)

(* A set of numbers that is not empty has a least member.                  *)
LEMMA LeastNumber ==
    ASSUME NEW S, S \subseteq Nat, S # {}
    PROVE  \E x \in S : \A y \in S : x <= y
<1>1. \E x \in S : \A y \in S : ~(<<y, x>> \in OpToRel(<, Nat))
  BY NatLessThanWellFounded, WFMin, Zenon
<1>2. \E x \in S : \A y \in S : ~(<<y, x>> \in {ss \in Nat \X Nat : ss[1] < ss[2]})
  BY <1>1, Zenon DEF OpToRel
<1>3. PICK x \in S : \A y \in S : ~(<<y, x>> \in {ss \in Nat \X Nat : ss[1] < ss[2]})
  BY <1>2, Zenon
<1>4. ASSUME NEW y \in S PROVE x <= y
  <2>1. x \in Nat /\ y \in Nat /\ <<y, x>> \in Nat \X Nat
    OBVIOUS
  <2>2. <<y, x>>[1] = y /\ <<y, x>>[2] = x
    OBVIOUS
  <2> QED
    BY <1>3, <2>1, <2>2
<1> QED
  BY <1>4, Zenon

(* What holds before a loop and is kept by each of its N rounds holds after *)
(* every round.                                                            *)
LEMMA BoundedInduction ==
    ASSUME NEW N \in Nat, NEW S, 0 \in S,
           \A n \in 0..N : n # N /\ n \in S => n + 1 \in S
    PROVE  \A n \in 0..N : n \in S
<1> DEFINE T == {n \in 0..N : n \notin S}
<1> SUFFICES ASSUME T # {} PROVE FALSE
  OBVIOUS
<1>1. PICK x \in T : \A y \in T : x <= y
  <2>1. T \subseteq Nat
    OBVIOUS
  <2> QED
    BY <2>1, LeastNumber, Zenon
<1>2. x \in 0..N /\ x # 0
  BY <1>1
<1>3. x - 1 \in 0..N /\ x - 1 # N /\ x - 1 + 1 = x
  BY <1>2
<1>4. x - 1 \in S
  BY <1>1, <1>3
<1> QED
  BY <1>1, <1>3, <1>4, Zenon

(* Append puts one member behind the others.                                *)
LEMMA Appended ==
    ASSUME NEW V, NEW q \in Seq(V), NEW e \in V
    PROVE  /\ Append(q, e) \in Seq(V) /\ Len(Append(q, e)) = Len(q) + 1
           /\ Append(q, e)[Len(q) + 1] = e
           /\ \A k \in 1..Len(q) : Append(q, e)[k] = q[k]
  OBVIOUS

\* The message after each block of the loop over ram_list.blocks.
TableLoop(b, N, f) ==
    f = [n \in 0..N |->
           IF n = 0 THEN <<>>
           ELSE IF b[n].fd THEN Append(f[n - 1], RegionOf(b[n])) ELSE f[n - 1]]

(* What one round of the loop does.                                         *)
LEMMA TableRound ==
    ASSUME NEW b, NEW N \in Nat, NEW f, TableLoop(b, N, f)
    PROVE  /\ f[0] = <<>>
           /\ \A n \in 0..N : n # N =>
                f[n + 1] = IF b[n + 1].fd THEN Append(f[n], RegionOf(b[n + 1])) ELSE f[n]
<1>1. ASSUME NEW k \in 0..N
      PROVE  /\ k = 0 => f[k] = <<>>
             /\ k # 0 /\ b[k].fd => f[k] = Append(f[k - 1], RegionOf(b[k]))
             /\ k # 0 /\ ~b[k].fd => f[k] = f[k - 1]
  BY Zenon DEF TableLoop
<1>2. ASSUME NEW n \in 0..N, n # N
      PROVE  f[n + 1] = IF b[n + 1].fd THEN Append(f[n], RegionOf(b[n + 1])) ELSE f[n]
  <2>1. PICK k \in 0..N : k = n + 1 /\ k # 0 /\ k - 1 = n
    BY <1>2
  <2> QED
    BY <1>1, <2>1, Zenon
<1>3. 0 \in 0..N
  OBVIOUS
<1> QED
  BY <1>1, <1>2, <1>3, Zenon

(* The loop runs to its end.                                                *)
LEMMA TableRuns ==
    ASSUME NEW b, NEW N \in Nat
    PROVE  \E f : TableLoop(b, N, f)
<1> DEFINE S == {n \in 0..N : \E f : TableLoop(b, n, f)}
<1>1. 0 \in S
  <2> DEFINE z == [n \in 0..0 |-> <<>>]
  <2>1. TableLoop(b, 0, z)
    BY DEF TableLoop
  <2> QED
    BY <2>1
<1>2. ASSUME NEW n \in 0..N, n # N, n \in S PROVE n + 1 \in S
  <2>1. PICK f : TableLoop(b, n, f)
    BY <1>2
  <2> DEFINE last == IF b[n + 1].fd THEN Append(f[n], RegionOf(b[n + 1])) ELSE f[n]
             g == [k \in 0..(n + 1) |-> IF k = n + 1 THEN last ELSE f[k]]
             h == [k \in 0..(n + 1) |->
                     IF k = 0 THEN <<>>
                     ELSE IF b[k].fd THEN Append(g[k - 1], RegionOf(b[k])) ELSE g[k - 1]]
  <2>2. ASSUME NEW k \in 0..(n + 1) PROVE g[k] = h[k]
    <3>1. CASE k = n + 1
      <4>1. n + 1 # 0 /\ n + 1 - 1 = n /\ n # n + 1 /\ n \in 0..(n + 1)
        OBVIOUS
      <4>2. g[n] = f[n] /\ g[n + 1] = last
        BY <4>1
      <4>3. h[n + 1] = IF b[n + 1].fd THEN Append(g[n], RegionOf(b[n + 1])) ELSE g[n]
        BY <4>1
      <4> QED
        BY <3>1, <4>2, <4>3, Zenon
    <3>2. CASE k # n + 1
      <4>1. k \in 0..n
        BY <3>2
      <4>2. g[k] = f[k]
        BY <3>2
      <4>3. f[k] = IF k = 0 THEN <<>>
                   ELSE IF b[k].fd THEN Append(f[k - 1], RegionOf(b[k])) ELSE f[k - 1]
        BY <2>1, <4>1, Zenon DEF TableLoop
      <4>4. k # 0 => k - 1 \in 0..(n + 1) /\ k - 1 # n + 1
        BY <4>1
      <4>5. k # 0 => g[k - 1] = f[k - 1]
        BY <4>4, Zenon
      <4>6. h[k] = IF k = 0 THEN <<>>
                   ELSE IF b[k].fd THEN Append(g[k - 1], RegionOf(b[k])) ELSE g[k - 1]
        BY Zenon
      <4> QED
        BY <4>2, <4>3, <4>5, <4>6, Zenon
    <3> QED
      BY <3>1, <3>2, Zenon
  <2>3. g = h
    BY <2>2, Zenon
  <2>4. TableLoop(b, n + 1, g)
    BY <2>3, Zenon DEF TableLoop
  <2>5. n + 1 \in 0..N
    BY <1>2
  <2> QED
    BY <2>4, <2>5, Zenon
<1>3. \A n \in 0..N : n \in S
  <2> HIDE DEF S
  <2> QED
    BY <1>1, <1>2, BoundedInduction, Zenon
<1>4. N \in 0..N
  OBVIOUS
<1> QED
  BY <1>3, <1>4, Zenon

(* A block becomes a region, field by field.                                *)
LEMMA RegionFields ==
    ASSUME NEW b \in Block
    PROVE  /\ RegionOf(b) \in Region
           /\ RegionOf(b).guest_phys_addr = b.offset /\ RegionOf(b).memory_size = b.length
           /\ RegionOf(b).userspace_addr = b.host /\ RegionOf(b).mmap_addr = b.memory
           /\ RegionOf(b).mmap_addr > 0
  BY DEF Block, RegionOf, Region, FieldNames, Keys

\* q is the message for the first n blocks.
MessageOf(b, n, q) ==
    /\ q \in Seq(Region)
    /\ \A j \in 1..Len(q) : \E k \in 1..Len(b) : q[j] = RegionOf(b[k])
    /\ n = 0 => Len(q) = 0
    /\ n # 0 /\ b[1].fd => Len(q) >= 1 /\ q[1] = RegionOf(b[1])

(* One more block.                                                          *)
LEMMA MessageStep ==
    ASSUME NEW b \in Seq(Block), NEW n \in Nat, n + 1 \in 1..Len(b), NEW q, MessageOf(b, n, q),
           NEW r, r = IF b[n + 1].fd THEN Append(q, RegionOf(b[n + 1])) ELSE q
    PROVE  MessageOf(b, n + 1, r)
<1>0. Len(q) \in Nat /\ q \in Seq(Region) /\ b[n + 1] \in Block
  BY DEF MessageOf
<1>1. CASE ~b[n + 1].fd
  <2>1. r = q
    BY <1>1, Zenon
  <2>2. b[1].fd => n # 0
    BY <1>1
  <2>3. n + 1 # 0
    OBVIOUS
  <2> QED
    BY <2>1, <2>2, <2>3, Zenon DEF MessageOf
<1>2. CASE b[n + 1].fd
  <2> DEFINE e == RegionOf(b[n + 1])
  <2>1. e \in Region
    BY <1>0, RegionFields, Zenon
  <2>2. r = Append(q, e)
    BY <1>2, Zenon
  <2> HIDE DEF e
  <2>3. /\ r \in Seq(Region) /\ Len(r) = Len(q) + 1 /\ r[Len(q) + 1] = e
        /\ \A k \in 1..Len(q) : r[k] = q[k]
    BY <1>0, <2>1, <2>2, Appended, SMT
  <2>4. ASSUME NEW j \in 1..Len(r) PROVE \E k \in 1..Len(b) : r[j] = RegionOf(b[k])
    <3>1. CASE j = Len(q) + 1
      BY <2>3, <3>1, Zenon DEF e
    <3>2. CASE j # Len(q) + 1
      <4>1. j \in 1..Len(q)
        BY <1>0, <2>3, <3>2
      <4>2. r[j] = q[j]
        BY <2>3, <4>1, Zenon
      <4>3. \E k \in 1..Len(b) : q[j] = RegionOf(b[k])
        BY <4>1, Zenon DEF MessageOf
      <4> QED
        BY <4>2, <4>3, Zenon
    <3> QED
      BY <3>1, <3>2, Zenon
  <2>5. ASSUME b[1].fd PROVE Len(r) >= 1 /\ r[1] = RegionOf(b[1])
    <3>1. Len(r) >= 1
      BY <1>0, <2>3, SMT
    <3>2. CASE n = 0
      <4>1. Len(q) = 0 /\ n + 1 = 1 /\ Len(q) + 1 = 1
        BY <3>2, SMT DEF MessageOf
      <4>2. r[1] = e
        BY <2>3, <4>1, SMT
      <4>3. e = RegionOf(b[1])
        BY <4>1, Zenon DEF e
      <4> QED
        BY <3>1, <4>2, <4>3, Zenon
    <3>3. CASE n # 0
      <4>1. 1 \in 1..Len(q) /\ q[1] = RegionOf(b[1])
        BY <1>0, <2>5, <3>3 DEF MessageOf
      <4> QED
        BY <2>3, <3>1, <4>1, Zenon
    <3> QED
      BY <3>2, <3>3, Zenon
  <2>6. n + 1 # 0
    OBVIOUS
  <2> QED
    BY <2>3, <2>4, <2>5, <2>6, Zenon DEF MessageOf
<1> QED
  BY <1>1, <1>2, Zenon

(* The message has the regions of blocks, and the region of the first block *)
(* is the first if that block has a descriptor.                             *)
LEMMA TableFacts ==
    ASSUME NEW b \in Seq(Block)
    PROVE  /\ MemTable(b) \in Seq(Region)
           /\ \A j \in 1..Len(MemTable(b)) : \E k \in 1..Len(b) : MemTable(b)[j] = RegionOf(b[k])
           /\ Len(b) # 0 /\ b[1].fd => Len(MemTable(b)) >= 1 /\ MemTable(b)[1] = RegionOf(b[1])
<1> DEFINE N == Len(b)
           f == CHOOSE f : TableLoop(b, N, f)
           S == {n \in 0..N : MessageOf(b, n, f[n])}
<1>0. N \in Nat
  OBVIOUS
<1>1. TableLoop(b, N, f)
  BY <1>0, TableRuns, Zenon
<1>2. MemTable(b) = f[N]
  BY Zenon DEF MemTable, TableLoop
<1> HIDE DEF f, N
<1>3. /\ f[0] = <<>>
      /\ \A n \in 0..N : n # N =>
           f[n + 1] = IF b[n + 1].fd THEN Append(f[n], RegionOf(b[n + 1])) ELSE f[n]
  BY <1>0, <1>1, TableRound, Zenon
<1>4. 0 \in S
  <2>1. f[0] \in Seq(Region) /\ Len(f[0]) = 0 /\ 1..Len(f[0]) = {}
    BY <1>3, SMT
  <2>2. 0 \in 0..N
    BY <1>0
  <2> QED
    BY <2>1, <2>2, Zenon DEF MessageOf
<1>5. ASSUME NEW n \in 0..N, n # N, n \in S PROVE n + 1 \in S
  <2>1. n \in Nat /\ n + 1 \in 1..Len(b) /\ n + 1 \in 0..N
    BY <1>0, <1>5, SMT DEF N
  <2>2. MessageOf(b, n, f[n])
    BY <1>5, Zenon
  <2>3. MessageOf(b, n + 1, f[n + 1])
    BY <1>3, <1>5, <2>1, <2>2, MessageStep, Zenon
  <2> QED
    BY <2>1, <2>3, Zenon
<1>6. \A n \in 0..N : n \in S
  <2> HIDE DEF S
  <2> QED
    BY <1>0, <1>4, <1>5, BoundedInduction, Zenon
<1>7. N \in 0..N
  BY <1>0
<1>8. MessageOf(b, N, f[N])
  BY <1>6, <1>7, Zenon
<1> QED
  BY <1>2, <1>8, Zenon DEF MessageOf, N

-----------------------------------------------------------------------------
(* The inductive invariant.                                                 *)

\* Field n of a region is what a table says, or the mmap of the region failed.
Stored(r, q, n) == r[n] = q[n] \/ (n = "mmap_addr" /\ r[n] = 0)

\* Region r is region q of a table, mapped or not.
Like(r, q) == \A n \in FieldNames : Stored(r, q, n)

\* The regions counted so far are those of the message that is being handled,
\* or those of the last table; the same table sent once more tears none of them.
Filled ==
    /\ idx = 0 => /\ nregions = Len(table)
                  /\ \A k \in 1..Len(table) : Like(regions[k], table[k])
    /\ idx # 0 => /\ nregions = idx - 1
                  /\ \A k \in 1..(idx - 1) : Like(regions[k], msg[k])
                  /\ \A f \in 1..(field - 1) : Stored(regions[idx], msg[idx], Fields[f])
    /\ idx # 0 /\ msg = table => \A k \in 1..Len(table) : Like(regions[k], table[k])

\* The tables are tables of QEMU, or there has been none.
Sent == {<<>>} \cup {MemTable(b) : b \in BlockLists}
Known == table \in Sent /\ msg \in Sent

\* Where a search looks at the fields of a region.
AtRegion == {"low", "high", "size", "load", "sub"}
Places   == AtRegion \cup {"done"}

\* What an undisturbed search s has found out about the regions.
QuietOK(s) ==
    /\ s.pc # "done" =>
         /\ s.result = 0 /\ s.idx <= nregions + 1
         /\ \A k \in 1..(s.idx - 1) : ~Within(regions[k], s.key, s.addr)
    /\ s.pc \in AtRegion => s.idx <= nregions
    /\ s.pc \in {"high", "size"} => regions[s.idx][s.key] <= s.addr
    /\ s.pc = "size" => s.temp = regions[s.idx][s.key]
    /\ s.pc \in {"load", "sub"} => Within(regions[s.idx], s.key, s.addr)
    /\ s.pc = "sub" => s.temp = regions[s.idx].mmap_addr
    /\ s.pc = "done" =>
         \/ s.result = 0 /\ \A k \in 1..nregions : ~Within(regions[k], s.key, s.addr)
         \/ /\ s.idx <= nregions /\ Within(regions[s.idx], s.key, s.addr)
            /\ s.result = regions[s.idx].mmap_addr + s.addr - regions[s.idx][s.key]
            /\ \A k \in 1..(s.idx - 1) : ~Within(regions[k], s.key, s.addr)

\* What a search s has found out that ran into no other table than the last one.
SameOK(s) ==
    /\ s.pc # "done" => s.result = 0
    /\ s.pc \in AtRegion => s.idx <= Len(table)
    /\ s.pc \in {"high", "size"} => table[s.idx][s.key] <= s.addr
    /\ s.pc = "size" => s.temp = table[s.idx][s.key]
    /\ s.pc \in {"load", "sub"} => Within(table[s.idx], s.key, s.addr)
    /\ s.pc = "sub" => s.temp = table[s.idx].mmap_addr \/ s.temp = 0
    /\ s.pc = "done" /\ s.result # 0 =>
         /\ s.idx <= Len(table) /\ Within(table[s.idx], s.key, s.addr)
         /\ \/ s.result = table[s.idx].mmap_addr + s.addr - table[s.idx][s.key]
            \/ s.result = s.addr - table[s.idx][s.key]

SearchOK(s) ==
    s.pc # "idle" =>
        /\ s.pc \in AtRegion => s.idx <= MaxRegions
        /\ s.quiet => idx = 0 /\ QuietOK(s)
        /\ s.same => (idx = 0 \/ msg = table) /\ SameOK(s)

Searches == \A t \in Threads : SearchOK(map[t])

MemInv == TypeOK /\ Known /\ Filled /\ Searches

SearchType == [pc : {"idle", "test", "low", "high", "size", "load", "sub", "done"},
               key : Keys, addr : Nat, idx : 1..(MaxRegions + 1), temp : Nat,
               result : Int, quiet : BOOLEAN, same : BOOLEAN]

(* The stores of _set_mem_table to a region are the four fields.            *)
LEMMA FieldsOfRegion ==
    /\ Len(Fields) = 4
    /\ \A f \in 1..4 : Fields[f] \in FieldNames
    /\ \A n \in FieldNames : \E f \in 1..4 : Fields[f] = n
    /\ Fields[4] = "mmap_addr" /\ \A f \in 1..4 : Fields[f] = "mmap_addr" => f = 4
BY DEF Fields, FieldNames, Keys

(* A table QEMU sends has regions, and room for them.                       *)
LEMMA SentFacts ==
    ASSUME NEW m \in Sent
    PROVE  /\ m \in Seq(Region) /\ Len(m) \in Nat /\ Len(m) <= MaxRegions /\ DOMAIN m = 1..Len(m)
           /\ \A k \in 1..Len(m) : m[k] \in Region /\ m[k].mmap_addr > 0
<1>1. CASE m = <<>>
  BY <1>1, GuestMemoryAssumption, SMT
<1>2. CASE m # <<>>
  <2>1. PICK b \in BlockLists : m = MemTable(b)
    BY <1>2, Zenon DEF Sent
  <2>2. b \in Seq(Block) /\ Len(m) <= MaxRegions
    BY <2>1, BlocksAssumption, Zenon
  <2>3. /\ m \in Seq(Region)
        /\ \A j \in 1..Len(m) : \E k \in 1..Len(b) : m[j] = RegionOf(b[k])
    BY <2>1, <2>2, TableFacts, Zenon
  <2>4. \A k \in 1..Len(b) : b[k] \in Block
    BY <2>2
  <2>5. \A k \in 1..Len(m) : m[k] \in Region /\ m[k].mmap_addr > 0
    BY <2>3, <2>4, RegionFields, Zenon
  <2>6. Len(m) \in Nat /\ DOMAIN m = 1..Len(m)
    BY <2>3
  <2> QED
    BY <2>2, <2>3, <2>5, <2>6, Zenon
<1> QED
  BY <1>1, <1>2, Zenon

-----------------------------------------------------------------------------
(* _set_mem_table keeps the invariant.                                      *)

(* Initially no region counts and no search runs.                           *)
LEMMA InitMem == Init => MemInv
<1> SUFFICES ASSUME Init PROVE MemInv
  OBVIOUS
<1> USE GuestMemoryAssumption
<1>1. regions \in [Slots -> Region]
  BY DEF Init, Region, FieldNames, Keys, Slots
<1>2. map \in [Threads -> SearchType]
  BY DEF Init, NoSearch, SearchType, Keys
<1>3. TypeOK
  BY <1>1, <1>2, FieldsOfRegion DEF Init, TypeOK, SearchType
<1>4. Filled
  BY DEF Init, Filled
<1>5. Searches
  <2>1. \A t \in Threads : map[t].pc = "idle"
    BY DEF Init, NoSearch
  <2> QED
    BY <2>1, Zenon DEF Searches, SearchOK
<1>6. Known
  BY Zenon DEF Init, Known, Sent
<1> QED
  BY <1>3, <1>4, <1>5, <1>6, Zenon DEF MemInv

(* A message empties the table; from then on the transport thread's search  *)
(* is not quiet any more.                                                   *)
LEMMA SetMemTableStep ==
    ASSUME MemInv, NEW b \in BlockLists, SetMemTable(b)
    PROVE  MemInv'
<1> DEFINE m == MemTable(b)
<1>1. m \in Sent
  BY Zenon DEF Sent
<1>2. m \in Seq(Region) /\ Len(m) <= MaxRegions /\ Len(m) \in Nat
  BY <1>1, SentFacts, Zenon
<1>3. /\ msg' = m /\ idx' = 1 /\ field' = 1 /\ nregions' = 0 /\ m # <<>> /\ idx = 0
      /\ regions' = regions /\ table' = table /\ ~Searching("main")
  BY Zenon DEF SetMemTable
<1> DEFINE s == [map["transport"] EXCEPT !.quiet = FALSE, !.same = @ /\ m = table]
<1>4. map' = [map EXCEPT !["transport"] = s]
  BY Zenon DEF SetMemTable
<1> HIDE DEF m
<1>5. map \in [Threads -> SearchType] /\ "transport" \in Threads /\ "main" \in Threads
  BY Zenon DEF MemInv, TypeOK, SearchType, Threads
<1>6. map["transport"] \in SearchType
  BY <1>5, Zenon
<1>7. s \in SearchType
  <2>1. (map["transport"].same /\ m = table) \in BOOLEAN
    BY <1>6, Zenon DEF SearchType
  <2> QED
    BY <1>6, <2>1, Zenon DEF SearchType
<1>8. /\ s.pc = map["transport"].pc /\ s.key = map["transport"].key
      /\ s.addr = map["transport"].addr /\ s.idx = map["transport"].idx
      /\ s.temp = map["transport"].temp /\ s.result = map["transport"].result /\ ~s.quiet
      /\ s.same => map["transport"].same /\ m = table
  BY <1>6, Zenon DEF SearchType
<1> HIDE DEF s
<1>9. /\ map' \in [Threads -> SearchType] /\ map'["transport"] = s
      /\ \A t \in Threads : t # "transport" => map'[t] = map[t] /\ t = "main"
  BY <1>4, <1>5, <1>7, Zenon DEF Threads
<1>10. TypeOK'
  <2>1. Len(m) >= 1
    BY <1>2, <1>3
  <2>2. idx' \in 0..Len(m) /\ field' \in 1..(Len(Fields) + 1) /\ nregions' \in 0..MaxRegions
    BY <1>2, <1>3, <2>1, FieldsOfRegion, GuestMemoryAssumption
  <2> QED
    BY <1>2, <1>3, <1>9, <2>2, Zenon DEF MemInv, TypeOK, SearchType
<1>11. Filled'
  <2>1. 1..(1 - 1) = {} /\ 0 = 1 - 1 /\ 1 # 0
    OBVIOUS
  <2>2. \A k \in 1..Len(table) : Like(regions[k], table[k])
    BY <1>3, Zenon DEF MemInv, Filled
  <2> QED
    BY <1>3, <2>1, <2>2, Zenon DEF Filled, Like, Stored
<1>12. Known'
  BY <1>1, <1>3, Zenon DEF MemInv, Known, Sent
<1>13. ASSUME NEW t \in Threads PROVE SearchOK(map[t])'
  <2>1. CASE t = "transport"
    <3>1. SearchOK(map["transport"])
      BY <1>5, Zenon DEF MemInv, Searches
    <3> DEFINE u == map'["transport"]
    <3>2. /\ u.pc = map["transport"].pc /\ u.key = map["transport"].key
          /\ u.addr = map["transport"].addr /\ u.idx = map["transport"].idx
          /\ u.temp = map["transport"].temp /\ u.result = map["transport"].result /\ ~u.quiet
          /\ u.same => map["transport"].same /\ msg' = table'
      BY <1>3, <1>8, <1>9, Zenon
    <3> QED
      BY <1>3, <2>1, <3>1, <3>2, Zenon DEF SearchOK, SameOK
  <2>2. CASE t # "transport"
    <3>1. map'[t] = map["main"] /\ map["main"].pc = "idle"
      BY <1>3, <1>9, <2>2, Zenon DEF Searching
    <3> QED
      BY <3>1, Zenon DEF SearchOK
  <2> QED
    BY <2>1, <2>2, Zenon
<1> QED
  BY <1>10, <1>11, <1>12, <1>13, Zenon DEF MemInv, Searches

(* While a table is being filled there are no quiet searches, and of the    *)
(* others only those that know one table have something to keep.            *)
LEMMA DisturbedSearches ==
    ASSUME MemInv, idx # 0, map' = map,
           msg = table => table' = table /\ (idx' = 0 \/ msg' = table')
    PROVE  Searches'
<1> SUFFICES ASSUME NEW t \in Threads PROVE SearchOK(map[t])'
  BY Zenon DEF Searches
<1>1. SearchOK(map[t])
  BY Zenon DEF MemInv, Searches
<1> QED
  BY <1>1, Zenon DEF SearchOK, SameOK

(* A store to the region that is being filled changes no region that counts *)
(* and, when the table is the same as before, no field but mmap_addr.       *)
LEMMA StoreStep ==
    ASSUME MemInv, idx # 0, field <= 4, NEW x \in Nat,
           x = msg[idx][Fields[field]] \/ (Fields[field] = "mmap_addr" /\ x = 0),
           regions' = [regions EXCEPT ![idx] = [regions[idx] EXCEPT ![Fields[field]] = x]],
           field' = field + 1, UNCHANGED <<nregions, msg, idx, table, map>>
    PROVE  MemInv'
<1> DEFINE n == Fields[field]
           r == [regions[idx] EXCEPT ![n] = x]
<1>1. TypeOK /\ Filled /\ Known
  BY Zenon DEF MemInv
<1>2. msg \in Seq(Region) /\ Len(msg) \in Nat /\ Len(msg) <= MaxRegions
  BY <1>1, SentFacts, Zenon DEF Known
<1>3. field \in 1..4 /\ idx \in 1..Len(msg) /\ idx \in Slots /\ field' \in 1..5
  BY <1>1, <1>2, FieldsOfRegion, GuestMemoryAssumption, SMTT(60) DEF TypeOK, Slots
<1>4. n \in FieldNames /\ regions \in [Slots -> Region]
  BY <1>1, <1>3, FieldsOfRegion, Zenon DEF TypeOK
<1>5. regions[idx] \in [FieldNames -> Nat]
  BY <1>3, <1>4, Zenon DEF Region
<1> HIDE DEF n
<1>6. /\ r \in [FieldNames -> Nat] /\ r[n] = x
      /\ \A p \in FieldNames : p # n => r[p] = regions[idx][p]
  BY <1>4, <1>5, Zenon
<1>7. /\ regions' \in [Slots -> Region] /\ regions'[idx] = r
      /\ \A k \in Slots : k # idx => regions'[k] = regions[k]
  BY <1>3, <1>4, <1>6, Zenon DEF Region, n
<1> HIDE DEF r
<1>8. Stored(r, msg[idx], n)
  BY <1>6, Zenon DEF Stored, n
<1>9. TypeOK'
  <2>1. field' \in 1..(Len(Fields) + 1)
    BY <1>3, FieldsOfRegion
  <2> QED
    BY <1>1, <1>7, <2>1, Zenon DEF TypeOK
<1>10. \A k \in 1..(idx - 1) : k \in Slots /\ k # idx
  BY <1>2, <1>3, GuestMemoryAssumption DEF Slots
<1>11. ASSUME NEW f \in 1..field PROVE Stored(r, msg[idx], Fields[f])
  <2>1. f \in 1..4 /\ Fields[f] \in FieldNames /\ (f # field => f \in 1..(field - 1))
    BY <1>3, FieldsOfRegion
  <2>2. CASE Fields[f] = n
    BY <1>8, <2>2, Zenon
  <2>3. CASE Fields[f] # n
    <3>1. f \in 1..(field - 1)
      BY <2>1, <2>3, Zenon DEF n
    <3>2. Stored(regions[idx], msg[idx], Fields[f])
      BY <1>1, <3>1, Zenon DEF Filled
    <3> QED
      BY <1>6, <2>1, <2>3, <3>2, Zenon DEF Stored
  <2> QED
    BY <2>2, <2>3, Zenon
<1>12. ASSUME msg = table, NEW k \in 1..Len(table) PROVE Like(regions'[k], table[k])
  <2>1. Like(regions[k], table[k])
    BY <1>1, <1>12, Zenon DEF Filled
  <2>2. k \in Slots
    BY <1>2, <1>12, GuestMemoryAssumption DEF Slots
  <2>3. CASE k = idx
    <3>1. ASSUME NEW p \in FieldNames PROVE Stored(r, table[idx], p)
      <4>1. CASE p = n
        BY <1>8, <1>12, <4>1, Zenon
      <4>2. CASE p # n
        <5>1. Stored(regions[idx], table[idx], p)
          BY <2>1, <2>3, Zenon DEF Like
        <5> QED
          BY <1>6, <4>2, <5>1, Zenon DEF Stored
      <4> QED
        BY <4>1, <4>2, Zenon
    <3> QED
      BY <1>7, <2>3, <3>1, Zenon DEF Like
  <2>4. CASE k # idx
    BY <1>7, <2>1, <2>2, <2>4, Zenon
  <2> QED
    BY <2>3, <2>4, Zenon
<1>13. Filled'
  <2>1. field' - 1 = field
    BY <1>3
  <2>2. nregions' = idx' - 1
    BY <1>1, Zenon DEF Filled
  <2>3. \A k \in 1..(idx' - 1) : Like(regions'[k], msg'[k])
    BY <1>1, <1>7, <1>10, Zenon DEF Filled
  <2>4. \A f \in 1..(field' - 1) : Stored(regions'[idx'], msg'[idx'], Fields[f])
    BY <1>7, <1>11, <2>1, Zenon
  <2>5. idx' # 0 /\ (msg' = table' => msg = table) /\ table' = table
    BY Zenon
  <2> QED
    BY <1>12, <2>2, <2>3, <2>4, <2>5, Zenon DEF Filled
<1>14. Searches'
  BY DisturbedSearches, Zenon
<1>15. Known'
  BY <1>1, Zenon DEF Known, Sent
<1> QED
  BY <1>9, <1>13, <1>14, <1>15, Zenon DEF MemInv

(* The stores, of which the last is that of the mapping or of 0.            *)
LEMMA FieldStep ==
    ASSUME MemInv, StoreField \/ MapFailed
    PROVE  MemInv'
<1>1. /\ idx # 0 /\ field <= 4 /\ field' = field + 1
      /\ UNCHANGED <<nregions, msg, idx, table, map>>
  BY FieldsOfRegion, SMT DEF StoreField, MapFailed
<1>2. /\ msg \in Seq(Region) /\ Len(msg) \in Nat /\ idx \in 1..Len(msg) /\ field \in 1..4
  BY <1>1, FieldsOfRegion DEF MemInv, TypeOK
<1>3. msg[idx] \in Region /\ Fields[field] \in FieldNames
  BY <1>2, FieldsOfRegion
<1>4. CASE StoreField
  <2>1. regions' = [regions EXCEPT ![idx] =
                      [regions[idx] EXCEPT ![Fields[field]] = msg[idx][Fields[field]]]]
    BY <1>4, Zenon DEF StoreField
  <2>2. msg[idx][Fields[field]] \in Nat
    BY <1>3, Zenon DEF Region
  <2> QED
    BY <1>1, <2>1, <2>2, StoreStep, Zenon
<1>5. CASE MapFailed
  <2>1. Fields[field] = "mmap_addr"
    BY <1>5, FieldsOfRegion, Zenon DEF MapFailed
  <2>2. regions' = [regions EXCEPT ![idx] = [regions[idx] EXCEPT !["mmap_addr"] = 0]]
    BY <1>5, Zenon DEF MapFailed
  <2>3. regions' = [regions EXCEPT ![idx] = [regions[idx] EXCEPT ![Fields[field]] = 0]]
    BY <2>1, <2>2, Zenon
  <2>4. 0 \in Nat
    OBVIOUS
  <2> QED
    BY <1>1, <2>1, <2>3, <2>4, StoreStep, Zenon
<1> QED
  BY <1>4, <1>5, Zenon

(* When a region is counted all its fields have been stored; when it is the *)
(* last one the table is the message.                                       *)
LEMMA CountRegionStep ==
    ASSUME MemInv, CountRegion
    PROVE  MemInv'
<1>1. TypeOK /\ Filled /\ Known
  BY Zenon DEF MemInv
<1>2. msg \in Seq(Region) /\ Len(msg) \in Nat /\ Len(msg) <= MaxRegions
  BY <1>1, SentFacts, Zenon DEF Known
<1>3. /\ idx # 0 /\ field > Len(Fields) /\ nregions' = nregions + 1 /\ field' = 1
      /\ regions' = regions /\ map' = map
  BY Zenon DEF CountRegion
<1>4. /\ field = 5 /\ idx \in 1..Len(msg) /\ nregions' = idx /\ field - 1 = 4
      /\ nregions' \in 0..MaxRegions /\ field' \in 1..(Len(Fields) + 1)
  BY <1>1, <1>2, <1>3, FieldsOfRegion, GuestMemoryAssumption DEF TypeOK, Filled
<1>5. Like(regions[idx], msg[idx])
  BY <1>1, <1>3, <1>4, FieldsOfRegion, ZenonT(60) DEF Filled, Like
<1>6. \A k \in 1..idx : k # idx => k \in 1..(idx - 1)
  BY <1>4
<1>7. \A k \in 1..idx : Like(regions[k], msg[k])
  BY <1>1, <1>3, <1>5, <1>6, Zenon DEF Filled
<1>8. CASE idx < Len(msg)
  <2>1. idx' = idx + 1 /\ msg' = msg /\ table' = table
    BY <1>8, Zenon DEF CountRegion
  <2>2. idx' \in 0..Len(msg) /\ idx' # 0 /\ idx' - 1 = idx /\ 1..(field' - 1) = {}
    BY <1>2, <1>3, <1>4, <1>8, <2>1
  <2>3. TypeOK'
    BY <1>1, <1>3, <1>4, <2>1, <2>2, Zenon DEF TypeOK
  <2>4. Filled'
    BY <1>1, <1>3, <1>4, <1>7, <2>1, <2>2, Zenon DEF Filled
  <2>5. Searches' /\ Known'
    BY <1>1, <1>3, <2>1, DisturbedSearches, Zenon DEF Known, Sent
  <2> QED
    BY <2>3, <2>4, <2>5, Zenon DEF MemInv
<1>9. CASE ~(idx < Len(msg))
  <2>1. idx' = 0 /\ table' = msg /\ msg' = <<>>
    BY <1>9, Zenon DEF CountRegion
  <2>2. idx = Len(msg) /\ idx' \in 0..Len(<<>>) /\ <<>> \in Seq(Region) /\ Len(<<>>) <= MaxRegions
    BY <1>2, <1>4, <1>9, <2>1, GuestMemoryAssumption
  <2>3. TypeOK'
    BY <1>1, <1>2, <1>3, <1>4, <2>1, <2>2, Zenon DEF TypeOK
  <2>4. Filled'
    BY <1>3, <1>4, <1>7, <2>1, <2>2, Zenon DEF Filled
  <2>5. Searches'
    BY <1>3, <2>1, DisturbedSearches, Zenon
  <2>6. Known'
    BY <1>1, <2>1, Zenon DEF Known, Sent
  <2> QED
    BY <2>3, <2>4, <2>5, <2>6, Zenon DEF MemInv
<1> QED
  BY <1>8, <1>9, Zenon

-----------------------------------------------------------------------------
(* The searches keep the invariant.                                         *)

(* A step of thread t's search keeps the invariant when the search is then  *)
(* where the invariant wants it.                                            *)
LEMMA MapStep ==
    ASSUME MemInv, NEW t \in Threads, NEW s \in SearchType, SearchOK(s),
           map' = [map EXCEPT ![t] = s], UNCHANGED setting
    PROVE  MemInv'
<1>1. map \in [Threads -> SearchType]
  BY Zenon DEF MemInv, TypeOK, SearchType
<1>2. map' \in [Threads -> SearchType] /\ map'[t] = s /\ \A u \in Threads \ {t} : map'[u] = map[u]
  BY <1>1, Zenon
<1>3. /\ regions' = regions /\ nregions' = nregions /\ msg' = msg /\ idx' = idx
      /\ field' = field /\ table' = table
  BY Zenon DEF setting
<1>4. TypeOK' /\ Filled' /\ Known'
  BY <1>2, <1>3, Zenon DEF MemInv, TypeOK, SearchType, Filled, Known, Sent
<1>5. ASSUME NEW u \in Threads PROVE SearchOK(map[u])'
  <2>1. SearchOK(map'[u])
    BY <1>2, Zenon DEF MemInv, Searches
  <2> QED
    BY <1>3, <2>1, Zenon DEF SearchOK, QuietOK, SameOK
<1> QED
  BY <1>4, <1>5, Zenon DEF MemInv, Searches

(* A new search has looked at nothing.                                      *)
LEMMA MapAddrStep ==
    ASSUME MemInv, NEW t \in Threads, NEW key \in Keys, NEW addr \in Addrs, MapAddr(t, key, addr)
    PROVE  MemInv'
<1> DEFINE s == [pc |-> "test", key |-> key, addr |-> addr, idx |-> 1,
                 temp |-> 0, result |-> 0, quiet |-> idx = 0, same |-> idx = 0 \/ msg = table]
<1>1. s \in SearchType
  BY GuestMemoryAssumption DEF SearchType
<1>2. map' = [map EXCEPT ![t] = s] /\ UNCHANGED setting
  BY Zenon DEF MapAddr
<1>3. /\ s.pc = "test" /\ s.idx = 1 /\ s.result = 0 /\ s.quiet = (idx = 0)
      /\ s.same = (idx = 0 \/ msg = table)
  BY Zenon
<1> HIDE DEF s
<1>4. 1 <= nregions + 1 /\ 1..(1 - 1) = {}
  BY GuestMemoryAssumption DEF MemInv, TypeOK
<1>5. SearchOK(s)
  BY <1>3, <1>4, Zenon DEF SearchOK, QuietOK, SameOK, AtRegion
<1> QED
  BY <1>1, <1>2, <1>5, MapStep, Zenon

(* The region a search looks at.                                            *)
LEMMA LoadedRegion ==
    ASSUME MemInv, NEW t \in Threads, map[t].pc \in AtRegion
    PROVE  /\ map[t] \in SearchType /\ SearchOK(map[t]) /\ map[t].idx \in Slots
           /\ regions[map[t].idx] \in Region
           /\ map[t].same => /\ map[t].idx \in 1..Len(table) /\ table[map[t].idx] \in Region
                             /\ Like(regions[map[t].idx], table[map[t].idx])
<1>1. map[t] \in SearchType /\ SearchOK(map[t])
  BY Zenon DEF MemInv, TypeOK, SearchType, Searches
<1>2. map[t].idx <= MaxRegions /\ map[t].idx \in 1..(MaxRegions + 1) /\ map[t].pc # "idle"
  BY <1>1, Zenon DEF SearchOK, SearchType, AtRegion
<1>3. map[t].idx \in Slots
  BY <1>2, GuestMemoryAssumption DEF Slots
<1>4. regions[map[t].idx] \in Region
  BY <1>3, Zenon DEF MemInv, TypeOK
<1>5. ASSUME map[t].same
      PROVE  /\ map[t].idx \in 1..Len(table) /\ table[map[t].idx] \in Region
             /\ Like(regions[map[t].idx], table[map[t].idx])
  <2>1. (idx = 0 \/ msg = table) /\ map[t].idx <= Len(table)
    BY <1>1, <1>2, <1>5, Zenon DEF SearchOK, SameOK
  <2>2. Len(table) \in Nat /\ \A k \in 1..Len(table) : table[k] \in Region
    BY SentFacts, Zenon DEF MemInv, Known
  <2>3. map[t].idx \in 1..Len(table)
    BY <1>2, <2>1, <2>2, GuestMemoryAssumption
  <2> QED
    BY <2>1, <2>2, <2>3, Zenon DEF MemInv, Filled
<1> QED
  BY <1>1, <1>3, <1>4, <1>5, Zenon

(* A region that is like another contains the same addresses.               *)
LEMMA LikeFields ==
    ASSUME NEW r, NEW q, Like(r, q), NEW key \in Keys
    PROVE  /\ r[key] = q[key] /\ r.memory_size = q.memory_size
           /\ r.mmap_addr = q.mmap_addr \/ r.mmap_addr = 0
<1>1. key \in FieldNames /\ "memory_size" \in FieldNames /\ "mmap_addr" \in FieldNames
  BY Zenon DEF FieldNames
<1>2. key # "mmap_addr" /\ "memory_size" # "mmap_addr"
  BY DEF Keys
<1>3. r[key] = q[key] /\ r["memory_size"] = q["memory_size"]
      /\ (r["mmap_addr"] = q["mmap_addr"] \/ r["mmap_addr"] = 0)
  BY <1>1, <1>2, Zenon DEF Like, Stored
<1> QED
  BY <1>3, Zenon

\* The search s at another place, and what it keeps then.
Moved(s, pc, temp) == [s EXCEPT !.pc = pc, !.temp = temp]
SameSearch(w, s) ==
    /\ w.key = s.key /\ w.addr = s.addr /\ w.idx = s.idx
    /\ w.result = s.result /\ w.quiet = s.quiet /\ w.same = s.same

(* What a search keeps while it goes on.                                    *)
LEMMA SearchFields ==
    ASSUME NEW s \in SearchType, NEW pc \in Places, NEW temp \in Nat
    PROVE  /\ Moved(s, pc, temp) \in SearchType
           /\ Moved(s, pc, temp).pc = pc /\ Moved(s, pc, temp).temp = temp
           /\ SameSearch(Moved(s, pc, temp), s)
  BY Zenon DEF SearchType, Places, AtRegion, Moved, SameSearch

(* The test of the index: a search that ends here has looked at all.        *)
LEMMA TestIndexStep ==
    ASSUME MemInv, NEW t \in Threads, TestIndex(t)
    PROVE  MemInv'
<1> DEFINE pc == IF map[t].idx <= nregions THEN "low" ELSE "done"
           s == [map[t] EXCEPT !.pc = pc, !.temp = 0]
<1>1. map[t] \in SearchType /\ SearchOK(map[t]) /\ map[t].pc = "test"
  BY Zenon DEF MemInv, TypeOK, SearchType, Searches, TestIndex
<1>2. map' = [map EXCEPT ![t] = s] /\ UNCHANGED setting
  BY Zenon DEF TestIndex, Goto
<1>3. pc \in Places /\ 0 \in Nat
  <2>1. 0 \in Nat
    OBVIOUS
  <2> QED
    BY <2>1, Zenon DEF Places, AtRegion
<1>4. /\ map[t].idx <= nregions => pc = "low"
      /\ ~(map[t].idx <= nregions) => pc = "done"
  BY Zenon
<1>11. s = Moved(map[t], pc, 0)
  BY Zenon DEF Moved
<1> HIDE DEF pc, s
<1>12. /\ Moved(map[t], pc, 0) \in SearchType
       /\ Moved(map[t], pc, 0).pc = pc /\ Moved(map[t], pc, 0).temp = 0
       /\ SameSearch(Moved(map[t], pc, 0), map[t])
  BY <1>1, <1>3, SearchFields, Zenon
<1>5. /\ s \in SearchType /\ s.pc = pc /\ s.key = map[t].key /\ s.addr = map[t].addr
      /\ s.idx = map[t].idx /\ s.result = map[t].result
      /\ s.quiet = map[t].quiet /\ s.same = map[t].same
  BY <1>11, <1>12, Zenon DEF SameSearch
<1>6. s.idx \in Nat /\ nregions \in Nat /\ nregions <= MaxRegions /\ MaxRegions \in Nat
  BY <1>5, GuestMemoryAssumption, SMTT(30) DEF SearchType, MemInv, TypeOK
<1>7. ASSUME s.quiet PROVE idx = 0 /\ QuietOK(s)
  <2>1. /\ idx = 0 /\ s.result = 0 /\ s.idx <= nregions + 1
        /\ \A k \in 1..(s.idx - 1) : ~Within(regions[k], s.key, s.addr)
    BY <1>1, <1>5, <1>7 DEF SearchOK, QuietOK
  <2>2. CASE s.idx <= nregions
    <3>1. s.pc = "low"
      BY <1>4, <1>5, <2>2, Zenon
    <3> QED
      BY <2>1, <2>2, <3>1, Zenon DEF QuietOK, AtRegion
  <2>3. CASE ~(s.idx <= nregions)
    <3>1. s.pc = "done"
      BY <1>4, <1>5, <2>3, Zenon
    <3>2. s.idx - 1 = nregions
      BY <1>6, <2>1, <2>3
    <3> QED
      BY <2>1, <3>1, <3>2, Zenon DEF QuietOK, AtRegion
  <2> QED
    BY <2>2, <2>3, Zenon
<1>8. ASSUME s.same PROVE (idx = 0 \/ msg = table) /\ SameOK(s)
  <2>1. (idx = 0 \/ msg = table) /\ s.result = 0
    BY <1>1, <1>5, <1>8 DEF SearchOK, SameOK
  <2>2. nregions <= Len(table)
    <3>1. Len(table) \in Nat
      BY SentFacts, Zenon DEF MemInv, Known
    <3> QED
      BY <2>1, <3>1, SMTT(60) DEF MemInv, Filled, TypeOK
  <2>3. s.pc = "low" => s.idx <= Len(table)
    <3>1. Len(table) \in Nat
      BY SentFacts, Zenon DEF MemInv, Known
    <3>2. s.pc = "low" => s.idx <= nregions
      BY <1>4, <1>5
    <3> QED
      BY <1>6, <2>2, <3>1, <3>2
  <2>4. s.pc \in {"low", "done"}
    BY <1>4, <1>5, Zenon
  <2> QED
    BY <2>1, <2>3, <2>4, Zenon DEF SameOK, AtRegion
<1>9. s.pc \in AtRegion => s.idx <= MaxRegions
  <2>1. s.idx <= nregions => s.idx <= MaxRegions
    BY <1>6
  <2> QED
    BY <1>4, <1>5, <2>1, Zenon DEF AtRegion
<1>10. SearchOK(s)
  BY <1>7, <1>8, <1>9, Zenon DEF SearchOK
<1> QED
  BY <1>2, <1>5, <1>10, MapStep, Zenon

(* A search goes on with the next region when the address is not in this    *)
(* one.                                                                     *)
LEMMA NextRegionStep ==
    ASSUME MemInv, NEW t \in Threads, map[t].pc \in {"low", "size"},
           NextRegion(t), UNCHANGED setting,
           map[t].quiet => ~Within(regions[map[t].idx], map[t].key, map[t].addr)
    PROVE  MemInv'
<1> DEFINE i == map[t].idx
           s == [map[t] EXCEPT !.pc = "test", !.idx = i + 1, !.temp = 0]
<1>1. map[t] \in SearchType /\ SearchOK(map[t]) /\ i \in Slots
  BY LoadedRegion, Zenon DEF AtRegion
<1>2. i + 1 \in 1..(MaxRegions + 1) /\ i \in Nat /\ 0 \in Nat
  BY <1>1, GuestMemoryAssumption DEF Slots
<1>3. map' = [map EXCEPT ![t] = s]
  BY Zenon DEF NextRegion
<1> HIDE DEF i
<1>4. /\ s \in SearchType /\ s.pc = "test" /\ s.key = map[t].key /\ s.addr = map[t].addr
      /\ s.idx = i + 1 /\ s.result = map[t].result
      /\ s.quiet = map[t].quiet /\ s.same = map[t].same
  BY <1>1, <1>2, Zenon DEF SearchType
<1> HIDE DEF s
<1>5. ASSUME s.quiet PROVE idx = 0 /\ QuietOK(s)
  <2>1. /\ idx = 0 /\ s.result = 0 /\ i <= nregions
        /\ \A k \in 1..(i - 1) : ~Within(regions[k], s.key, s.addr)
    BY <1>1, <1>4, <1>5 DEF SearchOK, QuietOK, AtRegion, i
  <2>2. s.idx <= nregions + 1 /\ s.idx - 1 = i /\ \A k \in 1..i : k # i => k \in 1..(i - 1)
    <3>1. nregions \in Nat
      BY GuestMemoryAssumption DEF MemInv, TypeOK
    <3> QED
      BY <1>2, <1>4, <2>1, <3>1
  <2>3. \A k \in 1..(s.idx - 1) : ~Within(regions[k], s.key, s.addr)
    BY <1>4, <1>5, <2>1, <2>2, Zenon DEF i
  <2> QED
    BY <1>4, <2>1, <2>2, <2>3, ZenonT(60) DEF QuietOK, AtRegion
<1>6. ASSUME s.same PROVE (idx = 0 \/ msg = table) /\ SameOK(s)
  BY <1>1, <1>4, <1>6 DEF SearchOK, SameOK, AtRegion
<1>7. SearchOK(s)
  BY <1>4, <1>5, <1>6, Zenon DEF SearchOK, AtRegion
<1> QED
  BY <1>3, <1>4, <1>7, MapStep, Zenon

(* The lower bound.                                                         *)
LEMMA TestLowStep ==
    ASSUME MemInv, NEW t \in Threads, TestLow(t)
    PROVE  MemInv'
<1>1. map[t].pc = "low" /\ UNCHANGED setting
  BY Zenon DEF TestLow
<1>2. CASE regions[map[t].idx][map[t].key] <= map[t].addr
  <2> DEFINE s == [map[t] EXCEPT !.pc = "high", !.temp = 0]
             i == map[t].idx
  <2>1. map' = [map EXCEPT ![t] = s]
    BY <1>2, Zenon DEF TestLow, Goto
  <2>2. /\ map[t] \in SearchType /\ SearchOK(map[t]) /\ map[t].key \in Keys
    BY <1>1, LoadedRegion, Zenon DEF SearchType, AtRegion
  <2>9. "high" \in Places /\ 0 \in Nat
    BY SMT DEF Places, AtRegion
  <2>10. s = Moved(map[t], "high", 0)
    BY Zenon DEF Moved
  <2>11. /\ Moved(map[t], "high", 0) \in SearchType
         /\ Moved(map[t], "high", 0).pc = "high" /\ Moved(map[t], "high", 0).temp = 0
         /\ SameSearch(Moved(map[t], "high", 0), map[t])
    BY <2>2, <2>9, SearchFields, Zenon
  <2> HIDE DEF s
  <2>3. /\ s \in SearchType /\ s.pc = "high" /\ s.key = map[t].key /\ s.addr = map[t].addr
        /\ s.idx = i /\ s.result = map[t].result
        /\ s.quiet = map[t].quiet /\ s.same = map[t].same
    BY <2>10, <2>11, Zenon DEF SameSearch
  <2>4. regions[i][s.key] <= s.addr
    BY <1>2, <2>3, Zenon
  <2> HIDE DEF i
  <2>5. ASSUME s.quiet PROVE idx = 0 /\ QuietOK(s)
    <3>1. /\ idx = 0 /\ s.result = 0 /\ i <= nregions /\ i <= nregions + 1
          /\ \A k \in 1..(i - 1) : ~Within(regions[k], s.key, s.addr)
      BY <1>1, <2>2, <2>3, <2>5 DEF SearchOK, QuietOK, AtRegion, i
    <3> QED
      BY <2>3, <2>4, <3>1, Zenon DEF QuietOK
  <2>6. ASSUME s.same PROVE (idx = 0 \/ msg = table) /\ SameOK(s)
    <3>1. (idx = 0 \/ msg = table) /\ s.result = 0 /\ i <= Len(table)
      BY <1>1, <2>2, <2>3, <2>6 DEF SearchOK, SameOK, AtRegion, i
    <3>2. Like(regions[i], table[i])
      BY <1>1, <2>3, <2>6, LoadedRegion, Zenon DEF AtRegion, i
    <3>3. regions[i][s.key] = table[i][s.key]
      <4>1. s.key \in Keys
        BY <2>2, <2>3, Zenon
      <4> QED
        BY <3>2, <4>1, LikeFields, SMT
    <3>4. table[i][s.key] <= s.addr
      BY <2>4, <3>3, Zenon
    <3> QED
      BY <2>3, <3>1, <3>4, Zenon DEF SameOK
  <2>7. s.idx <= MaxRegions
    BY <1>1, <2>2, <2>3 DEF SearchOK, AtRegion, i
  <2>8. SearchOK(s)
    BY <2>5, <2>6, <2>7, Zenon DEF SearchOK
  <2> QED
    BY <1>1, <2>1, <2>3, <2>8, MapStep, Zenon
<1>3. CASE ~(regions[map[t].idx][map[t].key] <= map[t].addr)
  BY <1>1, <1>3, NextRegionStep, Zenon DEF TestLow, Within
<1> QED
  BY <1>2, <1>3, Zenon

(* The lower bound is loaded once more, and is still that of the region     *)
(* when the search is undisturbed, and that of the table when it ran into   *)
(* the same one.                                                            *)
LEMMA LoadLowStep ==
    ASSUME MemInv, NEW t \in Threads, LoadLow(t)
    PROVE  MemInv'
<1> DEFINE i == map[t].idx
           v == regions[i][map[t].key]
           s == [map[t] EXCEPT !.pc = "size", !.temp = v]
<1>1. map[t].pc = "high" /\ UNCHANGED setting
  BY Zenon DEF LoadLow
<1>2. /\ map[t] \in SearchType /\ SearchOK(map[t]) /\ map[t].key \in Keys
      /\ regions[i] \in Region
  BY <1>1, LoadedRegion, Zenon DEF SearchType, AtRegion
<1>3. v \in Nat /\ "size" \in Places
  BY <1>2, Zenon DEF Region, FieldNames, Keys, Places, AtRegion
<1>4. map' = [map EXCEPT ![t] = s]
  BY Zenon DEF LoadLow, Load
<1>11. s = Moved(map[t], "size", v)
  BY Zenon DEF Moved
<1> HIDE DEF v, s
<1>12. /\ Moved(map[t], "size", v) \in SearchType
       /\ Moved(map[t], "size", v).pc = "size" /\ Moved(map[t], "size", v).temp = v
       /\ SameSearch(Moved(map[t], "size", v), map[t])
  BY <1>2, <1>3, SearchFields, Zenon
<1>5. /\ s \in SearchType /\ s.pc = "size" /\ s.key = map[t].key /\ s.addr = map[t].addr
      /\ s.temp = v /\ s.idx = i /\ s.result = map[t].result
      /\ s.quiet = map[t].quiet /\ s.same = map[t].same
  BY <1>11, <1>12, Zenon DEF SameSearch
<1>6. s.temp = regions[i][s.key]
  BY <1>5, Zenon DEF v
<1> HIDE DEF s, i
<1>7. ASSUME s.quiet PROVE idx = 0 /\ QuietOK(s)
  <2>1. /\ idx = 0 /\ s.result = 0 /\ i <= nregions /\ i <= nregions + 1
        /\ \A k \in 1..(i - 1) : ~Within(regions[k], s.key, s.addr)
        /\ regions[i][s.key] <= s.addr
    BY <1>1, <1>2, <1>5, <1>7 DEF SearchOK, QuietOK, AtRegion, i
  <2> QED
    BY <1>5, <1>6, <2>1, Zenon DEF QuietOK
<1>8. ASSUME s.same PROVE (idx = 0 \/ msg = table) /\ SameOK(s)
  <2>1. /\ (idx = 0 \/ msg = table) /\ s.result = 0 /\ i <= Len(table)
        /\ table[i][s.key] <= s.addr
    BY <1>1, <1>2, <1>5, <1>8 DEF SearchOK, SameOK, AtRegion, i
  <2>2. Like(regions[i], table[i])
    BY <1>1, <1>5, <1>8, LoadedRegion, Zenon DEF AtRegion, i
  <2>3. s.key \in Keys
    BY <1>2, <1>5, Zenon
  <2>4. regions[i][s.key] = table[i][s.key]
    BY <2>2, <2>3, LikeFields, SMT
  <2> QED
    BY <1>5, <1>6, <2>1, <2>4, Zenon DEF SameOK
<1>9. s.idx <= MaxRegions
  BY <1>1, <1>2, <1>5 DEF SearchOK, AtRegion, i
<1>10. SearchOK(s)
  BY <1>7, <1>8, <1>9, Zenon DEF SearchOK
<1> QED
  BY <1>1, <1>4, <1>5, <1>10, MapStep, Zenon

(* The upper bound.  The lower one has been compared before, and both       *)
(* bounds of an undisturbed search are those of one region.                 *)
LEMMA TestHighStep ==
    ASSUME MemInv, NEW t \in Threads, TestHigh(t)
    PROVE  MemInv'
<1> DEFINE r == regions[map[t].idx]
<1>1. map[t].pc = "size" /\ UNCHANGED setting
  BY Zenon DEF TestHigh
<1>2. CASE map[t].addr < map[t].temp + r.memory_size
  <2> DEFINE s == [map[t] EXCEPT !.pc = "load", !.temp = 0]
             i == map[t].idx
  <2>1. map' = [map EXCEPT ![t] = s]
    BY <1>2, Zenon DEF TestHigh, Goto
  <2>2. /\ map[t] \in SearchType /\ SearchOK(map[t]) /\ map[t].key \in Keys
    BY <1>1, LoadedRegion, Zenon DEF SearchType, AtRegion
  <2>9. "load" \in Places /\ 0 \in Nat
    BY SMT DEF Places, AtRegion
  <2>10. s = Moved(map[t], "load", 0)
    BY Zenon DEF Moved
  <2>11. /\ Moved(map[t], "load", 0) \in SearchType
         /\ Moved(map[t], "load", 0).pc = "load" /\ Moved(map[t], "load", 0).temp = 0
         /\ SameSearch(Moved(map[t], "load", 0), map[t])
    BY <2>2, <2>9, SearchFields, Zenon
  <2> HIDE DEF s
  <2>3. /\ s \in SearchType /\ s.pc = "load" /\ s.key = map[t].key /\ s.addr = map[t].addr
        /\ s.idx = i /\ s.result = map[t].result
        /\ s.quiet = map[t].quiet /\ s.same = map[t].same
    BY <2>10, <2>11, Zenon DEF SameSearch
  <2>8. s.addr < map[t].temp + regions[i].memory_size
    BY <1>2, <2>3, Zenon
  <2> HIDE DEF i
  <2>4. ASSUME s.quiet PROVE idx = 0 /\ QuietOK(s)
    <3>1. /\ idx = 0 /\ s.result = 0 /\ i <= nregions /\ i <= nregions + 1
          /\ \A k \in 1..(i - 1) : ~Within(regions[k], s.key, s.addr)
          /\ regions[i][s.key] <= s.addr /\ map[t].temp = regions[i][s.key]
      BY <1>1, <2>2, <2>3, <2>4 DEF SearchOK, QuietOK, AtRegion, i
    <3>2. Within(regions[i], s.key, s.addr)
      BY <2>8, <3>1, Zenon DEF Within
    <3> QED
      BY <2>3, <3>1, <3>2, Zenon DEF QuietOK
  <2>5. ASSUME s.same PROVE (idx = 0 \/ msg = table) /\ SameOK(s)
    <3>1. /\ (idx = 0 \/ msg = table) /\ s.result = 0 /\ i <= Len(table)
          /\ table[i][s.key] <= s.addr /\ map[t].temp = table[i][s.key]
      BY <1>1, <2>2, <2>3, <2>5 DEF SearchOK, SameOK, AtRegion, i
    <3>2. Like(regions[i], table[i])
      BY <1>1, <2>3, <2>5, LoadedRegion, Zenon DEF AtRegion, i
    <3>3. regions[i][s.key] = table[i][s.key] /\ regions[i].memory_size = table[i].memory_size
      <4>1. s.key \in Keys
        BY <2>2, <2>3, Zenon
      <4> QED
        BY <3>2, <4>1, LikeFields, SMT
    <3>4. Within(table[i], s.key, s.addr)
      BY <2>8, <3>1, <3>3, Zenon DEF Within
    <3> QED
      BY <2>3, <3>1, <3>4, ZenonT(60) DEF SameOK
  <2>6. s.idx <= MaxRegions
    BY <1>1, <2>2, <2>3 DEF SearchOK, AtRegion, i
  <2>7. SearchOK(s)
    BY <2>4, <2>5, <2>6, Zenon DEF SearchOK
  <2> QED
    BY <1>1, <2>1, <2>3, <2>7, MapStep, Zenon
<1>3. CASE ~(map[t].addr < map[t].temp + r.memory_size)
  <2>1. SearchOK(map[t])
    BY <1>1, LoadedRegion, Zenon DEF AtRegion
  <2>2. map[t].quiet => map[t].temp = r[map[t].key]
    BY <1>1, <2>1 DEF SearchOK, QuietOK
  <2>3. map[t].quiet => ~Within(r, map[t].key, map[t].addr)
    BY <1>3, <2>2, Zenon DEF Within
  <2>4. NextRegion(t)
    BY <1>3, Zenon DEF TestHigh
  <2> QED
    BY <1>1, <2>3, <2>4, NextRegionStep, Zenon
<1> QED
  BY <1>2, <1>3, Zenon

(* The mapping is loaded: that of the region, or 0 when its mmap failed.    *)
LEMMA LoadMappingStep ==
    ASSUME MemInv, NEW t \in Threads, LoadMapping(t)
    PROVE  MemInv'
<1> DEFINE i == map[t].idx
           v == regions[i].mmap_addr
           s == [map[t] EXCEPT !.pc = "sub", !.temp = v]
<1>1. map[t].pc = "load" /\ UNCHANGED setting
  BY Zenon DEF LoadMapping
<1>2. /\ map[t] \in SearchType /\ SearchOK(map[t]) /\ map[t].key \in Keys
      /\ regions[i] \in Region
  BY <1>1, LoadedRegion, Zenon DEF SearchType, AtRegion
<1>3. v \in Nat /\ "sub" \in Places
  BY <1>2, Zenon DEF Region, FieldNames, Places, AtRegion
<1>4. map' = [map EXCEPT ![t] = s]
  BY Zenon DEF LoadMapping, Load
<1>11. s = Moved(map[t], "sub", v)
  BY Zenon DEF Moved
<1> HIDE DEF v, s
<1>12. /\ Moved(map[t], "sub", v) \in SearchType
       /\ Moved(map[t], "sub", v).pc = "sub" /\ Moved(map[t], "sub", v).temp = v
       /\ SameSearch(Moved(map[t], "sub", v), map[t])
  BY <1>2, <1>3, SearchFields, Zenon
<1>5. /\ s \in SearchType /\ s.pc = "sub" /\ s.key = map[t].key /\ s.addr = map[t].addr
      /\ s.temp = v /\ s.idx = i /\ s.result = map[t].result
      /\ s.quiet = map[t].quiet /\ s.same = map[t].same
  BY <1>11, <1>12, Zenon DEF SameSearch
<1>6. s.temp = regions[i].mmap_addr
  BY <1>5, Zenon DEF v
<1> HIDE DEF s, i
<1>7. ASSUME s.quiet PROVE idx = 0 /\ QuietOK(s)
  <2>1. /\ idx = 0 /\ s.result = 0 /\ i <= nregions /\ i <= nregions + 1
        /\ \A k \in 1..(i - 1) : ~Within(regions[k], s.key, s.addr)
        /\ Within(regions[i], s.key, s.addr)
    BY <1>1, <1>2, <1>5, <1>7 DEF SearchOK, QuietOK, AtRegion, i
  <2> QED
    BY <1>5, <1>6, <2>1, Zenon DEF QuietOK
<1>8. ASSUME s.same PROVE (idx = 0 \/ msg = table) /\ SameOK(s)
  <2>1. /\ (idx = 0 \/ msg = table) /\ s.result = 0 /\ i <= Len(table)
        /\ Within(table[i], s.key, s.addr)
    BY <1>1, <1>2, <1>5, <1>8 DEF SearchOK, SameOK, AtRegion, i
  <2>2. Like(regions[i], table[i])
    BY <1>1, <1>5, <1>8, LoadedRegion, Zenon DEF AtRegion, i
  <2>3. s.key \in Keys
    BY <1>2, <1>5, Zenon
  <2>4. regions[i].mmap_addr = table[i].mmap_addr \/ regions[i].mmap_addr = 0
    BY <2>2, <2>3, LikeFields, SMT
  <2> QED
    BY <1>5, <1>6, <2>1, <2>4, Zenon DEF SameOK
<1>9. s.idx <= MaxRegions
  BY <1>1, <1>2, <1>5 DEF SearchOK, AtRegion, i
<1>10. SearchOK(s)
  BY <1>7, <1>8, <1>9, Zenon DEF SearchOK
<1> QED
  BY <1>1, <1>4, <1>5, <1>10, MapStep, Zenon

(* The result is computed from the region that holds the address, and from  *)
(* 0 when the mmap of that region failed.                                   *)
LEMMA LoadResultStep ==
    ASSUME MemInv, NEW t \in Threads, LoadResult(t)
    PROVE  MemInv'
<1> DEFINE i == map[t].idx
           r == regions[i]
           v == map[t].temp + map[t].addr - r[map[t].key]
           s == [map[t] EXCEPT !.pc = "done", !.temp = 0, !.result = v]
<1>1. map[t].pc = "sub" /\ UNCHANGED setting
  BY Zenon DEF LoadResult
<1>2. map[t] \in SearchType /\ SearchOK(map[t]) /\ map[t].key \in Keys /\ r \in Region
  BY <1>1, LoadedRegion, Zenon DEF SearchType, AtRegion
<1>3. v \in Int /\ map[t].addr \in Nat /\ 0 \in Nat
  BY <1>2 DEF SearchType, Region, FieldNames
<1>4. map' = [map EXCEPT ![t] = s]
  BY Zenon DEF LoadResult
<1> HIDE DEF v
<1>5. /\ s \in SearchType /\ s.pc = "done" /\ s.key = map[t].key /\ s.addr = map[t].addr
      /\ s.idx = i /\ s.result = v /\ s.quiet = map[t].quiet /\ s.same = map[t].same
  BY <1>2, <1>3, Zenon DEF SearchType
<1>6. s.result = map[t].temp + s.addr - regions[i][s.key]
  BY <1>5, Zenon DEF v
<1> HIDE DEF s, i
<1>7. ASSUME s.quiet PROVE idx = 0 /\ QuietOK(s)
  <2>1. /\ idx = 0 /\ i <= nregions /\ Within(regions[i], s.key, s.addr)
        /\ \A k \in 1..(i - 1) : ~Within(regions[k], s.key, s.addr)
        /\ map[t].temp = regions[i].mmap_addr
    BY <1>1, <1>2, <1>5, <1>7 DEF SearchOK, QuietOK, AtRegion, i
  <2> QED
    BY <1>5, <1>6, <2>1, Zenon DEF QuietOK, AtRegion
<1>8. ASSUME s.same PROVE (idx = 0 \/ msg = table) /\ SameOK(s)
  <2>1. /\ (idx = 0 \/ msg = table) /\ i <= Len(table)
        /\ Within(table[i], s.key, s.addr)
        /\ map[t].temp = table[i].mmap_addr \/ map[t].temp = 0
    BY <1>1, <1>2, <1>5, <1>8 DEF SearchOK, SameOK, AtRegion, i
  <2>2. Like(regions[i], table[i]) /\ table[i] \in Region
    BY <1>1, <1>5, <1>8, LoadedRegion, Zenon DEF AtRegion, i
  <2>3. regions[i][s.key] = table[i][s.key]
    <3>1. s.key \in Keys
      BY <1>2, <1>5, Zenon
    <3> QED
      BY <2>2, <3>1, LikeFields, SMT
  <2>4. s.addr \in Nat
    BY <1>3, <1>5, SMT
  <2>5. ASSUME map[t].temp = 0 PROVE s.result = s.addr - table[i][s.key]
    <3> DEFINE a == map[t].temp
               k == table[i][s.key]
    <3>1. s.result = a + s.addr - k /\ a = 0
      BY <1>6, <2>3, <2>5, Zenon
    <3>2. k \in Nat
      BY <1>2, <1>5, <2>2, Zenon DEF Region, FieldNames
    <3> HIDE DEF a, k
    <3>3. s.result = s.addr - k
      BY <2>4, <3>1, <3>2, SMT
    <3> QED
      BY <3>3, Zenon DEF k
  <2>6. \/ s.result = table[i].mmap_addr + s.addr - table[i][s.key]
        \/ s.result = s.addr - table[i][s.key]
    BY <1>6, <2>1, <2>3, <2>5, Zenon
  <2> QED
    BY <1>5, <2>1, <2>6, Zenon DEF SameOK, AtRegion
<1>9. SearchOK(s)
  BY <1>5, <1>7, <1>8, Zenon DEF SearchOK, AtRegion
<1> QED
  BY <1>1, <1>4, <1>5, <1>9, MapStep, Zenon

(* Nothing is known of a search that has returned.                          *)
LEMMA ReturnStep ==
    ASSUME MemInv, NEW t \in Threads, Return(t)
    PROVE  MemInv'
<1>1. NoSearch \in SearchType /\ NoSearch.pc = "idle"
  BY GuestMemoryAssumption DEF NoSearch, SearchType, Keys
<1>2. SearchOK(NoSearch)
  BY <1>1, Zenon DEF SearchOK
<1> QED
  BY <1>1, <1>2, MapStep, Zenon DEF Return

(* A search knows the same while nothing changes.                           *)
LEMMA StutterSearch ==
    ASSUME NEW t \in Threads, UNCHANGED <<regions, nregions, table, map>>
    PROVE  /\ QuietOK(map[t]) => QuietOK(map[t])'
           /\ SameOK(map[t]) => SameOK(map[t])'
<1>1. regions' = regions /\ nregions' = nregions /\ table' = table /\ map' = map
  OBVIOUS
<1>2. QuietOK(map[t]) => QuietOK(map[t])'
  BY <1>1, ZenonT(60) DEF QuietOK
<1>3. SameOK(map[t]) => SameOK(map[t])'
  BY <1>1, ZenonT(60) DEF SameOK
<1> QED
  BY <1>2, <1>3, Zenon

(* The regions that count are, mapped or not, those of the last table, and  *)
(* every search knows what it has seen of them.                             *)
THEOREM MemInvariant == Spec => []MemInv
<1>1. ASSUME MemInv, [Next]_vars PROVE MemInv'
  <2>1. ASSUME NEW b \in BlockLists, SetMemTable(b) PROVE MemInv'
    BY <1>1, <2>1, SetMemTableStep, Zenon
  <2>2. CASE StoreField \/ MapFailed
    BY <1>1, <2>2, FieldStep, Zenon
  <2>3. CASE CountRegion
    BY <1>1, <2>3, CountRegionStep, Zenon
  <2>4. ASSUME NEW t \in Threads, NEW k \in Keys, NEW a \in Addrs, MapAddr(t, k, a)
        PROVE  MemInv'
    BY <1>1, <2>4, MapAddrStep, Zenon
  <2>5. ASSUME NEW t \in Threads, Search(t) PROVE MemInv'
    <3>1. CASE TestIndex(t) \/ TestLow(t) \/ LoadLow(t) \/ TestHigh(t)
      BY <1>1, <3>1, TestIndexStep, TestLowStep, LoadLowStep, TestHighStep, Zenon
    <3>2. CASE LoadMapping(t) \/ LoadResult(t) \/ Return(t)
      BY <1>1, <3>2, LoadMappingStep, LoadResultStep, ReturnStep, Zenon
    <3> QED
      BY <2>5, <3>1, <3>2, Zenon DEF Search
  <2>6. CASE UNCHANGED vars
    <3>1. UNCHANGED <<regions, nregions, msg, idx, field, table, map>>
      BY <2>6, Zenon DEF vars, setting
    <3>2. TypeOK' /\ Known' /\ Filled'
      BY <1>1, <3>1, Zenon DEF MemInv, TypeOK, Known, Sent, Filled
    <3>3. ASSUME NEW t \in Threads PROVE SearchOK(map[t])'
      <4>1. SearchOK(map[t])
        BY <1>1, ZenonT(60) DEF MemInv, Searches
      <4>2. (QuietOK(map[t]) => QuietOK(map[t])') /\ (SameOK(map[t]) => SameOK(map[t])')
        BY <3>1, StutterSearch, Zenon
      <4> QED
        BY <3>1, <4>1, <4>2, Zenon DEF SearchOK
    <3> QED
      BY <3>2, <3>3, Zenon DEF MemInv, Searches
  <2> QED
    BY <1>1, <2>1, <2>2, <2>3, <2>4, <2>5, <2>6, Zenon DEF Next
<1> QED
  BY <1>1, InitMem, PTL DEF Spec

-----------------------------------------------------------------------------
(* What the searches return.                                                *)

(* When no table is being filled and every region that counts could be      *)
(* mapped, the regions are those of the last table.                         *)
LEMMA MappedRegions ==
    ASSUME MemInv, idx = 0, AllMapped
    PROVE  /\ nregions = Len(table) /\ Len(table) \in Nat
           /\ \A k \in 1..Len(table) :
                /\ regions[k].mmap_addr = table[k].mmap_addr
                /\ regions[k].memory_size = table[k].memory_size
                /\ \A key \in Keys : regions[k][key] = table[k][key]
<1>1. /\ nregions = Len(table)
      /\ \A k \in 1..Len(table) : Like(regions[k], table[k])
  BY Zenon DEF MemInv, Filled
<1>2. Len(table) \in Nat
  BY SentFacts, Zenon DEF MemInv, Known
<1>3. ASSUME NEW k \in 1..Len(table)
      PROVE  /\ regions[k].mmap_addr = table[k].mmap_addr
             /\ regions[k].memory_size = table[k].memory_size
             /\ \A key \in Keys : regions[k][key] = table[k][key]
  <2>1. Like(regions[k], table[k]) /\ regions[k].mmap_addr # 0
    BY <1>1, Zenon DEF AllMapped
  <2>2. "mmap_addr" \in FieldNames
    BY Zenon DEF FieldNames
  <2>3. regions[k].mmap_addr = table[k].mmap_addr
    BY <2>1, <2>2, Zenon DEF Like, Stored
  <2>4. ASSUME NEW key \in Keys
        PROVE  regions[k][key] = table[k][key] /\ regions[k].memory_size = table[k].memory_size
    BY <2>1, LikeFields, SMT
  <2>5. "guest_phys_addr" \in Keys
    BY Zenon DEF Keys
  <2> QED
    BY <2>3, <2>4, <2>5, Zenon
<1> QED
  BY <1>1, <1>2, <1>3, Zenon

(* A search of _map_guest_addr or _map_user_addr that is not disturbed by   *)
(* _set_mem_table returns what the last table says, for every sequence of   *)
(* tables and of mmaps that fail, in both threads, once every region of the *)
(* last table is mapped.                                                    *)
THEOREM QuietSearchIsRight == Spec => []QuietSearch
<1>1. ASSUME MemInv PROVE QuietSearch
  <2> SUFFICES ASSUME NEW t \in Threads, map[t].pc = "done", map[t].quiet, AllMapped
               PROVE  Translates(table, map[t].key, map[t].addr, map[t].result)
    BY Zenon DEF QuietSearch
  <2> DEFINE s == map[t]
  <2>1. s \in SearchType /\ SearchOK(s)
    BY <1>1, Zenon DEF MemInv, TypeOK, SearchType, Searches
  <2>2. s.key \in Keys /\ s.idx \in Nat /\ s.idx >= 1
    BY <2>1, GuestMemoryAssumption DEF SearchType
  <2>3. /\ idx = 0
        /\ \/ s.result = 0 /\ \A k \in 1..nregions : ~Within(regions[k], s.key, s.addr)
           \/ /\ s.idx <= nregions /\ Within(regions[s.idx], s.key, s.addr)
              /\ s.result = regions[s.idx].mmap_addr + s.addr - regions[s.idx][s.key]
    BY <2>1, Zenon DEF SearchOK, QuietOK
  <2> HIDE DEF s
  <2>4. /\ nregions = Len(table) /\ Len(table) \in Nat
        /\ \A k \in 1..Len(table) :
             /\ regions[k].mmap_addr = table[k].mmap_addr
             /\ regions[k].memory_size = table[k].memory_size
             /\ regions[k][s.key] = table[k][s.key]
    BY <1>1, <2>2, <2>3, MappedRegions, Zenon
  <2>5. DOMAIN table = 1..Len(table)
    BY <1>1, SentFacts, Zenon DEF MemInv, Known
  <2>6. CASE s.result = 0 /\ \A k \in 1..nregions : ~Within(regions[k], s.key, s.addr)
    <3>1. \A k \in 1..Len(table) : ~Within(table[k], s.key, s.addr)
      BY <2>4, <2>6, Zenon DEF Within
    <3> QED
      BY <2>5, <2>6, <3>1, Zenon DEF Translates, s
  <2>7. CASE /\ s.idx <= nregions /\ Within(regions[s.idx], s.key, s.addr)
             /\ s.result = regions[s.idx].mmap_addr + s.addr - regions[s.idx][s.key]
    <3>1. s.idx \in 1..Len(table)
      BY <2>2, <2>4, <2>7
    <3>2. /\ Within(table[s.idx], s.key, s.addr)
          /\ s.result = table[s.idx].mmap_addr + s.addr - table[s.idx][s.key]
      BY <2>4, <2>7, <3>1, Zenon DEF Within
    <3> QED
      BY <2>5, <3>1, <3>2, Zenon DEF Translates, s
  <2> QED
    BY <2>3, <2>6, <2>7, Zenon
<1> QED
  BY <1>1, MemInvariant, PTL

\* Memory is mapped above the length of any region: a region that could not be
\* mapped gives offsets into it as addresses, and no memory lies there.
HighMemory == \A l \in BlockLists : \A j, k \in 1..Len(l) : l[j].length <= l[k].memory

(* Memory lies above the regions' lengths.                                  *)
LEMMA HighRegions ==
    ASSUME HighMemory, NEW m \in Sent
    PROVE  \A j, k \in 1..Len(m) : m[j].memory_size <= m[k].mmap_addr
<1>1. CASE m = <<>>
  BY <1>1
<1>2. CASE m # <<>>
  <2>1. PICK b \in BlockLists : m = MemTable(b)
    BY <1>2, Zenon DEF Sent
  <2>2. b \in Seq(Block)
    BY BlocksAssumption, Zenon
  <2>3. \A j \in 1..Len(m) : \E k \in 1..Len(b) : m[j] = RegionOf(b[k])
    BY <2>1, <2>2, TableFacts, Zenon
  <2>4. \A k \in 1..Len(b) : b[k] \in Block
    BY <2>2
  <2>5. \A k \in 1..Len(b) : RegionOf(b[k]).memory_size = b[k].length
                             /\ RegionOf(b[k]).mmap_addr = b[k].memory
    BY <2>4, RegionFields, Zenon
  <2>6. \A j, k \in 1..Len(b) : b[j].length <= b[k].memory
    BY Zenon DEF HighMemory
  <2> QED
    BY <2>3, <2>5, <2>6, ZenonT(60)
<1> QED
  BY <1>1, <1>2, Zenon

(* An address below all mapped memory is in none of it.                     *)
LEMMA BelowMemory ==
    ASSUME NEW x \in Int, NEW a \in Nat, NEW n \in Nat, x < a
    PROVE  x \notin a..(a + n - 1)
OBVIOUS

(* The offset of an address in a region that has it is less than its size.  *)
LEMMA OffsetBelow ==
    ASSUME NEW k \in Nat, NEW n \in Nat, NEW a \in Nat, NEW b \in Nat, k <= a, a < k + n, n <= b
    PROVE  a - k \in Int /\ a - k < b
OBVIOUS

(* A search that meets a table only as it is sent once more, or a region    *)
(* that could not be mapped, returns the memory of the address or none at   *)
(* all, if memory is mapped above the regions' lengths: the steps of        *)
(* _set_mem_table and of _map_guest_addr interleave in any way.             *)
THEOREM TornSearchFindsNoOther ==
    ASSUME HighMemory
    PROVE  Spec => []NeverOthersMemory
<1>1. ASSUME MemInv PROVE NeverOthersMemory
  <2> SUFFICES ASSUME NEW t \in Threads, map[t].pc = "done", map[t].same
               PROVE  \/ Translates(table, map[t].key, map[t].addr, map[t].result)
                      \/ \A k \in DOMAIN table :
                            map[t].result \notin table[k].mmap_addr
                                                 ..(table[k].mmap_addr + table[k].memory_size - 1)
    BY Zenon DEF NeverOthersMemory
  <2> DEFINE s == map[t]
             i == s.idx
  <2>1. s \in SearchType /\ SearchOK(s)
    BY <1>1, Zenon DEF MemInv, TypeOK, SearchType, Searches
  <2>2. s.key \in Keys /\ s.addr \in Nat /\ s.result \in Int /\ i \in 1..(MaxRegions + 1)
    BY <2>1, Zenon DEF SearchType
  <2>3. table \in Sent
    BY <1>1, Zenon DEF MemInv, Known
  <2>4. /\ DOMAIN table = 1..Len(table) /\ Len(table) \in Nat
        /\ \A k \in 1..Len(table) : table[k] \in Region /\ table[k].mmap_addr > 0
    BY <2>3, SentFacts, Zenon
  <2>5. \A k \in 1..Len(table) : table[k].mmap_addr \in Nat /\ table[k].memory_size \in Nat
    BY <2>4, Zenon DEF Region, FieldNames
  <2>6. s.result # 0 =>
          /\ i <= Len(table) /\ Within(table[i], s.key, s.addr)
          /\ \/ s.result = table[i].mmap_addr + s.addr - table[i][s.key]
             \/ s.result = s.addr - table[i][s.key]
    BY <2>1, Zenon DEF SearchOK, SameOK
  <2> HIDE DEF i, s
  <2>7. CASE s.result = 0
    <3>1. ASSUME NEW k \in 1..Len(table)
          PROVE  0 \notin table[k].mmap_addr..(table[k].mmap_addr + table[k].memory_size - 1)
      <4>1. table[k].mmap_addr \in Nat /\ table[k].memory_size \in Nat /\ 0 < table[k].mmap_addr
        BY <2>4, <2>5, SMT
      <4> QED
        BY <4>1, BelowMemory, SMT
    <3> QED
      BY <2>4, <2>7, <3>1, Zenon DEF s
  <2>8. CASE s.result # 0
    <3>1. i \in 1..Len(table) /\ Within(table[i], s.key, s.addr)
      BY <2>2, <2>4, <2>6, <2>8, GuestMemoryAssumption
    <3>2. CASE s.result = table[i].mmap_addr + s.addr - table[i][s.key]
      BY <2>4, <3>1, <3>2, Zenon DEF Translates, s
    <3>3. CASE s.result = s.addr - table[i][s.key]
      <4>1. table[i][s.key] \in Nat /\ table[i].memory_size \in Nat
        BY <2>2, <2>4, <3>1, Zenon DEF Region, FieldNames
      <4>2. ASSUME NEW k \in 1..Len(table)
            PROVE  s.result \notin table[k].mmap_addr..(table[k].mmap_addr + table[k].memory_size - 1)
        <5>1. table[i].memory_size <= table[k].mmap_addr
          BY <2>3, <3>1, HighRegions, Zenon
        <5>2. table[k].mmap_addr \in Nat /\ table[k].memory_size \in Nat
          BY <2>5, Zenon
        <5>3. table[i][s.key] <= s.addr /\ s.addr < table[i][s.key] + table[i].memory_size
          BY <3>1, Zenon DEF Within
        <5>4. s.result < table[k].mmap_addr
          BY <2>2, <3>3, <4>1, <5>1, <5>2, <5>3, OffsetBelow, Zenon
        <5> QED
          BY <2>2, <5>2, <5>4, BelowMemory, Zenon
      <4> QED
        BY <2>4, <4>2, Zenon DEF s
    <3> QED
      BY <2>6, <2>8, <3>2, <3>3, Zenon
  <2> QED
    BY <2>7, <2>8, Zenon
<1> QED
  BY <1>1, MemInvariant, PTL

\* The machine's main memory is the first block of every list, has a descriptor,
\* and is no larger than what fits below the hole.
RamBelowHole ==
    \A l, m \in BlockLists :
        Len(l) # 0 /\ l[1] = m[1] /\ l[1].fd /\ l[1].offset = 0 /\ l[1].length = RamEnd

(* Main memory that is no larger than what fits below the hole lies there.  *)
LEMMA BelowHole ==
    ASSUME NEW b \in Block, b.length = RamEnd, NEW a \in Nat, IsRam(b, a)
    PROVE  a < RamEnd /\ b.memory \in Nat
  BY GuestMemoryAssumption DEF IsRam, Block

(* A search for a guest address of the machine's main memory returns the    *)
(* memory the guest sees there, when the guest has no more of it than fits  *)
(* below the hole: QEMU describes the first block by its place in the list  *)
(* of all RAM, which is the guest address only there.                       *)
THEOREM GuestRamIsFound ==
    ASSUME RamBelowHole
    PROVE  Spec => []FindsGuestRam
<1>1. ASSUME MemInv PROVE FindsGuestRam
  <2> SUFFICES ASSUME NEW t \in Threads, NEW l \in BlockLists,
                      map[t].pc = "done", map[t].quiet, AllMapped,
                      map[t].key = "guest_phys_addr", table # <<>>, IsRam(l[1], map[t].addr)
               PROVE  map[t].result = GuestRam(l[1], map[t].addr)
    BY Zenon DEF FindsGuestRam
  <2> DEFINE s == map[t]
             b == l[1]
  <2>1. s \in SearchType /\ SearchOK(s)
    BY <1>1, Zenon DEF MemInv, TypeOK, SearchType, Searches
  <2>2. /\ s.addr \in Nat /\ s.idx \in Nat /\ s.idx >= 1
        /\ "guest_phys_addr" \in Keys /\ s.key = "guest_phys_addr"
    BY <2>1, GuestMemoryAssumption DEF SearchType, Keys
  <2>3. /\ idx = 0
        /\ \/ \A k \in 1..nregions : ~Within(regions[k], s.key, s.addr)
           \/ /\ s.result = regions[s.idx].mmap_addr + s.addr - regions[s.idx][s.key]
              /\ \A k \in 1..(s.idx - 1) : ~Within(regions[k], s.key, s.addr)
    BY <2>1, Zenon DEF SearchOK, QuietOK
  <2>4. PICK m \in BlockLists : table = MemTable(m)
    BY <1>1, Zenon DEF MemInv, Known, Sent
  <2>5. /\ m \in Seq(Block) /\ Len(m) # 0 /\ m[1] = b /\ b.fd /\ b.offset = 0
        /\ b.length = RamEnd
    BY BlocksAssumption, Zenon DEF RamBelowHole
  <2>6. b \in Block
    BY <2>5, SMT
  <2>7. Len(table) >= 1 /\ table[1] = RegionOf(b)
    BY <2>4, <2>5, TableFacts, Zenon
  <2>8. /\ table[1].guest_phys_addr = 0 /\ table[1].memory_size = RamEnd
        /\ table[1].mmap_addr = b.memory
    BY <2>5, <2>6, <2>7, RegionFields, Zenon
  <2>9. /\ nregions = Len(table) /\ Len(table) \in Nat
        /\ \A k \in 1..Len(table) :
             /\ regions[k].mmap_addr = table[k].mmap_addr
             /\ regions[k].memory_size = table[k].memory_size
             /\ regions[k].guest_phys_addr = table[k].guest_phys_addr
    BY <1>1, <2>2, <2>3, MappedRegions, Zenon
  <2>10. 1 \in 1..Len(table)
    BY <2>7, <2>9
  <2>11. /\ regions[1].guest_phys_addr = 0 /\ regions[1].memory_size = RamEnd
         /\ regions[1].mmap_addr = b.memory
    BY <2>8, <2>9, <2>10, Zenon
  <2> HIDE DEF s, b
  <2>12. s.addr < RamEnd /\ b.memory \in Nat
    <3>1. IsRam(b, s.addr)
      BY Zenon DEF s, b
    <3> QED
      BY <2>2, <2>5, <2>6, <3>1, BelowHole, Zenon
  <2>13. Within(regions[1], s.key, s.addr)
    BY <2>2, <2>11, <2>12, GuestMemoryAssumption DEF Within
  <2>14. /\ s.result = regions[s.idx].mmap_addr + s.addr - regions[s.idx][s.key]
         /\ ~(1 \in 1..(s.idx - 1))
    BY <2>3, <2>9, <2>10, <2>13, Zenon
  <2>15. s.idx = 1
    BY <2>2, <2>14
  <2>16. s.result = b.memory + s.addr
    BY <2>2, <2>11, <2>12, <2>14, <2>15
  <2> QED
    BY <2>12, <2>16, Zenon DEF GuestRam, s, b
<1> QED
  BY <1>1, MemInvariant, PTL

(* The region table and the loops over it keep their types, however a      *)
(* lookup and _set_mem_table interleave: a lookup's index is never more    *)
(* than one past the end of the table.                                     *)
THEOREM GuestMemoryTypeCorrect == Spec => []TypeOK
<1>1. MemInv => TypeOK
  BY Zenon DEF MemInv
<1> QED
  BY <1>1, MemInvariant, PTL
=============================================================================
