---------------------------- MODULE GuestMemory ----------------------------
(***************************************************************************)
(* The server's table of guest memory: _set_mem_table fills it from the    *)
(* list of RAM blocks that QEMU sends, and _map_guest_addr and             *)
(* _map_user_addr search it.  The main thread fills and searches; the      *)
(* transport thread searches at any moment, without a lock, so every load  *)
(* and store of shared memory is a step; where an expression has two loads *)
(* the first is kept in a temporary.  Addresses are counted in pages.      *)
(***************************************************************************)
EXTENDS Integers, Sequences

CONSTANTS
    BlockLists,   \* the lists of RAM blocks QEMU may have, in ram_list order
    MaxRegions,   \* VHOST_MEMORY_MAX_NREGIONS
    Addrs,        \* the addresses that are looked up
    RamEnd, Hole, \* guest memory below the hole, and the length of the hole
    MapFails      \* mmap may fail

\* A RAM block of QEMU: its place in the list of all RAM, its address in QEMU,
\* whether it has a descriptor, and the memory itself (a number from which its
\* pages are counted: every mapping of the block shows the same memory).
Block == [offset : Nat, length : Nat \ {0}, host : Nat, fd : BOOLEAN, memory : Nat \ {0}]

ASSUME GuestMemoryAssumption ==
    /\ MaxRegions \in Nat /\ Addrs \subseteq Nat
    /\ RamEnd \in Nat /\ Hole \in Nat /\ MapFails \in BOOLEAN

VARIABLES
    regions, nregions,  \* vhost_user->memory
    msg, idx, field,    \* _set_mem_table: the regions received, the one being
                        \* filled (0 when none), and the store that is next
    table,              \* history: the regions of the last table filled
    map                 \* the searches of the two threads; quiet: no table was being
                        \* filled meanwhile, same: none but the same one once more

setting == <<regions, nregions, msg, idx, field, table>>
vars == <<setting, map>>

Slots   == 1..MaxRegions
Threads == {"main", "transport"}
Keys    == {"guest_phys_addr", "userspace_addr"}

\* The stores of _set_mem_table to a region, in their order.
Fields == <<"guest_phys_addr", "memory_size", "userspace_addr", "mmap_addr">>
FieldNames == Keys \cup {"memory_size", "mmap_addr"}
Region == [FieldNames -> Nat]

\* Mutant: the region is described by its address in QEMU only.
RegionOfHost(b) ==
    [guest_phys_addr |-> b.host, memory_size |-> b.length,
     userspace_addr |-> b.host, mmap_addr |-> b.memory]

\* The regions of a SET_MEM_TABLE message: the blocks that have a descriptor.
\* The server maps each descriptor; mmap_addr stands for the memory mapped.
RegionOf(b) ==
    [guest_phys_addr |-> b.offset, memory_size |-> b.length,
     userspace_addr |-> b.host, mmap_addr |-> b.memory]

MemTable(blocks) ==
    LET F[n \in 0..Len(blocks)] ==
            IF n = 0 THEN <<>>
            ELSE IF blocks[n].fd THEN Append(F[n - 1], RegionOf(blocks[n])) ELSE F[n - 1]
    IN F[Len(blocks)]

\* The blocks with a descriptor fit into the arrays of the message.
ASSUME BlocksAssumption ==
    \A b \in BlockLists : b \in Seq(Block) /\ Len(MemTable(b)) <= MaxRegions

Searching(t) == map[t].pc # "idle"
NoSearch == [pc |-> "idle", key |-> "guest_phys_addr", addr |-> 0, idx |-> 1,
             temp |-> 0, result |-> 0, quiet |-> TRUE, same |-> TRUE]

TypeOK ==
    /\ regions \in [Slots -> Region] /\ nregions \in 0..MaxRegions
    /\ msg \in Seq(Region) /\ Len(msg) <= MaxRegions
    /\ idx \in 0..Len(msg) /\ field \in 1..(Len(Fields) + 1)
    /\ table \in Seq(Region) /\ Len(table) <= MaxRegions
    /\ map \in [Threads -> [pc : {"idle", "test", "low", "high", "size", "load", "sub", "done"},
                            key : Keys, addr : Nat, idx : 1..(MaxRegions + 1),
                            temp : Nat, result : Int, quiet : BOOLEAN, same : BOOLEAN]]

\* The regions are not initialised: what they hold does not matter.
Init ==
    /\ \E junk \in {0, 1} :
         regions = [k \in Slots |-> [guest_phys_addr |-> 0, memory_size |-> junk,
                                     userspace_addr |-> 0, mmap_addr |-> junk]]
    /\ nregions = 0 /\ msg = <<>> /\ idx = 0 /\ field = 1
    /\ table = <<>>
    /\ map = [t \in Threads |-> NoSearch]

-----------------------------------------------------------------------------
(* _set_mem_table, in the main thread.                                      *)

\* A message arrives.  QEMU sends none without a region.
SetMemTable(blocks) ==
    /\ idx = 0 /\ ~Searching("main")
    /\ MemTable(blocks) # <<>>
    /\ msg' = MemTable(blocks) /\ idx' = 1 /\ field' = 1
    /\ nregions' = 0
    /\ map' = [map EXCEPT !["transport"].quiet = FALSE,
                          !["transport"].same = @ /\ MemTable(blocks) = table]
    /\ UNCHANGED <<regions, table>>

StoreField ==
    /\ idx # 0 /\ field <= Len(Fields)
    /\ regions' = [regions EXCEPT ![idx][Fields[field]] = msg[idx][Fields[field]]]
    /\ field' = field + 1
    /\ UNCHANGED <<nregions, msg, idx, table, map>>

\* init_shm_from_fd returns 0 when mmap fails.
MapFailed ==
    /\ MapFails
    /\ idx # 0 /\ field = Len(Fields)
    /\ regions' = [regions EXCEPT ![idx].mmap_addr = 0]
    /\ field' = field + 1
    /\ UNCHANGED <<nregions, msg, idx, table, map>>

\* The region counts, whether it could be mapped or not; after the last one
\* the handler returns.
CountRegion ==
    /\ idx # 0 /\ field > Len(Fields)
    /\ nregions' = nregions + 1
    /\ field' = 1
    /\ IF idx < Len(msg)
       THEN idx' = idx + 1 /\ UNCHANGED <<msg, table>>
       ELSE idx' = 0 /\ table' = msg /\ msg' = <<>>
    /\ UNCHANGED <<regions, map>>

-----------------------------------------------------------------------------
(* _map_guest_addr and _map_user_addr, in thread t.                         *)

\* A search begins: in the main thread for the addresses of a ring and for
\* buffers, in the transport thread for buffers.
MapAddr(t, key, addr) ==
    /\ ~Searching(t)
    /\ IF t = "main" THEN idx = 0 ELSE key = "guest_phys_addr"
    /\ map' = [map EXCEPT ![t] = [pc |-> "test", key |-> key, addr |-> addr, idx |-> 1,
                                  temp |-> 0, result |-> 0, quiet |-> idx = 0,
                                  same |-> idx = 0 \/ msg = table]]
    /\ UNCHANGED setting

\* Where the search goes on: with the next load, or with the next region.
Goto(t, pc)   == map' = [map EXCEPT ![t].pc = pc, ![t].temp = 0]
NextRegion(t) == map' = [map EXCEPT ![t].pc = "test", ![t].idx = @ + 1, ![t].temp = 0]

\* A value is loaded and kept for the next load.
Load(t, value, pc) == map' = [map EXCEPT ![t].pc = pc, ![t].temp = value]

\* Mutant: the last region is not looked at.
TestIndexShort(t) ==
    /\ map[t].pc = "test"
    /\ Goto(t, IF map[t].idx < nregions THEN "low" ELSE "done")
    /\ UNCHANGED setting

TestIndex(t) ==
    /\ map[t].pc = "test"
    /\ Goto(t, IF map[t].idx <= nregions THEN "low" ELSE "done")
    /\ UNCHANGED setting

TestLow(t) ==
    /\ map[t].pc = "low"
    /\ IF regions[map[t].idx][map[t].key] <= map[t].addr THEN Goto(t, "high") ELSE NextRegion(t)
    /\ UNCHANGED setting

LoadLow(t) ==
    /\ map[t].pc = "high"
    /\ Load(t, regions[map[t].idx][map[t].key], "size")
    /\ UNCHANGED setting

\* Mutant: the address behind the region is taken for one of it.
TestHighIncluded(t) ==
    /\ map[t].pc = "size"
    /\ IF map[t].addr <= map[t].temp + regions[map[t].idx].memory_size
       THEN Goto(t, "load") ELSE NextRegion(t)
    /\ UNCHANGED setting

TestHigh(t) ==
    /\ map[t].pc = "size"
    /\ IF map[t].addr < map[t].temp + regions[map[t].idx].memory_size
       THEN Goto(t, "load") ELSE NextRegion(t)
    /\ UNCHANGED setting

LoadMapping(t) ==
    /\ map[t].pc = "load"
    /\ Load(t, regions[map[t].idx].mmap_addr, "sub")
    /\ UNCHANGED setting

LoadResult(t) ==
    /\ map[t].pc = "sub"
    /\ map' = [map EXCEPT ![t].pc = "done", ![t].temp = 0,
                          ![t].result = map[t].temp + map[t].addr
                                          - regions[map[t].idx][map[t].key]]
    /\ UNCHANGED setting

\* The caller uses the address.
Return(t) ==
    /\ map[t].pc = "done"
    /\ map' = [map EXCEPT ![t] = NoSearch]
    /\ UNCHANGED setting

Search(t) ==
    \/ TestIndex(t) \/ TestLow(t) \/ LoadLow(t) \/ TestHigh(t)
    \/ LoadMapping(t) \/ LoadResult(t) \/ Return(t)

Next ==
    \/ \E b \in BlockLists : SetMemTable(b)
    \/ StoreField \/ MapFailed \/ CountRegion
    \/ \E t \in Threads, k \in Keys, a \in Addrs : MapAddr(t, k, a)
    \/ \E t \in Threads : Search(t)

Spec == Init /\ [][Next]_vars

-----------------------------------------------------------------------------
(* Properties.                                                             *)

Within(r, key, addr) == r[key] <= addr /\ addr < r[key] + r.memory_size

\* r is the result of a search for addr in the regions of tab.
Translates(tab, key, addr, r) ==
    \/ \E k \in DOMAIN tab : /\ Within(tab[k], key, addr)
                             /\ r = tab[k].mmap_addr + addr - tab[k][key]
    \/ r = 0 /\ \A k \in DOMAIN tab : ~Within(tab[k], key, addr)

AllMapped == \A k \in 1..nregions : regions[k].mmap_addr # 0

(* A search during which no table is filled returns the memory the last     *)
(* table gives the address, and 0 exactly when it gives it none, if every   *)
(* region of that table could be mapped.                                    *)
QuietSearch ==
    \A t \in Threads :
        map[t].pc = "done" /\ map[t].quiet /\ AllMapped =>
            Translates(table, map[t].key, map[t].addr, map[t].result)

(* When QEMU sends the same table again, as it does at every change of the  *)
(* guest's layout, a search of the transport thread that runs into it, or   *)
(* meets a region that could not be mapped, may fail, but it never leads to *)
(* memory that belongs to another address.                                  *)
NeverOthersMemory ==
    \A t \in Threads : map[t].pc = "done" /\ map[t].same =>
        \/ Translates(table, map[t].key, map[t].addr, map[t].result)
        \/ \A k \in DOMAIN table :
              map[t].result \notin table[k].mmap_addr..(table[k].mmap_addr + table[k].memory_size - 1)

\* The page of the block pc.ram behind a guest page: the block is visible
\* below and above the hole.
GuestRam(b, addr) == IF addr < RamEnd THEN b.memory + addr ELSE b.memory + addr - Hole
IsRam(b, addr)    == addr < RamEnd \/ (addr >= RamEnd + Hole /\ addr < b.length + Hole)

(* A search for a guest address returns the memory the guest sees there,    *)
(* for the addresses of the machine's main memory (the first block), when   *)
(* the guest has no more of it than fits below the hole.                    *)
FindsGuestRam ==
    \A t \in Threads, b \in {l[1] : l \in BlockLists} :
        /\ map[t].pc = "done" /\ map[t].quiet /\ AllMapped /\ map[t].key = "guest_phys_addr"
        /\ table # <<>> /\ IsRam(b, map[t].addr)
        => map[t].result = GuestRam(b, map[t].addr)
=============================================================================
