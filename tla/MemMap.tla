------------------------------- MODULE MemMap -------------------------------
(***************************************************************************)
(* QEMU's copy of the guest's memory map for a vhost device: the array     *)
(* dev->mem of hw/virtio/vhost.c, kept up to date by a memory listener.    *)
(*                                                                         *)
(* The memory core (memory.c) flattens the guest's address space into      *)
(* ranges and, when the layout changes, calls vhost_begin, region_del for  *)
(* every range that is gone, region_add for every range that is new, and   *)
(* vhost_commit.  Addresses are counted in pages.  All of it runs in one   *)
(* thread under QEMU's global lock; the device may be started and stopped  *)
(* between two changes.                                                    *)
(*                                                                         *)
(* Display devices turn the logging of their memory on and off at run      *)
(* time.  For a range that stays where it is the memory core then calls    *)
(* log_start or log_stop, which vhost leaves empty: whether a page is in   *)
(* dev->mem was decided when its range was last added.                     *)
(***************************************************************************)
EXTENDS Integers, Sequences

CONSTANTS
    GuestPages,  \* number of pages of guest physical address space
    HostPages,   \* number of pages of RAM, in QEMU's address space
    BlockOf,     \* the memory region (RAM block) of each page of RAM
    Layouts,     \* the layouts of the guest's memory that may come
    RingPage,    \* the guest page the device's ring is in
    Display      \* the memory regions whose writes may be logged (display RAM)

Pages == 0..(GuestPages - 1)
Host  == 0..(HostPages - 1)
None  == HostPages                     \* not RAM

\* What is behind each guest page: a page of RAM or none, and whether the page
\* is seen through a read-only alias.
Views == [Pages -> [ram : Host \cup {None}, readonly : BOOLEAN]]

ASSUME MemAssumption ==
    /\ GuestPages \in Nat \ {0} /\ HostPages \in Nat \ {0}
    /\ DOMAIN BlockOf = Host
    /\ Layouts \subseteq Views
    /\ RingPage \in Pages

\* A range of guest memory: struct vhost_memory_region, and a section.
Region == [guest_phys_addr : Pages, memory_size : 1..GuestPages, userspace_addr : Host]

VARIABLES
    view,           \* the current layout: the RAM behind each guest page
    target,         \* the layout a running update leads to
    logging,        \* the memory regions that are logged (mr->dirty_log_mask)
    dels, adds,     \* the ranges still to be deleted and added
    updating,       \* TRUE between begin and commit
    mem,            \* dev->mem: an array of regions
    changed,        \* mem_changed_start_addr and mem_changed_end_addr
    memory_changed, started,
    ring,           \* vq->ring: the RAM page the ring was mapped to, None if stopped
    aborted,        \* an assertion has stopped QEMU
    table,          \* the regions last passed to vhost_call(VHOST_SET_MEM_TABLE), for the
                    \* running device; what a vhost-user back end makes of them is the
                    \* subject of GuestMemory
    skipped         \* history: the guest pages whose range was logged when it was last added

core == <<view, target, logging, dels, adds, updating>>
dev  == <<mem, changed, memory_changed, started, ring, aborted, table>>
vars == <<core, dev, skipped>>

LastPage(r)  == r.guest_phys_addr + r.memory_size - 1
LastHost(r) == r.userspace_addr + r.memory_size - 1
PagesOf(r)  == r.guest_phys_addr..LastPage(r)
ranges_overlap(r, s) == r.guest_phys_addr <= LastPage(s) /\ s.guest_phys_addr <= LastPage(r)

\* The RAM page an array of regions puts behind each guest page.
MappedBy(m) ==
    [p \in Pages |->
       LET at == {k \in DOMAIN m : p \in PagesOf(m[k])}
           r  == m[CHOOSE k \in at : TRUE]
       IN IF at = {} THEN None ELSE r.userspace_addr + p - r.guest_phys_addr]

\* can_merge: page p goes on where the page before it ends, in one memory region
\* and equally read-only.  dirty_log_mask and romd_mode are copied from the memory
\* region when a view is made, so they agree where the regions do.
can_merge(v, p) ==
    /\ p - 1 \in Pages /\ p \in Pages
    /\ v[p].ram # None /\ v[p].ram = v[p - 1].ram + 1
    /\ BlockOf[v[p].ram] = BlockOf[v[p - 1].ram]
    /\ v[p].readonly = v[p - 1].readonly

\* The ranges of the flattened view: maximal runs of pages that can be merged.
FlatRanges(v) ==
    {r \in Region :
        LET p == r.guest_phys_addr
            q == LastPage(r)
        IN /\ q \in Pages /\ r.userspace_addr = v[p].ram
           /\ ~can_merge(v, p) /\ ~can_merge(v, q + 1)
           /\ \A k \in (p + 1)..q : can_merge(v, k)}

\* flatrange_equal: the ranges that are in both views, which the passes leave
\* alone.  A change of logging makes no difference.
Unchanged(v, w) ==
    {r \in FlatRanges(v) \cap FlatRanges(w) :
        v[r.guest_phys_addr].readonly = w[r.guest_phys_addr].readonly}

\* memory_region_is_logging
is_logging(r) == BlockOf[r.userspace_addr] \in logging

TypeOK ==
    /\ view \in Views /\ target \in Views
    /\ logging \subseteq Display /\ skipped \subseteq Pages
    /\ dels \subseteq Region /\ adds \subseteq Region
    /\ {updating, memory_changed, started, aborted} \subseteq BOOLEAN
    /\ mem \in Seq(Region) /\ table \in Seq(Region)
    /\ changed \in [start : 0..GuestPages, end : Pages]
    /\ ring \in Host \cup {None}

Init ==
    /\ view = [p \in Pages |-> [ram |-> None, readonly |-> FALSE]] /\ target = view
    /\ logging = {} /\ skipped = {}
    /\ dels = {} /\ adds = {} /\ updating = FALSE
    /\ mem = <<>> /\ table = <<>>
    /\ changed = [start |-> GuestPages, end |-> 0]
    /\ memory_changed = FALSE /\ started = FALSE
    /\ ring = None /\ aborted = FALSE

-----------------------------------------------------------------------------
(* vhost_dev_unassign_memory and vhost_dev_assign_memory.                   *)

\* Mutant: the part behind begins with the last page of s.
BehindEarly(r, s) ==
    LET change == LastPage(s) - r.guest_phys_addr
    IN [guest_phys_addr |-> r.guest_phys_addr + change,
        memory_size     |-> r.memory_size - change,
        userspace_addr  |-> r.userspace_addr + change]

\* What is left of region r in front of and behind the range s.
InFront(r, s) == [r EXCEPT !.memory_size = s.guest_phys_addr - r.guest_phys_addr]

Behind(r, s) ==
    LET change == LastPage(s) + 1 - r.guest_phys_addr
    IN [guest_phys_addr |-> r.guest_phys_addr + change,
        memory_size     |-> r.memory_size - change,
        userspace_addr  |-> r.userspace_addr + change]

HasFront(r, s)  == ranges_overlap(r, s) /\ r.guest_phys_addr < s.guest_phys_addr
HasBehind(r, s) == ranges_overlap(r, s) /\ LastPage(s) < LastPage(r)
Remains(r, s) == ~ranges_overlap(r, s) \/ HasFront(r, s) \/ HasBehind(r, s)

Kept(r, s) == IF HasFront(r, s) THEN InFront(r, s)
              ELSE IF HasBehind(r, s) THEN Behind(r, s) ELSE r

\* What a loop over an array leaves that keeps the members at the places in K.
Select(a, K) ==
    LET F[n \in 0..Len(a)] ==
            IF n = 0 THEN <<>>
            ELSE IF n \in K THEN Append(F[n - 1], a[n]) ELSE F[n - 1]
    IN F[Len(a)]

\* Mutant: a shifted region keeps its host address.
UnassignKeepUaddr(m, s) ==
    LET kept == Select([k \in DOMAIN m |->
                          [Kept(m[k], s) EXCEPT !.userspace_addr = m[k].userspace_addr]],
                       {k \in DOMAIN m : Remains(m[k], s)})
        rear == Select([k \in DOMAIN m |-> Behind(m[k], s)],
                       {k \in DOMAIN m : HasFront(m[k], s) /\ HasBehind(m[k], s)})
    IN kept \o rear

\* Take the range s out of the array.  A region inside s is removed, one that
\* sticks out at one end is shrunk or shifted in place, and of one that sticks
\* out at both ends the rear part is added at the end of the array.
Unassign(m, s) ==
    LET kept == Select([k \in DOMAIN m |-> Kept(m[k], s)],
                       {k \in DOMAIN m : Remains(m[k], s)})
        rear == Select([k \in DOMAIN m |-> Behind(m[k], s)],
                       {k \in DOMAIN m : HasFront(m[k], s) /\ HasBehind(m[k], s)})
    IN kept \o rear

\* The assertions of vhost_dev_unassign_memory: at most one region is shrunk,
\* one shifted, and one that is split is the only one that overlaps.
UnassignAsserts(m, s) ==
    LET hit == {k \in DOMAIN m : ranges_overlap(m[k], s)}
    IN /\ \A j, k \in hit : HasFront(m[j], s) /\ HasFront(m[k], s) => j = k
       /\ \A j, k \in hit : HasBehind(m[j], s) /\ HasBehind(m[k], s) => j = k
       /\ \A k \in hit : HasFront(m[k], s) /\ HasBehind(m[k], s) => hit = {k}

\* Adjacent in the guest and in QEMU, on the same side.
Adjacent(r, s) ==
    \/ LastPage(r) + 1 = s.guest_phys_addr /\ LastHost(r) + 1 = s.userspace_addr
    \/ LastPage(s) + 1 = r.guest_phys_addr /\ LastHost(s) + 1 = r.userspace_addr

Merge(r, s) ==
    LET Least(a, b) == IF a < b THEN a ELSE b
    IN [guest_phys_addr |-> Least(r.guest_phys_addr, s.guest_phys_addr),
        memory_size     |-> r.memory_size + s.memory_size,
        userspace_addr  |-> Least(r.userspace_addr, s.userspace_addr)]

\* Mutant: a range that closes the gap between two regions is merged with the
\* first of them only.
AssignMergeOnce(acc, r) ==
    LET u == Merge(r, acc.sec)
    IN IF ~Adjacent(r, acc.sec) \/ acc.merged # 0
       THEN [acc EXCEPT !.out = Append(acc.out, r)]
       ELSE [out |-> Append(acc.out, u), merged |-> Len(acc.out) + 1, sec |-> u]

\* One round of the loop of vhost_dev_assign_memory, with the array written so
\* far, the place of the merged region in it, and the range to be put in.
AssignRegion(acc, r) ==
    LET u == Merge(r, acc.sec)
    IN IF ~Adjacent(r, acc.sec)
       THEN [acc EXCEPT !.out = Append(acc.out, r)]
       ELSE IF acc.merged = 0
       THEN [out |-> Append(acc.out, u), merged |-> Len(acc.out) + 1, sec |-> u]
       ELSE [out |-> [acc.out EXCEPT ![acc.merged] = u], merged |-> acc.merged, sec |-> u]

\* Put the range s into the array: it grows by every region it meets that is
\* adjacent to it, takes the place of the first and removes the others.
Assign(m, s) ==
    LET F[n \in 0..Len(m)] ==
            IF n = 0 THEN [out |-> <<>>, merged |-> 0, sec |-> s]
            ELSE AssignRegion(F[n - 1], m[n])
        all == F[Len(m)]
    IN IF all.merged = 0 THEN Append(all.out, s) ELSE all.out

\* The assertion of vhost_dev_assign_memory.
AssignAsserts(m, s) == \A k \in DOMAIN m : ~ranges_overlap(m[k], s)

-----------------------------------------------------------------------------
(* The listener.                                                            *)

\* vhost_dev_find_reg: the first region that overlaps s, 0 for none.
find_reg(m, s) ==
    LET hit == {k \in DOMAIN m : ranges_overlap(m[k], s)}
    IN IF hit = {} THEN 0 ELSE CHOOSE k \in hit : \A j \in hit : k <= j

\* vhost_dev_cmp_memory: the section is not mapped as it stands.
cmp_memory(m, s) ==
    LET k == find_reg(m, s)
        r == m[k]
    IN \/ k = 0
       \/ s.guest_phys_addr < r.guest_phys_addr \/ LastPage(s) > LastPage(r)
       \/ s.userspace_addr # r.userspace_addr + s.guest_phys_addr - r.guest_phys_addr

\* Mutant: the changed range starts with the last section only.
ChangeRangeRestart(s) == [start |-> s.guest_phys_addr, end |-> LastPage(s)]

\* The range vhost_commit checks the rings against.
ChangeRange(s) ==
    [start |-> IF s.guest_phys_addr < changed.start THEN s.guest_phys_addr ELSE changed.start,
     end   |-> IF LastPage(s) > changed.end THEN LastPage(s) ELSE changed.end]

\* Mutant: the array is not enlarged.
SlotsNoRoom == Len(mem)

\* The regions there is room for once vhost_set_memory has enlarged the array.
Slots == Len(mem) + 1

\* vhost_set_memory: a logged section is never added, and a section that is
\* already mapped, or one that is not and is to be removed, changes nothing.
vhost_set_memory(s, add) ==
    LET adding == add /\ ~is_logging(s)
        free == Unassign(mem, s)
    IN /\ IF IF adding THEN cmp_memory(mem, s) ELSE find_reg(mem, s) # 0
          THEN /\ mem' = IF adding THEN Assign(free, s) ELSE Unassign(free, s)
               /\ changed' = ChangeRange(s)
               /\ memory_changed' = TRUE
          ELSE UNCHANGED <<mem, changed, memory_changed>>

Lowest(S) == CHOOSE r \in S : \A s \in S : r.guest_phys_addr <= s.guest_phys_addr

\* Between two updates the layout changes to v and the regions in L are the ones
\* logged from now on: memory_region_set_log, memory_region_transaction_commit,
\* vhost_begin.
Begin(v, L) ==
    /\ ~updating
    /\ target' = v /\ logging' = L /\ updating' = TRUE
    /\ LET both == Unchanged(view, v)
       IN dels' = FlatRanges(view) \ both /\ adds' = FlatRanges(v) \ both
    /\ changed' = [start |-> GuestPages, end |-> 0]
    /\ UNCHANGED <<view, mem, memory_changed, started, ring, aborted, table, skipped>>

vhost_region_del ==
    /\ updating /\ dels # {}
    /\ vhost_set_memory(Lowest(dels), FALSE)
    /\ dels' = dels \ {Lowest(dels)}
    /\ UNCHANGED <<view, target, logging, adds, updating, started, ring, aborted, table, skipped>>

vhost_region_add ==
    /\ updating /\ dels = {} /\ adds # {}
    /\ vhost_set_memory(Lowest(adds), TRUE)
    /\ adds' = adds \ {Lowest(adds)}
    /\ skipped' = IF is_logging(Lowest(adds)) THEN skipped \cup PagesOf(Lowest(adds))
                                             ELSE skipped \ PagesOf(Lowest(adds))
    /\ UNCHANGED <<view, target, logging, dels, updating, started, ring, aborted, table>>

\* vhost_verify_ring_mappings, called when the layout is already the new one:
\* a ring outside the changed range is not looked at.  The read-only mark of an
\* alias does not keep cpu_physical_memory_map from the RAM; rings in memory that
\* is itself read-only (ROM), which it does not map, are left out.
verify_ring_mappings ==
    RingPage \in changed.start..changed.end => target[RingPage].ram = ring

\* Mutant: the end of the changed range is taken for the page after it.
MustSendEnd == memory_changed /\ started /\ changed.start < changed.end

\* The change is one vhost_commit has to tell the device about.
MustSend == memory_changed /\ started /\ changed.start <= changed.end

\* vhost_commit: a device that is running gets the new table.
Commit ==
    /\ updating /\ dels = {} /\ adds = {}
    /\ MustSend => verify_ring_mappings
    /\ updating' = FALSE /\ view' = target
    /\ IF MustSend
       THEN table' = mem /\ memory_changed' = FALSE
       ELSE UNCHANGED <<table, memory_changed>>
    /\ UNCHANGED <<target, logging, dels, adds, mem, changed, started, ring, aborted, skipped>>

\* The assertion of vhost_commit fails: the ring of the device has moved.
CommitAborts ==
    /\ updating /\ dels = {} /\ adds = {} /\ ~aborted
    /\ MustSend /\ ~verify_ring_mappings
    /\ aborted' = TRUE
    /\ UNCHANGED <<core, mem, changed, memory_changed, started, ring, table, skipped>>

\* vhost_dev_start sends the table, whether it has changed or not, and maps the
\* ring; it fails, and leaves the device stopped, when the ring is not in RAM.
Start ==
    /\ ~updating /\ ~started
    /\ view[RingPage].ram # None
    /\ started' = TRUE /\ table' = mem /\ ring' = view[RingPage].ram
    /\ UNCHANGED <<core, mem, changed, memory_changed, aborted, skipped>>

Stop ==
    /\ ~updating /\ started
    /\ started' = FALSE /\ table' = <<>> /\ ring' = None
    /\ UNCHANGED <<core, mem, changed, memory_changed, aborted, skipped>>

Next ==
    \/ \E v \in Layouts, L \in SUBSET Display : Begin(v, L)
    \/ vhost_region_del \/ vhost_region_add
    \/ Commit \/ CommitAborts
    \/ Start \/ Stop

Spec == Init /\ [][Next]_vars

-----------------------------------------------------------------------------
(* Properties.                                                             *)

(* Between two updates dev->mem maps exactly the RAM of the guest's layout  *)
(* whose range was not logged when it was added, each page to the place     *)
(* where QEMU has it, however the regions were split, shifted and merged    *)
(* and however often logging was turned on and off.                         *)
MapsView ==
    ~updating =>
        MappedBy(mem) = [p \in Pages |-> IF p \in skipped THEN None ELSE view[p].ram]

\* The sections of the pass that is running: the next call is for the lowest.
Pending == IF dels # {} THEN dels ELSE adds

(* dev->mem is "an unsorted array of non-overlapping memory regions", also  *)
(* in the middle of an update, and no two of its regions could be merged.   *)
NonOverlapping ==
    \A j, k \in DOMAIN mem :
        j # k => ~ranges_overlap(mem[j], mem[k]) /\ ~Adjacent(mem[j], mem[k])

(* No assertion of vhost_dev_unassign_memory or vhost_dev_assign_memory can *)
(* fail for a section the memory core passes on.                            *)
AssertionsHold ==
    Pending # {} =>
        LET s == Lowest(Pending)
        IN UnassignAsserts(mem, s) /\ AssignAsserts(Unassign(mem, s), s)

(* The room for one more region that vhost_set_memory makes is enough, even *)
(* while a region is split or before regions are merged.                    *)
FitsAllocation ==
    Pending # {} =>
        LET s == Lowest(Pending)
            m == Unassign(mem, s)
        IN Len(m) <= Slots /\ (dels = {} => Len(Assign(m, s)) <= Slots)

(* The ring of a running device is where it was when the device was         *)
(* started: no change of the layout that moves it goes unnoticed, unless    *)
(* the range it was in was logged when it was added.                        *)
RingStaysMapped ==
    started /\ ~updating /\ RingPage \notin skipped => view[RingPage].ram = ring

(* The table a running device has been given is the current one.            *)
TableIsCurrent == started /\ ~updating => table = mem
=============================================================================
