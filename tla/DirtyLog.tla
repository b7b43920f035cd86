------------------------------ MODULE DirtyLog ------------------------------
(***************************************************************************)
(* Migration of a guest whose NIC runs in a vhost device: the log in which *)
(* the device marks the pages it writes (hw/virtio/vhost.c), and the way   *)
(* of these marks to the migration bitmap and of the pages to the stream   *)
(* (arch_init.c).                                                          *)
(*                                                                         *)
(* QEMU's handlers run one at a time under the global lock, and make their *)
(* vhost calls one by one; the device writes guest memory between any two  *)
(* steps.  The device is what VhostOps talks to.  It is taken at the word  *)
(* of linux/vhost.h: it logs the writes it is told to log, at the base it  *)
(* is given.                                                               *)
(***************************************************************************)
EXTENDS Integers

CONSTANTS
    Blocks,      \* the pages of RAM, pairs <<memory region, offset>>
    Layouts,     \* the memory maps: sets of sections
    Used,        \* the guest page of the used rings
    Written,     \* the guest pages the guest posts as receive buffers
    Queues,      \* dev->vqs
    ChunkPages,  \* VHOST_LOG_BITS, the pages of a chunk of the log
    LogBuffer    \* VHOST_LOG_BUFFER, in chunks

VARIABLES
    sections,     \* dev->mem_sections; dev->mem maps the same pages
    started,      \* dev->started
    log_enabled,  \* dev->log_enabled
    log,          \* dev->log: the number of an allocated log, or 0
    log_size,     \* dev->log_size
    size, bits,   \* of each log: its chunks, 0 when it is free, and the marked pages
    features,     \* device: VHOST_F_LOG_ALL is set
    flagged,      \* device: the rings with VHOST_VRING_F_LOG
    base,         \* device: its log, or 0
    table,        \* device: guest page -> page of RAM
    running,      \* device: its rings have a backend
    dirty,        \* the pages of RAM that are marked DIRTY_MEMORY_MIGRATION
    bitmap,       \* migration_bitmap
    sending,      \* the page that ram_save_block has taken from it
    stale,        \* the pages whose contents have not been sent (history)
    excused,      \* the pages nothing is said about (history, see below)
    stage,        \* of the migration
    op, pc,       \* the handler that runs and what it does next
    want,         \* the size vhost_dev_log_resize is called with
    fresh,        \* the log it has allocated
    todo          \* the parts of the log a sync has not looked at

heap    == <<size, bits>>
dev     == <<started, log_enabled, log, log_size, heap>>
device  == <<features, flagged, base, table, running>>
ram     == <<dirty, bitmap, sending, stale, excused>>
control == <<stage, op, pc, want, fresh, todo>>
vars    == <<sections, dev, device, ram, control>>

SectionPages(s) == s.first .. (s.first + s.size - 1)
PageOf(s, p)    == <<s.mr, s.offset + p - s.first>>
Chunk(p)        == p \div ChunkPages
Mapped(l)       == UNION {SectionPages(s) : s \in l}

\* The RAM behind the guest page p, and all of it.
Ram(l, p)   == PageOf(CHOOSE s \in l : p \in SectionPages(s), p)
TableOf(l)  == [p \in Mapped(l) |-> Ram(l, p)]

\* vhost_get_log_size
vhost_get_log_size(l) ==
    1 + Chunk(CHOOSE p \in Mapped(l) : \A q \in Mapped(l) : q <= p)

None == <<"none", 0>>  \* no page

\* Sections that share a chunk of the log are neighbours in one memory region;
\* the rings are mapped, at the same place, in every layout.
ASSUME DirtyLogAssumption ==
    /\ ChunkPages \in Nat \ {0} /\ LogBuffer \in Nat
    /\ None \notin Blocks
    /\ \A l \in Layouts :
         /\ \A s \in l : s.first \in Nat /\ s.size \in Nat \ {0} /\ s.offset \in Nat
         /\ \E p \in Mapped(l) : \A q \in Mapped(l) : q <= p
         /\ \A p \in Mapped(l) : Ram(l, p) \in Blocks
         /\ Used \in Mapped(l)
         /\ \A s \in l, t \in l : \A p \in SectionPages(s), q \in SectionPages(t) :
              Chunk(p) = Chunk(q) => PageOf(t, q) = PageOf(s, q)
    /\ \A l \in Layouts, k \in Layouts : Ram(l, Used) = Ram(k, Used)

\* What g_malloc0 returns, and NULL.
Logs == 0..2
NULL == 0

TypeOK ==
    /\ sections \in Layouts
    /\ started \in BOOLEAN /\ log_enabled \in BOOLEAN
    /\ log \in Logs /\ log_size \in Nat
    /\ size \in [Logs -> Nat] /\ bits \in [Logs -> SUBSET Nat]
    /\ features \in BOOLEAN /\ flagged \subseteq Queues /\ base \in Logs
    /\ running \in BOOLEAN /\ \E l \in Layouts : table = TableOf(l)
    /\ dirty \subseteq Blocks /\ bitmap \subseteq Blocks /\ sending \in Blocks \cup {None}
    /\ stale \subseteq Blocks /\ excused \subseteq Blocks
    /\ stage \in {"none", "setup", "iterate", "complete", "done"}
    /\ op \in {"none", "enable", "disable", "start", "stop", "grow", "commit",
               "shrink", "bitmap"}
    /\ pc \in {"idle", "resize", "sync", "table", "features", "flags",
               "backend", "flush"}
    /\ want \in Nat /\ fresh \in Logs

Init ==
    /\ sections \in Layouts
    /\ started = FALSE /\ log_enabled = FALSE /\ log = NULL /\ log_size = 0
    /\ size = [i \in Logs |-> 0] /\ bits = [i \in Logs |-> {}]
    /\ features = FALSE /\ flagged = {} /\ base = NULL
    /\ table = TableOf(sections) /\ running = FALSE
    /\ dirty = {} /\ bitmap = {} /\ sending = None /\ stale = Blocks /\ excused = {}
    /\ stage = "none" /\ op = "none" /\ pc = "idle"
    /\ want = 0 /\ fresh = NULL /\ todo = {}

Run(o, l) == op' = o /\ pc' = l
Idle      == Run("none", "idle")

-----------------------------------------------------------------------------
(* The device.                                                             *)

\* What is written at p and, if logged, marked.
Write(p, logged) ==
    /\ running /\ p \in DOMAIN table
    /\ stale' = stale \cup {table[p]}
    /\ bits' = IF logged /\ base # NULL THEN [bits EXCEPT ![base] = @ \cup {p}] ELSE bits
    /\ excused' = IF logged /\ base = NULL THEN excused \cup {table[p]} ELSE excused
    /\ UNCHANGED <<sections, started, log_enabled, log, log_size, size, device, dirty,
                   bitmap, sending, control>>

\* VHOST_F_LOG_ALL: "Log all write descriptors".
WriteBuffer == \E p \in Written : Write(p, features)

\* "Log writes to used structure".
WriteUsed == \E q \in Queues : Write(Used, q \in flagged)

-----------------------------------------------------------------------------
(* vhost_sync_dirty_bitmap and vhost_dev_log_resize.                       *)

\* The chunks that the loops over sections, regions and rings look at, for the
\* guest pages ps.
SyncWork(ps) ==
    {w \in {<<s, Chunk(p)>> : s \in sections, p \in ps} :
        \E p \in ps \cap SectionPages(w[1]) : Chunk(p) = w[2]}

\* Nothing is done while the log is not in use.
SyncAll == IF log_enabled /\ started THEN SyncWork(Mapped(sections)) ELSE {}

\* vhost_dev_sync_region: one chunk is taken with atomic_xchg, and every page
\* marked in it counts as one of the section's memory region.
SyncChunk ==
    /\ pc = "sync"
    /\ \E w \in todo :
         LET marks == {p \in bits[log] : Chunk(p) = w[2]} IN
         /\ todo' = todo \ {w}
         /\ bits' = [bits EXCEPT ![log] = @ \ marks]
         /\ dirty' = dirty \cup ({PageOf(w[1], p) : p \in marks} \cap Blocks)
    /\ UNCHANGED <<sections, started, log_enabled, log, log_size, size, device, bitmap,
                   sending, stale, excused, stage, op, pc, want, fresh>>

\* A log that is free.
g_malloc0 == CHOOSE i \in Logs \ {NULL} : size[i] = 0

g_free(i) == size' = [size EXCEPT ![i] = 0] /\ bits' = [bits EXCEPT ![i] = {}]

\* Mutant: the sync covers the new memory map and not the old log.
ResizeSyncsAll ==
    /\ pc = "resize"
    /\ fresh' = g_malloc0 /\ base' = g_malloc0
    /\ size' = [size EXCEPT ![g_malloc0] = want]
    /\ todo' = SyncAll
    /\ pc' = "sync"
    /\ UNCHANGED <<sections, started, log_enabled, log, log_size, bits, features, flagged,
                   table, running, ram, stage, op, want>>

\* Mutant: the old log is freed without a sync.
ResizeWithoutSync ==
    /\ pc = "resize"
    /\ fresh' = g_malloc0 /\ base' = g_malloc0
    /\ size' = [size EXCEPT ![g_malloc0] = want]
    /\ todo' = {}
    /\ pc' = "sync"
    /\ UNCHANGED <<sections, started, log_enabled, log, log_size, bits, features, flagged,
                   table, running, ram, stage, op, want>>

\* vhost_dev_log_resize up to the call: "Sync only the range covered by the
\* old log".
Resize ==
    /\ pc = "resize"
    /\ fresh' = g_malloc0 /\ base' = g_malloc0
    /\ size' = [size EXCEPT ![g_malloc0] = want]
    /\ todo' = IF log_enabled
               THEN SyncWork({p \in Mapped(sections) : p < log_size * ChunkPages})
               ELSE {}
    /\ pc' = "sync"
    /\ UNCHANGED <<sections, started, log_enabled, log, log_size, bits, features, flagged,
                   table, running, ram, stage, op, want>>

\* The rest of it.
ResizeDone ==
    /\ pc = "sync" /\ todo = {} /\ op \in {"enable", "grow", "shrink"}
    /\ g_free(log)
    /\ log' = fresh /\ log_size' = want /\ fresh' = NULL /\ want' = 0
    /\ CASE op = "enable" -> Run("enable", "features")
         [] op = "grow"   -> Run("commit", "table")
         [] op = "shrink" -> Idle
    /\ UNCHANGED <<sections, started, log_enabled, device, ram, stage, todo>>

-----------------------------------------------------------------------------
(* The other vhost calls.                                                  *)

\* vhost_dev_set_features
SetFeatures ==
    /\ pc = "features"
    /\ features' = IF op = "start" THEN log_enabled ELSE op = "enable"
    /\ pc' = IF op = "start" THEN "table" ELSE "flags"
    /\ todo' = Queues
    /\ UNCHANGED <<sections, dev, flagged, base, table, running, ram, stage, op, want, fresh>>

\* vhost_virtqueue_set_addr, for each queue.
SetVringAddr ==
    /\ pc = "flags"
    /\ \E q \in todo :
         /\ flagged' = IF features THEN flagged \cup {q} ELSE flagged \ {q}
         /\ todo' = todo \ {q}
    /\ UNCHANGED <<sections, dev, features, base, table, running, ram, stage, op, pc, want,
                   fresh>>

\* VHOST_SET_MEM_TABLE, in vhost_dev_start and in vhost_commit: "To log less,
\* can only decrease log size after table update".
SetMemTable ==
    /\ pc = "table"
    /\ table' = TableOf(sections)
    /\ LET need == vhost_get_log_size(sections) IN
       IF op = "start" THEN pc' = "flags" /\ UNCHANGED <<op, want>>
       ELSE IF log_enabled /\ log_size > need + LogBuffer
       THEN Run("shrink", "resize") /\ want' = need
       ELSE Idle /\ UNCHANGED want
    /\ UNCHANGED <<sections, dev, features, flagged, base, running, ram, stage, fresh, todo>>

-----------------------------------------------------------------------------
(* vhost_commit.                                                           *)

\* Mutant: the table is updated before the log has grown.
CommitTableFirst(l) ==
    /\ pc = "idle" /\ l # sections
    /\ sections' = l
    /\ excused' = excused \cup {Ram(sections, p) : p \in Mapped(sections) \ Mapped(l)}
    /\ IF started THEN Run("commit", "table") ELSE UNCHANGED <<op, pc>>
    /\ UNCHANGED <<dev, device, dirty, bitmap, sending, stale, stage, want, fresh, todo>>

\* The memory map changes to l.  A page of RAM that is not where it was is
\* excused from now on: its marks are not looked at any more.
Commit(l) ==
    /\ pc = "idle" /\ l # sections
    /\ sections' = l
    /\ excused' = excused \cup
         {Ram(sections, p) : p \in {q \in Mapped(sections) :
                                       q \notin Mapped(l) \/ Ram(l, q) # Ram(sections, q)}}
    /\ LET need == vhost_get_log_size(l) IN
       IF ~started THEN UNCHANGED <<op, pc, want>>
       ELSE IF log_enabled /\ log_size < need
       THEN Run("grow", "resize") /\ want' = need + LogBuffer
       ELSE Run("commit", "table") /\ UNCHANGED want
    /\ UNCHANGED <<dev, device, dirty, bitmap, sending, stale, stage, fresh, todo>>

-----------------------------------------------------------------------------
(* vhost_dev_start and vhost_dev_stop.                                     *)

DevStart ==
    /\ pc = "idle" /\ ~started /\ stage \notin {"complete", "done"}
    /\ started' = TRUE
    /\ Run("start", "features")
    /\ UNCHANGED <<sections, log_enabled, log, log_size, heap, device, ram, stage, want,
                   fresh, todo>>

\* The log of a device that is started during a migration.  VHOST_SET_LOG_BASE
\* is given the log where it takes a pointer to its address: the device gets
\* the first word of it, which is 0.
StartLog ==
    /\ pc = "flags" /\ todo = {} /\ op = "start"
    /\ pc' = "backend"
    /\ IF log_enabled
       THEN /\ log_size' = vhost_get_log_size(sections)
            /\ log' = g_malloc0 /\ base' = NULL
            /\ size' = [size EXCEPT ![g_malloc0] = log_size']
       ELSE UNCHANGED <<log, log_size, size, base>>
    /\ UNCHANGED <<sections, started, log_enabled, bits, features, flagged, table, running,
                   ram, stage, op, want, fresh, todo>>

\* VHOST_NET_SET_BACKEND
SetBackend ==
    /\ pc = "backend"
    /\ running' = TRUE
    /\ Idle
    /\ UNCHANGED <<sections, dev, features, flagged, base, table, ram, stage, want, fresh,
                   todo>>

\* Mutant: the log is not looked at once more.
DevStopWithoutSync ==
    /\ started
    /\ running' = FALSE
    /\ Run("stop", "sync") /\ todo' = {}
    /\ UNCHANGED <<sections, dev, features, flagged, base, table, ram, want, fresh>>

\* VHOST_NET_SET_BACKEND with -1, vhost_virtqueue_stop, and then the last sync.
DevStop ==
    /\ started
    /\ running' = FALSE
    /\ Run("stop", "sync") /\ todo' = SyncAll
    /\ UNCHANGED <<sections, dev, features, flagged, base, table, ram, want, fresh>>

\* The guest resets the device.
Reset == pc = "idle" /\ stage # "done" /\ DevStop /\ UNCHANGED stage

StopDone ==
    /\ pc = "sync" /\ todo = {} /\ op = "stop"
    /\ started' = FALSE
    /\ g_free(log) /\ log' = NULL /\ log_size' = 0
    /\ IF stage = "complete" THEN Run("bitmap", "sync") ELSE Idle
    /\ UNCHANGED <<sections, log_enabled, device, ram, stage, want, fresh, todo>>

-----------------------------------------------------------------------------
(* vhost_migration_log.                                                     *)

\* The last of the calls that switch logging on.
EnableDone ==
    /\ pc = "flags" /\ todo = {} /\ op = "enable"
    /\ log_enabled' = TRUE
    /\ Run("bitmap", "sync")
    /\ todo' = SyncWork(Mapped(sections))
    /\ UNCHANGED <<sections, started, log, log_size, heap, device, ram, stage, want, fresh>>

\* The last of the calls that switch it off.
DisableDone ==
    /\ pc = "flags" /\ todo = {} /\ op = "disable"
    /\ log_enabled' = FALSE
    /\ g_free(log) /\ log' = NULL /\ log_size' = 0
    /\ Idle
    /\ UNCHANGED <<sections, started, device, ram, stage, want, fresh, todo>>

-----------------------------------------------------------------------------
(* The migration thread.                                                    *)

\* ram_save_setup: every page is to be sent; vhost_log_global_start.
Setup ==
    /\ pc = "idle" /\ stage = "none"
    /\ stage' = "setup"
    /\ bitmap' = Blocks /\ excused' = {}
    /\ IF started
       THEN /\ Run("enable", "resize")
            /\ want' = vhost_get_log_size(sections)
            /\ UNCHANGED log_enabled
       ELSE /\ log_enabled' = TRUE
            /\ Run("bitmap", "sync") /\ UNCHANGED want
    /\ UNCHANGED <<sections, started, log, log_size, heap, device, dirty, sending, stale, fresh,
                   todo>>

\* migration_bitmap_sync, from ram_save_pending.
BitmapSync ==
    /\ pc = "idle" /\ stage = "iterate" /\ sending = None
    /\ Run("bitmap", "sync") /\ todo' = SyncAll
    /\ UNCHANGED <<sections, dev, device, ram, stage, want, fresh>>

\* The marks go to the migration bitmap.
SyncDone ==
    /\ pc = "sync" /\ todo = {} /\ op = "bitmap"
    /\ bitmap' = bitmap \cup dirty /\ dirty' = {}
    /\ stage' = IF stage = "setup" THEN "iterate" ELSE stage
    /\ IF stage = "complete" THEN Run("bitmap", "flush") ELSE Idle
    /\ UNCHANGED <<sections, dev, device, sending, stale, excused, want, fresh, todo>>

\* ram_save_block: the page is taken from the bitmap ...
SaveBlock ==
    /\ (stage = "iterate" /\ op # "bitmap") \/ pc = "flush"
    /\ sending = None
    /\ \E r \in bitmap : sending' = r /\ bitmap' = bitmap \ {r}
    /\ UNCHANGED <<sections, dev, device, dirty, stale, excused, control>>

\* ... and then read and sent.
SendPage ==
    /\ sending # None
    /\ stale' = stale \ {sending} /\ sending' = None
    /\ UNCHANGED <<sections, dev, device, dirty, bitmap, excused, control>>

\* The guest is stopped, with its devices, and ram_save_complete begins.
Complete ==
    /\ pc = "idle" /\ stage = "iterate" /\ sending = None
    /\ stage' = "complete"
    /\ IF started THEN DevStop
       ELSE /\ Run("bitmap", "sync")
            /\ UNCHANGED <<sections, dev, device, ram, want, fresh, todo>>

\* migration_end, in ram_save_complete ...
Finish ==
    /\ pc = "flush" /\ bitmap = {} /\ sending = None
    /\ log_enabled' = FALSE
    /\ stage' = "done" /\ Idle
    /\ UNCHANGED <<sections, started, log, log_size, heap, device, ram, want, fresh, todo>>

\* ... and in ram_migration_cancel.  What was sent is of no use any more.
Cancel ==
    /\ pc = "idle" /\ stage = "iterate" /\ sending = None
    /\ stage' = "none" /\ bitmap' = {} /\ stale' = Blocks
    /\ IF started THEN Run("disable", "features") /\ UNCHANGED log_enabled
       ELSE log_enabled' = FALSE /\ UNCHANGED <<op, pc>>
    /\ UNCHANGED <<sections, started, log, log_size, heap, device, dirty, sending, excused,
                   want, fresh, todo>>

-----------------------------------------------------------------------------
Device == WriteBuffer \/ WriteUsed

Vhost ==
    \/ Resize \/ SyncChunk \/ ResizeDone \/ SetFeatures \/ SetVringAddr \/ SetMemTable
    \/ StartLog \/ SetBackend \/ StopDone \/ EnableDone \/ DisableDone

Migration ==
    \/ Setup \/ BitmapSync \/ SyncDone \/ SaveBlock \/ SendPage \/ Complete \/ Finish
    \/ Cancel

Next ==
    \/ Device \/ Vhost \/ Migration
    \/ DevStart \/ Reset
    \/ \E l \in Layouts : Commit(l)

Spec == Init /\ [][Next]_vars

-----------------------------------------------------------------------------
(* Properties.                                                             *)

(* The log the device has covers what it logs: the pages of the memory     *)
(* table it has, and the used rings.  The comments of vhost_commit ask for *)
(* this: "To log more, must increase log size before table update", and    *)
(* "To log less, can only decrease log size after table update".  A log    *)
(* that has been freed has no size.                                        *)
LogCovers ==
    running /\ base # NULL =>
        /\ features => \A p \in DOMAIN table : Chunk(p) < size[base]
        /\ flagged # {} => Chunk(Used) < size[base]

(* The assertions of vhost_dev_sync_region hold: a sync looks only at      *)
(* chunks that the log has, whatever became of the memory map since it was *)
(* allocated.                                                              *)
SyncInLog == pc = "sync" => \A w \in todo : w[2] < log_size /\ log_size = size[log]

\* The pages of RAM that are marked in the log i.
Marked(i) == {Ram(sections, p) : p \in bits[i] \cap Mapped(sections)}

(* No page that the device has written since it was sent is forgotten, on  *)
(* whichever of its ways the mark is: the log of the device, the old log   *)
(* while a new one replaces it, the dirty bitmap, the migration bitmap.    *)
(* Pages written without a log (StartLog) and pages whose place in the     *)
(* memory map has changed are excused.                                     *)
NothingLost ==
    stage \in {"iterate", "complete"} =>
        stale \ excused \subseteq
            bitmap \cup dirty \cup {sending} \cup Marked(log) \cup Marked(fresh)

(* At the end of the migration the destination has the contents of every   *)
(* page, as it was when the device stopped.                                *)
MigratedIsCurrent == stage = "done" => stale \subseteq excused
=============================================================================
