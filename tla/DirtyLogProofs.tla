--------------------------- MODULE DirtyLogProofs ---------------------------
(***************************************************************************)
(* The inductive invariant of DirtyLog, the proof that every step keeps    *)
(* it, and what follows from it: the log is always large enough, a sync    *)
(* stays inside it, no write of the device is forgotten, and the           *)
(* destination of a completed migration is up to date.  All of it is for   *)
(* every set of memory layouts, every number of queues and every size of a *)
(* chunk that DirtyLogAssumption admits.                                   *)
(***************************************************************************)
EXTENDS DirtyLog, TLAPS

Resizing == op \in {"enable", "grow", "shrink"} /\ pc \in {"resize", "sync"}

\* The log the device is to write to.
Current == IF fresh # NULL THEN fresh ELSE log

\* Which handler can be where, and when.
ControlInv ==
    /\ (pc = "idle") <=> (op = "none")
    /\ pc = "resize" => op \in {"enable", "grow", "shrink"}
    /\ pc = "sync" => op \in {"enable", "grow", "shrink", "stop", "bitmap"}
    /\ pc = "table" => op \in {"start", "commit"}
    /\ pc \in {"features", "flags"} => op \in {"start", "enable", "disable"}
    /\ pc = "backend" => op = "start"
    /\ pc = "flush" => op = "bitmap" /\ stage = "complete" /\ dirty = {}
    /\ pc \notin {"sync", "flags", "table"} => todo = {}
    /\ pc = "table" => todo = IF op = "start" THEN Queues ELSE {}
    /\ pc = "flags" => todo \subseteq Queues
    /\ op \notin {"none", "bitmap"} => started
    /\ running <=> (started /\ op \notin {"start", "stop"})
    /\ op = "enable" => ~log_enabled /\ stage = "setup"
    /\ op \in {"grow", "shrink"} => log_enabled
    /\ op = "disable" => log_enabled /\ stage = "none"
    /\ stage = "none" /\ log_enabled => op = "disable"
    /\ stage = "setup" => op = "enable" \/ (op = "bitmap" /\ log_enabled)
    /\ stage = "iterate" => log_enabled
    /\ stage = "complete" => log_enabled /\ (op = "stop" \/ (op = "bitmap" /\ ~started))
    /\ stage = "done" => ~log_enabled /\ ~started

\* Which logs are allocated.
AllocInv ==
    /\ size[NULL] = 0 /\ bits[NULL] = {}
    /\ \A i \in Logs : size[i] > 0 => i \in {log, fresh}
    /\ \A i \in Logs : \A p \in bits[i] : Chunk(p) < size[i]
    /\ size[log] = log_size /\ (log # NULL => log_size > 0)
    /\ fresh # NULL => fresh # log /\ size[fresh] = want
    /\ (fresh # NULL) <=> (Resizing /\ pc = "sync")
    /\ Resizing => want > 0
    /\ log # NULL =>
         /\ started
         /\ log_enabled \/ (op = "enable" /\ ~Resizing)
         /\ op = "start" => pc = "backend"
    /\ log = NULL =>
         /\ started /\ log_enabled => op = "start" /\ pc # "backend"
         /\ op = "enable" => Resizing

\* The logs are large enough, for the memory map that QEMU has and for the one
\* that the device has.
CoverInv ==
    /\ log # NULL /\ op # "grow" => vhost_get_log_size(sections) <= log_size
    /\ Resizing => vhost_get_log_size(sections) <= want
    /\ op = "grow" => log_size < want
    /\ running /\ log # NULL => \A p \in DOMAIN table : Chunk(p) < log_size
    /\ running /\ op \notin {"grow", "commit"} => table = TableOf(sections)
    /\ op = "start" /\ pc \in {"flags", "backend"} => table = TableOf(sections)

\* What the device has been told to log, and where.
DeviceInv ==
    /\ running /\ (features \/ flagged # {}) => base \in {NULL, Current}
    /\ running /\ log_enabled /\ op # "disable" => features /\ flagged = Queues
    /\ running /\ ~log_enabled /\ op # "enable" => ~features /\ flagged = {}
    /\ op = "enable" /\ (Resizing \/ pc = "features") => ~features /\ flagged = {}
    /\ op = "enable" /\ pc # "resize" => base = Current
    /\ pc = "flags" /\ op = "enable" => features
    /\ pc = "flags" /\ op = "disable" => ~features
    /\ op = "start" /\ pc # "features" => features = log_enabled
    /\ pc = "flags" => IF features THEN Queues \ todo \subseteq flagged
                      ELSE flagged \subseteq todo
    /\ pc = "backend" => flagged = IF features THEN Queues ELSE {}
    /\ pc = "backend" /\ log_enabled => base = NULL

\* What a sync has still to look at, and that this is all there is to find when
\* nothing is added to the log any more.
SyncInv ==
    pc = "sync" =>
        /\ todo # {} => log # NULL
        /\ \A w \in todo :
             /\ w[1] \in sections
             /\ \E p \in SectionPages(w[1]) : Chunk(p) = w[2] /\ Chunk(p) < log_size
        /\ op \in {"grow", "shrink", "stop"} =>
             \A p \in bits[log] \cap Mapped(sections) :
                 \E w \in todo : p \in SectionPages(w[1]) /\ Chunk(p) = w[2]

\* Where the device writes, and where the marks of it are.
HistoryInv ==
    /\ running => \A p \in DOMAIN table :
         table[p] \in excused \/ (p \in Mapped(sections) /\ Ram(sections, p) = table[p])
    /\ stage = "setup" => bitmap = Blocks
    /\ NothingLost
    /\ MigratedIsCurrent

LogInv == TypeOK /\ ControlInv /\ AllocInv /\ CoverInv /\ DeviceInv /\ SyncInv /\ HistoryInv

-----------------------------------------------------------------------------
(* Lemmas about the layouts.                                               *)

(* The pages below the end of the n-th chunk are those of n chunks.        *)
LEMMA ChunkRange ==
    ASSUME NEW p \in Nat, NEW n \in Nat
    PROVE  /\ Chunk(p) \in Nat
           /\ (p < n * ChunkPages) <=> (Chunk(p) < n)
  BY DirtyLogAssumption, SMT DEF Chunk

(* Chunks are in the order of their pages.                                 *)
LEMMA ChunkMono ==
    ASSUME NEW p \in Nat, NEW q \in Nat, p <= q PROVE Chunk(p) <= Chunk(q)
  BY DirtyLogAssumption, SMT DEF Chunk

(* A mapped page lies in a section, and a section's pages are mapped.      *)
LEMMA MappedPages ==
    ASSUME NEW l \in Layouts
    PROVE  /\ Mapped(l) \subseteq Nat
           /\ \A p : p \in Mapped(l) <=> \E s \in l : p \in SectionPages(s)
<1>1. \A p : p \in Mapped(l) <=> \E s \in l : p \in SectionPages(s)
  BY Zenon DEF Mapped
<1>2. \A s \in l : s.first \in Nat /\ s.size \in Nat
  BY DirtyLogAssumption
<1>3. ASSUME NEW s \in l, NEW p \in SectionPages(s) PROVE p \in Nat
  BY <1>2, <1>3, SMT DEF SectionPages
<1> QED
  BY <1>1, <1>3, Zenon

(* vhost_get_log_size counts the chunk of every mapped page.               *)
LEMMA LogSizeCovers ==
    ASSUME NEW l \in Layouts
    PROVE  /\ vhost_get_log_size(l) \in Nat /\ vhost_get_log_size(l) > 0
           /\ \A p \in Mapped(l) : Chunk(p) < vhost_get_log_size(l)
<1> DEFINE last == CHOOSE p \in Mapped(l) : \A q \in Mapped(l) : q <= p
<1>1. \E p \in Mapped(l) : \A q \in Mapped(l) : q <= p
  BY DirtyLogAssumption
<1>2. last \in Mapped(l) /\ \A q \in Mapped(l) : q <= last
  BY <1>1, Zenon
<1>3. last \in Nat /\ Chunk(last) \in Nat
  BY <1>2, MappedPages, ChunkRange, Zenon
<1>4. vhost_get_log_size(l) = 1 + Chunk(last)
  BY Zenon DEF vhost_get_log_size
<1>5. ASSUME NEW p \in Mapped(l) PROVE Chunk(p) < vhost_get_log_size(l)
  <2>1. p \in Nat /\ p <= last
    BY <1>2, MappedPages
  <2>2. Chunk(p) <= Chunk(last) /\ Chunk(p) \in Nat
    BY <1>3, <2>1, ChunkMono, ChunkRange
  <2> QED
    BY <1>3, <1>4, <2>2
<1> HIDE DEF last
<1> QED
  BY <1>3, <1>4, <1>5

(* The table that vhost_set_memory keeps: which pages it has, and the RAM  *)
(* behind each of them.                                                    *)
LEMMA TablePages ==
    ASSUME NEW l \in Layouts
    PROVE  /\ DOMAIN TableOf(l) = Mapped(l)
           /\ \A p \in Mapped(l) : TableOf(l)[p] = Ram(l, p) /\ Ram(l, p) \in Blocks
           /\ Used \in Mapped(l)
  BY DirtyLogAssumption, Zenon DEF TableOf

(* A mark in a chunk that a section touches is attributed to the RAM that  *)
(* is mapped there.                                                        *)
LEMMA SameChunk ==
    ASSUME NEW l \in Layouts, NEW s \in l, NEW q \in SectionPages(s),
           NEW p \in Mapped(l), Chunk(p) = Chunk(q)
    PROVE  PageOf(s, p) = Ram(l, p)
<1> DEFINE t == CHOOSE u \in l : p \in SectionPages(u)
<1>1. t \in l /\ p \in SectionPages(t)
  BY MappedPages, ZenonT(60)
<1>2. PageOf(t, p) = PageOf(s, p)
  BY <1>1, DirtyLogAssumption, ZenonT(150)
<1> QED
  BY <1>2, Zenon DEF Ram

(* What a sync has to look at is in a section, and every page it is about  *)
(* is looked at.                                                           *)
LEMMA WorkPages ==
    ASSUME NEW ps, ps \subseteq Mapped(sections), sections \in Layouts
    PROVE  /\ \A w \in SyncWork(ps) :
                /\ w[1] \in sections
                /\ \E p \in SectionPages(w[1]) : p \in ps /\ Chunk(p) = w[2]
           /\ \A p \in ps : \E w \in SyncWork(ps) : p \in SectionPages(w[1]) /\ Chunk(p) = w[2]
<1>1. ASSUME NEW w \in SyncWork(ps)
      PROVE  /\ w[1] \in sections
             /\ \E p \in SectionPages(w[1]) : p \in ps /\ Chunk(p) = w[2]
  <2>1. PICK s \in sections, p \in ps : w = <<s, Chunk(p)>>
    BY SMT DEF SyncWork
  <2>2. w[1] = s
    BY <2>1, SMT
  <2>3. \E q \in ps \cap SectionPages(w[1]) : Chunk(q) = w[2]
    BY SMT DEF SyncWork
  <2> QED
    BY <2>2, <2>3, Zenon
<1>2. ASSUME NEW p \in ps
      PROVE  \E w \in SyncWork(ps) : p \in SectionPages(w[1]) /\ Chunk(p) = w[2]
  <2>1. PICK s \in sections : p \in SectionPages(s)
    BY MappedPages, ZenonT(60)
  <2> DEFINE w == <<s, Chunk(p)>>
  <2>2. w[1] = s /\ w[2] = Chunk(p)
    BY SMT
  <2> HIDE DEF w
  <2>3. p \in ps \cap SectionPages(w[1]) /\ Chunk(p) = w[2]
    BY <2>1, <2>2, Zenon
  <2>4. w \in SyncWork(ps)
    BY <2>3, SMT DEF SyncWork, w
  <2> QED
    BY <2>3, <2>4, Zenon
<1> QED
  BY <1>1, <1>2, Zenon

-----------------------------------------------------------------------------
(* Lemmas about the state.                                                 *)

(* The invariant is the conjunction of its parts.                          *)
LEMMA LogParts ==
    LogInv => /\ TypeOK /\ ControlInv /\ AllocInv /\ CoverInv
              /\ DeviceInv /\ SyncInv /\ HistoryInv
  BY DEF LogInv

(* The pages of the device's memory table are pages of RAM.                *)
LEMMA DevicePages ==
    ASSUME LogInv
    PROVE  /\ \A p \in DOMAIN table : p \in Nat /\ table[p] \in Blocks
           /\ Used \in DOMAIN table
<1> USE LogParts
<1>1. PICK l \in Layouts : table = TableOf(l)
  BY Zenon DEF TypeOK
<1> QED
  BY <1>1, TablePages, MappedPages, Zenon

(* While no log is being replaced, one of the two is free.                 *)
LEMMA FreeLog ==
    ASSUME LogInv, fresh = NULL
    PROVE  /\ g_malloc0 \in Logs /\ g_malloc0 # NULL /\ g_malloc0 # log
           /\ size[g_malloc0] = 0 /\ bits[g_malloc0] = {}
<1> USE LogParts
<1>1. \E i \in Logs \ {NULL} : size[i] = 0
  <2>1. \E i \in Logs \ {NULL} : i # log
    BY DEF TypeOK, Logs, NULL
  <2> QED
    BY <2>1 DEF TypeOK, AllocInv
<1>2. g_malloc0 \in Logs \ {NULL} /\ size[g_malloc0] = 0
  BY <1>1, Zenon DEF g_malloc0
<1>3. g_malloc0 # log
  BY <1>2 DEF AllocInv, TypeOK
<1>4. ASSUME NEW p \in bits[g_malloc0] PROVE FALSE
  <2>1. Chunk(p) \in Nat
    BY <1>2, ChunkRange, Zenon DEF TypeOK
  <2> QED
    BY <1>2, <2>1 DEF AllocInv
<1> QED
  BY <1>2, <1>3, <1>4, Zenon

(* The log size of the present layout.                                     *)
LEMMA NeedNat ==
    ASSUME LogInv
    PROVE  vhost_get_log_size(sections) \in Nat /\ vhost_get_log_size(sections) > 0
  BY LogParts, LogSizeCovers, Zenon DEF TypeOK

(* The device logs into the log that QEMU is going to look at, and that    *)
(* has room for every page the device can write.                           *)
LEMMA LoggedInLog ==
    ASSUME LogInv, running, features \/ flagged # {}, base # NULL
    PROVE  /\ base = Current /\ base \in {log, fresh} /\ base \in Logs
           /\ \A p \in DOMAIN table : Chunk(p) < size[base]
<1> USE LogParts
<1>1. base = Current
  BY Zenon DEF DeviceInv
<1>2. base \in {log, fresh} /\ base \in Logs
  BY <1>1, Zenon DEF Current, TypeOK
<1>3. ASSUME fresh # NULL PROVE \A p \in DOMAIN table : Chunk(p) < size[base]
  <2>1. base = fresh /\ size[fresh] = want /\ Resizing /\ pc = "sync"
    BY <1>1, <1>3, Zenon DEF AllocInv, Current
  <2>2. want \in Nat /\ log_size \in Nat /\ sections \in Layouts
    BY Zenon DEF TypeOK
  <2>3. CASE op = "grow"
    <3>1. log # NULL
      BY <2>3, Zenon DEF AllocInv, ControlInv
    <3>2. \A p \in DOMAIN table : Chunk(p) \in Nat /\ Chunk(p) < log_size
      BY <3>1, DevicePages, ChunkRange, Zenon DEF CoverInv
    <3> QED
      BY <2>1, <2>2, <2>3, <3>2 DEF CoverInv
  <2>4. CASE op # "grow"
    <3>1. table = TableOf(sections) /\ vhost_get_log_size(sections) <= want
      BY <2>1, <2>4, Zenon DEF CoverInv, Resizing
    <3>2. \A p \in DOMAIN table : Chunk(p) \in Nat /\ Chunk(p) < vhost_get_log_size(sections)
      BY <2>2, <3>1, LogSizeCovers, TablePages, DevicePages, ChunkRange, Zenon
    <3> QED
      BY <2>1, <2>2, <3>1, <3>2, NeedNat
  <2> QED
    BY <2>3, <2>4, Zenon
<1>4. ASSUME fresh = NULL PROVE \A p \in DOMAIN table : Chunk(p) < size[base]
  BY <1>1, <1>4, Zenon DEF Current, AllocInv, CoverInv
<1> QED
  BY <1>1, <1>2, <1>3, <1>4, Zenon

(* A log as large as vhost_get_log_size asks for covers the pages that are *)
(* mapped.                                                                 *)
LEMMA NeedCovers ==
    ASSUME LogInv, NEW n \in Nat, vhost_get_log_size(sections) <= n
    PROVE  \A p \in DOMAIN TableOf(sections) : Chunk(p) < n
<1> USE LogParts
<1>1. sections \in Layouts
  BY Zenon DEF TypeOK
<1>2. \A p \in Mapped(sections) : Chunk(p) \in Nat /\ Chunk(p) < vhost_get_log_size(sections)
  BY <1>1, LogSizeCovers, MappedPages, ChunkRange, Zenon
<1> QED
  BY <1>1, <1>2, NeedNat, TablePages

(* A sync that begins has all of the log to look at.                       *)
LEMMA SyncBegins ==
    ASSUME LogInv, started, log_enabled, log # NULL, op # "grow"
    PROVE  /\ \A w \in SyncWork(Mapped(sections)) :
                /\ w[1] \in sections
                /\ \E p \in SectionPages(w[1]) : Chunk(p) = w[2] /\ Chunk(p) < log_size
           /\ \A p \in bits[log] \cap Mapped(sections) :
                \E w \in SyncWork(Mapped(sections)) :
                    p \in SectionPages(w[1]) /\ Chunk(p) = w[2]
<1> USE LogParts
<1>1. sections \in Layouts /\ log_size \in Nat /\ vhost_get_log_size(sections) <= log_size
  BY Zenon DEF TypeOK, CoverInv
<1>2. \A p \in Mapped(sections) : Chunk(p) < log_size
  BY <1>1, NeedCovers, TablePages, Zenon
<1> QED
  BY <1>1, <1>2, WorkPages, Zenon

(* A step of the device is a write to a page it has; it is logged if the   *)
(* device has been told to log everything, and only if it has been told to *)
(* log something.                                                          *)
LEMMA DeviceWrites ==
    ASSUME LogInv, Device
    PROVE  \E p \in DOMAIN table, b \in BOOLEAN :
             /\ Write(p, b)
             /\ b => features \/ flagged # {}
             /\ features /\ flagged = Queues => b
  BY LogParts, Zenon DEF TypeOK, Device, WriteBuffer, WriteUsed, Write

-----------------------------------------------------------------------------
(* Every step preserves the invariant, one part of it at a time.           *)

(* The types: what is written is RAM, and what is allocated is a log.      *)
LEMMA TypeStep == LogInv /\ [Next]_vars => TypeOK'
<1> SUFFICES ASSUME LogInv, [Next]_vars PROVE TypeOK'
  BY Zenon
<1> USE LogParts
<1>1. CASE Device
  <2>1. PICK p \in DOMAIN table, b \in BOOLEAN :
               /\ Write(p, b)
               /\ b => features \/ flagged # {}
               /\ features /\ flagged = Queues => b
    BY <1>1, DeviceWrites, Zenon
  <2>2. p \in Nat /\ table[p] \in Blocks
    BY DevicePages, Zenon
  <2>3. bits' \in [Logs -> SUBSET Nat]
    BY <2>1, <2>2, Zenon DEF TypeOK, Write
  <2>4. stale' \subseteq Blocks /\ excused' \subseteq Blocks
    BY <2>1, <2>2, Zenon DEF TypeOK, Write
  <2> QED
    BY <2>1, <2>3, <2>4, SMT DEF TypeOK, Write, device, control
<1>2. CASE Resize
  <2>1. g_malloc0 \in Logs
    BY <1>2, FreeLog, Zenon DEF AllocInv, Resizing, Resize
  <2>2. size' \in [Logs -> Nat]
    BY <1>2, <2>1, Zenon DEF TypeOK, Resize
  <2> QED
    BY <1>2, <2>1, <2>2, Zenon DEF TypeOK, ControlInv, Resize, dev, device, ram, control,
       heap, Run, Idle
<1>3. CASE ResizeDone
  <2>1. size' \in [Logs -> Nat] /\ bits' \in [Logs -> SUBSET Nat]
    BY <1>3, Zenon DEF TypeOK, ResizeDone, g_free
  <2>2. 0 \in Nat /\ NULL \in Logs
    BY DEF NULL, Logs
  <2> QED
    BY <1>3, <2>1, <2>2, Zenon DEF TypeOK, ControlInv, ResizeDone, g_free, dev, device,
       ram, control, heap, Run, Idle
<1>4. CASE SetVringAddr
  <2>1. flagged' \subseteq Queues
    BY <1>4, Zenon DEF TypeOK, ControlInv, SetVringAddr
  <2> QED
    BY <1>4, <2>1, Zenon DEF TypeOK, ControlInv, SetVringAddr, dev, device, ram, control,
       heap, Run, Idle
<1>5. CASE SetMemTable
  <2>1. sections \in Layouts /\ table' = TableOf(sections)
    BY <1>5, Zenon DEF TypeOK, SetMemTable
  <2>2. want' \in Nat
    BY <1>5, NeedNat, Zenon DEF TypeOK, SetMemTable, Run, Idle
  <2>3. (\E l \in Layouts : table = TableOf(l))'
    BY <1>5, <2>1, Zenon DEF SetMemTable
  <2> QED
    BY <1>5, <2>1, <2>2, <2>3, Zenon DEF TypeOK, ControlInv, SetMemTable, dev, device, ram,
       control, heap, Run, Idle
<1>6. CASE StartLog
  <2>1. g_malloc0 \in Logs
    BY <1>6, FreeLog, Zenon DEF AllocInv, Resizing, StartLog
  <2>2. log_size' \in Nat
    BY <1>6, NeedNat, Zenon DEF TypeOK, StartLog
  <2>3. size' \in [Logs -> Nat]
    BY <1>6, <2>1, <2>2, Zenon DEF TypeOK, StartLog
  <2>4. NULL \in Logs
    BY DEF NULL, Logs
  <2> QED
    BY <1>6, <2>1, <2>2, <2>3, <2>4, Zenon DEF TypeOK, ControlInv, StartLog, dev, device,
       ram, control, heap, Run, Idle
<1>7. CASE StopDone
  <2>1. size' \in [Logs -> Nat] /\ bits' \in [Logs -> SUBSET Nat]
    BY <1>7, Zenon DEF TypeOK, StopDone, g_free
  <2>2. 0 \in Nat /\ NULL \in Logs
    BY DEF NULL, Logs
  <2> QED
    BY <1>7, <2>1, <2>2, Zenon DEF TypeOK, ControlInv, StopDone, g_free, dev, device, ram,
       control, heap, Run, Idle
<1>8. CASE DisableDone
  <2>1. size' \in [Logs -> Nat] /\ bits' \in [Logs -> SUBSET Nat]
    BY <1>8, Zenon DEF TypeOK, DisableDone, g_free
  <2>2. 0 \in Nat /\ NULL \in Logs
    BY DEF NULL, Logs
  <2> QED
    BY <1>8, <2>1, <2>2, Zenon DEF TypeOK, ControlInv, DisableDone, g_free, dev, device,
       ram, control, heap, Run, Idle
<1>9. CASE Setup
  <2>1. want' \in Nat
    BY <1>9, NeedNat, Zenon DEF TypeOK, Setup
  <2> QED
    BY <1>9, <2>1, Zenon DEF TypeOK, ControlInv, Setup, dev, device, ram, control, heap,
       Run, Idle
<1>10. ASSUME NEW l \in Layouts, Commit(l) PROVE TypeOK'
  <2>1. want' \in Nat
    BY <1>10, LogSizeCovers, DirtyLogAssumption DEF TypeOK, Commit
  <2>2. excused' \subseteq Blocks
    BY <1>10, TablePages, Zenon DEF TypeOK, Commit
  <2> QED
    BY <1>10, <2>1, <2>2, Zenon DEF TypeOK, ControlInv, Commit, dev, device, ram, control,
       heap, Run, Idle
<1>11. CASE SyncChunk \/ SetFeatures \/ SetBackend \/ EnableDone \/ BitmapSync \/ SyncDone
              \/ SaveBlock \/ SendPage \/ Complete \/ Finish \/ Cancel \/ DevStart \/ Reset
              \/ UNCHANGED vars
  BY <1>11, ZenonT(150) DEF TypeOK, ControlInv, SyncChunk, SetFeatures, SetBackend,
     EnableDone, BitmapSync, SyncDone, SaveBlock, SendPage, Complete, DevStop, Finish,
     Cancel, DevStart, Reset, vars, dev, device, ram, control, heap, Run, Idle
<1> QED
  BY <1>1, <1>2, <1>3, <1>4, <1>5, <1>6, <1>7, <1>8, <1>9, <1>10, <1>11, Zenon DEF Next,
     Vhost, Migration

(* A write of the device, a step of a sync and the sending of a page leave *)
(* the handlers, the log and what the device was told alone.               *)
LEMMA QuietFrame ==
    ASSUME Device \/ SyncChunk \/ SaveBlock \/ SendPage \/ UNCHANGED vars
    PROVE  /\ UNCHANGED <<sections, started, log_enabled, log, log_size, op, pc, stage, want>>
           /\ UNCHANGED <<fresh, features, flagged, base, table, running>>
           /\ pc = "sync" \/ UNCHANGED <<dirty, todo>>
<1>1. CASE Device
  BY <1>1, SMT DEF Device, WriteBuffer, WriteUsed, Write, device, control
<1>2. CASE SyncChunk
  BY <1>2, SMT DEF SyncChunk, device
<1>3. CASE SaveBlock \/ SendPage
  BY <1>3, SMT DEF SaveBlock, SendPage, dev, device, control
<1>4. CASE UNCHANGED vars
  BY <1>4, SMT DEF vars, dev, device, ram, control
<1> QED
  BY <1>1, <1>2, <1>3, <1>4, Zenon

(* Every handler ends up where the next one may begin.                     *)
LEMMA ControlStep == LogInv /\ [Next]_vars => ControlInv'
<1> SUFFICES ASSUME LogInv, [Next]_vars PROVE ControlInv'
  BY Zenon
<1> USE LogParts
<1>1. CASE Device \/ SyncChunk \/ SaveBlock \/ SendPage \/ UNCHANGED vars
  <2>1. /\ UNCHANGED <<pc, op, stage, started, running, log_enabled>>
        /\ pc = "sync" \/ UNCHANGED <<dirty, todo>>
    BY <1>1, QuietFrame, Zenon
  <2> QED
    BY <2>1, Zenon DEF ControlInv
<1>2. CASE ResizeDone
  BY <1>2, ZenonT(60) DEF TypeOK, ControlInv, ResizeDone, g_free, dev, device, ram,
     control, heap, Run, Idle
<1>3. CASE Resize
  BY <1>3, ZenonT(60) DEF ControlInv, Resize, dev, ram
<1>4. CASE SetFeatures
  BY <1>4, ZenonT(60) DEF ControlInv, SetFeatures, dev, ram
<1>5. CASE SetVringAddr
  BY <1>5, ZenonT(60) DEF ControlInv, SetVringAddr, dev, ram
<1>6. CASE SetMemTable
  BY <1>6, ZenonT(60) DEF ControlInv, SetMemTable, dev, ram, Run, Idle
<1>7. CASE StartLog
  BY <1>7, ZenonT(60) DEF ControlInv, StartLog, dev, ram, Run
<1>8. CASE SetBackend
  BY <1>8, ZenonT(60) DEF ControlInv, SetBackend, dev, ram, Run, Idle
<1>9. CASE DevStart
  BY <1>9, ZenonT(60) DEF ControlInv, DevStart, dev, device, ram, Run
<1>10. CASE Reset
  BY <1>10, ZenonT(60) DEF ControlInv, Reset, DevStop, dev, ram, Run
<1>11. CASE StopDone
  BY <1>11, ZenonT(60) DEF ControlInv, StopDone, dev, ram, device, Run, Idle
<1>12. CASE Cancel
  BY <1>12, ZenonT(60) DEF ControlInv, Cancel, dev, ram, device, Run, Idle
<1>13. CASE Setup
  BY <1>13, ZenonT(60) DEF ControlInv, Setup, dev, device, ram, Run
<1>14. CASE EnableDone
  BY <1>14, ZenonT(60) DEF ControlInv, EnableDone, dev, device, ram, Run, Idle
<1>15. CASE DisableDone
  BY <1>15, ZenonT(60) DEF ControlInv, DisableDone, dev, device, ram, Run, Idle
<1>16. CASE BitmapSync
  BY <1>16, ZenonT(60) DEF ControlInv, BitmapSync, dev, device, ram, Run
<1>17. CASE SyncDone
  BY <1>17, ZenonT(60) DEF ControlInv, SyncDone, dev, device, Run, Idle
<1>18. CASE Complete
  BY <1>18, ZenonT(60) DEF ControlInv, Complete, DevStop, dev, device, ram, Run
<1>19. CASE Finish
  BY <1>19, ZenonT(60) DEF ControlInv, Finish, dev, device, ram, Run, Idle
<1>20. CASE \E l \in Layouts : Commit(l)
  BY <1>20, SMT DEF ControlInv, Commit, dev, device, Run
<1> QED
  BY <1>1, <1>2, <1>3, <1>4, <1>5, <1>6, <1>7, <1>8, <1>9, <1>10, <1>11, <1>12, <1>13,
     <1>14, <1>15, <1>16, <1>17, <1>18, <1>19, <1>20, Zenon DEF Next, Vhost, Migration

(* Every log that is allocated is the one in use or the one to come.       *)
LEMMA AllocStep == LogInv /\ [Next]_vars => AllocInv'
<1> SUFFICES ASSUME LogInv, [Next]_vars PROVE AllocInv'
  BY Zenon
<1> USE LogParts
<1>1. CASE Device
  <2>1. PICK p \in DOMAIN table, b \in BOOLEAN :
               /\ Write(p, b)
               /\ b => features \/ flagged # {}
               /\ features /\ flagged = Queues => b
    BY <1>1, DeviceWrites, Zenon
  <2>2. \A i \in Logs : \A q \in bits'[i] : Chunk(q) < size[i]
    <3>1. CASE b /\ base # NULL
      <4>1. bits' = [bits EXCEPT ![base] = @ \cup {p}]
        BY <2>1, <3>1, Zenon DEF Write
      <4>2. Chunk(p) < size[base] /\ base \in Logs
        BY <2>1, <3>1, LoggedInLog, Zenon DEF Write
      <4> QED
        BY <4>1, <4>2, Zenon DEF TypeOK, AllocInv
    <3>2. CASE ~(b /\ base # NULL)
      <4>1. bits' = bits
        BY <2>1, <3>2, Zenon DEF Write
      <4> QED
        BY <4>1, Zenon DEF AllocInv
    <3> QED
      BY <3>1, <3>2, Zenon
  <2>3. bits'[NULL] = {}
    BY <2>1 DEF Write, AllocInv
  <2> QED
    BY <2>1, <2>2, <2>3, Zenon DEF AllocInv, Resizing, Write, control
<1>2. CASE Resize
  <2>1. fresh = NULL
    BY <1>2, Zenon DEF AllocInv, Resizing, Resize
  <2>2. /\ g_malloc0 \in Logs /\ g_malloc0 # NULL /\ g_malloc0 # log
        /\ size[g_malloc0] = 0 /\ bits[g_malloc0] = {}
    BY <2>1, FreeLog, ZenonT(60)
  <2>3. size' = [size EXCEPT ![g_malloc0] = want] /\ fresh' = g_malloc0
    BY <1>2, Zenon DEF Resize
  <2> QED
    BY <1>2, <2>1, <2>2, <2>3, Zenon DEF TypeOK, ControlInv, AllocInv, Resizing, Resize
<1>3. CASE ResizeDone
  <2>1. /\ fresh # NULL /\ fresh # log /\ size[fresh] = want /\ want > 0 /\ Resizing
    BY <1>3, Zenon DEF ControlInv, AllocInv, ResizeDone, Resizing
  <2>2. /\ size' = [size EXCEPT ![log] = 0] /\ bits' = [bits EXCEPT ![log] = {}]
        /\ log' = fresh /\ log_size' = want /\ fresh' = NULL
    BY <1>3, Zenon DEF ResizeDone, g_free
  <2>3. ~Resizing'
    BY <1>3, Zenon DEF ResizeDone, Resizing, Run, Idle
  <2>4. /\ size'[NULL] = 0 /\ bits'[NULL] = {}
        /\ \A i \in Logs : size'[i] > 0 => i \in {fresh}
        /\ \A i \in Logs : \A p \in bits'[i] : Chunk(p) < size'[i]
        /\ size'[fresh] = want
    BY <2>1, <2>2 DEF TypeOK, AllocInv
  <2> QED
    BY <1>3, <2>1, <2>2, <2>3, <2>4, ZenonT(60) DEF ControlInv, AllocInv, ResizeDone, Run, Idle
<1>4. CASE SetMemTable
  BY <1>4, NeedNat, Zenon DEF ControlInv, AllocInv, Resizing, SetMemTable, dev, heap, Run, Idle
<1>5. CASE StartLog
  <2>1. fresh = NULL /\ log = NULL
    BY <1>5, Zenon DEF AllocInv, Resizing, StartLog
  <2>2. /\ g_malloc0 \in Logs /\ g_malloc0 # NULL /\ g_malloc0 # log
        /\ size[g_malloc0] = 0 /\ bits[g_malloc0] = {}
    BY <2>1, FreeLog, ZenonT(60)
  <2> QED
    BY <1>5, <2>1, <2>2, NeedNat, SMTT(60) DEF TypeOK, ControlInv, AllocInv, Resizing,
       StartLog
<1>6. CASE Setup
  BY <1>6, NeedNat, ZenonT(60) DEF ControlInv, AllocInv, Resizing, Setup, heap, Run
<1>7. ASSUME NEW l \in Layouts, Commit(l) PROVE AllocInv'
  BY <1>7, LogSizeCovers, DirtyLogAssumption DEF ControlInv, AllocInv, Resizing, Commit,
     dev, heap, Run
<1>8. CASE SyncChunk
  BY <1>8, SMTT(60) DEF AllocInv, Resizing, SyncChunk
<1>9. CASE SaveBlock \/ SendPage \/ UNCHANGED vars
  BY <1>9, SMTT(60) DEF AllocInv, Resizing, SaveBlock, SendPage, vars, dev, control, heap
<1>10. CASE SetFeatures \/ SetVringAddr \/ SetBackend \/ DevStart
  BY <1>10, SMTT(60) DEF ControlInv, AllocInv, Resizing, SetFeatures, SetVringAddr,
     SetBackend, DevStart, dev, heap, Run, Idle
<1>11. CASE EnableDone \/ DisableDone \/ StopDone
  BY <1>11, SMTT(60) DEF TypeOK, AllocInv, Resizing, EnableDone, DisableDone, g_free,
     StopDone, heap, Run, Idle
<1>12. CASE BitmapSync \/ SyncDone \/ Complete
  BY <1>12, SMTT(60) DEF ControlInv, AllocInv, Resizing, BitmapSync, SyncDone, Complete,
     DevStop, dev, heap, Run, Idle
<1>13. CASE Finish \/ Cancel \/ Reset
  BY <1>13, SMTT(60) DEF TypeOK, ControlInv, AllocInv, Resizing, NULL, Finish, Cancel,
     Reset, DevStop, dev, device, ram, control, heap, Run, Idle
<1> QED
  BY <1>1, <1>2, <1>3, <1>4, <1>5, <1>6, <1>7, <1>8, <1>9, <1>10, <1>11, <1>12, <1>13,
     Zenon DEF Next, Vhost, Migration

(* The logs stay large enough.                                             *)
LEMMA CoverStep == LogInv /\ [Next]_vars => CoverInv'
<1> SUFFICES ASSUME LogInv, [Next]_vars PROVE CoverInv'
  OBVIOUS
<1> USE LogParts
<1>1. CASE ResizeDone
  <2>1. Resizing /\ want \in Nat /\ log_size \in Nat
    BY <1>1 DEF TypeOK, Resizing, ResizeDone
  <2>2. running => \A p \in DOMAIN table : Chunk(p) < want
    <3>1. CASE op = "grow"
      <4>1. log # NULL /\ log_size < want
        BY <3>1 DEF AllocInv, ControlInv, CoverInv
      <4>2. \A p \in DOMAIN table : Chunk(p) \in Nat
        BY DevicePages, ChunkRange
      <4> QED
        BY <2>1, <4>1, <4>2 DEF CoverInv
    <3>2. CASE op # "grow"
      BY <1>1, <2>1, <3>2, NeedCovers, SMTT(60) DEF CoverInv, ResizeDone
    <3> QED
      BY <3>1, <3>2
  <2> QED
    BY <1>1, <2>1, <2>2, ZenonT(60) DEF TypeOK, ControlInv, AllocInv, CoverInv, Resizing,
       NULL, ResizeDone, g_free, dev, device, ram, control, heap, Run, Idle
<1>2. CASE SetMemTable
  <2>1. log # NULL => op # "grow" /\ vhost_get_log_size(sections) <= log_size
    BY <1>2 DEF ControlInv, CoverInv, SetMemTable
  <2>2. log # NULL => \A p \in DOMAIN TableOf(sections) : Chunk(p) < log_size
    BY <2>1, NeedCovers, SMTT(60) DEF TypeOK
  <2> QED
    BY <1>2, <2>1, <2>2, NeedNat, DirtyLogAssumption DEF TypeOK, ControlInv, AllocInv,
       CoverInv, Resizing, NULL, SetMemTable, dev, device, ram, control, heap, Run, Idle
<1>3. CASE StartLog
  BY <1>3, NeedNat, SMTT(60) DEF ControlInv, CoverInv, Resizing, StartLog
<1>4. CASE SetBackend
  <2>1. log # NULL => \A p \in DOMAIN TableOf(sections) : Chunk(p) < log_size
    BY <1>4, NeedCovers DEF TypeOK, CoverInv, ControlInv, SetBackend
  <2> QED
    BY <1>4, <2>1, SMTT(60) DEF TypeOK, ControlInv, AllocInv, CoverInv, Resizing, NULL, SetBackend,
       dev, device, ram, control, heap, Run, Idle
<1>5. CASE Setup
  BY <1>5, NeedNat DEF ControlInv, CoverInv, Resizing, Setup, device, Run
<1>6. ASSUME NEW l \in Layouts, Commit(l) PROVE CoverInv'
  <2>1. vhost_get_log_size(l) \in Nat /\ LogBuffer \in Nat
    BY <1>6, LogSizeCovers, DirtyLogAssumption
  <2>2. log_size \in Nat
    BY Zenon DEF TypeOK
  <2>3. op = "none" /\ (running <=> started) /\ (log # NULL <=> started /\ log_enabled)
    BY <1>6, Zenon DEF Commit, ControlInv, AllocInv
  <2> QED
    BY <1>6, <2>1, <2>2, <2>3, SMT DEF CoverInv, Resizing, Commit, dev, device, Run
<1>7. CASE Device \/ SyncChunk \/ SaveBlock \/ SendPage \/ UNCHANGED vars
  <2>1. UNCHANGED <<sections, log, log_size, op, pc, want, running, table>>
    BY <1>7, QuietFrame, Zenon
  <2> QED
    BY <2>1, SMT DEF CoverInv, Resizing
<1>8. CASE Resize \/ SetFeatures
  BY <1>8, SMT DEF ControlInv, CoverInv, Resizing, Resize, SetFeatures, dev
<1>9. CASE SetVringAddr \/ DevStart
  BY <1>9, SMT DEF ControlInv, CoverInv, Resizing, SetVringAddr, DevStart, dev, device, Run
<1>10. CASE EnableDone
  BY <1>10, SMT DEF CoverInv, Resizing, EnableDone, device, Run, Idle
<1>11. CASE DisableDone \/ StopDone
  BY <1>11, SMTT(60) DEF CoverInv, Resizing, DisableDone, StopDone, device, Run, Idle
<1>12. CASE BitmapSync \/ SyncDone
  BY <1>12, SMT DEF ControlInv, CoverInv, Resizing, BitmapSync, SyncDone, dev, device, Run,
     Idle
<1>13. CASE Complete \/ Reset
  BY <1>13, SMTT(60) DEF ControlInv, CoverInv, Resizing, Complete, DevStop, Reset, dev, device,
     Run
<1>14. CASE Finish \/ Cancel
  BY <1>14, SMT DEF ControlInv, CoverInv, Resizing, Finish, Cancel, dev, device, Run, Idle
<1> QED
  BY <1>1, <1>2, <1>3, <1>4, <1>5, <1>6, <1>7, <1>8, <1>9, <1>10, <1>11, <1>12, <1>13,
     <1>14, Zenon DEF Next, Vhost, Migration

(* The device is told to log while, and only while, it has a log.          *)
LEMMA DeviceStep == LogInv /\ [Next]_vars => DeviceInv'
<1> SUFFICES ASSUME LogInv, [Next]_vars PROVE DeviceInv'
  OBVIOUS
<1> USE LogParts
<1>1. CASE Device \/ SyncChunk \/ SaveBlock \/ SendPage \/ UNCHANGED vars
  <2>1. UNCHANGED <<log_enabled, log, fresh, op, pc, features, flagged, base, running>>
    BY <1>1, QuietFrame, Zenon
  <2>2. pc = "flags" => todo' = todo
    BY <1>1, QuietFrame, Zenon
  <2> QED
    BY <2>1, <2>2, ZenonT(60) DEF DeviceInv, Current, Resizing
<1>2. CASE ResizeDone
  BY <1>2, ZenonT(60) DEF TypeOK, ControlInv, AllocInv, DeviceInv, Current, Resizing, NULL,
     ResizeDone, g_free, dev, device, ram, control, heap, Run, Idle
<1>3. CASE SetFeatures
  BY <1>3, ZenonT(60) DEF TypeOK, ControlInv, AllocInv, DeviceInv, Current, Resizing, NULL,
     SetFeatures, dev, device, ram, control, heap, Run, Idle
<1>4. CASE StopDone
  BY <1>4, ZenonT(60) DEF TypeOK, ControlInv, AllocInv, DeviceInv, Current, Resizing, NULL,
     StopDone, g_free, dev, device, ram, control, heap, Run, Idle
<1>5. CASE Resize \/ SetVringAddr \/ SetMemTable
  <2>1. CASE Resize
    BY <2>1, SMTT(60) DEF TypeOK, ControlInv, AllocInv, DeviceInv, Current, Resizing, Resize,
       dev, Run, Idle
  <2>2. CASE SetVringAddr
    BY <2>2, SMTT(60) DEF TypeOK, ControlInv, AllocInv, DeviceInv, Current, Resizing,
       SetVringAddr, dev, Run, Idle
  <2>3. CASE SetMemTable
    BY <2>3, SMTT(60) DEF TypeOK, ControlInv, AllocInv, DeviceInv, Current, Resizing,
       SetMemTable, dev, Run, Idle
  <2> QED
    BY <1>5, <2>1, <2>2, <2>3, Zenon
<1>6. CASE StartLog
  <2>1. /\ op = "start" /\ pc = "flags" /\ todo = {} /\ pc' = "backend"
        /\ UNCHANGED <<op, running, features, flagged, log_enabled>>
        /\ log_enabled => base' = NULL
    BY <1>6, SMT DEF StartLog
  <2>2. ~running /\ flagged \in SUBSET Queues
    BY <2>1, Zenon DEF ControlInv, TypeOK
  <2>3. features = log_enabled /\ flagged = IF features THEN Queues ELSE {}
    BY <2>1, <2>2, Zenon DEF DeviceInv
  <2> QED
    BY <2>1, <2>2, <2>3, SMT DEF DeviceInv, Resizing
<1>7. CASE SetBackend
  BY <1>7, SMTT(60) DEF ControlInv, DeviceInv, SetBackend, dev, Run, Idle
<1>8. CASE DevStart \/ Reset
  BY <1>8, SMTT(60) DEF ControlInv, DeviceInv, DevStart, Reset, DevStop, device, Run
<1>9. CASE (\E l \in Layouts : Commit(l))
  BY <1>9, SMTT(60) DEF ControlInv, DeviceInv, Current, Commit, dev, device, Run
<1>10. CASE Setup \/ Cancel
  BY <1>10, SMTT(60) DEF ControlInv, DeviceInv, Current, Setup, Cancel, device, Run
<1>11. CASE EnableDone
  <2>1. features /\ Queues \ todo \subseteq flagged /\ base = Current
    BY <1>11, ZenonT(60) DEF DeviceInv, EnableDone
  <2>2. flagged = Queues /\ todo = {}
    BY <1>11, <2>1, ZenonT(60) DEF TypeOK, EnableDone
  <2>3. base = log /\ fresh = NULL
    BY <1>11, <2>1, ZenonT(60) DEF AllocInv, Current, Resizing, EnableDone
  <2>4. op' = "bitmap" /\ pc' = "sync" /\ log_enabled' = TRUE
        /\ UNCHANGED <<features, flagged, base, fresh, log, running>>
    BY <1>11, SMT DEF EnableDone, Run, device
  <2> QED
    BY <2>1, <2>2, <2>3, <2>4, ZenonT(60) DEF DeviceInv, Current, Resizing
<1>12. CASE DisableDone
  BY <1>12, SMTT(60) DEF DeviceInv, DisableDone, device, Run, Idle
<1>13. CASE BitmapSync \/ SyncDone \/ Complete \/ Finish
  BY <1>13, SMTT(60) DEF ControlInv, DeviceInv, Current, BitmapSync, SyncDone, Complete,
     DevStop, Finish, dev, device, Run, Idle
<1> QED
  BY <1>1, <1>2, <1>3, <1>4, <1>5, <1>6, <1>7, <1>8, <1>9, <1>10, <1>11, <1>12, <1>13,
     Zenon DEF Next, Vhost, Migration

(* A sync loses nothing and stays in the log.                              *)
LEMMA SyncStep == LogInv /\ [Next]_vars => SyncInv'
<1> SUFFICES ASSUME LogInv, [Next]_vars PROVE SyncInv'
  OBVIOUS
<1> USE LogParts
<1>1. CASE Device
  <2>1. PICK p \in DOMAIN table, b \in BOOLEAN :
               /\ Write(p, b)
               /\ b => features \/ flagged # {}
               /\ features /\ flagged = Queues => b
    BY <1>1, DeviceWrites, Zenon
  <2>2. pc = "sync" /\ op \in {"grow", "shrink", "stop"} => bits'[log] = bits[log]
    <3> SUFFICES ASSUME pc = "sync", op \in {"grow", "shrink", "stop"}, b, base # NULL
                 PROVE  bits'[log] = bits[log]
      BY <2>1 DEF Write
    <3>1. base = Current
      BY <2>1, LoggedInLog DEF Write
    <3>2. op # "stop"
      BY <2>1 DEF Write, ControlInv
    <3>3. fresh # NULL /\ fresh # log
      BY <3>2 DEF AllocInv, Resizing
    <3> QED
      BY <2>1, <3>1, <3>3 DEF Write, Current, TypeOK
  <2> QED
    BY <2>1, <2>2 DEF Write, SyncInv, control
<1>2. CASE Resize
  <2>1. /\ log_enabled => log # NULL
        /\ ~log_enabled => log = NULL
    BY <1>2 DEF ControlInv, AllocInv, Resizing, Resize
  <2> DEFINE ps == {p \in Mapped(sections) : p < log_size * ChunkPages}
  <2>2. \A p \in Mapped(sections) : p \in ps <=> Chunk(p) < log_size
    BY ChunkRange, MappedPages DEF TypeOK
  <2>3. todo' = IF log_enabled THEN SyncWork(ps) ELSE {}
    BY <1>2 DEF Resize
  <2>4. \A p \in bits[log] : Chunk(p) < log_size
    BY DEF TypeOK, AllocInv
  <2>5. ps \subseteq Mapped(sections) /\ sections \in Layouts
    BY DEF TypeOK
  <2> HIDE DEF ps
  <2>6. /\ \A w \in SyncWork(ps) :
             /\ w[1] \in sections
             /\ \E p \in SectionPages(w[1]) : Chunk(p) = w[2] /\ Chunk(p) < log_size
        /\ \A p \in bits[log] \cap Mapped(sections) :
             \E w \in SyncWork(ps) : p \in SectionPages(w[1]) /\ Chunk(p) = w[2]
    BY <2>2, <2>4, <2>5, WorkPages, Zenon
  <2>7. bits[NULL] = {}
    BY SMTT(60) DEF AllocInv
  <2> QED
    BY <1>2, <2>1, <2>3, <2>6, <2>7, ZenonT(60) DEF SyncInv, Resize, NULL
<1>3. CASE EnableDone
  <2>1. started /\ log # NULL /\ sections \in Layouts /\ log_size \in Nat
    BY <1>3, SMTT(60) DEF TypeOK, ControlInv, AllocInv, Resizing, EnableDone
  <2>2. \A p \in Mapped(sections) : Chunk(p) < log_size
    BY <1>3, <2>1, NeedCovers, TablePages DEF CoverInv, EnableDone
  <2>3. \A w \in SyncWork(Mapped(sections)) :
             /\ w[1] \in sections
             /\ \E p \in SectionPages(w[1]) : Chunk(p) = w[2] /\ Chunk(p) < log_size
    BY <2>1, <2>2, WorkPages, Zenon
  <2> QED
    BY <1>3, <2>1, <2>3, SMTT(60) DEF EnableDone, SyncInv, Run
<1>4. CASE BitmapSync \/ Complete \/ Reset
  <2>1. /\ pc = "idle" /\ pc' = "sync" /\ todo' = SyncAll
        /\ UNCHANGED <<sections, log, log_size, bits>>
    BY <1>4, SMT DEF ControlInv, SyncAll, BitmapSync, Complete, DevStop, Reset, dev,
       device, ram, control, heap, Run, Idle
  <2>2. CASE log_enabled /\ started
    <3>1. log # NULL /\ op # "grow" /\ todo' = SyncWork(Mapped(sections))
      BY <2>1, <2>2, Zenon DEF ControlInv, AllocInv, SyncAll
    <3> QED
      BY <2>1, <2>2, <3>1, SyncBegins, ZenonT(60) DEF SyncInv
  <2>3. CASE ~(log_enabled /\ started)
    <3>1. bits[log] = {} /\ todo' = {}
      BY <2>1, <2>3, SMT DEF ControlInv, AllocInv, SyncAll
    <3> QED
      BY <2>1, <3>1, SMTT(60) DEF SyncInv
  <2> QED
    BY <2>2, <2>3, SMTT(60)
<1>5. CASE SyncChunk
  <2>1. /\ pc = "sync" /\ UNCHANGED <<pc, op, log, log_size, sections>>
        /\ log \in Logs /\ bits \in [Logs -> SUBSET Nat]
    BY <1>5, Zenon DEF SyncChunk, TypeOK
  <2>2. PICK w \in todo :
               /\ todo' = todo \ {w}
               /\ bits' = [bits EXCEPT ![log] = @ \ {p \in bits[log] : Chunk(p) = w[2]}]
    BY <1>5, Zenon DEF SyncChunk
  <2>3. bits'[log] = bits[log] \ {p \in bits[log] : Chunk(p) = w[2]}
    BY <2>1, <2>2, Zenon
  <2> QED
    BY <2>1, <2>2, <2>3, ZenonT(60) DEF SyncInv
<1>6. CASE StopDone \/ Setup \/ SaveBlock \/ SendPage \/ UNCHANGED vars
  BY <1>6, ZenonT(60) DEF ControlInv, SyncInv, StopDone, Setup, SaveBlock, SendPage, vars,
     dev, control, heap, Run, Idle
<1>7. CASE SetVringAddr \/ StartLog \/ SetBackend \/ DisableDone
  <2>1. pc' # "sync"
    BY <1>7, ZenonT(60) DEF SetVringAddr, StartLog, SetBackend, DisableDone, g_free, dev,
       device, ram, control, heap, Run, Idle
  <2> QED
    BY <2>1, Zenon DEF SyncInv
<1>8. CASE SetMemTable \/ SetFeatures \/ DevStart
  <2>1. pc' # "sync"
    BY <1>8, ZenonT(60) DEF SetMemTable, SetFeatures, DevStart, dev, device, ram, control,
       heap, Run, Idle
  <2> QED
    BY <2>1, Zenon DEF SyncInv
<1>9. CASE Finish \/ Cancel \/ SyncDone \/ ResizeDone
  <2>1. pc' # "sync"
    BY <1>9, ZenonT(60) DEF Finish, Cancel, SyncDone, ResizeDone, g_free, dev, device, ram,
       control, heap, Run, Idle
  <2> QED
    BY <2>1, Zenon DEF SyncInv
<1>10. CASE (\E l \in Layouts : Commit(l))
  BY <1>10, Zenon DEF SyncInv, Commit, Run
<1> QED
  BY <1>1, <1>2, <1>3, <1>4, <1>5, <1>6, <1>7, <1>8, <1>9, <1>10, Zenon DEF Next, Vhost,
     Migration

(* No page that is written leaves the way to the stream before it is sent. *)
LEMMA HistoryStep == LogInv /\ [Next]_vars => HistoryInv'
<1> SUFFICES ASSUME LogInv, [Next]_vars PROVE HistoryInv'
  BY Zenon
<1> USE LogParts
<1>1. CASE Device
  <2>1. PICK p \in DOMAIN table, b \in BOOLEAN :
               /\ Write(p, b)
               /\ b => features \/ flagged # {}
               /\ features /\ flagged = Queues => b
    BY <1>1, DeviceWrites, Zenon
  <2> DEFINE r == table[p]
  <2>2. /\ running /\ stale' = stale \cup {r}
        /\ excused' = IF b /\ base = NULL THEN excused \cup {r} ELSE excused
        /\ bits' = IF b /\ base # NULL THEN [bits EXCEPT ![base] = @ \cup {p}] ELSE bits
        /\ UNCHANGED <<sections, log, log_size, table, running, dirty, bitmap, sending, stage,
                       fresh>>
    BY <2>1, Zenon DEF Write, device, control
  <2>3. r \in excused \/ (p \in Mapped(sections) /\ Ram(sections, p) = r)
    BY <2>2, Zenon DEF HistoryInv
  <2>4. ASSUME NEW i \in Logs PROVE bits[i] \subseteq bits'[i]
    BY <2>2, Zenon DEF TypeOK
  <2>5. Marked(log) \subseteq Marked(log)' /\ Marked(fresh) \subseteq Marked(fresh)'
    <3>1. log \in Logs /\ fresh \in Logs
      BY Zenon DEF TypeOK
    <3> QED
      BY <2>2, <2>4, <3>1, ZenonT(60) DEF Marked
  <2>6. ASSUME stage \in {"iterate", "complete"}
        PROVE  r \in excused' \cup Marked(log)' \cup Marked(fresh)'
    <3>1. b
      <4>1. log_enabled /\ op # "disable"
        BY <2>6, Zenon DEF ControlInv
      <4> QED
        BY <2>1, <2>2, <4>1, Zenon DEF DeviceInv
    <3>2. CASE base = NULL
      BY <2>2, <3>1, <3>2, Zenon
    <3>3. CASE base # NULL
      <4>1. base \in {log, fresh} /\ base \in Logs
        BY <2>1, <2>2, <3>1, <3>3, LoggedInLog, Zenon
      <4>2. p \in bits'[base]
        BY <2>2, <3>1, <3>3, <4>1, Zenon DEF TypeOK
      <4>3. excused' = excused
        BY <2>2, <3>3, Zenon
      <4>4. p \in Mapped(sections) /\ Ram(sections, p) = r =>
               r \in Marked(log)' \/ r \in Marked(fresh)'
        BY <2>2, <4>1, <4>2, ZenonT(60) DEF Marked
      <4> QED
        BY <2>3, <4>3, <4>4, Zenon
    <3> QED
      BY <3>2, <3>3, Zenon
  <2> HIDE DEF r
  <2>7. NothingLost'
    BY <2>2, <2>5, <2>6, ZenonT(60) DEF HistoryInv, NothingLost
  <2>8. MigratedIsCurrent'
    BY <2>2, Zenon DEF ControlInv, MigratedIsCurrent
  <2> QED
    BY <2>2, <2>7, <2>8, Zenon DEF HistoryInv
<1>2. CASE SyncChunk
  <2>1. PICK w \in todo :
               /\ bits' = [bits EXCEPT ![log] = @ \ {p \in bits[log] : Chunk(p) = w[2]}]
               /\ dirty' = dirty \cup
                    ({PageOf(w[1], p) : p \in {q \in bits[log] : Chunk(q) = w[2]}} \cap Blocks)
    BY <1>2, Zenon DEF SyncChunk
  <2>2. UNCHANGED <<sections, log, fresh, table, running, bitmap, sending, stale, excused,
                      stage>>
    BY <1>2, Zenon DEF SyncChunk, device
  <2>3. PICK q \in SectionPages(w[1]) : w[1] \in sections /\ Chunk(q) = w[2]
    BY <1>2, <2>1, Zenon DEF SyncInv, SyncChunk
  <2>4. sections \in Layouts /\ log \in Logs /\ fresh \in Logs
    BY Zenon DEF TypeOK
  <2>5. ASSUME NEW i \in Logs, NEW p \in bits[i] \cap Mapped(sections)
        PROVE  p \in bits'[i] \/ Ram(sections, p) \in dirty'
    <3>1. CASE p \in bits'[i]
      BY <3>1, Zenon
    <3>2. CASE p \notin bits'[i]
      <4>1. i = log /\ Chunk(p) = w[2]
        BY <2>1, <2>4, <2>5, <3>2
      <4>2. PageOf(w[1], p) = Ram(sections, p)
        BY <2>3, <2>4, <2>5, <4>1, SameChunk, Zenon
      <4>3. Ram(sections, p) \in Blocks
        BY <2>4, <2>5, TablePages, Zenon
      <4> QED
        BY <2>1, <2>5, <4>1, <4>2, <4>3, Zenon
    <3> QED
      BY <3>1, <3>2, Zenon
  <2>6. /\ Marked(log) \subseteq Marked(log)' \cup dirty'
        /\ Marked(fresh) \subseteq Marked(fresh)' \cup dirty'
    BY <2>2, <2>4, <2>5, ZenonT(60) DEF Marked
  <2>7. NothingLost'
    BY <2>1, <2>2, <2>6, Zenon DEF HistoryInv, NothingLost
  <2> QED
    BY <2>2, <2>7, Zenon DEF HistoryInv, MigratedIsCurrent
<1>3. CASE ResizeDone
  <2>1. stage \in {"iterate", "complete"} => Marked(log) = {}
    <3>1. ASSUME stage \in {"iterate", "complete"} PROVE bits[log] \cap Mapped(sections) = {}
      BY <1>3, <3>1, Zenon DEF ControlInv, SyncInv, ResizeDone
    <3> QED
      BY <3>1, ZenonT(60) DEF Marked
  <2>2. fresh \in Logs /\ fresh # log /\ log \in Logs
    BY <1>3, Zenon DEF TypeOK, ControlInv, AllocInv, Resizing, ResizeDone
  <2>3. bits'[log'] = bits[fresh] /\ UNCHANGED sections
    BY <1>3, <2>2, Zenon DEF ResizeDone, g_free, TypeOK
  <2>4. Marked(log)' = Marked(fresh)
    BY <2>3, ZenonT(60) DEF Marked
  <2>5. UNCHANGED <<table, running, dirty, bitmap, sending, stale, excused, stage>>
    BY <1>3, Zenon DEF ResizeDone, device, ram
  <2>6. NothingLost'
    BY <2>1, <2>4, <2>5, Zenon DEF HistoryInv, NothingLost
  <2> QED
    BY <2>3, <2>5, <2>6, Zenon DEF HistoryInv, MigratedIsCurrent
<1>4. CASE StopDone
  <2>1. bits[log] \cap Mapped(sections) = {}
    BY <1>4, Zenon DEF SyncInv, StopDone
  <2>2. Marked(log) = {}
    BY <2>1, ZenonT(60) DEF Marked
  <2>3. fresh = NULL /\ fresh' = NULL /\ bits[NULL] = {}
    BY <1>4, Zenon DEF AllocInv, Resizing, StopDone
  <2>4. Marked(fresh) = {}
    BY <2>3, ZenonT(60) DEF Marked
  <2>5. UNCHANGED <<sections, table, running, dirty, bitmap, sending, stale, excused, stage>>
    BY <1>4, Zenon DEF StopDone, device, ram
  <2>6. NothingLost'
    BY <2>2, <2>4, <2>5, Zenon DEF HistoryInv, NothingLost
  <2> QED
    BY <2>5, <2>6, Zenon DEF HistoryInv, MigratedIsCurrent
<1>5. CASE Setup
  <2>1. /\ running' => table' = TableOf(sections)
        /\ stage' = "setup" /\ bitmap' = Blocks /\ UNCHANGED sections
    BY <1>5, Zenon DEF ControlInv, CoverInv, Setup, device
  <2>2. \A p \in DOMAIN TableOf(sections) :
             p \in Mapped(sections) /\ Ram(sections, p) = TableOf(sections)[p]
    BY TablePages, Zenon DEF TypeOK
  <2> QED
    BY <2>1, <2>2, ZenonT(60) DEF HistoryInv, NothingLost, MigratedIsCurrent
<1>6. CASE SaveBlock
  <2>1. UNCHANGED <<sections, bits, log, fresh, table, running, dirty, stale, excused, stage>>
    BY <1>6, Zenon DEF SaveBlock, dev, heap, device, control
  <2>2. UNCHANGED <<Marked(log), Marked(fresh)>>
    BY <2>1, ZenonT(60) DEF Marked
  <2>3. stage # "setup"
    BY <1>6, Zenon DEF ControlInv, SaveBlock
  <2>4. bitmap \subseteq bitmap' \cup {sending'} /\ sending \notin stale
    BY <1>6, DirtyLogAssumption, Zenon DEF SaveBlock, TypeOK
  <2>5. NothingLost'
    BY <2>1, <2>2, <2>4, ZenonT(150) DEF HistoryInv, NothingLost
  <2> QED
    BY <2>1, <2>3, <2>5, Zenon DEF HistoryInv, MigratedIsCurrent
<1>7. CASE Complete
  <2>1. UNCHANGED <<sections, bits, log, fresh, table, dirty, bitmap, sending, stale, excused>>
    BY <1>7, Zenon DEF Complete, DevStop, dev, heap, device, ram
  <2>2. UNCHANGED <<Marked(log), Marked(fresh)>>
    BY <2>1, ZenonT(60) DEF Marked
  <2>3. running' => running
    BY <1>7, Zenon DEF Complete, DevStop, device
  <2>4. stage = "iterate" /\ stage' = "complete"
    BY <1>7, Zenon DEF Complete
  <2>5. NothingLost'
    BY <2>1, <2>2, <2>4, ZenonT(60) DEF HistoryInv, NothingLost
  <2> QED
    BY <2>1, <2>3, <2>4, <2>5, ZenonT(60) DEF HistoryInv, MigratedIsCurrent
<1>8. CASE Finish
  <2>1. stage = "complete" /\ dirty = {} /\ bitmap = {} /\ sending = None
    BY <1>8, Zenon DEF ControlInv, Finish
  <2>2. log = NULL /\ fresh = NULL /\ bits[NULL] = {} /\ ~running
    BY <1>8, <2>1, Zenon DEF ControlInv, AllocInv, Resizing, Finish
  <2>3. Marked(log) = {} /\ Marked(fresh) = {}
    BY <2>2, ZenonT(60) DEF Marked
  <2>4. stale \subseteq excused
    BY <2>1, <2>3, DirtyLogAssumption, ZenonT(60) DEF TypeOK, HistoryInv, NothingLost
  <2> QED
    BY <1>8, <2>2, <2>4, Zenon DEF Finish, HistoryInv, NothingLost, MigratedIsCurrent, device,
       ram
<1>9. CASE SetFeatures \/ SetVringAddr \/ EnableDone \/ BitmapSync \/ DevStart \/ Reset \/
              UNCHANGED vars
  <2>1. /\ UNCHANGED <<sections, bits, log, fresh, table, dirty, bitmap, sending, stale,
                        excused, stage>>
        /\ running' => running
    <3>1. CASE SetFeatures \/ SetVringAddr \/ EnableDone
      BY <3>1, SMTT(60) DEF SetFeatures, SetVringAddr, EnableDone, dev, device, ram, heap
    <3>2. CASE BitmapSync \/ DevStart \/ Reset \/ UNCHANGED vars
      BY <3>2, SMT DEF BitmapSync, DevStart, Reset, DevStop, vars, dev, device, ram, control,
         heap
    <3> QED
      BY <1>9, <3>1, <3>2, Zenon
  <2>2. UNCHANGED <<Marked(log), Marked(fresh)>>
    BY <2>1, ZenonT(60) DEF Marked
  <2> QED
    BY <2>1, <2>2, ZenonT(60) DEF HistoryInv, NothingLost, MigratedIsCurrent
<1>10. CASE SetMemTable \/ SetBackend
  <2>1. /\ running' => table' = TableOf(sections)
        /\ UNCHANGED <<sections, bits, log, fresh, dirty, bitmap, sending, stale, excused,
                        stage>>
    BY <1>10, Zenon DEF ControlInv, CoverInv, SetMemTable, SetBackend, dev, heap, ram
  <2>2. \A p \in DOMAIN TableOf(sections) :
             p \in Mapped(sections) /\ Ram(sections, p) = TableOf(sections)[p]
    BY TablePages, Zenon DEF TypeOK
  <2>3. UNCHANGED <<Marked(log), Marked(fresh)>>
    BY <2>1, ZenonT(60) DEF Marked
  <2> QED
    BY <2>1, <2>2, <2>3, ZenonT(60) DEF HistoryInv, NothingLost, MigratedIsCurrent
<1>11. CASE Resize \/ StartLog
  <2>1. /\ fresh = NULL /\ log \in {NULL, log'} /\ bits[NULL] = {}
        /\ UNCHANGED <<sections, bits, table, running, dirty, bitmap, sending, stale,
                        excused, stage>>
    BY <1>11, ZenonT(60) DEF AllocInv, Resizing, Resize, StartLog, ram
  <2>2. Marked(fresh) = {} /\ Marked(log) \subseteq Marked(log)'
    BY <2>1, ZenonT(60) DEF Marked
  <2> QED
    BY <2>1, <2>2, ZenonT(60) DEF HistoryInv, NothingLost, MigratedIsCurrent
<1>12. CASE DisableDone \/ Cancel
  <2>1. stage' = "none" /\ UNCHANGED <<sections, table, running, excused>>
    BY <1>12, Zenon DEF ControlInv, DisableDone, Cancel, device, ram
  <2> QED
    BY <2>1, ZenonT(60) DEF HistoryInv, NothingLost, MigratedIsCurrent
<1>13. CASE SyncDone \/ SendPage
  <2>1. UNCHANGED <<sections, bits, log, fresh, table, running, excused>>
    BY <1>13, Zenon DEF SyncDone, SendPage, dev, heap, device, control
  <2>2. UNCHANGED <<Marked(log), Marked(fresh)>>
    BY <2>1, ZenonT(60) DEF Marked
  <2>3. CASE SyncDone
    <3>1. /\ bitmap' = bitmap \cup dirty
          /\ stage' = IF stage = "setup" THEN "iterate" ELSE stage
          /\ UNCHANGED <<sending, stale>>
      BY <2>3, Zenon DEF SyncDone
    <3>2. stale \subseteq Blocks
      BY Zenon DEF TypeOK
    <3>3. stage \in {"setup", "iterate", "complete"} =>
             stale \ excused \subseteq
                 bitmap \cup dirty \cup {sending} \cup Marked(log) \cup Marked(fresh)
      BY <3>2, Zenon DEF HistoryInv, NothingLost
    <3>4. NothingLost'
      BY <2>1, <2>2, <3>1, <3>3, ZenonT(150) DEF NothingLost
    <3>5. stage' # "setup" /\ (stage' = "done" => stage = "done")
      BY <3>1, Zenon
    <3> QED
      BY <2>1, <3>1, <3>4, <3>5, Zenon DEF HistoryInv, MigratedIsCurrent
  <2>4. CASE SendPage
    <3>1. stale' = stale \ {sending} /\ UNCHANGED <<stage, bitmap, dirty>>
      BY <2>4, Zenon DEF SendPage, control
    <3> QED
      BY <2>1, <2>2, <3>1, ZenonT(150) DEF HistoryInv, NothingLost, MigratedIsCurrent
  <2> QED
    BY <1>13, <2>3, <2>4, Zenon
<1>14. CASE \E l \in Layouts : Commit(l)
  <2>1. PICK l \in Layouts : Commit(l)
    BY <1>14, Zenon
  <2>2. /\ sections' = l
        /\ excused \subseteq excused'
        /\ UNCHANGED <<bits, log, fresh, table, running, stale, dirty, bitmap, sending, stage>>
    BY <2>1, SMT DEF Commit, dev, device, heap
  <2>3. \A q \in Mapped(sections) :
             \/ Ram(sections, q) \in excused'
             \/ q \in Mapped(l) /\ Ram(l, q) = Ram(sections, q)
    BY <2>1, Zenon DEF Commit
  <2>4. \A i : Marked(i) \subseteq excused' \cup Marked(i)'
    BY <2>2, <2>3, ZenonT(60) DEF Marked
  <2> QED
    BY <2>2, <2>3, <2>4, ZenonT(60) DEF HistoryInv, NothingLost, MigratedIsCurrent
<1> QED
  BY <1>1, <1>2, <1>3, <1>4, <1>5, <1>6, <1>7, <1>8, <1>9, <1>10, <1>11, <1>12, <1>13,
     <1>14, Zenon DEF Next, Vhost, Migration

-----------------------------------------------------------------------------
(* The invariant.                                                          *)

(* A device that has not been started has no log.                          *)
LEMMA InitLog == Init => LogInv
<1> SUFFICES ASSUME Init PROVE LogInv
  BY Zenon
<1>1. size \in [Logs -> Nat] /\ bits \in [Logs -> SUBSET Nat] /\ NULL \in Logs
  BY DEF Init, NULL, Logs
<1>2. TypeOK
  BY <1>1, Zenon DEF Init, TypeOK
<1>3. ControlInv
  BY Zenon DEF Init, ControlInv
<1>4. AllocInv
  BY <1>1 DEF Init, AllocInv, Resizing
<1>5. CoverInv /\ DeviceInv /\ SyncInv
  BY Zenon DEF Init, CoverInv, DeviceInv, SyncInv, Resizing
<1>6. HistoryInv
  BY Zenon DEF Init, HistoryInv, NothingLost, MigratedIsCurrent
<1> QED
  BY <1>2, <1>3, <1>4, <1>5, <1>6, Zenon DEF LogInv

(* The invariant holds always.                                             *)
LEMMA LogInvariant == Spec => []LogInv
<1>1. LogInv /\ [Next]_vars => LogInv'
  BY TypeStep, ControlStep, AllocStep, CoverStep, DeviceStep, SyncStep, HistoryStep, Zenon
     DEF LogInv
<1> QED
  BY <1>1, InitLog, PTL DEF Spec

-----------------------------------------------------------------------------
(* Theorems.                                                               *)

(* Whatever memory layouts the guest goes through, and whenever logging is *)
(* switched on or off, the device never logs a page beyond the end of the  *)
(* log it has, nor into a log that has been freed.                         *)
THEOREM LogIsLargeEnough == Spec => []LogCovers
<1>1. LogInv => LogCovers
  <2> SUFFICES ASSUME LogInv, running, base # NULL, features \/ flagged # {}
               PROVE  \A p \in DOMAIN table : Chunk(p) < size[base]
    BY DevicePages, Zenon DEF LogCovers
  <2> QED
    BY LoggedInLog, Zenon
<1> QED
  BY <1>1, LogInvariant, PTL

(* The assertions of vhost_dev_sync_region never fail.                     *)
THEOREM SyncStaysInLog == Spec => []SyncInLog
<1>1. LogInv => SyncInLog
  BY Zenon DEF LogInv, SyncInv, AllocInv, SyncInLog
<1> QED
  BY <1>1, LogInvariant, PTL

(* Every page the device writes after it was sent is on its way to be sent *)
(* again, through any number of changes of the memory map, resizes of the  *)
(* log, syncs, stops and restarts.                                         *)
THEOREM NoWriteIsForgotten == Spec => []NothingLost
<1>1. LogInv => NothingLost
  BY Zenon DEF LogInv, HistoryInv
<1> QED
  BY <1>1, LogInvariant, PTL

(* When the migration is done the destination has every page as the device *)
(* left it, but for the pages that are excused.                            *)
THEOREM DestinationIsCurrent == Spec => []MigratedIsCurrent
<1>1. LogInv => MigratedIsCurrent
  BY Zenon DEF LogInv, HistoryInv
<1> QED
  BY <1>1, LogInvariant, PTL

(* The log, the bitmaps and what the device was told keep their types: the *)
(* table a device has is always that of a whole layout.                    *)
THEOREM LogTypeCorrect == Spec => []TypeOK
<1>1. LogInv => TypeOK
  BY Zenon DEF LogInv
<1> QED
  BY <1>1, LogInvariant, PTL
=============================================================================
