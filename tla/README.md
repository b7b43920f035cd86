# A TLA+ model of vhost_user

vhost_user is a user-space virtio-net back end. QEMU (a patched copy of which is
kept in `src/qemu_vhost_user`) connects to it over a Unix socket and hands it
the guest's memory and the two rings of the guest's network device. The program
then consumes the packets the guest transmits and puts packets into the guest's
receive ring. A second thread exchanges RDMA connection data with a peer process
and, in one of two modes, also puts packets into the receive ring.

## Inventory

| Part | Code | State | Operations |
|---|---|---|---|
| transmit ring | `process_avail_vring`, `process_desc`, `avail_handler_server`, `_kick_server`, `vhost_user_poll_handler` | the rings in shared memory, `last_avail_idx`, `last_used_idx`, the one packet buffer | drain avail, walk a chain, fill used, publish, echo |
| receive ring | `put_vring`, `put_rx_vring`, `send_packet`, `kick` | the same ring structure, used as a free list through `desc[].next` | put a packet (main thread), put a packet (transport thread) |
| event loop | `FdList`, `traverse_fd_list`, `process_fd_set`, `accept_sock_server`, `receive_sock_server` | ten read nodes, the kernel's descriptor table, the ready set of the last `select` | accept, receive, end of file, kick |
| control messages | `vhost_user_receive`, `in_msg_server`, `msg_handlers` | the stream socket, memory regions, ring configuration, `g_send_lock` | one handler per request |
| address translation | `_map_user_addr`, `_map_guest_addr`, `_set_mem_table` | the region table | first region that contains the address |
| RDMA set-up | `handle_rdma_transport`, `handle_rdma_transport_receive`, `vhost_user_transport.c` | TCP connection, the queue pair's state, local and remote connection data | create, listen or connect, exchange, RTR, RTS |
| QEMU front end | `hw/virtio/vhost.c`, `vhost-backend.c`, `net/vhost-user.c`, `hw/net/vhost_net.c` | `control` socket, `started`, link state, timer, memory map | start, stop, reconnect, echo, memory listener |
| migration of a guest with such a NIC | the log functions of `hw/virtio/vhost.c`, `ram_save_*` and `migration_bitmap_*` in `arch_init.c` | the log and its size, what the device was told of it, the dirty and the migration bitmap | switch logging on and off, resize the log, sync, send a page, complete, cancel |

The parts meet in three places. QEMU configures the server over the control
socket, which the event loop reads; the handlers it calls fill the region table
and the ring descriptions. The guest and the server share the rings themselves.
The transport thread shares the region table and the receive ring with the main
thread, from the moment `g_send_lock` is set.

What makes the system hard to test: the guest runs concurrently with every
access to the rings; the indices are 16-bit and wrap while slots wrap at `num`;
the socket is a stream without message boundaries; descriptor numbers are reused
while a `select` result is being worked off; two threads share the receive ring
without a lock; the server may die between any two messages QEMU sends, and QEMU
between any two messages the server reads; and during a migration the device
writes guest memory while QEMU reads, replaces and frees the log of those writes.

## Modules

| Module | Models | Instance | Theorems |
|---|---|---|---|
| `TxVring` | the transmit ring: main thread and guest driver | `MCTxVring` | `TxVringProofs` |
| `TxQueue` | what the transmit ring promises: a bounded FIFO queue | | |
| `TxVringQueue` | the rings of `TxVring` read as that queue | `MCTxVring` | `TxVringProofs` |
| `RxVring` | the receive ring: main thread, transport thread, guest driver | `MCRxVring` | `RxVringProofs` |
| `EventLoop` | `FdList`, `select` and the socket and kick handlers | `MCEventLoop` | `EventLoopProofs` |
| `ControlChannel` | QEMU's messages, the stream, the server's request handlers | `MCControl` | `ControlProofs` |
| `GuestMemory` | the server's region table and its two lookups | `MCGuestMemory` | `GuestMemoryProofs` |
| `RdmaHandshake` | the two transport threads and `g_send_lock` | `MCHandshake` | `LinkProofs` |
| `VhostUserLink` | QEMU's timer, reconnect, start and stop of the device | `MCLink` | `LinkProofs` |
| `MemMap` | QEMU's memory listener and `dev->mem` | `MCMemMap` | `MemMapProofs` |
| `DirtyLog` | QEMU's dirty log of a vhost device, and the migration that reads it | `MCDirtyLog` | `DirtyLogProofs` |

Each module keeps the control of the code it models and abstracts the data: a
packet is a number or a length, a memory region the memory behind it, a
descriptor what it is and whose. An operator whose comment starts with "Mutant"
is a wrong version of the definition that follows it; it is used to test that
the properties can fail and by nothing else.

The modules overlap where the parts meet, each with the detail it needs. The kick
handler is a step of the event loop in `EventLoop` and a walk of the ring in
`TxVring`; `_set_mem_table` is one message of many in `ControlChannel` and a series
of stores in `GuestMemory`; `_set_vring_addr` is atomic in `ControlChannel` and a
series of stores in `RdmaHandshake`.

### TxVring, TxQueue

State: the descriptor table and the two rings in shared memory, the driver's
private state, the server's `last_avail_idx`, `last_used_idx`, packet buffer and
locals, and its program point `pc`. Every access of the server to shared memory is
a step, so that the guest acts between any two. `SelectTimeout`, `KickServer` and
`PollHandler` are the two ways into `process_avail_vring`; `ProcessDesc`,
`CopyDesc` and `FinishDesc` are `process_desc` and the loop body around it;
`EndOfAvail` is the store to `used->idx` when avail is exhausted. Indices wrap at
`IndexMod` (2^16 in the code), slots at `Num`. The guest's actions are external:
the driver fills a slot, publishes it, kicks, takes back used entries. A chain may
have any lengths. One of which something is copied, but less than a net header, makes
the unsigned `len - hdr_len` of `avail_handler_server` wrap and the copy that follows
kill the server (`PayloadWraps`, `CrashDesc`); the server does nothing from then on.

`TxQueue` knows no rings: buffers are submitted, consumed in order, published,
and taken back in order. `TxVringQueue` gives the refinement mapping: the three parts
of the queue are what lies between the indices, read from the avail ring for what is
pending and from the used ring for the rest. The queue's fairness is promised by a
server that does not crash, its safety by every one.

### RxVring

Two threads run `put_rx_vring` and `put_vring`, which are described by the order of
their accesses (`PutRxVring`, `PutVring`: from each program point to the next).
Both take a buffer by following `desc[].next` from `last_avail_idx`; only
`put_rx_vring` writes the used ring, with an id from `last_used_idx`. The guest
posts, is interrupted, takes and re-posts buffers; what a re-posted descriptor
has in its `next` field is arbitrary. An index outside the table ends what is
followed of a thread (`WildIndex`). `avail->idx++` is a load and a store (`LoadAvail`),
between which the other thread may increment too; `used->idx++` is one step, since only
`put_rx_vring` makes it and the guest does not write there.

### EventLoop

State: the nodes of `fd_list.read_fds`, the process's descriptor table (the
kernel gives out the lowest free number), pending connections, unread messages,
the ready set of the last `select`, and the position of `process_fd_set`. The
handlers run while that set is worked off: `AcceptSockServer`, `ReceiveOther`
and `SetVringKick` (which open descriptors), `ReceiveEof` (which closes one and
removes its node), `KickServer`.

### ControlChannel

QEMU's side is a script: the messages the running function has yet to send, as
`vhost_dev_init`, `vhost_dev_start`, `vhost_net_stop_one`, a mask, a memory commit
or the timer's echo send them. The channel is a stream, and QEMU waits for nothing but
room in the socket: `Receive` takes what is queued up to and including the first message
with descriptors, but no more than the 212 bytes of a `VHostUserMsg`, handles the first
message with those descriptors, and drops the rest (`Words`, `Upto`, `Stops`, `Taken`).
When the buffer ends inside a message, the rest of it is what the next read begins with
(`ReceiveTorn`); what the server makes of that is not followed. `ReceiveEof` handles an
uninitialised message: nothing, a failed assertion, or the message the stack still holds.
`_get_vring_base` reads an index that is not in the message. The history variable `kept`
is true while no message of the current QEMU was dropped, and none of an earlier one read
after the server had heard the current one.

### GuestMemory

`_set_mem_table` empties the table (`SetMemTable`), stores the fields of a region one by
one (`StoreField`, `MapFailed`) and counts it (`CountRegion`). A lookup is a loop of
loads, each a step: `TestIndex`, `TestLow`, `LoadLow` and `TestHigh` (the two loads of the
sum that is the upper bound), `LoadMapping` and `LoadResult` (the two of the result). The
program is built without optimisation, so the loads are those of the source. The main
thread does one or the other; the transport thread looks up at any time. The history
fields `quiet` and `same` record whether a lookup ran into no table, or only into a
repetition of the one that was there.

### RdmaHandshake

`InitContext` is `init_context` with `set_local_ib_connection`; the server then
listens and accepts, the client connects to each address of the name and keeps
the last connection; both write, then read, the connection data and bring the
queue pair to RTR, the server to RTS. A call that fails ends the process (`Exit`),
as the `TEST_` macros do. What a side reads it can parse (the test `parsed != 5` never
fails), because the peer writes all five fields in the widths that are read.

After it the client polls `g_send_lock`, which the main thread sets with the last of the
stores of `_set_vring_addr`. That function sets up either ring and the lock is one for
both: QEMU sends the receive ring's message first, but that message may be dropped in a
read that returns two (see `ControlChannel`), so `SetVringAddr` takes the two rings in any
order and any number.

### VhostUserLink

A handler of QEMU (the timer, a status change, `set_link`, a mask or a memory
commit) makes a number of calls to the server; `pc` is the function that is
running and `todo` the calls it has left. A send that fails closes the socket and
returns 0, the calls after it return -1; what follows depends on the function:
`vhost_dev_start` gives up, `vhost_dev_init` fails, all others assert. A start may also fail
in QEMU itself (`StartGivesUp`): host notifiers, the rings of the first queue or of the
second, guest notifiers; what has been started by then is stopped again (`undo`), with
calls that are asserted, and `fell_back` records that the NIC runs without vhost.

### MemMap

The memory core turns a layout into ranges and calls the listener for each range that is
gone, then for each that is new, in the order of addresses (`Begin`); a range is a piece
of one region, read-only or not, and memory may be seen through a read-only alias of its
region. Whether writes to a region are logged (`is_logging`) may change with each update,
for the regions of a display, and `vhost_set_memory` skips a range that is logged when it
is added. Switching the log of a range that stays where it is calls only `log_start` and
`log_stop`, which do nothing: the array keeps what it had. The history variable `skipped`
has the pages whose range was logged when it was last added, and what the properties say
of a page depends on it. `vhost_set_memory` changes the array `dev->mem` in place.
`Unassign` and `Assign` are the two loops over the array, written as functions of the
number of rounds (`AssignRegion` is one round), with the assertions of the code beside
them.

### DirtyLog

QEMU's handlers run under the global lock: `op` is the handler that is running and `pc`
what it does next. Each call to the device, each chunk of a sync and each page that is
sent is a step, and the device writes (`WriteBuffer`, `WriteUsed`) between any two.
`Setup`, `BitmapSync`, `SaveBlock`, `SendPage`, `Complete`, `Finish` and `Cancel` are the
migration; `Resize`, `SyncChunk` and `ResizeDone` are `vhost_dev_log_resize`, when logging
is switched on, before a larger memory table and after a smaller one; `SetFeatures` and
`SetVringAddr` are the calls that tell the device what to log. A log is a number with a
size and a set of marks, size 0 once it is freed. `stale` (pages not sent since they were
written) and `excused` are history variables.

The device is external, and taken at the word of `linux/vhost.h`: it logs the
writes it is told to log. The kernel's device does; the server of this repository
prints the requests and logs nothing. `SetBackend` is the call made for a tap device,
the one that has a log. The calls succeed, since QEMU asserts or aborts when they do not.
`StartLog` is what the code does: it passes the log itself where a pointer to its
address is expected, so that the device gets 0, the first word of the new log.
The encoding of pages in the stream, the order of the first pass over RAM, throttling
and the destination are left out.

## Runs

| Run | Instance | What it shows |
|---|---|---|
| `tx` | 2 descriptors, indices mod 4, six kinds of chains | `IndexWindow`, `ExactlyOnce`, `ReadsOnlyHandedOver`, `UsedLenIsPacketLen`, `VisibleUsedStable`; the payload length wraps only for a chain that is short of a header or of which no more is copied (`WrapsOnlyIfShort`); the rings implement `TxQueue`; every packet is returned unless the server crashed |
| `rx` | 2 descriptors, 3 frames that fit or do not, both threads | during the first pass, and until something is echoed: frames arrive once, in order (`FramesInOrder`), in posted buffers (`FirstPassUsesPosted`), and the guest is woken (`Delivered`) |
| `loop` | 3 nodes, 4 descriptors, 2 connections, 1 kick | the list matches the files, no handler blocks on a stale ready bit, closed connections are removed and new ones accepted |
| `ctl` | 2 connections, 2 starts, up to 2 messages unread, a memory table of 8 regions | however reads run messages together or cut them, a ring has its size before its addresses and only its own eventfds; the server has the configuration of the current QEMU unless a message of it was dropped or one of an earlier QEMU came in between (`ConfigArrives`); no buffer is processed twice before a restart |
| `gm` | 3 lists of blocks, 6 addresses, failing `mmap` | undisturbed lookups are right, disturbed ones never lead to other memory, guest RAM is found |
| `hs` | 1 address, 2 configurations | queue pairs get the data of a live peer, nobody waits for ever, what the receiver finds in the ring is of one configuration or of two neighbouring ones (`PutsIntoReadyRing`), and it does start |
| `link` | 3 deaths or timeouts, starts that fail in QEMU | the three records of a started device agree, the guest sees the link state, the device restarts and the connection comes back |
| `log` | 2 pages of RAM in one or two sections, a card with 1 page, any number of migrations | the device's log always covers what it may mark (`LogCovers`), a sync stays inside the log (`SyncInLog`), a write after a page was sent is never forgotten (`NothingLost`), the destination is current (`MigratedIsCurrent`) |
| `mem` | 3 guest pages, 4 of memory: RAM of 2 pages, a card and a display whose log is switched | `dev->mem` follows every sequence of layouts, its assertions and its allocation hold, a ring that moves is noticed, a running device has the current table |

The type invariant of each module is proved; the runs leave it out.

Three runs show that the code does not do what a comment or an assertion in it says;
the counterexample is the point of the run.

| Run | Violated | Why |
|---|---|---|
| `ctl_lost` | `ConfigMatches` | with two messages queued, `recvmsg` returns both and one is handled |
| `rx_reuse` | `UsesPosted` | after one pass `desc[].next` leads to a buffer whose frame was not taken |
| `link_stop_assert` | `StopAssertions` | the server dies, one call notices, the stop that follows asserts the next |

### Conditions in the properties

Some properties carry a condition because the code keeps them only then. Each
condition is necessary: without it TLC finds a counterexample.

* `Chains` of the run `tx` all have a first descriptor that fits the packet buffer; they
  include the two kinds that are too short. A chain `<<4>>` is consumed without a used
  entry, and `ExactlyOnce` fails: the driver is shown the entry of an earlier lap.
* `FramesInOrder` and `Delivered` hold while nothing has been echoed. `put_vring` moves
  one head of the ring and not the other, after which used entries name other
  buffers; and the echo itself is never entered in the used ring.
* `ImplementsTxQueue` and `EventuallyReturned` promise progress unless the server has crashed.
* `ConfigArrives` is about a QEMU of which no message was dropped (`kept`); without the
  condition it is `ConfigMatches`, which `ctl_lost` refutes.
* `ProcessedOnce` holds until the device is started a second time: QEMU sends base 0
  at every start, since the answer of `_get_vring_base` is never sent.
* `QuietSearch` and `FindsGuestRam` are about tables whose regions were all mapped
  (`AllMapped`): a region whose `mmap` failed counts, with address 0.
  `FindsGuestRam` fails for a guest with a memory hole (`RamEnd = 2`, `Hole = 1`).
* `BothSettle` holds for a name with one address. With `NAddrs = 2` the client uses the
  second connection, the server accepts the first, and both read for ever.
* `FirstPassUsesPosted` is about a ring into which one of the threads has put nothing:
  two threads in their puts may take the same head.
* `PutsIntoReadyRing` allows fields of the last configuration and of the one before it while
  `_set_vring_addr` runs a second time: `g_send_lock` is never cleared. Fields other than
  `desc` may be unset during the first time if the transmit ring's message had set the
  lock before (`ahead`).
* `DownIsSeen` and `UpIsStarted` leave out what `set_link` was told to do, and `UpIsStarted` a
  start that failed in QEMU itself (`fell_back`).
* `MapsView` and `RingStaysMapped` follow the code in leaving out the pages that were logged
  when they were added (`skipped`): such a page stays out when its logging ends, and one
  whose logging begins later stays in.
* A lookup that `_set_mem_table` disturbs may fail to find a buffer that is in the old
  table and in the new one; `NeverOthersMemory` says only where it may not lead.
* `NothingLost` and `MigratedIsCurrent` excuse the pages the device writes without a log
  (started during a migration, until the next resize, see `StartLog`) and the pages whose
  place in the memory map changes, whose marks are not attributed to them any more.
* `DirtyLogAssumption`: sections that share a chunk of the log are neighbours in one
  memory region, and the rings stay mapped at the same place.

### Bounds

* `tx`: with 2 descriptors and indices mod 4 every slot is used in two laps, the ring runs
  full and empty and every index wraps; the number of packets is not bounded. The chains
  are a header and payload in one descriptor and in two, a header that is itself in two, a
  payload that does not fit, and the two that are too short. The theorems cover the other
  sizes.
* `rx`: 3 frames on 2 descriptors reach the second pass. Indices do not wrap here: the
  ring is only right in its first pass, long before they would.
* `loop`: three nodes are fewer than the listener, two connections and a kick need, so
  that registration fails, and four descriptors run out; two connections suffice for
  one to get the number another has just given back.
* `ctl`: two connections give a QEMU that dies in the middle and a successor; two starts
  give a restart in one or a start in each. Two unread messages suffice for a read that
  returns two, and for one that ends inside the memory table (`MemRegions = 8` fills the
  buffer by itself); then the sender waits (`MaxQueued`). `MaxAsides` bounds the messages
  sent on their own. `Budget` bounds all of these and the buffers published together: what
  one behaviour has more of the one it has less of the other. The theorems have none of
  these bounds.
* `gm`: three lists that share a block and reuse a slot for another; addresses at the
  first, the last and one past the last page of the regions. The number of tables
  and lookups is not bounded.
* `link`: three faults let a reconnect fail in its own handshake and come back.
* `mem`: three guest pages with blocks that are adjacent in QEMU are the least in which a
  region is split by the deletion of its middle and two are joined by the addition of
  one between them; the block of two pages gives sections that change in part, its second page may
  turn read-only and back, and the display's log goes on and off. No page
  of RAM is at two places at once. The number of layout changes is not bounded.
* `log`: the card lies in a chunk of its own, so that the log grows when it appears and
  shrinks when it goes; `LogBuffer = 1` is the least slack, so that a shrink happens at
  once. RAM split in two sections shares a chunk between them. One queue, its used
  ring in the first page, buffers in the second and on the card. The number of migrations, writes,
  resets and layout changes is not bounded.
* `hs`: with two configurations the lock is already set while the second is stored. The
  transmit ring's messages are not bounded.

`CHECK_DEADLOCK FALSE` is given where the system may stop: a process has exited or
aborted, or the bound on connections, faults, frames or configurations is reached.
In `log` the source stops when the migration is done. In `tx` and `gm` deadlock is
checked.

### Fairness

Only what the code's own loops guarantee is assumed. `TxVring` and `EventLoop`: the
main thread takes steps (`while (app_running) loop_server`, `select` with a timeout);
nothing is assumed of the guest or the front ends. `RxVring`: a put that has begun is
finished, and the guest serves its interrupt and its poll. `VhostUserLink`: the timer
re-arms itself at the end of each call, and a handler that has begun is finished;
nothing is assumed of the server, which is why `Reconnects` has `<>[]up` as its premise.
`RdmaHandshake`: a thread that can go on does (a blocked `read` or `accept` cannot); that
QEMU configures the ring is not assumed. `TxQueue` assumes that what is pending is
consumed and what is consumed is published; the run shows that the rings do both.

## Theorems

TLAPS proves the following for all values of the constants that satisfy the
`ASSUME`s of the modules.

* `TxVringProofs`. `TypeCorrect`. `WindowCorrect`: `IndexWindow` is inductive given the
  types, and rests on the arithmetic of indices that wrap (`Num` divides `IndexMod`, so
  that a step of the index is a step of the slot). `VisibleEntriesStable`: from the
  window, since fewer than `Num` entries are visible and the slot written is outside them.
  Under `FirstFits`: `NoBufferLostOrDuplicated` and `OnlyHandedOverIsRead`. Their
  invariant `Ownership` adds that the chains in flight are disjoint, linked as the
  descriptor table says, and that the walk is inside the chain at `last_avail_idx`;
  `ExactlyOnce` alone is not inductive, because it does not say that a chain cannot run
  into another. `RingsImplementQueue`, under `FirstFits` too, is the safety part of
  `ImplementsTxQueue`: from `Ownership`, every step of the rings is a step of `TxQueue` or
  leaves the queue alone. It rests on lemmas about parts of a ring as sequences, the main
  one being that a part is not disturbed by a store to the slot of an index at or behind
  its end, as long as both are less than a ring apart. `UsedLengthCorrect`
  (`UsedLenIsPacketLen`), under `FirstFits`: a sum over the descriptor table is a
  recursive function of the number of entries (`Total`), and what it does when a
  descriptor is added to the set is shown at the first entry where it would not.
  `LengthInv` says that the walk has added up exactly the descriptors before the current
  one, in the order of the links, that a packet that fits is walked to its end, and that a
  used entry not yet taken has the sum of its chain, whose descriptors nobody rewrites
  while it is in flight. `PayloadLengthCorrect` (`WrapsOnlyIfShort`) follows from the same
  invariant, for chains of any lengths whose first descriptor fits: what was copied is the
  whole packet, or includes its first descriptor. `ProcessedIsPublished`: outside
  `process_avail_vring` nothing that was processed is unpublished (`NothingHeldBack`).
* `RxVringProofs`, whichever of the two threads put frames. `RxTypeCorrect`: an index that is
  used was found to be in the table (`Located`). `FirstPassDelivers` and `FirstPassPosted`:
  `RingInv` has one invariant for each thread, which holds until the other begins a put.
  For the transport thread `RxInv` says that in the first pass frame n uses descriptor n,
  that both heads agree up to the step between their stores, that the descriptors ahead
  are untouched, and that what is published is intact. For the main thread `EchoInv` says
  that the used ring is empty, so that the guest takes and posts nothing, and that
  `put_vring` is at the descriptor the head has just left. `NoFrameUnannounced`: a used entry
  the guest has not taken has the guest polling, its interrupt pending, or a kick to come
  (`Announced`), in every pass.
* `EventLoopProofs`: `LoopTypeCorrect`, `ListCorrect`, `LoopNeverBlocks`. The invariant
  adds that a connection is behind at most one descriptor (`ConnInv`), that the
  listener has the first node to itself (`FirstNode`), and that the ready bits not
  yet looked at are not stale (`ReadyInv`). The last needs the first two: a number
  given out again during the pass is that of a node already passed, or its bit
  belongs to a file that is still there.
* `ControlProofs`, for a server that reads at any pace and any number of connections and
  memory regions: `ControlTypeCorrect`, `SizeBeforeAddresses`, `DescriptorsAreOwn`. The
  invariant is about messages not yet read: each address is preceded by its ring's size,
  and the size is first or directly behind a message with a descriptor, where `recvmsg`
  stops, so that it is not among those dropped. `BuffersProcessedOnce` (`ProcessedOnce`):
  `OnceInv` says that while there was at most one start, a single connection d has
  addresses and memory anywhere, that a base still to be read, or left on the stack, is 0
  and comes before the ring has addresses, and that the position in the ring is the number
  of d's buffers processed. `ConfigurationArrives` (`ConfigArrives`): `ConfInv` says,
  while `kept`, of each setting that the server has it or that the message is still to be
  read. What makes it inductive is what an end of file may repeat: the message on the
  stack is of an earlier QEMU only as long as the server has not heard the current one,
  and until then all that this one sent is still to be read, with the memory before the
  addresses (`UnheardInv`).
* `LinkProofs`, for any number of faults: `LinkTypeCorrect` and `FlagsAgree`, with
  `set_link`; the invariant `LinkInv` says where the flags stand at each program point.
  `DownIsAlwaysSeen` and `StartedAfterReconnect` (`DownIsSeen`, `UpIsStarted`): `SeenInv`
  adds that both ends agree on the link, that it is down exactly while there is no
  connection or it is being taken down, and that the device is otherwise stopped only for
  a driver that is not ready. The module also has the other thing two processes agree on
  over a connection, the handshake of `RdmaHandshake`, for any number of addresses and of
  configurations and with every call free to fail. `HandshakeTypeCorrect`.
  `HandshakeReachesPeer` (`ConnectedToPeer`): `Hands` says what each thread has done at
  its program point, and that what a side has read its peer wrote on the same connection,
  which neither gives up afterwards. `RingIsReadyForFrames` (`PutsIntoReadyRing`):
  `RingInv` says that the fields before the next store are of the current configuration
  and the others of the one before, the lock being the last, and that a lock which the
  transmit ring's message did not set ahead was set by a first configuration that is
  complete. `HandshakeNeverCrosses` (`NeverBothWait`), for a name with one address: a side
  that waits for its peer has a peer that is not waiting for it, since the one connection
  the client made is the one the server took (`SockInv`).
* `GuestMemoryProofs`, for every list of blocks, size of the table and set of addresses,
  and with an `mmap` that may fail at any region: `GuestMemoryTypeCorrect`,
  `QuietSearchIsRight`. The invariant says that the regions that count are those of the
  table being or last filled, and that an undisturbed lookup has passed only regions that
  do not contain the address and holds, between two loads, the value the region still has.
  `TornSearchFindsNoOther` (`NeverOthersMemory`): for a lookup that runs into a repetition
  of the table, a region it meets has each field either from the table or from the failed
  `mmap`, and what the lookup has tested says which table entry the result is inside of,
  or that it is below all memory. The hypothesis `HighMemory` says that no block is longer
  than the address of any mapping, without which a region mapped at 0 gives addresses that
  may be another's. `GuestRamIsFound` (`FindsGuestRam`) follows from `QuietSearchIsRight`
  under `RamBelowHole`: all RAM is one block, of the size below the hole. The instance of
  the run `gm` satisfies both hypotheses.
* `MemMapProofs`, for every number of pages, every set of blocks and every sequence of
  layouts: `MemMapTypeCorrect`, `ArrayMapsView`, `ArrayNonOverlapping`,
  `ArrayAssertionsHold`, `ArrayFitsAllocation`, `DeviceRingStaysMapped`,
  `DeviceTableIsCurrent`. The first part of the module is about the two loops: what
  `Unassign` and `Assign` leave maps exactly what it should, has no two regions that
  overlap or could be merged (`Sound`), and has the length the allocation allows. Each is
  shown round by round; that a loop keeps what a round keeps is proved by looking at the
  first round that does not. The second part is about the memory core: `MemInv` adds to
  `Sound` that the ranges to be deleted come before those to be added (`PassInv`), that
  the array maps the ranges the core has passed on so far (`CoverInv`), that a table which
  is not current will be sent (`TableInv`), that the changed range has every page whose
  mapping the update touches (`NotedInv`, `Touched`), and where the ring is (`RingInv`).
  `MapsView` alone says nothing in the middle of an update, which is where the array
  changes.
* `DirtyLogProofs`, for all layouts, numbers of queues and chunk sizes: `LogTypeCorrect`,
  `LogIsLargeEnough`, `SyncStaysInLog`, `NoWriteIsForgotten` and `DestinationIsCurrent`.
  `NothingLost` is far from inductive. `LogInv` is the conjunction of what each handler
  has done so far (`ControlInv`), which logs are allocated (`AllocInv`), that they cover
  the map and the device's table (`CoverInv`), what the device was told (`DeviceInv`),
  that a sync in progress has yet to look at every mark that must not be missed
  (`SyncInv`), and where the written pages are (`HistoryInv`). Each conjunct has a lemma
  of its own, since it needs only those before it.

Every invariant and action property of a passing run is stated by a theorem. Only
model-checked: the liveness properties (`EventuallyReturned`, `ClosedIsRemoved`,
`ConnectIsAccepted`, `Reconnects`, `Delivered`, `BothSettle`, `ReceiverStarts`) and the
fairness of `TxQueue` in `ImplementsTxQueue`, since the prover has no rules for `ENABLED`
and fairness; of three of them the safety part is a theorem (`ProcessedIsPublished`,
`NoFrameUnannounced`, `HandshakeNeverCrosses`), whose statements are in the modules of the
proofs. And the properties that three runs show to
be violated.

## Not modelled

* `rdma_transfer` and `rdma_write`: not called by anything.
* The dumps and the logging; the contents of packets and the virtio net header.
* The kernel vhost back end, tap devices, and the rest of QEMU, except where they drive
  the code above. `src/qemu_vhost_user` is a whole QEMU of some 950,000 lines, nearly all
  of it as upstream wrote it; the models cover the files this repository changes or adds
  and what those depend on, a small share of the lines under `src/`.
* Weak memory. The server has no barriers; the models are sequentially consistent,
  which is what x86 gives the orders of loads and stores that matter here.
* The uninitialised `dev->control` that `vhost_user_init` closes (any descriptor of QEMU,
  none of which the models hold), and a ninth RAM block (the arrays have room for 8).
* What the server does with a message whose beginning an earlier read has taken
  (`ReceiveTorn`), rings in ROM, and which of a region's writes a display logs.
* What becomes of the packets of a batch: all go through the one `vhost_user->buffer`,
  and only the last is echoed (`EchoBuffer`).

## Next

1. A composition of `VhostUserLink` with the server's side of `ControlChannel`: what a
   restarted server, which has lost all configuration, gets from a QEMU that reconnects.
2. An abstract specification of the receive ring, for its first pass.
