# sfxge: TLA+ models, checks and proofs

This directory holds TLA+ models of the Solarflare GLDv3 driver `sfxge` (the
`sfxge*.c` files) and of the hardware library it uses (`common/`). The models
are translated from the C code; each definition that stands for code is listed
with its file and lines in `PROJECT.json` under `map`. TLC checks the models on
small instances (`*.cfg`); TLAPS proves the invariants and action properties of
eight of them for every value of the constants (`*Proofs.tla`).

Run a check with `tlc -config MCLifecycle.cfg SfxgeLifecycle`, a proof with
`tlapm SfxgeLifecycleProofs.tla`. File names below are relative to `src/`.

The models are of the driver as its makefiles build it: Siena and Huntington
controllers (Medford and licensing are compiled out), with filters, VPD, NVRAM,
wake on LAN, self tests, receive scaling and statistics.

## 1. Inventory of the system

| Component | State | Operations | Interacts with |
|---|---|---|---|
| Life cycle (`sfxge.c`, `sfxge_err.c`) | `s_state`, `s_state_lock`, `s_nested_restarts`, `s_hw_err`, the task queue `s_tqp` | attach, detach, create, destroy, start, stop, restart, ioctl | calls every other component in a fixed order; anyone may dispatch a restart |
| MCDI (`sfxge_mcdi.c`, `efx_mcdi.c`, `ef10_mcdi.c`, `siena_mcdi.c`) | `sm_state`, `emi_pending_req`, `emi_seq`, `emi_new_epoch`, the message buffer | execute, start/poll/abort of a request, events of the controller's death; some eighty functions that each put one request | every component that programs the NIC; reports failures to the life cycle |
| Event queues (`sfxge_ev.c`, `efx_ev.c`, `ef10_ev.c`) | `se_state`, `se_count`, the chain of transmit queues with completions | start, stop, poll, prime, the event handlers | interrupts call poll; handlers call TX, RX, MAC, MCDI, life cycle |
| Interrupts (`sfxge_intr.c`, `efx_intr.c`, `ef10_intr.c`) | `si_state`, the mask, the count of interrupts without cause | start, stop, the line and message handlers | event queues, fatal errors |
| Transmit (`sfxge_tx.c`, `efx_tx.c`, `ef10_tx.c`) | deferred packet list, fragment list, descriptor ring indices, pools of packets, buffers and mappings, `st_state` | packet_add, drain, post, complete, reap, unblock, flush, stop | GLD above, event queue below |
| Receive (`sfxge_rx.c`, `efx_rx.c`, `ef10_rx.c`) | ring indices, packets on loan to the stack, free pool, flows being coalesced, RSS table | refill, complete, free callback, flush, stop | event queue, GLD, life cycle (destroy waits for loans) |
| Filters (`efx_filter.c`, `ef10_filter.c`) | the tables with search depths (Siena), the table with busy flags and the index lists (EF10) | insert, remove, reconfigure, restore | MAC, MCDI |
| MAC and PHY (`sfxge_mac.c`, `sfxge_phy.c`, `efx_mac.c`, `efx_phy.c`, `*_mac.c`, `*_phy.c`) | `sfxge_mac_t`, the port's copy of the settings, poll task | start, stop, poll, link update, addresses, promiscuous mode, flow control, capabilities, drain | MCDI, filters, GLD |
| NVRAM, VPD, sensors, self tests | buffers, the open update of a partition | read, write, erase, verify | MCDI, ioctls |
| NIC (`efx_nic.c`, `*_nic.c`, `efx_port.c`, `efx_sram.c`) | the module flags `en_mod_flags`, VIs, PIO buffers | probe, reset, init, fini | everything |
| DDI wrappers (`sfxge_dma.c`, `_pci.c`, `_bar.c`, `_sram.c`), GLD glue (`sfxge_gld_*.c`) | handles, the buffer table's arena | callbacks and properties | OS |

What is hard here: the life cycle, the senders, the interrupt threads, the MAC
poll task, the ioctls and the task queue run concurrently and share state under
many locks, some of it read without any; every start call can fail and is
unwound by a chain of labels; the controller can answer late, never, short, or
reboot; completions race with stops and time-outs; the deferred packet list is
lock-free on one side. `PROJECT.json` lists these places as `hazards`, each at
its line with the properties that bear on it.

For each component, what makes it correct:

- life cycle: what runs matches `s_state`; every failure unwinds exactly what
  was done; at most one restart is coming and none that is needed is lost;
  detach and the ioctls return; locks are entered in one order;
- MCDI: one request at a time, each completed by its own answer, every caller
  returns; what is sent is initialised and fits; what is read is the answer;
- events and interrupts: every event is handled once and in order, none waits
  without an interrupt coming, a poll never outlives its queue;
- transmit: no packet is lost, duplicated or reordered within a sender, a
  blocked queue is unblocked, back pressure is released, a stop leaves nothing;
- receive: a buffer belongs to the ring, the driver or the stack, never to two;
  refilling resumes; destroy waits for loans;
- filters: what the table says is what the hardware has, also after a failure;
  the hardware finds it; nothing is delivered twice;
- MAC and PHY: the controller has what was last asked for; a stopped MAC is
  quiet.

## 2. Modules

| Module | Models | Run |
|---|---|---|
| `SfxgeLifecycle` | life cycle, restart, link against restart | `lifecycle` |
| `SfxgeLifecycleProofs`, `McdiProofs`, `EventQueueProofs`, `TxDplProofs`, `TxRingProofs`, `RxQueueProofs`, `MacProofs`, `Ef10FilterProofs` | theorems about the modules of these names | - |
| `Mcdi` | requests over one shared buffer | `mcdi_requests` |
| `McdiLayout`, `McdiCalls`, `McdiExec` | messages, the functions that put them, a thread in those functions | `mcdi_calls` |
| `EventQueue`, `EventChannel` | event queues with interrupts, and what they promise | `event_queue` |
| `Ef10Filter`, `SienaHash`, `SienaFilter`, `Filters`, `MCFilters` | receive filters of both families behind one interface | `filters` |
| `Mac` | MAC, PHY and port | `mac` |
| `InitSteps`, `InitNic`, `InitDriver`, `InitQueues`, `InitAccess`, `InitEvents`, `InitPaths`, `MCInitPaths` | every function that takes and gives back resources, and its failures; the locks of the data path | `init_paths` |
| `TxDpl` | the deferred packet list of a transmit queue | `txdpl_*` |
| `TxRing` | the descriptor ring of a transmit queue | `txring` |
| `RxQueue` | a receive queue: ring, free packet pool, loans to the stack | `rxqueue` |

### SfxgeLifecycle

All functions that change `s_state` run under `s_state_lock`, so the lock
holder's progress is one program counter `pc` with a position `idx` in the
sequence of start or stop calls. `up` is the set of start steps in effect: step
k is added when call k succeeds and removed when its undo runs, so that a wrong
label shows as a hole in `up`. `sfxge_create` and `sfxge_destroy` are modelled
the same way by `apc`, `aidx` and `created`. Reports of errors take no lock:
each reporter has its own program counter `rpc` through the three steps of
`sfxge_restart_dispatch` (counters, atomic increment, dispatch), and the restart
task has `wpc`. The link state is kept because the restart task writes
`sm_link_mode` without the lock that the link poll holds (`lpc`). `intime` (a
restart was counted since the last reset, and not too late) and `iocreset` are
history variables. Any start or create call may fail at any
time.

Bounds: one thread calling start and stop, the DDI thread, the task queue
thread, the interrupt, one more reporter, at most `MaxRestarts` + `MaxHwErrs` =
two reports per attachment. Two reporters are enough for the races of dispatch
(the theorem `OneRestartAlways` covers any number); two reports are enough for
one to start a restart and one to fall into any of its windows. The dispatch
that must not sleep does not fail (`NoSleepMayFail = FALSE`, see section 3).

### Mcdi

Callers wait for `sm_state`, start a request under `en_eslp`, send it through
the buffer, poll, and after the watchdog expires abort it. The controller is
external: it answers in order, late or never, with success or an error, or
reboots. A request is identified by the value of `emi_seq` that made it; the
header carries it modulo `SeqMod`, as the code's four bits do. `MaxLate <=
SeqMod` says how many requests the controller may still hold, which is what the
width of the sequence number relies on; with a larger `MaxLate` a late answer
can be taken for a newer one, so the assumption is needed. The set of callers
is assumed finite, as the threads of a system are. `efx_mcdi_ev_death`
is split where it drops the lock; a request it looks at afterwards may be gone,
and then any command may be read.

Bounds: two callers, sequence numbers modulo 2 up to 3 (so they wrap), two late
answers, one reboot.

### McdiLayout, McdiCalls, McdiExec

Each function that puts a request keeps request and response in one array on its
stack: it clears it, writes fields, executes, compares the length of the
response with what it needs, and reads fields out of the same bytes.
`McdiLayout` has one record per message with the bytes of each field the driver
touches, as `efx_regs_mcdi.h` lays them out; `McdiCalls` has one definition per
function, the set of the sequences of calls it can make (`in`, `out`, fields set,
steps of reading); `McdiExec` runs a thread through one of them after the other.
The firmware is external: it refuses, or answers with any number of bytes. Of
the lengths only those matter at which a step of the reading decides otherwise,
so each of these, one below each, none, and more than there is room for are
taken. Messages that end in a list are taken with the shortest and longest list
the driver sends.

### EventQueue, EventChannel

The controller writes events to a ring (`ring`, `wr`), and raises an interrupt
when the queue is primed (`armed`, `rptr`) and its next slot is written. A line
interrupt has one queue, may be shared, and may lack its bit in the ISR, which
`si_zero_count` works around; messages have a handler per queue. The handler
(`hpc`) polls under `se_lock`: it reads a batch, handles its events one by one,
overwrites what it handled with ones and goes on or stops, then primes. The
control thread (`cpc`) starts and tests interrupts, starts queues, waits for
their initialization events or times out, stops them again. `count` is
`siena_ev_qpoll`'s local count and `se_count` the driver's: they differ when a
handler asks to stop. `last` and `stale` are history variables. `EventChannel`
is the abstract specification: a sequence of numbered events, handled from its
head; the refinement maps the events written and not handled to that sequence.

Bounds: two queues (one of them with messages of its own, the other only with
its initialization event), a ring of three with batches of three, four events,
so that the ring wraps, two starts. One completion ends a poll (`TxBatch`, the
property `ev_batch`), so that a poll ends in the middle of a batch.

### Ef10Filter, SienaHash, SienaFilter, Filters

`Ef10Filter` executes `ef10_filter_reconfigure` in steps, one per MCDI request
and one per use of the lock, with its fallbacks (all multicast, all unicast),
rollback and removal of what is still marked old. `tab` is the software table,
`busy` its busy entries, `old` the marks, `ucl` and `mcl` the index lists, `hw`
what the NIC has. Two threads: a request of the stack under `sm_lock`, and the
start and stop of the receive queues, which set and clear the default queue
without that lock. A request of the stack puts `SET_MAC` first
(`MacReconfigure`): when that fails the filters are left alone and the old
settings come back. `orphans` (history) are filters that a failed reconfiguration
unmarked. `SienaHash` is the encoding, the key and the 16-bit hash of a filter;
`SienaFilter` the tables with their search, insertion, deletion, search depths
and limits; the rows and limits of the NIC are kept beside them. `Filters`
composes the two behind the family chosen at probing, and assumes that the hash
values given in `MCFilters` are what `SienaHash` computes, which TLC evaluates.

Bounds: two addresses, three multicast lists that share addresses, hashes that
collide, six rows, two requests, two starts, two failing requests, chained
filters or not. Siena: ten filters of all kinds, three of which collide in a
table of four, search limit three, five calls.

### Mac

Requests hold `sm_lock` throughout and are one action each; `sfxge_mac_stop`
drops the lock in the middle and is two. The MCDI commands inside a request may
each fail, so operators map a port to the set of ports the calls can leave.
`sm` is what the stack asked, `port` what the common code believes with `mc`,
what the controller was told. `dirty` (history) names settings whose last
request failed or was made while the MAC was stopped; the next start brings the
latter in force. `port.panic` names the assertion a behaviour ran into.

Bounds: one multicast group, one link speed beside the pause bits, one failing
command; Siena and EF10, with and without auto-negotiation and v-adaptors.

### InitSteps, InitNic, InitDriver, InitQueues, InitAccess, InitEvents, InitPaths

Some three hundred functions take resources, call others and undo on `failN`
labels what they did. Each is a definition of the same name: the list of its steps
(take, give back, ask the firmware, call, enter a lock, assert) with the label
each failure jumps to, and the list of its labels. `InitSteps` defines the words;
`InitNic` has the common code's NIC, MCDI, PHY, filter and port, `InitDriver` the
driver's parts around it, `InitQueues` events, receive, transmit and the life
cycle with attach and detach, `InitAccess` the ioctls and statistics, `InitEvents`
what an interrupt runs: the poll of an event queue, the handlers of its events and
the poll of the link. `InitPaths` executes them, one step a transition, on a stack
of frames; `held` is what is held and `rest` what was held when a level of the
driver (unloaded, loaded, attached, started, or kept after a refused detach) was
first reached. Any step that may fail does, at every point.

Locks are steps too, so that the paths show in which order they are taken. A
request of the firmware (`Mcdi`, `Ef10Mcdi`) enters and leaves `mcdi_lock`,
`s_nic_lock` and `mcdi_lock` again; on EF10 creating, flushing and destroying a
queue makes one, under `se_lock` or `st_lock`. The wait of `sfxge_tx_stop` drops
`s_tx_flush_lock`, and the flush event is then handled as a poll handles it
(`FlushPoll`). An interrupt is taken only with no lock held: it is a thread of its
own, and what counts is which locks it holds together. Senders only try `st_lock`
(`mutex_tryenter`, which waits for nobody) and are in `TxDpl`; a flush that the
firmware begins of a started queue is left out; the entry points of the MAC other
than start and stop hold `mac_lock` for the same requests as `sfxge_mac_start`.

Bounds: two queues, one at a time of the six things a host may lack. A failure
is followed by the whole tear-down, and then by anything again; as a level is
left with what it was entered with (`Undone`), longer histories add no states.

### TxDpl

Senders, the event thread and a stop work on the put list (a stack of packet
structures, pushed by compare-and-swap), the get list (a queue under `st_lock`),
the pool and the cache of structures. Structures have an identity and are
reused, because the compare-and-swap compares addresses. The list length that
each pushed structure records is kept apart from the length of the list.
`std_count` is kept apart from the get list because a drain writes it at its
end and `sfxge_tx_qcomplete` reads it without the lock. The descriptor ring is
abstract: a post succeeds or blocks the queue, and blocks only while
descriptors are in flight, which is what `Unblocks` shows of the real ring, up to
the missing barrier: the liveness of `TxDpl` is that of a driver that has one. The
doorbell is kept (`np`, `dn`), because only a drain that posts something writes
it. Packets are small: the three quarters of the ring that are free when the
queue is unblocked (`SFXGE_TXQ_UNBLOCK_LEVEL1`) hold what waits in the fragment
list. The kstat of the queue is read under `st_lock` (`ks_lock`), by a thread
that does not service the lists (`KstatEnter`, `KstatExit`). The history variable
`missed` notes what the code leaves waiting: a packet pushed while such a reader
has the lock, until the lists are serviced, and a sender passed over because
`sfxge_tx_qcomplete` read the `std_count` of a drain under way, until the next
`mac_tx_update`. GLD is external and
assumed not to lose a `mac_tx_update` that arrives while the call it concerns is
still returning.

Bounds: two senders, two or three structures, two messages each, lists of one to
three, two packets in the ring, at most one stop; one sender with up to six
messages where that is enough for a violation. That makes every list
reach its limit, the pool overflow, the queue block and unblock, and a structure
be reused while its address is held.

### TxRing

The holder of `st_lock` (`ppc`) posts the fragment list, reaps and blocks the
queue; the event thread (`epc`) handles a transmit event, completes and
unblocks. They share the counters and `st_unblock` without a lock, so each
access is a step, and the load of `st_pending` may be done before the store of
`st_unblock` that precedes it in the program (`LoadEarly`), because no barrier
separates them. The history variable `raced` notes that the last completion fell
between the two. A slot holds what the last descriptor of a packet refers to:
nothing, a mapping or buffer, or one that `sfxge_tx_qcomplete` has unbound.

Bounds: a ring of six of which five may be used, packets of one or two
descriptors, counters modulo 12, so that they wrap and a full ring differs from
an empty one only by the counters; batches of two; level 0 stands for a quarter
of five. `TxRingAssumption` says that two packets and a batch not yet reaped fit
beside that level, as they do in a ring of 1024 with packets of up to 300
descriptors.

### RxQueue

The poll holds `se_lock` and is a program counter `epc` through
`sfxge_rx_qcomplete`: complete the pending packets, refill if the ring is empty,
pass up the chain, top up, allocate. Between any two of its steps the stack may
return a packet (`QPacketFree`) to the put list, which is where the locks of the
code allow it. A packet that comes back gets a new message block or, when
`desballoc` fails, is freed while it stays counted as on loan: `Recycle` chooses,
and the history variable `lost` counts the latter. `put` and `get` are the two
halves of the pool, `srfpp_loaned`, `srfpp_count` and `srfpp_min` its counters;
`size` is the buffer size of each packet, 0 for one that is not allocated, so that
a change of MTU across a stop leaves packets of the old size with the stack and in
the pool. The hardware is external and fills descriptors in order. The poll timer
is the action `QfppTrim`; a stop is two steps, with the wait for the flush between
them. `QStart` assumes memory for enough buffers that the hardware is told of at
least one; without that the queue starts empty, and stays so (section 3).

Bounds: four buffers, a ring of four of which three may be used, pushes in
groups of two (EF10 has eight), counters modulo 8, water marks three and one,
batches of two, two buffer sizes, one stop, one packet without a message
block (`MaxFails`), no coalescing. All buffers may be with the stack while the ring
is empty, and an odd one added is not pushed.

## 3. Runs and what they show

Each run composes what can disturb its properties: the life cycle is one run
with every thread, each data path one, the filters of both families one, and
all set-up and tear-down code one. `PROJECT.json` gives the properties.

- `lifecycle`: the running subsystems are a prefix of the start sequence
  (`StartOrder`), one restart at most is coming (`OneRestart`) and one is
  whenever the counter says so (`RestartInProgress`), what was counted while the
  NIC runs is coming until the NIC is reset (`NoReportForgotten`, outside the
  window of `LateReport`), the OS knows the link (`LinkAgrees`), the unlocked
  assertion of detach (`DetachAssert`), a reset ioctl returns after a reset or
  while another thread is about to dispatch it (`IoctlCoversReset`), ioctl and
  detach return;
- `mcdi_requests`: one request, own answer, every caller returns;
- `mcdi_calls`: what is sent is initialised and fits (`RequestSound`), what is
  read is the controller's answer (`AnswersOnly`) save in the ten functions of
  `Trusting`;
- `event_queue`: a poll owns its queue, an event that waits has its interrupt,
  events are handled once and in order (`DeliversInOrder`, the refinement) and
  every one of them is (`EventsHandled`);
- `filters`: the tables of a Siena are what the NIC has, and it finds every
  filter within its search limit (`TablesAgree`, with the types of both families);
  on EF10 the table and the NIC agree whenever no request is in flight, and the
  index lists name every filter between calls (`FiltersAgree`); a successful
  reconfiguration has applied what was asked and nothing of before (`Applied`);
  no duplicate delivery with chained filters (`NoDuplicates`); the filter of an
  address that stays is not interrupted (`UnicastKept`);
- `mac`: what the stack last asked is programmed (`Programmed`, `FlowControl`)
  whatever failed, restarted or rebooted; a stopped MAC is quiet;
- `init_paths`: nothing is taken twice, given back twice or used when gone
  (`Balanced`), the assertions on modules, states and locks hold on every path
  (`Asserted`), a level is left with what it was entered with (`Undone`), locks
  are entered in one order, by the interrupt, the poll of the link and the requests
  of the firmware too (`LocksOrdered`: an event queue's, then those of the flush,
  the transmit queue, the MAC, the packet pool, last `mcdi_lock` and the lock of the
  NIC). The exceptions are sets of pairs of
  a function and a resource, named `KnownUnbalanced`, `KnownFalse` and
  `KnownLeft`, and each is a deviation listed below;
- `txdpl_safety`: one place per structure, order within a sender, the
  assertions of drain, fini and destroy;
- `txdpl_live`: lists drain and back pressure is released, with both lists at
  their limits, a reader of the kstat, and drains that push before they end, up to
  what stays `missed` for ever. Four messages do not reach the loop of `txdpl_spin`;
- `txring`: the counters stay in order and within the limit, every packet is
  found at its last descriptor, and a blocked queue is unblocked, up to the race
  that the missing barrier leaves (`raced`);
- `rxqueue`: every buffer has one owner and is counted there, up to the buffers
  lost to a failing `desballoc`, the ring holds buffers of the current size, and an
  empty ring is filled again, unless so many buffers are lost that those left make
  no group of descriptors.

Each property has a mutant, a plausible error in a mapped definition under
which the property fails.

`txdpl_spin` is violated by the code: the event thread can loop for ever in
`sfxge_tx_qdpl_service` with `se_lock` held (`findings`).

### Deviations, and how to see them

These are behaviours of the code that the models have. The runs exclude each by
a constant, an exception set or a history variable, so that the properties say
what holds of everything else:

- *Refused dispatch* (`sfxge_err.c:77`). The only dispatch that must not sleep
  may fail after `s_nested_restarts` was incremented; every later restart is then
  dropped. `NoSleepMayFail = TRUE` in `MCLifecycle.cfg` violates
  `RestartInProgress`.
- *Late report* (`sfxge.c:531`). A restart zeroes `s_nested_restarts` after it has
  reset and started the NIC; an error, an MTU or an ioctl counted between the
  reset and that is discarded. `IncNested` with `intime' = TRUE` violates
  `NoReportForgotten`.
- *Early ioctl* (`sfxge.c:867`). `ddi_taskq_wait` waits for queued tasks only. A
  reset ioctl whose restart is folded into one that another thread has counted
  (line 546) and not dispatched (line 560) returns before any reset;
  `IoctlCoversReset` without its second disjunct is violated.
- *Death report dropped* (`efx_mcdi.c:885`). `efx_mcdi_ev_death` looks at the
  pending request after the unlock, though the comment at line 858 allows a
  parallel poll; `DeathCmds` in `Mcdi` gives any command when the request is
  gone, and `EvDeathRaise` with one that does not raise leaves `report` as it was.
- *Reading past the answer*. The ten functions of `Trusting` read fields before
  they compare, or without comparing, the length of the response; with any one of
  them left out of `Trusting`, `AnswersOnly` fails. `efx_mcdi_nvram_metadata`
  (`efx_nvram.c:606`) copies the description up to the length that the controller
  states, which only a debug assertion compares with the room there is; the one
  caller in this repository asks for no description. `efx_mcdi_alloc_vis` tests
  for the long response (`ef10_nic.c:519`) but asked for the short one (line 499),
  so that VI_SHIFT is never the controller's.
- *Stale queue* (`sfxge_ev.c:853`). A start that times out destroys the queue and
  keeps `se_count`: the next start polls at the slot where the last poll ended, while
  the initialization event is in slot 0. Unless the events handled before filled
  the ring exactly, it times out too. `EventQueue` reaches `stale` this way.
- *Default receive queue cleared under a request* (`efx_filter.c:280`). The stop of
  the receive queues does not take `sm_lock`; a request that is between two MCDI
  requests then dereferences a null queue. `Overlap = TRUE` in `MCFilters.cfg`
  reaches `panic`; with `Overlap = FALSE` it is never reached (theorem `NeverNull`).
- *Orphans* (`ef10_filter.c:1424`). A reconfiguration that fails takes the mark from
  the old filters but forgets their index, so that they stay until the chip is
  reset; `orphans` in `Ef10Filter`, excepted by `ListsComplete`.
- *Duplicates in a Siena table* (`efx_filter.c:998`). The search for an equal filter
  stops at the first free row, so that after a deletion a filter may be stored
  twice. Nothing depends on their being unique.
- *Drain kept after a failure* (`efx_mac.c:236`). `efx_mac_drain` stores the new
  value before the command that may fail; the failure of a start then runs into
  the assertion of `efx_port_fini` (`efx_port.c:241`). `Mac` reaches `port.panic =
  "drain"`, and `Programmed` is stated up to it.
- *Packets lost* (`sfxge_rx.c:581`). When `desballoc` fails `sfxge_rx_qpacket_free`
  destroys a packet that is to be recycled and leaves `srfpp_loaned` as it is:
  `sfxge_rx_loaned` never returns 0 again and every tear-down is refused, though
  `sfxge_rx_qfpp_swizzle` says "Return the number of packets yet to appear in the
  put list" (line 441). `OneOwner` without `+ lost` is violated. A queue whose ring is empty and whose last packets were lost
  stays empty: no event comes, and the trim refills from the pool and creates
  none (`Starved`, excepted by `RingRefilled`). A debug build stops at the
  assertion of line 521.
- *Flows kept* (`sfxge_ev.c:231`). The end of a poll skips a queue without pending
  packets, though a completion in the middle of the poll may have held packets
  back in flows ("If there are any pending flows and this is the end of the poll
  then they must be completed", `sfxge_rx.c:1853`). `Coalesce = TRUE` in
  `MCRxQueue.cfg` reaches `epc = "idle"` with `flows # {}`.
- *Posted and not pushed* (`sfxge_tx.c:2337`, `2229`). What `sfxge_tx_qunblock` posts
  is pushed only if the drain that follows posts something too: `TxDpl` reaches
  `np > 0` with the lock free and the lists empty.
- *Ioctls of a stopped controller*. The LED, loopback and SRAM test ioctls reach
  their functions whatever the state, against what `sfxge_phy.c:236`,
  `sfxge_mac.c:989` and `efx_sram.c:314` assert; with `KnownFalse` empty `Asserted`
  fails.
- *Update left open* (`siena_nvram.c:703`). No label of
  `siena_nvram_partn_set_version` closes the update it opened (`LeftOpen`).
- *Unbalanced set-up and tear-down* (`KnownUnbalanced`). `sfxge_intr_init` leaves a
  lock it has not entered on a failure, and leaks its DMA buffer; `fail1` of
  `sfxge_ev_init` destroys a cache that was not created; `sfxge_tx_kstat_fini`
  deletes statistics that were not created; each start creates the cache of
  `sfxge_hash.c` over the last.
- *Kstat reader* (`sfxge_tx.c:1053`). `st_lock` is the `ks_lock` of the queue's kstat.
  While it is read senders fill the put list, with nothing in flight, and the
  reader drops the lock without `sfxge_tx_qdpl_service`: the packets stay, and the
  next sender gets ENOSPC, of which line 2024 says "in both cases there must be
  future TX completions". With several queues those of another one help.
  `ListsDrain` without `"reader" \in missed`, or `BackpressureReleased` with `"count"`
  alone, is violated.
- *Stale `std_count`* (`sfxge_tx.c:2397`). `sfxge_tx_qcomplete` reads `std_count` without
  `st_lock`, and a drain writes it only at its end (lines 2219, 2225) after pushing
  whole batches. All its completions may be handled before that, and none calls
  `mac_tx_update` for a sender that met the full put list, against line 2027: "This
  ensures that in the future mac_tx_update() will be called from
  sfxge_tx_qcomplete()". It takes limits by which a drain that starts from an empty
  get list reaches the get limit, which two swizzles and a packet can, 2
  `put_pkt_limit` - 1; the defaults are 4096 and 256. `BackpressureReleased` with
  `"reader"` alone is violated.
- *Race kept* (`sfxge_tx.c:979`). Line 971 says of the second look at `st_pending`
  "Avoid a race with completion interrupt handling that could leave the queue
  blocked"; but nothing orders the store of `st_unblock` before that load (neither
  field is volatile, `sfxge.h:651` and `658`, and a store may be delayed past a later
  load). The last descriptor can be completed between the two: the event thread
  sees a queue that is not blocked, the sender the old `st_pending`, and the queue
  stays blocked with nothing in the hardware. `Unblocks` without `~raced` is
  violated.
- *Left behind* (`KnownLeft`). A failed `_init` leaves `sfxge_cpu` and the global
  lock; a failed probe stays attached to the firmware; `sm_link_poll_kv` is never
  destroyed; `srs_cpu` is never freed; `fail2` of `sfxge_rx_qinit` leaves the queue and
  the packets it preallocated; the sensors stay initialised after a failed create;
  the VIs stay after a refused reset; `si_cap` stays. As a consequence what
  `sfxge_create` asserts of the object it gives back after a failure
  (`sfxge.c:315`), that no field is set, is false.

Met while modelling, and not in the models:

- `s_hw_err` survives a restart task that finds the NIC not STARTED
  (`sfxge.c:491`), so that a later restart for another reason is handled as a
  hardware error;
- `_sfxge_restart` announces the link down before the MAC stops and without
  `sm_lock` (`sfxge.c:494`): with `ActionOnHwErr = "LEAVE_DEAD"` the interface
  may be left dead with `os_link` still UP;
- `s_mtu` is changed without a lock (`sfxge_gld_v3.c:1111`) and the restart it asks
  for is folded into a pending one, also when that one is past reading it;
- `emi_new_epoch` is cleared only by `ef10_mcdi_fini`: every EF10 request
  carries NOT_EPOCH=0, not only the first after a boot (`efx_mcdi.c:48`);
- a sender that fails to create a packet drops `st_lock` without looking at the
  put list (`sfxge_tx.c:3008`): with `CreateMayFail = TRUE` in `MCTxDplLive.cfg`
  packets stay behind until the next service; a drain that rejects the packets of
  a full list posts nothing, so that no completion releases the back pressure:
  with `MayReject = TRUE` `BackpressureReleased` fails. `txdpl_live` states its
  properties for a queue on which nothing fails;
- a stop with the get list at its limit leaves the put list as it is
  (`sfxge_tx.c:2548`);
- a sender may push with an old length and the list exceed the maximum that
  `sfxge_tx_dpl_get_pkt_max` promises (`sfxge_tx.c:2079`); no packet is lost or
  reordered by it (`OnePlace`, `InOrder`);
- the ring of an EF10 receive queue may be left with descriptors added and none
  pushed, against the comment "ensure that the ring always contains at least one
  descriptor" (`sfxge_rx.c:1895`); the trim event of the timer recovers it, which
  `RingRefilled` shows, and a queue started without any memory is not recovered,
  as a trim only refills from the pool;
- `sfxge_phy_cap_apply` loses a capability that was switched off and on again
  while the MAC was stopped, and one that the PHY does not support makes the start
  fail with ENOTSUP, where the code falls back to the defaults on EINVAL only;
- `rc = f() != 0` without parentheses (`sfxge_gld_v3.c:670`,
  `ef10_filter_supported_filters`); `siena_filter_restore` passes the key where a
  return code is meant; `efx_mcdi_get_parser_disp_info` masks a list of flags with
  bit numbers; `ef10_mac_addr_set` does not reconfigure the filters when the
  firmware has v-adaptors; `efx_phy_led_set` keeps the mode when the command
  fails; `sfxge_pci_ioctl` returns 0 from its failure label;
- a write of the dynamic configuration erases it first: a failure between loses
  the VPD and the versions in it.

Deadlock is checked for the life cycle, the MCDI functions, the rings and the
set-up paths. Elsewhere callers make a bounded number of requests, and the
system is then idle, as it may be.

## 4. Fairness

Threads that are inside the driver and not waiting run (weak fairness of their
steps): the kernel schedules them. A thread waiting in `mutex_enter` or on a
condition variable is not overtaken for ever (strong fairness of `Acquire`,
`QUnblock`, the drain's end and the lock steps of the restart task and of detach):
Solaris mutexes hand over to waiters. The watchdog's time passes (strong fairness
of `Abort`). The transmit hardware completes what it was given. In `EventQueue`
the controller writes the events it has and raises the interrupts it owes, with
its bit in the ISR at least now and then, handlers run, tests and starts end or
time out, and a restart that was dispatched stops the queues. The poll timer of a
receive queue keeps firing, as its handler re-arms it, and the stack frees every
packet it was given (assumed by `RingRefilled` only). Nothing is assumed of the
management controller, of callers, of error reports or of the user.

## 5. Proofs

A theorem holds for every value of the constants that the named assumption of
the module allows; a run checks the same property on one instance. Each proof
has an inductive invariant `IInv` (`Ef10FilterProofs` has two, `HInv` and `SInv`),
which TLC checked on the bounds of the run before it was proved, with one lemma
for each of its parts and under it one case for each action. `Invariance` (in
`Ef10FilterProofs` `HNext` and `SNext`) puts the parts together.

| Module | Theorems | From |
|---|---|---|
| `SfxgeLifecycleProofs` | `TypeCorrect`, `StartOrderAlways`, `StateMatchesUpAlways`, `CreateOrderAlways`, `OneRestartAlways`, `DetachAssertAlways`, `LinkAgreesAlways` | `LifecycleAssumption` |
| | `RestartInProgressAlways`, `NoReportForgottenAlways`, `IoctlCoversResetAlways` | the same, and `~NoSleepMayFail` |
| `McdiProofs` | `OneRequestAlways`, `OwnAnswerAlways` | `McdiAssumption` |
| `EventQueueProofs` | `PollOwnsQueueAlways`, `InterruptOwedAlways`, `ChannelRefined` | `EventQueueAssumption` |
| `TxDplProofs` | `OnePlaceAlways`, `InOrderAlways`, `ListAssertsAlways` | `TxDplAssumption` |
| `TxRingProofs` | `IndexOrderAlways`, `SlotsAgreeAlways` | `TxRingAssumption` |
| `RxQueueProofs` | `PacketsAccountedFor`, `OneOwnerAlways`, `RingHoldsAlways` | `RxQueueAssumption` |
| `MacProofs` | `ProgrammedAlways`, `FlowControlAlways`, `QuietWhenStoppedAlways` | `MacAssumption` |
| `Ef10FilterProofs` | `TableConsistent`, `HwAgreesAlways` | `Ef10FilterAssumption` |
| | `ListsAccount`, `ListsCompleteAlways`, `FiltersAgreeAlways`, `NoDuplicatesAlways`, `AppliedAlways`, `UnicastKeptAlways`, `NeverNull` | the same, and `~Overlap` |

**Life cycle.** None of the invariants is inductive by itself. `IInv` adds
`StepInv` (the position of the lock holder determines `up` exactly: `1..idx-1`
while starting, `1..idx` while stopping or unwinding; without a lock holder
`s_state` does), `OwnerInv` (who holds the lock agrees with the program counters
of the restart task and of detach), `AttachInv` and `CreateInv` (how far attach,
detach, create and destroy are determines `created`, `kstats` and which states
are possible). The link needs `LinkInv`: only the announcement of a restart
writes `sm_link_mode` without `sm_lock`, and that restart stops the MAC before it
ends. The three properties of restarts need that no dispatch fails after its
increment: when the one that `sfxge_intr_fatal` makes with `DDI_NOSLEEP` does,
`s_nested_restarts` is never zeroed again and later reports are swallowed, so
their theorems assume `~NoSleepMayFail`, as the run does. `ReportInv` and
`IocInv` say who still owes the restart at each point; the exceptions of the two
properties, a report counted in the window of `LateReport` and an ioctl folded
into a restart not yet dispatched, are part of the theorems. `IoctlCoversReset` is
an action property, proved from `IocInv` in the one step that ends the wait.

**MCDI.** `OwnAnswer` rests on something the code nowhere states: the requests in
the hands of the controller have consecutive numbers, none left out
(`QueueInv`), so that at most `MaxLate <= SeqMod` of them have different numbers
modulo `SeqMod`, and an answer in the buffer that a caller can find belongs to
one of the requests from there on (`AnswerInv`). `LockInv` gives the interface to
one caller. `BoundInv` is about the bound of the model: the number of the last
request plus the callers that will still take one.

**Event queues.** `PollInv` ties `se_lock` to the handler that polls and `CtlInv`
ties the life of the queues to the progress of the starting thread. `OwedInv`
says why an interrupt comes whatever the ring holds: the queue is armed at its
read position, or an interrupt or a handler is on its way. `WindowInv` places
every event in its slot under its number, and the batch of a poll at the head of
them. `ChannelRefined` maps the events from the position where the queue reads to
the one where the hardware writes to the channel of `EventChannel`; a queue
that is created while its count is not 0, after a start that timed out
(section 3), reads at another slot than the hardware writes; it is `stale` in one
and `broken` in the other, and the channel promises nothing of it until it is
destroyed.

**Deferred packet list.** The get list and the put list are seen as one queue,
`std_get \o Reverse(std_put)`, oldest packet first: the swizzle leaves it
unchanged, an accepted packet is appended to it whether the sender holds the lock
or not, the drain takes its head and a flush leaves a suffix. `PlaceInv` divides
the packet structures among this queue, the pool, the cache and the hands of the
senders. `OrderInv` says that the messages of the fragment list and the queue
are later than those posted, in order, and not ahead of their sender. The
compare-and-swap compares addresses and may succeed on a put list that changed
and changed back; no part of the invariant depends on the head that was read, so
this disturbs neither place nor order.

**Transmit ring.** All indices are seen at their distance from `st_reaped`;
`MinusIs`, `PlusIs` and `SlotsSplit` reduce the wrap and the slots to these
distances. `Contents` gives the whole array of completion information as a
function of three regions, to be reaped, in flight and free, and of the list that
is being posted; each step moves one boundary. `Control` says when a post has
descriptors.

**Receive queue.** `OneOwner` counts packets and is not inductive: a number does
not say which packet a step moves. `IInv` says which set of packets each owner
has, that these sets are disjoint and that together they are the packets that
are allocated (`Owners`), that neither list and no two slots of the ring have a
packet twice, and so the counts (`Counts`), where `lost` makes up for what
`srfpp_loaned` is too large by. `Phases` says where nothing can be:
the chain `up` is empty except between a completion and its delivery, the ring
and the flows are empty away from a started queue, the stack has nothing once
`sfxge_rx_loaned` let the tear-down pass. `Indices` adds to the order of the
indices that `sr_pushed` is `sr_added` down to a whole group of descriptors, and
`PushOff` that it then never falls behind what was pushed before, which needs
that the ring is a number of whole groups. `RefillOK` is the invariant seen from
the poll: `RefillKeeps`, `FillKeeps` and `TrimKeeps` show that a refill, new
packets and a trim leave such a state, `PostedRing` that posting fills the slots
from `sr_added` on and no other.

**MAC.** Each call maps a port to the ports it can leave, so the proof has a
lemma for each call that says how the two are related, whatever commands failed:
after a reconfiguration a setting of the controller is what it was or what the
port holds (`Pushed`), and a request that fails and puts the old value back keeps
in force what was (`KeepsAddr`, `KeepsFilter`, `KeepsFlow`). `DecodeAdvOf` and
`DecodeSpeeds` say that flow control survives the capability mask it shares with
the speeds, which is what `MacAssumption` (they are different bits) is for.
`AskedInv` says the port holds what the stack asked for, `ForceInv` that the
controller was told, `PhaseInv` what drains and uploads in each phase; a start
that fails has used up a failure.

**Receive filters.** The table and the lists are proved about one after the
other. `HInv` is about the table, and holds however calls overlap: a busy row
belongs to one call (`Claimed`, `Apart`, `Owned`), a filter is in a row where the
search for it looks (`Placed`), in one row only (`Unique`), and the NIC has the
filters of the rows that are not being inserted (`InNic`). `Placed` is what lets
an insertion that has searched every probe conclude that the filter is not in the
table; no property mentions it. `SInv` is about the marks and the lists, and says
at each program counter of a reconfiguration which of the marks, the two lists
and the local list `got` account for the rows (`Named`, `Disjoint`), which lists
have unicast and which multicast filters (`Kinds`), when the multicast default may
be there (`Chained`), and what has been inserted of what was asked for (`OwnDone`,
`MultiDone`); `Settings` and `Entry` say with which settings and on which row the
call works. The orphans of a failed call are in no list, so `Named` allows them, and
`Kinds` shows that they are unicast filters, which is why they do not disturb
`NoDuplicates`. `SInv` needs `~Overlap`, so that one call is in progress at a time:
otherwise a request may insert a filter after its lists were cleared, or without a
queue (section 3). `LeastElement` gives the row the removal of old filters takes
next, from the library's theorem on well-founded relations.

Checked by TLC only:

- all liveness (with fairness), and what needs ENABLED, which are out of the
  prover's reach;
- `TablesAgree`, as it speaks of `SienaHash`, whose bitwise operators the prover does
  not know;
- the properties of `McdiExec` and `MCInitPaths`, which are about fixed tables of
  the driver's functions: the runs go through every entry, with every answer of the
  firmware that matters and every failure, and a proof would have to do the same,
  one case for each step of each function. More than two queues, or more than one
  missing part of the host, are not covered;
- what recursive definitions compute.

## 6. Plan

The models of section 2 and the proofs of section 5 are done. Next, in this order:

1. `Flush`: flushes of transmit and receive queues, their events forwarded by
   software events, time-outs, retries and late events, and the poll timer.
2. `TxFragment`: fragmenting and LSO with failing allocations and the ownership of
   the message. `RxFlow`: order and completeness of coalesced segments.
3. Algorithms: the VPD walk, against reference definitions.
4. That `TxRing` keeps the promise `TxDpl` relies on, as a refinement.

## 7. Not modelled

- Code that is not compiled: Medford, licensing.
- Code without a caller in the driver: `efx_bootcfg_*`, the `ef10_nvram_buffer_*`
  functions on TLV segments, `efx_nvram_test` and `efx_nvram_validate`, filter
  priorities other than automatic.
- Register layouts and messages nobody puts; CRC and Toeplitz hashing, which is
  arithmetic on constant tables.
- The data: contents of descriptors, of statistics, of VPD, NVRAM and boot
  configuration, of the MCDI ioctls; decoding of link speeds and sensor values.
- Fragmentation and LSO, the order of coalesced segments, preallocation, the
  flush retries and the poll timer of `sfxge_rx.c`, which section 6 plans.
- Event-completed and proxied MCDI requests, which this driver does not use.

`PROJECT.json` gives the state of each component.
