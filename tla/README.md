# Verification of vpn-msquic

TLA+ models, TLC runs and TLAPS proofs for the VPN server and client in `src/vpn`.
The modules are translated from the C code. `PROJECT.json` maps every definition
to the lines it stands for, and lists runs, mutants, findings, hazards and
theorems. Paths below are relative to `src/vpn`.

## 1. The system

A VPN over QUIC datagrams. The **server** accepts connections, leases a tunnel
address to each, and moves IP packets between a TUN device and the clients. The
**client** (a GTK application or a headless program over one engine) connects,
opens a control stream, asks for its tunnel configuration, sets up a TUN device
and moves packets.

| Part | Source | Module | State |
|---|---|---|---|
| tunnel address pool | `server/src/engine/ip_pool.c` | `IpPool` | modelled |
| client list and client blocks | `server/src/engine/client.c` | `ClientList` | modelled |
| listener and connection callbacks | `server/src/engine/quic.c` 295-563 | `ServerConn`, `AddressLease` | modelled |
| control stream | `server/src/engine/quic.c` 62-288, `stream.c` | `ServerControl` | modelled |
| routing of packets to clients | `server/src/engine/threads.c` | `ServerRouting` | modelled |
| packet threads, datagram events | `threads.c`, `quic.c` on both sides | `DataPlane`, `PacketChannel` | modelled |
| server start and shutdown | `server/src/engine/vpn_server_engine.c`, `session.c`, `quic.c` 569-798 | `ServerLifecycle` | modelled |
| client engine | `client/src/engine/vpn_client_engine.c`, `quic.c`, `session.c` | `ClientEngine` | modelled |
| GTK application | `client/src/app`, `client/src/ui` (handlers) | `AppLifecycle` | modelled |
| headless client | `client/src/vpn_client_headless.c` | `AppLifecycle` | modelled |
| TUN device, nftables, forwarding | `common/src/tun.c`, `tun_driver.c` | `TunDevice` | modelled |
| packet queue | `common/inc/queue.h` | `Queue`, `QueueWin`, `BoundedFifo` | modelled, both builds |
| block pool | `common/inc/pool.h` | `Pool`, `PoolWin` | modelled, both builds |
| state_sync | `common/inc/state_sync.h` | `StateSync` | modelled |
| cnt_sync, cond_sync | `common/inc/cnt_sync.h`, `cond_sync.h` | `CntSync`, `CondSync` | modelled; not used yet |
| lock-free pool and queue | `common/inc/lf_pool.h`, `lf_queue.h` | `LfPool`, `LfQueue` | modelled; not used yet |
| network interface lookup | `common/src/net_iface.c` | `NetIface` | modelled |
| control packets | `common/src/pkt_ctrl.c`, `quic.c` | `Framing`, `ServerControl` | partly: no byte order |
| utilities | `common/inc/utils.h` | in `TunDevice` | partly: the netmask functions |
| msquic | `dep/inc/msquic.h` | as the environment | external |

What is left out is in section 7.

### How the parts run

- msquic calls the callbacks of one connection one at a time, on a worker thread.
  Callbacks of different connections, and the listener's, run concurrently. The
  models interleave *steps* of handlers of different connections, never those of
  one connection. On the client, the one connection's callbacks interleave with
  the engine thread.
- `ip_pool->lock` makes each operation of the address pool one step.
  `client_list_lock` makes `list_add_client` one step; `list_remove_client` takes
  it around one of its assignments only, so it is three.
- A `client_t` is recycled through a pool whose `pool_put` leaves the payload in
  place; a block fresh from `aligned_alloc` is uninitialised (`Garbage`).
- The sending thread blocks in `poll`, the receiving thread in `queue_wait_pop`.
  Cleanup writes an eventfd for the one and pushes `NULL` for the other, and
  joins both.
- The server cleans up on its signal thread, and on `main` after a failed start
  step; both may do so at once. It leaves with `exit(0)` while msquic still calls
  back. The client closes its connection before it frees anything a callback uses.
- The client's engine runs on a thread of its own. The GTK main thread, or the
  headless `main`, starts and stops it through a state or three flags.

## 2. Modules

**IpPool.** `ip_entry[]` as the set `ip_used`, the function `ip_client` and the
cursor `next_idx`. An address is its index in the subnet.

**ClientList** extends it with the slots of `client_list`, the fields of
`client_t` as functions of the block, and the block pool with its recycled
payloads.

**ServerConn** adds `conn[c]`, a resting state between events or the step of a
running handler, and the actions for NEW_CONNECTION (accepted, rejected, failed),
CONNECTED (with and without an address) and SHUTDOWN_COMPLETE.

**AddressLease** is the abstract service: grant, refuse, release. `ServerConn`
implements it; a lease is an address entry whose client belongs to a connection.

**ServerControl** adds the control stream: its start, CONFIG_REQ with the lookup
and the reply as two steps, the peer's shutdown, and SHUTDOWN_COMPLETE.
**ServerRouting** adds the sending thread: lookup under the lock, use after it.

**Queue.** Each call of `queue.h` as permit, ring access and post; waits may be
interrupted (EINTR). **BoundedFifo** is the abstract queue; the mapping reads
the ring from `head` on. **QueueWin** adds the Windows build, over the same
steps: its waits are not interrupted, NULL is refused by a push, and a release
beyond the semaphore's maximum is fatal. `build` picks the build.

**Pool.** `pool_try_get`, `pool_wait_get` and `pool_put`, with the allocation
outside the lock, its failure, and spurious wakeups. **PoolWin** is the Windows
build, in which a block is counted only when `malloc` has returned, and
`pool_destroy`, which waits for the allocating threads on the callers' condition
variable.

**StateSync.** `state_sync_set` and the five waits: each look at the value under
the mutex is a step, and so are falling asleep, waking (also without cause), the
end of a timeout, and the look that follows. The clock counts `SecTicks` ticks a
second, so that the carry of `state_sync_timespec_add_ms` matters.
**CntSync** and **CondSync** are the other two monitors, `CntSync` with the owner
that destroys the counter once it has seen zero.

**LfPool** and **LfQueue.** One step for each access to shared memory, taken as
sequentially consistent. The generation of the pool's head is reduced to whether
it is still the one a thread has loaded; the counters of the queue go round after
`Wrap` values. `LfQueue` refines `BoundedFifo` too.

**Monitors** has the objects in which threads sleep (`StateSync`, `CntSync`,
`CondSync`, `PoolWin`, whose cap is `WinCap`), **LockFree** the two lock-free ones,
and **Primitives** puts `Pool` beside these; `object` picks the one a behaviour
exercises. The three parts are proved separately.

**DataPlane.** Who owns each packet block: pool, sending thread, msquic (from
DatagramSend to SENT or CANCELED, and the later reports of the same context),
datagram callback, queue, receiving thread. It has the threads with their error
paths, and the part of the cleanup that stops them and destroys pools and queue.
`side` picks the program; the two differ in error paths and in the order of the
cleanup. Queue and pools are used as the abstract ones the previous two modules
justify. **PacketChannel** is what the receiving half promises: packets may be
dropped, never altered, doubled or overtaken.

**ClientEngine.** `vpn_engine_start` and `vpn_engine_cleanup` as one sequence of
steps that may fail anywhere, the packet threads, the callbacks, and the msquic
objects that are open. `worker` is the place inside a callback of several steps.
Each `state_sync` call is one step. A timed wait may end without its state.
`pthread_join` of a thread that was never created is undefined, so it returns or
crashes.

**AppLifecycle** composes it with the programs around it: `front` is the GTK or
the headless one, `main` its main thread, `routine` the engine thread. The GTK
program may be clicked, closed and started again.

**ServerLifecycle.** `main` with its start steps, the signal thread, and
`vpn_engine_cleanup` on either. Tables, packet pools, device and `session->MsQuic`
are reduced to whether they are there; a use of something destroyed may crash.

**TunDevice.** The calls of setup, undo and teardown as lists (`Setup`, `Undo`,
`Teardown`), each of which may fail; what the handle says, what the kernel has,
and what stays on the host when the process dies. The netmask functions are
operators on `W` bits.

**NetIface.** A host of routes and interfaces that change between any two queries;
the queries with their loops over the dump, as `detect_default_wan` of client and
server makes them and as `monitor_wan_changes` does, with its notifications.
**HostNetwork** has the two beside each other; `part` picks one.

**Framing.** Bytes of control packets cut into arrivals, RECEIVE events and
buffers; `copy_quic_buffers` is a recursive function.

`MC*` modules only add constants and symmetry sets.

## 3. Runs

| Run | Distinct states | Shows |
|---|---|---|
| `server_conn` | 142,986 | blocks, handles, and the refinement of `AddressLease` |
| `server_full` | 170,952 | list and pool full: no block lost, refused connections end |
| `server_control` | 1.3 million | lookups, replies, address table, stream shutdown |
| `server_routing` | 1,062,148 | a looked-up client is right while its connection lives |
| `queue` | 22,368 | both builds: permits, FIFO, wakeups |
| `primitives` | 131,675 | pools: counters, cap, wakeups, destruction; monitors: no lost wakeup, truthful timeouts, waits return; lock-free: free list sound, some thread advances, FIFO |
| `data_plane` | 191,096 | packets intact while sent, in order when received, blocks given back, pools destroyed last (client), stop ends |
| `client_app` | 15,486 | device, handle, session and thread lifetimes; start, stop, signal and cleanup end; the button stays alive |
| `server_lifecycle` | 5,810 | listener after tables, host restored, crashes only by a race, a signal ends the process |
| `host_network` | 1,472,323 | a device in use is configured, no stale rules, nothing left behind, netmasks; the best usable route is found, its own address, the monitored route is usable once notifications are read |
| `framing` | 2,514 | packets whole, once and in order; whole events fully handled |
| `server_listed` | violation | section 5 |

Type invariants are stated where they help a reader or a proof. They hold on the
same instances and are left out of the configurations to keep these to what can
go wrong; most of them are proved (section 4).

Some properties name the exceptions the code makes, so that they say what holds
besides: `BlocksReturned` gives up blocks only after a failed read or a full
queue, `ReadyMeansConfigured` excepts a failed netmask call, `CrashNeedsRace`
lists what a crash of the server takes, and the properties about stopping except
one place where the code waits for ever: the sentinel finds the queue full and
its reader gone (`c_full`).

Bounds and why they suffice:

- *Connections* (3; 2 in `DataPlane` and in the refuted properties): the hazards
  need one connection that leaves, one that takes over its block, and one more to
  compete or be hit.
- *Addresses*: a /30 has one address to lease, so the pool runs out; a /29 has
  five, so three clients hold addresses at once; a /31 has none. `validate_mask`
  and `ip_pool_create` accept all three.
- *Garbage*: what an uninitialised uid may hold. `server_conn` and `server_control`
  have 0, which is never assigned, and 1, the first uid; the runs whose
  properties do not depend on uids have 0 only.
- *Talker*: one connection uses the control stream, the others come and go.
- *Queue*: two slots, so indices wrap, and two threads a side. *Pool*: four
  threads on two blocks, so two callers may wait. *PoolWin*: three users and the
  destroyer, two blocks, so that two may be in `malloc` for the last block.
- *StateSync*: two waiters; three values, so that one is neither the target nor
  the one that aborts; timeouts within a second and across its end (`Timeouts`,
  `MaxTime`).
- *LfPool*: three threads on three blocks. With two the semaphore keeps a thread
  from seeing its block go and come back while the next one is taken, and a
  missing generation goes unnoticed. *LfQueue*: a ring of two and a counter of
  eight values, so that indices and counters go round.
- *NetIface*: up to two of five default routes, among them two with the largest
  metric, one through a point-to-point link and one without an interface; two
  changes of the host, so that one can happen during the query that answers
  another.
- *DataPlane*: one send block, which is then recycled at once while msquic still
  reports on it; three receive blocks for a queue of two, so that the queue is
  full with a block at hand; two packets, enough to see one replaced by another.
- *AppLifecycle*: two starts, so that a session meets what another one left.
- *TunDevice*: two sessions and two device names, so that a name returns after a
  crash; all 32 masks of five bits, since the code's arithmetic does not depend
  on the width.
- *Framing*: three packets of three bytes in up to three buffers, so that a cut
  falls at, before and after every border.
- `ClientEngine` and `ServerLifecycle` have no constants; their states are all
  explored.

Symmetry is used only in runs without liveness properties.

Fairness, always weak, stands for three things. Threads are scheduled: a call or
handler that can go on does. Timed waits end. msquic completes a shutdown that
was asked for, and delivers what has arrived while delivery is enabled. Nothing is
assumed of the network, the peer or the user: handshakes, replies, clicks, signals
and stops may never come. The waking properties of queue and pool allow another
thread to win, as semaphores and condition variables do.

Every property of a passing run has a mutant: a definition with a plausible slip,
kept in the module beside the original, under which TLC finds the property
violated.

## 4. Proofs

TLAPS checks these for every value of the constants that meets the named
assumptions: any number of connections, threads, blocks, slots, addresses,
routes, sessions and starts.

**ServerProofs** (`ServerConn`, `ServerControl`, `ServerRouting`)

- `TypeCorrect`, `BlocksOwnedOnce`, `AddressesOwnedOnce`, `HandlesOwn`: the
  inductive invariant `IInv` joins these four with `Contexts`: a connection inside
  a handler has a block, the free list holds allocated blocks only, and a block
  carries an address entry only between CONNECTED and the reset. Without the
  last part the release of an address could not be tied to its owner.
- `NoBlockLost`: the free list and the connections that hold a block add up to
  what was allocated (`LeakInv`). It counts, so it is proved apart from `IInv`.
- `ServerLeasesAddresses`: the refinement of `AddressLease`. Its core,
  `ProbeReachesAll`, says the round-robin probe visits every address from any
  cursor, so a refusal means that all are leased.
- `OwnConfigurationHolds`, `StreamsShutDownOwn`, `ControlTypes`,
  `ControlKeepsAddresses`: `CtrlInv` adds that connected clients have different
  uids, all below the next one (`UidsDiffer`), how far a stream and its connection
  can be apart (`StreamFits`), and what a lookup in progress has found (`ToldOwn`).
- `RoutesWhileAlive`, `RouteTypes`, and `MisroutedOnlyAfterPut`, an action
  property: `RouteInv` says that the block found is the context of its addressee,
  which is set once, in NEW_CONNECTION, and survives any callbacks. A packet goes
  astray only when its addressee's block was put back in between, which
  `SentToAddressee` (section 5) shows to happen.

**QueueProofs** (`Queue`, `QueueWin`): `QueueTypes`, `PermitsAlwaysAccounted`,
`QueueIsFifo`. `QInv` adds `tail = (head + pending) % Size`. `StoreAppends` and
`TakeRemovesFirst` carry the refinement. `PermitsAccountedInBoth`, `BothAreFifo` and
`ReleasesNeverFail` are about the two builds: a step of either is a step of `Queue`,
because a thread about to post holds a permit itself and so the Windows semaphore
is below its maximum.

**PrimitivesProofs**: `PoolTypes`, `BlocksAlwaysAccounted`, `BlocksAlwaysApart`,
`PutWakesWaiter`; the four are inductive together (`PInv`). `BlocksApart`, that no
block is with two holders, is only proved. `ObjectsByThemselves` says that a
behaviour of `Primitives` is one of `Pool`, of `Monitors` and of `LockFree`, so
the theorems about these apply to the run.

**MonitorsProofs**: `NobodySleepsThrough`, `NothingDestroyedIsUsed`,
`TimeoutsAreTruthful`. `MonInv` has one part for each object. The counter equals
the work under way, and who is inside `cnt_sync_dec` has the mutex; a deadline
computed by `state_sync_timespec_add_ms` is normalised and is the time of the call
plus the timeout; the Windows pool counts blocks and allocating threads exactly.

**LockFreeProofs**: `LockFreeQueueIsFifo`, `LockFreeListSound`. The ring's
invariant `LfqInv` says which slots hold items, with the counters' distance taken
round the wrap. The pool's, `LfpInv`, says that the free list is a chain: a
sequence without repetition from head to end (`Chain`), as long as the tokens and
the threads that have one, and that a thread whose loaded head is still current
has read its true successor (`Loaded`). This is where the generation is needed.

**DataPlaneProofs**: `DataTypes`, `InFlightAlwaysIntact`, `BlocksAlwaysReturned`,
`PacketsStayIntactInOrder` (the refinement of `PacketChannel`). `DInv` gives each
block one owner (`SendOwned`, `RecvOwned`), says that it has one unless it is one
of the known leaks (`Placed`), and orders the steps of the cleanup (`Stopping`).

**AppProofs** (`ClientEngine` under `AppLifecycle`): `AppTypes`,
`SessionOutlivesItsUsers`, `DeviceFollowsSession`, `StateCanBeReliedOn`. `EngineInv`
relates the place of the engine to connection, handles, device and packet threads;
the rest of `AppInv` relates the engine to the thread that runs it and to the main
thread, for each of the two programs. The properties follow only from both: a
session is clean when the next one starts because the state that the main thread
waits for is set after the cleanup.

**HostProofs** (`TunDevice` and `NetIface` in `HostNetwork`): `TunTypes`,
`ReadyIsConfigured`, `NothingIsLeft`, `BestRouteIsFound`, `TrackedStaysUsable`.
`TunInv` says what the first k - 1 calls of a setup leave (`Done`) and when the
rules are gone (`Cleared`). `ScanInv` is the loop invariant of the route query:
what is best among the messages looked at. `TrackInv` says that a route the monitor
has found, is asking about or tracks is there with its link online, or that there
is a notification about it yet to be read (`Backed`); it holds because the socket
is bound before the first query.

Assumptions: at least one address, the server's among them; a non-empty ring;
finite sets of threads and memory where they are counted; a second of at least one
tick; a counter range that is a multiple of the ring's size and more than twice as
large; 32-bit metrics up to `UINT32_MAX`, and interfaces that are counted from 1;
`NULL` different from what it is not. TLC evaluates them in every run.

Only model-checked:

- liveness, since fairness and ENABLED are beyond the prover;
- `MasksArePrefixes` and `OwnAddress`, which rest on powers of two and on loops over
  lists of any length: that takes induction over data;
- `Framing`, whose copy loop is a recursive operator;
- `ServerLifecycle`, which has no constants: TLC explores all its states, so a proof
  would add nothing.

## 5. Where code and intent differ

The run `server_listed` shows that an active client may be missing from the list:
`list_remove_client` resets `slot_idx` before it uses it, so it always clears
slot 0.

The modules state further properties that comments or assertions of the code
claim and that do not hold. They are not among the runs. The first four are refuted
by `tlc -config <cfg> <module>`; the others when the property is added to the
configuration named, as an invariant or, for `ExitsCleanly` and `KeepsBuffering`,
under PROPERTIES.

| Config, module | Property | What happens |
|---|---|---|
| `ServerConnClosed`, `MCServerConn` | `ClosedAfterShutdown` | SHUTDOWN_COMPLETE reads the handle from a block it has put back, and may close that of the block's next owner |
| `ServerControlUid`, `MCServerControl` | `LookupAfterConnected` | a refused client has an uninitialised uid, may be found by it, and its NULL `ip_entry` is read |
| `ServerRoutingStale`, `MCServerRouting` | `SentToAddressee` | the sending thread may send to the next owner of a block |
| `PoolWinDestroy`, `PoolWin` | `DestroyEnds` | `pool_destroy` waits "for active allocators to leave malloc()", but one that gets its block wakes nobody |
| `AppLifecycle`, `AppLifecycle` | `DestroyedNotSignaled` | a request that times out may destroy `tun_state` under the callback that is about to set it |
| `AppLifecycle`, `AppLifecycle` | `ExitsCleanly` | closing the window waits for RUNNING for ever when the start has failed |
| `ServerLifecycle`, `ServerLifecycle` | `AssertHolds` | a connection may come between `ListenerStart` and the assignment of `session->MsQuic` |
| `MCHostNetwork`, `MCHostNetwork` | `FlagsTruthful` | MASK_SET is set after a failed SIOCSIFNETMASK |
| `MCHostNetwork`, `MCHostNetwork` | `TracksBest` | a better route whose link comes up is not noticed: only the loss of a link, and route messages, start a new search |
| `Framing`, `Framing` | `KeepsBuffering` | after an event that ends inside a packet, delivery stays off and the rest of the packet is not looked at |

## 6. Notes for a reader of the code

`PROJECT.json` lists the hazards with their lines and properties. These have
effects that the models do not decide:

- the second close of a connection handle (`client/src/engine/quic.c:496`), whose
  effect is decided inside msquic;
- the second close of a descriptor number after a failed TUNSETIFF
  (`common/src/tun_driver.c:190`), which does harm when another thread has opened
  that number in between;
- a caller of the Windows `pool_wait_get` whose `malloc` fails sleeps without
  another look at the free list (`common/inc/pool.h:538`); `NoneSleepsThrough` is
  stated for callers that wait at the cap.

Met while modelling, and worth knowing before the code is used further:

- `cond_sync_broadcast` sets one flag, which the first waiter takes back: it
  releases one thread, and signals that come together count once.
- The Windows queue refuses NULL, which the packet threads push to stop a reader.
- The response of `process_ctrl_pkt` (`server/src/engine/quic.c:133`) is copied by
  `stream_send` and never freed. Neither its `calloc` nor the second `malloc` of
  `stream_send` is checked; the models let these two succeed.
- The monitor subscribes to address changes and ignores them, and does not see
  that notifications were lost (ENOBUFS).

## 7. Not modelled

- `client/src/engine/domain.c`: name lookup. It reads and returns data; its
  success and failure are choices of the start step that calls it.
- `common/src/pkt_data.c`, `pkt_ctrl_print`, `print_netlink_iface_info`,
  `common/inc/log.h`, `client/src/ui` apart from its handlers: formatting, output
  and layout.
- The byte order of control packets: a packet is its kind and fields.
- Weaker memory orders than sequential consistency in `lf_pool.h` and `lf_queue.h`.
- Code that cannot be reached: `MsQuicShutdown` of the server stands after
  `exit(0)`; `restore_client_state` has no caller.
- `dep/inc`: the headers of msquic, which are declarations of another project.

The mapped definitions stand for more than half of the lines of the repository's
own code. Most of the rest is declarations, documentation comments, and the parts
above; `dep/inc` alone has more lines than all own code.

## 8. Plan

1. Client and server composed over the control stream.
2. The lock-free objects under weaker memory orders.
3. `SentToAddressee` and `ClosedAfterShutdown` as runs that pass, once a block is
   put back last.
