# Verification of datastor_utils

TLA+ models of the concurrent and stateful parts of *datastor_utils* (C++), the
TLC runs that check them on small instances, and TLAPS proofs of what matters
most for every instance. Everything is translated from the code under `src/`;
`PROJECT.json` maps each definition to the lines it stands for.

## 1. The system

datastor_utils is the base library of a distributed block store. It has two
halves.

**Communication** (`src/functions/communicate`): RPC sessions over boost::asio.
Handlers run on the threads of an `io_service`; users run on their own threads
and on small pools.

| component | state | operations | interacts with | what is hard | what makes it correct |
|---|---|---|---|---|---|
| `lt_async_2safe_async` | `is_doing`, `func_list` under `f_m` | `begin_to`, `continue_to`, `clear` | each session has one for reads, one for writes | `f()` and `callback_f()` are called after the unlock | one operation in flight, submission order, no pair lost, doubled or forgotten |
| `lt_session` | socket, two queues, `_connect` | `snd`, `rcv`, completion handlers, `connected`, `disconnected` | queues, state, watch dog, user callbacks | handlers continue the queue and call back in different orders on different paths | one callback per request, no socket operation of a kind overlapping another |
| `lt_safe_state` | `cur_state`, `callback_list` | `set`, `get` | `lt_session::state_changed` | callbacks run unlocked, and may set again | notifications end with the last state |
| `lt_watch_dog`, `lt_session_dog` | timer, `on_monitor`, `is_monitoring` | start, stop, timer handler, destructor | sessions | handler against stop, restart, destruction | no handler touches a destroyed dog (one may: section 5), a silent peer is noticed |
| `lt_session_cli(_safe,_set)`, `lt_reference` | `_ref`, `pending_cnt`, flags | connect, disconnect, snd, rcv and their dones, destructor | two thread pools | lifetime across pools, no reference taken for a posted task | no use after delete, deleted once idle |
| `lt_client_service`, `lt_server_service` | maps of requests and sessions, acceptor | connected, rcv_done, accept | sessions | raw pointers posted to pools, accept errors | every request answered or failed |
| `lt_condition`, `stronger_cond` | `stat`; `is_to_wait` | `wait`, `notify` | RPC ping; superblock I/O | notify before wait, double notify | no lost wake-up |

**Block algorithms** (`src/algo`): block devices composed by decorators. A
request goes down through `do_request` and its completion comes back up through
`request_done`, on a device's thread.

| component | state | operations | interacts with | what is hard | what makes it correct |
|---|---|---|---|---|---|
| JBOD request path (`algo_block_io_jbod_nosuper`, mapper, `request_ref`) | ranges, blocks; per request a shared count and status | `do_request`, `request_done` | blocks below, callback above | parts of one request complete concurrently, and while it is still being issued | completed once, after the last part, with an error if any part failed |
| opening (`algo_block_open_ref`, JBOD `open`/`close`/`add_block`) | `ref`; `_block_vector` | open, close, add_block | JBOD and superblock users share a block | partial failure, rollback, concurrency | the device is open exactly while it is used |
| superblock I/O (`algo_block_io_super`) | `sync_m`, `super_cond` | read, write superblock; offset shift of ordinary I/O | device below, `request_done` demultiplexer | synchronous call over an asynchronous device | each access returns its own status |
| replicated superblock (`algo_block_multi_super`) | list of superblocks | read, write all | superblock I/O, `json_obj` | a crash between two copies or within one; a reader beside a writer | a load returns what was saved, or throws |
| space allocator (`algo_range`, `algo_ranges`, `algo_use_ranges`) | free list, `len`, `left`; per volume a range list | alloc, expand, free, increase, map | mapper, pools | fragmentation, boundaries, three binary searches | no address lost or owned twice, data never moves |
| `algo_section(s)` | descending vector of sections | add, subtract, erase, alloc, intersect | their callers | search and merges at both ends | it is the set of points it stands for |
| devices (`libaio_device`, `algo_aio_device`; `test_algo_device`) | aio context, eventfd; a queue and a worker | async read and write | kernel, epoll thread | counting events that keep coming | each request reported once |
| `algo_interface` | registries | pool and volume references, `assert_legal` | all | references without a lock | — |

**Data** (`src/data/lt_data`): message buffers (`lt_data_t`, `lt_mempool`,
`ref_obj`) and `json_obj`. The rest of the repository is vendored logging
(`src/log`), RAID command wrappers (`src/raid`), checksums, base64 and
utilities.

`PROJECT.json` lists every component with its status, and under `hazards` each
place where the code can go wrong in a way a test would hardly reach.

## 2. Plan

Built, in this order: the queue under every session (`SerialExec`, `SafeAsync`);
the JBOD's request path (`JbodIo`) and opening (`JbodOpen`); the allocator
(`SpacePool`, `Ranges`, `UseRanges`, `JsonValue` for its restart); the session (`Session`); superblock access
(`SuperIo`) over the two devices (`BlockDevice`, `AioDevice`, `QueueDevice`,
`DeviceIo`); replicated superblocks and the texts they hold (`MultiSuper`,
`JsonObj`); sections (`PointSet`, `AlgoSections`); the watch dog (`WatchDog`); the
client's session (`ClientSession`); the mapper and the data of the JBOD
(`RequestMapper`, `Disk`, `JbodDisk`).

How they compose (an arrow reads "extends" unless it says otherwise):

    SafeAsync --implements--> SerialExec          Session <- ClientSession
    Ranges <- RequestMapper <- UseRanges --implements--> SpacePool
              RequestMapper, JbodIo <- JbodDisk --implements--> Disk, JbodIo
    BlockDevice <-instance- SuperIo;  SuperIo, AioDevice, QueueDevice <- DeviceIo --implements--> SuperIo
    JsonObj -parameters of-> MultiSuper;  JsonValue <- JsonObj;  JsonValue -instance in-> Ranges
    AlgoSections --implements--> PointSet

Proved: for each component that a run checks and expects to hold, every invariant
and every refinement the run checks (section 6). Left, of the code: the acceptor and
the service's pool (section 7 says why they wait).

## 3. Modules and how they correspond to the code

**SerialExec** is the promise of the header of `lt_async_2safe_async`: submitted
operations wait, become active one at a time in submission order, and end; a
cancellation takes waiting ones. **SafeAsync** is the class. A critical section
is one action, because `f_m` covers exactly the shared fields; the call of `f()`
(`CallF`) and each `callback_f()` (`CallCallback`) are actions of the same thread
after it, so all other threads may run in between. `begin_to` is `BeginTo`, which
enqueues or claims. `stage` and `order` are history variables. Two things are the
caller's part: `begin_to` is called once per pair, and the completion handler of
a started operation calls `continue_to` once. The refinement maps *queued* and
*chosen* to *waiting*: the abstract operation starts when `f()` is called.
`clear()` therefore refines a cancellation that leaves out the chosen operation,
which is what the code does.

**Session** is `lt_session` with what it owns. Its difficulty is that everything
is a call within a call, with each lock released before the next call, so the
state of a thread is the list of calls it has still to make: `stack[t]`. A step
makes the first call of one thread and puts the calls it makes in its place; the
operators `SndCalls`, `WriteCalls`, `ReadCalls`, `DoneCalls` and
`DisconnectedCalls` list them in the code's order. A test-and-set under a lock
(`begin_to`, `set`) is one step. Both pairs `start_rcv` and `start_snd_data`
queue per request are there, and both callbacks of a handler. A user callback
may itself call the session, as the server's do. An operation started on an open
socket may succeed or fail, also when its handler runs after the close; one
started after the close fails. A read's length is accepted or refused by choice.
The session is connected once and used from then on. The dog's time stamps are
in `WatchDog`; here its timer finds the session silent at any time. The queues
are those of `SafeAsync`, at the grain of one thread's calls; `OneSocketOp` is
what `SafeAsync` assumes of its caller.

**ClientSession** is `lt_session_cli_safe`, `lt_session_cli_set` and `lt_reference`
over `Session`: one reference for the user, one more and a count in `pending_cnt`
per operation, both given back after each callback (`debt` says how far a thread
has come with that); the put that reaches zero posts the deletion to the one
thread of `delete_pool`, and the destructor (`delete_func`, `destroyed`) clears
the queues and polls `pending_cnt`. The user is the generated client, which
disconnects and then puts; its callbacks post to a pool and do not call the
session. `connect` sets `is_down_connected` only after `let_it_up` has returned,
so it may overtake a `disconnected()`.

**WatchDog** is `lt_watch_dog` with its session and `action_stub`. A function that
touches shared state once, under `m`, is one step up to the call it makes after
unlocking. A handler that gives up the dog is several: it clears `on_monitor` and wakes
the destructor while it holds `m` (`HandlerStopped`, `HandlerFindsSilence`); then it
unlocks `m` (`returns`), or it clears `is_monitoring`, unlocks (`silenced`) and calls
`handle_event()`. `Locked` keeps others out of `m` meanwhile, though not the destructor,
which takes `pending_m` only. `Destroy` is the deletion of the session: it is down, no
thread is in a call that holds a reference (a handler of the timer holds none), and
`~lt_watch_dog` finds `on_monitor` clear. A deletion that begins while a wait is still out
is not modelled (see the hazards): the handler it waits for would run on an object
whose derived parts are gone. The boost timer has three
states: armed, fired (a handler is queued with success), cancelled (a handler is
queued with the abort); a cancel does not recall a handler already queued. Time
is whole seconds. `Tick` waits until queued handlers have run and threads have
made the calls they are in; only the thread inside `connected()`, which belongs
to the user, may take any time. Operations that end after the session went down
are bounded by `MaxLate`.

**SuperIo** is `algo_block_io_super`, `N` layers of it. A request's way down
(adding `super_sec` at each layer) and up (comparing and subtracting) is one
step, as a thread between its calls touches nothing shared; `Below` is the
comparison that tells a superblock answer from an ordinary completion. An access
is `Call`, `Lock` (of `sync_m`), `SyncRequest`, `Wait`; the answer may come before
`Wait`, from any thread. Below it is **BlockDevice**: every request is reported
once, with some status, at any later time.

**AioDevice** is `libaio_device`: the kernel finishes a request (an event in the
ring) and then counts it in the eventfd; `epoll_wait` is edge-triggered and posts
a task; `get_io` holds `mtx_`, reads the counter, and takes one event per
iteration. Every event is reported as a success, as the code does.
**QueueDevice** is `test_algo_device`: a list that starts with `MAX_QUE_DEPTH` null
pointers and one worker. **DeviceIo** puts the layers on either device (`kind`),
and `BlockSpec` shows that what the device's own structures hold (`AioPending`,
`QueuePending`) is the block device the layers count on.

**MultiSuper** is `algo_block_multi_super` and the pool's use of it. A save or a
load visits one copy per step; each may fail; a write that fails, or is under
way at a crash, leaves the new text, the old one or a mixture of their sectors.
A copy that does not parse counts as the empty value, and two copies that differ
make the load throw. `current` is the set of values the medium stands for: one
value once a save has completed, more while one is under way or was cut short;
`window[t]` is what it was at some time during t's load. `settled` says whether every
copy holds the value of the last completed save (`every`), or blocks were added since
(`some`), or neither (`no`). `add_block` gives a new block no copy: a load meets a value
and then an empty copy, and throws `READ_SUPER` (`algo_block_multi_super.cpp:25`) until the
next save has reached the new block, so `SavedReadsBack` says of loads after `add_block`
that they throw and nothing else. One thread writes at a
time: `algo_interface.cpp` leaves concurrency to the callers (FIXME at lines 424
and 436). What a value is, its
text and its tearing are parameters. **JsonValue** and **JsonObj** give them:
`json_obj` with its types, `operator[]`, `append`, `merge`, `==`, `dumps` and `loads`,
numbers of two widths. JsonValue is one value and what each operation does to it, with
the operation on its members as a parameter; JsonObj ties the recursions. A text is the
tree that rapidjson (external) makes of the characters, or one that it refuses. `Kept` are the values that survive their own text: no unknown member
(it dumps as `null`, which `loads` refuses), no bool (two equal bools compare
different), and no number that fits an unsigned int only (it changes its sign);
`MCSuperblock` checks that over all values of two levels.

**JbodIo** follows each part (slot) of each request through `mapped`, `issued`,
`reported`, `stored`, then `gone`, or, for the handler `put()` elects, `last` and
`deleted` before it. Each access to the shared `request_ref` is one action.
`unmap_request` reads `err` from the object it has just deleted (line 88): that
read may yield any status, so the status the caller gets is unconstrained;
`FailureLatched` says what the field held when the last reference was dropped.
`do_request` cannot run beside `add_block`: the header says the caller excludes
it (`algo_block_io_jbod_nosuper.h:10`). Requests of length zero and a failing
allocation of a part (which the code does not catch) are left out.

**RequestMapper** is `algo_nocopy_request_mapper`: ranges, and the block each lies
on; `map_request` cuts a request with the searches of **Ranges**.
**JbodDisk** runs `JbodIo` with these parts on blocks that hold sectors: a request
for any section is cut by `map_request`, a block moves the sectors of its part
and reports it, and blocks are added while requests are out. `Added` is `add_block`
of the JBOD, which the constructor (`Constructed`) calls once per block. Transfer and
report are one step, as nothing in the JBOD can tell them apart; a part that
fails may have moved any of its sectors. Every sector holds its own value, and
so does every position of a buffer to be written, so a misplaced one shows.
A request has at least one part and at most one per block, and `MaxBlocks` is at most
`MaxParts`, so its steps are steps of `JbodIo` or leave the variables of `JbodIo` alone
(`DiskServes`). **Disk** is what it refines: one growing array;
a request moves each of its sectors at most once, before its verdict is settled,
and all of them if that is a success. The verdict (`Verdict`) is `request_ref::err` when `put`
elects the last handler, and not the status delivered later, which is read from
freed memory.

**JbodOpen**: `open()` and `close()` of `algo_block_open_ref` hold `open_lock`
and are one step; the JBOD's loops are one step per block; the superblock
accesses of other threads open and close in between. Devices refuse to open at
any time. The JBOD's caller opens and closes it alternately.

**SpacePool** is a pool of addresses: a free set, and per volume the sequence of
addresses it has; the lowest free addresses are given out in ascending order.
**UseRanges** is the allocator on vectors of ranges (`Ranges`), with the binary
searches as they are written (half-open interval, middle rounded down), the merge
passes and the assertions. Each loop is a recursive function of what it has come to: a
search over the window that is left, the others over the elements passed. The
refinement computes `place` by the code's own `map_address`, so the searches are
inside what is checked. The class takes no lock, hence one action per operation. A
failed assertion sets `aborted`; the build type is Debug, so assertions are compiled
in. `org_start` of a free range means nothing (`algo_range.h`) and is kept at 0.
`Restart` replaces pool and volumes by what their `to_json_obj` forms give back after
`dumps` and `loads`. What is saved is an object with a vector of vectors of numbers,
so `Ranges` unfolds the recursions of `JsonValue` that deep; `MCUseRanges` checks on
sample vectors that the recursions of `JsonObj` give the same (`DepthAssumption`).
An `alloc_ranges(0)` would pass the length check and trip the assertion of
`decrease`; nothing in the repository asks for it, and `Sizes` in the run starts at 1.

**PointSet** is a set of points with its operations. **AlgoSections** is
`algo_sections`: a descending vector looked up by binary search, with every
insertion, removal, merge and assertion. `reload` is `to_json_obj` and `from_json_obj`
in memory and says nothing of texts, which nothing in the repository makes of a list.
One would not read back: `algo_section::from_json_obj` reads `ll_val`, where `loads` puts
a number that fits an int into another member, and an empty list's `sections` are an
unknown member, which dumps as `null` and which `loads` refuses. Each loop of the code is a recursive
function over the positions it visits: `search` over windows of the vector, `meets`
over pairs of positions in the two lists, the others over the sections already taken. A call is chosen in one step (`call`) and
made in the next, so that the abstract call is the same one. Arguments are what
callers can build: canonical lists of non-empty sections, and a section to erase
that lies within the set.

Each module has, beside the definitions of the code, mutants: the same
definition with a plausible bug, named in a comment. They take no part in the
specification; they show that each property can fail.

## 4. Runs

| run | instance | shows |
|---|---|---|
| `safe_async` | 3 threads, 4 operations, fairness | `OneInFlight`, `QueueIsSuffix`, `OwedOnce`, refinement of `SerialExec`, `EveryOpSettles` |
| `session` | 2 threads, 1 write and 1 read or 2 writes, fairness | `OneSocketOp`, `ReadsServedWhileUp`, `ErrorMeansDown`, `SndAnswered` |
| `client_session` | 1 thread and the deleter, 2 writes | `HeldIsAlive` is **violated** |
| `jbod_io` | 1 request, blocks of 1 and 2 sectors, growing to 4 blocks, 1 error, fairness | `CountExact`, `CompletedByLast`, `FailureLatched`, `EveryRequestCompletes`, refinement of `Disk` (`ArraySpec`) |
| `jbod_open` | 3 blocks, 2 of them initial, 2 superblock threads | `RefExact`, `UsersFindDeviceOpen`, `NoLeak` |
| `jbod_open_add` | the same, blocks added while open | `RefNonNegative` is **violated** |
| `use_ranges` | 3 volumes, pool 4 growing to 6, sizes 1 to 3, restarts | `Canonical`, `SectionExact`, `NeverAborts`, refinement of `SpacePool` |
| `device_io` | 2 layers of 1 and 2 sectors, 3 accesses, 1 request issued twice, both devices, fairness | `OwnStatus`, `OffsetRestored`, `EventsCovered`, refinement of `SuperIo` (`BlockSpec`), `EverythingReturns` |
| `superblock` | up to 3 copies, 2 threads, 6 values, 2 saves, 2 loads, 1 crash | `ReadSound`, `SavedReadsBack` |
| `sections` | 6 points | `Canonical`, refinement of `PointSet` (`PointSpec`) |
| `watch_dog` | 3 threads, period 2, limit 3, 2 late operations, fairness | `DestructorCovered`, `SilenceBounded`, `DogRests` |
| `watch_dog_destroyed` | 2 threads, period 2, limit 3, 1 late operation, fairness | `HandlerSeesAlive` is **violated** |

Bounds. Three threads are enough for a submitter, a handler and a canceller at
once; four operations fill the queue while one runs and one is being cancelled.
In a session each request is two pairs, so one write and one read already queue
behind each other, and two threads can be in handlers, in `disconnected()` and in
a user's call at once; a write that arrives while another's failure is taking the
session down needs two. `MixNext` leaves out all three together, too many states for
a run with liveness (the invariants are proved for any number of requests); users are
never obliged to submit, so this takes nothing from the fairness. The JBOD's
requests share no `request_ref`, so one is enough; up to four parts give a first, middle ones and a
last part, handlers that are neither elected nor issuing, and blocks of two
lengths give parts that start and end inside one. Two superblock threads can hold
a block together or overlap the JBOD on it. A pool of six fragments into three
free ranges with used ones between them, and a volume can have three ranges out
of order, so every branch of searches and merges is taken. Two layers are what
`super_algo_device` builds; with two threads at the upper layer one waits for
`sync_m` while the other is inside. `MaxQueDepth` is 2 where `MAX_QUE_DEPTH` is
10000: the worker handles nulls one at a time. `MaxCalls`, `MaxSaves`, `MaxLoads`
and `MaxCrashes` bound the calls: two saves give a copy two old values, two loads
a reader in any phase of a writer, and one crash in any of them a torn copy that
later saves and loads meet. Widths of 3 and 5 bits for int and long long keep
the three classes of numbers (fits int, fits unsigned int only, fits neither).
Six points allow three sections with gaps: a search that goes both ways and a
section that closes the gap between two. With period 2 and limit 3 neither
divides the other, so the look that finds the silence comes late as well as on
time. `MaxLen` bounds `increase`, `MaxBlocks` bounds `AddBlock`.

`CHECK_DEADLOCK FALSE` stands where the system ends: all requests served
(`jbod_io`), calls used up (`device_io`, `superblock`), the session down and every
call made (`session`, `client_session`).

Fairness. In `SafeAsync`: a thread inside a call proceeds (weak fairness of
`CallF` and `CallCallback`), and each started operation's handler runs, as asio
reports every asynchronous operation once, with an error at the latest when the
socket is closed. Nothing is assumed of `begin_to` and `clear`. In `Session`: a
thread proceeds with the calls it has to make (no call blocks: the locks are
released before the next call), and the handler of each write runs; a write to a
peer that stops reading ends only when TCP gives up or the dog closes the socket,
and the dog is fed by either direction. Nothing is assumed of reads. In `JbodIo`
and `JbodDisk`: the issuing loop and the handlers proceed, and a block reports
what it was given. In `DeviceIo`: a thread inside an access proceeds, weakly, so
that a waiting `Lock` is served only because each holder lets go and the number of
calls is finite; the kernel finishes and counts requests, and the epoll thread,
the tasks and the worker run. Nothing obliges a user to begin an access. In
`WatchDog`: threads inside calls and queued handlers run, and time passes; nothing
obliges a user to let go of the session.

## 5. Findings

- `jbod_open_add`: `add_block` on an open JBOD followed by `close()` closes a
  block that was not opened. The assertion meant to catch it
  (`algo_block_open_ref.cpp:48`) tests before the decrement and passes; the
  count stays at -1, and the next `open()` succeeds without opening the device.
  The assertion that would exclude the sequence is commented out
  (`algo_block_io_jbod_nosuper.cpp:26`).
- `client_session`: `start_snd_data` queues its pair twice and
  `snd_data_done_unsafe` calls `snd_data_done` before and after `continue_to`, so
  one successful `snd` calls `snd_done` four times (`lt_session.cpp:255`, `261`,
  `322`, `329`). `lt_session_cli_safe` gives back a reference and lowers
  `pending_cnt` each time. After two writes the session is freed while its user
  still holds it, and the user's next call is made on a freed object, which
  `assert_legal` (`lt_session.cpp:32`) asserts against.
- `watch_dog_destroyed`: `timer_handler` clears `on_monitor` and wakes the destructor
  (`lt_watch_dog.cpp:48-51`), which waits for nothing else (line 78), before it writes
  `is_monitoring`, unlocks `m` and calls `handle_event()` (lines 53-55), and it is bound to
  a raw pointer (line 72). In the run it has found silence and is taking the session
  down; a user who finds the session down puts the last reference, the session is
  destroyed, and the `handle_event()` of a `stop_monitor` in `disconnected()` is called on
  it, which `assert_legal` (`lt_session.cpp:376`) asserts against.

Other places where the code does less than one may expect are among the hazards
in `PROJECT.json`, each with what the model does there.

## 6. Proofs

TLAPS checks, for every value of the constants that satisfies the named
assumptions:

**SafeAsyncProofs.** `TypeCorrect`, `MutualExclusion`, `QueueOrder`,
`CallbacksOwedOnce` and `Implements` (`Spec => SerialSpec`). The inductive
invariant `IInv` adds to the checked invariants what relates threads to stages:
an operation in a thread's `funcs` is the one *chosen*, in one thread only;
`order` lists each submitted operation once; `func_list` is the tail of `order`.
Mutual exclusion alone is not inductive: `continue_to` sets `is_doing` from
`func_list`, so it needs that the finished operation was the only one in flight
and that what is in `func_list` is queued and nothing else. The refinement uses
`QueueIsSuffix` to show that a chosen operation is the first of those that wait.

**SessionProofs.** `TypeCorrect`, `OneSocketOpHolds`, `ReadsServed` and
`ErrorMeansDownHolds`, under `RequestsAssumption` (a request is a write or a read).
`Holders` counts a set; the invariant says the same without a count: a queue's
operation is on the socket, or one call of one thread's list holds the queue, and
never both or two (`Exclusive`). `OneSocketOp` alone is not inductive, since it does
not say which call gives the queue back when a handler continues it. `Served` keeps
a claim or a fall for the read queue; it has to include the dones with an error,
which fall in their next step. `Guarded` orders each thread's list: while the session
is up, no callback with an error stands before a `let_it_down`; `Fresh` says that
nothing happens before `let_it_up`, which is why that happens once and a session
that fell stays down. Most steps replace the head of one thread's list (`Replaces`):
one lemma (`QuietStep`) says when that disturbs nothing, and `HandlerStep` does the
same for a handler that takes its operation off the socket and passes the queue on.
`Counting` turns the invariant back into the cardinality.

**StorageProofs**, the request path (`JbodIo`). `TypeCorrect`, `CountIsExact`,
`LastCompletes` and `FailureIsLatched`. The invariant relates the count to the
cardinality of the set of parts that hold a reference, and says that a part is elected
only when that set is empty and that `err` is set exactly when a part that has passed
its store reported an error. Each `Put` removes one element of a finite set; the
arithmetic comes from the library's cardinality facts.

**StorageProofs**, the allocator (`UseRanges`). `CanonicalHolds`, `SectionExactHolds`,
`NeverAbortsHolds` and `ImplementsPool` (`RangesSpec => PoolSpec`), under
`SizesAssumption`: for any volumes, any sizes that are not zero and a pool of any
length. The inductive invariant `RangesInv` (`RangesInvariance`) has three parts.
`PoolIn`: the free list ascends with a gap between any two ranges, `left` is the sum of
its lengths, and no free address is at or past `len`. `VolsIn`: the ranges of a volume
are a chain (each starts in the volume where the one before it ends) of which no two
neighbours touch in the pool as well. `PlacesIn`: an address is not free and in a volume, nor
twice in volumes. `Canonical` does not hold by itself: that a free inserts at a place
no key occupies, and that `increase` inserts past the rest, need that what is given
back is not free already and that all of it is below `len`. That no assertion has failed
is a part of the same invariant: each insertion and each search asserts that the list
it works on is as the invariant says.

The lemmas say what each loop computes for every list, by the induction of
`AlgoSectionsProofs` (`Induct`, below): `InsertPosSplits`, that the insertion search
finds the place of a new key, with the invariant that smaller keys are before the
window and greater ones behind it; the same for `rangepos_by_orgaddr`; of `merge`, that it keeps the
addresses and leaves no two neighbours to join; of the loops of `alloc_ranges` and
`operator+=`, that what was taken and what is left are the free list, the taken
addresses below the rest, appended in order; of `map_section`, that its pieces are the
section. `RestartVol` and `RestartPool` show that a restart is the identity, through
the texts of the superblock. In the refinement the witness for the abstract `Grow` is
the run's own `place`: the addresses that `map_address` finds for the positions added.

**StorageProofs**, the JBOD as a disk (`JbodDisk`). `DiskServes` (`DiskSpec => Spec` of
`JbodIo`), from it `DiskPathHolds` (the invariants of the request path hold while blocks
with data are added), and `ImplementsArray` (`DiskSpec => ArraySpec`), under
`BlocksAssumption` and those of `JbodIo`: for any blocks, any number of requests of any
section. The invariant `DiskInv` (`DiskInvariance`) is that of the request path, with
`BlocksIn` (range i of the mapper is block i, as long as it, and starts where the
blocks before it end) and, for each request that was mapped, `Started`: its parts are
its section, each on one block, and no two of them share a position (`CutIn`); a part
that waits for its block has moved nothing, and one that was reported a success has
moved all it has. The last two make the refinement go through: the abstract disk moves
a position at most once, so a block's transfer needs to know that no other part had
it, and a verdict of success needs all of them moved, which follows from
`FailureLatched` and from the parts covering the section. `DoRequest` is the abstract
start of a request, `ReportPart` a move, `AddBlock` a growth, the `Put` that elects and
`FailMap` settle the verdict, and every other step is a stutter.

**JbodOpenProofs.** `TypeCorrect`, `RefExactHolds`, `UsersFindDeviceOpenHolds`,
`NoLeakHolds`, all under `~AddWhileOpen` (with it, they fail: section 5). The
invariant adds that the blocks are distinct, that a loop stays inside the vector
while the JBOD does not serve, and that a device is open exactly when its count
is positive; a step of a loop changes the set of those who have opened one block
by one element, and no other block's.

**DeviceIoProofs**, the layers. `TypeCorrect`, `OwnStatusHolds`, `OffsetRestoredHolds`. The
invariant says of each access where it is, that it holds `sync_m` from `Lock` to
`Wait`, and whether its answer has come; of each layer, that `is_to_wait` is set
when nobody is inside; of each request, the sector it has in the device. The
lemma `FirstBelow` is the arithmetic of the demultiplexer, from `LayerAssumption`
(the layers' starts ascend).

**DeviceIoProofs**, the devices. `EventsCoveredHolds`, `DeviceImplementsLayers` (`DeviceSpec =>
SafetySpec`), from it `DeviceOwnStatus` and `DeviceOffsetRestored`, and
`DevicesAreBlocks` (`DeviceSpec => BlockSpec`), from `NoRequestAssumption`,
`DepthAssumption` and those of the layers, so for any length of the devices' queues.
The invariant `DeviceInv` is that of the layers, with what a device has to keep: a
request is in one place of it (`OnePlace`), what it holds is what the layers have
outstanding, and `EventsCovered`. None of them is inductive alone: that `get_io` finds
an event depends on the completions still to be counted, and that a completed
request is not completed again depends on its not being queued twice, which the
layers guarantee and not the device.

**MultiSuperProofs.** `TypeCorrect`, `ReadSoundHolds`, `SavedReadsBackHolds`. The
invariant describes the loops half-way: the copies behind a writer hold its
value; what a reader carries stands for a value of its window once it has met a
whole copy; and if no save has begun since it started, everything it met was the
one current value. Once a block was added, the first copy holds the saved value, the last
one is blank, and each between them is one or the other, so that what a reader carries
is still that value when it meets a blank one (`HoldsOnly`). The invariant needs what `ValueAssumption` and `TextAssumption` say of values
and texts, which the superblock run evaluates for `json_obj`.

**WatchDogProofs.** `TypeCorrect`, `DestructorCoveredHolds`, `SilenceBoundedHolds`.
Three facts make them inductive: one thread starts the dog, once, before any
wait exists and before the session is destroyed; a monitored session has a wait armed, or its handler queued or holding `m`
(`silenced`); and the silence so far plus the time to the next look stays below
`MaxWait + Seconds`. `DestructorCovered` ends where the handler clears
`on_monitor`; what it does after that is the finding `watch_dog_destroyed`.

**AlgoSectionsProofs.** `CanonicalHolds` and `ListIsASet` (`Spec => PointSpec`), for
any number `N` of points (`PointsAssumption`: `N` is a natural number). The
invariant `IInv` is `Canonical` stated position by position, with a gap between any
two sections and not only between neighbours (`Gapped`), and with what is known of
the call under way: its list is canonical, the section to erase lies within the set,
a shift does not leave the points. The length is the cardinality of the set of
points, so each insertion and removal is also a fact about disjoint finite sets.

What a loop computes for every list takes an induction, and the library's induction
theorems have an operator for a parameter. `Induct` states the same of a set of
numbers, from the library's theorem on minimal elements. For each loop there are
then three lemmas: its function exists, what one step does to the list's points and
to its canonical form, and by `Induct` what all steps do. The binary search goes by the
width of the window, with the invariant that a section holding the offset, or the
place for one, lies in the window; the walk over two lists goes by the number of
positions still ahead, with the invariant that no point in common has been passed.
`alloc` keeps that what was taken and what is left are the set, the taken part below
the rest. `ListIsASet` then needs one step per call.

Only model-checked: liveness everywhere (`EveryOpSettles`, `SndAnswered`,
`EveryRequestCompletes`, `EverythingReturns`, `DogRests`), which is out of TLAPS's
reach; that the unfolded `dumps` and `loads` of `Ranges` are the recursive ones of
`JsonObj` (`DepthAssumption`) and that `json_obj` meets the assumptions of `MultiSuper`,
as these recursions are `RECURSIVE` operators, which the provers do not take; and the
three findings, which TLC shows by a behaviour.

## 7. Not modelled

`PROJECT.json` lists it per component. The reasons, in short:

- Most of the repository is not its own logic. The vendored log4cpp is more than
  half of its lines; of the rest, checksums, base64, file and string helpers and
  the RAID wrappers transform data or parse the output of tools. What is left
  to model is a small part of all lines, and the models cover most of that.
- The acceptor, the pool of the client service, the generated stubs and
  `lt_condition` rest on one done per request, which the session does not give
  (`client_session`); what can be said above it follows from that finding.
- Message buffers (`lt_data_t`, `lt_mempool`, `lt_stack`, `ref_obj`) are ownership
  of memory through C++ copies, with no control of their own; containers with a
  lock around each operation have no interleaving inside.
- Bitmaps are declared and not implemented.
- The JSON form of the mapper, which nothing loads (it loses its blocks: see the
  hazards); the text of a list of sections, which nothing writes; characters, doubles and the order of keys in JSON texts.
- External: the kernel's side of asynchronous I/O, rapidjson, boost::asio.
