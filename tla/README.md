# TLA+ models of projects_cpp

The repository is a collection of C++ programs built while studying distributed
systems, network servers and memory allocators. This directory models the ones
that carry concurrent or distributed logic of their own, checks the models with
TLC on small instances, and proves part of what the checks show with TLAPS.

Contents: [the system](#the-system), [plan](#plan), [modules and
code](#modules-and-code), [runs](#runs), [fairness](#fairness),
[proofs](#proofs), [where the code departs from its
documents](#where-the-code-departs-from-its-documents), [what is not
modelled](#what-is-not-modelled), [how to run](#how-to-run).

## The system

Paths are relative to `src/`.

| Part | Code | State | Operations | Hard behaviour |
|---|---|---|---|---|
| MapReduce master | `6.824/src/MapReduce/master.cpp` | work queues `m_list`, `reduceIndex`; sets of finished tasks; vectors of tasks handed out; one index per vector shared by all timers | `assignTask`, `setMapStat`, `assignReduceTask`, `setReduceStat`, `isMapDone`, `Done`, timer threads `waitMapTask`, `waitReduceTask` | a queue tested without its lock, timers that end in any order, late reports, pointers into a growing vector |
| MapReduce worker | `6.824/src/MapReduce/worker.cpp` | the files `mr-i-j` and `mr-out-j`, the condition variable `cond`, counters that make some workers hang | `main`, `mapWorker`, `reduceWorker`, `writeInDisk`, `Myshuffle`, `myWrite` | lost wakeup, hung and slow workers, tasks executed twice, files appended to |
| Map and reduce functions | `6.824/src/MapReduce/map_reduceFun.cpp` | none | `mapF`, `reduceF` | none |
| Raft (LAB2) | `6.824/src/Raft/raft.cpp` | term, vote, log, file; `nextIndex`, `matchIndex`, commit index; vote counts; the peer counter `cur_peerId` | `electionLoop`, `callRequestVote`, `requestVote`, `processEntriesLoop`, `sendAppendEntries`, `appendEntries`, `start`, `kill`, `saveRaftState`, `readRaftState` | a thread per call that reads its arguments when it runs, locks released in the middle of a handler, late answers, crash and restart |
| kvRaft server and client | `6.824/src/kvRaft/server.cpp`, `client.cpp` | `m_database`, last request of each client `m_clientSeqMap`, contexts of waiting handlers `m_requestMap`, FIFOs named after client and request; the client's request number and server | `put`, `append`, `get`, `applyLoop`, `snapShotLoop` | pointers to stack objects in a map, a FIFO with a timeout whose name a retry uses again, duplicate requests, changes of leader |
| kvRaft Raft | `6.824/src/kvRaft/raft.hpp` | Raft's fields with `m_logs` cut behind `m_lastIncludedIndex`, the flags `isInstallFlag` and `isExistIndex`, the files `persister-` and `snapShot-` | `processEntriesLoop`, `sendAppendEntries`, `sendInstallSnapShot`, `appendEntries`, `installSnapShot`, `applyLogLoop`, `recvSnapShot`, `start`, restart | index arithmetic over a compressed log, snapshots of the server against snapshots of the leader, threads that find their peer by flags |
| Shard master | `6.824/src/shardKv/shardmaster/` | the configurations, last request of each clerk | `Join`, `Leave`, `Move`, `Query`, `balanceWorkLoad` | loops that end only when loads are even, repeated requests |
| Sharded store | `6.824/src/shardKv/server.cpp`, `client.cpp` | per group: configuration, `m_AvailableShards`, `comeInShards`, `toOutShards`, `garbages`, database and filter | `updateConfigLoop`, `pullShardLoop`, `shardMigration`, `garbagesCollectLoop`, `garbagesCollect`, `putAppend`, `get`, `applyLoop` | groups at different configurations, data in three places, retries at another group, changes of leader |
| buttonrpc | `6.824/src/Raft/buttonrpc-master` | sockets | `bind`, `call`, `run` | vendored; a server runs one handler at a time, a client blocks for the reply |
| Memory pool | `ConcurrentMemoryPool/ConcurrentMemoryPool/` | a `ThreadCache` per thread, the lists of `CentralCache` with a lock each, `PageCache` with its lock, its lists and `_idspanmap` | `ConcurrentAlloc`, `ConcurrentFree` and what they call | three levels of locks with windows between them, a map read without its lock, use counts that decide what may be merged |
| Size classes | `ConcurrentMemoryPool/ConcurrentMemoryPool/Common.h` | none | `Index`, `Roundup`, `NumMoveSize`, `NumMovePage`, the loop that cuts a span | arithmetic at the borders of the groups, the last object of a span |
| muduo_cpp11 | `muduo/muduo_cpp11/` | per loop: pending functors, epoll set, flags; per connection: state and buffers | `loop`, `runInLoop`, `queueInLoop`, `quit`, `send`, `shutdown`, `handleRead/Write/Close` | functors and wakeups across threads, destruction across two loops |
| MyWebServer | `a-high-concurrency-webserver-in-linux/WebServer/MyWebServer/src/` | a second event loop, timers, an asynchronous log, an LFU cache, slots of memory | HTTP and FTP requests | double-buffered log, timers against events |
| muduo, muduo-protorpc, muduo-tutorial | `muduo/` | | | third-party code |

How the parts interact. kvRaft's server calls `start()` of its own Raft and is handed
committed entries and snapshots through two semaphores; it hands snapshots back to
`recvSnapShot`. A group of the sharded store is such a server, asks the shard master
for configurations through a clerk, and calls other groups for shards and to have
them collected. In muduo_cpp11 the main loop accepts and gives a connection to an io
loop; after that loops and threads reach one another only through `runInLoop` and
`queueInLoop`. The worker calls the master through buttonrpc and shares
files with itself only. Raft servers call one another through buttonrpc; each
server has two RPC threads, two loops and a detached thread per outgoing call,
all under one mutex `m_lock`. In the memory pool calls go down from `ThreadCache`
to `CentralCache` to `PageCache`, with the lock of a class held while the lock of
the `PageCache` is taken.

What makes each part correct:

* master: an unfinished task is never lost and exists once, though timers are not
  tied to the task they were started for; the end of a phase means that every task
  was reported.
* job: reducers start after the map phase and read every file; the output counts
  every word once; the job ends.
* Raft: one vote and one leader per term, also after a restart; logs that share an
  entry share what precedes it; committed entries agree; indices stay in the log;
  nobody waits for ever.
* kvRaft: to its clients it is one store that executes each write once, between its
  call and its return; a server's state is the effect of committed entries, whether
  it applied them or was sent a snapshot.
* shard master: every configuration assigns every shard to a group in it, Join and
  Leave balance, at the least cost, and the balancing ends.
* sharded store: one group serves a shard at a time; an acknowledged append is in the
  shard exactly once wherever it has moved; migration and collection end.
* muduo_cpp11: no wakeup, quit, shutdown or release is lost between threads; no
  destroyed object is used; up and down are reported once; bytes in order, then FIN.
* memory pool: an object has one owner; memory in use is never in a free span; the
  map leads from every page to its span; a released span is merged with its free neighbours; no page is
  lost.
* size classes: allocation and deallocation agree on the list; what is written
  while a span is cut lies in the span.

## Plan

In the order of importance; steps 1 to 11 are done.

1. `MapReduceMaster`, then `MapReduceJob`, which composes it with the worker.
2. `Raft`: elections, replication, persistence, kill and restart.
3. `MemoryPool` and `SizeClass`.
4. Proofs: `MapReduceProofs`, `RaftProofs`, `SizeClassProofs`.
5. `KvStore`, the abstract store, and `KvServer`, which is shown to implement it.
6. `SnapshotRaft`: the compressed log and the hand-over of snapshots.
7. `EventLoop` and `TcpServer`, which composes it with the connections.
8. `ShardMaster`, and `ShardKv`, which composes it with the groups.
9. `TcpServerProofs`: no lost wakeup, for any number of loops.
10. `KvServerProofs`: `KvServer` implements `KvStore`, for any servers, clerks and
    scripts. `RaftProofs`: one vote and one leader per term, no election without an
    end. `MapReduceProofs`: no task is lost. `TcpServerProofs` and
    `TcpReleaseProofs`: the streams, the callbacks and the release of connections.
    `ShardMasterProofs`: sound configurations, balanced with the fewest moves.
    `RaftProofs`, once more: logs agree up to a common entry.
11. `RaftCommitProofs`: the indices stay in the logs, and servers agree on what is
    committed (`StateMachineSafety`), on top of `RaftLogMatching`. `MapReduceProofs`:
    the job reads every file and counts it once.
12. Further proofs: `OneServer` of the sharded store (its inductive part: data and owner
    by configuration number). `Buffer` of `muduo_cpp11` as a small state machine with proofs about its
    indices; `AsyncLog` of MyWebServer.
13. Abstract specifications of the master (a task pool) and of the memory pool (a
    page allocator).

There are twelve runs, one for each component or composition. Where a departure of
the code or a larger instance has no run of its own, its configuration is kept or
described [below](#where-the-code-departs-from-its-documents).

## Modules and code

`PROJECT.json` has the exact lines of every definition under `map`.

### MapReduceMaster

Variables are the fields of `class Master`, plus the number of timer threads
(`mapTimers`, `reduceTimers`), the handler the RPC thread is in (`rpc`), the
capacity of the vector `runningMapWork`, and what has been replied so far. A step
is a critical section of `m_assign_lock` or an unlocked test. `assignTask` is four
steps: `AssignTask` (the unlocked test of the queue), `PopTask`, `WaitMap` (the
record in `runningMapWork`) and `ReplyTask` (the timer thread is created and the
reply sent). `WaitMapTask` is a timer thread after its sleep; it judges entry
`curMapIndex`, not its own. `SetMapStat` accepts any task ever replied, at any time
and repeatedly, which covers slow, hung and repeated workers. The reduce phase is
the same with integers. `m_list` keeps `char*`: `Deref` says what such a pointer
reads after the vector has reallocated. Taken away: the values of names other
than their identity and whether they are short.

### MapReduceJob, MCMapReduceJob

`EXTENDS MapReduceMaster` and adds `main` (`mpc`), the worker threads (`wpc`) and
the files. A worker's loop is polled state by state: poll `isMapDone`, ask for a
task, hang or go on, append the buckets one at a time, report. `MapTimer` and
`ReduceTimer` are the master's timers with a count of those that fire on a worker
that is slow, not hung (`early`). `inter[f][j]` counts how often file `f`'s words
were appended to bucket `j`; `output[j]` is the sequence of results appended to
`mr-out-j`. The text of the files is left out. Spurious wakeups of `cond` are left
out as well: they would start the reduce phase at any time, and nothing else in
the code depends on them.

### Raft, MCRaft

One variable per field of `class Raft` that matters, indexed by server, with
`disk` for the file. An outgoing thread is counted in `newVotes` or `newAppends`
until it is scheduled; then `CallRequestVote` or `SendAppendEntries` reads the
term, the log and `cur_peerId` as they are at that moment. A call is a record in
the bag `net`, first as request, then as reply. `requestVote` is three steps
(`RequestVote`, `CheckLogUptodate`, `GrantVote`) because it gives up the lock
around `checkLogUptodate`. `VoteReply` includes the call of `readRaftState` the
code makes there. `Saved` models a file written without `O_TRUNC`. Reads outside
`m_logs` are a choice over the values they may give. `Restart` loses threads and
memory and runs `Make`; calls belong to a life of their caller. `elected` and
`ballots` are history, and so is `slips`. It records four things the code does that
Raft does not allow: "reread", `callRequestVote` called `readRaftState` on a running
server and this appended the saved log to the one it had or took it back to another
saved term or vote (`raft.cpp:394`); "unchecked", a server with an empty log answered success to
entries that do not start at index 1 (`raft.cpp:643`); "forgotten", `appendEntries`
met a newer term, saved the old term without the vote cast in it, and refused the
entries without saving the new term (`raft.cpp:630`, 665, 680); "late",
`sendAppendEntries` counted an answer that came when its server led no more, and
raised `m_commitIndex` by it (`raft.cpp:573`). A vote that is gone
from the file does harm only when the server restarts. `VotesKept` (no "reread", and
no restart after "forgotten"), `LogsChecked` (besides, no "unchecked") and
`AnswersTimely` (besides, no "late") are the conditions the properties below carry;
`RaftEmptyLog.cfg`, `RaftReread.cfg` and the row of `CommittedIsHeld`
[below](#where-the-code-departs-from-its-documents) show slips and what comes of them. A
condition of this kind is no timing assumption: it says which part of the code each
property rests on.

Two constants state what is assumed of timing. `Overlap = FALSE`: a timer of a
server fires only when all calls it made have been answered, that is, round trips
are shorter than the heartbeat period. `LateThreads = FALSE`: a thread has read its
arguments before its server hears of a newer term. With both `TRUE` nothing is
assumed. `MCRaft` adds a second initial state, `ConflictInit`, in which the logs of
three servers have diverged: the state that three elections, two commands and one
heartbeat round leave, with the counters of the bounds back at zero so that a run
goes on from there. A third one, `LateInit`, is of five servers: what four elections,
four commands and the rounds between them leave when the answers of the third term are
still on their way in the fourth.

Left out: `m_lastApplied` (`applyLogLoop` copies `m_commitIndex`), `getState` and
`printLogs`, the values of the timeouts.

### MemoryPool, MCMemoryPool

Memory is a row of numbered pages, an object of a small class is a page, a span of
n pages is cut into n objects; the real sizes are in `SizeClass`. A step is a
critical section or what happens between two: `AllocNewSpan` ends when the lock of
the `PageCache` is released with `_usecount` still 0, `Cut` counts the batch;
`ReleaseOne` takes an object back, `GiveBack` is the later critical section in the
`PageCache`. `Release` is `ReleaseSpanToPageCache` with both merging loops. A
lookup by `MapObjectToSpan` takes no lock: with `Rehash` it may miss while another
thread inserts a region. `SpanList::Erase` on a span that is in no list follows
stale pointers; the model records it in `failed` and stops. Every thread has its
`ThreadCache` (a thread that frees before it allocates has a null pointer in the
code). `live` is what users hold.

### SizeClass, MCSizeClass

The functions of `Common.h` at their real values, and the loop of `GetOneSpan` that
links the objects of a new span, one behaviour per requested size.

### KvStore, KvServer, MCKvServer

`KvStore` is what the clients may rely on: a clerk calls, a write takes effect once
before the return, a read returns a value the store had since the call. `KvServer` is
the code: `Start` is `m_raft.start` called by the handler, `Register` the line
`m_requestMap[ret.m_cmdIndex] = &opctx` after it, `MakeFifo` and `OpenFifo` the `Select`
and its thread, `ReturnRecved` and `ReturnTimeout` the end of the handler, `Apply` and
`Notify` the apply loop inside and after its lock. The window between each of them is
where other threads run. Raft is external: `log[t]` is the log of the leader of term `t`,
an old leader may go on taking requests (`leading`), a new one has every committed
entry and may lose the others. The store is one key, its value the sequence of the
writes in it, so that a lost, repeated or reordered write shows.

The refinement `OneStore` maps `open` to the clerks inside `get` or `putAppend`,
`executed` to "the request is in the log, committed", and leaves the rest as it is;
`store` and `seen` are history variables of `KvServer` that Raft's `Commit` updates.
A write takes effect at its commit, which may come before, during or after the time
in which its handler waits.

Two timings are constants. `LateNotify`: the handler may give up while the apply loop
has the name of its FIFO and has not opened it. `QuickRetry`: a retry may make its FIFO
between the end of the last reader and its `unlink`. Both are `FALSE` in the run and
each breaks `OneStore` (see the departures).

### SnapshotRaft

`kvRaft/raft.hpp` under the apply and snapshot loops of `kvRaft/server.cpp`. `m_logs`
holds what comes after `snapIndex`, and every access goes through
`idxToCompressLogPos` as in the code; an access outside is recorded in `wild`. A round
of `processEntriesLoop` (`Beat`) sets `isInstallFlag` and counts threads; each thread
picks its peer when it runs (`SendAppend`, `SendInstall`), `net` holds the calls, handled
and answered in any order. `installSnapShot` is three steps because it gives up its
lock before it tells the server. `ApplyBatch` and `Deliver` are `applyLogLoop`,
`TakeSnapshot` and `RecvSnapshot` the two halves of `snapShotLoop`. `Kill`, `Activate` and
`Restart` are the faults; `Restart` reads back the two files. An election is one step:
the interleavings of an election are those of `Raft`. The database is the sequence of
the commands in it; a command is retried by its client and filtered by
`m_clientSeqMap`.

`Accidents` names the timings that the code does not survive. The run allows none of
them: calls are answered before the next heartbeat, apply loops keep up, a server that
has a snapshot does not restart.

### ShardMaster

The apply loop of `shardMaster.hpp` over one sequence of configurations (all masters
apply the same). `Apply` is an operation with the duplicate filter; `Join` and `Leave`
start `balanceWorkLoad`, whose loops are the steps `Assign`, `Even` and `Push` on `work`,
so that "it ends" can be said. Which of several groups with the same load is on top of
a priority queue is left open.

### ShardKv, MCShardKv

`EXTENDS ShardMaster`: the groups ask the modelled master for configurations. A group is
its replicated state (`cfg`, `avail`, `comeIn`, `toOut`, `db`, `seq`, `garb`), the commands on
their way through its Raft (`log`) and the loops of its leader: `UcRead`/`UcStart`,
`PullBegin`/`PullPick`/`PullCall`/`PullStart`, `GcBegin`/`GcCall`/`GcErase`, a step each side of every
call and lock. `Apply1` is `applyLoop`, with `ApplyUC`, `ApplyUD`, `ApplyGC` and
`ApplyRequest` for what it calls. `LeaderChange` loses the last commands and the threads;
the other servers' `garbages` come back (`keptGarb`), because only the leader erases.
Clients find the owner, retry and go to another group. A shard has one key, the
sequence of its appends.

`Timings` names two things that the run leaves out because the code does not survive
them: a request applied when its shard has gone ("refused") and threads that walk over
`comeInShards` while it changes ("iterator").

### EventLoop, TcpServer, MCTcpServer

`EventLoop` is one loop per thread: where its thread is (`pc`), its functors, its eventfd.
`QueueInLoop` pushes under the mutex and decides on the wakeup; the write to the eventfd
is the later step `Wakeup`. `TcpServer` `EXTENDS` it with connections: one record has the
fields of `TcpConnection` and its `Channel` (`state`, `events`, `index`) and what the
kernel has for the socket. `Poll` returns any set of ready channels with the events
epoll would report; `HandleEvent` is `handleEventWithGuard`: close, read, write in that
order. `HandleAccept` gives a connection to the next loop. `Owned` is the
`shared_ptr`: `connections_`, functors bound to one, the application; a connection
without an owner is `Destroyed`, and a functor with the bare `this` does not own.
`sendInLoop` may write a part and leaves the rest to `HandleWrite`. The peer sends, reads,
closes and resets. A worker thread of the application calls `send` and `shutdown` in the
steps the code has (`WorkerCalls` tests the state, `WorkerSetsState`, `WorkerQueues`).
`~TcpServer` runs in the main thread when `loop()` has returned and ends the pool.

`Accidents` are timings the application has to avoid: "drop" (it lets go of a
connection while a functor with the bare `this` is queued), "late" (it calls after the
main loop was told to quit), "early" (it quits before every loop runs).

## Runs

Bounds are small on purpose; each is chosen so that the case a property is about
happens, which the mutants in `PROJECT.json` confirm: every property of a run fails
for at least one plausible mistake in the code it is about. Where a property is the
conjunction of several that are named in the module (in parentheses below), there
is a mutant for each part that says something about the code.

| Run | Bounds | Shows |
|---|---|---|
| `master` | 2 files, 2 reduce tasks, 4 executions in each phase | `TypeOK`, `OneTimerPerEntry`, `PopFindsTask`, `TasksAccounted` (`NoTaskLost`, `OneCopyPerTask`, `DoneMeansAllReported`), no deadlock. Four executions let both tasks time out and be handed out again while earlier timers and late reports are pending |
| `job` | 2 map workers, 2 reduce workers, one that hangs in each phase, one early timeout | `ReduceReadsAll` (`ReduceAfterMap`, `EveryFileShuffled`); `CountsExactOnTime`: the output is exact unless a live worker timed out; `JobProgresses` (`MapPhaseEnds`, `WaitingMainFinishes`: the job ends if `main` waits in time) |
| `raft_votes` | 3 servers, 2 elections, 1 heartbeat round, 1 restart, 1 kill, `LateThreads` | `ElectionSafety`, `OneVotePerTerm` (a server that restarts has its vote on disk), `ElectionCanEnd` |
| `raft_logs` | 3 servers, 2 elections, 2 rounds, 2 commands, from the first start and from diverged logs | `CalleeIsAPeer`, `CalleesDistinct`, `IndicesInLog` (`TypeOK`, `NextIndexInRange`, `CommitInLog`), `LogMatching`, `StateMachineSafety` |
| `pool` | 2 threads, 1 class of 2-page spans, a region of 6 pages, 2 objects in use | `BooksExact` (`TypeOK`, `OneOwner`, `UseCountExact`, `MapExact`), `MergesSafe` (`ErasesListed`, `NothingInUseIsFree`), `ReleaseMerges`, no deadlock. Three spans fit in the region, so a released span has neighbours on both sides, free or in use |
| `pool_big` | 2 regions of 2 pages, objects of a whole region and of more, lookups that may miss | `EachPageOnce` (`NoPageLost`, `OneOwner`) |
| `size_classes` | every size from 1 byte to 64 KB | `IndexTable`, `SameList`, `SizesFit` (`OneSizePerList`, `Waste`, `SpanIsPossible`), `LinksInside` |
| `kv` | 2 servers, 2 clerks (an append and a get against a put), 2 terms, 3 log entries | `AppliedOnce`, `CallsConsistent` (`TypeOK`, `ContextsLive`), and the refinement `OneStore`. Three entries are one more than the writes, so a retry has an entry of its own beside that of the first call |
| `snapshot` | 3 servers, a snapshot every 2 entries, 2 terms, 2 rounds, 2 commands, 1 kill, 1 restart | `StateIsCommitted` (`StateIsPrefix`, `SnapshotFits`), `NoWildRead`, `LogSafety` (`TypeOK`, `LogMatching`, `LeaderComplete`), `OneCallPerPeer`. The killed server misses the entries that a snapshot then replaces, so the second round has to install it |
| `shard_master` | every sequence of 4 requests over 4 shards and 3 groups, repeated requests included | `ConfigsSound` (`MasterTypeOK`, `AllOwned`, `NoShardLost`, `OneConfigPerRequest`), `BalancedAndMinimal` (`BalancedResult`, `MinimalMovement`), `BalanceEnds`, no deadlock. Four shards on three groups are an uneven division; four requests reach the third group and take one away |
| `shard` | 2 shards, 2 groups, a plan that moves a shard away and back, 1 client that appends, 1 change of leader or lost call | `HandedOver` (`TypeOK`, `OneServer`, `NothingSkipped`), `EveryAppendOnce` (`NoAppendLost`, `NoAppendTwice`). The way back is what meets stale data and a stale filter |
| `muduo` | main loop and 1 io loop, 1 connection, a worker that shuts down, 1 message of 2 bytes, room for 2 bytes in the socket | `OutOfReach` (`TypeOK`, `NoUseAfterFree`, `ClosedIsSilent`), `NoSleepOnWork`, `OnceUpOnceDown`, `StreamInOrder` (`DataInOrder`, `FinIsLast`), `NothingForgotten` (`ShutdownUnderWay`, `ReleaseUnderWay`, `QuitNotForgotten`) |

Instances that were run by hand and pass: the pool with 6 pages and 3
objects in use (1.1 million states), 7 pages and 2 objects (1.6 million), 2 regions
of 4 pages and 2 objects (1.7 million), 3 regions of 3 pages and 4 objects (2.3
million); the safety of the job with 3 map workers and `WorkerSymmetry` (one hung, one
executing again, one broadcasting); `snapshot` with 3 rounds (0.7 million); the
liveness of the sharded store (`ShardKvLive.cfg`: `ShardsArrive`, `DataFreed`), that of
the network server (`TcpServerLive.cfg`), and a server whose main loop does all the work
(`TcpServerSingle.cfg`). Raft's properties other than `ElectionCanEnd` were also
simulated from both initial states with five elections, four rounds, three commands
and one restart (10 million states, none violated).

`CHECK_DEADLOCK FALSE` is set where behaviours really stop: a job ends; the
counters that bound Raft, the stores and the groups run out; a failed assertion ends
the process in `pool_big`; a loop ends in `size_classes`; `main` returns in `muduo`.
`master`, `pool` and `shard_master` check deadlock.

`ElectionCanEnd` is about behaviours without a restart, because a server that dies
while it serves a call never answers and the caller's thread blocks; the code has
no timeout for it. `ElectionSafety` holds in `raft_votes` under `Overlap = FALSE`
and fails without it (`RaftTwoLeaders.cfg`): the election's safety rests on calls
being faster than timers.

`ElectionSafety` and `OneVotePerTerm` are claimed under `VotesKept`, `LogMatching`
under `LogsChecked`, `StateMachineSafety` and `CommitInLog` under `AnswersTimely`.

Symmetry is used for the threads of the pool; never with liveness, nor for servers,
which are numbers or are named by the bounds.

## Fairness

`FairJobSpec` assumes that the operating system schedules threads: weak fairness
for the RPC thread's own steps and for the timer threads, which only sleep. A
worker's call needs the RPC thread to be idle, which it is again and again and not
for ever; ZeroMQ serves waiting requests in turn, hence strong fairness for the
workers and `main`. Nothing is assumed of a hung worker (it has no step) and
nothing of when timers fire. Early timeouts are bounded by `MaxEarly`: a job whose
every worker is always too slow need not end.

`MasterSpec` of the shard master assumes only that the apply loop, once it is in
`balanceWorkLoad`, goes on: no other thread can disable a step of it, so weak fairness
is enough. Requests need never come.

`ShardKv`'s `Fairness` is weak fairness of what the loops and threads of a leader do by
themselves; the calls between groups are repeated by the loops, and changes of leader
are bounded. `FairSpec` of `TcpServer` lets loops that can move do so, finishes the calls
the worker has begun, and makes a peer that has not reset the connection read; it
assumes nothing of timeouts of `poll`, of what peers send or close, or of the
application.

## Proofs

| Theorem | Says | For |
|---|---|---|
| `MasterTypeOK` | `TypeOK` | any command line, any number of reduce tasks, any bound, any short names |
| `MasterTimers` | `OneTimerPerEntry` | same |
| `MasterPops` | `PopFindsTask` | same |
| `MasterTasks` | `TasksAccounted`: no task is lost, none exists twice, a phase ends when all are reported | same, if no name is short (`Short = {}`) |
| `JobOfMaster` | a job does with the master only what `MapReduceMaster` says (`JobSpec => Spec`) | any command line, workers, hangs and bounds |
| `JobReadsAll` | `ReduceReadsAll`: no reducer starts before every file is reported, and it reads every file | same, with `Short = {}` |
| `JobCountsExactly` | `CountsExactOnTime`: the output counts every file once, unless a timer gave up on a live worker | same |
| `RaftCallees` | `CalleeIsAPeer` | any odd number of servers above 1, any bounds, any timing |
| `RaftCalleesDistinct` | `CalleesDistinct` | same, with `Overlap = FALSE` |
| `RaftElectionEnds` | `ElectionCanEnd` | same |
| `RaftOneVotePerTerm` | `OneVotePerTerm` | same |
| `RaftElectionSafety` | `ElectionSafety` | same |
| `RaftLogMatching` | `LogMatching` | same, with `LateThreads = FALSE` and `MaxRestart = 0` |
| `RaftTyped` | `TypeOK` | any odd number of servers above 1, any bounds, with `Overlap = FALSE` |
| `RaftNextIndex` | `NextIndexInRange` | same, with `MaxRestart = 0` |
| `RaftIndices` | `IndicesInLog`: the two above, and `CommitInLog` | same, with `LateThreads = FALSE` |
| `RaftCommitted` | `StateMachineSafety`: servers agree on what both have committed | same |
| `KvTyped`, `KvLogs` | every field of the service keeps its range; the logs of leaders hold what is committed, and only what clerks asked | any servers, clerks, scripts and bounds, any timing |
| `KvCalls` | `CallsConsistent` | same |
| `KvAppliedOnce` | `AppliedOnce` | same |
| `KvOneStore` | `OneStore`: `KvServer` implements `KvStore` | same, with `LateNotify = FALSE` and `QuickRetry = FALSE` |
| `LinksStayInside` | `LinksInside` | any set of sizes from 1 byte to 64 KB |
| `ListsAsInTable`, `ListsAgree` | `IndexTable`, `SameList` | same |
| `RoundingKeepsPromises` | `SizesFit` | same |
| `ListsHoldOneSize` | two sizes share a list exactly when they are rounded to the same size | all pairs of sizes (TLC checks neighbours only) |
| `NoLostWakeup` | `NoSleepOnWork` | any number of loops, connections and messages; any of the accidents |
| `PeerStream` | `StreamInOrder` | same, if other threads do not call `send()` (`"send" \notin WorkerOps`) |
| `ToldOnce` | `OnceUpOnceDown` | same |
| `ClosedOutOfReach` | `OutOfReach` | same, without accidents (`Accidents = {}`) |
| `NothingIsForgotten` | `NothingForgotten` | same |
| `ConfigsStaySound` | `ConfigsSound`: every shard has one group of its configuration, none is lost while loads are moved, one configuration at most per request | any number of shards, groups, clerks and requests, with `ForeignMove = FALSE` |
| `BalancesAtLeastCost` | `BalancedAndMinimal`: what the balancing pushes is even to one shard, and a group of the last configuration only gains or only loses | same |

The hypotheses of the theorems are those of the runs: each is the value that the
configuration gives the constant. The departures below show what comes without them:
of a short name (`MapReduceMasterShort.cfg`), of overlapping rounds
(`RaftTwoLeaders.cfg`), of `LateNotify`, `QuickRetry`, `"send"`, each of the
`Accidents` and `ForeignMove` (the rows of `kv`, `muduo` and `shard_master` in the
second table).

The arguments:

* Master. None of the invariants is inductive alone; `TimerInv` joins the three that
  need no hypothesis and adds that the index a reduce handler has popped is a task.
  `OneTimerPerEntry` gives that a timer always finds an entry, so what it judges and
  queues is a name, which `TypeOK` needs; and `PopFindsTask` holds because between the
  test and the pop only timers run, which append. `TasksAccounted` asks where a task
  is: in the queue, in the part of the running vector that no timer has judged yet, in
  the hand of the RPC thread, or finished. `Kept` and `Single` say so of one phase,
  for names and for integers alike, and `TasksInv` of both. Steps move a task from one
  place to the next; that a timer judges an entry that is not its own is no harm,
  because the entries still to be judged are as many as the timers.
* Job. `JobStep` maps every step to one of the master, or to none, so what was proved of
  the master holds in a job. The two phases do not overlap although `main` waits
  without a predicate: only a mapper that has heard that all maps are done broadcasts
  (`PhaseInv`), and spurious wakeups are not modelled. A mapper reports a file when it
  has appended every bucket, so what is reported can be read (`WrittenInv`). For the
  count, `MapOnTime` says what `OneCopyPerTask` gives once it is known whose the copies
  are: a worker that does not hang holds a task that is out, and nobody else holds it;
  a bucket has the words of a file once if the file is reported or its holder has got
  that far, and else not at all. A timer that is on time puts back only tasks of workers that
  hang. `ReduceOnTime` says the same of the results. Both are about one phase, and the
  steps of the other leave it alone (`Quiet`). Short names are excluded because a report
  of what a dangling pointer reads would be counted as a file.
* Raft, the counter. `CurPeerInv` is `cur_peerId \in Server` together with
  `CalleeIsAPeer`; the second part rules out the last server standing at its own
  number, the case the wrap-around of `NextPeerId` is written for.
* Raft, a round. With `Overlap = FALSE` a server's threads belong to one round.
  `RoundInv` says that those not yet run call the peers from `Callee(s)` on, one each
  (`Remaining`), and that no call that waits goes to one of these (`Waits`); so callees
  are distinct. `ElectInv` counts: the servers that are neither still to be called nor
  being called are `finishedVote` many, the candidate itself the first of them, so
  when nobody is left the count is `Peers`.
* Raft, votes. `BallotInv` relates the votes cast to the term and vote their server
  has in memory, and to the handlers between `checkLogUptodate` and the vote; `FileInv`
  says the same of the file, as long as nothing was "reread" or "forgotten", so a
  restart finds its vote. A leader of a term has the votes of more than half of the
  servers (`ElectedInv`, through `CandidateInv`, which says that `recvVotes` counts
  distinct ballots of this term), two majorities share a server, and that server has
  voted once. With `Overlap = TRUE` `CandidateInv` is false: a late answer of an
  earlier election is counted.
* Raft, logs. A proof about two logs as they stand does not go through: entries that are
  on their way may end a log their sender no longer has. `LogInv` therefore says that
  there is a set of logs (`History`) that holds all the beginnings of each of its
  members, every server's log (`Known`), and for every `appendEntries` on its way the
  log whose end it carries (`SentFrom`). Two members of the same length that end in the
  same term are equal. The set grows in `start()` only, and what `start()` makes is new:
  its term has one leader (`RaftElectionSafety`), and no member that ends in that term
  is longer than the leader's log. The consistency check then gives that a log which
  takes entries becomes a member (`SyncedKnown`). `LeadInv` says that entries come from
  a server elected in their term; that needs `LateThreads = FALSE`, since a late thread
  sends the entries of a deposed leader in a term it was not elected in
  (`RaftDeposedLeader.cfg`). `MaxRestart = 0`, because `saveRaftState` does not truncate
  its file: a log that became shorter leaves the end of the longer one behind it, and a
  restart reads both as one log.
* Raft, indices. `nextIndex` is only safe because each answer a leader counts is to the
  one call it made to that peer in its term: an answer adds the number of entries sent
  to whatever `nextIndex` is by then. `RangeInv` says so (`CallFits`), and that what a
  call and its answer name is in the leader's log, which does not shrink while it leads.
* Raft, commits. The invariant `TrailInv` says that there is a history: `H`, the logs
  there have been; `A`, what `appendEntries` has answered success to (term, server, the
  log it then had); `E`, the log the leader of each term was elected with. A log of `H`
  is `Committed` if more than half of the servers have acknowledged it, alone or as the
  beginning of a longer one, in its last term, and `Lost` if more than half are past
  that term and have not; since majorities meet, never both. `KeptOK`: who has acknowledged a log has it, and so does
  every later leader, or the log is lost. Votes are why: a server votes for a log that
  is as long as its own or ends in a later term (`VoteSafe`), and a candidate of that
  kind has what the voter acknowledged; a winner has more than half of the votes, so
  either one of the voters had acknowledged the log, or they are the majority that makes
  it lost. `LogOK` keeps the entries of a term to those who led it or acknowledged them,
  `CountOK` and `AnswerOK` the counts of a leader to what is in `A`, and `CommitOK` says
  that `m_commitIndex` counts the beginning of a committed log. Of two committed logs
  one begins the other (`CommittedAgreeing`), which is `StateMachineSafety`.
  `sendAppendEntries` commits up to an entry of the present term only (`raft.cpp:581`):
  that makes what it counts acknowledgements of a log in its last term, and brings the
  entries of earlier terms along as a beginning of it. "late" has to be excluded:
  `AnswerOK` is about servers that lead, and a server whose log was overwritten since
  the call may count the answer for entries of the present term it has got since.
* Key-value service. The invariants come in layers, each proved with the ones before
  it: `Typed`; `LogInv` (a clerk's requests stand in every log in order, every entry
  where its own leader put it, the newest leader has what is chosen); `CallInv` (a
  registered context is that of a live handler, whose index and term name its entry);
  `StateInv` (a server's database and filter are the effect of what it applied, each
  write once); `SeenInv` (a waiting clerk has seen every value from the choice of its
  entry on); `ToldInv` (what the handler finds in its context when it is woken is the
  answer to its own entry). A single inductive invariant would be their conjunction,
  with every step proved against all of it. The refinement follows: `Request` is the
  call, `Commit` the effect of a write that has no earlier entry, a return of the
  handler the return, and everything else a stutter. What a log does to a store
  (`Effect`) is a recursive function; what it computes is proved by induction on its
  length, in the form `NatSetInduction`: a set of numbers that holds 0 and the successor
  of each of its members holds them all, which follows from the well-foundedness of
  finite sets (`NatInduction` takes an operator, which the provers cannot instantiate).
* Size classes. `CutInv`: `cur` is a multiple of 8 below `end`. The end of a span and
  every object size are multiples of 8 too, so a link of 8 bytes at `cur` fits. The
  lemmas compute `Index` and `Roundup` group by group.
* muduo, the loops. `NoSleepOnWork` says that a loop that polls with pending functors,
  or after `quit()`, has its eventfd readable or a thread about to write to it.
  `WakeInv` says so of every place but the handling of events, where the loop runs
  `doPendingFunctors` and tests `quit_` by itself afterwards. It is inductive because
  whoever pushes a functor from elsewhere, or while functors run, owes a wakeup until
  `Wakeup`, and because the eventfd is only read at the start of the handling. The
  connections matter for one thing only: every step of theirs leaves the loops alone
  or goes through `QueueInLoop`, one lemma for each way.
* muduo, one connection. What a connection becomes depends on the functors queued for
  it, on the channels `poll` has returned and on what a thread has read of `state_`.
  `Sys` says which functors a queue may hold (`Sound`), that `connectEstablished` comes
  first (`First`), which channels may be active (`ActiveInv`), what `connections_` and
  the application hold (`ConnsInv`), what the worker knows (`WorkerInv`), and of each
  connection how its state, its channel, its epoll entry and its bytes go together
  (`KInv`: what the peer has received, what the socket and `outputBuffer_` hold and
  what was handed to other loops is the stream). It needs that no other thread calls
  `send()`, since that call tests `state_` and writes after others have changed it.
* muduo, the end of a connection. `Reach` adds who was told to quit and when
  (`QuitInv`), and for each connection what is queued for it (`Releasing`: a connection
  reported down has its `removeConnectionInLoop` or `connectDestroyed` queued until it
  is destroyed), who keeps its pointer (`Kept`) and what a `shutdown()` waits for
  (`Shutting`). A step that leaves this alone for a connection is `Calm`; each action
  has a lemma for the connection it is about, and for all others it is calm.
* Shard master. While `balanceWorkLoad` runs, every shard is in one place: without a
  group, or once in the load of one group (`Placed`). `OneWay` says of every group of
  the last configuration that it has what it had, or has only been given shards and
  holds at most one more than any other (`Took`), or has only given some away and holds
  at most one less (`Gave`). The loops move a shard from a longest to a shortest load
  only if the two differ by more than one, so a group that took is never the one to
  give; that is why no shard moves without need. `Spread` goes on with a difference of
  one only where the loads must become equal, and there it cannot meet one: loads that differ by one at most and are not all equal add up to a number
  the groups do not divide (`SpreadWide`, by counting places in the loads).
  `OneConfigPerRequest` counts the requests applied (`Applied`) as a set, so that a
  repeated one adds nothing.

TLC found the inductive invariants kept before they were proved: `Sys` and `Reach`
on the instance of `muduo` (714701 states), those of Raft on `raft_votes` and
`raft_logs` (`LogInv` and `TrailInv` with the sets kept as history variables, 647624 and
692976 states), those of
the key-value service on `kv` (1.3 million states), `TasksInv` on `master`, `JobInv` and
`OnTimeInv` on `job` (55929 states) and by hand with two early timeouts, no worker that
hangs and four tasks handed out in a phase (9 million), `MasterInv` on `shard_master` (338253 states).

Assumptions used are the `ASSUME`s of the modules: distinct names and `Garbage` no
name, at least one reduce task; an odd number of servers above 1 and bounds that are
numbers; sizes between 1 byte and 64 KB; scripts of `put`, `append` and `get`, and
`None` neither a server nor a clerk; messages of at least one byte, and names of
connections other than those of the two special channels. TLC evaluates them in the
runs.

Only model-checked, and why:

* liveness (`JobProgresses`, `ReleaseMerges`, `BalanceEnds`), which rests on fairness
  and ENABLED;
* the snapshots (`SnapshotRaft`): its properties need the argument of `TrailInv` again,
  over logs whose beginning a snapshot has replaced; left for later;
* the memory pool: `MergesSafe` is a property of the instances, true with one size
  class and without big objects and false beyond (see the departures), so a theorem
  for all constants would be false; `Release` is a recursion over memory;
* the sharded store (`ShardKv`), whose properties need, on top of the theorems about
  the shard master, a history of every shard's data through the configurations;
* what recursive functions compute, but for `Effect`.

## Where the code departs from its documents

Each row is a property in the modules that the code does not keep. The first table
names a configuration in this directory, to be run with the module in parentheses.

| Property, configuration | Code | Document |
|---|---|---|
| `JobEnds`, `MapReduceJobWakeup.cfg` (`MCMapReduceJob`) | `worker.cpp:375`: `main` tests `isMapDone` and then waits; the broadcast of the last report may come in between, and `main` waits for ever | `LAB1.md:26`: "以确保任务阶段的变化以及失败任务的重新分发及处理" |
| `ReplyIsAFile`, `MapReduceMasterShort.cfg` (`MCMapReduceMaster`) | `master.cpp:122` pushes `c_str()` of a string in a vector; for a short name the pointer dangles after the vector grows | the comment there: "这钟方式加入list后不会变成空字符串" |
| `CountsExact`, `MapReduceJobDuplicate.cfg` (`MCMapReduceJob`) | `worker.cpp:106`: a slow worker's task runs twice and both append to the files | `LAB1.md:144`: "即有几个word有几个1" |
| `ElectionSafety`, `RaftTwoLeaders.cfg` (`Raft`) | `raft.cpp:399`: a late vote of an earlier election is counted in the present one | `LAB2A.md:245`: "一个term内至多有一个leader" |
| `LogsAgree`, `RaftEmptyLog.cfg` (`Raft`) | `raft.cpp:643`: a server with an empty log accepts entries wherever they start | `LAB2B.md:137`: "m_prevLogTerm及m_prevLogTerm需要满足论文描述的约束" |
| `ReadRaftStateAtInit`, `RaftReread.cfg` (`Raft`) | `raft.cpp:394`: a candidate that hears of a newer term calls `readRaftState`, which appends the saved log to the log it has and brings back the saved term and vote | `raft.cpp:823`: "只在初始化的时候调用", `raft.cpp:830`: "所以m_logs为空" |
| `AppendsComeFromLeader`, `RaftDeposedLeader.cfg` (`Raft`) | `raft.cpp:530`: the thread reads the term when it runs and does not look at `m_state` | `raft.cpp:524`: "日志同步和心跳是由leader发起的，所以sendAppendEntries()是由leader调用的" |
| `NextIndexInRange`, `RaftNextIndex.cfg` (`Raft`) | `raft.cpp:575`: two rounds in flight to one peer are both added to `nextIndex` | `raft.cpp:167`: "下一个要发送到该服务器的日志项的索引" |
| `CommitOnMajority`, `RaftCommit.cfg` (`Raft`) | the leader's own `matchIndex` is never set, so the median asks for one follower more | `raft.cpp:581`: "超过半数的节点的index大于commitIndex，就可以提交日志" |
| `ErasesListed`, `MemoryPoolWindow.cfg` (`MCMemoryPool`) | `PageCache.cpp:171`: a span whose batch has not been counted yet has `_usecount` 0 and is merged | `ConcurrentMemoryPool/README.md:270`: "Page Cache中会对前后相邻的空闲页进行合并" |
| `ErasesListed`, `MemoryPoolMerge.cfg` (`MCMemoryPool`) | `PageCache.cpp:171`: a big object in use has `_usecount` 0 and is merged | `PageCache.cpp:170`: "前一个span不空闲" |
| `CoalescedFully`, `MemoryPoolLimit.cfg` (`MCMemoryPool`) | `PageCache.cpp:219` stops merging at 128 pages | `PageCache.cpp:218`: "超过128页则不合并" |
| `NoDanglingEntry`, `MemoryPoolErase.cfg` (`MCMemoryPool`) | `PageCache.cpp:48` erases the key `npage` instead of the page number | `PageCache.cpp:147`: "归还之前删除掉页到span的映射" |
| `ObjectsHaveSpans`, `MemoryPoolLookup.cfg` (`MCMemoryPool`) | `PageCache.cpp:125` searches the map without the lock | `PageCache.cpp:132`: "assert(false);" |
| `ObjectsInside`, `SizeClassOverrun.cfg` (`MCSizeClass`) | `CentralCache.cpp:42` keeps an object at `cur` that ends beyond the span when the size does not divide it | `CentralCache.cpp:36`: "将span页切分成需要的对象并链接起来" |

The passing runs of the pool stay clear of these: `pool` has no big objects and one
class; the big objects of `pool_big` are as long as the longest span the PageCache
keeps, so no merge that would swallow one is within the limit.

The second table is mostly about the later modules. Each row takes the configuration of
the run (or the one it names), changes the constants it names, checks the one property and finds it violated.

| Run | Property | Constants | What the code does |
|---|---|---|---|
| `raft_votes` | `KilledStopsElecting` (an action property) | | The loop that waits for the timeout (`raft.cpp:304`) does not look at `dead`, so a killed server holds another election; `raft.cpp:885`: "kill后选举及心跳的线程会宕机" |
| `RaftEmptyLog.cfg` | `CommittedAgree` | `MaxBeat = 4` | Two rounds after the server with an empty log (`raft.cpp:643`) took entries wherever they started, it applies them at the wrong indices; `LAB2B.md:6` promises "将一致的日志apply到应用层" |
| `raft_logs` | `CommittedIsHeld` | `SPECIFICATION LateSpec`, `Peers = 5`, `MaxElection = 0`, `MaxBeat = 1`, `MaxStart = 5` | `sendAppendEntries` counts an answer though its server leads no more (`raft.cpp:573`): server 0 has taken the entries of a later leader by then, counts the answers to those it had sent, and commits an entry that two of five servers hold; `raft.cpp:581`: "超过半数的节点的index大于commitIndex，就可以提交日志" |
| `kv` | `NotifiesLive`, `OneStore` | `LateNotify = TRUE`, `MaxEarly = 1` | The apply loop has taken a FIFO's name from a context and opens it after the unlock. Its handler has given up, a retry has made a FIFO of the same name (`mkfifo` and its name depend on client and request only), and takes the word about the first call, whose entry was replaced by another, for its own: the client is told a write is done that no server has executed |
| `kv` | `OneStore` | `QuickRetry = TRUE` | The thread of an ended `Select` unlinks by name (`server.cpp:46`) and removes the FIFO a retry has found there. The retry's `open` fails, `isRecved` is set, and its client is answered although nothing was executed |
| `kv` | `WriterHasReader` | | The apply loop opens for writing a FIFO that nobody will ever open for reading, and stops for good |
| `snapshot` | `NoWildRead` | `Accidents = {"again"}` | A snapshot is taken with nothing applied since the last; the term of an entry that is not in `m_logs` is read |
| `snapshot` | `NoWildRead` | `Accidents = {"lag"}`, `MaxBeat = 3` | The apply loop is behind while a snapshot is installed or taken, and reads entries that were cut off |
| `snapshot` | `NoWildRead` | `Accidents = {"late"}` | A thread of a round runs after its server went on and sends entries from an index the log no longer has |
| `snapshot` | `LeaderComplete` | `Accidents = {"overlap"}` | An `appendEntries` of an earlier round, handled after that of a later one, takes back the entries the later one brought and the leader counts as replicated |
| `snapshot` | `StateIsPrefix` | `Accidents = {"restart"}` | The database and `m_lastApplied` of a server that restarts with a snapshot are not those of one index |
| `snapshot` | `NobodyLocked` | `Accidents = {"stale"}`, `Limit = 1`, `MaxTerm = 1`, `MaxBeat = 4`, `MaxRestart = 0` | `recvSnapShot` returns without the unlock (`raft.hpp:1176`) when a newer snapshot was installed meanwhile |
| `shard_master` | `BalanceEnds` | `ForeignMove = TRUE` | `Move` to a group that is not in the configuration leaves a shard with an unknown owner; the next balancing never ends |
| `shard` | `NoNullContext`, `NoAppendLost` | `Timings = {"refused"}`, `MaxTrouble = 0` | A request whose shard has gone when it is applied is refused through the context, which is null on servers that did not start it (`server.cpp:852`); on the one that did, the filter has already taken the request for executed, and a later retry is acknowledged without an append |
| `shard` | `IteratorValid` | `Timings = {"iterator"}`, `MaxTrouble = 0` | The threads of `pullShardLoop` walk over `comeInShards` with an iterator while `updateComeInAndOutShrads` and the apply loop change it |
| `shard` | `GarbageForgotten` (as a temporal property) | | Only the leader erases its `garbages`; after a change of leader the next one has them again and finds nothing to erase them for |
| `muduo` | `NoUseAfterFree` | `Accidents = {"drop"}` | `shutdown()` queues a functor with the bare `this`; the connection is gone when it runs |
| `muduo` | `NoUseAfterFree` | `Accidents = {"late"}` | A thread calls a connection while the server is being destroyed and reaches a loop that no longer exists |
| `muduo` | `QuitNotForgotten` | `Accidents = {"early"}` | `loop()` sets `quit_` to false, also when `~EventLoopThread` has just set it: the destructor joins for ever |
| `muduo` | `OnceUpOnceDown` | `WorkerOps = {"send"}` | `sendInLoop` logs "disconnected, give up writing" and goes on (`TcpConnection.cc:83`): it writes, buffers the rest and puts the channel of the closed connection back into epoll, where a reset reports it down a second time |
| `muduo` | `FinIsLast` | `WorkerOps = {"send"}`, `MaxInputs = 2` | `send()` has tested the state before `shutdown()` takes effect, and writes after the FIN (SIGPIPE) |
| `muduo` | `DownBeforeDestroyed` | | `~TcpServer` queues `connectDestroyed` to loops it then ends: connections go without being reported down |

One departure has no configuration, because the traces that show it are longer than a
run can search (two restarts, four elections, two commands): `OneVotePerTerm` without
the condition on "forgotten". `appendEntries` of a newer term takes the vote off the
file and leaves the old term in it (`raft.cpp:630`); when it refuses the entries it
returns without a second `saveRaftState` (`raft.cpp:665`, 680). A server that restarts
then is in the old term again, with no vote on file, and may vote a second time in it
(`LAB2A.md:251` asks that a server vote once in a term).

## What is not modelled

* Steps 12 and 13 of the plan.
* muduo_cpp11: a failing `accept` (with no descriptor left the listening channel stays
  readable and the loop spins), the callback of the high-water mark, the index
  arithmetic of `Buffer`, the address of a temporary that `send` hands to another loop
  (the model gives it the bytes), the growth of poll's array, the number of a closed
  descriptor being used again.
* The sharded store's snapshots and its servers other than the leader, except for what
  they bring back at a change of leader; the Raft below the shard master.
* MyWebServer and the skip list: see the notes in `PROJECT.json`.
* Text: the words of a file, JSON-like logs, HTTP.
* File descriptors: `serialize` and `deserialize` of `raft.cpp` never close theirs.
* `buttonrpc` and ZeroMQ, except as a server with one handler at a time and calls
  that block; calls are not lost unless a server dies.
* Virtual memory: `SystemAlloc` gives regions side by side and never fails.
* Third-party code.

## How to run

In this directory:

    tlc -config RaftVotes.cfg Raft
    tlc -config MemoryPool.cfg MCMemoryPool
    tlapm MapReduceProofs.tla
    tlapm TcpReleaseProofs.tla

`PROJECT.json` names the module and the configuration of every run. The longest
runs take two to four minutes on two cores. The longest proofs on four are
`RaftCommitProofs` (ten minutes), `RaftProofs` (seven), `TcpServerProofs` and
`KvServerProofs` (five each) and `TcpReleaseProofs` (three).
