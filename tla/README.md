# DistCache in TLA+

A formal model of DistCache, a key-value node in C++: an LRU cache with TTLs, a
write-ahead log, a snapshot file, simulated client threads behind a circuit
breaker, and the helpers around them (hash ring, node discovery, metrics,
dashboard, RESP parser). The modules are translated from the source under `src/`;
TLC checks them on small instances and TLAPS proves the main invariants for every
instance.

    tlasany LRUCache.tla                             # parse
    tlc -config LRUCache_safety.cfg MCLRUCache.tla   # model-check one run
    tlapm LRUCacheProofs.tla                         # check the proofs

`PROJECT.json` lists the runs, the source lines each definition stands for, the
mutated definitions that show each property can fail, the findings, the hazards
and the theorems.

## 1. Inventory

One process runs these threads: main, which recovers the state, starts the others
and then polls `shutdown_requested`; one server thread, which starts three client
threads; one thread each for discovery, dashboard and cleanup. There is no socket
anywhere: requests, heartbeats and the dashboard are simulated.

| Part | State | Operations | What it touches | Correct when |
|---|---|---|---|---|
| **LRU cache** `storage/LRUCache` | `cache_`, `lru_`, `lru_map_` (keys to list iterators), `hits_`, `misses_`, `mtx_` | `set`, `del`, `cleanup_expired` (exclusive); `get`, `exists`, `size` (shared); `hit_rate` (no lock) | called by recovery, clients, the cleanup thread | containers agree, so no erase uses a stale iterator; capacity holds for every observer; each method acts atomically; the loops under the lock end; the least recently used entry goes first |
| **Write-ahead log** `storage/WAL` | the stream `wal_file_`, the file | `append` (flushes), `replay`, `sync`, `truncate`, `append_binary` | called by clients, recovery | an acknowledged write is replayed; the order of the log is one the writes can have had |
| **The node** `main.cpp`, `network/TCPServer` | threads, `shutdown_requested`, `connection_count_` | recovery; `handle_client_simulation`, `process_command`; cleanup thread; shutdown | cache, log, snapshot, breaker, ring, metrics | a restart gives back what was served; reads are neither stale nor unjustified misses; shutdown completes |
| **Circuit breaker** `patterns/CircuitBreaker` | `state_`, `failure_count_`, `last_failure_time_`, `success_count_` (never read), all atomics or words without a lock | `allow_request`, `record_success`, `record_failure` | called by clients, read by the dashboard | a full count trips it; open lasts the timeout; open and half open end; only documented transitions happen |
| **Persistence** `storage/MMapPersistence` | `snapshot.dat` | `snapshot`, `load`, `async_snapshot`, `backup_file`, escaping | `load` is called by recovery; nothing in the node calls the rest | a snapshot loads as what was saved; a crash in one leaves the old one or the new one |
| **Hash ring** `cluster/HashRing` | `ring_`: hash to node | `add_node`, `remove_node`, `get_node`, `get_all_nodes` | the owner of a key is printed, no request is routed | removing a node moves only its own keys |
| **Node discovery** `cluster/NodeDiscovery` | `known_nodes_`, `nodes_mutex_` | `broadcast_heartbeat`, `listen_for_heartbeats` (without the mutex), `add_seed_node`, queries | its own thread, once | dead nodes are noticed, live ones are not dropped |
| **Metrics** `monitoring/MetricsCollector` | three atomics, a map of atomics | `record_latency`, `increment_counter`, `record_active_connections` | client threads and the cleanup thread | a sample is lost only to one that overlapped it; the counters agree with one another |
| **Dashboard** `monitoring/HttpDashboard` | none | `start`: an endless loop | breaker, ring, metrics | everything else ends when it should, though it does not |
| **RESP parser** `network/RESPParser` | none | pure functions | constructed by main and never called | what it serialises reads back as what it was given; the words of a command are found |

**What is hard here.**

- *Inside the cache.* `lru_map_` holds iterators, and every erase dereferences
  one without looking. `set` overshoots the capacity before it evicts.
  `evict_lru` returns at once on an empty list, so the loop that calls it would
  spin for ever, lock held, if the map and the list ever disagreed. `get` writes
  to an entry under the shared lock, and leaves the recency list alone.
- *Between cache and log.* `process_command` changes the cache under one mutex and
  appends to the log under another. Between the two halves other clients read the
  value, other writers overtake, and the process may be killed.
- *Recovery.* Snapshot, then log, into a cache that evicts while it fills, and
  without the TTLs, which are in neither file.
- *Errors.* `append` never looks at the state of the stream it has written to.
- *The breaker.* Its loads and stores are separate; the decisions taken from a
  load are carried out after other threads have moved on.
- *Start-up and shutdown.* A thread that cannot be created ends the process. A
  signal may come at any moment after. main joins a thread that never returns.
- *The metrics.* `record_latency` loads and stores, `increment_counter` inserts into
  a `std::map` that other threads walk; the count of connections is read by one
  thread and recorded a step later.
- *The table of nodes.* One function writes it without the mutex the others hold,
  and the clock goes on between its readings.

The list with lines, and the properties that watch each item, is in
`PROJECT.json` under "hazards".

## 2. Modules

| Module | Models | Uses |
|---|---|---|
| `Entries` | expiry, lookup and erasure in a sequence of entries: the pure operators | |
| `CacheOps` | insertion with eviction, the TTL, and the constants they depend on | `Entries` |
| `BoundedStore` | **abstract**: a bounded sequence of entries with atomic operations | `CacheOps` |
| `LRUCache` | `LRUCache.cpp` with its lock, lists and iterators; implements `BoundedStore` | `CacheOps` |
| `CacheNode` | recovery, clients, `process_command`, log, cleanup thread, kill and restart, over the cache as `CacheOps` gives it | `CacheOps` |
| `CircuitBreaker` | `CircuitBreaker.cpp`, one load or store a step, driven as the clients drive it | |
| `TextLines` | reading a text by lines, as the log and the snapshots do | |
| `WALFile` | `WAL.cpp` down to the text of `wal.log`: buffer, torn lines, errors, `truncate` | `TextLines` |
| `Persistence` | `MMapPersistence.cpp`: escaping, `load`, snapshots by several threads | `TextLines` |
| `HashRing` | `HashRing.cpp` over any hash function | |
| `MetricsCollector` | `MetricsCollector.h`, one load or store a step, and the race on the map of counters | |
| `Lifecycle` | the process from start-up to the joins of main: the threads of `main.cpp`, `TCPServer::start`, the clients and what they report | `MetricsCollector` |
| `NodeDiscovery` | `NodeDiscovery.cpp`: the table of heartbeats, its mutex, and the listener without it | |
| `RESPParser` | `RESPParser.cpp`: pure operators, checked against a reader of the protocol | |
| `MC...` | definitions for TLC | the module it names |
| `SequenceLemmas` | induction and recursion over the naturals, and lemmas on the entries of a cache and the lines of a text | `Entries`, `TextLines`, `TLAPS` |
| `ClusterProofs` | theorems about `HashRing` and `NodeDiscovery` | both, `TLAPS` |
| `TextProofs` | theorems about `Persistence` and `RESPParser` | both, `SequenceLemmas` |
| other `...Proofs` | theorems and proofs | the module it names, `TLAPS`, and `SequenceLemmas` for the cache and the log |

Operators named `...Without...`, `...TooEarly` and the like, under a comment that
begins with "Mutant", are mutated forms of the definition that follows them. No
specification uses them.

### LRUCache

State: `cache`, `lru`, `lruMap`, `hits`, `misses` are the members of the class.
`writers` and `readers` are the holders of `mtx_`. A list node is an address and a
key; an iterator is an address, so that a stale one is a value like any other, and
the allocator may hand out a freed address again. Per thread, `pc`, `call`, `reg`
(the one local variable that matters) and `reply`. `TypeOK` says of these that each
step which touches the containers runs under the lock its method takes, that an
exclusive holder is alone (`LockDiscipline`), and that an answer is one to the call
the thread is in (`Replies`, `Answered`).

A method is a lock acquisition (`LockUnique`, `LockShared`, `CallHitRate`), the
steps of its body and `Return`, which delivers the answer and releases the lock.
`set` is `SetStore`, then one `Evict` per round of its loop; `cleanup_expired` is
`SweepStart`, which reads the clock, then one `Sweep` per erased entry, in any
order, as the buckets of the hash map come in any order; a `get` that hits is
`GetHit` and `Touch`, with the write of `access_time` in the second; `hit_rate` is
`LoadHits` and `LoadMisses`. While a method holds the lock exclusively its bodies'
steps could be merged without loss; they are separate because the loops are what
`LoopsMakeProgress` is about, and because the refinement has to say when an
operation takes effect.

`BoundedStore` is the promise: one sequence of entries, most recently set first,
and operations that take effect at once. `PromisedStore` and `PromisedReply` map a
state of `LRUCache` to one of `BoundedStore`: a set has happened when its entry is
stored, however many evictions remain; a cleanup has happened when it has read the
clock; a hit has its answer when it finds the entry alive. `BoundedStore` evicts in
the order of *writes*, which is what the code does; that a read ought to refresh an
entry is stated apart, as `EvictsLeastRecentlyUsed`, and does not hold.

`hit_rate` is a pair of integers in the model (its quotient is what the code
returns), and is not part of the promise: `RateNotFlattered` says what is true of
it. An integer TTL of zero or less stands for the 24 hours, as in the code
(`ExpireTime`); times are the clock's ticks.

### CacheNode

State: `store` is the cache, as the sequence that `BoundedStore` justifies; `log`
the complete lines of `wal.log`; `stream` the error state of `wal_file_`; `phase`
and `pos` the progress of main through the snapshot and the log; `pc`, `cmd`,
`answer`, `issued` the client threads. `acked` and `history` are history variables:
no guard reads them.

`Recover` is one iteration of one of the two recovery loops of main, `Serve` the
start of the threads. A client makes a request (`Begin`), does the cache half
(`Update` or `Read`), the log half (`LogAppend`) and prints the answer (`Reply`).
`Kill` takes the process away at any point, recovery included, and starts the next:
memory is gone, and the flushed lines are not. A refused line sets the stream's
error bits, which nothing clears, so that all later lines vanish too.

A value names the request that wrote it, so that the properties can tell values
apart. The breaker is not in the way here: `process_command` reports a failure
only when something throws, and nothing it calls throws while `wal_file_` is open,
which it is from the constructor on, `truncate` never being called by the node.
The clients therefore never trip it. `sleep_for` and the printing of the ring's
owner are left out; the metrics are in `Lifecycle`.

### CircuitBreaker

One action per load or store, in the order of the code, including both loads of
`state_` in `record_failure`, and the two stores of `transition_to_closed`. A
client thread calls `allow_request`, then has its command succeed or fail
(`Process`), and records that. `failures` and `elapsed` stop counting at
`Threshold` and `Timeout`, because the code compares them with these only by `>=`;
this makes the state space finite without a bound on the number of requests. The
bounds in `TypeOK` are the model's for that reason; what it says of the code is that
no crossing of increments and resets makes a count negative.
`success_count_` is written and never read, and is left out. `last_failure_time_`
is a plain 8-byte word, which the targets load and store in one piece.

### TextLines and WALFile

`WALFile` opens what `CacheNode` takes for granted, that the log is a sequence of
lines. `file` is what the operating system has of `wal.log`, `buffer` what
`wal_file_` has not written yet, `stream` its error state, `current` the `append`
that holds `wal_mutex_`. The text is a sequence of cells: an operation, a key, a
word of a value, a space, a newline. Two words without a space between them are
one word, as in `SETDEL k1`, which is how a line glued to a torn one reads.
`Parse` is `replay`'s splitting of a line, with the one space it trims.

`Lines`, which snapshots are read by too, says what the loop around `getline` finds
instead of how: a line that is not empty *ends* at a character that is no newline,
with a newline or nothing behind it (`LineEnds`), and begins behind the newline
before (`LineBegin`). `SeparatorAssumption` is what the client threads guarantee,
whose keys and values are "key" or "value" and a number (`TCPServer.cpp`, lines
43-46): no key is a space or a newline, and no value contains a newline. A value
may contain spaces, which `replay` provides for, and the run has one that does.

`append` is `AppendBegin` (the mutex, `ensure_file_open`, the line composed in the
buffer), `Overflow` for a line longer than the buffer, and one of three ends: the
line is written (`AppendEnd`), the disk takes a part of it or nothing
(`AppendRefused`), or the stream was bad before and takes nothing
(`AppendIgnored`). It returns in all three as if all were well; only a file that
cannot be opened again after a failed `truncate` makes it throw (`AppendThrows`). That
no append goes on with the file closed is part of `TypeOK`.
Whether `flush` on a bad stream retries what the buffer kept differs between
versions of the standard library, and both are possible here (`FlushBad`).
`CacheNode` has the version that does not retry. `lines`, `written`, `tears` are
history: the records written whole on a line of their own, the number of those
written without an error, and of those that may have left a part of themselves.

### Persistence

The file is a sequence of characters and a map a set of pairs. A writer empties
the file (`Begin`), writes its text over it from its own position in pieces of any
length (`Write`), and is done (`End`) or told of an error (`Fail`). Any number of
writers may be at it, as `async_snapshot` detaches a thread per call; a piece
written beyond the end of a file that another has emptied leaves a hole (`Over`).
`EscapedChar` and `Plain` are the two `switch` statements, with `Codes` their cases;
`Escaped` and `Unescaped` are character for character those of the code, since the
property is about them. `Load` says what the loop of `load` leaves in its map: a
line with a space in it gives a key and a value, and of two lines for one key the
last wins. `Character` is what keys and values are made of, any set at all.
`author`, `alone` and `complete` are
history: the map the file was last emptied for, whether its writer has been the
only one since, and whether it has finished.

### HashRing

`ring` is the sorted map `ring_`; its order is that of the integers. The hash
function is arbitrary: `RingInit` chooses for each node the hashes of its virtual
nodes, and those of different nodes may coincide, as `ring_[hash_val] = node_id`
overwrites without looking. `members` is history. `Owner` is `get_node`,
`lower_bound` and the wrap included, for the hash of a key. `print_ring_status` and
`get_all_nodes` only read.

### MetricsCollector and Lifecycle

`MetricsCollector` has the methods, one load or store a step; its callers' `pc` says
where they are. Latencies are counted, not measured: every sample adds one to
`total`. `increment_counter` is `Find` and, for a new name, `Insert`. A step on the
map while another client is inserting is a data race: the process may end, or go on
with a map of which nothing more is claimed (`Undefined`, `Races`). `samples`,
`lone`, `alone` and `raced` are history.

`Lifecycle` composes it with the threads. `main` is a counter through `Start` (four
times, in the order of the code), `WaitForShutdown` and `Join` (four times). `Signal`
comes at any moment, or never. A thread that cannot be created ends the process
(`StartFails`), since the exception passes joinable `std::thread`s. The server
spawns and joins the clients; a client connects, makes `Rounds` requests and
disconnects. A request is allowed or blocked and succeeds or fails by free choice:
what decides is in `CircuitBreaker` and `CacheNode`, and here every outcome is
possible. The cleanup thread reads `connection_count_` and records it one step
later. The dashboard reports for ever, which changes nothing; discovery is one
step, as `NodeDiscovery` has its inside.

### NodeDiscovery

`age` and `alive` are `known_nodes_`: a time is kept as its distance from now, and
stops growing where the code can no longer tell it from an older one. A thread
broadcasts (`Broadcast`, then the exchange, then the cleanup, all under `mutex`) or
listens (the exchange alone, without it). The exchange visits the nodes in any
order; a heartbeat is heard (`Hear`, which writes the time, then `Revive`, which
writes the flag) or not (`Miss`). The cleanup compares (`Judge`) and writes (`Bury`)
in two steps. Each loop reads the clock once, at its beginning, and `Tick` goes on
meanwhile, `MaxLag` times at most. Any thread may call `add_seed_node`; beside a
listener the insertion is a data race and may end the process. The queries only
read. `raced` and `judged` are history.

The program itself runs one broadcast and one listening in one thread, and never
adds a node: there the table has a single entry. The module is about the class,
which takes a mutex because it is meant for more than that.

### RESPParser

Strings are sequences over an alphabet of what the functions tell apart: two
letters, the space, the tab, CR, LF and the two prefixes. The operators bear the names of
the functions. `FirstReply` and `ReadReplies` are not in the repository: they are a
client that reads replies by the protocol, one after the other, and what the
serialisers are checked against. `raw` runs through all strings up to `MaxLength`
(`RespSpec`).

## 3. Runs

Every property of a passing run has a mutated definition that breaks it under the
same configuration.

| Run | Instance | Shows |
|---|---|---|
| `lru_safety` | 2 threads, 3 keys, 2 values, capacity 2, 3 nodes, TTL short or default, all methods | `TypeOK`, `ContainersAgree`, `WithinCapacity`, `RateNotFlattered`, `LoopsMakeProgress`, and that `LRUCache` implements `BoundedStore` (`ImplementsBoundedStore`) |
| `lru_recency` | 1 thread, 3 keys, capacity 2 | **violated**: `EvictsLeastRecentlyUsed` |
| `node_recovery` | 3 clients with 1 request each, 3 keys, capacity 2, a snapshot of one key, 2 kills, reliable disk, entries that expire | `TypeOK`, `AckedIsLogged`, `LogKeepsRealTimeOrder`, `ReadsNotStale`, `MissesAreJustified`, `RecoveryIsExactInOrder` |
| `node_two_writers` | 2 clients, 1 key | **violated**: `RecoveryIsExact` |
| `breaker_races` | 3 threads, threshold 2, timeout 2, with fairness | `TypeOK`, `FullCountTrips`, `CoolingLastsTheTimeout`, `OpenEnds`, `HalfOpenEnds` |
| `breaker_transitions` | 2 threads | **violated**: `FollowsTransitions` |
| `wal_file` | 3 appends, 1 key, the empty value and one of two words, 2 faults, 1 kill | `TypeOK`, `WholeLinesSurvive`, `DamageIsBounded` |
| `snapshots` | 2 writers, 3 snapshots of a map of one key or of two with a space, a backslash and an `n` in them, 1 fault, 1 kill | `TypeOK`, `SnapshotLoads`, `CutShortIsAPart` |
| `ring` | 3 nodes with 1 or 2 places each out of 6, every placement | `RingTypeOK`, `RingMatchesMembers`, `OnlyTheNodesKeysMove` |
| `lifecycle` | 2 clients with 2 requests each, a signal at any moment or none, with fairness | `TypeOK`, `ServerLeavesNothing`, `LoneSamplesKept`, `ReportsAddUp`, `AllButDashboardEnd`, `GaugeCatchesUp` |
| `discovery` | 2 threads, 2 peers, timeout 2, loops that take up to 1 tick, with fairness | `TypeOK`, `DeadMeansSilent`, `AliveMeansRecent`, `SilentNodesDie` |
| `resp` | every string of up to 5 characters of 8 | `StringsReadBack`, `LinesReadBack`, `WordsAreRead` |

### What the violated runs show

Each states what the documentation or a test of the repository says, and its
counterexample is an execution of the code.

- **EvictsLeastRecentlyUsed** (`LRUCache.cpp:6`). `set a; set b; get a; set c`
  evicts `a`. `update_lru_on_access` is declared and has no definition.
  `tests/test_LRUCache.cpp:88` expects the other victim.
- **RecoveryIsExact** with two writers (`TCPServer.cpp:82`). The two take the cache
  in one order and the log in the other. Until a restart the node serves one
  value, afterwards the other.
- **FollowsTransitions** (`CircuitBreaker.cpp:61`). A thread sees half open after a
  success; another fails and opens the breaker; the first closes it, at once and
  with the count reset. The node's own clients do not reach it, see above; the
  class on its own does.

More was seen on the way and has no run of its own.

- A refused line (`WAL.cpp:34`): `append` does not look at the stream, and the
  answer is OK all the same. With `MaxFaults` 1 in place of 0, `node_recovery`
  violates `AckedIsLogged`; `main.cpp:92` says "Write-Ahead Logging for
  durability".
- The endless dashboard (`HttpDashboard.cpp:13`, joined at `main.cpp:108`): main
  never gets to "Shutdown complete". `AllButDashboardEnd` says just how far it
  gets: to that join, with every other thread ended.
- `record_latency` calls itself a "Simple atomic operation"
  (`MetricsCollector.h:10`). It is two, and samples get lost. What does hold is
  `LoneSamplesKept`.
- The map of counters (`MetricsCollector.h:17`) is raced by the program's own
  clients, whose first requests all insert. `ReportsAddUp` therefore says nothing
  of the executions in which a step on the map met an insertion.
- A listener beside a broadcast (`NodeDiscovery.cpp:33`) may have its heartbeat
  between the comparison of the cleanup and its write, and the node is reported
  dead although it was just heard of. `DeadMeansSilent` without its condition is
  violated so. The program does not run the two at once.
- `parse` does not read what `serialize_array` writes: it skips counts and lengths
  without looking (`RESPParser.cpp:41`), as its comments admit.
- `get` writes `access_time` under the shared lock (`LRUCache.cpp:21`), so that two
  readers of one key race; nothing reads the field.
- The log is written *behind* the cache, by one step (`TCPServer.cpp:82`): a value
  is readable before it is logged. The property that does hold, `ReadsNotStale`,
  speaks of acknowledged writes only.

### What the file runs show

`WholeLinesSurvive` and `DamageIsBounded` hold with every mixture of kills and
refused lines: `replay` needs no checksums to get back the lines that are whole,
because a damaged line can only swallow the one glued to it. They do *not* say that
the damage goes unseen by the cache: a glued line still parses, as some operation
main ignores or a `SET` of a garbled key, and `main.cpp` does not check it.

`SnapshotLoads` and `CutShortIsAPart` are all that a snapshot gives. There is no old
snapshot to fall back to after a kill: the file was emptied first. `load` cannot
tell a part from the whole, and the value at the cut is a prefix of the true one,
possibly with the escape cut in half. Two writers at once leave a mixture, of which
nothing is claimed but that the next undisturbed snapshot replaces all of it.

### Bounds, and why they are enough

*LRUCache.* The interactions are between one exclusive holder and one reader or
unlocked reader, or between two readers; a third thread repeats one of these. Three
keys for a capacity of two make every kind of victim occur (the oldest, an expired
one, one just rewritten). As many nodes as the list can hold at its longest means
every allocation but the last must reuse a freed address. `MaxTime` 2 with TTLs of
1 and 3 gives entries that are alive, at their expiry instant, and expired; the
cleanup's stale reading of the clock occurs. `MaxLookups` bounds the counters,
which otherwise make the space infinite.

*CacheNode.* Three clients are two that write and one that reads or evicts; each
makes one request, before or after either kill, so that requests of different
processes come in every order of beginning and acknowledgement. Three keys for a
capacity of two make evictions, live and in recovery; the snapshot's key can be
overwritten, deleted, evicted and come back. With `DefaultTTL` 0 and `MaxTime` 1 an
entry is alive at its own instant and expired at the next, so expiry meets every
other step. The second kill interrupts the recovery from the first. The proofs have
no such bounds.

*WALFile.* Three appends: one torn, one glued to it, one whole after them; with two
faults and a kill there are two tears in a row and one on either side of a
`truncate`. The value of two words is the one whose own space must survive
`replay`.

*Persistence.* Of three snapshots two can be mixed before the third has the file
for itself. The two-key map has a cut inside either line, and its second line's
escapes can be cut in half. `\` followed by `n` is the string that confuses an
unescape that looks at a character twice.

*HashRing.* Three nodes: one that owns a place, one that collides with it, one that
is neither. Six hashes for up to two places each give every order of the places,
keys before, between and behind them, and full collisions.

*CircuitBreaker.* Three threads: one that counts, one that resets and one that
checks the timeout. With threshold 2 a count can be partial, full and forgotten.

*Lifecycle.* Two clients are what every race of the metrics takes: one loads and
the other stores, one inserts and the other looks. Two requests each give a request
that overlaps nothing after one that did, and a name that is new or known.

*NodeDiscovery.* Two threads: one in the exchange or the cleanup, one listening; two
peers, of which one is heard and the other not, or one buried and the other
revived. Timeout 2 with loops of up to a tick is the shortest that lets a heartbeat
grow old while it is being written and not be dead at once.

*RESPParser.* Five characters hold two words with the space between them and a blank
at either end, or two CR LF. The third item of an array is three times as long, so
that lengths have one digit and two. The proofs about replies have no such bound.

### Fairness, and why the code justifies it

`LRUCache` needs none: that its loops end is stated as `LoopsMakeProgress`, that
every change made while one runs leaves fewer entries.
`Lifecycle!FairSpec` has weak fairness for main, the server, discovery, the cleanup
thread and each client: the scheduler runs threads that can run, and what they wait
for is `sleep_for` or a join. A signal need not come. Nothing is assumed of the
dashboard, and the crash of the process is an outcome both properties allow.
`NodeDiscovery!FairSpec` has weak fairness for a loop once begun, and nothing else:
a thread inside `broadcast_heartbeat` or `listen_for_heartbeats` waits for nobody.
Nobody is assumed to broadcast again, and main calls it once. `SilentNodesDie` is
therefore about each broadcast: the nodes that are out of time while it runs are
reported dead by it.
`CircuitBreaker!FairSpec` has weak fairness on the clock, and on the steps of a
thread between `allow_request` and the end of its request: there is no lock to wait
for, and a request ends. It does not say that a client makes another request. The
clients of the server make ten, 500 ms apart (`TCPServer.cpp:34`), and main sets the
timeout to 30 s (`main.cpp:39`), so that a breaker they had opened would stay so: an
open breaker changes only when somebody asks it. `OpenEnds` says so, with "unless no
thread comes to the check of the timeout any more" as its other outcome, and is
about what happens while they do come. `HalfOpenEnds` needs no such exception, as
whoever stored `HALF_OPEN` has yet to report an outcome of its own, and no fairness
between success and failure: either ends half open.

`CHECK_DEADLOCK FALSE` appears where the system stops: a process of `Lifecycle` or
`NodeDiscovery` has crashed, the strings of `RESPParser` are at their longest, clients of `CacheNode` have
made their requests, the appends and snapshots have reached their bounds, the clock of `LRUCache` is at its bound, or the lookups are
used up. The breaker never stops and is checked for deadlock.

## 4. Proofs

All are for arbitrary constants, under the named assumptions of the modules
(`CapacityAssumption`, `DefaultTTLAssumption`, `TTLAssumption`, `NodeAssumption`,
`MethodsAssumption`, `BoundsAssumption`, `ValueAssumption`, `ThresholdAssumption`,
`TimeoutAssumption`, `ClientAssumption`, `RoundsAssumption`, `NodesAssumption`,
`MaxLagAssumption`, `NilAssumption` and the like),
which TLC evaluates in the runs.

**LRUCacheProofs**: `TypeCorrect`, `ContainersAlwaysAgree`, `CapacityRespected`,
`LoopsAlwaysProgress`, `RateNeverFlattered`, `BehavesAsBoundedStore`.
`ContainersAgree` is inductive only with the lock (`LockDiscipline`, a part of
`TypeOK`): the invariant has that a thread inside an exclusive or a shared section
is among `writers` or `readers`, which exclude each other, and adds that there is at
most one entry more than `Capacity` (`Overshoot`), and that a reader between `GetHit`
and `Touch` still finds its key (`TouchedKeyPresent`). `TypeCorrect` needs one more
step on top of it, for the answers (`RepliesStep`, `AnsweredStep`). The lemmas before it say what removing and adding a node
does to a list without duplicates, and what `Forget`, `SetStore` and `Evict` do to
three containers that agree. `LoopsAlwaysProgress` follows from the same invariant:
a thread in a loop holds the lock exclusively, so nobody else is at a step that
changes containers. `RateNeverFlattered` needs that the hits a thread has loaded are
no more than there are (`HitsLoaded`), and a line of arithmetic (`LateMisses`).

`BehavesAsBoundedStore` is the refinement. `RecordsOf` is the sequence of entries
that containers which agree (`Containers`, `Linked`) stand for, `StoreOf` what the
promise sees of it; `StoreWhole`, `LostWithout`, `LostDead` and `PushedRecord` say
what becomes of it when nothing is to be swept or evicted, when a key is erased,
when the erased entry no longer counted, and when an entry is put in front. With
the invariant above and that only a thread about to return has an answer
(`Replies`), each action of `LRUCache` is then shown to be an action of
`BoundedStore` or a stutter, one lemma each: `SetStore`, `Del` and `SweepStart` are
`Set`, `Del` and `Cleanup`; `GetHit`, `GetMiss`, `Exists` and `Size` are the
readers' answers; `Return` is `Receive`; `Evict`, `Sweep`, `Touch`, the lock
acquisitions and both loads of `hit_rate` change nothing that a caller can see.
`Sweep` does not, because what it erases had expired at the reading of the clock;
`Evict` does not, because its victim is the last of more than `Capacity` records.

**CircuitBreakerProofs**: `TypeCorrect`, `FullCountAlwaysTrips`, `CoolingHolds`.
`FullCountTrips` is inductive with the types alone: the thread that makes the count
full is the witness until it has opened the breaker or seen it not closed; a thread
that closes it becomes the witness until its reset.

**SequenceLemmas** has no theorem to list, but what the four modules about the cache,
the log and the snapshots stand on. `Keep`, which `Without` and `Unexpired` are
defined by, `Replayed`, `Unescaped` and the folds of the library are recursive
functions, about which one knows nothing before one knows that they exist.
`LeastNumber` takes from the library that `<` is well founded on `Nat`; `Climb`
makes of it an induction over the elements of a set in place of a predicate;
`Recursion` shows with it that a function defined by its own earlier values exists,
whatever the step. The rest is what the operators of `Entries` do to the entries of
a sequence, to their order and to their keys: what `Keep` returns is numbered by
increasing positions of what it was given (`KeepProperties`), an entry that is not
kept may as well not be there (`KeepSkips`), and sequences that agree in keys and
values stay so (`SameKept`, `SameWithout`); and what the operators of `TextLines`
find: a stretch without a newline, between two of them, is a line, and its place
among the lines is the number of line ends up to its own (`Places`, `LineAt`).

**CacheNodeProofs**: `RealTimeOrder`, `Durability`, `TypeCorrect`,
`ReadsNeverStale`, `MissesJustified`, `RecoveryExact`. The argument of the first: a
request in flight bears a number that was given out when it began, so that no
request that began before it has it in its past (`AllMade`, `InFlight`); what its
line follows in the log was there before, and what is in its own past was
acknowledged, hence is not in flight, hence is not appended after it. The second
assumes `MaxFaults = 0`, without which it is false, and adds to the invariant that a
write about to be answered is in the log (`Durable`).

The other four speak of the cache. `TypeCorrect`, which says among the types that the
cache has one entry per key, takes it from what the operators of `Entries` do to such
a sequence (`NodeTypes`), and adds that the history has what each request does, once
(`Records`). `ReadsNeverStale` and `MissesJustified` follow from one invariant about
every write that the cache has *seen*: replayed in this recovery, or answered, or
done by its client and not yet answered (`Seen`). No value that such a write
replaced is in the cache, and the key that it set is there, with only its rivals in
front of it, or has a reason not to be (`StoreOK`). A replayed log has the same effect
as the requests had because the log keeps the real-time order, and it has every
answered write because the disk took it: hence `MaxFaults = 0`, again needed, as a
restart after a refused line gives back what was replaced. `Rivals` is a set of keys
that only grows, and every key in front of an entry is one of them, so that an
eviction finds `Capacity` of them (`PlaceBound`); `Put` brings one entry to the front
and pushes the others back by no more than the one (`PutEntries`). What a client has read at its
linearisation point stays justified until it is answered (`Answers`).

`RecoveryExact` compares the cache with a replay, up to expiry times, as a replay
gives new ones (`Same`). While the node recovers, the cache is the replay of the
records so far; while it serves and no writes have overlapped, it is the replay of
the log, or, if a client is between its two halves, the replay with that client's
record put behind it (`ReplayOK`). Nothing has expired before `DefaultTTL`, so a
cleanup changes nothing (`NothingExpired`, `Aged`).

**WALFileProofs**: `TypeCorrect`, `WholeLinesReplayed`, `DamageBounded`. The
argument is about places. A record *stands* in the file where its line begins
behind a newline, or at the very beginning, and the whole of it follows (`Stands`);
what stands there stays, whatever is written behind it (`StandsLonger`), and the
line found there is read back as the record (`StandsRead`, `ReadBack`). The
invariant says that the file is a part that is *settled*, which holds all of `lines`
in order (`Holds`), and behind it what the current append has written so far
(`Settled`). Only a write to the end of the line moves the border, and if the settled
part is empty or ends with a newline the record stands there from then on.

For `DamageBounded` the lines of the settled part are counted by their ends: a line
behind a text makes one more at most, and none more if that text is torn, because
it only moves the end of the torn line (`LineAdds`). So a tear pays for one line, its
own or the one glued to it. One case needs a credit: a stream that has turned bad
without writing anything keeps the whole line in its buffer, and the library may
write it at any later flush (`Owed`). The losses need another one: while the file
ends in a torn line, or the current append began behind one, one tear more has been
counted than records lost (`Credit`, `Glued`), which the next record written without
an error spends. Both need that what is in the buffer ends with a newline
(`Buffered`), so that a late flush leaves a clean line.

**TextProofs**, for the snapshots: `TypeCorrect`, `SnapshotsLoad`, `CutShortParts`. The invariant
says that while the writer has had the file for itself, what is in the file is the
beginning of the text of its map, in the order the map came in, and that nobody else
has a text to write (`WrittenSoFar`). Everything hard is in what `load` makes of such
a beginning, for any strings and any number of pairs:

- A text is a sequence of sequences put one behind the other, by a fold. Each of
  them stands between two borders (`FlattenSegments`), which is all the rest uses,
  twice: an escaped string consists of the escapes of its characters
  (`EscapedString`), a text of the lines of its pairs (`TextSegments`).
- No two characters share a code (`CodesAreUnique`), so reading an escaped string
  from its end stops exactly at the borders, with the character that begins there
  (`UnescapedEscaped`). What is escaped contains neither space nor newline: the first
  space of a line is the one between its key and its value (`LineParts`, `CutLine`).
- A line of the beginning of a text is that of one pair, whole unless the text ends
  in it (`LineOfPair`), hence at most one line is not whole. If it has its space it
  has its whole key, and its value is all that can be wrong (`ValidLine`,
  `LoadPart`). If nothing is cut off, every pair is found, and because the keys of a
  map differ no other line overwrites it (`LoadWhole`).

**TextProofs**, for the replies: `StringsAreReadBack`, `LinesAreReadBack`. The
invariant says only that `raw` is a string (`RawInv`), since what is proved is about
functions of it; `MaxLength` does not enter, so it holds for strings of any length.

- `Decimal` and `Number` are recursions that exist (`DecimalsExist`,
  `NumberRecursion`), and one inverts the other: a figure appended is ten times the
  number and the figure (`NumberAppend`), and there is no least number of which
  `Decimal` writes something else (`DecimalRead`).
- Of a prefix, a line and a line end with anything behind them, the client reads
  exactly the line: the first CR LF is the one behind it, also if the line has CRs and
  LFs in it, and even if it ends in CR (`FirstLine`).
- A bulk string may contain whole line ends: the client reads the length first, which
  is a line of figures (`DecimalIsLine`), and then counts (`BulkReply`).
- A text is read to its end if each reply read leaves the next one to read and each
  time less than before (`AllRead`): `ReadReplies` takes as many steps as the text has
  characters, and more than that there are no replies. `Regrouped` and `FlattenThree`
  bring what the serialisers write into that form.

**LifecycleProofs**: `TypeCorrect`, `ServerEndsLast`, `LoneSamplesAreKept`,
`ReportsAlwaysAddUp`. The first needs that `connection_count_` is the number of clients between `Connect` and
`Disconnect` (`Counted`); else nothing bounds it. For the third, every client in
`record_latency` has loaded all lone samples and no more than were stored, and a
client counted as alone is the only one there (`Loaded`). The fourth follows from a
balance at every moment (`Tallied`): requests counted are outcomes counted plus the
clients in between (`Judging`), and the rounds begun are requests, blocked, or on
their way (`Begun`). Rounds are summed over the clients as the size of a set of
pairs (`Made`), which needs no induction and in the end is `Client \X (1 .. Rounds)`.

**ClusterProofs**, for the ring: `RingTypeCorrect`, `RingKeepsItsMembers`, `KeysStay`.
The invariant is `RingTypeOK` and `RingMatchesMembers`, which is inductive: an addition
overwrites places only by a node that has them too, a removal erases only the
node's own. For `KeysStay`, `FirstFrom` is first shown to return *the* place a hash
falls on (`FallsOn`: the least one at or after it, or the least of all if there is
none), which exists because a non-empty set of hashes has a least element; then
that a place a hash falls on stays the one when other places go, and when places
come either stays the one or is beaten by a new one.

**ClusterProofs**, for node discovery: `TypeCorrect`, `DeadAreSilent`, `AliveAreRecent`. Between
the comparison and the write of the cleanup its verdict must stand (`Silence`):
without a listener nobody else writes times. A heartbeat about to be acknowledged is
no older than two loops (`Heartbeats`), which is where `MaxLagAssumption`, that a
loop takes no longer than half of the timeout, comes in. While a cleanup is under
way the nodes behind it are judged by its reading, those before it by the last
one's (`Recent`).

**Assumptions.** Besides the named ones, which say that bounds are numbers, that
list nodes outnumber the capacity, that `Nil` is no request (`NilAssumption`), that
keys and values do not contain the separators of the log (`SeparatorAssumption`), that
a map to be saved is finite and has one value for a key, being an `unordered_map`
(`MapsAssumption`), and the like, three theorems about `CacheNode`, and `Durability`, have `MaxFaults = 0`:
the disk takes every line. It is the condition under which the run `node_recovery`
checks them, and with `MaxFaults` 1 they are false. Kills are not restricted.

**Only model-checked.** `OpenEnds`, `HalfOpenEnds`, `AllButDashboardEnd`,
`GaugeCatchesUp` and `SilentNodesDie` are liveness under fairness, which the prover
does not reach. `WordsAreRead` stays with TLC, too: the pieces of `split` are put in
order and sieved by `SetToSortSeq` and `SelectSeq`, whose parameters are operators, and
the provers know nothing of what these return. Everything else that a passing run
checks is proved. The violated properties are TLC's, being false.

## 5. Not modelled

- `append_binary` with msgpack, which the default build leaves out, and whose
  output `replay` does not read; a kill of the *machine*, which may take lines that
  were flushed to the operating system and never synchronised. `Kill` is the death
  of the process.
- `backup_file`, `file_exists`, `get_file_size`; an `async_snapshot` that outlives
  the object it captured. The node writes no snapshots.
- What the program prints, and that `signal_handler` prints.
- How long anything takes: `sleep_for` and the latencies are steps and counts.
- Routing, replication and load balancing, which the documentation names and the
  source does not contain. Methods that are declared and not defined.
- Memory exhaustion, and exceptions from allocation.

## 6. Plan

Done: every component has its module, and the theorems of section 4. What is left,
in order of importance:

1. `CacheNode` composed with `CircuitBreaker`: an `append` that throws is the one
   failure a client can report.
2. `backup_file` beside snapshots: that a backup taken while nobody writes stays
   whole whatever happens to the snapshot. It multiplies the states of `snapshots`
   beyond what a run can do as `Persistence` is now; pieces of whole lines would
   help.
3. `Lifecycle` with the loops of `NodeDiscovery` in place of the step `Discover`,
   should main come to call it more than once.

Proofs to add: that the words of a command are read (`WordsAreRead`), with the
delimiters numbered in their order by `Keep` and `Numbers` of `SequenceLemmas` in place
of a sorted set.
