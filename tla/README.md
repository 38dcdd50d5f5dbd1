# Formal model of fivem-ebpf

TLA+ modules, TLC runs and TLAPS proofs for the XDP filter in this repository.
`src/...` paths below are relative to the repository root.

## 1. The system

fivem-ebpf protects a FiveM server. An XDP program looks at every packet for the game port and decides
whether it passes; a sockops program hears of finished handshakes and closed sockets; both share pinned BPF maps.
A Go daemon loads and attaches the programs and serves metrics and a read-only API; a CLI reads and clears the maps.

| Component | State | Operations | Hard behaviour | Correct when |
|---|---|---|---|---|
| XDP program `bpf/fivem_xdp.bpf.c` | ten LRU maps keyed by source address, a per-CPU bucket, stats | one handler per packet, about twenty return statements | handlers of one source overlap on several CPUs without locks; LRU eviction of any entry; u64 arithmetic | UDP passes only for earned, fresh, healthy sources within their rate; each verdict counted once |
| Rate limiters (`ratelimit_take`, `tcp_global_ratelimit_take`) | tokens, instant of last refill | take | integer division over long histories; entry created, evicted, created again | never refuses a source within (rate, burst), never lets through more than one packet above it, but for a burst after each eviction |
| Sockops program `bpf/fivem_sockops.bpf.c` | `tcp_established`, `tcp_open_count` | handshake finished, socket closed | check-then-decrement; sockets older than the program | the count is the number of open sockets |
| Loader `internal/loader` | links, maps, pins | Load, Close, reset of `tcp_open_count` | steps that fail half way; crash and restart with pinned maps; order of attachments | attached completely or not at all; state survives a restart |
| Rate configuration (`periodNS`, `perCPU`) | - | pure arithmetic | rounding to 0 and to 1 | the rate enforced is the one configured |
| Daemon `cmd/fivem-ebpf/run.go` | ticker, HTTP server, signal | start, serve, shut down | shutdown timeout against running handlers | maps outlive their readers; shutdown ends |
| Metrics collector `internal/metrics` | cached sizes | refresh ticker, scrape | stale or missing values between refreshes | a gauge catches up with a map at rest and never counts fewer keys than stayed |
| Map walks `internal/bpfmaps`, `clear` | cursor | NextKey walk, delete | walk and deletion against insertions, evictions and moves | every key present throughout is visited; walks end |
| API and CLI readers `api.go`, `dump`, `top`, `inspect`, `health`, `info`, `stats` | - | one report: clock, walk or lookup, rows | clock, key and value are read at different instants of a map that changes; aborted walks; counts that raced below zero | no source that stayed is missing; each row true of a value it held |
| Installer, systemd unit | files | install, upgrade | - | not modelled |

Interaction: the XDP program and the sockops program share `tcp_established` and `tcp_open_count`. A POST /client with a
valid user agent promotes a source into `tcp_whitelist` if `tcp_established` knows it. UDP passes only for a fresh
`tcp_whitelist` entry, which every accepted packet refreshes. Malformed UDP fills `udp_health`, which blacklists.

## 2. Modules

| Module | Models | Kind |
|---|---|---|
| `RateLimit` | arithmetic of the two take functions | pure operators |
| `LimiterEntry` | one entry of a rate limiting map: first request, accept, refuse, evict | abstract specification |
| `RateConfig` | what `loadXDP` makes of the options: periods, shares per CPU, constants of the XDP program | pure operators |
| `TokenBucket` | `LimiterEntry` with two reference buckets, a strict and a generous one, for the life of an entry, and a count of packets and evictions from any instant on, in history variables | what a limiter promises a source |
| `XdpFilter` | both BPF programs and all maps; one action per return statement of the XDP program, per sockops callback, plus eviction and the clock | the system |
| `WhitelistHistory` | `XdpFilter` with a record of who did what | observer of `tcp_whitelist` |
| `OpenSockets` | properties of `tcp_open_count` against the kernel's sockets | observer of the cap |
| `HealthHistory` | `XdpFilter` with a record of malformed payloads | observer of `udp_health` |
| `Accounting` | `XdpFilter` with a count of packets and requests; the summaries `info` and `Collect` make of the stats | observer of stats and `ip_drop_history` |
| `Observers` | `HealthHistory` and `Accounting` as one specification | composition |
| `XdpLimiters` | `XdpFilter`'s limiters as instances of `LimiterEntry` | refinement |
| `CpuSteps` | clock, program counters and arrivals of handlers that run on several CPUs | shared base |
| `CpuRace` | the accesses of UDP and TCP handlers on several CPUs to one source's whitelist entry and UDP bucket | step-level concurrency |
| `Overlap` | the accesses of handlers that drop: `udp_health` and `ip_drop_history` | step-level concurrency |
| `Races` | `CpuRace` and `Overlap` as one specification | composition |
| `Restart` | `Load` and `Close` step by step, each step's failure, crash and restart, against the sockops callbacks access by access on several CPUs | step-level concurrency, crash recovery |
| `Sums` | sums of counters, as cardinalities of the units they stand for | shared operators |
| `BucketMap` | the keys of a BPF hash map in the kernel's order, and `NextKey` | shared base |
| `KeyWalk` | NextKey walks of a map that changes; `fivem-ebpf clear` | component |
| `MapReport` | one report on a map, by any of the 24 functions that make one, one system call per step, while programs and kernel change the map | component |
| `StatsReport` | `ReadStats`, slot by slot and CPU by CPU, while requests are counted | component |
| `Reports` | `MapReport` and `StatsReport` as one specification | composition |
| `Daemon` | main, HTTP server and handlers, size ticker, shutdown; extends `KeyWalk` | composition, liveness |
| `TokenBucketProofs`, `XdpFilterProofs`, `LimiterProofs`, `SourcesProofs`, `RecordsProofs`, `RacesProofs`, `RestartProofs`, `DaemonProofs` | theorems | proofs |
| `MC*` | TLC instances | model checking |

How code becomes model:

* A BPF hash map is a function whose domain is the keys present: `Put` is `bpf_map_update_elem`, `Forget` a removal, a
  missing key is `NULL`. Fields keep the source's names in TLA+ spelling (`tcp_whitelist` is `whitelist`, and so on).
* In `XdpFilter` a handler is one step. A packet is described by the outcome its contents lead to: an action's guard is the
  conjunction of the conditions that reach one return statement, its effects are everything done on the way
  (for instance a SYN is charged to the global bucket and entered in `tcp_syn_seen` even when its request is refused
  later: `Admit` is part of each of those actions). Whether a payload matches `POST /client`, a GET endpoint, a user agent
  or an ENet header is the packet's choice; no property tells the bytes apart.
* `Verdict` is the common end of every path: it bumps the counters and takes one of the `MaxPerTick` packets of this tick.
* The kernel is `backlog` (handshakes the kernel began on a passed SYN) and `sockets`. Every SYN crosses the XDP program: the model has
  one card, and sockets of SYNs that came through another one, or before the program was attached, are not in it. `Established` and `Closed` are the two
  callbacks with their whole bodies. `HandshakeLost` is a handshake that never finishes.
* `Evict` stands for an LRU map that is full; `Evictable` names the maps that are. It also covers `fivem-ebpf clear --ip`,
  one map at a time.
* `CpuRace` and `Overlap` split a handler at each clock read, load and store. Two plain stores to different words may happen in either
  order and `+=` may reuse the value loaded earlier, because C lets the compiler choose. Subtraction is modulo `Wrap` (2^64).
* `Restart`: links are not pinned, so the set `handles` of what the process has open is also what is attached; a crash empties
  it and leaves the maps. A failing step of `Load` is one step with the cleanup that follows it. Removing an entry
  (`clearMap`, eviction, `clear`, `unpin`) leaves every callback that looked it up with a stale pointer: what it adds or subtracts is
  lost, or lands in the entry that reuses the memory. There is one source, so reuse by another one is not modelled. A callback runs
  with its socket locked: no socket closes while it is being counted.
* `Races`: a source's packets are those of `CpuRace` (`passing`) or those of `Overlap`. The two touch different entries, and what a
  handler carries from one to the other is only that it got there, so no interleaving of the accesses to an entry is lost. The
  packets that `Overlap` drops for other reasons do nothing but record the drop, if the source is known to the handler or to the history. Clock reads whose value is not used afterwards are
  left out. Neither entry is evicted in these modules; what eviction does to single handlers is in `XdpFilter`.
* `BucketMap`: a map is the sequence of its keys in the kernel's order, buckets ascending, the newest element of a bucket first. An
  update of a present key links a new element and so moves it to the head of its bucket. `NextKey` of a key that has gone starts over.
* `MapReport`: `kind` is what the map holds, as in `topMapKinds`; `call` is the function that reports and its arguments; `value` has
  the value of each key. `Store` is a store through a looked up pointer, `Enter`, `Replace` and `Evict` are updates, evictions and
  `clear`; a handler that outlasts the shutdown meets `MapClosed`. `NextKey` and the lookup after it are two steps, as in the library's
  `MapIterator.Next`, which gives up after more keys than the map can hold. The copy one lookup makes is taken to be consistent. Rows
  are records of what the function says of a key; columns, JSON and durations as text are left out. Reports change nothing and share
  nothing, so one report per behaviour stands for any number.
* `StatsReport`: handlers are those of requests, the ones that bump more than one counter. One lookup copies one slot, CPU after CPU.
* `Daemon`: one map stands for the nine that the ticker counts one after the other. A goroutine's blocking call is a guard. The
  loader's steps are in `Restart`; here they are `mapsOpen`.

## 3. Runs

| Run | Shows |
|---|---|
| `token_bucket` | the bucket stays between the two reference buckets, hence no false drop; in any span of time, whatever is evicted, at most one packet above the contract and one more burst per eviction |
| `sources` | whitelist entries are earned (handshake and accepted connect request) and hold the last accepted packet; the cap never counts sockets a source does not hold, is overrun by less than the backlog; stored instants are in the past |
| `observers` | blacklisting needs the threshold within one window, is certain from twice the threshold less one, and lasts as long as configured, no shorter and no longer; every packet ends in one verdict counter that `info` and the metrics put down to its protocol, every POST that is not a bot's in one of its four outcomes; drop history and counters agree |
| `limiters` | three limiters inside the handlers implement `LimiterEntry`, with eviction, on two CPUs, and with every other check on |
| `race` | interleaved on two CPUs: UDP never passes more than the TTL after an accepted packet; buckets stay below burst; the rate holds while one CPU has the source's UDP; nobody is blacklisted without the strikes; of the drops to be recorded, the drop history misses at most one per further CPU |
| `restart` | whatever step fails and wherever the process dies, nothing stays attached; a serving daemon never counts a socket that is not held, misses at most those of the last reset and of callbacks that run, and is below zero by less than the number of CPUs |
| `daemon` | walks lose no untouched key and `clear` leaves only newer ones; the ticker finds the maps open; shutdown, `clear` and the gauge get there |
| `reports` | no report misses a source that stayed; a row is true of a value the source held meanwhile; `top` leaves out only what is no hotter; counters read together are consistent in the order they are read |
| `whitelist_lapsed` | finding 1 |
| `reconnect` | finding 2 |
| `race_expired` | finding 3 |
| `bots_unseen` | finding 4 |

### Findings

1. `config.example` says a player whose TTL ran out has to reconnect. The expired entry stays in the map and any accepted TCP
   segment revives it (`fivem_xdp.bpf.c:364`).
2. `config.example` says the global brake spares players who reconnect. It is charged to and refuses every SYN alike
   (`fivem_xdp.bpf.c:338`).
3. `now - *last` wraps when another CPU refreshes the entry between the clock read and the load; the packet of an active player
   is dropped as expired (`fivem_xdp.bpf.c:437`).
4. The help texts of the metrics say POST and info requests are counted as seen "regardless of verdict" (`collector.go:116`, `126`).
   The drop for a bot's user agent returns before either counter is bumped (`fivem_xdp.bpf.c:370`).
   `RequestsAccountedFor` holds whichever of the two is meant.

One more divergence is plain from the code and has no run of its own. `config.example:57` says threshold bad packets inside the
window blacklist, but windows tumble: strikes on both sides of a boundary are not added up (`fivem_xdp.bpf.c:159`);
`BlacklistComplete` states what does hold.

`BanJustified` excepts `mixed`: the two stores that start a new window may be reordered by compiler or CPU, and an increment of
another CPU that falls between the new start and the zeroed count adds to the anomalies of the window before. Without the exception
TLC finds the blacklisting that follows; in the order of the source it cannot happen. The property also holds with three CPUs, a
threshold of two and four packets, an instance too slow to keep as a run.

`ReportComplete` allows a report to fail, or to name a source twice, only where elements were removed or replaced under it. A
restarted walk over a full map does fail (`ErrIterationAborted`); `clearMap` uses the same iterator in `Load`.

`BurstHeld` is stated for a source whose UDP runs on one CPU. For clients that share an address and land on two CPUs it is false:
both may find no bucket and insert one, or one store may undo the other's charge.

`HistoryNearlyComplete` speaks of the drops that `record_drop` is to record: those of a known source, and those that find a record.
Drops of an unknown source without a record are passed over, any number of them (`fivem_xdp.bpf.c:134`).

`AcceptedConforms` counts evictions, because the first packet after one finds a full bucket (`fivem_xdp.bpf.c:233`): while
`udp_ratelimit` is full, a source whose entry keeps being evicted is not limited by it.

`CountNeverOver` is stated for a daemon that serves. `Load` attaches XDP, then sockops, then resets `tcp_open_count`: for those few
steps the XDP program enforces the cap on counts that a crash left behind, closed sockets included.

### Bounds, views, symmetry

* Time is counted in ticks; TTL, periods, windows are one to three of them, so every expiry, refill, rounding remainder and window
  boundary falls inside `MaxTime`. `MaxPerTick` bounds packets between two ticks; it is no less than each burst and threshold that is on,
  so buckets run dry and thresholds are crossed within a tick as well as across ticks.
* `MCObservers`: strikes fall in three successive ticks, in windows of one, so that the threshold of two is met within a window and
  missed across a boundary; a blacklisting ends, and the TTL runs out, before `MaxTime`.
* Entries of different sources interact only through the per-CPU global bucket, so one or two
  sources suffice. `MaxBacklog` 2 with a cap of 1 gives overshoot; `token_bucket` runs 14 ticks, enough for the entry to fill,
  overflow with each remainder, run dry and recover, and packets are counted from each of its ticks across `MaxEvictions` 2 evictions.
* `MCLimiters` states options, and takes the constants `RateConfig` makes of them for two CPUs and a second of four ticks; the other
  instances give the constants directly.
* Each run switches off what its question does not need (period 0 or cap 0 is the code's own switch).
* A `VIEW` hides variables that no handler and no property of that run reads (each MC module says which). Their values cannot
  influence a step or a property, so states that differ only there behave alike. There are two exceptions. `TypeOK` reads what `MCSources`
  hides; the theorem `TypeCorrect` of `XdpFilterProofs` does not depend on it. And `MCObservers` replaces counters by the
  differences its properties read: handlers add to counters and never read them. `SYMMETRY` permutes sources or CPUs, which no
  definition distinguishes, in runs without liveness.
* `Races`: two CPUs give every pair of overlapping handlers; five packets and four ticks let a window end with
  strikes in it and the next one reach the threshold of three, and a bucket run dry and refill; `Wrap` is above any sum of clock, TTL and tokens that occurs.
* `Reports`: three keys in two buckets and a map that holds three, so that maps are empty, partly filled and full; `MaxChanges` 2
  changes remove or move the key at the cursor, send the walk back to the start, and enter or restore another, which is enough to abort
  a walk. The clock starts at 2, so that instants lie before it and ages of zero and one second occur with `Second` = 2; it may
  move once during a report. Counts start at 0, 1 and one below zero. `top` is asked for all, one and two rows. Two CPUs and two
  requests let a counter of the second request rise behind the scan while one of the first rises ahead of it. `SYMMETRY`
  exchanges the two keys of a bucket.
* Deadlock is not checked where `MaxTime` and `MaxPerTick` end the behaviour; the code itself never waits. `MCTokenBucket` checks it.

* `Restart`: three CPUs, so that a stale pointer, a callback that enters the entry anew and a third one overlap; five sockets, so
  that sockets of before and after a reset coexist; `MaxCount` 4 bounds what failed starts add up. `UndercountBounded` needs the third
  CPU to be broken.
* `Daemon`: three keys, two of them in one bucket, from every map and order they allow; `MaxChurn` 2 changes on top of the deletions
  of `clear` move, remove or enter the cursor's key while two walks are under way. One handler (`MaxHandlers`) that may never answer is
  what shutdown has to survive. Deadlock is not checked there, as the process ends.

### Fairness

Only `Daemon` states liveness. Weak fairness holds for main's steps (`ServeError`, `Main`), the timers (`Deadline`, `TimerFires`), the walks
(`CountKey`, the steps of `clear` once started): the Go scheduler and the runtime's timers run what is ready. `StopTicker` has strong
fairness: its `select` chooses at random between the timer and `ctx.Done()`, so it cannot prefer the timer for ever. Nothing makes a
signal arrive, a server fail, a client ask or a handler answer. That walks end is a consequence of `MaxChurn`: a map whose
cursor key is evicted again and again would keep a walk going, in the code as well. BPF handlers do not block; about them
all properties are safety properties.

## 4. Proofs

All for every value of the constants, under the named assumptions (`ConfigAssumption` and its neighbours: the configuration
consists of naturals). `ReportAssumption` also says that reports begin after boot (`Start` is not 0), that `Wrap` is even as 2^64
is, and that the drop reasons are finitely many.

* `TokenBucketProofs`. `Sandwich` is the inductive strengthening: the integer bucket's credit `tokens * Period + (now - last)`
  lies between the strict and the generous reference bucket; `NoFalseDrop` alone is not inductive, because it speaks of whole tokens
  only and forgets the remainder that `last` carries. `Spent`, behind `AcceptedConforms`, adds to what was let through the credit that
  is left (`Held`): a packet costs a token of it, an eviction restores a full bucket, a tick earns a fraction. It reaches across the
  lives of an entry, which the reference buckets do not. The arithmetic rests on lemmas about `\div` and products (`Worth`,
  `Distributes`, `Monotone`).
* `XdpFilterProofs`. `TypeOK` is inductive by itself: handlers write maps by `Put` and `Forget`, each value put is typed by a
  lemma, and the clock only widens the types. Its content is that every stored instant is past, so that while handlers
  do not overlap no subtraction wraps.
* `LimiterProofs`, the limiters of the handlers. Every handler leaves an entry of a limiting map alone, charges it once by
  `ratelimit_take`, or loses it to the kernel: one lemma per map says so, and each of these is a step of `LimiterEntry` or a stutter.
  `TypeOK` is needed, because an entry whose bucket were no bucket could be mistaken for a missing one. The clock steps with every
  limiter at once.
* `LimiterProofs`, the configuration. Integer division only: a period kept is the longest that grants the configured rate
  (`RateKept`), shares of the global limit add up to it but for less than one token per CPU while it has a token for every CPU
  (`ShareKept`), and both roundings together stay bounded from either side (`GlobalRateKept`). With fewer tokens than CPUs each CPU
  gets one, more than configured.
* `SourcesProofs`, the whitelist. `Earned` adds to `WhitelistEarned` that `tcp_established` knows only sources with a handshake;
  promotion consults nothing else. `WhitelistIsLastAccepted` is inductive.
* `SourcesProofs`, the cap. For any evictions: the count never exceeds the sockets held and `OvershootBounded`. Without eviction of
  counts the count is exact, and the sockets are bounded too.
* `RecordsProofs`, the accounts. A sum of counters is the number of the units they stand for (`SumOver`), a cardinality: a fold would
  need induction over an operator. Each step bumps a known set of slots (`RequestBumps` and its neighbours); `Balanced` says of each
  protocol that its packets are the sum of its slots, `Answered` what the code makes of each kind of request. `Backed` and `Complete`, behind
  `HistoryExplainsDrops`, compare the counts in all histories with the stats: a drop adds to at most one history, and to exactly one
  for an `AlwaysRecorded` reason, whose sources are known. `Backed` survives evictions, `Complete` does not.
* `RecordsProofs`, counters read together. A value read lies between the total its slot had when the scan began and the one it has
  now, CPU by CPU. `Together`, the strengthening of the comparison: a handler bumps a POST before its outcome, on one CPU, and the scan
  reads outcomes before POSTs; so the outcomes read are at most the POSTs read and those the CPUs not yet copied show.
* `RecordsProofs`, health. Three inductive invariants about `udp_health` and the record of malformed payloads. `JustInv`: there are
  strikes in the window of an entry for all its anomalies, and a source that was blacklisted has a window with the threshold of them. `TimeInv`, without
  eviction: no entry ends before a trip of its source plus the duration, and one that has not run out ends at just such an instant. `TrackInv`, without eviction, for a threshold and a
  duration above 0: the strikes of a source since its window began are counted in its entry or followed by a trip; a window of strikes
  spans at most two tumbling ones, so twice the threshold less one cannot miss both. A threshold of 0 acts like 1 in the
  code, a duration of 0 blacklists nobody.
* `RacesProofs`. `Instants`, behind `NoStalePass`: the entry is never later than the last packet let through, so a late store can
  only make the check stricter, and an entry ahead of the clock that was read was refreshed since. `HistoryNearlyComplete` is not
  inductive: it says nothing of handlers between their lookup and their entry. `Records` counts those (`Entering`) that are to be recorded: once a record
  exists, what is lost and what may yet be lost together stay below the number of CPUs, because only handlers that looked when
  there was none can lose theirs, and the one that entered the record did not. `PassTyped` and `DropTyped` type the entries together
  with what each handler has loaded and not stored yet. `Charged` and `PaidFor`, behind `BurstHeld`, speak of tokens and `last` as
  they will be once the pending stores of the one CPU have landed, in whichever order. `Bans`, behind `BanJustified`, counts the
  strikes since the count was last set back; where an increment has fallen between the two stores of a reset (`mixed`) the count
  belongs to no window, which is why the property excepts it.
* `RestartProofs`. `CountBarelyBelowZero` is not inductive: a count of 1 - n with a CPU about to subtract breaks it. `Settled`
  takes the pending subtractions off the count first: what remains stays above -n because a subtraction only begins on a positive
  count. `Covered`, behind `CountNeverOver`, says that in an entry created after `Load` collected the stale ones (`Fresh`), the count is
  at most the sockets flagged, less those that are closing with a stale pointer; `Attached` and `Unflagged` say that meanwhile
  sockops is attached and no socket is flagged before it is counted. One lemma per conjunct, one step per access of a callback.
  `Staged`, behind `LoadAllOrNothing`, ties what is open to the step `Load` has reached. `Owed`, behind `UndercountBounded`, says in
  a fresh entry that the open sockets are at most the count, those held at the reset and those that callbacks are about to add (`Bound`).
  `Capped` keeps the count with what is about to be added to it within its type.
* `DaemonProofs`. `Chain`: the map is a sequence without repetition, bucket by bucket; lemmas say what an update and a deletion do to the
  order of the other keys, and `NextIs` what a walk is given next. A key is `Ahead` of a cursor if it comes after it in the map or,
  when the cursor's key has gone, if its bucket is not an earlier one; a change of another key keeps it ahead (`AheadKept`) and one
  turn of a walk passes one key at most (`AheadNext`). Hence `Collecting` (a key that stayed is collected or ahead), behind
  `ClearLeavesOnlyNewer`, and `Counted` (the keys passed that stayed are no more than were counted), behind
  `CountCoversStayers`. `Closing`, behind `TickerMapsOpen`: main gets past its wait only when the ticker has stopped.
* `DaemonProofs`, reports. The same order lemmas for the walk of `MapReport`. `Telling`: a source that stayed has a row, or held a
  value the report's filter leaves out, or is still ahead of the cursor (and is the cursor itself between `NextKey` and lookup). `Forward`:
  while nothing moves, the keys given are behind the cursor, each once; so rows are distinct, and the iterator's count stays at
  or below the keys behind, which the map's capacity bounds: it cannot abort. Together they give `ReportComplete` for each of the 24
  functions, `Cut` included: a permutation cut at its own length loses no source.
* `DaemonProofs`, rows. `Vouched`: each row so far is what the function makes of a value its source held (`Says`), which depends on
  the clock that was read and no longer on the map; `SaysTrue` turns that into `Tells`, ages included, by division lemmas
  (`WholeSeconds`). `Refused`: who held a value that outlasts the report's clock was refused; this, and so `RowsTrue`, needs
  `HealthBlacklist` above 0. At 0, which the option allows, nobody is ever refused, but a report whose clock is older than the end that
  was stored calls the source blacklisted, with nothing remaining.
* `DaemonProofs`, `top`. `AnswerRanks`: a row cut away comes after all that remain in a sorted order, so each of them ranks as high;
  `RankHeat` shows that `int64` ranks order counts and drops as the property means it, because drops since the report began are few
  (`Few`) against 2^63, and a count below zero ranks below all others.

Every property that a passing run checks is proved, but for the three liveness properties of `daemon` (`ShutdownCompletes`,
`ClearReturns`, `GaugeCatchesUp`): liveness under fairness and `ENABLED` are beyond the prover and model-checked only. So is what the
findings show, each by a counterexample. The theorems about reports are stated for `MapReportSpec` and `StatsSpec`; `Reports`, which
TLC runs, lets a behaviour be one of these or the other, and the two share no variables.

## 5. Not modelled

* The matching of payload bytes, VLAN tags and fragment offsets. Which bytes match decides between actions of `XdpFilter` and changes
  no state; bytes without their meaning would add nothing to the properties. Frames for other ports change nothing.
* Recycling of an LRU element while a handler holds a pointer to it: the store then lands in another source's entry. No property.
* Reading an entry while a handler writes its fields: the kernel's copy may mix two states of one entry.
* A second network card. The XDP program filters one (`config.example:5`), the sockops program hears of sockets from all. What
  `OvershootBounded` and the exactness of the count say is said of connections whose SYN crossed the XDP program.
* `tcp_established` in the steps of `Load`: a handshake that finishes between the two attachments leaves no entry there. For `XdpFilter`
  that is an evicted entry.
* In the Go part: flag parsing and its lack of range checks (a negative duration becomes a huge one), the checks `Load` makes before
  it acquires anything, the pair of health gauges, columns and JSON. Installer, CI, dashboards: out of scope.

## 6. Plan

1. Proofs: the theorems about reports for the composed `Reports`.
2. The promotion composed with the steps of `Load`.
