------------------------------ MODULE MapReport ------------------------------
(***************************************************************************)
(* One report on a map of sources, by an API handler                       *)
(* (cmd/fivem-ebpf/api.go), a command (dump, top, health, info, inspect)   *)
(* or the size ticker, while the BPF programs and the kernel change the    *)
(* map.  A report reads the clock once, then walks the keys and looks each *)
(* of them up, or looks up a single one; every system call is a step.      *)
(*                                                                         *)
(* The copy that one lookup makes is taken to be consistent: the kernel    *)
(* copies an entry without a lock, field by field, beside the stores of    *)
(* the XDP program.                                                        *)
(***************************************************************************)
EXTENDS BucketMap, Sums, SequencesExt

CONSTANTS
  Reasons,          \* the drop reasons
  AnyReason,        \* top without --reason
  Second,           \* ticks of the clock in a second
  Wrap,             \* 2^64
  HealthWindow, HealthThreshold, HealthBlacklist,
  Burst,            \* of the rate limiter that is reported on
  MaxEntries,       \* capacity of the map
  Start, MaxTime,   \* bound: the clock starts and stops here
  MaxRows,          \* bound: the largest n of top
  MaxChanges        \* bound: changes the programs and the kernel make

ASSUME ReportAssumption ==
  /\ {Second, Burst, MaxEntries, Start} \subseteq Nat \ {0}
  /\ {HealthWindow, HealthThreshold, HealthBlacklist, MaxTime, MaxRows,
      MaxChanges} \subseteq Nat
  /\ Wrap \in Nat /\ Wrap % 2 = 0
  /\ 2 * (MaxTime + MaxChanges + Burst) < Wrap
  /\ IsFiniteSet(Reasons) /\ Reasons # {} /\ AnyReason \notin Reasons

VARIABLES
  kind,      \* what the map holds, as topMapKinds calls it
  value,     \* the value of each key present
  clock,
  changes,   \* changes made so far
  call,      \* the function that reports, and its arguments
  read,      \* the call to make next, clock and cursor, rows so far
  held,      \* history: the values each key held since the report began
  stayed,    \* history: keys whose element is the same since then
  moved,     \* history: an element was removed, or replaced, since then
  banned     \* history: sources blacklisted at some instant since then

history == <<held, stayed, moved, banned>>
mapReportVars == <<kind, map, value, clock, changes, call, read, history>>

Kinds == {"timestamp", "count", "ratelimit", "health", "drop-reasons"}

Dumpers ==
  {"writeTimestampDump", "writeCountDump", "writeRatelimitDump",
   "writeHealthDump", "writeDropHistoryDump"}

(* The functions that report on one key, for GET /api/ip and for inspect. *)
Lookups ==
  {"lookupTimestamp", "lookupCount", "lookupRatelimit", "lookupHealth",
   "lookupDropHistory"}

Inspectors ==
  {"inspectTimestamp", "inspectCount", "inspectRatelimit", "inspectHealth",
   "inspectDropHistory"}

(* The functions that report on a map of each kind. *)
Reporters(k) ==
  {"topRows"} \cup
  CASE k = "timestamp" ->
         {"handleTimestampMap", "writeTimestampDump", "lookupTimestamp",
          "inspectTimestamp"}
    [] k = "count" ->
         {"handleCountMap", "writeCountDump", "lookupCount", "inspectCount"}
    [] k = "ratelimit" ->
         {"writeRatelimitDump", "lookupRatelimit", "inspectRatelimit"}
    [] k = "health" ->
         {"handleBlacklist", "handleHealth", "writeHealthDump",
          "writeHealthTable", "countBlacklisted", "countHealth",
          "lookupHealth", "inspectHealth"}
    [] k = "drop-reasons" ->
         {"handleDropHistory", "writeDropHistoryDump", "lookupDropHistory",
          "inspectDropHistory"}

(* Handlers of the daemon read through its own handles, which Close takes  *)
(* away from one that outlasts the shutdown.                               *)
ApiReporters ==
  Lookups \cup {"handleTimestampMap", "handleCountMap", "handleBlacklist",
                "handleHealth", "handleDropHistory", "topRows"}

------------------------------------------------------------------------------
(* The programs and the kernel *)

Blacklisted(v) == v.until > clock

Counts(reason) == [r \in Reasons |-> IF r = reason THEN 1 ELSE 0]

(* Values that a key may have when the report begins. *)
Initial ==
  CASE kind = "timestamp" -> {0, Start}
    [] kind = "count" -> {0, 1, Wrap - 1}
    [] kind = "ratelimit" -> [tokens : 0..(Burst - 1), last : {0}]
    [] kind = "health" ->
         {[anomalies |-> 1, start |-> 0, until |-> 0]} \cup
         [anomalies : {HealthThreshold}, start : {0},
          until : {Start, Start + 1}]
    [] kind = "drop-reasons" ->
         [first : {0}, last : {1}, counts : {Counts(r) : r \in Reasons}]

(* What a program enters for a source the map does not know. *)
Entered ==
  CASE kind = "timestamp" -> clock
    [] kind = "count" -> 0
    [] kind = "ratelimit" -> [tokens |-> Burst - 1, last |-> clock]
    [] kind = "health" ->
         [anomalies |-> 1, start |-> clock,
          until |-> IF HealthThreshold <= 1 THEN clock + HealthBlacklist ELSE 0]
    [] kind = "drop-reasons" ->
         [first |-> clock, last |-> clock,
          counts |-> Counts(CHOOSE r \in Reasons : TRUE)]

(* health_record_anomaly of a source that is not blacklisted. *)
Anomaly(v) ==
  LET late == clock - v.start > HealthWindow
      n == IF late THEN 1 ELSE v.anomalies + 1
  IN  [anomalies |-> n, start |-> IF late THEN clock ELSE v.start,
       until |-> IF n >= HealthThreshold THEN clock + HealthBlacklist
                 ELSE v.until]

(* What a program may make of the value it looked up. *)
Stored(v) ==
  CASE kind = "timestamp" -> {clock}
    [] kind = "count" -> {(v + 1) % Wrap, (v - 1) % Wrap}
    [] kind = "ratelimit" -> [tokens : 0..(Burst - 1), last : {v.last, clock}]
    [] kind = "health" -> IF Blacklisted(v) THEN {} ELSE {Anomaly(v)}
    [] kind = "drop-reasons" ->
         {[v EXCEPT !.last = clock, !.counts[r] = @ + 1] : r \in Reasons}

BannedAt(values, now) ==
  IF kind = "health" THEN {k \in DOMAIN values : values[k].until > now} ELSE {}

(* What happens before the clock is read, or after the answer, makes no    *)
(* difference to the report.                                               *)
Underway == read.at \in {"next", "lookup", "find", "last"}

Change ==
  /\ Underway
  /\ changes < MaxChanges
  /\ changes' = changes + 1
  /\ held' = held \cup {<<k, value'[k]>> : k \in DOMAIN value'}
  /\ banned' = banned \cup BannedAt(value', clock)
  /\ UNCHANGED <<kind, clock, call, read>>

(* A program stores through the pointer it looked up. *)
Store(k) ==
  /\ k \in Present
  /\ \E v \in Stored(value[k]) : value' = [value EXCEPT ![k] = v]
  /\ Change
  /\ UNCHANGED <<map, stayed, moved>>

(* A program enters a source the map does not know; the kernel has made    *)
(* room before.                                                            *)
Enter(k) ==
  /\ k \notin Present
  /\ Len(map) < MaxEntries
  /\ map' = Linked(k)
  /\ value' = [x \in Present \cup {k} |-> IF x = k THEN Entered ELSE value[x]]
  /\ Change
  /\ UNCHANGED <<stayed, moved>>

(* BPF_ANY on a key that is present: the whitelist, the handshakes, the    *)
(* SYNs and a bucket two CPUs insert.                                      *)
Replace(k) ==
  /\ kind \in {"timestamp", "ratelimit"}
  /\ k \in Present
  /\ map' = Linked(k)
  /\ value' = [value EXCEPT ![k] = Entered]
  /\ stayed' = stayed \ {k}
  /\ moved' = TRUE
  /\ Change

(* The kernel evicts, or somebody clears the source. *)
Evict(k) ==
  /\ k \in Present
  /\ map' = Without(k)
  /\ value' = [x \in Present \ {k} |-> value[x]]
  /\ stayed' = stayed \ {k}
  /\ moved' = TRUE
  /\ Change

Tick ==
  /\ Underway
  /\ clock < MaxTime
  /\ clock' = clock + 1
  /\ UNCHANGED <<kind, map, value, changes, call, read, history>>

------------------------------------------------------------------------------
(* What the functions say of an entry *)

AgeSeconds(now, then) == IF now < then THEN 0 ELSE (now - then) \div Second

Age(then) == AgeSeconds(read.now, then)

(* int64(v) of a u64 *)
Signed(v) == IF v >= Wrap \div 2 THEN v - Wrap ELSE v

Total(v) == SumOver(v.counts, Reasons)

DropCounts(v) ==
  [total |-> Total(v),
   by |-> [r \in {x \in Reasons : v.counts[x] # 0} |-> v.counts[r]]]

TimestampRow(k, v) == [ip |-> k, age |-> Age(v)]

CountRow(k, v) == [ip |-> k, count |-> v]

RatelimitRow(k, v) == [ip |-> k, tokens |-> v.tokens, age |-> Age(v.last)]

(* How long a blacklisting still runs is said of the blacklisted only.     *)
HealthRow(k, v) ==
  LET blacklisted == v.until > read.now
  IN  [ip |-> k, anomalies |-> v.anomalies, age |-> Age(v.start),
       blacklisted |-> blacklisted,
       remaining |-> IF blacklisted THEN AgeSeconds(v.until, read.now) ELSE 0]

DropHistoryRow(k, v) ==
  [ip |-> k, first |-> Age(v.first), age |-> Age(v.last),
   total |-> DropCounts(v).total, by |-> DropCounts(v).by]

------------------------------------------------------------------------------
(* What each function makes of one key and its value: a row, or nothing.   *)

HandleTimestampMap(k, v) == <<TimestampRow(k, v)>>

HandleCountMap(k, v) == <<CountRow(k, v)>>

(* Mutant: a blacklisting that has just run out is listed. *)
HandleBlacklistLapsed(k, v) ==
  IF v.until < read.now THEN <<>>
  ELSE <<[HealthRow(k, v) EXCEPT !.blacklisted = TRUE]>>

HandleBlacklist(k, v) ==
  IF v.until <= read.now THEN <<>> ELSE <<HealthRow(k, v)>>

HandleHealth(k, v) ==
  IF ~call.all /\ ~HealthRow(k, v).blacklisted
  THEN <<>> ELSE <<HealthRow(k, v)>>

HandleDropHistory(k, v) == <<DropHistoryRow(k, v)>>

WriteDump(k, v) ==
  CASE kind = "timestamp" -> <<TimestampRow(k, v)>>
    [] kind = "count" -> <<CountRow(k, v)>>
    [] kind = "ratelimit" -> <<RatelimitRow(k, v)>>
    [] kind = "health" -> <<HealthRow(k, v)>>
    [] kind = "drop-reasons" -> <<DropHistoryRow(k, v)>>

WriteHealthTable(k, v) ==
  LET row == HealthRow(k, v)
  IN  IF ~call.all /\ ~row.blacklisted THEN <<>> ELSE <<row>>

(* These two report the number of rows only. *)
CountBlacklisted(k, v) ==
  IF v.until > read.now THEN <<[ip |-> k, blacklisted |-> TRUE]>> ELSE <<>>

CountHealth(k, v) == <<[ip |-> k, blacklisted |-> v.until > read.now]>>

(* The row, and what it is ranked by. *)
Ranked(row, rank) ==
  [f \in DOMAIN row \cup {"sort"} |-> IF f = "sort" THEN rank ELSE row[f]]

(* Mutant: an open count is ranked as the u64 it is stored as. *)
TopRowUnsigned(k, v) ==
  CASE kind = "timestamp" -> Ranked(TimestampRow(k, v), -Age(v))
    [] kind = "count" -> Ranked(CountRow(k, v), v)
    [] kind = "ratelimit" -> Ranked(RatelimitRow(k, v), -v.tokens)
    [] kind = "health" -> Ranked(HealthRow(k, v), v.anomalies)
    [] kind = "drop-reasons" -> Ranked(DropHistoryRow(k, v), Total(v))

TopRow(k, v) ==
  CASE kind = "timestamp" -> Ranked(TimestampRow(k, v), -Age(v))
    [] kind = "count" -> Ranked(CountRow(k, v), Signed(v))
    [] kind = "ratelimit" -> Ranked(RatelimitRow(k, v), -Signed(v.tokens))
    [] kind = "health" -> Ranked(HealthRow(k, v), v.anomalies)
    [] kind = "drop-reasons" ->
         Ranked(DropHistoryRow(k, v),
                IF call.reason = AnyReason THEN Signed(Total(v))
                ELSE Signed(v.counts[call.reason]))

LookupIP(k, v) ==
  CASE call.by = "lookupTimestamp" -> <<TimestampRow(k, v)>>
    [] call.by = "lookupCount" -> <<CountRow(k, v)>>
    [] call.by = "lookupRatelimit" -> <<RatelimitRow(k, v)>>
    [] call.by = "lookupHealth" -> <<HealthRow(k, v)>>
    [] call.by = "lookupDropHistory" -> <<DropHistoryRow(k, v)>>

Inspect(k, v) ==
  CASE call.by = "inspectTimestamp" -> <<TimestampRow(k, v)>>
    [] call.by = "inspectCount" -> <<CountRow(k, v)>>
    [] call.by = "inspectRatelimit" -> <<RatelimitRow(k, v)>>
    [] call.by = "inspectHealth" -> <<HealthRow(k, v)>>
    [] call.by = "inspectDropHistory" -> <<DropHistoryRow(k, v)>>

RowsFor(k, v) ==
  CASE call.by = "handleTimestampMap" -> HandleTimestampMap(k, v)
    [] call.by = "handleCountMap" -> HandleCountMap(k, v)
    [] call.by = "handleBlacklist" -> HandleBlacklist(k, v)
    [] call.by = "handleHealth" -> HandleHealth(k, v)
    [] call.by = "handleDropHistory" -> HandleDropHistory(k, v)
    [] call.by \in Dumpers -> WriteDump(k, v)
    [] call.by = "writeHealthTable" -> WriteHealthTable(k, v)
    [] call.by = "countBlacklisted" -> CountBlacklisted(k, v)
    [] call.by = "countHealth" -> CountHealth(k, v)
    [] call.by = "topRows" -> <<TopRow(k, v)>>
    [] call.by \in Lookups -> LookupIP(k, v)
    [] call.by \in Inspectors -> Inspect(k, v)

------------------------------------------------------------------------------
(* The report, one system call per step *)

Calls ==
  LET by == Reporters(kind)
      plain == [by : by \ {"topRows"}, ip : {NoKey}, all : {FALSE}, n : {0},
                reason : {AnyReason}]
      reasons == {AnyReason} \cup IF kind = "drop-reasons" THEN Reasons ELSE {}
  IN  {c \in plain : c.by \notin Lookups \cup Inspectors}
      \cup {[c EXCEPT !.all = TRUE] :
              c \in {p \in plain : p.by \in {"handleHealth", "writeHealthTable"}}}
      \cup [by : by \cap (Lookups \cup Inspectors), ip : Keys, all : {FALSE},
            n : {0}, reason : {AnyReason}]
      \cup [by : {"topRows"}, ip : {NoKey}, all : {FALSE}, n : 0..MaxRows,
            reason : reasons]

MapReportInit ==
  /\ kind \in Kinds
  /\ map \in Orders
  /\ Len(map) <= MaxEntries
  /\ value \in [Present -> Initial]
  /\ clock = Start
  /\ changes = 0
  /\ call \in Calls
  /\ read = [at |-> "clock", now |-> 0, cursor |-> NoKey, count |-> 0,
             rows |-> <<>>]
  /\ held = {<<k, value[k]>> : k \in Present}
  /\ stayed = Present
  /\ moved = FALSE
  /\ banned = BannedAt(value, clock)

Reading == UNCHANGED <<kind, map, value, clock, changes, call, history>>

ReadClock ==
  /\ read.at = "clock"
  /\ read' = [read EXCEPT
                !.at = IF call.ip = NoKey THEN "next" ELSE "find",
                !.now = clock]
  /\ Reading

(* The function returns, and its iterator with it. *)
Ended(how, rows) ==
  [read EXCEPT !.at = how, !.cursor = NoKey, !.count = 0, !.rows = rows]

(* MapIterator.Next gives up once it got more keys than the map can hold:  *)
(* ErrIterationAborted.  The handler answers 500, the command fails; only  *)
(* a dump has printed its rows by then.                                    *)
IterationAborted ==
  /\ read.at = "next"
  /\ read.count > MaxEntries
  /\ read' = Ended("failed", <<>>)
  /\ Reading

(* Mutant: the iteration ends when the key at the cursor has gone. *)
IterateCut ==
  /\ read.at = "next"
  /\ read.count <= MaxEntries
  /\ LET next == IF read.cursor = NoKey \/ read.cursor \in Present
                 THEN NextKey(read.cursor) ELSE NoKey
     IN  read' = IF next = NoKey
                 THEN [read EXCEPT !.at = "last"]
                 ELSE [read EXCEPT !.at = "lookup", !.cursor = next,
                                   !.count = @ + 1]
  /\ Reading

Iterate ==
  /\ read.at = "next"
  /\ read.count <= MaxEntries
  /\ LET next == NextKey(read.cursor)
     IN  read' = IF next = NoKey
                 THEN [read EXCEPT !.at = "last"]
                 ELSE [read EXCEPT !.at = "lookup", !.cursor = next,
                                   !.count = @ + 1]
  /\ Reading

(* The key may have gone since NextKey: the iterator goes on. *)
LookupNext ==
  /\ read.at = "lookup"
  /\ read' = [read EXCEPT
                !.at = "next",
                !.rows = IF read.cursor \in Present
                         THEN @ \o RowsFor(read.cursor, value[read.cursor])
                         ELSE @]
  /\ Reading

(* A source the map does not know is null for the API and a dash for the   *)
(* command.                                                                *)
Find ==
  /\ read.at = "find"
  /\ read' = Ended("done", IF call.ip \in Present
                            THEN RowsFor(call.ip, value[call.ip]) ELSE <<>>)
  /\ Reading

(* Close has taken the map from a handler that outlasted the shutdown.  An *)
(* iteration fails; handleIPLookup does not look at the error and answers  *)
(* as for a source the map does not know.                                  *)
MapClosed ==
  /\ call.by \in ApiReporters
  /\ read.at \in {"next", "lookup", "find"}
  /\ read' = Ended("closed", <<>>)
  /\ Reading

(* sort.Slice is not stable: rows of the same rank come in any order. *)
Sorted(rows) ==
  {s \in SetToSeqs(DOMAIN rows) :
     \A i, j \in DOMAIN s : i < j => rows[s[i]].sort >= rows[s[j]].sort}

(* Mutant: the rows are cut before they are sorted. *)
CutFirst(rows) ==
  IF call.n > 0 /\ Len(rows) > call.n
  THEN {SubSeq(rows, 1, call.n)} ELSE {rows}

(* n = 0 stands for all. *)
Cut(rows) ==
  LET n == IF call.n > 0 /\ Len(rows) > call.n THEN call.n ELSE Len(rows)
  IN  {[i \in 1..n |-> rows[s[i]]] : s \in Sorted(rows)}

Answer ==
  /\ read.at = "last"
  /\ \E rows \in IF call.by = "topRows" THEN Cut(read.rows) ELSE {read.rows} :
       read' = Ended("done", rows)
  /\ Reading

MapReportNext ==
  \/ Tick
  \/ \E k \in Keys : Store(k) \/ Enter(k) \/ Replace(k) \/ Evict(k)
  \/ ReadClock \/ IterationAborted \/ Iterate \/ LookupNext \/ Find
  \/ MapClosed \/ Answer

MapReportSpec == MapReportInit /\ [][MapReportNext]_mapReportVars

------------------------------------------------------------------------------

Done == read.at = "done"
Listed == {read.rows[i].ip : i \in DOMAIN read.rows}
HeldBy(k) == {h[2] : h \in {x \in held : x[1] = k}}

(* Reports on the blacklisted only. *)
Filtered ==
  \/ call.by \in {"handleBlacklist", "countBlacklisted"}
  \/ call.by \in {"handleHealth", "writeHealthTable"} /\ ~call.all

(* Sources a report should tell of: those it is asked for whose element    *)
(* was in place all the time and, if it looks for the blacklisted, that    *)
(* were blacklisted all the time.                                          *)
Wanted ==
  {k \in stayed :
     /\ call.ip \in {k, NoKey}
     /\ Filtered => \A v \in HeldBy(k) : Blacklisted(v)}

(* A report that is answered tells of every source that was there all the  *)
(* time, however the map changed around the cursor: counts are too high    *)
(* at worst.  Only where elements were removed or replaced can a source    *)
(* be told of twice, or the report fail because the walk got too long.     *)
ReportComplete ==
  /\ Done /\ call.n = 0 => Wanted \subseteq Listed
  /\ Done /\ ~moved => Len(read.rows) = Cardinality(Listed)
  /\ read.at = "failed" => moved

(* An age in whole seconds: no more than the true one when the report is   *)
(* answered, and less than a second short of the one when it began.        *)
Aged(age, then) ==
  age * Second <= clock - then /\ read.now - then < (age + 1) * Second

(* What remains of a blacklisting, to the second. *)
Remains(seconds, until) ==
  /\ seconds * Second <= until - read.now
  /\ until - read.now < (seconds + 1) * Second

(* The row says what is so of a value; counts have rows without fields.    *)
Tells(row, v) ==
  CASE kind = "timestamp" -> Aged(row.age, v)
    [] kind = "count" -> row.count = v
    [] kind = "ratelimit" -> row.tokens = v.tokens /\ Aged(row.age, v.last)
    [] kind = "health" ->
         "anomalies" \in DOMAIN row =>
           /\ row.anomalies = v.anomalies
           /\ Aged(row.age, v.start)
           /\ row.blacklisted => Remains(row.remaining, v.until)
    [] kind = "drop-reasons" ->
         /\ Aged(row.first, v.first) /\ Aged(row.age, v.last)
         /\ row.by = [r \in DOMAIN row.by |-> v.counts[r]]
         /\ row.total = SumOver(row.by, DOMAIN row.by)
         /\ row.total = Total(v)

(* Every row, of whatever function, is true of a value the source held     *)
(* while the report was made, though clock, key and value were read at     *)
(* three instants; and nobody is called blacklisted whom the XDP program   *)
(* did not refuse at some instant in between.  (With a HealthBlacklist of  *)
(* 0 nobody is refused, but an end stored after the clock was read may     *)
(* still lie ahead of it.)                                                 *)
RowsTrue ==
  Done => \A i \in DOMAIN read.rows :
    LET row == read.rows[i]
    IN  /\ \E v \in HeldBy(row.ip) : Tells(row, v)
        /\ "blacklisted" \in DOMAIN row /\ row.blacklisted => row.ip \in banned

(* What top ranks by: the latest, the most sockets (a count below zero is  *)
(* the least), the fewest tokens, the most anomalies, the most drops.      *)
Heat(v) ==
  CASE kind = "timestamp" -> -Age(v)
    [] kind = "count" -> (v + Wrap \div 2) % Wrap
    [] kind = "ratelimit" -> Burst - v.tokens
    [] kind = "health" -> v.anomalies
    [] kind = "drop-reasons" ->
         IF call.reason = AnyReason THEN Total(v) ELSE v.counts[call.reason]

(* A source that was there all the time is missing from the first n rows   *)
(* of top only if there are n rows of others at least as hot.              *)
TopMissesNoHotter ==
  Done /\ call.by = "topRows" =>
    \A k \in stayed \ Listed : \E v \in HeldBy(k) :
      /\ call.n > 0 /\ Len(read.rows) = call.n
      /\ \A i \in DOMAIN read.rows :
           \E w \in HeldBy(read.rows[i].ip) :
             Tells(read.rows[i], w) /\ Heat(w) >= Heat(v)
==============================================================================
