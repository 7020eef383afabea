----------------------------- MODULE Telemetry ------------------------------
(****************************************************************************)
(* Snapshot ingestion and the device states computed from it: a run drains  *)
(* the source chunk by chunk, tries every chunk a few times, and records    *)
(* how fresh the data is; recompute folds the stored pings into one row per *)
(* device.                                                                  *)
(*                                                                          *)
(* The source only grows at its end; a ping may be older than the one       *)
(* before it.  The real source is behind an interface the repository        *)
(* implements with an array.                                                *)
(****************************************************************************)
EXTENDS Executions, Naturals, Sequences, FiniteSetsExt

CONSTANTS
    Trackers,     \* devices
    Hours,        \* the hours at which something happens
    Never,        \* no such hour: null
    ChunkSize,
    MaxAttempts,  \* attempts per chunk
    MaxPings,     \* bound: rows of the source
    MaxRuns       \* bound: snapshot_runs

ASSUME TelemetryAssumption ==
    /\ Hours \subseteq Nat /\ Hours # {} /\ Never \notin Hours
    /\ ChunkSize \in Nat /\ MaxAttempts \in Nat /\ MaxPings \in Nat /\ MaxRuns \in Nat

VARIABLES
    hour,
    source,  \* the rows of the source, in cursor order
    stored,  \* raw_device_snapshots
    run,     \* snapshot_runs, by id
    state    \* device_states

telemetry == <<hour, source, stored, run, state>>
telemetryVars == <<telemetry, job>>

Ping == [d : Trackers, at : Hours]
\* asOf: data_as_of; drained: rows read until finishRun, of which nothing is stored.
RunRow == [status : {"RUNNING", "SUCCESS", "PARTIAL", "FAILED"}, asOf : Hours \cup {Never},
           drained : 0..MaxPings]

Buckets == <<[from |-> 4, bucket |-> "WARNING"], [from |-> 8, bucket |-> "EARLY_RISK"],
             [from |-> 12, bucket |-> "RISK"], [from |-> 24, bucket |-> "CRITICAL"],
             [from |-> 48, bucket |-> "HIGH_CRITICAL"], [from |-> 72, bucket |-> "SEVERE"],
             [from |-> 120, bucket |-> "VERY_SEVERE"], [from |-> 168, bucket |-> "LONG_PENDING"]>>

\* classifySlaBucket: the highest band whose lower bound is reached; none is ACTIVE.
ClassifySlaBucket(h) ==
    LET reached == {i \in DOMAIN Buckets : Buckets[i].from <= h}
    IN IF reached = {} THEN "ACTIVE" ELSE Buckets[Max(reached)].bucket

StateRow == [latest : Hours \cup {Never}, bucket : {Buckets[i].bucket : i \in DOMAIN Buckets}
                                                      \cup {"ACTIVE", "NONE"}]

TelemetryTypeOK ==
    /\ hour \in Hours
    /\ source \in Seq(Ping) /\ Len(source) <= MaxPings
    /\ stored \subseteq Ping
    /\ run \in Seq(RunRow) /\ Len(run) <= MaxRuns
    /\ state \in [Trackers -> StateRow]

TelemetryInit ==
    /\ hour = Min(Hours) /\ source = <<>> /\ stored = {} /\ run = <<>>
    /\ state = [d \in Trackers |-> [latest |-> Never, bucket |-> "NONE"]]

-----------------------------------------------------------------------------
(* SnapshotIngestionWorker                                                *)

\* startRun: the partial unique index lets one run be RUNNING.
StartRun(w) ==
    /\ Len(run) < MaxRuns
    /\ \A i \in DOMAIN run : run[i].status # "RUNNING"
    /\ Begin(w, [op |-> "read", run |-> Len(run) + 1, cursor |-> 0, ok |-> 0, failed |-> 0,
                 asOf |-> Never])
    /\ run' = Append(run, [status |-> "RUNNING", asOf |-> Never, drained |-> 0])
    /\ UNCHANGED <<hour, source, stored, state>>

ChunkEnd(cursor) == Min({cursor + ChunkSize, Len(source)})
Rows(from, to) == {source[i] : i \in (from + 1)..to}

\* A chunk without rows is skipped; an exhausted source ends the run.
ReadChunk(w) ==
    /\ Running(w, "read")
    /\ LET j == job[w]
           end == ChunkEnd(j.cursor)
           next == [op |-> "chunk", run |-> j.run, cursor |-> j.cursor, ok |-> j.ok,
                    failed |-> j.failed, asOf |-> j.asOf, end |-> end, attempt |-> 1,
                    last |-> end >= Len(source)]
       IN IF end > j.cursor THEN Proceed(w, next)
          ELSE Proceed(w, [op |-> "finish", run |-> j.run, ok |-> j.ok, failed |-> j.failed,
                           asOf |-> j.asOf, drained |-> j.cursor])
    /\ UNCHANGED telemetry

Newest(asOf, rows) ==
    Max({r.at : r \in rows} \cup (IF asOf = Never THEN {} ELSE {asOf}))

\* The chunk is over: the cursor moves on whether it succeeded or not.
NextChunk(w, j) ==
    IF job[w].last
    THEN Proceed(w, [op |-> "finish", run |-> j.run, ok |-> j.ok, failed |-> j.failed,
                     asOf |-> j.asOf, drained |-> job[w].end])
    ELSE Proceed(w, [op |-> "read", run |-> j.run, cursor |-> job[w].end, ok |-> j.ok,
                     failed |-> j.failed, asOf |-> j.asOf])

\* One statement that skips the rows on record, so that a repetition is harmless.
IngestChunk(w) ==
    /\ Running(w, "chunk")
    /\ LET j == job[w]
           rows == Rows(j.cursor, j.end)
       IN /\ stored' = stored \cup rows
          /\ NextChunk(w, [j EXCEPT !.ok = @ + 1, !.asOf = Newest(@, rows)])
    /\ UNCHANGED <<hour, source, run, state>>

\* An error of the database: nothing is written, or the answer is lost after the commit.
FailAttempt(w) ==
    /\ Running(w, "chunk") /\ job[w].attempt < MaxAttempts
    /\ stored' \in {stored, stored \cup Rows(job[w].cursor, job[w].end)}
    /\ Proceed(w, [job[w] EXCEPT !.attempt = @ + 1])
    /\ UNCHANGED <<hour, source, run, state>>

\* Fault: a chunk that was given up is not counted.
FailChunkUncounted(w) ==
    /\ Running(w, "chunk") /\ job[w].attempt = MaxAttempts
    /\ stored' \in {stored, stored \cup Rows(job[w].cursor, job[w].end)}
    /\ NextChunk(w, job[w])
    /\ UNCHANGED <<hour, source, run, state>>

\* Fault: the cursor stays at a chunk that was given up.
FailChunkAgain(w) ==
    /\ Running(w, "chunk") /\ job[w].attempt = MaxAttempts
    /\ stored' \in {stored, stored \cup Rows(job[w].cursor, job[w].end)}
    /\ Proceed(w, [job[w] EXCEPT !.attempt = 1])
    /\ UNCHANGED <<hour, source, run, state>>

FailChunk(w) ==
    /\ Running(w, "chunk") /\ job[w].attempt = MaxAttempts
    /\ stored' \in {stored, stored \cup Rows(job[w].cursor, job[w].end)}
    /\ NextChunk(w, [job[w] EXCEPT !.failed = @ + 1])
    /\ UNCHANGED <<hour, source, run, state>>

Outcome(j) ==
    IF j.failed = 0 THEN "SUCCESS" ELSE IF j.ok = 0 THEN "FAILED" ELSE "PARTIAL"

FinishRun(w) ==
    /\ Running(w, "finish")
    /\ LET j == job[w] IN
       run' = [run EXCEPT ![j.run] =
                  [status |-> Outcome(j), drained |-> j.drained,
                   asOf |-> IF Outcome(j) = "FAILED" THEN Never ELSE j.asOf]]
    /\ Finish(w)
    /\ UNCHANGED <<hour, source, stored, state>>

-----------------------------------------------------------------------------
(* DeviceStateService.recompute                                           *)

LatestOf(d) ==
    LET heard == {r.at : r \in {s \in stored : s.d = d}}
    IN IF heard = {} THEN Never ELSE Max(heard)

\* The pings are grouped once, at the beginning.
RecomputeRead(w) ==
    /\ Begin(w, [op |-> "recompute", now |-> hour, todo |-> Trackers,
                 latest |-> [d \in Trackers |-> LatestOf(d)]])
    /\ UNCHANGED telemetry

BucketAt(latest, now) ==
    IF latest = Never THEN "NONE" ELSE ClassifySlaBucket(IF latest < now THEN now - latest ELSE 0)

Upsert(w, d) ==
    /\ Running(w, "recompute") /\ d \in job[w].todo
    /\ LET j == job[w] IN
       /\ state' = [state EXCEPT ![d] =
                       [latest |-> j.latest[d], bucket |-> BucketAt(j.latest[d], j.now)]]
       /\ IF j.todo = {d} THEN Finish(w) ELSE Proceed(w, [j EXCEPT !.todo = @ \ {d}])
    /\ UNCHANGED <<hour, source, stored, run>>

-----------------------------------------------------------------------------
\* A device is heard, at once or late.
DevicePings(d, at) ==
    /\ Len(source) < MaxPings /\ at <= hour
    /\ source' = Append(source, [d |-> d, at |-> at])
    /\ UNCHANGED <<hour, stored, run, state, job>>

HoursPass ==
    /\ \E h \in Hours : h > hour
    /\ hour' = Min({h \in Hours : h > hour})
    /\ UNCHANGED <<source, stored, run, state, job>>

TelemetryStep(w) ==
    \/ StartRun(w) \/ ReadChunk(w) \/ IngestChunk(w) \/ FailAttempt(w) \/ FailChunk(w)
    \/ FinishRun(w) \/ RecomputeRead(w) \/ \E d \in Trackers : Upsert(w, d)
    \/ Abandon(w) /\ UNCHANGED telemetry

TelemetryEnvironment ==
    HoursPass \/ \E d \in Trackers, at \in Hours : DevicePings(d, at)

TelemetrySpec ==
    /\ TelemetryInit /\ job = [w \in Workers |-> Idle]
    /\ [][(\E w \in Workers : TelemetryStep(w)) \/ TelemetryEnvironment]_telemetryVars

\* A run goes on by itself once it is started, as long as its process lives.
Drain(w) ==
    ReadChunk(w) \/ IngestChunk(w) \/ FailAttempt(w) \/ FailChunk(w) \/ FinishRun(w)

TelemetryStart == TelemetryInit /\ job = [w \in Workers |-> Idle]

FairTelemetrySpec ==
    /\ TelemetryStart
    /\ [][(\E w \in Workers : TelemetryStep(w)) \/ TelemetryEnvironment]_telemetryVars
    /\ \A w \in Workers : WF_telemetryVars(Drain(w))

-----------------------------------------------------------------------------
(* Properties                                                             *)

\* The banner (latest) shows the newest ping of a run all of whose rows are on record, over
\* failed attempts, answers lost after the commit, chunks given up and crashes; a PARTIAL run
\* shows one that is on record too.
BannerBacked ==
    \A i \in DOMAIN run :
       /\ run[i].status = "SUCCESS" =>
             /\ Rows(0, run[i].drained) \subseteq stored
             /\ run[i].asOf = IF run[i].drained = 0 THEN Never
                              ELSE Newest(Never, Rows(0, run[i].drained))
       /\ run[i].asOf # Never => \E r \in stored : r.at = run[i].asOf

\* The worker of run i has died: nothing ends the run.
Orphaned(i) ==
    \A w \in Workers : \A op \in {"read", "chunk", "finish"} :
       ~(Running(w, op) /\ job[w].run = i)

\* A run does not stay RUNNING, in the way of all later ones, unless its worker dies: however
\* many attempts fail and chunks are given up, and while the source grows under it (the loop of
\* run and the retries of processChunk).
RunEnds ==
    \A i \in 1..MaxRuns :
       (i \in DOMAIN run /\ run[i].status = "RUNNING") ~>
          (i \in DOMAIN run /\ (run[i].status # "RUNNING" \/ Orphaned(i)))

=============================================================================
