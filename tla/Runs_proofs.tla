---------------------------- MODULE Runs_proofs ------------------------------
(******************************************************************************)
(* What runs in the background and takes long: the ingestion run, whose       *)
(* banner is backed by what is on record over failed attempts, answers lost   *)
(* after the commit, chunks given up, crashes and overlapping executions;     *)
(* and the recommender's run over a zone, which is fair in its own rows while *)
(* leaves and stock change under it and other runs of the zone write theirs.  *)
(******************************************************************************)
EXTENDS Telemetry, Recommender, FiniteSetTheorems, WellFoundedInduction, TLAPS

-----------------------------------------------------------------------------
(* The least and the greatest element of a set of naturals                *)

Smaller == {ss \in Nat \X Nat : ss[1] < ss[2]}

LEMMA SmallerWellFounded == IsWellFoundedOn(Smaller, Nat)
<1>1. Smaller = OpToRel(<, Nat)
  BY DEF Smaller, OpToRel
<1> QED BY <1>1, NatLessThanWellFounded

LEMMA LeastNatural ==
    ASSUME NEW S \in SUBSET Nat, S # {}
    PROVE  \E x \in S : \A y \in S : x <= y
<1>1. PICK x \in S : \A y \in S : ~(<<y, x>> \in Smaller)
  BY SmallerWellFounded, WFMin
<1>2. ASSUME NEW y \in S PROVE x <= y
  <2>1. ~(y < x)
    BY <1>1 DEF Smaller
  <2> QED BY <2>1
<1> QED BY <1>2

LEMMA MinIsLeast ==
    ASSUME NEW S \in SUBSET Nat, S # {}
    PROVE  Min(S) \in S /\ \A x \in S : Min(S) <= x
  BY LeastNatural DEF Min

LEMMA GreatestExists ==
    ASSUME NEW S \in SUBSET Nat, S # {}, NEW b \in Nat, \A x \in S : x <= b
    PROVE  Max(S) \in S /\ \A x \in S : x <= Max(S)
<1> DEFINE gaps == {b - x : x \in S}
<1>1. gaps \in SUBSET Nat /\ gaps # {}
  <2>1. \A x \in S : b - x \in Nat
    OBVIOUS
  <2> QED BY <2>1
<1>2. PICK g \in gaps : \A h \in gaps : g <= h
  BY <1>1, LeastNatural
<1>3. PICK x \in S : g = b - x
  BY <1>2
<1>4. ASSUME NEW y \in S PROVE x >= y
  <2>1. b - y \in gaps
    OBVIOUS
  <2> QED BY <1>2, <1>3, <2>1
<1> QED BY <1>4 DEF Max

\* Two naturals that are each the greatest of the same set are the same.
LEMMA MaxIs ==
    ASSUME NEW S \in SUBSET Nat, NEW m \in S, \A x \in S : x <= m
    PROVE  Max(S) = m
<1>1. Max(S) \in S /\ \A x \in S : x <= Max(S)
  BY GreatestExists
<1>2. Max(S) \in Nat /\ m \in Nat /\ Max(S) <= m /\ m <= Max(S)
  BY <1>1
<1> HIDE <1>1
<1> QED BY <1>2

-----------------------------------------------------------------------------
(* The newest ping                                                        *)

Heard(from, to) == {r.at : r \in Rows(from, to)}

\* The pings of the source are no later than the clock.
SourceOK ==
    /\ hour \in Hours
    /\ source \in Seq(Ping) /\ Len(source) <= MaxPings
    /\ \A i \in DOMAIN source : source[i].at <= hour

\* What the first rows of the source make of data_as_of.
AsOf(to) == IF to = 0 THEN Never ELSE Newest(Never, Rows(0, to))

LEMMA HeardBounded ==
    ASSUME SourceOK, NEW from \in Nat, NEW to \in 0..Len(source)
    PROVE  /\ Heard(from, to) \in SUBSET Hours /\ Hours \in SUBSET Nat
           /\ hour \in Nat /\ \A t \in Heard(from, to) : t <= hour
           /\ from < to => Heard(from, to) # {}
<1>1. ASSUME NEW i \in (from + 1)..to
      PROVE  source[i].at \in Hours /\ source[i].at <= hour
  <2>1. i \in DOMAIN source
    BY DEF SourceOK
  <2>2. source[i] \in Ping
    BY <2>1 DEF SourceOK
  <2> QED BY <2>1, <2>2 DEF SourceOK, Ping
<1>2. from < to => source[to].at \in Heard(from, to)
  BY DEF Heard, Rows
<1> QED BY <1>1, <1>2, TelemetryAssumption DEF Heard, Rows, SourceOK

\* A chunk that is not empty makes the newest of it and of what was before.
LEMMA NewestOf ==
    ASSUME SourceOK, NEW from \in Nat, NEW to \in 0..Len(source), from < to,
           NEW asOf \in Hours \cup {Never}, asOf # Never => asOf <= hour
    PROVE  /\ Newest(asOf, Rows(from, to)) \in Hours
           /\ Newest(asOf, Rows(from, to)) <= hour
           /\ \/ Newest(asOf, Rows(from, to)) \in Heard(from, to)
              \/ asOf # Never /\ Newest(asOf, Rows(from, to)) = asOf
           /\ \A t \in Heard(from, to) : t <= Newest(asOf, Rows(from, to))
           /\ asOf # Never => asOf <= Newest(asOf, Rows(from, to))
<1> DEFINE S == Heard(from, to) \cup (IF asOf = Never THEN {} ELSE {asOf})
<1>1. /\ Heard(from, to) \in SUBSET Hours /\ Hours \in SUBSET Nat
      /\ hour \in Nat /\ \A t \in Heard(from, to) : t <= hour
      /\ Heard(from, to) # {}
  BY HeardBounded
<1>2. Newest(asOf, Rows(from, to)) = Max(S)
  BY DEF Newest, Heard
<1>3. S \in SUBSET Nat /\ S # {} /\ \A t \in S : t <= hour
  BY <1>1
<1>4. Max(S) \in S /\ \A t \in S : t <= Max(S)
  BY <1>1, <1>3, GreatestExists
<1> QED BY <1>1, <1>2, <1>3, <1>4

\* The newest of two chunks in a row is the newest of both.
LEMMA NewestJoins ==
    ASSUME SourceOK, NEW from \in Nat, NEW to \in 0..Len(source), from < to
    PROVE  Newest(AsOf(from), Rows(from, to)) = AsOf(to)
<1>1. CASE from = 0
  BY <1>1 DEF AsOf
<1>2. CASE from # 0
  <2> DEFINE a == Newest(Never, Rows(0, from))
             n == Newest(a, Rows(from, to))
  <2>1. 0 \in Nat /\ from \in 0..Len(source) /\ 0 < from
    BY <1>2 DEF SourceOK
  <2>2. /\ a \in Hours /\ a <= hour /\ a \in Heard(0, from)
        /\ \A t \in Heard(0, from) : t <= a
    BY <2>1, NewestOf
  <2>3. a # Never
    BY <2>2, TelemetryAssumption
  <2>4. /\ n \in Hours /\ (n \in Heard(from, to) \/ n = a) /\ a <= n
        /\ \A t \in Heard(from, to) : t <= n
    BY <2>2, <2>3, NewestOf
  <2>5. Heard(0, to) = Heard(0, from) \cup Heard(from, to)
    BY <2>1 DEF Heard, Rows, SourceOK
  <2>6. Heard(0, to) \in SUBSET Nat
    BY <2>1, HeardBounded
  <2>7. Newest(Never, Rows(0, to)) = Max(Heard(0, to))
    BY DEF Newest, Heard
  <2>8. n \in Heard(0, to) /\ \A t \in Heard(0, to) : t <= n
    <3>1. Hours \subseteq Nat
      BY TelemetryAssumption
    <3>2. \A t \in Heard(0, from) : t <= n
      BY <2>2, <2>4, <2>5, <2>6, <3>1
    <3> QED BY <2>2, <2>4, <2>5, <3>2
  <2>9. Newest(Never, Rows(0, to)) = n
    BY <2>6, <2>7, <2>8, MaxIs
  <2> QED BY <1>2, <2>1, <2>9 DEF AsOf
<1> QED BY <1>1, <1>2

-----------------------------------------------------------------------------
(* What the executions and the runs know of the source                    *)

\* Somebody was heard at the hour, and it is on record.
OnRecord(asOf) == asOf # Never => asOf <= hour /\ \E r \in stored : r.at = asOf

\* The first rows of the source are on record and data_as_of is the newest of them.
Complete(asOf, to) == Rows(0, to) \subseteq stored /\ asOf = AsOf(to)

\* An ingestion that has come so far.
Progress(j, to) ==
    /\ j.run \in DOMAIN run /\ to \in 0..Len(source)
    /\ j.ok \in Nat /\ j.failed \in Nat
    /\ j.asOf \in Hours \cup {Never}
    /\ OnRecord(j.asOf)
    /\ j.failed = 0 => Complete(j.asOf, to)

ChunkColumns == {"op", "run", "cursor", "ok", "failed", "asOf", "end", "attempt", "last"}

JobOK(j) ==
    /\ j.op = "read" => Progress(j, j.cursor)
    /\ j.op = "chunk" => /\ Progress(j, j.cursor) /\ DOMAIN j = ChunkColumns
                         /\ j.end \in 0..Len(source) /\ j.cursor < j.end
    /\ j.op = "finish" => Progress(j, j.drained)
    /\ j.op = "recompute" => {"op", "todo"} \subseteq DOMAIN j

RowBacked(r) ==
    /\ r.drained \in 0..Len(source)
    /\ r.status = "SUCCESS" => Complete(r.asOf, r.drained)
    /\ OnRecord(r.asOf)

BannerInv ==
    /\ SourceOK
    /\ run \in Seq(RunRow)
    /\ DOMAIN job = Workers
    /\ \A w \in Workers : JobOK(job[w])
    /\ \A i \in DOMAIN run : RowBacked(run[i])

LEMMA InvBacks == BannerInv => BannerBacked
  BY DEF BannerInv, RowBacked, Complete, AsOf, OnRecord, BannerBacked

\* The tables only grow, the source at its end, and the clock goes on.
Grown ==
    /\ SourceOK' /\ hour <= hour'
    /\ Len(source) <= Len(source') /\ \A i \in DOMAIN source : source'[i] = source[i]
    /\ stored \subseteq stored'
    /\ run' \in Seq(RunRow) /\ DOMAIN run \subseteq DOMAIN run'

LEMMA CompleteStays ==
    ASSUME SourceOK, Grown, NEW asOf, NEW to \in 0..Len(source), Complete(asOf, to)
    PROVE  Complete(asOf, to)' /\ to \in 0..Len(source')
<1>1. Rows(0, to)' = Rows(0, to)
  BY DEF Grown, SourceOK, Rows
<1>2. to \in 0..Len(source')
  BY DEF Grown, SourceOK
<1> QED BY <1>1, <1>2 DEF Complete, AsOf, Grown

LEMMA OnRecordStays ==
    ASSUME SourceOK, Grown, NEW asOf \in Hours \cup {Never}, OnRecord(asOf)
    PROVE  OnRecord(asOf)'
<1>1. Hours \subseteq Nat /\ hour \in Hours /\ hour' \in Hours
  BY TelemetryAssumption DEF SourceOK, Grown
<1> QED BY <1>1 DEF Grown, OnRecord

LEMMA ProgressStays ==
    ASSUME SourceOK, Grown, NEW j, NEW to, Progress(j, to)
    PROVE  Progress(j, to)'
<1>1. OnRecord(j.asOf)'
  BY OnRecordStays DEF Progress
<1>2. to \in 0..Len(source')
  BY DEF Progress, Grown, SourceOK
<1>3. j.failed = 0 => Complete(j.asOf, to)'
  BY CompleteStays DEF Progress
<1> QED BY <1>1, <1>2, <1>3 DEF Progress, Grown

LEMMA JobStays ==
    ASSUME SourceOK, Grown, NEW j, JobOK(j)
    PROVE  JobOK(j)'
<1>1. j.op = "chunk" => j.end \in 0..Len(source')
  BY DEF JobOK, Grown, SourceOK
<1> QED BY <1>1, ProgressStays DEF JobOK

LEMMA RowStays ==
    ASSUME SourceOK, Grown, NEW r \in RunRow, RowBacked(r)
    PROVE  RowBacked(r)'
<1>1. r.asOf \in Hours \cup {Never}
  BY DEF RunRow
<1>2. r.drained \in 0..Len(source')
  BY DEF RowBacked, Grown, SourceOK
<1> QED BY <1>1, <1>2, OnRecordStays, CompleteStays DEF RowBacked

\* A step of an execution that leaves it, and the rows it writes, with what they should know.
LEMMA GrownKeeps ==
    ASSUME BannerInv, Grown, NEW w \in Workers, NEW j, job' = [job EXCEPT ![w] = j], JobOK(j)',
           \A i \in DOMAIN run' : (i \in DOMAIN run /\ run'[i] = run[i]) \/ RowBacked(run[i])'
    PROVE  BannerInv'
<1>0. SourceOK
  BY DEF BannerInv
<1>1. ASSUME NEW v \in Workers PROVE JobOK(job[v])'
  <2>1. CASE v = w
    <3>1. job'[v] = j
      BY <2>1 DEF BannerInv
    <3> QED BY <3>1 DEF JobOK, Progress
  <2>2. CASE v # w
    <3>1. PICK i : i = job[v]
      OBVIOUS
    <3>2. JobOK(i)'
      BY <1>0, <3>1, JobStays DEF BannerInv
    <3>3. job'[v] = i
      BY <2>2, <3>1 DEF BannerInv
    <3> QED BY <3>2, <3>3 DEF JobOK, Progress
  <2> QED BY <2>1, <2>2
<1>2. ASSUME NEW i \in DOMAIN run', i \in DOMAIN run, run'[i] = run[i] PROVE RowBacked(run[i])'
  <2>1. PICK r \in RunRow : r = run[i]
    BY <1>2 DEF BannerInv
  <2>2. RowBacked(r)'
    BY <1>0, <1>2, <2>1, RowStays DEF BannerInv
  <2> QED BY <1>2, <2>1, <2>2 DEF RowBacked
<1>3. \A i \in DOMAIN run' : RowBacked(run[i])'
  BY <1>2
<1>4. DOMAIN job' = Workers
  BY DEF BannerInv
<1> QED BY <1>1, <1>3, <1>4 DEF BannerInv, Grown

\* A step of the environment, or none.
LEMMA EnvironmentGrows ==
    ASSUME BannerInv, Grown, UNCHANGED <<run, job>>
    PROVE  BannerInv'
<1>0. SourceOK
  BY DEF BannerInv
<1>1. ASSUME NEW v \in Workers PROVE JobOK(job[v])'
  <2>1. PICK i : i = job[v]
    OBVIOUS
  <2>2. JobOK(i)'
    BY <1>0, <2>1, JobStays DEF BannerInv
  <2> QED BY <2>1, <2>2 DEF JobOK, Progress
<1>2. ASSUME NEW i \in DOMAIN run PROVE RowBacked(run[i])'
  <2>1. PICK r \in RunRow : r = run[i]
    BY DEF BannerInv
  <2>2. RowBacked(r)'
    BY <1>0, <2>1, RowStays DEF BannerInv
  <2> QED BY <2>1, <2>2 DEF RowBacked
<1> QED BY <1>1, <1>2 DEF BannerInv, Grown

LEMMA BannerInvInit == TelemetryInit /\ job = [w \in Workers |-> Idle] => BannerInv
<1>1. Min(Hours) \in Hours
  BY MinIsLeast, TelemetryAssumption
<1> QED BY <1>1, TelemetryAssumption DEF TelemetryInit, BannerInv, SourceOK, JobOK, Idle

\* Nothing of the source, the record or the runs changes.
LEMMA StillGrown ==
    ASSUME BannerInv, UNCHANGED <<hour, source, run>>, stored \subseteq stored'
    PROVE  Grown
<1>1. hour <= hour
  BY TelemetryAssumption DEF BannerInv, SourceOK
<1>2. Len(source) <= Len(source)
  BY DEF BannerInv, SourceOK
<1> QED BY <1>1, <1>2 DEF BannerInv, SourceOK, Grown

-----------------------------------------------------------------------------
(* The steps of the ingestion                                             *)

LEMMA StartKeeps ==
    ASSUME BannerInv, NEW w \in Workers, StartRun(w)
    PROVE  BannerInv'
<1>1. PICK r : r = [status |-> "RUNNING", asOf |-> Never, drained |-> 0]
  OBVIOUS
<1>2. PICK j : j = [op |-> "read", run |-> Len(run) + 1, cursor |-> 0, ok |-> 0, failed |-> 0,
                    asOf |-> Never]
  OBVIOUS
<1>3. r \in RunRow
  BY <1>1, TelemetryAssumption DEF RunRow
<1>4. /\ run' = Append(run, r) /\ job' = [job EXCEPT ![w] = j]
      /\ UNCHANGED <<hour, source, stored>>
  BY <1>1, <1>2 DEF StartRun, Begin
<1>5. /\ run' \in Seq(RunRow) /\ DOMAIN run' = DOMAIN run \cup {Len(run) + 1}
      /\ run'[Len(run) + 1] = r /\ \A i \in DOMAIN run : run'[i] = run[i]
  BY <1>3, <1>4 DEF BannerInv
<1>6. Grown
  <2>1. SourceOK' /\ hour <= hour' /\ Len(source) <= Len(source')
    BY <1>4, TelemetryAssumption DEF BannerInv, SourceOK
  <2> QED BY <1>4, <1>5, <2>1 DEF Grown
<1>7. 0 \in 0..Len(source')
  BY <1>6 DEF Grown, SourceOK
<1>8. Complete(Never, 0)' /\ OnRecord(Never)'
  BY DEF Complete, OnRecord, AsOf, Rows
<1>9. JobOK(j)'
  BY <1>2, <1>5, <1>7, <1>8 DEF JobOK, Progress
<1>10. RowBacked(r)'
  BY <1>1, <1>7, <1>8 DEF RowBacked
<1>11. \A i \in DOMAIN run' : (i \in DOMAIN run /\ run'[i] = run[i]) \/ RowBacked(run[i])'
  BY <1>5, <1>10 DEF RowBacked
<1> QED BY <1>4, <1>6, <1>9, <1>11, GrownKeeps

LEMMA ReadChunkKeeps ==
    ASSUME BannerInv, NEW w \in Workers, ReadChunk(w)
    PROVE  BannerInv'
<1>1. PICK j : j = job[w]
  OBVIOUS
<1>2. PICK end : end = ChunkEnd(j.cursor)
  OBVIOUS
<1>3. Progress(j, j.cursor)
  BY <1>1 DEF ReadChunk, Running, BannerInv, JobOK
<1>4. end \in 0..Len(source)
  <2>1. j.cursor + ChunkSize \in Nat /\ Len(source) \in Nat
    BY <1>3, TelemetryAssumption DEF Progress, BannerInv, SourceOK
  <2>2. PICK S \in SUBSET Nat : S = {j.cursor + ChunkSize, Len(source)}
    BY <2>1
  <2>3. Min(S) \in S /\ \A x \in S : Min(S) <= x
    BY <2>2, MinIsLeast
  <2> QED BY <1>2, <2>1, <2>2, <2>3 DEF ChunkEnd
<1>5. PICK next : next = [op |-> "chunk", run |-> j.run, cursor |-> j.cursor, ok |-> j.ok,
                          failed |-> j.failed, asOf |-> j.asOf, end |-> end, attempt |-> 1,
                          last |-> end >= Len(source)]
  OBVIOUS
<1>6. PICK done : done = [op |-> "finish", run |-> j.run, ok |-> j.ok, failed |-> j.failed,
                          asOf |-> j.asOf, drained |-> j.cursor]
  OBVIOUS
<1>7. /\ UNCHANGED telemetry
      /\ \/ end > j.cursor /\ job' = [job EXCEPT ![w] = next]
         \/ job' = [job EXCEPT ![w] = done]
  BY <1>1, <1>2, <1>5, <1>6 DEF ReadChunk, Proceed
<1>8. Grown
  BY <1>7, StillGrown DEF telemetry
<1>9. Progress(j, j.cursor)' /\ end \in 0..Len(source')
  BY <1>3, <1>4, <1>7, <1>8, ProgressStays DEF BannerInv, telemetry
<1>10. JobOK(done)'
  BY <1>6, <1>9 DEF JobOK, Progress
<1>11. j.cursor < end => JobOK(next)'
  BY <1>5, <1>9 DEF JobOK, Progress, ChunkColumns
<1>12. \A i \in DOMAIN run' : i \in DOMAIN run /\ run'[i] = run[i]
  BY <1>7 DEF telemetry
<1>13. end > j.cursor => j.cursor < end
  BY <1>3, <1>4 DEF Progress
<1> QED BY <1>7, <1>8, <1>10, <1>11, <1>12, <1>13, GrownKeeps

\* The chunk in hand is over: what the execution takes with it.
LEMMA NextChunkKeeps ==
    ASSUME BannerInv, NEW w \in Workers, NEW j, NEW end, end = job[w].end, NextChunk(w, j),
           Grown, UNCHANGED run, Progress(j, end)'
    PROVE  BannerInv'
<1>1. PICK done : done = [op |-> "finish", run |-> j.run, ok |-> j.ok, failed |-> j.failed,
                          asOf |-> j.asOf, drained |-> end]
  OBVIOUS
<1>2. PICK next : next = [op |-> "read", run |-> j.run, cursor |-> end, ok |-> j.ok,
                          failed |-> j.failed, asOf |-> j.asOf]
  OBVIOUS
<1>3. job' = [job EXCEPT ![w] = done] \/ job' = [job EXCEPT ![w] = next]
  BY <1>1, <1>2 DEF NextChunk, Proceed
<1>4. JobOK(done)'
  BY <1>1 DEF JobOK, Progress
<1>5. JobOK(next)'
  BY <1>2 DEF JobOK, Progress
<1> QED BY <1>3, <1>4, <1>5, GrownKeeps

\* What a chunk execution knows.
LEMMA ChunkOf ==
    ASSUME BannerInv, NEW w \in Workers, Running(w, "chunk"), NEW c, c = job[w]
    PROVE  /\ Progress(c, c.cursor) /\ DOMAIN c = ChunkColumns
           /\ c.cursor \in Nat /\ c.end \in 0..Len(source) /\ c.cursor < c.end
  BY DEF Running, BannerInv, JobOK, Progress

\* A chunk that is stored extends what is on record and what data_as_of says of it.
LEMMA IngestKeeps ==
    ASSUME BannerInv, NEW w \in Workers, IngestChunk(w)
    PROVE  BannerInv'
<1>1. PICK c : c = job[w]
  OBVIOUS
<1>2. PICK rows : rows = Rows(c.cursor, c.end)
  OBVIOUS
<1>3. PICK n : n = Newest(c.asOf, rows)
  OBVIOUS
<1>4. PICK j : j = [c EXCEPT !.ok = @ + 1, !.asOf = n]
  OBVIOUS
<1>5. /\ stored' = stored \cup rows /\ NextChunk(w, j) /\ UNCHANGED <<hour, source, run>>
  BY <1>1, <1>2, <1>3, <1>4 DEF IngestChunk
<1>6. /\ Progress(c, c.cursor) /\ DOMAIN c = ChunkColumns
      /\ c.cursor \in Nat /\ c.end \in 0..Len(source) /\ c.cursor < c.end
  BY <1>1, ChunkOf DEF IngestChunk
<1>7. /\ j.run = c.run /\ j.failed = c.failed /\ j.ok = c.ok + 1 /\ j.asOf = n
  BY <1>4, <1>6 DEF ChunkColumns
<1>8. Grown
  BY <1>5, StillGrown
<1>9. SourceOK
  BY DEF BannerInv
<1>10. /\ n \in Hours /\ n <= hour
       /\ n \in Heard(c.cursor, c.end) \/ (c.asOf # Never /\ n = c.asOf)
  BY <1>2, <1>3, <1>6, <1>9, NewestOf DEF Progress, OnRecord
<1>11. OnRecord(n)'
  <2>1. \E r \in stored' : r.at = n
    BY <1>2, <1>5, <1>6, <1>10 DEF Progress, OnRecord, Heard
  <2> QED BY <1>5, <1>10, <2>1 DEF OnRecord
<1>12. c.failed = 0 => Complete(n, c.end)
          \/ (Rows(0, c.end) \subseteq stored' /\ n = AsOf(c.end))
  <2>1. Rows(0, c.end) = Rows(0, c.cursor) \cup rows
    <3>1. PICK from, to : from = c.cursor /\ to = c.end
      OBVIOUS
    <3>2. from \in Nat /\ to \in Nat /\ from < to
      BY <1>6, <1>9, <3>1 DEF SourceOK
    <3>3. (0 + 1)..to = ((0 + 1)..from) \cup ((from + 1)..to)
      BY <3>2
    <3> QED BY <1>2, <3>1, <3>3 DEF Rows
  <2>2. Newest(AsOf(c.cursor), Rows(c.cursor, c.end)) = AsOf(c.end)
    BY <1>6, <1>9, NewestJoins
  <2> QED BY <1>2, <1>3, <1>5, <1>6, <2>1, <2>2 DEF Progress, Complete
<1>13. c.failed = 0 => Complete(n, c.end)'
  <2>1. Rows(0, c.end)' = Rows(0, c.end)
    BY <1>5 DEF Rows
  <2>2. AsOf(c.end)' = AsOf(c.end)
    BY <1>5, <2>1 DEF AsOf
  <2> QED BY <1>5, <1>12, <2>1, <2>2 DEF Complete
<1>14. Progress(j, c.end)'
  BY <1>5, <1>6, <1>7, <1>10, <1>11, <1>13 DEF Progress
<1> QED BY <1>1, <1>5, <1>8, <1>14, NextChunkKeeps

\* An attempt that fails may have been stored all the same.
LEMMA FailAttemptKeeps ==
    ASSUME BannerInv, NEW w \in Workers, FailAttempt(w)
    PROVE  BannerInv'
<1>1. PICK c : c = job[w]
  OBVIOUS
<1>2. PICK j : j = [c EXCEPT !.attempt = @ + 1]
  OBVIOUS
<1>3. stored \subseteq stored' /\ UNCHANGED <<hour, source, run>> /\ job' = [job EXCEPT ![w] = j]
  BY <1>1, <1>2 DEF FailAttempt, Proceed
<1>4. Grown
  BY <1>3, StillGrown
<1>5. JobOK(c) /\ c.op = "chunk"
  BY <1>1 DEF BannerInv, FailAttempt, Running
<1>6. DOMAIN c = ChunkColumns
  BY <1>5 DEF JobOK
<1>7. /\ DOMAIN j = ChunkColumns /\ j.op = "chunk" /\ j.run = c.run /\ j.ok = c.ok
      /\ j.failed = c.failed /\ j.asOf = c.asOf /\ j.cursor = c.cursor /\ j.end = c.end
  BY <1>2, <1>5, <1>6 DEF ChunkColumns
<1>8. JobOK(c)'
  BY <1>4, <1>5, JobStays DEF BannerInv
<1>9. JobOK(j)'
  BY <1>5, <1>7, <1>8 DEF JobOK, Progress
<1> QED BY <1>3, <1>4, <1>9, GrownKeeps

\* A chunk that is given up is counted, and nothing is claimed of the record any more.
LEMMA FailChunkKeeps ==
    ASSUME BannerInv, NEW w \in Workers, FailChunk(w)
    PROVE  BannerInv'
<1>1. PICK c : c = job[w]
  OBVIOUS
<1>2. PICK j : j = [c EXCEPT !.failed = @ + 1]
  OBVIOUS
<1>3. stored \subseteq stored' /\ UNCHANGED <<hour, source, run>> /\ NextChunk(w, j)
  BY <1>1, <1>2 DEF FailChunk
<1>4. Grown
  BY <1>3, StillGrown
<1>5. /\ Progress(c, c.cursor) /\ DOMAIN c = ChunkColumns
      /\ c.end \in 0..Len(source)
  BY <1>1, ChunkOf DEF FailChunk
<1>6. /\ j.run = c.run /\ j.failed = c.failed + 1 /\ j.ok = c.ok /\ j.asOf = c.asOf
  BY <1>2, <1>5 DEF ChunkColumns
<1>7. OnRecord(c.asOf)'
  BY <1>4, <1>5, OnRecordStays DEF BannerInv, Progress
<1>8. j.failed \in Nat /\ j.failed # 0
  BY <1>5, <1>6 DEF Progress
<1>9. Progress(j, c.end)'
  BY <1>3, <1>5, <1>6, <1>7, <1>8 DEF Progress
<1> QED BY <1>1, <1>3, <1>4, <1>9, NextChunkKeeps

\* A run is SUCCESS only when no chunk was given up.
LEMMA FinishKeeps ==
    ASSUME BannerInv, NEW w \in Workers, FinishRun(w)
    PROVE  BannerInv'
<1>1. PICK j : j = job[w]
  OBVIOUS
<1>2. PICK r : r = [status |-> Outcome(j), drained |-> j.drained,
                    asOf |-> IF Outcome(j) = "FAILED" THEN Never ELSE j.asOf]
  OBVIOUS
<1>3. run' = [run EXCEPT ![j.run] = r] /\ UNCHANGED <<hour, source, stored>>
      /\ job' = [job EXCEPT ![w] = Idle]
  BY <1>1, <1>2 DEF FinishRun, Finish
<1>4. Progress(j, j.drained)
  BY <1>1 DEF FinishRun, Running, BannerInv, JobOK
<1>5. /\ Outcome(j) \in {"SUCCESS", "FAILED", "PARTIAL"}
      /\ Outcome(j) = "SUCCESS" <=> j.failed = 0
  BY DEF Outcome
<1>6. j.drained \in 0..MaxPings
  BY <1>4, TelemetryAssumption DEF Progress, BannerInv, SourceOK
<1>7. r \in RunRow
  BY <1>2, <1>4, <1>5, <1>6 DEF RunRow, Progress
<1>8. /\ run' \in Seq(RunRow) /\ DOMAIN run' = DOMAIN run /\ j.run \in DOMAIN run
      /\ \A i \in DOMAIN run : run'[i] = IF i = j.run THEN r ELSE run[i]
  BY <1>3, <1>4, <1>7 DEF Progress, BannerInv
<1>9. Grown
  <2>1. SourceOK' /\ hour <= hour' /\ Len(source) <= Len(source')
    BY <1>3, TelemetryAssumption DEF BannerInv, SourceOK
  <2> QED BY <1>3, <1>8, <2>1 DEF Grown
<1>10. RowBacked(r)
  BY <1>2, <1>4, <1>5 DEF RowBacked, Progress, OnRecord
<1>11. RowBacked(r)'
  BY <1>7, <1>9, <1>10, RowStays DEF BannerInv
<1>12. \A i \in DOMAIN run' : (i \in DOMAIN run /\ run'[i] = run[i]) \/ RowBacked(run[i])'
  BY <1>8, <1>11 DEF RowBacked
<1>13. JobOK(Idle)'
  BY DEF JobOK, Idle
<1> QED BY <1>3, <1>9, <1>12, <1>13, GrownKeeps

-----------------------------------------------------------------------------
(* The other steps                                                        *)

\* A step that writes nothing of this and leaves no part of a run in flight.
LEMMA PlainKeeps ==
    ASSUME BannerInv, NEW w \in Workers, NEW j, UNCHANGED <<hour, source, stored, run>>,
           job' = [job EXCEPT ![w] = j],
           j.op = "idle" \/ (j.op = "recompute" /\ {"op", "todo"} \subseteq DOMAIN j)
    PROVE  BannerInv'
<1>1. Grown
  BY StillGrown
<1>2. JobOK(j)'
  BY DEF JobOK
<1> QED BY <1>1, <1>2, GrownKeeps

\* Recomputing the device states, and ending halfway, write nothing of this.
LEMMA OthersKeep ==
    ASSUME BannerInv, NEW w \in Workers,
           RecomputeRead(w) \/ (\E d \in Trackers : Upsert(w, d))
              \/ (Abandon(w) /\ UNCHANGED telemetry)
    PROVE  BannerInv'
<1>1. UNCHANGED <<hour, source, stored, run>>
  BY DEF RecomputeRead, Upsert, telemetry
<1>2. ASSUME Finish(w) PROVE BannerInv'
  <2>1. PICK j : job' = [job EXCEPT ![w] = j] /\ j = Idle
    BY <1>2 DEF Finish
  <2>2. j.op = "idle"
    BY <2>1 DEF Idle
  <2>3. j.op = "idle" \/ (j.op = "recompute" /\ {"op", "todo"} \subseteq DOMAIN j)
    BY <2>2
  <2> QED BY <1>1, <2>1, <2>3, PlainKeeps
<1>3. CASE RecomputeRead(w)
  <2>1. PICK j : /\ job' = [job EXCEPT ![w] = j]
                 /\ j = [op |-> "recompute", now |-> hour, todo |-> Trackers,
                         latest |-> [d \in Trackers |-> LatestOf(d)]]
    BY <1>3 DEF RecomputeRead, Begin
  <2>2. j.op = "recompute" /\ {"op", "todo"} \subseteq DOMAIN j
    BY <2>1
  <2> QED BY <1>1, <2>1, <2>2, PlainKeeps
<1>4. ASSUME NEW d \in Trackers, Upsert(w, d) PROVE BannerInv'
  <2>1. PICK i : i = job[w]
    OBVIOUS
  <2>2. i.op = "recompute" /\ {"op", "todo"} \subseteq DOMAIN i
    BY <1>4, <2>1 DEF Upsert, Running, BannerInv, JobOK
  <2>3. PICK j : j = [i EXCEPT !.todo = @ \ {d}]
    OBVIOUS
  <2>4. j.op = "recompute" /\ {"op", "todo"} \subseteq DOMAIN j
    BY <2>2, <2>3
  <2>5. Finish(w) \/ job' = [job EXCEPT ![w] = j]
    BY <1>4, <2>1, <2>3 DEF Upsert, Proceed
  <2> QED BY <1>1, <1>2, <2>4, <2>5, PlainKeeps
<1>5. CASE Abandon(w) /\ UNCHANGED telemetry
  BY <1>2, <1>5 DEF Abandon
<1> QED BY <1>3, <1>4, <1>5

\* The clock goes on, and a device is heard.
LEMMA EnvironmentKeeps ==
    ASSUME BannerInv, TelemetryEnvironment
    PROVE  BannerInv'
<1>0. Hours \subseteq Nat /\ SourceOK /\ hour \in Nat
  BY TelemetryAssumption DEF BannerInv, SourceOK
<1>1. \A i \in DOMAIN source : source[i] \in Ping /\ source[i].at \in Nat /\ source[i].at <= hour
  <2>1. \A i \in DOMAIN source : source[i] \in Ping
    BY <1>0 DEF SourceOK
  <2> QED BY <1>0, <2>1 DEF Ping, SourceOK
<1>2. run \in Seq(RunRow)
  BY DEF BannerInv
<1>3. CASE HoursPass
  <2>1. PICK S \in SUBSET Nat : S = {h \in Hours : h > hour}
    BY <1>0
  <2>2. S # {} /\ hour' = Min(S)
    BY <1>3, <2>1 DEF HoursPass
  <2>3. PICK m \in S : m = Min(S)
    BY <2>2, MinIsLeast
  <2>4. m \in Hours /\ m \in Nat /\ hour <= m /\ hour' = m
    BY <1>0, <2>1, <2>2, <2>3
  <2>5. UNCHANGED <<source, stored, run, job>>
    BY <1>3 DEF HoursPass
  <2>6. \A i \in DOMAIN source : source[i].at <= m
    BY <1>0, <1>1, <2>4
  <2>7. SourceOK'
    BY <1>0, <2>4, <2>5, <2>6 DEF SourceOK
  <2>8. Len(source) <= Len(source')
    BY <1>0, <2>5 DEF SourceOK
  <2>9. Grown
    BY <1>2, <2>4, <2>5, <2>7, <2>8 DEF Grown
  <2> QED BY <2>5, <2>9, EnvironmentGrows
<1>4. ASSUME NEW d \in Trackers, NEW at \in Hours, DevicePings(d, at) PROVE BannerInv'
  <2>1. PICK p \in Ping : p = [d |-> d, at |-> at]
    BY DEF Ping
  <2>2. /\ source' = Append(source, p) /\ at <= hour /\ Len(source) < MaxPings
        /\ UNCHANGED <<hour, stored, run, job>>
    BY <1>4, <2>1 DEF DevicePings
  <2>3. p.at = at
    BY <2>1
  <2>4. /\ source' \in Seq(Ping) /\ Len(source') = Len(source) + 1
        /\ \A i \in DOMAIN source : i \in DOMAIN source' /\ source'[i] = source[i]
        /\ \A i \in DOMAIN source' : i \in DOMAIN source \/ source'[i] = p
    BY <1>0, <2>2 DEF SourceOK
  <2>5. Len(source) \in Nat /\ Len(source') <= MaxPings /\ Len(source) <= Len(source')
    BY <1>0, <2>2, <2>4, TelemetryAssumption DEF SourceOK
  <2>6. \A i \in DOMAIN source' : source'[i].at <= hour
    BY <1>1, <2>2, <2>3, <2>4
  <2>7. SourceOK'
    BY <1>0, <2>2, <2>4, <2>5, <2>6 DEF SourceOK
  <2>8. hour <= hour'
    BY <1>0, <2>2
  <2>9. Grown
    BY <1>2, <2>2, <2>4, <2>5, <2>7, <2>8 DEF Grown
  <2> QED BY <2>2, <2>9, EnvironmentGrows
<1> QED BY <1>3, <1>4 DEF TelemetryEnvironment

TelemetryNext == (\E w \in Workers : TelemetryStep(w)) \/ TelemetryEnvironment

LEMMA BannerInvNext == BannerInv /\ [TelemetryNext]_telemetryVars => BannerInv'
<1> SUFFICES ASSUME BannerInv, [TelemetryNext]_telemetryVars PROVE BannerInv'
  OBVIOUS
<1>1. ASSUME NEW w \in Workers, TelemetryStep(w) PROVE BannerInv'
  BY <1>1, StartKeeps, ReadChunkKeeps, IngestKeeps, FailAttemptKeeps, FailChunkKeeps,
     FinishKeeps, OthersKeep DEF TelemetryStep
<1>2. CASE UNCHANGED telemetryVars
  <2>1. UNCHANGED <<hour, source, stored, run, job>>
    BY <1>2 DEF telemetryVars, telemetry
  <2> QED BY <2>1, StillGrown, EnvironmentGrows
<1> QED BY <1>1, <1>2, EnvironmentKeeps DEF TelemetryNext

\* The banner shows the newest ping of a run all of whose rows are on record, over failed
\* attempts, answers lost after the commit, chunks given up and crashes, for any source, any
\* size of a chunk and any executions that overlap.
THEOREM BannerBackedHolds == TelemetrySpec => []BannerBacked
<1>1. BannerInv => BannerBacked
  BY InvBacks
<1> QED BY BannerInvInit, BannerInvNext, <1>1, PTL DEF TelemetrySpec, TelemetryNext


-----------------------------------------------------------------------------
(* The recommender's run: what it remembers agrees with the rows it has left *)

RunJob == [op : {"recommend", "block"}, todo : Seq(Work), used : [Candidates -> Nat],
           looked : SUBSET Candidates, present : SUBSET Candidates, kitted : SUBSET Candidates,
           mine : SUBSET (Nat \ {0})]

RowsFor(e, mine, rows) == {i \in mine : rows[i].se = e}

\* What a run counts is what it has written, and never more than the capacity.
Counted(used, mine, rows) ==
    \A e \in Candidates :
       used[e] = Cardinality(RowsFor(e, mine, rows)) /\ used[e] <= Capacity[e]

\* A run knows all the engineers of a ticket it leaves out: later looks change nothing.
LeftOut(j, rows) ==
    \A i \in j.mine : rows[i].se = NoCandidate =>
       \A e \in ToSet(CandidatesOf(rows[i].t)) :
          /\ e \in j.looked
          /\ e \notin j.present \/ e \notin j.kitted \/ j.used[e] = Capacity[e]

Precedes(t, u) == Attr[t].kind = Attr[u].kind => Attr[t].tier >= Attr[u].tier

Ordered(q) == \A i, k \in DOMAIN q : i < k => Precedes(q[i], q[k])

TierOrder(todo, mine, rows) ==
    /\ Ordered(todo)
    /\ \A i, k \in mine : i < k => Precedes(rows[i].t, rows[k].t)
    /\ \A i \in mine, k \in DOMAIN todo : Precedes(rows[i].t, todo[k])

\* It speaks of the run's own rows alone: what another run writes leaves it as it is.
FairRun(j, rows) ==
    /\ j.mine \subseteq DOMAIN rows
    /\ Counted(j.used, j.mine, rows)
    /\ LeftOut(j, rows)
    /\ TierOrder(j.todo, j.mine, rows)

ZoneJob(x, rows) ==
    \/ x = Idle
    \/ x \in RunJob /\ FairRun(x, rows) /\ (x.op = "block" => x.todo # <<>>)
    \/ /\ x \in [op : {"suggest"}, j : RunJob, se : Candidates]
       /\ FairRun(x.j, rows)
       /\ x.j.op = "recommend" /\ x.j.todo # <<>>
       /\ x.j.used[x.se] < Capacity[x.se]

ZoneInv ==
    /\ RecommenderTypeOK
    /\ job = [w \in Workers |-> job[w]]
    /\ \A w \in Workers : ZoneJob(job[w], suggested)

-----------------------------------------------------------------------------
(* Canonical order                                                        *)

LEMMA LexOnTier ==
    ASSUME NEW t \in Work, NEW u \in Work, ~LexBefore(Key(u), Key(t))
    PROVE  Attr[t].tier >= Attr[u].tier
<1>1. Attr[t].tier \in 0..2 /\ Attr[u].tier \in 0..2
  BY RecommenderAssumption DEF AttrRow
<1>2. 1 \in DOMAIN Key(u) /\ Key(u)[1] = 2 - Attr[u].tier /\ Key(t)[1] = 2 - Attr[t].tier
  BY DEF Key
<1>3. ~(Key(u)[1] < Key(t)[1])
  <2>1. \A h \in 1..(1 - 1) : Key(u)[h] = Key(t)[h]
    OBVIOUS
  <2> QED BY <1>2, <2>1 DEF LexBefore
<1> QED BY <1>1, <1>2, <1>3

LEMMA OrdersAre ==
    ASSUME NEW ts \in SUBSET Work, NEW q \in CanonicalOrders(ts)
    PROVE  q \in Seq(ts) /\ q \in Seq(Work) /\ Ordered(q)
<1>1. IsFiniteSet(ts)
  BY RecommenderAssumption, FS_Subset
<1>2. Cardinality(ts) \in Nat
  BY <1>1, FS_CardinalityType
<1>3. q \in [1..Cardinality(ts) -> ts]
  BY DEF CanonicalOrders, SetToSeqs
<1>4. q \in Seq(ts)
  BY <1>2, <1>3
<1>5. ASSUME NEW i \in DOMAIN q, NEW k \in DOMAIN q, i < k
      PROVE  Precedes(q[i], q[k])
  <2>1. q[i] \in Work /\ q[k] \in Work
    BY <1>3
  <2>2. ~LexBefore(Key(q[k]), Key(q[i]))
    BY <1>5 DEF CanonicalOrders
  <2> QED BY <2>1, <2>2, LexOnTier DEF Precedes
<1> QED BY <1>3, <1>4, <1>5 DEF Ordered

\* Troubleshooting comes first, installations after it: within a kind the order is canonical.
LEMMA RunListOrdered ==
    ASSUME unassigned \subseteq Work, NEW mode, NEW list \in RunLists(mode)
    PROVE  list \in Seq(Work) /\ Ordered(list)
<1>1. PICK q, r : /\ q \in CanonicalOrders(Rankable)
                  /\ r \in CanonicalOrders(IF mode = "PREVENTIVE" THEN InstallBacklog ELSE {})
                  /\ list = q \o r
  BY DEF RunLists
<1> DEFINE back == IF mode = "PREVENTIVE" THEN InstallBacklog ELSE {}
<1>2. Rankable \in SUBSET Work /\ back \in SUBSET Work
  BY DEF Rankable, InstallBacklog, OfKind
<1>3. q \in Seq(Work) /\ Ordered(q) /\ r \in Seq(Work) /\ Ordered(r)
  BY <1>1, <1>2, OrdersAre
<1>4. \A i \in DOMAIN q : Attr[q[i]].kind = "TROUBLESHOOT"
  <2>1. q \in Seq(Rankable)
    BY <1>1, <1>2, OrdersAre
  <2> QED BY <2>1 DEF Rankable, OfKind
<1>5. \A i \in DOMAIN r : Attr[r[i]].kind = "INSTALL"
  <2>1. r \in Seq(back)
    BY <1>1, <1>2, OrdersAre
  <2> QED BY <2>1 DEF InstallBacklog, OfKind
<1>6. list \in Seq(Work) /\ Len(list) = Len(q) + Len(r)
  BY <1>1, <1>3
<1>7. ASSUME NEW i \in DOMAIN list, NEW k \in DOMAIN list, i < k
      PROVE  Precedes(list[i], list[k])
  <2>1. CASE k <= Len(q)
    <3>1. i \in DOMAIN q /\ k \in DOMAIN q /\ list[i] = q[i] /\ list[k] = q[k]
      BY <1>1, <1>3, <1>6, <1>7, <2>1
    <3> QED BY <1>3, <1>7, <3>1 DEF Ordered
  <2>2. CASE i <= Len(q) /\ k > Len(q)
    <3>1. i \in DOMAIN q /\ k - Len(q) \in DOMAIN r
          /\ list[i] = q[i] /\ list[k] = r[k - Len(q)]
      BY <1>1, <1>3, <1>6, <1>7, <2>2
    <3> QED BY <1>4, <1>5, <3>1 DEF Precedes
  <2>3. CASE i > Len(q)
    <3>1. /\ i - Len(q) \in DOMAIN r /\ k - Len(q) \in DOMAIN r /\ i - Len(q) < k - Len(q)
          /\ list[i] = r[i - Len(q)] /\ list[k] = r[k - Len(q)]
      BY <1>1, <1>3, <1>6, <1>7, <2>3
    <3> QED BY <1>3, <3>1 DEF Ordered
  <2> QED BY <1>3, <1>6, <2>1, <2>2, <2>3
<1> QED BY <1>6, <1>7 DEF Ordered

-----------------------------------------------------------------------------
(* A row more                                                             *)

LEMMA OneRowMore ==
    ASSUME NEW rows \in Seq(Suggestion), NEW row \in Suggestion
    PROVE  /\ DOMAIN Append(rows, row) = DOMAIN rows \cup {Len(rows) + 1}
           /\ Append(rows, row)[Len(rows) + 1] = row
           /\ Len(rows) + 1 \in Nat \ {0} /\ Len(rows) + 1 \notin DOMAIN rows
           /\ \A i \in DOMAIN rows : i < Len(rows) + 1 /\ Append(rows, row)[i] = rows[i]
OBVIOUS

LEMMA MineFinite ==
    ASSUME NEW rows \in Seq(Suggestion), NEW mine, mine \subseteq DOMAIN rows, NEW e
    PROVE  IsFiniteSet(RowsFor(e, mine, rows))
<1>1. DOMAIN rows = 1..Len(rows) /\ Len(rows) \in Nat
  OBVIOUS
<1>2. IsFiniteSet(1..Len(rows))
  BY <1>1, FS_Interval
<1>3. RowsFor(e, mine, rows) \subseteq 1..Len(rows)
  BY <1>1 DEF RowsFor
<1> QED BY <1>2, <1>3, FS_Subset

\* The rows of one run under a row that another one writes.
LEMMA OthersRowKeeps ==
    ASSUME NEW rows \in Seq(Suggestion), NEW row \in Suggestion, NEW j, FairRun(j, rows)
    PROVE  FairRun(j, Append(rows, row))
<1> DEFINE all == Append(rows, row)
<1>1. /\ DOMAIN rows \subseteq DOMAIN all
      /\ \A i \in DOMAIN rows : all[i] = rows[i]
  BY OneRowMore
<1>2. j.mine \subseteq DOMAIN rows
  BY DEF FairRun
<1>3. \A i \in j.mine : all[i] = rows[i]
  BY <1>1, <1>2
<1>4. ASSUME NEW e PROVE RowsFor(e, j.mine, all) = RowsFor(e, j.mine, rows)
  BY <1>3 DEF RowsFor
<1> HIDE DEF all
<1>5. Counted(j.used, j.mine, all)
  BY <1>4 DEF FairRun, Counted
<1>6. LeftOut(j, all)
  BY <1>3 DEF FairRun, LeftOut
<1>7. TierOrder(j.todo, j.mine, all)
  BY <1>3 DEF FairRun, TierOrder
<1> QED BY <1>1, <1>2, <1>5, <1>6, <1>7 DEF FairRun, all

LEMMA CountedWithout ==
    ASSUME NEW rows \in Seq(Suggestion), NEW row \in Suggestion, NEW mine,
           mine \subseteq DOMAIN rows, NEW used, Counted(used, mine, rows), row.se = NoCandidate
    PROVE  Counted(used, mine \cup {Len(rows) + 1}, Append(rows, row))
<1>1. ASSUME NEW e \in Candidates
      PROVE  RowsFor(e, mine \cup {Len(rows) + 1}, Append(rows, row)) = RowsFor(e, mine, rows)
  <2>1. e # NoCandidate
    BY RecommenderAssumption DEF NoCandidate
  <2> QED BY <2>1, OneRowMore DEF RowsFor
<1> QED BY <1>1 DEF Counted

LEMMA CountedWith ==
    ASSUME NEW rows \in Seq(Suggestion), NEW row \in Suggestion, NEW mine,
           mine \subseteq DOMAIN rows, NEW used \in [Candidates -> Nat],
           Counted(used, mine, rows), row.se \in Candidates, used[row.se] < Capacity[row.se]
    PROVE  Counted([used EXCEPT ![row.se] = @ + 1], mine \cup {Len(rows) + 1},
                   Append(rows, row))
<1> DEFINE now == [used EXCEPT ![row.se] = @ + 1]
           all == Append(rows, row)
           ours == mine \cup {Len(rows) + 1}
<1>0. /\ all[Len(rows) + 1] = row /\ Len(rows) + 1 \notin mine
      /\ \A i \in mine : all[i] = rows[i]
  BY OneRowMore
<1>1. ASSUME NEW e \in Candidates, e # row.se
      PROVE  now[e] = Cardinality(RowsFor(e, ours, all)) /\ now[e] <= Capacity[e]
  <2>1. RowsFor(e, ours, all) = RowsFor(e, mine, rows)
    BY <1>0, <1>1 DEF RowsFor
  <2> QED BY <1>1, <2>1 DEF Counted
<1>2. now[row.se] = Cardinality(RowsFor(row.se, ours, all)) /\ now[row.se] <= Capacity[row.se]
  <2>1. RowsFor(row.se, ours, all) = RowsFor(row.se, mine, rows) \cup {Len(rows) + 1}
    BY <1>0 DEF RowsFor
  <2>2. Len(rows) + 1 \notin RowsFor(row.se, mine, rows)
    BY <1>0 DEF RowsFor
  <2>3. IsFiniteSet(RowsFor(row.se, mine, rows))
    BY MineFinite
  <2>4. Cardinality(RowsFor(row.se, ours, all)) = Cardinality(RowsFor(row.se, mine, rows)) + 1
    BY <2>1, <2>2, <2>3, FS_AddElement
  <2>5. Capacity[row.se] \in Nat
    BY RecommenderAssumption
  <2> QED BY <2>4, <2>5 DEF Counted
<1> QED BY <1>1, <1>2 DEF Counted

LEMMA OrderWith ==
    ASSUME NEW rows \in Seq(Suggestion), NEW row \in Suggestion, NEW mine,
           mine \subseteq DOMAIN rows,
           NEW todo \in Seq(Work), TierOrder(todo, mine, rows), todo # <<>>, row.t = Head(todo)
    PROVE  TierOrder(todo, mine \cup {Len(rows) + 1}, Append(rows, row))
<1> DEFINE all == Append(rows, row)
           ours == mine \cup {Len(rows) + 1}
<1>1. 1 \in DOMAIN todo /\ row.t = todo[1] /\ todo[1] \in Work
  OBVIOUS
<1>2. /\ all[Len(rows) + 1] = row
      /\ \A i \in mine : i \in 1..Len(rows) /\ i < Len(rows) + 1 /\ all[i] = rows[i]
  BY OneRowMore
<1> HIDE DEF all
<1>3. Precedes(row.t, row.t)
  <2>1. Attr[row.t] \in AttrRow
    BY <1>1, RecommenderAssumption
  <2>2. Attr[row.t].tier \in 0..2
    BY <2>1 DEF AttrRow
  <2> QED BY <2>2 DEF Precedes
<1>4. ASSUME NEW k \in DOMAIN todo PROVE Precedes(row.t, todo[k])
  <2>1. k = 1 \/ 1 < k
    OBVIOUS
  <2> QED BY <1>1, <1>3, <2>1 DEF TierOrder, Ordered
<1>5. ASSUME NEW i \in ours, NEW k \in DOMAIN todo PROVE Precedes(all[i].t, todo[k])
  BY <1>2, <1>4 DEF TierOrder
<1>6. ASSUME NEW i \in ours, NEW k \in ours, i < k
      PROVE  Precedes(all[i].t, all[k].t)
  <2>1. i \in mine
    <3>1. i = Len(rows) + 1 => FALSE
      BY <1>2, <1>6
    <3> QED BY <3>1
  <2>2. CASE k \in mine
    BY <1>2, <1>6, <2>1, <2>2 DEF TierOrder
  <2>3. CASE k = Len(rows) + 1
    BY <1>1, <1>2, <2>1, <2>3 DEF TierOrder
  <2> QED BY <2>2, <2>3
<1> QED BY <1>5, <1>6 DEF TierOrder, all

LEMMA OrderTail ==
    ASSUME NEW rows, NEW mine, NEW todo \in Seq(Work), TierOrder(todo, mine, rows), todo # <<>>
    PROVE  TierOrder(Tail(todo), mine, rows)
<1>1. \A k \in DOMAIN Tail(todo) : k + 1 \in DOMAIN todo /\ Tail(todo)[k] = todo[k + 1]
  OBVIOUS
<1>2. \A i, k \in DOMAIN Tail(todo) : i < k => i + 1 < k + 1
  OBVIOUS
<1>3. Ordered(Tail(todo))
  BY <1>1, <1>2 DEF TierOrder, Ordered
<1> QED BY <1>1, <1>3 DEF TierOrder

-----------------------------------------------------------------------------
(* Looking up and choosing                                                *)

LEMMA CandidatesAre ==
    ASSUME NEW t \in Work
    PROVE  CandidatesOf(t) \in Seq(Candidates) /\ ToSet(CandidatesOf(t)) \subseteq Candidates
<1>1. Attr[t].plant \in DOMAIN Covering
  BY RecommenderAssumption DEF AttrRow
<1>2. CandidatesOf(t) \in Seq(Candidates)
  BY <1>1, RecommenderAssumption DEF CandidatesOf
<1> QED BY <1>2 DEF ToSet

LEMMA LookedIs ==
    ASSUME NEW j \in RunJob, NEW t \in Work
    PROVE  LET l == Looked(j, t) IN
           /\ l \in RunJob
           /\ l.op = j.op /\ l.todo = j.todo /\ l.used = j.used /\ l.mine = j.mine
           /\ l.looked = j.looked \cup ToSet(CandidatesOf(t))
           /\ \A e \in j.looked : (e \in l.present <=> e \in j.present)
                                  /\ (e \in l.kitted <=> e \in j.kitted)
<1> DEFINE new == ToSet(CandidatesOf(t)) \ j.looked
<1>1. new \subseteq Candidates
  BY CandidatesAre
<1>2. DOMAIN j = {"op", "todo", "used", "looked", "present", "kitted", "mine"}
  BY DEF RunJob
<1>3. Looked(j, t) = [j EXCEPT !.looked = j.looked \cup new,
                               !.present = j.present \cup (new \cap available),
                               !.kitted = j.kitted \cup (new \cap kitComplete)]
  BY DEF Looked
<1> HIDE DEF new
<1>4. Looked(j, t) \in RunJob
  <2>1. PICK x : x = [j EXCEPT !.looked = j.looked \cup new,
                               !.present = j.present \cup (new \cap available),
                               !.kitted = j.kitted \cup (new \cap kitComplete)]
    OBVIOUS
  <2>2. /\ j.looked \cup new \in SUBSET Candidates
        /\ j.present \cup (new \cap available) \in SUBSET Candidates
        /\ j.kitted \cup (new \cap kitComplete) \in SUBSET Candidates
    BY <1>1 DEF RunJob
  <2>3. x \in RunJob
    BY <2>1, <2>2 DEF RunJob
  <2> QED BY <1>3, <2>1, <2>3
<1>5. /\ Looked(j, t).op = j.op /\ Looked(j, t).todo = j.todo
      /\ Looked(j, t).used = j.used /\ Looked(j, t).mine = j.mine
      /\ Looked(j, t).looked = j.looked \cup new
      /\ Looked(j, t).present = j.present \cup (new \cap available)
      /\ Looked(j, t).kitted = j.kitted \cup (new \cap kitComplete)
  BY <1>2, <1>3
<1> USE DEF new
<1> QED BY <1>4, <1>5

LEMMA LookedKeeps ==
    ASSUME NEW j \in RunJob, NEW t \in Work, NEW rows, FairRun(j, rows)
    PROVE  FairRun(Looked(j, t), rows)
<1> DEFINE l == Looked(j, t)
<1>1. l.todo = j.todo /\ l.used = j.used /\ l.mine = j.mine
  BY LookedIs
<1>2. j.looked \subseteq l.looked
      /\ \A e \in j.looked : (e \in l.present <=> e \in j.present)
                             /\ (e \in l.kitted <=> e \in j.kitted)
  BY LookedIs
<1> HIDE DEF l
<1>3. LeftOut(l, rows)
  BY <1>1, <1>2 DEF FairRun, LeftOut
<1> QED BY <1>1, <1>3 DEF FairRun, l

LEMMA ChosenPasses ==
    ASSUME NEW j \in RunJob, NEW t \in Work, Passed(j, t) # {}
    PROVE  Chosen(j, t) \in Candidates /\ Passes(j, Chosen(j, t))
<1> DEFINE named == {i \in Passed(j, t) : CandidatesOf(t)[i] \in PlannerNames[Attr[t].plant]}
           all == IF named # {} THEN named ELSE Passed(j, t)
<1>1. CandidatesOf(t) \in Seq(Candidates)
  BY CandidatesAre
<1>2. Passed(j, t) \in SUBSET Nat
  BY <1>1 DEF Passed
<1>3. all # {} /\ all \in SUBSET Nat /\ all \subseteq Passed(j, t)
  BY <1>2
<1>4. Min(all) \in all
  BY <1>3, MinIsLeast
<1>5. Min(all) \in Passed(j, t)
  BY <1>3, <1>4
<1>6. Chosen(j, t) = CandidatesOf(t)[Min(all)]
  BY DEF Chosen
<1> QED BY <1>1, <1>5, <1>6 DEF Passed

\* Nobody passes: each candidate is known, and absent, full or without a kit.
LEMMA NobodyPasses ==
    ASSUME NEW j \in RunJob, NEW t \in Work, NEW rows, FairRun(j, rows),
           Passed(Looked(j, t), t) = {}
    PROVE  \A e \in ToSet(CandidatesOf(t)) :
              /\ e \in Looked(j, t).looked
              /\ \/ e \notin Looked(j, t).present \/ e \notin Looked(j, t).kitted
                 \/ Looked(j, t).used[e] = Capacity[e]
<1> TAKE e \in ToSet(CandidatesOf(t))
<1>1. e \in Looked(j, t).looked
  BY LookedIs
<1>2. PICK i \in DOMAIN CandidatesOf(t) : CandidatesOf(t)[i] = e
  BY DEF ToSet
<1>3. ~Passes(Looked(j, t), e)
  BY <1>2 DEF Passed
<1>4. e \in Candidates
  BY CandidatesAre
<1>5. FairRun(Looked(j, t), rows) /\ Looked(j, t) \in RunJob
  BY LookedKeeps, LookedIs
<1>6. Looked(j, t).used[e] \in Nat /\ Capacity[e] \in Nat
  BY <1>4, <1>5, RecommenderAssumption DEF RunJob
<1>7. Looked(j, t).used[e] <= Capacity[e]
  BY <1>4, <1>5 DEF FairRun, Counted
<1> QED BY <1>1, <1>3, <1>6, <1>7 DEF Passes

-----------------------------------------------------------------------------
(* The run after a row                                                    *)

\* x is j with the row after rows among its own.
Continues(j, x, rows) ==
    /\ x.todo = j.todo /\ x.looked = j.looked /\ x.present = j.present
    /\ x.kitted = j.kitted /\ x.mine = j.mine \cup {Len(rows) + 1}

LEMMA WroteIs ==
    ASSUME suggested \in Seq(Suggestion), NEW j \in RunJob
    PROVE  /\ Wrote(j) \in RunJob /\ Wrote(j).op = j.op /\ Wrote(j).used = j.used
           /\ Continues(j, Wrote(j), suggested)
<1>1. DOMAIN j = {"op", "todo", "used", "looked", "present", "kitted", "mine"}
  BY DEF RunJob
<1>2. j.mine \cup {Len(suggested) + 1} \in SUBSET (Nat \ {0})
  BY DEF RunJob
<1>3. PICK x : x = [j EXCEPT !.mine = j.mine \cup {Len(suggested) + 1}]
  OBVIOUS
<1>4. x \in RunJob
  BY <1>2, <1>3 DEF RunJob
<1>5. /\ x.op = j.op /\ x.todo = j.todo /\ x.used = j.used /\ x.looked = j.looked
      /\ x.present = j.present /\ x.kitted = j.kitted
      /\ x.mine = j.mine \cup {Len(suggested) + 1}
  BY <1>1, <1>3
<1> QED BY <1>3, <1>4, <1>5 DEF Wrote, Continues

\* The row of a ticket nobody can take.
LEMMA LeavingOutIsFair ==
    ASSUME NEW rows \in Seq(Suggestion), NEW j \in RunJob, FairRun(j, rows), j.todo # <<>>,
           Passed(Looked(j, Head(j.todo)), Head(j.todo)) = {}, NEW row,
           row = [t |-> Head(j.todo), se |-> NoCandidate],
           NEW x \in RunJob, Continues(Looked(j, Head(j.todo)), x, rows),
           x.used = Looked(j, Head(j.todo)).used
    PROVE  FairRun(x, Append(rows, row))
<1> DEFINE t == Head(j.todo)
<1>1. PICK l : l = Looked(j, t)
  OBVIOUS
<1>2. j.todo \in Seq(Work) /\ t \in Work
  BY DEF RunJob
<1>3. l \in RunJob /\ l.todo = j.todo
  BY <1>1, <1>2, LookedIs
<1>4. row \in Suggestion /\ row.se = NoCandidate /\ row.t = t
  BY <1>2 DEF Suggestion
<1>5. FairRun(l, rows)
  BY <1>1, <1>2, LookedKeeps
<1>6. /\ x.todo = l.todo /\ x.looked = l.looked /\ x.present = l.present
      /\ x.kitted = l.kitted /\ x.mine = l.mine \cup {Len(rows) + 1} /\ x.used = l.used
  BY <1>1 DEF Continues
<1>7. l.mine \subseteq DOMAIN rows
  BY <1>5 DEF FairRun
<1>8. x.mine \subseteq DOMAIN Append(rows, row)
  BY <1>4, <1>6, <1>7, OneRowMore
<1>9. Counted(x.used, x.mine, Append(rows, row))
  BY <1>4, <1>5, <1>6, <1>7, CountedWithout DEF FairRun
<1>10. TierOrder(x.todo, x.mine, Append(rows, row))
  <2>1. TierOrder(l.todo, l.mine, rows) /\ l.todo # <<>> /\ row.t = Head(l.todo)
    BY <1>3, <1>4, <1>5 DEF FairRun
  <2>2. l.todo \in Seq(Work)
    BY <1>2, <1>3
  <2> QED BY <1>4, <1>6, <1>7, <2>1, <2>2, OrderWith
<1>11. LeftOut(x, Append(rows, row))
  <2>1. \A e \in ToSet(CandidatesOf(t)) :
           /\ e \in l.looked
           /\ e \notin l.present \/ e \notin l.kitted \/ l.used[e] = Capacity[e]
    BY <1>1, <1>2, NobodyPasses
  <2>2. \A i \in x.mine :
           \/ i \in l.mine /\ Append(rows, row)[i] = rows[i]
           \/ Append(rows, row)[i] = row
    BY <1>4, <1>6, <1>7, OneRowMore
  <2> QED BY <1>4, <1>5, <1>6, <2>1, <2>2 DEF FairRun, LeftOut
<1> QED BY <1>8, <1>9, <1>10, <1>11 DEF FairRun

\* The row of an engineer below capacity.
LEMMA SuggestingIsFair ==
    ASSUME NEW rows \in Seq(Suggestion), NEW j \in RunJob, FairRun(j, rows), j.todo # <<>>,
           NEW e \in Candidates, j.used[e] < Capacity[e], NEW row,
           row = [t |-> Head(j.todo), se |-> e],
           NEW x \in RunJob, Continues(j, x, rows), x.used = [j.used EXCEPT ![e] = @ + 1]
    PROVE  FairRun(x, Append(rows, row))
<1>1. /\ j.todo \in Seq(Work) /\ Head(j.todo) \in Work /\ j.used \in [Candidates -> Nat]
  BY DEF RunJob
<1>2. row \in Suggestion /\ row.se = e /\ row.t = Head(j.todo)
  BY <1>1 DEF Suggestion
<1>3. /\ x.todo = j.todo /\ x.looked = j.looked /\ x.present = j.present
      /\ x.kitted = j.kitted /\ x.mine = j.mine \cup {Len(rows) + 1}
  BY DEF Continues
<1>4. /\ j.mine \subseteq DOMAIN rows /\ Counted(j.used, j.mine, rows) /\ LeftOut(j, rows)
      /\ TierOrder(j.todo, j.mine, rows)
  BY DEF FairRun
<1>5. x.mine \subseteq DOMAIN Append(rows, row)
  BY <1>2, <1>3, <1>4, OneRowMore
<1>6. Counted(x.used, x.mine, Append(rows, row))
  <2>1. Counted([j.used EXCEPT ![row.se] = @ + 1], j.mine \cup {Len(rows) + 1},
                Append(rows, row))
    BY <1>1, <1>2, <1>4, CountedWith
  <2> QED BY <1>2, <1>3, <2>1
<1>7. TierOrder(x.todo, x.mine, Append(rows, row))
  BY <1>1, <1>2, <1>3, <1>4, OrderWith
<1>8. LeftOut(x, Append(rows, row))
  <2>1. \A i \in x.mine :
           \/ i \in j.mine /\ Append(rows, row)[i] = rows[i]
           \/ Append(rows, row)[i] = row
    BY <1>2, <1>3, <1>4, OneRowMore
  <2>2. row.se # NoCandidate
    BY <1>2, RecommenderAssumption DEF NoCandidate
  <2>3. \A c \in Candidates : j.used[c] = Capacity[c] => x.used[c] = Capacity[c]
    BY <1>1, RecommenderAssumption
  <2>4. ASSUME NEW i \in j.mine, rows[i].se = NoCandidate,
               NEW c \in ToSet(CandidatesOf(rows[i].t))
        PROVE  /\ c \in x.looked
               /\ c \notin x.present \/ c \notin x.kitted \/ x.used[c] = Capacity[c]
    <3>1. rows[i].t \in Work
      <4>1. rows[i] \in Suggestion
        BY <1>4
      <4> QED BY <4>1 DEF Suggestion
    <3>2. c \in Candidates
      BY <3>1, CandidatesAre
    <3>3. /\ c \in j.looked
          /\ c \notin j.present \/ c \notin j.kitted \/ j.used[c] = Capacity[c]
      BY <1>4, <2>4 DEF LeftOut
    <3> QED BY <1>3, <2>3, <3>2, <3>3
  <2> QED BY <2>1, <2>2, <2>4 DEF LeftOut
<1> QED BY <1>5, <1>6, <1>7, <1>8 DEF FairRun

-----------------------------------------------------------------------------
(* The steps                                                              *)

LEMMA ZoneInvInit == RecommenderInit /\ job = [w \in Workers |-> Idle] => ZoneInv
<1> SUFFICES ASSUME RecommenderInit, job = [w \in Workers |-> Idle] PROVE ZoneInv
  OBVIOUS
<1>1. RecommenderTypeOK
  BY RecommenderAssumption DEF RecommenderInit, RecommenderTypeOK, Suggestion
<1>2. \A w \in Workers : job[w] = Idle
  OBVIOUS
<1> QED BY <1>1, <1>2 DEF ZoneInv, ZoneJob

\* The rows stay, or there is one more.
Grows == suggested' = suggested \/ \E row \in Suggestion : suggested' = Append(suggested, row)

\* An execution goes on with x; the others keep what they have.
LEMMA GoesOn ==
    ASSUME ZoneInv, NEW w \in Workers, NEW x, job' = [job EXCEPT ![w] = x],
           RecommenderTypeOK', Grows, ZoneJob(x, suggested')
    PROVE  ZoneInv'
<1>1. job' = [v \in Workers |-> job'[v]] /\ job'[w] = x
      /\ \A v \in Workers \ {w} : job'[v] = job[v]
  BY DEF ZoneInv
<1>2. suggested \in Seq(Suggestion)
  BY DEF ZoneInv, RecommenderTypeOK
<1>3. ASSUME NEW j, FairRun(j, suggested) PROVE FairRun(j, suggested')
  <2>1. CASE suggested' = suggested
    BY <1>3, <2>1
  <2>2. ASSUME NEW row \in Suggestion, suggested' = Append(suggested, row)
        PROVE  FairRun(j, suggested')
    BY <1>2, <1>3, <2>2, OthersRowKeeps
  <2> QED BY <2>1, <2>2 DEF Grows
<1>4. ASSUME NEW v \in Workers \ {w} PROVE ZoneJob(job[v], suggested')
  <2>1. ZoneJob(job[v], suggested)
    BY DEF ZoneInv
  <2> QED BY <1>3, <2>1 DEF ZoneJob
<1> QED BY <1>1, <1>4 DEF ZoneInv

\* The ticket at the head of the list is done with.
LEMMA DoneKeeps ==
    ASSUME ZoneInv, NEW w \in Workers, NEW j \in RunJob, RecommenderTypeOK', Grows,
           j.op = "recommend", j.todo # <<>>, FairRun(j, suggested'), Done(w, j)
    PROVE  ZoneInv'
<1>1. CASE Len(j.todo) = 1
  <2>1. job' = [job EXCEPT ![w] = Idle]
    BY <1>1 DEF Done, Finish
  <2>2. ZoneJob(Idle, suggested')
    BY DEF ZoneJob
  <2> QED BY <2>1, <2>2, GoesOn
<1>2. CASE Len(j.todo) # 1
  <2>1. PICK x : x = [j EXCEPT !.todo = Tail(@)]
    OBVIOUS
  <2>2. job' = [job EXCEPT ![w] = x]
    BY <1>2, <2>1 DEF Done, Proceed
  <2>3. j.todo \in Seq(Work) /\ Tail(j.todo) \in Seq(Work)
    BY DEF RunJob
  <2>4. DOMAIN j = {"op", "todo", "used", "looked", "present", "kitted", "mine"}
    BY DEF RunJob
  <2>5. /\ x.todo = Tail(j.todo) /\ x.op = "recommend" /\ x.used = j.used /\ x.mine = j.mine
        /\ x.looked = j.looked /\ x.present = j.present /\ x.kitted = j.kitted
    BY <2>1, <2>4
  <2>6. x \in RunJob
    BY <2>1, <2>3 DEF RunJob
  <2>7. TierOrder(x.todo, x.mine, suggested')
    BY <2>3, <2>5, OrderTail DEF FairRun
  <2>8. LeftOut(x, suggested')
    BY <2>5 DEF FairRun, LeftOut
  <2>9. FairRun(x, suggested')
    BY <2>5, <2>7, <2>8 DEF FairRun
  <2>10. ZoneJob(x, suggested')
    BY <2>5, <2>6, <2>9 DEF ZoneJob
  <2> QED BY <2>2, <2>10, GoesOn
<1> QED BY <1>1, <1>2

LEMMA ReadKeeps ==
    ASSUME ZoneInv, NEW w \in Workers, NEW mode, RunRead(w, mode)
    PROVE  ZoneInv'
<1>1. PICK list \in RunLists(mode) :
         Begin(w, [op |-> "recommend", todo |-> list, used |-> [e \in Candidates |-> 0],
                   looked |-> {}, present |-> {}, kitted |-> {}, mine |-> {}])
  BY DEF RunRead
<1>2. PICK x : x = [op |-> "recommend", todo |-> list, used |-> [e \in Candidates |-> 0],
                   looked |-> {}, present |-> {}, kitted |-> {}, mine |-> {}]
  OBVIOUS
<1>3. job' = [job EXCEPT ![w] = x]
  BY <1>1, <1>2 DEF Begin
<1>4. suggested' = suggested /\ RecommenderTypeOK' /\ suggested \in Seq(Suggestion)
  BY DEF RunRead, zone, ZoneInv, RecommenderTypeOK
<1>5. list \in Seq(Work) /\ Ordered(list)
  BY RunListOrdered DEF ZoneInv, RecommenderTypeOK
<1>6. x \in RunJob
  BY <1>2, <1>4, <1>5 DEF RunJob
<1>7. x.op = "recommend" /\ x.todo = list /\ x.used = [e \in Candidates |-> 0] /\ x.mine = {}
  BY <1>2
<1>9. Counted(x.used, x.mine, suggested)
  <2>1. \A e \in Candidates : RowsFor(e, x.mine, suggested) = {}
    BY <1>7 DEF RowsFor
  <2>2. \A e \in Candidates : x.used[e] = 0 /\ Capacity[e] \in Nat
    BY <1>7, RecommenderAssumption
  <2> QED BY <2>1, <2>2, FS_EmptySet DEF Counted
<1>10. LeftOut(x, suggested) /\ TierOrder(x.todo, x.mine, suggested)
  BY <1>5, <1>7 DEF LeftOut, TierOrder
<1>11. FairRun(x, suggested)
  BY <1>4, <1>7, <1>9, <1>10 DEF FairRun
<1>12. ZoneJob(x, suggested')
  BY <1>4, <1>6, <1>7, <1>11 DEF ZoneJob
<1> QED BY <1>3, <1>4, <1>12, GoesOn DEF Grows

\* What an execution in its loop remembers.
LEMMA InLoop ==
    ASSUME ZoneInv, NEW w \in Workers, NEW op \in {"recommend", "block"}, Running(w, op)
    PROVE  job[w] \in RunJob /\ FairRun(job[w], suggested) /\ job[w].op = op
           /\ (op = "block" => job[w].todo # <<>>)
<1>1. ZoneJob(job[w], suggested) /\ job[w].op = op
  BY DEF ZoneInv, Running
<1>2. job[w] # Idle
  BY <1>1 DEF Idle
<1>3. ~(job[w] \in [op : {"suggest"}, j : RunJob, se : Candidates])
  BY <1>1
<1> QED BY <1>1, <1>2, <1>3 DEF ZoneJob

LEMMA UnassignableKeeps ==
    ASSUME ZoneInv, NEW w \in Workers, Unassignable(w)
    PROVE  ZoneInv'
<1>1. /\ job[w] \in RunJob /\ FairRun(job[w], suggested) /\ job[w].op = "recommend"
      /\ job[w].todo # <<>>
  BY InLoop DEF Unassignable
<1>2. PICK t, l : t = Head(job[w].todo) /\ l = Looked(job[w], t)
  OBVIOUS
<1>3. PICK j, row : j = Wrote(l) /\ row = [t |-> t, se |-> NoCandidate]
  OBVIOUS
<1>4. /\ Passed(l, t) = {}
      /\ suggested' = Append(suggested, row)
      /\ IF DroppedForKit(l, t) THEN Proceed(w, [j EXCEPT !.op = "block"]) ELSE Done(w, j)
  BY <1>2, <1>3 DEF Unassignable
<1>5. suggested \in Seq(Suggestion)
  BY DEF ZoneInv, RecommenderTypeOK
<1>6. t \in Work /\ row \in Suggestion
  BY <1>1, <1>2, <1>3 DEF RunJob, Suggestion
<1>7. l \in RunJob /\ l.op = "recommend" /\ l.todo # <<>>
  BY <1>1, <1>2, <1>6, LookedIs
<1>8. /\ j \in RunJob /\ j.op = "recommend" /\ j.used = l.used /\ Continues(l, j, suggested)
      /\ j.todo # <<>>
  BY <1>3, <1>5, <1>7, WroteIs DEF Continues
<1>9. FairRun(j, suggested')
  BY <1>1, <1>2, <1>3, <1>4, <1>5, <1>8, LeavingOutIsFair
<1>10. RecommenderTypeOK' /\ Grows
  <2>1. suggested' \in Seq(Suggestion) /\ Len(suggested') <= MaxRecommendations
    BY <1>4, <1>5, <1>6, RecommenderAssumption DEF Unassignable, Room
  <2> QED BY <1>4, <1>6, <2>1 DEF ZoneInv, RecommenderTypeOK, Unassignable, Grows
<1>11. CASE ~DroppedForKit(l, t)
  BY <1>4, <1>8, <1>9, <1>10, <1>11, DoneKeeps
<1>12. CASE DroppedForKit(l, t)
  <2>1. PICK x : x = [j EXCEPT !.op = "block"]
    OBVIOUS
  <2>2. job' = [job EXCEPT ![w] = x]
    BY <1>4, <1>12, <2>1 DEF Proceed
  <2>3. DOMAIN j = {"op", "todo", "used", "looked", "present", "kitted", "mine"}
    BY <1>8 DEF RunJob
  <2>4. /\ x.op = "block" /\ x.todo = j.todo /\ x.used = j.used /\ x.mine = j.mine
        /\ x.looked = j.looked /\ x.present = j.present /\ x.kitted = j.kitted
    BY <2>1, <2>3
  <2>5. x \in RunJob
    BY <1>8, <2>1 DEF RunJob
  <2>6. FairRun(x, suggested')
    BY <1>9, <2>4 DEF FairRun, LeftOut
  <2>7. ZoneJob(x, suggested')
    BY <1>8, <2>4, <2>5, <2>6 DEF ZoneJob
  <2> QED BY <1>10, <2>2, <2>7, GoesOn
<1> QED BY <1>11, <1>12

LEMMA BlockKeeps ==
    ASSUME ZoneInv, NEW w \in Workers, RecordComponentBlock(w)
    PROVE  ZoneInv'
<1>1. /\ job[w] \in RunJob /\ FairRun(job[w], suggested) /\ job[w].op = "block"
      /\ job[w].todo # <<>>
  BY InLoop DEF RecordComponentBlock
<1>2. PICK j : j = [job[w] EXCEPT !.op = "recommend"]
  OBVIOUS
<1>3. Done(w, j) /\ suggested' = suggested /\ Grows
  BY <1>2 DEF RecordComponentBlock, Grows
<1>4. DOMAIN job[w] = {"op", "todo", "used", "looked", "present", "kitted", "mine"}
  BY <1>1 DEF RunJob
<1>5. /\ j.op = "recommend" /\ j.todo = job[w].todo /\ j.used = job[w].used
      /\ j.mine = job[w].mine /\ j.looked = job[w].looked /\ j.present = job[w].present
      /\ j.kitted = job[w].kitted
  BY <1>2, <1>4
<1>6. j \in RunJob
  BY <1>1, <1>2 DEF RunJob
<1>7. FairRun(j, suggested')
  BY <1>1, <1>3, <1>5 DEF FairRun, LeftOut
<1>8. RecommenderTypeOK'
  <2>1. Head(job[w].todo) \in Work
    BY <1>1 DEF RunJob
  <2> QED BY <2>1 DEF ZoneInv, RecommenderTypeOK, RecordComponentBlock
<1> QED BY <1>1, <1>3, <1>5, <1>6, <1>7, <1>8, DoneKeeps

LEMMA ResolveKeeps ==
    ASSUME ZoneInv, NEW w \in Workers, ResolveComponentBlock(w)
    PROVE  ZoneInv'
<1>1. /\ job[w] \in RunJob /\ FairRun(job[w], suggested) /\ job[w].op = "recommend"
      /\ job[w].todo # <<>>
  BY InLoop DEF ResolveComponentBlock
<1>2. PICK t, j : t = Head(job[w].todo) /\ j = Looked(job[w], t)
  OBVIOUS
<1>3. PICK se : se = Chosen(j, t)
  OBVIOUS
<1>4. PICK x : x = [op |-> "suggest", j |-> j, se |-> se]
  OBVIOUS
<1>5. Passed(j, t) # {} /\ job' = [job EXCEPT ![w] = x] /\ suggested' = suggested
  BY <1>2, <1>3, <1>4 DEF ResolveComponentBlock, Proceed
<1>6. t \in Work
  BY <1>1, <1>2 DEF RunJob
<1>7. j \in RunJob /\ j.op = "recommend" /\ j.todo # <<>>
  BY <1>1, <1>2, <1>6, LookedIs
<1>8. FairRun(j, suggested')
  BY <1>1, <1>2, <1>5, <1>6, LookedKeeps
<1>9. se \in Candidates /\ j.used[se] < Capacity[se]
  BY <1>3, <1>5, <1>6, <1>7, ChosenPasses DEF Passes
<1>10. ZoneJob(x, suggested')
  BY <1>4, <1>7, <1>8, <1>9 DEF ZoneJob
<1>11. RecommenderTypeOK'
  BY DEF ZoneInv, RecommenderTypeOK, ResolveComponentBlock
<1> QED BY <1>5, <1>10, <1>11, GoesOn DEF Grows

LEMMA SuggestKeeps ==
    ASSUME ZoneInv, NEW w \in Workers, Suggest(w)
    PROVE  ZoneInv'
<1>1. PICK j, e : j = job[w].j /\ e = job[w].se
  OBVIOUS
<1>2. /\ j \in RunJob /\ e \in Candidates /\ FairRun(j, suggested) /\ j.op = "recommend"
      /\ j.todo # <<>> /\ j.used[e] < Capacity[e]
  <2>1. ZoneJob(job[w], suggested) /\ job[w].op = "suggest"
    BY DEF ZoneInv, Suggest, Running
  <2>2. job[w] # Idle
    BY <2>1 DEF Idle
  <2>3. job[w] \notin RunJob
    BY <2>1 DEF RunJob
  <2> QED BY <1>1, <2>1, <2>2, <2>3 DEF ZoneJob
<1>3. PICK y, l, row : /\ y = Wrote(j) /\ l = [y EXCEPT !.used[e] = @ + 1]
                       /\ row = [t |-> Head(j.todo), se |-> e]
  OBVIOUS
<1>4. suggested' = Append(suggested, row) /\ Done(w, l)
  BY <1>1, <1>3 DEF Suggest
<1>5. suggested \in Seq(Suggestion)
  BY DEF ZoneInv, RecommenderTypeOK
<1>6. y \in RunJob /\ y.op = j.op /\ y.used = j.used /\ Continues(j, y, suggested)
  BY <1>2, <1>3, <1>5, WroteIs
<1>7. /\ l \in RunJob /\ l.op = y.op /\ l.used = [j.used EXCEPT ![e] = @ + 1]
      /\ Continues(j, l, suggested)
  <2>1. PICK u : u = [j.used EXCEPT ![e] = j.used[e] + 1]
    OBVIOUS
  <2>2. u \in [Candidates -> Nat]
    BY <1>2, <2>1 DEF RunJob
  <2>3. DOMAIN y = {"op", "todo", "used", "looked", "present", "kitted", "mine"}
    BY <1>6 DEF RunJob
  <2>4. l = [y EXCEPT !.used = u]
    BY <1>3, <1>6, <2>1, <2>3
  <2>5. l \in RunJob
    BY <1>6, <2>2, <2>4 DEF RunJob
  <2>6. /\ l.op = y.op /\ l.used = u /\ l.todo = y.todo /\ l.looked = y.looked
        /\ l.present = y.present /\ l.kitted = y.kitted /\ l.mine = y.mine
    BY <2>3, <2>4
  <2> QED BY <1>6, <2>1, <2>5, <2>6 DEF Continues
<1>8. FairRun(l, suggested') /\ l.op = "recommend" /\ l.todo # <<>>
  <2>1. FairRun(l, suggested')
    BY <1>2, <1>3, <1>4, <1>5, <1>7, SuggestingIsFair
  <2> QED BY <1>2, <1>6, <1>7, <2>1 DEF Continues
<1>9. RecommenderTypeOK' /\ Grows
  <2>1. row \in Suggestion
    BY <1>2, <1>3 DEF Suggestion, RunJob
  <2>2. suggested' \in Seq(Suggestion) /\ Len(suggested') <= MaxRecommendations
    BY <1>4, <1>5, <2>1, RecommenderAssumption DEF Suggest, Room
  <2> QED BY <1>4, <2>1, <2>2 DEF ZoneInv, RecommenderTypeOK, Suggest, Grows
<1> QED BY <1>4, <1>7, <1>8, <1>9, DoneKeeps

LEMMA EndKeeps ==
    ASSUME ZoneInv, NEW w \in Workers, Finish(w), UNCHANGED zone
    PROVE  ZoneInv'
<1>1. job' = [job EXCEPT ![w] = Idle]
  BY DEF Finish
<1>2. RecommenderTypeOK'
  BY DEF zone, ZoneInv, RecommenderTypeOK
<1>3. ZoneJob(Idle, suggested') /\ Grows
  BY DEF ZoneJob, Grows, zone
<1> QED BY <1>1, <1>2, <1>3, GoesOn

\* Leaves and kits change while a run is on: the run has its own memory of them.
LEMMA ZoneChangesKeep == ZoneInv /\ ZoneChanges => ZoneInv'
<1> SUFFICES ASSUME ZoneInv, ZoneChanges PROVE ZoneInv'
  OBVIOUS
<1>1. suggested' = suggested /\ job' = job
  BY DEF ZoneChanges
<1>2. RecommenderTypeOK'
  BY DEF ZoneInv, ZoneChanges, RecommenderTypeOK
<1> QED BY <1>1, <1>2 DEF ZoneInv

RecommenderNext == (\E w \in Workers : RecommenderStep(w)) \/ ZoneChanges

LEMMA ZoneInvNext ==
    ASSUME ZoneInv, [RecommenderNext]_zoneVars
    PROVE  ZoneInv'
<1>1. ASSUME NEW w \in Workers, RecommenderStep(w) PROVE ZoneInv'
  <2>1. ASSUME NEW mode, RunRead(w, mode) PROVE ZoneInv'
    BY <2>1, ReadKeeps
  <2>2. CASE Unassignable(w)
    BY <2>2, UnassignableKeeps
  <2>3. CASE RecordComponentBlock(w)
    BY <2>3, BlockKeeps
  <2>4. CASE ResolveComponentBlock(w)
    BY <2>4, ResolveKeeps
  <2>5. CASE Suggest(w)
    BY <2>5, SuggestKeeps
  <2>6. CASE NothingToDo(w)
    BY <2>6, EndKeeps DEF NothingToDo
  <2>7. CASE Abandon(w) /\ UNCHANGED zone
    BY <2>7, EndKeeps DEF Abandon
  <2> QED BY <1>1, <2>1, <2>2, <2>3, <2>4, <2>5, <2>6, <2>7 DEF RecommenderStep
<1>2. CASE ZoneChanges
  BY <1>2, ZoneChangesKeep
<1>3. CASE UNCHANGED zoneVars
  <2>1. suggested' = suggested /\ job' = job /\ UNCHANGED zone
    BY <1>3 DEF zoneVars, zone
  <2>2. RecommenderTypeOK'
    BY <2>1 DEF zone, ZoneInv, RecommenderTypeOK
  <2> QED BY <2>1, <2>2 DEF ZoneInv
<1> QED BY <1>1, <1>2, <1>3 DEF RecommenderNext

LEMMA ZoneInvIsFair ==
    ASSUME ZoneInv
    PROVE  RunIsFair
<1> SUFFICES ASSUME NEW w \in Workers, Running(w, "recommend")
             PROVE  LET j == job[w] IN
       /\ j.mine \subseteq DOMAIN suggested
       /\ \A e \in Candidates :
             Cardinality({i \in j.mine : suggested[i].se = e}) <= Capacity[e]
       /\ \A i \in j.mine : suggested[i].se = NoCandidate =>
             \A e \in ToSet(CandidatesOf(suggested[i].t)) :
                e \notin j.present \/ e \notin j.kitted \/ j.used[e] = Capacity[e]
       /\ \A i, k \in j.mine :
             i < k /\ Attr[suggested[i].t].kind = Attr[suggested[k].t].kind =>
                Attr[suggested[i].t].tier >= Attr[suggested[k].t].tier
  BY DEF RunIsFair
<1>1. FairRun(job[w], suggested)
  BY InLoop
<1>2. ASSUME NEW e \in Candidates
      PROVE  Cardinality({i \in job[w].mine : suggested[i].se = e}) <= Capacity[e]
  BY <1>1 DEF FairRun, Counted, RowsFor
<1> QED BY <1>1, <1>2 DEF FairRun, LeftOut, TierOrder, Precedes

\* A run gives nobody more than the capacity, leaves a ticket out only while every engineer of
\* its plant is absent, full or without a kit as far as the run knows, and within a kind never
\* serves a lower tier first, for any tickets, engineers, coverings and capacities and whatever
\* other runs write in between (runForZone, canonicalSort, applyHardFilters).
THEOREM RunIsFairHolds == RecommenderSpec => []RunIsFair
<1>1. RecommenderInit /\ job = [w \in Workers |-> Idle] => ZoneInv
  BY ZoneInvInit
<1>2. ZoneInv /\ [RecommenderNext]_zoneVars => ZoneInv'
  BY ZoneInvNext
<1>3. ZoneInv => RunIsFair
  BY ZoneInvIsFair
<1> QED BY <1>1, <1>2, <1>3, PTL DEF RecommenderSpec, RecommenderNext

=============================================================================
