------------------------------ MODULE TSDBInv ------------------------------
(***************************************************************************)
(* The inductive invariant behind LabelFidelity, KnownRefsLogged,          *)
(* BlockRange, Durable and Readable of TSDB, in three layers: what a ref   *)
(* means (RefInv), what the timestamps promise (TimeInv) and where the     *)
(* samples are (DataInv). While nothing has failed the clock may do what   *)
(* it likes: CountInv then stands in for TimeInv, behind                   *)
(* UndamagedIsDurable. HeldInv, behind KeptUntilRestart, asks nothing  *)
(* of the log.                                                             *)
(***************************************************************************)
EXTENDS TSDB

\* The faults that leave neither a torn record nor a segment that should be gone.
WholeWrites == "tear" \notin Faults /\ "cut" \notin Faults /\ "remove" \notin Faults

MonotoneClock == "clock" \notin Faults

\* The resolutions whose blocks take all that the head holds: RollupSeries leaves out a
\* bucket that starts before the last one.
Kept == IF MonotoneClock THEN Res ELSE {"raw"}

\* The log belongs to the head: neither a Truncate nor a failed file separates
\* the refs of the one from the refs of the other.
Current == Up /\ walFile = "open" /\ pc # "truncate"

IsSeries(r)  == r.kind = "series"
IsSamples(r) == r.kind = "samples"

-----------------------------------------------------------------------------
(* The meaning of refs *)

NoTorn == \A r \in wal : r.kind # "torn"

PlacesUnique ==
  /\ \A r \in wal : 0 < r.place /\ r.place <= end
  /\ \A q, r \in wal : q.place = r.place => q = r

\* No record contradicts an earlier series record of its ref.
LogCoherent ==
  \A q, r \in wal :
    IsSeries(q) /\ q.ref = r.ref /\ q.place < r.place => q.lset = r.lset

HeadRefs == \A ref \in DOMAIN head : ref <= lastRef

\* A series of the head holds samples of its label set only.
HeadFaithful ==
  \A ref \in DOMAIN head : \A s \in head[ref].data :
    s.lset = head[ref].lset /\ s.v = s.lset

BlocksFaithful == \A b \in blocks : \A s \in b.data : s.v = s.lset

HeadAgreesWithLog ==
  Current =>
    \A q \in wal : IsSeries(q) =>
      q.ref <= lastRef /\ (q.ref \in DOMAIN head => head[q.ref].lset = q.lset)

KnownRefsInv ==
  Current =>
    \A ref \in knownRefs : \E q \in wal : IsSeries(q) /\ q.ref = ref

AppendInProgress ==
  pc \in {"logSeries", "logSamples"} =>
    /\ cur.ref \in DOMAIN head
    /\ head[cur.ref].lset = cur.lset
    /\ [lset |-> cur.lset, t |-> cur.t, v |-> cur.lset] \in head[cur.ref].data
    /\ pc = "logSamples" => cur.ref \in knownRefs

\* Half way through the log the head has exactly the refs read so far.
ReplayRefs ==
  pc = "replay" =>
    /\ \A q \in wal : IsSeries(q) /\ q.place <= pos => q.ref \in DOMAIN head
    /\ \A ref \in DOMAIN head :
         \E q \in wal : /\ IsSeries(q) /\ q.place <= pos
                        /\ q.ref = ref /\ q.lset = head[ref].lset

\* A dead process has no memory and no open file.
DownInv == ~Up => knownRefs = {} /\ walFile = "nil"
DownHead == pc = "down" => DOMAIN head = {}

ResetInv == pc \in {"truncate", "removing"} => DOMAIN head = {} /\ knownRefs = {}

RemovingInv ==
  /\ pc = "removing" => walFile = "nil" /\ \A r \in wal : r.seg \in todo
  /\ walFile = "nil" /\ Up /\ pc # "removing" => knownRefs = {}

RefInv ==
  /\ TypeOK /\ NoTorn /\ PlacesUnique /\ LogCoherent
  /\ HeadRefs /\ HeadFaithful /\ BlocksFaithful /\ HeadAgreesWithLog
  /\ KnownRefsInv /\ AppendInProgress /\ ReplayRefs
  /\ DownInv /\ DownHead /\ ResetInv /\ RemovingInv

-----------------------------------------------------------------------------
(* The timestamps *)

ClockInv ==
  /\ \A r \in wal : r.t <= clock
  /\ \A ref \in DOMAIN head : head[ref].lastT <= clock
  /\ pc \in {"logSeries", "logSamples"} => cur.t = clock

LogSorted == \A q, r \in wal : q.place < r.place => q.t <= r.t

SeriesRange ==
  \A ref \in DOMAIN head :
    /\ head[ref].n = 0 => head[ref].data = {} /\ head[ref].lastT = 0
    /\ head[ref].n > 0 => head[ref].minT <= head[ref].lastT
    /\ \A s \in head[ref].data : head[ref].minT <= s.t /\ s.t <= head[ref].maxT

ReplaySorted ==
  pc = "replay" =>
    \A r \in wal : r.place > pos =>
      \A ref \in DOMAIN head : head[ref].lastT <= r.t

TimeInv == ClockInv /\ LogSorted /\ SeriesRange /\ ReplaySorted /\ BlockRange

-----------------------------------------------------------------------------
(* Where the samples are *)

\* A resolution does not need the log for this sample any more.
Safe(res, s) == Forgotten(res, s) \/ s \in DataOf(res)

\* What the log holds is recoverable from it, or safe.
LogInv ==
  \A res \in Kept, r \in wal : IsSamples(r) =>
    Logged(r) \in RecoverableData \/ Safe(res, Logged(r))

\* What the log holds the next Compact will find in the head, or is safe.
HeadInv ==
  Up => \A res \in Kept, r \in wal : IsSamples(r) =>
          Logged(r) \in HeadData \/ Safe(res, Logged(r))

\* From the rename of its block on, a resolution no longer needs the log.
Compacted(res) ==
  \/ pc \in {"reset", "truncate", "removing"}
  \/ res = "raw" /\ pc \in {"remove5m", "rename5m"}

CompactedInv ==
  \A res \in Kept : Compacted(res) =>
    \A r \in wal : IsSamples(r) => Safe(res, Logged(r))

ReplayInv ==
  pc = "replay" =>
    \A r \in wal : Recoverable(r) /\ r.place <= pos => Logged(r) \in HeadData

AckedInv ==
  \A res \in Kept, s \in acked :
    Safe(res, s) \/ \E r \in wal : IsSamples(r) /\ Logged(r) = s

DataInv == LogInv /\ HeadInv /\ CompactedInv /\ ReplayInv /\ AckedInv

-----------------------------------------------------------------------------
(* What holds of the timestamps whatever the clock does *)

\* A series and a block hold nothing later than their range says.
NotLater ==
  /\ \A ref \in DOMAIN head :
       /\ head[ref].n = 0 => head[ref].data = {}
       /\ \A s \in head[ref].data : s.t <= head[ref].maxT
  /\ \A b \in blocks : \A s \in b.data : StoredAt(b.res, s.t) <= b.maxT

\* The replay refuses no sample it has a series for.
Accepting ==
  pc = "replay" =>
    \A r \in wal : IsNext(r) /\ Recoverable(r) => Accepts(head[r.ref], r.t)

-----------------------------------------------------------------------------
(* The chunks of a series, while no step has failed: the replay cuts them    *)
(* where the appends did.                                                    *)

\* The records of a ref that a replay has put into its series at a place.
PutBy(ref, place) == {q \in wal : Recoverable(q) /\ q.ref = ref /\ q.place <= place}

IsLast(q, S) == q \in S /\ \A o \in S : o.place <= q.place

\* A sample at t may follow the samples of these records.
MayFollow(t, S) ==
  \/ Cardinality(S) % MaxSamplesPerChunk = 0
  \/ \A q \in S : IsLast(q, S) => q.t <= t

\* A series has the samples of these records and no others.
Holds(s, S) ==
  /\ s.n = Cardinality(S)
  /\ s.n = 0 \/ \E q \in S : IsLast(q, S) /\ s.lastT = q.t

\* Every record was accepted after those before it.
LogAccepted ==
  \A r \in wal : Recoverable(r) => MayFollow(r.t, PutBy(r.ref, r.place - 1))

Appending == pc \in {"logSeries", "logSamples"}

HeadCounts ==
  Up /\ pc # "truncate" =>
    \A ref \in DOMAIN head :
      IF Appending /\ ref = cur.ref
        THEN /\ head[ref].n = Cardinality(PutBy(ref, end)) + 1
             /\ head[ref].lastT = cur.t
             /\ MayFollow(cur.t, PutBy(ref, end))
        ELSE Holds(head[ref], PutBy(ref, end))

ReplayCounts ==
  pc = "replay" => \A ref \in DOMAIN head : Holds(head[ref], PutBy(ref, pos))

\* A ref has one series record, and a ref without one is not in knownRefs.
OneSeriesRecord ==
  /\ \A q, r \in wal : IsSeries(q) /\ IsSeries(r) /\ q.ref = r.ref => q = r
  /\ Up /\ pc \notin {"truncate", "removing"} =>
       \A q \in wal : IsSeries(q) => q.ref \in knownRefs
  /\ pc = "logSeries" => cur.ref \notin knownRefs

\* The segments are in the order of the places, and Truncate takes them in this order.
SegmentsInOrder ==
  /\ \A r \in wal : r.seg <= segIdx
  /\ \A q, r \in wal : q.place < r.place => q.seg <= r.seg

FileOpen == Up /\ pc # "removing" => walFile = "open"

CountInv ==
  /\ IsFiniteSet(wal) /\ FileOpen /\ SegmentsInOrder /\ OneSeriesRecord
  /\ LogAccepted /\ HeadCounts /\ ReplayCounts

\* The invariant behind UndamagedIsDurable: as long as nothing has failed.
Undamaged == faults = 0 => RefInv /\ CountInv /\ DataInv

-----------------------------------------------------------------------------
(* What the process that acknowledged a sample still has of it, whatever has *)
(* become of the log.                                                        *)

AppendHeld ==
  Appending =>
    /\ cur.ref \in DOMAIN head
    /\ [lset |-> cur.lset, t |-> cur.t, v |-> cur.lset] \in head[cur.ref].data

RawWritten ==
  pc \in {"remove5m", "rename5m", "reset"} => \A s \in HeadData : Safe("raw", s)

HeldUntilRestart ==
  crashes = 0 => Up /\ \A s \in acked : Safe("raw", s) \/ s \in HeadData

HeldInv == TypeOK /\ NotLater /\ HeadRefs /\ AppendHeld /\ RawWritten /\ HeldUntilRestart
=============================================================================
