-------------------------------- MODULE TSDB --------------------------------
(***************************************************************************)
(* The write path of the storage engine: DB (db.go) over its in-memory     *)
(* head (head.go, chunk.go), its write-ahead log (wal.go, recover.go), its *)
(* block directory (block.go) and the retention pass (retention.go).       *)
(*                                                                         *)
(* Every method of DB holds db.mtx from its first line to its last, so at  *)
(* most one call is in progress; pc says where it is. The process may be   *)
(* killed at every pc: the steps between two values of pc are the steps a  *)
(* kill can separate. A kill loses the memory (head, lastRef, knownRefs)   *)
(* and keeps the files (wal, blocks).                                      *)
(*                                                                         *)
(* A sample is a label set, a timestamp and a value. The value is          *)
(* abstracted to the label set the sample was appended under, which is     *)
(* what tells a sample stored under its own series from one stored under   *)
(* another.                                                                *)
(***************************************************************************)
EXTENDS Integers, FiniteSets

CONSTANTS
  Lsets,               \* label sets
  MaxSamplesPerChunk,  \* maxSamplesPerChunk
  SegmentSize,         \* Options.SegmentSize, counted in records
  RollupInterval,      \* rollupInterval
  RawRetention,        \* Options.RawRetention, 0 = unlimited
  RollupRetention,     \* Options.RollupRetention, 0 = unlimited
  Faults,              \* the kinds of fault the environment produces
  MaxTime,             \* bound: the last timestamp
  MaxAppends,          \* bound: calls of Append
  MaxCrashes,          \* bound: kills
  MaxFaults            \* bound: faults

(***************************************************************************)
(* "tear": a write is cut short, leaves a torn record and fails; "cut": a  *)
(* kill cuts a write short and leaves a torn record; "write": a write      *)
(* fails and leaves nothing; "rotate": the close or the open of a segment  *)
(* rotation fails; "truncate": the close, the listing or the open of       *)
(* WAL.Truncate fails; "remove": os.Remove of one segment fails; "block":  *)
(* a step of WriteBlock fails; "retention": os.RemoveAll of an expired     *)
(* block fails; "clock": the wall clock is stepped back.                   *)
(***************************************************************************)
FaultKinds == {"tear", "cut", "write", "rotate", "truncate", "remove", "block",
               "retention", "clock"}

ASSUME ConstantsAssumption ==
  /\ MaxSamplesPerChunk \in Nat \ {0}
  /\ SegmentSize \in Nat \ {0}
  /\ RollupInterval \in Nat \ {0}
  /\ RawRetention \in Nat
  /\ RollupRetention \in Nat
  /\ Faults \subseteq FaultKinds
  /\ MaxTime \in Nat
  /\ MaxAppends \in Nat
  /\ MaxCrashes \in Nat
  /\ MaxFaults \in Nat

VARIABLES
  head,       \* Head.series: ref -> memSeries
  lastRef,    \* Head.lastRef
  knownRefs,  \* DB.knownRefs
  pc,         \* the next step of the call that holds db.mtx
  cur,        \* the append in progress
  now,        \* the argument of Compact
  wal,        \* the records on disk, each with its place and its segment
  end,        \* the place of the last record ever written to this log
  segIdx,     \* WAL.segIdx
  walFile,    \* WAL.f: "open", "closed" (closed but not nil), "nil"
  todo,       \* Truncate: the segments not yet removed
  pos,        \* ReplayWAL: the place of the last record replayed
  blocks,     \* the block directories
  acked,      \* history: the samples Append returned nil for
  clobbered,  \* history: per resolution, samples of a block removed for its namesake
  horizon,    \* history: per resolution, what is older than this may be expired
  clock,      \* the time of the scrape cycle, which its samples share
  appends, crashes, faults

memVars  == <<head, lastRef, knownRefs>>
walVars  == <<wal, end, segIdx, walFile, todo>>
histVars == <<acked, clobbered, horizon>>
vars == <<memVars, pc, cur, now, walVars, pos, blocks, histVars, clock,
          appends, crashes, faults>>

-----------------------------------------------------------------------------
(* Types *)

Ref   == Nat \ {0}
Time  == 0 .. MaxTime
Samples == [lset : Lsets, t : Time, v : Lsets]
Series  == [lset : Lsets, n : Nat, lastT : Time, minT : Time, maxT : Time,
            data : SUBSET Samples]
Record  == [place : Nat, seg : Nat, kind : {"series", "samples", "torn"},
            ref : Ref, lset : Lsets, t : Time]
Res     == {"raw", "5m"}  \* ResolutionRaw, Resolution5m
Block   == [minT : Time, maxT : Time, res : Res, data : SUBSET Samples]
Append_ == [ref : Ref, lset : Lsets, t : Time]

PCs == {"idle", "logSeries", "logSamples", "removeRaw", "renameRaw", "remove5m",
        "rename5m", "reset", "truncate", "removing", "retain", "down", "replay"}

-----------------------------------------------------------------------------
(* Views of the state *)

\* The samples the head holds, those the blocks of a resolution hold. What a rollup
\* block holds is the samples its buckets sum up.
HeadData == UNION {head[r].data : r \in DOMAIN head}
DataOf(res) == UNION {b.data : b \in {o \in blocks : o.res = res}}

\* The sample a samples record stands for.
Logged(r) == [lset |-> r.lset, t |-> r.t, v |-> r.lset]

\* ReplayWAL reaches a record only if no torn record precedes it ...
Reached(r) == \A q \in wal : q.kind = "torn" => q.place > r.place
\* ... and RecoverHead keeps a sample only if a series record gave its ref a
\* label set, which the first such record decides.
GivesRef(q, r) == q.kind = "series" /\ q.ref = r.ref /\ q.place < r.place
Recoverable(r) ==
  /\ r.kind = "samples"
  /\ Reached(r)
  /\ \E q \in wal : GivesRef(q, r)
  /\ \A q \in wal : GivesRef(q, r) => q.lset = r.lset
RecoverableData == {Logged(r) : r \in {q \in wal : Recoverable(q)}}

Up == pc \notin {"down", "replay"}

-----------------------------------------------------------------------------
(* memSeries and Head *)

NewSeries(l) == [lset |-> l, n |-> 0, lastT |-> 0, minT |-> 0, maxT |-> 0,
                 data |-> {}]

\* Chunk.Append refuses a timestamp below the last one of its chunk; a full
\* chunk is followed by a new one, which refuses nothing.
Accepts(s, t) == s.n % MaxSamplesPerChunk = 0 \/ t >= s.lastT

AppendedNoMaxT(s, t, v) ==
  [s EXCEPT !.n = @ + 1, !.lastT = t, !.minT = IF s.n = 0 THEN t ELSE @,
            !.data = @ \cup {[lset |-> s.lset, t |-> t, v |-> v]}]

\* memSeries.append of an accepted sample.
Appended(s, t, v) ==
  [lset  |-> s.lset,
   n     |-> s.n + 1,
   lastT |-> t,
   minT  |-> IF s.n = 0 THEN t ELSE s.minT,
   maxT  |-> IF t > s.maxT THEN t ELSE s.maxT,
   data  |-> s.data \cup {[lset |-> s.lset, t |-> t, v |-> v]}]

\* Head.register and the write of a series back under its ref.
Register(ref, s) ==
  [r \in DOMAIN head \cup {ref} |-> IF r = ref THEN s ELSE head[r]]

EmptyHead == [r \in {} |-> {}]

\* The refs Head.getOrCreate may answer for a label set.
GetOrCreate(l) ==
  LET found == {r \in DOMAIN head : head[r].lset = l}
  IN  IF found = {} THEN {lastRef + 1} ELSE found

SeriesAt(ref, l) == IF ref \in DOMAIN head THEN head[ref] ELSE NewSeries(l)

-----------------------------------------------------------------------------
(* WAL *)

Fault(k) == k \in Faults /\ faults < MaxFaults /\ faults' = faults + 1

\* writeRecord rotates when the current segment has reached its size.
SegmentFull == Cardinality({r \in wal : r.seg = segIdx}) >= SegmentSize
WriteSeg    == IF SegmentFull THEN segIdx + 1 ELSE segIdx

LogRecord(kind) ==
  [place |-> end + 1, seg |-> WriteSeg, kind |-> kind,
   ref |-> cur.ref, lset |-> cur.lset, t |-> cur.t]

Write(kind) ==
  /\ wal' = wal \cup {LogRecord(kind)}
  /\ end' = end + 1
  /\ segIdx' = WriteSeg
  /\ UNCHANGED <<walFile, todo>>

\* writeRecord returns nil.
WriteSucceeds(kind) ==
  /\ walFile = "open"
  /\ Write(kind)
  /\ UNCHANGED faults

\* writeRecord returns an error: the file is not open, the write left nothing
\* or a part of the record, or the rotation failed. A failed rotation leaves
\* w.f closed but not nil.
WriteFails ==
  \/ /\ walFile # "open"
     /\ UNCHANGED <<walVars, faults>>
  \/ /\ walFile = "open" /\ Fault("write")
     /\ UNCHANGED walVars
  \/ /\ walFile = "open" /\ Fault("tear")
     /\ Write("torn")
  \/ /\ walFile = "open" /\ SegmentFull /\ Fault("rotate")
     /\ walFile' = "closed"
     /\ UNCHANGED <<wal, end, segIdx, todo>>

-----------------------------------------------------------------------------
Init ==
  /\ head = EmptyHead /\ lastRef = 0 /\ knownRefs = {}
  /\ pc = "idle"
  /\ cur \in [ref : {1}, lset : Lsets, t : {0}]
  /\ now = 0
  /\ wal = {} /\ end = 0 /\ segIdx = 1 /\ walFile = "open" /\ todo = {}
  /\ pos = 0
  /\ blocks = {}
  /\ acked = {}
  /\ clobbered = [res \in Res |-> {}] /\ horizon = [res \in Res |-> 0]
  /\ clock = 0
  /\ appends = 0 /\ crashes = 0 /\ faults = 0

\* A scrape cycle reads the wall clock, or a sample shares the time of the last one.
ReadClock(t) ==
  /\ t \in 1 .. MaxTime
  /\ t >= clock \/ "clock" \in Faults
  /\ clock' = t

-----------------------------------------------------------------------------
(* DB.Append: the head first, then the log. *)

\* Head.Append accepts the sample; a ref not in knownRefs needs its series
\* record before the samples record.
AppendHead(l, t) ==
  /\ pc = "idle" /\ appends < MaxAppends
  /\ ReadClock(t)
  /\ \E ref \in GetOrCreate(l) :
       /\ Accepts(SeriesAt(ref, l), t)
       /\ head' = Register(ref, Appended(SeriesAt(ref, l), t, l))
       /\ lastRef' = IF ref \in DOMAIN head THEN lastRef ELSE ref
       /\ cur' = [ref |-> ref, lset |-> l, t |-> t]
       /\ pc' = IF ref \in knownRefs THEN "logSamples" ELSE "logSeries"
  /\ appends' = appends + 1
  /\ UNCHANGED <<knownRefs, now, walVars, pos, blocks, histVars, crashes, faults>>

\* Head.Append answers ErrOutOfOrder, and Append with it.
AppendRejected(l, t) ==
  /\ pc = "idle" /\ appends < MaxAppends
  /\ ReadClock(t)
  /\ \E ref \in GetOrCreate(l) : ~Accepts(SeriesAt(ref, l), t)
  /\ appends' = appends + 1
  /\ UNCHANGED <<memVars, pc, cur, now, walVars, pos, blocks, histVars, crashes,
                 faults>>

LogSeries ==
  /\ pc = "logSeries"
  /\ \/ /\ WriteSucceeds("series")
        /\ knownRefs' = knownRefs \cup {cur.ref}
        /\ pc' = "logSamples"
     \/ /\ WriteFails
        /\ pc' = "idle"
        /\ UNCHANGED knownRefs
  /\ UNCHANGED <<head, lastRef, cur, now, pos, blocks, histVars, clock, appends,
                 crashes>>

\* The last step of Append: its nil answer is the acknowledgement.
LogSamples ==
  /\ pc = "logSamples"
  /\ \/ /\ WriteSucceeds("samples")
        /\ acked' = acked \cup {[lset |-> cur.lset, t |-> cur.t, v |-> cur.lset]}
     \/ /\ WriteFails
        /\ UNCHANGED acked
  /\ pc' = "idle"
  /\ UNCHANGED <<memVars, cur, now, pos, blocks, clobbered, horizon, clock,
                 appends, crashes>>

-----------------------------------------------------------------------------
(* DB.Compact *)

\* Compact(now) selects every series. Its time is that of a tick, theirs that of the
\* start of a scrape cycle: neither bounds the other. WriteBlock writes its files to
\* <dir>.tmp, which no reader opens, or fails there. A head whose series hold no
\* chunk makes no block.
CompactStart(t) ==
  /\ pc = "idle"
  /\ now' = t
  /\ \/ /\ UNCHANGED faults
        /\ pc' = IF DOMAIN head = {} THEN "retain"
                 ELSE IF HeadData = {} THEN "reset" ELSE "removeRaw"
     \/ /\ HeadData # {} /\ Fault("block")
        /\ pc' = "idle"
  /\ UNCHANGED <<memVars, cur, walVars, pos, blocks, histVars, clock, appends, crashes>>

\* The time range WriteBlock puts in meta.json and in the directory's name.
Filled == {r \in DOMAIN head : head[r].n > 0}
SpansHead(lo, hi) ==
  /\ \E r \in Filled : head[r].minT = lo
  /\ \E r \in Filled : head[r].maxT = hi
  /\ \A r \in Filled : lo <= head[r].minT /\ head[r].maxT <= hi

BucketEnd(t) == (t \div RollupInterval) * RollupInterval + RollupInterval

\* RollupSeries gives a bucket the timestamp of its start.
BucketStart(t) == (t \div RollupInterval) * RollupInterval

\* The timestamp under which a block of a resolution keeps a sample.
StoredAt(res, t) == IF res = "raw" THEN t ELSE BucketStart(t)

\* RollupSeries ignores memSeries.append's refusal of a bucket that starts before
\* the last one.
Overtaken(s) ==
  \E q \in HeadData : q.lset = s.lset /\ BucketStart(q.t) > BucketStart(s.t)
Storable(res) ==
  IF res = "raw" \/ "clock" \notin Faults THEN {HeadData}
  ELSE {d \in SUBSET HeadData : \A s \in HeadData \ d : Overtaken(s)}

NewBlock(res, lo, hi, d) ==
  [minT |-> StoredAt(res, lo), maxT |-> StoredAt(res, hi), res |-> res, data |-> d]

\* The block that has the directory a new one is renamed to.
Namesakes(res, lo, hi) ==
  {b \in blocks : b.res = res /\ b.minT = StoredAt(res, lo) /\ b.maxT = StoredAt(res, hi)}

\* What a removed block held is lost unless both the head and the log hold it too.
LostWith(old) == (UNION {b.data : b \in old}) \ (HeadData \cap RecoverableData)

\* os.RemoveAll(dir): a block of the same name goes before the new one comes.
RemoveOld(res, at, next) ==
  /\ pc = at
  /\ \/ /\ \E lo, hi \in Time :
             /\ SpansHead(lo, hi)
             /\ LET old == Namesakes(res, lo, hi)
                IN  /\ blocks' = blocks \ old
                    /\ clobbered' = [clobbered EXCEPT ![res] = @ \cup LostWith(old)]
        /\ pc' = next
        /\ UNCHANGED faults
     \/ /\ Fault("block")
        /\ pc' = "idle"
        /\ UNCHANGED <<blocks, clobbered>>
  /\ UNCHANGED <<memVars, cur, now, walVars, pos, acked, horizon, clock, appends,
                 crashes>>

RenameUnchecked(res, at, next) ==
  /\ pc = at
  /\ \/ /\ \E lo, hi \in Time, d \in Storable(res) :
             /\ SpansHead(lo, hi)
             /\ blocks' = blocks \cup {NewBlock(res, lo, hi, d)}
        /\ UNCHANGED faults
     \/ Fault("block") /\ UNCHANGED blocks
  /\ pc' = next
  /\ UNCHANGED <<memVars, cur, now, walVars, pos, histVars, clock, appends,
                 crashes>>

\* os.Rename(tmp, dir): the block appears whole.
Rename(res, at, next) ==
  /\ pc = at
  /\ \/ /\ \E lo, hi \in Time, d \in Storable(res) :
             /\ SpansHead(lo, hi)
             /\ blocks' = blocks \cup {NewBlock(res, lo, hi, d)}
        /\ pc' = next
        /\ UNCHANGED faults
     \/ /\ Fault("block")
        /\ pc' = "idle"
        /\ UNCHANGED blocks
  /\ UNCHANGED <<memVars, cur, now, walVars, pos, histVars, clock, appends,
                 crashes>>

KnownRefsKept == knownRefs

\* The refs of the next log are new ones.
KnownRefsAfterReset == {}

\* Head.Reset, and the knownRefs of the log about to go.
Reset ==
  /\ pc = "reset"
  /\ head' = EmptyHead
  /\ lastRef' = 0
  /\ knownRefs' = KnownRefsAfterReset
  /\ pc' = "truncate"
  /\ UNCHANGED <<cur, now, walVars, pos, blocks, histVars, clock, appends,
                 crashes, faults>>

\* WAL.Truncate up to its loop: a file closed before cannot be closed again.
TruncateStart ==
  /\ pc = "truncate"
  /\ \/ /\ walFile # "closed"
        /\ walFile' = "nil"
        /\ todo' = {r.seg : r \in wal}
        /\ pc' = "removing"
        /\ UNCHANGED faults
     \/ /\ walFile = "closed"
        /\ pc' = "idle"
        /\ UNCHANGED <<walFile, todo, faults>>
     \/ /\ walFile # "closed" /\ Fault("truncate")
        /\ walFile' \in (IF walFile = "open" THEN {"closed", "nil"} ELSE {"nil"})
        /\ pc' = "idle"
        /\ UNCHANGED todo
  /\ UNCHANGED <<memVars, cur, now, wal, end, segIdx, pos, blocks, histVars,
                 clock, appends, crashes>>

\* One turn of its loop: the segments go in order of their number.
RemoveSegment ==
  /\ pc = "removing"
  /\ \E s \in todo :
       /\ \A q \in todo : s <= q
       /\ todo' = todo \ {s}
       /\ \/ /\ wal' = {r \in wal : r.seg # s}
             /\ UNCHANGED faults
          \/ /\ Fault("remove")
             /\ UNCHANGED wal
  /\ UNCHANGED <<memVars, pc, cur, now, end, segIdx, walFile, pos, blocks,
                 histVars, clock, appends, crashes>>

\* The new segment is opened; an error of the loop ends Compact here.
TruncateEnd ==
  /\ pc = "removing" /\ todo = {}
  /\ segIdx' = segIdx + 1
  /\ end' = IF wal = {} THEN 0 ELSE end
  /\ \/ /\ walFile' = "open"
        /\ pc' = IF wal = {} THEN "retain" ELSE "idle"
        /\ UNCHANGED faults
     \/ /\ Fault("truncate")
        /\ pc' = "idle"
        /\ UNCHANGED walFile
  /\ UNCHANGED <<memVars, cur, now, wal, todo, pos, blocks, histVars, clock,
                 appends, crashes>>

Retention(res) == IF res = "raw" THEN RawRetention ELSE RollupRetention

ExpiredByMinTime(b) ==
  Retention(b.res) > 0 /\ b.minT < now - Retention(b.res)

\* ApplyRetention's test of one block.
Expired(b) == Retention(b.res) > 0 /\ b.maxT < now - Retention(b.res)

HorizonAfter(res) ==
  IF Retention(res) > 0 /\ now - Retention(res) > horizon[res]
    THEN now - Retention(res) ELSE horizon[res]

\* ApplyRetention: all expired blocks, or those before the one that could not
\* be removed.
ApplyRetention ==
  /\ pc = "retain"
  /\ \/ /\ blocks' = {b \in blocks : ~Expired(b)}
        /\ UNCHANGED faults
     \/ /\ Fault("retention")
        /\ \E kept \in SUBSET {b \in blocks : Expired(b)} :
             /\ kept # {}
             /\ blocks' = {b \in blocks : Expired(b) => b \in kept}
  /\ horizon' = [res \in Res |-> HorizonAfter(res)]
  /\ pc' = "idle"
  /\ UNCHANGED <<memVars, cur, now, walVars, pos, acked, clobbered, clock,
                 appends, crashes>>

-----------------------------------------------------------------------------
(* A kill, and Open *)

\* The process dies at any point; in the middle of a write it may leave a torn
\* record.
Crash ==
  /\ pc # "down" /\ crashes < MaxCrashes
  /\ crashes' = crashes + 1
  /\ head' = EmptyHead /\ lastRef' = 0 /\ knownRefs' = {}
  /\ walFile' = "nil" /\ todo' = {}
  /\ pc' = "down"
  /\ \/ UNCHANGED <<wal, end, segIdx, faults>>
     \/ /\ pc \in {"logSeries", "logSamples"} /\ walFile = "open"
        /\ Fault("cut")
        /\ wal' = wal \cup {LogRecord("torn")}
        /\ end' = end + 1
        /\ segIdx' = WriteSeg
  /\ UNCHANGED <<cur, now, pos, blocks, histVars, clock, appends>>

Open ==
  /\ pc = "down"
  /\ pc' = "replay"
  /\ pos' = 0
  /\ UNCHANGED <<memVars, cur, now, walVars, blocks, histVars, clock, appends,
                 crashes, faults>>

IsNext(r) ==
  /\ r \in wal /\ r.place > pos
  /\ \A q \in wal : q.place > pos => r.place <= q.place

LastRefNotRaised(ref) == lastRef

\* Head.GetOrCreateWithRef keeps lastRef at the greatest ref.
LastRefAfter(ref) == IF ref > lastRef THEN ref ELSE lastRef

\* ReplayWAL hands a series record to Head.GetOrCreateWithRef, which keeps the
\* series a ref already has.
ReplaySeries(r) ==
  /\ pc = "replay" /\ IsNext(r) /\ r.kind = "series"
  /\ pos' = r.place
  /\ IF r.ref \in DOMAIN head
       THEN UNCHANGED <<head, lastRef>>
       ELSE /\ head' = Register(r.ref, NewSeries(r.lset))
            /\ lastRef' = LastRefAfter(r.ref)
  /\ UNCHANGED <<knownRefs, pc, cur, now, walVars, blocks, histVars, clock,
                 appends, crashes, faults>>

\* A samples record of an unknown ref, or out of order, is dropped.
ReplaySamples(r) ==
  /\ pc = "replay" /\ IsNext(r) /\ r.kind = "samples"
  /\ pos' = r.place
  /\ IF r.ref \in DOMAIN head /\ Accepts(head[r.ref], r.t)
       THEN head' = Register(r.ref, Appended(head[r.ref], r.t, r.lset))
       ELSE UNCHANGED head
  /\ UNCHANGED <<lastRef, knownRefs, pc, cur, now, walVars, blocks, histVars,
                 clock, appends, crashes, faults>>

\* The end of the log or a torn record ends the replay; OpenWAL then opens the
\* last segment to append to it, whatever it ends with.
ReplayEnd ==
  /\ pc = "replay"
  /\ \A r \in wal : r.place > pos => ~Reached(r)
  /\ knownRefs' = DOMAIN head
  /\ walFile' = "open"
  /\ pc' = "idle"
  /\ UNCHANGED <<head, lastRef, cur, now, wal, end, segIdx, todo, pos, blocks,
                 histVars, clock, appends, crashes, faults>>

-----------------------------------------------------------------------------
WriteRawBlock ==
  \/ RemoveOld("raw", "removeRaw", "renameRaw")
  \/ Rename("raw", "renameRaw", "remove5m")

WriteRollupBlock ==
  \/ RemoveOld("5m", "remove5m", "rename5m")
  \/ Rename("5m", "rename5m", "reset")

Next ==
  \/ \E l \in Lsets, t \in Time : AppendHead(l, t) \/ AppendRejected(l, t)
  \/ LogSeries \/ LogSamples
  \/ \E t \in Time : CompactStart(t)
  \/ WriteRawBlock \/ WriteRollupBlock
  \/ Reset \/ TruncateStart \/ RemoveSegment \/ TruncateEnd \/ ApplyRetention
  \/ Crash \/ Open
  \/ \E r \in wal : ReplaySeries(r) \/ ReplaySamples(r)
  \/ ReplayEnd

Spec == Init /\ [][Next]_vars

-----------------------------------------------------------------------------
(* Properties *)

TypeOK ==
  /\ DOMAIN head \subseteq Ref
  /\ \A r \in DOMAIN head : head[r] \in Series
  /\ lastRef \in Nat /\ knownRefs \subseteq Ref
  /\ pc \in PCs
  /\ cur \in Append_
  /\ now \in Time /\ clock \in Time
  /\ wal \subseteq Record /\ end \in Nat /\ segIdx \in Nat
  /\ walFile \in {"open", "closed", "nil"}
  /\ todo \subseteq Nat
  /\ pos \in Nat
  /\ blocks \subseteq Block
  /\ acked \subseteq Samples
  /\ clobbered \in [Res -> SUBSET Samples] /\ horizon \in [Res -> Time]
  /\ appends \in Nat /\ crashes \in Nat /\ faults \in Nat

\* A sample is kept under the label set it was appended under, in the head and
\* in the blocks, through every restart: a ref never stands for two series.
LabelFidelity ==
  /\ \A s \in HeadData : s.lset = s.v
  /\ \A b \in blocks : \A s \in b.data : s.lset = s.v

\* A ref in knownRefs has its series record in the log, so no samples record is
\* ever written that a replay would drop for want of its label set.
KnownRefsLogged ==
  \A ref \in knownRefs :
    pc \notin {"truncate", "removing"} /\ walFile = "open" =>
      \E q \in wal : q.kind = "series" /\ q.ref = ref

\* What retention gave up, or a block lost to its namesake.
Forgotten(res, s) ==
  StoredAt(res, s.t) < horizon[res] \/ s \in clobbered[res]

\* An acknowledged sample is on disk where a restart finds it: in a raw block or
\* in a record the replay recovers.
Durable ==
  \A s \in acked :
    Forgotten("raw", s) \/ s \in DataOf("raw") \/ s \in RecoverableData

\* It is also in a bucket of a rollup block, or in a record from which the next
\* Compact will sum it up: the rollup outlives the raw block without a gap.
RollupDurable ==
  \A s \in acked :
    Forgotten("5m", s) \/ s \in DataOf("5m") \/ s \in RecoverableData

\* While the process is up, an acknowledged sample is in the head or in a raw block: it can be
\* read, as long as no clock step has put it outside its block's range or behind a later one.
Readable ==
  Up => \A s \in acked :
    Forgotten("raw", s) \/ s \in DataOf("raw") \/ s \in HeadData

\* Whatever the clock does, the log loses an acknowledged sample only if a write was
\* cut short or a segment could not be removed ...
UndamagedIsDurable == faults = 0 => Durable

\* ... and even then the process that acknowledged it still has it, in the head or in a raw
\* block. (That a query finds it there is not said: after a clock step DB.Querier may skip the
\* block by its range, and the iterator a sample behind the last one emitted.)
KeptUntilRestart == crashes = 0 => Readable

\* meta.json's time range, by which a query decides whether to open a block,
\* covers every timestamp the block stores.
BlockRange ==
  \A b \in blocks : \A s \in b.data :
    b.minT <= StoredAt(b.res, s.t) /\ StoredAt(b.res, s.t) <= b.maxT
=============================================================================
