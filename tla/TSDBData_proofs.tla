-------------------------- MODULE TSDBData_proofs --------------------------
(***************************************************************************)
(* What the timestamps promise: TimeInv is inductive while the wall clock  *)
(* is never stepped back, and with it BlockRange holds. Where the samples  *)
(* are: DataInv is inductive, and with it Durable and Readable hold.       *)
(***************************************************************************)
EXTENDS TSDBRef_proofs, TSDBStore, FiniteSetTheorems

-----------------------------------------------------------------------------
(* Timestamps.                                                              *)

\* What TimeInv asks of the log and the head, which holds whatever fails.
BaseInv == TypeOK /\ PlacesUnique /\ DownHead

Inv == BaseInv /\ TimeInv

\* A write leaves a record, torn or whole, or none. So does a kill.
WritesRecord == \E kind \in {"series", "samples", "torn"} : Write(kind)

LEMMA LogsOneRecord ==
  ASSUME LogSeries \/ LogSamples
  PROVE  WritesRecord \/ UNCHANGED <<wal, end>>
  BY DEF LogSeries, LogSamples, WriteSucceeds, WriteFails, WritesRecord, walVars

LEMMA BaseInit == Init => BaseInv
  BY TypeInit DEF Init, BaseInv, PlacesUnique, DownHead, EmptyHead

LEMMA BaseStep == BaseInv /\ [Next]_vars => BaseInv'
  <1> SUFFICES ASSUME BaseInv, [Next]_vars PROVE BaseInv' OBVIOUS
  <1>0. TypeOK' BY TypeStep DEF BaseInv
  <1>1. ASSUME NEW kind \in {"series", "samples", "torn"},
               wal' = wal \cup {LogRecord(kind)}, end' = end + 1
        PROVE  PlacesUnique'
    <2>1. LogRecord(kind).place = end + 1 BY DEF LogRecord
    <2>2. end \in Nat /\ \A r \in wal : r.place \in Nat /\ 0 < r.place /\ r.place <= end
      BY DEF BaseInv, PlacesUnique, TypeOK, Record
    <2> QED BY <1>1, <2>1, <2>2 DEF BaseInv, PlacesUnique
  <1>2. ASSUME wal' \subseteq wal, end' = end \/ wal = {} PROVE PlacesUnique'
    BY <1>2 DEF BaseInv, PlacesUnique
  <1>3. CASE LogSeries \/ LogSamples
    <2>1. PlacesUnique' BY <1>1, <1>2, <1>3, LogsOneRecord DEF WritesRecord, Write
    <2>2. pc' # "down" BY <1>3 DEF LogSeries, LogSamples
    <2> QED BY <1>0, <2>1, <2>2 DEF BaseInv, DownHead
  <1>4. CASE Crash
    <2>1. PlacesUnique' BY <1>1, <1>2, <1>4 DEF Crash
    <2>2. DOMAIN head' = {} BY <1>4 DEF Crash, EmptyHead
    <2> QED BY <1>0, <2>1, <2>2 DEF BaseInv, DownHead
  <1>5. CASE RemoveSegment \/ TruncateEnd
    <2>1. wal' \subseteq wal /\ (end' = end \/ wal = {}) /\ pc' # "down"
      BY <1>5 DEF RemoveSegment, TruncateEnd
    <2> QED BY <1>0, <1>2, <2>1 DEF BaseInv, DownHead
  <1>6. ASSUME UNCHANGED <<wal, end>>, pc' # "down" \/ UNCHANGED <<pc, head>> PROVE BaseInv'
    BY <1>0, <1>2, <1>6 DEF BaseInv, DownHead
  <1>7. ASSUME NEW l \in Lsets, NEW t \in Time, AppendHead(l, t) \/ AppendRejected(l, t)
        PROVE  BaseInv'
    BY <1>6, <1>7 DEF AppendHead, AppendRejected, walVars
  <1>8. ASSUME NEW t \in Time, CompactStart(t) PROVE BaseInv'
    BY <1>6, <1>8 DEF CompactStart, walVars
  <1>9. CASE WriteRawBlock \/ WriteRollupBlock
    BY <1>6, <1>9 DEF WriteRawBlock, WriteRollupBlock, RemoveOld, Rename, walVars
  <1>10. CASE Reset \/ TruncateStart \/ ApplyRetention \/ Open \/ ReplayEnd
    BY <1>6, <1>10 DEF Reset, TruncateStart, ApplyRetention, Open, ReplayEnd, walVars
  <1>11. ASSUME NEW r \in wal, ReplaySeries(r) \/ ReplaySamples(r) PROVE BaseInv'
    BY <1>6, <1>11 DEF ReplaySeries, ReplaySamples, walVars
  <1>12. CASE UNCHANGED vars BY <1>6, <1>12 DEF vars, memVars, walVars
  <1> QED BY <1>3, <1>4, <1>5, <1>7, <1>8, <1>9, <1>10, <1>11, <1>12 DEF Next

LEMMA TimeInit == Init => TimeInv
  <1> SUFFICES ASSUME Init PROVE TimeInv OBVIOUS
  <1>1. DOMAIN head = {} /\ wal = {} /\ blocks = {} /\ clock = 0 /\ pc = "idle"
    BY DEF Init, EmptyHead
  <1> QED BY <1>1 DEF TimeInv, ClockInv, LogSorted, SeriesRange, ReplaySorted,
       BlockRange

\* The range of a series keeps up with what is appended at or above its last time.
LEMMA AppendedRange ==
  ASSUME NEW s \in Series, NEW t \in Time, NEW v \in Lsets,
         s.n = 0 => s.data = {} /\ s.lastT = 0,
         s.n > 0 => s.minT <= s.lastT,
         \A d \in s.data : s.minT <= d.t /\ d.t <= s.maxT,
         s.lastT <= t
  PROVE  LET a == Appended(s, t, v)
         IN  /\ a.n > 0 /\ a.minT <= a.lastT /\ a.lastT = t
             /\ \A d \in a.data : a.minT <= d.t /\ d.t <= a.maxT
  <1> DEFINE a == Appended(s, t, v)
  <1>1. /\ s.n \in Nat /\ s.lastT \in Nat /\ s.minT \in Nat /\ s.maxT \in Nat /\ t \in Nat
        /\ \A d \in s.data : d.t \in Nat
    BY DEF Series, Samples, Time
  <1>2. /\ a.n = s.n + 1 /\ a.lastT = t
        /\ a.minT = (IF s.n = 0 THEN t ELSE s.minT)
        /\ a.maxT = (IF t > s.maxT THEN t ELSE s.maxT)
        /\ a.data = s.data \cup {[lset |-> s.lset, t |-> t, v |-> v]}
    BY DEF Appended
  <1>3. a.minT <= t /\ t <= a.maxT
    BY <1>1, <1>2
  <1>4. ASSUME NEW d \in s.data PROVE a.minT <= d.t /\ d.t <= a.maxT
    BY <1>1, <1>2, <1>4
  <1> QED BY <1>1, <1>2, <1>3, <1>4

LEMMA TimeAppendHead ==
  ASSUME MonotoneClock, Inv, NEW l \in Lsets, NEW t \in Time, AppendHead(l, t)
  PROVE  TimeInv'
  <1>1. PICK ref \in GetOrCreate(l) :
          /\ head' = Register(ref, Appended(SeriesAt(ref, l), t, l))
          /\ cur' = [ref |-> ref, lset |-> l, t |-> t]
    BY DEF AppendHead
  <1>2. /\ pc = "idle" /\ pc' # "replay" /\ clock <= t /\ clock' = t
        /\ UNCHANGED <<wal, blocks>>
    BY DEF AppendHead, ReadClock, MonotoneClock, walVars
  <1>3. /\ clock \in Nat /\ t \in Nat /\ \A r \in wal : r.t \in Nat
        /\ \A r \in DOMAIN head : head[r].lastT \in Nat
    BY DEF Inv, BaseInv, TypeOK, Record, Series, Time
  <1> DEFINE s == SeriesAt(ref, l)
             a == Appended(s, t, l)
  <1>4. /\ s \in Series
        /\ s.n = 0 => s.data = {} /\ s.lastT = 0
        /\ s.n > 0 => s.minT <= s.lastT
        /\ \A d \in s.data : s.minT <= d.t /\ d.t <= s.maxT
        /\ s.lastT <= t
    <2>1. s \in Series BY SeriesAtType DEF Inv, BaseInv
    <2>2. CASE ref \in DOMAIN head
      BY <1>2, <1>3, <2>1, <2>2 DEF SeriesAt, Inv, TimeInv, SeriesRange, ClockInv
    <2>3. CASE ref \notin DOMAIN head
      BY <1>3, <2>1, <2>3 DEF SeriesAt, NewSeries
    <2> QED BY <2>2, <2>3
  <1>5. /\ a.n > 0 /\ a.minT <= a.lastT /\ a.lastT = t
        /\ \A d \in a.data : a.minT <= d.t /\ d.t <= a.maxT
    BY <1>4, AppendedRange
  <1>6. /\ DOMAIN head' = DOMAIN head \cup {ref} /\ head'[ref] = a
        /\ \A r \in DOMAIN head : r # ref => head'[r] = head[r]
    BY <1>1 DEF Register
  <1>7. a.n # 0 BY <1>5, AppendedType, <1>4 DEF Series
  <1> HIDE DEF a
  <1>8. SeriesRange' BY <1>5, <1>6, <1>7 DEF Inv, TimeInv, SeriesRange
  <1>9. ClockInv'
    BY <1>1, <1>2, <1>3, <1>5, <1>6 DEF Inv, TimeInv, ClockInv
  <1> QED BY <1>2, <1>8, <1>9
        DEF Inv, TimeInv, LogSorted, ReplaySorted, BlockRange

\* Steps that add no record, touch no series but to forget all, and read no clock.
LEMMA TimeQuiet ==
  ASSUME Inv, wal' \subseteq wal, head' = head \/ DOMAIN head' = {},
         UNCHANGED <<cur, clock>>, pc' # "replay",
         pc' \in {"logSeries", "logSamples"} => pc \in {"logSeries", "logSamples"},
         BlockRange'
  PROVE  TimeInv'
  <1>1. ClockInv' BY DEF Inv, TimeInv, ClockInv
  <1>2. LogSorted' BY DEF Inv, TimeInv, LogSorted
  <1>3. SeriesRange' BY DEF Inv, TimeInv, SeriesRange
  <1>4. ReplaySorted' BY DEF ReplaySorted
  <1> QED BY <1>1, <1>2, <1>3, <1>4 DEF TimeInv

\* A record of the append in progress is the last one and the latest one.
LEMMA TimeWrite ==
  ASSUME Inv, pc \in {"logSeries", "logSamples"}, pc' # "replay",
         NEW kind \in {"series", "samples", "torn"}, wal' = wal \cup {LogRecord(kind)},
         UNCHANGED <<cur, clock, blocks>>, head' = head \/ DOMAIN head' = {}
  PROVE  TimeInv'
  <1> DEFINE n == LogRecord(kind)
  <1>1. wal' = wal \cup {n} /\ n.place = end + 1 /\ n.t = cur.t
    BY DEF LogRecord
  <1> HIDE DEF n
  <1>2. cur.t = clock /\ \A r \in wal : r.t <= clock
    BY DEF Inv, TimeInv, ClockInv
  <1>3. end \in Nat /\ clock \in Nat /\ \A r \in wal : r.place \in Nat /\ r.t \in Nat
    BY DEF Inv, BaseInv, TypeOK, Record, Time
  <1>4. \A r \in wal : r.place <= end BY DEF Inv, BaseInv, PlacesUnique
  <1>5. ClockInv' BY <1>1, <1>2, <1>3 DEF Inv, TimeInv, ClockInv
  <1>6. LogSorted'
    BY <1>1, <1>2, <1>3, <1>4 DEF Inv, TimeInv, LogSorted
  <1>7. SeriesRange' /\ ReplaySorted' /\ BlockRange'
    BY DEF Inv, TimeInv, SeriesRange, ReplaySorted, BlockRange
  <1> QED BY <1>5, <1>6, <1>7 DEF TimeInv

LEMMA TimeLog ==
  ASSUME Inv, LogSeries \/ LogSamples
  PROVE  TimeInv'
  <1>1. /\ pc \in {"logSeries", "logSamples"} /\ pc' # "replay"
        /\ UNCHANGED <<head, cur, clock, blocks>>
    BY DEF LogSeries, LogSamples, memVars
  <1>2. BlockRange' BY <1>1 DEF Inv, TimeInv, BlockRange
  <1>3. CASE wal' = wal BY <1>1, <1>2, <1>3, TimeQuiet
  <1>4. CASE WritesRecord BY <1>1, <1>4, TimeWrite DEF WritesRecord, Write
  <1> QED BY <1>3, <1>4, LogsOneRecord

\* The range WriteBlock takes from the series covers what they hold.
LEMMA RawRange ==
  ASSUME Inv, NEW lo \in Time, NEW hi \in Time, SpansHead(lo, hi), NEW s \in HeadData
  PROVE  lo <= s.t /\ s.t <= hi
  <1>1. PICK r \in DOMAIN head : s \in head[r].data BY DEF HeadData
  <1>2. head[r] \in Series BY DEF Inv, BaseInv, TypeOK
  <1>3. head[r].n # 0 BY <1>1 DEF Inv, TimeInv, SeriesRange
  <1>4. r \in Filled BY <1>2, <1>3 DEF Filled, Series
  <1>5. lo <= head[r].minT /\ head[r].maxT <= hi BY <1>4 DEF SpansHead
  <1>6. head[r].minT <= s.t /\ s.t <= head[r].maxT BY <1>1 DEF Inv, TimeInv, SeriesRange
  <1>7. s.t \in Nat /\ lo \in Nat /\ hi \in Nat /\ head[r].minT \in Nat /\ head[r].maxT \in Nat
    BY <1>1, <1>2 DEF Series, Samples, Time
  <1> QED BY <1>5, <1>6, <1>7

\* Buckets start in the order of the timestamps they gather.
LEMMA StoredAtMonotone ==
  ASSUME NEW res \in Res, NEW t \in Time, NEW u \in Time, t <= u
  PROVE  StoredAt(res, t) <= StoredAt(res, u)
  <1> DEFINE I == RollupInterval
             p == t \div I
             q == u \div I
  <1>1. I \in Nat \ {0} /\ t \in Nat /\ u \in Nat BY ConstantsAssumption DEF Time
  <1>2. p \in Nat /\ q \in Nat BY <1>1
  <1>3. p * I <= t /\ u < (q + 1) * I BY <1>1
  <1> HIDE DEF p, q, I
  <1>4. p * I < (q + 1) * I BY <1>1, <1>2, <1>3
  <1>5. p <= q BY <1>1, <1>2, <1>4
  <1>6. p * I <= q * I BY <1>1, <1>2, <1>5
  <1> USE DEF p, q, I
  <1> QED BY <1>6 DEF StoredAt, BucketStart

LEMMA TimeRename ==
  ASSUME Inv, NEW res \in Res, NEW at, NEW next \in {"remove5m", "reset"},
         Rename(res, at, next)
  PROVE  TimeInv'
  <1>1. UNCHANGED <<head, cur, clock, wal>> /\ pc' \in {"remove5m", "reset", "idle"}
    BY DEF Rename, memVars, walVars
  <1>2. CASE blocks' = blocks
    <2>1. BlockRange' BY <1>2 DEF Inv, TimeInv, BlockRange
    <2> QED BY <1>1, <2>1, TimeQuiet
  <1>3. ASSUME NEW lo \in Time, NEW hi \in Time, SpansHead(lo, hi),
               NEW d \in Storable(res), blocks' = blocks \cup {NewBlock(res, lo, hi, d)}
        PROVE  TimeInv'
    <2> DEFINE b == NewBlock(res, lo, hi, d)
    <2>1. b.minT = StoredAt(res, lo) /\ b.maxT = StoredAt(res, hi) /\ b.res = res /\ b.data = d
      BY DEF NewBlock
    <2>2. blocks' = blocks \cup {b} BY <1>3
    <2> HIDE DEF b
    <2>3. ASSUME NEW s \in d PROVE StoredAt(res, lo) <= StoredAt(res, s.t)
                                  /\ StoredAt(res, s.t) <= StoredAt(res, hi)
      <3>1. s \in HeadData BY NewBlockType DEF Inv, BaseInv
      <3>2. s.t \in Time BY <3>1, HeadDataType DEF Inv, BaseInv, Samples
      <3>3. lo <= s.t /\ s.t <= hi BY <1>3, <3>1, RawRange
      <3> QED BY <3>2, <3>3, StoredAtMonotone
    <2>4. BlockRange' BY <2>1, <2>2, <2>3 DEF Inv, TimeInv, BlockRange
    <2> QED BY <1>1, <2>4, TimeQuiet
  <1> QED BY <1>2, <1>3 DEF Rename

\* The samples of the log come back in the order of their timestamps.
LEMMA TimeReplay ==
  ASSUME Inv, NEW r \in wal, ReplaySeries(r) \/ ReplaySamples(r)
  PROVE  TimeInv'
  <1>1. /\ pc = "replay" /\ IsNext(r) /\ pos' = r.place
        /\ UNCHANGED <<pc, cur, clock, wal, blocks>>
    BY DEF ReplaySeries, ReplaySamples, walVars
  <1>2. /\ pos \in Nat /\ clock \in Nat
        /\ \A q \in wal : q.place \in Nat /\ q.t \in Time /\ q.t \in Nat /\ q.lset \in Lsets
        /\ \A ref \in DOMAIN head : head[ref] \in Series /\ head[ref].lastT \in Nat
    BY DEF Inv, BaseInv, TypeOK, Record, Series, Time
  <1>3. \A q \in wal : q.place > r.place => q.place > pos /\ r.t <= q.t
    BY <1>1, <1>2 DEF IsNext, Inv, TimeInv, LogSorted
  <1>4. LogSorted' /\ BlockRange'
    BY <1>1 DEF Inv, TimeInv, LogSorted, BlockRange
  <1>5. r.t <= clock /\ \A ref \in DOMAIN head : head[ref].lastT <= clock /\ head[ref].lastT <= r.t
    BY <1>1, <1>2 DEF Inv, TimeInv, ClockInv, ReplaySorted, IsNext
  <1>6. CASE head' = head
    <2>1. ReplaySorted' BY <1>1, <1>3, <1>6 DEF Inv, TimeInv, ReplaySorted
    <2> QED BY <1>1, <1>4, <1>6, <2>1 DEF Inv, TimeInv, ClockInv, SeriesRange
  <1>7. ASSUME NEW s, head' = Register(r.ref, s),
               s.n = 0 => s.data = {} /\ s.lastT = 0,
               s.n > 0 => s.minT <= s.lastT,
               \A d \in s.data : s.minT <= d.t /\ d.t <= s.maxT,
               s.lastT <= r.t, s.lastT \in Nat
        PROVE  TimeInv'
    <2>1. /\ DOMAIN head' = DOMAIN head \cup {r.ref} /\ head'[r.ref] = s
          /\ \A ref \in DOMAIN head : ref # r.ref => head'[ref] = head[ref]
      BY <1>7 DEF Register
    <2>2. SeriesRange' BY <1>7, <2>1 DEF Inv, TimeInv, SeriesRange
    <2>3. ClockInv' BY <1>1, <1>2, <1>5, <1>7, <2>1 DEF Inv, TimeInv, ClockInv
    <2>4. ASSUME NEW q \in wal, q.place > r.place, NEW ref \in DOMAIN head'
          PROVE  head'[ref].lastT <= q.t
      <3>1. q.place > pos /\ r.t <= q.t BY <1>3, <2>4
      <3>2. CASE ref = r.ref BY <1>2, <1>7, <2>1, <3>1, <3>2
      <3>3. CASE ref # r.ref
        BY <1>1, <2>1, <3>1, <3>3 DEF Inv, TimeInv, ReplaySorted
      <3> QED BY <3>2, <3>3
    <2>5. ReplaySorted' BY <1>1, <2>4 DEF ReplaySorted
    <2> QED BY <1>4, <2>2, <2>3, <2>5 DEF TimeInv
  <1>8. CASE ReplaySeries(r) /\ head' = Register(r.ref, NewSeries(r.lset))
    BY <1>2, <1>7, <1>8 DEF NewSeries
  <1>9. CASE /\ r.ref \in DOMAIN head
             /\ head' = Register(r.ref, Appended(head[r.ref], r.t, r.lset))
    <2> DEFINE s == head[r.ref]
               a == Appended(s, r.t, r.lset)
    <2>1. /\ s.n = 0 => s.data = {} /\ s.lastT = 0
          /\ s.n > 0 => s.minT <= s.lastT
          /\ \A d \in s.data : s.minT <= d.t /\ d.t <= s.maxT
      BY <1>9 DEF Inv, TimeInv, SeriesRange
    <2>2. s \in Series /\ s.lastT <= r.t /\ r.t \in Time /\ r.lset \in Lsets
      BY <1>2, <1>5, <1>9
    <2>3. /\ a.n > 0 /\ a.minT <= a.lastT /\ a.lastT = r.t
          /\ \A d \in a.data : a.minT <= d.t /\ d.t <= a.maxT
      BY <2>1, <2>2, AppendedRange
    <2>4. a \in Series BY <2>2, AppendedType
    <2>5. a.n # 0 BY <2>3, <2>4 DEF Series
    <2>6. head' = Register(r.ref, a) BY <1>9
    <2> HIDE DEF a
    <2> QED BY <1>2, <1>7, <2>3, <2>5, <2>6
  <1> QED BY <1>6, <1>8, <1>9 DEF ReplaySeries, ReplaySamples

LEMMA TimeStep ==
  ASSUME MonotoneClock, Inv, [Next]_vars
  PROVE  TimeInv'
  <1>1. ASSUME NEW l \in Lsets, NEW t \in Time, AppendHead(l, t) PROVE TimeInv'
    BY <1>1, TimeAppendHead
  <1>2. ASSUME NEW t \in Time, ReadClock(t), pc' \notin {"logSeries", "logSamples", "replay"},
               UNCHANGED <<head, wal, blocks>>
        PROVE  TimeInv'
    <2>1. /\ clock <= t /\ clock' = t /\ clock \in Nat /\ t \in Nat
          /\ \A r \in wal : r.t \in Nat
          /\ \A r \in DOMAIN head : head[r].lastT \in Nat
      BY <1>2 DEF ReadClock, MonotoneClock, Inv, BaseInv, TypeOK, Record, Series, Time
    <2>2. ClockInv' BY <1>2, <2>1 DEF Inv, TimeInv, ClockInv
    <2> QED BY <1>2, <2>2
          DEF Inv, TimeInv, LogSorted, SeriesRange, ReplaySorted, BlockRange
  <1>3. ASSUME NEW l \in Lsets, NEW t \in Time, AppendRejected(l, t) PROVE TimeInv'
    BY <1>2, <1>3 DEF AppendRejected, memVars, walVars
  <1>4. CASE LogSeries \/ LogSamples BY <1>4, TimeLog
  <1>5. ASSUME NEW t \in Time, CompactStart(t) PROVE TimeInv'
    <2>1. /\ UNCHANGED <<head, wal, blocks, cur, clock>>
          /\ pc' \notin {"logSeries", "logSamples", "replay"}
      BY <1>5 DEF CompactStart, memVars, walVars
    <2>2. BlockRange' BY <2>1 DEF Inv, TimeInv, BlockRange
    <2> QED BY <2>1, <2>2, TimeQuiet
  <1>6. ASSUME NEW res, NEW at, NEW next \in {"renameRaw", "rename5m"},
               RemoveOld(res, at, next)
        PROVE  TimeInv'
    <2>1. blocks' \subseteq blocks BY <1>6 DEF RemoveOld
    <2>2. BlockRange' BY <2>1 DEF Inv, TimeInv, BlockRange
    <2> QED BY <1>6, <2>2, TimeQuiet DEF RemoveOld, memVars, walVars
  <1>7. CASE Rename("raw", "renameRaw", "remove5m") \/ Rename("5m", "rename5m", "reset")
    BY <1>7, TimeRename DEF Res
  <1>8. CASE Reset \/ TruncateStart \/ RemoveSegment \/ TruncateEnd \/ ApplyRetention
    <2>1. blocks' \subseteq blocks
      BY <1>8 DEF Reset, TruncateStart, RemoveSegment, TruncateEnd, ApplyRetention
    <2>2. BlockRange' BY <2>1 DEF Inv, TimeInv, BlockRange
    <2>3. wal' \subseteq wal /\ (head' = head \/ DOMAIN head' = {})
      BY <1>8 DEF Reset, TruncateStart, RemoveSegment, TruncateEnd, ApplyRetention,
         EmptyHead, memVars, walVars
    <2>4. UNCHANGED <<cur, clock>> /\ pc' \notin {"replay", "logSeries", "logSamples"}
      BY <1>8 DEF Reset, TruncateStart, RemoveSegment, TruncateEnd, ApplyRetention
    <2> QED BY <2>2, <2>3, <2>4, TimeQuiet
  <1>9. CASE Crash
    <2>1. /\ UNCHANGED <<blocks, cur, clock>> /\ DOMAIN head' = {} /\ pc' = "down"
          /\ \/ wal' = wal
             \/ /\ pc \in {"logSeries", "logSamples"}
                /\ wal' = wal \cup {LogRecord("torn")}
      BY <1>9 DEF Crash, EmptyHead
    <2>2. BlockRange' BY <2>1 DEF Inv, TimeInv, BlockRange
    <2> QED BY <2>1, <2>2, TimeQuiet, TimeWrite
  <1>10. CASE Open
    <2>1. DOMAIN head = {} /\ UNCHANGED <<head, wal, blocks, cur, clock>> /\ pc' = "replay"
      BY <1>10 DEF Open, Inv, BaseInv, DownHead, memVars, walVars
    <2> QED BY <2>1 DEF Inv, TimeInv, ClockInv, LogSorted, SeriesRange, ReplaySorted,
          BlockRange
  <1>11. ASSUME NEW r \in wal, ReplaySeries(r) \/ ReplaySamples(r) PROVE TimeInv'
    BY <1>11, TimeReplay
  <1>12. CASE ReplayEnd
    <2>1. UNCHANGED <<head, wal, blocks, cur, clock>> /\ pc' = "idle"
      BY <1>12 DEF ReplayEnd
    <2>2. BlockRange' BY <2>1 DEF Inv, TimeInv, BlockRange
    <2> QED BY <2>1, <2>2, TimeQuiet
  <1>13. CASE UNCHANGED vars
    BY <1>13 DEF vars, memVars, walVars, Inv, TimeInv, ClockInv, LogSorted,
       SeriesRange, ReplaySorted, BlockRange
  <1> QED BY <1>1, <1>3, <1>4, <1>5, <1>6, <1>7, <1>8, <1>9, <1>10, <1>11, <1>12,
             <1>13 DEF Next, WriteRawBlock, WriteRollupBlock

LEMMA TimeInvariant == ASSUME MonotoneClock PROVE Spec => []Inv
  <1>1. Init => Inv BY BaseInit, TimeInit DEF Inv
  <1>2. Inv /\ [Next]_vars => Inv' BY BaseStep, TimeStep DEF Inv
  <1> QED BY <1>1, <1>2, PTL DEF Spec

\* While the wall clock is not stepped back, meta.json's range covers every sample of
\* its block, so a query never skips a block that has an answer. Nothing is asked of
\* the log: a replay of any part of it brings the samples back in their order.
THEOREM BlockRangesCover == ASSUME MonotoneClock PROVE Spec => []BlockRange
  <1>1. Inv => BlockRange BY DEF Inv, TimeInv
  <1> QED BY <1>1, TimeInvariant, PTL

-----------------------------------------------------------------------------
(* Samples.                                                                 *)

FullInv == RefInv /\ TimeInv /\ DataInv

LEMMA FullImpliesInv == RefInv /\ TimeInv => Inv
  BY DEF RefInv, Inv, BaseInv

\* What the steps of DataInv ask of the timestamps. It follows from TimeInv, and from
\* CountInv.
SampleInv == RefInv /\ NotLater /\ Accepting /\ DataInv

LEMMA KeptType == Kept \subseteq Res /\ "raw" \in Kept
  BY DEF Kept, Res

LEMMA DataInit == Init => DataInv
  <1> SUFFICES ASSUME Init PROVE DataInv OBVIOUS
  <1>1. wal = {} /\ acked = {} /\ pc = "idle" BY DEF Init
  <1> QED BY <1>1 DEF DataInv, LogInv, HeadInv, CompactedInv, ReplayInv, AckedInv

\* A log without torn records is recovered to its end.
LEMMA RecoverableIff ==
  ASSUME RefInv, NEW r \in wal, IsSamples(r), NEW q \in wal, GivesRef(q, r)
  PROVE  Recoverable(r)
  <1>1. Reached(r) BY DEF Reached, RefInv, NoTorn
  <1>2. \A p \in wal : GivesRef(p, r) => p.lset = r.lset
    BY DEF GivesRef, RefInv, LogCoherent, IsSeries
  <1> QED BY <1>1, <1>2 DEF Recoverable, IsSamples

\* A record at the end of the log takes nothing away from what precedes it.
LEMMA WriteKeepsRecoverable ==
  ASSUME RefInv, RefInv', NEW kind \in {"series", "samples"}, Write(kind)
  PROVE  RecoverableData \subseteq RecoverableData'
  <1>1. wal \subseteq wal' BY DEF Write
  <1>2. ASSUME NEW r \in wal, Recoverable(r) PROVE Recoverable(r)'
    <2>1. r \in wal' /\ r.kind = "samples" BY <1>1, <1>2 DEF Recoverable
    <2>2. Reached(r)' BY DEF Reached, RefInv, NoTorn
    <2>3. PICK q \in wal : GivesRef(q, r) BY <1>2 DEF Recoverable
    <2>4. \A p \in wal' : GivesRef(p, r) => p.lset = r.lset
      BY <2>1 DEF GivesRef, RefInv, LogCoherent, IsSeries
    <2> QED BY <1>1, <2>1, <2>2, <2>3, <2>4 DEF Recoverable, GivesRef
  <1> QED BY <1>1, <1>2 DEF RecoverableData

LEMMA LoggedType ==
  ASSUME TypeOK
  PROVE  /\ \A r \in wal : Logged(r) \in Samples
         /\ \A s \in acked : s \in Samples
  BY DEF TypeOK, Record, Logged, Samples

\* What is safe is a matter of blocks, clobbered and horizon.
LEMMA SafeKept ==
  ASSUME UNCHANGED <<blocks, clobbered, horizon>>
  PROVE  \A res \in Kept : \A s : Safe(res, s) <=> Safe(res, s)'
  BY DEF Safe, Forgotten, DataOf

\* What a step owes when it changes neither the log nor the acknowledged samples,
\* gives up no sample of the head while the process is up, and makes unsafe at most
\* samples that head and log both hold.
LEMMA DataQuiet ==
  ASSUME SampleInv, TypeOK', wal' = wal, acked' = acked,
         \A res \in Kept, s \in Samples :
           Safe(res, s) => Safe(res, s)' \/ s \in HeadData' \cap RecoverableData,
         Up' => Up /\ HeadData \subseteq HeadData',
         pc' # "replay",
         CompactedInv'
  PROVE  DataInv'
  <1>1. RecoverableData' = RecoverableData
    BY DEF RecoverableData, Recoverable, Reached, GivesRef
  <1>2. /\ \A r \in wal : Logged(r) \in Samples
        /\ \A s \in acked : s \in Samples
    BY LoggedType DEF SampleInv, RefInv
  <1>3. LogInv' BY <1>1, <1>2 DEF SampleInv, DataInv, LogInv, IsSamples
  <1>4. HeadInv' BY <1>1, <1>2 DEF SampleInv, DataInv, HeadInv, IsSamples
  <1>5. ReplayInv' BY DEF ReplayInv
  <1>6. \A s \in RecoverableData : \E r \in wal : IsSamples(r) /\ Logged(r) = s
    BY DEF RecoverableData, Recoverable, IsSamples
  <1>7. AckedInv' BY <1>2, <1>6 DEF SampleInv, DataInv, AckedInv, IsSamples
  <1> QED BY <1>3, <1>4, <1>5, <1>7 DEF DataInv

LEMMA DataAppendHead ==
  ASSUME SampleInv, RefInv', NEW l \in Lsets, NEW t \in Time, AppendHead(l, t)
  PROVE  DataInv'
  <1>1. /\ pc = "idle" /\ pc' \in {"logSeries", "logSamples"}
        /\ UNCHANGED <<wal, acked, blocks, clobbered, horizon>>
    BY DEF AppendHead, walVars, histVars
  <1>2. HeadData \subseteq HeadData'
    <2>1. PICK ref \in GetOrCreate(l) :
            head' = Register(ref, Appended(SeriesAt(ref, l), t, l))
      BY DEF AppendHead
    <2>2. \A r \in DOMAIN head : r \in DOMAIN head' /\ head[r].data \subseteq head'[r].data
      BY <2>1 DEF Register, Appended, SeriesAt
    <2> QED BY <2>2 DEF HeadData
  <1>3. CompactedInv' BY <1>1 DEF CompactedInv, Compacted
  <1> QED BY <1>1, <1>2, <1>3, SafeKept, DataQuiet DEF Up, RefInv

LEMMA DataLog ==
  ASSUME WholeStep, SampleInv, RefInv', LogSeries \/ LogSamples
  PROVE  DataInv'
  <1>1. /\ pc \in {"logSeries", "logSamples"} /\ pc' \in {"logSamples", "idle"}
        /\ UNCHANGED <<head, cur, blocks, clobbered, horizon>>
    BY DEF LogSeries, LogSamples, memVars, histVars
  <1>2. \A res \in Kept : \A s : Safe(res, s) <=> Safe(res, s)' BY <1>1, SafeKept
  <1>3. HeadData' = HeadData /\ CompactedInv'
    BY <1>1 DEF HeadData, CompactedInv, Compacted
  <1>4. CASE wal' = wal /\ acked' = acked
    BY <1>1, <1>2, <1>3, <1>4, DataQuiet DEF Up, RefInv
  <1>5. CASE WriteSucceeds("series") /\ acked' = acked
    <2>1. Write("series") BY <1>5 DEF WriteSucceeds
    <2>2. RecoverableData \subseteq RecoverableData' BY <2>1, WriteKeepsRecoverable DEF SampleInv
    <2>3. wal \subseteq wal' /\ \A r \in wal' : IsSamples(r) => r \in wal
      BY <2>1 DEF Write, LogRecord, IsSamples
    <2>4. LogInv' BY <1>2, <2>2, <2>3 DEF SampleInv, DataInv, LogInv, IsSamples
    <2>5. HeadInv' BY <1>1, <1>2, <1>3, <2>3 DEF SampleInv, DataInv, HeadInv, IsSamples, Up
    <2>6. AckedInv' BY <1>2, <1>5, <2>3 DEF SampleInv, DataInv, AckedInv, IsSamples
    <2> QED BY <1>1, <1>3, <2>4, <2>5, <2>6 DEF DataInv, ReplayInv
  <1>6. CASE /\ LogSamples /\ WriteSucceeds("samples")
             /\ acked' = acked \cup {[lset |-> cur.lset, t |-> cur.t, v |-> cur.lset]}
    <2>0. PICK n, s : /\ n = LogRecord("samples")
                      /\ s = [lset |-> cur.lset, t |-> cur.t, v |-> cur.lset]
      OBVIOUS
    <2>1. Write("samples") /\ walFile = "open" BY <1>6 DEF WriteSucceeds
    <2>2. RecoverableData \subseteq RecoverableData' BY <2>1, WriteKeepsRecoverable DEF SampleInv
    <2>3. /\ wal' = wal \cup {n} /\ IsSamples(n) /\ Logged(n) = s
          /\ n.place = end + 1 /\ n.ref = cur.ref
      BY <2>0, <2>1 DEF Write, LogRecord, IsSamples, Logged
    <2>4. pc = "logSamples" BY <1>6 DEF LogSamples
    <2>5. cur.ref \in knownRefs /\ cur.ref \in DOMAIN head /\ s \in head[cur.ref].data
      BY <2>0, <2>4 DEF SampleInv, RefInv, AppendInProgress
    <2>6. PICK q \in wal : IsSeries(q) /\ q.ref = cur.ref
      BY <2>1, <2>4, <2>5 DEF SampleInv, RefInv, KnownRefsInv, Current, Up
    <2>7. q.place < n.place
      BY <2>3, <2>6 DEF SampleInv, RefInv, PlacesUnique, TypeOK, Record
    <2>8. n \in wal' /\ q \in wal' /\ GivesRef(q, n)'
      BY <2>3, <2>6, <2>7 DEF GivesRef, IsSeries
    <2>9. s \in RecoverableData'
      <3>1. Reached(n)' BY DEF Reached, RefInv, NoTorn
      <3>2. \A p \in wal' : GivesRef(p, n) => p.lset = n.lset
        BY <2>8 DEF GivesRef, RefInv, LogCoherent, IsSeries
      <3>3. Recoverable(n)'
        BY <2>3, <2>8, <3>1, <3>2 DEF Recoverable, GivesRef, IsSamples
      <3> QED BY <2>3, <2>8, <3>3 DEF RecoverableData, Logged
    <2>10. s \in HeadData BY <2>5 DEF HeadData
    <2>11. LogInv' BY <1>2, <2>2, <2>3, <2>9 DEF SampleInv, DataInv, LogInv, IsSamples
    <2>12. HeadInv' BY <1>1, <1>2, <1>3, <2>3, <2>10 DEF SampleInv, DataInv, HeadInv, IsSamples, Up
    <2>13. AckedInv'
      <3>1. acked' = acked \cup {s} BY <1>6, <2>0
      <3> QED BY <1>2, <2>3, <3>1 DEF SampleInv, DataInv, AckedInv, IsSamples
    <2> QED BY <1>1, <1>3, <2>11, <2>12, <2>13 DEF DataInv, ReplayInv
  <1>7. CASE WriteFails /\ acked' = acked
    BY <1>4, <1>7, WriteFailsRef DEF SampleInv, RefInv
  <1> QED BY <1>5, <1>6, <1>7 DEF LogSeries, LogSamples, histVars

LEMMA LostOrKept ==
  ASSUME NEW old, NEW o \in old, NEW s \in o.data
  PROVE  s \in LostWith(old) \/ s \in HeadData \cap RecoverableData
  BY DEF LostWith

\* What a block held that gives way to its namesake is given up, or head and log hold it.
LEMMA SafeWithoutOld ==
  ASSUME TypeOK, NEW res \in Res, NEW old \in SUBSET blocks, \A b \in old : b.res = res,
         blocks' = blocks \ old, horizon' = horizon,
         clobbered' = [clobbered EXCEPT ![res] = @ \cup LostWith(old)],
         NEW o \in Res, NEW s
  PROVE  /\ Forgotten(o, s) => Forgotten(o, s)'
         /\ Safe(o, s) => Safe(o, s)' \/ (o = res /\ s \in HeadData \cap RecoverableData)
  <1>1. clobbered \in [Res -> SUBSET Samples] BY DEF TypeOK
  <1>2. \A k \in Res : clobbered'[k] = IF k = res THEN clobbered[k] \cup LostWith(old)
                                       ELSE clobbered[k]
    BY <1>1
  <1>3. Forgotten(o, s) => Forgotten(o, s)' BY <1>2 DEF Forgotten
  <1>4. ASSUME NEW b \in blocks, b.res = o, s \in b.data
        PROVE  Safe(o, s)' \/ (o = res /\ s \in HeadData \cap RecoverableData)
    <2>1. CASE b \in blocks' BY <1>4, <2>1 DEF Safe, DataOf
    <2>2. CASE b \in old
      <3>1. s \in LostWith(old) \/ s \in HeadData \cap RecoverableData
        BY <1>4, <2>2, LostOrKept
      <3>2. o = res BY <1>4, <2>2
      <3>3. CASE s \in LostWith(old)
        <4>1. s \in clobbered'[o] BY <1>2, <3>2, <3>3
        <4> QED BY <4>1 DEF Safe, Forgotten
      <3> QED BY <3>1, <3>2, <3>3
    <2> QED BY <2>1, <2>2
  <1> QED BY <1>3, <1>4 DEF Safe, DataOf

\* A block directory gives way to its namesake.
LEMMA DataRemoveOld ==
  ASSUME SampleInv, TypeOK', NEW res \in Res, NEW at, NEW next, RemoveOld(res, at, next),
         \/ res = "raw" /\ at = "removeRaw" /\ next = "renameRaw"
         \/ res = "5m" /\ at = "remove5m" /\ next = "rename5m"
  PROVE  DataInv'
  <1>1. /\ UNCHANGED <<wal, head, acked, horizon>> /\ Up /\ Up' /\ pc' # "replay"
        /\ pc = at /\ pc' \in {next, "idle"}
    BY DEF RemoveOld, memVars, walVars, Up
  <1>2. HeadData' = HeadData BY <1>1 DEF HeadData
  <1>3. CASE UNCHANGED <<blocks, clobbered>> /\ pc' = "idle"
    <2>1. CompactedInv' BY <1>3 DEF CompactedInv, Compacted
    <2> QED BY <1>1, <1>2, <1>3, <2>1, SafeKept, DataQuiet
  <1>4. ASSUME NEW old \in SUBSET blocks, \A b \in old : b.res = res,
               pc' = next, blocks' = blocks \ old,
               clobbered' = [clobbered EXCEPT ![res] = @ \cup LostWith(old)]
        PROVE  DataInv'
    <2>3. ASSUME NEW o \in Kept, NEW s, Safe(o, s)
          PROVE  Safe(o, s)' \/ (o = res /\ s \in HeadData' \cap RecoverableData)
      BY <1>1, <1>2, <1>4, <2>3, SafeWithoutOld, KeptType DEF SampleInv, RefInv
    <2>4. CompactedInv'
      <3> SUFFICES ASSUME NEW o \in Kept, Compacted(o)', NEW r \in wal, IsSamples(r)
                   PROVE  Safe(o, Logged(r))'
        BY <1>1 DEF CompactedInv, IsSamples, Logged
      <3>1. o # res /\ Compacted(o) BY <1>1, <1>4, KeptType DEF Compacted, Res
      <3>2. Safe(o, Logged(r)) BY <3>1 DEF SampleInv, DataInv, CompactedInv
      <3> QED BY <2>3, <3>1, <3>2
    <2> QED BY <1>1, <1>2, <2>3, <2>4, DataQuiet
  <1>5. ASSUME NEW lo, NEW hi
        PROVE  /\ Namesakes(res, lo, hi) \in SUBSET blocks
               /\ \A b \in Namesakes(res, lo, hi) : b.res = res
    BY DEF Namesakes
  <1> QED BY <1>3, <1>4, <1>5 DEF RemoveOld

\* A new block takes over what the log kept.
LEMMA DataRename ==
  ASSUME SampleInv, TypeOK', NEW res \in Res, NEW at, NEW next,
         Rename(res, at, next),
         \/ res = "raw" /\ at = "renameRaw" /\ next = "remove5m"
         \/ res = "5m" /\ at = "rename5m" /\ next = "reset"
  PROVE  DataInv'
  <1>1. /\ UNCHANGED <<wal, head, acked, clobbered, horizon>> /\ Up /\ Up'
        /\ pc = at /\ pc' \in {next, "idle"} /\ blocks \subseteq blocks'
    BY DEF Rename, memVars, walVars, histVars, Up
  <1>2. HeadData' = HeadData BY <1>1 DEF HeadData
  <1>3. \A o \in Kept : \A s : Safe(o, s) => Safe(o, s)'
    BY <1>1 DEF Safe, Forgotten, DataOf
  <1>4. CASE pc' = "idle"
    <2>1. CompactedInv' BY <1>4 DEF CompactedInv, Compacted
    <2> QED BY <1>1, <1>2, <1>3, <1>4, <2>1, DataQuiet
  <1>5. CASE pc' = next
            /\ \E lo, hi \in Time, d \in Storable(res) :
                 blocks' = blocks \cup {NewBlock(res, lo, hi, d)}
    <2>1. res \in Kept => Storable(res) = {HeadData}
      BY DEF Storable, Kept, MonotoneClock
    <2>2. res \in Kept => \A lo, hi \in Time, d \in Storable(res) :
            NewBlock(res, lo, hi, d).data = HeadData /\ NewBlock(res, lo, hi, d).res = res
      BY <2>1 DEF NewBlock
    <2>3. res \in Kept => \A s \in HeadData : Safe(res, s)' BY <1>5, <2>2 DEF Safe, DataOf
    <2>4. CompactedInv'
      <3> SUFFICES ASSUME NEW o \in Kept, Compacted(o)', NEW r \in wal, IsSamples(r)
                   PROVE  Safe(o, Logged(r))'
        BY <1>1 DEF CompactedInv, IsSamples, Logged
      <3>1. CASE o = res
        BY <1>1, <1>3, <2>3, <3>1 DEF SampleInv, DataInv, HeadInv
      <3>2. CASE o # res
        <4>1. Compacted(o) BY <1>1, <1>5, <3>2, KeptType DEF Compacted, Res
        <4> QED BY <1>3, <4>1 DEF SampleInv, DataInv, CompactedInv
      <3> QED BY <3>1, <3>2
    <2>5. pc' # "replay" BY <1>5
    <2> QED BY <1>1, <1>2, <1>3, <2>4, <2>5, DataQuiet
  <1> QED BY <1>4, <1>5 DEF Rename

\* Once the blocks are written nothing is lost with the head and the log.
LEMMA DataCompacted ==
  ASSUME SampleInv, pc \in {"reset", "truncate", "removing"}, pc' # "replay",
         wal' \subseteq wal, UNCHANGED <<acked, blocks, clobbered, horizon>>
  PROVE  DataInv'
  <1>1. \A res \in Kept : \A s : Safe(res, s) => Safe(res, s)' BY SafeKept
  <1>2. \A res \in Kept, r \in wal : IsSamples(r) => Safe(res, Logged(r))
    BY DEF SampleInv, DataInv, CompactedInv, Compacted
  <1>3. \A res \in Kept, r \in wal' : IsSamples(r) => Safe(res, Logged(r))' BY <1>1, <1>2
  <1>4. \A res \in Kept, s \in acked' : Safe(res, s)'
    BY <1>1, <1>2 DEF SampleInv, DataInv, AckedInv
  <1>5. LogInv' /\ HeadInv' /\ CompactedInv'
    BY <1>3 DEF LogInv, HeadInv, CompactedInv, IsSamples, Logged
  <1>6. ReplayInv' /\ AckedInv' BY <1>4 DEF ReplayInv, AckedInv
  <1> QED BY <1>5, <1>6 DEF DataInv

\* What retention removes is older than the horizon.
LEMMA RetentionSafe ==
  ASSUME TypeOK, NotLater, ApplyRetention, NEW res \in Res, NEW s \in Samples
  PROVE  /\ Forgotten(res, s) => Forgotten(res, s)'
         /\ Safe(res, s) => Safe(res, s)'
  <1>1. /\ clobbered' = clobbered
        /\ \A b \in blocks : b \notin blocks' => Expired(b)
        /\ horizon'[res] = HorizonAfter(res)
    BY DEF ApplyRetention
  <1>2. now \in Nat /\ horizon[res] \in Nat /\ Retention(res) \in Nat
    BY ConstantsAssumption DEF TypeOK, Time, Retention
  <1>3. horizon[res] <= horizon'[res] /\ horizon'[res] \in Nat
    BY <1>1, <1>2 DEF HorizonAfter
  <1>4. StoredAt(res, s.t) \in Nat BY StoredAtType DEF Samples, Time
  <1>5. Forgotten(res, s) => Forgotten(res, s)' BY <1>1, <1>2, <1>3, <1>4 DEF Forgotten
  <1>6. ASSUME NEW b \in blocks, b.res = res, s \in b.data PROVE Safe(res, s)'
    <2>1. CASE b \in blocks' BY <1>6, <2>1 DEF Safe, DataOf
    <2>2. CASE b \notin blocks'
      <3>1. Expired(b) BY <1>1, <2>2
      <3>2. b.minT \in Nat /\ b.maxT \in Nat
        BY DEF TypeOK, Block, Time
      <3>3. StoredAt(res, s.t) <= b.maxT BY <1>6 DEF NotLater
      <3>4. Retention(res) > 0 /\ b.maxT < now - Retention(res)
        BY <1>6, <3>1 DEF Expired
      <3>5. StoredAt(res, s.t) < horizon'[res]
        BY <1>1, <1>2, <1>4, <3>2, <3>3, <3>4 DEF HorizonAfter
      <3> QED BY <3>5 DEF Safe, Forgotten
    <2> QED BY <2>1, <2>2
  <1> QED BY <1>5, <1>6 DEF Safe, DataOf

LEMMA DataRetention == ASSUME SampleInv, TypeOK', ApplyRetention PROVE DataInv'
  <1>1. UNCHANGED <<wal, head, acked>> /\ Up /\ Up' /\ pc' = "idle"
    BY DEF ApplyRetention, memVars, walVars, Up
  <1>2. HeadData' = HeadData BY <1>1 DEF HeadData
  <1>3. CompactedInv' BY <1>1 DEF CompactedInv, Compacted
  <1> QED BY <1>1, <1>2, <1>3, RetentionSafe, DataQuiet, KeptType DEF SampleInv, RefInv

LEMMA DataCrash == ASSUME WholeStep, SampleInv, TypeOK', Crash PROVE DataInv'
  <1>1. /\ pc' = "down" /\ UNCHANGED <<wal, acked, blocks, clobbered, horizon>>
    BY NoDamage DEF Crash, SampleInv, RefInv, histVars
  <1>2. CompactedInv' BY <1>1 DEF CompactedInv, Compacted
  <1> QED BY <1>1, <1>2, SafeKept, DataQuiet DEF Up

\* The parts of DataInv a replay leaves alone.
LEMMA DataOfReplay ==
  ASSUME SampleInv, UNCHANGED <<wal, acked, blocks, clobbered, horizon>>,
         pc' \in {"replay", "idle"}
  PROVE  LogInv' /\ CompactedInv' /\ AckedInv' /\ RecoverableData' = RecoverableData
  <1>1. \A res \in Kept : \A s : Safe(res, s) => Safe(res, s)' BY SafeKept
  <1>2. RecoverableData' = RecoverableData
    BY DEF RecoverableData, Recoverable, Reached, GivesRef
  <1>3. LogInv' BY <1>1, <1>2 DEF SampleInv, DataInv, LogInv, IsSamples
  <1>4. AckedInv' BY <1>1 DEF SampleInv, DataInv, AckedInv, IsSamples
  <1> QED BY <1>2, <1>3, <1>4 DEF CompactedInv, Compacted

LEMMA DataOpen == ASSUME SampleInv, Open PROVE DataInv'
  <1>1. /\ pc' = "replay" /\ pos' = 0
        /\ UNCHANGED <<wal, acked, blocks, clobbered, horizon>>
    BY DEF Open, walVars, histVars
  <1>2. \A r \in wal : ~(r.place <= 0)
    BY DEF SampleInv, RefInv, PlacesUnique, TypeOK, Record
  <1>3. ReplayInv' BY <1>1, <1>2 DEF ReplayInv
  <1>4. HeadInv' BY <1>1 DEF HeadInv, Up
  <1> QED BY <1>1, <1>3, <1>4, DataOfReplay DEF DataInv

\* A sample with a series record before it finds its series and is not out of order.
LEMMA DataReplay ==
  ASSUME SampleInv, TypeOK', NEW r \in wal, ReplaySeries(r) \/ ReplaySamples(r)
  PROVE  DataInv'
  <1>1. /\ pc = "replay" /\ IsNext(r) /\ pos' = r.place
        /\ UNCHANGED <<pc, wal, acked, blocks, clobbered, horizon>>
    BY DEF ReplaySeries, ReplaySamples, walVars, histVars
  <1>2. /\ pos \in Nat /\ \A q \in wal : q.place \in Nat /\ q.t \in Nat
        /\ \A ref \in DOMAIN head : head[ref].lastT \in Nat
    BY DEF SampleInv, RefInv, TypeOK, Record, Time, Series
  <1>3. \A q \in wal : q.place <= r.place => q.place <= pos \/ q = r
    BY <1>1, <1>2 DEF IsNext, SampleInv, RefInv, PlacesUnique
  <1>4. HeadData \subseteq HeadData'
    <2>1. \A ref \in DOMAIN head : ref \in DOMAIN head' /\ head[ref].data \subseteq head'[ref].data
      BY DEF ReplaySeries, ReplaySamples, Register, Appended
    <2> QED BY <2>1 DEF HeadData
  <1>5. ASSUME Recoverable(r) PROVE Logged(r) \in HeadData'
    <2>1. PICK q \in wal : GivesRef(q, r) BY <1>5 DEF Recoverable
    <2>2. q.place <= pos /\ IsSeries(q) /\ q.ref = r.ref
      BY <1>2, <1>3, <2>1 DEF GivesRef, IsSeries
    <2>3. r.ref \in DOMAIN head BY <1>1, <2>2 DEF SampleInv, RefInv, ReplayRefs
    <2>4. head[r.ref].lset = r.lset BY <1>1, <2>3, ReplayedLset DEF SampleInv
    <2>6. Accepts(head[r.ref], r.t) BY <1>1, <1>5 DEF SampleInv, Accepting
    <2>7. ReplaySamples(r) BY <1>5 DEF Recoverable, ReplaySeries
    <2>8. head' = Register(r.ref, Appended(head[r.ref], r.t, r.lset))
      BY <2>3, <2>6, <2>7 DEF ReplaySamples
    <2>9. /\ r.ref \in DOMAIN head'
          /\ [lset |-> r.lset, t |-> r.t, v |-> r.lset] \in head'[r.ref].data
      BY <2>4, <2>8 DEF Register, Appended
    <2> QED BY <2>9 DEF HeadData, Logged
  <1>6. \A q \in wal : Recoverable(q)' <=> Recoverable(q)
    BY <1>1 DEF Recoverable, Reached, GivesRef
  <1>7. ReplayInv'
    <2> SUFFICES ASSUME NEW q \in wal, Recoverable(q), q.place <= r.place
                 PROVE  Logged(q) \in HeadData'
      BY <1>1, <1>6 DEF ReplayInv, Logged
    <2>1. CASE q = r BY <1>5, <2>1
    <2>2. CASE q.place <= pos
      BY <1>1, <1>4, <2>2 DEF SampleInv, DataInv, ReplayInv
    <2> QED BY <1>3, <2>1, <2>2
  <1>8. HeadInv' BY <1>1 DEF HeadInv, Up
  <1> QED BY <1>1, <1>7, <1>8, DataOfReplay DEF DataInv

LEMMA DataReplayEnd == ASSUME SampleInv, ReplayEnd PROVE DataInv'
  <1>1. /\ pc = "replay" /\ pc' = "idle"
        /\ UNCHANGED <<head, wal, acked, blocks, clobbered, horizon>>
    BY DEF ReplayEnd, histVars
  <1>2. \A q \in wal : q.place <= pos
    BY DEF ReplayEnd, Reached, SampleInv, RefInv, TypeOK, Record, NoTorn
  <1>3. RecoverableData \subseteq HeadData
    BY <1>1, <1>2 DEF RecoverableData, SampleInv, DataInv, ReplayInv
  <1>4. HeadData' = HeadData BY <1>1 DEF HeadData
  <1>5. \A res \in Kept : \A s : Safe(res, s) => Safe(res, s)' BY <1>1, SafeKept
  <1>6. HeadInv'
    BY <1>1, <1>3, <1>4, <1>5 DEF SampleInv, DataInv, LogInv, HeadInv, IsSamples, Logged
  <1>7. ReplayInv' BY <1>1 DEF ReplayInv
  <1> QED BY <1>1, <1>6, <1>7, DataOfReplay DEF DataInv

LEMMA DataStep ==
  ASSUME WholeStep, SampleInv, RefInv', [Next]_vars
  PROVE  DataInv'
  <1>0. TypeOK' BY DEF RefInv
  <1>1. ASSUME NEW l \in Lsets, NEW t \in Time, AppendHead(l, t) PROVE DataInv'
    BY <1>0, <1>1, DataAppendHead
  <1>2. ASSUME UNCHANGED <<head, wal, acked, blocks, clobbered, horizon>>, Up, Up',
               pc' \notin {"remove5m", "rename5m", "truncate", "removing"},
               pc' # "reset" \/ HeadData = {}
        PROVE  DataInv'
    <2>1. HeadData' = HeadData BY <1>2 DEF HeadData
    <2>2. \A res \in Kept : \A s : Safe(res, s) <=> Safe(res, s)' BY <1>2, SafeKept
    <2>3. CompactedInv'
      BY <1>2, <2>2
         DEF CompactedInv, Compacted, SampleInv, DataInv, HeadInv, IsSamples, Logged
    <2> QED BY <1>0, <1>2, <2>1, <2>2, <2>3, DataQuiet DEF Up
  <1>3. ASSUME NEW l \in Lsets, NEW t \in Time, AppendRejected(l, t) PROVE DataInv'
    BY <1>2, <1>3 DEF AppendRejected, memVars, walVars, histVars, Up
  <1>4. CASE LogSeries \/ LogSamples BY <1>0, <1>4, DataLog
  <1>5. ASSUME NEW t \in Time, CompactStart(t) PROVE DataInv'
    BY <1>2, <1>5 DEF CompactStart, memVars, walVars, histVars, Up
  <1>6. CASE \/ RemoveOld("raw", "removeRaw", "renameRaw")
             \/ RemoveOld("5m", "remove5m", "rename5m")
    BY <1>0, <1>6, DataRemoveOld DEF Res
  <1>7. CASE \/ Rename("raw", "renameRaw", "remove5m")
             \/ Rename("5m", "rename5m", "reset")
    BY <1>0, <1>7, DataRename DEF Res
  <1>8. CASE Reset \/ TruncateStart \/ RemoveSegment \/ TruncateEnd
    <2>1. /\ pc \in {"reset", "truncate", "removing"} /\ pc' # "replay"
          /\ wal' \subseteq wal /\ UNCHANGED <<acked, blocks, clobbered, horizon>>
      BY <1>8 DEF Reset, TruncateStart, RemoveSegment, TruncateEnd, walVars, histVars
    <2> QED BY <2>1, DataCompacted
  <1>9. CASE ApplyRetention BY <1>0, <1>9, DataRetention
  <1>10. CASE Crash BY <1>0, <1>10, DataCrash
  <1>11. CASE Open BY <1>11, DataOpen
  <1>12. ASSUME NEW r \in wal, ReplaySeries(r) \/ ReplaySamples(r) PROVE DataInv'
    BY <1>0, <1>12, DataReplay
  <1>13. CASE ReplayEnd BY <1>13, DataReplayEnd
  <1>14. CASE UNCHANGED vars
    <2>1. HeadData' = HeadData /\ RecoverableData' = RecoverableData
      BY <1>14 DEF vars, memVars, walVars, HeadData, RecoverableData, Recoverable,
         Reached, GivesRef
    <2>2. \A res \in Kept : \A s : Safe(res, s) <=> Safe(res, s)'
      BY <1>14, SafeKept DEF vars, histVars
    <2>3. UNCHANGED <<pc, pos, wal, acked>> BY <1>14 DEF vars, walVars, histVars
    <2>4. LogInv' /\ HeadInv' /\ CompactedInv'
      BY <2>1, <2>2, <2>3 DEF SampleInv, DataInv, LogInv, HeadInv, CompactedInv,
         IsSamples, Logged, Up, Compacted
    <2>5. \A q \in wal : Recoverable(q)' <=> Recoverable(q)
      BY <2>3 DEF Recoverable, Reached, GivesRef
    <2>6. ReplayInv' BY <2>1, <2>3, <2>5 DEF SampleInv, DataInv, ReplayInv, Logged
    <2>7. AckedInv' BY <2>2, <2>3 DEF SampleInv, DataInv, AckedInv, IsSamples, Logged
    <2> QED BY <2>4, <2>6, <2>7 DEF DataInv
  <1> QED BY <1>1, <1>3, <1>4, <1>5, <1>6, <1>7, <1>8, <1>9, <1>10, <1>11, <1>12,
             <1>13, <1>14 DEF Next, WriteRawBlock, WriteRollupBlock

\* A clock that is not stepped back is enough for what DataStep asks of the timestamps.
LEMMA FullImpliesSample == ASSUME MonotoneClock, FullInv PROVE SampleInv
  <1>1. NotLater BY DEF FullInv, TimeInv, SeriesRange, BlockRange, NotLater
  <1>2. Accepting
    <2> SUFFICES ASSUME pc = "replay", NEW r \in wal, IsNext(r), Recoverable(r)
                 PROVE  Accepts(head[r.ref], r.t)
      BY DEF Accepting
    <2>1. PICK q \in wal : GivesRef(q, r) BY DEF Recoverable
    <2>2. /\ pos \in Nat /\ \A p \in wal : p.place \in Nat /\ p.t \in Nat
          /\ \A ref \in DOMAIN head : head[ref].lastT \in Nat
      BY DEF FullInv, RefInv, TypeOK, Record, Time, Series
    <2>3. q.place <= pos /\ IsSeries(q) /\ q.ref = r.ref
      BY <2>1, <2>2 DEF GivesRef, IsSeries, IsNext
    <2>4. r.ref \in DOMAIN head BY <2>3 DEF FullInv, RefInv, ReplayRefs
    <2>5. head[r.ref].lastT <= r.t
      BY <2>4 DEF IsNext, FullInv, TimeInv, ReplaySorted
    <2> QED BY <2>2, <2>4, <2>5 DEF Accepts
  <1> QED BY <1>1, <1>2 DEF SampleInv, FullInv

LEMMA DataInvariant ==
  ASSUME WholeWrites, MonotoneClock PROVE Spec => []FullInv
  <1>1. Init => FullInv BY RefInit, TimeInit, DataInit DEF FullInv
  <1>2. ASSUME FullInv, [Next]_vars PROVE FullInv'
    <2>1. WholeStep BY DEF WholeStep
    <2>2. SampleInv BY <1>2, FullImpliesSample
    <2>3. RefInv' /\ TimeInv' BY <1>2, <2>1, RefStep, TimeStep, FullImpliesInv DEF FullInv
    <2> QED BY <1>2, <2>1, <2>2, <2>3, DataStep DEF FullInv
  <1> QED BY <1>1, <1>2, PTL DEF Spec

LEMMA FullImpliesDurable == MonotoneClock /\ FullInv => Durable /\ RollupDurable
  <1> SUFFICES ASSUME MonotoneClock, FullInv, NEW res \in Kept, NEW s \in acked
               PROVE  s \in RecoverableData \/ Safe(res, s)
    BY DEF Durable, RollupDurable, Safe, Kept, Res
  <1> QED BY DEF FullInv, DataInv, AckedInv, LogInv

LEMMA FullImpliesReadable == FullInv => Readable
  <1> SUFFICES ASSUME FullInv, Up, NEW s \in acked
               PROVE  s \in HeadData \/ Safe("raw", s)
    BY DEF Readable, Safe
  <1> QED BY KeptType DEF FullInv, DataInv, AckedInv, HeadInv

\* Under any number of kills and of failed writes, rotations, truncations, block
\* steps and removals, an acknowledged sample is on disk where a restart finds it,
\* until retention or a namesake of its block takes it.
THEOREM AckedIsDurable ==
  ASSUME WholeWrites, MonotoneClock PROVE Spec => []Durable
  BY DataInvariant, FullImpliesDurable, PTL

\* Under the same faults, a rollup block or the log has what a raw block has.
THEOREM RollupIsDurable ==
  ASSUME WholeWrites, MonotoneClock PROVE Spec => []RollupDurable
  BY DataInvariant, FullImpliesDurable, PTL

\* Under the same faults, an acknowledged sample is in the head or in a raw block at every
\* moment between a replay and the next kill, in the middle of a Compact too.
THEOREM AckedIsReadable ==
  ASSUME WholeWrites, MonotoneClock PROVE Spec => []Readable
  BY DataInvariant, FullImpliesReadable, PTL

-----------------------------------------------------------------------------
(* What holds whatever the clock does.                                      *)

\* memSeries.append raises the end of the range to what it appends.
LEMMA AppendedNotLater ==
  ASSUME NEW s \in Series, NEW t \in Time, NEW v \in Lsets,
         \A d \in s.data : d.t <= s.maxT
  PROVE  LET a == Appended(s, t, v) IN a.n # 0 /\ \A d \in a.data : d.t <= a.maxT
  <1> DEFINE a == Appended(s, t, v)
  <1>1. /\ s.n \in Nat /\ s.maxT \in Nat /\ t \in Nat /\ \A d \in s.data : d.t \in Nat
    BY DEF Series, Samples, Time
  <1>2. /\ a.n = s.n + 1 /\ a.maxT = (IF t > s.maxT THEN t ELSE s.maxT)
        /\ a.data = s.data \cup {[lset |-> s.lset, t |-> t, v |-> v]}
    BY DEF Appended
  <1>3. a.n # 0 /\ s.maxT <= a.maxT /\ t <= a.maxT /\ a.maxT \in Nat BY <1>1, <1>2
  <1>4. ASSUME NEW d \in s.data PROVE d.t <= a.maxT BY <1>1, <1>3
  <1> QED BY <1>2, <1>3, <1>4

\* Steps that give no series and no block a sample.
LEMMA NotLaterQuiet ==
  ASSUME NotLater, blocks' \subseteq blocks, head' = head \/ DOMAIN head' = {}
  PROVE  NotLater'
  BY DEF NotLater

LEMMA NotLaterRegister ==
  ASSUME NotLater, blocks' = blocks, NEW ref, NEW s, head' = Register(ref, s),
         s.n = 0 => s.data = {},
         \A d \in s.data : d.t <= s.maxT
  PROVE  NotLater'
  <1>1. /\ DOMAIN head' = DOMAIN head \cup {ref} /\ head'[ref] = s
        /\ \A r \in DOMAIN head : r # ref => head'[r] = head[r]
    BY DEF Register
  <1> QED BY <1>1 DEF NotLater

LEMMA NotLaterRename ==
  ASSUME TypeOK, NotLater, NEW res \in Res, NEW at, NEW next, Rename(res, at, next)
  PROVE  NotLater'
  <1>1. head' = head BY DEF Rename, memVars
  <1>2. CASE blocks' = blocks BY <1>1, <1>2, NotLaterQuiet
  <1>3. ASSUME NEW lo \in Time, NEW hi \in Time, SpansHead(lo, hi),
               NEW d \in Storable(res), blocks' = blocks \cup {NewBlock(res, lo, hi, d)}
        PROVE  NotLater'
    <2> DEFINE b == NewBlock(res, lo, hi, d)
    <2>1. b.maxT = StoredAt(res, hi) /\ b.res = res /\ b.data = d BY DEF NewBlock
    <2>2. ASSUME NEW s \in d PROVE StoredAt(res, s.t) <= StoredAt(res, hi)
      <3>1. s \in HeadData BY NewBlockType
      <3>2. s.t \in Time BY <3>1, HeadDataType DEF Samples
      <3>3. PICK r \in DOMAIN head : s \in head[r].data BY <3>1 DEF HeadData
      <3>4. head[r].maxT \in Time /\ head[r].n \in Nat BY DEF TypeOK, Series
      <3>5. r \in Filled /\ s.t <= head[r].maxT BY <3>3, <3>4 DEF NotLater, Filled
      <3>6. s.t <= hi BY <1>3, <3>2, <3>4, <3>5 DEF SpansHead, Time
      <3> QED BY <3>2, <3>6, StoredAtMonotone
    <2> HIDE DEF b
    <2> QED BY <1>1, <1>3, <2>1, <2>2 DEF NotLater, b
  <1> QED BY <1>2, <1>3 DEF Rename

\* The end of a range is right, however the clock was stepped and whatever failed.
LEMMA NotLaterStep == ASSUME TypeOK, NotLater, [Next]_vars PROVE NotLater'
  <1>1. ASSUME NEW l \in Lsets, NEW t \in Time, AppendHead(l, t) PROVE NotLater'
    <2>1. PICK ref \in GetOrCreate(l) :
            head' = Register(ref, Appended(SeriesAt(ref, l), t, l))
      BY <1>1 DEF AppendHead
    <2>2. SeriesAt(ref, l) \in Series BY SeriesAtType
    <2>3. \A d \in SeriesAt(ref, l).data : d.t <= SeriesAt(ref, l).maxT
      BY DEF SeriesAt, NewSeries, NotLater
    <2> DEFINE a == Appended(SeriesAt(ref, l), t, l)
    <2>4. a.n # 0 /\ \A d \in a.data : d.t <= a.maxT BY <2>2, <2>3, AppendedNotLater
    <2>5. head' = Register(ref, a) /\ blocks' = blocks BY <1>1, <2>1 DEF AppendHead
    <2> HIDE DEF a
    <2> QED BY <2>4, <2>5, NotLaterRegister
  <1>2. ASSUME NEW l \in Lsets, NEW t \in Time, AppendRejected(l, t) PROVE NotLater'
    BY <1>2, NotLaterQuiet DEF AppendRejected, memVars
  <1>3. CASE LogSeries \/ LogSamples
    BY <1>3, NotLaterQuiet DEF LogSeries, LogSamples, memVars
  <1>4. ASSUME NEW t \in Time, CompactStart(t) PROVE NotLater'
    BY <1>4, NotLaterQuiet DEF CompactStart, memVars
  <1>5. CASE \/ RemoveOld("raw", "removeRaw", "renameRaw")
             \/ RemoveOld("5m", "remove5m", "rename5m")
    BY <1>5, NotLaterQuiet DEF RemoveOld, memVars
  <1>6. CASE Rename("raw", "renameRaw", "remove5m") \/ Rename("5m", "rename5m", "reset")
    BY <1>6, NotLaterRename DEF Res
  <1>7. CASE Reset \/ TruncateStart \/ RemoveSegment \/ TruncateEnd \/ ApplyRetention
    BY <1>7, NotLaterQuiet
       DEF Reset, TruncateStart, RemoveSegment, TruncateEnd, ApplyRetention, EmptyHead, memVars
  <1>8. CASE Crash \/ Open \/ ReplayEnd
    BY <1>8, NotLaterQuiet DEF Crash, Open, ReplayEnd, EmptyHead, memVars
  <1>9. ASSUME NEW r \in wal, ReplaySeries(r) PROVE NotLater'
    <2>1. blocks' = blocks BY <1>9 DEF ReplaySeries
    <2>2. CASE head' = head BY <2>1, <2>2, NotLaterQuiet
    <2>3. CASE head' = Register(r.ref, NewSeries(r.lset))
      BY <2>1, <2>3, NotLaterRegister DEF NewSeries
    <2> QED BY <1>9, <2>2, <2>3 DEF ReplaySeries
  <1>10. ASSUME NEW r \in wal, ReplaySamples(r) PROVE NotLater'
    <2>1. blocks' = blocks BY <1>10 DEF ReplaySamples
    <2>2. CASE head' = head BY <2>1, <2>2, NotLaterQuiet
    <2>3. CASE r.ref \in DOMAIN head
               /\ head' = Register(r.ref, Appended(head[r.ref], r.t, r.lset))
      <3> DEFINE a == Appended(head[r.ref], r.t, r.lset)
      <3>1. head[r.ref] \in Series /\ r.t \in Time /\ r.lset \in Lsets
        BY <2>3 DEF TypeOK, Record
      <3>2. a.n # 0 /\ \A d \in a.data : d.t <= a.maxT
        BY <2>3, <3>1, AppendedNotLater DEF NotLater
      <3>3. head' = Register(r.ref, a) BY <2>3
      <3> HIDE DEF a
      <3> QED BY <2>1, <3>2, <3>3, NotLaterRegister
    <2> QED BY <1>10, <2>2, <2>3 DEF ReplaySamples
  <1>11. CASE UNCHANGED vars BY <1>11, NotLaterQuiet DEF vars, memVars
  <1> QED BY <1>1, <1>2, <1>3, <1>4, <1>5, <1>6, <1>7, <1>8, <1>9, <1>10, <1>11
         DEF Next, WriteRawBlock, WriteRollupBlock

-----------------------------------------------------------------------------
(* What the process that acknowledged a sample still has of it.             *)

LEMMA HeldInit == Init => HeldInv
  <1> SUFFICES ASSUME Init PROVE HeldInv OBVIOUS
  <1>1. TypeOK BY TypeInit
  <1>2. DOMAIN head = {} /\ blocks = {} /\ acked = {} /\ pc = "idle"
    BY DEF Init, EmptyHead
  <1> QED BY <1>1, <1>2 DEF HeldInv, NotLater, HeadRefs, AppendHeld, Appending, RawWritten,
       HeldUntilRestart, Up

\* A step of the running process that takes nothing from the head and nothing from the
\* raw blocks but what it gives up or the head has.
LEMMA HeldQuiet ==
  ASSUME HeldInv, TypeOK', NotLater', HeadRefs', crashes' = crashes,
         Up => Up', HeadData \subseteq HeadData',
         \A s \in Samples : Safe("raw", s) => Safe("raw", s)' \/ s \in HeadData',
         \A s \in acked' : s \in acked \/ s \in HeadData',
         AppendHeld', RawWritten'
  PROVE  HeldInv'
  <1>1. \A s \in acked : s \in Samples BY DEF HeldInv, TypeOK
  <1>2. HeldUntilRestart' BY <1>1 DEF HeldInv, HeldUntilRestart
  <1> QED BY <1>2 DEF HeldInv

\* The ref of an append is that of a series or a new one.
LEMMA HeldAppendHead ==
  ASSUME HeldInv, TypeOK', NotLater', NEW l \in Lsets, NEW t \in Time, AppendHead(l, t)
  PROVE  HeldInv'
  <1>1. /\ pc = "idle" /\ Up' /\ UNCHANGED <<blocks, acked, clobbered, horizon, crashes>>
        /\ pc' \in {"logSeries", "logSamples"}
    BY DEF AppendHead, walVars, histVars, Up
  <1>2. PICK ref \in GetOrCreate(l) :
          /\ head' = Register(ref, Appended(SeriesAt(ref, l), t, l))
          /\ lastRef' = IF ref \in DOMAIN head THEN lastRef ELSE ref
          /\ cur' = [ref |-> ref, lset |-> l, t |-> t]
    BY DEF AppendHead
  <1>3. ref \in Nat /\ lastRef \in Nat /\ \A r \in DOMAIN head : r \in Nat
    BY SeriesAtType DEF HeldInv, TypeOK, Ref
  <1>4. \/ ref \in DOMAIN head /\ head[ref].lset = l
        \/ ref \notin DOMAIN head /\ ref = lastRef + 1
    BY <1>3 DEF GetOrCreate, HeldInv, HeadRefs
  <1>5. SeriesAt(ref, l).lset = l BY <1>4 DEF SeriesAt, NewSeries
  <1>6. /\ DOMAIN head' = DOMAIN head \cup {ref}
        /\ \A r \in DOMAIN head : r # ref => head'[r] = head[r]
        /\ head'[ref].data = SeriesAt(ref, l).data
                              \cup {[lset |-> l, t |-> t, v |-> l]}
    BY <1>2, <1>5 DEF Register, Appended
  <1>7. HeadData \subseteq HeadData'
    <2>1. \A r \in DOMAIN head : r \in DOMAIN head' /\ head[r].data \subseteq head'[r].data
      BY <1>6 DEF SeriesAt
    <2> QED BY <2>1 DEF HeadData
  <1>8. HeadRefs' BY <1>2, <1>3, <1>4, <1>6 DEF HeadRefs, HeldInv
  <1>9. AppendHeld' BY <1>2, <1>6 DEF AppendHeld
  <1>10. RawWritten' BY <1>1 DEF RawWritten
  <1> QED BY <1>1, <1>7, <1>8, <1>9, <1>10, SafeKept, KeptType, HeldQuiet

\* Append answers nil for what it put into the head before the first write.
LEMMA HeldLog ==
  ASSUME HeldInv, TypeOK', NotLater', LogSeries \/ LogSamples PROVE HeldInv'
  <1>1. /\ Up /\ Up' /\ UNCHANGED <<head, lastRef, cur, blocks, clobbered, horizon, crashes>>
        /\ Appending /\ pc' \in {"logSamples", "idle"}
    BY DEF LogSeries, LogSamples, memVars, histVars, Up, Appending
  <1>2. HeadData' = HeadData /\ HeadRefs' BY <1>1 DEF HeadData, HeldInv, HeadRefs
  <1>3. [lset |-> cur.lset, t |-> cur.t, v |-> cur.lset] \in HeadData
    BY <1>1 DEF HeldInv, AppendHeld, HeadData
  <1>4. acked' \subseteq acked \cup {[lset |-> cur.lset, t |-> cur.t, v |-> cur.lset]}
    BY DEF LogSeries, LogSamples, histVars
  <1>5. AppendHeld' BY <1>1 DEF HeldInv, AppendHeld
  <1>6. RawWritten' BY <1>1 DEF RawWritten
  <1> QED BY <1>1, <1>2, <1>3, <1>4, <1>5, <1>6, SafeKept, KeptType, HeldQuiet

\* A namesake takes from the raw blocks only what the head has or is given up.
LEMMA HeldRemoveOld ==
  ASSUME HeldInv, TypeOK', NotLater', NEW res \in Res, NEW at, NEW next,
         RemoveOld(res, at, next),
         \/ res = "raw" /\ at = "removeRaw" /\ next = "renameRaw"
         \/ res = "5m" /\ at = "remove5m" /\ next = "rename5m"
  PROVE  HeldInv'
  <1>1. /\ UNCHANGED <<head, lastRef, acked, horizon, crashes>> /\ Up /\ Up'
        /\ pc = at /\ pc' \in {next, "idle"}
    BY DEF RemoveOld, memVars, Up
  <1>2. HeadData' = HeadData /\ HeadRefs' BY <1>1 DEF HeadData, HeldInv, HeadRefs
  <1>3. "raw" \in Res /\ "5m" # "raw" BY DEF Res
  <1>4. AppendHeld' BY <1>1 DEF AppendHeld, Appending
  <1>5. ASSUME NEW s, Safe("raw", s)
        PROVE  Safe("raw", s)' \/ (res = "raw" /\ s \in HeadData)
    <2>1. CASE UNCHANGED <<blocks, clobbered>>
      BY <1>1, <1>5, <2>1, SafeKept, KeptType
    <2>2. ASSUME NEW old \in SUBSET blocks, \A b \in old : b.res = res,
                 blocks' = blocks \ old,
                 clobbered' = [clobbered EXCEPT ![res] = @ \cup LostWith(old)]
          PROVE  Safe("raw", s)' \/ (res = "raw" /\ s \in HeadData)
      BY <1>1, <1>3, <1>5, <2>2, SafeWithoutOld DEF HeldInv
    <2>3. \A lo, hi : /\ Namesakes(res, lo, hi) \in SUBSET blocks
                      /\ \A b \in Namesakes(res, lo, hi) : b.res = res
      BY DEF Namesakes
    <2> QED BY <2>1, <2>2, <2>3 DEF RemoveOld
  <1>6. RawWritten'
    <2> SUFFICES ASSUME pc' \in {"remove5m", "rename5m", "reset"}, NEW s \in HeadData
                 PROVE  Safe("raw", s)'
      BY <1>2 DEF RawWritten
    <2>1. res = "5m" /\ pc = "remove5m" BY <1>1
    <2>2. Safe("raw", s) BY <2>1 DEF HeldInv, RawWritten
    <2> QED BY <1>3, <1>5, <2>1, <2>2
  <1> QED BY <1>1, <1>2, <1>4, <1>5, <1>6, HeldQuiet

\* The raw block takes all of the head, whatever the clock did.
LEMMA HeldRename ==
  ASSUME HeldInv, TypeOK', NotLater', NEW res \in Res, NEW at, NEW next,
         Rename(res, at, next),
         \/ res = "raw" /\ at = "renameRaw" /\ next = "remove5m"
         \/ res = "5m" /\ at = "rename5m" /\ next = "reset"
  PROVE  HeldInv'
  <1>1. /\ UNCHANGED <<head, lastRef, acked, clobbered, horizon, crashes>> /\ Up /\ Up'
        /\ pc = at /\ pc' \in {next, "idle"} /\ blocks \subseteq blocks'
    BY DEF Rename, memVars, histVars, Up
  <1>2. HeadData' = HeadData /\ HeadRefs' BY <1>1 DEF HeadData, HeldInv, HeadRefs
  <1>3. AppendHeld' BY <1>1 DEF AppendHeld, Appending
  <1>4. \A s : Safe("raw", s) => Safe("raw", s)' BY <1>1 DEF Safe, Forgotten, DataOf
  <1>5. RawWritten'
    <2> SUFFICES ASSUME pc' \in {"remove5m", "rename5m", "reset"}, NEW s \in HeadData
                 PROVE  Safe("raw", s)'
      BY <1>2 DEF RawWritten
    <2>1. CASE res = "5m"
      BY <1>1, <1>4, <2>1 DEF HeldInv, RawWritten
    <2>2. CASE res = "raw"
      <3>1. PICK lo \in Time, hi \in Time, d \in Storable("raw") :
              blocks' = blocks \cup {NewBlock("raw", lo, hi, d)}
        BY <1>1, <2>2 DEF Rename
      <3>2. /\ NewBlock("raw", lo, hi, d).data = HeadData
            /\ NewBlock("raw", lo, hi, d).res = "raw"
        BY DEF NewBlock, Storable
      <3> QED BY <3>1, <3>2 DEF Safe, DataOf
    <2> QED BY <2>1, <2>2 DEF Res
  <1> QED BY <1>1, <1>2, <1>3, <1>4, <1>5, HeldQuiet

\* Once the blocks are written the head may go: its samples are safe.
LEMMA HeldReset ==
  ASSUME HeldInv, TypeOK', NotLater',
         Reset \/ TruncateStart \/ RemoveSegment \/ TruncateEnd
  PROVE  HeldInv'
  <1>1. /\ Up /\ Up' /\ UNCHANGED <<blocks, acked, clobbered, horizon, crashes>>
        /\ pc' \notin {"logSeries", "logSamples", "remove5m", "rename5m", "reset"}
    BY DEF Reset, TruncateStart, RemoveSegment, TruncateEnd, histVars, Up
  <1>2. AppendHeld' /\ RawWritten' BY <1>1 DEF AppendHeld, Appending, RawWritten
  <1>3. \A s : Safe("raw", s) => Safe("raw", s)' BY <1>1, SafeKept, KeptType
  <1>4. CASE Reset
    <2>1. pc = "reset" /\ DOMAIN head' = {} BY <1>4 DEF Reset, EmptyHead
    <2>2. \A s \in HeadData : Safe("raw", s) BY <2>1 DEF HeldInv, RawWritten
    <2>3. HeldUntilRestart' BY <1>1, <1>3, <2>2 DEF HeldInv, HeldUntilRestart
    <2>4. HeadRefs' BY <2>1 DEF HeadRefs
    <2> QED BY <1>2, <2>3, <2>4 DEF HeldInv
  <1>5. CASE TruncateStart \/ RemoveSegment \/ TruncateEnd
    <2>1. UNCHANGED <<head, lastRef>>
      BY <1>5 DEF TruncateStart, RemoveSegment, TruncateEnd, memVars
    <2>2. HeadData' = HeadData /\ HeadRefs' BY <2>1 DEF HeadData, HeldInv, HeadRefs
    <2> QED BY <1>1, <1>2, <1>3, <2>2, HeldQuiet
  <1> QED BY <1>4, <1>5

LEMMA HeldRetention ==
  ASSUME HeldInv, TypeOK', NotLater', ApplyRetention PROVE HeldInv'
  <1>1. /\ Up /\ Up' /\ UNCHANGED <<head, lastRef, acked, crashes>> /\ pc' = "idle"
    BY DEF ApplyRetention, memVars, Up
  <1>2. HeadData' = HeadData /\ HeadRefs' BY <1>1 DEF HeadData, HeldInv, HeadRefs
  <1>3. AppendHeld' /\ RawWritten' BY <1>1 DEF AppendHeld, Appending, RawWritten
  <1>4. \A s \in Samples : Safe("raw", s) => Safe("raw", s)'
    BY RetentionSafe DEF HeldInv, Res
  <1> QED BY <1>1, <1>2, <1>3, <1>4, HeldQuiet

\* After a kill HeldInv asks little: the refs of the replay are below lastRef.
LEMMA HeldRestart ==
  ASSUME HeldInv, TypeOK', NotLater',
         \/ Crash \/ Open \/ ReplayEnd
         \/ \E r \in wal : ReplaySeries(r) \/ ReplaySamples(r)
  PROVE  HeldInv'
  <1>1. pc' \in {"down", "replay", "idle"}
    BY DEF Crash, Open, ReplayEnd, ReplaySeries, ReplaySamples
  <1>2. AppendHeld' /\ RawWritten' BY <1>1 DEF AppendHeld, Appending, RawWritten
  <1>3. crashes \in Nat /\ (crashes = 0 => Up) BY DEF HeldInv, TypeOK, HeldUntilRestart
  <1>4. crashes' # 0
    BY <1>3 DEF Crash, Open, ReplayEnd, ReplaySeries, ReplaySamples, Up
  <1>5. HeadRefs'
    <2>1. CASE Crash BY <2>1 DEF Crash, EmptyHead, HeadRefs
    <2>2. CASE Open \/ ReplayEnd
      BY <2>2 DEF Open, ReplayEnd, memVars, HeldInv, HeadRefs
    <2>3. ASSUME NEW r \in wal, ReplaySeries(r) \/ ReplaySamples(r) PROVE HeadRefs'
      <3>1. /\ r.ref \in Nat /\ lastRef \in Nat /\ \A ref \in DOMAIN head : ref \in Nat
        BY DEF HeldInv, TypeOK, Record, Ref
      <3>2. \/ DOMAIN head' = DOMAIN head /\ lastRef' = lastRef
            \/ DOMAIN head' = DOMAIN head \cup {r.ref} /\ lastRef' = LastRefAfter(r.ref)
        BY <2>3 DEF ReplaySeries, ReplaySamples, Register
      <3> QED BY <3>1, <3>2 DEF HeldInv, HeadRefs, LastRefAfter
    <2> QED BY <2>1, <2>2, <2>3
  <1> QED BY <1>2, <1>4, <1>5 DEF HeldInv, HeldUntilRestart

LEMMA HeldStep == HeldInv /\ [Next]_vars => HeldInv'
  <1> SUFFICES ASSUME HeldInv, [Next]_vars PROVE HeldInv' OBVIOUS
  <1>0. TypeOK' /\ NotLater' BY TypeStep, NotLaterStep DEF HeldInv
  <1>1. ASSUME NEW l \in Lsets, NEW t \in Time, AppendHead(l, t) PROVE HeldInv'
    BY <1>0, <1>1, HeldAppendHead
  <1>2. ASSUME UNCHANGED <<head, lastRef, acked, blocks, clobbered, horizon, crashes>>,
               Up => Up', ~Appending', pc' \notin {"remove5m", "rename5m"},
               pc' # "reset" \/ HeadData = {}
        PROVE  HeldInv'
    <2>1. HeadData' = HeadData /\ HeadRefs' BY <1>2 DEF HeadData, HeldInv, HeadRefs
    <2>2. AppendHeld' /\ RawWritten' BY <1>2, <2>1 DEF AppendHeld, RawWritten
    <2> QED BY <1>0, <1>2, <2>1, <2>2, SafeKept, KeptType, HeldQuiet
  <1>3. ASSUME NEW l \in Lsets, NEW t \in Time, AppendRejected(l, t) PROVE HeldInv'
    BY <1>2, <1>3 DEF AppendRejected, memVars, walVars, histVars, Up, Appending
  <1>4. CASE LogSeries \/ LogSamples BY <1>0, <1>4, HeldLog
  <1>5. ASSUME NEW t \in Time, CompactStart(t) PROVE HeldInv'
    BY <1>2, <1>5 DEF CompactStart, memVars, walVars, histVars, Up, Appending
  <1>6. CASE \/ RemoveOld("raw", "removeRaw", "renameRaw")
             \/ RemoveOld("5m", "remove5m", "rename5m")
    BY <1>0, <1>6, HeldRemoveOld DEF Res
  <1>7. CASE Rename("raw", "renameRaw", "remove5m") \/ Rename("5m", "rename5m", "reset")
    BY <1>0, <1>7, HeldRename DEF Res
  <1>8. CASE Reset \/ TruncateStart \/ RemoveSegment \/ TruncateEnd BY <1>0, <1>8, HeldReset
  <1>9. CASE ApplyRetention BY <1>0, <1>9, HeldRetention
  <1>10. CASE \/ Crash \/ Open \/ ReplayEnd
              \/ \E r \in wal : ReplaySeries(r) \/ ReplaySamples(r)
    BY <1>0, <1>10, HeldRestart
  <1>11. CASE UNCHANGED vars
    <2>1. UNCHANGED <<head, lastRef, cur, pc, acked, blocks, clobbered, horizon, crashes>>
      BY <1>11 DEF vars, memVars, histVars
    <2>2. HeadData' = HeadData /\ HeadRefs' BY <2>1 DEF HeadData, HeldInv, HeadRefs
    <2>3. \A s : Safe("raw", s) <=> Safe("raw", s)' BY <2>1, SafeKept, KeptType
    <2>4. AppendHeld' BY <2>1 DEF HeldInv, AppendHeld, Appending
    <2>5. RawWritten' BY <2>1, <2>2, <2>3 DEF HeldInv, RawWritten
    <2> QED BY <1>0, <2>1, <2>2, <2>3, <2>4, <2>5, HeldQuiet DEF Up
  <1> QED BY <1>1, <1>3, <1>4, <1>5, <1>6, <1>7, <1>8, <1>9, <1>10, <1>11
         DEF Next, WriteRawBlock, WriteRollupBlock

\* THEOREM: whatever fails, whatever is torn or stays behind and however the clock is
\* stepped, the process that answered nil to an Append keeps the sample until it is
\* restarted, in the head or in a raw block. No assumption on the faults.
THEOREM AckedIsKeptUntilRestart == Spec => []KeptUntilRestart
  <1>1. HeldInv => KeptUntilRestart
    BY DEF HeldInv, HeldUntilRestart, KeptUntilRestart, Readable, Safe
  <1> QED BY <1>1, HeldInit, HeldStep, PTL DEF Spec

-----------------------------------------------------------------------------
(* While nothing has failed: the chunks of a series.                        *)

LEMMA NoFault == ASSUME faults' = faults, TypeOK, NEW kind PROVE ~Fault(kind)
  BY DEF Fault, TypeOK

\* Without torn records a replay recovers what a series record precedes.
LEMMA RecoverableIffGiven ==
  ASSUME RefInv
  PROVE  \A r \in wal : Recoverable(r) <=> IsSamples(r) /\ \E q \in wal : GivesRef(q, r)
  BY RecoverableIff DEF Recoverable, IsSamples

LEMMA PutByFinite ==
  ASSUME IsFiniteSet(wal), NEW ref, NEW place
  PROVE  /\ IsFiniteSet(PutBy(ref, place))
         /\ Cardinality(PutBy(ref, place)) \in Nat
  <1>1. PutBy(ref, place) \in SUBSET wal BY DEF PutBy
  <1>2. IsFiniteSet(PutBy(ref, place)) BY <1>1, FS_Subset
  <1> QED BY <1>2, FS_CardinalityType

\* A ref without a series record has nothing the replay would put into a series.
LEMMA PutByEmpty ==
  ASSUME RefInv, NEW ref, \A q \in wal : IsSeries(q) => q.ref # ref, NEW place
  PROVE  PutBy(ref, place) = {} /\ Cardinality(PutBy(ref, place)) = 0
  <1>1. PutBy(ref, place) = {} BY DEF PutBy, Recoverable, GivesRef, IsSeries
  <1> QED BY <1>1, FS_EmptySet

LEMMA SameWalPut ==
  ASSUME wal' = wal
  PROVE  /\ \A r : Recoverable(r)' <=> Recoverable(r)
         /\ \A ref, place : PutBy(ref, place)' = PutBy(ref, place)
  <1>1. \A r : Recoverable(r)' <=> Recoverable(r)
    BY DEF Recoverable, Reached, GivesRef
  <1> QED BY <1>1 DEF PutBy

\* The parts of CountInv about the log alone.
LogCounts ==
  /\ IsFiniteSet(wal) /\ SegmentsInOrder /\ LogAccepted
  /\ \A q, r \in wal : IsSeries(q) /\ IsSeries(r) /\ q.ref = r.ref => q = r

LEMMA SameWalCounts ==
  ASSUME CountInv, wal' = wal, segIdx' = segIdx PROVE LogCounts'
  <1>1. IsFiniteSet(wal)' /\ SegmentsInOrder' BY DEF CountInv, SegmentsInOrder
  <1>2. LogAccepted'
    BY SameWalPut DEF CountInv, LogAccepted, MayFollow, IsLast
  <1>3. \A q, r \in wal' : IsSeries(q) /\ IsSeries(r) /\ q.ref = r.ref => q = r
    BY DEF CountInv, OneSeriesRecord
  <1> QED BY <1>1, <1>2, <1>3 DEF LogCounts, IsSeries

\* The steps of Compact that leave head and log alone, and a rejected Append.
LEMMA CountQuiet ==
  ASSUME CountInv, UNCHANGED <<memVars, walVars>>, Up, Up',
         pc \notin {"truncate", "removing"}, ~Appending,
         pc' \notin {"truncate", "removing"}, ~Appending'
  PROVE  CountInv'
  <1>1. LogCounts' BY SameWalCounts DEF walVars
  <1>2. FileOpen' BY DEF CountInv, FileOpen, walVars
  <1>3. HeadCounts'
    <2>1. \A ref : PutBy(ref, end)' = PutBy(ref, end) BY SameWalPut DEF walVars
    <2> QED BY <2>1 DEF CountInv, HeadCounts, Holds, IsLast, memVars
  <1>4. ReplayCounts' BY DEF ReplayCounts, Up
  <1>5. OneSeriesRecord'
    BY <1>1 DEF LogCounts, CountInv, OneSeriesRecord, Appending, memVars, walVars, IsSeries
  <1> QED BY <1>1, <1>2, <1>3, <1>4, <1>5 DEF CountInv, LogCounts

\* The steps without a head: those of Truncate, a kill and Open.
LEMMA CountNoHead ==
  ASSUME CountInv, LogCounts', DOMAIN head' = {}, FileOpen',
         wal' = {} \/ pc' \in {"truncate", "removing", "down", "replay"}, ~Appending'
  PROVE  CountInv'
  <1>1. HeadCounts' /\ ReplayCounts' BY DEF HeadCounts, ReplayCounts
  <1>2. OneSeriesRecord' BY DEF LogCounts, OneSeriesRecord, Appending, Up
  <1> QED BY <1>1, <1>2 DEF CountInv, LogCounts

\* The replay comes to a record when the series of its ref has the records before it:
\* the series refuses it only if it refused it when it was appended.
LEMMA CountAccepting == ASSUME RefInv, CountInv PROVE Accepting
  <1> SUFFICES ASSUME pc = "replay", NEW r \in wal, IsNext(r), Recoverable(r)
               PROVE  Accepts(head[r.ref], r.t)
    BY DEF Accepting
  <1>1. /\ pos \in Nat /\ \A q \in wal : q.place \in Nat /\ q.t \in Nat
    BY DEF RefInv, TypeOK, Record, Time
  <1>2. PICK g \in wal : GivesRef(g, r) BY DEF Recoverable
  <1>3. g.place <= pos /\ IsSeries(g) /\ g.ref = r.ref
    BY <1>1, <1>2 DEF GivesRef, IsSeries, IsNext
  <1>4. r.ref \in DOMAIN head BY <1>3 DEF RefInv, ReplayRefs
  <1>5. \A q \in wal : q.place <= r.place - 1 <=> q.place <= pos
    BY <1>1 DEF IsNext
  <1>6. PutBy(r.ref, r.place - 1) = PutBy(r.ref, pos) BY <1>5 DEF PutBy
  <1> DEFINE S == PutBy(r.ref, pos)
  <1>7. MayFollow(r.t, S) BY <1>6 DEF CountInv, LogAccepted
  <1>8. Holds(head[r.ref], S) BY <1>4 DEF CountInv, ReplayCounts
  <1> HIDE DEF S
  <1>9. CASE Cardinality(S) % MaxSamplesPerChunk = 0 BY <1>8, <1>9 DEF Holds, Accepts
  <1>10. CASE \A q \in S : IsLast(q, S) => q.t <= r.t
    <2>1. CASE head[r.ref].n = 0
      <3>1. 0 % MaxSamplesPerChunk = 0 BY ConstantsAssumption
      <3> QED BY <2>1, <3>1 DEF Accepts
    <2>2. CASE \E q \in S : IsLast(q, S) /\ head[r.ref].lastT = q.t
      <3>1. S \subseteq wal BY DEF S, PutBy
      <3> QED BY <1>1, <1>10, <2>2, <3>1 DEF Accepts
    <2> QED BY <1>8, <2>1, <2>2 DEF Holds
  <1> QED BY <1>7, <1>9, <1>10 DEF MayFollow

\* Head.Append accepts a sample: one more than the log has, at a time that may follow.
LEMMA CountAppendHead ==
  ASSUME RefInv, CountInv, NEW l \in Lsets, NEW t \in Time, AppendHead(l, t)
  PROVE  CountInv'
  <1>1. /\ pc = "idle" /\ Up /\ Up' /\ UNCHANGED <<knownRefs, walVars>>
        /\ pc' \in {"logSeries", "logSamples"} /\ Appending' /\ ~Appending
    BY DEF AppendHead, Up, Appending
  <1>2. PICK ref \in GetOrCreate(l) :
          /\ Accepts(SeriesAt(ref, l), t)
          /\ head' = Register(ref, Appended(SeriesAt(ref, l), t, l))
          /\ cur' = [ref |-> ref, lset |-> l, t |-> t]
          /\ pc' = IF ref \in knownRefs THEN "logSamples" ELSE "logSeries"
    BY DEF AppendHead
  <1>3. ref \in Nat /\ lastRef \in Nat /\ \A r \in DOMAIN head : r \in Nat
    BY SeriesAtType DEF RefInv, TypeOK, Ref
  <1>4. \/ ref \in DOMAIN head
        \/ ref \notin DOMAIN head /\ ref = lastRef + 1
    BY <1>3 DEF GetOrCreate, RefInv, HeadRefs
  <1>5. walFile = "open" /\ Current BY <1>1 DEF CountInv, FileOpen, Current
  <1> DEFINE S == PutBy(ref, end)
             s == SeriesAt(ref, l)
  <1>6. Cardinality(S) \in Nat /\ \A q \in S : q.t \in Nat /\ q.place \in Nat
    <2>1. Cardinality(S) \in Nat BY PutByFinite DEF CountInv
    <2>2. S \subseteq wal BY DEF PutBy
    <2> QED BY <2>1, <2>2 DEF RefInv, TypeOK, Record, Time
  <1>7. s.n = Cardinality(S) /\ MayFollow(t, S)
    <2>1. CASE ref \in DOMAIN head
      <3>1. Holds(s, S) BY <1>1, <2>1 DEF CountInv, HeadCounts, SeriesAt
      <3>2. s.n % MaxSamplesPerChunk = 0 \/ t >= s.lastT BY <1>2 DEF Accepts
      <3> HIDE DEF S, s
      <3>3. CASE s.n = 0
        <4>1. 0 % MaxSamplesPerChunk = 0 BY ConstantsAssumption
        <4> QED BY <3>1, <3>3, <4>1 DEF Holds, MayFollow
      <3>4. CASE t >= s.lastT /\ \E q \in S : IsLast(q, S) /\ s.lastT = q.t
        <4>1. \A q, o \in S : IsLast(q, S) /\ IsLast(o, S) => q = o
          <5>1. S \subseteq wal BY DEF S, PutBy
          <5> QED BY <1>6, <5>1 DEF IsLast, RefInv, PlacesUnique
        <4>2. t \in Nat BY DEF Time
        <4> QED BY <1>6, <3>1, <3>4, <4>1, <4>2 DEF Holds, MayFollow
      <3> QED BY <3>1, <3>2, <3>3, <3>4 DEF Holds, MayFollow
    <2>2. CASE ref \notin DOMAIN head /\ ref = lastRef + 1
      <3>1. \A q \in wal : IsSeries(q) => q.ref # ref
        BY <1>3, <1>5, <2>2 DEF RefInv, HeadAgreesWithLog, TypeOK, Record, Ref
      <3>2. S = {} /\ Cardinality(S) = 0 BY <3>1, PutByEmpty
      <3> QED BY <2>2, <3>2 DEF SeriesAt, NewSeries, MayFollow
    <2> QED BY <1>4, <2>1, <2>2
  <1>8. /\ DOMAIN head' = DOMAIN head \cup {ref}
        /\ \A r \in DOMAIN head : r # ref => head'[r] = head[r]
        /\ head'[ref].n = s.n + 1 /\ head'[ref].lastT = t
    BY <1>2 DEF Register, Appended
  <1> HIDE DEF s
  <1>9. LogCounts' BY <1>1, SameWalCounts DEF walVars
  <1>10. \A r : PutBy(r, end)' = PutBy(r, end) BY <1>1, SameWalPut DEF walVars
  <1>11. HeadCounts'
    <2>1. cur'.ref = ref /\ cur'.t = t BY <1>2
    <2> QED BY <1>1, <1>7, <1>8, <1>10, <2>1
          DEF CountInv, HeadCounts, Holds, IsLast, MayFollow
  <1>12. FileOpen' BY <1>1 DEF CountInv, FileOpen, walVars
  <1>13. ReplayCounts' BY <1>1 DEF ReplayCounts
  <1>14. OneSeriesRecord'
    <2>1. \A q \in wal' : IsSeries(q) => q.ref \in knownRefs'
      BY <1>1 DEF CountInv, OneSeriesRecord, walVars
    <2>2. pc' = "logSeries" => cur'.ref \notin knownRefs' BY <1>1, <1>2
    <2> QED BY <1>9, <2>1, <2>2 DEF OneSeriesRecord, LogCounts, IsSeries
  <1> QED BY <1>9, <1>11, <1>12, <1>13, <1>14 DEF CountInv, LogCounts

\* What a record at the end of the log changes for a replay: itself.
LEMMA CountWrite ==
  ASSUME RefInv, RefInv', CountInv, NEW kind \in {"series", "samples"}, Write(kind),
         NEW n, n = LogRecord(kind)
  PROVE  /\ IsFiniteSet(wal)' /\ SegmentsInOrder'
         /\ n \notin wal /\ wal' = wal \cup {n} /\ n.place = end' /\ end' = end + 1
         /\ \A r \in wal : Recoverable(r)' <=> Recoverable(r)
         /\ \A ref, place \in Nat : place <= end => PutBy(ref, place)' = PutBy(ref, place)
         /\ \A ref : PutBy(ref, end)' =
              PutBy(ref, end) \cup {r \in {n} : r.ref = ref /\ Recoverable(r)'}
         /\ \A r \in wal : r.place \in Nat /\ r.place <= end
         /\ (Recoverable(n)' => MayFollow(n.t, PutBy(n.ref, end))) => LogAccepted'
  <1>1. /\ n.place = end + 1 /\ n.seg = WriteSeg
        /\ wal' = wal \cup {n} /\ end' = end + 1 /\ segIdx' = WriteSeg
    BY DEF Write, LogRecord
  <1>2. /\ end \in Nat /\ segIdx \in Nat
        /\ \A r \in wal : r.place \in Nat /\ r.place <= end /\ 0 < r.place /\ r.seg \in Nat
    BY DEF RefInv, PlacesUnique, TypeOK, Record
  <1>3. n \notin wal BY <1>1, <1>2
  <1>4. IsFiniteSet(wal)' BY <1>1, FS_AddElement DEF CountInv
  <1>5. SegmentsInOrder'
    BY <1>1, <1>2 DEF CountInv, SegmentsInOrder, WriteSeg
  <1>6. \A r, q \in wal' : GivesRef(q, r) /\ r \in wal => q \in wal
    BY <1>1, <1>2 DEF GivesRef
  <1>7. /\ \A r \in wal : Recoverable(r) <=> IsSamples(r) /\ \E q \in wal : GivesRef(q, r)
        /\ \A r \in wal' : Recoverable(r)' <=> IsSamples(r) /\ \E q \in wal' : GivesRef(q, r)
    <2>1. \A r \in wal' : Reached(r)' BY DEF Reached, RefInv, NoTorn
    <2>2. \A r, q \in wal' : GivesRef(q, r) => q.lset = r.lset
      BY DEF GivesRef, RefInv, LogCoherent, IsSeries
    <2> QED BY <2>1, <2>2, RecoverableIffGiven DEF Recoverable, GivesRef, IsSamples
  <1>8. \A r \in wal : Recoverable(r)' <=> Recoverable(r) BY <1>1, <1>6, <1>7
  <1>9. ASSUME NEW ref, NEW place \in Nat, place <= end
        PROVE  PutBy(ref, place)' = PutBy(ref, place)
    BY <1>1, <1>2, <1>8, <1>9 DEF PutBy
  <1>10. ASSUME NEW ref
         PROVE  PutBy(ref, end)' =
                  PutBy(ref, end) \cup {r \in {n} : r.ref = ref /\ Recoverable(r)'}
    BY <1>1, <1>2, <1>8 DEF PutBy
  <1>11. ASSUME Recoverable(n)' => MayFollow(n.t, PutBy(n.ref, end)) PROVE LogAccepted'
    <2> SUFFICES ASSUME NEW r \in wal', Recoverable(r)'
                 PROVE  MayFollow(r.t, PutBy(r.ref, r.place - 1)')
      BY DEF LogAccepted, MayFollow, IsLast
    <2>1. CASE r \in wal
      <3>1. r.place - 1 \in Nat /\ r.place - 1 <= end BY <1>2, <2>1
      <3>2. PutBy(r.ref, r.place - 1)' = PutBy(r.ref, r.place - 1) BY <1>9, <3>1
      <3> QED BY <1>8, <2>1, <3>2 DEF CountInv, LogAccepted
    <2>2. CASE r = n
      <3>1. PutBy(n.ref, n.place - 1)' = PutBy(n.ref, end) BY <1>1, <1>2, <1>9
      <3> QED BY <1>11, <2>2, <3>1
    <2> QED BY <1>1, <2>1, <2>2
  <1> QED BY <1>1, <1>2, <1>3, <1>4, <1>5, <1>8, <1>9, <1>10, <1>11

LEMMA WriteAsked ==
  ASSUME RefInv, CountInv, faults' = faults, pc \in {"logSeries", "logSamples"}, WriteFails
  PROVE  FALSE
  BY NoFault DEF WriteFails, CountInv, FileOpen, Up, RefInv

\* A series record is the first of its ref, and no sample of the log is after it.
LEMMA CountLogSeries ==
  ASSUME RefInv, RefInv', CountInv, faults' = faults, LogSeries PROVE CountInv'
  <1>1. /\ pc = "logSeries" /\ pc' = "logSamples" /\ Write("series")
        /\ knownRefs' = knownRefs \cup {cur.ref} /\ UNCHANGED <<head, cur, walFile>>
    BY WriteAsked DEF LogSeries, WriteSucceeds, Write
  <1>2. PICK n : n = LogRecord("series") OBVIOUS
  <1>3. IsSeries(n) /\ n.ref = cur.ref /\ ~IsSamples(n) BY <1>2 DEF LogRecord, IsSeries, IsSamples
  <1>4. ~Recoverable(n)' BY <1>3 DEF Recoverable, IsSamples
  <1>5. /\ IsFiniteSet(wal)' /\ SegmentsInOrder' /\ wal' = wal \cup {n}
        /\ ~Recoverable(n)' => LogAccepted'
        /\ \A ref : PutBy(ref, end)' =
             PutBy(ref, end) \cup {r \in {n} : r.ref = ref /\ Recoverable(r)'}
    BY <1>1, <1>2, <1>4, CountWrite
  <1>10. LogAccepted' BY <1>4, <1>5
  <1>11. ASSUME NEW ref PROVE PutBy(ref, end)' = PutBy(ref, end)
    <2>1. {r \in {n} : r.ref = ref /\ Recoverable(r)'} = {} BY <1>4
    <2> QED BY <1>5, <2>1
  <1>6. /\ \A q \in wal : IsSeries(q) => q.ref \in knownRefs /\ q.ref # cur.ref
        /\ \A q, r \in wal : IsSeries(q) /\ IsSeries(r) /\ q.ref = r.ref => q = r
    BY <1>1 DEF CountInv, OneSeriesRecord, Up
  <1>7. OneSeriesRecord'
    BY <1>1, <1>3, <1>5, <1>6 DEF OneSeriesRecord, IsSeries
  <1>8. HeadCounts'
    BY <1>1, <1>11 DEF CountInv, HeadCounts, Appending, Up, Holds, IsLast, MayFollow
  <1>9. FileOpen' /\ ReplayCounts'
    BY <1>1 DEF CountInv, FileOpen, ReplayCounts, Up
  <1> QED BY <1>5, <1>7, <1>8, <1>9, <1>10 DEF CountInv

LEMMA HoldsOneMore ==
  ASSUME NEW S, IsFiniteSet(S), NEW n, n \notin S,
         n.place \in Nat, \A q \in S : q.place \in Nat /\ q.place <= n.place,
         NEW s, s.n = Cardinality(S) + 1, s.lastT = n.t
  PROVE  Holds(s, S \cup {n})
  <1>1. Cardinality(S \cup {n}) = Cardinality(S) + 1 BY FS_AddElement
  <1>2. IsLast(n, S \cup {n}) BY DEF IsLast
  <1> QED BY <1>1, <1>2 DEF Holds

\* A samples record makes the log have what the head has.
LEMMA CountLogSamples ==
  ASSUME RefInv, RefInv', CountInv, faults' = faults, LogSamples PROVE CountInv'
  <1>1. /\ pc = "logSamples" /\ pc' = "idle" /\ Write("samples")
        /\ UNCHANGED <<head, knownRefs, cur, walFile>>
    BY WriteAsked DEF LogSamples, WriteSucceeds, Write, memVars
  <1>2. PICK n : n = LogRecord("samples") OBVIOUS
  <1>3. ~IsSeries(n) /\ n.ref = cur.ref /\ n.t = cur.t
    BY <1>2 DEF LogRecord, IsSeries
  <1>4. cur.ref \in DOMAIN head /\ cur.ref \in knownRefs
    BY <1>1 DEF RefInv, AppendInProgress
  <1> DEFINE S == PutBy(cur.ref, end)
  <1>5. /\ head[cur.ref].n = Cardinality(S) + 1 /\ head[cur.ref].lastT = cur.t
        /\ MayFollow(cur.t, S)
    BY <1>1, <1>4 DEF CountInv, HeadCounts, Appending, Up
  <1>6. /\ IsFiniteSet(wal)' /\ SegmentsInOrder' /\ LogAccepted'
        /\ n \notin wal /\ wal' = wal \cup {n} /\ n.place = end' /\ end' = end + 1
        /\ \A r \in wal : r.place \in Nat /\ r.place <= end
        /\ \A ref : PutBy(ref, end)' =
             PutBy(ref, end) \cup {r \in {n} : r.ref = ref /\ Recoverable(r)'}
    BY <1>1, <1>2, <1>3, <1>5, CountWrite
  <1>7. Recoverable(n)'
    <2>1. PICK q \in wal : IsSeries(q) /\ q.ref = cur.ref
      BY <1>1, <1>4 DEF RefInv, KnownRefsInv, CountInv, FileOpen, Current, Up
    <2>2. end \in Nat BY DEF RefInv, TypeOK
    <2>3. q \in wal' /\ GivesRef(q, n)
      BY <1>3, <1>6, <2>1, <2>2 DEF GivesRef, IsSeries
    <2>4. IsSamples(n) /\ n \in wal' BY <1>2, <1>6 DEF LogRecord, IsSamples
    <2>5. Reached(n)' BY DEF Reached, RefInv, NoTorn
    <2>6. \A p \in wal' : GivesRef(p, n) => p.lset = n.lset
      BY <2>4 DEF GivesRef, RefInv, LogCoherent, IsSeries
    <2> QED BY <2>3, <2>4, <2>5, <2>6 DEF Recoverable, GivesRef, IsSamples
  <1>8. PutBy(cur.ref, end)' = S \cup {n} BY <1>1, <1>3, <1>6, <1>7
  <1>9. ASSUME NEW ref, ref # cur.ref PROVE PutBy(ref, end)' = PutBy(ref, end)
    BY <1>3, <1>6, <1>9
  <1>10. Holds(head[cur.ref], S \cup {n})
    <2>1. S \subseteq wal BY DEF PutBy
    <2>2. end \in Nat /\ n \notin S BY <1>6, <2>1 DEF RefInv, TypeOK
    <2>3. IsFiniteSet(S) BY PutByFinite DEF CountInv
    <2>4. \A q \in S : q.place \in Nat /\ q.place <= n.place BY <1>6, <2>1, <2>2
    <2> HIDE DEF S
    <2> QED BY <1>3, <1>5, <1>6, <2>2, <2>3, <2>4, HoldsOneMore
  <1>11. HeadCounts'
    <2> SUFFICES ASSUME NEW ref \in DOMAIN head PROVE Holds(head[ref], PutBy(ref, end)')
      BY <1>1 DEF HeadCounts, Appending, Holds, IsLast
    <2>1. CASE ref = cur.ref BY <1>1, <1>8, <1>10, <2>1
    <2>2. CASE ref # cur.ref
      BY <1>1, <1>9, <2>2 DEF CountInv, HeadCounts, Appending, Up
    <2> QED BY <2>1, <2>2
  <1>12. OneSeriesRecord'
    BY <1>1, <1>3, <1>6 DEF CountInv, OneSeriesRecord, IsSeries, Up
  <1>13. FileOpen' /\ ReplayCounts'
    BY <1>1 DEF CountInv, FileOpen, ReplayCounts, Up
  <1> QED BY <1>6, <1>11, <1>12, <1>13 DEF CountInv

\* The segments go from the oldest on: with the series record of a ref all its samples
\* records are still there, and without it a replay puts none of them into a series.
LEMMA CountRemove ==
  ASSUME RefInv, RefInv', CountInv, faults' = faults, RemoveSegment PROVE CountInv'
  <1>1. PICK s \in todo :
          (\A q \in todo : s <= q) /\ wal' = {r \in wal : r.seg # s}
    BY NoFault DEF RemoveSegment, RefInv
  <1>2. /\ pc = "removing" /\ pc' = "removing"
        /\ UNCHANGED <<head, lastRef, knownRefs, end, segIdx>>
    BY DEF RemoveSegment, memVars
  <1>3. s \in Nat /\ \A r \in wal : r.seg \in Nat /\ r.place \in Nat /\ s <= r.seg
    BY <1>1, <1>2 DEF RefInv, RemovingInv, TypeOK, Record
  <1>4. \A r : r \in wal' <=> r \in wal /\ s < r.seg BY <1>1, <1>3
  <1>5. IsFiniteSet(wal)'
    <2>1. wal' \in SUBSET wal BY <1>1
    <2> QED BY <2>1, FS_Subset DEF CountInv
  <1>6. SegmentsInOrder' BY <1>2, <1>4 DEF CountInv, SegmentsInOrder
  <1>7. \A q, r \in wal' : IsSeries(q) /\ IsSeries(r) /\ q.ref = r.ref => q = r
    BY <1>4 DEF CountInv, OneSeriesRecord
  <1>8. /\ \A r \in wal : Recoverable(r) <=> IsSamples(r) /\ \E q \in wal : GivesRef(q, r)
        /\ \A r \in wal' : Recoverable(r)' <=> IsSamples(r) /\ \E q \in wal' : GivesRef(q, r)
    <2>1. \A r \in wal' : Reached(r)' BY DEF Reached, RefInv, NoTorn
    <2>2. \A r, q \in wal' : GivesRef(q, r) => q.lset = r.lset
      BY DEF GivesRef, RefInv, LogCoherent, IsSeries
    <2> QED BY <2>1, <2>2, RecoverableIffGiven DEF Recoverable, GivesRef, IsSamples
  <1>9. LogAccepted'
    <2> SUFFICES ASSUME NEW r \in wal', Recoverable(r)'
                 PROVE  MayFollow(r.t, PutBy(r.ref, r.place - 1)')
      BY DEF LogAccepted, MayFollow, IsLast
    <2>1. PICK g \in wal' : GivesRef(g, r) BY <1>8
    <2>2. r \in wal /\ Recoverable(r) BY <1>4, <1>8, <2>1
    <2>3. ASSUME NEW p \in wal, NEW q \in wal, GivesRef(q, p), p.ref = r.ref
          PROVE  q = g /\ p \in wal'
      <3>1. q = g
        BY <1>4, <2>1, <2>3 DEF CountInv, OneSeriesRecord, GivesRef, IsSeries
      <3>2. g.seg <= p.seg /\ s < g.seg
        BY <1>4, <2>1, <2>3, <3>1 DEF CountInv, SegmentsInOrder, GivesRef
      <3> QED BY <1>3, <1>4, <2>1, <3>1, <3>2
    <2>4. \A p \in wal : p.ref = r.ref => (p \in wal' /\ Recoverable(p)' <=> Recoverable(p))
      BY <1>4, <1>8, <2>1, <2>3
    <2>5. PutBy(r.ref, r.place - 1)' = PutBy(r.ref, r.place - 1)
      BY <1>4, <2>4 DEF PutBy
    <2> QED BY <2>2, <2>5 DEF CountInv, LogAccepted
  <1>10. LogCounts' BY <1>5, <1>6, <1>7, <1>9 DEF LogCounts, IsSeries
  <1>11. DOMAIN head' = {} /\ FileOpen' /\ ~Appending'
    BY <1>2 DEF RefInv, ResetInv, FileOpen, Appending
  <1> QED BY <1>2, <1>10, <1>11, CountNoHead

\* Reset, the rest of Truncate, a kill and Open.
LEMMA CountClear ==
  ASSUME RefInv, CountInv, faults' = faults,
         Reset \/ TruncateStart \/ TruncateEnd \/ Crash \/ Open
  PROVE  CountInv'
  <1>0. \A kind : ~Fault(kind) BY NoFault DEF RefInv
  <1>1. CASE Reset
    <2>1. LogCounts' BY <1>1, SameWalCounts DEF Reset, walVars
    <2>2. DOMAIN head' = {} /\ FileOpen' /\ ~Appending' /\ pc' = "truncate"
      BY <1>1 DEF Reset, EmptyHead, CountInv, FileOpen, Appending, walVars, Up
    <2> QED BY <2>1, <2>2, CountNoHead
  <1>2. CASE TruncateStart
    <2>1. LogCounts' BY <1>2, SameWalCounts DEF TruncateStart
    <2>2. walFile = "open" BY <1>2 DEF TruncateStart, CountInv, FileOpen, Up
    <2>3. pc' = "removing" BY <1>0, <1>2, <2>2 DEF TruncateStart
    <2>4. DOMAIN head' = {}
      BY <1>2 DEF TruncateStart, RefInv, ResetInv, memVars
    <2> QED BY <2>1, <2>3, <2>4, CountNoHead DEF FileOpen, Appending
  <1>3. CASE TruncateEnd
    <2>1. wal = {} /\ wal' = {}
      BY <1>3 DEF TruncateEnd, RefInv, RemovingInv
    <2>2. LogCounts'
      BY <2>1, FS_EmptySet DEF LogCounts, SegmentsInOrder, LogAccepted
    <2>3. walFile' = "open" /\ ~Appending'
      BY <1>0, <1>3 DEF TruncateEnd, Appending
    <2>4. DOMAIN head' = {}
      BY <1>3 DEF TruncateEnd, RefInv, ResetInv, memVars
    <2> QED BY <2>1, <2>2, <2>3, <2>4, CountNoHead DEF FileOpen
  <1>4. CASE Crash
    <2>1. wal' = wal /\ segIdx' = segIdx /\ DOMAIN head' = {} /\ pc' = "down"
      BY <1>0, <1>4 DEF Crash, EmptyHead
    <2> QED BY <2>1, SameWalCounts, CountNoHead DEF FileOpen, Appending, Up
  <1>5. CASE Open
    <2>1. wal' = wal /\ segIdx' = segIdx /\ DOMAIN head' = {} /\ pc' = "replay"
      BY <1>5 DEF Open, RefInv, DownHead, memVars, walVars
    <2> QED BY <2>1, SameWalCounts, CountNoHead DEF FileOpen, Appending, Up
  <1> QED BY <1>1, <1>2, <1>3, <1>4, <1>5

\* One step of the replay adds the record it comes to.
LEMMA PutByNext ==
  ASSUME RefInv, NEW r \in wal, IsNext(r)
  PROVE  /\ pos \in Nat /\ \A q \in wal : q.place \in Nat /\ (q.place <= pos => q # r)
         /\ \A ref : PutBy(ref, r.place) =
              PutBy(ref, pos) \cup {q \in {r} : q.ref = ref /\ Recoverable(q)}
  <1>1. pos \in Nat /\ \A q \in wal : q.place \in Nat BY DEF RefInv, TypeOK, Record
  <1>2. \A q \in wal : q.place <= r.place <=> q.place <= pos \/ q = r
    BY <1>1 DEF IsNext, RefInv, PlacesUnique
  <1>3. \A q \in wal : q.place <= pos => q # r BY <1>1 DEF IsNext
  <1> QED BY <1>1, <1>2, <1>3 DEF PutBy

LEMMA CountReplaySeries ==
  ASSUME RefInv, CountInv, NEW r \in wal, ReplaySeries(r) PROVE CountInv'
  <1>1. /\ pc = "replay" /\ pc' = "replay" /\ IsNext(r) /\ IsSeries(r) /\ pos' = r.place
        /\ UNCHANGED <<knownRefs, walVars>>
    BY DEF ReplaySeries, IsSeries
  <1>2. LogCounts' BY <1>1, SameWalCounts DEF walVars
  <1>3. FileOpen' /\ HeadCounts' /\ OneSeriesRecord'
    BY <1>1, <1>2 DEF FileOpen, HeadCounts, OneSeriesRecord, LogCounts, Up, IsSeries
  <1>4. ~Recoverable(r) BY <1>1 DEF Recoverable, IsSeries
  <1>5. \A ref : PutBy(ref, pos)' = PutBy(ref, pos)
    <2>1. \A ref : PutBy(ref, r.place) = PutBy(ref, pos)
      <3> TAKE ref
      <3>1. {q \in {r} : q.ref = ref /\ Recoverable(q)} = {} BY <1>4
      <3> QED BY <1>1, <3>1, PutByNext
    <2>2. \A ref, place : PutBy(ref, place)' = PutBy(ref, place)
      BY <1>1, SameWalPut DEF walVars
    <2> QED BY <1>1, <2>1, <2>2
  <1>6. CASE r.ref \in DOMAIN head
    <2>1. head' = head BY <1>6 DEF ReplaySeries
    <2>2. ReplayCounts' BY <1>1, <1>5, <2>1 DEF CountInv, ReplayCounts, Holds, IsLast
    <2> QED BY <1>2, <1>3, <2>2 DEF CountInv, LogCounts
  <1>7. CASE r.ref \notin DOMAIN head
    <2>1. head' = Register(r.ref, NewSeries(r.lset)) BY <1>7 DEF ReplaySeries
    <2>2. PutBy(r.ref, pos) = {}
      <3>1. \A q, g \in wal : GivesRef(g, q) /\ q.place <= pos => g.place <= pos
        BY <1>1, PutByNext DEF GivesRef
      <3> QED BY <1>1, <1>7, <3>1
              DEF PutBy, Recoverable, GivesRef, RefInv, ReplayRefs, IsSeries
    <2>3. Holds(NewSeries(r.lset), PutBy(r.ref, pos))
      BY <2>2, FS_EmptySet DEF Holds, NewSeries
    <2>4. ReplayCounts'
      BY <1>1, <1>5, <1>7, <2>1, <2>3 DEF CountInv, ReplayCounts, Holds, IsLast, Register
    <2> QED BY <1>2, <1>3, <2>4 DEF CountInv, LogCounts
  <1> QED BY <1>6, <1>7

\* A series with the records up to pos takes the next one exactly if it is recoverable.
LEMMA CountReplaySamples ==
  ASSUME RefInv, CountInv, NEW r \in wal, ReplaySamples(r) PROVE CountInv'
  <1>1. /\ pc = "replay" /\ pc' = "replay" /\ IsNext(r) /\ IsSamples(r) /\ pos' = r.place
        /\ UNCHANGED <<knownRefs, walVars>>
    BY DEF ReplaySamples, IsSamples
  <1>2. LogCounts' BY <1>1, SameWalCounts DEF walVars
  <1>3. FileOpen' /\ HeadCounts' /\ OneSeriesRecord'
    BY <1>1, <1>2 DEF FileOpen, HeadCounts, OneSeriesRecord, LogCounts, Up, IsSeries
  <1>4. \A ref : PutBy(ref, pos)' =
          PutBy(ref, pos) \cup {q \in {r} : q.ref = ref /\ Recoverable(q)}
    <2>1. \A ref, place : PutBy(ref, place)' = PutBy(ref, place)
      BY <1>1, SameWalPut DEF walVars
    <2> QED BY <1>1, <2>1, PutByNext
  <1>5. r.ref \in DOMAIN head <=> Recoverable(r)
    <2>1. \A q \in wal : q.place \in Nat /\ r.place \in Nat /\ pos \in Nat
                         /\ (q.place < r.place <=> q.place <= pos)
      BY <1>1, PutByNext DEF IsNext
    <2>2. r.ref \in DOMAIN head <=> \E q \in wal : GivesRef(q, r)
      BY <1>1, <2>1 DEF GivesRef, RefInv, ReplayRefs, IsSeries
    <2> QED BY <1>1, <2>2, RecoverableIffGiven
  <1>6. CASE ~Recoverable(r)
    <2>1. head' = head BY <1>5, <1>6 DEF ReplaySamples
    <2>2. \A ref : {q \in {r} : q.ref = ref /\ Recoverable(q)} = {} BY <1>6
    <2>3. \A ref : PutBy(ref, pos)' = PutBy(ref, pos) BY <1>4, <2>2
    <2>4. ReplayCounts' BY <1>1, <2>1, <2>3 DEF CountInv, ReplayCounts, Holds, IsLast
    <2> QED BY <1>2, <1>3, <2>4 DEF CountInv, LogCounts
  <1>7. CASE Recoverable(r)
    <2> DEFINE S == PutBy(r.ref, pos)
               s == Appended(head[r.ref], r.t, r.lset)
    <2>1. r.ref \in DOMAIN head /\ head' = Register(r.ref, s)
      BY <1>1, <1>5, <1>7, CountAccepting DEF Accepting, ReplaySamples
    <2>2. Holds(s, S \cup {r})
      <3>1. s.n = head[r.ref].n + 1 /\ s.lastT = r.t BY DEF Appended
      <3>2. head[r.ref].n = Cardinality(S)
        BY <1>1, <2>1 DEF CountInv, ReplayCounts, Holds
      <3>3. S \subseteq wal /\ \A q \in S : q.place <= pos BY DEF PutBy
      <3>4. r \notin S /\ \A q \in S : q.place \in Nat /\ q.place <= r.place
        BY <1>1, <3>3, PutByNext DEF IsNext
      <3>5. IsFiniteSet(S) /\ r.place \in Nat BY <1>1, PutByFinite, PutByNext DEF CountInv
      <3> HIDE DEF s, S
      <3> QED BY <3>1, <3>2, <3>4, <3>5, HoldsOneMore
    <2>3. PutBy(r.ref, pos') = S \cup {r} /\ PutBy(r.ref, pos)' = S \cup {r}
      <3>1. {q \in {r} : q.ref = r.ref /\ Recoverable(q)} = {r} BY <1>7
      <3> QED BY <1>1, <1>4, <3>1, PutByNext
    <2>4. ASSUME NEW ref, ref # r.ref PROVE PutBy(ref, pos)' = PutBy(ref, pos)
      <3>1. {q \in {r} : q.ref = ref /\ Recoverable(q)} = {} BY <2>4
      <3> QED BY <1>4, <3>1
    <2> HIDE DEF s, S
    <2>5. ReplayCounts'
      <3> SUFFICES ASSUME NEW ref \in DOMAIN head'
                   PROVE  Holds(head'[ref], PutBy(ref, pos)')
        BY DEF ReplayCounts, Holds, IsLast
      <3>1. CASE ref = r.ref
        <4>1. head'[ref] = s /\ PutBy(ref, pos)' = S \cup {r}
          BY <1>1, <1>4, <2>1, <2>3, <3>1 DEF Register
        <4> QED BY <2>2, <4>1
      <3>2. CASE ref # r.ref
        <4>1. ref \in DOMAIN head /\ head'[ref] = head[ref] BY <2>1, <3>2 DEF Register
        <4>2. Holds(head[ref], PutBy(ref, pos)) BY <1>1, <4>1 DEF CountInv, ReplayCounts
        <4> QED BY <2>4, <3>2, <4>1, <4>2
      <3> QED BY <3>1, <3>2
    <2> QED BY <1>2, <1>3, <2>5 DEF CountInv, LogCounts
  <1> QED BY <1>6, <1>7

\* Without torn records the replay has read the whole log.
LEMMA CountReplayEnd == ASSUME RefInv, CountInv, ReplayEnd PROVE CountInv'
  <1>1. /\ pc = "replay" /\ pc' = "idle" /\ walFile' = "open" /\ knownRefs' = DOMAIN head
        /\ UNCHANGED <<head, wal, end, segIdx>>
    BY DEF ReplayEnd
  <1>2. \A r \in wal : r.place <= pos /\ r.place <= end
    BY <1>1 DEF ReplayEnd, Reached, RefInv, NoTorn, PlacesUnique, TypeOK, Record
  <1>3. \A ref : PutBy(ref, end)' = PutBy(ref, pos)
    <2>1. \A ref : PutBy(ref, end)' = PutBy(ref, end) BY <1>1, SameWalPut
    <2> QED BY <1>2, <2>1 DEF PutBy
  <1>4. HeadCounts'
    BY <1>1, <1>3 DEF CountInv, HeadCounts, ReplayCounts, Appending, Holds, IsLast
  <1>5. LogCounts' BY <1>1, SameWalCounts
  <1>6. FileOpen' /\ ReplayCounts' BY <1>1 DEF FileOpen, ReplayCounts
  <1>7. OneSeriesRecord'
    <2>1. \A q \in wal' : IsSeries(q) => q.ref \in knownRefs'
      BY <1>1, <1>2 DEF RefInv, ReplayRefs
    <2> QED BY <1>1, <1>5, <2>1 DEF OneSeriesRecord, LogCounts, IsSeries
  <1> QED BY <1>4, <1>5, <1>6, <1>7 DEF CountInv, LogCounts

LEMMA CountStep ==
  ASSUME RefInv, RefInv', CountInv, faults' = faults, [Next]_vars PROVE CountInv'
  <1>1. ASSUME NEW l \in Lsets, NEW t \in Time, AppendHead(l, t) PROVE CountInv'
    BY <1>1, CountAppendHead
  <1>2. ASSUME NEW l \in Lsets, NEW t \in Time, AppendRejected(l, t) PROVE CountInv'
    BY <1>2, CountQuiet DEF AppendRejected, Up, Appending
  <1>3. CASE LogSeries BY <1>3, CountLogSeries
  <1>4. CASE LogSamples BY <1>4, CountLogSamples
  <1>5. ASSUME NEW t \in Time, CompactStart(t) PROVE CountInv'
    BY <1>5, CountQuiet DEF CompactStart, Up, Appending
  <1>6. CASE WriteRawBlock
    BY <1>6, CountQuiet DEF WriteRawBlock, RemoveOld, Rename, Up, Appending
  <1>7. CASE WriteRollupBlock
    BY <1>7, CountQuiet DEF WriteRollupBlock, RemoveOld, Rename, Up, Appending
  <1>8. CASE Reset \/ TruncateStart \/ TruncateEnd \/ Crash \/ Open BY <1>8, CountClear
  <1>9. CASE RemoveSegment BY <1>9, CountRemove
  <1>10. CASE ApplyRetention BY <1>10, CountQuiet DEF ApplyRetention, Up, Appending
  <1>11. ASSUME NEW r \in wal, ReplaySeries(r) \/ ReplaySamples(r) PROVE CountInv'
    BY <1>11, CountReplaySeries, CountReplaySamples
  <1>12. CASE ReplayEnd BY <1>12, CountReplayEnd
  <1>13. CASE UNCHANGED vars
    <2>1. UNCHANGED <<head, knownRefs, pc, cur, wal, end, segIdx, walFile, pos>>
      BY <1>13 DEF vars, memVars, walVars
    <2>2. \A ref, place : PutBy(ref, place)' = PutBy(ref, place) BY <2>1, SameWalPut
    <2>3. LogCounts' BY <2>1, SameWalCounts
    <2>4. HeadCounts'
      BY <2>1, <2>2 DEF CountInv, HeadCounts, Appending, Holds, IsLast, MayFollow, Up
    <2>5. ReplayCounts' BY <2>1, <2>2 DEF CountInv, ReplayCounts, Holds, IsLast
    <2>6. FileOpen' /\ OneSeriesRecord'
      BY <2>1 DEF CountInv, FileOpen, OneSeriesRecord, Up, IsSeries
    <2> QED BY <2>3, <2>4, <2>5, <2>6 DEF CountInv, LogCounts
  <1> QED BY <1>1, <1>2, <1>3, <1>4, <1>5, <1>6, <1>7, <1>8, <1>9, <1>10, <1>11, <1>12,
             <1>13 DEF Next

\* A step fails only once: no step takes a fault back.
LEMMA FaultsGrow ==
  ASSUME TypeOK, [Next]_vars, faults' = 0 PROVE faults = 0
  <1>1. faults \in Nat BY DEF TypeOK
  <1>2. faults' = faults \/ faults' = faults + 1
    BY DEF Next, AppendHead, AppendRejected, LogSeries, LogSamples, WriteSucceeds,
           WriteFails, Fault, CompactStart, WriteRawBlock, WriteRollupBlock, RemoveOld,
           Rename, Reset, TruncateStart, RemoveSegment, TruncateEnd, ApplyRetention,
           Crash, Open, ReplaySeries, ReplaySamples, ReplayEnd, vars
  <1> QED BY <1>1, <1>2

LEMMA CountInit == Init => Undamaged
  <1> SUFFICES ASSUME Init PROVE Undamaged OBVIOUS
  <1>1. RefInv BY RefInit
  <1>2. DataInv BY DataInit
  <1>3. IsFiniteSet(wal) BY FS_EmptySet DEF Init
  <1>4. FileOpen /\ SegmentsInOrder /\ OneSeriesRecord /\ LogAccepted
    BY DEF Init, FileOpen, SegmentsInOrder, OneSeriesRecord, LogAccepted
  <1>5. HeadCounts /\ ReplayCounts BY DEF Init, EmptyHead, HeadCounts, ReplayCounts
  <1> QED BY <1>1, <1>2, <1>3, <1>4, <1>5 DEF Undamaged, CountInv

LEMMA UndamagedStep ==
  TypeOK /\ NotLater /\ Undamaged /\ [Next]_vars => TypeOK' /\ NotLater' /\ Undamaged'
  <1> SUFFICES ASSUME TypeOK, NotLater, Undamaged, [Next]_vars
               PROVE  TypeOK' /\ NotLater' /\ Undamaged'
    OBVIOUS
  <1>1. TypeOK' /\ NotLater' BY TypeStep, NotLaterStep
  <1>2. ASSUME faults' = 0 PROVE RefInv' /\ CountInv' /\ DataInv'
    <2>1. faults = 0 /\ faults' = faults BY <1>2, FaultsGrow
    <2>2. RefInv /\ CountInv /\ DataInv BY <2>1 DEF Undamaged
    <2>3. WholeStep BY <2>1 DEF WholeStep
    <2>4. RefInv' BY <2>2, <2>3, RefStep
    <2>5. CountInv' BY <2>1, <2>2, <2>4, CountStep
    <2>6. SampleInv BY <2>2, CountAccepting DEF SampleInv
    <2> QED BY <2>3, <2>4, <2>5, <2>6, DataStep
  <1> QED BY <1>1, <1>2 DEF Undamaged

\* THEOREM: until a step fails every acknowledged sample is on disk where a restart
\* finds it, however often the process is killed and however the clock is stepped: the
\* samples the replay refuses are those that Append has refused.
THEOREM NothingIsLostByTheClock == Spec => []UndamagedIsDurable
  <1>1. Init => TypeOK /\ NotLater /\ Undamaged
    BY HeldInit, CountInit DEF HeldInv
  <1>2. Undamaged => UndamagedIsDurable
    BY KeptType DEF Undamaged, UndamagedIsDurable, Durable, DataInv, AckedInv, LogInv,
                    Safe, IsSamples
  <1> QED BY <1>1, <1>2, UndamagedStep, PTL DEF Spec

-----------------------------------------------------------------------------
(* The write path implements Store: every step of TSDB is a step of Store or *)
(* leaves what Store speaks about alone.                                    *)

\* From the rename of the raw block to Reset, all of the head is in it: acknowledged or
\* not, what readers see does not depend on the head any more.
HeadInBlocks ==
  pc \in {"remove5m", "rename5m", "reset"} => \A s \in HeadData : Safe("raw", s)

StoreInv == SampleInv /\ HeadInBlocks

RemovesOld ==
  \/ RemoveOld("raw", "removeRaw", "renameRaw")
  \/ RemoveOld("5m", "remove5m", "rename5m")

Renames ==
  \/ Rename("raw", "renameRaw", "remove5m")
  \/ Rename("5m", "rename5m", "reset")

\* What a removal of a namesake owes to the raw samples.
LEMMA RawWithoutOld ==
  ASSUME SampleInv, RemovesOld, NEW s
  PROVE  /\ Forgotten("raw", s) => Forgotten("raw", s)'
         /\ Safe("raw", s) =>
              \/ Safe("raw", s)'
              \/ s \in HeadData \cap RecoverableData /\ pc = "removeRaw"
         /\ UNCHANGED <<wal, head, acked>>
         /\ Up /\ Up' /\ pc \in {"removeRaw", "remove5m"}
         /\ pc' \in {"renameRaw", "rename5m", "idle"} /\ (pc = "removeRaw" => pc' # "rename5m")
  <1>1. /\ UNCHANGED <<wal, head, acked, horizon>> /\ Up /\ Up'
        /\ pc \in {"removeRaw", "remove5m"}
        /\ pc' \in {"renameRaw", "rename5m", "idle"} /\ (pc = "removeRaw" => pc' # "rename5m")
    BY DEF RemovesOld, RemoveOld, memVars, walVars, Up
  <1>2. "raw" \in Res /\ "5m" \in Res BY DEF Res
  <1>3. CASE UNCHANGED <<blocks, clobbered>>
    BY <1>1, <1>2, <1>3, SafeKept, KeptType DEF Forgotten
  <1>4. ASSUME NEW res \in Res, NEW lo, NEW hi,
               res = "raw" => pc = "removeRaw",
               blocks' = blocks \ Namesakes(res, lo, hi),
               clobbered' = [clobbered EXCEPT ![res] =
                               @ \cup LostWith(Namesakes(res, lo, hi))]
        PROVE  /\ Forgotten("raw", s) => Forgotten("raw", s)'
               /\ Safe("raw", s) =>
                    \/ Safe("raw", s)'
                    \/ s \in HeadData \cap RecoverableData /\ pc = "removeRaw"
    <2>1. /\ Namesakes(res, lo, hi) \in SUBSET blocks
          /\ \A b \in Namesakes(res, lo, hi) : b.res = res
      BY DEF Namesakes
    <2> QED BY <1>1, <1>2, <1>4, <2>1, SafeWithoutOld DEF SampleInv, RefInv
  <1>5. CASE RemoveOld("raw", "removeRaw", "renameRaw")
    BY <1>1, <1>2, <1>3, <1>4, <1>5 DEF RemoveOld
  <1>6. CASE RemoveOld("5m", "remove5m", "rename5m")
    BY <1>1, <1>2, <1>3, <1>4, <1>6 DEF RemoveOld
  <1> QED BY <1>5, <1>6 DEF RemovesOld

\* A rename takes nothing away, and the one of the raw block keeps all of the head.
LEMMA RawWithRename ==
  ASSUME Renames
  PROVE  /\ UNCHANGED <<wal, head, acked, clobbered, horizon>>
         /\ Up /\ Up' /\ blocks \subseteq blocks'
         /\ pc' = "remove5m" => \A s \in HeadData : Safe("raw", s)'
         /\ pc' = "reset" => pc = "rename5m"
         /\ pc' \in {"idle", "remove5m", "reset"}
  <1>1. /\ UNCHANGED <<wal, head, acked, clobbered, horizon>>
        /\ Up /\ Up' /\ blocks \subseteq blocks'
        /\ pc' = "reset" => pc = "rename5m"
        /\ pc' \in {"idle", "remove5m", "reset"}
    BY DEF Renames, Rename, memVars, walVars, histVars, Up
  <1>2. ASSUME pc' = "remove5m", NEW s \in HeadData PROVE Safe("raw", s)'
    <2>1. PICK lo \in Time, hi \in Time, d \in Storable("raw") :
            blocks' = blocks \cup {NewBlock("raw", lo, hi, d)}
      BY <1>2 DEF Renames, Rename
    <2>2. NewBlock("raw", lo, hi, d).data = HeadData /\ NewBlock("raw", lo, hi, d).res = "raw"
      BY DEF NewBlock, Storable
    <2> QED BY <2>1, <2>2 DEF Safe, DataOf
  <1> QED BY <1>1, <1>2

LEMMA HeadInBlocksStep ==
  ASSUME StoreInv, [Next]_vars PROVE HeadInBlocks'
  <1> SUFFICES ASSUME pc' \in {"remove5m", "rename5m", "reset"}, NEW s \in HeadData'
               PROVE  Safe("raw", s)'
    BY DEF HeadInBlocks
  <1>0. "raw" \in Res BY DEF Res
  <1>1. ASSUME NEW t \in Time, CompactStart(t) PROVE Safe("raw", s)'
    <2>1. HeadData = {} /\ HeadData' = HeadData
      BY <1>1 DEF CompactStart, memVars, HeadData
    <2> QED BY <2>1
  <1>2. CASE RemovesOld
    <2>1. HeadData' = HeadData BY <1>2, RawWithoutOld DEF StoreInv, HeadData
    <2>2. pc = "remove5m" BY <1>2, RawWithoutOld DEF StoreInv
    <2> QED BY <1>2, <2>1, <2>2, RawWithoutOld DEF StoreInv, HeadInBlocks
  <1>3. CASE Renames
    <2>1. HeadData' = HeadData BY <1>3, RawWithRename DEF HeadData
    <2>2. Safe("raw", s) => Safe("raw", s)'
      BY <1>3, RawWithRename DEF Safe, Forgotten, DataOf
    <2> QED BY <1>3, <2>1, <2>2, RawWithRename DEF StoreInv, HeadInBlocks
  <1>4. CASE UNCHANGED vars
    <2>1. HeadData' = HeadData /\ pc' = pc BY <1>4 DEF vars, memVars, HeadData
    <2> QED BY <1>0, <1>4, <2>1, SafeKept, KeptType DEF vars, histVars, StoreInv, HeadInBlocks
  <1>5. CASE \/ \E l \in Lsets, t \in Time : AppendHead(l, t) \/ AppendRejected(l, t)
             \/ LogSeries \/ LogSamples
    BY <1>5 DEF AppendHead, AppendRejected, LogSeries, LogSamples
  <1>6. CASE Reset \/ TruncateStart \/ RemoveSegment \/ TruncateEnd \/ ApplyRetention
    BY <1>6 DEF Reset, TruncateStart, RemoveSegment, TruncateEnd, ApplyRetention
  <1>7. CASE Crash \/ Open \/ (\E r \in wal : ReplaySeries(r) \/ ReplaySamples(r)) \/ ReplayEnd
    BY <1>7 DEF Crash, Open, ReplaySeries, ReplaySamples, ReplayEnd
  <1> QED BY <1>1, <1>2, <1>3, <1>4, <1>5, <1>6, <1>7
         DEF Next, WriteRawBlock, WriteRollupBlock, RemovesOld, Renames

-----------------------------------------------------------------------------
(* Steps of TSDB as steps of Store *)

\* The samples Store speaks about are samples.
LEMMA RawSamples ==
  ASSUME TypeOK
  PROVE  StoredData \subseteq Samples /\ HeadData \cup DataOf("raw") \subseteq Samples
  <1>1. HeadData \subseteq Samples BY HeadDataType
  <1>2. DataOf("raw") \subseteq Samples BY DEF TypeOK, DataOf, Block
  <1>3. RecoverableData \subseteq Samples BY LoggedType DEF RecoverableData
  <1> QED BY <1>1, <1>2, <1>3 DEF StoredData

\* What a step of the running engine owes to be a Work step.
LEMMA IsWork ==
  ASSUME TypeOK, Up, Up', acked' = acked,
         \A s \in Samples : Forgotten("raw", s) => Forgotten("raw", s)',
         \A s \in Samples : s \in StoredData => s \in StoredData' \/ Forgotten("raw", s)',
         \A s \in Samples : s \in HeadData \cup DataOf("raw") =>
           s \in HeadData' \cup DataOf("raw")' \/ Forgotten("raw", s)'
  PROVE  Promise!Work
  <1>1. GivenUp \subseteq GivenUp' BY DEF GivenUp
  <1>2. StoredData \ GivenUp' \subseteq StoredData' BY RawSamples DEF GivenUp
  <1>3. Visible \ GivenUp' \subseteq Visible' BY RawSamples DEF GivenUp, Visible
  <1>4. Up' = Up BY DEF Up
  <1> QED BY <1>1, <1>2, <1>3, <1>4 DEF Promise!Work

\* It is enough to keep the blocks and to take nothing from head and log.
LEMMA IsQuietWork ==
  ASSUME TypeOK, Up, Up', UNCHANGED <<acked, blocks, clobbered, horizon>>,
         HeadData \subseteq HeadData', RecoverableData \subseteq RecoverableData'
  PROVE  Promise!Work
  <1>1. DataOf("raw")' = DataOf("raw") BY DEF DataOf
  <1>2. \A s : Forgotten("raw", s) => Forgotten("raw", s)' BY DEF Forgotten
  <1> QED BY <1>1, <1>2, IsWork DEF StoredData

LEMMA SameLog == ASSUME wal' = wal PROVE RecoverableData' = RecoverableData
  BY DEF RecoverableData, Recoverable, Reached, GivesRef

LEMMA AppendIsWork ==
  ASSUME TypeOK, NEW l \in Lsets, NEW t \in Time, AppendHead(l, t) PROVE Promise!Work
  <1>1. /\ Up /\ Up' /\ UNCHANGED <<wal, acked, blocks, clobbered, horizon>>
    BY DEF AppendHead, walVars, histVars, Up
  <1>2. PICK ref \in GetOrCreate(l) :
          head' = Register(ref, Appended(SeriesAt(ref, l), t, l))
    BY DEF AppendHead
  <1>3. \A r \in DOMAIN head : r \in DOMAIN head' /\ head[r].data \subseteq head'[r].data
    BY <1>2 DEF Register, Appended, SeriesAt
  <1>4. HeadData \subseteq HeadData' BY <1>3 DEF HeadData
  <1> QED BY <1>1, <1>4, SameLog, IsQuietWork

\* The record of a sample is in the log when Append answers, and the head has had it
\* since the call began.
LEMMA LogIsStep ==
  ASSUME WholeStep, SampleInv, RefInv', DataInv', LogSeries \/ LogSamples
  PROVE  Promise!Next
  <1>1. /\ Up /\ Up' /\ UNCHANGED <<head, blocks, clobbered, horizon>>
    BY DEF LogSeries, LogSamples, memVars, histVars, Up
  <1>2. TypeOK BY DEF SampleInv, RefInv
  <1>3. HeadData' = HeadData BY <1>1 DEF HeadData
  <1>4. CASE wal' = wal /\ acked' = acked
    <2>1. Promise!Work BY <1>1, <1>2, <1>3, <1>4, SameLog, IsQuietWork
    <2> QED BY <2>1 DEF Promise!Next
  <1>5. CASE WriteSucceeds("series") /\ acked' = acked
    <2>1. RecoverableData \subseteq RecoverableData'
      BY <1>5, WriteKeepsRecoverable DEF WriteSucceeds, SampleInv
    <2>2. Promise!Work BY <1>1, <1>2, <1>3, <1>5, <2>1, IsQuietWork
    <2> QED BY <2>2 DEF Promise!Next
  <1>6. ASSUME LogSamples, WriteSucceeds("samples"),
               NEW s, s = [lset |-> cur.lset, t |-> cur.t, v |-> cur.lset],
               acked' = acked \cup {s}
        PROVE  Promise!Next
    <2>1. s \in Samples BY <1>2, <1>6 DEF TypeOK, Append_, Samples
    <2>2. s \in HeadData
      BY <1>6 DEF LogSamples, SampleInv, RefInv, AppendInProgress, HeadData
    <2>3. StoredData \subseteq StoredData'
      BY <1>1, <1>6, WriteKeepsRecoverable
         DEF WriteSucceeds, SampleInv, StoredData, DataOf
    <2>4. \A r : Forgotten("raw", r)' <=> Forgotten("raw", r) BY <1>1 DEF Forgotten
    <2>5. Durable'
      BY KeptType DEF Durable, DataInv, AckedInv, LogInv, Safe, IsSamples
    <2>6. s \in StoredData' \/ Forgotten("raw", s)
      BY <1>6, <2>4, <2>5 DEF Durable, StoredData
    <2>7. Visible' = Visible /\ GivenUp' = GivenUp /\ Up' = Up
      BY <1>1, <1>3, <2>4 DEF Visible, GivenUp, DataOf, Up
    <2>8. s \in Visible /\ s \in StoredData' \cup GivenUp
      BY <1>1, <2>1, <2>2, <2>6 DEF Visible, GivenUp
    <2>9. Promise!Acknowledge(s)
      BY <1>1, <1>6, <2>3, <2>7, <2>8 DEF Promise!Acknowledge
    <2> QED BY <2>1, <2>9 DEF Promise!Next
  <1>7. CASE WriteFails /\ acked' = acked BY <1>2, <1>4, <1>7, WriteFailsRef
  <1> QED BY <1>5, <1>6, <1>7 DEF LogSeries, LogSamples, histVars

LEMMA RemoveIsWork == ASSUME SampleInv, RemovesOld PROVE Promise!Work
  <1>1. /\ UNCHANGED <<wal, head, acked>> /\ Up /\ Up'
        /\ \A s : Forgotten("raw", s) => Forgotten("raw", s)'
        /\ \A s : Safe("raw", s) => Safe("raw", s)' \/ s \in HeadData \cap RecoverableData
    BY RawWithoutOld
  <1>2. HeadData' = HeadData /\ RecoverableData' = RecoverableData
    BY <1>1, SameLog DEF HeadData
  <1>3. \A s : s \in DataOf("raw") =>
          \/ s \in DataOf("raw")' \/ Forgotten("raw", s)'
          \/ s \in HeadData' \cap RecoverableData'
    BY <1>1, <1>2 DEF Safe
  <1> QED BY <1>1, <1>2, <1>3, IsWork DEF StoredData, SampleInv, RefInv

LEMMA RenameIsWork == ASSUME SampleInv, Renames PROVE Promise!Work
  <1>1. /\ UNCHANGED <<wal, head, acked, clobbered, horizon>>
        /\ Up /\ Up' /\ blocks \subseteq blocks'
    BY RawWithRename
  <1>2. HeadData' = HeadData /\ RecoverableData' = RecoverableData
    BY <1>1, SameLog DEF HeadData
  <1>3. DataOf("raw") \subseteq DataOf("raw")' BY <1>1 DEF DataOf
  <1>4. \A s : Forgotten("raw", s) => Forgotten("raw", s)' BY <1>1 DEF Forgotten
  <1> QED BY <1>1, <1>2, <1>3, <1>4, IsWork DEF StoredData, SampleInv, RefInv

\* The head and the log go when the blocks have what they hold.
LEMMA TruncateIsWork ==
  ASSUME StoreInv, Reset \/ TruncateStart \/ RemoveSegment \/ TruncateEnd
  PROVE  Promise!Work
  <1>1. /\ pc \in {"reset", "truncate", "removing"} /\ Up /\ Up'
        /\ wal' \subseteq wal /\ UNCHANGED <<acked, blocks, clobbered, horizon>>
    BY DEF Reset, TruncateStart, RemoveSegment, TruncateEnd, walVars, histVars, Up
  <1>2. "raw" \in Kept BY KeptType
  <1>3. DataOf("raw")' = DataOf("raw") /\ \A s : Forgotten("raw", s) => Forgotten("raw", s)'
    BY <1>1 DEF DataOf, Forgotten
  <1>4. \A s \in RecoverableData : Safe("raw", s)
    BY <1>1, <1>2 DEF RecoverableData, Recoverable, StoreInv, SampleInv, DataInv,
       CompactedInv, Compacted, IsSamples
  <1>5. \A s \in HeadData : Safe("raw", s)
    <2>1. CASE pc = "reset" BY <2>1 DEF StoreInv, HeadInBlocks
    <2>2. CASE pc # "reset"
      BY <1>1, <2>2 DEF StoreInv, SampleInv, RefInv, ResetInv, HeadData
    <2> QED BY <2>1, <2>2
  <1> QED BY <1>1, <1>3, <1>4, <1>5, IsWork
         DEF Safe, StoredData, StoreInv, SampleInv, RefInv

LEMMA RetentionIsWork == ASSUME SampleInv, ApplyRetention PROVE Promise!Work
  <1>1. UNCHANGED <<wal, head, acked>> /\ Up /\ Up'
    BY DEF ApplyRetention, memVars, walVars, Up
  <1>2. HeadData' = HeadData /\ RecoverableData' = RecoverableData
    BY <1>1, SameLog DEF HeadData
  <1>3. \A s \in Samples : /\ Forgotten("raw", s) => Forgotten("raw", s)'
                           /\ Safe("raw", s) => Safe("raw", s)'
    BY RetentionSafe DEF Res, SampleInv, RefInv
  <1>4. \A s \in Samples : s \in DataOf("raw") => s \in DataOf("raw")' \/ Forgotten("raw", s)'
    BY <1>3 DEF Safe
  <1> QED BY <1>1, <1>2, <1>3, <1>4, IsWork DEF StoredData, SampleInv, RefInv

\* What Store speaks about does not change: a stutter.
LEMMA IsStutter ==
  ASSUME ~Up, ~Up', UNCHANGED <<wal, blocks, acked, clobbered, horizon>>
  PROVE  UNCHANGED Promise!storeVars
  <1>1. StoredData' = StoredData BY SameLog DEF StoredData, DataOf
  <1>2. GivenUp' = GivenUp BY DEF GivenUp, Forgotten
  <1>3. Visible' = Visible /\ Up' = Up BY DEF Visible, Up
  <1> QED BY <1>1, <1>2, <1>3 DEF Promise!storeVars

LEMMA CrashIsStep ==
  ASSUME WholeStep, TypeOK, Crash PROVE [Promise!Next]_(Promise!storeVars)
  <1>1. ~Up' /\ UNCHANGED <<wal, acked, blocks, clobbered, horizon>>
    BY NoDamage DEF Crash, histVars, Up
  <1>2. CASE Up
    <2>1. StoredData' = StoredData BY <1>1, SameLog DEF StoredData, DataOf
    <2>2. GivenUp' = GivenUp BY <1>1 DEF GivenUp, Forgotten
    <2>3. Visible' = {} /\ Up' = FALSE BY <1>1 DEF Visible, Up
    <2>4. Promise!Kill BY <1>1, <1>2, <2>1, <2>2, <2>3 DEF Promise!Kill
    <2> QED BY <2>4 DEF Promise!Next
  <1>3. CASE ~Up BY <1>1, <1>3, IsStutter
  <1> QED BY <1>2, <1>3

LEMMA ReplayEndIsRecover == ASSUME SampleInv, ReplayEnd PROVE Promise!Recover
  <1>1. /\ pc = "replay" /\ pc' = "idle"
        /\ UNCHANGED <<head, wal, acked, blocks, clobbered, horizon>>
    BY DEF ReplayEnd, histVars
  <1>2. \A q \in wal : q.place <= pos
    BY DEF ReplayEnd, Reached, SampleInv, RefInv, TypeOK, Record, NoTorn
  <1>3. RecoverableData \subseteq HeadData
    BY <1>1, <1>2 DEF RecoverableData, SampleInv, DataInv, ReplayInv
  <1>4. HeadData' = HeadData /\ DataOf("raw")' = DataOf("raw")
    BY <1>1 DEF HeadData, DataOf
  <1>5. ~Up /\ Up' = TRUE BY <1>1 DEF Up
  <1>6. StoredData \subseteq Visible' BY <1>3, <1>4, <1>5 DEF StoredData, Visible
  <1>7. StoredData' = StoredData BY <1>1, SameLog DEF StoredData, DataOf
  <1>8. GivenUp' = GivenUp BY <1>1 DEF GivenUp, Forgotten
  <1> QED BY <1>1, <1>5, <1>6, <1>7, <1>8 DEF Promise!Recover

-----------------------------------------------------------------------------
LEMMA StoreStep ==
  ASSUME WholeStep, StoreInv, RefInv', DataInv', [Next]_vars
  PROVE  [Promise!Next]_(Promise!storeVars)
  <1>0. SampleInv /\ TypeOK BY DEF StoreInv, SampleInv, RefInv
  <1>1. ASSUME NEW l \in Lsets, NEW t \in Time, AppendHead(l, t) PROVE Promise!Next
    BY <1>0, <1>1, AppendIsWork DEF Promise!Next
  <1>2. ASSUME UNCHANGED <<head, wal, acked, blocks, clobbered, horizon>>, Up, Up'
        PROVE  Promise!Next
    <2>1. HeadData' = HeadData BY <1>2 DEF HeadData
    <2>2. Promise!Work BY <1>0, <1>2, <2>1, SameLog, IsQuietWork
    <2> QED BY <2>2 DEF Promise!Next
  <1>3. ASSUME NEW l \in Lsets, NEW t \in Time, AppendRejected(l, t) PROVE Promise!Next
    BY <1>2, <1>3 DEF AppendRejected, memVars, walVars, histVars, Up
  <1>4. CASE LogSeries \/ LogSamples BY <1>0, <1>4, LogIsStep
  <1>5. ASSUME NEW t \in Time, CompactStart(t) PROVE Promise!Next
    BY <1>2, <1>5 DEF CompactStart, memVars, walVars, histVars, Up
  <1>6. CASE RemovesOld BY <1>0, <1>6, RemoveIsWork DEF Promise!Next
  <1>7. CASE Renames BY <1>0, <1>7, RenameIsWork DEF Promise!Next
  <1>8. CASE Reset \/ TruncateStart \/ RemoveSegment \/ TruncateEnd
    BY <1>8, TruncateIsWork DEF Promise!Next
  <1>9. CASE ApplyRetention BY <1>0, <1>9, RetentionIsWork DEF Promise!Next
  <1>10. CASE Crash BY <1>0, <1>10, CrashIsStep
  <1>11. CASE Open \/ \E r \in wal : ReplaySeries(r) \/ ReplaySamples(r)
    <2>1. ~Up /\ ~Up' /\ UNCHANGED <<wal, blocks, acked, clobbered, horizon>>
      BY <1>11 DEF Open, ReplaySeries, ReplaySamples, walVars, histVars, Up
    <2> QED BY <2>1, IsStutter
  <1>12. CASE ReplayEnd BY <1>0, <1>12, ReplayEndIsRecover DEF Promise!Next
  <1>13. CASE UNCHANGED vars
    <2>1. /\ UNCHANGED <<head, wal, acked, blocks, clobbered, horizon, pc>>
      BY <1>13 DEF vars, memVars, walVars, histVars
    <2>2. CASE Up BY <1>2, <2>1, <2>2 DEF Up
    <2>3. CASE ~Up BY <2>1, <2>3, IsStutter DEF Up
    <2> QED BY <2>2, <2>3
  <1> QED BY <1>1, <1>3, <1>4, <1>5, <1>6, <1>7, <1>8, <1>9, <1>10, <1>11, <1>12,
             <1>13 DEF Next, WriteRawBlock, WriteRollupBlock, RemovesOld, Renames

LEMMA StoreInit == Init => Promise!Init /\ HeadInBlocks
  <1> SUFFICES ASSUME Init PROVE Promise!Init /\ HeadInBlocks OBVIOUS
  <1>1. /\ pc = "idle" /\ DOMAIN head = {} /\ wal = {} /\ blocks = {} /\ acked = {}
        /\ clobbered["raw"] = {} /\ horizon["raw"] = 0
    BY DEF Init, EmptyHead, Res
  <1>2. HeadData = {} /\ DataOf("raw") = {} /\ RecoverableData = {}
    BY <1>1 DEF HeadData, DataOf, RecoverableData
  <1>3. \A s \in Samples : s.t \in Nat BY DEF Samples, Time
  <1>4. GivenUp = {} BY <1>1, <1>3 DEF GivenUp, Forgotten, StoredAt
  <1>5. Up = TRUE BY <1>1 DEF Up
  <1> QED BY <1>1, <1>2, <1>4, <1>5
         DEF Promise!Init, StoredData, Visible, HeadInBlocks

\* If no write is cut short, no segment stays behind and the clock does not step back,
\* the write path implements Store: through any kills and failed writes, rotations,
\* truncations, block steps and removals, no step takes a sample from a restart, or from
\* the head and the raw blocks, before retention may.
THEOREM WritePathImplementsStore ==
  ASSUME WholeWrites, MonotoneClock PROVE Spec => ImplementsStore
  <1>1. Init => Promise!Init /\ HeadInBlocks BY StoreInit
  <1>2. Spec => []FullInv BY DataInvariant
  <1>3. FullInv /\ HeadInBlocks /\ [Next]_vars => HeadInBlocks'
    BY HeadInBlocksStep, FullImpliesSample DEF StoreInv
  <1>4. FullInv /\ FullInv' /\ HeadInBlocks /\ [Next]_vars => [Promise!Next]_(Promise!storeVars)
    BY StoreStep, FullImpliesSample DEF StoreInv, WholeStep, FullInv
  <1> QED BY <1>1, <1>2, <1>3, <1>4, PTL DEF Spec, ImplementsStore, Promise!Spec

\* Nor does a clock that steps back break the promise while no step fails: then the
\* chunks of a series are cut in a replay where the appends cut them. (The promise is that
\* head and blocks hold the sample; a query may skip it after such a step.)
THEOREM UndamagedImplementsStore ==
  ASSUME MaxFaults = 0 PROVE Spec => ImplementsStore
  <1> DEFINE Inv0 == TypeOK /\ NotLater /\ Undamaged /\ faults = 0 /\ HeadInBlocks
  <1>1. Init => Inv0 /\ Promise!Init
    BY HeldInit, CountInit, StoreInit DEF HeldInv, Init
  <1>2. Inv0 => StoreInv
    BY CountAccepting DEF Undamaged, StoreInv, SampleInv
  <1>3. Inv0 /\ [Next]_vars => Inv0'
    <2> SUFFICES ASSUME Inv0, [Next]_vars PROVE Inv0' OBVIOUS
    <2>1. TypeOK' /\ NotLater' /\ Undamaged' BY UndamagedStep
    <2>2. HeadInBlocks' BY <1>2, HeadInBlocksStep
    <2>3. faults' = 0
      <3>1. ~\E kind \in FaultKinds : Fault(kind) BY DEF Fault
      <3>2. faults' = faults \/ \E kind \in FaultKinds : Fault(kind)
        BY DEF Next, AppendHead, AppendRejected, LogSeries, LogSamples, WriteSucceeds,
               WriteFails, CompactStart, WriteRawBlock, WriteRollupBlock, RemoveOld,
               Rename, Reset, TruncateStart, RemoveSegment, TruncateEnd, ApplyRetention,
               Crash, Open, ReplaySeries, ReplaySamples, ReplayEnd, vars, FaultKinds
      <3> QED BY <3>1, <3>2
    <2> QED BY <2>1, <2>2, <2>3
  <1>4. Inv0 /\ Inv0' /\ [Next]_vars => [Promise!Next]_(Promise!storeVars)
    BY <1>2, StoreStep DEF WholeStep, Undamaged
  <1> QED BY <1>1, <1>3, <1>4, PTL DEF Spec, ImplementsStore, Promise!Spec

=============================================================================
