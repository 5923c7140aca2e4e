--------------------------- MODULE TSDBRef_proofs ---------------------------
(***************************************************************************)
(* Type correctness of TSDB, for every value of its constants, and what a  *)
(* ref means: RefInv is inductive, and with it LabelFidelity and           *)
(* KnownRefsLogged hold.                                                   *)
(***************************************************************************)
EXTENDS TSDBInv, TLAPS

-----------------------------------------------------------------------------
(* Types.                                                                   *)

LEMMA BucketStartType == ASSUME NEW t \in Time PROVE BucketStart(t) \in Time
  <1>1. t \div RollupInterval \in Nat /\ (t \div RollupInterval) * RollupInterval <= t
    BY ConstantsAssumption DEF Time
  <1> QED BY <1>1, ConstantsAssumption DEF Time, BucketStart

LEMMA StoredAtType == ASSUME NEW res \in Res, NEW t \in Time PROVE StoredAt(res, t) \in Time
  BY BucketStartType DEF StoredAt

\* What memSeries.append makes of a series is a series.
LEMMA AppendedType ==
  ASSUME NEW s \in Series, NEW t \in Time, NEW v \in Lsets
  PROVE  Appended(s, t, v) \in Series
  BY DEF Appended, Series, Samples

LEMMA NewSeriesType == ASSUME NEW l \in Lsets PROVE NewSeries(l) \in Series
  BY ConstantsAssumption DEF NewSeries, Series, Time

LEMMA HeadDataType == TypeOK => HeadData \subseteq Samples
  BY DEF TypeOK, HeadData, Series

LEMMA LogRecordType ==
  ASSUME TypeOK, NEW kind \in {"series", "samples", "torn"}
  PROVE  /\ LogRecord(kind) \in Record
         /\ WriteSeg \in Nat
  BY DEF TypeOK, LogRecord, WriteSeg, Record, Append_

LEMMA NewBlockType ==
  ASSUME TypeOK, NEW res \in Res, NEW lo \in Time, NEW hi \in Time,
         NEW d \in Storable(res)
  PROVE  d \subseteq HeadData /\ NewBlock(res, lo, hi, d) \in Block
  <1>1. d \subseteq HeadData BY DEF Storable
  <1> QED BY <1>1, HeadDataType, StoredAtType DEF NewBlock, Block

\* The parts of TypeOK about the head, about the log and about the rest.
LEMMA RegisterType ==
  ASSUME TypeOK, NEW ref \in Ref, NEW s \in Series, head' = Register(ref, s)
  PROVE  DOMAIN head' \subseteq Ref /\ \A r \in DOMAIN head' : head'[r] \in Series
  BY DEF TypeOK, Register

LEMMA SeriesAtType ==
  ASSUME TypeOK, NEW l \in Lsets, NEW ref \in GetOrCreate(l)
  PROVE  ref \in Ref /\ SeriesAt(ref, l) \in Series
  <1>1. ref \in Ref BY DEF TypeOK, GetOrCreate, Ref
  <1> QED BY <1>1, NewSeriesType DEF TypeOK, SeriesAt

LEMMA EmptyHeadType ==
  head' = EmptyHead => DOMAIN head' \subseteq Ref /\ \A r \in DOMAIN head' : head'[r] \in Series
  BY DEF EmptyHead

LEMMA WriteType ==
  ASSUME TypeOK, NEW kind \in {"series", "samples", "torn"}, Write(kind)
  PROVE  /\ wal' \subseteq Record /\ end' \in Nat /\ segIdx' \in Nat
         /\ walFile' = walFile /\ todo' = todo
  BY LogRecordType DEF TypeOK, Write

LEMMA WriteFailsType ==
  ASSUME TypeOK, WriteFails
  PROVE  /\ wal' \subseteq Record /\ end' \in Nat /\ segIdx' \in Nat
         /\ walFile' \in {"open", "closed", "nil"} /\ todo' \subseteq Nat
         /\ faults' \in Nat
  <1>1. CASE UNCHANGED <<walVars, faults>> BY <1>1 DEF TypeOK, walVars
  <1>2. CASE Fault("write") /\ UNCHANGED walVars BY <1>2 DEF TypeOK, Fault, walVars
  <1>3. CASE Fault("tear") /\ Write("torn")
    <2>1. /\ wal' \subseteq Record /\ end' \in Nat /\ segIdx' \in Nat
          /\ walFile' = walFile /\ todo' = todo
      BY <1>3, WriteType
    <2>2. faults' \in Nat BY <1>3 DEF TypeOK, Fault
    <2> QED BY <2>1, <2>2 DEF TypeOK
  <1>4. CASE Fault("rotate") /\ walFile' = "closed" /\ UNCHANGED <<wal, end, segIdx, todo>>
    BY <1>4 DEF TypeOK, Fault
  <1> QED BY <1>1, <1>2, <1>3, <1>4 DEF WriteFails

LEMMA WriteSucceedsType ==
  ASSUME TypeOK, NEW kind \in {"series", "samples"}, WriteSucceeds(kind)
  PROVE  /\ wal' \subseteq Record /\ end' \in Nat /\ segIdx' \in Nat
         /\ walFile' \in {"open", "closed", "nil"} /\ todo' \subseteq Nat
         /\ faults' \in Nat
  BY WriteType DEF TypeOK, WriteSucceeds

\* Every step keeps the types.
LEMMA TypeStep == TypeOK /\ [Next]_vars => TypeOK'
  <1> SUFFICES ASSUME TypeOK, [Next]_vars PROVE TypeOK' OBVIOUS
  <1>1. ASSUME NEW l \in Lsets, NEW t \in Time, AppendHead(l, t) PROVE TypeOK'
    <2>1. PICK ref \in GetOrCreate(l) :
            /\ head' = Register(ref, Appended(SeriesAt(ref, l), t, l))
            /\ lastRef' = IF ref \in DOMAIN head THEN lastRef ELSE ref
            /\ cur' = [ref |-> ref, lset |-> l, t |-> t]
            /\ pc' = IF ref \in knownRefs THEN "logSamples" ELSE "logSeries"
      BY <1>1 DEF AppendHead
    <2>2. ref \in Ref /\ Appended(SeriesAt(ref, l), t, l) \in Series
      BY SeriesAtType, AppendedType
    <2>3. DOMAIN head' \subseteq Ref /\ \A r \in DOMAIN head' : head'[r] \in Series
      BY <2>1, <2>2, RegisterType
    <2>4. lastRef' \in Nat /\ cur' \in Append_ /\ pc' \in PCs
      BY <2>1, <2>2 DEF TypeOK, Append_, PCs, Ref
    <2> QED BY <1>1, <2>3, <2>4
          DEF AppendHead, ReadClock, TypeOK, walVars, histVars
  <1>2. ASSUME NEW l \in Lsets, NEW t \in Time, AppendRejected(l, t) PROVE TypeOK'
    BY <1>2 DEF AppendRejected, ReadClock, TypeOK, memVars, walVars, histVars
  <1>3. CASE LogSeries
    <2>1. knownRefs' \subseteq Ref /\ pc' \in PCs
      BY <1>3 DEF LogSeries, TypeOK, PCs, Append_
    <2>2. CASE WriteSucceeds("series")
      BY <1>3, <2>1, <2>2, WriteSucceedsType DEF LogSeries, TypeOK, histVars
    <2>3. CASE WriteFails
      BY <1>3, <2>1, <2>3, WriteFailsType DEF LogSeries, TypeOK, histVars
    <2> QED BY <1>3, <2>2, <2>3 DEF LogSeries
  <1>4. CASE LogSamples
    <2>1. acked' \subseteq Samples /\ pc' \in PCs
      BY <1>4 DEF LogSamples, TypeOK, PCs, Append_, Samples
    <2>2. CASE WriteSucceeds("samples")
      BY <1>4, <2>1, <2>2, WriteSucceedsType DEF LogSamples, TypeOK, memVars
    <2>3. CASE WriteFails
      BY <1>4, <2>1, <2>3, WriteFailsType DEF LogSamples, TypeOK, memVars
    <2> QED BY <1>4, <2>2, <2>3 DEF LogSamples
  <1>5. ASSUME NEW t \in Time, CompactStart(t) PROVE TypeOK'
    BY <1>5 DEF CompactStart, ReadClock, Fault, TypeOK, PCs, memVars, walVars, histVars
  <1>6. ASSUME NEW res \in Res, NEW at, NEW next \in PCs, RemoveOld(res, at, next)
        PROVE  TypeOK'
    <2>1. blocks' \subseteq Block BY <1>6 DEF RemoveOld, TypeOK
    <2>2. ASSUME NEW old \in SUBSET blocks PROVE LostWith(old) \subseteq Samples
      BY DEF LostWith, TypeOK, Block
    <2>3. \A lo, hi : Namesakes(res, lo, hi) \subseteq blocks BY DEF Namesakes
    <2>4. \/ clobbered' = clobbered
          \/ \E old \in SUBSET blocks :
               clobbered' = [clobbered EXCEPT ![res] = @ \cup LostWith(old)]
      BY <1>6, <2>3 DEF RemoveOld
    <2>5. clobbered' \in [Res -> SUBSET Samples] BY <2>2, <2>4 DEF TypeOK
    <2> QED BY <1>6, <2>1, <2>5 DEF RemoveOld, Fault, TypeOK, PCs, memVars, walVars
  <1>7. ASSUME NEW res \in Res, NEW at, NEW next \in PCs, Rename(res, at, next)
        PROVE  TypeOK'
    <2>1. blocks' \subseteq Block
      BY <1>7, NewBlockType DEF Rename, TypeOK
    <2> QED BY <1>7, <2>1 DEF Rename, Fault, TypeOK, PCs, memVars, walVars, histVars
  <1>8. CASE Reset
    BY <1>8, EmptyHeadType
       DEF Reset, KnownRefsAfterReset, TypeOK, PCs, walVars, histVars
  <1>9. CASE TruncateStart
    <2>1. todo' \subseteq Nat
      <3>1. \A r \in wal : r.seg \in Nat BY DEF TypeOK, Record
      <3>2. todo' = {r.seg : r \in wal} \/ todo' = todo
        BY <1>9 DEF TruncateStart
      <3>3. todo \subseteq Nat BY DEF TypeOK
      <3> QED BY <3>1, <3>2, <3>3
    <2>2. walFile' \in {"open", "closed", "nil"} BY <1>9 DEF TruncateStart, TypeOK
    <2> QED BY <1>9, <2>1, <2>2 DEF TruncateStart, Fault, TypeOK, PCs, memVars, histVars
  <1>10. CASE RemoveSegment
    BY <1>10 DEF RemoveSegment, Fault, TypeOK, memVars, histVars
  <1>11. CASE TruncateEnd
    BY <1>11 DEF TruncateEnd, Fault, TypeOK, PCs, memVars, histVars
  <1>12. CASE ApplyRetention
    <2>1. blocks' \subseteq Block BY <1>12 DEF ApplyRetention, TypeOK
    <2>2. horizon' \in [Res -> Time]
      <3>1. \A res \in Res : Retention(res) \in Nat
        BY ConstantsAssumption DEF Retention
      <3>2. \A res \in Res : HorizonAfter(res) \in Time
        BY <3>1, ConstantsAssumption DEF HorizonAfter, TypeOK, Time
      <3> QED BY <1>12, <3>2 DEF ApplyRetention
    <2>3. faults' \in Nat BY <1>12 DEF ApplyRetention, Fault, TypeOK
    <2> QED BY <1>12, <2>1, <2>2, <2>3
          DEF ApplyRetention, TypeOK, PCs, memVars, walVars
  <1>13. CASE Crash
    <2>1. wal' \subseteq Record /\ end' \in Nat /\ segIdx' \in Nat /\ faults' \in Nat
      BY <1>13, LogRecordType DEF Crash, Fault, TypeOK
    <2> QED BY <1>13, <2>1, EmptyHeadType DEF Crash, TypeOK, PCs, histVars
  <1>14. CASE Open
    BY <1>14 DEF Open, TypeOK, PCs, memVars, walVars, histVars
  <1>15. ASSUME NEW r \in wal, ReplaySeries(r) PROVE TypeOK'
    <2>1. r.ref \in Ref /\ NewSeries(r.lset) \in Series /\ r.place \in Nat
      BY NewSeriesType DEF TypeOK, Record
    <2>2. DOMAIN head' \subseteq Ref /\ \A q \in DOMAIN head' : head'[q] \in Series
      BY <1>15, <2>1, RegisterType DEF ReplaySeries, TypeOK
    <2>3. lastRef' \in Nat
      BY <1>15, <2>1 DEF ReplaySeries, LastRefAfter, TypeOK, Ref
    <2> QED BY <1>15, <2>1, <2>2, <2>3 DEF ReplaySeries, TypeOK, walVars, histVars
  <1>16. ASSUME NEW r \in wal, ReplaySamples(r) PROVE TypeOK'
    <2>1. r.ref \in Ref /\ r.place \in Nat /\ r.t \in Time /\ r.lset \in Lsets
      BY DEF TypeOK, Record
    <2>2. DOMAIN head' \subseteq Ref /\ \A q \in DOMAIN head' : head'[q] \in Series
      BY <1>16, <2>1, RegisterType, AppendedType DEF ReplaySamples, TypeOK
    <2> QED BY <1>16, <2>1, <2>2 DEF ReplaySamples, TypeOK, walVars, histVars
  <1>17. CASE ReplayEnd
    BY <1>17 DEF ReplayEnd, TypeOK, PCs, histVars
  <1>18. CASE UNCHANGED vars
    BY <1>18 DEF vars, memVars, walVars, histVars, TypeOK
  <1> QED BY <1>1, <1>2, <1>3, <1>4, <1>5, <1>6, <1>7, <1>8, <1>9, <1>10, <1>11,
             <1>12, <1>13, <1>14, <1>15, <1>16, <1>17, <1>18
          DEF Next, WriteRawBlock, WriteRollupBlock, PCs, Res

LEMMA TypeInit == Init => TypeOK
  BY ConstantsAssumption
     DEF Init, TypeOK, EmptyHead, PCs, Append_, Ref, Time

\* The state of the storage engine has its type in every reachable state.
THEOREM TypeCorrect == Spec => []TypeOK
  BY TypeInit, TypeStep, PTL DEF Spec

-----------------------------------------------------------------------------
(* What a ref means.                                                        *)

LEMMA RefInit == Init => RefInv
  <1> SUFFICES ASSUME Init PROVE RefInv OBVIOUS
  <1>1. TypeOK BY TypeInit
  <1>2. DOMAIN head = {} /\ wal = {} /\ knownRefs = {} /\ blocks = {}
    BY DEF Init, EmptyHead
  <1> QED BY <1>1, <1>2 DEF Init, RefInv, NoTorn, PlacesUnique, LogCoherent,
       HeadRefs, HeadFaithful, BlocksFaithful, HeadAgreesWithLog, KnownRefsInv,
       AppendInProgress, ReplayRefs, DownInv, DownHead, ResetInv, RemovingInv, Up

\* A step that tears no record and leaves no segment that should go: these faults do
\* not occur, or none does in this step.
WholeStep == WholeWrites \/ faults' = faults

LEMMA NoDamage ==
  ASSUME WholeStep, TypeOK, NEW kind \in {"tear", "cut", "remove"}
  PROVE  ~Fault(kind)
  BY DEF WholeStep, WholeWrites, Fault, TypeOK

\* A write, failed or not, leaves a log in which the record of the append in
\* progress is the last one.
LEMMA WriteFailsRef ==
  ASSUME WholeStep, TypeOK, WriteFails
  PROVE  /\ UNCHANGED <<wal, end, segIdx, todo>>
         /\ walFile' = walFile \/ walFile' = "closed"
  BY NoDamage DEF WriteFails, walVars

\* The parts of RefInv about the log alone.
LogParts == NoTorn /\ PlacesUnique /\ LogCoherent

LEMMA LoggedRecord ==
  ASSUME RefInv, Current, pc \in {"logSeries", "logSamples"},
         NEW kind \in {"series", "samples"}, Write(kind)
  PROVE  LogParts'
  <1> DEFINE n == LogRecord(kind)
  <1>1. n.place = end + 1 /\ n.ref = cur.ref /\ n.lset = cur.lset /\ n.kind = kind
    BY DEF LogRecord
  <1>2. wal' = wal \cup {n} /\ end' = end + 1 BY DEF Write
  <1>3. end \in Nat /\ \A r \in wal : r.place \in Nat BY DEF RefInv, TypeOK, Record
  <1>4. \A r \in wal : 0 < r.place /\ r.place <= end BY DEF RefInv, PlacesUnique
  <1>5. NoTorn' BY <1>1, <1>2 DEF RefInv, NoTorn
  <1>6. PlacesUnique' BY <1>1, <1>2, <1>3, <1>4 DEF RefInv, PlacesUnique
  <1>7. \A q \in wal : IsSeries(q) /\ q.ref = cur.ref => q.lset = cur.lset
    BY DEF RefInv, HeadAgreesWithLog, AppendInProgress
  <1>8. LogCoherent'
    <2> SUFFICES ASSUME NEW q \in wal', NEW r \in wal', IsSeries(q), q.ref = r.ref,
                        q.place < r.place
                 PROVE  q.lset = r.lset
      BY DEF LogCoherent, IsSeries
    <2>1. CASE r = n
      <3>1. q \in wal BY <1>1, <1>2, <1>3, <2>1
      <3> QED BY <1>1, <1>7, <2>1, <3>1
    <2>2. CASE r \in wal
      <3>1. q \in wal BY <1>1, <1>2, <1>3, <1>4, <2>2
      <3> QED BY <2>2, <3>1 DEF RefInv, LogCoherent
    <2> QED BY <1>2, <2>1, <2>2
  <1> QED BY <1>5, <1>6, <1>8 DEF LogParts

\* The steps between two calls, and those of WriteBlock and ApplyRetention: only
\* the blocks change.
LEMMA QuietRef ==
  ASSUME RefInv, TypeOK', BlocksFaithful',
         UNCHANGED <<memVars, walVars, pos>>,
         Up, pc \notin {"truncate", "removing"},
         Up', pc' \notin {"truncate", "removing", "logSeries", "logSamples"}
  PROVE  RefInv'
  <1>1. Current' <=> Current BY DEF Current, walVars
  <1>2. NoTorn' /\ PlacesUnique' /\ LogCoherent'
    BY DEF RefInv, NoTorn, PlacesUnique, LogCoherent, IsSeries, walVars
  <1>3. HeadRefs' /\ HeadFaithful' BY DEF RefInv, HeadRefs, HeadFaithful, memVars
  <1>4. HeadAgreesWithLog' /\ KnownRefsInv'
    BY <1>1 DEF RefInv, HeadAgreesWithLog, KnownRefsInv, IsSeries, memVars, walVars
  <1>5. AppendInProgress' /\ ReplayRefs' /\ DownInv' /\ DownHead' /\ ResetInv'
    BY DEF AppendInProgress, ReplayRefs, DownInv, DownHead, ResetInv, Up
  <1>6. RemovingInv' BY DEF RefInv, RemovingInv, Up, memVars, walVars
  <1> QED BY <1>2, <1>3, <1>4, <1>5, <1>6 DEF RefInv

LEMMA RefAppendHead ==
  ASSUME RefInv, TypeOK', NEW l \in Lsets, NEW t \in Time, AppendHead(l, t)
  PROVE  RefInv'
  <1>1. PICK ref \in GetOrCreate(l) :
          /\ head' = Register(ref, Appended(SeriesAt(ref, l), t, l))
          /\ lastRef' = IF ref \in DOMAIN head THEN lastRef ELSE ref
          /\ cur' = [ref |-> ref, lset |-> l, t |-> t]
          /\ pc' = IF ref \in knownRefs THEN "logSamples" ELSE "logSeries"
    BY DEF AppendHead
  <1>2. pc = "idle" /\ UNCHANGED <<knownRefs, walVars, pos, blocks>> BY DEF AppendHead
  <1>3. ref \in Nat /\ lastRef \in Nat /\ \A r \in DOMAIN head : r \in Nat
    BY SeriesAtType DEF RefInv, TypeOK, Ref
  <1>4. \/ ref \in DOMAIN head /\ head[ref].lset = l
        \/ ref \notin DOMAIN head /\ ref = lastRef + 1
    BY <1>3 DEF GetOrCreate, RefInv, HeadRefs
  <1>5. SeriesAt(ref, l).lset = l
    BY <1>4 DEF SeriesAt, NewSeries
  <1>6. /\ DOMAIN head' = DOMAIN head \cup {ref}
        /\ \A r \in DOMAIN head : r # ref => head'[r] = head[r]
        /\ head'[ref].lset = l
        /\ head'[ref].data = SeriesAt(ref, l).data
                              \cup {[lset |-> l, t |-> t, v |-> l]}
    BY <1>1, <1>5 DEF Register, Appended
  <1>7. \A s \in SeriesAt(ref, l).data : s.lset = l /\ s.v = s.lset
    BY <1>4 DEF SeriesAt, NewSeries, RefInv, HeadFaithful
  <1>8. HeadFaithful'
    BY <1>6, <1>7 DEF HeadFaithful, RefInv
  <1>9. HeadRefs' BY <1>1, <1>3, <1>4, <1>6 DEF HeadRefs, RefInv
  <1>10. Current' <=> Current BY <1>1, <1>2 DEF Current, Up, walVars
  <1>11. HeadAgreesWithLog'
    <2> SUFFICES ASSUME Current, NEW q \in wal, IsSeries(q)
                 PROVE  q.ref <= lastRef' /\ (q.ref \in DOMAIN head' => head'[q.ref].lset = q.lset)
      BY <1>2, <1>10 DEF HeadAgreesWithLog, walVars, IsSeries
    <2>1. q.ref <= lastRef /\ (q.ref \in DOMAIN head => head[q.ref].lset = q.lset)
      BY DEF RefInv, HeadAgreesWithLog
    <2>2. q.ref \in Nat BY DEF RefInv, TypeOK, Record, Ref
    <2>3. q.ref <= lastRef' BY <1>1, <1>3, <1>4, <2>1, <2>2
    <2> QED BY <1>3, <1>4, <1>6, <2>1, <2>2, <2>3
  <1>12. KnownRefsInv'
    BY <1>2, <1>10 DEF RefInv, KnownRefsInv, IsSeries, walVars
  <1>13. AppendInProgress' BY <1>1, <1>2, <1>6 DEF AppendInProgress
  <1>14. NoTorn' /\ PlacesUnique' /\ LogCoherent' /\ BlocksFaithful'
    BY <1>2 DEF RefInv, NoTorn, PlacesUnique, LogCoherent, IsSeries, walVars, BlocksFaithful
  <1>15. ReplayRefs' /\ DownInv' /\ DownHead' /\ ResetInv' /\ RemovingInv'
    BY <1>1, <1>2
       DEF RefInv, ReplayRefs, DownInv, DownHead, ResetInv, RemovingInv, Up, walVars
  <1> QED BY <1>8, <1>9, <1>11, <1>12, <1>13, <1>14, <1>15 DEF RefInv

LEMMA RefLogSeries == ASSUME WholeStep, RefInv, TypeOK', LogSeries PROVE RefInv'
  <1>1. pc = "logSeries" /\ UNCHANGED <<head, lastRef, cur, pos, blocks>>
    BY DEF LogSeries
  <1>2. HeadRefs' /\ HeadFaithful' /\ BlocksFaithful'
    BY <1>1 DEF RefInv, HeadRefs, HeadFaithful, BlocksFaithful
  <1>3. CASE WriteSucceeds("series") /\ knownRefs' = knownRefs \cup {cur.ref}
             /\ pc' = "logSamples"
    <2>1. Write("series") /\ walFile = "open" /\ walFile' = "open"
      BY <1>3 DEF WriteSucceeds, Write
    <2>2. Current BY <1>1, <2>1 DEF Current, Up
    <2>3. LogParts' BY <1>1, <2>1, <2>2, LoggedRecord
    <2> DEFINE n == LogRecord("series")
    <2>4. wal' = wal \cup {n} /\ n.ref = cur.ref /\ n.lset = cur.lset /\ IsSeries(n)
      BY <2>1 DEF Write, LogRecord, IsSeries
    <2> HIDE DEF n
    <2>5. /\ cur.ref \in DOMAIN head /\ head[cur.ref].lset = cur.lset
          /\ [lset |-> cur.lset, t |-> cur.t, v |-> cur.lset] \in head[cur.ref].data
      BY <1>1 DEF RefInv, AppendInProgress
    <2>6. HeadAgreesWithLog'
      BY <1>1, <2>2, <2>4, <2>5 DEF RefInv, HeadAgreesWithLog, HeadRefs, IsSeries
    <2>7. KnownRefsInv'
      BY <1>1, <1>3, <2>2, <2>4 DEF RefInv, KnownRefsInv, IsSeries
    <2>8. AppendInProgress' BY <1>1, <1>3, <2>5 DEF AppendInProgress
    <2>9. ReplayRefs' /\ DownInv' /\ DownHead' /\ ResetInv' /\ RemovingInv'
      BY <1>3, <2>1
         DEF ReplayRefs, DownInv, DownHead, ResetInv, RemovingInv, Up
    <2> QED BY <1>2, <2>3, <2>6, <2>7, <2>8, <2>9 DEF RefInv, LogParts
  <1>4. CASE WriteFails /\ pc' = "idle" /\ UNCHANGED knownRefs
    <2>1. UNCHANGED <<wal, end, segIdx, todo>> /\ (walFile' = walFile \/ walFile' = "closed")
      BY <1>4, WriteFailsRef DEF RefInv
    <2>2. Current' => Current BY <1>1, <2>1 DEF Current, Up
    <2>3. NoTorn' /\ PlacesUnique' /\ LogCoherent'
      BY <2>1 DEF RefInv, NoTorn, PlacesUnique, LogCoherent, IsSeries
    <2>4. HeadAgreesWithLog' /\ KnownRefsInv'
      BY <1>1, <1>4, <2>1, <2>2 DEF RefInv, HeadAgreesWithLog, KnownRefsInv, IsSeries
    <2>5. /\ AppendInProgress' /\ ReplayRefs' /\ DownInv' /\ DownHead' /\ ResetInv'
          /\ RemovingInv'
      BY <1>1, <1>4, <2>1
         DEF RefInv, AppendInProgress, ReplayRefs, DownInv, DownHead, ResetInv, RemovingInv, Up
    <2> QED BY <1>2, <2>3, <2>4, <2>5 DEF RefInv
  <1> QED BY <1>3, <1>4 DEF LogSeries

LEMMA RefLogSamples == ASSUME WholeStep, RefInv, TypeOK', LogSamples PROVE RefInv'
  <1>1. pc = "logSamples" /\ pc' = "idle" /\ UNCHANGED <<memVars, cur, pos, blocks>>
    BY DEF LogSamples
  <1>2. HeadRefs' /\ HeadFaithful' /\ BlocksFaithful'
    BY <1>1 DEF RefInv, HeadRefs, HeadFaithful, BlocksFaithful, memVars
  <1>3. AppendInProgress' /\ ReplayRefs' /\ DownInv' /\ DownHead' /\ ResetInv'
    BY <1>1 DEF AppendInProgress, ReplayRefs, DownInv, DownHead, ResetInv, Up
  <1>4. CASE WriteSucceeds("samples")
    <2>1. Write("samples") /\ walFile = "open" /\ walFile' = "open"
      BY <1>4 DEF WriteSucceeds, Write
    <2>2. Current BY <1>1, <2>1 DEF Current, Up
    <2>3. LogParts' BY <1>1, <2>1, <2>2, LoggedRecord
    <2>4. wal \subseteq wal' /\ \A q \in wal' : IsSeries(q) => q \in wal
      BY <2>1 DEF Write, LogRecord, IsSeries
    <2>5. HeadAgreesWithLog' /\ KnownRefsInv'
      BY <1>1, <2>2, <2>4 DEF RefInv, HeadAgreesWithLog, KnownRefsInv, IsSeries, memVars
    <2>6. RemovingInv' BY <1>1, <2>1 DEF RemovingInv, Up
    <2> QED BY <1>2, <1>3, <2>3, <2>5, <2>6 DEF RefInv, LogParts
  <1>5. CASE WriteFails
    <2>1. UNCHANGED <<wal, end, segIdx, todo>> /\ (walFile' = walFile \/ walFile' = "closed")
      BY <1>5, WriteFailsRef DEF RefInv
    <2>2. Current' => Current BY <1>1, <2>1 DEF Current, Up
    <2>3. NoTorn' /\ PlacesUnique' /\ LogCoherent'
      BY <2>1 DEF RefInv, NoTorn, PlacesUnique, LogCoherent, IsSeries
    <2>4. HeadAgreesWithLog' /\ KnownRefsInv'
      BY <1>1, <2>1, <2>2
         DEF RefInv, HeadAgreesWithLog, KnownRefsInv, IsSeries, memVars
    <2>5. RemovingInv' BY <1>1, <2>1 DEF RefInv, RemovingInv, Up, memVars
    <2> QED BY <1>2, <1>3, <2>3, <2>4, <2>5 DEF RefInv
  <1> QED BY <1>4, <1>5 DEF LogSamples

LEMMA RefReset == ASSUME RefInv, TypeOK', Reset PROVE RefInv'
  <1>1. /\ pc = "reset" /\ pc' = "truncate" /\ DOMAIN head' = {} /\ knownRefs' = {}
        /\ UNCHANGED <<walVars, blocks>>
    BY DEF Reset, KnownRefsAfterReset, EmptyHead
  <1>2. NoTorn' /\ PlacesUnique' /\ LogCoherent' /\ BlocksFaithful'
    BY <1>1 DEF RefInv, NoTorn, PlacesUnique, LogCoherent, IsSeries, walVars, BlocksFaithful
  <1> QED BY <1>1, <1>2 DEF RefInv, HeadRefs, HeadFaithful, HeadAgreesWithLog,
       KnownRefsInv, AppendInProgress, ReplayRefs, DownInv, DownHead, ResetInv,
       RemovingInv, Current, Up

\* WAL.Truncate runs with an empty head: whatever is left of the log contradicts
\* nothing.
LEMMA RefTruncate ==
  ASSUME WholeStep, RefInv, TypeOK', TruncateStart \/ RemoveSegment \/ TruncateEnd
  PROVE  RefInv'
  <1>1. /\ pc \in {"truncate", "removing"} /\ DOMAIN head = {} /\ knownRefs = {}
        /\ UNCHANGED <<memVars, blocks>>
    BY DEF TruncateStart, RemoveSegment, TruncateEnd, RefInv, ResetInv
  <1>2. pc' \in {"removing", "retain", "idle"}
    BY DEF TruncateStart, RemoveSegment, TruncateEnd
  <1>3. /\ HeadRefs' /\ HeadFaithful' /\ BlocksFaithful' /\ KnownRefsInv'
        /\ AppendInProgress' /\ ReplayRefs' /\ DownInv' /\ DownHead' /\ ResetInv'
    BY <1>1, <1>2 DEF RefInv, HeadRefs, HeadFaithful, BlocksFaithful, KnownRefsInv,
       AppendInProgress, ReplayRefs, DownInv, DownHead, ResetInv, Up, memVars
  <1>4. wal' \subseteq wal
    BY DEF TruncateStart, RemoveSegment, TruncateEnd
  <1>5. NoTorn' /\ LogCoherent'
    BY <1>4 DEF RefInv, NoTorn, LogCoherent, IsSeries
  <1>6. CASE TruncateStart
    <2>1. wal' = wal /\ end' = end /\ pc = "truncate" BY <1>6 DEF TruncateStart
    <2>2. \/ pc' = "removing" /\ walFile' = "nil" /\ todo' = {r.seg : r \in wal}
          \/ pc' = "idle" /\ walFile' \in {"closed", "nil"}
      BY <1>6 DEF TruncateStart
    <2>3. ~Current' BY <2>2 DEF Current
    <2>4. HeadAgreesWithLog' BY <2>3 DEF HeadAgreesWithLog
    <2>5. RemovingInv' BY <1>1, <2>1, <2>2 DEF RemovingInv, memVars
    <2>6. PlacesUnique' BY <2>1 DEF RefInv, PlacesUnique
    <2> QED BY <1>3, <1>5, <2>4, <2>5, <2>6 DEF RefInv
  <1>7. CASE RemoveSegment
    <2>1. PICK s \in todo : todo' = todo \ {s} /\ wal' = {r \in wal : r.seg # s}
      BY <1>7, NoDamage DEF RemoveSegment, RefInv
    <2>2. pc = "removing" /\ UNCHANGED <<pc, walFile, end>> BY <1>7 DEF RemoveSegment
    <2>3. walFile = "nil" /\ \A r \in wal : r.seg \in todo
      BY <2>2 DEF RefInv, RemovingInv
    <2>4. HeadAgreesWithLog' BY <2>2, <2>3 DEF HeadAgreesWithLog, Current
    <2>5. RemovingInv' BY <1>1, <2>1, <2>2, <2>3 DEF RemovingInv
    <2>6. PlacesUnique' BY <1>4, <2>2 DEF RefInv, PlacesUnique
    <2> QED BY <1>3, <1>5, <2>4, <2>5, <2>6 DEF RefInv
  <1>8. CASE TruncateEnd
    <2>1. wal = {} /\ wal' = {}
      BY <1>8 DEF TruncateEnd, RefInv, RemovingInv
    <2>2. pc' # "removing" BY <1>8 DEF TruncateEnd
    <2> QED BY <1>1, <1>3, <1>5, <2>1, <2>2
          DEF RefInv, HeadAgreesWithLog, PlacesUnique, RemovingInv, memVars
  <1> QED BY <1>6, <1>7, <1>8

LEMMA RefCrash == ASSUME WholeStep, RefInv, TypeOK', Crash PROVE RefInv'
  <1>1. /\ pc' = "down" /\ walFile' = "nil" /\ knownRefs' = {} /\ DOMAIN head' = {}
        /\ UNCHANGED <<wal, end, blocks>>
    BY NoDamage DEF Crash, EmptyHead, RefInv
  <1>2. NoTorn' /\ PlacesUnique' /\ LogCoherent' /\ BlocksFaithful'
    BY <1>1 DEF RefInv, NoTorn, PlacesUnique, LogCoherent, IsSeries, BlocksFaithful
  <1> QED BY <1>1, <1>2 DEF RefInv, HeadRefs, HeadFaithful, HeadAgreesWithLog,
       KnownRefsInv, AppendInProgress, ReplayRefs, DownInv, DownHead, ResetInv,
       RemovingInv, Current, Up

LEMMA RefOpen == ASSUME RefInv, TypeOK', Open PROVE RefInv'
  <1>1. /\ pc = "down" /\ pc' = "replay" /\ pos' = 0
        /\ UNCHANGED <<memVars, walVars, blocks>>
    BY DEF Open
  <1>2. /\ NoTorn' /\ PlacesUnique' /\ LogCoherent' /\ BlocksFaithful'
        /\ HeadRefs' /\ HeadFaithful'
    BY <1>1 DEF RefInv, NoTorn, PlacesUnique, LogCoherent, IsSeries, walVars,
       BlocksFaithful, HeadRefs, HeadFaithful, memVars
  <1>3. DOMAIN head = {} /\ knownRefs = {} /\ walFile = "nil"
    BY <1>1 DEF RefInv, DownHead, DownInv, Up
  <1>4. \A r \in wal : ~(r.place <= 0)
    BY DEF RefInv, PlacesUnique, TypeOK, Record
  <1>5. ReplayRefs' BY <1>1, <1>3, <1>4 DEF ReplayRefs, memVars, walVars
  <1> QED BY <1>1, <1>2, <1>3, <1>5 DEF RefInv, HeadAgreesWithLog, KnownRefsInv,
       AppendInProgress, DownInv, DownHead, ResetInv, RemovingInv, Current, Up,
       memVars, walVars

\* Only the head and the position of the replay change during a replay.
LEMMA ReplayRest ==
  ASSUME RefInv, TypeOK', pc = "replay", UNCHANGED <<knownRefs, pc, walVars, blocks>>,
         HeadRefs', HeadFaithful', ReplayRefs'
  PROVE  RefInv'
  <1>1. NoTorn' /\ PlacesUnique' /\ LogCoherent' /\ BlocksFaithful'
    BY DEF RefInv, NoTorn, PlacesUnique, LogCoherent, IsSeries, walVars, BlocksFaithful
  <1>2. ~Current' BY DEF Current, Up
  <1> QED BY <1>1, <1>2 DEF RefInv, HeadAgreesWithLog, KnownRefsInv,
       AppendInProgress, DownInv, DownHead, ResetInv, RemovingInv, Up, walVars

LEMMA RefReplaySeries ==
  ASSUME RefInv, TypeOK', NEW r \in wal, ReplaySeries(r)
  PROVE  RefInv'
  <1>1. /\ pc = "replay" /\ IsNext(r) /\ IsSeries(r) /\ pos' = r.place
        /\ UNCHANGED <<knownRefs, pc, walVars, blocks>>
    BY DEF ReplaySeries, IsSeries
  <1>2. /\ pos \in Nat /\ lastRef \in Nat /\ \A q \in wal : q.place \in Nat
        /\ r.ref \in Nat /\ \A ref \in DOMAIN head : ref \in Nat
    BY DEF RefInv, TypeOK, Record, Ref
  <1>3. \A q \in wal : q.place <= r.place => q.place <= pos \/ q = r
    BY <1>1, <1>2 DEF IsNext, RefInv, PlacesUnique
  <1>4. /\ DOMAIN head' = DOMAIN head \cup {r.ref}
        /\ \A ref \in DOMAIN head : head'[ref] = head[ref]
        /\ r.ref \notin DOMAIN head => head'[r.ref] = NewSeries(r.lset)
    BY DEF ReplaySeries, Register
  <1>5. HeadRefs'
    <2>1. lastRef' = IF r.ref \in DOMAIN head THEN lastRef ELSE LastRefAfter(r.ref)
      BY DEF ReplaySeries
    <2> QED BY <1>2, <1>4, <2>1 DEF RefInv, HeadRefs, LastRefAfter
  <1>6. HeadFaithful' BY <1>4 DEF RefInv, HeadFaithful, NewSeries
  <1>7. ReplayRefs'
    <2>1. \A q \in wal : IsSeries(q) /\ q.place <= r.place => q.ref \in DOMAIN head'
      BY <1>1, <1>3, <1>4 DEF RefInv, ReplayRefs
    <2>2. ASSUME NEW ref \in DOMAIN head'
          PROVE  \E q \in wal : /\ IsSeries(q) /\ q.place <= r.place
                               /\ q.ref = ref /\ q.lset = head'[ref].lset
      <3>1. CASE ref \in DOMAIN head
        <4>1. PICK q \in wal : /\ IsSeries(q) /\ q.place <= pos
                               /\ q.ref = ref /\ q.lset = head[ref].lset
          BY <1>1, <3>1 DEF RefInv, ReplayRefs
        <4>2. q.place <= r.place BY <1>1, <1>2, <4>1 DEF IsNext
        <4> QED BY <1>4, <3>1, <4>1, <4>2
      <3>2. CASE ref \notin DOMAIN head
        <4>1. ref = r.ref /\ head'[ref].lset = r.lset BY <1>4, <3>2 DEF NewSeries
        <4> QED BY <1>1, <1>2, <4>1
      <3> QED BY <3>1, <3>2
    <2> QED BY <1>1, <2>1, <2>2 DEF ReplayRefs, IsSeries, walVars
  <1> QED BY <1>1, <1>5, <1>6, <1>7, ReplayRest

\* The series a samples record is replayed into has the record's label set.
LEMMA ReplayedLset ==
  ASSUME RefInv, NEW r \in wal, pc = "replay", IsNext(r), r.ref \in DOMAIN head
  PROVE  head[r.ref].lset = r.lset
  <1>1. PICK q \in wal : /\ IsSeries(q) /\ q.place <= pos
                         /\ q.ref = r.ref /\ q.lset = head[r.ref].lset
    BY DEF RefInv, ReplayRefs
  <1>2. q.place < r.place
    BY <1>1 DEF IsNext, RefInv, TypeOK, Record
  <1> QED BY <1>1, <1>2 DEF RefInv, LogCoherent

LEMMA RefReplaySamples ==
  ASSUME RefInv, TypeOK', NEW r \in wal, ReplaySamples(r)
  PROVE  RefInv'
  <1>1. /\ pc = "replay" /\ IsNext(r) /\ r.kind = "samples" /\ pos' = r.place
        /\ UNCHANGED <<lastRef, knownRefs, pc, walVars, blocks>>
    BY DEF ReplaySamples
  <1>2. pos \in Nat /\ \A q \in wal : q.place \in Nat
    BY DEF RefInv, TypeOK, Record
  <1>3. \A q \in wal : q.place <= r.place => q.place <= pos \/ q = r
    BY <1>1, <1>2 DEF IsNext, RefInv, PlacesUnique
  <1>4. DOMAIN head' = DOMAIN head /\ \A ref \in DOMAIN head : head'[ref].lset = head[ref].lset
    BY DEF ReplaySamples, Register, Appended
  <1>5. HeadRefs' BY <1>1, <1>4 DEF RefInv, HeadRefs
  <1>6. HeadFaithful'
    <2>1. CASE head' = head BY <2>1 DEF RefInv, HeadFaithful
    <2>2. CASE /\ r.ref \in DOMAIN head
               /\ head' = Register(r.ref, Appended(head[r.ref], r.t, r.lset))
      <3>1. head[r.ref].lset = r.lset BY <1>1, <2>2, ReplayedLset
      <3>2. \A ref \in DOMAIN head :
              \/ head'[ref].data = head[ref].data
              \/ /\ ref = r.ref
                 /\ head'[ref].data = head[ref].data
                                      \cup {[lset |-> r.lset, t |-> r.t, v |-> r.lset]}
        BY <2>2, <3>1 DEF Register, Appended
      <3>3. ASSUME NEW ref \in DOMAIN head, NEW s \in head'[ref].data
            PROVE  s.lset = head[ref].lset /\ s.v = s.lset
        <4>1. CASE s \in head[ref].data BY <4>1 DEF RefInv, HeadFaithful
        <4>2. CASE ref = r.ref /\ s = [lset |-> r.lset, t |-> r.t, v |-> r.lset]
          BY <3>1, <4>2
        <4> QED BY <3>2, <4>1, <4>2
      <3> QED BY <1>4, <3>3 DEF HeadFaithful
    <2> QED BY <2>1, <2>2 DEF ReplaySamples
  <1>7. ReplayRefs'
    <2>1. \A q \in wal : IsSeries(q) /\ q.place <= r.place => q.ref \in DOMAIN head'
      BY <1>1, <1>3, <1>4 DEF RefInv, ReplayRefs, IsSeries
    <2>2. \A ref \in DOMAIN head' :
            \E q \in wal : /\ IsSeries(q) /\ q.place <= r.place
                           /\ q.ref = ref /\ q.lset = head'[ref].lset
      BY <1>1, <1>2, <1>4 DEF RefInv, ReplayRefs, IsNext
    <2> QED BY <1>1, <2>1, <2>2 DEF ReplayRefs, IsSeries, walVars
  <1> QED BY <1>1, <1>5, <1>6, <1>7, ReplayRest

\* Where the replay ends, the refs of the head are those of the log.
LEMMA RefReplayEnd == ASSUME RefInv, TypeOK', ReplayEnd PROVE RefInv'
  <1>1. /\ pc = "replay" /\ pc' = "idle" /\ knownRefs' = DOMAIN head /\ walFile' = "open"
        /\ UNCHANGED <<head, lastRef, wal, end, todo, pos, blocks>>
    BY DEF ReplayEnd
  <1>2. /\ pos \in Nat /\ \A q \in wal : q.place \in Nat
        /\ \A q \in wal : q.place <= pos
    BY DEF ReplayEnd, Reached, RefInv, TypeOK, Record, NoTorn
  <1>3. /\ NoTorn' /\ PlacesUnique' /\ LogCoherent' /\ BlocksFaithful'
        /\ HeadRefs' /\ HeadFaithful'
    BY <1>1 DEF RefInv, NoTorn, PlacesUnique, LogCoherent, IsSeries,
       BlocksFaithful, HeadRefs, HeadFaithful
  <1>4. \A q \in wal : IsSeries(q) => q.ref \in DOMAIN head
    BY <1>1, <1>2 DEF RefInv, ReplayRefs
  <1>5. \A q, r \in wal : IsSeries(q) /\ IsSeries(r) /\ q.ref = r.ref => q.lset = r.lset
    BY <1>2 DEF RefInv, LogCoherent, PlacesUnique
  <1>6. \A q \in wal : IsSeries(q) => head[q.ref].lset = q.lset
    BY <1>1, <1>4, <1>5 DEF RefInv, ReplayRefs
  <1>7. HeadAgreesWithLog'
    BY <1>1, <1>4, <1>6 DEF RefInv, HeadAgreesWithLog, HeadRefs, IsSeries
  <1>8. KnownRefsInv'
    BY <1>1 DEF RefInv, ReplayRefs, KnownRefsInv, IsSeries
  <1> QED BY <1>1, <1>3, <1>7, <1>8 DEF RefInv, AppendInProgress, ReplayRefs,
       DownInv, DownHead, ResetInv, RemovingInv, Up

\* WriteBlock and ApplyRetention fill blocks with what the head holds only.
LEMMA RefBlocks ==
  ASSUME RefInv, TypeOK',
         \/ \E t \in Time : CompactStart(t)
         \/ WriteRawBlock \/ WriteRollupBlock \/ ApplyRetention
  PROVE  RefInv'
  <1>1. \A s \in HeadData : s.v = s.lset BY DEF HeadData, RefInv, HeadFaithful
  <1>2. ASSUME NEW t \in Time, CompactStart(t) PROVE RefInv'
    BY <1>2, QuietRef DEF CompactStart, RefInv, BlocksFaithful, Up
  <1>3. ASSUME NEW res \in Res, NEW at \in {"removeRaw", "remove5m"},
               NEW next \in {"renameRaw", "rename5m"}, RemoveOld(res, at, next)
        PROVE  RefInv'
    <2>1. blocks' \subseteq blocks BY <1>3 DEF RemoveOld
    <2>2. BlocksFaithful' BY <2>1 DEF RefInv, BlocksFaithful
    <2> QED BY <1>3, <2>2, QuietRef DEF RemoveOld, Up
  <1>4. ASSUME NEW res \in Res, NEW at \in {"renameRaw", "rename5m"},
               NEW next \in {"remove5m", "reset"}, Rename(res, at, next)
        PROVE  RefInv'
    <2>1. \/ blocks' = blocks
          \/ \E lo, hi \in Time, d \in Storable(res) :
               blocks' = blocks \cup {NewBlock(res, lo, hi, d)}
      BY <1>4 DEF Rename
    <2>2. \A lo, hi \in Time, d \in Storable(res) :
            NewBlock(res, lo, hi, d).data \subseteq HeadData
      BY NewBlockType DEF NewBlock, RefInv
    <2>3. BlocksFaithful' BY <1>1, <2>1, <2>2 DEF RefInv, BlocksFaithful
    <2> QED BY <1>4, <2>3, QuietRef DEF Rename, histVars, Up
  <1>5. CASE ApplyRetention
    <2>1. blocks' \subseteq blocks BY <1>5 DEF ApplyRetention
    <2>2. BlocksFaithful' BY <2>1 DEF RefInv, BlocksFaithful
    <2> QED BY <1>5, <2>2, QuietRef DEF ApplyRetention, Up
  <1> QED BY <1>2, <1>3, <1>4, <1>5 DEF WriteRawBlock, WriteRollupBlock, Res

LEMMA RefStep == ASSUME WholeStep, RefInv, [Next]_vars PROVE RefInv'
  <1> USE TypeStep DEF RefInv
  <1>0. TypeOK' OBVIOUS
  <1> USE <1>0
  <1> HIDE TypeStep DEF RefInv
  <1>1. ASSUME NEW l \in Lsets, NEW t \in Time, AppendHead(l, t) PROVE RefInv'
    BY <1>1, RefAppendHead
  <1>2. ASSUME NEW l \in Lsets, NEW t \in Time, AppendRejected(l, t) PROVE RefInv'
    BY <1>2, QuietRef DEF AppendRejected, histVars, RefInv, BlocksFaithful, Up
  <1>3. CASE LogSeries BY <1>3, RefLogSeries
  <1>4. CASE LogSamples BY <1>4, RefLogSamples
  <1>5. CASE \E t \in Time : CompactStart(t) BY <1>5, RefBlocks
  <1>6. CASE WriteRawBlock \/ WriteRollupBlock \/ ApplyRetention BY <1>6, RefBlocks
  <1>7. CASE Reset BY <1>7, RefReset
  <1>8. CASE TruncateStart \/ RemoveSegment \/ TruncateEnd BY <1>8, RefTruncate
  <1>9. CASE Crash BY <1>9, RefCrash
  <1>10. CASE Open BY <1>10, RefOpen
  <1>11. ASSUME NEW r \in wal, ReplaySeries(r) PROVE RefInv' BY <1>11, RefReplaySeries
  <1>12. ASSUME NEW r \in wal, ReplaySamples(r) PROVE RefInv' BY <1>12, RefReplaySamples
  <1>13. CASE ReplayEnd BY <1>13, RefReplayEnd
  <1>14. CASE UNCHANGED vars
    <2>1. /\ NoTorn' /\ PlacesUnique' /\ LogCoherent' /\ BlocksFaithful'
          /\ HeadRefs' /\ HeadFaithful'
      BY <1>14 DEF vars, memVars, walVars, RefInv, NoTorn, PlacesUnique, LogCoherent,
         IsSeries, BlocksFaithful, HeadRefs, HeadFaithful
    <2>2. HeadAgreesWithLog' /\ KnownRefsInv' /\ AppendInProgress' /\ ReplayRefs'
      BY <1>14 DEF vars, memVars, walVars, RefInv, HeadAgreesWithLog, KnownRefsInv,
         AppendInProgress, ReplayRefs, IsSeries, Current, Up
    <2>3. DownInv' /\ DownHead' /\ ResetInv' /\ RemovingInv'
      BY <1>14 DEF vars, memVars, walVars, RefInv, DownInv, DownHead, ResetInv,
         RemovingInv, Up
    <2> QED BY <2>1, <2>2, <2>3 DEF RefInv
  <1> QED BY <1>1, <1>2, <1>3, <1>4, <1>5, <1>6, <1>7, <1>8, <1>9, <1>10, <1>11,
             <1>12, <1>13, <1>14 DEF Next

LEMMA RefInvariant == ASSUME WholeWrites PROVE Spec => []RefInv
  <1>1. RefInv /\ [Next]_vars => RefInv' BY RefStep DEF WholeStep
  <1> QED BY <1>1, RefInit, PTL DEF Spec

LEMMA RefImpliesLabels == RefInv => LabelFidelity
  BY DEF RefInv, HeadFaithful, BlocksFaithful, LabelFidelity, HeadData

LEMMA RefImpliesKnownRefs == RefInv => KnownRefsLogged
  <1>1. CASE Up BY <1>1 DEF RefInv, KnownRefsInv, KnownRefsLogged, Current, IsSeries
  <1>2. CASE ~Up BY <1>2 DEF RefInv, DownInv, KnownRefsLogged
  <1> QED BY <1>1, <1>2

\* While no record is torn and no segment survives its removal, a sample is never
\* found under the label set of another: DB, Head and ReplayWAL agree on what a ref
\* stands for through every Compact, Truncate, kill and Open.
THEOREM LabelsAreFaithful == ASSUME WholeWrites PROVE Spec => []LabelFidelity
  BY RefInvariant, RefImpliesLabels, PTL

\* Under the same faults, knownRefs names only refs whose series record is in the
\* log that Append writes to.
THEOREM KnownRefsAreLogged == ASSUME WholeWrites PROVE Spec => []KnownRefsLogged
  BY RefInvariant, RefImpliesKnownRefs, PTL

=============================================================================
