----------------------------- MODULE TSDBQuery -----------------------------
(***************************************************************************)
(* One reader beside the write path: DB.Querier and Querier.Select with    *)
(* the chainIterator they hand out (db.go, querier.go), for the window of  *)
(* an instant selector (promql/eval.go).                                   *)
(*                                                                         *)
(* DB.Querier runs under db.mtx, so between two calls of the write path;   *)
(* it opens the blocks of the window, and an opened block stays readable   *)
(* whatever becomes of its directory. Select takes no db.mtx: it finds the *)
(* head as any step of the write path has left it.                         *)
(***************************************************************************)
EXTENDS TSDB

CONSTANTS
  Lookback,   \* lookbackDelta
  MaxQueries  \* bound: calls of Querier

\* A clock that steps back lets the chunks of one series overlap, which the sets of
\* samples below do not tell apart.
ASSUME QueryAssumption ==
  Lookback \in Nat /\ MaxQueries \in Nat /\ "clock" \notin Faults

VARIABLES
  qpc,        \* "none", "open" (Querier has returned), "read" (Select too)
  qmaxt,      \* Querier.maxt, the time of the evaluation
  qblocks,    \* Querier.blocks
  qresult,    \* what the iterators of the selected series emit
  qacked,     \* history: what was acknowledged and kept when Querier returned
  qstart,     \* history: the clock when the process started
  qseen,      \* history: raw samples scraped and read since then
  qreset,     \* history: Compact emptied the head between Querier and Select
  queries

qvars == <<qpc, qmaxt, qblocks, qresult, qacked, qstart, qseen, qreset, queries>>

-----------------------------------------------------------------------------
qmint == qmaxt - Lookback

InWindow(t) == qmint <= t /\ t <= qmaxt

\* What one block or the head contributes to a series of the result: a rollup
\* series is one of its own (it has the label __rollup__), its samples are the
\* starts of its buckets, each with the samples it sums up.
Stored(res, l, data) ==
  LET of(t) == {s \in data : s.lset = l /\ StoredAt(res, s.t) = t}
  IN  {[res |-> res, lset |-> l, t |-> t, of |-> of(t)] :
         t \in {StoredAt(res, s.t) : s \in {d \in data : d.lset = l}}}

NewestFirst(b, c) == b.minT >= c.minT

\* The blocks are read by MinTime. os.ReadDir returns their directories by name, which
\* is MinTime, then MaxTime; sort.Slice moves nothing that is in order.
Before(b, c) ==
  \/ b.minT < c.minT
  \/ b.minT = c.minT /\ b.maxT <= c.maxT

\* chainIterator skips a timestamp that is not above the last one it emitted. One above
\* maxt ends the iteration, unless a chunk boundary precedes it, for Select leaves out
\* the chunks beyond the window.
Hides(part, e, stop) ==
  \/ \E g \in part : InWindow(g.t) /\ e.t <= g.t
  \/ stop /\ \E g \in part : g.t > qmaxt

\* What the iterator of a series emits: the blocks one after the other, then the head.
Series_(res, l, inHead, stop) ==
  LET own == {b \in qblocks : b.res = res}
      part(b) == Stored(res, l, b.data)
      Read(from, after) ==
        {e \in from : InWindow(e.t) /\ \A c \in after : ~Hides(part(c), e, stop)}
      inBlocks == UNION {Read(part(b), {c \in own \ {b} : Before(c, b)}) : b \in own}
      inTheHead == IF res = "raw" THEN Read(Stored(res, l, inHead), own) ELSE {}
  IN  inBlocks \cup inTheHead

-----------------------------------------------------------------------------
QInit ==
  /\ Init
  /\ qpc = "none" /\ qmaxt = 0 /\ qblocks = {} /\ qresult = {}
  /\ qacked = {} /\ qstart = 0 /\ qseen = {} /\ qreset = FALSE /\ queries = 0

BeginsBefore(b, t) == t - Lookback <= b.maxT /\ b.minT < t

\* Only a block that overlaps the window is opened.
Overlaps(b, t) == t - Lookback <= b.maxT /\ b.minT <= t

OpenQuerier(t) ==
  /\ pc = "idle" /\ qpc = "none" /\ queries < MaxQueries
  /\ qpc' = "open" /\ qmaxt' = t
  /\ qblocks' = {b \in blocks : Overlaps(b, t)}
  /\ qacked' = {s \in acked : t - Lookback <= s.t /\ s.t <= t /\ ~Forgotten("raw", s)}
  /\ qreset' = FALSE /\ queries' = queries + 1
  /\ UNCHANGED <<vars, qresult, qstart, qseen>>

\* Querier.Select of all series, and the end of their iterators.
Select ==
  /\ qpc = "open"
  /\ \E stop \in BOOLEAN :
       qresult' = UNION {Series_(res, l, HeadData, stop) : res \in Res, l \in Lsets}
  /\ qpc' = "read"
  /\ UNCHANGED <<vars, qmaxt, qblocks, qacked, qstart, qseen, qreset, queries>>

CloseQuerier ==
  /\ qpc = "read"
  /\ qpc' = "none" /\ qblocks' = {} /\ qresult' = {} /\ qacked' = {} /\ qreset' = FALSE
  /\ qseen' = qseen \cup {s \in UNION {e.of : e \in {r \in qresult : r.res = "raw"}} :
                           s.t > qstart}
  /\ UNCHANGED <<vars, qmaxt, qstart, queries>>

\* A step of the write path. A kill takes the reader along.
WritePathStep ==
  /\ Next
  /\ UNCHANGED <<qmaxt, queries>>
  /\ IF pc' = "down"
       THEN /\ qpc' = "none" /\ qblocks' = {} /\ qresult' = {} /\ qacked' = {}
            /\ qstart' = clock /\ qseen' = {} /\ qreset' = FALSE
       ELSE /\ qreset' = (qreset \/ (qpc = "open" /\ pc = "reset"))
            /\ UNCHANGED <<qpc, qblocks, qresult, qacked, qstart, qseen>>

QNext ==
  \/ WritePathStep
  \/ \E t \in Time : OpenQuerier(t)
  \/ Select \/ CloseQuerier

QSpec == QInit /\ [][QNext]_<<vars, qvars>>

-----------------------------------------------------------------------------
(* Properties *)

Emitted(s) == \E e \in qresult : e.res = "raw" /\ s \in e.of

\* A reader sees every acknowledged sample of its window: whether it is in a block,
\* in the head, in both after a kill, or on its way from the one to the other while
\* Compact has not yet emptied the head.
QueryComplete == qpc = "read" /\ ~qreset => \A s \in qacked : Emitted(s)

\* The same without the exception.
SeesAcked == qpc = "read" => \A s \in qacked : Emitted(s)

\* What a reader has seen of the samples scraped since the process started, a later one
\* of the same process sees again, also those whose log record could not be written.
RepeatableRead ==
  qpc = "read" /\ ~qreset =>
    \A s \in qseen : InWindow(s.t) /\ ~Forgotten("raw", s) => Emitted(s)
=============================================================================
