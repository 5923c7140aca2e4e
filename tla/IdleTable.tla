-------------------------------- MODULE IdleTable --------------------------------
(***************************************************************************)
(* The table of idle GPUs (GpuIdle): the snapshot's idle list under a      *)
(* search and filters, sorted, counted and cut into pages. The list        *)
(* shrinks and grows under the operator's hands with every poll.           *)
(***************************************************************************)
EXTENDS Wall

CONSTANTS
  ByIdleness,   \* the pooled GPUs, the longest idle first
  PageSizes

ASSUME TableAssumption ==
  /\ ByIdleness \in Seq(Pooled)
  /\ PageSizes \subseteq Nat \ {0} /\ PageSizes # {}

VARIABLES table   \* GpuIdle: its filters (search, verdict), page and pageSize

FreshTable == [node |-> All, verdict |-> All, page |-> 1,
               pageSize |-> CHOOSE n \in PageSizes : \A m \in PageSizes : n <= m]

IdleList == IF state = None THEN << >> ELSE state.idle

\* Those of a sequence's elements that are in A, in their order (SelectSeq, in a form that
\* can be reasoned about).
Kept(s, A) ==
  LET kept[n \in 0 .. Len(s)] ==
        IF n = 0 THEN << >>
        ELSE IF s[n] \in A THEN Append(kept[n - 1], s[n]) ELSE kept[n - 1]
  IN kept[Len(s)]

\* The search is for a node's name here.
Matching(t) ==
  {g \in Pooled : /\ state # None
                  /\ g \in DOMAIN IdleList
                  /\ t.node \in {All, NodeOf[g]}
                  /\ t.verdict \in {All, IdleList[g]}}

Rows(t) == Kept(ByIdleness, Matching(t))

AtLeast(m, n) == IF n < m THEN m ELSE n
AtMost(m, n)  == IF n > m THEN m ELSE n

PageCount(t) == AtLeast(1, (Len(Rows(t)) + t.pageSize - 1) \div t.pageSize)

\* A mutant: a plausible bug in what follows.
NotClamped(t) == t.page

\* The page in view: the one chosen, or the last one when the list has become shorter.
Current(t) == AtMost(PageCount(t), t.page)

PageOf(t, n) == SubSeq(Rows(t), (n - 1) * t.pageSize + 1, AtMost(Len(Rows(t)), n * t.pageSize))

Visible(t) == PageOf(t, Current(t))

\* The figures above the table, of the rows in it.
Summary(t) ==
  LET having(v) == Len(Kept(Rows(t), {g \in Matching(t) : IdleList[g] = v}))
  IN [total |-> Len(Rows(t)), validating |-> having("validating"), ready |-> having("ready"),
      failed |-> having("failed"),
      needsValidation |-> Len(Rows(t)) - having("validating") - having("ready") - having("failed")]

\* The numbers of the pager, 0 where some are left out.
PageWindow == 5

PageNumbers(current, total) ==
  IF total <= PageWindow + 2 THEN [i \in 1 .. total |-> i]
  ELSE LET start  == AtMost(total - PageWindow, AtLeast(1, current - 2))
           window == [i \in 1 .. PageWindow |-> start + i - 1]
       IN IF window[PageWindow] >= total - 1 THEN window \o <<total>> ELSE window \o <<0, total>>

-----------------------------------------------------------------------------
OnIdle == path = Idle

TableInit == table = FreshTable

\* Whatever changes the rows goes back to the first page.
FirstPage(t) == [t EXCEPT !.page = 1]

SetTable(t) ==
  /\ t # table /\ Step
  /\ table' = t
  /\ UNCHANGED <<path, seen, picked, demo, palette, wallVars>>

Edit ==
  /\ OnIdle /\ InDemo
  /\ \/ \E n \in Node \cup {All} : SetTable(FirstPage([table EXCEPT !.node = n]))
     \/ \E v \in Verdicts \cup {All} : SetTable(FirstPage([table EXCEPT !.verdict = v]))
     \/ \E n \in PageSizes : SetTable(FirstPage([table EXCEPT !.pageSize = n]))
     \/ SetTable(FirstPage([table EXCEPT !.node = All, !.verdict = All]))

\* The arrows beside the numbers, and the numbers. The arrows start from the page in view.
TurnPage ==
  /\ OnIdle /\ InDemo
  /\ \/ Current(table) > 1 /\ SetTable([table EXCEPT !.page = Current(table) - 1])
     \/ Current(table) < PageCount(table) /\ SetTable([table EXCEPT !.page = Current(table) + 1])
     \/ \E n \in ToSet(PageNumbers(Current(table), PageCount(table))) \ {0} :
          SetTable([table EXCEPT !.page = n])

TableNext == Edit \/ TurnPage

-----------------------------------------------------------------------------
\* INVARIANT: the pages hold every row that matches once and in order, the page in view
\* is never an empty one while rows match, and the figures above the table are the rows
\* that each verdict's filter would leave.
EveryRowOnAPage ==
  OnIdle =>
    /\ FlattenSeq([n \in 1 .. PageCount(table) |-> PageOf(table, n)]) = Rows(table)
    /\ Rows(table) # << >> => Visible(table) # << >>
    /\ Len(Visible(table)) <= table.pageSize
    /\ table.verdict = All =>
         LET s == Summary(table)
             under(v) == Len(Rows([table EXCEPT !.verdict = v]))
         IN /\ s.needsValidation = under("idle") /\ s.validating = under("validating")
            /\ s.ready = under("ready") /\ s.failed = under("failed")

\* The pager, whatever its numbers: it has the current page, the first or a way to it, and
\* the last, in order and none twice.
PagerReaches(totals) ==
  \A total \in totals : \A current \in 1 .. total :
    LET shown == Kept(PageNumbers(current, total), Nat \ {0})
    IN /\ {current, total} \subseteq ToSet(shown)
       /\ \A i \in 1 .. Len(shown) - 1 : shown[i] < shown[i + 1]
       /\ shown[1] >= 1

ASSUME PagerAssumption == PagerReaches(1 .. 14)
=============================================================================
