# nodevitals-observatory: TLA+ models and proofs

nodevitals-observatory scrapes node and GPU metrics, stores them in a time series
database of its own, answers PromQL queries, evaluates alert rules and serves a console
behind a login. This directory holds TLA+ modules translated from its source, the TLC
configurations that check them and the TLAPS proofs about them. `PROJECT.json` maps
every definition to the lines it stands for and lists runs, mutants, hazards, findings
and theorems.

## 1. The system

| part | source | state | operations |
|---|---|---|---|
| storage: write path | `internal/tsdb/{db,head,chunk,wal,recover,block,rollup,retention}.go` | head (series by ref, `lastRef`), `knownRefs`, WAL segments, `w.f`, block directories | `Open`, `Append`, `Compact`, `Sync`, `Close` |
| storage: reader | `internal/tsdb/querier.go`, `DB.Querier`, `Block.Select` | the blocks a `Querier` holds open | `Querier`, `Select`, iteration, close |
| storage: coding and postings | `bstream`, `encoding_*`, `chunk`, `index.go` | none (pure), sorted id lists | encode, decode, intersect, union |
| PromQL | `internal/promql/*` | none | parse, evaluate |
| scrape, discovery, promtext | `internal/scrape`, `discovery`, `promtext` | `ready` | one cycle: discover, GET, parse, `Append` |
| rules | `internal/rules/{rules,manager}.go` | `Rule.active`, `Manager.firing` | `Eval`, `EvalOnce`, `Run`, `Snapshot` |
| delivery | `internal/alerting`, `internal/notify` | `lastSent`, `sentN`, `droppedN` | `Send` with retries |
| login | `internal/auth/auth.go` | sessions, `loginSem` | login, logout, validate |
| API, process | `internal/apiserver`, `cmd/observatory/main.go` | none | handlers, start, shutdown |
| console: login and polling | `web/src/{auth,lib/api.ts,hooks,pages/Login.tsx,App.tsx}` | login state, route, cached demo status, one query's data | probe, login, logout, poll, redirect |
| console: snapshot and actions | `web/src/pages/gpu/GpuLayout.tsx`, `lib/demoApi.ts` | the newest snapshot of the demonstration server, its timer | poll, `refresh`, `act` |
| console: acting pages | `pages/gpu/Gpu{Validation,Idle,Remediation,Ruleset,Assistant,Incident,Efficiency,Health}.tsx`, `SituationBoard`, `AlertTimeline` | drafts, banners, "waiting" marks, what was acknowledged or registered here | each page's buttons, with what they do before and after the action |
| console: shell | `components/layout/Shell.tsx`, `GlobalSearch`, `lib/navigation.ts` | route, top picked, dialog | follow, pick, search, redirect |
| console: looking pages | `GpuOverview`, the idle table, `Explorer`, `Map`, `Overview`, node panels, `NodeDrillSheet`, charts | two polls of different age, filters, page of the table, selections and what was answered for them | filter, page, select, drill, poll |

How they interact. `main.run` opens the DB and starts three goroutines: the scraper
(the only caller of `Append`), `compactLoop` (the only caller of `Compact`) and the rule
manager, which reads through `storage` and `promql` and posts through `alerting` and
`notify`. Every HTTP request is a goroutine of its own; API requests pass
`auth.Middleware` and read the DB. `DB.mtx` serialises `Append`, `Compact` and
`Querier`; `Querier.Select` runs outside it. Nothing but the WAL and the blocks survives
a restart: alert state and sessions are in memory. The console keeps nothing across a
reload. `lib/api.ts` carries an expired session back (it calls the handler of
`AuthContext`). The demonstration's `lib/demoApi.ts` does so for actions only, and
`lib/validation.ts` and `lib/nodeAsset.ts`, which call `fetch` themselves, do not.

What is hard: kills between any two file operations of `Append`, `Compact` and
`Truncate`; writes, renames and removals that fail; refs that are handed out anew after
each `Compact` and must agree with a log that may not be gone; a reader that overlaps a
`Compact`; a clock that steps; alert state split between rule, manager, notifier and the
receiver, with retries, lost answers and restarts in between; requests that read the
clock before they take the mutex; answers that reach the console out of order, after the
selection, the page, the layout or the login they were asked for has gone; actions of two
requests; marks a page keeps of an action whose answer never comes; figures computed from
two polls of different age.

What makes each part correct:

- *write path*: an acknowledged sample is on disk where a restart finds it, in the head or
  a raw block until then, under its own label set, until retention may take it; the rollup
  misses nothing; a block's range covers its samples.
- *reader*: it gets every acknowledged sample of its window, once; what it saw once it
  sees again; a rollup bucket is whole.
- *alerting*: no alert before its `For` has passed; what the receiver believes is what
  the manager believes; a failing receiver does not stop the evaluation; what stays true
  is told.
- *sessions*: a live session survives whatever other requests do; a session ends with
  its absolute time, with its logout and for good; login slots come back.
- *console, login and polling*: nobody with a live session is signed off by anything but a
  failure or an answer to an earlier cookie; an expired one is noticed; a page shows the
  data of its own target and catches up.
- *console, acting pages*: a button waits as long as its action is out and no longer; a
  banner is about the asset in view; a two-request action does what was chosen; the
  target does not jump; the snapshot catches up after any failure.
- *console, looking pages*: every GPU is counted once whichever poll names it, and what a
  filter or a ranking leaves out is known; every row
  is on a page; the menu stands where the page is; an answer is shown under the selection
  it was asked for, and what is selected is filled in the end.

## 2. The modules

| module | models | checked by |
|---|---|---|
| `TSDB` | the write path with kills and faults | `tsdb_write`, `tsdb_damaged`, `tsdb_torn` |
| `Store` | what the engine promises, without head, log and blocks | abstract |
| `TSDBStore` | `TSDB` as an implementation of `Store` | `tsdb_write` |
| `TSDBQuery` | a reader beside the write path | `tsdb_query`, `query_race` |
| `TSDBInv` | the inductive invariants of the write path | proofs |
| `TSDBRef_proofs` | theorems about `TSDB`: types and refs | `tlapm` |
| `TSDBData_proofs` | theorems about `TSDB` and `TSDBStore`: timestamps, samples, refinement | `tlapm` |
| `TSDBQuery_proofs` | theorems about the reader | `tlapm` |
| `Alerts`, `Alerts_proofs` | rules, manager, notifier and receiver | `alerts`, `alert_resolved`, `tlapm` |
| `Sessions`, `Sessions_proofs` | session store, middleware, login and logout handlers | `sessions`, `tlapm` |
| `Portal`, `Portal_proofs` | login state, requests and one polled page of the console | `portal`, `tlapm` |
| `Feed` | the layout under `/gpu`: snapshot, timer, actions in flight | through `Console` |
| `Validation`, `IdleReuse`, `Remediation`, `Ruleset`, `Assistant`, `Incident`, `Efficiency`, `Health` | one acting page each, over `Feed` | through `Console` |
| `Console`, `Console_proofs` | one of these pages in view, composed with `Feed` | `console`, `expiry`, `tlapm` |
| `Menu` | routes, menus, search, home redirect | through `Views` |
| `Wall`, `IdleTable`, `Lookups`, `Details` | the looking pages, each module over the one before | through `Views` |
| `Views`, `Views_proofs` | the shell and the looking pages together | `views`, `tlapm` |

`MC*` modules give the constants their values for TLC; each run has a `.cfg`.

### TSDB

The variables are the memory (`head`, `lastRef`, `knownRefs`), the files (`wal`, `blocks`)
and the place `pc` of the one call that holds `db.mtx`. An action is the code between two
file operations, because a kill (`Crash`) can fall there: `Append` is `AppendHead`,
`LogSeries`, `LogSamples`; `Compact` is `CompactStart`, `WriteRawBlock`,
`WriteRollupBlock` (removal of a directory of the same name, rename), `Reset`,
`TruncateStart`, `RemoveSegment`, `TruncateEnd`, `ApplyRetention`; `Open` replays record by
record. `Faults` says which failures the environment produces. A WAL record has a place in
the log and a segment; a sample's value is the label set it was appended under, which shows
when a ref is taken for another series. Clock readings of one scrape cycle are shared.

`Store` is what the engine promises: samples acknowledged, stored and visible; they leave
only when they may be given up (retention, or a block whose name another took). It has four
actions: `Acknowledge`, `Work`, `Kill`, `Recover`. `TSDBStore` maps the write path to it:
stored is what the raw blocks hold and what the replay would keep, visible is what is there
for a reader, in the head and the raw blocks (what a query returns of it is in `TSDBQuery`).
`ImplementsStore` says that each step of `TSDB` is one of these or a stutter: no step of a
`Compact`, complete or cut, takes a sample from either early.

`TSDBQuery` adds one reader: `OpenQuerier` under the mutex, `Select` outside it, between any
two steps of the write path, and `CloseQuerier`. The blocks are read in the order of their
directories' names, `MinTime` and then `MaxTime` (`Before`), the head comes last, and the
iterator skips what is not above the last timestamp it has emitted: so a sample is *hidden*
(`Hides`) when a part that is read before its own reaches beyond it. A part that reaches
beyond the window may end the iterator or not, which depends on where its chunks were cut;
the model allows both. `qreset` remembers that `Compact` emptied the head between `Querier`
and `Select`, the case of the finding `query_race`. `qstart` and `qseen` are histories: when
the process was started, and what has been read since of the samples scraped since.
`RepeatableRead` is about these, logged or not. Of what was scraped before the start it
promises nothing: a sample whose record could not be written is seen until the kill and
not after it, and the replay may put others behind a block that hides them.

### Alerts

One goroutine: `Tick`, `EvalSucceeds` or `EvalFails` for each rule, `Notify`, and the posts
with their retries (`PostSucceeds`, `PostFails`); the receiver may have heard a post whose
answer was lost. `Change` moves the conditions between any two steps, `Restart` forgets
everything in memory. Times are ages that stop growing where the code no longer tells them
apart.

### Sessions

Each request has a `pc`: a login takes a slot, verifies, draws a token and enters it; another
request reads the clock (`ValidateStart`), is let through or not (`Accept`, `Reject`) and
serves or logs out. Readings of the clock are separate from the critical sections, as in the
code; `late` is how old the reading has become.

### Portal

The browser, the server's answer and the network are steps of their own. `calls` are the
requests in flight, each with the cookie it was sent with and whether the one who waits for
it is still there (`own`). `Screen` is what a change of the login state or the route does at
once: redirects, what is unmounted is cancelled, what is mounted starts. `Submit`, `Logout`,
`Resubscribe`, `Hide`, `Show` are the operator, `TimerTick` the interval, `...Answered` the
code behind each `await`. `valid` stands for `Sessions`: a session begins with a login and
may end at any time. `upset` remembers the only two ways a client with a live session may be
sent to the login form.

### Feed, the acting pages and Console

`Feed` is `GpuLayout`: `fetch` is its one request or the timer for the next, `acts` are the
actions in flight, each with what is left of its sender. An answer calls the handler of the
page if the page is still there, refreshes the snapshot if the layout is, and signs the
client off on a 401. A page module has the state of its component (`local`), the operator's
buttons with their disabling conditions, what the handler does with an answer (`...After`),
and what the demonstration server would make of the action (`...Outcomes`, external: the
repository has no such server, its answers are taken from what the console expects). A change
of the mode, a jump and a switch of a rule may be refused in any state (`AtWill`), because the
pages handle a refusal and nothing in the repository says when one comes. An approval is
accepted in the phases the page names, degrading and awaiting approval (`GateOpen`), and its
dialog may be closed while the answer is out. The detail of an asset may fail with a live
session (`DetailFails`) as the snapshot may.
`Validation` has a poll of its own for the asset in view, and its start of a burn-in sends a
second request after the first (`ValidationMore`). `Console` puts one of the pages in view
over `Feed`; `Starts` are the pages with states of the server in which they have something to
do.

### Menu, Wall, IdleTable, Lookups, Details and Views

`Menu` is the shell: the path, the top picked by hand, and the effect that lets it go once
the path has changed (`PathEffect`). A path is a sequence of segments, matched as the router
does. `Wall` is the fleet board: `cells` and `state` come from two polls of different age,
everything else on the board is computed from them under the eight fields of the filter bar.
The bar offers fixed words for three fields, and for the others the labels that the store's
answer has (`Options`), so a field's values need not part the cells: `Rest` is what none of
them leaves, cells with an empty label and cells added for a silent node, which have no model
(`Label`). Alerts have a severity of four and may be acknowledged; the strip counts three
severities, of the others only. `Cuts` are the rows a ranking may show: the first `TopRows`
by a utilisation that may be anything (10 in the code). `IdleTable` is the
table of idle GPUs with its pager; its rows are those of `ByIdleness`, the order of the table,
that match (`Kept`, written as a recursive function because the proofs are about it).
`Lookups` are the screens that ask about a selection: each has what is selected, what the data it holds is of, and the calls not yet answered; a call is
cancelled when its effect is cleaned up. `session` says whether the server still knows the
cookie: once it does not (`Lapse`), a call through `lib/api.ts` or a poll of the board signs the
client off (`Unauthorized`), while one of the node directory becomes neither data nor an error
(`Denied`: `nodeAssetMessage` gives null for a 401, and nobody calls the handler). A sign-off ends
a behaviour at the login page; signing on again is `Portal`'s. `Details` has the two
lookups whose selection is itself computed from a poll. `Views` composes them: what a step of the shell unmounts forgets
its state, what it mounts asks.

## 3. The runs

| run | shows | bounds |
|---|---|---|
| `tsdb_write` | with failing writes, rotations, truncations, block writes and retention: types, label fidelity, known refs logged, implementation of `Store`, durable rollup, readability, block ranges | 2 label sets, 3 appends, times 0..3, chunks and segments of 2, buckets of 2, retention 1 and 2, 1 kill, 1 fault |
| `tsdb_damaged` | with clock steps, torn records and segments left behind: without such a fault nothing is lost even if the clock steps; with it the running process still has everything in the head or a raw block, though after a clock step a query may not find it there (`db.go:145`, `querier.go:98`) | 2 label sets, 3 appends, times 0..3, chunks and segments of 2, buckets of 2, retention 1 and 3, 1 kill, 1 fault |
| `tsdb_query` | a reader gets all of its window and sees again what it saw of this process's samples, unless `Compact` empties the head under it | 2 appends, 2 queries, window 2, 1 kill, 1 failed write |
| `alerts` | `For` is respected, receiver and manager agree, evaluation goes on, a lasting alert is told in the end and stays told | 2 rules that share an alert, `For` 2 and 0, 2 attempts, repeat interval 3, 1 restart |
| `sessions` | slots match logins and come back, live sessions are kept, absolute end, end by logout or restart is final | 2 requests at once, 2 tokens, 1 slot, idle 3, absolute 4, sweep above 1, delay 1, 1 restart |
| `portal` | no false sign-off, data of the own target, the skeleton ends, expiry is noticed, the page catches up | 2 targets, 2 sessions, requests sent while fewer than 2 are out, 1 change of data, 1 failure |
| `console` | banner and target of the validation, marks agree with actions, two-request start, buttons come back, snapshot catches up | 16 starts on 9 pages, 2 GPUs on the idle list, 2 actions out, 2 presses, 1 event of the server, 1 trouble (failure, expiry or departure) |
| `views` | each GPU counted once, the board becomes whole, each row on a page, menu at its page, answers under their selection, the sheet is filled while there is a session | 3 GPUs on 2 nodes of 2 providers, with and without region, tenant and workload, 2 alerts of no node, rankings of 1, pages of 1 and 2, 2 explorer selections, 2 chart tabs, 2 steps of operator, server, failures and expiry |
| `tsdb_torn`, `query_race`, `alert_resolved`, `expiry` | one disagreement each between the code and what a comment or a test says of it; see `findings` in `PROJECT.json` | as above, only the faults each one needs |

Why these bounds are enough to meet the interesting cases: two label sets are what it
takes to confuse two series; segments of two records put a rotation inside an append; a
chunk of two samples and three appends give a full chunk and its successor; times 0..3
with buckets of 2 give two buckets and a compaction that cuts one; retention of 1 and 2
expires raw blocks before rollup blocks within the range; one kill and one fault may be
placed between any two steps, and a replay follows. The label sets are symmetric; the `VIEW`
of the TSDB runs leaves out the local variables of a call that has ended.
Two sessions of the portal are a former cookie and the present one, and two requests in
flight let one overtake the other. In the console, two GPUs are the one acted on and the one
looked at, two actions overlap, two presses are a change of mind while the first is out, and
one trouble (a lost answer, a failed poll, an expiry or a page left) can fall between any
two of these. Three GPUs on two nodes give the views a node with two GPUs and one with one,
and a table of more than one page; rankings of one row are cut off as soon as both nodes have
cells. `AnswersKeepToSelection` is checked while the explorer, the chart, the panel and the
browser switch; to close a node sheet and open another takes one step more than `MaxSteps`, and
is in the theorem. `console` has about 603,000 distinct states, `alerts` 353,000 and `views`
41,000.

The bounds, each in the guards of the actions it bounds: `MaxTime`, `MaxAppends`,
`MaxCrashes`, `MaxFaults` (TSDB), `MaxQueries` (reader), `MaxRestarts` (alerts and
sessions), `MaxDelay` (sessions), `MaxSessions`, `MaxCalls`, `MaxChanges`, `MaxFailures`
(portal), `MaxActs`, `MaxTroubles`, `MaxEvents`, `MaxMoves` (console), `MaxSteps` and
`Addresses` (views).

Deadlock is checked in every passing run but `views`: there, once the bound on steps is used
up and all calls are answered, a screen that polls nothing is at rest until the operator
does something.

### Fairness

`Alerts`: the goroutine of `Manager.Run` runs and its ticker ticks, so `Tick`, the
evaluation, `Notify` and the posts are weakly fair; the posts end because the HTTP client
has a timeout. `EvalSucceeds` of each rule is strongly fair, an assumption about the
database, not about the code: a query that is tried for ever does not fail for ever. No
fairness is assumed of the receiver, of `Change` or of `Restart`.
`Sessions`: the HTTP server runs each request it has accepted to its end, so the steps of
a request are weakly fair; nothing makes a new request come.
`Portal`: requests of each kind are served, or given up by the browser, and their answers
delivered (weak fairness for each kind: `fetch` settles). The interval of a mounted page
ticks; it is strongly fair only because the bound `MaxCalls` disables it now and then, which
the browser does not.
`Console`: the snapshot request and each action get an answer or an error, timers fire, and
a page's query of the store meets the end of the session (weak fairness each).
`Views`: effects run, the polls, the sheet's tick and the answers to the calls of sheet and
drawer come, a 401 among them, the board's poll meets the end of the session, and the store's
series follow the agents (weak fairness each).
Nowhere is anything owed by the operator, the server's turns, failures or expiry.

## 4. The proofs

`TSDBRef_proofs` proves `TypeCorrect` for all constants and all faults. The theorems about
`TSDB` that speak of more than a state's types rest on inductive invariants (`TSDBInv`),
because none of the properties is inductive by itself. The main one has three layers:

1. `RefInv`, what a ref means. The head and the log agree on the label set of every ref
   (`HeadAgreesWithLog`), records of a ref never contradict its first series record
   (`LogCoherent`), every ref is at most `lastRef`, and half way through a replay the head
   has exactly the refs of the records read (`ReplayRefs`). While `Truncate` runs the head
   is empty and `knownRefs` too; `Current` names the times when head and log belong
   together. It gives `LabelsAreFaithful` and `KnownRefsAreLogged`.
2. `TimeInv`, what the timestamps promise: with a monotone clock the log is sorted, no
   replayed sample is refused (`ReplaySorted`), a series' range covers its samples. It
   gives `BlockRangesCover`.
3. `DataInv`, where the samples are. For each resolution a logged sample is recoverable or
   safe (`LogInv`), in the head or safe while the process is up (`HeadInv`), and safe from
   the rename of its block on (`CompactedInv`), which is what lets `Reset` and `Truncate`
   drop it; half way through a replay the head has what was read (`ReplayInv`). It gives
   `AckedIsDurable`, `RollupIsDurable` and `AckedIsReadable`.

Assumptions: `WholeWrites` (no torn record, no segment that stays behind) for the first
layer, and `MonotoneClock` for the second. `BlockRangesCover` needs the clock only: what it
takes of the rest is `BaseInv` (types, distinct places in the log, an empty head while the
process is down). Both assumptions are needed: `tsdb_torn` is the counterexample without the
first (and a segment that stays behind breaks `LabelFidelity`), and without the second
`BlockRange` fails as soon as a new chunk starts below `minT`. Everything else the
environment can do (kills at every step, failed writes, rotations, truncations, block writes
and retention passes) is in the proofs, for every number of label sets, samples, segments
and kills.

What `DataInv` takes of the timestamps is little, and `SampleInv` names it: a series and a
block hold nothing later than their range says (`NotLater`), and the replay refuses no sample
that it has a series for (`Accepting`). The lemma `WholeStep` proves the step once for
`SampleInv`; how `Accepting` is had is a matter of the run:

- with a monotone clock it follows from `TimeInv`;
- with any clock, as long as no step has failed, from `CountInv`. A clock that steps back
  makes the chunk boundaries count: an older sample is accepted only by a new chunk. `CountInv`
  says that the head and the log have the same number of samples of each series
  (`HeadCounts`), so a replay that cuts a chunk after every `MaxSamplesPerChunk` samples cuts
  where the appends did (`ReplayCounts`) and refuses exactly what they refused
  (`LogAccepted`). It needs the segments in order and one series record for a ref.
  `NothingIsLostByTheClock` (`UndamagedIsDurable`, which speaks of a run until its first
  failure) follows without an assumption, and `UndamagedImplementsStore` from `MaxFaults = 0`,
  which the clock does not count against. Both are about what is kept, not about what a query
  returns: a block's range may not cover such a sample. Under this clock the rollup leaves out buckets
  that start before the last one; `Kept` names the resolutions that take all of the head.

`AckedIsKeptUntilRestart` (`KeptUntilRestart`) holds under every fault. It asks nothing of
the log: `HeldInv` says that a process that was never killed has what it acknowledged in the
head or in a raw block, and that from the rename of the raw block on all of the head is in
blocks. It does not say that a query returns it: under a clock that steps back
`DB.Querier` may skip the block by a range that does not cover it, and the iterator drops what
is not above the last timestamp it emitted.

The refinement, `WritePathImplementsStore`, rests on `SampleInv` and one thing more:
acknowledged samples are safe all along, but `Store` also keeps those not acknowledged that a
reader has seen, so between the rename of the raw block and `Reset` all of the head must be in
blocks (`HeadInBlocks`). The lemmas say of each kind of step what it may take: a removal of a
namesake (`RawWithoutOld`), a rename, a replay, a retention pass.

`TSDBQuery_proofs` is about what the reader is hidden from. A block that hides a sample from
the reader comes before it and reaches beyond it, so the theorems about what a reader gets
are about the order in which blocks cover a series.

- `RangeInv`: no raw block and no series of the head is later than the clock, and no two raw
  blocks have the same range.
- `ReadsAreRepeatable` (`RepeatableRead`), under every fault but a clock that steps back:
  `FreshInv` says of the samples scraped since the process started that the head goes on where
  a raw block ends (`FreshHead`), that what has left the head left with all that came before
  it (`FreshGone`), and that a block that comes first and reaches beyond a sample has the
  sample, too (`FreshOrder`). `ReaderInv` carries this over to the blocks a reader has open. From
  there to what is emitted (`Emits`): of the open blocks that have the sample take the first
  (`First`); nothing before it hides it.
- `ReadersSeeTheAcknowledged` (`QueryComplete`), under `QuietLog`: writes, block steps and
  retention may fail, and kills may fall anywhere. After a kill the head is what the log has,
  and blocks may have parts of it already, so the order above is not to be had. `PlaceInv`
  says instead that the head and the log go on where each raw block ends or are in it
  (`AfterBlocks`), that of a block they hold all of a series or what an earlier block has, too
  (`Whole`), that what the head has and the log has not was appended once more
  (`Reappended`), and that a block that hides a wanted sample comes after one that has it
  (`InOrder`). It rests on the whole invariant of the write path and on `SeriesInv` (an open
  file, segments in order, one ref for a series). `AskedInv` carries it over to the reader.

`QuietLog` leaves out the faults "rotate" and "truncate" for a reason: after one of them, a
kill, a replay, and a `Compact` that stops between the removal of a namesake and the rename
that follows, an acknowledged sample is behind a later block that reaches beyond it, and a
reader does not get it until the next `Compact`. No run has these faults together with a
reader. Three theorems about the reader state what no run checks:

- `ReadersSeeTheFresh` is what is left of `QueryComplete` under these and all other faults but
  a clock that steps back: a sample hidden in this way is one of an earlier process. What was
  scraped and acknowledged since the start is still in the head or in a raw block
  (`FreshAcked`), and the order of the blocks that `FreshInv` keeps for such samples does the
  rest (`FreshEmitted`, shared with `ReadsAreRepeatable`).
- `ReadersMixNoSeries`, under `WholeWrites`: the opened blocks keep the label sets that
  `RefInv` gives them, whatever becomes of their directories, so no series a reader is given
  has a sample of another one, and no bucket sums one up.
- `ReadersGetEachOnce`, under any fault the module has: of two parts with the same timestamp
  one is read later and skips it (`SeriesOnce`), for `Before` puts any two blocks in an order.

`Sessions_proofs` rests on `SessionsAssumption` only. `SlotInv` counts the slots by the
requests that hold one; `CreateInv` says that a token about to be
entered has not been logged out; `SessionInv` that
a session's ages are those of its history, at most a waiting request's delay apart; `KeptInv`
that what has not expired by its history is in the store. Together with the types they are
inductive and give `SessionTypes`, `SlotsAreCounted`, `LiveSessionsAreKept`,
`AbsoluteTimeEnds` and `EndsAreFinal`, for any number of requests and tokens, any TTL and any
delay in front of the mutex.

`Alerts_proofs` rests on `AlertsAssumption` only. `AgeInv`: an alert has been active for no
longer than it has not been found false, and one that fires for its `For` at least. `BatchInv`
and `SentInv`: a batch tells of what has begun and ended since the last evaluation, and the
notifier remembers the delivery of nothing but what fires, so its filter holds back no alert
that begins to. `SyncInv`: what the receiver does not know is in the batch, which survives
every retry. With them `AlertTypes`, `ForIsRespected` and `ReceiverIsInSync` follow, for any
number of rules, alerts, attempts and restarts.

`Portal_proofs` rests on `PortalAssumption` only. `RefusedInv`: a 401 in flight tells the
truth for good, because a session that has ended does not come back and a new one is none of
those in flight. `PollInv`: only the page in view waits for polls, and only for those of its
target. The lemmas about `Screen` (`ScreenCalls`, `ScreenRequests`, `ScreenTypes`,
`ScreenPolls`) say once what a change of the screen does to the requests in flight. The
theorems are `PortalTypes`, `SignOffHasACause` and `AnswersAreOfTheTarget`, for any number of
targets, sessions, requests and failures.

`Console_proofs` rests on the assumptions of the modules it composes (there are assets,
pages, reasons and so on, and `None` is none of them). The invariant has the types of what
every page has (`FeedInv`: the request or the timer, and the actions in flight, each one that
its page can have sent), those of the page in view (`PageTypes`), and what the two have to do
with each other: the target of the validation page is held by its phase (`TargetInv`), a query
and a banner are of it (`QueryInv`, `BannerInv`), a start that follows a save carries the
choice that was saved (`ChosenInv`), and each mark stands for an action that is out
(`MineInv`, with `AssistantInv` and `HealthInv` for what the snapshot settles). It gives
`ConsoleTypes`, `BannerIsRight`, `ActionsAreAccountedFor`, `BurninStartsAsChosen` and
`TheTargetIsHeld`, for any number of GPUs, actions in flight, failures and departures.

`Views_proofs`: `LookInv` says that a call not cancelled asks for what is selected (`LiveInv`),
that only what is mounted has a selection (`MountedInv`), and for the screens that keep data
over a change that they are forgotten or tied to their selection (`ForgetInv`, `PairInv`,
`SheetInv`); with it `AnswersAreOfTheSelection`. `MenuInv` relates the picked
top to the path before and after the effect; the theorem `MenuIsAtThePage` needs to know what
the menu tables say of each path, which is `MenuTables`, an assumption without parameters that
TLC evaluates.

The figures of the board and the pages of the idle table are data, and what is proved of them
rests on lemmas about data:

- `EachIsCountedOnce` (`CountedOnce`). `WallInv` says what both polls of the board are made of
  (whole nodes) and `FilterInv` what may be chosen in the filter bar; no more is needed of the
  behaviour. `OneCell`: a GPU that either poll names has one cell, because what is added is
  added by nodes. `SumOfParts`: a function that counts the parts of a finite set sums to the
  size of the set. `SumFunction` is a fold, so its value is had by an induction over the size
  of the set that `LeastNat` (a set of naturals that is not empty has a least one) replaces.
  Then each strip, the providers, the alerts, the values of a field and the rows of a
  grouping are such functions (`StripsAddUp`, `ProvidersAddUp`, `AlertsPart`, `FieldParts`,
  `CutsAddUp`); `RestIs` says what the fields leave over, and `SumOfSome` what some of the
  values sum to.
- `EveryRowIsOnAPage` (`EveryRowOnAPage`). `TableInv` says that page and page size are
  positive; how the list changes under the page does not matter, for `Current` is computed
  from the list of the moment. `PagesFlatten` puts the pages of any sequence together again,
  `KeptParts` says that the verdicts' filters part the rows, so the figures above the table
  add up. `Kept` and `FlattenSeq` are recursive in the length of a sequence; `KeptAppend` and
  `FlattenIs` open them up one element at a time.
- `ThePagerReaches`: `PagerReaches` for every number of pages, where TLC evaluates it for 1
  to 14.

The assumptions are those of the modules: there are finitely many GPUs, providers and alerts of
no node, `All` is no label, status, severity or verdict, and `ByIdleness`, the order of the
table, is a sequence of pooled GPUs.

What the proofs found. `Health` let an alert that had left the list come back under the same
id, so a mark of its acknowledgement could be one of an alert not acknowledged; an id is
its alert's own (`lib/demoApi.ts`), and the model says so now. Several CASEs of the acting
pages had overlapping guards, whose value TLC takes from the first and TLA+ leaves open; they are IFs or
disjuncts now. The reader took blocks of equal `MinTime` in any order, where the directory
gives one. And an earlier `RepeatableRead`, which did not ask when a sample was scraped, was
false beyond the bounds of its run. Least-number arguments (the first block, the first record
of a series, the shortest sequence or the smallest set for which something fails) work, through
`WFMin` and a set of the numbers in question, where the library's induction theorems, which
take an operator, do not.

Model-checked only:

- liveness under fairness, which is out of the prover's reach: `EvaluationGoesOn`,
  `FiringIsTold`, `SlotIsFreed`, `SkeletonEnds`, `ExpiryIsNoticed`, `CatchesUp`,
  `ButtonsComeBack`, `SnapshotCatchesUp`, `WallIsWhole`, `SheetIsFilled`.

Every invariant and every action property of the passing runs is stated by a theorem; where a
theorem assumes something of the faults, they include those of the run that checks it.

## 5. Not modelled

- PromQL, label matching, the exposition parser, discovery, chunk coding and the merges of
  postings are pure code, abstracted to what the write path and the reader need of them.
- Scraping, the API handlers and the process lifecycle appear as the callers of `Append`,
  `Compact`, the reader and kills; the order of the shutdown and an `Append` after `Close`
  do not. `Snapshot`'s unsynchronised reads of `Rule.active` are a data race, whose outcome
  (the runtime ends the process) is a restart in the model.
- The loss of the page cache (a power failure, unlike a kill) and half-removed block
  directories.
- The serving and roadmap pages send and keep nothing; the components that draw what they are
  given, the header's count of open alerts, the chart of the deployment and the build
  information.

What is known of the code and shown by no run: with the fault "remove" `LabelFidelity` fails
(the old segment's refs meet the new series); a block takes the place of another with the same
first and last timestamp (these samples count as given up); descending refs after a failed
write in the postings of a block; a rollup bucket cut by a compaction is read in part; rollup
series carry the labels of the raw one, so a selector finds both; polls that overlap may put
an older answer over a newer one for a while.

## 6. Plan

1. *Lifecycle*: scraper, `compactLoop`, rule manager and shutdown over `Store`: order of
   `Close` and the goroutines, a slow target, readiness; range queries as several readers.
2. *Proofs*: a run that shows what `QueryComplete` loses to a failed rotation or truncation,
   and that `Compact` ends it; what a reader gets when the clock steps back.
3. *Algorithms*: postings merges, `rate`, instant and range selectors, binary matching, as
   operators against reference definitions; matchers and the rollup series they catch.
4. Half-removed blocks and the loss of the page cache as faults of `TSDB`.
