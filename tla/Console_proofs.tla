---------------------------- MODULE Console_proofs ----------------------------
(***************************************************************************)
(* What holds of the pages under GpuLayout for any number of GPUs, rules,  *)
(* reasons, alerts, actions in flight, failures and departures.            *)
(***************************************************************************)
EXTENDS Console, FiniteSetTheorems, TLAPS

(***************************************************************************)
(* The inductive invariant: the types of what every page has (FeedInv) and *)
(* of what is the page's own (PageTypes), then what the page in view has   *)
(* to do with the actions in flight.                                       *)
(***************************************************************************)
AnyOf(names, of, val, want) ==
  [slot : Slots, act : names, of : of, val : val, want : want,
   from : {"page", "layout", "gone"}, is : {"sent", "ok", "refused", "unauth", "lost"}]

\* The actions a page sends.
ActsOf(p) ==
  CASE p = "validation"  -> AnyOf({"configure"} \cup GateNames, Assets \cup {None},
                                  Configs \cup {None}, Configs \cup {None})
    [] p = "idle"        -> AnyOf({"start-idle-validation", "return-idle-to-service"}, Gpus,
                                  {None}, {None})
    [] p = "remediation" -> AnyOf({"set-mode"}, {None}, Modes, {None})
                            \cup AnyOf({"approve-isolation", "jump-phase"}, {None}, Nat, {None})
    [] p = "ruleset"     -> AnyOf({"set-rule-enabled"}, Rules, BOOLEAN, {None})
    [] p = "assistant"   -> AnyOf({"approve-isolation"}, {None}, {None}, {None})
    [] p = "incident"    -> AnyOf(CTA \cup {"report-false-positive"}, {Victim}, {None}, {None})
    [] p = "board"       -> AnyOf(CTA, {Victim}, {None}, {None})
    [] p = "efficiency"  -> AnyOf({"report-false-positive"}, Gpus, {None}, {None})
                            \cup AnyOf({"register-idle-reason"}, Gpus, Reasons, {None})
    [] p = "health"      -> AnyOf({"ack-alert"}, Alarms, {None}, {None})

\* The state of a page.
DetailOf == [of : Assets \cup {None}, gates : SUBSET GateNames]

QueryOf == [is : {"timer", "sent", "ok"}, of : Assets \cup {None}, gates : SUBSET GateNames]

ValidationLocal ==
  [param : Gpus \cup {None}, pinned : Gpus \cup {None}, target : Assets \cup {None},
   phase : Phases \cup {"none"}, busy : BOOLEAN, choice : Configs \cup {None}, saved : BOOLEAN,
   err : Assets \cup {None}, notice : Assets \cup {None}, late : BOOLEAN,
   detail : DetailOf, query : QueryOf]

IdleLocal == [selected : Gpus \cup {None}, acting : Gpus \cup {None}, err : Gpus \cup {None}]

RemediationLocal ==
  [pending : Modes \cup {None}, modeError : BOOLEAN, card : Nat,
   confirm : BOOLEAN, busy : BOOLEAN, jumping : BOOLEAN, error : BOOLEAN]

RulesetLocal    == [pending : Rules \cup {None}, error : BOOLEAN]
AssistantLocal  == [seeded : BOOLEAN, acting : BOOLEAN, open : Int]
IncidentLocal   == [pending : BOOLEAN, error : BOOLEAN]
BoardLocal      == [acting : BOOLEAN]
EfficiencyLocal == [done : SUBSET Gpus, overlay : [Gpus -> Reasons \cup {None}]]
HealthLocal     == [acked : SUBSET Alarms]

LocalsOf(p) ==
  CASE p = "validation"  -> ValidationLocal
    [] p = "idle"        -> IdleLocal
    [] p = "remediation" -> RemediationLocal
    [] p = "ruleset"     -> RulesetLocal
    [] p = "assistant"   -> AssistantLocal
    [] p = "incident"    -> IncidentLocal
    [] p = "board"       -> BoardLocal
    [] p = "efficiency"  -> EfficiencyLocal
    [] p = "health"      -> HealthLocal

\* The layout: its request ends with it, and so does the page and the part anybody takes in
\* the answer of an action.
FetchInv ==
  /\ fetch \in [is : {"timer", "sent", "ok", "fail", "off"}, seen : Servers \cup {NoSnap}]
  /\ fetch.is = "ok" => fetch.seen \in Servers
  /\ fetch.is = "off" <=> status = "anon"

AnonInv ==
  status = "anon" => snap = NoSnap /\ local = Fresh /\ \A a \in acts : a.from = "gone"

OwnSlots == \A a, b \in acts : a.slot = b.slot => a = b

Counters ==
  /\ events \in 0 .. MaxEvents /\ moves \in 0 .. MaxMoves
  /\ failures \in Nat /\ leaves \in Nat /\ failures + leaves <= MaxTroubles
  /\ lost \in BOOLEAN

FeedInv ==
  /\ page \in PageNames /\ Counters
  /\ session \in BOOLEAN /\ status \in {"authed", "anon"}
  /\ snap \in Servers \cup {NoSnap}
  /\ FetchInv /\ AnonInv /\ OwnSlots

PageTypes == srv \in Servers /\ acts \subseteq ActsOf(page) /\ local \in LocalsOf(page)

TypeInv == FeedInv /\ PageTypes

\* GpuValidation: the target is the one the newest snapshot gives, and what is pinned is what
\* the page shows of the live ones.
TargetOK(l, s) ==
  /\ l.target = Target(l, s)
  /\ s # NoSnap /\ LiveAsset(l.pinned, s) # None => l.pinned = LiveAsset(l.pinned, s)

BannerOK(l) == \A of \in {l.err, l.notice} : of \in {None, l.target} \/ l.late

QueryOK(l) == l.query.of = IF l.query.is = "timer" THEN None ELSE l.target

TargetInv == TargetOK(local, snap)
BannerInv == BannerOK(local)
QueryInv  == QueryOK(local)

\* As long as nobody has left the page, or the session, one action at most is out, and the
\* configuration it carries or has saved is the one that was chosen.
ChosenInv ==
  leaves = 0 =>
    /\ session /\ status = "authed"
    /\ \A a, b \in acts : a = b
    /\ \A a \in acts :
         /\ Own(a) /\ a.is # "unauth" /\ local.busy
         /\ a.act = "configure" /\ a.want # None
              => a.val = a.want /\ (a.is = "ok" => srv.cfg = a.want)
         /\ a.act = "start-burnin" => srv.cfg = a.want

SeenInv == TargetInv /\ BannerInv /\ QueryInv

\* The actions of the page in view.
Mine == {a \in acts : Own(a)}

\* GpuHealth: no alert that was ever seen is still to come, and what was answered is not
\* open any more.
Seen(s) == \A n \in Alarms : s[n] # "coming" => srv[n] # "coming"

HealthInv ==
  /\ (snap # NoSnap => Seen(snap)) /\ (fetch.is = "ok" => Seen(fetch.seen))
  /\ \A n \in local.acked : srv[n] # "coming"
  /\ \A a \in Mine : /\ srv[a.of] # "coming"
                     /\ a.is \in {"ok", "refused"} => srv[a.of] # "open"

HealthMine == \A n \in local.acked : srv[n] = "open" => \E a \in Mine : a.of = n

HealthAll == HealthInv /\ (~lost => HealthMine)

\* GpuAssistant: the open questions are those whose action is out, and those whose answer
\* was lost.
Answerable == {a \in Mine : a.is # "lost"}

AssistantInv ==
  /\ Cardinality(Mine) <= local.open
  /\ local.open <= Cardinality(Answerable) + failures

AssistantAll == AssistantInv /\ (~lost => local.open = Cardinality(Mine))

\* S is of one action at most, and there is one just as long as w waits.
Out(S, w) == (w <=> S # {}) /\ \A a, b \in S : a = b

Doing(act) == {a \in Mine : a.act = act}

OnCard(act) == {a \in Doing(act) : a.val = local.card}

MineInv ==
  CASE page = "incident"    -> Out(Mine, local.pending)
    [] page = "board"       -> Out(Mine, local.acting)
    [] page = "ruleset"     -> Out(Mine, local.pending # None)
    [] page = "validation"  -> Out(Mine, local.busy)
    [] page = "idle"        -> local.acting # None => \E a \in Mine : a.of = local.acting
    [] page = "remediation" ->
         /\ Out(Doing("set-mode"), local.pending # None)
         /\ Out(OnCard("approve-isolation"), local.busy)
         /\ Out(OnCard("jump-phase"), local.jumping)
         /\ \A a \in Mine : a.act # "set-mode" => a.val <= local.card
    [] page \in {"assistant", "health", "efficiency"} -> TRUE

IInv ==
  /\ TypeInv
  /\ page = "validation" => SeenInv /\ ChosenInv
  /\ page = "health" => HealthAll
  /\ page = "assistant" => AssistantAll
  /\ ~lost => MineInv

-----------------------------------------------------------------------------
(* Finite sets of actions, and the least of a set of numbers.               *)

\* A set of numbers has a least element: its initial segments are finite, and of finite
\* sets there is no infinite descent.
LEMMA LeastNumber ==
  ASSUME NEW S \in SUBSET Nat, S # {}
  PROVE  \E n \in S : \A m \in S : n <= m
<1> DEFINE upto(n) == 1 .. n
           T == {upto(n) : n \in S}
<1>1. T \subseteq FiniteSubsetsOf(Nat)
  BY FS_Interval DEF FiniteSubsetsOf
<1>2. T # {}
  OBVIOUS
<1>3. PICK x \in T : \A y \in T : <<y, x>> \notin StrictSubsetOrdering(Nat)
  <2>. HIDE DEF T
  <2>. QED
    BY <1>1, <1>2, FS_StrictSubsetOrderingWellFounded, WFMin
<1>4. PICK n \in S : x = upto(n)
  BY <1>3
<1>5. ASSUME NEW m \in S, m < n PROVE FALSE
  <2>1. upto(m) \in T /\ upto(m) \in SUBSET Nat /\ upto(n) \in SUBSET Nat
    BY <1>5
  <2>2. upto(m) \subseteq upto(n) /\ upto(m) # upto(n)
    <3>1. n \in upto(n) /\ n \notin upto(m)
      BY <1>5
    <3>2. upto(m) \subseteq upto(n)
      BY <1>5
    <3>. QED
      BY <3>1, <3>2
  <2>3. <<upto(m), upto(n)>> \in StrictSubsetOrdering(Nat)
    BY <2>1, <2>2 DEF StrictSubsetOrdering
  <2>. QED
    BY <1>3, <1>4, <2>1, <2>3
<1>. QED
  BY <1>4, <1>5

\* With a slot of its own each, there are no more actions than slots.
LEMMA SlotsBound ==
  ASSUME NEW S, \A a \in S : a.slot \in Slots, \A a, b \in S : a.slot = b.slot => a = b
  PROVE  IsFiniteSet(S) /\ Cardinality(S) <= MaxActs
<1> DEFINE slot == [a \in S |-> a.slot]
<1>1. IsFiniteSet(Slots) /\ Cardinality(Slots) = MaxActs
  BY FeedAssumption, FS_Interval DEF Slots
<1>2. slot \in Injection(S, Slots)
  BY DEF Injection, IsInjective
<1>. QED
  BY <1>1, <1>2, FS_Injection

\* While there are fewer, a slot is free.
LEMMA FreeSlotIsFree ==
  ASSUME \A a \in acts : a.slot \in Slots, OwnSlots, Cardinality(acts) < MaxActs
  PROVE  FreeSlot \in Slots /\ \A a \in acts : a.slot # FreeSlot
<1>1. \E n \in Slots : \A a \in acts : a.slot # n
  <2> SUFFICES ASSUME \A n \in Slots : \E a \in acts : a.slot = n PROVE FALSE
    OBVIOUS
  <2> DEFINE holder == [n \in Slots |-> CHOOSE a \in acts : a.slot = n]
  <2>1. \A n \in Slots : holder[n] \in acts /\ holder[n].slot = n
    OBVIOUS
  <2>2. holder \in Injection(Slots, acts)
    <3>. HIDE DEF holder
    <3>1. holder \in [Slots -> acts]
      BY <2>1 DEF holder
    <3>. QED
      BY <2>1, <3>1 DEF Injection, IsInjective
  <2>3. IsFiniteSet(acts)
    BY SlotsBound DEF OwnSlots
  <2>4. Cardinality(Slots) <= Cardinality(acts)
    BY <2>2, <2>3, FS_Injection
  <2>5. Cardinality(Slots) = MaxActs
    BY FeedAssumption, FS_Interval DEF Slots
  <2>. QED
    BY <2>3, <2>4, <2>5, FS_CardinalityType, FeedAssumption
<1>. QED
  BY <1>1 DEF FreeSlot

\* The records of all pages have these fields.
LEMMA ActFields ==
  ASSUME NEW p \in PageNames, NEW a \in ActsOf(p)
  PROVE  /\ a = [slot |-> a.slot, act |-> a.act, of |-> a.of, val |-> a.val, want |-> a.want,
                  from |-> a.from, is |-> a.is]
         /\ a.slot \in Slots
         /\ a.from \in {"page", "layout", "gone"}
         /\ a.is \in {"sent", "ok", "refused", "unauth", "lost"}
BY DEF ActsOf, AnyOf, PageNames

\* What becomes of an action changes neither what it asks for nor its page.
LEMMA ActChanges ==
  ASSUME NEW p \in PageNames, NEW a \in ActsOf(p),
         NEW is \in {"sent", "ok", "refused", "unauth", "lost"},
         NEW from \in {"page", "layout", "gone"}
  PROVE  /\ [a EXCEPT !.is = is] \in ActsOf(p) /\ [a EXCEPT !.from = from] \in ActsOf(p)
         /\ [a EXCEPT !.is = is] = [slot |-> a.slot, act |-> a.act, of |-> a.of, val |-> a.val,
                                     want |-> a.want, from |-> a.from, is |-> is]
         /\ [a EXCEPT !.from = from] = [slot |-> a.slot, act |-> a.act, of |-> a.of, val |-> a.val,
                                         want |-> a.want, from |-> from, is |-> a.is]
<1>1. \E names, of, val, want :
        a \in AnyOf(names, of, val, want) /\ AnyOf(names, of, val, want) \subseteq ActsOf(p)
  BY DEF ActsOf, PageNames
<1>2. PICK names, of, val, want :
        a \in AnyOf(names, of, val, want) /\ AnyOf(names, of, val, want) \subseteq ActsOf(p)
  BY <1>1
<1>3. a \in AnyOf(names, of, val, want)
  BY <1>2
<1>4. /\ [a EXCEPT !.is = is] = [slot |-> a.slot, act |-> a.act, of |-> a.of, val |-> a.val,
                                  want |-> a.want, from |-> a.from, is |-> is]
      /\ [a EXCEPT !.from = from] = [slot |-> a.slot, act |-> a.act, of |-> a.of, val |-> a.val,
                                      want |-> a.want, from |-> from, is |-> a.is]
  BY <1>3 DEF AnyOf
<1>5. /\ [a EXCEPT !.is = is] \in AnyOf(names, of, val, want)
      /\ [a EXCEPT !.from = from] \in AnyOf(names, of, val, want)
  BY <1>3 DEF AnyOf
<1>. QED
  BY <1>2, <1>4, <1>5

-----------------------------------------------------------------------------
(* GpuValidation: the asset.                                                *)

LEMMA FirstWithIs ==
  ASSUME NEW s \in ValidationSrv, NEW v
  PROVE  /\ FirstWith(s, v) \in Gpus \cup {None}
         /\ FirstWith(s, v) # None => s.verdict[FirstWith(s, v)] = v
<1> DEFINE at == {i \in DOMAIN Line : s.verdict[Line[i]] = v}
           first == CHOOSE i \in at : \A j \in at : i <= j
<1>1. CASE at = {}
  BY <1>1 DEF FirstWith
<1>2. CASE at # {}
  <2>1. at \in SUBSET Nat
    BY FeedAssumption
  <2>2. \E i \in at : \A j \in at : i <= j
    <3>. HIDE DEF at
    <3>. QED
      BY <1>2, <2>1, LeastNumber
  <2>3. first \in at
    BY <2>2
  <2>4. FirstWith(s, v) = Line[first]
    BY <1>2 DEF FirstWith
  <2>5. Line[first] \in Gpus /\ s.verdict[Line[first]] = v
    BY <2>3 DEF Gpus
  <2>. QED
    BY <2>4, <2>5
<1>. QED
  BY <1>1, <1>2

\* Once chosen by a snapshot, the live asset is the live asset of that snapshot.
LEMMA LiveAssetIs ==
  ASSUME NEW s \in ValidationSrv, NEW p \in Gpus \cup {None}
  PROVE  /\ LiveAsset(p, s) \in Gpus \cup {None}
         /\ LiveAsset(LiveAsset(p, s), s) = LiveAsset(p, s)
<1>1. \A v : /\ FirstWith(s, v) \in Gpus \cup {None}
             /\ FirstWith(s, v) # None => s.verdict[FirstWith(s, v)] = v
  BY FirstWithIs
<1>2. ~Held(None, s)
  BY DEF Held
<1>3. CASE Held(p, s)
  BY <1>3 DEF LiveAsset
<1>4. CASE ~Held(p, s)
  <2>1. \/ LiveAsset(p, s) = None /\ LiveAsset(None, s) = None
        \/ \E v \in {"validating", "ready", "failed"} :
             LiveAsset(p, s) = FirstWith(s, v) /\ FirstWith(s, v) # None
    BY <1>2, <1>4 DEF LiveAsset
  <2>2. LiveAsset(p, s) # None => Held(LiveAsset(p, s), s)
    BY <1>1, <2>1 DEF Held
  <2>. QED
    BY <1>1, <2>1, <2>2 DEF LiveAsset
<1>. QED
  BY <1>3, <1>4

LEMMA BannersGoneIs ==
  ASSUME NEW l \in ValidationLocal
  PROVE  /\ BannersGone(l) \in ValidationLocal
         /\ BannersGone(l).param = l.param /\ BannersGone(l).pinned = l.pinned
         /\ BannersGone(l).busy = l.busy /\ BannersGone(l).query = l.query
         /\ BannersGone(l).err = None /\ BannersGone(l).notice = None
<1> DEFINE l1 == [l EXCEPT !.err = None]
           l2 == [l1 EXCEPT !.notice = None]
<1>1. /\ l1 \in ValidationLocal /\ l1.err = None
      /\ l1.param = l.param /\ l1.pinned = l.pinned /\ l1.busy = l.busy /\ l1.query = l.query
  BY DEF ValidationLocal
<1>. HIDE DEF l1
<1>2. /\ l2 \in ValidationLocal /\ l2.err = None /\ l2.notice = None
      /\ l2.param = l.param /\ l2.pinned = l.pinned /\ l2.busy = l.busy /\ l2.query = l.query
  BY <1>1 DEF ValidationLocal
<1>3. BannersGone(l) = [l2 EXCEPT !.late = FALSE]
  BY DEF BannersGone, l1
<1>. HIDE DEF l2
<1>. QED
  BY <1>2, <1>3 DEF ValidationLocal

LEMMA TargetIs ==
  ASSUME NEW l \in ValidationLocal, NEW s \in ValidationSrv \cup {NoSnap}
  PROVE  Target(l, s) \in Assets \cup {None}
<1>1. l.param \in Gpus \cup {None} /\ l.pinned \in Gpus \cup {None}
  BY DEF ValidationLocal
<1>2. s # NoSnap => LiveAsset(l.pinned, s) \in Gpus \cup {None}
  BY <1>1, LiveAssetIs
<1>. QED
  BY <1>1, <1>2 DEF Target, Assets

\* What a render leaves, field by field.
LEMMA SettledFields ==
  ASSUME NEW l \in ValidationLocal, NEW s \in ValidationSrv \cup {NoSnap}
  PROVE  /\ Settled(l, s) \in ValidationLocal
         /\ Settled(l, s).target = Target(l, s) /\ Settled(l, s).param = l.param
         /\ Settled(l, s).busy = l.busy
         /\ Settled(l, s).pinned = IF s = NoSnap \/ LiveAsset(l.pinned, s) = None THEN l.pinned
                                   ELSE LiveAsset(l.pinned, s)
         /\ Settled(l, s).target = l.target =>
              /\ Settled(l, s).err = l.err /\ Settled(l, s).notice = l.notice
              /\ Settled(l, s).late = l.late
         /\ Settled(l, s).target # l.target =>
              Settled(l, s).err = None /\ Settled(l, s).notice = None
         /\ \/ Settled(l, s).query = Query(Target(l, s))
            \/ Settled(l, s).query = l.query /\ Target(l, s) = l.target
<1> DEFINE t  == Target(l, s)
           ph == IF s = NoSnap THEN "none" ELSE s.phase
           l1 == IF s = NoSnap \/ LiveAsset(l.pinned, s) = None THEN l
                 ELSE [l EXCEPT !.pinned = LiveAsset(l.pinned, s)]
           l2 == IF t = l.target THEN l1 ELSE BannersGone(l1)
           q  == IF Resubscribes(l, t, ph) THEN Query(t) ELSE l2.query
<1>1. t \in Assets \cup {None}
  BY TargetIs
<1>2. ph \in Phases \cup {"none"}
  BY DEF ValidationSrv
<1>3. /\ l1 \in ValidationLocal /\ l1.param = l.param /\ l1.target = l.target
      /\ l1.busy = l.busy /\ l1.err = l.err /\ l1.notice = l.notice /\ l1.late = l.late
      /\ l1.query = l.query
      /\ l1.pinned = IF s = NoSnap \/ LiveAsset(l.pinned, s) = None THEN l.pinned
                     ELSE LiveAsset(l.pinned, s)
  <2>1. s # NoSnap => LiveAsset(l.pinned, s) \in Gpus \cup {None}
    BY LiveAssetIs DEF ValidationLocal
  <2>. QED
    BY <2>1 DEF ValidationLocal
<1>. HIDE DEF t, ph, l1
<1>4. /\ l2 \in ValidationLocal /\ l2.param = l1.param /\ l2.busy = l1.busy
      /\ l2.pinned = l1.pinned /\ l2.query = l1.query
      /\ t = l.target => l2.err = l.err /\ l2.notice = l.notice /\ l2.late = l.late
      /\ t # l.target => l2.err = None /\ l2.notice = None
  BY <1>3, BannersGoneIs
<1>. HIDE DEF l2
<1>5. /\ q \in QueryOf
      /\ q = Query(t) \/ (q = l.query /\ t = l.target)
  <2>1. Query(t) \in QueryOf
    BY <1>1 DEF Query, QueryOf
  <2>2. l.query \in QueryOf
    BY DEF ValidationLocal
  <2>. QED
    BY <1>3, <1>4, <2>1, <2>2 DEF Resubscribes
<1>. HIDE DEF q
<1>6. Settled(l, s) = [l2 EXCEPT !.target = t, !.phase = ph, !.query = q]
  BY DEF Settled, t, ph, l1, l2, q
<1> DEFINE l3 == [l2 EXCEPT !.target = t]
           l4 == [l3 EXCEPT !.phase = ph]
<1>7. /\ l3 \in ValidationLocal /\ l3.target = t /\ l3.param = l2.param /\ l3.pinned = l2.pinned
      /\ l3.busy = l2.busy /\ l3.err = l2.err /\ l3.notice = l2.notice /\ l3.late = l2.late
  BY <1>1, <1>4 DEF ValidationLocal
<1>8. Settled(l, s) = [l4 EXCEPT !.query = q]
  BY <1>6
<1>. HIDE DEF l3
<1>9. /\ l4 \in ValidationLocal /\ l4.target = t /\ l4.param = l2.param /\ l4.pinned = l2.pinned
      /\ l4.busy = l2.busy /\ l4.err = l2.err /\ l4.notice = l2.notice /\ l4.late = l2.late
  BY <1>2, <1>7 DEF ValidationLocal
<1>. HIDE DEF l4
<1>10. /\ Settled(l, s) \in ValidationLocal /\ Settled(l, s).query = q
       /\ Settled(l, s).target = t /\ Settled(l, s).param = l2.param
       /\ Settled(l, s).pinned = l2.pinned /\ Settled(l, s).busy = l2.busy
       /\ Settled(l, s).err = l2.err /\ Settled(l, s).notice = l2.notice
       /\ Settled(l, s).late = l2.late
  BY <1>5, <1>8, <1>9 DEF ValidationLocal
<1>11. t = Target(l, s)
  BY DEF t
<1>. QED
  BY <1>3, <1>4, <1>5, <1>10, <1>11

\* The target of a settled page is the one it has settled on.
LEMMA SettledTarget ==
  ASSUME NEW l \in ValidationLocal, NEW s \in ValidationSrv \cup {NoSnap}
  PROVE  Settled(l, s).target = Target(Settled(l, s), s)
<1>1. l.pinned \in Gpus \cup {None}
  BY DEF ValidationLocal
<1>2. s # NoSnap => LiveAsset(Settled(l, s).pinned, s) = LiveAsset(l.pinned, s)
  BY <1>1, LiveAssetIs, SettledFields
<1>. QED
  BY <1>2, SettledFields DEF Target

-----------------------------------------------------------------------------
(* What the pages do keeps their types.                                     *)

LEMMA FreshTyped == ASSUME page \in PageNames PROVE Fresh \in LocalsOf(page)
<1>1. ValidationFresh \in LocalsOf("validation")
  BY DEF ValidationFresh, LocalsOf, ValidationLocal, NoDetail, Query, DetailOf, QueryOf
<1>2. CASE page = "validation"
  BY <1>1, <1>2 DEF Fresh
<1>3. CASE page = "idle"
  BY <1>3 DEF Fresh, LocalsOf, IdleLocal, IdleFresh
<1>4. CASE page = "remediation"
  BY <1>4 DEF Fresh, LocalsOf, RemediationLocal, RemediationFresh
<1>5. CASE page = "ruleset"
  BY <1>5 DEF Fresh, LocalsOf, RulesetLocal, RulesetFresh
<1>6. CASE page = "assistant"
  BY <1>6 DEF Fresh, LocalsOf, AssistantLocal, AssistantFresh
<1>7. CASE page = "incident"
  BY <1>7 DEF Fresh, LocalsOf, IncidentLocal, IncidentFresh
<1>8. CASE page = "board"
  BY <1>8 DEF Fresh, LocalsOf, BoardLocal, BoardFresh
<1>9. CASE page = "efficiency"
  <2>1. [g \in Gpus |-> None] \in [Gpus -> Reasons \cup {None}]
    OBVIOUS
  <2>. QED
    BY <1>9, <2>1 DEF Fresh, LocalsOf, EfficiencyLocal, EfficiencyFresh
<1>10. CASE page = "health"
  BY <1>10 DEF Fresh, LocalsOf, HealthLocal, HealthFresh
<1>. QED
  BY <1>2, <1>3, <1>4, <1>5, <1>6, <1>7, <1>8, <1>9, <1>10 DEF PageNames

LEMMA CardFreshIs ==
  ASSUME NEW l \in RemediationLocal
  PROVE  /\ CardFresh(l) \in RemediationLocal
         /\ CardFresh(l).pending = l.pending /\ CardFresh(l).card = l.card + 1
         /\ ~CardFresh(l).busy /\ ~CardFresh(l).jumping
<1> DEFINE l1 == [RemediationFresh EXCEPT !.pending = l.pending]
           l2 == [l1 EXCEPT !.modeError = l.modeError]
<1>1. /\ RemediationFresh \in RemediationLocal
      /\ ~RemediationFresh.busy /\ ~RemediationFresh.jumping
  BY DEF RemediationFresh, RemediationLocal
<1>2. l1 \in RemediationLocal /\ l1.pending = l.pending /\ ~l1.busy /\ ~l1.jumping
  BY <1>1 DEF RemediationLocal
<1>3. CardFresh(l) = [l2 EXCEPT !.card = l.card + 1]
  BY DEF CardFresh
<1>. HIDE DEF l1
<1>4. l2 \in RemediationLocal /\ l2.pending = l.pending /\ ~l2.busy /\ ~l2.jumping
  BY <1>2 DEF RemediationLocal
<1>. HIDE DEF l2
<1>. QED
  BY <1>3, <1>4 DEF RemediationLocal

LEMMA AfterTyped ==
  ASSUME page \in PageNames, NEW l \in LocalsOf(page), NEW s \in Servers \cup {NoSnap}
  PROVE  After(l, s) \in LocalsOf(page)
<1>1. CASE page = "validation"
  BY <1>1, SettledFields DEF After, Servers, ServersOf, LocalsOf
<1>2. CASE page = "remediation"
  BY <1>2, CardFreshIs DEF After, LocalsOf, RemediationSettled
<1>3. CASE page = "assistant"
  BY <1>3 DEF After, LocalsOf, AssistantLocal, AssistantSettled
<1>4. CASE page \notin {"validation", "remediation", "assistant"}
  BY <1>4 DEF After
<1>. QED
  BY <1>1, <1>2, <1>3, <1>4

\* The fields that the answer of an action leaves alone on the validation page.
LEMMA ValidationAfterFields ==
  ASSUME local \in ValidationLocal, NEW a \in ActsOf("validation")
  PROVE  /\ ValidationAfter(a) \in ValidationLocal
         /\ ValidationAfter(a).param = local.param /\ ValidationAfter(a).pinned = local.pinned
         /\ ValidationAfter(a).target = local.target
         /\ \/ ValidationAfter(a).query = local.query
            \/ ValidationAfter(a).query = Query(local.target)
         /\ ValidationAfter(a).busy = StartsNext(a)
         /\ ValidationAfter(a).err \in {local.err, a.of}
         /\ ValidationAfter(a).notice \in {local.notice, a.of}
         /\ local.late => ValidationAfter(a).late
         /\ (ValidationAfter(a).err # local.err \/ ValidationAfter(a).notice # local.notice)
              => a.of = local.target \/ ValidationAfter(a).late
<1>1. a.of \in Assets \cup {None}
  BY DEF ActsOf, AnyOf
<1>2. Query(local.target) \in QueryOf
  BY DEF Query, QueryOf, ValidationLocal
<1>3. CASE a.act = "configure" /\ a.is = "ok"
  <2>1. ValidationAfter(a) = [local EXCEPT !.choice = None, !.saved = TRUE, !.busy = (a.want # None)]
    BY <1>3 DEF ValidationAfter, AfterConfigure
  <2>. QED
    BY <1>3, <2>1 DEF ValidationLocal, StartsNext
<1>4. CASE a.act = "configure" /\ a.is # "ok"
  <2>1. ValidationAfter(a) = [local EXCEPT !.saved = FALSE, !.busy = FALSE, !.err = a.of,
                                           !.late = local.late \/ a.of # local.target]
    BY <1>4 DEF ValidationAfter, AfterConfigure, ValidationLocal
  <2>. QED
    BY <1>1, <1>4, <2>1 DEF ValidationLocal, StartsNext
<1>5. CASE a.act # "configure" /\ a.is # "ok"
  <2>1. ValidationAfter(a) = [local EXCEPT !.busy = FALSE, !.err = a.of,
                                           !.late = local.late \/ a.of # local.target]
    BY <1>5 DEF ValidationAfter, AfterOthers
  <2>. QED
    BY <1>1, <1>5, <2>1 DEF ValidationLocal, StartsNext
<1>6. CASE a.act # "configure" /\ a.is = "ok"
  <2>1. CASE a.act \in {"start-burnin", "return-to-service"}
    <3>1. ValidationAfter(a) = [local EXCEPT !.busy = FALSE]
      BY <1>6, <2>1 DEF ValidationAfter, AfterOthers
    <3>. QED
      BY <1>6, <3>1 DEF ValidationLocal, StartsNext
  <2>2. CASE a.act \notin {"start-burnin", "return-to-service"}
    <3>1. ValidationAfter(a) = [local EXCEPT !.busy = FALSE, !.notice = a.of,
                                             !.late = local.late \/ a.of # local.target,
                                             !.query = Query(local.target)]
      BY <1>6, <2>2 DEF ValidationAfter, AfterOthers, ValidationLocal
    <3>. QED
      BY <1>1, <1>2, <1>6, <3>1 DEF ValidationLocal, StartsNext
  <2>. QED
    BY <2>1, <2>2
<1>. QED
  BY <1>3, <1>4, <1>5, <1>6

LEMMA HandledTyped ==
  ASSUME page \in PageNames, local \in LocalsOf(page), NEW a \in ActsOf(page)
  PROVE  Handled(a) \in LocalsOf(page)
<1>1. CASE page = "validation"
  BY <1>1, ValidationAfterFields DEF Handled, LocalsOf
<1>2. CASE page = "idle"
  BY <1>2 DEF Handled, IdleAfter, LocalsOf, IdleLocal, ActsOf, AnyOf
<1>3. CASE page = "remediation"
  BY <1>3 DEF Handled, RemediationAfter, LocalsOf, RemediationLocal, ActsOf, AnyOf
<1>4. CASE page = "ruleset"
  BY <1>4 DEF Handled, RulesetAfter, LocalsOf, RulesetLocal
<1>6. CASE page = "assistant"
  <2>1. local \in AssistantLocal
    BY <1>6 DEF LocalsOf
  <2>2. AssistantAfter(a) \in AssistantLocal
    <3> DEFINE l1 == [local EXCEPT !.acting = FALSE]
    <3>1. l1 \in AssistantLocal /\ l1.open = local.open
      BY <2>1 DEF AssistantLocal
    <3>2. AssistantAfter(a) = [l1 EXCEPT !.open = l1.open - 1]
      BY <3>1 DEF AssistantAfter
    <3>. HIDE DEF l1
    <3>. QED
      BY <3>1, <3>2 DEF AssistantLocal
  <2>. QED
    BY <1>6, <2>2 DEF Handled, LocalsOf
<1>7. CASE page \in {"incident", "board", "health"}
  BY <1>7 DEF Handled, IncidentAfter, BoardAfter, BoardFresh,
                LocalsOf, IncidentLocal, BoardLocal
<1>5. CASE page = "efficiency"
  <2>1. a.of \in Gpus /\ (a.act = "report-false-positive" \/ a.val \in Reasons)
    BY <1>5 DEF ActsOf, AnyOf
  <2>. QED
    BY <1>5, <2>1 DEF Handled, EfficiencyAfter, LocalsOf, EfficiencyLocal
<1>. QED
  BY <1>1, <1>2, <1>3, <1>4, <1>5, <1>6, <1>7 DEF PageNames

LEMMA ThrownTyped ==
  ASSUME page \in PageNames, local \in LocalsOf(page)
  PROVE  Thrown \in LocalsOf(page)
BY DEF Thrown, IdleThrown, LocalsOf, IdleLocal, PageNames

\* The second request of a handler takes the place of the first.
LEMMA MoreTyped ==
  ASSUME page \in PageNames, NEW a \in ActsOf(page), NEW b \in More(a)
  PROVE  /\ b \in ActsOf(page) /\ More(a) = {b}
         /\ page = "validation" /\ StartsNext(a)
         /\ b = [slot |-> a.slot, act |-> "start-burnin", of |-> a.of, val |-> a.val,
                 want |-> a.want, from |-> a.from, is |-> "sent"]
<1>1. page = "validation" /\ StartsNext(a) /\ More(a) = {[a EXCEPT !.act = "start-burnin", !.is = "sent"]}
  BY DEF More, ValidationMore
<1>2. b = [slot |-> a.slot, act |-> "start-burnin", of |-> a.of, val |-> a.val,
           want |-> a.want, from |-> a.from, is |-> "sent"]
  <2>1. a = [slot |-> a.slot, act |-> a.act, of |-> a.of, val |-> a.val, want |-> a.want,
             from |-> a.from, is |-> a.is]
    BY ActFields
  <2>2. b = [a EXCEPT !.act = "start-burnin", !.is = "sent"]
    BY <1>1
  <2>. QED
    BY <2>1, <2>2
<1>3. b \in ActsOf(page)
  BY <1>1, <1>2 DEF ActsOf, AnyOf, GateNames
<1>. QED
  BY <1>1, <1>2, <1>3

-----------------------------------------------------------------------------
(* The actions in flight, after each of the things that happen to them.     *)

LEMMA BecomeIs ==
  ASSUME page \in PageNames, acts \subseteq ActsOf(page), OwnSlots, NEW a \in acts,
         NEW is \in {"sent", "ok", "refused", "unauth", "lost"}, Become(a, is)
  PROVE  /\ acts' \subseteq ActsOf(page) /\ OwnSlots'
         /\ acts' = (acts \ {a}) \cup {[a EXCEPT !.is = is]}
         /\ [a EXCEPT !.is = is] = [slot |-> a.slot, act |-> a.act, of |-> a.of, val |-> a.val,
                                     want |-> a.want, from |-> a.from, is |-> is]
         /\ (\A b \in acts : b.from = "gone") => \A b \in acts' : b.from = "gone"
<1> DEFINE b == [a EXCEPT !.is = is]
<1>1. /\ b \in ActsOf(page)
      /\ b = [slot |-> a.slot, act |-> a.act, of |-> a.of, val |-> a.val,
              want |-> a.want, from |-> a.from, is |-> is]
  BY ActChanges
<1>2. acts' = (acts \ {a}) \cup {b}
  BY DEF Become
<1>. HIDE DEF b
<1>3. b.slot = a.slot /\ b.from = a.from
  BY <1>1
<1>. QED
  BY <1>1, <1>2, <1>3 DEF OwnSlots, b

LEMMA SendIs ==
  ASSUME acts \subseteq ActsOf(page), page \in PageNames, OwnSlots, Cardinality(acts) < MaxActs,
         NEW act, NEW of, NEW val, NEW want, Action(act, of, val, want) \in ActsOf(page),
         Send(act, of, val, want)
  PROVE  /\ acts' \subseteq ActsOf(page) /\ OwnSlots'
         /\ acts' = acts \cup {Action(act, of, val, want)}
<1>1. \A a \in acts : a.slot \in Slots
  BY ActFields
<1>2. \A a \in acts : a.slot # FreeSlot
  BY <1>1, FreeSlotIsFree
<1>3. Action(act, of, val, want).slot = FreeSlot
  BY DEF Action
<1>4. acts' = acts \cup {Action(act, of, val, want)}
  BY DEF Send
<1>. QED
  BY <1>2, <1>3, <1>4 DEF OwnSlots

LEMMA LeftIs ==
  ASSUME page \in PageNames, acts \subseteq ActsOf(page), OwnSlots,
         NEW S \in SUBSET acts, NEW to \in {"layout", "gone"}, NEW rest \in SUBSET acts,
         acts' = {[a EXCEPT !.from = IF a \in S THEN to ELSE @] : a \in rest}
  PROVE  /\ acts' \subseteq ActsOf(page) /\ OwnSlots'
         /\ \A b \in acts' : \E a \in rest : b.from = IF a \in S THEN to ELSE a.from
<1>1. ASSUME NEW b \in acts'
      PROVE  \E a \in rest : /\ b \in ActsOf(page) /\ b.slot = a.slot
                             /\ b = [a EXCEPT !.from = IF a \in S THEN to ELSE @]
                             /\ b.from = IF a \in S THEN to ELSE a.from
  <2>1. PICK a \in rest : b = [a EXCEPT !.from = IF a \in S THEN to ELSE @]
    OBVIOUS
  <2> DEFINE from == IF a \in S THEN to ELSE a.from
  <2>2. from \in {"page", "layout", "gone"}
    BY ActFields
  <2>3. b = [a EXCEPT !.from = from]
    BY <2>1
  <2>. HIDE DEF from
  <2>4. /\ b \in ActsOf(page)
        /\ b = [slot |-> a.slot, act |-> a.act, of |-> a.of, val |-> a.val,
                want |-> a.want, from |-> from, is |-> a.is]
    BY <2>2, <2>3, ActChanges
  <2>5. b.slot = a.slot /\ b.from = from
    BY <2>4
  <2>. QED
    BY <2>1, <2>4, <2>5 DEF from
<1>2. acts' \subseteq ActsOf(page) /\ \A b \in acts' : \E a \in rest : b.from = IF a \in S THEN to ELSE a.from
  BY <1>1
<1>3. OwnSlots'
  BY <1>1 DEF OwnSlots
<1>. QED
  BY <1>2, <1>3

\* The answer of an action is taken; what the handler sends next has its place.
LEMMA AnsweredIs ==
  ASSUME page \in PageNames, acts \subseteq ActsOf(page), OwnSlots, NEW a \in acts,
         acts' = (acts \ {a}) \cup More(a)
  PROVE  /\ acts' \subseteq ActsOf(page) /\ OwnSlots'
         /\ \A b \in acts' : b \in acts \ {a} \/ (b \in More(a) /\ b.from = a.from)
<1>1. \A b \in More(a) : /\ b \in ActsOf(page) /\ b.slot = a.slot /\ b.from = a.from
                         /\ \A c \in More(a) : c = b
  BY MoreTyped
<1>. QED
  BY <1>1 DEF OwnSlots

-----------------------------------------------------------------------------
(* The server, and the operator.                                            *)

LEMMA BoardTurnsTyped ==
  ASSUME NEW s \in BoardSrv, NEW t \in BoardEvents(s)
  PROVE  t \in BoardSrv
<1>1. Len(Scenario) = 7 /\ DOMAIN Scenario = 1 .. 7
  BY DEF Scenario
<1>2. PICK i \in 1 .. 7 : t = Scenario[(i % 7) + 1]
  BY <1>1 DEF BoardEvents
<1>3. (i % 7) + 1 \in 1 .. 7
  OBVIOUS
<1>. QED
  BY <1>1, <1>2, <1>3 DEF BoardSrv

LEMMA EventsTyped ==
  ASSUME page \in PageNames, srv \in Servers, NEW s \in Events(srv)
  PROVE  s \in Servers
<1>1. CASE page = "validation"
  <2>1. srv \in ValidationSrv /\ s \in ValidationEvents(srv)
    BY <1>1 DEF Servers, ServersOf, Events
  <2>2. (\E p \in Phases : s = [srv EXCEPT !.phase = p]) => s \in ValidationSrv
    BY <2>1 DEF ValidationSrv
  <2>3. (\E g \in Gpus, v \in Verdicts : s = [srv EXCEPT !.verdict[g] = v]) => s \in ValidationSrv
    BY <2>1 DEF ValidationSrv
  <2>4. s \in ValidationSrv
    BY <2>1, <2>2, <2>3 DEF ValidationEvents
  <2>. QED
    BY <1>1, <2>4 DEF Servers, ServersOf
<1>2. CASE page = "idle"
  BY <1>2 DEF Servers, ServersOf, Events, IdleSrv, IdleEvents
<1>3. CASE page = "remediation"
  <2>1. srv \in RemediationSrv /\ s \in RemediationEvents(srv)
    BY <1>3 DEF Servers, ServersOf, Events
  <2>2. s \in RemediationSrv
    BY <2>1 DEF RemediationSrv, RemediationEvents
  <2>. QED
    BY <1>3, <2>2 DEF Servers, ServersOf
<1>4. CASE page = "ruleset"
  BY <1>4 DEF Events
<1>5. CASE page = "assistant"
  BY <1>5 DEF Servers, ServersOf, Events, AssistantSrv, AssistantEvents
<1>6. CASE page = "incident"
  BY <1>6 DEF Servers, ServersOf, Events, IncidentSrv, IncidentEvents
<1>7. CASE page = "board"
  BY <1>7, BoardTurnsTyped DEF Servers, ServersOf, Events
<1>8. CASE page = "efficiency"
  <2>1. srv \in EfficiencySrv /\ s \in EfficiencyEvents(srv)
    BY <1>8 DEF Servers, ServersOf, Events
  <2>2. PICK g \in Gpus, v \in Reasons \cup {"gone"} : s = [srv EXCEPT ![g] = v]
    BY <2>1 DEF EfficiencyEvents
  <2>3. s \in EfficiencySrv
    BY <2>1, <2>2 DEF EfficiencySrv
  <2>. QED
    BY <1>8, <2>3 DEF Servers, ServersOf
<1>9. CASE page = "health"
  BY <1>9 DEF Servers, ServersOf, Events, HealthSrv, HealthEvents
<1>. QED
  BY <1>1, <1>2, <1>3, <1>4, <1>5, <1>6, <1>7, <1>8, <1>9 DEF PageNames

LEMMA OutcomesTyped ==
  ASSUME page \in PageNames, srv \in Servers, NEW a \in ActsOf(page), NEW s \in Outcomes(a)
  PROVE  s \in Servers
<1>1. CASE page = "validation"
  <2>1. srv \in ValidationSrv /\ s \in ValidationOutcomes(a)
    BY <1>1 DEF Servers, ServersOf, Outcomes
  <2>2. ASSUME a.act = "configure" PROVE s \in ValidationSrv
    <3>1. a.val \in Configs /\ s = [srv EXCEPT !.cfg = a.val]
      BY <2>1, <2>2, ConsoleAssumption DEF ValidationOutcomes
    <3>. QED
      BY <2>1, <3>1 DEF ValidationSrv
  <2>3. ASSUME a.act \in {"start-burnin", "return-to-service"} PROVE s \in ValidationSrv
    <3>1. \E p \in Phases : s = [srv EXCEPT !.phase = p]
      BY <2>1, <2>3 DEF ValidationOutcomes, Phases
    <3>. QED
      BY <2>1, <3>1 DEF ValidationSrv
  <2>4. ASSUME a.act \notin {"configure", "start-burnin", "return-to-service"} PROVE s \in ValidationSrv
    <3>1. a.act \in Gates(srv, a.of) /\ s = [srv EXCEPT !.verdict[a.of] = "validating"]
      BY <2>1, <2>4 DEF ValidationOutcomes
    <3>2. a.of \in Gpus
      BY <2>4, <3>1 DEF Gates, GateNames
    <3>3. "validating" \in Verdicts
      BY DEF Verdicts
    <3>. QED
      BY <2>1, <3>1, <3>2, <3>3 DEF ValidationSrv
  <2>5. s \in ValidationSrv
    BY <2>2, <2>3, <2>4
  <2>. QED
    BY <1>1, <2>5 DEF Servers, ServersOf
<1>2. CASE page = "idle"
  <2>1. a.of \in Gpus
    BY <1>2 DEF ActsOf, AnyOf
  <2>. QED
    BY <1>2, <2>1 DEF Servers, ServersOf, Outcomes, IdleSrv, IdleOutcomes
<1>3. CASE page = "remediation"
  <2>1. srv \in RemediationSrv /\ s \in RemediationOutcomes(a)
    BY <1>3 DEF Servers, ServersOf, Outcomes
  <2>2. a.act \in {"set-mode", "approve-isolation", "jump-phase"} /\ (a.act = "set-mode" => a.val \in Modes)
    BY <1>3 DEF ActsOf, AnyOf
  <2>3. s \in RemediationSrv
    BY <2>1, <2>2 DEF RemediationSrv, RemediationOutcomes
  <2>. QED
    BY <1>3, <2>3 DEF Servers, ServersOf
<1>4. CASE page = "ruleset"
  <2>1. a.of \in Rules /\ a.val \in BOOLEAN
    BY <1>4 DEF ActsOf, AnyOf
  <2>2. srv \in [Rules -> BOOLEAN] /\ s = [srv EXCEPT ![a.of] = a.val]
    BY <1>4 DEF Servers, ServersOf, Outcomes, RulesetSrv, RulesetOutcomes
  <2>. QED
    BY <1>4, <2>1, <2>2 DEF Servers, ServersOf, RulesetSrv
<1>5. CASE page = "assistant"
  BY <1>5 DEF Servers, ServersOf, Outcomes, AssistantSrv, AssistantOutcomes
<1>6. CASE page = "incident"
  BY <1>6 DEF Servers, ServersOf, Outcomes, IncidentSrv, IncidentOutcomes, ActsOf, AnyOf
<1>7. CASE page = "board"
  BY <1>7, BoardTurnsTyped DEF Servers, ServersOf, Outcomes, BoardOutcomes
<1>8. CASE page = "efficiency"
  <2>1. a.of \in Gpus /\ (a.act # "report-false-positive" => a.val \in Reasons)
    BY <1>8 DEF ActsOf, AnyOf
  <2>. QED
    BY <1>8, <2>1 DEF Servers, ServersOf, Outcomes, EfficiencySrv, EfficiencyOutcomes
<1>9. CASE page = "health"
  <2>1. a.of \in Alarms
    BY <1>9 DEF ActsOf, AnyOf
  <2>. QED
    BY <1>9, <2>1 DEF Servers, ServersOf, Outcomes, HealthSrv, HealthOutcomes, AlarmStates
<1>. QED
  BY <1>1, <1>2, <1>3, <1>4, <1>5, <1>6, <1>7, <1>8, <1>9 DEF PageNames

\* What the operator does sends an action of the page, or none.
Pressing ==
  /\ Cardinality(acts) < MaxActs
  /\ \E act, of, val, want : Action(act, of, val, want) \in ActsOf(page) /\ Send(act, of, val, want)

Operated ==
  /\ status = "authed" /\ UNCHANGED <<srv, session, status, snap, fetch, histVars>>
  /\ local' \in LocalsOf(page)
  /\ acts' = acts \/ Pressing

\* An action with a slot of its own has the type its arguments say.
LEMMA ActionIs ==
  ASSUME TypeInv, Cardinality(acts) < MaxActs, NEW names, NEW ofs, NEW vals, NEW wants,
         NEW act \in names, NEW of \in ofs, NEW val \in vals, NEW want \in wants
  PROVE  Action(act, of, val, want) \in AnyOf(names, ofs, vals, wants)
<1>1. \A a \in acts : a.slot \in Slots
  BY ActFields DEF TypeInv, FeedInv, PageTypes
<1>2. FreeSlot \in Slots
  BY <1>1, FreeSlotIsFree DEF TypeInv, FeedInv
<1>. QED
  BY <1>2 DEF Action, AnyOf

\* Without a snapshot there is nothing to press, and nobody to press it without a login.
LEMMA InView ==
  ASSUME TypeInv
  PROVE  /\ snap # NoSnap => status = "authed" /\ snap \in ServersOf(page)
         /\ local # Fresh => status = "authed"
         /\ local \in LocalsOf(page) /\ srv \in ServersOf(page)
BY DEF TypeInv, FeedInv, AnonInv, PageTypes, Servers

LEMMA BusyNoErrorIs ==
  ASSUME local \in ValidationLocal
  PROVE  /\ BusyNoError \in ValidationLocal
         /\ BusyNoError.param = local.param /\ BusyNoError.pinned = local.pinned
         /\ BusyNoError.target = local.target /\ BusyNoError.query = local.query
         /\ BusyNoError.busy /\ BusyNoError.err = None /\ BusyNoError.notice = local.notice
         /\ BusyNoError.late = local.late
<1> DEFINE l1 == [local EXCEPT !.busy = TRUE]
<1>1. /\ l1 \in ValidationLocal /\ l1.param = local.param /\ l1.pinned = local.pinned
      /\ l1.target = local.target /\ l1.query = local.query /\ l1.busy
      /\ l1.notice = local.notice /\ l1.late = local.late
  BY DEF ValidationLocal
<1>2. BusyNoError = [l1 EXCEPT !.err = None]
  BY DEF BusyNoError
<1>. HIDE DEF l1
<1>. QED
  BY <1>1, <1>2 DEF ValidationLocal

\* A press of a button of the validation page.
ValidationPress ==
  /\ local' \in ValidationLocal
  /\ ~local.busy /\ local'.busy
  /\ local'.param = local.param /\ local'.pinned = local.pinned
  /\ local'.target = local.target /\ local'.query = local.query
  /\ local'.err = None /\ local'.notice \in {None, local.notice} /\ local'.late = local.late
  /\ CanSend
  /\ \E act \in {"configure"} \cup GateNames, of \in Assets \cup {None},
        val \in Configs \cup {None}, want \in Configs \cup {None} :
       /\ act = "configure" /\ want # None => val = want
       /\ act # "start-burnin"
       /\ Action(act, of, val, want) \in ActsOf("validation")
       /\ Send(act, of, val, want)

ValidationType ==
  /\ local' \in ValidationLocal /\ local'.busy = local.busy
  /\ local'.param = local.param /\ local'.pinned = local.pinned
  /\ local'.target = local.target /\ local'.query = local.query
  /\ local'.err = local.err /\ local'.notice = local.notice /\ local'.late = local.late

LEMMA ValidationOperates ==
  ASSUME TypeInv, page = "validation", ValidationNext
  PROVE  /\ status = "authed" /\ UNCHANGED <<srv, session, status, snap, fetch, histVars>>
         /\ \/ acts' = acts /\ \E u \in Gpus \cup {None} : OpenAsset(u)
            \/ acts' = acts /\ ValidationType
            \/ ValidationPress
<1>1. /\ snap # NoSnap => status = "authed" /\ snap \in ValidationSrv
      /\ local \in ValidationLocal
  BY InView DEF ServersOf, LocalsOf
<1>2. ASSUME NEW u \in Gpus \cup {None}, OpenAsset(u)
      PROVE  status = "authed" /\ acts' = acts /\ UNCHANGED <<srv, session, status, snap, fetch, histVars>>
  BY <1>2 DEF OpenAsset, serverVars
<1>3. ASSUME NEW c \in Configs, ChooseConfig(c)
      PROVE  /\ status = "authed" /\ UNCHANGED <<srv, session, status, snap, fetch, histVars>>
             /\ acts' = acts /\ ValidationType
  <2> DEFINE l1 == [local EXCEPT !.choice = c]
  <2>1. /\ l1 \in ValidationLocal /\ l1.param = local.param /\ l1.pinned = local.pinned
        /\ l1.target = local.target /\ l1.query = local.query /\ l1.busy = local.busy
        /\ l1.err = local.err /\ l1.notice = local.notice /\ l1.late = local.late
    BY <1>1 DEF ValidationLocal
  <2>2. local' = [l1 EXCEPT !.saved = FALSE]
    BY <1>3 DEF ChooseConfig
  <2>. HIDE DEF l1
  <2>3. ValidationType
    BY <2>1, <2>2 DEF ValidationLocal, ValidationType
  <2>. QED
    BY <1>1, <1>3, <2>3 DEF ChooseConfig, FormOpen, serverVars
<1>4. ASSUME NEW act \in {"configure"} \cup GateNames, act # "start-burnin",
             NEW of \in Assets \cup {None}, NEW val \in Configs \cup {None},
             NEW want \in {None, val}, ~local.busy,
             NEW l \in {BusyNoError, [BusyNoError EXCEPT !.notice = None]},
             Press(act, of, val, want, l)
      PROVE  /\ status = "authed" /\ UNCHANGED <<srv, session, status, snap, fetch, histVars>>
             /\ ValidationPress
  <2>1. /\ l \in ValidationLocal /\ l.busy
        /\ l.param = local.param /\ l.pinned = local.pinned
        /\ l.target = local.target /\ l.query = local.query
        /\ l.err = None /\ l.notice \in {None, local.notice} /\ l.late = local.late
    BY <1>1, BusyNoErrorIs DEF ValidationLocal
  <2>2. Action(act, of, val, want) \in ActsOf("validation")
    BY <1>4, ActionIs DEF Press, CanSend, ActsOf
  <2>. QED
    BY <1>4, <2>1, <2>2 DEF Press, CanSend, ValidationPress, serverVars
<1>5. CASE SaveProfile
  <2>1. Effective \in Configs
    BY <1>1, <1>5 DEF SaveProfile, FormOpen, Effective, ValidationLocal, ValidationSrv
  <2>. QED
    BY <1>4, <1>5, <2>1 DEF SaveProfile, FormOpen, Assets
<1>6. CASE StartBurnin
  <2>1. Effective \in Configs
    BY <1>1, <1>6 DEF StartBurnin, Offered, Effective, ValidationLocal, ValidationSrv
  <2>. QED
    BY <1>4, <1>6, <2>1 DEF StartBurnin, Offered, Assets
<1>7. CASE ReturnToService
  BY <1>4, <1>7 DEF ReturnToService, Offered, Assets, GateNames
<1>8. ASSUME NEW act \in {"start-precheck", "start-reuse-burnin"}, RunValidation(act)
      PROVE  /\ status = "authed" /\ UNCHANGED <<srv, session, status, snap, fetch, histVars>>
             /\ ValidationPress
  <2>1. local.target \in Assets \cup {None}
    BY <1>1 DEF ValidationLocal
  <2>. QED
    BY <1>4, <1>8, <2>1 DEF RunValidation, Offered, GateNames
<1>. QED
  BY <1>2, <1>3, <1>5, <1>6, <1>7, <1>8 DEF ValidationNext

LEMMA IdleOperates ==
  ASSUME TypeInv, page = "idle", IdleNext
  PROVE  /\ Operated
         /\ \/ acts' = acts /\ local'.acting = local.acting
            \/ \E act, g : Send(act, g, None, None) /\ local'.acting = g
<1>1. /\ snap # NoSnap => status = "authed" /\ snap \in IdleSrv
      /\ local \in IdleLocal /\ (local # IdleFresh => status = "authed")
      /\ LocalsOf(page) = IdleLocal
      /\ ActsOf(page) = AnyOf({"start-idle-validation", "return-idle-to-service"}, Gpus, {None}, {None})
  BY InView DEF ServersOf, LocalsOf, Fresh, ActsOf
<1>2. ASSUME NEW g \in Gpus, SelectGpu(g)
      PROVE  Operated /\ acts' = acts /\ local'.acting = local.acting
  BY <1>1, <1>2 DEF SelectGpu, Listed, Operated, IdleLocal, serverVars
<1>3. CASE CloseDrawer
  <2>1. local # IdleFresh
    BY <1>3 DEF CloseDrawer, IdleFresh
  <2> DEFINE l1 == [local EXCEPT !.selected = None]
  <2>2. l1 \in IdleLocal /\ l1.acting = local.acting
    BY <1>1 DEF IdleLocal
  <2>3. local' = [l1 EXCEPT !.err = None]
    BY <1>3 DEF CloseDrawer
  <2>. HIDE DEF l1
  <2>4. local' \in IdleLocal /\ local'.acting = local.acting
    BY <2>2, <2>3 DEF IdleLocal
  <2>. QED
    BY <1>1, <1>3, <2>1, <2>4 DEF CloseDrawer, Operated, serverVars
<1>4. ASSUME NEW act \in {"start-idle-validation", "return-idle-to-service"}, NEW g \in Gpus,
             OnAct(act, g)
      PROVE  Operated /\ Send(act, g, None, None) /\ local'.acting = g
  <2> DEFINE l1 == [local EXCEPT !.acting = g]
  <2>1. l1 \in IdleLocal /\ l1.acting = g
    BY <1>1 DEF IdleLocal
  <2>2. local' = [l1 EXCEPT !.err = None]
    BY <1>4 DEF OnAct
  <2>. HIDE DEF l1
  <2>3. local' \in IdleLocal /\ local'.acting = g
    BY <2>1, <2>2 DEF IdleLocal
  <2>4. Action(act, g, None, None) \in ActsOf(page)
    BY <1>1, <1>4, ActionIs DEF OnAct, CanSend
  <2>. QED
    BY <1>1, <1>4, <2>3, <2>4 DEF OnAct, CanSend, Operated, Pressing, serverVars
<1>5. ASSUME NEW g \in Gpus, Recommend(g)
      PROVE  /\ Operated
             /\ \/ acts' = acts /\ local'.acting = local.acting
                \/ \E act, h : Send(act, h, None, None) /\ local'.acting = h
  BY <1>2, <1>4, <1>5 DEF Recommend
<1>6. CASE DrawerAct
  <2>1. Shown \in Gpus
    BY <1>1, <1>6 DEF DrawerAct, Shown, IdleLocal
  <2>2. OnAct("return-idle-to-service", Shown) \/ OnAct("start-idle-validation", Shown)
    BY <1>6 DEF DrawerAct
  <2>. QED
    BY <1>4, <2>1, <2>2
<1>. QED
  BY <1>2, <1>3, <1>5, <1>6 DEF IdleNext

RemediationKeeps ==
  /\ local'.pending = local.pending /\ local'.busy = local.busy
  /\ local'.jumping = local.jumping /\ local'.card = local.card

LEMMA RemediationOperates ==
  ASSUME TypeInv, page = "remediation", RemediationNext
  PROVE  /\ Operated
         /\ \/ acts' = acts /\ RemediationKeeps
            \/ \E m \in Modes : /\ Send("set-mode", None, m, None)
                                /\ local.pending = None /\ local'.pending # None
                                /\ local'.busy = local.busy /\ local'.jumping = local.jumping
                                /\ local'.card = local.card
            \/ /\ Send("approve-isolation", None, local.card, None)
               /\ ~local.busy /\ local'.busy /\ local'.pending = local.pending
               /\ local'.jumping = local.jumping /\ local'.card = local.card
            \/ /\ Send("jump-phase", None, local.card, None)
               /\ ~local.jumping /\ local'.jumping /\ local'.pending = local.pending
               /\ local'.busy = local.busy /\ local'.card = local.card
<1>1. /\ snap # NoSnap => status = "authed"
      /\ local \in RemediationLocal /\ (local # RemediationFresh => status = "authed")
      /\ LocalsOf(page) = RemediationLocal
      /\ ActsOf(page) = AnyOf({"set-mode"}, {None}, Modes, {None})
                        \cup AnyOf({"approve-isolation", "jump-phase"}, {None}, Nat, {None})
  BY InView DEF LocalsOf, Fresh, ActsOf
<1>2. ASSUME NEW m \in Modes, SelectMode(m)
      PROVE  /\ Operated /\ Send("set-mode", None, m, None)
             /\ local.pending = None /\ local'.pending # None
             /\ local'.busy = local.busy /\ local'.jumping = local.jumping
             /\ local'.card = local.card
  <2> DEFINE l1 == [local EXCEPT !.pending = m]
  <2>1. /\ l1 \in RemediationLocal /\ l1.pending = m /\ l1.busy = local.busy
        /\ l1.jumping = local.jumping /\ l1.card = local.card
    BY <1>1 DEF RemediationLocal
  <2>2. local' = [l1 EXCEPT !.modeError = FALSE]
    BY <1>2 DEF SelectMode
  <2>. HIDE DEF l1
  <2>3. /\ local' \in RemediationLocal /\ local'.pending = m /\ local'.busy = local.busy
        /\ local'.jumping = local.jumping /\ local'.card = local.card
    BY <2>1, <2>2 DEF RemediationLocal
  <2>4. Action("set-mode", None, m, None) \in ActsOf(page)
    BY <1>1, <1>2, ActionIs DEF SelectMode, CanSend
  <2>. QED
    BY <1>1, <1>2, <2>3, <2>4, RemediationAssumption
       DEF SelectMode, MaySelect, CanSend, Operated, Pressing, serverVars
<1>3. CASE OpenConfirm
  <2>1. local' \in RemediationLocal /\ RemediationKeeps
    BY <1>1, <1>3 DEF OpenConfirm, RemediationLocal, RemediationKeeps
  <2>. QED
    BY <1>1, <1>3, <2>1 DEF OpenConfirm, Operated, serverVars
<1>4. CASE CancelConfirm
  <2>1. local' \in RemediationLocal /\ RemediationKeeps
    BY <1>1, <1>4 DEF CancelConfirm, RemediationLocal, RemediationKeeps
  <2>2. local # RemediationFresh
    BY <1>4 DEF CancelConfirm, RemediationFresh
  <2>. QED
    BY <1>1, <1>4, <2>1, <2>2 DEF CancelConfirm, Operated, serverVars
<1>5. CASE Approve
  <2>1. /\ local' \in RemediationLocal /\ local'.busy /\ local'.pending = local.pending
        /\ local'.jumping = local.jumping /\ local'.card = local.card /\ local.card \in Nat
    BY <1>1, <1>5 DEF Approve, RemediationLocal
  <2>2. Action("approve-isolation", None, local.card, None) \in ActsOf(page)
    BY <1>1, <1>5, <2>1, ActionIs DEF Approve, CanSend
  <2>. QED
    BY <1>1, <1>5, <2>1, <2>2 DEF Approve, CanSend, Operated, Pressing, serverVars
<1>6. CASE JumpToApproval
  <2>1. /\ local' \in RemediationLocal /\ local'.jumping /\ local'.pending = local.pending
        /\ local'.busy = local.busy /\ local'.card = local.card /\ local.card \in Nat
    BY <1>1, <1>6 DEF JumpToApproval, RemediationLocal
  <2>2. Action("jump-phase", None, local.card, None) \in ActsOf(page)
    BY <1>1, <1>6, <2>1, ActionIs DEF JumpToApproval, CanSend
  <2>. QED
    BY <1>1, <1>6, <2>1, <2>2 DEF JumpToApproval, CanSend, Operated, Pressing, serverVars
<1>. QED
  BY <1>2, <1>3, <1>4, <1>5, <1>6 DEF RemediationNext

LEMMA RulesetOperates ==
  ASSUME TypeInv, page = "ruleset", RulesetNext
  PROVE  /\ Operated /\ local.pending = None /\ local'.pending # None
         /\ \E r, v : Send("set-rule-enabled", r, v, None)
<1>1. PICK r \in Rules : Toggle(r)
  BY DEF RulesetNext
<1>2. snap \in [Rules -> BOOLEAN]
  BY <1>1, InView DEF Toggle, CanSend, ServersOf, RulesetSrv
<1>3. (~snap[r]) \in BOOLEAN
  BY <1>2
<1>4. Action("set-rule-enabled", r, ~snap[r], None) \in ActsOf(page)
  BY <1>1, <1>3, ActionIs DEF Toggle, CanSend, ActsOf
<1>5. local' \in LocalsOf(page) /\ local'.pending # None
  BY <1>1, RulesetAssumption DEF Toggle, LocalsOf, RulesetLocal
<1>. QED
  BY <1>1, <1>4, <1>5 DEF Toggle, MayToggle, CanSend, Operated, Pressing, serverVars

LEMMA AssistantOperates ==
  ASSUME TypeInv, page = "assistant", AssistantNext
  PROVE  /\ Operated /\ local'.open = local.open + 1 /\ CanSend
         /\ Send("approve-isolation", None, None, None)
<1>1. RunIsolate /\ local \in AssistantLocal
  BY InView DEF AssistantNext, ChipIsolate, TypedIsolate, LocalsOf
<1> DEFINE l1 == [local EXCEPT !.acting = TRUE]
<1>2. l1 \in AssistantLocal /\ l1.open = local.open
  BY <1>1 DEF AssistantLocal
<1>3. local' = [l1 EXCEPT !.open = l1.open + 1]
  BY <1>1, <1>2 DEF RunIsolate
<1>. HIDE DEF l1
<1>4. local' \in AssistantLocal /\ local'.open = local.open + 1
  BY <1>2, <1>3 DEF AssistantLocal
<1>5. Action("approve-isolation", None, None, None) \in ActsOf(page)
  BY <1>1, ActionIs DEF RunIsolate, CanSend, ActsOf
<1>. QED
  BY <1>1, <1>4, <1>5 DEF RunIsolate, CanSend, Operated, Pressing, serverVars, LocalsOf

LEMMA IncidentOperates ==
  ASSUME TypeInv, page = "incident", IncidentNext
  PROVE  /\ Operated /\ ~local.pending /\ local'.pending
         /\ \E act : Send(act, Victim, None, None)
<1>1. PICK act \in CTA \cup {"report-false-positive"} : Run(act)
  BY DEF IncidentNext, RunCta, ReportFalsePositive
<1>2. local' \in LocalsOf(page) /\ local'.pending
  BY <1>1 DEF Run, LocalsOf, IncidentLocal
<1>3. Action(act, Victim, None, None) \in ActsOf(page)
  BY <1>1, ActionIs DEF Run, CanSend, ActsOf
<1>. QED
  BY <1>1, <1>2, <1>3 DEF Run, CanSend, Operated, Pressing, serverVars

LEMMA BoardOperates ==
  ASSUME TypeInv, page = "board", BoardAct
  PROVE  /\ Operated /\ ~local.acting /\ local'.acting
         /\ \E act : Send(act, Victim, None, None)
<1>1. PLAYBOOK(snap) \in CTA
  BY DEF BoardAct, PLAYBOOK, CTA
<1>2. local' \in LocalsOf(page) /\ local'.acting
  BY DEF BoardAct, LocalsOf, BoardLocal
<1>3. Action(PLAYBOOK(snap), Victim, None, None) \in ActsOf(page)
  BY <1>1, ActionIs DEF BoardAct, CanSend, ActsOf
<1>. QED
  BY <1>2, <1>3 DEF BoardAct, CanSend, Operated, Pressing, serverVars

LEMMA EfficiencyOperates ==
  ASSUME TypeInv, page = "efficiency", EfficiencyNext
  PROVE  Operated
<1>1. /\ local \in LocalsOf(page)
      /\ ActsOf(page) = AnyOf({"report-false-positive"}, Gpus, {None}, {None})
                        \cup AnyOf({"register-idle-reason"}, Gpus, Reasons, {None})
  BY InView DEF ActsOf
<1>2. ASSUME NEW g \in Gpus, OnFalsePositive(g) PROVE Operated
  <2>1. Action("report-false-positive", g, None, None) \in ActsOf(page)
    BY <1>1, <1>2, ActionIs DEF OnFalsePositive
  <2>. QED
    BY <1>1, <1>2, <2>1 DEF OnFalsePositive, Operated, Pressing, serverVars
<1>3. ASSUME NEW g \in Gpus, NEW v \in Reasons, OnRegisterReason(g, v) PROVE Operated
  <2>1. Action("register-idle-reason", g, v, None) \in ActsOf(page)
    BY <1>1, <1>3, ActionIs DEF OnRegisterReason, CanSend
  <2>. QED
    BY <1>1, <1>3, <2>1 DEF OnRegisterReason, CanSend, Operated, Pressing, serverVars
<1>. QED
  BY <1>2, <1>3 DEF EfficiencyNext

LEMMA HealthOperates ==
  ASSUME TypeInv, page = "health", HealthNext
  PROVE  /\ Operated
         /\ \E n \in Alarms : /\ snap # NoSnap /\ OnList(snap, n)
                              /\ local'.acked = local.acked \cup {n}
                              /\ Send("ack-alert", n, None, None)
<1>1. PICK n \in Alarms : OnAck(n)
  BY DEF HealthNext
<1>2. local \in HealthLocal
  BY InView DEF LocalsOf
<1>3. local' \in LocalsOf(page) /\ local'.acked = local.acked \cup {n}
  BY <1>1, <1>2 DEF OnAck, LocalsOf, HealthLocal
<1>4. Action("ack-alert", n, None, None) \in ActsOf(page)
  BY <1>1, ActionIs DEF OnAck, CanSend, ActsOf
<1>. QED
  BY <1>1, <1>3, <1>4 DEF OnAck, CanSend, Operated, Pressing, serverVars

\* The address names another asset.
LEMMA OpenedIs ==
  ASSUME local \in ValidationLocal, NEW u \in Gpus \cup {None}
  PROVE  /\ [local EXCEPT !.param = u] \in ValidationLocal
         /\ [local EXCEPT !.param = u].param = u
         /\ [local EXCEPT !.param = u].pinned = local.pinned
         /\ [local EXCEPT !.param = u].target = local.target
         /\ [local EXCEPT !.param = u].busy = local.busy
         /\ [local EXCEPT !.param = u].err = local.err
         /\ [local EXCEPT !.param = u].notice = local.notice
         /\ [local EXCEPT !.param = u].late = local.late
         /\ [local EXCEPT !.param = u].query = local.query
BY DEF ValidationLocal

LEMMA OperateIs == ASSUME TypeInv, Operate PROVE Operated /\ UNCHANGED <<page, events>>
<1>1. page \in PageNames /\ UNCHANGED <<page, events>>
  BY DEF TypeInv, FeedInv, Operate
<1>2. CASE page = "validation"
  <2>1. ValidationNext
    BY <1>2 DEF Operate
  <2>2. local \in ValidationLocal /\ snap \in ValidationSrv \cup {NoSnap}
    BY <1>2, InView DEF LocalsOf, ServersOf
  <2>3. ASSUME NEW u \in Gpus \cup {None}, OpenAsset(u) PROVE local' \in ValidationLocal
    BY <2>2, <2>3, OpenedIs, SettledFields DEF OpenAsset
  <2>4. Pressing \/ acts' = acts
    BY <1>2, <2>1, ValidationOperates DEF ValidationPress, CanSend, Pressing
  <2>5. local' \in ValidationLocal
    BY <1>2, <2>1, <2>3, ValidationOperates DEF ValidationPress, ValidationType
  <2>. QED
    BY <1>1, <1>2, <2>1, <2>4, <2>5, ValidationOperates DEF Operated, LocalsOf
<1>3. CASE page = "idle"
  BY <1>1, <1>3, IdleOperates DEF Operate
<1>4. CASE page = "remediation"
  BY <1>1, <1>4, RemediationOperates DEF Operate
<1>5. CASE page = "ruleset"
  BY <1>1, <1>5, RulesetOperates DEF Operate
<1>6. CASE page = "assistant"
  BY <1>1, <1>6, AssistantOperates DEF Operate
<1>7. CASE page = "incident"
  BY <1>1, <1>7, IncidentOperates DEF Operate
<1>8. CASE page = "board"
  BY <1>1, <1>8, BoardOperates DEF Operate
<1>9. CASE page = "efficiency"
  BY <1>1, <1>9, EfficiencyOperates DEF Operate
<1>10. CASE page = "health"
  BY <1>1, <1>10, HealthOperates DEF Operate
<1>. QED
  BY <1>1, <1>2, <1>3, <1>4, <1>5, <1>6, <1>7, <1>8, <1>9, <1>10 DEF PageNames

\* What the polled detail leaves alone.
DetailKeeps ==
  /\ local' \in ValidationLocal /\ local'.busy = local.busy
  /\ local'.param = local.param /\ local'.pinned = local.pinned /\ local'.target = local.target
  /\ local'.err = local.err /\ local'.notice = local.notice /\ local'.late = local.late
  /\ \/ local'.query = Query(local.target) /\ local.target # None
     \/ local'.query = Query(None)
     \/ local.query.is = "sent" /\ local'.query.is = "ok" /\ local'.query.of = local.query.of

LEMMA DetailIs ==
  ASSUME TypeInv, AskDetail
  PROVE  /\ page = "validation" /\ status = "authed" /\ DetailKeeps
         /\ UNCHANGED <<srv, session, status, snap, fetch, acts, leaves, lost>>
         /\ failures' = failures \/ (failures' = failures + 1 /\ Trouble)
<1>1. /\ page = "validation" /\ DetailNext
      /\ local \in ValidationLocal /\ local.query \in QueryOf
      /\ (local # ValidationFresh => status = "authed")
  BY InView DEF AskDetail, LocalsOf, Fresh, ValidationLocal
<1>2. ASSUME NEW q \in QueryOf, local' = [local EXCEPT !.query = q]
      PROVE  /\ local' \in ValidationLocal /\ local'.busy = local.busy
             /\ local'.param = local.param /\ local'.pinned = local.pinned
             /\ local'.target = local.target /\ local'.err = local.err
             /\ local'.notice = local.notice /\ local'.late = local.late /\ local'.query = q
  BY <1>1, <1>2 DEF ValidationLocal
<1>3. Query(None) \in QueryOf /\ Query(local.target) \in QueryOf
  BY <1>1 DEF Query, QueryOf, ValidationLocal
<1>4. CASE DetailTick
  <2>1. local # ValidationFresh
    BY <1>4 DEF DetailTick, ValidationFresh
  <2>. QED
    BY <1>1, <1>2, <1>3, <1>4, <2>1 DEF DetailTick, DetailKeeps, serverVars, histVars
<1>5. CASE ServeDetail
  <2> DEFINE l1 == [local EXCEPT !.query.is = "ok"]
             q  == [is |-> "ok", of |-> local.query.of, gates |-> Gates(srv, local.query.of)]
  <2>1. q \in QueryOf
    BY <1>1 DEF QueryOf, Gates
  <2>2. [local.query EXCEPT !.is = "ok", !.gates = Gates(srv, local.query.of)] = q
    <3> DEFINE q1 == [local.query EXCEPT !.is = "ok"]
    <3>1. q1 \in QueryOf /\ q1.is = "ok" /\ q1.of = local.query.of
      BY <1>1 DEF QueryOf
    <3>. HIDE DEF q1
    <3>2. [q1 EXCEPT !.gates = Gates(srv, local.query.of)] = q
      BY <3>1 DEF QueryOf
    <3>. QED
      BY <3>2 DEF q1
  <2>3. /\ l1 \in ValidationLocal /\ l1.query = [local.query EXCEPT !.is = "ok"]
        /\ [l1 EXCEPT !.query = q] = [local EXCEPT !.query = q]
    BY <1>1 DEF ValidationLocal, QueryOf
  <2>4. local' = [l1 EXCEPT !.query = [l1.query EXCEPT !.gates = Gates(srv, local.query.of)]]
    BY <1>5, <2>3 DEF ServeDetail
  <2>. HIDE DEF l1
  <2>5. local' = [local EXCEPT !.query = q]
    BY <2>2, <2>3, <2>4
  <2>. HIDE DEF q
  <2>6. local'.query = q
    BY <1>2, <2>1, <2>5
  <2>7. q.is = "ok" /\ q.of = local.query.of
    BY DEF q
  <2>. QED
    BY <1>1, <1>2, <1>5, <2>1, <2>5, <2>6, <2>7 DEF ServeDetail, DetailKeeps, serverVars, histVars
<1>6. CASE DetailFails
  BY <1>1, <1>2, <1>3, <1>6 DEF DetailFails, DetailKeeps, serverVars
<1>7. CASE DetailAnswered
  <2> DEFINE d  == [of |-> local.query.of, gates |-> local.query.gates]
             l1 == [local EXCEPT !.detail = d]
  <2>1. d \in DetailOf
    BY <1>1 DEF DetailOf, QueryOf
  <2>. HIDE DEF d
  <2>2. /\ l1 \in ValidationLocal /\ l1.busy = local.busy
        /\ l1.param = local.param /\ l1.pinned = local.pinned
        /\ l1.target = local.target /\ l1.err = local.err
        /\ l1.notice = local.notice /\ l1.late = local.late
    BY <1>1, <2>1 DEF ValidationLocal
  <2>3. local' = [l1 EXCEPT !.query = Query(None)]
    BY <1>7 DEF DetailAnswered, d
  <2>. HIDE DEF l1
  <2>4. DetailKeeps
    BY <1>3, <2>2, <2>3 DEF ValidationLocal, DetailKeeps
  <2>5. local # ValidationFresh
    BY <1>7 DEF DetailAnswered, ValidationFresh, Query
  <2>. QED
    BY <1>1, <1>7, <2>4, <2>5 DEF DetailAnswered, serverVars, histVars
<1>. QED
  BY <1>1, <1>4, <1>5, <1>6, <1>7 DEF DetailNext

-----------------------------------------------------------------------------
(* Types.                                                                   *)

LEMMA PageStays == page' = page => Fresh' = Fresh /\ Servers' = ServersOf(page)
BY DEF Fresh, Servers

LEMMA TypeInit == Init => TypeInv
<1> SUFFICES ASSUME Init PROVE TypeInv
  OBVIOUS
<1>1. page \in PageNames /\ srv \in Servers
  BY ConsoleAssumption DEF Init, Servers
<1>2. local \in LocalsOf(page)
  BY <1>1, FreshTyped DEF Init
<1>3. FetchInv /\ AnonInv /\ OwnSlots
  BY DEF Init, FeedInit, FetchInv, AnonInv, OwnSlots, Asking, NoSnap
<1>4. Counters
  <2>1. events = 0 /\ moves = 0 /\ failures = 0 /\ leaves = 0 /\ lost = FALSE
    BY DEF Init, FeedInit
  <2>2. lost \in BOOLEAN
    BY <2>1
  <2>. QED
    BY <2>1, <2>2, FeedAssumption, ConsoleAssumption DEF Counters
<1>. QED
  BY <1>1, <1>2, <1>3, <1>4 DEF Init, FeedInit, TypeInv, FeedInv, PageTypes

\* A step that keeps the login and the page, and whose fetch, acts and local are typed.
LEMMA TypeKept ==
  ASSUME TypeInv, UNCHANGED <<page, status>>, Counters', FetchInv',
         session' \in BOOLEAN, srv' \in Servers, snap' \in Servers \cup {NoSnap},
         acts' \subseteq ActsOf(page), OwnSlots', local' \in LocalsOf(page),
         status = "anon" => /\ snap' = snap /\ local' = local
                            /\ \A a \in acts' : a.from = "gone"
  PROVE  TypeInv'
<1>1. Fresh' = Fresh /\ Servers' = Servers
  BY PageStays DEF Servers
<1>2. AnonInv'
  BY <1>1 DEF TypeInv, FeedInv, AnonInv, NoSnap
<1>. QED
  BY <1>1, <1>2 DEF TypeInv, FeedInv, PageTypes, NoSnap

LEMMA OperateType == ASSUME TypeInv, Operate PROVE TypeInv'
<1>1. Operated /\ UNCHANGED <<page, events>>
  BY OperateIs
<1>2. acts' \subseteq ActsOf(page) /\ OwnSlots'
  <2>1. CASE acts' = acts
    BY <2>1 DEF TypeInv, FeedInv, PageTypes, OwnSlots
  <2>2. CASE Pressing
    BY <2>2, SendIs DEF Pressing, TypeInv, FeedInv, PageTypes
  <2>. QED
    BY <1>1, <2>1, <2>2 DEF Operated
<1>3. Counters'
  <2>1. moves < MaxMoves /\ moves' = moves + 1
    BY DEF Operate
  <2>. QED
    BY <1>1, <2>1, ConsoleAssumption DEF Operated, histVars, TypeInv, FeedInv, Counters
<1>4. FetchInv'
  BY <1>1, PageStays DEF Operated, TypeInv, FeedInv, FetchInv, Servers, NoSnap
<1>. QED
  BY <1>1, <1>2, <1>3, <1>4, TypeKept DEF Operated, TypeInv, FeedInv, PageTypes

LEMMA EventType == ASSUME TypeInv, Event PROVE TypeInv'
<1>1. srv' \in Servers
  BY EventsTyped DEF Event, TypeInv, FeedInv, PageTypes
<1>2. Counters'
  BY ConsoleAssumption DEF Event, histVars, TypeInv, FeedInv, Counters
<1>3. FetchInv' /\ OwnSlots'
  BY PageStays DEF Event, TypeInv, FeedInv, FetchInv, OwnSlots, Servers, NoSnap
<1>. QED
  BY <1>1, <1>2, <1>3, TypeKept DEF Event, TypeInv, FeedInv, PageTypes, AnonInv

\* The poll.
LEMMA PollType ==
  ASSUME TypeInv, Running(ServeState \/ FailState \/ TimerFires)
  PROVE  TypeInv'
<1>1. /\ UNCHANGED <<srv, session, status, snap, acts, local, lost, leaves, page, events, moves>>
      /\ failures' = failures \/ (failures' = failures + 1 /\ Trouble)
  BY DEF Running, consoleVars, ServeState, FailState, TimerFires, serverVars, histVars
<1>2. Counters'
  BY <1>1, FeedAssumption DEF TypeInv, FeedInv, Counters, Trouble
<1>3. FetchInv' /\ OwnSlots'
  BY <1>1, PageStays DEF Running, ServeState, FailState, TimerFires, TypeInv, FeedInv, PageTypes,
                         FetchInv, OwnSlots, Servers, NoSnap, Asking
<1>. QED
  BY <1>1, <1>2, <1>3, TypeKept DEF TypeInv, FeedInv, PageTypes, AnonInv

LEMMA AnswerIs ==
  ASSUME TypeInv, Running(AnswerState)
  PROVE  /\ UNCHANGED <<srv, session, status, acts, failures, leaves, lost, page, events, moves>>
         /\ status = "authed" /\ local' \in LocalsOf(page)
         /\ \/ snap' = snap /\ local' = local
            \/ /\ fetch.is = "ok" /\ snap' = fetch.seen /\ fetch.seen \in Servers
               /\ local' = After(local, fetch.seen)
         /\ fetch' = Timer
<1>1. /\ UNCHANGED <<srv, session, status, acts, failures, leaves, lost, page, events, moves>>
      /\ status = "authed" /\ fetch' = Timer
      /\ \/ snap' = snap /\ local' = local
         \/ /\ fetch.is = "ok" /\ snap' = fetch.seen /\ fetch.seen \in Servers
            /\ local' = After(local, fetch.seen)
  BY DEF Running, consoleVars, AnswerState, StateAnswered, NextAsk, serverVars, histVars,
         TypeInv, FeedInv, FetchInv
<1>2. local \in LocalsOf(page) /\ (fetch.seen \in Servers => After(local, fetch.seen) \in LocalsOf(page))
  BY AfterTyped DEF TypeInv, FeedInv, PageTypes
<1>. QED
  BY <1>1, <1>2

LEMMA AnswerType == ASSUME TypeInv, Running(AnswerState) PROVE TypeInv'
<1>1. Counters'
  BY AnswerIs DEF TypeInv, FeedInv, Counters
<1>2. FetchInv' /\ OwnSlots'
  BY AnswerIs, PageStays DEF TypeInv, FeedInv, FetchInv, OwnSlots, Servers, NoSnap, Timer
<1>. QED
  BY <1>1, <1>2, AnswerIs, TypeKept DEF TypeInv, FeedInv, PageTypes, AnonInv

LEMMA DetailType == ASSUME TypeInv, Running(AskDetail) PROVE TypeInv'
<1>1. /\ status = "authed" /\ local' \in LocalsOf(page)
      /\ UNCHANGED <<srv, session, status, snap, fetch, acts, leaves, lost, page, events, moves>>
      /\ failures' = failures \/ (failures' = failures + 1 /\ Trouble)
  BY DetailIs DEF Running, consoleVars, DetailKeeps, LocalsOf
<1>2. Counters'
  BY <1>1, FeedAssumption DEF TypeInv, FeedInv, Counters, Trouble
<1>3. FetchInv' /\ OwnSlots'
  BY <1>1, PageStays DEF TypeInv, FeedInv, FetchInv, OwnSlots, Servers, NoSnap
<1>. QED
  BY <1>1, <1>2, <1>3, TypeKept DEF TypeInv, FeedInv, PageTypes

\* The server serves an action, or its answer is lost.
LEMMA ServeIs ==
  ASSUME TypeInv, Running(ServeAnAct)
  PROVE  /\ UNCHANGED <<session, status, snap, fetch, local, histVars, page, events, moves>>
         /\ \E a \in acts :
              /\ a.is = "sent"
              /\ \/ ~session /\ Become(a, "unauth") /\ srv' = srv
                 \/ session /\ (Outcomes(a) = {} \/ AtWill(a)) /\ Become(a, "refused") /\ srv' = srv
                 \/ session /\ srv' \in Outcomes(a) /\ srv' \in Servers /\ Become(a, "ok")
<1>1. PICK a \in acts : ServeAct(a, Outcomes(a), AtWill(a))
  BY DEF Running, ServeAnAct
<1>2. \A s \in Outcomes(a) : s \in Servers
  BY OutcomesTyped DEF TypeInv, FeedInv, PageTypes
<1>3. UNCHANGED <<session, status, snap, fetch, local, histVars, page, events, moves>>
  BY <1>1 DEF Running, consoleVars, ServeAct
<1>4. /\ a.is = "sent"
      /\ \/ ~session /\ Become(a, "unauth") /\ srv' = srv
         \/ session /\ (Outcomes(a) = {} \/ AtWill(a)) /\ Become(a, "refused") /\ srv' = srv
         \/ session /\ srv' \in Outcomes(a) /\ srv' \in Servers /\ Become(a, "ok")
  BY <1>1, <1>2 DEF ServeAct
<1>. QED
  BY <1>3, <1>4

LEMMA ServeType == ASSUME TypeInv, Running(ServeAnAct) PROVE TypeInv'
<1>1. PICK a \in acts, is \in {"unauth", "refused", "ok"} : Become(a, is)
  BY ServeIs
<1>2. srv' \in Servers
  BY ServeIs DEF TypeInv, PageTypes
<1>3. /\ acts' \subseteq ActsOf(page) /\ OwnSlots'
      /\ (\A b \in acts : b.from = "gone") => \A b \in acts' : b.from = "gone"
  BY <1>1, BecomeIs DEF TypeInv, FeedInv, PageTypes
<1>4. Counters' /\ FetchInv'
  BY ServeIs, PageStays DEF TypeInv, FeedInv, Counters, FetchInv, Servers, NoSnap, histVars
<1>. QED
  BY <1>2, <1>3, <1>4, ServeIs, TypeKept DEF TypeInv, FeedInv, PageTypes, AnonInv

LEMMA LoseType ==
  ASSUME TypeInv, NEW a \in acts, Running(LoseAct(a))
  PROVE  /\ TypeInv' /\ Become(a, "lost")
         /\ UNCHANGED <<srv, session, status, snap, fetch, local, leaves, lost, page, events, moves>>
         /\ failures' = failures + 1 /\ a.is \in {"sent", "ok", "refused"}
<1>1. /\ Become(a, "lost") /\ Trouble /\ failures' = failures + 1
      /\ UNCHANGED <<srv, session, status, snap, fetch, local, leaves, lost, page, events, moves>>
      /\ a.is \in {"sent", "ok", "refused"}
  BY DEF Running, consoleVars, LoseAct, serverVars
<1>2. /\ acts' \subseteq ActsOf(page) /\ OwnSlots'
      /\ (\A b \in acts : b.from = "gone") => \A b \in acts' : b.from = "gone"
  BY <1>1, BecomeIs DEF TypeInv, FeedInv, PageTypes
<1>3. Counters'
  BY <1>1, FeedAssumption DEF TypeInv, FeedInv, Counters, Trouble
<1>4. FetchInv'
  BY <1>1, PageStays DEF TypeInv, FeedInv, FetchInv, Servers, NoSnap
<1>. QED
  BY <1>1, <1>2, <1>3, <1>4, TypeKept DEF TypeInv, FeedInv, PageTypes, AnonInv

\* An action's handler goes on: with the answer, or with the exception.
LEMMA AnsweredStep ==
  ASSUME TypeInv, NEW a \in acts, Running(ActAnswered(a, Handled(a), More(a)))
  PROVE  /\ TypeInv'
         /\ UNCHANGED <<srv, session, status, snap, failures, leaves, lost, page, events, moves>>
         /\ a.is \in {"ok", "refused"} /\ acts' = (acts \ {a}) \cup More(a)
         /\ \A b \in acts' : b \in acts \ {a} \/ (b \in More(a) /\ b.from = a.from)
         /\ local' = IF Own(a) THEN Handled(a) ELSE local
<1>1. /\ UNCHANGED <<srv, session, status, snap, failures, leaves, lost, page, events, moves>>
      /\ a.is \in {"ok", "refused"} /\ acts' = (acts \ {a}) \cup More(a)
      /\ local' = IF Own(a) THEN Handled(a) ELSE local
      /\ fetch' = IF a.from = "gone" THEN fetch ELSE Asking
  BY DEF Running, consoleVars, ActAnswered, serverVars, histVars
<1>2. /\ acts' \subseteq ActsOf(page) /\ OwnSlots'
      /\ \A b \in acts' : b \in acts \ {a} \/ (b \in More(a) /\ b.from = a.from)
  BY <1>1, AnsweredIs DEF TypeInv, FeedInv, PageTypes
<1>3. local' \in LocalsOf(page)
  BY <1>1, HandledTyped DEF TypeInv, FeedInv, PageTypes
<1>4. status = "anon" => a.from = "gone"
  BY DEF TypeInv, FeedInv, AnonInv
<1>5. Counters'
  BY <1>1 DEF TypeInv, FeedInv, Counters
<1>6. FetchInv'
  BY <1>1, <1>4, PageStays DEF TypeInv, FeedInv, FetchInv, Servers, NoSnap, Asking
<1>7. TypeInv'
  BY <1>1, <1>2, <1>3, <1>4, <1>5, <1>6, TypeKept DEF TypeInv, FeedInv, PageTypes, AnonInv, Own
<1>. QED
  BY <1>1, <1>2, <1>7

LEMMA ThrowsStep ==
  ASSUME TypeInv, NEW a \in acts, Running(ActThrows(a, Thrown))
  PROVE  /\ TypeInv'
         /\ UNCHANGED <<srv, session, status, snap, fetch, failures, leaves, page, events, moves>>
         /\ a.is = "lost" /\ acts' = acts \ {a}
         /\ local' = IF Own(a) THEN Thrown ELSE local
         /\ lost' = (lost \/ Own(a))
<1>1. /\ UNCHANGED <<srv, session, status, snap, fetch, failures, leaves, page, events, moves>>
      /\ a.is = "lost" /\ acts' = acts \ {a}
      /\ local' = IF Own(a) THEN Thrown ELSE local
      /\ lost' = (lost \/ Own(a))
  BY DEF Running, consoleVars, ActThrows, serverVars
<1>2. acts' \subseteq ActsOf(page) /\ OwnSlots'
  BY <1>1 DEF TypeInv, FeedInv, PageTypes, OwnSlots
<1>3. local' \in LocalsOf(page)
  BY <1>1, ThrownTyped DEF TypeInv, FeedInv, PageTypes
<1>4. Counters'
  BY <1>1 DEF TypeInv, FeedInv, Counters
<1>5. FetchInv'
  BY <1>1, PageStays DEF TypeInv, FeedInv, FetchInv, Servers, NoSnap
<1>6. TypeInv'
  BY <1>1, <1>2, <1>3, <1>4, <1>5, TypeKept DEF TypeInv, FeedInv, PageTypes, AnonInv, Own
<1>. QED
  BY <1>1, <1>6

\* Everything below the login is unmounted.
LEMMA SignOffType ==
  ASSUME TypeInv, UNCHANGED <<srv, session, failures, leaves, lost, page, events, moves>>,
         SignOff, local' = Fresh, NEW rest \in SUBSET acts, acts' = LeftByAll(rest)
  PROVE  TypeInv' /\ status' = "anon" /\ \A b \in acts' : b.from = "gone"
<1>1. status' = "anon" /\ snap' = NoSnap /\ fetch' = Off
  BY DEF SignOff
<1>2. acts' = {[a EXCEPT !.from = IF a \in acts THEN "gone" ELSE @] : a \in rest}
  BY DEF LeftByAll
<1>3. /\ acts' \subseteq ActsOf(page) /\ OwnSlots'
      /\ \A b \in acts' : \E a \in rest : b.from = IF a \in acts THEN "gone" ELSE a.from
  BY <1>2, LeftIs DEF TypeInv, FeedInv, PageTypes
<1>4. \A b \in acts' : b.from = "gone"
  BY <1>3
<1>5. Counters'
  BY DEF TypeInv, FeedInv, Counters
<1>6. FetchInv'
  BY <1>1, PageStays DEF FetchInv, Off, NoSnap
<1>7. AnonInv'
  BY <1>1, <1>4, PageStays DEF AnonInv, NoSnap
<1>8. local' \in LocalsOf(page) /\ Servers' = Servers
  BY FreshTyped, PageStays DEF TypeInv, FeedInv, Servers
<1>. QED
  BY <1>1, <1>3, <1>4, <1>5, <1>6, <1>7, <1>8 DEF TypeInv, FeedInv, PageTypes, NoSnap

LEMMA UnauthorizedStep ==
  ASSUME TypeInv, NEW a \in acts, Running(ActUnauthorized(a, Fresh))
  PROVE  /\ TypeInv' /\ status' = "anon" /\ snap' = NoSnap /\ local' = Fresh
         /\ a.is = "unauth" /\ (\A b \in acts' : b.from = "gone")
         /\ UNCHANGED <<srv, session, failures, leaves, lost, page, events, moves>>
<1>1. /\ UNCHANGED <<srv, session, failures, leaves, lost, page, events, moves>>
      /\ SignOff /\ local' = Fresh /\ acts' = LeftByAll(acts \ {a}) /\ a.is = "unauth"
  BY DEF Running, consoleVars, ActUnauthorized, serverVars, histVars
<1>. QED
  BY <1>1, SignOffType DEF SignOff

LEMMA QueryExpiresStep ==
  ASSUME TypeInv, Running(QueryExpires)
  PROVE  /\ TypeInv' /\ status' = "anon" /\ snap' = NoSnap /\ local' = Fresh
         /\ ~session /\ (\A b \in acts' : b.from = "gone")
         /\ UNCHANGED <<srv, session, failures, leaves, lost, page, events, moves>>
<1>1. /\ UNCHANGED <<srv, session, failures, leaves, lost, page, events, moves>>
      /\ SignOff /\ local' = Fresh /\ acts' = LeftByAll(acts) /\ ~session
  BY DEF Running, consoleVars, QueryExpires, QueryUnauthorized, serverVars, histVars
<1>. QED
  BY <1>1, SignOffType DEF SignOff

LEMMA EndSessionStep ==
  ASSUME TypeInv, Running(EndSession)
  PROVE  /\ TypeInv' /\ leaves' = leaves + 1 /\ session' = FALSE
         /\ UNCHANGED <<srv, status, snap, fetch, acts, local, failures, lost, page, events, moves>>
<1>1. /\ Trouble /\ session' = FALSE /\ leaves' = leaves + 1
      /\ UNCHANGED <<srv, status, snap, fetch, acts, local, failures, lost, page, events, moves>>
  BY DEF Running, consoleVars, EndSession
<1>2. Counters'
  BY <1>1, FeedAssumption DEF TypeInv, FeedInv, Counters, Trouble
<1>3. FetchInv' /\ OwnSlots' /\ session' \in BOOLEAN
  BY <1>1, PageStays DEF TypeInv, FeedInv, FetchInv, OwnSlots, Servers, NoSnap
<1>. QED
  BY <1>1, <1>2, <1>3, TypeKept DEF TypeInv, FeedInv, PageTypes, AnonInv

LEMMA LoginStep ==
  ASSUME TypeInv, Running(Login)
  PROVE  /\ TypeInv' /\ status = "anon" /\ status' = "authed" /\ fetch' = Asking /\ lost' = FALSE
         /\ snap = NoSnap /\ local = Fresh /\ (\A a \in acts : a.from = "gone")
         /\ UNCHANGED <<srv, snap, acts, local, failures, leaves, page, events, moves>>
<1>1. /\ status = "anon" /\ session' = TRUE /\ status' = "authed" /\ fetch' = Asking /\ lost' = FALSE
      /\ UNCHANGED <<srv, snap, acts, local, failures, leaves, page, events, moves>>
  BY DEF Running, consoleVars, Login
<1>2. snap = NoSnap /\ local = Fresh /\ \A a \in acts : a.from = "gone"
  BY <1>1 DEF TypeInv, FeedInv, AnonInv
<1>3. Counters'
  BY <1>1 DEF TypeInv, FeedInv, Counters
<1>4. FetchInv' /\ AnonInv' /\ OwnSlots' /\ session' \in BOOLEAN
  BY <1>1, PageStays DEF TypeInv, FeedInv, FetchInv, AnonInv, OwnSlots, Servers, NoSnap, Asking
<1>5. Servers' = Servers
  BY <1>1, PageStays DEF Servers
<1>. QED
  BY <1>1, <1>2, <1>3, <1>4, <1>5 DEF TypeInv, FeedInv, PageTypes, NoSnap

LEMMA LeavePageStep ==
  ASSUME TypeInv, Running(LeavePage(After(Fresh, snap)))
  PROVE  /\ TypeInv' /\ status = "authed" /\ leaves' = leaves + 1 /\ lost' = FALSE
         /\ local' = After(Fresh, snap) /\ (\A b \in acts' : b.from # "page")
         /\ UNCHANGED <<srv, session, status, snap, fetch, failures, page, events, moves>>
<1>1. /\ status = "authed" /\ leaves' = leaves + 1 /\ lost' = FALSE /\ Trouble
      /\ acts' = LeftByPage /\ local' = After(Fresh, snap)
      /\ UNCHANGED <<srv, session, status, snap, fetch, failures, page, events, moves>>
  BY DEF Running, consoleVars, LeavePage, serverVars
<1>2. local' \in LocalsOf(page)
  BY <1>1, FreshTyped, AfterTyped DEF TypeInv, FeedInv
<1> DEFINE mine == {a \in acts : Own(a)}
<1>3. acts' = {[a EXCEPT !.from = IF a \in mine THEN "layout" ELSE @] : a \in acts}
  BY <1>1 DEF LeftByPage
<1>4. /\ acts' \subseteq ActsOf(page) /\ OwnSlots'
      /\ \A b \in acts' : \E a \in acts : b.from = IF a \in mine THEN "layout" ELSE a.from
  <2>1. mine \in SUBSET acts /\ acts \in SUBSET acts
    OBVIOUS
  <2>. HIDE DEF mine
  <2>2. \A rest \in SUBSET acts :
          acts' = {[a EXCEPT !.from = IF a \in mine THEN "layout" ELSE @] : a \in rest}
          => /\ acts' \subseteq ActsOf(page) /\ OwnSlots'
             /\ \A b \in acts' : \E a \in rest : b.from = IF a \in mine THEN "layout" ELSE a.from
    BY <2>1, LeftIs DEF TypeInv, FeedInv, PageTypes
  <2>. QED
    BY <1>3, <2>1, <2>2
<1>5. \A b \in acts' : b.from # "page"
  BY <1>4 DEF Own
<1>6. Counters'
  <2>1. lost' \in BOOLEAN
    BY <1>1
  <2>. QED
    BY <1>1, <2>1, FeedAssumption DEF TypeInv, FeedInv, Counters, Trouble
<1>7. FetchInv'
  BY <1>1, PageStays DEF TypeInv, FeedInv, FetchInv, Servers, NoSnap
<1>8. TypeInv'
  BY <1>1, <1>2, <1>4, <1>6, <1>7, TypeKept DEF TypeInv, FeedInv, PageTypes
<1>. QED
  BY <1>1, <1>5, <1>8

LEMMA StutterType == ASSUME TypeInv, UNCHANGED vars PROVE TypeInv'
<1>1. Counters' /\ FetchInv' /\ OwnSlots' /\ UNCHANGED <<page, status, acts, local, srv, snap, session>>
  BY PageStays DEF vars, consoleVars, TypeInv, FeedInv, Counters, FetchInv, OwnSlots, Servers, NoSnap
<1>. QED
  BY <1>1, TypeKept DEF TypeInv, FeedInv, PageTypes, AnonInv

LEMMA TypeStep == TypeInv /\ [Next]_vars => TypeInv'
<1> SUFFICES ASSUME TypeInv, [Next]_vars PROVE TypeInv'
  OBVIOUS
<1>1. CASE Operate                BY <1>1, OperateType
<1>2. CASE Event                  BY <1>2, EventType
<1>3. CASE Running(ServeState \/ FailState \/ TimerFires) BY <1>3, PollType
<1>4. CASE Running(AnswerState)   BY <1>4, AnswerType
<1>5. CASE Running(AskDetail)     BY <1>5, DetailType
<1>6. CASE Running(ServeAnAct)    BY <1>6, ServeType
<1>7. CASE Running(AnswerAnAct)
  BY <1>7, AnsweredStep, ThrowsStep, UnauthorizedStep DEF AnswerAnAct, Running
<1>8. CASE \E a \in acts : Running(LoseAct(a)) BY <1>8, LoseType
<1>9. CASE Running(QueryExpires)  BY <1>9, QueryExpiresStep
<1>10. CASE Running(EndSession)   BY <1>10, EndSessionStep
<1>11. CASE Running(Login)        BY <1>11, LoginStep
<1>12. CASE Running(LeavePage(After(Fresh, snap))) BY <1>12, LeavePageStep
<1>13. CASE UNCHANGED vars        BY <1>13, StutterType
<1>. QED
  BY <1>1, <1>2, <1>3, <1>4, <1>5, <1>6, <1>7, <1>8, <1>9, <1>10, <1>11, <1>12, <1>13 DEF Next, Running

-----------------------------------------------------------------------------
(* GpuValidation: the target, its banners and its detail.                   *)

LEMMA SettledSound ==
  ASSUME NEW l \in ValidationLocal, NEW s \in ValidationSrv \cup {NoSnap}, BannerOK(l), QueryOK(l)
  PROVE  /\ TargetOK(Settled(l, s), s) /\ BannerOK(Settled(l, s)) /\ QueryOK(Settled(l, s))
<1> DEFINE m == Settled(l, s)
<1>1. /\ m.target = Target(l, s)
      /\ m.pinned = IF s = NoSnap \/ LiveAsset(l.pinned, s) = None THEN l.pinned
                    ELSE LiveAsset(l.pinned, s)
      /\ m.target = l.target => m.err = l.err /\ m.notice = l.notice /\ m.late = l.late
      /\ m.target # l.target => m.err = None /\ m.notice = None
      /\ m.query = Query(Target(l, s)) \/ (m.query = l.query /\ Target(l, s) = l.target)
      /\ m.target = Target(m, s)
  BY SettledFields, SettledTarget
<1>2. s # NoSnap => LiveAsset(LiveAsset(l.pinned, s), s) = LiveAsset(l.pinned, s)
  BY LiveAssetIs DEF ValidationLocal
<1>. HIDE DEF m
<1>3. TargetOK(m, s)
  BY <1>1, <1>2 DEF TargetOK
<1>4. BannerOK(m)
  BY <1>1 DEF BannerOK
<1>5. QueryOK(m)
  BY <1>1 DEF QueryOK, Query
<1>. QED
  BY <1>3, <1>4, <1>5 DEF m

\* What keeps the address, the pin, the target and the snapshot keeps the target sound.
LEMMA SameTarget ==
  ASSUME TargetOK(local, snap), snap' = snap, local'.param = local.param,
         local'.pinned = local.pinned, local'.target = local.target
  PROVE  TargetInv'
BY DEF TargetOK, TargetInv, Target

LEMMA FreshSound ==
  ValidationFresh \in ValidationLocal /\ TargetOK(ValidationFresh, NoSnap)
  /\ BannerOK(ValidationFresh) /\ QueryOK(ValidationFresh)
<1>1. ValidationFresh \in ValidationLocal
  BY DEF ValidationFresh, ValidationLocal, NoDetail, Query, DetailOf, QueryOf
<1>2. TargetOK(ValidationFresh, NoSnap)
  BY DEF TargetOK, ValidationFresh, Target
<1>3. BannerOK(ValidationFresh) /\ QueryOK(ValidationFresh)
  BY DEF BannerOK, QueryOK, ValidationFresh, Query
<1>. QED
  BY <1>1, <1>2, <1>3

LEMMA OperateSeen ==
  ASSUME TypeInv, page = "validation", SeenInv, Operate
  PROVE  SeenInv'
<1>1. /\ local \in ValidationLocal /\ snap \in ValidationSrv \cup {NoSnap}
      /\ snap' = snap /\ TargetOK(local, snap) /\ BannerOK(local) /\ QueryOK(local)
  BY InView, OperateIs DEF Operated, LocalsOf, ServersOf, SeenInv, TargetInv, BannerInv, QueryInv
<1>2. \/ \E u \in Gpus \cup {None} : OpenAsset(u)
      \/ ValidationType
      \/ ValidationPress
  BY ValidationOperates DEF Operate
<1>3. ASSUME NEW u \in Gpus \cup {None}, OpenAsset(u) PROVE SeenInv'
  <2> DEFINE l == [local EXCEPT !.param = u]
  <2>1. l \in ValidationLocal /\ BannerOK(l) /\ QueryOK(l)
    <3>1. /\ l \in ValidationLocal /\ l.target = local.target /\ l.err = local.err
          /\ l.notice = local.notice /\ l.late = local.late /\ l.query = local.query
      BY <1>1, OpenedIs
    <3>. HIDE DEF l
    <3>. QED
      BY <1>1, <3>1 DEF BannerOK, QueryOK
  <2>2. local' = Settled(l, snap)
    BY <1>3 DEF OpenAsset
  <2>. HIDE DEF l
  <2>. QED
    BY <1>1, <2>1, <2>2, SettledSound DEF SeenInv, TargetInv, BannerInv, QueryInv
<1>4. CASE ValidationType
  BY <1>1, <1>4, SameTarget DEF ValidationType, SeenInv, BannerOK, QueryOK, BannerInv, QueryInv
<1>5. CASE ValidationPress
  BY <1>1, <1>5, SameTarget DEF ValidationPress, SeenInv, BannerOK, QueryOK, BannerInv, QueryInv
<1>. QED
  BY <1>2, <1>3, <1>4, <1>5

LEMMA DetailSeen ==
  ASSUME TypeInv, page = "validation", SeenInv, Running(AskDetail)
  PROVE  SeenInv'
<1>1. DetailKeeps /\ snap' = snap
  BY DetailIs DEF Running
<1>2. TargetInv'
  BY <1>1, SameTarget DEF DetailKeeps, SeenInv, TargetInv
<1>3. BannerInv'
  BY <1>1 DEF DetailKeeps, SeenInv, BannerInv, BannerOK
<1>4. QueryInv'
  BY <1>1 DEF DetailKeeps, SeenInv, QueryInv, QueryOK, Query
<1>. QED
  BY <1>2, <1>3, <1>4 DEF SeenInv

LEMMA AnswerSeen ==
  ASSUME TypeInv, page = "validation", SeenInv, Running(AnswerState)
  PROVE  SeenInv'
<1>1. CASE snap' = snap /\ local' = local
  BY <1>1 DEF SeenInv, TargetInv, BannerInv, QueryInv
<1>2. CASE /\ snap' = fetch.seen /\ fetch.seen \in Servers
           /\ local' = After(local, fetch.seen)
  <2>1. /\ local' = Settled(local, snap') /\ snap' \in ValidationSrv /\ local \in ValidationLocal
    BY <1>2, InView DEF After, Servers, ServersOf, LocalsOf
  <2>. QED
    BY <2>1, SettledSound DEF SeenInv, TargetInv, BannerInv, QueryInv
<1>. QED
  BY <1>1, <1>2, AnswerIs

LEMMA AnsweredSeen ==
  ASSUME TypeInv, page = "validation", SeenInv, NEW a \in acts,
         Running(ActAnswered(a, Handled(a), More(a)))
  PROVE  SeenInv'
<1>1. snap' = snap /\ local' = IF Own(a) THEN ValidationAfter(a) ELSE local
  BY AnsweredStep DEF Handled
<1>2. CASE local' = local
  BY <1>1, <1>2 DEF SeenInv, TargetInv, BannerInv, QueryInv
<1>3. CASE local' = ValidationAfter(a)
  <2>1. local \in ValidationLocal /\ a \in ActsOf("validation")
    BY InView DEF LocalsOf, TypeInv, PageTypes
  <2>2. /\ local'.param = local.param /\ local'.pinned = local.pinned
        /\ local'.target = local.target
        /\ local'.query = local.query \/ local'.query = Query(local.target)
        /\ local'.err \in {local.err, a.of} /\ local'.notice \in {local.notice, a.of}
        /\ local.late => local'.late
        /\ (local'.err # local.err \/ local'.notice # local.notice)
             => a.of = local.target \/ local'.late
    BY <1>3, <2>1, ValidationAfterFields
  <2>3. TargetInv'
    BY <1>1, <2>2, SameTarget DEF SeenInv, TargetInv
  <2>4. BannerInv'
    BY <2>2 DEF SeenInv, BannerInv, BannerOK
  <2>5. QueryInv'
    BY <2>2 DEF SeenInv, QueryInv, QueryOK, Query
  <2>. QED
    BY <2>3, <2>4, <2>5 DEF SeenInv
<1>. QED
  BY <1>1, <1>2, <1>3

LEMMA SeenStep ==
  ASSUME TypeInv, page = "validation", SeenInv, [Next]_vars
  PROVE  SeenInv'
<1>1. CASE UNCHANGED <<snap, local>>
  BY <1>1 DEF SeenInv, TargetInv, BannerInv, QueryInv
<1>2. CASE snap' = NoSnap /\ local' = Fresh
  BY <1>2, FreshSound DEF Fresh, SeenInv, TargetInv, BannerInv, QueryInv
<1>3. CASE Operate
  BY <1>3, OperateSeen
<1>4. CASE Event
  BY <1>1, <1>4 DEF Event
<1>5. CASE Running(ServeState \/ FailState \/ TimerFires)
  BY <1>1, <1>5 DEF Running, ServeState, FailState, TimerFires
<1>6. CASE Running(AnswerState)
  BY <1>6, AnswerSeen
<1>7. CASE Running(AskDetail)
  BY <1>7, DetailSeen
<1>8. CASE Running(ServeAnAct)
  BY <1>1, <1>8, ServeIs
<1>9. CASE Running(AnswerAnAct)
  <2>1. ASSUME NEW a \in acts, Running(ActThrows(a, Thrown)) PROVE SeenInv'
    BY <1>1, <2>1, ThrowsStep DEF Thrown
  <2>2. ASSUME NEW a \in acts, Running(ActUnauthorized(a, Fresh)) PROVE SeenInv'
    BY <1>2, <2>2, UnauthorizedStep
  <2>. QED
    BY <1>9, <2>1, <2>2, AnsweredSeen DEF AnswerAnAct, Running
<1>10. CASE \E a \in acts : Running(LoseAct(a))
  BY <1>1, <1>10, LoseType
<1>11. CASE Running(QueryExpires)
  BY <1>2, <1>11, QueryExpiresStep
<1>12. CASE Running(EndSession) \/ Running(Login)
  BY <1>1, <1>12, EndSessionStep, LoginStep
<1>13. CASE Running(LeavePage(After(Fresh, snap)))
  <2>1. /\ local' = Settled(ValidationFresh, snap) /\ snap' = snap
        /\ snap \in ValidationSrv \cup {NoSnap}
    BY <1>13, LeavePageStep, InView DEF After, Fresh, ServersOf
  <2>. QED
    BY <2>1, FreshSound, SettledSound DEF SeenInv, TargetInv, BannerInv, QueryInv
<1>14. CASE UNCHANGED vars
  BY <1>1, <1>14 DEF vars
<1>. QED
  BY <1>3, <1>4, <1>5, <1>6, <1>7, <1>8, <1>9, <1>10, <1>11, <1>12, <1>13, <1>14 DEF Next, Running

-----------------------------------------------------------------------------
(* GpuValidation: the configuration of a burn-in.                           *)

\* What ChosenInv says of one action.
Chosen(a) ==
  /\ Own(a) /\ a.is # "unauth" /\ local.busy
  /\ a.act = "configure" /\ a.want # None => a.val = a.want /\ (a.is = "ok" => srv.cfg = a.want)
  /\ a.act = "start-burnin" => srv.cfg = a.want

LEMMA EventKeepsCfg ==
  ASSUME NEW s \in ValidationSrv, NEW t \in ValidationEvents(s)
  PROVE  t.cfg = s.cfg /\ ~(s.phase = "burnin-failed" /\ t.phase = "burnin-2")
<1>1. CASE \E p \in Phases : t = [s EXCEPT !.phase = p] /\
             <<s.phase, t.phase>> \in {<<"normal", "burnin-1">>, <<"burnin-1", "burnin-failed">>,
                                       <<"burnin-2", "ready-to-return">>, <<"returned", "normal">>}
  BY <1>1 DEF ValidationSrv
<1>2. CASE \E g \in Gpus, v \in Verdicts : t = [s EXCEPT !.verdict[g] = v]
  BY <1>2 DEF ValidationSrv
<1>. QED
  BY <1>1, <1>2 DEF ValidationEvents

\* The server's configuration is what the last action done has set, if it sets one.
LEMMA OutcomesCfg ==
  ASSUME srv \in ValidationSrv, NEW a \in ActsOf("validation"), NEW s \in ValidationOutcomes(a)
  PROVE  /\ s.cfg = IF a.act = "configure" THEN a.val ELSE srv.cfg
         /\ srv.phase = "burnin-failed" /\ s.phase = "burnin-2" => a.act = "start-burnin"
<1>1. CASE a.act = "configure"
  BY <1>1 DEF ValidationOutcomes, ValidationSrv
<1>2. CASE a.act = "start-burnin"
  BY <1>2 DEF ValidationOutcomes, ValidationSrv
<1>3. CASE a.act = "return-to-service"
  BY <1>3 DEF ValidationOutcomes, ValidationSrv
<1>4. CASE a.act \notin {"configure", "start-burnin", "return-to-service"}
  <2>1. s = [srv EXCEPT !.verdict[a.of] = "validating"]
    BY <1>4 DEF ValidationOutcomes
  <2>2. s.cfg = srv.cfg /\ s.phase = srv.phase
    BY <2>1 DEF ValidationSrv
  <2>. QED
    BY <1>4, <2>2
<1>. QED
  BY <1>1, <1>2, <1>3, <1>4

LEMMA OperateChosen ==
  ASSUME TypeInv, page = "validation", ChosenInv, Operate
  PROVE  ChosenInv'
<1> SUFFICES ASSUME leaves' = 0
             PROVE  /\ session' /\ status' = "authed"
                    /\ \A a, b \in acts' : a = b
                    /\ \A a \in acts' : Chosen(a)'
  BY DEF ChosenInv, Chosen
<1>1. /\ UNCHANGED <<srv, session, status, leaves>> /\ ValidationNext
      /\ local \in ValidationLocal /\ snap \in ValidationSrv \cup {NoSnap}
  BY OperateIs, InView DEF Operated, histVars, Operate, LocalsOf, ServersOf
<1>2. /\ session /\ status = "authed" /\ (\A a, b \in acts : a = b) /\ \A a \in acts : Chosen(a)
  BY <1>1 DEF ChosenInv, Chosen
<1>3. CASE acts' = acts /\ local'.busy = local.busy
  BY <1>1, <1>2, <1>3 DEF Chosen, Own
<1>4. ASSUME NEW u \in Gpus \cup {None}, OpenAsset(u) PROVE local'.busy = local.busy
  <2> DEFINE l == [local EXCEPT !.param = u]
  <2>1. l \in ValidationLocal /\ l.busy = local.busy
    BY <1>1, OpenedIs
  <2>2. local' = Settled(l, snap)
    BY <1>4 DEF OpenAsset
  <2>. HIDE DEF l
  <2>. QED
    BY <1>1, <2>1, <2>2, SettledFields
<1>5. CASE ValidationPress
  <2>1. acts = {}
    BY <1>2, <1>5 DEF ValidationPress, Chosen
  <2>2. PICK act \in {"configure"} \cup GateNames, of \in Assets \cup {None},
             val \in Configs \cup {None}, want \in Configs \cup {None} :
          /\ act = "configure" /\ want # None => val = want
          /\ act # "start-burnin" /\ Send(act, of, val, want)
    BY <1>5 DEF ValidationPress
  <2>3. acts' = {Action(act, of, val, want)}
    BY <2>1, <2>2 DEF Send
  <2>4. \A a \in acts' : a.from = "page" /\ a.is = "sent" /\ a.act = act /\ a.val = val /\ a.want = want
    BY <2>3 DEF Action
  <2>5. local'.busy
    BY <1>5 DEF ValidationPress
  <2>. QED
    BY <1>1, <1>2, <2>2, <2>3, <2>4, <2>5 DEF Chosen, Own
<1>. QED
  BY <1>1, <1>3, <1>4, <1>5, ValidationOperates DEF ValidationType

LEMMA ServeChosen ==
  ASSUME TypeInv, page = "validation", ChosenInv, Running(ServeAnAct)
  PROVE  /\ ChosenInv'
         /\ srv.phase = "burnin-failed" /\ srv'.phase = "burnin-2"
              => leaves > 0 \/ \E a \in acts : a.act = "start-burnin" /\ a.want = srv.cfg
<1>1. /\ UNCHANGED <<session, status, snap, fetch, local, histVars, page, events, moves>>
      /\ \E a \in acts :
           /\ a.is = "sent"
           /\ \/ ~session /\ Become(a, "unauth") /\ srv' = srv
              \/ session /\ (Outcomes(a) = {} \/ AtWill(a)) /\ Become(a, "refused") /\ srv' = srv
              \/ session /\ srv' \in Outcomes(a) /\ srv' \in Servers /\ Become(a, "ok")
  BY ServeIs
<1>2. PICK a \in acts :
        /\ a.is = "sent"
        /\ \/ ~session /\ Become(a, "unauth") /\ srv' = srv
           \/ session /\ (Outcomes(a) = {} \/ AtWill(a)) /\ Become(a, "refused") /\ srv' = srv
           \/ session /\ srv' \in Outcomes(a) /\ srv' \in Servers /\ Become(a, "ok")
  BY <1>1
<1>3. PICK is \in {"unauth", "refused", "ok"} :
        /\ Become(a, is)
        /\ is = "unauth" => ~session
        /\ is # "ok" => srv' = srv
        /\ is = "ok" => srv' \in ValidationOutcomes(a)
  BY <1>2 DEF Outcomes
<1>4. /\ acts' = (acts \ {a}) \cup {[a EXCEPT !.is = is]}
      /\ [a EXCEPT !.is = is] = [slot |-> a.slot, act |-> a.act, of |-> a.of, val |-> a.val,
                                  want |-> a.want, from |-> a.from, is |-> is]
  BY <1>3, BecomeIs DEF TypeInv, FeedInv, PageTypes
<1>5. srv \in ValidationSrv /\ a \in ActsOf("validation") /\ leaves \in Nat
  BY InView DEF ServersOf, TypeInv, FeedInv, Counters, PageTypes
<1>6. /\ is = "ok" => srv'.cfg = IF a.act = "configure" THEN a.val ELSE srv.cfg
      /\ is = "ok" /\ srv.phase = "burnin-failed" /\ srv'.phase = "burnin-2"
           => a.act = "start-burnin"
  BY <1>3, <1>5, OutcomesCfg
<1>7. ASSUME leaves = 0
      PROVE  ChosenInv' /\ Chosen(a)
  <2>1. session /\ status = "authed" /\ (\A b \in acts : b = a) /\ Chosen(a)
    BY <1>7 DEF ChosenInv, Chosen
  <2> DEFINE b == [a EXCEPT !.is = is]
  <2>2. acts' = {b}
    BY <1>4, <2>1
  <2>3. b.act = a.act /\ b.val = a.val /\ b.want = a.want /\ b.from = a.from /\ b.is = is
    BY <1>4
  <2>. HIDE DEF b
  <2>4. is # "unauth"
    BY <1>3, <2>1
  <2>5. /\ b.is # "unauth" /\ b.from = "page" /\ local.busy
        /\ b.act = "configure" /\ b.want # None
             => b.val = b.want /\ (b.is = "ok" => srv'.cfg = b.want)
        /\ b.act = "start-burnin" => srv'.cfg = b.want
    BY <1>3, <1>6, <2>1, <2>3, <2>4 DEF Chosen, Own
  <2>. QED
    BY <1>1, <2>1, <2>2, <2>5 DEF ChosenInv, Own
<1>8. ChosenInv'
  <2>1. leaves' = leaves
    BY <1>1 DEF histVars
  <2>. QED
    BY <1>7, <2>1 DEF ChosenInv
<1>9. srv.phase = "burnin-failed" /\ srv'.phase = "burnin-2" => is = "ok"
  BY <1>3
<1>. QED
  BY <1>5, <1>6, <1>7, <1>8, <1>9 DEF Chosen

LEMMA AnsweredChosen ==
  ASSUME TypeInv, page = "validation", ChosenInv, NEW a \in acts,
         Running(ActAnswered(a, Handled(a), More(a)))
  PROVE  ChosenInv'
<1> SUFFICES ASSUME leaves' = 0
             PROVE  /\ session' /\ status' = "authed"
                    /\ \A x, y \in acts' : x = y
                    /\ \A x \in acts' : Chosen(x)'
  BY DEF ChosenInv, Chosen
<1>1. /\ UNCHANGED <<srv, session, status, leaves>>
      /\ a.is \in {"ok", "refused"} /\ acts' = (acts \ {a}) \cup More(a)
      /\ local' = IF Own(a) THEN ValidationAfter(a) ELSE local
  BY AnsweredStep DEF Handled
<1>2. session /\ status = "authed" /\ (\A b \in acts : b = a) /\ Chosen(a)
  BY <1>1 DEF ChosenInv, Chosen
<1>3. acts' = More(a)
  BY <1>1, <1>2
<1>4. local' = ValidationAfter(a)
  BY <1>1, <1>2 DEF Chosen
<1>5. local'.busy = StartsNext(a)
  BY <1>4, InView, ValidationAfterFields DEF LocalsOf, TypeInv, PageTypes
<1>6. ASSUME NEW b \in More(a)
      PROVE  /\ More(a) = {b} /\ StartsNext(a) /\ b.act = "start-burnin" /\ b.want = a.want
             /\ b.from = a.from /\ b.is = "sent"
  BY MoreTyped DEF TypeInv, FeedInv, PageTypes
<1>. QED
  BY <1>1, <1>2, <1>3, <1>5, <1>6 DEF Chosen, Own, StartsNext

LEMMA ChosenStep ==
  ASSUME TypeInv, page = "validation", ChosenInv, [Next]_vars
  PROVE  /\ ChosenInv'
         /\ srv.phase = "burnin-failed" /\ srv'.phase = "burnin-2"
              => leaves > 0 \/ \E a \in acts : a.act = "start-burnin" /\ a.want = srv.cfg
<1>1. srv \in ValidationSrv /\ leaves \in Nat
  BY InView DEF ServersOf, TypeInv, FeedInv, Counters
<1>2. ASSUME UNCHANGED <<session, status, acts, leaves>>, srv'.cfg = srv.cfg,
             local'.busy = local.busy
      PROVE  ChosenInv'
  BY <1>2 DEF ChosenInv, Own
<1>3. CASE Operate
  BY <1>3, OperateChosen, OperateIs DEF Operated
<1>4. CASE Event
  <2>1. srv' \in ValidationEvents(srv)
    BY <1>4 DEF Event, Events
  <2>. QED
    BY <1>1, <1>2, <1>4, <2>1, EventKeepsCfg DEF Event, histVars
<1>5. CASE Running(ServeState \/ FailState \/ TimerFires)
  BY <1>2, <1>5 DEF Running, ServeState, FailState, TimerFires, serverVars, histVars
<1>6. CASE Running(AnswerState)
  <2>1. local'.busy = local.busy
    BY <1>6, AnswerIs, InView, SettledFields DEF After, Servers, ServersOf, LocalsOf
  <2>. QED
    BY <1>2, <1>6, <2>1, AnswerIs
<1>7. CASE Running(AskDetail)
  BY <1>2, <1>7, DetailIs DEF Running, DetailKeeps, histVars
<1>8. CASE Running(ServeAnAct)
  BY <1>8, ServeChosen
<1>9. CASE Running(AnswerAnAct)
  <2>1. ASSUME NEW a \in acts, Running(ActThrows(a, Thrown)) PROVE ChosenInv' /\ srv' = srv
    BY <2>1, ThrowsStep DEF Thrown, ChosenInv, Own
  <2>2. ASSUME NEW a \in acts, Running(ActUnauthorized(a, Fresh)) PROVE ChosenInv' /\ srv' = srv
    BY <2>2, UnauthorizedStep DEF ChosenInv
  <2>3. ASSUME NEW a \in acts, Running(ActAnswered(a, Handled(a), More(a)))
        PROVE  ChosenInv' /\ srv' = srv
    BY <2>3, AnsweredStep, AnsweredChosen
  <2>. QED
    BY <1>9, <2>1, <2>2, <2>3 DEF AnswerAnAct, Running
<1>10. CASE \E a \in acts : Running(LoseAct(a))
  <2>1. PICK a \in acts : Running(LoseAct(a))
    BY <1>10
  <2>2. /\ Become(a, "lost") /\ UNCHANGED <<srv, session, status, local, leaves>>
        /\ acts' = (acts \ {a}) \cup {[a EXCEPT !.is = "lost"]}
        /\ [a EXCEPT !.is = "lost"] = [slot |-> a.slot, act |-> a.act, of |-> a.of, val |-> a.val,
                                        want |-> a.want, from |-> a.from, is |-> "lost"]
    BY <2>1, LoseType, BecomeIs DEF TypeInv, FeedInv, PageTypes
  <2>3. ASSUME leaves = 0 PROVE ChosenInv'
    <3> DEFINE b == [a EXCEPT !.is = "lost"]
    <3>1. session /\ status = "authed" /\ (\A c \in acts : c = a) /\ Chosen(a)
      BY <2>3 DEF ChosenInv, Chosen
    <3>2. acts' = {b}
      BY <2>2, <3>1
    <3>3. b.act = a.act /\ b.val = a.val /\ b.want = a.want /\ b.from = a.from /\ b.is = "lost"
      BY <2>2
    <3>. HIDE DEF b
    <3>4. /\ b.is # "unauth" /\ b.from = "page" /\ local.busy /\ b.is # "ok"
          /\ b.act = "configure" /\ b.want # None => b.val = b.want
          /\ b.act = "start-burnin" => srv.cfg = b.want
      BY <3>1, <3>3 DEF Chosen, Own
    <3>. QED
      BY <2>2, <3>1, <3>2, <3>4 DEF ChosenInv, Own
  <2>. QED
    BY <2>2, <2>3 DEF ChosenInv
<1>11. CASE Running(QueryExpires)
  BY <1>11, QueryExpiresStep DEF ChosenInv
<1>12. CASE Running(EndSession) \/ Running(LeavePage(After(Fresh, snap)))
  <2>1. leaves' = leaves + 1 /\ srv' = srv
    BY <1>12, EndSessionStep, LeavePageStep
  <2>. QED
    BY <1>1, <2>1 DEF ChosenInv
<1>13. CASE Running(Login)
  BY <1>13, LoginStep DEF ChosenInv
<1>14. CASE UNCHANGED vars
  BY <1>2, <1>14 DEF vars
<1>. QED
  BY <1>3, <1>4, <1>5, <1>6, <1>7, <1>8, <1>9, <1>10, <1>11, <1>12, <1>13, <1>14 DEF Next, Running

-----------------------------------------------------------------------------
(* GpuHealth.                                                               *)

\* The server as it may be later: what was raised is not to come again.
Later(s, t) ==
  \A n \in Alarms : /\ s[n] # "coming" => t[n] # "coming"
                    /\ t[n] = "open" => s[n] \in {"open", "coming"}

LEMMA EventsLater ==
  ASSUME NEW s \in HealthSrv, NEW t \in HealthEvents(s)
  PROVE  Later(s, t)
<1>1. PICK m \in Alarms, v \in AlarmStates : t = [s EXCEPT ![m] = v]
  BY DEF HealthEvents
<1>2. \E n \in Alarms : <<s[n], t[n]>> \in
        {<<"coming", "open">>, <<"open", "acked">>, <<"open", "gone">>, <<"acked", "gone">>}
  BY DEF HealthEvents
<1>3. \A n \in Alarms : n # m => t[n] = s[n]
  BY <1>1 DEF HealthSrv
<1>4. <<s[m], t[m]>> \in
        {<<"coming", "open">>, <<"open", "acked">>, <<"open", "gone">>, <<"acked", "gone">>}
  BY <1>2, <1>3
<1>. QED
  BY <1>3, <1>4 DEF Later

LEMMA OutcomesLater ==
  ASSUME srv \in HealthSrv, NEW a \in ActsOf("health"), NEW t \in HealthOutcomes(a)
  PROVE  Later(srv, t) /\ t[a.of] = "acked"
<1>1. a.of \in Alarms
  BY DEF ActsOf, AnyOf
<1>2. OnList(srv, a.of) /\ t = [srv EXCEPT ![a.of] = "acked"]
  BY DEF HealthOutcomes
<1>. QED
  BY <1>1, <1>2 DEF Later, OnList, HealthSrv

LEMMA HealthLater ==
  ASSUME page = "health", Later(srv, srv'), TypeInv, TypeInv', HealthAll, UNCHANGED <<page, lost>>,
         snap' = snap \/ snap' = NoSnap,
         fetch' = fetch \/ fetch'.is # "ok" \/ (fetch'.seen = srv /\ srv' = srv), local' = local,
         \A b \in Mine' : \E a \in Mine : /\ b.of = a.of
                                          /\ b.is \in {"ok", "refused"} /\ b.is # a.is
                                               => srv'[b.of] # "open",
         \A a \in Mine : srv'[a.of] = "open" => \E b \in Mine' : b.of = a.of
  PROVE  HealthAll'
<1>1. /\ snap # NoSnap => Seen(snap)
      /\ fetch.is = "ok" => Seen(fetch.seen)
      /\ \A n \in local.acked : srv[n] # "coming"
      /\ \A a \in Mine : /\ srv[a.of] # "coming"
                         /\ a.is \in {"ok", "refused"} => srv[a.of] # "open"
      /\ ~lost => \A n \in local.acked : srv[n] = "open" => \E a \in Mine : a.of = n
  BY DEF HealthAll, HealthInv, HealthMine
<1>2. local.acked \subseteq Alarms /\ (\A a \in Mine : a.of \in Alarms)
  BY DEF TypeInv, PageTypes, LocalsOf, HealthLocal, ActsOf, AnyOf, Mine
<1>3. \A s : Seen(s) => Seen(s)'
  BY DEF Seen, Later
<1>4. (snap # NoSnap => Seen(snap))'
  BY <1>1, <1>3 DEF Seen, Later, NoSnap
<1>5. (fetch.is = "ok" => Seen(fetch.seen))'
  BY <1>1 DEF Seen, Later
<1>6. (\A n \in local.acked : srv[n] # "coming")'
  BY <1>1, <1>2 DEF Later
<1>7. ASSUME NEW b \in Mine'
      PROVE  srv'[b.of] # "coming" /\ (b.is \in {"ok", "refused"} => srv'[b.of] # "open")
  <2>1. PICK a \in Mine : /\ b.of = a.of
                          /\ b.is \in {"ok", "refused"} /\ b.is # a.is => srv'[b.of] # "open"
    OBVIOUS
  <2>. QED
    BY <1>1, <1>2, <2>1 DEF Later
<1>8. (~lost => HealthMine)'
  BY <1>1, <1>2 DEF Later, HealthMine
<1>. QED
  BY <1>4, <1>5, <1>6, <1>7, <1>8 DEF HealthAll, HealthInv

\* A page without an action of its own, and with nothing marked.
LEMMA HealthBlank ==
  ASSUME page = "health", TypeInv, HealthAll, UNCHANGED <<page, srv>>, local' = HealthFresh, Mine' = {},
         snap' = snap \/ snap' = NoSnap, fetch' = fetch \/ fetch'.is # "ok"
  PROVE  HealthAll'
<1>1. local'.acked = {}
  BY DEF HealthFresh
<1>. QED
  BY <1>1 DEF HealthAll, HealthInv, HealthMine, Seen, NoSnap

\* An action in flight has become b, which is about the same.
LEMMA MineBecome ==
  ASSUME TypeInv, page' = page, NEW a \in acts,
         NEW is \in {"sent", "ok", "refused", "unauth", "lost"}, Become(a, is)
  PROVE  \E b : /\ b = [slot |-> a.slot, act |-> a.act, of |-> a.of, val |-> a.val,
                        want |-> a.want, from |-> a.from, is |-> is]
                /\ b.slot = a.slot /\ b.act = a.act /\ b.of = a.of /\ b.val = a.val /\ b.is = is
                /\ Mine' = IF Own(a) THEN (Mine \ {a}) \cup {b} ELSE Mine
                /\ \A c \in acts \ {a} : c.slot # b.slot
<1> DEFINE b == [a EXCEPT !.is = is]
<1>1. /\ acts' = (acts \ {a}) \cup {b}
      /\ b = [slot |-> a.slot, act |-> a.act, of |-> a.of, val |-> a.val,
              want |-> a.want, from |-> a.from, is |-> is]
  BY BecomeIs DEF TypeInv, FeedInv, PageTypes
<1>. HIDE DEF b
<1>2. b.slot = a.slot /\ b.act = a.act /\ b.of = a.of /\ b.val = a.val /\ b.is = is /\ b.from = a.from
  BY <1>1
<1>3. Mine' = IF Own(a) THEN (Mine \ {a}) \cup {b} ELSE Mine
  <2>1. \A c : c \in Mine' <=> (c \in acts \ {a} \/ c = b) /\ c.from = "page"
    BY <1>1 DEF Mine, Own
  <2>2. \A c : c \in Mine <=> c \in acts /\ c.from = "page"
    BY DEF Mine, Own
  <2>. QED
    BY <1>2, <2>1, <2>2 DEF Own
<1>4. \A c \in acts \ {a} : c.slot # b.slot
  BY <1>2 DEF TypeInv, FeedInv, OwnSlots
<1>. QED
  BY <1>1, <1>2, <1>3, <1>4

LEMMA HealthOperate ==
  ASSUME TypeInv, page = "health", HealthAll, Operate
  PROVE  HealthAll'
<1>1. UNCHANGED <<srv, snap, fetch, lost, page>>
  BY OperateIs DEF Operated, histVars
<1>2. PICK n \in Alarms : /\ snap # NoSnap /\ OnList(snap, n)
                          /\ local'.acked = local.acked \cup {n}
                          /\ Send("ack-alert", n, None, None)
  BY HealthOperates DEF Operate
<1>3. srv[n] # "coming"
  BY <1>2 DEF HealthAll, HealthInv, Seen, OnList
<1> DEFINE b == Action("ack-alert", n, None, None)
<1>4. b.of = n /\ b.is = "sent" /\ Own(b)
  BY DEF Action, Own
<1>5. acts' = acts \cup {b}
  BY <1>2 DEF Send
<1>. HIDE DEF b
<1>6. Mine' = Mine \cup {b}
  BY <1>4, <1>5 DEF Mine, Own
<1>7. (\A m \in local.acked : srv[m] # "coming")'
  BY <1>1, <1>2, <1>3 DEF HealthAll, HealthInv
<1>8. (\A a \in Mine : srv[a.of] # "coming" /\ (a.is \in {"ok", "refused"} => srv[a.of] # "open"))'
  BY <1>1, <1>3, <1>4, <1>6 DEF HealthAll, HealthInv
<1>9. (~lost => HealthMine)'
  BY <1>1, <1>2, <1>4, <1>6 DEF HealthAll, HealthMine
<1>. QED
  BY <1>1, <1>7, <1>8, <1>9 DEF HealthAll, HealthInv, Seen, NoSnap

LEMMA LaterSelf == Later(srv, srv)
BY DEF Later

LEMMA HealthServe ==
  ASSUME TypeInv, page = "health", HealthAll, Running(ServeAnAct)
  PROVE  HealthAll'
<1>1. /\ UNCHANGED <<session, status, snap, fetch, local, histVars, page, events, moves>>
      /\ \E a \in acts :
           /\ a.is = "sent"
           /\ \/ ~session /\ Become(a, "unauth") /\ srv' = srv
              \/ session /\ (Outcomes(a) = {} \/ AtWill(a)) /\ Become(a, "refused") /\ srv' = srv
              \/ session /\ srv' \in Outcomes(a) /\ srv' \in Servers /\ Become(a, "ok")
  BY ServeIs
<1>2. PICK a \in acts, is \in {"unauth", "refused", "ok"} :
        /\ Become(a, is)
        /\ is # "ok" => srv' = srv
        /\ is = "refused" => HealthOutcomes(a) = {}
        /\ is = "ok" => srv' \in HealthOutcomes(a)
  <2>1. \A a \in acts : ~AtWill(a)
    BY DEF TypeInv, PageTypes, ActsOf, AnyOf, AtWill
  <2>. QED
    BY <1>1, <2>1 DEF Outcomes
<1>3. srv \in HealthSrv /\ a \in ActsOf("health") /\ srv[a.of] \in AlarmStates
  BY InView DEF ServersOf, HealthSrv, TypeInv, PageTypes, ActsOf, AnyOf
<1>4. /\ Later(srv, srv')
      /\ is = "ok" => srv'[a.of] = "acked"
      /\ is = "refused" => srv'[a.of] \notin {"open", "acked"}
  BY <1>2, <1>3, OutcomesLater, LaterSelf DEF HealthOutcomes, OnList
<1>5. PICK b : /\ b.of = a.of /\ b.is = is
               /\ Mine' = IF Own(a) THEN (Mine \ {a}) \cup {b} ELSE Mine
  BY <1>1, <1>2, MineBecome
<1>6. \A c \in Mine' : \E d \in Mine : /\ c.of = d.of
                                       /\ c.is \in {"ok", "refused"} /\ c.is # d.is
                                            => srv'[c.of] # "open"
  BY <1>2, <1>4, <1>5 DEF Mine
<1>7. \A d \in Mine : \E c \in Mine' : c.of = d.of
  BY <1>5 DEF Mine
<1>. QED
  BY <1>1, <1>4, <1>6, <1>7, ServeType, HealthLater DEF histVars

LEMMA HealthLose ==
  ASSUME TypeInv, page = "health", HealthAll, NEW a \in acts, Running(LoseAct(a))
  PROVE  HealthAll'
<1>1. /\ TypeInv' /\ Become(a, "lost") /\ UNCHANGED <<srv, snap, fetch, local, lost, page>>
  BY LoseType
<1>2. PICK b : /\ b.of = a.of /\ b.is = "lost"
               /\ Mine' = IF Own(a) THEN (Mine \ {a}) \cup {b} ELSE Mine
  BY <1>1, MineBecome
<1>3. /\ \A c \in Mine' : \E d \in Mine : c.of = d.of /\ (c.is # d.is => c.is = "lost")
      /\ \A d \in Mine : \E c \in Mine' : c.of = d.of
  BY <1>2 DEF Mine
<1>. QED
  BY <1>1, <1>3, LaterSelf, HealthLater

LEMMA HealthAnswered ==
  ASSUME TypeInv, page = "health", HealthAll, NEW a \in acts,
         Running(ActAnswered(a, Handled(a), More(a)))
  PROVE  HealthAll'
<1>1. /\ TypeInv' /\ UNCHANGED <<srv, snap, lost, page>> /\ acts' = acts \ {a} /\ local' = local
      /\ a.is \in {"ok", "refused"}
  BY AnsweredStep DEF More, Handled
<1>2. fetch' = fetch \/ fetch'.is # "ok"
  BY DEF Running, ActAnswered, Asking
<1>3. Mine' = Mine \ {a}
  BY <1>1 DEF Mine, Own
<1>4. a \in Mine => srv[a.of] # "open"
  BY <1>1 DEF HealthAll, HealthInv
<1>. QED
  BY <1>1, <1>2, <1>3, <1>4, LaterSelf, HealthLater

LEMMA HealthThrows ==
  ASSUME TypeInv, page = "health", HealthAll, NEW a \in acts, Running(ActThrows(a, Thrown))
  PROVE  HealthAll'
<1>1. /\ UNCHANGED <<srv, snap, fetch, page>> /\ acts' = acts \ {a} /\ local' = local
      /\ lost' = (lost \/ Own(a))
  BY ThrowsStep DEF Thrown
<1>2. Mine' = Mine \ {a} /\ (~Own(a) => Mine' = Mine)
  BY <1>1 DEF Mine, Own
<1>. QED
  BY <1>1, <1>2 DEF HealthAll, HealthInv, HealthMine, Seen, NoSnap

LEMMA HealthStep ==
  ASSUME TypeInv, page = "health", HealthAll, [Next]_vars
  PROVE  HealthAll'
<1>1. ASSUME UNCHANGED <<page, srv, snap, fetch, acts, local, lost>> PROVE HealthAll'
  BY <1>1 DEF HealthAll, HealthInv, HealthMine, Seen, NoSnap, Mine, Own
<1>2. ASSUME UNCHANGED <<page, srv>>, local' = HealthFresh, \A b \in acts' : b.from # "page",
             snap' = snap \/ snap' = NoSnap, fetch' = fetch \/ fetch'.is # "ok"
      PROVE  HealthAll'
  <2>1. Mine' = {}
    BY <1>2 DEF Mine, Own
  <2>. QED
    BY <1>2, <2>1, HealthBlank
<1>3. CASE Operate BY <1>3, HealthOperate
<1>4. CASE Event
  <2>1. UNCHANGED <<page, snap, fetch, acts, local, lost>> /\ srv' \in HealthEvents(srv)
    BY <1>4 DEF Event, Events, histVars
  <2>2. Mine' = Mine
    BY <2>1 DEF Mine, Own
  <2>3. Later(srv, srv')
    BY <2>1, EventsLater, InView DEF ServersOf
  <2>. QED
    BY <1>4, <2>1, <2>2, <2>3, EventType, HealthLater
<1>5. CASE Running(ServeState \/ FailState \/ TimerFires)
  <2>1. /\ UNCHANGED <<page, srv, snap, acts, local, lost>>
        /\ fetch'.is # "ok" \/ fetch'.seen = srv
    BY <1>5 DEF Running, consoleVars, ServeState, FailState, TimerFires, serverVars, histVars, Asking
  <2>2. Mine' = Mine
    BY <2>1 DEF Mine, Own
  <2>. QED
    BY <1>5, <2>1, <2>2, PollType, LaterSelf, HealthLater
<1>6. CASE Running(AnswerState)
  <2>1. /\ UNCHANGED <<page, srv, acts, lost>> /\ local' = local /\ fetch'.is # "ok"
        /\ snap' = snap \/ (fetch.is = "ok" /\ snap' = fetch.seen)
    BY <1>6, AnswerIs DEF After, Timer
  <2>2. Mine' = Mine
    BY <2>1 DEF Mine, Own
  <2>. QED
    BY <2>1, <2>2 DEF HealthAll, HealthInv, HealthMine, Seen, NoSnap
<1>7. CASE Running(AskDetail)
  BY <1>7, DetailIs DEF Running
<1>8. CASE Running(ServeAnAct) BY <1>8, HealthServe
<1>9. CASE Running(AnswerAnAct)
  <2>1. ASSUME NEW a \in acts, Running(ActUnauthorized(a, Fresh)) PROVE HealthAll'
    <3>1. /\ TypeInv' /\ status' = "anon" /\ snap' = NoSnap /\ local' = HealthFresh
          /\ (\A b \in acts' : b.from # "page") /\ UNCHANGED <<page, srv>>
      BY <2>1, UnauthorizedStep DEF Fresh
    <3>2. fetch'.is # "ok"
      BY <3>1 DEF TypeInv, FeedInv, FetchInv
    <3>. QED
      BY <1>2, <3>1, <3>2
  <2>. QED
    BY <1>9, <2>1, HealthAnswered, HealthThrows DEF AnswerAnAct, Running
<1>10. CASE \E a \in acts : Running(LoseAct(a)) BY <1>10, HealthLose
<1>11. CASE Running(QueryExpires)
  <2>1. /\ TypeInv' /\ status' = "anon" /\ snap' = NoSnap /\ local' = HealthFresh
        /\ (\A b \in acts' : b.from # "page") /\ UNCHANGED <<page, srv>>
    BY <1>11, QueryExpiresStep DEF Fresh
  <2>2. fetch'.is # "ok"
    BY <2>1 DEF TypeInv, FeedInv, FetchInv
  <2>. QED
    BY <1>2, <2>1, <2>2
<1>12. CASE Running(EndSession)
  BY <1>1, <1>12, EndSessionStep
<1>13. CASE Running(Login)
  BY <1>2, <1>13, LoginStep DEF Fresh, Asking
<1>14. CASE Running(LeavePage(After(Fresh, snap)))
  BY <1>2, <1>14, LeavePageStep DEF Fresh, After
<1>15. CASE UNCHANGED vars
  BY <1>1, <1>15 DEF vars, consoleVars
<1>. QED
  BY <1>3, <1>4, <1>5, <1>6, <1>7, <1>8, <1>9, <1>10, <1>11, <1>12, <1>13, <1>14, <1>15 DEF Next, Running

-----------------------------------------------------------------------------
(* GpuAssistant.                                                            *)

LEMMA MineFinite ==
  ASSUME TypeInv
  PROVE  /\ IsFiniteSet(acts) /\ Cardinality(acts) <= MaxActs
         /\ IsFiniteSet(Mine) /\ Cardinality(Mine) \in Nat
         /\ IsFiniteSet(Answerable) /\ Cardinality(Answerable) \in Nat
         /\ Cardinality(Answerable) <= MaxActs
<1>1. IsFiniteSet(acts) /\ Cardinality(acts) <= MaxActs
  <2>1. \A a \in acts : a.slot \in Slots
    BY ActFields DEF TypeInv, FeedInv, PageTypes
  <2>. QED
    BY <2>1, SlotsBound DEF TypeInv, FeedInv, OwnSlots
<1>2. Mine \subseteq acts /\ Answerable \subseteq acts
  BY DEF Mine, Answerable
<1>3. /\ IsFiniteSet(Mine) /\ IsFiniteSet(Answerable)
      /\ Cardinality(Answerable) <= Cardinality(acts)
  BY <1>1, <1>2, FS_Subset
<1>. QED
  BY <1>1, <1>3, FS_CardinalityType, FeedAssumption

LEMMA SwapCardinality ==
  ASSUME NEW S, IsFiniteSet(S), NEW a \in S, NEW b, b \notin S \ {a}
  PROVE  Cardinality((S \ {a}) \cup {b}) = Cardinality(S)
<1>1. IsFiniteSet(S \ {a}) /\ Cardinality(S \ {a}) = Cardinality(S) - 1
  BY FS_RemoveElement
<1>2. Cardinality((S \ {a}) \cup {b}) = Cardinality(S \ {a}) + 1
  BY <1>1, FS_AddElement
<1>. QED
  BY <1>1, <1>2, FS_CardinalityType

\* No action of the page is out, and no question.
LEMMA AssistantBlank ==
  ASSUME TypeInv', Mine' = {}, local'.open = 0
  PROVE  AssistantAll'
<1>1. Answerable' = {} /\ Cardinality({}) = 0
  BY FS_EmptySet DEF Answerable, Mine
<1>2. failures' \in Nat
  BY DEF TypeInv, FeedInv, Counters
<1>. QED
  BY <1>1, <1>2 DEF AssistantAll, AssistantInv

LEMMA AssistantOperate ==
  ASSUME TypeInv, page = "assistant", AssistantAll, Operate
  PROVE  AssistantAll'
<1>1. /\ UNCHANGED <<failures, lost>> /\ local'.open = local.open + 1
      /\ Send("approve-isolation", None, None, None)
  BY OperateIs, AssistantOperates DEF Operated, histVars, Operate
<1>2. \E m \in {Action("approve-isolation", None, None, None)} :
         acts' = acts \cup {m} /\ Own(m) /\ m.is = "sent" /\ m \notin acts
  <2>1. (\A a \in acts : a.slot \in Slots) /\ OwnSlots
    BY ActFields DEF TypeInv, FeedInv, PageTypes
  <2>2. Cardinality(acts) < MaxActs
    BY AssistantOperates DEF Operate, CanSend
  <2>3. \A a \in acts : a.slot # FreeSlot
    BY <2>1, <2>2, FreeSlotIsFree
  <2>. QED
    BY <1>1, <2>3 DEF Send, Action, Own
<1>3. PICK m : acts' = acts \cup {m} /\ Own(m) /\ m.is = "sent" /\ m \notin acts
  BY <1>2
<1>4. /\ Mine' = Mine \cup {m} /\ m \notin Mine
      /\ Answerable' = Answerable \cup {m} /\ m \notin Answerable
  BY <1>3 DEF Mine, Answerable, Own
<1>5. /\ Cardinality(Mine') = Cardinality(Mine) + 1
      /\ Cardinality(Answerable') = Cardinality(Answerable) + 1
  BY <1>4, MineFinite, FS_AddElement
<1>. QED
  BY <1>1, <1>5, MineFinite DEF AssistantAll, AssistantInv, TypeInv, FeedInv, Counters,
                                PageTypes, LocalsOf, AssistantLocal

\* An action that has become another counts as before, unless its answer was lost.
LEMMA AssistantBecome ==
  ASSUME TypeInv, page' = page, NEW a \in acts,
         NEW is \in {"sent", "ok", "refused", "unauth", "lost"}, Become(a, is),
         a.is # "lost"
  PROVE  /\ Cardinality(Mine') = Cardinality(Mine)
         /\ Cardinality(Answerable') = IF is = "lost" /\ Own(a) THEN Cardinality(Answerable) - 1
                                       ELSE Cardinality(Answerable)
<1>1. PICK b : /\ b.is = is
               /\ Mine' = IF Own(a) THEN (Mine \ {a}) \cup {b} ELSE Mine
               /\ b \notin acts \ {a}
  BY MineBecome
<1>2. CASE ~Own(a)
  <2>1. Mine' = Mine /\ Answerable' = Answerable
    BY <1>1, <1>2 DEF Answerable
  <2>. QED
    BY <1>2, <2>1
<1>3. CASE Own(a)
  <2>1. a \in Mine /\ a \in Answerable /\ b \notin Mine \ {a} /\ b \notin Answerable \ {a}
    BY <1>1, <1>3 DEF Mine, Answerable
  <2>2. Answerable' = IF is = "lost" THEN Answerable \ {a} ELSE (Answerable \ {a}) \cup {b}
    BY <1>1, <1>3 DEF Answerable
  <2>3. Cardinality(Mine') = Cardinality(Mine)
    BY <1>1, <1>3, <2>1, MineFinite, SwapCardinality
  <2>4. is # "lost" => Cardinality(Answerable') = Cardinality(Answerable)
    BY <2>1, <2>2, MineFinite, SwapCardinality
  <2>5. is = "lost" => Cardinality(Answerable') = Cardinality(Answerable) - 1
    BY <2>1, <2>2, MineFinite, FS_RemoveElement
  <2>. QED
    BY <1>3, <2>3, <2>4, <2>5
<1>. QED
  BY <1>2, <1>3

LEMMA AssistantStep ==
  ASSUME TypeInv, page = "assistant", AssistantAll, [Next]_vars
  PROVE  AssistantAll'
<1>1. /\ Cardinality(Mine) <= local.open /\ local.open <= Cardinality(Answerable) + failures
      /\ ~lost => local.open = Cardinality(Mine)
      /\ local \in AssistantLocal /\ local.open \in Int /\ failures \in Nat
      /\ IsFiniteSet(Mine) /\ Cardinality(Mine) \in Nat
      /\ IsFiniteSet(Answerable) /\ Cardinality(Answerable) \in Nat
  BY MineFinite, InView DEF AssistantAll, AssistantInv, LocalsOf, AssistantLocal, TypeInv, FeedInv, Counters
<1>2. ASSUME acts' = acts, local'.open = local.open, lost' = lost,
             failures' = failures \/ failures' = failures + 1
      PROVE  AssistantAll'
  <2>1. Mine' = Mine /\ Answerable' = Answerable
    BY <1>2 DEF Mine, Answerable, Own
  <2>. QED
    BY <1>1, <1>2, <2>1 DEF AssistantAll, AssistantInv
<1>3. ASSUME TypeInv', local' = AssistantFresh \/ local' = After(AssistantFresh, snap),
             \A b \in acts' : b.from # "page"
      PROVE  AssistantAll'
  <2>1. Mine' = {}
    BY <1>3 DEF Mine, Own
  <2>2. local'.open = 0
    BY <1>3 DEF After, AssistantSettled, AssistantFresh
  <2>. QED
    BY <1>3, <2>1, <2>2, AssistantBlank
<1>4. CASE Operate BY <1>4, AssistantOperate
<1>5. CASE Event
  BY <1>2, <1>5 DEF Event, histVars
<1>6. CASE Running(ServeState \/ FailState \/ TimerFires)
  BY <1>2, <1>6 DEF Running, ServeState, FailState, TimerFires, histVars
<1>7. CASE Running(AnswerState)
  <2>1. local'.open = local.open
    <3>1. \A s : After(local, s).open = local.open
      BY <1>1 DEF After, AssistantSettled, AssistantLocal
    <3>. QED
      BY <1>7, <3>1, AnswerIs
  <2>. QED
    BY <1>2, <1>7, <2>1, AnswerIs
<1>8. CASE Running(AskDetail)
  BY <1>8, DetailIs DEF Running
<1>9. CASE Running(ServeAnAct)
  <2>1. /\ UNCHANGED <<local, lost, failures, page>>
        /\ \E a \in acts : \E is \in {"unauth", "refused", "ok"} : a.is = "sent" /\ Become(a, is)
    BY <1>9, ServeIs DEF histVars
  <2>2. /\ Cardinality(Mine') = Cardinality(Mine)
        /\ Cardinality(Answerable') = Cardinality(Answerable)
    BY <2>1, AssistantBecome
  <2>. QED
    BY <1>1, <2>1, <2>2 DEF AssistantAll, AssistantInv
<1>10. CASE Running(AnswerAnAct)
  <2>1. ASSUME NEW a \in acts, Running(ActAnswered(a, Handled(a), More(a))) PROVE AssistantAll'
    <3>1. /\ UNCHANGED <<failures, lost>> /\ acts' = acts \ {a} /\ a.is \in {"ok", "refused"}
          /\ local' = IF Own(a) THEN AssistantAfter(a) ELSE local
      BY <2>1, AnsweredStep DEF More, Handled
    <3>2. AssistantAfter(a).open = local.open - 1
      <4> DEFINE l1 == [local EXCEPT !.acting = FALSE]
      <4>1. l1 \in AssistantLocal /\ l1.open = local.open
        BY <1>1 DEF AssistantLocal
      <4>2. AssistantAfter(a) = [l1 EXCEPT !.open = l1.open - 1]
        BY <4>1 DEF AssistantAfter
      <4>. HIDE DEF l1
      <4>. QED
        BY <4>1, <4>2 DEF AssistantLocal
    <3>3. CASE ~Own(a)
      <4>1. Mine' = Mine /\ Answerable' = Answerable
        BY <3>1, <3>3 DEF Mine, Answerable, Own
      <4>. QED
        BY <1>1, <3>1, <3>3, <4>1 DEF AssistantAll, AssistantInv
    <3>4. CASE Own(a)
      <4>1. /\ Mine' = Mine \ {a} /\ a \in Mine
            /\ Answerable' = Answerable \ {a} /\ a \in Answerable
        BY <3>1, <3>4 DEF Mine, Answerable, Own
      <4>2. /\ Cardinality(Mine') = Cardinality(Mine) - 1
            /\ Cardinality(Answerable') = Cardinality(Answerable) - 1
        BY <1>1, <4>1, FS_RemoveElement
      <4>. QED
        BY <1>1, <3>1, <3>2, <3>4, <4>2 DEF AssistantAll, AssistantInv
    <3>. QED
      BY <3>3, <3>4
  <2>2. ASSUME NEW a \in acts, Running(ActThrows(a, Thrown)) PROVE AssistantAll'
    <3>1. /\ failures' = failures /\ acts' = acts \ {a} /\ a.is = "lost" /\ local' = local
          /\ lost' = (lost \/ Own(a))
      BY <2>2, ThrowsStep DEF Thrown
    <3>2. Answerable' = Answerable /\ Mine' = Mine \ {a} /\ (~Own(a) => Mine' = Mine)
      BY <3>1 DEF Mine, Answerable, Own
    <3>3. Cardinality(Mine') <= Cardinality(Mine)
      BY <1>1, <3>2, FS_Subset
    <3>4. Cardinality(Mine') \in Nat
      BY <2>2, ThrowsStep, MineFinite, <1>1, <3>2, FS_Subset, FS_CardinalityType
    <3>5. /\ Cardinality(Mine') <= local'.open
          /\ local'.open <= Cardinality(Answerable') + failures'
      BY <1>1, <3>1, <3>2, <3>3, <3>4
    <3>6. ~lost' => local'.open = Cardinality(Mine')
      <4>. SUFFICES ASSUME ~lost' PROVE local'.open = Cardinality(Mine')
        OBVIOUS
      <4>1. ~lost /\ ~Own(a)
        BY <3>1, Zenon
      <4>. QED
        BY <1>1, <3>1, <3>2, <4>1
    <3>. QED
      BY <3>5, <3>6 DEF AssistantAll, AssistantInv
  <2>3. ASSUME NEW a \in acts, Running(ActUnauthorized(a, Fresh)) PROVE AssistantAll'
    BY <1>3, <2>3, UnauthorizedStep DEF Fresh
  <2>. QED
    BY <1>10, <2>1, <2>2, <2>3 DEF AnswerAnAct, Running
<1>11. CASE \E a \in acts : Running(LoseAct(a))
  <2>1. PICK a \in acts : Running(LoseAct(a))
    BY <1>11
  <2>2. /\ UNCHANGED <<local, lost, page>> /\ failures' = failures + 1
        /\ Become(a, "lost") /\ a.is # "lost"
    BY <2>1, LoseType
  <2>3. /\ Cardinality(Mine') = Cardinality(Mine)
        /\ Cardinality(Answerable') >= Cardinality(Answerable) - 1
        /\ Cardinality(Answerable') \in Int
    BY <1>1, <2>2, AssistantBecome
  <2>. QED
    BY <1>1, <2>2, <2>3 DEF AssistantAll, AssistantInv
<1>12. CASE Running(QueryExpires)
  BY <1>3, <1>12, QueryExpiresStep DEF Fresh
<1>13. CASE Running(EndSession)
  BY <1>2, <1>13, EndSessionStep
<1>14. CASE Running(Login)
  BY <1>3, <1>14, LoginStep DEF Fresh
<1>15. CASE Running(LeavePage(After(Fresh, snap)))
  BY <1>3, <1>15, LeavePageStep DEF Fresh
<1>16. CASE UNCHANGED vars
  BY <1>2, <1>16 DEF vars
<1>. QED
  BY <1>4, <1>5, <1>6, <1>7, <1>8, <1>9, <1>10, <1>11, <1>12, <1>13, <1>14, <1>15, <1>16 DEF Next, Running

-----------------------------------------------------------------------------
(* What the buttons of the page in view wait for.                           *)

\* The page waits for the same.
SameWait ==
  CASE page = "incident"    -> local'.pending = local.pending
    [] page = "board"       -> local'.acting = local.acting
    [] page = "ruleset"     -> local'.pending = local.pending
    [] page = "validation"  -> local'.busy = local.busy
    [] page = "idle"        -> local'.acting = local.acting
    [] page = "remediation" -> RemediationKeeps
    [] page \in {"assistant", "health", "efficiency"} -> TRUE

LEMMA SameLocal == page \in PageNames /\ local' = local => SameWait
BY DEF SameWait, RemediationKeeps, PageNames

\* As long as the page waits for the same, and an action at most is exchanged for another
\* that asks for the same, the account is the same.
LEMMA MineKept ==
  ASSUME page \in PageNames, page' = page, MineInv, SameWait,
         \/ Mine' = Mine
         \/ \E a \in Mine, b \in Mine' : /\ Mine' = (Mine \ {a}) \cup {b}
                               /\ b.act = a.act /\ b.of = a.of /\ b.val = a.val
  PROVE  MineInv'
<1>1. ASSUME NEW S, NEW T, NEW w, NEW v, v <=> w, Out(S, w),
             T = S \/ \E a \in S, b \in T : T = (S \ {a}) \cup {b}
      PROVE  Out(T, v)
  BY <1>1 DEF Out
<1>2. CASE page \in {"incident", "board", "ruleset", "validation"}
  <2>1. Mine' = Mine \/ \E a \in Mine, b \in Mine' : Mine' = (Mine \ {a}) \cup {b}
    OBVIOUS
  <2>2. CASE page = "incident"
    BY <1>1, <2>1, <2>2 DEF MineInv, SameWait
  <2>3. CASE page = "board"
    BY <1>1, <2>1, <2>3 DEF MineInv, SameWait
  <2>4. CASE page = "ruleset"
    BY <1>1, <2>1, <2>4 DEF MineInv, SameWait
  <2>5. CASE page = "validation"
    BY <1>1, <2>1, <2>5 DEF MineInv, SameWait
  <2>. QED
    BY <1>2, <2>2, <2>3, <2>4, <2>5
<1>3. CASE page = "idle"
  BY <1>3 DEF MineInv, SameWait
<1>4. CASE page = "remediation"
  <2>1. /\ local'.pending = local.pending /\ local'.busy = local.busy
        /\ local'.jumping = local.jumping /\ local'.card = local.card
    BY <1>4 DEF SameWait, RemediationKeeps
  <2>2. /\ Out(Doing("set-mode"), local.pending # None)
        /\ Out(OnCard("approve-isolation"), local.busy)
        /\ Out(OnCard("jump-phase"), local.jumping)
        /\ \A a \in Mine : a.act # "set-mode" => a.val <= local.card
    BY <1>4 DEF MineInv
  <2>3. ASSUME NEW act
        PROVE  /\ \/ Doing(act)' = Doing(act)
                  \/ \E a \in Doing(act), b \in Doing(act)' : Doing(act)' = (Doing(act) \ {a}) \cup {b}
               /\ \/ OnCard(act)' = OnCard(act)
                  \/ \E a \in OnCard(act), b \in OnCard(act)' : OnCard(act)' = (OnCard(act) \ {a}) \cup {b}
    <3>1. CASE Mine' = Mine
      BY <2>1, <3>1 DEF Doing, OnCard
    <3>2. CASE \E a \in Mine, b \in Mine' : /\ Mine' = (Mine \ {a}) \cup {b}
                                  /\ b.act = a.act /\ b.of = a.of /\ b.val = a.val
      <4>1. PICK a \in Mine, b \in Mine' : /\ Mine' = (Mine \ {a}) \cup {b}
                                 /\ b.act = a.act /\ b.val = a.val
        BY <3>2
      <4>2. /\ Doing(act)' = IF a.act = act THEN (Doing(act) \ {a}) \cup {b} ELSE Doing(act)
            /\ a.act = act => a \in Doing(act)
        BY <4>1 DEF Doing
      <4>3. /\ OnCard(act)' = IF a.act = act /\ a.val = local.card
                              THEN (OnCard(act) \ {a}) \cup {b} ELSE OnCard(act)
            /\ a.act = act /\ a.val = local.card => a \in OnCard(act)
        BY <2>1, <4>1 DEF Doing, OnCard
      <4>. QED
        BY <4>2, <4>3
    <3>. QED
      BY <3>1, <3>2
  <2>4. local'.pending # None <=> local.pending # None
    BY <2>1
  <2>5. Out(Doing("set-mode")', local'.pending # None)
    BY <1>1, <2>2, <2>3, <2>4
  <2>6. Out(OnCard("approve-isolation")', local'.busy)
    BY <1>1, <2>1, <2>2, <2>3
  <2>7. Out(OnCard("jump-phase")', local'.jumping)
    BY <1>1, <2>1, <2>2, <2>3
  <2>8. \A a \in Mine' : a.act # "set-mode" => a.val <= local'.card
    BY <2>1, <2>2
  <2>. QED
    BY <1>4, <2>5, <2>6, <2>7, <2>8 DEF MineInv
<1>5. CASE page \in {"assistant", "health", "efficiency"}
  BY <1>5 DEF MineInv
<1>. QED
  BY <1>2, <1>3, <1>4, <1>5 DEF PageNames

\* A page that has just been opened waits for nothing.
LEMMA MineBlank ==
  ASSUME page \in PageNames, page' = page, Mine' = {},
         local' = Fresh \/ local' = After(Fresh, snap)
  PROVE  MineInv'
<1>1. \A w : ~w => Out({}, w)
  BY DEF Out
<1>2. CASE page \in {"incident", "board", "ruleset"}
  <2>1. local' = Fresh
    BY <1>2 DEF After
  <2>2. CASE page = "incident"
    BY <1>1, <2>1, <2>2 DEF MineInv, Fresh, IncidentFresh
  <2>3. CASE page = "board"
    BY <1>1, <2>1, <2>3 DEF MineInv, Fresh, BoardFresh
  <2>4. CASE page = "ruleset"
    BY <1>1, <2>1, <2>4 DEF MineInv, Fresh, RulesetFresh
  <2>. QED
    BY <1>2, <2>2, <2>3, <2>4
<1>3. CASE page = "validation"
  <2>1. ~ValidationFresh.busy
    BY DEF ValidationFresh
  <2>2. ~Settled(ValidationFresh, snap).busy
    BY DEF ValidationFresh, Settled, BannersGone, Query, NoDetail
  <2>3. ~local'.busy
    BY <1>3, <2>1, <2>2 DEF Fresh, After
  <2>. QED
    BY <1>1, <1>3, <2>3 DEF MineInv
<1>4. CASE page = "idle"
  BY <1>4 DEF MineInv, Fresh, IdleFresh, After
<1>5. CASE page = "remediation"
  <2>1. local' = RemediationFresh
    BY <1>5 DEF Fresh, After, RemediationSettled, IsolationDone
  <2>2. local'.pending = None /\ ~local'.busy /\ ~local'.jumping
    BY <2>1 DEF RemediationFresh
  <2>3. \A act : Doing(act)' = {} /\ OnCard(act)' = {}
    BY DEF Doing, OnCard
  <2>4. Out(Doing("set-mode")', local'.pending # None)
    BY <1>1, <2>2, <2>3
  <2>5. Out(OnCard("approve-isolation")', local'.busy) /\ Out(OnCard("jump-phase")', local'.jumping)
    BY <1>1, <2>2, <2>3
  <2>. QED
    BY <1>5, <2>4, <2>5 DEF MineInv
<1>6. CASE page \in {"assistant", "health", "efficiency"}
  BY <1>6 DEF MineInv
<1>. QED
  BY <1>2, <1>3, <1>4, <1>5, <1>6 DEF PageNames

LEMMA SendMine ==
  ASSUME NEW act, NEW of, NEW val, NEW want, Send(act, of, val, want)
  PROVE  \E m \in Mine' : m.act = act /\ m.of = of /\ m.val = val /\ Mine' = Mine \cup {m}
<1> DEFINE m == Action(act, of, val, want)
<1>1. m.act = act /\ m.of = of /\ m.val = val /\ Own(m)
  BY DEF Action, Own
<1>2. acts' = acts \cup {m}
  BY DEF Send
<1>. HIDE DEF m
<1>. QED
  BY <1>1, <1>2 DEF Mine

LEMMA MineOperate ==
  ASSUME TypeInv, MineInv, Operate
  PROVE  MineInv'
<1>1. page \in PageNames /\ page' = page /\ local \in LocalsOf(page)
  BY OperateIs, InView DEF TypeInv, FeedInv
<1>3. acts' = acts /\ SameWait => MineInv'
  BY <1>1, MineKept DEF Mine
<1>4. CASE page = "validation"
  <2>1. ValidationNext
    BY <1>4 DEF Operate
  <2>2. CASE acts' = acts /\ \E u \in Gpus \cup {None} : OpenAsset(u)
    <3>1. PICK u \in Gpus \cup {None} : OpenAsset(u)
      BY <2>2
    <3>2. local \in ValidationLocal /\ snap \in ValidationSrv \cup {NoSnap}
      BY <1>1, <1>4 DEF LocalsOf, TypeInv, FeedInv, Servers, ServersOf
    <3>3. local'.busy = local.busy
      <4> DEFINE l1 == [local EXCEPT !.param = u]
      <4>1. l1 \in ValidationLocal /\ l1.busy = local.busy
        BY <3>2, OpenedIs
      <4>2. local' = Settled(l1, snap)
        BY <3>1 DEF OpenAsset
      <4>. HIDE DEF l1
      <4>. QED
        BY <3>2, <4>1, <4>2, SettledFields
    <3>. QED
      BY <1>3, <1>4, <2>2, <3>3 DEF SameWait
  <2>3. CASE acts' = acts /\ ValidationType
    BY <1>3, <1>4, <2>3 DEF SameWait, ValidationType
  <2>4. CASE ValidationPress
    <3>1. \E act, of, val, want : Send(act, of, val, want)
      BY <2>4 DEF ValidationPress
    <3>2. \E m \in Mine' : Mine' = Mine \cup {m}
      BY <3>1, SendMine
    <3>3. Mine = {} /\ local'.busy
      BY <1>4, <2>4 DEF MineInv, Out, ValidationPress
    <3>4. Out(Mine', local'.busy)
      BY <3>2, <3>3 DEF Out
    <3>. QED
      BY <1>1, <1>4, <3>4 DEF MineInv
  <2>. QED
    BY <1>4, <2>1, <2>2, <2>3, <2>4, ValidationOperates
<1>5. CASE page = "idle"
  <2>1. CASE acts' = acts /\ local'.acting = local.acting
    BY <1>3, <1>5, <2>1 DEF SameWait
  <2>2. CASE \E act, g : Send(act, g, None, None) /\ local'.acting = g
    <3>1. \E m \in Mine' : m.of = local'.acting
      BY <2>2, SendMine
    <3>. QED
      BY <1>1, <1>5, <3>1 DEF MineInv
  <2>. QED
    BY <1>5, <2>1, <2>2, IdleOperates DEF Operate
<1>6. CASE page = "remediation"
  <2>1. RemediationNext
    BY <1>6 DEF Operate
  <2>2. /\ Out(Doing("set-mode"), local.pending # None)
        /\ Out(OnCard("approve-isolation"), local.busy)
        /\ Out(OnCard("jump-phase"), local.jumping)
        /\ \A a \in Mine : a.act # "set-mode" => a.val <= local.card
    BY <1>6 DEF MineInv
  <2>3. local.card \in Nat
    BY <1>1, <1>6 DEF LocalsOf, RemediationLocal
  <2>4. CASE acts' = acts /\ RemediationKeeps
    BY <1>3, <1>6, <2>4 DEF SameWait
  <2>5. CASE \E m \in Modes : /\ Send("set-mode", None, m, None)
                              /\ local.pending = None /\ local'.pending # None
                              /\ local'.busy = local.busy /\ local'.jumping = local.jumping
                              /\ local'.card = local.card
    <3>1. PICK m \in Mine' : m.act = "set-mode" /\ Mine' = Mine \cup {m}
      BY <2>5, SendMine
    <3>2. /\ Doing("set-mode")' = Doing("set-mode") \cup {m}
          /\ OnCard("approve-isolation")' = OnCard("approve-isolation")
          /\ OnCard("jump-phase")' = OnCard("jump-phase")
      BY <2>5, <3>1 DEF Doing, OnCard
    <3>3. Out(Doing("set-mode")', local'.pending # None)
      <4>1. Doing("set-mode") = {}
        BY <2>2, <2>5 DEF Out
      <4>. QED
        BY <2>5, <3>2, <4>1 DEF Out
    <3>4. Out(OnCard("approve-isolation")', local'.busy) /\ Out(OnCard("jump-phase")', local'.jumping)
      BY <2>2, <2>5, <3>2
    <3>5. \A a \in Mine' : a.act # "set-mode" => a.val <= local'.card
      BY <2>2, <2>3, <2>5, <3>1
    <3>. QED
      BY <1>1, <1>6, <3>3, <3>4, <3>5 DEF MineInv
  <2>6. CASE /\ Send("approve-isolation", None, local.card, None)
             /\ ~local.busy /\ local'.busy /\ local'.pending = local.pending
             /\ local'.jumping = local.jumping /\ local'.card = local.card
    <3>1. PICK m \in Mine' : m.act = "approve-isolation" /\ m.val = local.card /\ Mine' = Mine \cup {m}
      BY <2>6, SendMine
    <3>2. /\ Doing("set-mode")' = Doing("set-mode")
          /\ OnCard("approve-isolation")' = OnCard("approve-isolation") \cup {m}
          /\ OnCard("jump-phase")' = OnCard("jump-phase")
      BY <2>6, <3>1 DEF Doing, OnCard
    <3>3. Out(OnCard("approve-isolation")', local'.busy)
      <4>1. OnCard("approve-isolation") = {}
        BY <2>2, <2>6 DEF Out
      <4>. QED
        BY <2>6, <3>2, <4>1 DEF Out
    <3>4. Out(Doing("set-mode")', local'.pending # None) /\ Out(OnCard("jump-phase")', local'.jumping)
      BY <2>2, <2>6, <3>2
    <3>5. \A a \in Mine' : a.act # "set-mode" => a.val <= local'.card
      BY <2>2, <2>3, <2>6, <3>1
    <3>. QED
      BY <1>1, <1>6, <3>3, <3>4, <3>5 DEF MineInv
  <2>7. CASE /\ Send("jump-phase", None, local.card, None)
             /\ ~local.jumping /\ local'.jumping /\ local'.pending = local.pending
             /\ local'.busy = local.busy /\ local'.card = local.card
    <3>1. PICK m \in Mine' : m.act = "jump-phase" /\ m.val = local.card /\ Mine' = Mine \cup {m}
      BY <2>7, SendMine
    <3>2. /\ Doing("set-mode")' = Doing("set-mode")
          /\ OnCard("approve-isolation")' = OnCard("approve-isolation")
          /\ OnCard("jump-phase")' = OnCard("jump-phase") \cup {m}
      BY <2>7, <3>1 DEF Doing, OnCard
    <3>3. Out(OnCard("jump-phase")', local'.jumping)
      <4>1. OnCard("jump-phase") = {}
        BY <2>2, <2>7 DEF Out
      <4>. QED
        BY <2>7, <3>2, <4>1 DEF Out
    <3>4. /\ Out(Doing("set-mode")', local'.pending # None)
          /\ Out(OnCard("approve-isolation")', local'.busy)
      BY <2>2, <2>7, <3>2
    <3>5. \A a \in Mine' : a.act # "set-mode" => a.val <= local'.card
      BY <2>2, <2>3, <2>7, <3>1
    <3>. QED
      BY <1>1, <1>6, <3>3, <3>4, <3>5 DEF MineInv
  <2>. QED
    BY <1>6, <2>1, <2>4, <2>5, <2>6, <2>7, RemediationOperates
<1>7. CASE page = "ruleset"
  <2>1. local.pending = None /\ local'.pending # None /\ \E m \in Mine' : Mine' = Mine \cup {m}
    BY <1>7, RulesetOperates, SendMine DEF Operate
  <2>2. Mine = {}
    BY <1>7, <2>1 DEF MineInv, Out
  <2>3. Out(Mine', local'.pending # None)
    BY <2>1, <2>2 DEF Out
  <2>. QED
    BY <1>1, <1>7, <2>3 DEF MineInv
<1>8. CASE page = "incident"
  <2>1. ~local.pending /\ local'.pending /\ \E m \in Mine' : Mine' = Mine \cup {m}
    BY <1>8, IncidentOperates, SendMine DEF Operate
  <2>2. Mine = {}
    BY <1>8, <2>1 DEF MineInv, Out
  <2>3. Out(Mine', local'.pending)
    BY <2>1, <2>2 DEF Out
  <2>. QED
    BY <1>1, <1>8, <2>3 DEF MineInv
<1>9. CASE page = "board"
  <2>1. ~local.acting /\ local'.acting /\ \E m \in Mine' : Mine' = Mine \cup {m}
    BY <1>9, BoardOperates, SendMine DEF Operate
  <2>2. Mine = {}
    BY <1>9, <2>1 DEF MineInv, Out
  <2>3. Out(Mine', local'.acting)
    BY <2>1, <2>2 DEF Out
  <2>. QED
    BY <1>1, <1>9, <2>3 DEF MineInv
<1>10. CASE page \in {"assistant", "health", "efficiency"}
  BY <1>1, <1>10 DEF MineInv
<1>. QED
  BY <1>1, <1>4, <1>5, <1>6, <1>7, <1>8, <1>9, <1>10 DEF PageNames

LEMMA MineAnswer ==
  ASSUME TypeInv, MineInv, Running(AnswerState)
  PROVE  MineInv'
<1>1. /\ page \in PageNames /\ page' = page /\ local \in LocalsOf(page)
      /\ Mine' = Mine
  BY AnswerIs, InView DEF TypeInv, FeedInv, Mine
<1>2. CASE local' = local
  BY <1>1, <1>2, MineKept, SameLocal
<1>3. CASE fetch.seen \in Servers /\ local' = After(local, fetch.seen)
  <2>1. CASE page = "validation"
    <3>1. local'.busy = local.busy
      BY <1>1, <1>3, <2>1, SettledFields DEF LocalsOf, Servers, ServersOf, After
    <3>. QED
      BY <1>1, <2>1, <3>1, MineKept DEF SameWait
  <2>2. CASE page = "remediation"
    <3>1. CASE local' = local
      BY <1>2, <3>1
    <3>2. CASE local' = CardFresh(local)
      <4>1. /\ local'.pending = local.pending /\ local'.card = local.card + 1
            /\ ~local'.busy /\ ~local'.jumping /\ local.card \in Nat
        BY <1>1, <2>2, <3>2, CardFreshIs DEF LocalsOf, RemediationLocal
      <4>2. /\ Out(Doing("set-mode"), local.pending # None)
            /\ \A a \in Mine : a.act # "set-mode" => a.val <= local.card
        BY <2>2 DEF MineInv
      <4>3. \A a \in Mine : a.act # "set-mode" => a.val \in Nat
        BY <2>2 DEF Mine, TypeInv, PageTypes, ActsOf, AnyOf
      <4>4. Out(Doing("set-mode")', local'.pending # None)
        BY <1>1, <4>1, <4>2 DEF Doing
      <4>5. \A act : act # "set-mode" => OnCard(act)' = {}
        BY <1>1, <4>1, <4>2, <4>3 DEF OnCard, Doing
      <4>6. Out(OnCard("approve-isolation")', local'.busy) /\ Out(OnCard("jump-phase")', local'.jumping)
        BY <4>1, <4>5 DEF Out
      <4>7. \A a \in Mine' : a.act # "set-mode" => a.val <= local'.card
        BY <1>1, <4>1, <4>2, <4>3
      <4>. QED
        BY <1>1, <2>2, <4>4, <4>6, <4>7 DEF MineInv
    <3>. QED
      BY <1>3, <2>2, <3>1, <3>2 DEF After, RemediationSettled
  <2>3. CASE page \in {"assistant", "health", "efficiency"}
    BY <1>1, <2>3 DEF MineInv
  <2>4. CASE page \in {"idle", "ruleset", "incident", "board"}
    BY <1>2, <1>3, <2>4 DEF After
  <2>. QED
    BY <1>1, <2>1, <2>2, <2>3, <2>4 DEF PageNames
<1>. QED
  BY <1>2, <1>3, AnswerIs

LEMMA MineBecomes ==
  ASSUME TypeInv, MineInv, UNCHANGED <<page, local>>, NEW a \in acts,
         NEW is \in {"sent", "ok", "refused", "unauth", "lost"}, Become(a, is)
  PROVE  MineInv'
<1>1. \/ Mine' = Mine
      \/ \E c \in Mine, b \in Mine' : /\ Mine' = (Mine \ {c}) \cup {b}
                                      /\ b.act = c.act /\ b.of = c.of /\ b.val = c.val
  BY MineBecome DEF Mine
<1>. QED
  BY <1>1, MineKept, SameLocal DEF TypeInv, FeedInv

LEMMA RemediationAfterIs ==
  ASSUME local \in RemediationLocal, NEW a \in ActsOf("remediation")
  PROVE  LET l == RemediationAfter(a) IN
         /\ l.card = local.card
         /\ l.pending = IF a.act = "set-mode" THEN None ELSE local.pending
         /\ a.act \in {"set-mode", "approve-isolation", "jump-phase"}
         /\ a.act = "approve-isolation" /\ a.val = local.card => ~l.busy
         /\ a.act = "jump-phase" /\ a.val = local.card => ~l.jumping
         /\ ~(a.act = "approve-isolation" /\ a.val = local.card) => l.busy = local.busy
         /\ ~(a.act = "jump-phase" /\ a.val = local.card) => l.jumping = local.jumping
<1>1. a.act \in {"set-mode", "approve-isolation", "jump-phase"}
  BY DEF ActsOf, AnyOf
<1>2. CASE a.act = "set-mode"
  <2> DEFINE l1 == [local EXCEPT !.pending = None]
  <2>1. /\ l1 \in RemediationLocal /\ l1.pending = None /\ l1.card = local.card
        /\ l1.busy = local.busy /\ l1.jumping = local.jumping
    BY DEF RemediationLocal
  <2>2. RemediationAfter(a) = [l1 EXCEPT !.modeError = (a.is # "ok")]
    BY <1>2 DEF RemediationAfter
  <2>. HIDE DEF l1
  <2>3. LET l == RemediationAfter(a) IN
        l.card = local.card /\ l.pending = None /\ l.busy = local.busy /\ l.jumping = local.jumping
    BY <2>1, <2>2 DEF RemediationLocal
  <2>. QED
    BY <1>2, <2>3
<1>3. CASE a.act # "set-mode" /\ a.val # local.card
  BY <1>1, <1>3 DEF RemediationAfter
<1>4. CASE a.act = "jump-phase" /\ a.val = local.card
  <2> DEFINE l1 == [local EXCEPT !.jumping = FALSE]
  <2>1. /\ l1 \in RemediationLocal /\ l1.pending = local.pending /\ l1.card = local.card
        /\ l1.busy = local.busy /\ ~l1.jumping
    BY DEF RemediationLocal
  <2>2. RemediationAfter(a) = [l1 EXCEPT !.error = (a.is # "ok")]
    BY <1>4 DEF RemediationAfter
  <2>. HIDE DEF l1
  <2>3. LET l == RemediationAfter(a) IN
        l.card = local.card /\ l.pending = local.pending /\ l.busy = local.busy /\ ~l.jumping
    BY <2>1, <2>2 DEF RemediationLocal
  <2>. QED
    BY <1>4, <2>3
<1>5. CASE a.act = "approve-isolation" /\ a.val = local.card
  <2> DEFINE l1 == [local EXCEPT !.busy = FALSE]
             l2 == [l1 EXCEPT !.confirm = FALSE]
  <2>1. /\ l1 \in RemediationLocal /\ l1.pending = local.pending /\ l1.card = local.card
        /\ l1.jumping = local.jumping /\ ~l1.busy
    BY DEF RemediationLocal
  <2>2. RemediationAfter(a) = [l2 EXCEPT !.error = (a.is # "ok")]
    BY <1>5 DEF RemediationAfter
  <2>. HIDE DEF l1
  <2>3. /\ l2 \in RemediationLocal /\ l2.pending = local.pending /\ l2.card = local.card
        /\ l2.jumping = local.jumping /\ ~l2.busy
    BY <2>1 DEF RemediationLocal
  <2>. HIDE DEF l2
  <2>4. LET l == RemediationAfter(a) IN
        l.card = local.card /\ l.pending = local.pending /\ ~l.busy /\ l.jumping = local.jumping
    BY <2>2, <2>3 DEF RemediationLocal
  <2>. QED
    BY <1>5, <2>4
<1>. QED
  BY <1>1, <1>2, <1>3, <1>4, <1>5

LEMMA MineAnswered ==
  ASSUME TypeInv, MineInv, NEW a \in acts, Running(ActAnswered(a, Handled(a), More(a)))
  PROVE  MineInv'
<1>1. /\ page \in PageNames /\ page' = page /\ local \in LocalsOf(page)
      /\ acts' = (acts \ {a}) \cup More(a)
      /\ local' = IF Own(a) THEN Handled(a) ELSE local
      /\ a \in ActsOf(page)
  BY AnsweredStep, InView DEF TypeInv, FeedInv, PageTypes
<1>2. \A b \in More(a) : b.from = a.from /\ More(a) = {b} /\ page = "validation" /\ StartsNext(a)
  <2>1. ASSUME NEW b \in More(a)
        PROVE  b.from = a.from /\ More(a) = {b} /\ page = "validation" /\ StartsNext(a)
    BY <1>1, <2>1, MoreTyped
  <2>. QED
    BY <2>1
<1>3. CASE ~Own(a)
  <2>1. Mine' = Mine
    BY <1>1, <1>2, <1>3 DEF Mine, Own
  <2>. QED
    BY <1>1, <1>3, <2>1, MineKept, SameLocal
<1>4. ASSUME Own(a), page # "validation" PROVE Mine' = Mine \ {a} /\ a \in Mine /\ local' = Handled(a)
  BY <1>1, <1>2, <1>4 DEF Mine, Own
<1>5. ASSUME NEW w, Own(a), page # "validation", Out(Mine, w) PROVE Mine' = {}
  BY <1>4, <1>5 DEF Out
<1>6. CASE Own(a) /\ page = "incident"
  <2>1. Mine' = {}
    BY <1>5, <1>6 DEF MineInv
  <2>2. ~local'.pending
    BY <1>4, <1>6 DEF Handled, IncidentAfter
  <2>3. Out(Mine', local'.pending)
    BY <2>1, <2>2 DEF Out
  <2>. QED
    BY <1>1, <1>6, <2>3 DEF MineInv
<1>7. CASE Own(a) /\ page = "board"
  <2>1. Mine' = {}
    BY <1>5, <1>7 DEF MineInv
  <2>2. ~local'.acting
    BY <1>4, <1>7 DEF Handled, BoardAfter, BoardFresh
  <2>3. Out(Mine', local'.acting)
    BY <2>1, <2>2 DEF Out
  <2>. QED
    BY <1>1, <1>7, <2>3 DEF MineInv
<1>8. CASE Own(a) /\ page = "ruleset"
  <2>1. Mine' = {}
    BY <1>5, <1>8 DEF MineInv
  <2>2. local'.pending = None
    BY <1>4, <1>8 DEF Handled, RulesetAfter
  <2>3. Out(Mine', local'.pending # None)
    BY <2>1, <2>2 DEF Out
  <2>. QED
    BY <1>1, <1>8, <2>3 DEF MineInv
<1>9. CASE Own(a) /\ page = "idle"
  <2>1. local \in IdleLocal /\ local' = IdleAfter(a)
    BY <1>1, <1>9 DEF LocalsOf, Handled
  <2>2. local'.acting = None
    BY <2>1 DEF IdleAfter, IdleLocal
  <2>. QED
    BY <1>1, <1>9, <2>2 DEF MineInv
<1>10. CASE Own(a) /\ page = "remediation"
  <2>1. local \in RemediationLocal /\ local' = RemediationAfter(a) /\ Mine' = Mine \ {a} /\ a \in Mine
    BY <1>1, <1>4, <1>10 DEF LocalsOf, Handled
  <2>2. /\ Out(Doing("set-mode"), local.pending # None)
        /\ Out(OnCard("approve-isolation"), local.busy)
        /\ Out(OnCard("jump-phase"), local.jumping)
        /\ \A b \in Mine : b.act # "set-mode" => b.val <= local.card
    BY <1>10 DEF MineInv
  <2>3. /\ local'.card = local.card
        /\ local'.pending = IF a.act = "set-mode" THEN None ELSE local.pending
        /\ a.act = "approve-isolation" /\ a.val = local.card => ~local'.busy
        /\ a.act = "jump-phase" /\ a.val = local.card => ~local'.jumping
        /\ ~(a.act = "approve-isolation" /\ a.val = local.card) => local'.busy = local.busy
        /\ ~(a.act = "jump-phase" /\ a.val = local.card) => local'.jumping = local.jumping
    BY <1>1, <1>10, <2>1, RemediationAfterIs
  <2>4. \A act : /\ Doing(act)' = Doing(act) \ {a}
                 /\ OnCard(act)' = OnCard(act) \ {a}
                 /\ a \in Doing(act) <=> a.act = act
                 /\ a \in OnCard(act) <=> a.act = act /\ a.val = local.card
    BY <2>1, <2>3 DEF Doing, OnCard
  <2>5. Out(Doing("set-mode")', local'.pending # None)
    BY <2>2, <2>3, <2>4 DEF Out
  <2>6. Out(OnCard("approve-isolation")', local'.busy)
    <3>1. CASE a \in OnCard("approve-isolation")
      BY <2>2, <2>3, <2>4, <3>1 DEF Out
    <3>2. CASE a \notin OnCard("approve-isolation")
      <4>1. OnCard("approve-isolation")' = OnCard("approve-isolation") /\ local'.busy = local.busy
        BY <2>3, <2>4, <3>2
      <4>. QED
        BY <2>2, <4>1
    <3>. QED
      BY <3>1, <3>2
  <2>7. Out(OnCard("jump-phase")', local'.jumping)
    <3>1. CASE a \in OnCard("jump-phase")
      BY <2>2, <2>3, <2>4, <3>1 DEF Out
    <3>2. CASE a \notin OnCard("jump-phase")
      <4>1. OnCard("jump-phase")' = OnCard("jump-phase") /\ local'.jumping = local.jumping
        BY <2>3, <2>4, <3>2
      <4>. QED
        BY <2>2, <4>1
    <3>. QED
      BY <3>1, <3>2
  <2>8. \A b \in Mine' : b.act # "set-mode" => b.val <= local'.card
    BY <2>1, <2>2, <2>3
  <2>. QED
    BY <1>1, <1>10, <2>5, <2>6, <2>7, <2>8 DEF MineInv
<1>11. CASE Own(a) /\ page = "validation"
  <2>1. local \in ValidationLocal /\ a \in Mine /\ Mine = {a}
    BY <1>1, <1>11 DEF LocalsOf, MineInv, Out, Mine
  <2>2. local'.busy = StartsNext(a)
    BY <1>1, <1>11, <2>1, ValidationAfterFields DEF Handled
  <2>3. CASE StartsNext(a)
    <3>1. \E b \in More(a) : Own(b) /\ More(a) = {b}
      BY <1>2, <1>11, <2>3 DEF More, ValidationMore, Own
    <3>2. \E b \in Mine' : Mine' = {b}
      BY <1>1, <2>1, <3>1 DEF Mine
    <3>3. Out(Mine', local'.busy)
      BY <2>2, <2>3, <3>2 DEF Out
    <3>. QED
      BY <1>1, <1>11, <3>3 DEF MineInv
  <2>4. CASE ~StartsNext(a)
    <3>1. Mine' = {}
      BY <1>1, <1>2, <2>1, <2>4 DEF Mine
    <3>2. Out(Mine', local'.busy)
      BY <2>2, <2>4, <3>1 DEF Out
    <3>. QED
      BY <1>1, <1>11, <3>2 DEF MineInv
  <2>. QED
    BY <2>3, <2>4
<1>12. CASE page \in {"assistant", "health", "efficiency"}
  BY <1>1, <1>12 DEF MineInv
<1>. QED
  BY <1>1, <1>3, <1>6, <1>7, <1>8, <1>9, <1>10, <1>11, <1>12 DEF PageNames

LEMMA MineThrows ==
  ASSUME TypeInv, MineInv, NEW a \in acts, Running(ActThrows(a, Thrown)), ~lost'
  PROVE  MineInv'
<1>1. ~Own(a) /\ acts' = acts \ {a} /\ local' = local /\ page' = page
  <2>1. lost' = (lost \/ Own(a))
    BY ThrowsStep
  <2>2. ~Own(a)
    BY <2>1, Zenon
  <2>. QED
    BY <2>2, ThrowsStep
<1>2. Mine' = Mine
  BY <1>1 DEF Mine, Own
<1>. QED
  BY <1>1, <1>2, MineKept, SameLocal DEF TypeInv, FeedInv

LEMMA MineStep ==
  ASSUME TypeInv, ~lost => MineInv, [Next]_vars, ~lost'
  PROVE  MineInv'
<1>1. page \in PageNames
  BY DEF TypeInv, FeedInv
<1>2. ASSUME UNCHANGED <<page, acts, local, lost>> PROVE MineInv'
  BY <1>1, <1>2, MineKept, SameLocal DEF Mine
<1>3. ASSUME page' = page, \A b \in acts' : b.from # "page", local' = Fresh \/ local' = After(Fresh, snap)
      PROVE  MineInv'
  BY <1>1, <1>3, MineBlank DEF Mine, Own
<1>4. CASE Operate
  BY <1>4, OperateIs, MineOperate DEF Operated, histVars
<1>5. CASE Event
  BY <1>2, <1>5 DEF Event, histVars
<1>6. CASE Running(ServeState \/ FailState \/ TimerFires)
  BY <1>2, <1>6 DEF Running, consoleVars, ServeState, FailState, TimerFires, histVars
<1>7. CASE Running(AnswerState)
  BY <1>7, AnswerIs, MineAnswer
<1>8. CASE Running(AskDetail)
  <2>1. page = "validation" /\ DetailKeeps /\ UNCHANGED <<page, acts, lost>>
    BY <1>8, DetailIs DEF Running, consoleVars, histVars
  <2>. QED
    BY <1>1, <2>1, MineKept DEF Mine, SameWait, DetailKeeps
<1>9. CASE Running(ServeAnAct)
  <2>1. /\ UNCHANGED <<local, lost, page>>
        /\ \E a \in acts : \E is \in {"unauth", "refused", "ok"} : Become(a, is)
    BY <1>9, ServeIs DEF histVars
  <2>. QED
    BY <2>1, MineBecomes
<1>10. CASE Running(AnswerAnAct)
  <2>1. ASSUME NEW a \in acts, Running(ActAnswered(a, Handled(a), More(a))) PROVE MineInv'
    BY <2>1, AnsweredStep, MineAnswered
  <2>2. ASSUME NEW a \in acts, Running(ActThrows(a, Thrown)) PROVE MineInv'
    <3>1. lost' = (lost \/ Own(a))
      BY <2>2, ThrowsStep
    <3>2. ~lost
      BY <3>1, Zenon
    <3>. QED
      BY <2>2, <3>2, MineThrows
  <2>3. ASSUME NEW a \in acts, Running(ActUnauthorized(a, Fresh)) PROVE MineInv'
    BY <1>3, <2>3, UnauthorizedStep
  <2>. QED
    BY <1>10, <2>1, <2>2, <2>3 DEF AnswerAnAct, Running
<1>11. CASE \E a \in acts : Running(LoseAct(a))
  BY <1>11, LoseType, MineBecomes
<1>12. CASE Running(QueryExpires)
  BY <1>3, <1>12, QueryExpiresStep
<1>13. CASE Running(EndSession)
  BY <1>2, <1>13, EndSessionStep
<1>14. CASE Running(Login)
  BY <1>3, <1>14, LoginStep
<1>15. CASE Running(LeavePage(After(Fresh, snap)))
  BY <1>3, <1>15, LeavePageStep
<1>16. CASE UNCHANGED vars
  BY <1>2, <1>16 DEF vars, consoleVars
<1>. QED
  BY <1>4, <1>5, <1>6, <1>7, <1>8, <1>9, <1>10, <1>11, <1>12, <1>13, <1>14, <1>15, <1>16 DEF Next, Running

-----------------------------------------------------------------------------
(* The invariant.                                                           *)

LEMMA InvInit == Init => IInv
<1>. SUFFICES ASSUME Init PROVE IInv
  OBVIOUS
<1>1. TypeInv
  BY TypeInit
<1>2. /\ page \in PageNames /\ srv \in Servers /\ local = Fresh /\ snap = NoSnap
      /\ fetch.is = "sent" /\ status = "authed" /\ session /\ failures = 0 /\ acts = {}
  BY <1>1 DEF Init, FeedInit, Asking, TypeInv, FeedInv, PageTypes
<1>3. Mine = {} /\ Answerable = {} /\ Cardinality({}) = 0
  BY <1>2, FS_EmptySet DEF Mine, Answerable
<1>4. CASE page = "validation"
  <2>1. SeenInv
    BY <1>2, <1>4, FreshSound DEF Fresh, SeenInv, TargetInv, BannerInv, QueryInv
  <2>2. ChosenInv
    BY <1>2 DEF ChosenInv
  <2>3. ~local.busy
    BY <1>2, <1>4 DEF Fresh, ValidationFresh
  <2>4. Out(Mine, local.busy)
    BY <1>3, <2>3 DEF Out
  <2>. QED
    BY <1>1, <1>4, <2>1, <2>2, <2>4 DEF IInv, MineInv
<1>5. CASE page = "idle"
  BY <1>1, <1>2, <1>5 DEF IInv, MineInv, Fresh, IdleFresh
<1>6. CASE page = "remediation"
  <2>1. local.pending = None /\ ~local.busy /\ ~local.jumping
    BY <1>2, <1>6 DEF Fresh, RemediationFresh
  <2>2. \A act : Doing(act) = {} /\ OnCard(act) = {}
    BY <1>3 DEF Doing, OnCard
  <2>3. /\ Out(Doing("set-mode"), local.pending # None)
        /\ Out(OnCard("approve-isolation"), local.busy)
        /\ Out(OnCard("jump-phase"), local.jumping)
    BY <2>1, <2>2 DEF Out
  <2>. QED
    BY <1>1, <1>3, <1>6, <2>3 DEF IInv, MineInv
<1>7. CASE page = "ruleset"
  BY <1>1, <1>2, <1>3, <1>7 DEF IInv, MineInv, Out, Fresh, RulesetFresh
<1>8. CASE page = "assistant"
  <2>1. local.open = 0
    BY <1>2, <1>8 DEF Fresh, AssistantFresh
  <2>. QED
    BY <1>1, <1>2, <1>3, <1>8, <2>1 DEF IInv, MineInv, AssistantAll, AssistantInv
<1>9. CASE page = "incident"
  BY <1>1, <1>2, <1>3, <1>9 DEF IInv, MineInv, Out, Fresh, IncidentFresh
<1>10. CASE page = "board"
  BY <1>1, <1>2, <1>3, <1>10 DEF IInv, MineInv, Out, Fresh, BoardFresh
<1>11. CASE page = "efficiency"
  BY <1>1, <1>11 DEF IInv, MineInv
<1>12. CASE page = "health"
  BY <1>1, <1>2, <1>3, <1>12 DEF IInv, MineInv, HealthAll, HealthInv, HealthMine, Fresh, HealthFresh
<1>. QED
  BY <1>2, <1>4, <1>5, <1>6, <1>7, <1>8, <1>9, <1>10, <1>11, <1>12 DEF PageNames

LEMMA SamePage == TypeInv /\ [Next]_vars => page' = page
BY OperateIs DEF Next, vars, consoleVars, Event, Running

LEMMA InvStep == IInv /\ [Next]_vars => IInv'
<1>. SUFFICES ASSUME IInv, [Next]_vars PROVE IInv'
  OBVIOUS
<1>1. TypeInv /\ TypeInv' /\ page' = page
  BY TypeStep, SamePage DEF IInv
<1>2. page = "validation" => SeenInv' /\ ChosenInv'
  BY <1>1, SeenStep, ChosenStep DEF IInv
<1>3. page = "health" => HealthAll'
  BY <1>1, HealthStep DEF IInv
<1>4. page = "assistant" => AssistantAll'
  BY <1>1, AssistantStep DEF IInv
<1>5. ~lost' => MineInv'
  BY <1>1, MineStep DEF IInv
<1>. QED
  BY <1>1, <1>2, <1>3, <1>4, <1>5 DEF IInv

\* The inductive invariant holds of every behaviour of the console.
LEMMA Invariance == Spec => []IInv
BY InvInit, InvStep, PTL DEF Spec

\* THEOREM: the console, the server and the page in view stay within their types. The
\* request of the layout ends with it, no two actions in flight are the same record, and a
\* polled detail is of the present target.
THEOREM ConsoleTypes == Spec => []TypeOK
<1>1. ASSUME IInv PROVE TypeOK
  <2>1. FeedInv /\ Counters /\ FetchInv /\ OwnSlots /\ srv \in Servers
    BY <1>1 DEF IInv, TypeInv, FeedInv, PageTypes
  <2>2. page \in PageNames /\ local \in LocalsOf(page)
    BY <1>1 DEF IInv, TypeInv, FeedInv, PageTypes
  <2>3. Cardinality(acts) <= MaxActs
    BY <1>1, MineFinite DEF IInv
  <2>4. LocalOK
    <3>1. CASE page = "validation"
      <4>1. local \in ValidationLocal /\ QueryOK(local)
        BY <1>1, <2>2, <3>1 DEF LocalsOf, IInv, SeenInv, QueryInv
      <4>2. local.detail \in DetailOf /\ local.query \in QueryOf
        BY <4>1 DEF ValidationLocal
      <4>3. /\ {local.param, local.pinned, local.target} \subseteq Assets \cup {None}
            /\ local.choice \in Configs \cup {None} /\ {local.busy, local.saved} \subseteq BOOLEAN
            /\ {local.err, local.notice} \subseteq Assets \cup {None}
        BY <4>1 DEF ValidationLocal, Assets
      <4>4. /\ local.detail.of \in Assets \cup {None} /\ local.detail.gates \subseteq GateNames
            /\ local.query.is \in {"timer", "sent", "ok"} /\ local.query.gates \subseteq GateNames
        BY <4>2 DEF DetailOf, QueryOf
      <4>. QED
        BY <3>1, <4>1, <4>3, <4>4 DEF LocalOK, QueryOK
    <3>2. CASE page = "idle"
      BY <2>2, <3>2 DEF LocalsOf, LocalOK, IdleLocal
    <3>3. CASE page = "remediation"
      BY <2>2, <3>3 DEF LocalsOf, LocalOK, RemediationLocal
    <3>4. CASE page = "ruleset"
      BY <2>2, <3>4 DEF LocalsOf, LocalOK, RulesetLocal
    <3>5. CASE page = "assistant"
      <4>1. local.open \in Int
        BY <2>2, <3>5 DEF LocalsOf, AssistantLocal
      <4>2. /\ Cardinality(Mine) <= local.open
            /\ local.open <= Cardinality(Answerable) + failures
        BY <1>1, <3>5 DEF IInv, AssistantAll, AssistantInv
      <4>3. /\ Cardinality(Mine) \in Nat /\ Cardinality(Answerable) \in Nat
            /\ Cardinality(Answerable) <= MaxActs
        BY <1>1, MineFinite DEF IInv
      <4>4. failures \in Nat /\ failures <= MaxTroubles
        BY <2>1, FeedAssumption DEF Counters
      <4>5. local.open \in 0 .. MaxActs + MaxTroubles
        BY <4>1, <4>2, <4>3, <4>4, FeedAssumption
      <4>. QED
        BY <3>5, <4>5 DEF LocalOK
    <3>6. CASE page = "incident"
      BY <2>2, <3>6 DEF LocalsOf, LocalOK, IncidentLocal
    <3>7. CASE page = "board"
      BY <2>2, <3>7 DEF LocalsOf, LocalOK, BoardLocal
    <3>8. CASE page = "efficiency"
      BY <2>2, <3>8 DEF LocalsOf, LocalOK, EfficiencyLocal
    <3>9. CASE page = "health"
      BY <2>2, <3>9 DEF LocalsOf, LocalOK, HealthLocal
    <3>. QED
      BY <2>2, <3>1, <3>2, <3>3, <3>4, <3>5, <3>6, <3>7, <3>8, <3>9 DEF PageNames
  <2>. QED
    BY <2>1, <2>2, <2>3, <2>4 DEF TypeOK, FeedInv, Counters, FetchInv, OwnSlots
<1>. QED
  BY <1>1, Invariance, PTL

\* THEOREM: a banner of the validation page is over the asset its action was about, unless
\* the answer came after the page had moved on.
THEOREM BannerIsRight == Spec => []BannerIsOfTarget
<1>1. IInv => BannerIsOfTarget
  BY DEF IInv, SeenInv, BannerInv, BannerOK, BannerIsOfTarget
<1>. QED
  BY <1>1, Invariance, PTL

\* THEOREM: until an answer is lost, what a page remembers of its actions agrees with what
\* is out, on all the pages that act.
THEOREM ActionsAreAccountedFor == Spec => []ActionsAccountedFor
<1>1. \A S : /\ S = {} => Cardinality(S) = 0
             /\ S # {} /\ (\A a, b \in S : a = b) => Cardinality(S) = 1
  <2>1. ASSUME NEW S, S # {}, \A a, b \in S : a = b PROVE Cardinality(S) = 1
    <3>1. PICK a : S = {a}
      BY <2>1
    <3>. QED
      BY <3>1, FS_Singleton
  <2>. QED
    BY <2>1, FS_EmptySet
<1>2. ASSUME IInv, ~lost PROVE ActionsAccountedFor
  <2>1. page \in PageNames /\ MineInv /\ Mine = {a \in acts : Own(a)}
    BY <1>2 DEF IInv, TypeInv, FeedInv, Mine
  <2>2. CASE page = "assistant"
    BY <1>2, <2>1, <2>2 DEF IInv, AssistantAll, ActionsAccountedFor
  <2>3. CASE page = "incident"
    <3>1. Out(Mine, local.pending)
      BY <2>1, <2>3 DEF MineInv
    <3>2. Cardinality(Mine) = IF local.pending THEN 1 ELSE 0
      BY <1>1, <3>1 DEF Out
    <3>. QED
      BY <2>1, <2>3, <3>2 DEF ActionsAccountedFor
  <2>4. CASE page = "board"
    <3>1. Out(Mine, local.acting)
      BY <2>1, <2>4 DEF MineInv
    <3>2. Cardinality(Mine) = IF local.acting THEN 1 ELSE 0
      BY <1>1, <3>1 DEF Out
    <3>. QED
      BY <2>1, <2>4, <3>2 DEF ActionsAccountedFor
  <2>5. CASE page = "ruleset"
    <3>1. Out(Mine, local.pending # None)
      BY <2>1, <2>5 DEF MineInv
    <3>2. Cardinality(Mine) = IF local.pending # None THEN 1 ELSE 0
      BY <1>1, <3>1 DEF Out
    <3>. QED
      BY <2>1, <2>5, <3>2 DEF ActionsAccountedFor
  <2>6. CASE page = "health"
    <3>1. \A n \in Unsettled : \E a \in Mine : a.of = n
      BY <1>2, <2>6 DEF IInv, HealthAll, HealthMine, Unsettled
    <3>. QED
      BY <2>1, <2>6, <3>1 DEF ActionsAccountedFor
  <2>7. CASE page = "validation"
    <3>1. Out(Mine, local.busy)
      BY <2>1, <2>7 DEF MineInv
    <3>2. Cardinality(Mine) = IF local.busy THEN 1 ELSE 0
      BY <1>1, <3>1 DEF Out
    <3>. QED
      BY <2>1, <2>7, <3>2 DEF ActionsAccountedFor
  <2>8. CASE page = "idle"
    BY <2>1, <2>8 DEF MineInv, ActionsAccountedFor
  <2>9. CASE page = "remediation"
    <3>1. /\ Out(Doing("set-mode"), local.pending # None)
          /\ Out(OnCard("approve-isolation"), local.busy)
          /\ Out(OnCard("jump-phase"), local.jumping)
      BY <2>1, <2>9 DEF MineInv
    <3>2. Cardinality(Doing("set-mode")) = IF local.pending = None THEN 0 ELSE 1
      BY <1>1, <3>1 DEF Out
    <3>3. Cardinality(OnCard("approve-isolation")) = IF local.busy THEN 1 ELSE 0
      BY <1>1, <3>1 DEF Out
    <3>4. Cardinality(OnCard("jump-phase")) = IF local.jumping THEN 1 ELSE 0
      BY <1>1, <3>1 DEF Out
    <3>5. \A act : /\ Doing(act) = {a \in {b \in acts : Own(b)} : a.act = act}
                   /\ OnCard(act) = {a \in {b \in acts : Own(b)} : a.act = act /\ a.val = local.card}
      BY <2>1 DEF Doing, OnCard
    <3>. QED
      BY <2>9, <3>2, <3>3, <3>4, <3>5 DEF ActionsAccountedFor
  <2>10. CASE page = "efficiency"
    BY <2>10 DEF ActionsAccountedFor
  <2>. QED
    BY <2>1, <2>2, <2>3, <2>4, <2>5, <2>6, <2>7, <2>8, <2>9, <2>10 DEF PageNames
<1>3. IInv => ActionsAccountedFor
  BY <1>2 DEF ActionsAccountedFor
<1>. QED
  BY <1>3, Invariance, PTL

\* THEOREM: a burn-in starts with the configuration that was chosen when its button was
\* pressed, unless the page or the session was left in between.
THEOREM BurninStartsAsChosen == Spec => StartsAsChosen
<1>1. ASSUME IInv, [Next]_vars, page = "validation"
      PROVE  srv.phase = "burnin-failed" /\ srv'.phase = "burnin-2"
               => leaves > 0 \/ \E a \in acts : a.act = "start-burnin" /\ a.want = srv.cfg
  BY <1>1, ChosenStep DEF IInv
<1>2. IInv /\ [Next]_vars =>
        [ page = "validation" /\ srv.phase = "burnin-failed" /\ srv'.phase = "burnin-2"
          => leaves > 0 \/ \E a \in acts : a.act = "start-burnin" /\ a.want = srv.cfg ]_vars
  BY <1>1
<1>. QED
  BY <1>2, Invariance, PTL DEF Spec, StartsAsChosen

\* A new snapshot moves the target only for the victim's run, or for want of the asset.
LEMMA AnswerHolds ==
  ASSUME TypeInv, page = "validation", TargetInv, Running(AnswerState), snap # snap',
         local.target # None, local.target # Victim, local'.target # local.target,
         VictimHasRun(snap) = VictimHasRun(snap')
  PROVE  snap'.verdict[local.target] \in {"gone", "idle"}
<1>1. local \in ValidationLocal /\ snap' \in ValidationSrv /\ snap' # NoSnap
      /\ local' = Settled(local, snap')
  <2>1. fetch.seen \in ServersOf(page) /\ snap' = fetch.seen /\ local' = After(local, fetch.seen)
    BY AnswerIs DEF Servers
  <2>2. fetch.seen # NoSnap
    BY <2>1, ConsoleAssumption DEF PageNames
  <2>. QED
    BY <2>1, <2>2, InView DEF ServersOf, LocalsOf, After
<1>2. local'.target = Target(local, snap') /\ local.target = Target(local, snap)
  BY <1>1, SettledFields DEF TargetInv, TargetOK
<1>3. local.param = None
  BY <1>2 DEF Target
<1>4. snap # NoSnap
  BY <1>2, <1>3 DEF Target
<1>5. ~VictimHasRun(snap) /\ ~VictimHasRun(snap')
  BY <1>1, <1>2, <1>3, <1>4 DEF Target
<1>6. local.target = LiveAsset(local.pinned, snap) /\ LiveAsset(local.pinned, snap) # None
  BY <1>2, <1>3, <1>4, <1>5 DEF Target
<1>7. local.target = local.pinned
  BY <1>4, <1>6 DEF TargetInv, TargetOK
<1>8. ~Held(local.pinned, snap')
  <2>1. LiveAsset(local.pinned, snap') # local.pinned
    BY <1>1, <1>2, <1>3, <1>5, <1>7 DEF Target
  <2>. QED
    BY <2>1 DEF LiveAsset
<1>. QED
  BY <1>7, <1>8 DEF Held

\* THEOREM: the page does not change the asset under the operator's eyes while there is
\* something to see of it.
THEOREM TheTargetIsHeld == Spec => TargetIsHeld
<1> DEFINE Holds ==
      page = "validation" /\ local.target # local'.target /\ local.target # None
      => \/ local'.param # local.param \/ status' # status \/ leaves' # leaves
         \/ VictimHasRun(snap) # VictimHasRun(snap')
         \/ local.target = Victim
         \/ snap'.verdict[local.target] \in {"gone", "idle"}
<1>1. ASSUME IInv, [Next]_vars PROVE Holds
  <2>. SUFFICES ASSUME page = "validation", local.target # local'.target, local.target # None
                PROVE  Holds
    OBVIOUS
  <2>1. TypeInv /\ TargetInv /\ local \in ValidationLocal
    BY <1>1, InView DEF IInv, SeenInv, LocalsOf
  <2>2. CASE Operate
    <3>1. CASE \E u \in Gpus \cup {None} : OpenAsset(u)
      <4>1. PICK u \in Gpus \cup {None} : OpenAsset(u)
        BY <3>1
      <4> DEFINE l1 == [local EXCEPT !.param = u]
      <4>2. l1 \in ValidationLocal /\ l1.param = u /\ snap \in ValidationSrv \cup {NoSnap}
        BY <2>1, OpenedIs DEF TypeInv, FeedInv, Servers, ServersOf
      <4>3. local' = Settled(l1, snap) /\ u # local.param
        BY <4>1 DEF OpenAsset
      <4>. HIDE DEF l1
      <4>4. local'.param # local.param
        BY <4>2, <4>3, SettledFields
      <4>. QED
        BY <4>4
    <3>2. CASE ValidationType \/ ValidationPress
      BY <3>2 DEF ValidationType, ValidationPress
    <3>. QED
      BY <2>1, <2>2, <3>1, <3>2, ValidationOperates DEF Operate
  <2>3. CASE Event
    BY <2>3 DEF Event
  <2>4. CASE Running(ServeState \/ FailState \/ TimerFires)
    BY <2>4 DEF Running, ServeState, FailState, TimerFires
  <2>5. CASE Running(AnswerState)
    <3>1. snap' # snap \/ local'.target = Settled(local, snap).target
      BY <2>1, <2>5, AnswerIs DEF After
    <3>2. Settled(local, snap).target = local.target
      BY <2>1, SettledFields DEF TypeInv, FeedInv, Servers, ServersOf, TargetInv, TargetOK
    <3>3. snap' # snap
      BY <2>1, <2>5, <3>1, <3>2
    <3>. QED
      BY <2>1, <2>5, <3>3, AnswerHolds
  <2>6. CASE Running(AskDetail)
    BY <2>1, <2>6, DetailIs DEF Running, DetailKeeps
  <2>7. CASE Running(ServeAnAct)
    BY <2>1, <2>7, ServeIs
  <2>8. CASE Running(AnswerAnAct)
    <3>1. ASSUME NEW a \in acts, Running(ActAnswered(a, Handled(a), More(a))) PROVE Holds
      <4>1. a \in ActsOf("validation") /\ local' = IF Own(a) THEN Handled(a) ELSE local
        BY <2>1, <3>1, AnsweredStep DEF TypeInv, PageTypes
      <4>. QED
        BY <2>1, <4>1, ValidationAfterFields DEF Handled
    <3>2. ASSUME NEW a \in acts, Running(ActThrows(a, Thrown)) PROVE Holds
      BY <2>1, <3>2, ThrowsStep DEF Thrown
    <3>3. ASSUME NEW a \in acts, Running(ActUnauthorized(a, Fresh)) PROVE Holds
      <4>1. status = "authed"
        BY <2>1, InView DEF Fresh, ValidationFresh
      <4>. QED
        BY <2>1, <3>3, <4>1, UnauthorizedStep
    <3>. QED
      BY <2>8, <3>1, <3>2, <3>3 DEF AnswerAnAct, Running
  <2>9. CASE \E a \in acts : Running(LoseAct(a))
    BY <2>1, <2>9, LoseType
  <2>10. CASE Running(QueryExpires)
    <3>1. status = "authed"
      BY <2>1, InView DEF Fresh, ValidationFresh
    <3>. QED
      BY <2>1, <2>10, <3>1, QueryExpiresStep
  <2>11. CASE Running(EndSession)
    BY <2>1, <2>11, EndSessionStep
  <2>12. CASE Running(Login)
    BY <2>1, <2>12, LoginStep
  <2>13. CASE Running(LeavePage(After(Fresh, snap)))
    <3>1. leaves' = leaves + 1 /\ leaves \in Nat
      BY <2>1, <2>13, LeavePageStep DEF TypeInv, FeedInv, Counters
    <3>2. leaves' # leaves
      BY <3>1
    <3>. QED
      BY <3>2
  <2>14. CASE UNCHANGED vars
    BY <2>14 DEF vars
  <2>. QED
    BY <1>1, <2>2, <2>3, <2>4, <2>5, <2>6, <2>7, <2>8, <2>9, <2>10, <2>11, <2>12, <2>13, <2>14
       DEF Next, Running
<1>2. IInv /\ [Next]_vars => [Holds]_vars
  BY <1>1
<1>. QED
  BY <1>2, Invariance, PTL DEF Spec, TargetIsHeld

=============================================================================
