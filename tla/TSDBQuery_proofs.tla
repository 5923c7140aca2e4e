-------------------------- MODULE TSDBQuery_proofs --------------------------
(***************************************************************************)
(* What a reader finds beside the write path. A block is hidden from a     *)
(* reader by one that comes before it and reaches beyond it, so both       *)
(* theorems rest on the order in which blocks cover a series.              *)
(***************************************************************************)
EXTENDS TSDBData_proofs, TSDBQuery, WellFoundedInduction

Raw(bs) == {b \in bs : b.res = "raw"}

\* A later sample of the same series.
Beyond(f, s) == f.lset = s.lset /\ s.t < f.t

-----------------------------------------------------------------------------
(* The reader.                                                              *)

LEMMA Least ==
  ASSUME NEW S \in SUBSET Nat, S # {}
  PROVE  \E n \in S : \A m \in S : n <= m
  <1> DEFINE R == {p \in Nat \X Nat : p[1] < p[2]}
  <1>1. IsWellFoundedOn(R, Nat) BY NatLessThanWellFounded DEF OpToRel
  <1> HIDE DEF R
  <1>2. PICK n \in S : \A m \in S : ~ (<<m, n>> \in R) BY <1>1, WFMin
  <1>3. ASSUME NEW m \in S PROVE n <= m
    <2>1. m \in Nat /\ n \in Nat /\ ~ (<<m, n>> \in R) BY <1>2
    <2>2. ~ (m < n) BY <2>1 DEF R
    <2> QED BY <2>1, <2>2
  <1> QED BY <1>3

\* Some block of a set comes before all others.
LEMMA First ==
  ASSUME NEW S \in SUBSET Block, S # {}
  PROVE  \E b \in S : \A c \in S : Before(b, c)
  <1> DEFINE T == {c.minT : c \in S}
  <1>1. T \in SUBSET Nat /\ T # {} BY DEF Block, Time
  <1>2. PICK t \in T : \A m \in T : t <= m BY <1>1, Least
  <1> DEFINE U == {c.maxT : c \in {d \in S : d.minT = t}}
  <1>3. U \in SUBSET Nat /\ U # {} BY <1>2 DEF Block, Time
  <1>4. PICK u \in U : \A m \in U : u <= m BY <1>3, Least
  <1>5. PICK b \in S : b.minT = t /\ b.maxT = u BY <1>4
  <1>6. ASSUME NEW c \in S PROVE Before(b, c)
    <2>1. c.minT \in Nat /\ t \in Nat /\ t <= c.minT BY <1>1, <1>2
    <2>2. c.minT = t => u <= c.maxT BY <1>4
    <2> QED BY <1>5, <2>1, <2>2 DEF Before
  <1> QED BY <1>6

LEMMA SeriesRead ==
  ASSUME NEW res, NEW l, NEW inHead, NEW stop, NEW e
  PROVE  e \in Series_(res, l, inHead, stop) <=>
           \/ \E b \in qblocks :
                /\ b.res = res /\ e \in Stored(res, l, b.data) /\ InWindow(e.t)
                /\ \A c \in qblocks : c.res = res /\ c # b /\ Before(c, b) =>
                     ~Hides(Stored(res, l, c.data), e, stop)
           \/ /\ res = "raw" /\ e \in Stored(res, l, inHead) /\ InWindow(e.t)
              /\ \A c \in qblocks : c.res = res => ~Hides(Stored(res, l, c.data), e, stop)
  <1> DEFINE own == {b \in qblocks : b.res = res}
             part(b) == Stored(res, l, b.data)
             Read(from, after) ==
               {x \in from : InWindow(x.t) /\ \A c \in after : ~Hides(part(c), x, stop)}
             inBlocks == UNION {Read(part(b), {c \in own \ {b} : Before(c, b)}) : b \in own}
             rest == IF res = "raw" THEN Read(Stored(res, l, inHead), own) ELSE {}
  <1>1. Series_(res, l, inHead, stop) = inBlocks \cup rest BY DEF Series_
  <1>2. e \in rest <=>
          /\ res = "raw" /\ e \in Stored(res, l, inHead) /\ InWindow(e.t)
          /\ \A c \in own : ~Hides(part(c), e, stop)
    OBVIOUS
  <1>3. e \in inBlocks <=>
          \E b \in own : /\ e \in part(b) /\ InWindow(e.t)
                         /\ \A c \in own : c # b /\ Before(c, b) => ~Hides(part(c), e, stop)
    OBVIOUS
  <1> QED BY <1>1, <1>2, <1>3

\* A part hides what is at or before its own samples of the series.
LEMMA NotHidden ==
  ASSUME NEW data, NEW s, NEW stop, NEW e, e.t = s.t, s.t \in Nat, qmaxt \in Nat,
         InWindow(s.t), s \notin data,
         \A x \in data : x.t \in Nat /\ ~Beyond(x, s) /\ (x.lset = s.lset /\ x.t = s.t => x = s)
  PROVE  ~Hides(Stored("raw", s.lset, data), e, stop)
  <1>1. \A g \in Stored("raw", s.lset, data) :
          \E x \in data : x.lset = s.lset /\ g.t = x.t
    BY DEF Stored, StoredAt
  <1>2. \A g \in Stored("raw", s.lset, data) : g.t \in Nat /\ g.t < s.t
    BY <1>1 DEF Beyond
  <1> QED BY <1>2 DEF Hides, InWindow

\* What a part contributes for a sample it holds.
LEMMA StoredSample ==
  ASSUME NEW data, NEW s \in data
  PROVE  \E e \in Stored("raw", s.lset, data) : e.res = "raw" /\ e.t = s.t /\ s \in e.of
  <1> DEFINE of == {x \in data : x.lset = s.lset /\ x.t = s.t}
             e == [res |-> "raw", lset |-> s.lset, t |-> s.t, of |-> of]
  <1>1. s \in of OBVIOUS
  <1>2. e \in Stored("raw", s.lset, data) BY DEF Stored, StoredAt
  <1> QED BY <1>1, <1>2

\* If no block that reaches beyond a sample comes before all the blocks that have it,
\* the reader finds the sample.
LEMMA Emits ==
  ASSUME NEW s \in Samples, Select, InWindow(s.t), qmaxt \in Nat,
         qblocks \subseteq Block, HeadData \subseteq Samples,
         s \in HeadData \/ \E b \in Raw(qblocks) : s \in b.data,
         \A b, c \in Raw(qblocks) : b.minT = c.minT /\ b.maxT = c.maxT => b = c,
         \A b \in Raw(qblocks) : \A f \in b.data :
           s \in HeadData /\ Beyond(f, s) => \E d \in Raw(qblocks) : s \in d.data,
         \A b, c \in Raw(qblocks) : Before(b, c) /\ s \in c.data =>
           \A f \in b.data : Beyond(f, s) =>
             \E d \in Raw(qblocks) : s \in d.data /\ Before(d, b),
         \A x \in HeadData : x.lset = s.lset /\ x.t = s.t => x = s,
         \A b \in Raw(qblocks) : \A x \in b.data : x.lset = s.lset /\ x.t = s.t => x = s
  PROVE  Emitted(s)'
  <1>1. PICK stop \in BOOLEAN :
          qresult' = UNION {Series_(res, l, HeadData, stop) : res \in Res, l \in Lsets}
    BY DEF Select
  <1>2. s.lset \in Lsets /\ s.t \in Nat /\ "raw" \in Res BY DEF Samples, Time, Res
  <1>3. \A b \in qblocks : b.minT \in Nat /\ b.maxT \in Nat /\ b.data \subseteq Samples
    BY DEF Block, Time
  <1>4. ASSUME NEW e \in Series_("raw", s.lset, HeadData, stop), e.res = "raw", s \in e.of
        PROVE  Emitted(s)'
    BY <1>1, <1>2, <1>4 DEF Emitted
  <1> DEFINE Having == {b \in Raw(qblocks) : s \in b.data}
  <1>5. CASE Having = {}
    <2>1. s \in HeadData BY <1>5
    <2>2. PICK e \in Stored("raw", s.lset, HeadData) : e.res = "raw" /\ e.t = s.t /\ s \in e.of
      BY <2>1, StoredSample
    <2>3. ASSUME NEW c \in qblocks, c.res = "raw"
          PROVE  ~Hides(Stored("raw", s.lset, c.data), e, stop)
      <3>1. c \in Raw(qblocks) BY <2>3 DEF Raw
      <3>2. \A x \in c.data : ~Beyond(x, s) BY <1>5, <2>1, <3>1
      <3>3. \A x \in c.data : x.t \in Nat BY <1>3 DEF Samples, Time
      <3> QED BY <1>2, <1>5, <2>2, <3>1, <3>2, <3>3, NotHidden
    <2>4. e \in Series_("raw", s.lset, HeadData, stop) BY <2>2, <2>3, SeriesRead
    <2> QED BY <1>4, <2>2, <2>4
  <1>6. CASE Having # {}
    <2>1. PICK b \in Having : \A c \in Having : Before(b, c)
      <3>1. Having \in SUBSET Block BY DEF Raw
      <3> QED BY <1>6, <3>1, First
    <2>2. b \in qblocks /\ b.res = "raw" /\ s \in b.data BY DEF Raw
    <2>3. PICK e \in Stored("raw", s.lset, b.data) : e.res = "raw" /\ e.t = s.t /\ s \in e.of
      BY <2>2, StoredSample
    <2>4. ASSUME NEW c \in qblocks, c.res = "raw", c # b, Before(c, b)
          PROVE  ~Hides(Stored("raw", s.lset, c.data), e, stop)
      <3>1. c \in Raw(qblocks) /\ b \in Raw(qblocks) BY <2>2, <2>4 DEF Raw
      <3>2. ASSUME NEW d \in Having, Before(d, c) PROVE FALSE
        <4>1. d \in qblocks /\ Before(b, d) BY <2>1 DEF Raw
        <4>2. b.minT = c.minT /\ b.maxT = c.maxT
          BY <1>3, <2>2, <2>4, <3>2, <4>1 DEF Before
        <4> QED BY <2>4, <3>1, <4>2
      <3>3. s \notin c.data
        <4>1. Before(c, c) BY <1>3 DEF Before
        <4> QED BY <3>1, <3>2, <4>1
      <3>4. \A x \in c.data : ~Beyond(x, s) BY <2>2, <2>4, <3>1, <3>2
      <3>5. \A x \in c.data : x.t \in Nat BY <1>3 DEF Samples, Time
      <3> QED BY <1>2, <2>3, <3>1, <3>3, <3>4, <3>5, NotHidden
    <2>5. e \in Series_("raw", s.lset, HeadData, stop)
      BY <2>2, <2>3, <2>4, SeriesRead
    <2> QED BY <1>4, <2>3, <2>5
  <1> QED BY <1>5, <1>6

\* What the reader emits of a raw series is in a block it opened or in the head.
LEMMA EmitsWhatIsThere ==
  ASSUME Select, NEW e \in qresult', e.res = "raw", NEW s \in e.of
  PROVE  s \in HeadData \/ \E b \in Raw(qblocks) : s \in b.data
  <1>1. PICK stop \in BOOLEAN, res \in Res, l \in Lsets :
          e \in Series_(res, l, HeadData, stop)
    BY DEF Select
  <1>2. \A data : e \in Stored(res, l, data) => res = "raw" /\ s \in data BY DEF Stored
  <1> QED BY <1>1, <1>2, SeriesRead DEF Raw

-----------------------------------------------------------------------------
(* The ranges of the raw blocks, whatever fails but the clock.              *)

\* No range ends after the last scrape, and a series begins with a sample.
HeadPast ==
  \A ref \in DOMAIN head :
    /\ head[ref].maxT <= clock
    /\ head[ref].n # 0 => \E s \in head[ref].data : s.t = head[ref].minT

BlocksPast == \A b \in Raw(blocks) : b.maxT <= clock

\* A raw block has its directory for itself.
OneOfARange ==
  \A b, c \in Raw(blocks) : b.minT = c.minT /\ b.maxT = c.maxT => b = c

NoNamesake == pc = "renameRaw" => \A b \in Raw(blocks) : ~SpansHead(b.minT, b.maxT)

RangeInv == HeadPast /\ BlocksPast /\ OneOfARange /\ NoNamesake

LEMMA OneSpan ==
  ASSUME TypeOK, NEW lo \in Time, NEW hi \in Time, SpansHead(lo, hi),
         NEW min \in Time, NEW max \in Time, SpansHead(min, max)
  PROVE  lo = min /\ hi = max
  <1>1. \A r \in Filled : head[r].minT \in Nat /\ head[r].maxT \in Nat
    BY DEF TypeOK, Filled, Series, Time
  <1>2. lo <= min /\ min <= lo BY <1>1 DEF SpansHead
  <1>3. hi <= max /\ max <= hi BY <1>1 DEF SpansHead
  <1>4. lo \in Nat /\ hi \in Nat /\ min \in Nat /\ max \in Nat BY DEF Time
  <1> QED BY <1>2, <1>3, <1>4

\* What a series gets, the head has.
LEMMA HeadGets ==
  ASSUME TypeOK, NEW ref, NEW s \in Series, NEW t \in Time, NEW v \in Lsets,
         head' = Register(ref, Appended(s, t, v)),
         ref \in DOMAIN head => s = head[ref],
         ref \notin DOMAIN head => s.data = {}
  PROVE  HeadData' = HeadData \cup {[lset |-> s.lset, t |-> t, v |-> v]}
  <1>1. /\ DOMAIN head' = DOMAIN head \cup {ref}
        /\ \A r \in DOMAIN head : r # ref => head'[r] = head[r]
        /\ head'[ref].data = s.data \cup {[lset |-> s.lset, t |-> t, v |-> v]}
    BY DEF Register, Appended
  <1>2. \A x : x \in HeadData' <=> \E r \in DOMAIN head' : x \in head'[r].data
    BY DEF HeadData
  <1>3. \A x : x \in HeadData <=> \E r \in DOMAIN head : x \in head[r].data
    BY DEF HeadData
  <1>4. \A x : x \in HeadData' <=>
          x \in HeadData \/ x \in {[lset |-> s.lset, t |-> t, v |-> v]}
    <2>1. CASE ref \in DOMAIN head BY <1>1, <1>2, <1>3, <2>1
    <2>2. CASE ref \notin DOMAIN head BY <1>1, <1>2, <1>3, <2>2
    <2> QED BY <2>1, <2>2
  <1> QED BY <1>4

LEMMA PastRegister ==
  ASSUME TypeOK, HeadPast, NEW ref, NEW s \in Series, NEW t \in Time, NEW v \in Lsets,
         head' = Register(ref, Appended(s, t, v)),
         ref \in DOMAIN head => s = head[ref],
         ref \notin DOMAIN head => s.n = 0 /\ s.maxT = 0,
         clock' \in Time, clock <= clock', t <= clock'
  PROVE  HeadPast'
  <1> DEFINE a == Appended(s, t, v)
  <1>1. /\ DOMAIN head' = DOMAIN head \cup {ref} /\ head'[ref] = a
        /\ \A r \in DOMAIN head : r # ref => head'[r] = head[r]
    BY DEF Register
  <1>2. /\ clock \in Nat /\ clock' \in Nat /\ t \in Nat /\ s.maxT \in Nat
        /\ \A r \in DOMAIN head : head[r].maxT \in Nat
    BY DEF TypeOK, Series, Time
  <1>3. /\ a.maxT = IF t > s.maxT THEN t ELSE s.maxT
        /\ a.minT = IF s.n = 0 THEN t ELSE s.minT
        /\ s.data \subseteq a.data /\ [lset |-> s.lset, t |-> t, v |-> v] \in a.data
    BY DEF Appended
  <1> HIDE DEF a
  <1>4. s.maxT <= clock /\ (s.n # 0 => \E x \in s.data : x.t = s.minT)
    BY <1>2 DEF HeadPast
  <1>5. a.maxT <= clock' /\ \E x \in a.data : x.t = a.minT
    <2>1. a.maxT <= clock' BY <1>2, <1>3, <1>4
    <2>2. CASE s.n = 0 BY <1>3, <2>1, <2>2
    <2>3. CASE s.n # 0 BY <1>3, <1>4, <2>1, <2>3
    <2> QED BY <2>2, <2>3
  <1>6. ASSUME NEW r \in DOMAIN head'
        PROVE  /\ head'[r].maxT <= clock'
               /\ head'[r].n # 0 => \E x \in head'[r].data : x.t = head'[r].minT
    <2>1. CASE r = ref BY <1>1, <1>5, <2>1
    <2>2. CASE r # ref
      <3>1. r \in DOMAIN head /\ head'[r] = head[r] BY <1>1, <2>2
      <3> QED BY <1>2, <3>1 DEF HeadPast
    <2> QED BY <2>1, <2>2
  <1> QED BY <1>6 DEF HeadPast

-----------------------------------------------------------------------------
(* What a step of the running write path is to a reader: one sample more in *)
(* the head, one raw block more, raw blocks gone, or the head gone.         *)

HeadGrows ==
  /\ blocks' = blocks
  /\ \E x \in Samples : HeadData' = HeadData \cup {x} /\ x.t = clock' /\ x.v = x.lset

BlockComes ==
  /\ HeadData' = HeadData
  /\ \E c \in Block :
       /\ Raw(blocks') = Raw(blocks) \cup {c}
       /\ c.data = HeadData
       /\ \A x \in HeadData : c.minT <= x.t /\ x.t <= c.maxT
       /\ \E x \in HeadData : x.t = c.minT

BlocksGo == HeadData' = HeadData /\ Raw(blocks') \subseteq Raw(blocks)

HeadGoes == pc = "reset" /\ HeadData' = {} /\ blocks' = blocks

AppendsOrCompacts == HeadGrows \/ BlockComes \/ BlocksGo \/ HeadGoes

\* Steps that touch neither head nor blocks.
LEMMA QuietEffect ==
  ASSUME TypeOK, TypeOK', RangeInv, clock <= clock', UNCHANGED <<head, blocks>>,
         pc' # "renameRaw"
  PROVE  BlocksGo /\ RangeInv'
  <1>1. HeadData' = HeadData BY DEF HeadData
  <1>2. /\ clock \in Nat /\ clock' \in Nat
        /\ \A ref \in DOMAIN head : head[ref].maxT \in Nat
        /\ \A b \in blocks : b.maxT \in Nat
    BY DEF TypeOK, Series, Block, Time
  <1>3. HeadPast' BY <1>2 DEF RangeInv, HeadPast
  <1>4. BlocksPast' BY <1>2 DEF RangeInv, BlocksPast, Raw
  <1>5. OneOfARange' /\ NoNamesake' BY DEF RangeInv, OneOfARange, NoNamesake
  <1> QED BY <1>1, <1>3, <1>4, <1>5 DEF BlocksGo, RangeInv

LEMMA AppendEffect ==
  ASSUME MonotoneClock, HeldInv, TypeOK', RangeInv,
         NEW l \in Lsets, NEW t \in Time, AppendHead(l, t)
  PROVE  HeadGrows /\ RangeInv' /\ clock <= clock'
  <1>1. /\ pc' # "renameRaw" /\ clock <= t /\ clock' = t /\ blocks' = blocks
    BY DEF AppendHead, ReadClock, MonotoneClock
  <1>2. PICK ref \in GetOrCreate(l) :
          head' = Register(ref, Appended(SeriesAt(ref, l), t, l))
    BY DEF AppendHead
  <1>3. ref \in Ref /\ SeriesAt(ref, l) \in Series BY SeriesAtType DEF HeldInv
  <1>4. ref \in Nat /\ lastRef \in Nat /\ \A r \in DOMAIN head : r \in Nat
    BY <1>3 DEF HeldInv, TypeOK, Ref
  <1>5. \/ ref \in DOMAIN head /\ head[ref].lset = l
        \/ ref \notin DOMAIN head
    BY <1>4 DEF GetOrCreate, HeldInv, HeadRefs
  <1>6. /\ SeriesAt(ref, l).lset = l
        /\ ref \in DOMAIN head => SeriesAt(ref, l) = head[ref]
        /\ ref \notin DOMAIN head =>
             SeriesAt(ref, l).n = 0 /\ SeriesAt(ref, l).maxT = 0 /\ SeriesAt(ref, l).data = {}
    BY <1>5 DEF SeriesAt, NewSeries
  <1>7. HeadData' = HeadData \cup {[lset |-> l, t |-> t, v |-> l]}
    <2> DEFINE s == SeriesAt(ref, l)
    <2>1. TypeOK /\ s \in Series /\ s.lset = l BY <1>3, <1>6 DEF HeldInv
    <2>2. /\ head' = Register(ref, Appended(s, t, l))
          /\ ref \in DOMAIN head => s = head[ref]
          /\ ref \notin DOMAIN head => s.data = {}
      BY <1>2, <1>6
    <2> HIDE DEF s
    <2>3. HeadData' = HeadData \cup {[lset |-> s.lset, t |-> t, v |-> l]}
      BY <2>1, <2>2, HeadGets
    <2> QED BY <2>1, <2>3
  <1>8. HeadGrows
    <2> DEFINE x == [lset |-> l, t |-> t, v |-> l]
    <2>1. x \in Samples BY DEF Samples
    <2>2. HeadData' = HeadData \cup {x} /\ x.t = clock' /\ x.v = x.lset BY <1>1, <1>7
    <2> QED BY <1>1, <2>1, <2>2 DEF HeadGrows
  <1>9. HeadPast'
    <2>1. clock' \in Time /\ t <= clock' BY <1>1 DEF Time
    <2> QED BY <1>1, <1>2, <1>3, <1>6, <2>1, PastRegister DEF HeldInv, RangeInv
  <1>10. BlocksPast'
    <2>1. /\ clock \in Nat /\ clock' \in Nat /\ \A b \in blocks : b.maxT \in Nat
      BY DEF HeldInv, TypeOK, Block, Time
    <2> QED BY <1>1, <2>1 DEF RangeInv, BlocksPast, Raw
  <1>11. OneOfARange' /\ NoNamesake'
    BY <1>1 DEF RangeInv, OneOfARange, NoNamesake
  <1> QED BY <1>1, <1>8, <1>9, <1>10, <1>11 DEF RangeInv

\* Before the rename of a block its namesake is gone.
LEMMA RemoveEffect ==
  ASSUME TypeOK, RangeInv, RemovesOld
  PROVE  BlocksGo /\ RangeInv'
  <1>1. UNCHANGED <<head, clock>> /\ blocks' \subseteq blocks
    BY DEF RemovesOld, RemoveOld, memVars
  <1>2. HeadData' = HeadData BY <1>1 DEF HeadData
  <1>3. Raw(blocks') \subseteq Raw(blocks) BY <1>1 DEF Raw
  <1>4. NoNamesake'
    <2> SUFFICES ASSUME pc' = "renameRaw", NEW b \in Raw(blocks')
                 PROVE  ~SpansHead(b.minT, b.maxT)
      BY <1>1 DEF NoNamesake, SpansHead, Filled
    <2>1. PICK lo \in Time, hi \in Time :
            SpansHead(lo, hi) /\ blocks' = blocks \ Namesakes("raw", lo, hi)
      BY DEF RemovesOld, RemoveOld
    <2>2. b \in blocks /\ b \notin Namesakes("raw", lo, hi) /\ b.res = "raw"
      BY <2>1 DEF Raw
    <2>3. ~ (b.minT = lo /\ b.maxT = hi) BY <2>2 DEF Namesakes, StoredAt
    <2>4. b.minT \in Time /\ b.maxT \in Time BY <2>2 DEF TypeOK, Block
    <2> QED BY <2>1, <2>3, <2>4, OneSpan
  <1>5. HeadPast' /\ BlocksPast' /\ OneOfARange'
    BY <1>1, <1>3 DEF RangeInv, HeadPast, BlocksPast, OneOfARange
  <1> QED BY <1>2, <1>3, <1>4, <1>5 DEF BlocksGo, RangeInv

\* The rollup block leaves the raw blocks alone; the raw block takes all of the head.
LEMMA RenameEffect ==
  ASSUME Inv, TypeOK', RangeInv, Renames
  PROVE  (BlockComes \/ BlocksGo) /\ RangeInv'
  <1>0. TypeOK BY DEF Inv, BaseInv
  <1>1. UNCHANGED <<head, clock>> /\ pc' # "renameRaw"
    BY DEF Renames, Rename, memVars
  <1>2. HeadData' = HeadData BY <1>1 DEF HeadData
  <1>3. HeadPast' /\ NoNamesake' BY <1>1 DEF RangeInv, HeadPast, NoNamesake
  <1>4. CASE Raw(blocks') = Raw(blocks)
    <2>1. BlocksPast' /\ OneOfARange'
      BY <1>1, <1>4 DEF RangeInv, BlocksPast, OneOfARange
    <2> QED BY <1>2, <1>3, <1>4, <2>1 DEF BlocksGo, RangeInv
  <1>5. CASE Raw(blocks') # Raw(blocks)
    <2>1. ~Rename("5m", "rename5m", "reset")
      BY <1>5 DEF Rename, NewBlock, Raw
    <2>2. Rename("raw", "renameRaw", "remove5m") BY <2>1 DEF Renames
    <2>3. PICK lo \in Time, hi \in Time, d \in Storable("raw") :
            SpansHead(lo, hi) /\ blocks' = blocks \cup {NewBlock("raw", lo, hi, d)}
      BY <1>5, <2>2 DEF Rename
    <2> DEFINE c == NewBlock("raw", lo, hi, d)
    <2>4. /\ c.minT = lo /\ c.maxT = hi /\ c.data = HeadData /\ c.res = "raw" /\ c \in Block
      BY <1>0, <2>3, NewBlockType DEF NewBlock, StoredAt, Storable, Res
    <2>5. blocks' = blocks \cup {c} BY <2>3
    <2> HIDE DEF c
    <2>6. Raw(blocks') = Raw(blocks) \cup {c} BY <2>4, <2>5 DEF Raw
    <2>7. \A x \in HeadData : c.minT <= x.t /\ x.t <= c.maxT
      BY <2>3, <2>4, RawRange
    <2>8. PICK r \in Filled : head[r].minT = lo BY <2>3 DEF SpansHead
    <2>9. PICK q \in Filled : head[q].maxT = hi BY <2>3 DEF SpansHead
    <2>10. \E x \in HeadData : x.t = c.minT
      <3>1. r \in DOMAIN head /\ head[r].n # 0
        BY <1>0, <2>8 DEF Filled, TypeOK, Series
      <3>2. PICK x \in head[r].data : x.t = head[r].minT BY <3>1 DEF RangeInv, HeadPast
      <3> QED BY <2>4, <2>8, <3>1, <3>2 DEF HeadData
    <2>11. c.maxT <= clock
      <3>1. q \in DOMAIN head BY <2>9 DEF Filled
      <3> QED BY <2>4, <2>9, <3>1 DEF RangeInv, HeadPast
    <2>12. BlockComes BY <1>2, <2>4, <2>6, <2>7, <2>10 DEF BlockComes
    <2>13. BlocksPast' BY <1>1, <2>6, <2>11 DEF RangeInv, BlocksPast
    <2>14. \A b \in Raw(blocks) : ~ (b.minT = c.minT /\ b.maxT = c.maxT)
      <3>1. pc = "renameRaw" BY <2>2 DEF Rename
      <3> QED BY <2>3, <2>4, <3>1 DEF RangeInv, NoNamesake
    <2>15. OneOfARange' BY <2>6, <2>14 DEF RangeInv, OneOfARange
    <2> QED BY <1>3, <2>12, <2>13, <2>15 DEF RangeInv
  <1> QED BY <1>4, <1>5

\* A step of the running engine, for the reader, and what it leaves of the ranges.
LEMMA RunningStep ==
  ASSUME MonotoneClock, Inv, HeldInv, RangeInv, TypeOK', Up, Up', Next
  PROVE  AppendsOrCompacts /\ RangeInv' /\ clock <= clock'
  <1>0. TypeOK /\ clock <= clock BY DEF Inv, BaseInv, TypeOK, Time
  <1>1. ASSUME NEW l \in Lsets, NEW t \in Time, AppendHead(l, t)
        PROVE  AppendsOrCompacts /\ RangeInv' /\ clock <= clock'
    BY <1>1, AppendEffect DEF AppendsOrCompacts
  <1>2. ASSUME NEW l \in Lsets, NEW t \in Time, AppendRejected(l, t)
        PROVE  AppendsOrCompacts /\ RangeInv' /\ clock <= clock'
    <2>1. UNCHANGED <<head, blocks>> /\ pc' # "renameRaw" /\ clock <= clock'
      BY <1>2 DEF AppendRejected, ReadClock, MonotoneClock, memVars
    <2> QED BY <1>0, <2>1, QuietEffect DEF AppendsOrCompacts
  <1>3. CASE \/ LogSeries \/ LogSamples \/ (\E t \in Time : CompactStart(t))
             \/ TruncateStart \/ RemoveSegment \/ TruncateEnd
    <2>1. UNCHANGED <<head, blocks, clock>> /\ pc' # "renameRaw"
      BY <1>3 DEF LogSeries, LogSamples, CompactStart, TruncateStart, RemoveSegment,
         TruncateEnd, memVars
    <2> QED BY <1>0, <2>1, QuietEffect DEF AppendsOrCompacts
  <1>4. CASE RemovesOld
    BY <1>0, <1>4, RemoveEffect DEF RemovesOld, RemoveOld, AppendsOrCompacts
  <1>5. CASE Renames
    BY <1>0, <1>5, RenameEffect DEF Renames, Rename, AppendsOrCompacts
  <1>6. CASE Reset
    <2>1. DOMAIN head' = {} /\ UNCHANGED <<blocks, clock>> /\ pc = "reset" /\ pc' = "truncate"
      BY <1>6 DEF Reset, EmptyHead
    <2>2. HeadData' = {} BY <2>1 DEF HeadData
    <2>3. RangeInv'
      BY <2>1 DEF RangeInv, HeadPast, BlocksPast, OneOfARange, NoNamesake
    <2> QED BY <1>0, <2>1, <2>2, <2>3 DEF HeadGoes, AppendsOrCompacts
  <1>7. CASE ApplyRetention
    <2>1. UNCHANGED <<head, clock>> /\ blocks' \subseteq blocks /\ pc' = "idle"
      BY <1>7 DEF ApplyRetention, memVars
    <2>2. HeadData' = HeadData /\ Raw(blocks') \subseteq Raw(blocks)
      BY <2>1 DEF HeadData, Raw
    <2>3. RangeInv'
      BY <2>1, <2>2 DEF RangeInv, HeadPast, BlocksPast, OneOfARange, NoNamesake
    <2> QED BY <1>0, <2>1, <2>2, <2>3 DEF BlocksGo, AppendsOrCompacts
  <1>8. CASE \/ Crash \/ Open \/ ReplayEnd
             \/ \E r \in wal : ReplaySeries(r) \/ ReplaySamples(r)
    BY <1>8 DEF Crash, Open, ReplayEnd, ReplaySeries, ReplaySamples, Up
  <1> QED BY <1>1, <1>2, <1>3, <1>4, <1>5, <1>6, <1>7, <1>8
        DEF Next, WriteRawBlock, WriteRollupBlock, RemovesOld, Renames

\* A step of a process that dies, is down or replays its log.
LEMMA StoppedStep ==
  ASSUME Inv, RangeInv, TypeOK', ~Up \/ ~Up', Next
  PROVE  /\ UNCHANGED <<blocks, clobbered, horizon, clock>>
         /\ Up' => HeadData' = HeadData
         /\ Up => pc' = "down"
         /\ RangeInv'
  <1>0. TypeOK BY DEF Inv, BaseInv
  <1>1. \/ Crash \/ Open \/ ReplayEnd
        \/ \E r \in wal : ReplaySeries(r) \/ ReplaySamples(r)
    <2>1. Up /\ Up' => TRUE OBVIOUS
    <2> QED BY DEF Next, AppendHead, AppendRejected, ReadClock, LogSeries, LogSamples,
          CompactStart, WriteRawBlock, WriteRollupBlock, RemoveOld, Rename, Reset,
          TruncateStart, RemoveSegment, TruncateEnd, ApplyRetention, Up
  <1>2. UNCHANGED <<blocks, clobbered, horizon, clock>> /\ pc' # "renameRaw"
    BY <1>1 DEF Crash, Open, ReplayEnd, ReplaySeries, ReplaySamples, histVars
  <1>3. Up' => HeadData' = HeadData
    BY <1>1 DEF Crash, Open, ReplayEnd, ReplaySeries, ReplaySamples, Up, HeadData
  <1>5. Up => pc' = "down"
    BY <1>1 DEF Crash, Open, ReplayEnd, ReplaySeries, ReplaySamples, Up
  <1>4. HeadPast'
    <2>1. CASE Crash BY <2>1 DEF Crash, EmptyHead, HeadPast
    <2>2. CASE head' = head BY <1>2, <2>2 DEF RangeInv, HeadPast
    <2>3. ASSUME NEW r \in wal, ReplaySeries(r), head' # head PROVE HeadPast'
      <3>1. head' = Register(r.ref, NewSeries(r.lset)) BY <2>3 DEF ReplaySeries
      <3>2. clock \in Nat BY <1>0 DEF TypeOK, Time
      <3> QED BY <1>2, <3>1, <3>2 DEF Register, NewSeries, RangeInv, HeadPast
    <2>4. ASSUME NEW r \in wal, ReplaySamples(r), head' # head PROVE HeadPast'
      <3>1. /\ head' = Register(r.ref, Appended(head[r.ref], r.t, r.lset))
            /\ r.ref \in DOMAIN head
        BY <2>4 DEF ReplaySamples
      <3>2. head[r.ref] \in Series /\ r.t \in Time /\ r.lset \in Lsets
        BY <1>0, <3>1 DEF TypeOK, Record
      <3>3. clock' \in Time /\ clock <= clock' /\ r.t <= clock'
        BY <1>0, <1>2 DEF TypeOK, Time, Inv, TimeInv, ClockInv
      <3> QED BY <1>0, <3>1, <3>2, <3>3, PastRegister DEF RangeInv
    <2> QED BY <1>1, <2>1, <2>2, <2>3, <2>4 DEF Open, ReplayEnd, memVars
  <1> QED BY <1>2, <1>3, <1>4, <1>5 DEF RangeInv, BlocksPast, OneOfARange, NoNamesake

LEMMA RangeInit == Init => RangeInv
  BY DEF Init, EmptyHead, RangeInv, HeadPast, BlocksPast, OneOfARange, NoNamesake, Raw

\* What is given up stays given up, and a raw block gives its samples only to retention,
\* or keeps them in the head, or they count as lost with it.
LEMMA SafeOn ==
  ASSUME TypeOK, NotLater, Next, NEW s \in Samples
  PROVE  /\ Forgotten("raw", s) => Forgotten("raw", s)'
         /\ Safe("raw", s) => Safe("raw", s)' \/ s \in HeadData'
  <1>0. "raw" \in Res BY DEF Res
  <1>1. CASE UNCHANGED <<blocks, clobbered, horizon>>
    BY <1>1 DEF Safe, Forgotten, DataOf
  <1>2. ASSUME NEW res \in Res, NEW at, NEW next, RemoveOld(res, at, next)
        PROVE  /\ Forgotten("raw", s) => Forgotten("raw", s)'
               /\ Safe("raw", s) => Safe("raw", s)' \/ s \in HeadData'
    <2>1. HeadData' = HeadData /\ horizon' = horizon
      BY <1>2 DEF RemoveOld, memVars, HeadData
    <2>2. CASE UNCHANGED <<blocks, clobbered>> BY <1>1, <2>1, <2>2
    <2>3. ASSUME NEW old \in SUBSET blocks, \A b \in old : b.res = res,
                 blocks' = blocks \ old,
                 clobbered' = [clobbered EXCEPT ![res] = @ \cup LostWith(old)]
          PROVE  /\ Forgotten("raw", s) => Forgotten("raw", s)'
                 /\ Safe("raw", s) => Safe("raw", s)' \/ s \in HeadData'
      BY <1>0, <2>1, <2>3, SafeWithoutOld
    <2>4. \A lo, hi : /\ Namesakes(res, lo, hi) \in SUBSET blocks
                      /\ \A b \in Namesakes(res, lo, hi) : b.res = res
      BY DEF Namesakes
    <2> QED BY <1>2, <2>2, <2>3, <2>4 DEF RemoveOld
  <1>3. CASE RemovesOld BY <1>2, <1>3 DEF RemovesOld, Res
  <1>4. CASE Renames
    <2>1. blocks \subseteq blocks' /\ UNCHANGED <<clobbered, horizon>>
      BY <1>4 DEF Renames, Rename, histVars
    <2> QED BY <2>1 DEF Safe, Forgotten, DataOf
  <1>5. CASE ApplyRetention BY <1>0, <1>5, RetentionSafe
  <1>6. CASE \/ \E l \in Lsets, t \in Time : AppendHead(l, t) \/ AppendRejected(l, t)
             \/ LogSeries \/ LogSamples \/ (\E t \in Time : CompactStart(t))
             \/ Reset \/ TruncateStart \/ RemoveSegment \/ TruncateEnd
             \/ Crash \/ Open \/ ReplayEnd
             \/ \E r \in wal : ReplaySeries(r) \/ ReplaySamples(r)
    <2>1. UNCHANGED <<blocks, clobbered, horizon>>
      BY <1>6 DEF AppendHead, AppendRejected, LogSeries, LogSamples, CompactStart, Reset,
         TruncateStart, RemoveSegment, TruncateEnd, Crash, Open, ReplayEnd, ReplaySeries,
         ReplaySamples, histVars
    <2> QED BY <1>1, <2>1
  <1> QED BY <1>3, <1>4, <1>5, <1>6
        DEF Next, WriteRawBlock, WriteRollupBlock, RemovesOld, Renames

Held(s) == Safe("raw", s) \/ s \in HeadData

\* What the running process has of a raw sample, it keeps until it is killed.
LEMMA HeldOn ==
  ASSUME HeldInv, Next, AppendsOrCompacts, NEW s \in Samples
  PROVE  Held(s) => Held(s)'
  <1>1. TypeOK /\ NotLater BY DEF HeldInv
  <1>2. Safe("raw", s) => Held(s)' BY <1>1, SafeOn DEF Held
  <1>3. CASE HeadData \subseteq HeadData' BY <1>2, <1>3 DEF Held
  <1>4. CASE HeadGoes
    <2>1. s \in HeadData => Safe("raw", s) BY <1>4 DEF HeadGoes, HeldInv, RawWritten
    <2> QED BY <1>2, <2>1 DEF Held
  <1> QED BY <1>3, <1>4 DEF AppendsOrCompacts, HeadGrows, BlockComes, BlocksGo

-----------------------------------------------------------------------------
(* The samples scraped since the process started. Between two calls of the  *)
(* write path the head is later than every raw block, or the block has it.  *)

Fresh(s) == qstart < s.t

\* The head goes on where a raw block ends ...
FreshHead ==
  \A b \in Raw(blocks) : \A s \in HeadData : Fresh(s) => s \in b.data \/ b.maxT <= s.t

\* ... and what is not in the head any more went with all that came before it.
FreshGone ==
  \A b \in Raw(blocks) : \A s \in b.data : Fresh(s) =>
    s \in HeadData \/ \A x \in HeadData : b.maxT <= x.t

\* No block that comes first hides a sample it does not have.
FreshOrder ==
  \A b, c \in Raw(blocks) : Before(b, c) =>
    \A s \in c.data : \A f \in b.data : Fresh(s) /\ Beyond(f, s) => s \in b.data

FreshFaith ==
  /\ \A s \in HeadData : Fresh(s) => s.v = s.lset
  /\ \A b \in Raw(blocks) : \A s \in b.data : Fresh(s) => s.v = s.lset

FreshInv ==
  /\ qstart \in Time /\ qstart <= clock /\ (~Up => qstart = clock)
  /\ FreshHead /\ FreshGone /\ FreshOrder /\ FreshFaith

LEMMA RawFacts ==
  ASSUME Inv, RangeInv
  PROVE  /\ clock \in Nat
         /\ \A b \in Raw(blocks) :
              /\ b.minT \in Nat /\ b.maxT \in Nat /\ b.maxT <= clock
              /\ \A s \in b.data :
                   s \in Samples /\ s.t \in Nat /\ b.minT <= s.t /\ s.t <= b.maxT
         /\ \A s \in HeadData : s \in Samples /\ s.t \in Nat /\ s.t <= clock
  <1>1. TypeOK /\ clock \in Nat BY DEF Inv, BaseInv, TypeOK, Time
  <1>2. ASSUME NEW b \in Raw(blocks)
        PROVE  /\ b.minT \in Nat /\ b.maxT \in Nat /\ b.maxT <= clock
               /\ \A s \in b.data :
                    s \in Samples /\ s.t \in Nat /\ b.minT <= s.t /\ s.t <= b.maxT
    <2>1. b \in Block /\ b \in blocks /\ b.res = "raw" BY <1>1 DEF TypeOK, Raw
    <2>2. b.minT \in Nat /\ b.maxT \in Nat /\ b.data \subseteq Samples
      BY <2>1 DEF Block, Time
    <2>3. \A s \in b.data : b.minT <= s.t /\ s.t <= b.maxT
      BY <2>1 DEF Inv, TimeInv, BlockRange, StoredAt
    <2>4. b.maxT <= clock BY DEF RangeInv, BlocksPast
    <2> QED BY <2>2, <2>3, <2>4 DEF Samples, Time
  <1>3. ASSUME NEW s \in HeadData PROVE s \in Samples /\ s.t \in Nat /\ s.t <= clock
    <2>1. s \in Samples /\ s.t \in Nat BY <1>1, HeadDataType DEF Samples, Time
    <2>2. PICK r \in DOMAIN head : s \in head[r].data BY DEF HeadData
    <2>3. s.t <= head[r].maxT /\ head[r].maxT <= clock /\ head[r].maxT \in Nat
      BY <1>1, <2>2 DEF Inv, TimeInv, SeriesRange, RangeInv, HeadPast, TypeOK, Series, Time
    <2> QED BY <1>1, <2>1, <2>3
  <1> QED BY <1>1, <1>2, <1>3

\* A process that has just started has no such sample.
LEMMA NothingFresh == Inv /\ RangeInv /\ qstart = clock => FreshInv
  <1> SUFFICES ASSUME Inv, RangeInv, qstart = clock PROVE FreshInv OBVIOUS
  <1>1. clock \in Time BY DEF Inv, BaseInv, TypeOK
  <1>2. \A s \in HeadData : ~Fresh(s) BY RawFacts DEF Fresh
  <1>3. \A b \in Raw(blocks) : \A s \in b.data : ~Fresh(s) BY RawFacts DEF Fresh
  <1>4. clock <= clock BY RawFacts
  <1> QED BY <1>1, <1>2, <1>3, <1>4
        DEF FreshInv, FreshHead, FreshGone, FreshOrder, FreshFaith

LEMMA FreshGrows ==
  ASSUME Inv, RangeInv, Inv', FreshInv, HeadGrows, clock <= clock', qstart' = qstart, Up'
  PROVE  FreshInv'
  <1>1. PICK x \in Samples :
          HeadData' = HeadData \cup {x} /\ x.t = clock' /\ x.v = x.lset
    BY DEF HeadGrows
  <1>2. Raw(blocks') = Raw(blocks) BY DEF HeadGrows
  <1>3. clock \in Nat /\ clock' \in Nat /\ qstart \in Nat
    BY DEF Inv, BaseInv, TypeOK, FreshInv, Time
  <1>4. \A s : Fresh(s)' <=> Fresh(s) BY DEF Fresh
  <1>5. \A b \in Raw(blocks) : b.maxT <= clock' BY <1>3, RawFacts
  <1>6. FreshHead' BY <1>1, <1>2, <1>4, <1>5 DEF FreshInv, FreshHead
  <1>7. FreshGone' BY <1>1, <1>2, <1>4, <1>5 DEF FreshInv, FreshGone
  <1>8. FreshOrder' BY <1>2, <1>4 DEF FreshInv, FreshOrder
  <1>9. FreshFaith' BY <1>1, <1>2, <1>4 DEF FreshInv, FreshFaith
  <1> QED BY <1>3, <1>6, <1>7, <1>8, <1>9 DEF FreshInv

LEMMA FreshBlock ==
  ASSUME Inv, RangeInv, FreshInv, BlockComes, clock' \in Nat, clock <= clock',
         qstart' = qstart, Up'
  PROVE  FreshInv'
  <1>1. /\ HeadData' = HeadData /\ qstart' <= clock'
        /\ \A s : Fresh(s)' <=> Fresh(s)
    BY RawFacts DEF BlockComes, Fresh, FreshInv, Time
  <1>2. PICK n \in Block :
          /\ Raw(blocks') = Raw(blocks) \cup {n}
          /\ n.data = HeadData
          /\ \A x \in HeadData : n.minT <= x.t /\ x.t <= n.maxT
          /\ \E x \in HeadData : x.t = n.minT
    BY DEF BlockComes
  <1>3. n.minT \in Nat /\ n.maxT \in Nat BY DEF Block, Time
  <1>4. FreshHead' BY <1>1, <1>2 DEF FreshInv, FreshHead
  <1>5. FreshGone' BY <1>1, <1>2 DEF FreshInv, FreshGone
  <1>6. FreshFaith' BY <1>1, <1>2 DEF FreshInv, FreshFaith
  <1>7. ASSUME NEW c \in Raw(blocks), Before(n, c), NEW s \in c.data, NEW f \in HeadData,
               Fresh(s), Beyond(f, s)
        PROVE  s \in HeadData
    <2> SUFFICES ASSUME s \notin HeadData PROVE FALSE OBVIOUS
    <2>1. PICK x \in HeadData : x.t = n.minT BY <1>2
    <2>2. c.maxT <= x.t /\ c.maxT <= f.t BY <1>7, <2>1 DEF FreshInv, FreshGone
    <2>3. /\ c.minT \in Nat /\ c.maxT \in Nat /\ s.t \in Nat /\ f.t \in Nat
          /\ c.minT <= s.t /\ s.t <= c.maxT
      BY RawFacts
    <2>4. f.t <= n.maxT BY <1>2
    <2> QED BY <1>3, <1>7, <2>1, <2>2, <2>3, <2>4 DEF Before, Beyond
  <1>8. ASSUME NEW b \in Raw(blocks), NEW s \in HeadData, NEW f \in b.data,
               Fresh(s), Beyond(f, s)
        PROVE  s \in b.data
    <2>1. s \in b.data \/ b.maxT <= s.t BY <1>8 DEF FreshInv, FreshHead
    <2>2. f.t <= b.maxT /\ f.t \in Nat /\ b.maxT \in Nat /\ s.t \in Nat BY RawFacts
    <2> QED BY <1>8, <2>1, <2>2 DEF Beyond
  <1>9. FreshOrder' BY <1>1, <1>2, <1>7, <1>8 DEF FreshInv, FreshOrder
  <1> QED BY <1>1, <1>4, <1>5, <1>6, <1>9 DEF FreshInv

LEMMA FreshStep ==
  ASSUME MonotoneClock, Inv, HeldInv, RangeInv, Inv', RangeInv', FreshInv, WritePathStep
  PROVE  FreshInv'
  <1>1. Next /\ TypeOK' /\ TypeOK BY DEF WritePathStep, Inv, BaseInv
  <1>2. CASE ~Up \/ ~Up'
    <2>1. clock' = clock /\ (Up => pc' = "down") BY <1>1, <1>2, StoppedStep
    <2>2. qstart' = clock' BY <1>2, <2>1 DEF WritePathStep, FreshInv
    <2>3. (Inv /\ RangeInv /\ qstart = clock => FreshInv)' BY NothingFresh, PTL
    <2> QED BY <2>2, <2>3
  <1>3. CASE Up /\ Up'
    <2>1. AppendsOrCompacts /\ clock <= clock' BY <1>1, <1>3, RunningStep
    <2>2. qstart' = qstart BY <1>3 DEF WritePathStep, Up
    <2>3. clock \in Nat /\ clock' \in Nat /\ qstart \in Nat /\ qstart <= clock
      BY <1>1 DEF TypeOK, FreshInv, Time
    <2>4. CASE HeadGrows BY <1>3, <2>1, <2>2, <2>4, FreshGrows
    <2>5. CASE BlockComes BY <1>3, <2>1, <2>2, <2>3, <2>5, FreshBlock
    <2>6. CASE BlocksGo \/ HeadGoes
      <3>1. /\ HeadData' = HeadData \/ HeadData' = {}
            /\ HeadData' \subseteq HeadData
            /\ Raw(blocks') \subseteq Raw(blocks)
        BY <2>6 DEF BlocksGo, HeadGoes
      <3>2. \A s : Fresh(s)' <=> Fresh(s) BY <2>2 DEF Fresh
      <3>3. FreshHead' /\ FreshGone'
        BY <3>1, <3>2 DEF FreshInv, FreshHead, FreshGone
      <3>4. FreshOrder' /\ FreshFaith'
        BY <3>1, <3>2 DEF FreshInv, FreshOrder, FreshFaith
      <3> QED BY <1>3, <2>1, <2>2, <2>3, <3>3, <3>4 DEF FreshInv
    <2> QED BY <2>1, <2>4, <2>5, <2>6 DEF AppendsOrCompacts
  <1> QED BY <1>2, <1>3

-----------------------------------------------------------------------------
(* The reader of these samples.                                             *)

FreshHeld(s) == Fresh(s) => s.v = s.lset /\ Held(s)

\* What the reader has opened covers the samples as the blocks did when it did so, and
\* with the head what was seen before, as long as Compact has not emptied the head.
OpenedFresh ==
  /\ qblocks \subseteq Block
  /\ \A b, c \in Raw(qblocks) : b.minT = c.minT /\ b.maxT = c.maxT => b = c
  /\ \A b \in Raw(qblocks) :
       /\ b.maxT <= clock
       /\ \A s \in b.data : s.t <= b.maxT /\ FreshHeld(s)
       /\ \A s \in HeadData : Fresh(s) => s \in b.data \/ b.maxT <= s.t
  /\ \A b, c \in Raw(qblocks) : Before(b, c) =>
       \A s \in c.data : \A f \in b.data : Fresh(s) /\ Beyond(f, s) => s \in b.data
  /\ ~qreset => \A s \in qseen : InWindow(s.t) /\ ~Forgotten("raw", s) =>
                  s \in HeadData \/ \E b \in Raw(qblocks) : s \in b.data

SeenHeld == \A s \in qseen : s \in Samples /\ Fresh(s) /\ FreshHeld(s)

ReadHeld ==
  \A e \in qresult : e.res = "raw" => \A s \in e.of : s \in Samples /\ FreshHeld(s)

ReaderInv ==
  /\ qmaxt \in Nat
  /\ ~Up => qpc = "none" /\ qseen = {}
  /\ SeenHeld
  /\ qpc = "open" => OpenedFresh
  /\ qpc = "read" => ReadHeld
  /\ RepeatableRead

\* A reader opens the blocks that have a sample of its window.
LEMMA OpensWhatItHolds ==
  ASSUME Inv, RangeInv, NEW t \in Time, OpenQuerier(t),
         NEW s, InWindow(s.t)', ~Forgotten("raw", s), Held(s)
  PROVE  s \in HeadData \/ \E b \in Raw(qblocks') : s \in b.data
  <1>1. qmaxt' = t /\ qblocks' = {b \in blocks : Overlaps(b, t)} BY DEF OpenQuerier
  <1>2. t \in Nat BY DEF Time
  <1>3. ASSUME NEW b \in Raw(blocks), s \in b.data PROVE b \in Raw(qblocks')
    <2>1. b.minT <= s.t /\ s.t <= b.maxT /\ s.t \in Nat /\ b.minT \in Nat /\ b.maxT \in Nat
      BY <1>3, RawFacts
    <2>2. t - Lookback <= s.t /\ s.t <= t BY <1>1 DEF InWindow, qmint
    <2>3. Overlaps(b, t) BY <1>2, <2>1, <2>2, QueryAssumption DEF Overlaps
    <2> QED BY <1>1, <2>3 DEF Raw
  <1> QED BY <1>3 DEF Held, Safe, DataOf, Raw

\* Nothing hides a sample scraped since the process started.
LEMMA FreshEmitted ==
  ASSUME Inv, RangeInv, FreshInv, OpenedFresh, qmaxt \in Nat, Select,
         NEW s \in Samples, Fresh(s), s.v = s.lset, InWindow(s.t),
         s \in HeadData \/ \E b \in Raw(qblocks) : s \in b.data
  PROVE  Emitted(s)'
  <1>1. \A x \in Samples : x.lset = s.lset /\ x.t = s.t /\ x.v = s.v => x = s
    BY DEF Samples
  <1>2. qblocks \subseteq Block /\ HeadData \subseteq Samples
    BY RawFacts DEF OpenedFresh
  <1>3. \A x \in HeadData : x.lset = s.lset /\ x.t = s.t => x = s
    <2>1. \A x \in HeadData : Fresh(x) => x.v = x.lset BY DEF FreshInv, FreshFaith
    <2> QED BY <1>1, <1>2, <2>1 DEF Fresh
  <1>4. \A b \in Raw(qblocks) : \A x \in b.data : x.lset = s.lset /\ x.t = s.t => x = s
    <2>1. \A b \in Raw(qblocks) : b.data \subseteq Samples BY <1>2 DEF Raw, Block
    <2>2. \A b \in Raw(qblocks) : \A x \in b.data : Fresh(x) => x.v = x.lset
      BY DEF OpenedFresh, FreshHeld
    <2> QED BY <1>1, <2>1, <2>2 DEF Fresh
  <1>5. ASSUME NEW b \in Raw(qblocks), NEW f \in b.data, s \in HeadData, Beyond(f, s)
        PROVE  s \in b.data
    <2>1. s \in b.data \/ b.maxT <= s.t BY <1>5 DEF OpenedFresh
    <2>2. f.t <= b.maxT BY DEF OpenedFresh
    <2>3. f.t \in Nat /\ s.t \in Nat /\ b.maxT \in Nat
      BY <1>2 DEF Raw, Block, Samples, Time
    <2> QED BY <1>5, <2>1, <2>2, <2>3 DEF Beyond
  <1>6. ASSUME NEW b \in Raw(qblocks), NEW c \in Raw(qblocks), Before(b, c), s \in c.data,
               NEW f \in b.data, Beyond(f, s)
        PROVE  \E d \in Raw(qblocks) : s \in d.data /\ Before(d, b)
    <2>1. s \in b.data BY <1>6 DEF OpenedFresh
    <2>2. b.maxT \in Nat BY <1>2 DEF Raw, Block, Time
    <2>3. Before(b, b) BY <2>2 DEF Before
    <2> QED BY <2>1, <2>3
  <1>7. \A b, c \in Raw(qblocks) : b.minT = c.minT /\ b.maxT = c.maxT => b = c
    BY DEF OpenedFresh
  <1> QED BY <1>2, <1>3, <1>4, <1>5, <1>6, <1>7, Emits

LEMMA ReaderOpens ==
  ASSUME Inv, RangeInv, FreshInv, ReaderInv, NEW t \in Time, OpenQuerier(t)
  PROVE  ReaderInv'
  <1>1. /\ pc = "idle" /\ qpc' = "open" /\ qmaxt' = t
        /\ qblocks' = {b \in blocks : Overlaps(b, t)}
        /\ UNCHANGED <<vars, qstart, qseen>>
    BY DEF OpenQuerier
  <1>2. /\ UNCHANGED <<head, pc, blocks, clobbered, horizon, clock>>
    BY <1>1 DEF vars, memVars, histVars
  <1>3. /\ HeadData' = HeadData /\ Up /\ Up'
        /\ \A s : (Fresh(s)' <=> Fresh(s)) /\ (Held(s)' <=> Held(s))
                  /\ (FreshHeld(s)' <=> FreshHeld(s))
                  /\ (Forgotten("raw", s)' <=> Forgotten("raw", s))
    BY <1>1, <1>2 DEF HeadData, Up, Fresh, Held, FreshHeld, Safe, Forgotten, DataOf
  <1>4. Raw(qblocks') \subseteq Raw(blocks) /\ qblocks' \subseteq blocks BY <1>1 DEF Raw
  <1>5. t \in Nat /\ blocks \subseteq Block BY DEF Inv, BaseInv, TypeOK, Time
  <1>6. ASSUME NEW b \in Raw(blocks), NEW s \in b.data
        PROVE  s.t <= b.maxT /\ FreshHeld(s)
    <2>1. Held(s) BY DEF Held, Safe, DataOf, Raw
    <2> QED BY <2>1, RawFacts DEF FreshHeld, FreshInv, FreshFaith
  <1>7. ASSUME NEW s \in qseen, InWindow(s.t)', ~Forgotten("raw", s)
        PROVE  s \in HeadData \/ \E b \in Raw(qblocks') : s \in b.data
    <2>1. Held(s) BY DEF ReaderInv, SeenHeld, FreshHeld
    <2> QED BY <1>7, <2>1, OpensWhatItHolds
  <1>8. OpenedFresh'
    <2>1. \A b \in Raw(qblocks') : b.maxT <= clock BY <1>4 DEF RangeInv, BlocksPast
    <2>2. \A b, c \in Raw(qblocks') : b.minT = c.minT /\ b.maxT = c.maxT => b = c
      BY <1>4 DEF RangeInv, OneOfARange
    <2>3. \A b \in Raw(qblocks') : \A s \in HeadData : Fresh(s) => s \in b.data \/ b.maxT <= s.t
      BY <1>4 DEF FreshInv, FreshHead
    <2>4. \A b, c \in Raw(qblocks') : Before(b, c) =>
            \A s \in c.data : \A f \in b.data : Fresh(s) /\ Beyond(f, s) => s \in b.data
      BY <1>4 DEF FreshInv, FreshOrder
    <2>5. \A b \in Raw(qblocks') : \A s \in b.data : s.t <= b.maxT /\ FreshHeld(s)
      BY <1>4, <1>6
    <2> QED BY <1>1, <1>2, <1>3, <1>4, <1>5, <1>7, <2>1, <2>2, <2>3, <2>4, <2>5
          DEF OpenedFresh
  <1>9. SeenHeld' BY <1>1, <1>3 DEF ReaderInv, SeenHeld
  <1> QED BY <1>1, <1>3, <1>5, <1>8, <1>9 DEF ReaderInv, RepeatableRead

LEMMA ReaderSelects ==
  ASSUME Inv, RangeInv, FreshInv, ReaderInv, Select
  PROVE  ReaderInv'
  <1>1. /\ qpc = "open" /\ qpc' = "read"
        /\ UNCHANGED <<vars, qmaxt, qblocks, qstart, qseen, qreset>>
    BY DEF Select
  <1>2. UNCHANGED <<head, pc, blocks, clobbered, horizon, clock>>
    BY <1>1 DEF vars, memVars, histVars
  <1>3. /\ Up /\ Up'
        /\ \A s : (Fresh(s)' <=> Fresh(s)) /\ (FreshHeld(s)' <=> FreshHeld(s))
                  /\ (Forgotten("raw", s)' <=> Forgotten("raw", s))
                  /\ (InWindow(s.t)' <=> InWindow(s.t))
    BY <1>1, <1>2 DEF HeadData, Up, Fresh, Held, FreshHeld, Safe, Forgotten, DataOf,
       InWindow, qmint, ReaderInv
  <1>4. OpenedFresh /\ SeenHeld /\ qmaxt \in Nat BY <1>1 DEF ReaderInv
  <1>5. ReadHeld'
    <2> SUFFICES ASSUME NEW e \in qresult', e.res = "raw", NEW s \in e.of
                 PROVE  s \in Samples /\ FreshHeld(s)
      BY <1>3 DEF ReadHeld
    <2>1. CASE s \in HeadData
      BY <2>1, RawFacts DEF FreshHeld, FreshInv, FreshFaith, Held
    <2>2. ASSUME NEW b \in Raw(qblocks), s \in b.data PROVE s \in Samples /\ FreshHeld(s)
      BY <1>4, <2>2 DEF OpenedFresh, Raw, Block
    <2> QED BY <2>1, <2>2, EmitsWhatIsThere
  <1>6. ASSUME ~qreset, NEW s \in qseen, InWindow(s.t), ~Forgotten("raw", s)
        PROVE  Emitted(s)'
    <2>1. s \in Samples /\ Fresh(s) /\ s.v = s.lset
      BY <1>4 DEF SeenHeld, FreshHeld
    <2>2. s \in HeadData \/ \E b \in Raw(qblocks) : s \in b.data
      BY <1>4, <1>6 DEF OpenedFresh
    <2> QED BY <1>4, <1>6, <2>1, <2>2, FreshEmitted
  <1>7. RepeatableRead' BY <1>1, <1>3, <1>6 DEF RepeatableRead
  <1>8. SeenHeld' BY <1>1, <1>3, <1>4 DEF SeenHeld
  <1> QED BY <1>1, <1>3, <1>4, <1>5, <1>7, <1>8 DEF ReaderInv

LEMMA ReaderCloses ==
  ASSUME ReaderInv, CloseQuerier
  PROVE  ReaderInv'
  <1>1. /\ qpc = "read" /\ qpc' = "none"
        /\ UNCHANGED <<vars, qmaxt, qstart>>
    BY DEF CloseQuerier
  <1>2. UNCHANGED <<head, pc, blocks, clobbered, horizon>>
    BY <1>1 DEF vars, memVars, histVars
  <1>3. /\ Up /\ Up'
        /\ \A s : (Fresh(s)' <=> Fresh(s)) /\ (FreshHeld(s)' <=> FreshHeld(s))
    BY <1>1, <1>2 DEF HeadData, Up, Fresh, Held, FreshHeld, Safe, Forgotten, DataOf,
       ReaderInv
  <1>4. \A s \in qseen' : s \in qseen \/ (Fresh(s) /\ \E e \in qresult : e.res = "raw" /\ s \in e.of)
    BY DEF CloseQuerier, Fresh
  <1>5. SeenHeld' BY <1>1, <1>3, <1>4 DEF ReaderInv, SeenHeld, ReadHeld
  <1> QED BY <1>1, <1>3, <1>5 DEF ReaderInv, RepeatableRead

\* Beside a step of the write path the head goes on at the clock, or the reader knows
\* that Compact emptied it.
LEMMA ReaderBeside ==
  ASSUME MonotoneClock, Inv, HeldInv, RangeInv, FreshInv, TypeOK', ReaderInv,
         WritePathStep
  PROVE  ReaderInv'
  <1>1. Next /\ UNCHANGED qmaxt /\ TypeOK /\ NotLater
    BY DEF WritePathStep, HeldInv
  <1>2. CASE pc' = "down"
    <2>1. qpc' = "none" /\ qseen' = {} BY <1>2 DEF WritePathStep
    <2> QED BY <1>1, <2>1 DEF ReaderInv, SeenHeld, RepeatableRead
  <1>3. CASE pc' # "down" /\ (~Up \/ ~Up')
    <2>1. ~Up BY <1>1, <1>3, StoppedStep
    <2>2. qpc' = "none" /\ qseen' = {} BY <1>3, <2>1 DEF WritePathStep, ReaderInv
    <2> QED BY <1>1, <2>2 DEF ReaderInv, SeenHeld, RepeatableRead
  <1>4. CASE Up /\ Up'
    <2>1. AppendsOrCompacts /\ clock <= clock' BY <1>1, <1>4, RunningStep
    <2>2. /\ UNCHANGED <<qpc, qblocks, qresult, qstart, qseen>>
          /\ qreset' = (qreset \/ (qpc = "open" /\ pc = "reset"))
      BY <1>4 DEF WritePathStep, Up
    <2>3. \A s : (Fresh(s)' <=> Fresh(s)) /\ (InWindow(s.t)' <=> InWindow(s.t))
                 /\ (Emitted(s)' <=> Emitted(s))
      BY <1>1, <2>2 DEF Fresh, InWindow, qmint, Emitted
    <2>4. \A s \in Samples : (Held(s) => Held(s)')
                             /\ (Forgotten("raw", s) => Forgotten("raw", s)')
      BY <1>1, <2>1, HeldOn, SafeOn
    <2>5. \A s \in Samples : FreshHeld(s) => FreshHeld(s)' BY <2>3, <2>4 DEF FreshHeld
    <2>6. SeenHeld' BY <2>2, <2>3, <2>5 DEF ReaderInv, SeenHeld
    <2>7. qpc = "read" => ReadHeld' BY <2>2, <2>5 DEF ReaderInv, ReadHeld
    <2>8. RepeatableRead'
      BY <2>2, <2>3, <2>4 DEF ReaderInv, SeenHeld, RepeatableRead
    <2>9. ASSUME qpc = "open" PROVE OpenedFresh'
      <3>1. OpenedFresh /\ SeenHeld BY <2>9 DEF ReaderInv
      <3>2. /\ clock \in Nat /\ clock' \in Nat
            /\ \A b \in Raw(qblocks) : b.maxT \in Nat /\ b.data \subseteq Samples
        BY <1>1, <3>1 DEF TypeOK, OpenedFresh, Raw, Block, Time
      <3>3. \A x \in HeadData' : x \in HeadData \/ x.t = clock'
        BY <2>1 DEF AppendsOrCompacts, HeadGrows, BlockComes, BlocksGo, HeadGoes
      <3>4. \A b \in Raw(qblocks) :
              /\ b.maxT <= clock'
              /\ \A s \in b.data : s.t <= b.maxT /\ FreshHeld(s)'
        <4>1. \A b \in Raw(qblocks) :
                b.maxT <= clock /\ \A s \in b.data : s.t <= b.maxT /\ FreshHeld(s)
          BY <3>1 DEF OpenedFresh
        <4> QED BY <2>1, <2>5, <3>2, <4>1
      <3>5. ASSUME NEW b \in Raw(qblocks), NEW s \in HeadData', Fresh(s)
            PROVE  s \in b.data \/ b.maxT <= s.t
        <4>1. CASE s \in HeadData BY <3>1, <3>5, <4>1 DEF OpenedFresh
        <4>2. CASE s.t = clock' BY <3>4, <4>2
        <4> QED BY <3>3, <4>1, <4>2
      <3>6. ASSUME ~qreset', NEW s \in qseen, InWindow(s.t), ~Forgotten("raw", s)'
            PROVE  s \in HeadData' \/ \E b \in Raw(qblocks) : s \in b.data
        <4>1. ~qreset /\ pc # "reset" BY <2>2, <2>9, <3>6
        <4>2. HeadData \subseteq HeadData'
          BY <2>1, <4>1 DEF AppendsOrCompacts, HeadGrows, BlockComes, BlocksGo, HeadGoes
        <4>3. s \in Samples /\ ~Forgotten("raw", s) BY <2>4, <3>1, <3>6 DEF SeenHeld
        <4>4. s \in HeadData \/ \E b \in Raw(qblocks) : s \in b.data
          BY <3>1, <3>6, <4>1, <4>3 DEF OpenedFresh
        <4> QED BY <4>2, <4>4
      <3>7. /\ qblocks' \subseteq Block
            /\ \A b, c \in Raw(qblocks') : b.minT = c.minT /\ b.maxT = c.maxT => b = c
            /\ \A b, c \in Raw(qblocks') : Before(b, c) =>
                 \A s \in c.data : \A f \in b.data : Fresh(s)' /\ Beyond(f, s) => s \in b.data
        BY <2>2, <2>3, <3>1 DEF OpenedFresh
      <3> QED BY <2>2, <2>3, <3>4, <3>5, <3>6, <3>7 DEF OpenedFresh
    <2> QED BY <1>1, <1>4, <2>2, <2>6, <2>7, <2>8, <2>9 DEF ReaderInv
  <1> QED BY <1>2, <1>3, <1>4

\* What the state is when nothing changes.
LEMMA ReaderStutters ==
  ASSUME FreshInv, ReaderInv, UNCHANGED <<vars, qvars>>
  PROVE  FreshInv' /\ ReaderInv'
  <1>1. UNCHANGED <<head, pc, blocks, clobbered, horizon, clock>>
    BY DEF vars, memVars, histVars
  <1>2. UNCHANGED <<qpc, qmaxt, qblocks, qresult, qacked, qstart, qseen, qreset>>
    BY DEF qvars
  <1>3. HeadData' = HeadData /\ (Up <=> Up')
        /\ \A s : (Fresh(s)' <=> Fresh(s)) /\ (FreshHeld(s)' <=> FreshHeld(s))
                  /\ (Forgotten("raw", s)' <=> Forgotten("raw", s))
                  /\ (InWindow(s.t)' <=> InWindow(s.t)) /\ (Emitted(s)' <=> Emitted(s))
    BY <1>1, <1>2 DEF HeadData, Up, Fresh, Held, FreshHeld, Safe, Forgotten, DataOf,
       InWindow, qmint, Emitted
  <1>4. FreshInv'
    BY <1>1, <1>2, <1>3 DEF FreshInv, FreshHead, FreshGone, FreshOrder, FreshFaith
  <1>5. SeenHeld' <=> SeenHeld BY <1>2, <1>3 DEF SeenHeld
  <1>6. ReadHeld' <=> ReadHeld BY <1>2, <1>3 DEF ReadHeld
  <1>7. OpenedFresh => OpenedFresh' BY <1>1, <1>2, <1>3 DEF OpenedFresh
  <1>8. RepeatableRead' BY <1>2, <1>3 DEF ReaderInv, RepeatableRead
  <1> QED BY <1>2, <1>3, <1>4, <1>5, <1>6, <1>7, <1>8 DEF ReaderInv

LEMMA WritePathBeside == QSpec => Spec
  <1>1. QInit => Init BY DEF QInit
  <1>2. [QNext]_<<vars, qvars>> => [Next]_vars
    BY DEF QNext, WritePathStep, OpenQuerier, Select, CloseQuerier
  <1> QED BY <1>1, <1>2, PTL DEF QSpec, Spec

RangesInv == Inv /\ HeldInv /\ RangeInv

LEMMA RangesInvariant == Spec => []RangesInv
  <1>1. MonotoneClock BY QueryAssumption DEF MonotoneClock
  <1>2. Init => RangesInv
    BY BaseInit, TimeInit, HeldInit, RangeInit DEF Inv, RangesInv
  <1>3. ASSUME RangesInv, [Next]_vars PROVE RangesInv'
    <2>1. TypeOK' /\ Inv' /\ HeldInv'
      BY <1>1, <1>3, BaseStep, TimeStep, HeldStep DEF RangesInv, Inv, BaseInv
    <2>2. CASE Next
      BY <1>1, <1>3, <2>1, <2>2, RunningStep, StoppedStep DEF RangesInv
    <2>3. CASE UNCHANGED vars
      <3>1. UNCHANGED <<head, pc, blocks, clock>> BY <2>3 DEF vars, memVars
      <3>2. RangeInv BY <1>3 DEF RangesInv
      <3>3. RangeInv'
        BY <3>1, <3>2 DEF RangeInv, HeadPast, BlocksPast, OneOfARange, NoNamesake, SpansHead,
           Filled
      <3> QED BY <2>1, <3>3 DEF RangesInv
    <2> QED BY <1>3, <2>1, <2>2, <2>3 DEF RangesInv
  <1> QED BY <1>2, <1>3, PTL DEF Spec

FreshReaderInv == RangesInv /\ FreshInv /\ ReaderInv

LEMMA ReaderInvariant == QSpec => []FreshReaderInv
  <1>1. QInit => FreshInv /\ ReaderInv
    <2> SUFFICES ASSUME QInit PROVE FreshInv /\ ReaderInv OBVIOUS
    <2>1. /\ qstart = 0 /\ clock = 0 /\ pc = "idle" /\ DOMAIN head = {} /\ blocks = {}
          /\ qpc = "none" /\ qmaxt = 0 /\ qseen = {}
      BY DEF QInit, Init, EmptyHead
    <2>2. HeadData = {} /\ Raw(blocks) = {} BY <2>1 DEF HeadData, Raw
    <2>3. 0 \in Time BY ConstantsAssumption DEF Time
    <2> QED BY <2>1, <2>2, <2>3 DEF FreshInv, FreshHead, FreshGone, FreshOrder, FreshFaith,
          ReaderInv, SeenHeld, RepeatableRead, Up
  <1>2. ASSUME RangesInv, RangesInv', FreshInv, ReaderInv, [QNext]_<<vars, qvars>>
        PROVE  FreshInv' /\ ReaderInv'
    <2>1. MonotoneClock BY QueryAssumption DEF MonotoneClock
    <2>2. Inv /\ HeldInv /\ RangeInv /\ Inv' /\ RangeInv' /\ TypeOK'
      BY <1>2 DEF RangesInv, Inv, BaseInv
    <2>3. CASE WritePathStep BY <1>2, <2>1, <2>2, <2>3, FreshStep, ReaderBeside
    <2>4. ASSUME UNCHANGED <<vars, qstart>> PROVE FreshInv'
      <3>1. UNCHANGED <<head, pc, blocks, clock, qstart>> BY <2>4 DEF vars, memVars
      <3>2. HeadData' = HeadData BY <3>1 DEF HeadData
      <3> QED BY <1>2, <3>1, <3>2 DEF FreshInv, FreshHead, FreshGone, FreshOrder,
            FreshFaith, Fresh, Up
    <2>5. ASSUME NEW t \in Time, OpenQuerier(t) PROVE FreshInv' /\ ReaderInv'
      BY <1>2, <2>2, <2>4, <2>5, ReaderOpens DEF OpenQuerier
    <2>6. CASE Select BY <1>2, <2>2, <2>4, <2>6, ReaderSelects DEF Select
    <2>7. CASE CloseQuerier BY <1>2, <2>4, <2>7, ReaderCloses DEF CloseQuerier
    <2>8. CASE UNCHANGED <<vars, qvars>> BY <1>2, <2>8, ReaderStutters
    <2> QED BY <1>2, <2>3, <2>5, <2>6, <2>7, <2>8 DEF QNext
  <1> QED BY <1>1, <1>2, WritePathBeside, RangesInvariant, PTL DEF QSpec, FreshReaderInv

\* THEOREM: what a reader has seen of the samples scraped since the process started, the
\* next one of the same process sees again, in whichever of the blocks and the head it
\* is by then, also when a write, a rename or a removal has failed in between, unless
\* Compact empties the head between its Querier and its Select.
THEOREM ReadsAreRepeatable == QSpec => []RepeatableRead
  <1>1. FreshReaderInv => RepeatableRead BY DEF FreshReaderInv, ReaderInv
  <1> QED BY <1>1, ReaderInvariant, PTL

-----------------------------------------------------------------------------
(* What of it was acknowledged, under every fault but a clock that steps    *)
(* back: also after a failed rotation or truncation, which QueryComplete    *)
(* does not survive.                                                        *)

\* An acknowledged sample scraped since the process started is still at hand.
FreshAcked == \A s \in acked : s.v = s.lset /\ s.t <= clock /\ (Fresh(s) => Held(s))

\* Append acknowledges what it has put into the head.
LEMMA AckedInHead ==
  ASSUME HeldInv, TypeOK', Next
  PROVE  \A s \in acked' : s \in acked \/ (s.v = s.lset /\ s \in HeadData /\ s \in HeadData')
  <1>1. CASE LogSeries \/ LogSamples
    <2>1. Appending /\ HeadData' = HeadData
      BY <1>1 DEF LogSeries, LogSamples, Appending, memVars, HeadData
    <2>2. [lset |-> cur.lset, t |-> cur.t, v |-> cur.lset] \in HeadData
      BY <2>1 DEF HeldInv, AppendHeld, HeadData
    <2>3. acked' \subseteq acked \cup {[lset |-> cur.lset, t |-> cur.t, v |-> cur.lset]}
      BY <1>1 DEF LogSeries, LogSamples, histVars
    <2> QED BY <2>1, <2>2, <2>3
  <1>2. CASE ~(LogSeries \/ LogSamples)
    <2>1. acked' = acked
      BY <1>2 DEF Next, AppendHead, AppendRejected, CompactStart, RemoveOld, Rename, Reset,
         TruncateStart, RemoveSegment, TruncateEnd, ApplyRetention, Crash, Open, ReplayEnd,
         ReplaySeries, ReplaySamples, WriteRawBlock, WriteRollupBlock, histVars
    <2> QED BY <2>1
  <1> QED BY <1>1, <1>2

LEMMA FreshAckedStep ==
  ASSUME MonotoneClock, RangesInv, TypeOK', FreshInv, FreshAcked, WritePathStep
  PROVE  FreshAcked'
  <1>1. /\ Next /\ Inv /\ HeldInv /\ RangeInv /\ TypeOK /\ clock \in Nat /\ clock' \in Nat
        /\ \A s \in acked : s \in Samples /\ s.t \in Nat
    BY DEF WritePathStep, RangesInv, HeldInv, TypeOK, Time, Samples
  <1>2. CASE ~Up \/ ~Up'
    <2>1. clock' = clock /\ (Up => pc' = "down") BY <1>1, <1>2, StoppedStep
    <2>2. qstart' = clock' BY <1>2, <2>1 DEF WritePathStep, FreshInv
    <2>3. \A s \in acked' : s.v = s.lset /\ s.t <= clock /\ s.t \in Nat
      BY <1>1, AckedInHead, RawFacts DEF FreshAcked
    <2> QED BY <1>1, <2>1, <2>2, <2>3 DEF FreshAcked, Fresh
  <1>3. CASE Up /\ Up'
    <2>1. AppendsOrCompacts /\ clock <= clock' BY <1>1, <1>3, RunningStep
    <2>2. qstart' = qstart BY <1>3 DEF WritePathStep, Up
    <2>3. ASSUME NEW s \in acked PROVE s.v = s.lset /\ s.t <= clock' /\ (Fresh(s)' => Held(s)')
      <3>1. s.v = s.lset /\ s.t <= clock /\ (Fresh(s)' => Held(s))
        BY <2>2 DEF FreshAcked, Fresh
      <3> QED BY <1>1, <2>1, <3>1, HeldOn
    <2>4. ASSUME NEW s \in HeadData, s \in HeadData' PROVE s.t <= clock' /\ Held(s)'
      <3>1. s.t \in Nat /\ s.t <= clock BY <1>1, RawFacts
      <3> QED BY <1>1, <2>1, <2>4, <3>1 DEF Held
    <2> QED BY <1>1, <2>3, <2>4, AckedInHead DEF FreshAcked
  <1> QED BY <1>2, <1>3

\* What the reader was asked for is in what it has opened or in the head, as long as
\* Compact has not emptied it.
AskedFresh ==
  \A s \in qacked :
    /\ s \in Samples /\ s.v = s.lset /\ InWindow(s.t)
    /\ ~qreset /\ Fresh(s) => s \in HeadData \/ \E b \in Raw(qblocks) : s \in b.data

\* QueryComplete for the samples scraped since the process started.
FreshComplete == qpc = "read" /\ ~qreset => \A s \in qacked : Fresh(s) => Emitted(s)

FreshAskedInv == FreshAcked /\ (qpc = "open" => AskedFresh) /\ FreshComplete

LEMMA FreshAskedOpens ==
  ASSUME FreshReaderInv, FreshAskedInv, NEW t \in Time, OpenQuerier(t)
  PROVE  FreshAskedInv'
  <1>1. Inv /\ RangeInv /\ TypeOK BY DEF FreshReaderInv, RangesInv, HeldInv
  <1>2. /\ qpc' = "open" /\ qmaxt' = t /\ UNCHANGED <<vars, qstart>>
        /\ qacked' = {s \in acked : t - Lookback <= s.t /\ s.t <= t /\ ~Forgotten("raw", s)}
    BY DEF OpenQuerier
  <1>3. UNCHANGED <<head, blocks, acked, clobbered, horizon, clock>>
    BY <1>2 DEF vars, memVars, histVars
  <1>4. /\ HeadData' = HeadData
        /\ \A s : (Fresh(s)' <=> Fresh(s)) /\ (Held(s)' <=> Held(s))
    BY <1>2, <1>3 DEF HeadData, Fresh, Held, Safe, Forgotten, DataOf
  <1>5. FreshAcked' BY <1>3, <1>4 DEF FreshAskedInv, FreshAcked
  <1>6. ASSUME NEW s \in qacked'
        PROVE  /\ s \in Samples /\ s.v = s.lset /\ InWindow(s.t)'
               /\ Fresh(s) => s \in HeadData \/ \E b \in Raw(qblocks') : s \in b.data
    <2>1. s \in acked /\ ~Forgotten("raw", s) /\ InWindow(s.t)'
      BY <1>2 DEF InWindow, qmint
    <2>2. s \in Samples /\ s.v = s.lset /\ (Fresh(s) => Held(s))
      BY <1>1, <2>1 DEF TypeOK, FreshAskedInv, FreshAcked
    <2> QED BY <1>1, <2>1, <2>2, OpensWhatItHolds
  <1>7. AskedFresh' BY <1>4, <1>6 DEF AskedFresh
  <1> QED BY <1>2, <1>5, <1>7 DEF FreshAskedInv, FreshComplete

LEMMA FreshAskedSelects ==
  ASSUME FreshReaderInv, FreshAskedInv, Select
  PROVE  FreshAskedInv'
  <1>1. /\ qpc = "open" /\ qpc' = "read" /\ UNCHANGED <<vars, qacked, qstart, qreset>>
    BY DEF Select
  <1>2. UNCHANGED <<head, blocks, acked, clobbered, horizon, clock>>
    BY <1>1 DEF vars, memVars, histVars
  <1>3. \A s : (Fresh(s)' <=> Fresh(s)) /\ (Held(s)' <=> Held(s))
    BY <1>1, <1>2 DEF HeadData, Fresh, Held, Safe, Forgotten, DataOf
  <1>4. FreshAcked' BY <1>2, <1>3 DEF FreshAskedInv, FreshAcked
  <1>5. /\ Inv /\ RangeInv /\ FreshInv /\ OpenedFresh /\ qmaxt \in Nat /\ AskedFresh
    BY <1>1 DEF FreshReaderInv, RangesInv, ReaderInv, FreshAskedInv
  <1>6. ASSUME ~qreset, NEW s \in qacked, Fresh(s) PROVE Emitted(s)'
    <2>1. /\ s \in Samples /\ s.v = s.lset /\ InWindow(s.t)
          /\ s \in HeadData \/ \E b \in Raw(qblocks) : s \in b.data
      BY <1>5, <1>6 DEF AskedFresh
    <2> QED BY <1>5, <1>6, <2>1, FreshEmitted
  <1>7. FreshComplete' BY <1>1, <1>3, <1>6 DEF FreshComplete
  <1> QED BY <1>1, <1>4, <1>7 DEF FreshAskedInv

LEMMA FreshAskedBeside ==
  ASSUME MonotoneClock, FreshReaderInv, TypeOK', FreshAskedInv, WritePathStep
  PROVE  FreshAskedInv'
  <1>1. /\ Next /\ UNCHANGED qmaxt /\ RangesInv /\ Inv /\ HeldInv /\ RangeInv /\ TypeOK
        /\ FreshInv
    BY DEF WritePathStep, FreshReaderInv, RangesInv, HeldInv
  <1>2. FreshAcked' BY <1>1, FreshAckedStep DEF FreshAskedInv
  <1>3. CASE pc' = "down" \/ ~Up \/ ~Up'
    <2>1. pc' = "down" \/ ~Up BY <1>1, <1>3, StoppedStep
    <2>2. qpc' = "none" BY <2>1 DEF WritePathStep, FreshReaderInv, ReaderInv
    <2> QED BY <1>2, <2>2 DEF FreshAskedInv, FreshComplete
  <1>4. CASE Up /\ Up'
    <2>1. AppendsOrCompacts BY <1>1, <1>4, RunningStep
    <2>2. /\ UNCHANGED <<qpc, qblocks, qresult, qacked, qstart>>
          /\ qreset' = (qreset \/ (qpc = "open" /\ pc = "reset"))
      BY <1>4 DEF WritePathStep, Up
    <2>3. \A s : (Fresh(s)' <=> Fresh(s)) /\ (InWindow(s.t)' <=> InWindow(s.t))
                 /\ (Emitted(s)' <=> Emitted(s))
      BY <1>1, <2>2 DEF Fresh, InWindow, qmint, Emitted
    <2>4. FreshComplete' BY <2>2, <2>3 DEF FreshAskedInv, FreshComplete
    <2>5. ASSUME qpc = "open" PROVE AskedFresh'
      <3>1. AskedFresh BY <2>5 DEF FreshAskedInv
      <3>2. ~qreset' => ~qreset /\ HeadData \subseteq HeadData'
        BY <2>1, <2>2, <2>5
        DEF AppendsOrCompacts, HeadGrows, BlockComes, BlocksGo, HeadGoes
      <3> QED BY <2>2, <2>3, <3>1, <3>2 DEF AskedFresh
    <2> QED BY <1>2, <2>2, <2>4, <2>5 DEF FreshAskedInv
  <1> QED BY <1>3, <1>4

\* THEOREM: of the samples scraped since the process started a reader sees every
\* acknowledged one of its window that retention and the loss of a block to its namesake
\* have left, whatever writes, rotations, truncations, block steps and removals have
\* failed and whatever an earlier kill has torn, unless Compact empties the head between
\* its Querier and its Select.
THEOREM ReadersSeeTheFresh == QSpec => []FreshComplete
  <1>1. QInit => FreshAskedInv
    <2> SUFFICES ASSUME QInit PROVE FreshAskedInv OBVIOUS
    <2>1. acked = {} /\ qpc = "none" BY DEF QInit, Init
    <2> QED BY <2>1 DEF FreshAskedInv, FreshAcked, FreshComplete
  <1>2. ASSUME FreshReaderInv, FreshReaderInv', FreshAskedInv, [QNext]_<<vars, qvars>>
        PROVE  FreshAskedInv'
    <2>1. MonotoneClock BY QueryAssumption DEF MonotoneClock
    <2>2. TypeOK' BY <1>2 DEF FreshReaderInv, RangesInv, HeldInv
    <2>3. CASE WritePathStep BY <1>2, <2>1, <2>2, <2>3, FreshAskedBeside
    <2>4. ASSUME NEW t \in Time, OpenQuerier(t) PROVE FreshAskedInv'
      BY <1>2, <2>4, FreshAskedOpens
    <2>5. CASE Select BY <1>2, <2>5, FreshAskedSelects
    <2>6. ASSUME UNCHANGED <<vars, qstart>> PROVE FreshAcked'
      <3>1. UNCHANGED <<head, blocks, acked, clobbered, horizon, clock>>
        BY <2>6 DEF vars, memVars, histVars
      <3>2. \A s : (Fresh(s)' <=> Fresh(s)) /\ (Held(s)' <=> Held(s))
        BY <2>6, <3>1 DEF HeadData, Fresh, Held, Safe, Forgotten, DataOf
      <3> QED BY <1>2, <3>1, <3>2 DEF FreshAskedInv, FreshAcked
    <2>7. CASE CloseQuerier
      BY <2>6, <2>7 DEF CloseQuerier, FreshAskedInv, FreshComplete
    <2>8. CASE UNCHANGED <<vars, qvars>>
      <3>1. UNCHANGED <<qpc, qmaxt, qblocks, qresult, qacked, qstart, qreset>>
        BY <2>8 DEF qvars
      <3>2. UNCHANGED head BY <2>8 DEF vars, memVars
      <3>3. \A s : (Fresh(s)' <=> Fresh(s)) /\ (InWindow(s.t)' <=> InWindow(s.t))
                   /\ (Emitted(s)' <=> Emitted(s))
        BY <3>1 DEF Fresh, InWindow, qmint, Emitted
      <3>4. AskedFresh => AskedFresh' BY <3>1, <3>2, <3>3 DEF AskedFresh, HeadData
      <3>5. FreshComplete => FreshComplete' BY <3>1, <3>3 DEF FreshComplete
      <3> QED BY <1>2, <2>6, <2>8, <3>1, <3>4, <3>5 DEF FreshAskedInv
    <2> QED BY <1>2, <2>3, <2>4, <2>5, <2>7, <2>8 DEF QNext
  <1>3. FreshAskedInv => FreshComplete BY DEF FreshAskedInv
  <1> QED BY <1>1, <1>2, <1>3, ReaderInvariant, PTL DEF QSpec

-----------------------------------------------------------------------------
(* The label sets of what a reader gets.                                    *)

OpenedFaithful == \A b \in qblocks : \A s \in b.data : s.v = s.lset

\* What is emitted under a label set, as a sample or summed up in a bucket, was scraped
\* under it.
ReadsFaithful == \A e \in qresult : \A s \in e.of : s.lset = e.lset /\ s.v = e.lset

\* THEOREM: through any number of kills that tear no record and under every other fault
\* that leaves no segment behind, no series that a reader is given has a sample of another
\* one, also when the blocks it reads have been replaced or removed since it opened them.
THEOREM ReadersMixNoSeries == ASSUME WholeWrites PROVE QSpec => [](OpenedFaithful /\ ReadsFaithful)
  <1> DEFINE Faithful == OpenedFaithful /\ ReadsFaithful
  <1>1. QInit => Faithful BY DEF QInit, OpenedFaithful, ReadsFaithful
  <1>2. ASSUME RefInv, Faithful, [QNext]_<<vars, qvars>> PROVE Faithful'
    <2>1. CASE WritePathStep BY <1>2, <2>1 DEF WritePathStep, OpenedFaithful, ReadsFaithful
    <2>2. ASSUME NEW t \in Time, OpenQuerier(t) PROVE Faithful'
      BY <1>2, <2>2 DEF OpenQuerier, RefInv, BlocksFaithful, OpenedFaithful, ReadsFaithful
    <2>3. CASE Select
      <3>1. PICK stop \in BOOLEAN :
              qresult' = UNION {Series_(res, l, HeadData, stop) : res \in Res, l \in Lsets}
        BY <2>3 DEF Select
      <3>2. \A s \in HeadData : s.v = s.lset BY <1>2 DEF RefInv, HeadFaithful, HeadData
      <3>3. \A res, l, data : \A e \in Stored(res, l, data) :
              e.lset = l /\ \A s \in e.of : s \in data /\ s.lset = l
        BY DEF Stored
      <3>4. ASSUME NEW e \in qresult', NEW s \in e.of PROVE s.lset = e.lset /\ s.v = e.lset
        <4>1. PICK res \in Res, l \in Lsets : e \in Series_(res, l, HeadData, stop) BY <3>1
        <4>2. \/ \E b \in qblocks : e \in Stored(res, l, b.data)
              \/ e \in Stored(res, l, HeadData)
          BY <4>1, SeriesRead
        <4> QED BY <1>2, <3>2, <3>3, <4>2 DEF OpenedFaithful
      <3>5. qblocks' = qblocks BY <2>3 DEF Select
      <3> QED BY <1>2, <3>4, <3>5 DEF OpenedFaithful, ReadsFaithful
    <2>4. CASE CloseQuerier BY <2>4 DEF CloseQuerier, OpenedFaithful, ReadsFaithful
    <2>5. CASE UNCHANGED <<vars, qvars>>
      BY <1>2, <2>5 DEF qvars, OpenedFaithful, ReadsFaithful
    <2> QED BY <1>2, <2>1, <2>2, <2>3, <2>4, <2>5 DEF QNext
  <1> QED BY <1>1, <1>2, WritePathBeside, RefInvariant, PTL DEF QSpec

-----------------------------------------------------------------------------
(* Each timestamp once.                                                     *)

EmittedOnce ==
  \A e, f \in qresult : e.res = f.res /\ e.lset = f.lset /\ e.t = f.t => e = f

\* Of two parts the one read later does not repeat a timestamp.
LEMMA SeriesOnce ==
  ASSUME qblocks \subseteq Block, NEW res, NEW l, NEW inHead, NEW stop,
         NEW e \in Series_(res, l, inHead, stop), NEW f \in Series_(res, l, inHead, stop),
         e.t = f.t, e.t \in Nat
  PROVE  e = f
  <1>1. \A data : \A x, y \in Stored(res, l, data) : x.t = y.t => x = y
    <2> TAKE data
    <2> DEFINE of(t) == {s \in data : s.lset = l /\ StoredAt(res, s.t) = t}
               el(t) == [res |-> res, lset |-> l, t |-> t, of |-> of(t)]
    <2>1. \A x \in Stored(res, l, data) : x = el(x.t)
      <3>1. \A x \in Stored(res, l, data) : \E t : x = el(t) BY DEF Stored
      <3>2. \A t : el(t).t = t OBVIOUS
      <3> QED BY <3>1, <3>2
    <2> HIDE DEF el
    <2> QED BY <2>1
  <1>2. ASSUME NEW part, NEW x \in part, NEW y, InWindow(x.t), x.t = y.t, y.t \in Nat
        PROVE  Hides(part, y, stop)
    BY <1>2 DEF Hides
  <1>3. \A b, c \in qblocks : Before(b, c) \/ Before(c, b) BY DEF Block, Time, Before
  <1> DEFINE FromBlock(b, x) ==
               /\ b.res = res /\ x \in Stored(res, l, b.data) /\ InWindow(x.t)
               /\ \A c \in qblocks : c.res = res /\ c # b /\ Before(c, b) =>
                    ~Hides(Stored(res, l, c.data), x, stop)
             FromHead(x) ==
               /\ x \in Stored(res, l, inHead)
               /\ \A c \in qblocks : c.res = res => ~Hides(Stored(res, l, c.data), x, stop)
  <1>4. /\ FromHead(e) \/ \E b \in qblocks : FromBlock(b, e)
        /\ FromHead(f) \/ \E b \in qblocks : FromBlock(b, f)
    BY SeriesRead
  <1>5. ASSUME NEW b \in qblocks, NEW c \in qblocks, FromBlock(b, e), FromBlock(c, f)
        PROVE  e = f
    <2>1. CASE b = c BY <1>1, <1>5, <2>1
    <2>2. CASE b # c /\ Before(b, c)
      <3>1. Hides(Stored(res, l, b.data), f, stop) BY <1>2, <1>5
      <3> QED BY <1>5, <2>2, <3>1
    <2>3. CASE b # c /\ Before(c, b)
      <3>1. Hides(Stored(res, l, c.data), e, stop) BY <1>2, <1>5
      <3> QED BY <1>5, <2>3, <3>1
    <2> QED BY <1>3, <2>1, <2>2, <2>3
  <1>6. ASSUME NEW b \in qblocks, FromBlock(b, e), FromHead(f) PROVE FALSE
    <2>1. Hides(Stored(res, l, b.data), f, stop) BY <1>2, <1>6
    <2> QED BY <1>6, <2>1
  <1>7. ASSUME NEW b \in qblocks, FromBlock(b, f), FromHead(e) PROVE FALSE
    <2>1. Hides(Stored(res, l, b.data), e, stop) BY <1>2, <1>7
    <2> QED BY <1>7, <2>1
  <1>8. FromHead(e) /\ FromHead(f) => e = f BY <1>1
  <1> QED BY <1>4, <1>5, <1>6, <1>7, <1>8

\* THEOREM: the chained iterator of a series emits no timestamp twice, though a sample may be
\* in two blocks and in the head, whatever fails.
THEOREM ReadersGetEachOnce == QSpec => []EmittedOnce
  <1> DEFINE Once == qblocks \subseteq Block /\ EmittedOnce
  <1>1. QInit => Once BY DEF QInit, EmittedOnce
  <1>2. ASSUME RangesInv, Once, [QNext]_<<vars, qvars>> PROVE Once'
    <2>1. TypeOK BY <1>2 DEF RangesInv, HeldInv
    <2>2. CASE WritePathStep BY <1>2, <2>2 DEF WritePathStep, EmittedOnce
    <2>3. ASSUME NEW t \in Time, OpenQuerier(t) PROVE Once'
      BY <1>2, <2>1, <2>3 DEF OpenQuerier, TypeOK, EmittedOnce
    <2>4. CASE Select
      <3>1. PICK stop \in BOOLEAN :
              qresult' = UNION {Series_(res, l, HeadData, stop) : res \in Res, l \in Lsets}
        BY <2>4 DEF Select
      <3>2. \A res, l, data : \A x \in Stored(res, l, data) : x.res = res /\ x.lset = l
        BY DEF Stored
      <3>3. ASSUME NEW e \in qresult'
            PROVE  e \in Series_(e.res, e.lset, HeadData, stop) /\ e.res \in Res /\ e.t \in Nat
        <4>1. PICK res \in Res, l \in Lsets : e \in Series_(res, l, HeadData, stop)
          BY <3>1
        <4>2. PICK data \in {HeadData} \cup {b.data : b \in qblocks} : e \in Stored(res, l, data)
          BY <4>1, SeriesRead
        <4>3. data \subseteq Samples
          BY <1>2, <2>1, <4>2, HeadDataType DEF Block
        <4>4. PICK s \in data : e.t = StoredAt(res, s.t) BY <4>2 DEF Stored
        <4>5. e.t \in Nat
          <5>1. s.t \in Time BY <4>3, <4>4 DEF Samples
          <5>2. StoredAt(res, s.t) \in Time BY <4>1, <5>1, StoredAtType
          <5> QED BY <4>4, <5>2 DEF Time
        <4> QED BY <3>2, <4>1, <4>2, <4>5
      <3>4. EmittedOnce' BY <1>2, <3>3, SeriesOnce DEF EmittedOnce
      <3> QED BY <1>2, <2>4, <3>4 DEF Select
    <2>5. CASE CloseQuerier BY <2>5 DEF CloseQuerier, EmittedOnce
    <2>6. CASE UNCHANGED <<vars, qvars>> BY <1>2, <2>6 DEF qvars, EmittedOnce
    <2> QED BY <1>2, <2>2, <2>3, <2>4, <2>5, <2>6 DEF QNext
  <1> QED BY <1>1, <1>2, WritePathBeside, RangesInvariant, PTL DEF QSpec

-----------------------------------------------------------------------------
(* The log of a label set, while no fault but that of a write, of a block   *)
(* step or of a removal of retention separates the log from the head.       *)

QuietLog == Faults \subseteq {"write", "block", "retention"}

\* A label set has one series in the head and one series record in the log.
OneSeries ==
  /\ \A q, r \in wal : IsSeries(q) /\ IsSeries(r) /\ q.lset = r.lset => q = r
  /\ \A q, r \in DOMAIN head : head[q].lset = head[r].lset => q = r

\* knownRefs has the refs with a series record, and the head has them.
KnownRefsAre ==
  /\ knownRefs \subseteq DOMAIN head
  /\ Up /\ pc \notin {"truncate", "removing"} =>
       \A q \in wal : IsSeries(q) => q.ref \in knownRefs
  /\ pc = "logSeries" => cur.ref \notin knownRefs

SeriesInv == FileOpen /\ SegmentsInOrder /\ OneSeries /\ KnownRefsAre

LEMMA QuietFaults ==
  ASSUME QuietLog, TypeOK, NEW kind \in {"tear", "cut", "rotate", "truncate", "remove"}
  PROVE  ~Fault(kind)
  BY DEF QuietLog, Fault, TypeOK

LEMMA QuietLogWhole == QuietLog => WholeWrites /\ MonotoneClock
  BY DEF QuietLog, WholeWrites, MonotoneClock

\* Steps that leave log and head alone.
LEMMA SeriesQuiet ==
  ASSUME SeriesInv, UNCHANGED <<head, knownRefs, wal, segIdx, walFile>>,
         Up, Up', pc \notin {"truncate", "removing"},
         pc' \notin {"truncate", "removing", "logSeries"}
  PROVE  SeriesInv'
  BY DEF SeriesInv, FileOpen, SegmentsInOrder, OneSeries, KnownRefsAre, IsSeries

LEMMA SeriesAppend ==
  ASSUME RefInv, SeriesInv, NEW l \in Lsets, NEW t \in Time, AppendHead(l, t)
  PROVE  SeriesInv'
  <1>1. /\ pc = "idle" /\ UNCHANGED <<knownRefs, wal, segIdx, walFile>>
        /\ pc' \in {"logSeries", "logSamples"}
    BY DEF AppendHead, walVars
  <1>2. PICK ref \in GetOrCreate(l) :
          /\ head' = Register(ref, Appended(SeriesAt(ref, l), t, l))
          /\ cur' = [ref |-> ref, lset |-> l, t |-> t]
          /\ pc' = IF ref \in knownRefs THEN "logSamples" ELSE "logSeries"
    BY DEF AppendHead
  <1>3. ref \in Nat /\ lastRef \in Nat /\ \A r \in DOMAIN head : r \in Nat
    BY SeriesAtType DEF RefInv, TypeOK, Ref
  <1>4. \/ ref \in DOMAIN head /\ head[ref].lset = l
        \/ ref \notin DOMAIN head /\ \A r \in DOMAIN head : head[r].lset # l
    BY <1>3 DEF GetOrCreate, RefInv, HeadRefs
  <1>5. SeriesAt(ref, l).lset = l BY <1>4 DEF SeriesAt, NewSeries
  <1>6. /\ DOMAIN head' = DOMAIN head \cup {ref} /\ head'[ref].lset = l
        /\ \A r \in DOMAIN head : r # ref => head'[r] = head[r]
    BY <1>2, <1>5 DEF Register, Appended
  <1>7. OneSeries' BY <1>1, <1>4, <1>6 DEF SeriesInv, OneSeries, IsSeries
  <1>8. KnownRefsAre' BY <1>1, <1>2, <1>6 DEF SeriesInv, KnownRefsAre, IsSeries, Up
  <1>9. FileOpen' /\ SegmentsInOrder'
    BY <1>1 DEF SeriesInv, FileOpen, SegmentsInOrder, Up
  <1> QED BY <1>7, <1>8, <1>9 DEF SeriesInv

\* While the file is open a write of the log leaves its record or nothing.
LEMMA QuietWrite ==
  ASSUME QuietLog, TypeOK, SeriesInv, LogSeries \/ LogSamples
  PROVE  \/ UNCHANGED walVars /\ pc' = "idle" /\ UNCHANGED <<knownRefs, acked>>
         \/ /\ LogSeries /\ Write("series") /\ pc' = "logSamples"
            /\ knownRefs' = knownRefs \cup {cur.ref} /\ acked' = acked
         \/ /\ LogSamples /\ Write("samples") /\ pc' = "idle" /\ knownRefs' = knownRefs
            /\ acked' = acked \cup {[lset |-> cur.lset, t |-> cur.t, v |-> cur.lset]}
  <1>1. walFile = "open" BY DEF LogSeries, LogSamples, SeriesInv, FileOpen, Up
  <1>2. WriteFails => UNCHANGED walVars BY <1>1, QuietFaults DEF WriteFails
  <1> QED BY <1>2 DEF LogSeries, LogSamples, WriteSucceeds, memVars, histVars

LEMMA SegmentsGrow ==
  ASSUME TypeOK, PlacesUnique, SegmentsInOrder, NEW kind, Write(kind)
  PROVE  SegmentsInOrder'
  <1> DEFINE n == LogRecord(kind)
  <1>1. /\ wal' = wal \cup {n} /\ segIdx' = WriteSeg
        /\ n.seg = WriteSeg /\ n.place = end + 1
    BY DEF Write, LogRecord
  <1> HIDE DEF n
  <1>2. /\ segIdx \in Nat /\ end \in Nat
        /\ \A r \in wal : r.seg \in Nat /\ r.place \in Nat /\ r.place <= end
    BY DEF TypeOK, Record, PlacesUnique
  <1> QED BY <1>1, <1>2 DEF SegmentsInOrder, WriteSeg

LEMMA SeriesLog ==
  ASSUME QuietLog, RefInv, SeriesInv, LogSeries \/ LogSamples
  PROVE  SeriesInv'
  <1>0. TypeOK /\ PlacesUnique BY DEF RefInv
  <1>1. /\ pc \in {"logSeries", "logSamples"} /\ walFile = "open" /\ head' = head /\ cur' = cur
        /\ walFile' = "open"
    <2>1. pc \in {"logSeries", "logSamples"} /\ head' = head /\ cur' = cur
      BY DEF LogSeries, LogSamples, memVars
    <2>2. walFile = "open" BY <2>1 DEF SeriesInv, FileOpen, Up
    <2> QED BY <1>0, <2>1, <2>2, QuietWrite DEF Write, walVars
  <1>2. CASE UNCHANGED walVars /\ pc' = "idle" /\ knownRefs' = knownRefs
    <2>1. pc \notin {"truncate", "removing"} /\ Up /\ Up' BY <1>1, <1>2 DEF Up
    <2> QED BY <1>1, <1>2, <2>1, SeriesQuiet DEF walVars
  <1>3. FileOpen' BY <1>1 DEF FileOpen
  <1>4. CASE /\ LogSeries /\ Write("series") /\ pc' = "logSamples"
             /\ knownRefs' = knownRefs \cup {cur.ref}
    <2> DEFINE n == LogRecord("series")
    <2>1. wal' = wal \cup {n} /\ n.ref = cur.ref /\ n.lset = cur.lset
      BY <1>4 DEF Write, LogRecord
    <2> HIDE DEF n
    <2>2. pc = "logSeries" /\ Up /\ Current BY <1>1, <1>4 DEF LogSeries, Up, Current
    <2>3. cur.ref \in DOMAIN head /\ head[cur.ref].lset = cur.lset
      BY <2>2 DEF RefInv, AppendInProgress
    <2>4. ASSUME NEW q \in wal, IsSeries(q) PROVE q.lset # cur.lset /\ q.ref \in knownRefs
      <3>1. q.ref \in knownRefs /\ q.ref \in DOMAIN head
        BY <2>2, <2>4 DEF SeriesInv, KnownRefsAre
      <3>2. head[q.ref].lset = q.lset
        BY <2>2, <2>4, <3>1 DEF RefInv, HeadAgreesWithLog
      <3>3. q.ref # cur.ref BY <2>2, <3>1 DEF SeriesInv, KnownRefsAre
      <3> QED BY <2>3, <3>1, <3>2, <3>3 DEF SeriesInv, OneSeries
    <2>5. OneSeries'
      BY <1>1, <2>1, <2>4 DEF SeriesInv, OneSeries, IsSeries
    <2>6. KnownRefsAre'
      BY <1>1, <1>4, <2>1, <2>3, <2>4 DEF SeriesInv, KnownRefsAre, IsSeries
    <2>7. SegmentsInOrder' BY <1>0, <1>4, SegmentsGrow DEF SeriesInv
    <2> QED BY <1>3, <2>5, <2>6, <2>7 DEF SeriesInv
  <1>5. CASE LogSamples /\ Write("samples") /\ pc' = "idle" /\ knownRefs' = knownRefs
    <2>1. \A q \in wal' : IsSeries(q) => q \in wal
      BY <1>5 DEF Write, LogRecord, IsSeries
    <2>2. OneSeries' BY <1>1, <2>1 DEF SeriesInv, OneSeries, IsSeries
    <2>3. KnownRefsAre'
      BY <1>1, <1>5, <2>1 DEF SeriesInv, KnownRefsAre, IsSeries, Up
    <2>4. SegmentsInOrder' BY <1>0, <1>5, SegmentsGrow DEF SeriesInv
    <2> QED BY <1>3, <2>2, <2>3, <2>4 DEF SeriesInv
  <1> QED BY <1>0, <1>2, <1>4, <1>5, QuietWrite

\* Truncate runs to its end, and leaves no record.
LEMMA SeriesClear ==
  ASSUME QuietLog, RefInv, SeriesInv,
         Reset \/ TruncateStart \/ RemoveSegment \/ TruncateEnd \/ Crash \/ Open
  PROVE  SeriesInv'
  <1>0. \A kind \in {"tear", "cut", "rotate", "truncate", "remove"} : ~Fault(kind)
    BY QuietFaults DEF RefInv
  <1>1. CASE Reset
    <2>1. /\ pc = "reset" /\ pc' = "truncate" /\ UNCHANGED <<wal, segIdx, walFile>>
          /\ DOMAIN head' = {} /\ knownRefs' = {}
      BY <1>1 DEF Reset, EmptyHead, KnownRefsAfterReset, walVars
    <2> QED BY <2>1 DEF SeriesInv, FileOpen, SegmentsInOrder, OneSeries, KnownRefsAre, IsSeries, Up
  <1>2. CASE TruncateStart
    <2>1. walFile = "open" /\ pc = "truncate" BY <1>2 DEF TruncateStart, SeriesInv, FileOpen, Up
    <2>2. /\ pc' = "removing" /\ UNCHANGED <<head, knownRefs, wal, segIdx>>
      BY <1>0, <1>2, <2>1 DEF TruncateStart, memVars
    <2> QED BY <2>1, <2>2
          DEF SeriesInv, FileOpen, SegmentsInOrder, OneSeries, KnownRefsAre, IsSeries, Up
  <1>3. CASE RemoveSegment
    <2>1. /\ pc = "removing" /\ pc' = "removing" /\ UNCHANGED <<head, knownRefs, segIdx>>
          /\ wal' \subseteq wal
      BY <1>3 DEF RemoveSegment, memVars
    <2> QED BY <2>1
          DEF SeriesInv, FileOpen, SegmentsInOrder, OneSeries, KnownRefsAre, IsSeries, Up
  <1>4. CASE TruncateEnd
    <2>1. wal = {} /\ wal' = {} BY <1>4 DEF TruncateEnd, RefInv, RemovingInv
    <2>2. /\ walFile' = "open" /\ pc' = "retain" /\ UNCHANGED <<head, knownRefs>>
      BY <1>0, <1>4, <2>1 DEF TruncateEnd, memVars
    <2> QED BY <2>1, <2>2
          DEF SeriesInv, FileOpen, SegmentsInOrder, OneSeries, KnownRefsAre, Up
  <1>5. CASE Crash
    <2>1. /\ pc' = "down" /\ UNCHANGED <<wal, segIdx>> /\ DOMAIN head' = {} /\ knownRefs' = {}
      BY <1>0, <1>5 DEF Crash, EmptyHead
    <2> QED BY <2>1 DEF SeriesInv, FileOpen, SegmentsInOrder, OneSeries, KnownRefsAre, IsSeries, Up
  <1>6. CASE Open
    <2>1. pc' = "replay" /\ UNCHANGED <<head, knownRefs, wal, segIdx>>
      BY <1>6 DEF Open, memVars, walVars
    <2> QED BY <2>1 DEF SeriesInv, FileOpen, SegmentsInOrder, OneSeries, KnownRefsAre, IsSeries, Up
  <1> QED BY <1>1, <1>2, <1>3, <1>4, <1>5, <1>6

\* A series of the replay has the only series record of its label set.
LEMMA SeriesReplay ==
  ASSUME RefInv, SeriesInv, NEW r \in wal, ReplaySeries(r) \/ ReplaySamples(r)
  PROVE  SeriesInv'
  <1>1. /\ pc = "replay" /\ pc' = "replay" /\ IsNext(r)
        /\ UNCHANGED <<knownRefs, wal, segIdx, walFile>>
    BY DEF ReplaySeries, ReplaySamples, walVars
  <1>2. FileOpen' /\ SegmentsInOrder'
    BY <1>1 DEF SeriesInv, FileOpen, SegmentsInOrder, Up
  <1>3. knownRefs = {} BY <1>1 DEF RefInv, DownInv, Up
  <1>4. KnownRefsAre' BY <1>1, <1>3 DEF KnownRefsAre, Up
  <1>5. CASE head' = head
    BY <1>1, <1>2, <1>4, <1>5 DEF SeriesInv, OneSeries, IsSeries
  <1>6. CASE /\ r.ref \in DOMAIN head
             /\ head' = Register(r.ref, Appended(head[r.ref], r.t, r.lset))
    <2>1. /\ DOMAIN head' = DOMAIN head
          /\ \A ref \in DOMAIN head : head'[ref].lset = head[ref].lset
      BY <1>6 DEF Register, Appended
    <2> QED BY <1>1, <1>2, <1>4, <2>1 DEF SeriesInv, OneSeries, IsSeries
  <1>7. CASE /\ r.ref \notin DOMAIN head /\ r.kind = "series"
             /\ head' = Register(r.ref, NewSeries(r.lset))
    <2>1. /\ DOMAIN head' = DOMAIN head \cup {r.ref} /\ head'[r.ref].lset = r.lset
          /\ \A ref \in DOMAIN head : head'[ref] = head[ref]
      BY <1>7 DEF Register, NewSeries
    <2>2. ASSUME NEW ref \in DOMAIN head PROVE head[ref].lset # r.lset
      <3>1. PICK q \in wal : IsSeries(q) /\ q.place <= pos /\ q.ref = ref /\ q.lset = head[ref].lset
        BY <1>1 DEF RefInv, ReplayRefs
      <3>2. q # r BY <1>7, <3>1
      <3> QED BY <1>7, <3>1, <3>2 DEF SeriesInv, OneSeries, IsSeries
    <2>3. OneSeries' BY <1>1, <2>1, <2>2 DEF SeriesInv, OneSeries, IsSeries
    <2> QED BY <1>2, <1>4, <2>3 DEF SeriesInv
  <1> QED BY <1>5, <1>6, <1>7 DEF ReplaySeries, ReplaySamples

\* Without torn records the replay ends with the last record.
LEMMA AllReplayed ==
  ASSUME RefInv, ReplayEnd
  PROVE  \A r \in wal : r.place <= pos
  BY DEF ReplayEnd, Reached, RefInv, NoTorn, TypeOK, Record

LEMMA SeriesReplayEnd == ASSUME RefInv, SeriesInv, ReplayEnd PROVE SeriesInv'
  <1>1. /\ pc = "replay" /\ pc' = "idle" /\ walFile' = "open" /\ knownRefs' = DOMAIN head
        /\ UNCHANGED <<head, wal, segIdx>>
    BY DEF ReplayEnd
  <1>2. \A q \in wal : IsSeries(q) => q.ref \in DOMAIN head
    BY <1>1, AllReplayed DEF RefInv, ReplayRefs
  <1> QED BY <1>1, <1>2
        DEF SeriesInv, FileOpen, SegmentsInOrder, OneSeries, KnownRefsAre, IsSeries

LEMMA SeriesStep ==
  ASSUME QuietLog, RefInv, SeriesInv, [Next]_vars
  PROVE  SeriesInv'
  <1>1. ASSUME NEW l \in Lsets, NEW t \in Time, AppendHead(l, t) PROVE SeriesInv'
    BY <1>1, SeriesAppend
  <1>2. CASE LogSeries \/ LogSamples BY <1>2, SeriesLog
  <1>3. CASE \/ \E l \in Lsets, t \in Time : AppendRejected(l, t)
             \/ (\E t \in Time : CompactStart(t))
             \/ RemovesOld \/ Renames \/ ApplyRetention
    <2>1. UNCHANGED <<head, knownRefs, wal, segIdx, walFile>>
      BY <1>3 DEF AppendRejected, CompactStart, RemovesOld, RemoveOld, Renames, Rename,
         ApplyRetention, memVars, walVars
    <2>2. Up /\ Up' /\ pc \notin {"truncate", "removing"}
          /\ pc' \notin {"truncate", "removing", "logSeries"}
      BY <1>3 DEF AppendRejected, CompactStart, RemovesOld, RemoveOld, Renames, Rename,
         ApplyRetention, Up
    <2> QED BY <2>1, <2>2, SeriesQuiet
  <1>4. CASE Reset \/ TruncateStart \/ RemoveSegment \/ TruncateEnd \/ Crash \/ Open
    BY <1>4, SeriesClear
  <1>5. ASSUME NEW r \in wal, ReplaySeries(r) \/ ReplaySamples(r) PROVE SeriesInv'
    BY <1>5, SeriesReplay
  <1>6. CASE ReplayEnd BY <1>6, SeriesReplayEnd
  <1>7. CASE UNCHANGED vars
    <2>1. UNCHANGED <<head, knownRefs, pc, cur, wal, segIdx, walFile>>
      BY <1>7 DEF vars, memVars, walVars
    <2> QED BY <2>1
          DEF SeriesInv, FileOpen, SegmentsInOrder, OneSeries, KnownRefsAre, IsSeries, Up
  <1> QED BY <1>1, <1>2, <1>3, <1>4, <1>5, <1>6, <1>7
        DEF Next, WriteRawBlock, WriteRollupBlock, RemovesOld, Renames

LEMMA SeriesInit == Init => SeriesInv
  BY DEF Init, EmptyHead, SeriesInv, FileOpen, SegmentsInOrder, OneSeries, KnownRefsAre, Up

-----------------------------------------------------------------------------
(* Where the acknowledged samples of a series are: those the log has after  *)
(* those it has not any more, and these in blocks that come first.          *)

\* What a reader may ask for.
Wanted(s) == s \in acked /\ ~Forgotten("raw", s)

\* A block has it that ends with it: one written before anything beyond it came.
Earlier(s) == \E d \in Raw(blocks) : s \in d.data /\ d.maxT <= s.t

LogInHead ==
  Up /\ pc \notin {"truncate", "removing"} => RecoverableData \subseteq HeadData

ReplayedOnly == pc = "replay" => HeadData \subseteq RecoverableData

\* A raw block has a sample of the head or of the log, or ends before it.
AfterBlocks(X) == \A b \in Raw(blocks) : \A s \in X : s \in b.data \/ b.maxT <= s.t

\* The head or the log has of a block all of a series or what no block has before.
Whole(X) ==
  \A b \in Raw(blocks) : \A s \in b.data : \A f \in X :
    Wanted(s) /\ Beyond(f, s) /\ f.t < b.maxT => s \in X \/ Earlier(s)

\* A sample of the head that the log does not have was appended once more, at the
\* time of the last one.
Reappended ==
  \A s \in HeadData : Wanted(s) => s \in RecoverableData \/ Earlier(s)

\* A block that hides a sample comes after one that has it.
InOrder ==
  \A b, c \in Raw(blocks) : Before(b, c) =>
    \A s \in c.data : \A f \in b.data : Wanted(s) /\ Beyond(f, s) =>
      \E d \in Raw(blocks) : s \in d.data /\ Before(d, b)

PlaceInv ==
  /\ LogInHead /\ ReplayedOnly
  /\ AfterBlocks(HeadData) /\ AfterBlocks(RecoverableData)
  /\ Whole(RecoverableData) /\ (Up => Whole(HeadData))
  /\ Reappended /\ InOrder

LEMMA SameBlocks ==
  ASSUME UNCHANGED <<blocks, acked, clobbered, horizon>>
  PROVE  /\ Raw(blocks') = Raw(blocks)
         /\ \A s : (Wanted(s)' <=> Wanted(s)) /\ (Earlier(s)' <=> Earlier(s))
         /\ InOrder' <=> InOrder
  <1>1. Raw(blocks') = Raw(blocks) OBVIOUS
  <1>2. \A s : (Wanted(s)' <=> Wanted(s)) /\ (Earlier(s)' <=> Earlier(s))
    BY DEF Wanted, Earlier, Forgotten
  <1> QED BY <1>1, <1>2 DEF InOrder

\* An appended sample is at or above the end of every block.
LEMMA PlaceAppend ==
  ASSUME Inv, RangeInv, PlaceInv, Durable, clock' \in Nat, clock <= clock',
         UNCHANGED <<blocks, acked, clobbered, horizon>>, RecoverableData' = RecoverableData,
         NEW x, HeadData' = HeadData \cup {x}, x.t = clock',
         Up, Up', pc \notin {"truncate", "removing"}
  PROVE  PlaceInv'
  <1>1. /\ Raw(blocks') = Raw(blocks) /\ (InOrder' <=> InOrder)
        /\ \A s : (Wanted(s)' <=> Wanted(s)) /\ (Earlier(s)' <=> Earlier(s))
    BY SameBlocks
  <1>2. \A b \in Raw(blocks) : b.maxT \in Nat /\ b.maxT <= x.t BY RawFacts
  <1>3. LogInHead' /\ ReplayedOnly' BY DEF PlaceInv, LogInHead, ReplayedOnly, Up
  <1>4. AfterBlocks(HeadData)' /\ AfterBlocks(RecoverableData)'
    BY <1>1, <1>2 DEF PlaceInv, AfterBlocks
  <1>5. Whole(RecoverableData)' BY <1>1 DEF PlaceInv, Whole
  <1>6. Whole(HeadData)'
    <2>1. \A b \in Raw(blocks) : ~ (x.t < b.maxT) BY <1>2
    <2> QED BY <1>1, <2>1 DEF PlaceInv, Whole
  <1>7. Reappended'
    <2>1. Wanted(x) => x \in RecoverableData \/ x \in DataOf("raw")
      BY DEF Durable, Wanted
    <2>2. x \in DataOf("raw") => Earlier(x) BY <1>2 DEF DataOf, Earlier, Raw
    <2> QED BY <1>1, <2>1, <2>2 DEF PlaceInv, Reappended
  <1> QED BY <1>1, <1>3, <1>4, <1>5, <1>6, <1>7 DEF PlaceInv

\* The record of a sample is the latest one, and so is the sample it acknowledges.
LEMMA PlaceLog ==
  ASSUME Inv, RangeInv, PlaceInv, Durable',
         UNCHANGED <<blocks, clobbered, horizon>>, HeadData' = HeadData,
         NEW x \in HeadData, x.t = clock,
         RecoverableData \subseteq RecoverableData',
         RecoverableData' \subseteq RecoverableData \cup {x},
         acked \subseteq acked', acked' \subseteq acked \cup {x},
         Up, Up', pc \notin {"truncate", "removing"}
  PROVE  PlaceInv'
  <1>1. Raw(blocks') = Raw(blocks) /\ \A s : Earlier(s)' <=> Earlier(s) BY DEF Earlier
  <1>2. /\ clock \in Nat
        /\ \A b \in Raw(blocks) :
             b.maxT \in Nat /\ b.maxT <= clock /\ \A s \in b.data : s.t \in Nat /\ s.t <= clock
        /\ \A s \in HeadData : s.t \in Nat /\ s.t <= clock
    <2>1. \A b \in Raw(blocks) : \A s \in b.data :
            s.t \in Nat /\ s.t <= b.maxT /\ b.maxT <= clock /\ b.maxT \in Nat
      BY RawFacts
    <2> QED BY <2>1, RawFacts
  <1>3. \A s : Wanted(s)' => Wanted(s) \/ s = x BY DEF Wanted, Forgotten
  <1>4. RecoverableData \subseteq HeadData /\ RecoverableData' \subseteq HeadData
    BY DEF PlaceInv, LogInHead
  <1>5. LogInHead' /\ ReplayedOnly' BY <1>4 DEF LogInHead, ReplayedOnly, Up
  <1>6. AfterBlocks(HeadData)' /\ AfterBlocks(RecoverableData)'
    BY <1>1, <1>4 DEF PlaceInv, AfterBlocks
  <1>7. \A f \in HeadData : ~Beyond(f, x) BY <1>2 DEF Beyond
  <1>8. \A b \in Raw(blocks) : ~ (x.t < b.maxT) /\ \A f \in b.data : ~Beyond(f, x)
    BY <1>2 DEF Beyond
  <1>9. Whole(RecoverableData)'
    <2> SUFFICES ASSUME NEW b \in Raw(blocks), NEW s \in b.data, NEW f \in RecoverableData',
                        Wanted(s)', Beyond(f, s), f.t < b.maxT
                 PROVE  s \in RecoverableData' \/ Earlier(s)
      BY <1>1 DEF Whole
    <2>1. s # x /\ f # x BY <1>4, <1>7, <1>8
    <2>2. Wanted(s) /\ f \in RecoverableData BY <1>3, <2>1
    <2> QED BY <2>2 DEF PlaceInv, Whole
  <1>10. Whole(HeadData)' BY <1>1, <1>3, <1>7 DEF PlaceInv, Whole
  <1>11. Reappended'
    <2>1. Wanted(x)' => x \in RecoverableData' \/ x \in DataOf("raw")'
      BY DEF Durable, Wanted
    <2>2. x \in DataOf("raw")' => Earlier(x) BY <1>2 DEF DataOf, Earlier, Raw
    <2> QED BY <1>1, <1>3, <2>1, <2>2 DEF PlaceInv, Reappended
  <1>12. InOrder' BY <1>1, <1>3, <1>8 DEF PlaceInv, InOrder
  <1> QED BY <1>5, <1>6, <1>9, <1>10, <1>11, <1>12 DEF PlaceInv

\* Blocks go whose samples are given up or in head and log.
LEMMA PlaceGone ==
  ASSUME Inv, RangeInv, PlaceInv, HeadData' = HeadData, RecoverableData' = RecoverableData,
         acked' = acked, Raw(blocks') \subseteq Raw(blocks),
         \A s \in Samples : Forgotten("raw", s) => Forgotten("raw", s)',
         \A d \in Raw(blocks) : d \notin Raw(blocks') =>
           \A s \in d.data : Forgotten("raw", s)' \/ s \in HeadData \cap RecoverableData,
         Up, Up', pc \notin {"truncate", "removing"}
  PROVE  PlaceInv'
  <1>1. \A s \in Samples : Wanted(s)' => Wanted(s) BY DEF Wanted
  <1>2. \A s : Wanted(s)' /\ Earlier(s) => Earlier(s)' \/ s \in HeadData \cap RecoverableData
    BY DEF Wanted, Earlier
  <1>3. /\ \A b \in Raw(blocks') : \A s \in b.data : s \in Samples
        /\ \A s \in HeadData : s \in Samples
    BY RawFacts
  <1>4. LogInHead' /\ ReplayedOnly' BY DEF PlaceInv, LogInHead, ReplayedOnly, Up
  <1>5. AfterBlocks(HeadData)' /\ AfterBlocks(RecoverableData)' BY DEF PlaceInv, AfterBlocks
  <1>6. Whole(RecoverableData)' BY <1>1, <1>2, <1>3 DEF PlaceInv, Whole
  <1>7. Whole(HeadData)' BY <1>1, <1>2, <1>3 DEF PlaceInv, Whole
  <1>8. Reappended' BY <1>1, <1>2, <1>3 DEF PlaceInv, Reappended
  <1>9. InOrder'
    <2> SUFFICES ASSUME NEW b \in Raw(blocks'), NEW c \in Raw(blocks'), Before(b, c),
                        NEW s \in c.data, NEW f \in b.data, Wanted(s)', Beyond(f, s)
                 PROVE  \E d \in Raw(blocks') : s \in d.data /\ Before(d, b)
      BY DEF InOrder
    <2>1. PICK d \in Raw(blocks) : s \in d.data /\ Before(d, b)
      BY <1>1, <1>3 DEF PlaceInv, InOrder
    <2>2. CASE d \in Raw(blocks') BY <2>1, <2>2
    <2>3. CASE s \in HeadData
      <3>1. s \in b.data \/ b.maxT <= s.t BY <2>3 DEF PlaceInv, AfterBlocks
      <3>2. f.t <= b.maxT /\ f.t \in Nat /\ b.maxT \in Nat /\ s.t \in Nat
        BY <2>3, RawFacts
      <3>3. Before(b, b) BY <3>2 DEF Before
      <3> QED BY <3>1, <3>2, <3>3 DEF Beyond
    <2> QED BY <2>1, <2>2, <2>3 DEF Wanted
  <1> QED BY <1>4, <1>5, <1>6, <1>7, <1>8, <1>9 DEF PlaceInv

\* A new block has all of the head: what it might hide it has itself, or a block has
\* it that ended before the head began.
LEMMA PlaceBlock ==
  ASSUME Inv, RangeInv, RangeInv', PlaceInv, BlockComes, RecoverableData' = RecoverableData,
         UNCHANGED <<acked, clobbered, horizon>>, Up, Up', pc \notin {"truncate", "removing"}
  PROVE  PlaceInv'
  <1>1. PICK n \in Block :
          /\ Raw(blocks') = Raw(blocks) \cup {n}
          /\ n.data = HeadData
          /\ \A x \in HeadData : n.minT <= x.t /\ x.t <= n.maxT
          /\ \E x \in HeadData : x.t = n.minT
    BY DEF BlockComes
  <1>2. HeadData' = HeadData BY DEF BlockComes
  <1>3. n.minT \in Nat /\ n.maxT \in Nat /\ n \in Raw(blocks') BY <1>1 DEF Block, Time
  <1>4. /\ \A s : Wanted(s)' <=> Wanted(s)
        /\ \A s : Earlier(s) => Earlier(s)'
    BY <1>1 DEF Wanted, Forgotten, Earlier
  <1>5. RecoverableData \subseteq HeadData BY DEF PlaceInv, LogInHead
  <1>6. LogInHead' /\ ReplayedOnly' BY <1>2, <1>5 DEF LogInHead, ReplayedOnly, Up
  <1>7. AfterBlocks(HeadData)' /\ AfterBlocks(RecoverableData)'
    BY <1>1, <1>2, <1>5 DEF PlaceInv, AfterBlocks
  <1>8. Whole(RecoverableData)'
    BY <1>1, <1>4 DEF PlaceInv, Whole, Reappended
  <1>9. Whole(HeadData)' BY <1>1, <1>2, <1>4 DEF PlaceInv, Whole
  <1>10. Reappended' BY <1>2, <1>4 DEF PlaceInv, Reappended
  <1>11. PICK x \in HeadData : x.t = n.minT BY <1>1
  <1>12. ASSUME NEW c \in Raw(blocks), Before(n, c), NEW s \in c.data, NEW f \in HeadData,
                Wanted(s), Beyond(f, s)
         PROVE  \E d \in Raw(blocks') : s \in d.data /\ Before(d, n)
    <2>1. /\ c.minT \in Nat /\ c.maxT \in Nat /\ s.t \in Nat /\ f.t \in Nat
          /\ c.minT <= s.t /\ s.t <= c.maxT /\ s.t < f.t /\ f.t <= n.maxT
      BY <1>1, <1>12, RawFacts DEF Beyond
    <2>2. CASE s \in HeadData
      <3>1. Before(n, n) BY <1>3 DEF Before
      <3> QED BY <1>1, <1>3, <2>2, <3>1
    <2>3. ASSUME NEW d \in Raw(blocks), s \in d.data, d.maxT <= s.t PROVE Before(d, n)
      <3>1. d.minT \in Nat /\ d.maxT \in Nat /\ d.minT <= s.t /\ s.t <= d.maxT
        BY <2>3, RawFacts
      <3>2. x \in d.data \/ d.maxT <= x.t BY DEF PlaceInv, AfterBlocks
      <3>3. x \in d.data => d.minT <= x.t BY RawFacts
      <3>4. d.minT <= n.minT BY <1>3, <1>11, <2>1, <2>3, <3>1, <3>2, <3>3
      <3> QED BY <1>3, <2>1, <2>3, <3>1, <3>4 DEF Before
    <2>4. CASE f.t < c.maxT
      <3>1. s \in HeadData \/ Earlier(s) BY <1>12, <2>4 DEF PlaceInv, Whole
      <3> QED BY <1>1, <2>2, <2>3, <3>1 DEF Earlier
    <2>5. CASE c.maxT <= f.t
      <3>1. x \in c.data \/ c.maxT <= x.t BY DEF PlaceInv, AfterBlocks
      <3>2. x \in c.data => c.minT <= x.t BY RawFacts
      <3>3. n.minT = c.minT /\ n.maxT = c.maxT
        BY <1>3, <1>11, <1>12, <2>1, <2>5, <3>1, <3>2 DEF Before
      <3>4. n = c BY <1>1, <1>3, <3>3 DEF RangeInv, OneOfARange
      <3> QED BY <1>1, <2>2, <3>4
    <2> QED BY <2>1, <2>4, <2>5
  <1>13. ASSUME NEW b \in Raw(blocks), NEW s \in HeadData, NEW f \in b.data, Beyond(f, s)
         PROVE  s \in b.data /\ Before(b, b)
    <2>1. s \in b.data \/ b.maxT <= s.t BY DEF PlaceInv, AfterBlocks
    <2>2. f.t <= b.maxT /\ f.t \in Nat /\ b.maxT \in Nat /\ s.t \in Nat BY RawFacts
    <2> QED BY <1>13, <2>1, <2>2 DEF Beyond, Before
  <1>14. InOrder'
    <2> SUFFICES ASSUME NEW b \in Raw(blocks'), NEW c \in Raw(blocks'), Before(b, c),
                        NEW s \in c.data, NEW f \in b.data, Wanted(s), Beyond(f, s)
                 PROVE  \E d \in Raw(blocks') : s \in d.data /\ Before(d, b)
      BY <1>4 DEF InOrder
    <2>1. CASE b \in Raw(blocks) /\ c \in Raw(blocks)
      BY <1>1, <2>1 DEF PlaceInv, InOrder
    <2>2. CASE b = n /\ c = n BY <1>3, <2>2
    <2>3. CASE b = n /\ c \in Raw(blocks) BY <1>1, <1>12, <2>3
    <2>4. CASE b \in Raw(blocks) /\ c = n BY <1>1, <1>13, <2>4
    <2> QED BY <1>1, <2>1, <2>2, <2>3, <2>4
  <1> QED BY <1>6, <1>7, <1>8, <1>9, <1>10, <1>14 DEF PlaceInv

\* The head goes, or comes back from the log.
LEMMA PlaceRestart ==
  ASSUME PlaceInv, UNCHANGED <<blocks, acked, clobbered, horizon>>,
         RecoverableData' = RecoverableData, LogInHead', ReplayedOnly',
         HeadData' \subseteq RecoverableData,
         HeadData' = {} \/ HeadData' = RecoverableData \/ ~Up'
  PROVE  PlaceInv'
  <1>1. /\ Raw(blocks') = Raw(blocks) /\ (InOrder' <=> InOrder)
        /\ \A s : (Wanted(s)' <=> Wanted(s)) /\ (Earlier(s)' <=> Earlier(s))
    BY SameBlocks
  <1>2. AfterBlocks(HeadData)' /\ AfterBlocks(RecoverableData)'
    BY <1>1 DEF PlaceInv, AfterBlocks
  <1>3. Whole(RecoverableData)' BY <1>1 DEF PlaceInv, Whole
  <1>4. Up' => Whole(HeadData)' BY <1>1 DEF PlaceInv, Whole
  <1>5. Reappended' BY DEF Reappended
  <1> QED BY <1>1, <1>2, <1>3, <1>4, <1>5 DEF PlaceInv

\* Replaying a record puts nothing in the head that the log does not give back.
LEMMA ReplayedIsLogged ==
  ASSUME RefInv, ReplayedOnly, NEW r \in wal, ReplaySeries(r) \/ ReplaySamples(r)
  PROVE  HeadData' \subseteq RecoverableData
  <1>1. /\ pc = "replay" /\ IsNext(r) BY DEF ReplaySeries, ReplaySamples
  <1>2. HeadData \subseteq RecoverableData BY <1>1 DEF ReplayedOnly
  <1>3. CASE head' = head BY <1>2, <1>3 DEF HeadData
  <1>4. CASE /\ r.ref \notin DOMAIN head
             /\ head' = Register(r.ref, NewSeries(r.lset))
    <2>1. /\ DOMAIN head' = DOMAIN head \cup {r.ref} /\ head'[r.ref].data = {}
          /\ \A ref \in DOMAIN head : head'[ref] = head[ref]
      BY <1>4 DEF Register, NewSeries
    <2> QED BY <1>2, <2>1 DEF HeadData
  <1>5. CASE /\ r.kind = "samples" /\ r.ref \in DOMAIN head
             /\ head' = Register(r.ref, Appended(head[r.ref], r.t, r.lset))
    <2>1. head[r.ref].lset = r.lset BY <1>1, <1>5, ReplayedLset
    <2>2. /\ DOMAIN head' = DOMAIN head
          /\ head'[r.ref].data = head[r.ref].data \cup {Logged(r)}
          /\ \A ref \in DOMAIN head : ref # r.ref => head'[ref] = head[ref]
      BY <1>5, <2>1 DEF Register, Appended, Logged
    <2>3. PICK q \in wal : IsSeries(q) /\ q.place <= pos /\ q.ref = r.ref
      BY <1>1, <1>5 DEF RefInv, ReplayRefs
    <2>4. q.place < r.place BY <1>1, <2>3 DEF IsNext, RefInv, TypeOK, Record
    <2>5. Recoverable(r)
      BY <1>5, <2>3, <2>4, RecoverableIff DEF GivesRef, IsSeries, IsSamples
    <2>6. Logged(r) \in RecoverableData BY <2>5 DEF RecoverableData
    <2> QED BY <1>2, <1>5, <2>2, <2>6 DEF HeadData
  <1> QED BY <1>3, <1>4, <1>5 DEF ReplaySeries, ReplaySamples

\* Reset, the ends of Truncate, a kill and the recovery from it.
LEMMA PlaceCleared ==
  ASSUME QuietLog, SampleInv, SeriesInv, PlaceInv,
         \/ Reset \/ TruncateStart \/ TruncateEnd \/ Crash \/ Open \/ ReplayEnd
         \/ \E r \in wal : ReplaySeries(r) \/ ReplaySamples(r)
  PROVE  PlaceInv'
  <1>0. /\ RefInv /\ TypeOK /\ ReplayedOnly
        /\ \A kind \in {"tear", "cut", "rotate", "truncate", "remove"} : ~Fault(kind)
    BY QuietFaults DEF SampleInv, RefInv, PlaceInv
  <1>1. wal' = wal /\ UNCHANGED <<blocks, acked, clobbered, horizon>>
    BY <1>0 DEF Reset, TruncateStart, TruncateEnd, Crash, Open, ReplayEnd, ReplaySeries,
       ReplaySamples, walVars, histVars
  <1>2. RecoverableData' = RecoverableData BY <1>1, SameLog
  <1>3. CASE Reset \/ TruncateStart \/ Crash \/ Open
    <2>1. DOMAIN head' = {}
      BY <1>0, <1>3 DEF Reset, TruncateStart, Crash, Open, EmptyHead, memVars, RefInv,
         ResetInv, DownHead
    <2>2. HeadData' = {} BY <2>1 DEF HeadData
    <2>3. TruncateStart => pc' = "removing"
      BY <1>0 DEF TruncateStart, SeriesInv, FileOpen, Up
    <2>4. pc' \in {"truncate", "removing", "down", "replay"}
      BY <1>3, <2>3 DEF Reset, Crash, Open
    <2>5. LogInHead' /\ ReplayedOnly' BY <2>2, <2>4 DEF LogInHead, ReplayedOnly, Up
    <2> QED BY <1>1, <1>2, <2>2, <2>5, PlaceRestart
  <1>4. CASE TruncateEnd
    <2>1. wal = {} /\ DOMAIN head' = {} /\ pc' \in {"retain", "idle"}
      BY <1>0, <1>4 DEF TruncateEnd, memVars, RefInv, ResetInv, RemovingInv
    <2>2. HeadData' = {} /\ RecoverableData = {} BY <2>1 DEF HeadData, RecoverableData
    <2>3. LogInHead' /\ ReplayedOnly' BY <1>2, <2>1, <2>2 DEF LogInHead, ReplayedOnly
    <2> QED BY <1>1, <1>2, <2>2, <2>3, PlaceRestart
  <1>5. ASSUME NEW r \in wal, ReplaySeries(r) \/ ReplaySamples(r) PROVE PlaceInv'
    <2>1. HeadData' \subseteq RecoverableData BY <1>0, <1>5, ReplayedIsLogged
    <2>2. pc' = "replay" BY <1>5 DEF ReplaySeries, ReplaySamples
    <2>3. ~Up' /\ LogInHead' /\ ReplayedOnly'
      BY <1>2, <2>1, <2>2 DEF LogInHead, ReplayedOnly, Up
    <2> QED BY <1>1, <1>2, <2>1, <2>3, PlaceRestart
  <1>6. CASE ReplayEnd
    <2>1. /\ pc = "replay" /\ pc' = "idle" /\ head' = head BY <1>6 DEF ReplayEnd
    <2>2. HeadData' = HeadData BY <2>1 DEF HeadData
    <2>3. RecoverableData \subseteq HeadData
      BY <1>0, <1>6, <2>1, AllReplayed
         DEF RecoverableData, SampleInv, DataInv, ReplayInv
    <2>4. HeadData' = RecoverableData BY <1>0, <2>1, <2>2, <2>3 DEF ReplayedOnly
    <2>5. LogInHead' /\ ReplayedOnly' BY <1>2, <2>1, <2>4 DEF LogInHead, ReplayedOnly
    <2> QED BY <1>1, <1>2, <2>4, <2>5, PlaceRestart
  <1> QED BY <1>3, <1>4, <1>5, <1>6

\* The first segment takes of a series all that came before what it leaves.
LEMMA PlaceRemoves ==
  ASSUME QuietLog, RefInv, RefInv', SeriesInv, PlaceInv, RemoveSegment
  PROVE  PlaceInv'
  <1>1. PICK s \in todo :
          (\A q \in todo : s <= q) /\ wal' = {r \in wal : r.seg # s}
    BY QuietFaults DEF RemoveSegment, RefInv
  <1>2. /\ pc = "removing" /\ pc' = "removing"
        /\ UNCHANGED <<head, blocks, acked, clobbered, horizon>>
    BY DEF RemoveSegment, memVars, histVars
  <1>3. s \in Nat /\ \A r \in wal : r.seg \in Nat /\ r.place \in Nat /\ s <= r.seg
    BY <1>1, <1>2 DEF RefInv, RemovingInv, TypeOK, Record
  <1>4. \A r : r \in wal' <=> r \in wal /\ s < r.seg BY <1>1, <1>3
  <1>5. HeadData = {} /\ HeadData' = {}
    BY <1>2 DEF RefInv, ResetInv, HeadData
  <1>6. /\ \A r \in wal : Recoverable(r) <=> IsSamples(r) /\ \E q \in wal : GivesRef(q, r)
        /\ \A r \in wal' : Recoverable(r)' <=> IsSamples(r) /\ \E q \in wal' : GivesRef(q, r)
    <2>1. \A r \in wal' : Reached(r)' BY DEF Reached, RefInv, NoTorn
    <2>2. \A r, q \in wal' : GivesRef(q, r) => q.lset = r.lset
      BY DEF GivesRef, RefInv, LogCoherent, IsSeries
    <2> QED BY <2>1, <2>2, RecoverableIffGiven DEF Recoverable, GivesRef, IsSamples
  <1>7. RecoverableData' \subseteq RecoverableData
    BY <1>4, <1>6 DEF RecoverableData, Logged
  <1>8. ASSUME NEW x \in RecoverableData, NEW f \in RecoverableData', x.lset = f.lset
        PROVE  x \in RecoverableData'
    <2>1. PICK r \in wal' : Recoverable(r)' /\ f = Logged(r)
      BY DEF RecoverableData, Logged
    <2>2. PICK g \in wal' : GivesRef(g, r) BY <1>6, <2>1
    <2>3. PICK p \in wal : Recoverable(p) /\ x = Logged(p) BY DEF RecoverableData
    <2>4. PICK q \in wal : GivesRef(q, p) BY <1>6, <2>3
    <2>5. /\ g.lset = r.lset /\ q.lset = p.lset
          /\ r.lset = p.lset
      <3>1. g.lset = r.lset BY <1>4, <2>2 DEF GivesRef, RefInv, LogCoherent, IsSeries
      <3>2. q.lset = p.lset BY <2>4 DEF GivesRef, RefInv, LogCoherent, IsSeries
      <3> QED BY <1>8, <2>1, <2>3, <3>1, <3>2 DEF Logged
    <2>6. q = g
      BY <1>4, <2>2, <2>4, <2>5 DEF SeriesInv, OneSeries, GivesRef, IsSeries
    <2>7. g.seg <= p.seg /\ s < g.seg
      BY <1>4, <2>2, <2>4, <2>6 DEF SeriesInv, SegmentsInOrder, GivesRef
    <2>8. p \in wal' BY <1>3, <1>4, <2>2, <2>7
    <2>9. Recoverable(p)' BY <1>6, <2>2, <2>3, <2>4, <2>6, <2>8
    <2> QED BY <2>3, <2>8, <2>9 DEF RecoverableData, Logged
  <1>9. /\ Raw(blocks') = Raw(blocks) /\ (InOrder' <=> InOrder)
        /\ \A x : (Wanted(x)' <=> Wanted(x)) /\ (Earlier(x)' <=> Earlier(x))
    BY <1>2, SameBlocks
  <1>10. LogInHead' /\ ReplayedOnly' /\ Reappended' /\ Whole(HeadData)'
    BY <1>2, <1>5 DEF LogInHead, ReplayedOnly, Reappended, Whole
  <1>11. AfterBlocks(HeadData)' /\ AfterBlocks(RecoverableData)'
    BY <1>5, <1>7, <1>9 DEF PlaceInv, AfterBlocks
  <1>12. Whole(RecoverableData)'
    BY <1>7, <1>8, <1>9 DEF PlaceInv, Whole, Beyond
  <1> QED BY <1>9, <1>10, <1>11, <1>12 DEF PlaceInv

\* A record adds at most its own sample.
LEMMA OneSampleLogged ==
  ASSUME RefInv, RefInv', NEW kind \in {"series", "samples"}, Write(kind)
  PROVE  RecoverableData' \subseteq
           RecoverableData \cup {[lset |-> cur.lset, t |-> cur.t, v |-> cur.lset]}
  <1> DEFINE n == LogRecord(kind)
  <1>1. wal' = wal \cup {n} /\ n.place = end + 1 BY DEF Write, LogRecord
  <1>2. Logged(n) = [lset |-> cur.lset, t |-> cur.t, v |-> cur.lset]
    BY DEF LogRecord, Logged
  <1> HIDE DEF n
  <1>3. end \in Nat /\ \A r \in wal : r.place \in Nat /\ r.place <= end
    BY DEF RefInv, PlacesUnique, TypeOK, Record
  <1>4. ASSUME NEW r \in wal, Recoverable(r)' PROVE Recoverable(r)
    <2>1. IsSamples(r) BY <1>4 DEF Recoverable, IsSamples
    <2>2. PICK q \in wal' : GivesRef(q, r) BY <1>4 DEF Recoverable, GivesRef
    <2>3. q \in wal BY <1>1, <1>3, <2>2 DEF GivesRef
    <2> QED BY <2>1, <2>2, <2>3, RecoverableIff
  <1> QED BY <1>1, <1>2, <1>4 DEF RecoverableData, Logged

\* A block goes when retention gives its samples up, or its namesake comes.
LEMMA GoneBlocks ==
  ASSUME TypeOK, NotLater, RemovesOld \/ ApplyRetention,
         NEW d \in Raw(blocks), d \notin Raw(blocks'), NEW s \in d.data
  PROVE  Forgotten("raw", s)' \/ s \in HeadData \cap RecoverableData
  <1>1. d \in blocks /\ d.res = "raw" /\ d \notin blocks' BY DEF Raw
  <1>2. "raw" \in Res /\ clobbered \in [Res -> SUBSET Samples] BY DEF Res, TypeOK
  <1>3. CASE RemovesOld
    <2>1. PICK res \in Res, lo \in Time, hi \in Time :
            /\ blocks' = blocks \ Namesakes(res, lo, hi)
            /\ clobbered' = [clobbered EXCEPT ![res] =
                               @ \cup LostWith(Namesakes(res, lo, hi))]
      BY <1>1, <1>3 DEF RemovesOld, RemoveOld, Res
    <2>2. d \in Namesakes(res, lo, hi) /\ res = "raw" BY <1>1, <2>1 DEF Namesakes
    <2>3. s \in LostWith(Namesakes(res, lo, hi)) \/ s \in HeadData \cap RecoverableData
      BY <2>2, LostOrKept
    <2>4. LostWith(Namesakes(res, lo, hi)) \subseteq clobbered'["raw"] BY <1>2, <2>1, <2>2
    <2> QED BY <2>3, <2>4 DEF Forgotten
  <1>4. CASE ApplyRetention
    <2>1. Expired(d) /\ horizon'["raw"] = HorizonAfter("raw")
      BY <1>1, <1>2, <1>4 DEF ApplyRetention
    <2>2. now \in Nat /\ horizon["raw"] \in Nat /\ Retention("raw") \in Nat
      BY <1>2, ConstantsAssumption DEF TypeOK, Time, Retention
    <2>3. /\ d.maxT \in Nat /\ s.t \in Nat /\ StoredAt("raw", s.t) = s.t
          /\ s.t <= d.maxT
      BY <1>1 DEF TypeOK, Block, Samples, Time, StoredAt, NotLater
    <2>4. Retention("raw") > 0 /\ d.maxT < now - Retention("raw")
      BY <1>1, <2>1 DEF Expired
    <2>5. StoredAt("raw", s.t) < horizon'["raw"]
      BY <2>1, <2>2, <2>3, <2>4 DEF HorizonAfter
    <2> QED BY <2>5 DEF Forgotten
  <1> QED BY <1>3, <1>4

LEMMA PlaceStep ==
  ASSUME QuietLog, FullInv, RangesInv, SeriesInv, PlaceInv, FullInv', RangesInv',
         [Next]_vars
  PROVE  PlaceInv'
  <1>0. /\ MonotoneClock /\ RefInv /\ RefInv' /\ TypeOK /\ TypeOK' /\ Inv /\ HeldInv /\ RangeInv
        /\ RangeInv'
    BY QuietLogWhole DEF FullInv, RefInv, RangesInv
  <1>1. SampleInv /\ NotLater BY <1>0, FullImpliesSample DEF SampleInv
  <1>2. Durable BY <1>0, FullImpliesDurable
  <1>3. Durable'
    <2>1. (MonotoneClock /\ FullInv => Durable)' BY FullImpliesDurable, PTL
    <2> QED BY <1>0, <2>1 DEF MonotoneClock
  <1>4. ASSUME NEW l \in Lsets, NEW t \in Time, AppendHead(l, t) PROVE PlaceInv'
    <2>1. HeadGrows /\ clock <= clock' BY <1>0, <1>4, AppendEffect
    <2>2. /\ UNCHANGED <<wal, blocks, acked, clobbered, horizon>>
          /\ Up /\ Up' /\ pc \notin {"truncate", "removing"}
      BY <1>4 DEF AppendHead, walVars, histVars, Up
    <2>3. RecoverableData' = RecoverableData BY <2>2, SameLog
    <2>4. PICK x \in Samples : HeadData' = HeadData \cup {x} /\ x.t = clock'
      BY <2>1 DEF HeadGrows
    <2>5. clock' \in Nat BY <1>0 DEF TypeOK, Time
    <2> QED BY <1>0, <1>2, <2>1, <2>2, <2>3, <2>4, <2>5, PlaceAppend
  <1>5. CASE LogSeries \/ LogSamples
    <2> DEFINE x == [lset |-> cur.lset, t |-> cur.t, v |-> cur.lset]
    <2>1. /\ UNCHANGED <<head, blocks, clobbered, horizon>>
          /\ pc \in {"logSeries", "logSamples"} /\ Up
      BY <1>5 DEF LogSeries, LogSamples, memVars, histVars, Up
    <2>2. HeadData' = HeadData BY <2>1 DEF HeadData
    <2>3. x \in HeadData /\ x.t = clock
      BY <2>1 DEF HeadData, FullInv, RefInv, AppendInProgress, TimeInv, ClockInv
    <2>4. CASE UNCHANGED walVars /\ pc' = "idle" /\ acked' = acked
      <3>1. RecoverableData' = RecoverableData BY <2>4, SameLog DEF walVars
      <3>2. Up' /\ pc \notin {"truncate", "removing"} BY <2>1, <2>4 DEF Up
      <3> HIDE DEF x
      <3> QED BY <1>0, <1>3, <2>1, <2>2, <2>3, <2>4, <3>1, <3>2, PlaceLog
    <2>5. ASSUME NEW kind \in {"series", "samples"}, Write(kind), Up',
                 acked \subseteq acked', acked' \subseteq acked \cup {x}
          PROVE  PlaceInv'
      <3>1. RecoverableData \subseteq RecoverableData'
        BY <1>0, <2>5, WriteKeepsRecoverable
      <3>2. RecoverableData' \subseteq RecoverableData \cup {x}
        BY <1>0, <2>5, OneSampleLogged
      <3>3. pc \notin {"truncate", "removing"} BY <2>1
      <3> HIDE DEF x
      <3> QED BY <1>0, <1>3, <2>1, <2>2, <2>3, <2>5, <3>1, <3>2, <3>3, PlaceLog
    <2>6. CASE Write("series") /\ pc' = "logSamples" /\ acked' = acked
      <3>1. Up' BY <2>6 DEF Up
      <3> QED BY <2>5, <2>6, <3>1
    <2>7. CASE Write("samples") /\ pc' = "idle" /\ acked' = acked \cup {x}
      <3>1. Up' BY <2>7 DEF Up
      <3> QED BY <2>5, <2>7, <3>1
    <2> QED BY <1>0, <1>5, <2>4, <2>6, <2>7, QuietWrite
  <1>6. ASSUME UNCHANGED <<head, wal, acked>>, Up, Up', pc \notin {"truncate", "removing"},
               Raw(blocks') \subseteq Raw(blocks),
               \A s \in Samples : Forgotten("raw", s) => Forgotten("raw", s)',
               \A d \in Raw(blocks) : d \notin Raw(blocks') =>
                 \A s \in d.data : Forgotten("raw", s)' \/ s \in HeadData \cap RecoverableData
        PROVE  PlaceInv'
    <2>1. HeadData' = HeadData BY <1>6 DEF HeadData
    <2>2. RecoverableData' = RecoverableData BY <1>6, SameLog
    <2> QED BY <1>0, <1>6, <2>1, <2>2, PlaceGone
  <1>7. CASE \/ \E l \in Lsets, t \in Time : AppendRejected(l, t)
             \/ \E t \in Time : CompactStart(t)
    <2>1. /\ UNCHANGED <<head, wal, acked, blocks, clobbered, horizon>>
          /\ Up /\ Up' /\ pc \notin {"truncate", "removing"}
      BY <1>7 DEF AppendRejected, CompactStart, memVars, walVars, histVars, Up
    <2>2. \A s : Forgotten("raw", s)' <=> Forgotten("raw", s) BY <2>1 DEF Forgotten
    <2>3. Raw(blocks') = Raw(blocks) BY <2>1
    <2> QED BY <1>6, <2>1, <2>2, <2>3
  <1>8. CASE RemovesOld \/ ApplyRetention
    <2>1. /\ UNCHANGED <<head, wal, acked>> /\ blocks' \subseteq blocks
          /\ Up /\ Up' /\ pc \notin {"truncate", "removing"}
      BY <1>8 DEF RemovesOld, RemoveOld, ApplyRetention, memVars, walVars, Up
    <2>2. Next BY <1>8 DEF Next, WriteRawBlock, WriteRollupBlock, RemovesOld
    <2>3. \A s \in Samples : Forgotten("raw", s) => Forgotten("raw", s)'
      BY <1>0, <1>1, <2>2, SafeOn
    <2>4. Raw(blocks') \subseteq Raw(blocks) BY <2>1 DEF Raw
    <2>5. \A d \in Raw(blocks) : d \notin Raw(blocks') =>
            \A s \in d.data : Forgotten("raw", s)' \/ s \in HeadData \cap RecoverableData
      BY <1>0, <1>1, <1>8, GoneBlocks
    <2> QED BY <1>6, <2>1, <2>3, <2>4, <2>5
  <1>9. CASE Renames
    <2>1. /\ UNCHANGED <<head, wal, acked, clobbered, horizon>>
          /\ Up /\ Up' /\ pc \notin {"truncate", "removing"} /\ blocks \subseteq blocks'
      BY <1>9 DEF Renames, Rename, memVars, walVars, histVars, Up
    <2>2. \A s : Forgotten("raw", s)' <=> Forgotten("raw", s) BY <2>1 DEF Forgotten
    <2>3. RecoverableData' = RecoverableData BY <2>1, SameLog
    <2>4. CASE BlockComes BY <1>0, <2>1, <2>3, <2>4, PlaceBlock
    <2>5. CASE BlocksGo
      <3>1. Raw(blocks') = Raw(blocks) BY <2>1, <2>5 DEF BlocksGo, Raw
      <3> QED BY <1>6, <2>1, <2>2, <3>1
    <2> QED BY <1>0, <1>9, <2>4, <2>5, RenameEffect
  <1>10. CASE \/ Reset \/ TruncateStart \/ TruncateEnd \/ Crash \/ Open \/ ReplayEnd
              \/ \E r \in wal : ReplaySeries(r) \/ ReplaySamples(r)
    BY <1>1, <1>10, PlaceCleared
  <1>11. CASE RemoveSegment BY <1>0, <1>11, PlaceRemoves
  <1>12. CASE UNCHANGED vars
    <2>1. UNCHANGED <<head, pc, wal, blocks, acked, clobbered, horizon>>
      BY <1>12 DEF vars, memVars, walVars, histVars
    <2>2. HeadData' = HeadData /\ RecoverableData' = RecoverableData
      BY <2>1, SameLog DEF HeadData
    <2>3. \A s : (Wanted(s)' <=> Wanted(s)) /\ (Earlier(s)' <=> Earlier(s)) BY <2>1, SameBlocks
    <2>4. InOrder' BY <2>1, SameBlocks DEF PlaceInv
    <2>5. LogInHead' /\ ReplayedOnly' /\ Reappended'
      BY <2>1, <2>2, <2>3 DEF PlaceInv, LogInHead, ReplayedOnly, Reappended, Up
    <2>6. AfterBlocks(HeadData)' /\ AfterBlocks(RecoverableData)'
      BY <2>1, <2>2 DEF PlaceInv, AfterBlocks
    <2>7. Whole(RecoverableData)' /\ (Up' => Whole(HeadData)')
      BY <2>1, <2>2, <2>3 DEF PlaceInv, Whole, Up
    <2> QED BY <2>4, <2>5, <2>6, <2>7 DEF PlaceInv
  <1> QED BY <1>4, <1>5, <1>7, <1>8, <1>9, <1>10, <1>11, <1>12
        DEF Next, WriteRawBlock, WriteRollupBlock, RemovesOld, Renames

LEMMA PlaceInit == Init => PlaceInv
  <1> SUFFICES ASSUME Init PROVE PlaceInv OBVIOUS
  <1>1. DOMAIN head = {} /\ wal = {} /\ blocks = {} /\ pc = "idle" BY DEF Init, EmptyHead
  <1>2. HeadData = {} /\ RecoverableData = {} /\ Raw(blocks) = {}
    BY <1>1 DEF HeadData, RecoverableData, Raw
  <1> QED BY <1>1, <1>2 DEF PlaceInv, LogInHead, ReplayedOnly, AfterBlocks, Whole,
       Reappended, InOrder

WholePlaceInv == FullInv /\ RangesInv /\ SeriesInv /\ PlaceInv

LEMMA PlaceInvariant == ASSUME QuietLog PROVE Spec => []WholePlaceInv
  <1>1. WholeWrites /\ MonotoneClock BY QuietLogWhole
  <1>2. Spec => []FullInv BY <1>1, DataInvariant
  <1>3. Init => SeriesInv /\ PlaceInv BY SeriesInit, PlaceInit
  <1>4. ASSUME FullInv, RangesInv, SeriesInv, PlaceInv, FullInv', RangesInv', [Next]_vars
        PROVE  SeriesInv' /\ PlaceInv'
    BY <1>4, SeriesStep, PlaceStep DEF FullInv
  <1> QED BY <1>2, <1>3, <1>4, RangesInvariant, PTL DEF Spec, WholePlaceInv

-----------------------------------------------------------------------------
(* The reader of the acknowledged samples.                                  *)

\* What the reader has opened is in the order the blocks were in when it did so, and
\* with the head it has what was acknowledged by then, as long as Compact has not
\* emptied the head.
OpenedAsked ==
  /\ qblocks \subseteq Block
  /\ \A b, c \in Raw(qblocks) : b.minT = c.minT /\ b.maxT = c.maxT => b = c
  /\ \A b \in Raw(qblocks) :
       /\ b.maxT <= clock
       /\ \A s \in b.data : s.t <= b.maxT /\ s.v = s.lset
       /\ \A s \in HeadData : s \in b.data \/ b.maxT <= s.t
  /\ \A b, c \in Raw(qblocks) : Before(b, c) =>
       \A s \in c.data : \A f \in b.data : s \in qacked /\ Beyond(f, s) =>
         \E d \in Raw(qblocks) : s \in d.data /\ Before(d, b)
  /\ \A s \in qacked : s \in Samples /\ InWindow(s.t)
  /\ ~qreset => \A s \in qacked : s \in HeadData \/ \E b \in Raw(qblocks) : s \in b.data

AskedInv ==
  /\ qmaxt \in Nat
  /\ ~Up => qpc = "none"
  /\ qpc = "open" => OpenedAsked
  /\ QueryComplete

LEMMA AskedOpens ==
  ASSUME WholePlaceInv, AskedInv, NEW t \in Time, OpenQuerier(t)
  PROVE  AskedInv'
  <1>0. Inv /\ RangeInv /\ PlaceInv /\ RefInv /\ TypeOK /\ Readable
    BY FullImpliesReadable DEF WholePlaceInv, RangesInv, FullInv, RefInv
  <1>1. /\ pc = "idle" /\ qpc' = "open" /\ qmaxt' = t
        /\ qblocks' = {b \in blocks : Overlaps(b, t)}
        /\ qacked' = {s \in acked : t - Lookback <= s.t /\ s.t <= t /\ ~Forgotten("raw", s)}
        /\ UNCHANGED vars
    BY DEF OpenQuerier
  <1>2. UNCHANGED <<head, pc, clock>> BY <1>1 DEF vars, memVars
  <1>3. HeadData' = HeadData /\ Up /\ Up' BY <1>1, <1>2 DEF HeadData, Up
  <1>4. Raw(qblocks') \subseteq Raw(blocks) /\ qblocks' \subseteq blocks BY <1>1 DEF Raw
  <1>5. t \in Nat /\ blocks \subseteq Block BY <1>0 DEF TypeOK, Time
  <1>6. \A s \in qacked' : s \in Samples /\ Wanted(s) /\ t - Lookback <= s.t /\ s.t <= t
    BY <1>0, <1>1, LoggedType DEF Wanted
  <1>7. ASSUME NEW s \in qacked', NEW b \in Raw(blocks), s \in b.data
        PROVE  b \in Raw(qblocks')
    <2>1. b.minT <= s.t /\ s.t <= b.maxT /\ s.t \in Nat /\ b.minT \in Nat /\ b.maxT \in Nat
      BY <1>0, <1>7, RawFacts
    <2>2. Overlaps(b, t) BY <1>5, <1>6, <2>1, QueryAssumption DEF Overlaps
    <2> QED BY <1>1, <2>2 DEF Raw
  <1>8. \A s \in qacked' : s \in HeadData \/ \E b \in Raw(qblocks') : s \in b.data
    <2>1. \A s \in qacked' : s \in HeadData \/ \E b \in Raw(blocks) : s \in b.data
      BY <1>0, <1>3, <1>6 DEF Readable, Wanted, DataOf, Raw
    <2> QED BY <1>7, <2>1
  <1>9. \A b \in Raw(qblocks') :
          /\ b.maxT <= clock
          /\ \A s \in b.data : s.t <= b.maxT /\ s.v = s.lset
          /\ \A s \in HeadData : s \in b.data \/ b.maxT <= s.t
    <2> SUFFICES ASSUME NEW b \in Raw(blocks)
                 PROVE  /\ b.maxT <= clock
                        /\ \A s \in b.data : s.t <= b.maxT /\ s.v = s.lset
                        /\ \A s \in HeadData : s \in b.data \/ b.maxT <= s.t
      BY <1>4
    <2>1. b \in blocks BY DEF Raw
    <2>2. \A s \in b.data : s.v = s.lset BY <1>0, <2>1 DEF RefInv, BlocksFaithful
    <2>3. \A s \in HeadData : s \in b.data \/ b.maxT <= s.t BY <1>0 DEF PlaceInv, AfterBlocks
    <2> QED BY <1>0, <2>2, <2>3, RawFacts
  <1>10. \A b, c \in Raw(qblocks') : b.minT = c.minT /\ b.maxT = c.maxT => b = c
    BY <1>0, <1>4 DEF RangeInv, OneOfARange
  <1>11. ASSUME NEW b \in Raw(qblocks'), NEW c \in Raw(qblocks'), Before(b, c),
                NEW s \in c.data, NEW f \in b.data, s \in qacked', Beyond(f, s)
         PROVE  \E d \in Raw(qblocks') : s \in d.data /\ Before(d, b)
    <2>1. PICK d \in Raw(blocks) : s \in d.data /\ Before(d, b)
      BY <1>0, <1>4, <1>6, <1>11 DEF PlaceInv, InOrder
    <2> QED BY <1>7, <1>11, <2>1
  <1>12. \A s \in qacked' : InWindow(s.t)' BY <1>1, <1>6 DEF InWindow, qmint
  <1>13. OpenedAsked'
    BY <1>2, <1>3, <1>4, <1>5, <1>6, <1>8, <1>9, <1>10, <1>11, <1>12 DEF OpenedAsked
  <1> QED BY <1>1, <1>3, <1>5, <1>13 DEF AskedInv, QueryComplete

LEMMA AskedSelects ==
  ASSUME WholePlaceInv, AskedInv, Select
  PROVE  AskedInv'
  <1>0. Inv /\ RangeInv /\ RefInv
    BY DEF WholePlaceInv, RangesInv, FullInv
  <1>1. /\ qpc = "open" /\ qpc' = "read" /\ UNCHANGED <<vars, qmaxt, qacked, qreset>>
    BY DEF Select
  <1>2. Up /\ Up' BY <1>1 DEF vars, Up, AskedInv
  <1>3. OpenedAsked /\ qmaxt \in Nat BY <1>1 DEF AskedInv
  <1>4. qblocks \subseteq Block /\ HeadData \subseteq Samples
    BY <1>0, <1>3, RawFacts DEF OpenedAsked
  <1>5. /\ \A x \in HeadData : x.v = x.lset
        /\ \A b \in Raw(qblocks) : \A x \in b.data : x \in Samples /\ x.v = x.lset
    <2>1. \A x \in HeadData : x.v = x.lset BY <1>0 DEF RefInv, HeadFaithful, HeadData
    <2> QED BY <1>3, <1>4, <2>1 DEF OpenedAsked, Raw, Block
  <1>6. ASSUME ~qreset, NEW s \in qacked PROVE Emitted(s)'
    <2>1. s \in Samples /\ InWindow(s.t) BY <1>3 DEF OpenedAsked
    <2>2. s \in HeadData \/ \E b \in Raw(qblocks) : s \in b.data
      BY <1>3, <1>6 DEF OpenedAsked
    <2>3. s.v = s.lset BY <1>5, <2>2
    <2>4. \A x \in Samples : x.lset = s.lset /\ x.t = s.t /\ x.v = x.lset => x = s
      BY <2>1, <2>3 DEF Samples
    <2>5. \A x \in HeadData : x.lset = s.lset /\ x.t = s.t => x = s
      BY <1>4, <1>5, <2>4
    <2>6. \A b \in Raw(qblocks) : \A x \in b.data : x.lset = s.lset /\ x.t = s.t => x = s
      BY <1>5, <2>4
    <2>7. ASSUME NEW b \in Raw(qblocks), NEW f \in b.data, s \in HeadData, Beyond(f, s)
          PROVE  s \in b.data
      <3>1. s \in b.data \/ b.maxT <= s.t BY <1>3, <2>7 DEF OpenedAsked
      <3>2. f.t <= b.maxT BY <1>3 DEF OpenedAsked
      <3>3. f.t \in Nat /\ s.t \in Nat /\ b.maxT \in Nat
        BY <1>4, <1>5, <2>1 DEF Raw, Block, Samples, Time
      <3> QED BY <2>7, <3>1, <3>2, <3>3 DEF Beyond
    <2>8. \A b, c \in Raw(qblocks) : Before(b, c) /\ s \in c.data =>
            \A f \in b.data : Beyond(f, s) =>
              \E d \in Raw(qblocks) : s \in d.data /\ Before(d, b)
      BY <1>3, <1>6 DEF OpenedAsked
    <2>9. \A b, c \in Raw(qblocks) : b.minT = c.minT /\ b.maxT = c.maxT => b = c
      BY <1>3 DEF OpenedAsked
    <2> QED BY <1>3, <1>4, <2>1, <2>2, <2>5, <2>6, <2>7, <2>8, <2>9, Emits
  <1>7. QueryComplete' BY <1>1, <1>6 DEF QueryComplete
  <1> QED BY <1>1, <1>2, <1>3, <1>7 DEF AskedInv

LEMMA AskedBeside ==
  ASSUME MonotoneClock, RangesInv, TypeOK', AskedInv, WritePathStep
  PROVE  AskedInv'
  <1>1. /\ Next /\ UNCHANGED qmaxt /\ Inv /\ HeldInv /\ RangeInv /\ TypeOK
    BY DEF WritePathStep, RangesInv, HeldInv
  <1>2. CASE pc' = "down" \/ ~Up \/ ~Up'
    <2>1. pc' = "down" \/ ~Up BY <1>1, <1>2, StoppedStep
    <2>2. qpc' = "none" BY <2>1 DEF WritePathStep, AskedInv
    <2> QED BY <1>1, <2>2 DEF AskedInv, QueryComplete
  <1>3. CASE Up /\ Up'
    <2>1. AppendsOrCompacts /\ clock <= clock' BY <1>1, <1>3, RunningStep
    <2>2. /\ UNCHANGED <<qpc, qblocks, qresult, qacked>>
          /\ qreset' = (qreset \/ (qpc = "open" /\ pc = "reset"))
      BY <1>3 DEF WritePathStep, Up
    <2>3. \A s : (InWindow(s.t)' <=> InWindow(s.t)) /\ (Emitted(s)' <=> Emitted(s))
      BY <1>1, <2>2 DEF InWindow, qmint, Emitted
    <2>4. QueryComplete' BY <2>2, <2>3 DEF AskedInv, QueryComplete
    <2>5. ASSUME qpc = "open" PROVE OpenedAsked'
      <3>1. OpenedAsked BY <2>5 DEF AskedInv
      <3>2. /\ clock \in Nat /\ clock' \in Nat
            /\ \A b \in Raw(qblocks) : b.maxT \in Nat
        BY <1>1, <3>1 DEF TypeOK, OpenedAsked, Raw, Block, Time
      <3>3. \A x \in HeadData' : x \in HeadData \/ x.t = clock'
        BY <2>1 DEF AppendsOrCompacts, HeadGrows, BlockComes, BlocksGo, HeadGoes
      <3>4. \A b \in Raw(qblocks) : b.maxT <= clock'
        BY <2>1, <3>1, <3>2 DEF OpenedAsked
      <3>5. \A b \in Raw(qblocks) : \A s \in HeadData' : s \in b.data \/ b.maxT <= s.t
        BY <3>1, <3>3, <3>4 DEF OpenedAsked
      <3>6. ASSUME ~qreset', NEW s \in qacked
            PROVE  s \in HeadData' \/ \E b \in Raw(qblocks) : s \in b.data
        <4>1. ~qreset /\ pc # "reset" BY <2>2, <2>5, <3>6
        <4>2. HeadData \subseteq HeadData'
          BY <2>1, <4>1 DEF AppendsOrCompacts, HeadGrows, BlockComes, BlocksGo, HeadGoes
        <4> QED BY <3>1, <4>1, <4>2 DEF OpenedAsked
      <3>7. /\ qblocks' \subseteq Block
            /\ \A b, c \in Raw(qblocks') : b.minT = c.minT /\ b.maxT = c.maxT => b = c
            /\ \A b \in Raw(qblocks') : \A s \in b.data : s.t <= b.maxT /\ s.v = s.lset
            /\ \A b, c \in Raw(qblocks') : Before(b, c) =>
                 \A s \in c.data : \A f \in b.data : s \in qacked' /\ Beyond(f, s) =>
                   \E d \in Raw(qblocks') : s \in d.data /\ Before(d, b)
            /\ \A s \in qacked' : s \in Samples /\ InWindow(s.t)'
        BY <2>2, <2>3, <3>1 DEF OpenedAsked
      <3> QED BY <2>2, <3>4, <3>5, <3>6, <3>7 DEF OpenedAsked
    <2> QED BY <1>1, <1>3, <2>2, <2>4, <2>5 DEF AskedInv
  <1> QED BY <1>2, <1>3

LEMMA AskedStutters ==
  ASSUME AskedInv, UNCHANGED <<vars, qvars>>
  PROVE  AskedInv'
  <1>1. UNCHANGED <<head, pc, clock>> BY DEF vars, memVars
  <1>2. UNCHANGED <<qpc, qmaxt, qblocks, qresult, qacked, qreset>> BY DEF qvars
  <1>3. /\ HeadData' = HeadData /\ (Up <=> Up')
        /\ \A s : (InWindow(s.t)' <=> InWindow(s.t)) /\ (Emitted(s)' <=> Emitted(s))
    BY <1>1, <1>2 DEF HeadData, Up, InWindow, qmint, Emitted
  <1>4. OpenedAsked => OpenedAsked' BY <1>1, <1>2, <1>3 DEF OpenedAsked
  <1> QED BY <1>2, <1>3, <1>4 DEF AskedInv, QueryComplete

\* THEOREM: under any number of kills, of failed writes, of failed steps of a block and
\* of failed removals by retention, a reader sees every acknowledged sample of its window
\* that neither retention nor the loss of a block to its namesake has given up, whether
\* it is in a block, in the head or in both, unless Compact empties the head between its
\* Querier and its Select.
THEOREM ReadersSeeTheAcknowledged == ASSUME QuietLog PROVE QSpec => []QueryComplete
  <1>1. QInit => AskedInv
    <2> SUFFICES ASSUME QInit PROVE AskedInv OBVIOUS
    <2>1. pc = "idle" /\ qpc = "none" /\ qmaxt = 0 BY DEF QInit, Init
    <2> QED BY <2>1 DEF AskedInv, QueryComplete, Up
  <1>2. ASSUME WholePlaceInv, WholePlaceInv', AskedInv, [QNext]_<<vars, qvars>>
        PROVE  AskedInv'
    <2>1. MonotoneClock BY QueryAssumption DEF MonotoneClock
    <2>2. RangesInv /\ TypeOK' BY <1>2 DEF WholePlaceInv, FullInv, RefInv
    <2>3. CASE WritePathStep BY <1>2, <2>1, <2>2, <2>3, AskedBeside
    <2>4. ASSUME NEW t \in Time, OpenQuerier(t) PROVE AskedInv'
      BY <1>2, <2>4, AskedOpens
    <2>5. CASE Select BY <1>2, <2>5, AskedSelects
    <2>6. CASE CloseQuerier
      <3>1. qpc' = "none" /\ qmaxt' = qmaxt BY <2>6 DEF CloseQuerier
      <3> QED BY <1>2, <3>1 DEF AskedInv, QueryComplete
    <2>7. CASE UNCHANGED <<vars, qvars>> BY <1>2, <2>7, AskedStutters
    <2> QED BY <1>2, <2>3, <2>4, <2>5, <2>6, <2>7 DEF QNext
  <1>3. AskedInv => QueryComplete BY DEF AskedInv
  <1> QED BY <1>1, <1>2, <1>3, WritePathBeside, PlaceInvariant, PTL DEF QSpec

=============================================================================
