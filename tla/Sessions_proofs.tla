--------------------------- MODULE Sessions_proofs ---------------------------
(***************************************************************************)
(* What holds of the sessions for any number of requests and tokens, any   *)
(* lifetimes, delays and restarts.                                         *)
(***************************************************************************)
EXTENDS Sessions, FiniteSetTheorems, TLAPS

Logins == {p \in Requests : pc[p] \in {"verify", "create"}}

\* The slots are counted, so there are finitely many logins whatever Requests is.
SlotInv == IsFiniteSet(Logins) /\ loginSem = Cardinality(Logins)

\* What the store has of a token: it was drawn and has not ended, its creation is its
\* birth, and it was seen at most a delay before its last use.
Known(k) ==
  /\ k \in drawn \ ended
  /\ sessions[k].createdAgo = born[k]
  /\ sessions[k].seenAgo <= unused[k] + MaxDelay

SessionInv == \A k \in DOMAIN sessions : Known(k)

\* A login that is about to store its session has a token nobody has logged out.
CreateInv == \A p \in Requests : pc[p] = "create" => tok[p] \in drawn \ ended

\* The tokens whose session may be gone although nobody ended it.
Worn(k) == unused[k] + MaxDelay >= IdleTTL \/ born[k] >= AbsoluteTTL

KeptInv == \A k \in Handed \ ended : k \in DOMAIN sessions \/ Worn(k)

IInv == TypeOK /\ SlotInv /\ CreateInv /\ SessionInv /\ KeptInv

-----------------------------------------------------------------------------
\* Initially there is no session, no request and no token.
LEMMA InitIInv == Init => IInv
<1> SUFFICES ASSUME Init PROVE IInv
  OBVIOUS
<1> USE SessionsAssumption DEF Init
<1>1. TypeOK
  BY DEF TypeOK, NoSessions, MaxAge, MaxIdle
<1>2. SlotInv
  <2>1. Logins = {}
    BY DEF Logins
  <2>. QED
    BY <2>1, FS_EmptySet DEF SlotInv
<1>3. CreateInv /\ SessionInv /\ KeptInv
  BY DEF CreateInv, SessionInv, KeptInv, Handed, NoSessions
<1>. QED
  BY <1>1, <1>2, <1>3 DEF IInv

\* One request moves: the logins are what its own step makes of them.
LEMMA LoginsAfter ==
  ASSUME TypeOK, NEW p \in Requests, NEW l, pc' = [pc EXCEPT ![p] = l]
  PROVE  Logins' = IF l \in {"verify", "create"} THEN Logins \cup {p} ELSE Logins \ {p}
BY DEF TypeOK, Logins

\* Every way into a login takes one slot, every way out gives one back.
LEMMA SlotNext == TypeOK /\ SlotInv /\ [Next]_vars => SlotInv'
<1> SUFFICES ASSUME TypeOK, SlotInv, [Next]_vars PROVE SlotInv'
  OBVIOUS
<1>0. Cardinality(Logins) \in Nat
  BY FS_CardinalityType DEF SlotInv
<1>1. ASSUME NEW p \in Requests, LoginStart(p) PROVE SlotInv'
  <2>1. Logins' = Logins \cup {p} /\ p \notin Logins
    BY <1>1, LoginsAfter DEF LoginStart, Proceed, Logins
  <2>. QED
    BY <2>1, <1>1, FS_AddElement DEF SlotInv, LoginStart
<1>2. ASSUME NEW p \in Requests, LoginFails(p) \/ Create(p) PROVE SlotInv'
  <2>1. Logins' = Logins \ {p} /\ p \in Logins /\ loginSem' = loginSem - 1
    BY <1>2, LoginsAfter DEF LoginFails, Create, Answer, Proceed, Released, Logins
  <2>. QED
    BY <2>1, FS_RemoveElement DEF SlotInv
<1>3. ASSUME NEW p \in Requests, DrawToken(p) PROVE SlotInv'
  <2>1. PICK k \in Tokens : Proceed(p, "create", k)
    BY <1>3 DEF DrawToken
  <2>2. Logins' = Logins
    BY <1>3, <2>1, LoginsAfter DEF DrawToken, Proceed, Logins
  <2>. QED
    BY <2>2, <1>3 DEF SlotInv, DrawToken
<1>4. ASSUME NEW p \in Requests, Accept(p) \/ Reject(p) \/ Serve(p) PROVE SlotInv'
  <2>1. Logins' = Logins
    BY <1>4, LoginsAfter DEF Accept, Reject, Serve, Answer, Proceed, Logins
  <2>. QED
    BY <2>1, <1>4 DEF SlotInv, Accept, Reject, Serve
<1>5. ASSUME NEW p \in Requests, NEW k, ValidateStart(p, k) PROVE SlotInv'
  <2>1. Logins' = Logins
    BY <1>5, LoginsAfter DEF ValidateStart, Proceed, Logins
  <2>. QED
    BY <2>1, <1>5 DEF SlotInv, ValidateStart
<1>6. CASE Restart
  <2>1. Logins' = {} /\ loginSem' = 0
    BY <1>6 DEF Restart, Logins
  <2>. QED
    BY <2>1, FS_EmptySet DEF SlotInv
<1>7. CASE Advance \/ (\E k \in Handed : Logout(k)) \/ UNCHANGED vars
  BY <1>7 DEF Advance, Logout, vars, requestVars, SlotInv, Logins
<1>. QED
  BY <1>1, <1>2, <1>3, <1>4, <1>5, <1>6, <1>7 DEF Next, Serving

\* The types, for which the slots must be counted: a semaphore released too often would
\* leave its range.
LEMMA TypeNext == TypeOK /\ SlotInv /\ CreateInv /\ [Next]_vars => TypeOK'
<1> SUFFICES ASSUME TypeOK, SlotInv, CreateInv, [Next]_vars PROVE TypeOK'
  OBVIOUS
<1> USE SessionsAssumption DEF TypeOK, MaxAge, MaxIdle, Session
<1>0. loginSem' \in Nat
  BY SlotNext, FS_CardinalityType DEF SlotInv, TypeOK
<1>1. ASSUME NEW p \in Requests, LoginStart(p) PROVE TypeOK'
  BY <1>0, <1>1 DEF LoginStart, Proceed, histVars
<1>2. ASSUME NEW p \in Requests, LoginFails(p) PROVE TypeOK'
  BY <1>0, <1>2 DEF LoginFails, Answer, Proceed, Released, histVars
<1>3. ASSUME NEW p \in Requests, DrawToken(p) PROVE TypeOK'
  BY <1>3 DEF DrawToken, Proceed
<1>4. ASSUME NEW p \in Requests, Create(p) PROVE TypeOK'
  BY <1>0, <1>4 DEF Create, Answer, Proceed, Released, With, CreateInv
<1>5. ASSUME NEW p \in Requests, Accept(p) PROVE TypeOK'
  BY <1>5 DEF Accept, Live, Seen, Proceed
<1>6. ASSUME NEW p \in Requests, Reject(p) PROVE TypeOK'
  BY <1>6 DEF Reject, Without, Answer, Proceed, histVars
<1>7. ASSUME NEW p \in Requests, Serve(p) PROVE TypeOK'
  BY <1>7 DEF Serve, Answer, Proceed, histVars
<1>8. ASSUME NEW p \in Requests, NEW k \in Handed, ValidateStart(p, k) PROVE TypeOK'
  BY <1>8 DEF ValidateStart, Proceed, Handed, histVars
<1>9. ASSUME NEW k \in Handed, Logout(k) PROVE TypeOK'
  BY <1>9 DEF Logout, SessionsAfterDelete, Without, Handed, requestVars
<1>10. CASE Advance
  BY <1>10 DEF Advance, Older, HasRead
<1>11. CASE Restart
  BY <1>11 DEF Restart, NoSessions
<1>12. CASE UNCHANGED vars
  BY <1>12 DEF vars, requestVars, histVars
<1>. QED
  BY <1>1, <1>2, <1>3, <1>4, <1>5, <1>6, <1>7, <1>8, <1>9, <1>10, <1>11, <1>12
     DEF Next, Serving

\* Every token with a session, or about to get one, is drawn and has not ended: a logout
\* takes its session along, and is not possible before the login is answered.
LEMMA CreateNext == TypeOK /\ CreateInv /\ [Next]_vars => CreateInv'
<1> SUFFICES ASSUME TypeOK, CreateInv, [Next]_vars PROVE CreateInv'
  OBVIOUS
<1> USE DEF TypeOK, CreateInv
<1>1. ASSUME NEW p \in Requests, DrawToken(p) PROVE CreateInv'
  BY <1>1 DEF DrawToken, Proceed
<1>2. ASSUME NEW p \in Requests, NEW l \in {"free", "verify", "validate", "serve"}, NEW k,
             Proceed(p, l, k), drawn' = drawn, ended' = ended
      PROVE  CreateInv'
  BY <1>2 DEF Proceed
<1>3. ASSUME NEW p \in Requests, LoginStart(p) \/ LoginFails(p) \/ Create(p) \/ Accept(p)
                                 \/ Reject(p) \/ Serve(p) \/ (\E k \in Handed : ValidateStart(p, k))
      PROVE  CreateInv'
  BY <1>2, <1>3 DEF LoginStart, LoginFails, Create, Accept, Reject, Serve, ValidateStart,
                    Answer, histVars
<1>4. ASSUME NEW k \in Handed, Logout(k) PROVE CreateInv'
  BY <1>4 DEF Logout, Handed, requestVars
<1>5. CASE Advance \/ Restart \/ UNCHANGED vars
  BY <1>5 DEF Advance, Restart, vars, requestVars, histVars
<1>. QED
  BY <1>1, <1>3, <1>4, <1>5 DEF Next, Serving

\* What the store knows stays so: Accept sets what it knows with the history, Create
\* starts both at the clock the login has read, and both grow old together.
LEMMA SessionNext == TypeOK /\ CreateInv /\ SessionInv /\ [Next]_vars => SessionInv'
<1> SUFFICES ASSUME TypeOK, CreateInv, SessionInv, [Next]_vars PROVE SessionInv'
  OBVIOUS
<1>0. \A k \in DOMAIN sessions : k \in Tokens /\ sessions[k] \in Session
  BY DEF TypeOK
<1>1. ASSUME NEW p \in Requests, Create(p) PROVE SessionInv'
  BY <1>1, SessionsAssumption DEF TypeOK, Create, With, CreateInv, SessionInv, Known
<1>2. ASSUME NEW p \in Requests, Accept(p) PROVE SessionInv'
  BY <1>2, SessionsAssumption DEF TypeOK, Session, Accept, Live, Seen, SessionInv, Known
<1>3. ASSUME NEW p \in Requests, Reject(p) PROVE SessionInv'
  <2>1. /\ DOMAIN sessions' \subseteq DOMAIN sessions
        /\ \A k \in DOMAIN sessions' : sessions'[k] = sessions[k]
    BY <1>3 DEF Reject, Without
  <2>. QED
    BY <1>3, <2>1 DEF Reject, SessionInv, Known, histVars
<1>4. ASSUME NEW k \in Handed, Logout(k) PROVE SessionInv'
  BY <1>4 DEF Logout, SessionsAfterDelete, Without, SessionInv, Known
<1>5. CASE Advance
  <2> SUFFICES ASSUME NEW k \in DOMAIN sessions PROVE Known(k)'
    BY <1>5 DEF Advance, SessionInv
  <2>1. k \in drawn \ ended /\ k \in Tokens
    BY <1>0 DEF SessionInv, Known
  <2>2. /\ sessions'[k].createdAgo = Older(sessions[k].createdAgo, MaxAge)
        /\ sessions'[k].seenAgo = Older(sessions[k].seenAgo, MaxIdle)
        /\ born'[k] = Older(born[k], MaxAge) /\ unused'[k] = Older(unused[k], MaxIdle)
        /\ drawn' = drawn /\ ended' = ended
    BY <1>5, <2>1 DEF Advance
  <2>3. Known(k) /\ sessions[k] \in Session /\ born[k] \in 0 .. MaxAge /\ unused[k] \in 0 .. MaxIdle
    BY <1>0, <2>1 DEF SessionInv, TypeOK
  <2>. QED
    BY <2>1, <2>2, <2>3, SessionsAssumption DEF Known, Older, Session, MaxAge, MaxIdle
<1>6. CASE Restart
  BY <1>6 DEF Restart, NoSessions, SessionInv
<1>7. ASSUME NEW p \in Requests, DrawToken(p) PROVE SessionInv'
  BY <1>7 DEF TypeOK, DrawToken, SessionInv, Known
<1>8. ASSUME UNCHANGED <<sessions, drawn, born, unused, ended>> PROVE SessionInv'
  BY <1>8 DEF SessionInv, Known
<1>9. ASSUME NEW p \in Requests, LoginStart(p) \/ LoginFails(p) \/ Serve(p)
                                 \/ (\E k \in Handed : ValidateStart(p, k))
      PROVE  SessionInv'
  BY <1>8, <1>9 DEF LoginStart, LoginFails, Serve, ValidateStart, histVars
<1>10. CASE UNCHANGED vars
  BY <1>8, <1>10 DEF vars, histVars
<1>. QED
  BY <1>1, <1>2, <1>3, <1>4, <1>5, <1>6, <1>7, <1>9, <1>10 DEF Next, Serving

-----------------------------------------------------------------------------
\* Nobody gets a token into his hands but by a login that is answered.
LEMMA HandedAfter ==
  ASSUME TypeOK, NEW p \in Requests,
         LoginStart(p) \/ LoginFails(p) \/ DrawToken(p) \/ Accept(p) \/ Reject(p) \/ Serve(p)
         \/ (\E k \in Handed : ValidateStart(p, k))
  PROVE  Handed' \subseteq Handed
<1> USE DEF TypeOK, Handed
<1>1. CASE DrawToken(p)
  BY <1>1 DEF DrawToken, Proceed
<1>2. ASSUME NEW l \in {"free", "verify", "validate", "serve"}, NEW k, Proceed(p, l, k),
             drawn' = drawn, pc[p] # "create"
      PROVE  Handed' \subseteq Handed
  BY <1>2 DEF Proceed
<1>3. CASE LoginStart(p) \/ LoginFails(p) \/ Accept(p) \/ Reject(p) \/ Serve(p)
           \/ (\E k \in Handed : ValidateStart(p, k))
  BY <1>2, <1>3 DEF LoginStart, LoginFails, Accept, Reject, Serve, ValidateStart, Answer, histVars
<1>. QED
  BY <1>1, <1>3

\* What a late clock takes for expired is worn by the true one.
LEMMA ExpiredIsWorn ==
  ASSUME TypeOK, SessionInv, NEW k \in DOMAIN sessions, NEW p \in Requests,
         Expired(sessions[k], late[p])
  PROVE  Worn(k)
<1>1. /\ k \in Tokens /\ sessions[k] \in Session
      /\ late[p] \in Nat /\ born[k] \in Nat /\ unused[k] \in Nat
  BY SessionsAssumption DEF TypeOK, MaxAge, MaxIdle
<1>2. Known(k)
  BY DEF SessionInv
<1>. QED
  BY <1>1, <1>2, SessionsAssumption DEF Expired, Worn, Known, Session, MaxAge, MaxIdle

\* No sweep and no rejection takes a session that is not worn.
LEMMA KeptNext == TypeOK /\ CreateInv /\ SessionInv /\ KeptInv /\ [Next]_vars => KeptInv'
<1> SUFFICES ASSUME TypeOK, CreateInv, SessionInv, KeptInv, [Next]_vars PROVE KeptInv'
  OBVIOUS
<1> USE SessionsAssumption
<1>1. ASSUME NEW p \in Requests, LoginStart(p) \/ LoginFails(p) \/ DrawToken(p) \/ Serve(p)
                                 \/ (\E k \in Handed : ValidateStart(p, k))
      PROVE  KeptInv'
  <2>1. Handed' \subseteq Handed
    BY <1>1, HandedAfter
  <2>2. UNCHANGED <<sessions, born, unused, ended>>
    BY <1>1 DEF LoginStart, LoginFails, DrawToken, Serve, ValidateStart, histVars
  <2>. QED
    BY <2>1, <2>2 DEF KeptInv, Worn
<1>2. ASSUME NEW p \in Requests, Create(p) PROVE KeptInv'
  <2> SUFFICES ASSUME NEW k \in Handed', k \notin ended', k # tok[p]
               PROVE  k \in DOMAIN sessions' \/ Worn(k)'
    BY <1>2 DEF KeptInv, Create, With
  <2>1. k \in Handed
    BY <1>2 DEF Create, Answer, Proceed, Handed, TypeOK
  <2>2. ended' = ended /\ born'[k] = born[k] /\ unused'[k] = unused[k] /\ DOMAIN sessions \subseteq DOMAIN sessions'
    BY <1>2, <2>1 DEF Create, With, TypeOK, Handed
  <2>. QED
    BY <2>1, <2>2 DEF KeptInv, Worn
<1>3. ASSUME NEW p \in Requests, Accept(p) PROVE KeptInv'
  <2> SUFFICES ASSUME NEW k \in Handed', k \notin ended', k \notin DOMAIN sessions'
               PROVE  Worn(k)'
    BY DEF KeptInv
  <2>1. k \in Handed /\ k \notin ended /\ k \in Tokens
    BY <1>3, HandedAfter DEF Accept, Handed, TypeOK
  <2>2. DOMAIN sessions' = DOMAIN sessions \ Swept(late[p]) /\ tok[p] \in DOMAIN sessions'
    BY <1>3 DEF Accept, Live
  <2>3. Worn(k)
    <3>1. CASE k \in DOMAIN sessions
      BY <2>2, <3>1, ExpiredIsWorn DEF Swept
    <3>2. CASE k \notin DOMAIN sessions
      BY <2>1, <3>2 DEF KeptInv
    <3>. QED
      BY <3>1, <3>2
  <2>4. born' = born /\ unused'[k] = unused[k]
    BY <1>3, <2>1, <2>2 DEF Accept, TypeOK
  <2>. QED
    BY <2>3, <2>4 DEF Worn
<1>4. ASSUME NEW p \in Requests, Reject(p) PROVE KeptInv'
  <2> SUFFICES ASSUME NEW k \in Handed', k \notin ended', k \notin DOMAIN sessions'
               PROVE  Worn(k)'
    BY DEF KeptInv
  <2>1. k \in Handed /\ k \notin ended
    BY <1>4, HandedAfter DEF Reject, histVars
  <2>2. DOMAIN sessions' = DOMAIN sessions \ (Swept(late[p]) \cup {tok[p]})
    BY <1>4 DEF Reject, Without
  <2>3. Worn(k)
    <3>1. CASE k \in Swept(late[p])
      BY <3>1, ExpiredIsWorn DEF Swept
    <3>2. CASE k \in DOMAIN sessions \ Swept(late[p])
      BY <1>4, <2>2, <3>2, ExpiredIsWorn DEF Reject, Live
    <3>3. CASE k \notin DOMAIN sessions
      BY <2>1, <3>3 DEF KeptInv
    <3>. QED
      BY <3>1, <3>2, <3>3
  <2>. QED
    BY <1>4, <2>3 DEF Reject, Worn, histVars
<1>5. ASSUME NEW k \in Handed, Logout(k) PROVE KeptInv'
  BY <1>5 DEF Logout, SessionsAfterDelete, Without, Handed, KeptInv, Worn, requestVars
<1>6. CASE Advance
  <2> SUFFICES ASSUME NEW k \in Handed', k \notin ended', k \notin DOMAIN sessions'
               PROVE  Worn(k)'
    BY DEF KeptInv
  <2>1. k \in Handed /\ k \notin ended /\ k \notin DOMAIN sessions /\ k \in drawn /\ k \in Tokens
    BY <1>6 DEF Advance, Handed, TypeOK
  <2>2. Worn(k)
    BY <2>1 DEF KeptInv
  <2>3. born'[k] = Older(born[k], MaxAge) /\ unused'[k] = Older(unused[k], MaxIdle)
    BY <1>6, <2>1 DEF Advance
  <2>4. born[k] \in 0 .. MaxAge /\ unused[k] \in 0 .. MaxIdle
    BY <2>1 DEF TypeOK
  <2>. QED
    BY <2>2, <2>3, <2>4 DEF Worn, Older, MaxAge, MaxIdle
<1>7. CASE Restart
  BY <1>7 DEF Restart, Handed, KeptInv
<1>8. CASE UNCHANGED vars
  BY <1>8 DEF vars, requestVars, histVars, Handed, KeptInv, Worn
<1>. QED
  BY <1>1, <1>2, <1>3, <1>4, <1>5, <1>6, <1>7, <1>8 DEF Next, Serving

-----------------------------------------------------------------------------
\* Each part of the invariant is kept with the help of those before it.
LEMMA IInvNext == IInv /\ [Next]_vars => IInv'
BY TypeNext, SlotNext, CreateNext, SessionNext, KeptNext DEF IInv

\* So it always holds.
LEMMA Invariance == Spec => []IInv
<1>. QED
  BY InitIInv, IInvNext, PTL DEF Spec

\* THEOREM: the sessions, requests and slots stay within their types.
THEOREM SessionTypes == Spec => []TypeOK
<1>1. IInv => TypeOK
  BY DEF IInv
<1>. QED
  BY <1>1, Invariance, PTL

\* THEOREM: the slots taken are those of the logins in progress, on every way out of
\* LoginHandler and through every restart.
THEOREM SlotsAreCounted == Spec => []SlotsMatchLogins
<1>1. IInv => SlotsMatchLogins
  BY DEF IInv, SlotInv, SlotsMatchLogins, Logins
<1>. QED
  BY <1>1, Invariance, PTL

\* THEOREM: no sweep, no rejection and no late clock of another request takes a session
\* that was used lately and is not too old.
THEOREM LiveSessionsAreKept == Spec => []LiveIsKept
<1>1. IInv => LiveIsKept
  <2> SUFFICES ASSUME IInv, NEW k \in Handed \ ended, unused[k] + MaxDelay < IdleTTL,
                      born[k] < AbsoluteTTL
               PROVE  k \in DOMAIN sessions
    BY DEF LiveIsKept
  <2>1. unused[k] \in Nat /\ born[k] \in Nat
    BY SessionsAssumption DEF IInv, TypeOK, Handed, MaxAge, MaxIdle
  <2>. QED
    BY <2>1, SessionsAssumption DEF IInv, KeptInv, Worn
<1>. QED
  BY <1>1, Invariance, PTL

\* Only Accept lets a request through.
LEMMA OnlyAccept ==
  ASSUME TypeOK, [Next]_vars, NEW p \in Requests, LetThrough(p)
  PROVE  Accept(p)
<1>1. pc[p] = "validate" /\ pc'[p] = "serve"
  BY DEF LetThrough
<1>2. ASSUME NEW q \in Requests, NEW l \in {"free", "verify", "create", "validate"}, NEW k,
             Proceed(q, l, k)
      PROVE  FALSE
  BY <1>1, <1>2 DEF Proceed, TypeOK
<1>3. ASSUME NEW q \in Requests, Accept(q) PROVE q = p
  BY <1>1, <1>3 DEF Accept, Proceed, TypeOK
<1>4. ASSUME NEW q \in Requests,
             LoginStart(q) \/ LoginFails(q) \/ DrawToken(q) \/ Create(q) \/ Reject(q) \/ Serve(q)
             \/ (\E k \in Handed : ValidateStart(q, k))
      PROVE  FALSE
  BY <1>2, <1>4 DEF LoginStart, LoginFails, DrawToken, Create, Reject, Serve, ValidateStart, Answer
<1>5. ~(Advance \/ Restart \/ (\E k \in Handed : Logout(k)) \/ UNCHANGED vars)
  BY <1>1 DEF Advance, Restart, Logout, vars, requestVars
<1>. QED
  BY <1>3, <1>4, <1>5 DEF Next, Serving

\* THEOREM: a session ends with its absolute time, however often it is used.
THEOREM AbsoluteTimeEnds == Spec => AbsoluteEnd
<1>1. IInv /\ [Next]_vars => \A p \in Requests : LetThrough(p) => born[tok[p]] - late[p] < AbsoluteTTL
  <2> SUFFICES ASSUME IInv, [Next]_vars, NEW p \in Requests, LetThrough(p)
               PROVE  born[tok[p]] - late[p] < AbsoluteTTL
    OBVIOUS
  <2>1. Accept(p)
    BY OnlyAccept DEF IInv
  <2>2. tok[p] \in DOMAIN sessions /\ ~Expired(sessions[tok[p]], late[p])
    BY <2>1 DEF Accept, Live
  <2>3. Known(tok[p]) /\ tok[p] \in Tokens
    BY <2>2 DEF IInv, SessionInv, TypeOK
  <2>4. born[tok[p]] \in Int /\ late[p] \in Int
    BY <2>3, SessionsAssumption DEF IInv, TypeOK, MaxAge
  <2>. QED
    BY <2>2, <2>3, <2>4, SessionsAssumption DEF Expired, Known
<1>. QED
  BY <1>1, Invariance, PTL DEF Spec, AbsoluteEnd

\* THEOREM: a token that was logged out, or forgotten by a restart, lets no later request
\* through, whatever requests were validating it at that moment.
THEOREM EndsAreFinal == Spec => EndIsFinal
<1>1. IInv /\ [Next]_vars => \A p \in Requests : LetThrough(p) => tok[p] \notin ended
  <2> SUFFICES ASSUME IInv, [Next]_vars, NEW p \in Requests, LetThrough(p)
               PROVE  tok[p] \notin ended
    OBVIOUS
  <2>1. Accept(p)
    BY OnlyAccept DEF IInv
  <2>2. tok[p] \in DOMAIN sessions
    BY <2>1 DEF Accept, Live
  <2>. QED
    BY <2>2 DEF IInv, SessionInv, Known
<1>. QED
  BY <1>1, Invariance, PTL DEF Spec, EndIsFinal
=============================================================================
