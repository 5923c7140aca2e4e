------------------------------ MODULE Sessions ------------------------------
(***************************************************************************)
(* Sessions of the console (auth/auth.go): the SessionStore, the           *)
(* middleware in front of the API and the login and logout handlers.       *)
(*                                                                         *)
(* Every HTTP request has a goroutine of its own. Create, Validate and     *)
(* Delete each hold SessionStore.mu, but Create and Validate read the      *)
(* clock before they ask for it: other requests may come between the two.  *)
(* Sessions are kept in memory only: a restart ends them all.              *)
(*                                                                         *)
(* A time is kept as how long ago it was, up to the age at which the code  *)
(* no longer tells it from an earlier one. The clock a request has read is *)
(* late[p] behind.                                                         *)
(***************************************************************************)
EXTENDS Integers, FiniteSets

CONSTANTS
  Requests,             \* requests that may be served at once
  Tokens,               \* session tokens, each drawn once at most
  NoToken,
  IdleTTL, AbsoluteTTL, SweepThreshold,
  MaxConcurrentLogins,
  MaxDelay,             \* bound: how long a request waits for the mutex
  MaxRestarts           \* bound: restarts of the process

ASSUME SessionsAssumption ==
  /\ NoToken \notin Tokens
  /\ IdleTTL \in Nat \ {0} /\ AbsoluteTTL \in Nat \ {0}
  /\ SweepThreshold \in Nat /\ MaxConcurrentLogins \in Nat \ {0}
  /\ MaxDelay \in Nat /\ MaxRestarts \in Nat

VARIABLES
  sessions,    \* SessionStore.sessions: token -> session
  loginSem,    \* the slots of Authenticator.loginSem that are taken
  pc,          \* request -> "free", "verify", "create", "validate", "serve"
  tok,         \* request -> its token
  late,        \* request -> how far the clock it has read is behind
  drawn,       \* history: the tokens drawn
  born,        \* history: token -> the age of its session
  unused,      \* history: token -> how long ago it last let a request through
  ended,       \* history: the tokens logged out, or lost with a restart
  restarts

requestVars == <<pc, tok, late>>
histVars    == <<drawn, born, unused, ended>>
vars == <<sessions, loginSem, requestVars, histVars, restarts>>

-----------------------------------------------------------------------------
MaxIdle == IdleTTL + MaxDelay
MaxAge  == AbsoluteTTL + MaxDelay
Session == [createdAgo : 0 .. MaxAge, seenAgo : 0 .. MaxIdle]

Older(age, cap) == IF age < cap THEN age + 1 ELSE cap

\* Is a session expired by a clock that is d behind?
Expired(s, d) == s.seenAgo - d >= IdleTTL \/ s.createdAgo - d >= AbsoluteTTL

NoSessions == [k \in {} |-> {}]

Without(gone) == [k \in DOMAIN sessions \ gone |-> sessions[k]]

With(k, s) == [j \in DOMAIN sessions \cup {k} |-> IF j = k THEN s ELSE sessions[j]]

SweptAll(d) ==
  IF Cardinality(DOMAIN sessions) > SweepThreshold THEN DOMAIN sessions ELSE {}

\* sweepExpiredLocked, when the store has outgrown its threshold.
Swept(d) ==
  IF Cardinality(DOMAIN sessions) > SweepThreshold
    THEN {k \in DOMAIN sessions : Expired(sessions[k], d)} ELSE {}

SeenAsNew(s, d) == [createdAgo |-> d, seenAgo |-> d]

\* A session that let a request through is seen at the time the request has read.
Seen(s, d) == [createdAgo |-> s.createdAgo, seenAgo |-> d]

NotReleased == loginSem

ReleasedTwice == loginSem - 2

\* A login that ends frees its slot, whatever its outcome.
Released == loginSem - 1

-----------------------------------------------------------------------------
Init ==
  /\ sessions = NoSessions
  /\ loginSem = 0
  /\ pc = [p \in Requests |-> "free"]
  /\ tok = [p \in Requests |-> NoToken]
  /\ late = [p \in Requests |-> 0]
  /\ drawn = {} /\ ended = {}
  /\ born = [k \in Tokens |-> 0] /\ unused = [k \in Tokens |-> 0]
  /\ restarts = 0

\* A request comes to l with a token, having just read the clock or not.
Proceed(p, l, k) ==
  /\ pc' = [pc EXCEPT ![p] = l]
  /\ tok' = [tok EXCEPT ![p] = k]
  /\ late' = [late EXCEPT ![p] = 0]

Answer(p) == Proceed(p, "free", NoToken)

\* LoginHandler takes a slot; without one it answers 429.
LoginStart(p) ==
  /\ pc[p] = "free"
  /\ loginSem < MaxConcurrentLogins
  /\ loginSem' = loginSem + 1
  /\ Proceed(p, "verify", NoToken)
  /\ UNCHANGED <<sessions, histVars, restarts>>

\* The credentials do not match, or no token can be drawn: 401 or 500.
LoginFails(p) ==
  /\ pc[p] = "verify"
  /\ loginSem' = Released
  /\ Answer(p)
  /\ UNCHANGED <<sessions, histVars, restarts>>

\* They match: SessionStore.Create draws a token and reads the clock ...
DrawToken(p) ==
  /\ pc[p] = "verify"
  /\ \E k \in Tokens \ drawn :
       /\ Proceed(p, "create", k)
       /\ drawn' = drawn \cup {k}
  /\ UNCHANGED <<sessions, loginSem, born, unused, ended, restarts>>

\* ... and stores the session. 204 with the cookie.
Create(p) ==
  /\ pc[p] = "create"
  /\ sessions' = With(tok[p], [createdAgo |-> late[p], seenAgo |-> late[p]])
  /\ born' = [born EXCEPT ![tok[p]] = late[p]]
  /\ unused' = [unused EXCEPT ![tok[p]] = late[p]]
  /\ loginSem' = Released
  /\ Answer(p)
  /\ UNCHANGED <<drawn, ended, restarts>>

\* Middleware: SessionStore.Validate reads the clock ...
ValidateStart(p, k) ==
  /\ pc[p] = "free"
  /\ Proceed(p, "validate", k)
  /\ UNCHANGED <<sessions, loginSem, histVars, restarts>>

Live(k, d) == k \in DOMAIN sessions \ Swept(d) /\ ~Expired(sessions[k], d)

\* ... and, with the mutex, lets the request through ...
Accept(p) ==
  /\ pc[p] = "validate" /\ Live(tok[p], late[p])
  /\ sessions' = [k \in DOMAIN sessions \ Swept(late[p]) |->
                    IF k = tok[p] THEN Seen(sessions[k], late[p]) ELSE sessions[k]]
  /\ unused' = [unused EXCEPT ![tok[p]] = 0]
  /\ Proceed(p, "serve", tok[p])
  /\ UNCHANGED <<loginSem, drawn, born, ended, restarts>>

\* ... or answers 401, and deletes the session that has expired.
Reject(p) ==
  /\ pc[p] = "validate" /\ ~Live(tok[p], late[p])
  /\ sessions' = Without(Swept(late[p]) \cup {tok[p]})
  /\ Answer(p)
  /\ UNCHANGED <<loginSem, histVars, restarts>>

\* The handler behind the middleware answers.
Serve(p) ==
  /\ pc[p] = "serve"
  /\ Answer(p)
  /\ UNCHANGED <<sessions, loginSem, histVars, restarts>>

SessionsKept(k) == sessions

\* SessionStore.Delete
SessionsAfterDelete(k) == Without({k})

\* LogoutHandler.
Logout(k) ==
  /\ sessions' = SessionsAfterDelete(k)
  /\ ended' = ended \cup {k}
  /\ UNCHANGED <<loginSem, requestVars, drawn, born, unused, restarts>>

HasRead(p) == pc[p] \in {"create", "validate"}

\* Time passes.
Advance ==
  /\ \A p \in Requests : HasRead(p) => late[p] < MaxDelay
  /\ late' = [p \in Requests |-> IF HasRead(p) THEN late[p] + 1 ELSE 0]
  /\ sessions' = [k \in DOMAIN sessions |->
       [createdAgo |-> Older(sessions[k].createdAgo, MaxAge),
        seenAgo |-> Older(sessions[k].seenAgo, MaxIdle)]]
  /\ born' = [k \in Tokens |-> IF k \in drawn THEN Older(born[k], MaxAge) ELSE 0]
  /\ unused' = [k \in Tokens |-> IF k \in drawn THEN Older(unused[k], MaxIdle) ELSE 0]
  /\ UNCHANGED <<loginSem, pc, tok, drawn, ended, restarts>>

Restart ==
  /\ restarts < MaxRestarts
  /\ sessions' = NoSessions /\ loginSem' = 0
  /\ pc' = [p \in Requests |-> "free"]
  /\ tok' = [p \in Requests |-> NoToken]
  /\ late' = [p \in Requests |-> 0]
  /\ ended' = drawn
  /\ restarts' = restarts + 1
  /\ UNCHANGED <<drawn, born, unused>>

\* The tokens a client can hold: those whose login has been answered.
Handed == {k \in drawn : \A p \in Requests : ~(pc[p] = "create" /\ tok[p] = k)}

Serving(p) ==
  LoginFails(p) \/ DrawToken(p) \/ Create(p) \/ Accept(p) \/ Reject(p) \/ Serve(p)

Next ==
  \/ \E p \in Requests :
       LoginStart(p) \/ Serving(p) \/ \E k \in Handed : ValidateStart(p, k)
  \/ \E k \in Handed : Logout(k)
  \/ Advance
  \/ Restart

\* The server serves every request it has taken.
Spec == Init /\ [][Next]_vars /\ \A p \in Requests : WF_vars(Serving(p))

-----------------------------------------------------------------------------
(* Properties *)

TypeOK ==
  /\ DOMAIN sessions \subseteq Tokens
  /\ \A k \in DOMAIN sessions : sessions[k] \in Session
  /\ loginSem \in 0 .. MaxConcurrentLogins
  /\ pc \in [Requests -> {"free", "verify", "create", "validate", "serve"}]
  /\ tok \in [Requests -> Tokens \cup {NoToken}]
  /\ late \in [Requests -> 0 .. MaxDelay]
  /\ drawn \subseteq Tokens /\ ended \subseteq drawn
  /\ born \in [Tokens -> 0 .. MaxAge] /\ unused \in [Tokens -> 0 .. MaxIdle]

\* The slots of the logins are those of the logins in progress: none is lost or freed
\* twice on any way out.
SlotsMatchLogins ==
  loginSem = Cardinality({p \in Requests : pc[p] \in {"verify", "create"}})

\* A session that was used lately and is not too old is there, whatever the sweeps, the
\* rejections and the late clocks of other requests did.
LiveIsKept ==
  \A k \in Handed \ ended :
    unused[k] + MaxDelay < IdleTTL /\ born[k] < AbsoluteTTL => k \in DOMAIN sessions

LetThrough(p) == pc[p] = "validate" /\ pc'[p] = "serve"

\* A session ends with its absolute time, however often it is used.
AbsoluteEnd ==
  [][\A p \in Requests : LetThrough(p) => born[tok[p]] - late[p] < AbsoluteTTL]_vars

\* A token that was logged out, or forgotten by a restart, lets no later request
\* through.
EndIsFinal == [][\A p \in Requests : LetThrough(p) => tok[p] \notin ended]_vars

\* Logins are not shut out for ever: a full semaphore gets a free slot.
SlotIsFreed ==
  loginSem = MaxConcurrentLogins ~> loginSem < MaxConcurrentLogins
=============================================================================
