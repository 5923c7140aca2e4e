---------------------------- MODULE Portal_proofs ----------------------------
(***************************************************************************)
(* What holds of the console in front of its login for any number of       *)
(* targets, sessions, requests in flight and failures.                     *)
(***************************************************************************)
EXTENDS Portal, TLAPS

\* A 401 tells the truth for good: the credentials were wrong, or the session it was
\* given for does not come back.
RefusedInv ==
  \A c \in calls : c.is = "unauth" =>
    \/ c.kind = "login"
    \/ c.kind \in {"probe", "poll"} /\ c.cred \notin valid

\* Only the page in view waits for polls, and only for those of its target.
PollInv ==
  \A c \in calls : c.kind = "poll" /\ c.own => Mounted(status, path) /\ c.key = key

IInv == TypeOK /\ 0 \notin valid /\ RefusedInv /\ NoFalseLogout /\ PollInv

-----------------------------------------------------------------------------
\* The requests the pages send are well formed, and nothing has answered them.
LEMMA Requested ==
  ASSUME TypeOK
  PROVE  /\ FirstKey \in Keys
         /\ \A kind \in {"probe", "login", "logout", "poll", "demo"} : Request(kind) \in Call
         /\ \A k \in Keys : Poll(k) \in Call
<1>1. FirstKey \in Keys
  BY PortalAssumption DEF FirstKey
<1>2. ASSUME NEW kind \in {"probe", "login", "logout", "poll", "demo"}
      PROVE  Request(kind) \in Call
  BY <1>1, PortalAssumption DEF TypeOK, Call, Request
<1>3. ASSUME NEW k \in Keys PROVE Poll(k) \in Call
  <2>1. Request("poll") \in Call
    BY <1>2
  <2>. QED
    BY <2>1 DEF Poll, Call
<1>. QED
  BY <1>1, <1>2, <1>3

\* What a change of the screen makes of the requests in flight: some are not waited for
\* any more, and the new screen may send a poll or ask for the demo status.
LEMMA ScreenCalls ==
  ASSUME TypeOK, NEW st, NEW p, NEW cs \in SUBSET Call, NEW f, Screen(st, p, cs, f)
  PROVE  \A d \in calls' : \/ d \in cs
                           \/ \E c \in cs : d = [c EXCEPT !.own = FALSE]
                           \/ d = Poll(FirstKey) \/ d = Request("demo")
BY DEF Screen, Cancelled

\* A request that was asked a second time, or is not waited for, keeps its kind, its
\* cookie and its answer.
LEMMA ScreenRequests ==
  ASSUME TypeOK, NEW st, NEW p, NEW cs \in SUBSET Call, NEW f, Screen(st, p, cs, f)
  PROVE  /\ calls' \subseteq Call
         /\ \A d \in calls' : \/ d.is = "sent"
                              \/ \E c \in cs : d.kind = c.kind /\ d.cred = c.cred /\ d.is = c.is
<1>1. \A c \in cs : /\ [c EXCEPT !.own = FALSE] \in Call
                    /\ [c EXCEPT !.own = FALSE].kind = c.kind
                    /\ [c EXCEPT !.own = FALSE].cred = c.cred
                    /\ [c EXCEPT !.own = FALSE].is = c.is
  BY DEF Call
<1>2. Poll(FirstKey).is = "sent" /\ Request("demo").is = "sent"
  BY DEF Poll, Request
<1>3. Poll(FirstKey) \in Call /\ Request("demo") \in Call
  BY Requested
<1>4. ASSUME NEW d \in calls'
      PROVE  d \in Call /\ (d.is = "sent" \/ \E c \in cs : d.kind = c.kind /\ d.cred = c.cred /\ d.is = c.is)
  <2>1. \/ d \in cs \/ (\E c \in cs : d = [c EXCEPT !.own = FALSE])
        \/ d = Poll(FirstKey) \/ d = Request("demo")
    BY ScreenCalls
  <2>. QED
    BY <1>1, <1>2, <1>3, <2>1
<1>. QED
  BY <1>4

\* The rest of the screen keeps its types.
LEMMA ScreenTypes ==
  ASSUME TypeOK, NEW st \in {"unknown", "authed", "anon"}, NEW cs \in SUBSET Call,
         NEW f \in [pending : BOOLEAN, failed : BOOLEAN], Screen(st, path, cs, f)
  PROVE  /\ status' \in {"unknown", "authed", "anon"}
         /\ path' \in {"home", "login", "page"} /\ from' \in {"home", "page"}
         /\ form' \in [pending : BOOLEAN, failed : BOOLEAN]
         /\ demo' \in {"unasked", "asked", "on", "off"}
         /\ key' \in Keys /\ data' \in Data /\ error' \in BOOLEAN
<1>1. status' = st /\ path' = Landing(st, path, from) /\ from' = Back(st, path)
  BY DEF Screen
<1>2. path' \in {"home", "login", "page"} /\ from' \in {"home", "page"}
  BY <1>1 DEF TypeOK, Landing, Back, Target
<1>3. form' \in {f, EmptyForm} /\ demo' \in {"asked", demo}
  BY DEF Screen
<1>4. \/ key' = FirstKey /\ data' = NoData /\ error' = FALSE
      \/ UNCHANGED <<key, data, error>>
  BY DEF Screen
<1>5. NoData \in Data /\ EmptyForm \in [pending : BOOLEAN, failed : BOOLEAN]
  BY DEF Data, EmptyForm
<1>6. key' \in Keys /\ data' \in Data /\ error' \in BOOLEAN
  BY <1>4, <1>5, Requested DEF TypeOK
<1>. QED
  BY <1>1, <1>2, <1>3, <1>5, <1>6 DEF TypeOK

\* A page that is left waits for nothing, and a page that is entered for its first poll.
LEMMA ScreenPolls ==
  ASSUME TypeOK, PollInv, NEW st, NEW cs \in SUBSET calls, NEW f, Screen(st, path, cs, f)
  PROVE  PollInv'
<1> DEFINE leaves == Mounted(status, path) /\ ~Mounted(st, path')
           enters == ~Mounted(status, path) /\ Mounted(st, path')
<1>0. status' = st /\ path' = Landing(st, path, from) /\ calls \subseteq Call
  BY DEF Screen, TypeOK
<1> SUFFICES ASSUME NEW d \in calls', d.kind = "poll", d.own
             PROVE  Mounted(status', path') /\ d.key = key'
  BY DEF PollInv
<1>1. \A c \in calls : [c EXCEPT !.own = FALSE].own = FALSE
  BY <1>0 DEF Call
<1>2. Request("demo").kind = "demo" /\ Poll(FirstKey).key = FirstKey
  BY DEF Request, Poll
<1>3. CASE leaves
  <2>1. calls' \subseteq Cancelled(cs, "poll") \cup {Request("demo")}
    BY <1>0, <1>3 DEF Screen
  <2>2. \A c \in Cancelled(cs, "poll") : c.kind = "poll" => ~c.own
    BY <1>0, <1>1 DEF Cancelled, Call
  <2>. QED
    BY <2>1, <2>2, <1>2
<1>4. CASE enters
  <2>1. key' = FirstKey
    BY <1>0, <1>4 DEF Screen
  <2>2. \A c \in cs : ~(c.kind = "poll" /\ c.own)
    BY <1>4 DEF PollInv
  <2>3. d \in cs \/ (\E c \in cs : d = [c EXCEPT !.own = FALSE]) \/ d = Poll(FirstKey) \/ d = Request("demo")
    BY <1>0, ScreenCalls
  <2>. QED
    BY <1>0, <1>1, <1>2, <1>4, <2>1, <2>2, <2>3
<1>5. CASE ~leaves /\ ~enters
  <2>1. key' = key
    BY <1>0, <1>5 DEF Screen
  <2>2. calls' \subseteq cs \cup Cancelled(cs, "login") \cup {Request("demo")}
    BY <1>0, <1>5 DEF Screen
  <2>3. d \in cs
    BY <1>1, <1>2, <2>2 DEF Cancelled
  <2>. QED
    BY <1>0, <1>5, <2>1, <2>3 DEF PollInv
<1>. QED
  BY <1>3, <1>4, <1>5

-----------------------------------------------------------------------------
\* Nothing is shown or known yet; the probe is out.
LEMMA InitIInv == Init => IInv
<1> SUFFICES ASSUME Init PROVE IInv
  OBVIOUS
<1>1. /\ valid \subseteq Sessions /\ cookie \in Sessions /\ 0 \notin valid
      /\ FirstKey \in Keys
  BY PortalAssumption DEF Init, Sessions, FirstKey
<1>2. Request("probe") \in Call /\ Request("demo") \in Call
  BY <1>1, PortalAssumption DEF Request, Call
<1>3. calls \subseteq {Request("probe"), Request("demo")}
  BY DEF Init
<1>4. TypeOK
  <2>1. EmptyForm \in [pending : BOOLEAN, failed : BOOLEAN] /\ NoData \in Data
    BY DEF EmptyForm, Data
  <2>2. calls \subseteq Call
    BY <1>2, <1>3
  <2>3. now \in 0 .. MaxChanges /\ failures \in 0 .. MaxFailures
    BY PortalAssumption DEF Init
  <2>. QED
    BY <1>1, <2>1, <2>2, <2>3 DEF Init, TypeOK
<1>5. RefusedInv /\ PollInv
  BY <1>3 DEF RefusedInv, PollInv, Request
<1>6. NoFalseLogout
  BY DEF Init, NoFalseLogout
<1>. QED
  BY <1>1, <1>4, <1>5, <1>6 DEF IInv

\* The four answers that change the screen.
Screened(c) ==
  \/ ProbeAnswered(c) \/ (PollAnswered(c) /\ SignsOff(c.is))
  \/ (LoginAnswered(c) /\ c.is = "ok") \/ LogoutAnswered(c)

\* What they have in common.
LEMMA ScreenedStep ==
  ASSUME TypeOK, NEW c \in calls, Screened(c)
  PROVE  /\ \E st \in {"authed", "anon"}, f \in [pending : BOOLEAN, failed : BOOLEAN] :
              Screen(st, path, calls \ {c}, f)
         /\ UNCHANGED <<valid, now, hidden, failures>>
<1>1. FormAfter(c) \in [pending : BOOLEAN, failed : BOOLEAN]
  BY DEF FormAfter, EmptyForm, TypeOK
<1>2. form \in [pending : BOOLEAN, failed : BOOLEAN]
  BY DEF TypeOK
<1>. QED
  BY <1>1, <1>2 DEF Screened, ProbeAnswered, PollAnswered, LoginAnswered, LogoutAnswered,
                    StatusAfterProbe, serverVars

-----------------------------------------------------------------------------
\* Whatever is sent, answered, lost or delivered, and whatever the user does, the state
\* keeps its types.
LEMMA TypeNext == TypeOK /\ [Next]_vars => TypeOK'
<1> SUFFICES ASSUME TypeOK, [Next]_vars PROVE TypeOK'
  OBVIOUS
<1> USE PortalAssumption
<1>0. calls \subseteq Call /\ now \in 0 .. MaxChanges /\ 0 \in 0 .. MaxChanges
  BY DEF TypeOK
<1>1. ASSUME NEW c \in calls, ServeProtected(c) PROVE TypeOK'
  <2> DEFINE is == IF c.cred \in valid THEN "ok" ELSE "unauth"
             v  == IF c.kind = "poll" THEN now ELSE 0
  <2>1. calls' = (calls \ {c}) \cup {[c EXCEPT !.is = is, !.version = v]}
    BY <1>1 DEF ServeProtected
  <2>2. is \in {"sent", "ok", "unauth", "error"} /\ v \in 0 .. MaxChanges
    BY <1>0
  <2>3. [c EXCEPT !.is = is, !.version = v] \in Call
    BY <1>0, <2>2 DEF Call
  <2>. QED
    BY <1>0, <1>1, <2>1, <2>3 DEF ServeProtected, TypeOK, pageVars
<1>2. ASSUME NEW c \in calls, ServeDemo(c) PROVE TypeOK'
  BY <1>0, <1>2 DEF ServeDemo, Answered, Call, TypeOK, pageVars
<1>3. ASSUME NEW c \in calls, ServeLogin(c) PROVE TypeOK'
  <2>1. /\ valid' \subseteq Sessions
        /\ \E s \in Sessions : \/ calls' = (calls \ {c}) \cup {[c EXCEPT !.is = "ok", !.cred = s]}
                              \/ calls' = (calls \ {c}) \cup {[c EXCEPT !.is = "unauth"]}
    BY <1>0, <1>3, PortalAssumption DEF ServeLogin, Answered, TypeOK, Sessions
  <2>2. calls' \subseteq Call
    <3>1. \A s \in Sessions : [c EXCEPT !.is = "ok", !.cred = s] \in Call
      BY <1>0 DEF Call
    <3>2. [c EXCEPT !.is = "unauth"] \in Call
      BY <1>0 DEF Call
    <3>. QED
      BY <1>0, <2>1, <3>1, <3>2
  <2>. QED
    BY <1>3, <2>1, <2>2 DEF ServeLogin, TypeOK, pageVars
<1>4. ASSUME NEW c \in calls, ServeLogout(c) PROVE TypeOK'
  BY <1>0, <1>4 DEF ServeLogout, Answered, Call, TypeOK, pageVars
<1>5. ASSUME NEW c \in calls, Fail(c) PROVE TypeOK'
  BY <1>0, <1>5 DEF Fail, Answered, Call, TypeOK, pageVars
<1>6. ASSUME NEW c \in calls, Screened(c) PROVE TypeOK'
  <2>1. PICK st \in {"authed", "anon"}, f \in [pending : BOOLEAN, failed : BOOLEAN] :
          Screen(st, path, calls \ {c}, f)
    BY <1>6, ScreenedStep
  <2>2. calls \ {c} \in SUBSET Call
    BY <1>0
  <2>3. calls' \subseteq Call
    BY <2>1, <2>2, ScreenRequests
  <2>4. /\ status' \in {"unknown", "authed", "anon"}
        /\ path' \in {"home", "login", "page"} /\ from' \in {"home", "page"}
        /\ form' \in [pending : BOOLEAN, failed : BOOLEAN]
        /\ demo' \in {"unasked", "asked", "on", "off"}
        /\ key' \in Keys /\ data' \in Data /\ error' \in BOOLEAN
    BY <2>1, <2>2, ScreenTypes
  <2>5. UNCHANGED <<valid, now, hidden, failures>>
    BY <1>6, ScreenedStep
  <2>6. cookie' \in Sessions /\ upset' \in BOOLEAN
    <3>1. c.cred \in Sessions /\ 0 \in Sessions /\ cookie \in Sessions /\ upset \in BOOLEAN
      BY <1>0 DEF TypeOK, Call, Sessions
    <3>2. CASE ProbeAnswered(c)
      BY <3>1, <3>2 DEF ProbeAnswered
    <3>3. CASE PollAnswered(c) /\ SignsOff(c.is)
      BY <3>1, <3>3 DEF PollAnswered, Late
    <3>4. CASE LoginAnswered(c) /\ c.is = "ok"
      BY <3>1, <3>4 DEF LoginAnswered
    <3>5. CASE LogoutAnswered(c)
      BY <3>1, <3>5 DEF LogoutAnswered
    <3>. QED
      BY <1>6, <3>2, <3>3, <3>4, <3>5 DEF Screened
  <2>. QED
    BY <2>3, <2>4, <2>5, <2>6 DEF TypeOK
<1>7. ASSUME NEW c \in calls, PollAnswered(c), ~SignsOff(c.is) PROVE TypeOK'
  <2>1. c.is = "ok" => [key |-> c.key, version |-> c.version] \in Data
    BY <1>0 DEF Data, Call
  <2>. QED
    BY <1>0, <1>7, <2>1 DEF PollAnswered, ErrorAfter, TypeOK, serverVars
<1>8. ASSUME NEW c \in calls, LoginAnswered(c), c.is # "ok" PROVE TypeOK'
  <2>1. FormAfter(c) \in [pending : BOOLEAN, failed : BOOLEAN]
    BY DEF FormAfter, EmptyForm, TypeOK
  <2>. QED
    BY <1>0, <1>8, <2>1 DEF LoginAnswered, TypeOK, serverVars
<1>9. ASSUME NEW c \in calls, DemoAnswered(c) PROVE TypeOK'
  BY <1>0, <1>9, Requested DEF DemoAnswered, TypeOK, serverVars, pageVars
<1>10. ASSUME NEW s \in Sessions, EndSession(s) PROVE TypeOK'
  BY <1>10 DEF EndSession, TypeOK, pageVars
<1>11. CASE ChangeData
  BY <1>11 DEF ChangeData, TypeOK, pageVars
<1>12. CASE Submit
  BY <1>12, Requested DEF Submit, TypeOK, serverVars, pageVars
<1>13. CASE Logout
  BY <1>13, Requested DEF Logout, TypeOK, serverVars, pageVars
<1>14. CASE TimerTick
  BY <1>14, Requested DEF TimerTick, TypeOK, serverVars, pageVars
<1>15. CASE Hide
  BY <1>15 DEF Hide, TypeOK, serverVars
<1>16. CASE Show
  <2>1. calls' \subseteq calls \cup {Poll(key)} /\ key \in Keys
    BY <1>16 DEF Show, TypeOK
  <2>. QED
    BY <1>0, <1>16, <2>1, Requested DEF Show, TypeOK, serverVars
<1>17. ASSUME NEW k \in Keys, Resubscribe(k) PROVE TypeOK'
  <2>1. Cancelled(calls, "poll") \subseteq Call
    BY <1>0 DEF Cancelled, Call
  <2>. QED
    BY <1>17, <2>1, Requested DEF Resubscribe, TypeOK, serverVars
<1>18. CASE UNCHANGED vars
  BY <1>18 DEF vars, pageVars, TypeOK
<1>. QED
  BY <1>1, <1>2, <1>3, <1>4, <1>5, <1>6, <1>7, <1>8, <1>9, <1>10, <1>11, <1>12, <1>13,
     <1>14, <1>15, <1>16, <1>17, <1>18 DEF Next, Serve, Deliver, Screened

-----------------------------------------------------------------------------
\* What was asked with a session that is refused is refused for good: a new session is
\* not one of those in flight.
LEMMA RefusedNext ==
  TypeOK /\ 0 \notin valid /\ RefusedInv /\ [Next]_vars => 0 \notin valid' /\ RefusedInv'
<1> SUFFICES ASSUME TypeOK, 0 \notin valid, RefusedInv, [Next]_vars
             PROVE  0 \notin valid' /\ RefusedInv'
  OBVIOUS
<1>0. calls \subseteq Call
  BY DEF TypeOK
<1>1. ASSUME valid' \subseteq valid,
             \A d \in calls' : \/ d.is # "unauth" \/ d.kind = "login"
                               \/ d.kind \in {"probe", "poll"} /\ d.cred \notin valid'
                               \/ \E c \in calls : d.kind = c.kind /\ d.cred = c.cred /\ d.is = c.is
      PROVE  0 \notin valid' /\ RefusedInv'
  BY <1>1 DEF RefusedInv
<1>2. ASSUME NEW c \in calls, ServeProtected(c) PROVE 0 \notin valid' /\ RefusedInv'
  <2>1. valid' = valid
    BY <1>2 DEF ServeProtected
  <2>2. ASSUME NEW d \in calls', d \notin calls
        PROVE  /\ d.kind \in {"probe", "poll"} /\ d.cred = c.cred
               /\ d.is = IF c.cred \in valid THEN "ok" ELSE "unauth"
    BY <1>0, <1>2, <2>2 DEF ServeProtected, Call
  <2>. QED
    BY <1>1, <2>1, <2>2
<1>3. ASSUME NEW c \in calls, ServeDemo(c) PROVE 0 \notin valid' /\ RefusedInv'
  BY <1>0, <1>1, <1>3 DEF ServeDemo, Answered, Call
<1>4. ASSUME NEW c \in calls, ServeLogin(c) PROVE 0 \notin valid' /\ RefusedInv'
  <2>1. CASE Answered(c, "unauth") /\ UNCHANGED valid
    BY <1>0, <1>1, <1>4, <2>1 DEF ServeLogin, Answered, Call
  <2>2. ASSUME NEW s \in Sessions \ (valid \cup {0, cookie} \cup {d.cred : d \in calls}),
               valid' = valid \cup {s},
               calls' = (calls \ {c}) \cup {[c EXCEPT !.is = "ok", !.cred = s]}
        PROVE  0 \notin valid' /\ RefusedInv'
    <3>1. [c EXCEPT !.is = "ok", !.cred = s].is = "ok"
      BY <1>0 DEF Call
    <3>2. \A d \in calls : d.cred # s
      BY <2>2
    <3>. QED
      BY <2>2, <3>1, <3>2 DEF RefusedInv
  <2>. QED
    BY <1>4, <2>1, <2>2 DEF ServeLogin
<1>5. ASSUME NEW c \in calls, ServeLogout(c) PROVE 0 \notin valid' /\ RefusedInv'
  BY <1>0, <1>1, <1>5 DEF ServeLogout, Answered, Call
<1>6. ASSUME NEW c \in calls, Fail(c) PROVE 0 \notin valid' /\ RefusedInv'
  BY <1>0, <1>1, <1>6 DEF Fail, Answered, Call
<1>7. ASSUME NEW c \in calls, Screened(c) PROVE 0 \notin valid' /\ RefusedInv'
  <2>1. PICK st \in {"authed", "anon"}, f \in [pending : BOOLEAN, failed : BOOLEAN] :
          Screen(st, path, calls \ {c}, f)
    BY <1>7, ScreenedStep
  <2>2. valid' = valid
    BY <1>7, ScreenedStep
  <2>3. calls \ {c} \in SUBSET Call
    BY <1>0
  <2>4. \A d \in calls' : \/ d.is = "sent"
                          \/ \E b \in calls \ {c} : d.kind = b.kind /\ d.cred = b.cred /\ d.is = b.is
    BY <2>1, <2>3, ScreenRequests
  <2>. QED
    BY <1>1, <2>2, <2>4
<1>8. ASSUME NEW c \in calls, \/ PollAnswered(c) /\ ~SignsOff(c.is)
                              \/ LoginAnswered(c) /\ c.is # "ok"
      PROVE  0 \notin valid' /\ RefusedInv'
  BY <1>1, <1>8 DEF PollAnswered, LoginAnswered, serverVars
<1>9. ASSUME NEW c \in calls, DemoAnswered(c) PROVE 0 \notin valid' /\ RefusedInv'
  <2>1. calls' \subseteq calls \cup {Poll(key)} /\ valid' = valid
    BY <1>9 DEF DemoAnswered, serverVars
  <2>. QED
    BY <1>1, <2>1 DEF Poll, Request
<1>10. CASE (\E s \in Sessions : EndSession(s)) \/ ChangeData \/ Hide \/ UNCHANGED vars
  BY <1>1, <1>10 DEF EndSession, ChangeData, Hide, vars, serverVars
<1>11. CASE Submit \/ Logout
  <2>1. calls' \subseteq calls \cup {Request("login"), Request("logout")} /\ valid' = valid
    BY <1>11 DEF Submit, Logout, serverVars
  <2>. QED
    BY <1>1, <2>1 DEF Request
<1>12. CASE TimerTick \/ Show
  <2>1. calls' \subseteq calls \cup {Poll(key)} /\ valid' = valid
    BY <1>12 DEF TimerTick, Show, serverVars
  <2>. QED
    BY <1>1, <2>1 DEF Poll, Request
<1>13. ASSUME NEW k \in Keys, Resubscribe(k) PROVE 0 \notin valid' /\ RefusedInv'
  <2>1. calls' = Cancelled(calls, "poll") \cup {Poll(k)} /\ valid' = valid
    BY <1>13 DEF Resubscribe, serverVars
  <2>2. \A d \in Cancelled(calls, "poll") :
          \E c \in calls : d.kind = c.kind /\ d.cred = c.cred /\ d.is = c.is
    BY <1>0 DEF Cancelled, Call
  <2>. QED
    BY <1>1, <2>1, <2>2 DEF Poll, Request
<1>. QED
  BY <1>2, <1>3, <1>4, <1>5, <1>6, <1>7, <1>8, <1>9, <1>10, <1>11, <1>12, <1>13
     DEF Next, Serve, Deliver, Screened

\* A live session is signed off only with a trace in upset.
LEMMA LogoutNext ==
  TypeOK /\ 0 \notin valid /\ RefusedInv /\ NoFalseLogout /\ [Next]_vars => NoFalseLogout'
<1> SUFFICES ASSUME TypeOK, 0 \notin valid, RefusedInv, NoFalseLogout, [Next]_vars
             PROVE  NoFalseLogout'
  OBVIOUS
<1>1. ASSUME UNCHANGED <<cookie, status, upset>>, valid' \subseteq valid PROVE NoFalseLogout'
  BY <1>1 DEF NoFalseLogout
<1>2. ASSUME NEW c \in calls, ProbeAnswered(c) PROVE NoFalseLogout'
  <2>1. status' = StatusAfterProbe(c.is) /\ valid' = valid /\ cookie' = cookie
        /\ upset' = (c.is = "error" \/ (c.is = "unauth" /\ (upset \/ Late(c))))
    BY <1>2 DEF ProbeAnswered, Screen, serverVars
  <2>2. c.is \in {"ok", "unauth", "error"} /\ c.kind = "probe"
    BY <1>2 DEF ProbeAnswered, TypeOK, Call
  <2>3. CASE c.is = "ok"
    BY <2>1, <2>3 DEF StatusAfterProbe, NoFalseLogout
  <2>4. CASE c.is = "unauth"
    BY <2>1, <2>2, <2>4 DEF NoFalseLogout, RefusedInv, Late
  <2>5. CASE c.is = "error"
    BY <2>1, <2>5 DEF NoFalseLogout
  <2>. QED
    BY <2>2, <2>3, <2>4, <2>5
<1>3. ASSUME NEW c \in calls, PollAnswered(c), SignsOff(c.is) PROVE NoFalseLogout'
  <2>1. valid' = valid /\ cookie' = cookie /\ upset' = (upset \/ Late(c)) /\ c.kind = "poll"
    BY <1>3 DEF PollAnswered, serverVars
  <2>. QED
    BY <1>3, <2>1 DEF NoFalseLogout, RefusedInv, SignsOff, Late
<1>4. ASSUME NEW c \in calls, LoginAnswered(c), c.is = "ok" PROVE NoFalseLogout'
  BY <1>4 DEF LoginAnswered, Screen, NoFalseLogout
<1>5. ASSUME NEW c \in calls, LogoutAnswered(c) PROVE NoFalseLogout'
  <2>1. /\ valid' = valid /\ upset' = (upset \/ c.is = "error")
        /\ cookie' = IF c.is = "ok" THEN 0 ELSE cookie
        /\ c.is \in {"ok", "unauth", "error"}
    BY <1>5 DEF LogoutAnswered, serverVars, TypeOK, Call
  <2>2. c.is # "unauth"
    BY <1>5 DEF LogoutAnswered, RefusedInv
  <2>. QED
    BY <2>1, <2>2 DEF NoFalseLogout
<1>6. ASSUME NEW c \in calls, ServeLogin(c) PROVE NoFalseLogout'
  BY <1>6 DEF ServeLogin, NoFalseLogout
<1>7. ASSUME NEW c \in calls, Serve(c) \/ Fail(c), ~ServeLogin(c) PROVE NoFalseLogout'
  BY <1>1, <1>7 DEF Serve, ServeProtected, ServeDemo, ServeLogout, Fail
<1>8. ASSUME NEW c \in calls, \/ PollAnswered(c) /\ ~SignsOff(c.is)
                              \/ LoginAnswered(c) /\ c.is # "ok"
                              \/ DemoAnswered(c)
      PROVE  NoFalseLogout'
  BY <1>1, <1>8 DEF PollAnswered, LoginAnswered, DemoAnswered, serverVars
<1>9. CASE \/ \E s \in Sessions : EndSession(s)
           \/ ChangeData \/ Submit \/ Logout \/ TimerTick \/ Hide \/ Show
           \/ \E k \in Keys : Resubscribe(k)
           \/ UNCHANGED vars
  BY <1>1, <1>9 DEF EndSession, ChangeData, Submit, Logout, TimerTick, Hide, Show,
                    Resubscribe, vars, serverVars
<1>. QED
  BY <1>2, <1>3, <1>4, <1>5, <1>6, <1>7, <1>8, <1>9 DEF Next, Deliver

\* Whatever is asked for another target, or by a page that was left, is cancelled.
LEMMA PollNext == TypeOK /\ PollInv /\ [Next]_vars => PollInv'
<1> SUFFICES ASSUME TypeOK, PollInv, [Next]_vars PROVE PollInv'
  OBVIOUS
<1>0. calls \subseteq Call
  BY DEF TypeOK
<1>1. ASSUME UNCHANGED <<status, path, key>>,
             \A d \in calls' : \/ \E c \in calls : d.kind = c.kind /\ d.own = c.own /\ d.key = c.key
                               \/ d.kind # "poll"
                               \/ Mounted(status, path) /\ d.key = key
      PROVE  PollInv'
  BY <1>1 DEF PollInv
<1>2. Poll(key).key = key
  BY DEF Poll, Request
<1>3. ASSUME NEW c \in calls, Serve(c) \/ Fail(c) PROVE PollInv'
  <2>1. UNCHANGED <<status, path, key>>
    BY <1>3 DEF Serve, ServeProtected, ServeDemo, ServeLogin, ServeLogout, Fail, pageVars
  <2>2. ASSUME NEW d \in calls', d \notin calls
        PROVE  d.kind = c.kind /\ d.own = c.own /\ d.key = c.key
    <3>1. CASE ServeProtected(c)
      BY <1>0, <2>2, <3>1 DEF ServeProtected, Call
    <3>2. CASE ServeLogin(c)
      <4>1. \/ d = [c EXCEPT !.is = "unauth"]
            \/ \E s \in Sessions : d = [c EXCEPT !.is = "ok", !.cred = s]
        BY <2>2, <3>2 DEF ServeLogin, Answered
      <4>. QED
        BY <1>0, <4>1 DEF Call
    <3>3. CASE ServeDemo(c) \/ ServeLogout(c) \/ Fail(c)
      BY <1>0, <2>2, <3>3 DEF ServeDemo, ServeLogout, Fail, Answered, Call
    <3>. QED
      BY <1>3, <3>1, <3>2, <3>3 DEF Serve
  <2>. QED
    BY <1>1, <2>1, <2>2
<1>4. ASSUME NEW c \in calls, Screened(c) PROVE PollInv'
  <2>1. PICK st \in {"authed", "anon"}, f \in [pending : BOOLEAN, failed : BOOLEAN] :
          Screen(st, path, calls \ {c}, f)
    BY <1>4, ScreenedStep
  <2>2. calls \ {c} \in SUBSET calls
    OBVIOUS
  <2>. QED
    BY <2>1, <2>2, ScreenPolls
<1>5. ASSUME NEW c \in calls, \/ PollAnswered(c) /\ ~SignsOff(c.is)
                              \/ LoginAnswered(c) /\ c.is # "ok"
      PROVE  PollInv'
  BY <1>1, <1>5 DEF PollAnswered, LoginAnswered
<1>6. ASSUME NEW c \in calls, DemoAnswered(c) PROVE PollInv'
  <2>1. UNCHANGED <<status, key>>
    BY <1>6 DEF DemoAnswered, pageVars
  <2>2. CASE status = "authed" /\ path = "home"
    <3>1. \A d \in calls : ~(d.kind = "poll" /\ d.own)
      BY <2>2 DEF PollInv, Mounted
    <3>2. path' = "page" /\ calls' \subseteq calls \cup {Poll(key)}
      BY <1>6, <2>2 DEF DemoAnswered
    <3>. QED
      BY <1>2, <2>1, <2>2, <3>1, <3>2 DEF PollInv, Mounted
  <2>3. CASE ~(status = "authed" /\ path = "home")
    BY <1>1, <1>6, <2>1, <2>3 DEF DemoAnswered
  <2>. QED
    BY <2>2, <2>3
<1>7. CASE (\E s \in Sessions : EndSession(s)) \/ ChangeData \/ Hide \/ UNCHANGED vars
  BY <1>1, <1>7 DEF EndSession, ChangeData, Hide, vars, pageVars
<1>8. CASE Submit \/ Logout
  <2>1. calls' \subseteq calls \cup {Request("login"), Request("logout")}
    BY <1>8 DEF Submit, Logout
  <2>2. UNCHANGED <<status, path, key>>
    BY <1>8 DEF Submit, Logout, pageVars
  <2>. QED
    BY <1>1, <2>1, <2>2 DEF Request
<1>9. CASE TimerTick \/ Show
  <2>1. calls' \subseteq calls \cup (IF Mounted(status, path) THEN {Poll(key)} ELSE {})
    BY <1>9 DEF TimerTick, Show
  <2>2. UNCHANGED <<status, path, key>>
    BY <1>9 DEF TimerTick, Show, pageVars
  <2>. QED
    BY <1>1, <1>2, <2>1, <2>2
<1>10. ASSUME NEW k \in Keys, Resubscribe(k) PROVE PollInv'
  <2>1. /\ calls' = Cancelled(calls, "poll") \cup {Poll(k)} /\ key' = k
        /\ Mounted(status, path) /\ UNCHANGED <<status, path>>
    BY <1>10 DEF Resubscribe
  <2>2. \A d \in Cancelled(calls, "poll") : d.kind = "poll" => ~d.own
    BY <1>0 DEF Cancelled, Call
  <2>3. Poll(k).key = k
    BY DEF Poll, Request
  <2>. QED
    BY <2>1, <2>2, <2>3 DEF PollInv, Mounted
<1>. QED
  BY <1>3, <1>4, <1>5, <1>6, <1>7, <1>8, <1>9, <1>10 DEF Next, Deliver, Screened

-----------------------------------------------------------------------------
\* The parts together are inductive.
LEMMA Invariance == Spec => []IInv
<1>1. IInv /\ [Next]_vars => IInv'
  BY TypeNext, RefusedNext, LogoutNext, PollNext DEF IInv
<1>. QED
  BY <1>1, InitIInv, PTL DEF Spec

\* Whatever is in flight and whatever the user does, the state of the console keeps its
\* types: the form, the cache of the demo status, the routes, the requests.
THEOREM PortalTypes == Spec => []TypeOK
<1>1. IInv => TypeOK
  BY DEF IInv
<1>. QED
  BY <1>1, Invariance, PTL

\* A client whose session is live is sent to the login form only after a request failed
\* or when the answer to an earlier cookie arrived: never because a 401 was wrong.
THEOREM SignOffHasACause == Spec => []NoFalseLogout
<1>1. IInv => NoFalseLogout
  BY DEF IInv
<1>. QED
  BY <1>1, Invariance, PTL

\* usePolledQuery never shows the answer for an earlier target, however many polls of
\* earlier subscriptions are still in flight.
THEOREM AnswersAreOfTheTarget == Spec => DataOfKey
<1> DEFINE Fresh == data' \notin {data, NoData} => data'.key = key'
<1>1. IInv /\ [Next]_vars => [Fresh]_vars
  <2> SUFFICES ASSUME IInv, Next PROVE Fresh
    BY DEF vars, pageVars
  <2>1. ASSUME NEW c \in calls, PollAnswered(c), ~SignsOff(c.is) PROVE Fresh
    <3>1. UNCHANGED key /\ (data' # data => c.own /\ c.kind = "poll" /\ data'.key = c.key)
      BY <2>1 DEF PollAnswered
    <3>. QED
      BY <3>1 DEF IInv, PollInv
  <2>2. ASSUME NEW c \in calls, Screened(c) PROVE Fresh
    <3>1. PICK st, f : Screen(st, path, calls \ {c}, f)
      BY <2>2, ScreenedStep DEF IInv
    <3>. QED
      BY <3>1 DEF Screen
  <2>3. ASSUME NEW c \in calls, \/ Serve(c) \/ Fail(c) \/ DemoAnswered(c)
                                \/ LoginAnswered(c) /\ c.is # "ok"
        PROVE  data' = data
    BY <2>3 DEF Serve, ServeProtected, ServeDemo, ServeLogin, ServeLogout, Fail, DemoAnswered,
                LoginAnswered, pageVars
  <2>4. CASE \/ \E s \in Sessions : EndSession(s)
             \/ ChangeData \/ Submit \/ Logout \/ TimerTick \/ Hide \/ Show
             \/ \E k \in Keys : Resubscribe(k)
    BY <2>4 DEF EndSession, ChangeData, Submit, Logout, TimerTick, Hide, Show, Resubscribe, pageVars
  <2>. QED
    BY <2>1, <2>2, <2>3, <2>4 DEF Next, Deliver, Screened
<1>. QED
  BY <1>1, Invariance, PTL DEF Spec, DataOfKey
=============================================================================
