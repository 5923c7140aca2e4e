-------------------------------- MODULE Portal --------------------------------
(***************************************************************************)
(* The console in front of its login: AuthContext and RequireAuth, the     *)
(* login form, the requests of lib/api.ts, the home redirect with the      *)
(* cached demo status, and one page that polls with usePolledQuery.        *)
(*                                                                         *)
(* JavaScript runs one callback at a time, but every await lets others in: *)
(* a request is a record in calls, sent with the cookie of that moment,    *)
(* answered by the server and delivered to whoever waits for it, in any    *)
(* order.                                                                  *)
(***************************************************************************)
EXTENDS Integers, FiniteSets

CONSTANTS
  Keys,         \* what the page may show: the values its deps take
  DemoServer,   \* is the server one with demonstration data?
  MaxSessions,  \* bound: sessions that are told apart at a time
  MaxCalls,     \* bound: requests in flight when another one is sent
  MaxChanges,   \* bound: changes of the data on the server
  MaxFailures   \* bound: requests the network or the server fails

ASSUME PortalAssumption ==
  /\ Keys # {} /\ DemoServer \in BOOLEAN
  /\ MaxSessions \in Nat \ {0} /\ MaxCalls \in Nat \ {0}
  /\ MaxChanges \in Nat /\ MaxFailures \in Nat

VARIABLES
  valid,      \* server: the sessions that are live
  now,        \* server: the version of the data
  cookie,     \* browser: the session it presents, 0 for none
  status,     \* AuthContext: "unknown", "authed", "anon"
  path,       \* the route: "home", "login", "page"
  from,       \* where the login form leads back to
  form,       \* the login form: pending, failed
  demo,       \* module cache of useDemoStatus: "unasked", "asked", "on", "off"
  key,        \* the deps of the page
  hidden,     \* document.hidden
  data,       \* usePolledQuery: what is shown, NoData for null
  error,      \* usePolledQuery: is a message shown?
  calls,      \* the requests in flight
  failures,
  upset       \* history: has an answer to an earlier cookie or a failed probe
              \* ended the login state?

serverVars == <<valid, now>>
pageVars   == <<key, hidden, data, error>>
vars == <<valid, now, cookie, status, path, from, form, demo, pageVars, calls, failures, upset>>

-----------------------------------------------------------------------------
Sessions == 0 .. MaxSessions
FirstKey == CHOOSE k \in Keys : TRUE
NoData == [key |-> "none", version |-> 0]
Data == [key : Keys, version : 0 .. MaxChanges] \cup {NoData}
EmptyForm == [pending |-> FALSE, failed |-> FALSE]

\* A request: cred is the session it was sent with, own whether the one who waits
\* for it is still there, is whether and how it was answered.
Call == [kind : {"probe", "login", "logout", "poll", "demo"}, cred : Sessions,
         key : Keys, own : BOOLEAN, version : 0 .. MaxChanges,
         is : {"sent", "ok", "unauth", "error"}]

Request(kind) ==
  [kind |-> kind, cred |-> cookie, key |-> FirstKey, own |-> TRUE, version |-> 0, is |-> "sent"]

Poll(k) == [Request("poll") EXCEPT !.key = k]

\* Does RequireAuth render the page, so that its query is subscribed?
Mounted(st, p) == st = "authed" /\ p = "page"

NotCancelled(cs, kind) == cs

\* Nobody waits any more for the answers of a subscription that has ended.
Cancelled(cs, kind) == {IF c.kind = kind THEN [c EXCEPT !.own = FALSE] ELSE c : c \in cs}

\* Where the redirects of Login, RequireAuth and HomeRedirect end.
Target(p) == IF p = "home" /\ demo \in {"on", "off"} THEN "page" ELSE p

Landing(st, p, back) ==
  CASE st = "authed" /\ p = "login" -> Target(back)
    [] st = "authed" /\ p # "login" -> Target(p)
    [] st = "anon"                  -> "login"
    [] OTHER                        -> p

BackAnywhere(st, p) == IF st = "anon" THEN p ELSE from

\* RequireAuth hands the login form the route it takes the client from.
Back(st, p) == IF st = "anon" /\ p # "login" THEN p ELSE from

\* Login, HomeRedirect and Shell ask for the demo status; RequireAuth mounts the
\* latter two only behind a login.
AsksDemo(st, p) == demo = "unasked" /\ (p = "login" \/ st = "authed")

\* The screen after a change of status or route, cs being the requests in flight:
\* redirects, then what is unmounted is cancelled, and what is mounted starts. f is the
\* login form if it stays.
Screen(st, p, cs, f) ==
  LET to     == Landing(st, p, from)
      leaves == Mounted(status, path) /\ ~Mounted(st, to)
      enters == ~Mounted(status, path) /\ Mounted(st, to)
      gone   == IF leaves THEN Cancelled(cs, "poll")
                ELSE IF path = "login" /\ to # "login" THEN Cancelled(cs, "login")
                ELSE cs
  IN /\ status' = st /\ path' = to
     /\ from' = Back(st, p)
     /\ calls' = gone \cup (IF enters THEN {Poll(FirstKey)} ELSE {})
                      \cup (IF AsksDemo(st, to) THEN {Request("demo")} ELSE {})
     /\ form' = IF to = "login" /\ path = "login" THEN f ELSE EmptyForm
     /\ demo' = IF AsksDemo(st, to) THEN "asked" ELSE demo
     /\ IF enters \/ leaves THEN key' = FirstKey /\ data' = NoData /\ error' = FALSE
                            ELSE UNCHANGED <<key, data, error>>

Init ==
  /\ cookie \in {0, 1} /\ valid \in SUBSET ({cookie} \ {0}) /\ now = 0
  /\ status = "unknown" /\ path \in {"home", "login", "page"} /\ from = "page"
  /\ form = EmptyForm
  /\ key = FirstKey /\ hidden = FALSE /\ data = NoData /\ error = FALSE
  /\ demo = IF path = "login" THEN "asked" ELSE "unasked"
  /\ calls = {Request("probe")} \cup IF path = "login" THEN {Request("demo")} ELSE {}
  /\ failures = 0 /\ upset = FALSE

-----------------------------------------------------------------------------
(* The server and the network.                                              *)

Answered(c, is) == calls' = (calls \ {c}) \cup {[c EXCEPT !.is = is]}

\* A protected request is answered by the session it came with.
ServeProtected(c) ==
  /\ c \in calls /\ c.is = "sent" /\ c.kind \in {"probe", "poll"}
  /\ calls' = (calls \ {c}) \cup
       {[c EXCEPT !.is = IF c.cred \in valid THEN "ok" ELSE "unauth",
                  !.version = IF c.kind = "poll" THEN now ELSE 0]}
  /\ UNCHANGED <<valid, now, cookie, status, path, from, form, demo, pageVars, failures, upset>>

ServeDemo(c) ==
  /\ c \in calls /\ c.is = "sent" /\ c.kind = "demo"
  /\ Answered(c, "ok")
  /\ UNCHANGED <<valid, now, cookie, status, path, from, form, demo, pageVars, failures, upset>>

\* The credentials match and there is a new session, or they do not.
ServeLogin(c) ==
  /\ c \in calls /\ c.is = "sent" /\ c.kind = "login"
  /\ \/ \E s \in Sessions \ (valid \cup {0, cookie} \cup {d.cred : d \in calls}) :
          /\ valid' = valid \cup {s}
          /\ calls' = (calls \ {c}) \cup {[c EXCEPT !.is = "ok", !.cred = s]}
     \/ Answered(c, "unauth") /\ UNCHANGED valid
  /\ UNCHANGED <<now, cookie, status, path, from, form, demo, pageVars, failures, upset>>

ServeLogout(c) ==
  /\ c \in calls /\ c.is = "sent" /\ c.kind = "logout"
  /\ valid' = valid \ {c.cred}
  /\ Answered(c, "ok")
  /\ UNCHANGED <<now, cookie, status, path, from, form, demo, pageVars, failures, upset>>

\* No answer, or one that is neither good nor 401; what was asked may have been done.
Fail(c) ==
  /\ c \in calls /\ c.is \in {"sent", "ok"} /\ failures < MaxFailures
  /\ failures' = failures + 1
  /\ Answered(c, "error")
  /\ UNCHANGED <<valid, now, cookie, status, path, from, form, demo, pageVars, upset>>

\* Sessions end by age, with a restart of the server, or by a logout elsewhere.
EndSession(s) ==
  /\ s \in valid
  /\ valid' = valid \ {s}
  /\ UNCHANGED <<now, cookie, status, path, from, form, demo, pageVars, calls, failures, upset>>

ChangeData ==
  /\ now < MaxChanges
  /\ now' = now + 1
  /\ UNCHANGED <<valid, cookie, status, path, from, form, demo, pageVars, calls, failures, upset>>

-----------------------------------------------------------------------------
(* What the user and the browser do.                                        *)

SendMore == Cardinality(calls) < MaxCalls

Submit ==
  /\ path = "login" /\ status # "authed" /\ ~form.pending /\ SendMore
  /\ form' = [pending |-> TRUE, failed |-> FALSE]
  /\ calls' = calls \cup {Request("login")}
  /\ UNCHANGED <<serverVars, cookie, status, path, from, demo, pageVars, failures, upset>>

Logout ==
  /\ Mounted(status, path) /\ SendMore
  /\ calls' = calls \cup {Request("logout")}
  /\ UNCHANGED <<serverVars, cookie, status, path, from, form, demo, pageVars, failures, upset>>

\* The deps change, or refresh is called: the subscription is a new one. What is
\* shown stays until the first answer.
Resubscribe(k) ==
  /\ Mounted(status, path) /\ SendMore
  /\ key' = k
  /\ calls' = Cancelled(calls, "poll") \cup {Poll(k)}
  /\ UNCHANGED <<serverVars, cookie, status, path, from, form, demo, hidden, data, error, failures, upset>>

\* The interval of usePolledQuery: asked again whether or not the last has answered.
TimerTick ==
  /\ Mounted(status, path) /\ ~hidden /\ SendMore
  /\ calls' = calls \cup {Poll(key)}
  /\ UNCHANGED <<serverVars, cookie, status, path, from, form, demo, pageVars, failures, upset>>

\* Elsewhere nothing asks whether the tab is hidden; it may be when a page is mounted.
Hide ==
  /\ Mounted(status, path) /\ ~hidden /\ hidden' = TRUE
  /\ UNCHANGED <<serverVars, cookie, status, path, from, form, demo, key, data, error, calls, failures, upset>>

Show ==
  /\ hidden /\ hidden' = FALSE
  /\ IF Mounted(status, path) THEN SendMore /\ calls' = calls \cup {Poll(key)}
                              ELSE UNCHANGED calls
  /\ UNCHANGED <<serverVars, cookie, status, path, from, form, demo, key, data, error, failures, upset>>

-----------------------------------------------------------------------------
(* What becomes of the answers.                                             *)

NeverSignsOff(is) == FALSE

SignsOffOnAnyFailure(is) == is \in {"unauth", "error"}

\* request: which answers call the handler of setUnauthorizedHandler?
SignsOff(is) == is = "unauth"

Late(c) == c.cred # cookie

StatusAfterProbe401Only(is) ==
  IF is = "ok" THEN "authed" ELSE IF is = "unauth" THEN "anon" ELSE status

\* The first probe: any failure shows the login form, lest the skeleton stay.
StatusAfterProbe(is) == IF is = "ok" THEN "authed" ELSE "anon"

ProbeAnswered(c) ==
  /\ c \in calls /\ c.kind = "probe" /\ c.is # "sent"
  /\ Screen(StatusAfterProbe(c.is), path, calls \ {c}, form)
  /\ upset' = (c.is = "error" \/ (c.is = "unauth" /\ (upset \/ Late(c))))
  /\ UNCHANGED <<serverVars, cookie, hidden, failures>>

ErrorStays(c) == error \/ c.is = "error"

\* A good answer takes the message of an earlier failure away.
ErrorAfter(c) == c.is = "error"

\* A 401 is left to the AuthContext; other failures leave the data as it is.
PollAnswered(c) ==
  /\ c \in calls /\ c.kind = "poll" /\ c.is # "sent"
  /\ IF SignsOff(c.is)
       THEN /\ Screen("anon", path, calls \ {c}, form)
            /\ upset' = (upset \/ Late(c))
       ELSE /\ calls' = calls \ {c}
            /\ UNCHANGED <<status, path, from, form, demo, key, upset>>
            /\ IF c.own /\ c.is # "unauth"
                 THEN /\ error' = ErrorAfter(c)
                      /\ data' = IF c.is = "ok" THEN [key |-> c.key, version |-> c.version] ELSE data
                 ELSE UNCHANGED <<data, error>>
  /\ UNCHANGED <<serverVars, cookie, hidden, failures>>

\* onSubmit after login(): the form is freed whatever the answer is.
FormAfter(c) ==
  IF ~c.own THEN form
  ELSE IF c.is = "ok" THEN EmptyForm ELSE [pending |-> FALSE, failed |-> TRUE]

LoginAnswered(c) ==
  /\ c \in calls /\ c.kind = "login" /\ c.is # "sent"
  /\ IF c.is = "ok"
       THEN /\ cookie' = c.cred /\ upset' = FALSE
            /\ Screen("authed", path, calls \ {c}, FormAfter(c))
       ELSE /\ calls' = calls \ {c}
            /\ form' = FormAfter(c)
            /\ UNCHANGED <<cookie, status, path, from, demo, key, data, error, upset>>
  /\ UNCHANGED <<serverVars, hidden, failures>>

\* logout: whatever becomes of the request, the pages are left.
LogoutAnswered(c) ==
  /\ c \in calls /\ c.kind = "logout" /\ c.is # "sent"
  /\ cookie' = IF c.is = "ok" THEN 0 ELSE cookie
  /\ Screen("anon", path, calls \ {c}, form)
  /\ upset' = (upset \/ c.is = "error")
  /\ UNCHANGED <<serverVars, hidden, failures>>

\* The cache keeps the first answer; a failure counts as "no demonstration data".
DemoAnswered(c) ==
  /\ c \in calls /\ c.kind = "demo" /\ c.is # "sent"
  /\ demo' = IF c.is = "ok" /\ DemoServer THEN "on" ELSE "off"
  /\ LET to == IF status = "authed" /\ path = "home" THEN "page" ELSE path
     IN /\ path' = to
        /\ calls' = (calls \ {c}) \cup
             IF to # path THEN {Poll(key)} ELSE {}
  /\ UNCHANGED <<serverVars, cookie, status, from, form, pageVars, failures, upset>>

-----------------------------------------------------------------------------
Serve(c) == ServeProtected(c) \/ ServeDemo(c) \/ ServeLogin(c) \/ ServeLogout(c)

Deliver(c) ==
  ProbeAnswered(c) \/ PollAnswered(c) \/ LoginAnswered(c) \/ LogoutAnswered(c) \/ DemoAnswered(c)

Next ==
  \/ \E c \in calls : Serve(c) \/ Fail(c) \/ Deliver(c)
  \/ \E s \in Sessions : EndSession(s)
  \/ ChangeData \/ Submit \/ Logout \/ TimerTick \/ Hide \/ Show
  \/ \E k \in Keys : Resubscribe(k)

\* Every request ends: it is answered, or the browser gives it up; the interval of a
\* mounted page ticks. Nothing makes the user act.
Fairness ==
  /\ \A kind \in {"probe", "login", "logout", "poll", "demo"} :
       /\ WF_vars(\E c \in calls : c.kind = kind /\ Serve(c))
       /\ WF_vars(\E c \in calls : c.kind = kind /\ Deliver(c))
  /\ SF_vars(TimerTick)

Spec == Init /\ [][Next]_vars /\ Fairness

-----------------------------------------------------------------------------
TypeOK ==
  /\ valid \subseteq Sessions /\ now \in 0 .. MaxChanges /\ cookie \in Sessions
  /\ status \in {"unknown", "authed", "anon"}
  /\ path \in {"home", "login", "page"} /\ from \in {"home", "page"}
  /\ form \in [pending : BOOLEAN, failed : BOOLEAN]
  /\ demo \in {"unasked", "asked", "on", "off"}
  /\ key \in Keys /\ hidden \in BOOLEAN /\ data \in Data /\ error \in BOOLEAN
  /\ calls \subseteq Call /\ failures \in 0 .. MaxFailures /\ upset \in BOOLEAN

\* A client whose session is live is sent to the login form only by a request that
\* failed, or by an answer to one it had sent with an earlier cookie.
NoFalseLogout == status = "anon" /\ cookie \in valid => upset

\* An answer for the target that was shown before never replaces the data of the one
\* that is: usePolledQuery cancels its subscription when the deps change.
DataOfKey == [][data' \notin {data, NoData} => data'.key = key']_vars

\* The skeleton of RequireAuth does not stay, whatever becomes of the probe.
SkeletonEnds == status = "unknown" ~> status # "unknown"

\* A session that ended under an open page is noticed: the 401 of its next poll
\* leads to the login form, even if the poll itself is no longer waited for.
ExpiryIsNoticed ==
  Mounted(status, path) /\ cookie \notin valid ~> status = "anon" \/ cookie \in valid \/ hidden

\* A page that stays in view and is left alone ends up with the data of its own target
\* as the server has them, without an error message.
CatchesUp ==
  /\ <>[](Mounted(status, path) /\ ~hidden)
  /\ <>[][~\E k \in Keys : Resubscribe(k)]_vars
  => <>[](data = [key |-> key, version |-> now] /\ ~error)

=============================================================================
