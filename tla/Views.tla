---------------------------------- MODULE Views ----------------------------------
(***************************************************************************)
(* The console's shell and the screens that only look: the menu decides    *)
(* which one is mounted, and a screen that is left forgets what it knew.   *)
(***************************************************************************)
EXTENDS Details

vars == <<menuVars, wallVars, table, lookVars, detailVars>>

ViewsInit == MenuInit /\ WallInit /\ TableInit /\ LookInit /\ DetailsInit

Keep == IF path' = path THEN Mounted ELSE {}

Remounts == Mount(Keep, Mounted' \ Keep)

\* With a step of the shell: what is left is forgotten, what is reached is mounted.
Routed ==
  /\ LeaveBoard(path')
  /\ table' = IF path' = Idle THEN table ELSE FreshTable
  /\ chosen' = IF path' = path THEN chosen ELSE NoChoice
  /\ row' = IF path' = path THEN row ELSE None
  /\ Remounts

\* With a step of the board: a first snapshot mounts what waited for it.
Rendered == UNCHANGED <<table, detailVars>> /\ Remounts

Next ==
  \/ (MenuNext \/ Unauthorized) /\ Routed
  \/ WallNext /\ Rendered
  \/ TableNext /\ DrawerGpu = None /\ UNCHANGED <<lookVars, detailVars>>
  \/ LookNext /\ UNCHANGED detailVars
  \/ DetailsNext

\* The status is told, effects run, timers fire, series follow, and the sheet's calls are
\* answered, or denied; with no session the board's own poll signs the client off. The
\* operator, the server's turns and the failures owe nothing.
Fairness ==
  /\ WF_vars((StatusKnown \/ HomeRedirect \/ PathEffect) /\ Routed)
  /\ WF_vars(OnBoard /\ Unauthorized /\ Routed)
  /\ WF_vars(FleetPoll /\ Rendered) /\ WF_vars(StatePoll /\ Rendered)
  /\ \A n \in Node : WF_vars(SeriesFollow(n) /\ Rendered)
  /\ WF_vars(Tick("sheet") /\ UNCHANGED detailVars)
  /\ \A w \in {"sheet", "asset", "label"} :
       WF_vars((\E c \in calls : c.of = w /\ (Answered(c) \/ Denied(c))) /\ UNCHANGED detailVars)

Spec == ViewsInit /\ [][Next]_vars /\ Fairness
=============================================================================
