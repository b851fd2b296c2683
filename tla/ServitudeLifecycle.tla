------------------------- MODULE ServitudeLifecycle -------------------------
(***************************************************************************)
(* The embedded server is stopped while a mobile window is in the          *)
(* background (hooks/useServitudeLifecycle.ts).  The handlers of blur and  *)
(* focus run interleaved: each of their awaits is a step of its own.       *)
(***************************************************************************)
EXTENDS Naturals

CONSTANT MaxBlurs  \* bound on changes of focus

ASSUME LifecycleAssumption == MaxBlurs \in Nat

VARIABLES
  lServer,   \* the embedded server (external)
  lHosted,   \* the user has ever switched it on
  lPaused,   \* pausedByLifecycle
  lFocused,  \* the window has the focus
  lChanges,  \* changes of focus so far
  lBlur,     \* where each blur handler under way stands
  lFocus     \* focus handlers under way

lifecycleVars == <<lServer, lHosted, lPaused, lFocused, lChanges, lBlur, lFocus>>

LifecycleInit ==
  /\ lServer \in {"running", "stopped"} /\ lHosted = (lServer = "running")
  /\ lPaused = FALSE /\ lFocused = TRUE /\ lChanges = 0
  /\ lBlur = [status |-> 0, stop |-> 0] /\ lFocus = 0

\* The user starts or stops the server in the settings, while no handler is under way.
UserSwitches ==
  /\ lFocused /\ lBlur = [status |-> 0, stop |-> 0] /\ lFocus = 0
  /\ lServer' = IF lServer = "running" THEN "stopped" ELSE "running"
  /\ lHosted' = TRUE
  /\ UNCHANGED <<lPaused, lFocused, lChanges, lBlur, lFocus>>

\* handleBlur asks for the status.
Blur ==
  /\ lFocused /\ lChanges < MaxBlurs
  /\ lFocused' = FALSE /\ lChanges' = lChanges + 1
  /\ lBlur' = [lBlur EXCEPT !.status = @ + 1]
  /\ UNCHANGED <<lServer, lHosted, lPaused, lFocus>>

\* Mutant: the server is stopped without a look at its status.
BlurStatus_Unread(answered) ==
  /\ lBlur.status > 0
  /\ lBlur' = [status |-> lBlur.status - 1, stop |-> lBlur.stop + 1]
  /\ UNCHANGED <<lServer, lHosted, lPaused, lFocused, lChanges, lFocus>>

\* The status answered handleBlur; a running server is stopped.
BlurStatus(answered) ==
  /\ lBlur.status > 0
  /\ LET go == answered /\ lServer = "running" IN
     lBlur' = [status |-> lBlur.status - 1, stop |-> lBlur.stop + (IF go THEN 1 ELSE 0)]
  /\ UNCHANGED <<lServer, lHosted, lPaused, lFocused, lChanges, lFocus>>

\* servitudeStop answered: only a stop that worked counts as a pause.
BlurStopped(stopped) ==
  /\ lBlur.stop > 0
  /\ lServer' = IF stopped THEN "stopped" ELSE lServer
  /\ lPaused' = (lPaused \/ stopped)
  /\ lBlur' = [lBlur EXCEPT !.stop = @ - 1]
  /\ UNCHANGED <<lHosted, lFocused, lChanges, lFocus>>

\* handleFocus restarts what a blur paused.
Focus ==
  /\ ~lFocused
  /\ lFocused' = TRUE
  /\ lFocus' = IF lPaused THEN lFocus + 1 ELSE lFocus
  /\ UNCHANGED <<lServer, lHosted, lPaused, lChanges, lBlur>>

\* servitudeStart answered; the flag is cleared either way.
FocusStarted(started) ==
  /\ lFocus > 0
  /\ lServer' = IF started THEN "running" ELSE lServer
  /\ lPaused' = FALSE /\ lFocus' = lFocus - 1
  /\ UNCHANGED <<lHosted, lFocused, lChanges, lBlur>>

LifecycleNext ==
  \/ UserSwitches \/ Blur \/ Focus
  \/ \E ok \in BOOLEAN : BlurStatus(ok) \/ BlurStopped(ok) \/ FocusStarted(ok)

LifecycleTypeOK ==
  /\ lServer \in {"running", "stopped"} /\ {lHosted, lPaused, lFocused} \subseteq BOOLEAN
  /\ lChanges \in 0..MaxBlurs /\ lFocus \in 0..MaxBlurs
  /\ lBlur \in [status : 0..MaxBlurs, stop : 0..MaxBlurs]

LifecycleSpec == LifecycleInit /\ [][LifecycleNext]_lifecycleVars

\* "When they didn't, we never touch the lifecycle" (useServitudeLifecycle.ts): a user
\* who never switched hosting on never hosts, whatever blurs, focuses and answers cross.
NoHostingWithoutConsent == ~lHosted => lServer = "stopped"
=============================================================================
