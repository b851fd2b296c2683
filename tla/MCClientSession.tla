-------------------------- MODULE MCClientSession --------------------------
(***************************************************************************)
(* One run for the parts of a client session that share no state.  A       *)
(* behaviour is one of the part that focus names; the others stand still.  *)
(***************************************************************************)
EXTENDS ServerPicker, ClientBoot, Sources, ServitudeLifecycle, ReadMarkers

VARIABLE focus

vars == <<focus, pickerVars, bootVars, sourcesVars, lifecycleVars, readVars>>

Init ==
  /\ focus \in {"picker", "boot", "sources", "lifecycle", "markers"}
  /\ PickerInit /\ (focus # "picker" => ~pkNative)
  /\ BootInit /\ (focus # "boot" => bNative /\ bStored = NoSession /\ bConfig = "none")
  /\ SourcesInit /\ (focus # "sources" => ~sNative)
  /\ LifecycleInit /\ (focus # "lifecycle" => lServer = "running")
  /\ ReadInit /\ (focus # "markers" => kRoom = "ra" /\ kPane)

Stays(f) ==
  /\ focus = f /\ UNCHANGED focus
  /\ f # "picker" => UNCHANGED pickerVars
  /\ f # "boot" => UNCHANGED bootVars
  /\ f # "sources" => UNCHANGED sourcesVars
  /\ f # "lifecycle" => UNCHANGED lifecycleVars
  /\ f # "markers" => UNCHANGED readVars

Next ==
  \/ Stays("picker") /\ PickerNext
  \/ Stays("boot") /\ BootNext
  \/ Stays("sources") /\ SourcesNext
  \/ Stays("lifecycle") /\ LifecycleNext
  \/ Stays("markers") /\ ReadNext

\* Timers fire and painted frames run.
Fairness ==
  /\ WF_vars(Stays("boot") /\ SplashSteps)
  /\ WF_vars(Stays("markers") /\ ReadTimers)

Spec == Init /\ [][Next]_vars /\ Fairness

\* Every part of the session is well formed; whatever a server was found by
\* (documents, pasted text, a scanned code), each committed discovery result is
\* https; and the sources are listed once each, on the rail and per Matrix server.
SessionInv ==
  /\ PickerTypeOK /\ BootTypeOK /\ SourcesTypeOK /\ LifecycleTypeOK /\ ReadTypeOK
  /\ CommittedOverHttps
  /\ OneMatrixSourcePerHost /\ RailShowsEverySource

\* The splash goes away in the end (SplashEnds of ClientBoot), when it is the
\* boot that runs.
SplashGoes == focus = "boot" => SplashEnds

\* A room that is looked at loses its badge (BadgeClears of ReadMarkers).
BadgeGoes == focus = "markers" => BadgeClears
=============================================================================
