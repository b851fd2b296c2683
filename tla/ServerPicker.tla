---------------------------- MODULE ServerPicker ----------------------------
(***************************************************************************)
(* The screen that picks a server (components/auth/ServerPickerScreen.tsx):*)
(* discovery of a typed host, a pasted configuration, a scanned code, and  *)
(* the embedded host, whose start is followed by a loop of status polls.   *)
(***************************************************************************)
EXTENDS WellKnown, Naturals, FiniteSets

CONSTANT MaxGeneration  \* bound on clicks on Host and on Cancel

ASSUME PickerAssumption == MaxGeneration \in Nat

VARIABLES
  pkNative,     \* a Tauri build
  pkPhase,      \* the phase of UiState, "failed" apart; "gone" once unmounted
  pkOrigin,     \* the origin carried by the phase
  pkFound,      \* the configuration on the success screen, or NoConfig
  pkScan,       \* the pairing scanner is open
  pkGeneration, \* hostingGenerationRef
  pkLoops,      \* the host starts under way, with the generation they captured
  pkServitude,  \* the embedded server (external)
  pkConfig      \* the configuration in the serverConfig store, or NoConfig

pickerVars == <<pkNative, pkPhase, pkOrigin, pkFound, pkScan, pkGeneration, pkLoops, pkServitude,
                pkConfig>>

Origins == {"join", "matrix", "bridge"}
Phases == {"menu", "input", "connecting", "success", "error", "hosting", "failed", "gone"}
LocalConfig == Config("http", "http", TRUE)

PickerInit ==
  /\ pkNative \in BOOLEAN
  /\ pkPhase = IF pkNative THEN "menu" ELSE "input"
  /\ pkOrigin = "join" /\ pkFound = NoConfig /\ pkScan = FALSE
  /\ pkGeneration = 0 /\ pkLoops = {} /\ pkServitude = "stopped"
  /\ pkConfig = NoConfig

\* setHomeserver and onConnected: the screen is left with a server.
Commit(config) == pkConfig' = config /\ pkPhase' = "gone" /\ pkScan' = FALSE

\* Join, Matrix and Bridge lead to the host field.
handleChoose(origin) ==
  /\ pkPhase = "menu" /\ ~pkScan
  /\ pkPhase' = "input" /\ pkOrigin' = origin
  /\ UNCHANGED <<pkNative, pkFound, pkScan, pkGeneration, pkLoops, pkServitude, pkConfig>>

\* A Matrix host is taken as it is typed; the others are discovered.
handleConnect ==
  /\ pkPhase = "input"
  /\ IF pkOrigin = "matrix"
     THEN pkPhase' = "success" /\ pkFound' = Config("https", "https", FALSE)
     ELSE pkPhase' = "connecting" /\ UNCHANGED pkFound
  /\ UNCHANGED <<pkNative, pkOrigin, pkScan, pkGeneration, pkLoops, pkServitude, pkConfig>>

Discovered(m, c, e) ==
  /\ pkPhase = "connecting"
  /\ LET result == discoverHomeserver(m, c, e) IN
     IF result.error # "none" THEN pkPhase' = "error" /\ UNCHANGED pkFound
     ELSE pkPhase' = "success" /\ pkFound' = result.config
  /\ UNCHANGED <<pkNative, pkOrigin, pkScan, pkGeneration, pkLoops, pkServitude, pkConfig>>

\* A pasted configuration that parses is checked for https on both URLs.
handlePasteBlob(parses, config) ==
  /\ pkPhase = "input"
  /\ IF parses /\ config.homeserver = "https" /\ config.api = "https"
     THEN pkPhase' = "success" /\ pkFound' = config
     ELSE pkPhase' = "error" /\ UNCHANGED pkFound
  /\ UNCHANGED <<pkNative, pkOrigin, pkScan, pkGeneration, pkLoops, pkServitude, pkConfig>>

\* The advanced field replaces the API base by free text.
EditApiBase(scheme) ==
  /\ pkPhase = "success"
  /\ pkFound' = [pkFound EXCEPT !.api = scheme]
  /\ UNCHANGED <<pkNative, pkPhase, pkOrigin, pkScan, pkGeneration, pkLoops, pkServitude, pkConfig>>

handleConfirm ==
  /\ pkPhase = "success"
  /\ Commit(pkFound)
  /\ UNCHANGED <<pkNative, pkOrigin, pkFound, pkGeneration, pkLoops, pkServitude>>

handleEditHost ==
  /\ pkPhase = "success"
  /\ pkPhase' = "input"
  /\ UNCHANGED <<pkNative, pkOrigin, pkFound, pkScan, pkGeneration, pkLoops, pkServitude, pkConfig>>

\* Mutant: the running poll loop is not cancelled.
handleReset_KeepsGeneration ==
  /\ pkPhase \in {"input", "error", "hosting", "failed"}
  /\ pkPhase' = IF pkNative THEN "menu" ELSE "input"
  /\ pkOrigin' = IF pkNative THEN pkOrigin ELSE "join"
  /\ UNCHANGED <<pkNative, pkFound, pkScan, pkGeneration, pkLoops, pkServitude, pkConfig>>

handleReset ==
  /\ pkPhase \in {"input", "error", "hosting", "failed"} /\ pkGeneration < MaxGeneration
  /\ pkGeneration' = pkGeneration + 1
  /\ pkPhase' = IF pkNative THEN "menu" ELSE "input"
  /\ pkOrigin' = IF pkNative THEN pkOrigin ELSE "join"
  /\ UNCHANGED <<pkNative, pkFound, pkScan, pkLoops, pkServitude, pkConfig>>

ToggleScanner ==
  /\ pkPhase = "menu"
  /\ pkScan' = ~pkScan
  /\ UNCHANGED <<pkNative, pkPhase, pkOrigin, pkFound, pkGeneration, pkLoops, pkServitude, pkConfig>>

handlePairingSuccess(config) ==
  /\ pkScan
  /\ Commit(config)
  /\ UNCHANGED <<pkNative, pkOrigin, pkFound, pkGeneration, pkLoops, pkServitude>>

\* The parent's Back button unmounts the screen and leaves the counter alone.
Leave ==
  /\ pkPhase # "gone"
  /\ pkPhase' = "gone" /\ pkScan' = FALSE
  /\ UNCHANGED <<pkNative, pkOrigin, pkFound, pkGeneration, pkLoops, pkServitude, pkConfig>>

-----------------------------------------------------------------------------
(***************************************************************************)
(* The embedded host.                                                      *)
(***************************************************************************)

handleChooseHost ==
  /\ pkPhase = "menu" /\ ~pkScan /\ pkGeneration < MaxGeneration
  /\ pkGeneration' = pkGeneration + 1
  /\ pkPhase' = "hosting"
  /\ pkLoops' = pkLoops \cup {[generation |-> pkGeneration', step |-> "starting"]}
  /\ UNCHANGED <<pkNative, pkOrigin, pkFound, pkScan, pkServitude, pkConfig>>

Current(l) == l.generation = pkGeneration
\* setState of a screen that is gone does nothing.
Shows(phase) == pkPhase' = IF pkPhase = "gone" THEN "gone" ELSE phase

\* startHostingServitude answered: the loop begins, or the failure is shown.
HostStarted(l, started) ==
  /\ l.step = "starting"
  /\ IF started
     THEN /\ pkLoops' = (pkLoops \ {l}) \cup {[l EXCEPT !.step = "polling"]}
          /\ UNCHANGED pkPhase
     ELSE /\ pkLoops' = pkLoops \ {l}
          /\ Shows(IF Current(l) THEN "failed" ELSE pkPhase)
  /\ UNCHANGED <<pkNative, pkOrigin, pkFound, pkScan, pkGeneration, pkServitude, pkConfig>>

\* One poll: a cancelled loop ends; running commits the local configuration; a
\* stopping server or a failed poll ends in failure; otherwise it polls again.
HostPolled(l, answered) ==
  /\ l.step = "polling"
  /\ LET over == ~Current(l) \/ ~answered \/ pkServitude \in {"running", "stopping"} IN
     pkLoops' = IF over THEN pkLoops \ {l} ELSE pkLoops
  /\ IF ~Current(l) THEN UNCHANGED <<pkPhase, pkScan, pkConfig>>
     ELSE IF answered /\ pkServitude = "running" THEN Commit(LocalConfig)
     ELSE /\ Shows(IF ~answered \/ pkServitude = "stopping" THEN "failed" ELSE "hosting")
          /\ UNCHANGED <<pkScan, pkConfig>>
  /\ UNCHANGED <<pkNative, pkOrigin, pkFound, pkGeneration, pkServitude>>

\* TIMEOUT_MS passed.
HostTimedOut(l) ==
  /\ l.step = "polling"
  /\ pkLoops' = pkLoops \ {l}
  /\ Shows(IF Current(l) THEN "failed" ELSE pkPhase)
  /\ UNCHANGED <<pkNative, pkOrigin, pkFound, pkScan, pkGeneration, pkServitude, pkConfig>>

\* The embedded server moves through its life cycle (external).
ServitudeMoves ==
  /\ pkServitude' \in CASE pkServitude = "stopped" -> {"starting"}
                        [] pkServitude = "starting" -> {"running", "stopping"}
                        [] pkServitude = "running" -> {"stopping"}
                        [] OTHER -> {"stopped"}
  /\ UNCHANGED <<pkNative, pkPhase, pkOrigin, pkFound, pkScan, pkGeneration, pkLoops, pkConfig>>

HostSteps(l) ==
  (\E answered \in BOOLEAN : HostStarted(l, answered) \/ HostPolled(l, answered)) \/ HostTimedOut(l)

PickerNext ==
  \/ \E origin \in {"join", "matrix", "bridge"} : handleChoose(origin)
  \/ handleConnect \/ \E m, c, e \in Responses : Discovered(m, c, e)
  \/ \E parses \in BOOLEAN, config \in Configs : ~config.local /\ handlePasteBlob(parses, config)
  \/ \E scheme \in {"https", "http"} : EditApiBase(scheme)
  \/ handleConfirm \/ handleEditHost \/ handleReset \/ ToggleScanner
  \/ handlePairingSuccess(Config("https", "https", FALSE)) \/ Leave \/ handleChooseHost
  \/ \E l \in pkLoops : HostSteps(l)
  \/ ServitudeMoves

-----------------------------------------------------------------------------

PickerTypeOK ==
  /\ pkNative \in BOOLEAN /\ pkScan \in BOOLEAN
  /\ pkPhase \in Phases /\ pkOrigin \in Origins
  /\ pkFound \in Configs \cup {NoConfig} /\ pkConfig \in Configs \cup {NoConfig}
  /\ pkGeneration \in Nat
  /\ pkLoops \subseteq [generation : 1..pkGeneration, step : {"starting", "polling"}]
  /\ pkServitude \in {"stopped", "starting", "running", "stopping"}

\* Cancelling cancels: from a screen that offers no server, no late answer of an
\* earlier host start commits one.
CancelledHostStaysCancelled ==
  [][(pkPhase \in {"menu", "input", "connecting", "error"} /\ ~pkScan) => UNCHANGED pkConfig]_pickerVars

\* Whatever way a server was found, documents and pasted text included, its
\* homeserver URL is https, unless it is this machine.
CommittedOverHttps ==
  pkConfig # NoConfig /\ ~pkConfig.local => pkConfig.homeserver = "https"

=============================================================================
