------------------------ MODULE ClientSessionProofs -------------------------
(***************************************************************************)
(* Theorems about the parts of a client session: the handlers that stop    *)
(* and restart the embedded server (ServitudeLifecycle), the screen that   *)
(* picks a server (ServerPicker), the launch with its sign-in (ClientBoot),*)
(* the unread badges (ReadMarkers) and the sources of a user (Sources);    *)
(* and about the session as a whole.                                       *)
(***************************************************************************)
EXTENDS MCClientSession, SelectionProofs, WellFoundedInduction, NaturalsInduction

-----------------------------------------------------------------------------
(***************************************************************************)
(* The embedded server, for any number of blurs and focuses under way.     *)
(***************************************************************************)

\* Every handler under way belongs to a change of focus of its own.
HandlersAreCounted ==
  /\ lBlur.status + lBlur.stop <= lChanges
  /\ lFocus <= lChanges
  /\ ~lFocused => lFocus < lChanges

\* Whoever never switched hosting on: nothing stops or restarts a server that
\* does not run, and no flag or handler is left that would.
Untouched == lServer = "stopped" /\ ~lPaused /\ lBlur.stop = 0 /\ lFocus = 0

LifecycleInv ==
  /\ LifecycleTypeOK
  /\ HandlersAreCounted
  /\ ~lHosted => Untouched

\* LifecycleInv holds in every initial state.
LEMMA LifecycleInvInit == LifecycleInit => LifecycleInv
  <1> SUFFICES ASSUME LifecycleInit
               PROVE  LifecycleInv
    OBVIOUS
  <1>1. /\ lBlur.status = 0 /\ lBlur.stop = 0 /\ lFocus = 0 /\ lChanges = 0
        /\ lBlur \in [status : 0..MaxBlurs, stop : 0..MaxBlurs]
    BY LifecycleAssumption DEF LifecycleInit
  <1>2. lHosted \in BOOLEAN /\ lPaused \in BOOLEAN /\ lFocused \in BOOLEAN
    BY Zenon DEF LifecycleInit
  <1>3. LifecycleTypeOK
    BY <1>1, <1>2, LifecycleAssumption DEF LifecycleInit, LifecycleTypeOK
  <1>4. HandlersAreCounted
    BY <1>1 DEF LifecycleInit, HandlersAreCounted
  <1>5. ~lHosted => Untouched
    BY <1>1 DEF LifecycleInit, Untouched
  <1> QED
    BY <1>3, <1>4, <1>5 DEF LifecycleInv

\* Every step of the user, the window and the two handlers keeps LifecycleInv.
LEMMA LifecycleInvStep == LifecycleInv /\ [LifecycleNext]_lifecycleVars => LifecycleInv'
  <1> SUFFICES ASSUME LifecycleInv, [LifecycleNext]_lifecycleVars
               PROVE  LifecycleInv'
    OBVIOUS
  <1>t. /\ lServer \in {"running", "stopped"}
        /\ lHosted \in BOOLEAN /\ lPaused \in BOOLEAN /\ lFocused \in BOOLEAN
        /\ lChanges \in Nat /\ lChanges <= MaxBlurs /\ lFocus \in Nat
        /\ lBlur = [status |-> lBlur.status, stop |-> lBlur.stop]
        /\ lBlur.status \in Nat /\ lBlur.stop \in Nat
    BY LifecycleAssumption DEF LifecycleInv, LifecycleTypeOK
  <1>c. HandlersAreCounted /\ (~lHosted => Untouched)
    BY DEF LifecycleInv
  \* What remains to be shown of each step.
  <1> DEFINE Typed ==
        /\ lServer' \in {"running", "stopped"}
        /\ lHosted' \in BOOLEAN /\ lPaused' \in BOOLEAN /\ lFocused' \in BOOLEAN
      Counted(status, stop) ==
        /\ lBlur' = [status |-> status, stop |-> stop]
        /\ status \in Nat /\ stop \in Nat /\ lFocus' \in Nat
        /\ lChanges' \in Nat /\ lChanges' <= MaxBlurs
        /\ status + stop <= lChanges'
        /\ lFocus' <= lChanges'
        /\ ~lFocused' => lFocus' < lChanges'
  <1>q. ASSUME NEW status, NEW stop, Typed, Counted(status, stop), (~lHosted => Untouched)'
        PROVE  LifecycleInv'
    <2>1. lBlur'.status = status /\ lBlur'.stop = stop
      BY <1>q
    <2>2. lBlur' \in [status : 0..MaxBlurs, stop : 0..MaxBlurs] /\ lFocus' \in 0..MaxBlurs
      <3>1. status \in 0..MaxBlurs /\ stop \in 0..MaxBlurs
        BY <1>q, LifecycleAssumption
      <3>2. lFocus' \in 0..MaxBlurs
        BY <1>q, LifecycleAssumption
      <3> QED
        BY <1>q, <3>1, <3>2
    <2>3. LifecycleTypeOK'
      <3>1. ({lHosted, lPaused, lFocused} \subseteq BOOLEAN)'
        BY <1>q, Zenon
      <3> QED
        BY <1>q, <2>2, <3>1, LifecycleAssumption DEF LifecycleTypeOK
    <2>4. HandlersAreCounted'
      BY <1>q, <2>1 DEF HandlersAreCounted
    <2> QED
      BY <1>q, <2>3, <2>4 DEF LifecycleInv
  <1> USE <1>t, <1>c DEF HandlersAreCounted
  <1>1. CASE UserSwitches
    <2>1. Typed
      BY <1>1 DEF UserSwitches
    <2>2. Counted(lBlur.status, lBlur.stop)
      BY <1>1 DEF UserSwitches
    <2>3. (~lHosted => Untouched)'
      BY <1>1 DEF UserSwitches
    <2> QED
      BY <1>q, <2>1, <2>2, <2>3
  <1>2. CASE Blur
    <2>1. Typed
      BY <1>2 DEF Blur
    <2>2. Counted(lBlur.status + 1, lBlur.stop)
      BY <1>2, LifecycleAssumption DEF Blur
    <2>3. (~lHosted => Untouched)'
      BY <1>2 DEF Blur, Untouched
    <2> QED
      BY <1>q, <2>1, <2>2, <2>3
  <1>3. CASE Focus
    <2>1. Typed
      BY <1>3 DEF Focus
    <2>2. Counted(lBlur.status, lBlur.stop)
      BY <1>3 DEF Focus
    <2>3. (~lHosted => Untouched)'
      BY <1>3 DEF Focus, Untouched
    <2> QED
      BY <1>q, <2>1, <2>2, <2>3
  <1>4. ASSUME NEW ok \in BOOLEAN, BlurStatus(ok)
        PROVE  LifecycleInv'
    <2>1. Typed
      BY <1>4 DEF BlurStatus
    <2>2. PICK n \in {0, 1} :
            /\ Counted(lBlur.status - 1, lBlur.stop + n)
            /\ n = 1 => lServer = "running"
      BY <1>4 DEF BlurStatus
    <2>3. (~lHosted => Untouched)'
      BY <1>4, <2>2 DEF BlurStatus, Untouched
    <2> QED
      BY <1>q, <2>1, <2>2, <2>3
  <1>5. ASSUME NEW ok \in BOOLEAN, BlurStopped(ok)
        PROVE  LifecycleInv'
    <2>1. Typed
      BY <1>5 DEF BlurStopped
    <2>2. Counted(lBlur.status, lBlur.stop - 1)
      BY <1>5 DEF BlurStopped
    <2>3. (~lHosted => Untouched)'
      BY <1>5 DEF BlurStopped, Untouched
    <2> QED
      BY <1>q, <2>1, <2>2, <2>3
  <1>6. ASSUME NEW ok \in BOOLEAN, FocusStarted(ok)
        PROVE  LifecycleInv'
    <2>1. Typed
      BY <1>6 DEF FocusStarted
    <2>2. Counted(lBlur.status, lBlur.stop)
      BY <1>6 DEF FocusStarted
    <2>3. (~lHosted => Untouched)'
      BY <1>6 DEF FocusStarted, Untouched
    <2> QED
      BY <1>q, <2>1, <2>2, <2>3
  <1>7. CASE UNCHANGED lifecycleVars
    BY <1>7 DEF lifecycleVars, LifecycleInv, LifecycleTypeOK, Untouched
  <1> QED
    BY <1>1, <1>2, <1>3, <1>4, <1>5, <1>6, <1>7 DEF LifecycleNext

\* The inductive invariant of the handlers.
LEMMA LifecycleInvAlways == LifecycleSpec => []LifecycleInv
  BY LifecycleInvInit, LifecycleInvStep, PTL DEF LifecycleSpec

\* A user who never switched hosting on never hosts: useServitudeLifecycle.ts
\* promises not to touch their lifecycle, whatever answers cross.
THEOREM NeverHostsUnasked == LifecycleSpec => []NoHostingWithoutConsent
  <1>1. LifecycleInv => NoHostingWithoutConsent
    BY DEF LifecycleInv, Untouched, NoHostingWithoutConsent
  <1> QED
    BY <1>1, LifecycleInvAlways, PTL

\* At most one blur and one focus handler per change of focus is under way, and
\* the state is well formed.
THEOREM LifecycleTypeCorrect == LifecycleSpec => []LifecycleTypeOK
  <1>1. LifecycleInv => LifecycleTypeOK
    BY DEF LifecycleInv
  <1> QED
    BY <1>1, LifecycleInvAlways, PTL

-----------------------------------------------------------------------------
(***************************************************************************)
(* The screen that picks a server.                                         *)
(***************************************************************************)

PickerSpec == PickerInit /\ [][PickerNext]_pickerVars

\* What the success screen offers was checked.
FoundOverHttps ==
  /\ pkPhase = "success" => pkFound # NoConfig
  /\ pkFound # NoConfig /\ ~pkFound.local => pkFound.homeserver = "https"

\* A loop that nobody cancelled is one of the hosting screen, or of a screen that
\* is gone; the scanner is open over the menu only.
LoopsOK ==
  /\ \A l \in pkLoops : Current(l) => pkPhase \in {"hosting", "failed", "gone"}
  /\ pkScan => pkPhase = "menu"

PickerInv == PickerTypeOK /\ FoundOverHttps /\ LoopsOK /\ CommittedOverHttps

\* Configurations, one by one.
LEMMA ConfigFacts ==
  /\ NoConfig \notin Configs /\ NoConfig.local = FALSE
  /\ \A h, a \in {"https", "http"}, l \in BOOLEAN :
       /\ Config(h, a, l) \in Configs /\ Config(h, a, l) # NoConfig
       /\ Config(h, a, l).homeserver = h /\ Config(h, a, l).local = l
  BY DEF Config, Configs, NoConfig

\* discoverHomeserver gives a configuration over https, or an error.
LEMMA DiscoveredOverHttps ==
  ASSUME NEW m, NEW c, NEW e, discoverHomeserver(m, c, e).error = "none"
  PROVE  /\ discoverHomeserver(m, c, e).config \in Configs
         /\ discoverHomeserver(m, c, e).config # NoConfig
         /\ discoverHomeserver(m, c, e).config.homeserver = "https"
  <1> DEFINE matrix == fetchWellKnown(m)
             concord == OrAbsent(fetchWellKnown(c))
             element == OrAbsent(fetchWellKnown(e))
             named == IF matrix # "absent" THEN matrix
                      ELSE IF element # "absent" THEN element ELSE "missing"
             error == IF matrix \in Errors THEN matrix
                      ELSE IF assertHttpsUrl(named) /\ assertHttpsUrl(concord) THEN "none"
                      ELSE "InvalidUrlError"
             config == IF error = "none" THEN Config(Scheme(named), Scheme(concord), FALSE) ELSE NoConfig
  <1>1. discoverHomeserver(m, c, e) = [error |-> error, config |-> config]
    BY DEF discoverHomeserver
  <1>2. error = "none"
    BY <1>1
  <1>3. matrix \notin Errors
    BY <1>2 DEF Errors
  <1>4. assertHttpsUrl(named)
    BY <1>2, <1>3
  <1>5. Scheme(named) = "https" /\ Scheme(concord) \in {"https", "http"}
    BY <1>4 DEF assertHttpsUrl, Scheme
  <1>6. config = Config(Scheme(named), Scheme(concord), FALSE)
    BY <1>2
  <1> HIDE DEF matrix, concord, element, named, error, config
  <1>7. discoverHomeserver(m, c, e).config = config
    BY <1>1
  <1>8. \A h, s \in {"https", "http"} :
          /\ Config(h, s, FALSE) \in Configs /\ Config(h, s, FALSE) # NoConfig
          /\ Config(h, s, FALSE).homeserver = h
    BY ConfigFacts, ZenonT(30)
  <1>9. config \in Configs /\ config # NoConfig /\ config.homeserver = "https"
    BY <1>5, <1>6, <1>8
  <1> QED
    BY <1>7, <1>9

\* The screen starts with nothing found, nothing committed and no loop.
LEMMA PickerInvInit == PickerInit => PickerInv
  <1> SUFFICES ASSUME PickerInit
               PROVE  PickerInv
    OBVIOUS
  <1>1. PickerTypeOK
    BY DEF PickerInit, PickerTypeOK, Phases, Origins
  <1>2. FoundOverHttps /\ LoopsOK /\ CommittedOverHttps
    BY DEF PickerInit, FoundOverHttps, LoopsOK, CommittedOverHttps
  <1> QED
    BY <1>1, <1>2 DEF PickerInv

\* Every step of the user and of the loops keeps PickerInv.
LEMMA PickerInvStep == PickerInv /\ [PickerNext]_pickerVars => PickerInv'
  <1> SUFFICES ASSUME PickerInv, [PickerNext]_pickerVars
               PROVE  PickerInv'
    OBVIOUS
  <1> DEFINE Typed ==
        /\ pkNative \in BOOLEAN /\ pkScan \in BOOLEAN /\ pkPhase \in Phases /\ pkOrigin \in Origins
        /\ pkFound \in Configs \cup {NoConfig} /\ pkConfig \in Configs \cup {NoConfig}
        /\ pkServitude \in {"stopped", "starting", "running", "stopping"}
      LoopsTyped ==
        /\ pkGeneration \in Nat
        /\ pkLoops \subseteq [generation : 1..pkGeneration, step : {"starting", "polling"}]
  <1>t. Typed /\ LoopsTyped /\ FoundOverHttps /\ LoopsOK /\ CommittedOverHttps
    BY DEF PickerInv, PickerTypeOK
  <1>q. SUFFICES (Typed /\ LoopsTyped /\ FoundOverHttps /\ LoopsOK /\ CommittedOverHttps)'
    BY DEF PickerInv, PickerTypeOK
  \* What most steps leave alone.
  <1>l. ASSUME UNCHANGED <<pkLoops, pkGeneration>>,
               pkPhase \in {"hosting", "failed", "gone"} => pkPhase' \in {"hosting", "failed", "gone"},
               pkScan' => pkPhase' = "menu"
        PROVE  (LoopsTyped /\ LoopsOK)'
    BY <1>t, <1>l DEF LoopsOK, Current
  <1>c. ASSUME UNCHANGED pkConfig
        PROVE  CommittedOverHttps'
    BY <1>t, <1>c DEF CommittedOverHttps
  <1>f. ASSUME UNCHANGED pkFound, pkPhase' = "success" => pkPhase = "success"
        PROVE  FoundOverHttps'
    BY <1>t, <1>f DEF FoundOverHttps
  <1>1. ASSUME NEW origin \in {"join", "matrix", "bridge"}, handleChoose(origin)
        PROVE  (Typed /\ LoopsTyped /\ FoundOverHttps /\ LoopsOK /\ CommittedOverHttps)'
    <2>1. Typed'
      BY <1>t, <1>1 DEF handleChoose, Phases, Origins
    <2> QED
      BY <1>t, <1>1, <1>l, <1>c, <1>f, <2>1 DEF handleChoose
  <1>2. CASE handleConnect
    <2> DEFINE config == Config("https", "https", FALSE)
    <2>1. config \in Configs /\ config # NoConfig /\ config.homeserver = "https"
      BY ConfigFacts
    <2>2. /\ UNCHANGED <<pkNative, pkOrigin, pkScan, pkGeneration, pkLoops, pkServitude, pkConfig>>
          /\ pkPhase = "input"
          /\ \/ pkPhase' = "success" /\ pkFound' = config
             \/ pkPhase' = "connecting" /\ UNCHANGED pkFound
      BY <1>2, Zenon DEF handleConnect
    <2> HIDE DEF config
    <2>3. Typed'
      BY <1>t, <2>1, <2>2 DEF Phases
    <2>4. FoundOverHttps'
      BY <1>t, <2>1, <2>2 DEF FoundOverHttps
    <2> QED
      BY <1>t, <1>l, <1>c, <2>2, <2>3, <2>4 DEF LoopsOK
  <1>3. ASSUME NEW m \in Responses, NEW c \in Responses, NEW e \in Responses, Discovered(m, c, e)
        PROVE  (Typed /\ LoopsTyped /\ FoundOverHttps /\ LoopsOK /\ CommittedOverHttps)'
    <2>1. /\ UNCHANGED <<pkNative, pkOrigin, pkScan, pkGeneration, pkLoops, pkServitude, pkConfig>>
          /\ pkPhase = "connecting"
          /\ \/ pkPhase' = "error" /\ UNCHANGED pkFound
             \/ /\ pkPhase' = "success" /\ pkFound' = discoverHomeserver(m, c, e).config
                /\ discoverHomeserver(m, c, e).error = "none"
      BY <1>3 DEF Discovered
    <2>2. \/ pkPhase' = "error" /\ UNCHANGED pkFound
          \/ pkPhase' = "success" /\ pkFound' \in Configs /\ pkFound' # NoConfig /\ pkFound'.homeserver = "https"
      BY <2>1, DiscoveredOverHttps
    <2>3. Typed'
      BY <1>t, <2>1, <2>2 DEF Phases
    <2>4. FoundOverHttps'
      BY <1>t, <2>2 DEF FoundOverHttps
    <2> QED
      BY <1>t, <1>l, <1>c, <2>1, <2>2, <2>3, <2>4 DEF LoopsOK
  <1>4. ASSUME NEW parses \in BOOLEAN, NEW config \in Configs, ~config.local, handlePasteBlob(parses, config)
        PROVE  (Typed /\ LoopsTyped /\ FoundOverHttps /\ LoopsOK /\ CommittedOverHttps)'
    <2>1. /\ UNCHANGED <<pkNative, pkOrigin, pkScan, pkGeneration, pkLoops, pkServitude, pkConfig>>
          /\ pkPhase = "input"
          /\ \/ pkPhase' = "success" /\ pkFound' = config /\ config.homeserver = "https"
             \/ pkPhase' = "error" /\ UNCHANGED pkFound
      BY <1>4 DEF handlePasteBlob
    <2>2. config # NoConfig
      BY ConfigFacts
    <2>3. Typed'
      BY <1>t, <2>1 DEF Phases
    <2>4. FoundOverHttps'
      BY <1>t, <2>1, <2>2 DEF FoundOverHttps
    <2> QED
      BY <1>t, <1>l, <1>c, <2>1, <2>3, <2>4 DEF LoopsOK
  <1>5. ASSUME NEW scheme \in {"https", "http"}, EditApiBase(scheme)
        PROVE  (Typed /\ LoopsTyped /\ FoundOverHttps /\ LoopsOK /\ CommittedOverHttps)'
    <2>1. /\ UNCHANGED <<pkNative, pkPhase, pkOrigin, pkScan, pkGeneration, pkLoops, pkServitude, pkConfig>>
          /\ pkPhase = "success" /\ pkFound' = [pkFound EXCEPT !.api = scheme]
      BY <1>5 DEF EditApiBase
    <2>2. pkFound \in Configs /\ pkFound # NoConfig
      BY <1>t, <2>1 DEF FoundOverHttps
    <2>3. /\ pkFound' \in Configs /\ pkFound'.homeserver = pkFound.homeserver
          /\ pkFound'.local = pkFound.local
      BY <2>1, <2>2 DEF Configs
    <2>4. pkFound' # NoConfig
      BY <2>3, ConfigFacts
    <2>5. FoundOverHttps'
      BY <1>t, <2>2, <2>3, <2>4 DEF FoundOverHttps
    <2> QED
      BY <1>t, <1>l, <1>c, <2>1, <2>3, <2>5 DEF LoopsOK
  <1>6. ASSUME NEW config \in Configs \cup {NoConfig}, Commit(config),
               config # NoConfig /\ ~config.local => config.homeserver = "https",
               UNCHANGED <<pkNative, pkOrigin, pkFound, pkGeneration, pkServitude>>, LoopsTyped'
        PROVE  (Typed /\ LoopsTyped /\ FoundOverHttps /\ LoopsOK /\ CommittedOverHttps)'
    <2>1. pkConfig' = config /\ pkPhase' = "gone" /\ pkScan' = FALSE
      BY <1>6 DEF Commit
    <2>2. Typed'
      BY <1>t, <1>6, <2>1 DEF Phases
    <2>3. CommittedOverHttps'
      BY <1>6, <2>1 DEF CommittedOverHttps
    <2>4. LoopsOK'
      BY <2>1 DEF LoopsOK
    <2> QED
      BY <1>6, <1>f, <2>1, <2>2, <2>3, <2>4
  <1>7. CASE handleConfirm
    <2>1. /\ Commit(pkFound) /\ LoopsTyped'
          /\ UNCHANGED <<pkNative, pkOrigin, pkFound, pkGeneration, pkServitude>>
      BY <1>t, <1>7 DEF handleConfirm
    <2>2. pkFound \in Configs \cup {NoConfig}
          /\ (pkFound # NoConfig /\ ~pkFound.local => pkFound.homeserver = "https")
      BY <1>t DEF FoundOverHttps
    <2> QED
      BY <1>6, <2>1, <2>2
  <1>8. CASE handlePairingSuccess(Config("https", "https", FALSE))
    <2> DEFINE config == Config("https", "https", FALSE)
    <2>1. /\ Commit(config) /\ LoopsTyped'
          /\ UNCHANGED <<pkNative, pkOrigin, pkFound, pkGeneration, pkServitude>>
      BY <1>t, <1>8 DEF handlePairingSuccess
    <2>2. config \in Configs \cup {NoConfig} /\ config.homeserver = "https"
      BY ConfigFacts
    <2> HIDE DEF config
    <2> QED
      BY <1>6, <2>1, <2>2
  <1>9. CASE handleEditHost \/ Leave
    <2>1. /\ UNCHANGED <<pkNative, pkOrigin, pkFound, pkGeneration, pkLoops, pkServitude, pkConfig>>
          /\ \/ pkPhase = "success" /\ pkPhase' = "input" /\ UNCHANGED pkScan
             \/ pkPhase' = "gone" /\ pkScan' = FALSE
      BY <1>9 DEF handleEditHost, Leave
    <2>2. pkPhase = "success" => pkScan = FALSE
      BY <1>t DEF LoopsOK
    <2>3. pkScan' = FALSE
      BY <2>1, <2>2
    <2>4. /\ pkPhase' \in Phases
          /\ pkPhase \in {"hosting", "failed", "gone"} => pkPhase' \in {"hosting", "failed", "gone"}
          /\ pkPhase' = "success" => pkPhase = "success"
      BY <2>1 DEF Phases
    <2>5. Typed'
      BY <1>t, <2>1, <2>3, <2>4
    <2> QED
      BY <1>l, <1>c, <1>f, <2>1, <2>3, <2>4, <2>5
  <1>10. CASE ToggleScanner
    <2>1. /\ UNCHANGED <<pkNative, pkPhase, pkOrigin, pkFound, pkGeneration, pkLoops, pkServitude, pkConfig>>
          /\ pkPhase = "menu" /\ pkScan' \in BOOLEAN
      BY <1>10 DEF ToggleScanner
    <2>2. Typed'
      BY <1>t, <2>1
    <2> QED
      BY <1>l, <1>c, <1>f, <2>1, <2>2
  <1>11. CASE handleReset
    <2>1. /\ UNCHANGED <<pkNative, pkFound, pkScan, pkLoops, pkServitude, pkConfig>>
          /\ pkGeneration' = pkGeneration + 1
          /\ pkPhase' \in {"menu", "input"} /\ pkOrigin' \in Origins
          /\ pkPhase # "menu"
      BY <1>t, <1>11 DEF handleReset, Origins
    <2>2. Typed'
      BY <1>t, <2>1 DEF Phases
    <2>3. \A l \in pkLoops : l.generation < pkGeneration'
      BY <1>t, <2>1
    <2>4. LoopsTyped'
      BY <1>t, <2>1
    <2>5. LoopsOK'
      BY <1>t, <2>1, <2>3 DEF LoopsOK, Current
    <2> QED
      BY <1>c, <1>f, <2>1, <2>2, <2>4, <2>5
  <1>12. CASE handleChooseHost
    <2> DEFINE new == [generation |-> pkGeneration', step |-> "starting"]
    <2>1. /\ UNCHANGED <<pkNative, pkOrigin, pkFound, pkScan, pkServitude, pkConfig>>
          /\ pkGeneration' = pkGeneration + 1 /\ pkPhase' = "hosting" /\ ~pkScan
          /\ pkLoops' = pkLoops \cup {new}
      BY <1>12 DEF handleChooseHost
    <2>2. new \in [generation : 1..pkGeneration', step : {"starting", "polling"}]
      BY <1>t, <2>1
    <2> HIDE DEF new
    <2>3. Typed'
      BY <1>t, <2>1 DEF Phases
    <2>4. LoopsTyped'
      BY <1>t, <2>1, <2>2
    <2>5. LoopsOK'
      BY <2>1 DEF LoopsOK
    <2> QED
      BY <1>c, <1>f, <2>1, <2>3, <2>4, <2>5
  <1>13. ASSUME NEW l \in pkLoops, HostSteps(l)
         PROVE  (Typed /\ LoopsTyped /\ FoundOverHttps /\ LoopsOK /\ CommittedOverHttps)'
    <2>1. /\ UNCHANGED <<pkNative, pkOrigin, pkFound, pkGeneration, pkServitude>>
          /\ \A k \in pkLoops' : \/ k \in pkLoops
                                 \/ k = [l EXCEPT !.step = "polling"]
      BY <1>13 DEF HostSteps, HostStarted, HostPolled, HostTimedOut
    <2>2. l \in [generation : 1..pkGeneration, step : {"starting", "polling"}]
      BY <1>t
    <2>3. [l EXCEPT !.step = "polling"] \in [generation : 1..pkGeneration, step : {"starting", "polling"}]
          /\ [l EXCEPT !.step = "polling"].generation = l.generation
      BY <2>2
    <2>4. LoopsTyped'
      BY <1>t, <2>1, <2>3
    <2>5. CASE Commit(LocalConfig)
      <3>1. LocalConfig \in Configs /\ LocalConfig.local
        BY DEF LocalConfig, Config, Configs
      <3> QED
        BY <1>6, <2>1, <2>4, <2>5, <3>1
    <2>6. CASE /\ UNCHANGED <<pkScan, pkConfig>>
               /\ \/ UNCHANGED pkPhase
                  \/ /\ Current(l)
                     /\ pkPhase' \in {"hosting", "failed", "gone"}
      <3>1. Typed'
        BY <1>t, <2>1, <2>6 DEF Phases
      <3>2. FoundOverHttps'
        BY <1>f, <2>1, <2>6
      <3>3. \A k \in pkLoops' : Current(k)' => \E j \in pkLoops : Current(j)
        BY <2>1, <2>3 DEF Current
      <3>4. LoopsOK'
        <4>1. Current(l) => ~pkScan
          BY <1>t DEF LoopsOK
        <4> QED
          BY <1>t, <2>6, <3>3, <4>1 DEF LoopsOK
      <3> QED
        BY <1>c, <2>4, <2>6, <3>1, <3>2, <3>4
    <2>7. Commit(LocalConfig) \/ /\ UNCHANGED <<pkScan, pkConfig>>
                                 /\ \/ UNCHANGED pkPhase
                                    \/ /\ Current(l)
                                       /\ pkPhase' \in {"hosting", "failed", "gone"}
      <3>1. CASE \E started \in BOOLEAN : HostStarted(l, started)
        BY <3>1 DEF HostStarted, Shows
      <3>2. CASE \E answered \in BOOLEAN : HostPolled(l, answered)
        BY <3>2 DEF HostPolled, Shows
      <3>3. CASE HostTimedOut(l)
        BY <3>3 DEF HostTimedOut, Shows
      <3> QED
        BY <1>13, <3>1, <3>2, <3>3 DEF HostSteps
    <2> QED
      BY <2>5, <2>6, <2>7
  <1>14. CASE ServitudeMoves
    <2>1. /\ UNCHANGED <<pkNative, pkPhase, pkOrigin, pkFound, pkScan, pkGeneration, pkLoops, pkConfig>>
          /\ pkServitude' \in {"stopped", "starting", "running", "stopping"}
      BY <1>t, <1>14 DEF ServitudeMoves
    <2> QED
      BY <1>t, <1>l, <1>c, <1>f, <2>1 DEF LoopsOK
  <1>15. CASE UNCHANGED pickerVars
    BY <1>t, <1>l, <1>c, <1>f, <1>15 DEF pickerVars, LoopsOK
  <1> QED
    BY <1>1, <1>2, <1>3, <1>4, <1>5, <1>7, <1>8, <1>9, <1>10, <1>11, <1>12, <1>13, <1>14, <1>15
       DEF PickerNext

\* The inductive invariant of the screen, of any number of clicks on Host and
\* Cancel and any number of loops that are still under way.
LEMMA PickerInvAlways == PickerSpec => []PickerInv
  BY PickerInvInit, PickerInvStep, PTL DEF PickerSpec

\* discoverHomeserver, the pasted configuration and the pairing: a server that is
\* not this machine is committed with an https homeserver only.
THEOREM CommitsOverHttps == PickerSpec => []CommittedOverHttps
  <1>1. PickerInv => CommittedOverHttps
    BY DEF PickerInv
  <1> QED
    BY PickerInvAlways, <1>1, PTL

\* hostingGenerationRef: after Cancel no late answer of an earlier host start
\* commits a server.
THEOREM CancelCancels == PickerSpec => CancelledHostStaysCancelled
  <1> DEFINE Offers == pkPhase \in {"menu", "input", "connecting", "error"} /\ ~pkScan
  <1>1. PickerInv /\ [PickerNext]_pickerVars => [Offers => UNCHANGED pkConfig]_pickerVars
    <2> SUFFICES ASSUME PickerInv, PickerNext, Offers
                 PROVE  UNCHANGED pkConfig
      OBVIOUS
    <2>1. ~handleConfirm /\ ~handlePairingSuccess(Config("https", "https", FALSE))
      BY Zenon DEF handleConfirm, handlePairingSuccess
    <2>2. ASSUME NEW l \in pkLoops, HostSteps(l)
          PROVE  UNCHANGED pkConfig
      <3>1. ~Current(l)
        BY DEF PickerInv, LoopsOK
      <3> QED
        BY <2>2, <3>1 DEF HostSteps, HostStarted, HostPolled, HostTimedOut
    <2>3. CASE handleConnect \/ handleEditHost \/ handleReset \/ ToggleScanner \/ Leave \/ handleChooseHost
      BY <2>3 DEF handleConnect, handleEditHost, handleReset, ToggleScanner, Leave, handleChooseHost
    <2>4. CASE \E origin \in {"join", "matrix", "bridge"} : handleChoose(origin)
      BY <2>4 DEF handleChoose
    <2>5. CASE \E m, c, e \in Responses : Discovered(m, c, e)
      BY <2>5 DEF Discovered
    <2>6. CASE \E parses \in BOOLEAN, config \in Configs : ~config.local /\ handlePasteBlob(parses, config)
      BY <2>6 DEF handlePasteBlob
    <2>7. CASE (\E scheme \in {"https", "http"} : EditApiBase(scheme)) \/ ServitudeMoves
      BY <2>7 DEF EditApiBase, ServitudeMoves
    <2> QED
      BY <2>1, <2>2, <2>3, <2>4, <2>5, <2>6, <2>7 DEF PickerNext
  <1>2. CancelledHostStaysCancelled <=> [][Offers => UNCHANGED pkConfig]_pickerVars
    BY DEF CancelledHostStaysCancelled
  <1> QED
    BY PickerInvAlways, <1>1, <1>2, PTL DEF PickerSpec

-----------------------------------------------------------------------------
(***************************************************************************)
(* The launch: the second factor and the pending invite.                   *)
(***************************************************************************)

BootSpec == BootInit /\ [][BootNext]_bootVars

Forms ==
  [mode : {"login", "register"}, invite : BOOLEAN, validating : BOOLEAN, firstBoot : BOOLEAN,
   open : BOOLEAN, call : Calls, result : Sessions \cup {NoSession},
   pending : Sessions \cup {NoSession}]

RouteTyped ==
  /\ bNative \in BOOLEAN /\ bMounted \in BOOLEAN /\ bConnected \in BOOLEAN
  /\ bLoading \in BOOLEAN /\ bLoaded \in BOOLEAN /\ bLaunches \in 0..MaxLaunches
  /\ bDocker \in {"checking", "pending", "join", "done"} /\ bConfig \in Servers \cup {"none"}

SignTyped ==
  /\ bSession \in Sessions \cup {NoSession} /\ bStored \in Sessions \cup {NoSession}
  /\ bForm \in Forms /\ bVerified \in BOOLEAN

InviteTyped ==
  bInvite \in BOOLEAN /\ bHandled \in BOOLEAN /\ bRedeeming \in BOOLEAN /\ bJoined \in BOOLEAN

SplashTyped ==
  /\ bReady \in BOOLEAN /\ bMin \in BOOLEAN /\ bMax \in BOOLEAN
  /\ bSplash \in {"showing", "fading", "done"}

\* A session that is kept for the next launch is as verified as the one in memory.
VerifiedOK ==
  /\ bSession.account = "totp" => bVerified
  /\ bStored.account = "totp" => bVerified

\* The form that is shown holds the pending invite, unless it is used or given up.
InviteInForm == Screen = "login" /\ bInvite => bForm.invite \/ bJoined

BootInv ==
  RouteTyped /\ SignTyped /\ InviteTyped /\ SplashTyped /\ VerifiedOK /\ InviteInForm

\* Sessions and forms, one by one.
LEMMA SessionFacts ==
  /\ NoSession.account = "none"
  /\ \A a \in Accounts, i, c \in Servers :
       Session(a, i, c) \in Sessions /\ Session(a, i, c).account = a
  /\ \A invite \in BOOLEAN : NewForm(invite) \in Forms /\ NewForm(invite).invite = invite
  BY DEF Session, Sessions, NoSession, Accounts, Servers, NewForm, Forms, Calls

\* The screen is a function of the phase of the launch and of the session.
LEMMA SameScreen ==
  ASSUME UNCHANGED <<bNative, bDocker, bConnected, bLoading, bSession>>
  PROVE  Screen' = Screen
  BY DEF Screen, LoggedIn

\* A launch starts with a stored session that needs no code, and without a form.
LEMMA BootInvInit == BootInit => BootInv
  <1> SUFFICES ASSUME BootInit
               PROVE  BootInv
    OBVIOUS
  <1>1. Session("plain", "origin", "origin") \in Sessions
        /\ Session("plain", "origin", "origin").account = "plain"
    BY SessionFacts DEF Accounts, Servers
  <1>2. RouteTyped
    <2>1. bConnected \in BOOLEAN
      BY Zenon DEF BootInit, computeInitialServerConnected
    <2>2. bConfig \in Servers \cup {"none"}
      BY DEF BootInit, Servers
    <2>3. bLaunches \in 0..MaxLaunches
      <3>1. bLaunches = 0
        BY DEF BootInit
      <3> QED
        BY <3>1, BootAssumption
    <2>4. /\ bNative \in BOOLEAN /\ bMounted \in BOOLEAN /\ bLoading \in BOOLEAN /\ bLoaded \in BOOLEAN
          /\ bDocker \in {"checking", "pending", "join", "done"}
      BY DEF BootInit
    <2> QED
      BY <2>1, <2>2, <2>3, <2>4 DEF RouteTyped
  <1>3. SignTyped
    BY <1>1, SessionFacts DEF BootInit, SignTyped
  <1>4. InviteTyped /\ SplashTyped
    BY DEF BootInit, InviteTyped, SplashTyped
  <1>5. VerifiedOK
    BY <1>1, SessionFacts DEF BootInit, VerifiedOK
  <1>6. InviteInForm
    <2>1. Screen = "blank"
      BY DEF BootInit, Screen
    <2> QED
      BY <2>1 DEF InviteInForm
  <1> QED
    BY <1>2, <1>3, <1>4, <1>5, <1>6 DEF BootInv

\* The steps that lead from one screen to another: a form that appears takes the
\* pending invite, and no session comes of it that was not stored.
LEMMA RouteStep ==
  ASSUME BootInv, Remount(bInvite), UNCHANGED inviteVars, UNCHANGED splashVars, RouteTyped',
         bSession' \in Sessions \cup {NoSession}, bStored' \in Sessions \cup {NoSession},
         bVerified' \in BOOLEAN, VerifiedOK'
  PROVE  BootInv'
  <1>1. bInvite \in BOOLEAN /\ bForm \in Forms /\ InviteInForm
    BY DEF BootInv, InviteTyped, SignTyped
  <1>2. NewForm(bInvite) \in Forms /\ NewForm(bInvite).invite = bInvite
    BY <1>1, SessionFacts
  <1>3. bForm' \in Forms
    BY <1>1, <1>2 DEF Remount
  <1>4. InviteInForm'
    <2> SUFFICES ASSUME Screen' = "login", bInvite'
                 PROVE  (bForm.invite \/ bJoined)'
      BY DEF InviteInForm
    <2>1. bInvite /\ bJoined' = bJoined
      BY DEF inviteVars
    <2>2. CASE Screen = "login"
      <3>1. bForm' = bForm
        BY <2>2 DEF Remount
      <3> QED
        BY <1>1, <2>1, <2>2, <3>1 DEF InviteInForm
    <2>3. CASE Screen # "login"
      <3>1. bForm' = NewForm(bInvite)
        BY <2>3 DEF Remount
      <3> QED
        BY <1>2, <2>1, <3>1
    <2> QED
      BY <2>2, <2>3
  <1>5. (InviteTyped /\ SplashTyped)'
    BY DEF BootInv, InviteTyped, SplashTyped, inviteVars, splashVars
  <1> QED
    BY <1>3, <1>4, <1>5 DEF BootInv, SignTyped

\* The steps of the form that keep the invite field.
LEMMA FormStep ==
  ASSUME BootInv, NEW form \in Forms, OnForm(form), form.invite = bForm.invite
  PROVE  BootInv'
  <1>1. bForm' = form
        /\ UNCHANGED <<routeVars, bSession, bStored, bVerified, inviteVars, splashVars>>
    BY DEF OnForm
  <1>2. Screen' = Screen
    BY <1>1, SameScreen DEF routeVars
  <1>3. (RouteTyped /\ InviteTyped /\ SplashTyped)'
    BY <1>1 DEF BootInv, RouteTyped, InviteTyped, SplashTyped, routeVars, inviteVars, splashVars
  <1>4. SignTyped'
    BY <1>1 DEF BootInv, SignTyped
  <1>5. VerifiedOK'
    BY <1>1 DEF BootInv, VerifiedOK
  <1>6. InviteInForm'
    BY <1>1, <1>2 DEF BootInv, InviteInForm, inviteVars
  <1> QED
    BY <1>3, <1>4, <1>5, <1>6 DEF BootInv

\* The steps that sign in: the account needs no code, or a code was accepted.
LEMMA SignInStep ==
  ASSUME BootInv, Screen = "login", NEW session \in Sessions \cup {NoSession}, SignIn(session),
         bVerified' \in BOOLEAN, session.account = "totp" => bVerified',
         UNCHANGED routeVars, UNCHANGED splashVars, InviteTyped',
         bInvite' => bInvite /\ UNCHANGED bJoined
  PROVE  BootInv'
  <1>1. /\ bSession' = session /\ bStored' = session
        /\ bForm' = [bForm EXCEPT !.call = "none", !.pending = NoSession]
    BY DEF SignIn
  <1>2. bForm \in Forms
    BY DEF BootInv, SignTyped
  <1>3. bForm' \in Forms /\ bForm'.invite = bForm.invite
    BY <1>1, <1>2 DEF Forms, Calls
  <1>4. SignTyped' /\ VerifiedOK'
    BY <1>1, <1>3 DEF SignTyped, VerifiedOK
  <1>5. InviteInForm'
    BY <1>3 DEF BootInv, InviteInForm
  <1>6. (RouteTyped /\ SplashTyped)'
    BY DEF BootInv, RouteTyped, SplashTyped, routeVars, splashVars
  <1> QED
    BY <1>4, <1>5, <1>6 DEF BootInv

\* The steps that touch neither the screen nor the form.
LEMMA QuietStep ==
  ASSUME BootInv, UNCHANGED <<bNative, bDocker, bConnected, bLoading>>, UNCHANGED signVars,
         RouteTyped', InviteTyped', SplashTyped', bInvite' => bInvite, bJoined => bJoined'
  PROVE  BootInv'
  <1>1. Screen' = Screen
    BY SameScreen DEF signVars
  <1>2. SignTyped' /\ VerifiedOK'
    BY DEF BootInv, SignTyped, VerifiedOK, signVars
  <1>3. InviteInForm'
    BY <1>1 DEF BootInv, InviteInForm, signVars
  <1> QED
    BY <1>2, <1>3 DEF BootInv

\* What the steps between the screens leave to RouteStep.
LEMMA RoutesKeepBootInv ==
  ASSUME BootInv,
         \/ restoreSession \/ SignOut
         \/ \E firstBoot \in BOOLEAN : InstanceInfo(firstBoot)
         \/ \E choice \in {"join", "done"} : DockerFirstBootScreen(choice)
         \/ \E server \in Servers : onConnected(server)
  PROVE  BootInv'
  <1>t. /\ RouteTyped /\ bVerified \in BOOLEAN /\ VerifiedOK
        /\ bSession \in Sessions \cup {NoSession} /\ bStored \in Sessions \cup {NoSession}
    BY DEF BootInv, SignTyped
  \* No session begins on the way.
  <1>k. ASSUME UNCHANGED <<bSession, bStored, bVerified>>, RouteTyped', Remount(bInvite),
               UNCHANGED inviteVars, UNCHANGED splashVars
        PROVE  BootInv'
    <2>1. VerifiedOK'
      BY <1>t, <1>k DEF VerifiedOK
    <2> QED
      BY <1>t, <1>k, <2>1, RouteStep
  <1>1. CASE restoreSession
    <2>1. /\ bMounted' = TRUE /\ bLoading' = FALSE /\ UNCHANGED <<bNative, bLaunches, bConfig, bConnected, bLoaded>>
          /\ bDocker' = IF bNative THEN "done" ELSE bDocker
          /\ bSession' = IF bStored = NoSession THEN NoSession
                         ELSE [bStored EXCEPT !.client = getHomeserverUrl]
          /\ UNCHANGED <<bStored, bVerified>> /\ UNCHANGED inviteVars /\ UNCHANGED splashVars
          /\ Remount(bInvite)
      BY <1>1 DEF restoreSession
    <2>2. RouteTyped'
      BY <1>t, <2>1 DEF RouteTyped
    <2>3. bSession' \in Sessions \cup {NoSession} /\ (bSession'.account = "totp" => bStored.account = "totp")
      <3>1. CASE bStored = NoSession
        BY <2>1, <3>1
      <3>2. CASE bStored \in Sessions
        <4> DEFINE restored == [bStored EXCEPT !.client = "origin"]
        <4>1. restored \in Sessions /\ restored.account = bStored.account
          BY <3>2 DEF Sessions, Session, Servers
        <4>2. bSession' \in {NoSession, restored}
          BY <2>1 DEF getHomeserverUrl
        <4>3. CASE bSession' = NoSession
          BY <4>3, SessionFacts
        <4> HIDE DEF restored
        <4>4. CASE bSession' = restored
          BY <4>1, <4>4
        <4> QED
          BY <4>2, <4>3, <4>4
      <3> QED
        BY <1>t, <3>1, <3>2
    <2>4. VerifiedOK'
      BY <1>t, <2>1, <2>3 DEF VerifiedOK
    <2> QED
      BY <1>t, <2>1, <2>2, <2>3, <2>4, RouteStep
  <1>2. CASE SignOut
    <2>1. /\ bSession' = NoSession /\ bStored' = NoSession /\ bVerified' = FALSE
          /\ UNCHANGED <<bNative, bLaunches, bMounted, bDocker, bConfig, bConnected, bLoading>>
          /\ bLoaded' = IF bNative THEN bLoaded ELSE FALSE
          /\ UNCHANGED inviteVars /\ UNCHANGED splashVars /\ Remount(bInvite)
      BY <1>2 DEF SignOut
    <2>2. RouteTyped'
      BY <1>t, <2>1 DEF RouteTyped
    <2>3. VerifiedOK'
      BY <2>1, SessionFacts DEF VerifiedOK
    <2> QED
      BY <2>1, <2>2, <2>3, RouteStep
  <1>3. CASE \E firstBoot \in BOOLEAN : InstanceInfo(firstBoot)
    <2>1. /\ bDocker' \in {"pending", "done"}
          /\ UNCHANGED <<bNative, bLaunches, bMounted, bConfig, bConnected, bLoading, bLoaded>>
          /\ UNCHANGED <<bSession, bStored, bVerified>> /\ UNCHANGED inviteVars /\ UNCHANGED splashVars
          /\ Remount(bInvite)
      BY <1>3 DEF InstanceInfo
    <2>2. RouteTyped'
      BY <1>t, <2>1 DEF RouteTyped
    <2> QED
      BY <1>k, <2>1, <2>2
  <1>4. CASE \E choice \in {"join", "done"} : DockerFirstBootScreen(choice)
    <2>1. /\ bDocker' \in {"join", "done"}
          /\ UNCHANGED <<bNative, bLaunches, bMounted, bConfig, bConnected, bLoading, bLoaded>>
          /\ UNCHANGED <<bSession, bStored, bVerified>> /\ UNCHANGED inviteVars /\ UNCHANGED splashVars
          /\ Remount(bInvite)
      BY <1>4 DEF DockerFirstBootScreen
    <2>2. RouteTyped'
      BY <1>t, <2>1 DEF RouteTyped
    <2> QED
      BY <1>k, <2>1, <2>2
  <1>5. CASE \E server \in Servers : onConnected(server)
    <2>1. /\ bConfig' \in Servers /\ bConnected' = TRUE /\ bDocker' = "done"
          /\ UNCHANGED <<bNative, bLaunches, bMounted, bLoading, bLoaded>>
          /\ UNCHANGED <<bSession, bStored, bVerified>> /\ UNCHANGED inviteVars /\ UNCHANGED splashVars
          /\ Remount(bInvite)
      BY <1>5 DEF onConnected
    <2>2. RouteTyped'
      BY <1>t, <2>1 DEF RouteTyped
    <2> QED
      BY <1>k, <2>1, <2>2
  <1> QED
    BY <1>1, <1>2, <1>3, <1>4, <1>5

\* What the steps of the form leave to FormStep.
LEMMA FormKeepsBootInv ==
  ASSUME BootInv,
         \/ \E firstBoot, open \in BOOLEAN : FormInfo(firstBoot, open)
         \/ \E mode \in {"login", "register"} : SetMode(mode)
         \/ handleSubmit \/ handleTOTPVerify \/ BackToLogin
         \/ \E call \in {"password", "register", "verify"} : Refused(call)
         \/ \E account \in Accounts : PasswordAccepted(account)
  PROVE  BootInv'
  <1>t. bForm \in Forms
    BY DEF BootInv, SignTyped
  \* A field of the form that takes a value of its range.
  <1>c. \A call \in Calls : [bForm EXCEPT !.call = call] \in Forms
                            /\ [bForm EXCEPT !.call = call].invite = bForm.invite
    BY <1>t DEF Forms
  <1>1. CASE \E firstBoot, open \in BOOLEAN : FormInfo(firstBoot, open)
    <2>1. PICK firstBoot \in BOOLEAN, open \in BOOLEAN : FormInfo(firstBoot, open)
      BY <1>1
    <2> DEFINE mode == IF firstBoot THEN "register" ELSE bForm.mode
               form == [bForm EXCEPT !.open = open, !.firstBoot = firstBoot, !.mode = mode]
    <2>2. OnForm(form)
      BY <2>1, Zenon DEF FormInfo
    <2>3. mode \in {"login", "register"}
      BY <1>t DEF Forms
    <2> HIDE DEF mode
    <2>4. form \in Forms /\ form.invite = bForm.invite
      BY <1>t, <2>3 DEF Forms
    <2> HIDE DEF form
    <2> QED
      BY <2>2, <2>4, FormStep
  <1>2. CASE \E mode \in {"login", "register"} : SetMode(mode)
    <2>1. PICK mode \in {"login", "register"} : SetMode(mode)
      BY <1>2
    <2> DEFINE form == [bForm EXCEPT !.mode = mode]
    <2>2. OnForm(form)
      BY <2>1 DEF SetMode
    <2>3. form \in Forms /\ form.invite = bForm.invite
      BY <1>t DEF Forms
    <2> HIDE DEF form
    <2> QED
      BY <2>2, <2>3, FormStep
  <1>3. ASSUME NEW call \in Calls, OnForm([bForm EXCEPT !.call = call])
        PROVE  BootInv'
    <2> DEFINE form == [bForm EXCEPT !.call = call]
    <2>1. form \in Forms /\ form.invite = bForm.invite /\ OnForm(form)
      BY <1>c, <1>3
    <2> HIDE DEF form
    <2> QED
      BY <2>1, FormStep
  <1>4. CASE handleSubmit \/ handleTOTPVerify \/ \E call \in {"password", "register", "verify"} : Refused(call)
    <2>1. \E call \in {"none", "password", "register", "verify"} : OnForm([bForm EXCEPT !.call = call])
      BY <1>4, Zenon DEF handleSubmit, handleTOTPVerify, Refused
    <2> QED
      BY <1>3, <2>1 DEF Calls
  <1>5. CASE BackToLogin
    <2> DEFINE form == [bForm EXCEPT !.pending = NoSession]
    <2>1. OnForm(form)
      BY <1>5 DEF BackToLogin
    <2>2. form \in Forms /\ form.invite = bForm.invite
      BY <1>t DEF Forms
    <2> HIDE DEF form
    <2> QED
      BY <2>1, <2>2, FormStep
  <1>6. CASE \E account \in Accounts : PasswordAccepted(account)
    <2>1. PICK account \in Accounts : PasswordAccepted(account)
      BY <1>6
    <2> DEFINE session == Session(account, getHomeserverUrl, getHomeserverUrl)
               form == [bForm EXCEPT !.call = "status", !.result = session]
    <2>2. OnForm(form)
      BY <2>1, Zenon DEF PasswordAccepted
    <2>3. session \in Sessions
      BY SessionFacts DEF getHomeserverUrl, Servers
    <2> HIDE DEF session
    <2>4. form \in Forms /\ form.invite = bForm.invite
      BY <1>t, <2>3 DEF Forms, Calls
    <2> HIDE DEF form
    <2> QED
      BY <2>2, <2>4, FormStep
  <1> QED
    BY <1>1, <1>2, <1>4, <1>5, <1>6

\* The steps that sign in, and what they leave to SignInStep.
LEMMA SignInsKeepBootInv ==
  ASSUME BootInv,
         \/ \E answer \in {"enabled", "disabled", "404", "error"} : TOTPStatus(answer)
         \/ Registered \/ TOTPVerified
  PROVE  BootInv'
  <1>t. /\ InviteTyped /\ bForm \in Forms /\ bVerified \in BOOLEAN
        /\ bForm.result \in Sessions \cup {NoSession}
    BY DEF BootInv, SignTyped, Forms
  <1>1. CASE TOTPVerified
    <2>1. /\ Screen = "login" /\ SignIn(bForm.result) /\ bVerified' = TRUE
          /\ UNCHANGED routeVars /\ UNCHANGED inviteVars /\ UNCHANGED splashVars
      BY <1>1 DEF TOTPVerified
    <2>2. InviteTyped' /\ (bInvite' => bInvite /\ UNCHANGED bJoined)
      BY <1>t, <2>1 DEF InviteTyped, inviteVars
    <2> QED
      BY <1>t, <2>1, <2>2, SignInStep
  <1>2. CASE Registered
    <2> DEFINE session == Session("plain", getApiBase, getHomeserverUrl)
    <2>1. /\ Screen = "login" /\ SignIn(session) /\ UNCHANGED bVerified /\ bInvite' = FALSE
          /\ bJoined' = (bJoined \/ bForm.invite) /\ UNCHANGED <<bHandled, bRedeeming>>
          /\ UNCHANGED routeVars /\ UNCHANGED splashVars
      BY <1>2 DEF Registered
    <2>2. InviteTyped'
      BY <1>t, <2>1 DEF InviteTyped
    <2>3. getApiBase \in Servers /\ getHomeserverUrl \in Servers
      BY DEF getApiBase, getHomeserverUrl, BootInv, RouteTyped, Servers
    <2>4. session \in Sessions /\ session.account = "plain"
      BY <2>3, SessionFacts DEF Accounts
    <2> HIDE DEF session
    <2> QED
      BY <1>t, <2>1, <2>2, <2>4, SignInStep
  <1>3. ASSUME NEW answer \in {"enabled", "disabled", "404", "error"}, TOTPStatus(answer)
        PROVE  BootInv'
    <2>1. Screen = "login" /\ answer \in StatusAnswers(bForm.result)
      BY <1>3 DEF TOTPStatus
    <2>2. CASE answer \in {"enabled", "404", "error"}
      <3> DEFINE form == IF answer = "enabled"
                         THEN [bForm EXCEPT !.call = "none", !.pending = bForm.result]
                         ELSE [bForm EXCEPT !.call = "none"]
      <3>1. OnForm(form)
        BY <1>3, <2>2, Zenon DEF TOTPStatus
      <3>2. form \in Forms /\ form.invite = bForm.invite
        BY <1>t DEF Forms, Calls
      <3> HIDE DEF form
      <3> QED
        BY <3>1, <3>2, FormStep
    <2>3. CASE answer = "disabled"
      <3>1. bForm.result.account # "totp"
        BY <2>1, <2>3 DEF StatusAnswers
      <3>2. /\ SignIn(bForm.result) /\ UNCHANGED bVerified
            /\ UNCHANGED routeVars /\ UNCHANGED inviteVars /\ UNCHANGED splashVars
        BY <1>3, <2>3 DEF TOTPStatus
      <3>3. InviteTyped' /\ (bInvite' => bInvite /\ UNCHANGED bJoined)
        BY <1>t, <3>2 DEF InviteTyped, inviteVars
      <3> QED
        BY <1>t, <2>1, <3>1, <3>2, <3>3, SignInStep
    <2> QED
      BY <2>2, <2>3
  <1> QED
    BY <1>1, <1>2, <1>3

\* The invite field emptied, by the user or because the server refused the token.
LEMMA InviteFieldKeepsBootInv ==
  ASSUME BootInv, ClearInvite \/ \E valid \in BOOLEAN : InviteValidated(valid)
  PROVE  BootInv'
  <1>t. bForm \in Forms /\ InviteTyped /\ InviteInForm
    BY DEF BootInv, SignTyped
  <1>1. PICK valid \in BOOLEAN, validating \in BOOLEAN :
          /\ bForm' = [bForm EXCEPT !.validating = validating, !.invite = @ /\ valid]
          /\ bJoined' = (bJoined \/ ~valid)
          /\ UNCHANGED <<routeVars, bSession, bStored, bVerified, bInvite, bHandled, bRedeeming, splashVars>>
    <2>1. CASE ClearInvite
      <3>1. /\ bForm' = [bForm EXCEPT !.invite = FALSE] /\ bJoined' = TRUE
            /\ UNCHANGED <<routeVars, bSession, bStored, bVerified, bInvite, bHandled, bRedeeming, splashVars>>
        BY <2>1 DEF ClearInvite
      <3>2. [bForm EXCEPT !.invite = FALSE]
              = [bForm EXCEPT !.validating = bForm.validating, !.invite = @ /\ FALSE]
        BY <1>t DEF Forms
      <3>3. bForm.validating \in BOOLEAN /\ bJoined' = (bJoined \/ ~FALSE)
        BY <1>t, <3>1 DEF Forms
      <3> QED
        BY <3>1, <3>2, <3>3, Zenon
    <2>2. CASE \E valid \in BOOLEAN : InviteValidated(valid)
      <3>1. PICK valid \in BOOLEAN : InviteValidated(valid)
        BY <2>2
      <3> QED
        BY <3>1, Zenon DEF InviteValidated
    <2> QED
      BY <2>1, <2>2, Zenon
  <1>2. /\ bForm' \in Forms
        /\ bForm.invite /\ valid => bForm'.invite
    BY <1>1, <1>t DEF Forms
  <1>3. Screen' = Screen
    BY <1>1, SameScreen DEF routeVars
  <1>4. (RouteTyped /\ SplashTyped)'
    BY <1>1 DEF BootInv, RouteTyped, SplashTyped, routeVars, splashVars
  <1>5. (SignTyped /\ VerifiedOK)'
    BY <1>1, <1>2 DEF BootInv, SignTyped, VerifiedOK
  <1>6. InviteTyped'
    BY <1>t, <1>1 DEF InviteTyped
  <1>7. InviteInForm'
    <2>1. valid \/ bJoined'
      BY <1>1
    <2>2. bJoined => bJoined'
      BY <1>1
    <2>3. bInvite' = bInvite
      BY <1>1
    <2> QED
      BY <1>t, <1>2, <1>3, <2>1, <2>2, <2>3 DEF InviteInForm
  <1> QED
    BY <1>4, <1>5, <1>6, <1>7 DEF BootInv

\* Every step of a launch keeps BootInv.
LEMMA BootInvStep == BootInv /\ [BootNext]_bootVars => BootInv'
  <1> SUFFICES ASSUME BootInv, [BootNext]_bootVars
               PROVE  BootInv'
    OBVIOUS
  <1>t. RouteTyped /\ SignTyped /\ InviteTyped /\ SplashTyped /\ VerifiedOK
    BY DEF BootInv
  <1>1. CASE Reload
    <2>1. /\ bLaunches < MaxLaunches /\ bLaunches' = bLaunches + 1
          /\ UNCHANGED <<bNative, bConfig, bStored, bVerified, bInvite, bJoined>>
      BY <1>1 DEF Reload
    <2>2. /\ bMounted' = FALSE /\ bDocker' = "checking" /\ bLoading' = TRUE /\ bLoaded' = FALSE
          /\ bConnected' = computeInitialServerConnected(bNative, bConfig)
          /\ bSession' = NoSession /\ bForm' = NewForm(FALSE)
          /\ bHandled' = FALSE /\ bRedeeming' = FALSE
          /\ bReady' = FALSE /\ bSplash' = "showing" /\ bMin' = FALSE /\ bMax' = FALSE
      BY <1>1 DEF Reload
    <2>3. bConnected' \in BOOLEAN
      BY <2>2, Zenon DEF computeInitialServerConnected
    <2>4. bLaunches' \in 0..MaxLaunches
      BY <1>t, <2>1, BootAssumption DEF RouteTyped
    <2>5. RouteTyped'
      BY <1>t, <2>1, <2>2, <2>3, <2>4 DEF RouteTyped
    <2>6. SignTyped'
      BY <1>t, <2>1, <2>2, SessionFacts DEF SignTyped
    <2>7. (InviteTyped /\ SplashTyped)'
      BY <1>t, <2>1, <2>2 DEF InviteTyped, SplashTyped
    <2>8. VerifiedOK'
      BY <1>t, <2>1, <2>2, SessionFacts DEF VerifiedOK
    <2>9. InviteInForm'
      <3>1. Screen' = "blank"
        BY <2>2 DEF Screen
      <3> QED
        BY <3>1 DEF InviteInForm
    <2> QED
      BY <2>5, <2>6, <2>7, <2>8, <2>9 DEF BootInv
  <1>2. ASSUME UNCHANGED routeVars, UNCHANGED signVars, InviteTyped', SplashTyped',
               bInvite' => bInvite, bJoined => bJoined'
        PROVE  BootInv'
    <2>1. RouteTyped' /\ UNCHANGED <<bNative, bDocker, bConnected, bLoading>>
      BY <1>t, <1>2 DEF RouteTyped, routeVars
    <2> QED
      BY <1>2, <2>1, QuietStep
  <1>3. CASE redeemInvite
    <2>1. UNCHANGED routeVars /\ UNCHANGED signVars /\ UNCHANGED splashVars
          /\ UNCHANGED <<bInvite, bJoined>> /\ bHandled' = TRUE /\ bRedeeming' = TRUE
      BY <1>3 DEF redeemInvite
    <2>2. InviteTyped' /\ SplashTyped'
      BY <1>t, <2>1 DEF InviteTyped, SplashTyped, splashVars
    <2> QED
      BY <1>2, <2>1, <2>2
  <1>4. CASE \E accepted \in BOOLEAN : Redeemed(accepted)
    <2>1. PICK accepted \in BOOLEAN : Redeemed(accepted)
      BY <1>4
    <2>2. UNCHANGED routeVars /\ UNCHANGED signVars /\ UNCHANGED splashVars
          /\ bRedeeming' = FALSE /\ UNCHANGED bHandled
          /\ bInvite' = (bInvite /\ ~accepted) /\ bJoined' = (bJoined \/ accepted)
      BY <2>1 DEF Redeemed
    <2>3. InviteTyped' /\ SplashTyped'
      BY <1>t, <2>2 DEF InviteTyped, SplashTyped, splashVars
    <2> QED
      BY <1>2, <2>2, <2>3
  <1>5. CASE SplashSteps
    <2>1. /\ UNCHANGED routeVars /\ UNCHANGED signVars /\ UNCHANGED inviteVars
          /\ bReady' \in {bReady, TRUE} /\ bMin' \in {bMin, TRUE} /\ bMax' \in {bMax, TRUE}
          /\ bSplash' \in {bSplash, "fading", "done"}
      <3>1. CASE MarkReady
        BY <3>1 DEF MarkReady
      <3>2. CASE Floor
        BY <3>2 DEF Floor
      <3>3. CASE Ceiling
        BY <3>3 DEF Ceiling
      <3>4. CASE Handoff \/ Faded
        BY <3>4, Zenon DEF Handoff, Faded
      <3> QED
        BY <1>5, <3>1, <3>2, <3>3, <3>4, Zenon DEF SplashSteps
    <2>2. InviteTyped' /\ bInvite' = bInvite /\ bJoined' = bJoined
      BY <1>t, <2>1 DEF InviteTyped, inviteVars
    <2>3. bReady' \in BOOLEAN /\ bMin' \in BOOLEAN /\ bMax' \in BOOLEAN
      BY <1>t, <2>1, Zenon DEF SplashTyped
    <2>4. bSplash' \in {"showing", "fading", "done"}
      BY <1>t, <2>1 DEF SplashTyped
    <2>5. SplashTyped'
      BY <2>3, <2>4 DEF SplashTyped
    <2> QED
      BY <1>2, <2>1, <2>2, <2>5
  <1>6. CASE ServersLoaded
    <2>1. /\ UNCHANGED <<bNative, bLaunches, bMounted, bDocker, bConfig, bConnected, bLoading>>
          /\ bLoaded' = TRUE /\ UNCHANGED signVars /\ UNCHANGED inviteVars /\ UNCHANGED splashVars
      BY <1>6 DEF ServersLoaded
    <2>2. RouteTyped' /\ InviteTyped' /\ SplashTyped' /\ bInvite' = bInvite /\ bJoined' = bJoined
      BY <1>t, <2>1 DEF RouteTyped, InviteTyped, SplashTyped, inviteVars, splashVars
    <2> QED
      BY <2>1, <2>2, QuietStep
  <1>7. CASE UNCHANGED bootVars
    <2>1. InviteTyped' /\ SplashTyped' /\ bInvite' = bInvite /\ bJoined' = bJoined
      BY <1>t, <1>7 DEF InviteTyped, SplashTyped, inviteVars, splashVars, bootVars
    <2> QED
      BY <1>2, <1>7, <2>1 DEF bootVars
  <1> QED
    BY <1>1, <1>3, <1>4, <1>5, <1>6, <1>7, RoutesKeepBootInv, FormKeepsBootInv, SignInsKeepBootInv,
       InviteFieldKeepsBootInv, Zenon DEF BootNext

\* The inductive invariant of the launch, for any number of reloads.
LEMMA BootInvAlways == BootSpec => []BootInv
  BY BootInvInit, BootInvStep, PTL DEF BootSpec

LEMMA BootInvTypes == BootInv => BootTypeOK
PROOF
<1> SUFFICES ASSUME BootInv
             PROVE  BootTypeOK
  OBVIOUS
<1>1. {bNative, bMounted, bConnected, bLoading, bVerified, bInvite, bHandled, bRedeeming, bJoined,
       bLoaded, bReady, bMin, bMax} \subseteq BOOLEAN
  BY Zenon DEF BootInv, RouteTyped, SignTyped, InviteTyped, SplashTyped
<1>2. {bSession, bStored, bForm.result, bForm.pending} \subseteq Sessions \cup {NoSession}
  BY DEF BootInv, SignTyped, Forms
<1>3. bForm.mode \in {"login", "register"} /\ bForm.call \in Calls
  BY DEF BootInv, SignTyped, Forms
<1> QED
  BY <1>1, <1>2, <1>3, Zenon DEF BootInv, RouteTyped, SplashTyped, BootTypeOK

\* The launch, its form and its splash are well formed whatever call answers late.
THEOREM BootTypes == BootSpec => []BootTypeOK
  BY BootInvAlways, BootInvTypes, PTL

\* handleSubmit, handleTOTPVerify: whichever call fails or is late, nobody is
\* signed in to an account with a second factor before a code was accepted.
THEOREM SecondFactorHolds == BootSpec => []SecondFactor
  <1>1. BootInv => SecondFactor
    BY DEF BootInv, VerifiedOK, SecondFactor
  <1> QED
    BY BootInvAlways, <1>1, PTL

\* App and LoginForm: through failures, reloads and logouts a pending invite goes
\* only once it was used or the form has said that it does not hold.
THEOREM InviteSurvives == BootSpec => InviteKept
  <1>1. BootInv /\ [BootNext]_bootVars => [bInvite /\ ~bInvite' => bJoined']_bootVars
    <2> SUFFICES ASSUME BootInv, BootNext, bInvite, ~bInvite'
                 PROVE  bJoined'
      OBVIOUS
    <2>1. CASE Registered
      <3>1. Screen = "login" /\ bJoined' = (bJoined \/ bForm.invite)
        BY <2>1 DEF Registered
      <3> QED
        BY <3>1 DEF BootInv, InviteInForm
    <2>2. CASE \E accepted \in BOOLEAN : Redeemed(accepted)
      BY <2>2 DEF Redeemed
    <2>3. ASSUME bInvite' = bInvite
          PROVE  FALSE
      BY <2>3
    <2>4. CASE \/ Reload \/ restoreSession \/ SignOut
               \/ \E firstBoot \in BOOLEAN : InstanceInfo(firstBoot)
               \/ \E choice \in {"join", "done"} : DockerFirstBootScreen(choice)
               \/ \E server \in Servers : onConnected(server)
      BY <2>3, <2>4 DEF Reload, restoreSession, SignOut, InstanceInfo, DockerFirstBootScreen,
                        onConnected, inviteVars
    <2>5. CASE \/ \E firstBoot, open \in BOOLEAN : FormInfo(firstBoot, open)
               \/ \E mode \in {"login", "register"} : SetMode(mode)
               \/ handleSubmit \/ handleTOTPVerify \/ BackToLogin
               \/ \E call \in {"password", "register", "verify"} : Refused(call)
               \/ \E account \in Accounts : PasswordAccepted(account)
      BY <2>3, <2>5, Zenon DEF FormInfo, SetMode, handleSubmit, handleTOTPVerify, BackToLogin, Refused,
                        PasswordAccepted, OnForm, inviteVars
    <2>6. CASE \/ \E answer \in {"enabled", "disabled", "404", "error"} : TOTPStatus(answer)
               \/ TOTPVerified \/ ClearInvite \/ \E valid \in BOOLEAN : InviteValidated(valid)
      BY <2>3, <2>6, Zenon DEF TOTPStatus, TOTPVerified, ClearInvite, InviteValidated, OnForm, inviteVars
    <2>7. CASE redeemInvite \/ ServersLoaded \/ SplashSteps
      BY <2>3, <2>7, Zenon DEF redeemInvite, ServersLoaded, SplashSteps, MarkReady, Floor, Ceiling,
                        Handoff, Faded, inviteVars
    <2> QED
      BY <2>1, <2>2, <2>4, <2>5, <2>6, <2>7, Zenon DEF BootNext
  <1>2. InviteKept <=> [][bInvite /\ ~bInvite' => bJoined']_bootVars
    BY DEF InviteKept
  <1> QED
    BY BootInvAlways, <1>1, <1>2, PTL DEF BootSpec

-----------------------------------------------------------------------------
(***************************************************************************)
(* Unread badges and read receipts.                                        *)
(***************************************************************************)

ReadLevels ==
  /\ kRoom \in BadgeRoom /\ {kPane, kTab, kRecount} \subseteq BOOLEAN
  /\ kTimers \subseteq Trigger /\ kAlerts \subseteq BadgeRoom
  /\ kSent \cup kFailed \subseteq [room : BadgeRoom, at : 1..MaxArrivals]
  /\ kMuted \in [BadgeRoom -> Levels]

\* No timeline is longer than what has arrived, and a receipt points into its timeline:
\* what is counted after it is bounded by what has arrived.
Timelines ==
  /\ kArrived \in 0..MaxArrivals
  /\ kTimeline \in [BadgeRoom -> Seq(Incoming)]
  /\ \A r \in BadgeRoom : Len(kTimeline[r]) <= kArrived
  /\ kReceipt \in [BadgeRoom -> 0..MaxArrivals]

Badges == kBadge \in [BadgeRoom -> [unread : 0..UnreadCap, highlight : 0..MaxArrivals]]

ReadIInv == ReadLevels /\ Timelines /\ Badges

\* computeUnreadForRoom counts no more than the timeline holds.
LEMMA BadgeBounds ==
  ASSUME NEW t \in Seq(Incoming), NEW receipt, NEW most \in Nat, Len(t) <= most, NEW cap \in Nat,
         cap = UnreadCap
  PROVE  computeUnreadForRoom(t, receipt) \in [unread : 0..cap, highlight : 0..most]
PROOF
<1> DEFINE theirs == {i \in DOMAIN t : Contributes(t[i]) /\ t[i].by # "me" /\ i > receipt}
           marked == {i \in theirs : t[i].mention}
           n == Cardinality(theirs)
<1>1. computeUnreadForRoom(t, receipt) =
        [unread |-> IF n > UnreadCap THEN UnreadCap ELSE n, highlight |-> Cardinality(marked)]
  BY DEF computeUnreadForRoom
<1>2. theirs \subseteq DOMAIN t /\ marked \subseteq theirs
  OBVIOUS
<1> HIDE DEF theirs, marked
<1>3. PICK N \in Nat : N = Len(t) /\ DOMAIN t = 1..N
  OBVIOUS
<1>4. IsFiniteSet(1..N) /\ Cardinality(1..N) = N
  BY FS_Interval
<1>5. n \in Nat
  BY <1>2, <1>3, <1>4, FS_Subset, FS_CardinalityType
<1>6. Cardinality(marked) \in Nat /\ Cardinality(marked) <= N
  BY <1>2, <1>3, <1>4, FS_Subset, FS_CardinalityType
<1>7. (IF n > UnreadCap THEN UnreadCap ELSE n) \in 0..cap
  BY <1>5
<1>8. Cardinality(marked) \in 0..most
  BY <1>3, <1>6
<1> QED BY <1>1, <1>7, <1>8

\* A set of positions has a last one.
LEMMA LastExists ==
  ASSUME NEW N \in Nat, NEW at, at \subseteq 1..N, at # {}
  PROVE  \E m \in at : \A j \in at : j <= m
PROOF
<1> DEFINE U == {b \in Nat : \A x \in at : x <= b}
<1>1. N \in U
  OBVIOUS
<1>2. \E m \in U : \A b \in U : ~(b < m)
  <2>1. U \subseteq Nat /\ U # {}
    BY <1>1
  <2>2. \E m \in U : \A b \in U : <<b, m>> \notin OpToRel(<, Nat)
    <3> HIDE DEF U
    <3> QED BY <2>1, NatLessThanWellFounded, WFMin, Zenon
  <2> QED BY <2>1, <2>2 DEF OpToRel
<1>3. PICK m \in U : \A b \in U : ~(b < m)
  BY <1>2
<1>4. m \in at
  <2> SUFFICES ASSUME m \notin at PROVE FALSE
    OBVIOUS
  <2>1. \A x \in at : x \in Nat /\ x < m
    OBVIOUS
  <2>2. m - 1 \in Nat
    <3>1. PICK x \in at : TRUE
      OBVIOUS
    <3> QED BY <2>1, <3>1
  <2>3. m - 1 \in U
    BY <2>1, <2>2
  <2> QED BY <1>3, <2>3
<1> QED BY <1>4

\* The position a receipt is moved to is one of the timeline, or none.
LEMMA LastUnread ==
  ASSUME NEW t \in Seq(Incoming)
  PROVE  findLastUnreadContributingEvent(t) \in 0..Len(t)
PROOF
<1> DEFINE at == {i \in DOMAIN t : Contributes(t[i])}
<1>1. Len(t) \in Nat /\ at \subseteq 1..Len(t)
  OBVIOUS
<1>2. CASE at = {}
  BY <1>1, <1>2 DEF findLastUnreadContributingEvent
<1>3. CASE at # {}
  <2> DEFINE m == CHOOSE i \in at : \A j \in at : j <= i
  <2>1. findLastUnreadContributingEvent(t) = m
    BY <1>3 DEF findLastUnreadContributingEvent
  <2> HIDE DEF at
  <2>2. m \in at
    <3>1. \E i \in at : \A j \in at : j <= i
      BY <1>1, <1>3, LastExists
    <3> QED BY <3>1, Zenon
  <2> HIDE DEF m
  <2> QED BY <1>1, <2>1, <2>2
<1> QED BY <1>2, <1>3

\* The hooks start with empty rooms and no badge.
LEMMA ReadIInvInit == ReadInit => ReadIInv
PROOF
<1> SUFFICES ASSUME ReadInit PROVE ReadIInv
  OBVIOUS
<1>1. ReadLevels
  BY DEF ReadInit, ReadLevels, Trigger, Levels
<1>2. Timelines
  <2>1. <<>> \in Seq(Incoming) /\ Len(<<>>) = 0
    OBVIOUS
  <2>2. MaxArrivals \in Nat
    BY ReadAssumption
  <2> QED BY <2>1, <2>2 DEF ReadInit, Timelines
<1>3. Badges
  <2>1. MaxArrivals \in Nat /\ UnreadCap \in Nat
    BY ReadAssumption
  <2>2. [unread |-> 0, highlight |-> 0] \in [unread : 0..UnreadCap, highlight : 0..MaxArrivals]
    BY <2>1
  <2> QED BY <2>2 DEF ReadInit, Badges
<1> QED BY <1>1, <1>2, <1>3 DEF ReadIInv

\* An event that arrives is counted, and the user's own is read at once.
LEMMA ArrivesStep ==
  ASSUME ReadIInv, NEW r \in BadgeRoom, NEW e \in Incoming, Arrives(r, e)
  PROVE  ReadIInv'
PROOF
<1>1. MaxArrivals \in Nat
  BY ReadAssumption
<1>2. ReadLevels'
  BY DEF ReadIInv, ReadLevels, Arrives, look, Trigger
<1>3. kArrived \in Nat /\ kArrived' = kArrived + 1 /\ kArrived' \in 0..MaxArrivals
  BY <1>1 DEF ReadIInv, Timelines, Arrives
<1>4. kTimeline \in [BadgeRoom -> Seq(Incoming)] /\ kTimeline[r] \in Seq(Incoming)
  BY DEF ReadIInv, Timelines
<1>5. PICK t \in Seq(Incoming) : t = Append(kTimeline[r], e) /\ Len(t) = Len(kTimeline[r]) + 1
  <2>1. PICK old \in Seq(Incoming) : old = kTimeline[r]
    BY <1>4
  <2>2. Append(old, e) \in Seq(Incoming) /\ Len(Append(old, e)) = Len(old) + 1
    OBVIOUS
  <2> QED BY <2>1, <2>2
<1>6. kTimeline' = [kTimeline EXCEPT ![r] = t]
  BY <1>5 DEF Arrives
<1>7. kTimeline' \in [BadgeRoom -> Seq(Incoming)]
  BY <1>4, <1>6
<1>8. \A s \in BadgeRoom : Len(kTimeline'[s]) <= kArrived'
  <2> TAKE s \in BadgeRoom
  <2>1. Len(kTimeline[s]) \in Nat /\ Len(kTimeline[s]) <= kArrived
    BY <1>4 DEF ReadIInv, Timelines
  <2>2. CASE s = r
    BY <1>3, <1>4, <1>5, <1>6, <2>1, <2>2
  <2>3. CASE s # r
    BY <1>3, <1>4, <1>6, <2>1, <2>3
  <2> QED BY <2>2, <2>3
<1>9. kReceipt' \in [BadgeRoom -> 0..MaxArrivals]
  <2>1. kReceipt \in [BadgeRoom -> 0..MaxArrivals]
    BY DEF ReadIInv, Timelines
  <2>2. kTimeline'[r] = t
    BY <1>4, <1>6
  <2>3. Len(t) \in 0..MaxArrivals
    BY <1>1, <1>3, <1>8, <2>2
  <2>4. kReceipt' = IF e.by = "me" THEN [kReceipt EXCEPT ![r] = Len(t)] ELSE kReceipt
    <3>1. kReceipt' = IF e.by = "me" THEN [kReceipt EXCEPT ![r] = Len(kTimeline'[r])] ELSE kReceipt
      BY DEF Arrives
    <3> QED BY <2>2, <3>1
  <2> QED BY <2>1, <2>3, <2>4
<1>10. Timelines'
  BY <1>3, <1>7, <1>8, <1>9 DEF Timelines
<1>11. Badges'
  BY DEF ReadIInv, Badges, Arrives
<1> QED BY <1>2, <1>10, <1>11 DEF ReadIInv

\* A trigger sends a marker for the active room; it names an event of its timeline.
LEMMA MarkStep ==
  ASSUME ReadIInv, NEW t \in Trigger, markRoomRead(t)
  PROVE  ReadIInv'
PROOF
<1>1. MaxArrivals \in Nat
  BY ReadAssumption
<1>2. PICK at : at = findLastUnreadContributingEvent(kTimeline[kRoom])
  OBVIOUS
<1>3. kRoom \in BadgeRoom
  BY DEF ReadIInv, ReadLevels
<1>4. at \in 0..MaxArrivals
  <2>1. kTimeline[kRoom] \in Seq(Incoming) /\ Len(kTimeline[kRoom]) <= kArrived
        /\ kArrived \in 0..MaxArrivals
    BY <1>3 DEF ReadIInv, Timelines
  <2>2. at \in 0..Len(kTimeline[kRoom])
    BY <1>2, <2>1, LastUnread
  <2> QED BY <1>1, <2>1, <2>2
<1>5. /\ UNCHANGED <<kTimeline, kReceipt, kBadge, kRecount, look, kFailed, kMuted, kAlerts,
                     kArrived>>
      /\ kTimers' \subseteq kTimers
      /\ kSent' = IF at = 0 THEN kSent ELSE kSent \cup {[room |-> kRoom, at |-> at]}
  BY <1>2 DEF markRoomRead
<1>6. kSent' \cup kFailed' \subseteq [room : BadgeRoom, at : 1..MaxArrivals]
  <2>1. kSent \cup kFailed \subseteq [room : BadgeRoom, at : 1..MaxArrivals]
    BY DEF ReadIInv, ReadLevels
  <2>2. CASE at = 0
    BY <1>5, <2>1, <2>2
  <2>3. CASE at # 0
    <3>1. at \in 1..MaxArrivals
      BY <1>1, <1>4, <2>3
    <3> QED BY <1>3, <1>5, <2>1, <2>3, <3>1
  <2> QED BY <2>2, <2>3
<1>7. ReadLevels'
  BY <1>5, <1>6 DEF ReadIInv, ReadLevels, look
<1>8. Timelines' /\ Badges'
  BY <1>5 DEF ReadIInv, Timelines, Badges
<1> QED BY <1>7, <1>8 DEF ReadIInv

\* The answer moves the receipt of the room the marker names, or is remembered as a
\* refusal.
LEMMA MarkerAnsweredStep ==
  ASSUME ReadIInv, NEW q \in kSent, NEW ok \in BOOLEAN, MarkerAnswered(q, ok)
  PROVE  ReadIInv'
PROOF
<1>1. kSent \cup kFailed \subseteq [room : BadgeRoom, at : 1..MaxArrivals]
  BY DEF ReadIInv, ReadLevels
<1>2. PICK r \in BadgeRoom, at \in 1..MaxArrivals : r = q.room /\ at = q.at
  BY <1>1
<1>3. /\ UNCHANGED <<kTimeline, kBadge, look, kTimers, kMuted, kAlerts, kArrived>>
      /\ kSent' \subseteq kSent /\ kFailed' \subseteq kFailed \cup {q}
      /\ kRecount' \in {TRUE, kRecount}
      /\ kReceipt' \in {kReceipt, [kReceipt EXCEPT ![r] = IF at > @ THEN at ELSE @]}
  BY <1>2 DEF MarkerAnswered
<1>4. ReadLevels'
  <2>1. kRecount' \in BOOLEAN
    BY <1>3 DEF ReadIInv, ReadLevels
  <2>2. kSent' \cup kFailed' \subseteq [room : BadgeRoom, at : 1..MaxArrivals]
    BY <1>1, <1>3
  <2> QED BY <1>3, <2>1, <2>2 DEF ReadIInv, ReadLevels, look
<1>5. kReceipt' \in [BadgeRoom -> 0..MaxArrivals]
  <2>1. kReceipt \in [BadgeRoom -> 0..MaxArrivals]
    BY DEF ReadIInv, Timelines
  <2>2. at \in 0..MaxArrivals
    <3>1. MaxArrivals \in Nat
      BY ReadAssumption
    <3> QED BY <1>2, <3>1
  <2> QED BY <1>3, <2>1, <2>2
<1>6. Timelines' /\ Badges'
  BY <1>3, <1>5 DEF ReadIInv, Timelines, Badges
<1> QED BY <1>4, <1>6 DEF ReadIInv

LEMMA ReadIInvStep == ReadIInv /\ [ReadNext]_readVars => ReadIInv'
PROOF
<1> SUFFICES ASSUME ReadIInv, [ReadNext]_readVars PROVE ReadIInv'
  OBVIOUS
<1>1. CASE Recount
  <2>1. ReadLevels' /\ Timelines'
    BY <1>1 DEF ReadIInv, ReadLevels, Timelines, Recount, look
  <2>2. \A r \in BadgeRoom : computeUnreadForRoom(kTimeline[r], kReceipt[r]) \in
                               [unread : 0..UnreadCap, highlight : 0..MaxArrivals]
    <3> TAKE r \in BadgeRoom
    <3>1. PICK t \in Seq(Incoming), most \in Nat, cap \in Nat :
             t = kTimeline[r] /\ most = MaxArrivals /\ Len(t) <= most /\ cap = UnreadCap
      <4>1. /\ kTimeline[r] \in Seq(Incoming) /\ Len(kTimeline[r]) <= kArrived
            /\ kArrived \in 0..MaxArrivals
        BY DEF ReadIInv, Timelines
      <4>2. MaxArrivals \in Nat /\ UnreadCap \in Nat
        BY ReadAssumption
      <4>3. Len(kTimeline[r]) <= MaxArrivals
        BY <4>1, <4>2
      <4> QED BY <4>1, <4>2, <4>3
    <3>2. computeUnreadForRoom(t, kReceipt[r]) \in [unread : 0..cap, highlight : 0..most]
      BY <3>1, BadgeBounds
    <3> QED BY <3>1, <3>2
  <2>3. Badges'
    BY <1>1, <2>2 DEF Recount, Badges
  <2> QED BY <2>1, <2>3 DEF ReadIInv
<1>2. CASE TogglePane \/ \E r \in BadgeRoom : SwitchRoom(r)
  <2>1. \E r \in BadgeRoom, pane \in BOOLEAN : Watch(r, pane)
    BY <1>2 DEF TogglePane, SwitchRoom, ReadIInv, ReadLevels
  <2>2. ReadLevels'
    BY <2>1 DEF Watch, ReadIInv, ReadLevels, Trigger
  <2> QED BY <2>1, <2>2 DEF Watch, ReadIInv, Timelines, Badges
<1>3. CASE HideTab
  BY <1>3 DEF HideTab, ReadIInv, ReadLevels, Timelines, Badges
<1>4. CASE ShowTab
  <2>1. kAlerts' \subseteq kAlerts /\ kTimers' \subseteq kTimers \cup {"focus"}
    BY <1>4 DEF ShowTab
  <2>2. ReadLevels'
    BY <1>4, <2>1 DEF ShowTab, ReadIInv, ReadLevels, Trigger
  <2> QED BY <1>4, <2>2 DEF ShowTab, ReadIInv, Timelines, Badges
<1>5. ASSUME NEW r \in BadgeRoom, NEW l \in Levels, SetLevel(r, l)
      PROVE  ReadIInv'
  BY <1>5 DEF SetLevel, look, ReadIInv, ReadLevels, Timelines, Badges
<1>6. ASSUME NEW r \in BadgeRoom, NEW e \in Incoming, Arrives(r, e)
      PROVE  ReadIInv'
  BY <1>6, ArrivesStep
<1>7. ASSUME NEW t \in Trigger, markRoomRead(t)
      PROVE  ReadIInv'
  BY <1>7, MarkStep
<1>8. ASSUME NEW q \in kSent, NEW ok \in BOOLEAN, MarkerAnswered(q, ok)
      PROVE  ReadIInv'
  BY <1>8, MarkerAnsweredStep
<1>9. CASE UNCHANGED readVars
  BY <1>9 DEF readVars, look, ReadIInv, ReadLevels, Timelines, Badges
<1> QED BY <1>1, <1>2, <1>3, <1>4, <1>5, <1>6, <1>7, <1>8, <1>9 DEF ReadNext

LEMMA ReadInvTypes == ReadIInv => ReadTypeOK
PROOF
  BY DEF ReadIInv, ReadLevels, Timelines, Badges, ReadTypeOK

\* The type invariant of the badges: a badge never shows more than the cap, nor more
\* mentions than have arrived, and a receipt never points beyond what was received.
THEOREM ReadTypes == ReadSpec => []ReadTypeOK
PROOF
  BY ReadIInvInit, ReadIInvStep, ReadInvTypes, PTL DEF ReadSpec

-----------------------------------------------------------------------------
(***************************************************************************)
(* The rail.                                                               *)
(***************************************************************************)

LEMMA UnplacedFacts ==
  ASSUME NEW ids \in Seq(Nat), IsInjective(ids), NEW rail \in Seq(Nat)
  PROVE  /\ Unplaced(ids, rail) \in Seq(Nat)
         /\ IsInjective(Unplaced(ids, rail))
         /\ ToSet(Unplaced(ids, rail)) = ToSet(ids) \ ToSet(rail)
PROOF
<1> DEFINE kept == {i \in DOMAIN ids : ~Contains(rail, ids[i])}
<1>1. Unplaced(ids, rail) = Picked(ids, kept)
  BY DEF Unplaced, Where
<1>2. kept \subseteq DOMAIN ids
  OBVIOUS
<1>3. \A i, j \in kept : ids[i] = ids[j] => i = j
  BY DEF IsInjective
<1>4. {ids[i] : i \in kept} = ToSet(ids) \ ToSet(rail)
  <2>1. DOMAIN rail = 1..Len(rail)
    OBVIOUS
  <2>2. \A x : Contains(rail, x) <=> x \in ToSet(rail)
    BY <2>1 DEF Contains, ToSet
  <2> QED BY <2>2 DEF ToSet
<1> HIDE DEF kept
<1>5. Picked(ids, kept) \in Seq(Nat)
  BY <1>2, PickedFacts
<1>6. IsInjective(Picked(ids, kept))
  BY <1>2, <1>3, PickedInjective
<1>7. ToSet(Picked(ids, kept)) = {ids[i] : i \in kept}
  BY <1>2, PickedSet
<1> QED BY <1>1, <1>4, <1>5, <1>6, <1>7

\* Whatever order was stored, the rail has one tile per source and one to add.
LEMMA RailFacts ==
  ASSUME NEW ids \in Seq(Nat), IsInjective(ids), Plus \notin ToSet(ids),
         NEW stored \in Seq(Nat), IsInjective(stored)
  PROVE  /\ normalizeRailOrder(ids, stored) \in Seq(Nat)
         /\ IsInjective(normalizeRailOrder(ids, stored))
         /\ ToSet(normalizeRailOrder(ids, stored)) = ToSet(ids) \cup {Plus}
PROOF
<1> DEFINE tiles == {i \in DOMAIN stored : stored[i] = Plus}
           above == IF tiles = {} THEN stored ELSE SubSeq(stored, 1, First(tiles) - 1)
           placed == Distinct(above, ToSet(ids))
           rest == Unplaced(ids, placed)
           tail == IF tiles = {} THEN <<Plus>> ELSE Picked(stored, tiles)
<1>1. above \in Seq(Nat)
  <2>1. CASE tiles = {}
    BY <2>1
  <2>2. CASE tiles # {}
    <3>1. DOMAIN stored = 1..Len(stored) /\ Len(stored) \in Nat
      OBVIOUS
    <3>2. tiles \subseteq Nat
      BY <3>1
    <3>3. First(tiles) \in tiles
      BY <2>2, <3>2, FirstIsLeast
    <3>4. First(tiles) - 1 \in Nat /\ First(tiles) - 1 <= Len(stored)
      BY <3>1, <3>3
    <3>5. 1 \in Nat \ {0}
      OBVIOUS
    <3>6. SubSeq(stored, 1, First(tiles) - 1) \in Seq(Nat)
      <4> HIDE DEF tiles
      <4> QED BY <3>4, <3>5, SubSeqFacts
    <3> QED BY <2>2, <3>6
  <2> QED BY <2>1, <2>2
<1>2. tail \in Seq(Nat) /\ IsInjective(tail) /\ ToSet(tail) = {Plus}
  <2>1. CASE tiles = {}
    <3>1. Plus \in Nat
      BY DEF Plus
    <3> QED BY <2>1, <3>1, SingleFacts
  <2>2. CASE tiles # {}
    <3>1. tiles \subseteq DOMAIN stored
      OBVIOUS
    <3>2. \A i, j \in tiles : stored[i] = stored[j] => i = j
      BY DEF IsInjective
    <3>3. {stored[i] : i \in tiles} = {Plus}
      BY <2>2
    <3>4. tail = Picked(stored, tiles)
      BY <2>2
    <3> HIDE DEF tiles, tail
    <3>5. Picked(stored, tiles) \in Seq(Nat)
      BY <3>1, PickedFacts
    <3>6. IsInjective(Picked(stored, tiles))
      BY <3>1, <3>2, PickedInjective
    <3>7. ToSet(Picked(stored, tiles)) = {Plus}
      BY <3>1, <3>3, PickedSet
    <3> QED BY <3>4, <3>5, <3>6, <3>7
  <2> QED BY <2>1, <2>2
<1>3. normalizeRailOrder(ids, stored) = (placed \o rest) \o tail
  BY DEF normalizeRailOrder
<1> HIDE DEF above, tail
<1>4. placed \in Seq(Nat) /\ IsInjective(placed) /\ ToSet(placed) \subseteq ToSet(ids)
  BY <1>1, DistinctFacts
<1> HIDE DEF placed
<1>5. /\ rest \in Seq(Nat) /\ IsInjective(rest)
      /\ ToSet(rest) = ToSet(ids) \ ToSet(placed)
  BY <1>4, UnplacedFacts
<1> HIDE DEF rest
<1> DEFINE all == placed \o rest
<1>6. all \in Seq(Nat) /\ ToSet(all) = ToSet(placed) \cup ToSet(rest)
  BY <1>4, <1>5, ConcatFacts
<1>7. IsInjective(all)
  <2>1. ToSet(placed) \cap ToSet(rest) = {}
    BY <1>5
  <2> QED BY <1>4, <1>5, <2>1, ConcatInjective
<1>8. ToSet(all) = ToSet(ids)
  BY <1>4, <1>5, <1>6
<1> HIDE DEF all
<1>9. all \o tail \in Seq(Nat) /\ ToSet(all \o tail) = ToSet(all) \cup ToSet(tail)
  BY <1>2, <1>6, ConcatFacts
<1>10. IsInjective(all \o tail)
  <2>1. ToSet(all) \cap ToSet(tail) = {}
    BY <1>2, <1>8
  <2> QED BY <1>2, <1>6, <1>7, <2>1, ConcatInjective
<1>11. normalizeRailOrder(ids, stored) = all \o tail
  BY <1>3 DEF all
<1> QED BY <1>2, <1>8, <1>9, <1>10, <1>11

-----------------------------------------------------------------------------
(***************************************************************************)
(* Lists of sources.                                                       *)
(***************************************************************************)

SourceRow ==
  [id : Nat, host : Host, platform : Platforms, invited : BOOLEAN,
   owner : User \cup {"none"}, account : User \cup {"none", "other"}]

OneRowPerHost(ss) ==
  \A i, j \in 1..Len(ss) :
     ss[i].platform = "matrix" /\ ss[j].platform = "matrix" /\ ss[i].host = ss[j].host => i = j

SourceList(ss, added) ==
  /\ ss \in Seq(SourceRow)
  /\ \A i \in 1..Len(ss) : ss[i].id \in 1..added
  /\ \A i, j \in 1..Len(ss) : ss[i].id = ss[j].id => i = j
  /\ OneRowPerHost(ss)

\* What is not a primary source belongs to user.
Scoped(ss, user) ==
  \A i \in 1..Len(ss) : ~isPrimarySource(ss[i]) => ss[i].owner \in {user, "none"}

\* Every row of t is one of ss, with another owner or account perhaps.
Stems(t, ss) ==
  \A i \in 1..Len(t) : \E k \in 1..Len(ss) :
     t[i].id = ss[k].id /\ t[i].host = ss[k].host /\ t[i].platform = ss[k].platform

LEMMA StemsList ==
  ASSUME NEW added \in Nat, NEW ss, SourceList(ss, added), NEW t \in Seq(SourceRow),
         \A i, j \in 1..Len(t) : t[i].id = t[j].id => i = j,
         Stems(t, ss)
  PROVE  /\ SourceList(t, added)
         /\ \A h : HostOf(ss, h) = {} => HostOf(t, h) = {}
PROOF
<1>1. \A i \in 1..Len(t) : t[i].id \in 1..added
  BY DEF SourceList, Stems
<1>2. OneRowPerHost(t)
  <2> SUFFICES ASSUME NEW i \in 1..Len(t), NEW j \in 1..Len(t),
                      t[i].platform = "matrix", t[j].platform = "matrix", t[i].host = t[j].host
               PROVE  i = j
    BY DEF OneRowPerHost
  <2>1. PICK k \in 1..Len(ss) :
          t[i].id = ss[k].id /\ t[i].host = ss[k].host /\ t[i].platform = ss[k].platform
    BY DEF Stems
  <2>2. PICK l \in 1..Len(ss) :
          t[j].id = ss[l].id /\ t[j].host = ss[l].host /\ t[j].platform = ss[l].platform
    BY DEF Stems
  <2>3. k = l
    BY <2>1, <2>2 DEF SourceList, OneRowPerHost
  <2> QED BY <2>1, <2>2, <2>3
<1>3. \A h : HostOf(ss, h) = {} => HostOf(t, h) = {}
  BY DEF Stems, HostOf
<1> QED BY <1>1, <1>2, <1>3 DEF SourceList

\* A filter of a list.
LEMMA FilteredList ==
  ASSUME NEW added \in Nat, NEW ss, SourceList(ss, added),
         NEW kept, kept \subseteq DOMAIN ss
  PROVE  /\ SourceList(Picked(ss, kept), added)
         /\ \A h : HostOf(ss, h) = {} => HostOf(Picked(ss, kept), h) = {}
         /\ \A i \in 1..Len(Picked(ss, kept)) : \E k \in kept : Picked(ss, kept)[i] = ss[k]
PROOF
<1> DEFINE t == Picked(ss, kept)
<1>1. ss \in Seq(SourceRow) /\ DOMAIN ss = 1..Len(ss) /\ Len(ss) \in Nat
  BY DEF SourceList
<1>2. /\ t \in Seq(SourceRow)
      /\ \A n \in 1..Len(t) : Nth(kept, n) \in kept /\ t[n] = ss[Nth(kept, n)]
      /\ \A m, n \in 1..Len(t) : m < n => Nth(kept, m) < Nth(kept, n)
  BY <1>1, PickedFacts
<1> HIDE DEF t
<1>3. Len(t) \in Nat
  BY <1>2
<1>4. \A i \in kept : i \in Nat /\ i \in 1..Len(ss)
  BY <1>1
<1>5. ASSUME NEW i \in 1..Len(t), NEW j \in 1..Len(t), t[i].id = t[j].id PROVE i = j
  <2>1. Nth(kept, i) = Nth(kept, j)
    BY <1>2, <1>4, <1>5 DEF SourceList
  <2>2. Nth(kept, i) \in Nat
    BY <1>2, <1>4
  <2>3. ~(i < j) /\ ~(j < i)
    BY <1>2, <2>1, <2>2
  <2> QED BY <1>3, <2>3
<1>6. Stems(t, ss)
  BY <1>2, <1>4 DEF Stems
<1>7. /\ SourceList(t, added)
      /\ \A h : HostOf(ss, h) = {} => HostOf(t, h) = {}
  BY <1>2, <1>5, <1>6, StemsList
<1> QED BY <1>2, <1>7 DEF t

\* The same rows, with other accounts or owners.
LEMMA RewrittenList ==
  ASSUME NEW added \in Nat, NEW ss, SourceList(ss, added), NEW t \in Seq(SourceRow),
         Len(t) = Len(ss),
         \A i \in 1..Len(t) :
           t[i].id = ss[i].id /\ t[i].host = ss[i].host /\ t[i].platform = ss[i].platform
  PROVE  /\ SourceList(t, added)
         /\ \A h : HostOf(ss, h) = {} => HostOf(t, h) = {}
PROOF
<1>1. \A i, j \in 1..Len(t) : t[i].id = t[j].id => i = j
  BY DEF SourceList
<1>2. Stems(t, ss)
  BY DEF Stems
<1> QED BY <1>1, <1>2, StemsList

\* The sources left when the store is bound to a user.
LEMMA BoundFacts ==
  ASSUME NEW added \in Nat, NEW ss, SourceList(ss, added),
         NEW bound \in User \cup {"none"}, NEW user \in User \cup {"none"}
  PROVE  /\ SourceList(Bound(ss, bound, user), added)
         /\ Scoped(Bound(ss, bound, user), user)
         /\ \A h : HostOf(ss, h) = {} => HostOf(Bound(ss, bound, user), h) = {}
PROOF
<1> DEFINE owner(s) == IF isPrimarySource(s) THEN "none" ELSE IF s.owner # "none" THEN s.owner ELSE bound
           keeps(s) == isPrimarySource(s) \/ (user # "none" /\ owner(s) = user)
           kept == {i \in DOMAIN ss : keeps(ss[i])}
           u == Picked(ss, kept)
           t == [i \in 1..Len(u) |-> [u[i] EXCEPT !.owner = owner(u[i])]]
<1>1. Bound(ss, bound, user) = t
  BY DEF Bound, Where
<1>2. kept \subseteq DOMAIN ss
  OBVIOUS
<1>3. \A k \in kept : keeps(ss[k])
  OBVIOUS
<1> HIDE DEF kept
<1>4. /\ SourceList(u, added)
      /\ \A h : HostOf(ss, h) = {} => HostOf(u, h) = {}
      /\ \A i \in 1..Len(u) : \E k \in kept : u[i] = ss[k]
  BY <1>2, FilteredList
<1> HIDE DEF u, keeps
<1>5. \A i \in 1..Len(u) : keeps(u[i])
  BY <1>3, <1>4
<1>6. \A i \in 1..Len(u) : u[i] \in SourceRow
  BY <1>4 DEF SourceList
<1>7. \A s \in SourceRow : owner(s) \in User \cup {"none"}
  BY DEF SourceRow
<1> HIDE DEF owner
<1>8. \A i \in 1..Len(u) : [u[i] EXCEPT !.owner = owner(u[i])] \in SourceRow
  BY <1>6, <1>7 DEF SourceRow
<1>9. Len(u) \in Nat
  BY <1>4 DEF SourceList
<1>10. t \in Seq(SourceRow) /\ Len(t) = Len(u)
  BY <1>8, <1>9
<1>11. \A i \in 1..Len(t) :
         /\ t[i].id = u[i].id /\ t[i].host = u[i].host /\ t[i].platform = u[i].platform
         /\ t[i].invited = u[i].invited /\ t[i].owner = owner(u[i])
  BY <1>6, <1>9 DEF SourceRow
<1> HIDE DEF t
<1>12. /\ SourceList(t, added)
       /\ \A h : HostOf(u, h) = {} => HostOf(t, h) = {}
  BY <1>4, <1>10, <1>11, RewrittenList
<1>13. Scoped(t, user)
  <2> SUFFICES ASSUME NEW i \in 1..Len(t), ~isPrimarySource(t[i]) PROVE t[i].owner = user
    BY DEF Scoped
  <2>1. ~isPrimarySource(u[i])
    BY <1>10, <1>11 DEF isPrimarySource
  <2> QED BY <1>5, <1>10, <1>11, <2>1 DEF keeps
<1> QED BY <1>1, <1>4, <1>12, <1>13

\* A new row, under the next identifier.
LEMMA AppendedList ==
  ASSUME NEW added \in Nat, NEW ss, SourceList(ss, added),
         NEW r \in SourceRow, r.id = added + 1,
         r.platform = "matrix" => \A i \in 1..Len(ss) : ~matchesExistingSource(ss[i], r.host)
  PROVE  /\ SourceList(Append(ss, r), added + 1)
         /\ Len(Append(ss, r)) = Len(ss) + 1
         /\ \A h : h # r.host /\ HostOf(ss, h) = {} => HostOf(Append(ss, r), h) = {}
         /\ \A user : Scoped(ss, user) /\ (~isPrimarySource(r) => r.owner \in {user, "none"})
              => Scoped(Append(ss, r), user)
PROOF
<1> DEFINE t == Append(ss, r)
<1>1. ss \in Seq(SourceRow) /\ Len(ss) \in Nat
  BY DEF SourceList
<1>2. /\ t \in Seq(SourceRow) /\ Len(t) = Len(ss) + 1
      /\ \A i \in 1..Len(ss) : t[i] = ss[i]
      /\ t[Len(ss) + 1] = r
  BY <1>1
<1>3. \A i \in 1..Len(t) : i \in 1..Len(ss) \/ i = Len(ss) + 1
  BY <1>1, <1>2
<1> HIDE DEF t
<1>4. \A i \in 1..Len(ss) : t[i].id \in 1..added
  BY <1>2 DEF SourceList
<1>5. \A i \in 1..Len(t) : t[i].id \in 1..added + 1
  BY <1>2, <1>3, <1>4
<1>6. ASSUME NEW i \in 1..Len(t), NEW j \in 1..Len(t), t[i].id = t[j].id PROVE i = j
  <2>1. CASE i \in 1..Len(ss) /\ j \in 1..Len(ss)
    BY <1>2, <1>6, <2>1 DEF SourceList
  <2>2. CASE i = Len(ss) + 1 /\ j = Len(ss) + 1
    BY <2>2
  <2>3. \A k \in 1..Len(ss) : t[k].id # t[Len(ss) + 1].id
    BY <1>2, <1>4
  <2> QED BY <1>3, <1>6, <2>1, <2>2, <2>3
<1>7. OneRowPerHost(t)
  <2> SUFFICES ASSUME NEW i \in 1..Len(t), NEW j \in 1..Len(t),
                      t[i].platform = "matrix", t[j].platform = "matrix", t[i].host = t[j].host
               PROVE  i = j
    BY DEF OneRowPerHost
  <2>1. CASE i \in 1..Len(ss) /\ j \in 1..Len(ss)
    BY <1>2, <2>1 DEF SourceList, OneRowPerHost
  <2>2. CASE i = Len(ss) + 1 /\ j = Len(ss) + 1
    BY <2>2
  <2>3. CASE i = Len(ss) + 1 /\ j \in 1..Len(ss)
    BY <1>2, <2>3 DEF matchesExistingSource
  <2>4. CASE i \in 1..Len(ss) /\ j = Len(ss) + 1
    BY <1>2, <2>4 DEF matchesExistingSource
  <2> QED BY <1>3, <2>1, <2>2, <2>3, <2>4
<1>8. ASSUME NEW h, h # r.host, HostOf(ss, h) = {} PROVE HostOf(t, h) = {}
  BY <1>2, <1>3, <1>8 DEF HostOf
<1>9. ASSUME NEW user, Scoped(ss, user), ~isPrimarySource(r) => r.owner \in {user, "none"}
      PROVE  Scoped(t, user)
  BY <1>2, <1>3, <1>9 DEF Scoped
<1> QED BY <1>2, <1>5, <1>6, <1>7, <1>8, <1>9 DEF SourceList, t

\* The account of one source is set.
LEMMA SignedInFacts ==
  ASSUME NEW added \in Nat, NEW ss, SourceList(ss, added), NEW id,
         NEW account \in User \cup {"none", "other"}
  PROVE  /\ SourceList(SignedIn(ss, id, account), added)
         /\ \A h : HostOf(ss, h) = {} => HostOf(SignedIn(ss, id, account), h) = {}
         /\ \A user : Scoped(ss, user) => Scoped(SignedIn(ss, id, account), user)
PROOF
<1> DEFINE t == SignedIn(ss, id, account)
<1>1. ss \in Seq(SourceRow) /\ Len(ss) \in Nat /\ \A i \in 1..Len(ss) : ss[i] \in SourceRow
  BY DEF SourceList
<1>2. \A s \in SourceRow : [s EXCEPT !.account = account] \in SourceRow
  BY DEF SourceRow
<1>3. t \in Seq(SourceRow) /\ Len(t) = Len(ss)
  BY <1>1, <1>2 DEF SignedIn
<1>4. \A s \in SourceRow :
        /\ [s EXCEPT !.account = account].id = s.id
        /\ [s EXCEPT !.account = account].host = s.host
        /\ [s EXCEPT !.account = account].platform = s.platform
        /\ [s EXCEPT !.account = account].invited = s.invited
        /\ [s EXCEPT !.account = account].owner = s.owner
  BY DEF SourceRow
<1>5. \A i \in 1..Len(ss) : t[i] = IF ss[i].id = id THEN [ss[i] EXCEPT !.account = account] ELSE ss[i]
  BY DEF SignedIn
<1>6. \A i \in 1..Len(ss) :
        /\ t[i].id = ss[i].id /\ t[i].host = ss[i].host /\ t[i].platform = ss[i].platform
        /\ t[i].invited = ss[i].invited /\ t[i].owner = ss[i].owner
  BY <1>1, <1>4, <1>5
<1> HIDE DEF t
<1>7. /\ SourceList(t, added)
      /\ \A h : HostOf(ss, h) = {} => HostOf(t, h) = {}
  BY <1>3, <1>6, RewrittenList
<1>8. \A user : Scoped(ss, user) => Scoped(t, user)
  BY <1>3, <1>6 DEF Scoped, isPrimarySource
<1> QED BY <1>7, <1>8 DEF t

\* A host's first row.
LEMMA FirstRow ==
  ASSUME NEW ss \in Seq(SourceRow), NEW P, P \subseteq 1..Len(ss), P # {}
  PROVE  First(P) \in P /\ First(P) \in 1..Len(ss) /\ First(P) \in Nat
PROOF
<1>1. P \subseteq Nat
  OBVIOUS
<1>2. First(P) \in P
  BY <1>1, FirstIsLeast
<1>3. First(P) \in 1..Len(ss) /\ First(P) \in Nat
  BY <1>1, <1>2
<1> QED BY <1>2, <1>3

LEMMA EnsuredFacts ==
  ASSUME SourcesAssumption, sAdded \in Nat, NEW ss, SourceList(ss, sAdded), NEW host \in Host
  PROVE  LET t == ensurePrimarySource(ss, host)
         IN  /\ SourceList(t, IF Len(t) > Len(ss) THEN NewId ELSE sAdded)
             /\ \A h : h # host /\ HostOf(ss, h) = {} => HostOf(t, h) = {}
             /\ \A user : Scoped(ss, user) => Scoped(t, user)
PROOF
<1> DEFINE t == ensurePrimarySource(ss, host)
<1>1. ss \in Seq(SourceRow) /\ Len(ss) \in Nat /\ \A i \in 1..Len(ss) : ss[i] \in SourceRow
  BY DEF SourceList
<1>2. CASE HostOf(ss, host) # {}
  <2> DEFINE i == First(HostOf(ss, host))
             v == [ss EXCEPT ![i].owner = "none"]
  <2>1. HostOf(ss, host) \subseteq 1..Len(ss)
    BY DEF HostOf
  <2>2. i \in 1..Len(ss)
    BY <1>1, <1>2, <2>1, FirstRow
  <2> HIDE DEF i
  <2>3. t = v
    BY <1>2 DEF ensurePrimarySource, i
  <2>4. [ss[i] EXCEPT !.owner = "none"] \in SourceRow
    BY <1>1, <2>2 DEF SourceRow
  <2>5. v \in Seq(SourceRow) /\ Len(v) = Len(ss)
    BY <1>1, <2>2, <2>4
  <2>6. \A j \in 1..Len(ss) :
          /\ v[j].id = ss[j].id /\ v[j].host = ss[j].host /\ v[j].platform = ss[j].platform
          /\ v[j].invited = ss[j].invited /\ v[j].owner \in {ss[j].owner, "none"}
    <3> TAKE j \in 1..Len(ss)
    <3>1. CASE j = i
      <4>1. v[j] = [ss[j] EXCEPT !.owner = "none"]
        BY <1>1, <2>2, <3>1
      <4> QED BY <1>1, <4>1 DEF SourceRow
    <3>2. CASE j # i
      BY <1>1, <2>2, <3>2
    <3> QED BY <3>1, <3>2
  <2> HIDE DEF v
  <2>7. /\ SourceList(v, sAdded)
        /\ \A h : HostOf(ss, h) = {} => HostOf(v, h) = {}
    <3>1. PICK added \in Nat : added = sAdded
      OBVIOUS
    <3>2. SourceList(ss, added)
      BY <3>1
    <3> QED BY <2>5, <2>6, <3>1, <3>2, RewrittenList
  <2>8. \A user : Scoped(ss, user) => Scoped(v, user)
    BY <2>5, <2>6 DEF Scoped, isPrimarySource
  <2>9. ~(Len(v) > Len(ss))
    BY <1>1, <2>5
  <2> QED BY <2>3, <2>7, <2>8, <2>9
<1>3. CASE HostOf(ss, host) = {}
  <2> DEFINE r == Source(NewId, host, "concord", FALSE, "none", "none")
  <2>1. t = Append(ss, r)
    BY <1>3 DEF ensurePrimarySource
  <2>2. /\ r \in SourceRow /\ r.id = sAdded + 1 /\ r.host = host /\ isPrimarySource(r)
        /\ r.platform = "concord"
    BY DEF Source, SourceRow, NewId, Platforms, isPrimarySource
  <2> HIDE DEF r
  <2>3. PICK added \in Nat : added = sAdded
    OBVIOUS
  <2>4. PICK q \in SourceRow : q = r
    BY <2>2
  <2>5. /\ SourceList(Append(ss, q), added + 1)
        /\ Len(Append(ss, q)) = Len(ss) + 1
        /\ \A h : h # q.host /\ HostOf(ss, h) = {} => HostOf(Append(ss, q), h) = {}
        /\ \A user : Scoped(ss, user) /\ (~isPrimarySource(q) => q.owner \in {user, "none"})
             => Scoped(Append(ss, q), user)
    BY <2>2, <2>3, <2>4, AppendedList
  <2>6. SourceList(t, NewId) /\ Len(t) = Len(ss) + 1
    BY <2>1, <2>3, <2>4, <2>5 DEF NewId
  <2>7. Len(t) > Len(ss)
    BY <1>1, <2>6
  <2> QED BY <2>1, <2>2, <2>4, <2>5, <2>6, <2>7
<1> QED BY <1>2, <1>3

\* The store follows the rail: the same rows in another order.
LEMMA OrderFacts ==
  ASSUME sAdded \in Nat, SourceList(sSources, sAdded), NEW order \in Seq(Nat)
  PROVE  /\ SourceList(setSourceOrder(order), sAdded)
         /\ \A h : HostOf(sSources, h) = {} => HostOf(setSourceOrder(order), h) = {}
         /\ \A user : Scoped(sSources, user) => Scoped(setSourceOrder(order), user)
PROOF
<1>1. PICK added \in Nat : added = sAdded
  OBVIOUS
<1>2. PICK ss \in Seq(SourceRow) : ss = sSources
  BY DEF SourceList
<1>3. SourceList(ss, added)
  BY <1>1, <1>2
<1> DEFINE known == Distinct(order, ToSet(Ids(ss)))
           a == [i \in 1..Len(known) |-> SourceOf(ss, known[i])]
           kept == {i \in DOMAIN ss : ~Contains(order, ss[i].id)}
           b == Picked(ss, kept)
           t == a \o b
<1>4. known \in Seq(Nat) /\ IsInjective(known) /\ ToSet(known) = ToSet(order) \cap ToSet(Ids(ss))
  BY DistinctFacts
<1>5. Len(known) \in Nat /\ DOMAIN known = 1..Len(known)
  BY <1>4
<1>6. setSourceOrder(order) = t
  BY <1>2, <1>5 DEF setSourceOrder, Where
<1> HIDE DEF known
<1>7. Len(ss) \in Nat /\ DOMAIN ss = 1..Len(ss)
  OBVIOUS
<1>8. ASSUME NEW i \in 1..Len(known)
      PROVE  \E k \in 1..Len(ss) : a[i] = ss[k] /\ ss[k].id = known[i]
  <2>1. known[i] \in ToSet(Ids(ss))
    BY <1>4, <1>5 DEF ToSet
  <2>2. \E k \in 1..Len(ss) : ss[k].id = known[i]
    BY <1>7, <2>1 DEF ToSet, Ids
  <2> QED BY <2>2 DEF SourceOf
<1>9. \A k \in 1..Len(ss) : ss[k] \in SourceRow
  BY <1>7
<1>10. \A i \in 1..Len(known) : a[i] \in SourceRow
  BY <1>8, <1>9
<1>11. a \in Seq(SourceRow) /\ Len(a) = Len(known)
  BY <1>5, <1>10
<1> HIDE DEF a
<1>12. kept \subseteq DOMAIN ss
  OBVIOUS
<1>13. \A k \in kept : k \in 1..Len(ss) /\ ss[k].id \notin ToSet(order)
  <2>1. DOMAIN order = 1..Len(order)
    OBVIOUS
  <2> QED BY <1>7, <2>1 DEF ToSet, Contains
<1> HIDE DEF kept
<1>14. /\ SourceList(b, added)
       /\ \A i \in 1..Len(b) : \E k \in kept : b[i] = ss[k]
  BY <1>3, <1>12, FilteredList
<1> HIDE DEF b
<1>15. t \in Seq(SourceRow) /\ Splits(t, a, b)
  <2>1. b \in Seq(SourceRow)
    BY <1>14 DEF SourceList
  <2> QED BY <1>11, <2>1, ConcatSplit
<1> HIDE DEF t
<1>16. ASSUME NEW i \in 1..Len(t) PROVE \E k \in 1..Len(ss) : t[i] = ss[k]
  <2>1. CASE i \in 1..Len(a) /\ t[i] = a[i]
    BY <1>8, <1>11, <2>1
  <2>2. CASE \E j \in 1..Len(b) : i = Len(a) + j /\ t[i] = b[j]
    BY <1>13, <1>14, <2>2
  <2> QED BY <1>15, <2>1, <2>2 DEF Splits
<1>17. ASSUME NEW i \in 1..Len(t), NEW j \in 1..Len(t), t[i].id = t[j].id PROVE i = j
  <2>1. \A k, l \in 1..Len(a) : a[k].id = a[l].id => k = l
    <3>1. \A k \in 1..Len(a) : a[k].id = known[k]
      BY <1>8, <1>11
    <3>2. \A k, l \in 1..Len(a) : known[k] = known[l] => k = l
      BY <1>4, <1>5, <1>11 DEF IsInjective
    <3> QED BY <3>1, <3>2
  <2>2. \A k, l \in 1..Len(b) : b[k].id = b[l].id => k = l
    BY <1>14 DEF SourceList
  <2>3. \A k \in 1..Len(a) : a[k].id \in ToSet(order)
    <3>1. \A k \in 1..Len(known) : known[k] \in ToSet(order)
      BY <1>4, <1>5 DEF ToSet
    <3> QED BY <1>8, <1>11, <3>1
  <2>4. \A l \in 1..Len(b) : b[l].id \notin ToSet(order)
    BY <1>13, <1>14
  <2>5. CASE i \in 1..Len(a) /\ t[i] = a[i]
    <3>1. j \in 1..Len(a) /\ t[j] = a[j]
      BY <1>15, <1>17, <2>3, <2>4, <2>5 DEF Splits
    <3> QED BY <1>17, <2>1, <2>5, <3>1
  <2>6. CASE \E k \in 1..Len(b) : i = Len(a) + k /\ t[i] = b[k]
    <3>1. PICK k \in 1..Len(b) : i = Len(a) + k /\ t[i] = b[k]
      BY <2>6
    <3>2. PICK l \in 1..Len(b) : j = Len(a) + l /\ t[j] = b[l]
      BY <1>15, <1>17, <2>3, <2>4, <3>1 DEF Splits
    <3>3. k = l
      BY <1>17, <2>2, <3>1, <3>2
    <3> QED BY <3>1, <3>2, <3>3
  <2> QED BY <1>15, <2>5, <2>6 DEF Splits
<1>18. Stems(t, ss)
  BY <1>16 DEF Stems
<1>19. /\ SourceList(t, added)
       /\ \A h : HostOf(ss, h) = {} => HostOf(t, h) = {}
  BY <1>3, <1>15, <1>17, <1>18, StemsList
<1>20. \A user : Scoped(ss, user) => Scoped(t, user)
  BY <1>16 DEF Scoped
<1> QED BY <1>1, <1>2, <1>6, <1>19, <1>20

Account == User \cup {"none", "other"}

LEMMA AddFacts ==
  ASSUME sAdded \in Nat, SourceList(sSources, sAdded), Scoped(sSources, sBound),
         sBound \in User \cup {"none"},
         NEW host \in Host, NEW platform \in Platforms, NEW invited \in BOOLEAN, NEW account \in Account,
         platform = "matrix" => Existing(host) = {}
  PROVE  LET t == addSource(host, platform, invited, account)
         IN  /\ SourceList(t, NewId)
             /\ Len(t) > Len(sSources)
             /\ \A h : h # host /\ HostOf(sSources, h) = {} => HostOf(t, h) = {}
             /\ Scoped(t, sBound)
PROOF
<1> DEFINE r == Source(NewId, host, platform, invited, sBound, account)
           t == addSource(host, platform, invited, account)
<1>1. t = Append(sSources, r)
  BY DEF addSource
<1>2. r \in SourceRow
  BY DEF Source, SourceRow, NewId, Account
<1>3. r.id = sAdded + 1 /\ r.host = host /\ r.platform = platform /\ r.owner = sBound
  BY DEF Source, NewId
<1>4. r.platform = "matrix" => \A i \in 1..Len(sSources) : ~matchesExistingSource(sSources[i], r.host)
  BY <1>3 DEF Existing
<1> HIDE DEF r, t
<1>5. PICK added \in Nat : added = sAdded
  OBVIOUS
<1>6. PICK q \in SourceRow : q = r
  BY <1>2
<1>7. PICK ss \in Seq(SourceRow) : ss = sSources
  BY DEF SourceList
<1>8. SourceList(ss, added) /\ q.id = added + 1
  BY <1>3, <1>5, <1>6, <1>7
<1>9. q.platform = "matrix" => \A i \in 1..Len(ss) : ~matchesExistingSource(ss[i], q.host)
  BY <1>4, <1>6, <1>7
<1>10. /\ SourceList(Append(ss, q), added + 1)
       /\ Len(Append(ss, q)) = Len(ss) + 1
       /\ \A h : h # q.host /\ HostOf(ss, h) = {} => HostOf(Append(ss, q), h) = {}
       /\ \A user : Scoped(ss, user) /\ (~isPrimarySource(q) => q.owner \in {user, "none"})
            => Scoped(Append(ss, q), user)
  BY <1>8, <1>9, AppendedList
<1>11. t = Append(ss, q) /\ NewId = added + 1
  BY <1>1, <1>5, <1>6, <1>7 DEF NewId
<1>12. Len(ss) + 1 > Len(ss)
  OBVIOUS
<1>13. q.owner = sBound
  BY <1>3, <1>6
<1>14. Scoped(ss, sBound)
  BY <1>7
<1>15. Scoped(t, sBound)
  BY <1>10, <1>11, <1>13, <1>14
<1>16. \A h : h # host /\ HostOf(sSources, h) = {} => HostOf(t, h) = {}
  BY <1>3, <1>6, <1>7, <1>10, <1>11
<1>17. SourceList(t, NewId) /\ Len(t) > Len(sSources)
  BY <1>7, <1>10, <1>11, <1>12
<1> QED BY <1>15, <1>16, <1>17 DEF t

LEMMA UpsertFacts ==
  ASSUME sAdded \in Nat, SourceList(sSources, sAdded), Scoped(sSources, sBound),
         sBound \in User \cup {"none"}, NEW host \in Host, NEW account \in Account
  PROVE  LET t == upsertMatrixSourceRecord(host, account)
         IN  /\ SourceList(t, IF Len(t) > Len(sSources) THEN NewId ELSE sAdded)
             /\ \A h : h # host /\ HostOf(sSources, h) = {} => HostOf(t, h) = {}
             /\ Scoped(t, sBound)
PROOF
<1> DEFINE t == upsertMatrixSourceRecord(host, account)
<1>1. CASE Existing(host) = {}
  <2> DEFINE u == addSource(host, "matrix", FALSE, account)
  <2>1. t = u
    BY <1>1 DEF upsertMatrixSourceRecord
  <2>2. "matrix" \in Platforms /\ FALSE \in BOOLEAN
    BY DEF Platforms
  <2>3. /\ SourceList(u, NewId)
        /\ Len(u) > Len(sSources)
        /\ \A h : h # host /\ HostOf(sSources, h) = {} => HostOf(u, h) = {}
        /\ Scoped(u, sBound)
    BY <1>1, <2>2, AddFacts
  <2> HIDE DEF t, u
  <2>4. SourceList(t, IF Len(t) > Len(sSources) THEN NewId ELSE sAdded)
    BY <2>1, <2>3
  <2> QED BY <2>1, <2>3, <2>4 DEF t
<1>2. CASE Existing(host) # {}
  <2>1. PICK ss \in Seq(SourceRow) : ss = sSources
    BY DEF SourceList
  <2>2. PICK added \in Nat : added = sAdded
    OBVIOUS
  <2>3. PICK P \in SUBSET (1..Len(ss)) : P = Existing(host)
    BY <2>1 DEF Existing
  <2> DEFINE i == First(P)
             v == [ss EXCEPT ![i].account = account]
  <2>4. i \in 1..Len(ss)
    BY <1>2, <2>3, FirstRow
  <2>5. t = v
    BY <1>2, <2>1, <2>3 DEF upsertMatrixSourceRecord
  <2> HIDE DEF i
  <2>6. Len(ss) \in Nat /\ \A j \in 1..Len(ss) : ss[j] \in SourceRow
    OBVIOUS
  <2>7. [ss[i] EXCEPT !.account = account] \in SourceRow
    BY <2>4, <2>6 DEF SourceRow, Account
  <2>8. v \in Seq(SourceRow) /\ Len(v) = Len(ss)
    BY <2>4, <2>6, <2>7
  <2>9. \A j \in 1..Len(ss) :
          /\ v[j].id = ss[j].id /\ v[j].host = ss[j].host /\ v[j].platform = ss[j].platform
          /\ v[j].invited = ss[j].invited /\ v[j].owner = ss[j].owner
    <3> TAKE j \in 1..Len(ss)
    <3>1. CASE j = i
      <4>1. v[j] = [ss[j] EXCEPT !.account = account]
        BY <2>4, <2>6, <3>1
      <4> QED BY <2>6, <4>1 DEF SourceRow
    <3>2. CASE j # i
      BY <2>4, <2>6, <3>2
    <3> QED BY <3>1, <3>2
  <2> HIDE DEF v
  <2>10. SourceList(ss, added)
    BY <2>1, <2>2
  <2>11. /\ SourceList(v, added)
         /\ \A h : HostOf(ss, h) = {} => HostOf(v, h) = {}
    BY <2>8, <2>9, <2>10, RewrittenList
  <2>12. Scoped(v, sBound)
    <3>1. Scoped(ss, sBound)
      BY <2>1
    <3> QED BY <2>8, <2>9, <3>1 DEF Scoped, isPrimarySource
  <2>13. ~(Len(v) > Len(sSources))
    BY <2>1, <2>6, <2>8
  <2> HIDE DEF t
  <2>14. SourceList(t, IF Len(t) > Len(sSources) THEN NewId ELSE sAdded)
    BY <2>2, <2>5, <2>11, <2>13
  <2> QED BY <2>1, <2>5, <2>11, <2>12, <2>14 DEF t
<1> QED BY <1>1, <1>2

\* Whatever list is put, the rail comes to show it.
LEMMA PutFacts ==
  ASSUME NEW added \in Nat, NEW ss, SourceList(ss, added),
         NEW rail \in Seq(Nat), IsInjective(rail), PutSources(ss, rail)
  PROVE  sSources' = ss /\ sRail' \in Seq(Nat) /\ RailShowsEverySource'
PROOF
<1> DEFINE ids == Ids(ss)
<1>1. Len(ss) \in Nat /\ \A i \in 1..Len(ss) : ss[i].id \in 1..added
  BY DEF SourceList
<1>2. ids \in Seq(Nat) /\ DOMAIN ids = 1..Len(ss) /\ \A i \in 1..Len(ss) : ids[i] = ss[i].id
  BY <1>1 DEF Ids
<1> HIDE DEF ids
<1>3. IsInjective(ids)
  BY <1>2 DEF IsInjective, SourceList
<1>4. Plus \notin ToSet(ids)
  BY <1>1, <1>2 DEF ToSet, Plus
<1> DEFINE r == normalizeRailOrder(ids, rail)
<1>5. r \in Seq(Nat) /\ IsInjective(r) /\ ToSet(r) = ToSet(ids) \cup {Plus}
  BY <1>2, <1>3, <1>4, RailFacts
<1>6. sSources' = ss /\ sRail' = r
  BY DEF PutSources, ids
<1>7. Ids(sSources)' = ids
  BY <1>6 DEF Ids, ids
<1> HIDE DEF r
<1> QED BY <1>5, <1>6, <1>7 DEF RailShowsEverySource

-----------------------------------------------------------------------------
(***************************************************************************)
(* The inductive invariant of Sources.                                     *)
(***************************************************************************)

Screens == {"closed", "address", "concord", "matrix-auth", "reticulum", "validating", "error"}

SessionOK ==
  /\ sNative \in BOOLEAN
  /\ sUser \in User \cup {"none"} /\ sBound \in User \cup {"none"} /\ sConfig \in Host \cup {"none"}
  /\ sAdded \in 0..MaxSources /\ sBrowsing \in 0..sAdded /\ sPending \in 0..sAdded

\* What the dialog adds has an address.
ModalOK ==
  /\ sModal \in [screen : Screens, host : Host \cup {"none"},
                 call : {"none", "with token", "without token", "sign in", "sso"}]
  /\ sModal.screen \in {"concord", "matrix-auth", "reticulum"} => sModal.host \in Host
  /\ sModal.call \in {"with token", "without token", "sign in"} => sModal.host \in Host

ListOK == SourceList(sSources, sAdded) /\ Scoped(sSources, sBound)

RailOK == sRail \in Seq(Nat) /\ RailShowsEverySource

\* A host that was disconnected for good is named neither by a row, nor by the
\* configuration from which a launch fills an empty store, nor by the request whose
\* answer ensures the origin once more.
NamingOK == sNaming => Origin \notin sGone
GoneOK == sGone \subseteq Host /\ sConfig \notin sGone /\ NamingOK /\ DisconnectedStaysGone

SourcesIInv == SessionOK /\ ModalOK /\ ListOK /\ RailOK /\ GoneOK

LEMMA SourcesInitial ==
  ASSUME SourcesAssumption, SourcesInit
  PROVE  SourcesIInv
PROOF
<1>1. sSources \in Seq(SourceRow) /\ Len(sSources) \in {0, 1} /\ sAdded = Len(sSources)
      /\ \A i \in 1..Len(sSources) : sSources[i] = Source(1, Origin, "concord", FALSE, "none", "none")
  <2>1. Source(1, Origin, "concord", FALSE, "none", "none") \in SourceRow
    BY DEF Source, SourceRow, SourcesAssumption, Platforms
  <2>2. CASE sNative
    BY <2>2 DEF SourcesInit
  <2>3. CASE ~sNative
    <3>1. PICK s \in SourceRow : s = Source(1, Origin, "concord", FALSE, "none", "none")
      BY <2>1
    <3>2. sSources = <<s>> /\ sAdded = Len(sSources)
      BY <2>3, <3>1 DEF SourcesInit
    <3>3. <<s>> \in Seq(SourceRow) /\ Len(<<s>>) = 1 /\ \A i \in 1..1 : <<s>>[i] = s
      OBVIOUS
    <3>4. /\ sSources \in Seq(SourceRow) /\ Len(sSources) = 1
          /\ \A i \in 1..Len(sSources) : sSources[i] = s
      BY <3>2, <3>3
    <3> QED BY <3>1, <3>2, <3>4
  <2> QED BY <2>2, <2>3
<1>2. SourceList(sSources, sAdded)
  <2>1. \A i \in 1..Len(sSources) : i = 1 /\ sSources[i].id \in 1..sAdded
    BY <1>1 DEF Source
  <2>2. \A i, j \in 1..Len(sSources) : i = j
    BY <2>1
  <2> QED BY <1>1, <2>1, <2>2 DEF SourceList, OneRowPerHost
<1>3. Scoped(sSources, sBound)
  BY <1>1 DEF Scoped, Source, isPrimarySource
<1>4. SessionOK
  BY <1>1 DEF SessionOK, SourcesInit, SourcesAssumption
<1>5. ModalOK
  BY DEF ModalOK, SourcesInit, Closed, Screens
<1>6. GoneOK
  BY DEF GoneOK, NamingOK, SourcesInit, DisconnectedStaysGone
<1>7. RailOK
  <2>1. PICK ids : ids = Ids(sSources)
    OBVIOUS
  <2>2. ids \in Seq(Nat) /\ IsInjective(ids) /\ Plus \notin ToSet(ids)
    <3>1. /\ Len(sSources) \in Nat
          /\ \A i \in 1..Len(sSources) : sSources[i].id \in 1..sAdded
          /\ \A i, j \in 1..Len(sSources) : sSources[i].id = sSources[j].id => i = j
      BY <1>2 DEF SourceList
    <3>2. /\ DOMAIN ids = 1..Len(sSources)
          /\ \A i \in 1..Len(sSources) : ids[i] = sSources[i].id /\ ids[i] \in 1..sAdded
      BY <2>1, <3>1 DEF Ids
    <3>3. sAdded \in Nat
      BY <1>4 DEF SessionOK
    <3>4. ids \in Seq(Nat)
      <4>1. \A i \in 1..Len(sSources) : sSources[i].id \in Nat
        BY <3>1, <3>3
      <4> QED BY <2>1, <3>1, <4>1 DEF Ids
    <3>5. IsInjective(ids)
      BY <3>1, <3>2 DEF IsInjective
    <3>6. \A i \in 1..Len(sSources) : ids[i] # 0
      BY <3>2, <3>3
    <3> QED BY <3>2, <3>4, <3>5, <3>6 DEF ToSet, Plus
  <2>3. <<>> \in Seq(Nat) /\ IsInjective(<<>>)
    BY DEF IsInjective
  <2>4. /\ normalizeRailOrder(ids, <<>>) \in Seq(Nat)
        /\ IsInjective(normalizeRailOrder(ids, <<>>))
        /\ ToSet(normalizeRailOrder(ids, <<>>)) = ToSet(ids) \cup {Plus}
    BY <2>2, <2>3, RailFacts
  <2>5. sRail = normalizeRailOrder(ids, <<>>)
    BY <2>1 DEF SourcesInit
  <2> QED BY <2>1, <2>4, <2>5 DEF RailOK, RailShowsEverySource
<1> QED BY <1>2, <1>3, <1>4, <1>5, <1>6, <1>7 DEF SourcesIInv, ListOK

\* What has to be shown of a step that puts a list t.
LEMMA PutStep ==
  ASSUME sAdded' \in Nat, NEW t, NEW rail \in Seq(Nat), IsInjective(rail), PutSources(t, rail),
         SourceList(t, sAdded'), Scoped(t, sBound'),
         sGone' \subseteq Host, sConfig' \notin sGone', NamingOK',
         \A h \in sGone' : HostOf(t, h) = {}
  PROVE  ListOK' /\ RailOK' /\ GoneOK'
PROOF
<1>1. PICK added \in Nat : added = sAdded'
  OBVIOUS
<1>2. SourceList(t, added)
  BY <1>1
<1>3. sSources' = t /\ sRail' \in Seq(Nat) /\ RailShowsEverySource'
  BY <1>2, PutFacts
<1>4. ListOK'
  BY <1>3 DEF ListOK
<1>5. RailOK'
  BY <1>3 DEF RailOK
<1>6. GoneOK'
  BY <1>3 DEF GoneOK, DisconnectedStaysGone
<1> QED BY <1>4, <1>5, <1>6

\* What the steps build on.
LEMMA ListContext ==
  ASSUME SourcesIInv
  PROVE  /\ sAdded \in Nat /\ sAdded <= MaxSources
         /\ SourceList(sSources, sAdded) /\ Scoped(sSources, sBound)
         /\ sRail \in Seq(Nat) /\ IsInjective(sRail)
         /\ sUser \in User \cup {"none"} /\ sBound \in User \cup {"none"}
         /\ sGone \subseteq Host /\ sConfig \notin sGone
         /\ NamingOK /\ \A h \in sGone : HostOf(sSources, h) = {}
PROOF
  BY DEF SourcesIInv, SessionOK, ListOK, RailOK, RailShowsEverySource, GoneOK, DisconnectedStaysGone

LEMMA UntouchedStep ==
  ASSUME SourcesIInv, UNCHANGED <<sBound, sSources, sAdded, sConfig, sRail, sNaming, sGone>>
  PROVE  ListOK' /\ RailOK' /\ GoneOK'
PROOF
<1>1. ListOK'
  BY DEF SourcesIInv, ListOK
<1>2. RailOK'
  BY DEF SourcesIInv, RailOK, RailShowsEverySource
<1>3. GoneOK'
  BY DEF SourcesIInv, GoneOK, NamingOK, DisconnectedStaysGone
<1> QED BY <1>1, <1>2, <1>3

LEMMA ModalStep ==
  ASSUME SourcesIInv,
         \/ OpenModal \/ CloseModal \/ Back \/ ConnectFails
         \/ \E host \in Host, kind \in Platforms \cup {"invalid"} : handleDetectAddress(host, kind)
         \/ \E call \in {"with token", "without token", "sign in"} : ConnectStarts(call)
  PROVE  SourcesIInv'
PROOF
<1> DEFINE Modals == [screen : Screens, host : Host \cup {"none"},
                      call : {"none", "with token", "without token", "sign in", "sso"}]
<1>1. ModalOK /\ sModal \in Modals
  BY DEF SourcesIInv, ModalOK
<1>2. \E modal : OnModal(modal)
  BY DEF OpenModal, CloseModal, Back, ConnectFails, handleDetectAddress, ConnectStarts
<1>3. UNCHANGED <<sNative, sStarts, sUser, sBound, sSources, sAdded, sConfig, sRail, sBrowsing,
                  sPending, sAway, sNaming, sGone>>
  BY <1>2 DEF OnModal
<1>4. ListOK' /\ RailOK' /\ GoneOK'
  BY <1>3, UntouchedStep
<1>5. SessionOK'
  BY <1>3 DEF SourcesIInv, SessionOK
<1>6. ModalOK'
  <2>1. CASE OpenModal
    BY <2>1 DEF OpenModal, OnModal, Closed, ModalOK, Screens
  <2>2. CASE CloseModal
    BY <2>2 DEF CloseModal, OnModal, Closed, ModalOK, Screens
  <2>3. CASE Back
    BY <2>3 DEF Back, OnModal, Closed, ModalOK, Screens
  <2>4. CASE ConnectFails
    BY <1>1, <2>4 DEF ConnectFails, OnModal, ModalOK, Screens
  <2>5. ASSUME NEW host \in Host, NEW kind \in Platforms \cup {"invalid"},
               handleDetectAddress(host, kind)
        PROVE  ModalOK'
    <3>1. CASE kind = "matrix"
      BY <2>5, <3>1 DEF handleDetectAddress, OnModal, ModalOK, Screens
    <3>2. CASE kind = "invalid"
      BY <2>5, <3>2 DEF handleDetectAddress, OnModal, ModalOK, Screens
    <3>3. CASE kind \in {"concord", "reticulum"}
      BY <2>5, <3>3 DEF handleDetectAddress, OnModal, ModalOK, Screens
    <3> QED BY <3>1, <3>2, <3>3 DEF Platforms
  <2>6. ASSUME NEW call \in {"with token", "without token", "sign in"}, ConnectStarts(call)
        PROVE  ModalOK'
    <3>1. sModal.screen \in {"matrix-auth", "concord"} /\ sModal' = [sModal EXCEPT !.screen = "validating", !.call = call]
      BY <2>6 DEF ConnectStarts, OnModal
    <3>2. sModal.host \in Host
      BY <1>1, <3>1 DEF ModalOK
    <3>3. sModal' \in Modals /\ sModal'.screen = "validating" /\ sModal'.host = sModal.host
      BY <1>1, <3>1 DEF Screens
    <3> QED BY <3>2, <3>3 DEF ModalOK
  <2> QED BY <2>1, <2>2, <2>3, <2>4, <2>5, <2>6
<1> QED BY <1>4, <1>5, <1>6 DEF SourcesIInv

LEMMA DragStep ==
  ASSUME SourcesIInv, NEW from \in 1..Len(sRail), NEW to \in 1..Len(sRail), handleDragEnd(from, to)
  PROVE  SourcesIInv'
PROOF
<1>1. /\ sAdded \in Nat /\ SourceList(sSources, sAdded) /\ Scoped(sSources, sBound)
      /\ sRail \in Seq(Nat) /\ IsInjective(sRail)
      /\ sGone \subseteq Host /\ sConfig \notin sGone
      /\ \A h \in sGone : HostOf(sSources, h) = {}
  BY ListContext
<1>2. PICK rail \in Seq(Nat) : rail = sRail
  BY <1>1
<1>3. PICK f \in 1..Len(rail), g \in 1..Len(rail) : f = from /\ g = to
  BY <1>2
<1> DEFINE next == InsertAt(RemoveAt(rail, f), g, rail[f])
           kept == {i \in DOMAIN next : next[i] # Plus}
           order == Picked(next, kept)
<1>4. next \in Seq(Nat) /\ IsInjective(next)
  BY <1>1, <1>2, MoveFacts
<1>5. PutSources(setSourceOrder(order), next)
  BY <1>2, <1>3 DEF handleDragEnd, Where
<1> HIDE DEF next
<1>6. order \in Seq(Nat)
  <2>1. kept \subseteq DOMAIN next
    OBVIOUS
  <2> HIDE DEF kept
  <2> QED BY <1>4, <2>1, PickedFacts
<1> HIDE DEF order
<1>7. PICK t : t = setSourceOrder(order)
  OBVIOUS
<1>8. /\ SourceList(t, sAdded) /\ Scoped(t, sBound)
      /\ \A h \in sGone : HostOf(t, h) = {}
  BY <1>1, <1>6, <1>7, OrderFacts
<1>9. UNCHANGED <<sNative, sUser, sBound, sAdded, sConfig, sModal, sBrowsing, sPending, sNaming,
                  sGone>>
  BY DEF handleDragEnd
<1>10. ListOK' /\ RailOK' /\ GoneOK'
  <2>1. PutSources(t, next)
    BY <1>5, <1>7
  <2>2. NamingOK'
    BY <1>9, ListContext DEF NamingOK
  <2> QED BY <1>1, <1>4, <1>8, <1>9, <2>1, <2>2, PutStep
<1>11. SessionOK' /\ ModalOK'
  BY <1>9 DEF SourcesIInv, SessionOK, ModalOK
<1> QED BY <1>10, <1>11 DEF SourcesIInv

LEMMA SessionStep ==
  ASSUME SourcesIInv, logout \/ \E user \in User : login(user)
  PROVE  SourcesIInv'
PROOF
<1>1. /\ sAdded \in Nat /\ SourceList(sSources, sAdded)
      /\ sRail \in Seq(Nat) /\ IsInjective(sRail)
      /\ sBound \in User \cup {"none"}
      /\ sGone \subseteq Host /\ sConfig \notin sGone
      /\ \A h \in sGone : HostOf(sSources, h) = {}
  BY ListContext
<1>2. PICK user \in User \cup {"none"} :
        /\ sUser' = user /\ sBound' = user
        /\ PutSources(Bound(sSources, sBound, user), sRail)
        /\ UNCHANGED <<sNative, sStarts, sAdded, sConfig, sModal, sBrowsing, sPending, sAway,
                        sNaming, sGone>>
  BY DEF login, logout
<1>3. PICK ss : ss = sSources
  OBVIOUS
<1>4. PICK b \in User \cup {"none"} : b = sBound
  BY <1>1
<1>5. PICK added \in Nat : added = sAdded
  BY <1>1
<1>6. PICK rail \in Seq(Nat) : rail = sRail
  BY <1>1
<1>7. SourceList(ss, added)
  BY <1>1, <1>3, <1>5
<1> DEFINE t == Bound(ss, b, user)
<1>8. /\ SourceList(t, added) /\ Scoped(t, user)
      /\ \A h : HostOf(ss, h) = {} => HostOf(t, h) = {}
  BY <1>7, BoundFacts
<1> HIDE DEF t
<1>9. PutSources(t, rail)
  BY <1>2, <1>3, <1>4, <1>6 DEF t
<1>10. ListOK' /\ RailOK' /\ GoneOK'
  <2>1. SourceList(t, sAdded') /\ sAdded' \in Nat /\ Scoped(t, sBound') /\ IsInjective(rail)
    BY <1>1, <1>2, <1>5, <1>6, <1>8
  <2>2. sGone' \subseteq Host /\ sConfig' \notin sGone' /\ \A h \in sGone' : HostOf(t, h) = {}
    BY <1>1, <1>2, <1>3, <1>8
  <2>3. NamingOK'
    BY <1>2, ListContext DEF NamingOK
  <2> QED BY <1>9, <2>1, <2>2, <2>3, PutStep
<1>11. SessionOK' /\ ModalOK'
  BY <1>2 DEF SourcesIInv, SessionOK, ModalOK
<1> QED BY <1>10, <1>11 DEF SourcesIInv

LEMMA DisconnectStep ==
  ASSUME SourcesAssumption, SourcesIInv, NEW id \in Nat, disconnectSource(id)
  PROVE  SourcesIInv'
PROOF
<1> DEFINE gone == SourceOf(sSources, id)
           out == sUser # "none" /\ gone.account = sUser
<1>1. /\ sAdded \in Nat /\ SourceList(sSources, sAdded) /\ Scoped(sSources, sBound)
      /\ sRail \in Seq(Nat) /\ IsInjective(sRail)
      /\ sBound \in User \cup {"none"}
      /\ sGone \subseteq Host /\ sConfig \notin sGone
      /\ \A h \in sGone : HostOf(sSources, h) = {}
  BY ListContext
<1>2. PICK ss : ss = sSources
  OBVIOUS
<1>3. PICK b \in User \cup {"none"} : b = sBound
  BY <1>1
<1>4. PICK added \in Nat : added = sAdded
  BY <1>1
<1>5. PICK rail \in Seq(Nat) : rail = sRail
  BY <1>1
<1>6. SourceList(ss, added)
  BY <1>1, <1>2, <1>4
<1>7. gone.host \in Host
  <2>1. \E k \in 1..Len(ss) : gone = ss[k]
    <3>1. \E k \in 1..Len(ss) : ss[k].id = id
      BY <1>2 DEF disconnectSource, Has
    <3> DEFINE c == CHOOSE k \in 1..Len(ss) : ss[k].id = id
    <3>2. c \in 1..Len(ss)
      BY <3>1
    <3>3. gone = ss[c]
      BY <1>2 DEF SourceOf
    <3> HIDE DEF gone, c
    <3> QED BY <3>2, <3>3
  <2>2. \A k \in 1..Len(ss) : ss[k].host \in Host
    <3>1. \A k \in 1..Len(ss) : ss[k] \in SourceRow
      BY <1>6 DEF SourceList
    <3> QED BY <3>1 DEF SourceRow
  <2> QED BY <2>1, <2>2
<1>8. PICK base :
        /\ base = IF out THEN Bound(ss, b, "none") ELSE ss
        /\ SourceList(base, added) /\ Scoped(base, IF out THEN "none" ELSE b)
        /\ \A h : HostOf(ss, h) = {} => HostOf(base, h) = {}
  <2>1. "none" \in User \cup {"none"}
    OBVIOUS
  <2>2. CASE out
    BY <1>6, <2>1, <2>2, BoundFacts
  <2>3. CASE ~out
    <3>1. Scoped(ss, b)
      BY <1>1, <1>2, <1>3
    <3> QED BY <1>6, <2>3, <3>1
  <2> QED BY <2>2, <2>3
<1> DEFINE kept == {i \in DOMAIN base : base[i].id # id}
           left == Picked(base, kept)
<1> HIDE DEF gone
<1>9. /\ PutSources(left, rail)
      /\ sUser' = IF out THEN "none" ELSE sUser
      /\ sBound' = IF out THEN "none" ELSE sBound
      /\ sConfig' = IF sConfig = gone.host THEN "none" ELSE sConfig
      /\ sGone' = IF HostOf(left, gone.host) = {} /\ Lasts(gone.host) THEN sGone \cup {gone.host}
                  ELSE sGone
      /\ UNCHANGED <<sNative, sStarts, sAdded, sModal, sBrowsing, sPending, sAway, sNaming>>
  BY <1>2, <1>3, <1>5, <1>8 DEF disconnectSource, Where, gone
<1>10. /\ SourceList(left, added)
       /\ \A h : HostOf(base, h) = {} => HostOf(left, h) = {}
       /\ \A i \in 1..Len(left) : \E k \in kept : left[i] = base[k]
  <2>1. kept \subseteq DOMAIN base
    OBVIOUS
  <2> HIDE DEF kept
  <2> QED BY <1>8, <2>1, FilteredList
<1>11. Scoped(left, IF out THEN "none" ELSE b)
  <2>1. \A k \in kept : k \in 1..Len(base)
    BY <1>8 DEF SourceList
  <2> HIDE DEF kept, left
  <2> QED BY <1>8, <1>10, <2>1 DEF Scoped
<1> HIDE DEF left, out
<1>12. sGone' \subseteq Host /\ \A h \in sGone' : HostOf(left, h) = {}
  BY <1>1, <1>2, <1>7, <1>8, <1>9, <1>10
<1>13. sConfig' \notin sGone'
  BY <1>1, <1>9, <1>12 DEF SourcesAssumption
<1>14. ListOK' /\ RailOK' /\ GoneOK'
  <2>1. SourceList(left, sAdded') /\ sAdded' \in Nat /\ IsInjective(rail)
    BY <1>1, <1>4, <1>5, <1>9, <1>10
  <2>2. Scoped(left, sBound')
    BY <1>3, <1>9, <1>11
  <2>3. NamingOK'
    BY <1>9, ListContext DEF NamingOK, Lasts
  <2> QED BY <1>9, <1>12, <1>13, <2>1, <2>2, <2>3, PutStep
<1>15. SessionOK'
  <2>1. sUser' \in User \cup {"none"} /\ sBound' \in User \cup {"none"} /\ sConfig' \in Host \cup {"none"}
    BY <1>9 DEF SourcesIInv, SessionOK
  <2> QED BY <1>9, <2>1 DEF SourcesIInv, SessionOK
<1>16. ModalOK'
  BY <1>9 DEF SourcesIInv, ModalOK
<1> QED BY <1>14, <1>15, <1>16 DEF SourcesIInv

LEMMA BrowserStep ==
  ASSUME SourcesIInv, NEW i \in 1..Len(sSources),
         handleSsoLogin(sSources[i].id) \/ handlePasswordLogin(sSources[i].id)
  PROVE  SourcesIInv'
PROOF
<1>1. sSources[i].id \in 0..sAdded
  BY ListContext DEF SourceList
<1>2. CASE handleSsoLogin(sSources[i].id)
  <2>1. ListOK' /\ RailOK' /\ GoneOK'
    BY <1>2, UntouchedStep DEF handleSsoLogin
  <2>2. SessionOK' /\ ModalOK'
    BY <1>1, <1>2 DEF handleSsoLogin, SourcesIInv, SessionOK, ModalOK
  <2> QED BY <2>1, <2>2 DEF SourcesIInv
<1>3. CASE handlePasswordLogin(sSources[i].id)
  <2>1. ListOK' /\ RailOK' /\ GoneOK'
    BY <1>3, UntouchedStep DEF handlePasswordLogin
  <2>2. SessionOK' /\ ModalOK'
    BY <1>1, <1>3 DEF handlePasswordLogin, SourcesIInv, SessionOK, ModalOK
  <2> QED BY <2>1, <2>2 DEF SourcesIInv
<1> QED BY <1>2, <1>3

\* A list with the row of a host added or replaced.
LEMMA AddedStep ==
  ASSUME SourcesAssumption, SourcesIInv, NEW t, NEW host \in Host, Added(t, host),
         sAdded < MaxSources,
         SourceList(t, IF Len(t) > Len(sSources) THEN NewId ELSE sAdded),
         \A h : h # host /\ HostOf(sSources, h) = {} => HostOf(t, h) = {},
         Scoped(t, sBound),
         sModal' = Closed, sPending' \in 0..sAdded'
  PROVE  SourcesIInv'
PROOF
<1>1. /\ sAdded \in Nat /\ sRail \in Seq(Nat) /\ IsInjective(sRail)
      /\ sGone \subseteq Host /\ sConfig \notin sGone
      /\ \A h \in sGone : HostOf(sSources, h) = {}
  BY ListContext
<1>2. /\ PutSources(t, sRail)
      /\ sAdded' = IF Len(t) > Len(sSources) THEN NewId ELSE sAdded
      /\ sGone' = sGone \ {host}
      /\ UNCHANGED <<sNative, sStarts, sUser, sBound, sConfig, sBrowsing, sNaming>>
  BY DEF Added
<1>3. PICK rail \in Seq(Nat) : rail = sRail
  BY <1>1
<1>4. sAdded' \in {sAdded, sAdded + 1}
  BY <1>2 DEF NewId
<1>5. sAdded' \in Nat /\ sAdded <= sAdded' /\ sAdded' \in 0..MaxSources
  <2>1. MaxSources \in Nat
    BY DEF SourcesAssumption
  <2> QED BY <1>1, <1>4, <2>1
<1>6. ListOK' /\ RailOK' /\ GoneOK'
  <2>1. SourceList(t, sAdded') /\ Scoped(t, sBound') /\ IsInjective(rail) /\ PutSources(t, rail)
    BY <1>1, <1>2, <1>3
  <2>2. sGone' \subseteq Host /\ sConfig' \notin sGone' /\ \A h \in sGone' : HostOf(t, h) = {}
    BY <1>1, <1>2
  <2>3. NamingOK'
    BY <1>2, ListContext DEF NamingOK
  <2> QED BY <1>5, <2>1, <2>2, <2>3, PutStep
<1>7. SessionOK'
  <2>1. sBrowsing' \in 0..sAdded'
    <3>1. sBrowsing' \in 0..sAdded
      BY <1>2 DEF SourcesIInv, SessionOK
    <3> QED BY <1>1, <1>5, <3>1
  <2>2. /\ sNative' \in BOOLEAN /\ sUser' \in User \cup {"none"} /\ sBound' \in User \cup {"none"}
        /\ sConfig' \in Host \cup {"none"}
    BY <1>2 DEF SourcesIInv, SessionOK
  <2> QED BY <1>5, <2>1, <2>2 DEF SessionOK
<1>8. ModalOK'
  BY DEF ModalOK, Closed, Screens
<1> QED BY <1>6, <1>7, <1>8 DEF SourcesIInv

LEMMA DialogAddStep ==
  ASSUME SourcesAssumption, SourcesIInv, handleConnectConcord \/ AddReticulum
  PROVE  SourcesIInv'
PROOF
<1>1. /\ sAdded \in Nat /\ SourceList(sSources, sAdded) /\ Scoped(sSources, sBound)
      /\ sBound \in User \cup {"none"}
  BY ListContext
<1>2. sModal.host \in Host /\ sAdded < MaxSources
  BY DEF SourcesIInv, ModalOK, handleConnectConcord, AddReticulum
<1>3. PICK host \in Host : host = sModal.host
  BY <1>2
<1>4. \E platform \in {"concord", "reticulum"}, invited \in BOOLEAN :
         Added(addSource(sModal.host, platform, invited, "none"), sModal.host)
  <2>1. CASE handleConnectConcord
    <3>1. (sModal.call = "with token") \in BOOLEAN
      OBVIOUS
    <3> QED BY <2>1, <3>1 DEF handleConnectConcord
  <2>2. CASE AddReticulum
    BY <2>2 DEF AddReticulum
  <2> QED BY <2>1, <2>2
<1>5. PICK platform \in {"concord", "reticulum"}, invited \in BOOLEAN :
         Added(addSource(host, platform, invited, "none"), host)
  BY <1>3, <1>4
<1>6. platform \in Platforms /\ platform # "matrix" /\ "none" \in Account
  BY DEF Platforms, Account
<1>7. PICK t : t = addSource(host, platform, invited, "none")
  OBVIOUS
<1>8. /\ SourceList(t, NewId) /\ Len(t) > Len(sSources)
      /\ \A h : h # host /\ HostOf(sSources, h) = {} => HostOf(t, h) = {}
      /\ Scoped(t, sBound)
  BY <1>1, <1>6, <1>7, AddFacts
<1>9. Added(t, host)
  BY <1>5, <1>7
<1>10. sModal' = Closed /\ sPending' = sPending
  BY DEF handleConnectConcord, AddReticulum
<1>11. sAdded' = NewId
  BY <1>8, <1>9 DEF Added
<1>12. sPending' \in 0..sAdded'
  <2>1. sPending \in 0..sAdded
    BY DEF SourcesIInv, SessionOK
  <2> QED BY <1>1, <1>10, <1>11, <2>1 DEF NewId
<1>13. SourceList(t, IF Len(t) > Len(sSources) THEN NewId ELSE sAdded)
  BY <1>8
<1> QED BY <1>2, <1>8, <1>9, <1>10, <1>12, <1>13, AddedStep

LEMMA MatrixAddStep ==
  ASSUME SourcesAssumption, SourcesIInv,
         handleMatrixSsoLogin \/ \E account \in AccountsOf(sUser) : handleMatrixPasswordLogin(account)
  PROVE  SourcesIInv'
PROOF
<1>1. /\ sAdded \in Nat /\ SourceList(sSources, sAdded) /\ Scoped(sSources, sBound)
      /\ sBound \in User \cup {"none"} /\ sUser \in User \cup {"none"}
  BY ListContext
<1>2. sModal.host \in Host /\ sAdded < MaxSources
  BY DEF SourcesIInv, ModalOK, handleMatrixSsoLogin, handleMatrixPasswordLogin
<1>3. PICK host \in Host : host = sModal.host
  BY <1>2
<1>4. PICK account \in Account :
        /\ Added(upsertMatrixSourceRecord(host, account), host)
        /\ sModal' = Closed
  <2>1. CASE handleMatrixSsoLogin
    BY <1>3, <2>1 DEF handleMatrixSsoLogin, Account
  <2>2. CASE \E account \in AccountsOf(sUser) : handleMatrixPasswordLogin(account)
    BY <1>1, <1>3, <2>2 DEF handleMatrixPasswordLogin, Account, AccountsOf
  <2> QED BY <2>1, <2>2
<1>5. PICK t : t = upsertMatrixSourceRecord(host, account)
  OBVIOUS
<1>6. /\ SourceList(t, IF Len(t) > Len(sSources) THEN NewId ELSE sAdded)
      /\ \A h : h # host /\ HostOf(sSources, h) = {} => HostOf(t, h) = {}
      /\ Scoped(t, sBound)
  BY <1>1, <1>5, UpsertFacts
<1>7. Added(t, host)
  BY <1>4, <1>5
<1>8. sAdded' = IF Len(t) > Len(sSources) THEN sAdded + 1 ELSE sAdded
  BY <1>7 DEF Added, NewId
<1>9. sPending' \in 0..sAdded'
  <2>1. CASE handleMatrixSsoLogin
    <3>1. PICK ss \in Seq(SourceRow) : ss = sSources
      BY <1>1 DEF SourceList
    <3>2. PICK P \in SUBSET (1..Len(ss)) : P = Existing(host)
      BY <3>1 DEF Existing
    <3>3. CASE P = {}
      <4>1. sPending' = sAdded + 1
        BY <1>3, <2>1, <3>2, <3>3 DEF handleMatrixSsoLogin, NewId
      <4>2. Len(t) > Len(sSources)
        <5>1. t = Append(ss, Source(NewId, host, "matrix", FALSE, sBound, account))
          BY <1>5, <3>1, <3>2, <3>3 DEF upsertMatrixSourceRecord, addSource
        <5>2. Source(NewId, host, "matrix", FALSE, sBound, account) \in SourceRow
          BY <1>1 DEF Source, SourceRow, Platforms, NewId, Account
        <5>3. Len(t) = Len(ss) + 1
          BY <5>1, <5>2
        <5> QED BY <3>1, <5>3
      <4> QED BY <1>1, <1>8, <4>1, <4>2
    <3>4. CASE P # {}
      <4>1. First(P) \in 1..Len(ss)
        BY <3>4, FirstRow
      <4>2. sPending' = ss[First(P)].id
        BY <1>3, <2>1, <3>1, <3>2, <3>4 DEF handleMatrixSsoLogin
      <4>3. sPending' \in 1..sAdded
        BY <1>1, <3>1, <4>1, <4>2 DEF SourceList
      <4> QED BY <1>1, <1>8, <4>3
    <3> QED BY <3>3, <3>4
  <2>2. CASE \E a \in AccountsOf(sUser) : handleMatrixPasswordLogin(a)
    <3>1. sPending' \in 0..sAdded
      BY <2>2 DEF handleMatrixPasswordLogin, SourcesIInv, SessionOK
    <3> QED BY <1>1, <1>8, <3>1
  <2> QED BY <2>1, <2>2
<1> QED BY <1>2, <1>4, <1>6, <1>7, <1>9, AddedStep

\* The answer of a sign-in: a row is signed in, or none is.
LEMMA AnswerStep ==
  ASSUME SourcesAssumption, SourcesIInv, NEW account \in AccountsOf(sUser), NEW accepted \in BOOLEAN,
         SsoReturns(account, accepted) \/ PasswordAnswered(account, accepted)
  PROVE  SourcesIInv'
PROOF
<1>1. /\ sAdded \in Nat /\ SourceList(sSources, sAdded) /\ Scoped(sSources, sBound)
      /\ sRail \in Seq(Nat) /\ IsInjective(sRail)
      /\ sUser \in User \cup {"none"}
      /\ sGone \subseteq Host /\ sConfig \notin sGone
      /\ \A h \in sGone : HostOf(sSources, h) = {}
  BY ListContext
<1>2. PICK added \in Nat : added = sAdded
  BY <1>1
<1>3. PICK rail \in Seq(Nat) : rail = sRail
  BY <1>1
<1>4. PICK ss : ss = sSources
  OBVIOUS
<1>5. SourceList(ss, added) /\ Scoped(ss, sBound) /\ \A h \in sGone : HostOf(ss, h) = {}
  BY <1>1, <1>2, <1>4
<1>6. account \in User \cup {"none", "other"}
  BY <1>1 DEF AccountsOf
<1>7. PICK id : PutSources(IF accepted THEN SignedIn(sSources, id, account) ELSE sSources, sRail)
  BY DEF SsoReturns, PasswordAnswered
<1>8. UNCHANGED <<sNative, sUser, sBound, sAdded, sConfig, sNaming, sGone>>
  BY DEF SsoReturns, PasswordAnswered
<1>9. PICK t : t = IF accepted THEN SignedIn(ss, id, account) ELSE ss
  OBVIOUS
<1>10. SourceList(t, added) /\ Scoped(t, sBound) /\ \A h \in sGone : HostOf(t, h) = {}
  <2>1. CASE accepted
    <3>1. t = SignedIn(ss, id, account)
      BY <1>9, <2>1
    <3> QED BY <1>5, <1>6, <3>1, SignedInFacts
  <2>2. CASE ~accepted
    BY <1>5, <1>9, <2>2
  <2> QED BY <2>1, <2>2
<1>11. ListOK' /\ RailOK' /\ GoneOK'
  <2>1. PutSources(t, rail) /\ IsInjective(rail)
    BY <1>1, <1>3, <1>4, <1>7, <1>9
  <2>2. SourceList(t, sAdded') /\ sAdded' \in Nat /\ Scoped(t, sBound')
    BY <1>2, <1>8, <1>10
  <2>3. sGone' \subseteq Host /\ sConfig' \notin sGone' /\ \A h \in sGone' : HostOf(t, h) = {}
    BY <1>1, <1>8, <1>10
  <2>4. NamingOK'
    BY <1>8, ListContext DEF NamingOK
  <2> QED BY <2>1, <2>2, <2>3, <2>4, PutStep
<1>12. SessionOK'
  <2>1. CASE SsoReturns(account, accepted)
    BY <1>1, <2>1 DEF SsoReturns, SourcesIInv, SessionOK
  <2>2. CASE PasswordAnswered(account, accepted)
    BY <1>1, <2>2 DEF PasswordAnswered, SourcesIInv, SessionOK
  <2> QED BY <2>1, <2>2
<1>13. ModalOK'
  <2>1. CASE SsoReturns(account, accepted)
    BY <2>1 DEF SsoReturns, ModalOK, Closed, Screens
  <2>2. CASE PasswordAnswered(account, accepted)
    BY <2>2 DEF PasswordAnswered, SourcesIInv, ModalOK
  <2> QED BY <2>1, <2>2
<1> QED BY <1>11, <1>12, <1>13 DEF SourcesIInv

\* The list a launch starts from, completed by the startup.
LEMMA LaunchList ==
  ASSUME SourcesAssumption, SourcesIInv, NEW ss, SourceList(ss, sAdded), NEW user, Scoped(ss, user),
         \A h \in sGone : HostOf(ss, h) = {}
  PROVE  LET t == IF sNative THEN migrateFromSession(ss) ELSE ensurePrimarySource(ss, Origin)
         IN  /\ SourceList(t, IF Len(t) > Len(ss) THEN NewId ELSE sAdded)
             /\ Scoped(t, user)
             /\ \A h \in (IF sNative THEN sGone ELSE sGone \ {Origin}) : HostOf(t, h) = {}
PROOF
<1>1. sAdded \in Nat /\ sConfig \in Host \cup {"none"} /\ sConfig \notin sGone
  BY ListContext DEF SourcesIInv, SessionOK
<1>2. CASE ~sNative
  <2>1. PICK t : t = ensurePrimarySource(ss, Origin)
    OBVIOUS
  <2>2. Origin \in Host
    BY DEF SourcesAssumption
  <2>3. /\ SourceList(t, IF Len(t) > Len(ss) THEN NewId ELSE sAdded)
        /\ \A h : h # Origin /\ HostOf(ss, h) = {} => HostOf(t, h) = {}
        /\ Scoped(t, user)
    BY <1>1, <2>1, <2>2, EnsuredFacts
  <2> QED BY <1>2, <2>1, <2>3
<1>3. CASE sNative
  <2>1. CASE ss = <<>> /\ sConfig # "none"
    <3>1. PICK r : r = Source(NewId, sConfig, "concord", FALSE, "none", "none")
      OBVIOUS
    <3>2. /\ r \in SourceRow /\ r.id = sAdded + 1 /\ r.host = sConfig
          /\ r.platform # "matrix" /\ isPrimarySource(r)
      BY <1>1, <2>1, <3>1 DEF Source, SourceRow, NewId, Platforms, isPrimarySource
    <3>3. PICK added \in Nat : added = sAdded
      BY <1>1
    <3>4. SourceList(ss, added) /\ r.id = added + 1
      BY <3>2, <3>3
    <3>5. /\ SourceList(Append(ss, r), added + 1)
          /\ Len(Append(ss, r)) = Len(ss) + 1
          /\ \A h : h # r.host /\ HostOf(ss, h) = {} => HostOf(Append(ss, r), h) = {}
          /\ Scoped(ss, user) /\ (~isPrimarySource(r) => r.owner \in {user, "none"})
               => Scoped(Append(ss, r), user)
      BY <3>2, <3>4, AppendedList
    <3>6. PICK t : t = migrateFromSession(ss)
      OBVIOUS
    <3>7. t = Append(ss, r)
      <4>1. t = <<r>>
        BY <2>1, <3>1, <3>6 DEF migrateFromSession
      <4>2. Append(<<>>, r) = <<r>>
        OBVIOUS
      <4> QED BY <2>1, <4>1, <4>2
    <3>8. Len(ss) \in Nat
      BY DEF SourceList
    <3>9. SourceList(t, IF Len(t) > Len(ss) THEN NewId ELSE sAdded)
      <4>1. Len(t) > Len(ss)
        BY <3>5, <3>7, <3>8
      <4>2. SourceList(t, NewId)
        BY <3>3, <3>5, <3>7 DEF NewId
      <4> QED BY <4>1, <4>2
    <3>10. Scoped(t, user) /\ \A h \in sGone : HostOf(t, h) = {}
      BY <1>1, <3>2, <3>5, <3>7
    <3> QED BY <1>3, <3>6, <3>9, <3>10
  <2>2. CASE ~(ss = <<>> /\ sConfig # "none")
    <3>1. PICK t : t = migrateFromSession(ss)
      OBVIOUS
    <3>2. t = ss
      BY <2>2, <3>1 DEF migrateFromSession
    <3>3. ~(Len(t) > Len(ss))
      BY <3>2 DEF SourceList
    <3> QED BY <1>3, <3>1, <3>2, <3>3
  <2> QED BY <2>1, <2>2
<1> QED BY <1>2, <1>3

LEMMA LaunchStep ==
  ASSUME SourcesAssumption, SourcesIInv, NEW stored \in {<<>>, sRail, Reverse(sRail)},
         NEW token \in BOOLEAN, Launch(stored, token)
  PROVE  SourcesIInv'
PROOF
<1>1. /\ sAdded \in Nat /\ SourceList(sSources, sAdded) /\ Scoped(sSources, sBound)
      /\ sRail \in Seq(Nat) /\ IsInjective(sRail)
      /\ sUser \in User \cup {"none"} /\ sBound \in User \cup {"none"}
      /\ sGone \subseteq Host /\ sConfig \notin sGone
      /\ \A h \in sGone : HostOf(sSources, h) = {}
  BY ListContext
<1>2. PICK rail \in Seq(Nat) : rail = stored /\ IsInjective(rail)
  <2>1. <<>> \in Seq(Nat) /\ IsInjective(<<>>)
    BY DEF IsInjective
  <2>2. PICK old \in Seq(Nat) : old = sRail /\ IsInjective(old)
    BY <1>1
  <2>3. Reverse(old) \in Seq(Nat) /\ IsInjective(Reverse(old))
    BY <2>2, ReverseFacts
  <2> QED BY <2>1, <2>2, <2>3
<1>3. PICK ss :
        /\ ss = IF sUser = "none" THEN sSources ELSE Bound(sSources, sBound, sUser)
        /\ SourceList(ss, sAdded) /\ Scoped(ss, IF sUser = "none" THEN sBound ELSE sUser)
        /\ \A h \in sGone : HostOf(ss, h) = {}
  <2>1. PICK old : old = sSources
    OBVIOUS
  <2>2. PICK added \in Nat : added = sAdded
    BY <1>1
  <2>3. PICK b \in User \cup {"none"}, user \in User \cup {"none"} : b = sBound /\ user = sUser
    BY <1>1
  <2>4. SourceList(old, added)
    BY <1>1, <2>1, <2>2
  <2>5. PICK u : u = Bound(old, b, user)
    OBVIOUS
  <2>6. SourceList(u, added) /\ Scoped(u, user) /\ \A h : HostOf(old, h) = {} => HostOf(u, h) = {}
    BY <2>4, <2>5, BoundFacts
  <2>7. u = Bound(sSources, sBound, sUser)
    BY <2>1, <2>3, <2>5
  <2>8. CASE sUser = "none"
    BY <1>1, <2>8
  <2>9. CASE sUser # "none"
    BY <1>1, <2>1, <2>2, <2>3, <2>6, <2>7, <2>9
  <2> QED BY <2>8, <2>9
<1>4. PICK t : t = IF sNative THEN migrateFromSession(ss) ELSE ensurePrimarySource(ss, Origin)
  OBVIOUS
<1>5. PICK user : user = IF sUser = "none" THEN sBound ELSE sUser
  OBVIOUS
<1>6. Scoped(ss, user)
  BY <1>3, <1>5
<1>7. /\ SourceList(t, IF Len(t) > Len(ss) THEN NewId ELSE sAdded)
      /\ Scoped(t, user)
      /\ \A h \in (IF sNative THEN sGone ELSE sGone \ {Origin}) : HostOf(t, h) = {}
  BY <1>3, <1>4, <1>6, LaunchList
<1>8. /\ sAdded' = IF Len(t) > Len(ss) THEN NewId ELSE sAdded
      /\ sAdded' <= MaxSources
      /\ sGone' = IF sNative THEN sGone ELSE sGone \ {Origin}
      /\ PutSources(t, rail)
  BY <1>2, <1>3, <1>4 DEF Launch
<1>9. /\ sBound' = user
      /\ sModal' = IF token THEN [Closed EXCEPT !.screen = "validating", !.call = "sso"] ELSE Closed
      /\ sPending' = IF token THEN sPending ELSE 0
      /\ sBrowsing' = 0 /\ sNaming' = ~sNative
      /\ UNCHANGED <<sNative, sUser, sConfig>>
  BY <1>5 DEF Launch
<1>10. sAdded' \in Nat /\ sAdded <= sAdded'
  BY <1>1, <1>8 DEF NewId
<1>11. ListOK' /\ RailOK' /\ GoneOK'
  <2>1. SourceList(t, sAdded') /\ Scoped(t, sBound')
    BY <1>7, <1>8, <1>9
  <2>2. sGone' \subseteq Host /\ sConfig' \notin sGone' /\ \A h \in sGone' : HostOf(t, h) = {}
    BY <1>1, <1>7, <1>8, <1>9
  <2>3. NamingOK'
    BY <1>8, <1>9 DEF NamingOK
  <2> QED BY <1>2, <1>8, <1>10, <2>1, <2>2, <2>3, PutStep
<1>12. SessionOK'
  <2>1. /\ sNative' \in BOOLEAN /\ sUser' \in User \cup {"none"} /\ sBound' \in User \cup {"none"}
        /\ sConfig' \in Host \cup {"none"}
    BY <1>1, <1>5, <1>9 DEF SourcesIInv, SessionOK
  <2>2. sAdded' \in 0..MaxSources
    BY <1>8, <1>10 DEF SourcesAssumption
  <2>3. sPending' \in 0..sAdded'
    <3>1. sPending \in 0..sAdded
      BY DEF SourcesIInv, SessionOK
    <3>2. sPending' \in {0, sPending}
      BY <1>9
    <3> QED BY <1>1, <1>10, <3>1, <3>2
  <2>4. sBrowsing' \in 0..sAdded'
    BY <1>9, <1>10
  <2> QED BY <2>1, <2>2, <2>3, <2>4 DEF SessionOK
<1>13. ModalOK'
  BY <1>9 DEF ModalOK, Closed, Screens
<1> QED BY <1>11, <1>12, <1>13 DEF SourcesIInv

\* The late answer: it may bring the row of the origin back, which is not among the
\* hosts disconnected for good while the answer is awaited.
LEMMA NamedStep ==
  ASSUME SourcesAssumption, SourcesIInv, NEW named \in BOOLEAN, InstanceNamed(named)
  PROVE  SourcesIInv'
PROOF
<1>1. /\ sAdded \in Nat /\ SourceList(sSources, sAdded) /\ Scoped(sSources, sBound)
      /\ sRail \in Seq(Nat) /\ IsInjective(sRail)
      /\ sGone \subseteq Host /\ sConfig \notin sGone /\ NamingOK
      /\ \A h \in sGone : HostOf(sSources, h) = {}
  BY ListContext
<1>2. PICK t : t = IF named THEN ensurePrimarySource(sSources, Origin) ELSE sSources
  OBVIOUS
<1>3. /\ SourceList(t, IF Len(t) > Len(sSources) THEN NewId ELSE sAdded)
      /\ \A h : h # Origin /\ HostOf(sSources, h) = {} => HostOf(t, h) = {}
      /\ Scoped(t, sBound)
  <2>1. CASE named
    <3>1. Origin \in Host
      BY DEF SourcesAssumption
    <3> QED BY <1>1, <1>2, <2>1, <3>1, EnsuredFacts
  <2>2. CASE ~named
    <3>1. ~(Len(t) > Len(sSources))
      BY <1>1, <1>2, <2>2 DEF SourceList
    <3> QED BY <1>1, <1>2, <2>2, <3>1
  <2> QED BY <2>1, <2>2
<1>4. /\ sNaming /\ sNaming' = FALSE
      /\ sAdded' = IF Len(t) > Len(sSources) THEN NewId ELSE sAdded
      /\ sAdded' <= MaxSources
      /\ PutSources(t, sRail)
      /\ UNCHANGED <<sNative, sUser, sBound, sConfig, sModal, sBrowsing, sPending, sGone>>
  BY <1>2 DEF InstanceNamed
<1>5. PICK rail \in Seq(Nat) : rail = sRail
  BY <1>1
<1>6. sAdded' \in Nat /\ sAdded <= sAdded'
  BY <1>1, <1>4 DEF NewId
<1>7. ListOK' /\ RailOK' /\ GoneOK'
  <2>1. SourceList(t, sAdded') /\ Scoped(t, sBound') /\ IsInjective(rail) /\ PutSources(t, rail)
    BY <1>1, <1>3, <1>4, <1>5
  <2>2. sGone' \subseteq Host /\ sConfig' \notin sGone' /\ \A h \in sGone' : HostOf(t, h) = {}
    BY <1>1, <1>3, <1>4 DEF NamingOK
  <2>3. NamingOK'
    BY <1>4 DEF NamingOK
  <2> QED BY <1>6, <2>1, <2>2, <2>3, PutStep
<1>8. SessionOK'
  <2>1. sAdded' \in 0..MaxSources
    BY <1>4, <1>6 DEF SourcesAssumption
  <2>2. sBrowsing' \in 0..sAdded' /\ sPending' \in 0..sAdded'
    <3>1. sBrowsing \in 0..sAdded /\ sPending \in 0..sAdded
      BY DEF SourcesIInv, SessionOK
    <3> QED BY <1>1, <1>4, <1>6, <3>1
  <2> QED BY <1>4, <2>1, <2>2 DEF SourcesIInv, SessionOK
<1>9. ModalOK'
  BY <1>4 DEF SourcesIInv, ModalOK
<1> QED BY <1>7, <1>8, <1>9 DEF SourcesIInv

LEMMA SourcesStep ==
  ASSUME SourcesAssumption, SourcesIInv, SourcesNext \/ UNCHANGED sourcesVars
  PROVE  SourcesIInv'
PROOF
<1>1. CASE Here
  <2>1. CASE \E from, to \in 1..Len(sRail) : handleDragEnd(from, to)
    BY <2>1, DragStep
  <2>2. CASE logout \/ \E user \in User : login(user)
    BY <2>2, SessionStep
  <2>3. CASE \/ OpenModal \/ CloseModal \/ Back \/ ConnectFails
             \/ \E host \in Host, kind \in Platforms \cup {"invalid"} : handleDetectAddress(host, kind)
             \/ \E call \in {"with token", "without token", "sign in"} : ConnectStarts(call)
    BY <2>3, ModalStep
  <2>4. CASE \E i \in 1..Len(sSources) :
                \/ disconnectSource(sSources[i].id)
                \/ handleSsoLogin(sSources[i].id) \/ handlePasswordLogin(sSources[i].id)
    <3>1. PICK i \in 1..Len(sSources) :
             \/ disconnectSource(sSources[i].id)
             \/ handleSsoLogin(sSources[i].id) \/ handlePasswordLogin(sSources[i].id)
      BY <2>4
    <3>2. sSources[i].id \in Nat
      BY ListContext DEF SourceList
    <3>3. PICK id \in Nat : id = sSources[i].id
      BY <3>2
    <3>4. CASE disconnectSource(sSources[i].id)
      <4>1. disconnectSource(id)
        BY <3>3, <3>4
      <4> QED BY <4>1, DisconnectStep
    <3>5. CASE handleSsoLogin(sSources[i].id) \/ handlePasswordLogin(sSources[i].id)
      BY <3>5, BrowserStep
    <3> QED BY <3>1, <3>4, <3>5
  <2>5. CASE handleConnectConcord \/ AddReticulum
    BY <2>5, DialogAddStep
  <2>6. CASE handleMatrixSsoLogin \/ \E account \in AccountsOf(sUser) : handleMatrixPasswordLogin(account)
    BY <2>6, MatrixAddStep
  <2>7. CASE \E account \in AccountsOf(sUser), accepted \in BOOLEAN :
                SsoReturns(account, accepted) \/ PasswordAnswered(account, accepted)
    BY <2>7, AnswerStep
  <2>8. CASE \E named \in BOOLEAN : InstanceNamed(named)
    BY <2>8, NamedStep
  <2> QED BY <1>1, <2>1, <2>2, <2>3, <2>4, <2>5, <2>6, <2>7, <2>8 DEF Here
<1>2. CASE \E stored \in {<<>>, sRail, Reverse(sRail)}, token \in BOOLEAN : Launch(stored, token)
  BY <1>2, LaunchStep
<1>3. CASE UNCHANGED sourcesVars
  <2>1. ListOK' /\ RailOK' /\ GoneOK'
    BY <1>3, UntouchedStep DEF sourcesVars
  <2>2. SessionOK' /\ ModalOK'
    BY <1>3 DEF sourcesVars, SourcesIInv, SessionOK, ModalOK
  <2> QED BY <2>1, <2>2 DEF SourcesIInv
<1> QED BY <1>1, <1>2, <1>3 DEF SourcesNext

LEMMA SourcesInductive == SourcesSpec => []SourcesIInv
PROOF
<1>1. SourcesInit => SourcesIInv
  BY SourcesInitial, SourcesAssumption
<1>2. SourcesIInv /\ [SourcesNext]_sourcesVars => SourcesIInv'
  BY SourcesStep, SourcesAssumption
<1> QED BY <1>1, <1>2, PTL DEF SourcesSpec

-----------------------------------------------------------------------------
(***************************************************************************)
(* The theorems.                                                           *)
(***************************************************************************)

LEMMA SourcesInvTypes == SourcesIInv => SourcesTypeOK
PROOF
<1> SUFFICES ASSUME SourcesIInv PROVE SourcesTypeOK
  OBVIOUS
<1>1. SourceList(sSources, sAdded)
  BY ListContext
<1>2. ASSUME NEW i \in 1..Len(sSources)
      PROVE  sSources[i] \in
               [id : 1..sAdded, host : Host, platform : Platforms, invited : BOOLEAN,
                owner : User \cup {"none"}, account : User \cup {"none", "other"}]
  <2>1. sSources[i] \in SourceRow /\ sSources[i].id \in 1..sAdded
    BY <1>1 DEF SourceList
  <2> QED BY <2>1 DEF SourceRow
<1>3. sModal.screen \in Screens
  BY DEF SourcesIInv, ModalOK
<1> QED BY <1>2, <1>3 DEF SourcesTypeOK, Screens, SourcesIInv, SessionOK

\* The type invariant of the sources of a user.
THEOREM SourcesTypes == SourcesSpec => []SourcesTypeOK
PROOF
  BY SourcesInvTypes, SourcesInductive, PTL

\* Disconnecting a source (lib/disconnectSource.ts) lasts: no refill of an empty store
\* from the stored configuration, no launch of a native build and no sign-on that was under
\* way brings a row of the host back; only the user, by adding it again, does.  A web
\* page's own origin is the exception: each launch ensures it, and so does the name of the
\* instance (main.tsx:84-96) when it arrives after the user has disconnected the row.
THEOREM SourcesStayGone == SourcesSpec => []DisconnectedStaysGone
PROOF
<1>1. SourcesIInv => DisconnectedStaysGone
  BY DEF SourcesIInv, GoneOK
<1> QED BY <1>1, SourcesInductive, PTL

\* Whatever user logs in or out, and whichever launch restores whose store, a source that
\* is no Concord server or came with an invite belongs to the user the store is bound to.
THEOREM InvitesScoped == SourcesSpec => []InvitedSourcesAreScoped
PROOF
<1>1. SourcesIInv => InvitedSourcesAreScoped
  BY DEF SourcesIInv, ListOK, Scoped, InvitedSourcesAreScoped
<1> QED BY <1>1, SourcesInductive, PTL

\* A Matrix server has one row, added twice, abandoned or by single sign-on
\* (upsertMatrixSourceRecord of AddSourceModal.tsx).
THEOREM OneRowPerMatrixServer == SourcesSpec => []OneMatrixSourcePerHost
PROOF
<1>1. SourcesIInv => OneMatrixSourcePerHost
  BY DEF SourcesIInv, ListOK, SourceList, OneRowPerHost, OneMatrixSourcePerHost
<1> QED BY <1>1, SourcesInductive, PTL

\* The rail (components/layout/SourcesPanel.tsx) shows every source once, and the tile that
\* adds one, whatever was added, removed, dragged or restored from a stored order.
THEOREM RailComplete == SourcesSpec => []RailShowsEverySource
PROOF
<1>1. SourcesIInv => RailShowsEverySource
  BY DEF SourcesIInv, RailOK
<1> QED BY <1>1, SourcesInductive, PTL

-----------------------------------------------------------------------------
(***************************************************************************)
(* The session as a whole: its parts share no variable, so that every step *)
(* of it is a step of one part, or a stutter of it.                        *)
(***************************************************************************)

PartsInv == PickerInv /\ BootInv /\ SourcesIInv /\ LifecycleInv /\ ReadIInv

LEMMA PartsSteps ==
  ASSUME [Next]_vars
  PROVE  /\ [PickerNext]_pickerVars /\ [BootNext]_bootVars /\ [SourcesNext]_sourcesVars
         /\ [LifecycleNext]_lifecycleVars /\ [ReadNext]_readVars
PROOF
<1>1. CASE UNCHANGED vars
  BY <1>1 DEF vars
<1>2. CASE Stays("picker") /\ PickerNext
  BY <1>2, Zenon DEF Stays
<1>3. CASE Stays("boot") /\ BootNext
  BY <1>3, Zenon DEF Stays
<1>4. CASE Stays("sources") /\ SourcesNext
  BY <1>4, Zenon DEF Stays
<1>5. CASE Stays("lifecycle") /\ LifecycleNext
  BY <1>5, Zenon DEF Stays
<1>6. CASE Stays("markers") /\ ReadNext
  BY <1>6, Zenon DEF Stays
<1> QED BY <1>1, <1>2, <1>3, <1>4, <1>5, <1>6, Zenon DEF Next

LEMMA PartsInvAlways == Spec => []PartsInv
PROOF
<1>1. Init => PartsInv
  <2> SUFFICES ASSUME Init PROVE PartsInv
    OBVIOUS
  <2>1. PickerInit /\ BootInit /\ SourcesInit /\ LifecycleInit /\ ReadInit
    BY Zenon DEF Init
  <2>2. SourcesIInv
    BY <2>1, SourcesInitial, SourcesAssumption
  <2> QED BY <2>1, <2>2, PickerInvInit, BootInvInit, LifecycleInvInit, ReadIInvInit, Zenon DEF PartsInv
<1>2. PartsInv /\ [Next]_vars => PartsInv'
  <2> SUFFICES ASSUME PartsInv, [Next]_vars PROVE PartsInv'
    OBVIOUS
  <2>1. PickerInv /\ BootInv /\ SourcesIInv /\ LifecycleInv /\ ReadIInv
    BY Zenon DEF PartsInv
  <2>2. /\ [PickerNext]_pickerVars /\ [BootNext]_bootVars /\ [SourcesNext]_sourcesVars
        /\ [LifecycleNext]_lifecycleVars /\ [ReadNext]_readVars
    BY PartsSteps
  <2>3. SourcesIInv'
    BY <2>1, <2>2, SourcesStep, SourcesAssumption
  <2> QED BY <2>1, <2>2, <2>3, PickerInvStep, BootInvStep, LifecycleInvStep, ReadIInvStep, Zenon DEF PartsInv
<1> QED BY <1>1, <1>2, PTL DEF Spec

\* Every part of a session is well formed, each committed discovery result is https,
\* whether found by documents, pasted text or a scanned code, and sources are listed once
\* each, on the rail and per Matrix server: what the session run checks, for any number of launches, users,
\* servers and sources.
THEOREM SessionHolds == Spec => []SessionInv
PROOF
<1>1. PickerInv => PickerTypeOK /\ CommittedOverHttps
  BY Zenon DEF PickerInv
<1>2. LifecycleInv => LifecycleTypeOK
  BY DEF LifecycleInv
<1>3. SourcesIInv => OneMatrixSourcePerHost /\ RailShowsEverySource
  BY DEF SourcesIInv, ListOK, SourceList, OneRowPerHost, OneMatrixSourcePerHost, RailOK
<1>4. PartsInv => SessionInv
  BY <1>1, <1>2, <1>3, BootInvTypes, SourcesInvTypes, ReadInvTypes, Zenon DEF PartsInv, SessionInv
<1> QED BY <1>4, PartsInvAlways, PTL
=============================================================================
