----------------------------- MODULE ClientBoot -----------------------------
(***************************************************************************)
(* A launch of the client, from the splash to the chat: which screen App   *)
(* shows, the sign-in form with its second factor, a pending invite link,  *)
(* and when the splash goes (App.tsx, LoginForm.tsx, LaunchAnimation.tsx,  *)
(* stores/auth.ts, stores/serverConfig.ts, api/serverUrl.ts).              *)
(***************************************************************************)
EXTENDS Naturals

CONSTANT MaxLaunches  \* bound on reloads of the page

ASSUME BootAssumption == MaxLaunches \in Nat

VARIABLES
  bNative,    \* a Tauri build
  bLaunches,  \* reloads so far
  bMounted,   \* App's mount effects have run
  bDocker,    \* dockerBootState
  bConfig,    \* the server in the persisted serverConfig, or "none"
  bConnected, \* serverConnected
  bSession,   \* the session in memory, or NoSession
  bStored,    \* the session in localStorage, or NoSession
  bLoading,   \* auth.isLoading
  bForm,      \* the sign-in form
  bVerified,  \* a code of the second factor has been accepted since the last logout
  bInvite,    \* an invite token is in the URL or in sessionStorage
  bHandled,   \* inviteHandled
  bRedeeming, \* redeemInvite is on its way
  bJoined,    \* the invite was used, or the form said it is not (or the user emptied it)
  bLoaded,    \* serversLoaded
  bReady,     \* isAppReady
  bSplash,    \* the phase of the splash
  bMin, bMax  \* the floor and the ceiling of the splash have passed

signVars == <<bSession, bStored, bForm, bVerified>>
inviteVars == <<bInvite, bHandled, bRedeeming, bJoined>>
splashVars == <<bReady, bSplash, bMin, bMax>>
routeVars == <<bNative, bLaunches, bMounted, bDocker, bConfig, bConnected, bLoading, bLoaded>>
bootVars == <<routeVars, signVars, inviteVars, splashVars>>

Servers == {"origin", "other"}
Accounts == {"plain", "totp"}
Calls == {"none", "password", "status", "register", "verify"}

\* A session: its account, the server that issued its token, and the server its
\* Matrix client talks to.
Session(account, issuer, client) == [account |-> account, issuer |-> issuer, client |-> client]
NoSession == Session("none", "none", "none")
Sessions == {Session(a, i, c) : a \in Accounts, i \in Servers, c \in Servers}

\* The form as it mounts: an invite switches it to registration.
NewForm(invite) ==
  [mode |-> IF invite THEN "register" ELSE "login", invite |-> invite, validating |-> invite,
   firstBoot |-> FALSE, open |-> FALSE, call |-> "none", result |-> NoSession,
   pending |-> NoSession]

\* The API is asked at the configured server, else at the origin.
getApiBase == IF bConfig # "none" THEN bConfig ELSE "origin"

\* _serverUrl is only ever set on native builds, where the picker is not shown.
getHomeserverUrl == "origin"

LoggedIn == bSession # NoSession

computeInitialServerConnected(native, config) == config # "none" \/ ~native

\* The screen App renders.
Screen ==
  IF bDocker = "checking" THEN "blank"
  ELSE IF bDocker = "pending" THEN "docker"
  ELSE IF bDocker = "join" THEN "picker"
  ELSE IF bLoading THEN "blank"
  ELSE IF ~bNative /\ ~bConnected THEN "picker"
  ELSE IF ~bNative /\ ~LoggedIn THEN "login"
  ELSE "chat"

BootInit ==
  /\ bNative \in BOOLEAN /\ bLaunches = 0
  /\ bConfig \in IF bNative THEN {"none", "other"} ELSE {"none"}
  /\ bStored \in {NoSession, Session("plain", "origin", "origin")}
  /\ bInvite \in IF bNative THEN {FALSE} ELSE BOOLEAN
  /\ bJoined = FALSE /\ bVerified = FALSE
  /\ bMounted = FALSE /\ bDocker = "checking" /\ bLoading = TRUE /\ bLoaded = FALSE
  /\ bConnected = computeInitialServerConnected(bNative, bConfig)
  /\ bSession = NoSession /\ bForm = NewForm(FALSE)
  /\ bHandled = FALSE /\ bRedeeming = FALSE
  /\ bReady = FALSE /\ bSplash = "showing" /\ bMin = FALSE /\ bMax = FALSE

\* A reload keeps what is persisted and nothing else.
Reload ==
  /\ bLaunches < MaxLaunches
  /\ bLaunches' = bLaunches + 1
  /\ UNCHANGED <<bNative, bConfig, bStored, bVerified, bInvite, bJoined>>
  /\ bMounted' = FALSE /\ bDocker' = "checking" /\ bLoading' = TRUE /\ bLoaded' = FALSE
  /\ bConnected' = computeInitialServerConnected(bNative, bConfig)
  /\ bSession' = NoSession /\ bForm' = NewForm(FALSE)
  /\ bHandled' = FALSE /\ bRedeeming' = FALSE
  /\ bReady' = FALSE /\ bSplash' = "showing" /\ bMin' = FALSE /\ bMax' = FALSE

\* A form that appears reads the invite anew; one that stays is left alone.
Remount(invite) ==
  bForm' = IF Screen # "login" /\ Screen' = "login" THEN NewForm(invite) ELSE bForm

\* The mount effects: the stored session is restored, the Docker check skipped on native.
restoreSession ==
  /\ ~bMounted
  /\ bMounted' = TRUE /\ bLoading' = FALSE
  /\ bSession' = IF bStored = NoSession THEN NoSession
                 ELSE [bStored EXCEPT !.client = getHomeserverUrl]
  /\ bDocker' = IF bNative THEN "done" ELSE bDocker
  /\ UNCHANGED <<bNative, bLaunches, bConfig, bConnected, bLoaded, bStored, bVerified,
                 inviteVars, splashVars>>
  /\ Remount(bInvite)

\* getInstanceInfo answered App; a failure skips the picker.
InstanceInfo(firstBoot) ==
  /\ bMounted /\ bDocker = "checking"
  /\ bDocker' = IF firstBoot THEN "pending" ELSE "done"
  /\ UNCHANGED <<bNative, bLaunches, bMounted, bConfig, bConnected, bLoading, bLoaded,
                 bSession, bStored, bVerified, inviteVars, splashVars>>
  /\ Remount(bInvite)

DockerFirstBootScreen(choice) ==
  /\ Screen = "docker"
  /\ bDocker' = choice
  /\ UNCHANGED <<bNative, bLaunches, bMounted, bConfig, bConnected, bLoading, bLoaded,
                 bSession, bStored, bVerified, inviteVars, splashVars>>
  /\ Remount(bInvite)

\* The picker committed a server.
onConnected(server) ==
  /\ Screen = "picker"
  /\ bConfig' = server /\ bConnected' = TRUE /\ bDocker' = "done"
  /\ UNCHANGED <<bNative, bLaunches, bMounted, bLoading, bLoaded, bSession, bStored, bVerified,
                 inviteVars, splashVars>>
  /\ Remount(bInvite)

-----------------------------------------------------------------------------
(***************************************************************************)
(* The sign-in form.                                                       *)
(***************************************************************************)

OnForm(form) ==
  /\ bForm' = form
  /\ UNCHANGED <<routeVars, bSession, bStored, bVerified, inviteVars, splashVars>>

\* getInstanceInfo answered the form.
FormInfo(firstBoot, open) ==
  /\ Screen = "login" /\ ~bForm.firstBoot
  /\ OnForm([bForm EXCEPT !.open = open, !.firstBoot = firstBoot,
                          !.mode = IF firstBoot THEN "register" ELSE @])

\* validateInvite answered; an invalid invite or a failure empties the field and says so.
InviteValidated(valid) ==
  /\ Screen = "login" /\ bForm.validating
  /\ bForm' = [bForm EXCEPT !.validating = FALSE, !.invite = @ /\ valid]
  /\ bJoined' = (bJoined \/ ~valid)
  /\ UNCHANGED <<routeVars, bSession, bStored, bVerified, bInvite, bHandled, bRedeeming, splashVars>>

ClearInvite ==
  /\ Screen = "login" /\ bForm.mode = "register" /\ ~bForm.firstBoot /\ bForm.invite
  /\ bForm' = [bForm EXCEPT !.invite = FALSE]
  /\ bJoined' = TRUE
  /\ UNCHANGED <<routeVars, bSession, bStored, bVerified, bInvite, bHandled, bRedeeming, splashVars>>

SetMode(mode) ==
  /\ Screen = "login" /\ bForm.pending = NoSession /\ ~bForm.firstBoot /\ bForm.mode # mode
  /\ OnForm([bForm EXCEPT !.mode = mode])

Idle == Screen = "login" /\ bForm.call = "none"

\* handleSubmit, up to its first call.  The first-boot form does not wait for the invite.
handleSubmit ==
  /\ Idle /\ bForm.pending = NoSession
  /\ \/ bForm.mode = "login" /\ ~bForm.validating
        /\ OnForm([bForm EXCEPT !.call = "password"])
     \/ /\ bForm.mode = "register"
        /\ bForm.firstBoot \/ (~bForm.validating /\ (bForm.open \/ bForm.invite))
        /\ OnForm([bForm EXCEPT !.call = "register"])

Refused(call) == bForm.call = call /\ OnForm([bForm EXCEPT !.call = "none"])

\* loginWithPassword answered; the status of the second factor is asked next.
PasswordAccepted(account) ==
  /\ Screen = "login" /\ bForm.call = "password"
  /\ OnForm([bForm EXCEPT !.call = "status",
                          !.result = Session(account, getHomeserverUrl, getHomeserverUrl)])

\* login of the auth store, and the form is left.
SignIn(session) ==
  /\ bSession' = session /\ bStored' = session
  /\ bForm' = [bForm EXCEPT !.call = "none", !.pending = NoSession]

\* What the API says of the second factor.  Only the issuer knows the token; any
\* server, the issuer when it is an older one included, may lack the endpoint.
StatusAnswers(session) ==
  {"404", "error"} \cup
  IF getApiBase # session.issuer THEN {}
  ELSE IF session.account = "totp" THEN {"enabled"} ELSE {"disabled"}

\* Mutant: apiFetch passes the HTTP status on, and a missing endpoint counts as no
\* second factor.
TOTPStatus_Lets404(answer) ==
  /\ Screen = "login" /\ bForm.call = "status" /\ answer \in StatusAnswers(bForm.result)
  /\ CASE answer = "enabled" -> OnForm([bForm EXCEPT !.call = "none", !.pending = bForm.result])
       [] answer = "error" -> OnForm([bForm EXCEPT !.call = "none"])
       [] OTHER -> SignIn(bForm.result) /\ UNCHANGED <<routeVars, bVerified, inviteVars, splashVars>>

\* The form would let a 404 through, but the Error that apiFetch throws carries no
\* status: every failure keeps the user out.
TOTPStatus(answer) ==
  /\ Screen = "login" /\ bForm.call = "status" /\ answer \in StatusAnswers(bForm.result)
  /\ CASE answer = "enabled" -> OnForm([bForm EXCEPT !.call = "none", !.pending = bForm.result])
       [] answer = "disabled" -> SignIn(bForm.result) /\ UNCHANGED <<routeVars, bVerified, inviteVars, splashVars>>
       [] OTHER -> OnForm([bForm EXCEPT !.call = "none"])

\* registerUser answered: the account is created at the API's server, with the invite
\* when the field still holds it, and the token is dropped.
Registered ==
  /\ Screen = "login" /\ bForm.call = "register"
  /\ SignIn(Session("plain", getApiBase, getHomeserverUrl))
  /\ bJoined' = (bJoined \/ bForm.invite)
  /\ bInvite' = FALSE
  /\ UNCHANGED <<routeVars, bVerified, bHandled, bRedeeming, splashVars>>

handleTOTPVerify ==
  /\ Idle /\ bForm.pending # NoSession
  /\ OnForm([bForm EXCEPT !.call = "verify"])

\* Back to login: the pending login is forgotten, a verification under way is not.
BackToLogin ==
  /\ Screen = "login" /\ bForm.pending # NoSession
  /\ OnForm([bForm EXCEPT !.pending = NoSession])

TOTPVerified ==
  /\ Screen = "login" /\ bForm.call = "verify"
  /\ SignIn(bForm.result)
  /\ bVerified' = TRUE
  /\ UNCHANGED <<routeVars, inviteVars, splashVars>>

SignOut ==
  /\ LoggedIn /\ Screen = "chat"
  /\ bSession' = NoSession /\ bStored' = NoSession /\ bVerified' = FALSE
  /\ bLoaded' = IF bNative THEN bLoaded ELSE FALSE
  /\ UNCHANGED <<bNative, bLaunches, bMounted, bDocker, bConfig, bConnected, bLoading,
                 inviteVars, splashVars>>
  /\ Remount(bInvite)

-----------------------------------------------------------------------------
(***************************************************************************)
(* The pending invite of a user who is logged in.                          *)
(***************************************************************************)

redeemInvite ==
  /\ bMounted /\ LoggedIn /\ ~bHandled /\ bInvite
  /\ bHandled' = TRUE /\ bRedeeming' = TRUE
  /\ UNCHANGED <<routeVars, signVars, bInvite, bJoined, splashVars>>

\* Mutant: the token is dropped whatever the answer.
Redeemed_Drops(accepted) ==
  /\ bRedeeming
  /\ bRedeeming' = FALSE /\ bInvite' = FALSE
  /\ bJoined' = (bJoined \/ accepted)
  /\ UNCHANGED <<routeVars, signVars, bHandled, splashVars>>

\* The token is dropped only once it was redeemed.
Redeemed(accepted) ==
  /\ bRedeeming
  /\ bRedeeming' = FALSE
  /\ bInvite' = (bInvite /\ ~accepted)
  /\ bJoined' = (bJoined \/ accepted)
  /\ UNCHANGED <<routeVars, signVars, bHandled, splashVars>>

-----------------------------------------------------------------------------
(***************************************************************************)
(* The splash.                                                             *)
(***************************************************************************)

\* The chat's first loads have settled, whatever their outcome.
ServersLoaded ==
  /\ Screen = "chat" /\ LoggedIn /\ ~bLoaded
  /\ bLoaded' = TRUE
  /\ UNCHANGED <<bNative, bLaunches, bMounted, bDocker, bConfig, bConnected, bLoading,
                 signVars, inviteVars, splashVars>>

\* A terminal screen has painted; the chat waits for its loads.
MarkReady ==
  /\ ~bReady
  /\ Screen \in {"docker", "picker", "login"} \/ (Screen = "chat" /\ bLoaded)
  /\ bReady' = TRUE
  /\ UNCHANGED <<routeVars, signVars, inviteVars, bSplash, bMin, bMax>>

Floor ==
  /\ ~bMin /\ bMin' = TRUE
  /\ UNCHANGED <<routeVars, signVars, inviteVars, bReady, bSplash, bMax>>

\* Mutant: the ceiling does not apply before the floor and the loads.
Ceiling_Gated ==
  /\ bMin /\ bReady /\ ~bMax /\ bMax' = TRUE
  /\ UNCHANGED <<routeVars, signVars, inviteVars, bReady, bSplash, bMin>>

\* The ceiling is timed from the same moment as the floor and comes later.
Ceiling ==
  /\ bMin /\ ~bMax /\ bMax' = TRUE
  /\ UNCHANGED <<routeVars, signVars, inviteVars, bReady, bSplash, bMin>>

Handoff ==
  /\ bSplash = "showing"
  /\ bMax \/ (~bLoading /\ bReady /\ bMin)
  /\ bSplash' = "fading"
  /\ UNCHANGED <<routeVars, signVars, inviteVars, bReady, bMin, bMax>>

Faded ==
  /\ bSplash = "fading" /\ bSplash' = "done"
  /\ UNCHANGED <<routeVars, signVars, inviteVars, bReady, bMin, bMax>>

SplashSteps == MarkReady \/ Floor \/ Ceiling \/ Handoff \/ Faded

BootNext ==
  \/ Reload \/ restoreSession \/ \E firstBoot \in BOOLEAN : InstanceInfo(firstBoot)
  \/ \E choice \in {"join", "done"} : DockerFirstBootScreen(choice)
  \/ \E server \in Servers : onConnected(server)
  \/ \E firstBoot, open \in BOOLEAN : FormInfo(firstBoot, open)
  \/ \E valid \in BOOLEAN : InviteValidated(valid)
  \/ ClearInvite \/ \E mode \in {"login", "register"} : SetMode(mode)
  \/ handleSubmit \/ \E call \in {"password", "register", "verify"} : Refused(call)
  \/ \E account \in Accounts : PasswordAccepted(account)
  \/ \E answer \in {"enabled", "disabled", "404", "error"} : TOTPStatus(answer)
  \/ Registered \/ handleTOTPVerify \/ BackToLogin \/ TOTPVerified \/ SignOut
  \/ redeemInvite \/ \E accepted \in BOOLEAN : Redeemed(accepted)
  \/ ServersLoaded \/ SplashSteps

\* Timers fire and painted frames run.
BootFairness == WF_bootVars(SplashSteps)

-----------------------------------------------------------------------------

BootTypeOK ==
  /\ {bNative, bMounted, bConnected, bLoading, bVerified, bInvite, bHandled, bRedeeming, bJoined,
      bLoaded, bReady, bMin, bMax} \subseteq BOOLEAN
  /\ bLaunches \in 0..MaxLaunches
  /\ bDocker \in {"checking", "pending", "join", "done"} /\ bConfig \in Servers \cup {"none"}
  /\ {bSession, bStored, bForm.result, bForm.pending} \subseteq Sessions \cup {NoSession}
  /\ bForm.mode \in {"login", "register"} /\ bForm.call \in Calls
  /\ bSplash \in {"showing", "fading", "done"}

\* Nobody is signed in to an account with a second factor before a code was
\* accepted, whichever of the calls fails or comes late.
SecondFactor == bSession.account = "totp" => bVerified

\* An invite link survives failures, reloads and logouts until it has been used or
\* the form has said that it does not hold.
InviteKept == [][bInvite /\ ~bInvite' => bJoined']_bootVars

\* The splash goes in the end, on a build with no server and no account too.
SplashEnds == (bSplash = "showing") ~> (bSplash # "showing")
=============================================================================
