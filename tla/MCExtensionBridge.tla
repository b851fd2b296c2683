------------------------- MODULE MCExtensionBridge --------------------------
(* A small instance of ExtensionBridge for TLC. *)
EXTENDS ExtensionBridge, TLC

\* Two channels of two extensions, one that may only read, and a text channel.
MCAppOf == ("board" :> "draw") @@ ("chess" :> "game") @@ ("chat" :> NoApp)
MCPermission == ("draw" :> {"state_events"}) @@ ("game" :> {"matrix.read"})
=============================================================================
