--------------------------- MODULE MCClientPanels ---------------------------
(***************************************************************************)
(* Every panel of the client, one per behaviour.                           *)
(***************************************************************************)
EXTENDS ClientPanels

MCPanel == ClientPanelSet

\* One subject starts with an empty collection, the others with an entry.
MCInit ==
  /\ PanelInit
  /\ \E s \in Subject :
       remote = [t \in Subject |-> IF t = s THEN {} ELSE {CHOOSE i \in Item : TRUE}]

Spec == MCInit /\ [][PanelNext]_panelVars /\ PanelFairness
=============================================================================
