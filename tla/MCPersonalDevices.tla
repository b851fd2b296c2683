--------------------------- MODULE MCPersonalDevices ---------------------------
(* Small instances of PersonalDevices for TLC. *)
EXTENDS PersonalDevices, TLC

\* All devices can reach each other.
AllPairs == {p \in Device \X Device : p[1] # p[2]}

\* Every device was installed before schema v6 and never used.
AllLegacy == [d \in Device |-> {ChannelKey(DefaultChannel)}]
=============================================================================
