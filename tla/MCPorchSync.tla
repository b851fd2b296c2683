----------------------------- MODULE MCPorchSync -----------------------------
(* Small instances of PorchSync for TLC. *)
EXTENDS PorchSync, TLC

\* All devices can reach each other.
AllPairs == {p \in Device \X Device : p[1] # p[2]}

\* Every device was installed before schema v6 and never used.
AllLegacy == [d \in Device |-> {ChannelKey(DefaultChannel)}]

\* Device 1 was installed before schema v6 and never used, device 2 is a fresh install.
MixedLegacy == [d \in Device |-> IF d = 1 THEN {ChannelKey(DefaultChannel)} ELSE {}]

\* The ids of new channels are interchangeable.
NewChannels == Permutations(Channel \ {DefaultChannel})

\* So are the names of the rounds.
Rounds == Permutations(Slot)
=============================================================================
