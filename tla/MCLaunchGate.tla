---------------------------- MODULE MCLaunchGate ----------------------------
(* LaunchGate on small grids.  Guests are interchangeable: what one of     *)
(* them does another may do, so one order of arrival stands for all.  So   *)
(* are checkpoint hashes: one of them stands for whatever Player 1 boots   *)
(* into.                                                                   *)
EXTENDS LaunchGate

Arrival ==
    CHOOSE slot \in [Guests -> 1 .. Cardinality(Guests)] :
        \A g, h \in Guests : slot[g] = slot[h] => g = h

OrderedInit == Init /\ room.slot = Arrival

HostHash == CHOOSE h \in Hashes : TRUE

OrderedNext == Next /\ booted'[Host] \in {NoHash, HostHash}

OrderedSpec == OrderedInit /\ [][OrderedNext]_vars /\ Fairness

=============================================================================
