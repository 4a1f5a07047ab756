------------------------------ MODULE MCSessions ------------------------------
(* Small values for the constants of ReliableCommands and UpxReplay.  The  *)
(* two share no state in the server, and a behaviour has the one kind of   *)
(* traffic or the other.                                                   *)
EXTENDS ReliableCommands, UpxReplay, TLC

VARIABLE traffic

TrafficInit ==
  /\ CommandInit /\ UpxInit
  /\ traffic \in {"commands", "snapshots"}

TrafficNext ==
  /\ \/ traffic = "commands" /\ CommandNext /\ UNCHANGED upxVars
     \/ traffic = "snapshots" /\ UpxNext /\ UNCHANGED commandVars
  /\ UNCHANGED traffic

TrafficSpec == TrafficInit /\ [][TrafficNext]_<<commandVars, upxVars, traffic>>

TwoCommands == {1, 2}
ClientSymmetry == Permutations(Sessions)
=============================================================================
