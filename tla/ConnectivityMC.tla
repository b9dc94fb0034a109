--------------------------- MODULE ConnectivityMC ---------------------------
(***************************************************************************)
(* Instances of Connectivity for TLC.                                      *)
(***************************************************************************)
EXTENDS Connectivity

HomeNetwork == [ssid |-> "home", password |-> "secret"]

OpenNetwork == [ssid |-> "home", password |-> ""]

OpenFile == {OpenNetwork}

AnyFile == Credentials \cup {None}

=============================================================================
