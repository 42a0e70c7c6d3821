---------------------------- MODULE MCClientList ----------------------------
(* Instances of ClientList for TLC: three nodes and three clients, so that  *)
(* the first, a middle and the last node are removed, and memory is used   *)
(* again.                                                                  *)
EXTENDS ClientList

CONSTANTS n1, n2, n3, c1, c2, c3

ThreeNodes == {n1, n2, n3}
ThreeClients == {c1, c2, c3}
OneClient == {c1}
=============================================================================
