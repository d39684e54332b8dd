----------------------------- MODULE MCPeerBook -----------------------------
(***************************************************************************)
(* Instances of PeerBook for TLC.                                          *)
(***************************************************************************)
EXTENDS PeerBook, TLC

Symm == Permutations(Peers) \cup Permutations(Books)
=============================================================================
