----------------------------- MODULE MCChannels -----------------------------
(* A small instance of Channels for TLC. *)
EXTENDS Channels, TLC

Interchangeable == Permutations(Requests)
=============================================================================
