------------------------ MODULE MCConnectionRequest ------------------------
(* Two requests, so that a leftover of the first can disturb the second, and *)
(* two rows: the values are in the configuration.                            *)
EXTENDS ConnectionRequest
=============================================================================
