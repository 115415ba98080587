----------------------------- MODULE MCDialing -----------------------------
(* Instances of Dialing: every way to dial, every set of reachable         *)
(* addresses, with three addresses, so that a socket can be neither the    *)
(* first nor the last.                                                     *)
EXTENDS Dialing
=============================================================================
