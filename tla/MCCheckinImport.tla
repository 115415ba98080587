-------------------------- MODULE MCCheckinImport --------------------------
(* Instances of CheckinImport: three days, two punches on day 0 and one on *)
(* each of the days 1 and 2, so that an import can find none, some or all  *)
(* of its rows already stored.                                             *)
EXTENDS CheckinImport, TLC

CONSTANTS p1, p2, p3

MCPunches == {p1, p2, p3}
MCDayOf == (p1 :> 0) @@ (p2 :> 0) @@ (p3 :> 1)
=============================================================================
