------------------------- MODULE MCConnectionLogin -------------------------
(* Instances of ConnectionLogin: every configuration, with up to three     *)
(* retries and two reroutes, so that an attempt can follow each kind of    *)
(* end of an earlier one.  A token that is late needs Active Directory.    *)
EXTENDS ConnectionLogin

MCConfigs == {c \in Config : c.lateToken => c.auth = "fedauth"}
=============================================================================
