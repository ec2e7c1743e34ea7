----------------------- MODULE MCEnduranceGamingPolicy -----------------------
(* Instances of the policy for TLC. *)
EXTENDS EnduranceGamingPolicy
=============================================================================
