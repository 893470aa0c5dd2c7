---------------------------- MODULE MCClientCache ----------------------------
(* Instances of ClientCache for TLC.                                       *)
EXTENDS ClientCache, TLC

CONSTANTS c1, c2, c3, lightsail, cloudflare, r1
=============================================================================
