---------------------------- MODULE MCNginxAgent ----------------------------
(* Instances of NginxAgent for TLC. *)
EXTENDS NginxAgent
CONSTANTS h1, h2, s1, s2, sBad
=============================================================================
