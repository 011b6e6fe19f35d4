---------------------------- MODULE MCDhcpExchange ----------------------------
(* Instance of DhcpExchange for TLC: two pools, one of them too small for the *)
(* machines.                                                                  *)
EXTENDS DhcpExchange

TwoPools == {1..1, 2..3}
================================================================================
