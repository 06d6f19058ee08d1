----------------------------- MODULE MCVpnIdle -----------------------------
(* A small instance of VpnIdle for TLC: a VPN that times out after a       *)
(* minute, and what an operator can turn it into.                          *)
EXTENDS VpnIdle

CONSTANT c1

MCConfigs == {[container |-> c1, timeout |-> 1, buildable |-> TRUE],
              [container |-> NoName, timeout |-> 1, buildable |-> TRUE],
              [container |-> c1, timeout |-> 0, buildable |-> FALSE]}
=============================================================================
