---------------------------- MODULE MCInventory ----------------------------
(***************************************************************************)
(* A small instance of Inventory for TLC: a project of u1, one from before *)
(* there were members, and one to come; a host with a service, and a VPN   *)
(* that u1 shares into the open project and can be bound to a profile that *)
(* predates the modes and lacks what its mode needs.  Or of Metrics, for   *)
(* two hosts: the two share nothing, so a behaviour follows one of them.   *)
(***************************************************************************)
EXTENDS Inventory, Metrics

CONSTANTS u1, u2, pOwn, pOpen, pNew, host1, vpn1, svc1, cred1, cmd1, prof1, prof2

VARIABLE part

serverVars == <<part, vars, metricsVars>>

ServerInit == part \in {"files", "readings"} /\ Init /\ MetricsInit

ServerNext ==
  /\ UNCHANGED part
  /\ \/ part = "files" /\ Next /\ UNCHANGED metricsVars
     \/ part = "readings" /\ MetricsNext /\ UNCHANGED vars

ServerSpec == ServerInit /\ [][ServerNext]_serverVars

----------------------------------------------------------------------------
record(p, h, s) == [project |-> p, on |-> h, shared |-> s]
profile(p, m, w, s) == [project |-> p, mode |-> m, was |-> w, has |-> s]

MCRecords ==
  [vpn |-> {record(pOwn, NoHost, {}), record(Unassigned, NoHost, {pOwn})},
   host |-> {record(pOpen, NoHost, {})},
   service |-> {record(pOwn, host1, {})},
   credential |-> {record(pOwn, NoHost, {}), record(pNew, NoHost, {})},
   command |-> {record(Unassigned, host1, {})}]

MCNewProfiles == {profile(pOwn, "xauth", "psk", {"psk", "login"}),
                  profile(pOwn, "xauth", "psk", {"psk"})}

MCEdits == {[project |-> Absent, mode |-> "eap", set |-> {"login"}, cleared |-> {"psk"}],
            [project |-> Unassigned, mode |-> Absent, set |-> {}, cleared |-> {"login"}]}

MCStart ==
  [vpn |-> [i \in VpnIds |-> IF i = vpn1 THEN record(pOwn, NoHost, {pOpen}) ELSE Gone],
   host |-> [i \in HostIds |-> IF i = host1 THEN record(pOwn, NoHost, {}) ELSE Gone],
   service |-> [i \in ServiceIds |-> IF i = svc1 THEN record(pOpen, host1, {}) ELSE Gone],
   credential |-> [i \in CredentialIds |-> IF i = cred1 THEN record(pOwn, NoHost, {}) ELSE Gone],
   command |-> [i \in CommandIds |-> IF i = cmd1 THEN record(Unassigned, host1, {}) ELSE Gone],
   project |-> [p \in Projects |-> IF p = pOwn THEN {u1} ELSE IF p = pOpen THEN {} ELSE Gone],
   ipsec |-> [profiles |-> [i \in ProfileIds |->
                IF i = prof1 THEN profile(pOwn, Blank, "xauth", {"psk"}) ELSE Gone],
              bindings |-> [v \in VpnIds |-> IF v = vpn1 THEN prof1 ELSE Gone]]]

MCKnown == {pOwn, pOpen, host1, vpn1, svc1, cred1, cmd1, prof1}

Symmetric == {[h \in Handlers |-> IF h = a THEN b ELSE IF h = b THEN a ELSE h] :
                a \in Handlers, b \in Handlers}
=============================================================================
