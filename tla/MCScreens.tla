------------------------------ MODULE MCScreens ------------------------------
(***************************************************************************)
(* Small instances of the modules of the browser for TLC.  The screens     *)
(* share nothing but the server, so a behaviour follows one of them and    *)
(* leaves the rest as it found it.                                         *)
(***************************************************************************)
EXTENDS SealScreens, ResourceForms, BrowserSession, ProjectTransfer

CONSTANTS proj, vpnA, vpnB, host1, service1, credential1, profileA,   \* ResourceForms
          ann, ben,                                                \* BrowserSession
          c1, v1, h1, s1                                           \* ProjectTransfer

VARIABLE screen

screenVars == <<screen, sealVars, formVars, sessionVars, transferVars>>

any(S) == CHOOSE x \in S : TRUE

ScreensInit ==
  /\ screen \in {"seal", "forms", "session", "transfer"}
  /\ SealScreensInit /\ FormsInit /\ SessionInit /\ TransferInit
  /\ screen # "forms" => plan = any(Plans)
  /\ screen # "session" => accounts = any(Roster)
  /\ screen # "transfer" => alive = {} /\ current = Home /\ extent = any(Extents)

ScreensNext ==
  /\ UNCHANGED screen
  /\ \/ screen = "seal" /\ SealScreensNext
        /\ UNCHANGED <<formVars, sessionVars, transferVars>>
     \/ screen = "forms" /\ FormsNext
        /\ UNCHANGED <<sealVars, sessionVars, transferVars>>
     \/ screen = "session" /\ SessionNext
        /\ UNCHANGED <<sealVars, formVars, transferVars>>
     \/ screen = "transfer" /\ TransferNext
        /\ UNCHANGED <<sealVars, formVars, sessionVars>>

(* SealScreensFairness, while somebody is there.                           *)
here == screen = "seal"

FairScreens ==
  /\ ScreensInit /\ [][ScreensNext]_screenVars
  /\ WF_sealVars(here /\ Start /\ UNCHANGED pages)
  /\ \A t \in Tabs :
       /\ WF_sealVars(here /\ doing[t] = "nothing" /\ phase[t] # "sealed" /\ Reload(t))
       /\ SF_sealVars(here /\ StatusAnswers(t))
       /\ WF_sealVars(here /\ StatusFails(t))
  /\ SF_sealVars(here /\ Unsealing)

----------------------------------------------------------------------------
(* Constants.                                                              *)
MCSettings == {[n |-> 2, t |-> 2], [n |-> 3, t |-> 2]}

MCOld == [vpn |-> {vpnA, vpnB}, host |-> {host1}, service |-> {service1},
          credential |-> {credential1}, ipsec |-> {profileA}]
storedAs(k, i) ==
  IF i \notin MCOld[k] THEN Gone
  ELSE [f \in Fields[k] |->
          IF f = "mode" THEN "psk"
          ELSE IF f \in {"login", "keypair"} THEN Blank
          ELSE IF f = "command" THEN "ipsec"
          ELSE IF f = "project" THEN (IF i = vpnB THEN Blank ELSE proj)
          ELSE Kept]
MCStored == [k \in Kinds |-> [i \in Ids[k] |-> storedAs(k, i)]]
MCBindings == [v \in Ids["vpn"] |-> IF v = vpnA THEN profileA ELSE NoProfile]
sitting(t, f, k, s, d) == [has |-> UNION {MCOld[j] : j \in Kinds}, tabs |-> t, sets |-> f,
                           keys |-> k, saves |-> s, disturbs |-> d]
createAndEdit == [has |-> {profileA}, tabs |-> {"vpn"},
                  sets |-> {"name", "profile", "command"}, keys |-> 3, saves |-> 2, disturbs |-> 0]
MCPlans == {createAndEdit,
            sitting({"vpn"}, {"profile"}, 1, 2, 0),
            sitting({"vpn"}, {"name", "command"}, 2, 1, 0),
            sitting({"host", "credential", "service"}, {"name", "password", "type"}, 2, 1, 0),
            sitting({"vpn", "ipsec"}, {"profile"}, 1, 1, 1),
            sitting({"vpn", "host"}, {"name"}, 1, 1, 1),
            sitting({"ipsec"}, {"login", "mode", "name", "psk"}, 2, 1, 0),
            sitting({"ipsec"}, {"psk"}, 1, 2, 0)}

MCRoster == {[u \in People |-> Removed], [u \in People |-> IF u = ann THEN "" ELSE "write"]}

MCKindOf == [i \in {c1, v1, h1, s1} |->
               IF i = c1 THEN "credential" ELSE IF i = v1 THEN "vpn"
               ELSE IF i = h1 THEN "host" ELSE "service"]
MCRefsOf == [i \in {c1, v1, h1, s1} |->
               IF i = c1 THEN {} ELSE IF i = v1 THEN {c1}
               ELSE IF i = h1 THEN {c1, v1} ELSE {h1}]
MCExtents ==
  {[items |-> {c1, v1, h1, s1}, reads |-> {{"credential", "host"}, {"vpn", "service"}},
    lists |-> 2, imports |-> 1, edits |-> 1],
   [items |-> {c1, h1}, reads |-> {Sorts}, lists |-> 3, imports |-> 2, edits |-> 0]}
=============================================================================
