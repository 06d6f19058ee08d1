------------------------------ MODULE VpnIdle ------------------------------
(***************************************************************************)
(* The idle tracker of the VPNs (vpnidle.go), with everything that tells   *)
(* it of a use, the sweep that stops what nobody uses, and the containers  *)
(* that both the sweep and the handlers bring up and down.                 *)
(*                                                                         *)
(* A clock is kept as the minutes since: lastUsed[v] is now - lastUsed.    *)
(* It saturates at Cap, beyond which no comparison of the code can tell    *)
(* two values apart.  The sweep compares with the time of its tick, which  *)
(* may be some minutes ago (lag), for docker is slow and the ticker's      *)
(* channel keeps one tick.                                                 *)
(*                                                                         *)
(* A handler that calls docker is split at each call and at each write of  *)
(* the VPN file, since the next request need not wait for it.              *)
(***************************************************************************)
EXTENDS Naturals, FiniteSets

CONSTANTS VpnIds, ContainerNames,
          Configs,      \* what an operator can save for a VPN
          Sessions,     \* terminals that can be open at once
          Handlers,     \* requests on VPNs under way at once
          MaxTimeout,   \* the longest idle timeout in use, in minutes
          MaxLag,       \* bound: minutes a tick can wait and a sweep can last
          NoVpn, NoName, NoClock, NoTick, NoSweep, NoRequest, NoList

(* buildable: the command is not blank and runs detached.                  *)
Config == [container : ContainerNames \cup {NoName}, timeout : 0..MaxTimeout,
           buildable : BOOLEAN]

ASSUME VpnIdleAssumption ==
  /\ MaxTimeout \in Nat /\ MaxLag \in Nat
  /\ Configs \subseteq Config
  /\ IsFiniteSet(Sessions)
  /\ NoVpn \notin VpnIds \cup Configs /\ NoName \notin ContainerNames
  /\ NoClock \notin Nat /\ NoTick \notin Nat

Cap     == MaxTimeout + MaxLag
Minutes == 0..Cap
List    == [VpnIds -> Configs \cup {NoVpn}]

VARIABLES
  vpns,        \* the stored VPNs
  issued,      \* the ids drawn so far
  containers,  \* docker's
  lastUsed, active,   \* the tracker's maps
  shells,      \* the VPN each terminal holds
  requests,    \* of each handler: what it does, the list it read, what is next
  tick,        \* the tick that waits in the ticker's channel, by its age
  sweep,       \* the VPNs still to look at, the age of the tick, the VPN whose
               \* container is to be stopped and how far that is
  sealed,
  quiet        \* history: minutes since the VPN was used, a stop of it was
               \* attempted, or the server started, whichever is last

tracker == <<lastUsed, active, shells, quiet>>
store   == <<vpns, issued>>
vars    == <<store, containers, tracker, requests, tick, sweep, sealed>>

Request ==
  [kind : {"start", "stop", "save", "delete"}, vpn : VpnIds,
   conf : Configs \cup {NoVpn}, seen : List \cup {NoList},
   next : {"save", "touch", "look", "rm", "run", "start", "stop"}]
Sweep ==
  [todo : List, lag : 0..MaxLag, on : VpnIds \cup {NoVpn},
   next : {"idle", "status", "stop", "touch"}]

TypeOK ==
  /\ vpns \in List
  /\ issued \subseteq VpnIds
  /\ containers \in [ContainerNames -> {"missing", "exited", "running"}]
  /\ lastUsed \in [VpnIds -> Minutes \cup {NoClock}]
  /\ active \in [VpnIds -> Nat]
  /\ shells \in [Sessions -> VpnIds \cup {NoVpn}]
  /\ requests \in [Handlers -> Request \cup {NoRequest}]
  /\ tick \in 0..MaxLag \cup {NoTick}
  /\ sweep \in Sweep \cup {NoSweep}
  /\ sealed \in BOOLEAN
  /\ quiet \in [VpnIds -> Minutes]

NoVpns == [v \in VpnIds |-> NoVpn]

Init ==
  /\ vpns \in List /\ issued = {v \in VpnIds : vpns[v] # NoVpn}
  /\ containers \in [ContainerNames -> {"missing", "exited", "running"}]
  /\ lastUsed = [v \in VpnIds |-> NoClock]
  /\ active = [v \in VpnIds |-> 0]
  /\ shells = [s \in Sessions |-> NoVpn]
  /\ requests = [h \in Handlers |-> NoRequest]
  /\ tick = NoTick /\ sweep = NoSweep
  /\ sealed = TRUE
  /\ quiet = [v \in VpnIds |-> 0]

----------------------------------------------------------------------------
(* The tracker. *)

Touch(v) ==
  /\ lastUsed' = [lastUsed EXCEPT ![v] = 0]
  /\ quiet' = [quiet EXCEPT ![v] = 0]

NoTouch == UNCHANGED <<lastUsed, quiet>>

Hold(v) == Touch(v) /\ active' = [active EXCEPT ![v] = @ + 1]

(* Mutant: the first close forgets all holds.                              *)
ReleaseAll(v) == Touch(v) /\ active' = [active EXCEPT ![v] = 0]

Release(v) == Touch(v) /\ active' = [active EXCEPT ![v] = @ - 1]

(* Mutant: a shell keeps the VPN up only while something is typed.         *)
inUseWhenTyping(v) == FALSE

inUse(v) == active[v] > 0

(* idleFor and idleVpnDue: idle for the timeout at the time of the tick.   *)
due(v, conf, lag) ==
  /\ conf.timeout > 0 /\ conf.container # NoName
  /\ lastUsed[v] # NoClock /\ lastUsed[v] >= lag + conf.timeout

----------------------------------------------------------------------------
(* Terminals, and commands on hosts behind a VPN.  A host can name a VPN   *)
(* that is gone.                                                           *)

elsewhere == <<store, containers, requests, tick, sweep, sealed>>

OpenTerminal(s, v) ==
  /\ ~sealed /\ shells[s] = NoVpn
  /\ Hold(v)
  /\ shells' = [shells EXCEPT ![s] = v]
  /\ UNCHANGED elsewhere

(* The dial fails, the shell ends, or the socket closes.                   *)
CloseTerminal(s) ==
  /\ shells[s] # NoVpn
  /\ Release(shells[s])
  /\ shells' = [shells EXCEPT ![s] = NoVpn]
  /\ UNCHANGED elsewhere

SshExec(v) ==
  ~sealed /\ Touch(v) /\ UNCHANGED <<active, shells, elsewhere>>

DiscoverServices(v) ==
  ~sealed /\ Touch(v) /\ UNCHANGED <<active, shells, elsewhere>>

(* docker/ping and docker/nc *)
Probe(v) ==
  /\ ~sealed /\ vpns[v] # NoVpn
  /\ Touch(v) /\ UNCHANGED <<active, shells, elsewhere>>

----------------------------------------------------------------------------
(* Requests on VPNs. *)

Begin(h, request) ==
  /\ ~sealed /\ requests[h] = NoRequest
  /\ requests' = [requests EXCEPT ![h] = request]

Goto(h, next) == requests' = [requests EXCEPT ![h].next = next]
Done(h)       == requests' = [requests EXCEPT ![h] = NoRequest]

at(h, next) == requests[h] # NoRequest /\ requests[h].next = next

outside == <<active, shells, tick, sweep, sealed>>

CreateVpn(h, v, conf) ==
  /\ v \notin issued
  /\ Begin(h, [kind |-> "save", vpn |-> v, conf |-> conf, seen |-> vpns,
               next |-> "save"])
  /\ issued' = issued \cup {v}
  /\ NoTouch /\ UNCHANGED <<vpns, containers, outside>>

UpdateVpn(h, v, conf) ==
  /\ vpns[v] # NoVpn
  /\ Begin(h, [kind |-> "save", vpn |-> v, conf |-> conf, seen |-> vpns,
               next |-> "save"])
  /\ NoTouch /\ UNCHANGED <<store, containers, outside>>

(* The list without v is saved even when v was not in it.                  *)
DeleteVpn(h, v) ==
  /\ Begin(h, [kind |-> "delete", vpn |-> v, conf |-> vpns[v], seen |-> vpns,
       next |-> IF vpns[v] # NoVpn /\ vpns[v].container # NoName THEN "rm"
                ELSE "save"])
  /\ NoTouch /\ UNCHANGED <<store, containers, outside>>

StartVpn(h, v) ==
  /\ vpns[v] # NoVpn
  /\ Begin(h, IF vpns[v].container = NoName THEN NoRequest
              ELSE [kind |-> "start", vpn |-> v, conf |-> vpns[v],
                    seen |-> NoList, next |-> "look"])
  /\ Touch(v) /\ UNCHANGED <<store, containers, outside>>

StopVpn(h, v) ==
  /\ vpns[v] # NoVpn /\ vpns[v].container # NoName
  /\ Begin(h, [kind |-> "stop", vpn |-> v, conf |-> vpns[v], seen |-> NoList,
               next |-> "stop"])
  /\ NoTouch /\ UNCHANGED <<store, containers, outside>>

Save(h) ==
  /\ at(h, "save")
  /\ LET r == requests[h]
     IN  IF r.kind = "delete"
           THEN vpns' = [r.seen EXCEPT ![r.vpn] = NoVpn] /\ Done(h)
           ELSE /\ vpns' = [r.seen EXCEPT ![r.vpn] = r.conf]
                /\ requests' = [requests EXCEPT ![h].seen = NoList,
                                                ![h].next = "touch"]
  /\ NoTouch /\ UNCHANGED <<issued, containers, outside>>

(* The write fails before or after it has truncated the file.              *)
SaveFails(h) ==
  /\ at(h, "save")
  /\ vpns' \in {vpns, NoVpns}
  /\ Done(h)
  /\ NoTouch /\ UNCHANGED <<issued, containers, outside>>

(* "Saving (re)builds and starts the container, which is a use."           *)
TouchSaved(h) ==
  /\ at(h, "touch")
  /\ Touch(requests[h].vpn)
  /\ LET conf == requests[h].conf
     IN  IF conf.buildable /\ conf.container # NoName THEN Goto(h, "rm")
         ELSE Done(h)
  /\ UNCHANGED <<store, containers, outside>>

becomes(h, states) ==
  \E s \in states : containers' = [containers EXCEPT ![requests[h].conf.container] = s]

theContainer(h) == containers[requests[h].conf.container]

DockerLook(h) ==
  /\ at(h, "look")
  /\ \/ Done(h)                       \* docker fails
     \/ theContainer(h) # "missing" /\ Goto(h, "start")
     \/ /\ theContainer(h) = "missing"
        /\ IF requests[h].conf.buildable THEN Goto(h, "rm") ELSE Done(h)
  /\ NoTouch /\ UNCHANGED <<store, containers, outside>>

(* The outcome of rm -f is not looked at.                                  *)
DockerRemove(h) ==
  /\ at(h, "rm")
  /\ becomes(h, {"missing", theContainer(h)})
  /\ Goto(h, IF requests[h].kind = "delete" THEN "save" ELSE "run")
  /\ NoTouch /\ UNCHANGED <<store, outside>>

(* It comes up, ends at once, or is not built; a name that is taken again  *)
(* is refused.                                                             *)
DockerRun(h) ==
  /\ at(h, "run")
  /\ becomes(h, IF theContainer(h) = "missing" THEN {"running", "exited", "missing"}
                ELSE {theContainer(h)})
  /\ Done(h)
  /\ NoTouch /\ UNCHANGED <<store, outside>>

DockerStart(h) ==
  /\ at(h, "start")
  /\ becomes(h, IF theContainer(h) = "missing" THEN {"missing"}
                ELSE {"running", theContainer(h)})
  /\ Done(h)
  /\ NoTouch /\ UNCHANGED <<store, outside>>

DockerStop(h) ==
  /\ at(h, "stop")
  /\ becomes(h, {theContainer(h)}
                  \cup IF theContainer(h) = "running" THEN {"exited"} ELSE {})
  /\ Done(h)
  /\ NoTouch /\ UNCHANGED <<store, outside>>

----------------------------------------------------------------------------
(* The sweep. *)

SweepBegins ==
  /\ tick # NoTick /\ sweep = NoSweep /\ ~sealed
  /\ sweep' = IF vpns = NoVpns THEN NoSweep
              ELSE [todo |-> vpns, lag |-> tick, on |-> NoVpn, next |-> "idle"]
  /\ tick' = NoTick
  /\ UNCHANGED <<store, containers, tracker, requests, sealed>>

(* Sealed, or the VPNs cannot be read.                                     *)
SweepSkipped ==
  /\ tick # NoTick /\ sweep = NoSweep
  /\ tick' = NoTick
  /\ UNCHANGED <<store, containers, tracker, requests, sweep, sealed>>

at_sweep(next) == sweep # NoSweep /\ sweep.next = next

(* The loop goes on to the next VPN.                                       *)
Continue(v) ==
  LET todo == [sweep.todo EXCEPT ![v] = NoVpn]
  IN  sweep' = IF todo = NoVpns THEN NoSweep
               ELSE [sweep EXCEPT !.todo = todo, !.on = NoVpn, !.next = "idle"]

considers(v) == at_sweep("idle") /\ sweep.todo[v] # NoVpn

aside == <<store, active, shells, requests, tick, sealed>>

(* Mutant: the clock of a VPN never seen before is not started.            *)
FirstSightForgotten(v) ==
  /\ considers(v) /\ ~inUse(v) /\ lastUsed[v] = NoClock
  /\ Continue(v)
  /\ NoTouch /\ UNCHANGED <<containers, aside>>

FirstSight(v) ==
  /\ considers(v) /\ ~inUse(v) /\ lastUsed[v] = NoClock
  /\ lastUsed' = [lastUsed EXCEPT ![v] = sweep.lag]
  /\ Continue(v)
  /\ UNCHANGED <<quiet, containers, aside>>

Pass(v) ==
  /\ considers(v)
  /\ inUse(v) \/ (lastUsed[v] # NoClock /\ ~due(v, sweep.todo[v], sweep.lag))
  /\ Continue(v)
  /\ NoTouch /\ UNCHANGED <<containers, aside>>

Due(v) ==
  /\ considers(v) /\ ~inUse(v) /\ due(v, sweep.todo[v], sweep.lag)
  /\ sweep' = [sweep EXCEPT !.on = v, !.next = "status"]
  /\ NoTouch /\ UNCHANGED <<containers, aside>>

its == sweep.todo[sweep.on].container

FindsRunning ==
  /\ at_sweep("status") /\ containers[its] = "running"
  /\ sweep' = [sweep EXCEPT !.next = "stop"]
  /\ NoTouch /\ UNCHANGED <<containers, aside>>

(* It does not run, or docker fails.                                       *)
FindsNothing ==
  /\ at_sweep("status")
  /\ Continue(sweep.on)
  /\ NoTouch /\ UNCHANGED <<containers, aside>>

SweepStops ==
  /\ at_sweep("stop")
  /\ \/ UNCHANGED containers
     \/ /\ containers[its] = "running"
        /\ containers' = [containers EXCEPT ![its] = "exited"]
  /\ sweep' = [sweep EXCEPT !.next = "touch"]
  /\ NoTouch /\ UNCHANGED aside

SweepTouches ==
  /\ at_sweep("touch")
  /\ Touch(sweep.on)
  /\ Continue(sweep.on)
  /\ UNCHANGED <<containers, aside>>

----------------------------------------------------------------------------
(* Around the server. *)

older(m) == IF m = Cap THEN m ELSE m + 1

Minute ==
  /\ tick # NoTick => tick < MaxLag
  /\ sweep # NoSweep => sweep.lag < MaxLag
  /\ lastUsed' = [v \in VpnIds |->
       IF lastUsed[v] = NoClock THEN NoClock ELSE older(lastUsed[v])]
  /\ quiet' = [v \in VpnIds |-> older(quiet[v])]
  /\ tick' = IF tick = NoTick THEN 0 ELSE tick + 1
  /\ sweep' = IF sweep = NoSweep THEN NoSweep ELSE [sweep EXCEPT !.lag = @ + 1]
  /\ UNCHANGED <<store, containers, active, shells, requests, sealed>>

Unseal == sealed /\ sealed' = FALSE
            /\ UNCHANGED <<store, containers, tracker, requests, tick, sweep>>

Restart ==
  /\ lastUsed' = [v \in VpnIds |-> NoClock]
  /\ active' = [v \in VpnIds |-> 0]
  /\ shells' = [s \in Sessions |-> NoVpn]
  /\ requests' = [h \in Handlers |-> NoRequest]
  /\ tick' = NoTick /\ sweep' = NoSweep
  /\ sealed' = TRUE
  /\ quiet' = [v \in VpnIds |-> 0]
  /\ UNCHANGED <<store, containers>>

(* A container ends by itself; a stopped one is pruned.                    *)
Exits(c) ==
  /\ containers[c] = "running"
  /\ containers' = [containers EXCEPT ![c] = "exited"]
  /\ UNCHANGED <<store, tracker, requests, tick, sweep, sealed>>

Pruned(c) ==
  /\ containers[c] = "exited"
  /\ containers' = [containers EXCEPT ![c] = "missing"]
  /\ UNCHANGED <<store, tracker, requests, tick, sweep, sealed>>

----------------------------------------------------------------------------
Use ==
  \/ \E s \in Sessions : CloseTerminal(s) \/ \E v \in VpnIds : OpenTerminal(s, v)
  \/ \E v \in VpnIds : SshExec(v) \/ DiscoverServices(v) \/ Probe(v)

Handle(h) ==
  \/ \E v \in VpnIds :
       \/ DeleteVpn(h, v) \/ StartVpn(h, v) \/ StopVpn(h, v)
       \/ \E conf \in Configs : CreateVpn(h, v, conf) \/ UpdateVpn(h, v, conf)
  \/ Save(h) \/ SaveFails(h) \/ TouchSaved(h)
  \/ DockerLook(h) \/ DockerRemove(h) \/ DockerRun(h) \/ DockerStart(h) \/ DockerStop(h)

Consider == \E v \in VpnIds : FirstSight(v) \/ Pass(v) \/ Due(v)

Environment ==
  \/ Minute \/ Unseal \/ Restart
  \/ \E c \in ContainerNames : Exits(c) \/ Pruned(c)

Next ==
  \/ Use
  \/ \E h \in Handlers : Handle(h)
  \/ SweepBegins \/ SweepSkipped \/ Consider
  \/ FindsRunning \/ FindsNothing \/ SweepStops \/ SweepTouches
  \/ Environment

Spec == Init /\ [][Next]_vars

(* Time passes and the goroutine of the sweep runs.  Reading the VPNs and  *)
(* asking docker fail now and then, not for ever.                          *)
Fairness ==
  /\ WF_vars(Minute) /\ SF_vars(SweepBegins) /\ WF_vars(Consider)
  /\ SF_vars(FindsRunning) /\ WF_vars(FindsNothing)
  /\ WF_vars(SweepStops) /\ WF_vars(SweepTouches)

FairSpec == Spec /\ Fairness

----------------------------------------------------------------------------
(* Properties. *)

holders(v) == {s \in Sessions : shells[s] = v}

(* The tracker counts exactly the terminals that are open: closing one     *)
(* releases what it held, whatever else opened or closed meanwhile.        *)
HoldsAreShells == \A v \in VpnIds : active[v] = Cardinality(holders(v))

(* No idle clock runs ahead: a VPN never counts as idle for longer than    *)
(* since its last use, the last attempt to stop it, or the server's start, *)
(* late ticks and forgotten clocks included.                               *)
ClockBehindUse ==
  \A v \in VpnIds : lastUsed[v] # NoClock => lastUsed[v] <= quiet[v]

(* The sweep decides to stop a VPN only if, when its tick came, it had not *)
(* been used for its whole timeout, and no terminal through it is open:    *)
(* not even at the first sweeps after a restart, nor again right after a   *)
(* stop that failed.                                                       *)
DecidesOnlyIdle ==
  [][\A v \in VpnIds :
       sweep' # NoSweep /\ sweep'.on = v /\ (sweep = NoSweep \/ sweep.on # v) =>
         /\ quiet[v] >= sweep.lag + sweep.todo[v].timeout
         /\ holders(v) = {}]_vars

wasted(v) ==
  /\ ~sealed /\ vpns[v] # NoVpn
  /\ vpns[v].timeout > 0 /\ vpns[v].container # NoName
  /\ containers[vpns[v].container] = "running"
  /\ quiet[v] >= vpns[v].timeout /\ holders(v) = {}

(* A running VPN that nobody uses past its timeout does not run on for     *)
(* ever: it is used, goes down, or a stop of it is attempted.              *)
IdleVpnStops == \A v \in VpnIds : []<>~wasted(v)
=============================================================================
