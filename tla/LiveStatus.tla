------------------------------ MODULE LiveStatus ------------------------------
(***************************************************************************)
(* What the canvas shows of hosts and their Docker services: three polls   *)
(* (usePingStatus, useHostMetrics, useServiceStatus), each an effect that  *)
(* is started afresh when its key changes, and the nodes that draw what    *)
(* they found.  A round does not wait for the one before: two calls about  *)
(* one host can be under way, and the later answer is what is shown.  A    *)
(* call of an effect that is over changes nothing, but for one: a host     *)
(* that a cancelled status call did not find is dropped all the same.  The *)
(* server does not find a host that is gone, nor any while it cannot read  *)
(* the file they are in.                                                   *)
(*                                                                         *)
(* A service stands for all the Docker services of its host, for they are  *)
(* asked for together; a load is the level its gauge is drawn in.          *)
(***************************************************************************)
EXTENDS Naturals, FiniteSets

CONSTANTS Machines, WithDocker, Loads,
          MaxPolls,                \* bound: calls of one poll about one host
          MaxChanges, MaxFaults,   \* bounds on what happens to the hosts, on calls
                                   \* lost and reads of the file that fail
          Watches                  \* bound: the polls that run together

ASSUME LiveAssumption ==
  /\ WithDocker \subseteq Machines /\ Watches \subseteq SUBSET {"ping", "metrics", "services"}
  /\ MaxPolls \in Nat \ {0} /\ {MaxChanges, MaxFaults} \subseteq Nat

VARIABLES
  exists, up, load, runs,          \* the hosts, as they are
  listed,                          \* data.hosts
  status, metrics, statuses,       \* what was found
  deadHosts,
  polls,                           \* calls: not there, asked, or their answer
  late,                            \* cancelled status calls that may yet drop their host
  misread,                         \* history: hosts that a status call did not find
                                   \* because their file could not be read
  watched, changes, faults         \* bounds

world    == <<exists, up, load, runs>>
found    == <<status, metrics, statuses>>
bounded  == <<watched, changes, faults>>
liveVars == <<world, listed, found, deadHosts, polls, late, misread, watched, changes, faults>>

idle == [i \in 1..MaxPolls |-> "none"]
Online(list, s) == {h \in list : s[h] = "online"}

(* Whom a round asks about, and what starts the effect afresh: the hosts   *)
(* listed, those of them online, those with Docker services.               *)
key(k, list, s) == IF k = "ping" THEN list
                   ELSE IF k = "metrics" THEN Online(list, s)
                   ELSE Online(list, s) \cap WithDocker

Ask(slots) == IF \E i \in 1..MaxPolls : slots[i] = "none"
              THEN [slots EXCEPT ![CHOOSE i \in 1..MaxPolls : slots[i] = "none"] = "asked"]
              ELSE slots
Round(k, hosts, slots) == [h \in Machines |-> IF h \in hosts /\ k \in watched
                                              THEN Ask(slots[h]) ELSE slots[h]]

(* The render after the hosts listed or the ping status have changed:      *)
(* effects whose key is another are cleaned up and run, with a round.      *)
Restarted(k) == key(k, listed', status') # key(k, listed, status)
Redraw(calls) ==
  /\ polls' = [k \in DOMAIN polls |->
       IF Restarted(k) THEN Round(k, key(k, listed', status'), [h \in Machines |-> idle])
       ELSE calls[k]]
  /\ IF Restarted("services")
     THEN /\ late' = late \cup {c \in [host : Machines, answer : {"asked", "host not found"}] :
                                \E i \in 1..MaxPolls : calls["services"][c.host][i] = c.answer}
          /\ deadHosts' = {}
     ELSE UNCHANGED <<late, deadHosts>>

LiveInit ==
  /\ watched \in Watches
  /\ exists = Machines /\ up \in [Machines -> BOOLEAN]
  /\ load \in [Machines -> Loads] /\ runs \in [Machines -> BOOLEAN]
  /\ listed = Machines
  /\ status = [h \in Machines |-> "checking"]
  /\ metrics = [h \in Machines |-> "none"] /\ statuses = [h \in Machines |-> "none"]
  /\ deadHosts = {} /\ late = {} /\ misread = {}
  /\ polls = [k \in {"ping", "metrics", "services"} |->
                IF k = "ping" THEN Round(k, Machines, [h \in Machines |-> idle])
                ELSE [h \in Machines |-> idle]]
  /\ changes = 0 /\ faults = 0

----------------------------------------------------------------------------
(* The interval of a poll.  Hosts found missing are not asked about.       *)
Tick(k) ==
  /\ k \in watched
  /\ polls' = [polls EXCEPT ![k] =
       Round(k, key(k, listed, status) \ (IF k = "services" THEN deadHosts ELSE {}), @)]
  /\ UNCHANGED <<world, listed, found, deadHosts, late, misread, bounded>>

(* The server.  To findHost, a file that cannot be read has no host in it, *)
(* and the answer is that of a host that is gone.                          *)
findHost(k, h, ok) ==
  \/ ok = (h \in exists) /\ UNCHANGED <<misread, faults>>
  \/ /\ ~ok /\ h \in exists /\ faults < MaxFaults /\ faults' = faults + 1
     /\ misread' = IF k = "services" THEN misread \cup {h} ELSE misread

(* What is read of a host that is found.  One that does not answer ssh     *)
(* leaves its services not found, and a reading that is an error.          *)
reading(k, h) ==
  IF k = "ping" THEN IF up[h] THEN "online" ELSE "offline"
  ELSE IF ~up[h] THEN "nothing"
  ELSE IF k = "metrics" THEN load[h] ELSE IF runs[h] THEN "running" ELSE "stopped"

PutPoll(k, h, i, v) == [polls EXCEPT ![k][h][i] = v]

Serve(k, h, i) ==
  /\ polls[k][h][i] = "asked"
  /\ \E ok \in BOOLEAN :
       /\ findHost(k, h, ok)
       /\ polls' = PutPoll(k, h, i, IF ok THEN reading(k, h) ELSE "host not found")
  /\ UNCHANGED <<world, listed, found, deadHosts, late, watched, changes>>

CallLost(k, h, i) ==
  /\ polls[k][h][i] = "asked" /\ faults < MaxFaults
  /\ faults' = faults + 1
  /\ polls' = PutPoll(k, h, i, "error")
  /\ UNCHANGED <<world, listed, found, deadHosts, late, misread, watched, changes>>

----------------------------------------------------------------------------
(* The answers.                                                            *)
Back(k, h, i) == polls[k][h][i] \notin {"none", "asked"}
threw(v) == v \in {"error", "host not found"}

PingArrives(h, i) ==
  /\ Back("ping", h, i)
  /\ status' = [status EXCEPT ![h] = IF threw(polls["ping"][h][i]) THEN "offline"
                                     ELSE polls["ping"][h][i]]
  /\ UNCHANGED listed
  /\ Redraw(PutPoll("ping", h, i, "none"))
  /\ UNCHANGED <<world, metrics, statuses, misread, bounded>>

(* An error leaves the last reading in place.                              *)
MetricsArrive(h, i) ==
  /\ Back("metrics", h, i)
  /\ metrics' = IF threw(polls["metrics"][h][i]) THEN metrics
                ELSE [metrics EXCEPT ![h] = polls["metrics"][h][i]]
  /\ polls' = PutPoll("metrics", h, i, "none")
  /\ UNCHANGED <<world, listed, status, statuses, deadHosts, late, misread, bounded>>

missingIfThrew(v) == threw(v)                                  \* mutant
missing(v) == v = "host not found"

StatusArrives(h, i) ==
  /\ Back("services", h, i)
  /\ LET v == polls["services"][h][i] IN
       /\ statuses' = IF threw(v) THEN statuses ELSE [statuses EXCEPT ![h] = v]
       /\ deadHosts' = IF missing(v) THEN deadHosts \cup {h} ELSE deadHosts
  /\ polls' = PutPoll("services", h, i, "none")
  /\ UNCHANGED <<world, listed, status, metrics, late, misread, bounded>>

(* A late call is served by then, if it was not when it was called off; of *)
(* the answers, all but "host not found" are ignored.                      *)
LateArrives(c) ==
  /\ c \in late /\ late' = late \ {c}
  /\ \/ /\ c.answer = "asked" /\ UNCHANGED <<deadHosts, misread, faults>>
     \/ /\ IF c.answer = "asked" THEN findHost("services", c.host, FALSE)
           ELSE UNCHANGED <<misread, faults>>
        /\ deadHosts' = deadHosts \cup {c.host}
  /\ UNCHANGED <<world, listed, found, polls, watched, changes>>

----------------------------------------------------------------------------
(* What happens to the hosts, and to the list of them: a reload, or a      *)
(* switch of projects.  Ids are drawn once, so none comes back.            *)
Happens ==
  /\ changes < MaxChanges /\ changes' = changes + 1
  /\ \E h \in exists :
       \/ up' = [up EXCEPT ![h] = ~@] /\ UNCHANGED <<exists, load, runs>>
       \/ runs' = [runs EXCEPT ![h] = ~@] /\ UNCHANGED <<exists, load, up>>
       \/ \E l \in Loads \ {load[h]} :
            load' = [load EXCEPT ![h] = l] /\ UNCHANGED <<exists, up, runs>>
       \/ exists' = exists \ {h} /\ UNCHANGED <<up, load, runs>>
  /\ UNCHANGED <<listed, found, deadHosts, polls, late, misread, watched, faults>>

Relist ==
  /\ changes < MaxChanges /\ changes' = changes + 1
  /\ \E hosts \in (SUBSET exists) \ {listed} : listed' = hosts
  /\ UNCHANGED found
  /\ Redraw(polls)
  /\ UNCHANGED <<world, misread, watched, faults>>

LiveNext ==
  \/ \E k \in DOMAIN polls : Tick(k)
  \/ \E k \in DOMAIN polls, h \in Machines, i \in 1..MaxPolls : Serve(k, h, i) \/ CallLost(k, h, i)
  \/ \E h \in Machines, i \in 1..MaxPolls : PingArrives(h, i) \/ MetricsArrive(h, i) \/ StatusArrives(h, i)
  \/ \E c \in late : LateArrives(c)
  \/ Happens \/ Relist

LiveSpec == LiveInit /\ [][LiveNext]_liveVars

(* Intervals fire, and as long as calls about a host are under way one or  *)
(* another of them goes on.                                                *)
Moves(k, h) == \E i \in 1..MaxPolls : \/ Serve(k, h, i)
                                      \/ k = "ping" /\ PingArrives(h, i)
                                      \/ k = "metrics" /\ MetricsArrive(h, i)
                                      \/ k = "services" /\ StatusArrives(h, i)
LiveFairness ==
  \A k \in UNION Watches : /\ WF_liveVars(Tick(k))
                           /\ \A h \in Machines : WF_liveVars(Moves(k, h))

FairLive == LiveSpec /\ LiveFairness
----------------------------------------------------------------------------
(* The nodes.                                                              *)
twoStates(h) == IF statuses[h] \notin {"running", "stopped"} THEN "none" ELSE statuses[h]  \* mutant
serviceDot(h) == IF statuses[h] \notin {"running", "stopped"} THEN "none"
                 ELSE IF status[h] # "online" THEN "unknown" ELSE statuses[h]
gauge(h) == IF metrics[h] = "nothing" THEN "none" ELSE metrics[h]
----------------------------------------------------------------------------
LiveTypeOK ==
  /\ listed \subseteq Machines /\ deadHosts \subseteq Machines /\ misread \subseteq Machines
  /\ late \subseteq [host : Machines, answer : {"asked", "host not found"}]
  /\ status \in [Machines -> {"checking", "online", "offline"}]
  /\ metrics \in [Machines -> Loads \cup {"none", "nothing"}]
  /\ statuses \in [Machines -> {"none", "nothing", "running", "stopped"}]

(* A host that exists is dropped from the status polls only after a status *)
(* call for which the server could not read its hosts (useServiceStatus,   *)
(* findHost): not because a call is lost or ssh fails, and not because a   *)
(* call of an effect that is over comes back after the effect restarted.   *)
LivingHostsPolled == deadHosts \cap exists \subseteq misread

(* Rounds overlap and are answered out of order, effects restart, calls    *)
(* are lost; still, once the hosts have come to rest the canvas shows them *)
(* as they are, and goes on doing so.  The exception is a host that was    *)
(* dropped, for it is not asked about until the effect restarts, which a   *)
(* reload of the same hosts does not do: its services stay as last read.   *)
truthful(h) ==
  /\ "ping" \in watched =>
       status[h] = IF h \in exists /\ up[h] THEN "online" ELSE "offline"
  /\ ("metrics" \in watched /\ h \in exists /\ up[h]) => gauge(h) = load[h]
  /\ ("services" \in watched /\ h \in WithDocker) =>
       IF h \in exists /\ up[h]
       THEN h \in deadHosts \cap misread \/ serviceDot(h) = IF runs[h] THEN "running" ELSE "stopped"
       ELSE serviceDot(h) \in {"none", "unknown"}
StatusSettles == <>[](\A h \in listed : truthful(h))
=============================================================================
