----------------------------- MODULE SealScreens -----------------------------
(***************************************************************************)
(* The seal as operators meet it: the first screens of the browser         *)
(* (AuthContext.tsx, SealScreen.tsx) in front of the server of Seal.  The  *)
(* shares exist in the answer to one request, then in the memory of one    *)
(* page, and are on paper only once somebody has copied them from the one  *)
(* screen that shows them.                                                 *)
(*                                                                         *)
(* A click and the server's handling of it are one step; the answer, what  *)
(* the page asks next (evaluate), and what the operator does are others.   *)
(* An answer that is lost, or a server that does not answer, leaves the    *)
(* phase as it was.  A request does not outlive its page.                  *)
(***************************************************************************)
EXTENDS Seal

CONSTANT Tabs

VARIABLES
  phase,     \* of each page; "open" stands for all that comes after the seal
  fresh,     \* freshShares: a configuration, or NoConfig
  doing      \* what a page waits for: nothing, the status, or the shares

pages    == <<phase, fresh, doing>>
sealVars == <<vars, pages>>

SealScreensInit ==
  /\ Init
  /\ phase = [t \in Tabs |-> "loading"] /\ fresh = [t \in Tabs |-> NoConfig]
  /\ doing = [t \in Tabs |-> "status"]

(* The page is loaded, or loaded again, and all it had in memory is gone.  *)
Reload(t) ==
  /\ phase' = [phase EXCEPT ![t] = "loading"]
  /\ fresh' = [fresh EXCEPT ![t] = NoConfig]
  /\ doing' = [doing EXCEPT ![t] = "status"]
  /\ reply' = IF doing[t] = "shares" THEN NoConfig ELSE reply
  /\ UNCHANGED <<disk, running, config, masterKey, pending, drawn, handed, offered,
                 dataKeys, bounds>>

(* evaluate.                                                               *)
StatusAnswers(t) ==
  /\ doing[t] = "status" /\ running
  /\ phase' = [phase EXCEPT ![t] = IF config = NoConfig THEN "needs-init"
                                   ELSE IF masterKey = NoKey THEN "sealed" ELSE "open"]
  /\ doing' = [doing EXCEPT ![t] = "nothing"]
  /\ UNCHANGED <<vars, fresh>>

StatusFails(t) ==
  /\ doing[t] = "status"
  /\ doing' = [doing EXCEPT ![t] = "nothing"]
  /\ UNCHANGED <<vars, phase, fresh>>

(* initializeSeal: "submitting" keeps a page to one request at a time.     *)
ClickInitialize(t) ==
  /\ phase[t] = "needs-init" /\ doing[t] = "nothing"
  /\ \/ Initialize /\ doing' = [doing EXCEPT ![t] = "shares"]
     \/ InitializeFails /\ UNCHANGED doing
  /\ UNCHANGED <<phase, fresh>>

SharesArrive(t) ==
  /\ doing[t] = "shares" /\ reply # NoConfig
  /\ fresh' = [fresh EXCEPT ![t] = reply] /\ reply' = NoConfig
  /\ doing' = [doing EXCEPT ![t] = "status"]
  /\ UNCHANGED <<phase, disk, running, config, masterKey, pending, drawn, handed, offered,
                 dataKeys, bounds>>

SharesLost(t) ==
  /\ doing[t] = "shares"
  /\ reply' = NoConfig /\ doing' = [doing EXCEPT ![t] = "nothing"]
  /\ UNCHANGED <<phase, fresh, disk, running, config, masterKey, pending, drawn, handed,
                 offered, dataKeys, bounds>>

(* The shares are on the screen for unsealing, and on no other.            *)
shows(t) == phase[t] = "sealed" /\ fresh[t] # NoConfig

Copy(t) ==
  /\ shows(t) /\ fresh[t] \notin handed
  /\ handed' = handed \cup {fresh[t]}
  /\ UNCHANGED <<pages, disk, running, config, masterKey, pending, drawn, reply, offered,
                 dataKeys, bounds>>

(* submitShare.  An unsealed server says so to any share; a lost answer, a *)
(* wrong share or one that is not the last changes nothing on the page.    *)
Submit(t, s) ==
  /\ phase[t] = "sealed" /\ doing[t] = "nothing"
  /\ \/ s \in HandedShares /\ SubmitHanded(s)
     \/ s \in Junk /\ SubmitJunk(s)
     \/ running /\ masterKey # NoKey /\ UNCHANGED vars
  /\ \/ /\ masterKey' # NoKey
        /\ fresh' = [fresh EXCEPT ![t] = NoConfig]
        /\ doing' = [doing EXCEPT ![t] = "status"]
     \/ UNCHANGED <<fresh, doing>>
  /\ UNCHANGED phase

SealScreensNext ==
  \/ (Start \/ Crash \/ WriteData) /\ UNCHANGED pages
  \/ \E t \in Tabs : \/ Reload(t) \/ StatusAnswers(t) \/ StatusFails(t)
                    \/ ClickInitialize(t) \/ SharesArrive(t) \/ SharesLost(t) \/ Copy(t)
                    \/ \E s \in HandedShares \cup Junk : Submit(t, s)

SealScreensSpec == SealScreensInit /\ [][SealScreensNext]_sealVars

(* The server is started again; a page asks until it is answered.  The     *)
(* operators reload a page that is not the one to unseal with, and as long *)
(* as they can they hand in a share that is not pending.                   *)
Unsealing == \E t \in Tabs : \E s \in HandedShares :
               Submit(t, s) /\ <<pending, masterKey>>' # <<pending, masterKey>>

SealScreensFairness ==
  /\ WF_sealVars(Start /\ UNCHANGED pages)
  /\ \A t \in Tabs :
       /\ WF_sealVars(doing[t] = "nothing" /\ phase[t] # "sealed" /\ Reload(t))
       /\ SF_sealVars(StatusAnswers(t))
       /\ WF_sealVars(StatusFails(t))
  /\ SF_sealVars(Unsealing)

FairSealScreens == SealScreensSpec /\ SealScreensFairness
----------------------------------------------------------------------------
PagesOK ==
  /\ phase \in [Tabs -> {"loading", "needs-init", "sealed", "open"}]
  /\ fresh \in [Tabs -> Config \cup {NoConfig}]
  /\ doing \in [Tabs -> {"nothing", "status", "shares"}]

(* With the pages hidden this is Seal: the shares are on their way from    *)
(* the server's answer until somebody copies them, and a page that is      *)
(* reloaded or stays on another screen has lost them.                      *)
onTheWay == IF reply # NoConfig THEN reply
            ELSE IF \E t \in Tabs : fresh[t] \notin handed \cup {NoConfig}
            THEN CHOOSE c \in {fresh[t] : t \in Tabs} : c \notin handed \cup {NoConfig}
            ELSE NoConfig

Server == INSTANCE Seal WITH reply <- onTheWay

(* What the browser does to the server and to the shares is what Seal      *)
(* allows, so that what is proved of Seal holds with browsers in front.    *)
ImplementsSeal == Server!Spec
=============================================================================
