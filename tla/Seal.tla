-------------------------------- MODULE Seal --------------------------------
(***************************************************************************)
(* The seal of backend/seal.go: a master key that is never written down,   *)
(* split into shares when the server is initialised and rebuilt from a     *)
(* threshold of them after every start.                                    *)
(*                                                                         *)
(* Each operation runs under SealManager.mu and is one step.  What is not  *)
(* atomic is the way of the shares to the operator: Initialize saves the   *)
(* configuration before it answers, and the answer can be lost.            *)
(***************************************************************************)
EXTENDS Naturals, FiniteSets

CONSTANTS Keys,        \* what rand.Read can draw; each is drawn once
          Settings,    \* DJ_UNSEAL_SHARES and DJ_UNSEAL_THRESHOLD, as [n, t]
          Junk,        \* shares that belong to no key of this server
          NoKey, WrongKey, NoConfig, Torn,
          MaxCrashes, MaxJunk   \* bounds on crashes and on wrong submissions

Config  == [key : Keys, n : Nat, t : Nat]
Share   == [key : Keys, idx : Nat]
sharesOf(c) == [key : {c.key}, idx : 1..c.n]

ASSUME SealAssumption ==
  /\ Settings \subseteq [n : Nat, t : Nat]
  /\ NoKey \notin Keys /\ WrongKey \notin Keys /\ NoKey # WrongKey
  /\ NoConfig \notin Config /\ Torn \notin Config /\ NoConfig # Torn
  /\ Junk \cap Share = {}
  /\ MaxCrashes \in Nat /\ MaxJunk \in Nat

VARIABLES
  disk,       \* seal.json: a Config, NoConfig (missing or empty), or Torn
  running,
  config, masterKey, pending,   \* SealManager's fields
  drawn,      \* keys drawn so far
  reply,      \* an Initialize answered with this configuration's shares, or NoConfig
  handed,     \* configurations whose shares reached the operator
  offered,    \* history: right shares submitted since the start
  dataKeys,   \* keys the data files have been written under
  crashes, junked

vars == <<disk, running, config, masterKey, pending, drawn, reply, handed,
          offered, dataKeys, crashes, junked>>

TypeOK ==
  /\ disk \in Config \cup {NoConfig, Torn}
  /\ running \in BOOLEAN
  /\ config \in Config \cup {NoConfig}
  /\ masterKey \in Keys \cup {NoKey}
  /\ pending \subseteq Share \cup Junk
  /\ drawn \subseteq Keys
  /\ reply \in Config \cup {NoConfig}
  /\ handed \subseteq Config
  /\ offered \subseteq Share
  /\ dataKeys \subseteq Keys
  /\ crashes \in 0..MaxCrashes /\ junked \in 0..MaxJunk

Init ==
  /\ disk = NoConfig /\ running = FALSE
  /\ config = NoConfig /\ masterKey = NoKey /\ pending = {}
  /\ drawn = {} /\ reply = NoConfig /\ handed = {} /\ offered = {}
  /\ dataKeys = {} /\ crashes = 0 /\ junked = 0

bounds == <<crashes, junked>>

----------------------------------------------------------------------------
(* NewSealManager; a seal.json it cannot parse ends the process. *)
Start ==
  /\ ~running /\ disk # Torn
  /\ running' = TRUE
  /\ config' = disk
  /\ UNCHANGED <<disk, masterKey, pending, drawn, reply, handed, offered, dataKeys, bounds>>

(* An answer that has left the server by then still arrives.               *)
Crash ==
  /\ running /\ crashes < MaxCrashes
  /\ crashes' = crashes + 1
  /\ running' = FALSE
  /\ config' = NoConfig /\ masterKey' = NoKey /\ pending' = {}
  /\ reply' \in {reply, NoConfig} /\ offered' = {}
  /\ UNCHANGED <<disk, drawn, handed, dataKeys, junked>>

(* The configurations Initialize accepts: shamir.Split wants at least two. *)
acceptable(s) == 2 <= s.t /\ s.t <= s.n

InitializeAgain ==                                             \* mutant
  /\ running /\ masterKey = NoKey
  /\ \E k \in Keys \ drawn, s \in Settings :
       /\ acceptable(s)
       /\ drawn' = drawn \cup {k}
       /\ LET c == [key |-> k, n |-> s.n, t |-> s.t]
          IN  disk' = c /\ config' = c /\ reply' = c
  /\ masterKey' = NoKey /\ pending' = {}
  /\ UNCHANGED <<running, handed, offered, dataKeys, bounds>>

Initialize ==
  /\ running /\ config = NoConfig
  /\ \E k \in Keys \ drawn, s \in Settings :
       /\ acceptable(s)
       /\ drawn' = drawn \cup {k}
       /\ LET c == [key |-> k, n |-> s.n, t |-> s.t]
          IN  disk' = c /\ config' = c /\ reply' = c
  /\ masterKey' = NoKey /\ pending' = {}
  /\ UNCHANGED <<running, handed, offered, dataKeys, bounds>>

(* SaveSealConfig fails.  seal.json is truncated before it is written, so  *)
(* it may be left empty, cut short, or whole with the error coming after.  *)
InitializeFails ==
  /\ running /\ config = NoConfig
  /\ \E k \in Keys \ drawn, s \in Settings :
       /\ acceptable(s)
       /\ drawn' = drawn \cup {k}
       /\ disk' \in {disk, NoConfig, Torn, [key |-> k, n |-> s.n, t |-> s.t]}
  /\ config' = NoConfig
  /\ UNCHANGED <<running, masterKey, pending, reply, handed, offered, dataKeys, bounds>>

Deliver ==
  /\ reply # NoConfig
  /\ handed' = handed \cup {reply}
  /\ reply' = NoConfig
  /\ UNCHANGED <<disk, running, config, masterKey, pending, drawn, offered, dataKeys, bounds>>

LoseReply ==
  /\ reply # NoConfig
  /\ reply' = NoConfig
  /\ UNCHANGED <<disk, running, config, masterKey, pending, drawn, handed, offered,
                 dataKeys, bounds>>

----------------------------------------------------------------------------
(* shamir.Combine (external): a threshold of shares of one key rebuilds    *)
(* it, anything else gives an error or some other bytes.                   *)
combine(shares) ==
  IF shares \subseteq sharesOf(config) /\ Cardinality(shares) >= config.t
    THEN config.key ELSE WrongKey

(* The check value decrypts under the configuration's own key alone.       *)
anyKey(k) == TRUE                                              \* mutant
decrypts(k) == k = config.key

enoughButOne(shares) == Cardinality(shares) + 1 >= config.t    \* mutant
enough(shares) == Cardinality(shares) >= config.t

(* SubmitShare.  A share already pending is refused, an unsealed server    *)
(* answers at once: neither changes anything.                              *)
SubmitShare(s) ==
  /\ running /\ config # NoConfig /\ masterKey = NoKey
  /\ s \notin pending
  /\ LET shares == pending \cup {s}
     IN  IF ~enough(shares)
           THEN pending' = shares /\ UNCHANGED masterKey
           ELSE /\ pending' = {}
                /\ IF decrypts(combine(shares))
                     THEN masterKey' = combine(shares)
                     ELSE UNCHANGED masterKey
  /\ UNCHANGED <<disk, running, config, drawn, reply, handed, dataKeys, crashes>>

SubmitHanded(s) ==
  /\ SubmitShare(s)
  /\ offered' = offered \cup {s}
  /\ UNCHANGED junked

SubmitJunk(s) ==
  /\ junked < MaxJunk /\ junked' = junked + 1
  /\ SubmitShare(s)
  /\ UNCHANGED offered

(* Key(): any request on encrypted data while unsealed. *)
WriteData ==
  /\ running /\ masterKey # NoKey
  /\ dataKeys' = dataKeys \cup {masterKey}
  /\ UNCHANGED <<disk, running, config, masterKey, pending, drawn, reply, handed,
                 offered, bounds>>

HandedShares == UNION {sharesOf(c) : c \in handed}

Next ==
  \/ Start \/ Crash
  \/ Initialize \/ InitializeFails \/ Deliver \/ LoseReply
  \/ \E s \in HandedShares : SubmitHanded(s)
  \/ \E s \in Junk : SubmitJunk(s)
  \/ WriteData

Spec == Init /\ [][Next]_vars

(* The server is started again after a crash, and the operators hand in    *)
(* every share they hold until the server is unsealed.                     *)
AllShares == UNION {[key : Keys, idx : 1..s.n] : s \in Settings}

Fairness ==
  /\ WF_vars(Start)
  /\ \A s \in AllShares : WF_vars(s \in HandedShares /\ SubmitHanded(s))

FairSpec == Spec /\ Fairness

----------------------------------------------------------------------------
(* All data is under the key the shares on paper rebuild: no sequence of   *)
(* failed or repeated initialisations leaves a file behind that the next   *)
(* unsealing cannot decrypt.                                               *)
DataReadable == \A k \in dataKeys : disk \in Config /\ disk.key = k

(* Once the operator holds a configuration's shares it is never replaced:  *)
(* Initialize answers "already initialized" for ever after, crash or not.  *)
HandedConfigKept == [][(disk \in handed) => (disk' = disk)]_vars

(* The server unseals only when, since it started, a threshold of          *)
(* different right shares was submitted to it: no wrong share, repeated    *)
(* share or failed attempt counts.                                         *)
UnsealNeedsThreshold ==
  [][masterKey = NoKey /\ masterKey' # NoKey =>
       \E shares \in SUBSET offered' :
          /\ shares \subseteq sharesOf(config)
          /\ Cardinality(shares) >= config.t]_vars

(* Wrong shares, duplicates and crashes delay the unsealing and cannot     *)
(* wedge it: shares held on paper rebuild the key in the end.              *)
UnsealsEventually == (disk \in handed) ~> (disk \in Config /\ masterKey = disk.key)
=============================================================================
