----------------------------- MODULE SealProofs -----------------------------
(***************************************************************************)
(* Proofs about Seal, for any number of keys, shares, thresholds, crashes  *)
(* and wrong submissions; then that SealScreens, any number of pages in    *)
(* front of that server, implements it.                                    *)
(***************************************************************************)
EXTENDS SealScreens, TLAPS

(* The configuration in memory is the stored one; while there is none,     *)
(* nobody holds shares and no data has been written.                       *)
SealInv ==
  /\ ~running => config = NoConfig /\ masterKey = NoKey
  /\ config # NoConfig => disk = config
  /\ reply # NoConfig => disk = reply
  /\ running /\ config = NoConfig =>
       handed = {} /\ dataKeys = {} /\ masterKey = NoKey /\ reply = NoConfig
  /\ \A c \in handed : disk = c
  /\ masterKey # NoKey => config # NoConfig /\ masterKey = config.key
  /\ DataReadable
  /\ pending \subseteq offered \cup Junk

Inv == TypeOK /\ SealInv

LEMMA SharesAreShares == ASSUME NEW c \in Config PROVE sharesOf(c) \subseteq Share
  BY DEF sharesOf, Config, Share

LEMMA InitInv == Init => Inv
<1> SUFFICES ASSUME Init PROVE Inv
  OBVIOUS
<1>1. TypeOK
  <2>1. crashes \in 0..MaxCrashes /\ junked \in 0..MaxJunk
    BY SealAssumption DEF Init
  <2> QED BY <2>1 DEF Init, TypeOK
<1>2. SealInv
  BY DEF Init, SealInv, DataReadable
<1> QED BY <1>1, <1>2 DEF Inv

LEMMA NextInv == Inv /\ [Next]_vars => Inv'
<1> SUFFICES ASSUME Inv, [Next]_vars PROVE Inv'
  OBVIOUS
<1> USE SealAssumption DEF Inv
<1>1. CASE Start
  BY <1>1 DEF Start, TypeOK, SealInv, DataReadable, bounds
<1>2. CASE Crash
  <2>1. crashes' \in 0..MaxCrashes
    BY <1>2 DEF Crash, TypeOK
  <2>2. TypeOK'
    BY <1>2, <2>1 DEF Crash, TypeOK
  <2>3. SealInv'
    BY <1>2 DEF Crash, TypeOK, SealInv, DataReadable
  <2> QED BY <2>2, <2>3
<1>3. CASE Initialize
  <2>1. PICK c \in Config, k \in Keys :
          disk' = c /\ config' = c /\ reply' = c /\ drawn' = drawn \cup {k}
    BY <1>3 DEF Initialize, Config
  <2>2. handed = {} /\ dataKeys = {}
    BY <1>3 DEF Initialize, SealInv
  <2> QED BY <1>3, <2>1, <2>2 DEF Initialize, TypeOK, SealInv, DataReadable, bounds
<1>4. CASE InitializeFails
  <2>1. disk' \in Config \cup {NoConfig, Torn} /\ drawn' \subseteq Keys
    BY <1>4 DEF InitializeFails, TypeOK, Config
  <2> QED BY <1>4, <2>1 DEF InitializeFails, TypeOK, SealInv, DataReadable, bounds
<1>5. CASE Deliver
  BY <1>5 DEF Deliver, TypeOK, SealInv, DataReadable, bounds
<1>6. CASE LoseReply
  BY <1>6 DEF LoseReply, TypeOK, SealInv, DataReadable, bounds
<1>7. ASSUME NEW s, SubmitShare(s), s \in offered' \cup Junk, s \in Share \cup Junk,
             offered \subseteq offered', offered' \subseteq Share, junked' \in 0..MaxJunk
      PROVE  Inv'
  <2>1. masterKey' = masterKey \/ masterKey' = config.key
    BY <1>7 DEF SubmitShare, decrypts
  <2>2. config \in Config
    BY <1>7 DEF SubmitShare, TypeOK
  <2>3. TypeOK'
    BY <1>7, <2>1, <2>2 DEF SubmitShare, TypeOK, Config
  <2> QED BY <1>7, <2>1, <2>2, <2>3 DEF SubmitShare, SealInv, DataReadable
<1>8. ASSUME NEW s \in HandedShares, SubmitHanded(s) PROVE Inv'
  <2>1. s \in Share
    BY SharesAreShares DEF HandedShares, TypeOK
  <2> QED BY <1>7, <1>8, <2>1 DEF SubmitHanded, TypeOK
<1>9. ASSUME NEW s \in Junk, SubmitJunk(s) PROVE Inv'
  BY <1>7, <1>9 DEF SubmitJunk, TypeOK
<1>10. CASE WriteData
  BY <1>10 DEF WriteData, TypeOK, SealInv, DataReadable, Config, bounds
<1>11. CASE UNCHANGED vars
  BY <1>11 DEF vars, TypeOK, SealInv, DataReadable
<1> QED BY <1>1, <1>2, <1>3, <1>4, <1>5, <1>6, <1>8, <1>9, <1>10, <1>11 DEF Next

LEMMA InvCorrect == Spec => []Inv
  BY InitInv, NextInv, PTL DEF Spec

(* The seal's fields and files always have their types. *)
THEOREM SealTypes == Spec => []TypeOK
  BY InvCorrect, PTL DEF Inv

(* All data is under the key of the stored configuration. *)
THEOREM DataStaysReadable == Spec => []DataReadable
<1>1. Inv => DataReadable
  BY DEF Inv, SealInv
<1> QED BY <1>1, InvCorrect, PTL

(* A configuration whose shares were handed out is never replaced. *)
THEOREM HandedIsFinal == Spec => HandedConfigKept
<1>1. Inv /\ [Next]_vars => [(disk \in handed) => (disk' = disk)]_vars
  BY DEF Inv, SealInv, Next, vars, Start, Crash, Initialize, InitializeFails, Deliver,
         LoseReply, SubmitHanded, SubmitJunk, SubmitShare, WriteData
<1> QED BY <1>1, InvCorrect, PTL DEF Spec, HandedConfigKept

(* A step that brings a key into memory had a threshold of shares offered. *)
UnsealsByThreshold ==
  masterKey = NoKey /\ masterKey' # NoKey =>
    \E shares \in SUBSET offered' :
       /\ shares \subseteq sharesOf(config)
       /\ Cardinality(shares) >= config.t

LEMMA ThresholdStep == Inv /\ [Next]_vars => UnsealsByThreshold
<1>1. ASSUME Inv, NEW s, SubmitShare(s), s \in offered' \cup Junk, offered \subseteq offered',
             masterKey = NoKey, masterKey' # NoKey
      PROVE  \E shares \in SUBSET offered' :
               shares \subseteq sharesOf(config) /\ Cardinality(shares) >= config.t
  <2> DEFINE shares == pending \cup {s}
  <2>1. config \in Config /\ combine(shares) = config.key
    BY <1>1 DEF SubmitShare, decrypts, Inv, TypeOK
  <2>2. shares \subseteq sharesOf(config) /\ Cardinality(shares) >= config.t
    BY <2>1, SealAssumption DEF combine, Config
  <2>3. shares \subseteq offered'
    BY <1>1, <2>1, <2>2, SharesAreShares, SealAssumption DEF Inv, SealInv
  <2> QED BY <2>2, <2>3
<1> SUFFICES ASSUME Inv, [Next]_vars, masterKey = NoKey, masterKey' # NoKey
             PROVE  \E shares \in SUBSET offered' :
                      shares \subseteq sharesOf(config) /\ Cardinality(shares) >= config.t
  BY DEF UnsealsByThreshold
<1>2. CASE \E s \in HandedShares : SubmitHanded(s)
  BY <1>1, <1>2 DEF SubmitHanded
<1>3. CASE \E s \in Junk : SubmitJunk(s)
  BY <1>1, <1>3 DEF SubmitJunk
<1>4. CASE Initialize
  BY <1>4 DEF Initialize
<1> QED BY <1>2, <1>3, <1>4 DEF Next, vars, Start, Crash, InitializeFails, Deliver,
                                LoseReply, WriteData

(* Unsealing takes a threshold of right shares submitted since the start. *)
THEOREM ThresholdNeeded == Spec => UnsealNeedsThreshold
<1>1. Inv /\ [Next]_vars => [UnsealsByThreshold]_vars
  BY ThresholdStep
<1> QED BY <1>1, InvCorrect, PTL DEF Spec, UnsealNeedsThreshold, UnsealsByThreshold
----------------------------------------------------------------------------
(* With pages in front.  Whatever shares a page holds are those of the     *)
(* configuration on disk, and no answer is then on its way any more; a     *)
(* server that has been unsealed has had its shares copied.                *)
PageInv ==
  /\ \A t \in Tabs : fresh[t] # NoConfig =>
       /\ disk = fresh[t] /\ reply = NoConfig
       /\ running => config # NoConfig
  /\ masterKey # NoKey => disk \in handed

ScreensInv == Inv /\ PagesOK /\ PageInv

HasUncopied == \E t \in Tabs : fresh[t] \notin handed \cup {NoConfig}

(* What is on the way is what is on disk, or nothing.                      *)
WayIsDisk ==
  /\ reply # NoConfig \/ HasUncopied => onTheWay = disk /\ disk # NoConfig
  /\ ~(reply # NoConfig \/ HasUncopied) => onTheWay = NoConfig

LEMMA OnTheWay == ScreensInv => WayIsDisk
<1> SUFFICES ASSUME ScreensInv PROVE WayIsDisk
  OBVIOUS
<1> USE DEF WayIsDisk
<1>1. CASE reply # NoConfig
  BY <1>1 DEF onTheWay, ScreensInv, Inv, SealInv
<1>2. CASE reply = NoConfig /\ HasUncopied
  <2> DEFINE held == {fresh[t] : t \in Tabs}
             c    == CHOOSE x \in held : x \notin handed \cup {NoConfig}
  <2>1. \E x \in held : x \notin handed \cup {NoConfig}
    BY <1>2 DEF HasUncopied
  <2>2. c \in held /\ c \notin handed \cup {NoConfig}
    BY <2>1
  <2>3. c = disk
    BY <2>2 DEF ScreensInv, PageInv
  <2>4. onTheWay = c
    BY <1>2 DEF onTheWay, HasUncopied
  <2> QED BY <1>2, <2>2, <2>3, <2>4
<1>3. CASE reply = NoConfig /\ ~HasUncopied
  BY <1>3 DEF onTheWay, HasUncopied
<1> QED BY <1>1, <1>2, <1>3

(* A share that nobody was handed does not unseal the server.              *)
LEMMA UnsealedAreHanded ==
  ASSUME Inv, NEW s, SubmitShare(s), masterKey = NoKey, masterKey' # NoKey,
         s \in HandedShares \cup Junk
  PROVE  disk \in handed
<1>1. config \in Config /\ combine(pending \cup {s}) = config.key
  BY DEF SubmitShare, decrypts, Inv, TypeOK
<1>2. s \in sharesOf(config)
  BY <1>1, SealAssumption DEF combine, Config
<1>3. s \in HandedShares
  BY <1>1, <1>2, SharesAreShares, SealAssumption
<1> QED BY <1>3 DEF HandedShares, Inv, SealInv

LEMMA ScreensInit == SealScreensInit => ScreensInv
  BY InitInv DEF SealScreensInit, ScreensInv, PagesOK, PageInv, Init

LEMMA SubmitIsNext ==
  ASSUME NEW t, NEW s, Submit(t, s)
  PROVE  \/ s \in HandedShares /\ SubmitHanded(s)
         \/ s \in Junk /\ SubmitJunk(s)
         \/ masterKey # NoKey /\ UNCHANGED vars
  BY DEF Submit

LEMMA ScreensNextInv == ScreensInv /\ [SealScreensNext]_sealVars => ScreensInv'
<1> SUFFICES ASSUME ScreensInv, [SealScreensNext]_sealVars PROVE ScreensInv'
  OBVIOUS
<1> USE SealAssumption DEF ScreensInv
<1>1. CASE (Start \/ Crash \/ WriteData) /\ UNCHANGED pages
  <2>1. Inv'
    BY <1>1, NextInv DEF Next
  <2>2. PagesOK' /\ PageInv'
    BY <1>1, <2>1 DEF Start, Crash, WriteData, pages, PagesOK, PageInv, Inv, TypeOK, SealInv
  <2> QED BY <2>1, <2>2
<1>2. ASSUME NEW t \in Tabs, Reload(t) \/ SharesLost(t) PROVE ScreensInv'
  <2>1. Inv'
    BY <1>2, NextInv DEF Reload, SharesLost, Next, LoseReply, bounds, vars
  <2> QED BY <1>2, <2>1 DEF Reload, SharesLost, PagesOK, PageInv, bounds
<1>3. ASSUME NEW t \in Tabs, StatusAnswers(t) \/ StatusFails(t) PROVE ScreensInv'
  <2>1. Inv'
    BY <1>3, NextInv DEF StatusAnswers, StatusFails
  <2> QED BY <1>3, <2>1 DEF StatusAnswers, StatusFails, PagesOK, PageInv, vars
<1>4. ASSUME NEW t \in Tabs, ClickInitialize(t) PROVE ScreensInv'
  <2>1. Inv'
    BY <1>4, NextInv DEF ClickInitialize, Next
  <2>2. fresh' = fresh /\ \A u \in Tabs : fresh[u] = NoConfig
    BY <1>4 DEF ClickInitialize, Initialize, InitializeFails, PageInv
  <2>3. masterKey' = NoKey
    BY <1>4 DEF ClickInitialize, Initialize, InitializeFails, Inv, SealInv
  <2> QED BY <1>4, <2>1, <2>2, <2>3 DEF ClickInitialize, PagesOK, PageInv
<1>5. ASSUME NEW t \in Tabs, SharesArrive(t) PROVE ScreensInv'
  <2>1. Inv'
    BY <1>5, NextInv DEF SharesArrive, Next, LoseReply
  <2>2. PagesOK'
    BY <1>5 DEF SharesArrive, PagesOK, Inv, TypeOK
  <2>3. disk = reply /\ (running => config # NoConfig)
    BY <1>5 DEF SharesArrive, Inv, SealInv
  <2> QED BY <1>5, <2>1, <2>2, <2>3 DEF SharesArrive, PageInv, PagesOK, bounds
<1>6. ASSUME NEW t \in Tabs, Copy(t) PROVE ScreensInv'
  <2>1. disk = fresh[t] /\ fresh[t] \in Config /\ (running => config # NoConfig)
    BY <1>6 DEF Copy, shows, PageInv, PagesOK
  <2>2. Inv'
    BY <1>6, <2>1 DEF Copy, Inv, TypeOK, SealInv, DataReadable, bounds
  <2> QED BY <1>6, <2>1, <2>2 DEF Copy, pages, PagesOK, PageInv, bounds
<1>7. ASSUME NEW t \in Tabs, NEW s \in HandedShares \cup Junk, Submit(t, s)
      PROVE  ScreensInv'
  <2>1. [Next]_vars
    BY <1>7, SubmitIsNext DEF Next
  <2>2. Inv'
    BY <2>1, NextInv
  <2>3. PagesOK'
    BY <1>7 DEF Submit, PagesOK
  <2>4. disk' = disk /\ handed' = handed /\ reply' = reply
        /\ running' = running /\ config' = config
    BY <1>7, SubmitIsNext DEF SubmitHanded, SubmitJunk, SubmitShare, vars
  <2>5. masterKey' # NoKey => disk \in handed
    BY <1>7, SubmitIsNext, UnsealedAreHanded DEF SubmitHanded, SubmitJunk, PageInv, vars
  <2>6. \A u \in Tabs : fresh'[u] \in {fresh[u], NoConfig}
    BY <1>7 DEF Submit, PagesOK
  <2> QED BY <2>2, <2>3, <2>4, <2>5, <2>6 DEF PageInv
<1>8. CASE UNCHANGED sealVars
  <2>1. Inv'
    BY <1>8, NextInv DEF sealVars
  <2> QED BY <1>8, <2>1 DEF sealVars, vars, pages, PagesOK, PageInv
<1> QED BY <1>1, <1>2, <1>3, <1>4, <1>5, <1>6, <1>7, <1>8 DEF SealScreensNext

LEMMA ScreensInvCorrect == SealScreensSpec => []ScreensInv
  BY ScreensInit, ScreensNextInv, PTL DEF SealScreensSpec

(* Behind any number of pages, too, all data is under the key of the       *)
(* stored configuration.                                                   *)
THEOREM ScreensKeepDataReadable == SealScreensSpec => []DataReadable
<1>1. ScreensInv => DataReadable
  BY DEF ScreensInv, Inv, SealInv
<1> QED BY <1>1, ScreensInvCorrect, PTL

(* However many pages initialise at once, the configuration whose shares   *)
(* somebody has copied is never replaced.                                  *)
THEOREM CopiedIsFinal == SealScreensSpec => HandedConfigKept
<1>1. ScreensInv /\ [SealScreensNext]_sealVars =>
        [(disk \in handed) => (disk' = disk)]_vars
  BY DEF ScreensInv, Inv, SealInv, SealScreensNext, sealVars, vars, Start, Crash, WriteData,
         Reload, StatusAnswers, StatusFails, ClickInitialize, Initialize, InitializeFails,
         SharesArrive, SharesLost, Copy, Submit, SubmitHanded, SubmitJunk, SubmitShare
<1> QED BY <1>1, ScreensInvCorrect, PTL DEF SealScreensSpec, HandedConfigKept

(* The key comes into memory through one page or several only when a       *)
(* threshold of right shares was submitted since the server started.       *)
THEOREM PagesNeedThreshold == SealScreensSpec => UnsealNeedsThreshold
<1>1. ScreensInv /\ [SealScreensNext]_sealVars => UnsealsByThreshold
  <2> SUFFICES ASSUME ScreensInv, [SealScreensNext]_sealVars PROVE UnsealsByThreshold
    OBVIOUS
  <2>1. CASE [Next]_vars
    BY <2>1, ThresholdStep DEF ScreensInv
  <2>2. CASE \E t \in Tabs, s \in HandedShares \cup Junk : Submit(t, s)
    <3>1. [Next]_vars
      BY <2>2, SubmitIsNext DEF Next
    <3> QED BY <3>1, <2>1
  <2>3. CASE masterKey' = masterKey
    BY <2>3 DEF UnsealsByThreshold
  <2> QED BY <2>1, <2>2, <2>3 DEF SealScreensNext, sealVars, vars, Next, WriteData, Start, Crash,
         Reload, StatusAnswers, StatusFails, ClickInitialize, SharesArrive, SharesLost, Copy
<1>2. ScreensInv /\ [SealScreensNext]_sealVars => [UnsealsByThreshold]_vars
  BY <1>1
<1> QED BY <1>2, ScreensInvCorrect, PTL DEF SealScreensSpec, UnsealNeedsThreshold,
        UnsealsByThreshold

LEMMA OnTheWayNext == ScreensInv' => WayIsDisk'
  BY OnTheWay, PTL

(* A step that copies nothing, draws nothing and saves nothing leaves what *)
(* is on the way alone or loses it.                                        *)
LEMMA KeptOrLost ==
  ASSUME ScreensInv, ScreensInv', disk' = disk, handed' = handed,
         reply' # NoConfig \/ HasUncopied' => reply # NoConfig \/ HasUncopied
  PROVE  \/ onTheWay' = onTheWay
         \/ onTheWay # NoConfig /\ onTheWay' = NoConfig
  BY OnTheWay, OnTheWayNext DEF WayIsDisk

LEMMA Kept ==
  ASSUME ScreensInv, ScreensInv', disk' = disk, handed' = handed,
         reply' # NoConfig \/ HasUncopied' <=> reply # NoConfig \/ HasUncopied
  PROVE  onTheWay' = onTheWay
  BY OnTheWay, OnTheWayNext DEF WayIsDisk

(* The instance counts as this module does.                                *)
LEMMA SameCount == \A shares : Server!Cardinality(shares) = Cardinality(shares)
  BY DEF Cardinality, Server!Cardinality

(* Every step of the browsers and the server is a step of the server, with *)
(* the shares delivered when they are copied and lost when a page forgets  *)
(* them, or changes nothing there.                                         *)
LEMMA ScreensStep ==
  ScreensInv /\ ScreensInv' /\ [SealScreensNext]_sealVars => [Server!Next]_(Server!vars)
<1> SUFFICES ASSUME ScreensInv, ScreensInv', [SealScreensNext]_sealVars
             PROVE  Server!Next \/ UNCHANGED Server!vars
  OBVIOUS
<1>1. CASE (Start \/ WriteData) /\ UNCHANGED pages
  <2>1. onTheWay' = onTheWay
    BY <1>1, Kept DEF Start, WriteData, pages, bounds, HasUncopied
  <2> QED BY <1>1, <2>1 DEF Start, WriteData, bounds, Server!Start, Server!WriteData,
                           Server!bounds, Server!Next
<1>2. CASE Crash /\ UNCHANGED pages
  <2>1. onTheWay' \in {onTheWay, NoConfig}
    BY <1>2, KeptOrLost DEF Crash, pages, HasUncopied
  <2> QED BY <1>2, <2>1 DEF Crash, Server!Crash, Server!Next
<1>3. ASSUME NEW t \in Tabs, Reload(t) \/ SharesLost(t)
      PROVE  Server!Next \/ UNCHANGED Server!vars
  <2>1. \/ onTheWay' = onTheWay
        \/ onTheWay # NoConfig /\ onTheWay' = NoConfig
    BY <1>3, KeptOrLost DEF Reload, SharesLost, HasUncopied, ScreensInv, PagesOK
  <2> QED BY <1>3, <2>1 DEF Reload, SharesLost, bounds, Server!LoseReply, Server!bounds,
                           Server!vars, Server!Next
<1>4. ASSUME NEW t \in Tabs, StatusAnswers(t) \/ StatusFails(t)
      PROVE  UNCHANGED Server!vars
  <2>1. onTheWay' = onTheWay
    BY <1>4, Kept DEF StatusAnswers, StatusFails, vars, HasUncopied
  <2> QED BY <1>4, <2>1 DEF StatusAnswers, StatusFails, vars, Server!vars
<1>5. ASSUME NEW t \in Tabs, ClickInitialize(t) PROVE Server!Next
  <2>1. ~HasUncopied /\ ~HasUncopied' /\ reply = NoConfig
    BY <1>5 DEF ClickInitialize, Initialize, InitializeFails, HasUncopied, ScreensInv,
               PageInv, Inv, SealInv
  <2>2. onTheWay' = reply' /\ onTheWay = reply
    BY <2>1, OnTheWay, OnTheWayNext DEF WayIsDisk, ScreensInv, Inv, SealInv
  <2>3. CASE Initialize
    BY <2>2, <2>3 DEF Initialize, acceptable, bounds, Server!Initialize,
                      Server!acceptable, Server!bounds, Server!Next
  <2>4. CASE InitializeFails
    BY <2>2, <2>4 DEF InitializeFails, acceptable, bounds, Server!InitializeFails,
                      Server!acceptable, Server!bounds, Server!Next
  <2> QED BY <1>5, <2>3, <2>4 DEF ClickInitialize
<1>6. ASSUME NEW t \in Tabs, SharesArrive(t) PROVE Server!Next \/ UNCHANGED Server!vars
  <2>1. \/ onTheWay' = onTheWay
        \/ onTheWay # NoConfig /\ onTheWay' = NoConfig
    BY <1>6, KeptOrLost DEF SharesArrive
  <2> QED BY <1>6, <2>1 DEF SharesArrive, bounds, Server!LoseReply, Server!bounds,
                           Server!vars, Server!Next
<1>7. ASSUME NEW t \in Tabs, Copy(t) PROVE Server!Next
  <2>1. fresh[t] # NoConfig /\ disk = fresh[t] /\ reply = NoConfig /\ reply' = reply
    BY <1>7 DEF Copy, shows, ScreensInv, PageInv
  <2>2. HasUncopied /\ ~HasUncopied'
    BY <1>7, <2>1 DEF Copy, HasUncopied, pages, ScreensInv, PageInv
  <2>3. onTheWay = fresh[t] /\ onTheWay' = NoConfig
    BY <2>1, <2>2, OnTheWay, OnTheWayNext DEF WayIsDisk
  <2> QED BY <1>7, <2>1, <2>3 DEF Copy, bounds, Server!Deliver, Server!bounds, Server!Next
<1>8. ASSUME NEW t \in Tabs, NEW s \in HandedShares \cup Junk, Submit(t, s)
      PROVE  Server!Next \/ UNCHANGED Server!vars
  <2>1. disk' = disk /\ handed' = handed /\ reply' = reply
    BY <1>8, SubmitIsNext DEF SubmitHanded, SubmitJunk, SubmitShare, vars
  <2>2. HasUncopied' <=> HasUncopied
    <3>1. CASE fresh' = fresh
      BY <2>1, <3>1 DEF HasUncopied
    <3>2. CASE fresh' = [fresh EXCEPT ![t] = NoConfig] /\ masterKey' # NoKey
      <4>1. disk \in handed
        BY <2>1, <3>2 DEF ScreensInv, PageInv
      <4>2. ~HasUncopied /\ ~HasUncopied'
        BY <2>1, <4>1 DEF HasUncopied, ScreensInv, PageInv
      <4> QED BY <4>2
    <3> QED BY <1>8, <3>1, <3>2 DEF Submit
  <2>3. onTheWay' = onTheWay
    BY <2>1, <2>2, Kept
  <2>4. ASSUME SubmitShare(s) PROVE Server!SubmitShare(s)
    BY <2>3, <2>4, SameCount DEF SubmitShare, enough, combine, decrypts, sharesOf,
       Server!SubmitShare, Server!enough, Server!combine, Server!decrypts, Server!sharesOf
  <2>5. CASE s \in HandedShares /\ SubmitHanded(s)
    <3>1. s \in Server!HandedShares
      BY <2>5 DEF HandedShares, sharesOf, Server!HandedShares, Server!sharesOf
    <3>2. Server!SubmitHanded(s)
      BY <2>4, <2>5 DEF SubmitHanded, Server!SubmitHanded
    <3> QED BY <3>1, <3>2 DEF Server!Next
  <2>6. CASE s \in Junk /\ SubmitJunk(s)
    <3>1. Server!SubmitJunk(s)
      BY <2>4, <2>6 DEF SubmitJunk, Server!SubmitJunk
    <3> QED BY <2>6, <3>1 DEF Server!Next
  <2>7. CASE UNCHANGED vars
    BY <2>3, <2>7 DEF vars, Server!vars
  <2> QED BY <1>8, <2>5, <2>6, <2>7, SubmitIsNext
<1>9. CASE UNCHANGED sealVars
  <2>1. onTheWay' = onTheWay
    BY <1>9, Kept DEF sealVars, vars, pages, HasUncopied
  <2> QED BY <1>9, <2>1 DEF sealVars, vars, Server!vars
<1> QED BY <1>1, <1>2, <1>3, <1>4, <1>5, <1>6, <1>7, <1>8, <1>9 DEF SealScreensNext

LEMMA ScreensStart == SealScreensInit => Server!Init
<1> SUFFICES ASSUME SealScreensInit PROVE Server!Init
  OBVIOUS
<1>1. onTheWay = NoConfig
  BY DEF SealScreensInit, Init, onTheWay
<1> QED BY <1>1 DEF SealScreensInit, Init, Server!Init

(* The server with any number of pages in front of it is the server of     *)
(* Seal: the operators, who meet the shares only through AuthContext and   *)
(* SealScreen, do to it nothing but what is proved safe above.             *)
THEOREM ScreensImplementSeal == SealScreensSpec => ImplementsSeal
  BY ScreensStart, ScreensStep, ScreensInvCorrect, PTL DEF SealScreensSpec, ImplementsSeal,
     Server!Spec
=============================================================================
