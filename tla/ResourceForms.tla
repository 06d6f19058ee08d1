---------------------------- MODULE ResourceForms ----------------------------
(***************************************************************************)
(* The panel that adds and edits resources (AddResourcesPanel.tsx,         *)
(* IpsecCredentialForm.tsx), with the calls its forms make (useInfraData,  *)
(* api.ts) and what the server does with them (handlers_config.go,         *)
(* handlers_ipsec.go).  One form is mounted at a time.  Nothing is locked  *)
(* while a save is under way: the form can be edited, left, or submitted   *)
(* again, and what comes back goes to the form that is mounted, if it is   *)
(* still the same one.                                                     *)
(*                                                                         *)
(* A text is Blank, Kept (as the server had it) or Typed.  The project     *)
(* Blank is Unassigned.  One field stands for those of a form that are     *)
(* treated alike: "name" for what is required, "rest" for what is not, and *)
(* a secret for the fields a login or a keypair consists of.  Messages are *)
(* left out, and so is a build that fails.                                 *)
(***************************************************************************)
EXTENDS Naturals, FiniteSets

CONSTANTS Old,       \* the ids of each kind that exist before
          Projects, Stored, Bindings,     \* as the server finds them
          MaxSaves, Plans,               \* bounds
          Blank, Kept, Typed, NoId, NoProfile, NoContainer, Gone

Kinds == {"vpn", "host", "service", "credential", "ipsec"}
Ids == [k \in Kinds |-> Old[k] \cup 1..MaxSaves]   \* what submission n creates is n
Buckets == Projects \cup {Blank}
Profiles == Ids["ipsec"]
Secrets == {"psk", "login", "keypair"}   \* of an IPsec profile

(* What an IKE mode cannot do without.                                     *)
modeNeeds == [eap |-> {"login"}, psk |-> {"psk"}, xauth |-> {"psk", "login"},
              cert |-> {"keypair"}]
IkeModes == DOMAIN modeNeeds

(* The five forms: what they start from, and what the browser wants filled *)
(* in before it lets go of a submission.  The project is in no input.      *)
VpnForm == [empty |-> [name |-> Blank, command |-> "plain", shared |-> Blank, project |-> Blank],
            required |-> {"name", "command"}]
HostForm == [empty |-> [name |-> Blank, rest |-> Blank, project |-> Blank],
             required |-> {"name"}]
ServiceForm == [empty |-> [name |-> Blank, type |-> Typed, project |-> Blank],
                required |-> {"name", "type"}]
CredentialForm == [empty |-> [name |-> Blank, password |-> Blank, privateKey |-> Blank,
                              project |-> Blank],
                   required |-> {"name"}]
IpsecCredentialForm == [empty |-> [name |-> Blank, mode |-> "eap", psk |-> Blank, login |-> Blank,
                                   keypair |-> Blank, project |-> Blank],
                        required |-> {"name", "mode"}]

Forms == [vpn |-> VpnForm, host |-> HostForm, service |-> ServiceForm,
          credential |-> CredentialForm, ipsec |-> IpsecCredentialForm]
emptyForm(k) == Forms[k].empty
Fields == [k \in Kinds |-> DOMAIN emptyForm(k)]

Domain(f) == IF f = "mode" THEN IkeModes
             ELSE IF f = "command" THEN {"plain", "ipsec"}
             ELSE IF f = "project" THEN Buckets ELSE {Blank, Kept, Typed}

ASSUME FormsAssumption ==
  /\ MaxSaves \in Nat
  /\ \A q \in Plans :
       /\ q.tabs \subseteq Kinds /\ q.saves \in 0..MaxSaves /\ {q.keys, q.disturbs} \subseteq Nat
       /\ \A v \in q.has \cap Ids["vpn"] : Bindings[v] \in (q.has \cap Profiles) \cup {NoProfile}
  /\ \A k \in Kinds : Old[k] \cap (1..MaxSaves) = {} /\ NoId \notin Ids[k]
  /\ \A k \in Kinds : \A i \in Ids[k] :
       Stored[k][i] # Gone => /\ i \in Old[k]
                             /\ DOMAIN Stored[k][i] = Fields[k]
                             /\ \A f \in Fields[k] : Stored[k][i][f] \in Domain(f)

VARIABLES
  tab, editing, form, profile,       \* the panel; profile: ipsecCredentialId
  shown,                             \* the lists of useInfraData
  active,                            \* the project the dashboard is on
  fetches,                           \* bindings asked for by the form mounted
  saves,                             \* submissions under way (history: typed, seen, and
                                     \* elsewhere: the dashboard was then on another
                                     \* project than the record was)
  records, bound, container,         \* the server; what containers were built from
  typed, seen, profileOf,            \* history: fields typed into this form, the
                                     \* record it was filled from, the VPN the
                                     \* profile shown was fetched or chosen for
  crossed,                           \* history: the edit began while the binding of
                                     \* another VPN was being asked for
  astray,                            \* history: a save of it failed after the bind
  skipped,                           \* history: created by a form without the profile
                                     \* in its command, bound when its command had it
  plan, keys, submitted, disturbs    \* bounds: what there is, the tabs used and the
                                     \* fields set, the submissions, and how often the
                                     \* project is switched or something deleted

panel     == <<tab, editing, form, profile, typed, seen, profileOf, crossed>>
inventory == <<records, bound, container, astray, skipped>>
limits    == <<plan, keys, submitted, disturbs>>
formVars  == <<panel, inventory, limits, shown, active, fetches, saves>>

(* The lists for a project, which hold the VPNs that are shared into it.   *)
Listed(k, r, p) == r # Gone /\ (r.project = p \/ (k = "vpn" /\ p # Blank /\ r.shared # Blank))
Lists(all, p) == [k \in Kinds |-> [i \in Ids[k] |->
                    IF Listed(k, all[k][i], p) THEN all[k][i] ELSE Gone]]

Reset == /\ editing' = NoId /\ form' = emptyForm(tab) /\ profile' = NoProfile
         /\ typed' = {} /\ seen' = emptyForm(tab) /\ profileOf' = NoId /\ crossed' = FALSE

(* Saving a VPN builds its container from the profile it is bound to, if   *)
(* the command names one.                                                  *)
Built(r, b) == IF r.command = "ipsec" THEN b ELSE NoProfile

noSave == [step |-> "none"]

FormsInit ==
  /\ tab = "vpn" /\ editing = NoId /\ form = emptyForm(tab)
  /\ profile = NoProfile
  /\ active \in Projects
  /\ plan \in Plans /\ keys = 0 /\ submitted = 0 /\ disturbs = 0
  /\ records = [k \in Kinds |-> [i \in Ids[k] |-> IF i \in plan.has THEN Stored[k][i] ELSE Gone]]
  /\ shown = Lists(records, active)
  /\ bound = [v \in Ids["vpn"] |-> IF v \in plan.has THEN Bindings[v] ELSE NoProfile]
  /\ container = [v \in Ids["vpn"] |->
       IF records["vpn"][v] = Gone THEN NoContainer ELSE Built(records["vpn"][v], bound[v])]
  /\ fetches = {} /\ saves = [n \in 1..MaxSaves |-> noSave]
  /\ typed = {} /\ seen = form /\ profileOf = NoId /\ crossed = FALSE /\ astray = {}
  /\ skipped = {}

----------------------------------------------------------------------------
(* What the operator does to the panel.                                    *)

(* Another tab, here or of the sidebar, unmounts the form: calls under way *)
(* go on, and find nothing to set when they return.                        *)
SetTab(k) ==
  /\ k # tab /\ k \in plan.tabs
  /\ tab' = k /\ editing' = NoId /\ form' = emptyForm(k) /\ profile' = NoProfile
  /\ typed' = {} /\ seen' = emptyForm(k) /\ profileOf' = NoId /\ crossed' = FALSE
  /\ fetches' = {}
  /\ saves' = [n \in 1..MaxSaves |->
       IF saves[n] = noSave THEN noSave ELSE [saves[n] EXCEPT !.mounted = FALSE]]
  /\ UNCHANGED <<inventory, limits, shown, active>>

(* Secrets of an IPsec profile never come from the server.                 *)
fill(k, r) == IF k = "ipsec" THEN [f \in Fields[k] |-> IF f \in Secrets THEN Blank ELSE r[f]]
              ELSE r

StartWithOld(i) ==                                             \* mutant
  /\ shown[tab][i] # Gone
  /\ editing' = i /\ form' = fill(tab, shown[tab][i])
  /\ typed' = {} /\ seen' = shown[tab][i]
  /\ crossed' = (fetches \ {i} # {})
  /\ fetches' = IF tab = "vpn" THEN fetches \cup {i} ELSE fetches
  /\ UNCHANGED <<tab, profile, profileOf, inventory, limits, shown, active, saves>>

StartEdit(i) ==
  /\ shown[tab][i] # Gone
  /\ editing' = i /\ form' = fill(tab, shown[tab][i])
  /\ typed' = {} /\ seen' = shown[tab][i]
  /\ crossed' = (fetches \ {i} # {})
  /\ IF tab = "vpn"
     THEN /\ profile' = NoProfile /\ profileOf' = NoId
          /\ fetches' = fetches \cup {i}
     ELSE UNCHANGED <<profile, profileOf, fetches>>
  /\ UNCHANGED <<tab, inventory, limits, shown, active, saves>>

(* The answer is not tied to the edit that asked.  A failure leaves None.  *)
BindingAnswers(v) ==
  /\ v \in fetches
  /\ fetches' = fetches \ {v}
  /\ \/ profile' = bound[v] /\ profileOf' = v
     \/ profile' = NoProfile /\ profileOf' = NoId
  /\ UNCHANGED <<tab, editing, form, typed, seen, crossed, inventory, limits, shown, active, saves>>

(* The fields of a mode the form is not in are hidden, and keep their      *)
(* values.                                                                 *)
Visible(f) == IF tab = "ipsec" /\ f \in Secrets
              THEN f \in modeNeeds[form.mode] ELSE f # "project"

SetField(f, v) ==
  /\ keys < plan.keys /\ keys' = keys + 1
  /\ f \in plan.sets /\ Visible(f) /\ v \in Domain(f) \ {Kept, form[f]}
  /\ v = Blank => f \notin Forms[tab].required     \* erasing what is required is left out
  /\ form' = [form EXCEPT ![f] = v]
  /\ typed' = typed \cup {f}
  /\ UNCHANGED <<tab, editing, profile, seen, profileOf, crossed, inventory, plan, submitted,
                 disturbs, shown, active, fetches, saves>>

ChooseProfile(p) ==
  /\ tab = "vpn" /\ "profile" \in plan.sets /\ keys < plan.keys /\ keys' = keys + 1
  /\ p \in {NoProfile} \cup {q \in Profiles : shown["ipsec"][q] # Gone}
  /\ profile' = p /\ profileOf' = editing
  /\ UNCHANGED <<tab, editing, form, typed, seen, crossed, inventory, plan, submitted, disturbs,
                 shown, active, fetches, saves>>

CancelEdit ==
  /\ editing # NoId
  /\ Reset
  /\ UNCHANGED <<tab, inventory, limits, shown, active, fetches, saves>>

(* The form, with what is being edited, stays across a switch.             *)
SwitchProject(p) ==
  /\ disturbs < plan.disturbs /\ p # active
  /\ active' = p /\ shown' = Lists(records, p) /\ disturbs' = disturbs + 1
  /\ UNCHANGED <<panel, inventory, plan, keys, submitted, fetches, saves>>
----------------------------------------------------------------------------
(* Submitting.                                                             *)

(* A profile being created has nothing stored to fall back on.             *)
Lacks(k) ==
  \/ k = "credential" /\ form.password = Blank /\ form.privateKey = Blank
  \/ k = "ipsec" /\ editing = NoId /\ \E f \in modeNeeds[form.mode] : form[f] = Blank

(* The body: an absent key is not in it.  The project of a VPN is its own  *)
(* when it has one; a credential or a profile that is edited sends none.   *)
payloadWipes(k) == [f \in Fields[k] |-> IF f = "project" THEN active ELSE form[f]]   \* mutant
payload(k) ==
  [f \in {f \in Fields[k] :
          /\ k = "ipsec" /\ editing # NoId /\ f \in Secrets => form[f] # Blank
          /\ k \in {"credential", "ipsec"} /\ editing # NoId => f # "project"}
     |-> IF f # "project" THEN form[f]
         ELSE IF k = "vpn" /\ form.project # Blank THEN form.project ELSE active]

SubmitForm ==
  /\ submitted < plan.saves
  /\ \A f \in Forms[tab].required : form[f] # Blank
  /\ ~Lacks(tab)
  /\ submitted' = submitted + 1
  /\ saves' = [saves EXCEPT ![submitted'] =
       [kind |-> tab, id |-> editing, new |-> editing = NoId, body |-> payload(tab),
        profile |-> IF tab = "vpn" THEN profile ELSE NoProfile,
        step |-> IF editing = NoId THEN "post" ELSE IF tab = "vpn" THEN "bind" ELSE "put",
        mounted |-> TRUE, typed |-> typed, seen |-> seen, elsewhere |-> active # seen.project]]
  /\ UNCHANGED <<panel, plan, keys, disturbs, inventory, shown, active, fetches>>

----------------------------------------------------------------------------
(* The calls of a submission, each of which may fail before or after the   *)
(* server did it.                                                          *)

AtStep(n, step) == saves[n] # noSave /\ saves[n].step = step
Advance(n, step) == saves' = [saves EXCEPT ![n].step = step]
stays == <<panel, limits, active, fetches>>

(* The PUT of a profile merges; every other kind is replaced.              *)
merged(k, body, old) == [f \in Fields[k] |->
   IF f \in DOMAIN body THEN body[f] ELSE IF k = "ipsec" THEN old[f] ELSE Blank]

Accepted(k, r) ==
  /\ k = "ipsec" => \A f \in modeNeeds[r.mode] : r[f] # Blank
  /\ k = "credential" => r.password # Blank \/ r.privateKey # Blank

Store(n, i, r, step) ==
  /\ records' = [records EXCEPT ![saves[n].kind][i] = r]
  /\ container' = IF saves[n].kind = "vpn"
                  THEN [container EXCEPT ![i] = Built(r, bound[i])] ELSE container
  /\ saves' = [saves EXCEPT ![n].id = i, ![n].step = step]
  /\ UNCHANGED <<stays, bound, shown>>

PostRecord(n) ==
  /\ AtStep(n, "post")
  /\ LET r == merged(saves[n].kind, saves[n].body, <<>>) IN
       Accepted(saves[n].kind, r) /\ Store(n, n, r, "posted")
  /\ UNCHANGED <<astray, skipped>>

PutRecord(n) ==
  /\ AtStep(n, "put")
  /\ LET k == saves[n].kind
         i == saves[n].id
         r == merged(k, saves[n].body, records[k][i]) IN
       /\ records[k][i] # Gone /\ Accepted(k, r)
       /\ Store(n, i, r, "done")
       /\ IF k = "vpn" THEN astray' = astray \ {i} /\ skipped' = skipped \ {i}
          ELSE UNCHANGED <<astray, skipped>>

BindWithoutBuild(n) ==                                         \* mutant
  /\ AtStep(n, "bind")
  /\ bound' = [bound EXCEPT ![saves[n].id] = saves[n].profile]
  /\ Advance(n, IF saves[n].new THEN "bound" ELSE "put")
  /\ UNCHANGED <<stays, records, container, astray, skipped, shown>>

(* A creation saves again, and so builds, only if the command it submitted *)
(* names the profile.  The VPN is in the lists by then, and its command    *)
(* may have been edited in between.                                        *)
Bind(n) ==
  /\ AtStep(n, "bind")
  /\ LET v == saves[n].id
         last == saves[n].new /\ saves[n].body.command # "ipsec" IN
       /\ records["vpn"][v] # Gone
       /\ saves[n].profile \in {NoProfile} \cup {q \in Profiles : records["ipsec"][q] # Gone}
       /\ bound' = [bound EXCEPT ![v] = saves[n].profile]
       /\ Advance(n, IF last THEN "bound" ELSE "put")
       /\ skipped' = IF last /\ records["vpn"][v].command = "ipsec" THEN skipped \cup {v} ELSE skipped
  /\ UNCHANGED <<stays, records, container, astray, shown>>

(* What a creation, an update or a deletion ends with (ProjectView has the *)
(* reloads that fail, or answer late).                                     *)
ListAgain(all) == shown' = Lists(all, active)

PostedThenBind(n) ==
  /\ AtStep(n, "posted") /\ saves[n].profile # NoProfile
  /\ ListAgain(records) /\ Advance(n, "bind")
  /\ UNCHANGED <<stays, inventory>>

Finish(n) ==
  /\ \/ AtStep(n, "posted") /\ saves[n].profile = NoProfile /\ ListAgain(records)
     \/ AtStep(n, "done") /\ ListAgain(records)
     \/ AtStep(n, "bound") /\ UNCHANGED shown
  /\ saves' = [saves EXCEPT ![n] = noSave]
  /\ IF saves[n].mounted
     THEN Reset /\ UNCHANGED tab
     ELSE UNCHANGED panel
  /\ UNCHANGED <<inventory, limits, active, fetches>>

(* Caught or not, an error leaves the form as it is.                       *)
Fail(n) ==
  /\ saves[n] # noSave
  /\ saves' = [saves EXCEPT ![n] = noSave]
  /\ astray' = IF saves[n].kind = "vpn" /\ saves[n].step = "put"
               THEN astray \cup {saves[n].id} ELSE astray
  /\ UNCHANGED <<stays, shown, records, bound, container, skipped>>

(* The bin beside an entry.  The container goes with its VPN, bindings go  *)
(* with a profile, and other containers stay as they were built.           *)
RemoveEntry(k, i) ==
  /\ k = tab /\ shown[k][i] # Gone /\ disturbs < plan.disturbs
  /\ disturbs' = disturbs + 1
  /\ records' = [records EXCEPT ![k][i] = Gone]
  /\ ListAgain(records')
  /\ bound' = [v \in Ids["vpn"] |-> IF k = "ipsec" /\ bound[v] = i THEN NoProfile ELSE bound[v]]
  /\ astray' = astray \cup {v \in Ids["vpn"] : bound'[v] # bound[v]}
  /\ container' = IF k = "vpn" THEN [container EXCEPT ![i] = NoContainer] ELSE container
  /\ UNCHANGED <<panel, plan, keys, submitted, active, fetches, saves, skipped>>

FormsNext ==
  \/ \E k \in Kinds : SetTab(k)
  \/ \E i \in Ids[tab] : StartEdit(i)
  \/ \E v \in Ids["vpn"] : BindingAnswers(v)
  \/ \E f \in Fields[tab] : \E v \in Domain(f) : SetField(f, v)
  \/ \E p \in Profiles \cup {NoProfile} : ChooseProfile(p)
  \/ CancelEdit
  \/ \E p \in Buckets : SwitchProject(p)
  \/ SubmitForm
  \/ \E n \in 1..MaxSaves : \/ PostRecord(n) \/ PutRecord(n) \/ Bind(n) \/ PostedThenBind(n)
                            \/ Finish(n) \/ Fail(n)
  \/ \E k \in Kinds : \E i \in Ids[k] : RemoveEntry(k, i)

FormsSpec == FormsInit /\ [][FormsNext]_formVars
----------------------------------------------------------------------------
FormsTypeOK ==
  /\ tab \in Kinds /\ editing \in Ids[tab] \cup {NoId}
  /\ DOMAIN form = Fields[tab] /\ \A f \in Fields[tab] : form[f] \in Domain(f)
  /\ profile \in Profiles \cup {NoProfile}
  /\ fetches \subseteq Ids["vpn"]
  /\ \A n \in 1..MaxSaves : saves[n] # noSave =>
       saves[n].step \in {"post", "posted", "bind", "bound", "put", "done"}
  /\ \A v \in Ids["vpn"] : container[v] \in Profiles \cup {NoProfile, NoContainer}

(* The project is in no input, and yet a save can move what it saves: the  *)
(* update of a credential sends none, and the PUT replaces; a host or a    *)
(* service goes to the project the dashboard was switched to under the     *)
(* form, and an unassigned VPN to the one it was shared into (updateVpn).  *)
movesProject(s) ==
  \/ s.kind = "credential"
  \/ s.kind \in {"host", "service"} /\ s.elsewhere
  \/ s.kind = "vpn" /\ s.seen.project = Blank /\ s.elsewhere

(* What the operator did not touch keeps its stored value: a field of a    *)
(* record changes only when a form it was typed into is saved, or one that *)
(* was filled from a list older than the record.  In particular a secret,  *)
(* which the form never shows, survives every edit of something else.  The *)
(* one field that changes untyped is the project, and only in the cases of *)
(* movesProject: a VPN that has an owner is never stolen ("forcing the     *)
(* active project here would silently steal it", useInfraData), wherever   *)
(* the dashboard is when it is saved, and a profile stays in its project.  *)
OnlyTypedChanges ==
  [][\A k \in Kinds : \A i \in Ids[k] : \A f \in Fields[k] :
       (records[k][i] # Gone /\ records'[k][i] # Gone /\ records'[k][i][f] # records[k][i][f])
         => \E n \in 1..MaxSaves :
              /\ saves[n] # noSave /\ saves[n].kind = k /\ saves[n].id = i
              /\ \/ f \in saves[n].typed \/ saves[n].seen[f] # records[k][i][f]
                 \/ f = "project" /\ movesProject(saves[n])]_formVars

(* A container runs on the profile its VPN is bound to: unless a call      *)
(* failed after the binding, or the profile was deleted, saves that are    *)
(* over leave a container built from the binding in force, also when they  *)
(* overlapped.  The one overlap that does not: a creation whose command    *)
(* has no use for the profile, and an edit, made before it binds, that     *)
(* gives the VPN a command that has.                                       *)
ContainerUsesBinding ==
  \A v \in Ids["vpn"] :
    \/ records["vpn"][v] = Gone \/ v \in astray \/ v \in skipped
    \/ \E n \in 1..MaxSaves : saves[n] # noSave /\ saves[n].kind = "vpn" /\ saves[n].id = v
    \/ container[v] \in {Built(records["vpn"][v], bound[v]), NoContainer}

(* The profile shown against a VPN is the one it is bound to, or was       *)
(* chosen for it, "so a slow (or failed) fetch can't leave the previously  *)
(* edited VPN's profile showing against this one -- and then be saved onto *)
(* it" (startEdit).  That is so unless the fetch is still out when the     *)
(* edit begins: its answer is then shown against the wrong VPN.            *)
ProfileShownIsOwn ==
  editing # NoId /\ tab = "vpn" /\ profile # NoProfile => crossed \/ profileOf = editing
=============================================================================
