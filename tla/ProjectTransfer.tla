--------------------------- MODULE ProjectTransfer ---------------------------
(***************************************************************************)
(* Projects in the browser: the list of them and the one the dashboard is  *)
(* on (useProjects, Dashboard, ProjectsTab), a project exported to a file  *)
(* (ExportUmlDialog, umlExport) and a file imported as a new project       *)
(* (ImportProjectDialog).                                                  *)
(*                                                                         *)
(* The lists an export is made of are read one by one, while others edit   *)
(* the project.  An import is a long sequence of calls, any of which may   *)
(* fail before or after the server did it; what exists by then stays.      *)
(*                                                                         *)
(* An item of the project has a kind and the items it refers to.  The copy *)
(* import n makes of item i is <<n, i>>, in project n.                     *)
(***************************************************************************)
EXTENDS Naturals, FiniteSets

CONSTANTS Items, KindOf, RefsOf,        \* what the exported project can hold
          Home, Unassigned, NoFile, NoList,
          MaxImports, MaxLists, Extents     \* bounds, see extent

(* In what order an import creates.                                        *)
after == [project |-> "credential", credential |-> "vpn", vpn |-> "host",
          host |-> "service", service |-> "over"]
Sorts == {"credential", "vpn", "host", "service"}
Copies == (1..MaxImports) \X Items
OfSort(s, k) == {i \in s : KindOf[i] = k}

(* What kinds of records a record has ids of.                              *)
RefersToKinds == [credential |-> {}, vpn |-> {"credential"},
                  host |-> {"credential", "vpn"}, service |-> {"host"}]

File == [items : SUBSET Items, secrets : BOOLEAN]

ASSUME TransferAssumption ==
  /\ KindOf \in [Items -> Sorts] /\ RefsOf \in [Items -> SUBSET Items]
  /\ \A i \in Items : \A j \in RefsOf[i] : KindOf[j] \in RefersToKinds[KindOf[i]]
  /\ NoFile \notin File /\ \A s \in SUBSET Copies : s # NoFile
  /\ \A s \in SUBSET Items : s # NoList
  /\ MaxImports \in Nat /\ MaxLists \in Nat \ {0}
  /\ Unassigned # Home /\ {Home, Unassigned} \cap (1..MaxImports) = {}
  /\ Extents \subseteq [items : SUBSET Items, reads : SUBSET SUBSET Sorts, lists : 1..MaxLists,
                      imports : 0..MaxImports, edits : Nat]

VARIABLES
  alive, content, copies,     \* the server: projects, what Home and the copies hold
  projects, current, asked,   \* the dashboard; lists under way, see AskList
  lists, file,                \* the export: a list of each kind, and the file saved
  imports,                    \* every click on "Import as New Project"
  dialog,                     \* the import of the dialog that is open, or 0
  overlap,                    \* history: a list was asked for with another under way
  extent, changed             \* bounds: the items, which lists of them are read at
                              \* one moment, how many lists of projects are asked
                              \* for, how many imports, and changes meanwhile

transferVars == <<alive, content, copies, projects, current, asked, lists, file,
                  imports, dialog, overlap, extent, changed>>
projectVars == <<projects, current, asked, overlap>>

noImport == [stage |-> "none", from |-> NoFile, mapped |-> {}]

(* If the project is not in the list, the dashboard falls back.            *)
fallback(p, list) == IF list = NoList \/ p = Unassigned THEN p
                     ELSE IF p \in list THEN p ELSE Unassigned

(* A list asked for: what the server read, once it has, and the project to *)
(* switch to when it has arrived.                                          *)
noCall == [state |-> "none", list |-> NoList, then |-> Unassigned]
listCall(p) == [state |-> "asked", list |-> NoList, then |-> p]
AskList(p) ==
  /\ \E c \in 1..extent.lists :
       /\ asked[c].state = "none" /\ \A d \in 1..(c - 1) : asked[d].state # "none"
       /\ asked' = [asked EXCEPT ![c] = listCall(p)]
  /\ overlap' = (overlap \/ \E c \in 1..MaxLists : asked[c].state \in {"asked", "read"})
ListOver(c) == asked' = [asked EXCEPT ![c] = [noCall EXCEPT !.state = "over"]]

TransferInit ==
  /\ extent \in Extents /\ changed = 0
  /\ alive \in {{Home}, {}} /\ content = IF alive = {} THEN {} ELSE extent.items
  /\ copies = [x \in Copies |-> NoFile]
  /\ projects = NoList /\ current \in {Home, Unassigned}
  /\ asked = [c \in 1..MaxLists |->
                IF c = 1 THEN listCall(Unassigned) ELSE noCall]
  /\ lists = [k \in Sorts |-> NoList] /\ file = NoFile
  /\ imports = [n \in 1..MaxImports |-> noImport] /\ dialog = 0
  /\ overlap = FALSE

----------------------------------------------------------------------------
(* The list of projects.                                                   *)

ReadList(c) ==
  /\ asked[c].state = "asked"
  /\ asked' = [asked EXCEPT ![c].state = "read", ![c].list = alive]
  /\ UNCHANGED <<alive, content, copies, projects, current, lists, file, imports, dialog,
                 overlap, extent, changed>>

SwitchFirst(c) ==                                              \* mutant
  /\ asked[c].state = "read"
  /\ projects' = asked[c].list
  /\ current' = IF asked[c].then = Unassigned THEN fallback(current, projects')
                ELSE fallback(asked[c].then, projects)
  /\ ListOver(c)
  /\ UNCHANGED <<alive, content, copies, lists, file, imports, dialog, overlap, extent, changed>>

(* The list is there before the dashboard switches.                        *)
ListArrives(c) ==
  /\ asked[c].state = "read"
  /\ projects' = asked[c].list
  /\ current' = fallback(IF asked[c].then = Unassigned THEN current ELSE asked[c].then,
                         projects')
  /\ ListOver(c)
  /\ UNCHANGED <<alive, content, copies, lists, file, imports, dialog, overlap, extent, changed>>

(* The dashboard stays with what it had, and does not switch.              *)
ListFails(c) ==
  /\ asked[c].state \in {"asked", "read"}
  /\ ListOver(c)
  /\ UNCHANGED <<alive, content, copies, projects, current, lists, file, imports, dialog,
                 overlap, extent, changed>>

ChooseProject(p) ==
  /\ projects # NoList /\ p \in projects \cup {Unassigned} /\ p # current
  /\ current' = p
  /\ UNCHANGED <<alive, content, copies, projects, asked, lists, file, imports, dialog,
                 overlap, extent, changed>>

(* A project is deleted here, which reloads, or elsewhere, or its member   *)
(* is taken off it.                                                        *)
DeleteProject(p) ==
  /\ p \in alive /\ changed < extent.edits /\ changed' = changed + 1
  /\ alive' = alive \ {p}
  /\ \/ projects # NoList /\ p \in projects /\ AskList(Unassigned)
     \/ UNCHANGED <<asked, overlap>>
  /\ UNCHANGED <<content, copies, projects, current, lists, file, imports, dialog, extent>>

(* An item goes, a host with its services, or comes.                       *)
EditHome(i) ==
  /\ changed < extent.edits /\ changed' = changed + 1
  /\ \/ i \in content /\ content' = content \ ({i} \cup
          {s \in Items : KindOf[i] = "host" /\ KindOf[s] = "service" /\ i \in RefsOf[s]})
     \/ i \in extent.items \ content /\ RefsOf[i] \subseteq content /\ content' = content \cup {i}
  /\ UNCHANGED <<alive, copies, projectVars, lists, file, imports, dialog, extent>>

----------------------------------------------------------------------------
(* Export.  One list that fails leaves the dialog loading.                 *)

OpenExport ==
  /\ projects # NoList /\ Home \in projects
  /\ \E k \in Sorts : lists[k] # NoList
  /\ lists' = [k \in Sorts |-> NoList]
  /\ UNCHANGED <<alive, content, copies, projectVars, file, imports, dialog, extent, changed>>

Gather(kinds) ==
  /\ projects # NoList /\ Home \in projects \cap alive
  /\ \A k \in kinds : lists[k] = NoList
  /\ lists' = [k \in Sorts |-> IF k \in kinds THEN OfSort(content, k) ELSE lists[k]]
  /\ UNCHANGED <<alive, content, copies, projectVars, file, imports, dialog, extent, changed>>

(* buildProjectJson; the file is chosen at once.                           *)
ExportJson(includeSecrets) ==
  /\ \A k \in Sorts : lists[k] # NoList
  /\ file' = [items |-> UNION {lists[k] : k \in Sorts}, secrets |-> includeSecrets]
  /\ file' # file
  /\ UNCHANGED <<alive, content, copies, projectVars, lists, imports, dialog, extent, changed>>

----------------------------------------------------------------------------
(* Import.  The stage of an import is what it is creating; "mapped" is the *)
(* keys of its four maps.                                                  *)

importing(n) == imports[n].stage \in DOMAIN after

ClickImport(n) ==
  /\ n <= extent.imports /\ file # NoFile /\ imports[n] = noImport /\ \A m \in 1..(n - 1) : imports[m] # noImport
  /\ dialog # 0 => ~importing(dialog) /\ imports[dialog].stage # "over"
  /\ imports' = [imports EXCEPT ![n] = [stage |-> "project", from |-> file, mapped |-> {}]]
  /\ dialog' = n
  /\ UNCHANGED <<alive, content, copies, projectVars, lists, file, extent, changed>>

(* The dialog is closed; the calls go on.                                  *)
CloseImport ==
  /\ dialog # 0 /\ dialog' = 0
  /\ UNCHANGED <<alive, content, copies, projectVars, lists, file, imports, extent, changed>>

CreateProject(n) ==
  /\ imports[n].stage = "project"
  /\ alive' = alive \cup {n}
  /\ imports' \in {[imports EXCEPT ![n].stage = "credential"], [imports EXCEPT ![n].stage = "failed"]}
  /\ UNCHANGED <<content, copies, projectVars, lists, file, dialog, extent, changed>>

(* A redacted credential is skipped, and a service whose host has no copy. *)
toCreate(n) ==
  {i \in OfSort(imports[n].from.items, imports[n].stage) :
     /\ KindOf[i] = "credential" => imports[n].from.secrets
     /\ KindOf[i] = "service" => RefsOf[i] \subseteq imports[n].mapped}

refersToOld(n, i) == {IF j \in imports[n].mapped THEN <<n, j>> ELSE j : j \in RefsOf[i]}  \* mutant
refersTo(n, i) == {<<n, j>> : j \in RefsOf[i] \cap imports[n].mapped}

CreateCopy(n, i) ==
  /\ imports[n].stage \in Sorts /\ n \in alive
  /\ i \in toCreate(n) \ imports[n].mapped
  /\ copies' = [copies EXCEPT ![<<n, i>>] = refersTo(n, i)]
  /\ imports' \in {[imports EXCEPT ![n].mapped = @ \cup {i}],
                   [imports EXCEPT ![n].stage = "failed"]}
  /\ UNCHANGED <<alive, content, projectVars, lists, file, dialog, extent, changed>>

NextKind(n) ==
  /\ imports[n].stage \in Sorts /\ toCreate(n) \subseteq imports[n].mapped
  /\ imports' = [imports EXCEPT ![n].stage = after[@]]
  /\ IF imports[n].stage = "service" THEN AskList(n) ELSE UNCHANGED <<asked, overlap>>
  /\ UNCHANGED <<alive, content, copies, projects, current, lists, file, dialog, extent, changed>>

ImportFails(n) ==
  /\ importing(n)
  /\ imports' = [imports EXCEPT ![n].stage = "failed"]
  /\ UNCHANGED <<alive, content, copies, projectVars, lists, file, dialog, extent, changed>>

TransferNext ==
  \/ \E c \in 1..MaxLists : ReadList(c) \/ ListArrives(c) \/ ListFails(c)
  \/ \E p \in {Home, Unassigned} \cup 1..MaxImports : ChooseProject(p) \/ DeleteProject(p)
  \/ \E i \in Items : EditHome(i)
  \/ OpenExport \/ CloseImport
  \/ \E kinds \in extent.reads : Gather(kinds)
  \/ \E b \in BOOLEAN : ExportJson(b)
  \/ \E n \in 1..MaxImports : \/ ClickImport(n) \/ CreateProject(n) \/ NextKind(n) \/ ImportFails(n)
                              \/ \E i \in Items : CreateCopy(n, i)

TransferSpec == TransferInit /\ [][TransferNext]_transferVars
----------------------------------------------------------------------------
TransferTypeOK ==
  /\ alive \subseteq {Home} \cup 1..MaxImports /\ content \subseteq Items
  /\ current \in {Home, Unassigned} \cup 1..MaxImports
  /\ \A n \in 1..MaxImports : imports[n].stage \in DOMAIN after \cup {"none", "over", "failed"}

(* What of a file reaches a new project: all but redacted credentials and  *)
(* services whose host the file does not have.                             *)
carried(f) == {i \in f.items : /\ KindOf[i] = "credential" => f.secrets
                               /\ KindOf[i] = "service" => RefsOf[i] \subseteq f.items}

(* At every moment, also when a call failed and half of it is there, when  *)
(* lists of different moments are in the file, and when two imports run at *)
(* once, what an import made refers to what the same import made of the    *)
(* items the file's records refer to, and to nothing else: nothing of the  *)
(* project exported, and nothing lost.  When it says that it is done, all  *)
(* of it is there.                                                         *)
ImportIsFaithful ==
  \A n \in 1..MaxImports : imports[n].from # NoFile =>
    LET all == carried(imports[n].from)
        made == {i \in Items : copies[<<n, i>>] # NoFile}
    IN  /\ made \subseteq all /\ (imports[n].stage = "over" => made = all)
        /\ \A i \in made : copies[<<n, i>>] = {<<n, j>> : j \in RefsOf[i] \cap all}

(* "Creating a project is an act of intent to work in it -- switch the     *)
(* whole dashboard over" (Dashboard): a list that arrives takes the        *)
(* dashboard to the project just created, or leaves it where it is, unless *)
(* that project is gone, as long as no list was asked for while another    *)
(* was on its way.                                                         *)
LeavesOnlyDeleted ==
  [][\A c \in 1..MaxLists : (ListArrives(c) /\ ~overlap) =>
       LET p == IF asked[c].then = Unassigned THEN current ELSE asked[c].then
       IN  current' = p \/ p \notin alive]_transferVars
=============================================================================
