# Davy Jones in TLA+

Davy Jones is a Go server with an embedded React dashboard: it keeps an
encrypted inventory of VPNs, hosts, services and credentials, brings VPN
containers up and down, and opens SSH terminals through them. Beside it lives a
small monitoring system, one master and a worker per VM. This directory holds
TLA+ modules of the parts whose behaviour is hard to test, the TLC
configurations that check them, and proofs that TLAPS checks.

`PROJECT.json` lists the components, the runs, the source lines behind every
definition (`map`), for each property a plausible bug that breaks it
(`mutants`), the disagreements between code and comments (`findings`), and what
is hard to test in this code, at its line (`hazards`).

    tlc -workers 2 -config MCAuthManager.cfg MCAuthManager
    tlapm AuthManagerProofs.tla

## The system

| part | state | operations | talks to |
|---|---|---|---|
| accounts, sessions (`auth.go`, `handlers_auth.go`, `handlers_users.go`, `middleware.go`) | `users.json`; the session map; the outcome of the one-time migration | setup, login, logout, create, delete, role, password, every authenticated request | storage; the seal, for the key |
| roles (`roles.go`) | none | permission checks | the middleware |
| seal (`seal.go`, `handlers_seal.go`) | `seal.json`; key and pending shares in memory | initialise, submit a share | storage; the operators who hold shares |
| storage (`storage.go`, `crypto.go`) | one file per resource, rewritten whole | read, write | the disk |
| resources (`handlers_config.go`, `handlers_projects.go`, `handlers_saved_commands.go`, `handlers_layout.go`, `access.go`) | VPNs, hosts, services, credentials, commands, projects, layouts, each a list in a file of its own | list, create, update, delete with cascades, each after asking who is in the project | storage, docker |
| IPsec (`ipsec.go`, `handlers_ipsec.go`) | credentials and their bindings, in one file | create, merge, delete, bind | storage, projects |
| VPN idle tracker (`vpnidle.go`, `docker.go`) | last use and open shells per VPN | touch, hold, sweep | docker, terminals |
| terminals (`terminal.go`, `ssh.go`, `shellrecorder.go`) | a session per socket, the line being typed | input, output, resize, close | SSH, the tracker, the audit log |
| metrics (`metrics.go`) | a cached entry and a ring of samples per host | get, collect, evict | SSH |
| discovery, status, ping | none | probes and parsing | SSH |
| monitor-master (`monitor/cmd/monitor-master`) | workers, checks, results, in one file | admin routes, worker routes, the sweep for silent workers | workers, the webhook |
| monitor-worker (`monitor/cmd/monitor-worker`) | known checks, schedule, results that wait | poll, run, flush | the master |
| canvas (`useInfraData.ts`, `useGraphLayout.ts`, `InfraGraph.tsx`) | what is drawn where, drags that wait to be saved | project switch, reload, save | the server |
| live status (`usePingStatus.ts`, `useHostMetrics.ts`, `useServiceStatus.ts`, the nodes) | the last reading of every host and service, the hosts found missing | three polls, restarted with what they are about | discovery, metrics; the canvas |
| first screens (`AuthContext.tsx`, `SealScreen.tsx`) | the phase of a page, the shares it just received | initialise, show and copy shares, submit one | the seal |
| session (`AuthContext.tsx`, `LoginScreen.tsx`, `Header.tsx`, `UsersTab.tsx`, `ChangePasswordDialog.tsx`) | the token, in localStorage for all tabs; the account, in each | setup, login, lock, reload, the account screens | accounts |
| forms (`AddResourcesPanel.tsx`, `IpsecCredentialForm.tsx`) | the form that is mounted, what it edits, the profile it shows | fill, edit, submit, cancel, delete | resources, IPsec, docker |
| project list, export, import (`useProjects.ts`, `Dashboard.tsx`, `ProjectsTab.tsx`, `ExportUmlDialog.tsx`, `ImportProjectDialog.tsx`, `umlExport.ts`) | the list and the project chosen, the lists gathered, the ids mapped | choose, delete, export, import record by record | projects, resources |

What makes each correct, in a line: names stay unique and somebody can log in,
and a session says what its account says; the key in memory is the key on
paper; a project admits only those somebody in it let in, and what is bound or
tagged resolves; alerts say what the status says, once per change; a result that was
produced is recorded; nothing outlives what it belongs to; a screen shows what
holds and offers what the server allows; what nobody typed or chose is never
saved.

What is hard: handlers that read a file, spend a hundred milliseconds in bcrypt
and write the file back; writes that truncate first; replies lost after the
state was saved; reports that time out after they were recorded; goroutines that
flush at the same time; state in memory ahead of state on disk; in the browser,
answers that arrive after the screen they were asked for has changed.

## Modules

**`Roles`** — the levels of `roles.go`. A blank stored role reads as an
administrator, everywhere.

**`AuthManager`** (extends `Roles`) — `users` is `users.json`, by account id;
`sessions` is the map under `AuthManager.mu`; each handler has a `pc`, the
request `req` it serves and the list `seen` it read. An operation is split
exactly where another goroutine can come in: `Admit` (the session check and the
role check on its copy), `ReadFor...` (`GetUsers` and every condition tested on
the result), `SaveNewAccount` / `SaveEdit` / `SaveFails`, then `Purge` or
`OpenSession` under the lock. bcrypt has no step: it is the time between two
steps. `Refuse` is the early return; `Migrate` and `MigrateFails` are
`ensureMigrated`; `Restart` drops all that lives in memory. A write that fails
leaves the old file, an empty one (which reads back as no accounts) or one that
does not decrypt (`corrupt`). Names are compared as `strings.EqualFold` does,
so a name stands for its case variants. `stale` is a history variable: some
handler has acted on a list that was no longer stored.

**`Accounts`** (extends `Roles`) — what `AuthManager` promises: a server without
handlers, locks or files, where a change of an account and the end of the
sessions it contradicts are one step, a login opens its session from the accounts
as they are, somebody is always left, and ids and tokens never come back.
`ImplementsAccounts` is the refinement. A change happens where the list is saved;
a session that a handler is still to purge counts as over from there on
(`settled`), a token that was given out stays given out. `lost` is `stale`: once
somebody has acted on a list that had changed, nothing is promised any more, and
finding 1 shows why nothing can be.

**`Seal`** — `disk` is `seal.json`, and `config`, `masterKey`, `pending` are the
fields of `SealManager`. Operations are single steps, for they hold its lock;
between `Initialize` and `Deliver` lies the HTTP response, which `LoseReply` or
`Crash` can eat. `combine` stands for `shamir.Combine`: a threshold of distinct
shares of the key gives the key, anything else an error or other bytes, which
the check value rejects (`decrypts`).

**`SealScreens`** (extends `Seal`) — the pages in front of that server: `phase`,
`freshShares` (`fresh`) and what each waits for (`doing`). It uses `Seal`'s
`Start`, `Crash`, `Initialize` and the submissions as they are, and replaces
`Deliver` and `LoseReply`, which know no browser, by what happens to an answer:
it reaches the page that asked (`SharesArrive`), is lost (`SharesLost`,
`Reload`), and is paper only after `Copy`, from the screen for unsealing, which
alone shows it. `ImplementsSeal` is the refinement: with `reply` read as
`onTheWay` (the answer, or what a page holds and nobody copied), the pages do
nothing to the server that `Seal` does not allow. `Seal` is thus the abstract
specification, and what is proved of it holds with browsers in front.

**`MonitorMaster`** — `mem` is `Store.state` and `disk` the file; `Commit` is
`save`, which renames a complete file into place or fails and leaves the old
one. The admin operations and the three lock acquisitions of a worker's request
(`Authenticate`, `TouchWorker`, then `Answer` or `RecordResults`) are actions;
the loop of `RecordResults` is stepped one result at a time with the lock held,
so that a crash can fall inside it. `told` and `toldW` record the last alert
decided about a check and a worker, since `Transition` and the `Silent` flag
exist for nothing but those alerts.

**`MonitorWorker`** — the scheduler: `listed`, `due`, `running` and `pending`
are its maps and its backlog, `main` is where the loop of `run` stands, `owed`
counts goroutines about to flush. `flight` is what a goroutine waits for and
`wire` what is under way for it, so that a client can give up on a request the
master will still handle. Of the master there is the definitions of the checks
and the results it was given; `BodyLimit` is its limit on one report, counted in
results.

**`Outbox`** — what the worker promises of its results: at-least-once delivery
with a limit. Four sets, no goroutines and no order: what is `kept`, `sent`
(under way), `recorded`, and `cut`. The worker may send what it keeps as often as
it likes, forgets only what was recorded, and gives up the old only if
`MaxPending` others are kept then; a result is recorded only if it was sent, and
is produced once. `ImplementsOutbox` reads `kept` off the backlog together with
what the flushing goroutines hold, and `sent` off the wire, where a request that
timed out can outlive both its goroutine and its worker.

**`VpnIdle`** — `lastUsed` and `active` are the tracker's maps, `containers` is
what docker holds, `vpns` the file. A clock is kept as minutes since, and stops
counting at `Cap`, beyond which no comparison of the code can tell two values
apart. `tick` is the one tick that a ticker's channel keeps, by its age, and
`sweep` the loop over the list it read, with the age of its tick: the code
compares with the time of the tick, not the time of the comparison. A request
that calls docker is split at every call and at the write of the file
(`DockerLook`, `DockerRemove`, `DockerRun`, ...), and docker may fail at each. A
failed write leaves the file as it was or empty. Hosts without a VPN touch
nothing and are left out. `quiet` is a history variable: the minutes since the
VPN was used, a stop of it was attempted, or the server started.

**`ProjectView`** — one browser. `data`, `loading`, `error`, `loadedOnce` are the
state of `useInfraData`; `positions`, `loaded`, `timer`, `pending` that of
`useGraphLayout`; `canvas` and `hydrated` what `InfraGraph` makes of them. A
render with its effects is one step (`Render`), since React runs them before the
next event; a switch is a render that sets `projectRef`, followed by the cleanup
of the old effects, which is why `Switch(q)` flushes to `q`. Loads, saves and
edits answer in any order; the load of a layout that was cancelled is dropped
from `loads`, for its answer changes nothing. An arrangement is the project whose
nodes it places and the number of the drag that made it, 0 being the automatic
layout. The server's `PUT` is split at its read and its write. Leaving the page
is not modelled.

**`Inventory`** — the files of the inventory, `store[file]`: the five kinds of
resource, the projects with their members, and the IPsec profiles with the
bindings of VPNs. VPNs are here what every resource is, tagged and shared; their
containers are in `VpnIdle`. The handlers are one pattern: read the list, ask the projects'
file whether the caller may, write the list; so a request is a record with a
`step` (`read`, `check`, `save`), the list it has `seen` and the one it is to
`write`, and the storage's lock covers one read or one write. What is asked is
read when it is asked (`canAccessProject`, `canAccessHost`), and as the code has
it: no project is open to all, and so are a project that does not resolve, one
without members, and everything while the projects' file cannot be read. A
creation asks first and reads afterwards, an update the other way round, which
is why `PostResource` and `PutReads` carry different conditions. Deleting a host
saves the hosts, then reads and saves the services (`ThenCascade`, `Cascade`).
A write that fails leaves the old file, an empty one or `Junk`, which no later
read gets past; a read that fails although the file is good ends the request
(`Ends`). Of a read that fails inside `canAccessProject` while the file is good
only the file's loss is modelled. The clocks, names and addresses of a record
are left out, and members that are no users. `vouched` and `stale` are history
variables: who was let into a project, created it or found it open, and whether
the hosts were saved over a list that had changed since. `Known` is what existed
before, so that ids are new.

**`LiveStatus`** — the hosts as they are (`exists`, `up`, `load`, `runs`), as
they are listed (`listed`), and as they were found (`status`, `metrics`,
`statuses`). `polls[k][h]` holds the calls of one poll about one host: none,
asked, or the answer on its way, so rounds overlap and answers overtake each
other. Each poll is an effect with a key; `Redraw` is the render after the hosts
listed or the ping status changed, which cleans up and starts again the effects
whose key is another. A cleaned-up effect ignores its answers, except that
`deadHosts.current.add` is outside that test: such calls move to `late`, with the
answer they have or may still get. `findHost` is the server's, which takes a file
it cannot read for one without hosts, so that every poll can be told "host not
found" of a host that exists; `misread`, a history variable, keeps the hosts of
which a status call was. `serviceDot` and `gauge` are what the nodes draw.

**`ResourceForms`** — the panel of five forms, of which one is mounted. `saves`
are the submissions under way, each a list of steps (bind, put, list again),
split at every call; between two of them the form can be edited, submitted
again, or left, and nothing is locked. What comes back reaches the form if it is
still mounted. Behind it is the server, one request at a time, with the docker
build of a VPN (`container`) made of the binding at that moment; the
interleavings inside the server are `Inventory`'s. Texts are `Blank`, `Kept` (as
the server has it) or `Typed`. The project is a field like the others, in no
input: what a submission sends for it is its own, that of the dashboard, or
nothing, by the kind of record (`payload`, `merged`). `typed`, `seen`,
`profileOf`, `crossed`, `astray` and `skipped` are history variables, and so is
`elsewhere` in a submission: whether the dashboard was then on another project
than the record. `OnlyTypedChanges` speaks of every field, and names in
`movesProject` the three cases in which the project changes though nobody typed
it; each is needed, for without it TLC finds the save that moves the record.

**`BrowserSession`** (extends `Roles`) — tabs over one `localStorage` (`stored`),
each with its own token, account and screen, and the calls they wait for. A call
is sent, handled and answered in separate steps, and may be refused or lost. The
account screens act in one step, for they keep nothing. The server's requests
are one step each; `AuthManager` has their parts.

**`ProjectTransfer`** — `projects` and `current` are the dashboard's, `asked` the
lists under way, with what is to be done when one arrives (an import switches to
what it created). `lists` and `file` are the export, gathered from four lists
that are read apart from each other; `imports` are the imports, each with its
stage and the ids it has mapped (`mapped`). Ids of copies are pairs of an import
and an item.

**`Metrics`** — the cache of host readings. `entries` is the map of the
collector, `latest` and `history` the fields of an entry; entry `n` is the one
that call `n` made, so that an evicted entry and its successor are two. A call
of `Get` looks up (`Lookup`, with the eviction of the others, under the lock of
the map), waits for the lock of its entry, and finds a fresh reading (`Cached`)
or collects with the lock held (`Collect`, `Collected`); in between, others look
up, evict and wait. A reading is known by the time it was begun, which is the
time the code stamps it with. The lookup reads that time without the entry's
lock, a data race; old or new, and torn between them, is the lookup before or
after the step that sets it, since all that depends on it is one comparison.
`sampled` and `dropped` are history variables: what was read into an entry, and
the entries evicted while a call had them.

`MCCanvas` puts `ProjectView` and `LiveStatus` side by side, `MCScreens` the
four modules of the screens, and `MCInventory` `Inventory` and `Metrics`. The
parts share nothing but the server, or its routes, so a behaviour follows one of
them, which the variable `part` or `screen` chooses at the start and no step
changes; the others stay as they were. `MCAuthManager`, `MCMonitorMaster`,
`MCVpnIdle` and `MCInventory` hold the constants that a configuration cannot
write down, and the symmetry sets. The modules called `...Proofs` hold the
theorems.

## Runs

| run | instance | question |
|---|---|---|
| `auth` | 2 handlers, 2 ids, 2 tokens, 2 names, 2 passwords, 2 roles, 2 installs, failing writes; symmetric in handlers, ids and tokens | do names stay unique, does an account remain, do sessions agree with accounts until somebody acts on a stale list, and are the interleaved requests those of `Accounts` until then? |
| `auth_stale_login` | the same, two accounts, no failing write | is "a stale snapshot can't outlive the change" true? No |
| `auth_last_admin` | one handler, two accounts | is there always an administrator? No |
| `screens` | seal: 2 keys, 2 settings, 2 pages, 1 crash, 1 wrong share; forms: eight sittings of up to three keystrokes, 2 saves, 2 VPNs; session: 2 tabs, 2 people, 2 calls and 2 tokens, 1 change of accounts; transfer: up to 4 records, 2 imports, 3 lists of projects | do the pages keep the seal's promises and does handing in always unseal; do forms save what was typed and chosen, for the VPN they show; do tabs offer what the server allows; is what an import says it made complete, and does the dashboard leave only what was deleted? |
| `monitor_master` | 2 workers, 1 check, 2 tokens, 2 names, 2 commands, 2 handlers, batches of one or three results, 1 failed save | do alerts follow the status, does anything outlive its owner? |
| `monitor_worker` | 1 check, 2 commands, 2 slots, 2 runs, backlog of 1, 1 lost message, timeout or restart, 1 edit | is every result kept or counted as cut, is what is kept, sent and recorded an `Outbox`, and is every change run? |
| `monitor_order` | backlog of 2, no edit | is the status shown the last outcome? No |
| `monitor_backlog` | backlog of 2, reports of at most 1 | is every result recorded in the end? No |
| `vpn_idle` | 1 VPN, 1 container, 2 requests, 2 terminals, timeout of 1 minute, ticks at most 1 minute late | does the sweep decide on nothing that is in use, and does an idle VPN go down? |
| `inventory` | 2 users, 3 projects (one owned, one without members, one to come), 2 ids of each kind, 3 requests, 2 at once, failing writes; symmetric in handlers. Or 2 hosts, 3 calls for a reading, 3 steps of time | do outsiders see or change nothing, do bindings resolve and profiles stay complete, do services go only after their host? Is a host read once at a time, and is a history what was read in its window? |
| `canvas` | 2 projects, 3 switches, 1 drag, 1 edit, 2 loads of a project at once; or 1 host with Docker services, 2 calls of a poll at once, 2 changes, 1 lost call or failed read of the hosts, ping alone with the metrics or the services | does a late answer count, does the canvas show what would be saved, are living hosts polled unless their file could not be read, and does what is shown of those come to be true? |
| `project_layout` | projects as in `canvas`, 2 switches | is an arrangement saved for its own project only? No |

The bounds. Two handlers are enough for every pairwise race of the accounts, and
each property speaks of one account and one session at a time; two ids let a
name be taken and the last administrator be counted. The batches of
`monitor_master` include a result repeated in one batch and in two. One lost
message and two runs let a report be recorded and yet be sent again, behind a
newer one. `vpn_idle` has one VPN, for the sweep takes VPNs one after the other
and the tracker keys everything by VPN; two requests race on its file and
container, two terminals overlap, and one minute of lag already puts a tick
before a use that it must respect. The three requests of `inventory` are what an
outsider needs to be let in and come back, or a binding to race a deletion after
a creation; since its properties are also proved, the bound decides nothing. Its
three calls for readings are two that meet and one for another host that evicts,
or three samples of which a history keeps two; a limit of two is just what a
window of one step can hold, where the code's 256 is above the 181 samples of an
hour. Three switches lead away from a project, back and away again, with the
answer to the first load still under way. One host suffices in `canvas`, for the
polls about two hosts meet in nothing but the key that restarts them, which one
host's coming and going changes as well; two calls about it overtake each other,
and two changes let it go down and come back. A behaviour of `canvas` begins with
one of the two projects, loads and states of the containers, for the code treats
the other alike. Two saves of a form are one that overlaps another, or a creation
and its resubmission; two pages and one configuration lost on the way are what an
operator can do to the shares before they are copied. A bound never decides a
property: each run was also tried with a mutant of the code per property, and
finds it.

`MaxCrashes`, `MaxJunk`, `MaxFailures`, `MaxRuns`, `MaxLosses`, `MaxEdits`,
`MaxLag`, `MaxRequests`, `MaxSwitches`, `MaxDrags`, `MaxReloads`, `MaxPolls`,
`MaxChanges`, `MaxFaults`, `MaxSaves`, `MaxCalls`, `MaxTokens`, `MaxImports`,
`MaxLists`, `MaxGets` and
`MaxTime` cap what the code does not count. `Watches` chooses the polls that run
together, `Plans` what exists before, the tabs of the panel, the fields and the number of
keystrokes, saves and disturbances (a switch of projects, a deletion) of one
sitting at the forms, and `Extents` the records, the order in which the export
reads them, and the numbers of lists, imports and changes. Everything else is a
size.

`CHECK_DEADLOCK FALSE` appears where the system may really stop: a browser whose
user has used up what he may do (`canvas`, `screens`), and the runs that look for
a violation.

## Fairness

`SealScreens`: the server is started again after a crash. A page asks for the
status until it is answered, for its operator reloads a page that is not the one
to unseal with. Operators go on to hand in shares that are not pending yet
(`Unsealing`, strong, since a crash or a wrong share interrupts them). Nobody
promises not to send wrong shares, of which there are finitely many, and nobody
need copy anything: `UnsealsEventually` is about shares that reached paper.

`LiveStatus`: intervals fire (`setInterval`), and as long as calls about a host
are under way one or another of them goes on: it is handled, or its answer is.
Which, and in what order, is open; calls may be lost until `MaxFaults`.

`MonitorWorker`: the master answers what reaches it; goroutines proceed; a
command ends, by its timeout if need be (`RunCheck` kills it). The loop's own
steps get strong fairness, for its `select` chooses among ready tickers at random
and a slot of the semaphore or of the network is given out again and again. No
fairness is assumed of losses, restarts, edits and the passing of intervals.

`VpnIdle`: minutes pass, the sweep's goroutine runs, and reading the VPNs or
asking docker for a state does not fail every time. Nothing is assumed of people:
terminals may stay open and VPNs be used for ever, which is why `IdleVpnStops`
speaks of a VPN that is continuously idle.

`ProjectView`: a load of a layout is answered or fails, and its answer is
handled. Resources, saves and edits may never answer.

## Findings

Five runs expect a violation, and each trace is short.

1. `auth_stale_login`: a login reads the accounts; an administrator changes the
   role, saves, and purges; the login opens its session with the old role.
2. `auth_last_admin`: an administrator deletes the only administrator (himself
   included) while another account exists.
3. `monitor_order`: two runs end, two goroutines flush, the second report is
   handled first.
4. `monitor_backlog`: reports fail while the master is away, the backlog outgrows
   the limit on a body, and every later report is refused whole.
5. `project_layout`: a node is dragged, the project is switched before the pause
   of 600 ms is over; the render moves `projectRef`, then the cleanup flushes,
   and the other project's stored arrangement is replaced by this one's.

### Met while modelling

The models reproduce what follows, and no property forbids it, for the code
promises nothing about it or the promise is a comment that cannot be pinned to
one state.

- Three saves change the project of a record, which no form shows; they are
  `movesProject`, the exception of `OnlyTypedChanges`. A credential that is edited
  is saved without its project and moves to Unassigned (`useInfraData.ts:126`, the
  update sends no `projectId` and the `PUT` replaces). A host or service form kept
  open over a switch of projects moves its record to the project switched to
  (`useInfraData.ts:114`). A VPN that is unassigned and shared goes to the project
  in which it is saved: the comment at `useInfraData.ts:101` wants no VPN stolen by
  the project it is shared into, which the code keeps to for VPNs that have an
  owner (`vpn.projectId ?? projectId`).
- While `hosts.json` cannot be read, the server answers "host not found" about
  hosts that exist (`handlers_ssh.go:10`, `handlers_discovery.go:54`), and the
  status poll drops a host on that answer (`useServiceStatus.ts:82`). It is asked
  again when the effect restarts: "the next data reload rebuilds the set from
  scratch" (`useServiceStatus.ts:81`), but a reload that brings the same hosts
  leaves the effect's key as it was, so one failed read can keep the dots of a
  host as last read for good. `LivingHostsPolled` and `StatusSettles` have that
  exception; without it TLC finds `StatusSettles` false.
- Creating a VPN whose bind then fails leaves the form as it was; submitting it
  again creates a second VPN. Saving an edit before the binding has answered
  unbinds. A creation binds after its record is listed, and builds again only if
  the command it submitted names the profile (`AddResourcesPanel.tsx:375`): a VPN
  edited in between to a command that does is bound and not built, and its
  container runs without the profile. `ContainerUsesBinding` leaves that overlap
  out (`skipped`). The clean-up of a save that ends clears the form of an edit begun
  meanwhile.
- The binding of the VPN edited before can arrive in the form of the next, the
  very case the comment at `AddResourcesPanel.tsx:325` wants excluded: the field
  is cleared first, but an answer under way is not called off. `ProfileShownIsOwn`
  therefore speaks of edits begun with no such answer under way (`crossed`).
- `Lock` revokes the token that is in localStorage, which another tab may have
  put there; the end of a second `Lock` signs out a login made since; a page that
  finds its token invalid removes whatever is stored by then
  (`AuthContext.tsx:78`). A status request that fails leaves the page loading.
- `Header.tsx:118` offers the change of password to "every account"; the route
  wants the permission to read, which the role `write` has not.
- Fresh shares are on no screen if the status request after initialising fails
  and the page is reloaded.
- A host that cannot be reached answers a status request with services that are
  not found, which blanks their dots although "a blip shouldn't blank the graph"
  (`useServiceStatus.ts:85`).
- The import copies a VPN's container name as it is, so bringing up the copy
  removes the original's container. An import that failed half way leaves its
  project; trying again from the same dialog repeats its name. One list that
  fails leaves the export dialog loading for ever.
- A list of projects that was asked for before a project was created, and is
  answered after the list that shows it, throws the dashboard back to Unassigned
  (`Dashboard.tsx:42`). `LeavesOnlyDeleted` speaks of lists asked for one at a
  time (`overlap`).
- Any look at another host evicts an entry whose first reading is under way, for
  an entry without one has the zero time (`metrics.go:98`). A browser that polls
  several hosts at once so loses the first readings of all but the last it asked
  for, and a second caller opens the competing connection that the comment at
  `metrics.go:81` says the lock avoids. `OneConnection` leaves out calls whose
  entry was evicted under them (`dropped`): nothing else makes it so.
- A result of an old command that is under way when the command changes is
  recorded under the new one (`store.go:400`). A VPN deleted while it is started
  leaves a container nobody names (`handlers_vpn.go:37`). A terminal opened
  between the sweep's decision and its stop loses the tunnel (`vpnidle.go:131`).
  The answer to a reload of the project before replaces the data of the active
  one (`useInfraData.ts:45`).

## Proofs

All proof modules argue by an inductive invariant, and hold for every value of
the constants under the assumption that is named in the component's module.
`CanvasProofs` is about `ProjectView` and `LiveStatus`, `BrowserProofs` about
`BrowserSession`, `ProjectTransfer` and `ResourceForms`, `SealProofs` about
`Seal` and `SealScreens`, `InventoryProofs` about `Inventory` and `Metrics`; the
others carry the name of their component. The type invariants of the modules
proved about, and `PendingHasTimer`, `ClockBehindUse`, `RoleChangeKeepsAdmin`,
`SessionsProvedPassword` and `LoopWaitsForOne`, are proved and not run again:
the proofs need them, or a property that is run says more (`ImplementsAccounts`
of the administrators and passwords, `EveryResultIsHeard` and `EveryChangeIsRun`
of the loop).

*Accounts.* `UniqueNames` is not inductive: a handler saves a list it read
earlier. The invariant adds that every `seen` list has unique names and that
what a handler is about to do was allowed on it. Session properties hold until
`stale`; the invariant relates a handler between save and purge to the sessions
it will drop, and says that ids and tokens are issued once.

For `ImplementsAccounts` each action of a handler is one step of `Accounts` or
none: the save of an edit is the change together with the end of the sessions
that its purge will drop, so the purge itself is no step (`SettledKept`); a
session that opens while such a purge is coming is over as it opens. That the
account of a setup is an administrator, and so may be the first, needs an
invariant of its own: what a handler is about to save as the first account was
asked for as one (`Founded`).

*Seal.* Keys are drawn once, so a configuration in memory, in the reply or on
paper whose key is drawn is told apart from any later one; while the server runs
with a configuration, the file is that configuration; pending right shares were
offered since the start.

*Seal screens.* That every step of the pages is a step of `Seal` or none needs
to know what is on the way (`onTheWay`). The invariant says that shares a page
holds are those of the configuration on disk, that the answer which brought them
is then no longer under way, and that a server which has been unsealed was given
shares that somebody copied. With it `onTheWay` is the configuration on disk or
nothing, and copying delivers it, losing the last page loses it.

*Monitor.* `AlertsFollowStatus` must survive a restart from a file that is
older than memory. The invariant says how much older: after a successful save,
workers and checks agree and, outside the loop, results too; inside it, results
differ only for checks of the reporting worker, and the alerts known when the
loop began follow the file. `SilenceFollowsAlerts` needs that worker ids are
issued once, in the file as well.

*Monitor worker.* No result under way is newer than the clock (`Stamped`). A
request in the network is the one its goroutine waits for, and an answer "ok"
means that what was sent has been recorded (`Matched`), so a goroutine that keeps
its results when it hears nothing drops none that the master has not. The loop's
own request is the one it says it waits for, and there is one (`LoopInv`).

For `ImplementsOutbox` the sets need to be told apart. A result is in one place
of the worker only, the backlog or one goroutine's batch, and once in it
(`HeldOnce`), however often it is on the wire: so what a goroutine forgets or a
limit cuts is gone from the worker, and `MaxPending` entries are as many results
(`DistinctCount`). The number of a run that has begun is in no set yet, and no
other run's (`RunsAreNew`), since it is taken from a clock that all stamps lag
behind. Every action but the end of a run is then a step that produces nothing
(`Quiet`), and such a step keeps `RunsAreNew`.

*Idle VPNs.* That the tracker counts the open terminals is inductive once
`active` is known to be the number of holders: opening and closing a terminal
add and remove one element of a finite set. For `DecidesOnlyIdle` the clocks must
lag behind `quiet`, and the first sight of a VPN must set a clock no later than
the server's start, so the invariant bounds the age of ticks and sweeps by
`quiet`.

*Inventory.* Four invariants, one for each question. Types: whatever a request
has read or is to write is a list of its file. IPsec: the stored file, each copy
read and each copy to be written are sound, so the order of the writes does not
matter. Hosts: an id is drawn once, and a write of the hosts brings back none
that its list had not, so a host that goes with its services stays away until
somebody overwrites a list he had not read. Access: everything is tagged with ids
that were given out, and whomever a list of projects admits, stored, read or
about to be stored, is in `vouched`; since `vouched` only grows, what a check
allowed is still allowed when the write comes.

*Readings.* A call under way has the entry of its host or one that was evicted
(`GetOK`), and one call at most collects into an entry. So a reading is begun at
least a lifetime of the cache after the last of its entry, samples are that far
apart (`Spaced`), and those within the window are fewer than the limit
(`WindowIsShort`): the assumption `HistoryWindow < HistoryMax * CacheTTL` is what
the constants of the code satisfy (3600 < 256 * 20), and it is needed.

*Project view.* One load at most goes on, for the active project, and none once
it is loaded; so positions change by an answer only while `hydrated` is off, and
a hydrated canvas follows drags and resets exactly.

*Live status.* A status call whose answer is "host not found" is about a host
that is gone, and hosts do not come back, or about one in `misread`, which only
grows (`Sincere`, and `LateSincere` for calls that were called off); a redraw
keeps that of every call it keeps and starts new ones as asked. So what is
dropped from the status polls is gone or was misread, in whatever order answers
and effects interleave: lost calls and hosts that do not answer ssh drop none.

*Browser session.* A ticket of the server changes in one way, to ended. What a
call's answer or a page says of a session (`Known`) therefore stays true of it
until it ends, wherever the answer was in between; and every step of the server
is shown to be such a step (`Later`) once, for all that pages do with it. That a
change of role ends the sessions, rather than updating them, is what this rests
on.

*Projects.* An import creates kind after kind, so when it comes to one, all that
a record of it can refer to is mapped, or was left out of the file (`before`,
`Faithful`); a copy therefore refers to all it ever will. For the dashboard:
nothing it knows of, and no list that was read, contains a project still to be
created, and a list that was read holds all that is known and still there, as
long as it is the only one under way (`KnownExist`, `ListsAreFresh`).

*Forms.* What is not typed into the form, or into a submission, is as in the
record it was filled from, so a save puts it back; a hidden secret is not sent,
and the merge keeps it. For the project, which is never typed, the submission carries
that of the record unless it is one of `movesProject`, and the update of a profile
carries none (`SaveOK`). Of the fetches, only that of the VPN edited is out,
unless the edit began across another. A container not built from its binding has
a submission at its `put` (`BuiltOrRebuilds`): binding before saving is what
keeps that true, whatever overlaps.

Not proved, and left to TLC: liveness (`UnsealsEventually`,
`EveryResultIsHeard`, `EveryChangeIsRun`, `IdleVpnStops`, `LayoutSettles`,
`StatusSettles`), which rests on fairness, hence on ENABLED, and is out of this
prover's reach. Every safety property of the passing runs is proved, and so are
the three refinements.

## Not modelled

`PROJECT.json` gives the reason for each part. In short: byte streams, parsing,
rendering and the geometry of the canvas; cryptography, which is modelled by
what it promises; clocks, of which only the comparisons the code makes are kept
(`late`, `due`); the webhook URL; the cron mode of the worker; the PlantUML and
draw.io texts of an export; panels of the browser that send one request and show
its answer (discovery, diagnostics, the audit log, monitoring, saved commands).

The webhook's deliveries (`notify.go`) run each in a goroutine of its own with
three attempts, after the lock is released: failed and recovered can arrive
swapped, and a crash between decision and delivery loses the alert
(`monitor-master/main.go:141`). What the code promises about alerts is about the
decision, which `MonitorMaster` has; of the deliveries nothing holds but that each
is tried at most three times. The shell recorder rebuilds commands from
keystrokes and echoes; whether it does so rightly depends on the line editor at
the other end, and a model of both would be a model of that editor.

Some hazards have no property, for it would be false of the code, which promises
nothing about them: the deliveries just named; updates of a file that overlap lose
one another (`handlers_config.go:139`); a terminal opened between the sweep's
decision and its stop (`vpnidle.go:131`); a result of the old command recorded
under the new one (`store.go:400`); a VPN deleted while it is started
(`handlers_vpn.go:37`); the answer to a reload of the project before
(`useInfraData.ts:45`). All but the deliveries are in the models.

## Plan

1. `IdlePolicy`: "only what nobody uses is stopped" as an abstract specification
   that `VpnIdle` implements up to the decision of the sweep.
2. The cron mode of the worker (one pass without retry) over the master of
   `MonitorWorker`.
3. Proofs of the invariants of each new module.

A new module takes the place of a run that shares its question with another, or
joins one, as `Metrics` has joined `inventory`.
