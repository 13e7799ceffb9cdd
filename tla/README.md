# Verifying pyruijie

TLA+ models of `pyruijie` (a Python SDK for Ruijie Cloud and for Ruijie/Reyee
gateways), model-checked with TLC, with theorems proved by TLAPS. Paths are
relative to the repository's `src/pyruijie/`.

Every definition is written from the source. What pyruijie talks to (the cloud,
the gateways, other users) is not in the repository; it is modelled from how the
code uses it, and `PROJECT.json` marks it external. Definitions whose comment
says *Mutant* are plausible bugs: put in place of the definition they follow,
they make the property named in `PROJECT.json` fail, so the property says
something about the code.

## 1. The system

| Component | Where | State | Operations | Correct when |
|---|---|---|---|---|
| Token lifecycle, request path | `client.py` 47-352 | token and expiry of each instance; `_TOKEN_CACHE`, shared by the process under a lock | `authenticate`, `_fetch_token`, `invalidate`, `clear_token_cache`, `_request`, `_send`, `_drop_expired_token` | no write is replayed; no token crosses credentials; rejected tokens are forgotten, live ones spared |
| Fleet collection | `client.py` 443-618 | one collection in progress | `get_fleet_devices` and its two helpers | no device that stayed is missed, inconsistent pages rejected, it ends |
| Other listings | `client.py` 634-743, 915-967 | one pagination loop | `get_devices`, `get_clients`, `get_switch_ports` | exact on an account at rest, bounded |
| Group tree | `client.py` 387-441, 979-1041 | none | projects, root group, index of groups | nearest BUILDING ancestor; ambiguity rejected |
| Cloud WireGuard policies | `client.py` 811-913 | none; the cloud's rows | read, route update, add, delete | the row of the snapshot is replaced, with its key and unknown fields |
| Gateway transport | `gateway.py` | session id, request id | `login`, `cmd`, `cmd_checked` | a push is reported as what became of it |
| Hub policy and peers | `wireguard.py` 150-417 | the gateway's policy | add, batch, update, delete, rename, enable: read, edit, push whole | one peer per address and key; nobody else's peer is damaged |
| Site policy, allocation, drift, reconciliation | `wireguard.py` 421-889 | the site's policy | client policies, `allocate_*`, `detect_drift`, `apply_reconciliation` | a plan that is applied removes the drift |
| Workflows | `workflows/` | one run | `add_hub_peers`, `onboard_site`, `update_site_endpoints`, `detect_hub_drift` | idempotent; the report says what happened |
| Site control | `site_control.py` | a plan and its revision | plan, apply, verify | only what was previewed changes, once; a report says what is in force |
| WAN | `wan_loadbalance.py`, `wan_evidence.py` | the gateway's `mllb` | `get_wan_loadbalance`, `set_wan_primary`; a reader under a deadline | always one master; a returned policy was in force |
| Web session, DDNS | `ddns.py` | login flag | `login`, `webproxy`, `get_ddns`, `enumerate_ddns` | a record is of its own gateway |
| Firmware | `firmware.py` | a catalog; the probes of a scan | load, evaluate, verify, probe, scan | advice converges; one result per target; deadlines are kept |
| Intercom diagnostics | `intercom_diagnostics.py` | none | five reads under a deadline | one failing read costs one section |
| Models, utilities, errors | `models.py`, `utils.py`, `exceptions.py` | none | parsing, redaction, error classes | |
| Command lines, progress | `cli.py`, `workflow_cli.py`, `workflows/progress.py` | none | arguments, output, dispatch | |

**Interactions.** Everything on the cloud side goes through `_request`, hence
through one token and the shared cache; threads and sibling instances meet
there. Everything on the gateway side goes through `GatewayClient.cmd`, almost
all writes through `cmd_checked`. `WireGuardManager` sits on a gateway client;
the workflows sit on one manager for the hub and one client per site. Nothing is
persisted: what survives a crash is the state of the cloud and of the gateways.

**What is hard.** Threads and instances between a check of a token and its use;
sessions the cloud ends early; deadlines that pass in the middle of a retry;
pages that shift while they are read; whole-policy writes without a version,
from several administrators, that the gateway applies some time after the
request has timed out; runs of several steps of which one fails. The hazards,
with the line each bites at, are in `PROJECT.json`.

## 2. What is modelled

### The request path: `CloudCall`, `TokenCache`

`CloudCall` is the abstract specification of a call: the cloud carries it out at
most once, a call that returns was carried out, a call that raises may have been.
There is no token in it. `TokenCache` is the code. One action stands for each
piece of `authenticate`, `_fetch_token`, `_request`, `_send`,
`_drop_expired_token` and `invalidate` between two points where other threads can
change what it reads: the lock's critical sections, the two HTTP exchanges, and
the gap between `sent_token = self._access_token` and `_send` reading the token
again. `held` is `_access_token` with `_expires_at` of each instance, `cache`
is `_TOKEN_CACHE`, `pc` says where a thread is; `owner` and `live` are the
cloud's knowledge of its tokens; `sends`, `carried` and `rejected` are history
kept for the properties. The cloud may end a session at any time and lose any
answer. The two assignments of `_fetch_token` (244, 250) are one step, so a
second thread of the same instance never sees the new token with the old expiry;
it may find either of them stale, which the rejection path handles alike.

### Listings: `CloudListing`, `FleetDevices`, `LegacyLists`

`CloudListing` is the account: devices in listing order, the group each is in,
and what others do to it. Its history variables know which devices were there all
the time. `FleetDevices` is `get_fleet_devices`: one action per page with every
check made on it, the fall-back to the direct subgroups when the root answers no
devices, and the partition by project at the end. `LegacyLists` is the three
simpler loops, which differ in where they start counting and when they stop.
`VacantPage` and `ListPage` are the two forms in which the endpoint says "none".

### Hub peers: `HubPolicy`, `AddHubPeers`, `SiteOnboarding`

`HubPolicy` has the peers in force (`hub`), the pushes that the gateway has taken
and not yet applied (`queue`), and each manager's operation and edited copy. A
push ends as applied, as refused, with a broken connection (the manager gets an
error, the push may apply later) or with a time-out (`cmd_checked` reports
success, the push may apply later). An answer without an rcode, or without a data
object to find one in, is success to `cmd_checked` too (`gateway.py` 218-227), whatever
the gateway did: it ends the call as a time-out does (`PushTimesOut`), and a run without
time-outs (`Timeouts = FALSE`) leaves it out with them. `AddHubPeers` composes it with the workflow
`add_hub_peers`, which runs one such operation per peer and keeps a report.
`SiteOnboarding` adds `onboard_site` to both: the first snapshot of the hub, the
allocation from a second one, the peer (through an operation of `HubPolicy`, so that
its failures are the hub's), and the client policy of the site's own gateway, with a
`stage` for each point at which the call may fail. `HubPolicy` is the abstract
specification of both workflows: `HubSpec` says that the hub sees nothing but
its operations.

A peer is its uuid, its address and its key. `update_peer` finds the peer to replace by
one of the three (uuid is the default) and compares the other two with nothing
(`wireguard.py` 343-360); `delete_peer` takes all that have one of the fields given;
`Edits` has both, an update with the choice of which of several matches comes first.

Simplifications, all on the data: names, allowed ranges and preshared keys are
compared by nothing here; peers that are equal in all three fields count as one; a
uuid that the code makes up is one of few; a snapshot with a repeated uuid may be
read here, where the code always rejects it (more behaviours, not fewer); there is
one server policy.

### Hub and sites: `SitePolicies`

The hub's peers, now with the identity (`uuid`), preshared key and the rest that
`detect_drift` compares, and the client policy of each site (`site`). An operation
is a scan of the hub and its sites (`detect_hub_drift`), the reconciliation of
one site (`detect_drift`, `generate_reconciliation_plan`, `apply_reconciliation`)
or a batch of `update_site_endpoints`. `phase` says where it is, `peers`, `policy` and
`fixPlan` are the copies it holds between a read and a push: four reads in a
reconciliation (the peer, the site, the peer by address, the list for
`update_peer`) and a fifth before the site is written, two in an endpoint update.
`first` and `undisturbed` are history: what the sites had at first, and whether anybody
else has written since the operation began. A push takes effect before it is
answered, and the answer may be lost; late pushes are `HubPolicy`'s subject.

### Cloud policies: `CloudRoutes`

A project's rows in the cloud and one caller of `RuijieClient`. A route update is
four steps, each a point where another user of the account may come between: the
devices (`at = "devices"`), the policies and the comparison with the caller's
snapshot ("info"), the raw row and the second comparison ("raw"), the post ("post").
A row has what the snapshot shows (`conf`, `key`, `routes`) and what it does not
(`extra`); a read may mask the private key, the preshared key or both, of which the code
checks the first only. `posted` is what the cloud has accepted and not
applied: it may drop a post, and the answer to a post may be lost. `clean` is history:
whether the row has been left alone since it was read.

### Site control: `WebSession`, `SiteControl`, `Ddns`

`WebSession` is the flag of `login` against what the cloud knows of the session:
nothing resets the flag, so once the session has died each call is declined, with or
without an error. `SiteControl` extends it with planning (`Preview`), the stages of
`apply` and everybody else: editors of the cloud's policies and of the gateway's,
saves that only change an update time (`Restamp`), the delivery from the cloud to the
gateway at any later time, in which the gateway adds what only it knows (`effect`).
A plan may have been tampered with (`BuggyCaller`, for the comment at 189). A write that
`apply` gives up on (`WriteTimesOut`) stays `underway`: the cloud may execute it at any
later moment (`LateWrite`), at another plan's time too, or lose it. One write is under way
at a time. `replayed` is history: the plan passed the revision check while its own write
was under way. `Ddns` is the
loop of `enumerate_ddns` over the same session.

### WAN lines: `WanPrimary`; deadlines: `GatewayEvidence`

`WanPrimary` is `set_wan_primary`: a read, the swap of the master bit, a write of the
whole policy, a read to confirm. `cmd_checked` answers a timed-out command with
nothing, so a read has two answers: the policy, or one with nothing in it (`Blank`). Others save
policies, and saves that were taken are applied later.
`GatewayEvidence` is the two readers with a deadline, `inspect_intercom_path` and
`read_wan_configuration`. Time is counted, and a call is given a timeout that bounds each wait
(connection, then each piece of the answer), as a socket's does.

### Group trees: `GroupTree`

Every tree of up to four groups, with its buildings, its ids (some missing, some
twice) and the ids beside it. `_collect_projects` and `_index_group_projects` call themselves for
every subgroup, and visit the groups in the same order; the module is one walk with the effects of
both and an explicit stack (`calls`): `Descend` is a call, `Return` the end of one. `Resolve` is
the root's id. `HierarchyRead` states what they return by the ancestors of a group, without a walk.

### Firmware: `FirmwareCatalog`, `FirmwareScan`

`FirmwareCatalog` is a catalog (a sequence of artifacts and one of rules, since the first match
counts), the constructor's checks and `evaluate`.
`FirmwareScan` adds the pool of workers: a probe opens the page, follows redirects on
its own host, reads chunks, each wait bounded by the time that was left when its
request or read began (`allowed`), of which a device that sends drips may take
several (`Drips`). Models and versions are what the patterns found in a page.

### Compositions for TLC: `MCChanges`, `MCReads`

The components that change things are checked in one run, those that read in
another. They do not share state in the code, so a behaviour picks one (`command`) and the others
stand still: the state spaces add up. The type invariants of the modules are one
invariant of each run (`ChangesTypeOK`, `ReadsTypeOK`).

## 3. What the runs show

| Run | Question | Bounds, and why they suffice |
|---|---|---|
| `siblings` | no replay of writes; dead tokens forgotten; live cache entries spared; the request path implements `CloudCall` | two threads on two instances of one account, two tokens, lifetime 3 with buffer 1, deadline 1, clock to 2: a token can expire locally, in the cloud and against a deadline during one call, and the sibling can mint between rejection and drop |
| `tokens` | no token crosses credentials; tokens the cloud ended disappear (liveness); types | two instances that differ in the secret only; lifetimes below and above the buffer, so that an expiry is clamped at zero; the clock stands, so that tokens die in the cloud only |
| `fleet_blind` (violation) | pages that disagree are rejected | three devices, pages of one |
| `workflows` | the reports are true, also when run again; a fresh site gets the address the hub has for it; `OnboardSpec` implements `HubPolicy` | one administrator, three addresses and keys; requests with a new peer, a taken address, a taken key; onboarding pinned to a taken, a free or no address, with and without site, dry and real; every failure but pushes that time out or are answered without a verdict |
| `onboard_match` (violation) | site and hub get matching policies | one job, pinned to the taken address or not |
| `changes` | hub: one peer per address and per key (but for those that an update hands out unchecked), bystanders kept. Sites: reconciliation fixes and keeps identities, scans are exact, endpoints of another hub's sites are spared. Cloud routes: private keys survive, an undisturbed update changes routes only. Site control: a plan is written once (but for one replayed while its write is under way), to the policies of its preview, and a report is true. WAN: always one master, none reported that was not seen. Types | hub: two managers (symmetric); an addition, a batch that clashes with it in the key, a delete, an update by address and one by uuid, a touch; two pushes under way; time-outs and losses. Sites: two administrators, two sites on two hubs; the first starts with eight combinations of its own or the other's address, key and preshared key. Routes: two policies, four rows that others write (other routes, no client, incomplete), one post under way. Site control: two policies, two applications, an explicit and a grouped scope, two effects; three reads of the gateway as in the code; one late write. WAN: two lines, three policies, one of them with one line, two saves under way |
| `reads` | fleet: a device that stayed is returned if one device came, left or moved. Listings: exact at rest, bounded, only departures hide entries. Deadlines: bounded overrun, every section accounted for, only late ones skipped. DDNS: no name that was not bound. Trees: projects, root and owners. Catalogs: advice converges. Scans: judged by whole pages, bounded. Collections and scans end (liveness) | fleet: three devices, three groups (one outside every project), pages of one, two changes, a root that goes blind. Listings: three entries, pages of two, two changes, an endpoint that ignores the page index. Evidence: five sections, six units of time, calls of two, answers in two pieces. DDNS: two gateways, two names. Trees: all of four groups with two ids. Catalogs: all of two artifacts and two rules over a choice that has every state, missing images, models that do not match and unknown targets. Scan: two targets, one worker, one redirect, two reads, three units of time, two waits for a read |
| `routes_race` (violation) | stale snapshots are refused | as in `changes` |
| `firmware_framed` (violation) | a page that was read is reported | as in `reads` |
| `reconcile_site` (violation) | the other peers and the list survive | the sites of `changes` with one administrator, the site preferred |
| `add_timeout` (violation) | a push that timed out is applied | one administrator, four requests: new, taken address, taken key, taken twice; a push may time out |
| `add_escapes` (violation) | per-peer failures are recorded | the same without time-outs |

Deadlock is checked in every run. Symmetry is used in runs without liveness only: of
tokens, which are chosen but never compared with a particular one, and of the two
managers of `changes` (the same set as its administrators), who run the same program.
`changes` is the largest run: 3.9 million states, over three minutes on two cores.

### Divergences

* **`fleet_blind`**: an answer with `totalCount` 0 and no `deviceList` is accepted
  on any page before it is compared with the first page's total (`client.py`
  576-580), so a root that goes blind in mid-collection returns the pages read so
  far as the fleet; `CHANGELOG.md` 66-67 says inconsistent pages are rejected.
* **`add_timeout`**: a push that timed out counts as applied (`gateway.py` 209-216).
  The next peer's read-modify-write may read the policy from before and undo it:
  the first peer is reported "added" and is not on the hub.
* **`onboard_match`**: any peer at `preferred_peer_ip` is taken for the site's own
  (`site_onboarding.py` 181; its key is never compared), and so is a conflict of
  keys (242-243). The site is configured with an address that the hub gives to
  another key, and the result says already-exists and configured.
* **`reconcile_site`**: with `prefer_hub=False` an address drift makes
  `apply_reconciliation` look for the peer by its NEW address (`wireguard.py`
  870-873). If another site has it, that site's peer is overwritten and two
  entries have one uuid, a list that `_validate_snapshot_entries` rejects from
  then on; if none has it, the reconciliation raises "Peer not found".
* **`routes_race`**: the route update compares twice and then posts the whole row,
  without a version, to a cloud that queues it (`client.py` 868-877). A change
  after the second read, or before the cloud gets to the post, is overwritten;
  `client.py` 850 says "Refuse stale snapshots instead of overwriting concurrent
  changes". What holds is `UndisturbedUpdates`: if the row is left alone from the second
  read on, its routes change and nothing else.
* **`firmware_framed`**: a response with a `Content-Length` (or in chunks) closes
  itself when its last byte is read. `_read_login_page` then asks for more, and
  `_set_response_timeout` finds no socket (`firmware.py` 571-584, 568): an `OSError`, so
  the probe reports "could not read the device login page" of a page it has read.
  `README.md` 93-96 says such devices can be identified by their login page. A page that
  ends when the device closes the connection is read and judged.
* **`add_escapes`**: the loop of `add_hub_peers` catches `RuijieWireGuardError`; a
  refused push raises `RuijieApiError`, which is none. The report of the peers
  already added is lost, while `workflows/wireguard.py` 109-111 says per-peer
  failures are recorded.

### Known disagreements without a run

These contradict a document too. Each is stated by no property, and the property next to
it leaves it out on purpose.

* **Declined DDNS calls.** Once the session has died, the console answers with a code and
  no data, which `webproxy` returns and `get_ddns` turns into a `DdnsRecord` without a name,
  as of a gateway that has none (`ddns.py` 167-180; `ReadBlank`). `ddns.py` 168 reads "empty rr
  => unconfigured", 183 "skips failures", and 40 has a failed webproxy call raised.
  `NamesWereBound` therefore speaks of records with a name only. Beside that,
  `enumerate_ddns` skips failures of three kinds; a broken connection is none of them, and
  ends it without a result (`Escape`), against the same 183.
* **Endpoints that move between two reads.** "Sites whose current endpoint does not match are
  reported as wrong-old-endpoint and NOT modified" (`endpoint.py` 93-97) is unconditional. An
  administrator who moves a site to another hub between the check and the second read of
  `update_site_endpoints` (249) is overwritten. `OtherHubsSpared` is of batches that nobody
  disturbed.
* **Five seconds per call.** `README.md` 394-395 has the sections of an inspection take "at most
  five seconds per call". The timeout bounds each wait for a piece of the answer: a gateway that
  sends its answer in drips keeps a call for as many times five seconds as it sends pieces, and
  the inspection beyond its 35 seconds by as much. `OverrunBounded` states the bound with that
  number (`Pieces`) in it.

### Limits of the code that no document denies

* `DeadTokenForgotten` needs one thread per instance: with two threads on one
  instance, one can adopt the dead token from the cache between the other's two
  drops, and publish or use it again. The next rejection repairs it.
* `StableDevicesListed` is stated for one change. It leaves out a root that goes
  blind, which is `fleet_blind`. With two changes that compensate in the
  total (one device leaves, another comes) a collection of four devices can miss
  one that stayed: a count cannot tell. `OnlyDeparturesHide` says the same of the
  simpler loops: offset pagination loses an entry when an earlier one leaves.
* Of two additions pushed at once one may be lost, and a connection that breaks
  while a push is under way may undo a later one; the runs of
  `AddHubPeers` and `SiteOnboarding` therefore start no workflow while a push is
  under way (`Hasty = FALSE`).
* `update_peer` gives a peer an address or a key without comparing it with the others', unless
  it is the field that the peer is found by (`wireguard.py` 343-360): one manager alone can give
  two peers one address by an update by uuid, the default. `AddressesUnique` and `KeysUnique`
  exempt what updates hand out so (`Handed`), and nothing else: no interleaving of additions,
  deletes and updates gives any other address or key to two peers.
* `FreshSitesMatch` needs a site whose key the hub did not know. If the hub's
  push was applied and its answer lost, a second `onboard_site` without a pinned
  address allocates another one, meets the conflict of keys, and configures that
  other address.
* `ReconcileFixes` and `ScanExact` are stated for operations that nobody else disturbed
  (`undisturbed`): a report may mix the hub of one moment with sites of later ones.
* `ReconcileFixes` is run with `PreferHub = TRUE`. With `FALSE` the plan for a key
  drift writes the site's own key to the site, which fixes nothing (the code's
  comment says "may need key regeneration").
* The comparison with the snapshot sees only what `from_cloud` keeps: a change to another
  field (`extra`) before the second read is kept, and after it is lost.
* The private key of a row is checked for a mask before it is written back, the preshared key is
  not (`client.py` 870-872): `UndisturbedUpdates` lets it go back masked. `KeyMaterialSurvives` is
  about private keys.
* A plan whose write timed out and is executed later can be applied again meanwhile: the revision
  check sees the old policies, and the plan is written twice. The repository says so itself:
  callers "must not replay uncertain writes" (`README.md` 381-382; `site_control.py` 5-6).
  `WrittenOnce` exempts a plan that passed the check while its own write was under way
  (`replayed`), and holds of every other replay. A late write of an earlier plan counts as the edit
  of another.
* `set_wan_primary` returns a policy without lines when the read that confirms
  times out (`wan_loadbalance.py` 146, through `cmd_checked`), which a caller can
  tell from a policy in force only by its missing master.
* The deadline of a probe bounds the start of each wait. A device that sends its page in drips can
  keep a read for as many times its timeout as it sends pieces: `ProbeBounded` states the bound
  with that number (`Drips`) in it.
* An exception that `probe_firmware` does not catch (a host name that cannot be encoded)
  ends `scan_firmware` without a result for any target.

### Fairness

`tokens` assumes that threads are scheduled and that every HTTP exchange ends (httpx has a timeout
in every instance), and, in its premise, that the cloud stops ending sessions. `reads` assumes
weak fairness of the client only: of a collection, where every request has a timeout that the
deadline caps (`client.py` 620-625); of the workers of a scan, whose waits time out
(`ScanFairness`). No fairness of other users, the cloud, a gateway or a device is used anywhere.

## 4. What is proved

For every value of the constants, from the named `ASSUME`s of the modules, which say what the
constants are: finitely many devices (`CloudAssumption`), a sequence of targets
(`ScanAssumption`), a known gateway (`RoutesAssumption`), and the like. Where a theorem needs
more, its hypothesis is in its statement and in the table. Every invariant that a run checks is
the subject of a theorem; liveness is not (see the end of this section).

| Theorem | Module | Argument |
|---|---|---|
| `TypeCorrect` | `TokenCacheProofs` | `TypeOK` is inductive |
| `WritesNeverReplayed` | `TokenCacheProofs` | `NeverReplayed` alone is not: `ControlInv` ties each control state to the kind of call, `SendInv` counts the requests by control state, `CarriedInv` the executions |
| `CallsKeepTheirPromise` | `TokenCacheProofs` | refinement: with the same invariants each step is one of `CloudCall`'s or a stutter, also where threads share an instance |
| `TokensStayScoped` | `TokenCacheProofs` | `OwnerInv`: whatever holds a token (instance, cache entry, mint or request under way) holds one of its credential; the cache key is injective because every credential is in it |
| `DeadTokensStayForgotten` | `TokenCacheProofs` | assumes `OneThreadEach`. `SecretInv`: a token not yet published is known to its thread only; `RejectionInv`: a thread's noted token is the one it sent, and the instance lets go before the cache |
| `DropsSpareLive` | `TokenCacheProofs` | assumes `OneThreadEach`. `RejectingInv`: a token whose rejection is being handled stays dead, since the cloud mints new ones only; by `RejectionInv` it is the one that the cache entry is compared with |
| `StayersListed`, `FleetTyped` | `ListingProofs` | `FleetInv`: see below |
| `CollectionsRunDown` | `ListingProofs` | `StepsLeft` counts the pages of the targets to come and of the one at hand: each step of the client lowers it, nobody else changes it. What `CollectionEnds` adds is that the client goes on |
| `RestListedExactly`, `ArrivalsHideNothing`, `ListTyped` | `ListingProofs` | `Gathered`: what n pages have gathered reaches over the first n pages of what stays, as long as nothing left; with nothing changed it is those pages |
| `NamesStayTrue`, `DdnsTyped` | `ListingProofs` | what was held since the enumeration began includes what is bound; a serial is read once |
| `AddressesStayUnique`, `KeysStayUnique`, `BystandersStay` | `HubPolicyProofs` | what holds of the hub is proved of every copy: the hub, the queue and the drafts. Both leave out what an update by another field hands out (`Handed`), which the code compares with nothing: an update by address brings no other address, so a copy that has each of the other addresses once keeps it so |
| `HubTyped` | `HubPolicyProofs` | `Owed`: the managers that wait are those with a push in the queue, each with one, and the queue has room for its pushes |
| `WorkflowsImplementHub` | `SiteOnboardingProofs` | refinement: each step of a workflow is an operation of `HubPolicy` or leaves its variables alone. What the workflows add must be operations it has (`AddAssumption`), so `AllocatedFree` shows what an allocation returns: an address of the pool that the snapshot does not use |
| `WorkflowsKeepUnique` | `SiteOnboardingProofs` | by that refinement, the hub's theorems hold of the workflows, which update nothing: without updates among the operations nothing is handed out, and every address and key is unique |
| `OnboardingTyped` | `SiteOnboardingProofs` | the types of the hub, of the loop and of the onboarding, each with what its control states need |
| `AddReportsStayTrue`, `FreshSitesStayOnHub` | `SiteOnboardingProofs` | assume `InTurns`: managers who take turns, any number of them. `Turn`: see below |
| `FreshSitesStayMatched` | `SiteOnboardingProofs` | assumes `OneAtATime`: one manager, since another may configure the same site's gateway for another hub address. `SiteUsed`: what the gateway is configured with is the address the hub gave |
| `TypesKept` | `SitePoliciesProofs` | `TypeInv`: a plan holds values of the types of its fields |
| `IdentitiesStay` | `SitePoliciesProofs` | assumes `PreferHub`. `IdentityInv`: see below |
| `ScansAreExact` | `SitePoliciesProofs` | `ScanKept`: the copy of the hub, and the statuses noted so far, are true of an administrator who is undisturbed |
| `OthersAreSpared` | `SitePoliciesProofs` | assumes `Old # NoEndpoint`: without an expected endpoint the code moves every site. `SwitchKept`: the policy to push has the new endpoint, and its site the old one |
| `ReconcilingFixes` | `SitePoliciesProofs` | assumes `PreferHub`. `FixKept`: `Stage` says of each stage of a reconciliation what plan and copies are worth; `PlanFixes`: a plan that is carried out leaves no drift |
| `KeysSurvive`, `UpdatesChangeRoutesOnly`, `RoutesTypesKept` | `PolicyEditProofs` | `PostKept`: wherever a write waits (outgoing or posted) its row carries the private key in full, because a read that masks it ends the call, and a write still marked `clean` carries the one row of its identity with other routes, and the preshared key as it was shown |
| `OneMasterStays`, `ReturnedWasInForce`, `WanTyped` | `PolicyEditProofs` | each copy of the policy (in force, on its way, about to be pushed) has one master: `Swap` exchanges two priorities of a policy that has one, and a blank read has no line to promote. What is in force during a call is in `shown` from its first step |
| `PlanWrittenOnce`, `ReportsStayTrue`, `PreviewedWrites`, `ControlTyped` | `PolicyEditProofs` | `Accounted`: as long as nobody else edits, the cloud has the preview (`Unwritten`), or the preview with the plan executed (`Executed`), and only the first gets past the comparison; so apply is past it after an execution, or with its own write under way, only if that write was under way at the comparison (`replayed`). `Compared`: what apply knows in each stage; `ReportHolds`: what the verdict was made of |
| `ChangesTyped` | `PolicyEditProofs` | the typing invariants of the five components hold together: the command that runs keeps its own, and the others stand still (`EachChangeRuns`) |
| `OverrunStaysBounded`, `SectionsAccounted`, `SkippedOnlyWhenLate`, `EvidenceTypes` | `DeadlineProofs` | `OnTime`: a call begins with a limit that fits what is left, so `now + limit <= Due + waits * limit` while it waits, and `waits` ends at `Pieces`. `Sorted`, `InOrder`: the sections before the one at hand are read or lost, and asked in order |
| `AdviceEnds` | `DeadlineProofs` | `UpdateAdvised`: the target of a path is an artifact of the device's model, ids being unique in a catalog that was accepted, so a device that runs it is found (`RunningFound`) and compliant. That a sequence with a match has a first one is `Least` |
| `WholePagesJudged`, `ProbesBounded`, `ScanTyped` | `DeadlineProofs` | `Clocked`: a probe that waits began with what was left, so that its waits add up to the bound. `Queued`: a target is in the queue or past it, so none is left when the queue and the workers are done |
| `ScansRunDown` | `DeadlineProofs` | `Armed`: a probe that waits has some time to wait, so each step of a worker spends some of what `ProbeBounded` limits or takes a target, of which there are finitely many |
| `HierarchiesAreRead`, `TreeTyped` | `ReadsProofs` | `TreeInv`: see below |
| `ReadsTyped` | `ReadsProofs` | as `ChangesTyped`, for the components that read |

`IInv` of `HubPolicyProofs` is needed because the hub takes whatever is queued,
what is queued was a draft, and a draft came from an older hub: only an invariant
of all three is inductive. Its three parts of a copy are `Sound`. The invariants
`SendInv`, `OwnerInv`, `DeadInv` etc. are defined next to the properties in
`TokenCache` for the same reason.

`IdentitiesKept` is not inductive for the same reason. `IdentityInv` says that what an
administrator may bring to a gateway is kept wherever it waits (`AdminKept`):
the peer that was read, the plan, the edited peer, list and policy. Its
crux is `EditedPeerKept`: as long as the hub is preferred no address changes, so
the peer found by the planned address is the planned one; `reconcile_site` shows
what happens when it is not. The three theorems about undisturbed administrators share one fact
(`ElsewhereSteps`): a step of one leaves the copies of the others alone, and, if another is still
undisturbed after it, the gateways too. So each invariant speaks of one administrator at a time.

`StableDevicesListed` speaks of the end of a collection; `FleetInv` of its middle. What was got of
a target may hold a device that has left it since, and then the invariant claims that the total
has changed (`Counted`): the target lost a device and gained none, so the next page is rejected.
What is accepted is therefore in the target, has no duplicates (`PageAccepted`) and is as
many devices as it announces, hence is the target: finite sets of one size, one inside the other,
are equal. That needs one change at most; two can compensate (section 3). No order of the listing
is used, only that a page shows entries of the target, each once (`PageIn`, and
`GroupListed` for a group: it numbers the places of the group's devices, which is why
`GroupListing` is written with places). The groups to come and the devices collected share out
what is stable (`Collected`).

`InTurns` lets any number of managers work, one after the other: a manager starts a workflow when
no other runs one (`StartsAlone`) and no push is on its way (`~Hasty`), and pushes do not time
out. None can be left out: `add_timeout` refutes `ReportsHold` with time-outs, and of two pushes
under way one may undo the other (section 3). The manager whose turn it is satisfies `Serial`:
nothing is on its way while it edits, and what is on its way was edited from all the peers of the
hub (`HubSerial`); the others are `Rested`: their reports, and the peers of their sites, are facts
about the hub that the turns of others keep, since they only add peers. A turn that is over leaves
`Rested` (`TurnOver`), and one that begins finds the hub settled (`TurnBegins`). `OneAtATime` is
the setting of the run `workflows`: one administrator, who takes turns with nobody.

`HierarchyRead` speaks of the end of a walk; `TreeInv` of its middle. After the group numbered
`last` was called, the stack is a path from the root (`AtCall`, one conjunct per frame): the frame
of a group has the nearest building above it (`OwnerIsNearest`), its subgroups after `last` are
left, and its list has the buildings from the group to before the group of the next frame.
Whatever is still to come is below a group whose call is under way, so that the next subgroup of
the innermost call is `last + 1` (`NextInOrder`), and the index is that of the groups up to `last`
(`LookedUp`). The recursion of the code needs no induction then: the walk is a state machine, and
the ancestors are the least set closed under parents.

**Only model-checked:** liveness (`DeadTokensDrain`, `CollectionEnds`, `ScanEnds`), which needs
fairness and is out of the prover's reach. Of the last two the part without fairness is proved
(`CollectionsRunDown`, `ScansRunDown`): a collection or a scan has a bounded number of steps to
take, for any number of groups, devices, targets and workers; the fairness is only that the next
step is taken.

## 5. Not modelled, and what is left

* `wireguard.py`: `create_server_policy`, `delete_server_policy`, `create_client_policy` and
  `delete_client_policy` (one command each, of which nothing is read back), the `.conf` export.
* `gateway.py`: `login` and the session id. What a gateway answers once the session has ended is one
  of the outcomes of a command: an error that raises, or, of a push, an answer without an rcode,
  which `cmd_checked` takes for success.
* `ddns.py`: `set_ddns` raises `NotImplementedError`; `list_domain_suffixes` is one read.
* `firmware.py`: `verify_repository` compares each image with its digest and keeps nothing.
* `site_control.py`: `matching_scope`, `compare_traffic`, `traffic_record`, pure functions of values.
* `models.py`, `utils.py`, `exceptions.py`: parsing, redaction and error classes, with no state; the
  modules use what they return.
* `cli.py`, `workflow_cli.py`, progress sinks: arguments, output, and one call of a component
  above. (The network that `cmd_onboard_site` computes replaces every occurrence of the
  last octet: `10.1.1.1/24` becomes `00.0.0.0/24`.)

Proofs that would be worth having next: what of `ReportsHold` survives a time-out (little does: a
push from before, applied late, can even remove the peer that an entry "already-exists" refers to);
what a collection guarantees when the hierarchy changes before the first page is asked for.
