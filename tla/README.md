# Verification of v2board-op

This directory holds TLA+ models of the programs of this repository, the TLC
configurations that check them on small instances, and TLAPS proofs of the
properties that matter most. Everything is translated from the sources under
`src/`; `PROJECT.json` maps each definition to the lines it stands for and lists
the hazards the properties are aimed at.

    tlc -config MCChangeIpJob_distinct.cfg MCChangeIpJob.tla     # check a run
    tlapm ChangeIpJobProofs.tla                                  # check the proofs
    tlapm ClientCacheProofs.tla                                  # ... of another part

## 1. Inventory

| part | state | operations | hard behaviour |
|---|---|---|---|
| **change-ip job** `internal/app/change_ip/lightsail_cf_job.go` | caches of one job (`instances`, `staticIps`, `dnsRecords`), `staticIpMu`, `stats` | `Init`, `Run`, `batchPing`, `processBannedItem`, `processInstance` in three variants (release, allocate, restart), `dropDnsRecord`, `createDnsRecord` | one goroutine per item over shared caches and one quota; about ten remote calls per item, each of which may fail before or after its effect; polls without bound |
| **change-ip main** `cmd/change_ip/lightsail_cf/main.go` | the round counter, the lock file in `/tmp` | a job, `Init` and `Run` per round | rounds over the state an earlier round left; launches that overlap, with AWS read before the lock is taken; death at any step |
| **panel client** `internal/pkg/api` | none | `QueryBannedList`, `TestPingBatch`, `ChangeIP` | lost requests and replies; an answer that is parsed and ignored |
| **AWS and Cloudflare clients** `internal/pkg/service` | memoized clients and errors (`sync.Once`, `sync.Map`) | `GetClient`, `GetClientForRegion`, `GetAPI` | first result kept for ever, an error too; concurrent first calls; callers that drop the error |
| **fetch of all regions** `internal/app/sync_ssh_config/job.go` | the merged map, the set of duplicates, two counters | `FetchInstances`, `fetchRegion` | goroutines merging in any order, regions failing between pages |
| **SSH config** `internal/pkg/sshconfig` | the lines of a file; the file, its backups and temp files | `Parse`, `Diff`, `ApplyAndWrite` | stale lines, death between file operations, names shared within a second |
| **sync-ssh-config** `cmd/sync_ssh_config/lightsail` | none | parse, fetch, diff, write | reads the file long before it writes it |
| **OpenWebUI OAuth callback** `deploy/v2board-openwebui-bridge/v2/code/oauth.py` | accounts, groups and their members | `handle_callback`, `get_user_role`, `update_user_groups` | an awaited download between a look-up and the insert it guards; roles and groups read before they are written |
| **bridge scripts** `deploy/v2board-openwebui-bridge/v2/*.sh` | containers, images, a data directory, a named volume | start, stop, restart, clean | which data a clean-up really removes |

How they interact: `main` builds a fresh job per round and calls `Init` (reads
AWS) and `Run` (takes the lock file, asks the panel for the banned list, reads
Cloudflare, works off the list). The job changes AWS, tells the panel, and moves
the DNS record. sync-ssh-config asks every region through FetchInstances and
hands the map to Diff and ApplyAndWrite. Both reach AWS through the memoized
clients, the job from all goroutines of a batch at once. The two programs share no
state but the AWS account. The OAuth callback runs inside OpenWebUI and shares
nothing with them.

What makes each part correct: the job must never make a live server unreachable,
must keep its cache and the quota in step with AWS, and must end; the main loop
must give each round a current view, stop after the configured rounds, and never
work on an instance twice at a time; the fetch must not depend on the order in
which regions answer; the config must be the old or the new one, whole, with only
the due addresses changed; a client must be one for all callers and never nil
without an error; the callback must keep one account per e-mail, make no admin but
the first account and those claimed, and leave groups as last claimed.

## 2. Modules

| module | models | state ↔ code |
|---|---|---|
| `Lightsail` | the AWS region as the job uses it (external) | `pubIp`, `power`, `statics`, `att`: what GetInstance, GetInstanceState and GetStaticIps report |
| `ChangeIpJob` | one `Run` | `instances`, `isStatic`, `staticIps`, `dnsRecords`: the sync.Maps; `mu`: `staticIpMu`; `pc[i]`: the goroutine of item i; `lo`: the batch loop; `dns`, `panel`: Cloudflare and the panel |
| `StaticIpQuota` | what the job promises of the region's static IPs | `used` ↔ `Live`, `restarting` and `failed` ↔ the `pc` of items, `lost` ↔ `faults` |
| `ChangeIpMain` | launches, rounds, lock file, deaths | `lockFile`, `tryNum`, and per process the caches of its current job; the calls inside `processInstance` are one step here, since their interleavings are ChangeIpJob's subject; `hosts`: the nodes with a DNS host; `down`: a batch whose ping map is nil; `overtaken` is a history variable: process, node and round, where another process changed the node's instance after the process had read AWS for that round |
| `MemoizedClients` | what the service clients promise | a `cell` per service or region, and the answer to each caller |
| `ClientCache` | `GetClient`, `GetAPI`, `GetClientForRegion` | `once`, `client`, `err`: the sync.Once, the fields it sets and the sync.Map; `configured`: whether a region is set; `pc`: a goroutine inside a call |
| `RegionAnswer` | what FetchInstances promises | `content` of the regions, one `answer` |
| `FetchInstances` | its goroutines | `instances`, `duplicates`, counters as in the code; `pc`, `page`, `result`: fetchRegion |
| `SshConfig` | parse, diff, rewrite as operators | a line is keyword, separator, arguments |
| `ConfigUpdate` | what sync-ssh-config promises of the config | `config`, and per run the `view` it has read, the `answer` it has learned, how far it is |
| `SshConfigSync` | the program and its file operations | `file`, `backups` by second, `tmp` by process; `lines`, `inst`: locals; `stale` is a history variable |
| `OAuthCallback` | callbacks from await to await | `users`, `members`: the tables; `conf`: the settings; `claims`, `user`, `user_count`: locals of each callback; `latest` is a history variable: with which callback each account was last logged in |
| `MC…` | instances for TLC | |
| `…Proofs` | theorems | |

In ChangeIpJob an external call is one action, and `Call` gives it four outcomes:
done, done with the reply lost, lost before its effect, refused by the service.
Every action is the code from one such call (or lock operation) to the next, so
interleavings are at the granularity at which goroutines can observe each other.
`Leave` is the unlock that each return path of `processInstance` performs.
ChangeIpMain is not an INSTANCE of ChangeIpJob: it has the control of the batch
loop and of `processBannedItem` over again, with addresses as numbers, so that
several processes and rounds stay small enough to check; its actions carry the same
names and map to the same lines. A batch is pinged as a whole before its goroutines
start (`PingBatch`), and the answer may be the nil map of a service that is down; an
item without a DNS host is counted as failed and left (`Begin`). It is coarser in one
place, `ProcessInstance`, and finer in none; a node has an instance of its own, so
items that share one are ChangeIpJob's alone.

Five components are shown to implement an abstract specification, which has fewer
variables and says nothing of how: FetchInstances implements RegionAnswer,
ClientCache implements MemoizedClients (the cell of a service is empty until its
sync.Once is done, then the error if one was kept, else the client), ChangeIpJob
implements StaticIpQuota, SshConfigSync implements ConfigUpdate (`view` ↔ `lines`,
`answer` ↔ `inst`, `state` ↔ `pc`; backups, temp files and the clock are not seen),
and SshConfig's parser is compared with the loop-free definitions `InForce`, `Due`
and `Updated`, which state what HostName line an alias has and what is to become of
it (`parseBlocks` is translated literally, as a recursive function over the lines).
SshConfigSync takes the answer of FetchInstances from the constant `Answers`: any
map is allowed, which covers all that RegionAnswer can answer; the two share
nothing else. ClientCache is not composed with the jobs: they call it as its
promise allows, a client or an error that stays.

### Modelling assumptions

- AWS does not hand out, within a run, an address that is on the banned list
  (`Pool` and the listed addresses are disjoint in the MC modules; the module and
  the proofs do not need it).
- A stop of an instance that is not running is refused, or accepted and idle; the
  code treats both alike. A detached, running instance has its new dynamic address
  at once. An instance has no public address only while stopped without static IP.
- Cloudflare refuses a record identical to one it has, and the deletion of one it
  has not.
- The panel lists every blocked node of the tags, and may list others.
- An editor of the SSH config saves whole files.
- A poll that does not see the state it waits for changes nothing, and is a
  stuttering step.
- OAuth callbacks run on one event loop: the code between two awaits is atomic. This
  holds for one worker process; `v2/docker-compose.yml` starts one container and
  sets no number of workers. The tables are changed by callbacks only.
- A provider's claims stand for the token, the user info and the e-mail asked of
  GitHub; a callback whose provider fails at any of these is refused and changes
  nothing.

## 3. Runs

| run | instance | shows |
|---|---|---|
| `job_distinct` | three items on three instances, one with a static IP, quota 2, one batch, ≤ 2 faults (231 000 states) | `CacheCoherent`, `AllocateWithinQuota`, `AnnouncedIsServed`, `Converged`, `NoPanic`, `DropsOnlyDeadAddresses`, `KeepsQuotaPromise` (refinement of StaticIpQuota), types |
| `job_live` | five items: one without host, one without instance, two on one instance; an empty, half full or full region; batches of 3, so that the last one is short, 1 fault, fair (271 000) | `Termination`; `Converged`: no item is left out; cache and DNS deletions stay right with stale snapshots |
| `job_shared` | two items on one instance, no room for a static IP | *violates* `Termination` (finding 1) |
| `job_dnslost` | one failed call | *violates* `PanelNeverAheadOfDns` (finding 2) |
| `main` | two launches with the same tags at any time, two rounds each, two nodes with or without a DNS host in one batch, addresses 0 to 4, 1 fault (a failed call, a newly blocked address, a death), 1 outage of the ping service (8.05 million, up to symmetry) | `HoldsItsAddress`, `RoundSeesInstances`, `EndsCoherent`, `BlockedOnlyAfterMaxTry`, `DropsOnlyOldRecords`, `ReachableKept`, types |
| `fetch_all` | three regions, two pages, two at a time, any failures (17 000) | `AnswersAsPromised`: refinement of RegionAnswer; types |
| `fetch_duplicate` | two regions with one name, one fails | *violates* `DuplicatesDropped` (finding 3) |
| `ssh_shapes` | all configs of a Host line and three lines of eleven kinds, six answers, 1 fault (49 000) | `FindsHostNames`, `WritesWhatIsDue` |
| `ssh_together` | two runs, an editor, two seconds, 1 fault (256 000) | `SyncTypeOK`, `BackupKept`, `WritesWhatIsDue`, `KeepsConfigPromise` (refinement of ConfigUpdate) |
| `ssh_equals` | as `ssh_shapes` without faults | *violates* `AddressReplaced` (finding 4) |
| `clients` | three goroutines, two services and a region, three calls, with and without a configured region, 1 fault, fair (56 000) | `OneClientEach`: refinement of MemoizedClients; `EveryCallAnswered`; types |
| `oauth` | three callbacks, one user of two providers that spell the e-mail differently and another user, every setting, with and without an account to begin with (1.4 million) | `SharedEmailOnlyByAwait`, `AdminOnlyAloneOrClaimed`, `NeverWithoutAdmin`, `GroupsFollowClaims`, types |

**Bounds.** Three items, with quota 2 and one static IP present, are the least in
which one item releases, one takes the last place and one must restart, and in
which the order decides who does. Two faults allow a failure in one item while
another recovers from its own; every further one only repeats. The pool of
`job_distinct` has an address more than instances and quota can hold, the others' one
for every change an item can make. In `job_live` no more than one item can
be left to restart its instance twice, which is what finding 1 is about. Two
launches and two rounds are the least for "the round before" and "the other
process" to mean something; four address changes are what two launches of two
rounds can make of one instance (`AmpleAddrs`). One outage puts one batch, of one
node or of both, or one new address on a nil map; it is counted apart from the fault,
so that both may meet. Three regions are the least where a name dropped
after two can be seen a third time. Four lines hold a block, something that ends it
or does not, and a HostName on either side. Three goroutines let one build a
client while two wait or come late. Three callbacks let two overlap at their
download while a third ends before, between or after. The counters `faults`,
`calls`, `edits`, `clock` and ChangeIpMain's addresses are capped by `MaxFaults`,
`MaxCalls`, `MaxEdits`, `MaxClock` and `MaxAddr`, the outages of the ping service by
`MaxOutages`; nothing else is. In ChangeIpMain `faults = 0` says that no call but
pings failed, nobody died and no address was blocked by `Block`; new addresses may be
blocked from the first, and the ping service may be down. Symmetry is used
on the addresses of the pool in `job_distinct` and `job_dnslost`, on launches and on
nodes in `main`, and on the callbacks in `oauth`: runs of invariants, box-action properties and a refinement
whose mapping does not tell the addresses apart.

**Deadlock** is checked in every run but `clients`; a program that has ended
stutters explicitly. In `clients` the callers stop when they have made their calls,
and `EveryCallAnswered` shows that none stops before.

**Fairness.** `FairSpec` of ChangeIpJob (runs `job_live` and `job_shared`): weak
fairness of the steps of Run and of each goroutine (the Go scheduler runs what
can run, and remote calls return: resty has a timeout of 15 s; for AWS and
Cloudflare, called with `context.TODO()`, this is an assumption);
strong fairness of `Lock`, since sync.Mutex hands over to a waiter that has waited
a millisecond; weak fairness of AWS completing the stops and starts it accepted.
No fairness is assumed of faults, nor that a poll ever sees a given state.
`FairSpec` of ClientCache (run `clients`): weak fairness of each goroutine inside a
call; a goroutine waiting in `once.Do` can go on as soon as the one that builds is
done, so nothing stronger is needed. That a goroutine calls at all is not assumed.

## 4. Findings

1. **Run may never return** (`job_shared`). Two listed items on one instance both
   take the restart path, which the code allows in parallel; the second polls for
   `stopped` after the first has started the instance again. The poll has no bound
   and the lock file stays taken.
2. **Panel ahead of DNS** (`job_dnslost`). The panel is told before the new record
   is created; a failed creation is only logged and does not count for a rerun.
   The comment in `processBannedItem` gives avoiding just this as the reason for
   aborting other items.
3. **A failed region hides a duplicate** (`fetch_duplicate`), so a name that is
   ambiguous is answered with one of its addresses.
4. **`HostName = a` is rewritten to `HostName b a`** (`ssh_equals`), though the
   parser is written to accept this form. (`HostName=a` is accepted by the parser
   as well and makes every update of the file fail.)

Beside these, the properties say in so many words what the code does not promise:

- *A launch that is overtaken.* `Init` reads AWS before `TryLock`. A launch that
  takes the lock after another has changed AWS works from old instances, takes a
  live address for one without an instance, and deletes its record.
  `DropsOnlyOldRecords` lets nobody do so but a process that had read AWS, in the same
  round, before another changed the instance; with tags that share nodes that may be
  one already past `TryLock`. TLC reaches such a deletion in some twenty steps. No doc
  or comment denies it, so it is a hazard of `PROJECT.json` and no finding.
- *An outage of the ping service.* A nil map reads as "all unreachable", so reachable
  nodes of that batch are rotated. `ReachableKept` confines this to the batch whose ping
  failed, and `BlockedOnlyAfterMaxTry` says that a new address that could not be pinged
  is tried again.
- *A lost `ChangeIP`.* The panel goes on listing an address no instance has. A later
  round takes it for an item without instance and deletes at most a dead record
  (`DropsOnlyOldRecords`); it rotates nothing (`ReachableKept`). The instance has the new
  address all the same, and nothing tells the panel.
- *Accounts that share an e-mail.* Two callbacks of a new user find no account, await
  the picture, and both insert. `SharedEmailOnlyByAwait` allows this way and says there
  is no other, such as one person whose providers spell the e-mail differently; nothing
  the code promises covers the first.
- *Groups of an account whose role changes.* The role tested before group management
  is the one read before it is updated, so the groups of an account demoted at this
  login stay as they were; `GroupsFollowClaims` is stated of the role read.
- *No groups claim configured.* The callback fails after the account has been made.
- *An only admin under role management* can be demoted by what is claimed.
- *Two runs of sync-ssh-config within one second* share the name of the backup, and a
  config changed since it was parsed is overwritten (`BackupKept`, `WritesWhatIsDue`).
  A backup that a failed run of the same second has removed stays removed: the copy of
  the other goes on into a file without a name (`CopyBackup`).

## 5. Proofs

All theorems hold for every value of the constants under the modules' named
assumptions (types of the constants, NameFor injective, well-formed initial worlds,
markers distinct from data), which TLC evaluates in the runs, and under the
hypotheses named with each below.

**ChangeIpJobProofs.** `TypeCorrect`, `CacheIsCoherent`, `AllocationFits`. The
invariant is `IInv == TypeInv /\ StaticInv /\ CacheInv`. CacheCoherent alone is not
inductive: it says nothing while the mutex is held, when AWS and the cache differ
by what the holder has just done. `CacheInv` says by how much, for each step of
the critical section: after Release the released entry is still cached, between
Allocate and GetStaticIp the new static IP is not yet. `StaticInv` adds that
static IPs have distinct addresses, so that one step changes one entry; `TypeInv`
adds that a goroutine is between Lock and Unlock exactly when it holds `mu`.
`RoomInv` carries the result of the quota check from Lock to AllocateStaticIp:
nobody else allocates in between, because allocating requires the mutex. Items
may share an instance, and the list may have any length. The theorems cover any
number of faults for types, and fault-free behaviour for the other two: after a
failed call the cache rightly differs from AWS (the code does not repair it).

**ChangeIpJobAddressProofs.** `DropsAreDead`: no record of a live address is deleted,
with any faults and with items that share an instance. Hypotheses: AWS hands out no
listed address (`FreshPool`), and no listed address is an unattached static IP at
the start (`NoIdleListed`). `AddressInv` traces who can still have the listed address
of an item (`OwnerInv`: its instance, and its static IP if Init has seen it), links
static IPs to instances (`LinkInv`), and says from which step of an item on nobody
has it (`ReachedInv`, `DeadPcs`). The point of the proof is what happens between:
another item on the same instance may stop, start or release it, but no step gives a
dead listed address back.

In the same module, `AnnouncedAreServed` and `NeverPanics`, when no address is
listed twice (`DistinctAddresses`; finding 1 shows what sharing an instance leads
to), the second when all instances are up at first (`AllUp`: the code does
dereference nil for a stopped instance without address). `Served` says that once an
item has its new address the instance is settled (`Settled`: running, or with a
static IP), so that nothing moves the address again while the panel and DNS are told.

**ChangeIpJobPromiseProofs.** `QuotaIsKept`: ChangeIpJob implements StaticIpQuota, and
`RunsConverge`: a run in which no call failed has done for every unreachable item all
that it is there for. Both assume, besides the hypotheses above, that AWS has more
addresses than the instances and the quota can hold (`AmplePool`; otherwise a refused
allocation is a failure without a lost call) and that no static IP of an earlier run
lies about unattached under a name this run will use (`NoLeftovers`). The instance of
`job_distinct` meets all of them. `QuotaInv` adds to the invariants above:

- `RegionInv`: AWS never has more static IPs than its quota.
- `ReadyInv`: what an item will find when its turn comes. Its instance is up, its
  static IP is attached to its instance if it has one, its name is free if not. Nobody
  else touches these, since addresses are distinct and names belong to instances.
- `GhostInv`: the cached static IPs that the region no longer has are at most as many
  as calls were lost. When Lock finds the cache full, the region is therefore full but
  for one place per lost call (`CountsTooHigh`, by an injection from cached entries to
  names), which is what `Restart` of StaticIpQuota asks.

With these each item step maps to one step of StaticIpQuota or a stutter: one lemma
per call, with the three effects a call can have. For `RunsConverge`, `ConvergeInv` says
what DNS has of each item's two records at each step (`RecordsKnown`) and what an item
that has ended left behind (`Finished`).

**ChangeIpMainProofs.** `KeepsItsAddress`, `DeletesOnlyOldRecords`,
`RoundsFindInstances`, `AllEndCoherent`, `KeepsReachable`, `BlocksAreTried`, `MainTyped`,
for any number of launches, nodes, rounds, outages and faults.

- Without a hypothesis on tags: `DeletesOnlyOldRecords`, `KeepsReachable`, `MainTyped`.
  `OldInv` says that a process's listed address is never newer than the instance's,
  older once the process has changed it, and that a process not overtaken in its
  round has a current snapshot, so that only an overtaken one can miss an instance
  that has the listed address. `BlockedInv` says that what a process is about to change
  was found blocked by its ping, if the service was up and the instance still has the
  address. It needs nothing about faults: after a lost `ChangeIP` the panel lists an
  address the instance has left, and the item finds no instance. `MainTyped` needs two
  countings: a process about to begin a round has one left (`RoundsInv`), and the
  failures of a round are at most the nodes it is past the ping or the abort of
  (`FailInv`).
- With `DisjointTags` (different tags list different nodes, since each set has a lock file
  of its own): `KeepsItsAddress` by `MainInv`, mutual exclusion with what each process
  holds of a node; `RoundsFindInstances` by `CurrentInv`, that without failures the panel
  has the address of every instance nobody is just changing, and so has the list of a
  process about to change it; `AllEndCoherent` by `RecordsInv`, which says the same of DNS
  for nodes nobody was overtaken on. These are statements about runs without failed
  calls but pings: a round that lost its `ChangeIP` does leave the next one without an
  instance.
- `BlocksAreTried` (`BlockedOnlyAfterMaxTry`) needs `AmpleAddrs` besides, that the bound
  `MaxAddr` leaves an address for every round of every launch (as in run `main`):
  `SpentInv` counts one round per address an instance has had, so that a round that comes
  to change it finds one more. `ChargeInv` says who still has to look at a blocked node:
  no process has settled it in its round without counting a failure, and a process that
  is over with rounds left can only have found the node reachable before another
  changed it in an outage (`DownInv`), who is then in charge of it (`InCharge`), with
  rounds to come or none left. `LockHeld` keeps that other one alone at work.

**ClientCacheProofs.** `ClientsTyped` and `ClientsKeepPromise`: ClientCache implements
MemoizedClients for any goroutines, services, regions and calls. The invariant says
who may be inside `once.Do` (at most one, while `once` is "running"), that a caller
past it finds the service done, and that a service with an error has no client.

**OAuthCallbackProofs.** `EmailsStayApart` if the accounts there were have e-mails of
their own in lower case (`ApartAtFirst`, `LowerAtFirst`); `AdminIsAloneOrClaimed` if
`DEFAULT_USER_ROLE` is not "admin"; `AdminIsThere` if there was an admin among
accounts there were (`AdminAtFirst`). For the first, `Free` says that the e-mail of a
callback that awaits its picture is none of the accounts it has counted, so that only
one made since can share it, and `Kept` that a callback that has made an account is over.
`GroupsAreThoseClaimed`, without a hypothesis: the end of a callback sets the groups
of its account only, and takes the place of that account's earlier login
(`FinishGroups`). `AccountsAreThere`: types, with every account spoken of there
(`Within`).

**FetchInstancesProofs.** `FetchTyped`, by counting the regions that are done
(`Counted`), and `FetchKeepsPromise`: FetchInstances implements RegionAnswer. The
merged map is a function of the *set* of regions merged, not of their order (`MapIsAgreed`): a name is absent when no merged region has it or two
differ, and is in `duplicates` exactly in the second case. This is the inductive
invariant `FInv`, with what is read so far of a region equal to the pages read.

**SshConfigSyncProofs.** `ConfigIsWhole` and `BackupIsKept`, for any number of
runs. Invariant: types, what is known of a run at each step (`Known`: its updates
are applicable from the comparison to the temp file, its stamp is set from the
backup on, its temp file is whole at the rename), its backup, empty while
copied (`CopyInv`) and then equal to the config it was taken from, and that a run
nobody has overtaken knows the config as it is (`FreshInv`).

`HostNamesAreFound` is an induction over the lines of a config. The library's induction
theorems take an operator and cannot be used, so what is proved of every number is put
as a set of numbers that has 0 and, with n, n + 1 (`EveryNumber`, from the
well-foundedness of Nat); `LoopExists` and `ScanSteps` give the recursive function `Scan`
its equations in the same way. The loop invariant is `Scanned`: after n lines there is a
block for every Host line and no other, each with the first HostName of its own
(`BlockOf`), and the one in progress is that of the Host line no Host or Match has
followed (`Opens`). `DiffIsDue` turns this into Diff = Due; `ApplyKeepsBlocks` and
`AppliesWhatIsDue` say that rewriting lines moves no HostName to another alias and
leaves nothing due. From these, `WhatIsDueIsWritten`, and `ConfigPromiseIsKept`:
SshConfigSync implements ConfigUpdate, where a run's rename is its one write and
everything else it does to files is not seen (`RunStep`, with `WritesSomething`: who goes
on from the comparison has something to write). It holds of stale runs as well: what
is written is what was read, with all that was due.

Only model-checked: `Termination` and `EveryCallAnswered`, liveness under fairness. Every
safety property of the passing runs is stated by a theorem.

## 6. Not modelled, and why

- *Bridge scripts* (`v2/*.sh`): interactive lists of docker commands, run one at a
  time by one person; all their state is docker's. Read beside `docker-compose.yml`,
  option 3 of `clean.sh` removes the data directory and keeps the named volume
  `open-webui` that the compose file mounts.
- *Bridge v1*: nginx and docker configuration, no state of its own.
- *Helpers*: root domain of a host (public-suffix lookup), logger set-up.
- *`TestPing`* of the panel client (nothing calls it), *`handle_login`* (redirects and
  changes no account).
- HTTP encoding, logging, flag parsing, the text of the diff, indentation, line
  endings, file modes, symbolic links; tokens, cookies, the webhook, names and
  pictures of accounts.
- Launches that overlap with *different* tags and list the same node: the code gives
  no promise there (hazard at line 119); `DisjointTags` names it in the proofs.
- Loss of power during the rename (no fsync): a matter of the file system.
- Build files and CI.

## 7. Plan

Done, in this order: Lightsail and ChangeIpJob; ChangeIpMain; FetchInstances with
RegionAnswer; SshConfig and SshConfigSync; ClientCache with MemoizedClients;
StaticIpQuota; OAuthCallback; ConfigUpdate; the proofs of each.

Next, what would add most:
1. ChangeIpMain as a refinement of one atomic change per node, with the lock file as
   what makes it atomic.
2. That the steps of `processInstance` which ChangeIpMain takes as one are one for
   everybody else: a map from ChangeIpJob, with one instance per item, to the
   `processBannedItem` of ChangeIpMain.
3. For `Termination`, the part that is safety: a measure that every step but a poll
   makes smaller.
