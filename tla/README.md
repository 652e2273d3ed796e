# kluster, specified

TLA+ models of the parts of this repository whose correctness depends on the
order in which things happen: a push to a device that can be cut anywhere, the
replacement of the box that holds every stack's state, the package cache and the
routing daemon of a gateway, the credentials and passphrases a stack is
configured with, a state that is committed to a public repository. Each is
model-checked with TLC on small instances, and of each, every safety property a
run checks is proved with TLAPS for all values of the constants, under the
hypotheses that [what is proved](#what-is-proved) names; liveness is
model-checked only.

kluster is a Pulumi program in Python (`src/src/kluster`), the custom dynamic
providers it needs, the shell scripts it delivers to a UniFi gateway, and the
command-line tools an operator runs beside it. Most of it declares resources of
other people's providers and leaves ordering to Pulumi's engine. The rest, which
is what is modelled here, keeps state of its own across failures.

| Module | Lines | What it models |
|---|---|---|
| `GatewayMachine` | 891 | a container machine of the gateway: push, hook, converger, rollback, delete, retirement |
| `BoxReplacement` | 636 | the state-backend box: driver, engine steps, hooks, restore, dumps |
| `GatewayPackages` | 517 | `10-packages.sh`: the boot-chain packages and their offline cache |
| `SeedKit` | 479 | the seed kit: bootstrap, rotation, repair, and the escrow it opens |
| `PolicyOrder` | 382 | a firewall zone pair and the resource that ranks its policies |
| `DeviceFiles` | 455 | one file on a device: its record, its identity, its hook |
| `DeviceSlot` | 79 | what such a file promises, which `DeviceFiles` implements |
| `StackSlots` | 449 | a mint's push and retirement, and a stack's move to a new passphrase, over one file |
| `CommittedCheckpoint` | 195 | what stands between a run and the push of a committed state |
| `RoutingDaemon` | 383 | `frr-config.sh` at boot and from a push, the daemon it converges |
| `..._proofs` | 896, 1535, 1181, 1172, 974, 516, 1172, 683 | theorems about them (machine, box, packages, kit, order, device files, daemon last; `CommittedFiles_proofs`, of 1172 lines too, is about slots and checkpoint) |
| `MC*` | | the instances TLC checks |

To check one: `tlc -config MachinePush.cfg MCGatewayMachine`; to prove:
`tlapm GatewayMachine_proofs.tla`. `PROJECT.json` holds the machine-readable
index: which definition stands for which lines, which run checks what, which
mutation of a definition breaks which property.

Contents: [inventory](#inventory) · [plan](#plan) · the nine components
([machine](#gatewaymachine), [box](#boxreplacement),
[packages](#gatewaypackages), [kit](#seedkit), [order](#policyorder),
[files](#devicefiles-and-deviceslot), [slots](#stackslots),
[checkpoint](#committedcheckpoint), [daemon](#routingdaemon)) ·
[runs](#runs) · [what is proved](#what-is-proved) ·
[disagreements](#where-the-code-and-its-documentation-disagree) ·
[not modelled](#not-modelled)

## Inventory

What the system is made of, what each part keeps, and what would make it wrong.
"Engine" is Pulumi's: it calls providers and hooks in dependency order, records
each outcome, and deletes last.

### Parts that keep state of their own

**Gateway container machines** (`providers/device_files/provider.py`
DeviceArtifact; `components/gateway/nspawn.py`, `container.py`;
`templates/40-machines.sh.j2`, `machine-rollback.j2`).
*State*: on the device, the live tree `rootfs/`, the siblings a push or a
rollback parks beside it (staging, superseded, rejected, the layout), the digest
marker, the converger's stamp, the settings file that declares the machine, its
link, the running unit; in Pulumi, the recorded digest and the identity of the
writes. *Operations*: create/update (pull, unpack, two renames, marker, hook),
diff, read, delete (purge, marker, hook); the settings file's write and delete;
the converger, run by every hook and at boot, which also retires a machine
without a settings file; rollback, run by a failed hook or by hand. *Interactions*:
the hook runs the converger over every
machine, so a sibling's push restarts this one; the engine learns only the exit
status. *Hard*: two renames and a marker that are not one step; a session lost
or timed out while its script goes on; three records (recorded, marker, stamp)
that can disagree. *Correct when* a machine never boots a partial tree, a
rollback restores exactly what the push displaced, what is recorded is on the
device, a retired machine is down, and running the deployment again repairs
every disagreement; where a command that fails breaks one of these, the
exemption has a name.

**State-backend box** (`components/state_backend`, `lib/state_backend`,
`scripts/operator_stack`, `scripts/state_backend/cli.py`,
`providers/postgres_tls`). *State*: the boxes in the cloud and what each holds,
the reserved address, the encrypted dumps, each working copy's checkpoint and
the one landed on main, and a plaintext dump inside one process. *Operations*:
`operator-stack plan`, `up`, `up --force`, `up --replace`, a passed-through
pulumi command, `state-backend restore`, the nightly dump. *Interactions*: the
engine calls the hooks (dump before the delete, permission before the create,
restore after readiness); clients write stack state into the box throughout.
*Hard*: runs killed between any two steps, checkpoints that never land, a plan
made twice (preview and `up`), a backend that may be silent or serve nothing.
*Correct when* no acknowledged write is lost that the design does not give up,
there is never a second box, nothing is replaced without `--force`, and an
answer of 0 means the state is being served.

**Gateway boot-chain packages** (`templates/10-packages.sh.j2`,
`components/gateway/persistence.py`). *State*: dpkg's database under a firmware
that an update replaces; on `/data`, the debs cached and the saved database they
were resolved against. *Operations*: the boot run, `--refresh`, `--check`.
*Hard*: a swap of two directories, an update that ships something newer than the
cache, a set that grows, a boot with no network. *Correct when* the saved base is
the firmware's, the cache is never lost, an offline boot installs the set and
downgrades nothing, and the device settles once the archive is in reach.

**Seed kit and escrow** (`scripts/credentials/lifecycle.py`, `escrow.py`,
`oci_iam.py`, `b2.py`, `cloudflare.py`, `kdbx.py`). *State*: one database file
per kit, with a row per seed; the keys live at each platform; the ciphertexts in
the checkout and the recipients file they are sealed to. *Operations*: `kit
bootstrap`, `kit rotate` (whole, one row, resumed), `seed oci|b2 rotate|create`,
the escrow's `init`, `generate`, re-wrap. *Hard*: every save is a step, three
saves make one row, deletions may be refused, a quota of keys, a re-wrap cut
between two ciphertexts, clones of the checkout of any age. *Correct when* no
seed and no ciphertext is ever unopenable, a retired kit opens nothing, and a
rotation that was cut is finished by running it again.

**Zone policies** (`components/gateway/unifi.py`,
`providers/unifi_zone_policy_order`). *State*: on the controller, the policies of
a zone pair by rank; in Pulumi, the id of each policy and the list last ranked.
*Operations*: create, read, diff, update of the order between the engine's
creates and its deletes. *Hard*: the controller refuses a batch that does not
name every custom policy; the console edits the pair meanwhile; replacements and
dropped policies are on the pair while it is ranked. *Correct when* a drop
ranked ahead of an allow is never behind it, policies made by hand are left
alone, and running again ends with the census ranked.

**Device files and directories** (`providers/device_files`,
`providers/configured.py`). *State*: a file on the device; in Pulumi, its content,
the stamp of the session and provider version that wrote it, and the identity
(`stat`) of the write. *Operations*: create, diff, update, an update that only
stamps, read, delete; a hook after each write and each delete. *Interactions*:
the engine creates a replacement before it deletes the original, at the same
path; a service reads the file when a hook tells it to. *Hard*: the file is
rewritten between a read and a delete (`identity_test`), a script outlives its
session, a hook fails after the write. *Correct when* nothing but the
deployment's own write is ever taken away, and a state with nothing to do is one
the service was told of. The artifact is `GatewayMachine`, the directory that is
made again appears in `GatewayPackages`.

**Credential slots and stack passphrases** (`scripts/credentials/derived.py`,
`delivery.py`, `pulumi_config.py`, the platforms' modules). *State*: the
credentials of a row's name at its platform; each stack file's salt, secrets and
slots, in the checkout and on main; the generation each state is encrypted under
and the Environments hold. *Operations*: a row's mint (create, push into every
slot, retire what is superseded), `re-encrypt` (the file's salt, its ciphertexts,
then the state), a new generation, `derived sync`. *Interactions*: both commands
write the stack file; jobs apply what main holds. *Hard*: a run that ends between
two of the three, two mints at once, a platform's quota, telling on the next run
which half of a cut move went where, and a recovery that restores files. *Correct
when* no slot holds a deleted credential, and everything settles on the newest
generation and one live credential.

**Committed checkpoints** (`scripts/operator_stack/checkpoint.py`,
`driver.Run._write`). *State*: a checkpoint in the checkout, the record beside it
that says it must not be pushed, strays, the checkpoint on main. *Operations*:
`up` and a passed-through command (record, export, write, checks). *Hard*: the
run that dies between the write and the check; values the search knows for secret
only from a state that no longer marks them. *Correct when* no value the driver
could know for secret is pushed in the clear, and a record is always answered.

**Routing daemon** (`components/gateway/routing.py`,
`templates/frr-config.sh.j2`, `frr-config.service.j2`). *State*: the declared
configuration on `/data`; in `/etc`, the daemon's copy, its line in the daemon
list, and the stamp; what the running daemon was started on. *Operations*: the
converger, run by its unit at boot and by the file's hook. *Interactions*: two
runs share the copy and the stamp; a firmware update may put any of the files in
`/etc` back and brings another parser. *Hard*: a stamp that outlives what it
speaks of, a restart that fails, a source replaced between the check and the
stamp. *Correct when* a run that finds nothing to do leaves a daemon that runs the
declared configuration, and the daemon comes to run it.

**Asynchronous outputs** (`putils/paio.py`). An output resolved by a coroutine;
its dependencies, its failure. Planned.

### Parts that keep none

AdGuard settings (`providers/adguard*`: a page read, compared, written whole);
object-storage and image-factory artifacts (a download checked against a digest,
renamed into place); acquisition, environments, versions (`lib`: a value found
along a chain of sources); the remaining gateway declarations and boot-chain
scripts; Talos, homelab, cloud, add-ons, DNS and forge components (declarations);
stacks and conventions; the CRD generator; generated SDKs; workflows and images.
`PROJECT.json` lists each with its files and the reason it is not modelled.

## Plan

In order, the behaviour whose failure costs most first:

1. `GatewayMachine`, its runs, its proofs — done.
2. `BoxReplacement` — done, with proofs.
3. `GatewayPackages` — done, with proofs.
4. `SeedKit` — done, with proofs.
5. `PolicyOrder` — done, with proofs.
6. `DeviceFiles` and the abstract `DeviceSlot` it implements — done, with proofs;
   a directory's modes are left.
7. `StackSlots`: mint, push, retire, and the move between passphrases, composed
   over the files they share — done, with proofs.
8. `CommittedCheckpoint` — done, with proofs.
9. `RoutingDaemon` — done, with proofs.
10. Left: `AsyncOutput`; an upload that is checked by its etag and a download by
    its digest; as pure algorithms the set comparisons of AdGuard and the
    acquisition chain, against reference definitions; slots that are GitHub
    Environments, devices and workstations.
11. Proofs left: `NothingLost` for several workstations, once what they may lose
    is exempted by name; `GatewayMachine` as an implementation of an abstract
    slot, one weaker than `DeviceSlot`: after a rollback by hand a delete that was
    still owed takes away a tree other than the one its push recorded.

Modules are written to be proved about: parameters are CONSTANTS with a named
assumption, one action stands for one step of the code, and there is no
RECURSIVE operator.

## GatewayMachine

One container machine. `live`, `staging`, `superseded`, `rejected` and `layout`
are the directories a push and a rollback move; a directory is the digest it was
unpacked from, `None`, or `Torn` (neither one image nor absent). `marker` is
`rootfs.digest`, `stamp` what the converger acted on, `runs` where the files the
running machine uses are (a rename does not stop a machine, `Follow`), `applied`
what Pulumi records, `declared` the pin, or `None` where the program has dropped
the machine. `settings` is the `.nspawn` file, which makes it a machine of the
device, `linked` the link and the enabled unit, `entry` what Pulumi records of
the file (of the write that stands, or of an earlier one), `mine` whether the
marker is the write it records of the artifact, `orig` whether a replaced
original still waits for its delete.

| Code | Actions |
|---|---|
| a commit, `pulumi refresh` (`_read`), `diff` then create/update | `Bump`, `Refresh`, `BeginPush`, `BeginReplace` |
| `pull_script` | `PullClears`, `PullCleared`, `PullFails`, `Fetch` |
| `unpack_script` | `Unpack`, `Displace`, `Swap` |
| `_mark`, `run_hook` | `WriteMarker`, `RunHook` |
| `_delete`, `purge_script` | `BeginDelete`, `Leave`, `Purge`, `Sweep`, `Purged`, `PurgeFails`, `Unmark`, `Deleted` |
| the settings file and its hook | `BeginSettings`, `LeaveSettings`, `Settled` |
| `40-machines.sh` | `ConvergeReads` (which retires, `Retires`), `ConvergeLinks`, `ConvergeRestarts`, `ConvergeStamps`; `SiblingHook` when another machine's hook runs it |
| `machine_hook`, its gate, and `_land` after it | `GateRollsBack`, `GateExits`, `RollbackExits`, `Withdraw`, `Record`; `LeftGate` of a hook nobody hears any more |
| `machine-rollback`, one action a command | `RollTests` ... `RollStarts`, `RollFails`; `RollbackByHand` |
| systemd's restart policy, the world | `Dies`, `AutoRestart`, `HookTimesOut`, `SessionLost`, `PowerLost` |

A `mv` onto a directory that exists moves *into* it: `Landed` makes the result
`Torn`, so `LiveWhole` says that no sequence of interrupted pushes and rollbacks
ever leaves the live tree nested or half unpacked. A timeout or a lost session
leaves the script on the device with nobody waiting for it (`Abandon`): it goes on
where it is, converger (`conv["left"]`), gate (`LeftGate`) and rollback, or is
killed.

Any command may fail and say so: each action that stands for one has a branch that
spends a `Mishap` and ends the operation where the code does, with what the command
had done by then. Three failures cost what a property claims, and history variables
name each, so that the property is about all the others. `mismarked`: the write
of the marker failed after the swap (`_mark` is outside the `try` that withdraws
it), or a rollback failed between its swap and its removal;
until the marker is written or removed again `MarkerNamesTree` and `Converges` say
nothing. `wreck` is "lost" from a rename that failed with the live tree moved
aside, in a push or in a rollback, to the next push that is recorded: the retry
clears the trees that are parked, and `WholeTreeKept` says nothing; it is
"parked" while a clear that failed has left a torn superseded tree, which only a
rollback by hand would make the live one. A stop that fails in a retirement is
swallowed (`|| true`) and its link goes all the same, so `retired` is "strayed".

A delete takes the tree first, then the marker, then converges, and last goes
the settings file, whose hook retires the machine. What the deletes answer is
recorded by `purged` and `retired`, two history variables: `LiveWhole` and
`MarkerNamesTree` except a tree on which a purge was cut, and `RetiredIsDown`
speaks of a retirement that was answered and whose stop did not fail. Nothing
locks the converger: one that had read a machine as declared links and starts it
after another has retired it (`ConvergeLinks` with no settings file, "strayed"
too), and that is the other exception `RetiredIsDown` makes.

*Bounds.* Two digests, of which the second does not stay up, suffice for a push,
a push over a push and a rollback to each. An act is a commit that pins, a
replacement or a rollback by hand; a commit that drops the machine is free, as
two of them have one that pins between them. Two acts without faults allow a
third tree to be displaced; one act with two faults allows a recovery to be
interrupted, and a machine to be dropped, declared again and dropped.
`MachineFaults` tells states apart by the view `Told`: it checks invariants
alone, and what it leaves out, two histories and what an operation that is over
was, neither they nor any guard read. *Fairness.* The deployment is run again
while there is something to do (`Deploy`: a push, a delete, the settings file),
and a script or a provider call that has begun goes on (`Land`,
`Converge("push")`, `Rollback`). Nothing obliges the world: not a commit, a
refresh, a sibling, a restart. `Converges` has, besides `mismarked`, two
escapes. An image that does not stay up, pinned, or left where a new settings
file starts it, fails the hook as often as it is started, which includes the
stale stamp described [below](#where-the-code-and-its-documentation-disagree);
and a tree a purge was cut on is not repaired while the marker beside it still
holds.

*Left out*: links and pipes in place of directories; the other files of the
stamped set, which are held fixed; the overlap of an abandoned script with the
next push, as such a script is over before that begins (`Free`); the steps of a
retirement (`disable --now`, then the link) are one, and its `rm -f` of the link
does not fail.

## BoxReplacement

The cloud (`alive`, `booted`, `ign`, `address`), what the boxes and the dumps
hold (`data`, `clock`, `dumps`), the program and the checkpoints (`want`,
`main`, `chk`, `dirty`, `behind`), and each workstation's run (`pc`, `verb`,
`code`, `plain`). A box's state is the set of writes it acknowledged, and it
*serves* when that set is not empty; the inputs a box was launched with,
certificate included, are one generation number.

| Code | Actions |
|---|---|
| `Run.plan`, `Run.up`, `Run.passthrough` up to `pulumi up` | `Start`, `PlanOnly`, `RefuseBeside`, `HoldForForce`, `NothingToApply`, `Ask`, `Decline`, `Confirm` |
| `up --refresh` and the engine's steps | `Refresh`, `Terminate`, `Create`, `Point`, `PointFails`, `AlreadyReady`, `Ready`, `NotReady` |
| `Replacement.dump_now`, `permit_now`, `restore_now` | `DumpHook`, `DumpHookRefuses`, `PermitRefuses`, `RestoreHook`, `AlreadyServing`, `Load`, `LoadFails`, `Held` |
| `Run._settle` | `Settle` |
| `state-backend restore` | `RestoreAsk`, `Feed`, `FeedFails` |
| `state-dump.sh`, first boot | `Nightly`, `Boot` |
| the operator, the clients, the world | `Commit`, `Change`, `Land`, `Rebase`, `Expire`, `LoseBox`, `StepErrs`, `PreviewFails`, `Killed`, `KilledLaunching` |

The plan is made twice, in the preview and again in `up --refresh`: `Refresh`
reads the world anew, so what the operator agreed to need not be what is done.

*What the design gives up* is recorded in history variables and exempted by
name: a write stored between the dump and the delete, on a box lost outright, or
under a restore that went on because the backend was silent (`forgiven`); a box
whose launch was killed before anything recorded it (`unknown`); a run begun on
a checkpoint another working copy had superseded (`strayed`). `Recovers` exempts
three states no run leaves: `BoxExpired` (the certificate expired, below),
`LostUndumped` (the box is lost before any dump), `Stranded` (a run ended
between the launch and the address, and the program then moved). *Serial*: one
run at a time except for a restore while a run waits for its box, which is how
the documents tell an operator to work; the code does not enforce it, and two
runs at once can create a box beside a held address (hazard at `driver.py:604`).

*Bounds.* Three faults on one workstation: a replacement cut, its resumption cut,
and a silence on top. Two writes, so that a dump can miss one. Two workstations
for the properties about checkpoints, with one fault. *Fairness.* A run goes on
by itself. The operator keeps to the playbook: `up --force` again and again and
sometimes confirmed, a restore where one is owed, checkpoints landed, working
copies rebased, an expired certificate issued again; hence strong fairness on
what a run in the way disables.

## GatewayPackages

Versions are numbers, and the archive holds every package at one version. The
device is `release`, `live` and `up` (the versions dpkg holds, and which are
installed rather than unpacked), `lists`; `/data` is `cache`, `new` (the
directory the swap brings in), `base`, `baseOf` and the script's `packages`. Two
history variables say what the commands the script does not ask about have cost:
`lost`, that in the run under way a copy, the making of the directory, a move or
the rename that completes a cut swap failed; `short`, that the cache a run reads
lacks debs of the download it was filled from.

| Code | Actions |
|---|---|
| the boot run: base recorded, lists, apt, fallback to the cache | `BeginBoot`, `RecordBase`, `RecordRelease`, `RecordFails`, `UpdateLists`, `UpdateFails`, `AptInstalls`, `AptFails`, `Fallback` |
| `--refresh`: resolve against the base, download, carry over, swap | `BeginRefresh`, `DownloadSet`, `DownloadFails`, `CarryOver`, `CarryLoses`, `CarryRefuses`, `Fill`, `FillLoses`, `LabelFails`, `SwapOut`, `SwapFails`, `Promote` |
| `--check` | `CheckPasses` |
| power, firmware, archive, uplink, a push | `Cut`, `UpdateFirmware`, `Publish`, `Network`, `Grow`, `Redeploy` |

apt's resolver is the least set that meets the dependencies of what it is asked
for; dpkg configures what has its dependencies. `Pins` and `Needs` of the MC
module are shaped after systemd-container, libnss-mymachines, systemd and
libseccomp: a package pinned to another of the set, one pinned to a package the
firmware ships, and one that a firmware update starts to ship.

*Bounds.* One firmware update, two archive versions and two faults: enough for a
cut inside the recovery of a cut, and for an update between refreshes. Firmware
only goes forward. *Fairness.* A running script goes on; the device is rebooted
while the set is not installed; the operator refreshes while `--check` finds a
reason to. `Settles` asks that the archive be reachable in the end, and exempts
an archive older than what the firmware ships (`Behind`) and a base whose
recording failed on the one boot that could have made it (`missed`).
`CacheKept` exempts `remade`, a deployment in the gap of the swap (below), and
the rest of a run in which a command nobody asks about `lost` debs;
`CheckCarries` exempts a cache that is `short`. The script is `set -u` only, so
such a run goes on (`CarryLoses`, `FillLoses`, `SwapFails`, and the second branch
of `Finds`), while a command it does ask about ends it (`DownloadFails`,
`CarryRefuses`, `LabelFails`). *Left out*: an `rm -rf` that fails, and a file cut
short by a copy that does: a deb is carried or it is not.

## SeedKit

`file[k]` is a kit's database (absent, made, or marked the successor of another),
and `recovery`, `oci`, `cloudflare`, `b2` its rows; the OCI row has the three
parts its three saves write. `ociKeys` and `b2Keys` are live at the platforms.
`sealed` is the recovery key each ciphertext opens with, `recipients` what
`escrow/RECIPIENTS` names.

| Code | Actions |
|---|---|
| `kit rotate`, `--only`, `seed m rotate`, `kit bootstrap`, `seed m create` | `Rotate`, `RotateRow`, `Bootstrap`, `Create`, `Skip`, `Make`, `Mark`, `Done` |
| `escrow.init`, `rotate_recovery`, `rewrap`, `generate` | `InitRecovery`, `SetRecipients`, `RotateRecovery`, `Open`, `Write`, `RecoveryRefuses`, `Generate` |
| `oci_iam`: session, sweep, quota, mint, the row's saves | `SignOci`, `SignRefused`, `RootOci`, `RetireOci`, `RetireRefused`, `Swept`, `MintOci`, `QuotaFull`, `PutOci`, `AttachOci`, `TenancyOci` |
| `cloudflare.adopt_seed`, `b2` | `Cloudflare`, `ResumeB2`, `MintB2`, `StoreB2`, `RetireB2` |
| the run killed; the operator's remedies | `Cut`, `Discard`, `ClearQuota` |

*Bounds.* Three kits: the one in service, its successor, and one to rotate into
next or to begin by mistake. `Quota` is 2 where the code's `KEY_QUOTA` is 3, so
that one refused deletion fills it. A new key is any number nothing holds
(`Fresh`); where all are held, the bound, nothing is minted (`Mintable`). Two
ciphertexts, so that a re-wrap is cut with one under each key. One cut and one
refused deletion. The names of kits that have no file are interchangeable, and
`NewFile` stands for the one the operator gives. *Assumptions.* One command at a
time; an operator does not run commands from a retired kit; `seed m create` is
run only where the seed is lost or a successor's row is dead. A clone of the
repository may be of any age (`Clones`), and what it files is merged.
*Fairness.* A command goes on; `kit rotate`, a create and the remedies a refusal
names are done again and again (strong fairness, since another command in hand
disables them). *Exempted*: a create refused for a full user, whose own remedy
deletes every key (`SeedsSurvive`); keys whose deletion was refused until the
deadline (`stuck`); a second rotation begun into another file (`Split`). *Left
out*: the identity-domain attribute, the IAM principals a create ensures,
account mismatches, byte-identical copies of a database, several recipients
(`kit rewrap` changes nothing with one).

## PolicyOrder

`pair` is the controller's list as the order it stands for: the set of <<a, b>>
where a ranks ahead of b, a policy's id or `Predefined`, where the controller's own
policies begin. Every custom policy is ranked against `Predefined`, so the pairs
also say which policies there are (`OnPair`), and a list that is sent (`Batch`) is
described by what stands ahead of what. `declared` is the census by rank, `held`
the policy of each row, `doomed` replaced originals, `listed` and `drift` what the
order recorded; `ranked`, a history, what the last batch taken put ahead of what.

| Code | Actions |
|---|---|
| the engine's refresh; `read` | `Refresh`, `ReadOrder` |
| policies created or replaced; `diff` | `MakePolicy`, `PoliciesMade` |
| `_send`: read, refuse, batch, retry once; `_rank`: read back | `Get`, `Put`, `BatchRefused`, `ReadBack` |
| the engine deletes last | `Delete`, `Finish` |
| commits, the console, failures | `Commit`, `ConsoleAdds`, `ConsoleMoves`, `ConsoleDeletes`, `Remedy`, `Fails` |

*Bounds.* A drop and an allow, in either order or the allow alone; one console
policy; two commits, one edit, one failure. `Copies` (6) bounds the policies of
a row in use at once, by the guard `Free(r) # {}`; ids nothing speaks of any more
are used again. *Fairness.* The run is made again
until it has nothing to do; an operator told by a refusal to delete a policy
sooner or later does (strong, as a run in the way disables it).
*Left out*: port forwards, groups and static hosts; several pairs; the stamps and
the address, whose change sends nothing; an order replaced for another pair.

## DeviceFiles and DeviceSlot

`path` is what stands on the device and the identity of the write that put it
there; `reader` the content the service that reads it last acted on; `rec` and
`orig` what Pulumi records of the file and of a replaced original; `run` the
provider's operation under way.

| Code | Actions |
|---|---|
| `diff`, and the operation the engine picks | `BeginCreate`, `BeginUpdate`, `BeginReplace`, `BeginRetire`, `BeginOriginal` |
| `SshTransport.write`, `run_hook`, the outputs | `Write`, `WriteRefuses`, `WriteFails`, `HookRuns`, `HookFails`, `Record` |
| `_restamp_only`, `_restamped` | `Agrees`, `Adopt` |
| `read` | `Refresh` |
| `_delete`, `identity_test` | `Remove`, `Leave`, `RemoveFails`, `Unhook`, `UnhookFails` |
| the session, the program, other hands on the device | `Interrupted` (`WriteLost`, `HookLost`, `RemoveLost`), `Commit`, `Restamp`, `Edit`, `Remedy`, `Restart` |

`DeviceSlot` says what the file promises in five steps: a whole content put there
(`Put`), a cut one where a session was lost (`Spoil`), a file of the deployment's
own taken away (`Withdraw`), a resource with nothing recorded adopting what
stands (`Adopt`), and whatever anybody else does (`Meddle`). `SlotImplemented` is
the refinement: `by` maps to the history variable `author`, `blank` to a record
without an identity.

*Bounds.* Two contents; two commits, stamps or replacements; two edits by hand;
two faults. At most four writes are remembered at once, so five identities always
leave a fresh one. *Fairness.* An operation goes on, deployments are run while
`diff` asks for anything, and an operator told of a link or a directory at the
path removes it. `QuietIsTold` and `Converges` exempt `lapse`: an edit by hand, a
refresh that recorded one, and a hook that failed over content already recorded.
*Left out*: a directory's modes and delete; an artifact is `GatewayMachine`.

## StackSlots

Two commands over one file. `work`, `main` and `before` are the stack files in the
checkout, on main, and on main before its last move: a salt, a secret, and what
each slot holds and under which generation. `live` are the platform's credentials
of the row's name, `at`, `hand`, `doomed` the mints; `step`, `which`, `from` the
move; `said` what the last move told the operator about each stack.

| Code | Actions |
|---|---|
| a row's command: `_mint_verified`, the quota | `BeginMint`, `Mint`, `NoRoom` |
| `Stack.set_secret` into every slot, read back | `Set`, `SetRefused`, `ReadBack`, `ReadBackRefused` |
| `_retire_superseded`, `_sweep`, `retire_others`; `Delivery.deliver` | `List`, `Sweep`, `Stray`, `SweepRefused`, `Delivered` |
| `re_encrypt`: what it reads, `pulumi stack change-secrets-provider`, its test | `BeginMove`, `Look`, `SaveSalt`, `SaveCiphers`, `ImportState`, `MoveFails`, `Test` |
| the refusals' recoveries | `Checkout`, `Restore`, `Clear` |
| a new generation, commits, the Environments, jobs, lost work | `Generate`, `Publish`, `Sync`, `JobApplies`, `Lose`, `MintCut`, `MoveCut` |

*Bounds.* Two stacks; two rows, one that fills a slot in each and one of two
parts in one file whose platform holds three keys; two mints at once; one fault,
which a mint beside another or ahead of its move spends too. `MaxGen` is 2: with
a third generation filed while a moved file was lost uncommitted, the refusal
that asks for the previous file has none to offer, and no command ever ends it.
*Assumptions.* At OCI a refused listing ends the run and a refused deletion is a
warning (`SweepRefused`). Mints and moves do not run at once; files are
committed together, and only when every stack's move ended well. *Fairness.* A
command runs to its end; the operator does what a refusal asks for, and does not
stop while a mint or a move is owed. `SlotsLive` exempts three acts, each until
a mint run alone has made it good: a mint beside another (`overlap`), a file
restored (`restored`), the quota cleared by hand (`cleared`). `Converges`
exempts nothing.

## CommittedCheckpoint

`checkpoint` is the file in the checkout, by the deployment it holds and the
secret properties it holds in the clear; `record` is `<stack>.failed-check`;
`marked` what a write records as ciphertext; `pushed` the checkpoint on main. The
definitions have names of their own (`CheckpointSpec`, `CheckpointTypeOK`), as one
module extends this one and `StackSlots` to prove theorems about both.

| Code | Actions |
|---|---|
| `Run.up`, `Run.passthrough`, `Run._write` | `Up`, `Passthrough`, `Export`, `Write`, `Check` |
| whatever stops `_write` | `Cut` |
| the program, a provider release, the operator | `Change`, `Unmark`, `Straying`, `Mark`, `Remove`, `Push` |

*Bounds.* Two secrets, one of which the configuration holds too; three changes and
three cuts, so that a run, its repair and the run after it may each be cut, with a
release that stops marking both. *Fairness.* A command runs to its end and does
write at times; the operator answers a record as the driver says and lands what
passes, in turns with other commands, hence strong fairness. Both properties
exempt `lapsed`: a value no marking told of when the last run began.

## RoutingDaemon

`source` is the declared configuration on `/data`, `live`, `list` and `stamp` the
files in `/etc`, `daemon` what the running daemon was started on, `conv` a run of
the converger for the unit and one for a push.

| Code | Actions |
|---|---|
| `frr-config.sh`, a step for each command that changes or reads what another run may change | `Begins`, `Compares`, `Checks`, `Installs`, `Refuses`, `Restarts`, `Stamps` |
| the file, its hook and the unit's retirement in `SiteRouting` | `Push`, `Pushed` |
| `frr-config.service` and the loop of `20-units.sh` that starts it | `StartUnit`, `Boots` |
| commits, the device, the session, an operator | `Commit`, `Firmware`, `Replace`, `PowerLost`, `Dies`, `WriteOut`, `Cut`, `PushLost` |

A firmware update may put back or carry across each of the three files on its
own, and may change the parser. The release and the parser's checksum are one
value; `Replace` changes it without a boot, as a parser installed beside the
image does.

*Bounds.* Two configurations and two releases, of which the second refuses one;
two commits, one update, and two faults: a run cut, its recovery cut. *Fairness.*
A script that has begun goes on; deployments are run while there is anything to
do (strongly, as a unit started again and again may be in the way of the one that
retires it); the operator restarts a unit that failed or whose daemon is down.
`QuietIsRunning` and `Converges` exempt `missed`, a stamp that stood from before
while a run changed the files and never restarted; the first also `crossed`, a
stamp whose run had its source or parser replaced under it, and the second
`unseen`, what no reading shows until the next boot.
*Left out*: the wording of the configuration, what the supervisor does with the
file after its unit has started.

## Runs

"States" are distinct states found.

| Run | States | Checks | Shows |
|---|---|---|---|
| `MachinePush` | 2.6 M | `TypeOK`, `MarkerNamesTree`, `WholeTreeKept`, `Converges` | no session, hook or power lost, but any one command fails, siblings converge, an operator rolls back: the marker at rest is true, a whole tree is kept until a delete, and running again lands the pin or has the machine gone, but after the failures named `mismarked` and `wreck` |
| `MachineFaults` | 7.2 M | `LiveWhole`, `EndsTrue` | two timeouts, lost sessions or power losses anywhere: no partial tree is booted but one a delete was cut on, a rollback is exact, a record is true, a retired machine whose stop did not fail is down |
| `MachineStaleStamp` | violated | `LandedRuns` | a push recorded over a machine that runs the displaced tree |
| `BoxFaults` | 391 k | `TypeOK`, `NothingLost`, `ZeroIsServing`, `Recovers` | one workstation, three faults: no dump is empty and no write is lost but where the design gives it up |
| `BoxRuns` | 4.3 M | `OneBox`, `HeldUnlessForced` | two workstations and checkpoints that land late or never |
| `PackagesFaults` | 928 k | `TypeOK`, `BaseIsFirmwares`, `CheckCarries`, `NeverDowngrades`, `CacheKept`, `Settles` | an update, a growing set and two faults, cuts or failing commands, of which those nobody asks about are exempted by what they lost |
| `KitRotation` | 844 k | `TypeOK`, `EscrowOpens`, `RetiredIsDead`, `SeedsSurvive`, `Completes` | rotations, repairs and clones, two ciphertexts, one cut, one refused deletion |
| `OrderRuns` | 293 k | `TypeOK`, `PositionIsRule`, `HandUntouched`, `Settles` | commits, console edits and a failure |
| `DeviceFaults` | 0.9 M | `TypeOK`, `QuietIsTold`, `SlotImplemented`, `Converges` | edits by hand, failing hooks, lost sessions, replacements: only the deployment's own write is ever taken away, and nothing to do means the service was told |
| `SlotsFaults` | 758 k | `TypeOK`, `SlotsLive`, `Converges` | two mints and a move, cut, failed or refused: no slot is dead, and all settles |
| `CheckpointFaults` | 44 k | `CheckpointTypeOK`, `NothingPublished`, `Lands` | runs cut three times over a release that stops marking: nothing known for secret is pushed, and records are answered |
| `RoutingFaults` | 597 k | `TypeOK`, `QuietIsRunning`, `Converges` | an update, two faults, a boot run beside a push: "already done" is true, and the daemon comes to run what is declared |

Deadlock is checked where the system never legitimately stops. It is off for the
machine without siblings, the box, the packages, the kit, the files, the slots
and the daemon, which rest when the bounds are used up and nothing is owed.

Every property of a passing run is broken by a named mutation of a definition
(the `Mut...` operators), so none holds by the shape of its module.

## What is proved

Every theorem is for all values of the constants that satisfy the named
assumptions of its module, the bounds included; the assumptions say which model
values are distinct and which sets the parameters lie in.

| Module | Theorem | States |
|---|---|---|
| `GatewayMachine_proofs` | `TypeCorrect` | `Spec => []TypeOK` |
| | `RollbackIsExact` | `Spec => []RollbackRestores` |
| | `RecordIsTrue` | `Spec => []LandedHolds` |
| | `RetirementHolds` | `Spec => []RetiredIsDown`, of a retirement whose stop did not fail |
| | `EndsTruly` | `Spec => []EndsTrue`, the three together |
| | `TreeIsWhole` | `Spec => [](~ByHand \/ (faults = 0 /\ wreck # "lost") => LiveWhole)`, where nobody rolls back by hand, or nothing was lost and no rename failed with the live tree aside |
| | `MarkerIsTheTrees` | `Spec => [](faults = 0 => MarkerNamesTree)`: until a session, a hook or the power is lost, whatever command fails but the marker's own after a swap |
| | `WholeTreeSurvives` | `Spec => [](faults = 0 => WholeTreeKept)`: as long, whatever command fails but a rename after the one that moved the live tree aside |
| `BoxReplacement_proofs` | `TypeCorrect` | `Spec => []TypeOK` |
| | `OnlyForcedRunsTouchABox` | `Spec => HeldUnlessForced`, runs one after another (`Serial`) |
| | `NeverTwoBoxes` | `Spec => []OneBox`, runs one after another |
| | `NoWriteIsLost` | `Spec => []NothingLost`, from one workstation |
| | `ZeroMeansServing` | `Spec => ZeroIsServing`, from one workstation |
| `GatewayPackages_proofs` | `TypeCorrect` | `Spec => []TypeOK` |
| | `CacheNeverShrinks` | `Spec => CacheKept`, whatever the packages and the firmware; a run goes free once a command nobody asks about lost debs |
| | `SavedBaseIsAFirmwares` | `Spec => []BaseIsFirmwares`, given `ShipsNoneOfTheSet` |
| | `FirmwareIsTheFloor` | `Spec => NeverDowngrades`, given `ShipsNoneOfTheSet` |
| | `CheckedCacheCarries` | `Spec => []CheckCarries`, given `ShipsNoneOfTheSet` and `ShipsWhole`, of a cache that is not `short` |
| `SeedKit_proofs` | `TypeCorrect` | `Spec => []TypeOK`, the quota of OCI keys included |
| | `RetiredKitIsDead` | `Spec => []RetiredIsDead` |
| | `EscrowAlwaysOpens` | `Spec => []EscrowOpens` |
| | `SeedsAlwaysSurvive` | `Spec => SeedsSurvive` |
| `PolicyOrder_proofs` | `TypeCorrect` | `Spec => []TypeOK`: what is on the pair is always ranked, a strict total order |
| | `ThePositionIsTheRule` | `Spec => []PositionIsRule` |
| | `TheConsoleIsLeftAlone` | `Spec => HandUntouched`, an action property |
| `DeviceFiles_proofs` | `TypeCorrect` | `Spec => []TypeOK` |
| | `HookNotLost` | `Spec => []QuietIsTold` |
| | `Implements` | `Spec => SlotImplemented`, the refinement of `DeviceSlot` |
| `CommittedFiles_proofs` | `TypeCorrect` | of `StackSlots`, `Spec => []TypeOK`, the platform's quota included |
| | `NoSlotIsDead` | of `StackSlots`, `Spec => []SlotsLive` |
| | `CheckpointTypeCorrect` | of `CommittedCheckpoint`, `CheckpointSpec => []CheckpointTypeOK` |
| | `NothingIsPublished` | of `CommittedCheckpoint`, `CheckpointSpec => NothingPublished`, an action property |
| `RoutingDaemon_proofs` | `TypeCorrect` | `Spec => []TypeOK` |
| | `SkipsNothing` | `Spec => []QuietIsRunning` |

**GatewayMachine.** None of the safety properties is inductive. `LandedHolds`
speaks of the last state of a push, which is only right if every step before it
was; and a rollback is only exact if the push left `live` and `superseded` as it
found and brought them. The strengthening `IInv == TypeOK /\ Shape /\ Unlinked`
says where the two trees are at every point: `PushShape` from the first command of
a push to its last, `RollShape` through the three renames of a rollback,
`LeftShape` while the hook of a push that nobody hears any more has its gate
before it, and `Alone`, that one of them handles the trees at a time. What an earlier,
interrupted run left behind does not occur in it, which is why faults do not
disturb it: the first act of a push is to clear exactly the directories it will
rename onto. `TypingStep` proves that a step keeps the types, `ShapeQuiet` that a
step which touches none of the trees and program counters keeps `Shape`,
`ShapeStep` every other step, and `Invariance` puts them together. `RollShape` is
only claimed of a rollback that followed a push, the hook's own or, where nobody
rolls back by hand, any: a rollback by hand after a lost session meets trees that
no push arranged, and is why `TreeIsWhole` excludes it after one. `Unlinked`
carries the retirement: what runs has its link, unless a stop failed, and an
answered retirement took it, so that neither a start nor a boot finds one;
`UnlinkedStep` is its step.

`MarkerNamesTree` and `WholeTreeKept` are false once a session, a hook or the
power is lost (below), so they are proved of every state before the first such
loss, with failed commands, siblings, deletes and rollbacks by hand; so is
`LiveWhole` where an operator rolls back. `Undisturbed` is a second invariant over
the first, in which every step has its failing branch to answer for: `Named` says
at which program counters marker and live tree may part, and that beyond them only
`mismarked` parts them; `Whole` where the one whole tree is at each of the others,
and that only a failed clear leaves a torn one beside it (`wreck`); `Sound` that
no torn tree is parked where a rollback would bring it back, but by that clear;
and `RollRoom` that a rollback, by hand too, only moves a tree into a place it has
cleared.

**BoxReplacement.** `IInv` (types, the address at a box there is, what a run holds
by where it is) needs no hypothesis. Over it `SerialInv`, for any number of
workstations: `InTurn`, that one run is under way and an agreed run that saw no
box finds none at the address; `Ahead`, that one checkpoint is ahead of the others
and names the only box there is, strays apart. `Serial` is how the documents tell
operators to work; the code does not enforce it (hazard at driver.py:604).
`SoleInv`, for one workstation: `Follows`, its checkpoint names the box at the
address, and nothing else holds anything; `Carries`, where a box is about to go
its state is in a dump or given up, and from there to the end of the restore the
dump in hand is all the state there is. One workstation is what `NothingLost`
needs: with two, even in turn, a restore that began while a run waited for its box
may load over what the run has restored since its probe, or the address may be at
a box a stale checkpoint names. That is the scope of `BoxFaults` as well.

**GatewayPackages.** `IInv` adds to the types what a run that lost nothing has
prepared at each step (`Prepared`). `Swapped`, that what is about to replace the
cache holds a deb of the whole set and, without a base, of all the old one held,
where no command lost one, gives `CacheKept`. `Recorded` says what the two
halves of the base mean together: if it is the running release's, it is that
release's database; if not, nothing has been installed since the update. It
rests on `ShipsNoneOfTheSet`, since the script takes a database with none of the
set in it for a new firmware's: the set is what "firmware updates wipe"
(10-packages.sh.j2:5-12). Under a firmware that ships some of it the first boot
records nothing, and TLC finds one after a cut install that records what the
install left. `Labelled`, that a directory labelled with a release is a
resolution against what it ships, if it holds all of its download, then gives
`CheckCarries`, by `ShipsWhole`: what a firmware ships has its dependencies with
it, and packages version-locked to each other are locked both ways. Without the
latter, an apt that upgrades one of a locked pair leaves the other unconfigured;
`Meets` does not model apt's care for what depends on an upgraded package. The
two are hypotheses of the theorems that need them and assumptions of none; the
instance satisfies both (`ReleasesAssumption`), the locked pair being among what
it leaves out.

**SeedKit.** A rotation is a walk over four rows, resumed from any of its steps.
`Lineage` and `Distinct`: the kits in service followed one another, never twice,
and no two share a key. `Hands` says which kits a command works on; `Walked` how
much of a whole rotation is behind each step (every ciphertext sealed to the new
kit past the first row, none but its own and refused keys at OCI past the second);
`OciArm` and `B2Arm` which key signs at each step of a row, the old one until the
new is stored, the new one after. `Dead` follows at the one step that retires a
kit and is kept by `Distinct`. `EscrowOpens` takes a new recovery key to be none in
use; `SeedsSurvive` is an action property over the same invariant.

**PolicyOrder.** That one row's policy is ahead of all of another's says nothing of
which; `Ruled` names the witness, the policy the last batch put first: while only
the deployment touches the pair it stays there, ahead of every policy of the other
row. A policy made since goes behind it (`PlacedRanks`); a batch ranks what it
carries behind its list (`BatchRanks`), a list that is the census in its order, no
policy twice (`NamedOnce`, by `Owned` and `Complete`); and what a batch was read
from is still there when it is sent (`Undisturbed`). There remain the deletes.
`Kept` says that once they begin nothing ranked is on its way out. That is plain
after a batch of the run's own and not where `diff` found nothing to send: then
the list recorded and the census agree, and `Accounted` says that an order read
back without drift finds nothing on the pair but its list and what the run made
since. `HandUntouched` needs none of that: what the deployment deletes it has made
(`TypeOK`), and a batch taken names every policy of the pair, of which none in it
is the console's. The model holds the controller's answer as an order and not as a
list because what a filter of a list keeps, and in which order, is an induction
over the list; of an order both are matters of membership. The batch, the
comparison and the placement are the code's, described by what stands ahead of what.

**DeviceFiles.** A delete goes by the identity recorded, which is only safe if
every identity anybody would delete by belongs to a write of the deployment's
own: `Claims` says so of the record's, the original's and the one in hand. `Told`
carries the hook: where path and record agree, no lapse happened and no hook is
in hand, the reader has acted on the path. `Shape` ties the operation under way
to the state it began in. `StartRefines` and `StepRefines` are the refinement:
every step of `DeviceFiles` is a step of `DeviceSlot` or a stutter, the removals
by `Claims`, the adoption of an identity by the record's having none.

**StackSlots.** A slot holds a live credential because a run that nothing is at
work beside (`Alone`) holds a credential of its own, has it in every slot it is
past, and never has it among those it will delete (`Owns`); `Unexcused` adds that
without one of the three excuses every run is alone and no slot is dead.

**CommittedCheckpoint.** A push looks at the record alone. `Guarded` says that
where no record stands the checkpoint is as the last check left it, and
`Searched` that what nothing told of during a command is what its export read in
the clear.

**RoutingDaemon.** What makes a run skip is the stamp, and what the daemon reads
changes two steps before its restart. `Fresh` says of every state in which no run
owes a restart that the daemon runs what lies in `/etc`; `Vetted` follows the
pair of a source and a parser from the comparison through the check to the stamp.

Only model-checked: every liveness property, `Converges`, `Recovers`, `Settles`,
`Completes` and `Lands`, as liveness under fairness is out of the prover's reach.
Not claimed at all: `NothingLost` and `ZeroIsServing` where more than one
workstation works; `LiveWhole`, `MarkerNamesTree` and `WholeTreeKept` beyond the
hypotheses above, where they are false (below).

## Where the code and its documentation disagree

`MachineStaleStamp` exhibits one (machine-rollback.j2:13; `PROJECT.json` quotes
both sides). The rollback leaves the stamp "so it now disagrees with what the
machine runs". The next push of the same digest makes it agree: the converger
skips the restart, the gate sees an active unit, and the push is recorded while
the machine runs the displaced tree.

Seen while modelling, and kept as exemptions or notes rather than as runs:

- A session lost between `unpack_script`'s second rename and `_mark` leaves the
  old digest beside the new tree, against provider.py:1464; between the renames
  there is no live tree at all, against provider.py:1039-1042. `diff` sees both
  and the next push repairs them. Hence `MarkerNamesTree` and `WholeTreeKept` are
  checked with no such loss.
- The write of the marker can fail after the swap (provider.py:1058), outside the
  `try` that withdraws it: the old digest stays beside the new tree with no session
  lost. If the pin is then reverted, `_tree_holds` answers yes, nothing is
  pushed, and the device keeps the other tree for good (`mismarked`; against
  provider.py:1464, "has a tree at `directory` unpacked from `digest`").
- The second rename can fail (provider.py:552): there is no live tree, and the
  retry's first act deletes both whole ones, the staged and the superseded (505).
  If the pull then fails, none is left (`wreck`; against provider.py:1039-1042,
  "Nothing before the second rename touches the live tree").
- A retirement whose `systemctl disable --now` fails is answered 0 (`|| true`,
  40-machines.sh.j2:136) and the link goes: the machine runs on, and no later
  converger finds it (against 122-126, "a leftover tree cannot keep a removed
  machine running").
- `RunsOnKeptFiles` fails with no fault at all: a machine the stale stamp kept on
  the superseded tree has it cleared under it by the next push
  (unpack_script's docstring, 521-524).
- A purge that is cut leaves part of a tree under its marker (provider.py:1093
  has the tree go first so that the marker keeps it legible): declared again, the
  artifact reads as holding, nothing is pushed, and the unit boots what is left.
- A rollback by hand withdraws the marker, and a replaced original whose delete
  is still pending then takes the tree for its own and purges the replacement's:
  the next push repairs it (purge_script's docstring, 568-570, counts a tree
  without a marker as the resource's own).
- A session lost after the marker, and the machine dropped by the next commit:
  the marker is not the recorded write, so the delete leaves the tree. If that
  image does not stay up, declaring the machine again fails
  at the settings file's hook, before the push that would replace it.
- A settings file whose first write failed at its hook, or was made again after
  an interrupted delete, is not the recorded one: dropped, it stays, and the
  machine with it. A refresh between an interrupted delete and the next run drops
  the record, and the retirement's hook is never run.
- A converger that read a machine as declared can link and start it after it was
  retired (40-machines.sh.j2:153-166 holds no lock; against 125-128, "cannot
  bring one back"); the next converger retires it again.
- After a fault, a rollback by hand can leave the live tree torn, and a rollback
  cut between its renames cannot be run again: the next push repairs it.
- `driver.py:600` and `606` answer 1 without asking the backend, so a run that is
  held or declined over an empty backend does not answer 3
  (docs/physical/state-backend.md:1149-1152). `OwedIsSaid` states it.
- A plain `up` from the workstation of a killed run moves the address back to the
  box its own checkpoint knows (`state_backend/__init__.py:474`); a box a killed
  launch left behind goes on uploading nightly dumps.
- `escrow.init` cut between the kit and the recipients file leaves two commands
  refusing each other until a rotation (escrow.py:890).
- A refresh taken after a hook was lost records the marker as it stands, so the
  hook is not run again (nspawn.machine_hook says the next preview still has the
  work to do).
- *Box.* The remedy for an expired certificate, `up --force`, must first dump over
  a connection that the expired certificate fails to verify (appliance.py:308).
- *Packages.* The fill and the swap are under `set -u` alone: with no base, a
  `mkdir` that fails ends in the old cache deleted and no new one
  (10-packages.sh.j2:265-275); a `cp` or a `mv` that fails swaps in less than
  the download and says nothing (`lost`, `short`; against 214-215, "Returns 1,
  keeping the old cache, when the download is not the whole of it").
- *Packages.* A deployment between the two renames of the swap makes the missing
  cache directory, and the new half is never promoted (10-packages.sh.j2:291).
- *Kit.* A bootstrap cut inside a row finds the row present when it is run again
  and skips it; the row has no key (lifecycle.py:416).
- *Order.* When the order was updated and the run ended before its deletes, the
  next run refuses the policy it would itself delete
  (unifi_zone_policy_order:309).
- *Files.* A hook that fails over content already recorded (a drift repaired, a
  revert, a `--replace`) is never retried: nothing differs any more
  (provider.py:143-147 says a failed hook raises "so the resource is not
  recorded"). A write whose session is lost may rename a cut file into place
  (ssh.py:368-369, "atomically"): `cat` ends as if it had read everything. An
  update that failed at its hook and a retirement after it leave the file behind,
  as the record holds the identity of the write before; a stray staged file keeps
  its directory from being deleted.
- *Slots.* Two mints of one row at once can each retire the other's credential
  (`overlap`). The recovery of a half-moved stack restores a committed file, over
  a slot delivered since whose predecessor is retired (`restored`). The advice at
  a full quota, delete them all and run again, leaves the slot dead until the run
  (`cleared`). A mint after a generation is filed and before its stack is moved
  mints, fails to push, and leaves an orphan each time. A failure between the two
  saves of a move is refused without the recovery text, which the next run names:
  the test calls `_opens_under`, not `_config_opens_under`. A half-saved file and
  a newer generation answer "nothing moved: run again" for ever. A pair whose push
  was cut names parts of two keys, both live.
- *Checkpoint.* After a run that failed or was killed once it had dropped a value's
  only marking, the export of the next command no longer tells of it: any later
  command takes the record off with the value in the clear (`lapsed`; against the
  docstring at driver.py:763-771 and test_operator_stack.py:1144).
- *Daemon.* A restart that fails, or a run cut before it, is not retried when the
  stamp already names what is installed (the daemon list put back under the same
  release, a live copy overwritten, a push refused and reverted): the next run
  exits 0 over a daemon running something else (`missed`; against
  frr-config.sh.j2:16-21, test_site_routing.py:668, and docs/physical/gateway.md
  §1.3, "a switch that had to be flipped is itself a reason to restart"). A boot
  run beside two pushes can install and stamp a source the parser never read
  (`crossed`). A push's hook failing over recorded content, or a configuration an
  operator wrote out, is seen by nothing until the next boot (`unseen`).

## Not modelled

Besides what the plan leaves: cryptography, certificates and TLS as such (a
generation that has or has not expired); Pulumi's own concurrency within a run,
except where a hook or a sibling is concerned; durations; the text of scripts,
configuration and messages; everything listed under "Parts that keep none".

The models stand for a small share of the repository's lines. Of its Python,
almost two million lines are SDK classes generated from CRD schemas
(`src/sdks`): typed bags of properties without behaviour. Most of the rest under
`src/kluster/components` and `stacks` declares resources once and leaves them to
the engine. Of the sources of the components modelled at least in part, about a
fifth of the lines are mapped; the remainder there is docstrings, messages, argument
parsing, and platform calls that read.
