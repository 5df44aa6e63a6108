# Verification of the Samsung SM-X510 Linux bring-up tooling

TLA+ models of the programs of this repository that take in, unpack, build,
publish and observe things for the SM-X510 Linux bring-up, the TLC configurations
that check them on small instances, and TLAPS proofs about them for every
instance. Sections: [1 the system](#1-the-system), [2 plan](#2-plan),
[3 modules and code](#3-modules-and-code), [4 runs](#4-runs-bounds-and-what-they-show),
[5 proofs](#5-proofs), [6 disagreements](#6-where-code-and-words-disagree),
[7 limits](#7-what-is-not-covered).

## 1. The system

The repository is a set of command-line programs (Python, bash, one C program)
that run on a development host, in a Lima virtual machine and on the tablet. They
interact through **files**: what one program publishes -- a directory, a manifest,
a `SHA256SUMS`, a JSON-lines evidence file -- the next one trusts. There is no
daemon and there are no locks; concurrency comes from overlapping invocations, from
other processes of the host, and from the device. So correctness is about *what may
be at a path at any moment*: nothing partial or stale that looks complete, nothing
foreign overwritten, and after a failure or a kill a state the next command copes
with.

```
 release ZIP -> safe_zip_ingest / safe_release_extract -> build-osrc-u11 -> U11 kernel -> U11 initramfs
 stock AP    -> extract-firmware-zip / extract-stock ---------------+
 git tree    -> apply-patches -> build-downstream -> build-dtbo     +-> repack-* -> verify-avb
                build-busybox -> build-initramfs -------------------+
 EZE4 tarball-> build-eze4-in-lima -> guest build -> verify-eze4-abi -> artifacts
 tablet      -> observers/collectors -> JSONL -> analyzers -> observations -> aggregator -> verdict
```

| Component | Source | State it keeps | Operations | What is hard | What makes it correct | Module |
|---|---|---|---|---|---|---|
| safe ZIP ingest | `tools/safe_zip_ingest.py` | archive descriptor and snapshot, digests of pass 1, staging directory, destination | inspect, extract | the archive changes between two passes; concurrent runs; crash; check then rename | destination absent, foreign, or a complete validated tree | `ZipIngest`, `AtomicPublish` |
| safe release extraction | `tools/safe_release_extract.py` | output tree, work queue, manifest | extract-zip, extract-tar, unpack-tree, scan | links that combine; handlers that clean up; reruns over leftovers; nesting | links stay inside; a failure removes exactly what it made; a manifest means a complete expansion | `ReleaseExtract`, `UnpackTree` |
| EZE4 build and ABI gate | `scripts/build-eze4-*.sh`, `verify-eze4-abi.py` | guest directory of a run, stock-module cache, host artifacts | stage, build, audit, retrieve, clean | an identifier reused after a crash; a cache somebody else is filling; the gate's exit status | success means whole artifacts of this build; the gate means parity | `Eze4Build` |
| reference pipeline | `scripts/build-{all-reference,reference-in-lima,downstream,busybox,initramfs,rescue-in-lima,dtbo}.sh`, `repack-*.sh`, `verify-avb-candidates.sh` | five artifact directories with their digests | each script, or all in order | a failure or kill at any command; steps rerun alone; optional tools | a list of digests covers one build, and only a complete one verifies | `ReferencePipeline` |
| C2 dual clock | `tools/rmg-eze4/c2_dual_clock_{observer.c,analyze.py}`, `run_c2_dual_clock_adb.sh` | clocks, process and cgroup binding, evidence file | launch, sample, close, pull, judge | suspends and hold-ups between two readings; PID reuse; a pull that comes early | a conclusive verdict is true and rests on a complete file | `DualClock*` |
| U11 source intake and build | `scripts/build-osrc-u11-in-lima.sh`, `build-u11-kernel-guest.sh` | exclusive host record, guest run, composite, `STATUS`, exported dist | stage, unpack, compose, build, export, verify | used-up identifiers; lost connection; verification after the copy has its final name | success means a verified dist of this run | export only: `U11Evidence` |
| U11 initramfs | `scripts/build-u11-initramfs.sh`, `build-initramfs.sh` | three profiles, digests, metadata | build, build again, compare, record | what an earlier run left survives a kill or a failed comparison | digests only over what was packed together | `U11Evidence` |
| U11 audit and preflight | `tools/u11_{modules_audit,preflight,repro_compare}.py`, `scripts/u11-preflight.sh` | three JSON reports | audit, judge, compare | reports that outlive what they looked at; a verdict over artifacts of several builds | READY means one build, its own archives (unless it was put back) and the present audit | `U11Evidence` |
| patch series | `scripts/apply-patches.sh` | the git checkout | reverse-check, apply, compare | killed half-way and rerun; other edits of the checkout | the difference to HEAD is the series | `ReferencePipeline` |
| stock extraction | `scripts/extract-{stock,firmware-zip}.sh`, `tools/safe_tar_extract.py` | raw, images, digests | replace, extract, decompress, digest | publication of the members one by one; digests nobody verifies | nothing is repacked from half an image | `ReferencePipeline` |
| C2/C3 collectors and analyzers | `tools/rmg-eze4/c{2,3}_obs_01_*.py` | schedule, evidence file | sample, end, judge | slow and lost readings; sources that are not there; kills | "absent" is said only of what the readings covered, "present" only of what there was | `ObsCollect`, `ObsAnalyze`, `ObsTrial` |
| J2 campaign | `tools/rmg-eze4/analysis/{validator,aggregator}.py` | none (a verdict over the records so far) | validate, aggregate | interacting limits; records that come later | a compatible verdict is earned, a fatal one stays | `CampaignVerdict` |
| rescue init | `initramfs/rootfs/init` | mounts, modules, USB gadget | boot | nine fallible steps with a clean-up; which exit | ends in a shell or `switch_root`; no half gadget | not modelled |
| tree and device-tree comparisons, fetching, inventory of a device, image readers, path guard, P0 reports, legacy classifier, data | see `PROJECT.json` | -- | -- | -- | -- | not modelled |

`PROJECT.json` lists every component with its sources and, under `hazards`, what is
hard to test in each at its line, with the properties that watch over it.

## 2. Plan

Order, most important behaviour first.

1. `AtomicPublish`, `ZipIngest`: the abstract publisher and the two-pass tool that
   implements it (checked, proved, refinement proved).
2. `ReleaseExtract`, `UnpackTree`: one extraction in detail; the run that expands a
   whole release with extraction as one step (checked, every safety property proved).
3. `Eze4Build` (checked; every property of its passing run proved).
4. `DualClockAnalyze` <- `DualClockObserver` <- `DualClockTrial`: the verdict as
   operators, the observer on a device, the trial that composes both with the host
   script (checked, proved).
5. `ReferencePipeline`: the reference build with its checkout, its patch series and the
   stock images it repacks (checked, proved).
6. `ObsCollect`, `ObsAnalyze` <- `ObsTrial`: the polling collectors and their analyzers
   (checked, every safety property proved).
7. `CampaignVerdict`: the verdict on a campaign that grows (checked, proved).
8. `U11Evidence`: initramfs profiles, audit, preflight and comparison of the U11 build,
   over results cut short anywhere (checked, proved).

What is left, in this order: the intake of the U11 release (host record, `STATUS`,
composition, build in the guest), with an abstract specification of a record that is
written once; the rescue init with a failure at every step.

A run answers one question, and components that answer the same question with the same
bounds share one. Modules about which something is proved use recursive functions or
folds, never `RECURSIVE`; parameters are `CONSTANTS` with named assumptions.

## 3. Modules and code

In every module the program counter is the next step of the code; one action is one
system call, command or loop turn that other parties can tell apart, with everything
the code does around it. A definition whose comment starts with "Bug" is no part of
any specification: it is a plausible mistake in the definition that follows it, kept to
show that a property would notice.

**`AtomicPublish`** states what a publisher promises about one path. **`ZipIngest`**:
`pc[p]` walks through `_destination`, `_open_regular_archive`, `_hash_archive`,
`_checked_infos`, `_consume_member` and publication; `pass` tells the validating pass
from the extracting one; `snap`, `fd`, `sha`, `listed`, `stage` are the locals. The
environment renames, rewrites or removes the archive and creates things at the
destination. A digest is the digested value; the central directory is one value that
`_checked_infos` accepts or not. `IoError` is an exception at any step before the
clean-up, `Crash` the death of a process at any step (the stage stays); the `fsync` after
the rename may fail, which makes the status 1. A rewrite may leave the mtime as it was:
`hidden` remembers of which files it has.

**`ReleaseExtract`**: a member is `[key, kind, text]`; `disk` is the output tree.
`Classify` is the loop that sorts and rejects, then directories, files and links are
published in the order of the code; what is left of each is a set of positions in the
archive, of which the next is the shallowest directory, the first file, the first link.
Link targets are really normalised (`Normalize`) and really resolved over the current
tree (`Walk`, bounded by `Fuel`), both as recursive functions. The two callers
differ in their handlers: `HandlerUnpack` takes every exception, `HandlerMain` those that
`main` or the extractors name; one of another type (`cause` is "uncaught") ends the
command with a `Traceback`.
**`UnpackTree`**: `queue` holds `[archive, depth]`, `output` says of each archive's
`.contents` whether it is absent, half or whole, `holder` which archive holds which, and
`Rank` the order of the walk over a directory tree.
One extraction is one step (`ExtractOk` or `ExtractRaises`); a kill in the middle
leaves `partial`, and a rerun may find some of the archives in there.

**`Eze4Build`** composes the orchestrator, the guest script and the verifier: `source`,
`out`, `distDir`, `dist` are the guest directory of an identifier, `host` its artifacts,
`stock` the cache all runs share, which `stockBy` created. `dist[i][f]` is the run that wrote the
file. `Stop` is a failing command, a kill or a lost virtual machine. Identifiers are
chosen at the start; a run starts only if no live run has its identifier, which the
option's text ("unique") asks of the operator, and it may take that of a dead one.

**`ReferencePipeline`** gives each script as a sequence of steps (`check`, `clone`,
`patch`, `compare`, `remove`, `work`, `copy`, `iftool`, `move`, `digest`, `need`,
`whole`) and one interpreter. Copies, redirections, patches and removals of trees are
two steps, so a kill falls between; a file is `[by, whole, of]`: the invocation that
wrote it, whether it is complete, and what its inputs held, and `None`, a record unlike
these, where there is no file. `leftovers` are the invocations that left the temporary
directory of a DTBO build in `dist`, `listed` those whose leftovers the digests of `dist`
cover. `tree` is the checkout: which of the `NPatches` patches
are in, absent or torn, and whether somebody edited it. `need` only asks
whether a file is there, `whole` is a program that notices a truncated one (of the
stock images only `verify-avb-candidates.sh`, the last step). Scripts run alone or as
the pipeline, never two at once.

**`DualClockAnalyze`** has the analyzer's checks and `Verdict` as operators over a file
of records. **`DualClockObserver`**: the three clock readings of a pair are three steps
and time passes in between; `Pass` is the device's clocks (a suspend lets BOOTTIME run
ahead), `Device` the trial process and its cgroup (exit, reaping, reuse of the PID in the
same clock tick or a later one, move, freeze and thaw). A zombie answers like a process,
except that it does not populate its cgroup. A boot_id may not be readable. The cgroup is bound (`BindPath`, `BindStarttime`), validated and read in the
order of the code, reading by reading. `truth` is a history variable: how far BOOTTIME
really ran ahead. **`DualClockTrial`** adds the host: launch, one look whether the
observer lives, and a pull at any time, also of a file that is still being written and
may end in the middle of a line.

**`ObsCollect`** is the loop both collectors share: discovery, the metadata record, a
heartbeat and the readings of a cycle one by one, the tick. A reading takes some of
`Delays`, may fail, and shows the device at its start or at its end; time passes only in
readings and sleeps. `todo` are the sources of the loop that the cycle has still to read,
as places in its list, read from the least on. `Disconnect` is an exception of adb,
`Kill` may also cut the metadata record. **`ObsAnalyze`** has the checks and verdicts of
both analyzers as operators over such a file; the records an analyzer selects from it
are the set of their places in it. **`ObsTrial`** composes them: an `episode` happens on the
device, and the verdict on the file is asked for in every state. An episode shows in the
sources `seenBy` names, any of those that can show its kind (`Senses`): one that no
counter or no bound path shows is possible.

**`CampaignVerdict`**: `ValidRecord` is the validator on a record, `VerdictOf` the
aggregator on a set of them. The file of a campaign only grows, one `File` at a time; a
record that is refused, or filed twice (`FileAgain`), is `refused`. Its specification is
`CampaignSpec`.

**`U11Evidence`**: `build`, `archive`, `lz4`, `rootfs`, `listed`, `metadata` are the
files of the laboratory, each told apart by the build it was made of; `modules`,
`preflight` and `repro` are the reports. `job` is the command that runs and its next
step: the profiles are cleared, packed, published and listed one after the other, and
`Stop` ends it anywhere. The operator places builds (`Place`), extracts modules
(`Extract`, possibly cut short) and runs the commands in any order. `replaced` is a
history variable: the builds that were in place and made room for another.

## 4. Runs, bounds and what they show

| Run | Instance | Shows |
|---|---|---|
| `ZipIngest` | two members, four archives (two good, truncated, rejected); two runs with one file and one change, or one run with two files and two changes, each of which may leave the mtime, or with one file and three that move it | nothing partial or unvalidated is ever published, nothing of value replaced; the digest in the manifest is that of the published members while every change moves the mtime; the tool implements `AtomicPublish`; every run ends |
| `ReleaseExtract` | every archive of up to three members over two levels, four link texts, both callers | links stay inside at every moment, parents are directories, success is faithful, well-formed archives are accepted, failures leave nothing, what was found is kept |
| `ReleaseExtractMain` | up to one member, existing output | *violation*: `main` removes an output it did not create |
| `UnpackTree` | six archives in two ZIPs: a ZIP in a ZIP in a ZIP, a TAR with an archive in it, or that TAR one ZIP too deep; three starts | a manifest means a complete expansion; nothing is taken back; nothing beyond the depth limit is opened, in one run or over several |
| `Eze4Build` | two runs, two identifiers, two modules, one file and its digests | reruns start clean, success is whole, a run that made the cache itself has compared all of it, the report counts each module once |
| `Eze4Parity` | one run | *violation*: the gate passes a build with mismatches |
| `DualClock` | two hold-ups or suspends, or two events of process, cgroup and boot_id, in a trial of three samples; an earlier result on the device | no suspend invented or missed, complete timelines are judged, conclusions rest on complete files of this trial and on the bound process |
| `ReferencePipeline` | three invocations, two patches, two stock images | digests never over a mixture (but for what DTBO builds left in `dist`); what verifies is whole; failures hide old success; kernels and containers are of the right sources; candidates are current |
| `ObsTrial` | both collectors, three cycles, up to two slow or failed readings or missing sources, 31 episodes (none among them) | neither analyzer denies what the readings had to see or makes it up; the schedule is kept; a collector ends |
| `ObsMissing` | as `ObsTrial` | *violation*: "absent" although a trip point or a limit could not be read |
| `Campaign` | three boots, two conditions, nine outcomes (four of them refused) | a compatible verdict rests on completions alone, in every boot and condition; a settled verdict stays |
| `U11Evidence` | two builds, two run ids, five commands | READY is of one build (if it was never away), counted trees are packed trees, the audit read is the present one, a reproducible kernel was built twice |

**Why the bounds are enough.** Two concurrent publishers show every race for one
destination; one change of the archive falls at every point of either pass, two cover
replacing and putting back, three an archive hashed as one thing and read as another in
both passes (`MCBounds` of `MCZipIngest` is the state constraint: the
second run of an instance with two files was killed before its first step). Three members let
a name be stated, implied as a parent and replaced, and let two links combine under a
third; two levels let a link climb out by one. Three starts of `unpack-tree` are one that
leaves something, one that fails on it, and one more. Two identifiers and two runs show
reuse and overlap. Three invocations of the pipeline are a success, a failure over it
and a run on the result; two patches are one that is in and one that is torn or absent
(no two of the ten touch one file), and two images one that is new and one that is old. The
times of the clock runs are those of the analyzer in microseconds; delays lie on either
side of each of its limits (margin, pair span, gap). Two events are an exit and what comes
of it, reaping not counted, or a move there and back. `DualClock` has a state constraint of
two parts. `MCOneKindOfTrouble`: in one behaviour the clocks misbehave or the process, its
cgroup and the boot_id do, as the verdict treats them in independent checks and the
product of both is out of reach. `MCPulledEarly`: once the host has pulled a part of the
file, it has its verdict, and the observer is not followed further. In `ObsTrial` a unit is 250 ms: the interval is 2, the largest gap the
analyzers admit 2, and a delay of 3 is beyond it, one of 2 is not; episodes begin in the
first cycle or later and lie on either side of the two gaps that make one visible. The
instance of `Campaign` has its own next-state relation (`MCNext` of `MCCampaignVerdict`):
at most two completions in a cell and three other records, which reaches each limit of
the contract (two trials in a cell, twelve in all, three timeouts in two boots, one
invalid trial in a boot, two in all) and one beyond. Five commands of `U11Evidence` are a build placed and
extracted, profiles made, an audit and a preflight. Five are also enough to put a build
back (`replaced`), which without that hypothesis violates `ReadyIsOfOneBuild`. Symmetry is
over runs, identifiers, cgroups, boots and conditions, and used only in runs without
liveness properties.

**Fairness.** Only the programs' own steps are fair (`WF` on `Step`, and on `Collect` of
`ObsCollect`): a process that is not killed is scheduled, and no call blocks for ever --
an adb command is given up after 5 s (`AdbReader.run`). The environment -- the archive,
the destination, the connection, kills, errors -- is never fair, so `RunsEnd`
and `CollectorEnds` hold without its help.

**Deadlock.** Where a model may stop it mostly says so by an explicit stuttering action
(`AllEnded`, `Over`, `Exhausted`), and deadlock is checked. It is not in `ObsTrial` and `ObsMissing`, whose
collector ends, nor in `Campaign` and `U11Evidence`, which end at the bounds of the
instance (on records and on commands).

## 5. Proofs

TLC checks the instances of section 4; the theorems are about every value of the
constants. Each proof module extends the module it is about. A theorem of a safety
property rests on an inductive invariant of its own (`Invariance` and its like), with
one lemma for each action, and on lemmas about what the operators of the module compute.

`ZipIngestProofs` (for any number of runs, members, archives, inodes and changes)

- `TypeCorrect`, `PublishesOnlyValidated`: `Spec => []` of `TypeOK` and
  `PublishedIsValidated`. What is published is safe only because of what each run knows
  on its way there, hence the inductive `IInv`: `TypeOK`, for each run `DescriptorHeld`
  (a descriptor and a digest where the code needs them), `DigestsGood` (what pass 1 has
  digested so far is good) and `StageMatches` (what pass 2 has written so far is what
  pass 1 digested; from the manifest on, all of it), and `PublishedIsValidated`. One
  lemma per party: a step of a run, of the environment.
- `ValueKept` and `ImplementsAtomicPublish`: every step maps to `Appear`, `Publish` or a
  stutter of `AtomicPublish`; only `RenameStage` publishes, and by `IInv` a good tree.
- `ManifestIsOfTheArchive`: `Spec => []ManifestDescribesArchive`.
  `HashInv`: as long as the inode has the mtime of the snapshot and no rewrite is `hidden`,
  the descriptor is what was snapshotted, and what was read through it is what was hashed.
  A rewrite within one tick of the clock leaves the mtime as it was, so the hypothesis is
  needed: the tool compares nothing else.
- Assumptions: `DataAssumption` and `NamesAssumption` of `ZipIngest`: the subsets are
  subsets, there is at least one member, and the names for "nothing" are no data.

`ReleaseExtractProofs` (for every set of archives)

- `LinksNeverLeave`: `Spec => []LinksStayInside`. `Shape(text, u)` is the form the
  normalisation leaves (`u` steps up, then names); a tree is `Moored` if no link of it
  climbs above the directory it is in. `MooredStays`: whatever path is followed through a
  moored tree, one link leading to another, never leaves it, since there are never more
  `..` ahead than directories above (`OnTheWay`, `WalkKeepsInside`). So the check of each
  link on its own, by its text, suffices for all of them together, and the `resolve()`
  that `publish_symlink` makes over the tree so far is no part of the argument.
- `NothingThroughLinks`, `OutputIsTheArchive`: `ParentsAreDirectories` and
  `SuccessIsFaithful`. `Holds(archive, disk, P)`: the tree is exactly the members `P`
  published so far and the directories above them; `Queues` and `Publishing` say which
  these are at each point.
- `NothingGoodIsRefused`: `WellFormedAccepted`. No check on the way fires on a well-formed
  archive. What `publish_symlink` rejects is a loop in the tree so far; `LoopsStay` shows that one
  among some of the links is one among all, by walking both trees together (`PassedBy`).
- `FailuresLeaveNothing`, `FoundIsKept`: `Spec => []` of `FailureLeavesNothing` and
  `UnpackKeepsExisting`. The exceptions that `main` does not name are left out of the first by
  name. Neither handler looks at what it removes; `Origin` says how the
  output came to be at each point of a run, and that a run which found one never gets as
  far as creating one.
- `Normalize` and `Walk` are recursive functions; that a list of all intermediate states
  exists (`NormExists`, `WalkExists`) follows by induction over numbers.
- Assumption: `ArchiveAssumption`: what `safe_member_name` lets through has no `..`, and
  only the markers of the archive's root have no name.

`UnpackTreeProofs` (for every release, depth and number of starts)

- `NothingIsTakenBack`: `Spec => NothingTakenBack`, an action property. Only the handler
  removes anything, on the word of `existed`; `ExistedIsTrue` is that it is true to the
  archive at hand from the moment it is sampled until the handler reads it.
- `ManifestIsComplete`: `Spec => []ManifestMeansComplete`, through the inductive `IInv`:
  during a run every archive delivered or brought to light is queued, at hand or done
  (`Covering`), the results are what it has expanded (`Processing`), what
  earlier runs left includes the output of a delivered archive (`Rooted`), on which a run
  fails, and a run that found nothing takes the layers from the outside in (`Clean`).
  `SortedFacts` and `QueuedFacts` say that sorting and filtering the walk lose and invent
  nothing.
- `LimitHolds`: `Spec => []NestingIsLimited`. A rerun may find archives of deeper layers and
  count them from zero; but then it meets the output of a delivered one before them in the
  walk, and fails.
- Assumptions: `ShapeAssumption` and `WalkAssumption`: there are finitely many archives,
  and the walk meets each once, after the one that holds it.

`Eze4BuildProofs` (for any number of runs, identifiers, modules and files)

- `Invariance`: `IInv` is types, `Exclusive` (live runs have different identifiers) and
  `OwnWork` (for each run, what its earlier commands established about its directories:
  after `Wipe` no object directory and no dist, while packaging each file is absent or
  its own, after packaging all are its own, after retrieval so are the host's).
  `StepFootprint` says that a step touches only the directories of its own identifier,
  and none before the run is alive; with `Exclusive`, `OthersKeepWork` follows for all
  other runs, which leaves each action to be considered for its own run alone.
- `RerunIsClean`, `SuccessIsOwn`: `Spec => []` of `RerunStartsClean` and `SuccessIsWhole`.
- `OwnAuditIsWhole`, `ReportAccounts`: `Spec => []` of `PartialAuditIsForeign` and
  `EveryModuleIsCounted`. `GateInv` keeps the account while modules are looked at: what
  is listed, less what is left and what is perfect, has one kind of problem or both
  (`Accounts`); `TallyAccounts` is that one more module keeps it so.
- Assumptions: `NamesAssumption` (the list of digests is no build file; "nobody" is no
  run) and `ModulesAssumption` (there are finitely many modules).

`ReferencePipelineProofs` (for any number of patches and invocations)

- A script is `Disciplined` if each of its steps counts only on what earlier steps of
  the same script brought about and nothing since has undone: what a step `Brings`, what
  it `Needs`, what it `Changes`. Concatenations of disciplined scripts are disciplined
  (`DisciplinedConcat`), and each script is (`EveryScriptDisciplined`), `all` by the way
  it is put together. This is all that is used of the scripts' text, besides how
  they end (`EndsWith`).
- `Invariance`: `Stands` (what the steps done so far brought about still is so), `Fresh`
  (what the invocation has removed it has left away since or made itself),
  `LinesAreWhole`, `RestIsWhole`, `ImagesAreWhole` (what a list, or a complete directory,
  says of its files). `LeftByEarlierOnes`: what DTBO builds left in `dist` is of invocations that
  have ended.
- `ListsNameNoMixture`, `VerifiedMeansWhole`, `FailureLeavesNoOldSuccess`,
  `ArtifactsAreOfTheirSources`, `CompletionIsCurrent`: `Spec => []` of
  `SumsNeverOverMixture`, `VerifiedIsWhole`, `FailureHidesOldSuccess`,
  `MadeOfTheRightSources` and `PipelineIsCurrent`, the last from how `all` ends
  (`AllEnds`): none of its scripts changes what an earlier one ended with.
- Assumption: `BoundAssumption` (there is at least one patch).

`DualClockProofs` (for all clocks, delays, suspends, events and times of the pull)

- `EvidenceIsOwn`: `Spec => []NoStaleEvidence`; from the launch on, what is on the result
  path is this observer's.
- `ConclusionsRestOnAll`: `Spec => []ConclusiveIsComplete`. `FileInv`: nothing follows the
  end record, and what was pulled is how the file began and will always begin; so a
  pulled file that ends with an end record is the whole one (`WholeFile`).
- `ExitsAreNoticed`: `Spec => []ExitIsNoticed`. `ExitInv`: the process is bound once; since
  start times never go back the bound process does not come back once it was reaped,
  except as one of the same clock tick (`twin`); and only the record under way when it was
  reaped may still say that all is well.
- `SuspendsAreReal`, `SuspendsAreSeen`, `IntactIsJudged`: `Spec => []` of `NoFalseSuspend`,
  `SuspendNotMissed` and `IntactIsUsable`. `ClockInv`: the offset a record states is off
  by at most its span from the true one at its time (`Near`), the truth only grows, and
  the readings of the pair under way bracket the present one. What the file says of two
  records is then compared with the truth at their times. The margin is a percentile
  found by sorting, which is stated as an order statistic; `Percentile` shows by counting
  that it exists, is a span of the file, and is the largest when there are fewer than 20.
- Assumptions: `TimeAssumption` and `MarginAssumption` (times and limits are numbers).

`TrialProofs`, about `ObsTrial` (for all intervals, delays, episodes and failures, and files
that end anywhere)

- `ObsInvariance`: the inductive `IInv` is what a file says of its trial, whatever became
  of the collector. `Heading`: the metadata record is what discovery found, or what a
  kill left of it. `Lines`: each further line is a heartbeat, which states a time between
  its start and its end (`Beat`), a reading, which shows the device at some time since
  the heartbeat before it (`Read`, `SeenAt`), or the end record. `InTime`: a reading is over
  before the next heartbeat. `EveryCycle`: between two heartbeats every sampled source is
  read, and after the last one it is read or in `todo`; `Counted` is the same as a number,
  which is what the analyzers look at. `Scheduled`: `due` counts the heartbeats.
- `ScheduleIsKept`: `Spec => []NeverAheadOfSchedule`, a part of `Scheduled`.
- `AbsentIsAbsent`: `Spec => []AbsenceIsCovered`. Of the sources the episode shows in
  (`SeenBySources`), a counter is read in the cycle of a
  heartbeat before the step and in that of one after it, with an answer each time
  (`ReadInAll`), and so with two values (`CounterShows`). An episode of two gaps holds a
  whole cycle: the first heartbeat in it and the next one, at most one gap later each
  (`NextBeat`, `PreviousBeat`), enclose a reading, which shows it (`IntervalShows`).
- `PresentIsPresent`: `Spec => []PresenceIsReal`. What a reading shows was so at some time up
  to now (`ReadsAreTrue`, `ShownIsReal`); a boot time that outran the host's clock was read in
  a heartbeat longer than the gap (`OutranIsSlow`).
- Assumptions: `TimeAssumption` (times are numbers) and `GapAssumption` (the gap is not
  zero).

`TrialProofs`, about `CampaignVerdict` (for any boots, conditions and outcomes, campaigns of any
length)

- `AcceptedInvariant`: the records are finitely many and passed the validator.
- `SettledForGood`: `CampaignSpec => FatalIsFinal`. The set of records only grows, so the
  cardinalities that made a verdict do not shrink (`SmallerPart`, `FewerBoots`): an exceeded
  cap stays exceeded, three timeouts in two boots stay three in two.
- `CompatibleByTrials`: `CampaignSpec => []CompatibleIsEarned`, from the validator's conditions
  on the records that fill the cells.

`U11EvidenceProofs` (for any builds, profiles' dependencies, run ids and number of commands)

- `Invariance`: a profile is listed only where archive and published tree are of one
  content (they are listed last), and what a command has done so far is as it left it
  until its next step, since commands do not overlap.
- `CountedArePacked`, `ReadsItsOwnAudit`, `ReadyIsConsistent`: `CountedIsPacked`,
  `AuditIsOfNow` and `ReadyIsOfOneBuild`. The last needs `Orderly` and `Agree`: while the
  tar that the metadata names is in place, and was not away since (`Stays`), all that is
  listed is of it.
- `ReproducibleIsShown`: `Spec => []ReproducedTwice`. An export, once made, is never made
  again, so the two a comparison found equal are the two it names (`KeptTwice`).
- Assumptions: `OrderlyAssumption` (a switch) and `AbsentAssumption` (the marks
  for absent and torn files are no build).

TLC found the inductive invariants of `ZipIngest`, `DualClock` (`ExitInv`, `ClockInv`),
`ReleaseExtract`, `UnpackTree` and `ObsTrial` to hold in the instances of section 4 before
they were proved. Type invariants stand in the proofs (`TypeOK`, `Types`, `GateTypes`) or
with the module, where they are of use to a reader.

Only model-checked: liveness (`RunsEnd`, `CollectorEnds`), which with
`ENABLED` is out of the prover's reach. Every other property of a passing run is proved.

## 6. Where code and words disagree

Shown by a run:

| Run | Code | Words |
|---|---|---|
| `ReleaseExtractMain` | the handler of `main` removes the output also when the extractor failed because it existed | `safe_release_extract.py:612-614` "an existing output was rejected before creation and is untouched" |
| `ObsMissing` | "absent" is said although discovery could not read a trip point or a frequency limit | `c3_obs_01_analyze.py:4-6` the analyzer "never turns a missing or malformed signal into evidence that C3 was absent" |
| `Eze4Parity` | the verifier exits 0 whatever it counts | `build-eze4-in-lima.sh:183` "100.00% parity, 0 mismatches" |

Met while modelling. The properties about the first ten leave the case out by name, in
their hypothesis or their text, and hold of everything else:

- `safe_zip_ingest.py:537`: `os.rename` after a check replaces an empty directory created in
  between, against "an existing destination can never be overwritten" (:16-18).
  `NothingOfValueReplaced` is about everything else.
- `safe_release_extract.py:291`, `:365` and `:611` name the exceptions that are turned into a
  refusal. `zlib.error`, `EOFError`, `LZMAError`, the `RuntimeError` of an encrypted member
  and `NotImplementedError` are not among them: `extract-zip` and `extract-tar` then end
  with a traceback and the half-written output stays, against "if validation or I/O fails,
  remove only that newly-created directory" (:612). `FailureLeavesNothing` leaves them out.
- `build-dtbo.sh:49` works in a directory it makes inside `dist`. Killed outright it leaves
  it there, no script removes it, and `build-downstream.sh:199-203` lists the digests of
  everything in `dist`: the list then covers files of an earlier invocation, and fails once
  they are tidied away. `SumsNeverOverMixture` and `VerifiedIsWhole` name them.
- `c2_dual_clock_observer.c:380-445` looks at the start time and the cgroup path of the
  trial process, not at its state: a zombie has both. If other processes populate its
  cgroup, a conclusion is reached about a process that has exited. Start times are clock
  ticks, so a process started in the same tick under the same PID passes, too.
  `ExitIsNoticed` begins with the reaping and leaves out `twin`.
- `c2_dual_clock_observer.c:1061`: if the first boot_id cannot be read, every later one that
  can is MISMATCH, which the analyzer takes for a reboot (`c2_dual_clock_analyze.py:327`)
  and calls an intact timeline COVERAGE_INVALID instead of unknown. `IntactIsUsable` needs
  the first one.
- `c2_dual_clock_analyze.py:315`: an offset below zero, as on a device that has not
  suspended since boot, leaves a field null that the analyzer requires, so a complete
  timeline is called malformed (:18-20). `IntactIsUsable` needs offsets of at least 0.
- `c2_dual_clock_analyze.py:168`: the "conservative" margin (:7-8) uses a percentile of
  the spans. From twenty records on it can pass over one pair that was held up, and
  nothing limits the span of the first: SUSPEND_OBSERVED is then concluded of a device that
  never suspended. A later one can look like an offset that drops, and make an intact
  timeline COVERAGE_INVALID. `NoFalseSuspend` and `IntactIsUsable` need `EvenlyRead`:
  fewer than twenty records, or no pair that stands out.
- `u11_preflight.py:377` looks at the form of the recorded digest of the modules tree and
  not at the tree: profiles packed before the modules of the build in place were
  extracted are called READY. `ReadyIsOfOneBuild` needs `Orderly`.
- `u11_preflight.py:370-384` compares the metadata with the build, and `:386-399` the lists
  with the archives. If a build makes room for another, the other is packed, its comparison
  fails, and the first one is put back, all of them agree, and READY ("offline inputs are
  consistent with each other", :492) stands over archives of the other build.
  `ReadyIsOfOneBuild` is about a build that was never `replaced`.
- `safe_release_extract.py:543`: `unpack_tree` samples whether an output exists before the
  extractor does; one that another process creates in between is refused by the extractor
  and removed by the handler. `UnpackKeepsExisting` is about outputs there at the sample.
- `safe_zip_ingest.py:539`: when the `fsync` of the parent fails after the rename, the
  tool reports that nothing could be published and leaves the published tree.
- A failed comparison of `build-u11-initramfs.sh` leaves new archives under the old
  `BUILD-METADATA`, which may say that they are reproducible. An audit that fails, or a
  preflight that ends with 2, leaves an older `preflight.json` that may say READY. The
  report of the audit does not say which trees it looked at.
- "Absent" answers for one readable power counter of the two, and for neither if the device
  suspends without moving it, which `docs/rmg-eze4/C2_OBS_01_DESIGN.md:94-95` grants:
  "stability alone cannot prove that no transition occurred". `AbsenceIsCovered` is about
  the sources in `AnsweredFor`. Episodes of less than two gaps may fall between two
  readings, and nothing is said of the time after the last heartbeat. A stray process gives
  "unknown", never "present". In C2 a heartbeat that takes longer than the gap gives
  "present" (`PresenceIsReal`).
- A connection lost between two cycles leaves a file that lacks only its end record, and
  "absent" is said of it; `docs/rmg-eze4/C2_OBS_01_DESIGN.md:96-99` asks for the end.
- `validator.py:259`: a reap without a spawn is a `ValueError` and not a refusal; a
  missing classification of a confounder passes as one that is absent.
- `apply-patches.sh`: a clone or a patch that is killed in the middle makes every rerun
  refuse until the checkout is put back by hand. `docs/04-build.md:62-71` patches
  `sources/wifi-kernel` and builds another directory, and `build-downstream.sh`, run
  alone, records the digest of the series without looking whether it is applied.
- Neither the `SHA256SUMS` of the stock images nor the one over the three U11 profiles
  is verified by any program.

## 7. What is not covered

- Components marked *not modelled* or modelled in part in section 1; the reasons are in
  `PROJECT.json`. Formats, wording and the contents of reports are left out everywhere.
- Three hazards have no property. The host record of `build-osrc-u11-in-lima.sh:184` uses
  up its identifier whatever becomes of the run: the promise is about the operator's
  next command, and the intake that it belongs to is not modelled yet. The gadget of the
  rescue `init` (:59) and its loop of shells (:129) depend on which of their operations
  the kernel's configfs undoes, which the code does not tell.
- Power loss: what `fsync` makes durable is not modelled, only kills of processes.
  `safe_zip_ingest.py:463` syncs the stage's own directory alone.
- Hash collisions; reading errors that are not reported.
- `ZipIngest`: the checks of single ZIP entries are one set of accepted directories.
- `ReleaseExtract`: file contents, modes and the size limit (an error like any other);
  `scan`, which only reads.
- `Eze4Build`: two live runs with one identifier; a run that dies does not leave
  background processes behind.
- `ReferencePipeline`: two invocations at once; edits of sources during a build;
  `build-downstream.sh` over another tree than the wrapper's; `setup-lima` and
  `fetch-image-tools`, which the pipeline calls first and which write elsewhere; objects
  kept for incremental builds. A list of digests that a kill cut off is one value, never
  a verified one: `sha256sum -c` would accept it for the files it names, and nothing in
  the repository could tell. A repacking that fails leaves the candidates of the last one
  without a list; one that is not run leaves them with it, next to a newer kernel.
- `DualClock*`: process CPU fields; a reboot, which ends the observer; hold-ups together with process
  events in one behaviour (checked separately). A PID that is given away between the
  reading of its cgroup path and that of its start time
  (`c2_dual_clock_observer.c:462`) is bound as if it were the trial's.
- `ObsTrial`: a reboot (the analyzers do not compare boot_id); several thermal zones and policies; `suspend_fail`; readings by two
  collectors of one trial at once.
- `CampaignVerdict`: input that is no record at all.
- `U11Evidence`: two commands at once; the reports' texts; archives other than through
  the digests that name them.
