----------------------------- MODULE U11Evidence -----------------------------
(***************************************************************************)
(* The offline evidence about the U11 build: a build is placed and its     *)
(* modules extracted (by hand), scripts/build-u11-initramfs.sh makes three *)
(* profiles of them, tools/u11_modules_audit.py and tools/u11_preflight.py *)
(* examine the result, and tools/u11_repro_compare.py compares two builds. *)
(* A command may fail, or be killed, after any of its steps: what it wrote *)
(* by then stays, and the next command starts from it.                     *)
(*                                                                         *)
(* Data abstraction.  Contents are told apart by their generation: the     *)
(* number of the build they come from, or Mixed for a modules tree whose   *)
(* extraction was cut short over another.  A list of digests is what it    *)
(* lists.  The scripts take no lock and expect to be alone: one runs at a  *)
(* time.                                                                   *)
(***************************************************************************)
EXTENDS Naturals

CONSTANTS
  Gens,      \* the builds
  Mixed,     \* a modules tree that is of no one build
  Sound,     \* builds whose identity, config, order and lists check
  Closes,    \* <<g, t>>: profiles made of the tree g are closed under the
             \* dependencies that the tree t declares
  Small,     \* profiles whose archive fits init_boot
  Orderly,   \* modules are extracted before initramfs are made of them
  RunIds,    \* builds kept under a run id, for comparison
  MaxOps,    \* bound on the commands of a behaviour
  None,      \* no such file
  Torn       \* a file or tree being written

ASSUME OrderlyAssumption == Orderly \in BOOLEAN
ASSUME AbsentAssumption ==
  /\ None # Torn
  /\ {None, Torn} \cap (Gens \cup {Mixed}) = {}

Profiles == {"minimal", "ufs", "usb"}
Files == {"required", "other"}

VARIABLES
  build,     \* U11_BUILD_ARTIFACTS: data, modules tar, extracted tree, sums
  replaced,  \* builds whose modules tar was in place and made room for another
             \* (history: nothing in the code remembers it)
  archive,   \* profile -> generation of its cpio and cpio.gz
  lz4,       \* profile -> is there a cpio.lz4 of the same
  rootfs,    \* profile -> generation of the tree published next to them
  listed,    \* profile -> what its SHA256SUMS lists
  metadata,  \* BUILD-METADATA of the initramfs
  modules,   \* modules-audit.json
  preflight, \* preflight.json
  dist,      \* run id -> dist directory exported from the guest
  repro,     \* reproducibility.json
  job,       \* the command that runs, what it does next and what it holds
  ops        \* commands started

profiles == <<archive, lz4, rootfs, listed>>
runs == <<dist, repro>>
vars == <<build, replaced, profiles, metadata, modules, preflight, runs, job, ops>>

\* A command starts; goes on to its next step; ends.
Idle == job = None /\ ops < MaxOps /\ ops' = ops + 1
Start(j) == Idle /\ job' = j
Go(step) == job' = [job EXCEPT !.step = step] /\ UNCHANGED ops
End == job' = None /\ UNCHANGED ops
At(op, step) == job # None /\ job.op = op /\ job.step = step

\* One whose steps nothing can tell apart.
Once == Idle /\ UNCHANGED job

\* A laboratory where nothing was made of the build yet, or everything was.
Init ==
  \E g \in Gens, made \in BOOLEAN :
    LET Made(v) == IF made THEN v ELSE None IN
    /\ build = [data |-> g, tar |-> g, tree |-> g, sums |-> g] /\ replaced = {}
    /\ archive = [p \in Profiles |-> Made(g)] /\ lz4 = [p \in Profiles |-> made]
    /\ rootfs = [p \in Profiles |-> Made(g)] /\ listed = [p \in Profiles |-> Made(g)]
    /\ metadata = Made([build |-> [sums |-> g, tar |-> g, tree |-> g],
                        reproducible |-> TRUE])
    /\ modules = Made([pass |-> <<g, g>> \in Closes,
                       saw |-> [rootfs |-> [p \in {"ufs", "usb"} |-> g], tree |-> g]])
    /\ preflight = None
    /\ dist = [r \in RunIds |-> None] /\ repro = None
    /\ job = None /\ ops = 0

(***************************************************************************)
(* The build in place.                                                     *)
(***************************************************************************)

\* The files of a build are copied in, not all when it is cut short: a newer
\* build, or one that was there before.
Place(g, part) ==
  /\ Once
  /\ build' = [f \in DOMAIN build |-> IF f \in part THEN g ELSE build[f]]
  /\ replaced' = replaced \cup ({build.tar} \ {build'.tar})
  /\ UNCHANGED <<profiles, metadata, modules, preflight, runs>>

Extract(t) ==
  /\ t \in {build.tar, Mixed}
  /\ Once
  /\ build' = [build EXCEPT !.tree = t]
  /\ UNCHANGED <<replaced, profiles, metadata, modules, preflight, runs>>

\* sha256sum -c, and verify_checksum_file on the build.
BuildVerifies == build.sums = build.data /\ build.sums = build.tar

(***************************************************************************)
(* build-u11-initramfs.sh.  Every tree has its 282 modules of one release: *)
(* the digests are all that can refuse.  It does not compare the tree with *)
(* the tar; whoever is Orderly extracts the one from the other first.      *)
(***************************************************************************)
InitramfsWith(hasLz4, check) ==
  /\ BuildVerifies
  /\ Orderly => build.tree = build.tar
  /\ Start([op |-> "initramfs", step |-> "clear", p |-> "minimal",
            lz4 |-> hasLz4, check |-> check,
            build |-> [f \in {"sums", "tar", "tree"} |-> build[f]]])
  /\ UNCHANGED <<build, replaced, profiles, modules, preflight, runs>>

\* Bug: metadata written when its values are known, before the archives.
InitramfsClaims(hasLz4, check) ==
  /\ InitramfsWith(hasLz4, check)
  /\ metadata' = [build |-> [f \in {"sums", "tar", "tree"} |-> build[f]],
                  reproducible |-> check]

Initramfs(hasLz4, check) == InitramfsWith(hasLz4, check) /\ UNCHANGED metadata

InitramfsRefused ==
  /\ ~BuildVerifies
  /\ Once
  /\ UNCHANGED <<build, replaced, profiles, metadata, modules, preflight, runs>>

\* build-initramfs.sh for one profile, from the removal of the last result ...
Clear ==
  /\ At("initramfs", "clear")
  /\ archive' = [archive EXCEPT ![job.p] = None]
  /\ lz4' = [lz4 EXCEPT ![job.p] = FALSE]
  /\ listed' = [listed EXCEPT ![job.p] = None]
  /\ Go("pack")
  /\ UNCHANGED <<build, replaced, rootfs, metadata, modules, preflight, runs>>

\* ... over the archives, packed from a staging tree ...
Pack ==
  /\ At("initramfs", "pack")
  /\ archive' = [archive EXCEPT ![job.p] = Torn]
  /\ Go("packed")
  /\ UNCHANGED <<build, replaced, lz4, rootfs, listed, metadata, modules,
                preflight, runs>>

PackedWith(now) ==
  /\ At("initramfs", "packed")
  /\ archive' = [archive EXCEPT ![job.p] = job.build.tree]
  /\ lz4' = [lz4 EXCEPT ![job.p] = job.lz4]
  /\ listed' = now
  /\ Go("publish")
  /\ UNCHANGED <<build, replaced, rootfs, metadata, modules, preflight, runs>>

\* Bug: digests written as soon as the archives are there.
PackedAndListed == PackedWith([listed EXCEPT ![job.p] = job.build.tree])

Packed == PackedWith(listed)

\* ... and the tree that replaces the one published next to them ...
Publish ==
  /\ At("initramfs", "publish")
  /\ rootfs' = [rootfs EXCEPT ![job.p] = Torn]
  /\ Go("published")
  /\ UNCHANGED <<build, replaced, archive, lz4, listed, metadata, modules,
                preflight, runs>>

Published ==
  /\ At("initramfs", "published")
  /\ rootfs' = [rootfs EXCEPT ![job.p] = job.build.tree]
  /\ Go("list")
  /\ UNCHANGED <<build, replaced, archive, lz4, listed, metadata, modules,
                preflight, runs>>

\* ... to the digests; then the next profile.  A list that a kill cuts short
\* verifies like the whole one (all it could name is in place by then): one step.
List ==
  /\ At("initramfs", "list")
  /\ listed' = [listed EXCEPT ![job.p] = archive[job.p]]
  /\ job' = CASE job.p = "minimal" -> [job EXCEPT !.p = "ufs", !.step = "clear"]
              [] job.p = "ufs"     -> [job EXCEPT !.p = "usb", !.step = "clear"]
              [] job.p = "usb"     -> [job EXCEPT !.step = "compare"]
  /\ UNCHANGED <<build, replaced, archive, lz4, rootfs, metadata, modules, preflight,
                runs, ops>>

\* The snapshot needs every lz4; the second build, in scratch, needs to be equal.
Compare(equal) ==
  /\ At("initramfs", "compare")
  /\ IF job.lz4 /\ (job.check => equal)
       THEN Go("metadata")
       ELSE End
  /\ UNCHANGED <<build, replaced, profiles, metadata, modules, preflight, runs>>

\* One step: of a file that a kill cuts short the last line is missing, which the
\* preflight asks for.
Metadata ==
  /\ At("initramfs", "metadata")
  /\ metadata' = [build |-> job.build, reproducible |-> job.check]
  /\ End
  /\ UNCHANGED <<build, replaced, profiles, modules, preflight, runs>>

\* Any step of a command may fail, and it may be killed.
Stop ==
  /\ job # None
  /\ job' = None
  /\ UNCHANGED <<build, replaced, profiles, metadata, modules, preflight, runs,
                ops>>

(***************************************************************************)
(* u11_modules_audit.py.  It looks at the published trees and at the one   *)
(* the build was extracted to, and its report says neither which.          *)
(***************************************************************************)

\* A tree half there lacks modules, except that `minimal` needs none.
Whole(p) == rootfs[p] \notin {None, Torn} \/ p = "minimal"

Closed(p) == Whole(p) /\ <<rootfs[p], build.tree>> \in Closes

\* saw is not in the report: it is what the audit looked at.
AuditReport ==
  [pass |-> Closed("ufs") /\ Closed("usb"),
   saw  |-> [rootfs |-> [p \in {"ufs", "usb"} |-> rootfs[p]], tree |-> build.tree]]

\* `next` is what goes on after it: nothing, or the preflight of
\* u11-preflight.sh, which a status other than 0 stops.
Audit(next) ==
  /\ IF next = "preflight" /\ AuditReport.pass
       THEN Start([op |-> "script", step |-> "preflight"])
       ELSE Once
  /\ modules' = AuditReport
  /\ UNCHANGED <<build, replaced, profiles, metadata, preflight, runs>>

\* Bug: a script that goes on after a failed audit.
AuditIgnored(next) ==
  /\ IF next = "preflight" THEN Start([op |-> "script", step |-> "preflight"]) ELSE Once
  /\ UNCHANGED <<build, replaced, profiles, metadata, modules, preflight, runs>>

\* An error of I/O, or a dependency file that cannot be parsed, and no report.
AuditBreaks(next) ==
  /\ next \in {"end", "preflight"}
  /\ Once
  /\ UNCHANGED <<build, replaced, profiles, metadata, modules, preflight, runs>>

(***************************************************************************)
(* u11_preflight.py.                                                       *)
(***************************************************************************)
Verifies(p) == listed[p] # None /\ listed[p] = archive[p]

Provenance ==
  /\ metadata # None /\ metadata.reproducible
  /\ metadata.build.sums = build.sums /\ metadata.build.tar = build.tar

\* repro_report_valid.
TwoCleanRuns == repro # None /\ repro.reproducible /\ repro.first # repro.second

Fits(p) == lz4[p] /\ p \in Small
ProfileOf(p) == IF ~(Verifies(p) /\ Whole(p)) THEN "FAIL"
                ELSE IF Fits(p) THEN "PASS" ELSE "WARN"

\* verify_tar_extraction: the tree has the files of the tar and no others.
Extracted == build.tree = build.tar

BuildPasses == build.data \in Sound /\ BuildVerifies /\ Extracted

RunAudit ==
  LET consistent == BuildPasses /\ modules.pass /\ Provenance
  IN [ready |-> consistent /\ \A p \in {"minimal", "ufs"} : ProfileOf(p) = "PASS",
      fails |-> ~consistent \/ \E p \in Profiles : ProfileOf(p) = "FAIL",
      repro |-> TwoCleanRuns]

\* Without the modules report it stops with 2, and its own stays.  It exits
\* with 1 when a check fails.
Report == preflight' = IF modules = None THEN preflight ELSE RunAudit
Exit0 == modules # None /\ ~RunAudit.fails

Preflight ==
  /\ Once /\ Report
  /\ UNCHANGED <<build, replaced, profiles, metadata, modules, runs>>

ScriptPreflight ==
  /\ At("script", "preflight")
  /\ End /\ Report
  /\ UNCHANGED <<build, replaced, profiles, metadata, modules, runs>>

(***************************************************************************)
(* Builds kept for comparison.  A run id is used once, whatever becomes of *)
(* the copy (build-osrc-u11-in-lima.sh).                                   *)
(***************************************************************************)
Export(r, g, part) ==
  /\ dist[r] = None
  /\ Once
  /\ dist' = [dist EXCEPT ![r] = [f \in part |-> g]]
  /\ UNCHANGED <<build, replaced, profiles, metadata, modules, preflight, repro>>

\* Bug: a comparison of the files that both have.
IdenticalSoFar(a, b) ==
  \A f \in DOMAIN dist[a] \cap DOMAIN dist[b] : dist[a][f] = dist[b][f]

Identical(a, b) ==
  /\ \A d \in {dist[a], dist[b]} : "required" \in DOMAIN d
  /\ DOMAIN dist[a] = DOMAIN dist[b]
  /\ \A f \in DOMAIN dist[a] : dist[a][f] = dist[b][f]

ReproCompare(a, b) ==
  /\ a # b /\ dist[a] # None /\ dist[b] # None
  /\ Once
  /\ repro' = [reproducible |-> Identical(a, b), first |-> a, second |-> b]
  /\ UNCHANGED <<build, replaced, profiles, metadata, modules, preflight, dist>>

(***************************************************************************)
(* The specification.                                                      *)
(***************************************************************************)
BuildProfile == Clear \/ Pack \/ Packed \/ Publish \/ Published \/ List

Next ==
  \/ \E g \in Gens, part \in SUBSET {"data", "tar", "sums"} : Place(g, part)
  \/ \E t \in Gens \cup {Mixed} : Extract(t)
  \/ \E hasLz4, check \in BOOLEAN : Initramfs(hasLz4, check)
  \/ InitramfsRefused
  \/ BuildProfile
  \/ \E equal \in BOOLEAN : Compare(equal)
  \/ Metadata
  \/ Stop
  \/ \E next \in {"end", "preflight"} : Audit(next) \/ AuditBreaks(next)
  \/ Preflight
  \/ ScriptPreflight
  \/ \E r \in RunIds, g \in Gens, part \in SUBSET Files : Export(r, g, part)
  \/ \E a, b \in RunIds : ReproCompare(a, b)

Spec == Init /\ [][Next]_vars

(***************************************************************************)
(* Properties.                                                             *)
(***************************************************************************)

\* The modules that the preflight counts, and whose closure the audit checks,
\* are those in the archives: a profile that does not fail has the tree its
\* archives were packed from, wherever the builds of it were killed.
\* (u11_preflight.py:386-399 looks at the published tree, never at the archive.)
CountedIsPacked ==
  \A p \in Profiles : ProfileOf(p) # "FAIL" => rootfs[p] = archive[p]

\* "READY only means that offline inputs are consistent with each other"
\* (u11_preflight.py:492): the archives and their trees are of the build in
\* place, all of whose parts are of one generation, wherever the builds of the
\* profiles were killed or refused.  Two cases are left out, and in both the code
\* says READY over archives of another build:
\*  - modules not extracted before they are packed (Orderly): the metadata
\*    records a digest of the tree, and the preflight looks at its form alone;
\*  - a build put back after another took its place (replaced).  The metadata is
\*    compared with the build only (370-384) and the lists with the archives only:
\*    if another build was packed in between, and its comparison failed or was
\*    killed before the metadata, the metadata is that of the build put back and
\*    the archives are the other's.  No script and no check prevents it.
ReadyIsOfOneBuild ==
  Orderly /\ build.tar \notin replaced /\ modules # None /\ RunAudit.ready =>
    /\ \A f \in DOMAIN build : build[f] = build.tree
    /\ \A p \in {"minimal", "ufs"} : archive[p] = build.tree /\ rootfs[p] = build.tree

\* A script that exits with 0 has read the audit of the trees that are there,
\* not one that an earlier audit left (u11-preflight.sh:5).
AuditIsOfNow ==
  [][At("script", "preflight") /\ job' = None /\ Exit0
       => modules.saw = AuditReport.saw]_vars

\* A kernel reported reproducible has two exports under different run ids,
\* complete and identical, even though exports are cut short and stay.
ReproducedTwice ==
  preflight # None /\ preflight.repro =>
    \E a, b \in RunIds :
      /\ a # b /\ dist[a] # None /\ dist[a] = dist[b]
      /\ "required" \in DOMAIN dist[a]
=============================================================================
