--------------------------- MODULE ReferencePipeline ---------------------------
(***************************************************************************)
(* The reference build: scripts/build-all-reference.sh and the scripts it  *)
(* runs one after the other, each of which an operator also runs on its    *)
(* own.  A script first invalidates what an earlier run left, then writes  *)
(* its deliverables one by one, then the list of their digests.  Any       *)
(* command in it may fail, which ends it (`set -e`), or be killed.         *)
(*                                                                         *)
(* A script is a sequence of steps.  What a file holds is abstracted to    *)
(* the invocation that wrote it, whether it is whole, and what the inputs  *)
(* held when it was made.  Two invocations never run at once, and nobody   *)
(* edits the sources while one runs.                                       *)
(***************************************************************************)
EXTENDS Naturals, Sequences

CONSTANTS
  NPatches,    \* number of patches in patches/downstream/wifi
  MaxCommands  \* bound on the number of invocations

ASSUME BoundAssumption == NPatches \in Nat \ {0} /\ MaxCommands \in Nat

\* There is no such file, or no checkout: a record unlike theirs.
None == [missing |-> TRUE]

\* What the list of digests of a directory covers, beside itself and, in dist, what
\* a DTBO build left; what makes the directory complete; and all that its script
\* writes there.
Listable ==
  [stock      |-> {"stock_boot", "stock_init_boot"},
   dist       |-> {"modules", "Image", "dtbs", "config", "System.map", "metadata", "dtbo", "entries"},
   dtbo       |-> {"dtbo"},
   busybox    |-> {"busybox"},
   initramfs  |-> {"cpio", "gz", "lz4"},
   candidates |-> {"boot", "init_boot"}]
Mandatory ==
  [stock      |-> {"stock_boot", "stock_init_boot"},
   dist       |-> {"modules", "Image", "dtbs", "config", "metadata"},
   dtbo       |-> {"dtbo"},
   busybox    |-> {"busybox", "commit"},
   initramfs  |-> {"rootfs", "cpio", "gz"},
   candidates |-> {"boot", "init_boot"}]
Places == DOMAIN Listable
SumsFile ==
  [stock      |-> "SHA256SUMS_stock",     dist       |-> "SHA256SUMS_dist",
   dtbo       |-> "SHA256SUMS_dtbo",      busybox    |-> "SHA256SUMS_busybox",
   initramfs  |-> "SHA256SUMS_initramfs", candidates |-> "SHA256SUMS_candidates"]
FromTheTar == {"raw_boot", "raw_init_boot", "manifest"}
Own(p) ==
  CASE p = "stock" -> Listable[p] \cup FromTheTar
    [] p = "dist"  -> (Listable[p] \cup Mandatory[p]) \ {"dtbo", "entries"}
    [] OTHER       -> Listable[p] \cup Mandatory[p]
Trees == {"modules", "dtbs", "entries", "rootfs"}
Files == UNION {Own(p) \cup Listable[p] \cup {SumsFile[p]} : p \in Places}

\* The git checkout of the kernel: which patches of the series are in it and
\* whether tracked files have other changes.  No two patches touch one file.  The
\* files of a torn patch are neither those of the release nor the patched ones.
Patches == 1..NPatches
Uniform(state) == [patch |-> [p \in Patches |-> state], edited |-> FALSE]
Pristine == Uniform("absent")
Patched == Uniform("applied")

(***************************************************************************)
(* The scripts.                                                            *)
(***************************************************************************)
Remove(f) == [op |-> "remove", file |-> f]
Check == [op |-> "check"]
Need(f) == [op |-> "need", file |-> f]
NeedWhole(f) == [op |-> "whole", file |-> f]
Work(p) == [op |-> "work", place |-> p]
Copied(f, from) == [op |-> "copy", file |-> f, from |-> from, lenient |-> FALSE]
Tried(f) == [op |-> "copy", file |-> f, from |-> {}, lenient |-> TRUE]
IfTool(f, from) == [op |-> "iftool", file |-> f, from |-> from, lenient |-> FALSE]
Moved(f, from) == [op |-> "move", file |-> f, from |-> from]
Digested(p) == [op |-> "digest", place |-> p]

\* safe_tar_extract.py: the packed images are moved into place, one by one, once
\* it has them all.  Two of the six stand for them.
Unpacked == <<Work("stock"), Moved("raw_boot", {}), Moved("raw_init_boot", {})>>

\* extract-stock.sh: each is decompressed; the manifest of the DTBO stands for
\* what is extracted from them; then the digests.
Decompressed ==
  <<Copied("stock_boot", {"raw_boot"}), Copied("stock_init_boot", {"raw_init_boot"}),
    Copied("manifest", {}), Digested("stock")>>

\* extract-firmware-zip.sh: over an earlier extraction only if told to replace it.
\* The name of the firmware, recorded last, is read by no program.
Stock ==
  <<Check, Remove("raw_boot"), Remove("raw_init_boot"), Remove("stock_boot"),
    Remove("stock_init_boot"), Remove("manifest"), Remove(SumsFile["stock"])>>
  \o Unpacked \o Decompressed

KernelInvalidates ==
  <<Remove("modules"), Remove("dtbs"), Remove("entries"), Remove("Image"),
    Remove("config"), Remove("System.map"), Remove("metadata"),
    Remove(SumsFile["dist"]), Remove("dtbo"), Remove(SumsFile["dtbo"])>>
KernelDelivers ==
  <<Copied("modules", {"tree"}), Copied("Image", {"tree"}), Copied("dtbs", {"tree"}),
    Copied("config", {"tree"}), Tried("System.map")>>

\* Bug: the series is applied, and not compared with the difference it made.
PatchesUncompared ==
  <<[op |-> "clone"], Check>> \o [p \in Patches |-> [op |-> "patch", patch |-> p]]

\* build-reference-in-lima.sh to apply-patches.sh, patch by patch.
ApplyPatches ==
  <<[op |-> "clone"], Check>> \o [p \in Patches |-> [op |-> "patch", patch |-> p]]
  \o <<[op |-> "compare"]>>

\* Bugs: the list of digests survives; it comes too early.
KernelKeepsSums ==
  ApplyPatches \o <<Check>> \o SelectSeq(KernelInvalidates, LAMBDA s : s.file # SumsFile["dist"])
  \o <<Work("dist")>> \o KernelDelivers \o <<Copied("metadata", {}), Digested("dist")>>
KernelDigestsEarly ==
  ApplyPatches \o <<Check>> \o KernelInvalidates
  \o <<Work("dist")>> \o KernelDelivers \o <<Digested("dist"), Copied("metadata", {})>>

\* build-reference-in-lima.sh and build-downstream.sh.
Kernel ==
  ApplyPatches \o <<Check>> \o KernelInvalidates
  \o <<Work("dist")>> \o KernelDelivers \o <<Copied("metadata", {}), Digested("dist")>>

\* build-busybox.sh.
Busybox ==
  <<Check, Remove("busybox"), Remove("commit"), Remove(SumsFile["busybox"]),
    Work("busybox"), Copied("busybox", {}), Copied("commit", {}), Digested("busybox")>>

\* Bug: the optional archive of an earlier run survives.
InitramfsKeepsLz4 ==
  <<Need("busybox"), Remove("cpio"), Remove("gz"),
    Remove(SumsFile["initramfs"]), Remove("rootfs"), Work("initramfs"),
    Copied("rootfs", {"busybox"}), Copied("cpio", {"rootfs"}),
    Copied("gz", {"cpio"}), IfTool("lz4", {"cpio"}), Digested("initramfs")>>

\* build-initramfs.sh without a staging directory of its own.
Initramfs ==
  <<Need("busybox"), Remove("cpio"), Remove("gz"), Remove("lz4"),
    Remove(SumsFile["initramfs"]), Remove("rootfs"), Work("initramfs"),
    Copied("rootfs", {"busybox"}), Copied("cpio", {"rootfs"}),
    Copied("gz", {"cpio"}), IfTool("lz4", {"cpio"}), Digested("initramfs")>>

\* build-rescue-in-lima.sh; of its three profiles the one that is repacked.
Rescue == <<Need("modules")>> \o Busybox \o Initramfs

\* build-dtbo.sh: the container is made and unpacked again in a temporary
\* directory before anything is published.  The directory is in dist, from the
\* real work to the end of the script.  The template, a JSON file, is parsed.
Dtbo ==
  <<Check, Remove("dtbo"), Remove(SumsFile["dtbo"]), Remove("entries"),
    NeedWhole("manifest"), Need("dtbs"), Work("dtbo"), Copied("dtbo", {"dtbs"}),
    Remove("entries"), Copied("entries", {"dtbs"}), Digested("dtbo")>>

\* repack-boot.sh and repack-init-boot.sh: unpack, repack, unpack, compare,
\* check the size, then rename a finished copy into place.
RepackOne(image, stock, payload) ==
  <<Need(stock), Need(payload), Remove(image), Check, Moved(image, {stock, payload})>>

\* repack-reference-in-lima.sh, up to the digests.
Repacked ==
  <<Need("stock_boot"), Need("stock_init_boot"), Need("Image"), Need("cpio"),
    Remove(SumsFile["candidates"]), Work("candidates")>>
  \o RepackOne("boot", "stock_boot", "Image")
  \o RepackOne("init_boot", "stock_init_boot", "cpio")
  \o <<Digested("candidates")>>

\* Bug: the candidates are verified, the stock images are not.
RepackUnverified == Repacked \o <<Check>>

\* verify-avb-candidates.sh comes last: only now is a stock image looked into,
\* whose hash must be that of its descriptor.
Repack == Repacked \o <<NeedWhole("stock_boot"), NeedWhole("stock_init_boot"), Check>>

All == Kernel \o Rescue \o Dtbo \o Repack

Script ==
  [stock |-> Stock, kernel |-> Kernel, busybox |-> Busybox, initramfs |-> Initramfs, rescue |-> Rescue,
   dtbo |-> Dtbo, repack |-> Repack, all |-> All]

(***************************************************************************)
(* Running them.                                                           *)
(***************************************************************************)
VARIABLES
  file,    \* what every file holds: [by, whole, of] or None
  tree,    \* the checkout of the kernel, or None
  n,       \* number of the latest invocation
  script,  \* its name
  at,      \* its next step
  half,    \* TRUE in the middle of that step
  status,  \* "running", "ok" or "failed"
  leftovers,  \* invocations that left the temporary directory of a DTBO build in dist
  listed      \* those whose leftovers the list of digests of dist covers, too

vars == <<file, tree, n, script, at, half, status, leftovers, listed>>

\* The stock firmware has been extracted; nothing else is there.
Init ==
  /\ LET extracted == [by |-> 0, whole |-> TRUE, of |-> {}] IN
     file = [f \in Files |->
               IF f \in Own("stock") THEN extracted
               ELSE IF f = SumsFile["stock"]
               THEN [by |-> 0, whole |-> TRUE,
                     of |-> {[file |-> g, content |-> extracted] : g \in Listable["stock"]}]
               ELSE None]
  /\ tree = None
  /\ n = 0 /\ script = "all" /\ at = 1 /\ half = FALSE /\ status = "failed"
  /\ leftovers = {} /\ listed = {}

\* A script starts.  The checkout may have been edited, or put back, meanwhile;
\* only what comes next can tell, and only if it looks.
Start ==
  /\ status # "running" /\ n < MaxCommands
  /\ n' = n + 1
  /\ script' \in DOMAIN Script
  /\ \/ tree' = tree
     \/ /\ script' \in {"kernel", "all"} /\ tree # None
        /\ tree' \in {[tree EXCEPT !.edited = TRUE], Pristine}
  /\ at' = 1 /\ half' = FALSE /\ status' = "running"
  /\ UNCHANGED <<file, leftovers, listed>>

AtStep(op) == status = "running" /\ at <= Len(Script[script]) /\ Script[script][at].op = op
Here == Script[script][at]
Now(from) == {IF g = "tree" THEN tree ELSE file[g] : g \in from}
Advance == at' = at + 1 /\ half' = FALSE /\ UNCHANGED <<n, script, status, leftovers>>
Halfway == half' = TRUE /\ UNCHANGED <<at, n, script, status, leftovers>>

\* git clone, where there is no checkout yet.
Clone ==
  /\ AtStep("clone") /\ UNCHANGED <<file, listed>>
  /\ CASE tree = None -> tree' = Uniform("torn") /\ Halfway
       [] half        -> tree' = Pristine /\ Advance
       [] OTHER       -> tree' = tree /\ Advance

\* A patch that comes off cleanly is skipped, one that goes on cleanly is applied:
\* git removes the old files, then writes the new ones.
SkipPatch ==
  /\ AtStep("patch") /\ ~half /\ tree.patch[Here.patch] = "applied"
  /\ Advance /\ UNCHANGED <<file, tree, listed>>

ApplyPatch ==
  /\ AtStep("patch") /\ (half \/ tree.patch[Here.patch] = "absent")
  /\ tree' = [tree EXCEPT !.patch[Here.patch] = IF half THEN "applied" ELSE "torn"]
  /\ IF half THEN Advance ELSE Halfway
  /\ UNCHANGED <<file, listed>>

\* The difference to HEAD is the one that the series makes in a second index.
Compare == AtStep("compare") /\ tree = Patched /\ Advance /\ UNCHANGED <<file, tree, listed>>

\* Checks of the environment and compilations touch no deliverable.
Pass == (AtStep("check") \/ AtStep("work")) /\ Advance /\ UNCHANGED <<file, tree, listed>>

\* A missing input ends the script; what the input holds is not looked at.
Require ==
  AtStep("need") /\ file[Here.file] # None /\ Advance /\ UNCHANGED <<file, tree, listed>>

\* A program that reads all of its input notices that some of it is missing.
RequireWhole ==
  /\ AtStep("whole") /\ file[Here.file] # None /\ file[Here.file].whole
  /\ Advance /\ UNCHANGED <<file, tree, listed>>

\* rm, which empties a directory before it is gone.
RemoveFile ==
  /\ AtStep("remove") /\ UNCHANGED <<tree, listed>>
  /\ LET f == Here.file IN
     IF f \in Trees /\ ~half /\ file[f] # None
     THEN file' = [file EXCEPT ![f].whole = FALSE] /\ Halfway
     ELSE file' = [file EXCEPT ![f] = None] /\ Advance

\* cp, make modules_install or a redirection: there at once, whole at the end.
\* A failure of the lenient one (`|| true`) is passed over.
CopyFile ==
  /\ AtStep("copy") \/ AtStep("iftool")
  /\ UNCHANGED <<tree, listed>>
  /\ LET content == [by |-> n, whole |-> half, of |-> Now(Here.from)] IN
     \/ /\ file' = [file EXCEPT ![Here.file] = content]
        /\ IF half THEN Advance ELSE Halfway
     \/ /\ Here.lenient /\ UNCHANGED file /\ Advance

\* lz4 is not installed.
NoTool == AtStep("iftool") /\ ~half /\ UNCHANGED <<file, tree, listed>> /\ Advance

MoveFile ==
  /\ AtStep("move") /\ UNCHANGED <<tree, listed>>
  /\ file' = [file EXCEPT ![Here.file] = [by |-> n, whole |-> TRUE, of |-> Now(Here.from)]]
  /\ Advance

\* sha256sum of everything there is to list; until it is done the lines of the
\* list make no difference.
Digest ==
  /\ AtStep("digest") /\ UNCHANGED tree
  /\ LET p == Here.place
         lines == {[file |-> f, content |-> file[f]] : f \in {f \in Listable[p] : file[f] # None}} IN
       file' = [file EXCEPT ![SumsFile[p]] =
                  [by |-> n, whole |-> half, of |-> IF half THEN lines ELSE {}]]
  /\ listed' = IF Here.place = "dist" THEN leftovers ELSE listed
  /\ IF half THEN Advance ELSE Halfway

Finish ==
  /\ status = "running" /\ at > Len(Script[script])
  /\ status' = "ok"
  /\ UNCHANGED <<file, tree, n, script, at, half, leftovers, listed>>

\* build-dtbo.sh has made its temporary directory and not removed it yet.
TempIsThere ==
  \E i \in 1..at - 1 :
    /\ Script[script][i] = Work("dtbo")
    /\ \A j \in i..at - 2 : Script[script][j] # Digested("dtbo")

\* A command fails, or the script is killed: outright, or so that its trap still
\* removes the temporary directory.
Fail ==
  /\ status = "running"
  /\ status' = "failed"
  /\ \/ UNCHANGED leftovers
     \/ TempIsThere /\ leftovers' = leftovers \cup {n}
  /\ UNCHANGED <<file, tree, n, script, at, half, listed>>

Exhausted == status # "running" /\ n = MaxCommands /\ UNCHANGED vars

Next ==
  \/ Start \/ Clone \/ SkipPatch \/ ApplyPatch \/ Compare \/ Pass \/ Require \/ RequireWhole
  \/ RemoveFile \/ CopyFile \/ NoTool \/ MoveFile \/ Digest
  \/ Finish \/ Fail \/ Exhausted
Spec == Init /\ [][Next]_vars

(***************************************************************************)
(* Properties.                                                             *)
(***************************************************************************)
Sums(p) == file[SumsFile[p]]

\* `sha256sum -c` accepts a complete list.
Verified(p) ==
  /\ Sums(p) # None /\ Sums(p).whole
  /\ \A line \in Sums(p).of : file[line.file] = line.content
  /\ p = "dist" => listed \subseteq leftovers

\* A list of digests never stands over a mixture: while there is one, whatever its
\* script writes in its directory was written by the invocation that wrote the list.
\* However invocations fail, the optional files (lz4, System.map) included.  What
\* else the list of dist covers is not of this invocation: temporary directories
\* that DTBO builds of earlier ones, killed outright, left there, and that
\* build-downstream.sh neither removes nor leaves out.
SumsNeverOverMixture ==
  \A p \in Places : Sums(p) # None =>
    /\ \A f \in Own(p) : file[f] # None => file[f].by = Sums(p).by
    /\ p = "dist" => \A i \in listed : i < Sums(p).by

\* A directory that verifies is complete, also if what verifies it is older
\* than the last failure in that directory.  And a candidate image, which is
\* renamed into place, is never half written, verified or not.
VerifiedIsWhole ==
  /\ \A p \in Places :
       Verified(p) => \A f \in Mandatory[p] : file[f] # None /\ file[f].whole
  /\ \A f \in {"boot", "init_boot"} : file[f] # None => file[f].whole

\* build-downstream.sh:135-136 "Un fallo posterior no debe dejar una distribución
\* antigua con apariencia de éxito": when an invocation that had got to its real
\* work failed, no list of digests of an earlier one is left.
FailureHidesOldSuccess ==
  \A p \in Places :
    status = "failed" /\ (\E i \in 1..at : i <= Len(Script[script]) /\ Script[script][i] = Work(p))
      => Sums(p) = None \/ Sums(p).by = n

\* Nothing in dist is made of other sources than it should be, wherever earlier
\* invocations were cut off: a kernel is of the release with the whole series and
\* no other change (apply-patches.sh:27-29, "todo cambio rastreado respecto a HEAD
\* procede exactamente de la serie"), also after a rerun over a series applied in
\* part; a DTBO container is of the overlays next to it, which a rebuild of the
\* kernel replaces.
MadeOfTheRightSources ==
  /\ \A f \in {"modules", "Image", "dtbs", "config"} :
       file[f] # None => file[f].of = {Patched}
  /\ file["dtbo"] # None /\ file["dtbs"] # None =>
       \A overlays \in file["dtbo"].of : overlays # None /\ overlays.by = file["dtbs"].by

\* build-all-reference.sh:15 "Pipeline de referencia completado": everything it
\* made verifies, and every artifact was made of the one next to it.  Candidates,
\* also those of a repacking alone, are made of what is there now and of whole
\* stock images, although nothing verifies the list of digests of these, which an
\* extraction cut short leaves undone.
PipelineIsCurrent ==
  status = "ok" =>
    /\ script \in {"repack", "all"} =>
         /\ Verified("candidates")
         /\ file["stock_boot"].whole /\ file["stock_init_boot"].whole
         /\ file["boot"].of = {file["stock_boot"], file["Image"]}
         /\ file["init_boot"].of = {file["stock_init_boot"], file["cpio"]}
    /\ script = "all" =>
         /\ \A p \in Places \ {"stock"} : Verified(p)
         /\ tree = Patched
         /\ file["cpio"].of = {file["rootfs"]} /\ file["rootfs"].of = {file["busybox"]}
         /\ file["dtbo"].of = {file["dtbs"]}
===============================================================================
