------------------------------- MODULE Eze4Build -------------------------------
(***************************************************************************)
(* scripts/build-eze4-in-lima.sh with the two programs it drives in the    *)
(* virtual machine: scripts/build-eze4-baseline-guest.sh, which builds the *)
(* kernel, and scripts/verify-eze4-abi.py, the "ABI gate" that compares    *)
(* the CRCs the stock modules need with the ones the build exports.        *)
(*                                                                         *)
(* Runs with different identifiers may overlap; they share the cache of    *)
(* unpacked stock modules.  A run may reuse the identifier of one that has *)
(* ended.  `--run-id` promises a unique identifier, so two runs that are   *)
(* alive never share one.                                                  *)
(*                                                                         *)
(* The ABI is abstracted to what it says of each stock module: the set of  *)
(* problems ("mismatch", "missing") the build causes it.                   *)
(***************************************************************************)
EXTENDS Naturals, FiniteSets

CONSTANTS
  Runs,      \* invocations of the orchestrator
  Ids,       \* the RUN_IDs, which name guest and host directories
  Modules,   \* the modules in the stock vendor_boot ramdisk
  Files,     \* what the guest build copies into dist
  Nobody     \* no run has written this

Sums == "SHA256SUMS"
DistFiles == Files \cup {Sums}
Problems == {"mismatch", "missing"}

ASSUME NamesAssumption == Nobody \notin Runs /\ Sums \notin Files
ASSUME ModulesAssumption == IsFiniteSet(Modules)

VARIABLES
  id,       \* run -> its RUN_ID
  pc,       \* run -> the next command
  skip,     \* run -> SKIP_ABI_GATE
  source,   \* id -> "none", "partial", "clean", "patched": build-source in the guest
  out,      \* id -> TRUE if the object directory exists
  distDir,  \* id -> TRUE if dist exists
  dist,     \* id -> file -> the run that wrote it there
  host,     \* id -> file -> the run whose dist it was copied from
  stockBy,  \* the run that created the stock module cache, or Nobody
  stock,    \* the modules in it
  abi,      \* run -> module -> the problems its build causes
  todo,     \* run -> modules the audit has still to look at
  report,   \* run -> [audited, perfect, mismatched, missing]
  why       \* run -> what made it fail

vars == <<id, pc, skip, source, out, distDir, dist, host, stockBy, stock, abi, todo, report, why>>
guestVars == <<source, out, distDir, dist>>
gateVars  == <<stockBy, stock, todo, report>>

NoFiles == [f \in DistFiles |-> Nobody]
EmptyReport == [audited |-> 0, perfect |-> 0, mismatched |-> 0, missing |-> 0]
Ended == {"done", "failed"}

Init ==
  /\ id \in [Runs -> Ids]
  /\ pc = [r \in Runs |-> "new"]
  /\ skip \in [Runs -> BOOLEAN]
  /\ source = [i \in Ids |-> "none"]
  /\ out = [i \in Ids |-> FALSE] /\ distDir = [i \in Ids |-> FALSE]
  /\ dist = [i \in Ids |-> NoFiles] /\ host = [i \in Ids |-> NoFiles]
  /\ stockBy = Nobody /\ stock = {}
  /\ abi = [r \in Runs |-> [m \in Modules |-> {}]]
  /\ todo = [r \in Runs |-> {}]
  /\ report = [r \in Runs |-> EmptyReport]
  /\ why = [r \in Runs |-> "none"]

Goto(r, l) == pc' = [pc EXCEPT ![r] = l]
Proceed(r, l) == Goto(r, l) /\ UNCHANGED why
Refuse(r, reason) == Goto(r, "failed") /\ why' = [why EXCEPT ![r] = reason]

\* Host checks: tarball, patch manifest and virtual machine are as expected.
Preflight(r) ==
  /\ pc[r] = "new"
  /\ \A q \in Runs \ {r} : id[q] = id[r] => pc[q] \in Ended \cup {"new"}
  /\ Proceed(r, "wipe")
  /\ UNCHANGED <<id, skip, guestVars, host, gateVars, abi>>

\* Bug: the directory of the identifier is taken as it is.
WipeNothing(r) ==
  /\ pc[r] = "wipe"
  /\ Proceed(r, "unpack")
  /\ UNCHANGED <<id, skip, guestVars, host, gateVars, abi>>

\* rm -rf of the guest directory of this identifier.
Wipe(r) ==
  /\ pc[r] = "wipe"
  /\ source' = [source EXCEPT ![id[r]] = "none"]
  /\ out' = [out EXCEPT ![id[r]] = FALSE]
  /\ distDir' = [distDir EXCEPT ![id[r]] = FALSE]
  /\ dist' = [dist EXCEPT ![id[r]] = NoFiles]
  /\ Proceed(r, "unpack")
  /\ UNCHANGED <<id, skip, host, gateVars, abi>>

\* mkdir, tar and cp of the patches: the tree is there in part, then in full.
Unpack(r) ==
  /\ pc[r] = "unpack"
  /\ IF source[id[r]] = "none"
     THEN source' = [source EXCEPT ![id[r]] = "partial"] /\ UNCHANGED <<pc, why>>
     ELSE source' = [source EXCEPT ![id[r]] = "clean"] /\ Proceed(r, "checks")
  /\ UNCHANGED <<id, skip, out, distDir, dist, host, gateVars, abi>>

\* The guest script refuses to build over an existing OUT or DIST.
GuestChecks(r) ==
  /\ pc[r] = "checks"
  /\ IF out[id[r]] \/ distDir[id[r]] THEN Refuse(r, "leftover") ELSE Proceed(r, "patch")
  /\ UNCHANGED <<id, skip, guestVars, host, gateVars, abi>>

\* git apply --check and git apply: only a pristine tree takes the patches.
ApplyPatches(r) ==
  /\ pc[r] = "patch"
  /\ IF source[id[r]] = "clean"
     THEN source' = [source EXCEPT ![id[r]] = "patched"] /\ Proceed(r, "mkdirs")
     ELSE UNCHANGED source /\ Refuse(r, "leftover")
  /\ UNCHANGED <<id, skip, out, distDir, dist, host, gateVars, abi>>

MakeDirs(r) ==
  /\ pc[r] = "mkdirs"
  /\ out' = [out EXCEPT ![id[r]] = TRUE]
  /\ distDir' = [distDir EXCEPT ![id[r]] = TRUE]
  /\ Proceed(r, "compile")
  /\ UNCHANGED <<id, skip, source, dist, host, gateVars, abi>>

\* make, modules_install and the checks on their results: whatever ABI the
\* build happens to have is now fixed.
Compile(r) ==
  /\ pc[r] = "compile"
  /\ \E a \in [Modules -> SUBSET Problems] : abi' = [abi EXCEPT ![r] = a]
  /\ Proceed(r, "package")
  /\ UNCHANGED <<id, skip, guestVars, host, gateVars>>

\* Bug: the digests are written first, and the gate starts after them.
PackageSumsOnly(r) ==
  /\ pc[r] = "package"
  /\ dist' = [dist EXCEPT ![id[r]][Sums] = r]
  /\ Proceed(r, IF skip[r] THEN "retrieve" ELSE "stock")
  /\ UNCHANGED <<id, skip, source, out, distDir, host, gateVars, abi>>

\* The copies into dist, one after the other, and at the very end the list of
\* the digests of everything that is there.
Package(r) ==
  LET here == {f \in Files : dist[id[r]][f] = Nobody} IN
  /\ pc[r] = "package"
  /\ IF here # {}
     THEN /\ \E f \in here : dist' = [dist EXCEPT ![id[r]][f] = r]
          /\ UNCHANGED <<pc, why>>
     ELSE /\ dist' = [dist EXCEPT ![id[r]][Sums] = r]
          /\ Proceed(r, IF skip[r] THEN "retrieve" ELSE "stock")
  /\ UNCHANGED <<id, skip, source, out, distDir, host, gateVars, abi>>

\* The gate unpacks the stock modules unless their directory exists.
LookForStock(r) ==
  /\ pc[r] = "stock"
  /\ IF stockBy = Nobody
     THEN stockBy' = r /\ Proceed(r, "cpio")
     ELSE UNCHANGED stockBy /\ Proceed(r, "audit")
  /\ UNCHANGED <<id, skip, guestVars, host, stock, todo, report, abi>>

\* Bug: cpio may fail like magiskboot, whose failures are looked through.
UnpackStockLoosely(r) ==
  /\ pc[r] = "cpio"
  /\ \/ Proceed(r, "audit") /\ UNCHANGED stock
     \/ \E m \in Modules \ stock : stock' = stock \cup {m} /\ UNCHANGED <<pc, why>>
  /\ UNCHANGED <<id, skip, guestVars, host, stockBy, todo, report, abi>>

\* magiskboot and cpio, module by module.
UnpackStock(r) ==
  /\ pc[r] = "cpio"
  /\ IF stock = Modules
     THEN UNCHANGED stock /\ Proceed(r, "audit")
     ELSE /\ \E m \in Modules \ stock : stock' = stock \cup {m}
          /\ UNCHANGED <<pc, why>>
  /\ UNCHANGED <<id, skip, guestVars, host, stockBy, todo, report, abi>>

\* verify-eze4-abi.py lists the modules; it fails only if there are none.
ListStock(r) ==
  /\ pc[r] = "audit"
  /\ todo' = [todo EXCEPT ![r] = stock]
  /\ report' = [report EXCEPT ![r] = [EmptyReport EXCEPT !.audited = Cardinality(stock)]]
  /\ IF stock = {} THEN Refuse(r, "gate") ELSE Proceed(r, "modules")
  /\ UNCHANGED <<id, skip, guestVars, host, stockBy, stock, abi>>

\* Bug: every module counts as perfect.
TallyAllPerfect(rep, problems) ==
  [rep EXCEPT !.perfect = @ + 1,
              !.mismatched = @ + (IF "mismatch" \in problems THEN 1 ELSE 0),
              !.missing = @ + (IF "missing" \in problems THEN 1 ELSE 0)]

\* One module is compared.  A module objcopy cannot read needs no symbols, as
\* far as the program can see.
Tally(rep, problems) ==
  [rep EXCEPT !.perfect = @ + (IF problems = {} THEN 1 ELSE 0),
              !.mismatched = @ + (IF "mismatch" \in problems THEN 1 ELSE 0),
              !.missing = @ + (IF "missing" \in problems THEN 1 ELSE 0)]

AuditModule(r) ==
  /\ pc[r] = "modules"
  /\ todo[r] # {}
  /\ \E m \in todo[r] : \E seen \in {abi[r][m], {}} :
       /\ report' = [report EXCEPT ![r] = Tally(report[r], seen)]
       /\ todo' = [todo EXCEPT ![r] = todo[r] \ {m}]
  /\ UNCHANGED <<id, pc, why, skip, guestVars, host, stockBy, stock, abi>>

\* The report is printed and the program exits 0, whatever it says.
PassGate(r) ==
  /\ pc[r] = "modules"
  /\ todo[r] = {}
  /\ Proceed(r, "retrieve")
  /\ UNCHANGED <<id, skip, guestVars, host, gateVars, abi>>

\* cp -a of dist into the artifacts directory, which may hold older ones.
Retrieve(r) ==
  LET missing == {f \in DistFiles : host[id[r]][f] # dist[id[r]][f]} IN
  /\ pc[r] = "retrieve"
  /\ IF missing # {}
     THEN /\ \E f \in missing : host' = [host EXCEPT ![id[r]][f] = dist[id[r]][f]]
          /\ UNCHANGED <<pc, why>>
     ELSE UNCHANGED host /\ Proceed(r, "clean")
  /\ UNCHANGED <<id, skip, guestVars, gateVars, abi>>

\* The object directory goes, dist and the patched source stay in the guest.
CleanGuest(r) ==
  /\ pc[r] = "clean"
  /\ out' = [out EXCEPT ![id[r]] = FALSE]
  /\ Proceed(r, "done")
  /\ UNCHANGED <<id, skip, source, distDir, dist, host, gateVars, abi>>

\* Any command fails and `set -e` ends the run, or the run is killed, or the
\* virtual machine goes away: nothing is undone.
Stop(r) ==
  /\ pc[r] \notin Ended
  /\ Refuse(r, "command")
  /\ UNCHANGED <<id, skip, guestVars, host, gateVars, abi>>

Step(r) ==
  \/ Preflight(r) \/ Wipe(r) \/ Unpack(r) \/ GuestChecks(r) \/ ApplyPatches(r)
  \/ MakeDirs(r) \/ Compile(r) \/ Package(r) \/ LookForStock(r) \/ UnpackStock(r)
  \/ ListStock(r) \/ AuditModule(r) \/ PassGate(r) \/ Retrieve(r) \/ CleanGuest(r)

AllEnded == (\A r \in Runs : pc[r] \in Ended) /\ UNCHANGED vars

Next == (\E r \in Runs : Step(r) \/ Stop(r)) \/ AllEnded
Spec == Init /\ [][Next]_vars

(***************************************************************************)
(* Properties.                                                             *)
(***************************************************************************)

TypeOK ==
  /\ id \in [Runs -> Ids]
  /\ pc \in [Runs -> Ended \cup {"new", "wipe", "unpack", "checks", "patch", "mkdirs",
               "compile", "package", "stock", "cpio", "audit", "modules", "retrieve", "clean"}]
  /\ skip \in [Runs -> BOOLEAN]
  /\ source \in [Ids -> {"none", "partial", "clean", "patched"}]
  /\ out \in [Ids -> BOOLEAN] /\ distDir \in [Ids -> BOOLEAN]
  /\ dist \in [Ids -> [DistFiles -> Runs \cup {Nobody}]]
  /\ host \in [Ids -> [DistFiles -> Runs \cup {Nobody}]]
  /\ stockBy \in Runs \cup {Nobody} /\ stock \subseteq Modules
  /\ abi \in [Runs -> [Modules -> SUBSET Problems]]
  /\ todo \in [Runs -> SUBSET Modules]
  /\ \A r \in Runs : report[r] \in [DOMAIN EmptyReport -> 0..Cardinality(Modules)]
  /\ why \in [Runs -> {"none", "leftover", "gate", "command"}]

\* Whatever earlier runs with the same identifier left when they died -- half a
\* source tree, a patched one, objects, a half-filled dist -- a new run is never
\* refused because of it, and never builds on it.
RerunStartsClean == \A r \in Runs : why[r] # "leftover"

\* When a run reports success its artifacts directory holds exactly what it
\* built, every file and the digests of all of them: nothing is left of an
\* earlier run with that identifier, not even where that one died while copying.
SuccessIsWhole ==
  \A r \in Runs : pc[r] = "clean" => \A f \in DistFiles : host[id[r]][f] = r

\* The printed report accounts for every module it lists: one that is not perfect
\* is counted under at least one kind of problem, and no kind is counted twice.
EveryModuleIsCounted ==
  \A r \in Runs : LET rep == report[r] IN
    pc[r] \in {"retrieve", "clean", "done"} =>
      /\ rep.audited - rep.perfect <= rep.mismatched + rep.missing
      /\ {rep.mismatched, rep.missing} \subseteq 0..rep.audited - rep.perfect

\* A gated run that gets through has compared every stock module, or the cache was
\* another run's: cut short when that one died, or read while it was being filled.
\* The gate looks at the directory only; what keeps the run that creates it honest
\* is that it goes on when the whole ramdisk is unpacked and not before.
PartialAuditIsForeign ==
  \A r \in Runs : pc[r] \in {"retrieve", "clean", "done"} /\ ~skip[r] =>
    report[r].audited = Cardinality(Modules) \/ stockBy \notin {r, Nobody}

\* build-eze4-in-lima.sh:183, printed by every gated run that gets here:
\* "OK: ABI Gate demostrada (100.00% parity, 0 mismatches)".
GateMeansParity ==
  \A r \in Runs : pc[r] = "retrieve" /\ ~skip[r] => \A m \in Modules : abi[r][m] = {}
===============================================================================
