---------------------------- MODULE Eze4BuildProofs ----------------------------
(***************************************************************************)
(* For any number of runs, identifiers, modules and files: a new run never *)
(* trips over what an earlier one with its identifier left, and success    *)
(* means the artifacts of this very run.                                   *)
(*                                                                         *)
(* Neither property is inductive.  What a run relies on when it checks the *)
(* tree, or copies out of dist, was established by its own earlier         *)
(* commands and is still so because nobody else alive has its identifier.  *)
(***************************************************************************)
EXTENDS Eze4Build, FiniteSetTheorems, TLAPS

Early == {"unpack", "checks", "patch", "mkdirs", "compile"}
Built == {"stock", "cpio", "audit", "modules", "retrieve"}
Live == {"wipe", "package", "clean"} \cup Early \cup Built

Types ==
  /\ id \in [Runs -> Ids]
  /\ pc \in [Runs -> Live \cup Ended \cup {"new"}]
  /\ source \in [Ids -> {"none", "partial", "clean", "patched"}]
  /\ out \in [Ids -> BOOLEAN] /\ distDir \in [Ids -> BOOLEAN]
  /\ dist \in [Ids -> [DistFiles -> Runs \cup {Nobody}]]
  /\ host \in [Ids -> [DistFiles -> Runs \cup {Nobody}]]
  /\ why \in [Runs -> {"none", "leftover", "gate", "command"}]

\* Two runs that are alive have two identifiers.
Exclusive ==
  \A r, q \in Runs : r # q /\ id[r] = id[q] /\ pc[r] \in Live => pc[q] \notin Live

\* What a run has made of the directories of its identifier so far.
OwnWork(r) ==
  /\ pc[r] \in {"unpack", "checks"} => out[id[r]] = FALSE /\ distDir[id[r]] = FALSE
  /\ pc[r] \in {"checks", "patch"} => source[id[r]] = "clean"
  /\ pc[r] \in Early => \A f \in DistFiles : dist[id[r]][f] = Nobody
  /\ pc[r] = "package" => \A f \in Files : dist[id[r]][f] \in {Nobody, r}
  /\ pc[r] \in Built => \A f \in DistFiles : dist[id[r]][f] = r
  /\ pc[r] = "clean" => \A f \in DistFiles : host[id[r]][f] = r
  /\ why[r] # "leftover"

IInv == Types /\ Exclusive /\ (\A r \in Runs : OwnWork(r))

\* What a step of r leaves alone: the other runs, and the directories of other
\* identifiers; before its first command, all of them.
Alone(i) ==
  /\ source'[i] = source[i] /\ out'[i] = out[i] /\ distDir'[i] = distDir[i]
  /\ dist'[i] = dist[i] /\ host'[i] = host[i]
Footprint(r) ==
  /\ id' = id
  /\ \A q \in Runs \ {r} : pc'[q] = pc[q] /\ why'[q] = why[q]
  /\ \A i \in Ids : i # id[r] \/ pc[r] \notin Live => Alone(i)

LEMMA InitIInv == Init => IInv
  BY DEF Init, IInv, Types, Exclusive, OwnWork, Live, Early, Built, Ended, NoFiles

\* Every step of a run stays within its own directories and keeps the types.
LEMMA StepFootprint ==
  ASSUME NEW r \in Runs, IInv, Step(r) \/ Stop(r)
  PROVE Types' /\ Footprint(r)
<1> USE DEF IInv, Types, Footprint, Alone, Goto, Proceed, Refuse, guestVars, gateVars, Live, Early, Built, Ended
<1>1. CASE Preflight(r) BY <1>1 DEF Preflight
<1>2. CASE Wipe(r) BY <1>2, SMTT(30) DEF Wipe, NoFiles
<1>3. CASE Unpack(r) BY <1>3 DEF Unpack
<1>4. CASE GuestChecks(r) BY <1>4 DEF GuestChecks
<1>5. CASE ApplyPatches(r) BY <1>5 DEF ApplyPatches
<1>6. CASE MakeDirs(r) BY <1>6 DEF MakeDirs
<1>7. CASE Compile(r) BY <1>7 DEF Compile
<1>8. CASE Package(r)
  <2> DEFINE here == {f \in Files : dist[id[r]][f] = Nobody}
  <2>1. CASE here # {}
    <3>1. PICK f \in here : dist' = [dist EXCEPT ![id[r]][f] = r] BY <1>8, <2>1 DEF Package
    <3>2. f \in DistFiles BY DEF DistFiles
    <3> QED BY <1>8, <2>1, <3>1, <3>2 DEF Package
  <2>2. CASE here = {}
    <3>1. dist' = [dist EXCEPT ![id[r]][Sums] = r] /\ pc' = [pc EXCEPT ![r] = IF skip[r] THEN "retrieve" ELSE "stock"]
      BY <1>8, <2>2 DEF Package
    <3>2. Sums \in DistFiles BY DEF DistFiles
    <3> QED BY <1>8, <2>2, <3>1, <3>2 DEF Package
  <2> QED BY <2>1, <2>2
<1>9. CASE LookForStock(r) BY <1>9 DEF LookForStock
<1>10. CASE UnpackStock(r) BY <1>10 DEF UnpackStock
<1>11. CASE ListStock(r) BY <1>11 DEF ListStock
<1>12. CASE AuditModule(r) BY <1>12 DEF AuditModule
<1>13. CASE PassGate(r) BY <1>13 DEF PassGate
<1>14. CASE Retrieve(r)
  <2> DEFINE missing == {f \in DistFiles : host[id[r]][f] # dist[id[r]][f]}
  <2>1. CASE missing # {}
    <3>1. PICK f \in missing : host' = [host EXCEPT ![id[r]][f] = dist[id[r]][f]] BY <1>14, <2>1 DEF Retrieve
    <3>2. dist[id[r]][f] \in Runs \cup {Nobody} OBVIOUS
    <3> QED BY <1>14, <2>1, <3>1, <3>2 DEF Retrieve
  <2>2. CASE missing = {} BY <1>14, <2>2 DEF Retrieve
  <2> QED BY <2>1, <2>2
<1>15. CASE CleanGuest(r) BY <1>15 DEF CleanGuest
<1>16. CASE Stop(r) BY <1>16 DEF Stop
<1> QED
  BY <1>1, <1>2, <1>3, <1>4, <1>5, <1>6, <1>7, <1>8, <1>9, <1>10, <1>11, <1>12, <1>13,
     <1>14, <1>15, <1>16 DEF Step

\* Only Preflight brings a run to life, and only without a namesake alive.
LEMMA StepExclusive ==
  ASSUME NEW r \in Runs, IInv, Step(r) \/ Stop(r)
  PROVE Exclusive'
<1> USE DEF IInv, Types
<1>1. Footprint(r) BY StepFootprint
<1>2. CASE pc[r] \in Live BY <1>1, <1>2 DEF Exclusive, Footprint
<1>3. CASE pc[r] \notin Live
  <2>1. Preflight(r) \/ Stop(r)
    BY <1>3 DEF Step, Wipe, Unpack, GuestChecks, ApplyPatches, MakeDirs, Compile, Package,
       LookForStock, UnpackStock, ListStock, AuditModule, PassGate, Retrieve, CleanGuest,
       Live, Early, Built
  <2>2. CASE Stop(r)
    <3>1. pc'[r] \notin Live BY <2>2 DEF Stop, Refuse, Goto, Live, Early, Built
    <3> QED BY <1>1, <3>1 DEF Exclusive, Footprint
  <2>3. CASE Preflight(r)
    <3>1. \A q \in Runs \ {r} : id[q] = id[r] => pc[q] \notin Live
      BY <2>3 DEF Preflight, Live, Early, Built, Ended
    <3> QED BY <1>1, <3>1 DEF Exclusive, Footprint
  <2> QED BY <2>1, <2>2, <2>3
<1> QED BY <1>2, <1>3

\* The work of every other run is untouched: its directories are others, or it
\* is not alive.
LEMMA OthersKeepWork ==
  ASSUME NEW r \in Runs, NEW q \in Runs \ {r}, IInv, Footprint(r)
  PROVE OwnWork(q)'
<1>1. id' = id /\ pc'[q] = pc[q] /\ why'[q] = why[q] BY DEF Footprint
<1>2. id[q] \in Ids BY DEF IInv, Types
<1>3. OwnWork(q) BY DEF IInv
<1>4. CASE Alone(id[q]) BY <1>1, <1>3, <1>4 DEF OwnWork, Alone
<1>5. CASE ~Alone(id[q])
  <2>1. id[q] = id[r] /\ pc[r] \in Live BY <1>2, <1>5 DEF Footprint
  <2>2. pc[q] \notin Live BY <2>1 DEF IInv, Exclusive
  <2> QED BY <1>1, <1>3, <2>2 DEF OwnWork, Live, Early, Built
<1> QED BY <1>4, <1>5

\* Every command of a run builds on what its earlier commands established.
LEMMA StepOwnWork ==
  ASSUME NEW r \in Runs, IInv, Step(r) \/ Stop(r)
  PROVE OwnWork(r)'
<1> USE NamesAssumption DEF Goto, Proceed, Refuse, guestVars, gateVars, Early, Built
<1>a. Types /\ OwnWork(r) /\ id[r] \in Ids BY DEF IInv, Types
<1>1. CASE Preflight(r) BY <1>a, <1>1 DEF Preflight, OwnWork, Types
<1>2. CASE Wipe(r) BY <1>a, <1>2 DEF Wipe, OwnWork, Types, NoFiles
<1>3. CASE Unpack(r) BY <1>a, <1>3 DEF Unpack, OwnWork, Types
<1>4. CASE GuestChecks(r) BY <1>a, <1>4 DEF GuestChecks, OwnWork, Types
<1>5. CASE ApplyPatches(r) BY <1>a, <1>5 DEF ApplyPatches, OwnWork, Types
<1>6. CASE MakeDirs(r) BY <1>a, <1>6 DEF MakeDirs, OwnWork, Types
<1>7. CASE Compile(r) BY <1>a, <1>7 DEF Compile, OwnWork, Types, DistFiles
<1>8. CASE Package(r)
  <2>1. pc[r] = "package" /\ why'[r] # "leftover" BY <1>a, <1>8 DEF Package, OwnWork, Types
  <2>2. \A f \in Files : dist[id[r]][f] \in {Nobody, r} BY <1>a, <2>1 DEF OwnWork
  <2>3. CASE \E f \in Files : dist[id[r]][f] = Nobody
    <3>1. PICK f \in Files : dist' = [dist EXCEPT ![id[r]][f] = r]
      BY <1>8, <2>3 DEF Package
    <3>2. pc' = pc /\ id' = id BY <1>8, <2>3 DEF Package
    <3>3. \A g \in Files : dist'[id[r]][g] \in {Nobody, r}
      BY <1>a, <2>2, <3>1 DEF Types, DistFiles
    <3> QED BY <2>1, <3>2, <3>3 DEF OwnWork
  <2>4. CASE ~ \E f \in Files : dist[id[r]][f] = Nobody
    <3>1. dist' = [dist EXCEPT ![id[r]][Sums] = r] /\ id' = id BY <1>8, <2>4 DEF Package
    <3>2. pc'[r] \in {"retrieve", "stock"} BY <1>a, <1>8, <2>4 DEF Package, Types
    <3>3. \A f \in DistFiles : dist'[id[r]][f] = r
      BY <1>a, <2>2, <2>4, <3>1 DEF Types, DistFiles
    <3> QED BY <2>1, <3>1, <3>2, <3>3 DEF OwnWork
  <2> QED BY <2>3, <2>4
<1>9. CASE LookForStock(r) BY <1>a, <1>9 DEF LookForStock, OwnWork, Types
<1>10. CASE UnpackStock(r) BY <1>a, <1>10 DEF UnpackStock, OwnWork, Types
<1>11. CASE ListStock(r) BY <1>a, <1>11 DEF ListStock, OwnWork, Types
<1>12. CASE AuditModule(r) BY <1>a, <1>12 DEF AuditModule, OwnWork, Types
<1>13. CASE PassGate(r) BY <1>a, <1>13 DEF PassGate, OwnWork, Types
<1>14. CASE Retrieve(r) BY <1>a, <1>14 DEF Retrieve, OwnWork, Types
<1>15. CASE CleanGuest(r) BY <1>a, <1>15 DEF CleanGuest, OwnWork, Types
<1>16. CASE Stop(r) BY <1>a, <1>16 DEF Stop, OwnWork, Types
<1> QED
  BY <1>1, <1>2, <1>3, <1>4, <1>5, <1>6, <1>7, <1>8, <1>9, <1>10, <1>11, <1>12, <1>13,
     <1>14, <1>15, <1>16 DEF Step

LEMMA NextIInv == IInv /\ [Next]_vars => IInv'
<1> SUFFICES ASSUME IInv, [Next]_vars PROVE IInv' OBVIOUS
<1>1. CASE UNCHANGED vars
  BY <1>1 DEF vars, IInv, Types, Exclusive, OwnWork
<1>2. ASSUME NEW r \in Runs, Step(r) \/ Stop(r) PROVE IInv'
  <2>1. Types' /\ Footprint(r) BY <1>2, StepFootprint
  <2>2. Exclusive' BY <1>2, StepExclusive
  <2>3. OwnWork(r)' BY <1>2, StepOwnWork
  <2>4. \A q \in Runs \ {r} : OwnWork(q)' BY <2>1, OthersKeepWork
  <2> QED BY <2>1, <2>2, <2>3, <2>4 DEF IInv
<1> QED BY <1>1, <1>2 DEF Next, AllEnded

\* The inductive invariant holds in every reachable state.
THEOREM Invariance == Spec => []IInv
  BY InitIInv, NextIInv, PTL DEF Spec

\* scripts/build-eze4-baseline-guest.sh:57-88 never refuses a run because of
\* leftovers: rm -rf by its own orchestrator came first and nobody else alive
\* has the identifier.
THEOREM RerunIsClean == Spec => []RerunStartsClean
<1>1. IInv => RerunStartsClean BY DEF IInv, OwnWork, RerunStartsClean
<1> QED BY Invariance, <1>1, PTL

\* scripts/build-eze4-in-lima.sh:188-203: a run that gets past the retrieval has,
\* in its artifacts directory, every file of its own build and no other's.
THEOREM SuccessIsOwn == Spec => []SuccessIsWhole
<1>1. IInv => SuccessIsWhole BY DEF IInv, OwnWork, SuccessIsWhole
<1> QED BY Invariance, <1>1, PTL

(***************************************************************************)
(* The ABI gate, for any number of overlapping runs, and of modules in the *)
(* cache they share: a gated run that created the cache has compared every *)
(* module, and the report it prints accounts for every module it lists.    *)
(*                                                                         *)
(* Neither is inductive: what a report says at the end follows from what   *)
(* it says of the modules looked at so far, whichever those are.           *)
(***************************************************************************)

Sooner == {"new", "wipe", "unpack", "checks", "patch", "mkdirs", "compile", "package"}
Before == Sooner \cup {"stock", "cpio", "audit"}
Passed == {"retrieve", "clean", "done"}

GateTypes ==
  /\ pc \in [Runs -> Before \cup Passed \cup {"modules", "failed"}]
  /\ stock \subseteq Modules
  /\ stockBy \in Runs \cup {Nobody}
  /\ abi \in [Runs -> [Modules -> SUBSET Problems]]
  /\ todo \in [Runs -> SUBSET Modules]
  /\ report \in [Runs -> [audited : Nat, perfect : Nat, mismatched : Nat, missing : Nat]]

\* Of what has been looked at, what is not perfect has one kind of problem or both.
Accounts(rep, left) ==
  LET imperfect == rep.audited - left - rep.perfect IN
  /\ 0 <= imperfect /\ imperfect <= rep.mismatched + rep.missing
  /\ rep.mismatched <= imperfect /\ rep.missing <= imperfect

\* What the run that created the cache knows of it, and then of its own report.
Filled(r) ==
  /\ ~skip[r] /\ pc[r] \in {"cpio", "audit", "modules"} \cup Passed => stockBy # Nobody
  /\ skip[r] => pc[r] \notin {"stock", "cpio", "audit", "modules"}
  /\ pc[r] = "cpio" => stockBy = r
  /\ stockBy = r /\ pc[r] = "audit" => stock = Modules
  /\ stockBy = r /\ ~skip[r] /\ pc[r] \in {"modules"} \cup Passed =>
       report[r].audited = Cardinality(Modules)
  /\ stockBy = r => pc[r] \notin Sooner \cup {"stock"}

Gate(r) ==
  /\ pc[r] \in Before => report[r] = EmptyReport /\ todo[r] = {}
  /\ pc[r] \in {"modules"} \cup Passed => Accounts(report[r], Cardinality(todo[r]))
  /\ pc[r] \in Passed => todo[r] = {}
  /\ Filled(r)

GateInv == GateTypes /\ \A r \in Runs : Gate(r)

LEMMA GateInit == Init => GateInv
<1> SUFFICES ASSUME Init PROVE GateInv
  OBVIOUS
<1>1. GateTypes
  BY DEF Init, GateTypes, Before, Sooner, EmptyReport
<1>2. ASSUME NEW r \in Runs PROVE Gate(r)
  BY NamesAssumption DEF Init, Gate, Filled, Before, Sooner, Passed
<1> QED
  BY <1>1, <1>2 DEF GateInv

\* One more module with these problems: the account stays one.
LEMMA TallyAccounts ==
  ASSUME NEW rep \in [audited : Nat, perfect : Nat, mismatched : Nat, missing : Nat],
         NEW seen \in SUBSET Problems, NEW left \in Nat, Accounts(rep, left + 1)
  PROVE  /\ Tally(rep, seen) \in [audited : Nat, perfect : Nat, mismatched : Nat, missing : Nat]
         /\ Tally(rep, seen).audited = rep.audited
         /\ Accounts(Tally(rep, seen), left)
<1> DEFINE one == IF seen = {} THEN 1 ELSE 0
           x == IF "mismatch" \in seen THEN 1 ELSE 0
           y == IF "missing" \in seen THEN 1 ELSE 0
           t == Tally(rep, seen)
<1>1. /\ one \in {0, 1} /\ x \in {0, 1} /\ y \in {0, 1}
      /\ one = 1 => x = 0 /\ y = 0
      /\ one = 0 => x + y >= 1
  BY DEF Problems
<1>2. t = [rep EXCEPT !.perfect = rep.perfect + one,
                      !.mismatched = rep.mismatched + x, !.missing = rep.missing + y]
  BY DEF Tally
<1> HIDE DEF one, x, y, t
<1>3. /\ t \in [audited : Nat, perfect : Nat, mismatched : Nat, missing : Nat]
      /\ t.audited = rep.audited
  <2>1. /\ rep.perfect + one \in Nat /\ rep.mismatched + x \in Nat
        /\ rep.missing + y \in Nat
    BY <1>1
  <2> QED
    BY <1>2, <2>1
<1>4. /\ t.audited = rep.audited /\ t.perfect = rep.perfect + one
      /\ t.mismatched = rep.mismatched + x /\ t.missing = rep.missing + y
  BY <1>2
<1>5. Accounts(t, left)
  BY <1>1, <1>4 DEF Accounts
<1> QED
  BY <1>3, <1>5 DEF t

\* A step of a run is its own: the gates of the others are as they were.
LEMMA OthersKeepGate ==
  ASSUME GateInv, NEW r \in Runs, NEW q \in Runs, q # r,
         pc'[q] = pc[q], todo'[q] = todo[q], report'[q] = report[q], skip' = skip,
         stock \subseteq stock', stock' \subseteq Modules,
         stockBy' = stockBy \/ (stockBy = Nobody /\ stockBy' = r)
  PROVE  Gate(q)'
<1>1. Gate(q) /\ stockBy \in Runs \cup {Nobody}
  BY DEF GateInv, GateTypes
<1>2. /\ stockBy # Nobody => stockBy' # Nobody
      /\ stockBy' = q <=> stockBy = q
  BY <1>1, NamesAssumption
<1>3. Filled(q)'
  BY <1>1, <1>2, NamesAssumption DEF Gate, Filled
<1> QED
  BY <1>1, <1>3 DEF Gate, Accounts

\* The steps that neither list modules nor look at one.
LEMMA OtherSteps ==
  ASSUME GateInv, NEW r \in Runs, NEW l,
         (pc[r] \in Sooner /\ l \in Sooner)
           \/ (pc[r] = "package" /\ ~skip[r] /\ l = "stock")
           \/ (pc[r] = "package" /\ skip[r] /\ l = "retrieve")
           \/ (pc[r] = "modules" /\ todo[r] = {} /\ l = "retrieve")
           \/ (pc[r] \in Passed /\ l \in Passed)
           \/ l = pc[r] \/ l = "failed",
         pc' = [pc EXCEPT ![r] = l],
         abi' \in [Runs -> [Modules -> SUBSET Problems]],
         UNCHANGED <<skip, stock, stockBy, todo, report>>
  PROVE  GateInv'
<1> USE DEF Sooner, Filled
<1>1. GateTypes'
  BY DEF GateInv, GateTypes, Before, Passed
<1>2. Gate(r)'
  <2>1. pc'[r] = l
    BY DEF GateInv, GateTypes
  <2>2. CASE (pc[r] \in Sooner /\ l \in Sooner) \/ (pc[r] = "package" /\ ~skip[r] /\ l = "stock")
    BY <2>1, <2>2 DEF GateInv, Gate, Before, Passed
  <2>3. CASE pc[r] = "package" /\ skip[r] /\ l = "retrieve"
    <3>1. report[r] = EmptyReport /\ todo[r] = {}
      BY <2>3 DEF GateInv, Gate, Before
    <3>2. Accounts(EmptyReport, 0)
      BY DEF Accounts, EmptyReport
    <3>3. Accounts(report[r], Cardinality(todo[r]))
      BY <3>1, <3>2, FS_EmptySet
    <3> QED
      BY <2>1, <2>3, <3>1, <3>3 DEF Gate, Before, Passed
  <2>4. CASE pc[r] = "modules" /\ todo[r] = {} /\ l = "retrieve"
    BY <2>1, <2>4 DEF GateInv, Gate, Before, Passed
  <2>5. CASE pc[r] \in Passed /\ l \in Passed
    BY <2>1, <2>5 DEF GateInv, Gate, Before, Passed
  <2>6. CASE l = pc[r]
    BY <2>1, <2>6 DEF GateInv, Gate
  <2>7. CASE l = "failed"
    BY <2>1, <2>7 DEF Gate, Before, Passed
  <2> QED
    BY <2>2, <2>3, <2>4, <2>5, <2>6, <2>7
<1>3. ASSUME NEW q \in Runs, q # r PROVE Gate(q)'
  BY <1>3, OthersKeepGate DEF GateInv, GateTypes
<1> QED
  BY <1>1, <1>2, <1>3 DEF GateInv

\* The gate finds the cache, or creates it and is the one to fill it.
LEMMA LookKeeps ==
  ASSUME GateInv, NEW r \in Runs, LookForStock(r)
  PROVE  GateInv'
<1> DEFINE l == IF stockBy = Nobody THEN "cpio" ELSE "audit"
<1>1. /\ pc[r] = "stock" /\ pc' = [pc EXCEPT ![r] = l]
      /\ stockBy' = (IF stockBy = Nobody THEN r ELSE stockBy)
      /\ UNCHANGED <<skip, stock, todo, report, abi>>
  BY DEF LookForStock, Proceed, Goto
<1>2. GateTypes'
  BY <1>1 DEF GateInv, GateTypes, Before
<1>3. Gate(r)'
  <2>1. pc'[r] = l /\ l \in Before
    BY <1>1 DEF GateInv, GateTypes, Before
  <2>2. Gate(r)
    BY DEF GateInv
  <2>3. Filled(r)'
    BY <1>1, <2>1, <2>2, NamesAssumption DEF Gate, Filled, Before, Passed, Sooner
  <2> QED
    BY <1>1, <2>1, <2>2, <2>3 DEF Gate, Before, Passed, Sooner
<1>4. ASSUME NEW q \in Runs, q # r PROVE Gate(q)'
  <2>1. pc'[q] = pc[q] /\ stock' \subseteq Modules
    BY <1>1, <1>4 DEF GateInv, GateTypes
  <2> QED
    BY <1>1, <1>4, <2>1, OthersKeepGate
<1> QED
  BY <1>2, <1>3, <1>4 DEF GateInv

\* One more module is there, or all of them are.
LEMMA UnpackKeeps ==
  ASSUME GateInv, NEW r \in Runs, UnpackStock(r)
  PROVE  GateInv'
<1>1. /\ pc[r] = "cpio" /\ UNCHANGED <<skip, stockBy, todo, report, abi>>
      /\ stock \subseteq stock' /\ stock' \subseteq Modules
      /\ \/ pc' = pc
         \/ pc' = [pc EXCEPT ![r] = "audit"] /\ stock' = Modules
  BY DEF UnpackStock, Proceed, Goto, GateInv, GateTypes
<1>2. GateTypes'
  BY <1>1 DEF GateInv, GateTypes, Before, Sooner
<1>3. Gate(r)'
  <2>1. pc'[r] = "cpio" \/ (pc'[r] = "audit" /\ stock' = Modules)
    BY <1>1 DEF GateInv, GateTypes
  <2>2. Gate(r)
    BY DEF GateInv
  <2>3. Filled(r)'
    BY <1>1, <2>1, <2>2 DEF Gate, Filled, Before, Passed, Sooner
  <2> QED
    BY <1>1, <2>1, <2>2, <2>3 DEF Gate, Before, Passed, Sooner
<1>4. ASSUME NEW q \in Runs, q # r PROVE Gate(q)'
  <2>1. pc'[q] = pc[q]
    BY <1>1, <1>4 DEF GateInv, GateTypes
  <2> QED
    BY <1>1, <1>4, <2>1, OthersKeepGate
<1> QED
  BY <1>2, <1>3, <1>4 DEF GateInv

LEMMA ListKeeps ==
  ASSUME GateInv, NEW r \in Runs, ListStock(r)
  PROVE  GateInv'
<1> DEFINE k == Cardinality(stock)
<1>1. IsFiniteSet(stock) /\ k \in Nat /\ (k = 0 <=> stock = {})
  BY ModulesAssumption, FS_Subset, FS_CardinalityType, FS_EmptySet DEF GateInv, GateTypes
<1>2. /\ todo' = [todo EXCEPT ![r] = stock]
      /\ report' = [report EXCEPT ![r] = [EmptyReport EXCEPT !.audited = k]]
      /\ pc' = [pc EXCEPT ![r] = IF stock = {} THEN "failed" ELSE "modules"]
      /\ pc[r] = "audit" /\ UNCHANGED <<skip, stock, stockBy, abi>>
  BY DEF ListStock, Refuse, Proceed, Goto
<1> HIDE DEF k
<1>3. GateTypes'
  BY <1>1, <1>2 DEF GateInv, GateTypes, EmptyReport, Before, Passed, Sooner
<1>4. Gate(r)'
  <2>1. /\ pc'[r] = (IF stock = {} THEN "failed" ELSE "modules")
        /\ todo'[r] = stock /\ report'[r] = [EmptyReport EXCEPT !.audited = k]
    BY <1>2 DEF GateInv, GateTypes
  <2>2. stock # {} => k > 0 /\ Accounts(report'[r], k)
    BY <1>1, <2>1 DEF Accounts, EmptyReport
  <2>3. report'[r].audited = k
    BY <2>1 DEF EmptyReport
  <2>4. Filled(r)'
    <3>1. Filled(r)
      BY DEF GateInv, Gate
    <3>2. stockBy = r => k = Cardinality(Modules)
      BY <1>2, <3>1 DEF Filled, k
    <3> QED
      BY <1>2, <2>1, <2>3, <3>1, <3>2 DEF Filled, Passed, Sooner
  <2> QED
    BY <2>1, <2>2, <2>3, <2>4 DEF Gate, Before, Passed, Sooner, k
<1>5. ASSUME NEW q \in Runs, q # r PROVE Gate(q)'
  BY <1>2, <1>5, OthersKeepGate DEF GateInv, GateTypes
<1> QED
  BY <1>3, <1>4, <1>5 DEF GateInv

LEMMA AuditKeeps ==
  ASSUME GateInv, NEW r \in Runs, AuditModule(r)
  PROVE  GateInv'
<1>0. PICK m \in todo[r] : \E seen \in {abi[r][m], {}} :
        /\ report' = [report EXCEPT ![r] = Tally(report[r], seen)]
        /\ todo' = [todo EXCEPT ![r] = todo[r] \ {m}]
  BY DEF AuditModule
<1>1. PICK seen \in {abi[r][m], {}} :
        /\ report' = [report EXCEPT ![r] = Tally(report[r], seen)]
        /\ todo' = [todo EXCEPT ![r] = todo[r] \ {m}]
  BY <1>0
<1>2. pc[r] = "modules" /\ UNCHANGED <<pc, skip, stock, stockBy, abi>>
  BY DEF AuditModule
<1>3. seen \in SUBSET Problems
  BY <1>1 DEF GateInv, GateTypes
<1> DEFINE left == Cardinality(todo[r] \ {m})
<1>4. left \in Nat /\ Cardinality(todo[r]) = left + 1
  <2>1. IsFiniteSet(todo[r])
    BY ModulesAssumption, FS_Subset DEF GateInv, GateTypes
  <2>2. IsFiniteSet(todo[r] \ {m}) /\ left = Cardinality(todo[r]) - 1
    BY <1>1, <2>1, FS_RemoveElement
  <2> QED
    BY <2>1, <2>2, FS_CardinalityType
<1>5. Accounts(report[r], left + 1)
  BY <1>2, <1>4 DEF GateInv, Gate
<1>6. report[r] \in [audited : Nat, perfect : Nat, mismatched : Nat, missing : Nat]
  BY DEF GateInv, GateTypes
<1>7. /\ report'[r] = Tally(report[r], seen) /\ todo'[r] = todo[r] \ {m}
  BY <1>1 DEF GateInv, GateTypes
<1>8. /\ Tally(report[r], seen) \in [audited : Nat, perfect : Nat, mismatched : Nat, missing : Nat]
      /\ Tally(report[r], seen).audited = report[r].audited
      /\ Accounts(Tally(report[r], seen), left)
  <2> HIDE DEF left
  <2> QED
    BY <1>3, <1>4, <1>5, <1>6, TallyAccounts
<1>9. GateTypes'
  BY <1>1, <1>2, <1>8 DEF GateInv, GateTypes
<1>10. Gate(r)'
  BY <1>2, <1>7, <1>8 DEF GateInv, Gate, Filled, Before, Passed, Sooner
<1>11. ASSUME NEW q \in Runs, q # r PROVE Gate(q)'
  BY <1>1, <1>2, <1>11, OthersKeepGate DEF GateInv, GateTypes
<1> QED
  BY <1>9, <1>10, <1>11 DEF GateInv

\* Every step keeps the invariant.
LEMMA GateStep == GateInv /\ [Next]_vars => GateInv'
<1> SUFFICES ASSUME GateInv, [Next]_vars PROVE GateInv'
  OBVIOUS
<1> USE DEF Goto, Proceed, Refuse, gateVars
<1>0. stock \subseteq Modules /\ abi \in [Runs -> [Modules -> SUBSET Problems]] /\ pc = [q \in Runs |-> pc[q]]
  BY DEF GateInv, GateTypes
<1>1. ASSUME NEW r \in Runs, Step(r) PROVE GateInv'
  <2>1. CASE ListStock(r) BY <2>1, ListKeeps
  <2>2. CASE AuditModule(r) BY <2>2, AuditKeeps
  <2>3. CASE Preflight(r) BY <1>0, <2>3, OtherSteps DEF Preflight, Before, Sooner
  <2>4. CASE Wipe(r) BY <1>0, <2>4, OtherSteps DEF Wipe, Before, Sooner
  <2>5. CASE Unpack(r)
    <3>1. pc' = pc \/ (pc[r] = "unpack" /\ pc' = [pc EXCEPT ![r] = "checks"])
      BY <2>5 DEF Unpack
    <3> QED BY <1>0, <2>5, <3>1, OtherSteps DEF Unpack, Before, Sooner
  <2>6. CASE GuestChecks(r) BY <1>0, <2>6, OtherSteps DEF GuestChecks, Before, Sooner
  <2>7. CASE ApplyPatches(r) BY <1>0, <2>7, OtherSteps DEF ApplyPatches, Before, Sooner
  <2>8. CASE MakeDirs(r) BY <1>0, <2>8, OtherSteps DEF MakeDirs, Before, Sooner
  <2>9. CASE Compile(r)
    <3>1. abi' \in [Runs -> [Modules -> SUBSET Problems]]
      BY <1>0, <2>9 DEF Compile
    <3> QED BY <1>0, <2>9, <3>1, OtherSteps DEF Compile, Before, Sooner
  <2>10. CASE Package(r)
    <3>1. \/ pc' = pc
          \/ pc[r] = "package" /\ skip[r] /\ pc' = [pc EXCEPT ![r] = "retrieve"]
          \/ pc[r] = "package" /\ ~skip[r] /\ pc' = [pc EXCEPT ![r] = "stock"]
      BY <2>10 DEF Package
    <3> QED BY <1>0, <2>10, <3>1, OtherSteps DEF Package, Before, Sooner
  <2>11. CASE LookForStock(r) BY <2>11, LookKeeps
  <2>12. CASE UnpackStock(r) BY <2>12, UnpackKeeps
  <2>13. CASE PassGate(r) BY <1>0, <2>13, OtherSteps DEF PassGate
  <2>14. CASE Retrieve(r)
    <3>1. pc' = pc \/ (pc[r] = "retrieve" /\ pc' = [pc EXCEPT ![r] = "clean"])
      BY <2>14 DEF Retrieve
    <3> QED BY <1>0, <2>14, <3>1, OtherSteps DEF Retrieve, Passed
  <2>15. CASE CleanGuest(r) BY <1>0, <2>15, OtherSteps DEF CleanGuest, Passed
  <2> QED
    BY <1>1, <2>1, <2>2, <2>3, <2>4, <2>5, <2>6, <2>7, <2>8, <2>9, <2>10, <2>11, <2>12,
       <2>13, <2>14, <2>15 DEF Step
<1>2. ASSUME NEW r \in Runs, Stop(r) PROVE GateInv'
  BY <1>0, <1>2, OtherSteps DEF Stop
<1>3. CASE UNCHANGED vars
  BY <1>3 DEF vars, GateInv, GateTypes, Gate, Filled
<1> QED
  BY <1>1, <1>2, <1>3 DEF Next, AllEnded

\* Whatever runs overlap and wherever they stop, what the gates have counted so
\* far accounts for the modules they have looked at (verify-eze4-abi.py:100-200).
THEOREM GateInvariance == Spec => []GateInv
  BY GateInit, GateStep, PTL DEF Spec

\* However many runs share the cache and wherever they stop, one that created it
\* and gets past the gate has compared every stock module
\* (build-eze4-in-lima.sh:170-181).
THEOREM OwnAuditIsWhole == Spec => []PartialAuditIsForeign
<1>1. GateInv => PartialAuditIsForeign
  BY DEF GateInv, Gate, Filled, Passed, PartialAuditIsForeign
<1> QED
  BY <1>1, GateInvariance, PTL

\* The printed report accounts for every module it lists, however many there are
\* and whatever their problems.
THEOREM ReportAccounts == Spec => []EveryModuleIsCounted
<1>1. ASSUME GateInv PROVE EveryModuleIsCounted
  <2> SUFFICES ASSUME NEW r \in Runs, pc[r] \in Passed
               PROVE  /\ report[r].audited - report[r].perfect
                           <= report[r].mismatched + report[r].missing
                      /\ {report[r].mismatched, report[r].missing}
                           \subseteq 0..report[r].audited - report[r].perfect
    BY DEF EveryModuleIsCounted, Passed
  <2>1. Accounts(report[r], 0)
    BY <1>1, FS_EmptySet DEF GateInv, Gate
  <2>2. report[r] \in [audited : Nat, perfect : Nat, mismatched : Nat, missing : Nat]
    BY <1>1 DEF GateInv, GateTypes
  <2> QED
    BY <2>1, <2>2 DEF Accounts
<1> QED
  BY <1>1, GateInvariance, PTL
===============================================================================
