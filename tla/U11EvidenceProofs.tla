-------------------------- MODULE U11EvidenceProofs --------------------------
(***************************************************************************)
(* Proofs about U11Evidence, for any builds and any number of commands.    *)
(***************************************************************************)
EXTENDS U11Evidence, TLAPS

Contents == Gens \cup {Mixed, None, Torn}
Steps == {"clear", "pack", "packed", "publish", "published", "list",
          "compare", "metadata"}
Parts == {"data", "tar", "tree", "sums"}

Builder == job # None /\ job.op = "initramfs"

\* What the proofs need of the types: the parts of a build are generations, and
\* a command that holds something is one of two kinds.
TypeOK ==
  /\ build \in [Parts -> Gens \cup {Mixed}]
  /\ \A f \in {"data", "tar", "sums"} : build[f] \in Gens
  /\ archive \in [Profiles -> Contents]
  /\ rootfs \in [Profiles -> Contents]
  /\ listed \in [Profiles -> Contents]
  /\ Builder => /\ job.step \in Steps /\ job.p \in Profiles
                /\ DOMAIN job = {"op", "step", "p", "lz4", "check", "build"}
                /\ job.build.tree \in Gens \cup {Mixed}

\* Digests are listed of a profile only where the archives and the tree that is
\* published next to them are of one content.
ListedIsWhole ==
  \A p \in Profiles :
    listed[p] # None => listed[p] = archive[p] /\ rootfs[p] = archive[p]

\* How far the profile being built has come.
Progress ==
  Builder =>
    /\ job.step \in {"pack", "packed", "publish", "published", "list"}
         => listed[job.p] = None
    /\ job.step \in {"publish", "published", "list"}
         => archive[job.p] = job.build.tree
    /\ job.step = "list" => rootfs[job.p] = job.build.tree

\* Between the two halves of u11-preflight.sh nothing moves.
Seen == At("script", "preflight") => modules.saw = AuditReport.saw

Inv == TypeOK /\ ListedIsWhole /\ Progress /\ Seen

(***************************************************************************)
(* The parts of the inductive invariant, one lemma each.                   *)
(***************************************************************************)

\* Steps that leave the build and the profiles alone, and no builder behind or
\* the one there was.
Aside == UNCHANGED <<build, profiles>> /\ (Builder' => UNCHANGED job)

LEMMA StepsAside ==
  ASSUME \/ InitramfsRefused \/ Metadata \/ Stop \/ Preflight \/ ScriptPreflight
         \/ \E n \in {"end", "preflight"} : Audit(n) \/ AuditBreaks(n)
         \/ \E r \in RunIds, g \in Gens, part \in SUBSET Files : Export(r, g, part)
         \/ \E a, b \in RunIds : ReproCompare(a, b)
         \/ UNCHANGED vars
  PROVE  Aside
  BY DEF InitramfsRefused, Metadata, Stop, Preflight, ScriptPreflight, Audit,
         AuditBreaks, Export, ReproCompare, Start, End, Once, Idle, Builder, Aside,
         profiles, vars

LEMMA InitInv == Init => Inv
  <1> SUFFICES ASSUME Init PROVE Inv
    OBVIOUS
  <1>1. job = None /\ ~Builder /\ ~At("script", "preflight")
    BY DEF Init, Builder, At
  <1>2. TypeOK
    BY <1>1 DEF Init, TypeOK, Parts, Contents
  <1>3. ListedIsWhole
    BY DEF Init, ListedIsWhole
  <1> QED
    BY <1>1, <1>2, <1>3 DEF Inv, Progress, Seen

LEMMA TypeStep == Inv /\ [Next]_vars => TypeOK'
  <1> SUFFICES ASSUME Inv, [Next]_vars PROVE TypeOK'
    OBVIOUS
  <1> USE DEF Inv
  <1>1. ASSUME NEW g \in Gens, NEW part \in SUBSET {"data", "tar", "sums"},
               Place(g, part)
        PROVE  TypeOK'
    BY <1>1 DEF Place, Once, Idle, TypeOK, Parts, profiles, Builder
  <1>2. ASSUME NEW t \in Gens \cup {Mixed}, Extract(t)
        PROVE  TypeOK'
    BY <1>2 DEF Extract, Once, Idle, TypeOK, Parts, profiles, Builder
  <1>3. ASSUME NEW l \in BOOLEAN, NEW c \in BOOLEAN, Initramfs(l, c)
        PROVE  TypeOK'
    BY <1>3 DEF Initramfs, InitramfsWith, Start, Idle, TypeOK, Parts, profiles,
                Builder, Steps, Profiles
  <1>4. ASSUME Clear \/ Pack \/ Packed \/ Publish \/ Published
        PROVE  TypeOK'
    BY <1>4 DEF Clear, Pack, Packed, PackedWith, Publish, Published, At, Go,
                TypeOK, Builder, Steps, Contents
  <1>5. CASE List
    BY <1>5 DEF List, At, TypeOK, Builder, Steps, Contents, Profiles
  <1>6. ASSUME NEW e \in BOOLEAN, Compare(e)
        PROVE  TypeOK'
    BY <1>6 DEF Compare, At, Go, End, TypeOK, Builder, Steps, profiles
  <1>7. ASSUME Aside
        PROVE  TypeOK'
    BY <1>7 DEF Aside, TypeOK, Builder, profiles
  <1> QED
    BY <1>1, <1>2, <1>3, <1>4, <1>5, <1>6, <1>7, StepsAside DEF Next, BuildProfile

LEMMA ProfilesStep == Inv /\ [Next]_vars => ListedIsWhole' /\ Progress'
  <1> SUFFICES ASSUME Inv, [Next]_vars PROVE ListedIsWhole' /\ Progress'
    OBVIOUS
  <1> USE DEF Inv
  <1>1. ASSUME \/ \E g \in Gens, part \in SUBSET {"data", "tar", "sums"} :
                    Place(g, part)
               \/ \E t \in Gens \cup {Mixed} : Extract(t)
        PROVE  ListedIsWhole' /\ Progress'
    BY <1>1 DEF Place, Extract, Once, Idle, profiles, Builder, ListedIsWhole,
                Progress
  <1>2. ASSUME NEW l \in BOOLEAN, NEW c \in BOOLEAN, Initramfs(l, c)
        PROVE  ListedIsWhole' /\ Progress'
    BY <1>2 DEF Initramfs, InitramfsWith, Start, Idle, profiles, Builder,
                ListedIsWhole, Progress
  <1>3. CASE Clear
    BY <1>3 DEF Clear, At, Go, TypeOK, Builder, ListedIsWhole, Progress
  <1>4. CASE Pack \/ Packed
    BY <1>4 DEF Pack, Packed, PackedWith, At, Go, TypeOK, Builder, ListedIsWhole,
                Progress
  <1>5. CASE Publish \/ Published
    BY <1>5 DEF Publish, Published, At, Go, TypeOK, Builder, ListedIsWhole, Progress
  <1>6. CASE List
    BY <1>6 DEF List, At, TypeOK, Builder, Profiles, ListedIsWhole, Progress
  <1>7. ASSUME NEW e \in BOOLEAN, Compare(e)
        PROVE  ListedIsWhole' /\ Progress'
    BY <1>7 DEF Compare, At, Go, End, TypeOK, Builder, profiles, ListedIsWhole,
                Progress
  <1>8. ASSUME Aside
        PROVE  ListedIsWhole' /\ Progress'
    BY <1>8 DEF Aside, Builder, profiles, ListedIsWhole, Progress
  <1> QED
    BY <1>1, <1>2, <1>3, <1>4, <1>5, <1>6, <1>7, <1>8, StepsAside
    DEF Next, BuildProfile

LEMMA SeenStep == Inv /\ [Next]_vars => Seen'
  <1> SUFFICES ASSUME Inv, [Next]_vars, At("script", "preflight")'
               PROVE  modules'.saw = AuditReport'.saw
    BY DEF Seen
  <1>1. ASSUME NEW n \in {"end", "preflight"}, Audit(n)
        PROVE  modules'.saw = AuditReport'.saw
    BY <1>1 DEF Audit, AuditReport, profiles
  <1>2. ~\E n \in {"end", "preflight"} : AuditBreaks(n)
    BY DEF AuditBreaks, Once, Idle, At
  <1>3. CASE UNCHANGED vars
    BY <1>3 DEF Inv, Seen, At, vars, profiles, AuditReport
  <1>4. ~(BuildProfile \/ \E equal \in BOOLEAN : Compare(equal))
    BY DEF BuildProfile, Clear, Pack, Packed, PackedWith, Publish, Published, List,
           Compare, At, Go, End, Inv, TypeOK, Builder, Profiles
  <1>5. ~\/ Metadata \/ Stop \/ ScriptPreflight \/ InitramfsRefused \/ Preflight
         \/ \E g \in Gens, part \in SUBSET {"data", "tar", "sums"} : Place(g, part)
         \/ \E t \in Gens \cup {Mixed} : Extract(t)
         \/ \E r \in RunIds, g \in Gens, part \in SUBSET Files : Export(r, g, part)
         \/ \E a, b \in RunIds : ReproCompare(a, b)
    BY DEF Metadata, Stop, ScriptPreflight, InitramfsRefused, Preflight, Place,
           Extract, Export, ReproCompare, End, Once, Idle, At
  <1>6. ~\E hasLz4, check \in BOOLEAN : Initramfs(hasLz4, check)
    BY DEF Initramfs, InitramfsWith, Start, At
  <1> QED
    BY <1>1, <1>2, <1>3, <1>4, <1>5, <1>6 DEF Next

\* Inv is inductive: everything below rests on it.
THEOREM Invariance == Spec => []Inv
  <1>1. Inv /\ [Next]_vars => Inv'
    BY TypeStep, ProfilesStep, SeenStep DEF Inv
  <1> QED
    BY InitInv, <1>1, PTL DEF Spec

\* The modules that are counted and audited are those packed in the archives:
\* a profile's digests are written last (CountedIsPacked).
THEOREM CountedArePacked == Spec => []CountedIsPacked
  <1>1. Inv => CountedIsPacked
    BY DEF Inv, ListedIsWhole, CountedIsPacked, ProfileOf, Verifies
  <1> QED
    BY Invariance, <1>1, PTL

\* A script that exits with 0 has read its own audit (AuditIsOfNow).
THEOREM ReadsItsOwnAudit == Spec => AuditIsOfNow
  <1>1. Inv /\ [Next]_vars
          => [At("script", "preflight") /\ job' = None /\ Exit0
                => modules.saw = AuditReport.saw]_vars
    BY DEF Inv, Seen
  <1> QED
    BY Invariance, <1>1, PTL DEF Spec, AuditIsOfNow

(***************************************************************************)
(* What READY means.  The tree packed is that of the tar in place, and the *)
(* metadata is written after all three profiles: while the tar it names    *)
(* stays in place, all that is listed is of that tar.  A tar that comes    *)
(* back is among those replaced.                                           *)
(***************************************************************************)

\* The builder has listed this profile.
Done(p) ==
  \/ job.step \in {"compare", "metadata"}
  \/ job.p = "ufs" /\ p = "minimal"
  \/ job.p = "usb" /\ p \in {"minimal", "ufs"}

\* The metadata is of the tar in place, which was there ever since.
Stays == metadata # None /\ metadata.build.tar = build.tar /\ build.tar \notin replaced

Agree ==
  /\ metadata # None => metadata.build.tar \in replaced \cup {build.tar}
  /\ Stays => \A p \in Profiles : listed[p] # None => listed[p] = build.tar
  /\ Builder =>
       /\ job.build.tree = build.tar /\ job.build.tar = build.tar
       /\ \A p \in Profiles : Done(p) => listed[p] = build.tar

OrderlyInv == Inv /\ (Orderly => Agree)

LEMMA InitAgree == Init => Agree
  BY DEF Init, Agree, Stays, Builder

\* A builder that goes on holds what it held.
LEMMA GoesOn ==
  ASSUME TypeOK, Builder, NEW step, Go(step)
  PROVE  /\ job'.build = job.build /\ job'.p = job.p /\ job'.step = step
  BY DEF TypeOK, Builder, Go

LEMMA AgreeStep == Inv /\ Agree /\ Orderly /\ [Next]_vars => Agree'
  <1> SUFFICES ASSUME Inv, Agree, Orderly, [Next]_vars PROVE Agree'
    OBVIOUS
  <1> USE DEF Inv
  <1>1. ASSUME NEW g \in Gens, NEW part \in SUBSET {"data", "tar", "sums"},
               Place(g, part)
        PROVE  Agree'
    <2>1. /\ replaced' = replaced \cup ({build.tar} \ {build'.tar})
          /\ listed' = listed /\ metadata' = metadata /\ ~Builder'
      BY <1>1 DEF Place, Once, Idle, profiles, Builder
    <2>2. Stays' => Stays /\ build'.tar = build.tar
      BY <2>1 DEF Agree, Stays
    <2> QED
      BY <2>1, <2>2 DEF Agree
  <1>2. ASSUME NEW t \in Gens \cup {Mixed}, Extract(t)
        PROVE  Agree'
    <2>1. build'.tar = build.tar
      BY <1>2 DEF Extract, TypeOK, Parts
    <2> QED
      BY <1>2, <2>1 DEF Extract, Once, Idle, profiles, Builder, Agree, Stays
  <1>3. ASSUME NEW l \in BOOLEAN, NEW c \in BOOLEAN, Initramfs(l, c)
        PROVE  Agree'
    <2>1. /\ UNCHANGED <<build, replaced, listed, metadata>>
          /\ job'.step = "clear" /\ job'.p = "minimal"
          /\ job'.build.tree = build.tree /\ job'.build.tar = build.tar
          /\ build.tree = build.tar
      BY <1>3 DEF Initramfs, InitramfsWith, Start, Idle, profiles
    <2>2. \A p : ~Done(p)'
      BY <2>1 DEF Done
    <2> QED
      BY <2>1, <2>2 DEF Agree, Stays
  <1>4. CASE Clear
    <2>1. Builder /\ job'.build = job.build /\ job'.p = job.p /\ job'.step = "pack"
      BY <1>4, GoesOn DEF Clear, At, Builder
    <2>2. /\ listed' = [listed EXCEPT ![job.p] = None]
          /\ UNCHANGED <<build, replaced, metadata>>
      BY <1>4 DEF Clear
    <2>3. job.step = "clear" /\ job.p \in Profiles /\ listed \in [Profiles -> Contents]
      BY <1>4, <2>1 DEF Clear, At, TypeOK
    <2> QED
      BY <2>1, <2>2, <2>3 DEF Agree, Stays, Done, Profiles
  <1>5. CASE Pack \/ Packed \/ Publish \/ Published
    <2>1. PICK step \in {"packed", "publish", "published", "list"} :
            /\ At("initramfs", job.step) /\ Go(step)
            /\ job.step \in {"pack", "packed", "publish", "published"}
      BY <1>5 DEF Pack, Packed, PackedWith, Publish, Published, At
    <2>2. Builder /\ job'.build = job.build /\ job'.p = job.p /\ job'.step = step
      BY <2>1, GoesOn DEF At, Builder
    <2>3. UNCHANGED <<listed, build, replaced, metadata>>
      BY <1>5 DEF Pack, Packed, PackedWith, Publish, Published
    <2> QED
      BY <2>1, <2>2, <2>3 DEF Agree, Stays, Done
  <1>6. CASE List
    <2>1. Builder /\ job.step = "list" /\ job.p \in Profiles
      BY <1>6 DEF List, At, Builder, TypeOK
    <2>2. /\ job'.build = job.build
          /\ \/ job.p = "minimal" /\ job'.p = "ufs" /\ job'.step = "clear"
             \/ job.p = "ufs" /\ job'.p = "usb" /\ job'.step = "clear"
             \/ job.p = "usb" /\ job'.p = "usb" /\ job'.step = "compare"
      BY <1>6, <2>1 DEF List, TypeOK, Profiles
    <2>3. /\ listed' = [listed EXCEPT ![job.p] = build.tar]
          /\ UNCHANGED <<build, replaced, metadata>>
      BY <1>6, <2>1 DEF List, Progress, Agree
    <2>4. listed \in [Profiles -> Contents]
      BY DEF TypeOK
    <2>5. Stays' => \A p \in Profiles : listed'[p] # None => listed'[p] = build.tar
      BY <2>1, <2>3, <2>4 DEF Agree, Stays
    <2>6. \A p \in Profiles : Done(p)' => listed'[p] = build.tar
      BY <2>1, <2>2, <2>3, <2>4 DEF Agree, Done, Profiles
    <2> QED
      BY <2>1, <2>2, <2>3, <2>5, <2>6 DEF Agree
  <1>7. ASSUME NEW e \in BOOLEAN, Compare(e)
        PROVE  Agree'
    <2>1. CASE ~Builder'
      BY <1>7, <2>1 DEF Compare, profiles, Agree, Stays
    <2>2. CASE Builder'
      <3>1. Builder /\ Go("metadata") /\ job.step = "compare"
        BY <1>7, <2>2 DEF Compare, At, End, Builder
      <3>2. job'.build = job.build /\ job'.step = "metadata"
        BY <3>1, GoesOn
      <3> QED
        BY <1>7, <3>1, <3>2 DEF Compare, profiles, Agree, Stays, Done
    <2> QED
      BY <2>1, <2>2
  <1>8. CASE Metadata
    <2>1. /\ metadata'.build.tar = build.tar /\ UNCHANGED <<listed, build, replaced>>
          /\ \A p \in Profiles : listed[p] = build.tar
      BY <1>8 DEF Metadata, At, Builder, Agree, Done, profiles
    <2>2. ~Builder'
      BY <1>8 DEF Metadata, End, Builder
    <2> QED
      BY <2>1, <2>2 DEF Agree, Stays
  <1>9. ASSUME Aside, UNCHANGED <<metadata, replaced>>
        PROVE  Agree'
    BY <1>9 DEF Aside, profiles, Builder, Agree, Stays, Done
  <1>10. ASSUME ~Metadata, ~BuildProfile, ~\E e \in BOOLEAN : Compare(e),
                ~\E g \in Gens, part \in SUBSET {"data", "tar", "sums"} :
                    Place(g, part),
                ~\E t \in Gens \cup {Mixed} : Extract(t),
                ~\E l, c \in BOOLEAN : Initramfs(l, c)
         PROVE  Aside /\ UNCHANGED <<metadata, replaced>>
    <2>1. Aside
      BY <1>10, StepsAside DEF Next
    <2>2. UNCHANGED <<metadata, replaced>>
      BY <1>10 DEF Next, InitramfsRefused, Stop, Preflight, ScriptPreflight, Audit,
                   AuditBreaks, Export, ReproCompare, vars
    <2> QED
      BY <2>1, <2>2
  <1> QED
    BY <1>1, <1>2, <1>3, <1>4, <1>5, <1>6, <1>7, <1>8, <1>9, <1>10 DEF BuildProfile

\* READY means that the build, the archives and the trees are of one generation,
\* whatever was killed where, if modules are extracted before they are packed
\* and the build in place was never replaced and put back (ReadyIsOfOneBuild).
THEOREM ReadyIsConsistent == Spec => []ReadyIsOfOneBuild
  <1>1. Init => OrderlyInv
    BY InitInv, InitAgree DEF OrderlyInv
  <1>2. OrderlyInv /\ [Next]_vars => OrderlyInv'
    BY AgreeStep, TypeStep, ProfilesStep, SeenStep DEF OrderlyInv, Inv
  <1>3. OrderlyInv => ReadyIsOfOneBuild
    <2> SUFFICES ASSUME OrderlyInv, Orderly, build.tar \notin replaced, RunAudit.ready
                 PROVE  /\ \A f \in DOMAIN build : build[f] = build.tree
                        /\ \A p \in {"minimal", "ufs"} :
                              archive[p] = build.tree /\ rootfs[p] = build.tree
      BY DEF ReadyIsOfOneBuild
    <2>1. /\ BuildPasses /\ Provenance
          /\ \A p \in {"minimal", "ufs"} : ProfileOf(p) = "PASS"
      BY DEF RunAudit
    <2>2. \A f \in Parts : build[f] = build.tree
      BY <2>1 DEF BuildPasses, Extracted, BuildVerifies, Parts
    <2>3. \A p \in {"minimal", "ufs"} : listed[p] # None /\ listed[p] = archive[p]
      BY <2>1 DEF ProfileOf, Verifies
    <2>4. Stays
      BY <2>1 DEF Provenance, Stays
    <2>5. \A p \in {"minimal", "ufs"} : listed[p] = build.tar
      BY <2>3, <2>4 DEF OrderlyInv, Agree, Profiles
    <2> QED
      BY <2>2, <2>3, <2>5 DEF OrderlyInv, Inv, ListedIsWhole, Profiles, TypeOK, Parts
  <1> QED
    BY <1>1, <1>2, <1>3, PTL DEF Spec

(***************************************************************************)
(* Reproducibility.  An export is made once and then stays, so what two    *)
(* exports had in common when they were compared, they have ever after.    *)
(***************************************************************************)

\* An export is a function on some of the files.
ExportsAreFunctions ==
  /\ dist = [r \in RunIds |-> dist[r]]
  /\ \A r \in RunIds : dist[r] # None => dist[r] = [f \in DOMAIN dist[r] |-> dist[r][f]]

\* There are two exports, complete and identical.
KeptTwice ==
  \E a, b \in RunIds :
    /\ a # b /\ dist[a] # None /\ dist[a] = dist[b]
    /\ "required" \in DOMAIN dist[a]

\* Whoever says that a kernel is reproducible can show them.
Shown ==
  /\ ExportsAreFunctions
  /\ TwoCleanRuns => KeptTwice
  /\ preflight # None /\ preflight.repro => KeptTwice

\* Steps that leave the exports and their comparison alone; of them, those that
\* report take the verdict of the comparison.
LEMMA OnlyReports ==
  ASSUME [Next]_vars,
         ~\E r \in RunIds, g \in Gens, part \in SUBSET Files : Export(r, g, part),
         ~\E a, b \in RunIds : ReproCompare(a, b)
  PROVE  UNCHANGED runs /\ (UNCHANGED preflight \/ Report)
  <1>1. CASE UNCHANGED vars
    BY <1>1 DEF vars
  <1>2. ASSUME NEW hasLz4, NEW check, Initramfs(hasLz4, check)
        PROVE  UNCHANGED <<runs, preflight>>
    BY <1>2 DEF Initramfs, InitramfsWith
  <1>3. CASE BuildProfile
    BY <1>3 DEF BuildProfile, Clear, Pack, Packed, PackedWith, Publish, Published, List
  <1>4. ASSUME NEW next, Audit(next) \/ AuditBreaks(next)
        PROVE  UNCHANGED <<runs, preflight>>
    BY <1>4 DEF Audit, AuditBreaks
  <1>5. CASE Preflight \/ ScriptPreflight
    BY <1>5 DEF Preflight, ScriptPreflight
  <1>6. CASE InitramfsRefused \/ Metadata \/ Stop
    BY <1>6 DEF InitramfsRefused, Metadata, Stop
  <1>7. ASSUME NEW equal, Compare(equal)
        PROVE  UNCHANGED <<runs, preflight>>
    BY <1>7 DEF Compare
  <1>8. ASSUME NEW g, NEW part, Place(g, part) \/ Extract(g)
        PROVE  UNCHANGED <<runs, preflight>>
    BY <1>8 DEF Place, Extract
  <1> QED
    BY <1>1, <1>2, <1>3, <1>4, <1>5, <1>6, <1>7, <1>8 DEF Next

\* An export lands where there was none.
LEMMA ExportKeeps ==
  ASSUME Shown, NEW r \in RunIds, NEW g \in Gens, NEW part \in SUBSET Files,
         Export(r, g, part)
  PROVE  Shown'
  <1>1. /\ dist[r] = None /\ dist' = [dist EXCEPT ![r] = [f \in part |-> g]]
        /\ UNCHANGED <<repro, preflight>>
    BY DEF Export
  <1>2. dist'[r] = [f \in part |-> g] /\ \A q \in RunIds : q # r => dist'[q] = dist[q]
    BY <1>1 DEF Shown, ExportsAreFunctions
  <1>3. ExportsAreFunctions'
    <2>1. dist' = [q \in RunIds |-> dist'[q]]
      BY <1>1 DEF Shown, ExportsAreFunctions
    <2>2. DOMAIN dist'[r] = part /\ dist'[r] = [f \in DOMAIN dist'[r] |-> dist'[r][f]]
      BY <1>2
    <2>3. ASSUME NEW q \in RunIds, q # r, dist'[q] # None
          PROVE  dist'[q] = [f \in DOMAIN dist'[q] |-> dist'[q][f]]
      BY <1>2, <2>3 DEF Shown, ExportsAreFunctions
    <2> QED
      BY <2>1, <2>2, <2>3 DEF ExportsAreFunctions
  <1>4. KeptTwice => KeptTwice'
    <2> SUFFICES ASSUME NEW a \in RunIds, NEW b \in RunIds, a # b, dist[a] # None,
                        dist[a] = dist[b], "required" \in DOMAIN dist[a]
                 PROVE  KeptTwice'
      BY DEF KeptTwice
    <2> QED
      BY <1>1, <1>2 DEF KeptTwice
  <1> QED
    BY <1>1, <1>3, <1>4 DEF Shown, TwoCleanRuns

\* Two exports that the comparison calls reproducible are equal.
LEMMA CompareShows ==
  ASSUME Shown, NEW a \in RunIds, NEW b \in RunIds, ReproCompare(a, b)
  PROVE  Shown'
  <1>1. /\ a # b /\ dist[a] # None /\ dist[b] # None
        /\ repro' = [reproducible |-> Identical(a, b), first |-> a, second |-> b]
        /\ UNCHANGED <<dist, preflight>>
    BY DEF ReproCompare
  <1>2. Identical(a, b) => dist[a] = dist[b] /\ "required" \in DOMAIN dist[a]
    <2>1. ASSUME Identical(a, b)
          PROVE  /\ [f \in DOMAIN dist[a] |-> dist[a][f]] = [f \in DOMAIN dist[b] |-> dist[b][f]]
                 /\ "required" \in DOMAIN dist[a]
      BY <2>1 DEF Identical
    <2> QED
      BY <1>1, <2>1 DEF Shown, ExportsAreFunctions
  <1>3. KeptTwice' <=> KeptTwice
    BY <1>1 DEF KeptTwice
  <1>4. TwoCleanRuns' => KeptTwice'
    <2> SUFFICES ASSUME TwoCleanRuns' PROVE KeptTwice'
      OBVIOUS
    <2>1. Identical(a, b)
      BY <1>1 DEF TwoCleanRuns
    <2> QED
      BY <1>1, <1>2, <2>1 DEF KeptTwice
  <1>5. ExportsAreFunctions'
    BY <1>1 DEF Shown, ExportsAreFunctions
  <1> QED
    BY <1>1, <1>3, <1>4, <1>5 DEF Shown

\* A kernel that the preflight reports as reproducible has two complete and
\* identical exports under two run ids (ReproducedTwice), whatever was exported,
\* compared or cut short since.
THEOREM ReproducibleIsShown == Spec => []ReproducedTwice
  <1>1. Init => Shown
    BY AbsentAssumption DEF Init, Shown, ExportsAreFunctions, TwoCleanRuns
  <1>2. Shown /\ [Next]_vars => Shown'
    <2> SUFFICES ASSUME Shown, [Next]_vars PROVE Shown'
      OBVIOUS
    <2>1. ASSUME UNCHANGED runs, UNCHANGED preflight \/ Report
          PROVE  Shown'
      <3>1. /\ ExportsAreFunctions' = ExportsAreFunctions
            /\ TwoCleanRuns' = TwoCleanRuns /\ KeptTwice' = KeptTwice
        BY <2>1 DEF runs, ExportsAreFunctions, TwoCleanRuns, KeptTwice
      <3>2. UNCHANGED preflight \/ preflight'.repro = TwoCleanRuns
        BY <2>1 DEF Report, RunAudit
      <3> QED
        BY <3>1, <3>2 DEF Shown
    <2> QED
      BY <2>1, OnlyReports, ExportKeeps, CompareShows
  <1>3. Shown => ReproducedTwice
    BY DEF Shown, KeptTwice, ReproducedTwice
  <1> QED
    BY <1>1, <1>2, <1>3, PTL DEF Spec
=============================================================================
