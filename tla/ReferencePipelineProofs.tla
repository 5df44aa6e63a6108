------------------------ MODULE ReferencePipelineProofs ------------------------

(***************************************************************************)
(* ReferencePipeline, for any number of invocations, in any order, each    *)
(* ended anywhere, and any number of patches.                              *)
(*                                                                         *)
(* The proof has two halves.  One is about the scripts alone: a script is  *)
(* disciplined if each of its steps counts only on what earlier steps of   *)
(* the same script have seen to; every script is, and so is one script     *)
(* after another.  The other is about what runs them: what the steps done  *)
(* so far have brought about, and no later one touched, is so.             *)
(***************************************************************************)
EXTENDS ReferencePipeline, SequenceTheorems, TLAPS

Things == Files \cup {"tree"}
Sources == {"modules", "Image", "dtbs", "config"}
SumsFiles == {SumsFile[p] : p \in Places}

Steps ==
  [op : {"clone", "check", "compare"}]
  \cup [op : {"patch"}, patch : Patches]
  \cup [op : {"need", "whole", "remove"}, file : Files]
  \cup [op : {"work", "digest"}, place : Places]
  \cup [op : {"copy", "iftool"}, file : Files, from : SUBSET Things, lenient : BOOLEAN]
  \cup [op : {"move"}, file : Files, from : SUBSET Things]

\* What is written from what, and how.
Writes == {"copy", "iftool", "move"}
WellFormed(st) ==
  st.op \in Writes =>
    /\ st.file \notin SumsFiles
    /\ st.file \in Sources => st.from = {"tree"}
    /\ st.file = "dtbo" => st.from = {"dtbs"}
    /\ st.file \in {"boot", "init_boot"} => st.op = "move"

\* The files that a step may change, or the checkout.
Changes(st) ==
  CASE st.op \in {"clone", "patch"} -> {"tree"}
    [] st.op \in {"remove", "copy", "iftool", "move"} -> {st.file}
    [] st.op = "digest" -> {SumsFile[st.place]}
    [] OTHER -> {}

(***************************************************************************)
(* Claims: what a step that has been done says of the files.               *)
(***************************************************************************)
Gone(f) == [fact |-> "gone", file |-> f, from |-> {}]
There(f) == [fact |-> "there", file |-> f, from |-> {}]
Whole(f) == [fact |-> "whole", file |-> f, from |-> {}]
Made(f) == [fact |-> "made", file |-> f, from |-> {}]
MadeOf(f, from) == [fact |-> "of", file |-> f, from |-> from]
Lists(p) == [fact |-> "lists", file |-> SumsFile[p], from |-> Listable[p] \cap Own(p)]
Applied == [fact |-> "applied", file |-> "tree", from |-> {}]

About(c) == {c.file} \cup c.from

Holds(c) ==
  CASE c.fact = "gone"    -> file[c.file] = None
    [] c.fact = "there"   -> file[c.file] # None
    [] c.fact = "whole"   -> file[c.file] # None /\ file[c.file].whole
    [] c.fact = "made"    -> file[c.file] # None /\ file[c.file].whole /\ file[c.file].by = n
    [] c.fact = "of"      -> file[c.file] # None /\ file[c.file].of = Now(c.from)
    [] c.fact = "lists"   -> /\ file[c.file] # None /\ file[c.file].whole
                             /\ \A line \in file[c.file].of :
                                  line.file \in c.from => file[line.file] = line.content
    [] c.fact = "applied" -> tree = Patched

\* What a step brings about.
Brings(st) ==
  CASE st.op = "remove" -> {Gone(st.file)}
    [] (st.op = "copy" /\ ~st.lenient) \/ st.op = "move" ->
         {Made(st.file)} \cup {MadeOf(st.file, st.from) : x \in {st.file} \ st.from}
    [] st.op = "need" -> {There(st.file)}
    [] st.op = "whole" -> {There(st.file), Whole(st.file)}
    [] st.op = "compare" -> {Applied}
    [] st.op = "digest" -> {Lists(st.place)}
    [] OTHER -> {}

\* What a step counts on: the claims that must hold whenever it is the next one.
NeedsToWrite(f) ==
  {Gone(SumsFile[p]) : p \in {q \in Places : f \in Own(q)}}
  \cup {Applied : x \in {f} \cap Sources}
  \cup {Gone("dtbo") : x \in {f} \cap {"dtbs"}}
  \cup {There("dtbs") : x \in {f} \cap {"dtbo"}}

Needs(st) ==
  CASE st.op \in Writes -> NeedsToWrite(st.file)
    [] st.op = "remove" ->
         {Gone("busybox") : x \in {st.file} \cap {"commit"}}
         \cup {Gone("cpio") : x \in {st.file} \cap {"rootfs"}}
    [] st.op = "digest" ->
         {Made(f) : f \in Mandatory[st.place]}
         \cup {Gone(f) : f \in Listable[st.place] \ Own(st.place)}
    [] st.op = "work" -> {Gone(SumsFile[st.place])}
    [] OTHER -> {}

\* An earlier step of the script brings the claim about, and no step since then,
\* up to and including step k, touches what it is about.
Standing(s, j, k, c) ==
  c \in Brings(s[j]) /\ \A i \in (j + 1)..k : Changes(s[i]) \cap About(c) = {}

SeenTo(s, k, c) == \E j \in 1..(k - 1) : Standing(s, j, k, c)
Cleared(s, k, f) == \E j \in 1..(k - 1) : s[j] = Remove(f)

\* Before step k the script has seen to what that step counts on; before a list
\* of digests it has removed whatever was in the directory.
Prepared(s, k) ==
  /\ WellFormed(s[k])
  /\ \A c \in Needs(s[k]) : SeenTo(s, k, c)
  /\ s[k].op = "digest" => \A f \in Own(s[k].place) : Cleared(s, k, f)

Disciplined(s) == s \in Seq(Steps) /\ \A k \in 1..Len(s) : Prepared(s, k)

\* It ends with the claim.
EndsWith(s, c) == \E j \in 1..Len(s) : Standing(s, j, Len(s), c)

\* What the steps done so far have brought about, and none of them touched since,
\* is so.
Stands ==
  \A j \in 1..(at - 1) : \A c \in Brings(Script[script][j]) :
    Standing(Script[script], j, IF half THEN at ELSE at - 1, c) => Holds(c)

\* What the invocation has removed, it has left away or made itself.
Fresh ==
  \A j \in 1..(at - 1) : Script[script][j].op = "remove" =>
    LET f == Script[script][j].file IN file[f] = None \/ file[f].by = n

IsContent(c) ==
  /\ c = [by |-> c.by, whole |-> c.whole, of |-> c.of]
  /\ c.by \in Nat /\ c.whole \in BOOLEAN

\* The types; the checkout is only ever compared with what it should be.
TypeOK ==
  /\ file = [f \in Files |-> file[f]]
  /\ \A f \in Files : file[f] # None => IsContent(file[f])
  /\ n \in Nat /\ script \in DOMAIN Script
  /\ half \in BOOLEAN /\ status \in {"running", "ok", "failed"}
  /\ at \in 1..(Len(Script[script]) + 1)
  /\ half => at <= Len(Script[script])
  /\ status = "ok" => at = Len(Script[script]) + 1

\* The lines of a list of digests are about files that its script writes; those
\* about mandatory ones are about whole files.
LinesAreWhole ==
  \A p \in Places : Sums(p) # None =>
    /\ \A line \in Sums(p).of : line.file \in Listable[p] \cap Own(p) /\ line.content # None
    /\ Sums(p).whole => \A f \in Mandatory[p] \cap Listable[p] :
         \E line \in Sums(p).of : line.file = f /\ line.content.whole

\* What is mandatory and not listed is whole while the list verifies.
RestIsWhole ==
  \A p \in Places : Sums(p) # None /\ Sums(p).whole =>
    \/ \A f \in Mandatory[p] \ Listable[p] : file[f] # None /\ file[f].whole
    \/ \E f \in Mandatory[p] \cap Listable[p] : file[f] = None

\* SumsNeverOverMixture of what a script itself writes.
OfOneInvocation ==
  \A p \in Places : Sums(p) # None =>
    \A f \in Own(p) : file[f] # None => file[f].by = Sums(p).by

\* VerifiedIsWhole of the images that are renamed into place.
ImagesAreWhole == \A f \in {"boot", "init_boot"} : file[f] # None => file[f].whole

\* The invariant.
Inv ==
  /\ TypeOK /\ Stands /\ Fresh /\ OfOneInvocation
  /\ LinesAreWhole /\ RestIsWhole /\ ImagesAreWhole /\ MadeOfTheRightSources

\* Temporary directories were left by invocations that are over, and those that
\* the list of dist covers by invocations before the one that wrote it.
LeftByEarlierOnes ==
  /\ leftovers \subseteq 1..n /\ (status = "running" => n \in 1..n \ leftovers)
  /\ listed \subseteq leftovers
  /\ Sums("dist") # None => \A i \in listed : i < Sums("dist").by

(***************************************************************************)
(* The scripts.                                                            *)
(***************************************************************************)
\* The tables, entry by entry.
LEMMA Tables ==
  /\ Places = {"stock", "dist", "dtbo", "busybox", "initramfs", "candidates"}
  /\ SumsFile["stock"] = "SHA256SUMS_stock" /\ SumsFile["dist"] = "SHA256SUMS_dist"
  /\ SumsFile["dtbo"] = "SHA256SUMS_dtbo" /\ SumsFile["busybox"] = "SHA256SUMS_busybox"
  /\ SumsFile["initramfs"] = "SHA256SUMS_initramfs"
  /\ SumsFile["candidates"] = "SHA256SUMS_candidates"
  /\ Listable["stock"] = {"stock_boot", "stock_init_boot"}
  /\ Listable["dist"] = {"modules", "Image", "dtbs", "config", "System.map", "metadata", "dtbo", "entries"}
  /\ Listable["dtbo"] = {"dtbo"} /\ Listable["busybox"] = {"busybox"}
  /\ Listable["initramfs"] = {"cpio", "gz", "lz4"} /\ Listable["candidates"] = {"boot", "init_boot"}
  /\ Mandatory["stock"] = {"stock_boot", "stock_init_boot"}
  /\ Mandatory["dist"] = {"modules", "Image", "dtbs", "config", "metadata"}
  /\ Mandatory["dtbo"] = {"dtbo"} /\ Mandatory["busybox"] = {"busybox", "commit"}
  /\ Mandatory["initramfs"] = {"rootfs", "cpio", "gz"}
  /\ Mandatory["candidates"] = {"boot", "init_boot"}
BY DEF Places, Listable, Mandatory, SumsFile

\* What the script of each directory writes there.
LEMMA OwnTable ==
  /\ Own("stock") = {"stock_boot", "stock_init_boot", "raw_boot", "raw_init_boot", "manifest"}
  /\ Own("dist") = {"modules", "Image", "dtbs", "config", "System.map", "metadata"}
  /\ Own("dtbo") = {"dtbo"} /\ Own("busybox") = {"busybox", "commit"}
  /\ Own("initramfs") = {"cpio", "gz", "lz4", "rootfs"}
  /\ Own("candidates") = {"boot", "init_boot"}
BY Tables DEF Own, FromTheTar

\* Every directory has a list of digests of its own, which it does not cover itself.
LEMMA PlaceFacts ==
  /\ SumsFiles = {"SHA256SUMS_stock", "SHA256SUMS_dist", "SHA256SUMS_dtbo",
                  "SHA256SUMS_busybox", "SHA256SUMS_initramfs",
                  "SHA256SUMS_candidates"}
  /\ \A p, q \in Places : SumsFile[p] = SumsFile[q] => p = q
  /\ \A p \in Places : Own(p) \cap SumsFiles = {} /\ Listable[p] \cap SumsFiles = {}
  /\ \A p \in Places : SumsFile[p] \in SumsFiles /\ SumsFile[p] \notin Trees
  /\ \A p \in Places : Mandatory[p] \subseteq Own(p)
<1>1. SumsFiles = {"SHA256SUMS_stock", "SHA256SUMS_dist", "SHA256SUMS_dtbo",
                   "SHA256SUMS_busybox", "SHA256SUMS_initramfs",
                   "SHA256SUMS_candidates"}
  <2>1. SumsFiles = {SumsFile["stock"], SumsFile["dist"], SumsFile["dtbo"],
                     SumsFile["busybox"], SumsFile["initramfs"], SumsFile["candidates"]}
    <3>1. Places = {"stock", "dist", "dtbo", "busybox", "initramfs", "candidates"}
      BY Tables
    <3> QED BY <3>1, Zenon DEF SumsFiles
  <2> QED BY <2>1, Tables
<1>2. \A p, q \in Places : SumsFile[p] = SumsFile[q] => p = q
  BY Tables
<1>3. \A p \in Places : Own(p) \cap SumsFiles = {} /\ Listable[p] \cap SumsFiles = {}
  BY <1>1, Tables, OwnTable
<1>4. \A p \in Places : SumsFile[p] \in SumsFiles /\ SumsFile[p] \notin Trees
  BY <1>1, Tables DEF Trees
<1>5. \A p \in Places : Mandatory[p] \subseteq Own(p)
  BY Tables, OwnTable
<1> QED BY <1>1, <1>2, <1>3, <1>4, <1>5

\* All these are files, and the checkout is none.
LEMMA FilesFacts ==
  /\ \A p \in Places : Own(p) \subseteq Files /\ Listable[p] \subseteq Files /\ SumsFile[p] \in Files
  /\ "tree" \notin Files
<1>1. \A p \in Places : Own(p) \subseteq Files /\ Listable[p] \subseteq Files /\ SumsFile[p] \in Files
  BY DEF Files
<1>2. ASSUME NEW p \in Places
      PROVE  "tree" \notin Own(p) /\ "tree" \notin Listable[p] /\ "tree" # SumsFile[p]
  <2>1. CASE p = "stock" BY <2>1, Tables, OwnTable
  <2>2. CASE p = "dist" BY <2>2, Tables, OwnTable
  <2>3. CASE p = "dtbo" BY <2>3, Tables, OwnTable
  <2>4. CASE p = "busybox" BY <2>4, Tables, OwnTable
  <2>5. CASE p = "initramfs" BY <2>5, Tables, OwnTable
  <2>6. CASE p = "candidates" BY <2>6, Tables, OwnTable
  <2> QED BY Tables, <2>1, <2>2, <2>3, <2>4, <2>5, <2>6
<1>3. "tree" \notin Files
  BY <1>2 DEF Files
<1> QED BY <1>1, <1>3

\* One disciplined script after another is one.
LEMMA DisciplinedConcat ==
  ASSUME NEW s, NEW t, Disciplined(s), Disciplined(t)
  PROVE  Disciplined(s \o t)
<1> DEFINE u == s \o t
           l == Len(s)
<1>1. /\ s \in Seq(Steps) /\ t \in Seq(Steps) /\ u \in Seq(Steps)
      /\ l \in Nat /\ Len(t) \in Nat /\ Len(u) = l + Len(t)
      /\ \A i \in 1..l : u[i] = s[i]
      /\ \A i \in 1..Len(t) : u[l + i] = t[i]
  BY ConcatProperties, LenProperties DEF Disciplined
<1> HIDE DEF u, l
<1>2. ASSUME NEW k \in 1..l
      PROVE  Prepared(u, k)
  <2>1. u[k] = s[k] /\ \A j \in 1..k : u[j] = s[j]
    BY <1>1
  <2>2. Prepared(s, k)
    BY DEF l, Disciplined
  <2>3. ASSUME NEW c, NEW j \in 1..(k - 1), Standing(s, j, k, c)
        PROVE  Standing(u, j, k, c)
    <3>1. u[j] = s[j] /\ \A i \in (j + 1)..k : u[i] = s[i]
      BY <2>1
    <3> QED BY <2>3, <3>1 DEF Standing
  <2>4. \A j \in 1..(k - 1) : u[j] = s[j]
    BY <2>1
  <2>5. \A c \in Needs(u[k]) : SeenTo(u, k, c)
    BY <2>1, <2>2, <2>3 DEF Prepared, SeenTo
  <2>6. u[k].op = "digest" => \A f \in Own(u[k].place) : Cleared(u, k, f)
    BY <2>1, <2>2, <2>4 DEF Prepared, Cleared
  <2> QED BY <2>1, <2>2, <2>5, <2>6 DEF Prepared
<1>3. ASSUME NEW m \in 1..Len(t)
      PROVE  Prepared(u, l + m)
  <2>1. u[l + m] = t[m] /\ \A j \in 1..(m - 1) : u[l + j] = t[j] /\ l + j \in 1..((l + m) - 1)
    BY <1>1
  <2>2. ASSUME NEW c, NEW j \in 1..(m - 1), Standing(t, j, m, c)
        PROVE  Standing(u, l + j, l + m, c)
    <3>1. c \in Brings(u[l + j])
      BY <2>1, <2>2 DEF Standing
    <3>2. ASSUME NEW i \in (l + j + 1)..(l + m)
          PROVE  Changes(u[i]) \cap About(c) = {}
      <4>1. i - l \in (j + 1)..m /\ i - l \in 1..Len(t) /\ l + (i - l) = i
        BY <1>1
      <4>2. u[i] = t[i - l]
        BY <1>1, <4>1
      <4> QED BY <2>2, <4>1, <4>2 DEF Standing
    <3> QED BY <3>1, <3>2 DEF Standing
  <2>3. Prepared(t, m)
    BY DEF Disciplined
  <2>4. \A c \in Needs(u[l + m]) : SeenTo(u, l + m, c)
    BY <2>1, <2>2, <2>3 DEF Prepared, SeenTo
  <2>5. u[l + m].op = "digest" => \A f \in Own(u[l + m].place) : Cleared(u, l + m, f)
    BY <2>1, <2>3 DEF Prepared, Cleared
  <2>6. WellFormed(u[l + m])
    BY <2>1, <2>3 DEF Prepared
  <2> QED BY <2>4, <2>5, <2>6 DEF Prepared
<1>4. ASSUME NEW k \in 1..Len(u)
      PROVE  Prepared(u, k)
  <2>1. CASE k \in 1..l
    BY <1>2, <2>1
  <2>2. CASE k \notin 1..l
    <3>1. k - l \in 1..Len(t) /\ k = l + (k - l)
      BY <1>1, <2>2
    <3> QED BY <1>3, <3>1
  <2> QED BY <2>1, <2>2
<1>5. Disciplined(u)
  BY <1>1, <1>4 DEF Disciplined
<1> QED BY <1>5 DEF u

\* A claim that holds at the end does so also after a script that leaves alone
\* what it is about, and after any script before it.
LEMMA EndsConcat ==
  ASSUME NEW s \in Seq(Steps), NEW t \in Seq(Steps), NEW c
  PROVE  /\ EndsWith(t, c) => EndsWith(s \o t, c)
         /\ EndsWith(s, c) /\ (\A i \in 1..Len(t) : Changes(t[i]) \cap About(c) = {})
              => EndsWith(s \o t, c)
<1> DEFINE u == s \o t
           l == Len(s)
<1>1. /\ l \in Nat /\ Len(t) \in Nat /\ Len(u) = l + Len(t)
      /\ \A i \in 1..l : u[i] = s[i]
      /\ \A i \in 1..Len(t) : u[l + i] = t[i]
  BY ConcatProperties, LenProperties
<1>2. \A i \in (l + 1)..Len(u) : i - l \in 1..Len(t) /\ u[i] = t[i - l]
  <2> TAKE i \in (l + 1)..Len(u)
  <2>1. i - l \in 1..Len(t) /\ l + (i - l) = i
    BY <1>1
  <2> QED BY <1>1, <2>1
<1> HIDE DEF u
<1>3. ASSUME NEW j \in 1..Len(t), Standing(t, j, Len(t), c)
      PROVE  EndsWith(u, c)
  <2>1. l + j \in 1..Len(u) /\ c \in Brings(u[l + j])
    BY <1>1, <1>3 DEF Standing
  <2>2. ASSUME NEW i \in (l + j + 1)..Len(u)
        PROVE  Changes(u[i]) \cap About(c) = {}
    <3>1. i \in (l + 1)..Len(u) /\ i - l \in (j + 1)..Len(t)
      BY <1>1
    <3> QED BY <1>2, <1>3, <3>1 DEF Standing
  <2> QED BY <2>1, <2>2 DEF EndsWith, Standing
<1>4. ASSUME NEW j \in 1..Len(s), Standing(s, j, Len(s), c),
             \A i \in 1..Len(t) : Changes(t[i]) \cap About(c) = {}
      PROVE  EndsWith(u, c)
  <2>1. j \in 1..Len(u) /\ c \in Brings(u[j])
    BY <1>1, <1>4 DEF Standing
  <2>2. ASSUME NEW i \in (j + 1)..Len(u)
        PROVE  Changes(u[i]) \cap About(c) = {}
    <3>1. CASE i <= l
      <4>1. i \in 1..l /\ i \in (j + 1)..Len(s)
        BY <3>1
      <4> QED BY <1>1, <1>4, <4>1 DEF Standing
    <3>2. CASE ~(i <= l)
      <4>1. i \in (l + 1)..Len(u)
        BY <1>1, <3>2
      <4> QED BY <1>2, <1>4, <4>1
    <3> QED BY <3>1, <3>2, <1>1
  <2> QED BY <2>1, <2>2 DEF EndsWith, Standing
<1> QED BY <1>3, <1>4 DEF EndsWith, u

(***************************************************************************)
(* The steps one by one: what each changes, brings about and counts on.    *)
(***************************************************************************)
ComparePatches == [op |-> "compare"]

\* What each kind of step changes.
LEMMA ChangesFacts ==
  /\ Changes(Check) = {} /\ Changes(ComparePatches) = {}
  /\ \A f : Changes(Need(f)) = {} /\ Changes(NeedWhole(f)) = {} /\ Changes(Remove(f)) = {f}
  /\ \A f : Changes(Tried(f)) = {f}
  /\ \A f, from : Changes(Copied(f, from)) = {f}
  /\ \A f, from : Changes(IfTool(f, from)) = {f}
  /\ \A f, from : Changes(Moved(f, from)) = {f}
  /\ \A p : Changes(Work(p)) = {} /\ Changes(Digested(p)) = {SumsFile[p]}
BY DEF Changes, Check, ComparePatches, Need, NeedWhole, Remove, Tried, Copied, IfTool, Moved,
       Work, Digested

\* What each kind of step brings about.
LEMMA BringsFacts ==
  /\ Applied \in Brings(ComparePatches)
  /\ \A f : There(f) \in Brings(Need(f)) /\ Whole(f) \in Brings(NeedWhole(f))
  /\ \A f : Gone(f) \in Brings(Remove(f))
  /\ \A f, from : Made(f) \in Brings(Copied(f, from)) /\ Made(f) \in Brings(Moved(f, from))
  /\ \A f, from : f \notin from => /\ MadeOf(f, from) \in Brings(Copied(f, from))
                                   /\ MadeOf(f, from) \in Brings(Moved(f, from))
  /\ \A p : Lists(p) \in Brings(Digested(p))
BY DEF Brings, ComparePatches, Need, NeedWhole, Remove, Copied, Moved, Digested

\* What each claim is about.
LEMMA AboutFacts ==
  /\ \A f : About(Gone(f)) = {f} /\ About(There(f)) = {f} /\ About(Whole(f)) = {f}
  /\ \A f : About(Made(f)) = {f}
  /\ \A f, from : About(MadeOf(f, from)) = {f} \cup from
  /\ \A p : About(Lists(p)) = {SumsFile[p]} \cup (Listable[p] \cap Own(p))
  /\ About(Applied) = {"tree"}
BY DEF About, Gone, There, Whole, Made, MadeOf, Lists, Applied

\* What each kind of step that writes nothing counts on.
LEMMA NeedsFacts ==
  /\ Needs(Check) = {} /\ Needs(ComparePatches) = {}
  /\ \A f : Needs(Need(f)) = {} /\ Needs(NeedWhole(f)) = {}
  /\ \A f : f \notin {"commit", "rootfs"} => Needs(Remove(f)) = {}
  /\ Needs(Remove("commit")) = {Gone("busybox")} /\ Needs(Remove("rootfs")) = {Gone("cpio")}
  /\ \A p : Needs(Work(p)) = {Gone(SumsFile[p])}
BY DEF Needs, Writes, Check, ComparePatches, Need, NeedWhole, Remove, Work

\* What a step that writes counts on, case by case.
LEMMA WriteNeeds ==
  ASSUME NEW st, st.op \in Writes, NEW c \in Needs(st)
  PROVE  \/ \E p \in Places : st.file \in Own(p) /\ c = Gone(SumsFile[p])
         \/ st.file \in Sources /\ c = Applied
         \/ st.file = "dtbs" /\ c = Gone("dtbo")
         \/ st.file = "dtbo" /\ c = There("dtbs")
BY DEF Needs, NeedsToWrite, Writes

\* What a step that lists digests counts on, case by case.
LEMMA DigestNeeds ==
  ASSUME NEW p \in Places, NEW c \in Needs(Digested(p))
  PROVE  \/ \E f \in Mandatory[p] : c = Made(f)
         \/ \E f \in Listable[p] \ Own(p) : c = Gone(f)
BY DEF Needs, Writes, Digested

\* The directory that a file is in.
LEMMA Owner ==
  ASSUME NEW p \in Places
  PROVE  /\ \A f \in {"stock_boot", "stock_init_boot", "raw_boot", "raw_init_boot", "manifest"} :
              f \in Own(p) => p = "stock"
         /\ \A f \in {"modules", "Image", "dtbs", "config", "System.map", "metadata"} :
              f \in Own(p) => p = "dist"
         /\ "dtbo" \in Own(p) => p = "dtbo"
         /\ "entries" \notin Own(p)
         /\ \A f \in {"busybox", "commit"} : f \in Own(p) => p = "busybox"
         /\ \A f \in {"cpio", "gz", "lz4", "rootfs"} : f \in Own(p) => p = "initramfs"
         /\ \A f \in {"boot", "init_boot"} : f \in Own(p) => p = "candidates"
<1>1. CASE p = "stock" BY <1>1, OwnTable
<1>2. CASE p = "dist" BY <1>2, OwnTable
<1>3. CASE p = "dtbo" BY <1>3, OwnTable
<1>4. CASE p = "busybox" BY <1>4, OwnTable
<1>5. CASE p = "initramfs" BY <1>5, OwnTable
<1>6. CASE p = "candidates" BY <1>6, OwnTable
<1> QED BY Tables, <1>1, <1>2, <1>3, <1>4, <1>5, <1>6

\* The names of the files.
LEMMA FileNames ==
  /\ {"stock_boot", "stock_init_boot", "raw_boot", "raw_init_boot", "manifest", "modules", "Image",
      "dtbs", "config", "System.map", "metadata", "dtbo", "entries", "busybox", "commit", "cpio",
      "gz", "lz4", "rootfs", "boot", "init_boot"} \subseteq Files
  /\ \A p \in Places : SumsFile[p] \in Files
<1>1. /\ {"stock_boot", "stock_init_boot", "raw_boot", "raw_init_boot", "manifest"} \subseteq Own("stock")
      /\ {"modules", "Image", "dtbs", "config", "System.map", "metadata"} \subseteq Own("dist")
      /\ {"busybox", "commit"} \subseteq Own("busybox")
      /\ {"cpio", "gz", "lz4", "rootfs"} \subseteq Own("initramfs")
      /\ {"boot", "init_boot"} \subseteq Own("candidates")
      /\ {"dtbo", "entries"} \subseteq Listable["dist"]
  BY Tables, OwnTable
<1>2. {"stock", "dist", "busybox", "initramfs", "candidates"} \subseteq Places
  BY Tables
<1> QED BY <1>1, <1>2, FilesFacts

\* Each kind of step is a step.
LEMMA StepTypes ==
  /\ Check \in Steps /\ ComparePatches \in Steps
  /\ \A f \in Files : Need(f) \in Steps /\ NeedWhole(f) \in Steps /\ Remove(f) \in Steps
  /\ \A f \in Files : Tried(f) \in Steps
  /\ \A f \in Files, from \in SUBSET Things :
       Copied(f, from) \in Steps /\ IfTool(f, from) \in Steps /\ Moved(f, from) \in Steps
  /\ \A p \in Places : Work(p) \in Steps /\ Digested(p) \in Steps
BY DEF Steps, Check, ComparePatches, Need, NeedWhole, Remove, Tried, Copied, IfTool, Moved, Work,
       Digested

\* A step that writes nothing is well formed.
LEMMA WellFormedFacts ==
  /\ WellFormed(Check) /\ WellFormed(ComparePatches)
  /\ \A f : WellFormed(Need(f)) /\ WellFormed(NeedWhole(f)) /\ WellFormed(Remove(f))
  /\ \A p : WellFormed(Work(p)) /\ WellFormed(Digested(p))
BY DEF WellFormed, Writes, Check, ComparePatches, Need, NeedWhole, Remove, Work, Digested

\* A step that counts on nothing and lists no digests is prepared for.
LEMMA PreparedFacts ==
  ASSUME NEW s, NEW k
  PROVE  /\ s[k] \in {Check, ComparePatches} => Prepared(s, k)
         /\ \A f : s[k] = Need(f) \/ s[k] = NeedWhole(f) => Prepared(s, k)
         /\ \A f : f \notin {"commit", "rootfs"} /\ s[k] = Remove(f) => Prepared(s, k)
<1>1. s[k] \in {Check, ComparePatches} => Prepared(s, k)
  BY NeedsFacts, WellFormedFacts DEF Prepared, Check, ComparePatches
<1>2. ASSUME NEW f, s[k] = Need(f) \/ s[k] = NeedWhole(f)
      PROVE  Prepared(s, k)
  <2>1. s[k].op # "digest"
    BY <1>2 DEF Need, NeedWhole
  <2>2. Needs(s[k]) = {} /\ WellFormed(s[k])
    BY <1>2, NeedsFacts, WellFormedFacts
  <2> QED BY <2>1, <2>2 DEF Prepared
<1>3. ASSUME NEW f, f \notin {"commit", "rootfs"}, s[k] = Remove(f)
      PROVE  Prepared(s, k)
  <2>1. s[k].op # "digest" /\ Needs(s[k]) = {} /\ WellFormed(s[k])
    BY <1>3, NeedsFacts, WellFormedFacts DEF Remove
  <2> QED BY <2>1 DEF Prepared
<1> QED BY <1>1, <1>2, <1>3

(***************************************************************************)
(* Every script is disciplined.                                            *)
(***************************************************************************)
\* No two directories have a file in common.
LEMMA OwnOnce ==
  ASSUME NEW p \in Places, NEW q \in Places, NEW f \in Own(p), f \in Own(q)
  PROVE  p = q
<1>1. CASE q = "stock" BY <1>1, OwnTable, Owner
<1>2. CASE q = "dist" BY <1>2, OwnTable, Owner
<1>3. CASE q = "dtbo" BY <1>3, OwnTable, Owner
<1>4. CASE q = "busybox" BY <1>4, OwnTable, Owner
<1>5. CASE q = "initramfs" BY <1>5, OwnTable, Owner
<1>6. CASE q = "candidates" BY <1>6, OwnTable, Owner
<1> QED BY Tables, <1>1, <1>2, <1>3, <1>4, <1>5, <1>6

\* What a write and a list of digests must be prepared for.
LEMMA WritePrepared ==
  ASSUME NEW s, NEW k \in Nat, NEW p \in Places, s[k].op \in Writes, WellFormed(s[k]),
         s[k].file \in Own(p),
         SeenTo(s, k, Gone(SumsFile[p])),
         s[k].file \in Sources => SeenTo(s, k, Applied),
         s[k].file = "dtbs" => SeenTo(s, k, Gone("dtbo")),
         s[k].file = "dtbo" => SeenTo(s, k, There("dtbs"))
  PROVE  Prepared(s, k)
<1>1. ASSUME NEW c \in Needs(s[k])
      PROVE  SeenTo(s, k, c)
  <2>1. CASE \E q \in Places : s[k].file \in Own(q) /\ c = Gone(SumsFile[q])
    BY <2>1, OwnOnce
  <2> QED BY <2>1, WriteNeeds
<1>2. s[k].op # "digest"
  BY DEF Writes
<1> QED BY <1>1, <1>2 DEF Prepared

\* A write outside dist and dtbo counts only on the list of digests being gone.
LEMMA PlainPrepared ==
  ASSUME NEW s, NEW k \in Nat, NEW p \in Places, s[k].op \in Writes, WellFormed(s[k]),
         s[k].file \in Own(p), p \notin {"dist", "dtbo"},
         SeenTo(s, k, Gone(SumsFile[p]))
  PROVE  Prepared(s, k)
<1>1. s[k].file \notin Sources \cup {"dtbs", "dtbo"}
  BY Owner DEF Sources
<1> QED BY <1>1, WritePrepared

\* What a list of digests must be prepared for.
LEMMA DigestPrepared ==
  ASSUME NEW s, NEW k \in Nat, NEW p \in Places, s[k] = Digested(p),
         \A f \in Mandatory[p] : SeenTo(s, k, Made(f)),
         \A f \in Listable[p] \ Own(p) : SeenTo(s, k, Gone(f)),
         \A f \in Own(p) : Cleared(s, k, f)
  PROVE  Prepared(s, k)
<1>1. \A c \in Needs(s[k]) : SeenTo(s, k, c)
  BY DigestNeeds
<1>2. s[k].place = p /\ WellFormed(s[k])
  BY WellFormedFacts DEF Digested
<1> QED BY <1>1, <1>2 DEF Prepared

\* A write of a file that is no kernel, overlay, DTBO or boot image is well formed.
LEMMA WriteFacts ==
  /\ \A f, from : /\ Copied(f, from).op = "copy" /\ Copied(f, from).file = f
                  /\ IfTool(f, from).op = "iftool" /\ IfTool(f, from).file = f
                  /\ Moved(f, from).op = "move" /\ Moved(f, from).file = f
  /\ \A f : Tried(f).op = "copy" /\ Tried(f).file = f
  /\ \A f, from : f \notin SumsFiles \cup Sources \cup {"dtbo", "boot", "init_boot"} =>
       WellFormed(Copied(f, from)) /\ WellFormed(IfTool(f, from)) /\ WellFormed(Moved(f, from))
  /\ \A f : f \notin SumsFiles \cup Sources \cup {"dtbo", "boot", "init_boot"} => WellFormed(Tried(f))
  /\ \A f \in Sources : WellFormed(Copied(f, {"tree"}))
  /\ WellFormed(Copied("dtbo", {"dtbs"}))
  /\ \A from : WellFormed(Moved("boot", from)) /\ WellFormed(Moved("init_boot", from))
<1>1. Sources \cup {"dtbo", "boot", "init_boot"} \subseteq Files \ SumsFiles
  BY PlaceFacts, FileNames DEF Sources
<1> QED BY <1>1 DEF WellFormed, Writes, Copied, IfTool, Moved, Tried, Sources

\* A claim that stands at some step was seen to before every step up to it.
LEMMA SeenToFrom ==
  ASSUME NEW s, NEW m \in Nat, NEW j \in Nat \ {0}, NEW c, Standing(s, j, m, c)
  PROVE  \A k \in (j + 1)..m : SeenTo(s, k, c)
BY DEF SeenTo, Standing

\* build-busybox.sh, step by step.
LEMMA BusyboxSteps ==
  /\ Len(Busybox) = 8 /\ Busybox[1] = Check /\ Busybox[2] = Remove("busybox")
  /\ Busybox[3] = Remove("commit") /\ Busybox[4] = Remove(SumsFile["busybox"])
  /\ Busybox[5] = Work("busybox") /\ Busybox[6] = Copied("busybox", {})
  /\ Busybox[7] = Copied("commit", {}) /\ Busybox[8] = Digested("busybox")
BY DEF Busybox

\* build-busybox.sh counts only on what it has seen to.
LEMMA BusyboxDisciplined == Disciplined(Busybox)
<1> DEFINE sums == SumsFile["busybox"]
<1>1. /\ "busybox" \in Places /\ sums \in Files
      /\ {"busybox", "commit"} \subseteq Own("busybox")
      /\ {"busybox", "commit"} \subseteq Files
      /\ sums \notin {"tree", "commit", "rootfs", "busybox"}
  BY Tables, OwnTable, PlaceFacts, FileNames
<1>2. Busybox \in Seq(Steps)
  <2>1. /\ Check \in Steps /\ Remove("busybox") \in Steps /\ Remove("commit") \in Steps
        /\ Remove(sums) \in Steps /\ Work("busybox") \in Steps
        /\ Copied("busybox", {}) \in Steps /\ Copied("commit", {}) \in Steps
        /\ Digested("busybox") \in Steps
    BY <1>1, StepTypes DEF Things
  <2> QED BY <2>1 DEF Busybox
<1>3. /\ Standing(Busybox, 2, 3, Gone("busybox")) /\ Standing(Busybox, 4, 7, Gone(sums))
      /\ Standing(Busybox, 6, 8, Made("busybox")) /\ Standing(Busybox, 7, 8, Made("commit"))
  <2>1. /\ Changes(Busybox[1]) = {} /\ Changes(Busybox[2]) = {"busybox"}
        /\ Changes(Busybox[3]) = {"commit"}
        /\ Changes(Busybox[4]) = {sums} /\ Changes(Busybox[5]) = {}
        /\ Changes(Busybox[6]) = {"busybox"}
        /\ Changes(Busybox[7]) = {"commit"} /\ Changes(Busybox[8]) = {sums}
    BY BusyboxSteps, ChangesFacts
  <2>2. /\ Gone("busybox") \in Brings(Busybox[2]) /\ Gone(sums) \in Brings(Busybox[4])
        /\ Made("busybox") \in Brings(Busybox[6]) /\ Made("commit") \in Brings(Busybox[7])
    BY BusyboxSteps, BringsFacts
  <2>3. /\ About(Gone("busybox")) = {"busybox"} /\ About(Gone(sums)) = {sums}
        /\ About(Made("busybox")) = {"busybox"} /\ About(Made("commit")) = {"commit"}
    BY AboutFacts
  <2> HIDE DEF sums
  <2>4. Standing(Busybox, 2, 3, Gone("busybox"))
    BY <1>1, <2>1, <2>2, <2>3 DEF Standing
  <2>5. Standing(Busybox, 4, 7, Gone(sums))
    BY <1>1, <2>1, <2>2, <2>3 DEF Standing
  <2>6. Standing(Busybox, 6, 8, Made("busybox"))
    BY <1>1, <2>1, <2>2, <2>3 DEF Standing
  <2>7. Standing(Busybox, 7, 8, Made("commit"))
    BY <1>1, <2>1, <2>2, <2>3 DEF Standing
  <2> QED BY <2>4, <2>5, <2>6, <2>7
<1>4. /\ SeenTo(Busybox, 3, Gone("busybox")) /\ SeenTo(Busybox, 5, Gone(sums))
      /\ SeenTo(Busybox, 6, Gone(sums))
      /\ SeenTo(Busybox, 7, Gone(sums)) /\ SeenTo(Busybox, 8, Made("busybox"))
      /\ SeenTo(Busybox, 8, Made("commit"))
  BY <1>3, SeenToFrom
<1>5. /\ Cleared(Busybox, 8, "busybox") /\ Cleared(Busybox, 8, "commit")
  BY BusyboxSteps DEF Cleared
<1>6. /\ Prepared(Busybox, 1) /\ Prepared(Busybox, 2) /\ Prepared(Busybox, 4)
  BY BusyboxSteps, <1>1, PreparedFacts
<1>7. /\ Prepared(Busybox, 3) /\ Prepared(Busybox, 5)
  BY BusyboxSteps, <1>4, NeedsFacts, WellFormedFacts DEF Prepared, Remove, Work
<1>8. /\ Prepared(Busybox, 6) /\ Prepared(Busybox, 7)
  <2>1. /\ Busybox[6].op \in Writes /\ Busybox[6].file = "busybox" /\ WellFormed(Busybox[6])
        /\ Busybox[7].op \in Writes /\ Busybox[7].file = "commit" /\ WellFormed(Busybox[7])
    BY BusyboxSteps, <1>1, PlaceFacts, WriteFacts DEF Sources, Writes
  <2> QED BY <1>1, <1>4, <2>1, PlainPrepared
<1>9. Prepared(Busybox, 8)
  <2>1. \A f \in Mandatory["busybox"] : SeenTo(Busybox, 8, Made(f))
    BY <1>4, Tables
  <2>2. \A f \in Listable["busybox"] \ Own("busybox") : SeenTo(Busybox, 8, Gone(f))
    BY <1>4, Tables, OwnTable
  <2>3. \A f \in Own("busybox") : Cleared(Busybox, 8, f)
    BY <1>5, OwnTable
  <2> QED BY BusyboxSteps, <1>1, <2>1, <2>2, <2>3, DigestPrepared
<1>10. \A k \in 1..8 : Prepared(Busybox, k)
  BY <1>6, <1>7, <1>8, <1>9
<1> QED BY BusyboxSteps, <1>2, <1>10 DEF Disciplined

\* build-initramfs.sh, step by step.
LEMMA InitramfsSteps ==
  /\ Len(Initramfs) = 12 /\ Initramfs[1] = Need("busybox") /\ Initramfs[2] = Remove("cpio")
  /\ Initramfs[3] = Remove("gz") /\ Initramfs[4] = Remove("lz4")
  /\ Initramfs[5] = Remove(SumsFile["initramfs"]) /\ Initramfs[6] = Remove("rootfs")
  /\ Initramfs[7] = Work("initramfs") /\ Initramfs[8] = Copied("rootfs", {"busybox"})
  /\ Initramfs[9] = Copied("cpio", {"rootfs"}) /\ Initramfs[10] = Copied("gz", {"cpio"})
  /\ Initramfs[11] = IfTool("lz4", {"cpio"}) /\ Initramfs[12] = Digested("initramfs")
BY DEF Initramfs

\* build-initramfs.sh counts only on what it has seen to.
LEMMA InitramfsDisciplined == Disciplined(Initramfs)
<1> DEFINE sums == SumsFile["initramfs"]
<1>1. /\ "initramfs" \in Places /\ sums \in Files
      /\ {"cpio", "gz", "lz4", "rootfs"} \subseteq Own("initramfs")
      /\ {"busybox", "cpio", "gz", "lz4", "rootfs"} \subseteq Files
      /\ sums \notin {"tree", "commit", "rootfs", "busybox", "cpio", "gz", "lz4"}
  BY Tables, OwnTable, PlaceFacts, FileNames
<1>2. Initramfs \in Seq(Steps)
  <2>1. /\ Need("busybox") \in Steps /\ Remove("cpio") \in Steps /\ Remove("gz") \in Steps
        /\ Remove("lz4") \in Steps /\ Remove(sums) \in Steps /\ Remove("rootfs") \in Steps
        /\ Work("initramfs") \in Steps /\ Copied("rootfs", {"busybox"}) \in Steps
        /\ Copied("cpio", {"rootfs"}) \in Steps /\ Copied("gz", {"cpio"}) \in Steps
        /\ IfTool("lz4", {"cpio"}) \in Steps /\ Digested("initramfs") \in Steps
    BY <1>1, StepTypes DEF Things
  <2> QED BY <2>1 DEF Initramfs
<1>3. /\ Standing(Initramfs, 2, 6, Gone("cpio")) /\ Standing(Initramfs, 5, 11, Gone(sums))
      /\ Standing(Initramfs, 8, 12, Made("rootfs")) /\ Standing(Initramfs, 9, 12, Made("cpio"))
      /\ Standing(Initramfs, 10, 12, Made("gz"))
  <2>1. /\ Changes(Initramfs[1]) = {} /\ Changes(Initramfs[2]) = {"cpio"}
        /\ Changes(Initramfs[3]) = {"gz"}
        /\ Changes(Initramfs[4]) = {"lz4"} /\ Changes(Initramfs[5]) = {sums}
        /\ Changes(Initramfs[6]) = {"rootfs"}
        /\ Changes(Initramfs[7]) = {} /\ Changes(Initramfs[8]) = {"rootfs"}
        /\ Changes(Initramfs[9]) = {"cpio"}
        /\ Changes(Initramfs[10]) = {"gz"} /\ Changes(Initramfs[11]) = {"lz4"}
        /\ Changes(Initramfs[12]) = {sums}
    BY InitramfsSteps, ChangesFacts
  <2>2. /\ Gone("cpio") \in Brings(Initramfs[2]) /\ Gone(sums) \in Brings(Initramfs[5])
        /\ Made("rootfs") \in Brings(Initramfs[8]) /\ Made("cpio") \in Brings(Initramfs[9])
        /\ Made("gz") \in Brings(Initramfs[10])
    BY InitramfsSteps, BringsFacts
  <2>3. /\ About(Gone("cpio")) = {"cpio"} /\ About(Gone(sums)) = {sums}
        /\ About(Made("rootfs")) = {"rootfs"} /\ About(Made("cpio")) = {"cpio"}
        /\ About(Made("gz")) = {"gz"}
    BY AboutFacts
  <2> HIDE DEF sums
  <2>4. Standing(Initramfs, 2, 6, Gone("cpio"))
    BY <1>1, <2>1, <2>2, <2>3 DEF Standing
  <2>5. Standing(Initramfs, 5, 11, Gone(sums))
    BY <1>1, <2>1, <2>2, <2>3 DEF Standing
  <2>6. Standing(Initramfs, 8, 12, Made("rootfs"))
    BY <1>1, <2>1, <2>2, <2>3 DEF Standing
  <2>7. Standing(Initramfs, 9, 12, Made("cpio"))
    BY <1>1, <2>1, <2>2, <2>3 DEF Standing
  <2>8. Standing(Initramfs, 10, 12, Made("gz"))
    BY <1>1, <2>1, <2>2, <2>3 DEF Standing
  <2> QED BY <2>4, <2>5, <2>6, <2>7, <2>8
<1>4. /\ SeenTo(Initramfs, 6, Gone("cpio")) /\ SeenTo(Initramfs, 7, Gone(sums))
      /\ SeenTo(Initramfs, 8, Gone(sums))
      /\ SeenTo(Initramfs, 9, Gone(sums)) /\ SeenTo(Initramfs, 10, Gone(sums))
      /\ SeenTo(Initramfs, 11, Gone(sums))
      /\ SeenTo(Initramfs, 12, Made("rootfs")) /\ SeenTo(Initramfs, 12, Made("cpio"))
      /\ SeenTo(Initramfs, 12, Made("gz"))
  BY <1>3, SeenToFrom
<1>5. /\ Cleared(Initramfs, 12, "cpio") /\ Cleared(Initramfs, 12, "gz")
      /\ Cleared(Initramfs, 12, "lz4")
      /\ Cleared(Initramfs, 12, "rootfs")
  BY InitramfsSteps DEF Cleared
<1>6. /\ Prepared(Initramfs, 1) /\ Prepared(Initramfs, 2) /\ Prepared(Initramfs, 3)
      /\ Prepared(Initramfs, 4) /\ Prepared(Initramfs, 5)
  BY InitramfsSteps, <1>1, PreparedFacts
<1>7. /\ Prepared(Initramfs, 6) /\ Prepared(Initramfs, 7)
  BY InitramfsSteps, <1>4, NeedsFacts, WellFormedFacts DEF Prepared, Remove, Work
<1>8. /\ Prepared(Initramfs, 8) /\ Prepared(Initramfs, 9) /\ Prepared(Initramfs, 10)
      /\ Prepared(Initramfs, 11)
  <2>1. /\ Initramfs[8].op \in Writes /\ Initramfs[8].file = "rootfs" /\ WellFormed(Initramfs[8])
        /\ Initramfs[9].op \in Writes /\ Initramfs[9].file = "cpio" /\ WellFormed(Initramfs[9])
        /\ Initramfs[10].op \in Writes /\ Initramfs[10].file = "gz" /\ WellFormed(Initramfs[10])
        /\ Initramfs[11].op \in Writes /\ Initramfs[11].file = "lz4" /\ WellFormed(Initramfs[11])
    BY InitramfsSteps, <1>1, PlaceFacts, WriteFacts DEF Sources, Writes
  <2> QED BY <1>1, <1>4, <2>1, PlainPrepared
<1>9. Prepared(Initramfs, 12)
  <2>1. \A f \in Mandatory["initramfs"] : SeenTo(Initramfs, 12, Made(f))
    BY <1>4, Tables
  <2>2. \A f \in Listable["initramfs"] \ Own("initramfs") : SeenTo(Initramfs, 12, Gone(f))
    BY <1>4, Tables, OwnTable
  <2>3. \A f \in Own("initramfs") : Cleared(Initramfs, 12, f)
    BY <1>5, OwnTable
  <2> QED BY InitramfsSteps, <1>1, <2>1, <2>2, <2>3, DigestPrepared
<1>10. \A k \in 1..12 : Prepared(Initramfs, k)
  BY <1>6, <1>7, <1>8, <1>9
<1> QED BY InitramfsSteps, <1>2, <1>10 DEF Disciplined

\* build-dtbo.sh, step by step.
LEMMA DtboSteps ==
  /\ Len(Dtbo) = 11 /\ Dtbo[1] = Check /\ Dtbo[2] = Remove("dtbo")
  /\ Dtbo[3] = Remove(SumsFile["dtbo"]) /\ Dtbo[4] = Remove("entries")
  /\ Dtbo[5] = NeedWhole("manifest") /\ Dtbo[6] = Need("dtbs") /\ Dtbo[7] = Work("dtbo")
  /\ Dtbo[8] = Copied("dtbo", {"dtbs"}) /\ Dtbo[9] = Remove("entries")
  /\ Dtbo[10] = Copied("entries", {"dtbs"}) /\ Dtbo[11] = Digested("dtbo")
BY DEF Dtbo

\* build-dtbo.sh counts only on what it has seen to.
LEMMA DtboDisciplined == Disciplined(Dtbo)
<1> DEFINE sums == SumsFile["dtbo"]
<1>1. /\ "dtbo" \in Places /\ sums \in Files
      /\ {"dtbo"} \subseteq Own("dtbo")
      /\ {"dtbo", "entries", "manifest", "dtbs"} \subseteq Files
      /\ sums \notin {"tree", "commit", "rootfs", "dtbo", "entries", "manifest", "dtbs"}
  BY Tables, OwnTable, PlaceFacts, FileNames
<1>2. Dtbo \in Seq(Steps)
  <2>1. /\ Check \in Steps /\ Remove("dtbo") \in Steps /\ Remove(sums) \in Steps
        /\ Remove("entries") \in Steps /\ NeedWhole("manifest") \in Steps
        /\ Need("dtbs") \in Steps /\ Work("dtbo") \in Steps
        /\ Copied("dtbo", {"dtbs"}) \in Steps /\ Copied("entries", {"dtbs"}) \in Steps
        /\ Digested("dtbo") \in Steps
    BY <1>1, StepTypes DEF Things
  <2> QED BY <2>1 DEF Dtbo
<1>3. /\ Standing(Dtbo, 3, 8, Gone(sums)) /\ Standing(Dtbo, 6, 8, There("dtbs"))
      /\ Standing(Dtbo, 8, 11, Made("dtbo"))
  <2>1. /\ Changes(Dtbo[1]) = {} /\ Changes(Dtbo[2]) = {"dtbo"} /\ Changes(Dtbo[3]) = {sums}
        /\ Changes(Dtbo[4]) = {"entries"} /\ Changes(Dtbo[5]) = {} /\ Changes(Dtbo[6]) = {}
        /\ Changes(Dtbo[7]) = {} /\ Changes(Dtbo[8]) = {"dtbo"} /\ Changes(Dtbo[9]) = {"entries"}
        /\ Changes(Dtbo[10]) = {"entries"} /\ Changes(Dtbo[11]) = {sums}
    BY DtboSteps, ChangesFacts
  <2>2. /\ Gone(sums) \in Brings(Dtbo[3]) /\ There("dtbs") \in Brings(Dtbo[6])
        /\ Made("dtbo") \in Brings(Dtbo[8])
    BY DtboSteps, BringsFacts
  <2>3. /\ About(Gone(sums)) = {sums} /\ About(There("dtbs")) = {"dtbs"}
        /\ About(Made("dtbo")) = {"dtbo"}
    BY AboutFacts
  <2> HIDE DEF sums
  <2>4. Standing(Dtbo, 3, 8, Gone(sums))
    BY <1>1, <2>1, <2>2, <2>3 DEF Standing
  <2>5. Standing(Dtbo, 6, 8, There("dtbs"))
    BY <1>1, <2>1, <2>2, <2>3 DEF Standing
  <2>6. Standing(Dtbo, 8, 11, Made("dtbo"))
    BY <1>1, <2>1, <2>2, <2>3 DEF Standing
  <2> QED BY <2>4, <2>5, <2>6
<1>4. /\ SeenTo(Dtbo, 7, Gone(sums)) /\ SeenTo(Dtbo, 8, Gone(sums))
      /\ SeenTo(Dtbo, 8, There("dtbs"))
      /\ SeenTo(Dtbo, 11, Made("dtbo"))
  BY <1>3, SeenToFrom
<1>5. /\ Cleared(Dtbo, 11, "dtbo")
  BY DtboSteps DEF Cleared
<1>6. /\ Prepared(Dtbo, 1) /\ Prepared(Dtbo, 2) /\ Prepared(Dtbo, 3) /\ Prepared(Dtbo, 4)
      /\ Prepared(Dtbo, 5)
      /\ Prepared(Dtbo, 6) /\ Prepared(Dtbo, 9)
  BY DtboSteps, <1>1, PreparedFacts
<1>7. /\ Prepared(Dtbo, 7)
  BY DtboSteps, <1>4, NeedsFacts, WellFormedFacts DEF Prepared, Remove, Work
<1>8. /\ Prepared(Dtbo, 8) /\ Prepared(Dtbo, 10)
  <2>1. /\ Dtbo[8].op \in Writes /\ Dtbo[8].file = "dtbo" /\ WellFormed(Dtbo[8])
        /\ Dtbo[10].op \in Writes /\ Dtbo[10].file = "entries" /\ WellFormed(Dtbo[10])
    BY DtboSteps, <1>1, PlaceFacts, WriteFacts DEF Sources, Writes
  <2>2. Prepared(Dtbo, 8)
    BY <1>1, <1>4, <2>1, WritePrepared DEF Sources
  <2>3. Prepared(Dtbo, 10)
    <3>1. ASSUME NEW c \in Needs(Dtbo[10])
          PROVE  FALSE
      <4>1. \A p \in Places : "entries" \notin Own(p)
        BY Owner
      <4> QED BY <2>1, <4>1, WriteNeeds DEF Sources
    <3>2. Dtbo[10].op # "digest"
      BY <2>1 DEF Writes
    <3> QED BY <2>1, <3>1, <3>2 DEF Prepared
  <2> QED BY <2>2, <2>3
<1>9. Prepared(Dtbo, 11)
  <2>1. \A f \in Mandatory["dtbo"] : SeenTo(Dtbo, 11, Made(f))
    BY <1>4, Tables
  <2>2. \A f \in Listable["dtbo"] \ Own("dtbo") : SeenTo(Dtbo, 11, Gone(f))
    BY <1>4, Tables, OwnTable
  <2>3. \A f \in Own("dtbo") : Cleared(Dtbo, 11, f)
    BY <1>5, OwnTable
  <2> QED BY DtboSteps, <1>1, <2>1, <2>2, <2>3, DigestPrepared
<1>10. \A k \in 1..11 : Prepared(Dtbo, k)
  BY <1>6, <1>7, <1>8, <1>9
<1> QED BY DtboSteps, <1>2, <1>10 DEF Disciplined

\* extract-firmware-zip.sh, step by step.
LEMMA StockSteps ==
  /\ Len(Stock) = 14 /\ Stock[1] = Check /\ Stock[2] = Remove("raw_boot")
  /\ Stock[3] = Remove("raw_init_boot") /\ Stock[4] = Remove("stock_boot")
  /\ Stock[5] = Remove("stock_init_boot") /\ Stock[6] = Remove("manifest")
  /\ Stock[7] = Remove(SumsFile["stock"]) /\ Stock[8] = Work("stock")
  /\ Stock[9] = Moved("raw_boot", {}) /\ Stock[10] = Moved("raw_init_boot", {})
  /\ Stock[11] = Copied("stock_boot", {"raw_boot"})
  /\ Stock[12] = Copied("stock_init_boot", {"raw_init_boot"})
  /\ Stock[13] = Copied("manifest", {}) /\ Stock[14] = Digested("stock")
BY DEF Stock, Unpacked, Decompressed

\* extract-firmware-zip.sh counts only on what it has seen to.
LEMMA StockDisciplined == Disciplined(Stock)
<1> DEFINE sums == SumsFile["stock"]
<1>1. /\ "stock" \in Places /\ sums \in Files
      /\ {"raw_boot", "raw_init_boot", "stock_boot", "stock_init_boot", "manifest"} \subseteq Own("stock")
      /\ {"raw_boot", "raw_init_boot", "stock_boot", "stock_init_boot", "manifest"} \subseteq Files
      /\ sums \notin {"tree", "commit", "rootfs", "raw_boot", "raw_init_boot", "stock_boot",
             "stock_init_boot", "manifest"}
  BY Tables, OwnTable, PlaceFacts, FileNames
<1>2. Stock \in Seq(Steps)
  <2>1. <<Check, Remove("raw_boot"), Remove("raw_init_boot"), Remove("stock_boot"),
          Remove("stock_init_boot"), Remove("manifest"), Remove(sums)>> \in Seq(Steps)
    <3>1. /\ Check \in Steps /\ Remove("raw_boot") \in Steps
          /\ Remove("raw_init_boot") \in Steps /\ Remove("stock_boot") \in Steps
          /\ Remove("stock_init_boot") \in Steps /\ Remove("manifest") \in Steps
          /\ Remove(sums) \in Steps
      BY <1>1, StepTypes DEF Things
    <3> QED BY <3>1
  <2>2. Unpacked \in Seq(Steps)
    <3>1. /\ Work("stock") \in Steps /\ Moved("raw_boot", {}) \in Steps
          /\ Moved("raw_init_boot", {}) \in Steps
      BY <1>1, StepTypes DEF Things
    <3> QED BY <3>1 DEF Unpacked
  <2>3. Decompressed \in Seq(Steps)
    <3>1. /\ Copied("stock_boot", {"raw_boot"}) \in Steps
          /\ Copied("stock_init_boot", {"raw_init_boot"}) \in Steps
          /\ Copied("manifest", {}) \in Steps /\ Digested("stock") \in Steps
      BY <1>1, StepTypes DEF Things
    <3> QED BY <3>1 DEF Decompressed
  <2> QED BY <2>1, <2>2, <2>3, ConcatProperties DEF Stock, Unpacked, Decompressed
<1>3. /\ Standing(Stock, 7, 13, Gone(sums)) /\ Standing(Stock, 11, 14, Made("stock_boot"))
      /\ Standing(Stock, 12, 14, Made("stock_init_boot"))
  <2>1. /\ Changes(Stock[1]) = {} /\ Changes(Stock[2]) = {"raw_boot"}
        /\ Changes(Stock[3]) = {"raw_init_boot"} /\ Changes(Stock[4]) = {"stock_boot"}
        /\ Changes(Stock[5]) = {"stock_init_boot"} /\ Changes(Stock[6]) = {"manifest"}
        /\ Changes(Stock[7]) = {sums} /\ Changes(Stock[8]) = {} /\ Changes(Stock[9]) = {"raw_boot"}
        /\ Changes(Stock[10]) = {"raw_init_boot"} /\ Changes(Stock[11]) = {"stock_boot"}
        /\ Changes(Stock[12]) = {"stock_init_boot"} /\ Changes(Stock[13]) = {"manifest"}
        /\ Changes(Stock[14]) = {sums}
    BY StockSteps, ChangesFacts
  <2>2. /\ Gone(sums) \in Brings(Stock[7]) /\ Made("stock_boot") \in Brings(Stock[11])
        /\ Made("stock_init_boot") \in Brings(Stock[12])
    BY StockSteps, BringsFacts
  <2>3. /\ About(Gone(sums)) = {sums} /\ About(Made("stock_boot")) = {"stock_boot"}
        /\ About(Made("stock_init_boot")) = {"stock_init_boot"}
    BY AboutFacts
  <2> HIDE DEF sums
  <2>4. Standing(Stock, 7, 13, Gone(sums))
    BY <1>1, <2>1, <2>2, <2>3 DEF Standing
  <2>5. Standing(Stock, 11, 14, Made("stock_boot"))
    BY <1>1, <2>1, <2>2, <2>3 DEF Standing
  <2>6. Standing(Stock, 12, 14, Made("stock_init_boot"))
    BY <1>1, <2>1, <2>2, <2>3 DEF Standing
  <2> QED BY <2>4, <2>5, <2>6
<1>4. /\ SeenTo(Stock, 8, Gone(sums)) /\ SeenTo(Stock, 9, Gone(sums))
      /\ SeenTo(Stock, 10, Gone(sums))
      /\ SeenTo(Stock, 11, Gone(sums)) /\ SeenTo(Stock, 12, Gone(sums))
      /\ SeenTo(Stock, 13, Gone(sums))
      /\ SeenTo(Stock, 14, Made("stock_boot")) /\ SeenTo(Stock, 14, Made("stock_init_boot"))
  BY <1>3, SeenToFrom
<1>5. /\ Cleared(Stock, 14, "stock_boot") /\ Cleared(Stock, 14, "stock_init_boot")
      /\ Cleared(Stock, 14, "raw_boot") /\ Cleared(Stock, 14, "raw_init_boot")
      /\ Cleared(Stock, 14, "manifest")
  BY StockSteps DEF Cleared
<1>6. /\ Prepared(Stock, 1) /\ Prepared(Stock, 2) /\ Prepared(Stock, 3) /\ Prepared(Stock, 4)
      /\ Prepared(Stock, 5)
      /\ Prepared(Stock, 6) /\ Prepared(Stock, 7)
  BY StockSteps, <1>1, PreparedFacts
<1>7. /\ Prepared(Stock, 8)
  BY StockSteps, <1>4, NeedsFacts, WellFormedFacts DEF Prepared, Remove, Work
<1>8. /\ Prepared(Stock, 9) /\ Prepared(Stock, 10) /\ Prepared(Stock, 11) /\ Prepared(Stock, 12)
       /\ Prepared(Stock, 13)
  <2>1. /\ Stock[9].op \in Writes /\ Stock[9].file = "raw_boot" /\ WellFormed(Stock[9])
        /\ Stock[10].op \in Writes /\ Stock[10].file = "raw_init_boot" /\ WellFormed(Stock[10])
        /\ Stock[11].op \in Writes /\ Stock[11].file = "stock_boot" /\ WellFormed(Stock[11])
        /\ Stock[12].op \in Writes /\ Stock[12].file = "stock_init_boot" /\ WellFormed(Stock[12])
        /\ Stock[13].op \in Writes /\ Stock[13].file = "manifest" /\ WellFormed(Stock[13])
    BY StockSteps, <1>1, PlaceFacts, WriteFacts DEF Sources, Writes
  <2> QED BY <1>1, <1>4, <2>1, PlainPrepared
<1>9. Prepared(Stock, 14)
  <2>1. \A f \in Mandatory["stock"] : SeenTo(Stock, 14, Made(f))
    BY <1>4, Tables
  <2>2. \A f \in Listable["stock"] \ Own("stock") : SeenTo(Stock, 14, Gone(f))
    BY <1>4, Tables, OwnTable
  <2>3. \A f \in Own("stock") : Cleared(Stock, 14, f)
    BY <1>5, OwnTable
  <2> QED BY StockSteps, <1>1, <2>1, <2>2, <2>3, DigestPrepared
<1>10. \A k \in 1..14 : Prepared(Stock, k)
  BY <1>6, <1>7, <1>8, <1>9
<1> QED BY StockSteps, <1>2, <1>10 DEF Disciplined

\* repack-reference-in-lima.sh, step by step.
LEMMA RepackSteps ==
  /\ Len(Repack) = 20 /\ Repack[1] = Need("stock_boot") /\ Repack[2] = Need("stock_init_boot")
  /\ Repack[3] = Need("Image") /\ Repack[4] = Need("cpio")
  /\ Repack[5] = Remove(SumsFile["candidates"]) /\ Repack[6] = Work("candidates")
  /\ Repack[7] = Need("stock_boot") /\ Repack[8] = Need("Image") /\ Repack[9] = Remove("boot")
  /\ Repack[10] = Check /\ Repack[11] = Moved("boot", {"stock_boot", "Image"})
  /\ Repack[12] = Need("stock_init_boot") /\ Repack[13] = Need("cpio")
  /\ Repack[14] = Remove("init_boot") /\ Repack[15] = Check
  /\ Repack[16] = Moved("init_boot", {"stock_init_boot", "cpio"})
  /\ Repack[17] = Digested("candidates") /\ Repack[18] = NeedWhole("stock_boot")
  /\ Repack[19] = NeedWhole("stock_init_boot") /\ Repack[20] = Check
BY DEF Repack, Repacked, RepackOne

\* repack-reference-in-lima.sh counts only on what it has seen to.
LEMMA RepackDisciplined == Disciplined(Repack)
<1> DEFINE sums == SumsFile["candidates"]
<1>1. /\ "candidates" \in Places /\ sums \in Files
      /\ {"boot", "init_boot"} \subseteq Own("candidates")
      /\ {"stock_boot", "stock_init_boot", "Image", "cpio", "boot", "init_boot"} \subseteq Files
      /\ sums \notin {"tree", "commit", "rootfs", "stock_boot", "stock_init_boot", "Image", "cpio",
             "boot", "init_boot"}
  BY Tables, OwnTable, PlaceFacts, FileNames
<1>2. Repack \in Seq(Steps)
  <2>1. <<Need("stock_boot"), Need("stock_init_boot"), Need("Image"), Need("cpio"),
          Remove(sums), Work("candidates")>> \in Seq(Steps)
    <3>1. /\ Need("stock_boot") \in Steps /\ Need("stock_init_boot") \in Steps
          /\ Need("Image") \in Steps /\ Need("cpio") \in Steps /\ Remove(sums) \in Steps
          /\ Work("candidates") \in Steps
      BY <1>1, StepTypes DEF Things
    <3> QED BY <3>1
  <2>2. RepackOne("boot", "stock_boot", "Image") \in Seq(Steps)
    <3>1. /\ Need("stock_boot") \in Steps /\ Need("Image") \in Steps /\ Remove("boot") \in Steps
          /\ Check \in Steps /\ Moved("boot", {"stock_boot", "Image"}) \in Steps
      BY <1>1, StepTypes DEF Things
    <3> QED BY <3>1 DEF RepackOne
  <2>3. RepackOne("init_boot", "stock_init_boot", "cpio") \in Seq(Steps)
    <3>1. /\ Need("stock_init_boot") \in Steps /\ Need("cpio") \in Steps
          /\ Remove("init_boot") \in Steps /\ Check \in Steps
          /\ Moved("init_boot", {"stock_init_boot", "cpio"}) \in Steps
      BY <1>1, StepTypes DEF Things
    <3> QED BY <3>1 DEF RepackOne
  <2>4. <<Digested("candidates")>> \in Seq(Steps)
    <3>1. /\ Digested("candidates") \in Steps
      BY <1>1, StepTypes DEF Things
    <3> QED BY <3>1
  <2>5. <<NeedWhole("stock_boot"), NeedWhole("stock_init_boot"), Check>> \in Seq(Steps)
    <3>1. /\ NeedWhole("stock_boot") \in Steps /\ NeedWhole("stock_init_boot") \in Steps
          /\ Check \in Steps
      BY <1>1, StepTypes DEF Things
    <3> QED BY <3>1
  <2> QED BY <2>1, <2>2, <2>3, <2>4, <2>5, ConcatProperties DEF Repack, Repacked, RepackOne
<1>3. /\ Standing(Repack, 5, 16, Gone(sums)) /\ Standing(Repack, 11, 17, Made("boot"))
      /\ Standing(Repack, 16, 17, Made("init_boot"))
  <2>1. /\ Changes(Repack[1]) = {} /\ Changes(Repack[2]) = {} /\ Changes(Repack[3]) = {}
        /\ Changes(Repack[4]) = {}
        /\ Changes(Repack[5]) = {sums} /\ Changes(Repack[6]) = {} /\ Changes(Repack[7]) = {}
        /\ Changes(Repack[8]) = {} /\ Changes(Repack[9]) = {"boot"} /\ Changes(Repack[10]) = {}
        /\ Changes(Repack[11]) = {"boot"} /\ Changes(Repack[12]) = {} /\ Changes(Repack[13]) = {}
        /\ Changes(Repack[14]) = {"init_boot"} /\ Changes(Repack[15]) = {}
        /\ Changes(Repack[16]) = {"init_boot"} /\ Changes(Repack[17]) = {sums}
        /\ Changes(Repack[18]) = {}
        /\ Changes(Repack[19]) = {} /\ Changes(Repack[20]) = {}
    BY RepackSteps, ChangesFacts
  <2>2. /\ Gone(sums) \in Brings(Repack[5]) /\ Made("boot") \in Brings(Repack[11])
        /\ Made("init_boot") \in Brings(Repack[16])
    BY RepackSteps, BringsFacts
  <2>3. /\ About(Gone(sums)) = {sums} /\ About(Made("boot")) = {"boot"}
        /\ About(Made("init_boot")) = {"init_boot"}
    BY AboutFacts
  <2> HIDE DEF sums
  <2>4. Standing(Repack, 5, 16, Gone(sums))
    BY <1>1, <2>1, <2>2, <2>3 DEF Standing
  <2>5. Standing(Repack, 11, 17, Made("boot"))
    BY <1>1, <2>1, <2>2, <2>3 DEF Standing
  <2>6. Standing(Repack, 16, 17, Made("init_boot"))
    BY <1>1, <2>1, <2>2, <2>3 DEF Standing
  <2> QED BY <2>4, <2>5, <2>6
<1>4. /\ SeenTo(Repack, 6, Gone(sums)) /\ SeenTo(Repack, 11, Gone(sums))
      /\ SeenTo(Repack, 16, Gone(sums))
      /\ SeenTo(Repack, 17, Made("boot")) /\ SeenTo(Repack, 17, Made("init_boot"))
  BY <1>3, SeenToFrom
<1>5. /\ Cleared(Repack, 17, "boot") /\ Cleared(Repack, 17, "init_boot")
  BY RepackSteps DEF Cleared
<1>6. /\ Prepared(Repack, 1) /\ Prepared(Repack, 2) /\ Prepared(Repack, 3)
      /\ Prepared(Repack, 4) /\ Prepared(Repack, 5)
      /\ Prepared(Repack, 7) /\ Prepared(Repack, 8) /\ Prepared(Repack, 9) /\ Prepared(Repack, 10)
      /\ Prepared(Repack, 12) /\ Prepared(Repack, 13) /\ Prepared(Repack, 14)
      /\ Prepared(Repack, 15)
      /\ Prepared(Repack, 18) /\ Prepared(Repack, 19) /\ Prepared(Repack, 20)
  BY RepackSteps, <1>1, PreparedFacts
<1>7. /\ Prepared(Repack, 6)
  BY RepackSteps, <1>4, NeedsFacts, WellFormedFacts DEF Prepared, Remove, Work
<1>8. /\ Prepared(Repack, 11) /\ Prepared(Repack, 16)
  <2>1. /\ Repack[11].op \in Writes /\ Repack[11].file = "boot" /\ WellFormed(Repack[11])
        /\ Repack[16].op \in Writes /\ Repack[16].file = "init_boot" /\ WellFormed(Repack[16])
    BY RepackSteps, <1>1, PlaceFacts, WriteFacts DEF Sources, Writes
  <2> QED BY <1>1, <1>4, <2>1, PlainPrepared
<1>9. Prepared(Repack, 17)
  <2>1. \A f \in Mandatory["candidates"] : SeenTo(Repack, 17, Made(f))
    BY <1>4, Tables
  <2>2. \A f \in Listable["candidates"] \ Own("candidates") : SeenTo(Repack, 17, Gone(f))
    BY <1>4, Tables, OwnTable
  <2>3. \A f \in Own("candidates") : Cleared(Repack, 17, f)
    BY <1>5, OwnTable
  <2> QED BY RepackSteps, <1>1, <2>1, <2>2, <2>3, DigestPrepared
<1>10. \A k \in 1..20 : Prepared(Repack, k)
  BY <1>6, <1>7, <1>8, <1>9
<1> QED BY RepackSteps, <1>2, <1>10 DEF Disciplined

\* What comes after the last patch.
KernelLast ==
  <<ComparePatches>> \o <<Check>> \o KernelInvalidates
  \o <<Work("dist")>> \o KernelDelivers \o <<Copied("metadata", {}), Digested("dist")>>

\* The pieces of the build of the kernel are sequences of steps.
LEMMA KernelPieces ==
  /\ <<ComparePatches>> \in Seq(Steps) /\ <<Check>> \in Seq(Steps)
  /\ KernelInvalidates \in Seq(Steps) /\ <<Work("dist")>> \in Seq(Steps)
  /\ KernelDelivers \in Seq(Steps)
  /\ <<Copied("metadata", {}), Digested("dist")>> \in Seq(Steps)
<1>1. <<ComparePatches>> \in Seq(Steps)
  <2>1. /\ ComparePatches \in Steps
    BY FileNames, Tables, StepTypes DEF Things
  <2> QED BY <2>1
<1>2. <<Check>> \in Seq(Steps)
  <2>1. /\ Check \in Steps
    BY FileNames, Tables, StepTypes DEF Things
  <2> QED BY <2>1
<1>3. KernelInvalidates \in Seq(Steps)
  <2>1. /\ Remove("modules") \in Steps /\ Remove("dtbs") \in Steps
        /\ Remove("entries") \in Steps /\ Remove("Image") \in Steps
        /\ Remove("config") \in Steps /\ Remove("System.map") \in Steps
        /\ Remove("metadata") \in Steps /\ Remove(SumsFile["dist"]) \in Steps
        /\ Remove("dtbo") \in Steps
        /\ Remove(SumsFile["dtbo"]) \in Steps
    BY FileNames, Tables, StepTypes DEF Things
  <2> QED BY <2>1 DEF KernelInvalidates
<1>4. <<Work("dist")>> \in Seq(Steps)
  <2>1. /\ Work("dist") \in Steps
    BY FileNames, Tables, StepTypes DEF Things
  <2> QED BY <2>1
<1>5. KernelDelivers \in Seq(Steps)
  <2>1. /\ Copied("modules", {"tree"}) \in Steps /\ Copied("Image", {"tree"}) \in Steps
        /\ Copied("dtbs", {"tree"}) \in Steps /\ Copied("config", {"tree"}) \in Steps
        /\ Tried("System.map") \in Steps
    BY FileNames, Tables, StepTypes DEF Things
  <2> QED BY <2>1 DEF KernelDelivers
<1>6. <<Copied("metadata", {}), Digested("dist")>> \in Seq(Steps)
  <2>1. /\ Copied("metadata", {}) \in Steps /\ Digested("dist") \in Steps
    BY FileNames, Tables, StepTypes DEF Things
  <2> QED BY <2>1
<1> QED BY <1>1, <1>2, <1>3, <1>4, <1>5, <1>6

\* What comes after the last patch, step by step.
LEMMA KernelLastSteps ==
  /\ Len(KernelLast) = 20 /\ KernelLast[1] = ComparePatches /\ KernelLast[2] = Check
  /\ KernelLast[3] = Remove("modules") /\ KernelLast[4] = Remove("dtbs")
  /\ KernelLast[5] = Remove("entries") /\ KernelLast[6] = Remove("Image")
  /\ KernelLast[7] = Remove("config") /\ KernelLast[8] = Remove("System.map")
  /\ KernelLast[9] = Remove("metadata") /\ KernelLast[10] = Remove(SumsFile["dist"])
  /\ KernelLast[11] = Remove("dtbo") /\ KernelLast[12] = Remove(SumsFile["dtbo"])
  /\ KernelLast[13] = Work("dist") /\ KernelLast[14] = Copied("modules", {"tree"})
  /\ KernelLast[15] = Copied("Image", {"tree"}) /\ KernelLast[16] = Copied("dtbs", {"tree"})
  /\ KernelLast[17] = Copied("config", {"tree"}) /\ KernelLast[18] = Tried("System.map")
  /\ KernelLast[19] = Copied("metadata", {}) /\ KernelLast[20] = Digested("dist")
BY DEF KernelLast, KernelInvalidates, KernelDelivers

\* The build of the kernel counts only on what it has seen to.
LEMMA KernelLastDisciplined == Disciplined(KernelLast)
<1> DEFINE sums == SumsFile["dist"]
           sums2 == SumsFile["dtbo"]
<1>1. /\ "dist" \in Places /\ sums \in Files /\ "dtbo" \in Places /\ sums2 \in Files /\ sums # sums2
      /\ {"modules", "dtbs", "Image", "config", "System.map", "metadata"} \subseteq Own("dist")
      /\ {"modules", "dtbs", "entries", "Image", "config", "System.map", "metadata", "dtbo"} \subseteq Files
      /\ sums \notin {"tree", "commit", "rootfs", "modules", "dtbs", "entries", "Image", "config",
             "System.map", "metadata", "dtbo"}
      /\ sums2 \notin {"tree", "commit", "rootfs", "modules", "dtbs", "entries", "Image", "config",
             "System.map", "metadata", "dtbo"}
  BY Tables, OwnTable, PlaceFacts, FileNames
<1>2. KernelLast \in Seq(Steps)
  BY KernelPieces, ConcatProperties DEF KernelLast
<1>3. /\ Standing(KernelLast, 10, 19, Gone(sums)) /\ Standing(KernelLast, 1, 17, Applied)
      /\ Standing(KernelLast, 11, 20, Gone("dtbo")) /\ Standing(KernelLast, 14, 20, Made("modules"))
      /\ Standing(KernelLast, 15, 20, Made("Image")) /\ Standing(KernelLast, 16, 20, Made("dtbs"))
      /\ Standing(KernelLast, 17, 20, Made("config"))
      /\ Standing(KernelLast, 19, 20, Made("metadata"))
      /\ Standing(KernelLast, 5, 20, Gone("entries"))
  <2>1. /\ Changes(KernelLast[1]) = {} /\ Changes(KernelLast[2]) = {}
        /\ Changes(KernelLast[3]) = {"modules"}
        /\ Changes(KernelLast[4]) = {"dtbs"} /\ Changes(KernelLast[5]) = {"entries"}
        /\ Changes(KernelLast[6]) = {"Image"}
        /\ Changes(KernelLast[7]) = {"config"} /\ Changes(KernelLast[8]) = {"System.map"}
        /\ Changes(KernelLast[9]) = {"metadata"} /\ Changes(KernelLast[10]) = {sums}
        /\ Changes(KernelLast[11]) = {"dtbo"}
        /\ Changes(KernelLast[12]) = {sums2} /\ Changes(KernelLast[13]) = {}
        /\ Changes(KernelLast[14]) = {"modules"}
        /\ Changes(KernelLast[15]) = {"Image"} /\ Changes(KernelLast[16]) = {"dtbs"}
        /\ Changes(KernelLast[17]) = {"config"} /\ Changes(KernelLast[18]) = {"System.map"}
        /\ Changes(KernelLast[19]) = {"metadata"} /\ Changes(KernelLast[20]) = {sums}
    BY KernelLastSteps, ChangesFacts
  <2>2. /\ Gone(sums) \in Brings(KernelLast[10]) /\ Applied \in Brings(KernelLast[1])
        /\ Gone("dtbo") \in Brings(KernelLast[11]) /\ Made("modules") \in Brings(KernelLast[14])
        /\ Made("Image") \in Brings(KernelLast[15]) /\ Made("dtbs") \in Brings(KernelLast[16])
        /\ Made("config") \in Brings(KernelLast[17]) /\ Made("metadata") \in Brings(KernelLast[19])
        /\ Gone("entries") \in Brings(KernelLast[5])
    BY KernelLastSteps, BringsFacts
  <2>3. /\ About(Gone(sums)) = {sums} /\ About(Applied) = {"tree"}
        /\ About(Gone("dtbo")) = {"dtbo"} /\ About(Made("modules")) = {"modules"}
        /\ About(Made("Image")) = {"Image"} /\ About(Made("dtbs")) = {"dtbs"}
        /\ About(Made("config")) = {"config"} /\ About(Made("metadata")) = {"metadata"}
        /\ About(Gone("entries")) = {"entries"}
    BY AboutFacts
  <2> HIDE DEF sums, sums2
  <2>4. Standing(KernelLast, 10, 19, Gone(sums))
    BY <1>1, <2>1, <2>2, <2>3 DEF Standing
  <2>5. Standing(KernelLast, 1, 17, Applied)
    BY <1>1, <2>1, <2>2, <2>3 DEF Standing
  <2>6. Standing(KernelLast, 11, 20, Gone("dtbo"))
    BY <1>1, <2>1, <2>2, <2>3 DEF Standing
  <2>7. Standing(KernelLast, 14, 20, Made("modules"))
    BY <1>1, <2>1, <2>2, <2>3 DEF Standing
  <2>8. Standing(KernelLast, 15, 20, Made("Image"))
    BY <1>1, <2>1, <2>2, <2>3 DEF Standing
  <2>9. Standing(KernelLast, 16, 20, Made("dtbs"))
    BY <1>1, <2>1, <2>2, <2>3 DEF Standing
  <2>10. Standing(KernelLast, 17, 20, Made("config"))
    BY <1>1, <2>1, <2>2, <2>3 DEF Standing
  <2>11. Standing(KernelLast, 19, 20, Made("metadata"))
    BY <1>1, <2>1, <2>2, <2>3 DEF Standing
  <2>12. Standing(KernelLast, 5, 20, Gone("entries"))
    BY <1>1, <2>1, <2>2, <2>3 DEF Standing
  <2> QED BY <2>4, <2>5, <2>6, <2>7, <2>8, <2>9, <2>10, <2>11, <2>12
<1>4. /\ SeenTo(KernelLast, 13, Gone(sums)) /\ SeenTo(KernelLast, 14, Gone(sums))
      /\ SeenTo(KernelLast, 14, Applied)
      /\ SeenTo(KernelLast, 15, Gone(sums)) /\ SeenTo(KernelLast, 15, Applied)
      /\ SeenTo(KernelLast, 16, Gone(sums))
      /\ SeenTo(KernelLast, 16, Applied) /\ SeenTo(KernelLast, 16, Gone("dtbo"))
      /\ SeenTo(KernelLast, 17, Gone(sums))
      /\ SeenTo(KernelLast, 17, Applied) /\ SeenTo(KernelLast, 18, Gone(sums))
      /\ SeenTo(KernelLast, 19, Gone(sums))
      /\ SeenTo(KernelLast, 20, Made("modules")) /\ SeenTo(KernelLast, 20, Made("Image"))
      /\ SeenTo(KernelLast, 20, Made("dtbs")) /\ SeenTo(KernelLast, 20, Made("config"))
      /\ SeenTo(KernelLast, 20, Made("metadata")) /\ SeenTo(KernelLast, 20, Gone("dtbo"))
      /\ SeenTo(KernelLast, 20, Gone("entries"))
  BY <1>3, SeenToFrom
<1>5. /\ Cleared(KernelLast, 20, "modules") /\ Cleared(KernelLast, 20, "Image")
      /\ Cleared(KernelLast, 20, "dtbs")
      /\ Cleared(KernelLast, 20, "config") /\ Cleared(KernelLast, 20, "System.map")
      /\ Cleared(KernelLast, 20, "metadata")
  BY KernelLastSteps DEF Cleared
<1>6. /\ Prepared(KernelLast, 1) /\ Prepared(KernelLast, 2) /\ Prepared(KernelLast, 3)
      /\ Prepared(KernelLast, 4) /\ Prepared(KernelLast, 5)
      /\ Prepared(KernelLast, 6) /\ Prepared(KernelLast, 7) /\ Prepared(KernelLast, 8)
      /\ Prepared(KernelLast, 9) /\ Prepared(KernelLast, 10)
      /\ Prepared(KernelLast, 11) /\ Prepared(KernelLast, 12)
  BY KernelLastSteps, <1>1, PreparedFacts
<1>7. /\ Prepared(KernelLast, 13)
  BY KernelLastSteps, <1>4, NeedsFacts, WellFormedFacts DEF Prepared, Remove, Work
<1>8. /\ Prepared(KernelLast, 14) /\ Prepared(KernelLast, 15) /\ Prepared(KernelLast, 16)
      /\ Prepared(KernelLast, 17)
       /\ Prepared(KernelLast, 18) /\ Prepared(KernelLast, 19)
  <2>1. /\ KernelLast[14].op \in Writes /\ KernelLast[14].file = "modules"
        /\ WellFormed(KernelLast[14])
        /\ KernelLast[15].op \in Writes /\ KernelLast[15].file = "Image"
        /\ WellFormed(KernelLast[15])
        /\ KernelLast[16].op \in Writes /\ KernelLast[16].file = "dtbs"
        /\ WellFormed(KernelLast[16])
        /\ KernelLast[17].op \in Writes /\ KernelLast[17].file = "config"
        /\ WellFormed(KernelLast[17])
        /\ KernelLast[18].op \in Writes /\ KernelLast[18].file = "System.map"
        /\ WellFormed(KernelLast[18])
        /\ KernelLast[19].op \in Writes /\ KernelLast[19].file = "metadata"
        /\ WellFormed(KernelLast[19])
    BY KernelLastSteps, <1>1, PlaceFacts, WriteFacts DEF Sources, Writes
  <2> QED BY <1>1, <1>4, <2>1, WritePrepared DEF Sources
<1>9. Prepared(KernelLast, 20)
  <2>1. \A f \in Mandatory["dist"] : SeenTo(KernelLast, 20, Made(f))
    BY <1>4, Tables
  <2>2. \A f \in Listable["dist"] \ Own("dist") : SeenTo(KernelLast, 20, Gone(f))
    BY <1>4, Tables, OwnTable
  <2>3. \A f \in Own("dist") : Cleared(KernelLast, 20, f)
    BY <1>5, OwnTable
  <2> QED BY KernelLastSteps, <1>1, <2>1, <2>2, <2>3, DigestPrepared
<1>10. \A k \in 1..20 : Prepared(KernelLast, k)
  BY <1>6, <1>7, <1>8, <1>9
<1> QED BY KernelLastSteps, <1>2, <1>10 DEF Disciplined

\* Up to the last patch.
KernelFirst ==
  <<[op |-> "clone"], Check>> \o [p \in Patches |-> [op |-> "patch", patch |-> p]]

\* However many patches there are, up to the last only the checkout changes.
LEMMA KernelFirstFacts ==
  /\ KernelFirst \in Seq(Steps)
  /\ \A k \in 1..Len(KernelFirst) : KernelFirst[k].op \in {"clone", "check", "patch"}
<1> DEFINE a == <<[op |-> "clone"], Check>>
           b == [p \in Patches |-> [op |-> "patch", patch |-> p]]
<1>1. a \in Seq(Steps) /\ Len(a) = 2 /\ \A i \in 1..2 : a[i].op \in {"clone", "check"}
  BY StepTypes DEF Steps, Check
<1>2. NPatches \in Nat /\ Patches = 1..NPatches
  BY BoundAssumption DEF Patches
<1>3. b \in [1..NPatches -> Steps]
  BY <1>2 DEF Steps
<1>4. b \in Seq(Steps) /\ Len(b) = NPatches /\ \A i \in 1..NPatches : b[i].op = "patch"
  <2>1. b \in Seq(Steps)
    BY <1>2, <1>3, SeqDef
  <2>2. Len(b) \in Nat /\ DOMAIN b = 1..Len(b) /\ DOMAIN b = 1..NPatches
    BY <2>1, <1>2, LenProperties
  <2>3. \A i \in 1..NPatches : b[i].op = "patch"
    BY <1>2
  <2> QED BY <1>2, <2>1, <2>2, <2>3
<1>5. KernelFirst = a \o b
  BY DEF KernelFirst
<1> HIDE DEF a, b
<1>6. /\ a \o b \in Seq(Steps) /\ Len(a \o b) = 2 + NPatches
      /\ \A i \in 1..(2 + NPatches) : (a \o b)[i] = IF i <= 2 THEN a[i] ELSE b[i - 2]
  <2>1. /\ a \o b \in Seq(Steps) /\ Len(a \o b) = Len(a) + Len(b)
        /\ \A i \in 1..(Len(a) + Len(b)) : (a \o b)[i] = IF i <= Len(a) THEN a[i] ELSE b[i - Len(a)]
    BY <1>1, <1>4, ConcatProperties, ZenonT(60)
  <2> QED BY <1>1, <1>4, <2>1
<1>7. \A i \in 1..(2 + NPatches) : (a \o b)[i].op \in {"clone", "check", "patch"}
  <2> TAKE i \in 1..(2 + NPatches)
  <2>1. CASE i <= 2
    BY <1>1, <1>2, <1>6, <2>1
  <2>2. CASE ~(i <= 2)
    <3>1. i - 2 \in 1..NPatches
      BY <1>2, <2>2
    <3> QED BY <1>4, <1>6, <2>2, <3>1
  <2> QED BY <2>1, <2>2
<1> QED BY <1>5, <1>6, <1>7

\* The patches count on nothing.
LEMMA KernelFirstDisciplined == Disciplined(KernelFirst)
<1>1. ASSUME NEW k \in 1..Len(KernelFirst)
      PROVE  Prepared(KernelFirst, k)
  <2>1. KernelFirst[k].op \in {"clone", "check", "patch"}
    BY KernelFirstFacts
  <2>2. Needs(KernelFirst[k]) = {} /\ WellFormed(KernelFirst[k])
    BY <2>1 DEF Needs, WellFormed, Writes
  <2> QED BY <2>1, <2>2 DEF Prepared
<1> QED BY <1>1, KernelFirstFacts DEF Disciplined

\* Concatenation, bracketed to the right.
LEMMA Associative ==
  ASSUME NEW S, NEW x \in Seq(S), NEW y \in Seq(S), NEW z \in Seq(S), NEW yz, yz = y \o z
  PROVE  (x \o y) \o z = x \o yz /\ yz \in Seq(S)
<1>1. x \o (y \o z) = (x \o y) \o z
  BY ConcatAssociative
<1>2. y \o z \in Seq(S)
  BY ConcatProperties
<1> QED BY <1>1, <1>2

\* The build of the kernel is what comes up to the last patch, and the rest.
LEMMA KernelInTwo == Kernel = KernelFirst \o KernelLast
<1> DEFINE a == KernelFirst
           b == <<ComparePatches>>
           c == <<Check>>
           d == KernelInvalidates
           e == <<Work("dist")>>
           f == KernelDelivers
           g == <<Copied("metadata", {}), Digested("dist")>>
           bc == b \o c
           bcd == bc \o d
           bcde == bcd \o e
           bcdef == bcde \o f
<1>1. /\ a \in Seq(Steps) /\ b \in Seq(Steps) /\ c \in Seq(Steps) /\ d \in Seq(Steps)
      /\ e \in Seq(Steps) /\ f \in Seq(Steps) /\ g \in Seq(Steps)
  BY KernelFirstFacts, KernelPieces, Zenon
<1>2. Kernel = (((((a \o b) \o c) \o d) \o e) \o f) \o g /\ KernelLast = bcdef \o g
  BY Zenon DEF Kernel, ApplyPatches, KernelFirst, KernelLast, ComparePatches
<1>3. bc = b \o c
  BY Zenon
<1>4. bcd = bc \o d
  BY Zenon
<1>5. bcde = bcd \o e
  BY Zenon
<1>6. bcdef = bcde \o f
  BY Zenon
<1> HIDE DEF a, b, c, d, e, f, g, bc, bcd, bcde, bcdef
<1>7. bc \in Seq(Steps)
  BY <1>1, <1>3, ConcatProperties
<1>8. bcd \in Seq(Steps)
  BY <1>1, <1>4, <1>7, ConcatProperties
<1>9. bcde \in Seq(Steps)
  BY <1>1, <1>5, <1>8, ConcatProperties
<1>10. bcdef \in Seq(Steps)
  BY <1>1, <1>6, <1>9, ConcatProperties
<1>11. (a \o b) \o c = a \o bc
  BY <1>1, <1>3, Associative, SMTT(30)
<1>12. (a \o bc) \o d = a \o bcd
  BY <1>1, <1>4, <1>7, Associative, SMTT(30)
<1>13. (a \o bcd) \o e = a \o bcde
  BY <1>1, <1>5, <1>8, Associative, SMTT(30)
<1>14. (a \o bcde) \o f = a \o bcdef
  BY <1>1, <1>6, <1>9, Associative, SMTT(30)
<1>15. (a \o bcdef) \o g = a \o KernelLast
  BY <1>1, <1>2, <1>10, Associative, SMTT(30)
<1>16. Kernel = a \o KernelLast
  BY <1>2, <1>11, <1>12, <1>13, <1>14, <1>15, Zenon
<1> QED BY <1>16, Zenon DEF a

\* Every script counts only on what it has itself seen to.
LEMMA EveryScriptDisciplined ==
  /\ DOMAIN Script = {"stock", "kernel", "busybox", "initramfs", "rescue", "dtbo", "repack", "all"}
  /\ \A x \in DOMAIN Script : Disciplined(Script[x])
<1>1. Disciplined(Kernel)
  BY KernelInTwo, KernelFirstDisciplined, KernelLastDisciplined, DisciplinedConcat
<1>2. Disciplined(<<Need("modules")>>)
  <2> DEFINE s == <<Need("modules")>>
  <2>1. Need("modules") \in Steps
    BY FileNames, StepTypes
  <2>2. s \in Seq(Steps) /\ Len(s) = 1 /\ s[1] = Need("modules")
    BY <2>1
  <2>3. Prepared(s, 1)
    BY <2>2, PreparedFacts
  <2> QED BY <2>2, <2>3 DEF Disciplined
<1>3. Disciplined(Rescue)
  BY <1>2, BusyboxDisciplined, InitramfsDisciplined, DisciplinedConcat DEF Rescue
<1>4. Disciplined(All)
  BY <1>1, <1>3, DtboDisciplined, RepackDisciplined, DisciplinedConcat DEF All
<1>5. DOMAIN Script = {"stock", "kernel", "busybox", "initramfs", "rescue", "dtbo", "repack", "all"}
  BY DEF Script
<1>6. /\ Script["stock"] = Stock /\ Script["kernel"] = Kernel /\ Script["busybox"] = Busybox
      /\ Script["initramfs"] = Initramfs /\ Script["rescue"] = Rescue /\ Script["dtbo"] = Dtbo
      /\ Script["repack"] = Repack /\ Script["all"] = All
  BY DEF Script
<1> QED BY <1>1, <1>3, <1>4, <1>5, <1>6, BusyboxDisciplined, InitramfsDisciplined, DtboDisciplined,
           RepackDisciplined, StockDisciplined

(***************************************************************************)
(* What the last steps of the pipeline leave.                              *)
(***************************************************************************)
\* A script that changes none of what a claim is about leaves it.
Spares(s, c) == \A i \in 1..Len(s) : Changes(s[i]) \cap About(c) = {}

\* Two scripts that leave a claim alone do so one after the other.
LEMMA SparesConcat ==
  ASSUME NEW s \in Seq(Steps), NEW t \in Seq(Steps), NEW c, Spares(s, c), Spares(t, c)
  PROVE  Spares(s \o t, c)
<1>1. /\ Len(s) \in Nat /\ Len(t) \in Nat /\ Len(s \o t) = Len(s) + Len(t)
      /\ \A i \in 1..Len(s) : (s \o t)[i] = s[i]
      /\ \A i \in 1..Len(t) : (s \o t)[Len(s) + i] = t[i]
  BY ConcatProperties, LenProperties
<1>2. ASSUME NEW i \in 1..Len(s \o t)
      PROVE  Changes((s \o t)[i]) \cap About(c) = {}
  <2>1. CASE i <= Len(s)
    BY <1>1, <2>1 DEF Spares
  <2>2. CASE ~(i <= Len(s))
    <3>1. i - Len(s) \in 1..Len(t) /\ Len(s) + (i - Len(s)) = i
      BY <1>1, <2>2
    <3>2. (s \o t)[i] = t[i - Len(s)]
      BY <1>1, <3>1
    <3> QED BY <3>1, <3>2 DEF Spares
  <2> QED BY <2>1, <2>2
<1> QED BY <1>2 DEF Spares

\* What stands when the repacking has completed.
LEMMA RepackEnds ==
  /\ EndsWith(Repack, Lists("candidates"))
  /\ EndsWith(Repack, Whole("stock_boot")) /\ EndsWith(Repack, Whole("stock_init_boot"))
  /\ EndsWith(Repack, MadeOf("boot", {"stock_boot", "Image"}))
  /\ EndsWith(Repack, MadeOf("init_boot", {"stock_init_boot", "cpio"}))
<1> DEFINE sums == SumsFile["candidates"]
<1>1. /\ Changes(Repack[12]) = {} /\ Changes(Repack[13]) = {} /\ Changes(Repack[14]) = {"init_boot"}
      /\ Changes(Repack[15]) = {} /\ Changes(Repack[16]) = {"init_boot"}
      /\ Changes(Repack[17]) = {sums}
      /\ Changes(Repack[18]) = {} /\ Changes(Repack[19]) = {} /\ Changes(Repack[20]) = {}
  BY RepackSteps, ChangesFacts
<1>2. /\ MadeOf("boot", {"stock_boot", "Image"}) \in Brings(Repack[11])
      /\ MadeOf("init_boot", {"stock_init_boot", "cpio"}) \in Brings(Repack[16])
      /\ Lists("candidates") \in Brings(Repack[17])
      /\ Whole("stock_boot") \in Brings(Repack[18])
      /\ Whole("stock_init_boot") \in Brings(Repack[19])
  <2>1. "boot" \notin {"stock_boot", "Image"} /\ "init_boot" \notin {"stock_init_boot", "cpio"}
    OBVIOUS
  <2> QED BY RepackSteps, <2>1, BringsFacts
<1>3. /\ About(MadeOf("boot", {"stock_boot", "Image"})) = {"boot", "stock_boot", "Image"}
      /\ About(MadeOf("init_boot", {"stock_init_boot", "cpio"})) =
           {"init_boot", "stock_init_boot", "cpio"}
  BY AboutFacts
<1>4. sums \notin {"boot", "stock_boot", "Image", "init_boot", "stock_init_boot", "cpio"}
  BY Tables
<1> HIDE DEF sums
<1>5. Standing(Repack, 11, 20, MadeOf("boot", {"stock_boot", "Image"}))
  BY <1>1, <1>2, <1>3, <1>4 DEF Standing
<1>6. Standing(Repack, 16, 20, MadeOf("init_boot", {"stock_init_boot", "cpio"}))
  BY <1>1, <1>2, <1>3, <1>4 DEF Standing
<1>7. Standing(Repack, 17, 20, Lists("candidates"))
  BY <1>1, <1>2 DEF Standing
<1>8. Standing(Repack, 18, 20, Whole("stock_boot")) /\ Standing(Repack, 19, 20, Whole("stock_init_boot"))
  BY <1>1, <1>2 DEF Standing
<1> QED BY RepackSteps, <1>5, <1>6, <1>7, <1>8 DEF EndsWith

\* All that build-busybox.sh changes.
LEMMA BusyboxTouches ==
  \A i \in 1..Len(Busybox) : Changes(Busybox[i]) \subseteq
    {"busybox", "commit", SumsFile["busybox"]}
<1>1. \A i \in 1..8 : Changes(Busybox[i]) \subseteq
        {"busybox", "commit", SumsFile["busybox"]}
  BY BusyboxSteps, ChangesFacts
<1> QED BY <1>1, BusyboxSteps

\* All that build-initramfs.sh changes.
LEMMA InitramfsTouches ==
  \A i \in 1..Len(Initramfs) : Changes(Initramfs[i]) \subseteq
    {"cpio", "gz", "lz4", "rootfs", SumsFile["initramfs"]}
<1>1. \A i \in 1..12 : Changes(Initramfs[i]) \subseteq
        {"cpio", "gz", "lz4", "rootfs", SumsFile["initramfs"]}
  BY InitramfsSteps, ChangesFacts
<1> QED BY <1>1, InitramfsSteps

\* All that build-dtbo.sh changes.
LEMMA DtboTouches ==
  \A i \in 1..Len(Dtbo) : Changes(Dtbo[i]) \subseteq
    {"dtbo", "entries", SumsFile["dtbo"]}
<1>1. \A i \in 1..11 : Changes(Dtbo[i]) \subseteq
        {"dtbo", "entries", SumsFile["dtbo"]}
  BY DtboSteps, ChangesFacts
<1> QED BY <1>1, DtboSteps

\* All that repack-reference-in-lima.sh changes.
LEMMA RepackTouches ==
  \A i \in 1..Len(Repack) : Changes(Repack[i]) \subseteq
    {"boot", "init_boot", SumsFile["candidates"]}
<1>1. \A i \in 1..20 : Changes(Repack[i]) \subseteq
        {"boot", "init_boot", SumsFile["candidates"]}
  BY RepackSteps, ChangesFacts
<1> QED BY <1>1, RepackSteps

\* What stands when the kernel has been built.
LEMMA KernelEnds ==
  EndsWith(KernelLast, Applied) /\ EndsWith(KernelLast, Lists("dist"))
<1>1. \A i \in 2..20 : "tree" \notin Changes(KernelLast[i])
  BY KernelLastSteps, ChangesFacts, Tables
<1>2. Applied \in Brings(KernelLast[1]) /\ Lists("dist") \in Brings(KernelLast[20])
  BY KernelLastSteps, BringsFacts
<1>3. Standing(KernelLast, 1, 20, Applied) /\ Standing(KernelLast, 20, 20, Lists("dist"))
  BY <1>1, <1>2, AboutFacts DEF Standing
<1> QED BY <1>3, KernelLastSteps DEF EndsWith

\* What stands when build-busybox.sh has completed.
LEMMA BusyboxEnds == EndsWith(Busybox, Lists("busybox"))
<1>1. Lists("busybox") \in Brings(Busybox[8])
  BY BusyboxSteps, BringsFacts
<1>2. Standing(Busybox, 8, 8, Lists("busybox"))
  BY <1>1 DEF Standing
<1> QED BY <1>2, BusyboxSteps DEF EndsWith

\* What stands when build-initramfs.sh has completed.
LEMMA InitramfsEnds ==
  /\ EndsWith(Initramfs, Lists("initramfs"))
  /\ EndsWith(Initramfs, MadeOf("rootfs", {"busybox"}))
  /\ EndsWith(Initramfs, MadeOf("cpio", {"rootfs"}))
<1> DEFINE sums == SumsFile["initramfs"]
<1>1. /\ Changes(Initramfs[9]) = {"cpio"} /\ Changes(Initramfs[10]) = {"gz"}
      /\ Changes(Initramfs[11]) = {"lz4"} /\ Changes(Initramfs[12]) = {sums}
      /\ sums \notin {"busybox", "rootfs", "cpio"}
  BY InitramfsSteps, ChangesFacts, Tables
<1>2. /\ MadeOf("rootfs", {"busybox"}) \in Brings(Initramfs[8])
      /\ MadeOf("cpio", {"rootfs"}) \in Brings(Initramfs[9])
      /\ Lists("initramfs") \in Brings(Initramfs[12])
  <2>1. "rootfs" \notin {"busybox"} /\ "cpio" \notin {"rootfs"}
    OBVIOUS
  <2> QED BY <2>1, InitramfsSteps, BringsFacts
<1>3. /\ About(MadeOf("rootfs", {"busybox"})) = {"rootfs", "busybox"}
      /\ About(MadeOf("cpio", {"rootfs"})) = {"cpio", "rootfs"}
  BY AboutFacts
<1> HIDE DEF sums
<1>4. /\ Standing(Initramfs, 8, 12, MadeOf("rootfs", {"busybox"}))
      /\ Standing(Initramfs, 9, 12, MadeOf("cpio", {"rootfs"}))
      /\ Standing(Initramfs, 12, 12, Lists("initramfs"))
  BY <1>1, <1>2, <1>3 DEF Standing
<1> QED BY <1>4, InitramfsSteps DEF EndsWith

\* What stands when build-dtbo.sh has completed.
LEMMA DtboEnds ==
  EndsWith(Dtbo, Lists("dtbo")) /\ EndsWith(Dtbo, MadeOf("dtbo", {"dtbs"}))
<1> DEFINE sums == SumsFile["dtbo"]
<1>1. /\ Changes(Dtbo[9]) = {"entries"} /\ Changes(Dtbo[10]) = {"entries"}
      /\ Changes(Dtbo[11]) = {sums} /\ sums \notin {"dtbo", "dtbs"}
  BY DtboSteps, ChangesFacts, Tables
<1>2. /\ MadeOf("dtbo", {"dtbs"}) \in Brings(Dtbo[8]) /\ Lists("dtbo") \in Brings(Dtbo[11])
  <2>1. "dtbo" \notin {"dtbs"}
    OBVIOUS
  <2> QED BY <2>1, DtboSteps, BringsFacts
<1>3. About(MadeOf("dtbo", {"dtbs"})) = {"dtbo", "dtbs"}
  BY AboutFacts
<1> HIDE DEF sums
<1>4. /\ Standing(Dtbo, 8, 11, MadeOf("dtbo", {"dtbs"})) /\ Standing(Dtbo, 11, 11, Lists("dtbo"))
  BY <1>1, <1>2, <1>3 DEF Standing
<1> QED BY <1>4, DtboSteps DEF EndsWith

\* What holds at the end of the pipeline.
LEMMA AllEnds ==
  /\ \A p \in Places \ {"stock"} : EndsWith(All, Lists(p))
  /\ EndsWith(All, Applied)
  /\ EndsWith(All, Whole("stock_boot")) /\ EndsWith(All, Whole("stock_init_boot"))
  /\ EndsWith(All, MadeOf("boot", {"stock_boot", "Image"}))
  /\ EndsWith(All, MadeOf("init_boot", {"stock_init_boot", "cpio"}))
  /\ EndsWith(All, MadeOf("rootfs", {"busybox"})) /\ EndsWith(All, MadeOf("cpio", {"rootfs"}))
  /\ EndsWith(All, MadeOf("dtbo", {"dtbs"}))
<1> DEFINE need == <<Need("modules")>>
           resc == need \o Busybox
           kr == Kernel \o Rescue
           krd == kr \o Dtbo
<1>1. /\ need \in Seq(Steps) /\ Busybox \in Seq(Steps) /\ Initramfs \in Seq(Steps)
      /\ Dtbo \in Seq(Steps) /\ Repack \in Seq(Steps) /\ KernelFirst \in Seq(Steps)
      /\ KernelLast \in Seq(Steps)
  <2>1. Need("modules") \in Steps
    BY FileNames, StepTypes
  <2> QED BY <2>1, BusyboxDisciplined, InitramfsDisciplined, DtboDisciplined, RepackDisciplined,
             KernelFirstDisciplined, KernelLastDisciplined DEF Disciplined
<1>2. \A i \in 1..Len(need) : Changes(need[i]) = {}
  BY ChangesFacts
<1>3. Kernel = KernelFirst \o KernelLast /\ Rescue = resc \o Initramfs /\ All = krd \o Repack
  BY KernelInTwo, Zenon DEF Rescue, All
<1>4. resc = need \o Busybox
  OBVIOUS
<1>5. kr = Kernel \o Rescue /\ krd = kr \o Dtbo
  OBVIOUS
<1> HIDE DEF need, resc, kr, krd
<1>6. /\ Kernel \in Seq(Steps) /\ resc \in Seq(Steps) /\ Rescue \in Seq(Steps)
      /\ kr \in Seq(Steps) /\ krd \in Seq(Steps)
  BY <1>1, <1>3, <1>4, <1>5, ConcatProperties
<1>7. ASSUME NEW c, EndsWith(Repack, c)
      PROVE  EndsWith(All, c)
  BY <1>1, <1>3, <1>6, <1>7, EndsConcat
<1>8. ASSUME NEW c, EndsWith(Dtbo, c), Spares(Repack, c)
      PROVE  EndsWith(All, c)
  <2>1. EndsWith(krd, c)
    BY <1>1, <1>5, <1>6, <1>8, EndsConcat
  <2> QED BY <1>1, <1>3, <1>6, <1>8, <2>1, EndsConcat DEF Spares
<1>9. ASSUME NEW c, EndsWith(Rescue, c), Spares(Dtbo, c), Spares(Repack, c)
      PROVE  EndsWith(All, c)
  <2>1. EndsWith(kr, c)
    BY <1>5, <1>6, <1>9, EndsConcat
  <2>2. EndsWith(krd, c)
    BY <1>1, <1>5, <1>6, <1>9, <2>1, EndsConcat DEF Spares
  <2> QED BY <1>1, <1>3, <1>6, <1>9, <2>2, EndsConcat DEF Spares
<1>10. ASSUME NEW c, EndsWith(Initramfs, c), Spares(Dtbo, c), Spares(Repack, c)
       PROVE  EndsWith(All, c)
  <2>1. EndsWith(Rescue, c)
    BY <1>1, <1>3, <1>6, <1>10, EndsConcat
  <2> QED BY <1>9, <1>10, <2>1
<1>11. ASSUME NEW c, EndsWith(Busybox, c), Spares(Initramfs, c), Spares(Dtbo, c), Spares(Repack, c)
       PROVE  EndsWith(All, c)
  <2>1. EndsWith(resc, c)
    BY <1>1, <1>4, <1>11, EndsConcat
  <2>2. EndsWith(Rescue, c)
    BY <1>1, <1>3, <1>6, <1>11, <2>1, EndsConcat DEF Spares
  <2> QED BY <1>9, <1>11, <2>2
<1>12. ASSUME NEW c, EndsWith(KernelLast, c), Spares(Busybox, c), Spares(Initramfs, c),
              Spares(Dtbo, c), Spares(Repack, c)
       PROVE  EndsWith(All, c)
  <2>1. EndsWith(Kernel, c)
    BY <1>1, <1>3, <1>12, EndsConcat
  <2>2. Spares(need, c)
    BY <1>2 DEF Spares
  <2>3. EndsWith(kr, c)
    <3>1. Spares(resc, c)
      BY <1>1, <1>4, <1>12, <2>2, SparesConcat
    <3>2. Spares(Rescue, c)
      BY <1>1, <1>3, <1>6, <1>12, <3>1, SparesConcat
    <3> QED BY <1>5, <1>6, <2>1, <3>2, EndsConcat DEF Spares
  <2>4. EndsWith(krd, c)
    BY <1>1, <1>5, <1>6, <1>12, <2>3, EndsConcat DEF Spares
  <2> QED BY <1>1, <1>3, <1>6, <1>12, <2>4, EndsConcat DEF Spares
<1>13. ASSUME NEW c, About(c) \cap {"boot", "init_boot", SumsFile["candidates"]} = {}
       PROVE  Spares(Repack, c)
  BY <1>13, RepackTouches DEF Spares
<1>14. ASSUME NEW c, About(c) \cap {"dtbo", "entries", SumsFile["dtbo"]} = {}
       PROVE  Spares(Dtbo, c)
  BY <1>14, DtboTouches DEF Spares
<1>15. ASSUME NEW c, About(c) \cap {"cpio", "gz", "lz4", "rootfs", SumsFile["initramfs"]} = {}
       PROVE  Spares(Initramfs, c)
  BY <1>15, InitramfsTouches DEF Spares
<1>16. ASSUME NEW c, About(c) \cap {"busybox", "commit", SumsFile["busybox"]} = {}
       PROVE  Spares(Busybox, c)
  BY <1>16, BusyboxTouches DEF Spares
<1>17. EndsWith(All, Lists("candidates"))
  BY <1>7, RepackEnds
<1>18. EndsWith(All, Lists("dtbo"))
  <2>1. About(Lists("dtbo")) = {SumsFile["dtbo"], "dtbo"}
    BY AboutFacts, Tables, OwnTable
  <2>2. Spares(Repack, Lists("dtbo"))
    BY <1>13, <2>1, Tables
  <2> QED BY <1>8, <2>2, DtboEnds
<1>19. EndsWith(All, Lists("initramfs"))
  <2>1. About(Lists("initramfs")) = {SumsFile["initramfs"], "cpio", "gz", "lz4"}
    BY AboutFacts, Tables, OwnTable
  <2>2. Spares(Repack, Lists("initramfs"))
    BY <1>13, <2>1, Tables
  <2>3. Spares(Dtbo, Lists("initramfs"))
    BY <1>14, <2>1, Tables
  <2> QED BY <1>10, <2>2, <2>3, InitramfsEnds
<1>20. EndsWith(All, Lists("busybox"))
  <2>1. About(Lists("busybox")) = {SumsFile["busybox"], "busybox"}
    BY AboutFacts, Tables, OwnTable
  <2>2. Spares(Repack, Lists("busybox"))
    BY <1>13, <2>1, Tables
  <2>3. Spares(Dtbo, Lists("busybox"))
    BY <1>14, <2>1, Tables
  <2>4. Spares(Initramfs, Lists("busybox"))
    BY <1>15, <2>1, Tables
  <2> QED BY <1>11, <2>2, <2>3, <2>4, BusyboxEnds
<1>21. EndsWith(All, Lists("dist"))
  <2>1. About(Lists("dist")) = {SumsFile["dist"], "modules", "Image", "dtbs", "config", "System.map",
                                "metadata"}
    BY AboutFacts, Tables, OwnTable
  <2>2. Spares(Repack, Lists("dist"))
    BY <1>13, <2>1, Tables
  <2>3. Spares(Dtbo, Lists("dist"))
    BY <1>14, <2>1, Tables
  <2>4. Spares(Initramfs, Lists("dist"))
    BY <1>15, <2>1, Tables
  <2>5. Spares(Busybox, Lists("dist"))
    BY <1>16, <2>1, Tables
  <2> QED BY <1>12, <2>2, <2>3, <2>4, <2>5, KernelEnds
<1>22. EndsWith(All, Applied)
  <2>1. About(Applied) = {"tree"} /\ "tree" \notin {SumsFile[p] : p \in Places}
    BY AboutFacts, FilesFacts
  <2>2. Spares(Repack, Applied)
    BY <1>13, <2>1, Tables
  <2>3. Spares(Dtbo, Applied)
    BY <1>14, <2>1, Tables
  <2>4. Spares(Initramfs, Applied)
    BY <1>15, <2>1, Tables
  <2>5. Spares(Busybox, Applied)
    BY <1>16, <2>1, Tables
  <2> QED BY <1>12, <2>2, <2>3, <2>4, <2>5, KernelEnds
<1>23. EndsWith(All, MadeOf("rootfs", {"busybox"}))
  <2> DEFINE c == MadeOf("rootfs", {"busybox"})
  <2>1. About(c) = {"rootfs", "busybox"}
    BY AboutFacts
  <2> HIDE DEF c
  <2>2. Spares(Repack, c)
    BY <1>13, <2>1, Tables
  <2>3. Spares(Dtbo, c)
    BY <1>14, <2>1, Tables
  <2> QED BY <1>10, <2>2, <2>3, InitramfsEnds DEF c
<1>24. EndsWith(All, MadeOf("cpio", {"rootfs"}))
  <2> DEFINE c == MadeOf("cpio", {"rootfs"})
  <2>1. About(c) = {"cpio", "rootfs"}
    BY AboutFacts
  <2> HIDE DEF c
  <2>2. Spares(Repack, c)
    BY <1>13, <2>1, Tables
  <2>3. Spares(Dtbo, c)
    BY <1>14, <2>1, Tables
  <2> QED BY <1>10, <2>2, <2>3, InitramfsEnds DEF c
<1>25. EndsWith(All, MadeOf("dtbo", {"dtbs"}))
  <2> DEFINE c == MadeOf("dtbo", {"dtbs"})
  <2>1. About(c) = {"dtbo", "dtbs"}
    BY AboutFacts
  <2> HIDE DEF c
  <2>2. Spares(Repack, c)
    BY <1>13, <2>1, Tables
  <2> QED BY <1>8, <2>2, DtboEnds DEF c
<1>26. /\ EndsWith(All, Whole("stock_boot")) /\ EndsWith(All, Whole("stock_init_boot"))
       /\ EndsWith(All, MadeOf("boot", {"stock_boot", "Image"}))
       /\ EndsWith(All, MadeOf("init_boot", {"stock_init_boot", "cpio"}))
  BY <1>7, RepackEnds
<1>27. \A p \in Places \ {"stock"} : EndsWith(All, Lists(p))
  BY <1>17, <1>18, <1>19, <1>20, <1>21, Tables
<1> QED BY <1>22, <1>23, <1>24, <1>25, <1>26, <1>27

(***************************************************************************)
(* Running them: what a claim says now and after a step.                   *)
(***************************************************************************)
LEMMA StepFacts ==
  ASSUME NEW st \in Steps
  PROVE  /\ st.op \in {"clone", "check", "compare", "patch", "need", "whole", "remove", "work",
                       "digest", "copy", "iftool", "move"}
         /\ st.op \in {"need", "whole", "remove"} => st.file \in Files
         /\ st.op \in Writes => st.file \in Files /\ st.from \in SUBSET Things
         /\ st.op \in {"work", "digest"} => st.place \in Places
         /\ st.op = "digest" => st = Digested(st.place)
         /\ st.op = "remove" => st = Remove(st.file)
BY DEF Steps, Writes, Digested, Remove

\* What a step brings about, case by case.
LEMMA BringsCases ==
  ASSUME NEW st \in Steps, NEW c \in Brings(st)
  PROVE  \/ st.op = "remove" /\ c = Gone(st.file)
         \/ /\ st.op = "move" \/ (st.op = "copy" /\ ~st.lenient)
            /\ c = Made(st.file) \/ (st.file \notin st.from /\ c = MadeOf(st.file, st.from))
         \/ st.op \in {"need", "whole"} /\ c = There(st.file)
         \/ st.op = "whole" /\ c = Whole(st.file)
         \/ st.op = "compare" /\ c = Applied
         \/ st.op = "digest" /\ c = Lists(st.place)
BY DEF Brings

\* The claims there are.
Claim(c) ==
  /\ c.fact \in {"applied", "of", "lists", "gone", "there", "whole", "made"}
  /\ IF c.fact = "applied" THEN c.file = "tree" ELSE c.file \in Files
  /\ c.from \in SUBSET Things
  /\ c.fact = "lists" => c.from \in SUBSET Files

\* All that steps bring about are claims.
LEMMA BringsClaims ==
  ASSUME NEW st \in Steps, NEW c \in Brings(st)
  PROVE  Claim(c)
<1>1. CASE st.op \in {"remove", "need", "whole"}
  BY <1>1, StepFacts, BringsCases DEF Claim, Gone, There, Whole, Writes
<1>2. CASE st.op \in Writes
  BY <1>2, StepFacts, BringsCases DEF Claim, Made, MadeOf, Writes
<1>3. CASE st.op = "compare"
  BY <1>3, StepFacts, BringsCases DEF Claim, Applied
<1>4. CASE st.op = "digest"
  <2>1. c = Lists(st.place) /\ st.place \in Places
    BY <1>4, StepFacts, BringsCases
  <2>2. /\ c.fact = "lists" /\ c.file = SumsFile[st.place]
        /\ c.from = Listable[st.place] \cap Own(st.place)
    BY <2>1 DEF Lists
  <2> QED BY <2>1, <2>2, FilesFacts DEF Claim, Things
<1>5. CASE st.op \in {"clone", "check", "patch", "work"}
  BY <1>5, BringsCases
<1> QED BY <1>1, <1>2, <1>3, <1>4, <1>5, StepFacts DEF Writes

\* What each claim says.
LEMMA HoldsFacts ==
  /\ \A f : Holds(Gone(f)) <=> file[f] = None
  /\ \A f : Holds(There(f)) <=> file[f] # None
  /\ \A f : Holds(Whole(f)) <=> file[f] # None /\ file[f].whole
  /\ \A f : Holds(Made(f)) <=> file[f] # None /\ file[f].whole /\ file[f].by = n
  /\ \A f, from : Holds(MadeOf(f, from)) <=> file[f] # None /\ file[f].of = Now(from)
  /\ \A p : Holds(Lists(p)) <=>
       /\ file[SumsFile[p]] # None /\ file[SumsFile[p]].whole
       /\ \A line \in file[SumsFile[p]].of :
            line.file \in Listable[p] \cap Own(p) => file[line.file] = line.content
  /\ Holds(Applied) <=> tree = Patched
BY DEF Holds, Gone, There, Whole, Made, MadeOf, Lists, Applied

\* Inputs that do not change hold what they held.
LEMMA NowKept ==
  ASSUME NEW from \in SUBSET Things, \A f \in from \cap Files : file'[f] = file[f],
         "tree" \in from => tree' = tree
  PROVE  Now(from)' = Now(from)
<1>1. \A g \in from : (IF g = "tree" THEN tree' ELSE file'[g]) = IF g = "tree" THEN tree ELSE file[g]
  BY DEF Things
<1> QED BY <1>1, Zenon DEF Now

\* A claim stays true while nothing it is about changes.
LEMMA Kept ==
  ASSUME NEW c, Claim(c), Holds(c), n' = n, \A f \in About(c) \cap Files : file'[f] = file[f],
         "tree" \in About(c) => tree' = tree
  PROVE  Holds(c)'
<1>1. CASE c.fact = "applied"
  BY <1>1 DEF Holds, Claim, About
<1>2. CASE c.fact = "of"
  <2>1. Now(c.from)' = Now(c.from)
    BY NowKept DEF Claim, About
  <2>2. file'[c.file] = file[c.file]
    BY <1>2 DEF Claim, About
  <2> QED BY <1>2, <2>1, <2>2 DEF Holds
<1>3. CASE c.fact = "lists"
  <2>1. /\ file'[c.file] = file[c.file]
        /\ \A f \in c.from : file'[f] = file[f]
    BY <1>3 DEF Claim, About
  <2> QED BY <1>3, <2>1 DEF Holds
<1>4. CASE c.fact \in {"gone", "there", "whole", "made"}
  <2>1. file'[c.file] = file[c.file]
    BY <1>4 DEF Claim, About
  <2> QED BY <1>4, <2>1 DEF Holds
<1> QED BY <1>1, <1>2, <1>3, <1>4 DEF Claim

(***************************************************************************)
(* What each kind of step does.                                            *)
(***************************************************************************)
\* The step that is next is one of a disciplined script.
LEMMA HereFacts ==
  ASSUME TypeOK, at <= Len(Script[script])
  PROVE  /\ Script[script] \in Seq(Steps) /\ Len(Script[script]) \in Nat
         /\ at \in 1..Len(Script[script]) /\ Here \in Steps
         /\ \A j \in 1..Len(Script[script]) : Script[script][j] \in Steps
         /\ Prepared(Script[script], at)
<1>1. Disciplined(Script[script])
  BY EveryScriptDisciplined DEF TypeOK
<1>2. Script[script] \in Seq(Steps) /\ Len(Script[script]) \in Nat
  BY <1>1 DEF Disciplined
<1>3. at \in 1..Len(Script[script])
  BY <1>2 DEF TypeOK
<1>4. \A j \in 1..Len(Script[script]) : Script[script][j] \in Steps
  BY <1>2
<1> QED BY <1>1, <1>2, <1>3, <1>4 DEF Disciplined, Here

\* A step is done in one go, or in two.
Moving ==
  /\ status = "running" /\ status' = "running" /\ n' = n /\ script' = script
  /\ at <= Len(Script[script])
  /\ (at' = at /\ half' = TRUE) \/ (at' = at + 1 /\ half' = FALSE)

\* The actions by what they do to the files: none, one gone, one written, digests.
Quiet ==
  /\ Moving /\ file' = file
  /\ Here.op \in {"clone", "patch"} \/ tree' = tree
  /\ Here.op \notin {"remove", "move", "digest"}
  /\ Here.op = "copy" => Here.lenient
  /\ Here.op = "compare" => tree = Patched
  /\ Here.op \in {"need", "whole"} => file[Here.file] # None
  /\ Here.op = "whole" => file[Here.file].whole
Removing ==
  /\ Moving /\ tree' = tree /\ Here.op = "remove"
  /\ \/ /\ Here.file \in Trees /\ file[Here.file] # None /\ half' = TRUE
        /\ file' = [file EXCEPT ![Here.file].whole = FALSE]
     \/ file' = [file EXCEPT ![Here.file] = None]
  /\ half' = FALSE => file' = [file EXCEPT ![Here.file] = None]
Writing ==
  /\ Moving /\ tree' = tree /\ Here.op \in Writes
  /\ \E whole \in BOOLEAN :
       /\ file' = [file EXCEPT ![Here.file] = [by |-> n, whole |-> whole, of |-> Now(Here.from)]]
       /\ half' = FALSE \/ Here.op = "move" => whole
\* The lines of a list of digests.
Lines(p) == {[file |-> f, content |-> file[f]] : f \in {f \in Listable[p] : file[f] # None}}
Digesting ==
  /\ Moving /\ tree' = tree /\ Here.op = "digest"
  /\ \E lines :
       /\ file' = [file EXCEPT ![SumsFile[Here.place]] = [by |-> n, whole |-> ~half', of |-> lines]]
       /\ IF half' THEN lines = {} ELSE lines = Lines(Here.place)

\* Every action is of one of these kinds, or starts or ends an invocation.
LEMMA StepKinds ==
  ASSUME TypeOK, Next
  PROVE  \/ Start \/ Quiet \/ Removing \/ Writing \/ Digesting
         \/ /\ UNCHANGED <<file, tree, n, script, at, half>>
            /\ status' = "failed" \/ (status' = "ok" /\ at > Len(Script[script])) \/ status' = status
<1> USE DEF AtStep, Here, Advance, Halfway, Moving, TypeOK
<1>1. CASE Clone
  BY <1>1 DEF Clone, Quiet
<1>2. CASE SkipPatch
  BY <1>2 DEF SkipPatch, Quiet
<1>3. CASE ApplyPatch
  BY <1>3 DEF ApplyPatch, Quiet
<1>4. CASE Compare
  BY <1>4 DEF Compare, Quiet
<1>5. CASE Pass
  BY <1>5 DEF Pass, Quiet
<1>6. CASE Require
  BY <1>6 DEF Require, Quiet
<1>7. CASE RequireWhole
  BY <1>7 DEF RequireWhole, Quiet
<1>8. CASE RemoveFile
  BY <1>8 DEF RemoveFile, Removing
<1>9. CASE CopyFile
  <2>1. CASE Here.lenient /\ UNCHANGED file /\ Advance
    BY <1>9, <2>1 DEF CopyFile, Quiet
  <2>2. CASE /\ file' = [file EXCEPT ![Here.file] = [by |-> n, whole |-> half, of |-> Now(Here.from)]]
             /\ IF half THEN Advance ELSE Halfway
    <3>1. half' = FALSE => half
      BY <2>2
    <3> QED BY <1>9, <2>2, <3>1 DEF CopyFile, Writing, Writes
  <2> QED BY <1>9, <2>1, <2>2 DEF CopyFile
<1>10. CASE NoTool
  BY <1>10 DEF NoTool, Quiet
<1>11. CASE MoveFile
  BY <1>11 DEF MoveFile, Writing, Writes
<1>12. CASE Digest
  BY <1>12 DEF Digest, Digesting, Lines
<1>13. CASE Start \/ Finish \/ Fail \/ Exhausted
  BY <1>13 DEF Finish, Fail, Exhausted, vars
<1> QED BY <1>1, <1>2, <1>3, <1>4, <1>5, <1>6, <1>7, <1>8, <1>9, <1>10, <1>11, <1>12, <1>13 DEF Next

\* What the next step counts on is so.
LEMMA Demanded ==
  ASSUME TypeOK, Stands, at <= Len(Script[script]), NEW c \in Needs(Here)
  PROVE  Holds(c) /\ About(c) \cap Changes(Here) = {}
<1> DEFINE s == Script[script]
<1>1. at \in 1..Len(s) /\ Len(s) \in Nat /\ Prepared(s, at) /\ half \in BOOLEAN
  BY HereFacts DEF TypeOK
<1>2. SeenTo(s, at, c)
  BY <1>1 DEF Prepared, Here
<1>3. PICK j \in 1..(at - 1) : Standing(s, j, at, c)
  BY <1>2 DEF SeenTo
<1>4. c \in Brings(s[j]) /\ Standing(s, j, IF half THEN at ELSE at - 1, c)
  BY <1>1, <1>3 DEF Standing
<1>5. at \in (j + 1)..at
  BY <1>1
<1> QED BY <1>3, <1>4, <1>5 DEF Stands, Standing, Here

(***************************************************************************)
(* The invariant is kept.                                                  *)
(***************************************************************************)
\* A step of the script that runs.
Acts == Quiet \/ Removing \/ Writing \/ Digesting

\* What no step changes, and what each leaves of who wrote a file.
LEMMA Framed ==
  ASSUME TypeOK, Acts
  PROVE  /\ Moving /\ Here \in Steps /\ n \in Nat
         /\ DOMAIN file = Files
         /\ \A f \in Files \ Changes(Here) : file'[f] = file[f]
         /\ "tree" \notin Changes(Here) => tree' = tree
         /\ \A f \in Files : \/ file'[f] = None \/ file'[f].by = n
                             \/ file[f] # None /\ file'[f].by = file[f].by
<1>1. Moving /\ Here \in Steps /\ at <= Len(Script[script]) /\ n \in Nat /\ DOMAIN file = Files
  BY HereFacts DEF Acts, Quiet, Removing, Writing, Digesting, Moving, TypeOK
<1>2. CASE Quiet
  BY <1>1, <1>2 DEF Quiet, Changes
<1>3. CASE Removing
  <2>1. Changes(Here) = {Here.file} /\ Here.file \in Files
    BY <1>1, <1>3, StepFacts DEF Removing, Changes
  <2>2. Here.file \in Trees /\ file[Here.file] # None => IsContent(file[Here.file])
    BY <2>1 DEF TypeOK
  <2> QED BY <1>1, <1>3, <2>1, <2>2, FilesFacts DEF Removing, IsContent
<1>4. CASE Writing
  <2>1. Changes(Here) = {Here.file} /\ Here.file \in Files
    BY <1>1, <1>4, StepFacts DEF Writing, Changes, Writes
  <2> QED BY <1>1, <1>4, <2>1, FilesFacts DEF Writing
<1>5. CASE Digesting
  <2>1. Changes(Here) = {SumsFile[Here.place]} /\ SumsFile[Here.place] \in Files
    BY <1>1, <1>5, StepFacts, FileNames DEF Digesting, Changes
  <2> QED BY <1>1, <1>5, <2>1, FilesFacts DEF Digesting
<1> QED BY <1>1, <1>2, <1>3, <1>4, <1>5 DEF Acts

\* A step that is done has brought about what it should.
LEMMA Brought ==
  ASSUME TypeOK, Acts, half' = FALSE, NEW c \in Brings(Here)
  PROVE  Holds(c)'
<1>1. Moving /\ Here \in Steps /\ DOMAIN file = Files
  BY Framed
<1>2. /\ \A f : Holds(Gone(f))' <=> file'[f] = None
      /\ \A f : Holds(There(f))' <=> file'[f] # None
      /\ \A f : Holds(Whole(f))' <=> file'[f] # None /\ file'[f].whole
      /\ \A f : Holds(Made(f))' <=> file'[f] # None /\ file'[f].whole /\ file'[f].by = n'
      /\ \A f, from : Holds(MadeOf(f, from))' <=> file'[f] # None /\ file'[f].of = Now(from)'
      /\ \A p : Holds(Lists(p))' <=>
           /\ file'[SumsFile[p]] # None /\ file'[SumsFile[p]].whole
           /\ \A line \in file'[SumsFile[p]].of :
                line.file \in Listable[p] \cap Own(p) => file'[line.file] = line.content
      /\ Holds(Applied)' <=> tree' = Patched
  BY DEF Holds, Gone, There, Whole, Made, MadeOf, Lists, Applied
<1>3. CASE Quiet
  <2>1. \/ Here.op \in {"need", "whole"} /\ c = There(Here.file)
        \/ Here.op = "whole" /\ c = Whole(Here.file)
        \/ Here.op = "compare" /\ c = Applied
    BY <1>1, <1>3, BringsCases DEF Quiet
  <2> QED BY <1>2, <1>3, <2>1 DEF Quiet
<1>4. CASE Removing
  <2>1. c = Gone(Here.file) /\ Here.file \in Files
    BY <1>1, <1>4, BringsCases, StepFacts DEF Removing
  <2> QED BY <1>1, <1>2, <1>4, <2>1 DEF Removing
<1>5. CASE Writing
  <2>1. PICK f \in Files : f = Here.file
    BY <1>1, <1>5, StepFacts DEF Writing, Writes
  <2>2. PICK from \in SUBSET Things : from = Here.from
    BY <1>1, <1>5, StepFacts DEF Writing, Writes
  <2>3. c = Made(f) \/ (f \notin from /\ c = MadeOf(f, from))
    BY <1>1, <1>5, <2>1, <2>2, BringsCases DEF Writing, Writes
  <2>4. file' = [file EXCEPT ![f] = [by |-> n, whole |-> TRUE, of |-> Now(from)]]
    BY <1>5, <2>1, <2>2 DEF Writing
  <2>5. file'[f] = [by |-> n, whole |-> TRUE, of |-> Now(from)]
    BY <1>1, <2>4
  <2>6. file'[f] # None
    BY <2>5 DEF None
  <2>7. f \notin from => Now(from)' = Now(from)
    BY <1>1, <1>5, <2>4, NowKept DEF Writing
  <2> QED BY <1>1, <1>2, <2>3, <2>5, <2>6, <2>7 DEF Moving
<1>6. CASE Digesting
  <2> DEFINE p == Here.place
  <2>1. c = Lists(p) /\ p \in Places
    BY <1>1, <1>6, BringsCases, StepFacts DEF Digesting
  <2>2. file' = [file EXCEPT ![SumsFile[p]] = [by |-> n, whole |-> TRUE, of |-> Lines(p)]]
    BY <1>6 DEF Digesting
  <2>3. SumsFile[p] \in Files /\ SumsFile[p] \notin Listable[p] /\ Listable[p] \subseteq Files
    BY <2>1, PlaceFacts, FilesFacts
  <2>4. file'[SumsFile[p]] = [by |-> n, whole |-> TRUE, of |-> Lines(p)]
    BY <1>1, <2>2, <2>3
  <2>5. \A line \in Lines(p) : line.file \in Listable[p] /\ file[line.file] = line.content
    BY DEF Lines
  <2>6. \A f \in Listable[p] : file'[f] = file[f]
    BY <1>1, <2>2, <2>3
  <2>7. file'[SumsFile[p]] # None
    BY <2>4 DEF None
  <2> QED BY <1>2, <2>1, <2>4, <2>5, <2>6, <2>7
<1> QED BY <1>3, <1>4, <1>5, <1>6 DEF Acts

\* What stands is still so after a step, and so is what the step brings about.
LEMMA StandsKept ==
  ASSUME TypeOK, Stands, Acts
  PROVE  Stands'
<1> DEFINE s == Script[script]
<1>1. /\ Moving /\ at <= Len(s) /\ \A j \in 1..Len(s) : s[j] \in Steps
      /\ at \in 1..Len(s) /\ half \in BOOLEAN
  BY Framed, HereFacts DEF Moving, TypeOK
<1>2. script' = script /\ n' = n /\ (IF half' THEN at' ELSE at' - 1) = at
      /\ (at' = at \/ (at' = at + 1 /\ half' = FALSE))
  BY <1>1 DEF Moving
<1>3. ASSUME NEW j \in 1..(at' - 1), NEW c \in Brings(s[j]), Standing(s, j, at, c)
      PROVE  Holds(c)'
  <2>1. CASE j = at
    <3>1. half' = FALSE
      BY <1>1, <1>2, <2>1
    <3>2. Here = s[j]
      BY <2>1 DEF Here
    <3>3. c \in Brings(Here)
      BY <1>3, <3>2
    <3> QED BY <3>1, <3>3, Brought
  <2>2. CASE j # at
    <3>1. j \in 1..(at - 1)
      BY <1>1, <1>2, <2>2
    <3>2. Standing(s, j, IF half THEN at ELSE at - 1, c)
      BY <1>1, <1>3, <3>1 DEF Standing
    <3>3. Holds(c)
      BY <3>1, <3>2 DEF Stands
    <3>4. About(c) \cap Changes(Here) = {}
      BY <1>1, <1>3, <3>1 DEF Standing, Here
    <3>5. Claim(c)
      BY <1>1, <3>1, BringsClaims
    <3> QED BY <1>2, <3>3, <3>4, <3>5, Framed, Kept
  <2> QED BY <2>1, <2>2
<1> QED BY <1>2, <1>3 DEF Stands

\* What an invocation has removed, nobody else brings back.
LEMMA FreshKept ==
  ASSUME TypeOK, Fresh, Acts
  PROVE  Fresh'
<1> DEFINE s == Script[script]
<1>1. /\ Moving /\ at <= Len(s) /\ \A j \in 1..Len(s) : s[j] \in Steps
      /\ at \in 1..Len(s)
  BY Framed, HereFacts DEF Moving
<1>2. script' = script /\ n' = n /\ (at' = at \/ (at' = at + 1 /\ half' = FALSE))
  BY <1>1 DEF Moving
<1>3. ASSUME NEW j \in 1..(at' - 1), s[j].op = "remove"
      PROVE  file'[s[j].file] = None \/ file'[s[j].file].by = n
  <2>1. CASE j = at
    <3>1. half' = FALSE /\ Here.op = "remove"
      BY <1>1, <1>2, <1>3, <2>1 DEF Here
    <3>2. Removing /\ Here.file \in Files /\ Here \in Steps /\ DOMAIN file = Files
      BY <3>1, Framed, StepFacts DEF Acts, Quiet, Removing, Writing, Digesting, Writes
    <3> QED BY <2>1, <3>1, <3>2 DEF Removing, Here
  <2>2. CASE j # at
    <3>1. j \in 1..(at - 1) /\ s[j].file \in Files
      BY <1>1, <1>2, <1>3, <2>2, StepFacts
    <3> QED BY <1>3, <3>1, Framed DEF Fresh
  <2> QED BY <2>1, <2>2
<1> QED BY <1>2, <1>3 DEF Fresh

\* What a step that removes, writes or lists files finds.
LEMMA Removal ==
  ASSUME TypeOK, Stands, Removing
  PROVE  \E f \in Files :
           /\ \/ file' = [file EXCEPT ![f] = None]
              \/ f \in Trees /\ file[f] # None /\ file' = [file EXCEPT ![f].whole = FALSE]
           /\ f = "commit" => file["busybox"] = None
           /\ f = "rootfs" => file["cpio"] = None
<1>1. /\ Here \in Steps /\ Here.op = "remove" /\ Here.file \in Files /\ Here = Remove(Here.file)
      /\ at <= Len(Script[script])
  BY Framed, StepFacts DEF Removing, Acts, Moving
<1>2. ASSUME Here.file = "commit"
      PROVE  file["busybox"] = None
  <2>1. Gone("busybox") \in Needs(Here)
    BY <1>1, <1>2, NeedsFacts
  <2> QED BY <1>1, <2>1, Demanded, HoldsFacts
<1>3. ASSUME Here.file = "rootfs"
      PROVE  file["cpio"] = None
  <2>1. Gone("cpio") \in Needs(Here)
    BY <1>1, <1>3, NeedsFacts
  <2> QED BY <1>1, <2>1, Demanded, HoldsFacts
<1> QED BY <1>1, <1>2, <1>3 DEF Removing

\* All the cases of what a step that writes counts on.
LEMMA WriteCounts ==
  ASSUME NEW st, st.op \in Writes
  PROVE  /\ \A p \in Places : st.file \in Own(p) => Gone(SumsFile[p]) \in Needs(st)
         /\ st.file \in Sources => Applied \in Needs(st)
         /\ st.file = "dtbs" => Gone("dtbo") \in Needs(st)
         /\ st.file = "dtbo" => There("dtbs") \in Needs(st)
<1>1. Needs(st) = NeedsToWrite(st.file)
  BY DEF Needs, Writes
<1>2. \A p \in Places : st.file \in Own(p) => Gone(SumsFile[p]) \in NeedsToWrite(st.file)
  BY Zenon DEF NeedsToWrite
<1>3. st.file \in Sources => Applied \in NeedsToWrite(st.file)
  BY Zenon DEF NeedsToWrite
<1>4. st.file = "dtbs" => Gone("dtbo") \in NeedsToWrite(st.file)
  BY Zenon DEF NeedsToWrite
<1>5. st.file = "dtbo" => There("dtbs") \in NeedsToWrite(st.file)
  BY Zenon DEF NeedsToWrite
<1> QED BY <1>1, <1>2, <1>3, <1>4, <1>5, Zenon

\* It counts on there being no list of digests, and on the whole series.
LEMMA Write ==
  ASSUME TypeOK, Stands, Writing
  PROVE  \E f \in Files \ SumsFiles, from \in SUBSET Things, whole \in BOOLEAN :
           /\ file' = [file EXCEPT ![f] = [by |-> n, whole |-> whole, of |-> Now(from)]]
           /\ \A p \in Places : f \in Own(p) => file[SumsFile[p]] = None
           /\ f \in Sources => from = {"tree"} /\ tree = Patched
           /\ f = "dtbs" => file["dtbo"] = None
           /\ f = "dtbo" => from = {"dtbs"} /\ file["dtbs"] # None
           /\ f \in {"boot", "init_boot"} => whole
<1>1. /\ Here \in Steps /\ Here.op \in Writes /\ Here.file \in Files /\ Here.from \in SUBSET Things
      /\ at <= Len(Script[script]) /\ WellFormed(Here)
  BY Framed, StepFacts, HereFacts DEF Writing, Acts, Moving, Prepared, Here
<1>2. PICK whole \in BOOLEAN :
        /\ file' = [file EXCEPT ![Here.file] = [by |-> n, whole |-> whole, of |-> Now(Here.from)]]
        /\ Here.op = "move" => whole
  BY DEF Writing
<1>3. /\ Here.file \notin SumsFiles
      /\ Here.file \in Sources => Here.from = {"tree"}
      /\ Here.file = "dtbo" => Here.from = {"dtbs"}
      /\ Here.file \in {"boot", "init_boot"} => whole
  BY <1>1, <1>2 DEF WellFormed
<1>4. ASSUME NEW p \in Places, Here.file \in Own(p)
      PROVE  file[SumsFile[p]] = None
  <2>1. Gone(SumsFile[p]) \in Needs(Here)
    BY <1>1, <1>4, WriteCounts
  <2> QED BY <1>1, <2>1, Demanded, HoldsFacts
<1>5. ASSUME Here.file \in Sources
      PROVE  tree = Patched
  <2>1. Applied \in Needs(Here)
    BY <1>1, <1>5, WriteCounts
  <2> QED BY <1>1, <2>1, Demanded, HoldsFacts
<1>6. ASSUME Here.file = "dtbs"
      PROVE  file["dtbo"] = None
  <2>1. Gone("dtbo") \in Needs(Here)
    BY <1>1, <1>6, WriteCounts
  <2> QED BY <1>1, <2>1, Demanded, HoldsFacts
<1>7. ASSUME Here.file = "dtbo"
      PROVE  file["dtbs"] # None
  <2>1. There("dtbs") \in Needs(Here)
    BY <1>1, <1>7, WriteCounts
  <2> QED BY <1>1, <2>1, Demanded, HoldsFacts
<1> QED BY <1>1, <1>2, <1>3, <1>4, <1>5, <1>6, <1>7

\* It counts on everything being there, whole, and of this invocation.
LEMMA Listing ==
  ASSUME TypeOK, Stands, Fresh, Digesting
  PROVE  \E p \in Places, whole \in BOOLEAN : \E lines :
           /\ file' = [file EXCEPT ![SumsFile[p]] = [by |-> n, whole |-> whole, of |-> lines]]
           /\ IF whole THEN lines = Lines(p) ELSE lines = {}
           /\ \A f \in Mandatory[p] : file[f] # None /\ file[f].whole
           /\ \A f \in Listable[p] \ Own(p) : file[f] = None
           /\ \A f \in Own(p) : file[f] = None \/ file[f].by = n
<1> DEFINE s == Script[script]
           p == Here.place
<1>1. /\ Here \in Steps /\ Here.op = "digest" /\ p \in Places
      /\ at <= Len(s) /\ half' \in BOOLEAN
      /\ at \in 1..Len(s) /\ Prepared(s, at) /\ \A j \in 1..Len(s) : s[j] \in Steps
  BY Framed, StepFacts, HereFacts DEF Digesting, Acts, Moving
<1>2. PICK lines :
        /\ file' = [file EXCEPT ![SumsFile[p]] = [by |-> n, whole |-> ~half', of |-> lines]]
        /\ IF half' THEN lines = {} ELSE lines = Lines(p)
  BY DEF Digesting
<1>3. ASSUME NEW f \in Mandatory[p]
      PROVE  file[f] # None /\ file[f].whole
  <2>1. Made(f) \in Needs(Here)
    BY <1>1 DEF Needs, Writes
  <2> QED BY <1>1, <2>1, Demanded, HoldsFacts
<1>4. ASSUME NEW f \in Listable[p] \ Own(p)
      PROVE  file[f] = None
  <2>1. Gone(f) \in Needs(Here)
    BY <1>1 DEF Needs, Writes
  <2> QED BY <1>1, <2>1, Demanded, HoldsFacts
<1>5. ASSUME NEW f \in Own(p)
      PROVE  file[f] = None \/ file[f].by = n
  <2>1. Cleared(s, at, f)
    BY <1>1 DEF Prepared, Here
  <2>2. PICK j \in 1..(at - 1) : s[j] = Remove(f)
    BY <2>1 DEF Cleared
  <2>3. s[j].op = "remove" /\ s[j].file = f
    BY <2>2 DEF Remove
  <2> QED BY <2>3 DEF Fresh
<1> HIDE DEF p
<1> QED BY <1>1, <1>2, <1>3, <1>4, <1>5

\* The parts of the invariant that are about the files alone.
OfFiles ==
  OfOneInvocation /\ LinesAreWhole /\ RestIsWhole /\ ImagesAreWhole /\ MadeOfTheRightSources

\* What the next proofs need of the names of files.
LEMMA NamesApart ==
  /\ Sources \cap {"dtbo", "boot", "init_boot", "commit", "rootfs", "busybox", "cpio"} = {}
  /\ "dtbs" \in Sources
  /\ {"dtbo", "dtbs", "boot", "init_boot"} \cap SumsFiles = {} /\ Sources \cap SumsFiles = {}
  /\ {"boot", "init_boot", "dtbo", "commit", "busybox", "cpio"} \cap Trees = {}
  /\ Sources \cup {"dtbo", "boot", "init_boot"} \subseteq Files
  /\ \A p \in Places : /\ SumsFile[p] \in Files \ Trees /\ SumsFile[p] \in SumsFiles
                       /\ Own(p) \subseteq Files /\ Own(p) \cap SumsFiles = {}
                       /\ Listable[p] \subseteq Files /\ Listable[p] \cap SumsFiles = {}
                       /\ Mandatory[p] \subseteq Own(p)
  /\ \A p, q \in Places : SumsFile[p] = SumsFile[q] => p = q
<1>1. /\ Sources \cap {"dtbo", "boot", "init_boot", "commit", "rootfs", "busybox", "cpio"} = {}
      /\ "dtbs" \in Sources
      /\ {"boot", "init_boot", "dtbo", "commit", "busybox", "cpio"} \cap Trees = {}
  BY DEF Sources, Trees
<1>2. {"dtbo", "dtbs", "boot", "init_boot"} \cap SumsFiles = {} /\ Sources \cap SumsFiles = {}
  BY PlaceFacts DEF Sources
<1>3. Sources \cup {"dtbo", "boot", "init_boot"} \subseteq Files
  BY FileNames DEF Sources
<1> QED BY <1>1, <1>2, <1>3, PlaceFacts, FilesFacts

\* What is mandatory but not listed, and what is listed beside it.
LEMMA Unlisted ==
  ASSUME NEW p \in Places, NEW f \in Mandatory[p] \ Listable[p]
  PROVE  \/ f = "commit" /\ "busybox" \in Mandatory[p] \cap Listable[p]
         \/ f = "rootfs" /\ "cpio" \in Mandatory[p] \cap Listable[p]
<1>1. CASE p = "stock" BY <1>1, Tables
<1>2. CASE p = "dist" BY <1>2, Tables
<1>3. CASE p = "dtbo" BY <1>3, Tables
<1>4. CASE p = "busybox" BY <1>4, Tables
<1>5. CASE p = "initramfs" BY <1>5, Tables
<1>6. CASE p = "candidates" BY <1>6, Tables
<1> QED BY Tables, <1>1, <1>2, <1>3, <1>4, <1>5, <1>6

\* A removal keeps what is so of the files.
LEMMA RemovalKeeps ==
  ASSUME TypeOK, Stands, OfFiles, Removing
  PROVE  OfFiles'
<1>1. PICK f \in Files :
        /\ \/ file' = [file EXCEPT ![f] = None]
           \/ f \in Trees /\ file[f] # None /\ file' = [file EXCEPT ![f].whole = FALSE]
        /\ f = "commit" => file["busybox"] = None
        /\ f = "rootfs" => file["cpio"] = None
  BY Removal
<1>2. DOMAIN file = Files /\ tree' = tree /\ (file[f] # None => IsContent(file[f]))
  BY DEF TypeOK, Removing
<1>3. /\ \A g \in Files \ {f} : file'[g] = file[g]
      /\ \/ file'[f] = None
         \/ /\ f \in Trees /\ file[f] # None
            /\ file'[f].by = file[f].by /\ file'[f].of = file[f].of
  BY <1>1, <1>2 DEF IsContent
<1>4. \A p \in Places : Sums(p)' = None \/ Sums(p)' = Sums(p)
  BY <1>3, NamesApart DEF Sums
<1>5. OfOneInvocation'
  <2>1. ASSUME NEW p \in Places, Sums(p)' # None, NEW g \in Own(p), file'[g] # None
        PROVE  file'[g].by = Sums(p)'.by
    <3>1. Sums(p)' = Sums(p) /\ Sums(p) # None /\ g \in Files
      BY <1>4, <2>1, NamesApart
    <3>2. file[g] # None /\ file'[g].by = file[g].by
      BY <1>3, <2>1, <3>1
    <3> QED BY <3>1, <3>2 DEF OfFiles, OfOneInvocation
  <2> QED BY <2>1 DEF OfOneInvocation
<1>6. LinesAreWhole'
  BY <1>4 DEF OfFiles, LinesAreWhole
<1>7. RestIsWhole'
  <2>1. ASSUME NEW p \in Places, Sums(p)' # None, Sums(p)'.whole
        PROVE  \/ \A g \in Mandatory[p] \ Listable[p] : file'[g] # None /\ file'[g].whole
               \/ \E g \in Mandatory[p] \cap Listable[p] : file'[g] = None
    <3>1. Sums(p) # None /\ Sums(p).whole /\ Mandatory[p] \subseteq Files
      BY <1>4, <2>1, NamesApart
    <3>2. CASE f \in Mandatory[p] \ Listable[p]
      <4>1. \/ "busybox" \in Mandatory[p] \cap Listable[p] /\ file'["busybox"] = None
            \/ "cpio" \in Mandatory[p] \cap Listable[p] /\ file'["cpio"] = None
        BY <1>1, <1>3, <3>1, <3>2, Unlisted
      <4> QED BY <4>1
    <3>3. CASE f \notin Mandatory[p] \ Listable[p]
      <4>1. \A g \in Mandatory[p] \ Listable[p] : file'[g] = file[g]
        BY <1>3, <3>1, <3>3
      <4>2. ASSUME NEW g \in Mandatory[p] \cap Listable[p], file[g] = None
            PROVE  file'[g] = None
        BY <1>3, <3>1, <4>2
      <4> QED BY <3>1, <4>1, <4>2 DEF OfFiles, RestIsWhole
    <3> QED BY <3>2, <3>3
  <2> QED BY <2>1 DEF RestIsWhole
<1>8. ImagesAreWhole'
  BY <1>3, NamesApart DEF OfFiles, ImagesAreWhole
<1>9. MadeOfTheRightSources'
  <2>1. \A g \in Sources : file'[g] # None => file'[g].of = {Patched}
    BY <1>3, NamesApart DEF OfFiles, MadeOfTheRightSources, Sources
  <2>2. ASSUME file'["dtbo"] # None, file'["dtbs"] # None, NEW overlays \in file'["dtbo"].of
        PROVE  overlays # None /\ overlays.by = file'["dtbs"].by
    <3>1. file["dtbs"] # None /\ file'["dtbs"].by = file["dtbs"].by
      BY <1>3, <2>2, NamesApart
    <3>2. file["dtbo"] # None /\ file'["dtbo"] = file["dtbo"]
      BY <1>3, <2>2, NamesApart
    <3> QED BY <2>2, <3>1, <3>2 DEF OfFiles, MadeOfTheRightSources
  <2> QED BY <2>1, <2>2 DEF MadeOfTheRightSources, Sources
<1> QED BY <1>5, <1>6, <1>7, <1>8, <1>9 DEF OfFiles

\* Writing a file keeps what is so of the files: there is no list of digests then.
LEMMA WriteKeeps ==
  ASSUME TypeOK, Stands, OfFiles, Writing
  PROVE  OfFiles'
<1>1. PICK f \in Files \ SumsFiles, from \in SUBSET Things, whole \in BOOLEAN :
        /\ file' = [file EXCEPT ![f] = [by |-> n, whole |-> whole, of |-> Now(from)]]
        /\ \A p \in Places : f \in Own(p) => file[SumsFile[p]] = None
        /\ f \in Sources => from = {"tree"} /\ tree = Patched
        /\ f = "dtbs" => file["dtbo"] = None
        /\ f = "dtbo" => from = {"dtbs"} /\ file["dtbs"] # None
        /\ f \in {"boot", "init_boot"} => whole
  BY Write
<1>2. DOMAIN file = Files /\ tree' = tree
  BY DEF TypeOK, Writing
<1>3. /\ \A g \in Files \ {f} : file'[g] = file[g]
      /\ file'[f] = [by |-> n, whole |-> whole, of |-> Now(from)]
  BY <1>1, <1>2
<1>4. \A p \in Places : Sums(p)' = Sums(p) /\ (f \in Own(p) => Sums(p) = None)
  BY <1>1, <1>3, NamesApart DEF Sums
<1>5. \A p \in Places : Sums(p) # None => \A g \in Own(p) : file'[g] = file[g]
  BY <1>3, <1>4, NamesApart
<1>6. OfOneInvocation'
  BY <1>4, <1>5 DEF OfFiles, OfOneInvocation
<1>7. LinesAreWhole'
  BY <1>4 DEF OfFiles, LinesAreWhole
<1>8. RestIsWhole'
  BY <1>4, <1>5, NamesApart DEF OfFiles, RestIsWhole
<1>9. ImagesAreWhole'
  BY <1>1, <1>3, NamesApart DEF OfFiles, ImagesAreWhole
<1>10. MadeOfTheRightSources'
  <2>1. ASSUME NEW g \in Sources, file'[g] # None
        PROVE  file'[g].of = {Patched}
    <3>1. CASE g = f
      <4>1. Now({"tree"}) = {tree}
        BY DEF Now
      <4> QED BY <1>1, <1>3, <2>1, <3>1, <4>1
    <3>2. CASE g # f
      BY <1>3, <2>1, <3>2, NamesApart DEF OfFiles, MadeOfTheRightSources, Sources
    <3> QED BY <3>1, <3>2
  <2>2. ASSUME file'["dtbo"] # None, file'["dtbs"] # None, NEW overlays \in file'["dtbo"].of
        PROVE  overlays # None /\ overlays.by = file'["dtbs"].by
    <3>1. CASE f = "dtbo"
      <4>1. Now({"dtbs"}) = {file["dtbs"]}
        BY DEF Now
      <4>2. file'["dtbs"] = file["dtbs"]
        BY <1>3, <3>1, NamesApart
      <4>3. file'["dtbo"].of = {file["dtbs"]} /\ file["dtbs"] # None
        BY <1>1, <1>3, <3>1, <4>1
      <4> QED BY <2>2, <4>2, <4>3
    <3>2. CASE f # "dtbo"
      <4>1. file'["dtbo"] = file["dtbo"]
        BY <1>3, <3>2, NamesApart
      <4>2. f # "dtbs" /\ file'["dtbs"] = file["dtbs"]
        BY <1>1, <1>3, <2>2, <4>1, NamesApart
      <4> QED BY <2>2, <4>1, <4>2 DEF OfFiles, MadeOfTheRightSources
    <3> QED BY <3>1, <3>2
  <2> QED BY <2>1, <2>2 DEF MadeOfTheRightSources, Sources
<1> QED BY <1>6, <1>7, <1>8, <1>9, <1>10 DEF OfFiles

\* Writing a list of digests keeps what is so of the files: all is there and new.
LEMMA ListingKeeps ==
  ASSUME TypeOK, Stands, Fresh, OfFiles, Digesting
  PROVE  OfFiles'
<1>1. PICK p \in Places, whole \in BOOLEAN : \E lines :
        /\ file' = [file EXCEPT ![SumsFile[p]] = [by |-> n, whole |-> whole, of |-> lines]]
        /\ IF whole THEN lines = Lines(p) ELSE lines = {}
        /\ \A f \in Mandatory[p] : file[f] # None /\ file[f].whole
        /\ \A f \in Listable[p] \ Own(p) : file[f] = None
        /\ \A f \in Own(p) : file[f] = None \/ file[f].by = n
  BY Listing
<1>2. PICK lines :
        /\ file' = [file EXCEPT ![SumsFile[p]] = [by |-> n, whole |-> whole, of |-> lines]]
        /\ IF whole THEN lines = Lines(p) ELSE lines = {}
  BY <1>1
<1>3. DOMAIN file = Files
  BY DEF TypeOK
<1>4. \A f \in Files \ SumsFiles : file'[f] = file[f]
  BY <1>2, <1>3, NamesApart
<1>5. \A q \in Places \ {p} : Sums(q)' = Sums(q)
  BY <1>2, <1>3, NamesApart DEF Sums
<1>6. Sums(p)' = [by |-> n, whole |-> whole, of |-> lines]
  BY <1>2, <1>3, NamesApart DEF Sums
<1>7. \A q \in Places : \A f \in Own(q) : file'[f] = file[f]
  BY <1>4, NamesApart
<1>8. OfOneInvocation'
  <2>1. ASSUME NEW q \in Places, Sums(q)' # None, NEW f \in Own(q), file'[f] # None
        PROVE  file'[f].by = Sums(q)'.by
    <3>1. CASE q = p
      BY <1>1, <1>6, <1>7, <2>1, <3>1
    <3>2. CASE q # p
      BY <1>5, <1>7, <2>1, <3>2 DEF OfFiles, OfOneInvocation
    <3> QED BY <3>1, <3>2
  <2> QED BY <2>1 DEF OfOneInvocation
<1>9. LinesAreWhole'
  <2>1. ASSUME NEW line \in lines
        PROVE  line.file \in Listable[p] \cap Own(p) /\ line.content # None
    <3>1. line \in Lines(p)
      BY <1>2, <2>1
    <3> QED BY <1>1, <3>1 DEF Lines
  <2>2. ASSUME whole, NEW f \in Mandatory[p] \cap Listable[p]
        PROVE  \E line \in lines : line.file = f /\ line.content.whole
    <3>1. lines = Lines(p) /\ file[f] # None /\ file[f].whole
      BY <1>1, <1>2, <2>2
    <3>2. [file |-> f, content |-> file[f]] \in Lines(p)
      BY <2>2, <3>1 DEF Lines
    <3> QED BY <3>1, <3>2
  <2>3. ASSUME NEW q \in Places, Sums(q)' # None
        PROVE  /\ \A line \in Sums(q)'.of : line.file \in Listable[q] \cap Own(q) /\ line.content # None
               /\ Sums(q)'.whole => \A f \in Mandatory[q] \cap Listable[q] :
                    \E line \in Sums(q)'.of : line.file = f /\ line.content.whole
    <3>1. CASE q = p
      BY <1>6, <2>1, <2>2, <3>1
    <3>2. CASE q # p
      BY <1>5, <2>3, <3>2 DEF OfFiles, LinesAreWhole
    <3> QED BY <3>1, <3>2
  <2> QED BY <2>3 DEF LinesAreWhole
<1>10. RestIsWhole'
  <2>1. ASSUME NEW q \in Places, Sums(q)' # None, Sums(q)'.whole
        PROVE  \/ \A f \in Mandatory[q] \ Listable[q] : file'[f] # None /\ file'[f].whole
               \/ \E f \in Mandatory[q] \cap Listable[q] : file'[f] = None
    <3>1. \A f \in Mandatory[q] : file'[f] = file[f]
      BY <1>7, NamesApart
    <3>2. CASE q = p
      BY <1>1, <3>1, <3>2
    <3>3. CASE q # p
      BY <1>5, <2>1, <3>1, <3>3 DEF OfFiles, RestIsWhole
    <3> QED BY <3>2, <3>3
  <2> QED BY <2>1 DEF RestIsWhole
<1>11. ImagesAreWhole'
  BY <1>4, NamesApart DEF OfFiles, ImagesAreWhole
<1>12. MadeOfTheRightSources'
  <2>1. \A f \in Sources \cup {"dtbo"} : file'[f] = file[f]
    BY <1>4, NamesApart
  <2> QED BY <2>1, NamesApart DEF OfFiles, MadeOfTheRightSources, Sources
<1> QED BY <1>8, <1>9, <1>10, <1>11, <1>12 DEF OfFiles

\* A step keeps the types.
LEMMA TypeKept ==
  ASSUME TypeOK, Stands, Fresh, Acts
  PROVE  TypeOK'
<1> DEFINE l == Len(Script[script])
<1>1. /\ Moving /\ n \in Nat /\ l \in Nat /\ at \in 1..l
      /\ file = [f \in Files |-> file[f]] /\ DOMAIN file = Files
      /\ \A f \in Files : file[f] # None => IsContent(file[f])
      /\ script \in DOMAIN Script
  BY Framed, HereFacts DEF TypeOK, Moving
<1>2. /\ n' \in Nat /\ script' \in DOMAIN Script /\ half' \in BOOLEAN /\ status' = "running"
      /\ script' = script /\ at' \in 1..(l + 1) /\ (half' => at' <= l)
  <2> HIDE DEF l
  <2>1. CASE at' = at /\ half' = TRUE
    BY <1>1, <2>1 DEF Moving
  <2>2. CASE at' = at + 1 /\ half' = FALSE
    <3>1. at + 1 \in 1..(l + 1)
      BY <1>1
    <3> QED BY <1>1, <2>2, <3>1 DEF Moving
  <2> QED BY <1>1, <2>1, <2>2 DEF Moving
<1>3. ASSUME NEW f \in Files, NEW whole \in BOOLEAN, NEW of,
             file' = [file EXCEPT ![f] = [by |-> n, whole |-> whole, of |-> of]]
      PROVE  /\ file' = [g \in Files |-> file'[g]]
             /\ \A g \in Files : file'[g] # None => IsContent(file'[g])
  <2>1. file'[f] = [by |-> n, whole |-> whole, of |-> of] /\ \A g \in Files \ {f} : file'[g] = file[g]
    BY <1>1, <1>3
  <2>2. IsContent([by |-> n, whole |-> whole, of |-> of])
    BY <1>1 DEF IsContent
  <2>3. file' = [g \in Files |-> file'[g]]
    BY <1>1, <1>3
  <2> QED BY <1>1, <2>1, <2>2, <2>3
<1>4. /\ file' = [g \in Files |-> file'[g]]
      /\ \A g \in Files : file'[g] # None => IsContent(file'[g])
  <2>1. CASE Quiet
    BY <1>1, <2>1 DEF Quiet
  <2>2. CASE Removing
    <3>1. PICK f \in Files :
            \/ file' = [file EXCEPT ![f] = None]
            \/ file[f] # None /\ file' = [file EXCEPT ![f].whole = FALSE]
      BY <2>2, Removal
    <3>2. CASE file' = [file EXCEPT ![f] = None]
      BY <1>1, <3>2
    <3>3. CASE file[f] # None /\ file' = [file EXCEPT ![f].whole = FALSE]
      <4>1. /\ file'[f] = [file[f] EXCEPT !.whole = FALSE]
            /\ \A g \in Files \ {f} : file'[g] = file[g]
        BY <1>1, <3>3
      <4>2. IsContent(file[f])
        BY <1>1, <3>3
      <4>3. IsContent(file'[f])
        BY <4>1, <4>2 DEF IsContent
      <4>4. file' = [g \in Files |-> file'[g]]
        BY <1>1, <3>3
      <4> QED BY <1>1, <4>1, <4>3, <4>4
    <3> QED BY <3>1, <3>2, <3>3
  <2>3. CASE Writing
    <3>1. PICK f \in Files \ SumsFiles, from \in SUBSET Things, whole \in BOOLEAN :
            file' = [file EXCEPT ![f] = [by |-> n, whole |-> whole, of |-> Now(from)]]
      BY <2>3, Write
    <3> QED BY <1>3, <3>1
  <2>4. CASE Digesting
    <3>1. PICK p \in Places, whole \in BOOLEAN : \E lines :
            file' = [file EXCEPT ![SumsFile[p]] = [by |-> n, whole |-> whole, of |-> lines]]
      BY <2>4, Listing
    <3>2. PICK lines :
            file' = [file EXCEPT ![SumsFile[p]] = [by |-> n, whole |-> whole, of |-> lines]]
      BY <3>1
    <3>3. SumsFile[p] \in Files
      BY FilesFacts
    <3> QED BY <1>3, <3>2, <3>3
  <2> QED BY <2>1, <2>2, <2>3, <2>4 DEF Acts
<1> QED BY <1>2, <1>4 DEF TypeOK

\* The initial states satisfy the invariant.
LEMMA InitInv == Init => Inv
<1> SUFFICES ASSUME Init PROVE Inv
  OBVIOUS
<1> DEFINE extracted == [by |-> 0, whole |-> TRUE, of |-> {}]
           lines == {[file |-> g, content |-> extracted] : g \in Listable["stock"]}
           list == [by |-> 0, whole |-> TRUE, of |-> lines]
<1>1. file = [f \in Files |-> IF f \in Own("stock") THEN extracted
                              ELSE IF f = SumsFile["stock"] THEN list ELSE None]
  BY DEF Init
<1>2. n = 0 /\ script = "all" /\ at = 1 /\ half = FALSE /\ status = "failed"
  BY DEF Init
<1>3. extracted # None /\ list # None /\ IsContent(extracted) /\ IsContent(list)
  BY DEF None, IsContent
<1>4. "stock" \in Places /\ Listable["stock"] = Mandatory["stock"]
  BY Tables
<1>5. TypeOK
  <2>1. "all" \in DOMAIN Script /\ Len(Script["all"]) \in Nat
    BY EveryScriptDisciplined DEF Disciplined
  <2>2. 1 \in 1..(Len(Script["all"]) + 1)
    BY <2>1
  <2> QED BY <1>1, <1>2, <1>3, <2>1, <2>2 DEF TypeOK
<1> HIDE DEF extracted, list
<1>6. Stands /\ Fresh
  BY <1>2 DEF Stands, Fresh
<1>7. ASSUME NEW p \in Places, p # "stock"
      PROVE  Sums(p) = None
  BY <1>1, <1>4, <1>7, NamesApart DEF Sums
<1>8. Sums("stock") = list
  BY <1>1, <1>4, NamesApart DEF Sums
<1>9. \A f \in Own("stock") : file[f] = extracted
  BY <1>1, <1>4, NamesApart
<1>10. OfOneInvocation
  BY <1>3, <1>7, <1>8, <1>9 DEF OfOneInvocation, extracted, list
<1>11. LinesAreWhole
  <2>1. \A line \in lines : line.file \in Listable["stock"] /\ line.content = extracted
    OBVIOUS
  <2>2. \A f \in Listable["stock"] : \E line \in lines : line.file = f /\ line.content = extracted
    <3> TAKE f \in Listable["stock"]
    <3>1. [file |-> f, content |-> extracted] \in lines
      OBVIOUS
    <3> QED BY <3>1
  <2>3. Listable["stock"] \subseteq Own("stock")
    BY <1>4, NamesApart
  <2>4. list.of = lines /\ extracted.whole
    BY DEF list, extracted
  <2> HIDE DEF lines
  <2> QED BY <1>3, <1>4, <1>7, <1>8, <2>1, <2>2, <2>3, <2>4 DEF LinesAreWhole
<1>12. RestIsWhole
  BY <1>4, <1>7 DEF RestIsWhole
<1>13. \A f \in Sources \cup {"dtbo", "boot", "init_boot"} : file[f] = None
  <2>1. \A f \in Sources \cup {"dtbo", "boot", "init_boot"} : f \notin Own("stock")
    BY OwnTable DEF Sources
  <2> QED BY <1>1, <1>4, <2>1, NamesApart
<1>14. ImagesAreWhole /\ MadeOfTheRightSources
  BY <1>13 DEF ImagesAreWhole, MadeOfTheRightSources, Sources
<1> QED BY <1>5, <1>6, <1>10, <1>11, <1>12, <1>14 DEF Inv

\* Every step keeps the invariant.
LEMMA InvKept == Inv /\ [Next]_vars => Inv'
<1> SUFFICES ASSUME Inv, [Next]_vars PROVE Inv'
  OBVIOUS
<1>1. TypeOK /\ Stands /\ Fresh /\ OfFiles
  BY DEF Inv, OfFiles
<1>2. CASE Acts
  <2>1. OfFiles'
    <3>1. CASE Quiet
      BY <1>1, <3>1 DEF Quiet, OfFiles, OfOneInvocation, LinesAreWhole, RestIsWhole,
                        ImagesAreWhole, MadeOfTheRightSources, Sums
    <3> QED BY <1>1, <1>2, <3>1, RemovalKeeps, WriteKeeps, ListingKeeps DEF Acts
  <2> QED BY <1>1, <1>2, <2>1, TypeKept, StandsKept, FreshKept DEF Inv, OfFiles
<1>3. CASE file' = file /\ TypeOK' /\ Stands' /\ Fresh'
  BY <1>1, <1>3 DEF OfFiles, Inv, OfOneInvocation, LinesAreWhole, RestIsWhole,
                    ImagesAreWhole, MadeOfTheRightSources, Sums
<1>4. CASE Start
  <2>1. /\ n' \in Nat /\ script' \in DOMAIN Script /\ at' = 1 /\ half' = FALSE
        /\ status' = "running" /\ file' = file
    BY <1>1, <1>4 DEF Start, TypeOK
  <2>2. Len(Script[script']) \in Nat
    BY <2>1, EveryScriptDisciplined DEF Disciplined
  <2>3. TypeOK'
    <3>1. at' \in 1..(Len(Script[script']) + 1)
      BY <2>1, <2>2
    <3>2. file' = [f \in Files |-> file'[f]] /\ \A f \in Files : file'[f] # None => IsContent(file'[f])
      BY <1>1, <2>1 DEF TypeOK
    <3> QED BY <2>1, <3>1, <3>2 DEF TypeOK
  <2>4. Stands' /\ Fresh'
    BY <2>1 DEF Stands, Fresh
  <2> QED BY <1>3, <2>1, <2>3, <2>4
<1>5. CASE /\ UNCHANGED <<file, tree, n, script, at, half>>
           /\ status' = "failed" \/ (status' = "ok" /\ at > Len(Script[script])) \/ status' = status
  <2>1. Len(Script[script]) \in Nat
    BY <1>1, EveryScriptDisciplined DEF Disciplined, TypeOK
  <2>2. TypeOK'
    BY <1>1, <1>5, <2>1 DEF TypeOK
  <2>3. Stands'
    <3>1. ASSUME NEW j \in 1..(at - 1), NEW c \in Brings(Script[script][j]), Holds(c)
          PROVE  Holds(c)'
      <4>1. Script[script][j] \in Steps
        <5>1. Script[script] \in Seq(Steps) /\ j \in 1..Len(Script[script])
          BY <1>1, <2>1, EveryScriptDisciplined DEF Disciplined, TypeOK
        <5> QED BY <5>1
      <4> QED BY <1>5, <3>1, <4>1, BringsClaims, Kept
    <3> QED BY <1>1, <1>5, <3>1 DEF Stands
  <2>4. Fresh'
    BY <1>1, <1>5 DEF Fresh
  <2> QED BY <1>3, <1>5, <2>2, <2>3, <2>4
<1>6. CASE UNCHANGED vars
  BY <1>5, <1>6 DEF vars
<1> QED BY <1>1, <1>2, <1>4, <1>5, <1>6, StepKinds DEF Acts

\* A step of a script leaves no temporary directory for good, and only the digests
\* of dist are of what has been left.
LEMMA LeftSteps ==
  ASSUME TypeOK, Next
  PROVE  \/ Start \/ Finish \/ Fail \/ UNCHANGED vars
         \/ /\ Moving /\ leftovers' = leftovers
            /\ \/ listed' = listed
               \/ listed' = leftovers /\ file'[SumsFile["dist"]].by = n
<1> USE DEF AtStep, Here, Advance, Halfway, Moving, TypeOK
<1>1. CASE Digest
  <2>1. DOMAIN file = Files /\ SumsFile["dist"] \in Files
    BY FilesFacts, Tables
  <2>2. CASE Here.place = "dist"
    BY <1>1, <2>1, <2>2 DEF Digest
  <2>3. CASE Here.place # "dist"
    BY <1>1, <2>3 DEF Digest
  <2> QED BY <2>2, <2>3
<1>2. CASE Clone \/ SkipPatch \/ ApplyPatch \/ Compare \/ Pass
  BY <1>2 DEF Clone, SkipPatch, ApplyPatch, Compare, Pass
<1>3. CASE Require \/ RequireWhole \/ RemoveFile
  BY <1>3 DEF Require, RequireWhole, RemoveFile
<1>4. CASE CopyFile \/ NoTool \/ MoveFile
  BY <1>4 DEF CopyFile, NoTool, MoveFile
<1> QED BY <1>1, <1>2, <1>3, <1>4 DEF Next, Exhausted

\* What the list of dist covers beside what its script writes is of earlier
\* invocations, after every step.
LEMMA LeftKept == Inv /\ LeftByEarlierOnes /\ [Next]_vars => LeftByEarlierOnes'
<1> SUFFICES ASSUME Inv, LeftByEarlierOnes, [Next]_vars PROVE LeftByEarlierOnes'
  OBVIOUS
<1> DEFINE sums == SumsFile["dist"]
<1>1. TypeOK /\ n \in Nat /\ sums \in Files
  BY FilesFacts, Tables DEF Inv, TypeOK
<1>2. /\ leftovers \subseteq 1..n /\ listed \subseteq leftovers
      /\ status = "running" => n \in 1..n \ leftovers
      /\ file[sums] # None => \A i \in listed : i < file[sums].by
  BY DEF LeftByEarlierOnes, Sums
<1>3. SUFFICES /\ leftovers' \subseteq 1..n' /\ listed' \subseteq leftovers'
               /\ status' = "running" => n' \in 1..n' \ leftovers'
               /\ file'[sums] # None => \A i \in listed' : i < file'[sums].by
  BY DEF LeftByEarlierOnes, Sums
<1> HIDE DEF sums
<1>4. CASE Start
  <2>1. /\ n' = n + 1 /\ file' = file /\ leftovers' = leftovers /\ listed' = listed
    BY <1>4 DEF Start
  <2> QED BY <1>1, <1>2, <2>1
<1>5. CASE Fail
  <2>1. /\ n' = n /\ file' = file /\ listed' = listed /\ status' = "failed" /\ status = "running"
        /\ leftovers' = leftovers \/ leftovers' = leftovers \cup {n}
    BY <1>5 DEF Fail
  <2> QED BY <1>2, <2>1
<1>6. CASE Finish \/ UNCHANGED vars
  <2>1. /\ n' = n /\ file' = file /\ leftovers' = leftovers /\ listed' = listed
        /\ status' = "ok" \/ status' = status
    BY <1>6 DEF Finish, vars
  <2> QED BY <1>2, <2>1
<1>7. CASE /\ Moving /\ leftovers' = leftovers
           /\ listed' = listed \/ (listed' = leftovers /\ file'[SumsFile["dist"]].by = n)
  <2>1. n' = n /\ status = "running" /\ status' = "running"
    BY <1>7 DEF Moving
  <2>2. \/ file'[sums] = None \/ file'[sums].by = n
        \/ file[sums] # None /\ file'[sums].by = file[sums].by
    <3>1. CASE Acts
      BY <1>1, <3>1, Framed
    <3>2. CASE file' = file
      BY <3>2
    <3> QED BY <1>1, <2>1, <3>1, <3>2, StepKinds DEF Acts, Start, vars
  <2>3. \A i \in leftovers : i \in Nat /\ i < n
    BY <1>1, <1>2, <2>1
  <2>4. listed' = listed \/ file'[sums].by = n
    BY <1>7 DEF sums
  <2>5. listed' \subseteq leftovers
    BY <1>2, <1>7
  <2>6. ASSUME file'[sums] # None, NEW i \in listed'
        PROVE  i < file'[sums].by
    <3>1. CASE file'[sums].by = n
      BY <2>3, <2>5, <2>6, <3>1
    <3>2. CASE file'[sums].by # n
      BY <1>2, <2>2, <2>4, <2>6, <3>2
    <3> QED BY <3>1, <3>2
  <2> QED BY <1>2, <1>7, <2>1, <2>5, <2>6
<1>8. CASE Next
  <2>1. \/ Start \/ Finish \/ Fail \/ UNCHANGED vars
        \/ /\ Moving /\ leftovers' = leftovers
           /\ listed' = listed \/ (listed' = leftovers /\ file'[SumsFile["dist"]].by = n)
    BY <1>1, <1>8, LeftSteps
  <2> QED BY <1>4, <1>5, <1>6, <1>7, <2>1
<1> QED BY <1>6, <1>8

\* What the steps done so far have brought about stands, and the files are as the
\* theorems below say, in every state that any number of invocations of the
\* scripts (build-all-reference.sh and those it runs) can reach.
THEOREM Invariance == Spec => [](Inv /\ LeftByEarlierOnes)
<1>1. Init => LeftByEarlierOnes
  BY DEF Init, LeftByEarlierOnes
<1> QED BY <1>1, InitInv, InvKept, LeftKept, PTL DEF Spec

(***************************************************************************)
(* The theorems.                                                           *)
(***************************************************************************)
\* However invocations fail, whatever its script writes beside a list of digests was
\* written by the invocation that wrote the list (build-downstream.sh and its like
\* remove the list before they replace anything).  The one thing more that the list
\* of dist can cover, what a DTBO build left there, is always of an earlier one.
THEOREM ListsNameNoMixture == Spec => []SumsNeverOverMixture
<1>1. Inv /\ LeftByEarlierOnes => SumsNeverOverMixture
  BY DEF Inv, LeftByEarlierOnes, OfOneInvocation, SumsNeverOverMixture
<1> QED BY <1>1, Invariance, PTL

\* A kernel is of the release with the whole series and no other change, and a
\* DTBO container of the overlays next to it (apply-patches.sh, build-dtbo.sh).
THEOREM ArtifactsAreOfTheirSources == Spec => []MadeOfTheRightSources
<1>1. Inv => MadeOfTheRightSources
  BY DEF Inv
<1> QED BY <1>1, Invariance, PTL

\* What verifies is complete (`sha256sum -c` over what a script left, now or
\* after later failures), and a candidate image is never half written.
THEOREM VerifiedMeansWhole == Spec => []VerifiedIsWhole
<1>1. ASSUME Inv
      PROVE  VerifiedIsWhole
  <2>1. TypeOK /\ LinesAreWhole /\ RestIsWhole /\ ImagesAreWhole
    BY <1>1 DEF Inv
  <2>2. ASSUME NEW f \in {"boot", "init_boot"}, file[f] # None
        PROVE  file[f].whole
    BY <2>1, <2>2 DEF ImagesAreWhole
  <2>3. ASSUME NEW p \in Places, Verified(p), NEW f \in Mandatory[p]
        PROVE  file[f] # None /\ file[f].whole
    <3>1. /\ Sums(p) # None /\ Sums(p).whole
          /\ \A line \in Sums(p).of : file[line.file] = line.content /\ line.content # None
      BY <2>1, <2>3 DEF Verified, LinesAreWhole
    <3>2. \A g \in Mandatory[p] \cap Listable[p] : file[g] # None /\ file[g].whole
      BY <2>1, <3>1 DEF LinesAreWhole
    <3>3. CASE f \in Listable[p]
      BY <2>3, <3>2, <3>3
    <3>4. CASE f \notin Listable[p]
      BY <2>1, <2>3, <3>1, <3>2, <3>4 DEF RestIsWhole
    <3> QED BY <3>3, <3>4
  <2> QED BY <2>2, <2>3 DEF VerifiedIsWhole
<1> QED BY <1>1, Invariance, PTL

\* A script that failed once it had got to its real work has left no list of
\* digests of an earlier invocation (build-downstream.sh:135-136).
THEOREM FailureLeavesNoOldSuccess == Spec => []FailureHidesOldSuccess
<1>1. ASSUME Inv
      PROVE  FailureHidesOldSuccess
  <2> DEFINE s == Script[script]
  <2>1. TypeOK /\ Fresh
    BY <1>1 DEF Inv
  <2>2. Disciplined(s) /\ s \in Seq(Steps) /\ Len(s) \in Nat
    BY <2>1, EveryScriptDisciplined DEF TypeOK, Disciplined
  <2>3. at \in 1..(Len(s) + 1)
    BY <2>1 DEF TypeOK
  <2>4. ASSUME NEW p \in Places, NEW i \in 1..at, i <= Len(s), s[i] = Work(p)
        PROVE  Sums(p) = None \/ Sums(p).by = n
    <3>1. i \in 1..Len(s)
      BY <2>2, <2>3, <2>4
    <3>2. SeenTo(s, i, Gone(SumsFile[p]))
      BY <2>2, <2>4, <3>1, NeedsFacts DEF Disciplined, Prepared
    <3>3. PICK j \in 1..(i - 1) : Gone(SumsFile[p]) \in Brings(s[j])
      BY <3>2 DEF SeenTo, Standing
    <3>4. j \in 1..(at - 1) /\ s[j] \in Steps
      BY <2>2, <2>3, <3>1
    <3>5. s[j].op = "remove" /\ s[j].file = SumsFile[p]
      BY <3>3, <3>4, BringsCases DEF Gone, Made, MadeOf, There, Whole, Applied, Lists
    <3> QED BY <2>1, <3>4, <3>5 DEF Fresh, Sums
  <2> QED BY <2>4 DEF FailureHidesOldSuccess
<1> QED BY <1>1, Invariance, PTL

\* When the pipeline reports that it is complete, everything it made verifies and
\* every artifact was made of the one next to it; after a repacking alone, the
\* candidates are (build-all-reference.sh:15, repack-reference-in-lima.sh).
THEOREM CompletionIsCurrent == Spec => []PipelineIsCurrent
<1>1. ASSUME Inv, LeftByEarlierOnes, status = "ok"
      PROVE  PipelineIsCurrent
  <2> DEFINE s == Script[script]
  <2>1. TypeOK /\ Stands /\ LinesAreWhole /\ listed \subseteq leftovers
    BY <1>1 DEF Inv, LeftByEarlierOnes
  <2>2. Len(s) \in Nat /\ at = Len(s) + 1 /\ half = FALSE
    BY <1>1, <2>1, EveryScriptDisciplined DEF TypeOK, Disciplined
  <2>3. ASSUME NEW c, EndsWith(s, c)
        PROVE  Holds(c)
    <3>1. PICK j \in 1..Len(s) : Standing(s, j, Len(s), c)
      BY <2>3 DEF EndsWith
    <3>2. j \in 1..(at - 1) /\ (IF half THEN at ELSE at - 1) = Len(s)
      BY <2>2
    <3>3. c \in Brings(s[j])
      BY <3>1 DEF Standing
    <3> QED BY <2>1, <3>1, <3>2, <3>3 DEF Stands
  <2>4. ASSUME NEW p \in Places, Holds(Lists(p))
        PROVE  Verified(p)
    BY <2>1, <2>4, HoldsFacts DEF LinesAreWhole, Verified, Sums
  <2>5. ASSUME script \in {"repack", "all"}
        PROVE  /\ Verified("candidates")
               /\ file["stock_boot"].whole /\ file["stock_init_boot"].whole
               /\ file["boot"].of = {file["stock_boot"], file["Image"]}
               /\ file["init_boot"].of = {file["stock_init_boot"], file["cpio"]}
    <3>1. s = Repack \/ s = All
      BY <2>5 DEF Script
    <3>2. /\ EndsWith(s, Lists("candidates"))
          /\ EndsWith(s, Whole("stock_boot")) /\ EndsWith(s, Whole("stock_init_boot"))
          /\ EndsWith(s, MadeOf("boot", {"stock_boot", "Image"}))
          /\ EndsWith(s, MadeOf("init_boot", {"stock_init_boot", "cpio"}))
      <4>1. "candidates" \in Places \ {"stock"}
        BY Tables
      <4> QED BY <3>1, <4>1, RepackEnds, AllEnds
    <3>3. /\ Holds(Lists("candidates")) /\ Holds(Whole("stock_boot"))
          /\ Holds(Whole("stock_init_boot"))
          /\ Holds(MadeOf("boot", {"stock_boot", "Image"}))
          /\ Holds(MadeOf("init_boot", {"stock_init_boot", "cpio"}))
      BY <2>3, <3>2
    <3>4. /\ Now({"stock_boot", "Image"}) = {file["stock_boot"], file["Image"]}
          /\ Now({"stock_init_boot", "cpio"}) = {file["stock_init_boot"], file["cpio"]}
      BY DEF Now
    <3> QED BY <2>4, <3>3, <3>4, HoldsFacts, Tables
  <2>6. ASSUME script = "all"
        PROVE  /\ \A p \in Places \ {"stock"} : Verified(p)
               /\ tree = Patched
               /\ file["cpio"].of = {file["rootfs"]} /\ file["rootfs"].of = {file["busybox"]}
               /\ file["dtbo"].of = {file["dtbs"]}
    <3>1. s = All
      BY <2>6 DEF Script
    <3>2. /\ \A p \in Places \ {"stock"} : Holds(Lists(p))
          /\ Holds(Applied) /\ Holds(MadeOf("cpio", {"rootfs"}))
          /\ Holds(MadeOf("rootfs", {"busybox"})) /\ Holds(MadeOf("dtbo", {"dtbs"}))
      BY <2>3, <3>1, AllEnds
    <3>3. /\ Now({"rootfs"}) = {file["rootfs"]} /\ Now({"busybox"}) = {file["busybox"]}
          /\ Now({"dtbs"}) = {file["dtbs"]}
      BY DEF Now
    <3> QED BY <2>4, <3>2, <3>3, HoldsFacts
  <2> QED BY <2>5, <2>6 DEF PipelineIsCurrent
<1>2. Inv /\ LeftByEarlierOnes => PipelineIsCurrent
  BY <1>1 DEF PipelineIsCurrent
<1> QED BY <1>2, Invariance, PTL
================================================================================
