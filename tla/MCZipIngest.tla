----------------------------- MODULE MCZipIngest -----------------------------
(* Small instances of ZipIngest for TLC. *)
EXTENDS ZipIngest, TLC

CONSTANTS p1, p2, safe, unsafe, good, other, bad, ino1, ino2

MCProcs == {p1, p2}
MCInfos == {safe, unsafe}
MCSafeInfos == {safe}
MCData == {good, other, bad}
MCGoodData == {good, other}
MCInodes == {ino1, ino2}

\* Two complete archives with the same names, a truncated download and one
\* whose central directory is rejected.
MCDownloads ==
  {[infos |-> safe,   data |-> <<good, good>>],
   [infos |-> safe,   data |-> <<good, other>>],
   [infos |-> safe,   data |-> <<good, bad>>],
   [infos |-> unsafe, data |-> <<good, good>>]}

\* Two runs together see one file, which is moved or rewritten at most once; a run
\* whose competitor was killed before its first step, two files and two changes, or
\* one file and three that move its mtime: to another archive, back, and again.
MCUnborn(p) == pc[p] = "destination" \/ (pc[p] = "crashed" /\ snap[p] = None /\ pass[p] = 1)
MCOneFile == path # ino2 /\ content[ino2] = [infos |-> safe, data |-> <<good, good>>]
MCBounds ==
  \/ MCUnborn(p1) /\ MCUnborn(p2) /\ changes = 0
  \/ /\ MCUnborn(p2) /\ pc[p2] = "crashed"
     /\ changes <= 2 \/ (MCOneFile /\ hidden = {})
  \/ changes <= 1 /\ MCOneFile
==============================================================================
