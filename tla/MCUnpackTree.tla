----------------------------- MODULE MCUnpackTree -----------------------------
(* Releases of two ZIPs and a TAR; ZIPs within ZIPs, an archive within a TAR, *)
(* or the TAR one ZIP too deep.                                               *)
EXTENDS UnpackTree

MCArchives == {"base.zip", "overlay.zip", "kernel.tar", "inner.zip", "fixture.zip", "deep.zip"}
MCKind == [a \in MCArchives |-> IF a = "kernel.tar" THEN "tar" ELSE "zip"]
MCShallow == [a \in MCArchives |->
  CASE a = "inner.zip" -> "base.zip"
    [] a = "deep.zip" -> "inner.zip"
    [] a = "kernel.tar" -> "overlay.zip"
    [] a = "fixture.zip" -> "kernel.tar"
    [] OTHER -> "release"]
MCHolders == {MCShallow, [MCShallow EXCEPT !["kernel.tar"] = "deep.zip"]}
\* os.walk: the files of a directory, then its subdirectories.
MCRank == [a \in MCArchives |->
  CASE a = "base.zip" -> 1 [] a = "overlay.zip" -> 2 [] a = "inner.zip" -> 3
    [] a = "deep.zip" -> 4 [] a = "kernel.tar" -> 5 [] a = "fixture.zip" -> 6]
==============================================================================
