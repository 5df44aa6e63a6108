--------------------------- MODULE MCReleaseExtract ---------------------------
(* Archives of up to three members over two levels of names. *)
EXTENDS ReleaseExtract, FiniteSets

A == <<"a">>
B == <<"b">>
AB == <<"a", "b">>
AC == <<"a", "c">>

M(key, kind, text) == [key |-> key, kind |-> kind, text |-> text]

\* Link texts: a sibling, an ordinary ../x, one that climbs out, one whose
\* middle ".." climbs out only if "a/b" is a link.
Texts == {<<"b">>, <<"a">>, <<"..", "b">>, <<"b", "..", "..", "c">>}

MCMembers ==
  {M(k, "dir", <<>>) : k \in {A, B, AB}}
  \cup {M(k, "file", <<>>) : k \in {A, B, AB}}
  \cup {M(k, "link", t) : k \in {A, B, AB, AC}, t \in Texts}
  \cup {M(<<>>, "root", <<>>), M(A, "unsafe", <<>>), M(A, "special", <<>>),
        M(A, "link", <<>>)}

MCArchives == {s \in UNION {[1..n -> MCMembers] : n \in 0..3} :
                 \* at most one member of a kind that only says "reject"
                 Cardinality({i \in DOMAIN s : s[i].kind \in {"root", "unsafe", "special"}}) <= 1}

MCFewArchives == UNION {[1..n -> MCMembers] : n \in 0..1}

MCNames == {"a", "b", "c"}

MCOldTree == [p \in {<<"old">>} |-> Node("file", <<>>)]
==============================================================================
