------------------------- MODULE ReleaseExtractProofs -------------------------
(***************************************************************************)
(* For every archive, whatever its members and links, over names of any    *)
(* length: what the extractor publishes, what it refuses and what it       *)
(* leaves behind.                                                          *)
(*                                                                         *)
(* 1  Normalised names: how far a text climbs, and that an accepted link   *)
(*    climbs no further than the directory it is in is deep.               *)
(* 2  Following links: nothing leaves a tree whose links are all like      *)
(*    that, and a cycle among some of the links is one among all.          *)
(* 3  Publication: one more member in the tree at a time.                  *)
(* 4  What a run finds and leaves behind, and the invariant.               *)
(*                                                                         *)
(* Normalize and Walk are recursive functions; that such a function exists *)
(* and what it computes is shown by induction on its argument (Counting).  *)
(***************************************************************************)
EXTENDS ReleaseExtract, SequenceTheorems, WellFoundedInduction, NaturalsInduction, TLAPS

\* Induction over the naturals, for a set (from WFMin).
LEMMA Counting ==
  ASSUME NEW S, 0 \in S, \A n \in Nat : n \in S => n + 1 \in S
  PROVE  \A n \in Nat : n \in S
<1> SUFFICES ASSUME \E n \in Nat : n \notin S PROVE FALSE
  OBVIOUS
<1> DEFINE T == {n \in Nat : n \notin S}
<1> DEFINE Below == {ss \in Nat \X Nat : ss[1] < ss[2]}
<1>0. IsWellFoundedOn(Below, Nat)
  BY NatLessThanWellFounded, Zenon DEF OpToRel
<1>. T \subseteq Nat /\ T # {}
  OBVIOUS
<1> HIDE DEF T, Below
<1>1. PICK m \in T : \A y \in T : ~(<<y, m>> \in Below)
  BY <1>0, WFMin, Zenon
<1> USE DEF T, Below
<1>2. m \in Nat /\ m # 0
  BY <1>1
<1>3. m - 1 \in Nat /\ m = (m - 1) + 1 /\ m - 1 < m
  BY <1>2
<1>4. <<m - 1, m>> \in Below
  BY <1>2, <1>3
<1> QED
  BY <1>1, <1>2, <1>3, <1>4

(***************************************************************************)
(* 1. Normalised names.                                                    *)
(***************************************************************************)

\* The steps of a normalisation.
NormTrace(f, text) ==
  /\ f[0] = <<>>
  /\ \A n \in 1..Len(text) : f[n] = NormStep(f[n - 1], text[n])

\* Normalize is the last of a sequence of steps, one per component.
LEMMA NormExists ==
  ASSUME NEW text, Len(text) \in Nat
  PROVE  \E f : NormTrace(f, text) /\ Normalize(text) = f[Len(text)]
<1> DEFINE At(f, n) == IF n = 0 THEN <<>> ELSE NormStep(f[n - 1], text[n])
           S == {N \in Nat : \E f : f = [n \in 0..N |-> At(f, n)]}
<1>1. 0 \in S
  <2> DEFINE f == [n \in 0..0 |-> <<>>]
  <2>1. f = [n \in 0..0 |-> At(f, n)]
    OBVIOUS
  <2> QED
    BY <2>1
<1>2. ASSUME NEW N \in Nat, N \in S PROVE N + 1 \in S
  <2>1. PICK g : g = [n \in 0..N |-> At(g, n)]
    BY <1>2
  <2> DEFINE f == [n \in 0..N + 1 |-> IF n <= N THEN g[n] ELSE NormStep(g[N], text[n])]
  <2> HIDE DEF At
  <2>2. ASSUME NEW n \in 0..N + 1 PROVE f[n] = At(f, n)
    <3>1. CASE n = 0
      <4>1. g[0] = At(g, 0)
        BY <2>1
      <4> QED
        BY <3>1, <4>1 DEF At
    <3>2. CASE n \in 1..N
      <4>1. g[n] = At(g, n) /\ f[n] = g[n] /\ f[n - 1] = g[n - 1]
        BY <2>1, <3>2
      <4> QED
        BY <3>2, <4>1 DEF At
    <3>3. CASE n = N + 1
      <4>1. f[n] = NormStep(g[N], text[n]) /\ f[n - 1] = g[N] /\ n # 0
        BY <3>3
      <4> QED
        BY <4>1 DEF At
    <3> QED
      BY <3>1, <3>2, <3>3
  <2>3. f = [n \in 0..N + 1 |-> At(f, n)]
    BY <2>2
  <2> HIDE DEF f
  <2> QED
    BY <2>3
<1> HIDE DEF S
<1>3. Len(text) \in S
  BY <1>1, <1>2, Counting
<1> USE DEF S
<1> DEFINE norm == CHOOSE f : f = [n \in 0..Len(text) |-> At(f, n)]
<1>4. norm = [n \in 0..Len(text) |-> At(norm, n)]
  BY <1>3
<1>5. Normalize(text) = norm[Len(text)]
  BY DEF Normalize
<1> HIDE DEF norm, At
<1>6. \A n \in 0..Len(text) : norm[n] = At(norm, n)
  BY <1>4
<1>7. NormTrace(norm, text)
  BY <1>6 DEF NormTrace, At
<1> QED
  BY <1>5, <1>7

\* s climbs u levels and then names things.
Shape(s, u) ==
  /\ s \in Seq(Component)
  /\ u \in 0..Len(s)
  /\ \A j \in 1..Len(s) : s[j] = Up <=> j <= u

\* A name goes to the end of what is normalised so far,
LEMMA ShapeDown ==
  ASSUME NEW s, NEW u, Shape(s, u), NEW c \in Component, c # Up
  PROVE  Shape(NormStep(s, c), u) /\ Len(NormStep(s, c)) = Len(s) + 1
<1>1. NormStep(s, c) = Append(s, c)
  BY DEF NormStep
<1>2. /\ Append(s, c) \in Seq(Component)
      /\ Len(Append(s, c)) = Len(s) + 1
      /\ \A j \in 1..Len(s) : Append(s, c)[j] = s[j]
      /\ Append(s, c)[Len(s) + 1] = c
  BY DEF Shape
<1> HIDE DEF Component, Up
<1>3. ASSUME NEW j \in 1..Len(s) + 1 PROVE Append(s, c)[j] = Up <=> j <= u
  <2>1. CASE j \in 1..Len(s)
    BY <1>2, <2>1 DEF Shape
  <2>2. CASE j = Len(s) + 1
    BY <1>2, <2>2 DEF Shape
  <2> QED
    BY <2>1, <2>2 DEF Shape
<1> QED
  BY <1>1, <1>2, <1>3 DEF Shape

\* A prefix, element by element.
LEMMA PrefixFacts ==
  ASSUME NEW S, NEW s \in Seq(S), NEW n \in 0..Len(s)
  PROVE  /\ SubSeq(s, 1, n) \in Seq(S)
         /\ Len(SubSeq(s, 1, n)) = n
         /\ \A j \in 1..n : SubSeq(s, 1, n)[j] = s[j]
<1>1. \A i \in 1..n : s[i] \in S
  OBVIOUS
<1>2. /\ SubSeq(s, 1, n) \in Seq(S)
      /\ Len(SubSeq(s, 1, n)) = IF 1 <= n THEN n - 1 + 1 ELSE 0
      /\ \A i \in 1..n - 1 + 1 : SubSeq(s, 1, n)[i] = s[1 + i - 1]
  BY <1>1, SubSeqProperties
<1> QED
  BY <1>2

\* ".." takes away the last name,
LEMMA ShapePop ==
  ASSUME NEW s, NEW u, Shape(s, u), Len(s) > u
  PROVE  Shape(NormStep(s, Up), u) /\ Len(NormStep(s, Up)) = Len(s) - 1
<1> USE DEF Shape
<1>1. s # <<>> /\ Len(s) \in Nat \ {0} /\ u \in Nat
  OBVIOUS
<1>2. Last(s) # Up
  BY <1>1 DEF Last
<1>3. NormStep(s, Up) = Front(s)
  BY <1>1, <1>2 DEF NormStep
<1>4. Front(s) = SubSeq(s, 1, Len(s) - 1)
  BY DEF Front
<1>5. s \in Seq(Component) /\ Len(s) - 1 \in 0..Len(s)
  BY <1>1
<1> HIDE DEF Shape
<1>6. /\ Front(s) \in Seq(Component)
      /\ Len(Front(s)) = Len(s) - 1
      /\ \A j \in 1..Len(s) - 1 : Front(s)[j] = s[j]
  BY <1>4, <1>5, PrefixFacts
<1> QED
  BY <1>1, <1>3, <1>6 DEF Shape

\* and is kept when there is none.
LEMMA ShapeUp ==
  ASSUME NEW s, NEW u, Shape(s, u), Len(s) = u
  PROVE  Shape(NormStep(s, Up), u + 1) /\ Len(NormStep(s, Up)) = Len(s) + 1
<1> USE DEF Shape
<1>1. s = <<>> \/ Last(s) = Up
  BY DEF Last
<1>2. NormStep(s, Up) = Append(s, Up)
  BY <1>1 DEF NormStep
<1>3. /\ Append(s, Up) \in Seq(Component)
      /\ Len(Append(s, Up)) = Len(s) + 1
      /\ \A j \in 1..Len(s) : Append(s, Up)[j] = s[j]
      /\ Append(s, Up)[Len(s) + 1] = Up
  BY DEF Component
<1> QED
  BY <1>2, <1>3

\* Nothing climbs nowhere.
LEMMA EmptyShape == Shape(<<>>, 0) /\ Len(<<>>) = 0
BY EmptySeq DEF Shape

\* The names of a directory are left as they are.
LEMMA NamesStay ==
  ASSUME NEW dir \in Seq(Names), NEW text \in Seq(Component),
         NEW f, NormTrace(f, dir \o text)
  PROVE  \A n \in 0..Len(dir) : Shape(f[n], 0) /\ Len(f[n]) = n
<1> DEFINE S == {n \in Nat : n <= Len(dir) => Shape(f[n], 0) /\ Len(f[n]) = n}
<1>1. 0 \in S
  <2>1. f[0] = <<>>
    BY DEF NormTrace
  <2> QED
    BY <2>1, EmptyShape
<1>2. ASSUME NEW n \in Nat, n \in S PROVE n + 1 \in S
  <2> SUFFICES ASSUME n + 1 <= Len(dir)
               PROVE  Shape(f[n + 1], 0) /\ Len(f[n + 1]) = n + 1
    OBVIOUS
  <2>1. n + 1 \in 1..Len(dir \o text) /\ (dir \o text)[n + 1] = dir[n + 1]
    OBVIOUS
  <2>2. dir[n + 1] \in Component /\ dir[n + 1] # Up
    BY ArchiveAssumption DEF ArchiveAssumption, Component
  <2>3. Shape(f[n], 0) /\ Len(f[n]) = n
    BY <1>2
  <2>4. f[n + 1] = NormStep(f[n], dir[n + 1])
    <3>1. f[n + 1] = NormStep(f[(n + 1) - 1], (dir \o text)[n + 1])
      BY <2>1, Zenon DEF NormTrace
    <3>2. (n + 1) - 1 = n
      OBVIOUS
    <3> QED
      BY <2>1, <3>1, <3>2
  <2> QED
    BY <2>2, <2>3, <2>4, ShapeDown
<1> HIDE DEF S
<1>3. \A n \in Nat : n \in S
  BY <1>1, <1>2, Counting
<1> QED
  BY <1>3 DEF S

\* What normalising a text below a directory of depth d gives, said of what
\* normalising the text alone gives.
Below(s, u, t, d) ==
  IF u <= d
  THEN Shape(t, 0) /\ Len(t) = (d - u) + (Len(s) - u)
  ELSE Shape(t, u - d) /\ Len(t) = Len(s) - d

\* The relation survives one more component.
LEMMA BelowStep ==
  ASSUME NEW s, NEW u, Shape(s, u), NEW d \in Nat, NEW t, Below(s, u, t, d),
         NEW c \in Component
  PROVE  \E v : Shape(NormStep(s, c), v) /\ Below(NormStep(s, c), v, NormStep(t, c), d)
<1>0. u \in Nat /\ Len(s) \in Nat /\ u <= Len(s)
  BY DEF Shape
<1>1. CASE c # Up
  <2>1. Shape(NormStep(s, c), u) /\ Len(NormStep(s, c)) = Len(s) + 1
    BY <1>1, ShapeDown
  <2>2. Below(NormStep(s, c), u, NormStep(t, c), d)
    <3>1. CASE u <= d
      <4>1. Shape(t, 0) /\ Len(t) = (d - u) + (Len(s) - u)
        BY <3>1 DEF Below
      <4>2. Shape(NormStep(t, c), 0) /\ Len(NormStep(t, c)) = Len(t) + 1
        BY <4>1, <1>1, ShapeDown
      <4> QED
        BY <1>0, <2>1, <3>1, <4>1, <4>2 DEF Below
    <3>2. CASE ~(u <= d)
      <4>1. Shape(t, u - d) /\ Len(t) = Len(s) - d
        BY <3>2 DEF Below
      <4>2. Shape(NormStep(t, c), u - d) /\ Len(NormStep(t, c)) = Len(t) + 1
        BY <4>1, <1>1, ShapeDown
      <4> QED
        BY <1>0, <2>1, <3>2, <4>1, <4>2 DEF Below
    <3> QED
      BY <3>1, <3>2
  <2> QED
    BY <2>1, <2>2
<1>2. CASE c = Up /\ Len(s) > u
  <2>1. Shape(NormStep(s, c), u) /\ Len(NormStep(s, c)) = Len(s) - 1
    BY <1>2, ShapePop
  <2>2. Below(NormStep(s, c), u, NormStep(t, c), d)
    <3>1. CASE u <= d
      <4>1. Shape(t, 0) /\ Len(t) = (d - u) + (Len(s) - u) /\ Len(t) > 0
        BY <1>0, <1>2, <3>1 DEF Below
      <4>2. Shape(NormStep(t, c), 0) /\ Len(NormStep(t, c)) = Len(t) - 1
        BY <4>1, <1>2, ShapePop
      <4> QED
        BY <1>0, <2>1, <3>1, <4>1, <4>2 DEF Below
    <3>2. CASE ~(u <= d)
      <4>1. Shape(t, u - d) /\ Len(t) = Len(s) - d /\ Len(t) > u - d
        BY <1>0, <1>2, <3>2 DEF Below
      <4>2. Shape(NormStep(t, c), u - d) /\ Len(NormStep(t, c)) = Len(t) - 1
        BY <4>1, <1>2, ShapePop
      <4> QED
        BY <1>0, <2>1, <3>2, <4>1, <4>2 DEF Below
    <3> QED
      BY <3>1, <3>2
  <2> QED
    BY <2>1, <2>2
<1>3. CASE c = Up /\ Len(s) = u
  <2>1. Shape(NormStep(s, c), u + 1) /\ Len(NormStep(s, c)) = Len(s) + 1
    BY <1>3, ShapeUp
  <2>2. Below(NormStep(s, c), u + 1, NormStep(t, c), d)
    <3>1. CASE u < d
      <4>1. Shape(t, 0) /\ Len(t) = d - u /\ Len(t) > 0
        BY <1>0, <1>3, <3>1 DEF Below
      <4>2. Shape(NormStep(t, c), 0) /\ Len(NormStep(t, c)) = Len(t) - 1
        BY <4>1, <1>3, ShapePop
      <4> QED
        BY <1>0, <1>3, <2>1, <3>1, <4>1, <4>2 DEF Below
    <3>2. CASE u = d
      <4>1. Shape(t, 0) /\ Len(t) = 0
        BY <1>0, <1>3, <3>2 DEF Below
      <4>2. Shape(NormStep(t, c), 1) /\ Len(NormStep(t, c)) = 1
        BY <4>1, <1>3, ShapeUp
      <4> QED
        BY <1>0, <1>3, <2>1, <3>2, <4>1, <4>2 DEF Below
    <3>3. CASE u > d
      <4>1. Shape(t, u - d) /\ Len(t) = u - d
        BY <1>0, <1>3, <3>3 DEF Below
      <4>2. Shape(NormStep(t, c), (u - d) + 1) /\ Len(NormStep(t, c)) = Len(t) + 1
        BY <4>1, <1>3, ShapeUp
      <4>3. (u - d) + 1 = (u + 1) - d /\ ~(u + 1 <= d)
        BY <1>0, <3>3
      <4> QED
        BY <1>0, <1>3, <2>1, <4>3, <4>1, <4>2 DEF Below
    <3> QED
      BY <1>0, <3>1, <3>2, <3>3
  <2> QED
    BY <2>1, <2>2
<1> QED
  BY <1>0, <1>1, <1>2, <1>3

\* A text that climbs at most n levels, before it names anything.
Climbs(text, n) == \E u : Shape(text, u) /\ u <= n

\* Normalising takes every ".." to the front of the text, and a target that is
\* below the root has no more of them than the link has directories.
LEMMA AcceptedClimbs ==
  ASSUME NEW dir \in Seq(Names), NEW text \in Seq(Component),
         Normalize(dir \o text) # <<>>, Head(Normalize(dir \o text)) # Up
  PROVE  Climbs(Normalize(text), Len(dir))
<1> DEFINE d == Len(dir)
           whole == dir \o text
<1>1. /\ d \in Nat /\ Len(text) \in Nat /\ Len(whole) = d + Len(text)
      /\ \A n \in 1..Len(text) : whole[d + n] = text[n]
  OBVIOUS
<1> HIDE DEF whole
<1>2. PICK f : NormTrace(f, whole) /\ Normalize(whole) = f[Len(whole)]
  BY <1>1, NormExists
<1>3. PICK g : NormTrace(g, text) /\ Normalize(text) = g[Len(text)]
  BY <1>1, NormExists
<1> DEFINE S == {n \in Nat : n <= Len(text) =>
                   \E u : Shape(g[n], u) /\ Below(g[n], u, f[d + n], d)}
<1>4. 0 \in S
  <2>1. Shape(f[d], 0) /\ Len(f[d]) = d
    BY <1>1, <1>2, NamesStay DEF whole
  <2>2. g[0] = <<>>
    BY <1>3 DEF NormTrace
  <2>3. Shape(g[0], 0)
    BY <2>2, EmptyShape
  <2>4. d + 0 = d /\ Len(g[0]) = 0
    BY <2>2
  <2>5. Below(g[0], 0, f[d + 0], d)
    BY <2>1, <2>4 DEF Below
  <2> QED
    BY <2>3, <2>5
<1>5. ASSUME NEW n \in Nat, n \in S PROVE n + 1 \in S
  <2> SUFFICES ASSUME n + 1 <= Len(text)
               PROVE  \E u : Shape(g[n + 1], u) /\ Below(g[n + 1], u, f[d + (n + 1)], d)
    OBVIOUS
  <2> DEFINE c == text[n + 1]
  <2>1. PICK u : Shape(g[n], u) /\ Below(g[n], u, f[d + n], d)
    BY <1>5
  <2>2. g[n + 1] = NormStep(g[n], c)
    <3>1. n + 1 \in 1..Len(text) /\ (n + 1) - 1 = n
      BY <1>1
    <3> QED
      BY <1>3, <3>1 DEF NormTrace
  <2>3. f[d + (n + 1)] = NormStep(f[d + n], c)
    <3>1. /\ d + (n + 1) \in 1..Len(whole)
          /\ (d + (n + 1)) - 1 = d + n
          /\ whole[d + (n + 1)] = c
      BY <1>1
    <3> QED
      BY <1>2, <3>1 DEF NormTrace
  <2>4. c \in Component
    BY <1>1
  <2> QED
    BY <2>1, <2>2, <2>3, <2>4, BelowStep
<1> HIDE DEF S
<1>6. Len(text) \in S
  BY <1>1, <1>4, <1>5, Counting
<1>7. PICK u : Shape(Normalize(text), u) /\ Below(Normalize(text), u, Normalize(whole), d)
  BY <1>1, <1>2, <1>3, <1>6 DEF S
<1>8. u <= d
  <2>1. SUFFICES ASSUME ~(u <= d) PROVE FALSE
    OBVIOUS
  <2>2. Shape(Normalize(whole), u - d) /\ u \in Nat
    BY <1>7, <2>1 DEF Below, Shape
  <2>3. Normalize(whole)[1] = Up
    BY <1>1, <2>1, <2>2 DEF Shape
  <2> QED
    BY <2>2, <2>3 DEF Shape, whole
<1> QED
  BY <1>7, <1>8 DEF Climbs

(***************************************************************************)
(* 2. Following links.                                                     *)
(***************************************************************************)

\* What is left of a text after its first component,
LEMMA ShapeTail ==
  ASSUME NEW s, NEW u, Shape(s, u), s # <<>>
  PROVE  /\ Head(s) \in Component
         /\ Head(s) = Up <=> u > 0
         /\ Shape(Tail(s), IF u > 0 THEN u - 1 ELSE 0)
         /\ Len(Tail(s)) = Len(s) - 1
<1>1. /\ Len(s) \in Nat \ {0} /\ u \in Nat /\ u <= Len(s)
      /\ s \in Seq(Component)
      /\ \A j \in 1..Len(s) : s[j] = Up <=> j <= u
  BY DEF Shape
<1>2. /\ Tail(s) \in Seq(Component) /\ Len(Tail(s)) = Len(s) - 1
      /\ \A j \in 1..Len(s) - 1 : Tail(s)[j] = s[j + 1]
      /\ Head(s) = s[1] /\ s[1] \in Component
  BY <1>1
<1> HIDE DEF Up, Component
<1>3. Shape(Tail(s), IF u > 0 THEN u - 1 ELSE 0)
  <2> DEFINE v == IF u > 0 THEN u - 1 ELSE 0
  <2>1. v \in 0..Len(Tail(s))
    BY <1>1, <1>2
  <2>2. ASSUME NEW j \in 1..Len(Tail(s)) PROVE Tail(s)[j] = Up <=> j <= v
    BY <1>1, <1>2
  <2> QED
    BY <1>2, <2>1, <2>2 DEF Shape
<1> QED
  BY <1>1, <1>2, <1>3

\* and a text put in front of names.
LEMMA ShapeConcat ==
  ASSUME NEW t, NEW v, Shape(t, v), NEW s, Shape(s, 0)
  PROVE  Shape(t \o s, v) /\ Len(t \o s) = Len(t) + Len(s)
<1>1. /\ t \in Seq(Component) /\ s \in Seq(Component)
      /\ v \in Nat /\ v <= Len(t)
      /\ \A j \in 1..Len(t) : t[j] = Up <=> j <= v
      /\ \A j \in 1..Len(s) : s[j] # Up
  BY DEF Shape
<1> HIDE DEF Up, Component
<1>2. /\ t \o s \in Seq(Component)
      /\ Len(t \o s) = Len(t) + Len(s)
      /\ \A j \in 1..Len(t) : (t \o s)[j] = t[j]
      /\ \A j \in 1..Len(s) : (t \o s)[Len(t) + j] = s[j]
  BY <1>1
<1>3. ASSUME NEW j \in 1..Len(t) + Len(s) PROVE (t \o s)[j] = Up <=> j <= v
  <2>1. CASE j <= Len(t)
    BY <1>1, <1>2, <2>1
  <2>2. CASE j > Len(t)
    <3>1. j - Len(t) \in 1..Len(s) /\ j = Len(t) + (j - Len(t))
      BY <1>1, <2>2
    <3>2. (t \o s)[j] = s[j - Len(t)]
      BY <1>2, <3>1
    <3> QED
      BY <1>1, <2>2, <3>1, <3>2
  <2> QED
    BY <1>1, <2>1, <2>2
<1> QED
  BY <1>1, <1>2, <1>3 DEF Shape

\* Names do not climb.
LEMMA NamesShape ==
  ASSUME NEW path \in Seq(Names)
  PROVE  Shape(path, 0)
BY ArchiveAssumption DEF ArchiveAssumption, Shape, Component

\* No link of the tree climbs above the directory it is in.
Moored(tree) ==
  \A p \in DOMAIN tree : tree[p].kind = "link" =>
    p \in Seq(Names) /\ p # <<>> /\ Climbs(tree[p].text, Len(p) - 1)

\* Somewhere in the tree, with no more ".." ahead than there are directories.
OnTheWay(w) ==
  /\ w \in [at : Seq(Names), todo : Seq(Component), out : BOOLEAN]
  /\ Climbs(w.todo, Len(w.at))
  /\ ~w.out

\* What the next component leads to.
IsLink(tree, p) == p \in DOMAIN tree /\ tree[p].kind = "link"
Here(w) == Append(w.at, Head(w.todo))

\* Following a path, one component at a time: "..",
LEMMA StepUp ==
  ASSUME NEW tree, NEW w, OnTheWay(w), w.todo # <<>>, Head(w.todo) = Up
  PROVE  /\ WalkStep(tree, w) = [at |-> Front(w.at), todo |-> Tail(w.todo), out |-> FALSE]
         /\ WalkStep(tree, w).todo = Tail(w.todo)
         /\ OnTheWay(WalkStep(tree, w))
<1>1. PICK u : Shape(w.todo, u) /\ u <= Len(w.at)
  BY DEF OnTheWay, Climbs
<1>2. Shape(Tail(w.todo), u - 1) /\ u > 0 /\ u \in Nat
  BY <1>1, ShapeTail DEF Shape
<1>3. w.at \in Seq(Names) /\ Len(w.at) \in Nat \ {0} /\ w.at # <<>>
  BY <1>1, <1>2 DEF OnTheWay
<1>4. WalkStep(tree, w) = [w EXCEPT !.at = Front(w.at), !.todo = Tail(w.todo)]
  BY <1>3, Zenon DEF WalkStep, OnTheWay
<1>5. WalkStep(tree, w) = [at |-> Front(w.at), todo |-> Tail(w.todo), out |-> FALSE]
  BY <1>4 DEF OnTheWay
<1>6. Front(w.at) \in Seq(Names) /\ Len(Front(w.at)) = Len(w.at) - 1
  <2>1. Len(w.at) - 1 \in 0..Len(w.at)
    BY <1>3
  <2> QED
    BY <1>3, <2>1, PrefixFacts DEF Front
<1>7. Tail(w.todo) \in Seq(Component) /\ Climbs(Tail(w.todo), Len(w.at) - 1)
  <2>1. u - 1 <= Len(w.at) - 1
    BY <1>1, <1>2, <1>3
  <2>2. Climbs(Tail(w.todo), Len(w.at) - 1)
    BY <1>2, <2>1 DEF Climbs
  <2> QED
    BY <1>2, <2>2 DEF Shape
<1>8. OnTheWay(WalkStep(tree, w))
  BY <1>5, <1>6, <1>7 DEF OnTheWay
<1>9. WalkStep(tree, w).todo = Tail(w.todo)
  <2> DEFINE at == Front(w.at)
             todo == Tail(w.todo)
  <2>1. WalkStep(tree, w) = [at |-> at, todo |-> todo, out |-> FALSE]
    BY <1>5
  <2> HIDE DEF at, todo
  <2>2. WalkStep(tree, w).todo = todo
    BY <2>1
  <2> QED
    BY <2>2 DEF todo
<1> QED
  BY <1>5, <1>8, <1>9

\* a link, whose text climbs no further than the directory it is in is deep,
LEMMA StepLink ==
  ASSUME NEW tree, Moored(tree), NEW w, OnTheWay(w),
         w.todo # <<>>, Head(w.todo) # Up, IsLink(tree, Here(w))
  PROVE  /\ WalkStep(tree, w)
              = [at |-> w.at, todo |-> tree[Here(w)].text \o Tail(w.todo), out |-> FALSE]
         /\ OnTheWay(WalkStep(tree, w))
         /\ Len(WalkStep(tree, w).todo) >= Len(w.todo) - 1
<1> DEFINE text == tree[Here(w)].text
<1>1. PICK u : Shape(w.todo, u) /\ u <= Len(w.at)
  BY DEF OnTheWay, Climbs
<1>2. Shape(Tail(w.todo), 0) /\ Len(Tail(w.todo)) = Len(w.todo) - 1 /\ Head(w.todo) \in Names
  <2>1. u \in Nat /\ ~(u > 0)
    BY <1>1, ShapeTail DEF Shape
  <2> QED
    BY <1>1, <2>1, ShapeTail DEF Component
<1>3. w.at \in Seq(Names) /\ Len(Here(w)) - 1 = Len(w.at)
  BY <1>2 DEF OnTheWay, Here
<1>4. Climbs(text, Len(w.at))
  BY <1>3 DEF Moored, IsLink
<1>5. PICK v : Shape(text, v) /\ v <= Len(w.at)
  BY <1>4 DEF Climbs
<1>6. /\ Shape(text \o Tail(w.todo), v)
      /\ Len(text \o Tail(w.todo)) = Len(text) + (Len(w.todo) - 1)
  BY <1>2, <1>5, ShapeConcat
<1>7. WalkStep(tree, w) = [w EXCEPT !.todo = text \o Tail(w.todo)]
  BY Zenon DEF WalkStep, OnTheWay, IsLink, Here
<1>8. WalkStep(tree, w) = [at |-> w.at, todo |-> text \o Tail(w.todo), out |-> FALSE]
  BY <1>7 DEF OnTheWay
<1>9. text \o Tail(w.todo) \in Seq(Component) /\ Climbs(text \o Tail(w.todo), Len(w.at))
  BY <1>5, <1>6 DEF Climbs, Shape
<1>10. Len(text) \in Nat /\ Len(w.todo) \in Nat
  BY <1>1, <1>5 DEF Shape
<1>11. OnTheWay(WalkStep(tree, w))
  BY <1>3, <1>8, <1>9 DEF OnTheWay
<1> DEFINE ahead == text \o Tail(w.todo)
<1> HIDE DEF text, ahead
<1>12. Len(WalkStep(tree, w).todo) >= Len(w.todo) - 1
  <2>0. WalkStep(tree, w) = [at |-> w.at, todo |-> ahead, out |-> FALSE]
    BY <1>8 DEF ahead
  <2>1. WalkStep(tree, w).todo = text \o Tail(w.todo)
    BY <2>0 DEF ahead
  <2>2. Len(WalkStep(tree, w).todo) = Len(text) + (Len(w.todo) - 1)
    BY <1>6, <2>1, Zenon
  <2> QED
    BY <1>10, <2>2
<1> QED
  BY <1>8, <1>11, <1>12 DEF text

\* anything else,
LEMMA StepPlain ==
  ASSUME NEW tree, NEW w, OnTheWay(w),
         w.todo # <<>>, Head(w.todo) # Up, ~IsLink(tree, Here(w))
  PROVE  /\ WalkStep(tree, w) = [at |-> Here(w), todo |-> Tail(w.todo), out |-> FALSE]
         /\ WalkStep(tree, w).at = Here(w) /\ WalkStep(tree, w).todo = Tail(w.todo)
         /\ OnTheWay(WalkStep(tree, w))
         /\ Shape(Tail(w.todo), 0)
<1>1. PICK u : Shape(w.todo, u) /\ u <= Len(w.at)
  BY DEF OnTheWay, Climbs
<1>2. Shape(Tail(w.todo), 0) /\ Head(w.todo) \in Names
  <2>1. u \in Nat /\ ~(u > 0)
    BY <1>1, ShapeTail DEF Shape
  <2> QED
    BY <1>1, <2>1, ShapeTail DEF Component
<1>3. w.at \in Seq(Names) /\ Here(w) \in Seq(Names) /\ Len(Here(w)) \in Nat
  BY <1>2 DEF OnTheWay, Here
<1>4. WalkStep(tree, w) = [w EXCEPT !.at = Here(w), !.todo = Tail(w.todo)]
  BY Zenon DEF WalkStep, OnTheWay, IsLink, Here
<1>5. WalkStep(tree, w) = [at |-> Here(w), todo |-> Tail(w.todo), out |-> FALSE]
  BY <1>4 DEF OnTheWay
<1>6. Tail(w.todo) \in Seq(Component) /\ Climbs(Tail(w.todo), Len(Here(w)))
  BY <1>2, <1>3 DEF Climbs, Shape
<1>7. OnTheWay(WalkStep(tree, w))
  BY <1>3, <1>5, <1>6 DEF OnTheWay
<1>8. WalkStep(tree, w).at = Here(w) /\ WalkStep(tree, w).todo = Tail(w.todo)
  <2> DEFINE at == Here(w)
             todo == Tail(w.todo)
  <2>1. WalkStep(tree, w) = [at |-> at, todo |-> todo, out |-> FALSE]
    BY <1>5
  <2> HIDE DEF at, todo
  <2>2. WalkStep(tree, w).at = at /\ WalkStep(tree, w).todo = todo
    BY <2>1
  <2> QED
    BY <2>2 DEF at, todo
<1> QED
  BY <1>2, <1>5, <1>7, <1>8

\* and the end of the path.
LEMMA StepDone ==
  ASSUME NEW tree, NEW w, w.todo = <<>>
  PROVE  WalkStep(tree, w) = w
BY Zenon DEF WalkStep

\* In a moored tree no step leaves it.
LEMMA WalkKeepsInside ==
  ASSUME NEW tree, Moored(tree), NEW w, OnTheWay(w)
  PROVE  OnTheWay(WalkStep(tree, w))
<1>1. CASE w.todo = <<>>
  BY <1>1, StepDone
<1>2. CASE w.todo # <<>> /\ Head(w.todo) = Up
  BY <1>2, StepUp
<1>3. CASE w.todo # <<>> /\ Head(w.todo) # Up /\ IsLink(tree, Here(w))
  BY <1>3, StepLink
<1>4. CASE w.todo # <<>> /\ Head(w.todo) # Up /\ ~IsLink(tree, Here(w))
  BY <1>4, StepPlain
<1> QED
  BY <1>1, <1>2, <1>3, <1>4, Zenon

\* The steps of a walk.
WalkTrace(w, tree, path) ==
  /\ w[0] = [at |-> <<>>, todo |-> path, out |-> FALSE]
  /\ \A n \in 1..Fuel : w[n] = WalkStep(tree, w[n - 1])

\* Walk is the last of a sequence of Fuel steps.
LEMMA WalkExists ==
  ASSUME NEW tree, NEW path
  PROVE  \E w : /\ WalkTrace(w, tree, path)
                /\ Walk(tree, path) = w[Fuel]
<1> DEFINE start == [at |-> <<>>, todo |-> path, out |-> FALSE]
           At(w, n) == IF n = 0 THEN start ELSE WalkStep(tree, w[n - 1])
           S == {N \in Nat : \E w : w = [n \in 0..N |-> At(w, n)]}
<1>1. 0 \in S
  <2> DEFINE f == [n \in 0..0 |-> start]
  <2>1. f = [n \in 0..0 |-> At(f, n)]
    OBVIOUS
  <2> QED
    BY <2>1
<1>2. ASSUME NEW N \in Nat, N \in S PROVE N + 1 \in S
  <2>1. PICK w : w = [n \in 0..N |-> At(w, n)]
    BY <1>2
  <2> DEFINE f == [n \in 0..N + 1 |-> IF n <= N THEN w[n] ELSE WalkStep(tree, w[N])]
  <2> HIDE DEF At
  <2>2. ASSUME NEW n \in 0..N + 1 PROVE f[n] = At(f, n)
    <3>1. CASE n = 0
      <4>1. w[0] = At(w, 0)
        BY <2>1
      <4> QED
        BY <3>1, <4>1 DEF At
    <3>2. CASE n \in 1..N
      <4>1. w[n] = At(w, n) /\ f[n] = w[n] /\ f[n - 1] = w[n - 1]
        BY <2>1, <3>2
      <4> QED
        BY <3>2, <4>1 DEF At
    <3>3. CASE n = N + 1
      <4>1. f[n] = WalkStep(tree, w[N]) /\ f[n - 1] = w[N] /\ n # 0
        BY <3>3
      <4> QED
        BY <4>1 DEF At
    <3> QED
      BY <3>1, <3>2, <3>3
  <2>3. f = [n \in 0..N + 1 |-> At(f, n)]
    BY <2>2
  <2> HIDE DEF f
  <2> QED
    BY <2>3
<1> HIDE DEF S
<1>3. Fuel \in S
  BY <1>1, <1>2, Counting, ArchiveAssumption DEF ArchiveAssumption
<1> USE DEF S
<1> DEFINE walk == CHOOSE w : w = [n \in 0..Fuel |-> At(w, n)]
<1>4. walk = [n \in 0..Fuel |-> At(walk, n)]
  BY <1>3
<1>5. Walk(tree, path) = walk[Fuel]
  BY DEF Walk
<1> HIDE DEF walk, At
<1>6. \A n \in 0..Fuel : walk[n] = At(walk, n)
  BY <1>4
<1>7. WalkTrace(walk, tree, path)
  <2>1. walk[0] = start
    <3>1. walk[0] = At(walk, 0)
      BY <1>6, ArchiveAssumption DEF ArchiveAssumption
    <3> QED
      BY <3>1 DEF At
  <2>2. ASSUME NEW n \in 1..Fuel PROVE walk[n] = WalkStep(tree, walk[n - 1])
    <3>1. n \in 0..Fuel /\ n # 0
      BY ArchiveAssumption DEF ArchiveAssumption
    <3> QED
      BY <1>6, <3>1 DEF At
  <2> QED
    BY <2>1, <2>2 DEF WalkTrace
<1> QED
  BY <1>5, <1>7

\* Where a walk starts.
LEMMA StartOnTheWay ==
  ASSUME NEW path \in Seq(Names)
  PROVE  OnTheWay([at |-> <<>>, todo |-> path, out |-> FALSE])
<1>2. Shape(path, 0)
  BY NamesShape
<1>3. path \in Seq(Component) /\ Climbs(path, 0)
  BY <1>2 DEF Climbs, Shape
<1>4. <<>> \in Seq(Names) /\ Len(<<>>) = 0
  BY EmptySeq
<1> QED
  BY <1>3, <1>4 DEF OnTheWay

\* Nothing that is followed in a moored tree leaves it.
LEMMA MooredStays ==
  ASSUME NEW tree, Moored(tree), NEW path \in Seq(Names)
  PROVE  ~Escapes(tree, path)
<1>1. PICK w : WalkTrace(w, tree, path) /\ Walk(tree, path) = w[Fuel]
  BY WalkExists
<1> DEFINE S == {n \in Nat : n <= Fuel => OnTheWay(w[n])}
<1>2. 0 \in S
  <2>1. w[0] = [at |-> <<>>, todo |-> path, out |-> FALSE]
    BY <1>1 DEF WalkTrace
  <2> QED
    BY <2>1, StartOnTheWay
<1>3. ASSUME NEW n \in Nat, n \in S PROVE n + 1 \in S
  <2> SUFFICES ASSUME n + 1 <= Fuel PROVE OnTheWay(w[n + 1])
    OBVIOUS
  <2>1. n + 1 \in 1..Fuel /\ (n + 1) - 1 = n /\ n <= Fuel
    BY ArchiveAssumption DEF ArchiveAssumption
  <2>2. w[n + 1] = WalkStep(tree, w[n])
    BY <1>1, <2>1 DEF WalkTrace
  <2>3. OnTheWay(w[n])
    BY <1>3, <2>1
  <2> QED
    BY <2>2, <2>3, WalkKeepsInside
<1> HIDE DEF S
<1>4. Fuel \in S
  BY <1>2, <1>3, Counting, ArchiveAssumption DEF ArchiveAssumption
<1>5. OnTheWay(w[Fuel])
  BY <1>4 DEF S
<1> QED
  BY <1>1, <1>5 DEF Escapes, OnTheWay

\* A step takes at most one component off the path that is left.
LEMMA StepShrink ==
  ASSUME NEW tree, Moored(tree), NEW w, OnTheWay(w)
  PROVE  Len(WalkStep(tree, w).todo) >= Len(w.todo) - 1
<1>0. Len(w.todo) \in Nat
  BY DEF OnTheWay
<1>1. PICK u : Shape(w.todo, u)
  BY DEF OnTheWay, Climbs
<1>2. CASE w.todo = <<>>
  BY <1>0, <1>2, StepDone
<1>3. w.todo # <<>> => Len(Tail(w.todo)) = Len(w.todo) - 1
  BY <1>1, ShapeTail
<1>4. CASE w.todo # <<>> /\ Head(w.todo) = Up
  <2>1. WalkStep(tree, w).todo = Tail(w.todo)
    BY <1>4, StepUp
  <2> QED
    BY <1>0, <1>3, <1>4, <2>1
<1>5. CASE w.todo # <<>> /\ Head(w.todo) # Up /\ IsLink(tree, Here(w))
  BY <1>5, StepLink
<1>6. CASE w.todo # <<>> /\ Head(w.todo) # Up /\ ~IsLink(tree, Here(w))
  <2>1. WalkStep(tree, w).todo = Tail(w.todo)
    BY <1>6, StepPlain
  <2> QED
    BY <1>0, <1>3, <1>6, <2>1
<1> QED
  BY <1>2, <1>4, <1>5, <1>6, Zenon

\* The prefixes of a path are prefixes of what it is extended to.
LEMMA PrefixOfAppend ==
  ASSUME NEW S, NEW s \in Seq(S), NEW c \in S, NEW m \in 0..Len(s)
  PROVE  SubSeq(Append(s, c), 1, m) = SubSeq(s, 1, m)
<1>1. /\ Append(s, c) \in Seq(S) /\ Len(Append(s, c)) = Len(s) + 1
      /\ \A j \in 1..Len(s) : Append(s, c)[j] = s[j]
  OBVIOUS
<1>2. m \in 0..Len(Append(s, c))
  BY <1>1
<1> DEFINE x == SubSeq(Append(s, c), 1, m)
           y == SubSeq(s, 1, m)
<1>3. x \in Seq(S) /\ Len(x) = m /\ \A j \in 1..m : x[j] = Append(s, c)[j]
  BY <1>1, <1>2, PrefixFacts
<1>4. y \in Seq(S) /\ Len(y) = m /\ \A j \in 1..m : y[j] = s[j]
  BY PrefixFacts
<1>5. \A j \in 1..m : x[j] = y[j]
  BY <1>1, <1>3, <1>4
<1> HIDE DEF x, y
<1> QED
  BY <1>3, <1>4, <1>5, SeqEqual DEF x, y

\* One walk has passed by a link that only the other tree has, and has no
\* further to go than the other.
PassedBy(full, w, v) ==
  /\ \E m \in 1..Len(w.at) : IsLink(full, SubSeq(w.at, 1, m))
  /\ Shape(w.todo, 0)
  /\ Len(w.todo) <= Len(v.todo)

\* The links of one tree are links of the other, and none is below a link there.
Within(part, full) ==
  \A p : IsLink(part, p) =>
    /\ IsLink(full, p) /\ full[p].text = part[p].text
    /\ \A q \in Parents(p) : ~IsLink(full, q)

\* Two walks at the same place stay together, or one passes by a link of the other.
LEMMA StepTogether ==
  ASSUME NEW part, NEW full, Moored(part), Moored(full), Within(part, full),
         NEW w, OnTheWay(w)
  PROVE  LET x == WalkStep(part, w)
             y == WalkStep(full, w)
         IN x = y \/ PassedBy(full, x, y)
<1>1. CASE w.todo = <<>>
  BY <1>1, StepDone
<1>2. CASE w.todo # <<>> /\ Head(w.todo) = Up
  BY <1>2, StepUp
<1>3. CASE w.todo # <<>> /\ Head(w.todo) # Up /\ IsLink(part, Here(w))
  <2>1. IsLink(full, Here(w)) /\ full[Here(w)].text = part[Here(w)].text
    BY <1>3 DEF Within
  <2> QED
    BY <1>3, <2>1, StepLink
<1>4. CASE /\ w.todo # <<>> /\ Head(w.todo) # Up
           /\ ~IsLink(part, Here(w)) /\ ~IsLink(full, Here(w))
  BY <1>4, StepPlain
<1>5. CASE /\ w.todo # <<>> /\ Head(w.todo) # Up
           /\ ~IsLink(part, Here(w)) /\ IsLink(full, Here(w))
  <2> DEFINE x == WalkStep(part, w)
             y == WalkStep(full, w)
  <2>1. /\ x.at = Here(w) /\ x.todo = Tail(w.todo)
        /\ Shape(Tail(w.todo), 0) /\ x.at \in Seq(Names)
    BY <1>5, StepPlain DEF OnTheWay
  <2>2. Len(x.at) \in 1..Len(x.at) /\ SubSeq(x.at, 1, Len(x.at)) = x.at
    <3>1. Len(Here(w)) = Len(w.at) + 1 /\ Len(w.at) \in Nat /\ Here(w) \in Seq(Names)
      BY <2>1 DEF Here, OnTheWay
    <3>2. SubSeq(Here(w), 1, Len(Here(w))) = Here(w)
      BY <3>1, SubSeqFull
    <3> QED
      BY <2>1, <3>1, <3>2
  <2>3. Len(y.todo) >= Len(w.todo) - 1
    BY <1>5, StepLink
  <2>4. Len(Tail(w.todo)) = Len(w.todo) - 1 /\ Len(w.todo) \in Nat
    BY <1>5 DEF OnTheWay
  <2>5. Len(y.todo) \in Nat
    BY <1>5, StepLink DEF OnTheWay
  <2> HIDE DEF x, y
  <2>6. PassedBy(full, x, y)
    BY <1>5, <2>1, <2>2, <2>3, <2>4, <2>5 DEF PassedBy
  <2> QED
    BY <2>6 DEF x, y
<1> QED
  BY <1>1, <1>2, <1>3, <1>4, <1>5, Zenon

\* Once it has, it meets no link again: its tree has none below one of the other.
LEMMA StepPassed ==
  ASSUME NEW part, NEW full, Moored(part), Moored(full), Within(part, full),
         NEW w, OnTheWay(w), NEW v, OnTheWay(v), PassedBy(full, w, v)
  PROVE  PassedBy(full, WalkStep(part, w), WalkStep(full, v))
<1>1. PICK m \in 1..Len(w.at) : IsLink(full, SubSeq(w.at, 1, m))
  BY DEF PassedBy
<1>2. /\ Shape(w.todo, 0) /\ Len(w.todo) <= Len(v.todo)
      /\ Len(w.todo) \in Nat /\ Len(v.todo) \in Nat
  BY DEF PassedBy, OnTheWay
<1> DEFINE x == WalkStep(part, w)
           y == WalkStep(full, v)
<1>3. Len(y.todo) >= Len(v.todo) - 1 /\ Len(y.todo) \in Nat
  <2>1. OnTheWay(y)
    BY WalkKeepsInside
  <2>2. Len(y.todo) >= Len(v.todo) - 1
    BY StepShrink
  <2> HIDE DEF y
  <2> QED
    BY <2>1, <2>2 DEF OnTheWay
<1>4. CASE w.todo = <<>>
  <2>1. x = w
    BY <1>4, StepDone
  <2> HIDE DEF x, y
  <2> QED
    BY <1>1, <1>2, <1>3, <1>4, <2>1 DEF PassedBy, x, y
<1>5. CASE w.todo # <<>>
  <2>1. Head(w.todo) # Up /\ Len(Tail(w.todo)) = Len(w.todo) - 1 /\ Head(w.todo) \in Names
    BY <1>2, <1>5, ShapeTail DEF Component
  <2>2. w.at \in Seq(Names) /\ Here(w) \in Seq(Names) /\ Len(Here(w)) = Len(w.at) + 1
    BY <2>1 DEF OnTheWay, Here
  <2>3. m \in 1..Len(Here(w)) - 1 /\ SubSeq(Here(w), 1, m) = SubSeq(w.at, 1, m)
    BY <2>1, <2>2, PrefixOfAppend DEF Here
  <2>4. ~IsLink(part, Here(w))
    BY <1>1, <2>3 DEF Within, Parents
  <2>5. x.at = Here(w) /\ x.todo = Tail(w.todo) /\ Shape(Tail(w.todo), 0)
    BY <1>5, <2>1, <2>4, StepPlain
  <2> HIDE DEF x, y
  <2>6. m \in 1..Len(x.at) /\ IsLink(full, SubSeq(x.at, 1, m))
    <3>1. SubSeq(x.at, 1, m) = SubSeq(w.at, 1, m)
      BY <2>3, <2>5
    <3>2. m \in 1..Len(Here(w))
      BY <2>2, <2>3
    <3> QED
      BY <1>1, <2>5, <3>1, <3>2
  <2>7. Len(x.todo) <= Len(y.todo)
    BY <1>2, <1>3, <2>1, <2>5
  <2>8. PassedBy(full, x, y)
    BY <2>5, <2>6, <2>7 DEF PassedBy
  <2> QED
    BY <2>8 DEF x, y
<1> QED
  BY <1>4, <1>5

\* A cycle that is there when only some of the links are published is there when
\* all are.
LEMMA LoopsStay ==
  ASSUME NEW part, NEW full, Moored(part), Moored(full), Within(part, full),
         NEW path \in Seq(Names), Loops(part, path)
  PROVE  Loops(full, path)
<1>1. PICK w : WalkTrace(w, part, path) /\ Walk(part, path) = w[Fuel]
  BY WalkExists
<1>2. PICK v : WalkTrace(v, full, path) /\ Walk(full, path) = v[Fuel]
  BY WalkExists
<1> DEFINE Together(n) == /\ OnTheWay(w[n]) /\ OnTheWay(v[n])
                          /\ w[n] = v[n] \/ PassedBy(full, w[n], v[n])
           S == {n \in Nat : n <= Fuel => Together(n)}
<1>3. 0 \in S
  <2>1. w[0] = [at |-> <<>>, todo |-> path, out |-> FALSE] /\ v[0] = w[0]
    BY <1>1, <1>2 DEF WalkTrace
  <2>2. OnTheWay([at |-> <<>>, todo |-> path, out |-> FALSE])
    BY StartOnTheWay
  <2> QED
    BY <2>1, <2>2
<1>4. ASSUME NEW n \in Nat, n \in S PROVE n + 1 \in S
  <2> SUFFICES ASSUME n + 1 <= Fuel PROVE Together(n + 1)
    OBVIOUS
  <2>1. n + 1 \in 1..Fuel /\ (n + 1) - 1 = n /\ n <= Fuel
    BY ArchiveAssumption DEF ArchiveAssumption
  <2>2. w[n + 1] = WalkStep(part, w[n]) /\ v[n + 1] = WalkStep(full, v[n])
    BY <1>1, <1>2, <2>1 DEF WalkTrace
  <2>3. Together(n)
    BY <1>4, <2>1
  <2>4. OnTheWay(w[n + 1]) /\ OnTheWay(v[n + 1])
    BY <2>2, <2>3, WalkKeepsInside
  <2>5. CASE w[n] = v[n]
    BY <2>2, <2>3, <2>4, <2>5, StepTogether
  <2>6. CASE PassedBy(full, w[n], v[n])
    BY <2>2, <2>3, <2>4, <2>6, StepPassed
  <2> QED
    BY <2>3, <2>5, <2>6
<1> HIDE DEF S
<1>5. Fuel \in S
  BY <1>3, <1>4, Counting, ArchiveAssumption DEF ArchiveAssumption
<1>6. Together(Fuel)
  BY <1>5, ArchiveAssumption DEF ArchiveAssumption, S
<1>7. w[Fuel].todo # <<>>
  BY <1>1 DEF Loops
<1>8. v[Fuel].todo # <<>>
  <2>1. CASE w[Fuel] = v[Fuel]
    BY <1>7, <2>1
  <2>2. CASE PassedBy(full, w[Fuel], v[Fuel])
    <3>1. Len(w[Fuel].todo) \in Nat \ {0} /\ Len(w[Fuel].todo) <= Len(v[Fuel].todo)
      BY <1>6, <1>7, <2>2 DEF PassedBy, OnTheWay
    <3> QED
      BY <3>1
  <2> QED
    BY <1>6, <2>1, <2>2
<1> QED
  BY <1>2, <1>6, <1>8 DEF Loops, Escapes, OnTheWay

(***************************************************************************)
(* 3. Publication.                                                         *)
(***************************************************************************)

\* The parents of a path are shorter, and their parents are among them.
LEMMA ParentsFacts ==
  ASSUME NEW key \in Seq(Names), NEW q \in Parents(key)
  PROVE  /\ q \in Seq(Names) /\ q # <<>> /\ Len(q) < Len(key)
         /\ Parents(q) \subseteq Parents(key)
<1>1. PICK i \in 1..Len(key) - 1 : q = SubSeq(key, 1, i)
  BY DEF Parents
<1>2. i \in 0..Len(key) /\ i \in Nat \ {0} /\ Len(key) \in Nat /\ i < Len(key)
  OBVIOUS
<1>3. q \in Seq(Names) /\ Len(q) = i /\ \A j \in 1..i : q[j] = key[j]
  BY <1>1, <1>2, PrefixFacts
<1>4. ASSUME NEW j \in 1..i - 1 PROVE SubSeq(q, 1, j) = SubSeq(key, 1, j)
  <2> DEFINE x == SubSeq(q, 1, j)
             y == SubSeq(key, 1, j)
  <2>1. j \in 0..Len(q) /\ j \in 0..Len(key) /\ j \in Nat /\ j < i
    BY <1>2, <1>3
  <2>2. x \in Seq(Names) /\ Len(x) = j /\ \A l \in 1..j : x[l] = q[l]
    BY <1>3, <2>1, PrefixFacts
  <2>3. y \in Seq(Names) /\ Len(y) = j /\ \A l \in 1..j : y[l] = key[l]
    BY <2>1, PrefixFacts
  <2>4. \A l \in 1..j : x[l] = y[l]
    BY <1>2, <1>3, <2>1, <2>2, <2>3
  <2> HIDE DEF x, y
  <2> QED
    BY <2>2, <2>3, <2>4, SeqEqual DEF x, y
<1>5. Parents(q) \subseteq Parents(key)
  <2> SUFFICES ASSUME NEW r \in Parents(q) PROVE r \in Parents(key)
    OBVIOUS
  <2>1. PICK j \in 1..i - 1 : r = SubSeq(q, 1, j)
    BY <1>3 DEF Parents
  <2>2. j \in 1..Len(key) - 1
    BY <1>2
  <2> QED
    BY <1>4, <2>1, <2>2 DEF Parents
<1> QED
  BY <1>2, <1>3, <1>5

\* What an archive can say of a member.
LEMMA MemberFacts ==
  ASSUME NEW a \in ArchiveSet, NEW i \in Keyed(a)
  PROVE  /\ i \in DOMAIN a /\ i \in Nat
         /\ a[i].key \in Seq(Names) /\ a[i].key # <<>>
         /\ a[i].text \in Seq(Component)
         /\ a[i].kind \in {"dir", "file", "link", "special", "unsafe"}
<1>1. a \in Seq(Member) /\ i \in DOMAIN a /\ a[i].kind # "root"
  BY ArchiveAssumption DEF ArchiveAssumption, Keyed
<1>2. a[i] \in Member /\ i \in Nat
  BY <1>1
<1>3. a[i].key # <<>>
  BY <1>1, ArchiveAssumption DEF ArchiveAssumption
<1> QED
  BY <1>1, <1>2, <1>3 DEF Member

\* An accepted link, as it is published, climbs no higher than the output.
LEMMA LinksClimb ==
  ASSUME NEW a \in ArchiveSet, NEW i \in Keyed(a), LinkAccepted(a[i])
  PROVE  Climbs(LinkText(a[i]), Len(a[i].key) - 1)
<1> DEFINE key == a[i].key
           text == a[i].text
<1>1. key \in Seq(Names) /\ key # <<>> /\ text \in Seq(Component)
  BY MemberFacts
<1>2. Len(key) - 1 \in 0..Len(key)
  BY <1>1
<1>3. Front(key) \in Seq(Names) /\ Len(Front(key)) = Len(key) - 1
  BY <1>1, <1>2, PrefixFacts DEF Front
<1>4. Normalize(Front(key) \o text) # <<>> /\ Head(Normalize(Front(key) \o text)) # Up
  BY DEF LinkAccepted
<1> HIDE DEF key, text
<1>5. Climbs(Normalize(text), Len(Front(key)))
  BY <1>1, <1>3, <1>4, AcceptedClimbs
<1> QED
  BY <1>3, <1>5 DEF key, text, LinkText

\* Every parent of every object is a directory.
Upright(tree) ==
  \A p \in DOMAIN tree : \A q \in Parents(p) : q \in DOMAIN tree /\ tree[q].kind = "dir"

\* The tree is the members P of archive a and the directories they are in.
Holds(a, tree, P) ==
  /\ Upright(tree)
  /\ DOMAIN tree = {a[i].key : i \in P} \cup UNION {Parents(a[i].key) : i \in P}
  /\ \A i \in P : tree[a[i].key] = Image(a[i])
  /\ \A p \in DOMAIN tree : (\E i \in P : p = a[i].key) \/ tree[p] = Node("dir", <<>>)

\* What is seen of a member once it is published.
LEMMA ImageFacts ==
  ASSUME NEW m
  PROVE  /\ Image(m).kind = m.kind
         /\ m.kind = "link" => Image(m).text = LinkText(m)
<1> DEFINE text == IF m.kind = "link" THEN LinkText(m) ELSE <<>>
<1>1. Image(m) = [kind |-> m.kind, text |-> text]
  BY DEF Image, Node
<1>2. m.kind = "link" => text = LinkText(m)
  OBVIOUS
<1> HIDE DEF text
<1> QED
  BY <1>1, <1>2

\* The output as it is created.
LEMMA HoldsNothing ==
  ASSUME NEW a
  PROVE  Holds(a, EmptyTree, {})
BY DEF Holds, EmptyTree, Upright

\* make_parent and the publication of an object keep every parent a directory.
LEMMA UprightWith ==
  ASSUME NEW tree, Upright(tree), NEW key \in Seq(Names), Fits(tree, key), NEW node
  PROVE  Upright(With(tree, key, node))
<1> DEFINE new == With(tree, key, node)
<1>0. new = With(tree, key, node)
  OBVIOUS
<1> HIDE DEF new
<1>1. /\ DOMAIN new = DOMAIN tree \cup Parents(key) \cup {key}
      /\ \A p \in DOMAIN tree : p # key => new[p] = tree[p]
      /\ \A p \in Parents(key) : p \notin DOMAIN tree /\ p # key => new[p] = Node("dir", <<>>)
  BY <1>0 DEF With, Put, WithParents
<1>2. key \notin DOMAIN tree /\ \A q \in Parents(key) : q \in DOMAIN tree => tree[q].kind = "dir"
  BY DEF Fits, ParentsUsable
<1>3. \A q \in Parents(key) : q # key /\ Parents(q) \subseteq Parents(key)
  BY ParentsFacts
<1>4. ASSUME NEW q \in Parents(key) PROVE q \in DOMAIN new /\ new[q].kind = "dir"
  <2>1. CASE q \in DOMAIN tree
    BY <1>1, <1>2, <1>3, <2>1
  <2>2. CASE q \notin DOMAIN tree
    BY <1>1, <1>3, <2>2 DEF Node
  <2> QED
    BY <2>1, <2>2
<1>5. ASSUME NEW p \in DOMAIN new, NEW q \in Parents(p)
      PROVE  q \in DOMAIN new /\ new[q].kind = "dir"
  <2>1. CASE p \in DOMAIN tree
    BY <1>1, <1>2, <2>1 DEF Upright
  <2>2. CASE p \in Parents(key)
    BY <1>3, <1>4, <2>2
  <2>3. CASE p = key
    BY <1>4, <2>3
  <2> QED
    BY <1>1, <2>1, <2>2, <2>3
<1>6. Upright(new)
  BY <1>5 DEF Upright
<1> QED
  BY <1>6 DEF new

\* Publishing a member adds that member and its parents, and nothing else.
LEMMA HoldsOneMore ==
  ASSUME NEW a \in ArchiveSet, NEW P \in SUBSET Keyed(a), NEW tree, Holds(a, tree, P),
         NEW i \in Keyed(a), Fits(tree, a[i].key)
  PROVE  Holds(a, With(tree, a[i].key, Image(a[i])), P \cup {i})
<1> DEFINE key == a[i].key
           new == With(tree, key, Image(a[i]))
           Q == P \cup {i}
<1>0. key \in Seq(Names)
  BY MemberFacts
<1>1. Upright(new)
  BY <1>0, UprightWith DEF Holds
<1> DEFINE node == Image(a[i])
<1>9. new = With(tree, key, node)
  OBVIOUS
<1> HIDE DEF new, key, node
<1>2. /\ DOMAIN new = DOMAIN tree \cup Parents(key) \cup {key}
      /\ new[key] = Image(a[i])
      /\ \A p \in DOMAIN tree : p # key => new[p] = tree[p]
      /\ \A p \in Parents(key) : p \notin DOMAIN tree /\ p # key => new[p] = Node("dir", <<>>)
  BY <1>9 DEF node, With, Put, WithParents
<1>3. key \notin DOMAIN tree
  BY DEF Fits, key
<1>4. /\ DOMAIN tree = {a[j].key : j \in P} \cup UNION {Parents(a[j].key) : j \in P}
      /\ \A j \in P : tree[a[j].key] = Image(a[j])
      /\ \A p \in DOMAIN tree : (\E j \in P : p = a[j].key) \/ tree[p] = Node("dir", <<>>)
  BY DEF Holds
<1>5. DOMAIN new = {a[j].key : j \in Q} \cup UNION {Parents(a[j].key) : j \in Q}
  <2>1. {a[j].key : j \in Q} = {a[j].key : j \in P} \cup {key}
    BY DEF key
  <2>2. UNION {Parents(a[j].key) : j \in Q}
          = (UNION {Parents(a[j].key) : j \in P}) \cup Parents(key)
    BY DEF key
  <2> QED
    BY <1>2, <1>4, <2>1, <2>2
<1>6. ASSUME NEW j \in Q PROVE new[a[j].key] = Image(a[j])
  <2>1. CASE j = i
    BY <1>2, <2>1 DEF key
  <2>2. CASE j \in P
    BY <1>2, <1>3, <1>4, <2>2
  <2> QED
    BY <2>1, <2>2
<1>7. ASSUME NEW p \in DOMAIN new
      PROVE  (\E j \in Q : p = a[j].key) \/ new[p] = Node("dir", <<>>)
  <2>1. CASE p = key
    BY <2>1 DEF key
  <2>2. CASE p \in DOMAIN tree /\ p # key
    BY <1>2, <1>4, <2>2
  <2>3. CASE p \in Parents(key) /\ p # key /\ p \notin DOMAIN tree
    BY <1>2, <2>3
  <2> QED
    BY <1>2, <2>1, <2>2, <2>3
<1>8. Holds(a, new, Q)
  BY <1>1, <1>5, <1>6, <1>7, Zenon DEF Holds
<1> QED
  BY <1>8 DEF new, key

\* The links of accepted members are moored.
LEMMA HoldsMoored ==
  ASSUME NEW a \in ArchiveSet, NEW P \in SUBSET Keyed(a), NEW tree, Holds(a, tree, P),
         \A i \in Keyed(a) : a[i].kind = "link" => LinkAccepted(a[i])
  PROVE  Moored(tree)
<1> SUFFICES ASSUME NEW p \in DOMAIN tree, tree[p].kind = "link"
             PROVE  p \in Seq(Names) /\ p # <<>> /\ Climbs(tree[p].text, Len(p) - 1)
  BY DEF Moored
<1>1. tree[p] # Node("dir", <<>>)
  BY DEF Node
<1>2. PICK i \in P : p = a[i].key
  BY <1>1 DEF Holds
<1>3. tree[p] = Image(a[i])
  BY <1>2 DEF Holds
<1>4. a[i].kind = "link" /\ tree[p].text = LinkText(a[i])
  BY <1>3, ImageFacts
<1>5. Climbs(LinkText(a[i]), Len(a[i].key) - 1)
  BY <1>4, LinksClimb
<1> QED
  BY <1>2, <1>4, <1>5, MemberFacts

\* In a well-formed archive a member that no published one is below always fits.
LEMMA FitsWhenWellFormed ==
  ASSUME NEW a \in ArchiveSet, WellFormed(a), NEW P \in SUBSET Keyed(a),
         NEW tree, Holds(a, tree, P), NEW i \in Keyed(a) \ P,
         \A j \in P : a[i].key \notin Parents(a[j].key)
  PROVE  Fits(tree, a[i].key)
<1> USE DEF Holds
<1>1. a[i].key \notin DOMAIN tree
  <2>1. \A j \in P : a[j].key # a[i].key
    BY DEF WellFormed
  <2> QED
    BY <2>1
<1>2. ASSUME NEW q \in Parents(a[i].key), q \in DOMAIN tree PROVE tree[q].kind = "dir"
  <2>1. CASE tree[q] = Node("dir", <<>>)
    BY <2>1 DEF Node
  <2>2. ASSUME NEW j \in P, q = a[j].key PROVE tree[q].kind = "dir"
    <3>1. a[j].kind = "dir"
      BY <2>2, <1>2 DEF WellFormed
    <3>2. tree[q] = Image(a[j])
      BY <2>2
    <3> QED
      BY <3>1, <3>2, ImageFacts
  <2> QED
    BY <1>2, <2>1, <2>2
<1> QED
  BY <1>1, <1>2 DEF Fits, ParentsUsable

\* No link of a well-formed archive is refused, however many are published.
LEMMA NoLoopWhenWellFormed ==
  ASSUME NEW a \in ArchiveSet, WellFormed(a), NEW P \in SUBSET Keyed(a),
         NEW tree, Holds(a, tree, P), NEW i \in P
  PROVE  ~Escapes(tree, a[i].key) /\ ~Loops(tree, a[i].key)
<1> DEFINE whole == Contents(a)
<1>0. /\ \A j, k \in Keyed(a) : a[j].key = a[k].key => j = k
      /\ \A j, k \in Keyed(a) : a[k].key \in Parents(a[j].key) => a[k].kind = "dir"
      /\ \A j \in Keyed(a) : a[j].kind = "link" => LinkAccepted(a[j])
      /\ \A k \in DOMAIN whole : ~Loops(whole, k)
  BY Zenon DEF WellFormed
<1>1. DOMAIN whole = {a[j].key : j \in Keyed(a)}
  BY DEF Contents
<1>2. ASSUME NEW j \in Keyed(a) PROVE whole[a[j].key] = Image(a[j])
  <2> DEFINE c == CHOOSE k \in Keyed(a) : a[k].key = a[j].key
  <2>1. c \in Keyed(a) /\ a[c].key = a[j].key
    OBVIOUS
  <2>2. c = j
    <3> HIDE DEF c
    <3> QED
      BY <1>0, <2>1
  <2>3. whole[a[j].key] = Image(a[c])
    BY DEF Contents
  <2> QED
    BY <2>2, <2>3
<1> HIDE DEF whole
<1>3. \A j \in Keyed(a) : a[j].key \in Seq(Names) /\ a[j].key # <<>>
  BY MemberFacts
<1>4. Moored(whole)
  <2> SUFFICES ASSUME NEW p \in DOMAIN whole, whole[p].kind = "link"
               PROVE  p \in Seq(Names) /\ p # <<>> /\ Climbs(whole[p].text, Len(p) - 1)
    BY DEF Moored
  <2>1. PICK j \in Keyed(a) : p = a[j].key
    BY <1>1
  <2>2. a[j].kind = "link" /\ whole[p].text = LinkText(a[j])
    BY <1>2, <2>1, ImageFacts
  <2>3. Climbs(LinkText(a[j]), Len(a[j].key) - 1)
    BY <1>0, <2>2, LinksClimb
  <2> QED
    BY <1>3, <2>1, <2>2, <2>3
<1>5. Moored(tree)
  BY <1>0, HoldsMoored
<1>6. Within(tree, whole)
  <2> SUFFICES ASSUME NEW p, IsLink(tree, p)
               PROVE  /\ IsLink(whole, p) /\ whole[p].text = tree[p].text
                      /\ \A q \in Parents(p) : ~IsLink(whole, q)
    BY DEF Within
  <2>1. tree[p] # Node("dir", <<>>) /\ p \in DOMAIN tree
    BY DEF Node, IsLink
  <2>2. PICK j \in P : p = a[j].key
    BY <2>1 DEF Holds
  <2>3. tree[p] = Image(a[j]) /\ whole[p] = Image(a[j]) /\ p \in DOMAIN whole
    BY <1>1, <1>2, <2>2 DEF Holds
  <2>4. ASSUME NEW q \in Parents(p), IsLink(whole, q) PROVE FALSE
    <3>1. PICK k \in Keyed(a) : q = a[k].key
      BY <1>1, <2>4 DEF IsLink
    <3>2. a[k].kind = "dir"
      BY <1>0, <2>2, <2>4, <3>1
    <3>3. whole[q].kind = "dir"
      BY <1>2, <3>1, <3>2, ImageFacts
    <3> QED
      BY <2>4, <3>3 DEF IsLink
  <2> QED
    BY <2>3, <2>4 DEF IsLink
<1>7. ~Loops(whole, a[i].key)
  BY <1>0, <1>1
<1>8. a[i].key \in Seq(Names)
  BY <1>3
<1> QED
  BY <1>4, <1>5, <1>6, <1>7, <1>8, MooredStays, LoopsStay

(***************************************************************************)
(* 4. The runs.                                                            *)
(***************************************************************************)

\* How the output came to be, at each point of a run.
Origin ==
  /\ entry \in Entries
  /\ pc = "start" => disk \in {NoOutput, OldTree}
  /\ pc \in {"start", "check", "mkdir"} => ~mine
  /\ pc \in {"start", "mkdir"} => ~existed
  /\ existed => /\ ~mine /\ entry = "unpack" /\ Exists /\ disk = OldTree
                /\ pc \in {"check", "fail", "failed"}
  /\ FailureLeavesNothing

\* Init establishes Origin,
LEMMA InitOrigin == Init => Origin
BY DEF Init, Origin, FailureLeavesNothing

\* and every step keeps it.
LEMMA StepOrigin == Origin /\ [Next]_vars => Origin'
<1> SUFFICES ASSUME Origin, [Next]_vars PROVE Origin'
  OBVIOUS
<1> USE DEF Origin, FailureLeavesNothing, Exists, Fixed, Lists, Reject, Proceed
<1>1. CASE Start
  BY <1>1 DEF Start, Entries
<1>2. CASE CheckOutput
  BY <1>2 DEF CheckOutput
<1>3. CASE MakeOutput
  BY <1>3 DEF MakeOutput
<1>4. CASE Classify
  <2>1. /\ pc = "classify" /\ pc' \in {"publish", "fail"}
        /\ UNCHANGED <<Fixed, disk, mine, existed>>
    BY <1>4, Zenon DEF Classify
  <2> QED
    BY <2>1
\* Publication: only a run that has created the output gets here.
<1>5. ASSUME pc = "publish", pc' \in {"publish", "fail", "done"},
             UNCHANGED <<Fixed, mine, existed>>
      PROVE  Origin'
  BY <1>5
<1>6. CASE PublishDir
  BY <1>5, <1>6 DEF PublishDir
<1>7. CASE PublishRegular
  BY <1>5, <1>7 DEF PublishRegular
<1>8. CASE PublishLink
  BY <1>5, <1>8 DEF PublishLink
<1>9. CASE Finish
  BY <1>5, <1>9 DEF Finish
<1>10. CASE IoError
  BY <1>10 DEF IoError
<1>11. CASE HandlerMain \/ Traceback
  BY <1>11 DEF HandlerMain, Traceback
<1>12. CASE HandlerUnpack
  BY <1>12 DEF HandlerUnpack
<1>13. CASE OutputAppears
  BY <1>13 DEF OutputAppears
<1>14. CASE UNCHANGED vars
  BY <1>14 DEF vars
<1> QED
  BY <1>1, <1>2, <1>3, <1>4, <1>6, <1>7, <1>8, <1>9, <1>10, <1>11, <1>12, <1>13, <1>14
  DEF Next, Stop

\* Wherever the output appeared from, the run knows (safe_release_extract.py:543-558
\* and :616-619).
THEOREM OriginHolds == Spec => []Origin
BY InitOrigin, StepOrigin, PTL DEF Spec

\* The members in the tree.
Published == Keyed(archive) \ (dirs \cup regulars \cup links)

\* What is left is of its kind, and each queue waits for the one before it.
Queues ==
  /\ dirs \subseteq OfKind(archive, "dir")
  /\ regulars \subseteq Leftover(archive)
  /\ links \subseteq OfKind(archive, "link")
  /\ dirs # {} => regulars = Leftover(archive)
  /\ dirs \cup regulars # {} => links = OfKind(archive, "link")
  /\ \A i \in OfKind(archive, "dir") \ dirs : \A j \in dirs : Len(Key(i)) <= Len(Key(j))

\* From the end of classification to the last member.
Publishing ==
  pc = "publish" => mine /\ Classified(archive) /\ Queues /\ Holds(archive, disk, Published)

\* The invariant; of a tree that is no longer published to only what it promises.
IInv ==
  /\ archive \in ArchiveSet
  /\ pc \notin {"fail", "failed"} => cause = "none"
  /\ pc = "classify" => mine /\ disk = EmptyTree
  /\ Publishing
  /\ pc = "done" => Classified(archive) /\ Holds(archive, disk, Keyed(archive))
  /\ mine /\ Exists => Upright(disk) /\ Moored(disk)
  /\ WellFormedAccepted

\* Init establishes the invariant.
LEMMA InitIInv == Init => IInv
BY DEF Init, IInv, Publishing, WellFormedAccepted

\* Kinds are told apart, and a kind that is left over is a file.
LEMMA KindFacts ==
  ASSUME NEW a \in ArchiveSet, Classified(a), NEW i \in Keyed(a)
  PROVE  /\ a[i].kind \in {"dir", "file", "link"}
         /\ i \in Leftover(a) <=> a[i].kind = "file"
         /\ \A k : i \in OfKind(a, k) <=> a[i].kind = k
BY MemberFacts DEF Classified, Leftover, OfKind, Keyed

\* When nothing is left to be refused: with nothing published it is inevitable.
LEMMA ClassifiedWhenWellFormed ==
  ASSUME NEW a, WellFormed(a)
  PROVE  Classified(a)
<1>1. ASSUME NEW i \in Keyed(a), NEW j \in Keyed(a), a[j].kind = "link"
      PROVE  a[j].key \notin Parents(a[i].key)
  BY <1>1 DEF WellFormed
<1>2. \A i \in Keyed(a) : Parents(a[i].key) \cap LinkNames(a) = {}
  BY <1>1 DEF LinkNames
<1> QED
  BY <1>2, Zenon DEF WellFormed, Classified

\* Classification: nothing is published yet, and what is refused contradicts itself.
LEMMA ClassifyKeeps == Origin /\ IInv /\ Classify => IInv'
<1> SUFFICES ASSUME Origin, IInv, Classify PROVE IInv'
  OBVIOUS
<1>1. /\ pc = "classify" /\ archive \in ArchiveSet /\ mine /\ disk = EmptyTree /\ cause = "none"
      /\ UNCHANGED <<archive, disk, mine>>
      /\ Upright(EmptyTree) /\ Moored(EmptyTree)
  BY DEF Classify, IInv, Fixed, Upright, Moored, EmptyTree
<1>2. CASE Classified(archive)
  <2>1. /\ dirs' = OfKind(archive, "dir") /\ regulars' = Leftover(archive)
        /\ links' = OfKind(archive, "link") /\ pc' = "publish" /\ cause' = cause
    BY <1>2 DEF Classify, Proceed
  <2>2. Keyed(archive) \subseteq
          OfKind(archive, "dir") \cup Leftover(archive) \cup OfKind(archive, "link")
    BY <1>1, <1>2, KindFacts
  <2>3. Published' = {}
    BY <1>1, <2>1, <2>2 DEF Published
  <2>4. Queues'
    BY <1>1, <2>1 DEF Queues
  <2>5. Holds(archive', disk', Published')
    BY <1>1, <2>3, HoldsNothing
  <2>6. Publishing'
    BY <1>1, <1>2, <2>4, <2>5 DEF Publishing
  <2> QED
    BY <1>1, <2>1, <2>6 DEF IInv, WellFormedAccepted
<1>3. CASE ~Classified(archive)
  <2>1. pc' = "fail"
    BY <1>3 DEF Classify, Reject
  <2>2. ~WellFormed(archive)
    BY <1>3, ClassifiedWhenWellFormed
  <2> QED
    BY <1>1, <2>1, <2>2 DEF IInv, Publishing, WellFormedAccepted
<1> QED
  BY <1>2, <1>3

\* One more member in the tree, and one fewer in its queue.
LEMMA PublishOne ==
  ASSUME IInv, pc = "publish", UNCHANGED <<archive, mine, pc, cause>>,
         NEW i \in Keyed(archive), i \notin Published, Fits(disk, Key(i)),
         disk' = With(disk, Key(i), Image(archive[i])),
         Published' = Published \cup {i}, Queues'
  PROVE  IInv'
<1>1. /\ archive \in ArchiveSet /\ mine /\ Classified(archive) /\ cause = "none"
      /\ Holds(archive, disk, Published)
      /\ Published \in SUBSET Keyed(archive) /\ Published \cup {i} \in SUBSET Keyed(archive)
  BY DEF IInv, Publishing, Published
<1>2. Holds(archive, disk', Published \cup {i})
  BY <1>1, HoldsOneMore DEF Key
<1>3. Upright(disk') /\ Moored(disk')
  <2>1. \A j \in Keyed(archive) : archive[j].kind = "link" => LinkAccepted(archive[j])
    BY <1>1, Zenon DEF Classified
  <2> QED
    BY <1>1, <1>2, <2>1, HoldsMoored DEF Holds
<1>4. Publishing'
  BY <1>1, <1>2 DEF Publishing
<1> QED
  BY <1>1, <1>3, <1>4 DEF IInv, WellFormedAccepted

\* A member is refused only in an archive that contradicts itself.
LEMMA RefuseOne ==
  ASSUME IInv, pc = "publish", UNCHANGED <<archive, mine, disk>>,
         pc' = "fail", ~WellFormed(archive)
  PROVE  IInv'
BY DEF IInv, Publishing, WellFormedAccepted, Exists

\* Directories: one that is published is never below one that is left.
LEMMA PublishDirKeeps == IInv /\ PublishDir => IInv'
<1> SUFFICES ASSUME IInv, PublishDir PROVE IInv'
  OBVIOUS
<1>1. /\ pc = "publish" /\ archive \in ArchiveSet /\ Classified(archive)
      /\ Queues /\ Holds(archive, disk, Published) /\ UNCHANGED <<archive, mine, regulars, links>>
  BY DEF PublishDir, IInv, Publishing, Fixed
<1>2. PICK i \in dirs :
        /\ \A j \in dirs : Len(Key(i)) <= Len(Key(j))
        /\ IF Fits(disk, Key(i))
           THEN /\ disk' = With(disk, Key(i), Node("dir", <<>>))
                /\ dirs' = dirs \ {i}
                /\ UNCHANGED <<pc, cause>>
           ELSE Reject /\ UNCHANGED <<disk, dirs>>
  BY DEF PublishDir
<1>3. i \in Keyed(archive) /\ archive[i].kind = "dir" /\ i \notin Published
      /\ i \notin Leftover(archive) /\ i \notin OfKind(archive, "link")
  BY <1>1 DEF Queues, OfKind, Published, Leftover
<1>4. CASE Fits(disk, Key(i))
  <2>1. disk' = With(disk, Key(i), Image(archive[i]))
    BY <1>2, <1>3, <1>4 DEF Image
  <2>2. Published' = Published \cup {i}
    BY <1>1, <1>2, <1>3, <1>4 DEF Published, Queues
  <2>3. Queues'
    <3>1. /\ archive' = archive /\ OfKind(archive, "dir")' = OfKind(archive, "dir")
          /\ \A j : Key(j)' = Key(j)
      BY <1>1 DEF Key
    <3>2. \A j \in OfKind(archive, "dir") \ dirs' : \A k \in dirs' : Len(Key(j)) <= Len(Key(k))
      BY <1>1, <1>2, <1>4 DEF Queues
    <3> QED
      BY <1>1, <1>2, <1>4, <3>1, <3>2 DEF Queues, Key
  <2> QED
    BY <1>1, <1>2, <1>3, <1>4, <2>1, <2>2, <2>3, PublishOne
<1>5. CASE ~Fits(disk, Key(i))
  <2>1. pc' = "fail" /\ UNCHANGED <<archive, mine, disk>>
    BY <1>1, <1>2, <1>5 DEF Reject
  <2>2. ASSUME NEW j \in Published PROVE Key(i) \notin Parents(Key(j))
    <3>1. j \in OfKind(archive, "dir") \ dirs /\ j \in Keyed(archive)
      BY <1>1, <1>2, KindFacts DEF Published, Queues
    <3>2. Len(Key(j)) <= Len(Key(i))
      BY <1>1, <1>2, <3>1 DEF Queues
    <3>3. Key(j) \in Seq(Names) /\ Key(i) \in Seq(Names)
      BY <1>1, <1>3, <3>1, MemberFacts DEF Key
    <3>4. Key(i) \in Parents(Key(j)) => Len(Key(i)) < Len(Key(j))
      BY <3>3, ParentsFacts
    <3>5. Len(Key(i)) \in Nat /\ Len(Key(j)) \in Nat
      BY <3>3
    <3> QED
      BY <3>2, <3>4, <3>5
  <2>3. ~WellFormed(archive)
    <3>1. Published \in SUBSET Keyed(archive) /\ i \in Keyed(archive) \ Published
      BY <1>3 DEF Published
    <3> QED
      BY <1>1, <1>5, <2>2, <3>1, FitsWhenWellFormed DEF Key
  <2> QED
    BY <1>1, <2>1, <2>3, RefuseOne
<1> QED
  BY <1>4, <1>5

\* Only directories are above others in a well-formed archive.
LEMMA FitsUnlessDir ==
  ASSUME IInv, pc = "publish", NEW i \in Keyed(archive) \ Published,
         archive[i].kind # "dir", WellFormed(archive)
  PROVE  Fits(disk, Key(i))
<1>1. archive \in ArchiveSet /\ Holds(archive, disk, Published)
      /\ Published \in SUBSET Keyed(archive)
  BY DEF IInv, Publishing, Published
<1>2. \A j \in Published : archive[i].key \notin Parents(archive[j].key)
  BY <1>1 DEF WellFormed
<1> QED
  BY <1>1, <1>2, FitsWhenWellFormed DEF Key

\* Files: nothing is below one in a well-formed archive.
LEMMA PublishRegularKeeps == IInv /\ PublishRegular => IInv'
<1> SUFFICES ASSUME IInv, PublishRegular PROVE IInv'
  OBVIOUS
<1>1. /\ pc = "publish" /\ archive \in ArchiveSet /\ Classified(archive) /\ dirs = {}
      /\ Queues /\ UNCHANGED <<archive, mine, dirs, links>>
  BY DEF PublishRegular, IInv, Publishing, Fixed
<1>2. PICK i \in regulars :
        IF Fits(disk, Key(i))
        THEN /\ disk' = With(disk, Key(i), Node("file", <<>>))
             /\ regulars' = regulars \ {i}
             /\ UNCHANGED <<pc, cause>>
        ELSE Reject /\ UNCHANGED <<disk, regulars>>
  BY DEF PublishRegular
<1>3. i \in Keyed(archive) /\ archive[i].kind = "file" /\ i \notin Published
      /\ i \notin dirs /\ i \notin OfKind(archive, "link")
  <2>1. i \in Keyed(archive) /\ i \in Leftover(archive)
    BY <1>1 DEF Queues, Leftover
  <2> QED
    BY <1>1, <2>1, KindFacts DEF Published
<1>4. CASE Fits(disk, Key(i))
  <2>1. disk' = With(disk, Key(i), Image(archive[i]))
    BY <1>2, <1>3, <1>4 DEF Image
  <2>2. Published' = Published \cup {i}
    BY <1>1, <1>2, <1>3, <1>4 DEF Published, Queues
  <2>3. Queues'
    BY <1>1, <1>2, <1>4 DEF Queues
  <2> QED
    BY <1>1, <1>2, <1>3, <1>4, <2>1, <2>2, <2>3, PublishOne
<1>5. CASE ~Fits(disk, Key(i))
  <2>1. pc' = "fail" /\ UNCHANGED <<archive, mine, disk>>
    BY <1>1, <1>2, <1>5 DEF Reject
  <2>2. ~WellFormed(archive)
    BY <1>1, <1>3, <1>5, FitsUnlessDir
  <2> QED
    BY <1>1, <2>1, <2>2, RefuseOne
<1> QED
  BY <1>4, <1>5

\* Links: the same, and neither resolution can fail in a well-formed archive.
LEMMA PublishLinkKeeps == IInv /\ PublishLink => IInv'
<1> SUFFICES ASSUME IInv, PublishLink PROVE IInv'
  OBVIOUS
<1>1. /\ pc = "publish" /\ archive \in ArchiveSet /\ Classified(archive)
      /\ dirs = {} /\ regulars = {}
      /\ Queues /\ Holds(archive, disk, Published)
      /\ UNCHANGED <<archive, mine, dirs, regulars>>
  BY DEF PublishLink, IInv, Publishing, Fixed
<1>2. PICK i \in links :
        \/ /\ Fits(disk, Key(i))
           /\ disk' = With(disk, Key(i), Node("link", LinkText(archive[i])))
           /\ links' = links \ {i}
           /\ UNCHANGED <<pc, cause>>
        \/ /\ \/ ~Fits(disk, Key(i))
              \/ Escapes(With(disk, Key(i), Node("link", LinkText(archive[i]))), Key(i))
              \/ Loops(With(disk, Key(i), Node("link", LinkText(archive[i]))), Key(i))
           /\ Reject
           /\ UNCHANGED <<disk, links>>
  BY DEF PublishLink
<1>3. i \in Keyed(archive) /\ archive[i].kind = "link" /\ i \notin Published
  BY <1>1 DEF Queues, OfKind, Published
<1> DEFINE tree == With(disk, Key(i), Image(archive[i]))
<1>4. tree = With(disk, Key(i), Node("link", LinkText(archive[i])))
  BY <1>3 DEF Image
<1>5. CASE Fits(disk, Key(i)) /\ disk' = tree /\ links' = links \ {i} /\ UNCHANGED <<pc, cause>>
  <2>1. Published' = Published \cup {i}
    BY <1>1, <1>3, <1>5 DEF Published
  <2>2. Queues'
    BY <1>1, <1>5 DEF Queues
  <2> QED
    BY <1>1, <1>3, <1>5, <2>1, <2>2, PublishOne
<1>6. CASE /\ ~Fits(disk, Key(i)) \/ Escapes(tree, Key(i)) \/ Loops(tree, Key(i))
           /\ Reject /\ UNCHANGED <<disk, links>>
  <2>1. pc' = "fail" /\ UNCHANGED <<archive, mine, disk>>
    BY <1>1, <1>6 DEF Reject
  <2>2. ASSUME WellFormed(archive) PROVE FALSE
    <3>1. Fits(disk, Key(i))
      BY <1>1, <1>3, <2>2, FitsUnlessDir
    <3>2. Published \in SUBSET Keyed(archive) /\ Published \cup {i} \in SUBSET Keyed(archive)
      BY <1>3 DEF Published
    <3>3. Holds(archive, tree, Published \cup {i})
      BY <1>1, <1>3, <3>1, <3>2, HoldsOneMore DEF Key
    <3> HIDE DEF tree
    <3>4. ~Escapes(tree, Key(i)) /\ ~Loops(tree, Key(i))
      BY <1>1, <2>2, <3>2, <3>3, NoLoopWhenWellFormed DEF Key
    <3> QED
      BY <1>6, <3>1, <3>4
  <2> QED
    BY <1>1, <2>1, <2>2, RefuseOne
<1> HIDE DEF tree
<1> QED
  BY <1>2, <1>4, <1>5, <1>6

\* When nothing is left everything is published.
LEMMA FinishKeeps == IInv /\ Finish => IInv'
<1> SUFFICES ASSUME IInv, Finish PROVE IInv'
  OBVIOUS
<1>1. /\ pc = "publish" /\ dirs = {} /\ regulars = {} /\ links = {}
      /\ pc' = "done" /\ UNCHANGED <<archive, disk, mine, cause>>
  BY DEF Finish, Proceed, Fixed
<1>2. Published = Keyed(archive)
  BY <1>1 DEF Published
<1> QED
  BY <1>1, <1>2 DEF IInv, Publishing, WellFormedAccepted, Exists

\* The other steps publish nothing: before the output is made it is not theirs,
\* and what a handler leaves of it is nothing.
LEMMA OthersKeep ==
  Origin /\ IInv /\ (Start \/ CheckOutput \/ MakeOutput \/ IoError \/ HandlerMain \/ Traceback
                     \/ HandlerUnpack \/ OutputAppears \/ UNCHANGED vars) => IInv'
<1> SUFFICES ASSUME Origin, IInv, Start \/ CheckOutput \/ MakeOutput \/ IoError \/ HandlerMain \/ Traceback
                                  \/ HandlerUnpack \/ OutputAppears \/ UNCHANGED vars
             PROVE  IInv'
  OBVIOUS
<1> USE DEF IInv, Publishing, WellFormedAccepted, Exists, Fixed, Lists, Reject, Proceed
<1>1. CASE Start
  BY <1>1 DEF Start, Origin
<1>2. CASE CheckOutput
  BY <1>2 DEF CheckOutput, Origin
<1>3. CASE MakeOutput
  <2>1. Upright(EmptyTree) /\ Moored(EmptyTree)
    BY DEF Upright, Moored, EmptyTree
  <2> QED
    BY <1>3, <2>1 DEF MakeOutput, Origin
<1>4. CASE IoError
  BY <1>4 DEF IoError
<1>5. CASE HandlerMain \/ Traceback
  BY <1>5 DEF HandlerMain, Traceback
<1>6. CASE HandlerUnpack
  BY <1>6 DEF HandlerUnpack, Origin
<1>7. CASE OutputAppears
  BY <1>7 DEF OutputAppears, Origin
<1>8. CASE UNCHANGED vars
  BY <1>8 DEF vars, Queues, Key, Published
<1> QED
  BY <1>1, <1>2, <1>3, <1>4, <1>5, <1>6, <1>7, <1>8

\* The invariant of an extraction.
THEOREM Invariance == Spec => []IInv
<1>1. Origin /\ IInv /\ [Next]_vars => IInv'
  BY ClassifyKeeps, PublishDirKeeps, PublishRegularKeeps, PublishLinkKeeps, FinishKeeps, OthersKeep
  DEF Next, Stop
<1> QED
  BY <1>1, InitIInv, OriginHolds, PTL DEF Spec

\* No link of the output leads out of it, at any moment of any extraction
\* (safe_link_target, reject_symlink_parents; safe_release_extract.py:158-183).
\* The resolve() of publish_symlink is not needed for it.
THEOREM LinksNeverLeave == Spec => []LinksStayInside
<1>1. IInv => LinksStayInside
  <2> SUFFICES ASSUME IInv, mine, Exists, NEW p \in DOMAIN disk, disk[p].kind = "link"
               PROVE  ~Escapes(disk, p)
    BY DEF LinksStayInside
  <2>1. Moored(disk)
    BY DEF IInv
  <2>2. p \in Seq(Names)
    BY <2>1 DEF Moored
  <2> QED
    BY <2>1, <2>2, MooredStays
<1> QED
  BY <1>1, Invariance, PTL

\* Nothing is written through a link or below a file (make_parent, :186-199).
THEOREM NothingThroughLinks == Spec => []ParentsAreDirectories
<1>1. IInv => ParentsAreDirectories
  BY DEF IInv, ParentsAreDirectories, Upright
<1> QED
  BY <1>1, Invariance, PTL

\* A run that succeeds has published the archive and nothing else (:269-293,
\* :340-365).
THEOREM OutputIsTheArchive == Spec => []SuccessIsFaithful
<1>1. IInv => SuccessIsFaithful
  <2> SUFFICES ASSUME IInv, pc = "done" PROVE SuccessIsFaithful
    BY DEF SuccessIsFaithful
  <2>1. Holds(archive, disk, Keyed(archive))
    BY DEF IInv
  <2>2. \A i \in Keyed(archive) : disk[archive[i].key].kind = archive[i].kind
    BY <2>1, ImageFacts DEF Holds
  <2>3. UNION {Parents(archive[i].key) : i \in Keyed(archive)}
          = UNION {Parents(k) : k \in {archive[i].key : i \in Keyed(archive)}}
    OBVIOUS
  <2> QED
    BY <2>1, <2>2, <2>3 DEF Holds, SuccessIsFaithful
<1> QED
  BY <1>1, Invariance, PTL

\* What the checks refuse, member by member and in the order of publication, is an
\* archive that contradicts itself as a whole (:259-293, :330-365).
THEOREM NothingGoodIsRefused == Spec => []WellFormedAccepted
<1>1. IInv => WellFormedAccepted
  BY DEF IInv
<1> QED
  BY <1>1, Invariance, PTL

\* A command that fails after it has made the output leaves nothing of it, be it
\* rejected after the first member, the last link, or cut short by an error of a
\* type that its handler is for: any at all under unpack_tree
\* (safe_release_extract.py:546, :555), those that main names (:611).
THEOREM FailuresLeaveNothing == Spec => []FailureLeavesNothing
<1>1. Origin => FailureLeavesNothing
  BY DEF Origin
<1> QED
  BY <1>1, OriginHolds, PTL

\* unpack_tree never touches an output that it found.
THEOREM FoundIsKept == Spec => []UnpackKeepsExisting
<1>1. Origin => UnpackKeepsExisting
  BY DEF Origin, UnpackKeepsExisting
<1> QED
  BY <1>1, OriginHolds, PTL
===============================================================================
