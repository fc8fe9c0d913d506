---------------------------- MODULE ImageProofs ----------------------------
(***************************************************************************)
(* Proofs about Image, for every set of modules, every layout of the disk  *)
(* and every size of the copy buffer: what initialize calls a success is a *)
(* whole disk, the modules reach their places whole, and a size string is  *)
(* taken for what it says.                                                 *)
(***************************************************************************)
EXTENDS Image, SequenceTheorems, NaturalsInduction, WellFoundedInduction, TLAPS

-----------------------------------------------------------------------------
(* The image: what the recursion of buildImage computes.                   *)

Cell == ({"number", "kernel", "boot", "mbr"} \cup {Name(i) : i \in Nat}) \X Nat

\* A set of natural numbers that is not empty has a least one.
LEMMA LeastOf ==
  ASSUME NEW S \in SUBSET Nat, S # {}
  PROVE  \E x \in S : \A y \in S : x <= y
<1> DEFINE R == OpToRel(<, Nat)
<1>1. IsWellFoundedOn(R, Nat)
  BY Zenon, NatLessThanWellFounded
<1>2. \A x, y \in Nat : x < y => <<x, y>> \in R
  BY Zenon DEF OpToRel
<1> HIDE DEF R
<1>3. PICK x \in S : \A y \in S : ~ (<<y, x>> \in R)
  BY <1>1, WFMin
<1>4. \A y \in S : ~(y < x)
  BY <1>2, <1>3
<1> QED BY <1>4

LEMMA FileCells ==
  ASSUME NEW i \in Nat, NEW length \in Nat
  PROVE  /\ \A name \in {"kernel", "boot", "mbr", Name(i)} :
              /\ File(name, length) \in Seq(Cell) /\ Len(File(name, length)) = length
              /\ \A k \in 1 .. length : File(name, length)[k] = <<name, k>>
         /\ write_size(length) \in Seq(Cell) /\ Len(write_size(length)) = 1
         /\ write_size(length)[1] = Number(length)
<1>1. ASSUME NEW name \in {"kernel", "boot", "mbr", Name(i)}
      PROVE  /\ File(name, length) \in Seq(Cell) /\ Len(File(name, length)) = length
             /\ \A k \in 1 .. length : File(name, length)[k] = <<name, k>>
  <2>1. File(name, length) = [k \in 1 .. length |-> <<name, k>>]
    BY Zenon DEF File
  <2>2. \A k \in 1 .. length : <<name, k>> \in Cell
    <3>1. \A k \in 1 .. length : k \in Nat
      OBVIOUS
    <3>2. name \in {"number", "kernel", "boot", "mbr"} \cup {Name(j) : j \in Nat}
      BY Zenon
    <3> QED BY <3>1, <3>2 DEF Cell
  <2>3. File(name, length) \in [1 .. length -> Cell]
    BY <2>1, <2>2
  <2> QED BY <2>1, <2>3
<1>2. Number(length) \in Cell
  BY DEF Number, Cell
<1> QED BY <1>1, <1>2 DEF write_size

\* The recursion of buildImage, and what it adds for one module.
Added(image, lengths, i) == image \o write_size(lengths[i]) \o write_file(Name(i), lengths[i])
First(lengths) == write_file("kernel", KERNEL_LEN) \o <<Number(Len(lengths))>>
ImageFcn(lengths) ==
  CHOOSE image : image = [i \in 0 .. Len(lengths) |->
                            IF i = 0 THEN First(lengths) ELSE Added(image[i - 1], lengths, i)]

LEMMA BuildIs ==
  ASSUME NEW lengths
  PROVE  buildImage(lengths) = ImageFcn(lengths)[Len(lengths)]
BY Zenon DEF buildImage, ImageFcn, Added, First

\* There is such a function: were there none for some number of modules, there
\* would be none for the least such number, but the one for fewer extends to it.
LEMMA ImageExists ==
  ASSUME NEW lengths, NEW L \in Nat
  PROVE  \E image : image = [i \in 0 .. L |-> IF i = 0 THEN First(lengths)
                                              ELSE Added(image[i - 1], lengths, i)]
<1> DEFINE Is(f, n) == f = [i \in 0 .. n |-> IF i = 0 THEN First(lengths)
                                             ELSE Added(f[i - 1], lengths, i)]
           Bad == {n \in Nat : ~\E f : Is(f, n)}
<1>1. CASE Bad = {}
  BY <1>1
<1>2. CASE Bad # {}
  <2>1. PICK n \in Bad : \A m \in Bad : n <= m
    <3>1. Bad \in SUBSET Nat
      OBVIOUS
    <3> HIDE DEF Bad
    <3> QED BY <1>2, <3>1, LeastOf
  <2>2. CASE n = 0
    <3>1. Is([i \in 0 .. 0 |-> First(lengths)], 0)
      OBVIOUS
    <3> QED BY <2>1, <2>2, <3>1
  <2>3. CASE n # 0
    <3>1. n - 1 \in Nat /\ n - 1 \notin Bad
      BY <2>1, <2>3
    <3>2. PICK f : Is(f, n - 1)
      BY <3>1
    <3> DEFINE g == [i \in 0 .. n |-> IF i = n THEN Added(f[n - 1], lengths, n) ELSE f[i]]
    <3>3. \A i \in 0 .. (n - 1) : f[i] = IF i = 0 THEN First(lengths)
                                         ELSE Added(f[i - 1], lengths, i)
      BY <3>2
    <3>4. \A i \in 0 .. n : g[i] = IF i = 0 THEN First(lengths) ELSE Added(g[i - 1], lengths, i)
      <4> SUFFICES ASSUME NEW i \in 0 .. n
                   PROVE  g[i] = IF i = 0 THEN First(lengths) ELSE Added(g[i - 1], lengths, i)
        OBVIOUS
      <4>1. CASE i = n
        <5>1. g[i] = Added(f[i - 1], lengths, i) /\ i # 0
          BY <2>3, <4>1
        <5>2. g[i - 1] = f[i - 1]
          BY <3>1, <4>1
        <5> QED BY <5>1, <5>2
      <4>2. CASE i # n
        <5>1. g[i] = f[i] /\ i \in 0 .. (n - 1)
          BY <4>2
        <5>2. i # 0 => g[i - 1] = f[i - 1]
          BY <4>2
        <5> QED BY <3>3, <5>1, <5>2
      <4> QED BY <4>1, <4>2
    <3>5. Is(g, n)
      <4>1. g = [i \in 0 .. n |-> g[i]]
        OBVIOUS
      <4> HIDE DEF g
      <4> QED BY <3>4, <4>1
    <3> HIDE DEF g
    <3> QED BY <2>1, <3>5
  <2> QED BY <2>2, <2>3
<1> QED BY <1>1, <1>2

\* Img(lengths, i): the image with its first i modules.
Img(lengths, i) == ImageFcn(lengths)[i]

LEMMA ImageSteps ==
  ASSUME NEW lengths \in Seq(Nat)
  PROVE  /\ Img(lengths, 0) = First(lengths)
         /\ \A i \in 1 .. Len(lengths) : Img(lengths, i) = Added(Img(lengths, i - 1), lengths, i)
         /\ buildImage(lengths) = Img(lengths, Len(lengths))
<1> DEFINE f == ImageFcn(lengths)
           L == Len(lengths)
<1>0. L \in Nat
  OBVIOUS
<1>1. f = [i \in 0 .. L |-> IF i = 0 THEN First(lengths) ELSE Added(f[i - 1], lengths, i)]
  <2>1. \E image : image = [i \in 0 .. L |-> IF i = 0 THEN First(lengths)
                                             ELSE Added(image[i - 1], lengths, i)]
    BY <1>0, ImageExists
  <2> QED BY Zenon, <2>1 DEF ImageFcn
<1> HIDE DEF f
<1>2. \A i \in 0 .. L : f[i] = IF i = 0 THEN First(lengths) ELSE Added(f[i - 1], lengths, i)
  BY <1>1
<1>3. f[0] = First(lengths) /\ \A i \in 1 .. L : f[i] = Added(f[i - 1], lengths, i)
  BY <1>0, <1>2
<1> QED BY <1>3, BuildIs DEF f, Img

\* The kernel and the number of modules; then every module adds its length and
\* itself.
LEMMA ImageTypes ==
  ASSUME NEW lengths \in Seq(Nat)
  PROVE  /\ \A i \in 0 .. Len(lengths) : Img(lengths, i) \in Seq(Cell)
         /\ Len(Img(lengths, 0)) = KERNEL_LEN + 1
         /\ Img(lengths, 0)[KERNEL_LEN + 1] = Number(Len(lengths))
         /\ \A i \in 1 .. Len(lengths) :
              LET s == Img(lengths, i - 1)
                  t == Img(lengths, i)
              IN  /\ Len(t) = Len(s) + 1 + lengths[i]
                  /\ \A k \in 1 .. Len(s) : t[k] = s[k]
                  /\ t[Len(s) + 1] = Number(lengths[i])
                  /\ \A k \in 1 .. lengths[i] : t[Len(s) + 1 + k] = <<Name(i), k>>
<1> DEFINE L == Len(lengths)
<1>0. L \in Nat /\ \A i \in 1 .. L : lengths[i] \in Nat
  OBVIOUS
<1>1. /\ First(lengths) \in Seq(Cell) /\ Len(First(lengths)) = KERNEL_LEN + 1
      /\ First(lengths)[KERNEL_LEN + 1] = Number(L)
  <2> DEFINE a == File("kernel", KERNEL_LEN)
             b == <<Number(L)>>
  <2>1. a \in Seq(Cell) /\ Len(a) = KERNEL_LEN /\ KERNEL_LEN \in Nat
    BY FileCells, LengthsAssumption
  <2>2. b \in Seq(Cell) /\ Len(b) = 1 /\ b[1] = Number(L)
    BY <1>0, FileCells DEF write_size
  <2>3. First(lengths) = a \o b
    BY DEF First, write_file
  <2> HIDE DEF a, b
  <2>4. /\ a \o b \in Seq(Cell) /\ Len(a \o b) = Len(a) + Len(b)
        /\ \A k \in 1 .. Len(a) + Len(b) : (a \o b)[k] = IF k <= Len(a) THEN a[k] ELSE b[k - Len(a)]
    BY <2>1, <2>2, ConcatProperties
  <2> DEFINE w == a \o b
  <2> HIDE DEF w
  <2>5. KERNEL_LEN + 1 \in 1 .. Len(a) + Len(b) /\ (KERNEL_LEN + 1) - Len(a) = 1
    BY <2>1, <2>2
  <2>6. w[KERNEL_LEN + 1] = b[1]
    BY <2>1, <2>4, <2>5 DEF w
  <2> QED BY <2>1, <2>2, <2>3, <2>4, <2>6 DEF w
<1>2. ASSUME NEW i \in 1 .. L, NEW s \in Seq(Cell)
      PROVE  /\ Added(s, lengths, i) \in Seq(Cell)
             /\ Len(Added(s, lengths, i)) = Len(s) + 1 + lengths[i]
             /\ \A k \in 1 .. Len(s) : Added(s, lengths, i)[k] = s[k]
             /\ Added(s, lengths, i)[Len(s) + 1] = Number(lengths[i])
             /\ \A k \in 1 .. lengths[i] : Added(s, lengths, i)[Len(s) + 1 + k] = <<Name(i), k>>
  <2> DEFINE a == write_size(lengths[i])
             b == File(Name(i), lengths[i])
             n == lengths[i]
             c == s \o a
             t == c \o b
  <2>1. n \in Nat /\ i \in Nat /\ Len(s) \in Nat
    BY <1>0
  <2>2. /\ a \in Seq(Cell) /\ Len(a) = 1 /\ a[1] = Number(n)
        /\ b \in Seq(Cell) /\ Len(b) = n /\ \A k \in 1 .. n : b[k] = <<Name(i), k>>
    BY <2>1, FileCells
  <2>3. Added(s, lengths, i) = t
    BY DEF Added, write_file
  <2> HIDE DEF a, b, n
  <2>c. /\ c \in Seq(Cell) /\ Len(c) = Len(s) + Len(a)
        /\ \A k \in 1 .. Len(s) + Len(a) : c[k] = IF k <= Len(s) THEN s[k] ELSE a[k - Len(s)]
    BY <2>2, ConcatProperties
  <2> HIDE DEF c
  <2>4. /\ c \in Seq(Cell) /\ Len(c) = Len(s) + 1 /\ c[Len(s) + 1] = Number(n)
        /\ \A k \in 1 .. Len(s) : c[k] = s[k]
    <3>1. Len(s) + 1 \in 1 .. Len(s) + Len(a) /\ ~(Len(s) + 1 <= Len(s)) /\ (Len(s) + 1) - Len(s) = 1
      BY <2>1, <2>2
    <3>2. c[Len(s) + 1] = a[1]
      BY <2>c, <3>1
    <3> QED BY <2>1, <2>2, <2>c, <3>2
  <2>5. /\ t \in Seq(Cell) /\ Len(t) = Len(c) + n
        /\ \A k \in 1 .. Len(c) + n : t[k] = IF k <= Len(c) THEN c[k] ELSE b[k - Len(c)]
    BY <2>2, <2>4, ConcatProperties
  <2> HIDE DEF t
  <2>6. \A k \in 1 .. n : t[Len(s) + 1 + k] = <<Name(i), k>>
    <3> SUFFICES ASSUME NEW k \in 1 .. n PROVE t[Len(s) + 1 + k] = <<Name(i), k>>
      OBVIOUS
    <3>1. /\ Len(s) + 1 + k \in 1 .. Len(c) + n /\ ~(Len(s) + 1 + k <= Len(c))
          /\ Len(s) + 1 + k - Len(c) = k
      BY <2>1, <2>4
    <3> QED BY SMTT(30), <2>2, <2>5, <3>1
  <2>7. Len(t) = Len(s) + 1 + n
    BY <2>1, <2>4, <2>5
  <2>8. \A k \in 1 .. Len(s) : t[k] = s[k]
    <3>1. \A k \in 1 .. Len(s) : k \in 1 .. Len(c) + n /\ k <= Len(c)
      BY <2>1, <2>4
    <3> QED BY <2>4, <2>5, <3>1
  <2>9. t[Len(s) + 1] = Number(n)
    <3>1. Len(s) + 1 \in 1 .. Len(c) + n /\ Len(s) + 1 <= Len(c)
      BY <2>1, <2>4
    <3> QED BY <2>4, <2>5, <3>1
  <2> QED BY Zenon, <2>3, <2>5, <2>6, <2>7, <2>8, <2>9 DEF n
<1>3. \A i \in 0 .. L : Img(lengths, i) \in Seq(Cell)
  <2> DEFINE Bad == {i \in Nat : i <= L /\ Img(lengths, i) \notin Seq(Cell)}
  <2>1. CASE Bad = {}
    BY <1>0, <2>1
  <2>2. CASE Bad # {}
    <3>1. PICK n \in Bad : \A m \in Bad : n <= m
      <4>1. Bad \in SUBSET Nat
        OBVIOUS
      <4> HIDE DEF Bad
      <4> QED BY <2>2, <4>1, LeastOf
    <3>2. n # 0
      BY <1>1, <3>1, ImageSteps
    <3>3. n - 1 \in Nat /\ n - 1 \notin Bad /\ n \in 1 .. L
      BY <1>0, <3>1, <3>2
    <3>4. Img(lengths, n - 1) \in Seq(Cell)
      BY <1>0, <3>3
    <3> QED BY <1>2, <3>1, <3>3, <3>4, ImageSteps
  <2> QED BY <2>1, <2>2
<1>4. \A i \in 1 .. L : Img(lengths, i - 1) \in Seq(Cell)
                          /\ Img(lengths, i) = Added(Img(lengths, i - 1), lengths, i)
  BY <1>0, <1>3, ImageSteps
<1>5. ASSUME NEW i \in 1 .. L
      PROVE  LET s == Img(lengths, i - 1)
                 t == Img(lengths, i)
             IN  /\ Len(t) = Len(s) + 1 + lengths[i]
                 /\ \A k \in 1 .. Len(s) : t[k] = s[k]
                 /\ t[Len(s) + 1] = Number(lengths[i])
                 /\ \A k \in 1 .. lengths[i] : t[Len(s) + 1 + k] = <<Name(i), k>>
  <2> DEFINE s == Img(lengths, i - 1)
             t == Img(lengths, i)
  <2>1. s \in Seq(Cell) /\ t = Added(s, lengths, i)
    BY <1>4
  <2> HIDE DEF s, t
  <2>2. /\ Len(t) = Len(s) + 1 + lengths[i]
        /\ \A k \in 1 .. Len(s) : t[k] = s[k]
        /\ t[Len(s) + 1] = Number(lengths[i])
        /\ \A k \in 1 .. lengths[i] : t[Len(s) + 1 + k] = <<Name(i), k>>
    BY <1>2, <2>1
  <2> QED BY <2>2 DEF s, t
<1>6. Img(lengths, 0) = First(lengths)
  BY ImageSteps
<1> QED BY <1>1, <1>3, <1>5, <1>6

\* An image with fewer modules is the beginning of the whole one.
LEMMA ImagePrefix ==
  ASSUME NEW lengths \in Seq(Nat), NEW i \in 0 .. Len(lengths)
  PROVE  /\ Len(Img(lengths, i)) <= Len(buildImage(lengths))
         /\ \A k \in 1 .. Len(Img(lengths, i)) : buildImage(lengths)[k] = Img(lengths, i)[k]
<1> DEFINE L == Len(lengths)
           t == buildImage(lengths)
           Prefix(j) == /\ Len(Img(lengths, j)) <= Len(t)
                        /\ \A k \in 1 .. Len(Img(lengths, j)) : t[k] = Img(lengths, j)[k]
           Bad == {d \in Nat : d <= L /\ ~Prefix(L - d)}
<1>0. L \in Nat /\ t = Img(lengths, L) /\ \A j \in 0 .. L : Len(Img(lengths, j)) \in Nat
  BY ImageSteps, ImageTypes, LenProperties
<1>1. CASE Bad = {}
  <2>1. L - i \in Nat /\ L - i <= L /\ L - (L - i) = i
    BY <1>0
  <2> QED BY <1>1, <2>1
<1>2. CASE Bad # {}
  <2>1. PICK d \in Bad : \A e \in Bad : d <= e
    <3>1. Bad \in SUBSET Nat
      OBVIOUS
    <3> HIDE DEF Bad
    <3> QED BY <1>2, <3>1, LeastOf
  <2>2. d # 0
    <3>1. Prefix(L - 0)
      BY <1>0
    <3> QED BY <2>1, <3>1
  <2> DEFINE j == L - d
             s == Img(lengths, j)
             u == Img(lengths, j + 1)
  <2>3. d - 1 \in Nat /\ d - 1 \notin Bad /\ d - 1 <= L /\ L - (d - 1) = j + 1 /\ j + 1 \in 1 .. L /\ j \in Nat
    <3>1. d \in Nat /\ d <= L
      BY <2>1
    <3>2. d - 1 \in Nat /\ ~(d <= d - 1)
      BY <2>2, <3>1
    <3>3. d - 1 \notin Bad
      BY <2>1, <3>2
    <3> HIDE DEF Bad
    <3> QED BY <1>0, <2>2, <3>1, <3>2, <3>3
  <2>4. Prefix(j + 1)
    <3> HIDE DEF Prefix
    <3> QED BY <2>3
  <2>5. Len(u) = Len(s) + 1 + lengths[j + 1] /\ \A k \in 1 .. Len(s) : u[k] = s[k]
    <3> DEFINE i1 == j + 1
    <3>1. j = i1 - 1 /\ i1 \in 1 .. L
      BY <2>3
    <3> HIDE DEF j, i1
    <3>2. LET p == Img(lengths, i1 - 1)
              q == Img(lengths, i1)
          IN  Len(q) = Len(p) + 1 + lengths[i1] /\ \A k \in 1 .. Len(p) : q[k] = p[k]
      BY <3>1, ImageTypes
    <3> QED BY <3>1, <3>2 DEF i1
  <2>6. lengths[j + 1] \in Nat /\ Len(s) \in Nat /\ Len(u) \in Nat /\ Len(t) \in Nat
    BY SMTT(30), <1>0, <2>3
  <2> HIDE DEF s, u, t
  <2>7. Len(u) <= Len(t) /\ \A k \in 1 .. Len(u) : t[k] = u[k]
    BY <2>4 DEF u
  <2>8. Len(s) <= Len(t) /\ \A k \in 1 .. Len(s) : t[k] = s[k]
    <3> DEFINE n == lengths[j + 1]
    <3>1. n \in Nat /\ Len(u) = Len(s) + 1 + n
      BY <2>5, <2>6
    <3> HIDE DEF n
    <3>2. Len(s) <= Len(u)
      BY <2>6, <3>1
    <3>3. Len(s) <= Len(t) /\ \A k \in 1 .. Len(s) : k \in 1 .. Len(u)
      BY <2>6, <2>7, <3>2
    <3> QED BY <2>5, <2>7, <3>3
  <2>9. Prefix(L - d)
    BY <2>8 DEF s
  <2> QED BY <2>1, <2>9
<1> QED BY <1>1, <1>2

\* Where in the image the number of modules, their lengths and their cells are.
LEMMA ImageLayout ==
  ASSUME NEW lengths \in Seq(Nat)
  PROVE  /\ buildImage(lengths) \in Seq(Cell) /\ Len(buildImage(lengths)) \in Nat
         /\ Len(Img(lengths, 0)) = KERNEL_LEN + 1
         /\ KERNEL_LEN + 1 <= Len(buildImage(lengths))
         /\ buildImage(lengths)[KERNEL_LEN + 1] = Number(Len(lengths))
         /\ \A i \in 1 .. Len(lengths) :
              /\ Len(Img(lengths, i - 1)) \in Nat
              /\ Len(Img(lengths, i)) = Len(Img(lengths, i - 1)) + 1 + lengths[i]
              /\ Len(Img(lengths, i)) <= Len(buildImage(lengths))
              /\ buildImage(lengths)[Len(Img(lengths, i - 1)) + 1] = Number(lengths[i])
              /\ \A k \in 1 .. lengths[i] :
                   buildImage(lengths)[Len(Img(lengths, i - 1)) + 1 + k] = <<Name(i), k>>
<1> DEFINE t == buildImage(lengths)
           L == Len(lengths)
<1>0. L \in Nat /\ \A j \in 0 .. L : Img(lengths, j) \in Seq(Cell) /\ Len(Img(lengths, j)) \in Nat
  BY ImageTypes, LenProperties
<1>1. t \in Seq(Cell) /\ Len(t) \in Nat
  BY <1>0, ImageSteps
<1>2. /\ Len(Img(lengths, 0)) = KERNEL_LEN + 1 /\ KERNEL_LEN + 1 <= Len(t)
      /\ t[KERNEL_LEN + 1] = Number(L)
  <2>1. Len(Img(lengths, 0)) = KERNEL_LEN + 1 /\ Img(lengths, 0)[KERNEL_LEN + 1] = Number(L)
    BY ImageTypes
  <2>2. KERNEL_LEN + 1 \in 1 .. (KERNEL_LEN + 1) /\ 0 \in 0 .. L
    BY <1>0, LengthsAssumption
  <2>3. /\ Len(Img(lengths, 0)) <= Len(t)
        /\ \A k \in 1 .. Len(Img(lengths, 0)) : t[k] = Img(lengths, 0)[k]
    BY <2>2, ImagePrefix
  <2> QED BY <2>1, <2>2, <2>3
<1>3. ASSUME NEW i \in 1 .. L
      PROVE  /\ Len(Img(lengths, i - 1)) \in Nat
             /\ Len(Img(lengths, i)) = Len(Img(lengths, i - 1)) + 1 + lengths[i]
             /\ Len(Img(lengths, i)) <= Len(t)
             /\ t[Len(Img(lengths, i - 1)) + 1] = Number(lengths[i])
             /\ \A k \in 1 .. lengths[i] : t[Len(Img(lengths, i - 1)) + 1 + k] = <<Name(i), k>>
  <2> DEFINE s == Img(lengths, i - 1)
             u == Img(lengths, i)
  <2>1. /\ Len(u) = Len(s) + 1 + lengths[i] /\ u[Len(s) + 1] = Number(lengths[i])
        /\ \A k \in 1 .. lengths[i] : u[Len(s) + 1 + k] = <<Name(i), k>>
    BY ImageTypes
  <2>2. i \in 0 .. L /\ i - 1 \in 0 .. L /\ lengths[i] \in Nat
    BY <1>0
  <2>3. Len(s) \in Nat /\ Len(u) <= Len(t) /\ \A k \in 1 .. Len(u) : t[k] = u[k]
    BY <1>0, <2>2, ImagePrefix
  <2> HIDE DEF s, u, t
  <2>4. Len(s) + 1 \in 1 .. Len(u) /\ \A k \in 1 .. lengths[i] : Len(s) + 1 + k \in 1 .. Len(u)
    BY <2>1, <2>2, <2>3
  <2>5. t[Len(s) + 1] = Number(lengths[i])
        /\ \A k \in 1 .. lengths[i] : t[Len(s) + 1 + k] = <<Name(i), k>>
    BY <2>1, <2>3, <2>4
  <2> QED BY <2>1, <2>3, <2>5 DEF s, u
<1> QED BY <1>1, <1>2, <1>3

-----------------------------------------------------------------------------
(* Writing cells.                                                          *)

LEMMA ReadPut ==
  ASSUME NEW cells, NEW at \in Nat, NEW file, Len(file) \in Nat, NEW p \in Nat
  PROVE  Read(Put(cells, at, file), p)
           = IF p \in at .. (at + Len(file) - 1) THEN file[p - at + 1] ELSE Read(cells, p)
<1> DEFINE D == DOMAIN cells \cup (at .. (at + Len(file) - 1))
           put == [q \in D |-> IF q \in at .. (at + Len(file) - 1) THEN file[q - at + 1]
                               ELSE cells[q]]
<1>1. Put(cells, at, file) = put
  BY DEF Put
<1>2. DOMAIN put = D /\ \A q \in D : put[q] = IF q \in at .. (at + Len(file) - 1)
                                              THEN file[q - at + 1] ELSE cells[q]
  OBVIOUS
<1>3. p \in D <=> p \in at .. (at + Len(file) - 1) \/ p \in DOMAIN cells
  OBVIOUS
<1> HIDE DEF put, D
<1> QED BY <1>1, <1>2, <1>3 DEF Read

\* The first n cells of a file stand at a place.
Part(cells, at, file, n) == \A k \in 1 .. n : Read(cells, at + k - 1) = file[k]

\* A chunk written behind the first n cells makes them more, and leaves alone
\* what is before.
Longer(cells, at, file, n, m) ==
  LET chunk == SubSeq(file, n + 1, m)
      put == Put(cells, at + n, chunk)
  IN  /\ Part(cells, at, file, n) => Part(put, at, file, m)
      /\ \A p \in Nat : p < at + n => Read(put, p) = Read(cells, p)
      /\ Len(chunk) = m - n

LEMMA ChunkWritten ==
  ASSUME NEW cells, NEW at \in Nat, NEW n \in Nat, NEW m \in Nat, NEW file \in Seq(Cell),
         n <= m, m <= Len(file)
  PROVE  Longer(cells, at, file, n, m)
<1> DEFINE c == SubSeq(file, n + 1, m)
           put == Put(cells, at + n, c)
<1>1. Len(file) \in Nat /\ \A i \in (n + 1) .. m : file[i] \in Cell
  BY LenProperties
<1>2. Len(c) = m - n /\ \A i \in 1 .. m - n : c[i] = file[n + i]
  <2>1. /\ Len(c) = IF n + 1 <= m THEN m - (n + 1) + 1 ELSE 0
        /\ \A i \in 1 .. m - (n + 1) + 1 : c[i] = file[(n + 1) + i - 1]
    BY <1>1, SubSeqProperties
  <2>2. \A i \in 1 .. m - n : i \in 1 .. m - (n + 1) + 1 /\ (n + 1) + i - 1 = n + i
    OBVIOUS
  <2> HIDE DEF c
  <2> QED BY <2>1, <2>2
<1> HIDE DEF c
<1>3. \A p \in Nat : Read(put, p) = IF p \in (at + n) .. (at + n + (m - n) - 1)
                                    THEN c[p - (at + n) + 1] ELSE Read(cells, p)
  <2> DEFINE place == at + n
             l == m - n
  <2>1. place \in Nat /\ l \in Nat /\ Len(c) = l
    BY <1>2
  <2> HIDE DEF place, l
  <2>2. \A p \in Nat : Read(Put(cells, place, c), p) = IF p \in place .. (place + l - 1)
                                                       THEN c[p - place + 1] ELSE Read(cells, p)
    BY <2>1, ReadPut
  <2> QED BY <2>2 DEF place, l
<1> HIDE DEF put
<1>4. ASSUME Part(cells, at, file, n), NEW k \in 1 .. m
      PROVE  Read(put, at + k - 1) = file[k]
  <2>1. CASE k <= n
    <3>1. at + k - 1 \in Nat /\ at + k - 1 \notin (at + n) .. (at + n + (m - n) - 1)
      BY <2>1
    <3> QED BY <1>3, <1>4, <2>1, <3>1 DEF Part
  <2>2. CASE ~(k <= n)
    <3>1. /\ at + k - 1 \in Nat /\ at + k - 1 \in (at + n) .. (at + n + (m - n) - 1)
          /\ (at + k - 1) - (at + n) + 1 = k - n /\ k - n \in 1 .. m - n /\ n + (k - n) = k
      BY <2>2
    <3> QED BY <1>2, <1>3, <3>1
  <2> QED BY <2>1, <2>2
<1>5. \A p \in Nat : p < at + n => Read(put, p) = Read(cells, p)
  BY <1>3
<1> QED BY <1>2, <1>4, <1>5 DEF Longer, Part, put, c

-----------------------------------------------------------------------------
(* initialize.                                                             *)

Clean == failed \cap {"write", "read", "flush"} = {}
Directory == /\ Read(disk, INFO_AT) = "BMFS"
             /\ \A q \in DIR_AT .. (BOOT_AT - 1) : Read(disk, q) = Zero
Mbr == Read(disk, 0) = <<"mbr", 1>>
Boot(n) == Part(disk, BOOT_AT, File("boot", BOOT_LEN), n)
Kernel(n) == Part(disk, BOOT_AT + BOOT_LEN, buildImage(modules), n)
Whole == Directory /\ Mbr /\ Boot(BOOT_LEN) /\ Kernel(Len(buildImage(modules)))

\* Every step of initialize, as long as nothing has failed, finds what the
\* steps before it wrote.  What is reported is a success only if no write has
\* failed.
DiskInv ==
  /\ pc # "pack" => modules \in ModuleSets
  /\ pc = "mbr" => position = 0 /\ (Clean => Directory)
  /\ pc = "boot" =>
       /\ source \in 0 .. BOOT_LEN
       /\ Clean => /\ Directory /\ Mbr /\ Boot(source)
                   /\ source > 0 => position = BOOT_AT + source
  /\ pc = "kernel" =>
       /\ source \in 0 .. Len(buildImage(modules))
       /\ Clean => /\ Directory /\ Mbr /\ Boot(BOOT_LEN) /\ Kernel(source)
                   /\ position = BOOT_AT + BOOT_LEN + source
  /\ pc \in {"close", "closed"} /\ ret = 0 => "write" \notin failed /\ (Clean => Whole)

-----------------------------------------------------------------------------
(* Boot.                                                                   *)

\* What the modules' arrival is promised for.
Loaded == /\ failed \cap {"read", "flush"} = {}
          /\ BOOT_LEN + Len(buildImage(modules)) <= LOAD

Ram == DOMAIN memory = 0 .. (MEMORY - 1)
ImageStands == \A k \in 1 .. Len(buildImage(modules)) : memory[k - 1] = buildImage(modules)[k]
Arrived(j) == \A i \in 1 .. j : \A k \in 1 .. modules[i] :
                memory[Targets[i] + k - 1] = <<Name(i), k>>

\* While modules are moved the whole image still stands where it was loaded,
\* and the first module.i modules are at their places.
MemoryInv ==
  Loaded =>
    /\ pc = "count" => Ram /\ ImageStands
    /\ pc = "modules" =>
         /\ Ram /\ ImageStands
         /\ module = [count |-> Number(Len(modules)), i |-> module.i]
         /\ module.i \in 0 .. Len(modules)
         /\ next = Len(Img(modules, module.i))
         /\ Arrived(module.i)
    /\ pc = "running" => Ram /\ Arrived(Len(modules))

LEMMA FilesTyped ==
  /\ File("boot", BOOT_LEN) \in Seq(Cell) /\ Len(File("boot", BOOT_LEN)) = BOOT_LEN
  /\ File("mbr", 1) \in Seq(Cell) /\ Len(File("mbr", 1)) = 1
  /\ File("mbr", 1)[1] = <<"mbr", 1>>
  /\ \A lengths \in ModuleSets :
       buildImage(lengths) \in Seq(Cell) /\ Len(buildImage(lengths)) \in Nat
<1>1. \A length \in Nat : \A name \in {"boot", "mbr"} :
        /\ File(name, length) \in Seq(Cell) /\ Len(File(name, length)) = length
        /\ \A k \in 1 .. length : File(name, length)[k] = <<name, k>>
  BY FileCells
<1>2. BOOT_LEN \in Nat /\ 1 \in Nat /\ 1 \in 1 .. 1
  BY LengthsAssumption
<1>3. \A lengths \in ModuleSets : lengths \in Seq(Nat)
  BY TargetsAssumption
<1> QED BY <1>1, <1>2, <1>3, ImageLayout

\* format puts the name of the file system in its place, and an empty directory
\* in its own.
LEMMA FormatWrites ==
  ASSUME NEW cells
  PROVE  LET formatted == Put(Put(cells, INFO_AT, <<"BMFS">>), DIR_AT, Zeros(BOOT_AT - DIR_AT))
         IN  /\ Read(formatted, INFO_AT) = "BMFS"
             /\ \A q \in DIR_AT .. (BOOT_AT - 1) : Read(formatted, q) = Zero
<1> DEFINE info == <<"BMFS">>
           n == BOOT_AT - DIR_AT
           zeros == Zeros(n)
           first == Put(cells, INFO_AT, info)
<1>1. /\ INFO_AT \in Nat /\ DIR_AT \in Nat /\ n \in Nat
      /\ INFO_AT \notin DIR_AT .. (DIR_AT + n - 1) /\ DIR_AT + n - 1 = BOOT_AT - 1
      /\ INFO_AT \in INFO_AT .. (INFO_AT + 1 - 1) /\ INFO_AT - INFO_AT + 1 = 1
  BY LayoutAssumption
<1>2. Len(info) = 1 /\ info[1] = "BMFS"
  OBVIOUS
<1> HIDE DEF info, n
<1>3. Len(zeros) = n /\ \A k \in 1 .. n : zeros[k] = Zero
  <2>1. Len([k \in 1 .. n |-> Zero]) = n /\ \A k \in 1 .. n : [j \in 1 .. n |-> Zero][k] = Zero
    BY <1>1
  <2> QED BY <2>1 DEF Zeros
<1> HIDE DEF zeros
<1>4. Read(first, INFO_AT) = "BMFS"
  BY <1>1, <1>2, ReadPut
<1> HIDE DEF first
<1>5. Read(Put(first, DIR_AT, zeros), INFO_AT) = Read(first, INFO_AT)
  BY <1>1, <1>3, ReadPut
<1>6. \A q \in DIR_AT .. (BOOT_AT - 1) : Read(Put(first, DIR_AT, zeros), q) = Zero
  <2> TAKE q \in DIR_AT .. (BOOT_AT - 1)
  <2>1. q \in Nat /\ q \in DIR_AT .. (DIR_AT + n - 1) /\ q - DIR_AT + 1 \in 1 .. n
    BY <1>1, LayoutAssumption
  <2>2. Read(Put(first, DIR_AT, zeros), q) = zeros[q - DIR_AT + 1]
    BY <1>1, <1>3, <2>1, ReadPut
  <2> QED BY <1>3, <2>1, <2>2
<1> QED BY <1>4, <1>5, <1>6 DEF first, info, zeros, n

\* The MBR is written over the first cell alone.
LEMMA MbrWrites ==
  ASSUME NEW cells
  PROVE  /\ Read(Put(cells, 0, File("mbr", 1)), 0) = <<"mbr", 1>>
         /\ \A q \in Nat \ {0} : Read(Put(cells, 0, File("mbr", 1)), q) = Read(cells, q)
<1> DEFINE f == File("mbr", 1)
<1>1. Len(f) = 1 /\ f[1] = <<"mbr", 1>>
  BY FilesTyped
<1>2. /\ \A q \in Nat \ {0} : q \notin 0 .. (0 + 1 - 1)
      /\ 0 \in 0 .. (0 + 1 - 1) /\ 0 - 0 + 1 = 1
  OBVIOUS
<1> HIDE DEF f
<1>3. \A p \in Nat : Read(Put(cells, 0, f), p) = IF p \in 0 .. (0 + 1 - 1) THEN f[p - 0 + 1]
                                                 ELSE Read(cells, p)
  <2> DEFINE at == 0
             l == 1
  <2>1. at \in Nat /\ l \in Nat /\ Len(f) = l
    BY <1>1
  <2> HIDE DEF at, l
  <2>2. \A p \in Nat : Read(Put(cells, at, f), p) = IF p \in at .. (at + l - 1) THEN f[p - at + 1]
                                                    ELSE Read(cells, p)
    BY <2>1, ReadPut
  <2> QED BY <2>2 DEF at, l
<1>4. Read(Put(cells, 0, f), 0) = f[0 - 0 + 1]
  BY <1>2, <1>3
<1>5. \A q \in Nat \ {0} : Read(Put(cells, 0, f), q) = Read(cells, q)
  BY <1>2, <1>3
<1> QED BY <1>1, <1>2, <1>4, <1>5 DEF f

\* What is copied next: the chunk behind the cells already copied.
LEMMA ChunkEnd ==
  ASSUME NEW length \in Nat, source \in 0 .. length, source < length
  PROVE  LET m == Min({source + bufferSize, length})
         IN  m \in Nat /\ source <= m /\ m <= length /\ m > 0
<1> DEFINE a == source + bufferSize
           m == Min({a, length})
<1>1. a \in Int /\ a > source
  BY LengthsAssumption
<1> HIDE DEF a
<1>2. m \in {a, length} /\ m <= a /\ m <= length
  <2>1. \E x \in {a, length} : \A y \in {a, length} : x <= y
    BY <1>1
  <2> QED BY <2>1 DEF Min
<1> HIDE DEF m
<1> QED BY <1>1, <1>2 DEF m, a

\* What the disk is said to hold depends on the disk and on the modules alone.
LEMMA DiskSame ==
  ASSUME disk' = disk, modules' = modules, failed' = failed
  PROVE  /\ Clean' = Clean /\ Directory' = Directory /\ Mbr' = Mbr /\ Whole' = Whole
         /\ \A n : Boot(n)' = Boot(n) /\ Kernel(n)' = Kernel(n)
<1>1. \A n : Boot(n)' = Boot(n)
  BY DEF Boot, Part
<1>2. \A n : Kernel(n)' = Kernel(n)
  BY DEF Kernel, Part
<1>3. Boot(BOOT_LEN)' = Boot(BOOT_LEN)
  BY DEF Boot, Part
<1>4. Kernel(Len(buildImage(modules)))' = Kernel(Len(buildImage(modules)))
  BY DEF Kernel, Part
<1>5. Clean' = Clean /\ Directory' = Directory /\ Mbr' = Mbr
  BY DEF Clean, Directory, Mbr
<1> QED BY <1>1, <1>2, <1>3, <1>4, <1>5 DEF Whole

\* MBR and directory lie in front of what is copied.
LEMMA EarlyPlaces ==
  /\ 0 \in Nat /\ 0 < BOOT_AT /\ INFO_AT \in Nat \ {0} /\ INFO_AT < BOOT_AT
  /\ \A q \in DIR_AT .. (BOOT_AT - 1) : q \in Nat \ {0} /\ q < BOOT_AT
BY LayoutAssumption

LEMMA CopyKeeps == DiskInv /\ Copy => DiskInv'
<1> SUFFICES ASSUME DiskInv, Copy PROVE DiskInv'
  OBVIOUS
<1> DEFINE m == Min({source + bufferSize, Len(Copied)})
           chunk == SubSeq(Copied, source + 1, m)
<1>0. /\ pc' = pc /\ modules' = modules /\ pc \in {"boot", "kernel"} /\ modules \in ModuleSets
      /\ source < Len(Copied) /\ source' = source + Len(chunk)
      /\ \/ /\ disk' = Put(disk, Place, chunk) /\ failed' = failed /\ position' = Place + Len(chunk)
         \/ "write" \in failed'
  BY DEF DiskInv, Copy, Steady
<1>1. pc = "boot" \/ pc = "kernel"
  BY <1>0
<1>2. BOOT_AT \in Nat /\ BOOT_LEN \in Nat /\ BOOT_AT + BOOT_LEN \in Nat /\ INFO_AT \in Nat
      /\ 0 < BOOT_AT /\ INFO_AT < BOOT_AT
  BY LengthsAssumption, LayoutAssumption
<1>3. CASE pc = "boot"
  <2> DEFINE f == File("boot", BOOT_LEN)
  <2>1. Copied = f /\ f \in Seq(Cell) /\ Len(f) = BOOT_LEN /\ source \in 0 .. BOOT_LEN
    BY <1>3, FilesTyped DEF Copied, DiskInv
  <2> HIDE DEF f
  <2>2. m \in Nat /\ source \in Nat /\ source <= m /\ m <= BOOT_LEN /\ m > 0
    BY <1>0, <1>2, <2>1, ChunkEnd
  <2> HIDE DEF m
  <2>3. /\ Part(disk, BOOT_AT, f, source) => Part(Put(disk, BOOT_AT + source, chunk), BOOT_AT, f, m)
        /\ \A p \in Nat : p < BOOT_AT + source => Read(Put(disk, BOOT_AT + source, chunk), p) = Read(disk, p)
        /\ Len(chunk) = m - source
    <3>1. chunk = SubSeq(f, source + 1, m)
      BY <2>1
    <3>2. BOOT_AT \in Nat /\ f \in Seq(Cell) /\ source \in Nat /\ m \in Nat
          /\ source <= m /\ m <= Len(f)
      BY <1>2, <2>1, <2>2
    <3> HIDE DEF chunk
    <3>3. Longer(disk, BOOT_AT, f, source, m)
      BY <3>2, ChunkWritten
    <3> QED BY Zenon, <3>1, <3>3 DEF Longer
  <2> HIDE DEF chunk
  <2>4. source' = m
    BY <1>0, <2>2, <2>3
  <2>5. ASSUME Clean'
        PROVE  /\ Directory' /\ Mbr' /\ Boot(source)'
               /\ source' > 0 => position' = BOOT_AT + source'
    <3>1. disk' = Put(disk, Place, chunk) /\ failed' = failed /\ position' = Place + Len(chunk)
      BY <1>0, <2>5 DEF Clean
    <3>2. Directory /\ Mbr /\ Boot(source) /\ (source > 0 => position = BOOT_AT + source)
      BY <1>3, <2>5, <3>1 DEF DiskInv, Clean
    <3>3. Place = BOOT_AT + source
      <4>1. source = 0 => Place = BOOT_AT /\ BOOT_AT + source = BOOT_AT
        BY <1>2, <1>3 DEF Place
      <4>2. source # 0 => Place = position /\ source > 0
        BY <2>2 DEF Place
      <4> QED BY <3>2, <4>1, <4>2
    <3>4. disk' = Put(disk, BOOT_AT + source, chunk) /\ position' = BOOT_AT + source + Len(chunk)
      BY <3>1, <3>3
    <3>5. Part(disk', BOOT_AT, f, m)
      BY <2>3, <3>2, <3>4 DEF Boot, f
    <3>6. Boot(source)'
      BY <2>4, <3>5 DEF Boot, f
    <3>7. \A q \in Nat : q < BOOT_AT => Read(disk', q) = Read(disk, q)
      BY <1>2, <2>2, <2>3, <3>4
    <3>8. Directory' /\ Mbr'
      BY <1>2, <3>2, <3>7, EarlyPlaces DEF Directory, Mbr
    <3>9. position' = BOOT_AT + source'
      BY <1>2, <2>2, <2>3, <2>4, <3>4
    <3> QED BY <3>6, <3>8, <3>9
  <2>6. source' \in 0 .. BOOT_LEN
    BY <1>2, <2>2, <2>4
  <2>7. pc' = "boot" /\ modules' \in ModuleSets
    BY <1>0, <1>3
  <2> QED BY <2>5, <2>6, <2>7 DEF DiskInv
<1>4. CASE pc = "kernel"
  <2> DEFINE f == buildImage(modules)
             at == BOOT_AT + BOOT_LEN
  <2>1. Copied = f /\ f \in Seq(Cell) /\ Len(f) \in Nat /\ source \in 0 .. Len(f)
    BY <1>0, <1>4, FilesTyped DEF Copied, DiskInv
  <2>a. at \in Nat /\ buildImage(modules') = f
    BY <1>0, <1>2
  <2> HIDE DEF f
  <2>2. m \in Nat /\ source \in Nat /\ source <= m /\ m <= Len(f) /\ m > 0
    <3> DEFINE length == Len(f)
    <3>1. length \in Nat /\ source \in 0 .. length /\ source < length
      BY <1>0, <2>1
    <3>2. m = Min({source + bufferSize, length})
      BY <2>1
    <3> HIDE DEF m, length
    <3>3. m \in Nat /\ source <= m /\ m <= length /\ m > 0
      BY <3>1, <3>2, ChunkEnd
    <3> QED BY <3>1, <3>3 DEF length
  <2> HIDE DEF m, at
  <2>3. /\ Part(disk, at, f, source) => Part(Put(disk, at + source, chunk), at, f, m)
        /\ \A p \in Nat : p < at + source => Read(Put(disk, at + source, chunk), p) = Read(disk, p)
        /\ Len(chunk) = m - source
    <3>1. chunk = SubSeq(f, source + 1, m)
      BY <2>1
    <3>2. at \in Nat /\ f \in Seq(Cell) /\ source \in Nat /\ m \in Nat
          /\ source <= m /\ m <= Len(f)
      BY <2>a, <2>1, <2>2
    <3> HIDE DEF chunk
    <3>3. Longer(disk, at, f, source, m)
      BY <3>2, ChunkWritten
    <3> QED BY Zenon, <3>1, <3>3 DEF Longer
  <2> HIDE DEF chunk
  <2>4. source' = m
    BY <1>0, <2>2, <2>3
  <2>5. ASSUME Clean'
        PROVE  /\ Directory' /\ Mbr' /\ Boot(BOOT_LEN)' /\ Kernel(source)'
               /\ position' = BOOT_AT + BOOT_LEN + source'
    <3>1. disk' = Put(disk, Place, chunk) /\ failed' = failed /\ position' = Place + Len(chunk)
      BY <1>0, <2>5 DEF Clean
    <3>2. Directory /\ Mbr /\ Boot(BOOT_LEN) /\ Kernel(source) /\ position = at + source
      BY <1>4, <2>5, <3>1 DEF DiskInv, Clean, at
    <3>3. Place = at + source
      BY <1>4, <3>2 DEF Place
    <3>4. disk' = Put(disk, at + source, chunk) /\ position' = at + source + Len(chunk)
      BY <3>1, <3>3
    <3>5. Part(disk', at, f, m)
      BY <2>3, <3>2, <3>4 DEF Kernel, f, at
    <3>6. Kernel(source)'
      <4>1. Kernel(source)' = Part(disk', at, f, source')
        BY <2>a DEF Kernel, at
      <4> QED BY <2>4, <3>5, <4>1
    <3>7. \A p \in Nat : p < at => Read(disk', p) = Read(disk, p)
      BY <2>a, <2>2, <2>3, <3>4
    <3>8. INFO_AT < at /\ 0 < at /\ \A k \in 1 .. BOOT_LEN : BOOT_AT + k - 1 \in Nat /\ BOOT_AT + k - 1 < at
      BY <1>2 DEF at
    <3>9. Directory' /\ Mbr' /\ Boot(BOOT_LEN)'
      <4>1. \A q \in Nat : q < BOOT_AT => q < at
        BY <1>2 DEF at
      <4>2. Directory' /\ Mbr'
        BY <1>2, <3>2, <3>7, <4>1, EarlyPlaces DEF Directory, Mbr
      <4>3. Boot(BOOT_LEN)'
        BY <3>2, <3>7, <3>8 DEF Boot, Part
      <4> QED BY <4>2, <4>3
    <3>10. position' = BOOT_AT + BOOT_LEN + source'
      <4>1. position' = at + source'
        BY <2>a, <2>2, <2>3, <2>4, <3>4
      <4> QED BY <4>1 DEF at
    <3> QED BY <3>6, <3>9, <3>10
  <2>6. source' \in 0 .. Len(buildImage(modules'))
    BY <2>1, <2>a, <2>2, <2>4
  <2>7. pc' = "kernel" /\ modules' \in ModuleSets
    BY <1>0, <1>4
  <2> QED BY <2>5, <2>6, <2>7 DEF DiskInv
<1> QED BY <1>1, <1>3, <1>4

\* The end of a file: what was copied is the whole file, unless it could not be
\* read, and a write that failed before, in any step, is reported now.
LEMMA CopyEndsKeeps == DiskInv /\ CopyEnds => DiskInv'
<1> SUFFICES ASSUME DiskInv, CopyEnds PROVE DiskInv'
  OBVIOUS
<1>0. /\ pc \in {"boot", "kernel"} /\ modules' = modules /\ modules \in ModuleSets
      /\ disk' = disk /\ position' = position /\ source' = 0
      /\ \/ source = Len(Copied) /\ failed' = failed
         \/ failed' = failed \cup {"read"}
      /\ ret' = (IF "write" \in failed THEN 1 ELSE ret)
      /\ pc' = IF pc = "boot" /\ ret' = 0 THEN "kernel" ELSE "close"
  BY DEF DiskInv, CopyEnds, Steady, ferror
<1>1. Clean' => source = Len(Copied) /\ failed' = failed
  BY <1>0 DEF Clean
<1>2. BOOT_LEN \in Nat /\ BOOT_LEN > 0 /\ BOOT_AT \in Nat
      /\ Len(File("boot", BOOT_LEN)) = BOOT_LEN /\ Len(buildImage(modules)) \in Nat
  BY <1>0, LengthsAssumption, LayoutAssumption, FilesTyped
<1>3. modules' \in ModuleSets /\ buildImage(modules') = buildImage(modules)
  BY <1>0
<1>4. CASE pc' = "kernel"
  <2>1. pc = "boot"
    BY <1>0, <1>4
  <2>2. source' \in 0 .. Len(buildImage(modules'))
    BY <1>0, <1>2, <1>3
  <2>3. ASSUME Clean'
        PROVE  /\ Directory' /\ Mbr' /\ Boot(BOOT_LEN)' /\ Kernel(source)'
               /\ position' = BOOT_AT + BOOT_LEN + source'
    <3>1. failed' = failed /\ source = BOOT_LEN
      BY <1>1, <1>2, <2>1, <2>3 DEF Copied
    <3>2. Directory /\ Mbr /\ Boot(BOOT_LEN) /\ position = BOOT_AT + BOOT_LEN
      BY <1>2, <2>1, <2>3, <3>1 DEF DiskInv, Clean
    <3>3. Directory' /\ Mbr' /\ Boot(BOOT_LEN)'
      BY <1>0, <3>2 DEF Directory, Mbr, Boot, Part
    <3>4. Kernel(source)'
      <4>1. 1 .. source' = {}
        BY <1>0
      <4> QED BY <4>1 DEF Kernel, Part
    <3>5. position' = BOOT_AT + BOOT_LEN + source'
      BY <1>0, <1>2, <3>2
    <3> QED BY <3>3, <3>4, <3>5
  <2> QED BY <1>3, <1>4, <2>2, <2>3 DEF DiskInv
<1>5. CASE pc' = "close"
  <2>1. ASSUME ret' = 0
        PROVE  "write" \notin failed' /\ (Clean' => Whole')
    <3>1. pc = "kernel" /\ "write" \notin failed
      BY <1>0, <1>5, <2>1
    <3>2. "write" \notin failed'
      BY <1>0, <3>1
    <3>3. ASSUME Clean' PROVE Whole'
      <4>1. failed' = failed /\ source = Len(buildImage(modules))
        BY <1>1, <3>1, <3>3 DEF Copied
      <4>2. Whole
        BY <3>1, <3>3, <4>1 DEF DiskInv, Clean, Whole
      <4> QED BY <1>0, <4>1, <4>2, DiskSame
    <3> QED BY <3>2, <3>3
  <2> QED BY <1>3, <1>5, <2>1 DEF DiskInv
<1> QED BY <1>0, <1>4, <1>5

LEMMA StartKeeps == DiskInv /\ (format \/ WriteMbr) => DiskInv'
<1>1. ASSUME DiskInv, format PROVE DiskInv'
  <2>1. /\ pc' = "mbr" /\ position' = 0 /\ modules' = modules /\ modules \in ModuleSets
        /\ \/ disk' = Put(Put(disk, INFO_AT, <<"BMFS">>), DIR_AT, Zeros(BOOT_AT - DIR_AT))
           \/ "write" \in failed'
    BY <1>1 DEF format, Step, Steady, DiskInv
  <2>2. disk' = Put(Put(disk, INFO_AT, <<"BMFS">>), DIR_AT, Zeros(BOOT_AT - DIR_AT)) =>
          /\ Read(disk', INFO_AT) = "BMFS"
          /\ \A q \in DIR_AT .. (BOOT_AT - 1) : Read(disk', q) = Zero
    BY FormatWrites
  <2>3. Clean' => Directory'
    BY <2>1, <2>2 DEF Clean, Directory
  <2> QED BY <2>1, <2>3 DEF DiskInv
<1>2. ASSUME DiskInv, WriteMbr PROVE DiskInv'
  <2>1. /\ pc = "mbr" /\ source' = 0 /\ modules' = modules /\ modules \in ModuleSets
        /\ \/ /\ pc' = "boot" /\ disk' = Put(disk, position, File("mbr", 1)) /\ failed' = failed
           \/ pc' = "close" /\ ret' = 1
    BY <1>2 DEF WriteMbr, Written, WriteFails, Steady, DiskInv
  <2>2. CASE pc' = "boot"
    <3>1. position = 0 /\ disk' = Put(disk, position, File("mbr", 1)) /\ failed' = failed
      BY <1>2, <2>1, <2>2 DEF DiskInv
    <3>2. disk' = Put(disk, 0, File("mbr", 1))
      BY <3>1
    <3>3. /\ Read(disk', 0) = <<"mbr", 1>>
          /\ \A q \in Nat \ {0} : Read(disk', q) = Read(disk, q)
      BY <3>2, MbrWrites
    <3>4. Clean' => Directory' /\ Mbr'
      BY <1>2, <2>1, <3>1, <3>3, EarlyPlaces DEF Clean, Directory, Mbr, DiskInv
    <3>5. Boot(source)'
      <4>1. 1 .. source' = {}
        BY <2>1
      <4> QED BY <4>1 DEF Boot, Part
    <3>6. source' \in 0 .. BOOT_LEN /\ ~(source' > 0)
      BY <2>1, LengthsAssumption
    <3> QED BY <2>1, <2>2, <3>4, <3>5, <3>6 DEF DiskInv
  <2>3. CASE pc' = "close" /\ ret' = 1
    BY <2>1, <2>3 DEF DiskInv
  <2> QED BY <2>1, <2>2, <2>3
<1> QED BY <1>1, <1>2

LEMMA DiskInvInit == Init => DiskInv
BY DEF Init, DiskInv

LEMMA DiskInvNext == DiskInv /\ [Next]_vars => DiskInv'
<1> SUFFICES ASSUME DiskInv, [Next]_vars PROVE DiskInv'
  OBVIOUS
<1>1. CASE UNCHANGED vars
  <2>1. disk' = disk /\ modules' = modules /\ failed' = failed /\ pc' = pc
        /\ ret' = ret /\ position' = position /\ source' = source
    BY <1>1 DEF vars
  <2>2. /\ Clean' = Clean /\ Directory' = Directory /\ Mbr' = Mbr /\ Whole' = Whole
    BY <2>1, DiskSame
  <2>3. Boot(source)' = Boot(source) /\ Boot(BOOT_LEN)' = Boot(BOOT_LEN) /\ Kernel(source)' = Kernel(source)
    BY <2>1 DEF Boot, Kernel, Part
  <2> QED BY Zenon, <2>1, <2>2, <2>3 DEF DiskInv
<1>2. CASE Pack
  BY <1>2 DEF Pack, DiskInv
<1>3. CASE Again
  BY <1>3 DEF Again, Step, DiskInv
<1>4. ASSUME NEW size \in Sizes, NEW missing, Refuse(size, missing) PROVE DiskInv'
  <2>1. pc' = "closed" /\ ret' = 1 /\ modules' \in ModuleSets
    BY <1>4 DEF Refuse, Step, Steady, DiskInv
  <2> QED BY <2>1 DEF DiskInv
<1>5. ASSUME NEW size \in Sizes, Open(size) PROVE DiskInv'
  <2>1. pc' = "fill" /\ modules' \in ModuleSets
    BY <1>5 DEF Open, Step, Steady, DiskInv
  <2> QED BY <2>1 DEF DiskInv
<1>6. CASE Fill
  <2>1. modules' \in ModuleSets /\ (pc' = "fill" \/ (pc' = "close" /\ ret' = 1))
    BY <1>6 DEF Fill, Written, WriteFails, Steady, DiskInv
  <2> QED BY <2>1 DEF DiskInv
<1>7. CASE Close
  <2>1. /\ pc = "close" /\ pc' = "closed" /\ ret' = ret /\ modules' = modules /\ modules \in ModuleSets
        /\ (failed' = failed /\ disk' = disk) \/ failed' = failed \cup {"flush"}
    BY <1>7 DEF Close, Step, Steady, DiskInv
  <2>2. "write" \in failed' => "write" \in failed
    BY <2>1
  <2>3. Clean' => failed' = failed /\ disk' = disk
    BY <2>1 DEF Clean
  <2>4. Clean' => Clean /\ Whole' = Whole
    BY <2>1, <2>3, DiskSame
  <2> QED BY <2>1, <2>2, <2>4 DEF DiskInv
<1>8. CASE Pure64 \/ loadModules \/ loadModule \/ clearBSS
  <2>1. pc' \in {"count", "modules", "running"} /\ modules' = modules /\ modules \in ModuleSets
    BY <1>8 DEF Pure64, loadModules, loadModule, clearBSS, Step, Unchanged, DiskInv
  <2> QED BY <2>1 DEF DiskInv
<1> QED BY <1>1, <1>2, <1>3, <1>4, <1>5, <1>6, <1>7, <1>8, CopyKeeps, CopyEndsKeeps, StartKeeps DEF Next

THEOREM DiskInvariance == Spec => []DiskInv
<1>1. Init => DiskInv
  BY DiskInvInit
<1>2. DiskInv /\ [Next]_vars => DiskInv'
  BY DiskInvNext
<1> QED BY <1>1, <1>2, PTL DEF Spec

\* initialize reports success only for a disk that has its MBR, an empty
\* directory and the whole of both files, for every layout of the disk, every
\* size of the files and of the copy buffer, whichever write failed: what is
\* looked at is the disk's own error, behind the copies.  A file that cannot be
\* read to its end and a failing fclose are excluded: the code reports them as
\* a success (bmfs.c:522, 550, 575).
THEOREM SuccessWhole == Spec => []SuccessIsWhole
<1>1. DiskInv => SuccessIsWhole
  <2> SUFFICES ASSUME DiskInv, pc = "closed", ret = 0, failed \cap {"read", "flush"} = {}
               PROVE  /\ Holds(disk, 0, File("mbr", 1)) /\ Holds(disk, INFO_AT, <<"BMFS">>)
                      /\ Holds(disk, DIR_AT, Zeros(BOOT_AT - DIR_AT))
                      /\ Holds(disk, BOOT_AT, File("boot", BOOT_LEN))
                      /\ Holds(disk, BOOT_AT + BOOT_LEN, buildImage(modules))
    BY DEF SuccessIsWhole
  <2>1. Whole
    BY DEF DiskInv, Clean
  <2>2. Holds(disk, 0, File("mbr", 1))
    <3>1. \A k \in 1 .. 1 : Read(disk, 0 + k - 1) = File("mbr", 1)[k]
      <4>1. \A k \in 1 .. 1 : k = 1 /\ 0 + k - 1 = 0
        OBVIOUS
      <4> QED BY <2>1, <4>1, FilesTyped DEF Whole, Mbr
    <3> QED BY <3>1, FilesTyped DEF Holds
  <2>3. Holds(disk, INFO_AT, <<"BMFS">>)
    <3> DEFINE info == <<"BMFS">>
    <3>1. Len(info) = 1 /\ info[1] = "BMFS"
      OBVIOUS
    <3> HIDE DEF info
    <3>2. \A k \in 1 .. Len(info) : k = 1 /\ INFO_AT + k - 1 = INFO_AT
      BY <3>1, LayoutAssumption
    <3>3. Read(disk, INFO_AT) = "BMFS"
      BY <2>1 DEF Whole, Directory
    <3>4. Holds(disk, INFO_AT, info)
      BY <3>1, <3>2, <3>3 DEF Holds
    <3> QED BY <3>4 DEF info
  <2>4. Holds(disk, BOOT_AT, File("boot", BOOT_LEN))
    BY <2>1, FilesTyped DEF Whole, Boot, Part, Holds
  <2>5. Holds(disk, BOOT_AT + BOOT_LEN, buildImage(modules))
    BY <2>1 DEF Whole, Kernel, Part, Holds
  <2>6. Holds(disk, DIR_AT, Zeros(BOOT_AT - DIR_AT))
    <3> DEFINE n == BOOT_AT - DIR_AT
    <3>1. n \in Nat /\ \A k \in 1 .. n : DIR_AT + k - 1 \in DIR_AT .. (BOOT_AT - 1)
      BY LayoutAssumption
    <3> HIDE DEF n
    <3>2. Len(Zeros(n)) = n /\ \A k \in 1 .. n : Zeros(n)[k] = Zero
      <4>1. Len([k \in 1 .. n |-> Zero]) = n /\ \A k \in 1 .. n : [j \in 1 .. n |-> Zero][k] = Zero
        BY <3>1
      <4> QED BY <4>1 DEF Zeros
    <3>3. Holds(disk, DIR_AT, Zeros(n))
      BY <2>1, <3>1, <3>2 DEF Whole, Directory, Holds
    <3> QED BY <3>3 DEF n
  <2> QED BY <2>2, <2>3, <2>4, <2>5, <2>6
<1> QED BY <1>1, DiskInvariance, PTL

-----------------------------------------------------------------------------
(* The modules reach their places.                                         *)

LEMMA ReadIn ==
  ASSUME NEW cells, NEW p \in DOMAIN cells
  PROVE  Read(cells, p) = cells[p]
BY DEF Read

\* What is said of the memory depends on it, and on what was packed and failed.
LEMMA MemorySame ==
  ASSUME modules' = modules, failed' = failed
  PROVE  /\ Loaded' = Loaded
         /\ memory' = memory => /\ Ram' = Ram /\ ImageStands' = ImageStands
                                /\ \A j : Arrived(j)' = Arrived(j)
<1>1. Loaded' = Loaded
  BY DEF Loaded
<1>2. memory' = memory => Ram' = Ram /\ ImageStands' = ImageStands
  BY DEF Ram, ImageStands
<1>3. memory' = memory => \A j : Arrived(j)' = Arrived(j)
  BY DEF Arrived
<1> QED BY <1>1, <1>2, <1>3

\* The boot loader's copy holds the whole image.
LEMMA BootKeeps == DiskInv /\ Pure64 => MemoryInv'
<1> SUFFICES ASSUME DiskInv, Pure64, Loaded' PROVE MemoryInv'
  BY DEF MemoryInv
<1> DEFINE image == buildImage(modules)
           size == LOAD - BOOT_LEN
<1>1. /\ pc = "closed" /\ ret = 0 /\ pc' = "count" /\ modules' = modules /\ failed' = failed
      /\ modules \in ModuleSets /\ disk' = disk
      /\ memory' = [p \in 0 .. (MEMORY - 1) |->
                      IF p < LOAD - BOOT_LEN THEN Read(disk, BOOT_AT + BOOT_LEN + p) ELSE Zero]
  BY DEF Pure64, Step, DiskInv
<1>2. Loaded
  BY <1>1, MemorySame
<1>3. Whole
  BY <1>1, <1>2 DEF DiskInv, Clean, Loaded
<1>4. /\ LOAD \in Nat /\ MEMORY \in Nat /\ BOOT_LEN \in Nat /\ BOOT_AT \in Nat
      /\ size \in Int /\ size <= MEMORY /\ Len(image) \in Nat /\ Len(image) <= size
  BY <1>1, <1>2, LengthsAssumption, LayoutAssumption, PlacesAssumption, FilesTyped DEF Loaded
<1>5. \A k \in 1 .. Len(image) : Read(disk, (BOOT_AT + BOOT_LEN) + k - 1) = image[k]
  BY <1>3 DEF Whole, Kernel, Part
<1>6. memory' = [p \in 0 .. (MEMORY - 1) |->
                   IF p < size THEN Read(disk, BOOT_AT + BOOT_LEN + p) ELSE Zero]
  BY <1>1
<1>7. buildImage(modules') = image
  BY <1>1
<1> HIDE DEF image, size
<1>8. DOMAIN memory' = 0 .. (MEMORY - 1)
  BY <1>6
<1>9. \A k \in 1 .. Len(image) : memory'[k - 1] = image[k]
  <2> SUFFICES ASSUME NEW k \in 1 .. Len(image) PROVE memory'[k - 1] = image[k]
    OBVIOUS
  <2>1. /\ k - 1 \in 0 .. (MEMORY - 1) /\ k - 1 < size
        /\ BOOT_AT + BOOT_LEN + (k - 1) = (BOOT_AT + BOOT_LEN) + k - 1
    BY <1>4
  <2>2. memory'[k - 1] = Read(disk, BOOT_AT + BOOT_LEN + (k - 1))
    BY <1>6, <2>1
  <2> QED BY <1>5, <2>1, <2>2
<1>10. Ram' /\ ImageStands'
  BY <1>7, <1>8, <1>9 DEF Ram, ImageStands
<1> QED BY <1>1, <1>10 DEF MemoryInv

\* The number of modules is found behind the kernel.
LEMMA CountKeeps == DiskInv /\ MemoryInv /\ loadModules => MemoryInv'
<1> SUFFICES ASSUME DiskInv, MemoryInv, loadModules, Loaded' PROVE MemoryInv'
  BY DEF MemoryInv
<1> DEFINE image == buildImage(modules)
<1>1. /\ pc = "count" /\ pc' = "modules" /\ modules' = modules /\ failed' = failed
      /\ modules \in ModuleSets /\ memory' = memory
      /\ module' = [count |-> Read(memory, KERNEL_LEN), i |-> 0] /\ next' = KERNEL_LEN + 1
  BY DEF loadModules, Step, Unchanged, DiskInv
<1>2. Loaded /\ Ram /\ ImageStands
  BY <1>1, MemorySame DEF MemoryInv
<1>3. modules \in Seq(Nat) /\ Len(modules) \in Nat
  BY <1>1, TargetsAssumption
<1>4. /\ Len(image) \in Nat /\ KERNEL_LEN + 1 <= Len(image) /\ image[KERNEL_LEN + 1] = Number(Len(modules))
      /\ Len(Img(modules, 0)) = KERNEL_LEN + 1
  BY <1>3, ImageLayout
<1>5. /\ KERNEL_LEN \in Nat /\ BOOT_LEN \in Nat /\ LOAD \in Nat /\ MEMORY \in Nat
      /\ LOAD - BOOT_LEN <= MEMORY /\ BOOT_LEN + Len(image) <= LOAD
  BY <1>2, LengthsAssumption, PlacesAssumption DEF Loaded
<1>6. \A k \in 1 .. Len(image) : memory[k - 1] = image[k]
  BY <1>2 DEF ImageStands
<1> HIDE DEF image
<1>7. KERNEL_LEN \in 0 .. (MEMORY - 1) /\ KERNEL_LEN + 1 \in 1 .. Len(image) /\ (KERNEL_LEN + 1) - 1 = KERNEL_LEN
  BY <1>4, <1>5
<1>8. Read(memory, KERNEL_LEN) = Number(Len(modules))
  <2>1. memory[KERNEL_LEN] = image[KERNEL_LEN + 1]
    BY <1>6, <1>7
  <2>2. Read(memory, KERNEL_LEN) = memory[KERNEL_LEN]
    BY <1>2, <1>7, ReadIn DEF Ram
  <2> QED BY <1>4, <2>1, <2>2
<1>9. /\ module' = [count |-> Number(Len(modules')), i |-> module'.i] /\ module'.i = 0
      /\ module'.i \in 0 .. Len(modules')
  BY <1>1, <1>3, <1>8
<1>10. next' = Len(Img(modules', module'.i))
  BY <1>1, <1>4, <1>9
<1>11. Arrived(module.i)'
  <2>1. 1 .. module'.i = {}
    BY <1>9
  <2> QED BY <2>1 DEF Arrived
<1>12. Ram' /\ ImageStands'
  BY <1>1, <1>2, MemorySame
<1> QED BY <1>1, <1>9, <1>10, <1>11, <1>12 DEF MemoryInv

\* A module is taken from the image, which its place does not touch, and neither
\* does it touch the modules moved before.
LEMMA LoadKeeps == DiskInv /\ MemoryInv /\ loadModule => MemoryInv'
<1> SUFFICES ASSUME DiskInv, MemoryInv, loadModule, Loaded' PROVE MemoryInv'
  BY DEF MemoryInv
<1> DEFINE image == buildImage(modules)
           i == module.i + 1
           T == Targets[i]
           L == Len(modules)
           size == LOAD - BOOT_LEN
<1>1. PICK n \in 0 .. MEMORY :
        /\ pc = "modules" /\ pc' = "modules" /\ modules' = modules /\ failed' = failed
        /\ modules \in ModuleSets
        /\ Number(module.i) # module.count /\ module.i < Len(Targets)
        /\ Read(memory, next) = Number(n)
        /\ memory' = [p \in DOMAIN memory |-> IF p \in T .. (T + n - 1)
                                              THEN Read(memory, next + 1 + p - T) ELSE memory[p]]
        /\ next' = next + 1 + n
        /\ module' = [module EXCEPT !.i = @ + 1]
  BY DEF loadModule, Unchanged, DiskInv
<1>2. /\ Loaded /\ Ram /\ ImageStands /\ Arrived(module.i)
      /\ module = [count |-> Number(L), i |-> module.i] /\ module.i \in 0 .. L
      /\ next = Len(Img(modules, module.i))
  BY <1>1, MemorySame DEF MemoryInv
<1>3. modules \in Seq(Nat) /\ L \in Nat /\ L <= Len(Targets)
  BY <1>1, TargetsAssumption
<1>4. module.i # L /\ i \in 1 .. L /\ module.i = i - 1 /\ i \in Nat
  <2>1. module.count = Number(L)
    BY <1>2
  <2>2. module.i # L
    BY <1>1, <2>1
  <2> QED BY <1>2, <1>3, <2>2
<1>5. /\ Len(image) \in Nat /\ next \in Nat
      /\ Len(Img(modules, i)) = next + 1 + modules[i] /\ next + 1 + modules[i] <= Len(image)
      /\ image[next + 1] = Number(modules[i])
      /\ \A k \in 1 .. modules[i] : image[next + 1 + k] = <<Name(i), k>>
  <2> HIDE DEF i, image
  <2>1. next = Len(Img(modules, i - 1))
    BY <1>2, <1>4
  <2> QED BY <1>3, <1>4, <2>1, ImageLayout DEF image
<1>6. /\ BOOT_LEN \in Nat /\ LOAD \in Nat /\ MEMORY \in Nat
      /\ size \in Int /\ size <= MEMORY /\ Len(image) <= size
  BY SMTT(30), <1>2, <1>5, LengthsAssumption, PlacesAssumption DEF Loaded
<1>7. /\ T \in Nat /\ size <= T /\ T + modules[i] <= MEMORY
      /\ \A j \in 1 .. (i - 1) : Targets[j] \in Nat /\ Targets[j] + modules[j] <= T
  <2> HIDE DEF i
  <2>1. \A j \in 1 .. (i - 1) : j \in 1 .. L /\ i \in j + 1 .. L
    BY <1>3, <1>4
  <2> QED BY <1>1, <1>4, <2>1, PlacesAssumption
<1>8. \A j \in 1 .. L : modules[j] \in Nat
  BY <1>3
<1>9. \A k \in 1 .. Len(image) : memory[k - 1] = image[k]
  BY <1>2 DEF ImageStands
<1>10. DOMAIN memory = 0 .. (MEMORY - 1)
  BY <1>2 DEF Ram
<1>a. buildImage(modules') = image /\ Img(modules', i) = Img(modules, i)
  BY <1>1
<1>b. module' = [module EXCEPT !.i = i] /\ module'.i = i
      /\ module' = [count |-> Number(L), i |-> i]
  BY <1>1, <1>2
<1> HIDE DEF image, i, T, L, size
<1>11. modules[i] \in Nat
  BY <1>4, <1>8
<1>c. next + modules[i] + 1 <= MEMORY /\ next \in Nat /\ MEMORY \in Nat
  <2> DEFINE len == Len(image)
             m == modules[i]
  <2>1. len \in Nat /\ m \in Nat /\ next \in Nat /\ next + 1 + m <= len
    BY <1>5, <1>11
  <2>2. len <= size /\ size <= MEMORY /\ size \in Int /\ MEMORY \in Nat
    BY <1>6
  <2> HIDE DEF len, m
  <2>3. next + m + 1 <= MEMORY
    BY <2>1, <2>2
  <2> QED BY <2>1, <2>2, <2>3 DEF m
<1>12. n = modules[i]
  <2>1. next \in 0 .. (MEMORY - 1) /\ next + 1 \in 1 .. Len(image) /\ (next + 1) - 1 = next
    BY <1>5, <1>c, <1>11
  <2>2. memory[next] = image[next + 1]
    BY <1>9, <2>1
  <2>3. Read(memory, next) = Number(modules[i])
    BY <1>5, <1>10, <2>1, <2>2, ReadIn
  <2> QED BY <1>1, <2>3 DEF Number
<1>13. \A p \in 0 .. (MEMORY - 1) : memory'[p] = IF p \in T .. (T + n - 1)
                                                 THEN Read(memory, next + 1 + p - T) ELSE memory[p]
  BY <1>1, <1>10
<1>14. DOMAIN memory' = 0 .. (MEMORY - 1)
  BY <1>1, <1>10
<1>15. \A k \in 1 .. Len(image) : memory'[k - 1] = image[k]
  <2> SUFFICES ASSUME NEW k \in 1 .. Len(image) PROVE memory'[k - 1] = image[k]
    OBVIOUS
  <2>1. k - 1 \in 0 .. (MEMORY - 1) /\ k - 1 \notin T .. (T + n - 1)
    BY <1>5, <1>6, <1>7
  <2>2. memory'[k - 1] = memory[k - 1]
    BY <1>13, <2>1
  <2> QED BY <1>9, <2>2
<1>16. \A k \in 1 .. modules[i] : memory'[T + k - 1] = <<Name(i), k>>
  <2> SUFFICES ASSUME NEW k \in 1 .. modules[i] PROVE memory'[T + k - 1] = <<Name(i), k>>
    OBVIOUS
  <2>1. /\ T + k - 1 \in 0 .. (MEMORY - 1) /\ T + k - 1 \in T .. (T + n - 1)
        /\ next + 1 + (T + k - 1) - T = next + k
        /\ next + k \in 0 .. (MEMORY - 1) /\ next + 1 + k \in 1 .. Len(image)
        /\ (next + 1 + k) - 1 = next + k
    <3>1. T + k - 1 \in 0 .. (MEMORY - 1) /\ T + k - 1 \in T .. (T + n - 1)
      BY <1>6, <1>7, <1>11, <1>12
    <3>2. next + 1 + (T + k - 1) - T = next + k
      BY <1>7, <1>c, <1>11
    <3>3. next + k \in 0 .. (MEMORY - 1) /\ (next + 1 + k) - 1 = next + k
      BY <1>c, <1>11
    <3>4. next + 1 + k \in 1 .. Len(image)
      BY <1>5, <1>11
    <3> QED BY <3>1, <3>2, <3>3, <3>4
  <2>2. memory'[T + k - 1] = Read(memory, next + k)
    BY <1>13, <2>1
  <2>3. Read(memory, next + k) = memory[next + k]
    BY <1>10, <2>1, ReadIn
  <2>4. memory[next + k] = image[next + 1 + k]
    BY <1>9, <2>1
  <2> QED BY <1>5, <2>2, <2>3, <2>4
<1>17. \A j \in 1 .. (i - 1) : \A k \in 1 .. modules[j] : memory'[Targets[j] + k - 1] = <<Name(j), k>>
  <2> SUFFICES ASSUME NEW j \in 1 .. (i - 1), NEW k \in 1 .. modules[j]
               PROVE  memory'[Targets[j] + k - 1] = <<Name(j), k>>
    OBVIOUS
  <2>1. j \in 1 .. L /\ modules[j] \in Nat /\ Targets[j] \in Nat /\ Targets[j] + modules[j] <= T
    BY SMTT(30), <1>3, <1>4, <1>7, <1>8 DEF L
  <2>2. /\ Targets[j] + k - 1 \in 0 .. (MEMORY - 1)
        /\ Targets[j] + k - 1 \notin T .. (T + n - 1)
    BY SMTT(30), <1>6, <1>7, <1>11, <2>1
  <2>3. memory'[Targets[j] + k - 1] = memory[Targets[j] + k - 1]
    BY <1>13, <2>2
  <2>4. memory[Targets[j] + k - 1] = <<Name(j), k>>
    BY <1>2, <1>4 DEF Arrived
  <2> QED BY <2>3, <2>4
<1>18. Arrived(module.i)'
  <2>1. \A j \in 1 .. i : j \in 1 .. (i - 1) \/ j = i
    BY <1>4
  <2>2. \A j \in 1 .. i : \A k \in 1 .. modules[j] : memory'[Targets[j] + k - 1] = <<Name(j), k>>
    BY <1>16, <1>17, <2>1 DEF T
  <2> QED BY <1>1, <1>b, <2>2 DEF Arrived
<1>19. Ram' /\ ImageStands'
  BY <1>14, <1>15, <1>a DEF Ram, ImageStands
<1>20. next' = Len(Img(modules', module'.i))
  BY <1>1, <1>5, <1>12, <1>a, <1>b
<1>21. module' = [count |-> Number(Len(modules')), i |-> module'.i] /\ module'.i \in 0 .. Len(modules')
  <2>1. Len(modules') = L
    BY <1>1 DEF L
  <2>2. i \in 0 .. L
    BY <1>3, <1>4 DEF L
  <2> QED BY Zenon, <1>b, <2>1, <2>2
<1> QED BY <1>1, <1>18, <1>19, <1>20, <1>21 DEF MemoryInv

\* Only when all modules are at their places is the .bss cleared.
LEMMA ClearKeeps == DiskInv /\ MemoryInv /\ clearBSS => MemoryInv'
<1> SUFFICES ASSUME DiskInv, MemoryInv, clearBSS, Loaded' PROVE MemoryInv'
  BY DEF MemoryInv
<1>1. /\ pc = "modules" /\ pc' = "running" /\ modules' = modules /\ failed' = failed
      /\ modules \in ModuleSets /\ Number(module.i) = module.count
      /\ memory' = [p \in DOMAIN memory |-> IF p \in BSS THEN Zero ELSE memory[p]]
  BY DEF clearBSS, Step, Unchanged, DiskInv, Cleared
<1>2. /\ Loaded /\ Ram /\ Arrived(module.i) /\ module.i \in 0 .. Len(modules)
      /\ module = [count |-> Number(Len(modules)), i |-> module.i]
  BY <1>1, MemorySame DEF MemoryInv
<1>3. module.i = Len(modules)
  <2>1. module.count = Number(Len(modules))
    BY <1>2
  <2> QED BY <1>1, <2>1 DEF Number
<1>4. DOMAIN memory = 0 .. (MEMORY - 1) /\ DOMAIN memory' = 0 .. (MEMORY - 1)
  BY <1>1, <1>2 DEF Ram
<1>5. ASSUME NEW i \in 1 .. Len(modules), NEW k \in 1 .. modules[i]
      PROVE  memory'[Targets[i] + k - 1] = <<Name(i), k>>
  <2> DEFINE T == Targets[i]
             n == modules[i]
  <2>1. n \in Nat
    BY <1>1, TargetsAssumption
  <2>2. /\ T \in Nat /\ T + n <= MEMORY /\ BSS \cap (T .. (T + n - 1)) = {} /\ MEMORY \in Nat
    BY <1>1, PlacesAssumption
  <2>3. memory[T + k - 1] = <<Name(i), k>>
    BY <1>2, <1>3 DEF Arrived
  <2> HIDE DEF T, n
  <2>4. k \in 1 .. n
    BY DEF n
  <2>5. T + k - 1 \in 0 .. (MEMORY - 1) /\ T + k - 1 \in T .. (T + n - 1)
    BY <2>1, <2>2, <2>4
  <2>6. T + k - 1 \notin BSS
    BY <2>2, <2>5
  <2>7. memory'[T + k - 1] = memory[T + k - 1]
    BY <1>1, <1>4, <2>5, <2>6
  <2> QED BY <2>3, <2>7 DEF T
<1>6. Arrived(Len(modules))'
  BY <1>1, <1>5 DEF Arrived
<1>7. Ram'
  BY <1>4 DEF Ram
<1> QED BY <1>1, <1>6, <1>7 DEF MemoryInv

LEMMA MemoryInvNext == DiskInv /\ MemoryInv /\ [Next]_vars => MemoryInv'
<1> SUFFICES ASSUME DiskInv, MemoryInv, [Next]_vars PROVE MemoryInv'
  OBVIOUS
<1>1. CASE UNCHANGED vars
  <2>1. modules' = modules /\ failed' = failed /\ pc' = pc /\ memory' = memory
        /\ module' = module /\ next' = next
    BY <1>1 DEF vars
  <2>2. /\ Loaded' = Loaded /\ Ram' = Ram /\ ImageStands' = ImageStands
        /\ \A j : Arrived(j)' = Arrived(j)
    BY <2>1, MemorySame
  <2>3. Arrived(module.i)' = Arrived(module.i) /\ Arrived(Len(modules))' = Arrived(Len(modules))
    BY <2>1 DEF Arrived
  <2> QED BY Zenon, <2>1, <2>2, <2>3 DEF MemoryInv
<1>2. ASSUME pc' \notin {"count", "modules", "running"} PROVE MemoryInv'
  BY <1>2 DEF MemoryInv
<1>3. CASE \/ Pack \/ Again \/ Fill \/ format \/ WriteMbr \/ Copy \/ CopyEnds \/ Close
  <2>1. pc' \in {"pack", "initialize", "fill", "mbr", "boot", "kernel", "close", "closed"}
    BY <1>3 DEF Pack, Again, Fill, format, WriteMbr, Copy, CopyEnds, Close, Step
  <2> QED BY <1>2, <2>1
<1>4. ASSUME NEW size \in Sizes, NEW missing, Open(size) \/ Refuse(size, missing) PROVE MemoryInv'
  <2>1. pc' \in {"fill", "closed"}
    BY <1>4 DEF Open, Refuse, Step
  <2> QED BY <1>2, <2>1
<1> QED BY <1>1, <1>3, <1>4, BootKeeps, CountKeeps, LoadKeeps, ClearKeeps DEF Next

\* Every module packed stands whole at its place when userland starts, for every
\* number and length of modules that have room at their places, although the
\* kernel's .bss lies over the image they come from.
THEOREM ModulesArrive == Spec => []ModulesIntact
<1>1. Init => DiskInv /\ MemoryInv
  BY DiskInvInit DEF Init, MemoryInv
<1>2. (DiskInv /\ MemoryInv) /\ [Next]_vars => (DiskInv /\ MemoryInv)'
  BY DiskInvNext, MemoryInvNext
<1>3. DiskInv /\ MemoryInv => ModulesIntact
  <2> SUFFICES ASSUME DiskInv, MemoryInv, pc = "running", Loaded, NEW i \in 1 .. Len(modules)
               PROVE  Holds(memory, Targets[i], File(Name(i), modules[i]))
    BY DEF ModulesIntact, Loaded
  <2> DEFINE f == File(Name(i), modules[i])
             T == Targets[i]
             n == modules[i]
  <2>1. modules \in ModuleSets /\ Ram /\ Arrived(Len(modules))
    BY DEF DiskInv, MemoryInv
  <2>2. i \in Nat /\ n \in Nat
    BY <2>1, TargetsAssumption
  <2>3. Len(f) = n /\ \A k \in 1 .. n : f[k] = <<Name(i), k>>
    BY <2>2, FileCells
  <2>4. T \in Nat /\ T + n <= MEMORY /\ MEMORY \in Nat
    BY <2>1, PlacesAssumption
  <2>5. \A k \in 1 .. n : memory[T + k - 1] = <<Name(i), k>>
    BY <2>1 DEF Arrived
  <2> HIDE DEF f, T, n
  <2>6. \A k \in 1 .. n : Read(memory, T + k - 1) = f[k]
    <3> SUFFICES ASSUME NEW k \in 1 .. n PROVE Read(memory, T + k - 1) = f[k]
      OBVIOUS
    <3>1. T + k - 1 \in DOMAIN memory
      BY <2>1, <2>2, <2>4 DEF Ram
    <3> QED BY <2>3, <2>5, <3>1, ReadIn
  <2>7. Holds(memory, T, f)
    BY <2>3, <2>6 DEF Holds
  <2> QED BY <2>7 DEF T, f
<1> QED BY <1>1, <1>2, <1>3, PTL DEF Spec

-----------------------------------------------------------------------------
(* The size: what the recursions of initialize compute.                    *)

\* What holds of 0, and with a number of the next, holds of all up to n.
LEMMA Upto ==
  ASSUME NEW n \in Nat, NEW T, 0 \in T, \A i \in 1 .. n : i - 1 \in T => i \in T
  PROVE  \A i \in 0 .. n : i \in T
<1> DEFINE Bad == {i \in 0 .. n : i \notin T}
<1>1. CASE Bad = {}
  BY <1>1
<1>2. CASE Bad # {}
  <2>1. Bad \in SUBSET Nat
    OBVIOUS
  <2> HIDE DEF Bad
  <2>2. PICK m \in Bad : \A k \in Bad : m <= k
    BY <1>2, <2>1, LeastOf
  <2> USE DEF Bad
  <2>3. m \in 1 .. n /\ m \notin T
    BY <2>2
  <2>4. m - 1 \in 0 .. n /\ m - 1 \notin Bad
    BY <2>2, <2>3
  <2> QED BY <2>3, <2>4
<1> QED BY <1>1, <1>2

\* A recursion that goes up from c by a step within V has a solution.
Solves(f, V, n, c, step) ==
  f \in [0 .. n -> V] /\ f[0] = c /\ \A i \in 1 .. n : f[i] = step[<<i, f[i - 1]>>]

LEMMA Recursion ==
  ASSUME NEW V, NEW n \in Nat, NEW c \in V, NEW step \in [(1 .. n) \X V -> V]
  PROVE  \E f : Solves(f, V, n, c, step)
<1> DEFINE T == {m \in 0 .. n : \E f : Solves(f, V, m, c, step)}
<1>1. 0 \in T
  <2>1. Solves([i \in 0 .. 0 |-> c], V, 0, c, step)
    BY DEF Solves
  <2> QED BY <2>1
<1>2. ASSUME NEW m \in 1 .. n, m - 1 \in T PROVE m \in T
  <2>1. PICK f : Solves(f, V, m - 1, c, step)
    BY <1>2
  <2>2. /\ f \in [0 .. (m - 1) -> V] /\ f[0] = c
        /\ \A i \in 1 .. (m - 1) : f[i] = step[<<i, f[i - 1]>>]
    BY <2>1 DEF Solves
  <2> DEFINE g == [i \in 0 .. m |-> IF i = m THEN step[<<m, f[m - 1]>>] ELSE f[i]]
  <2>3. step[<<m, f[m - 1]>>] \in V
    BY <2>2
  <2>4. g \in [0 .. m -> V] /\ g[0] = c
    BY <2>2, <2>3
  <2>5. \A i \in 1 .. m : g[i] = step[<<i, g[i - 1]>>]
    <3> SUFFICES ASSUME NEW i \in 1 .. m PROVE g[i] = step[<<i, g[i - 1]>>]
      OBVIOUS
    <3>1. i - 1 \in 0 .. m /\ i - 1 # m /\ i \in 0 .. m
      OBVIOUS
    <3>2. g[i - 1] = f[i - 1]
      BY <3>1
    <3>3. CASE i = m
      <4>1. g[i] = step[<<m, f[m - 1]>>]
        BY <3>1, <3>3
      <4> QED BY Zenon, <3>2, <3>3, <4>1
    <3>4. CASE i # m
      <4>1. g[i] = f[i] /\ i \in 1 .. (m - 1)
        BY <3>1, <3>4
      <4>2. f[i] = step[<<i, f[i - 1]>>]
        BY <2>2, <4>1
      <4> QED BY Zenon, <3>2, <4>1, <4>2
    <3> QED BY <3>3, <3>4
  <2> HIDE DEF g
  <2>6. Solves(g, V, m, c, step)
    BY <2>4, <2>5 DEF Solves
  <2> QED BY <2>6
<1> HIDE DEF T
<1>3. \A i \in 0 .. n : i \in T
  BY <1>1, <1>2, Upto
<1>4. n \in T
  BY <1>3
<1> QED BY <1>4 DEF T

\* A number below Span is itself behind Wrap, any other is below Span.
LEMMA WrapIs ==
  ASSUME NEW n \in Nat
  PROVE  Wrap(n) \in Nat /\ (n < Span => Wrap(n) = n)
<1>1. Span \in Nat /\ Span > 0
  BY SpanAssumption
<1> QED BY <1>1 DEF Wrap

\* n times KILO, factor times: the recursion, and that it does not decrease.
TimesFcn(n, factor) ==
  CHOOSE product : product = [k \in 0 .. factor |-> IF k = 0 THEN n ELSE KILO * product[k - 1]]

LEMMA TimesIs ==
  ASSUME NEW n \in Nat, NEW factor \in Nat
  PROVE  /\ Times(n, factor) = TimesFcn(n, factor)[factor]
         /\ TimesFcn(n, factor) \in [0 .. factor -> Nat]
         /\ TimesFcn(n, factor)[0] = n
         /\ \A k \in 1 .. factor : TimesFcn(n, factor)[k] = KILO * TimesFcn(n, factor)[k - 1]
<1> DEFINE step == [p \in (1 .. factor) \X Nat |-> KILO * p[2]]
           f == TimesFcn(n, factor)
<1>1. step \in [(1 .. factor) \X Nat -> Nat]
  <2>1. \A m \in Nat : KILO * m \in Nat
    BY SizesAssumption
  <2> QED BY <2>1
<1>2. \A k \in 1 .. factor : \A m \in Nat : step[<<k, m>>] = KILO * m
  OBVIOUS
<1> HIDE DEF step
<1>3. PICK g : Solves(g, Nat, factor, n, step)
  BY <1>1, Recursion
<1>4. /\ g \in [0 .. factor -> Nat] /\ g[0] = n
      /\ \A k \in 1 .. factor : g[k] = step[<<k, g[k - 1]>>]
  BY <1>3 DEF Solves
<1>5. g = [k \in 0 .. factor |-> IF k = 0 THEN n ELSE KILO * g[k - 1]]
  <2>1. ASSUME NEW k \in 1 .. factor PROVE g[k] = KILO * g[k - 1]
    <3>1. g[k - 1] \in Nat
      BY <1>4
    <3> QED BY <1>2, <1>4, <3>1
  <2>2. \A k \in 0 .. factor : g[k] = IF k = 0 THEN n ELSE KILO * g[k - 1]
    BY <1>4, <2>1
  <2> QED BY <1>4, <2>2
<1>6. f = [k \in 0 .. factor |-> IF k = 0 THEN n ELSE KILO * f[k - 1]]
  BY Zenon, <1>5 DEF TimesFcn
<1>7. Times(n, factor) = f[factor]
  BY Zenon DEF Times, TimesFcn
<1> HIDE DEF f
<1>8. \A k \in 0 .. factor : f[k] = IF k = 0 THEN n ELSE KILO * f[k - 1]
  BY <1>6
<1>9. f[0] = n /\ \A k \in 1 .. factor : f[k] = KILO * f[k - 1]
  BY <1>8
<1>10. \A k \in 0 .. factor : f[k] \in Nat
  <2> DEFINE T == {k \in 0 .. factor : f[k] \in Nat}
  <2>1. 0 \in T
    BY <1>9
  <2>2. \A k \in 1 .. factor : k - 1 \in T => k \in T
    BY <1>9, SizesAssumption
  <2> HIDE DEF T
  <2>3. \A k \in 0 .. factor : k \in T
    BY <2>1, <2>2, Upto
  <2> QED BY <2>3 DEF T
<1>11. f \in [0 .. factor -> Nat]
  BY <1>6, <1>10
<1> QED BY <1>7, <1>9, <1>11 DEF f

LEMMA TimesGrows ==
  ASSUME NEW n \in Nat, NEW factor \in Nat
  PROVE  Times(n, factor) \in Nat /\ n <= Times(n, factor) /\ (n = 0 => Times(n, factor) = 0)
<1> DEFINE f == TimesFcn(n, factor)
           T == {k \in 0 .. factor : n <= f[k] /\ (n = 0 => f[k] = 0)}
<1>1. /\ Times(n, factor) = f[factor] /\ f \in [0 .. factor -> Nat] /\ f[0] = n
      /\ \A k \in 1 .. factor : f[k] = KILO * f[k - 1]
  BY TimesIs
<1> HIDE DEF f
<1>2. 0 \in T
  BY <1>1
<1>3. ASSUME NEW k \in 1 .. factor, k - 1 \in T PROVE k \in T
  <2>1. f[k] = KILO * f[k - 1] /\ f[k - 1] \in Nat /\ KILO \in Nat /\ KILO >= 1
    BY <1>1, SizesAssumption
  <2>2. f[k - 1] <= KILO * f[k - 1] /\ (f[k - 1] = 0 => KILO * f[k - 1] = 0)
    BY <2>1
  <2>3. n <= f[k - 1] /\ (n = 0 => f[k - 1] = 0)
    BY <1>3
  <2>4. f[k] \in Nat /\ n <= f[k] /\ (n = 0 => f[k] = 0)
    BY <1>1, <2>1, <2>2, <2>3
  <2> QED BY <2>4
<1> HIDE DEF T
<1>4. \A k \in 0 .. factor : k \in T
  BY <1>2, <1>3, Upto
<1>5. factor \in T
  BY <1>4
<1>6. n <= f[factor] /\ (n = 0 => f[factor] = 0) /\ f[factor] \in Nat
  BY <1>1, <1>5 DEF T
<1> QED BY <1>1, <1>6

\* A size being read: its number, the exponent of its unit, an error.
Reading == [n : Nat, factor : Nat, error : BOOLEAN]

\* One turn of the loop that scales; the error is never taken back.
ScaleStep(q) == IF Wrap(KILO * q.n) > q.n THEN [q EXCEPT !.n = Wrap(KILO * q.n)]
                ELSE [q EXCEPT !.error = TRUE]
ScaledFcn(p) == CHOOSE after : after = [i \in 0 .. p.factor |-> IF i = 0 THEN p ELSE ScaleStep(after[i - 1])]

LEMMA ScaleStepIs ==
  ASSUME NEW q \in Reading
  PROVE  /\ ScaleStep(q) \in Reading
         /\ ~ScaleStep(q).error => ~q.error /\ ScaleStep(q).n = Wrap(KILO * q.n)
<1>1. KILO * q.n \in Nat
  BY SizesAssumption DEF Reading
<1> DEFINE w == Wrap(KILO * q.n)
<1>2. w \in Nat
  BY <1>1, WrapIs
<1> HIDE DEF w
<1>3. ScaleStep(q) = IF w > q.n THEN [q EXCEPT !.n = w] ELSE [q EXCEPT !.error = TRUE]
  BY Zenon DEF ScaleStep, w
<1>4. CASE w > q.n
  <2>1. ScaleStep(q) = [q EXCEPT !.n = w]
    BY Zenon, <1>3, <1>4
  <2> QED BY <1>2, <2>1 DEF Reading, w
<1>5. CASE ~(w > q.n)
  <2>1. ScaleStep(q) = [q EXCEPT !.error = TRUE]
    BY Zenon, <1>3, <1>5
  <2> QED BY <2>1 DEF Reading
<1> QED BY <1>4, <1>5

LEMMA ScaledIs ==
  ASSUME NEW p \in Reading
  PROVE  /\ Scaled(p) = IF p.error \/ p.n = 0 THEN p ELSE ScaledFcn(p)[p.factor]
         /\ ScaledFcn(p) \in [0 .. p.factor -> Reading]
         /\ ScaledFcn(p)[0] = p
         /\ \A i \in 1 .. p.factor : ScaledFcn(p)[i] = ScaleStep(ScaledFcn(p)[i - 1])
<1> DEFINE step == [x \in (1 .. p.factor) \X Reading |-> ScaleStep(x[2])]
           f == ScaledFcn(p)
           F == p.factor
<1>0. F \in Nat
  BY DEF Reading
<1>1. step \in [(1 .. F) \X Reading -> Reading]
  <2>1. \A q \in Reading : ScaleStep(q) \in Reading
    BY ScaleStepIs
  <2> HIDE DEF F
  <2> QED BY <2>1 DEF F
<1>2. \A i \in 1 .. F : \A q \in Reading : step[<<i, q>>] = ScaleStep(q)
  OBVIOUS
<1> HIDE DEF step
<1>3. PICK g : Solves(g, Reading, F, p, step)
  BY <1>0, <1>1, Recursion
<1> HIDE DEF F
<1>4. /\ g \in [0 .. F -> Reading] /\ g[0] = p
      /\ \A i \in 1 .. F : g[i] = step[<<i, g[i - 1]>>]
  BY <1>3 DEF Solves
<1>5. g = [i \in 0 .. F |-> IF i = 0 THEN p ELSE ScaleStep(g[i - 1])]
  <2>1. ASSUME NEW i \in 1 .. F PROVE g[i] = ScaleStep(g[i - 1])
    <3>1. g[i - 1] \in Reading
      BY <1>0, <1>4
    <3> QED BY <1>2, <1>4, <3>1
  <2>2. \A i \in 0 .. F : g[i] = IF i = 0 THEN p ELSE ScaleStep(g[i - 1])
    BY <1>0, <1>4, <2>1
  <2> QED BY <1>4, <2>2
<1>6. f = [i \in 0 .. F |-> IF i = 0 THEN p ELSE ScaleStep(f[i - 1])]
  BY Zenon, <1>5 DEF ScaledFcn, F
<1>7. Scaled(p) = IF p.error \/ p.n = 0 THEN p ELSE f[F]
  BY Zenon DEF Scaled, ScaledFcn, ScaleStep, F
<1> HIDE DEF f
<1>8. \A i \in 0 .. F : f[i] = IF i = 0 THEN p ELSE ScaleStep(f[i - 1])
  BY <1>6
<1>9. f[0] = p /\ \A i \in 1 .. F : f[i] = ScaleStep(f[i - 1])
  BY <1>0, <1>8
<1>10. \A i \in 0 .. F : f[i] \in Reading
  <2> DEFINE T == {i \in 0 .. F : f[i] \in Reading}
  <2>1. 0 \in T
    BY <1>0, <1>9
  <2>2. \A i \in 1 .. F : i - 1 \in T => i \in T
    BY <1>0, <1>9, ScaleStepIs
  <2> HIDE DEF T
  <2>3. \A i \in 0 .. F : i \in T
    BY <1>0, <2>1, <2>2, Upto
  <2> QED BY <2>3 DEF T
<1>11. f \in [0 .. F -> Reading]
  BY <1>6, <1>10
<1> QED BY <1>7, <1>9, <1>11 DEF f, F

\* What is not refused for an overflow is scaled exactly, if the result fits.
LEMMA ScaledExact ==
  ASSUME NEW p \in Reading, Times(p.n, p.factor) < Span, ~Scaled(p).error
  PROVE  ~p.error /\ Scaled(p).n = Times(p.n, p.factor)
<1> DEFINE f == ScaledFcn(p)
           t == TimesFcn(p.n, p.factor)
           F == p.factor
           T == {i \in 0 .. F : ~f[i].error => ~p.error /\ (t[i] < Span => f[i].n = t[i])}
<1>0. F \in Nat /\ p.n \in Nat /\ Span \in Nat
  BY SpanAssumption DEF Reading
<1>1. CASE p.error \/ p.n = 0
  <2>1. Scaled(p) = p
    BY Zenon, <1>1, ScaledIs
  <2>2. ~p.error /\ p.n = 0
    BY <1>1, <2>1
  <2> QED BY <1>0, <2>1, <2>2, TimesGrows
<1>2. CASE ~(p.error \/ p.n = 0)
  <2>1. /\ Scaled(p) = f[F] /\ f \in [0 .. F -> Reading] /\ f[0] = p
        /\ \A i \in 1 .. F : f[i] = ScaleStep(f[i - 1])
    BY <1>2, ScaledIs
  <2>2. /\ Times(p.n, F) = t[F] /\ t \in [0 .. F -> Nat] /\ t[0] = p.n
        /\ \A i \in 1 .. F : t[i] = KILO * t[i - 1]
    <3> DEFINE n == p.n
    <3>1. n \in Nat /\ F \in Nat
      BY <1>0
    <3> HIDE DEF n, F
    <3>2. /\ Times(n, F) = TimesFcn(n, F)[F] /\ TimesFcn(n, F) \in [0 .. F -> Nat]
          /\ TimesFcn(n, F)[0] = n
          /\ \A i \in 1 .. F : TimesFcn(n, F)[i] = KILO * TimesFcn(n, F)[i - 1]
      BY Zenon, <3>1, TimesIs
    <3> QED BY Zenon, <3>2 DEF n, F
  <2>3. t[F] < Span /\ ~f[F].error
    BY <2>1, <2>2
  <2> HIDE DEF f, t, F
  <2>4. 0 \in T
    BY <1>0, <1>2, <2>1, <2>2
  <2>5. ASSUME NEW i \in 1 .. F, i - 1 \in T PROVE i \in T
    <3> SUFFICES ASSUME ~f[i].error PROVE ~p.error /\ (t[i] < Span => f[i].n = t[i])
      BY <1>0
    <3>1. i - 1 \in 0 .. F
      BY <1>0
    <3>2. f[i - 1] \in Reading /\ t[i - 1] \in Nat /\ KILO \in Nat /\ KILO >= 1
      BY <2>1, <2>2, <3>1, SizesAssumption
    <3>3. ~f[i - 1].error /\ f[i].n = Wrap(KILO * f[i - 1].n)
      BY <2>1, <3>2, ScaleStepIs
    <3>4. ~p.error /\ (t[i - 1] < Span => f[i - 1].n = t[i - 1])
      BY <2>5, <3>3
    <3>5. t[i] = KILO * t[i - 1] /\ t[i - 1] <= t[i] /\ t[i] \in Nat
      BY <2>2, <3>2
    <3>6. ASSUME t[i] < Span PROVE f[i].n = t[i]
      <4>1. t[i - 1] < Span
        BY <1>0, <3>2, <3>5, <3>6
      <4>2. f[i].n = Wrap(t[i])
        BY <3>3, <3>4, <3>5, <4>1
      <4> QED BY <3>5, <3>6, <4>2, WrapIs
    <3> QED BY <3>4, <3>6
  <2> HIDE DEF T
  <2>6. \A i \in 0 .. F : i \in T
    BY <1>0, <2>4, <2>5, Upto
  <2>7. F \in T
    BY <1>0, <2>6
  <2>8. ~p.error /\ f[F].n = t[F]
    BY <2>3, <2>7 DEF T
  <2> QED BY <2>1, <2>2, <2>8 DEF F
<1> QED BY <1>1, <1>2

\* One character, the i-th, read.
ReadStep(size, p, i) ==
  LET ch == size[i]
  IN  CASE p.error -> p
        [] ~p.error /\ ch \in DOMAIN DigitOf ->
             IF Wrap(10 * p.n) > p.n \/ p.n = 0
             THEN [p EXCEPT !.n = Wrap(10 * p.n + DigitOf[ch])]
             ELSE [p EXCEPT !.error = TRUE]
        [] OTHER ->
             IF i > 1 /\ i = Len(size) /\ ch \in DOMAIN UnitOf
             THEN [p EXCEPT !.factor = UnitOf[ch]]
             ELSE [p EXCEPT !.error = TRUE]
Unread == [n |-> 0, factor |-> 0, error |-> FALSE]
ParsedFcn(size) ==
  CHOOSE after : after = [i \in 0 .. Len(size) |-> IF i = 0 THEN Unread ELSE ReadStep(size, after[i - 1], i)]

IsDigit(ch) == ch \in DOMAIN DigitOf
IsUnit(ch) == ~IsDigit(ch) /\ ch \in DOMAIN UnitOf

LEMMA ReadStepIs ==
  ASSUME NEW size, NEW p \in Reading, NEW i \in Nat
  PROVE  /\ ReadStep(size, p, i) \in Reading
         /\ ~ReadStep(size, p, i).error =>
              /\ ~p.error
              /\ IsDigit(size[i]) \/ (i = Len(size) /\ IsUnit(size[i]))
              /\ IsDigit(size[i]) => /\ ReadStep(size, p, i).n = Wrap(10 * p.n + DigitOf[size[i]])
                                     /\ ReadStep(size, p, i).factor = p.factor
              /\ IsUnit(size[i]) => /\ ReadStep(size, p, i).n = p.n
                                    /\ ReadStep(size, p, i).factor = UnitOf[size[i]]
<1> DEFINE ch == size[i]
           r == ReadStep(size, p, i)
           w == Wrap(10 * p.n + DigitOf[ch])
           refused == [p EXCEPT !.error = TRUE]
<1>1. refused \in Reading /\ refused.error
  BY DEF Reading
<1>2. CASE p.error
  <2>1. r = p
    BY Zenon, <1>2 DEF ReadStep
  <2> QED BY <1>2, <2>1
<1>3. CASE ~p.error /\ IsDigit(ch)
  <2>1. r = IF Wrap(10 * p.n) > p.n \/ p.n = 0 THEN [p EXCEPT !.n = w] ELSE refused
    <3> DEFINE A == IF Wrap(10 * p.n) > p.n \/ p.n = 0 THEN [p EXCEPT !.n = w] ELSE refused
               B == IF i > 1 /\ i = Len(size) /\ ch \in DOMAIN UnitOf
                    THEN [p EXCEPT !.factor = UnitOf[ch]] ELSE refused
    <3>1. r = CASE p.error -> p [] ~p.error /\ ch \in DOMAIN DigitOf -> A [] OTHER -> B
      BY Zenon DEF ReadStep
    <3> HIDE DEF A, B, r
    <3>2. r = A
      BY <1>3, <3>1 DEF IsDigit
    <3> QED BY <3>2 DEF A, r
  <2>2. w \in Nat
    <3>1. DigitOf[ch] \in Nat
      BY <1>3, SizesAssumption DEF IsDigit
    <3>2. 10 * p.n + DigitOf[ch] \in Nat
      BY <3>1 DEF Reading
    <3> QED BY <3>2, WrapIs
  <2> HIDE DEF w, r
  <2>3. CASE Wrap(10 * p.n) > p.n \/ p.n = 0
    <3>1. r = [p EXCEPT !.n = w]
      BY Zenon, <2>1, <2>3
    <3>2. r \in Reading /\ ~r.error /\ r.n = w /\ r.factor = p.factor
      BY <1>3, <2>2, <3>1 DEF Reading
    <3> QED BY <1>3, <3>2 DEF r, w, IsUnit
  <2>4. CASE ~(Wrap(10 * p.n) > p.n \/ p.n = 0)
    <3>1. r = refused
      BY Zenon, <2>1, <2>4
    <3> QED BY <1>1, <3>1 DEF r
  <2> QED BY <2>3, <2>4
<1>4. CASE ~p.error /\ ~IsDigit(ch)
  <2>1. r = IF i > 1 /\ i = Len(size) /\ ch \in DOMAIN UnitOf
            THEN [p EXCEPT !.factor = UnitOf[ch]] ELSE refused
    <3> DEFINE A == IF Wrap(10 * p.n) > p.n \/ p.n = 0 THEN [p EXCEPT !.n = w] ELSE refused
               B == IF i > 1 /\ i = Len(size) /\ ch \in DOMAIN UnitOf
                    THEN [p EXCEPT !.factor = UnitOf[ch]] ELSE refused
    <3>1. r = CASE p.error -> p [] ~p.error /\ ch \in DOMAIN DigitOf -> A [] OTHER -> B
      BY Zenon DEF ReadStep
    <3> HIDE DEF A, B, r
    <3>2. r = B
      BY <1>4, <3>1 DEF IsDigit
    <3> QED BY <3>2 DEF B, r
  <2> HIDE DEF r
  <2>2. CASE i > 1 /\ i = Len(size) /\ ch \in DOMAIN UnitOf
    <3>1. r = [p EXCEPT !.factor = UnitOf[ch]]
      BY Zenon, <2>1, <2>2
    <3>2. UnitOf[ch] \in Nat
      BY <2>2, SizesAssumption
    <3>3. r \in Reading /\ ~r.error /\ r.n = p.n /\ r.factor = UnitOf[ch]
      BY <1>4, <3>1, <3>2 DEF Reading
    <3> QED BY <1>4, <2>2, <3>3 DEF r, IsUnit
  <2>3. CASE ~(i > 1 /\ i = Len(size) /\ ch \in DOMAIN UnitOf)
    <3>1. r = refused
      BY Zenon, <2>1, <2>3
    <3> QED BY <1>1, <3>1 DEF r
  <2> QED BY <2>2, <2>3
<1> QED BY <1>2, <1>3, <1>4

LEMMA ParsedIs ==
  ASSUME NEW size, Len(size) \in Nat
  PROVE  /\ Parsed(size) = ParsedFcn(size)[Len(size)]
         /\ ParsedFcn(size) \in [0 .. Len(size) -> Reading]
         /\ ParsedFcn(size)[0] = Unread
         /\ \A i \in 1 .. Len(size) : ParsedFcn(size)[i] = ReadStep(size, ParsedFcn(size)[i - 1], i)
<1> DEFINE step == [x \in (1 .. Len(size)) \X Reading |-> ReadStep(size, x[2], x[1])]
           f == ParsedFcn(size)
           L == Len(size)
<1>0. ASSUME NEW q \in Reading, NEW i \in 1 .. L PROVE ReadStep(size, q, i) \in Reading
  <2>1. i \in Nat
    OBVIOUS
  <2> QED BY Zenon, <2>1, ReadStepIs
<1>1. step \in [(1 .. L) \X Reading -> Reading]
  BY <1>0
<1>2. \A i \in 1 .. L : \A q \in Reading : step[<<i, q>>] = ReadStep(size, q, i)
  OBVIOUS
<1>u. Unread \in Reading
  BY DEF Unread, Reading
<1> HIDE DEF step
<1>3. PICK g : Solves(g, Reading, L, Unread, step)
  BY <1>1, <1>u, Recursion
<1>4. /\ g \in [0 .. L -> Reading] /\ g[0] = Unread
      /\ \A i \in 1 .. L : g[i] = step[<<i, g[i - 1]>>]
  BY <1>3 DEF Solves
<1>5. g = [i \in 0 .. L |-> IF i = 0 THEN Unread ELSE ReadStep(size, g[i - 1], i)]
  <2>1. ASSUME NEW i \in 1 .. L PROVE g[i] = ReadStep(size, g[i - 1], i)
    <3>1. g[i - 1] \in Reading
      BY <1>4
    <3> QED BY <1>2, <1>4, <3>1
  <2>2. \A i \in 0 .. L : g[i] = IF i = 0 THEN Unread ELSE ReadStep(size, g[i - 1], i)
    BY <1>4, <2>1
  <2> QED BY <1>4, <2>2
<1>6. f = [i \in 0 .. L |-> IF i = 0 THEN Unread ELSE ReadStep(size, f[i - 1], i)]
  BY Zenon, <1>5 DEF ParsedFcn
<1>7. Parsed(size) = f[L]
  BY Zenon DEF Parsed, ParsedFcn, ReadStep, Unread
<1> HIDE DEF f
<1>8. \A i \in 0 .. L : f[i] = IF i = 0 THEN Unread ELSE ReadStep(size, f[i - 1], i)
  BY <1>6
<1>9. f[0] = Unread /\ \A i \in 1 .. L : f[i] = ReadStep(size, f[i - 1], i)
  BY <1>8
<1>10. \A i \in 0 .. L : f[i] \in Reading
  <2> DEFINE T == {i \in 0 .. L : f[i] \in Reading}
  <2>1. 0 \in T
    BY <1>u, <1>9
  <2>2. ASSUME NEW i \in 1 .. L, i - 1 \in T PROVE i \in T
    <3>1. f[i - 1] \in Reading /\ i \in 0 .. L
      BY <2>2
    <3> QED BY <1>0, <1>9, <3>1
  <2> HIDE DEF T
  <2>3. \A i \in 0 .. L : i \in T
    BY <2>1, <2>2, Upto
  <2> QED BY <2>3 DEF T
<1>11. f \in [0 .. L -> Reading]
  BY <1>6, <1>10
<1> QED BY <1>7, <1>9, <1>11 DEF f

\* A size that is read without an error has digits only, up to a unit at its end.
WellFormed(size) ==
  \A i \in 1 .. Len(size) : IsDigit(size[i]) \/ (i = Len(size) /\ IsUnit(size[i]))

LEMMA ParsedWellFormed ==
  ASSUME NEW size, Len(size) \in Nat, ~Parsed(size).error
  PROVE  WellFormed(size) /\ \A i \in 0 .. Len(size) : ~ParsedFcn(size)[i].error
<1> DEFINE f == ParsedFcn(size)
           L == Len(size)
           Fine(k) == k \in 1 .. L => IsDigit(size[k]) \/ (k = L /\ IsUnit(size[k]))
           T == {i \in 0 .. L : ~f[i].error => \A k \in 0 .. i : ~f[k].error /\ Fine(k)}
<1>1. /\ Parsed(size) = f[L] /\ f \in [0 .. L -> Reading]
      /\ \A i \in 1 .. L : f[i] = ReadStep(size, f[i - 1], i)
  BY ParsedIs
<1>2. ASSUME NEW i \in 1 .. L, ~f[i].error PROVE ~f[i - 1].error /\ Fine(i)
  <2>1. f[i - 1] \in Reading /\ f[i] = ReadStep(size, f[i - 1], i) /\ i \in Nat
    BY <1>1
  <2> DEFINE q == f[i - 1]
  <2> HIDE DEF f, q
  <2>2. q \in Reading /\ f[i] = ReadStep(size, q, i) /\ ~ReadStep(size, q, i).error
    BY <1>2, <2>1 DEF q
  <2>3. ~q.error /\ (IsDigit(size[i]) \/ (i = Len(size) /\ IsUnit(size[i])))
    BY Zenon, <2>1, <2>2, ReadStepIs
  <2> QED BY <2>3 DEF q
<1> HIDE DEF f, Fine
<1>3. Fine(0)
  BY DEF Fine
<1>4. 0 \in T
  BY <1>3
<1>5. \A i \in 1 .. L : i - 1 \in T => i \in T
  <2> SUFFICES ASSUME NEW i \in 1 .. L, i - 1 \in T, ~f[i].error, NEW k \in 0 .. i
               PROVE  ~f[k].error /\ Fine(k)
    OBVIOUS
  <2>1. ~f[i - 1].error /\ Fine(i)
    BY <1>2
  <2>2. \A j \in 0 .. (i - 1) : ~f[j].error /\ Fine(j)
    BY <2>1
  <2>3. k = i \/ k \in 0 .. (i - 1)
    OBVIOUS
  <2> QED BY <2>1, <2>2, <2>3
<1> HIDE DEF T
<1>6. \A i \in 0 .. L : i \in T
  BY <1>4, <1>5, Upto
<1>7. \A k \in 0 .. L : ~f[k].error /\ Fine(k)
  <2>1. L \in T
    BY <1>6
  <2> QED BY <1>1, <2>1 DEF T
<1> QED BY <1>7 DEF WellFormed, Fine, f

\* What a well-formed size denotes, character by character.
ValueStep(size, v, i) ==
  IF size[i] \in DOMAIN DigitOf THEN 10 * v + DigitOf[size[i]] ELSE Times(v, UnitOf[size[i]])
ValueFcn(size) ==
  CHOOSE value : value = [i \in 0 .. Len(size) |-> IF i = 0 THEN 0 ELSE ValueStep(size, value[i - 1], i)]

LEMMA ValueStepIs ==
  ASSUME NEW size, WellFormed(size), NEW i \in 1 .. Len(size), NEW v \in Nat
  PROVE  /\ ValueStep(size, v, i) \in Nat /\ v <= ValueStep(size, v, i)
         /\ IsDigit(size[i]) => /\ DigitOf[size[i]] \in Nat
                                /\ ValueStep(size, v, i) = 10 * v + DigitOf[size[i]]
         /\ IsUnit(size[i]) => /\ UnitOf[size[i]] \in Nat
                               /\ ValueStep(size, v, i) = Times(v, UnitOf[size[i]])
<1>1. CASE IsDigit(size[i])
  <2>1. DigitOf[size[i]] \in Nat /\ ValueStep(size, v, i) = 10 * v + DigitOf[size[i]]
    BY <1>1, SizesAssumption DEF IsDigit, ValueStep
  <2> QED BY <1>1, <2>1 DEF IsUnit
<1>2. CASE IsUnit(size[i])
  <2>1. UnitOf[size[i]] \in Nat /\ ValueStep(size, v, i) = Times(v, UnitOf[size[i]])
    BY <1>2, SizesAssumption DEF IsDigit, IsUnit, ValueStep
  <2> QED BY <1>2, <2>1, TimesGrows DEF IsUnit
<1> QED BY <1>1, <1>2 DEF WellFormed

LEMMA DenotedIs ==
  ASSUME NEW size, Len(size) \in Nat, WellFormed(size)
  PROVE  /\ Denoted(size) = ValueFcn(size)[Len(size)]
         /\ ValueFcn(size) \in [0 .. Len(size) -> Nat]
         /\ ValueFcn(size)[0] = 0
         /\ \A i \in 1 .. Len(size) : ValueFcn(size)[i] = ValueStep(size, ValueFcn(size)[i - 1], i)
<1> DEFINE step == [x \in (1 .. Len(size)) \X Nat |-> ValueStep(size, x[2], x[1])]
           f == ValueFcn(size)
           L == Len(size)
<1>0. ASSUME NEW v \in Nat, NEW i \in 1 .. L PROVE ValueStep(size, v, i) \in Nat
  BY ValueStepIs
<1>1. step \in [(1 .. L) \X Nat -> Nat]
  BY <1>0
<1>2. \A i \in 1 .. L : \A v \in Nat : step[<<i, v>>] = ValueStep(size, v, i)
  OBVIOUS
<1> HIDE DEF step
<1>3. PICK g : Solves(g, Nat, L, 0, step)
  BY <1>1, Recursion
<1>4. /\ g \in [0 .. L -> Nat] /\ g[0] = 0
      /\ \A i \in 1 .. L : g[i] = step[<<i, g[i - 1]>>]
  BY <1>3 DEF Solves
<1>5. g = [i \in 0 .. L |-> IF i = 0 THEN 0 ELSE ValueStep(size, g[i - 1], i)]
  <2>1. ASSUME NEW i \in 1 .. L PROVE g[i] = ValueStep(size, g[i - 1], i)
    <3>1. g[i - 1] \in Nat
      BY <1>4
    <3> QED BY <1>2, <1>4, <3>1
  <2>2. \A i \in 0 .. L : g[i] = IF i = 0 THEN 0 ELSE ValueStep(size, g[i - 1], i)
    BY <1>4, <2>1
  <2> QED BY <1>4, <2>2
<1>6. f = [i \in 0 .. L |-> IF i = 0 THEN 0 ELSE ValueStep(size, f[i - 1], i)]
  BY Zenon, <1>5 DEF ValueFcn
<1>7. Denoted(size) = f[L]
  BY Zenon DEF Denoted, ValueFcn, ValueStep
<1> HIDE DEF f
<1>8. \A i \in 0 .. L : f[i] = IF i = 0 THEN 0 ELSE ValueStep(size, f[i - 1], i)
  BY <1>6
<1>9. f[0] = 0 /\ \A i \in 1 .. L : f[i] = ValueStep(size, f[i - 1], i)
  BY <1>8
<1>10. \A i \in 0 .. L : f[i] \in Nat
  <2> DEFINE T == {i \in 0 .. L : f[i] \in Nat}
  <2>1. 0 \in T
    BY <1>9
  <2>2. ASSUME NEW i \in 1 .. L, i - 1 \in T PROVE i \in T
    <3>1. f[i - 1] \in Nat /\ i \in 0 .. L
      BY <2>2
    <3> QED BY <1>0, <1>9, <3>1
  <2> HIDE DEF T
  <2>3. \A i \in 0 .. L : i \in T
    BY <2>1, <2>2, Upto
  <2> QED BY <2>3 DEF T
<1>11. f \in [0 .. L -> Nat]
  BY <1>6, <1>10
<1> QED BY <1>7, <1>9, <1>11 DEF f

\* As long as what is denoted fits, the test against overflow never fires and
\* the number read is what the digits read so far denote.
LEMMA ParsedExact ==
  ASSUME NEW size, Len(size) \in Nat, ~Parsed(size).error, Denoted(size) < Span
  PROVE  Parsed(size) \in Reading /\ Times(Parsed(size).n, Parsed(size).factor) = Denoted(size)
<1> DEFINE f == ParsedFcn(size)
           value == ValueFcn(size)
           L == Len(size)
           Digits(i) == \A k \in 1 .. i : IsDigit(size[k])
           T == {i \in 0 .. L : Digits(i) => /\ f[i].factor = 0
                                             /\ value[i] < Span => f[i].n = value[i]}
<1>1. /\ Parsed(size) = f[L] /\ f \in [0 .. L -> Reading] /\ f[0] = Unread
      /\ \A i \in 1 .. L : f[i] = ReadStep(size, f[i - 1], i)
  BY ParsedIs
<1>2. WellFormed(size) /\ \A i \in 0 .. L : ~f[i].error
  BY ParsedWellFormed
<1>3. /\ Denoted(size) = value[L] /\ value \in [0 .. L -> Nat] /\ value[0] = 0
      /\ \A i \in 1 .. L : value[i] = ValueStep(size, value[i - 1], i)
  BY <1>2, DenotedIs
<1>s. Span \in Nat
  BY SpanAssumption
<1>4. ASSUME NEW i \in 1 .. L
      PROVE  /\ f[i - 1] \in Reading /\ f[i] \in Reading /\ value[i - 1] \in Nat /\ value[i] \in Nat
             /\ value[i - 1] <= value[i]
             /\ IsDigit(size[i]) => /\ f[i].n = Wrap(10 * f[i - 1].n + DigitOf[size[i]])
                                    /\ f[i].factor = f[i - 1].factor
                                    /\ value[i] = 10 * value[i - 1] + DigitOf[size[i]]
             /\ IsUnit(size[i]) => /\ f[i].n = f[i - 1].n
                                   /\ f[i].factor = UnitOf[size[i]] /\ UnitOf[size[i]] \in Nat
                                   /\ value[i] = Times(value[i - 1], UnitOf[size[i]])
  <2>1. i - 1 \in 0 .. L /\ i \in 0 .. L /\ i \in Nat
    OBVIOUS
  <2> HIDE DEF f, value
  <2>2. f[i - 1] \in Reading /\ f[i] \in Reading /\ value[i - 1] \in Nat /\ value[i] \in Nat
    BY <1>1, <1>3, <2>1
  <2>3. f[i] = ReadStep(size, f[i - 1], i) /\ value[i] = ValueStep(size, value[i - 1], i)
    BY <1>1, <1>3
  <2>4. ~f[i].error
    BY <1>2, <2>1
  <2>5. /\ IsDigit(size[i]) => /\ f[i].n = Wrap(10 * f[i - 1].n + DigitOf[size[i]])
                               /\ f[i].factor = f[i - 1].factor
        /\ IsUnit(size[i]) => f[i].n = f[i - 1].n /\ f[i].factor = UnitOf[size[i]]
    <3> DEFINE q == f[i - 1]
    <3> HIDE DEF q
    <3>1. q \in Reading /\ f[i] = ReadStep(size, q, i) /\ ~ReadStep(size, q, i).error
      BY <2>2, <2>3, <2>4 DEF q
    <3>2. /\ IsDigit(size[i]) => /\ ReadStep(size, q, i).n = Wrap(10 * q.n + DigitOf[size[i]])
                                 /\ ReadStep(size, q, i).factor = q.factor
          /\ IsUnit(size[i]) => /\ ReadStep(size, q, i).n = q.n
                                /\ ReadStep(size, q, i).factor = UnitOf[size[i]]
      BY Zenon, <2>1, <3>1, ReadStepIs
    <3> QED BY Zenon, <3>1, <3>2 DEF q
  <2>6. /\ value[i - 1] <= value[i]
        /\ IsDigit(size[i]) => value[i] = 10 * value[i - 1] + DigitOf[size[i]]
        /\ IsUnit(size[i]) => /\ UnitOf[size[i]] \in Nat
                              /\ value[i] = Times(value[i - 1], UnitOf[size[i]])
    BY <1>2, <2>2, <2>3, ValueStepIs
  <2> QED BY <2>2, <2>5, <2>6
<1> HIDE DEF f, value, Digits
<1>5. 0 \in T
  BY <1>1, <1>3 DEF Unread
<1>6. ASSUME NEW i \in 1 .. L, i - 1 \in T PROVE i \in T
  <2> SUFFICES ASSUME Digits(i)
               PROVE  f[i].factor = 0 /\ (value[i] < Span => f[i].n = value[i])
    OBVIOUS
  <2>1. Digits(i - 1) /\ IsDigit(size[i])
    BY DEF Digits
  <2>2. f[i - 1].factor = 0 /\ (value[i - 1] < Span => f[i - 1].n = value[i - 1])
    BY <1>6, <2>1
  <2>3. f[i].factor = 0
    BY <1>4, <2>1, <2>2
  <2>4. ASSUME value[i] < Span PROVE f[i].n = value[i]
    <3>1. f[i - 1].n = value[i - 1]
      BY <1>s, <1>4, <2>2, <2>4
    <3>2. f[i].n = Wrap(value[i]) /\ value[i] \in Nat
      BY <1>4, <2>1, <3>1
    <3> QED BY <2>4, <3>2, WrapIs
  <2> QED BY <2>3, <2>4
<1> HIDE DEF T
<1>7. \A i \in 0 .. L : i \in T
  BY <1>5, <1>6, Upto
<1>8. f[L] \in Reading /\ value[L] < Span
  BY <1>1, <1>3
<1>9. CASE Digits(L)
  <2>1. L \in T
    BY <1>7
  <2>2. f[L].factor = 0 /\ f[L].n = value[L] /\ value[L] \in Nat
    BY <1>3, <1>8, <1>9, <2>1 DEF T
  <2>3. Times(value[L], 0) = value[L]
    <3> DEFINE v == value[L]
    <3>1. v \in Nat /\ 0 \in Nat
      BY <2>2
    <3> HIDE DEF v
    <3>2. Times(v, 0) = TimesFcn(v, 0)[0] /\ TimesFcn(v, 0)[0] = v
      BY Zenon, <3>1, TimesIs
    <3> QED BY <3>2 DEF v
  <2> QED BY <1>1, <1>3, <1>8, <2>2, <2>3
<1>10. CASE ~Digits(L)
  <2>1. L \in 1 .. L /\ L - 1 \in 0 .. L /\ IsUnit(size[L]) /\ Digits(L - 1)
    BY <1>2, <1>10 DEF Digits, WellFormed, IsUnit
  <2>2. L - 1 \in T
    BY <1>7, <2>1
  <2>3. value[L - 1] < Span
    BY <1>s, <1>4, <1>8, <2>1
  <2>4. f[L - 1].n = value[L - 1]
    BY <2>1, <2>2, <2>3 DEF T
  <2>5. /\ f[L].n = f[L - 1].n /\ f[L].factor = UnitOf[size[L]]
        /\ value[L] = Times(value[L - 1], UnitOf[size[L]])
    BY <1>4, <2>1
  <2>6. Times(f[L].n, f[L].factor) = value[L]
    BY Zenon, <2>4, <2>5
  <2> QED BY <1>1, <1>3, <1>8, <2>6
<1> QED BY <1>9, <1>10

\* While initialize fills the disk, its size is one that was parsed and scaled
\* without an error.
SizeInv ==
  pc = "fill" => /\ diskSize.asked \in Sizes /\ ~Scaled(Parsed(diskSize.asked)).error
                 /\ diskSize.n = Scaled(Parsed(diskSize.asked)).n

LEMMA SizeInvNext == SizeInv /\ [Next]_vars => SizeInv'
<1> SUFFICES ASSUME SizeInv, [Next]_vars, pc' = "fill" PROVE SizeInv'
  BY DEF SizeInv
<1>1. CASE pc = "fill" /\ diskSize' = diskSize
  <2>1. /\ diskSize.asked \in Sizes /\ ~Scaled(Parsed(diskSize.asked)).error
        /\ diskSize.n = Scaled(Parsed(diskSize.asked)).n
    BY <1>1 DEF SizeInv
  <2> QED BY Zenon, <1>1, <2>1 DEF SizeInv
<1>2. ASSUME NEW size \in Sizes, Open(size) PROVE SizeInv'
  <2>1. diskSize'.asked = size /\ diskSize'.n = Scaled(Parsed(size)).n /\ ~Scaled(Parsed(size)).error
    BY <1>2 DEF Open
  <2> QED BY Zenon, <1>2, <2>1 DEF SizeInv
<1>3. CASE UNCHANGED vars
  BY <1>1, <1>3 DEF vars
<1>4. CASE Fill
  BY <1>1, <1>4 DEF Fill
<1>5. CASE Pack \/ Again \/ format \/ WriteMbr \/ Copy \/ CopyEnds \/ Close
  <2>1. pc' # "fill"
    BY <1>5 DEF Pack, Again, format, WriteMbr, Copy, CopyEnds, Close, Step
  <2> QED BY <2>1
<1>6. CASE Pure64 \/ loadModules \/ loadModule \/ clearBSS
  <2>1. pc' # "fill"
    BY <1>6 DEF Pure64, loadModules, loadModule, clearBSS, Step
  <2> QED BY <2>1
<1>7. ASSUME NEW size \in Sizes, NEW missing, Refuse(size, missing) PROVE SizeInv'
  BY <1>7 DEF Refuse, Step
<1> QED BY <1>2, <1>3, <1>4, <1>5, <1>6, <1>7 DEF Next

\* A size that fits the 64 bits is taken for what it says, for any sizes, digits,
\* units and width: the tests against overflow fire only beyond it.
THEOREM SizesExact == Spec => []SizeExact
<1>1. Init => SizeInv
  BY DEF Init, SizeInv
<1>2. SizeInv => SizeExact
  <2> SUFFICES ASSUME SizeInv, pc = "fill", Denoted(diskSize.asked) < Span
               PROVE  diskSize.n = Denoted(diskSize.asked)
    BY DEF SizeExact
  <2> DEFINE size == diskSize.asked
             p == Parsed(size)
  <2>1. size \in Sizes /\ ~Scaled(p).error /\ diskSize.n = Scaled(p).n
    BY DEF SizeInv
  <2>2. Len(size) \in Nat
    BY <2>1, SizesAssumption
  <2>3. p \in Reading
    BY <2>2, ParsedIs
  <2>4. ~p.error
    BY <2>1, <2>3, ScaledIs
  <2>5. Times(p.n, p.factor) = Denoted(size)
    BY <2>2, <2>4, ParsedExact
  <2> HIDE DEF p
  <2>6. Scaled(p).n = Times(p.n, p.factor)
    BY <2>1, <2>3, <2>5, ScaledExact
  <2> QED BY <2>1, <2>5, <2>6
<1> QED BY <1>1, <1>2, SizeInvNext, PTL DEF Spec
=============================================================================
