------------------------------ MODULE QioProofs -----------------------------
(***************************************************************************)
(* Proofs, for any number of writers and readers and any lengths and       *)
(* limits, of the safety properties of Qio.                                *)
(***************************************************************************)
EXTENDS Qio, SequenceTheorems, WellFoundedInduction, TLAPS

----------------------------------------------------------------------------
(* Sums and remainders.  The natural numbers are well founded, which gives *)
(* induction over a set of them.                                           *)

LEMMA Induction ==
    ASSUME NEW S, 0 \in S, \A n \in Nat : n \in S => n + 1 \in S
    PROVE  \A n \in Nat : n \in S
<1> SUFFICES ASSUME Nat \ S # {} PROVE FALSE
    OBVIOUS
<1> DEFINE R == OpToRel(<, Nat)
<1>1. IsWellFoundedOn(R, Nat)
    BY NatLessThanWellFounded
<1>2. \A x, y \in Nat : x < y => <<x, y>> \in R
    BY DEF OpToRel
<1> HIDE DEF R
<1>3. Nat \ S \subseteq Nat
    OBVIOUS
<1>4. \E x \in Nat \ S : \A y \in Nat \ S : ~(<<y, x>> \in R)
    BY <1>1, <1>3, WFMin, Zenon
<1>5. PICK x \in Nat \ S : \A y \in Nat \ S : ~(y < x)
    BY <1>2, <1>4
<1>6. x - 1 \in Nat /\ x - 1 \notin Nat \ S
    BY <1>5
<1>7. QED  BY <1>6

\* A set of numbers has a least one.
LEMMA Least ==
    ASSUME NEW T \in SUBSET Nat, T # {}
    PROVE  \E x \in T : \A y \in T : x <= y
<1> DEFINE R == OpToRel(<, Nat)
<1>1. IsWellFoundedOn(R, Nat)
    BY NatLessThanWellFounded
<1>2. \A x, y \in Nat : x < y => <<x, y>> \in R
    BY DEF OpToRel
<1> HIDE DEF R
<1>3. T \subseteq Nat
    OBVIOUS
<1>4. PICK x \in T : \A y \in T : ~(<<y, x>> \in R)
    BY <1>1, <1>3, WFMin, Zenon
<1>5. \A y \in T : ~(y < x)
    BY <1>2, <1>3, <1>4
<1>6. \A y \in T : x <= y
    BY <1>3, <1>5
<1>7. QED  BY <1>6

\* The recursive function of SumTo() exists.
LEMMA PartialSums ==
    ASSUME NEW a, NEW n \in Nat
    PROVE  \E g : g = [i \in 0 .. n |-> IF i = 0 THEN 0 ELSE g[i - 1] + a[i]]
<1> DEFINE S == {m \in Nat : \E g : g = [i \in 0 .. m |-> IF i = 0 THEN 0 ELSE g[i - 1] + a[i]]}
<1>1. 0 \in S
  <2>1. PICK g : g = [i \in 0 .. 0 |-> 0]
      OBVIOUS
  <2>2. g = [i \in 0 .. 0 |-> IF i = 0 THEN 0 ELSE g[i - 1] + a[i]]
      BY <2>1
  <2>3. QED  BY <2>2
<1>2. ASSUME NEW m \in Nat, m \in S PROVE m + 1 \in S
  <2>1. PICK g : g = [i \in 0 .. m |-> IF i = 0 THEN 0 ELSE g[i - 1] + a[i]]
      BY <1>2
  <2>2. PICK h : h = [i \in 0 .. m + 1 |-> IF i = m + 1 THEN g[m] + a[m + 1] ELSE g[i]]
      OBVIOUS
  <2>3. \A i \in 0 .. m + 1 : h[i] = IF i = 0 THEN 0 ELSE h[i - 1] + a[i]
    <3>1. \A i \in 0 .. m : h[i] = g[i]
        BY <2>2
    <3>2. \A i \in 0 .. m : g[i] = IF i = 0 THEN 0 ELSE g[i - 1] + a[i]
        BY <2>1
    <3>3. h[m + 1] = h[m] + a[m + 1]
        BY <2>2, <3>1
    <3>4. \A i \in 0 .. m : h[i] = IF i = 0 THEN 0 ELSE h[i - 1] + a[i]
        BY <3>1, <3>2
    <3>5. QED  BY <3>3, <3>4
  <2>4. h = [i \in 0 .. m + 1 |-> h[i]]
      BY <2>2
  <2>5. h = [i \in 0 .. m + 1 |-> IF i = 0 THEN 0 ELSE h[i - 1] + a[i]]
      BY <2>3, <2>4
  <2>6. QED  BY <2>5
<1> HIDE DEF S
<1>3. n \in S
    BY <1>1, <1>2, Induction
<1>4. QED  BY <1>3 DEF S

LEMMA SumToDef ==
    ASSUME NEW a, Len(a) \in Nat
    PROVE  \A i \in 0 .. Len(a) : SumTo(a)[i] = IF i = 0 THEN 0 ELSE SumTo(a)[i - 1] + a[i]
<1>1. \E g : g = [i \in 0 .. Len(a) |-> IF i = 0 THEN 0 ELSE g[i - 1] + a[i]]
    BY PartialSums
<1>2. SumTo(a) = [i \in 0 .. Len(a) |-> IF i = 0 THEN 0 ELSE SumTo(a)[i - 1] + a[i]]
    BY <1>1 DEF SumTo
<1>3. QED  BY <1>2

\* What adds up like SumTo() is SumTo().
LEMMA SumIs ==
    ASSUME NEW a, Len(a) \in Nat, NEW g, g[0] = 0,
           \A i \in 1 .. Len(a) : g[i] = g[i - 1] + a[i]
    PROVE  Sum(a) = g[Len(a)] /\ \A i \in 0 .. Len(a) : SumTo(a)[i] = g[i]
<1> DEFINE s == SumTo(a)
           S == {m \in Nat : m <= Len(a) => s[m] = g[m]}
<1>1. \A i \in 0 .. Len(a) : s[i] = IF i = 0 THEN 0 ELSE s[i - 1] + a[i]
    BY SumToDef
<1> HIDE DEF s
<1>2. 0 \in S
    BY <1>1
<1>3. ASSUME NEW m \in Nat, m \in S PROVE m + 1 \in S
    BY <1>1, <1>3
<1> HIDE DEF S
<1>4. \A m \in Nat : m \in S
    BY <1>2, <1>3, Induction
<1>5. QED  BY <1>4 DEF S, s, Sum

LEMMA SumNat ==
    ASSUME NEW a \in Seq(Nat)
    PROVE  \A i \in 0 .. Len(a) : SumTo(a)[i] \in Nat
<1> DEFINE s == SumTo(a)
           S == {m \in Nat : m <= Len(a) => s[m] \in Nat}
<1>1. Len(a) \in Nat /\ \A i \in 1 .. Len(a) : a[i] \in Nat
    OBVIOUS
<1>2. \A i \in 0 .. Len(a) : s[i] = IF i = 0 THEN 0 ELSE s[i - 1] + a[i]
    BY <1>1, SumToDef
<1> HIDE DEF s
<1>3. 0 \in S
    BY <1>2
<1>4. ASSUME NEW m \in Nat, m \in S PROVE m + 1 \in S
    BY <1>1, <1>2, <1>4
<1> HIDE DEF S
<1>5. \A m \in Nat : m \in S
    BY <1>3, <1>4, Induction
<1>6. QED  BY <1>5 DEF S, s

LEMMA SumEmpty ==
    ASSUME NEW a, Len(a) = 0
    PROVE  Sum(a) = 0
BY SumToDef DEF Sum

\* The sum of a sequence in two parts.
LEMMA SumParts ==
    ASSUME NEW a \in Seq(Nat), NEW b \in Seq(Nat), NEW c \in Seq(Nat),
           Len(c) = Len(a) + Len(b), \A i \in 1 .. Len(a) : c[i] = a[i],
           \A i \in 1 .. Len(b) : c[Len(a) + i] = b[i]
    PROVE  Sum(c) = Sum(a) + Sum(b)
<1>1. PICK m, n, s, t : m = Len(a) /\ n = Len(b) /\ s = SumTo(a) /\ t = SumTo(b)
    OBVIOUS
<1>2. /\ m \in Nat /\ n \in Nat
      /\ \A i \in 0 .. m : s[i] \in Nat /\ s[i] = IF i = 0 THEN 0 ELSE s[i - 1] + a[i]
      /\ \A i \in 0 .. n : t[i] \in Nat /\ t[i] = IF i = 0 THEN 0 ELSE t[i - 1] + b[i]
  <2>1. m \in Nat /\ n \in Nat
      BY <1>1
  <2>2. \A i \in 0 .. m : s[i] = IF i = 0 THEN 0 ELSE s[i - 1] + a[i]
      BY <1>1, <2>1, SumToDef
  <2>3. \A i \in 0 .. n : t[i] = IF i = 0 THEN 0 ELSE t[i - 1] + b[i]
      BY <1>1, <2>1, SumToDef
  <2>4. (\A i \in 0 .. m : s[i] \in Nat) /\ \A i \in 0 .. n : t[i] \in Nat
      BY <1>1, SumNat
  <2>5. QED  BY <2>1, <2>2, <2>3, <2>4
<1>3. PICK g : g = [i \in 0 .. m + n |-> IF i <= m THEN s[i] ELSE s[m] + t[i - m]]
    OBVIOUS
<1>4. /\ \A i \in 0 .. m : g[i] = s[i]
      /\ \A i \in 0 .. n : g[m + i] = s[m] + t[i]
  <2>1. \A i \in 0 .. m : g[i] = s[i]
      BY <1>2, <1>3
  <2>2. ASSUME NEW i \in 0 .. n PROVE g[m + i] = s[m] + t[i]
    <3>1. CASE i = 0
      <4>1. m + i = m /\ m \in 0 .. m /\ t[0] = 0 /\ s[m] \in Nat
          BY <3>1, <1>2
      <4>2. QED  BY <3>1, <4>1, <2>1
    <3>2. CASE i # 0
      <4>1. m + i \in 0 .. m + n /\ ~(m + i <= m) /\ (m + i) - m = i
          BY <3>2, <1>2
      <4>2. QED  BY <4>1, <1>3
    <3>3. QED  BY <3>1, <3>2
  <2>3. QED  BY <2>1, <2>2
<1>5. ASSUME NEW i \in 1 .. m + n PROVE g[i] = g[i - 1] + c[i]
  <2>1. CASE i <= m
    <3>1. i \in 1 .. m /\ i \in 0 .. m /\ i - 1 \in 0 .. m /\ i # 0
        BY <2>1, <1>2
    <3>2. s[i] = s[i - 1] + a[i] /\ c[i] = a[i]
        BY <3>1, <1>1, <1>2
    <3>3. QED  BY <3>1, <3>2, <1>4
  <2>2. CASE i > m
    <3>1. PICK j \in 1 .. n : i = m + j
      <4>1. i - m \in 1 .. n /\ i = m + (i - m)
          BY <2>2, <1>2
      <4>2. QED  BY <4>1
    <3>2. j \in 0 .. n /\ j - 1 \in 0 .. n /\ i - 1 = m + (j - 1) /\ j # 0 /\ m \in 0 .. m
        BY <3>1, <1>2
    <3>3. g[i] = s[m] + t[j] /\ g[i - 1] = s[m] + t[j - 1]
        BY <3>1, <3>2, <1>4
    <3>4. t[j] = t[j - 1] + b[j] /\ c[i] = b[j] /\ b[j] \in Nat
        BY <3>1, <3>2, <1>1, <1>2
    <3>5. t[j - 1] \in Nat /\ s[m] \in Nat
        BY <3>2, <1>2
    <3>6. QED  BY <3>3, <3>4, <3>5
  <2>3. QED  BY <2>1, <2>2, <1>2
<1>6. g[0] = 0 /\ g[m + n] = s[m] + t[n] /\ Len(c) = m + n /\ m + n \in Nat
    BY <1>1, <1>2, <1>4
<1>7. Sum(c) = g[m + n]
    BY <1>5, <1>6, SumIs, ZenonT(40)
<1>8. QED  BY <1>1, <1>6, <1>7 DEF Sum

LEMMA SumOne ==
    ASSUME NEW a \in Seq(Nat), Len(a) = 1
    PROVE  Sum(a) = a[1]
<1>1. a[1] \in Nat
  <2>1. 1 \in 1 .. Len(a)
      OBVIOUS
  <2>2. QED  BY <2>1, ElementOfSeq
<1>2. PICK s : s = SumTo(a)
    OBVIOUS
<1>3. \A i \in 0 .. 1 : s[i] = IF i = 0 THEN 0 ELSE s[i - 1] + a[i]
    BY <1>2, SumToDef
<1>4. s[1] = a[1]
    BY <1>1, <1>3
<1>5. QED  BY <1>2, <1>4 DEF Sum

LEMMA SumZero ==
    ASSUME NEW a \in Seq(Nat), \A i \in 1 .. Len(a) : a[i] = 0
    PROVE  Sum(a) = 0
<1> DEFINE g == [i \in 0 .. Len(a) |-> 0]
<1>1. g[0] = 0 /\ \A i \in 1 .. Len(a) : g[i] = g[i - 1] + a[i]
    OBVIOUS
<1>2. g[Len(a)] = 0
    OBVIOUS
<1> HIDE DEF g
<1>3. QED  BY <1>1, <1>2, SumIs

LEMMA Modulus ==
    ASSUME NEW k \in Nat \ {0}, NEW x \in Int
    PROVE  x % k \in 0 .. k - 1 /\ x \div k \in Int /\ x = k * (x \div k) + (x % k)
OBVIOUS

LEMMA Small ==
    ASSUME NEW k \in Nat \ {0}, NEW m \in Int, k * m < k, -k < k * m
    PROVE  m = 0
<1>1. CASE m >= 1
    BY <1>1
<1>2. CASE m <= -1
    BY <1>2
<1>3. QED  BY <1>1, <1>2

LEMMA ModAdd ==
    ASSUME NEW k \in Nat \ {0}, NEW x \in Int, NEW y \in Int
    PROVE  ((x % k) + y) % k = (x + y) % k
<1> DEFINE d == x \div k
           u == (x % k) + y
           v == x + y
<1>1. x % k = x - k * d /\ d \in Int /\ x % k \in Int
    BY Modulus
<1>2. u \in Int /\ v \in Int /\ u = v - k * d
    BY <1>1
<1> HIDE DEF d, u, v
<1>3. PICK a \in Int, r \in 0 .. k - 1 : u = k * a + r /\ u % k = r
    BY <1>2, Modulus
<1>4. PICK b \in Int, s \in 0 .. k - 1 : v = k * b + s /\ v % k = s
    BY <1>2, Modulus
<1>5. k * (b - a - d) = r - s
  <2>1. k * (b - a - d) = k * b - k * a - k * d
      BY <1>1, <1>3, <1>4
  <2>2. k * a \in Int /\ k * b \in Int /\ k * d \in Int
      BY <1>1
  <2>3. QED  BY <2>1, <2>2, <1>2, <1>3, <1>4
<1>6. b - a - d = 0
    BY <1>1, <1>5, Small
<1>7. r = s
    BY <1>5, <1>6
<1>8. QED  BY <1>3, <1>4, <1>7 DEF u, v

----------------------------------------------------------------------------
(* Sequences of blocks.                                                    *)

Block == {b \in [alloc : Nat \ {0}, data : Seq(Int)] : Len(b.data) <= b.alloc}

\* ds is bs and then cs.
Parts(ds, bs, cs) ==
    /\ ds \in Seq(Block) /\ bs \in Seq(Block) /\ cs \in Seq(Block)
    /\ Len(ds) = Len(bs) + Len(cs)
    /\ \A i \in 1 .. Len(bs) : ds[i] = bs[i]
    /\ \A i \in 1 .. Len(cs) : ds[Len(bs) + i] = cs[i]

LEMMA PartsAppend ==
    ASSUME NEW bs \in Seq(Block), NEW b \in Block
    PROVE  Parts(Append(bs, b), bs, <<b>>)
<1>1. PICK ds : ds = Append(bs, b)
    OBVIOUS
<1>2. /\ ds \in Seq(Block) /\ Len(ds) = Len(bs) + 1 /\ ds[Len(bs) + 1] = b
      /\ \A i \in 1 .. Len(bs) : ds[i] = bs[i]
    BY <1>1
<1>3. <<b>> \in Seq(Block) /\ Len(<<b>>) = 1 /\ <<b>>[1] = b
    OBVIOUS
<1>4. QED  BY <1>1, <1>2, <1>3 DEF Parts

LEMMA PartsCons ==
    ASSUME NEW bs \in Seq(Block), NEW b \in Block
    PROVE  Parts(<<b>> \o bs, <<b>>, bs)
<1>1. PICK ds : ds = <<b>> \o bs
    OBVIOUS
<1>2. /\ ds \in Seq(Block) /\ Len(ds) = 1 + Len(bs) /\ ds[1] = b
      /\ \A i \in 1 .. Len(bs) : ds[1 + i] = bs[i]
    BY <1>1
<1>3. <<b>> \in Seq(Block) /\ Len(<<b>>) = 1 /\ <<b>>[1] = b
    OBVIOUS
<1>4. QED  BY <1>1, <1>2, <1>3 DEF Parts

LEMMA PartsTail ==
    ASSUME NEW bs \in Seq(Block), bs # << >>
    PROVE  Parts(bs, <<Head(bs)>>, Tail(bs)) /\ Head(bs) \in Block
<1>1. PICK b, cs : b = Head(bs) /\ cs = Tail(bs)
    OBVIOUS
<1>2. /\ cs \in Seq(Block) /\ Len(bs) = 1 + Len(cs) /\ bs[1] = b /\ b \in Block
      /\ \A i \in 1 .. Len(cs) : bs[1 + i] = cs[i]
    BY <1>1
<1>3. <<b>> \in Seq(Block) /\ Len(<<b>>) = 1 /\ <<b>>[1] = b
    BY <1>2
<1>4. QED  BY <1>1, <1>2, <1>3 DEF Parts

LEMMA PartsSub ==
    ASSUME NEW bs \in Seq(Block), NEW k \in 0 .. Len(bs)
    PROVE  Parts(bs, SubSeq(bs, 1, k), SubSeq(bs, k + 1, Len(bs)))
<1>1. PICK cs, ds : cs = SubSeq(bs, 1, k) /\ ds = SubSeq(bs, k + 1, Len(bs))
    OBVIOUS
<1>2. cs \in Seq(Block) /\ Len(cs) = k /\ \A i \in 1 .. k : bs[i] = cs[i]
    BY <1>1
<1>3. ds \in Seq(Block) /\ Len(ds) = Len(bs) - k
      /\ \A i \in 1 .. Len(bs) - k : bs[k + i] = ds[i]
    BY <1>1
<1>4. Len(bs) \in Nat /\ Len(bs) = k + (Len(bs) - k)
    OBVIOUS
<1>5. QED  BY <1>1, <1>2, <1>3, <1>4 DEF Parts

LEMMA PartsConcat ==
    ASSUME NEW bs \in Seq(Block), NEW cs \in Seq(Block)
    PROVE  Parts(bs \o cs, bs, cs)
BY DEF Parts

LEMMA Numbers ==
    ASSUME NEW bs \in Seq(Block)
    PROVE  /\ Allocs(bs) \in Seq(Nat) /\ Len(Allocs(bs)) = Len(bs)
           /\ Lens(bs) \in Seq(Nat) /\ Len(Lens(bs)) = Len(bs)
           /\ \A i \in 1 .. Len(bs) : /\ bs[i] \in Block
                                      /\ Allocs(bs)[i] = bs[i].alloc
                                      /\ Lens(bs)[i] = BLEN(bs[i]) /\ BLEN(bs[i]) \in Nat
<1>1. PICK n, a, l : n = Len(bs) /\ a = Allocs(bs) /\ l = Lens(bs)
    OBVIOUS
<1>2. n \in Nat /\ DOMAIN bs = 1 .. n /\ \A i \in 1 .. n : bs[i] \in Block
    BY <1>1
<1>3. \A i \in 1 .. n : bs[i].alloc \in Nat /\ BLEN(bs[i]) \in Nat
    BY <1>2 DEF Block, BLEN
<1>4. a = [i \in 1 .. n |-> bs[i].alloc] /\ l = [i \in 1 .. n |-> BLEN(bs[i])]
    BY <1>1, <1>2 DEF Allocs, Lens
<1>5. a \in [1 .. n -> Nat] /\ l \in [1 .. n -> Nat]
    BY <1>3, <1>4
<1>6. a \in Seq(Nat) /\ Len(a) = n /\ l \in Seq(Nat) /\ Len(l) = n
    BY <1>2, <1>5
<1>7. \A i \in 1 .. n : a[i] = bs[i].alloc /\ l[i] = BLEN(bs[i])
    BY <1>4
<1>8. QED  BY <1>1, <1>2, <1>3, <1>6, <1>7

LEMMA SumBlocks ==
    ASSUME NEW bs, NEW cs, NEW ds, Parts(ds, bs, cs)
    PROVE  /\ Sum(Allocs(ds)) = Sum(Allocs(bs)) + Sum(Allocs(cs))
           /\ Sum(Lens(ds)) = Sum(Lens(bs)) + Sum(Lens(cs))
           /\ Sum(Allocs(bs)) \in Nat /\ Sum(Allocs(cs)) \in Nat
           /\ Sum(Lens(bs)) \in Nat /\ Sum(Lens(cs)) \in Nat
<1>1. /\ ds \in Seq(Block) /\ bs \in Seq(Block) /\ cs \in Seq(Block)
      /\ Len(ds) = Len(bs) + Len(cs) /\ Len(bs) \in Nat /\ Len(cs) \in Nat
      /\ \A i \in 1 .. Len(bs) : ds[i] = bs[i]
      /\ \A i \in 1 .. Len(cs) : ds[Len(bs) + i] = cs[i]
    BY DEF Parts
<1>2. /\ \A i \in 1 .. Len(bs) : i \in 1 .. Len(ds)
      /\ \A i \in 1 .. Len(cs) : Len(bs) + i \in 1 .. Len(ds)
    BY <1>1
<1>3. PICK a, b, c : a = Allocs(bs) /\ b = Allocs(cs) /\ c = Allocs(ds)
    OBVIOUS
<1>4. /\ a \in Seq(Nat) /\ b \in Seq(Nat) /\ c \in Seq(Nat)
      /\ Len(c) = Len(a) + Len(b) /\ Len(a) = Len(bs) /\ Len(b) = Len(cs)
      /\ \A i \in 1 .. Len(a) : c[i] = a[i]
      /\ \A i \in 1 .. Len(b) : c[Len(a) + i] = b[i]
  <2>1. /\ a \in Seq(Nat) /\ Len(a) = Len(bs) /\ \A i \in 1 .. Len(bs) : a[i] = bs[i].alloc
      BY <1>3, <1>1, Numbers
  <2>2. /\ b \in Seq(Nat) /\ Len(b) = Len(cs) /\ \A i \in 1 .. Len(cs) : b[i] = cs[i].alloc
      BY <1>3, <1>1, Numbers
  <2>3. /\ c \in Seq(Nat) /\ Len(c) = Len(ds) /\ \A i \in 1 .. Len(ds) : c[i] = ds[i].alloc
      BY <1>3, <1>1, Numbers
  <2>4. ASSUME NEW i \in 1 .. Len(bs) PROVE c[i] = a[i]
      BY <2>1, <2>3, <1>1, <1>2
  <2>5. ASSUME NEW i \in 1 .. Len(cs) PROVE c[Len(bs) + i] = b[i]
    <3>1. c[Len(bs) + i] = ds[Len(bs) + i].alloc
        BY <2>3, <1>2
    <3>2. QED  BY <3>1, <2>2, <1>1
  <2>6. QED  BY <2>1, <2>2, <2>3, <2>4, <2>5, <1>1
<1>5. Sum(c) = Sum(a) + Sum(b)
    BY <1>4, SumParts
<1>6. PICK l, m, n : l = Lens(bs) /\ m = Lens(cs) /\ n = Lens(ds)
    OBVIOUS
<1>7. /\ l \in Seq(Nat) /\ m \in Seq(Nat) /\ n \in Seq(Nat)
      /\ Len(n) = Len(l) + Len(m) /\ Len(l) = Len(bs) /\ Len(m) = Len(cs)
      /\ \A i \in 1 .. Len(l) : n[i] = l[i]
      /\ \A i \in 1 .. Len(m) : n[Len(l) + i] = m[i]
  <2>1. /\ l \in Seq(Nat) /\ Len(l) = Len(bs) /\ \A i \in 1 .. Len(bs) : l[i] = BLEN(bs[i])
      BY <1>6, <1>1, Numbers
  <2>2. /\ m \in Seq(Nat) /\ Len(m) = Len(cs) /\ \A i \in 1 .. Len(cs) : m[i] = BLEN(cs[i])
      BY <1>6, <1>1, Numbers
  <2>3. /\ n \in Seq(Nat) /\ Len(n) = Len(ds) /\ \A i \in 1 .. Len(ds) : n[i] = BLEN(ds[i])
      BY <1>6, <1>1, Numbers
  <2>4. ASSUME NEW i \in 1 .. Len(bs) PROVE n[i] = l[i]
      BY <2>1, <2>3, <1>1, <1>2
  <2>5. ASSUME NEW i \in 1 .. Len(cs) PROVE n[Len(bs) + i] = m[i]
    <3>1. n[Len(bs) + i] = BLEN(ds[Len(bs) + i])
        BY <2>3, <1>2
    <3>2. QED  BY <3>1, <2>2, <1>1
  <2>6. QED  BY <2>1, <2>2, <2>3, <2>4, <2>5, <1>1
<1>8. Sum(n) = Sum(l) + Sum(m)
    BY <1>7, SumParts
<1>9. ASSUME NEW u \in Seq(Nat) PROVE Sum(u) \in Nat
  <2>1. Len(u) \in 0 .. Len(u)
      OBVIOUS
  <2>2. QED  BY <2>1, SumNat DEF Sum
<1>10. QED  BY <1>3, <1>4, <1>5, <1>6, <1>7, <1>8, <1>9

LEMMA SumBlock ==
    ASSUME NEW b \in Block
    PROVE  /\ Sum(Allocs(<<b>>)) = b.alloc /\ Sum(Lens(<<b>>)) = BLEN(b)
           /\ b.alloc \in Nat \ {0} /\ BLEN(b) \in Nat
<1>1. PICK bs : bs = <<b>>
    OBVIOUS
<1>2. bs \in Seq(Block) /\ Len(bs) = 1 /\ bs[1] = b /\ 1 \in 1 .. Len(bs)
    BY <1>1
<1>3. /\ Allocs(bs) \in Seq(Nat) /\ Len(Allocs(bs)) = 1 /\ Allocs(bs)[1] = b.alloc
      /\ Lens(bs) \in Seq(Nat) /\ Len(Lens(bs)) = 1 /\ Lens(bs)[1] = BLEN(b)
    BY <1>2, Numbers
<1>4. QED  BY <1>1, <1>3, SumOne DEF Block, BLEN

LEMMA SumNone ==
    /\ Sum(Allocs(<< >>)) = 0 /\ Sum(Lens(<< >>)) = 0
<1>1. Len(Allocs(<< >>)) = 0 /\ Len(Lens(<< >>)) = 0
    BY DEF Allocs, Lens
<1>2. QED  BY <1>1, SumEmpty

----------------------------------------------------------------------------
(* The numbers of the bytes.  Where block i begins is g[i - 1], and the    *)
(* byte after the last one is g[Len(bs)].                                  *)

Placed(bs, g) ==
    \A i \in 1 .. Len(bs) :
        /\ g[i - 1] \in Int /\ g[i] = g[i - 1] + BLEN(bs[i])
        /\ \A j \in 1 .. BLEN(bs[i]) : bs[i].data[j] = (g[i - 1] + j - 1) % K

\* The blocks hold the bytes from x up to, and without, y.
Span(bs, x, y) == \E g : Placed(bs, g) /\ g[0] = x /\ g[Len(bs)] = y

LEMMA SpanNone ==
    ASSUME NEW x
    PROVE  Span(<< >>, x, x)
<1>1. PICK g : g = [i \in {0} |-> x]
    OBVIOUS
<1>2. Len(<< >>) = 0 /\ 1 .. 0 = {}
    OBVIOUS
<1>3. Placed(<< >>, g) /\ g[0] = x
    BY <1>1, <1>2 DEF Placed
<1>4. QED  BY <1>2, <1>3 DEF Span

LEMMA SpanEmpty ==
    ASSUME NEW x, NEW y, Span(<< >>, x, y)
    PROVE  x = y
<1>1. Len(<< >>) = 0
    OBVIOUS
<1>2. QED  BY <1>1 DEF Span

LEMMA SpanOne ==
    ASSUME NEW b \in Block, NEW x \in Int, NEW y
    PROVE  Span(<<b>>, x, y) <=>
             /\ y = x + BLEN(b)
             /\ \A j \in 1 .. BLEN(b) : b.data[j] = (x + j - 1) % K
<1>1. PICK bs : bs = <<b>>
    OBVIOUS
<1>2. Len(bs) = 1 /\ bs[1] = b
    BY <1>1
<1>3. ASSUME Span(bs, x, y)
      PROVE  y = x + BLEN(b) /\ \A j \in 1 .. BLEN(b) : b.data[j] = (x + j - 1) % K
  <2>1. PICK g : Placed(bs, g) /\ g[0] = x /\ g[Len(bs)] = y
      BY <1>3 DEF Span
  <2>2. /\ g[1] = g[1 - 1] + BLEN(b)
        /\ \A j \in 1 .. BLEN(b) : b.data[j] = (g[1 - 1] + j - 1) % K
      BY <2>1, <1>2 DEF Placed
  <2>3. QED  BY <2>1, <2>2, <1>2
<1>4. ASSUME y = x + BLEN(b), \A j \in 1 .. BLEN(b) : b.data[j] = (x + j - 1) % K
      PROVE  Span(bs, x, y)
  <2>1. PICK g : g = [i \in 0 .. 1 |-> IF i = 0 THEN x ELSE y]
      OBVIOUS
  <2>2. g[0] = x /\ g[1] = y
      BY <2>1
  <2>3. Placed(bs, g)
    <3>1. ASSUME NEW i \in 1 .. 1
          PROVE  /\ g[i - 1] \in Int /\ g[i] = g[i - 1] + BLEN(bs[i])
                 /\ \A j \in 1 .. BLEN(bs[i]) : bs[i].data[j] = (g[i - 1] + j - 1) % K
      <4>1. i = 1 /\ i - 1 = 0
          OBVIOUS
      <4>2. QED  BY <4>1, <2>2, <1>2, <1>4
    <3>2. QED  BY <3>1, <1>2 DEF Placed
  <2>4. QED  BY <2>2, <2>3, <1>2 DEF Span
<1>5. QED  BY <1>1, <1>3, <1>4

LEMMA SpanJoin ==
    ASSUME NEW bs, NEW cs, NEW ds, Parts(ds, bs, cs), NEW x, NEW y, NEW z,
           Span(bs, x, y), Span(cs, y, z)
    PROVE  Span(ds, x, z)
<1>1. PICK m, n : m = Len(bs) /\ n = Len(cs)
    OBVIOUS
<1>2. /\ m \in Nat /\ n \in Nat /\ Len(ds) = m + n /\ \A i \in 1 .. m : ds[i] = bs[i]
      /\ \A i \in 1 .. n : ds[m + i] = cs[i]
    BY <1>1 DEF Parts
<1>3. PICK h : Placed(bs, h) /\ h[0] = x /\ h[m] = y
    BY <1>1 DEF Span
<1>4. PICK g : Placed(cs, g) /\ g[0] = y /\ g[n] = z
    BY <1>1 DEF Span
<1>5. PICK f : f = [i \in 0 .. m + n |-> IF i <= m THEN h[i] ELSE g[i - m]]
    OBVIOUS
<1>6. (\A i \in 0 .. m : f[i] = h[i]) /\ \A i \in 0 .. n : f[m + i] = g[i]
  <2>1. \A i \in 0 .. m : f[i] = h[i]
      BY <1>2, <1>5
  <2>2. ASSUME NEW i \in 0 .. n PROVE f[m + i] = g[i]
    <3>1. CASE i = 0
      <4>1. m + i = m /\ m \in 0 .. m
          BY <3>1, <1>2
      <4>2. QED  BY <3>1, <4>1, <2>1, <1>3, <1>4
    <3>2. CASE i # 0
      <4>1. m + i \in 0 .. m + n /\ ~(m + i <= m) /\ (m + i) - m = i
          BY <3>2, <1>2
      <4>2. QED  BY <4>1, <1>5
    <3>3. QED  BY <3>1, <3>2
  <2>3. QED  BY <2>1, <2>2
<1>7. ASSUME NEW i \in 1 .. m + n
      PROVE  /\ f[i - 1] \in Int /\ f[i] = f[i - 1] + BLEN(ds[i])
             /\ \A j \in 1 .. BLEN(ds[i]) : ds[i].data[j] = (f[i - 1] + j - 1) % K
  <2>1. CASE i <= m
    <3>1. i \in 1 .. m /\ i \in 0 .. m /\ i - 1 \in 0 .. m
        BY <2>1, <1>2
    <3>2. /\ h[i - 1] \in Int /\ h[i] = h[i - 1] + BLEN(bs[i])
          /\ \A j \in 1 .. BLEN(bs[i]) : bs[i].data[j] = (h[i - 1] + j - 1) % K
        BY <3>1, <1>1, <1>3 DEF Placed
    <3>3. f[i] = h[i] /\ f[i - 1] = h[i - 1] /\ ds[i] = bs[i]
        BY <3>1, <1>2, <1>6
    <3>4. QED  BY <3>2, <3>3
  <2>2. CASE i > m
    <3>1. PICK k \in 1 .. n : i = m + k
      <4>1. i - m \in 1 .. n /\ i = m + (i - m)
          BY <2>2, <1>2
      <4>2. QED  BY <4>1
    <3>2. k \in 0 .. n /\ k - 1 \in 0 .. n /\ i - 1 = m + (k - 1)
        BY <3>1, <1>2
    <3>3. /\ g[k - 1] \in Int /\ g[k] = g[k - 1] + BLEN(cs[k])
          /\ \A j \in 1 .. BLEN(cs[k]) : cs[k].data[j] = (g[k - 1] + j - 1) % K
        BY <3>1, <1>1, <1>4 DEF Placed
    <3>4. f[i] = g[k] /\ f[i - 1] = g[k - 1] /\ ds[i] = cs[k]
        BY <3>1, <3>2, <1>2, <1>6
    <3>5. QED  BY <3>3, <3>4
  <2>3. QED  BY <2>1, <2>2, <1>2
<1>8. Placed(ds, f)
    BY <1>2, <1>7 DEF Placed
<1>9. f[0] = x /\ f[m + n] = z
    BY <1>2, <1>3, <1>4, <1>6
<1>10. QED  BY <1>2, <1>8, <1>9 DEF Span

LEMMA SpanSplit ==
    ASSUME NEW bs, NEW cs, NEW ds, Parts(ds, bs, cs), NEW x \in Int, NEW z \in Int, Span(ds, x, z)
    PROVE  \E y \in Int : Span(bs, x, y) /\ Span(cs, y, z)
<1>1. PICK m, n : m = Len(bs) /\ n = Len(cs)
    OBVIOUS
<1>2. /\ m \in Nat /\ n \in Nat /\ Len(ds) = m + n /\ \A i \in 1 .. m : ds[i] = bs[i]
      /\ \A i \in 1 .. n : ds[m + i] = cs[i]
    BY <1>1 DEF Parts
<1>3. PICK f : Placed(ds, f) /\ f[0] = x /\ f[m + n] = z
    BY <1>2 DEF Span
<1>4. ASSUME NEW i \in 1 .. m + n
      PROVE  /\ f[i - 1] \in Int /\ f[i] = f[i - 1] + BLEN(ds[i])
             /\ \A j \in 1 .. BLEN(ds[i]) : ds[i].data[j] = (f[i - 1] + j - 1) % K
    BY <1>2, <1>3 DEF Placed
<1>5. f[m] \in Int
  <2>1. CASE n = 0
      BY <2>1, <1>2, <1>3
  <2>2. CASE n # 0
    <3>1. m + 1 \in 1 .. m + n /\ (m + 1) - 1 = m
        BY <2>2, <1>2
    <3>2. f[(m + 1) - 1] \in Int
        BY <3>1, <1>4
    <3>3. QED  BY <3>1, <3>2
  <2>3. QED  BY <2>1, <2>2
<1>6. Span(bs, x, f[m])
  <2>1. ASSUME NEW i \in 1 .. m
        PROVE  /\ f[i - 1] \in Int /\ f[i] = f[i - 1] + BLEN(bs[i])
               /\ \A j \in 1 .. BLEN(bs[i]) : bs[i].data[j] = (f[i - 1] + j - 1) % K
    <3>1. i \in 1 .. m + n /\ ds[i] = bs[i]
        BY <1>2
    <3>2. QED  BY <3>1, <1>4
  <2>2. Placed(bs, f)
      BY <2>1, <1>1 DEF Placed
  <2>3. QED  BY <2>2, <1>1, <1>3 DEF Span
<1>7. Span(cs, f[m], z)
  <2>1. PICK g : g = [i \in 0 .. n |-> f[m + i]]
      OBVIOUS
  <2>2. \A i \in 0 .. n : g[i] = f[m + i]
      BY <2>1
  <2>3. ASSUME NEW i \in 1 .. n
        PROVE  /\ g[i - 1] \in Int /\ g[i] = g[i - 1] + BLEN(cs[i])
               /\ \A j \in 1 .. BLEN(cs[i]) : cs[i].data[j] = (g[i - 1] + j - 1) % K
    <3>1. m + i \in 1 .. m + n /\ (m + i) - 1 = m + (i - 1) /\ i \in 0 .. n /\ i - 1 \in 0 .. n
        BY <1>2
    <3>2. ds[m + i] = cs[i] /\ g[i] = f[m + i] /\ g[i - 1] = f[m + (i - 1)]
        BY <3>1, <2>2, <1>2
    <3>3. /\ f[(m + i) - 1] \in Int /\ f[m + i] = f[(m + i) - 1] + BLEN(ds[m + i])
          /\ \A j \in 1 .. BLEN(ds[m + i]) : ds[m + i].data[j] = (f[(m + i) - 1] + j - 1) % K
        BY <3>1, <1>4
    <3>4. QED  BY <3>1, <3>2, <3>3
  <2>4. Placed(cs, g)
      BY <2>3, <1>1 DEF Placed
  <2>5. g[0] = f[m] /\ g[n] = z
      BY <2>2, <1>2, <1>3
  <2>6. QED  BY <2>4, <2>5, <1>1 DEF Span
<1>8. QED  BY <1>5, <1>6, <1>7

\* The first n bytes of a block are taken.
Cut(b, n, c) ==
    /\ b \in Block /\ c \in Block /\ n \in 0 .. BLEN(b)
    /\ c.data = SubSeq(b.data, n + 1, BLEN(b))

\* The block that is left, in space a.
LEMMA CutBlock ==
    ASSUME NEW b \in Block, NEW n \in 0 .. BLEN(b), NEW a \in Nat \ {0}, BLEN(b) - n <= a,
           NEW c, c = [alloc |-> a, data |-> SubSeq(b.data, n + 1, BLEN(b))]
    PROVE  Cut(b, n, c) /\ BLEN(c) = BLEN(b) - n
<1>1. PICK s, m : s = b.data /\ m = BLEN(b)
    OBVIOUS
<1>2. s \in Seq(Int) /\ m = Len(s) /\ m \in Nat /\ n \in 0 .. m
    BY <1>1 DEF Block, BLEN
<1>3. PICK d : d = SubSeq(s, n + 1, m)
    OBVIOUS
<1>4. d \in Seq(Int) /\ Len(d) = m - n
    BY <1>2, <1>3
<1>5. c = [alloc |-> a, data |-> d] /\ m - n <= a
    BY <1>1, <1>3
<1>6. c \in Block /\ BLEN(c) = m - n /\ c.data = d
    BY <1>4, <1>5, SMTT(40) DEF Block, BLEN
<1>7. QED  BY <1>1, <1>2, <1>3, <1>6 DEF Cut

LEMMA SpanCut ==
    ASSUME NEW b, NEW n, NEW c, Cut(b, n, c), NEW x \in Int, NEW y, Span(<<b>>, x, y)
    PROVE  Span(<<c>>, x + n, y) /\ BLEN(c) = BLEN(b) - n
<1>0. /\ b \in Block /\ c \in Block /\ n \in 0 .. BLEN(b)
      /\ c.data = SubSeq(b.data, n + 1, BLEN(b))
    BY DEF Cut
<1>1. b.data \in Seq(Int) /\ BLEN(b) = Len(b.data) /\ BLEN(b) \in Nat
    BY <1>0 DEF Block, BLEN
<1>2. BLEN(c) = BLEN(b) - n /\ \A j \in 1 .. BLEN(b) - n : c.data[j] = b.data[n + j]
  <2>1. PICK s, m : s = b.data /\ m = BLEN(b)
      OBVIOUS
  <2>2. s \in Seq(Int) /\ Len(s) = m /\ m \in Nat /\ n \in 0 .. m /\ c.data = SubSeq(s, n + 1, m)
      BY <2>1, <1>1, <1>0
  <2>3. Len(SubSeq(s, n + 1, m)) = m - n
        /\ \A j \in 1 .. m - n : SubSeq(s, n + 1, m)[j] = s[n + j]
    <3>1. s \in Seq(Int) /\ Len(s) = m /\ m \in Nat /\ n \in 0 .. m
        BY <2>2
    <3>2. QED  BY <3>1, SMTT(40)
  <2>4. QED  BY <2>1, <2>2, <2>3 DEF BLEN
<1>3. y = x + BLEN(b) /\ \A j \in 1 .. BLEN(b) : b.data[j] = (x + j - 1) % K
    BY <1>0, SpanOne
<1>4. y = (x + n) + BLEN(c)
    BY <1>0, <1>1, <1>2, <1>3
<1>5. ASSUME NEW j \in 1 .. BLEN(c) PROVE c.data[j] = ((x + n) + j - 1) % K
  <2>1. n + j \in 1 .. BLEN(b) /\ (x + n) + j - 1 = x + (n + j) - 1
      BY <1>0, <1>1, <1>2
  <2>2. b.data[n + j] = (x + (n + j) - 1) % K
      BY <2>1, <1>3
  <2>3. c.data[j] = b.data[n + j]
      BY <1>2
  <2>4. QED  BY <2>1, <2>2, <2>3
<1>6. x + n \in Int
    BY <1>0, <1>1
<1>7. QED  BY <1>0, <1>2, <1>4, <1>5, <1>6, SpanOne

----------------------------------------------------------------------------
(* Operations on a queue.                                                  *)

Queue == [blocks : Seq(Block), len : Int, dlen : Int, limit : Nat \ {0, 1},
          starve : BOOLEAN, flow : BOOLEAN, closed : BOOLEAN, noblock : BOOLEAN,
          rlock : Readers \union {Nil}, wlock : Writers \union {Nil}]

Counted(x) == x.len = Sum(Allocs(x.blocks)) /\ x.dlen = Sum(Lens(x.blocks))

\* A queue that counts its blocks, which hold the bytes from m up to n.
Holds(x, m, n) == x \in Queue /\ Counted(x) /\ m \in Int /\ n \in Int /\ Span(x.blocks, m, n)

\* y differs from x in the blocks and the counts only.
Same(x, y) ==
    /\ y.limit = x.limit /\ y.starve = x.starve /\ y.flow = x.flow /\ y.closed = x.closed
    /\ y.noblock = x.noblock /\ y.rlock = x.rlock /\ y.wlock = x.wlock

\* x with other blocks and counts.
With(x, bs, l, d) == [x EXCEPT !.blocks = bs, !.len = l, !.dlen = d]

LEMMA NewBlocks ==
    ASSUME NEW x \in Queue, NEW bs \in Seq(Block), NEW l \in Int, NEW d \in Int
    PROVE  /\ With(x, bs, l, d) \in Queue /\ Same(x, With(x, bs, l, d))
           /\ With(x, bs, l, d).blocks = bs /\ With(x, bs, l, d).len = l
           /\ With(x, bs, l, d).dlen = d
BY DEF Queue, Same, With

LEMMA SpanEnd ==
    ASSUME NEW b \in Block, NEW x \in Int, NEW y, Span(<<b>>, x, y)
    PROVE  y \in Int /\ y = x + BLEN(b)
<1>1. BLEN(b) \in Nat
    BY SumBlock
<1>2. QED  BY <1>1, SpanOne

LEMMA AddedHolds ==
    ASSUME NEW x, NEW m, NEW n, Holds(x, m, n), NEW b \in Block, NEW k, Span(<<b>>, n, k)
    PROVE  /\ Holds(Added(x, b), m, k) /\ Same(x, Added(x, b)) /\ Added(x, b).blocks # << >>
           /\ Added(x, b).blocks = Append(x.blocks, b)
           /\ Added(x, b).len = x.len + b.alloc
<1>1. PICK bs, y : bs = Append(x.blocks, b) /\ y = Added(x, b)
    OBVIOUS
<1>2. x.blocks \in Seq(Block) /\ x.len \in Int /\ x.dlen \in Int /\ x \in Queue
    BY DEF Holds, Queue
<1>3. Parts(bs, x.blocks, <<b>>) /\ bs \in Seq(Block) /\ bs # << >>
    BY <1>1, <1>2, PartsAppend
<1>4. b.alloc \in Nat /\ BLEN(b) \in Nat
    BY SumBlock
<1>5. y = With(x, bs, x.len + b.alloc, x.dlen + BLEN(b))
    BY <1>1 DEF Added, With
<1>6. /\ y \in Queue /\ Same(x, y) /\ y.blocks = bs /\ y.len = x.len + b.alloc
      /\ y.dlen = x.dlen + BLEN(b)
  <2>1. x.len + b.alloc \in Int /\ x.dlen + BLEN(b) \in Int
      BY <1>2, <1>4
  <2>2. QED  BY <2>1, <1>2, <1>3, <1>5, NewBlocks
<1>7. Counted(y)
    BY <1>3, <1>6, SumBlocks, SumBlock DEF Holds, Counted
<1>8. Span(bs, m, k) /\ k \in Int
    BY <1>3, SpanJoin, SpanEnd DEF Holds
<1>9. QED  BY <1>1, <1>3, <1>6, <1>7, <1>8 DEF Holds

LEMMA PutBackHolds ==
    ASSUME NEW x, NEW m, NEW n, Holds(x, m, n), NEW b \in Block, NEW k \in Int, Span(<<b>>, k, m)
    PROVE  /\ Holds(PutBack(x, b), k, n) /\ Same(x, PutBack(x, b)) /\ PutBack(x, b).blocks # << >>
           /\ PutBack(x, b).blocks = <<b>> \o x.blocks
           /\ PutBack(x, b).len = x.len + b.alloc
<1>1. PICK bs, y : bs = <<b>> \o x.blocks /\ y = PutBack(x, b)
    OBVIOUS
<1>2. x.blocks \in Seq(Block) /\ x.len \in Int /\ x.dlen \in Int /\ x \in Queue
    BY DEF Holds, Queue
<1>3. Parts(bs, <<b>>, x.blocks) /\ bs \in Seq(Block)
    BY <1>1, <1>2, PartsCons DEF Parts
<1>4. b.alloc \in Nat /\ BLEN(b) \in Nat
    BY SumBlock
<1>5. y = With(x, bs, x.len + b.alloc, x.dlen + BLEN(b))
    BY <1>1 DEF PutBack, With
<1>6. /\ y \in Queue /\ Same(x, y) /\ y.blocks = bs /\ y.len = x.len + b.alloc
      /\ y.dlen = x.dlen + BLEN(b)
  <2>1. x.len + b.alloc \in Int /\ x.dlen + BLEN(b) \in Int
      BY <1>2, <1>4
  <2>2. QED  BY <2>1, <1>2, <1>3, <1>5, NewBlocks
<1>7. Counted(y)
  <2>1. /\ Sum(Allocs(bs)) = b.alloc + Sum(Allocs(x.blocks))
        /\ Sum(Lens(bs)) = BLEN(b) + Sum(Lens(x.blocks))
      BY <1>3, SumBlocks, SumBlock
  <2>2. x.len = Sum(Allocs(x.blocks)) /\ x.dlen = Sum(Lens(x.blocks))
      BY DEF Holds, Counted
  <2>3. QED  BY <2>1, <2>2, <1>2, <1>4, <1>6 DEF Counted
<1>8. Span(bs, k, n)
    BY <1>3, SpanJoin DEF Holds
<1>9. bs # << >>
  <2>1. Len(bs) = 1 + Len(x.blocks)
      BY <1>1, <1>2
  <2>2. QED  BY <2>1, <1>2
<1>10. QED  BY <1>1, <1>6, <1>7, <1>8, <1>9 DEF Holds

LEMMA RemovedHolds ==
    ASSUME NEW x, NEW m, NEW n, Holds(x, m, n), x.blocks # << >>
    PROVE  /\ Head(x.blocks) \in Block /\ Same(x, Removed(x))
           /\ Removed(x).blocks = Tail(x.blocks)
           /\ Removed(x).len = x.len - Head(x.blocks).alloc
           /\ \E k \in Int : Span(<<Head(x.blocks)>>, m, k) /\ Holds(Removed(x), k, n)
<1>1. PICK b, bs, y : b = Head(x.blocks) /\ bs = Tail(x.blocks) /\ y = Removed(x)
    OBVIOUS
<1>2. x.blocks \in Seq(Block) /\ x.len \in Int /\ x.dlen \in Int /\ x \in Queue
    BY DEF Holds, Queue
<1>3. Parts(x.blocks, <<b>>, bs) /\ bs \in Seq(Block) /\ b \in Block
    BY <1>1, <1>2, PartsTail DEF Parts
<1>4. b.alloc \in Nat /\ BLEN(b) \in Nat
    BY <1>3, SumBlock
<1>5. y = With(x, bs, x.len - b.alloc, x.dlen - BLEN(b))
    BY <1>1 DEF Removed, With
<1>6. /\ y \in Queue /\ Same(x, y) /\ y.blocks = bs /\ y.len = x.len - b.alloc
      /\ y.dlen = x.dlen - BLEN(b)
  <2>1. x.len - b.alloc \in Int /\ x.dlen - BLEN(b) \in Int
      BY <1>2, <1>4
  <2>2. QED  BY <2>1, <1>2, <1>3, <1>5, NewBlocks
<1>7. Counted(y)
  <2>1. /\ Sum(Allocs(x.blocks)) = b.alloc + Sum(Allocs(bs)) /\ Sum(Allocs(bs)) \in Nat
        /\ Sum(Lens(x.blocks)) = BLEN(b) + Sum(Lens(bs)) /\ Sum(Lens(bs)) \in Nat
      BY <1>3, SumBlocks, SumBlock
  <2>2. x.len = Sum(Allocs(x.blocks)) /\ x.dlen = Sum(Lens(x.blocks))
      BY DEF Holds, Counted
  <2>3. QED  BY <2>1, <2>2, <1>4, <1>6 DEF Counted
<1>8. \E k \in Int : Span(<<b>>, m, k) /\ Span(bs, k, n)
    BY <1>3, SpanSplit DEF Holds
<1>9. \E k \in Int : Span(<<b>>, m, k) /\ Holds(y, k, n)
    BY <1>6, <1>7, <1>8 DEF Holds
<1>10. QED  BY <1>1, <1>3, <1>6, <1>9

LEMMA EmptiedHolds ==
    ASSUME NEW x \in Queue, NEW m \in Int
    PROVE  /\ Holds(Emptied(x), m, m) /\ Same(x, Emptied(x))
           /\ Emptied(x).blocks = << >> /\ Emptied(x).len = 0
<1>1. PICK y : y = Emptied(x)
    OBVIOUS
<1>2. << >> \in Seq(Block)
    OBVIOUS
<1>3. y \in Queue /\ Same(x, y) /\ y.blocks = << >> /\ y.len = 0 /\ y.dlen = 0
  <2>1. PICK bs, l : bs = << >> /\ l = 0
      OBVIOUS
  <2>2. y = With(x, bs, l, l)
      BY <2>1, <1>1 DEF Emptied, With
  <2>3. bs \in Seq(Block) /\ l \in Int
      BY <2>1, <1>2
  <2>4. /\ With(x, bs, l, l) \in Queue /\ Same(x, With(x, bs, l, l))
        /\ With(x, bs, l, l).blocks = bs /\ With(x, bs, l, l).len = l
        /\ With(x, bs, l, l).dlen = l
      BY <2>3, NewBlocks
  <2>5. QED  BY <2>1, <2>2, <2>4, Zenon
<1>4. Counted(y)
    BY <1>3, SumNone DEF Counted
<1>5. QED  BY <1>1, <1>3, <1>4, SpanNone DEF Holds

LEMMA AdvancedHolds ==
    ASSUME NEW x, NEW m, NEW n, Holds(x, m, n), x.blocks # << >>,
           NEW k \in 0 .. BLEN(Head(x.blocks))
    PROVE  /\ Holds(Advanced(x, k), m + k, n) /\ Same(x, Advanced(x, k))
           /\ Advanced(x, k).blocks # << >> /\ Advanced(x, k).len = x.len
           /\ Len(Advanced(x, k).blocks) = Len(x.blocks)
           /\ \A i \in 2 .. Len(x.blocks) : Advanced(x, k).blocks[i] = x.blocks[i]
           /\ BLEN(Advanced(x, k).blocks[1]) = BLEN(Head(x.blocks)) - k
<1>1. PICK b, c, cs, bs, y :
          /\ b = Head(x.blocks) /\ cs = Tail(x.blocks) /\ y = Advanced(x, k)
          /\ c = [b EXCEPT !.data = SubSeq(b.data, k + 1, BLEN(b))]
          /\ bs = [x.blocks EXCEPT ![1] = [b EXCEPT !.data = SubSeq(b.data, k + 1, BLEN(b))]]
    OBVIOUS
<1>2. x.blocks \in Seq(Block) /\ x.len \in Int /\ x.dlen \in Int /\ x \in Queue
    BY DEF Holds, Queue
<1>3. Parts(x.blocks, <<b>>, cs) /\ cs \in Seq(Block) /\ b \in Block
    BY <1>1, <1>2, PartsTail DEF Parts
<1>4. b.alloc \in Nat /\ BLEN(b) \in Nat /\ k \in 0 .. BLEN(b)
    BY <1>1, <1>3, SumBlock
<1>5. c \in Block /\ c.alloc = b.alloc /\ c.data = SubSeq(b.data, k + 1, BLEN(b))
  <2>1. b = [alloc |-> b.alloc, data |-> b.data] /\ BLEN(b) <= b.alloc /\ b.alloc \in Nat \ {0}
      BY <1>3 DEF Block, BLEN
  <2>2. PICK s : s = SubSeq(b.data, k + 1, BLEN(b))
      OBVIOUS
  <2>3. c = [alloc |-> b.alloc, data |-> s]
      BY <2>1, <2>2, <1>1
  <2>4. BLEN(b) - k <= b.alloc
      BY <2>1, <1>4
  <2>5. Cut(b, k, c)
      BY <2>1, <2>2, <2>3, <2>4, <1>3, <1>4, CutBlock
  <2>6. QED  BY <2>3, <2>5 DEF Cut
<1>6. bs \in Seq(Block) /\ Len(bs) = Len(x.blocks) /\ bs[1] = c
      /\ \A i \in 2 .. Len(x.blocks) : bs[i] = x.blocks[i]
  <2>1. Len(x.blocks) \in Nat /\ 1 \in 1 .. Len(x.blocks)
      BY <1>2
  <2>2. bs = [x.blocks EXCEPT ![1] = c]
      BY <1>1
  <2>3. QED  BY <2>1, <2>2, <1>2, <1>5
<1>7. Parts(bs, <<c>>, cs)
  <2>1. <<c>> \in Seq(Block) /\ Len(<<c>>) = 1 /\ <<c>>[1] = c /\ <<b>> \in Seq(Block) /\ Len(<<b>>) = 1
      BY <1>3, <1>5
  <2>2. /\ Len(x.blocks) = 1 + Len(cs) /\ Len(cs) \in Nat
        /\ \A i \in 1 .. Len(cs) : x.blocks[1 + i] = cs[i]
      BY <2>1, <1>3 DEF Parts
  <2>3. \A i \in 1 .. Len(cs) : bs[1 + i] = cs[i]
      BY <2>2, <1>6
  <2>4. QED  BY <2>1, <2>2, <2>3, <1>3, <1>6 DEF Parts
<1>8. PICK j \in Int : Span(<<b>>, m, j) /\ Span(cs, j, n)
    BY <1>3, SpanSplit DEF Holds
<1>9. Span(<<c>>, m + k, j) /\ BLEN(c) = BLEN(b) - k
  <2>1. m \in Int
      BY DEF Holds
  <2>2. Cut(b, k, c)
      BY <1>3, <1>4, <1>5 DEF Cut
  <2>3. QED  BY <2>1, <2>2, <1>8, SpanCut
<1>10. Span(bs, m + k, n) /\ m + k \in Int
    BY <1>7, <1>8, <1>9, SpanJoin DEF Holds
<1>11. y = With(x, bs, x.len, x.dlen - k)
  <2>1. y = [x EXCEPT !.blocks[1].data = SubSeq(@, k + 1, Len(@)), !.dlen = @ - k]
      BY <1>1 DEF Advanced
  <2>2. x.blocks[1] = b
      BY <1>1, <1>2
  <2>3. y = [x EXCEPT !.blocks = bs, !.dlen = x.dlen - k]
      BY <2>1, <2>2, <1>1 DEF BLEN
  <2>4. QED  BY <2>3, <1>2 DEF Queue, With
<1>12. y \in Queue /\ Same(x, y) /\ y.blocks = bs /\ y.len = x.len /\ y.dlen = x.dlen - k
  <2>1. x.dlen - k \in Int
      BY <1>2, <1>4
  <2>2. PICK d : d = x.dlen - k
      OBVIOUS
  <2>3. /\ With(x, bs, x.len, d) \in Queue /\ Same(x, With(x, bs, x.len, d))
        /\ With(x, bs, x.len, d).blocks = bs /\ With(x, bs, x.len, d).len = x.len
        /\ With(x, bs, x.len, d).dlen = d
      BY <2>1, <2>2, <1>2, <1>6, NewBlocks
  <2>4. QED  BY <2>2, <2>3, <1>11
<1>13. Counted(y)
  <2>1. /\ Sum(Allocs(x.blocks)) = b.alloc + Sum(Allocs(cs)) /\ Sum(Allocs(cs)) \in Nat
        /\ Sum(Lens(x.blocks)) = BLEN(b) + Sum(Lens(cs)) /\ Sum(Lens(cs)) \in Nat
      BY <1>3, SumBlocks, SumBlock
  <2>2. x.len = Sum(Allocs(x.blocks)) /\ x.dlen = Sum(Lens(x.blocks))
      BY DEF Holds, Counted
  <2>3. /\ Sum(Allocs(bs)) = c.alloc + Sum(Allocs(cs))
        /\ Sum(Lens(bs)) = BLEN(c) + Sum(Lens(cs))
      BY <1>5, <1>7, SumBlocks, SumBlock
  <2>4. QED  BY <2>1, <2>2, <2>3, <1>4, <1>5, <1>9, <1>12 DEF Counted
<1>14. bs # << >>
  <2>1. Len(bs) # 0
      BY <1>2, <1>6
  <2>2. QED  BY <2>1
<1>15. QED
    BY <1>1, <1>6, <1>9, <1>10, <1>12, <1>13, <1>14 DEF Holds

\* The first k blocks are taken; d is the number of bytes in them.
LEMMA TakenHolds ==
    ASSUME NEW x, NEW m, NEW n, Holds(x, m, n), NEW k \in 0 .. Len(x.blocks), NEW y, NEW d,
           d = x.dlen - Sum(Lens(SubSeq(x.blocks, 1, k))),
           y = With(x, SubSeq(x.blocks, k + 1, Len(x.blocks)),
                    x.len - Sum(Allocs(SubSeq(x.blocks, 1, k))), d)
    PROVE  /\ Same(x, y) /\ Len(y.blocks) = Len(x.blocks) - k
           /\ \A i \in 1 .. Len(x.blocks) - k : y.blocks[i] = x.blocks[k + i]
           /\ y.len = x.len - Sum(Allocs(SubSeq(x.blocks, 1, k)))
           /\ SubSeq(x.blocks, 1, k) \in Seq(Block) /\ Len(SubSeq(x.blocks, 1, k)) = k
           /\ Sum(Allocs(SubSeq(x.blocks, 1, k))) \in Nat
           /\ \E j \in Int : Span(SubSeq(x.blocks, 1, k), m, j) /\ Holds(y, j, n)
<1>1. PICK bs, cs : bs = SubSeq(x.blocks, 1, k) /\ cs = SubSeq(x.blocks, k + 1, Len(x.blocks))
    OBVIOUS
<1>2. x.blocks \in Seq(Block) /\ x.len \in Int /\ x.dlen \in Int /\ x \in Queue
    BY DEF Holds, Queue
<1>3. Parts(x.blocks, bs, cs)
    BY <1>1, <1>2, PartsSub
<1>4. /\ bs \in Seq(Block) /\ cs \in Seq(Block) /\ Len(bs) = k /\ Len(cs) = Len(x.blocks) - k
      /\ \A i \in 1 .. Len(cs) : cs[i] = x.blocks[k + i]
  <2>1. Len(bs) = k
      BY <1>1, <1>2
  <2>2. /\ bs \in Seq(Block) /\ cs \in Seq(Block) /\ Len(x.blocks) = Len(bs) + Len(cs)
        /\ Len(cs) \in Nat /\ \A i \in 1 .. Len(cs) : x.blocks[Len(bs) + i] = cs[i]
      BY <1>3 DEF Parts
  <2>3. QED  BY <2>1, <2>2
<1>5. /\ Sum(Allocs(x.blocks)) = Sum(Allocs(bs)) + Sum(Allocs(cs))
      /\ Sum(Lens(x.blocks)) = Sum(Lens(bs)) + Sum(Lens(cs))
      /\ Sum(Allocs(bs)) \in Nat /\ Sum(Allocs(cs)) \in Nat
      /\ Sum(Lens(bs)) \in Nat /\ Sum(Lens(cs)) \in Nat
    BY <1>3, SumBlocks
<1>6. /\ y \in Queue /\ Same(x, y) /\ y.blocks = cs /\ y.len = x.len - Sum(Allocs(bs))
      /\ y.dlen = d
  <2>1. PICK l : l = x.len - Sum(Allocs(bs))
      OBVIOUS
  <2>2. l \in Int /\ d \in Int
      BY <2>1, <1>1, <1>2, <1>5, SMTT(40)
  <2>3. y = With(x, cs, l, d)
      BY <2>1, <1>1
  <2>4. /\ With(x, cs, l, d) \in Queue /\ Same(x, With(x, cs, l, d))
        /\ With(x, cs, l, d).blocks = cs /\ With(x, cs, l, d).len = l
        /\ With(x, cs, l, d).dlen = d
    <3>1. cs \in Seq(Block)
        BY <1>4
    <3>2. QED  BY <3>1, <2>2, <1>2, NewBlocks
  <2>5. QED  BY <2>1, <2>3, <2>4
<1>7. Counted(y)
  <2>1. x.len = Sum(Allocs(x.blocks)) /\ x.dlen = Sum(Lens(x.blocks))
      BY DEF Holds, Counted
  <2>2. y.len = Sum(Allocs(cs))
      BY <2>1, <1>5, <1>6
  <2>3. y.dlen = Sum(Lens(cs))
      BY <2>1, <1>1, <1>5, <1>6
  <2>4. QED  BY <2>2, <2>3, <1>6 DEF Counted
<1>8. PICK j \in Int : Span(bs, m, j) /\ Span(cs, j, n)
    BY <1>3, SpanSplit DEF Holds
<1>9. Holds(y, j, n)
    BY <1>6, <1>7, <1>8 DEF Holds
<1>10. QED  BY <1>1, <1>4, <1>5, <1>6, <1>8, <1>9

----------------------------------------------------------------------------
(* The inductive invariant.                                                *)

Lims == Limits \union {Inilim}

WriterAt == {"idle", "wakerr", "flow", "setflow", "sleep", "asleep", "back"}
ReaderAt == {"idle", "wait", "sleep", "asleep", "back", "copy", "wakewr"}
OtherAt == {"idle", "wakerr", "wakewr"}

TypeOK ==
    /\ <<use, mode>> \in Kinds /\ q \in Queue /\ q.limit \in Lims
    /\ held \in Seq(Block) /\ want \in Int /\ next \in Int /\ busy \in BOOLEAN
    /\ noted \in [Writers \union Readers -> BOOLEAN]
    /\ pc \in [Threads -> WriterAt \union ReaderAt]
    /\ \A w \in Writers : pc[w] \in WriterAt
    /\ \A r \in Readers : pc[r] \in ReaderAt
    /\ pc[Driver] \in OtherAt /\ pc[Closer] \in OtherAt

\* A process in qbwrite() holds wlock, one in qread() or qbread() holds rlock.
Locks ==
    /\ \A w \in Writers : pc[w] # "idle" => q.wlock = w /\ ByWriters
    /\ \A r \in Readers : pc[r] # "idle" => q.rlock = r /\ ByReaders

\* Nothing waits for room in kprint.
Unblocked ==
    use = "kprint" =>
        /\ q.noblock
        /\ \A w \in Writers : pc[w] \in {"idle", "wakerr", "flow"}

\* qread() has taken no more blocks than it needs.
Copying ==
    /\ (\A r \in Readers : pc[r] # "copy") => held = << >>
    /\ \A r \in Readers : pc[r] = "copy" =>
          held # << >> /\ Sum(Lens(held)) - BLEN(Last(held)) < want

\* What is held and queued is one run of bytes that ends where the next begins.
Bytes ==
    \E m, k, n \in Int : Span(held, m, k) /\ Holds(q, k, n) /\ next = n % K

\* Blocks are empty only where empty blocks are written.
Filled(bs) == \A i \in 1 .. Len(bs) : BLEN(bs[i]) > 0
Full == use \notin Empties => Filled(q.blocks) /\ Filled(held)

Starving ==
    \A r \in Readers :
        /\ pc[r] \in {"sleep", "asleep"} /\ q.blocks = << >> => q.starve
        /\ pc[r] = "asleep" /\ (q.blocks # << >> \/ q.closed) => RrComing

\* Someone is about to start the driver of an output queue.
Kick == pc[Driver] = "wakerr" \/ \E w \in Writers : pc[w] = "wakerr"
Kicked ==
    use \in {"output", "console"} =>
        /\ q.blocks # << >> => busy \/ Kick
        /\ q.starve \/ q.closed \/ busy \/ Kick
        /\ use = "output" => pc[Driver] # "wakerr"

(***************************************************************************)
(* What keeps flow control from losing a writer: the kernel's own prints   *)
(* do not go to the queue; empty blocks do not go where the reader drops   *)
(* them without a look at Qflow, which are output queues, for qconsume(),  *)
(* and pipes that coalesce; and qsetlimit() lowers no limit to less than   *)
(* half, the level at which Qflow is cleared.                              *)
(***************************************************************************)
FlowAssumption ==
    /\ \A k \in Kinds :
        /\ k[1] # "console"
        /\ k[1] = "output" \/ (k[1] = "pipe" /\ "Qcoalesce" \in k[2]) =>
              k[1] \notin Empties
    /\ \A l, m \in Lims : m \div 2 <= l

\* The queue is below any limit, and stays there when a reader puts back.
Low == \A l \in Lims : q.len + Sum(Allocs(held)) < l
Flowing ==
    FlowAssumption =>
        /\ \A w \in Writers : pc[w] = "sleep" => q.flow \/ q.closed \/ Low
        /\ WriterKept

IInv ==
    /\ TypeOK /\ Locks /\ Unblocked /\ Copying /\ Bytes /\ Full
    /\ Starving /\ Kicked /\ Flowing

LEMMA Roles ==
    /\ \A w \in Writers : w \in Threads /\ w # Driver /\ w # Closer /\ w \notin Readers /\ w # Nil
    /\ \A r \in Readers : r \in Threads /\ r # Driver /\ r # Closer /\ r \notin Writers /\ r # Nil
    /\ Driver \in Threads /\ Closer \in Threads /\ Driver # Closer
    /\ Driver \notin Writers \union Readers /\ Closer \notin Writers \union Readers
BY QioAssumption DEF Threads, Driver, Closer

LEMMA Limit ==
    Lims \subseteq Nat \ {0, 1}
BY QioAssumption DEF Lims

LEMMA InitIInv == Init => IInv
<1> SUFFICES ASSUME Init PROVE IInv
    OBVIOUS
<1> USE DEF Init
<1>1. PICK c \in Kinds : use = c[1] /\ mode = c[2]
    OBVIOUS
<1>2. <<use, mode>> \in Kinds
    BY <1>1, QioAssumption
<1>3. << >> \in Seq(Block) /\ q.blocks = << >> /\ q.len = 0 /\ q.dlen = 0
    OBVIOUS
<1>4. q \in Queue /\ q.limit \in Lims
    BY <1>3, Limit DEF Queue, Lims
<1>5. \A t \in Threads : pc[t] = "idle"
    OBVIOUS
<1>6. TypeOK
  <2>1. pc \in [Threads -> WriterAt \union ReaderAt]
      BY DEF WriterAt
  <2>2. noted \in [Writers \union Readers -> BOOLEAN]
      OBVIOUS
  <2>3. held \in Seq(Block) /\ want \in Int /\ next \in Int /\ busy \in BOOLEAN
    <3>1. held = << >> /\ want = 0 /\ next = 0 /\ busy = FALSE
        OBVIOUS
    <3>2. busy \in BOOLEAN
        BY <3>1, Zenon
    <3>3. held \in Seq(Block)
        BY <3>1, <1>3, Zenon
    <3>4. want \in Int /\ next \in Int
        BY <3>1
    <3>5. QED  BY <3>2, <3>3, <3>4
  <2>4. /\ \A w \in Writers : pc[w] \in WriterAt
        /\ \A r \in Readers : pc[r] \in ReaderAt
        /\ pc[Driver] \in OtherAt /\ pc[Closer] \in OtherAt
      BY <1>5, Roles DEF WriterAt, ReaderAt, OtherAt
  <2>5. QED  BY <2>1, <2>2, <2>3, <2>4, <1>2, <1>4 DEF TypeOK
<1>7. Locks /\ Unblocked /\ Copying /\ Starving
    BY <1>5, Roles DEF Locks, Unblocked, Copying, Starving
<1>8. Bytes
  <2>1. Counted(q)
      BY <1>3, SumNone DEF Counted
  <2>2. Span(q.blocks, 0, 0) /\ Span(held, 0, 0)
      BY <1>3, SpanNone
  <2>3. 0 % K = 0 /\ 0 \in Int
      BY QioAssumption
  <2>4. QED  BY <2>1, <2>2, <2>3, <1>4 DEF Bytes, Holds
<1>9. Full
    BY <1>3 DEF Full, Filled
<1>10. Kicked
    BY <1>3, <1>5, Roles DEF Kicked
<1>11. Flowing
    BY <1>5, Roles DEF Flowing, WriterKept
<1>12. QED  BY <1>6, <1>7, <1>8, <1>9, <1>10, <1>11 DEF IInv

----------------------------------------------------------------------------
(* Steps.                                                                  *)

\* What a step does to pc: t goes to l, and the sleepers of S wake up.
Moved(t, l, S) ==
    /\ pc' \in [Threads -> WriterAt \union ReaderAt] /\ pc'[t] = l
    /\ \A x \in Threads : x # t =>
          pc'[x] = IF x \in S /\ pc[x] = "asleep" THEN "back" ELSE pc[x]

LEMMA MovedGoto ==
    ASSUME TypeOK, NEW t \in Threads, NEW l \in WriterAt \union ReaderAt, Goto(t, l)
    PROVE  Moved(t, l, {})
BY DEF TypeOK, Goto, Moved

LEMMA MovedWakeup ==
    ASSUME TypeOK, NEW t \in Threads, NEW l \in WriterAt \union ReaderAt, NEW S, Wakeup(S, t, l)
    PROVE  Moved(t, l, S)
<1>1. "back" \in WriterAt \union ReaderAt
    BY DEF WriterAt
<1>2. QED  BY <1>1 DEF TypeOK, Wakeup, Moved

\* The types of pc after a step.
LEMMA MovedType ==
    ASSUME TypeOK, NEW t \in Threads, NEW l, NEW S, Moved(t, l, S),
           t \in Writers => l \in WriterAt, t \in Readers => l \in ReaderAt,
           t \in {Driver, Closer} => l \in OtherAt
    PROVE  /\ pc' \in [Threads -> WriterAt \union ReaderAt]
           /\ \A w \in Writers : pc'[w] \in WriterAt
           /\ \A r \in Readers : pc'[r] \in ReaderAt
           /\ pc'[Driver] \in OtherAt /\ pc'[Closer] \in OtherAt
<1>1. "back" \in WriterAt /\ "back" \in ReaderAt
    BY DEF WriterAt, ReaderAt
<1>2. ASSUME NEW w \in Writers PROVE pc'[w] \in WriterAt
    BY <1>1, Roles DEF TypeOK, Moved
<1>3. ASSUME NEW r \in Readers PROVE pc'[r] \in ReaderAt
    BY <1>1, Roles DEF TypeOK, Moved
<1>4. ASSUME NEW d \in {Driver, Closer} PROVE pc'[d] \in OtherAt
  <2>1. pc[d] \in OtherAt /\ pc[d] # "asleep" /\ d \in Threads
      BY Roles DEF TypeOK, OtherAt
  <2>2. QED  BY <2>1 DEF Moved
<1>5. QED  BY <1>2, <1>3, <1>4 DEF Moved

\* The bytes, after a step that leaves blocks and counts alone.
LEMMA Untouched ==
    ASSUME TypeOK, Bytes, Full, q' \in Queue, q'.blocks = q.blocks, q'.len = q.len, q'.dlen = q.dlen,
           held' = held, next' = next, use' = use
    PROVE  Bytes' /\ Full'
<1>1. PICK m \in Int, k \in Int, n \in Int : Span(held, m, k) /\ Holds(q, k, n) /\ next = n % K
    BY DEF Bytes
<1>2. Holds(q', k, n)
    BY <1>1 DEF Holds, Counted
<1>3. Bytes'
    BY <1>1, <1>2 DEF Bytes
<1>4. QED  BY <1>3 DEF Full

\* A block of s new bytes.
LEMMA NewBytes ==
    ASSUME NEW n \in Int, next = n % K, NEW s \in Nat
    PROVE  /\ NewBlock(s) \in Block /\ BLEN(NewBlock(s)) = s
           /\ Span(<<NewBlock(s)>>, n, n + s) /\ (next + s) % K = (n + s) % K
<1>1. PICK b : b = NewBlock(s)
    OBVIOUS
<1>2. K \in Nat \ {0} /\ next \in Int
    BY QioAssumption, Modulus
<1>3. \A i \in 1 .. s : (next + i - 1) % K \in Int /\ (next + i - 1) % K = (n + i - 1) % K
  <2>1. ASSUME NEW i \in 1 .. s
        PROVE  (next + i - 1) % K \in Int /\ (next + i - 1) % K = (n + i - 1) % K
    <3>1. PICK y : y = i - 1
        OBVIOUS
    <3>2. y \in Int /\ next + i - 1 = (n % K) + y /\ n + i - 1 = n + y /\ next + i - 1 \in Int
        BY <3>1, <1>2
    <3>3. ((n % K) + y) % K = (n + y) % K
        BY <3>2, <1>2, ModAdd
    <3>4. (next + i - 1) % K \in Int
        BY <3>2, <1>2, Modulus
    <3>5. QED  BY <3>2, <3>3, <3>4
  <2>2. QED  BY <2>1
<1>4. PICK d : d = [i \in 1 .. s |-> (next + i - 1) % K]
    OBVIOUS
<1>5. d \in [1 .. s -> Int]
    BY <1>3, <1>4
<1>6. d \in Seq(Int) /\ Len(d) = s /\ \A i \in 1 .. s : d[i] = (n + i - 1) % K
    BY <1>3, <1>4, <1>5
<1>7. b = [alloc |-> Alloc(s), data |-> d] /\ Alloc(s) \in Nat \ {0} /\ s <= Alloc(s)
    BY <1>1, <1>4 DEF NewBlock, Alloc
<1>8. b \in Block /\ BLEN(b) = s /\ b.data = d
    BY <1>6, <1>7 DEF Block, BLEN
<1>9. Span(<<b>>, n, n + s)
    BY <1>6, <1>8, SpanOne
<1>10. (next + s) % K = (n + s) % K
  <2>1. s \in Int
      OBVIOUS
  <2>2. ((n % K) + s) % K = (n + s) % K
      BY <2>1, <1>2, ModAdd
  <2>3. QED  BY <2>2
<1>11. QED  BY <1>1, <1>8, <1>9, <1>10

LEMMA FilledAppend ==
    ASSUME NEW bs, NEW cs, NEW ds, Parts(ds, bs, cs)
    PROVE  Filled(ds) <=> Filled(bs) /\ Filled(cs)
<1>1. /\ Len(ds) = Len(bs) + Len(cs) /\ Len(bs) \in Nat /\ Len(cs) \in Nat
      /\ \A i \in 1 .. Len(bs) : ds[i] = bs[i]
      /\ \A i \in 1 .. Len(cs) : ds[Len(bs) + i] = cs[i]
    BY DEF Parts
<1>2. ASSUME Filled(ds) PROVE Filled(bs) /\ Filled(cs)
  <2>1. \A i \in 1 .. Len(bs) : i \in 1 .. Len(ds)
      BY <1>1
  <2>2. \A i \in 1 .. Len(cs) : Len(bs) + i \in 1 .. Len(ds)
      BY <1>1
  <2>3. QED  BY <1>1, <1>2, <2>1, <2>2 DEF Filled
<1>3. ASSUME Filled(bs), Filled(cs) PROVE Filled(ds)
  <2>1. ASSUME NEW i \in 1 .. Len(ds) PROVE BLEN(ds[i]) > 0
    <3>1. CASE i <= Len(bs)
        BY <3>1, <1>1, <1>3 DEF Filled
    <3>2. CASE i > Len(bs)
      <4>1. PICK j \in 1 .. Len(cs) : i = Len(bs) + j
        <5>1. i - Len(bs) \in 1 .. Len(cs) /\ i = Len(bs) + (i - Len(bs))
            BY <3>2, <1>1
        <5>2. QED  BY <5>1
      <4>2. QED  BY <4>1, <1>1, <1>3 DEF Filled
    <3>3. QED  BY <3>1, <3>2, <1>1
  <2>2. QED  BY <2>1 DEF Filled
<1>4. QED  BY <1>2, <1>3

LEMMA FilledOne ==
    ASSUME NEW b
    PROVE  Filled(<<b>>) <=> BLEN(b) > 0
<1>1. Len(<<b>>) = 1 /\ <<b>>[1] = b
    OBVIOUS
<1>2. QED  BY <1>1 DEF Filled

LEMMA FilledNone == Filled(<< >>)
<1>1. Len(<< >>) = 0 /\ 1 .. 0 = {}
    OBVIOUS
<1>2. QED  BY <1>1 DEF Filled

LEMMA Unchanged ==
    ASSUME IInv, UNCHANGED vars
    PROVE  IInv'
BY DEF IInv, vars, TypeOK, Locks, Unblocked, ByWriters, ByReaders, Copying, Bytes, Full,
       Starving, RrComing, Going, Kicked, Kick, Flowing, Low, WriterKept, WrComing

\* What a length of a block is.
LEMMA LengthsNat ==
    ASSUME NEW n \in Lengths
    PROVE  n \in Nat /\ (use \notin Empties => n > 0)
BY QioAssumption DEF Lengths

LEMMA QBWriteKeeps ==
    ASSUME IInv, NEW w \in Writers, QBWrite(w)
    PROVE  IInv'
<1>1. /\ TypeOK /\ Locks /\ Unblocked /\ Copying /\ Bytes /\ Full
      /\ Starving /\ Kicked /\ Flowing
    BY DEF IInv
<1>2. /\ pc[w] = "idle" /\ ByWriters /\ q.wlock = Nil /\ w \in Threads
      /\ UNCHANGED <<use, mode, held, want, noted, busy>>
    BY Roles DEF QBWrite
<1>3. CASE q.closed \/ (q.noblock /\ q.len >= q.limit)
  <2>1. UNCHANGED vars
      BY <1>3 DEF QBWrite, vars
  <2>2. QED  BY <2>1, Unchanged
<1>4. CASE ~(q.closed \/ (q.noblock /\ q.len >= q.limit))
  <2>1. PICK s \in Lengths :
            /\ q' = [Added(q, NewBlock(s)) EXCEPT !.starve = FALSE, !.wlock = w]
            /\ next' = (next + s) % K
            /\ Goto(w, IF q.starve THEN "wakerr" ELSE "flow")
      BY <1>4 DEF QBWrite
  <2>2. PICK x, b, l : x = Added(q, b) /\ b = NewBlock(s) /\ l = IF q.starve THEN "wakerr" ELSE "flow"
      OBVIOUS
  <2>3. PICK m \in Int, k \in Int, n \in Int : Span(held, m, k) /\ Holds(q, k, n) /\ next = n % K
      BY <1>1 DEF Bytes
  <2>4. s \in Nat /\ (use \notin Empties => s > 0)
      BY LengthsNat
  <2>5. b \in Block /\ BLEN(b) = s /\ Span(<<b>>, n, n + s) /\ next' = (n + s) % K
      BY <2>1, <2>2, <2>3, <2>4, NewBytes
  <2>6. Holds(x, k, n + s) /\ Same(q, x) /\ x.blocks # << >> /\ x.blocks = Append(q.blocks, b)
      BY <2>2, <2>3, <2>5, AddedHolds
  <2>7. q' = [x EXCEPT !.starve = FALSE, !.wlock = w] /\ x \in Queue
      BY <2>1, <2>2, <2>6 DEF Holds
  <2>8. /\ q' \in Queue /\ q'.blocks = x.blocks /\ q'.len = x.len /\ q'.dlen = x.dlen
        /\ q'.limit = q.limit /\ q'.flow = q.flow /\ q'.closed = q.closed /\ q'.noblock = q.noblock
        /\ q'.rlock = q.rlock /\ q'.starve = FALSE /\ q'.wlock = w
      BY <2>6, <2>7 DEF Queue, Same
  <2>9. Moved(w, l, {}) /\ l \in {"wakerr", "flow"} /\ (q.starve => l = "wakerr")
      BY <1>1, <1>2, <2>1, <2>2, MovedGoto DEF WriterAt
  <2>10. /\ pc'[w] = l /\ \A t \in Threads : t # w => pc'[t] = pc[t]
      BY <2>9 DEF Moved
  <2>11. Bytes'
    <3>1. Holds(q', k, n + s)
        BY <2>6, <2>8 DEF Holds, Counted
    <3>2. n + s \in Int
        BY <2>4
    <3>3. QED  BY <1>2, <2>3, <2>5, <3>1, <3>2 DEF Bytes
  <2>12. TypeOK'
    <3>1. next' \in Int
        BY <2>4, <2>5, QioAssumption
    <3>2. QED  BY <1>1, <1>2, <2>8, <2>9, <3>1, MovedType, Roles DEF TypeOK, WriterAt
  <2>13. \A v \in Writers : v # w => pc[v] = "idle"
      BY <1>1, <1>2, Roles DEF Locks
  <2>14. Locks' /\ Unblocked' /\ Copying'
      BY <1>1, <1>2, <2>8, <2>9, <2>10, <2>13, Roles DEF Locks, Unblocked, Copying, ByWriters, ByReaders
  <2>15. Full'
    <3>1. q.blocks \in Seq(Block)
        BY <1>1 DEF TypeOK, Queue
    <3>2. Parts(x.blocks, q.blocks, <<b>>)
        BY <2>5, <2>6, <3>1, PartsAppend
    <3>3. QED  BY <1>1, <1>2, <2>4, <2>5, <2>8, <3>2, FilledAppend, FilledOne DEF Full
  <2>16. Starving'
    <3>1. ASSUME NEW r \in Readers, pc'[r] = "asleep" PROVE RrComing'
      <4>1. pc[r] = "asleep"
          BY <3>1, <2>10, Roles
      <4>2. CASE q.starve
          BY <4>2, <2>9, <2>10, <1>2 DEF RrComing, Going
      <4>3. CASE ~q.starve
        <5>1. RrComing
            BY <4>1, <4>3, <1>1 DEF Starving
        <5>2. PICK t \in Threads : pc[t] = "wakerr"
            BY <5>1 DEF RrComing, Going
        <5>3. QED  BY <5>2, <2>10, <1>2 DEF RrComing, Going
      <4>4. QED  BY <4>2, <4>3
    <3>2. q'.blocks # << >>
        BY <2>6, <2>8
    <3>3. QED  BY <3>1, <3>2 DEF Starving
  <2>17. Kicked'
    <3>1. Kick => Kick'
        BY <1>2, <2>10, Roles DEF Kick
    <3>2. q.starve => Kick'
        BY <2>9, <2>10 DEF Kick
    <3>3. pc'[Driver] = pc[Driver] /\ ~q.closed /\ busy' = busy /\ use' = use
        BY <1>2, <1>4, <2>10, Roles
    <3>4. QED  BY <3>1, <3>2, <3>3, <1>1 DEF Kicked
  <2>18. Flowing'
      BY <2>9, <2>10, <2>13, Roles DEF Flowing, WriterKept
  <2>19. QED
      BY <2>11, <2>12, <2>14, <2>15, <2>16, <2>17, <2>18 DEF IInv
<1>5. QED  BY <1>3, <1>4

\* Flow control stops no writer of a queue that a driver fills.
LEMMA NoneStopped ==
    ASSUME TypeOK, Locks, Unblocked, FlowAssumption, use \in {"input", "console", "kprint"},
           NEW w \in Writers
    PROVE  pc[w] \notin {"sleep", "asleep"}
<1>1. use # "console"
  <2>1. PICK c : c = <<use, mode>>
      OBVIOUS
  <2>2. c \in Kinds /\ c[1] = use
      BY <2>1 DEF TypeOK
  <2>3. QED  BY <2>2 DEF FlowAssumption
<1>2. QED  BY <1>1 DEF Locks, ByWriters, Unblocked

LEMMA DriverPuts ==
    ASSUME IInv, NEW s \in Lengths, NEW f \in BOOLEAN, pc[Driver] = "idle",
           use \in {"input", "console", "kprint"}, use = "console" => ~q.closed,
           NEW y, y = [Added(q, NewBlock(s)) EXCEPT !.flow = f], DriverPut(s, y),
           UNCHANGED <<use, mode, held, want, noted, busy>>
    PROVE  IInv'
<1>1. /\ TypeOK /\ Locks /\ Unblocked /\ Copying /\ Bytes /\ Full
      /\ Starving /\ Kicked /\ Flowing
    BY DEF IInv
<1>2. PICK x, b, l : x = Added(q, b) /\ b = NewBlock(s) /\ l = IF q.starve THEN "wakerr" ELSE "idle"
    OBVIOUS
<1>3. PICK m \in Int, k \in Int, n \in Int : Span(held, m, k) /\ Holds(q, k, n) /\ next = n % K
    BY <1>1 DEF Bytes
<1>4. s \in Nat /\ (use \notin Empties => s > 0)
    BY LengthsNat
<1>5. b \in Block /\ BLEN(b) = s /\ Span(<<b>>, n, n + s) /\ next' = (n + s) % K
  <2>1. next' = (next + s) % K
      BY DEF DriverPut
  <2>2. QED  BY <2>1, <1>2, <1>3, <1>4, NewBytes
<1>6. Holds(x, k, n + s) /\ Same(q, x) /\ x.blocks # << >> /\ x.blocks = Append(q.blocks, b)
    BY <1>2, <1>3, <1>5, AddedHolds
<1>7. /\ q' \in Queue /\ q'.blocks = x.blocks /\ q'.len = x.len /\ q'.dlen = x.dlen
      /\ q'.limit = q.limit /\ q'.closed = q.closed /\ q'.noblock = q.noblock
      /\ q'.rlock = q.rlock /\ q'.wlock = q.wlock /\ q'.starve = FALSE
  <2>1. y = [x EXCEPT !.flow = f] /\ q' = [y EXCEPT !.starve = FALSE] /\ x \in Queue
      BY <1>2, <1>6 DEF DriverPut, Holds
  <2>2. QED  BY <2>1, <1>6 DEF Queue, Same
<1>8. Moved(Driver, l, {}) /\ l \in {"wakerr", "idle"} /\ (q.starve => l = "wakerr")
  <2>1. Goto(Driver, l) /\ Driver \in Threads
      BY <1>2, Roles DEF DriverPut
  <2>2. QED  BY <2>1, <1>1, <1>2, MovedGoto DEF WriterAt
<1>9. pc'[Driver] = l /\ Driver \in Threads /\ \A t \in Threads : t # Driver => pc'[t] = pc[t]
    BY <1>8, Roles DEF Moved
<1>10. Bytes'
  <2>1. Holds(q', k, n + s)
      BY <1>6, <1>7 DEF Holds, Counted
  <2>2. n + s \in Int
      BY <1>4
  <2>3. QED  BY <1>3, <1>5, <2>1, <2>2 DEF Bytes
<1>11. TypeOK'
  <2>1. next' \in Int
      BY <1>4, <1>5, QioAssumption
  <2>2. QED  BY <1>1, <1>7, <1>8, <2>1, MovedType, Roles DEF TypeOK, OtherAt
<1>12. Locks' /\ Unblocked' /\ Copying'
    BY <1>1, <1>7, <1>9, Roles DEF Locks, Unblocked, Copying, ByWriters, ByReaders
<1>13. Full'
  <2>1. q.blocks \in Seq(Block)
      BY <1>1 DEF TypeOK, Queue
  <2>2. Parts(x.blocks, q.blocks, <<b>>)
      BY <1>5, <1>6, <2>1, PartsAppend
  <2>3. QED  BY <1>1, <1>4, <1>5, <1>7, <2>2, FilledAppend, FilledOne DEF Full
<1>14. Starving'
  <2>1. ASSUME NEW r \in Readers, pc'[r] = "asleep" PROVE RrComing'
    <3>1. pc[r] = "asleep"
        BY <2>1, <1>9, Roles
    <3>2. CASE q.starve
        BY <3>2, <1>8, <1>9 DEF RrComing, Going
    <3>3. CASE ~q.starve
      <4>1. RrComing
          BY <3>1, <3>3, <1>1 DEF Starving
      <4>2. PICK t \in Threads : pc[t] = "wakerr"
          BY <4>1 DEF RrComing, Going
      <4>3. QED  BY <4>2, <1>9 DEF RrComing, Going
    <3>4. QED  BY <3>2, <3>3
  <2>2. q'.blocks # << >>
      BY <1>6, <1>7
  <2>3. QED  BY <2>1, <2>2 DEF Starving
<1>15. Kicked'
  <2>1. Kick => Kick'
      BY <1>9, Roles DEF Kick
  <2>2. q.starve => Kick'
      BY <1>8, <1>9 DEF Kick
  <2>3. use = "console" => ~q.closed
      OBVIOUS
  <2>4. use' = use /\ busy' = busy /\ use \in {"input", "console", "kprint"}
      OBVIOUS
  <2>5. QED  BY <2>1, <2>2, <2>3, <2>4, <1>1 DEF Kicked
<1>16. Flowing'
  <2>1. ASSUME FlowAssumption, NEW w \in Writers PROVE pc'[w] \notin {"sleep", "asleep"}
      BY <2>1, <1>1, <1>9, NoneStopped, Roles
  <2>2. QED  BY <2>1 DEF Flowing, WriterKept
<1>17. QED
    BY <1>10, <1>11, <1>12, <1>13, <1>14, <1>15, <1>16 DEF IInv

\* A change of q that leaves the blocks alone, by the driver of an input queue.
LEMMA FlowSet ==
    ASSUME IInv, use = "input", q' = [q EXCEPT !.flow = TRUE],
           UNCHANGED <<use, mode, held, want, noted, next, busy, pc>>
    PROVE  IInv'
<1>1. /\ TypeOK /\ Locks /\ Unblocked /\ Copying /\ Bytes /\ Full
      /\ Starving /\ Kicked /\ Flowing
    BY DEF IInv
<1>2. /\ q' \in Queue /\ q'.blocks = q.blocks /\ q'.len = q.len /\ q'.dlen = q.dlen
      /\ q'.limit = q.limit /\ q'.closed = q.closed /\ q'.noblock = q.noblock
      /\ q'.rlock = q.rlock /\ q'.wlock = q.wlock /\ q'.starve = q.starve
    BY <1>1 DEF TypeOK, Queue
<1>3. Bytes' /\ Full'
    BY <1>1, <1>2, Untouched
<1>4. TypeOK'
    BY <1>1, <1>2 DEF TypeOK
<1>5. Locks' /\ Unblocked' /\ Copying' /\ Starving' /\ Kicked'
    BY <1>1, <1>2 DEF Locks, Unblocked, Copying, ByWriters, ByReaders, Starving, RrComing, Going,
                     Kicked, Kick
<1>6. Flowing'
  <2>1. ASSUME NEW w \in Writers PROVE pc'[w] \notin {"sleep", "asleep"}
      BY <1>1 DEF Locks, ByWriters
  <2>2. QED  BY <2>1 DEF Flowing, WriterKept
<1>7. QED  BY <1>3, <1>4, <1>5, <1>6 DEF IInv

LEMMA DriverProducesKeeps ==
    ASSUME IInv, DriverProduces
    PROVE  IInv'
<1>1. PICK s \in Lengths :
         \/ use = "input" /\ (qproduce(s) \/ qpass(s, FALSE) \/ qpass(s, TRUE))
         \/ use \in {"console", "kprint"} /\ qiwrite(s)
    BY DEF DriverProduces
<1>2. pc[Driver] = "idle" /\ UNCHANGED <<use, mode, held, want, noted, busy>>
    BY DEF DriverProduces
<1>3. PICK x, f, g :
         /\ x = Added(q, NewBlock(s)) /\ f = (x.flow \/ x.len >= x.limit)
         /\ g = (x.flow \/ x.len >= x.limit \div 2)
    OBVIOUS
<1>4. f \in BOOLEAN /\ g \in BOOLEAN
    BY <1>3, Zenon
<1>5. CASE use = "input" /\ qproduce(s)
  <2>1. CASE q.len >= q.limit
      BY <1>2, <1>5, <2>1, FlowSet DEF qproduce
  <2>2. CASE ~(q.len >= q.limit)
    <3>1. PICK y : y = [x EXCEPT !.flow = f]
        OBVIOUS
    <3>2. DriverPut(s, y)
        BY <1>3, <1>5, <2>2, <3>1 DEF qproduce
    <3>3. QED  BY <1>2, <1>3, <1>4, <1>5, <3>1, <3>2, DriverPuts
  <2>3. QED  BY <2>1, <2>2
<1>6. ASSUME use = "input", NEW nolim, qpass(s, nolim) PROVE IInv'
  <2>1. CASE q.closed \/ (~nolim /\ q.len >= q.limit)
    <3>1. UNCHANGED vars
        BY <1>2, <1>6, <2>1 DEF qpass, vars
    <3>2. QED  BY <3>1, Unchanged
  <2>2. CASE ~(q.closed \/ (~nolim /\ q.len >= q.limit))
    <3>1. PICK y : y = [x EXCEPT !.flow = g]
        OBVIOUS
    <3>2. DriverPut(s, y)
        BY <1>3, <1>6, <2>2, <3>1 DEF qpass
    <3>3. QED  BY <1>2, <1>3, <1>4, <1>6, <3>1, <3>2, DriverPuts
  <2>3. QED  BY <2>1, <2>2
<1>7. CASE use \in {"console", "kprint"} /\ qiwrite(s)
  <2>1. CASE q.closed \/ q.dlen >= MaxLen
    <3>1. UNCHANGED vars
        BY <1>2, <1>7, <2>1 DEF qiwrite, vars
    <3>2. QED  BY <3>1, Unchanged
  <2>2. CASE ~(q.closed \/ q.dlen >= MaxLen)
    <3>1. PICK h : h = q.flow
        OBVIOUS
    <3>2. DriverPut(s, x) /\ ~q.closed
        BY <1>3, <1>7, <2>2 DEF qiwrite
    <3>3. x = [x EXCEPT !.flow = h] /\ h \in BOOLEAN
      <4>1. q \in Queue
          BY DEF IInv, TypeOK
      <4>2. x.flow = q.flow
          BY <4>1, <1>3 DEF Added, Queue
      <4>3. x = [x EXCEPT !.flow = x.flow]
          BY <4>1, <1>3 DEF Added, Queue
      <4>4. h \in BOOLEAN
          BY <3>1, <4>1 DEF Queue
      <4>5. QED  BY <3>1, <4>2, <4>3, <4>4
    <3>4. QED  BY <1>2, <1>3, <1>7, <3>2, <3>3, DriverPuts
  <2>3. QED  BY <2>1, <2>2
<1>8. QED  BY <1>1, <1>5, <1>6, <1>7

\* A wakeup on its way stays there while others move.
LEMMA Stays ==
    ASSUME NEW t \in Threads, NEW l, NEW S, Moved(t, l, S)
    PROVE  /\ \A a : a # "asleep" /\ pc[t] # a /\ Going(a) => Going(a)'
           /\ Going(l)'
           /\ t # Closer \/ pc[t] # "wakerr" =>
                (pc[Closer] = "wakerr" => pc'[Closer] = "wakerr")
<1>1. ASSUME NEW a, a # "asleep", pc[t] # a, Going(a) PROVE Going(a)'
  <2>1. PICK x \in Threads : pc[x] = a
      BY <1>1 DEF Going
  <2>2. pc'[x] = a
      BY <1>1, <2>1 DEF Moved
  <2>3. QED  BY <2>2 DEF Going
<1>2. Going(l)'
    BY DEF Moved, Going
<1>3. ASSUME t # Closer \/ pc[t] # "wakerr", pc[Closer] = "wakerr" PROVE pc'[Closer] = "wakerr"
    BY <1>3, Roles DEF Moved
<1>4. QED  BY <1>1, <1>2, <1>3

\* A step of a writer that leaves the blocks and the reader alone.
LEMMA WriterKeeps ==
    ASSUME IInv, NEW w \in Writers, pc[w] # "idle",
           UNCHANGED <<use, mode, held, want, next>>,
           noted' \in [Writers \union Readers -> BOOLEAN], busy' \in BOOLEAN, busy => busy',
           NEW l \in WriterAt, NEW S, S \in {{}, Readers}, Moved(w, l, S),
           NEW f \in BOOLEAN, NEW z \in {w, Nil}, q' = [q EXCEPT !.flow = f, !.wlock = z],
           l # "idle" => z = w, use = "kprint" => l \in {"idle", "flow"},
           pc[w] = "wakerr" => S = Readers /\ (use \in {"output", "console"} => busy'),
           FlowAssumption =>
               /\ l = "sleep" => f \/ q.closed \/ Low
               /\ l = "asleep" => f /\ ~q.closed /\ q.blocks # << >>
    PROVE  IInv'
<1>1. /\ TypeOK /\ Locks /\ Unblocked /\ Copying /\ Bytes /\ Full
      /\ Starving /\ Kicked /\ Flowing
    BY DEF IInv
<1>2. /\ q' \in Queue /\ q'.blocks = q.blocks /\ q'.len = q.len /\ q'.dlen = q.dlen
      /\ q'.limit = q.limit /\ q'.closed = q.closed /\ q'.noblock = q.noblock
      /\ q'.rlock = q.rlock /\ q'.starve = q.starve /\ q'.flow = f /\ q'.wlock = z
    BY <1>1 DEF TypeOK, Queue
<1>3. w \in Threads /\ pc'[w] = l
    BY Roles DEF Moved
<1>4. ASSUME NEW v \in Writers, v # w PROVE pc[v] = "idle" /\ pc'[v] = "idle"
  <2>1. pc[v] = "idle"
      BY <1>1, <1>4 DEF Locks
  <2>2. QED  BY <2>1, <1>4, Roles DEF Moved
<1>5. \A r \in Readers : pc'[r] = IF r \in S /\ pc[r] = "asleep" THEN "back" ELSE pc[r]
    BY Roles DEF Moved
<1>6. Bytes' /\ Full'
    BY <1>1, <1>2, Untouched
<1>7. TypeOK'
    BY <1>1, <1>2, <1>3, MovedType, Roles DEF TypeOK
<1>8. Locks'
  <2>1. ASSUME NEW v \in Writers, pc'[v] # "idle" PROVE (q.wlock = v /\ ByWriters)'
    <3>1. v = w /\ ByWriters
        BY <1>1, <1>4, <2>1 DEF Locks
    <3>2. QED  BY <3>1, <2>1, <1>2, <1>3 DEF ByWriters
  <2>2. ASSUME NEW r \in Readers, pc'[r] # "idle" PROVE (q.rlock = r /\ ByReaders)'
    <3>1. pc[r] # "idle"
        BY <2>2, <1>5
    <3>2. QED  BY <3>1, <1>1, <1>2 DEF Locks, ByReaders
  <2>3. QED  BY <2>1, <2>2 DEF Locks
<1>9. Unblocked'
    BY <1>1, <1>2, <1>3, <1>4 DEF Unblocked
<1>10. Copying'
  <2>1. \A r \in Readers : pc'[r] = "copy" <=> pc[r] = "copy"
      BY <1>5
  <2>2. QED  BY <2>1, <1>1 DEF Copying
<1>11. Starving'
  <2>1. ASSUME NEW r \in Readers
        PROVE  /\ pc'[r] \in {"sleep", "asleep"} /\ q'.blocks = << >> => q'.starve
               /\ pc'[r] = "asleep" /\ (q'.blocks # << >> \/ q'.closed) => RrComing'
    <3>1. pc'[r] \in {"sleep", "asleep"} => pc'[r] = pc[r]
        BY <1>5
    <3>2. CASE pc[w] = "wakerr"
        BY <3>1, <3>2, <1>1, <1>2, <1>5 DEF Starving
    <3>3. CASE pc[w] # "wakerr"
      <4>1. RrComing => RrComing'
          BY <3>3, <1>3, Stays DEF RrComing
      <4>2. QED  BY <3>1, <4>1, <1>1, <1>2 DEF Starving
    <3>4. QED  BY <3>2, <3>3
  <2>2. QED  BY <2>1 DEF Starving
<1>12. Kicked'
  <2>1. pc'[Driver] = pc[Driver]
    <3>1. pc[Driver] # "asleep" /\ Driver # w /\ Driver \in Threads
        BY <1>1, Roles DEF TypeOK, OtherAt
    <3>2. QED  BY <3>1 DEF Moved
  <2>2. CASE pc[w] = "wakerr"
      BY <2>1, <2>2, <1>1, <1>2 DEF Kicked
  <2>3. CASE pc[w] # "wakerr"
    <3>1. Kick => Kick'
        BY <2>1, <2>3, <1>4 DEF Kick
    <3>2. QED  BY <2>1, <3>1, <1>1, <1>2 DEF Kicked
  <2>4. QED  BY <2>2, <2>3
<1>13. Flowing'
  <2>1. SUFFICES ASSUME FlowAssumption
                 PROVE  /\ \A v \in Writers : pc'[v] = "sleep" => q'.flow \/ q'.closed \/ Low'
                        /\ WriterKept'
      BY DEF Flowing
  <2>2. Low => Low'
      BY <1>2 DEF Low
  <2>3. \A v \in Writers : pc'[v] \in {"sleep", "asleep"} => v = w
      BY <1>4
  <2>4. \A v \in Writers : pc'[v] = "sleep" => q'.flow \/ q'.closed \/ Low'
      BY <2>1, <2>2, <2>3, <1>2, <1>3
  <2>5. l = "asleep" => q'.flow /\ ~q'.closed /\ q'.blocks # << >>
      BY <2>1, <1>2
  <2>6. WriterKept'
      BY <2>3, <2>5, <1>3 DEF WriterKept
  <2>7. QED  BY <2>4, <2>6
<1>14. QED
    BY <1>6, <1>7, <1>8, <1>9, <1>10, <1>11, <1>12, <1>13 DEF IInv

\* A queue without blocks has no length.
LEMMA NoBlocks ==
    ASSUME NEW x, NEW m, NEW n, Holds(x, m, n), x.blocks = << >>
    PROVE  x.len = 0
BY SumNone DEF Holds, Counted

LEMMA WriterStepKeeps ==
    ASSUME IInv, NEW w \in Writers, WriterStep(w)
    PROVE  IInv'
<1>1. /\ TypeOK /\ Locks /\ Unblocked /\ Copying /\ Bytes /\ Full
      /\ Starving /\ Kicked /\ Flowing
    BY DEF IInv
<1>2. /\ w \in Threads /\ q \in Queue /\ noted \in [Writers \union Readers -> BOOLEAN]
      /\ busy \in BOOLEAN
    BY <1>1, Roles DEF TypeOK
<1>3. PICK f, z : f = q.flow /\ z = q.wlock
    OBVIOUS
<1>4. f \in BOOLEAN /\ q = [q EXCEPT !.flow = f, !.wlock = z]
      /\ \A y : [q EXCEPT !.wlock = y] = [q EXCEPT !.flow = f, !.wlock = y]
    BY <1>2, <1>3 DEF Queue
<1>5. pc[w] # "idle" => z = w
    BY <1>1, <1>3 DEF Locks
<1>6. CASE QBWriteWakeup(w)
  <2>1. /\ pc[w] = "wakerr" /\ busy' = (busy \/ use \in {"output", "console"})
        /\ Wakeup(Readers, w, "flow")
        /\ UNCHANGED <<use, mode, q, held, want, noted, next>>
      BY <1>6 DEF QBWriteWakeup
  <2>2. busy' \in BOOLEAN /\ (busy => busy') /\ (use \in {"output", "console"} => busy')
      BY <2>1, Zenon
  <2>3. "flow" \in WriterAt /\ Moved(w, "flow", Readers)
      BY <2>1, <1>1, <1>2, MovedWakeup DEF WriterAt
  <2>4. q' = [q EXCEPT !.flow = f, !.wlock = w]
      BY <2>1, <1>4, <1>5
  <2>5. QED  BY <2>1, <2>2, <2>3, <2>4, <1>2, <1>4, WriterKeeps, ZenonT(40)
<1>7. CASE QBWriteFlow(w)
  <2>1. pc[w] = "flow" /\ UNCHANGED <<use, mode, held, want, noted, next, busy>>
      BY <1>7 DEF QBWriteFlow
  <2>2. CASE q.noblock \/ qnotfull
    <3>1. "idle" \in WriterAt /\ Moved(w, "idle", {}) /\ q' = [q EXCEPT !.wlock = Nil]
        BY <2>2, <1>7, <1>1, <1>2, MovedGoto DEF WriterAt, QBWriteFlow
    <3>2. q' = [q EXCEPT !.flow = f, !.wlock = Nil]
        BY <3>1, <1>4
    <3>3. QED  BY <2>1, <3>1, <3>2, <1>2, <1>4, WriterKeeps
  <2>3. CASE ~(q.noblock \/ qnotfull)
    <3>1. "setflow" \in WriterAt /\ Moved(w, "setflow", {}) /\ q' = q
        BY <2>3, <1>7, <1>1, <1>2, MovedGoto DEF WriterAt, QBWriteFlow
    <3>2. q' = [q EXCEPT !.flow = f, !.wlock = w]
        BY <2>1, <3>1, <1>4, <1>5
    <3>3. use # "kprint"
        BY <2>3, <1>1 DEF Unblocked
    <3>4. QED  BY <2>1, <3>1, <3>2, <3>3, <1>2, <1>4, WriterKeeps, ZenonT(40)
  <2>4. QED  BY <2>2, <2>3
<1>8. CASE QBWriteSet(w)
  <2>1. /\ pc[w] = "setflow" /\ UNCHANGED <<use, mode, held, want, noted, next, busy>>
        /\ q' = [q EXCEPT !.flow = TRUE] /\ use # "kprint"
      BY <1>1, <1>8 DEF QBWriteSet, Unblocked
  <2>2. "sleep" \in WriterAt /\ Moved(w, "sleep", {})
      BY <1>8, <1>1, <1>2, MovedGoto DEF WriterAt, QBWriteSet
  <2>3. q' = [q EXCEPT !.flow = TRUE, !.wlock = w]
      BY <2>1, <1>2, <1>3, <1>5 DEF Queue
  <2>4. TRUE \in BOOLEAN
      OBVIOUS
  <2>5. QED  BY <2>1, <2>2, <2>3, <2>4, <1>2, WriterKeeps
<1>9. CASE QBWriteSleep(w)
  <2>1. UNCHANGED <<use, mode, held, want, next, busy>>
      BY <1>9 DEF QBWriteSleep
  <2>2. CASE /\ pc[w] \in {"sleep", "back"} /\ noted[w] /\ noted' = [noted EXCEPT ![w] = FALSE]
             /\ q' = [q EXCEPT !.wlock = Nil] /\ Goto(w, "idle")
    <3>1. "idle" \in WriterAt /\ Moved(w, "idle", {})
        BY <2>2, <1>1, <1>2, MovedGoto DEF WriterAt
    <3>2. q' = [q EXCEPT !.flow = f, !.wlock = Nil] /\ pc[w] \notin {"idle", "wakerr"}
        BY <2>2, <1>4
    <3>3. noted' \in [Writers \union Readers -> BOOLEAN]
        BY <2>2, <1>2
    <3>4. QED  BY <2>1, <3>1, <3>2, <3>3, <1>2, <1>4, WriterKeeps
  <2>3. ASSUME NEW l \in {"flow", "asleep"}, Goto(w, l), UNCHANGED <<q, noted>>,
               pc[w] \in {"sleep", "back"},
               l = "asleep" => pc[w] = "sleep" /\ ~qnotfull
        PROVE  IInv'
    <3>1. l \in WriterAt /\ Moved(w, l, {})
        BY <2>3, <1>1, <1>2, MovedGoto DEF WriterAt
    <3>2. q' = [q EXCEPT !.flow = f, !.wlock = w] /\ pc[w] \notin {"idle", "wakerr"}
        BY <2>3, <1>4, <1>5
    <3>3. use # "kprint"
        BY <2>3, <1>1 DEF Unblocked
    <3>4. FlowAssumption /\ l = "asleep" => f /\ ~q.closed /\ q.blocks # << >>
      <4>1. SUFFICES ASSUME FlowAssumption, l = "asleep"
                     PROVE  q.flow /\ ~q.closed /\ q.blocks # << >>
          BY <1>3
      <4>2. ~q.closed /\ ~(q.len < q.limit) /\ q.len \in Int /\ q.limit \in Lims
          BY <4>1, <2>3, <1>1, <1>2 DEF qnotfull, TypeOK, Queue
      <4>3. ~Low
        <5>1. Sum(Allocs(held)) \in Nat
          <6>1. held \in Seq(Block)
              BY <1>1 DEF TypeOK
          <6>2. PICK a : a = Allocs(held)
              OBVIOUS
          <6>3. a \in Seq(Nat) /\ Len(a) \in 0 .. Len(a)
              BY <6>1, <6>2, Numbers
          <6>4. QED  BY <6>2, <6>3, SumNat DEF Sum
        <5>2. Low => q.len + Sum(Allocs(held)) < q.limit
            BY <4>2 DEF Low
        <5>3. q.limit \in Nat
            BY <4>2, Limit
        <5>4. QED  BY <5>1, <5>2, <5>3, <4>2
      <4>4. q.flow
          BY <4>1, <4>2, <4>3, <2>3, <1>1 DEF Flowing
      <4>5. q.blocks # << >>
        <5>1. PICK k, n : Holds(q, k, n)
            BY <1>1 DEF Bytes
        <5>2. q.blocks = << >> => q.len = 0
            BY <5>1, NoBlocks
        <5>3. q.limit \in Nat \ {0, 1}
            BY <4>2, Limit
        <5>4. QED  BY <5>2, <5>3, <4>2
      <4>6. QED  BY <4>2, <4>4, <4>5
    <3>5. QED  BY <2>1, <2>3, <3>1, <3>2, <3>3, <3>4, <1>2, <1>4, WriterKeeps
  <2>4. QED
    <3>1. CASE pc[w] = "sleep" /\ ~noted[w]
      <4>1. PICK l : l = IF qnotfull THEN "flow" ELSE "asleep"
          OBVIOUS
      <4>2. Goto(w, l) /\ UNCHANGED <<q, noted>>
          BY <3>1, <4>1, <1>9 DEF QBWriteSleep
      <4>3. l \in {"flow", "asleep"} /\ (l = "asleep" => ~qnotfull)
          BY <4>1
      <4>4. QED  BY <3>1, <4>2, <4>3, <2>3
    <3>2. CASE pc[w] = "back" /\ ~noted[w]
      <4>1. Goto(w, "flow") /\ UNCHANGED <<q, noted>>
          BY <3>2, <1>9 DEF QBWriteSleep
      <4>2. QED  BY <3>2, <4>1, <2>3
    <3>3. QED  BY <3>1, <3>2, <2>2, <1>9 DEF QBWriteSleep
<1>10. QED  BY <1>6, <1>7, <1>8, <1>9 DEF WriterStep

\* Sums of blocks are natural numbers.
LEMMA SumsNat ==
    ASSUME NEW bs \in Seq(Block)
    PROVE  Sum(Allocs(bs)) \in Nat /\ Sum(Lens(bs)) \in Nat
<1>1. PICK a, l : a = Allocs(bs) /\ l = Lens(bs)
    OBVIOUS
<1>2. a \in Seq(Nat) /\ l \in Seq(Nat)
    BY <1>1, Numbers
<1>3. Len(a) \in 0 .. Len(a) /\ Len(l) \in 0 .. Len(l)
    BY <1>2
<1>4. QED  BY <1>1, <1>2, <1>3, SumNat DEF Sum

\* A queue below half its limit is below every limit.
LEMMA DrainedLow ==
    ASSUME FlowAssumption, NEW x \in Queue, x.limit \in Lims, Drained(x), NEW l \in Lims
    PROVE  x.len < l
<1>1. x.limit \div 2 <= l
    BY DEF FlowAssumption
<1>2. x.len < x.limit \div 2 /\ x.len \in Int
    BY DEF Drained, Queue
<1>3. x.limit \in Nat /\ l \in Nat
    BY Limit
<1>4. x.limit \div 2 \in Int
    BY <1>3
<1>5. QED  BY <1>1, <1>2, <1>3, <1>4

\* An empty queue is drained.
LEMMA EmptyDrained ==
    ASSUME NEW x, NEW m, NEW n, Holds(x, m, n), x.blocks = << >>, x.flow
    PROVE  Drained(x)
<1>1. x.len = 0
    BY NoBlocks
<1>2. x.limit \in Nat \ {0, 1}
    BY DEF Holds, Queue
<1>3. 0 < x.limit \div 2
    BY <1>2
<1>4. QED  BY <1>1, <1>3 DEF Drained

\* r has, or takes, rlock.
Reading(r) == pc[r] # "idle" \/ (ByReaders /\ q.rlock = Nil)

LEMMA ReadingAlone ==
    ASSUME TypeOK, Locks, NEW r \in Readers, Reading(r)
    PROVE  ByReaders /\ \A o \in Readers : o # r => pc[o] = "idle"
<1>1. CASE pc[r] # "idle"
    BY <1>1 DEF Locks
<1>2. CASE ByReaders /\ q.rlock = Nil
    BY <1>2, Roles DEF Locks
<1>3. QED  BY <1>1, <1>2 DEF Reading

\* A step of a reader.
LEMMA ReaderKeeps ==
    ASSUME IInv, NEW r \in Readers, Reading(r),
           UNCHANGED <<use, mode, next, busy>>,
           noted' \in [Writers \union Readers -> BOOLEAN],
           NEW l \in ReaderAt, NEW S, S \in {{}, Writers}, Moved(r, l, S),
           pc[r] = "wakewr" => S = Writers,
           q' \in Queue, q'.limit = q.limit, q'.closed = q.closed, q'.noblock = q.noblock,
           q'.wlock = q.wlock, l # "idle" => q'.rlock = r,
           Bytes', Full', held' \in Seq(Block), want' \in Int,
           l # "copy" => held' = << >>,
           l = "copy" => held' # << >> /\ Sum(Lens(held')) - BLEN(Last(held')) < want',
           l \in {"sleep", "asleep"} => q'.starve,
           l = "asleep" => q'.blocks = << >> /\ ~q'.closed,
           FlowAssumption /\ use = "pipe" =>
               /\ Low => Low'
               /\ q.flow => q'.flow \/ (l = "wakewr" /\ Low')
               /\ q.flow /\ q'.flow /\ (q.blocks # << >> \/ pc[r] = "copy") =>
                     q'.blocks # << >> \/ l = "copy"
    PROVE  IInv'
<1>1. /\ TypeOK /\ Locks /\ Unblocked /\ Copying /\ Bytes /\ Full
      /\ Starving /\ Kicked /\ Flowing
    BY DEF IInv
<1>2. r \in Threads /\ pc'[r] = l
    BY Roles DEF Moved
<1>3. ByReaders /\ \A o \in Readers : o # r => pc[o] = "idle"
    BY <1>1, ReadingAlone
<1>4. \A o \in Readers : o # r => pc'[o] = "idle"
    BY <1>3, Roles DEF Moved
<1>5. \A w \in Writers : pc'[w] = IF w \in S /\ pc[w] = "asleep" THEN "back" ELSE pc[w]
    BY Roles DEF Moved
<1>6. TypeOK'
    BY <1>1, <1>2, MovedType, Roles DEF TypeOK
<1>7. Locks'
  <2>1. ASSUME NEW o \in Readers, pc'[o] # "idle" PROVE (q.rlock = o /\ ByReaders)'
    <3>1. o = r
        BY <1>4, <2>1
    <3>2. QED  BY <3>1, <2>1, <1>2, <1>3 DEF ByReaders
  <2>2. ASSUME NEW w \in Writers, pc'[w] # "idle" PROVE (q.wlock = w /\ ByWriters)'
    <3>1. pc[w] # "idle"
        BY <2>2, <1>5
    <3>2. QED  BY <3>1, <1>1 DEF Locks, ByWriters
  <2>3. QED  BY <2>1, <2>2 DEF Locks
<1>8. Unblocked'
    BY <1>1, <1>5 DEF Unblocked
<1>9. Copying'
  <2>1. (\A o \in Readers : pc'[o] # "copy") => held' = << >>
      BY <1>2
  <2>2. \A o \in Readers : pc'[o] = "copy" => o = r /\ l = "copy"
      BY <1>2, <1>4
  <2>3. QED  BY <2>1, <2>2 DEF Copying
<1>10. Starving'
  <2>1. \A o \in Readers : pc'[o] \in {"sleep", "asleep"} => o = r /\ pc'[o] = l
      BY <1>2, <1>4
  <2>2. QED  BY <2>1 DEF Starving
<1>11. Kicked'
  <2>1. use' \notin {"output", "console"}
      BY <1>3 DEF ByReaders
  <2>2. QED  BY <2>1 DEF Kicked
<1>12. Flowing'
  <2>1. SUFFICES ASSUME FlowAssumption
                 PROVE  /\ \A w \in Writers : pc'[w] = "sleep" => q'.flow \/ q'.closed \/ Low'
                        /\ WriterKept'
      BY DEF Flowing
  <2>2. \A w \in Writers : pc'[w] \in {"sleep", "asleep"} => pc'[w] = pc[w]
      BY <1>5
  <2>3. CASE use # "pipe"
    <3>1. use \in {"input", "console", "kprint"}
        BY <2>3, <1>3 DEF ByReaders
    <3>2. \A w \in Writers : pc'[w] \notin {"sleep", "asleep"}
        BY <2>1, <2>2, <3>1, <1>1, NoneStopped
    <3>3. QED  BY <3>2 DEF WriterKept
  <2>4. CASE use = "pipe"
    <3>1. /\ Low => Low'
          /\ q.flow => q'.flow \/ (l = "wakewr" /\ Low')
          /\ q.flow /\ q'.flow /\ (q.blocks # << >> \/ pc[r] = "copy") =>
                q'.blocks # << >> \/ l = "copy"
        BY <2>1, <2>4
    <3>2. ASSUME NEW w \in Writers, pc'[w] = "sleep" PROVE q'.flow \/ q'.closed \/ Low'
      <4>1. q.flow \/ q.closed \/ Low
          BY <2>1, <2>2, <3>2, <1>1 DEF Flowing
      <4>2. q'.closed = q.closed
          OBVIOUS
      <4>3. QED  BY <3>1, <4>1, <4>2
    <3>3. ASSUME NEW w \in Writers, pc'[w] = "asleep"
          PROVE  WrComing' \/ (q'.flow /\ ~q'.closed /\ (q'.blocks # << >> \/ Going("copy")'))
      <4>1. pc[w] = "asleep" /\ S = {}
          BY <2>2, <3>3, <1>5
      <4>2. Going(l)' /\ (Going("wakewr") => Going("wakewr")')
            /\ (pc[Closer] = "wakerr" => pc'[Closer] = "wakerr")
        <5>1. pc[r] # "wakewr" /\ r # Closer /\ "wakewr" # "asleep"
          <6>1. w \in Writers
              OBVIOUS
          <6>2. QED  BY <6>1, <4>1, Roles
        <5>2. QED  BY <5>1, <1>2, Stays
      <4>3. CASE WrComing
          BY <4>2, <4>3 DEF WrComing
      <4>4. CASE ~WrComing
        <5>1. q.flow /\ ~q.closed /\ (q.blocks # << >> \/ Going("copy"))
            BY <4>1, <4>4, <2>1, <1>1 DEF Flowing, WriterKept
        <5>2. Going("copy") => pc[r] = "copy"
          <6>1. ASSUME NEW t \in Threads, pc[t] = "copy" PROVE t = r
            <7>1. t \in Readers
                BY <6>1, <1>1 DEF TypeOK, Threads, WriterAt, OtherAt
            <7>2. QED  BY <7>1, <6>1, <1>3
          <6>2. QED  BY <6>1 DEF Going
        <5>3. CASE q'.flow
          <6>1. q'.blocks # << >> \/ l = "copy"
              BY <5>1, <5>2, <5>3, <3>1
          <6>2. QED  BY <6>1, <5>1, <5>3, <4>2
        <5>4. CASE ~q'.flow
            BY <5>1, <5>4, <3>1, <4>2 DEF WrComing
        <5>5. QED  BY <5>3, <5>4
      <4>5. QED  BY <4>3, <4>4
    <3>4. WriterKept'
        BY <3>3 DEF WriterKept
    <3>5. QED  BY <3>2, <3>4
  <2>5. QED  BY <2>3, <2>4
<1>13. QED
    BY <1>6, <1>7, <1>8, <1>9, <1>10, <1>11, <1>12 DEF IInv

\* A reader leaves the queue x behind, and has copied out what it held.
LEMMA ReaderLeaves ==
    ASSUME IInv, NEW r \in Readers, Reading(r), pc[r] # "wakewr", NEW x, Leave(r, x), Same(q, x),
           NEW k, NEW n, Holds(x, k, n), next = n % K, use \notin Empties => Filled(x.blocks),
           x.len <= q.len + Sum(Allocs(held)),
           UNCHANGED <<use, mode, noted, next, busy>>, held' = << >>, want' \in Int
    PROVE  IInv'
<1>1. /\ TypeOK /\ Locks /\ Unblocked /\ Copying /\ Bytes /\ Full
      /\ Starving /\ Kicked /\ Flowing
    BY DEF IInv
<1>2. x \in Queue /\ q \in Queue /\ x.limit \in Lims /\ k \in Int /\ n \in Int
    BY <1>1 DEF Holds, Same, TypeOK
<1>3. /\ x.limit = q.limit /\ x.starve = q.starve /\ x.flow = q.flow /\ x.closed = q.closed
      /\ x.noblock = q.noblock /\ x.rlock = q.rlock /\ x.wlock = q.wlock
    BY DEF Same
<1>4. held' \in Seq(Block) /\ held \in Seq(Block) /\ Sum(Allocs(held')) = 0
      /\ noted' \in [Writers \union Readers -> BOOLEAN]
    BY <1>1, SumNone DEF TypeOK
<1>5. ASSUME q' \in Queue, q'.blocks = x.blocks, q'.len = x.len, q'.dlen = x.dlen PROVE Bytes' /\ Full'
  <2>1. Holds(q', k, n)
      BY <1>5 DEF Holds, Counted
  <2>2. Span(held', k, k)
      BY SpanNone
  <2>3. Bytes'
      BY <2>1, <2>2, <1>2 DEF Bytes
  <2>4. QED  BY <2>3, <1>5, FilledNone DEF Full
<1>6. x.len \in Int /\ q.len \in Int /\ Sum(Allocs(held)) \in Nat
    BY <1>2, <1>4, SumsNat DEF Queue
<1>7. CASE Drained(x)
  <2>1. q' = [Restarted(x) EXCEPT !.rlock = r] /\ Goto(r, "wakewr")
      BY <1>7 DEF Leave
  <2>2. /\ q' \in Queue /\ q'.blocks = x.blocks /\ q'.len = x.len /\ q'.dlen = x.dlen
        /\ q'.limit = x.limit /\ q'.closed = x.closed /\ q'.noblock = x.noblock
        /\ q'.wlock = x.wlock /\ q'.rlock = r
    <3>1. PICK f : f = (x.flow /\ ~Drained(x))
        OBVIOUS
    <3>2. f \in BOOLEAN
        BY <3>1, Zenon
    <3>3. q' = [[x EXCEPT !.flow = f] EXCEPT !.rlock = r]
        BY <2>1, <3>1 DEF Restarted
    <3>4. QED  BY <3>2, <3>3, <1>2 DEF Queue
  <2>3. "wakewr" \in ReaderAt /\ Moved(r, "wakewr", {})
      BY <2>1, <1>1, MovedGoto, Roles DEF ReaderAt
  <2>4. FlowAssumption => Low'
    <3>1. SUFFICES ASSUME FlowAssumption, NEW l \in Lims PROVE q'.len + Sum(Allocs(held')) < l
        BY DEF Low
    <3>2. x.len < l
        BY <3>1, <1>2, <1>7, DrainedLow
    <3>3. QED  BY <3>2, <2>2, <1>4, <1>6
  <2>5. Bytes' /\ Full'
      BY <2>2, <1>5
  <2>6. FlowAssumption /\ use = "pipe" =>
            /\ Low => Low'
            /\ q.flow => q'.flow \/ ("wakewr" = "wakewr" /\ Low')
            /\ q.flow /\ q'.flow /\ (q.blocks # << >> \/ pc[r] = "copy") =>
                  q'.blocks # << >> \/ "wakewr" = "copy"
    <3>1. CASE q'.blocks = << >>
      <4>1. ~q'.flow
          BY <2>1, <1>2, <1>7 DEF Restarted, Queue
      <4>2. QED  BY <4>1, <2>4
    <3>2. CASE q'.blocks # << >>
        BY <3>2, <2>4
    <3>3. QED  BY <3>1, <3>2
  <2>7. QED  BY <2>2, <2>3, <2>5, <2>6, <1>3, <1>4, ReaderKeeps
<1>8. CASE ~Drained(x)
  <2>1. q' = [x EXCEPT !.rlock = Nil] /\ Goto(r, "idle")
      BY <1>8 DEF Leave
  <2>2. /\ q' \in Queue /\ q'.blocks = x.blocks /\ q'.len = x.len /\ q'.dlen = x.dlen
        /\ q'.limit = x.limit /\ q'.closed = x.closed /\ q'.noblock = x.noblock
        /\ q'.wlock = x.wlock /\ q'.flow = x.flow
      BY <2>1, <1>2 DEF Queue
  <2>3. "idle" \in ReaderAt /\ Moved(r, "idle", {})
      BY <2>1, <1>1, MovedGoto, Roles DEF ReaderAt
  <2>4. Bytes' /\ Full'
      BY <2>2, <1>5
  <2>5. Low => Low'
    <3>1. SUFFICES ASSUME Low, NEW l \in Lims PROVE q'.len + Sum(Allocs(held')) < l
        BY DEF Low
    <3>2. q.len + Sum(Allocs(held)) < l /\ l \in Nat
        BY <3>1, Limit DEF Low
    <3>3. QED  BY <3>2, <2>2, <1>4, <1>6
  <2>6. q'.flow => q'.blocks # << >>
      BY <2>2, <1>8, EmptyDrained
  <2>7. FlowAssumption /\ use = "pipe" =>
            /\ Low => Low'
            /\ q.flow => q'.flow \/ ("idle" = "wakewr" /\ Low')
            /\ q.flow /\ q'.flow /\ (q.blocks # << >> \/ pc[r] = "copy") =>
                  q'.blocks # << >> \/ "idle" = "copy"
      BY <2>2, <2>5, <2>6, <1>3
  <2>8. QED  BY <2>2, <2>3, <2>4, <2>7, <1>3, <1>4, ReaderKeeps
<1>9. QED  BY <1>7, <1>8

\* A step of a reader that leaves the blocks alone, and copies nothing.
LEMMA ReaderQuiet ==
    ASSUME IInv, NEW r \in Readers, Reading(r), pc[r] # "copy",
           UNCHANGED <<use, mode, held, want, next, busy>>,
           noted' \in [Writers \union Readers -> BOOLEAN],
           NEW l \in ReaderAt, l # "copy", NEW S, S \in {{}, Writers}, Moved(r, l, S),
           pc[r] = "wakewr" => S = Writers,
           NEW b \in BOOLEAN, NEW z \in {r, Nil}, q' = [q EXCEPT !.starve = b, !.rlock = z],
           l # "idle" => z = r,
           l \in {"sleep", "asleep"} => b,
           l = "asleep" => q.blocks = << >> /\ ~q.closed
    PROVE  IInv'
<1>1. /\ TypeOK /\ Locks /\ Unblocked /\ Copying /\ Bytes /\ Full
      /\ Starving /\ Kicked /\ Flowing
    BY DEF IInv
<1>2. /\ q' \in Queue /\ q'.blocks = q.blocks /\ q'.len = q.len /\ q'.dlen = q.dlen
      /\ q'.limit = q.limit /\ q'.closed = q.closed /\ q'.noblock = q.noblock
      /\ q'.wlock = q.wlock /\ q'.flow = q.flow /\ q'.starve = b /\ q'.rlock = z
    BY <1>1 DEF TypeOK, Queue
<1>3. Bytes' /\ Full'
    BY <1>1, <1>2, Untouched
<1>4. held = << >>
    BY <1>1, ReadingAlone DEF Copying
<1>5. held' = << >> /\ held' \in Seq(Block) /\ want' \in Int
    BY <1>1, <1>4 DEF TypeOK
<1>6. Low => Low'
    BY <1>2 DEF Low
<1>7. FlowAssumption /\ use = "pipe" =>
          /\ Low => Low'
          /\ q.flow => q'.flow \/ (l = "wakewr" /\ Low')
          /\ q.flow /\ q'.flow /\ (q.blocks # << >> \/ pc[r] = "copy") =>
                q'.blocks # << >> \/ l = "copy"
    BY <1>2, <1>6
<1>8. QED  BY <1>2, <1>3, <1>5, <1>7, ReaderKeeps

LEMMA QReadSleepKeeps ==
    ASSUME IInv, NEW r \in Readers, QReadSleep(r)
    PROVE  IInv'
<1>1. TypeOK /\ Locks /\ Starving
    BY DEF IInv
<1>2. q \in Queue /\ noted \in [Writers \union Readers -> BOOLEAN] /\ r \in Threads
    BY <1>1, Roles DEF TypeOK
<1>3. UNCHANGED <<use, mode, held, want, next, busy>>
    BY DEF QReadSleep
<1>4. PICK b, z : b = q.starve /\ z = q.rlock
    OBVIOUS
<1>5. b \in BOOLEAN /\ q = [q EXCEPT !.starve = b, !.rlock = z]
      /\ \A y : [q EXCEPT !.rlock = y] = [q EXCEPT !.starve = b, !.rlock = y]
    BY <1>2, <1>4 DEF Queue
<1>6. CASE /\ pc[r] \in {"sleep", "back"} /\ noted[r] /\ noted' = [noted EXCEPT ![r] = FALSE]
           /\ q' = [q EXCEPT !.rlock = Nil] /\ Goto(r, "idle")
  <2>1. "idle" \in ReaderAt /\ Moved(r, "idle", {})
      BY <1>1, <1>2, <1>6, MovedGoto DEF ReaderAt
  <2>2. q' = [q EXCEPT !.starve = b, !.rlock = Nil] /\ pc[r] \notin {"idle", "copy", "wakewr"}
      BY <1>5, <1>6
  <2>3. noted' \in [Writers \union Readers -> BOOLEAN] /\ Reading(r)
      BY <1>2, <1>6 DEF Reading
  <2>4. QED  BY <2>1, <2>2, <2>3, <1>3, <1>5, ReaderQuiet
<1>7. ASSUME NEW l \in {"wait", "asleep"}, Goto(r, l), UNCHANGED <<q, noted>>,
             pc[r] \in {"sleep", "back"}, l = "asleep" => pc[r] = "sleep" /\ ~notempty
      PROVE  IInv'
  <2>1. l \in ReaderAt /\ Moved(r, l, {})
      BY <1>1, <1>2, <1>7, MovedGoto DEF ReaderAt
  <2>2. q' = [q EXCEPT !.starve = b, !.rlock = r] /\ pc[r] \notin {"idle", "copy", "wakewr"}
    <3>1. z = r
        BY <1>1, <1>4, <1>7 DEF Locks
    <3>2. QED  BY <3>1, <1>5, <1>7
  <2>3. Reading(r)
      BY <2>2 DEF Reading
  <2>4. l = "asleep" => b /\ q.blocks = << >> /\ ~q.closed
      BY <1>1, <1>4, <1>7 DEF notempty, Starving
  <2>5. QED  BY <2>1, <2>2, <2>3, <2>4, <1>2, <1>3, <1>5, <1>7, ReaderQuiet
<1>8. CASE pc[r] = "sleep" /\ ~noted[r]
  <2>1. PICK l : l = IF notempty THEN "wait" ELSE "asleep"
      OBVIOUS
  <2>2. Goto(r, l) /\ UNCHANGED <<q, noted>>
      BY <1>8, <2>1 DEF QReadSleep
  <2>3. l \in {"wait", "asleep"} /\ (l = "asleep" => ~notempty)
      BY <2>1
  <2>4. QED  BY <2>2, <2>3, <1>7, <1>8
<1>9. CASE pc[r] = "back" /\ ~noted[r]
  <2>1. Goto(r, "wait") /\ UNCHANGED <<q, noted>>
      BY <1>9 DEF QReadSleep
  <2>2. QED  BY <2>1, <1>7, <1>9
<1>10. QED  BY <1>6, <1>8, <1>9 DEF QReadSleep

LEMMA QReadWakeupKeeps ==
    ASSUME IInv, NEW r \in Readers, QReadWakeup(r)
    PROVE  IInv'
<1>1. TypeOK
    BY DEF IInv
<1>2. q \in Queue /\ noted \in [Writers \union Readers -> BOOLEAN] /\ r \in Threads
    BY <1>1, Roles DEF TypeOK
<1>3. /\ pc[r] = "wakewr" /\ q' = [q EXCEPT !.rlock = Nil] /\ Wakeup(Writers, r, "idle")
      /\ UNCHANGED <<use, mode, held, want, noted, next, busy>>
    BY DEF QReadWakeup
<1>4. PICK b : b = q.starve
    OBVIOUS
<1>5. b \in BOOLEAN /\ q' = [q EXCEPT !.starve = b, !.rlock = Nil]
    BY <1>2, <1>3, <1>4 DEF Queue
<1>6. "idle" \in ReaderAt /\ Moved(r, "idle", Writers)
    BY <1>1, <1>2, <1>3, MovedWakeup DEF ReaderAt
<1>7. Reading(r)
    BY <1>3 DEF Reading
<1>8. QED  BY <1>2, <1>3, <1>5, <1>6, <1>7, ReaderQuiet

\* The last of some blocks, and those before it.
LEMMA LastPart ==
    ASSUME NEW bs \in Seq(Block), bs # << >>
    PROVE  /\ Last(bs) \in Block
           /\ Parts(bs, SubSeq(bs, 1, Len(bs) - 1), <<Last(bs)>>)
<1>1. PICK k : k = Len(bs) - 1
    OBVIOUS
<1>2. k \in 0 .. Len(bs) /\ Len(bs) \in 1 .. Len(bs) /\ Last(bs) = bs[Len(bs)]
    BY <1>1 DEF Last
<1>3. Last(bs) \in Block
    BY <1>2
<1>4. Parts(bs, SubSeq(bs, 1, k), SubSeq(bs, k + 1, Len(bs)))
    BY <1>2, PartsSub
<1>5. SubSeq(bs, k + 1, Len(bs)) = <<Last(bs)>>
  <2>1. PICK cs, b : cs = SubSeq(bs, k + 1, Len(bs)) /\ b = Last(bs)
      OBVIOUS
  <2>2. cs \in Seq(Block) /\ Len(cs) = Len(bs) - k /\ \A i \in 1 .. Len(cs) : bs[k + i] = cs[i]
    <3>1. PICK ts : ts = SubSeq(bs, 1, k)
        OBVIOUS
    <3>2. Len(ts) = k
        BY <3>1, <1>2
    <3>3. Parts(bs, ts, cs)
        BY <3>1, <2>1, <1>4
    <3>4. QED  BY <3>2, <3>3, <1>2 DEF Parts
  <2>3. Len(cs) = 1 /\ 1 \in 1 .. Len(cs) /\ k + 1 = Len(bs)
      BY <2>2, <1>1, <1>2
  <2>4. cs[1] = b
    <3>1. cs[1] = bs[k + 1]
        BY <2>2, <2>3
    <3>2. QED  BY <3>1, <2>1, <2>3, <1>2
  <2>5. cs = <<b>>
    <3>1. PICK ds : ds = <<b>>
        OBVIOUS
    <3>2. ds \in Seq(Block) /\ Len(ds) = 1 /\ ds[1] = b
        BY <3>1, <2>1, <1>3
    <3>3. \A i \in 1 .. Len(cs) : cs[i] = ds[i]
        BY <3>2, <2>3, <2>4
    <3>4. cs = ds
        BY <3>2, <3>3, <2>2, <2>3, SeqEqual
    <3>5. QED  BY <3>1, <3>4
  <2>6. QED  BY <2>1, <2>5
<1>6. QED  BY <1>1, <1>3, <1>4, <1>5

LEMMA QReadDoneKeeps ==
    ASSUME IInv, NEW r \in Readers, QReadDone(r)
    PROVE  IInv'
<1>1. /\ TypeOK /\ Locks /\ Copying /\ Bytes /\ Full
    BY DEF IInv
<1>2. PICK over, b, rest :
          /\ over = Sum(Lens(held)) - want /\ b = Last(held)
          /\ rest = [b EXCEPT !.data = SubSeq(b.data, Len(b.data) - over + 1, Len(b.data))]
    OBVIOUS
<1>3. PICK x : x = IF over > 0 /\ "Qmsg" \notin mode THEN PutBack(q, rest) ELSE q
    OBVIOUS
<1>4. /\ pc[r] = "copy" /\ Leave(r, x) /\ held' = << >> /\ want' = 0
      /\ UNCHANGED <<use, mode, noted, next, busy>>
    BY <1>2, <1>3 DEF QReadDone
<1>5. /\ held \in Seq(Block) /\ held # << >> /\ Sum(Lens(held)) - BLEN(b) < want
      /\ q \in Queue /\ want \in Int /\ Reading(r)
    BY <1>1, <1>2, <1>4 DEF Copying, TypeOK, Reading
<1>6. PICK m \in Int, k \in Int, n \in Int : Span(held, m, k) /\ Holds(q, k, n) /\ next = n % K
    BY <1>1 DEF Bytes
<1>7. /\ Sum(Allocs(held)) \in Nat /\ Sum(Lens(held)) \in Nat /\ q.len \in Int
    BY <1>5, SumsNat DEF Queue
<1>8. want' \in Int
    BY <1>4
<1>9. CASE ~(over > 0 /\ "Qmsg" \notin mode)
  <2>1. x = q /\ Same(q, q)
      BY <1>3, <1>9 DEF Same
  <2>2. q.len <= q.len + Sum(Allocs(held)) /\ (use \notin Empties => Filled(q.blocks))
      BY <1>1, <1>7 DEF Full
  <2>3. QED  BY <2>1, <2>2, <1>4, <1>5, <1>6, <1>8, ReaderLeaves
<1>10. CASE over > 0 /\ "Qmsg" \notin mode
  <2>1. PICK cs : cs = SubSeq(held, 1, Len(held) - 1)
      OBVIOUS
  <2>2. b \in Block /\ Parts(held, cs, <<b>>)
      BY <2>1, <1>2, <1>5, LastPart
  <2>3. PICK j \in Int : Span(cs, m, j) /\ Span(<<b>>, j, k)
      BY <2>2, <1>6, SpanSplit
  <2>4. PICK c : c = BLEN(b) - over
      OBVIOUS
  <2>5. BLEN(b) \in Nat /\ over \in Int /\ over < BLEN(b) /\ b.alloc \in Nat \ {0}
        /\ BLEN(b) <= b.alloc
    <3>1. BLEN(b) \in Nat /\ b.alloc \in Nat \ {0} /\ BLEN(b) <= b.alloc
        BY <2>2 DEF Block, BLEN
    <3>2. QED  BY <3>1, <1>2, <1>5, <1>7
  <2>6. c \in 0 .. BLEN(b) /\ c + 1 = Len(b.data) - over + 1 /\ BLEN(b) - c <= b.alloc
        /\ BLEN(b) - c = over
      BY <2>4, <2>5, <1>10 DEF BLEN
  <2>7. rest = [alloc |-> b.alloc, data |-> SubSeq(b.data, c + 1, BLEN(b))]
    <3>1. PICK s : s = SubSeq(b.data, c + 1, BLEN(b))
        OBVIOUS
    <3>2. rest = [b EXCEPT !.data = s]
        BY <3>1, <2>6, <1>2 DEF BLEN
    <3>3. rest = [alloc |-> b.alloc, data |-> s]
        BY <3>2, <2>2 DEF Block
    <3>4. QED  BY <3>1, <3>3
  <2>8. Cut(b, c, rest) /\ BLEN(rest) = over
      BY <2>2, <2>5, <2>6, <2>7, CutBlock
  <2>9. Span(<<rest>>, j + c, k) /\ j + c \in Int /\ rest \in Block
    <3>1. Span(<<rest>>, j + c, k)
        BY <2>3, <2>8, SpanCut
    <3>2. j + c \in Int
        BY <2>5, <2>6
    <3>3. rest \in Block
        BY <2>8 DEF Cut
    <3>4. QED  BY <3>1, <3>2, <3>3
  <2>10. PICK i \in Int : i = j + c
      BY <2>9
  <2>11. /\ Holds(PutBack(q, rest), i, n) /\ Same(q, PutBack(q, rest))
         /\ PutBack(q, rest).blocks = <<rest>> \o q.blocks
         /\ PutBack(q, rest).len = q.len + rest.alloc
      BY <2>9, <2>10, <1>6, PutBackHolds
  <2>12. x = PutBack(q, rest)
      BY <1>3, <1>10
  <2>13. rest.alloc = b.alloc /\ Sum(Allocs(held)) = Sum(Allocs(cs)) + b.alloc /\ Sum(Allocs(cs)) \in Nat
      BY <2>2, <2>7, SumBlocks, SumBlock
  <2>14. x.len <= q.len + Sum(Allocs(held))
      BY <2>5, <2>11, <2>12, <2>13, <1>7
  <2>15. use \notin Empties => Filled(x.blocks)
    <3>1. q.blocks \in Seq(Block) /\ Parts(<<rest>> \o q.blocks, <<rest>>, q.blocks)
        BY <2>9, <1>5, PartsCons DEF Queue
    <3>2. BLEN(rest) > 0
        BY <2>8, <1>10
    <3>3. PICK bs : bs = <<rest>> \o q.blocks
        OBVIOUS
    <3>4. Filled(<<rest>>) /\ x.blocks = bs /\ Parts(bs, <<rest>>, q.blocks)
        BY <3>1, <3>2, <3>3, <2>11, <2>12, FilledOne
    <3>5. QED  BY <3>4, <1>1, FilledAppend DEF Full
  <2>16. QED
      BY <2>11, <2>12, <2>14, <2>15, <1>4, <1>5, <1>6, <1>8, ReaderLeaves
<1>11. QED  BY <1>9, <1>10

\* The blocks that qread() takes: some, and without the last too few bytes.
LEMMA TakenIs ==
    ASSUME q \in Queue, q.blocks # << >>, NEW n \in Nat \ {0}
    PROVE  /\ Taken(n) \in 1 .. Len(q.blocks)
           /\ Taken(n) > 1 => Sum(Lens(SubSeq(q.blocks, 1, Taken(n) - 1))) < n
<1>1. PICK bs : bs = q.blocks
    OBVIOUS
<1>2. bs \in Seq(Block) /\ Len(bs) \in Nat \ {0} /\ DOMAIN bs = 1 .. Len(bs)
    BY <1>1 DEF Queue
<1>3. CASE "Qcoalesce" \notin mode
  <2>1. Taken(n) = 1
      BY <1>3 DEF Taken
  <2>2. QED  BY <2>1, <1>1, <1>2
<1>4. CASE "Qcoalesce" \in mode
  <2> DEFINE P(k) == /\ k = Len(bs) \/ Sum(Lens(SubSeq(bs, 1, k))) >= n
                     /\ \A j \in 1 .. k - 1 : Sum(Lens(SubSeq(bs, 1, j))) < n
             T == {k \in 1 .. Len(bs) : k = Len(bs) \/ Sum(Lens(SubSeq(bs, 1, k))) >= n}
  <2>1. Taken(n) = CHOOSE k \in DOMAIN bs : P(k)
      BY <1>1, <1>4 DEF Taken
  <2>2. Len(bs) \in T /\ T \in SUBSET Nat
      BY <1>2
  <2>3. PICK k \in T : \A j \in T : k <= j
      BY <2>2, Least
  <2>4. k \in 1 .. Len(bs) /\ (k = Len(bs) \/ Sum(Lens(SubSeq(bs, 1, k))) >= n)
      OBVIOUS
  <2>5. ASSUME NEW j \in 1 .. k - 1 PROVE Sum(Lens(SubSeq(bs, 1, j))) < n
    <3>1. j \in 1 .. Len(bs) /\ ~(k <= j) /\ j \in 0 .. Len(bs)
      <4>1. PICK e : e = Len(bs)
          OBVIOUS
      <4>2. k \in 1 .. e /\ e \in Nat /\ j \in 1 .. k - 1
          BY <4>1, <2>4, <1>2
      <4>3. j \in 1 .. e /\ ~(k <= j) /\ j \in 0 .. e
          BY <4>2
      <4>4. QED  BY <4>1, <4>3
    <3>2. ~(Sum(Lens(SubSeq(bs, 1, j))) >= n)
        BY <3>1, <2>3
    <3>3. PICK cs, ds : cs = SubSeq(bs, 1, j) /\ ds = SubSeq(bs, j + 1, Len(bs))
        OBVIOUS
    <3>4. Parts(bs, cs, ds)
        BY <3>1, <3>3, <1>2, PartsSub
    <3>5. Sum(Lens(cs)) \in Nat
        BY <3>4, SumBlocks
    <3>6. QED  BY <3>2, <3>3, <3>5
  <2>6. P(k)
      BY <2>4, <2>5
  <2>7. k \in DOMAIN bs
      BY <2>4, <1>2
  <2> HIDE DEF P
  <2>8. Taken(n) \in DOMAIN bs /\ P(Taken(n))
      BY <2>1, <2>6, <2>7
  <2>9. PICK t : t = Taken(n)
      OBVIOUS
  <2>10. t \in 1 .. Len(bs) /\ P(t)
      BY <2>8, <2>9, <1>2
  <2>11. t > 1 => t - 1 \in 1 .. t - 1
      BY <2>10
  <2>12. t > 1 => Sum(Lens(SubSeq(bs, 1, t - 1))) < n
      BY <2>10, <2>11 DEF P
  <2>13. QED  BY <2>9, <2>10, <2>12, <1>1
<1>5. QED  BY <1>3, <1>4

LEMMA QReadTakeKeeps ==
    ASSUME IInv, NEW r \in Readers, Reading(r), pc[r] \in {"idle", "wait"}, q.blocks # << >>,
           NEW n \in Wants, QReadTake(r, n), UNCHANGED <<use, mode, noted, next, busy>>
    PROVE  IInv'
<1>1. TypeOK /\ Locks /\ Copying /\ Bytes /\ Full
    BY DEF IInv
<1>2. n \in Nat \ {0} /\ q \in Queue /\ noted' \in [Writers \union Readers -> BOOLEAN] /\ r \in Threads
    BY <1>1, Roles, QioAssumption DEF TypeOK
<1>3. PICK k, bs, ts : k = Taken(n) /\ bs = q.blocks /\ ts = SubSeq(q.blocks, 1, k)
    OBVIOUS
<1>4. k \in 1 .. Len(bs) /\ bs \in Seq(Block)
      /\ (k > 1 => Sum(Lens(SubSeq(bs, 1, k - 1))) < n)
    BY <1>2, <1>3, TakenIs DEF Queue
<1>5. PICK m \in Int, j \in Int, e \in Int : Span(held, m, j) /\ Holds(q, j, e) /\ next = e % K
    BY <1>1 DEF Bytes
<1>6. PICK y, d : d = q.dlen - Sum(Lens(SubSeq(bs, 1, k)))
                  /\ y = With(q, SubSeq(bs, k + 1, Len(bs)), q.len - Sum(Allocs(SubSeq(bs, 1, k))), d)
    OBVIOUS
<1>7. k \in 0 .. Len(q.blocks)
    BY <1>3, <1>4
<1>8. /\ Same(q, y) /\ y.len = q.len - Sum(Allocs(ts)) /\ ts \in Seq(Block) /\ Len(ts) = k
      /\ Sum(Allocs(ts)) \in Nat /\ \E i \in Int : Span(ts, j, i) /\ Holds(y, i, e)
    BY <1>3, <1>5, <1>6, <1>7, TakenHolds
<1>9. PICK i \in Int : Span(ts, j, i) /\ Holds(y, i, e)
    BY <1>8
<1>10. q' = [y EXCEPT !.rlock = r] /\ y \in Queue /\ held' = ts /\ want' = n /\ Goto(r, "copy")
  <2>1. /\ q' = [q EXCEPT !.blocks = SubSeq(bs, k + 1, Len(bs)), !.len = q.len - Sum(Allocs(ts)),
                          !.dlen = q.dlen - Sum(Lens(ts)), !.rlock = r]
        /\ held' = ts /\ want' = n /\ Goto(r, "copy")
      BY <1>3 DEF QReadTake
  <2>2. q' = [y EXCEPT !.rlock = r]
      BY <2>1, <1>2, <1>3, <1>6 DEF With, Queue
  <2>3. QED  BY <2>1, <2>2, <1>9 DEF Holds
<1>11. /\ q' \in Queue /\ q'.blocks = y.blocks /\ q'.len = y.len /\ q'.dlen = y.dlen
       /\ q'.limit = q.limit /\ q'.closed = q.closed /\ q'.noblock = q.noblock
       /\ q'.wlock = q.wlock /\ q'.rlock = r /\ q'.flow = q.flow
    BY <1>8, <1>10 DEF Queue, Same
<1>12. Bytes'
  <2>1. Holds(q', i, e)
      BY <1>9, <1>11 DEF Holds, Counted
  <2>2. QED  BY <2>1, <1>5, <1>9, <1>10 DEF Bytes
<1>13. y.blocks = SubSeq(bs, k + 1, Len(bs))
    BY <1>2, <1>6 DEF With, Queue
<1>14. Full'
  <2>1. Parts(bs, ts, y.blocks)
      BY <1>3, <1>4, <1>7, <1>13, PartsSub
  <2>2. QED  BY <2>1, <1>1, <1>3, <1>10, <1>11, FilledAppend DEF Full
<1>15. "copy" \in ReaderAt /\ Moved(r, "copy", {})
    BY <1>1, <1>2, <1>10, MovedGoto DEF ReaderAt
<1>16. held' # << >> /\ Sum(Lens(held')) - BLEN(Last(held')) < want'
  <2>0. ts \in Seq(Block) /\ Len(ts) = k /\ k \in Nat \ {0}
    <3>1. ts \in Seq(Block) /\ Len(ts) = k
        BY <1>8, Zenon
    <3>2. k \in 1 .. Len(bs) /\ bs \in Seq(Block)
        BY <1>4, Zenon
    <3>3. k \in Nat \ {0}
        BY <3>2
    <3>4. QED  BY <3>1, <3>3
  <2>1. ts # << >>
      BY <2>0
  <2>2. PICK cs, b : cs = SubSeq(ts, 1, Len(ts) - 1) /\ b = Last(ts)
      OBVIOUS
  <2>3. b \in Block /\ Parts(ts, cs, <<b>>)
      BY <2>1, <2>2, <1>8, LastPart
  <2>4. Sum(Lens(ts)) = Sum(Lens(cs)) + BLEN(b) /\ BLEN(b) \in Nat /\ Sum(Lens(cs)) \in Nat
      BY <2>3, SumBlocks, SumBlock
  <2>5. Sum(Lens(cs)) < n
    <3>1. CASE k = 1
      <4>1. cs = << >>
          BY <3>1, <2>2, <1>8
      <4>2. QED  BY <4>1, <1>2, SumNone
    <3>2. CASE k > 1
      <4>1. cs = SubSeq(bs, 1, k - 1)
        <5>1. PICK ds : ds = SubSeq(bs, 1, k - 1)
            OBVIOUS
        <5>2. ds \in Seq(Block) /\ Len(ds) = k - 1 /\ \A h \in 1 .. k - 1 : ds[h] = bs[h]
            BY <3>2, <5>1, <1>4
        <5>3. ts = SubSeq(bs, 1, k)
            BY <1>3
        <5>4. \A h \in 1 .. k : ts[h] = bs[h]
            BY <5>3, <1>4
        <5>5. cs \in Seq(Block) /\ Len(cs) = k - 1 /\ \A h \in 1 .. k - 1 : cs[h] = ts[h]
          <6>1. k - 1 \in 0 .. Len(ts) /\ cs = SubSeq(ts, 1, k - 1)
              BY <3>2, <2>0, <2>2
          <6>2. QED  BY <6>1, <2>0
        <5>6. \A h \in 1 .. k - 1 : h \in 1 .. k
            BY <1>4
        <5>7. \A h \in 1 .. Len(cs) : cs[h] = ds[h]
            BY <5>2, <5>4, <5>5, <5>6
        <5>8. cs = ds
            BY <5>2, <5>5, <5>7, SeqEqual
        <5>9. QED  BY <5>1, <5>8
      <4>2. QED  BY <3>2, <4>1, <1>4
    <3>3. QED  BY <3>1, <3>2, <1>4
  <2>6. held' = ts /\ want' = n
      BY <1>10
  <2>7. Sum(Lens(ts)) - BLEN(b) < n
      BY <2>4, <2>5, <1>2
  <2>8. QED  BY <2>1, <2>2, <2>6, <2>7
<1>17. held' \in Seq(Block) /\ want' \in Int
  <2>1. held' = ts /\ want' = n /\ ts \in Seq(Block)
      BY <1>8, <1>10
  <2>2. n \in Int
      BY <1>2
  <2>3. QED  BY <2>1, <2>2, Zenon
<1>18. held = << >>
    BY <1>1, ReadingAlone DEF Copying
<1>19. Low => Low'
  <2>1. q.len \in Int /\ Sum(Allocs(held)) = 0
      BY <1>2, <1>18, SumNone DEF Queue
  <2>2. q'.len + Sum(Allocs(held')) = q.len + Sum(Allocs(held))
    <3>1. held' = ts /\ q'.len = y.len
        BY <1>10, <1>11
    <3>2. y.len = q.len - Sum(Allocs(ts)) /\ Sum(Allocs(ts)) \in Nat
        BY <1>8
    <3>3. PICK a : a = Sum(Allocs(ts))
        OBVIOUS
    <3>4. Sum(Allocs(held')) = a /\ q'.len = q.len - a
        BY <3>1, <3>2, <3>3, Zenon
    <3>5. a \in Nat
        BY <3>2, <3>3
    <3>6. QED  BY <3>4, <3>5, <2>1
  <2>3. QED  BY <2>2 DEF Low
<1>20. FlowAssumption /\ use = "pipe" =>
          /\ Low => Low'
          /\ q.flow => q'.flow \/ ("copy" = "wakewr" /\ Low')
          /\ q.flow /\ q'.flow /\ (q.blocks # << >> \/ pc[r] = "copy") =>
                q'.blocks # << >> \/ "copy" = "copy"
    BY <1>11, <1>19
<1>21. QED
    BY <1>2, <1>11, <1>12, <1>14, <1>15, <1>16, <1>17, <1>20, ReaderKeeps

\* qread() drops an empty block: not where flow control counts on it.
LEMMA SkipsEmptyKeeps ==
    ASSUME IInv, NEW r \in Readers, Reading(r), pc[r] \in {"idle", "wait"}, q.blocks # << >>,
           SkipsEmpty, q' = [Removed(q) EXCEPT !.rlock = r], Goto(r, "wait"),
           UNCHANGED <<use, mode, held, want, noted, next, busy>>
    PROVE  IInv'
<1>1. TypeOK /\ Locks /\ Copying /\ Bytes /\ Full
    BY DEF IInv
<1>2. q \in Queue /\ noted' \in [Writers \union Readers -> BOOLEAN] /\ r \in Threads
      /\ q.blocks \in Seq(Block)
    BY <1>1, Roles DEF TypeOK, Queue
<1>3. PICK m \in Int, j \in Int, e \in Int : Span(held, m, j) /\ Holds(q, j, e) /\ next = e % K
    BY <1>1 DEF Bytes
<1>4. PICK x, b : x = Removed(q) /\ b = Head(q.blocks)
    OBVIOUS
<1>5. b \in Block /\ Same(q, x) /\ x.blocks = Tail(q.blocks) /\ x.len = q.len - b.alloc
      /\ \E i \in Int : Span(<<b>>, j, i) /\ Holds(x, i, e)
    BY <1>3, <1>4, RemovedHolds
<1>6. PICK i \in Int : Span(<<b>>, j, i) /\ Holds(x, i, e)
    BY <1>5
<1>7. i = j
  <2>1. i = j + BLEN(b) /\ BLEN(b) = 0
      BY <1>4, <1>5, <1>6, SpanEnd DEF SkipsEmpty
  <2>2. QED  BY <2>1
<1>8. /\ q' \in Queue /\ q'.blocks = x.blocks /\ q'.len = x.len /\ q'.dlen = x.dlen
      /\ q'.limit = q.limit /\ q'.closed = q.closed /\ q'.noblock = q.noblock
      /\ q'.wlock = q.wlock /\ q'.rlock = r /\ q'.flow = q.flow
  <2>1. q' = [x EXCEPT !.rlock = r] /\ x \in Queue
      BY <1>4, <1>6 DEF Holds
  <2>2. QED  BY <2>1, <1>5 DEF Queue, Same
<1>9. Bytes'
  <2>1. Holds(q', j, e)
      BY <1>6, <1>7, <1>8 DEF Holds, Counted
  <2>2. QED  BY <2>1, <1>3 DEF Bytes
<1>10. Parts(q.blocks, <<b>>, x.blocks)
    BY <1>2, <1>4, <1>5, PartsTail
<1>11. Full'
    BY <1>1, <1>8, <1>10, FilledAppend DEF Full
<1>12. "wait" \in ReaderAt /\ Moved(r, "wait", {})
    BY <1>1, <1>2, MovedGoto DEF ReaderAt
<1>13. held' = << >> /\ held' \in Seq(Block) /\ want' \in Int
    BY <1>1, ReadingAlone DEF Copying, TypeOK
<1>14. ~(FlowAssumption /\ use = "pipe")
  <2>1. SUFFICES ASSUME FlowAssumption, use = "pipe" PROVE FALSE
      OBVIOUS
  <2>2. PICK c : c = <<use, mode>>
      OBVIOUS
  <2>3. c \in Kinds /\ c[1] = "pipe" /\ c[2] = mode /\ "Qcoalesce" \in mode
      BY <2>1, <2>2, <1>1 DEF TypeOK, SkipsEmpty
  <2>4. use \notin Empties
      BY <2>1, <2>3 DEF FlowAssumption
  <2>5. Filled(<<b>>)
      BY <2>4, <1>1, <1>10, FilledAppend DEF Full
  <2>6. QED  BY <2>5, <1>4, FilledOne DEF SkipsEmpty
<1>15. QED
    BY <1>2, <1>8, <1>9, <1>11, <1>12, <1>13, <1>14, ReaderKeeps

LEMMA QBReadTakeKeeps ==
    ASSUME IInv, NEW r \in Readers, Reading(r), pc[r] \in {"idle", "wait"}, q.blocks # << >>,
           NEW n \in Wants, QBReadTake(r, n), UNCHANGED <<use, mode, noted, next, busy>>
    PROVE  IInv'
<1>1. TypeOK /\ Locks /\ Copying /\ Bytes /\ Full
    BY DEF IInv
<1>2. q \in Queue /\ q.blocks \in Seq(Block) /\ q.len \in Int
    BY <1>1 DEF TypeOK, Queue
<1>3. PICK b, y : b = Head(q.blocks) /\ y = Removed(q)
    OBVIOUS
<1>4. PICK d : d = SubSeq(b.data, n + 1, BLEN(b))
    OBVIOUS
<1>5. PICK c : c = [alloc |-> Alloc(Len(d)), data |-> d]
    OBVIOUS
<1>6. PICK x : x = IF BLEN(b) > n /\ "Qmsg" \notin mode THEN PutBack(y, c) ELSE y
    OBVIOUS
<1>7. Leave(r, x) /\ UNCHANGED <<held, want>>
    BY <1>3, <1>4, <1>5, <1>6 DEF QBReadTake
<1>8. held = << >>
    BY <1>1, ReadingAlone DEF Copying
<1>9. held' = << >> /\ want' \in Int /\ Sum(Allocs(held)) = 0
    BY <1>1, <1>7, <1>8, SumNone DEF TypeOK
<1>10. PICK m \in Int, j \in Int, e \in Int : Span(held, m, j) /\ Holds(q, j, e) /\ next = e % K
    BY <1>1 DEF Bytes
<1>11. b \in Block /\ Same(q, y) /\ y.blocks = Tail(q.blocks) /\ y.len = q.len - b.alloc
       /\ \E i \in Int : Span(<<b>>, j, i) /\ Holds(y, i, e)
    BY <1>3, <1>10, RemovedHolds
<1>12. PICK i \in Int : Span(<<b>>, j, i) /\ Holds(y, i, e)
    BY <1>11
<1>13. Parts(q.blocks, <<b>>, y.blocks)
    BY <1>2, <1>3, <1>11, PartsTail
<1>14. use \notin Empties => Filled(y.blocks)
    BY <1>1, <1>13, FilledAppend DEF Full
<1>15. BLEN(b) \in Nat /\ b.alloc \in Nat \ {0} /\ BLEN(b) <= b.alloc /\ b.data \in Seq(Int)
       /\ BLEN(b) = Len(b.data)
  <2>1. b \in Block
      BY <1>11
  <2>2. QED  BY <2>1 DEF Block, BLEN
<1>16. y.len \in Int /\ y.len = q.len - b.alloc
    BY <1>2, <1>11, <1>15
<1>17. CASE ~(BLEN(b) > n /\ "Qmsg" \notin mode)
  <2>1. x = y
      BY <1>6, <1>17
  <2>2. x.len <= q.len + Sum(Allocs(held))
      BY <2>1, <1>2, <1>9, <1>15, <1>16
  <2>3. Holds(x, i, e) /\ Same(q, x) /\ (use \notin Empties => Filled(x.blocks))
      BY <2>1, <1>11, <1>12, <1>14
  <2>4. QED  BY <2>2, <2>3, <1>7, <1>9, <1>10, ReaderLeaves
<1>18. CASE BLEN(b) > n /\ "Qmsg" \notin mode
  <2>1. n \in Nat \ {0}
      BY QioAssumption
  <2>2. n \in 0 .. BLEN(b) /\ BLEN(b) - n \in Nat \ {0}
      BY <2>1, <1>15, <1>18
  <2>3. Len(d) = BLEN(b) - n
    <3>1. PICK s, l : s = b.data /\ l = BLEN(b)
        OBVIOUS
    <3>2. s \in Seq(Int) /\ Len(s) = l /\ l \in Nat /\ n \in 0 .. l /\ d = SubSeq(s, n + 1, l)
        BY <3>1, <2>2, <1>4, <1>15
    <3>3. Len(SubSeq(s, n + 1, l)) = l - n
        BY <3>2
    <3>4. QED  BY <3>1, <3>2, <3>3
  <2>4. PICK a : a = Alloc(Len(d))
      OBVIOUS
  <2>5. a = BLEN(b) - n /\ a \in Nat \ {0} /\ BLEN(b) - n <= a
      BY <2>2, <2>3, <2>4 DEF Alloc
  <2>6. c = [alloc |-> a, data |-> SubSeq(b.data, n + 1, BLEN(b))]
      BY <2>4, <1>4, <1>5
  <2>7. Cut(b, n, c) /\ BLEN(c) = BLEN(b) - n
    <3>1. b \in Block
        BY <1>11
    <3>2. QED  BY <3>1, <2>2, <2>5, <2>6, CutBlock
  <2>8. Span(<<c>>, j + n, i)
      BY <2>7, <1>12, SpanCut
  <2>9. c \in Block /\ c.alloc = a
      BY <2>6, <2>7 DEF Cut
  <2>10. PICK h \in Int : h = j + n
    <3>1. j + n \in Int
        BY <2>1
    <3>2. QED  BY <3>1
  <2>11. /\ Holds(PutBack(y, c), h, e) /\ Same(y, PutBack(y, c))
         /\ PutBack(y, c).blocks = <<c>> \o y.blocks
         /\ PutBack(y, c).len = y.len + c.alloc
      BY <2>8, <2>9, <2>10, <1>12, PutBackHolds
  <2>12. x = PutBack(y, c)
      BY <1>6, <1>18
  <2>13. Holds(x, h, e) /\ Same(q, x)
      BY <2>11, <2>12, <1>11 DEF Same
  <2>14. x.len <= q.len + Sum(Allocs(held))
    <3>1. x.len = y.len + a
        BY <2>9, <2>11, <2>12
    <3>2. a <= b.alloc
        BY <2>1, <2>5, <1>15
    <3>3. QED  BY <3>1, <3>2, <2>5, <1>2, <1>9, <1>15, <1>16
  <2>15. use \notin Empties => Filled(x.blocks)
    <3>1. PICK bs : bs = <<c>> \o y.blocks
        OBVIOUS
    <3>2. y.blocks \in Seq(Block)
        BY <1>13 DEF Parts
    <3>3. Parts(bs, <<c>>, y.blocks)
        BY <3>1, <3>2, <2>9, PartsCons
    <3>4. BLEN(c) > 0
        BY <2>2, <2>7
    <3>5. Filled(<<c>>)
        BY <3>4, FilledOne
    <3>6. x.blocks = bs
        BY <3>1, <2>11, <2>12
    <3>7. QED  BY <3>3, <3>5, <3>6, <1>14, FilledAppend
  <2>16. QED  BY <2>13, <2>14, <2>15, <1>7, <1>9, <1>10, ReaderLeaves
<1>19. QED  BY <1>17, <1>18

LEMMA QReadKeeps ==
    ASSUME IInv, NEW r \in Readers, QRead(r)
    PROVE  IInv'
<1>1. TypeOK /\ Locks
    BY DEF IInv
<1>2. q \in Queue /\ noted' \in [Writers \union Readers -> BOOLEAN] /\ r \in Threads
    BY <1>1, Roles DEF TypeOK, QRead
<1>3. /\ pc[r] \in {"idle", "wait"} /\ QWait(r)
      /\ UNCHANGED <<use, mode, noted, next, busy>>
    BY DEF QRead
<1>4. Reading(r)
    BY DEF QRead, Reading
<1>5. PICK b : b = q.starve
    OBVIOUS
<1>6. b \in BOOLEAN
    BY <1>2, <1>5 DEF Queue
<1>7. CASE q.blocks # << >>
  <2>1. PICK n \in Wants :
            \/ SkipsEmpty /\ q' = [Removed(q) EXCEPT !.rlock = r]
                          /\ Goto(r, "wait") /\ UNCHANGED <<held, want>>
            \/ ~SkipsEmpty /\ QReadTake(r, n)
            \/ QBReadTake(r, n)
      BY <1>3, <1>7 DEF QWait
  <2>2. CASE /\ SkipsEmpty /\ q' = [Removed(q) EXCEPT !.rlock = r]
             /\ Goto(r, "wait") /\ UNCHANGED <<held, want>>
      BY <2>2, <1>3, <1>4, <1>7, SkipsEmptyKeeps
  <2>3. CASE QReadTake(r, n)
      BY <2>3, <1>3, <1>4, <1>7, QReadTakeKeeps
  <2>4. CASE QBReadTake(r, n)
      BY <2>4, <1>3, <1>4, <1>7, QBReadTakeKeeps
  <2>5. QED  BY <2>1, <2>2, <2>3, <2>4
<1>8. CASE q.blocks = << >> /\ q.closed
  <2>1. q' = [q EXCEPT !.rlock = Nil] /\ Goto(r, "idle") /\ UNCHANGED <<held, want>>
      BY <1>3, <1>8 DEF QWait
  <2>2. q' = [q EXCEPT !.starve = b, !.rlock = Nil]
      BY <2>1, <1>2, <1>5 DEF Queue
  <2>3. "idle" \in ReaderAt /\ Moved(r, "idle", {})
      BY <2>1, <1>1, <1>2, MovedGoto DEF ReaderAt
  <2>4. QED  BY <2>1, <2>2, <2>3, <1>2, <1>3, <1>4, <1>6, ReaderQuiet
<1>9. CASE q.blocks = << >> /\ ~q.closed
  <2>1. /\ q' = [q EXCEPT !.starve = TRUE, !.rlock = r] /\ Goto(r, "sleep")
        /\ UNCHANGED <<held, want>>
      BY <1>3, <1>9 DEF QWait
  <2>2. "sleep" \in ReaderAt /\ Moved(r, "sleep", {})
      BY <2>1, <1>1, <1>2, MovedGoto DEF ReaderAt
  <2>3. TRUE \in BOOLEAN
      OBVIOUS
  <2>4. QED  BY <2>1, <2>2, <2>3, <1>2, <1>3, <1>4, ReaderQuiet
<1>10. QED  BY <1>7, <1>8, <1>9

\* A step of the driver or of whoever closes the queue.
LEMMA OtherKeeps ==
    ASSUME IInv, NEW t \in {Driver, Closer}, NEW l \in OtherAt,
           NEW S, S \in {{}, Readers, Writers}, Moved(t, l, S),
           pc[t] = "wakerr" => S = Readers \/ l = "wakerr",
           pc[t] = "wakewr" => S = Writers \/ l = "wakewr",
           t = Closer /\ pc[t] = "wakerr" => l \in {"wakerr", "wakewr"},
           UNCHANGED <<use, mode, held, want, noted, next>>, busy' \in BOOLEAN,
           q' \in Queue, q'.limit \in Lims, q'.rlock = q.rlock, q'.wlock = q.wlock,
           use = "kprint" => q'.noblock = q.noblock,
           Bytes', Full', Kicked',
           (\E r \in Readers : pc[r] \in {"sleep", "asleep"}) =>
               /\ q'.blocks = q.blocks /\ q'.starve = q.starve
               /\ q'.closed => q.closed \/ l = "wakerr",
           FlowAssumption /\ (\E w \in Writers : pc[w] \in {"sleep", "asleep"}) =>
               /\ Low => Low'
               /\ q.closed => q'.closed
               /\ q.flow => q'.flow \/ q'.closed \/ Low'
               /\ q.flow /\ ~q.closed =>
                    \/ l = "wakewr" \/ (t = Closer /\ l = "wakerr")
                    \/ q'.flow /\ ~q'.closed /\ (q.blocks # << >> => q'.blocks # << >>)
    PROVE  IInv'
<1>1. /\ TypeOK /\ Locks /\ Unblocked /\ Copying /\ Bytes /\ Full
      /\ Starving /\ Kicked /\ Flowing
    BY DEF IInv
<1>2. t \in Threads /\ pc'[t] = l /\ t \notin Writers /\ t \notin Readers /\ pc[t] \in OtherAt
    BY <1>1, Roles DEF Moved, TypeOK
<1>3. \A w \in Writers : pc'[w] = IF w \in S /\ pc[w] = "asleep" THEN "back" ELSE pc[w]
    BY <1>2, Roles DEF Moved
<1>4. \A r \in Readers : pc'[r] = IF r \in S /\ pc[r] = "asleep" THEN "back" ELSE pc[r]
    BY <1>2, Roles DEF Moved
<1>5. TypeOK'
    BY <1>1, <1>2, MovedType, Roles DEF TypeOK
<1>6. Locks'
  <2>1. ASSUME NEW r \in Readers, pc'[r] # "idle" PROVE (q.rlock = r /\ ByReaders)'
    <3>1. pc[r] # "idle"
        BY <2>1, <1>4
    <3>2. QED  BY <3>1, <1>1 DEF Locks, ByReaders
  <2>2. ASSUME NEW w \in Writers, pc'[w] # "idle" PROVE (q.wlock = w /\ ByWriters)'
    <3>1. pc[w] # "idle"
        BY <2>2, <1>3
    <3>2. QED  BY <3>1, <1>1 DEF Locks, ByWriters
  <2>3. QED  BY <2>1, <2>2 DEF Locks
<1>7. Unblocked'
    BY <1>1, <1>3 DEF Unblocked
<1>8. Copying'
  <2>1. \A r \in Readers : pc'[r] = "copy" <=> pc[r] = "copy"
      BY <1>4
  <2>2. QED  BY <2>1, <1>1 DEF Copying
<1>9. Starving'
  <2>1. ASSUME NEW r \in Readers
        PROVE  /\ pc'[r] \in {"sleep", "asleep"} /\ q'.blocks = << >> => q'.starve
               /\ pc'[r] = "asleep" /\ (q'.blocks # << >> \/ q'.closed) => RrComing'
    <3>1. pc'[r] \in {"sleep", "asleep"} => pc'[r] = pc[r]
        BY <1>4
    <3>2. CASE pc'[r] \notin {"sleep", "asleep"}
        BY <3>2
    <3>3. CASE pc'[r] \in {"sleep", "asleep"}
      <4>1. q'.blocks = q.blocks /\ q'.starve = q.starve /\ (q'.closed => q.closed \/ l = "wakerr")
          BY <3>1, <3>3
      <4>2. pc'[r] \in {"sleep", "asleep"} /\ q'.blocks = << >> => q'.starve
          BY <3>1, <3>3, <4>1, <1>1 DEF Starving
      <4>3. ASSUME pc'[r] = "asleep", q'.blocks # << >> \/ q'.closed PROVE RrComing'
        <5>1. CASE l = "wakerr"
            BY <5>1, <1>2, Stays DEF RrComing
        <5>2. CASE l # "wakerr"
          <6>1. RrComing
              BY <3>1, <4>1, <4>3, <5>2, <1>1 DEF Starving
          <6>2. pc[t] # "wakerr"
              BY <4>3, <5>2, <1>4
          <6>3. QED  BY <6>1, <6>2, <1>2, Stays DEF RrComing
        <5>3. QED  BY <5>1, <5>2
      <4>4. QED  BY <4>2, <4>3
    <3>4. QED  BY <3>2, <3>3
  <2>2. QED  BY <2>1 DEF Starving
<1>10. Flowing'
  <2>1. SUFFICES ASSUME FlowAssumption
                 PROVE  /\ \A w \in Writers : pc'[w] = "sleep" => q'.flow \/ q'.closed \/ Low'
                        /\ WriterKept'
      BY DEF Flowing
  <2>2. \A w \in Writers : pc'[w] \in {"sleep", "asleep"} => pc'[w] = pc[w]
      BY <1>3
  <2>3. ASSUME NEW w \in Writers, pc[w] \in {"sleep", "asleep"}
        PROVE  /\ Low => Low'
               /\ q.closed => q'.closed
               /\ q.flow => q'.flow \/ q'.closed \/ Low'
               /\ q.flow /\ ~q.closed =>
                    \/ l = "wakewr" \/ (t = Closer /\ l = "wakerr")
                    \/ q'.flow /\ ~q'.closed /\ (q.blocks # << >> => q'.blocks # << >>)
      BY <2>1, <2>3
  <2>4. ASSUME NEW w \in Writers, pc'[w] = "sleep" PROVE q'.flow \/ q'.closed \/ Low'
    <3>1. pc[w] = "sleep"
        BY <2>2, <2>4
    <3>2. q.flow \/ q.closed \/ Low
        BY <2>1, <3>1, <1>1 DEF Flowing
    <3>3. QED  BY <2>3, <3>1, <3>2
  <2>5. ASSUME NEW w \in Writers, pc'[w] = "asleep"
        PROVE  WrComing' \/ (q'.flow /\ ~q'.closed /\ (q'.blocks # << >> \/ Going("copy")'))
    <3>1. pc[w] = "asleep" /\ S # Writers
        BY <2>2, <2>5, <1>3
    <3>2. CASE l = "wakewr" \/ (t = Closer /\ l = "wakerr")
        BY <3>2, <1>2, Stays DEF WrComing
    <3>3. CASE ~(l = "wakewr" \/ (t = Closer /\ l = "wakerr"))
      <4>1. pc[t] # "wakewr" /\ pc[t] # "copy" /\ (t # Closer \/ pc[t] # "wakerr")
        <5>1. pc[t] # "copy"
            BY <1>2 DEF OtherAt
        <5>2. pc[t] # "wakewr"
            BY <3>1, <3>3
        <5>3. QED  BY <5>1, <5>2, <3>3
      <4>2. /\ Going("wakewr") => Going("wakewr")'
            /\ Going("copy") => Going("copy")'
            /\ pc[Closer] = "wakerr" => pc'[Closer] = "wakerr"
          BY <4>1, <1>2, Stays
      <4>3. CASE WrComing
          BY <4>2, <4>3 DEF WrComing
      <4>4. CASE ~WrComing
        <5>1. q.flow /\ ~q.closed /\ (q.blocks # << >> \/ Going("copy"))
            BY <2>1, <3>1, <4>4, <1>1 DEF Flowing, WriterKept
        <5>2. q'.flow /\ ~q'.closed /\ (q.blocks # << >> => q'.blocks # << >>)
            BY <2>3, <3>1, <3>3, <5>1
        <5>3. QED  BY <5>1, <5>2, <4>2
      <4>5. QED  BY <4>3, <4>4
    <3>4. QED  BY <3>2, <3>3
  <2>6. WriterKept'
      BY <2>5 DEF WriterKept
  <2>7. QED  BY <2>4, <2>6
<1>11. QED
    BY <1>5, <1>6, <1>7, <1>8, <1>9, <1>10 DEF IInv

LEMMA WakeupsKeep ==
    ASSUME IInv, DriverWakeup \/ CloserWakerr \/ CloserWakewr
    PROVE  IInv'
<1>1. TypeOK /\ Bytes /\ Full /\ Kicked
    BY DEF IInv
<1>2. q \in Queue /\ q.limit \in Lims /\ busy \in BOOLEAN /\ Driver \in Threads /\ Closer \in Threads
      /\ Driver # Closer
    BY <1>1, Roles DEF TypeOK
<1>3. UNCHANGED <<use, mode, q, held, want, noted, next>>
    BY DEF DriverWakeup, CloserWakerr, CloserWakewr
<1>4. Bytes' /\ Full'
    BY <1>1, <1>2, <1>3, Untouched
<1>5. q' \in Queue /\ q'.limit \in Lims /\ q' = q
    BY <1>2, <1>3
<1>6. Low => Low'
    BY <1>3 DEF Low
<1>7. ASSUME NEW t \in {Driver, Closer}, NEW l \in OtherAt, NEW S, S \in {Readers, Writers},
             Moved(t, l, S), busy' \in BOOLEAN, busy => busy',
             pc[t] = "wakerr" => S = Readers,
             pc[t] = "wakewr" => S = Writers, t = Driver /\ use = "console" /\ pc[t] = "wakerr" => busy',
             t = Driver => l = "idle",
             t = Closer /\ pc[t] = "wakerr" => l = "wakewr"
      PROVE  IInv'
  <2>1. Kicked'
    <3>1. use \in {"output", "console"} /\ ~busy' => (Kick => Kick')
      <4>1. SUFFICES ASSUME use \in {"output", "console"}, ~busy', Kick PROVE Kick'
          OBVIOUS
      <4>2. CASE pc[Driver] = "wakerr"
        <5>1. use = "console"
            BY <4>1, <4>2, <1>1 DEF Kicked
        <5>2. t # Driver
            BY <4>1, <4>2, <5>1, <1>7
        <5>3. pc'[Driver] = "wakerr"
            BY <4>2, <5>2, <1>2, <1>7 DEF Moved
        <5>4. QED  BY <5>3 DEF Kick
      <4>3. CASE pc[Driver] # "wakerr"
        <5>1. PICK w \in Writers : pc[w] = "wakerr"
            BY <4>1, <4>3 DEF Kick
        <5>2. pc'[w] = "wakerr"
            BY <5>1, <1>7, Roles DEF Moved
        <5>3. QED  BY <5>2 DEF Kick
      <4>4. QED  BY <4>2, <4>3
    <3>2. use = "output" => pc'[Driver] # "wakerr"
      <4>1. CASE t = Driver
          BY <4>1, <1>7 DEF Moved
      <4>2. CASE t # Driver
          BY <4>2, <1>1, <1>2, <1>7 DEF Moved, Kicked
      <4>3. QED  BY <4>1, <4>2
    <3>3. use' = use /\ q' = q
        BY <1>3
    <3>4. QED  BY <3>1, <3>2, <3>3, <1>1, <1>7 DEF Kicked
  <2>2. t = Closer /\ pc[t] = "wakerr" => l \in {"wakerr", "wakewr"}
      BY <1>7
  <2>3. S \in {{}, Readers, Writers}
      BY <1>7
  <2>4. (\E r \in Readers : pc[r] \in {"sleep", "asleep"}) =>
            /\ q'.blocks = q.blocks /\ q'.starve = q.starve
            /\ q'.closed => q.closed \/ l = "wakerr"
      BY <1>5
  <2>5. FlowAssumption /\ (\E w \in Writers : pc[w] \in {"sleep", "asleep"}) =>
            /\ Low => Low'
            /\ q.closed => q'.closed
            /\ q.flow => q'.flow \/ q'.closed \/ Low'
            /\ q.flow /\ ~q.closed =>
                 \/ l = "wakewr" \/ (t = Closer /\ l = "wakerr")
                 \/ q'.flow /\ ~q'.closed /\ (q.blocks # << >> => q'.blocks # << >>)
      BY <1>5, <1>6
  <2>6. q'.rlock = q.rlock /\ q'.wlock = q.wlock /\ (use = "kprint" => q'.noblock = q.noblock)
      BY <1>5
  <2>7. QED
      BY <2>1, <2>2, <2>3, <2>4, <2>5, <2>6, <1>3, <1>4, <1>5, <1>7, OtherKeeps
<1>8. "idle" \in OtherAt /\ "wakewr" \in OtherAt /\ OtherAt \subseteq WriterAt \union ReaderAt
    BY DEF OtherAt, WriterAt, ReaderAt
<1>9. CASE DriverWakeup
  <2>1. busy' = (busy \/ (pc[Driver] = "wakerr" /\ use = "console"))
      BY <1>9 DEF DriverWakeup
  <2>2. busy' \in BOOLEAN /\ (busy => busy') /\ (use = "console" /\ pc[Driver] = "wakerr" => busy')
      BY <2>1, Zenon
  <2>3. CASE pc[Driver] = "wakerr" /\ Wakeup(Readers, Driver, "idle")
    <3>1. Moved(Driver, "idle", Readers)
        BY <2>3, <1>1, <1>2, <1>8, MovedWakeup
    <3>2. QED  BY <2>2, <2>3, <3>1, <1>2, <1>7, <1>8
  <2>4. CASE pc[Driver] = "wakewr" /\ Wakeup(Writers, Driver, "idle")
    <3>1. Moved(Driver, "idle", Writers)
        BY <2>4, <1>1, <1>2, <1>8, MovedWakeup
    <3>2. QED  BY <2>2, <2>4, <3>1, <1>2, <1>7, <1>8
  <2>5. QED  BY <2>3, <2>4, <1>9 DEF DriverWakeup
<1>10. CASE CloserWakerr
  <2>1. pc[Closer] = "wakerr" /\ Wakeup(Readers, Closer, "wakewr") /\ busy' = busy
      BY <1>10 DEF CloserWakerr
  <2>2. Moved(Closer, "wakewr", Readers)
      BY <2>1, <1>1, <1>2, <1>8, MovedWakeup
  <2>3. QED  BY <2>1, <2>2, <1>2, <1>7, <1>8
<1>11. CASE CloserWakewr
  <2>1. pc[Closer] = "wakewr" /\ Wakeup(Writers, Closer, "idle") /\ busy' = busy
      BY <1>11 DEF CloserWakewr
  <2>2. Moved(Closer, "idle", Writers)
      BY <2>1, <1>1, <1>2, <1>8, MovedWakeup
  <2>3. QED  BY <2>1, <2>2, <1>2, <1>7, <1>8
<1>12. QED  BY <1>9, <1>10, <1>11

\* Nothing is held of an output queue, and no process reads it.
LEMMA NoReaders ==
    ASSUME TypeOK, Locks, Copying, ~ByReaders \/ \A r \in Readers : pc[r] = "idle"
    PROVE  held = << >> /\ \A r \in Readers : pc[r] = "idle"
BY DEF Locks, Copying

\* pc stays as it is.
LEMMA MovedNot ==
    ASSUME TypeOK, NEW t \in Threads, NEW l, l = pc[t], pc' = pc
    PROVE  Moved(t, l, {})
BY DEF TypeOK, Moved

\* The driver of an output queue leaves the queue x behind.
LEMMA DriverLeaves ==
    ASSUME IInv, use \in {"output", "console"}, busy, pc[Driver] = "idle", NEW x, DriverLeave(x),
           Same(q, x), NEW k, NEW n, Holds(x, k, n), next = n % K,
           use \notin Empties => Filled(x.blocks), x.len <= q.len,
           UNCHANGED <<use, mode, held, want, noted, next, busy>>
    PROVE  IInv'
<1>1. /\ TypeOK /\ Locks /\ Unblocked /\ Copying /\ Bytes /\ Full
      /\ Starving /\ Kicked /\ Flowing
    BY DEF IInv
<1>2. x \in Queue /\ q \in Queue /\ x.limit \in Lims /\ k \in Int /\ n \in Int /\ Driver \in Threads
      /\ busy' \in BOOLEAN
    BY <1>1, Roles DEF Holds, Same, TypeOK
<1>3. /\ x.limit = q.limit /\ x.starve = q.starve /\ x.flow = q.flow /\ x.closed = q.closed
      /\ x.noblock = q.noblock /\ x.rlock = q.rlock /\ x.wlock = q.wlock
    BY DEF Same
<1>4. held = << >> /\ \A r \in Readers : pc[r] = "idle"
    BY <1>1, NoReaders DEF ByReaders
<1>5. Sum(Allocs(held)) = 0 /\ Sum(Allocs(held')) = 0 /\ held' = << >> /\ x.len \in Int /\ q.len \in Int
    BY <1>2, <1>4, SumNone DEF Queue
<1>6. PICK f, l : f = (x.flow /\ ~Drained(x)) /\ l = IF Drained(x) THEN "wakewr" ELSE "idle"
    OBVIOUS
<1>7. f \in BOOLEAN /\ (f => x.flow /\ ~Drained(x)) /\ (x.flow => f \/ Drained(x))
    BY <1>6, Zenon
<1>8. q' = [x EXCEPT !.flow = f] /\ Goto(Driver, l)
    BY <1>6 DEF DriverLeave, Restarted
<1>9. /\ q' \in Queue /\ q'.blocks = x.blocks /\ q'.len = x.len /\ q'.dlen = x.dlen
      /\ q'.limit = q.limit /\ q'.closed = q.closed /\ q'.noblock = q.noblock /\ q'.starve = q.starve
      /\ q'.wlock = q.wlock /\ q'.rlock = q.rlock /\ q'.flow = f
    BY <1>2, <1>3, <1>7, <1>8 DEF Queue
<1>10. l \in OtherAt /\ l \in WriterAt \union ReaderAt /\ (Drained(x) => l = "wakewr") /\ l # "wakerr"
    BY <1>6 DEF OtherAt, WriterAt, ReaderAt
<1>11. Moved(Driver, l, {})
    BY <1>1, <1>2, <1>8, <1>10, MovedGoto
<1>12. Bytes'
  <2>1. Holds(q', k, n)
      BY <1>9 DEF Holds, Counted
  <2>2. Span(held', k, k)
      BY <1>5, SpanNone
  <2>3. QED  BY <2>1, <2>2, <1>2 DEF Bytes
<1>13. Full'
    BY <1>5, <1>9, FilledNone DEF Full
<1>14. Kicked'
  <2>1. pc'[Driver] # "wakerr"
      BY <1>2, <1>10, <1>11 DEF Moved
  <2>2. QED  BY <2>1 DEF Kicked
<1>15. FlowAssumption /\ Drained(x) => Low'
  <2>1. SUFFICES ASSUME FlowAssumption, Drained(x), NEW a \in Lims PROVE q'.len + Sum(Allocs(held')) < a
      BY DEF Low
  <2>2. x.len < a
      BY <2>1, <1>2, DrainedLow
  <2>3. QED  BY <2>2, <1>5, <1>9
<1>16. Low => Low'
  <2>1. SUFFICES ASSUME Low, NEW a \in Lims PROVE q'.len + Sum(Allocs(held')) < a
      BY DEF Low
  <2>2. q.len + Sum(Allocs(held)) < a /\ a \in Nat
      BY <2>1, Limit DEF Low
  <2>3. QED  BY <2>2, <1>5, <1>9
<1>17. f => q'.blocks # << >>
    BY <1>7, <1>9, EmptyDrained
<1>18. FlowAssumption /\ (\E w \in Writers : pc[w] \in {"sleep", "asleep"}) =>
          /\ Low => Low'
          /\ q.closed => q'.closed
          /\ q.flow => q'.flow \/ q'.closed \/ Low'
          /\ q.flow /\ ~q.closed =>
               \/ l = "wakewr" \/ (Driver = Closer /\ l = "wakerr")
               \/ q'.flow /\ ~q'.closed /\ (q.blocks # << >> => q'.blocks # << >>)
    BY <1>3, <1>7, <1>9, <1>10, <1>15, <1>16, <1>17
<1>19. q'.limit \in Lims
    BY <1>2, <1>3, <1>9
<1>20. (\E r \in Readers : pc[r] \in {"sleep", "asleep"}) =>
          /\ q'.blocks = q.blocks /\ q'.starve = q.starve
          /\ q'.closed => q.closed \/ l = "wakerr"
    BY <1>4
<1>21. QED
    BY <1>2, <1>9, <1>10, <1>11, <1>12, <1>13, <1>14, <1>18, <1>19, <1>20, Roles, OtherKeeps

\* The driver stops, with the queue empty: nothing in it was of use.
LEMMA DriverStops ==
    ASSUME IInv, use \in {"output", "console"}, pc[Driver] = "idle", NEW x, Same(q, x),
           NEW n, Holds(x, n, n), next = n % K, x.blocks = << >>, x.len <= q.len,
           FlowAssumption => x = q, q' = [x EXCEPT !.starve = TRUE], busy' = FALSE,
           UNCHANGED <<use, mode, held, want, noted, next, pc>>
    PROVE  IInv'
<1>1. /\ TypeOK /\ Locks /\ Unblocked /\ Copying /\ Bytes /\ Full
      /\ Starving /\ Kicked /\ Flowing
    BY DEF IInv
<1>2. x \in Queue /\ q \in Queue /\ x.limit \in Lims /\ n \in Int /\ Driver \in Threads
    BY <1>1, Roles DEF Holds, Same, TypeOK
<1>3. held = << >> /\ \A r \in Readers : pc[r] = "idle"
    BY <1>1, NoReaders DEF ByReaders
<1>4. /\ q' \in Queue /\ q'.blocks = << >> /\ q'.len = x.len /\ q'.dlen = x.dlen /\ x.blocks = << >>
      /\ q'.limit = q.limit /\ q'.closed = q.closed /\ q'.noblock = q.noblock /\ q'.starve = TRUE
      /\ q'.wlock = q.wlock /\ q'.rlock = q.rlock /\ q'.flow = q.flow
  <2>1. /\ x.limit = q.limit /\ x.starve = q.starve /\ x.flow = q.flow /\ x.closed = q.closed
        /\ x.noblock = q.noblock /\ x.rlock = q.rlock /\ x.wlock = q.wlock
      BY DEF Same
  <2>2. QED  BY <2>1, <1>2 DEF Queue
<1>5. Bytes'
  <2>1. Holds(q', n, n)
      BY <1>4 DEF Holds, Counted
  <2>2. held' = << >>
      BY <1>3
  <2>3. Span(held', n, n)
      BY <2>2, SpanNone
  <2>4. QED  BY <2>1, <2>3, <1>2 DEF Bytes
<1>6. Full'
    BY <1>3, <1>4, FilledNone DEF Full
<1>7. Kicked'
    BY <1>1, <1>4 DEF Kicked
<1>8. busy' \in BOOLEAN
    BY Zenon
<1>9. "idle" \in OtherAt /\ Moved(Driver, "idle", {})
    BY <1>1, <1>2, MovedNot DEF OtherAt
<1>10. FlowAssumption /\ (\E w \in Writers : pc[w] \in {"sleep", "asleep"}) =>
          /\ Low => Low'
          /\ q.closed => q'.closed
          /\ q.flow => q'.flow \/ q'.closed \/ Low'
          /\ q.flow /\ ~q.closed =>
               \/ "idle" = "wakewr" \/ (Driver = Closer /\ "idle" = "wakerr")
               \/ q'.flow /\ ~q'.closed /\ (q.blocks # << >> => q'.blocks # << >>)
  <2>1. SUFFICES ASSUME FlowAssumption PROVE (Low => Low') /\ q.blocks = << >>
      BY <1>4
  <2>2. x = q
      BY <2>1
  <2>3. q'.len = q.len /\ held' = held
      BY <2>2, <1>4
  <2>4. QED  BY <2>2, <2>3, <1>4 DEF Low
<1>11. q'.limit \in Lims
    BY <1>1, <1>4 DEF TypeOK
<1>12. (\E r \in Readers : pc[r] \in {"sleep", "asleep"}) =>
          /\ q'.blocks = q.blocks /\ q'.starve = q.starve
          /\ q'.closed => q.closed \/ "idle" = "wakerr"
    BY <1>3
<1>13. QED
    BY <1>2, <1>4, <1>5, <1>6, <1>7, <1>8, <1>9, <1>10, <1>11, <1>12, Roles, OtherKeeps

\* The first block of x is used up, or n bytes of it are.
LEMMA Consumed ==
    ASSUME NEW x, NEW k, NEW e, Holds(x, k, e), x.blocks # << >>, NEW n \in Nat \ {0},
           NEW all \in BOOLEAN, n >= BLEN(Head(x.blocks)) => all, NEW y,
           y = IF all THEN Removed(x) ELSE Advanced(x, n)
    PROVE  /\ Same(x, y) /\ y.len <= x.len /\ \E j \in Int : Holds(y, j, e)
           /\ Filled(x.blocks) => Filled(y.blocks)
<1>1. x \in Queue /\ x.blocks \in Seq(Block) /\ x.len \in Int /\ k \in Int
    BY DEF Holds, Queue
<1>2. PICK b : b = Head(x.blocks)
    OBVIOUS
<1>3. b \in Block /\ b.alloc \in Nat /\ BLEN(b) \in Nat
  <2>1. b \in Block
      BY <1>1, <1>2, PartsTail
  <2>2. QED  BY <2>1, SumBlock
<1>4. CASE all
  <2>1. y = Removed(x)
      BY <1>4
  <2>2. /\ Same(x, y) /\ y.blocks = Tail(x.blocks) /\ y.len = x.len - b.alloc
        /\ \E j \in Int : Span(<<b>>, k, j) /\ Holds(y, j, e)
      BY <2>1, <1>2, RemovedHolds
  <2>3. y.len <= x.len
    <3>1. y.len = x.len - b.alloc
        BY <2>2
    <3>2. QED  BY <3>1, <1>1, <1>3
  <2>4. Filled(x.blocks) => Filled(y.blocks)
    <3>1. Parts(x.blocks, <<b>>, y.blocks)
        BY <2>2, <1>1, <1>2, PartsTail
    <3>2. QED  BY <3>1, FilledAppend
  <2>5. QED  BY <2>2, <2>3, <2>4
<1>5. CASE ~all
  <2>1. y = Advanced(x, n) /\ n < BLEN(b)
      BY <1>2, <1>3, <1>5
  <2>2. n \in 0 .. BLEN(Head(x.blocks))
      BY <2>1, <1>2, <1>3
  <2>3. /\ Holds(y, k + n, e) /\ Same(x, y) /\ y.len = x.len /\ Len(y.blocks) = Len(x.blocks)
        /\ \A i \in 2 .. Len(x.blocks) : y.blocks[i] = x.blocks[i]
        /\ BLEN(y.blocks[1]) = BLEN(b) - n
      BY <2>1, <2>2, <1>2, AdvancedHolds
  <2>4. k + n \in Int /\ y.len <= x.len
    <3>1. y.len = x.len
        BY <2>3
    <3>2. QED  BY <3>1, <1>1
  <2>5. Filled(x.blocks) => Filled(y.blocks)
    <3>1. SUFFICES ASSUME Filled(x.blocks), NEW i \in 1 .. Len(x.blocks) PROVE BLEN(y.blocks[i]) > 0
        BY <2>3 DEF Filled
    <3>2. CASE i = 1
      <4>1. BLEN(y.blocks[1]) = BLEN(b) - n
          BY <2>3
      <4>2. BLEN(b) - n > 0
          BY <2>1, <1>3
      <4>3. QED  BY <3>2, <4>1, <4>2
    <3>3. CASE i # 1
      <4>1. i \in 2 .. Len(x.blocks)
          BY <3>3, <1>1
      <4>2. y.blocks[i] = x.blocks[i]
          BY <4>1, <2>3
      <4>3. QED  BY <3>1, <4>2 DEF Filled
    <3>4. QED  BY <3>2, <3>3
  <2>6. \E j \in Int : Holds(y, j, e)
      BY <2>3, <2>4
  <2>7. QED  BY <2>3, <2>4, <2>5, <2>6
<1>6. QED  BY <1>4, <1>5

\* The blocks before the i-th, which are empty, are passed over.
Skipped(x, i) ==
    [x EXCEPT !.blocks = SubSeq(@, i, Len(@)),
              !.len = @ - Sum(Allocs(SubSeq(x.blocks, 1, i - 1)))]

LEMMA Passed ==
    ASSUME NEW x, NEW k, NEW e, Holds(x, k, e), NEW i \in 1 .. Len(x.blocks),
           \A j \in 1 .. i - 1 : BLEN(x.blocks[j]) = 0, NEW y, y = Skipped(x, i)
    PROVE  /\ Same(x, y) /\ y.len <= x.len /\ y.blocks # << >> /\ \E j \in Int : Holds(y, j, e)
           /\ Filled(x.blocks) => Filled(y.blocks)
<1>1. PICK h, d, bs : h = i - 1 /\ d = x.dlen /\ bs = SubSeq(x.blocks, 1, h)
    OBVIOUS
<1>2. x \in Queue /\ x.blocks \in Seq(Block) /\ x.len \in Int /\ x.dlen \in Int /\ k \in Int
    BY DEF Holds, Queue
<1>3. h \in 0 .. Len(x.blocks) /\ h + 1 = i /\ Len(x.blocks) - h > 0 /\ Len(x.blocks) \in Nat
    BY <1>1, <1>2
<1>4. bs \in Seq(Block) /\ Len(bs) = h /\ \A j \in 1 .. h : bs[j] = x.blocks[j]
    BY <1>1, <1>2, <1>3
<1>5. Sum(Lens(bs)) = 0
  <2>1. PICK a : a = Lens(bs)
      OBVIOUS
  <2>2. a \in Seq(Nat) /\ Len(a) = h /\ \A j \in 1 .. h : a[j] = BLEN(bs[j])
      BY <2>1, <1>4, Numbers
  <2>3. \A j \in 1 .. Len(a) : a[j] = 0
      BY <2>2, <1>1, <1>4
  <2>4. QED  BY <2>1, <2>2, <2>3, SumZero
<1>6. d = x.dlen - Sum(Lens(SubSeq(x.blocks, 1, h)))
    BY <1>1, <1>2, <1>5
<1>7. y = With(x, SubSeq(x.blocks, h + 1, Len(x.blocks)),
               x.len - Sum(Allocs(SubSeq(x.blocks, 1, h))), d)
    BY <1>1, <1>2, <1>3 DEF Skipped, With, Queue
<1>8. /\ Same(x, y) /\ Len(y.blocks) = Len(x.blocks) - h
      /\ y.len = x.len - Sum(Allocs(bs)) /\ Sum(Allocs(bs)) \in Nat
      /\ \E j \in Int : Span(bs, k, j) /\ Holds(y, j, e)
  <2>1. /\ Same(x, y) /\ Len(y.blocks) = Len(x.blocks) - h
        /\ y.len = x.len - Sum(Allocs(SubSeq(x.blocks, 1, h)))
        /\ Sum(Allocs(SubSeq(x.blocks, 1, h))) \in Nat
        /\ \E j \in Int : Span(SubSeq(x.blocks, 1, h), k, j) /\ Holds(y, j, e)
    <3>1. h \in 0 .. Len(x.blocks) /\ Holds(x, k, e)
        BY <1>3
    <3>2. QED  BY <3>1, <1>6, <1>7, TakenHolds, SMTT(30)
  <2>2. QED  BY <2>1, <1>1, Zenon
<1>9. y.len <= x.len
  <2>1. PICK a : a = Sum(Allocs(bs))
      OBVIOUS
  <2>2. y.len = x.len - a /\ a \in Nat
      BY <2>1, <1>8, Zenon
  <2>3. QED  BY <2>2, <1>2
<1>10. y.blocks # << >>
  <2>1. Len(y.blocks) = Len(x.blocks) - h
      BY <1>8
  <2>2. Len(y.blocks) # 0
      BY <2>1, <1>3
  <2>3. QED  BY <2>2
<1>11. Filled(x.blocks) => Filled(y.blocks)
  <2>1. y.blocks = SubSeq(x.blocks, h + 1, Len(x.blocks))
      BY <1>2, <1>7 DEF With, Queue
  <2>2. Parts(x.blocks, SubSeq(x.blocks, 1, h), SubSeq(x.blocks, h + 1, Len(x.blocks)))
      BY <1>2, <1>3, PartsSub
  <2>3. Parts(x.blocks, bs, y.blocks)
      BY <2>1, <2>2, <1>1
  <2>4. QED  BY <2>3, FilledAppend
<1>12. QED  BY <1>8, <1>9, <1>10, <1>11

LEMMA DriverTakesKeeps ==
    ASSUME IInv, DriverTakes
    PROVE  IInv'
<1>1. TypeOK /\ Locks /\ Bytes /\ Full
    BY DEF IInv
<1>2. /\ use \in {"output", "console"} /\ busy /\ pc[Driver] = "idle"
      /\ UNCHANGED <<use, mode, held, want, noted, next>>
    BY DEF DriverTakes
<1>3. q \in Queue /\ q.blocks \in Seq(Block) /\ q.len \in Int
    BY <1>1 DEF TypeOK, Queue
<1>4. PICK m \in Int, k \in Int, e \in Int : Span(held, m, k) /\ Holds(q, k, e) /\ next = e % K
    BY <1>1 DEF Bytes
<1>5. use \notin Empties => Filled(q.blocks)
    BY <1>1 DEF Full
<1>6. FlowAssumption => use \notin Empties
  <2>1. PICK c : c = <<use, mode>>
      OBVIOUS
  <2>2. c \in Kinds /\ c[1] = use
      BY <2>1, <1>1 DEF TypeOK
  <2>3. QED  BY <2>2, <1>2 DEF FlowAssumption
<1>7. CASE DriverStarved
  <2>1. q.blocks = << >> /\ q' = [q EXCEPT !.starve = TRUE] /\ busy' = FALSE /\ UNCHANGED pc
      BY <1>7 DEF DriverStarved
  <2>2. Holds(q, e, e)
    <3>1. Span(<< >>, k, e)
        BY <2>1, <1>4 DEF Holds
    <3>2. k = e
        BY <3>1, SpanEmpty
    <3>3. QED  BY <3>2, <1>4
  <2>3. Same(q, q) /\ q.len <= q.len
      BY <1>3 DEF Same
  <2>4. QED  BY <2>1, <2>2, <2>3, <1>2, <1>4, DriverStops
<1>8. ASSUME NEW x, DriverLeave(x), UNCHANGED busy, Same(q, x), NEW j \in Int, Holds(x, j, e),
             x.len <= q.len, Filled(q.blocks) => Filled(x.blocks)
      PROVE  IInv'
    BY <1>2, <1>4, <1>5, <1>8, DriverLeaves
<1>9. CASE qget
  <2>1. q.blocks # << >> /\ DriverLeave(Removed(q)) /\ UNCHANGED busy
      BY <1>9 DEF qget
  <2>2. PICK x, all, n : x = Removed(q) /\ all = TRUE /\ n = 1
      OBVIOUS
  <2>3. x = IF all THEN Removed(q) ELSE Advanced(q, n)
      BY <2>2
  <2>4. all \in BOOLEAN /\ n \in Nat \ {0} /\ all
      BY <2>2
  <2>5. /\ Same(q, x) /\ x.len <= q.len /\ \E j \in Int : Holds(x, j, e)
        /\ Filled(q.blocks) => Filled(x.blocks)
      BY <2>1, <2>3, <2>4, <1>4, Consumed
  <2>6. QED  BY <2>1, <2>2, <2>5, <1>8
<1>10. ASSUME NEW n \in Wants, qdiscard(n) PROVE IInv'
  <2>1. PICK all : all = IF n >= BLEN(Head(q.blocks)) THEN TRUE ELSE FALSE
      OBVIOUS
  <2>2. all \in BOOLEAN /\ (n >= BLEN(Head(q.blocks)) <=> all)
      BY <2>1
  <2>3. PICK x : x = IF all THEN Removed(q) ELSE Advanced(q, n)
      OBVIOUS
  <2>4. q.blocks # << >> /\ DriverLeave(x) /\ UNCHANGED busy
      BY <2>2, <2>3, <1>10 DEF qdiscard
  <2>5. n \in Nat \ {0}
      BY QioAssumption
  <2>6. /\ Same(q, x) /\ x.len <= q.len /\ \E j \in Int : Holds(x, j, e)
        /\ Filled(q.blocks) => Filled(x.blocks)
      BY <2>2, <2>3, <2>4, <2>5, <1>4, Consumed
  <2>7. QED  BY <2>4, <2>6, <1>8
<1>11. ASSUME NEW n \in Wants, qconsume(n) PROVE IInv'
  <2>1. PICK full : full = {i \in DOMAIN q.blocks : BLEN(q.blocks[i]) > 0}
      OBVIOUS
  <2>2. PICK i : i = CHOOSE j \in full : \A h \in full : j <= h
      OBVIOUS
  <2>3. PICK x : x = Skipped(q, i)
      OBVIOUS
  <2>4. q.blocks # << >>
      BY <1>11 DEF qconsume
  <2>5. DOMAIN q.blocks = 1 .. Len(q.blocks) /\ Len(q.blocks) \in Nat \ {0}
      BY <2>4, <1>3
  <2>6. CASE full = {}
    <3>1. q' = [Emptied(q) EXCEPT !.starve = TRUE] /\ busy' = FALSE /\ UNCHANGED pc
        BY <2>1, <2>6, <1>11 DEF qconsume
    <3>2. PICK y : y = Emptied(q)
        OBVIOUS
    <3>3. Holds(y, e, e) /\ Same(q, y) /\ y.blocks = << >> /\ y.len = 0
        BY <3>2, <1>3, EmptiedHolds
    <3>4. y.len <= q.len
      <4>1. q.len \in Nat
          BY <1>3, <1>4, SumsNat DEF Holds, Counted
      <4>2. QED  BY <3>3, <4>1
    <3>5. FlowAssumption => y = q
      <4>1. ~Filled(q.blocks)
        <5>1. 1 \in DOMAIN q.blocks
            BY <2>5
        <5>2. ~(BLEN(q.blocks[1]) > 0)
            BY <5>1, <2>1, <2>6
        <5>3. QED  BY <5>1, <5>2, <2>5 DEF Filled
      <4>2. QED  BY <4>1, <1>5, <1>6
    <3>6. q' = [y EXCEPT !.starve = TRUE]
        BY <3>1, <3>2
    <3>7. QED  BY <3>1, <3>3, <3>4, <3>5, <3>6, <1>2, <1>4, DriverStops
  <2>7. CASE full # {}
    <3>1. full \in SUBSET Nat
        BY <2>1, <2>5
    <3>2. \E j \in full : \A h \in full : j <= h
        BY <2>7, <3>1, Least
    <3>3. i \in full /\ \A h \in full : i <= h
        BY <3>2, <2>2
    <3>4. i \in 1 .. Len(q.blocks)
        BY <3>3, <2>1, <2>5
    <3>5. ASSUME NEW j \in 1 .. i - 1 PROVE BLEN(q.blocks[j]) = 0
      <4>1. j \in 1 .. Len(q.blocks) /\ ~(i <= j)
          BY <3>4, <2>5
      <4>2. j \notin full
          BY <4>1, <3>3
      <4>3. ~(BLEN(q.blocks[j]) > 0)
          BY <4>1, <4>2, <2>1, <2>5
      <4>4. BLEN(q.blocks[j]) \in Nat
          BY <4>1, <1>3, Numbers
      <4>5. QED  BY <4>3, <4>4
    <3>6. /\ Same(q, x) /\ x.len <= q.len /\ x.blocks # << >> /\ \E j \in Int : Holds(x, j, e)
          /\ Filled(q.blocks) => Filled(x.blocks)
        BY <3>4, <3>5, <2>3, <1>4, Passed
    <3>7. PICK j \in Int : Holds(x, j, e)
        BY <3>6
    <3>8. PICK all : all = ("Qmsg" \in mode \/ n >= BLEN(Head(x.blocks)))
        OBVIOUS
    <3>9. all \in BOOLEAN /\ (n >= BLEN(Head(x.blocks)) => all)
        BY <3>8, Zenon
    <3>10. PICK y : y = IF all THEN Removed(x) ELSE Advanced(x, n)
        OBVIOUS
    <3>11. DriverLeave(y) /\ UNCHANGED busy
        BY <3>8, <3>10, <2>1, <2>2, <2>3, <2>7, <1>11 DEF qconsume, Skipped
    <3>12. n \in Nat \ {0}
        BY QioAssumption
    <3>13. /\ Same(x, y) /\ y.len <= x.len /\ \E h \in Int : Holds(y, h, e)
           /\ Filled(x.blocks) => Filled(y.blocks)
        BY <3>6, <3>7, <3>9, <3>10, <3>12, Consumed
    <3>14. PICK h \in Int : Holds(y, h, e)
        BY <3>13
    <3>15. Same(q, y)
        BY <3>6, <3>13 DEF Same
    <3>16. y.len <= q.len
      <4>1. x.len \in Int /\ y.len \in Int
          BY <3>7, <3>14 DEF Holds, Queue
      <4>2. QED  BY <4>1, <3>6, <3>13, <1>3
    <3>17. QED  BY <3>6, <3>11, <3>13, <3>14, <3>15, <3>16, <1>8
  <2>8. QED  BY <2>6, <2>7
<1>12. QED  BY <1>7, <1>9, <1>10, <1>11 DEF DriverTakes

\* The queue is hung up, or opened again while nobody uses it.
LEMMA CloserQuiet ==
    ASSUME IInv, pc[Closer] = "idle", NEW l \in {"idle", "wakerr"}, Goto(Closer, l),
           UNCHANGED <<use, mode, held, want, noted, next, busy>>,
           q' \in Queue, q'.blocks = q.blocks, q'.len = q.len, q'.dlen = q.dlen, q'.limit \in Lims,
           q'.flow = q.flow, q'.rlock = q.rlock, q'.wlock = q.wlock,
           use = "kprint" => q'.noblock = q.noblock,
           Idle \/ (q'.starve = q.starve /\ q'.closed /\ l = "wakerr"),
           q'.closed \/ q'.starve
    PROVE  IInv'
<1>1. /\ TypeOK /\ Bytes /\ Full /\ Kicked
    BY DEF IInv
<1>2. Closer \in Threads /\ Driver \in Threads /\ Driver # Closer /\ busy' \in BOOLEAN
    BY <1>1, Roles DEF TypeOK
<1>3. Bytes' /\ Full'
    BY <1>1, Untouched
<1>4. l \in OtherAt /\ Moved(Closer, l, {})
    BY <1>1, <1>2, MovedGoto DEF OtherAt, WriterAt, ReaderAt
<1>5. Kicked'
  <2>1. pc'[Driver] = pc[Driver] /\ \A w \in Writers : pc'[w] = pc[w]
      BY <1>2, <1>4, Roles DEF Moved
  <2>2. Kick => Kick'
      BY <2>1 DEF Kick
  <2>3. QED  BY <2>1, <2>2, <1>1 DEF Kicked
<1>6. Low => Low'
    BY DEF Low
<1>7. (\E r \in Readers : pc[r] \in {"sleep", "asleep"}) =>
          /\ q'.blocks = q.blocks /\ q'.starve = q.starve
          /\ q'.closed => q.closed \/ l = "wakerr"
    BY DEF Idle
<1>8. FlowAssumption /\ (\E w \in Writers : pc[w] \in {"sleep", "asleep"}) =>
          /\ Low => Low'
          /\ q.closed => q'.closed
          /\ q.flow => q'.flow \/ q'.closed \/ Low'
          /\ q.flow /\ ~q.closed =>
               \/ l = "wakewr" \/ (Closer = Closer /\ l = "wakerr")
               \/ q'.flow /\ ~q'.closed /\ (q.blocks # << >> => q'.blocks # << >>)
    BY <1>6 DEF Idle
<1>9. QED
    BY <1>2, <1>3, <1>4, <1>5, <1>7, <1>8, OtherKeeps

\* The queue is emptied, by a close or by a driver.
LEMMA CloserEmpties ==
    ASSUME IInv, pc[Closer] = "idle", NEW l \in {"wakerr", "wakewr"}, Goto(Closer, l),
           UNCHANGED <<use, mode, held, want, noted, next, busy>>,
           use # "kprint", \A r \in Readers : pc[r] = "idle",
           q' \in Queue, q'.blocks = << >>, q'.len = 0, q'.dlen = 0, q'.limit = q.limit,
           q'.rlock = q.rlock, q'.wlock = q.wlock,
           q.closed => q'.closed, q.flow => q'.flow \/ q'.closed, q.starve => q'.starve \/ q'.closed
    PROVE  IInv'
<1>1. /\ TypeOK /\ Locks /\ Copying /\ Bytes /\ Full /\ Kicked
    BY DEF IInv
<1>2. Closer \in Threads /\ Driver \in Threads /\ Driver # Closer /\ busy' \in BOOLEAN
      /\ q'.limit \in Lims /\ q \in Queue
    BY <1>1, Roles DEF TypeOK
<1>3. held = << >> /\ held' = << >>
    BY <1>1, NoReaders
<1>4. PICK e \in Int : next = e % K
    BY <1>1 DEF Bytes
<1>5. Bytes'
  <2>1. Counted(q')
      BY SumNone DEF Counted
  <2>2. Span(q'.blocks, e, e) /\ Span(held', e, e)
      BY <1>3, SpanNone
  <2>3. QED  BY <2>1, <2>2, <1>4 DEF Bytes, Holds
<1>6. Full'
    BY <1>3, FilledNone DEF Full
<1>7. l \in OtherAt /\ Moved(Closer, l, {})
    BY <1>1, <1>2, MovedGoto DEF OtherAt, WriterAt, ReaderAt
<1>8. Kicked'
  <2>1. pc'[Driver] = pc[Driver] /\ \A w \in Writers : pc'[w] = pc[w]
      BY <1>2, <1>7, Roles DEF Moved
  <2>2. Kick => Kick'
      BY <2>1 DEF Kick
  <2>3. QED  BY <2>1, <2>2, <1>1 DEF Kicked
<1>9. Low => Low'
  <2>1. q.len \in Nat
    <3>1. PICK k, n : Holds(q, k, n)
        BY <1>1 DEF Bytes
    <3>2. QED  BY <3>1, <1>2, SumsNat DEF Holds, Counted, Queue
  <2>2. SUFFICES ASSUME Low, NEW a \in Lims PROVE q'.len + Sum(Allocs(held')) < a
      BY DEF Low
  <2>3. q.len + Sum(Allocs(held)) < a /\ a \in Nat /\ Sum(Allocs(held)) = 0 /\ Sum(Allocs(held')) = 0
      BY <2>2, <1>3, Limit, SumNone DEF Low
  <2>4. QED  BY <2>1, <2>3
<1>10. (\E r \in Readers : pc[r] \in {"sleep", "asleep"}) =>
          /\ q'.blocks = q.blocks /\ q'.starve = q.starve
          /\ q'.closed => q.closed \/ l = "wakerr"
    OBVIOUS
<1>11. FlowAssumption /\ (\E w \in Writers : pc[w] \in {"sleep", "asleep"}) =>
          /\ Low => Low'
          /\ q.closed => q'.closed
          /\ q.flow => q'.flow \/ q'.closed \/ Low'
          /\ q.flow /\ ~q.closed =>
               \/ l = "wakewr" \/ (Closer = Closer /\ l = "wakerr")
               \/ q'.flow /\ ~q'.closed /\ (q.blocks # << >> => q'.blocks # << >>)
    BY <1>9
<1>12. QED
    BY <1>2, <1>5, <1>6, <1>7, <1>8, <1>10, <1>11, OtherKeeps

LEMMA ClosingKeeps ==
    ASSUME IInv, qhangup \/ qclose \/ qflush \/ qreopen
    PROVE  IInv'
<1>1. TypeOK /\ Locks
    BY DEF IInv
<1>2. q \in Queue /\ q.limit \in Lims /\ Inilim \in Lims /\ Inilim \in Nat \ {0, 1}
    BY <1>1, Limit DEF TypeOK, Lims
<1>3. /\ pc[Closer] = "idle"
      /\ UNCHANGED <<use, mode, held, want, noted, next, busy>>
    BY DEF qhangup, qclose, qflush, qreopen
<1>4. CASE qhangup
  <2>1. q' = [q EXCEPT !.closed = TRUE] /\ Goto(Closer, "wakerr")
      BY <1>4 DEF qhangup
  <2>2. /\ q' \in Queue /\ q'.blocks = q.blocks /\ q'.len = q.len /\ q'.dlen = q.dlen
        /\ q'.limit = q.limit /\ q'.closed = TRUE /\ q'.noblock = q.noblock /\ q'.starve = q.starve
        /\ q'.wlock = q.wlock /\ q'.rlock = q.rlock /\ q'.flow = q.flow
      BY <2>1, <1>2 DEF Queue
  <2>3. QED  BY <2>1, <2>2, <1>2, <1>3, CloserQuiet
<1>5. CASE qreopen
  <2>1. /\ q' = [q EXCEPT !.closed = FALSE, !.starve = TRUE, !.limit = Inilim]
        /\ Idle /\ pc' = pc
      BY <1>5 DEF qreopen
  <2>2. /\ q' \in Queue /\ q'.blocks = q.blocks /\ q'.len = q.len /\ q'.dlen = q.dlen
        /\ q'.limit = Inilim /\ q'.noblock = q.noblock /\ q'.starve = TRUE
        /\ q'.wlock = q.wlock /\ q'.rlock = q.rlock /\ q'.flow = q.flow
      BY <2>1, <1>2 DEF Queue
  <2>3. Goto(Closer, "idle")
      BY <2>1, <1>1, <1>3, Roles DEF Goto, TypeOK
  <2>4. QED  BY <2>1, <2>2, <2>3, <1>2, <1>3, CloserQuiet
<1>6. PICK x : x = Emptied(q)
    OBVIOUS
<1>7. x \in Queue /\ Same(q, x) /\ x.blocks = << >> /\ x.len = 0 /\ x.dlen = 0
  <2>1. 0 \in Int
      OBVIOUS
  <2>2. Holds(x, 0, 0) /\ Same(q, x) /\ x.blocks = << >> /\ x.len = 0
      BY <2>1, <1>2, <1>6, EmptiedHolds
  <2>3. QED  BY <2>2, SumNone DEF Holds, Counted
<1>8. CASE qclose
  <2>1. /\ q' = [x EXCEPT !.closed = TRUE, !.flow = FALSE, !.starve = FALSE, !.noblock = FALSE]
        /\ Goto(Closer, "wakerr") /\ use # "kprint" /\ \A r \in Readers : pc[r] = "idle"
      BY <1>6, <1>8 DEF qclose
  <2>2. /\ q' \in Queue /\ q'.blocks = << >> /\ q'.len = 0 /\ q'.dlen = 0
        /\ q'.limit = q.limit /\ q'.closed = TRUE /\ q'.wlock = q.wlock /\ q'.rlock = q.rlock
      BY <2>1, <1>7 DEF Queue, Same
  <2>3. QED  BY <2>1, <2>2, <1>3, CloserEmpties
<1>9. CASE qflush
  <2>1. q' = x /\ Goto(Closer, "wakewr") /\ use \in {"output", "console"}
      BY <1>6, <1>9 DEF qflush
  <2>2. \A r \in Readers : pc[r] = "idle"
      BY <2>1, <1>1 DEF Locks, ByReaders
  <2>3. /\ q' \in Queue /\ q'.blocks = << >> /\ q'.len = 0 /\ q'.dlen = 0
        /\ q'.limit = q.limit /\ q'.closed = q.closed /\ q'.wlock = q.wlock /\ q'.rlock = q.rlock
        /\ q'.flow = q.flow /\ q'.starve = q.starve
      BY <2>1, <1>7 DEF Same
  <2>4. use # "kprint"
      BY <2>1
  <2>5. QED  BY <2>1, <2>2, <2>3, <2>4, <1>3, CloserEmpties
<1>10. QED  BY <1>4, <1>5, <1>8, <1>9

LEMMA SettingsKeep ==
    ASSUME IInv, qsetlimit \/ qnoblock
    PROVE  IInv'
<1>1. /\ TypeOK /\ Locks /\ Unblocked /\ Copying /\ Bytes /\ Full
      /\ Starving /\ Kicked /\ Flowing
    BY DEF IInv
<1>2. /\ use # "kprint" /\ UNCHANGED <<use, mode, held, want, noted, next, busy, pc>>
    BY DEF qsetlimit, qnoblock
<1>3. q \in Queue /\ q.limit \in Lims /\ q.noblock \in BOOLEAN
    BY <1>1 DEF TypeOK, Queue
<1>4. PICK l \in Lims, b \in BOOLEAN : q' = [q EXCEPT !.limit = l, !.noblock = b]
  <2>1. CASE qsetlimit
    <3>1. PICK l \in Limits : q' = [q EXCEPT !.limit = l]
        BY <2>1 DEF qsetlimit
    <3>2. PICK b : b = q.noblock
        OBVIOUS
    <3>3. q' = [q EXCEPT !.limit = l, !.noblock = b] /\ l \in Lims /\ b \in BOOLEAN
        BY <3>1, <3>2, <1>3 DEF Queue, Lims
    <3>4. QED  BY <3>3
  <2>2. CASE qnoblock
    <3>1. PICK l, b : l = q.limit /\ b = ~q.noblock
        OBVIOUS
    <3>2. q' = [q EXCEPT !.noblock = b]
        BY <2>2, <3>1 DEF qnoblock
    <3>3. b \in BOOLEAN
        BY <3>1, Zenon
    <3>4. q' = [q EXCEPT !.limit = l, !.noblock = b] /\ l \in Lims
        BY <3>1, <3>2, <1>3 DEF Queue
    <3>5. QED  BY <3>3, <3>4
  <2>3. QED  BY <2>1, <2>2
<1>5. /\ q' \in Queue /\ q'.blocks = q.blocks /\ q'.len = q.len /\ q'.dlen = q.dlen
      /\ q'.limit = l /\ q'.closed = q.closed /\ q'.starve = q.starve
      /\ q'.wlock = q.wlock /\ q'.rlock = q.rlock /\ q'.flow = q.flow
    BY <1>3, <1>4, Limit DEF Queue
<1>6. Bytes' /\ Full'
    BY <1>1, <1>2, <1>5, Untouched
<1>7. TypeOK'
    BY <1>1, <1>2, <1>5 DEF TypeOK
<1>8. Locks' /\ Unblocked' /\ Copying'
    BY <1>1, <1>2, <1>5 DEF Locks, Unblocked, Copying, ByWriters, ByReaders
<1>9. Starving' /\ Kicked'
    BY <1>1, <1>2, <1>5 DEF Starving, RrComing, Going, Kicked, Kick
<1>10. Flowing'
    BY <1>1, <1>2, <1>5 DEF Flowing, Low, WriterKept, WrComing, Going
<1>11. QED  BY <1>6, <1>7, <1>8, <1>9, <1>10 DEF IInv

LEMMA NoteKeeps ==
    ASSUME IInv, NEW t \in Notable, Note(t)
    PROVE  IInv'
<1>1. /\ TypeOK /\ Locks /\ Unblocked /\ Copying /\ Bytes /\ Full
      /\ Starving /\ Kicked /\ Flowing
    BY DEF IInv
<1>2. t \in Writers \union Readers /\ t \in Threads
    BY QioAssumption, Roles
<1>3. /\ noted' = [noted EXCEPT ![t] = TRUE] /\ UNCHANGED <<use, mode, q, held, want, next, busy>>
      /\ pc' = [pc EXCEPT ![t] = IF pc[t] = "asleep" THEN "back" ELSE pc[t]]
    BY DEF Note
<1>4. PICK l : l = IF pc[t] = "asleep" THEN "back" ELSE pc[t]
    OBVIOUS
<1>5. /\ l \in WriterAt \union ReaderAt
      /\ t \in Writers => l \in WriterAt
      /\ t \in Readers => l \in ReaderAt
  <2>1. "back" \in WriterAt /\ "back" \in ReaderAt
      BY DEF WriterAt, ReaderAt
  <2>2. QED  BY <2>1, <1>1, <1>2, <1>4 DEF TypeOK
<1>6. Moved(t, l, {})
    BY <1>1, <1>2, <1>3, <1>4, <1>5, MovedGoto DEF Goto
<1>7. \A x \in Threads : pc'[x] = pc[x] \/ (pc[x] = "asleep" /\ pc'[x] = "back")
    BY <1>4, <1>6 DEF Moved
<1>8. noted' \in [Writers \union Readers -> BOOLEAN] /\ q' \in Queue
    BY <1>1, <1>2, <1>3 DEF TypeOK
<1>9. TypeOK'
    BY <1>1, <1>2, <1>3, <1>5, <1>6, <1>8, MovedType, Roles DEF TypeOK
<1>10. Bytes' /\ Full'
    BY <1>1, <1>3, <1>8, Untouched
<1>11. /\ \A w \in Writers : pc'[w] = pc[w] \/ (pc[w] = "asleep" /\ pc'[w] = "back")
       /\ \A r \in Readers : pc'[r] = pc[r] \/ (pc[r] = "asleep" /\ pc'[r] = "back")
       /\ pc'[Driver] = pc[Driver] /\ pc'[Closer] = pc[Closer]
    BY <1>2, <1>6, <1>7, Roles DEF Moved
<1>12. Locks' /\ Unblocked'
    BY <1>1, <1>3, <1>11 DEF Locks, Unblocked, ByWriters, ByReaders
<1>13. Copying'
  <2>1. \A r \in Readers : pc'[r] = "copy" <=> pc[r] = "copy"
      BY <1>11
  <2>2. QED  BY <2>1, <1>1, <1>3 DEF Copying
<1>14. \A a : a # "asleep" /\ Going(a) => Going(a)'
  <2>1. SUFFICES ASSUME NEW a, a # "asleep", Going(a) PROVE Going(a)'
      OBVIOUS
  <2>2. PICK x \in Threads : pc[x] = a
      BY <2>1 DEF Going
  <2>3. pc'[x] = a
      BY <2>1, <2>2, <1>7
  <2>4. QED  BY <2>3 DEF Going
<1>15. Starving'
    BY <1>1, <1>3, <1>11, <1>14 DEF Starving, RrComing
<1>16. Kicked'
  <2>1. Kick => Kick'
      BY <1>11 DEF Kick
  <2>2. QED  BY <2>1, <1>1, <1>3, <1>11 DEF Kicked
<1>17. Flowing'
  <2>1. Low => Low'
      BY <1>3 DEF Low
  <2>2. WrComing => WrComing'
      BY <1>11, <1>14 DEF WrComing
  <2>3. Going("copy") => Going("copy")'
      BY <1>14
  <2>4. QED  BY <2>1, <2>2, <2>3, <1>1, <1>3, <1>11 DEF Flowing, WriterKept
<1>18. QED
    BY <1>9, <1>10, <1>12, <1>13, <1>15, <1>16, <1>17 DEF IInv

LEMMA NextIInv ==
    ASSUME IInv, [Next]_vars
    PROVE  IInv'
<1>1. CASE UNCHANGED vars
    BY <1>1, Unchanged
<1>2. ASSUME NEW w \in Writers, QBWrite(w) \/ WriterStep(w) PROVE IInv'
    BY <1>2, QBWriteKeeps, WriterStepKeeps
<1>3. ASSUME NEW r \in Readers, ReaderStep(r) PROVE IInv'
    BY <1>3, QReadKeeps, QReadSleepKeeps, QReadDoneKeeps, QReadWakeupKeeps DEF ReaderStep
<1>4. CASE DriverProduces \/ DriverWakeup \/ DriverTakes
    BY <1>4, DriverProducesKeeps, WakeupsKeep, DriverTakesKeeps
<1>5. CASE qhangup \/ qclose \/ CloserWakerr \/ CloserWakewr \/ qflush \/ qreopen
    BY <1>5, ClosingKeeps, WakeupsKeep
<1>6. CASE qsetlimit \/ qnoblock
    BY <1>6, SettingsKeep
<1>7. ASSUME NEW t \in Notable, Note(t) PROVE IInv'
    BY <1>7, NoteKeeps
<1>8. QED  BY <1>1, <1>2, <1>3, <1>4, <1>5, <1>6, <1>7 DEF Next

----------------------------------------------------------------------------
(* What holds of every queue.                                              *)

\* The invariant holds in every state of every execution of qio.c's operations.
THEOREM Invariance == Spec => []IInv
<1>1. Init => IInv
    BY InitIInv
<1>2. IInv /\ [Next]_vars => IInv'
    BY NextIInv
<1>3. QED  BY <1>1, <1>2, PTL DEF Spec

\* qwait() loses no wakeup, however writers, drivers, notes and closes mix.
THEOREM ReadersWoken == Spec => []ReaderKept
<1>1. IInv => ReaderKept
    BY DEF IInv, Starving, ReaderKept
<1>2. QED  BY <1>1, Invariance, PTL

\* The kick of an output queue is never lost.
THEOREM OutputGoes == Spec => []OutputKept
<1>1. IInv => OutputKept
  <2>1. SUFFICES ASSUME IInv, use \in {"output", "console"}, q.blocks # << >>
                 PROVE  busy \/ RrComing
      BY DEF OutputKept
  <2>2. busy \/ Kick
      BY <2>1 DEF IInv, Kicked
  <2>3. Kick => RrComing
      BY Roles DEF Kick, RrComing, Going
  <2>4. QED  BY <2>2, <2>3
<1>2. QED  BY <1>1, Invariance, PTL

\* Flow control loses no writer, where the assumption on its use is met.
THEOREM WritersWoken == FlowAssumption => (Spec => []WriterKept)
<1> SUFFICES ASSUME FlowAssumption PROVE Spec => []WriterKept
    OBVIOUS
<1>1. IInv => WriterKept
    BY DEF IInv, Flowing
<1>2. QED  BY <1>1, Invariance, PTL

\* The bytes of some blocks, by the sums of the lengths before them.
LEMMA SpanSums ==
    ASSUME NEW bs \in Seq(Block), NEW x \in Int, NEW y \in Int, Span(bs, x, y)
    PROVE  /\ y = x + Sum(Lens(bs))
           /\ \A i \in 1 .. Len(bs) :
                /\ SumTo(Lens(bs))[i - 1] \in Int
                /\ \A j \in 1 .. BLEN(bs[i]) :
                      bs[i].data[j] = (x + SumTo(Lens(bs))[i - 1] + j - 1) % K
<1>1. PICK g : Placed(bs, g) /\ g[0] = x /\ g[Len(bs)] = y
    BY DEF Span
<1>2. PICK a, n : a = Lens(bs) /\ n = Len(bs)
    OBVIOUS
<1>3. a \in Seq(Nat) /\ Len(a) = n /\ n \in Nat
      /\ \A i \in 1 .. n : a[i] = BLEN(bs[i]) /\ a[i] \in Nat
  <2>1. a \in Seq(Nat) /\ Len(a) = n /\ n \in Nat
      BY <1>2, Numbers
  <2>2. \A i \in 1 .. n : a[i] = BLEN(bs[i]) /\ BLEN(bs[i]) \in Nat
      BY <1>2, Numbers
  <2>3. QED  BY <2>1, <2>2
<1>4. \A i \in 1 .. n : /\ g[i - 1] \in Int /\ g[i] = g[i - 1] + a[i]
                        /\ \A j \in 1 .. a[i] : bs[i].data[j] = (g[i - 1] + j - 1) % K
    BY <1>1, <1>2, <1>3 DEF Placed
<1>5. \A i \in 0 .. n : g[i] \in Int
  <2>1. ASSUME NEW i \in 0 .. n PROVE g[i] \in Int
    <3>1. CASE i = n
        BY <3>1, <1>1, <1>2
    <3>2. CASE i # n
      <4>1. i + 1 \in 1 .. n /\ (i + 1) - 1 = i
          BY <3>2, <1>3
      <4>2. g[(i + 1) - 1] \in Int
          BY <4>1, <1>4
      <4>3. QED  BY <4>1, <4>2
    <3>3. QED  BY <3>1, <3>2
  <2>2. QED  BY <2>1
<1>6. PICK h : h = [i \in 0 .. n |-> g[i] - x]
    OBVIOUS
<1>7. h[0] = 0 /\ h[n] = y - x /\ \A i \in 0 .. n : h[i] = g[i] - x
    BY <1>1, <1>2, <1>3, <1>5, <1>6
<1>8. \A i \in 1 .. Len(a) : h[i] = h[i - 1] + a[i]
  <2>1. ASSUME NEW i \in 1 .. n PROVE h[i] = h[i - 1] + a[i]
    <3>1. i \in 0 .. n /\ i - 1 \in 0 .. n
        BY <1>3
    <3>2. h[i] = g[i] - x /\ h[i - 1] = g[i - 1] - x /\ g[i - 1] \in Int /\ g[i] \in Int
        BY <3>1, <1>5, <1>7
    <3>3. g[i] = g[i - 1] + a[i] /\ a[i] \in Nat
        BY <1>3, <1>4
    <3>4. QED  BY <3>2, <3>3
  <2>2. QED  BY <2>1, <1>3
<1>9. Sum(a) = h[n] /\ \A i \in 0 .. n : SumTo(a)[i] = h[i]
    BY <1>3, <1>7, <1>8, SumIs
<1>10. y = x + Sum(a)
    BY <1>7, <1>9
<1>11. ASSUME NEW i \in 1 .. n
       PROVE  /\ SumTo(a)[i - 1] \in Int
              /\ \A j \in 1 .. a[i] : bs[i].data[j] = (x + SumTo(a)[i - 1] + j - 1) % K
  <2>1. i - 1 \in 0 .. n
      BY <1>3
  <2>2. PICK s : s = SumTo(a)[i - 1]
      OBVIOUS
  <2>3. s = g[i - 1] - x /\ g[i - 1] \in Int
      BY <2>1, <2>2, <1>5, <1>7, <1>9
  <2>4. s \in Int /\ x + s = g[i - 1]
      BY <2>3
  <2>5. ASSUME NEW j \in 1 .. a[i] PROVE bs[i].data[j] = (x + s + j - 1) % K
    <3>1. bs[i].data[j] = (g[i - 1] + j - 1) % K
        BY <1>4
    <3>2. QED  BY <3>1, <2>4
  <2>6. QED  BY <2>2, <2>4, <2>5
<1>12. QED  BY <1>2, <1>3, <1>10, <1>11

\* Whatever is read, put back, split and coalesced: no byte is lost, doubled or
\* out of its place, and the counts that flow control goes by are right.
THEOREM BytesInOrder == Spec => []InOrder
<1>1. IInv => InOrder
  <2>1. SUFFICES ASSUME IInv PROVE InOrder
      OBVIOUS
  <2>2. PICK m \in Int, k \in Int, n \in Int : Span(held, m, k) /\ Holds(q, k, n) /\ next = n % K
      BY <2>1 DEF IInv, Bytes
  <2>3. held \in Seq(Block) /\ q.blocks \in Seq(Block)
      BY <2>1 DEF IInv, TypeOK, Queue
  <2>4. PICK bs : bs = Stream
      OBVIOUS
  <2>5. bs \in Seq(Block) /\ Parts(bs, held, q.blocks) /\ DOMAIN bs = 1 .. Len(bs)
    <3>1. Parts(bs, held, q.blocks)
        BY <2>3, <2>4, PartsConcat DEF Stream
    <3>2. QED  BY <3>1 DEF Parts
  <2>6. Span(bs, m, n)
      BY <2>2, <2>5, SpanJoin DEF Holds
  <2>7. PICK s : s = Sum(Lens(bs))
      OBVIOUS
  <2>8. /\ n = m + s
        /\ \A i \in 1 .. Len(bs) :
             /\ SumTo(Lens(bs))[i - 1] \in Int
             /\ \A j \in 1 .. BLEN(bs[i]) :
                   bs[i].data[j] = (m + SumTo(Lens(bs))[i - 1] + j - 1) % K
      BY <2>5, <2>6, <2>7, SpanSums
  <2>9. s \in Nat
      BY <2>5, <2>7, SumsNat
  <2>10. ASSUME NEW i \in 1 .. Len(bs), NEW j \in 1 .. BLEN(bs[i])
         PROVE  bs[i].data[j] = (next - s + SumTo(Lens(bs))[i - 1] + j - 1) % K
    <3>1. PICK t : t = SumTo(Lens(bs))[i - 1]
        OBVIOUS
    <3>2. t \in Int /\ bs[i].data[j] = (m + t + j - 1) % K
        BY <3>1, <2>8
    <3>3. BLEN(bs[i]) \in Nat
        BY <2>5, Numbers
    <3>4. PICK y : y = (t + j - 1) - s
        OBVIOUS
    <3>5. y \in Int /\ m + t + j - 1 = n + y /\ next - s + t + j - 1 = next + y
      <4>1. next \in Int
          BY <2>1 DEF IInv, TypeOK
      <4>2. QED  BY <4>1, <3>2, <3>3, <3>4, <2>8, <2>9
    <3>6. ((n % K) + y) % K = (n + y) % K
        BY <3>5, ModAdd, QioAssumption
    <3>7. (next + y) % K = (n + y) % K
        BY <3>6, <2>2
    <3>8. QED  BY <3>1, <3>2, <3>5, <3>7
  <2>11. q.len = Sum(Allocs(q.blocks)) /\ q.dlen = Sum(Lens(q.blocks))
      BY <2>2 DEF Holds, Counted
  <2>12. QED  BY <2>4, <2>5, <2>7, <2>10, <2>11 DEF InOrder
<1>2. QED  BY <1>1, Invariance, PTL
=============================================================================
