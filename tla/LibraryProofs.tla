---------------------------- MODULE LibraryProofs ----------------------------
(***************************************************************************)
(* Proofs about the code that every program calls, and the kernel too.     *)
(*                                                                         *)
(* malloc and free: for every page, header and word size and every order   *)
(* of calls the library's account of its heap agrees with the kernel's     *)
(* break, the blocks tile the heap, and what the library does is what      *)
(* Allocator promises.                                                     *)
(*                                                                         *)
(* vsnprintf: for every width of the numbers, every format and every       *)
(* argument the text is the one that Directives promises.                  *)
(***************************************************************************)
EXTENDS UserHeap, Format, WellFoundedInduction, SequenceTheorems, TLAPS

\* A nonempty set of natural numbers has a least element.
LEMMA LeastNatural ==
    ASSUME NEW T, T \subseteq Nat, T # {}
    PROVE  \E x \in T : \A y \in T : x <= y
<1> DEFINE R == {ss \in Nat \X Nat : ss[1] < ss[2]}
<1>1. R = OpToRel(<, Nat)
    BY Zenon DEF OpToRel
<1>2. IsWellFoundedOn(R, Nat)
    BY <1>1, NatLessThanWellFounded, Zenon
<1> HIDE DEF R
<1>3. PICK x \in T : \A y \in T : ~(<<y, x>> \in R)
    BY <1>2, WFMin, Zenon
<1>4. \A a, b \in Nat : a < b => <<a, b>> \in R
    <2> TAKE a, b \in Nat
    <2> HAVE a < b
    <2>1. <<a, b>> \in Nat \X Nat /\ <<a, b>>[1] = a /\ <<a, b>>[2] = b
        OBVIOUS
    <2> QED BY <2>1, Zenon DEF R
<1>5. ASSUME NEW y \in T PROVE x <= y
    <2>1. x \in Nat /\ y \in Nat
        OBVIOUS
    <2>2. ~(y < x)
        BY <1>3, <1>4, <2>1, Zenon
    <2> QED BY <2>1, <2>2
<1> QED BY <1>5

\* A multiple leaves nothing.
LEMMA TimesMod ==
    ASSUME NEW k \in Nat, NEW y \in Nat \ {0}
    PROVE  (k * y) % y = 0
  OBVIOUS

\* Division rounds down.
LEMMA DivFacts ==
    ASSUME NEW a \in Nat, NEW y \in Nat \ {0}
    PROVE  /\ a \div y \in Nat
           /\ (a \div y) * y <= a
           /\ a < (a \div y) * y + y
  OBVIOUS

(* The inductive invariant.  Tiled speaks of neighbours; that two blocks   *)
(* far from each other lie apart, and below the break, is said directly.   *)
Ordered ==
    \A i, j \in DOMAIN blocks : i < j => EndOf(blocks[i]) <= blocks[j].addr

Inside ==
    \A i \in DOMAIN blocks : Start <= blocks[i].addr /\ EndOf(blocks[i]) <= current

Broken ==
    /\ current = 0 => blocks = << >> /\ remaining = 0 /\ brk = Start
    /\ current # 0 => blocks # << >> /\ brk <= Limit

IInv == TypeOK /\ MeetsBreak /\ Tiled /\ Ordered /\ Inside /\ Broken

-----------------------------------------------------------------------------
(* The operators.                                                          *)

LEMMA BlockFields ==
    ASSUME TypeOK, NEW i \in DOMAIN blocks
    PROVE  /\ blocks[i].addr \in Nat /\ blocks[i].size \in Nat \ {0}
           /\ blocks[i].free \in BOOLEAN
           /\ EndOf(blocks[i]) \in Nat
<1>1. blocks[i] \in Block
    BY DEF TypeOK
<1> QED BY <1>1, UserHeapAssumption DEF Block, EndOf

\* A size that is rounded up is not smaller.
LEMMA RoundFacts ==
    ASSUME NEW n \in Nat, NEW y \in Nat \ {0}
    PROVE  /\ ((n + y - 1) \div y) * y \in Nat
           /\ ((n + y - 1) \div y) * y >= n
           /\ (((n + y - 1) \div y) * y) % y = 0
<1>1. n + y - 1 \in Nat
    OBVIOUS
<1>2. /\ (n + y - 1) \div y \in Nat
      /\ n + y - 1 < ((n + y - 1) \div y) * y + y
    BY <1>1, DivFacts
<1> DEFINE q == (n + y - 1) \div y
<1> HIDE DEF q
<1>3. q \in Nat /\ q * y \in Nat /\ n + y - 1 < q * y + y
    BY <1>2 DEF q
<1>4. q * y >= n
    BY <1>3
<1>5. (q * y) % y = 0
    BY <1>3, TimesMod
<1> QED BY <1>3, <1>4, <1>5 DEF q

LEMMA SizeFacts ==
    ASSUME NEW n \in Sizes
    PROVE  AlignUp(n) \in Nat \ {0} /\ AlignUp(n) >= n /\ n \in Nat \ {0}
<1>1. n \in Nat \ {0} /\ Word \in Nat \ {0}
    BY UserHeapAssumption
<1>2. AlignUp(n) \in Nat /\ AlignUp(n) >= n
    BY <1>1, RoundFacts DEF AlignUp
<1> QED BY <1>1, <1>2

LEMMA GrownFacts ==
    ASSUME TypeOK, NEW target \in Nat
    PROVE  Grown(target) \in Nat /\ Grown(target) >= brk + target /\ Grown(target) % Page = 0
<1>1. brk + target \in Nat /\ Page \in Nat \ {0}
    BY UserHeapAssumption DEF TypeOK
<1> QED BY <1>1, RoundFacts DEF Grown, PageAlign

\* The block that is found is free and large enough.
LEMMA FoundFacts ==
    ASSUME TypeOK, NEW n \in Nat, Found(n) # 0
    PROVE  /\ Found(n) \in DOMAIN blocks
           /\ blocks[Found(n)].free /\ blocks[Found(n)].size >= n
<1> DEFINE fitting == {i \in DOMAIN blocks : blocks[i].free /\ blocks[i].size >= n}
<1>1. fitting # {} /\ Found(n) = Min(fitting)
    BY DEF Found
<1>2. DOMAIN blocks \subseteq Nat
    BY DEF TypeOK
<1>3. fitting \subseteq Nat
    BY <1>2
<1>4. \E x \in fitting : \A y \in fitting : x <= y
    BY <1>1, <1>3, LeastNatural
<1>5. Min(fitting) \in fitting
    BY <1>4, Zenon DEF Min
<1> QED BY <1>1, <1>5

\* One element of a list gives its place to others.
LEMMA SpliceFacts ==
    ASSUME NEW S, NEW s \in Seq(S), NEW i \in 1..Len(s), NEW t \in Seq(S)
    PROVE  LET r == SubSeq(s, 1, i - 1) \o t \o SubSeq(s, i + 1, Len(s))
           IN  /\ r \in Seq(S)
               /\ Len(r) = Len(s) + Len(t) - 1
               /\ \A k \in 1..Len(r) :
                     r[k] = IF k < i THEN s[k]
                            ELSE IF k < i + Len(t) THEN t[k - i + 1]
                            ELSE s[k - Len(t) + 1]
<1> DEFINE a == SubSeq(s, 1, i - 1)
           b == SubSeq(s, i + 1, Len(s))
           c == a \o t
           r == c \o b
           n == Len(s)
           m == Len(t)
<1>1. i \in Nat \ {0} /\ n \in Nat /\ i <= n /\ m \in Nat
    OBVIOUS
<1>2. /\ a \in Seq(S) /\ Len(a) = i - 1
      /\ \A k \in 1..(i - 1) : a[k] = s[k]
    <2>1. \A k \in 1..(i - 1) : s[k] \in S
        BY <1>1
    <2>2. 1 \in Int /\ i - 1 \in Int
        BY <1>1
    <2> HIDE DEF a
    <2>3. /\ a \in Seq(S) /\ Len(a) = IF 1 <= i - 1 THEN i - 1 - 1 + 1 ELSE 0
          /\ \A k \in 1..(i - 1 - 1 + 1) : a[k] = s[1 + k - 1]
        BY <2>1, <2>2, SubSeqProperties DEF a
    <2> QED BY <1>1, <2>3
<1>3. /\ b \in Seq(S) /\ Len(b) = n - i
      /\ \A k \in 1..(n - i) : b[k] = s[i + k]
    <2>1. \A k \in (i + 1)..Len(s) : s[k] \in S
        BY <1>1
    <2>2. i + 1 \in Int /\ Len(s) \in Int
        BY <1>1
    <2> HIDE DEF b
    <2>3. /\ b \in Seq(S) /\ Len(b) = IF i + 1 <= Len(s) THEN Len(s) - (i + 1) + 1 ELSE 0
          /\ \A k \in 1..(Len(s) - (i + 1) + 1) : b[k] = s[(i + 1) + k - 1]
        BY <2>1, <2>2, SubSeqProperties DEF b
    <2> QED BY <1>1, <2>3
<1> HIDE DEF a, b
<1>4. /\ c \in Seq(S) /\ Len(c) = i - 1 + m
      /\ \A k \in 1..(i - 1 + m) : c[k] = IF k <= i - 1 THEN a[k] ELSE t[k - (i - 1)]
    <2>1. a \in Seq(S) /\ Len(a) = i - 1
        BY <1>2
    <2>2. /\ c \in Seq(S) /\ Len(c) = Len(a) + Len(t)
          /\ \A k \in 1..(Len(a) + Len(t)) : c[k] = IF k <= Len(a) THEN a[k] ELSE t[k - Len(a)]
        BY <2>1, ConcatProperties
    <2> QED BY <2>1, <2>2
<1> HIDE DEF c
<1>5. /\ r \in Seq(S) /\ Len(r) = i - 1 + m + (n - i)
      /\ \A k \in 1..(i - 1 + m + (n - i)) :
            r[k] = IF k <= i - 1 + m THEN c[k] ELSE b[k - (i - 1 + m)]
    <2>1. c \in Seq(S) /\ b \in Seq(S)
        BY <1>3, <1>4
    <2>3. Len(c) = i - 1 + m /\ Len(b) = n - i
        BY <1>3, <1>4
    <2>2. /\ r \in Seq(S) /\ Len(r) = Len(c) + Len(b)
          /\ \A k \in 1..(Len(c) + Len(b)) : r[k] = IF k <= Len(c) THEN c[k] ELSE b[k - Len(c)]
        BY <2>1, ConcatProperties
    <2> QED BY <2>2, <2>3
<1> HIDE DEF r, n, m
<1>6. ASSUME NEW k \in 1..Len(r)
      PROVE  r[k] = IF k < i THEN s[k] ELSE IF k < i + m THEN t[k - i + 1] ELSE s[k - m + 1]
    <2>1. k \in Int /\ k >= 1 /\ k <= i - 1 + m + (n - i)
        BY <1>1, <1>5
    <2>2. CASE k < i
        BY <1>1, <1>2, <1>4, <1>5, <2>1, <2>2
    <2>3. CASE i <= k /\ k < i + m
        <3>1. k - (i - 1) = k - i + 1
            BY <1>1, <2>1
        <3> QED BY <1>1, <1>4, <1>5, <2>1, <2>3, <3>1
    <2>4. CASE k >= i + m
        <3>1. r[k] = b[k - (i - 1 + m)]
            BY <1>1, <1>5, <2>1, <2>4
        <3>2. k - (i - 1 + m) \in 1..(n - i)
            BY <1>1, <2>1, <2>4
        <3>3. b[k - (i - 1 + m)] = s[i + (k - (i - 1 + m))]
            BY <1>3, <3>2
        <3>4. i + (k - (i - 1 + m)) = k - m + 1 /\ ~(k < i) /\ ~(k < i + m)
            BY <1>1, <2>1, <2>4
        <3> QED BY <3>1, <3>3, <3>4
    <2> QED BY <1>1, <2>1, <2>2, <2>3, <2>4
<1>7. Len(r) = n + m - 1
    BY <1>1, <1>5
<1>8. r \in Seq(S)
    BY <1>5
<1>9. \A k \in 1..Len(r) :
          r[k] = IF k < i THEN s[k] ELSE IF k < i + m THEN t[k - i + 1] ELSE s[k - m + 1]
    BY <1>6, Zenon
<1>10. r = SubSeq(s, 1, i - 1) \o t \o SubSeq(s, i + 1, Len(s))
    BY DEF r, c, a, b
<1> QED BY <1>7, <1>8, <1>9, <1>10, Zenon DEF n, m

-----------------------------------------------------------------------------
(* The two ways in which malloc reuses a block, element by element.        *)

Whole(i) ==
    /\ blocks' \in Seq(Block)
    /\ Len(blocks') = Len(blocks)
    /\ \A k \in 1..Len(blocks) :
          blocks'[k] = IF k = i THEN [blocks[i] EXCEPT !.free = FALSE] ELSE blocks[k]

Halves(i, wanted) ==
    /\ blocks[i].size > wanted + Header
    /\ blocks' \in Seq(Block)
    /\ Len(blocks') = Len(blocks) + 1
    /\ \A k \in 1..(Len(blocks) + 1) :
          blocks'[k] = IF k < i THEN blocks[k]
                       ELSE IF k = i THEN Split(blocks[i], wanted)[1]
                       ELSE IF k = i + 1 THEN Split(blocks[i], wanted)[2]
                       ELSE blocks[k - 1]

LEMMA SplitFacts ==
    ASSUME NEW b \in Block, NEW wanted \in Nat \ {0}, b.size > wanted + Header
    PROVE  /\ Split(b, wanted) \in Seq(Block) /\ Len(Split(b, wanted)) = 2
           /\ Split(b, wanted)[1].addr = b.addr
           /\ Split(b, wanted)[1].size = wanted
           /\ Split(b, wanted)[1].free = FALSE
           /\ Split(b, wanted)[2].addr = b.addr + Header + wanted
           /\ Split(b, wanted)[2].size = b.size - wanted - Header
           /\ Split(b, wanted)[2].free = TRUE
<1>1. /\ b.addr \in Nat /\ b.size \in Nat \ {0} /\ b.free \in BOOLEAN
      /\ Header \in Nat \ {0}
    BY UserHeapAssumption DEF Block
<1> DEFINE x == [b EXCEPT !.free = FALSE, !.size = wanted]
           y == [addr |-> b.addr + Header + wanted, size |-> b.size - wanted - Header, free |-> TRUE]
<1>2. x \in Block /\ x.addr = b.addr /\ x.size = wanted /\ x.free = FALSE
    BY DEF Block
<1>3. b.addr + Header + wanted \in Nat /\ b.size - wanted - Header \in Nat \ {0}
    BY <1>1
<1>4. y \in Block
    BY <1>3 DEF Block
<1>5. /\ y.addr = b.addr + Header + wanted /\ y.size = b.size - wanted - Header
      /\ y.free = TRUE
    OBVIOUS
<1> HIDE DEF x, y
<1>6. Split(b, wanted) = <<x, y>>
    BY DEF Split, x, y
<1>7. <<x, y>> \in Seq(Block) /\ Len(<<x, y>>) = 2 /\ <<x, y>>[1] = x /\ <<x, y>>[2] = y
    BY <1>2, <1>4
<1> QED BY <1>2, <1>5, <1>6, <1>7

LEMMA ReuseCases ==
    ASSUME TypeOK, NEW n \in Sizes, Reuse(n)
    PROVE  \E i \in DOMAIN blocks :
              /\ blocks[i].free /\ blocks[i].size >= AlignUp(n)
              /\ Whole(i) \/ Halves(i, AlignUp(n))
<1> DEFINE wanted == AlignUp(n)
           i == Found(wanted)
<1>1. wanted \in Nat \ {0}
    BY SizeFacts
<1>2. i # 0 /\ blocks' = SubSeq(blocks, 1, i - 1) \o Taken(blocks[i], wanted)
                            \o SubSeq(blocks, i + 1, Len(blocks))
    BY DEF Reuse
<1> HIDE DEF wanted
<1>3. i \in DOMAIN blocks /\ blocks[i].free /\ blocks[i].size >= wanted
    BY <1>1, <1>2, FoundFacts
<1> HIDE DEF i
<1>4. blocks \in Seq(Block) /\ i \in 1..Len(blocks) /\ blocks[i] \in Block
    BY <1>3 DEF TypeOK
<1>5. CASE blocks[i].size > wanted + Header
    <2> DEFINE t == Split(blocks[i], wanted)
    <2>1. Taken(blocks[i], wanted) = t
        BY <1>5 DEF Taken
    <2>2. t \in Seq(Block) /\ Len(t) = 2
        BY <1>1, <1>4, <1>5, SplitFacts
    <2> HIDE DEF t
    <2>3. /\ blocks' \in Seq(Block)
          /\ Len(blocks') = Len(blocks) + Len(t) - 1
          /\ \A k \in 1..Len(blocks') :
                blocks'[k] = IF k < i THEN blocks[k]
                             ELSE IF k < i + Len(t) THEN t[k - i + 1]
                             ELSE blocks[k - Len(t) + 1]
        <3>1. blocks' = SubSeq(blocks, 1, i - 1) \o t \o SubSeq(blocks, i + 1, Len(blocks))
            BY <1>2, <2>1
        <3>2. blocks \in Seq(Block) /\ i \in 1..Len(blocks) /\ t \in Seq(Block)
            BY <1>4, <2>2
        <3> QED BY <3>1, <3>2, SpliceFacts, Zenon
    <2>4. i \in Nat /\ Len(blocks) \in Nat
        BY <1>4
    <2>5. Len(blocks') = Len(blocks) + 1
        BY <2>2, <2>3, <2>4
    <2>6. ASSUME NEW k \in 1..(Len(blocks) + 1)
          PROVE  blocks'[k] = IF k < i THEN blocks[k]
                              ELSE IF k = i THEN t[1] ELSE IF k = i + 1 THEN t[2]
                              ELSE blocks[k - 1]
        <3>1. blocks'[k] = IF k < i THEN blocks[k]
                           ELSE IF k < i + 2 THEN t[k - i + 1] ELSE blocks[k - 2 + 1]
            BY <2>2, <2>3, <2>5
        <3>2. k \in Nat /\ k - 2 + 1 = k - 1
            BY <2>4
        <3>3. k = i => k - i + 1 = 1 /\ k < i + 2 /\ ~(k < i)
            BY <2>4, <3>2
        <3>4. k = i + 1 => k - i + 1 = 2 /\ k < i + 2 /\ ~(k < i) /\ k # i
            BY <2>4, <3>2
        <3>5. k > i + 1 => ~(k < i) /\ k # i /\ k # i + 1 /\ ~(k < i + 2)
            BY <2>4, <3>2
        <3>6. k < i \/ k = i \/ k = i + 1 \/ k > i + 1
            BY <2>4, <3>2
        <3> QED BY <3>1, <3>2, <3>3, <3>4, <3>5, <3>6
    <2>7. Halves(i, wanted)
        BY <1>5, <2>3, <2>5, <2>6 DEF Halves, t
    <2> QED BY <1>3, <2>7 DEF wanted
<1>6. CASE ~(blocks[i].size > wanted + Header)
    <2> DEFINE x == [blocks[i] EXCEPT !.free = FALSE]
               t == <<x>>
    <2>1. Taken(blocks[i], wanted) = t
        BY <1>6 DEF Taken
    <2>2. x \in Block
        BY <1>4 DEF Block
    <2> HIDE DEF x
    <2>3. t \in Seq(Block) /\ Len(t) = 1 /\ t[1] = x
        BY <2>2
    <2> HIDE DEF t
    <2>4. /\ blocks' \in Seq(Block)
          /\ Len(blocks') = Len(blocks) + Len(t) - 1
          /\ \A k \in 1..Len(blocks') :
                blocks'[k] = IF k < i THEN blocks[k]
                             ELSE IF k < i + Len(t) THEN t[k - i + 1]
                             ELSE blocks[k - Len(t) + 1]
        <3>1. blocks' = SubSeq(blocks, 1, i - 1) \o t \o SubSeq(blocks, i + 1, Len(blocks))
            BY <1>2, <2>1
        <3>2. blocks \in Seq(Block) /\ i \in 1..Len(blocks) /\ t \in Seq(Block)
            BY <1>4, <2>3
        <3> QED BY <3>1, <3>2, SpliceFacts, Zenon
    <2>5. i \in Nat /\ Len(blocks) \in Nat
        BY <1>4
    <2>6. Len(blocks') = Len(blocks)
        BY <2>3, <2>4, <2>5
    <2>7. ASSUME NEW k \in 1..Len(blocks)
          PROVE  blocks'[k] = IF k = i THEN x ELSE blocks[k]
        <3>1. blocks'[k] = IF k < i THEN blocks[k]
                           ELSE IF k < i + 1 THEN t[k - i + 1] ELSE blocks[k - 1 + 1]
            BY <2>3, <2>4, <2>6
        <3>2. k \in Nat /\ k - 1 + 1 = k
            BY <2>5
        <3>3. k = i => k - i + 1 = 1 /\ k < i + 1 /\ ~(k < i)
            BY <2>5, <3>2
        <3>4. k > i => ~(k < i) /\ ~(k < i + 1) /\ k # i
            BY <2>5, <3>2
        <3>5. k < i => k # i
            BY <2>5, <3>2
        <3>6. k < i \/ k = i \/ k > i
            BY <2>5, <3>2
        <3> QED BY <2>3, <3>1, <3>2, <3>3, <3>4, <3>5, <3>6
    <2>8. Whole(i)
        BY <2>4, <2>6, <2>7 DEF Whole, x
    <2> QED BY <1>3, <2>8 DEF wanted
<1> QED BY <1>5, <1>6

-----------------------------------------------------------------------------
(* The invariant is inductive.                                             *)

\* Which blocks are free does not matter to it.
LEMMA FreeOrNot ==
    ASSUME IInv, blocks' \in Seq(Block), Len(blocks') = Len(blocks),
           \A k \in 1..Len(blocks) :
               blocks'[k].addr = blocks[k].addr /\ blocks'[k].size = blocks[k].size,
           UNCHANGED <<current, remaining, brk>>
    PROVE  IInv'
<1>1. DOMAIN blocks = 1..Len(blocks) /\ DOMAIN blocks' = 1..Len(blocks) /\ Len(blocks) \in Nat
    BY DEF IInv, TypeOK
<1>2. \A k \in 1..Len(blocks) : EndOf(blocks'[k]) = EndOf(blocks[k])
    BY DEF EndOf
<1>3. TypeOK' /\ MeetsBreak'
    BY DEF IInv, TypeOK, MeetsBreak
<1>4. blocks' = << >> <=> blocks = << >>
    BY <1>1 DEF IInv, TypeOK
<1>5. Tiled'
    <2>1. ASSUME NEW k \in 1..Len(blocks)
          PROVE  blocks'[k].addr = IF k = 1 THEN Start ELSE EndOf(blocks'[k - 1])
        <3>1. blocks[k].addr = IF k = 1 THEN Start ELSE EndOf(blocks[k - 1])
            BY <1>1 DEF IInv, Tiled
        <3>2. k # 1 => k - 1 \in 1..Len(blocks)
            BY <1>1
        <3> QED BY <1>2, <3>1, <3>2
    <2>2. blocks # << >> => Len(blocks) \in 1..Len(blocks)
        BY <1>1 DEF IInv, TypeOK
    <2>3. blocks # << >> => current = EndOf(blocks[Len(blocks)])
        BY DEF IInv, Tiled
    <2> QED BY <1>1, <1>2, <1>4, <2>1, <2>2, <2>3 DEF Tiled
<1>6. Ordered' /\ Inside'
    BY <1>1, <1>2 DEF IInv, Ordered, Inside
<1>7. Broken'
    BY <1>4 DEF IInv, Broken
<1> QED BY <1>3, <1>5, <1>6, <1>7 DEF IInv

LEMMA WholeFields ==
    ASSUME TypeOK, NEW i \in DOMAIN blocks, Whole(i), NEW k \in 1..Len(blocks)
    PROVE  /\ blocks'[k].addr = blocks[k].addr /\ blocks'[k].size = blocks[k].size
           /\ blocks'[k].free = IF k = i THEN FALSE ELSE blocks[k].free
<1>1. blocks[i] \in Block
    BY DEF TypeOK
<1>2. blocks'[k] = IF k = i THEN [blocks[i] EXCEPT !.free = FALSE] ELSE blocks[k]
    BY DEF Whole
<1> QED BY <1>1, <1>2 DEF Block

\* Where the blocks lie after a split: i is now two, which fill it.
LEMMA HalvesFields ==
    ASSUME TypeOK, NEW i \in DOMAIN blocks, NEW wanted \in Nat \ {0}, Halves(i, wanted)
    PROVE  /\ DOMAIN blocks' = 1..(Len(blocks) + 1) /\ Len(blocks') = Len(blocks) + 1
           /\ i \in Nat \ {0} /\ Len(blocks) \in Nat /\ i <= Len(blocks)
           /\ \A k \in 1..(i - 1) : blocks'[k] = blocks[k]
           /\ \A k \in (i + 2)..(Len(blocks) + 1) : blocks'[k] = blocks[k - 1]
           /\ blocks'[i].addr = blocks[i].addr
           /\ blocks'[i].size = wanted /\ blocks'[i].free = FALSE
           /\ EndOf(blocks'[i]) = blocks[i].addr + Header + wanted
           /\ blocks'[i + 1].addr = blocks[i].addr + Header + wanted
           /\ blocks'[i + 1].free = TRUE
           /\ EndOf(blocks'[i + 1]) = EndOf(blocks[i])
           /\ EndOf(blocks'[i]) <= EndOf(blocks[i])
<1>1. /\ DOMAIN blocks' = 1..(Len(blocks) + 1) /\ Len(blocks') = Len(blocks) + 1
      /\ i \in Nat \ {0} /\ Len(blocks) \in Nat /\ i <= Len(blocks)
    BY DEF TypeOK, Halves
<1>2. /\ blocks[i] \in Block /\ blocks[i].size > wanted + Header
      /\ blocks[i].addr \in Nat /\ blocks[i].size \in Nat /\ Header \in Nat
    BY BlockFields, UserHeapAssumption DEF TypeOK, Halves
<1>3. \A k \in 1..(Len(blocks) + 1) :
          blocks'[k] = IF k < i THEN blocks[k]
                       ELSE IF k = i THEN Split(blocks[i], wanted)[1]
                       ELSE IF k = i + 1 THEN Split(blocks[i], wanted)[2]
                       ELSE blocks[k - 1]
    BY DEF Halves
<1>4. \A k \in 1..(i - 1) : blocks'[k] = blocks[k]
    <2> TAKE k \in 1..(i - 1)
    <2>1. k \in 1..(Len(blocks) + 1) /\ k < i
        BY <1>1
    <2> QED BY <1>3, <2>1
<1>5. \A k \in (i + 2)..(Len(blocks) + 1) : blocks'[k] = blocks[k - 1]
    <2> TAKE k \in (i + 2)..(Len(blocks) + 1)
    <2>1. k \in 1..(Len(blocks) + 1) /\ ~(k < i) /\ k # i /\ k # i + 1
        BY <1>1
    <2> QED BY <1>3, <2>1
<1>6. blocks'[i] = Split(blocks[i], wanted)[1]
    <2>1. i \in 1..(Len(blocks) + 1) /\ ~(i < i)
        BY <1>1
    <2> QED BY <1>3, <2>1
<1>7. blocks'[i + 1] = Split(blocks[i], wanted)[2]
    <2>1. i + 1 \in 1..(Len(blocks) + 1) /\ ~(i + 1 < i) /\ i + 1 # i
        BY <1>1
    <2> QED BY <1>3, <2>1
<1>8. /\ Split(blocks[i], wanted)[1].addr = blocks[i].addr
      /\ Split(blocks[i], wanted)[1].size = wanted
      /\ Split(blocks[i], wanted)[1].free = FALSE
      /\ Split(blocks[i], wanted)[2].addr = blocks[i].addr + Header + wanted
      /\ Split(blocks[i], wanted)[2].size = blocks[i].size - wanted - Header
      /\ Split(blocks[i], wanted)[2].free = TRUE
    <2> DEFINE b == blocks[i]
               x == [b EXCEPT !.free = FALSE, !.size = wanted]
               y == [addr |-> b.addr + Header + wanted, size |-> b.size - wanted - Header,
                     free |-> TRUE]
    <2>1. b \in Block
        BY <1>2
    <2> HIDE DEF b
    <2>2. x.addr = b.addr /\ x.size = wanted /\ x.free = FALSE
        BY <2>1 DEF Block
    <2>3. /\ y.addr = b.addr + Header + wanted /\ y.size = b.size - wanted - Header
          /\ y.free = TRUE
        OBVIOUS
    <2> HIDE DEF x, y
    <2>4. Split(b, wanted) = <<x, y>>
        BY DEF Split, x, y
    <2>5. Split(b, wanted)[1] = x /\ Split(b, wanted)[2] = y
        BY <2>4
    <2> QED BY <2>2, <2>3, <2>5, Zenon DEF b
<1>9. EndOf(blocks'[i]) = blocks[i].addr + Header + wanted
    BY <1>6, <1>8 DEF EndOf
<1>10. EndOf(blocks'[i + 1]) = EndOf(blocks[i])
    <2>1. EndOf(blocks'[i + 1])
              = blocks[i].addr + Header + wanted + Header + (blocks[i].size - wanted - Header)
        BY <1>7, <1>8 DEF EndOf
    <2>2. EndOf(blocks[i]) = blocks[i].addr + Header + blocks[i].size
        BY DEF EndOf
    <2> QED BY <1>2, <2>1, <2>2
<1>11. EndOf(blocks'[i]) <= EndOf(blocks[i])
    <2>1. EndOf(blocks[i]) = blocks[i].addr + Header + blocks[i].size
        BY DEF EndOf
    <2> QED BY <1>2, <1>9, <2>1
<1> QED BY <1>1, <1>4, <1>5, <1>6, <1>7, <1>8, <1>9, <1>10, <1>11

\* So each block after a split lies within the block it comes from.
LEMMA Origin ==
    ASSUME TypeOK, NEW i \in DOMAIN blocks, NEW wanted \in Nat \ {0}, Halves(i, wanted),
           NEW k \in 1..(Len(blocks) + 1),
           NEW o, o = IF k <= i THEN k ELSE k - 1
    PROVE  /\ o \in DOMAIN blocks
           /\ blocks'[k].addr \in Nat /\ EndOf(blocks'[k]) \in Nat
           /\ blocks[o].addr <= blocks'[k].addr
           /\ EndOf(blocks'[k]) <= EndOf(blocks[o])
<1>1. /\ i \in Nat \ {0} /\ Len(blocks) \in Nat /\ i <= Len(blocks) /\ k \in Nat \ {0}
      /\ DOMAIN blocks = 1..Len(blocks)
    BY HalvesFields DEF TypeOK
<1>2. o \in DOMAIN blocks
    BY <1>1
<1>3. /\ blocks[o].addr \in Nat /\ EndOf(blocks[o]) \in Nat
      /\ blocks[i].addr \in Nat /\ EndOf(blocks[i]) \in Nat /\ Header \in Nat
    BY <1>2, BlockFields, UserHeapAssumption
<1>4. /\ \A l \in 1..(i - 1) : blocks'[l] = blocks[l]
      /\ \A l \in (i + 2)..(Len(blocks) + 1) : blocks'[l] = blocks[l - 1]
      /\ blocks'[i].addr = blocks[i].addr
      /\ EndOf(blocks'[i]) = blocks[i].addr + Header + wanted
      /\ EndOf(blocks'[i]) <= EndOf(blocks[i])
      /\ blocks'[i + 1].addr = blocks[i].addr + Header + wanted
      /\ EndOf(blocks'[i + 1]) = EndOf(blocks[i])
    BY HalvesFields, Zenon
<1>5. CASE k < i
    <2>1. k \in 1..(i - 1) /\ o = k
        BY <1>1, <1>5
    <2>2. blocks'[k] = blocks[o]
        BY <1>4, <2>1
    <2> QED BY <1>2, <1>3, <2>2
<1>6. CASE k = i
    <2>1. o = i
        BY <1>1, <1>6
    <2>2. /\ blocks'[k].addr = blocks[o].addr /\ EndOf(blocks'[k]) <= EndOf(blocks[o])
          /\ EndOf(blocks'[k]) = blocks[i].addr + Header + wanted
        BY <1>6, <1>4, <2>1
    <2>3. EndOf(blocks'[k]) \in Nat
        BY <1>3, <2>2
    <2> QED BY <1>2, <1>3, <2>2, <2>3
<1>7. CASE k = i + 1
    <2>1. o = i
        BY <1>1, <1>7
    <2>2. /\ blocks'[k].addr = blocks[i].addr + Header + wanted
          /\ EndOf(blocks'[k]) = EndOf(blocks[i])
        BY <1>7, <1>4
    <2> QED BY <1>2, <1>3, <2>1, <2>2
<1>8. CASE k > i + 1
    <2>1. k \in (i + 2)..(Len(blocks) + 1) /\ o = k - 1
        BY <1>1, <1>8
    <2>2. blocks'[k] = blocks[o]
        BY <1>4, <2>1
    <2> QED BY <1>2, <1>3, <2>2
<1> QED BY <1>1, <1>5, <1>6, <1>7, <1>8

LEMMA HalvesKeep ==
    ASSUME IInv, NEW i \in DOMAIN blocks, NEW wanted \in Nat \ {0}, Halves(i, wanted),
           UNCHANGED <<current, remaining, brk>>
    PROVE  IInv'
<1> DEFINE n == Len(blocks)
           from(k) == IF k <= i THEN k ELSE k - 1
<1>1. TypeOK
    BY DEF IInv
<1>2. /\ DOMAIN blocks' = 1..(n + 1) /\ Len(blocks') = n + 1
      /\ i \in Nat \ {0} /\ n \in Nat /\ i <= n /\ DOMAIN blocks = 1..n
    <2>1. DOMAIN blocks = 1..n
        BY <1>1 DEF TypeOK
    <2> QED BY <1>1, <2>1, HalvesFields, Zenon
<1>3. ASSUME NEW k \in 1..(n + 1)
      PROVE  /\ from(k) \in DOMAIN blocks
             /\ blocks'[k].addr \in Nat /\ EndOf(blocks'[k]) \in Nat
             /\ blocks[from(k)].addr <= blocks'[k].addr
             /\ EndOf(blocks'[k]) <= EndOf(blocks[from(k)])
    BY <1>1, Origin
<1>4. /\ \A l \in 1..(i - 1) : blocks'[l] = blocks[l]
      /\ \A l \in (i + 2)..(n + 1) : blocks'[l] = blocks[l - 1]
      /\ blocks'[i].addr = blocks[i].addr
      /\ EndOf(blocks'[i]) = blocks[i].addr + Header + wanted
      /\ blocks'[i + 1].addr = blocks[i].addr + Header + wanted
      /\ EndOf(blocks'[i + 1]) = EndOf(blocks[i])
    BY <1>1, HalvesFields, Zenon
<1> HIDE DEF n
<1>5. TypeOK' /\ MeetsBreak'
    BY DEF IInv, TypeOK, MeetsBreak, Halves
<1>6. \A k \in 1..n : blocks[k].addr = IF k = 1 THEN Start ELSE EndOf(blocks[k - 1])
    BY <1>2 DEF IInv, Tiled
<1>7. Tiled'
    <2>1. ASSUME NEW k \in 1..(n + 1)
          PROVE  blocks'[k].addr = IF k = 1 THEN Start ELSE EndOf(blocks'[k - 1])
        <3>1. CASE k < i
            <4>1. k \in 1..(i - 1) /\ k \in 1..n /\ (k # 1 => k - 1 \in 1..(i - 1))
                BY <1>2, <3>1
            <4> QED BY <1>4, <1>6, <4>1
        <3>2. CASE k = i
            <4>1. k \in 1..n /\ (k # 1 => k - 1 \in 1..(i - 1))
                BY <1>2, <3>2
            <4> QED BY <1>4, <1>6, <3>2, <4>1
        <3>3. CASE k = i + 1
            <4>1. k # 1 /\ k - 1 = i
                BY <1>2, <3>3
            <4> QED BY <1>4, <3>3, <4>1
        <3>4. CASE k = i + 2
            <4>1. k # 1 /\ k - 1 = i + 1 /\ k \in (i + 2)..(n + 1)
                BY <1>2, <3>4
            <4>2. k - 1 \in 1..n /\ k - 1 # 1 /\ (k - 1) - 1 = i
                BY <1>2, <3>4
            <4>3. blocks'[k] = blocks[k - 1] /\ blocks[k - 1].addr = EndOf(blocks[i])
                BY <1>4, <1>6, <4>1, <4>2
            <4> QED BY <1>4, <4>1, <4>3
        <3>5. CASE k > i + 2
            <4>1. k # 1 /\ k \in (i + 2)..(n + 1) /\ k - 1 \in (i + 2)..(n + 1)
                BY <1>2, <3>5
            <4>2. k - 1 \in 1..n /\ k - 1 # 1
                BY <1>2, <3>5
            <4>3. blocks'[k] = blocks[k - 1] /\ blocks'[k - 1] = blocks[(k - 1) - 1]
                BY <1>4, <4>1
            <4> QED BY <1>6, <4>1, <4>2, <4>3
        <3> QED BY <1>2, <3>1, <3>2, <3>3, <3>4, <3>5
    <2>2. current' = EndOf(blocks'[Len(blocks')])
        <3>1. current = EndOf(blocks[n])
            BY <1>2 DEF IInv, TypeOK, Tiled, n
        <3>2. CASE i = n
            BY <1>2, <1>4, <3>1, <3>2
        <3>3. CASE i < n
            <4>1. n + 1 \in (i + 2)..(n + 1) /\ (n + 1) - 1 = n
                BY <1>2, <3>3
            <4>2. blocks'[n + 1] = blocks[n]
                BY <1>4, <4>1
            <4> QED BY <1>2, <3>1, <4>2
        <3> QED BY <1>2, <3>2, <3>3
    <2> QED BY <1>2, <2>1, <2>2 DEF Tiled
<1>8. Ordered'
    <2> SUFFICES ASSUME NEW k \in 1..(n + 1), NEW l \in 1..(n + 1), k < l
                 PROVE  EndOf(blocks'[k]) <= blocks'[l].addr
        BY <1>2 DEF Ordered
    <2>1. CASE from(k) = from(l)
        <3>1. k = i /\ l = i + 1
            BY <1>2, <2>1
        <3>2. blocks'[l].addr = EndOf(blocks'[k])
            BY <1>4, <3>1
        <3> QED BY <1>3, <3>2
    <2>2. CASE from(k) # from(l)
        <3>1. from(k) < from(l)
            BY <1>2, <2>2
        <3>2. from(k) \in DOMAIN blocks /\ from(l) \in DOMAIN blocks
            BY <1>3
        <3> HIDE DEF from
        <3>3. EndOf(blocks[from(k)]) <= blocks[from(l)].addr
            BY <3>1, <3>2 DEF IInv, Ordered
        <3>4. EndOf(blocks[from(k)]) \in Nat /\ blocks[from(l)].addr \in Nat
            BY <1>1, <3>2, BlockFields
        <3> QED BY <1>3, <3>3, <3>4
    <2> QED BY <2>1, <2>2
<1>9. Inside'
    <2> SUFFICES ASSUME NEW k \in 1..(n + 1)
                 PROVE  Start <= blocks'[k].addr /\ EndOf(blocks'[k]) <= current
        BY <1>2 DEF Inside
    <2>1. from(k) \in DOMAIN blocks
        BY <1>3
    <2> HIDE DEF from
    <2>2. Start <= blocks[from(k)].addr /\ EndOf(blocks[from(k)]) <= current
        BY <2>1 DEF IInv, Inside
    <2>3. /\ EndOf(blocks[from(k)]) \in Nat /\ blocks[from(k)].addr \in Nat
          /\ current \in Nat /\ Start \in Nat
        BY <1>1, <2>1, BlockFields, UserHeapAssumption DEF TypeOK
    <2> QED BY <1>3, <2>2, <2>3
<1>10. Broken'
    <2>1. blocks # << >> /\ current # 0
        BY <1>2 DEF IInv, Broken
    <2>2. blocks' # << >>
        BY <1>2
    <2> QED BY <2>1, <2>2 DEF IInv, Broken
<1> QED BY <1>5, <1>7, <1>8, <1>9, <1>10 DEF IInv

\* The heap's new end, and that it is within what the kernel gave.
LEMMA ExtendFacts ==
    ASSUME IInv, NEW n \in Sizes, Extend(n)
    PROVE  /\ Base \in Nat /\ Base >= Start
           /\ Base = IF blocks = << >> THEN Start ELSE current
           /\ current' = Base + AlignUp(n) + Header
           /\ current' + remaining' = brk'
           /\ remaining' \in Nat /\ brk' \in Nat /\ brk' % Page = 0
           /\ brk' <= Limit
<1> DEFINE wanted == AlignUp(n)
           target == wanted + Header
<1>1. wanted \in Nat \ {0} /\ Header \in Nat \ {0} /\ Start \in Nat /\ Limit \in Nat
    BY SizeFacts, UserHeapAssumption
<1> HIDE DEF wanted
<1>2. target \in Nat /\ target > 0
    BY <1>1
<1>3. /\ TypeOK /\ current \in Nat /\ remaining \in Nat /\ brk \in Nat /\ brk % Page = 0
    BY DEF IInv, TypeOK
<1>4. /\ target <= remaining \/ Grown(target) <= Limit
      /\ Get(target) /\ current' = Base + target
    BY DEF Extend, wanted
<1>5. Base = IF blocks = << >> THEN Start ELSE current
    BY DEF IInv, Broken, Base
<1>6. Base \in Nat /\ Base >= Start
    <2>1. CASE blocks = << >>
        BY <1>1, <1>5, <2>1
    <2>2. CASE blocks # << >>
        <3>1. 1 \in DOMAIN blocks
            BY <2>2 DEF IInv, TypeOK
        <3>2. Start <= blocks[1].addr /\ EndOf(blocks[1]) <= current
            BY <3>1 DEF IInv, Inside
        <3>3. EndOf(blocks[1]) = blocks[1].addr + Header + blocks[1].size
            BY DEF EndOf
        <3>4. blocks[1].addr \in Nat /\ blocks[1].size \in Nat
            BY <1>3, <3>1, BlockFields
        <3> QED BY <1>1, <1>3, <1>5, <2>2, <3>2, <3>3, <3>4
    <2> QED BY <2>1, <2>2
<1>7. Base + remaining = brk
    BY <1>3, <1>5 DEF IInv, MeetsBreak, Broken, Base
<1>8. CASE target <= remaining
    <2>1. remaining' = remaining - target /\ brk' = brk
        BY <1>4, <1>8 DEF Get
    <2>2. current # 0
        BY <1>2, <1>3, <1>8 DEF IInv, Broken
    <2>3. brk <= Limit
        BY <2>2 DEF IInv, Broken
    <2>4. remaining' \in Nat
        BY <1>2, <1>3, <1>8, <2>1
    <2>5. current' + remaining' = brk'
        BY <1>2, <1>3, <1>4, <1>6, <1>7, <2>1
    <2> QED BY <1>1, <1>3, <1>4, <1>5, <1>6, <2>1, <2>3, <2>4, <2>5 DEF wanted
<1>9. CASE ~(target <= remaining)
    <2>1. brk' = Grown(target) /\ remaining' = Grown(target) - (Base + target)
        BY <1>4, <1>9 DEF Get, Left
    <2>2. Grown(target) \in Nat /\ Grown(target) >= brk + target /\ Grown(target) % Page = 0
        BY <1>2, <1>3, GrownFacts
    <2>3. Grown(target) <= Limit
        BY <1>4, <1>9
    <2> HIDE DEF target
    <2>4. remaining' \in Nat
        BY <1>2, <1>3, <1>6, <1>7, <2>1, <2>2
    <2>5. current' + remaining' = brk'
        BY <1>2, <1>4, <1>6, <2>1, <2>2
    <2>6. current' = Base + wanted + Header
        BY <1>1, <1>4, <1>6 DEF target
    <2> QED BY <1>5, <1>6, <2>1, <2>2, <2>3, <2>4, <2>5, <2>6 DEF wanted
<1> QED BY <1>8, <1>9

LEMMA ExtendKeeps ==
    ASSUME IInv, NEW n \in Sizes, Extend(n)
    PROVE  IInv'
<1> DEFINE wanted == AlignUp(n)
           new == [addr |-> Base, size |-> wanted, free |-> FALSE]
           m == Len(blocks)
<1>1. /\ Base \in Nat /\ Base >= Start
      /\ Base = IF blocks = << >> THEN Start ELSE current
      /\ current' = Base + wanted + Header
      /\ current' + remaining' = brk'
      /\ remaining' \in Nat /\ brk' \in Nat /\ brk' % Page = 0
      /\ brk' <= Limit
    BY ExtendFacts
<1>2. wanted \in Nat \ {0} /\ Header \in Nat \ {0} /\ Start \in Nat \ {0}
    BY SizeFacts, UserHeapAssumption
<1>3. TypeOK /\ blocks \in Seq(Block) /\ m \in Nat /\ DOMAIN blocks = 1..m /\ current \in Nat
    BY DEF IInv, TypeOK
<1>4. blocks' = Append(blocks, new)
    BY DEF Extend
<1>5. new \in Block /\ new.addr = Base /\ EndOf(new) = Base + Header + wanted
    BY <1>1, <1>2 DEF Block, EndOf
<1> HIDE DEF new
<1>6. /\ blocks' \in Seq(Block) /\ Len(blocks') = m + 1 /\ DOMAIN blocks' = 1..(m + 1)
      /\ \A k \in 1..m : blocks'[k] = blocks[k]
      /\ blocks'[m + 1] = new
    BY <1>3, <1>4, <1>5
<1>7. blocks # << >> <=> m # 0
    BY <1>3
<1> HIDE DEF m, wanted
<1>8. current' \in Nat /\ current' = EndOf(new) /\ current' # 0
    BY <1>1, <1>2, <1>5
<1>9. TypeOK' /\ MeetsBreak'
    BY <1>1, <1>6, <1>8 DEF TypeOK, MeetsBreak
<1>10. ASSUME NEW k \in 1..m
       PROVE  /\ blocks[k].addr \in Nat /\ EndOf(blocks[k]) \in Nat
              /\ Start <= blocks[k].addr /\ EndOf(blocks[k]) <= Base
    <2>1. k \in DOMAIN blocks
        BY <1>3
    <2>2. blocks[k].addr \in Nat /\ EndOf(blocks[k]) \in Nat
        BY <1>3, <2>1, BlockFields
    <2>3. Start <= blocks[k].addr /\ EndOf(blocks[k]) <= current
        BY <2>1 DEF IInv, Inside
    <2>4. Base = current
        BY <1>1, <1>3, <1>7
    <2> QED BY <2>2, <2>3, <2>4
<1>11. Tiled'
    <2>1. \A k \in 1..m : blocks[k].addr = IF k = 1 THEN Start ELSE EndOf(blocks[k - 1])
        BY <1>3 DEF IInv, Tiled
    <2>2. ASSUME NEW k \in 1..(m + 1)
          PROVE  blocks'[k].addr = IF k = 1 THEN Start ELSE EndOf(blocks'[k - 1])
        <3>1. CASE k <= m
            <4>1. k \in 1..m /\ (k # 1 => k - 1 \in 1..m)
                BY <1>3, <3>1
            <4> QED BY <1>6, <2>1, <4>1
        <3>2. CASE k = m + 1
            <4>1. m = 0 => k = 1 /\ Base = Start
                BY <1>1, <1>3, <1>7, <3>2
            <4>2. m # 0 => k # 1 /\ k - 1 = m /\ m \in 1..m
                BY <1>3, <3>2
            <4>3. m # 0 => Base = EndOf(blocks[m])
                BY <1>1, <1>3, <1>7 DEF IInv, Tiled, m
            <4> QED BY <1>5, <1>6, <3>2, <4>1, <4>2, <4>3
        <3> QED BY <1>3, <3>1, <3>2
    <2> QED BY <1>6, <1>8, <2>2 DEF Tiled
<1>12. Ordered'
    <2> SUFFICES ASSUME NEW k \in 1..(m + 1), NEW l \in 1..(m + 1), k < l
                 PROVE  EndOf(blocks'[k]) <= blocks'[l].addr
        BY <1>6 DEF Ordered
    <2>1. k \in 1..m
        BY <1>3
    <2>2. CASE l \in 1..m
        BY <1>3, <1>6, <2>1, <2>2 DEF IInv, Ordered
    <2>3. CASE l = m + 1
        BY <1>5, <1>6, <1>10, <2>1, <2>3
    <2> QED BY <1>3, <2>2, <2>3
<1>13. Inside'
    <2> SUFFICES ASSUME NEW k \in 1..(m + 1)
                 PROVE  Start <= blocks'[k].addr /\ EndOf(blocks'[k]) <= current'
        BY <1>6 DEF Inside
    <2>1. CASE k \in 1..m
        <3>1. Start <= blocks[k].addr /\ EndOf(blocks[k]) <= Base /\ EndOf(blocks[k]) \in Nat
            BY <1>10, <2>1
        <3>2. Base <= current'
            BY <1>1, <1>2
        <3>3. blocks'[k] = blocks[k]
            BY <1>6, <2>1
        <3> QED BY <1>1, <1>8, <3>1, <3>2, <3>3
    <2>2. CASE k = m + 1
        <3>1. blocks'[k] = new
            BY <1>6, <2>2
        <3> QED BY <1>1, <1>5, <1>8, <3>1
    <2> QED BY <1>3, <2>1, <2>2
<1>14. Broken'
    <2>1. blocks' # << >>
        BY <1>3, <1>6
    <2> QED BY <1>1, <1>8, <2>1 DEF Broken
<1> QED BY <1>9, <1>11, <1>12, <1>13, <1>14 DEF IInv

LEMMA ReuseKeeps ==
    ASSUME IInv, NEW n \in Sizes, Reuse(n)
    PROVE  IInv'
<1>1. TypeOK /\ UNCHANGED <<current, remaining, brk>>
    BY DEF IInv, Reuse
<1>2. PICK i \in DOMAIN blocks : Whole(i) \/ Halves(i, AlignUp(n))
    BY <1>1, ReuseCases
<1>3. CASE Whole(i)
    <2>1. \A k \in 1..Len(blocks) :
              blocks'[k].addr = blocks[k].addr /\ blocks'[k].size = blocks[k].size
        BY <1>1, <1>3, WholeFields
    <2>2. blocks' \in Seq(Block) /\ Len(blocks') = Len(blocks)
        BY <1>3 DEF Whole
    <2> QED BY <1>1, <2>1, <2>2, FreeOrNot
<1>4. CASE Halves(i, AlignUp(n))
    <2>1. AlignUp(n) \in Nat \ {0}
        BY SizeFacts
    <2> QED BY <1>1, <1>4, <2>1, HalvesKeep
<1> QED BY <1>2, <1>3, <1>4

LEMMA FreeFields ==
    ASSUME TypeOK, NEW i \in DOMAIN blocks, Free(i)
    PROVE  /\ blocks' \in Seq(Block) /\ Len(blocks') = Len(blocks)
           /\ DOMAIN blocks' = DOMAIN blocks
           /\ \A k \in 1..Len(blocks) :
                 /\ blocks'[k].addr = blocks[k].addr /\ blocks'[k].size = blocks[k].size
                 /\ blocks'[k].free = IF k = i THEN TRUE ELSE blocks[k].free
<1>1. blocks \in Seq(Block) /\ blocks[i] \in Block
    BY DEF TypeOK
<1> DEFINE x == [blocks[i] EXCEPT !.free = TRUE]
<1>2. x \in Block /\ x.addr = blocks[i].addr /\ x.size = blocks[i].size /\ x.free = TRUE
    BY <1>1 DEF Block
<1>3. blocks' = [blocks EXCEPT ![i] = x]
    BY DEF Free
<1> HIDE DEF x
<1>4. /\ blocks' \in Seq(Block) /\ Len(blocks') = Len(blocks) /\ DOMAIN blocks' = DOMAIN blocks
      /\ \A k \in 1..Len(blocks) : blocks'[k] = IF k = i THEN x ELSE blocks[k]
    BY <1>1, <1>2, <1>3
<1> QED BY <1>2, <1>4

LEMMA InitIInv == Init => IInv
<1> SUFFICES ASSUME Init PROVE IInv
    OBVIOUS
<1>1. blocks = << >> /\ current = 0 /\ remaining = 0 /\ brk = Start
    BY DEF Init
<1>2. blocks \in Seq(Block) /\ DOMAIN blocks = {}
    BY <1>1
<1>3. brk \in Nat /\ brk % Page = 0
    BY <1>1, UserHeapAssumption
<1> QED BY <1>1, <1>2, <1>3 DEF IInv, TypeOK, MeetsBreak, Tiled, Ordered, Inside, Broken

LEMMA NextIInv == IInv /\ [Next]_vars => IInv'
<1> SUFFICES ASSUME IInv, [Next]_vars PROVE IInv'
    OBVIOUS
<1>1. ASSUME NEW n \in Sizes, Malloc(n) PROVE IInv'
    BY <1>1, ReuseKeeps, ExtendKeeps DEF Malloc
<1>2. ASSUME NEW i \in DOMAIN blocks, Free(i) PROVE IInv'
    <2>1. TypeOK /\ UNCHANGED <<current, remaining, brk>>
        BY <1>2 DEF IInv, Free
    <2>2. /\ blocks' \in Seq(Block) /\ Len(blocks') = Len(blocks)
          /\ \A k \in 1..Len(blocks) :
                blocks'[k].addr = blocks[k].addr /\ blocks'[k].size = blocks[k].size
        BY <1>2, <2>1, FreeFields
    <2> QED BY <2>1, <2>2, FreeOrNot
<1>3. CASE UNCHANGED vars
    BY <1>3 DEF vars, IInv, TypeOK, MeetsBreak, Tiled, Ordered, Inside, Broken
<1> QED BY <1>1, <1>2, <1>3 DEF Next

\* The invariant holds in every state of the heap of the C library.
THEOREM IInvInvariant == Spec => []IInv
<1> QED BY InitIInv, NextIInv, PTL DEF Spec

\* What the library believes of its heap is what the kernel gave, and the blocks
\* cover it from its start to its end, for every order of calls.
THEOREM HeapIsSound == Spec => []HeapSound
<1>1. IInv => HeapSound
    BY DEF IInv, HeapSound
<1> QED BY <1>1, IInvInvariant, PTL

-----------------------------------------------------------------------------
(* The library implements the allocator.                                   *)

Region(b) == [addr |-> b.addr + Header, size |-> b.size]

LEMMA LiveIs ==
    ASSUME NEW r
    PROVE  r \in Live <=> \E k \in DOMAIN blocks : ~blocks[k].free /\ r = Region(blocks[k])
  BY DEF Live, Region

LEMMA LiveIsNext ==
    ASSUME NEW r
    PROVE  r \in Live' <=> \E k \in DOMAIN blocks' : ~blocks'[k].free /\ r = Region(blocks'[k])
  BY DEF Live, Region

\* Two blocks never begin at the same place, so two allocations differ.
LEMMA Distinct ==
    ASSUME IInv, NEW i \in DOMAIN blocks, NEW k \in DOMAIN blocks, i # k
    PROVE  /\ Region(blocks[i]) # Region(blocks[k])
           /\ Abstract!Apart(Region(blocks[i]), Region(blocks[k]))
<1>1. /\ blocks[i].addr \in Nat /\ blocks[i].size \in Nat \ {0}
      /\ blocks[k].addr \in Nat /\ blocks[k].size \in Nat \ {0} /\ Header \in Nat \ {0}
    BY BlockFields, UserHeapAssumption DEF IInv
<1>2. i \in Nat /\ k \in Nat
    BY DEF IInv, TypeOK
<1>3. EndOf(blocks[i]) <= blocks[k].addr \/ EndOf(blocks[k]) <= blocks[i].addr
    <2>1. i < k \/ k < i
        BY <1>2
    <2> QED BY <2>1 DEF IInv, Ordered
<1>4. /\ Region(blocks[i]).addr = blocks[i].addr + Header
      /\ Region(blocks[i]).size = blocks[i].size
      /\ Region(blocks[k]).addr = blocks[k].addr + Header
      /\ Region(blocks[k]).size = blocks[k].size
    BY DEF Region
<1>5. /\ EndOf(blocks[i]) = blocks[i].addr + Header + blocks[i].size
      /\ EndOf(blocks[k]) = blocks[k].addr + Header + blocks[k].size
    BY DEF EndOf
<1>6. Region(blocks[i]).addr # Region(blocks[k]).addr
    BY <1>1, <1>3, <1>4, <1>5
<1>7. Abstract!Apart(Region(blocks[i]), Region(blocks[k]))
    <2>1. \/ Region(blocks[i]).addr + Region(blocks[i]).size <= Region(blocks[k]).addr
          \/ Region(blocks[k]).addr + Region(blocks[k]).size <= Region(blocks[i]).addr
        BY <1>1, <1>3, <1>4, <1>5
    <2> QED BY <2>1 DEF Abstract!Apart
<1> QED BY <1>6, <1>7

\* A block that lies in the heap has a region the allocator may hand out.
LEMMA Fits ==
    ASSUME IInv, NEW i \in DOMAIN blocks
    PROVE  /\ Region(blocks[i]).addr >= Start
           /\ Region(blocks[i]).addr + Region(blocks[i]).size <= Limit
<1>1. /\ blocks[i].addr \in Nat /\ blocks[i].size \in Nat \ {0} /\ Header \in Nat \ {0}
      /\ Start \in Nat /\ Limit \in Nat
    BY BlockFields, UserHeapAssumption DEF IInv
<1>2. /\ Region(blocks[i]).addr = blocks[i].addr + Header
      /\ Region(blocks[i]).size = blocks[i].size
    BY DEF Region
<1>3. Start <= blocks[i].addr /\ EndOf(blocks[i]) <= current
    BY DEF IInv, Inside
<1>4. EndOf(blocks[i]) = blocks[i].addr + Header + blocks[i].size
    BY DEF EndOf
<1>5. current \in Nat /\ remaining \in Nat /\ brk \in Nat
    BY DEF IInv, TypeOK
<1>6. current # 0
    BY <1>1, <1>3, <1>4, <1>5
<1>7. current <= brk /\ brk <= Limit
    BY <1>5, <1>6 DEF IInv, MeetsBreak, Broken
<1> QED BY <1>1, <1>2, <1>3, <1>4, <1>5, <1>7

\* Both, said of the list as a whole, now and after a step.
Separate ==
    /\ \A i, k \in DOMAIN blocks : i # k =>
          /\ Region(blocks[i]) # Region(blocks[k])
          /\ Abstract!Apart(Region(blocks[i]), Region(blocks[k]))
    /\ \A i \in DOMAIN blocks :
          /\ Region(blocks[i]).addr >= Start
          /\ Region(blocks[i]).addr + Region(blocks[i]).size <= Limit

LEMMA SeparateNow == IInv => Separate
  BY Distinct, Fits DEF Separate

LEMMA SeparateNext == IInv' => Separate'
  BY SeparateNow, PTL

\* What makes a step of malloc one of the allocator: one block is in use that
\* was not, it is large enough, and the others stay as they are.
LEMMA HandsOut ==
    ASSUME Separate', NEW n \in Sizes, NEW i \in DOMAIN blocks',
           ~blocks'[i].free, blocks'[i].size >= n,
           \A r : r \in Live <=> \E k \in DOMAIN blocks' :
                       k # i /\ ~blocks'[k].free /\ r = Region(blocks'[k])
    PROVE  Abstract!Next
<1> DEFINE region == Region(blocks'[i])
<1>1. /\ region.addr >= Start /\ region.addr + region.size <= Limit /\ region.size >= n
    <2>1. region.size = blocks'[i].size
        BY DEF Region
    <2> QED BY <2>1 DEF Separate
<1>2. \A k \in DOMAIN blocks' : k # i =>
          region # Region(blocks'[k]) /\ Abstract!Apart(region, Region(blocks'[k]))
    BY DEF Separate
<1> HIDE DEF region
<1>3. region \notin Live /\ \A other \in Live : Abstract!Apart(region, other)
    BY <1>2
<1>4. \A r : r \in Live' <=> r = region \/ r \in Live
    BY LiveIsNext DEF region
<1>5. Live' = Live \cup {region}
    BY <1>4
<1>6. region \in Live' \ Live
    BY <1>3, <1>4
<1>7. Abstract!Malloc(n, region)
    BY <1>1, <1>3, <1>5 DEF Abstract!Malloc
<1> QED BY <1>6, <1>7 DEF Abstract!Next

LEMMA WholeRefines ==
    ASSUME IInv, Separate', NEW n \in Sizes, NEW i \in DOMAIN blocks,
           blocks[i].free, blocks[i].size >= n, Whole(i)
    PROVE  Abstract!Next
<1>1. TypeOK /\ DOMAIN blocks = 1..Len(blocks) /\ DOMAIN blocks' = 1..Len(blocks)
    BY DEF IInv, TypeOK, Whole
<1>2. ASSUME NEW k \in DOMAIN blocks
      PROVE  /\ blocks'[k].size = blocks[k].size
             /\ Region(blocks'[k]) = Region(blocks[k])
             /\ blocks'[k].free = IF k = i THEN FALSE ELSE blocks[k].free
    <2>1. k \in 1..Len(blocks)
        BY <1>1
    <2>2. /\ blocks'[k].addr = blocks[k].addr /\ blocks'[k].size = blocks[k].size
          /\ blocks'[k].free = IF k = i THEN FALSE ELSE blocks[k].free
        BY <1>1, <2>1, WholeFields
    <2> QED BY <2>2 DEF Region
<1>3. DOMAIN blocks' = DOMAIN blocks
    BY <1>1
<1>4. i \in DOMAIN blocks' /\ ~blocks'[i].free /\ blocks'[i].size >= n
    BY <1>2, <1>3
<1>5. ASSUME NEW r
      PROVE  r \in Live <=> \E k \in DOMAIN blocks' :
                 k # i /\ ~blocks'[k].free /\ r = Region(blocks'[k])
    <2>1. r \in Live <=> \E k \in DOMAIN blocks : ~blocks[k].free /\ r = Region(blocks[k])
        BY LiveIs
    <2>2. \A k \in DOMAIN blocks :
              /\ ~blocks[k].free <=> k # i /\ ~blocks'[k].free
              /\ Region(blocks'[k]) = Region(blocks[k])
        BY <1>2
    <2> QED BY <1>3, <2>1, <2>2
<1> QED BY <1>4, <1>5, HandsOut

LEMMA HalvesRefine ==
    ASSUME IInv, Separate', NEW n \in Sizes, NEW i \in DOMAIN blocks,
           blocks[i].free, Halves(i, AlignUp(n))
    PROVE  Abstract!Next
<1> DEFINE wanted == AlignUp(n)
           m == Len(blocks)
<1>1. wanted \in Nat \ {0} /\ wanted >= n
    BY SizeFacts
<1>2. TypeOK /\ DOMAIN blocks = 1..m
    BY DEF IInv, TypeOK
<1>3. /\ DOMAIN blocks' = 1..(m + 1)
      /\ i \in Nat \ {0} /\ m \in Nat /\ i <= m
      /\ \A k \in 1..(i - 1) : blocks'[k] = blocks[k]
      /\ \A k \in (i + 2)..(m + 1) : blocks'[k] = blocks[k - 1]
      /\ blocks'[i].size = wanted /\ blocks'[i].free = FALSE
      /\ blocks'[i + 1].free = TRUE
    <2> HIDE DEF wanted
    <2>1. Halves(i, wanted)
        BY DEF wanted
    <2> QED BY <1>1, <1>2, <2>1, HalvesFields, Zenon
<1> HIDE DEF wanted, m
<1>4. i \in DOMAIN blocks' /\ ~blocks'[i].free /\ blocks'[i].size >= n
    BY <1>1, <1>3
<1>5. ASSUME NEW r
      PROVE  r \in Live <=> \E k \in DOMAIN blocks' :
                 k # i /\ ~blocks'[k].free /\ r = Region(blocks'[k])
    <2>1. ASSUME NEW k \in DOMAIN blocks, ~blocks[k].free, r = Region(blocks[k])
          PROVE  \E l \in DOMAIN blocks' :
                     l # i /\ ~blocks'[l].free /\ r = Region(blocks'[l])
        <3>1. CASE k < i
            <4>1. k \in 1..(i - 1) /\ k \in DOMAIN blocks' /\ k # i
                BY <1>2, <1>3, <3>1
            <4> QED BY <1>3, <2>1, <4>1
        <3>2. CASE k > i
            <4>1. /\ k + 1 \in (i + 2)..(m + 1) /\ k + 1 \in DOMAIN blocks'
                  /\ k + 1 # i /\ (k + 1) - 1 = k
                BY <1>2, <1>3, <3>2
            <4>2. blocks'[k + 1] = blocks[k]
                BY <1>3, <4>1
            <4> QED BY <2>1, <4>1, <4>2
        <3> QED BY <1>2, <1>3, <2>1, <3>1, <3>2
    <2>2. ASSUME NEW k \in DOMAIN blocks', k # i, ~blocks'[k].free, r = Region(blocks'[k])
          PROVE  \E l \in DOMAIN blocks : ~blocks[l].free /\ r = Region(blocks[l])
        <3>1. CASE k < i
            <4>1. k \in 1..(i - 1) /\ k \in DOMAIN blocks
                BY <1>2, <1>3, <3>1
            <4> QED BY <1>3, <2>2, <4>1
        <3>2. CASE k > i
            <4>1. k # i + 1
                BY <1>3, <2>2
            <4>2. k \in (i + 2)..(m + 1) /\ k - 1 \in DOMAIN blocks
                BY <1>2, <1>3, <3>2, <4>1
            <4>3. blocks'[k] = blocks[k - 1]
                BY <1>3, <4>2
            <4> QED BY <2>2, <4>2, <4>3
        <3> QED BY <1>3, <2>2, <3>1, <3>2
    <2> QED BY <2>1, <2>2, LiveIs
<1> QED BY <1>4, <1>5, HandsOut

LEMMA ExtendRefines ==
    ASSUME IInv, Separate', NEW n \in Sizes, Extend(n)
    PROVE  Abstract!Next
<1> DEFINE wanted == AlignUp(n)
           new == [addr |-> Base, size |-> wanted, free |-> FALSE]
           m == Len(blocks)
<1>1. wanted \in Nat \ {0} /\ wanted >= n /\ Base \in Nat
    BY SizeFacts, ExtendFacts
<1>2. blocks \in Seq(Block) /\ DOMAIN blocks = 1..m /\ m \in Nat
    BY DEF IInv, TypeOK
<1>3. blocks' = Append(blocks, new)
    BY DEF Extend
<1>4. new \in Block /\ new.size = wanted /\ ~new.free
    BY <1>1 DEF Block
<1> HIDE DEF new
<1>5. /\ DOMAIN blocks' = 1..(m + 1) /\ blocks'[m + 1] = new
      /\ \A k \in 1..m : blocks'[k] = blocks[k]
    BY <1>2, <1>3, <1>4
<1> HIDE DEF m, wanted
<1>6. m + 1 \in DOMAIN blocks' /\ ~blocks'[m + 1].free /\ blocks'[m + 1].size >= n
    BY <1>1, <1>2, <1>4, <1>5
<1>7. ASSUME NEW r
      PROVE  r \in Live <=> \E k \in DOMAIN blocks' :
                 k # m + 1 /\ ~blocks'[k].free /\ r = Region(blocks'[k])
    <2>1. \A k : k \in DOMAIN blocks' /\ k # m + 1 <=> k \in DOMAIN blocks
        BY <1>2, <1>5
    <2> QED BY <1>2, <1>5, <2>1, LiveIs
<1> QED BY <1>6, <1>7, HandsOut

LEMMA FreeRefines ==
    ASSUME IInv, NEW i \in DOMAIN blocks, Free(i)
    PROVE  Abstract!Next
<1> DEFINE region == Region(blocks[i])
<1>1. TypeOK /\ DOMAIN blocks = 1..Len(blocks) /\ ~blocks[i].free
    BY DEF IInv, TypeOK, Free
<1>2. DOMAIN blocks' = DOMAIN blocks
    BY <1>1, FreeFields
<1>3. ASSUME NEW k \in DOMAIN blocks
      PROVE  /\ Region(blocks'[k]) = Region(blocks[k])
             /\ blocks'[k].free = IF k = i THEN TRUE ELSE blocks[k].free
    <2>1. k \in 1..Len(blocks)
        BY <1>1
    <2>2. /\ blocks'[k].addr = blocks[k].addr /\ blocks'[k].size = blocks[k].size
          /\ blocks'[k].free = IF k = i THEN TRUE ELSE blocks[k].free
        BY <1>1, <2>1, FreeFields
    <2> QED BY <2>2 DEF Region
<1>4. \A k \in DOMAIN blocks : k # i => Region(blocks[k]) # region
    BY SeparateNow DEF Separate
<1> HIDE DEF region
<1>5. region \in Live
    BY <1>1, LiveIs DEF region
<1>6. ASSUME NEW r PROVE r \in Live' <=> r \in Live /\ r # region
    <2>1. ASSUME r \in Live' PROVE r \in Live /\ r # region
        <3>1. PICK k \in DOMAIN blocks : ~blocks'[k].free /\ r = Region(blocks'[k])
            BY <1>2, <2>1, LiveIsNext, Zenon
        <3>2. k # i /\ ~blocks[k].free /\ r = Region(blocks[k])
            BY <1>3, <3>1
        <3>3. r \in Live
            BY <3>2, LiveIs, Zenon
        <3> QED BY <1>4, <3>2, <3>3
    <2>2. ASSUME r \in Live, r # region PROVE r \in Live'
        <3>1. PICK k \in DOMAIN blocks : ~blocks[k].free /\ r = Region(blocks[k])
            BY <2>2, LiveIs
        <3>2. k # i
            BY <2>2, <3>1 DEF region
        <3>3. k \in DOMAIN blocks' /\ ~blocks'[k].free /\ r = Region(blocks'[k])
            BY <1>2, <1>3, <3>1, <3>2
        <3> QED BY <3>3, LiveIsNext
    <2> QED BY <2>1, <2>2
<1>7. Live' = Live \ {region}
    BY <1>6
<1>8. Abstract!Free(region)
    BY <1>7 DEF Abstract!Free
<1> QED BY <1>5, <1>8 DEF Abstract!Next

\* Every program's malloc and free are those of an allocator: what one call
\* hands out overlaps nothing that is still in use, and is as much as was asked.
THEOREM LibraryIsAllocator == Spec => ImplementsAllocator
<1>1. Init => Abstract!Init
    <2> SUFFICES ASSUME Init PROVE Live = {}
        BY DEF Abstract!Init
    <2>1. DOMAIN blocks = {}
        BY DEF Init
    <2> QED BY <2>1 DEF Live
<1>2. IInv /\ IInv' /\ [Next]_vars => [Abstract!Next]_Live
    <2> SUFFICES ASSUME IInv, IInv', [Next]_vars PROVE [Abstract!Next]_Live
        OBVIOUS
    <2>1. Separate'
        BY SeparateNext
    <2>2. ASSUME NEW n \in Sizes, Reuse(n) PROVE Abstract!Next
        <3>1. PICK i \in DOMAIN blocks :
                  /\ blocks[i].free /\ blocks[i].size >= AlignUp(n)
                  /\ Whole(i) \/ Halves(i, AlignUp(n))
            BY <2>2, ReuseCases DEF IInv
        <3>2. blocks[i].size >= n
            <4>1. blocks[i].size \in Nat
                BY BlockFields DEF IInv
            <4> QED BY <3>1, <4>1, SizeFacts
        <3> QED BY <2>1, <3>1, <3>2, WholeRefines, HalvesRefine
    <2>3. ASSUME NEW n \in Sizes, Extend(n) PROVE Abstract!Next
        BY <2>1, <2>3, ExtendRefines
    <2>4. ASSUME NEW i \in DOMAIN blocks, Free(i) PROVE Abstract!Next
        BY <2>4, FreeRefines
    <2>5. CASE UNCHANGED vars
        BY <2>5 DEF vars, Live
    <2> QED BY <2>2, <2>3, <2>4, <2>5 DEF Next, Malloc
<1> QED BY <1>1, <1>2, IInvInvariant, PTL DEF Spec, ImplementsAllocator, Abstract!Spec

-----------------------------------------------------------------------------
(* The formatter.                                                          *)

(***************************************************************************)
(* Recursion.  The formatter's loops over digits and the count of words    *)
(* are recursive functions of a number; a function that calls itself for   *)
(* smaller numbers exists.                                                 *)
(***************************************************************************)
Recurs(S, Z, prev, first, follow) ==
    \E f \in [Nat -> S] :
        \A n \in Nat : f[n] = IF n \in Z THEN first[n] ELSE follow[n][f[prev[n]]]

LEMMA Recursion ==
    ASSUME NEW S, NEW Z \in SUBSET Nat, NEW prev \in [Nat -> Nat],
           NEW first \in [Nat -> S], NEW follow \in [Nat -> [S -> S]],
           \A n \in Nat \ Z : prev[n] < n
    PROVE  Recurs(S, Z, prev, first, follow)
<1> DEFINE Upto(k, f) ==
        /\ f \in [0..k -> S]
        /\ \A n \in 0..k : f[n] = IF n \in Z THEN first[n] ELSE follow[n][f[prev[n]]]
<1>1. \A k \in Nat : \E f : Upto(k, f)
    <2> DEFINE Bad == {k \in Nat : ~ \E f : Upto(k, f)}
    <2> SUFFICES ASSUME Bad # {} PROVE FALSE
        OBVIOUS
    <2>1. PICK k \in Bad : \A x \in Bad : k <= x
        <3>1. Bad \subseteq Nat
            OBVIOUS
        <3> HIDE DEF Bad
        <3> QED
            BY <3>1, LeastNatural
    <2>2. k \in Nat /\ ~ \E f : Upto(k, f)
        BY <2>1
    <2>3. CASE k = 0
        <3> DEFINE f == [n \in 0..0 |-> first[n]]
        <3>1. 0 \in Z
            OBVIOUS
        <3>2. f \in [0..0 -> S] /\ f[0] = first[0]
            OBVIOUS
        <3> HIDE DEF f
        <3>3. Upto(0, f)
            BY <3>1, <3>2
        <3> QED
            BY <2>2, <2>3, <3>3
    <2>4. CASE k # 0
        <3>1. k - 1 \in Nat /\ k - 1 \notin Bad
            <4> HIDE DEF Bad
            <4> QED
                BY <2>1, <2>2, <2>4
        <3>2. PICK g : Upto(k - 1, g)
            BY <3>1
        <3> DEFINE f == [n \in 0..k |-> IF n < k THEN g[n]
                                       ELSE IF n \in Z THEN first[n] ELSE follow[n][g[prev[n]]]]
        <3>3. ASSUME k \notin Z PROVE prev[k] \in 0..(k - 1) /\ follow[k][g[prev[k]]] \in S
            <4>1. prev[k] \in 0..(k - 1)
                BY <2>2, <3>3
            <4>2. g[prev[k]] \in S /\ follow[k] \in [S -> S]
                BY <2>2, <3>2, <4>1
            <4> QED
                BY <4>1, <4>2
        <3>4. ASSUME NEW n \in 0..k PROVE f[n] \in S
            <4>1. CASE n < k
                BY <2>2, <3>2, <4>1
            <4>2. CASE n = k
                BY <2>2, <3>3, <4>2
            <4> QED
                BY <2>2, <4>1, <4>2
        <3>5. f \in [0..k -> S]
            BY <3>4
        <3>6. \A n \in 0..(k - 1) : f[n] = g[n]
            BY <2>2
        <3>7. f[k] = IF k \in Z THEN first[k] ELSE follow[k][g[prev[k]]]
            BY <2>2
        <3> HIDE DEF f
        <3>8. ASSUME NEW n \in 0..k PROVE f[n] = IF n \in Z THEN first[n] ELSE follow[n][f[prev[n]]]
            <4>1. CASE n = k
                BY <3>3, <3>6, <3>7, <4>1
            <4>2. CASE n # k
                <5>1. n \in 0..(k - 1) /\ n \in Nat
                    BY <2>2, <4>2
                <5>2. g[n] = IF n \in Z THEN first[n] ELSE follow[n][g[prev[n]]]
                    BY <3>2, <5>1
                <5>3. n \notin Z => prev[n] \in 0..(k - 1)
                    BY <2>2, <5>1
                <5> QED
                    BY <3>6, <5>1, <5>2, <5>3
            <4> QED
                BY <4>1, <4>2
        <3>9. Upto(k, f)
            BY <3>5, <3>8
        <3> QED
            BY <2>2, <3>9
    <2> QED
        BY <2>3, <2>4
<1>2. ASSUME NEW j \in Nat, NEW k \in Nat, j <= k, NEW f, NEW g, Upto(j, f), Upto(k, g)
      PROVE  \A n \in 0..j : f[n] = g[n]
    <2> DEFINE Off == {n \in 0..j : f[n] # g[n]}
    <2> SUFFICES ASSUME Off # {} PROVE FALSE
        OBVIOUS
    <2>1. PICK n \in Off : \A x \in Off : n <= x
        <3>1. Off \subseteq Nat
            OBVIOUS
        <3> HIDE DEF Off
        <3> QED
            BY <3>1, LeastNatural
    <2>2. n \in 0..j /\ n \in 0..k /\ f[n] # g[n]
        BY <1>2, <2>1
    <2>3. n \notin Z
        BY <1>2, <2>2
    <2>4. prev[n] \in 0..j /\ prev[n] < n
        BY <2>2, <2>3
    <2>5. f[prev[n]] = g[prev[n]]
        BY <2>1, <2>4
    <2>6. f[n] = follow[n][f[prev[n]]]
        BY <1>2, <2>2, <2>3
    <2>7. g[n] = follow[n][g[prev[n]]]
        BY <1>2, <2>2, <2>3
    <2> QED
        BY <2>2, <2>5, <2>6, <2>7
<1> DEFINE ap(k) == CHOOSE f : Upto(k, f)
           F == [k \in Nat |-> ap(k)[k]]
<1>3. \A k \in Nat : Upto(k, ap(k))
    <2> TAKE k \in Nat
    <2> HIDE DEF Upto
    <2> QED
        BY <1>1
<1> HIDE DEF ap
<1>4. F \in [Nat -> S]
    BY <1>3
<1>5. ASSUME NEW n \in Nat PROVE F[n] = IF n \in Z THEN first[n] ELSE follow[n][F[prev[n]]]
    <2>1. F[n] = IF n \in Z THEN first[n] ELSE follow[n][ap(n)[prev[n]]]
        BY <1>3
    <2>2. ASSUME n \notin Z PROVE ap(n)[prev[n]] = F[prev[n]]
        <3>1. prev[n] \in Nat /\ prev[n] <= n /\ prev[n] \in 0..prev[n]
            BY <2>2
        <3>2. Upto(n, ap(n)) /\ Upto(prev[n], ap(prev[n]))
            BY <1>3, <3>1
        <3>3. ap(prev[n])[prev[n]] = ap(n)[prev[n]]
            <4> HIDE DEF Upto
            <4> QED
                BY <1>2, <3>1, <3>2
        <3> QED
            BY <3>1, <3>3
    <2> HIDE DEF F
    <2> QED
        BY <2>1, <2>2
<1> HIDE DEF F
<1> QED
    BY <1>4, <1>5 DEF Recurs

(***************************************************************************)
(* Reading digits back.  Reading says it by the values of all beginnings.  *)
(***************************************************************************)
Glyphs == {Digit, Large}

\* The characters of texts, those that the code writes among them
Chars == STRING \cup
    {"0", "1", "2", "3", "4", "5", "6", "7", "8", "9", "a", "b", "c", "d", "e", "f",
     "A", "B", "C", "D", "E", "F", "x", "X", "-", "+", Blank, "%", "?", "t",
     "(", "N", "U", "L", ")", "NUL"}

LEMMA GlyphFacts ==
    ASSUME NEW digit \in Glyphs
    PROVE  /\ \A v \in 1..16 : digit[v] \in Chars
           /\ digit[1] = "0"
           /\ \A v \in 0..15 : \A w \in 0..15 : digit[v + 1] = digit[w + 1] => v = w
<1>1. digit = Digit \/ digit = Large
    BY DEF Glyphs
<1>2. \A v \in 1..16 : v = 1 \/ v = 2 \/ v = 3 \/ v = 4 \/ v = 5 \/ v = 6 \/ v = 7 \/ v = 8
                    \/ v = 9 \/ v = 10 \/ v = 11 \/ v = 12 \/ v = 13 \/ v = 14 \/ v = 15 \/ v = 16
    OBVIOUS
<1>3. /\ digit[1] = "0" /\ digit[2] = "1" /\ digit[3] = "2" /\ digit[4] = "3"
      /\ digit[5] = "4" /\ digit[6] = "5" /\ digit[7] = "6" /\ digit[8] = "7"
      /\ digit[9] = "8" /\ digit[10] = "9"
      /\ digit[11] = (IF digit = Digit THEN "a" ELSE "A")
      /\ digit[12] = (IF digit = Digit THEN "b" ELSE "B")
      /\ digit[13] = (IF digit = Digit THEN "c" ELSE "C")
      /\ digit[14] = (IF digit = Digit THEN "d" ELSE "D")
      /\ digit[15] = (IF digit = Digit THEN "e" ELSE "E")
      /\ digit[16] = (IF digit = Digit THEN "f" ELSE "F")
    BY <1>1 DEF Digit, Large
<1>4. \A v \in 1..16 : digit[v] \in Chars
    <2>1. /\ "0" \in Chars /\ "1" \in Chars /\ "2" \in Chars /\ "3" \in Chars
          /\ "4" \in Chars /\ "5" \in Chars /\ "6" \in Chars /\ "7" \in Chars
          /\ "8" \in Chars /\ "9" \in Chars /\ "a" \in Chars /\ "b" \in Chars
          /\ "c" \in Chars /\ "d" \in Chars /\ "e" \in Chars /\ "f" \in Chars
          /\ "A" \in Chars /\ "B" \in Chars /\ "C" \in Chars /\ "D" \in Chars
          /\ "E" \in Chars /\ "F" \in Chars
        BY DEF Chars
    <2> QED
        BY <1>2, <1>3, <2>1
<1>5. ASSUME NEW v \in 1..16, NEW w \in 1..16, digit[v] = digit[w] PROVE v = w
    BY <1>2, <1>3, <1>5
<1> QED
    BY <1>3, <1>4, <1>5

Reading(s, base, digit, n) ==
    \E p \in [0..Len(s) -> Nat] :
        /\ p[0] = 0 /\ p[Len(s)] = n
        /\ \A i \in 1..Len(s) : \E v \in 0..(base - 1) :
               s[i] = digit[v + 1] /\ p[i] = p[i - 1] * base + v

\* The value that Directives speaks of is the one that is read so.
LEMMA ReadingValue ==
    ASSUME NEW s \in Seq(Chars), NEW base \in 1..16, NEW digit \in Glyphs, NEW n \in Nat,
           Reading(s, base, digit, n)
    PROVE  /\ Value(s, base, digit) = n
           /\ \A i \in 1..Len(s) : \E v \in 0..(base - 1) : s[i] = digit[v + 1]
<1>1. PICK p \in [0..Len(s) -> Nat] :
        /\ p[0] = 0 /\ p[Len(s)] = n
        /\ \A i \in 1..Len(s) : \E v \in 0..(base - 1) :
               s[i] = digit[v + 1] /\ p[i] = p[i - 1] * base + v
    BY DEF Reading
<1>2. ASSUME NEW v \in 0..15 PROVE ValueOf(digit[v + 1], digit) = v
    BY GlyphFacts DEF ValueOf
<1>3. ASSUME NEW i \in 1..Len(s) PROVE p[i] = p[i - 1] * base + ValueOf(s[i], digit)
    <2>1. PICK v \in 0..(base - 1) : s[i] = digit[v + 1] /\ p[i] = p[i - 1] * base + v
        BY <1>1
    <2>2. v \in 0..15
        OBVIOUS
    <2>3. ValueOf(digit[v + 1], digit) = v
        BY <1>2, <2>2
    <2> QED
        BY <2>1, <2>3
<1> DEFINE Sums(f) ==
        f = [i \in 0..Len(s) |-> IF i = 0 THEN 0 ELSE f[i - 1] * base + ValueOf(s[i], digit)]
<1>4. Sums(p)
    <2>1. \A i \in 0..Len(s) : p[i] = IF i = 0 THEN 0 ELSE p[i - 1] * base + ValueOf(s[i], digit)
        BY <1>1, <1>3
    <2>2. p = [i \in 0..Len(s) |-> p[i]]
        BY <1>1
    <2> QED
        BY <2>1, <2>2, Zenon
<1> DEFINE q == CHOOSE f : Sums(f)
<1>5. Sums(q)
    <2> HIDE DEF Sums
    <2> QED
        BY <1>4
<1>6. Value(s, base, digit) = q[Len(s)]
    BY DEF Value
<1> HIDE DEF q
<1>7. q[0] = 0 /\ \A i \in 1..Len(s) : q[i] = q[i - 1] * base + ValueOf(s[i], digit)
    <2>1. \A i \in 0..Len(s) : q[i] = IF i = 0 THEN 0 ELSE q[i - 1] * base + ValueOf(s[i], digit)
        BY <1>5
    <2> QED
        BY <2>1
<1> DEFINE Off == {i \in 0..Len(s) : q[i] # p[i]}
<1>8. Off = {}
    <2> SUFFICES ASSUME Off # {} PROVE FALSE
        OBVIOUS
    <2>1. PICK i \in Off : \A x \in Off : i <= x
        <3>1. Off \subseteq Nat
            OBVIOUS
        <3> HIDE DEF Off
        <3> QED
            BY <3>1, LeastNatural
    <2>2. i \in 0..Len(s) /\ q[i] # p[i]
        BY <2>1
    <2>3. i \in 1..Len(s) /\ i - 1 \in 0..Len(s)
        BY <1>1, <1>7, <2>2
    <2>4. q[i - 1] = p[i - 1]
        BY <2>1, <2>3
    <2>5. q[i] = q[i - 1] * base + ValueOf(s[i], digit)
        BY <1>7, <2>3
    <2>6. p[i] = p[i - 1] * base + ValueOf(s[i], digit)
        BY <1>3, <2>3
    <2> QED
        BY <2>2, <2>4, <2>5, <2>6, Zenon
<1>9. q[Len(s)] = p[Len(s)]
    BY <1>8
<1> QED
    BY <1>1, <1>6, <1>9

\* A digit, a digit behind others, and zeros in front of them.
LEMMA ReadingDigit ==
    ASSUME NEW base \in 1..16, NEW digit \in Glyphs, NEW m \in Nat, m < base
    PROVE  Reading(<<digit[m + 1]>>, base, digit, m)
<1> DEFINE s == <<digit[m + 1]>>
           p == [i \in 0..1 |-> IF i = 0 THEN 0 ELSE m]
<1>1. Len(s) = 1 /\ s[1] = digit[m + 1]
    OBVIOUS
<1>2. p \in [0..1 -> Nat] /\ p[0] = 0 /\ p[1] = m
    OBVIOUS
<1>3. m \in 0..(base - 1) /\ m = 0 * base + m
    OBVIOUS
<1> HIDE DEF s, p
<1>4. \A i \in 1..Len(s) : \E v \in 0..(base - 1) : s[i] = digit[v + 1] /\ p[i] = p[i - 1] * base + v
    <2> TAKE i \in 1..Len(s)
    <2>1. i = 1
        BY <1>1
    <2>2. s[i] = digit[m + 1] /\ p[i] = p[i - 1] * base + m
        BY <1>1, <1>2, <1>3, <2>1
    <2> QED
        BY <1>3, <2>2
<1>5. Reading(s, base, digit, m)
    BY <1>1, <1>2, <1>4 DEF Reading
<1> QED
    BY <1>5 DEF s

LEMMA ReadingAppend ==
    ASSUME NEW s \in Seq(Chars), NEW base \in 1..16, NEW digit \in Glyphs, NEW n \in Nat,
           Reading(s, base, digit, n), NEW v \in 0..(base - 1)
    PROVE  Reading(Append(s, digit[v + 1]), base, digit, n * base + v)
<1>1. PICK p \in [0..Len(s) -> Nat] :
        /\ p[0] = 0 /\ p[Len(s)] = n
        /\ \A i \in 1..Len(s) : \E u \in 0..(base - 1) :
               s[i] = digit[u + 1] /\ p[i] = p[i - 1] * base + u
    BY DEF Reading
<1> DEFINE t == Append(s, digit[v + 1])
           q == [i \in 0..(Len(s) + 1) |-> IF i <= Len(s) THEN p[i] ELSE n * base + v]
<1>2. digit[v + 1] \in Chars
    <2>1. v + 1 \in 1..16
        OBVIOUS
    <2>2. \A u \in 1..16 : digit[u] \in Chars
        BY GlyphFacts
    <2> QED
        BY <2>1, <2>2
<1>3. /\ Len(t) = Len(s) + 1 /\ t[Len(s) + 1] = digit[v + 1]
      /\ \A i \in 1..Len(s) : t[i] = s[i]
    BY <1>2, AppendProperties
<1>4. Len(s) \in Nat /\ n * base + v \in Nat
    OBVIOUS
<1>5. /\ q \in [0..(Len(s) + 1) -> Nat] /\ q[Len(s) + 1] = n * base + v
      /\ \A i \in 0..Len(s) : q[i] = p[i]
    BY <1>1, <1>4
<1> HIDE DEF t, q
<1>6. \A i \in 1..Len(t) : \E u \in 0..(base - 1) : t[i] = digit[u + 1] /\ q[i] = q[i - 1] * base + u
    <2> TAKE i \in 1..Len(t)
    <2>1. CASE i = Len(s) + 1
        <3>1. q[i - 1] = n
            BY <1>1, <1>4, <1>5, <2>1
        <3> QED
            BY <1>3, <1>5, <2>1, <3>1
    <2>2. CASE i # Len(s) + 1
        <3>1. i \in 1..Len(s) /\ i \in 0..Len(s) /\ i - 1 \in 0..Len(s)
            BY <1>3, <1>4, <2>2
        <3>2. t[i] = s[i] /\ q[i] = p[i] /\ q[i - 1] = p[i - 1]
            BY <1>3, <1>5, <3>1
        <3> QED
            BY <1>1, <3>1, <3>2
    <2> QED
        BY <2>1, <2>2
<1>7. q[0] = 0
    BY <1>1, <1>4, <1>5
<1>8. Reading(t, base, digit, n * base + v)
    <2>1. q \in [0..Len(t) -> Nat] /\ q[Len(t)] = n * base + v
        BY <1>3, <1>5
    <2> QED
        BY <1>6, <1>7, <2>1, Zenon DEF Reading
<1> QED
    BY <1>8 DEF t

LEMMA RepeatFacts ==
    ASSUME NEW c \in Chars, NEW k \in Int
    PROVE  /\ Repeat(c, k) \in Seq(Chars)
           /\ Len(Repeat(c, k)) = IF k > 0 THEN k ELSE 0
           /\ \A i \in 1..k : Repeat(c, k)[i] = c
<1> DEFINE l == IF k > 0 THEN k ELSE 0
           r == Repeat(c, k)
<1>1. l \in Nat /\ 1..k = 1..l
    OBVIOUS
<1>2. r = [i \in 1..l |-> c]
    BY <1>1, Zenon DEF Repeat
<1> HIDE DEF l, r
<1>3. r \in [1..l -> Chars] /\ DOMAIN r = 1..l /\ \A i \in 1..l : r[i] = c
    BY <1>2
<1>4. r \in Seq(Chars)
    BY <1>1, <1>3, SeqDef
<1>5. Len(r) \in Nat /\ 1..Len(r) = 1..l
    BY <1>3, <1>4, LenProperties
<1>6. Len(r) = l
    BY <1>1, <1>5
<1> QED
    BY <1>1, <1>3, <1>4, <1>6 DEF r, l

\* Less than none is none.
LEMMA RepeatNone ==
    ASSUME NEW c \in Chars, NEW k \in Int, k <= 0
    PROVE  Repeat(c, k) = <<>>
<1>1. Repeat(c, k) \in Seq(Chars) /\ Len(Repeat(c, k)) = IF k > 0 THEN k ELSE 0
    BY RepeatFacts, Zenon
<1>2. Len(Repeat(c, k)) = 0
    BY <1>1
<1> QED
    BY <1>1, <1>2, EmptySeq

LEMMA ReadingZeros ==
    ASSUME NEW s \in Seq(Chars), NEW base \in 1..16, NEW digit \in Glyphs, NEW n \in Nat,
           Reading(s, base, digit, n), NEW k \in Int
    PROVE  Reading(Repeat("0", k) \o s, base, digit, n)
<1>1. PICK p \in [0..Len(s) -> Nat] :
        /\ p[0] = 0 /\ p[Len(s)] = n
        /\ \A i \in 1..Len(s) : \E u \in 0..(base - 1) :
               s[i] = digit[u + 1] /\ p[i] = p[i - 1] * base + u
    BY DEF Reading
<1> DEFINE z == Repeat("0", k)
           t == z \o s
           l == Len(z)
           q == [i \in 0..(l + Len(s)) |-> IF i <= l THEN 0 ELSE p[i - l]]
<1>2. z \in Seq(Chars) /\ l \in Nat /\ Len(s) \in Nat /\ \A i \in 1..l : z[i] = digit[1]
    <2>1. digit[1] = "0"
        BY GlyphFacts
    <2>0. "0" \in Chars
        BY <2>1, GlyphFacts
    <2>2. /\ z \in Seq(Chars)
          /\ l = IF k > 0 THEN k ELSE 0
          /\ \A i \in 1..k : z[i] = "0"
        BY <2>0, RepeatFacts, Zenon
    <2> HIDE DEF z, l
    <2>3. 1..l = 1..k /\ l \in Nat
        BY <2>2
    <2> QED
        BY <2>1, <2>2, <2>3
<1>3. /\ Len(t) = l + Len(s)
      /\ \A i \in 1..(l + Len(s)) : t[i] = IF i <= l THEN z[i] ELSE s[i - l]
    BY <1>2, ConcatProperties
<1>4. /\ q \in [0..(l + Len(s)) -> Nat]
      /\ \A i \in 0..(l + Len(s)) : q[i] = IF i <= l THEN 0 ELSE p[i - l]
    <2>1. \A i \in 0..(l + Len(s)) : i > l => i - l \in 0..Len(s)
        BY <1>2
    <2> QED
        BY <1>1, <2>1
<1> HIDE DEF z, t, l, q
<1>5. \A i \in 1..Len(t) : \E u \in 0..(base - 1) : t[i] = digit[u + 1] /\ q[i] = q[i - 1] * base + u
    <2> TAKE i \in 1..Len(t)
    <2>0. i \in 0..(l + Len(s)) /\ i - 1 \in 0..(l + Len(s)) /\ i \in 1..(l + Len(s))
        BY <1>2, <1>3
    <2>1. CASE i <= l
        <3>1. q[i] = 0 /\ q[i - 1] = 0
            BY <1>2, <1>4, <2>0, <2>1
        <3>2. t[i] = digit[0 + 1]
            BY <1>2, <1>3, <2>0, <2>1
        <3>3. 0 \in 0..(base - 1) /\ 0 = 0 * base + 0
            OBVIOUS
        <3> QED
            BY <3>1, <3>2, <3>3
    <2>2. CASE i > l
        <3>1. i - l \in 1..Len(s) /\ (i - l) - 1 = (i - 1) - l
            BY <1>2, <2>0, <2>2
        <3>2. t[i] = s[i - l] /\ q[i] = p[i - l]
            BY <1>2, <1>3, <1>4, <2>0, <2>2
        <3>3. q[i - 1] = p[(i - l) - 1]
            <4>1. CASE i - 1 > l
                BY <1>2, <1>4, <2>0, <3>1, <4>1
            <4>2. CASE i - 1 = l
                BY <1>1, <1>2, <1>4, <2>0, <3>1, <4>2
            <4> QED
                BY <1>2, <2>0, <2>2, <4>1, <4>2
        <3> QED
            BY <1>1, <3>1, <3>2, <3>3
    <2> QED
        BY <1>2, <2>0, <2>1, <2>2
<1>6. q[0] = 0 /\ q[Len(t)] = n
    <2>1. q[0] = 0
        BY <1>2, <1>4
    <2>2. CASE Len(s) = 0
        BY <1>1, <1>2, <1>3, <1>4, <2>2
    <2>3. CASE Len(s) # 0
        <3>1. Len(t) \in 0..(l + Len(s)) /\ ~(Len(t) <= l) /\ Len(t) - l = Len(s)
            BY <1>2, <1>3, <2>3
        <3> QED
            BY <1>1, <1>4, <2>1, <3>1
    <2> QED
        BY <2>1, <2>2, <2>3
<1>7. Reading(t, base, digit, n)
    <2>1. q \in [0..Len(t) -> Nat]
        BY <1>3, <1>4
    <2> QED
        BY <1>5, <1>6, <2>1, Zenon DEF Reading
<1> QED
    BY <1>7 DEF t, z

(***************************************************************************)
(* vsnprintf_number: the digits that its loop makes are read as the number *)
(* they are made of, and none is too many.                                 *)
(***************************************************************************)
LEMMA DivisionFacts ==
    ASSUME NEW n \in Nat, NEW base \in 2..16, base <= n
    PROVE  /\ n \div base \in Nat \ {0} /\ n \div base < n
           /\ n % base \in 0..(base - 1)
           /\ n = (n \div base) * base + (n % base)
<1>1. n % base \in 0..(base - 1) /\ n = base * (n \div base) + (n % base) /\ n \div base \in Nat
    OBVIOUS
<1> DEFINE q == n \div base
           r == n % base
<1> HIDE DEF q, r
<1>2. r \in 0..(base - 1) /\ n = base * q + r /\ q \in Nat
    BY <1>1 DEF q, r
<1>3. base * q = q * base
    BY <1>2
<1>4. q # 0
    BY <1>2
<1>5. base * q >= 2 * q
    BY <1>2
<1> QED
    BY <1>1, <1>2, <1>3, <1>4, <1>5 DEF q, r

LEMMA OneChar ==
    ASSUME NEW c \in Chars
    PROVE  <<c>> \in Seq(Chars) /\ Len(<<c>>) = 1 /\ <<c>>[1] = c
  OBVIOUS

LEMMA TmpFacts ==
    ASSUME NEW base \in 2..16, NEW digit \in Glyphs
    PROVE  /\ Tmp(base, digit) \in [Nat -> Seq(Chars)]
           /\ \A n \in Nat : Tmp(base, digit)[n] =
                  IF n < base THEN <<digit[n + 1]>>
                  ELSE Append(Tmp(base, digit)[n \div base], digit[(n % base) + 1])
<1> DEFINE Z == {n \in Nat : n < base}
           prev == [n \in Nat |-> n \div base]
           first == [n \in Nat |-> <<digit[(n % base) + 1]>>]
           follow == [n \in Nat |-> [s \in Seq(Chars) |-> Append(s, digit[(n % base) + 1])]]
           Made(f) == f = [n \in Nat |-> IF n < base THEN <<digit[n + 1]>>
                                         ELSE Append(f[n \div base], digit[(n % base) + 1])]
<1>1. \A n \in Nat : digit[(n % base) + 1] \in Chars
    <2> TAKE n \in Nat
    <2>1. (n % base) + 1 \in 1..16
        OBVIOUS
    <2> QED
        BY <2>1, GlyphFacts
<1>2. first \in [Nat -> Seq(Chars)]
    <2>1. \A n \in Nat : <<digit[(n % base) + 1]>> \in Seq(Chars)
        BY <1>1, OneChar
    <2> QED
        BY <2>1
<1>3. follow \in [Nat -> [Seq(Chars) -> Seq(Chars)]]
    <2>1. \A n \in Nat : \A s \in Seq(Chars) : Append(s, digit[(n % base) + 1]) \in Seq(Chars)
        <3> TAKE n \in Nat
        <3> TAKE s \in Seq(Chars)
        <3>1. digit[(n % base) + 1] \in Chars
            BY <1>1
        <3> QED
            BY <3>1, AppendProperties
    <2>2. \A n \in Nat : [s \in Seq(Chars) |-> Append(s, digit[(n % base) + 1])]
                              \in [Seq(Chars) -> Seq(Chars)]
        BY <2>1
    <2> QED
        BY <2>2
<1>4. prev \in [Nat -> Nat]
    <2>1. \A n \in Nat : n \div base \in Nat
        OBVIOUS
    <2> QED
        BY <2>1
<1>5. \A n \in Nat \ Z : prev[n] < n
    BY DivisionFacts
<1>6. PICK f \in [Nat -> Seq(Chars)] :
          \A n \in Nat : f[n] = IF n \in Z THEN first[n] ELSE follow[n][f[prev[n]]]
    <2> DEFINE W == Seq(Chars)
    <2>1. Z \in SUBSET Nat
        OBVIOUS
    <2>2. first \in [Nat -> W] /\ follow \in [Nat -> [W -> W]]
        BY <1>2, <1>3
    <2> HIDE DEF Z, prev, first, follow, W
    <2>3. Recurs(W, Z, prev, first, follow)
        BY <1>4, <1>5, <2>1, <2>2, Recursion
    <2> QED
        BY <2>3 DEF Recurs, W
<1>7. ASSUME NEW n \in Nat
      PROVE  f[n] = IF n < base THEN <<digit[n + 1]>>
                    ELSE Append(f[n \div base], digit[(n % base) + 1])
    <2>1. CASE n < base
        <3>1. n % base = n /\ n \in Z
            BY <2>1
        <3>2. first[n] = <<digit[n + 1]>>
            BY <3>1
        <3> QED
            BY <1>6, <2>1, <3>1, <3>2
    <2>2. CASE ~(n < base)
        <3>1. n \div base \in Nat /\ prev[n] = n \div base /\ n \notin Z
            BY <1>4, <2>2
        <3>2. f[n \div base] \in Seq(Chars)
            BY <1>6, <3>1
        <3>3. follow[n][f[n \div base]] = Append(f[n \div base], digit[(n % base) + 1])
            BY <3>2
        <3>4. f[n] = follow[n][f[n \div base]]
            BY <1>6, <3>1
        <3> QED
            BY <2>2, <3>3, <3>4
    <2> QED
        BY <2>1, <2>2
<1>8. Made(f)
    <2>1. f = [n \in Nat |-> f[n]]
        BY <1>6
    <2> QED
        BY <1>7, <2>1, Zenon
<1> DEFINE g == CHOOSE h : Made(h)
<1>9. Made(g)
    <2> HIDE DEF Made
    <2> QED
        BY <1>8
<1>10. Tmp(base, digit) = g
    BY DEF Tmp
<1> HIDE DEF g
<1>11. \A n \in Nat : g[n] = IF n < base THEN <<digit[n + 1]>>
                             ELSE Append(g[n \div base], digit[(n % base) + 1])
    BY <1>9
<1>12. g = [n \in Nat |-> g[n]]
    BY <1>9
<1> DEFINE Off == {n \in Nat : g[n] \notin Seq(Chars)}
<1>13. Off = {}
    <2> SUFFICES ASSUME Off # {} PROVE FALSE
        OBVIOUS
    <2>1. PICK n \in Off : \A x \in Off : n <= x
        <3>1. Off \subseteq Nat
            OBVIOUS
        <3> HIDE DEF Off
        <3> QED
            BY <3>1, LeastNatural
    <2>2. n \in Nat /\ g[n] \notin Seq(Chars)
        BY <2>1
    <2>3. CASE n < base
        <3>1. n + 1 \in 1..16
            <4> HIDE DEF Off
            <4> QED
                BY <2>2, <2>3
        <3>2. <<digit[n + 1]>> \in Seq(Chars)
            BY <3>1, GlyphFacts, OneChar
        <3> QED
            BY <1>11, <2>2, <2>3, <3>2
    <2>4. CASE ~(n < base)
        <3>1. n \div base \in Nat /\ n \div base < n
            BY <2>2, <2>4, DivisionFacts
        <3>2. n \div base \notin Off
            <4> HIDE DEF Off
            <4> QED
                BY <2>1, <2>2, <3>1
        <3>3. g[n \div base] \in Seq(Chars)
            BY <3>1, <3>2
        <3>4. Append(g[n \div base], digit[(n % base) + 1]) \in Seq(Chars)
            <4>1. digit[(n % base) + 1] \in Chars
                BY <1>1, <2>2
            <4> HIDE DEF Off
            <4> QED
                BY <3>3, <4>1, AppendProperties
        <3> QED
            BY <1>11, <2>2, <2>4, <3>4
    <2> QED
        BY <2>3, <2>4
<1>14. g \in [Nat -> Seq(Chars)]
    BY <1>12, <1>13
<1> QED
    BY <1>10, <1>11, <1>14

LEMMA DigitsRead ==
    ASSUME NEW base \in 2..16, NEW digit \in Glyphs, NEW n \in Nat
    PROVE  /\ Digits(n, base, digit) \in Seq(Chars)
           /\ Len(Digits(n, base, digit)) >= 1
           /\ Reading(Digits(n, base, digit), base, digit, n)
           /\ Digits(n, base, digit)[1] = "0" => Len(Digits(n, base, digit)) = 1
<1> DEFINE T == Tmp(base, digit)
           Good(m) == /\ Len(T[m]) >= 1
                      /\ Reading(T[m], base, digit, m)
                      /\ m # 0 => T[m][1] # "0"
           Off == {m \in Nat : ~Good(m)}
<1>1. /\ T \in [Nat -> Seq(Chars)]
      /\ \A m \in Nat : T[m] = IF m < base THEN <<digit[m + 1]>>
                               ELSE Append(T[m \div base], digit[(m % base) + 1])
    BY TmpFacts
<1> HIDE DEF T
<1>2. ASSUME NEW v \in 0..15, digit[v + 1] = "0" PROVE v = 0
    <2>1. digit[1] = "0" /\ 0 \in 0..15 /\ 0 + 1 = 1
        BY GlyphFacts
    <2>2. digit[v + 1] = digit[0 + 1]
        BY <1>2, <2>1
    <2> QED
        BY <2>1, <2>2, GlyphFacts
<1>3. Off = {}
    <2> SUFFICES ASSUME Off # {} PROVE FALSE
        OBVIOUS
    <2>1. PICK m \in Off : \A x \in Off : m <= x
        <3>1. Off \subseteq Nat
            OBVIOUS
        <3> HIDE DEF Off
        <3> QED
            BY <3>1, LeastNatural
    <2>2. m \in Nat /\ ~Good(m)
        BY <2>1
    <2>3. CASE m < base
        <3>1. T[m] = <<digit[m + 1]>> /\ base \in 1..16
            <4> HIDE DEF Off
            <4>1. base \in 1..16
                OBVIOUS
            <4> QED
                BY <1>1, <2>2, <2>3, <4>1
        <3>2. Reading(T[m], base, digit, m)
            BY <2>2, <2>3, <3>1, ReadingDigit
        <3>3. Len(T[m]) = 1 /\ T[m][1] = digit[m + 1] /\ m \in 0..15
            BY <2>2, <2>3, <3>1
        <3>4. m # 0 => T[m][1] # "0"
            BY <1>2, <3>3
        <3> QED
            BY <2>2, <3>2, <3>3, <3>4
    <2>4. CASE ~(m < base)
        <3> DEFINE q == m \div base
                   r == m % base
        <3>1. q \in Nat \ {0} /\ q < m /\ r \in 0..(base - 1) /\ m = q * base + r
            BY <2>2, <2>4, DivisionFacts
        <3>2. T[m] = Append(T[q], digit[r + 1])
            BY <1>1, <2>2, <2>4
        <3> HIDE DEF q, r
        <3>3. q \notin Off
            <4> HIDE DEF Off
            <4> QED
                BY <2>1, <2>2, <3>1
        <3>4. Good(q)
            BY <3>1, <3>3
        <3>5. T[q] \in Seq(Chars) /\ digit[r + 1] \in Chars
            <4>1. r + 1 \in 1..16
                BY <3>1
            <4> QED
                BY <1>1, <3>1, <4>1, GlyphFacts
        <3>6. Reading(T[m], base, digit, m)
            <4>1. base \in 1..16
                OBVIOUS
            <4>2. Reading(Append(T[q], digit[r + 1]), base, digit, q * base + r)
                BY <3>1, <3>4, <3>5, <4>1, ReadingAppend
            <4> QED
                BY <3>1, <3>2, <4>2
        <3>7. Len(T[m]) >= 1 /\ T[m][1] = T[q][1]
            BY <3>2, <3>4, <3>5, AppendProperties
        <3> QED
            BY <2>2, <3>1, <3>4, <3>6, <3>7
    <2> QED
        BY <2>3, <2>4
<1>4. Good(n)
    BY <1>3
<1>5. n = 0 => Len(T[n]) = 1
    BY <1>1
<1> QED
    BY <1>1, <1>4, <1>5 DEF Digits, T

(***************************************************************************)
(* The words of a call: how many the first directives of a format take.    *)
(***************************************************************************)
LEMMA TakenByFacts ==
    ASSUME NEW d \in AnyDirective
    PROVE  /\ Stars(d) \in 0..2 /\ TakenBy(d) \in Nat
           /\ Stars(d) = (IF d.field = Star THEN 1 ELSE 0) + (IF d.precision = Star THEN 1 ELSE 0)
           /\ d.conversion \in Numbers /\ d.qualifier \in {"L", "ll"} => TakenBy(d) = Stars(d) + 2
           /\ d.conversion \in Numbers /\ d.qualifier \notin {"L", "ll"} => TakenBy(d) = Stars(d) + 1
           /\ d.conversion \in {"c", "s", "p", "n"} => TakenBy(d) = Stars(d) + 1
           /\ TakenBy(d) >= Stars(d)
<1>1. Stars(d) \in 0..2
    BY DEF Stars
<1>2. TakenBy(d) - Stars(d) \in {0, 1, 2} /\ TakenBy(d) \in Nat
    <2> DEFINE x == IF d.conversion \in Numbers THEN IF d.qualifier \in {"L", "ll"} THEN 2 ELSE 1
                    ELSE IF d.conversion \in {"c", "s", "p", "n"} THEN 1 ELSE 0
    <2>1. x \in {0, 1, 2}
        OBVIOUS
    <2>2. TakenBy(d) = Stars(d) + x
        BY DEF TakenBy
    <2> HIDE DEF x
    <2> QED
        BY <1>1, <2>1, <2>2
<1>3. TakenBy(d) >= Stars(d)
    BY <1>1, <1>2
<1>4. /\ d.conversion \in Numbers /\ d.qualifier \in {"L", "ll"} => TakenBy(d) = Stars(d) + 2
      /\ d.conversion \in Numbers /\ d.qualifier \notin {"L", "ll"} => TakenBy(d) = Stars(d) + 1
      /\ d.conversion \in {"c", "s", "p", "n"} => TakenBy(d) = Stars(d) + 1
    <2>1. d.conversion \in Numbers /\ d.qualifier \in {"L", "ll"} => TakenBy(d) = Stars(d) + 2
        BY <1>1 DEF TakenBy
    <2>2. d.conversion \in Numbers /\ d.qualifier \notin {"L", "ll"} => TakenBy(d) = Stars(d) + 1
        BY <1>1 DEF TakenBy
    <2>3. d.conversion \in {"c", "s", "p", "n"} => TakenBy(d) = Stars(d) + 1
        BY <1>1 DEF TakenBy, Numbers
    <2> QED
        BY <2>1, <2>2, <2>3
<1> QED
    BY <1>1, <1>2, <1>3, <1>4 DEF Stars

IsSum(h, l, t) == h = [i \in 0..l |-> IF i = 0 THEN 0 ELSE h[i - 1] + t[i]]

LEMMA SumsExist ==
    ASSUME NEW l \in Nat, NEW t \in [Nat -> Nat]
    PROVE  \E h : IsSum(h, l, t)
<1> DEFINE prev == [n \in Nat |-> IF n = 0 THEN 0 ELSE n - 1]
           first == [n \in Nat |-> 0]
           follow == [n \in Nat |-> [x \in Nat |-> x + t[n]]]
<1>1. /\ prev \in [Nat -> Nat] /\ first \in [Nat -> Nat]
      /\ \A n \in Nat \ {0} : prev[n] < n
    OBVIOUS
<1>2. follow \in [Nat -> [Nat -> Nat]]
    <2>1. \A n \in Nat : \A x \in Nat : x + t[n] \in Nat
        OBVIOUS
    <2>2. \A n \in Nat : [x \in Nat |-> x + t[n]] \in [Nat -> Nat]
        BY <2>1
    <2> QED
        BY <2>2
<1>3. Recurs(Nat, {0}, prev, first, follow)
    <2>1. {0} \in SUBSET Nat
        OBVIOUS
    <2> DEFINE Z == {0}
               S == Nat
    <2>2. /\ Z \in SUBSET Nat /\ first \in [Nat -> S] /\ follow \in [Nat -> [S -> S]]
          /\ prev \in [Nat -> Nat] /\ \A n \in Nat \ Z : prev[n] < n
        BY <1>1, <1>2
    <2> HIDE DEF prev, first, follow, Z, S
    <2>3. Recurs(S, Z, prev, first, follow)
        BY <2>2, Recursion
    <2> QED
        BY <2>3 DEF S, Z
<1>4. PICK g \in [Nat -> Nat] :
          \A n \in Nat : g[n] = IF n \in {0} THEN first[n] ELSE follow[n][g[prev[n]]]
    BY <1>3 DEF Recurs
<1>5. g[0] = 0
    BY <1>4
<1>6. ASSUME NEW i \in Nat \ {0} PROVE g[i] = g[i - 1] + t[i]
    <2>1. i \in Nat /\ i # 0 /\ i - 1 \in Nat /\ prev[i] = i - 1
        OBVIOUS
    <2>2. g[i] = follow[i][g[i - 1]]
        BY <1>4, <2>1
    <2>3. follow[i][g[i - 1]] = g[i - 1] + t[i]
        BY <1>4, <2>1
    <2> QED
        BY <2>2, <2>3
<1> HIDE DEF prev, first, follow
<1> DEFINE h == [i \in 0..l |-> g[i]]
<1>7. ASSUME NEW i \in 0..l PROVE h[i] = IF i = 0 THEN 0 ELSE h[i - 1] + t[i]
    <2>1. CASE i = 0
        BY <1>5, <2>1
    <2>2. CASE i # 0
        <3>1. i \in Nat \ {0} /\ i - 1 \in 0..l
            BY <2>2
        <3>2. h[i] = g[i] /\ h[i - 1] = g[i - 1]
            BY <3>1
        <3> QED
            BY <1>6, <2>2, <3>1, <3>2
    <2> QED
        BY <2>1, <2>2
<1>8. h = [i \in 0..l |-> h[i]]
    OBVIOUS
<1> HIDE DEF h
<1>9. IsSum(h, l, t)
    BY <1>7, <1>8, Zenon DEF IsSum
<1> QED
    BY <1>9

LEMMA SumsAre ==
    ASSUME NEW l \in Nat, NEW t \in [Nat -> Nat], NEW q, IsSum(q, l, t)
    PROVE  /\ q \in [0..l -> Nat] /\ q[0] = 0
           /\ \A i \in 1..l : q[i] = q[i - 1] + t[i]
<1>1. \A i \in 0..l : q[i] = IF i = 0 THEN 0 ELSE q[i - 1] + t[i]
    BY DEF IsSum
<1>2. q = [i \in 0..l |-> q[i]]
    BY DEF IsSum
<1>3. q[0] = 0
    BY <1>1
<1>4. ASSUME NEW i \in 1..l PROVE q[i] = q[i - 1] + t[i]
    <2>1. i \in 0..l /\ i # 0
        OBVIOUS
    <2> QED
        BY <1>1, <2>1
<1> DEFINE Off == {i \in 0..l : q[i] \notin Nat}
<1>5. Off = {}
    <2> SUFFICES ASSUME Off # {} PROVE FALSE
        OBVIOUS
    <2>1. PICK i \in Off : \A x \in Off : i <= x
        <3>1. Off \subseteq Nat
            OBVIOUS
        <3> HIDE DEF Off
        <3> QED
            BY <3>1, LeastNatural
    <2>2. i \in 0..l /\ q[i] \notin Nat
        BY <2>1
    <2>3. i \in 1..l /\ i - 1 \in 0..l
        BY <1>3, <2>2
    <2>4. q[i - 1] \in Nat
        <3>1. i - 1 \notin Off
            <4> HIDE DEF Off
            <4> QED
                BY <2>1, <2>3
        <3> QED
            BY <2>3, <3>1
    <2>5. q[i] = q[i - 1] + t[i] /\ t[i] \in Nat
        <3>1. i \in Nat
            BY <2>3
        <3> HIDE DEF Off
        <3> QED
            BY <1>4, <2>3, <3>1
    <2> HIDE DEF Off
    <2> QED
        BY <2>2, <2>4, <2>5
<1>6. q \in [0..l -> Nat]
    BY <1>2, <1>5
<1> QED
    BY <1>3, <1>4, <1>6

LEMMA TakenUpToFacts ==
    ASSUME NEW f \in Seq(AnyDirective)
    PROVE  /\ TakenUpTo(f) \in [0..Len(f) -> Nat]
           /\ TakenUpTo(f)[0] = 0
           /\ \A i \in 1..Len(f) : TakenUpTo(f)[i] = TakenUpTo(f)[i - 1] + TakenBy(f[i])
<1> DEFINE l == Len(f)
           t == [n \in Nat |-> IF n \in 1..l THEN TakenBy(f[n]) ELSE 0]
           Sums(g) == g = [i \in 0..Len(f) |-> IF i = 0 THEN 0 ELSE g[i - 1] + TakenBy(f[i])]
           q == CHOOSE u : Sums(u)
<1>1. l \in Nat /\ \A i \in 1..l : TakenBy(f[i]) \in Nat
    BY TakenByFacts
<1>2. t \in [Nat -> Nat] /\ \A i \in 1..l : t[i] = TakenBy(f[i])
    BY <1>1
<1>3. TakenUpTo(f) = q
    BY DEF TakenUpTo
<1> HIDE DEF t, l, q
<1>4. ASSUME NEW i \in 0..l, i # 0 PROVE t[i] = TakenBy(f[i])
    <2>1. i \in 1..l
        BY <1>1, <1>4
    <2> QED
        BY <1>2, <2>1
<1>5. ASSUME NEW g PROVE Sums(g) <=> IsSum(g, l, t)
    <2>1. \A i \in 0..l : (IF i = 0 THEN 0 ELSE g[i - 1] + t[i])
                             = (IF i = 0 THEN 0 ELSE g[i - 1] + TakenBy(f[i]))
        BY <1>4
    <2>2. [i \in 0..l |-> IF i = 0 THEN 0 ELSE g[i - 1] + t[i]]
              = [i \in 0..l |-> IF i = 0 THEN 0 ELSE g[i - 1] + TakenBy(f[i])]
        BY <2>1
    <2> QED
        BY <2>2, Zenon DEF l, IsSum
<1> HIDE DEF Sums
<1>6. \E g : Sums(g)
    BY <1>1, <1>2, <1>5, SumsExist
<1>7. Sums(q)
    BY <1>6 DEF q
<1>8. IsSum(q, l, t)
    BY <1>5, <1>7
<1>9. /\ q \in [0..l -> Nat] /\ q[0] = 0
      /\ \A i \in 1..l : q[i] = q[i - 1] + t[i]
    BY <1>1, <1>2, <1>8, SumsAre
<1>10. \A i \in 1..l : q[i] = q[i - 1] + TakenBy(f[i])
    BY <1>2, <1>9
<1> QED
    BY <1>3, <1>9, <1>10 DEF l

\* What the directive at i of a well-formed call finds in front of it: its own
\* words, as many as it takes, and strings where it says so.
RestAt(f, w, i) == SubSeq(w, TakenUpTo(f)[i - 1] + 1, Len(w))

LEMMA OwnWords ==
    ASSUME NEW f, NEW w, WellFormed(f, w), NEW i \in 1..Len(f)
    PROVE  /\ f[i] \in AnyDirective
           /\ RestAt(f, w, i) \in Seq(0 .. Ints - 1) /\ TakenBy(f[i]) <= Len(RestAt(f, w, i))
           /\ f[i].conversion = "s" =>
                 RestAt(f, w, i)[Stars(f[i]) + 1] \in 0 .. NullPage - 1 \cup DOMAIN Memory
<1> DEFINE k == TakenUpTo(f)[i - 1]
           t == TakenBy(f[i])
<1>1. /\ f \in Seq(AnyDirective) /\ w \in Seq(0 .. Ints - 1)
      /\ TakenUpTo(f)[i] <= Len(w)
      /\ f[i].conversion = "s" => w[TakenUpTo(f)[i]] \in 0 .. NullPage - 1 \cup DOMAIN Memory
    BY DEF WellFormed
<1>2. f[i] \in AnyDirective /\ Len(f) \in Nat /\ i - 1 \in 0..Len(f)
    BY <1>1
<1>3. k \in Nat /\ TakenUpTo(f)[i] = k + t
    BY <1>1, <1>2, TakenUpToFacts
<1>4. t \in Nat /\ (f[i].conversion = "s" => t = Stars(f[i]) + 1)
    BY <1>2, TakenByFacts
<1> HIDE DEF k, t
<1>5. k + t <= Len(w) /\ Len(w) \in Nat
    BY <1>1, <1>3
<1>6. \A j \in (k + 1)..Len(w) : w[j] \in 0 .. Ints - 1
    <2> DEFINE W == 0 .. Ints - 1
    <2>1. w \in Seq(W) /\ k \in Nat
        BY <1>1, <1>3
    <2> HIDE DEF W
    <2>2. \A j \in (k + 1)..Len(w) : w[j] \in W
        BY <1>5, <2>1, ElementOfSeq
    <2> QED
        BY <2>2 DEF W
<1>7. /\ RestAt(f, w, i) \in Seq(0 .. Ints - 1)
      /\ Len(RestAt(f, w, i)) = IF k + 1 <= Len(w) THEN Len(w) - (k + 1) + 1 ELSE 0
      /\ \A j \in 1..(Len(w) - (k + 1) + 1) : RestAt(f, w, i)[j] = w[(k + 1) + j - 1]
    <2> DEFINE W == 0 .. Ints - 1
    <2>1. \A j \in (k + 1)..Len(w) : w[j] \in W
        BY <1>6
    <2>2. RestAt(f, w, i) = SubSeq(w, k + 1, Len(w)) /\ k + 1 \in Int /\ Len(w) \in Int
        BY <1>3, <1>5 DEF k, RestAt
    <2> HIDE DEF W
    <2>3. /\ RestAt(f, w, i) \in Seq(W)
          /\ Len(RestAt(f, w, i)) = IF k + 1 <= Len(w) THEN Len(w) - (k + 1) + 1 ELSE 0
          /\ \A j \in 1..(Len(w) - (k + 1) + 1) : RestAt(f, w, i)[j] = w[(k + 1) + j - 1]
        BY <2>1, <2>2, SubSeqProperties
    <2> QED
        BY <2>3 DEF W
<1>8. Len(RestAt(f, w, i)) = Len(w) - k
    <2>1. Len(RestAt(f, w, i)) = IF k + 1 <= Len(w) THEN Len(w) - (k + 1) + 1 ELSE 0
        BY <1>7
    <2>2. k \in Nat /\ t \in Nat
        BY <1>3, <1>4
    <2> QED
        BY <1>5, <2>1, <2>2
<1>9. f[i].conversion = "s" => RestAt(f, w, i)[Stars(f[i]) + 1] = w[k + t]
    <2> HAVE f[i].conversion = "s"
    <2>1. t = Stars(f[i]) + 1 /\ t \in 1..(Len(w) - (k + 1) + 1) /\ (k + 1) + t - 1 = k + t
        <3>1. Stars(f[i]) \in 0..2
            BY <1>2, TakenByFacts
        <3> QED
            BY <1>3, <1>4, <1>5, <3>1
    <2> QED
        BY <1>7, <2>1
<1>10. t <= Len(RestAt(f, w, i))
    <2>1. k \in Nat /\ t \in Nat
        BY <1>3, <1>4
    <2> QED
        BY <1>5, <1>8, <2>1
<1>11. f[i].conversion = "s" =>
          RestAt(f, w, i)[Stars(f[i]) + 1] \in 0 .. NullPage - 1 \cup DOMAIN Memory
    BY <1>1, <1>3, <1>9, Zenon
<1> QED
    BY <1>2, <1>7, <1>10, <1>11, Zenon DEF t

(***************************************************************************)
(* A field: what is put into it and the blanks, or the zeros, around it.   *)
(***************************************************************************)

\* What stands somewhere in a text
IsPiece(s, text) == \E i \in 1..Len(text) : \E j \in 1..Len(text) : s = SubSeq(text, i, j)

\* A text that shows the number n behind front: where its digits stand, how
\* many they are, and how they fill the field.
FieldOf(text, inner, front, n, base, digit, field, precision, flags) ==
    /\ text \in Seq(Chars) /\ inner \in Seq(Chars)
    /\ IsPiece(inner, text)
    /\ Reading(inner, base, digit, n)
    /\ Len(inner) >= Larger(1, precision)
    /\ inner[1] = "0" => \/ Len(inner) = Larger(1, precision)
                         \/ "zeropad" \in flags /\ "left" \notin flags /\ Len(text) = field
    /\ "left" \in flags => text = front \o inner \o Repeat(Blank, field - Len(front \o inner))
    /\ "left" \notin flags => text = Repeat(Blank, field - Len(front \o inner)) \o (front \o inner)
    /\ "zeropad" \in flags /\ "left" \notin flags => text = front \o inner

LEMMA CharFacts == Blank \in Chars /\ "0" \in Chars
  BY DEF Chars

LEMMA BlankFacts ==
    ASSUME NEW k \in Int
    PROVE  /\ Repeat(Blank, k) \in Seq(Chars) /\ Len(Repeat(Blank, k)) = IF k > 0 THEN k ELSE 0
           /\ Repeat("0", k) \in Seq(Chars) /\ Len(Repeat("0", k)) = IF k > 0 THEN k ELSE 0
           /\ \A i \in 1..k : Repeat("0", k)[i] = "0"
<1>1. Blank \in Chars /\ "0" \in Chars
    BY CharFacts
<1> QED
    BY <1>1, RepeatFacts, Zenon

\* A piece in the middle of a text is one of its pieces.
LEMMA PieceOf ==
    ASSUME NEW a \in Seq(Chars), NEW b \in Seq(Chars), NEW c \in Seq(Chars), Len(b) >= 1,
           NEW text, text = a \o b \o c
    PROVE  IsPiece(b, text)
<1>1. a \o b \in Seq(Chars) /\ Len(a \o b) = Len(a) + Len(b)
    BY ConcatProperties
<1>2. text \in Seq(Chars) /\ Len(text) = Len(a) + Len(b) + Len(c)
    BY <1>1, ConcatProperties
<1> DEFINE i == Len(a) + 1
           j == Len(a) + Len(b)
<1>3. /\ i \in 1..Len(text) /\ j \in 1..Len(text)
      /\ i \in 1..Len(a \o b) /\ j \in 1..Len(a \o b)
      /\ i \in (Len(a) + 1)..(Len(a) + Len(b)) /\ j \in (Len(a) + 1)..(Len(a) + Len(b))
    BY <1>1, <1>2
<1>4. SubSeq(text, i, j) = SubSeq(a \o b, i, j)
    BY <1>1, <1>3, SubSeqOfConcat1
<1>5. SubSeq(a \o b, i, j) = SubSeq(b, i - Len(a), j - Len(a))
    BY <1>3, SubSeqOfConcat2
<1>6. i - Len(a) = 1 /\ j - Len(a) = Len(b)
    OBVIOUS
<1>7. SubSeq(b, 1, Len(b)) = b
    BY SubSeqFull
<1>8. SubSeq(text, i, j) = b
    BY <1>4, <1>5, <1>6, <1>7
<1> HIDE DEF i, j
<1>9. i \in 1..Len(text) /\ j \in 1..Len(text)
    BY <1>3
<1> QED
    BY <1>8, <1>9, Zenon DEF IsPiece

LEMMA NoBlanks ==
    ASSUME NEW k \in Int, k <= 0
    PROVE  Repeat(Blank, k) = <<>> /\ Repeat("0", k) = <<>>
  BY CharFacts, RepeatNone, Zenon

LEMMA FilledFacts ==
    ASSUME NEW digits \in Seq(Chars), NEW base \in 1..16, NEW digit \in Glyphs, NEW n \in Nat,
           Reading(digits, base, digit, n), Len(digits) >= 1,
           digits[1] = "0" => Len(digits) = 1,
           NEW precision \in Int
    PROVE  /\ Filled(digits, precision) \in Seq(Chars)
           /\ Reading(Filled(digits, precision), base, digit, n)
           /\ Len(Filled(digits, precision)) >= Larger(1, precision)
           /\ Len(Filled(digits, precision)) >= 1
           /\ Filled(digits, precision)[1] = "0" =>
                  Len(Filled(digits, precision)) = Larger(1, precision)
<1> DEFINE k == precision - Len(digits)
           z == Repeat("0", k)
           filled == Filled(digits, precision)
<1>1. k \in Int /\ Len(digits) \in Nat /\ filled = z \o digits
    BY DEF Filled
<1>2. z \in Seq(Chars) /\ Len(z) = IF k > 0 THEN k ELSE 0
    <2> HIDE DEF k
    <2> QED
        BY <1>1, BlankFacts
<1>3. filled \in Seq(Chars) /\ Len(filled) = Len(z) + Len(digits)
    <2> HIDE DEF z, filled
    <2> QED
        BY <1>1, <1>2, ConcatProperties
<1>4. Reading(filled, base, digit, n)
    <2> HIDE DEF k, filled
    <2> QED
        BY <1>1, ReadingZeros
<1>5. Larger(1, precision) = IF 1 > precision THEN 1 ELSE precision
    BY DEF Larger
<1>6. k = precision - Len(digits)
    OBVIOUS
<1>7. k <= 0 => filled = digits
    <2> HAVE k <= 0
    <2>1. z = <<>>
        <3> HIDE DEF k
        <3> QED
            BY <1>1, NoBlanks
    <2> HIDE DEF z, filled
    <2> QED
        BY <1>1, <2>1, ConcatEmptySeq
<1>8. Len(filled) = (IF k > 0 THEN k ELSE 0) + Len(digits)
    BY <1>2, <1>3
<1> HIDE DEF k, z, filled
<1>9. Len(filled) >= Larger(1, precision) /\ Len(filled) >= 1
    BY <1>1, <1>5, <1>6, <1>8
<1>10. ASSUME filled[1] = "0" PROVE Len(filled) = Larger(1, precision)
    <2>1. CASE k <= 0
        <3>1. Len(digits) = 1 /\ Len(filled) = 1
            BY <1>7, <1>10, <2>1
        <3> QED
            BY <1>1, <1>5, <1>6, <2>1, <3>1
    <2>2. CASE k > 0
        BY <1>1, <1>5, <1>6, <1>8, <2>2
    <2> QED
        BY <1>1, <2>1, <2>2
<1> QED
    BY <1>3, <1>4, <1>9, <1>10 DEF filled

LEMMA LaidLeft ==
    ASSUME NEW front \in Seq(Chars), NEW s \in Seq(Chars), Len(s) >= 1,
           NEW field \in Int, NEW flags, "left" \in flags
    PROVE  /\ Laid(front, s, field, flags) = front \o s \o Repeat(Blank, field - Len(front \o s))
           /\ Laid(front, s, field, flags) \in Seq(Chars)
           /\ IsPiece(s, Laid(front, s, field, flags))
<1> DEFINE text == Laid(front, s, field, flags)
           b == Repeat(Blank, field - Len(front \o s))
<1>1. text = front \o s \o b
    BY DEF Laid
<1>2. front \o s \in Seq(Chars) /\ field - Len(front \o s) \in Int
    BY ConcatProperties
<1>3. b \in Seq(Chars)
    BY <1>2, BlankFacts
<1> HIDE DEF text, b
<1>4. text \in Seq(Chars)
    BY <1>1, <1>2, <1>3, ConcatProperties
<1>5. IsPiece(s, text)
    BY <1>1, <1>3, PieceOf
<1> QED
    BY <1>1, <1>4, <1>5, Zenon DEF text, b

LEMMA LaidRight ==
    ASSUME NEW front \in Seq(Chars), NEW s \in Seq(Chars), Len(s) >= 1,
           NEW field \in Int, NEW flags, "left" \notin flags, "zeropad" \notin flags
    PROVE  /\ Laid(front, s, field, flags) = Repeat(Blank, field - Len(front \o s)) \o (front \o s)
           /\ Laid(front, s, field, flags) \in Seq(Chars)
           /\ IsPiece(s, Laid(front, s, field, flags))
<1> DEFINE text == Laid(front, s, field, flags)
           b == Repeat(Blank, field - Len(front \o s))
<1>1. text = b \o (front \o s)
    BY DEF Laid
<1>2. front \o s \in Seq(Chars) /\ field - Len(front \o s) \in Int
    BY ConcatProperties
<1>3. b \in Seq(Chars)
    BY <1>2, BlankFacts
<1> HIDE DEF text, b
<1>4. text \in Seq(Chars)
    BY <1>1, <1>2, <1>3, ConcatProperties
<1>5. text = (b \o front) \o s /\ b \o front \in Seq(Chars)
    <2>1. (b \o front) \o s = b \o (front \o s)
        BY <1>3, ConcatAssociative
    <2>2. b \o front \in Seq(Chars)
        BY <1>3, ConcatProperties
    <2> QED
        BY <1>1, <2>1, <2>2
<1>6. text = (b \o front) \o s \o <<>> /\ <<>> \in Seq(Chars)
    <2>1. text \o <<>> = text /\ <<>> \in Seq(Chars)
        BY <1>4, ConcatEmptySeq, EmptySeq
    <2> QED
        BY <1>5, <2>1
<1> DEFINE f == b \o front
<1>7. text = f \o s \o <<>> /\ <<>> \in Seq(Chars) /\ f \in Seq(Chars)
    BY <1>5, <1>6
<1> HIDE DEF f
<1>8. IsPiece(s, text)
    BY <1>7, PieceOf
<1> QED
    BY <1>1, <1>4, <1>8, Zenon DEF text, b

\* The digits behind the zeros that fill the field
Zeros(front, s, field) == Repeat("0", field - Len(front \o s)) \o s
Blanks(front, s, field) == Repeat(Blank, field - Len(front \o s)) \o (front \o s)

LEMMA LaidZeros ==
    ASSUME NEW front \in Seq(Chars), NEW s \in Seq(Chars), Len(s) >= 1,
           NEW field \in Int, NEW flags, "left" \notin flags, "zeropad" \in flags
    PROVE  /\ Laid(front, s, field, flags) = front \o Zeros(front, s, field)
           /\ Laid(front, s, field, flags) \in Seq(Chars)
           /\ Zeros(front, s, field) \in Seq(Chars)
           /\ Len(Zeros(front, s, field)) >= Len(s)
           /\ Zeros(front, s, field) = s \/ Len(Laid(front, s, field, flags)) = field
           /\ IsPiece(Zeros(front, s, field), Laid(front, s, field, flags))
           /\ Laid(front, s, field, flags) = Blanks(front, Zeros(front, s, field), field)
<1> DEFINE rest == field - Len(front \o s)
           z == Repeat("0", rest)
           inner == Zeros(front, s, field)
           text == Laid(front, s, field, flags)
<1>1. /\ front \o s \in Seq(Chars) /\ Len(front \o s) = Len(front) + Len(s)
      /\ Len(front) \in Nat /\ Len(s) \in Nat
    BY ConcatProperties
<1>2. rest \in Int /\ rest = field - (Len(front) + Len(s))
    BY <1>1
<1>4. text = front \o z \o s
    BY DEF Laid
<1>6. inner = z \o s
    BY DEF Zeros
<1> HIDE DEF rest, inner, text
<1>3. z \in Seq(Chars)
    BY <1>2, BlankFacts
<1>33. (rest > 0 => Len(z) = rest) /\ (rest <= 0 => Len(z) = 0)
    <2>1. Len(z) = IF rest > 0 THEN rest ELSE 0
        BY <1>2, BlankFacts
    <2> QED
        BY <1>2, <2>1
<1>5. rest <= 0 => z = <<>>
    BY <1>2, NoBlanks
<1> HIDE DEF z
<1>7. inner \in Seq(Chars) /\ Len(inner) = Len(z) + Len(s)
    <2>1. z \o s \in Seq(Chars) /\ Len(z \o s) = Len(z) + Len(s)
        BY <1>3, ConcatProperties
    <2> QED
        BY <1>6, <2>1
<1>8. text = front \o inner
    <2>1. (front \o z) \o s = front \o (z \o s)
        BY <1>3, ConcatAssociative
    <2> QED
        BY <1>4, <1>6, <2>1
<1>9. text \in Seq(Chars) /\ Len(text) = Len(front) + Len(inner)
    BY <1>7, <1>8, ConcatProperties
<1>10. rest <= 0 => inner = s
    BY <1>5, <1>6, ConcatEmptySeq
<1>11. Len(inner) >= Len(s) /\ (rest > 0 => Len(text) = field) /\ Len(text) >= field
    BY <1>1, <1>2, <1>33, <1>7, <1>9
<1>12. IsPiece(inner, text)
    <2>1. <<>> \in Seq(Chars) /\ text \o <<>> = text
        BY <1>9, ConcatEmptySeq, EmptySeq
    <2>2. text = front \o inner \o <<>>
        BY <1>8, <2>1
    <2>3. Len(inner) >= 1
        BY <1>1, <1>7, <1>11
    <2> QED
        BY <1>7, <2>1, <2>2, <2>3, PieceOf
<1>13. text = Repeat(Blank, field - Len(front \o inner)) \o (front \o inner)
    <2> DEFINE k == field - Len(front \o inner)
    <2>1. k \in Int /\ k <= 0
        BY <1>8, <1>9, <1>11
    <2> HIDE DEF k
    <2>2. Repeat(Blank, k) = <<>>
        BY <2>1, NoBlanks
    <2>3. <<>> \o text = text
        BY <1>9, ConcatEmptySeq
    <2>4. text = Repeat(Blank, k) \o (front \o inner)
        BY <1>8, <2>2, <2>3
    <2> QED
        BY <2>4 DEF k
<1>14. inner = s \/ Len(text) = field
    BY <1>2, <1>10, <1>11
<1> QED
    BY <1>7, <1>8, <1>9, <1>11, <1>12, <1>13, <1>14, Zenon DEF inner, text, Blanks

LEMMA Fills ==
    ASSUME NEW front \in Seq(Chars), NEW digits \in Seq(Chars), NEW base \in 1..16,
           NEW digit \in Glyphs, NEW n \in Nat,
           Reading(digits, base, digit, n), Len(digits) >= 1,
           digits[1] = "0" => Len(digits) = 1,
           NEW precision \in Int, NEW field \in Int, NEW flags
    PROVE  \E inner : FieldOf(Laid(front, Filled(digits, precision), field, flags), inner, front,
                              n, base, digit, field, precision, flags)
<1> DEFINE s == Filled(digits, precision)
           least == Larger(1, precision)
           text == Laid(front, s, field, flags)
<1>1. /\ s \in Seq(Chars) /\ Reading(s, base, digit, n)
      /\ Len(s) >= least /\ Len(s) >= 1
      /\ s[1] = "0" => Len(s) = least
    BY FilledFacts
<1>3. least \in Int
    BY DEF Larger
<1> HIDE DEF s, least, text
<1>4. CASE "left" \in flags
    <2>1. /\ text = front \o s \o Repeat(Blank, field - Len(front \o s))
          /\ text \in Seq(Chars) /\ IsPiece(s, text)
        BY <1>1, <1>4, LaidLeft DEF text
    <2>2. FieldOf(text, s, front, n, base, digit, field, precision, flags)
        BY <1>1, <1>4, <2>1, Zenon DEF FieldOf, least
    <2> QED
        BY <2>2, Zenon DEF s, text
<1>5. CASE "left" \notin flags /\ "zeropad" \notin flags
    <2>1. /\ text = Repeat(Blank, field - Len(front \o s)) \o (front \o s)
          /\ text \in Seq(Chars) /\ IsPiece(s, text)
        BY <1>1, <1>5, LaidRight DEF text
    <2>2. FieldOf(text, s, front, n, base, digit, field, precision, flags)
        BY <1>1, <1>5, <2>1, Zenon DEF FieldOf, least
    <2> QED
        BY <2>2, Zenon DEF s, text
<1>6. CASE "left" \notin flags /\ "zeropad" \in flags
    <2> DEFINE inner == Zeros(front, s, field)
    <2>3. /\ text = front \o inner /\ text \in Seq(Chars) /\ inner \in Seq(Chars)
          /\ Len(inner) >= Len(s)
          /\ inner = s \/ Len(text) = field
          /\ IsPiece(inner, text)
          /\ text = Repeat(Blank, field - Len(front \o inner)) \o (front \o inner)
        <3>1. /\ Laid(front, s, field, flags) = front \o Zeros(front, s, field)
              /\ Laid(front, s, field, flags) \in Seq(Chars)
            BY <1>1, <1>6, LaidZeros
        <3>2. /\ Zeros(front, s, field) \in Seq(Chars)
              /\ Len(Zeros(front, s, field)) >= Len(s)
            BY <1>1, <1>6, LaidZeros
        <3>3. Zeros(front, s, field) = s \/ Len(Laid(front, s, field, flags)) = field
            BY <1>1, <1>6, LaidZeros
        <3>4. IsPiece(Zeros(front, s, field), Laid(front, s, field, flags))
            BY <1>1, <1>6, LaidZeros
        <3>5. Laid(front, s, field, flags) = Blanks(front, Zeros(front, s, field), field)
            BY <1>1, <1>6, LaidZeros
        <3> QED
            BY <3>1, <3>2, <3>3, <3>4, <3>5, Zenon DEF text, Blanks
    <2>4. Reading(inner, base, digit, n)
        <3> DEFINE k == field - Len(front \o s)
        <3>1. k \in Int
            BY <1>1, ConcatProperties
        <3>2. inner = Repeat("0", k) \o s
            BY DEF Zeros
        <3> HIDE DEF k, inner
        <3> QED
            BY <1>1, <3>1, <3>2, ReadingZeros
    <2> HIDE DEF inner
    <2>5. Len(inner) >= least
        BY <1>1, <1>3, <2>3
    <2>6. inner[1] = "0" => Len(inner) = least \/ Len(text) = field
        BY <1>1, <2>3
    <2>7. FieldOf(text, inner, front, n, base, digit, field, precision, flags)
        BY <1>6, <2>3, <2>4, <2>5, <2>6, Zenon DEF FieldOf, least
    <2> QED
        BY <2>7, Zenon DEF s, text
<1> QED
    BY <1>4, <1>5, <1>6 DEF s, text

(***************************************************************************)
(* The number of an argument: as an unsigned long long it stands for what  *)
(* the directive means, whatever its width.                                *)
(***************************************************************************)
LEMMA ModFacts ==
    ASSUME NEW a \in Int, NEW b \in Nat \ {0}
    PROVE  /\ a \in 0..(b - 1) => a % b = a
           /\ -b <= a /\ a < 0 => a % b = a + b
<1>1. a % b \in 0..(b - 1) /\ a = b * (a \div b) + (a % b) /\ a \div b \in Int
    OBVIOUS
<1> DEFINE q == a \div b
           r == a % b
<1> HIDE DEF q, r
<1>2. r \in 0..(b - 1) /\ a = b * q + r /\ q \in Int
    BY <1>1 DEF q, r
<1>3. q >= 1 => b * q >= b
    BY <1>2
<1>4. q <= -1 => b * q <= -b
    BY <1>2
<1>5. q <= -2 => b * q <= -2 * b
    BY <1>2
<1>6. b * q \in Int
    BY <1>2
<1>7. q = 0 => b * q = 0
    BY <1>2
<1>8. q = -1 => b * q = -b
    BY <1>2
<1> DEFINE p == b * q
<1> HIDE DEF p
<1>9. /\ r \in 0..(b - 1) /\ a = p + r /\ q \in Int /\ p \in Int
      /\ (q >= 1 => p >= b) /\ (q <= -1 => p <= -b) /\ (q <= -2 => p <= -2 * b)
      /\ (q = 0 => p = 0) /\ (q = -1 => p = -b)
    BY <1>2, <1>3, <1>4, <1>5, <1>6, <1>7, <1>8 DEF p
<1>10. a \in 0..(b - 1) => r = a
    BY <1>9
<1>11. -b <= a /\ a < 0 => r = a + b
    BY <1>9
<1> QED
    BY <1>10, <1>11 DEF r

\* n is what stands for m among so many values
Stands(n, m, values) ==
    /\ n \in Nat /\ m \in Int
    /\ m < 0 => 2 * n >= values /\ values - n = -m
    /\ m >= 0 => n = m /\ ~(2 * n >= values)

LEMMA SignedStands ==
    ASSUME NEW V \in Nat \ {0}, NEW x \in 0..(V - 1), NEW W \in Nat \ {0}, V <= W
    PROVE  /\ Stands(Signed(x, V) % W, Signed(x, V), W)
           /\ x % W = x
<1>1. x % W = x
    <2>1. x \in 0..(W - 1)
        OBVIOUS
    <2> QED
        BY <2>1, ModFacts
<1>2. CASE 2 * x >= V
    <2>1. Signed(x, V) = x - V /\ -W <= x - V /\ x - V < 0 /\ x - V \in Int
        BY <1>2 DEF Signed
    <2>2. (x - V) % W = (x - V) + W
        <3> DEFINE a == x - V
        <3>1. a \in Int /\ -W <= a /\ a < 0
            BY <2>1
        <3> HIDE DEF a
        <3> QED
            BY <3>1, ModFacts DEF a
    <2>3. Stands((x - V) + W, x - V, W)
        BY <1>2, <2>1 DEF Stands
    <2> QED
        BY <1>1, <2>1, <2>2, <2>3, Zenon
<1>3. CASE ~(2 * x >= V)
    <2>1. Signed(x, V) = x
        BY <1>3 DEF Signed
    <2>2. Stands(x, x, W)
        BY <1>3 DEF Stands
    <2> QED
        BY <1>1, <2>1, <2>2, Zenon
<1> QED
    BY <1>2, <1>3

\* A long long of two words
LEMMA TwoWordsStand ==
    ASSUME NEW I \in Nat, I >= 2, NEW h \in Nat, I = 2 * h,
           NEW low \in 0..(I - 1), NEW hi \in 0..(I - 1)
    PROVE  /\ Stands(low + hi * I, low + Signed(hi, I) * I, I * I)
           /\ low + hi * I \in Nat
<1> DEFINE p == hi * I
           s == I * I
<1>1. p \in Nat /\ s \in Nat
    OBVIOUS
<1>2. 2 * hi >= I => 2 * p >= s
    <2> HAVE 2 * hi >= I
    <2>1. hi - h \in Nat
        OBVIOUS
    <2>2. (hi - h) * I \in Nat
        BY <2>1
    <2>3. (hi - h) * I = hi * I - h * I /\ I * I = 2 * (h * I)
        OBVIOUS
    <2> QED
        BY <2>2, <2>3
<1>3. ~(2 * hi >= I) => 2 * p + 2 * I <= s
    <2> HAVE ~(2 * hi >= I)
    <2>1. h - 1 - hi \in Nat
        OBVIOUS
    <2>2. (h - 1 - hi) * I \in Nat
        BY <2>1
    <2>3. (h - 1 - hi) * I = h * I - I - hi * I /\ I * I = 2 * (h * I)
        OBVIOUS
    <2> QED
        BY <2>2, <2>3
<1>4. p + I <= s
    <2>1. I - 1 - hi \in Nat
        OBVIOUS
    <2>2. (I - 1 - hi) * I \in Nat
        BY <2>1
    <2>3. (I - 1 - hi) * I = I * I - I - hi * I
        OBVIOUS
    <2> QED
        BY <2>2, <2>3
<1>5. (hi - I) * I = p - s
    OBVIOUS
<1>8. low + p \in Nat
    BY <1>1
<1>6. CASE 2 * hi >= I
    <2>1. Signed(hi, I) = hi - I
        BY <1>6 DEF Signed
    <2>2. 2 * p >= s
        BY <1>2, <1>6
    <2> HIDE DEF p, s
    <2>3. Stands(low + p, low + (p - s), s)
        BY <1>1, <1>4, <2>2 DEF Stands
    <2> QED
        BY <1>5, <1>8, <2>1, <2>3, Zenon DEF p, s
<1>7. CASE ~(2 * hi >= I)
    <2>1. Signed(hi, I) = hi
        BY <1>7 DEF Signed
    <2>2. 2 * p + 2 * I <= s
        BY <1>3, <1>7
    <2> HIDE DEF p, s
    <2>3. Stands(low + p, low + p, s)
        BY <1>1, <2>2 DEF Stands
    <2> QED
        BY <1>8, <2>1, <2>3, Zenon DEF p, s
<1> QED
    BY <1>6, <1>7

LEMMA WordFacts ==
    ASSUME NEW d \in AnyDirective, NEW W \in Seq(0 .. Ints - 1), TakenBy(d) <= Len(W),
           NEW i \in 1..TakenBy(d)
    PROVE  W[i] \in 0 .. Ints - 1
<1>1. i \in 1..Len(W)
    BY TakenByFacts
<1> DEFINE S == 0 .. Ints - 1
<1>2. W \in Seq(S)
    OBVIOUS
<1> HIDE DEF S
<1>3. W[i] \in S
    BY <1>1, <1>2, ElementOfSeq
<1> QED
    BY <1>3 DEF S

\* The widths
LEMMA WidthFacts ==
    /\ Shorts \in Nat \ {0} /\ Ints \in Nat \ {0} /\ Shorts <= Ints /\ Ints >= 2
    /\ \E h \in Nat : Ints = 2 * h
    /\ LongLongs \in Nat \ {0} /\ Ints <= LongLongs /\ Shorts <= LongLongs
    /\ 2 * Ints <= LongLongs
<1>1. /\ Shorts \in Nat \ {0} /\ Ints \in Nat /\ (Shorts % 2) = 0 /\ (Ints % 2) = 0 /\ Shorts <= Ints
    BY DirectivesAssumption
<1>2. Ints >= 2
    BY <1>1
<1>3. \E h \in Nat : Ints = 2 * h
    <2>1. Ints = 2 * (Ints \div 2) /\ Ints \div 2 \in Nat
        BY <1>1
    <2> QED
        BY <2>1
<1>4. Ints * Ints \in Nat /\ Ints * Ints >= 2 * Ints
    <2>1. (Ints - 2) * Ints \in Nat
        <3>1. Ints - 2 \in Nat
            BY <1>1, <1>2
        <3> QED
            BY <1>1, <3>1
    <2>2. (Ints - 2) * Ints = Ints * Ints - 2 * Ints
        BY <1>1
    <2> QED
        BY <1>1, <2>1, <2>2
<1> QED
    BY <1>1, <1>2, <1>3, <1>4 DEF LongLongs

LEMMA NumberMeans ==
    ASSUME NEW d \in AnyDirective, NEW W \in Seq(0 .. Ints - 1), TakenBy(d) <= Len(W),
           d.conversion \in Numbers
    PROVE  /\ Number(d, W) \in Nat
           /\ d.conversion # "d" => Number(d, W) = Meant(d, W)
           /\ d.conversion = "d" => Stands(Number(d, W), Meant(d, W), LongLongs)
<1> DEFINE low == W[Stars(d) + 1]
           hi == W[Stars(d) + 2]
           n == Number(d, W)
           m == Meant(d, W)
<1>0. Stars(d) \in 0..2 /\ TakenBy(d) >= Stars(d) + 1
    <2>1. Stars(d) \in 0..2
        BY TakenByFacts
    <2>2. CASE d.qualifier \in {"L", "ll"}
        BY <2>1, <2>2, TakenByFacts
    <2>3. CASE d.qualifier \notin {"L", "ll"}
        BY <2>1, <2>3, TakenByFacts
    <2> QED
        BY <2>1, <2>2, <2>3
<1>1. low \in 0 .. Ints - 1
    <2>1. Stars(d) + 1 \in 1..TakenBy(d)
        BY <1>0, TakenByFacts
    <2> QED
        BY <2>1, WordFacts
<1>2. d.qualifier \in {"L", "ll"} => hi \in 0 .. Ints - 1
    <2> HAVE d.qualifier \in {"L", "ll"}
    <2>1. Stars(d) + 2 \in 1..TakenBy(d)
        BY <1>0, TakenByFacts
    <2> QED
        BY <2>1, WordFacts
<1>3. d.conversion # "p" /\ (d.conversion = "d" => "d" \in Numbers)
    BY DEF Numbers
<1>4. CASE d.qualifier \in {"L", "ll"}
    <2>1. n = low + hi * Ints
        BY <1>4 DEF Number
    <2>2. d.conversion # "d" => m = low + hi * Ints
        BY <1>3, <1>4 DEF Meant
    <2>3. d.conversion = "d" => m = low + Signed(hi, Ints) * Ints
        BY <1>3, <1>4 DEF Meant
    <2>4. /\ Stands(low + hi * Ints, low + Signed(hi, Ints) * Ints, LongLongs)
          /\ low + hi * Ints \in Nat
        <3> DEFINE l == low
                   k == hi
        <3>1. l \in 0 .. Ints - 1 /\ k \in 0 .. Ints - 1
            BY <1>1, <1>2, <1>4
        <3> HIDE DEF l, k
        <3>2. PICK h \in Nat : Ints = 2 * h
            BY WidthFacts
        <3>3. /\ Stands(l + k * Ints, l + Signed(k, Ints) * Ints, Ints * Ints)
              /\ l + k * Ints \in Nat
            BY <3>1, <3>2, WidthFacts, TwoWordsStand
        <3> QED
            BY <3>3 DEF l, k, LongLongs
    <2> QED
        BY <2>1, <2>2, <2>3, <2>4, Zenon
<1>5. CASE d.qualifier = "z"
    <2>1. n = low /\ m = low
        BY <1>3, <1>5 DEF Number, Meant
    <2>2. Stands(low, low, LongLongs)
        <3> DEFINE l == low
        <3>1. l \in 0 .. Ints - 1
            BY <1>1
        <3> HIDE DEF l
        <3>2. Stands(l, l, LongLongs)
            BY <3>1, WidthFacts DEF Stands
        <3> QED
            BY <3>2 DEF l
    <2>3. low \in Nat
        BY <1>1
    <2> QED
        BY <2>1, <2>2, <2>3, Zenon
<1>6. CASE d.qualifier = "h"
    <2> DEFINE x == low % Shorts
    <2>1. x \in 0..(Shorts - 1)
        BY <1>1, WidthFacts
    <2>2. n = (IF d.conversion = "d" THEN Signed(x, Shorts) ELSE x) % LongLongs
        BY <1>6 DEF Number
    <2>3. m = (IF d.conversion = "d" THEN Signed(x, Shorts) ELSE x)
        BY <1>3, <1>6 DEF Meant
    <2> HIDE DEF x, n, m
    <2>4. Stands(Signed(x, Shorts) % LongLongs, Signed(x, Shorts), LongLongs) /\ x % LongLongs = x
        BY <2>1, WidthFacts, SignedStands
    <2>5. n \in Nat
        BY <2>1, <2>2, <2>4 DEF Stands
    <2>6. d.conversion # "d" => n = m
        BY <2>2, <2>3, <2>4
    <2>7. d.conversion = "d" => Stands(n, m, LongLongs)
        BY <2>2, <2>3, <2>4, Zenon
    <2> QED
        BY <2>5, <2>6, <2>7 DEF n, m
<1>7. CASE d.qualifier \notin {"L", "ll", "z", "h"}
    <2> DEFINE x == low
    <2>1. x \in 0..(Ints - 1)
        BY <1>1
    <2>2. n = (IF d.conversion = "d" THEN Signed(x, Ints) ELSE x) % LongLongs
        BY <1>7 DEF Number
    <2>3. m = (IF d.conversion = "d" THEN Signed(x, Ints) ELSE x)
        BY <1>3, <1>7 DEF Meant
    <2> HIDE DEF x, n, m
    <2>4. Stands(Signed(x, Ints) % LongLongs, Signed(x, Ints), LongLongs) /\ x % LongLongs = x
        BY <2>1, WidthFacts, SignedStands
    <2>5. n \in Nat
        BY <2>1, <2>2, <2>4 DEF Stands
    <2>6. d.conversion # "d" => n = m
        BY <2>2, <2>3, <2>4
    <2>7. d.conversion = "d" => Stands(n, m, LongLongs)
        BY <2>2, <2>3, <2>4, Zenon
    <2> QED
        BY <2>5, <2>6, <2>7 DEF n, m
<1> QED
    BY <1>4, <1>5, <1>6, <1>7

(***************************************************************************)
(* Every directive makes the text that it promises.                        *)
(***************************************************************************)
GlyphsOf(d) == IF d.conversion = "X" THEN Large ELSE Digit
Magnitude(m) == IF m < 0 THEN -m ELSE m
FrontOf(d, W) == SignOf(d, Meant(d, W)) \o PrefixOf(d)
ShortOf(d, W) == d.conversion = "p" /\ AskedField(d, W) = None
WidthOf(d, W) == IF ShortOf(d, W) THEN PointerDigits ELSE AskedField(d, W)

LEMMA StarFacts ==
    ASSUME NEW d \in AnyDirective, NEW W \in Seq(0 .. Ints - 1), TakenBy(d) <= Len(W)
    PROVE  /\ ReadStars(d, W).field = AskedField(d, W) /\ AskedField(d, W) \in Int
           /\ ReadStars(d, W).precision = AskedPrecision(d, W) /\ AskedPrecision(d, W) \in Int
           /\ "left" \in ReadStars(d, W).flags <=> AskedLeft(d, W)
           /\ \A f \in {"plus", "space", "special", "zeropad", "sign", "large"} :
                  f \in ReadStars(d, W).flags <=> f \in d.flags
<1> DEFINE r == ReadStars(d, W)
           w == Signed(W[1], Ints)
           p == Signed(W[Stars(d)], Ints)
<1>1. Stars(d) \in 0..2 /\ TakenBy(d) >= Stars(d) /\ TakenBy(d) \in Nat
    BY TakenByFacts
<1>2. d.field = Star => Stars(d) \in 1..2
    BY <1>1, TakenByFacts
<1>3. d.precision = Star => Stars(d) \in 1..2
    BY <1>1, TakenByFacts
<1>4. d.field = Star => W[1] \in 0 .. Ints - 1
    <2> HAVE d.field = Star
    <2>1. 1 \in 1..TakenBy(d)
        BY <1>1, <1>2
    <2> QED
        BY <2>1, WordFacts
<1>5. d.precision = Star => W[Stars(d)] \in 0 .. Ints - 1
    <2> HAVE d.precision = Star
    <2>1. Stars(d) \in 1..TakenBy(d)
        BY <1>1, <1>3
    <2> QED
        BY <2>1, WordFacts
<1>6. ASSUME NEW x \in 0 .. Ints - 1
      PROVE  Signed(x, Ints) \in Int /\ (Signed(x, Ints) < 0 <=> 2 * x >= Ints)
    BY WidthFacts DEF Signed
<1>7. (d.field = Star => w \in Int) /\ (d.precision = Star => p \in Int)
    BY <1>4, <1>5, <1>6
<1>8. d.field # Star => d.field \in Int
    <2>1. d.field \in Nat \cup {None, Star}
        BY Zenon DEF AnyDirective
    <2> QED
        BY <2>1 DEF None
<1>9. d.precision # Star => d.precision \in Int
    <2>1. d.precision \in Nat \cup {None, Star}
        BY Zenon DEF AnyDirective
    <2> QED
        BY <2>1 DEF None
<1>10. r.field = AskedField(d, W)
    BY DEF ReadStars, AskedField
<1>11. AskedField(d, W) \in Int
    <2> HIDE DEF w
    <2>1. AskedField(d, W) = IF d.field # Star THEN d.field ELSE IF w < 0 THEN -w ELSE w
        BY DEF AskedField, w
    <2> QED
        BY <1>7, <1>8, <2>1
<1>12. r.precision = IF d.precision # Star THEN d.precision ELSE IF p < 0 THEN 0 ELSE p
    BY DEF ReadStars
<1>13. AskedPrecision(d, W) = IF d.precision # Star THEN d.precision ELSE Larger(0, p)
    BY DEF AskedPrecision
<1>14. r.flags = d.flags \cup (IF d.field = Star /\ w < 0 THEN {"left"} ELSE {})
    BY DEF ReadStars
<1>15. d.field = Star => (w < 0 <=> 2 * W[1] >= Ints)
    BY <1>4, <1>6
<1> HIDE DEF w, p, r
<1>16. r.precision = AskedPrecision(d, W) /\ AskedPrecision(d, W) \in Int
    BY <1>7, <1>9, <1>12, <1>13 DEF Larger
<1>17. "left" \in r.flags <=> AskedLeft(d, W)
    BY <1>14, <1>15 DEF AskedLeft
<1>18. \A f \in {"plus", "space", "special", "zeropad", "sign", "large"} :
           f \in r.flags <=> f \in d.flags
    BY <1>14
<1> QED
    BY <1>10, <1>11, <1>16, <1>17, <1>18 DEF r

\* A number in its field is what IsNumber asks for.
LEMMA FieldIsNumber ==
    ASSUME NEW d \in AnyDirective, NEW W, Meant(d, W) \in Int,
           NEW text, NEW inner, NEW flags,
           FieldOf(text, inner, FrontOf(d, W), Magnitude(Meant(d, W)), BaseOf(d), GlyphsOf(d),
                   WidthOf(d, W), AskedPrecision(d, W), flags),
           "left" \in flags <=> AskedLeft(d, W),
           "zeropad" \in flags <=> "zeropad" \in d.flags \/ ShortOf(d, W)
    PROVE  IsNumber(text, d, W)
<1> DEFINE m == Meant(d, W)
           n == Magnitude(m)
           front == FrontOf(d, W)
           width == WidthOf(d, W)
           least == Larger(1, AskedPrecision(d, W))
           left == AskedLeft(d, W)
           zeros == ("zeropad" \in d.flags \/ ShortOf(d, W)) /\ ~left
<1>1. BaseOf(d) \in 1..16 /\ GlyphsOf(d) \in Glyphs
    BY DEF BaseOf, GlyphsOf, Glyphs
<1>2. n \in Nat
    BY DEF Magnitude
<1>3. /\ text \in Seq(Chars) /\ inner \in Seq(Chars) /\ IsPiece(inner, text)
      /\ Reading(inner, BaseOf(d), GlyphsOf(d), n) /\ Len(inner) >= least
    BY Zenon DEF FieldOf
<1>4. inner[1] = "0" => Len(inner) = least \/ (zeros /\ Len(text) = width)
    BY Zenon DEF FieldOf
<1>5. zeros => text = front \o inner
    BY Zenon DEF FieldOf
<1>6. Justified(text, front \o inner, width, left)
    <2>1. CASE left
        <3>1. text = front \o inner \o Repeat(Blank, width - Len(front \o inner))
            BY <2>1, Zenon DEF FieldOf
        <3> QED
            BY <2>1, <3>1, Zenon DEF Justified
    <2>2. CASE ~left
        <3>1. text = Repeat(Blank, width - Len(front \o inner)) \o (front \o inner)
            BY <2>2, Zenon DEF FieldOf
        <3> QED
            BY <2>2, <3>1, Zenon DEF Justified
    <2> QED
        BY <2>1, <2>2
<1>7. ReadsAs(inner, d, n)
    <2>1. /\ Value(inner, BaseOf(d), GlyphsOf(d)) = n
          /\ \A i \in 1..Len(inner) : \E v \in 0..(BaseOf(d) - 1) : inner[i] = GlyphsOf(d)[v + 1]
        <3> HIDE DEF n
        <3> QED
            BY <1>1, <1>2, <1>3, ReadingValue
    <2> QED
        BY <2>1, Zenon DEF ReadsAs, GlyphsOf
<1> DEFINE Shows(digits) ==
               /\ ReadsAs(digits, d, n)
               /\ Len(digits) >= least
               /\ digits[1] = "0" =>
                     \/ Len(digits) = least
                     \/ zeros /\ Len(text) = width
               /\ Justified(text, front \o digits, width, left)
               /\ zeros => text = front \o digits
<1>8. PICK i \in 1..Len(text), j \in 1..Len(text) : inner = SubSeq(text, i, j)
    BY <1>3 DEF IsPiece
<1>9. Shows(inner)
    BY <1>3, <1>4, <1>5, <1>6, <1>7, Zenon
<1>10. \E k, l \in 1..Len(text) : Shows(SubSeq(text, k, l))
    <2> HIDE DEF Shows
    <2>1. Shows(SubSeq(text, i, j))
        BY <1>8, <1>9
    <2> QED
        BY <2>1
<1> QED
    BY <1>10, Zenon DEF IsNumber, Magnitude, FrontOf, WidthOf, ShortOf

\* What vsnprintf_number puts in front
SignMade(n, flags) ==
    IF "sign" \in flags /\ 2 * n >= LongLongs THEN <<"-">>
    ELSE IF "sign" \notin flags THEN <<>>
    ELSE IF "plus" \in flags THEN <<"+">>
    ELSE IF "space" \in flags THEN <<Blank>>
    ELSE <<>>
PrefixMade(base, flags) ==
    IF "special" \notin flags THEN <<>>
    ELSE CASE base = 16 -> <<"0", IF "large" \in flags THEN "X" ELSE "x">>
           [] base = 8  -> <<"0">>
           [] OTHER     -> <<>>
MagnitudeMade(n, flags) == IF "sign" \in flags /\ 2 * n >= LongLongs THEN LongLongs - n ELSE n
GlyphsMade(flags) == IF "large" \in flags THEN Large ELSE Digit

LEMMA FormattedIs ==
    ASSUME NEW n, NEW base, NEW field, NEW precision, NEW flags
    PROVE  Formatted(n, base, field, precision, flags) =
               Laid(SignMade(n, flags) \o PrefixMade(base, flags),
                    Filled(Digits(MagnitudeMade(n, flags), base, GlyphsMade(flags)), precision),
                    field, flags)
  BY Zenon DEF Formatted, SignMade, PrefixMade, MagnitudeMade, GlyphsMade

LEMMA FrontChars ==
    ASSUME NEW d, NEW m
    PROVE  SignOf(d, m) \in Seq(Chars) /\ PrefixOf(d) \in Seq(Chars)
<1>1. /\ "-" \in Chars /\ "+" \in Chars /\ "0" \in Chars
      /\ "x" \in Chars /\ "X" \in Chars /\ Blank \in Chars
    BY DEF Chars
<1>2. /\ <<"-">> \in Seq(Chars) /\ <<"+">> \in Seq(Chars)
      /\ <<Blank>> \in Seq(Chars) /\ <<"0">> \in Seq(Chars)
    BY <1>1, OneChar
<1>3. <<>> \in Seq(Chars)
    BY EmptySeq
<1>4. <<"0", "x">> \in Seq(Chars) /\ <<"0", "X">> \in Seq(Chars)
    BY <1>1
<1>5. SignOf(d, m) \in {<<"-">>, <<"+">>, <<Blank>>, <<>>}
    BY Zenon DEF SignOf
<1>6. PrefixOf(d) \in {<<>>, <<"0">>, <<"0", "x">>, <<"0", "X">>}
    BY DEF PrefixOf
<1> QED
    BY <1>2, <1>3, <1>4, <1>5, <1>6, Zenon

LEMMA FormattedFills ==
    ASSUME NEW d \in AnyDirective, NEW W, Meant(d, W) \in Int, NEW n \in Nat,
           NEW flags, NEW field \in Int, NEW precision \in Int,
           d.conversion \in Numbers \cup {"p"},
           "sign" \in flags <=> d.conversion = "d",
           "large" \in flags <=> d.conversion = "X",
           \A f \in {"plus", "space", "special"} : f \in flags <=> f \in d.flags,
           d.conversion # "d" => n = Meant(d, W),
           d.conversion = "d" => Stands(n, Meant(d, W), LongLongs)
    PROVE  \E inner : FieldOf(Formatted(n, BaseOf(d), field, precision, flags), inner, FrontOf(d, W),
                              Magnitude(Meant(d, W)), BaseOf(d), GlyphsOf(d), field, precision, flags)
<1> DEFINE m == Meant(d, W)
<1>1. "sign" \in flags /\ 2 * n >= LongLongs <=> d.conversion = "d" /\ m < 0
    BY DEF Stands
<1>2. MagnitudeMade(n, flags) = Magnitude(m) /\ Magnitude(m) \in Nat
    <2>1. CASE d.conversion = "d" /\ m < 0
        BY <1>1, <2>1 DEF Stands, MagnitudeMade, Magnitude
    <2>2. CASE d.conversion = "d" /\ ~(m < 0)
        BY <1>1, <2>2 DEF Stands, MagnitudeMade, Magnitude
    <2>3. CASE d.conversion # "d"
        BY <1>1, <2>3 DEF MagnitudeMade, Magnitude
    <2> QED
        BY <2>1, <2>2, <2>3
<1>3. GlyphsMade(flags) = GlyphsOf(d)
    BY Zenon DEF GlyphsMade, GlyphsOf
<1>4. SignMade(n, flags) = SignOf(d, m)
    BY <1>1, Zenon DEF SignMade, SignOf
<1>5. PrefixMade(BaseOf(d), flags) = PrefixOf(d)
    <2>0. "special" \in flags <=> "special" \in d.flags
        OBVIOUS
    <2>1. CASE d.conversion = "o"
        BY <2>0, <2>1 DEF PrefixMade, PrefixOf, BaseOf
    <2>2. CASE d.conversion = "X"
        BY <2>0, <2>2 DEF PrefixMade, PrefixOf, BaseOf
    <2>3. CASE d.conversion \in {"x", "p"}
        BY <2>0, <2>3 DEF PrefixMade, PrefixOf, BaseOf
    <2>4. CASE d.conversion \notin {"o", "X", "x", "p"}
        BY <2>0, <2>4 DEF PrefixMade, PrefixOf, BaseOf
    <2> QED
        BY <2>1, <2>2, <2>3, <2>4
<1>6. FrontOf(d, W) = SignOf(d, m) \o PrefixOf(d) /\ FrontOf(d, W) \in Seq(Chars)
    <2>1. SignOf(d, m) \in Seq(Chars) /\ PrefixOf(d) \in Seq(Chars)
        BY FrontChars
    <2>2. SignOf(d, m) \o PrefixOf(d) \in Seq(Chars)
        BY <2>1, ConcatProperties
    <2> QED
        BY <2>2, Zenon DEF FrontOf
<1> DEFINE mag == Magnitude(m)
           base == BaseOf(d)
           glyphs == GlyphsOf(d)
           digits == Digits(mag, base, glyphs)
           front == FrontOf(d, W)
<1>7. Formatted(n, base, field, precision, flags) = Laid(front, Filled(digits, precision), field, flags)
    BY <1>2, <1>3, <1>4, <1>5, <1>6, FormattedIs, Zenon
<1>8. base \in 2..16 /\ base \in 1..16 /\ glyphs \in Glyphs
    BY DEF BaseOf, GlyphsOf, Glyphs
<1>9. mag \in Nat /\ front \in Seq(Chars)
    BY <1>2, <1>6
<1> HIDE DEF mag, base, glyphs, front, m
<1>10. /\ digits \in Seq(Chars) /\ Len(digits) >= 1
       /\ Reading(digits, base, glyphs, mag)
       /\ digits[1] = "0" => Len(digits) = 1
    BY <1>8, <1>9, DigitsRead
<1> HIDE DEF digits
<1>11. \E inner : FieldOf(Laid(front, Filled(digits, precision), field, flags), inner, front,
                          mag, base, glyphs, field, precision, flags)
    BY <1>8, <1>9, <1>10, Fills, Zenon
<1>12. \E inner : FieldOf(Formatted(n, base, field, precision, flags), inner, front,
                          mag, base, glyphs, field, precision, flags)
    BY <1>7, <1>11, Zenon
<1> QED
    BY <1>12, Zenon DEF mag, base, glyphs, front, m

\* The numbers
LEMMA NumberPromised ==
    ASSUME NEW d \in AnyDirective, NEW W \in Seq(0 .. Ints - 1), TakenBy(d) <= Len(W),
           d.conversion \in Numbers
    PROVE  Text(d, W) \in Seq(Chars) /\ IsNumber(Text(d, W), d, W)
<1> DEFINE r == ReadStars(d, W)
           n == Number(d, W)
           flags == IF d.conversion = "d" THEN r.flags \cup {"sign"}
                    ELSE IF d.conversion = "X" THEN r.flags \cup {"large"} ELSE r.flags
<1>1. /\ r.field = AskedField(d, W) /\ r.field \in Int
      /\ r.precision = AskedPrecision(d, W) /\ r.precision \in Int
      /\ "left" \in r.flags <=> AskedLeft(d, W)
      /\ \A f \in {"plus", "space", "special", "zeropad", "sign", "large"} :
             f \in r.flags <=> f \in d.flags
    BY StarFacts
<1>2. /\ d.conversion \in {"o", "X", "x", "d", "u"}
      /\ d.conversion \notin {"c", "s", "p", "%"}
    BY DEF Numbers
<1>3. "sign" \notin d.flags /\ "large" \notin d.flags
    <2>1. d.flags \subseteq {"left", "plus", "space", "special", "zeropad"}
        BY Zenon DEF AnyDirective
    <2> QED
        BY <2>1
<1>4. Text(d, W) = Formatted(n, BaseOf(d), r.field, r.precision, flags)
    <2>1. CASE d.conversion = "d"
        <3>1. BaseOf(d) = 10
            BY <2>1 DEF BaseOf
        <3> QED
            BY <1>2, <2>1, <3>1 DEF Text
    <2>2. CASE d.conversion = "X"
        <3>1. BaseOf(d) = 16
            BY <2>2 DEF BaseOf
        <3> QED
            BY <1>2, <2>2, <3>1 DEF Text
    <2>3. CASE d.conversion \notin {"d", "X"}
        BY <1>2, <2>3 DEF Text
    <2> QED
        BY <2>1, <2>2, <2>3
<1> HIDE DEF r
<1>5. /\ "sign" \in flags <=> d.conversion = "d"
      /\ "large" \in flags <=> d.conversion = "X"
      /\ \A f \in {"plus", "space", "special"} : f \in flags <=> f \in d.flags
      /\ "left" \in flags <=> AskedLeft(d, W)
      /\ "zeropad" \in flags <=> "zeropad" \in d.flags
    BY <1>1, <1>3
<1>6. /\ n \in Nat
      /\ d.conversion # "d" => n = Meant(d, W)
      /\ d.conversion = "d" => Stands(n, Meant(d, W), LongLongs)
    BY NumberMeans
<1>7. Meant(d, W) \in Int
    BY <1>6 DEF Stands
<1> HIDE DEF n, flags
<1>8. PICK inner : FieldOf(Formatted(n, BaseOf(d), r.field, r.precision, flags), inner, FrontOf(d, W),
                           Magnitude(Meant(d, W)), BaseOf(d), GlyphsOf(d), r.field, r.precision, flags)
    <2>1. d.conversion \in Numbers \cup {"p"}
        OBVIOUS
    <2> QED
        BY <1>1, <1>5, <1>6, <1>7, <2>1, FormattedFills
<1>9. ~ShortOf(d, W) /\ WidthOf(d, W) = AskedField(d, W)
    BY <1>2 DEF ShortOf, WidthOf
<1>10. FieldOf(Text(d, W), inner, FrontOf(d, W), Magnitude(Meant(d, W)), BaseOf(d), GlyphsOf(d),
               WidthOf(d, W), AskedPrecision(d, W), flags)
    BY <1>1, <1>4, <1>8, <1>9, Zenon
<1>11. "zeropad" \in flags <=> "zeropad" \in d.flags \/ ShortOf(d, W)
    BY <1>5, <1>9
<1>12. IsNumber(Text(d, W), d, W)
    BY <1>5, <1>7, <1>10, <1>11, FieldIsNumber
<1>13. Text(d, W) \in Seq(Chars)
    BY <1>10, Zenon DEF FieldOf
<1> QED
    BY <1>12, <1>13

\* %p
LEMMA PointerPromised ==
    ASSUME NEW d \in AnyDirective, NEW W \in Seq(0 .. Ints - 1), TakenBy(d) <= Len(W),
           d.conversion = "p"
    PROVE  Text(d, W) \in Seq(Chars) /\ IsNumber(Text(d, W), d, W)
<1> DEFINE r == ReadStars(d, W)
           n == W[Stars(d) + 1]
           short == ShortOf(d, W)
           width == WidthOf(d, W)
           flags == IF short THEN r.flags \cup {"zeropad"} ELSE r.flags
<1>1. /\ r.field = AskedField(d, W) /\ r.field \in Int
      /\ r.precision = AskedPrecision(d, W) /\ r.precision \in Int
      /\ "left" \in r.flags <=> AskedLeft(d, W)
      /\ \A f \in {"plus", "space", "special", "zeropad", "sign", "large"} :
             f \in r.flags <=> f \in d.flags
    BY StarFacts
<1>3. "sign" \notin d.flags /\ "large" \notin d.flags
    <2>1. d.flags \subseteq {"left", "plus", "space", "special", "zeropad"}
        BY Zenon DEF AnyDirective
    <2> QED
        BY <2>1
<1>2. BaseOf(d) = 16
    BY DEF BaseOf
<1>4. Text(d, W) = Formatted(n, BaseOf(d), width, r.precision, flags)
    <2>1. Text(d, W) = Pointer(n, r.field, r.precision, r.flags)
        BY DEF Text
    <2>2. short <=> r.field = None
        BY <1>1 DEF ShortOf
    <2>3. CASE short
        BY <1>2, <2>1, <2>2, <2>3, Zenon DEF Pointer, WidthOf
    <2>4. CASE ~short
        BY <1>1, <1>2, <2>1, <2>2, <2>4, Zenon DEF Pointer, WidthOf
    <2> QED
        BY <2>3, <2>4
<1>5. width \in Int
    BY <1>1, DirectivesAssumption DEF WidthOf
<1>6. n \in Nat
    <2>1. Stars(d) + 1 \in 1..TakenBy(d)
        BY TakenByFacts
    <2>2. n \in 0 .. Ints - 1
        BY <2>1, WordFacts
    <2> QED
        BY <2>2
<1>7. Meant(d, W) = n
    BY DEF Meant
<1> HIDE DEF r, n, short
<1>8. /\ "sign" \in flags <=> d.conversion = "d"
      /\ "large" \in flags <=> d.conversion = "X"
      /\ \A f \in {"plus", "space", "special"} : f \in flags <=> f \in d.flags
      /\ "left" \in flags <=> AskedLeft(d, W)
      /\ "zeropad" \in flags <=> "zeropad" \in d.flags \/ short
    BY <1>1, <1>3
<1> HIDE DEF flags, width
<1>9. PICK inner : FieldOf(Formatted(n, BaseOf(d), width, r.precision, flags), inner, FrontOf(d, W),
                           Magnitude(Meant(d, W)), BaseOf(d), GlyphsOf(d), width, r.precision, flags)
    <2>1. d.conversion \in Numbers \cup {"p"} /\ d.conversion # "d" /\ Meant(d, W) \in Int
        BY <1>6, <1>7
    <2> QED
        BY <1>1, <1>5, <1>6, <1>7, <1>8, <2>1, FormattedFills
<1>10. FieldOf(Text(d, W), inner, FrontOf(d, W), Magnitude(Meant(d, W)), BaseOf(d), GlyphsOf(d),
               WidthOf(d, W), AskedPrecision(d, W), flags)
    BY <1>1, <1>4, <1>9, Zenon DEF width
<1>11. IsNumber(Text(d, W), d, W)
    <2>1. Meant(d, W) \in Int
        BY <1>6, <1>7
    <2> QED
        BY <1>8, <1>10, <2>1, FieldIsNumber DEF short
<1>12. Text(d, W) \in Seq(Chars)
    BY <1>10, Zenon DEF FieldOf
<1> QED
    BY <1>11, <1>12

\* A character or a string in its field
LEMMA InFieldFacts ==
    ASSUME NEW text \in Seq(Chars), NEW field \in Int, NEW flags, NEW left,
           "left" \in flags <=> left
    PROVE  /\ InField(text, field, flags) \in Seq(Chars)
           /\ Justified(InField(text, field, flags), text, field, left)
<1> DEFINE b == Repeat(Blank, field - Len(text))
           t == InField(text, field, flags)
<1>1. b \in Seq(Chars)
    <2>1. field - Len(text) \in Int
        OBVIOUS
    <2> QED
        BY <2>1, BlankFacts
<1>2. t = IF "left" \in flags THEN text \o b ELSE b \o text
    BY Zenon DEF InField
<1>3. Justified(t, text, field, left)
    BY <1>2, Zenon DEF Justified
<1> HIDE DEF b, t
<1>4. text \o b \in Seq(Chars) /\ b \o text \in Seq(Chars)
    BY <1>1, ConcatProperties
<1>5. t \in Seq(Chars)
    BY <1>2, <1>4, Zenon
<1> QED
    BY <1>3, <1>5 DEF t

\* The string of %s, as much of it as the precision allows
StringOf(word) == IF word < NullPage THEN <<"(", "N", "U", "L", "L", ")">> ELSE Memory[word]
LEMMA StringFacts ==
    ASSUME NEW word \in 0 .. NullPage - 1 \cup DOMAIN Memory, NEW p \in Int, p >= 0 \/ p = None
    PROVE  /\ StringOf(word) \in Seq(Chars)
           /\ String(word, p) \in Seq(Chars)
           /\ String(word, p) = IF p \in 0..Len(StringOf(word)) THEN SubSeq(StringOf(word), 1, p)
                                ELSE StringOf(word)
<1> DEFINE s == StringOf(word)
<1>1. s \in Seq(Chars)
    <2>1. CASE word < NullPage
        <3>1. "(" \in Chars /\ "N" \in Chars /\ "U" \in Chars /\ "L" \in Chars /\ ")" \in Chars
            BY DEF Chars
        <3>2. <<"(", "N", "U", "L", "L", ")">> \in Seq(Chars)
            BY <3>1
        <3> QED
            BY <2>1, <3>2, Zenon DEF StringOf
    <2>2. CASE ~(word < NullPage)
        <3>1. word \in DOMAIN Memory
            BY <2>2, DirectivesAssumption
        <3>2. Memory[word] \in Seq(STRING)
            BY <3>1, DirectivesAssumption
        <3> DEFINE l == Len(Memory[word])
                   M == Memory[word]
        <3>3. l \in Nat /\ M \in [1..l -> STRING]
            <4> HIDE DEF M
            <4> QED
                BY <3>2, LenProperties DEF M
        <3> HIDE DEF M, l
        <3>4. M \in [1..l -> Chars]
            <4>1. STRING \subseteq Chars
                BY DEF Chars
            <4> QED
                BY <3>3, <4>1
        <3>5. M \in Seq(Chars)
            BY <3>3, <3>4, SeqDef
        <3> QED
            BY <2>2, <3>5, Zenon DEF StringOf, M
    <2> QED
        BY <2>1, <2>2
<1>2. String(word, p) = IF p = None \/ p > Len(s) THEN s ELSE SubSeq(s, 1, p)
    BY Zenon DEF String, StringOf
<1>3. p = None \/ p > Len(s) <=> p \notin 0..Len(s)
    BY <1>1 DEF None
<1> HIDE DEF s
<1>4. String(word, p) = IF p \in 0..Len(s) THEN SubSeq(s, 1, p) ELSE s
    BY <1>2, <1>3, Zenon
<1>5. p \in 0..Len(s) => SubSeq(s, 1, p) \in Seq(Chars)
    <2> HAVE p \in 0..Len(s)
    <2>1. \A i \in 1..p : s[i] \in Chars
        BY <1>1, ElementOfSeq
    <2> QED
        BY <2>1, SubSeqProperties
<1>6. String(word, p) \in Seq(Chars)
    BY <1>1, <1>4, <1>5, Zenon
<1> QED
    BY <1>1, <1>4, <1>6, Zenon DEF s

LEMMA PrecisionFacts ==
    ASSUME NEW d \in AnyDirective, NEW W \in Seq(0 .. Ints - 1), TakenBy(d) <= Len(W)
    PROVE  AskedPrecision(d, W) >= 0 \/ AskedPrecision(d, W) = None
<1>1. d.precision \in Nat \cup {None, Star}
    BY Zenon DEF AnyDirective
<1>2. CASE d.precision # Star
    BY <1>1, <1>2 DEF AskedPrecision
<1>3. CASE d.precision = Star
    <2> DEFINE p == Signed(W[Stars(d)], Ints)
    <2>1. AskedPrecision(d, W) = Larger(0, p)
        BY <1>3 DEF AskedPrecision
    <2>2. Stars(d) \in 1..TakenBy(d)
        BY <1>3, TakenByFacts
    <2>3. W[Stars(d)] \in 0 .. Ints - 1
        BY <2>2, WordFacts
    <2>4. p \in Int
        BY <2>3, WidthFacts DEF Signed
    <2> HIDE DEF p
    <2> QED
        BY <2>1, <2>4 DEF Larger
<1> QED
    BY <1>2, <1>3

LEMMA TextPromised ==
    ASSUME NEW d \in AnyDirective, NEW W \in Seq(0 .. Ints - 1), TakenBy(d) <= Len(W),
           d.conversion \in {"c", "s", "p", "%"} \cup Numbers,
           d.conversion = "s" => W[Stars(d) + 1] \in 0 .. NullPage - 1 \cup DOMAIN Memory
    PROVE  Text(d, W) \in Seq(Chars) /\ Promised(Text(d, W), d, W)
<1> DEFINE r == ReadStars(d, W)
           word == W[Stars(d) + 1]
           left == AskedLeft(d, W)
<1>1. /\ r.field = AskedField(d, W) /\ r.field \in Int
      /\ r.precision = AskedPrecision(d, W) /\ r.precision \in Int
      /\ "left" \in r.flags <=> left
    BY StarFacts
<1>2. CASE d.conversion = "c"
    <2>1. Text(d, W) = InField(<<Character(word)>>, r.field, r.flags)
        BY <1>2 DEF Text
    <2>2. word \in 0 .. Ints - 1
        <3>1. Stars(d) + 1 \in 1..TakenBy(d)
            BY <1>2, TakenByFacts
        <3> QED
            BY <3>1, WordFacts
    <2>3. Character(word) \in Chars
        <3>1. (word % 16) + 1 \in 1..16
            <4> HIDE DEF word
            <4> QED
                BY <2>2, WidthFacts
        <3>2. Digit \in Glyphs
            BY DEF Glyphs
        <3> QED
            BY <3>1, <3>2, GlyphFacts DEF Character
    <2>4. <<Character(word)>> \in Seq(Chars)
        BY <2>3, OneChar
    <2> HIDE DEF r, left, word
    <2>5. /\ InField(<<Character(word)>>, r.field, r.flags) \in Seq(Chars)
          /\ Justified(InField(<<Character(word)>>, r.field, r.flags), <<Character(word)>>,
                       r.field, left)
        <3> DEFINE s == <<Character(word)>>
        <3>1. s \in Seq(Chars)
            BY <2>4
        <3> HIDE DEF s
        <3>2. /\ InField(s, r.field, r.flags) \in Seq(Chars)
              /\ Justified(InField(s, r.field, r.flags), s, r.field, left)
            BY <1>1, <3>1, InFieldFacts
        <3> QED
            BY <3>2 DEF s
    <2>6. Promised(Text(d, W), d, W) <=>
              Justified(Text(d, W), <<Character(word)>>, AskedField(d, W), left)
        BY <1>2 DEF Promised, word, left
    <2> QED
        BY <1>1, <2>1, <2>5, <2>6, Zenon
<1>3. CASE d.conversion = "s"
    <2>1. Text(d, W) = InField(String(word, r.precision), r.field, r.flags)
        BY <1>3 DEF Text
    <2> DEFINE p == AskedPrecision(d, W)
               s == String(word, p)
               whole == StringOf(word)
    <2>2. p >= 0 \/ p = None
        BY PrecisionFacts
    <2>3. word \in 0 .. NullPage - 1 \cup DOMAIN Memory
        BY <1>3
    <2>4. s \in Seq(Chars) /\ s = IF p \in 0..Len(whole) THEN SubSeq(whole, 1, p) ELSE whole
        <3> HIDE DEF word, p, r
        <3>1. p \in Int
            BY <1>1 DEF p
        <3> QED
            BY <2>2, <2>3, <3>1, StringFacts
    <2>5. Promised(Text(d, W), d, W) <=>
              Justified(Text(d, W), IF p \in 0..Len(whole) THEN SubSeq(whole, 1, p) ELSE whole,
                        AskedField(d, W), left)
        BY <1>3 DEF Promised, StringOf
    <2> HIDE DEF r, left, word, whole, p, s
    <2>6. Text(d, W) = InField(s, r.field, r.flags)
        BY <1>1, <2>1, Zenon DEF s, p
    <2>7. /\ InField(s, r.field, r.flags) \in Seq(Chars)
          /\ Justified(InField(s, r.field, r.flags), s, r.field, left)
        BY <1>1, <2>4, InFieldFacts
    <2> QED
        BY <1>1, <2>4, <2>5, <2>6, <2>7, Zenon
<1>4. CASE d.conversion = "%"
    <2>1. Text(d, W) = <<"%">>
        BY <1>4 DEF Text
    <2>2. "%" \in Chars
        BY DEF Chars
    <2>3. <<"%">> \in Seq(Chars)
        BY <2>2, OneChar
    <2>4. Promised(<<"%">>, d, W)
        BY <1>4 DEF Promised
    <2> QED
        BY <2>1, <2>3, <2>4, Zenon
<1>5. CASE d.conversion = "p"
    <2>1. Text(d, W) \in Seq(Chars) /\ IsNumber(Text(d, W), d, W)
        BY <1>5, PointerPromised
    <2>2. Promised(Text(d, W), d, W) <=> IsNumber(Text(d, W), d, W)
        BY <1>5 DEF Promised
    <2> QED
        BY <2>1, <2>2
<1>6. CASE d.conversion \in Numbers
    <2>1. Text(d, W) \in Seq(Chars) /\ IsNumber(Text(d, W), d, W)
        BY <1>6, NumberPromised
    <2>2. Promised(Text(d, W), d, W) <=> IsNumber(Text(d, W), d, W)
        <3>1. d.conversion \notin {"lit", "%", "?", "end", "n", "c", "s"}
            BY <1>6 DEF Numbers
        <3> QED
            BY <3>1 DEF Promised
    <2> QED
        BY <2>1, <2>2
<1> QED
    BY <1>2, <1>3, <1>4, <1>5, <1>6

\* The directives that are not converted
LEMMA PlainPromised ==
    ASSUME NEW d, NEW W
    PROVE  /\ <<"t">> \in Seq(Chars) /\ <<"%", "?">> \in Seq(Chars) /\ <<"%">> \in Seq(Chars)
           /\ <<>> \in Seq(Chars)
           /\ d.conversion = "lit" => Promised(<<"t">>, d, W)
           /\ d.conversion = "?" => Promised(<<"%", "?">>, d, W)
           /\ d.conversion = "end" => Promised(<<"%">>, d, W)
           /\ d.conversion = "n" => Promised(<<>>, d, W)
<1>1. "t" \in Chars /\ "%" \in Chars /\ "?" \in Chars
    BY DEF Chars
<1>2. <<"t">> \in Seq(Chars) /\ <<"%">> \in Seq(Chars)
    BY <1>1, OneChar
<1>3. <<"%", "?">> \in Seq(Chars)
    BY <1>1
<1>4. <<>> \in Seq(Chars)
    BY EmptySeq
<1>5. d.conversion = "lit" => Promised(<<"t">>, d, W)
    BY DEF Promised
<1>6. d.conversion = "?" => Promised(<<"%", "?">>, d, W)
    BY DEF Promised
<1>7. d.conversion = "end" => Promised(<<"%">>, d, W)
    BY DEF Promised
<1>8. d.conversion = "n" => Promised(<<>>, d, W)
    BY DEF Promised
<1> QED
    BY <1>2, <1>3, <1>4, <1>5, <1>6, <1>7, <1>8, Zenon

(***************************************************************************)
(* vsnprintf: what the scan keeps from directive to directive.             *)
(***************************************************************************)
TextShape ==
    /\ WellFormed(format, words)
    /\ size \in BufferSizes
    /\ phase \in {"scan", "done", "wild"} /\ length \in Nat
    /\ begins \in Seq(Nat) /\ out \in Seq(Chars)
    /\ at = Len(begins) + 1 /\ at <= Len(format) + 1
    /\ next = TakenUpTo(format)[at - 1] + 1
    /\ DOMAIN told \subseteq 1..Len(format)
    /\ \A i \in 1..Len(begins) : format[i].conversion = "n" => i \in DOMAIN told
    /\ \A i \in DOMAIN str : i \in Nat
BeginsInOrder ==
    /\ \A i \in 1..Len(begins) : begins[i] <= Len(out)
    /\ \A i \in 1..(Len(begins) - 1) : begins[i] <= begins[i + 1]
TextInv == TextShape /\ BeginsInOrder /\ PiecesAsPromised /\ BufferHoldsText /\ ScanStops

\* A step puts t behind the text, and keeps what fits into the buffer.
Kept(t) == {i \in Len(out)..(Len(out) + Len(t) - 1) : i < size}
Adds(t) ==
    /\ t \in Seq(Chars) /\ out' = out \o t
    /\ DOMAIN str' = DOMAIN str \cup Kept(t)
    /\ \A i \in DOMAIN str \ Kept(t) : str'[i] = str[i]
    /\ \A i \in Kept(t) : str'[i] = t[i - Len(out) + 1]

\* and does what the directive promises
Does(t) ==
    /\ Adds(t) /\ Promised(t, format[at], Rest)
    /\ phase' = IF format[at].conversion = "end" THEN "wild" ELSE "scan"
    /\ DOMAIN told \subseteq DOMAIN told' /\ DOMAIN told' \subseteq DOMAIN told \cup {at}
    /\ \A i \in DOMAIN told \ {at} : told'[i] = told[i]
    /\ format[at].conversion = "n" => at \in DOMAIN told' /\ told'[at] = Len(out)

LEMMA PutAdds ==
    ASSUME NEW t, t \in Seq(Chars), Put(t)
    PROVE  Adds(t)
<1>1. /\ out' = out \o t
      /\ str' = [i \in DOMAIN str \cup Kept(t) |-> IF i \in Kept(t) THEN t[i - Len(out) + 1] ELSE str[i]]
    BY Zenon DEF Put, Stored, Kept
<1> DEFINE K == Kept(t)
<1>2. str' = [i \in DOMAIN str \cup K |-> IF i \in K THEN t[i - Len(out) + 1] ELSE str[i]]
    BY <1>1
<1> HIDE DEF K
<1>3. /\ DOMAIN str' = DOMAIN str \cup K
      /\ \A i \in DOMAIN str \ K : str'[i] = str[i]
      /\ \A i \in K : str'[i] = t[i - Len(out) + 1]
    BY <1>2, Zenon
<1> QED
    BY <1>1, <1>3, Zenon DEF Adds, K

\* The pieces that there were stay what they were, and the new one is t.
LEMMA PieceKept ==
    ASSUME NEW o \in Seq(Chars), NEW t \in Seq(Chars), NEW a \in Nat, NEW b \in Nat, a <= b, b <= Len(o)
    PROVE  SubSeq(o \o t, a + 1, b) = SubSeq(o, a + 1, b)
<1>1. CASE a < b
    <2>1. a + 1 \in 1..Len(o) /\ b \in 1..Len(o)
        BY <1>1
    <2> QED
        BY <2>1, SubSeqOfConcat1
<1>2. CASE a = b
    <2>1. b < a + 1
        BY <1>2
    <2> QED
        BY <2>1, SubSeqEmpty
<1> QED
    BY <1>1, <1>2

LEMMA PieceNew ==
    ASSUME NEW o \in Seq(Chars), NEW t \in Seq(Chars)
    PROVE  SubSeq(o \o t, Len(o) + 1, Len(o \o t)) = t
<1>1. Len(o \o t) = Len(o) + Len(t) /\ Len(o) \in Nat /\ Len(t) \in Nat
    BY ConcatProperties
<1>2. CASE Len(t) = 0
    <2>1. t = <<>>
        BY <1>2, EmptySeq
    <2>2. Len(o \o t) < Len(o) + 1
        BY <1>1, <1>2
    <2>3. SubSeq(o \o t, Len(o) + 1, Len(o \o t)) = <<>>
        BY <2>2, SubSeqEmpty
    <2> QED
        BY <2>1, <2>3
<1>3. CASE Len(t) > 0
    <2>1. /\ Len(o) + 1 \in (Len(o) + 1)..(Len(o) + Len(t))
          /\ Len(o) + Len(t) \in (Len(o) + 1)..(Len(o) + Len(t))
        BY <1>1, <1>3
    <2>2. SubSeq(o \o t, Len(o) + 1, Len(o) + Len(t)) =
              SubSeq(t, (Len(o) + 1) - Len(o), (Len(o) + Len(t)) - Len(o))
        BY <2>1, SubSeqOfConcat2
    <2>3. (Len(o) + 1) - Len(o) = 1 /\ (Len(o) + Len(t)) - Len(o) = Len(t)
        BY <1>1
    <2>4. SubSeq(t, 1, Len(t)) = t
        BY SubSeqFull
    <2> QED
        BY <1>1, <2>2, <2>3, <2>4, Zenon
<1> QED
    BY <1>1, <1>2, <1>3

LEMMA ScanFacts ==
    ASSUME NEW conversions, Scan(conversions)
    PROVE  /\ phase = "scan" /\ size >= 0 /\ at <= Len(format) /\ format[at].conversion \in conversions
           /\ at' = at + 1 /\ next' = next + TakenBy(format[at]) /\ begins' = Append(begins, Len(out))
           /\ size' = size /\ format' = format /\ words' = words /\ length' = length
  BY DEF Scan

LEMMA SizeIsInt == TextShape => size \in Int
  BY FormatAssumption DEF TextShape

LEMMA BeginsAppended ==
    ASSUME TextShape, NEW conversions, Scan(conversions)
    PROVE  /\ begins' \in Seq(Nat) /\ Len(begins') = at
           /\ begins'[at] = Len(out)
           /\ \A i \in 1..(at - 1) : begins'[i] = begins[i] /\ begins[i] \in Nat
           /\ at - 1 = Len(begins) /\ at \in Nat \ {0} /\ at \in 1..Len(format) /\ Len(format) \in Nat
           /\ Len(out) \in Nat
<1>1. begins \in Seq(Nat) /\ out \in Seq(Chars) /\ at = Len(begins) + 1
    BY DEF TextShape
<1>2. begins' = Append(begins, Len(out)) /\ at <= Len(format)
    BY ScanFacts
<1>3. Len(out) \in Nat /\ Len(begins) \in Nat
    BY <1>1
<1>4. Len(format) \in Nat
    BY DEF TextShape, WellFormed
<1>5. /\ Append(begins, Len(out)) \in Seq(Nat)
      /\ Len(Append(begins, Len(out))) = Len(begins) + 1
      /\ \A i \in 1..Len(begins) : Append(begins, Len(out))[i] = begins[i]
      /\ Append(begins, Len(out))[Len(begins) + 1] = Len(out)
    BY <1>1, <1>3, AppendProperties
<1>6. \A i \in 1..Len(begins) : begins[i] \in Nat
    BY <1>1, ElementOfSeq
<1> QED
    BY <1>1, <1>2, <1>3, <1>4, <1>5, <1>6

LEMMA ShapeStep ==
    ASSUME TextShape, NEW conversions, Scan(conversions), NEW t, Does(t)
    PROVE  TextShape'
<1>1. /\ at \in 1..Len(format) /\ begins' \in Seq(Nat) /\ Len(begins') = at /\ at \in Nat
      /\ Len(format) \in Nat
    BY BeginsAppended
<1>2. /\ at' = at + 1 /\ next' = next + TakenBy(format[at])
      /\ size' = size /\ format' = format /\ words' = words /\ length' = length
    BY ScanFacts
<1>3. /\ WellFormed(format, words) /\ size \in BufferSizes /\ length \in Nat /\ out \in Seq(Chars)
      /\ next = TakenUpTo(format)[at - 1] + 1 /\ DOMAIN told \subseteq 1..Len(format)
    BY DEF TextShape
<1>4. WellFormed(format, words)' /\ (size \in BufferSizes)' /\ (length \in Nat)'
    BY <1>2, <1>3
<1>5. (phase \in {"scan", "done", "wild"})' /\ (DOMAIN told \subseteq 1..Len(format))'
    BY <1>1, <1>2, <1>3 DEF Does
<1>6. (out \in Seq(Chars))'
    <2>1. t \in Seq(Chars) /\ out' = out \o t
        BY DEF Does, Adds
    <2> QED
        BY <1>3, <2>1, ConcatProperties
<1>9. (\A i \in DOMAIN str : i \in Nat)'
    <2>1. DOMAIN str' = DOMAIN str \cup Kept(t) /\ \A i \in DOMAIN str : i \in Nat
        BY DEF Does, Adds, TextShape
    <2>2. \A i \in Kept(t) : i \in Nat
        <3>1. Len(out) \in Nat
            BY <1>3
        <3> QED
            BY <3>1 DEF Kept
    <2> QED
        BY <2>1, <2>2
<1>10. (\A i \in 1..Len(begins) : format[i].conversion = "n" => i \in DOMAIN told)'
    <2>1. \A i \in 1..(at - 1) : format[i].conversion = "n" => i \in DOMAIN told
        <3>1. at - 1 = Len(begins)
            BY BeginsAppended
        <3> QED
            BY <3>1 DEF TextShape
    <2>2. \A i \in 1..at : format[i].conversion = "n" => i \in DOMAIN told'
        BY <1>1, <2>1 DEF Does
    <2> QED
        BY <1>1, <1>2, <2>2
<1>7. (at = Len(begins) + 1 /\ at <= Len(format) + 1)'
    BY <1>1, <1>2
<1>8. (next = TakenUpTo(format)[at - 1] + 1)'
    <2>1. format \in Seq(AnyDirective)
        BY <1>3 DEF WellFormed
    <2>2. TakenUpTo(format)[at] = TakenUpTo(format)[at - 1] + TakenBy(format[at])
        BY <1>1, <2>1, TakenUpToFacts
    <2>3. TakenUpTo(format)[at - 1] \in Nat /\ TakenBy(format[at]) \in Nat
        <3>1. at - 1 \in 0..Len(format)
            BY <1>1
        <3>2. format[at] \in AnyDirective
            BY <1>1, <2>1
        <3> QED
            BY <2>1, <3>1, <3>2, TakenUpToFacts, TakenByFacts
    <2>4. at' - 1 = at
        BY <1>1, <1>2
    <2>5. next' = TakenUpTo(format)[at] + 1
        BY <1>2, <1>3, <2>2, <2>3
    <2> QED
        BY <1>2, <2>4, <2>5
<1> QED
    BY <1>1, <1>4, <1>5, <1>6, <1>7, <1>8, <1>9, <1>10 DEF TextShape

LEMMA OutGrows ==
    ASSUME TextShape, NEW t, Does(t)
    PROVE  /\ t \in Seq(Chars) /\ out \in Seq(Chars) /\ out' = out \o t /\ out' \in Seq(Chars)
           /\ Len(out') = Len(out) + Len(t) /\ Len(out) \in Nat /\ Len(t) \in Nat
           /\ \A i \in 1..Len(out) : out'[i] = out[i]
           /\ \A i \in 1..Len(t) : out'[Len(out) + i] = t[i]
<1>1. t \in Seq(Chars) /\ out' = out \o t /\ out \in Seq(Chars)
    BY DEF Does, Adds, TextShape
<1>2. Len(out) \in Nat /\ Len(t) \in Nat
    BY <1>1
<1>3. /\ out \o t \in Seq(Chars) /\ Len(out \o t) = Len(out) + Len(t)
      /\ \A i \in 1..(Len(out) + Len(t)) :
             (out \o t)[i] = IF i <= Len(out) THEN out[i] ELSE t[i - Len(out)]
    BY <1>1, ConcatProperties
<1>4. ASSUME NEW i \in 1..Len(out) PROVE (out \o t)[i] = out[i]
    BY <1>2, <1>3
<1>5. ASSUME NEW i \in 1..Len(t) PROVE (out \o t)[Len(out) + i] = t[i]
    <2>1. /\ Len(out) + i \in 1..(Len(out) + Len(t)) /\ ~(Len(out) + i <= Len(out))
          /\ (Len(out) + i) - Len(out) = i
        BY <1>2
    <2> QED
        BY <1>3, <2>1
<1> QED
    BY <1>1, <1>2, <1>3, <1>4, <1>5

LEMMA BeginsStep ==
    ASSUME TextShape, BeginsInOrder, NEW conversions, Scan(conversions), NEW t, Does(t)
    PROVE  BeginsInOrder'
<1>1. /\ Len(begins') = at /\ begins'[at] = Len(out)
      /\ \A i \in 1..(at - 1) : begins'[i] = begins[i] /\ begins[i] \in Nat
      /\ at - 1 = Len(begins) /\ at \in Nat \ {0}
    BY BeginsAppended
<1>2. Len(out') = Len(out) + Len(t) /\ Len(out) \in Nat /\ Len(t) \in Nat
    BY OutGrows
<1>3. /\ \A i \in 1..(at - 1) : begins[i] <= Len(out)
      /\ \A i \in 1..((at - 1) - 1) : begins[i] <= begins[i + 1]
    BY <1>1 DEF BeginsInOrder
<1>4. ASSUME NEW i \in 1..at PROVE begins'[i] <= Len(out')
    <2>1. CASE i = at
        BY <1>1, <1>2, <2>1
    <2>2. CASE i # at
        <3>1. i \in 1..(at - 1)
            BY <1>1, <2>2
        <3>2. begins'[i] = begins[i] /\ begins[i] \in Nat /\ begins[i] <= Len(out)
            BY <1>1, <1>3, <3>1
        <3> QED
            BY <1>2, <3>2
    <2> QED
        BY <2>1, <2>2
<1>5. ASSUME NEW i \in 1..(at - 1) PROVE begins'[i] <= begins'[i + 1]
    <2>1. begins'[i] = begins[i] /\ begins[i] <= Len(out)
        BY <1>1, <1>3
    <2>2. CASE i = at - 1
        <3>1. i + 1 = at
            BY <1>1, <2>2
        <3> QED
            BY <1>1, <2>1, <3>1
    <2>3. CASE i # at - 1
        <3>1. i \in 1..((at - 1) - 1) /\ i + 1 \in 1..(at - 1)
            BY <1>1, <2>3
        <3>2. begins'[i + 1] = begins[i + 1] /\ begins[i] <= begins[i + 1]
            BY <1>1, <1>3, <3>1
        <3> QED
            BY <2>1, <3>2
    <2> QED
        BY <2>2, <2>3
<1> QED
    BY <1>1, <1>4, <1>5 DEF BeginsInOrder

LEMMA StopsStep ==
    ASSUME TextShape, ScanStops, NEW conversions, Scan(conversions), NEW t, Does(t)
    PROVE  ScanStops'
<1>1. Len(begins') = at /\ begins' \in Seq(Nat) /\ at \in Nat \ {0}
    BY BeginsAppended
<1>2. begins' # <<>>
    BY <1>1
<1>3. format' = format /\ phase' = IF format[at].conversion = "end" THEN "wild" ELSE "scan"
    BY ScanFacts DEF Does
<1> QED
    BY <1>1, <1>2, <1>3 DEF ScanStops

\* The piece of the i-th directive
PieceAt(o, b, i) == SubSeq(o, b[i] + 1, IF i < Len(b) THEN b[i + 1] ELSE Len(o))
PieceGood(o, b, s, i) ==
    /\ Promised(PieceAt(o, b, i), format[i], RestAt(format, words, i))
    /\ format[i].conversion = "n" => s[i] = b[i]

LEMMA PiecesAre == PiecesAsPromised <=> \A i \in 1..Len(begins) : PieceGood(out, begins, told, i)
  BY Zenon DEF PiecesAsPromised, PieceGood, PieceAt, RestAt

LEMMA PiecesWillBe ==
    ASSUME format' = format, words' = words,
           \A i \in 1..Len(begins') : PieceGood(out', begins', told', i)
    PROVE  PiecesAsPromised'
<1>1. ASSUME NEW i \in 1..Len(begins')
      PROVE  /\ Promised(SubSeq(out', begins'[i] + 1,
                                IF i < Len(begins') THEN begins'[i + 1] ELSE Len(out')),
                         format'[i], SubSeq(words', TakenUpTo(format')[i - 1] + 1, Len(words')))
             /\ format'[i].conversion = "n" => told'[i] = begins'[i]
    BY Zenon DEF PieceGood, PieceAt, RestAt
<1> QED
    BY <1>1, Zenon DEF PiecesAsPromised

LEMMA PiecesStep ==
    ASSUME TextShape, BeginsInOrder, PiecesAsPromised,
           NEW conversions, Scan(conversions), NEW t, Does(t)
    PROVE  PiecesAsPromised'
<1>1. /\ Len(begins') = at /\ begins'[at] = Len(out)
      /\ \A i \in 1..(at - 1) : begins'[i] = begins[i] /\ begins[i] \in Nat
      /\ at - 1 = Len(begins) /\ at \in Nat \ {0}
    BY BeginsAppended
<1>2. /\ t \in Seq(Chars) /\ out \in Seq(Chars) /\ out' = out \o t
      /\ Len(out') = Len(out) + Len(t) /\ Len(out) \in Nat /\ Len(t) \in Nat
    BY OutGrows
<1>3. /\ \A i \in 1..(at - 1) : begins[i] <= Len(out)
      /\ \A i \in 1..((at - 1) - 1) : begins[i] <= begins[i + 1]
    BY <1>1 DEF BeginsInOrder
<1>4. format' = format /\ words' = words
    BY ScanFacts
<1>5. ASSUME NEW i \in 1..(at - 1) PROVE PieceGood(out', begins', told', i)
    <2>1. PieceGood(out, begins, told, i)
        BY <1>1, PiecesAre
    <2>0. format[i].conversion = "n" => told'[i] = told[i]
        <3>1. format[i].conversion = "n" => i \in DOMAIN told \ {at}
            BY <1>1 DEF TextShape
        <3> QED
            BY <3>1 DEF Does
    <2>2. begins'[i] = begins[i] /\ begins[i] \in Nat
        BY <1>1
    <2>3. PieceAt(out', begins', i) = PieceAt(out, begins, i)
        <3> DEFINE b == IF i < Len(begins) THEN begins[i + 1] ELSE Len(out)
        <3>1. b \in Nat /\ begins[i] <= b /\ b <= Len(out) /\ begins'[i + 1] = b
            <4>1. CASE i < Len(begins)
                <5>1. i \in 1..((at - 1) - 1) /\ i + 1 \in 1..(at - 1)
                    BY <1>1, <4>1
                <5> QED
                    BY <1>1, <1>3, <4>1, <5>1
            <4>2. CASE ~(i < Len(begins))
                <5>1. i + 1 = at /\ i \in 1..(at - 1)
                    BY <1>1, <4>2
                <5> QED
                    BY <1>1, <1>2, <1>3, <4>2, <5>1
            <4> QED
                BY <4>1, <4>2
        <3>2. i < Len(begins')
            BY <1>1
        <3>3. PieceAt(out', begins', i) = SubSeq(out', begins'[i] + 1, begins'[i + 1])
            BY <3>2, Zenon DEF PieceAt
        <3>4. PieceAt(out, begins, i) = SubSeq(out, begins[i] + 1, b)
            BY Zenon DEF PieceAt
        <3> HIDE DEF b
        <3>5. SubSeq(out \o t, begins[i] + 1, b) = SubSeq(out, begins[i] + 1, b)
            <4> DEFINE a == begins[i]
            <4>1. a \in Nat /\ a <= b
                BY <2>2, <3>1
            <4> HIDE DEF a
            <4>2. SubSeq(out \o t, a + 1, b) = SubSeq(out, a + 1, b)
                BY <1>2, <3>1, <4>1, PieceKept
            <4> QED
                BY <4>2 DEF a
        <3> QED
            BY <1>2, <2>2, <3>1, <3>3, <3>4, <3>5, Zenon
    <2> QED
        BY <2>0, <2>1, <2>2, <2>3, Zenon DEF PieceGood
<1>6. PieceGood(out', begins', told', at)
    <2>1. ~(at < Len(begins'))
        BY <1>1
    <2>2. PieceAt(out', begins', at) = SubSeq(out', begins'[at] + 1, Len(out'))
        BY <2>1, Zenon DEF PieceAt
    <2>3. PieceAt(out', begins', at) = t
        BY <1>1, <1>2, <2>2, PieceNew, Zenon
    <2>4. RestAt(format, words, at) = Rest
        BY Zenon DEF RestAt, Rest, TextShape
    <2>5. Promised(t, format[at], Rest) /\ (format[at].conversion = "n" => told'[at] = Len(out))
        BY Zenon DEF Does
    <2> QED
        BY <1>1, <2>3, <2>4, <2>5, Zenon DEF PieceGood
<1>7. \A i \in 1..Len(begins') : PieceGood(out', begins', told', i)
    <2> TAKE i \in 1..Len(begins')
    <2>1. CASE i = at
        BY <1>6, <2>1, Zenon
    <2>2. CASE i # at
        <3>1. i \in 1..(at - 1)
            BY <1>1, <2>2
        <3> QED
            BY <1>5, <3>1, Zenon
    <2> QED
        BY <2>1, <2>2
<1> QED
    BY <1>4, <1>7, PiecesWillBe

\* The buffer
LEMMA BufferStep ==
    ASSUME TextShape, BufferHoldsText, NEW conversions, Scan(conversions), NEW t, Does(t)
    PROVE  BufferHoldsText'
<1> DEFINE kept == {i \in 0..(Len(out) - 1) : i < size}
           keptNext == {i \in 0..(Len(out') - 1) : i < size}
<1>1. phase = "scan" /\ size' = size /\ size \in Int
    BY ScanFacts, SizeIsInt
<1>2. /\ Len(out') = Len(out) + Len(t) /\ Len(out) \in Nat /\ Len(t) \in Nat
      /\ \A i \in 1..Len(out) : out'[i] = out[i]
      /\ \A i \in 1..Len(t) : out'[Len(out) + i] = t[i]
    BY OutGrows
<1>3. DOMAIN str = kept /\ \A i \in kept : str[i] = out[i + 1]
    <2>1. kept \subseteq DOMAIN str /\ (\A i \in kept : str[i] = out[i + 1])
          /\ (DOMAIN str \ kept # {} => phase = "done")
        BY Zenon DEF BufferHoldsText
    <2> QED
        BY <1>1, <2>1
<1>4. /\ DOMAIN str' = DOMAIN str \cup Kept(t)
      /\ \A i \in DOMAIN str \ Kept(t) : str'[i] = str[i]
      /\ \A i \in Kept(t) : str'[i] = t[i - Len(out) + 1]
    BY DEF Does, Adds
<1>5. Kept(t) = {i \in Len(out)..(Len(out) + Len(t) - 1) : i < size}
    BY DEF Kept
<1>6. keptNext = kept \cup Kept(t) /\ kept \cap Kept(t) = {}
    BY <1>1, <1>2, <1>5
<1>7. \A i \in kept : str'[i] = out'[i + 1]
    <2> TAKE i \in kept
    <2>1. i + 1 \in 1..Len(out) /\ i \in DOMAIN str \ Kept(t)
        BY <1>2, <1>3, <1>6
    <2> QED
        BY <1>2, <1>3, <1>4, <2>1
<1>8. \A i \in Kept(t) : str'[i] = out'[i + 1]
    <2> TAKE i \in Kept(t)
    <2>1. i - Len(out) + 1 \in 1..Len(t) /\ Len(out) + (i - Len(out) + 1) = i + 1
        BY <1>2, <1>5
    <2> QED
        BY <1>2, <1>4, <2>1
<1>9. DOMAIN str' = keptNext
    BY <1>3, <1>4, <1>6
<1>10. \A i \in keptNext : str'[i] = out'[i + 1]
    BY <1>6, <1>7, <1>8
<1>11. phase' # "done"
    BY DEF Does
<1> HIDE DEF kept
<1>12. /\ {i \in 0..(Len(out') - 1) : i < size'} \subseteq DOMAIN str'
       /\ \A i \in {j \in 0..(Len(out') - 1) : j < size'} : str'[i] = out'[i + 1]
       /\ DOMAIN str' \ {i \in 0..(Len(out') - 1) : i < size'} = {}
    BY <1>1, <1>9, <1>10
<1> QED
    BY <1>11, <1>12, Zenon DEF BufferHoldsText

LEMMA DirectiveStep ==
    ASSUME TextInv, NEW conversions, Scan(conversions), NEW t, Does(t)
    PROVE  TextInv'
<1>1. TextShape /\ BeginsInOrder /\ PiecesAsPromised /\ BufferHoldsText /\ ScanStops
    BY DEF TextInv
<1>2. TextShape'
    BY <1>1, ShapeStep
<1>3. BeginsInOrder'
    BY <1>1, BeginsStep
<1>4. PiecesAsPromised'
    BY <1>1, PiecesStep
<1>5. BufferHoldsText'
    BY <1>1, BufferStep
<1>6. ScanStops'
    BY <1>1, StopsStep
<1> QED
    BY <1>2, <1>3, <1>4, <1>5, <1>6 DEF TextInv

LEMMA TextTyped == TextInv => TextAsPromised
<1> SUFFICES ASSUME TextInv PROVE TextAsPromised
    OBVIOUS
<1>1. TextShape /\ PiecesAsPromised /\ BufferHoldsText /\ ScanStops
    BY DEF TextInv
<1>2. /\ WellFormed(format, words) /\ size \in BufferSizes
      /\ phase \in {"scan", "done", "wild"} /\ length \in Nat
      /\ begins \in Seq(Nat) /\ out \in Seq(Chars)
      /\ at = Len(begins) + 1 /\ at <= Len(format) + 1
      /\ next = TakenUpTo(format)[at - 1] + 1
      /\ DOMAIN told \subseteq 1..Len(format)
    BY <1>1 DEF TextShape
<1>3. format \in Seq(AnyDirective) /\ words \in Seq(0 .. Ints - 1)
      /\ \A i \in 1..Len(format) : TakenUpTo(format)[i] <= Len(words)
    BY <1>2 DEF WellFormed
<1>4. Len(begins) \in Nat /\ Len(format) \in Nat /\ Len(words) \in Nat /\ Len(out) \in Nat
    BY <1>2, <1>3
<1>5. at \in 1..(Len(format) + 1) /\ Len(begins) = at - 1
    BY <1>2, <1>4
<1>6. next \in 1..(Len(words) + 1)
    <2> DEFINE k == at - 1
    <2>1. k \in 0..Len(format)
        BY <1>4, <1>5
    <2>2. TakenUpTo(format) \in [0..Len(format) -> Nat] /\ TakenUpTo(format)[0] = 0
        BY <1>3, TakenUpToFacts
    <2> HIDE DEF k
    <2>3. TakenUpTo(format)[k] \in Nat
        BY <2>1, <2>2
    <2>4. TakenUpTo(format)[k] <= Len(words)
        <3>1. CASE k = 0
            BY <1>4, <2>2, <3>1
        <3>2. CASE k # 0
            <4>1. k \in 1..Len(format)
                BY <1>4, <2>1, <3>2
            <4> QED
                BY <1>3, <4>1
        <3> QED
            BY <3>1, <3>2
    <2>5. next = TakenUpTo(format)[k] + 1
        BY <1>2 DEF k
    <2> QED
        BY <1>4, <2>3, <2>4, <2>5
<1>7. \A i \in DOMAIN str : i \in Nat
    BY <1>1 DEF TextShape
<1> QED
    BY <1>1, <1>2, <1>5, <1>6, <1>7 DEF TextAsPromised, TextTypeOK

LEMMA TextStarts ==
    ASSUME TextInit
    PROVE  TextInv
<1>1. /\ size \in BufferSizes /\ at = 1 /\ next = 1 /\ begins = <<>> /\ out = <<>>
      /\ str = <<>> /\ told = <<>> /\ phase = "scan" /\ length = 0
    BY DEF TextInit
<1>2. WellFormed(format, words)
    BY FormatAssumption DEF TextInit
<1>3. format \in Seq(AnyDirective)
    BY <1>2 DEF WellFormed
<1>4. <<>> \in Seq(Nat) /\ <<>> \in Seq(Chars) /\ Len(<<>>) = 0 /\ DOMAIN <<>> = {}
    OBVIOUS
<1>5. TakenUpTo(format)[0] = 0 /\ Len(format) \in Nat
    BY <1>3, TakenUpToFacts
<1>6. TextShape
    BY <1>1, <1>2, <1>4, <1>5 DEF TextShape
<1>7. BeginsInOrder
    BY <1>1, <1>4 DEF BeginsInOrder
<1>8. PiecesAsPromised
    <2>1. \A i \in 1..Len(begins) : PieceGood(out, begins, told, i)
        BY <1>1, <1>4
    <2> QED
        BY <2>1, PiecesAre
<1>9. BufferHoldsText
    BY <1>1, <1>4 DEF BufferHoldsText
<1>10. ScanStops
    BY <1>1 DEF ScanStops
<1> QED
    BY <1>6, <1>7, <1>8, <1>9, <1>10 DEF TextInv

\* The words of the directive at hand
LEMMA OwnRest ==
    ASSUME TextInv, NEW conversions, Scan(conversions)
    PROVE  /\ format[at] \in AnyDirective /\ format[at].conversion \in conversions
           /\ Rest \in Seq(0 .. Ints - 1) /\ TakenBy(format[at]) <= Len(Rest)
           /\ format[at].conversion = "s" =>
                  Rest[Stars(format[at]) + 1] \in 0 .. NullPage - 1 \cup DOMAIN Memory
<1>1. TextShape /\ WellFormed(format, words) /\ next = TakenUpTo(format)[at - 1] + 1
    BY DEF TextInv, TextShape
<1>2. at \in 1..Len(format)
    BY <1>1, BeginsAppended
<1>3. RestAt(format, words, at) = Rest
    BY <1>1, Zenon DEF RestAt, Rest
<1>4. format[at].conversion \in conversions
    BY ScanFacts
<1> QED
    BY <1>1, <1>2, <1>3, <1>4, OwnWords

LEMMA LiteralKeeps ==
    ASSUME TextInv, Literal
    PROVE  TextInv'
<1>1. Scan({"lit"}) /\ Put(<<"t">>) /\ told' = told /\ phase' = phase /\ phase = "scan"
    BY ScanFacts DEF Literal
<1>2. format[at].conversion = "lit"
    BY <1>1, OwnRest
<1>3. <<"t">> \in Seq(Chars) /\ Promised(<<"t">>, format[at], Rest)
    BY <1>2, PlainPromised
<1>4. Adds(<<"t">>)
    BY <1>1, <1>3, PutAdds
<1>5. Does(<<"t">>)
    BY <1>1, <1>2, <1>3, <1>4 DEF Does
<1> QED
    BY <1>1, <1>5, DirectiveStep

LEMMA ConvertKeeps ==
    ASSUME TextInv, Convert
    PROVE  TextInv'
<1> DEFINE t == Text(format[at], Rest)
           conversions == {"c", "s", "p", "%"} \cup Numbers
<1>1. Scan(conversions) /\ Put(t) /\ told' = told /\ phase' = phase /\ phase = "scan"
    BY ScanFacts DEF Convert
<1>2. format[at].conversion \notin {"end", "n"}
    BY <1>1, OwnRest DEF Numbers
<1>3. t \in Seq(Chars) /\ Promised(t, format[at], Rest)
    BY <1>1, OwnRest, TextPromised
<1> HIDE DEF t, conversions
<1>4. Adds(t)
    BY <1>1, <1>3, PutAdds
<1>5. Does(t)
    BY <1>1, <1>2, <1>3, <1>4 DEF Does
<1> QED
    BY <1>1, <1>5, DirectiveStep

LEMMA CountKeeps ==
    ASSUME TextInv, Count
    PROVE  TextInv'
<1>1. /\ Scan({"n"}) /\ out' = out /\ str' = str /\ phase' = phase /\ phase = "scan"
      /\ told' = [i \in DOMAIN told \cup {at} |-> IF i = at THEN Len(out) ELSE told[i]]
    BY ScanFacts DEF Count
<1>2. format[at].conversion = "n"
    BY <1>1, OwnRest
<1>3. <<>> \in Seq(Chars) /\ Promised(<<>>, format[at], Rest)
    BY <1>2, PlainPromised
<1>4. Adds(<<>>)
    <2>1. out \in Seq(Chars) /\ Len(out) \in Nat
        BY DEF TextInv, TextShape
    <2>2. out' = out \o <<>>
        BY <1>1, <2>1, ConcatEmptySeq
    <2>3. Kept(<<>>) = {}
        BY <2>1 DEF Kept
    <2> QED
        BY <1>1, <1>3, <2>2, <2>3 DEF Adds
<1>5. told'[at] = Len(out) /\ DOMAIN told' = DOMAIN told \cup {at}
    BY <1>1
<1>6. \A i \in DOMAIN told \ {at} : told'[i] = told[i]
    BY <1>1
<1>7. Does(<<>>)
    BY <1>1, <1>2, <1>3, <1>4, <1>5, <1>6 DEF Does
<1> QED
    BY <1>1, <1>7, DirectiveStep

LEMMA UnknownKeeps ==
    ASSUME TextInv, Unknown
    PROVE  TextInv'
<1> DEFINE t == <<"%", "?">>
<1>1. Scan({"?"}) /\ Put(t) /\ told' = told /\ phase' = phase /\ phase = "scan"
    BY ScanFacts DEF Unknown
<1>2. format[at].conversion = "?"
    BY <1>1, OwnRest
<1>3. t \in Seq(Chars) /\ Promised(t, format[at], Rest)
    BY <1>2, PlainPromised
<1> HIDE DEF t
<1>4. Adds(t)
    BY <1>1, <1>3, PutAdds
<1>5. Does(t)
    BY <1>1, <1>2, <1>3, <1>4 DEF Does
<1> QED
    BY <1>1, <1>5, DirectiveStep

LEMMA RunOffKeeps ==
    ASSUME TextInv, RunOff
    PROVE  TextInv'
<1> DEFINE t == <<"%">>
<1>1. Scan({"end"}) /\ Put(t) /\ told' = told /\ phase' = "wild"
    BY DEF RunOff
<1>2. format[at].conversion = "end"
    BY <1>1, OwnRest
<1>3. t \in Seq(Chars) /\ Promised(t, format[at], Rest)
    BY <1>2, PlainPromised
<1> HIDE DEF t
<1>4. Adds(t)
    BY <1>1, <1>3, PutAdds
<1>5. Does(t)
    BY <1>1, <1>2, <1>3, <1>4 DEF Does
<1> QED
    BY <1>1, <1>5, DirectiveStep

LEMMA RefuseKeeps ==
    ASSUME TextInv, Refuse
    PROVE  TextInv'
<1>1. /\ phase = "scan" /\ size < 0 /\ phase' = "done"
      /\ size' = size /\ format' = format /\ words' = words /\ at' = at /\ next' = next
      /\ begins' = begins /\ out' = out /\ str' = str /\ told' = told /\ length' = length
    BY DEF Refuse
<1>2. TextShape /\ BeginsInOrder /\ PiecesAsPromised /\ BufferHoldsText /\ ScanStops
    BY DEF TextInv
<1>3. TextShape'
    BY <1>1, <1>2 DEF TextShape
<1>4. BeginsInOrder'
    BY <1>1, <1>2 DEF BeginsInOrder
<1>5. PiecesAsPromised'
    BY <1>1, <1>2, Zenon DEF PiecesAsPromised
<1>6. BufferHoldsText'
    <2> DEFINE kept == {i \in 0..(Len(out) - 1) : i < size}
    <2>1. size \in Int
        BY <1>2, SizeIsInt
    <2>2. /\ kept \subseteq DOMAIN str /\ \A i \in kept : str[i] = out[i + 1]
          /\ DOMAIN str \ kept = {}
        BY <1>1, <1>2, Zenon DEF BufferHoldsText
    <2>3. ~(size > 0)
        BY <1>1, <2>1
    <2> QED
        BY <1>1, <2>2, <2>3, Zenon DEF BufferHoldsText
<1>7. ScanStops'
    <2>1. size \in Int
        BY <1>2, SizeIsInt
    <2> QED
        BY <1>1, <1>2, <2>1 DEF ScanStops
<1> QED
    BY <1>3, <1>4, <1>5, <1>6, <1>7 DEF TextInv

LEMMA FinishKeeps ==
    ASSUME TextInv, Finish
    PROVE  TextInv'
<1> DEFINE end == {IF Len(out) < size THEN Len(out) ELSE size} \ (IF size = 0 THEN {0} ELSE {})
           kept == {i \in 0..(Len(out) - 1) : i < size}
<1>1. /\ phase = "scan" /\ size >= 0 /\ at > Len(format) /\ phase' = "done" /\ length' = Len(out)
      /\ size' = size /\ format' = format /\ words' = words /\ at' = at /\ next' = next
      /\ begins' = begins /\ out' = out /\ told' = told
    BY DEF Finish
<1>2. str' = [i \in DOMAIN str \cup end |-> IF i \in end THEN "NUL" ELSE str[i]]
    BY Zenon DEF Finish
<1>3. TextShape /\ BeginsInOrder /\ PiecesAsPromised /\ BufferHoldsText /\ ScanStops
    BY DEF TextInv
<1>4. /\ size \in Int /\ out \in Seq(Chars) /\ begins \in Seq(Nat) /\ format \in Seq(AnyDirective)
      /\ at = Len(begins) + 1 /\ at <= Len(format) + 1
    BY <1>3, SizeIsInt DEF TextShape, WellFormed
<1>5. Len(out) \in Nat /\ Len(begins) \in Nat /\ Len(format) \in Nat
    BY <1>4
<1>6. /\ end \subseteq Nat /\ end \cap kept = {}
      /\ size > 0 => end = {IF Len(out) < size THEN Len(out) ELSE size}
      /\ \A i \in end : i = (IF Len(out) < size THEN Len(out) ELSE size)
    BY <1>1, <1>4, <1>5
<1>7. DOMAIN str = kept /\ \A i \in kept : str[i] = out[i + 1]
    <2>1. kept \subseteq DOMAIN str /\ (\A i \in kept : str[i] = out[i + 1])
          /\ (DOMAIN str \ kept # {} => phase = "done")
        BY <1>3, Zenon DEF BufferHoldsText
    <2> QED
        BY <1>1, <2>1
<1>8. size > 0 => end # {}
    BY <1>6
<1>9. kept \subseteq Nat
    OBVIOUS
<1> HIDE DEF end, kept
<1>10. /\ DOMAIN str' = kept \cup end
       /\ \A i \in kept : str'[i] = out[i + 1]
       /\ \A i \in end : str'[i] = "NUL"
       /\ DOMAIN str' \ kept = end
    BY <1>2, <1>6, <1>7
<1>11. TextShape'
    <2>1. \A i \in DOMAIN str' : i \in Nat
        BY <1>6, <1>9, <1>10
    <2> QED
        BY <1>1, <1>3, <1>5, <2>1 DEF TextShape
<1>12. BeginsInOrder'
    BY <1>1, <1>3 DEF BeginsInOrder
<1>13. PiecesAsPromised'
    BY <1>1, <1>3, Zenon DEF PiecesAsPromised
<1>14. BufferHoldsText'
    BY <1>1, <1>6, <1>8, <1>10, Zenon DEF BufferHoldsText, kept
<1>15. ScanStops'
    BY <1>1, <1>3, <1>4, <1>5 DEF ScanStops
<1> QED
    BY <1>11, <1>12, <1>13, <1>14, <1>15 DEF TextInv

LEMMA TextStep ==
    ASSUME TextInv, [TextNext]_textVars
    PROVE  TextInv'
<1>1. CASE Refuse
    BY <1>1, RefuseKeeps
<1>2. CASE Literal
    BY <1>2, LiteralKeeps
<1>3. CASE Convert
    BY <1>3, ConvertKeeps
<1>4. CASE Count
    BY <1>4, CountKeeps
<1>5. CASE Unknown
    BY <1>5, UnknownKeeps
<1>6. CASE RunOff
    BY <1>6, RunOffKeeps
<1>7. CASE Finish
    BY <1>7, FinishKeeps
<1>8. CASE UNCHANGED textVars
    <2>1. /\ size' = size /\ format' = format /\ words' = words /\ at' = at /\ next' = next
          /\ begins' = begins /\ out' = out /\ str' = str /\ told' = told
          /\ phase' = phase /\ length' = length
        BY <1>8 DEF textVars
    <2>2. TextShape /\ BeginsInOrder /\ PiecesAsPromised /\ BufferHoldsText /\ ScanStops
        BY DEF TextInv
    <2>3. TextShape'
        BY <2>1, <2>2 DEF TextShape
    <2>4. BeginsInOrder'
        BY <2>1, <2>2 DEF BeginsInOrder
    <2>5. PiecesAsPromised'
        BY <2>1, <2>2, Zenon DEF PiecesAsPromised
    <2>6. BufferHoldsText'
        BY <2>1, <2>2, Zenon DEF BufferHoldsText
    <2>7. ScanStops'
        BY <2>1, <2>2 DEF ScanStops
    <2> QED
        BY <2>3, <2>4, <2>5, <2>6, <2>7 DEF TextInv
<1> QED
    BY <1>1, <1>2, <1>3, <1>4, <1>5, <1>6, <1>7, <1>8 DEF TextNext

(* The text of vsnprintf: whatever the format and its arguments, every       *)
(* directive makes the text it promises from its own words, a number that is *)
(* read back as the one that was passed, and the buffer holds as much of it  *)
(* as fits.                                                                  *)
THEOREM TextIsPromised == TextSpec => []TextAsPromised
<1>1. TextInit => TextInv
    BY TextStarts
<1>2. TextInv /\ [TextNext]_textVars => TextInv'
    BY TextStep
<1>3. TextInv => TextAsPromised
    BY TextTyped
<1> QED
    BY <1>1, <1>2, <1>3, PTL DEF TextSpec
=============================================================================
