------------------------- MODULE KernelMemoryProofs --------------------------
(***************************************************************************)
(* Proofs about the memory of the kernel.  The heap (KernelHeap): for      *)
(* every page and header size, whatever is asked for and however long it   *)
(* grows, its blocks tile it, its pages have frames, and a block in use is *)
(* not handed out.  Behind it, the frames (PhysMem): for every                *)
(* memory and every sequence of requests each is handed out and counted    *)
(* once.                                                                   *)
(***************************************************************************)
EXTENDS KernelHeap, PhysMem, WellFoundedInduction, SequenceTheorems, FiniteSetTheorems, TLAPS

\* A nonempty set of natural numbers has a least element.
LEMMA LeastNatural ==
    ASSUME NEW T, T \subseteq Nat, T # {}
    PROVE  \E x \in T : \A y \in T : x <= y
<1> DEFINE R == {ss \in Nat \X Nat : ss[1] < ss[2]}
<1>1. R = OpToRel(<, Nat)
    BY Zenon DEF OpToRel
<1>2. IsWellFoundedOn(R, Nat)
    BY <1>1, NatLessThanWellFounded, Zenon
<1> HIDE DEF R
<1>3. PICK x \in T : \A y \in T : ~(<<y, x>> \in R)
    BY <1>2, WFMin, Zenon
<1>4. \A a, b \in Nat : a < b => <<a, b>> \in R
    <2> TAKE a, b \in Nat
    <2> HAVE a < b
    <2>1. <<a, b>> \in Nat \X Nat /\ <<a, b>>[1] = a /\ <<a, b>>[2] = b
        OBVIOUS
    <2> QED BY <2>1, Zenon DEF R
<1>5. ASSUME NEW y \in T PROVE x <= y
    <2>1. x \in Nat /\ y \in Nat
        OBVIOUS
    <2>2. ~(y < x)
        BY <1>3, <1>4, <2>1, Zenon
    <2> QED BY <2>1, <2>2
<1> QED BY <1>5

\* One factor more.
LEMMA TimesSuccessor ==
    ASSUME NEW a \in Nat, NEW b \in Nat
    PROVE  (a + 1) * b = a * b + b
  OBVIOUS

\* Products grow with their factors.
LEMMA TimesMonotone ==
    ASSUME NEW a \in Nat, NEW b \in Nat, NEW y \in Nat, a <= b
    PROVE  a * y <= b * y
  OBVIOUS

\* A multiple leaves nothing.
LEMMA TimesMod ==
    ASSUME NEW k \in Nat, NEW y \in Nat \ {0}
    PROVE  (k * y) % y = 0
  OBVIOUS

\* Division rounds down.
LEMMA DivFacts ==
    ASSUME NEW a \in Nat, NEW y \in Nat \ {0}
    PROVE  /\ a \div y \in Nat
           /\ (a \div y) * y <= a
           /\ a < (a \div y) * y + y
  OBVIOUS

\* The quotient that is rounded up covers x, by less than one y.
LEMMA CeilFacts ==
    ASSUME NEW x \in Nat, NEW y \in Nat \ {0}
    PROVE  /\ CeilDiv(x, y) \in Nat
           /\ CeilDiv(x, y) * y >= x
           /\ CeilDiv(x, y) * y < x + y
<1>1. x + y - 1 \in Nat
    OBVIOUS
<1>2. /\ (x + y - 1) \div y \in Nat
      /\ ((x + y - 1) \div y) * y <= x + y - 1
      /\ x + y - 1 < ((x + y - 1) \div y) * y + y
    BY <1>1, DivFacts
<1> DEFINE c == (x + y - 1) \div y
<1> HIDE DEF c
<1>3. c \in Nat /\ c * y \in Nat /\ c * y <= x + y - 1 /\ x + y - 1 < c * y + y
    BY <1>2 DEF c
<1>4. c * y >= x /\ c * y < x + y
    BY <1>3
<1> QED BY <1>3, <1>4 DEF CeilDiv, c

\* It is the only number that does.
LEMMA CeilUnique ==
    ASSUME NEW x \in Nat, NEW y \in Nat \ {0}, NEW p \in Nat,
           p * y >= x, p * y < x + y
    PROVE  CeilDiv(x, y) = p
<1> DEFINE c == CeilDiv(x, y)
<1>1. c \in Nat /\ c * y >= x /\ c * y < x + y
    BY CeilFacts
<1> HIDE DEF c
<1>2. c * y \in Nat /\ p * y \in Nat
    BY <1>1
<1>3. CASE c >= p + 1
    <2>1. (p + 1) * y <= c * y
        BY <1>1, <1>3, TimesMonotone
    <2>2. (p + 1) * y = p * y + y
        BY TimesSuccessor
    <2> QED BY <1>1, <1>2, <2>1, <2>2
<1>4. CASE p >= c + 1
    <2>1. (c + 1) * y <= p * y
        BY <1>1, <1>4, TimesMonotone
    <2>2. (c + 1) * y = c * y + y
        BY <1>1, TimesSuccessor
    <2> QED BY <1>1, <1>2, <2>1, <2>2
<1> QED BY <1>1, <1>3, <1>4 DEF c

\* Two numbers of pages, in one sum.
LEMMA TimesSum ==
    ASSUME NEW a \in Nat, NEW b \in Nat, NEW y \in Nat
    PROVE  (a + b) * y = a * y + b * y
  OBVIOUS

-----------------------------------------------------------------------------
(* What holds of the heap between any two calls.                           *)

Shape(h) ==
    /\ h = [current |-> h.current, remaining |-> h.remaining, pages |-> h.pages,
            frames |-> h.frames, size |-> h.size, free |-> h.free, list |-> h.list]
    /\ h.size = [b \in DOMAIN h.size |-> h.size[b]]

Typed(h) ==
    /\ h.current \in Nat /\ h.remaining \in Nat /\ h.pages \in Nat /\ h.frames \in Nat
    /\ \A b \in DOMAIN h.size : b \in Nat /\ h.size[b] \in Nat
    /\ h.free \subseteq DOMAIN h.size
    /\ h.list \in Seq(DOMAIN h.size)

Apart(h) == \A a, b \in DOMAIN h.size : a < b => End(h, a) <= b

Adjacent(h) == \A b \in DOMAIN h.size : End(h, b) \in DOMAIN h.size \cup {h.current}

Below(h) == \A b \in DOMAIN h.size : End(h, b) <= h.current

Paged(h) ==
    /\ h.pages * Page = h.current + h.remaining
    /\ h.remaining < Page
    /\ h.frames = h.pages

Ascending(q) == \A i, j \in 1..Len(q) : i < j => q[i] < q[j]

Good(h) ==
    /\ Shape(h) /\ Typed(h)
    /\ Apart(h) /\ Adjacent(h) /\ Below(h)
    /\ Paged(h)
    /\ Ascending(h.list)

-----------------------------------------------------------------------------
(* malloc_sbrk                                                             *)

\* It moves the break and nothing else of the blocks, and keeps the account of
\* pages and frames.
LEMMA SbrkFacts ==
    ASSUME NEW h, Good(h), NEW len \in Nat \ {0}
    PROVE  /\ Shape(Sbrk(h, len))
           /\ Sbrk(h, len).current = h.current + len
           /\ Sbrk(h, len).remaining \in Nat
           /\ Sbrk(h, len).pages \in Nat
           /\ Sbrk(h, len).frames \in Nat
           /\ Paged(Sbrk(h, len))
           /\ Sbrk(h, len).size = h.size
           /\ Sbrk(h, len).free = h.free
           /\ Sbrk(h, len).list = h.list
<1> USE DEF Good
<1>1. /\ h.current \in Nat /\ h.remaining \in Nat /\ h.pages \in Nat /\ h.frames \in Nat
      /\ Page \in Nat \ {0}
    BY HeapAssumption DEF Typed
<1>2. h.pages * Page = h.current + h.remaining /\ h.remaining < Page /\ h.frames = h.pages
    BY DEF Paged
<1>3. CASE len <= h.remaining
    <2>1. Sbrk(h, len) = [h EXCEPT !.current = @ + len, !.remaining = @ - len]
        BY <1>3, Zenon DEF Sbrk
    <2>2. /\ Shape(Sbrk(h, len))
          /\ Sbrk(h, len).current = h.current + len
          /\ Sbrk(h, len).remaining = h.remaining - len
          /\ Sbrk(h, len).pages = h.pages
          /\ Sbrk(h, len).frames = h.frames
          /\ Sbrk(h, len).size = h.size
          /\ Sbrk(h, len).free = h.free
          /\ Sbrk(h, len).list = h.list
        BY <2>1 DEF Shape
    <2>3. Paged(Sbrk(h, len))
        BY <1>1, <1>2, <1>3, <2>2 DEF Paged
    <2> QED BY <1>1, <1>3, <2>2, <2>3
<1>4. CASE len > h.remaining
    <2> DEFINE grown == h.current + len
               asked == CeilDiv(len - h.remaining, Page)
    <2>1. /\ len - h.remaining \in Nat
          /\ grown \in Nat
        BY <1>1, <1>4
    <2>2. /\ asked \in Nat /\ asked * Page \in Nat
          /\ asked * Page >= len - h.remaining
          /\ asked * Page < len - h.remaining + Page
        <3>1. /\ asked \in Nat
              /\ asked * Page >= len - h.remaining
              /\ asked * Page < len - h.remaining + Page
            BY <1>1, <2>1, CeilFacts
        <3> HIDE DEF asked
        <3>2. asked * Page \in Nat
            BY <1>1, <3>1
        <3> QED BY <3>1, <3>2
    <2>3. CeilDiv(h.current, Page) = h.pages
        BY <1>1, <1>2, CeilUnique
    <2> HIDE DEF asked
    <2>4. (h.pages + asked) * Page = h.current + h.remaining + asked * Page
        BY <1>1, <1>2, <2>2, TimesSum
    <2>5. (h.pages + asked) * Page >= grown /\ (h.pages + asked) * Page < grown + Page
        BY <1>1, <2>2, <2>4
    <2> HIDE DEF grown
    <2>6. CeilDiv(grown, Page) = h.pages + asked
        BY <1>1, <2>1, <2>2, <2>5, CeilUnique
    <2>7. Sbrk(h, len) = [h EXCEPT !.current = grown,
                                   !.frames = @ + asked,
                                   !.pages = @ + (h.pages + asked) - h.pages,
                                   !.remaining = (h.pages + asked) * Page - grown]
        <3>1. ~(len <= h.remaining)
            BY <1>1, <1>4
        <3> QED BY <2>3, <2>6, <3>1 DEF Sbrk, LeftOver, grown, asked
    <2>8. /\ Shape(Sbrk(h, len))
          /\ Sbrk(h, len).current = grown
          /\ Sbrk(h, len).remaining = (h.pages + asked) * Page - grown
          /\ Sbrk(h, len).pages = h.pages + (h.pages + asked) - h.pages
          /\ Sbrk(h, len).frames = h.frames + asked
          /\ Sbrk(h, len).size = h.size
          /\ Sbrk(h, len).free = h.free
          /\ Sbrk(h, len).list = h.list
        BY <2>7 DEF Shape
    <2>9. Sbrk(h, len).pages = h.pages + asked
        BY <1>1, <2>2, <2>8
    <2> DEFINE all == (h.pages + asked) * Page
    <2>10. all \in Nat
        BY <1>1, <2>2
    <2>11. all >= grown /\ all < grown + Page
        BY <2>5
    <2>12. Paged(Sbrk(h, len))
        <3>1. Sbrk(h, len).pages * Page = all
            BY <2>9
        <3>2. Sbrk(h, len).remaining = all - grown
            BY <2>8
        <3> HIDE DEF all
        <3>3. all = grown + (all - grown) /\ all - grown < Page
            BY <1>1, <2>1, <2>10, <2>11
        <3> QED BY <1>1, <1>2, <2>8, <2>9, <3>1, <3>2, <3>3 DEF Paged
    <2>13. Sbrk(h, len).remaining \in Nat
        <3> HIDE DEF all
        <3>1. all - grown \in Nat
            BY <2>1, <2>10, <2>11
        <3> QED BY <2>8, <3>1 DEF all
    <2> QED BY <1>1, <2>2, <2>8, <2>9, <2>12, <2>13 DEF grown
<1> QED BY <1>1, <1>3, <1>4

-----------------------------------------------------------------------------
(* malloc_get                                                              *)

\* The list that malloc_get leaves.
Cut(q, last, b) == Append(SubSeq(q, 1, last), b)

\* The break moved by n and a header.
Moved(h, g, n) == g.current = h.current + (n + Header)

\* c begins with what q begins with, and ends with b.
IsCut(c, q, last, b) ==
    /\ Len(c) = last + 1
    /\ \A i \in 1..last : c[i] = q[i]
    /\ c[last + 1] = b

\* A list that is cut and continued with a higher address is ascending.
LEMMA CutFacts ==
    ASSUME NEW S, S \subseteq Nat, NEW q \in Seq(S), Ascending(q),
           NEW last \in Nat, last <= Len(q),
           NEW b \in Nat, \A a \in S : a < b
    PROVE  /\ Cut(q, last, b) \in Seq(S \cup {b})
           /\ Ascending(Cut(q, last, b))
           /\ IsCut(Cut(q, last, b), q, last, b)
<1> DEFINE pre == SubSeq(q, 1, last)
           cut == Append(pre, b)
<1>1. \A i \in 1..last : q[i] \in S
    BY ElementOfSeq
<1>2. /\ pre \in Seq(S \cup {b})
      /\ Len(pre) = last
      /\ \A i \in 1..last : pre[i] = q[i]
    <2>1. /\ SubSeq(q, 1, last) \in Seq(S \cup {b})
          /\ Len(SubSeq(q, 1, last)) = IF 1 <= last THEN last - 1 + 1 ELSE 0
          /\ \A i \in 1..(last - 1 + 1) : SubSeq(q, 1, last)[i] = q[1 + i - 1]
        <3>1. \A i \in 1..last : q[i] \in S \cup {b}
            BY <1>1
        <3> QED BY <3>1, SubSeqProperties
    <2> QED BY <2>1
<1> HIDE DEF pre
<1>3. /\ cut \in Seq(S \cup {b})
      /\ Len(cut) = last + 1
      /\ \A i \in 1..last : cut[i] = q[i]
      /\ cut[last + 1] = b
    <2>1. b \in S \cup {b}
        OBVIOUS
    <2> QED BY <1>2, <2>1, AppendProperties
<1> HIDE DEF cut
<1>4. Ascending(cut)
    <2> SUFFICES ASSUME NEW i \in 1..Len(cut), NEW j \in 1..Len(cut), i < j
                 PROVE  cut[i] < cut[j]
        BY DEF Ascending
    <2>1. i \in 1..last /\ cut[i] = q[i] /\ q[i] \in S
        BY <1>1, <1>3
    <2>2. CASE j = last + 1
        BY <1>3, <2>1, <2>2
    <2>3. CASE j # last + 1
        <3>1. j \in 1..last /\ cut[j] = q[j]
            BY <1>3, <2>3
        <3> QED BY <2>1, <3>1 DEF Ascending
    <2> QED BY <2>2, <2>3
<1>5. Cut(q, last, b) = cut
    BY DEF Cut, cut, pre
<1> QED BY <1>3, <1>4, <1>5 DEF IsCut

\* The break is behind every block, so the block there is a new one.
LEMMA BreakIsNew ==
    ASSUME NEW h, Good(h)
    PROVE  \A b \in DOMAIN h.size : b + Header <= h.current
<1> SUFFICES ASSUME NEW b \in DOMAIN h.size
             PROVE  b + Header <= h.current
    OBVIOUS
<1>1. b + Header + h.size[b] <= h.current
    BY DEF Good, Below, End
<1>2. b \in Nat /\ h.size[b] \in Nat /\ h.current \in Nat /\ Header \in Nat
    BY HeapAssumption DEF Good, Typed
<1> QED BY <1>1, <1>2

\* malloc_get adds one block, which is in use and the last of the list.
LEMMA GetFacts ==
    ASSUME NEW h, Good(h), NEW last \in Nat, last <= Len(h.list), NEW n \in Nat
    PROVE  /\ Good(Get(h, last, n))
           /\ h.current \notin DOMAIN h.size
           /\ DOMAIN Get(h, last, n).size = DOMAIN h.size \cup {h.current}
           /\ Get(h, last, n).free = h.free
           /\ Moved(h, Get(h, last, n), n)
           /\ IsCut(Get(h, last, n).list, h.list, last, h.current)
<1> DEFINE b == h.current
           g == Get(h, last, n)
           s == Sbrk(h, n + Header)
<1>1. /\ b \in Nat /\ Header \in Nat \ {0}
      /\ \A a \in DOMAIN h.size : a \in Nat /\ h.size[a] \in Nat
      /\ h.free \subseteq DOMAIN h.size
      /\ h.list \in Seq(DOMAIN h.size)
    BY HeapAssumption DEF Good, Typed
<1>2. n + Header \in Nat \ {0}
    BY <1>1
<1>3. /\ Shape(s)
      /\ s.current = b + (n + Header)
      /\ s.remaining \in Nat /\ s.pages \in Nat /\ s.frames \in Nat
      /\ Paged(s)
      /\ s.size = h.size /\ s.free = h.free /\ s.list = h.list
    BY <1>2, SbrkFacts
<1>4. \A a \in DOMAIN h.size : a + Header <= b
    BY BreakIsNew
<1>5. \A a \in DOMAIN h.size : a < b
    BY <1>1, <1>4
<1>6. b \notin DOMAIN h.size
    BY <1>1, <1>5
<1> DEFINE cut == Cut(h.list, last, b)
           sizes == [a \in DOMAIN h.size \cup {b} |-> IF a = b THEN n ELSE h.size[a]]
<1>7. /\ cut \in Seq(DOMAIN h.size \cup {b})
      /\ Len(cut) = last + 1
      /\ Ascending(cut)
      /\ \A i \in 1..last : cut[i] = h.list[i]
      /\ cut[last + 1] = b
    <2> DEFINE S == DOMAIN h.size
               q == h.list
    <2>1. /\ S \subseteq Nat /\ q \in Seq(S) /\ Ascending(q) /\ last <= Len(q)
          /\ b \in Nat /\ \A a \in S : a < b
        BY <1>1, <1>5 DEF Good
    <2> HIDE DEF S, q, b
    <2>2. /\ Cut(q, last, b) \in Seq(S \cup {b})
          /\ Ascending(Cut(q, last, b))
          /\ IsCut(Cut(q, last, b), q, last, b)
        BY <2>1, CutFacts
    <2> QED BY <2>2, Zenon DEF S, q, IsCut
<1>8. g = [s EXCEPT !.size = sizes, !.list = cut]
    BY DEF Get, Cut
<1> HIDE DEF s, cut, g
<1>9. /\ Shape(g)
      /\ g.current = b + (n + Header)
      /\ g.remaining = s.remaining /\ g.pages = s.pages /\ g.frames = s.frames
      /\ g.size = sizes /\ g.free = h.free /\ g.list = cut
    BY <1>3, <1>8 DEF Shape
<1>10. DOMAIN g.size = DOMAIN h.size \cup {b}
    BY <1>9
<1>11. /\ g.size[b] = n
       /\ \A a \in DOMAIN h.size : g.size[a] = h.size[a]
    BY <1>6, <1>9
<1>12. /\ End(g, b) = g.current
       /\ \A a \in DOMAIN h.size : End(g, a) = End(h, a)
    <2> HIDE DEF sizes
    <2>1. End(g, b) = b + Header + n
        BY <1>11, Zenon DEF End
    <2>2. b + Header + n = b + (n + Header)
        BY <1>1
    <2>3. ASSUME NEW a \in DOMAIN h.size PROVE End(g, a) = End(h, a)
        BY <1>11, Zenon DEF End
    <2> QED BY <1>9, <2>1, <2>2, <2>3
<1> HIDE DEF sizes
<1>13. \A a \in DOMAIN h.size : End(h, a) <= b /\ End(h, a) \in Nat
    BY <1>1 DEF Good, Below, End
<1>14. b <= g.current /\ g.current \in Nat
    BY <1>1, <1>9
<1>15. Typed(g)
    <2>1. \A a \in DOMAIN g.size : a \in Nat /\ g.size[a] \in Nat
        BY <1>1, <1>10, <1>11
    <2> QED BY <1>1, <1>3, <1>7, <1>9, <1>10, <1>14, <2>1 DEF Typed
<1>16. Apart(g)
    <2> SUFFICES ASSUME NEW a \in DOMAIN g.size, NEW c \in DOMAIN g.size, a < c
                 PROVE  End(g, a) <= c
        BY DEF Apart
    <2>1. a # b
        BY <1>1, <1>5, <1>10
    <2>2. a \in DOMAIN h.size /\ End(g, a) = End(h, a)
        BY <1>10, <1>12, <2>1
    <2>3. CASE c = b
        BY <1>13, <2>2, <2>3
    <2>4. CASE c \in DOMAIN h.size
        BY <2>2, <2>4 DEF Good, Apart
    <2> QED BY <1>10, <2>3, <2>4
<1>17. Adjacent(g)
    <2> SUFFICES ASSUME NEW a \in DOMAIN g.size
                 PROVE  End(g, a) \in DOMAIN g.size \cup {g.current}
        BY DEF Adjacent
    <2>1. CASE a = b
        BY <1>12, <2>1
    <2>2. CASE a \in DOMAIN h.size
        <3>1. End(h, a) \in DOMAIN h.size \cup {b}
            BY <2>2 DEF Good, Adjacent
        <3> QED BY <1>10, <1>12, <2>2, <3>1
    <2> QED BY <1>10, <2>1, <2>2
<1>18. Below(g)
    <2> SUFFICES ASSUME NEW a \in DOMAIN g.size
                 PROVE  End(g, a) <= g.current
        BY DEF Below
    <2>1. CASE a = b
        BY <1>12, <1>14, <2>1
    <2>2. CASE a \in DOMAIN h.size
        BY <1>1, <1>12, <1>13, <1>14, <2>2
    <2> QED BY <1>10, <2>1, <2>2
<1>19. Paged(g)
    BY <1>3, <1>9 DEF Paged
<1>20. Ascending(g.list) /\ IsCut(g.list, h.list, last, b)
    BY <1>7, <1>9, Zenon DEF IsCut
<1> QED BY <1>6, <1>9, <1>10, <1>15, <1>16, <1>17, <1>18, <1>19, <1>20 DEF Good, Moved, g

-----------------------------------------------------------------------------
(* malloc, when it finds a free block                                      *)

\* A list with a new address in it, between its neighbours, is ascending.
LEMMA InsertFacts ==
    ASSUME NEW S, S \subseteq Nat, NEW q \in Seq(S), Ascending(q),
           NEW i \in 1..Len(q),
           NEW s \in Nat, q[i] < s, \A a \in S : q[i] < a => s < a
    PROVE  LET longer == SubSeq(q, 1, i) \o <<s>> \o SubSeq(q, i + 1, Len(q))
           IN  /\ longer \in Seq(S \cup {s})
               /\ Len(longer) = Len(q) + 1
               /\ Ascending(longer)
               /\ longer[1] = q[1]
<1> DEFINE T == S \cup {s}
           pre == SubSeq(q, 1, i)
           mid == pre \o <<s>>
           post == SubSeq(q, i + 1, Len(q))
           longer == mid \o post
<1>1. Len(q) \in Nat /\ \A k \in 1..Len(q) : q[k] \in S
    BY ElementOfSeq
<1>2. /\ pre \in Seq(T) /\ Len(pre) = i
      /\ \A k \in 1..i : pre[k] = q[k]
    <2>1. \A k \in 1..i : q[k] \in T
        BY <1>1
    <2>2. /\ SubSeq(q, 1, i) \in Seq(T)
          /\ Len(SubSeq(q, 1, i)) = IF 1 <= i THEN i - 1 + 1 ELSE 0
          /\ \A k \in 1..(i - 1 + 1) : SubSeq(q, 1, i)[k] = q[1 + k - 1]
        BY <2>1, SubSeqProperties
    <2> QED BY <1>1, <2>2
<1>3. /\ post \in Seq(T) /\ Len(post) = Len(q) - i
      /\ \A k \in 1..(Len(q) - i) : post[k] = q[i + k]
    <2>1. \A k \in (i + 1)..Len(q) : q[k] \in T
        BY <1>1
    <2>2. /\ SubSeq(q, i + 1, Len(q)) \in Seq(T)
          /\ Len(SubSeq(q, i + 1, Len(q))) =
                IF i + 1 <= Len(q) THEN Len(q) - (i + 1) + 1 ELSE 0
          /\ \A k \in 1..(Len(q) - (i + 1) + 1) :
                SubSeq(q, i + 1, Len(q))[k] = q[(i + 1) + k - 1]
        BY <1>1, <2>1, SubSeqProperties
    <2> QED BY <1>1, <2>2
<1>4. <<s>> \in Seq(T) /\ Len(<<s>>) = 1 /\ <<s>>[1] = s
    OBVIOUS
<1> HIDE DEF T, pre, post
<1>5. /\ mid \in Seq(T) /\ Len(mid) = i + 1
      /\ \A k \in 1..i : mid[k] = q[k]
      /\ mid[i + 1] = s
    <2>1. /\ mid \in Seq(T) /\ Len(mid) = Len(pre) + Len(<<s>>)
          /\ \A k \in 1..(Len(pre) + Len(<<s>>)) :
                mid[k] = IF k <= Len(pre) THEN pre[k] ELSE <<s>>[k - Len(pre)]
        BY <1>2, <1>4, ConcatProperties
    <2> HIDE DEF mid
    <2> QED BY <1>2, <1>4, <2>1
<1> HIDE DEF mid
<1>6. /\ longer \in Seq(T) /\ Len(longer) = Len(q) + 1
      /\ \A k \in 1..i : longer[k] = q[k]
      /\ longer[i + 1] = s
      /\ \A k \in (i + 2)..(Len(q) + 1) : longer[k] = q[k - 1]
    <2>1. /\ longer \in Seq(T) /\ Len(longer) = Len(mid) + Len(post)
          /\ \A k \in 1..(Len(mid) + Len(post)) :
                longer[k] = IF k <= Len(mid) THEN mid[k] ELSE post[k - Len(mid)]
        BY <1>3, <1>5, ConcatProperties
    <2> HIDE DEF longer
    <2>2. Len(longer) = Len(q) + 1
        BY <1>1, <1>3, <1>5, <2>1
    <2>3. ASSUME NEW k \in 1..i PROVE longer[k] = q[k]
        <3>1. k \in 1..(Len(mid) + Len(post)) /\ k <= Len(mid)
            BY <1>1, <1>3, <1>5
        <3> QED BY <1>5, <2>1, <3>1
    <2>4. longer[i + 1] = s
        <3>1. i + 1 \in 1..(Len(mid) + Len(post)) /\ i + 1 <= Len(mid)
            BY <1>1, <1>3, <1>5
        <3>2. longer[i + 1] = mid[i + 1]
            BY <2>1, <3>1
        <3> QED BY <1>5, <3>2, Zenon
    <2>5. ASSUME NEW k \in (i + 2)..(Len(q) + 1) PROVE longer[k] = q[k - 1]
        <3>1. k - (i + 1) \in 1..(Len(q) - i) /\ i + (k - (i + 1)) = k - 1
            BY <1>1
        <3>2. k \in 1..(Len(mid) + Len(post)) /\ ~(k <= Len(mid))
            BY <1>1, <1>3, <1>5
        <3>3. longer[k] = post[k - Len(mid)]
            BY <2>1, <3>2
        <3>4. k - Len(mid) = k - (i + 1)
            BY <1>5, Zenon
        <3>5. post[k - (i + 1)] = q[i + (k - (i + 1))]
            BY <1>3, <3>1, Zenon
        <3> QED BY <3>1, <3>3, <3>4, <3>5, Zenon
    <2> QED BY <2>1, <2>2, <2>3, <2>4, <2>5
<1> HIDE DEF longer
<1>7. \A a, b \in 1..Len(q) : a < b => q[a] < q[b]
    BY DEF Ascending
<1>8. \A k \in 1..i : q[k] < s
    <2> TAKE k \in 1..i
    <2>1. q[k] \in Nat /\ q[i] \in Nat
        <3>1. k \in 1..Len(q)
            BY <1>1
        <3>2. q[k] \in S /\ q[i] \in S
            BY <1>1, <3>1
        <3> QED BY <3>2
    <2>2. k = i \/ q[k] < q[i]
        BY <1>1, <1>7
    <2> QED BY <2>1, <2>2
<1>9. \A k \in (i + 1)..Len(q) : s < q[k]
    <2> TAKE k \in (i + 1)..Len(q)
    <2>1. q[i] < q[k] /\ q[k] \in S
        BY <1>1, <1>7
    <2> QED BY <2>1
<1>10. Ascending(longer)
    <2> SUFFICES ASSUME NEW a \in 1..Len(longer), NEW b \in 1..Len(longer), a < b
                 PROVE  longer[a] < longer[b]
        BY DEF Ascending
    <2>1. a \in 1..(Len(q) + 1) /\ b \in 1..(Len(q) + 1)
        BY <1>6
    <2>2. CASE b <= i
        BY <1>1, <1>6, <1>7, <2>1, <2>2
    <2>3. CASE b = i + 1
        BY <1>1, <1>6, <1>8, <2>1, <2>3
    <2>4. CASE b > i + 1
        <3>1. b - 1 \in (i + 1)..Len(q) /\ longer[b] = q[b - 1]
            BY <1>1, <1>6, <2>1, <2>4
        <3>2. CASE a <= i
            <4>1. a \in 1..i /\ a \in 1..Len(q) /\ b - 1 \in 1..Len(q) /\ a < b - 1
                BY <1>1, <2>1, <3>1, <3>2
            <4>2. longer[a] = q[a] /\ q[a] < q[b - 1]
                BY <1>6, <1>7, <4>1
            <4> QED BY <3>1, <4>2
        <3>3. CASE a = i + 1
            BY <1>6, <1>9, <3>1, <3>3
        <3>4. CASE a > i + 1
            <4>1. a - 1 \in 1..Len(q) /\ longer[a] = q[a - 1] /\ a - 1 < b - 1
                BY <1>1, <1>6, <2>1, <3>4
            <4>2. b - 1 \in 1..Len(q)
                BY <1>1, <3>1
            <4> QED BY <1>7, <3>1, <4>1, <4>2
        <3> QED BY <2>1, <3>2, <3>3, <3>4
    <2> QED BY <1>1, <2>1, <2>2, <2>3, <2>4
<1>11. longer[1] = q[1]
    BY <1>1, <1>6
<1> QED BY <1>6, <1>10, <1>11 DEF longer, mid, pre, post, T

\* What every call leaves alone: no block disappears, none in use becomes free,
\* the list goes on beginning with the same block, and a list of several blocks
\* does not become a list of one.
Keeps(h, g) ==
    /\ DOMAIN h.size \subseteq DOMAIN g.size
    /\ \A b \in DOMAIN h.size : b \in g.free => b \in h.free
    /\ Len(h.list) > 0 => Len(g.list) > 0 /\ g.list[1] = h.list[1]
    /\ Len(h.list) > 1 => Len(g.list) > 1

LEMMA KeepsTransitive ==
    ASSUME NEW f, NEW g, NEW h, Keeps(f, g), Keeps(g, h)
    PROVE  Keeps(f, h)
  BY Zenon DEF Keeps

\* malloc takes a free block, whole or its first part; the rest is a free block
\* that lies between it and the next one.
LEMMA ReuseFacts ==
    ASSUME NEW h, Good(h), NEW n \in Nat, NEW i \in Fitting(h, n)
    PROVE  /\ Good(Reuse(h, i, n))
           /\ Keeps(h, Reuse(h, i, n))
           /\ h.list[i] \in h.free
           /\ h.list[i] \in DOMAIN h.size
           /\ h.list[i] \notin Reuse(h, i, n).free
<1> DEFINE b == h.list[i]
           s == b + Header + n
           g == Reuse(h, i, n)
<1>1. /\ h.current \in Nat /\ Header \in Nat \ {0}
      /\ \A a \in DOMAIN h.size : a \in Nat /\ h.size[a] \in Nat
      /\ h.free \subseteq DOMAIN h.size
      /\ h.list \in Seq(DOMAIN h.size)
    BY HeapAssumption DEF Good, Typed
<1>2. i \in 1..Len(h.list) /\ b \in h.free /\ h.size[b] >= n
    BY DEF Fitting
<1>3. b \in DOMAIN h.size /\ b \in Nat /\ h.size[b] \in Nat
    BY <1>1, <1>2
<1>4. CASE h.size[b] <= n + Header
    <2>1. g = [h EXCEPT !.free = h.free \ {b}]
        BY <1>4 DEF Reuse, Without
    <2> HIDE DEF g
    <2>2. /\ Shape(g)
          /\ g.current = h.current /\ g.remaining = h.remaining
          /\ g.pages = h.pages /\ g.frames = h.frames
          /\ g.size = h.size /\ g.list = h.list /\ g.free = h.free \ {b}
        BY <2>1 DEF Good, Shape
    <2>3. \A a \in DOMAIN h.size : End(g, a) = End(h, a)
        BY <2>2, Zenon DEF End
    <2>4. Typed(g)
        BY <2>2 DEF Good, Typed
    <2>5. Apart(g) /\ Adjacent(g) /\ Below(g)
        BY <2>2, <2>3 DEF Good, Apart, Adjacent, Below
    <2>6. Paged(g)
        BY <2>2 DEF Good, Paged
    <2>7. Ascending(g.list)
        BY <2>2 DEF Good
    <2>8. Keeps(h, g)
        BY <2>2 DEF Keeps
    <2> QED BY <1>2, <1>3, <2>2, <2>4, <2>5, <2>6, <2>7, <2>8 DEF Good, g
<1>5. CASE h.size[b] > n + Header
    <2> DEFINE rest == h.size[b] - n - Header
               sizes == [a \in DOMAIN h.size \cup {s} |->
                            CASE a = b -> n [] a = s -> rest [] OTHER -> h.size[a]]
               longer == SubSeq(h.list, 1, i) \o <<s>> \o SubSeq(h.list, i + 1, Len(h.list))
    <2>1. g = [h EXCEPT !.free = (h.free \ {b}) \cup {s}, !.size = sizes, !.list = longer]
        <3>1. ~(h.size[b] <= n + Header)
            BY <1>1, <1>3, <1>5
        <3> QED BY <3>1 DEF Reuse, Without, Rest
    <2>2. s \in Nat /\ rest \in Nat /\ b < s /\ s < End(h, b)
        <3>1. End(h, b) = b + Header + h.size[b]
            BY DEF End
        <3> HIDE DEF b
        <3>2. s \in Nat /\ b < s
            BY <1>1, <1>3
        <3>3. rest \in Nat
            BY <1>1, <1>3, <1>5
        <3>4. s < b + Header + h.size[b]
            <4> DEFINE z == h.size[b]
            <4>1. z \in Nat /\ z > n + Header /\ b \in Nat /\ Header \in Nat \ {0}
                BY <1>1, <1>3, <1>5
            <4> HIDE DEF z
            <4>2. b + Header + n < b + Header + z
                BY <4>1
            <4> QED BY <4>2 DEF z
        <3> QED BY <3>1, <3>2, <3>3, <3>4
    <2>3. \A a \in DOMAIN h.size : b < a => s < a
        <3> SUFFICES ASSUME NEW a \in DOMAIN h.size, b < a PROVE s < a
            OBVIOUS
        <3>1. End(h, b) <= a
            BY <1>3 DEF Good, Apart
        <3> HIDE DEF s
        <3>2. s \in Nat /\ s < End(h, b)
            BY <2>2
        <3>3. a \in Nat
            BY <1>1
        <3> HIDE DEF b
        <3>4. End(h, b) \in Nat
            <4>1. Header \in Nat /\ b \in Nat /\ h.size[b] \in Nat
                BY <1>1, <1>3
            <4> QED BY <4>1 DEF End
        <3> QED BY <3>1, <3>2, <3>3, <3>4
    <2>4. s \notin DOMAIN h.size /\ s # b
        BY <2>2, <2>3
    <2>5. /\ longer \in Seq(DOMAIN h.size \cup {s})
          /\ Len(longer) = Len(h.list) + 1
          /\ Ascending(longer)
          /\ longer[1] = h.list[1]
        <3> DEFINE S == DOMAIN h.size
                   q == h.list
        <3>1. /\ S \subseteq Nat /\ q \in Seq(S) /\ Ascending(q) /\ i \in 1..Len(q)
              /\ s \in Nat /\ q[i] < s /\ \A a \in S : q[i] < a => s < a
            BY <1>1, <1>2, <2>2, <2>3 DEF Good
        <3> HIDE DEF S, q, s
        <3>2. LET more == SubSeq(q, 1, i) \o <<s>> \o SubSeq(q, i + 1, Len(q))
              IN  /\ more \in Seq(S \cup {s})
                  /\ Len(more) = Len(q) + 1
                  /\ Ascending(more)
                  /\ more[1] = q[1]
            BY <3>1, InsertFacts
        <3> QED BY <3>2, Zenon DEF S, q
    <2> HIDE DEF g, longer
    <2>6. /\ Shape(g)
          /\ g.current = h.current /\ g.remaining = h.remaining
          /\ g.pages = h.pages /\ g.frames = h.frames
          /\ g.size = sizes /\ g.list = longer /\ g.free = (h.free \ {b}) \cup {s}
        <3>1. sizes = [a \in DOMAIN sizes |-> sizes[a]]
            OBVIOUS
        <3> HIDE DEF b, s, sizes
        <3> QED BY <2>1, <3>1 DEF Good, Shape
    <2>7. DOMAIN g.size = DOMAIN h.size \cup {s}
        BY <2>6
    <2>8. /\ g.size[b] = n
          /\ g.size[s] = rest
          /\ \A a \in DOMAIN h.size : a # b => g.size[a] = h.size[a]
        BY <1>3, <2>4, <2>6
    <2> HIDE DEF sizes
    <2>9. End(g, b) = s
        BY <2>8, Zenon DEF End
    <2>10. End(g, s) = End(h, b)
        <3>1. End(g, s) = s + Header + rest
            BY <2>8, Zenon DEF End
        <3>2. s + Header + rest = b + Header + h.size[b]
            BY <1>1, <1>3
        <3> QED BY <3>1, <3>2 DEF End
    <2>11. \A a \in DOMAIN h.size : a # b => End(g, a) = End(h, a)
        BY <2>8, Zenon DEF End
    <2>12. \A a \in DOMAIN h.size : End(h, a) \in Nat /\ a < End(h, a)
        BY <1>1 DEF End
    <2> HIDE DEF s, rest, b
    <2>13. Typed(g)
        <3>1. \A a \in DOMAIN g.size : a \in Nat /\ g.size[a] \in Nat
            BY <1>1, <2>2, <2>7, <2>8
        <3>2. g.free \subseteq DOMAIN g.size
            BY <1>1, <2>6, <2>7
        <3>3. g.list \in Seq(DOMAIN g.size)
            BY <2>5, <2>6, <2>7
        <3> QED BY <2>6, <3>1, <3>2, <3>3 DEF Good, Typed
    <2>14. Apart(g)
        <3> SUFFICES ASSUME NEW a \in DOMAIN g.size, NEW c \in DOMAIN g.size, a < c
                     PROVE  End(g, a) <= c
            BY DEF Apart
        <3>1. \A x, y \in DOMAIN h.size : x < y => End(h, x) <= y
            BY DEF Good, Apart
        <3>2. a \in Nat /\ c \in Nat
            BY <1>1, <2>2, <2>7
        <3>3. CASE a = b
            <4>1. c = s \/ c \in DOMAIN h.size
                BY <2>7
            <4>2. c = s \/ s < c
                BY <2>3, <3>3, <4>1
            <4> QED BY <2>2, <2>9, <3>2, <3>3, <4>2
        <3>4. CASE a = s
            <4>1. c \in DOMAIN h.size /\ b < c
                BY <1>3, <2>2, <2>7, <3>2, <3>4
            <4> QED BY <1>3, <2>10, <3>1, <3>4, <4>1
        <3>5. CASE a # b /\ a # s
            <4>1. a \in DOMAIN h.size /\ End(g, a) = End(h, a)
                BY <2>7, <2>11, <3>5
            <4>2. CASE c = s
                <5>1. a < b
                    BY <1>3, <2>2, <2>3, <3>2, <3>5, <4>1, <4>2
                <5>2. End(h, a) <= b
                    BY <1>3, <3>1, <4>1, <5>1
                <5> QED BY <1>3, <2>2, <2>12, <4>1, <4>2, <5>2
            <4>3. CASE c \in DOMAIN h.size
                BY <3>1, <4>1, <4>3
            <4> QED BY <2>7, <4>2, <4>3
        <3> QED BY <3>3, <3>4, <3>5
    <2>15. Adjacent(g)
        <3> SUFFICES ASSUME NEW a \in DOMAIN g.size
                     PROVE  End(g, a) \in DOMAIN g.size \cup {g.current}
            BY DEF Adjacent
        <3>1. \A x \in DOMAIN h.size : End(h, x) \in DOMAIN g.size \cup {g.current}
            BY <2>6, <2>7 DEF Good, Adjacent
        <3> QED BY <1>3, <2>7, <2>9, <2>10, <2>11, <3>1
    <2>16. Below(g)
        <3> SUFFICES ASSUME NEW a \in DOMAIN g.size
                     PROVE  End(g, a) <= g.current
            BY DEF Below
        <3>1. \A x \in DOMAIN h.size : End(h, x) <= g.current
            BY <2>6 DEF Good, Below
        <3>2. s <= g.current
            BY <1>1, <1>3, <2>2, <2>6, <2>12, <3>1
        <3> QED BY <1>3, <2>7, <2>9, <2>10, <2>11, <3>1, <3>2
    <2>17. Paged(g)
        BY <2>6 DEF Good, Paged
    <2>18. Ascending(g.list)
        BY <2>5, <2>6
    <2>19. Keeps(h, g)
        <3>1. \A x \in DOMAIN h.size : x \in g.free => x \in h.free
            BY <2>4, <2>6
        <3>2. /\ Len(h.list) > 0 => Len(g.list) > 0 /\ g.list[1] = h.list[1]
              /\ Len(h.list) > 1 => Len(g.list) > 1
            BY <1>1, <2>5, <2>6
        <3> QED BY <2>7, <3>1, <3>2 DEF Keeps
    <2>20. b \notin g.free
        BY <2>4, <2>6
    <2> QED BY <1>2, <1>3, <2>6, <2>13, <2>14, <2>15, <2>16, <2>17, <2>18, <2>19, <2>20
            DEF Good, g, b
<1> QED BY <1>1, <1>3, <1>4, <1>5

-----------------------------------------------------------------------------
(* The calls                                                               *)

\* A new block leaves the others alone.
LEMMA GetKeeps ==
    ASSUME NEW h, Good(h), NEW last \in 1..Len(h.list), NEW n \in Nat
    PROVE  Keeps(h, Get(h, last, n))
<1>1. Len(h.list) \in Nat
    BY LenProperties DEF Good, Typed
<1>2. last \in Nat /\ last <= Len(h.list) /\ last + 1 > 1
    BY <1>1
<1>3. /\ DOMAIN Get(h, last, n).size = DOMAIN h.size \cup {h.current}
      /\ Get(h, last, n).free = h.free
      /\ IsCut(Get(h, last, n).list, h.list, last, h.current)
    BY <1>2, GetFacts
<1>4. /\ Len(Get(h, last, n).list) = last + 1
      /\ Get(h, last, n).list[1] = h.list[1]
    BY <1>2, <1>3 DEF IsCut
<1> QED BY <1>2, <1>3, <1>4 DEF Keeps

\* malloc returns a block that nobody has, and that is no longer free.
LEMMA MallocFacts ==
    ASSUME NEW h, Good(h), NEW n \in Nat
    PROVE  /\ Good(Malloc(h, n).heap)
           /\ Keeps(h, Malloc(h, n).heap)
           /\ Malloc(h, n).block \in DOMAIN Malloc(h, n).heap.size
           /\ Malloc(h, n).block \notin Malloc(h, n).heap.free
           /\ Malloc(h, n).block \in DOMAIN h.size => Malloc(h, n).block \in h.free
<1>1. Len(h.list) \in Nat /\ h.free \subseteq DOMAIN h.size
    BY LenProperties DEF Good, Typed
<1>2. CASE Fitting(h, n) = {}
    <2> DEFINE g == Get(h, Len(h.list), n)
    <2>1. Malloc(h, n) = [heap |-> g, block |-> h.current]
        BY <1>2, Zenon DEF Malloc
    <2>2. Malloc(h, n).heap = g /\ Malloc(h, n).block = h.current
        BY <2>1
    <2>3. Len(h.list) \in Nat /\ Len(h.list) <= Len(h.list)
        BY <1>1
    <2>4. /\ Good(g)
          /\ h.current \notin DOMAIN h.size
          /\ DOMAIN g.size = DOMAIN h.size \cup {h.current}
          /\ g.free = h.free
          /\ IsCut(g.list, h.list, Len(h.list), h.current)
        BY <2>3, GetFacts
    <2>5. Keeps(h, g)
        BY <1>1, <2>4 DEF Keeps, IsCut
    <2> HIDE DEF g
    <2> QED BY <1>1, <2>2, <2>4, <2>5
<1>3. CASE Fitting(h, n) # {}
    <2> DEFINE i == CHOOSE i \in Fitting(h, n) : \A j \in Fitting(h, n) : i <= j
               g == Reuse(h, i, n)
    <2>1. Malloc(h, n) = [heap |-> g, block |-> h.list[i]]
        BY <1>3, Zenon DEF Malloc
    <2>2. Malloc(h, n).heap = g /\ Malloc(h, n).block = h.list[i]
        BY <2>1
    <2>3. i \in Fitting(h, n)
        <3>1. Fitting(h, n) \subseteq Nat
            BY <1>1 DEF Fitting
        <3>2. \E k \in Fitting(h, n) : \A j \in Fitting(h, n) : k <= j
            BY <1>3, <3>1, LeastNatural
        <3> QED BY <3>2, Zenon
    <2> HIDE DEF i
    <2>4. /\ Good(g) /\ Keeps(h, g)
          /\ h.list[i] \in h.free /\ h.list[i] \in DOMAIN h.size
          /\ h.list[i] \notin g.free
        BY <2>3, ReuseFacts
    <2> HIDE DEF g
    <2> QED BY <2>2, <2>4 DEF Keeps
<1> QED BY <1>2, <1>3

\* free marks a block.
LEMMA FreeFacts ==
    ASSUME NEW h, Good(h), NEW b \in DOMAIN h.size
    PROVE  /\ Good(Free(h, b))
           /\ Free(h, b).size = h.size
           /\ Free(h, b).list = h.list
           /\ Free(h, b).free = h.free \cup {b}
<1> DEFINE g == Free(h, b)
<1>1. g = [h EXCEPT !.free = h.free \cup {b}]
    BY DEF Free
<1> HIDE DEF g
<1>2. /\ Shape(g)
      /\ g.current = h.current /\ g.remaining = h.remaining
      /\ g.pages = h.pages /\ g.frames = h.frames
      /\ g.size = h.size /\ g.list = h.list /\ g.free = h.free \cup {b}
    BY <1>1 DEF Good, Shape
<1>3. \A a \in DOMAIN h.size : End(g, a) = End(h, a)
    BY <1>2, Zenon DEF End
<1>4. Typed(g)
    BY <1>2 DEF Good, Typed
<1>5. Apart(g) /\ Adjacent(g) /\ Below(g)
    BY <1>2, <1>3 DEF Good, Apart, Adjacent, Below
<1>6. Paged(g)
    BY <1>2 DEF Good, Paged
<1>7. Ascending(g.list)
    BY <1>2 DEF Good
<1> QED BY <1>2, <1>4, <1>5, <1>6, <1>7 DEF Good, g

\* The padding has room for the two headers.
LEMMA PaddingFacts ==
    ASSUME NEW h, Good(h)
    PROVE  Padding(h) - 2 * Header \in Nat
<1> DEFINE up == CeilDiv(h.current, Page) * Page
<1>1. /\ h.current \in Nat /\ Header \in Nat /\ Page \in Nat \ {0}
      /\ 2 * Header < Page
    BY HeapAssumption DEF Good, Typed
<1>2. up \in Nat /\ up >= h.current
    <2>1. CeilDiv(h.current, Page) \in Nat /\ up >= h.current
        BY <1>1, CeilFacts
    <2> DEFINE c == CeilDiv(h.current, Page)
    <2> HIDE DEF c
    <2>2. c \in Nat => c * Page \in Nat
        BY <1>1
    <2> QED BY <2>1, <2>2 DEF c
<1>3. Padding(h) = IF up - h.current > 2 * Header THEN up - h.current
                                                 ELSE up - h.current + Page
    BY Zenon DEF Padding
<1> HIDE DEF up
<1> QED BY <1>1, <1>2, <1>3

\* Behind the padding begins a page.
LEMMA PaddingEnds ==
    ASSUME NEW h, Good(h)
    PROVE  \E k \in Nat : h.current + Padding(h) = k * Page
<1> DEFINE c == CeilDiv(h.current, Page)
           up == c * Page
<1>1. /\ h.current \in Nat /\ Header \in Nat /\ Page \in Nat \ {0}
    BY HeapAssumption DEF Good, Typed
<1>2. c \in Nat
    BY <1>1, CeilFacts
<1>3. Padding(h) = IF up - h.current > 2 * Header THEN up - h.current
                                                 ELSE up - h.current + Page
    BY Zenon DEF Padding
<1> HIDE DEF c
<1>4. up \in Nat /\ (c + 1) * Page = up + Page
    BY <1>1, <1>2, TimesSuccessor
<1>5. CASE up - h.current > 2 * Header
    <2>1. Padding(h) = up - h.current
        BY <1>3, <1>5, Zenon
    <2> HIDE DEF up
    <2>2. h.current + Padding(h) = up
        BY <1>1, <1>4, <2>1
    <2> QED BY <1>2, <2>2 DEF up
<1>6. CASE ~(up - h.current > 2 * Header)
    <2>1. Padding(h) = up - h.current + Page
        BY <1>3, <1>6, Zenon
    <2> HIDE DEF up
    <2>2. h.current + Padding(h) = up + Page
        BY <1>1, <1>4, <2>1
    <2>3. c + 1 \in Nat
        BY <1>2
    <2> QED BY <1>4, <2>2, <2>3
<1> QED BY <1>5, <1>6

\* If the break is on a page, the heap's pages end there.
LEMMA PagesEnd ==
    ASSUME NEW h, Good(h), NEW k \in Nat, h.current = k * Page
    PROVE  h.current = h.pages * Page
<1>1. h.current \in Nat /\ h.remaining \in Nat /\ h.pages \in Nat /\ Page \in Nat \ {0}
    BY HeapAssumption DEF Good, Typed
<1>2. h.pages * Page = h.current + h.remaining /\ h.remaining < Page
    BY DEF Good, Paged
<1>3. CeilDiv(h.current, Page) = h.pages
    <2>1. h.pages * Page >= h.current /\ h.pages * Page < h.current + Page
        BY <1>1, <1>2
    <2> QED BY <1>1, <2>1, CeilUnique
<1>4. k * Page >= h.current /\ k * Page < h.current + Page
    BY <1>1
<1>5. CeilDiv(h.current, Page) = k
    BY <1>1, <1>4, CeilUnique
<1> QED BY <1>3, <1>5

\* malloc_align adds a block, or does nothing.
LEMMA AlignFacts ==
    ASSUME NEW h, Good(h), Len(h.list) > 1
    PROVE  /\ Good(Align(h).heap)
           /\ Keeps(h, Align(h).heap)
           /\ \/ Align(h).block = None
              \/ /\ Align(h).block \in DOMAIN Align(h).heap.size
                 /\ Align(h).block \notin DOMAIN h.size
                 /\ Align(h).block \notin Align(h).heap.free
<1>1. Len(h.list) \in Nat /\ h.free \subseteq DOMAIN h.size
    BY LenProperties DEF Good, Typed
<1>2. CASE h.current % Page = 0
    <2>1. Align(h).heap = h /\ Align(h).block = None
        BY <1>2 DEF Align
    <2> QED BY <2>1 DEF Keeps
<1>3. CASE h.current % Page # 0
    <2> DEFINE g == Get(h, 1, Padding(h) - 2 * Header)
    <2>1. Align(h) = [heap |-> g, block |-> h.current]
        BY <1>3, Zenon DEF Align
    <2>2. Align(h).heap = g /\ Align(h).block = h.current
        BY <2>1
    <2>3. 1 <= Len(h.list) /\ 1 \in 1..Len(h.list) /\ Padding(h) - 2 * Header \in Nat
        BY <1>1, PaddingFacts
    <2>4. /\ Good(g)
          /\ h.current \notin DOMAIN h.size
          /\ DOMAIN g.size = DOMAIN h.size \cup {h.current}
          /\ g.free = h.free
        BY <2>3, GetFacts
    <2>5. Keeps(h, g)
        BY <2>3, GetKeeps
    <2> HIDE DEF g
    <2> QED BY <1>1, <2>2, <2>4, <2>5
<1> QED BY <1>2, <1>3

\* The release of the padding touches nothing else.
LEMMA UnpadFacts ==
    ASSUME NEW h, NEW g, Good(g), Keeps(h, g),
           NEW b, b = None \/ (b \in DOMAIN g.size /\ b \notin DOMAIN h.size)
    PROVE  /\ Good(Unpad(g, b))
           /\ Keeps(h, Unpad(g, b))
           /\ Unpad(g, b).size = g.size
           /\ Unpad(g, b).free \subseteq g.free \cup {b}
<1>1. CASE b = None
    <2>1. Unpad(g, b) = g
        BY <1>1, Zenon DEF Unpad
    <2> QED BY <2>1
<1>2. CASE b # None
    <2>1. Unpad(g, b) = Free(g, b) /\ b \in DOMAIN g.size /\ b \notin DOMAIN h.size
        BY <1>2, Zenon DEF Unpad
    <2>2. /\ Good(Free(g, b))
          /\ Free(g, b).size = g.size /\ Free(g, b).list = g.list
          /\ Free(g, b).free = g.free \cup {b}
        BY <2>1, FreeFacts
    <2>3. Keeps(h, Free(g, b))
        BY <2>1, <2>2 DEF Keeps
    <2> QED BY <2>1, <2>2, <2>3
<1> QED BY <1>1, <1>2

\* virt_mm_addr_create returns a block that nobody has.
LEMMA AddrCreateFacts ==
    ASSUME NEW h, Good(h), Len(h.list) > 1
    PROVE  /\ Good(AddrCreate(h).heap)
           /\ Keeps(h, AddrCreate(h).heap)
           /\ AddrCreate(h).block \in DOMAIN AddrCreate(h).heap.size
           /\ AddrCreate(h).block \notin AddrCreate(h).heap.free
           /\ AddrCreate(h).block \in DOMAIN h.size => AddrCreate(h).block \in h.free
<1> DEFINE pad == Align(h)
           dir == Malloc(pad.heap, Page)
           g == Unpad(dir.heap, pad.block)
<1>1. AddrCreate(h) = [heap |-> g, block |-> dir.block]
    BY Zenon DEF AddrCreate
<1>2. AddrCreate(h).heap = g /\ AddrCreate(h).block = dir.block
    BY <1>1
<1>3. /\ Good(pad.heap) /\ Keeps(h, pad.heap)
      /\ \/ pad.block = None
         \/ /\ pad.block \in DOMAIN pad.heap.size
            /\ pad.block \notin DOMAIN h.size
            /\ pad.block \notin pad.heap.free
    BY AlignFacts
<1> HIDE DEF pad
<1>4. /\ Good(dir.heap) /\ Keeps(pad.heap, dir.heap)
      /\ dir.block \in DOMAIN dir.heap.size
      /\ dir.block \notin dir.heap.free
      /\ dir.block \in DOMAIN pad.heap.size => dir.block \in pad.heap.free
    BY <1>3, HeapAssumption, MallocFacts
<1> HIDE DEF dir
<1>5. Keeps(h, dir.heap)
    BY <1>3, <1>4, KeepsTransitive
<1>6. pad.block = None \/ (pad.block \in DOMAIN dir.heap.size /\ pad.block \notin DOMAIN h.size)
    BY <1>3, <1>4, Zenon DEF Keeps
<1>7. /\ Good(g) /\ Keeps(h, g)
      /\ g.size = dir.heap.size
      /\ g.free \subseteq dir.heap.free \cup {pad.block}
    BY <1>4, <1>5, <1>6, UnpadFacts
<1>8. dir.block # pad.block
    <2>1. None \notin DOMAIN dir.heap.size
        BY <1>4 DEF Good, Typed, None
    <2> QED BY <1>3, <1>4, <2>1, Zenon
<1>9. dir.block \in DOMAIN h.size => dir.block \in h.free
    BY <1>3, <1>4, Zenon DEF Keeps
<1> HIDE DEF g
<1> QED BY <1>2, <1>4, <1>7, <1>8, <1>9

-----------------------------------------------------------------------------
(* The inductive invariant                                                 *)

\* Callers have blocks that are not free.
OwnedInv ==
    /\ owned \subseteq DOMAIN heap.size
    /\ owned \cap heap.free = {}
    /\ dirs \subseteq owned

OtherInv ==
    /\ window \in [start : Nat, pages : Nat]
    /\ phase \in {"boot", "run", "halted"}
    /\ phase = "run" => Len(heap.list) > 1

\* The first block is nobody's to free, and directories are aligned as long as
\* the system runs.
FirstInv ==
    IF Len(heap.list) = 0 THEN heap.current = 0
                          ELSE heap.list[1] = 0 /\ 0 \in owned

AlignedInv ==
    /\ phase = "boot" => dirs = {}
    /\ phase # "halted" => \A d \in dirs : Aligned(d)

IInv == Good(heap) /\ OwnedInv /\ OtherInv /\ FirstInv /\ AlignedInv

\* The invariant implies what the runs check.
LEMMA IInvImplies ==
    ASSUME IInv
    PROVE  TypeOK /\ Tiled /\ Backed /\ InUse
<1>1. TypeOK
    BY DEF IInv, Good, Typed, OwnedInv, OtherInv, TypeOK
<1>2. Tiled
    BY Zenon DEF IInv, Good, Apart, Adjacent, Tiled
<1>3. Backed
    BY Zenon DEF IInv, Good, Paged, Backed
<1>4. InUse
    BY Zenon DEF IInv, Good, Ascending, OwnedInv, InUse
<1> QED BY <1>1, <1>2, <1>3, <1>4

\* A call that keeps the blocks of the heap and hands one out keeps OwnedInv.
LEMMA HandedOut ==
    ASSUME OwnedInv, Good(heap), NEW g, Keeps(heap, g), heap' = g,
           NEW b \in DOMAIN g.size, b \notin g.free,
           owned' = owned \cup {b},
           dirs' = dirs \/ dirs' = dirs \cup {b}
    PROVE  OwnedInv'
<1>1. owned' \subseteq DOMAIN heap'.size
    BY DEF OwnedInv, Keeps
<1>2. owned' \cap heap'.free = {}
    <2>1. \A a \in owned : a \notin g.free
        BY Zenon DEF OwnedInv, Keeps
    <2> QED BY <2>1
<1>3. dirs' \subseteq owned'
    BY DEF OwnedInv
<1> QED BY <1>1, <1>2, <1>3 DEF OwnedInv

\* So does the first block.
LEMMA FirstKept ==
    ASSUME FirstInv, Good(heap), NEW g, Good(g), Keeps(heap, g), heap' = g,
           Len(heap.list) > 0, 0 \in owned => 0 \in owned'
    PROVE  FirstInv'
<1>1. heap.list[1] = 0 /\ 0 \in owned
    BY DEF FirstInv
<1>2. Len(g.list) > 0 /\ g.list[1] = heap.list[1]
    BY DEF Keeps
<1> QED BY <1>1, <1>2 DEF FirstInv

LEMMA InitIInv == Init => IInv
<1> SUFFICES ASSUME Init PROVE IInv
    OBVIOUS
<1>1. /\ heap = [current |-> 0, remaining |-> 0, pages |-> 0, frames |-> 0,
                 size |-> << >>, free |-> {}, list |-> << >>]
      /\ owned = {} /\ dirs = {} /\ window = [start |-> 0, pages |-> 0] /\ phase = "boot"
    BY DEF Init
<1>2. DOMAIN << >> = {}
    OBVIOUS
<1>3. << >> = [b \in {} |-> << >>[b]]
    OBVIOUS
<1>4. << >> \in Seq({}) /\ Len(<< >>) = 0
    BY EmptySeq
<1>5. Shape(heap)
    BY <1>1, <1>2, <1>3 DEF Shape
<1>6. Typed(heap)
    BY <1>1, <1>2, <1>4 DEF Typed
<1>7. Apart(heap) /\ Adjacent(heap) /\ Below(heap)
    BY <1>1, <1>2 DEF Apart, Adjacent, Below
<1>8. Paged(heap)
    <2>1. Page \in Nat /\ 0 < Page
        BY HeapAssumption
    <2> QED BY <1>1, <2>1 DEF Paged
<1>9. Ascending(heap.list)
    BY <1>1, <1>4 DEF Ascending
<1>10. Good(heap)
    BY <1>5, <1>6, <1>7, <1>8, <1>9 DEF Good
<1>11. OwnedInv /\ OtherInv /\ FirstInv /\ AlignedInv
    BY <1>1, <1>4 DEF OwnedInv, OtherInv, FirstInv, AlignedInv
<1> QED BY <1>10, <1>11 DEF IInv

LEMMA AllocIInv ==
    ASSUME IInv, NEW n \in Size, Alloc(n)
    PROVE  IInv'
<1> DEFINE m == Malloc(heap, n)
<1>1. /\ heap' = m.heap
      /\ owned' = owned \cup {m.block}
      /\ dirs' = dirs /\ window' = window /\ phase' = phase
    BY Zenon DEF Alloc
<1>2. n \in Nat /\ Good(heap) /\ OwnedInv
    BY HeapAssumption DEF IInv
<1>3. /\ Good(m.heap) /\ Keeps(heap, m.heap)
      /\ m.block \in DOMAIN m.heap.size /\ m.block \notin m.heap.free
    BY <1>2, MallocFacts
<1>4. FirstInv'
    <2>1. CASE Len(heap.list) > 0
        <3> HIDE DEF m
        <3> QED BY <1>1, <1>2, <1>3, <2>1, FirstKept DEF IInv
    <2>2. CASE Len(heap.list) = 0
        <3>1. Fitting(heap, n) = {}
            BY <2>2 DEF Fitting
        <3>2. m = [heap |-> Get(heap, 0, n), block |-> heap.current]
            BY <2>2, <3>1, Zenon DEF Malloc
        <3>3. heap.current = 0
            BY <2>2 DEF IInv, FirstInv
        <3>4. IsCut(Get(heap, 0, n).list, heap.list, 0, heap.current)
            <4>1. 0 \in Nat /\ 0 <= Len(heap.list)
                BY <2>2
            <4> QED BY <1>2, <4>1, GetFacts
        <3>5. Len(heap'.list) = 1 /\ heap'.list[1] = 0
            BY <1>1, <3>2, <3>3, <3>4 DEF IsCut
        <3>6. 0 \in owned'
            BY <1>1, <3>2, <3>3
        <3> QED BY <3>5, <3>6 DEF FirstInv
    <2>3. Len(heap.list) \in Nat
        BY <1>2, LenProperties DEF Good, Typed
    <2> QED BY <2>1, <2>2, <2>3
<1> HIDE DEF m
<1>5. OwnedInv'
    BY <1>1, <1>2, <1>3, HandedOut
<1>6. OtherInv'
    BY <1>1, <1>3 DEF IInv, OtherInv, Keeps
<1>7. AlignedInv'
    BY <1>1 DEF IInv, AlignedInv
<1> QED BY <1>1, <1>3, <1>4, <1>5, <1>6, <1>7, Zenon DEF IInv

LEMMA ReleaseIInv ==
    ASSUME IInv, NEW b \in owned, Release(b)
    PROVE  IInv'
<1>1. /\ heap' = Free(heap, b)
      /\ owned' = owned \ {b} /\ b \notin dirs /\ b # 0
      /\ dirs' = dirs /\ window' = window /\ phase' = phase
    BY DEF Release
<1>2. /\ Good(Free(heap, b))
      /\ Free(heap, b).size = heap.size
      /\ Free(heap, b).list = heap.list
      /\ Free(heap, b).free = heap.free \cup {b}
    <2>1. b \in DOMAIN heap.size /\ Good(heap)
        BY DEF IInv, OwnedInv
    <2> QED BY <2>1, FreeFacts
<1>3. OwnedInv'
    BY <1>1, <1>2 DEF IInv, OwnedInv
<1>4. OtherInv'
    BY <1>1, <1>2 DEF IInv, OtherInv
<1>5. AlignedInv'
    BY <1>1 DEF IInv, AlignedInv
<1>6. FirstInv'
    <2>1. Len(heap.list) > 0
        BY DEF Release, IInv, OtherInv
    <2>2. heap.list[1] = 0 /\ 0 \in owned
        BY <2>1 DEF IInv, FirstInv
    <2> QED BY <1>1, <1>2, <2>1, <2>2 DEF FirstInv
<1> QED BY <1>1, <1>2, <1>3, <1>4, <1>5, <1>6, Zenon DEF IInv

LEMMA LoadIInv ==
    ASSUME IInv, Load
    PROVE  IInv'
<1> DEFINE c == AddrCreate(heap)
<1>1. /\ Len(heap.list) > 1
      /\ heap' = c.heap
      /\ owned' = owned \cup {c.block}
      /\ dirs' = dirs \cup {c.block}
      /\ window' = window
      /\ phase = "boot"
      /\ phase' = IF Aligned(c.block) THEN "run" ELSE "halted"
    BY DEF Load
<1>2. Good(heap) /\ OwnedInv
    BY DEF IInv
<1>3. /\ Good(c.heap) /\ Keeps(heap, c.heap)
      /\ c.block \in DOMAIN c.heap.size /\ c.block \notin c.heap.free
    BY <1>1, <1>2, AddrCreateFacts
<1> HIDE DEF c
<1>4. OwnedInv'
    BY <1>1, <1>2, <1>3, HandedOut
<1>5. OtherInv'
    BY <1>1, <1>3 DEF IInv, OtherInv, Keeps
<1>6. FirstInv'
    BY <1>1, <1>2, <1>3, FirstKept DEF IInv
<1>7. AlignedInv'
    BY <1>1 DEF IInv, AlignedInv
<1> QED BY <1>1, <1>3, <1>4, <1>5, <1>6, <1>7, Zenon DEF IInv

LEMMA ForkDirIInv ==
    ASSUME IInv, ForkDir
    PROVE  IInv'
<1> DEFINE c == AddrCreate(heap)
           pad == Align(c.heap)
           g == Unpad(pad.heap, pad.block)
<1>1. /\ phase = "run"
      /\ heap' = g
      /\ owned' = owned \cup {c.block}
      /\ dirs' = dirs \cup {c.block}
      /\ window' = [start |-> pad.heap.current, pages |-> pad.heap.pages]
      /\ phase' = IF pad.heap.current % Page = 0 /\ Aligned(c.block)
                  THEN "run" ELSE "halted"
    BY DEF ForkDir
<1>2. Good(heap) /\ OwnedInv /\ Len(heap.list) > 1
    BY <1>1 DEF IInv, OtherInv
<1>3. /\ Good(c.heap) /\ Keeps(heap, c.heap)
      /\ c.block \in DOMAIN c.heap.size /\ c.block \notin c.heap.free
    BY <1>2, AddrCreateFacts
<1> HIDE DEF c
<1>4. Len(c.heap.list) > 1
    BY <1>2, <1>3, Zenon DEF Keeps
<1>5. /\ Good(pad.heap) /\ Keeps(c.heap, pad.heap)
      /\ \/ pad.block = None
         \/ /\ pad.block \in DOMAIN pad.heap.size
            /\ pad.block \notin DOMAIN c.heap.size
    BY <1>3, <1>4, AlignFacts
<1> HIDE DEF pad
<1>6. /\ Good(g) /\ Keeps(c.heap, g)
    BY <1>5, UnpadFacts
<1> HIDE DEF g
<1>7. Keeps(heap, g)
    BY <1>3, <1>6, KeepsTransitive
<1>8. c.block \in DOMAIN g.size /\ c.block \notin g.free
    BY <1>3, <1>6, Zenon DEF Keeps
<1>9. OwnedInv'
    BY <1>1, <1>2, <1>7, <1>8, HandedOut
<1>10. window' \in [start : Nat, pages : Nat]
    BY <1>1, <1>5 DEF Good, Typed
<1>11. OtherInv'
    BY <1>1, <1>2, <1>7, <1>10 DEF OtherInv, Keeps
<1>12. FirstInv'
    BY <1>1, <1>2, <1>6, <1>7, FirstKept DEF IInv
<1>13. AlignedInv'
    BY <1>1 DEF IInv, AlignedInv
<1> QED BY <1>1, <1>6, <1>9, <1>11, <1>12, <1>13, Zenon DEF IInv

LEMMA NextIInv == IInv /\ [Next]_vars => IInv'
<1> SUFFICES ASSUME IInv, [Next]_vars PROVE IInv'
    OBVIOUS
<1>1. ASSUME NEW n \in Size, Alloc(n) PROVE IInv'
    BY <1>1, AllocIInv
<1>2. ASSUME NEW b \in owned, Release(b) PROVE IInv'
    BY <1>2, ReleaseIInv
<1>3. CASE Load
    BY <1>3, LoadIInv
<1>4. CASE ForkDir
    BY <1>4, ForkDirIInv
<1>5. CASE UNCHANGED vars
    <2>1. heap' = heap /\ owned' = owned /\ dirs' = dirs /\ window' = window /\ phase' = phase
        BY <1>5 DEF vars
    <2> QED BY <2>1 DEF IInv, OwnedInv, OtherInv, FirstInv, AlignedInv
<1>6. CASE Stopped
    BY <1>5, <1>6 DEF Stopped
<1> QED BY <1>1, <1>2, <1>3, <1>4, <1>5, <1>6 DEF Next

-----------------------------------------------------------------------------
\* IInv holds in every state of the kernel heap.
THEOREM IInvInvariant == Spec => []IInv
  BY InitIInv, NextIInv, PTL DEF Spec

\* Every variable keeps its type: malloc_remaining and the sizes of the rests
\* of split blocks and of paddings never fall below zero, where they would wrap.
THEOREM HeapTypes == Spec => []TypeOK
<1>1. IInv => TypeOK
    BY IInvImplies
<1> QED BY <1>1, IInvInvariant, PTL

\* The blocks of malloc, malloc_get and malloc_align tile the heap: no two
\* overlap, and nothing below the break is in none.
THEOREM BlocksTileTheHeap == Spec => []Tiled
<1>1. IInv => Tiled
    BY IInvImplies
<1> QED BY <1>1, IInvInvariant, PTL

\* malloc_sbrk asks for exactly the frames that the pages it maps need.
THEOREM HeapIsBacked == Spec => []Backed
<1>1. IInv => Backed
    BY IInvImplies
<1> QED BY <1>1, IInvInvariant, PTL

\* malloc hands out no block that a caller has, and its list stays in the order
\* of the addresses although malloc_align cuts it.
THEOREM NoBlockInUseIsFree == Spec => []InUse
<1>1. IInv => InUse
    BY IInvImplies
<1> QED BY <1>1, IInvInvariant, PTL

-----------------------------------------------------------------------------
(* Alignment                                                               *)

\* Between the padding and the directory nothing fits: the list is the first
\* block, which is in use, and the padding.  So the directory follows the
\* padding, and fills the page that begins there.
LEMMA PaddedCreate ==
    ASSUME IInv, Len(heap.list) > 1, heap.current % Page # 0
    PROVE  /\ Aligned(AddrCreate(heap).block)
           /\ \E k \in Nat : AddrCreate(heap).heap.current = k * Page
<1> DEFINE g == Get(heap, 1, Padding(heap) - 2 * Header)
           d == Get(g, Len(g.list), Page)
<1>1. /\ Good(heap) /\ heap.current \in Nat
      /\ Header \in Nat \ {0} /\ Page \in Nat \ {0}
      /\ heap.free \subseteq DOMAIN heap.size
    <2>1. Good(heap)
        BY DEF IInv
    <2>2. heap.current \in Nat /\ heap.free \subseteq DOMAIN heap.size
        BY <2>1, Zenon DEF Good, Typed
    <2> QED BY <2>1, <2>2, HeapAssumption
<1>2. /\ Len(heap.list) \in Nat
      /\ 1 <= Len(heap.list) /\ Padding(heap) - 2 * Header \in Nat
    <2>1. heap.list \in Seq(DOMAIN heap.size)
        BY <1>1, Zenon DEF Good, Typed
    <2>2. Len(heap.list) \in Nat
        BY <2>1
    <2>3. Padding(heap) - 2 * Header \in Nat
        BY <1>1, PaddingFacts, Zenon
    <2> QED BY <2>2, <2>3
<1>3. Align(heap) = [heap |-> g, block |-> heap.current]
    BY Zenon DEF Align
<1>4. /\ Good(g)
      /\ heap.current \notin DOMAIN heap.size
      /\ g.free = heap.free
      /\ Moved(heap, g, Padding(heap) - 2 * Header)
      /\ IsCut(g.list, heap.list, 1, heap.current)
    BY <1>1, <1>2, GetFacts
<1> HIDE DEF g
<1>5. Len(g.list) = 2 /\ g.list[1] = heap.list[1] /\ g.list[2] = heap.current
    BY <1>4 DEF IsCut
<1>6. Fitting(g, Page) = {}
    <2>1. heap.list[1] \in owned /\ heap.list[1] \notin heap.free
        BY DEF IInv, FirstInv, OwnedInv
    <2>2. heap.current \notin heap.free
        BY <1>1, <1>4
    <2>3. \A i \in 1..Len(g.list) : i = 1 \/ i = 2
        BY <1>5
    <2>4. \A i \in 1..Len(g.list) : g.list[i] \notin g.free
        BY <1>4, <1>5, <2>1, <2>2, <2>3
    <2> QED BY <2>4 DEF Fitting
<1>7. Malloc(g, Page) = [heap |-> d, block |-> g.current]
    BY <1>6, Zenon DEF Malloc
<1>8. d.current = g.current + (Page + Header)
    <2>1. Len(g.list) \in Nat /\ Len(g.list) <= Len(g.list)
        BY <1>5
    <2>2. Moved(g, d, Page)
        BY <1>1, <1>4, <2>1, GetFacts
    <2> QED BY <2>2 DEF Moved
<1> HIDE DEF d
<1>9. /\ AddrCreate(heap).block = g.current
      /\ AddrCreate(heap).heap = Unpad(d, heap.current)
    BY <1>3, <1>7 DEF AddrCreate
<1>10. Unpad(d, heap.current).current = d.current
    <2>1. heap.current # None
        BY <1>1 DEF None
    <2>2. Unpad(d, heap.current) = [d EXCEPT !.free = @ \cup {heap.current}]
        BY <2>1 DEF Unpad, Free
    <2>3. Shape(d)
        <3>1. Len(g.list) \in Nat /\ Len(g.list) <= Len(g.list)
            BY <1>5
        <3> QED BY <1>1, <1>4, <3>1, GetFacts DEF Good, d
    <2> QED BY <2>2, <2>3 DEF Shape
<1>11. PICK k \in Nat : heap.current + Padding(heap) = k * Page
    BY <1>1, PaddingEnds
<1> DEFINE p == Padding(heap)
           page == k * Page
<1>12. p - 2 * Header \in Nat /\ p \in Int
    <2>1. p - 2 * Header \in Nat
        BY <1>2
    <2>2. p \in Int
        <3>1. Padding(heap) = IF CeilDiv(heap.current, Page) * Page - heap.current > 2 * Header
                              THEN CeilDiv(heap.current, Page) * Page - heap.current
                              ELSE CeilDiv(heap.current, Page) * Page - heap.current + Page
            BY Zenon DEF Padding
        <3>2. CeilDiv(heap.current, Page) \in Nat
            BY <1>1, CeilFacts
        <3> QED BY <1>1, <3>1, <3>2
    <2> QED BY <2>1, <2>2
<1>13. page \in Nat /\ (k + 1) * Page = page + Page /\ page % Page = 0
    BY <1>1, TimesSuccessor, TimesMod
<1>14. heap.current + p = page
    BY <1>11
<1> HIDE DEF p, page
<1>15. g.current + Header = page /\ d.current = page + Page
    <2>1. g.current = heap.current + (p - 2 * Header + Header)
        BY <1>4 DEF Moved, p
    <2> QED BY <1>1, <1>8, <1>12, <1>14, <2>1
<1>16. Aligned(g.current)
    BY <1>13, <1>15 DEF Aligned
<1>17. k + 1 \in Nat /\ d.current = (k + 1) * Page
    BY <1>13, <1>15
<1> QED BY <1>9, <1>10, <1>16, <1>17

\* Padding does what it is for: on it rest the directory that the processor
\* reads and the window that fork copies through.
THEOREM PaddingAligns == Spec => PaddedFork
<1>1. IInv /\ IInv' /\ [Next]_vars => [PaddedStep]_vars
    <2> SUFFICES ASSUME IInv, IInv', [Next]_vars, dirs' # dirs, heap.current % Page # 0
                 PROVE  /\ phase' = "run"
                        /\ \A d \in dirs' : Aligned(d)
                        /\ window' # window => window'.start = window'.pages * Page
        BY DEF PaddedStep
    <2> DEFINE c == AddrCreate(heap)
    <2>1. Load \/ ForkDir
        BY DEF Next, Alloc, Release, Stopped, vars
    <2>2. Len(heap.list) > 1
        BY <2>1 DEF Load, ForkDir, IInv, OtherInv
    <2>3. Aligned(c.block) /\ \E k \in Nat : c.heap.current = k * Page
        BY <2>2, PaddedCreate
    <2>4. Page \in Nat \ {0}
        BY HeapAssumption
    <2>5. c.heap.current % Page = 0
        BY <2>3, <2>4, TimesMod
    <2>6. Good(c.heap)
        BY <2>2, AddrCreateFacts DEF IInv
    <2>7. Align(c.heap).heap = c.heap
        BY <2>5 DEF Align
    <2> HIDE DEF c
    <2>8. CASE Load
        <3>1. phase' = "run" /\ window' = window
            BY <2>3, <2>8 DEF Load, c
        <3> QED BY <3>1 DEF IInv, AlignedInv
    <2>9. CASE ForkDir
        <3>1. /\ phase' = "run"
              /\ window' = [start |-> c.heap.current, pages |-> c.heap.pages]
            BY <2>3, <2>5, <2>7, <2>9 DEF ForkDir, c
        <3>2. c.heap.current = c.heap.pages * Page
            BY <2>3, <2>6, PagesEnd
        <3> QED BY <3>1, <3>2 DEF IInv, AlignedInv
    <2> QED BY <2>1, <2>8, <2>9
<1> QED BY <1>1, IInvInvariant, PTL DEF Spec, PaddedFork
-----------------------------------------------------------------------------
(* The frames.  phys_mm_block_alloc and phys_mm_block_n_alloc give the heap *)
(* its pages (PhysMem, here with variables of its own).  Everything follows *)
(* from one fact: as no frame is ever returned, the bits that are set are   *)
(* the first Taken ones, so the first place that fits starts at Taken, and  *)
(* the test of the count keeps its end below the number of available ones.  *)

\* The inductive invariant.  The blocks lie one behind the other, below Taken.
Ahead(i) == IF i <= 2 THEN Reserved ELSE Mapped

FramesBooted ==
    /\ boot = "reset" => bits = {} /\ blocks = << >> /\ used = 0
    /\ boot = "dir" => Taken = Reserved /\ Len(blocks) = 0
    /\ boot = "table" => Taken = Reserved + 1 /\ Len(blocks) = 1
    /\ boot = "identity" => Taken = Reserved + 2 /\ Len(blocks) = 2
    /\ boot = "run" => Mapped <= Taken /\ Len(blocks) >= 2

FramesStacked ==
    /\ \A i \in 1..Len(blocks) :
          /\ Ahead(i) <= blocks[i].first
          /\ blocks[i].first + blocks[i].len <= Taken
    /\ \A i, j \in 1..Len(blocks) :
          i < j => blocks[i].first + blocks[i].len <= blocks[j].first

FrameInv ==
    /\ PhysTypeOK
    /\ FramesBooted
    /\ CountedPrefix
    /\ FramesStacked
    /\ Taken <= machine.available

-----------------------------------------------------------------------------
\* A block that was handed out has a first frame and a length.
LEMMA BlockFields ==
    ASSUME blocks \in Seq(Block), NEW i \in 1..Len(blocks)
    PROVE  blocks[i].first \in Nat /\ blocks[i].len \in Nat
  <1>1. blocks[i] \in Block
    OBVIOUS
  <1> QED
    BY <1>1 DEF Block

\* What the code's constants come to, for the machine at hand.
LEMMA MachineFacts ==
    ASSUME PhysTypeOK
    PROVE  /\ machine.max \in Nat /\ machine.available \in Nat
           /\ Mapped <= machine.available
           /\ machine.available <= machine.max + Reserved
           /\ Mapped <= Limit(machine.max)
           /\ Limit(machine.max) \in Int
           /\ Taken \in Int
  <1>1. machine \in Machine
    BY DEF PhysTypeOK
  <1>2. machine \in [max : Nat, available : Nat]
    BY <1>1, PhysMemAssumption
  <1>3. machine.max \in Nat /\ machine.available \in Nat
    BY <1>2
  <1>4. Mapped <= Limit(machine.max) /\ Mapped <= machine.available
        /\ machine.available <= machine.max + Reserved
    BY <1>1, PhysMemAssumption
  <1>5. Limit(machine.max) \in Int
    BY <1>3, PhysMemAssumption DEF Limit
  <1>6. Taken \in Int
    BY <1>3 DEF Taken, PhysTypeOK
  <1> QED
    BY <1>3, <1>4, <1>5, <1>6

\* The first place that fits is the end of the prefix, and the block that is
\* taken there makes the prefix longer by its length.
LEMMA TakeFacts ==
    ASSUME FrameInv, boot # "reset", NEW len \in Nat \ {0}, Take(len)
    PROVE  /\ bits' = 0..(Taken + len - 1)
           /\ used' = used + len
           /\ blocks' = Append(blocks, [first |-> Taken, len |-> len])
           /\ Taken \in Nat
  <1>1. Taken \in Int /\ Limit(machine.max) \in Int
    BY MachineFacts DEF FrameInv
  <1>2. bits = 0..(Taken - 1)
    BY DEF FrameInv, CountedPrefix
  <1>3. PICK b \in 0..(Limit(machine.max) - 1) :
            /\ Fits(b, len)
            /\ \A c \in 0..(b - 1) : ~Fits(c, len)
            /\ bits' = bits \cup Marked(b, len)
            /\ used' = used + len
            /\ blocks' = Append(blocks, [first |-> b, len |-> len])
    BY DEF Take
  <1>4. b \in Nat /\ b < Limit(machine.max) /\ b >= Taken
    <2>1. b \notin bits
      BY <1>3 DEF Fits
    <2> QED
      BY <2>1, <1>1, <1>2
  <1>5. Taken \in Nat
    BY <1>1, PhysMemAssumption DEF FrameInv, FramesBooted, PhysTypeOK, Phase
  <1>6. Taken \in 0..(Limit(machine.max) - 1)
    BY <1>1, <1>4, <1>5
  <1>7. Fits(Taken, len)
    <2>1. Taken \notin bits
      BY <1>2, <1>5
    <2>2. (Taken..(Taken + len)) \cap bits = {}
      BY <1>2, <1>5
    <2> QED
      BY <2>1, <2>2, <1>6 DEF Fits
  <1>8. b = Taken
    BY <1>3, <1>4, <1>5, <1>7
  <1>9. bits' = 0..(Taken + len - 1)
    BY <1>2, <1>3, <1>5, <1>8 DEF Marked
  <1> QED
    BY <1>3, <1>5, <1>8, <1>9

\* One more block at the end of the stack.
LEMMA StackFacts ==
    ASSUME FrameInv, boot # "reset", NEW len \in Nat \ {0}, Take(len), machine' = machine,
           len <= machine.available - Taken,
           Ahead(Len(blocks) + 1) <= Taken
    PROVE  /\ Taken' = Taken + len
           /\ FramesStacked'
           /\ Taken' <= machine'.available
           /\ CountedPrefix'
           /\ blocks' \in Seq(Block) /\ Len(blocks') = Len(blocks) + 1
           /\ used' \in Nat /\ bits' \in SUBSET Nat
  <1>1. /\ Taken \in Nat /\ used \in Nat /\ blocks \in Seq(Block)
        /\ machine.max \in Nat /\ machine.available \in Nat
    BY MachineFacts, TakeFacts DEF FrameInv, PhysTypeOK
  <1>2. /\ bits' = 0..(Taken + len - 1)
        /\ used' = used + len
        /\ blocks' = Append(blocks, [first |-> Taken, len |-> len])
    BY TakeFacts
  <1>3. Taken' = Taken + len
    BY <1>1, <1>2 DEF Taken
  <1>4. [first |-> Taken, len |-> len] \in Block
    BY <1>1 DEF Block
  <1>5. /\ blocks' \in Seq(Block)
        /\ Len(blocks') = Len(blocks) + 1
        /\ \A i \in 1..Len(blocks) : blocks'[i] = blocks[i]
        /\ blocks'[Len(blocks) + 1] = [first |-> Taken, len |-> len]
    BY <1>1, <1>2, <1>4
  <1>6. Len(blocks) \in Nat
    BY <1>1
  <1>7. \A i \in 1..Len(blocks) : blocks[i].first \in Nat /\ blocks[i].len \in Nat
    BY <1>1, BlockFields
  <1>8. FramesStacked
    BY DEF FrameInv
  <1>9. FramesStacked'
    <2>1. ASSUME NEW i \in 1..Len(blocks')
          PROVE  /\ Ahead(i) <= blocks'[i].first
                 /\ blocks'[i].first + blocks'[i].len <= Taken'
      <3>1. CASE i = Len(blocks) + 1
        BY <3>1, <1>1, <1>3, <1>5
      <3>2. CASE i \in 1..Len(blocks)
        <4>1. /\ Ahead(i) <= blocks[i].first
              /\ blocks[i].first + blocks[i].len <= Taken
          BY <3>2, <1>8 DEF FramesStacked
        <4> QED
          BY <4>1, <3>2, <1>1, <1>3, <1>5, <1>7
      <3> QED
        BY <3>1, <3>2, <1>5, <1>6
    <2>2. ASSUME NEW i \in 1..Len(blocks'), NEW j \in 1..Len(blocks'), i < j
          PROVE  blocks'[i].first + blocks'[i].len <= blocks'[j].first
      <3>0. i \in 1..Len(blocks)
        BY <2>2, <1>5, <1>6
      <3>1. CASE j = Len(blocks) + 1
        BY <3>0, <3>1, <1>5, <1>8 DEF FramesStacked
      <3>2. CASE j \in 1..Len(blocks)
        BY <3>0, <3>2, <2>2, <1>5, <1>8 DEF FramesStacked
      <3> QED
        BY <3>1, <3>2, <1>5, <1>6
    <2> QED
      BY <2>1, <2>2 DEF FramesStacked, Ahead
  <1>10. Taken' <= machine'.available
    BY <1>1, <1>3
  <1>11. CountedPrefix'
    BY <1>1, <1>2, <1>3 DEF CountedPrefix
  <1> QED
    BY <1>1, <1>2, <1>3, <1>5, <1>9, <1>10, <1>11

-----------------------------------------------------------------------------
\* The invariant holds before phys_mm_init.
LEMMA FrameInit == AtReset => FrameInv
  <1> SUFFICES ASSUME AtReset PROVE FrameInv
    OBVIOUS
  <1>1. PhysTypeOK
    <2>1. << >> \in Seq(Block) /\ {} \in SUBSET Nat
      OBVIOUS
    <2>2. "reset" \in Phase
      BY DEF Phase
    <2> QED
      BY <2>1, <2>2 DEF AtReset, PhysTypeOK
  <1>2. Taken <= machine.available
    BY <1>1, MachineFacts DEF AtReset, Taken
  <1> QED
    BY <1>1, <1>2 DEF AtReset, FrameInv, FramesBooted, CountedPrefix, FramesStacked

\* phys_mm_init: the kernel image is the whole prefix.
LEMMA PhysInitStep == FrameInv /\ PhysInit => FrameInv'
  <1> SUFFICES ASSUME FrameInv, PhysInit PROVE FrameInv'
    OBVIOUS
  <1>1. /\ machine.max \in Nat /\ machine.available \in Nat
        /\ Mapped <= machine.available
        /\ machine.available <= machine.max + Reserved
    BY MachineFacts DEF FrameInv
  <1>2. used' = machine.max - machine.available + Reserved /\ machine' = machine
    BY DEF PhysInit, AllUsed
  <1>3. Taken' = Reserved
    BY <1>1, <1>2, PhysMemAssumption DEF Taken
  <1>4. used' \in Nat
    BY <1>1, <1>2, PhysMemAssumption
  <1>5. blocks' = << >>
    BY DEF PhysInit, FrameInv, FramesBooted
  <1>6. bits' = 0..(Reserved - 1) /\ boot' = "dir" /\ halted' = halted
    BY DEF PhysInit
  <1>7. bits' \in SUBSET Nat
    BY <1>6, PhysMemAssumption
  <1>8. PhysTypeOK'
    BY <1>2, <1>4, <1>5, <1>6, <1>7 DEF FrameInv, PhysTypeOK, Phase
  <1>9. FramesBooted'
    BY <1>3, <1>5, <1>6 DEF FramesBooted
  <1>10. CountedPrefix'
    BY <1>3, <1>6 DEF CountedPrefix
  <1>11. FramesStacked'
    BY <1>5 DEF FramesStacked
  <1>12. Taken' <= machine'.available
    BY <1>1, <1>2, <1>3, PhysMemAssumption
  <1> QED
    BY <1>8, <1>9, <1>10, <1>11, <1>12 DEF FrameInv

\* virt_mm_init's two frames come from below the identity map.
LEMMA BootAllocStep == FrameInv /\ BootAlloc => FrameInv'
  <1> SUFFICES ASSUME FrameInv, BootAlloc PROVE FrameInv'
    OBVIOUS
  <1>1. /\ machine.available \in Nat /\ machine.max \in Nat /\ Taken \in Int
        /\ used \in Nat /\ Mapped <= machine.available
    BY MachineFacts DEF FrameInv, PhysTypeOK
  <1>2. boot # "reset" /\ Take(1) /\ machine' = machine /\ halted' = halted
    BY DEF BootAlloc
  <1>3. CASE boot = "dir"
    <2>1. Taken = Reserved /\ Len(blocks) = 0
      BY <1>3 DEF FrameInv, FramesBooted
    <2>2. 1 <= machine.available - Taken /\ Ahead(Len(blocks) + 1) <= Taken
      BY <2>1, <1>1, PhysMemAssumption DEF Ahead
    <2>3. /\ Taken' = Taken + 1 /\ FramesStacked' /\ Taken' <= machine'.available
          /\ CountedPrefix' /\ blocks' \in Seq(Block)
          /\ Len(blocks') = Len(blocks) + 1
          /\ used' \in Nat /\ bits' \in SUBSET Nat
      BY <1>2, <2>2, StackFacts
    <2>4. boot' = "table"
      BY <1>3 DEF BootAlloc
    <2>5. FramesBooted'
      BY <2>1, <2>3, <2>4 DEF FramesBooted
    <2>6. PhysTypeOK'
      BY <1>2, <2>3, <2>4 DEF FrameInv, PhysTypeOK, Phase
    <2> QED
      BY <2>3, <2>5, <2>6 DEF FrameInv
  <1>4. CASE boot = "table"
    <2>1. Taken = Reserved + 1 /\ Len(blocks) = 1
      BY <1>4 DEF FrameInv, FramesBooted
    <2>2. 1 <= machine.available - Taken /\ Ahead(Len(blocks) + 1) <= Taken
      BY <2>1, <1>1, PhysMemAssumption DEF Ahead
    <2>3. /\ Taken' = Taken + 1 /\ FramesStacked' /\ Taken' <= machine'.available
          /\ CountedPrefix' /\ blocks' \in Seq(Block)
          /\ Len(blocks') = Len(blocks) + 1
          /\ used' \in Nat /\ bits' \in SUBSET Nat
      BY <1>2, <2>2, StackFacts
    <2>4. boot' = "identity"
      BY <1>4 DEF BootAlloc
    <2>5. FramesBooted'
      BY <2>1, <2>3, <2>4, PhysMemAssumption DEF FramesBooted
    <2>6. PhysTypeOK'
      BY <1>2, <2>3, <2>4 DEF FrameInv, PhysTypeOK, Phase
    <2> QED
      BY <2>3, <2>5, <2>6 DEF FrameInv
  <1> QED
    BY <1>3, <1>4 DEF BootAlloc

\* virt_mm_map: phys_mm_addr_set counts the frames that were not set yet, and
\* makes the identity map the prefix.
LEMMA MapIdentityStep == FrameInv /\ MapIdentity => FrameInv'
  <1> SUFFICES ASSUME FrameInv, MapIdentity PROVE FrameInv'
    OBVIOUS
  <1>1. /\ machine.available \in Nat /\ machine.max \in Nat
        /\ used \in Nat /\ Mapped <= machine.available
    BY MachineFacts DEF FrameInv, PhysTypeOK
  <1>2. Taken = Reserved + 2 /\ Len(blocks) = 2 /\ bits = 0..(Taken - 1)
    BY DEF MapIdentity, FrameInv, FramesBooted, CountedPrefix
  <1>3. (0..(Mapped - 1)) \ bits = (Reserved + 2)..(Mapped - 1)
    BY <1>2, PhysMemAssumption
  <1>4. Cardinality((Reserved + 2)..(Mapped - 1)) = Mapped - (Reserved + 2)
    <2>1. Reserved + 2 \in Int /\ Mapped - 1 \in Int
      BY PhysMemAssumption
    <2>2. Cardinality((Reserved + 2)..(Mapped - 1)) =
             IF Reserved + 2 > Mapped - 1 THEN 0 ELSE Mapped - 1 - (Reserved + 2) + 1
      BY <2>1, FS_Interval
    <2> QED
      BY <2>2, PhysMemAssumption
  <1>5. used' = used + Mapped - (Reserved + 2)
    BY <1>1, <1>3, <1>4, PhysMemAssumption DEF MapIdentity, NewlySet
  <1>6. machine' = machine /\ blocks' = blocks /\ boot' = "run" /\ halted' = halted
    BY DEF MapIdentity
  <1>7. Taken' = Mapped
    <2>1. machine.available - (machine.max - used) = Reserved + 2
      BY <1>2 DEF Taken
    <2>2. Taken' = machine.available - (machine.max - used')
      BY <1>6, Zenon DEF Taken
    <2>3. Reserved \in Nat /\ Mapped \in Nat
      BY PhysMemAssumption
    <2> QED
      BY <1>1, <1>5, <2>1, <2>2, <2>3
  <1>8. bits' = 0..(Mapped - 1)
    BY <1>2, PhysMemAssumption DEF MapIdentity
  <1>9. PhysTypeOK'
    BY <1>1, <1>5, <1>6, <1>8, PhysMemAssumption DEF FrameInv, PhysTypeOK, Phase
  <1>10. FramesBooted'
    BY <1>2, <1>6, <1>7, PhysMemAssumption DEF FramesBooted
  <1>11. CountedPrefix'
    BY <1>7, <1>8 DEF CountedPrefix
  <1>12. FramesStacked'
    <2>1. blocks \in Seq(Block)
      BY DEF FrameInv, PhysTypeOK
    <2>2. \A i \in 1..Len(blocks) : blocks[i].first \in Nat /\ blocks[i].len \in Nat
      BY <2>1, BlockFields
    <2>3. ASSUME NEW i \in 1..Len(blocks)
          PROVE  blocks[i].first + blocks[i].len <= Taken'
      <3>1. blocks[i].first + blocks[i].len <= Taken
        BY DEF FrameInv, FramesStacked
      <3> QED
        BY <3>1, <2>2, <1>2, <1>7, PhysMemAssumption
    <2> QED
      BY <2>3, <1>6 DEF FrameInv, FramesStacked, Ahead
  <1>13. Taken' <= machine'.available
    BY <1>1, <1>6, <1>7
  <1> QED
    BY <1>9, <1>10, <1>11, <1>12, <1>13 DEF FrameInv

\* phys_mm_block_alloc and phys_mm_block_n_alloc: the count that is tested is
\* the room behind the prefix.
LEMMA AllocStep ==
    ASSUME FrameInv, NEW len \in 1..MaxLen, BlockAlloc(len) PROVE FrameInv'
  <1>1. /\ machine.available \in Nat /\ machine.max \in Nat
        /\ used \in Nat /\ Taken \in Int
    BY MachineFacts DEF FrameInv, PhysTypeOK
  <1>2. /\ boot = "run" /\ Take(len) /\ Enough(len)
        /\ machine' = machine /\ boot' = boot /\ halted' = halted
    BY DEF BlockAlloc, Running
  <1>3. Mapped <= Taken /\ Len(blocks) >= 2
    BY <1>2 DEF FrameInv, FramesBooted
  <1>4. len \in Nat \ {0}
    BY PhysMemAssumption
  <1>5. len <= machine.available - Taken
    BY <1>1, <1>2, <1>4 DEF Enough, Taken
  <1>6. Len(blocks) \in Nat
    BY DEF FrameInv, PhysTypeOK
  <1>7. Ahead(Len(blocks) + 1) <= Taken
    BY <1>3, <1>6 DEF Ahead
  <1>8. /\ Taken' = Taken + len /\ FramesStacked' /\ Taken' <= machine'.available
        /\ CountedPrefix' /\ blocks' \in Seq(Block)
        /\ Len(blocks') = Len(blocks) + 1
        /\ used' \in Nat /\ bits' \in SUBSET Nat
    BY <1>2, <1>4, <1>5, <1>7, StackFacts
  <1>9. FramesBooted'
    BY <1>1, <1>2, <1>3, <1>4, <1>6, <1>8, PhysMemAssumption DEF FramesBooted
  <1>10. PhysTypeOK'
    BY <1>2, <1>8 DEF FrameInv, PhysTypeOK
  <1> QED
    BY <1>8, <1>9, <1>10 DEF FrameInv

\* The other steps leave the allocator's data alone.
LEMMA QuietStep ==
    ASSUME FrameInv, UNCHANGED <<machine, bits, used, boot, blocks>>,
           halted' \in BOOLEAN
    PROVE  FrameInv'
  <1>1. Taken' = Taken
    BY DEF Taken
  <1>2. PhysTypeOK' /\ FramesBooted' /\ CountedPrefix' /\ Taken' <= machine'.available
    BY <1>1 DEF FrameInv, PhysTypeOK, FramesBooted, CountedPrefix
  <1>3. FramesStacked'
    BY <1>1 DEF FrameInv, FramesStacked, Ahead
  <1> QED
    BY <1>2, <1>3 DEF FrameInv

\* The invariant is inductive.
LEMMA FrameNext == FrameInv /\ [PhysNext]_physVars => FrameInv'
  <1> SUFFICES ASSUME FrameInv, [PhysNext]_physVars PROVE FrameInv'
    OBVIOUS
  <1>0. halted \in BOOLEAN
    BY DEF FrameInv, PhysTypeOK
  <1>1. CASE PhysInit
    BY <1>1, PhysInitStep
  <1>2. CASE BootAlloc
    BY <1>2, BootAllocStep
  <1>3. CASE MapIdentity
    BY <1>3, MapIdentityStep
  <1>4. ASSUME NEW len \in 1..MaxLen, BlockAlloc(len) PROVE FrameInv'
    BY <1>4, AllocStep
  <1>5. ASSUME NEW len \in 1..MaxLen, Refuse(len) PROVE FrameInv'
    BY <1>0, <1>5, QuietStep DEF Refuse, physVars
  <1>6. ASSUME NEW len \in 1..MaxLen, Overrun(len) PROVE FrameInv'
    BY <1>6, QuietStep DEF Overrun
  <1>7. CASE UNCHANGED physVars
    BY <1>0, <1>7, QuietStep DEF physVars
  <1> QED
    BY <1>1, <1>2, <1>3, <1>4, <1>5, <1>6, <1>7 DEF PhysNext, Panicked

-----------------------------------------------------------------------------
\* Each variable of the allocator keeps its type; in particular the counter
\* phys_mm_bitmap_used never falls below zero.
THEOREM FrameTypes == PhysSpec => []PhysTypeOK
  <1>1. FrameInv => PhysTypeOK
    BY DEF FrameInv
  <1> QED
    BY <1>1, FrameInit, FrameNext, PTL DEF PhysSpec

\* phys_mm_bitmap_used counts exactly the bits that are set, and these have no
\* holes, for every memory size and every sequence of requests.
THEOREM CounterIsExact == PhysSpec => []CountedPrefix
  <1>1. FrameInv => CountedPrefix
    BY DEF FrameInv
  <1> QED
    BY <1>1, FrameInit, FrameNext, PTL DEF PhysSpec

\* No frame is handed out twice, nor one of the kernel's.
THEOREM NoFrameIsShared == PhysSpec => []NoSharing
  <1>1. FrameInv => NoSharing
    <2> SUFFICES ASSUME FrameInv PROVE NoSharing
      OBVIOUS
    <2>1. \A i \in 1..Len(blocks) : blocks[i].first \in Nat /\ blocks[i].len \in Nat
      BY BlockFields DEF FrameInv, PhysTypeOK
    <2>2. Len(blocks) \in Nat
      BY DEF FrameInv, PhysTypeOK
    <2>3. ASSUME NEW i \in 1..Len(blocks), NEW j \in 1..Len(blocks), i # j
          PROVE  Frames(blocks[i]) \cap Frames(blocks[j]) = {}
      <3>1. CASE i < j
        <4>1. blocks[i].first + blocks[i].len <= blocks[j].first
          BY <3>1 DEF FrameInv, FramesStacked
        <4> QED
          BY <4>1, <2>1 DEF Frames
      <3>2. CASE j < i
        <4>1. blocks[j].first + blocks[j].len <= blocks[i].first
          BY <3>2 DEF FrameInv, FramesStacked
        <4> QED
          BY <4>1, <2>1 DEF Frames
      <3> QED
        BY <3>1, <3>2, <2>2, <2>3
    <2>4. ASSUME NEW i \in 1..Len(blocks)
          PROVE  Frames(blocks[i]) \cap 0..((IF i <= 2 THEN Reserved ELSE Mapped) - 1) = {}
      <3>1. Ahead(i) <= blocks[i].first
        BY DEF FrameInv, FramesStacked
      <3>2. CASE i <= 2
        BY <3>1, <3>2, <2>1, PhysMemAssumption DEF Frames, Ahead
      <3>3. CASE ~(i <= 2)
        BY <3>1, <3>3, <2>1, PhysMemAssumption DEF Frames, Ahead
      <3> QED
        BY <3>2, <3>3
    <2> QED
      BY <2>3, <2>4 DEF NoSharing
  <1> QED
    BY <1>1, FrameInit, FrameNext, PTL DEF PhysSpec

\* No block ends behind the available memory.
THEOREM BlocksAreInMemory == PhysSpec => []InMemory
  <1>1. FrameInv => InMemory
    <2> SUFFICES ASSUME FrameInv, NEW i \in 1..Len(blocks)
                 PROVE  blocks[i].first + blocks[i].len <= machine.available
      BY DEF InMemory
    <2>1. blocks[i].first \in Nat /\ blocks[i].len \in Nat
      BY BlockFields DEF FrameInv, PhysTypeOK
    <2>2. Taken \in Int /\ machine.available \in Nat
      BY MachineFacts DEF FrameInv
    <2>3. blocks[i].first + blocks[i].len <= Taken /\ Taken <= machine.available
      BY DEF FrameInv, FramesStacked
    <2> QED
      BY <2>1, <2>2, <2>3
  <1> QED
    BY <1>1, FrameInit, FrameNext, PTL DEF PhysSpec
=============================================================================
