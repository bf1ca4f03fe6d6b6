---------------------------- MODULE VeAlloc_proofs ----------------------------
(***************************************************************************)
(* What is proved of common/ve_alloc.c, for every page size, size of the   *)
(* reserved memory and sequence of calls: the list stays a row of whole    *)
(* pages over that memory without free neighbours (Inv), and from there    *)
(* that nothing is refused falsely, that the two translations undo each    *)
(* other, and that the blocks are what MemoryPool promises.                *)
(*                                                                         *)
(* The merging of ve_alloc_free is a fold over a list of any length; it is *)
(* followed entry by entry with an induction that rests on the order of    *)
(* the natural numbers being well founded (Smallest, Induction).  The last *)
(* part shows of the loops that do the merging (CoalesceWalk), whose       *)
(* cursors go through freed entries, which entry alone they may free twice *)
(* and that they leave the fold's list, whatever the length.               *)
(***************************************************************************)
EXTENDS VeAlloc, CoalesceWalk, SequenceTheorems, FiniteSetTheorems,
        WellFoundedInduction, TLAPS

-----------------------------------------------------------------------------
(* Induction, and what it says of the two folds.                           *)

\* A set of natural numbers has a smallest one.
LEMMA Smallest ==
  ASSUME NEW T, T \subseteq Nat, T # {}
  PROVE  \E x \in T : \A y \in T : x <= y
<1>1. PICK x \in T : \A y \in T : ~ (<<y, x>> \in OpToRel(<, Nat))
  BY NatLessThanWellFounded, WFMin, Zenon
<1>2. \A y \in T : ~ (y < x)
  BY <1>1, Zenon DEF OpToRel
<1> QED
  BY <1>2

\* Induction over the members of a set.
LEMMA Induction ==
  ASSUME NEW S, 0 \in S, \A n \in Nat : n \in S => n + 1 \in S
  PROVE  \A n \in Nat : n \in S
<1> DEFINE C == Nat \ S
<1>1. SUFFICES ASSUME C # {} PROVE FALSE
  OBVIOUS
<1>2. PICK x \in C : \A y \in C : x <= y
  BY <1>1, Smallest
<1>3. x - 1 \in Nat /\ x - 1 \in S
  BY <1>2
<1> QED
  BY <1>2, <1>3

\* The greatest number of 1 .. n and of what has n in it.
LEMMA MaxIsLast ==
  ASSUME NEW n \in Nat \ {0}, NEW s, s \subseteq 1 .. n, n \in s
  PROVE  Max(s) = n
<1>1. \A y \in s : n >= y
  OBVIOUS
<1>2. \A x \in s : (\A y \in s : x >= y) => x = n
  OBVIOUS
<1> QED
  BY <1>1, <1>2 DEF Max

\* The two operators that are folded: of Coalesce and of ListOf.
Step(kind, l, x) == IF kind = "merge" THEN Merge(l, x) ELSE list_add(l, x, x - 1)

\* g is the function by which a fold over the entries in S is defined.
IsFold(g, kind, base, lst, S) ==
  g = [s \in SUBSET S |->
         IF s = {} THEN base ELSE Step(kind, g[s \ {Max(s)}], lst[Max(s)])]

\* The recursive function behind a fold exists for every number of entries.
LEMMA FoldExists ==
  ASSUME NEW kind, NEW base, NEW lst
  PROVE  \A n \in Nat : \E g : IsFold(g, kind, base, lst, 1 .. n)
<1> DEFINE C == {n \in Nat : \E g : IsFold(g, kind, base, lst, 1 .. n)}
<1>1. 0 \in C
  <2> DEFINE g == [s \in SUBSET (1 .. 0) |-> base]
  <2>1. \A s \in SUBSET (1 .. 0) : s = {}
    OBVIOUS
  <2>2. IsFold(g, kind, base, lst, 1 .. 0)
    BY <2>1, Zenon DEF IsFold
  <2> QED
    BY <2>2
<1>2. ASSUME NEW n \in Nat, n \in C PROVE n + 1 \in C
  <2>1. PICK g : IsFold(g, kind, base, lst, 1 .. n)
    BY <1>2
  <2> DEFINE h == [s \in SUBSET (1 .. n + 1) |->
                     IF n + 1 \in s THEN Step(kind, g[s \ {n + 1}], lst[n + 1]) ELSE g[s]]
             H(s) == IF s = {} THEN base ELSE Step(kind, h[s \ {Max(s)}], lst[Max(s)])
  <2>2. \A s \in SUBSET (1 .. n) : s \in SUBSET (1 .. n + 1) /\ n + 1 \notin s /\ h[s] = g[s]
    OBVIOUS
  <2>3. \A s \in SUBSET (1 .. n) :
          g[s] = IF s = {} THEN base ELSE Step(kind, g[s \ {Max(s)}], lst[Max(s)])
    BY <2>1, Zenon DEF IsFold
  <2>4. ASSUME NEW s \in SUBSET (1 .. n + 1), n + 1 \in s PROVE h[s] = H(s)
    <3>1. Max(s) = n + 1 /\ s # {}
      <4>1. n + 1 \in Nat \ {0} /\ s \subseteq 1 .. n + 1
        OBVIOUS
      <4> QED
        BY <2>4, <4>1, MaxIsLast, Zenon
    <3>2. s \ {n + 1} \in SUBSET (1 .. n)
      OBVIOUS
    <3>3. h[s] = Step(kind, g[s \ {n + 1}], lst[n + 1])
      BY <2>4
    <3>4. h[s \ {n + 1}] = g[s \ {n + 1}]
      BY <2>2, <3>2
    <3> HIDE DEF h
    <3> QED
      BY <3>1, <3>3, <3>4
  <2>5. ASSUME NEW s \in SUBSET (1 .. n + 1), n + 1 \notin s PROVE h[s] = H(s)
    <3>1. s \in SUBSET (1 .. n) /\ s \ {Max(s)} \in SUBSET (1 .. n)
      <4>1. \A x \in s : x \in 1 .. n
        BY <2>5
      <4> QED
        BY <4>1, Zenon
    <3>2. h[s] = g[s] /\ h[s \ {Max(s)}] = g[s \ {Max(s)}]
      BY <2>2, <3>1
    <3> HIDE DEF h
    <3> QED
      BY <2>3, <3>1, <3>2
  <2>6. h = [s \in SUBSET (1 .. n + 1) |-> h[s]]
    OBVIOUS
  <2> HIDE DEF h
  <2>7. \A s \in SUBSET (1 .. n + 1) : h[s] = H(s)
    BY <2>4, <2>5, Zenon
  <2>8. IsFold(h, kind, base, lst, 1 .. n + 1)
    BY <2>6, <2>7, Zenon DEF IsFold
  <2> QED
    BY <2>8
<1> HIDE DEF C
<1>3. \A n \in Nat : n \in C
  BY <1>1, <1>2, Induction
<1> QED
  BY <1>3 DEF C

\* The fold, entry by entry: g[1 .. k] is what it gives for the first k entries.
GivesSteps(g, kind, base, lst, n) ==
  /\ g[1 .. 0] = base
  /\ \A k \in 1 .. n : g[1 .. k] = Step(kind, g[1 .. k - 1], lst[k])

LEMMA FoldSteps ==
  ASSUME NEW kind, NEW base, NEW lst, NEW n \in Nat, NEW g,
         IsFold(g, kind, base, lst, 1 .. n)
  PROVE  GivesSteps(g, kind, base, lst, n)
<1>1. \A s \in SUBSET (1 .. n) :
        g[s] = IF s = {} THEN base ELSE Step(kind, g[s \ {Max(s)}], lst[Max(s)])
  BY Zenon DEF IsFold
<1>2. g[1 .. 0] = base
  <2>1. 1 .. 0 = {} /\ {} \in SUBSET (1 .. n)
    OBVIOUS
  <2>2. g[{}] = base
    BY <1>1, <2>1, Zenon
  <2> QED
    BY <2>1, <2>2, Zenon
<1>3. ASSUME NEW k \in 1 .. n PROVE g[1 .. k] = Step(kind, g[1 .. k - 1], lst[k])
  <2>a. k \in Nat \ {0} /\ k \in 1 .. k /\ 1 .. k \subseteq 1 .. k
    OBVIOUS
  <2>b. (1 .. k) \ {k} = 1 .. k - 1
    OBVIOUS
  <2>1. Max(1 .. k) = k /\ 1 .. k # {} /\ (1 .. k) \ {k} = 1 .. k - 1
    BY <2>a, <2>b, MaxIsLast, Zenon
  <2>2. 1 .. k \in SUBSET (1 .. n)
    OBVIOUS
  <2> QED
    BY <1>1, <2>1, <2>2, Zenon
<1> QED
  BY <1>2, <1>3 DEF GivesSteps

\* m[k] is what is left of the first k entries.
LEMMA CoalesceSteps ==
  ASSUME NEW lst, NEW n \in Nat, DOMAIN lst = 1 .. n
  PROVE  \E m : /\ m[0] = <<>>
                /\ \A k \in 1 .. n : m[k] = Merge(m[k - 1], lst[k])
                /\ Coalesce(lst) = m[n]
<1> DEFINE F(g) == [s \in SUBSET (1 .. n) |->
                      IF s = {} THEN <<>> ELSE Merge(g[s \ {Max(s)}], lst[Max(s)])]
           iter == CHOOSE g : g = F(g)
           m == [k \in 0 .. n |-> iter[1 .. k]]
<1>1. \A g : IsFold(g, "merge", <<>>, lst, 1 .. n) <=> g = F(g)
  BY DEF IsFold, Step
<1>2. Coalesce(lst) = iter[1 .. n]
  BY Zenon DEF Coalesce, FoldLeft, MapThenFoldSet
<1> HIDE DEF F
<1>3. iter = F(iter)
  BY <1>1, FoldExists, Zenon
<1> HIDE DEF iter
<1>4. IsFold(iter, "merge", <<>>, lst, 1 .. n)
  BY <1>1, <1>3, Zenon
<1>5. /\ iter[1 .. 0] = <<>>
      /\ \A k \in 1 .. n : iter[1 .. k] = Merge(iter[1 .. k - 1], lst[k])
  <2>1. /\ iter[1 .. 0] = <<>>
        /\ \A k \in 1 .. n : iter[1 .. k] = Step("merge", iter[1 .. k - 1], lst[k])
    <3>1. GivesSteps(iter, "merge", <<>>, lst, n)
      BY <1>4, FoldSteps, Zenon
    <3> QED
      BY <3>1 DEF GivesSteps
  <2> QED
    BY <2>1, Zenon DEF Step
<1>6. m[0] = <<>> /\ m[n] = iter[1 .. n]
  BY <1>5
<1>7. ASSUME NEW k \in 1 .. n PROVE m[k] = Merge(m[k - 1], lst[k])
  BY <1>5
<1> HIDE DEF m
<1> QED
  BY <1>2, <1>6, <1>7

-----------------------------------------------------------------------------
(* Rows of entries.                                                        *)

VeMem == [virtAddr : VirtPages \cup {NULL}, physAddr : Nat, size : Nat \ {0}]
EndOf(mem) == mem.physAddr + mem.size
WholePages(bytes) == \E q \in Nat \ {0} : bytes = q * PAGE_SIZE

\* Entries of whole pages that follow each other from PhysStart to end.
Row(l, end) ==
  /\ l \in Seq(VeMem)
  /\ \A i \in 1 .. Len(l) : WholePages(l[i].size)
  /\ Len(l) > 0 => l[1].physAddr = PhysStart
  /\ \A i \in 1 .. Len(l) - 1 : l[i + 1].physAddr = EndOf(l[i])
  /\ end = IF Len(l) = 0 THEN PhysStart ELSE EndOf(l[Len(l)])

NoFreeNeighbours(l) == \A i \in 1 .. Len(l) - 1 : Used(l[i]) \/ Used(l[i + 1])

UsedOf(l) == {l[i] : i \in {j \in 1 .. Len(l) : Used(l[j])}}

\* Multiples of the page size.
LEMMA Multiples ==
  ASSUME NEW P \in Nat \ {0}, NEW p \in Nat, NEW q \in Nat
  PROVE  /\ p * P \in Nat
         /\ p * P + q * P = (p + q) * P
         /\ p * P > q * P => p > q /\ p * P - q * P = (p - q) * P
         /\ (p * P) % P = 0
         /\ p > 0 => p * P > 0
OBVIOUS

\* What the page size divides is a multiple of it ...
LEMMA WholeMultiple ==
  ASSUME NEW P \in Nat \ {0}, NEW x \in Nat \ {0}, x % P = 0
  PROVE  \E q \in Nat \ {0} : x = q * P
<1>1. x \div P \in Nat /\ x = (x \div P) * P
  OBVIOUS
<1>2. 0 * P = 0
  OBVIOUS
<1> QED
  BY <1>1, <1>2

\* ... and the quotient is the factor.
LEMMA Divided ==
  ASSUME NEW P \in Nat \ {0}, NEW q \in Nat
  PROVE  (q * P) \div P = q
OBVIOUS

\* The entries of a row have the types of struct ve_mem.
LEMMA RowTypes ==
  ASSUME NEW l, NEW end, Row(l, end)
  PROVE  /\ Len(l) \in Nat /\ DOMAIN l = 1 .. Len(l)
         /\ \A i \in 1 .. Len(l) :
              /\ l[i] \in VeMem
              /\ l[i].physAddr \in Nat /\ l[i].size \in Nat \ {0} /\ EndOf(l[i]) \in Nat
         /\ end \in Nat
<1>1. Len(l) \in Nat /\ DOMAIN l = 1 .. Len(l)
  BY LenProperties DEF Row
<1>2. ASSUME NEW i \in 1 .. Len(l)
      PROVE  /\ l[i] \in VeMem
             /\ l[i].physAddr \in Nat /\ l[i].size \in Nat \ {0} /\ EndOf(l[i]) \in Nat
  <2>1. l[i] \in VeMem
    BY ElementOfSeq DEF Row
  <2> QED
    BY <2>1 DEF VeMem, EndOf
<1>3. end \in Nat
  BY <1>1, <1>2, MemoryAssumption DEF Row
<1> QED
  BY <1>1, <1>2, <1>3

\* Of two entries the later one lies behind the earlier one.
LEMMA RowOrdered ==
  ASSUME NEW l, NEW end, Row(l, end)
  PROVE  \A i, j \in 1 .. Len(l) : i < j => EndOf(l[i]) <= l[j].physAddr
<1> DEFINE C == {d \in Nat : \A i \in 1 .. Len(l) :
                   i + d + 1 \in 1 .. Len(l) => EndOf(l[i]) <= l[i + d + 1].physAddr}
<1>t. /\ Len(l) \in Nat
      /\ \A i \in 1 .. Len(l) : l[i].physAddr \in Nat /\ l[i].size \in Nat \ {0}
      /\ \A i \in 1 .. Len(l) : EndOf(l[i]) = l[i].physAddr + l[i].size
      /\ \A i \in 1 .. Len(l) - 1 : l[i + 1].physAddr = EndOf(l[i])
  BY RowTypes DEF Row, EndOf
<1>n. \A i \in 1 .. Len(l) : EndOf(l[i]) \in Nat
  BY RowTypes
<1>1. 0 \in C
  BY <1>t, <1>n
<1>2. ASSUME NEW d \in Nat, d \in C PROVE d + 1 \in C
  <2>1. ASSUME NEW i \in 1 .. Len(l), i + (d + 1) + 1 \in 1 .. Len(l)
        PROVE  EndOf(l[i]) <= l[i + (d + 1) + 1].physAddr
    <3> DEFINE j == i + d + 1
    <3>1. j \in 1 .. Len(l) - 1 /\ j \in 1 .. Len(l) /\ i + (d + 1) + 1 = j + 1
      BY <1>t, <2>1
    <3>2. EndOf(l[i]) <= l[j].physAddr
      BY <1>2, <3>1
    <3>3. l[j + 1].physAddr = l[j].physAddr + l[j].size
      BY <1>t, <3>1
    <3>4. EndOf(l[i]) \in Nat /\ l[j].physAddr \in Nat /\ l[j].size \in Nat
      BY <1>t, <1>n, <3>1, Zenon
    <3>5. EndOf(l[i]) <= l[j + 1].physAddr
      BY <3>2, <3>3, <3>4
    <3> HIDE DEF j
    <3> QED
      BY <3>1, <3>5
  <2> QED
    BY <2>1
<1> HIDE DEF C
<1>3. \A d \in Nat : d \in C
  BY <1>1, <1>2, Induction
<1>4. ASSUME NEW i \in 1 .. Len(l), NEW j \in 1 .. Len(l), i < j
      PROVE  EndOf(l[i]) <= l[j].physAddr
  <2>1. j - i - 1 \in Nat /\ i + (j - i - 1) + 1 = j
    BY <1>t, <1>4
  <2>2. j - i - 1 \in C
    BY <1>3, <2>1
  <2> QED
    BY <2>1, <2>2 DEF C
<1> QED
  BY <1>4

\* Two entries are different.
LEMMA RowDistinct ==
  ASSUME NEW l, NEW end, Row(l, end), NEW i \in 1 .. Len(l), NEW j \in 1 .. Len(l),
         l[i].physAddr = l[j].physAddr
  PROVE  i = j
<1>1. /\ l[i].physAddr < EndOf(l[i]) /\ l[j].physAddr < EndOf(l[j])
      /\ l[i].physAddr \in Nat /\ EndOf(l[i]) \in Nat /\ EndOf(l[j]) \in Nat
  BY RowTypes DEF EndOf
<1>2. i < j => EndOf(l[i]) <= l[j].physAddr
  BY RowOrdered
<1>3. j < i => EndOf(l[j]) <= l[i].physAddr
  BY RowOrdered
<1> QED
  BY <1>1, <1>2, <1>3

\* Every entry ends before the row does ...
LEMMA RowWithin ==
  ASSUME NEW l, NEW end, Row(l, end), NEW i \in 1 .. Len(l)
  PROVE  /\ PhysStart <= l[i].physAddr /\ EndOf(l[i]) <= end
         /\ i # Len(l) => EndOf(l[i]) < end
<1>t. /\ Len(l) \in Nat /\ end \in Nat /\ end = EndOf(l[Len(l)]) /\ l[1].physAddr = PhysStart
      /\ \A k \in 1 .. Len(l) :
           l[k].physAddr \in Nat /\ EndOf(l[k]) \in Nat /\ l[k].physAddr < EndOf(l[k])
  <2>1. \A k \in 1 .. Len(l) : l[k].physAddr < EndOf(l[k])
    BY RowTypes DEF EndOf
  <2> QED
    BY <2>1, RowTypes DEF Row
<1>1. 1 \in 1 .. Len(l) /\ Len(l) \in 1 .. Len(l)
  BY <1>t
<1>2. 1 < i => EndOf(l[1]) <= l[i].physAddr
  BY <1>1, RowOrdered
<1>3. i < Len(l) => EndOf(l[i]) <= l[Len(l)].physAddr
  BY <1>1, RowOrdered
<1> QED
  BY <1>t, <1>1, <1>2, <1>3

\* ... and every address up to there is in one of them.
LEMMA RowCovers ==
  ASSUME NEW l, NEW end, Row(l, end), NEW a \in Nat, PhysStart <= a, a < end
  PROVE  \E i \in 1 .. Len(l) : l[i].physAddr <= a /\ a < EndOf(l[i])
<1>t. /\ Len(l) \in Nat /\ PhysStart \in Nat
      /\ \A k \in 1 .. Len(l) : l[k].physAddr \in Nat /\ EndOf(l[k]) \in Nat
  BY RowTypes, MemoryAssumption
<1> DEFINE T == {i \in 1 .. Len(l) : a < EndOf(l[i])}
<1>1. Len(l) \in T
  <2>1. Len(l) > 0 /\ end = EndOf(l[Len(l)])
    BY <1>t DEF Row
  <2> QED
    BY <1>t, <2>1
<1>2. PICK i \in T : \A j \in T : i <= j
  <2>1. T \subseteq Nat /\ T # {}
    BY <1>1
  <2> HIDE DEF T
  <2> QED
    BY <2>1, Smallest
<1>3. CASE i = 1
  BY <1>t, <1>2, <1>3 DEF Row
<1>4. CASE i # 1
  <2>1. i - 1 \in 1 .. Len(l) - 1 /\ i - 1 \in 1 .. Len(l) /\ i - 1 \notin T /\ (i - 1) + 1 = i
    BY <1>t, <1>2, <1>4
  <2>2. EndOf(l[i - 1]) <= a
    BY <1>t, <2>1
  <2>3. l[i].physAddr = EndOf(l[i - 1])
    BY <2>1 DEF Row
  <2> QED
    BY <1>2, <2>2, <2>3
<1> QED
  BY <1>3, <1>4

\* Entries begin at the beginning of a page.
LEMMA RowPages ==
  ASSUME NEW l, NEW end, Row(l, end)
  PROVE  \A i \in 1 .. Len(l) : \E q \in Nat : l[i].physAddr = PhysStart + q * PAGE_SIZE
<1> DEFINE C == {n \in Nat : n + 1 \in 1 .. Len(l) =>
                   \E q \in Nat : l[n + 1].physAddr = PhysStart + q * PAGE_SIZE}
<1>t. /\ Len(l) \in Nat /\ PhysStart \in Nat /\ PAGE_SIZE \in Nat \ {0}
      /\ \A k \in 1 .. Len(l) : l[k].physAddr \in Nat /\ l[k].size \in Nat
  BY RowTypes, MemoryAssumption
<1>1. 0 \in C
  <2>1. 0 * PAGE_SIZE = 0 /\ 0 + 1 = 1
    BY <1>t
  <2>2. 1 \in 1 .. Len(l) => l[1].physAddr = PhysStart + 0 * PAGE_SIZE
    BY <1>t, <2>1 DEF Row
  <2> QED
    BY <2>1, <2>2
<1>2. ASSUME NEW n \in Nat, n \in C PROVE n + 1 \in C
  <2>1. SUFFICES ASSUME (n + 1) + 1 \in 1 .. Len(l)
                 PROVE  \E q \in Nat : l[(n + 1) + 1].physAddr = PhysStart + q * PAGE_SIZE
    OBVIOUS
  <2>2. n + 1 \in 1 .. Len(l) - 1 /\ n + 1 \in 1 .. Len(l)
    BY <1>t, <2>1
  <2>3. PICK q \in Nat : l[n + 1].physAddr = PhysStart + q * PAGE_SIZE
    BY <1>2, <2>2
  <2>4. PICK p \in Nat \ {0} : l[n + 1].size = p * PAGE_SIZE
    BY <2>2 DEF Row, WholePages
  <2>5. q * PAGE_SIZE + p * PAGE_SIZE = (q + p) * PAGE_SIZE
        /\ q * PAGE_SIZE \in Nat /\ p * PAGE_SIZE \in Nat
    BY <1>t, Multiples
  <2>6. l[(n + 1) + 1].physAddr = l[n + 1].physAddr + l[n + 1].size
    BY <2>2 DEF Row, EndOf
  <2>7. l[(n + 1) + 1].physAddr = PhysStart + (q + p) * PAGE_SIZE
    BY <1>t, <2>3, <2>4, <2>5, <2>6
  <2> QED
    BY <2>7
<1> HIDE DEF C
<1>3. \A n \in Nat : n \in C
  BY <1>1, <1>2, Induction
<1>4. ASSUME NEW i \in 1 .. Len(l)
      PROVE  \E q \in Nat : l[i].physAddr = PhysStart + q * PAGE_SIZE
  <2>1. i - 1 \in Nat /\ (i - 1) + 1 = i
    BY <1>t
  <2>2. i - 1 \in C
    BY <1>3, <2>1
  <2> QED
    BY <2>1, <2>2 DEF C
<1> QED
  BY <1>4

-----------------------------------------------------------------------------
(* What merging leaves.                                                    *)

\* No entries are a row that ends where it starts.
LEMMA EmptyRow ==
  Row(<<>>, PhysStart) /\ NoFreeNeighbours(<<>>) /\ UsedOf(<<>>) = {} /\ Len(<<>>) = 0
<1>1. Row(<<>>, PhysStart)
  BY EmptySeq, MemoryAssumption DEF Row
<1>2. NoFreeNeighbours(<<>>) /\ UsedOf(<<>>) = {} /\ Len(<<>>) = 0
  BY EmptySeq DEF NoFreeNeighbours, UsedOf
<1> QED
  BY <1>1, <1>2

\* One entry more at the end of a row without free neighbours.
LEMMA AppendRow ==
  ASSUME NEW l, NEW end, Row(l, end), NEW mem \in VeMem, mem.physAddr = end,
         WholePages(mem.size)
  PROVE  /\ Row(Append(l, mem), EndOf(mem)) /\ Append(l, mem) # <<>>
         /\ UsedOf(Append(l, mem)) = UsedOf(l) \cup (IF Used(mem) THEN {mem} ELSE {})
         /\ NoFreeNeighbours(l) /\ (Len(l) > 0 => Used(l[Len(l)]) \/ Used(mem))
              => NoFreeNeighbours(Append(l, mem))
<1> DEFINE r == Append(l, mem)
<1>1. /\ r \in Seq(VeMem) /\ r # <<>> /\ Len(r) = Len(l) + 1 /\ Len(l) \in Nat
      /\ \A i \in 1 .. Len(l) : r[i] = l[i]
      /\ r[Len(l) + 1] = mem
  BY AppendProperties, RowTypes DEF Row
<1> HIDE DEF r
<1>2. Row(r, EndOf(mem))
  <2>1. \A i \in 1 .. Len(r) : WholePages(r[i].size)
    BY <1>1 DEF Row
  <2>2. r[1].physAddr = PhysStart
    BY <1>1 DEF Row
  <2>3. \A i \in 1 .. Len(r) - 1 : r[i + 1].physAddr = EndOf(r[i])
    <3>1. SUFFICES ASSUME NEW i \in 1 .. Len(l) PROVE r[i + 1].physAddr = EndOf(r[i])
      BY <1>1
    <3>2. CASE i = Len(l)
      BY <1>1, <3>2 DEF Row
    <3>3. CASE i # Len(l)
      BY <1>1, <3>3 DEF Row
    <3> QED
      BY <3>2, <3>3
  <2> QED
    BY <1>1, <2>1, <2>2, <2>3 DEF Row
<1>3. UsedOf(r) = UsedOf(l) \cup (IF Used(mem) THEN {mem} ELSE {})
  BY <1>1 DEF UsedOf
<1>4. NoFreeNeighbours(l) /\ (Len(l) > 0 => Used(l[Len(l)]) \/ Used(mem))
        => NoFreeNeighbours(r)
  BY <1>1 DEF NoFreeNeighbours
<1> QED
  BY <1>1, <1>2, <1>3, <1>4 DEF r

\* A free entry taken in by the free entry before it.
LEMMA MergeRow ==
  ASSUME NEW l, NEW end, Row(l, end), NEW mem \in VeMem, mem.physAddr = end,
         WholePages(mem.size), Len(l) > 0, ~ Used(mem), ~ Used(l[Len(l)])
  PROVE  LET r == [l EXCEPT ![Len(l)].size = @ + mem.size]
         IN  /\ Row(r, EndOf(mem)) /\ r # <<>>
             /\ UsedOf(r) = UsedOf(l)
             /\ NoFreeNeighbours(l) => NoFreeNeighbours(r)
<1> DEFINE k == Len(l)
           e == [l[k] EXCEPT !.size = @ + mem.size]
           r == [l EXCEPT ![k] = e]
<1>0. [l EXCEPT ![Len(l)].size = @ + mem.size] = r
  OBVIOUS
<1>t. /\ k \in Nat /\ k \in 1 .. k /\ l \in Seq(VeMem) /\ l[k] \in VeMem
      /\ l[k].size \in Nat \ {0} /\ l[k].physAddr \in Nat
      /\ mem.size \in Nat \ {0} /\ mem.physAddr \in Nat
      /\ end = l[k].physAddr + l[k].size
  <2>1. mem.size \in Nat \ {0} /\ mem.physAddr \in Nat
    BY DEF VeMem
  <2>2. k \in Nat /\ k \in 1 .. k
    <3>1. Len(l) \in Nat
      BY RowTypes, Zenon
    <3> QED
      BY <3>1
  <2>3. l \in Seq(VeMem) /\ end = EndOf(l[k])
    <3>1. Len(l) # 0
      BY <2>2
    <3> QED
      BY <3>1, Zenon DEF Row
  <2>4. l[k] \in VeMem /\ l[k].size \in Nat \ {0} /\ l[k].physAddr \in Nat
    BY <2>2, RowTypes, Zenon
  <2>5. EndOf(l[k]) = l[k].physAddr + l[k].size
    BY DEF EndOf
  <2> HIDE DEF k
  <2> QED
    BY <2>1, <2>2, <2>3, <2>4, <2>5
<1>1. /\ e \in VeMem /\ e.virtAddr = l[k].virtAddr /\ e.physAddr = l[k].physAddr
      /\ e.size = l[k].size + mem.size
  <2>1. l[k].size + mem.size \in Nat \ {0}
    BY <1>t
  <2> QED
    BY <1>t, <2>1 DEF VeMem
<1> HIDE DEF e
<1>2. /\ r \in Seq(VeMem) /\ Len(r) = k
      /\ \A i \in 1 .. k : r[i] = IF i = k THEN e ELSE l[i]
  BY <1>t, <1>1, ExceptSeq
<1> HIDE DEF r
<1>3. WholePages(e.size)
  <2>1. PICK p \in Nat \ {0} : l[k].size = p * PAGE_SIZE
    BY <1>t DEF Row, WholePages
  <2>2. PICK q \in Nat \ {0} : mem.size = q * PAGE_SIZE
    BY DEF WholePages
  <2>3. p * PAGE_SIZE + q * PAGE_SIZE = (p + q) * PAGE_SIZE /\ p + q \in Nat \ {0}
    BY Multiples, MemoryAssumption
  <2> QED
    BY <1>1, <2>1, <2>2, <2>3 DEF WholePages
<1>4. Row(r, EndOf(mem))
  <2>1. \A i \in 1 .. Len(r) : WholePages(r[i].size)
    BY <1>2, <1>3 DEF Row
  <2>2. r[1].physAddr = PhysStart
    BY <1>t, <1>1, <1>2 DEF Row
  <2>3. \A i \in 1 .. Len(r) - 1 : r[i + 1].physAddr = EndOf(r[i])
    <3>1. SUFFICES ASSUME NEW i \in 1 .. k - 1 PROVE r[i + 1].physAddr = EndOf(r[i])
      BY <1>2
    <3>2. r[i] = l[i] /\ l[i + 1].physAddr = EndOf(l[i]) /\ i + 1 \in 1 .. k
      BY <1>t, <1>2 DEF Row
    <3>3. r[i + 1].physAddr = l[i + 1].physAddr
      BY <1>1, <1>2, <3>2
    <3> QED
      BY <3>2, <3>3
  <2>4. EndOf(mem) = EndOf(r[k])
    BY <1>t, <1>1, <1>2 DEF EndOf
  <2> QED
    BY <1>t, <1>2, <2>1, <2>2, <2>3, <2>4 DEF Row
<1>5. ~ Used(e) /\ ~ Used(l[k])
  BY <1>1 DEF Used
<1>6. UsedOf(r) = UsedOf(l)
  <2>1. \A i \in 1 .. k : (Used(r[i]) <=> Used(l[i])) /\ (Used(r[i]) => r[i] = l[i])
    BY <1>2, <1>5
  <2> QED
    BY <1>2, <2>1 DEF UsedOf
<1>7. NoFreeNeighbours(l) => NoFreeNeighbours(r)
  <2>1. \A i \in 1 .. k : Used(r[i]) <=> Used(l[i])
    BY <1>2, <1>5
  <2> QED
    BY <1>t, <1>2, <2>1 DEF NoFreeNeighbours
<1>8. r # <<>>
  BY <1>t, <1>2, EmptySeq
<1> QED
  BY <1>0, <1>4, <1>6, <1>7, <1>8, Zenon

\* One entry merged into the row before it, in either way.
LEMMA MergeStep ==
  ASSUME NEW l, NEW end, Row(l, end), NoFreeNeighbours(l),
         NEW mem \in VeMem, mem.physAddr = end, WholePages(mem.size)
  PROVE  /\ Row(Merge(l, mem), EndOf(mem))
         /\ NoFreeNeighbours(Merge(l, mem))
         /\ UsedOf(Merge(l, mem)) = UsedOf(l) \cup (IF Used(mem) THEN {mem} ELSE {})
<1>1. /\ Len(l) \in Nat /\ (l # <<>> <=> Len(l) > 0)
  BY EmptySeq, RowTypes DEF Row
<1>2. CASE l # <<>> /\ ~ Used(mem) /\ ~ Used(Last(l))
  <2>1. Merge(l, mem) = [l EXCEPT ![Len(l)].size = @ + mem.size] /\ ~ Used(l[Len(l)])
    BY <1>2, Zenon DEF Merge, Last
  <2> QED
    BY <1>1, <1>2, <2>1, MergeRow, Zenon
<1>3. CASE ~ (l # <<>> /\ ~ Used(mem) /\ ~ Used(Last(l)))
  <2>1. Merge(l, mem) = Append(l, mem)
    BY <1>3, Zenon DEF Merge
  <2>2. Len(l) > 0 => Used(l[Len(l)]) \/ Used(mem)
    BY <1>1, <1>3, Zenon DEF Last
  <2> QED
    BY <2>1, <2>2, AppendRow, Zenon
<1> QED
  BY <1>2, <1>3

\* ve_alloc_free's loops keep the row and what is used in it, and leave no two
\* free entries side by side.
LEMMA CoalesceRow ==
  ASSUME NEW l, NEW end, Row(l, end)
  PROVE  /\ Row(Coalesce(l), end)
         /\ NoFreeNeighbours(Coalesce(l))
         /\ UsedOf(Coalesce(l)) = UsedOf(l)
<1>t. /\ Len(l) \in Nat /\ DOMAIN l = 1 .. Len(l)
      /\ \A i \in 1 .. Len(l) : l[i] \in VeMem
  BY RowTypes
<1>1. PICK m : /\ m[0] = <<>>
               /\ \A k \in 1 .. Len(l) : m[k] = Merge(m[k - 1], l[k])
               /\ Coalesce(l) = m[Len(l)]
  BY <1>t, CoalesceSteps
<1> DEFINE To(k) == IF k = 0 THEN PhysStart ELSE EndOf(l[k])
           UsedUpTo(k) == {l[i] : i \in {j \in 1 .. k : Used(l[j])}}
           C == {k \in Nat : k <= Len(l) => /\ Row(m[k], To(k)) /\ NoFreeNeighbours(m[k])
                                            /\ UsedOf(m[k]) = UsedUpTo(k)}
<1>2. 0 \in C
  <2>1. Row(<<>>, PhysStart)
    BY EmptyRow
  <2>2. NoFreeNeighbours(<<>>) /\ UsedOf(<<>>) = {}
    BY EmptyRow
  <2>3. UsedUpTo(0) = {} /\ To(0) = PhysStart
    OBVIOUS
  <2> HIDE DEF UsedUpTo, To
  <2> QED
    BY <1>1, <2>1, <2>2, <2>3
<1>3. ASSUME NEW k \in Nat, k \in C PROVE k + 1 \in C
  <2>1. SUFFICES ASSUME k + 1 <= Len(l)
                 PROVE  /\ Row(m[k + 1], To(k + 1)) /\ NoFreeNeighbours(m[k + 1])
                        /\ UsedOf(m[k + 1]) = UsedUpTo(k + 1)
    <3> HIDE DEF To, UsedUpTo
    <3> QED
      OBVIOUS
  <2>2. Row(m[k], To(k)) /\ NoFreeNeighbours(m[k]) /\ UsedOf(m[k]) = UsedUpTo(k)
    BY <1>t, <1>3, <2>1
  <2>3. k + 1 \in 1 .. Len(l) /\ (k + 1) - 1 = k /\ (k # 0 => k \in 1 .. Len(l) - 1)
    BY <1>t, <2>1
  <2>4. m[k + 1] = Merge(m[k], l[k + 1])
    BY <1>1, <2>3
  <2>5. l[k + 1].physAddr = To(k)
    BY <1>t, <2>3 DEF Row
  <2>6. l[k + 1] \in VeMem /\ WholePages(l[k + 1].size)
    BY <1>t, <2>3 DEF Row
  <2>7. UsedUpTo(k + 1) = UsedUpTo(k) \cup (IF Used(l[k + 1]) THEN {l[k + 1]} ELSE {})
    BY <2>3
  <2>8. To(k + 1) = EndOf(l[k + 1])
    BY <2>3
  <2> HIDE DEF UsedUpTo, To
  <2>9. /\ Row(m[k + 1], EndOf(l[k + 1])) /\ NoFreeNeighbours(m[k + 1])
        /\ UsedOf(m[k + 1]) = UsedOf(m[k]) \cup (IF Used(l[k + 1]) THEN {l[k + 1]} ELSE {})
    BY <2>2, <2>4, <2>5, <2>6, MergeStep, Zenon
  <2> QED
    BY <2>2, <2>7, <2>8, <2>9
<1> HIDE DEF C
<1>4. Len(l) \in C
  BY <1>t, <1>2, <1>3, Induction
<1>5. /\ Row(m[Len(l)], To(Len(l))) /\ NoFreeNeighbours(m[Len(l)])
      /\ UsedOf(m[Len(l)]) = UsedUpTo(Len(l))
  BY <1>t, <1>4 DEF C
<1>6. To(Len(l)) = end /\ UsedUpTo(Len(l)) = UsedOf(l)
  BY <1>t DEF Row, UsedOf
<1> QED
  BY <1>1, <1>5, <1>6, Zenon

-----------------------------------------------------------------------------
(* What allocating and freeing do to a row.                                *)

\* The list with entry b cut.
WithCut(l, b, addr, bytes) ==
  SubSeq(l, 1, b - 1) \o Cut(l[b], addr, bytes) \o SubSeq(l, b + 1, Len(l))

\* VeMem by entry: the block at b, the rest, if there is one, behind it.
LEMMA CutElements ==
  ASSUME NEW l, NEW end, Row(l, end), NEW b \in 1 .. Len(l), NEW addr \in VirtPages,
         NEW bytes \in Nat \ {0}, bytes <= l[b].size
  PROVE  LET r == WithCut(l, b, addr, bytes)
             block == [virtAddr |-> addr, physAddr |-> l[b].physAddr, size |-> bytes]
             rest == [virtAddr |-> NULL, physAddr |-> l[b].physAddr + bytes,
                      size |-> l[b].size - bytes]
             w == IF bytes < l[b].size THEN 1 ELSE 0
         IN  /\ r \in Seq(VeMem) /\ Len(r) = Len(l) + w /\ block \in VeMem
             /\ \A i \in 1 .. b - 1 : r[i] = l[i]
             /\ r[b] = block
             /\ w = 1 => r[b + 1] = rest /\ rest \in VeMem
             /\ \A i \in b + 1 .. Len(l) : r[i + w] = l[i]
<1> DEFINE r == WithCut(l, b, addr, bytes)
           block == [virtAddr |-> addr, physAddr |-> l[b].physAddr, size |-> bytes]
           rest == [virtAddr |-> NULL, physAddr |-> l[b].physAddr + bytes,
                    size |-> l[b].size - bytes]
           w == IF bytes < l[b].size THEN 1 ELSE 0
           front == SubSeq(l, 1, b - 1)
           c == Cut(l[b], addr, bytes)
           back == SubSeq(l, b + 1, Len(l))
<1>t. /\ Len(l) \in Nat /\ b \in Nat
      /\ \A i \in 1 .. Len(l) : l[i] \in VeMem
      /\ l[b].size \in Nat \ {0} /\ l[b].physAddr \in Nat
  BY RowTypes
<1>1. /\ front \in Seq(VeMem) /\ Len(front) = b - 1
      /\ \A i \in 1 .. b - 1 : front[i] = l[i]
  <2>1. \A i \in 1 .. b - 1 : l[i] \in VeMem
    BY <1>t
  <2> QED
    BY <1>t, <2>1, SubSeqProperties
<1>2. /\ back \in Seq(VeMem) /\ Len(back) = Len(l) - b
      /\ \A i \in 1 .. Len(l) - b : back[i] = l[b + i]
  <2>1. \A i \in b + 1 .. Len(l) : l[i] \in VeMem
    BY <1>t
  <2> QED
    BY <1>t, <2>1, SubSeqProperties
<1>3. block \in VeMem /\ (w = 1 => rest \in VeMem)
  BY <1>t DEF VeMem
<1>4. c = IF w = 1 THEN <<block>> \o <<rest>> ELSE <<block>>
  <2>1. l[b].size - bytes > 0 <=> w = 1
    BY <1>t
  <2> HIDE DEF w
  <2> QED
    BY <2>1 DEF Cut
<1>5. w \in {0, 1}
  OBVIOUS
<1> HIDE DEF block, rest, w
<1>6. c \in Seq(VeMem) /\ Len(c) = 1 + w /\ c[1] = block /\ (w = 1 => c[2] = rest)
  BY <1>3, <1>4, <1>5
<1> HIDE DEF front, back, c
<1>7. r = (front \o c) \o back
  BY DEF WithCut, front, c, back
<1>8. /\ front \o c \in Seq(VeMem) /\ Len(front \o c) = b + w
      /\ \A i \in 1 .. b + w : (front \o c)[i] = IF i <= b - 1 THEN front[i] ELSE c[i - (b - 1)]
  <2>1. Len(front) = b - 1 /\ Len(front) + Len(c) = b + w
    BY <1>t, <1>1, <1>5, <1>6
  <2>2. /\ front \o c \in Seq(VeMem) /\ Len(front \o c) = Len(front) + Len(c)
        /\ \A i \in 1 .. Len(front) + Len(c) :
             (front \o c)[i] = IF i <= Len(front) THEN front[i] ELSE c[i - Len(front)]
    BY <1>1, <1>6, ConcatProperties, Zenon
  <2> QED
    BY <2>1, <2>2
<1>9. /\ r \in Seq(VeMem) /\ Len(r) = Len(l) + w
      /\ \A i \in 1 .. Len(l) + w :
           r[i] = IF i <= b + w THEN (front \o c)[i] ELSE back[i - (b + w)]
  <2> DEFINE s == front \o c
  <2>1. Len(s) = b + w /\ Len(s) + Len(back) = Len(l) + w
    BY <1>t, <1>2, <1>5, <1>8
  <2>2. /\ s \o back \in Seq(VeMem) /\ Len(s \o back) = Len(s) + Len(back)
        /\ \A i \in 1 .. Len(s) + Len(back) :
             (s \o back)[i] = IF i <= Len(s) THEN s[i] ELSE back[i - Len(s)]
    BY <1>2, <1>8, ConcatProperties, Zenon
  <2> HIDE DEF s
  <2> QED
    BY <1>7, <2>1, <2>2 DEF s
<1> HIDE DEF r
<1>10. ASSUME NEW i \in 1 .. b - 1 PROVE r[i] = l[i]
  <2>1. i \in 1 .. b + w /\ i \in 1 .. Len(l) + w /\ i <= b + w /\ i <= b - 1
    BY <1>t, <1>5
  <2>2. r[i] = (front \o c)[i]
    BY <1>9, <2>1
  <2>3. (front \o c)[i] = front[i]
    BY <1>8, <2>1
  <2> QED
    BY <1>1, <2>2, <2>3
<1>11. r[b] = block
  <2>1. b \in 1 .. b + w /\ b \in 1 .. Len(l) + w /\ b - (b - 1) = 1 /\ ~ (b <= b - 1)
        /\ b <= b + w
    BY <1>t, <1>5
  <2>2. r[b] = (front \o c)[b]
    BY <1>9, <2>1
  <2>3. (front \o c)[b] = c[1]
    BY <1>8, <2>1
  <2> QED
    BY <1>6, <2>2, <2>3
<1>12. w = 1 => r[b + 1] = rest
  <2>1. w = 1 => /\ b + 1 \in 1 .. b + w /\ b + 1 \in 1 .. Len(l) + w
                 /\ (b + 1) - (b - 1) = 2 /\ ~ (b + 1 <= b - 1) /\ b + 1 <= b + w
    BY <1>t, <1>5
  <2>2. w = 1 => r[b + 1] = (front \o c)[b + 1]
    BY <1>9, <2>1
  <2>3. w = 1 => (front \o c)[b + 1] = c[2]
    BY <1>8, <2>1
  <2> QED
    BY <1>6, <2>2, <2>3
<1>13. ASSUME NEW i \in b + 1 .. Len(l) PROVE r[i + w] = l[i]
  <2>1. /\ i + w \in 1 .. Len(l) + w /\ ~ (i + w <= b + w) /\ (i + w) - (b + w) = i - b
        /\ i - b \in 1 .. Len(l) - b /\ b + (i - b) = i
    BY <1>t, <1>5
  <2>2. r[i + w] = back[i - b]
    BY <1>9, <2>1
  <2> QED
    BY <1>2, <2>1, <2>2
<1> QED
  BY <1>3, <1>9, <1>10, <1>11, <1>12, <1>13 DEF r, block, rest, w

\* Cutting a free entry adds the block to what is used, and nothing else.
LEMMA CutRow ==
  ASSUME NEW l, NEW end, Row(l, end), NoFreeNeighbours(l), NEW b \in 1 .. Len(l),
         ~ Used(l[b]), NEW addr \in VirtPages, NEW bytes, WholePages(bytes),
         bytes <= l[b].size
  PROVE  LET r == WithCut(l, b, addr, bytes)
         IN  /\ Row(r, end) /\ NoFreeNeighbours(r)
             /\ UsedOf(r) = UsedOf(l) \cup
                  {[virtAddr |-> addr, physAddr |-> l[b].physAddr, size |-> bytes]}
<1> DEFINE r == WithCut(l, b, addr, bytes)
           block == [virtAddr |-> addr, physAddr |-> l[b].physAddr, size |-> bytes]
           rest == [virtAddr |-> NULL, physAddr |-> l[b].physAddr + bytes,
                    size |-> l[b].size - bytes]
           w == IF bytes < l[b].size THEN 1 ELSE 0
<1>t. /\ Len(l) \in Nat /\ b \in Nat
      /\ l[b].size \in Nat \ {0} /\ l[b].physAddr \in Nat
      /\ PAGE_SIZE \in Nat \ {0} /\ addr # NULL
  BY RowTypes, MemoryAssumption DEF NULL
<1>s. bytes \in Nat \ {0}
  BY Multiples, <1>t DEF WholePages
<1>1. /\ r \in Seq(VeMem) /\ Len(r) = Len(l) + w
      /\ \A i \in 1 .. b - 1 : r[i] = l[i]
      /\ r[b] = block
      /\ w = 1 => r[b + 1] = rest
      /\ \A i \in b + 1 .. Len(l) : r[i + w] = l[i]
  <2>1. b \in Nat /\ bytes <= l[b].size
    BY <1>t
  <2> HIDE DEF r, block, rest, w
  <2> QED
    BY <1>s, <2>1, CutElements DEF r, block, rest, w
<1>2. /\ w \in {0, 1} /\ (w = 0 => bytes = l[b].size) /\ (w = 1 => bytes < l[b].size)
      /\ Used(block) /\ ~ Used(rest)
      /\ block.physAddr = l[b].physAddr /\ block.size = bytes
      /\ EndOf(block) = l[b].physAddr + bytes
      /\ rest.physAddr = l[b].physAddr + bytes /\ rest.size = l[b].size - bytes
      /\ EndOf(rest) = EndOf(l[b])
      /\ (w = 0 => EndOf(block) = EndOf(l[b]))
  BY <1>t, <1>s DEF Used, EndOf, NULL
<1>3. w = 1 => WholePages(rest.size)
  <2>1. PICK p \in Nat \ {0} : l[b].size = p * PAGE_SIZE
    BY DEF Row, WholePages
  <2>2. PICK q \in Nat \ {0} : bytes = q * PAGE_SIZE
    BY DEF WholePages
  <2>3. p * PAGE_SIZE > q * PAGE_SIZE
          => p > q /\ p * PAGE_SIZE - q * PAGE_SIZE = (p - q) * PAGE_SIZE
    BY <1>t, Multiples
  <2>4. ASSUME w = 1 PROVE WholePages(rest.size)
    <3>1. p > q /\ rest.size = (p - q) * PAGE_SIZE
      BY <1>2, <2>1, <2>2, <2>3, <2>4
    <3>2. p - q \in Nat \ {0}
      BY <3>1
    <3> QED
      BY <3>1, <3>2 DEF WholePages
  <2> QED
    BY <2>4
<1> HIDE DEF r, block, rest, w
<1>a. Len(l) \in Nat /\ b \in 1 .. Len(l) /\ w \in {0, 1} /\ Len(r) = Len(l) + w
  BY <1>t, <1>1, <1>2
\* Every index of r is one of these.
<1>4. ASSUME NEW i \in 1 .. Len(r)
      PROVE  \/ i \in 1 .. b - 1 \/ i = b \/ (w = 1 /\ i = b + 1)
             \/ (i - w \in b + 1 .. Len(l) /\ (i - w) + w = i)
  <2>1. CASE w = 0
    BY <1>a, <2>1
  <2>2. CASE w = 1
    BY <1>a, <2>2
  <2> QED
    BY <1>a, <2>1, <2>2
<1>5. \A i \in 1 .. Len(r) : WholePages(r[i].size)
  <2>1. ASSUME NEW i \in 1 .. Len(r) PROVE WholePages(r[i].size)
    <3>1. CASE i \in 1 .. b - 1
      BY <1>t, <1>1, <3>1 DEF Row
    <3>2. CASE i = b
      BY <1>1, <1>2, <3>2
    <3>3. CASE w = 1 /\ i = b + 1
      BY <1>1, <1>3, <3>3
    <3>4. CASE i - w \in b + 1 .. Len(l) /\ (i - w) + w = i
      <4>1. r[i] = l[i - w]
        BY <1>1, <3>4
      <4> QED
        BY <1>t, <3>4, <4>1 DEF Row
    <3> QED
      BY <1>4, <3>1, <3>2, <3>3, <3>4
  <2> QED
    BY <2>1
<1>6. Len(r) > 0 /\ r[1].physAddr = PhysStart
  <2>1. l[1].physAddr = PhysStart
    BY <1>t DEF Row
  <2>2. CASE b = 1
    BY <1>t, <1>1, <1>2, <2>1, <2>2
  <2>3. CASE b # 1
    BY <1>t, <1>1, <1>2, <2>1, <2>3
  <2> QED
    BY <2>2, <2>3
<1>7. \A i \in 1 .. Len(r) - 1 : r[i + 1].physAddr = EndOf(r[i])
  <2>1. ASSUME NEW i \in 1 .. Len(r) - 1 PROVE r[i + 1].physAddr = EndOf(r[i])
    <3>0. \A j \in 1 .. Len(l) - 1 : l[j + 1].physAddr = EndOf(l[j])
      BY DEF Row
    <3>1. CASE i + 1 \in 1 .. b - 1
      BY <1>t, <1>1, <3>0, <3>1
    <3>2. CASE i + 1 = b
      <4>1. r[i] = l[i] /\ r[i + 1].physAddr = l[i + 1].physAddr /\ i \in 1 .. Len(l) - 1
        BY <1>t, <1>1, <1>2, <3>2
      <4> QED
        BY <3>0, <4>1
    <3>3. CASE i = b /\ w = 1
      BY <1>t, <1>1, <1>2, <3>3
    <3>4. CASE i = b /\ w = 0
      <4>1. /\ i + 1 \in b + 1 .. Len(l) /\ (i + 1) + w = i + 1 /\ i \in 1 .. Len(l) - 1
        BY <1>t, <1>1, <3>4
      <4>2. r[i + 1] = l[i + 1] /\ EndOf(r[i]) = EndOf(l[i])
        BY <1>1, <1>2, <3>4, <4>1
      <4> QED
        BY <3>0, <4>1, <4>2
    <3>5. CASE i = b + 1 /\ w = 1
      <4>1. /\ b + 1 \in b + 1 .. Len(l) /\ (b + 1) + w = i + 1 /\ b \in 1 .. Len(l) - 1
        BY <1>t, <1>1, <3>5
      <4>2. r[i + 1] = l[b + 1] /\ EndOf(r[i]) = EndOf(l[b])
        BY <1>1, <1>2, <3>5, <4>1
      <4> QED
        BY <3>0, <4>1, <4>2
    <3>6. CASE i - w \in b + 1 .. Len(l)
      <4>1. /\ (i - w) + w = i /\ (i - w) + 1 \in b + 1 .. Len(l)
            /\ ((i - w) + 1) + w = i + 1 /\ i - w \in 1 .. Len(l) - 1
        BY <1>t, <1>1, <1>2, <3>6
      <4>2. r[i] = l[i - w] /\ r[i + 1] = l[(i - w) + 1]
        BY <1>1, <3>6, <4>1
      <4> QED
        BY <3>0, <4>1, <4>2
    <3>7. \/ i + 1 \in 1 .. b - 1 \/ i + 1 = b \/ (i = b /\ w = 1) \/ (i = b /\ w = 0)
          \/ (i = b + 1 /\ w = 1) \/ i - w \in b + 1 .. Len(l)
      <4>1. CASE w = 0
        BY <1>a, <4>1
      <4>2. CASE w = 1
        BY <1>a, <4>2
      <4> QED
        BY <1>a, <4>1, <4>2
    <3> QED
      BY <3>1, <3>2, <3>3, <3>4, <3>5, <3>6, <3>7
  <2> QED
    BY <2>1
<1>8. end = EndOf(r[Len(r)])
  <2>1. end = EndOf(l[Len(l)])
    BY <1>t DEF Row
  <2>2. CASE b = Len(l)
    BY <1>t, <1>1, <1>2, <2>1, <2>2
  <2>3. CASE b # Len(l)
    BY <1>t, <1>1, <1>2, <2>1, <2>3
  <2> QED
    BY <2>2, <2>3
<1>9. Row(r, end)
  BY <1>1, <1>5, <1>6, <1>7, <1>8 DEF Row
<1>10. NoFreeNeighbours(r)
  <2>1. ASSUME NEW i \in 1 .. Len(r) - 1 PROVE Used(r[i]) \/ Used(r[i + 1])
    <3>0. \A j \in 1 .. Len(l) - 1 : Used(l[j]) \/ Used(l[j + 1])
      BY DEF NoFreeNeighbours
    <3>1. CASE i + 1 \in 1 .. b - 1
      BY <1>t, <1>1, <3>0, <3>1
    <3>2. CASE i + 1 = b \/ i = b
      BY <1>1, <1>2, <3>2
    <3>3. CASE i = b + 1 /\ w = 1
      <4>1. /\ b + 1 \in b + 1 .. Len(l) /\ (b + 1) + w = i + 1 /\ b \in 1 .. Len(l) - 1
        BY <1>t, <1>1, <3>3
      <4>2. r[i + 1] = l[b + 1]
        BY <1>1, <4>1
      <4> QED
        BY <3>0, <4>1, <4>2
    <3>4. CASE i - w \in b + 1 .. Len(l)
      <4>1. /\ (i - w) + w = i /\ (i - w) + 1 \in b + 1 .. Len(l)
            /\ ((i - w) + 1) + w = i + 1 /\ i - w \in 1 .. Len(l) - 1
        BY <1>t, <1>1, <1>2, <3>4
      <4>2. r[i] = l[i - w] /\ r[i + 1] = l[(i - w) + 1]
        BY <1>1, <3>4, <4>1
      <4> QED
        BY <3>0, <4>1, <4>2
    <3>5. \/ i + 1 \in 1 .. b - 1 \/ i + 1 = b \/ i = b
          \/ (i = b + 1 /\ w = 1) \/ i - w \in b + 1 .. Len(l)
      BY <1>a
    <3> QED
      BY <3>1, <3>2, <3>3, <3>4, <3>5
  <2> QED
    BY <2>1 DEF NoFreeNeighbours
<1>11. UsedOf(r) = UsedOf(l) \cup {block}
  <2>1. ASSUME NEW i \in 1 .. Len(r), Used(r[i]) PROVE r[i] \in UsedOf(l) \cup {block}
    <3>1. CASE i \in 1 .. b - 1
      BY <1>t, <1>1, <2>1, <3>1 DEF UsedOf
    <3>2. CASE i = b
      BY <1>1, <3>2
    <3>3. CASE w = 1 /\ i = b + 1
      BY <1>1, <1>2, <2>1, <3>3
    <3>4. CASE i - w \in b + 1 .. Len(l) /\ (i - w) + w = i
      <4>1. r[i] = l[i - w] /\ i - w \in 1 .. Len(l)
        BY <1>t, <1>1, <3>4
      <4> QED
        BY <2>1, <4>1 DEF UsedOf
    <3> QED
      BY <1>4, <3>1, <3>2, <3>3, <3>4
  <2>2. ASSUME NEW i \in 1 .. Len(l), Used(l[i]) PROVE l[i] \in UsedOf(r)
    <3>1. CASE i < b
      <4>1. i \in 1 .. Len(r) /\ i \in 1 .. b - 1
        BY <1>a, <3>1
      <4>2. r[i] = l[i]
        BY <1>1, <4>1
      <4> QED
        BY <2>2, <4>1, <4>2 DEF UsedOf
    <3>2. CASE i > b
      <4>1. i + w \in 1 .. Len(r) /\ i \in b + 1 .. Len(l)
        BY <1>a, <3>2
      <4>2. r[i + w] = l[i]
        BY <1>1, <4>1
      <4> QED
        BY <2>2, <4>1, <4>2 DEF UsedOf
    <3> QED
      BY <1>t, <2>2, <3>1, <3>2
  <2>3. block \in UsedOf(r)
    <3>1. b \in 1 .. Len(r) /\ Used(r[b])
      BY <1>t, <1>1, <1>2
    <3> QED
      BY <1>1, <3>1 DEF UsedOf
  <2>4. UsedOf(r) \subseteq UsedOf(l) \cup {block}
    BY <2>1 DEF UsedOf
  <2>5. UsedOf(l) \subseteq UsedOf(r)
    <3>1. \A x \in UsedOf(l) : \E i \in 1 .. Len(l) : Used(l[i]) /\ x = l[i]
      BY Zenon DEF UsedOf
    <3> QED
      BY <2>2, <3>1
  <2> QED
    BY <2>3, <2>4, <2>5
<1> QED
  BY <1>9, <1>10, <1>11 DEF r, block

\* The entry that is freed is no longer used, and all others are.
LEMMA FreedRow ==
  ASSUME NEW l, NEW end, Row(l, end), NEW i \in 1 .. Len(l), Used(l[i])
  PROVE  LET r == [l EXCEPT ![i].virtAddr = NULL]
         IN  Row(r, end) /\ UsedOf(r) = UsedOf(l) \ {l[i]}
<1> DEFINE e == [l[i] EXCEPT !.virtAddr = NULL]
           r == [l EXCEPT ![i] = e]
<1>0. [l EXCEPT ![i].virtAddr = NULL] = r
  OBVIOUS
<1>t. Len(l) \in Nat /\ l \in Seq(VeMem) /\ \A j \in 1 .. Len(l) : l[j] \in VeMem
  BY RowTypes DEF Row
<1>1. e \in VeMem /\ ~ Used(e) /\ e.physAddr = l[i].physAddr /\ e.size = l[i].size
  BY <1>t DEF VeMem, Used
<1> HIDE DEF e
<1>2. /\ r \in Seq(VeMem) /\ Len(r) = Len(l)
      /\ \A j \in 1 .. Len(l) : r[j] = IF j = i THEN e ELSE l[j]
  BY <1>t, <1>1, ExceptSeq
<1> HIDE DEF r
<1>3. \A j \in 1 .. Len(l) :
        r[j].physAddr = l[j].physAddr /\ r[j].size = l[j].size /\ EndOf(r[j]) = EndOf(l[j])
  BY <1>1, <1>2 DEF EndOf
<1>4. Row(r, end)
  BY <1>t, <1>2, <1>3 DEF Row
<1>5. \A j \in 1 .. Len(l) : l[j] = l[i] => j = i
  BY RowDistinct
<1>6. UsedOf(r) = UsedOf(l) \ {l[i]}
  <2>1. \A j \in 1 .. Len(l) : Used(r[j]) => j # i /\ r[j] = l[j]
    BY <1>1, <1>2
  <2>2. \A j \in 1 .. Len(l) : Used(l[j]) /\ j # i => Used(r[j]) /\ r[j] = l[j]
    BY <1>2
  <2> QED
    BY <1>2, <1>5, <2>1, <2>2 DEF UsedOf
<1> QED
  BY <1>0, <1>4, <1>6, Zenon

-----------------------------------------------------------------------------
(* The invariant.                                                          *)

End == PhysStart + PhysTotal

VirtApart(B) ==
  \A r, s \in B : r # s => \/ r.virtAddr + r.size <= s.virtAddr
                           \/ s.virtAddr + s.size <= r.virtAddr

\* The list of an open adapter is one row over the reserved memory without free
\* neighbours, and what is used of it has its own virtual addresses.
Inv ==
  /\ ve_fd \in BOOLEAN
  /\ ~ ve_fd => ve_lst = <<>>
  /\ ve_fd => Row(ve_lst, End) /\ NoFreeNeighbours(ve_lst) /\ VirtApart(UsedOf(ve_lst))

\* Sizes are rounded up to whole pages.
LEMMA AlignedWhole ==
  ASSUME NEW asked \in Sizes
  PROVE  WholePages(PageAligned(asked))
<1>1. asked \in Nat \ {0} /\ PAGE_SIZE \in Nat \ {0}
  BY MemoryAssumption
<1>2. (asked + PAGE_SIZE - 1) \div PAGE_SIZE \in Nat \ {0}
  BY <1>1
<1> QED
  BY <1>2 DEF WholePages, PageAligned

\* If any entry fits, the best one exists.
LEMMA BestFits ==
  ASSUME NEW bytes, Row(ve_lst, End), Fitting(bytes) # {}
  PROVE  Best(bytes) \in Fitting(bytes)
<1> DEFINE F == Fitting(bytes)
           Better(i, j) == \/ ve_lst[i].size < ve_lst[j].size
                           \/ ve_lst[i].size = ve_lst[j].size /\ i < j
           T == {ve_lst[i].size : i \in F}
<1>1. /\ F \subseteq Nat /\ \A i \in F : ve_lst[i].size \in Nat
  BY RowTypes DEF Fitting
<1>2. PICK s \in T : \A t \in T : s <= t
  <2>1. T \subseteq Nat /\ T # {}
    BY <1>1
  <2> HIDE DEF T
  <2> QED
    BY <2>1, Smallest
<1> DEFINE U == {i \in F : ve_lst[i].size = s}
<1>3. PICK i \in U : \A j \in U : i <= j
  <2>1. U \subseteq Nat /\ U # {}
    BY <1>1, <1>2
  <2> HIDE DEF U
  <2> QED
    BY <2>1, Smallest
<1>4. i \in F /\ \A j \in F \ {i} : Better(i, j)
  BY <1>1, <1>2, <1>3
<1>5. Best(bytes) = CHOOSE k \in F : \A j \in F \ {k} : Better(k, j)
  BY DEF Best
<1> HIDE DEF F, Better
<1> QED
  BY <1>4, <1>5, Zenon DEF F

\* Opening makes one free entry of the reserved memory.
LEMMA OpenInv ==
  ASSUME Inv, ve_alloc_open
  PROVE  Inv' /\ UsedOf(ve_lst') = {}
<1> DEFINE e == [virtAddr |-> NULL, physAddr |-> PhysStart, size |-> PhysTotal]
<1>1. ve_lst' = Append(<<>>, e) /\ ve_fd' = TRUE
  BY DEF Inv, ve_alloc_open
<1>2. e \in VeMem /\ e.physAddr = PhysStart /\ ~ Used(e) /\ EndOf(e) = End /\ e.size = PhysTotal
  BY MemoryAssumption DEF VeMem, Used, EndOf, End
<1>3. WholePages(PhysTotal)
  BY WholeMultiple, MemoryAssumption DEF WholePages
<1> HIDE DEF e
<1>4. Row(ve_lst', End) /\ NoFreeNeighbours(ve_lst') /\ UsedOf(ve_lst') = {}
  <2>1. WholePages(e.size) /\ e \in VeMem /\ e.physAddr = PhysStart /\ ~ Used(e)
    BY <1>2, <1>3
  <2>2. /\ Row(Append(<<>>, e), EndOf(e))
        /\ UsedOf(Append(<<>>, e)) = UsedOf(<<>>) \cup (IF Used(e) THEN {e} ELSE {})
        /\ NoFreeNeighbours(<<>>) /\ (Len(<<>>) > 0 => Used(<<>>[Len(<<>>)]) \/ Used(e))
             => NoFreeNeighbours(Append(<<>>, e))
    BY <2>1, EmptyRow, AppendRow, Zenon
  <2>3. ~ (Len(<<>>) > 0)
    BY EmptyRow
  <2>4. NoFreeNeighbours(Append(<<>>, e))
    BY <2>2, <2>3, EmptyRow, Zenon
  <2>5. UsedOf(Append(<<>>, e)) = {}
    BY <2>1, <2>2, EmptyRow
  <2> QED
    BY <1>1, <1>2, <2>2, <2>4, <2>5
<1> QED
  BY <1>1, <1>4 DEF Inv, VirtApart

\* Allocating adds a block of whole pages apart from all others.
LEMMA AllocInv ==
  ASSUME Inv, NEW asked \in Sizes, NEW addr \in VirtPages, ve_alloc_alloc(asked, addr)
  PROVE  LET b == Best(PageAligned(asked))
             block == [virtAddr |-> addr, physAddr |-> ve_lst[b].physAddr,
                       size |-> PageAligned(asked)]
         IN  /\ Inv'
             /\ UsedOf(ve_lst') = UsedOf(ve_lst) \cup {block}
             /\ b \in 1 .. Len(ve_lst) /\ ~ Used(ve_lst[b])
             /\ PageAligned(asked) \in Nat \ {0} /\ PageAligned(asked) <= ve_lst[b].size
<1> DEFINE bytes == PageAligned(asked)
           b == Best(bytes)
           block == [virtAddr |-> addr, physAddr |-> ve_lst[b].physAddr, size |-> bytes]
<1>1. /\ ve_fd /\ ve_fd' /\ Fitting(bytes) # {} /\ Mappable(addr, bytes)
      /\ ve_lst' = WithCut(ve_lst, b, addr, bytes)
      /\ Row(ve_lst, End) /\ NoFreeNeighbours(ve_lst) /\ VirtApart(UsedOf(ve_lst))
  BY DEF Inv, ve_alloc_alloc, WithCut
<1>2. WholePages(bytes)
  BY AlignedWhole
<1>3. bytes \in Nat \ {0}
  BY <1>2, Multiples, MemoryAssumption DEF WholePages
<1> HIDE DEF bytes
<1>4. b \in Fitting(bytes)
  BY <1>1, BestFits
<1> HIDE DEF b
<1>5. b \in 1 .. Len(ve_lst) /\ ~ Used(ve_lst[b]) /\ bytes <= ve_lst[b].size
  BY <1>1, <1>3, <1>4, RowTypes DEF Fitting
<1>6. /\ Row(ve_lst', End) /\ NoFreeNeighbours(ve_lst')
      /\ UsedOf(ve_lst') = UsedOf(ve_lst) \cup {block}
  BY <1>1, <1>2, <1>5, CutRow
<1>7. block.virtAddr = addr /\ block.size = bytes
  OBVIOUS
<1> HIDE DEF block
<1>8. \A r \in UsedOf(ve_lst) : \/ addr + bytes <= r.virtAddr
                                \/ r.virtAddr + r.size <= addr
  BY <1>1, RowTypes DEF Mappable, UsedOf
<1>9. VirtApart(UsedOf(ve_lst'))
  BY <1>1, <1>6, <1>7, <1>8 DEF VirtApart
<1>10. Inv'
  BY <1>1, <1>6, <1>9 DEF Inv
<1> QED
  BY <1>3, <1>5, <1>6, <1>10 DEF bytes, b, block

\* Freeing takes one block away, whatever is merged then.
LEMMA FreeInv ==
  ASSUME Inv, NEW ptr \in VirtPages, ve_alloc_free(ptr)
  PROVE  Inv' /\ \E i \in 1 .. Len(ve_lst) :
                   Used(ve_lst[i]) /\ UsedOf(ve_lst') = UsedOf(ve_lst) \ {ve_lst[i]}
<1>1. PICK i \in DOMAIN ve_lst :
        /\ ve_lst[i].virtAddr = ptr
        /\ ve_lst' = Coalesce([ve_lst EXCEPT ![i].virtAddr = NULL])
  BY Zenon DEF ve_alloc_free
<1>2. /\ ve_fd /\ ve_fd' /\ ptr # NULL
      /\ Row(ve_lst, End) /\ NoFreeNeighbours(ve_lst) /\ VirtApart(UsedOf(ve_lst))
  BY DEF Inv, ve_alloc_free
<1>3. i \in 1 .. Len(ve_lst) /\ Used(ve_lst[i])
  BY <1>1, <1>2, RowTypes DEF Used
<1> DEFINE r == [ve_lst EXCEPT ![i].virtAddr = NULL]
<1>4. Row(r, End) /\ UsedOf(r) = UsedOf(ve_lst) \ {ve_lst[i]}
  BY <1>2, <1>3, FreedRow, Zenon
<1> HIDE DEF r
<1>5. /\ Row(ve_lst', End) /\ NoFreeNeighbours(ve_lst')
      /\ UsedOf(ve_lst') = UsedOf(ve_lst) \ {ve_lst[i]}
  <2>1. ve_lst' = Coalesce(r)
    BY <1>1 DEF r
  <2> QED
    BY <1>4, <2>1, CoalesceRow
<1>6. VirtApart(UsedOf(ve_lst'))
  BY <1>2, <1>5 DEF VirtApart
<1> QED
  BY <1>2, <1>3, <1>5, <1>6 DEF Inv

\* Every call keeps the invariant.
LEMMA Invariance == Spec => []Inv
<1>1. Init => Inv
  BY DEF Init, Inv
<1>2. Inv /\ [Next]_vars => Inv'
  <2> SUFFICES ASSUME Inv, [Next]_vars PROVE Inv'
    OBVIOUS
  <2>1. CASE ve_alloc_open
    BY <2>1, OpenInv
  <2>2. CASE ve_alloc_close
    BY <2>2 DEF ve_alloc_close, Inv
  <2>3. ASSUME NEW asked \in Sizes, NEW addr \in VirtPages, ve_alloc_alloc(asked, addr)
        PROVE  Inv'
    BY <2>3, AllocInv
  <2>4. ASSUME NEW ptr \in VirtPages, ve_alloc_free(ptr)
        PROVE  Inv'
    BY <2>4, FreeInv
  <2>5. CASE UNCHANGED vars
    BY <2>5 DEF vars, Inv
  <2> QED
    BY <2>1, <2>2, <2>3, <2>4, <2>5 DEF Next
<1> QED
  BY <1>1, <1>2, PTL DEF Spec

-----------------------------------------------------------------------------
(* Theorems.                                                               *)

\* Splitting and merging keep the list a partition of the reserved memory into
\* whole pages, in the order of their addresses.
THEOREM TilingKept == Spec => []Tiled
<1>1. Inv => Tiled
  <2> SUFFICES ASSUME Inv PROVE Tiled
    OBVIOUS
  <2>1. CASE ~ ve_fd
    BY <2>1, EmptySeq DEF Inv, Tiled
  <2>2. CASE ve_fd
    <3>1. Row(ve_lst, End)
      BY <2>2 DEF Inv
    <3>t. /\ Len(ve_lst) \in Nat /\ DOMAIN ve_lst = 1 .. Len(ve_lst)
          /\ \A i \in 1 .. Len(ve_lst) :
               ve_lst[i].physAddr \in Nat /\ ve_lst[i].size \in Nat \ {0}
      BY <3>1, RowTypes
    <3>2. ve_lst # <<>>
      <4>1. Len(ve_lst) # 0
        BY <3>1, MemoryAssumption DEF Row, End
      <4> QED
        BY <4>1, EmptySeq
    <3>3. ASSUME NEW i \in 1 .. Len(ve_lst)
          PROVE  ve_lst[i].size > 0 /\ ve_lst[i].size % PAGE_SIZE = 0
      <4>1. PICK q \in Nat \ {0} : ve_lst[i].size = q * PAGE_SIZE
        BY <3>1 DEF Row, WholePages
      <4>2. (q * PAGE_SIZE) % PAGE_SIZE = 0
        BY Multiples, MemoryAssumption
      <4> QED
        BY <3>t, <4>1, <4>2
    <3>4. ASSUME NEW i \in 1 .. Len(ve_lst)
          PROVE  ve_lst[i].physAddr = IF i = 1 THEN PhysStart
                                      ELSE ve_lst[i - 1].physAddr + ve_lst[i - 1].size
      <4>1. CASE i = 1
        BY <3>1, <3>t, <4>1 DEF Row
      <4>2. CASE i # 1
        <5>1. i - 1 \in 1 .. Len(ve_lst) - 1 /\ (i - 1) + 1 = i
          BY <3>t, <4>2
        <5>2. ve_lst[(i - 1) + 1].physAddr = EndOf(ve_lst[i - 1])
          BY <3>1, <5>1 DEF Row
        <5> QED
          BY <4>2, <5>1, <5>2 DEF EndOf
      <4> QED
        BY <4>1, <4>2
    <3>5. ASSUME NEW i \in 1 .. Len(ve_lst), i = Len(ve_lst)
          PROVE  ve_lst[i].physAddr + ve_lst[i].size = PhysStart + PhysTotal
      BY <3>1, <3>t, <3>5 DEF Row, EndOf, End
    <3> QED
      BY <2>2, <3>t, <3>2, <3>3, <3>4, <3>5 DEF Tiled
  <2> QED
    BY <2>1, <2>2
<1> QED
  BY <1>1, Invariance, PTL

\* The run that is long enough lies in one free entry, because free entries have
\* no free neighbours: ve_alloc_alloc refuses only what does not fit.
THEOREM ShortageReal == Spec => []NoFalseShortage
<1>1. Inv => NoFalseShortage
  <2> DEFINE FreePage(a) ==
        \A i \in DOMAIN ve_lst :
          Used(ve_lst[i]) => ~ (a >= ve_lst[i].physAddr
                                /\ a < ve_lst[i].physAddr + ve_lst[i].size)
      Start == {PhysStart + n * PAGE_SIZE : n \in 0 .. PhysTotal \div PAGE_SIZE - 1}
  <2>1. ASSUME Inv, NEW asked \in Sizes, NEW s \in Start, ve_fd,
               s + PageAligned(asked) <= PhysStart + PhysTotal,
               \A a \in Start : s <= a /\ a < s + PageAligned(asked) => FreePage(a)
        PROVE  Fitting(PageAligned(asked)) # {}
    <3> DEFINE bytes == PageAligned(asked)
    <3>1. Row(ve_lst, End) /\ NoFreeNeighbours(ve_lst)
      BY <2>1 DEF Inv
    <3>2. bytes \in Nat \ {0}
      BY AlignedWhole, Multiples, MemoryAssumption DEF WholePages
    <3>3. s \in Nat /\ PhysStart <= s
      <4>1. PICK n \in Nat : s = PhysStart + n * PAGE_SIZE
        OBVIOUS
      <4>2. n * PAGE_SIZE \in Nat
        BY Multiples, MemoryAssumption
      <4> QED
        BY <4>1, <4>2, MemoryAssumption
    <3> HIDE DEF bytes, Start
    <3>4. s + bytes <= End /\ End \in Nat /\ s < End
      BY <2>1, <3>2, <3>3, MemoryAssumption DEF End, bytes
    <3>t. /\ Len(ve_lst) \in Nat /\ DOMAIN ve_lst = 1 .. Len(ve_lst)
          /\ \A i \in 1 .. Len(ve_lst) :
               /\ ve_lst[i].physAddr \in Nat /\ ve_lst[i].size \in Nat \ {0}
               /\ EndOf(ve_lst[i]) = ve_lst[i].physAddr + ve_lst[i].size
      BY <3>1, RowTypes DEF EndOf
    <3>5. PICK i \in 1 .. Len(ve_lst) : ve_lst[i].physAddr <= s /\ s < EndOf(ve_lst[i])
      BY <3>1, <3>3, <3>4, RowCovers
    <3>6. ~ Used(ve_lst[i])
      <4>1. FreePage(s)
        BY <2>1, <3>2, <3>3 DEF bytes
      <4> QED
        BY <3>t, <3>5, <4>1
    <3>7. EndOf(ve_lst[i]) >= s + bytes
      <4>0. EndOf(ve_lst[i]) \in Nat /\ s \in Nat /\ bytes \in Nat
        BY <3>t, <3>2, <3>3
      <4>1. SUFFICES ASSUME EndOf(ve_lst[i]) < s + bytes PROVE FALSE
        BY <4>0
      <4>2. i # Len(ve_lst)
        <5>1. Len(ve_lst) # 0 => End = EndOf(ve_lst[Len(ve_lst)])
          BY <3>1, Zenon DEF Row
        <5>2. Len(ve_lst) # 0 /\ EndOf(ve_lst[i]) \in Nat
          BY <3>t
        <5>3. EndOf(ve_lst[i]) < End
          BY <4>1, <5>2, <3>2, <3>3, <3>4
        <5> QED
          BY <5>1, <5>2, <5>3
      <4> DEFINE t == ve_lst[i + 1].physAddr
      <4>3. /\ i \in 1 .. Len(ve_lst) - 1 /\ i + 1 \in 1 .. Len(ve_lst)
            /\ t = EndOf(ve_lst[i]) /\ t \in Nat
        <5>1. i \in 1 .. Len(ve_lst) - 1 /\ i + 1 \in 1 .. Len(ve_lst)
          <6>1. Len(ve_lst) \in Nat
            BY <3>t
          <6> HIDE DEF t
          <6> QED
            BY <4>2, <6>1
        <5>2. t = EndOf(ve_lst[i])
          BY <5>1, <3>1, Zenon DEF Row
        <5> QED
          BY <5>1, <5>2, <3>t
      <4>4. PICK q \in Nat : t = PhysStart + q * PAGE_SIZE
        BY <4>3, <3>1, RowPages
      <4>5. t < End
        BY <4>1, <4>3, <3>t, <3>2, <3>3, <3>4
      <4> HIDE DEF t
      <4>6. t \in Start
        <5>1. PICK p \in Nat \ {0} : PhysTotal = p * PAGE_SIZE
          BY WholeMultiple, MemoryAssumption
        <5>2. /\ q * PAGE_SIZE \in Nat /\ p * PAGE_SIZE \in Nat
              /\ p * PAGE_SIZE > q * PAGE_SIZE => p > q
          BY Multiples, MemoryAssumption
        <5>3. q < p
          BY <4>3, <4>4, <4>5, <5>1, <5>2, MemoryAssumption DEF End
        <5>4. PhysTotal \div PAGE_SIZE = p
          BY <5>1, Divided, MemoryAssumption
        <5>5. q \in 0 .. PhysTotal \div PAGE_SIZE - 1
          BY <5>3, <5>4
        <5> QED
          BY <4>4, <5>5 DEF Start
      <4>7. FreePage(t)
        BY <2>1, <3>t, <3>5, <4>1, <4>3, <4>6, <3>2, <3>3 DEF bytes
      <4>8. ~ Used(ve_lst[i + 1])
        BY <4>3, <4>7, <3>t DEF t
      <4> QED
        BY <3>1, <3>6, <4>3, <4>8 DEF NoFreeNeighbours
    <3>8. i \in Fitting(bytes)
      BY <3>t, <3>2, <3>3, <3>5, <3>6, <3>7 DEF Fitting
    <3> QED
      BY <3>8 DEF bytes
  <2> QED
    BY <2>1 DEF NoFalseShortage
<1> QED
  BY <1>1, Invariance, PTL

\* Address 0 means no address to ve_alloc_phy2vir, so the reserved memory may not
\* begin there.
PhysNotNull == PhysStart # NULL

\* The translations undo each other inside a block: neither the virtual addresses
\* nor the physical ones of two entries overlap, so the first match is the block.
THEOREM Translations == PhysNotNull => (Spec => []TranslationsInverse)
<1> SUFFICES ASSUME PhysNotNull PROVE Spec => []TranslationsInverse
  OBVIOUS
<1>1. Inv => TranslationsInverse
  <2>1. ASSUME Inv, NEW i \in DOMAIN ve_lst, Used(ve_lst[i]),
               NEW k \in 0 .. ve_lst[i].size - 1
        PROVE  /\ ve_alloc_vir2phy(ve_lst[i].virtAddr + k) = ve_lst[i].physAddr + k
               /\ ve_alloc_phy2vir(ve_lst[i].physAddr + k) = ve_lst[i].virtAddr + k
    <3>1. ve_fd /\ Row(ve_lst, End) /\ VirtApart(UsedOf(ve_lst))
      BY <2>1, EmptySeq DEF Inv
    <3>t. /\ Len(ve_lst) \in Nat /\ i \in 1 .. Len(ve_lst)
          /\ \A j \in 1 .. Len(ve_lst) :
               /\ ve_lst[j].physAddr \in Nat /\ ve_lst[j].size \in Nat \ {0}
               /\ ve_lst[j].virtAddr \in Nat
               /\ EndOf(ve_lst[j]) = ve_lst[j].physAddr + ve_lst[j].size
               /\ ve_lst[j].physAddr # NULL
      <4>1. ASSUME NEW j \in 1 .. Len(ve_lst)
            PROVE  /\ ve_lst[j].virtAddr \in Nat
                   /\ ve_lst[j].physAddr # NULL
        <5>1. ve_lst[j] \in VeMem /\ ve_lst[j].physAddr \in Nat
          BY <3>1, RowTypes
        <5>2. PhysStart <= ve_lst[j].physAddr
          BY <3>1, RowWithin
        <5>3. ve_lst[j].virtAddr \in VirtPages \cup {NULL}
          BY <5>1 DEF VeMem
        <5>4. ve_lst[j].virtAddr \in Nat
          <6>1. VirtPages \cup {NULL} \subseteq Nat
            BY MemoryAssumption DEF NULL
          <6> QED
            BY <5>3, <6>1, Zenon
        <5>5. ve_lst[j].physAddr # NULL
          BY <5>1, <5>2, MemoryAssumption DEF NULL, PhysNotNull
        <5> QED
          BY <5>4, <5>5
      <4> QED
        BY <3>1, <4>1, RowTypes DEF EndOf
    <3>2. k \in Nat /\ k < ve_lst[i].size
      BY <3>t, <2>1
    <3>3. ASSUME NEW j \in 1 .. Len(ve_lst), Used(ve_lst[j]),
                 ve_lst[i].virtAddr + k >= ve_lst[j].virtAddr,
                 ve_lst[i].virtAddr + k < ve_lst[j].virtAddr + ve_lst[j].size
          PROVE  j = i
      <4>1. ve_lst[i] \in UsedOf(ve_lst) /\ ve_lst[j] \in UsedOf(ve_lst)
        BY <2>1, <3>t, <3>3 DEF UsedOf
      <4>2. ve_lst[i] = ve_lst[j]
        <5>1. ve_lst[i] # ve_lst[j] =>
                \/ ve_lst[i].virtAddr + ve_lst[i].size <= ve_lst[j].virtAddr
                \/ ve_lst[j].virtAddr + ve_lst[j].size <= ve_lst[i].virtAddr
          BY <3>1, <4>1, Zenon DEF VirtApart
        <5>2. /\ ve_lst[i].virtAddr \in Nat /\ ve_lst[i].size \in Nat
              /\ ve_lst[j].virtAddr \in Nat /\ ve_lst[j].size \in Nat
          BY <3>t
        <5> QED
          BY <5>1, <5>2, <3>2, <3>3
      <4> QED
        BY <3>1, <3>t, <4>2, RowDistinct
    <3>4. ASSUME NEW j \in 1 .. Len(ve_lst),
                 ve_lst[i].physAddr + k >= ve_lst[j].physAddr,
                 ve_lst[i].physAddr + k < ve_lst[j].physAddr + ve_lst[j].size
          PROVE  j = i
      <4>1. i < j => EndOf(ve_lst[i]) <= ve_lst[j].physAddr
        BY <3>1, <3>t, RowOrdered
      <4>2. j < i => EndOf(ve_lst[j]) <= ve_lst[i].physAddr
        BY <3>1, <3>t, RowOrdered
      <4> QED
        BY <4>1, <4>2, <2>1, <3>t, <3>2, <3>4
    <3>5. Min({i}) = i
      BY DEF Min
    <3>6. ve_alloc_vir2phy(ve_lst[i].virtAddr + k) = ve_lst[i].physAddr + k
      <4> DEFINE ptr == ve_lst[i].virtAddr + k
                 I == {j \in 1 .. Len(ve_lst) :
                         Used(ve_lst[j]) /\ ptr >= ve_lst[j].virtAddr
                         /\ ptr < ve_lst[j].virtAddr + ve_lst[j].size}
      <4>1. I = {i}
        BY <2>1, <3>t, <3>2, <3>3
      <4>2. ptr # NULL /\ ptr - ve_lst[i].virtAddr = k
        BY <2>1, <3>t, <3>2 DEF Used, NULL
      <4>3. ve_alloc_vir2phy(ptr) =
              LET n == IF I # {} THEN Min(I) ELSE 0
              IN  IF ptr = NULL \/ ~ ve_fd \/ n = 0 THEN NULL
                  ELSE ve_lst[n].physAddr + (ptr - ve_lst[n].virtAddr)
        BY Zenon DEF ve_alloc_vir2phy, SelectInSeq
      <4> HIDE DEF I, ptr
      <4> QED
        BY <3>1, <3>t, <3>5, <4>1, <4>2, <4>3 DEF ptr
    <3>7. ve_alloc_phy2vir(ve_lst[i].physAddr + k) = ve_lst[i].virtAddr + k
      <4> DEFINE ptr == ve_lst[i].physAddr + k
                 I == {j \in 1 .. Len(ve_lst) :
                         ve_lst[j].physAddr # NULL /\ ptr >= ve_lst[j].physAddr
                         /\ ptr < ve_lst[j].physAddr + ve_lst[j].size}
      <4>1. I = {i}
        BY <2>1, <3>t, <3>2, <3>4
      <4>2. ptr # NULL /\ ptr - ve_lst[i].physAddr = k
        BY <3>t, <3>2 DEF NULL
      <4>3. ve_alloc_phy2vir(ptr) =
              LET n == IF I # {} THEN Min(I) ELSE 0
              IN  IF ptr = NULL \/ ~ ve_fd \/ n = 0 THEN NULL
                  ELSE ve_lst[n].virtAddr + (ptr - ve_lst[n].physAddr)
        BY Zenon DEF ve_alloc_phy2vir, SelectInSeq
      <4> HIDE DEF I, ptr
      <4> QED
        BY <3>1, <3>t, <3>5, <4>1, <4>2, <4>3 DEF ptr
    <3> QED
      BY <3>6, <3>7
  <2> QED
    BY <2>1 DEF TranslationsInverse
<1> QED
  BY <1>1, Invariance, PTL

-----------------------------------------------------------------------------
(* The promise of the adapter: every block is a range of the memory that is *)
(* nobody else's.                                                           *)

RangeOf(mem) == [start |-> mem.physAddr, size |-> mem.size]
Live(l) == {RangeOf(mem) : mem \in UsedOf(l)}

\* What MemoryPool sees of the list.
LEMMA LiveIs ==
  ASSUME NEW l, DOMAIN l = 1 .. Len(l)
  PROVE  {[start |-> l[i].physAddr, size |-> l[i].size] : i \in {j \in DOMAIN l : Used(l[j])}}
           = Live(l)
BY DEF Live, UsedOf, RangeOf

\* The list is a sequence, open or not.
LEMMA DomainIs ==
  ASSUME NEW l, l = <<>> \/ Row(l, End)
  PROVE  DOMAIN l = 1 .. Len(l)
<1>1. CASE l = <<>>
  <2>1. l \in Seq(VeMem)
    BY <1>1, EmptySeq
  <2> QED
    BY <2>1, LenProperties
<1>2. CASE Row(l, End)
  BY <1>2, RowTypes
<1> QED
  BY <1>1, <1>2

\* The range of a block is apart from those of all others.
LEMMA BlockApart ==
  ASSUME NEW l, NEW end, Row(l, end), NEW b \in 1 .. Len(l), ~ Used(l[b]),
         NEW bytes \in Nat \ {0}, bytes <= l[b].size
  PROVE  LET r == [start |-> l[b].physAddr, size |-> bytes]
         IN  \A s \in Live(l) : Pool!Apart(r, s)
<1>1. SUFFICES ASSUME NEW j \in 1 .. Len(l), Used(l[j])
               PROVE  \/ l[b].physAddr + bytes <= l[j].physAddr
                      \/ l[j].physAddr + l[j].size <= l[b].physAddr
  BY DEF Live, UsedOf, RangeOf, Pool!Apart
<1>2. /\ l[b].physAddr \in Nat /\ l[b].size \in Nat /\ EndOf(l[b]) = l[b].physAddr + l[b].size
      /\ l[j].physAddr \in Nat /\ l[j].size \in Nat /\ EndOf(l[j]) = l[j].physAddr + l[j].size
      /\ Len(l) \in Nat
  BY RowTypes DEF EndOf
<1>3. j # b
  BY <1>1
<1>4. b < j => EndOf(l[b]) <= l[j].physAddr
  BY RowOrdered
<1>5. j < b => EndOf(l[j]) <= l[b].physAddr
  BY RowOrdered
<1> QED
  BY <1>2, <1>3, <1>4, <1>5

\* The step simulation of PoolSpec: what is in use is what MemoryPool says.
THEOREM PoolKept == Spec => PoolSpec
<1> DEFINE live == {[start |-> ve_lst[i].physAddr, size |-> ve_lst[i].size] :
                      i \in {j \in DOMAIN ve_lst : Used(ve_lst[j])}}
<1>1. Init => Pool!Init
  BY EmptySeq DEF Init, Pool!Init
<1>2. Inv /\ Inv' /\ [Next]_vars => [Pool!Next]_(Pool!vars)
  <2> SUFFICES ASSUME Inv, Inv', [Next]_vars PROVE Pool!Next \/ UNCHANGED Pool!vars
    BY DEF Pool!vars
  <2>l. live = Live(ve_lst) /\ live' = Live(ve_lst')
    <3>1. DOMAIN ve_lst = 1 .. Len(ve_lst) /\ DOMAIN ve_lst' = 1 .. Len(ve_lst')
      BY DomainIs DEF Inv
    <3>2. live = Live(ve_lst)
      BY <3>1, LiveIs
    <3>3. live' = Live(ve_lst')
      BY <3>1, LiveIs
    <3> QED
      BY <3>2, <3>3
  <2>n. \A x \in Pool!Range : Pool!Allocate(x) \/ Pool!Free(x) => Pool!Next
    BY Zenon DEF Pool!Next
  <2>m. PhysStart \in Nat /\ PhysTotal \in Nat \ {0} /\ End = PhysStart + PhysTotal
    BY MemoryAssumption DEF End
  <2>e. ~ ve_fd => UsedOf(ve_lst) = {} /\ Live(ve_lst) = {}
    BY EmptyRow DEF Inv, Live
  <2>1. CASE ve_alloc_open
    <3>1. UsedOf(ve_lst') = {} /\ ~ ve_fd /\ ve_fd' = TRUE
      BY <2>1, OpenInv DEF ve_alloc_open
    <3>2. live' = {} /\ live = {}
      BY <2>l, <2>e, <3>1 DEF Live
    <3> QED
      BY <3>1, <3>2 DEF Pool!Next, Pool!Open
  <2>2. CASE ve_alloc_close
    <3>1. ve_fd' = FALSE /\ live' = {}
      BY <2>2, EmptySeq DEF ve_alloc_close
    <3> QED
      BY <3>1 DEF Pool!Next, Pool!Close
  <2>3. ASSUME NEW asked \in Sizes, NEW addr \in VirtPages, ve_alloc_alloc(asked, addr)
        PROVE  Pool!Next
    <3> DEFINE bytes == PageAligned(asked)
               b == Best(bytes)
               block == [virtAddr |-> addr, physAddr |-> ve_lst[b].physAddr, size |-> bytes]
    <3>r. PICK r : r = [start |-> ve_lst[b].physAddr, size |-> bytes]
      OBVIOUS
    <3>1. /\ UsedOf(ve_lst') = UsedOf(ve_lst) \cup {block}
          /\ b \in 1 .. Len(ve_lst) /\ ~ Used(ve_lst[b])
          /\ bytes \in Nat \ {0} /\ bytes <= ve_lst[b].size
      BY <2>3, AllocInv, Zenon
    <3>2. ve_fd /\ ve_fd' = ve_fd /\ Row(ve_lst, End)
      BY <2>3 DEF ve_alloc_alloc, Inv
    <3>3. RangeOf(block) = r /\ r.start = ve_lst[b].physAddr /\ r.size = bytes
      BY <3>r DEF RangeOf
    <3> HIDE DEF bytes, b, block
    <3>4. /\ ve_lst[b].physAddr \in Nat /\ ve_lst[b].size \in Nat
          /\ EndOf(ve_lst[b]) = ve_lst[b].physAddr + ve_lst[b].size
          /\ PhysStart <= ve_lst[b].physAddr /\ EndOf(ve_lst[b]) <= End
      BY <3>1, <3>2, RowTypes, RowWithin DEF EndOf
    <3>5. /\ ve_lst[b].physAddr + bytes <= PhysStart + PhysTotal
          /\ ve_lst[b].physAddr \in PhysStart .. PhysStart + PhysTotal - 1
          /\ bytes \in 1 .. PhysTotal
      BY <3>1, <3>4, <2>m
    <3>6. \A s \in live : Pool!Apart(r, s)
      BY <2>l, <3>r, <3>1, <3>2, BlockApart, Zenon
    <3>7. live' = live \cup {r}
      BY <2>l, <3>1, <3>3 DEF Live
    <3>8. Pool!Allocate(r)
      BY <3>2, <3>3, <3>5, <3>6, <3>7 DEF Pool!Allocate
    <3>9. r \in Pool!Range
      BY <3>r, <3>5 DEF Pool!Range
    <3> QED
      BY <2>n, <3>8, <3>9, Zenon
  <2>4. ASSUME NEW ptr \in VirtPages, ve_alloc_free(ptr)
        PROVE  Pool!Next
    <3>1. PICK i \in 1 .. Len(ve_lst) :
            Used(ve_lst[i]) /\ UsedOf(ve_lst') = UsedOf(ve_lst) \ {ve_lst[i]}
      BY <2>4, FreeInv, Zenon
    <3>2. ve_fd /\ ve_fd' = ve_fd /\ Row(ve_lst, End)
      BY <2>4 DEF ve_alloc_free, Inv
    <3>r. PICK r : r = RangeOf(ve_lst[i])
      OBVIOUS
    <3>3. r \in live
      <4>1. ve_lst[i] \in UsedOf(ve_lst)
        BY <3>1 DEF UsedOf
      <4> HIDE DEF live
      <4> QED
        BY <2>l, <3>r, <4>1 DEF Live
    <3>4. live' = live \ {r}
      <4>1. \A j \in 1 .. Len(ve_lst) : RangeOf(ve_lst[j]) = r => j = i
        BY <3>r, <3>2, RowDistinct DEF RangeOf
      <4>2. \A mem \in UsedOf(ve_lst) : RangeOf(mem) = r => mem = ve_lst[i]
        BY <4>1 DEF UsedOf
      <4> HIDE DEF live
      <4> QED
        BY <2>l, <3>r, <3>1, <4>2 DEF Live
    <3>5. r \in Pool!Range
      <4>1. /\ ve_lst[i].physAddr \in Nat /\ ve_lst[i].size \in Nat \ {0}
            /\ EndOf(ve_lst[i]) = ve_lst[i].physAddr + ve_lst[i].size
            /\ PhysStart <= ve_lst[i].physAddr /\ EndOf(ve_lst[i]) <= End
        BY <3>1, <3>2, RowTypes, RowWithin DEF EndOf
      <4>2. /\ ve_lst[i].physAddr \in PhysStart .. PhysStart + PhysTotal - 1
            /\ ve_lst[i].size \in 1 .. PhysTotal
        BY <4>1, <2>m
      <4> QED
        BY <3>r, <4>2 DEF Pool!Range, RangeOf
    <3>6. Pool!Free(r)
      BY <3>2, <3>3, <3>4 DEF Pool!Free
    <3> QED
      BY <2>n, <3>5, <3>6, Zenon
  <2>5. CASE UNCHANGED vars
    BY <2>5 DEF vars, Pool!vars
  <2> QED
    BY <2>1, <2>2, <2>3, <2>4, <2>5, Zenon DEF Next
<1>3. Spec => []Inv
  BY Invariance
<1> HIDE DEF live
<1> QED
  BY <1>1, <1>2, <1>3, PTL DEF Spec, PoolSpec, Pool!Spec

-----------------------------------------------------------------------------
(* The merging loops.                                                      *)

\* Whichever entry ve_alloc_free marks as free, its loops begin with a list that
\* WalkInit has: only that entry can have free neighbours.
MarkedCanArise ==
  \A i \in DOMAIN ve_lst : CanArise([ve_lst EXCEPT ![i].virtAddr = NULL])

THEOREM LoopsBegin == Spec => []MarkedCanArise
<1>1. Inv => MarkedCanArise
  <2> SUFFICES ASSUME Inv, NEW f \in DOMAIN ve_lst
               PROVE  CanArise([ve_lst EXCEPT ![f].virtAddr = NULL])
    BY DEF MarkedCanArise
  <2> DEFINE marked == [ve_lst EXCEPT ![f].virtAddr = NULL]
  <2>1. ve_fd /\ Row(ve_lst, End) /\ NoFreeNeighbours(ve_lst)
    BY EmptySeq DEF Inv
  <2>2. /\ Len(ve_lst) \in Nat /\ DOMAIN ve_lst = 1 .. Len(ve_lst)
        /\ ve_lst[f] \in VeMem /\ ve_lst \in Seq(VeMem)
    BY <2>1, RowTypes DEF Row
  <2>3. /\ DOMAIN marked = DOMAIN ve_lst /\ Len(marked) = Len(ve_lst)
        /\ ~ Used(marked[f])
        /\ \A i \in 1 .. Len(ve_lst) : i # f => marked[i] = ve_lst[i]
    BY <2>2, LenProperties DEF Used, VeMem
  <2> HIDE DEF marked
  <2>4. ASSUME NEW i \in 1 .. Len(marked) - 1, ~ Used(marked[i]), ~ Used(marked[i + 1])
        PROVE  f \in {i, i + 1}
    <3>1. /\ i \in 1 .. Len(ve_lst) - 1 /\ i \in 1 .. Len(ve_lst)
          /\ i + 1 \in 1 .. Len(ve_lst)
      BY <2>2, <2>3
    <3>2. Used(ve_lst[i]) \/ Used(ve_lst[i + 1])
      BY <2>1, <3>1 DEF NoFreeNeighbours
    <3> QED
      BY <2>3, <2>4, <3>1, <3>2
  <2>5. CanArise(marked)
    BY <2>2, <2>3, <2>4 DEF CanArise
  <2> QED
    BY <2>5 DEF marked
<1> QED
  BY <1>1, Invariance, PTL

(* The links of the list as VeAlloc builds it.                             *)

\* Nodes 0 to k in a ring, and the others up to n by themselves.
Chained(l, n, k) ==
  /\ l.next \in [0 .. n -> 0 .. n] /\ l.prev \in [0 .. n -> 0 .. n]
  /\ \A x \in 0 .. n : l.next[x] = IF x < k THEN x + 1 ELSE IF x = k THEN 0 ELSE x
  /\ \A x \in 0 .. n : l.prev[x] = IF x = 0 THEN k ELSE IF x <= k THEN x - 1 ELSE x

\* A function with two values replaced.
LEMMA TwoReplaced ==
  ASSUME NEW S, NEW T, NEW f \in [S -> T], NEW a \in S, NEW b \in S, NEW u \in T, NEW w \in T,
         NEW g, g = [f EXCEPT ![a] = u, ![b] = w]
  PROVE  /\ g \in [S -> T]
         /\ \A x \in S : g[x] = IF x = b THEN w ELSE IF x = a THEN u ELSE f[x]
OBVIOUS

\* list_add behind the last node.
LEMMA ChainGrows ==
  ASSUME NEW l, NEW n \in Nat, NEW k \in 1 .. n - 1, Chained(l, n, k)
  PROVE  Chained(list_add(l, k + 1, k), n, k + 1)
<1> DEFINE r == list_add(l, k + 1, k)
<1>f. l.next \in [0 .. n -> 0 .. n] /\ l.prev \in [0 .. n -> 0 .. n]
  BY Zenon DEF Chained
<1>0. k \in 0 .. n /\ k + 1 \in 0 .. n /\ 0 \in 0 .. n /\ k # 0
  OBVIOUS
<1>n. \A x \in 0 .. n : l.next[x] = IF x < k THEN x + 1 ELSE IF x = k THEN 0 ELSE x
  BY DEF Chained
<1>p. \A x \in 0 .. n : l.prev[x] = IF x = 0 THEN k ELSE IF x <= k THEN x - 1 ELSE x
  BY DEF Chained
<1>1. l.next[k] = 0
  BY <1>0, <1>n
<1>2. /\ r.next = [l.next EXCEPT ![k + 1] = 0, ![k] = k + 1]
      /\ r.prev = [l.prev EXCEPT ![0] = k + 1, ![k + 1] = k]
  BY <1>1 DEF list_add, __list_add
<1> HIDE DEF r
<1>3. r.next \in [0 .. n -> 0 .. n] /\ r.prev \in [0 .. n -> 0 .. n]
  <2> DEFINE S == 0 .. n
             kk == k + 1
  <2>1. /\ k \in S /\ kk \in S /\ 0 \in S /\ l.next \in [S -> S] /\ l.prev \in [S -> S]
        /\ r.next = [l.next EXCEPT ![kk] = 0, ![k] = kk]
        /\ r.prev = [l.prev EXCEPT ![0] = kk, ![kk] = k]
    BY <1>f, <1>0, <1>2, Zenon
  <2> HIDE DEF S, kk
  <2>2. r.next \in [S -> S]
    BY <2>1
  <2>3. r.prev \in [S -> S]
    BY <2>1
  <2> QED
    BY <2>2, <2>3 DEF S
<1>4. \A x \in 0 .. n : r.next[x] = IF x = k THEN k + 1 ELSE IF x = k + 1 THEN 0 ELSE l.next[x]
  BY <1>f, <1>0, <1>2, TwoReplaced, Zenon
<1>5. \A x \in 0 .. n : r.prev[x] = IF x = k + 1 THEN k ELSE IF x = 0 THEN k + 1 ELSE l.prev[x]
  BY <1>f, <1>0, <1>2, TwoReplaced, Zenon
<1>6. ASSUME NEW x \in 0 .. n
      PROVE  r.next[x] = IF x < k + 1 THEN x + 1 ELSE IF x = k + 1 THEN 0 ELSE x
  <2>1. l.next[x] = IF x < k THEN x + 1 ELSE IF x = k THEN 0 ELSE x
    BY <1>n
  <2>2. r.next[x] = IF x = k THEN k + 1 ELSE IF x = k + 1 THEN 0 ELSE l.next[x]
    BY <1>4
  <2> QED
    BY <2>1, <2>2
<1>7. ASSUME NEW x \in 0 .. n
      PROVE  r.prev[x] = IF x = 0 THEN k + 1 ELSE IF x <= k + 1 THEN x - 1 ELSE x
  <2>1. l.prev[x] = IF x = 0 THEN k ELSE IF x <= k THEN x - 1 ELSE x
    BY <1>p
  <2>2. r.prev[x] = IF x = k + 1 THEN k ELSE IF x = 0 THEN k + 1 ELSE l.prev[x]
    BY <1>5
  <2> QED
    BY <2>1, <2>2
<1> QED
  BY <1>3, <1>6, <1>7 DEF Chained, r

\* ListOf(n) is the ring of HEAD and the entries 1 to n.
LEMMA ListIsChained ==
  ASSUME NEW n \in Nat \ {0}
  PROVE  Chained(ListOf(n), n, n)
<1> DEFINE base == list_add_tail(INIT_LIST_HEAD(0 .. n), 1, HEAD)
           lst == [i \in 1 .. n - 1 |-> i + 1]
           F(g) == [s \in SUBSET (1 .. n - 1) |->
                      IF s = {} THEN base
                      ELSE list_add(g[s \ {Max(s)}], lst[Max(s)], lst[Max(s)] - 1)]
           iter == CHOOSE g : g = F(g)
<1>1. Chained(base, n, 1)
  <2> DEFINE i == [p \in 0 .. n |-> p]
  <2>1. i[0] = 0 /\ 0 \in 0 .. n /\ 1 \in 0 .. n /\ i \in [0 .. n -> 0 .. n]
    OBVIOUS
  <2>2. base.next = [i EXCEPT ![1] = 0, ![0] = 1] /\ base.prev = [i EXCEPT ![0] = 1, ![1] = 0]
    BY <2>1 DEF list_add_tail, __list_add, INIT_LIST_HEAD, HEAD
  <2>3. \A x \in 0 .. n : i[x] = x
    OBVIOUS
  <2> HIDE DEF base, i
  <2>4. base.next \in [0 .. n -> 0 .. n] /\ base.prev \in [0 .. n -> 0 .. n]
    BY <2>1, <2>2
  <2>5. /\ \A x \in 0 .. n : base.next[x] = IF x = 0 THEN 1 ELSE IF x = 1 THEN 0 ELSE x
        /\ \A x \in 0 .. n : base.prev[x] = IF x = 1 THEN 0 ELSE IF x = 0 THEN 1 ELSE x
    BY <2>1, <2>2, <2>3
  <2>6. \A x \in 0 .. n : base.next[x] = IF x < 1 THEN x + 1 ELSE IF x = 1 THEN 0 ELSE x
    BY <2>5
  <2>7. \A x \in 0 .. n : base.prev[x] = IF x = 0 THEN 1 ELSE IF x <= 1 THEN x - 1 ELSE x
    BY <2>5
  <2> QED
    BY <2>4, <2>6, <2>7 DEF Chained
<1> HIDE DEF base
<1>2. \A g : IsFold(g, "add", base, lst, 1 .. n - 1) <=> g = F(g)
  BY DEF IsFold, Step
<1>3. DOMAIN lst = 1 .. n - 1 /\ n - 1 \in Nat
  OBVIOUS
<1>4. ListOf(n) = iter[1 .. n - 1]
  BY <1>3, Zenon DEF ListOf, FoldLeft, MapThenFoldSet, base
<1>5. \A k \in 1 .. n - 1 : lst[k] = k + 1
  OBVIOUS
<1> HIDE DEF lst, F
<1>6. iter = F(iter)
  BY <1>2, <1>3, FoldExists, Zenon
<1> HIDE DEF iter
<1>7. IsFold(iter, "add", base, lst, 1 .. n - 1)
  BY <1>2, <1>6, Zenon
<1>8. /\ iter[1 .. 0] = base
      /\ \A k \in 1 .. n - 1 : iter[1 .. k] = Step("add", iter[1 .. k - 1], lst[k])
  <2>1. GivesSteps(iter, "add", base, lst, n - 1)
    BY <1>3, <1>7, FoldSteps, Zenon
  <2> QED
    BY <2>1 DEF GivesSteps
<1> DEFINE C == {k \in Nat : k <= n - 1 => Chained(iter[1 .. k], n, k + 1)}
<1>9. 0 \in C
  BY <1>1, <1>8
<1>10. ASSUME NEW k \in Nat, k \in C PROVE k + 1 \in C
  <2>1. SUFFICES ASSUME k + 1 <= n - 1 PROVE Chained(iter[1 .. k + 1], n, (k + 1) + 1)
    OBVIOUS
  <2>2. Chained(iter[1 .. k], n, k + 1) /\ k + 1 \in 1 .. n - 1 /\ n \in Nat
    BY <1>10, <2>1
  <2>3. lst[k + 1] = (k + 1) + 1 /\ lst[k + 1] - 1 = k + 1 /\ (k + 1) - 1 = k
    BY <1>5, <2>2
  <2>4. iter[1 .. k + 1] = list_add(iter[1 .. k], (k + 1) + 1, k + 1)
    BY <1>8, <2>2, <2>3 DEF Step
  <2> QED
    BY <2>2, <2>4, ChainGrows, Zenon
<1> HIDE DEF C
<1>11. n - 1 \in C
  BY <1>3, <1>9, <1>10, Induction
<1> QED
  BY <1>3, <1>4, <1>11 DEF C

-----------------------------------------------------------------------------
(* The invariant of the loops.                                             *)

Count == Len(before)

\* The neighbours in the ring of all entries, before any is freed.
Up(x) == IF x = Count THEN 0 ELSE x + 1
Down(x) == IF x = 0 THEN Count ELSE x - 1

Free(i) == ~ Used(before[i])

ListOK ==
  /\ before \in Seq([virtAddr : Nat, physAddr : Nat, size : {1}])
  /\ Count \in Nat \ {0}

\* The only free neighbours are the entries v to e: the one just freed, and the
\* one on each side of it if it is free.
Run(v, e) ==
  /\ v <= e /\ e <= v + 2
  /\ \A i \in v .. e : Free(i)
  /\ \A i \in 1 .. Count - 1 : Free(i) /\ Free(i + 1) => v <= i /\ i < e

\* The links when the r entries behind v have been deleted, which keep their own.
Ring(v, r) ==
  /\ links.next \in [0 .. Count -> 0 .. Count] /\ links.prev \in [0 .. Count -> 0 .. Count]
  /\ \A x \in 0 .. Count : links.next[x] = IF x = v THEN Up(v + r) ELSE Up(x)
  /\ \A x \in (0 .. Count) \ (v + 1 .. v + r) :
       links.prev[x] = IF x = Up(v + r) THEN v ELSE Down(x)
  /\ r = 2 => links.prev[v + 2] = v

\* The r entries behind v have been freed, in this order, and v has their sizes.
\* When there are two of them, one may have been freed again.
Taken(v, r) ==
  /\ freed \in Seq(Nat) /\ Len(freed) >= r /\ (r < 2 => Len(freed) = r)
  /\ \A k \in 1 .. r : freed[k] = v + k
  /\ \A k \in 1 .. Len(freed) : freed[k] \in v + 1 .. v + r
  /\ \A j, k \in 1 .. Len(freed) : j # k /\ freed[j] = freed[k] => freed[k] = v + 2
  /\ size \in [1 .. Count -> Nat]
  /\ \A x \in (1 .. Count) \ (v + 1 .. v + r) : size[x] = IF x = v THEN 1 + r ELSE 1

\* The outer loop visits every entry, also the freed ones; the inner loop is
\* behind a free or freed entry, and has deleted r entries when it is behind v.
\* From the first of two freed entries it may have gone past the second.
Cursors(v, e, r) ==
  /\ ve \in 0 .. Count /\ tmp = Up(ve) /\ pc \in {"outer", "inner", "done"}
  /\ ve # 0 /\ ve < v => r = 0
  /\ ve = v /\ pc = "outer" => r = 0
  /\ ve = 0 \/ ve > v => r = e - v
  /\ pc = "inner" =>
       /\ ve # 0 /\ Free(ve)
       /\ \/ ne = (IF ve = v THEN Up(v + r) ELSE Up(ve))
          \/ ve = v + 1 /\ r = 2 /\ ne = Up(v + 2)
       /\ tmp2 = Up(ne)
  /\ pc = "done" => ve = 0

WalkInv ==
  /\ ListOK
  /\ \E v, e \in 1 .. Count :
       /\ Run(v, e)
       /\ \E r \in 0 .. e - v : Ring(v, r) /\ Taken(v, r) /\ Cursors(v, e, r)

\* The one entry that was just freed has at most one free neighbour on each side.
LEMMA RunExists ==
  ASSUME ListOK, CanArise(before)
  PROVE  \E v, e \in 1 .. Count : Run(v, e)
<1>0. Count \in Nat \ {0} /\ DOMAIN before = 1 .. Count
  BY LenProperties DEF ListOK, Count
<1>1. PICK f \in 1 .. Count :
        /\ Free(f)
        /\ \A i \in 1 .. Count - 1 : Free(i) /\ Free(i + 1) => f \in {i, i + 1}
  BY <1>0 DEF CanArise, Free, Count
<1> DEFINE v == IF f > 1 /\ Free(f - 1) THEN f - 1 ELSE f
           e == IF f < Count /\ Free(f + 1) THEN f + 1 ELSE f
<1>2. v \in 1 .. Count /\ e \in 1 .. Count /\ v <= e /\ e <= v + 2 /\ v <= f /\ f <= e
  BY <1>0
<1>3. \A i \in v .. e : i = f \/ (i = f - 1 /\ Free(f - 1)) \/ (i = f + 1 /\ Free(f + 1))
  BY <1>0
<1>4. \A i \in v .. e : Free(i)
  BY <1>1, <1>3
<1>5. ASSUME NEW i \in 1 .. Count - 1, Free(i), Free(i + 1) PROVE v <= i /\ i < e
  <2>1. f = i \/ f = i + 1
    BY <1>1, <1>5
  <2>2. CASE f = i
    <3>1. f < Count /\ Free(f + 1)
      BY <1>0, <1>5, <2>2
    <3> QED
      BY <1>2, <2>2, <3>1
  <2>3. CASE f = i + 1
    <3>1. f > 1 /\ f - 1 = i /\ Free(f - 1)
      BY <1>0, <1>5, <2>3
    <3> QED
      BY <1>2, <2>3, <3>1
  <2> QED
    BY <2>1, <2>2, <2>3
<1> HIDE DEF v, e
<1> QED
  BY <1>2, <1>4, <1>5 DEF Run

LEMMA InitWalk == WalkInit => WalkInv
<1> SUFFICES ASSUME WalkInit PROVE WalkInv
  OBVIOUS
<1>1. PICK n \in Entries : \E used \in [1 .. n -> BOOLEAN] :
        before = [i \in 1 .. n |-> Entry(i, used[i])] /\ links = ListOf(n)
  BY DEF WalkInit
<1>2. PICK used \in [1 .. n -> BOOLEAN] : before = [i \in 1 .. n |-> Entry(i, used[i])]
  BY <1>1
<1>3. n \in Nat \ {0} /\ links = ListOf(n)
  BY <1>1, MaxEntriesAssumption DEF Entries
<1> DEFINE R == [virtAddr : Nat, physAddr : Nat, size : {1}]
<1>4. before \in Seq(R) /\ Len(before) = n /\ DOMAIN before = 1 .. n
  <2>1. \A i \in 1 .. n : Entry(i, used[i]) \in R
    BY DEF Entry, NULL
  <2>2. before \in [1 .. n -> R]
    BY <1>2, <2>1
  <2> HIDE DEF R
  <2> QED
    BY <1>3, <2>2, LenProperties
<1>5. ListOK
  BY <1>3, <1>4 DEF ListOK, Count
<1>c. CanArise(before)
  BY DEF WalkInit
<1>6. PICK v, e \in 1 .. Count : Run(v, e)
  BY <1>5, <1>c, RunExists
<1>7. /\ Count = n /\ v \in 1 .. n /\ e \in 1 .. n /\ v <= e
  BY <1>4, <1>6 DEF Count, Run
<1>8. Chained(links, n, n)
  BY <1>3, ListIsChained
<1>9. Ring(v, 0)
  <2>1. /\ \A x \in 0 .. n : links.next[x] = Up(x)
        /\ \A x \in 0 .. n : links.prev[x] = Down(x)
    <3>1. /\ \A x \in 0 .. n : links.next[x] = IF x < n THEN x + 1 ELSE IF x = n THEN 0 ELSE x
          /\ \A x \in 0 .. n : links.prev[x] = IF x = 0 THEN n ELSE IF x <= n THEN x - 1 ELSE x
      BY <1>8, Zenon DEF Chained
    <3> QED
      BY <1>7, <3>1, <1>3 DEF Up, Down
  <2>2. v + 0 = v /\ \A x \in 0 .. n : x = Up(v) => v = Down(x)
    BY <1>3, <1>7 DEF Up, Down
  <2>3. links.next \in [0 .. n -> 0 .. n] /\ links.prev \in [0 .. n -> 0 .. n]
    BY <1>8, Zenon DEF Chained
  <2>4. 0 = 2 => links.prev[v + 2] = v
    OBVIOUS
  <2> QED
    BY <1>7, <2>1, <2>2, <2>3, <2>4, Zenon DEF Ring
<1>10. Taken(v, 0)
  <2>1. freed = <<>>
    BY DEF WalkInit
  <2>2. \A i \in 1 .. n : before[i].size = 1
    BY <1>2 DEF Entry
  <2>3. size = [i \in 1 .. n |-> before[i].size]
    BY <1>4 DEF WalkInit
  <2>4. size \in [1 .. n -> Nat] /\ \A x \in 1 .. n : size[x] = 1
    BY <2>2, <2>3
  <2> QED
    BY <1>7, <2>1, <2>4, EmptySeq DEF Taken, Count
<1>11. Cursors(v, e, 0)
  <2>1. /\ ve = links.next[0] /\ tmp = links.next[links.next[0]] /\ pc = "outer"
    BY DEF WalkInit, next, HEAD
  <2>2. \A x \in 0 .. n : links.next[x] = Up(x)
    BY <1>7, <1>9 DEF Ring
  <2>3. Up(0) = 1 /\ 1 \in 0 .. n /\ 0 \in 0 .. n
    BY <1>3, <1>7 DEF Up
  <2>4. ve = 1 /\ tmp = Up(1)
    BY <2>1, <2>2, <2>3
  <2> QED
    BY <1>7, <2>1, <2>3, <2>4 DEF Cursors
<1> QED
  BY <1>5, <1>6, <1>7, <1>9, <1>10, <1>11 DEF WalkInv

\* What the cursors and the links are in the middle of the walk, in one piece.
LEMMA Links ==
  ASSUME ListOK, NEW v \in 1 .. Count, NEW e \in 1 .. Count, NEW r \in 0 .. e - v, Ring(v, r)
  PROVE  /\ \A x \in 0 .. Count : Up(x) \in 0 .. Count
         /\ \A x \in 0 .. Count : x # v => links.next[x] = Up(x)
         /\ links.next[v] = Up(v + r)
         /\ v + r \in 0 .. Count /\ Up(v + r) # v
         /\ Up(v + r) # 0 => Up(v + r) = v + r + 1
<1>1. Count \in Nat \ {0} /\ v + r \in 0 .. Count /\ v + r \in Nat
  BY DEF ListOK
<1>2. \A x \in 0 .. Count : links.next[x] = IF x = v THEN Up(v + r) ELSE Up(x)
  BY DEF Ring
<1>3. \A x \in 0 .. Count : Up(x) \in 0 .. Count
  BY <1>1 DEF Up
<1>4. Up(v + r) # v /\ (Up(v + r) # 0 => Up(v + r) = v + r + 1)
  BY <1>1 DEF Up
<1> QED
  BY <1>1, <1>2, <1>3, <1>4

\* Only free entries can be seen to be free, and of these only freed ones to be used.
LEMMA Seen ==
  ASSUME ListOK, NEW v \in 1 .. Count, NEW e \in 1 .. Count, Run(v, e),
         NEW r \in 0 .. e - v, Taken(v, r), NEW x \in 1 .. Count
  PROVE  /\ FALSE \in SeenUsed(x) => Free(x)
         /\ TRUE \in SeenUsed(x) /\ Free(x) => x \in v + 1 .. v + r
<1>0. /\ Count \in Nat \ {0} /\ r \in Nat
      /\ DOMAIN freed = 1 .. Len(freed) /\ Len(freed) \in Nat /\ Len(freed) >= r
  BY LenProperties DEF ListOK, Taken
<1>1. ToSet(freed) = v + 1 .. v + r
  <2>1. \A k \in 1 .. r : freed[k] = v + k
    BY DEF Taken
  <2>2. \A y \in v + 1 .. v + r : y - v \in 1 .. Len(freed) /\ freed[y - v] = y
    BY <1>0, <2>1
  <2>3. \A k \in 1 .. Len(freed) : freed[k] \in v + 1 .. v + r
    BY DEF Taken
  <2> QED
    BY <1>0, <2>2, <2>3 DEF ToSet
<1>2. CASE x \notin v + 1 .. v + r
  BY <1>1, <1>2 DEF SeenUsed, Free
<1>3. CASE x \in v + 1 .. v + r
  <2>1. Free(x)
    BY <1>0, <1>3 DEF Run
  <2> QED
    BY <1>1, <1>3, <2>1 DEF SeenUsed
<1> QED
  BY <1>2, <1>3

\* Taken, Ring and Run do not look at the cursors.
LEMMA SameList ==
  ASSUME UNCHANGED <<before, size, links, freed>>, NEW v, NEW e, NEW r
  PROVE  /\ ListOK' = ListOK /\ Count' = Count
         /\ Run(v, e)' = Run(v, e) /\ Ring(v, r)' = Ring(v, r) /\ Taken(v, r)' = Taken(v, r)
         /\ \A x : Up(x)' = Up(x) /\ Free(x)' = Free(x)
BY DEF ListOK, Count, Run, Ring, Taken, Up, Down, Free

\* One entry further, from an entry after which everything has been merged.
LEMMA AdvanceKeeps ==
  ASSUME ListOK, NEW v \in 1 .. Count, NEW e \in 1 .. Count, Run(v, e),
         NEW r \in 0 .. e - v, Ring(v, r), Cursors(v, e, r), Advance,
         ve # 0, ve = v => r = e - v
  PROVE  Cursors(v, e, r)'
<1>1. /\ Count \in Nat \ {0} /\ ve \in 1 .. Count /\ tmp = Up(ve)
      /\ (ve < v => r = 0) /\ (ve > v => r = e - v) /\ v <= e
  BY DEF ListOK, Cursors, Run
<1>2. ve' = Up(ve) /\ tmp' = links.next[Up(ve)] /\ pc' = "outer"
  BY <1>1 DEF Advance, next
<1>3. UNCHANGED <<before, size, links, freed>>
  BY DEF Advance
<1>4. \A x : Up(x)' = Up(x)
  BY <1>3, SameList
<1>5. Count' = Count
  BY <1>3 DEF Count
<1>6. Up(ve) \in 0 .. Count /\ (Up(ve) # 0 => Up(ve) = ve + 1)
  BY <1>1 DEF Up
<1>7. Up(ve) = 0 => ve = Count
  BY <1>1 DEF Up
<1>8. Up(ve) = v => r = 0
  BY <1>1, <1>6
<1>9. links.next[Up(ve)] = Up(Up(ve))
  <2>1. Up(ve) # v => links.next[Up(ve)] = Up(Up(ve))
    BY <1>6, Links
  <2>2. links.next[v] = Up(v + r) /\ v + 0 = v
    BY Links
  <2> QED
    BY <1>8, <2>1, <2>2
<1>10. tmp' = Up(ve)' /\ ve' \in 0 .. Count'
  BY <1>2, <1>4, <1>5, <1>6, <1>9
<1>11. /\ ve' # 0 /\ ve' < v => r = 0
       /\ ve' = v => r = 0
       /\ ve' = 0 \/ ve' > v => r = e - v
  <2>1. ve' # 0 => ve' = ve + 1
    BY <1>2, <1>6
  <2>2. ve' = 0 => ve = Count
    BY <1>2, <1>7
  <2>3. ve = Count => r = e - v
    BY <1>1
  <2> QED
    BY <1>1, <2>1, <2>2, <2>3
<1> QED
  BY <1>2, <1>10, <1>11 DEF Cursors

\* A step of the loops that deletes nothing.
LEMMA CursorStep ==
  ASSUME ListOK, NEW v \in 1 .. Count, NEW e \in 1 .. Count, Run(v, e),
         NEW r \in 0 .. e - v, Ring(v, r), Taken(v, r), Cursors(v, e, r),
         OuterEnd \/ SkipUsed \/ EnterInner \/ LeaveInner
  PROVE  Cursors(v, e, r)' /\ UNCHANGED <<before, size, links, freed>>
<1>0. /\ Count \in Nat \ {0} /\ ve \in 0 .. Count /\ v <= e /\ r \in Nat
  BY DEF ListOK, Cursors, Run
<1>p. ve # 0 => ve \in 1 .. Count
  BY <1>0
<1>1. CASE OuterEnd
  <2>1. UNCHANGED <<before, size, links, freed>> /\ pc = "outer" /\ ve = 0
        /\ pc' = "done" /\ UNCHANGED <<ve, tmp>>
    BY <1>1 DEF OuterEnd, HEAD
  <2>2. \A x : Up(x)' = Up(x)
    BY <2>1, SameList
  <2>3. Count' = Count
    BY <2>1 DEF Count
  <2> QED
    BY <2>1, <2>2, <2>3 DEF Cursors
<1>2. CASE SkipUsed
  <2>1. Advance /\ ve # 0 /\ pc = "outer" /\ TRUE \in SeenUsed(ve) /\ ve \in 1 .. Count
    BY <1>p, <1>2, Zenon DEF SkipUsed, HEAD
  <2>2. ASSUME ve = v PROVE FALSE
    <3>1. Free(v) /\ r = 0
      BY <1>0, <2>1, <2>2 DEF Run, Cursors
    <3>2. ve \in v + 1 .. v + r
      BY <2>1, <2>2, <3>1, Seen
    <3> QED
      BY <1>0, <2>2, <3>1, <3>2
  <2> QED
    BY <2>1, <2>2, AdvanceKeeps DEF Advance
<1>3. CASE EnterInner
  <2>1. /\ UNCHANGED <<before, size, links, freed>> /\ UNCHANGED <<ve, tmp>>
        /\ pc = "outer" /\ ve # 0 /\ ve \in 1 .. Count /\ FALSE \in SeenUsed(ve)
        /\ ne' = links.next[ve] /\ tmp2' = links.next[links.next[ve]] /\ pc' = "inner"
    <3>1. UNCHANGED <<before, size, links, freed, ve, tmp>>
      BY <1>3, Zenon DEF EnterInner
    <3>2. /\ pc = "outer" /\ ve # 0 /\ ve \in 1 .. Count /\ FALSE \in SeenUsed(ve)
          /\ ne' = links.next[ve] /\ tmp2' = links.next[links.next[ve]] /\ pc' = "inner"
      BY <1>p, <1>3, Zenon DEF EnterInner, HEAD, next
    <3> QED
      BY <3>1, <3>2
  <2>2. Free(ve)
    BY <2>1, Seen
  <2>3. (\A x : Up(x)' = Up(x)) /\ (\A x : Free(x)' = Free(x))
    BY <2>1, SameList
  <2>4. Count' = Count
    BY <2>1 DEF Count
  <2>5. ve = v => r = 0
    BY <2>1 DEF Cursors
  <2>6. links.next[ve] = IF ve = v THEN Up(v + r) ELSE Up(ve)
    BY <2>1, <1>0, Links
  <2>7. links.next[ve] = Up(ve)
    BY <1>0, <2>5, <2>6
  <2>8. Up(ve) \in 0 .. Count /\ (Up(ve) = v => r = 0)
    <3>1. Up(ve) = 0 \/ Up(ve) = ve + 1
      BY DEF Up
    <3>2. ve < v => r = 0
      BY <2>1 DEF Cursors
    <3> QED
      BY <1>0, <2>1, <3>1, <3>2, Links
  <2>9. links.next[Up(ve)] = Up(Up(ve))
    <3>1. Up(ve) # v => links.next[Up(ve)] = Up(Up(ve))
      BY <2>8, Links
    <3>2. links.next[v] = Up(v + r) /\ v + 0 = v
      BY Links
    <3> QED
      BY <2>8, <3>1, <3>2
  <2> QED
    BY <2>1, <2>2, <2>3, <2>4, <2>5, <2>6, <2>7, <2>9 DEF Cursors
<1>4. CASE LeaveInner
  <2>1. /\ Advance /\ pc = "inner" /\ ve # 0 /\ ve \in 1 .. Count /\ Free(ve)
        /\ ve = v => ne = Up(v + r)
        /\ ne = 0 \/ (ne # 0 /\ TRUE \in SeenUsed(ne))
    <3>1. /\ Advance /\ pc = "inner"
          /\ ne = 0 \/ (ne # 0 /\ TRUE \in SeenUsed(ne))
      BY <1>4, Zenon DEF LeaveInner, HEAD
    <3>2. /\ ve # 0 /\ Free(ve)
          /\ \/ ne = (IF ve = v THEN Up(v + r) ELSE Up(ve))
             \/ ve = v + 1 /\ r = 2 /\ ne = Up(v + 2)
      BY <3>1, Zenon DEF Cursors
    <3>3. ve = v => ne = Up(v + r)
      BY <3>2
    <3> QED
      BY <1>p, <3>1, <3>2, <3>3, Zenon
  <2>2. ASSUME ve = v PROVE r = e - v
    <3>1. ne = Up(v + r) /\ v + r \in 0 .. Count /\ (ne # 0 => ne = v + r + 1)
      BY <2>1, <2>2, Links
    <3>2. CASE ne = 0
      <4>1. v + r = Count
        BY <1>0, <3>1, <3>2 DEF Up
      <4> QED
        BY <1>0, <4>1
    <3>3. CASE ne # 0
      <4>1. ne = v + r + 1 /\ ne \in 1 .. Count
        BY <1>0, <3>1, <3>3, Links
      <4>2. ~ Free(ne)
        <5>1. TRUE \in SeenUsed(ne)
          BY <2>1, <3>3, Zenon
        <5>2. Free(ne) => ne \in v + 1 .. v + r
          BY <4>1, <5>1, Seen, Zenon
        <5> QED
          BY <1>0, <4>1, <5>2
      <4>3. ~ (ne \in v .. e)
        BY <4>2 DEF Run
      <4> QED
        BY <1>0, <4>1, <4>3
    <3> QED
      BY <3>2, <3>3
  <2> QED
    BY <2>1, <2>2, AdvanceKeeps DEF Advance
<1> QED
  BY <1>1, <1>2, <1>3, <1>4

\* The inner loop deletes behind v, or it deletes the second of two freed entries
\* again when the outer loop has come to the first.
LEMMA MergePlace ==
  ASSUME ListOK, NEW v \in 1 .. Count, NEW e \in 1 .. Count, Run(v, e),
         NEW r \in 0 .. e - v, Ring(v, r), Taken(v, r), Cursors(v, e, r), MergeEntry
  PROVE  \/ ve = v /\ ne = v + r + 1 /\ ne \in 1 .. Count /\ r + 1 \in 0 .. e - v
         \/ ve = v + 1 /\ ne = v + 2 /\ r = 2 /\ e = v + 2
<1>0. /\ Count \in Nat \ {0} /\ ve \in 0 .. Count /\ v <= e /\ e <= v + 2 /\ r \in Nat
  BY DEF ListOK, Cursors, Run
<1>1. pc = "inner" /\ ne # 0 /\ FALSE \in SeenUsed(ne)
  BY Zenon DEF MergeEntry, Mergeable, HEAD
<1>2. /\ ve # 0 /\ Free(ve)
      /\ \/ ne = (IF ve = v THEN Up(v + r) ELSE Up(ve))
         \/ ve = v + 1 /\ r = 2 /\ ne = Up(v + 2)
  BY <1>1, Zenon DEF Cursors
<1>3. /\ ve < v => r = 0
      /\ ve > v => r = e - v
  BY <1>2 DEF Cursors
<1>6. \A i \in 1 .. Count - 1 : Free(i) /\ Free(i + 1) => v <= i /\ i < e
  BY DEF Run
<1>7. CASE ve = v
  <2>1. ne = v + r + 1 /\ ne \in 1 .. Count
    BY <1>0, <1>1, <1>2, <1>7, Links DEF Up
  <2>2. Free(ne)
    BY <1>1, <2>1, Seen, Zenon
  <2>3. ASSUME r = e - v PROVE FALSE
    <3>1. ne = e + 1 /\ e \in 1 .. Count - 1
      BY <1>0, <2>1, <2>3
    <3>2. Free(e)
      BY <1>0 DEF Run
    <3> QED
      BY <1>0, <1>6, <2>2, <3>1, <3>2
  <2> QED
    BY <1>0, <1>7, <2>1, <2>3
<1>8. CASE ve # v /\ ne = Up(ve)
  <2>1. ne = ve + 1 /\ ve \in 1 .. Count - 1 /\ ne \in 1 .. Count
    BY <1>0, <1>1, <1>2, <1>8 DEF Up
  <2>2. Free(ne)
    BY <1>1, <2>1, Seen, Zenon
  <2>3. v <= ve /\ ve < e
    BY <1>2, <1>6, <2>1, <2>2
  <2> QED
    BY <1>0, <1>3, <1>8, <2>1, <2>3
<1>9. CASE ve = v + 1 /\ r = 2 /\ ne = Up(v + 2)
  <2>1. e = v + 2 /\ v + 2 \in 1 .. Count
    BY <1>0, <1>9
  <2>2. ne = e + 1 /\ e \in 1 .. Count - 1 /\ ne \in 1 .. Count
    BY <1>0, <1>1, <1>9, <2>1 DEF Up
  <2>3. Free(ne) /\ Free(e)
    <3>1. Free(ne)
      BY <1>1, <2>2, Seen, Zenon
    <3>2. Free(e)
      BY <1>0 DEF Run
    <3> QED
      BY <3>1, <3>2
  <2> QED
    BY <1>0, <1>6, <2>2, <2>3
<1> QED
  BY <1>2, <1>7, <1>8, <1>9

\* A deletion closes the ring behind v and leaves the links of the deleted entry.
LEMMA MergeLinks ==
  ASSUME ListOK, NEW v \in 1 .. Count, NEW e \in 1 .. Count, Run(v, e),
         NEW r \in 0 .. e - v, Ring(v, r), r + 1 \in 0 .. e - v,
         links' = __list_del_entry(links, v + r + 1), UNCHANGED before
  PROVE  Ring(v, r + 1)'
<1> DEFINE x0 == v + r + 1
<1>0. /\ Count \in Nat \ {0} /\ x0 \in 1 .. Count /\ x0 # v /\ r \in Nat
      /\ x0 \notin v + 1 .. v + r /\ x0 = v + (r + 1)
  BY DEF ListOK
<1>1. x0 = Up(v + r) /\ Up(x0) \in 0 .. Count /\ Up(x0) # v
  BY <1>0 DEF Up
<1>2. /\ \A x \in 0 .. Count : links.next[x] = IF x = v THEN Up(v + r) ELSE Up(x)
      /\ \A x \in (0 .. Count) \ (v + 1 .. v + r) :
           links.prev[x] = IF x = Up(v + r) THEN v ELSE Down(x)
  BY DEF Ring
<1>3. links.prev[x0] = v /\ links.next[x0] = Up(x0)
  BY <1>0, <1>1, <1>2
<1>4. /\ links'.next = [links.next EXCEPT ![v] = Up(x0)]
      /\ links'.prev = [links.prev EXCEPT ![Up(x0)] = v]
  BY <1>3 DEF __list_del_entry, __list_del
<1>5. links.next \in [0 .. Count -> 0 .. Count] /\ links.prev \in [0 .. Count -> 0 .. Count]
  BY Zenon DEF Ring
<1>u. \A x : Up(x)' = Up(x) /\ Down(x)' = Down(x)
  BY DEF Up, Down, Count
<1>c. Count' = Count
  BY DEF Count
<1> HIDE DEF x0
<1> DEFINE S == 0 .. Count
<1>s. /\ v \in S /\ Up(x0) \in S
      /\ links.next \in [S -> S] /\ links.prev \in [S -> S]
  <2>1. v \in 0 .. Count
    BY <1>0
  <2> QED
    BY <1>1, <1>5, <2>1, Zenon
<1> HIDE DEF S
<1>6. /\ links'.next \in [0 .. Count -> 0 .. Count]
      /\ \A x \in 0 .. Count : links'.next[x] = IF x = v THEN Up(x0) ELSE links.next[x]
  <2>1. /\ links'.next \in [S -> S]
        /\ \A x \in S : links'.next[x] = IF x = v THEN Up(x0) ELSE links.next[x]
    BY <1>s, <1>4
  <2> QED
    BY <2>1, Zenon DEF S
<1>7. /\ links'.prev \in [0 .. Count -> 0 .. Count]
      /\ \A x \in 0 .. Count : links'.prev[x] = IF x = Up(x0) THEN v ELSE links.prev[x]
  <2>1. /\ links'.prev \in [S -> S]
        /\ \A x \in S : links'.prev[x] = IF x = Up(x0) THEN v ELSE links.prev[x]
    BY <1>s, <1>4
  <2> QED
    BY <2>1, Zenon DEF S
<1>8. \A x \in 0 .. Count : links'.next[x] = IF x = v THEN Up(v + (r + 1)) ELSE Up(x)
  BY <1>0, <1>2, <1>6
<1>9. ASSUME NEW x \in (0 .. Count) \ (v + 1 .. v + (r + 1))
      PROVE  links'.prev[x] = IF x = Up(v + (r + 1)) THEN v ELSE Down(x)
  <2>1. x \in 0 .. Count /\ x \notin v + 1 .. v + r /\ x # x0
    BY <1>0
  <2>2. links.prev[x] = Down(x)
    BY <1>1, <1>2, <2>1
  <2> QED
    BY <1>0, <1>7, <2>1, <2>2
<1>10. r + 1 = 2 => links'.prev[v + 2] = v
  BY <1>0, <1>3, <1>7
<1> QED
  BY <1>u, <1>c, <1>6, <1>7, <1>8, <1>9, <1>10 DEF Ring

\* Deleting the second of two freed entries again changes no link: its neighbours
\* have been joined already.
LEMMA AgainLinks ==
  ASSUME ListOK, NEW v \in 1 .. Count, v + 2 \in 1 .. Count, Ring(v, 2),
         links' = __list_del_entry(links, v + 2), UNCHANGED before
  PROVE  Ring(v, 2)'
<1> DEFINE S == 0 .. Count
           w == v + 2
<1>0. /\ Count \in Nat \ {0} /\ v \in S /\ w \in S /\ w # v
      /\ Up(w) \in S \ (v + 1 .. w)
  BY DEF ListOK, Up
<1>1. /\ links.next \in [S -> S] /\ links.prev \in [S -> S]
      /\ \A x \in S : links.next[x] = IF x = v THEN Up(w) ELSE Up(x)
      /\ \A x \in S \ (v + 1 .. w) : links.prev[x] = IF x = Up(w) THEN v ELSE Down(x)
      /\ links.prev[w] = v
  <2>1. links.prev[v + 2] = v
    <3>1. 2 = 2 => links.prev[v + 2] = v
      BY Zenon DEF Ring
    <3> QED
      BY <3>1
  <2> QED
    BY <2>1, Zenon DEF Ring
<1>2. links.next[w] = Up(w) /\ links.next[v] = Up(w) /\ links.prev[Up(w)] = v
  BY <1>0, <1>1
<1>3. /\ links'.next = [links.next EXCEPT ![v] = Up(w)]
      /\ links'.prev = [links.prev EXCEPT ![Up(w)] = v]
  BY <1>1, <1>2 DEF __list_del_entry, __list_del
<1> HIDE DEF S, w
<1>4. links'.next = links.next
  BY <1>0, <1>1, <1>2, <1>3
<1>5. links'.prev = links.prev
  BY <1>0, <1>1, <1>2, <1>3
<1>6. /\ \A x : Up(x)' = Up(x) /\ Down(x)' = Down(x)
      /\ Count' = Count
  BY DEF Up, Down, Count
<1>7. Ring(v, 2)
  OBVIOUS
<1> QED
  BY <1>4, <1>5, <1>6, <1>7, Zenon DEF Ring

\* The first deletion of an entry: it lies behind those freed so far.
LEMMA MergeKeeps ==
  ASSUME ListOK, NEW v \in 1 .. Count, NEW e \in 1 .. Count, Run(v, e),
         NEW r \in 0 .. e - v, Ring(v, r), Taken(v, r), Cursors(v, e, r), MergeEntry,
         ve = v, ne = v + r + 1, ne \in 1 .. Count, r + 1 \in 0 .. e - v
  PROVE  Ring(v, r + 1)' /\ Taken(v, r + 1)' /\ Cursors(v, e, r + 1)'
<1>0. Count \in Nat \ {0} /\ r \in Nat /\ v \in Nat /\ r < 2
  BY DEF ListOK, Run
<1>2. /\ links' = __list_del_entry(links, ne) /\ size' = SizeAdded
      /\ freed' = Append(freed, ne) /\ ne' = tmp2 /\ tmp2' = links'.next[tmp2]
      /\ before' = before /\ ve' = ve /\ tmp' = tmp /\ pc' = pc /\ pc = "inner"
  BY DEF MergeEntry
<1>3. Ring(v, r + 1)'
  BY <1>2, MergeLinks
<1>u. /\ \A x : Up(x)' = Up(x)
      /\ \A x : Free(x)' = Free(x)
      /\ Count' = Count
  BY <1>2 DEF Up, Free, Count
<1>4. Taken(v, r + 1)'
  <2>1. freed \in Seq(Nat) /\ Len(freed) = r /\ \A k \in 1 .. r : freed[k] = v + k
    BY <1>0 DEF Taken
  <2>2. /\ freed' \in Seq(Nat) /\ Len(freed') = r + 1
        /\ \A k \in 1 .. r + 1 : freed'[k] = v + k
    <3>1. ne \in Nat /\ ne = v + (r + 1)
      BY <1>0
    <3>2. /\ freed' \in Seq(Nat) /\ Len(freed') = r + 1
          /\ \A k \in 1 .. r : freed'[k] = freed[k]
          /\ freed'[r + 1] = ne
      BY <1>0, <1>2, <2>1, <3>1, AppendProperties
    <3> QED
      BY <1>0, <2>1, <3>1, <3>2
  <2>3. /\ \A k \in 1 .. Len(freed') : freed'[k] \in v + 1 .. v + (r + 1)
        /\ \A j, k \in 1 .. Len(freed') : j # k => freed'[j] # freed'[k]
    BY <1>0, <2>2
  <2>4. /\ size \in [1 .. Count -> Nat] /\ size[v] = 1 + r /\ size[ne] = 1
        /\ \A x \in (1 .. Count) \ (v + 1 .. v + r) : size[x] = IF x = v THEN 1 + r ELSE 1
    <3>1. v \notin v + 1 .. v + r /\ ne \notin v + 1 .. v + r /\ ne # v
      BY <1>0
    <3> QED
      BY <3>1 DEF Taken
  <2>5. size' = [size EXCEPT ![v] = 1 + (r + 1)]
    BY <1>0, <1>2, <2>4 DEF SizeAdded
  <2>6. /\ size' \in [1 .. Count -> Nat]
        /\ \A x \in (1 .. Count) \ (v + 1 .. v + (r + 1)) :
             size'[x] = IF x = v THEN 1 + (r + 1) ELSE 1
    BY <1>0, <2>4, <2>5
  <2>7. Len(freed') >= r + 1 /\ (r + 1 < 2 => Len(freed') = r + 1)
    BY <1>0, <2>2
  <2> QED
    BY <1>u, <2>2, <2>3, <2>6, <2>7, Zenon DEF Taken
<1>5. Cursors(v, e, r + 1)'
  <2>1. ve \in 0 .. Count /\ tmp = Up(ve) /\ tmp2 = Up(ne) /\ Free(ve) /\ ve # 0
    BY <1>2, Zenon DEF Cursors
  <2>2. Up(ne) \in 0 .. Count /\ Up(ne) # v
    BY <1>0 DEF Up
  <2>3. links'.next[tmp2] = Up(tmp2)
    <3>1. \A x \in 0 .. Count : x # v => links'.next[x] = Up(x)
      BY <1>3, <1>u DEF Ring
    <3> QED
      BY <2>1, <2>2, <3>1
  <2>4. ne' = Up(v + (r + 1)) /\ tmp2' = Up(ne')
    BY <1>0, <1>2, <2>1, <2>3
  <2>5. ve' = v /\ tmp' = Up(ve') /\ pc' = "inner" /\ Free(ve') /\ ve' # 0 /\ ve' \in 0 .. Count
    BY <1>2, <2>1
  <2> QED
    BY <1>0, <1>u, <2>4, <2>5 DEF Cursors
<1> QED
  BY <1>3, <1>4, <1>5

\* The deletion of an entry that was freed before: only sizes in freed memory change.
LEMMA AgainKeeps ==
  ASSUME ListOK, NEW v \in 1 .. Count, NEW e \in 1 .. Count, Run(v, e), e = v + 2,
         Ring(v, 2), Taken(v, 2), Cursors(v, e, 2), MergeEntry, ve = v + 1, ne = v + 2
  PROVE  Ring(v, 2)' /\ Taken(v, 2)' /\ Cursors(v, e, 2)'
<1>0. Count \in Nat \ {0} /\ v \in Nat /\ v + 1 \in 1 .. Count /\ v + 2 \in 1 .. Count
  BY DEF ListOK
<1>2. /\ links' = __list_del_entry(links, ne) /\ size' = SizeAdded
      /\ freed' = Append(freed, ne) /\ ne' = tmp2 /\ tmp2' = links'.next[tmp2]
      /\ before' = before /\ ve' = ve /\ tmp' = tmp /\ pc' = pc /\ pc = "inner"
  BY DEF MergeEntry
<1>3. Ring(v, 2)'
  BY <1>0, <1>2, AgainLinks
<1>u. /\ \A x : Up(x)' = Up(x)
      /\ \A x : Free(x)' = Free(x)
      /\ Count' = Count
  BY <1>2 DEF Up, Free, Count
<1>4. Taken(v, 2)'
  <2>1. /\ freed \in Seq(Nat) /\ Len(freed) \in Nat /\ Len(freed) >= 2
        /\ \A k \in 1 .. 2 : freed[k] = v + k
        /\ \A k \in 1 .. Len(freed) : freed[k] \in v + 1 .. v + 2
        /\ \A j, k \in 1 .. Len(freed) : j # k /\ freed[j] = freed[k] => freed[k] = v + 2
    BY LenProperties DEF Taken
  <2>2. /\ freed' \in Seq(Nat) /\ Len(freed') = Len(freed) + 1
        /\ \A k \in 1 .. Len(freed) : freed'[k] = freed[k]
        /\ freed'[Len(freed) + 1] = v + 2
    BY <1>0, <1>2, <2>1, AppendProperties
  <2>3. /\ \A k \in 1 .. 2 : freed'[k] = v + k
        /\ \A k \in 1 .. Len(freed') : freed'[k] \in v + 1 .. v + 2
    <3>1. ASSUME NEW k \in 1 .. 2 PROVE freed'[k] = v + k
      <4>1. k \in 1 .. Len(freed) /\ freed[k] = v + k
        BY <2>1
      <4> QED
        BY <2>2, <4>1
    <3>2. ASSUME NEW k \in 1 .. Len(freed') PROVE freed'[k] \in v + 1 .. v + 2
      <4>1. CASE k = Len(freed) + 1
        BY <1>0, <2>2, <4>1
      <4>2. CASE k \in 1 .. Len(freed)
        <5>1. freed[k] \in v + 1 .. v + 2 /\ freed'[k] = freed[k]
          BY <2>1, <2>2, <4>2
        <5> QED
          BY <5>1
      <4> QED
        BY <2>1, <2>2, <4>1, <4>2
    <3> QED
      BY <3>1, <3>2
  <2>4. ASSUME NEW j \in 1 .. Len(freed'), NEW k \in 1 .. Len(freed'),
               j # k, freed'[j] = freed'[k]
        PROVE  freed'[k] = v + 2
    <3>1. CASE j = Len(freed) + 1 \/ k = Len(freed) + 1
      BY <2>2, <2>4, <3>1
    <3>2. CASE j \in 1 .. Len(freed) /\ k \in 1 .. Len(freed)
      <4>1. freed[j] = freed[k] /\ freed'[k] = freed[k]
        BY <2>2, <2>4, <3>2
      <4> QED
        BY <2>1, <2>4, <3>2, <4>1
    <3> QED
      BY <2>1, <2>2, <3>1, <3>2
  <2>5. /\ size' \in [1 .. Count -> Nat]
        /\ \A x \in (1 .. Count) \ (v + 1 .. v + 2) : size'[x] = IF x = v THEN 1 + 2 ELSE 1
    <3>1. /\ size \in [1 .. Count -> Nat]
          /\ \A x \in (1 .. Count) \ (v + 1 .. v + 2) : size[x] = IF x = v THEN 1 + 2 ELSE 1
      BY DEF Taken
    <3>2. size' = [size EXCEPT ![v + 1] = size[v + 1] + size[v + 2]]
      BY <1>2 DEF SizeAdded
    <3> QED
      BY <1>0, <3>1, <3>2
  <2>6. Len(freed') >= 2 /\ (2 < 2 => Len(freed') = 2)
    BY <2>1, <2>2
  <2> QED
    BY <1>u, <2>2, <2>3, <2>4, <2>5, <2>6, Zenon DEF Taken
<1>5. Cursors(v, e, 2)'
  <2>1. tmp = Up(ve) /\ tmp2 = Up(v + 2) /\ Free(ve)
    BY <1>2, Zenon DEF Cursors
  <2>2. Up(v + 2) \in 0 .. Count /\ Up(v + 2) # v
    BY <1>0 DEF Up
  <2>3. links'.next[tmp2] = Up(tmp2)
    <3>1. \A x \in 0 .. Count : x # v => links'.next[x] = Up(x)
      BY <1>3, <1>u DEF Ring
    <3> QED
      BY <2>1, <2>2, <3>1
  <2> QED
    BY <1>0, <1>2, <1>u, <2>1, <2>3 DEF Cursors
<1> QED
  BY <1>3, <1>4, <1>5

LEMMA WalkStep == WalkInv /\ [WalkNext]_walkVars => WalkInv'
<1> SUFFICES ASSUME WalkInv, [WalkNext]_walkVars PROVE WalkInv'
  OBVIOUS
<1>1. ListOK
  BY DEF WalkInv
<1>2. PICK v, e \in 1 .. Count :
        Run(v, e) /\ \E r \in 0 .. e - v : Ring(v, r) /\ Taken(v, r) /\ Cursors(v, e, r)
  BY DEF WalkInv
<1>3. PICK r \in 0 .. e - v : Ring(v, r) /\ Taken(v, r) /\ Cursors(v, e, r)
  BY <1>2
<1>4. ASSUME UNCHANGED before
      PROVE  ListOK' /\ Run(v, e)' /\ v \in 1 .. Count' /\ e \in 1 .. Count'
  BY <1>1, <1>2, <1>4 DEF ListOK, Run, Count, Free
<1>5. CASE OuterEnd \/ SkipUsed \/ EnterInner \/ LeaveInner
  <2>1. Cursors(v, e, r)' /\ UNCHANGED <<before, size, links, freed>>
    BY <1>1, <1>2, <1>3, <1>5, CursorStep
  <2>2. Ring(v, r)' /\ Taken(v, r)'
    BY <1>3, <2>1, SameList
  <2> QED
    BY <1>4, <2>1, <2>2 DEF WalkInv
<1>6. CASE MergeEntry
  <2>1. \/ ve = v /\ ne = v + r + 1 /\ ne \in 1 .. Count /\ r + 1 \in 0 .. e - v
        \/ ve = v + 1 /\ ne = v + 2 /\ r = 2 /\ e = v + 2
    BY <1>1, <1>2, <1>3, <1>6, MergePlace
  <2>2. \E s \in 0 .. e - v : Ring(v, s)' /\ Taken(v, s)' /\ Cursors(v, e, s)'
    <3>1. CASE ve = v /\ ne = v + r + 1 /\ ne \in 1 .. Count /\ r + 1 \in 0 .. e - v
      BY <1>1, <1>2, <1>3, <1>6, <3>1, MergeKeeps
    <3>2. CASE ve = v + 1 /\ ne = v + 2 /\ r = 2 /\ e = v + 2
      <4>1. Ring(v, 2) /\ Taken(v, 2) /\ Cursors(v, e, 2)
        BY <1>3, <3>2
      <4>2. Ring(v, 2)' /\ Taken(v, 2)' /\ Cursors(v, e, 2)'
        BY <1>1, <1>2, <1>6, <3>2, <4>1, AgainKeeps
      <4> QED
        BY <3>2, <4>2
    <3> QED
      BY <2>1, <3>1, <3>2
  <2>3. UNCHANGED before
    BY <1>6 DEF MergeEntry
  <2> QED
    BY <1>4, <2>2, <2>3 DEF WalkInv
<1>7. CASE UNCHANGED walkVars
  <2>1. UNCHANGED <<before, size, links, freed>> /\ UNCHANGED <<ve, tmp, ne, tmp2, pc>>
    BY <1>7 DEF walkVars
  <2>2. Ring(v, r)' /\ Taken(v, r)'
    BY <1>3, <2>1, SameList
  <2>3. Cursors(v, e, r)'
    <3>1. Count' = Count /\ (\A x : Up(x)' = Up(x)) /\ (\A x : Free(x)' = Free(x))
      BY <2>1 DEF Count, Up, Free
    <3> QED
      BY <1>3, <2>1, <3>1 DEF Cursors
  <2> QED
    BY <1>4, <2>1, <2>2, <2>3 DEF WalkInv
<1> QED
  BY <1>5, <1>6, <1>7 DEF WalkNext

LEMMA WalkHolds == WalkSpec => []WalkInv
BY InitWalk, WalkStep, PTL DEF WalkSpec

\* Whatever freed memory reads as, an entry can be freed twice only if it is the
\* last of three free ones: for every length of the list and every entry that may
\* have been freed in it.
THEOREM DoubleFreeNeedsThree == WalkSpec => []TwiceOnlyOfThree
<1>1. WalkInv => TwiceOnlyOfThree
  <2> SUFFICES ASSUME WalkInv, NEW i \in DOMAIN freed, NEW j \in DOMAIN freed,
                      i # j, freed[i] = freed[j]
               PROVE  /\ freed[i] - 2 \in DOMAIN before
                      /\ \A k \in freed[i] - 2 .. freed[i] : ~ Used(before[k])
    BY DEF TwiceOnlyOfThree
  <2>1. PICK v, e \in 1 .. Count : Run(v, e) /\ \E r \in 0 .. e - v : Taken(v, r)
    BY DEF WalkInv
  <2>2. PICK r \in 0 .. e - v : Taken(v, r)
    BY <2>1
  <2>3. DOMAIN freed = 1 .. Len(freed) /\ Len(freed) \in Nat
        /\ DOMAIN before = 1 .. Count /\ v \in Nat /\ e \in Nat
    <3>1. freed \in Seq(Nat)
      BY <2>2 DEF Taken
    <3>2. ListOK
      BY DEF WalkInv
    <3> QED
      BY <3>1, <3>2, LenProperties DEF ListOK, Count
  <2>4. freed[i] = v + 2 /\ freed[i] \in v + 1 .. v + r
    <3>1. i \in 1 .. Len(freed) /\ j \in 1 .. Len(freed)
      BY <2>3
    <3>2. /\ \A k \in 1 .. Len(freed) : freed[k] \in v + 1 .. v + r
          /\ \A x, y \in 1 .. Len(freed) : x # y /\ freed[x] = freed[y] => freed[y] = v + 2
      BY <2>2, Zenon DEF Taken
    <3> QED
      BY <3>1, <3>2
  <2>5. r >= 2 /\ e = v + 2
    BY <2>1, <2>3, <2>4 DEF Run
  <2> QED
    BY <2>1, <2>3, <2>4, <2>5 DEF Run, Free
<1> QED
  BY <1>1, WalkHolds, PTL

-----------------------------------------------------------------------------
(* What merging leaves, and what the links list.                           *)

\* How many of the first k entries have been taken in by v.
Merged(v, e, k) == IF k <= v THEN 0 ELSE IF k <= e THEN k - v ELSE e - v

\* The first k entries with that many merged.
Left(v, e, k) ==
  [j \in 1 .. k - Merged(v, e, k) |->
     IF j = v THEN [before[v] EXCEPT !.size = 1 + Merged(v, e, k)]
     ELSE IF j < v THEN before[j] ELSE before[j + Merged(v, e, k)]]

LEMMA Entries1 ==
  ASSUME ListOK, NEW i \in 1 .. Count
  PROVE  /\ before[i].size = 1 /\ before[i].virtAddr \in Nat
         /\ [before[i] EXCEPT !.size = 1] = before[i]
         /\ \A s : /\ [before[i] EXCEPT !.size = s].size = s
                   /\ Used([before[i] EXCEPT !.size = s]) = Used(before[i])
                   /\ \A t : [[before[i] EXCEPT !.size = s] EXCEPT !.size = t]
                               = [before[i] EXCEPT !.size = t]
<1>1. before[i] \in [virtAddr : Nat, physAddr : Nat, size : {1}]
  BY ElementOfSeq DEF ListOK, Count
<1> QED
  BY <1>1 DEF Used

\* A sequence of n entries, and one more.
Longer(l, n, x) == [j \in 1 .. n + 1 |-> IF j = n + 1 THEN x ELSE l[j]]

\* An entry that cannot be taken in is appended to the n entries before it.
LEMMA MergeAppends ==
  ASSUME NEW S, NEW n \in Nat, NEW l \in Seq(S), Len(l) = n, NEW x \in S,
         n = 0 \/ Used(x) \/ Used(l[n])
  PROVE  Merge(l, x) = Longer(l, n, x)
<1>1. l # <<>> => n # 0
  BY EmptySeq
<1>2. n # 0 => Last(l) = l[n]
  BY DEF Last
<1>3. Append(l, x) = [j \in 1 .. n + 1 |-> IF j = n + 1 THEN x ELSE l[j]]
  <2> DEFINE r == Append(l, x)
  <2>1. /\ r \in Seq(S) /\ Len(r) = n + 1 /\ \A j \in 1 .. n : r[j] = l[j]
        /\ r[n + 1] = x
    BY AppendProperties
  <2> HIDE DEF r
  <2>2. r = [j \in 1 .. n + 1 |-> r[j]]
    BY <2>1, LenProperties
  <2>3. \A j \in 1 .. n + 1 : r[j] = IF j = n + 1 THEN x ELSE l[j]
    BY <2>1
  <2> QED
    BY <2>2, <2>3, Zenon DEF r
<1>4. Merge(l, x) = Append(l, x)
  BY <1>1, <1>2, Zenon DEF Merge
<1> QED
  BY <1>3, <1>4, Zenon DEF Longer

\* A free entry behind a free one adds its size to it.
LEMMA MergeTakesIn ==
  ASSUME NEW S, NEW n \in Nat, NEW l \in Seq(S), Len(l) = n, NEW x \in S,
         n # 0, ~ Used(x), ~ Used(l[n])
  PROVE  Merge(l, x) = [j \in 1 .. n |->
                          IF j = n THEN [l[n] EXCEPT !.size = l[n].size + x.size] ELSE l[j]]
<1>1. l # <<>>
  BY EmptySeq
<1>2. Last(l) = l[n]
  BY DEF Last
<1>3. DOMAIN l = 1 .. n
  BY LenProperties
<1>4. [l EXCEPT ![Len(l)].size = @ + x.size]
        = [j \in 1 .. n |-> IF j = n THEN [l[n] EXCEPT !.size = l[n].size + x.size] ELSE l[j]]
  BY <1>3
<1>5. Merge(l, x) = [l EXCEPT ![Len(l)].size = @ + x.size]
  BY <1>1, <1>2, Zenon DEF Merge
<1> QED
  BY <1>4, <1>5, Zenon

\* The fold leaves one entry for the run, with its size, and the others alone.
LEMMA CoalesceIs ==
  ASSUME ListOK, NEW v \in 1 .. Count, NEW e \in 1 .. Count, Run(v, e)
  PROVE  Coalesce(before) = Left(v, e, Count)
<1> DEFINE N == Count
           R == [virtAddr : Nat, physAddr : Nat, size : Nat]
<1>0. /\ N \in Nat \ {0} /\ v \in 1 .. N /\ e \in 1 .. N /\ v <= e /\ DOMAIN before = 1 .. N
  BY LenProperties DEF ListOK, Count, Run
<1>r. \A i \in 1 .. N - 1 : Free(i) /\ Free(i + 1) => v <= i /\ i < e
  BY DEF Run
<1>f. \A i \in v .. e : Free(i)
  BY DEF Run
<1>b. \A i \in 1 .. N :
        /\ before[i] \in R /\ before[i].size = 1
        /\ \A s \in Nat : [before[i] EXCEPT !.size = s] \in R
  <2>1. \A i \in 1 .. N : before[i] \in [virtAddr : Nat, physAddr : Nat, size : {1}]
    BY ElementOfSeq DEF ListOK, Count
  <2> QED
    BY <2>1
<1> HIDE DEF N, R
<1>1. PICK m : /\ m[0] = <<>>
               /\ \A k \in 1 .. N : m[k] = Merge(m[k - 1], before[k])
               /\ Coalesce(before) = m[N]
  BY <1>0, CoalesceSteps
<1>3. ASSUME NEW k \in 0 .. N, k < N, m[k] = Left(v, e, k)
      PROVE  m[k + 1] = Left(v, e, k + 1)
  <2> DEFINE l == m[k]
             p == Merged(v, e, k)
             q == Merged(v, e, k + 1)
             n == k - p
             x == before[k + 1]
  <2>a. k \in Nat /\ v \in Nat \ {0} /\ e \in Nat /\ v <= e /\ N \in Nat
    BY <1>0
  <2>n. /\ p \in Nat /\ n \in Nat /\ n + p = k
        /\ \A j \in 1 .. n : j \in 1 .. k /\ (j > v => j + p \in 1 .. k)
        /\ v <= k /\ k < e => n = v /\ q = p + 1 /\ (k + 1) - q = v
        /\ ~ (v <= k /\ k < e) =>
             /\ q = p /\ (k + 1) - q = n + 1
             /\ n < v => k = n /\ p = 0
             /\ n = v => k = e
    <3>1. ASSUME k < v PROVE p = 0 /\ q = 0 /\ n = k
      BY <2>a, <3>1 DEF Merged
    <3>2. ASSUME v <= k, k < e PROVE p = k - v /\ q = (k + 1) - v /\ n = v
      BY <2>a, <3>2 DEF Merged
    <3>3. ASSUME e <= k PROVE p = e - v /\ q = e - v /\ n = k - (e - v)
      BY <2>a, <3>3 DEF Merged
    <3> HIDE DEF p, q, n
    <3>4. CASE k < v
      BY <2>a, <3>1, <3>4
    <3>5. CASE v <= k /\ k < e
      BY <2>a, <3>2, <3>5
    <3>6. CASE e <= k
      BY <2>a, <3>3, <3>6
    <3> QED
      BY <2>a, <3>4, <3>5, <3>6
  <2>1. /\ k + 1 \in 1 .. N /\ k + 1 \in 0 .. N /\ (k + 1) - 1 = k
        /\ 1 .. k \subseteq 1 .. N
    BY <2>a, <1>3
  <2>2. m[k + 1] = Merge(l, x)
    BY <1>1, <2>1
  <2>3. l = [j \in 1 .. n |->
               IF j = v THEN [before[v] EXCEPT !.size = 1 + p]
               ELSE IF j < v THEN before[j] ELSE before[j + p]]
    BY <1>3, Zenon DEF Left
  <2>L. Left(v, e, k + 1) =
          [j \in 1 .. (k + 1) - q |->
             IF j = v THEN [before[v] EXCEPT !.size = 1 + q]
             ELSE IF j < v THEN before[j] ELSE before[j + q]]
    BY Zenon DEF Left
  <2> HIDE DEF l, p, q, n, x
  <2>4. /\ v \in 1 .. n => l[v] = [before[v] EXCEPT !.size = 1 + p]
        /\ \A j \in 1 .. n : j < v => l[j] = before[j]
        /\ \A j \in 1 .. n : j > v => l[j] = before[j + p]
    BY <2>a, <2>3
  <2>5. l \in Seq(R) /\ Len(l) = n
    <3>1. ASSUME NEW j \in 1 .. n PROVE l[j] \in R
      <4>1. CASE j = v
        <5>1. 1 + p \in Nat
          BY <2>n
        <5> QED
          BY <1>0, <1>b, <2>4, <4>1, <5>1, Zenon
      <4>2. CASE j < v
        <5>1. l[j] = before[j] /\ j \in 1 .. N
          BY <2>n, <2>1, <2>4, <4>2
        <5> QED
          BY <1>b, <5>1
      <4>3. CASE j > v
        <5>1. l[j] = before[j + p] /\ j + p \in 1 .. N
          BY <2>n, <2>1, <2>4, <4>3
        <5> QED
          BY <1>b, <5>1
      <4> QED
        BY <2>a, <4>1, <4>2, <4>3
    <3>2. l \in [1 .. n -> R]
      BY <2>3, <3>1
    <3> QED
      BY <2>n, <3>2, LenProperties
  <2>6. x \in R /\ x.size = 1
    BY <1>b, <2>1 DEF x
  <2>u. x = before[k + 1] /\ (Used(x) <=> ~ Free(k + 1))
    BY DEF x, Free
  <2>7. CASE v <= k /\ k < e
    <3>1. n = v /\ q = p + 1 /\ (k + 1) - q = v /\ v \in 1 .. n /\ n # 0
      BY <2>a, <2>n, <2>7
    <3>2. Free(k + 1) /\ Free(v)
      <4>1. k + 1 \in v .. e /\ v \in v .. e
        BY <2>a, <2>7
      <4> QED
        BY <1>f, <4>1
    <3>3. /\ l[n] = [before[v] EXCEPT !.size = 1 + p]
          /\ l[n].size = 1 + p /\ Used(l[n]) = Used(before[v])
      <4>1. l[n] = [before[v] EXCEPT !.size = 1 + p]
        BY <2>4, <3>1
      <4>2. /\ [before[v] EXCEPT !.size = 1 + p].size = 1 + p
            /\ Used([before[v] EXCEPT !.size = 1 + p]) = Used(before[v])
        BY Entries1, Zenon
      <4> QED
        BY <4>1, <4>2, Zenon
    <3>4. ~ Used(x) /\ ~ Used(l[n])
      BY <2>u, <3>2, <3>3, Zenon DEF Free
    <3>5. m[k + 1] = [j \in 1 .. n |->
                        IF j = n THEN [l[n] EXCEPT !.size = l[n].size + x.size] ELSE l[j]]
      <4>1. n \in Nat /\ l \in Seq(R) /\ Len(l) = n /\ x \in R /\ n # 0
        BY <2>n, <2>5, <2>6, <3>1, Zenon
      <4> QED
        BY <2>2, <3>4, <4>1, MergeTakesIn
    <3>6. [l[n] EXCEPT !.size = l[n].size + x.size] = [before[v] EXCEPT !.size = 1 + q]
      <4>1. l[n].size + x.size = 1 + q
        BY <2>n, <2>6, <3>1, <3>3
      <4> QED
        BY <1>0, <3>3, <4>1, Entries1, Zenon DEF N
    <3>7. \A j \in 1 .. n : j # v => j < v /\ l[j] = before[j]
      BY <2>a, <2>4, <3>1
    <3> QED
      BY <2>L, <3>1, <3>5, <3>6, <3>7
  <2>8. CASE ~ (v <= k /\ k < e)
    <3>1. n = 0 \/ Used(x) \/ Used(l[n])
      <4>1. SUFFICES ASSUME n # 0, ~ Used(x), ~ Used(l[n]) PROVE FALSE
        OBVIOUS
      <4>2. n \in 1 .. n /\ k \in 1 .. N - 1
        BY <2>a, <2>n, <1>3, <4>1
      <4>3. Free(k)
        <5>1. CASE n = v
          <6>1. k = e /\ k \in v .. e
            BY <2>a, <2>n, <2>8, <5>1
          <6> QED
            BY <1>f, <6>1
        <5>2. CASE n < v
          <6>1. l[n] = before[k]
            BY <2>n, <2>4, <2>8, <4>2, <5>2
          <6> QED
            BY <4>1, <6>1 DEF Free
        <5>3. CASE n > v
          <6>1. l[n] = before[k]
            BY <2>n, <2>4, <4>2, <5>3
          <6> QED
            BY <4>1, <6>1 DEF Free
        <5> QED
          BY <2>a, <2>n, <5>1, <5>2, <5>3
      <4>4. Free(k + 1)
        BY <2>u, <4>1
      <4> QED
        BY <1>r, <2>8, <4>2, <4>3, <4>4
    <3>2. m[k + 1] = [j \in 1 .. n + 1 |-> IF j = n + 1 THEN x ELSE l[j]]
      <4>1. n \in Nat /\ l \in Seq(R) /\ Len(l) = n /\ x \in R
        BY <2>n, <2>5, <2>6, Zenon
      <4>2. Merge(l, x) = Longer(l, n, x)
        BY <3>1, <4>1, MergeAppends, Zenon
      <4> QED
        BY <2>2, <4>2 DEF Longer
    <3>3. q = p /\ (k + 1) - q = n + 1 /\ (n < v => k = n /\ p = 0)
      BY <2>n, <2>8, Zenon
    <3>4. x = IF n + 1 = v THEN [before[v] EXCEPT !.size = 1 + p]
              ELSE IF n + 1 < v THEN before[n + 1] ELSE before[(n + 1) + p]
      <4>1. CASE n + 1 = v
        <5>1. p = 0 /\ k + 1 = v /\ 1 + 0 = 1
          BY <2>a, <2>n, <3>3, <4>1
        <5>2. [before[v] EXCEPT !.size = 1] = before[v]
          BY <1>0, Entries1, Zenon DEF N
        <5> QED
          BY <2>u, <4>1, <5>1, <5>2
      <4>2. CASE n + 1 < v
        <5>1. k = n
          BY <2>a, <2>n, <3>3, <4>2
        <5> QED
          BY <2>a, <2>u, <4>2, <5>1
      <4>3. CASE n + 1 > v
        <5>1. (n + 1) + p = k + 1
          BY <2>n, <2>a
        <5> QED
          BY <2>a, <2>n, <2>u, <4>3, <5>1
      <4> QED
        BY <2>a, <2>n, <4>1, <4>2, <4>3
    <3>5. ASSUME NEW j \in 1 .. n + 1
          PROVE  (IF j = n + 1 THEN x ELSE l[j])
                   = IF j = v THEN [before[v] EXCEPT !.size = 1 + p]
                     ELSE IF j < v THEN before[j] ELSE before[j + p]
      <4>1. CASE j = n + 1
        BY <3>4, <4>1
      <4>2. CASE j # n + 1
        <5>1. j \in 1 .. n
          BY <2>n, <4>2
        <5> QED
          BY <2>3, <4>2, <5>1
      <4> QED
        BY <4>1, <4>2
    <3> QED
      BY <2>L, <3>2, <3>3, <3>5, Zenon
  <2> QED
    BY <2>7, <2>8
<1> DEFINE C == {k \in Nat : k <= N => m[k] = Left(v, e, k)}
<1>4. 0 \in C
  <2>1. 1 .. 0 - Merged(v, e, 0) = {}
    BY <1>0 DEF Merged
  <2>2. Left(v, e, 0) = <<>>
    BY <2>1 DEF Left
  <2> QED
    BY <1>1, <2>2
<1>5. ASSUME NEW k \in Nat, k \in C PROVE k + 1 \in C
  BY <1>0, <1>3, <1>5
<1> HIDE DEF C
<1>6. N \in C
  BY <1>0, <1>4, <1>5, Induction
<1> QED
  BY <1>0, <1>1, <1>6 DEF C, N

\* The links chain s together, from the head back to the head, on nodes 0 .. C.
Chain(l, top, C, n, s) ==
  /\ C \in Nat /\ DOMAIN l.next = 0 .. C
  /\ n \in Nat /\ n <= C
  /\ s = [k \in 1 .. n |-> s[k]]
  /\ \A k \in 1 .. n : s[k] # top
  /\ n = 0 => l.next[top] = top
  /\ n # 0 => l.next[top] = s[1] /\ l.next[s[n]] = top
  /\ \A k \in 1 .. n - 1 : l.next[s[k]] = s[k + 1]

\* list_for_each_entry meets, in order, the nodes that the links chain together.
LEMMA ForwardIs ==
  ASSUME NEW l, NEW top, NEW C, NEW n, NEW s, Chain(l, top, C, n, s)
  PROVE  Forward(l, top) = s
<1> SUFFICES ASSUME C \in Nat, DOMAIN l.next = 0 .. C, n \in Nat, n <= C,
                    s = [k \in 1 .. n |-> s[k]],
                    \A k \in 1 .. n : s[k] # top,
                    n = 0 => l.next[top] = top,
                    n # 0 => l.next[top] = s[1] /\ l.next[s[n]] = top,
                    \A k \in 1 .. n - 1 : l.next[s[k]] = s[k + 1]
             PROVE  Forward(l, top) = s
  BY Zenon DEF Chain
<1> DEFINE c == C + 1
           F(f, k) == IF k = 1 THEN l.next[top]
                      ELSE IF f[k - 1] = top THEN top ELSE l.next[f[k - 1]]
           seen == [k \in 1 .. c |-> IF k <= n THEN s[k] ELSE top]
           at == CHOOSE f : f = [k \in 1 .. Cardinality(DOMAIN l.next) |-> F(f, k)]
<1>c. Cardinality(DOMAIN l.next) = c
  <2>1. 0 \in Int /\ C \in Int /\ ~ (0 > C) /\ C - 0 + 1 = C + 1
    OBVIOUS
  <2>2. Cardinality(0 .. C) = IF 0 > C THEN 0 ELSE C - 0 + 1
    BY <2>1, FS_Interval, Zenon
  <2> QED
    BY <2>1, <2>2
<1>0. Forward(l, top)
        = [k \in 1 .. Cardinality({i \in DOMAIN at : at[i] # top}) |-> at[k]]
  BY Zenon DEF Forward
<1>t. c \in Nat /\ n <= c
  OBVIOUS
<1> HIDE DEF c
<1>1. \A k \in 1 .. c : seen[k] = IF k <= n THEN s[k] ELSE top
  OBVIOUS
<1>s. seen = [k \in 1 .. c |-> seen[k]]
  OBVIOUS
<1> HIDE DEF seen
<1>2. ASSUME NEW k \in 1 .. c PROVE seen[k] = F(seen, k)
  <2>1. CASE k = 1
    BY <1>1, <2>1
  <2>2. CASE k # 1
    <3>1. k - 1 \in 1 .. c /\ k \in Nat /\ k - 1 \in Nat \ {0}
      BY <1>t, <2>2
    <3>2. CASE k <= n
      <4>1. k - 1 \in 1 .. n - 1 /\ k - 1 \in 1 .. n /\ k - 1 <= n /\ (k - 1) + 1 = k
        BY <3>1, <3>2
      <4>2. seen[k - 1] = s[k - 1] /\ s[k - 1] # top /\ seen[k] = s[k]
        BY <1>1, <3>1, <3>2, <4>1
      <4>3. l.next[s[k - 1]] = s[k]
        BY <4>1
      <4> QED
        BY <2>2, <4>2, <4>3
    <3>3. CASE k = n + 1
      <4>1. k - 1 = n /\ n \in 1 .. n /\ n # 0 /\ ~ (k <= n)
        BY <3>1, <3>3
      <4>2. seen[k - 1] = s[n] /\ s[n] # top /\ seen[k] = top
        BY <1>1, <3>1, <4>1
      <4> QED
        BY <2>2, <4>1, <4>2
    <3>4. CASE k > n + 1
      <4>1. seen[k - 1] = top /\ seen[k] = top
        BY <1>1, <3>1, <3>4
      <4> QED
        BY <2>2, <4>1
    <3> QED
      BY <3>1, <3>2, <3>3, <3>4
  <2> QED
    BY <2>1, <2>2
<1>3. seen = [k \in 1 .. c |-> F(seen, k)]
  BY <1>2, <1>s, Zenon
<1>4. at = [k \in 1 .. c |-> F(at, k)]
  <2>1. \E f : f = [k \in 1 .. Cardinality(DOMAIN l.next) |-> F(f, k)]
    <3> HIDE DEF F
    <3> QED
      BY <1>c, <1>3, Zenon
  <2>2. at = [k \in 1 .. Cardinality(DOMAIN l.next) |-> F(at, k)]
    <3> HIDE DEF F
    <3> QED
      BY <2>1, Zenon
  <2> HIDE DEF F, at
  <2> QED
    BY <1>c, <2>2, Zenon
<1> HIDE DEF at
<1>5. DOMAIN at = 1 .. c /\ \A k \in 1 .. c : at[k] = F(at, k)
  <2> HIDE DEF F
  <2> QED
    BY <1>4, Zenon
<1>6. \A k \in 1 .. c : at[k] = seen[k]
  <2> DEFINE T == {k \in 1 .. c : at[k] # seen[k]}
  <2>1. SUFFICES ASSUME T # {} PROVE FALSE
    OBVIOUS
  <2>0. T \subseteq Nat
    OBVIOUS
  <2>2. PICK x \in T : \A y \in T : x <= y
    <3> HIDE DEF T
    <3> QED
      BY <2>0, <2>1, Smallest, Zenon
  <2>3. CASE x = 1
    <3>1. x \in 1 .. c /\ at[x] # seen[x]
      BY <2>2
    <3>2. at[x] = F(at, x) /\ seen[x] = F(seen, x)
      BY <1>2, <1>5, <3>1, Zenon
    <3>3. at[x] = l.next[top] /\ seen[x] = l.next[top]
      BY <2>3, <3>2, Zenon
    <3> QED
      BY <3>1, <3>3, Zenon
  <2>4. CASE x # 1
    <3>1. x - 1 \in 1 .. c /\ x \in 1 .. c /\ ~ (x <= x - 1)
      BY <1>t, <2>2, <2>4
    <3>2. at[x - 1] = seen[x - 1]
      BY <2>2, <3>1
    <3>3. at[x] = F(at, x) /\ seen[x] = F(seen, x)
      BY <1>2, <1>5, <3>1, Zenon
    <3>4. at[x] # seen[x]
      BY <2>2
    <3> QED
      BY <3>2, <3>3, <3>4
  <2> QED
    BY <2>3, <2>4
<1>7. {i \in DOMAIN at : at[i] # top} = 1 .. n
  BY <1>t, <1>1, <1>5, <1>6
<1>8. Cardinality(1 .. n) = n
  <2>1. 1 \in Int /\ n \in Int /\ (1 > n => n = 0) /\ n - 1 + 1 = n
    OBVIOUS
  <2>2. Cardinality(1 .. n) = IF 1 > n THEN 0 ELSE n - 1 + 1
    BY <2>1, FS_Interval, Zenon
  <2> QED
    BY <2>1, <2>2
<1>9. \A k \in 1 .. n : at[k] = s[k]
  BY <1>t, <1>1, <1>6
<1> QED
  BY <1>0, <1>7, <1>8, <1>9

\* The entries that are left when the d entries behind v are gone.
Kept(v, d) == [k \in 1 .. Count - d |-> IF k <= v THEN k ELSE k + d]

\* The links list them in both directions.
LEMMA RingLists ==
  ASSUME ListOK, NEW v \in 1 .. Count, NEW d \in Nat, v + d <= Count, Ring(v, d)
  PROVE  /\ Forward(links, HEAD) = Kept(v, d)
         /\ Backward(links, HEAD) = Reverse(Kept(v, d))
<1> DEFINE N == Count
           n == N - d
           s == Kept(v, d)
           t == Reverse(s)
<1>0. /\ N \in Nat \ {0} /\ n \in Nat \ {0} /\ v <= n /\ n <= N /\ v \in Nat \ {0}
  BY DEF ListOK
<1>1. /\ s = [k \in 1 .. n |-> s[k]]
      /\ \A k \in 1 .. n : s[k] = IF k <= v THEN k ELSE k + d
  BY DEF Kept
<1>2. /\ DOMAIN links.next = 0 .. N /\ DOMAIN links.prev = 0 .. N
  BY Zenon DEF Ring
<1>3. /\ \A x \in 0 .. N : links.next[x] = IF x = v THEN Up(v + d) ELSE Up(x)
      /\ \A x \in (0 .. N) \ (v + 1 .. v + d) :
           links.prev[x] = IF x = Up(v + d) THEN v ELSE Down(x)
  BY Zenon DEF Ring
<1>u. /\ \A x \in 0 .. N : Up(x) = IF x = N THEN 0 ELSE x + 1
      /\ \A x \in 0 .. N : Down(x) = IF x = 0 THEN N ELSE x - 1
  BY DEF Up, Down
<1> HIDE DEF N
<1>l. Len(s) = n
  BY <1>0, <1>1, LenProperties DEF Kept, N
<1>4. t = [k \in 1 .. n |-> t[k]] /\ \A k \in 1 .. n : t[k] = s[(n - k) + 1]
  <2> HIDE DEF s, n
  <2> QED
    BY <1>l DEF Reverse
<1> HIDE DEF s, t, n
<1>n. n = N - d
  BY DEF n
<1>5. \A k \in 1 .. n : s[k] \in 1 .. N
  BY <1>0, <1>1, <1>n
<1>6. \A k \in 1 .. n : s[k] \notin v + 1 .. v + d
  BY <1>0, <1>1, <1>n
<1>7. links.next[0] = s[1] /\ links.next[s[n]] = 0
  <2>1. s[1] = 1 /\ links.next[0] = 1
    BY <1>0, <1>1, <1>3, <1>u
  <2>2. s[n] = IF n = v THEN v ELSE N
    BY <1>0, <1>1, <1>n
  <2> QED
    BY <1>0, <1>n, <1>3, <1>u, <2>1, <2>2
<1>8. ASSUME NEW k \in 1 .. n - 1
      PROVE  links.next[s[k]] = s[k + 1] /\ links.prev[s[k + 1]] = s[k]
  <2>1. /\ k \in 1 .. n /\ k + 1 \in 1 .. n /\ v + d \in 0 .. N
    BY <1>0, <1>n
  <2>2. s[k] \in 0 .. N /\ s[k + 1] \in 0 .. N /\ s[k + 1] \notin v + 1 .. v + d
    BY <1>0, <1>5, <1>6, <2>1
  <2>3. /\ links.next[s[k]] = IF s[k] = v THEN Up(v + d) ELSE Up(s[k])
        /\ links.prev[s[k + 1]] = IF s[k + 1] = Up(v + d) THEN v ELSE Down(s[k + 1])
    BY <1>3, <2>2
  <2>4. Up(v + d) = IF v + d = N THEN 0 ELSE v + d + 1
    BY <1>u, <2>1
  <2>5. /\ Up(s[k]) = IF s[k] = N THEN 0 ELSE s[k] + 1
        /\ Down(s[k + 1]) = IF s[k + 1] = 0 THEN N ELSE s[k + 1] - 1
    BY <1>u, <2>2
  <2>6. CASE k < v
    <3>1. s[k] = k /\ s[k + 1] = k + 1
      BY <1>0, <1>1, <2>1, <2>6
    <3> QED
      BY <1>0, <1>n, <2>1, <2>3, <2>4, <2>5, <2>6, <3>1
  <2>7. CASE k = v
    <3>1. s[k] = v /\ s[k + 1] = v + 1 + d
      BY <1>0, <1>1, <2>1, <2>7
    <3> QED
      BY <1>0, <1>n, <2>1, <2>3, <2>4, <2>5, <2>7, <3>1
  <2>8. CASE k > v
    <3>1. s[k] = k + d /\ s[k + 1] = k + 1 + d
      BY <1>0, <1>1, <2>1, <2>8
    <3> QED
      BY <1>0, <1>n, <2>1, <2>3, <2>4, <2>5, <2>8, <3>1
  <2> QED
    BY <1>0, <2>6, <2>7, <2>8
<1>9. links.prev[0] = s[n] /\ links.prev[s[1]] = 0
  <2>1. /\ links.prev[0] = IF 0 = Up(v + d) THEN v ELSE Down(0)
        /\ links.prev[1] = IF 1 = Up(v + d) THEN v ELSE Down(1)
    <3>1. 0 \in (0 .. N) \ (v + 1 .. v + d) /\ 1 \in (0 .. N) \ (v + 1 .. v + d)
      BY <1>0
    <3> QED
      BY <1>3, <3>1
  <2>2. Up(v + d) = IF v + d = N THEN 0 ELSE v + d + 1
    BY <1>0, <1>n, <1>u
  <2>3. Down(0) = N /\ Down(1) = 0
    BY <1>0, <1>u
  <2>4. s[1] = 1 /\ s[n] = IF n = v THEN v ELSE N
    BY <1>0, <1>1, <1>n
  <2> QED
    BY <1>0, <1>n, <2>1, <2>2, <2>3, <2>4
<1>10. Forward(links, HEAD) = s
  <2>1. N \in Nat /\ n \in Nat /\ n <= N /\ n # 0
    BY <1>0
  <2>2. \A k \in 1 .. n : s[k] # 0
    BY <1>5
  <2>3. \A k \in 1 .. n - 1 : links.next[s[k]] = s[k + 1]
    BY <1>8
  <2>4. n = 0 => links.next[0] = 0
    BY <2>1
  <2>5. Forward(links, 0) = s
    <3>1. Chain(links, 0, N, n, s)
      BY <1>1, <1>2, <1>7, <2>1, <2>2, <2>3, <2>4, Zenon DEF Chain
    <3> QED
      BY <3>1, ForwardIs, Zenon
  <2> QED
    BY <2>5 DEF HEAD
<1>11. Backward(links, HEAD) = t
  <2> DEFINE b == [next |-> links.prev, prev |-> links.next]
  <2>b. b.next = links.prev
    OBVIOUS
  <2>0. Backward(links, HEAD) = Forward(b, 0)
    BY Zenon DEF Backward, HEAD
  <2> HIDE DEF b
  <2>1. N \in Nat /\ n \in Nat /\ n <= N /\ n # 0 /\ DOMAIN b.next = 0 .. N
    BY <1>0, <1>2, <2>b
  <2>2. \A k \in 1 .. n : t[k] # 0
    <3>1. \A k \in 1 .. n : (n - k) + 1 \in 1 .. n
      BY <1>0
    <3> QED
      BY <1>4, <1>5, <3>1
  <2>3. b.next[0] = t[1] /\ b.next[t[n]] = 0
    <3>1. 1 \in 1 .. n /\ n \in 1 .. n /\ (n - 1) + 1 = n /\ (n - n) + 1 = 1
      BY <1>0
    <3>2. t[1] = s[n] /\ t[n] = s[1]
      BY <1>4, <3>1
    <3> QED
      BY <1>9, <2>b, <3>2
  <2>4. ASSUME NEW k \in 1 .. n - 1 PROVE b.next[t[k]] = t[k + 1]
    <3>1. n - k \in 1 .. n - 1 /\ k \in 1 .. n /\ k + 1 \in 1 .. n /\ (n - (k + 1)) + 1 = n - k
      BY <1>0
    <3>2. t[k] = s[(n - k) + 1] /\ t[k + 1] = s[n - k]
      BY <1>4, <3>1
    <3> QED
      BY <1>8, <2>b, <3>1, <3>2
  <2>5. n = 0 => b.next[0] = 0
    BY <2>1
  <2>6. Forward(b, 0) = t
    <3>1. Chain(b, 0, N, n, t)
      BY <1>4, <2>1, <2>2, <2>3, <2>4, <2>5, Zenon DEF Chain
    <3> QED
      BY <3>1, ForwardIs, Zenon
  <2> QED
    BY <2>0, <2>6
<1> QED
  BY <1>10, <1>11 DEF s, t

\* In spite of the visits to freed entries, the loops leave the merged list, which
\* can be walked in both directions: for every length of the list.
THEOREM LeavesMerged == WalkSpec => []ResultCoalesced
<1>1. WalkInv => ResultCoalesced
  <2> SUFFICES ASSUME WalkInv, pc = "done"
               PROVE  /\ Linked = Coalesce(before)
                      /\ Forward(links, HEAD) = Reverse(Backward(links, HEAD))
    BY DEF ResultCoalesced
  <2>1. ListOK
    BY DEF WalkInv
  <2>2. PICK v, e \in 1 .. Count :
          Run(v, e) /\ \E r \in 0 .. e - v : Ring(v, r) /\ Taken(v, r) /\ Cursors(v, e, r)
    BY DEF WalkInv
  <2>3. PICK r \in 0 .. e - v : Ring(v, r) /\ Taken(v, r) /\ Cursors(v, e, r)
    BY <2>2
  <2> DEFINE d == e - v
             n == Count - d
  <2>4. r = d
    BY <2>3 DEF Cursors
  <2>5. Count \in Nat \ {0} /\ d \in Nat /\ n \in Nat /\ v + d <= Count /\ v + d = e /\ v <= n
        /\ v \in Nat \ {0}
    BY <2>1, <2>2 DEF ListOK, Run
  <2>6. Ring(v, d) /\ Taken(v, d)
    BY <2>3, <2>4
  <2>m. Merged(v, e, Count) = d
    BY <2>5 DEF Merged
  <2>c. Coalesce(before) = Left(v, e, Count)
    BY <2>1, <2>2, CoalesceIs
  <2> HIDE DEF d
  <2>7. Forward(links, HEAD) = Kept(v, d) /\ Backward(links, HEAD) = Reverse(Kept(v, d))
    BY <2>1, <2>5, <2>6, RingLists
  <2>8. Len(Kept(v, d)) = n /\ DOMAIN Kept(v, d) = 1 .. n
        /\ Kept(v, d) = [k \in 1 .. n |-> Kept(v, d)[k]]
        /\ \A k \in 1 .. n : Kept(v, d)[k] = IF k <= v THEN k ELSE k + d
    BY <2>5, LenProperties DEF Kept
  <2> DEFINE K == Kept(v, d)
  <2> HIDE DEF n, K
  <2>9. Reverse(Reverse(K)) = K
    <3>1. Reverse(K) = [k \in 1 .. n |-> K[(n - k) + 1]]
      BY <2>8, Zenon DEF Reverse, K
    <3>2. Len(Reverse(K)) = n
      BY <2>5, <3>1, LenProperties
    <3>3. Reverse(Reverse(K)) = [k \in 1 .. n |-> Reverse(K)[(n - k) + 1]]
      <4> DEFINE R == Reverse(K)
      <4>1. Len(R) = n
        BY <3>2
      <4> HIDE DEF R
      <4>2. Reverse(R) = [k \in 1 .. Len(R) |-> R[(Len(R) - k) + 1]]
        BY Zenon DEF Reverse
      <4>3. Reverse(R) = [k \in 1 .. n |-> R[(n - k) + 1]]
        BY <4>1, <4>2, Zenon
      <4> QED
        BY <4>3 DEF R
    <3>4. ASSUME NEW k \in 1 .. n PROVE Reverse(K)[(n - k) + 1] = K[k]
      <4>1. (n - k) + 1 \in 1 .. n /\ (n - ((n - k) + 1)) + 1 = k
        BY <2>5
      <4> QED
        BY <3>1, <4>1
    <3>5. K = [k \in 1 .. n |-> K[k]]
      BY <2>8 DEF K
    <3> QED
      BY <3>3, <3>4, <3>5, Zenon
  <2>10. Linked = [k \in 1 .. n |-> [before[K[k]] EXCEPT !.size = size[K[k]]]]
    BY <2>7, <2>8, Zenon DEF Linked, K
  <2>11. Left(v, e, Count) = [k \in 1 .. n |->
            IF k = v THEN [before[v] EXCEPT !.size = 1 + d]
            ELSE IF k < v THEN before[k] ELSE before[k + d]]
    BY <2>m, Zenon DEF Left, n
  <2>12. ASSUME NEW k \in 1 .. n
         PROVE  [before[K[k]] EXCEPT !.size = size[K[k]]]
                  = IF k = v THEN [before[v] EXCEPT !.size = 1 + d]
                    ELSE IF k < v THEN before[k] ELSE before[k + d]
    <3>1. \A x \in (1 .. Count) \ (v + 1 .. v + d) : size[x] = IF x = v THEN 1 + d ELSE 1
      BY <2>6 DEF Taken
    <3>2. K[k] = (IF k <= v THEN k ELSE k + d) /\ K[k] \in (1 .. Count) \ (v + 1 .. v + d)
      <4>1. K[k] = IF k <= v THEN k ELSE k + d
        BY <2>8 DEF K
      <4>2. CASE k <= v
        BY <2>5, <4>1, <4>2 DEF n
      <4>3. CASE ~ (k <= v)
        <5>1. K[k] = k + d /\ k > v /\ k <= Count - d /\ k \in Nat
          BY <2>5, <4>1, <4>3 DEF n
        <5> QED
          BY <2>5, <4>1, <5>1
      <4> QED
        BY <4>2, <4>3
    <3>3. [before[K[k]] EXCEPT !.size = 1] = before[K[k]]
      BY <2>1, <3>2, Entries1
    <3>4. CASE k = v
      <4>1. K[k] = v /\ size[v] = 1 + d
        BY <2>5, <3>1, <3>2, <3>4
      <4> QED
        BY <3>4, <4>1
    <3>5. CASE k < v
      <4>1. K[k] = k /\ k # v /\ size[K[k]] = 1
        BY <2>5, <3>1, <3>2, <3>5
      <4> QED
        BY <3>3, <3>5, <4>1
    <3>6. CASE k > v
      <4>1. K[k] = k + d /\ k # v /\ ~ (k < v) /\ size[K[k]] = 1
        BY <2>5, <3>1, <3>2, <3>6
      <4> QED
        BY <3>3, <4>1
    <3> QED
      BY <2>5, <3>4, <3>5, <3>6
  <2>13. Linked = Coalesce(before)
    BY <2>c, <2>10, <2>11, <2>12, Zenon
  <2> QED
    BY <2>7, <2>9, <2>13 DEF K
<1> QED
  BY <1>1, WalkHolds, PTL
=============================================================================
