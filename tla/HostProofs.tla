------------------------------ MODULE HostProofs ------------------------------
(***************************************************************************)
(* Proofs about Host, for every file, program and command line, any number *)
(* of regions, lines of any length and spaces of any size, with one        *)
(* processor or two of which the second may go wrong once.  They are about *)
(* ordinary runs: sections are made of whole words and apart, and neither  *)
(* they nor the memory of the options are near the end of the space.       *)
(*                                                                         *)
(* The invariant says that before the loop every memory shows the image of *)
(* the program.  In the loop the first processor's does, and the second's  *)
(* too, or else it lacks the last store, which is still to be compared.    *)
(***************************************************************************)
EXTENDS SimulatorProofs, Host, FiniteSetTheorems, WellFoundedInduction, TLAPS

(* The least of a set of numbers. *)
LEMMA LeastFacts ==
  ASSUME NEW S, S \subseteq Nat, S # {}
  PROVE  Min(S) \in S /\ \A x \in S : Min(S) <= x
<1> DEFINE T == {1 .. x : x \in S}
<1>1. T \subseteq FiniteSubsetsOf(Nat) /\ T # {}
  <2>1. ASSUME NEW x \in S PROVE 1 .. x \in FiniteSubsetsOf(Nat)
    <3>1. 1 .. x \subseteq Nat /\ IsFiniteSet(1 .. x)
      BY FS_Interval
    <3> QED BY <3>1 DEF FiniteSubsetsOf
  <2> QED BY <2>1
<1>2. PICK t \in T : \A u \in T : ~ (<<u, t>> \in StrictSubsetOrdering(Nat))
  <2> HIDE DEF T
  <2> QED BY <1>1, FS_StrictSubsetOrderingWellFounded, WFMin
<1>3. PICK x \in S : t = 1 .. x
  OBVIOUS
<1>4. ASSUME NEW y \in S PROVE x <= y
  <2> SUFFICES ASSUME y < x PROVE FALSE
    OBVIOUS
  <2>1. 1 .. y \subseteq 1 .. x /\ x \in 1 .. x /\ x \notin 1 .. y
    OBVIOUS
  <2>2. <<1 .. y, t>> \in StrictSubsetOrdering(Nat)
    <3>1. 1 .. y \subseteq Nat /\ 1 .. x \subseteq Nat
      OBVIOUS
    <3> QED BY <2>1, <3>1, <1>3 DEF StrictSubsetOrdering
  <2> QED BY <1>2, <2>2
<1> QED
  BY <1>4 DEF Min

(* Of numbers up to n. *)
LEMMA GreatestFacts ==
  ASSUME NEW n \in Nat, NEW S, S \subseteq 0 .. n, S # {}
  PROVE  Max(S) \in S /\ \A x \in S : Max(S) >= x
<1> DEFINE T == {n - x : x \in S}
<1>1. T \subseteq Nat /\ T # {}
  <2>1. ASSUME NEW x \in S PROVE n - x \in Nat
    <3>1. x \in 0 .. n
      OBVIOUS
    <3> QED BY <3>1
  <2>2. PICK x : x \in S
    OBVIOUS
  <2>3. n - x \in T
    BY <2>2
  <2> QED BY <2>1, <2>3
<1>2. Min(T) \in T /\ \A x \in T : Min(T) <= x
  <2> HIDE DEF T
  <2> QED BY <1>1, LeastFacts
<1>3. PICK x \in S : Min(T) = n - x
  BY <1>2
<1>4. ASSUME NEW y \in S PROVE x >= y
  <2>1. n - x <= n - y
    BY <1>2, <1>3
  <2> QED BY <2>1
<1> QED
  BY <1>4 DEF Max

---------------------------------------------------------------------------
(* Regions.                                                                *)

IsRegion(r) ==
  /\ r = Region(r.base, r.size, r.bytes)
  /\ r.base \in Nat /\ r.size \in Nat /\ r.base + r.size < Space
  /\ r.bytes = [o \in 0 .. r.size - 1 |-> r.bytes[o]]

IsSeq(q) == \E S : q \in Seq(S)

IsMemory(m) == IsSeq(m) /\ \A j \in 1 .. Len(m) : IsRegion(m[j])

(* The addresses of a region. *)
Has(r, a) == r.base <= a /\ a < r.base + r.size

LEMMA ModuloSpace == \A n \in Nat : n < Space => n % Space = n
BY RegionsAssumption

LEMMA SeqFacts ==
  ASSUME NEW q, IsSeq(q), NEW e
  PROVE  /\ Len(q) \in Nat /\ DOMAIN q = 1 .. Len(q)
         /\ IsSeq(Append(q, e)) /\ Len(Append(q, e)) = Len(q) + 1
         /\ \A j \in 1 .. Len(q) : Append(q, e)[j] = q[j]
         /\ Append(q, e)[Len(q) + 1] = e
<1>1. PICK S : q \in Seq(S)
  BY DEF IsSeq
<1>2. q \in Seq(S \cup {e}) /\ e \in S \cup {e}
  BY <1>1
<1>3. Append(q, e) \in Seq(S \cup {e})
  BY <1>2
<1> QED BY <1>2, <1>3 DEF IsSeq

LEMMA HitsFacts ==
  ASSUME NEW m, IsMemory(m), NEW a \in Nat
  PROVE  /\ Hits(m, a) = {j \in 1 .. Len(m) : Has(m[j], a)}
         /\ Mapped(m, a) <=> \E j \in 1 .. Len(m) : Has(m[j], a)
<1>1. DOMAIN m = 1 .. Len(m)
  BY SeqFacts DEF IsMemory
<1>2. ASSUME NEW j \in 1 .. Len(m) PROVE Within(a, m[j].base, m[j].size) <=> Has(m[j], a)
  <2>1. /\ m[j].base \in Nat /\ m[j].size \in Nat /\ m[j].base + m[j].size < Space
    BY DEF IsMemory, IsRegion
  <2>2. (m[j].base + m[j].size) % Space = m[j].base + m[j].size
    BY <2>1, ModuloSpace
  <2> QED BY <2>1, <2>2 DEF Within, Has
<1>3. Hits(m, a) = {j \in 1 .. Len(m) : Has(m[j], a)}
  BY <1>1, <1>2 DEF Hits
<1> QED BY <1>3 DEF Mapped

(* The first region that has an address. *)
LEMMA HomeFacts ==
  ASSUME NEW m, IsMemory(m), NEW a \in Nat, Mapped(m, a)
  PROVE  /\ Home(m, a) \in 1 .. Len(m) /\ Has(m[Home(m, a)], a)
         /\ \A j \in 1 .. Len(m) : Has(m[j], a) => Home(m, a) <= j
         /\ Offset(m, a) \in 0 .. m[Home(m, a)].size - 1
         /\ Offset(m, a) = a - m[Home(m, a)].base
         /\ Read(m, a) = m[Home(m, a)].bytes[a - m[Home(m, a)].base]
<1>1. Hits(m, a) = {j \in 1 .. Len(m) : Has(m[j], a)}
  BY HitsFacts
<1>2. Hits(m, a) \subseteq Nat /\ Hits(m, a) # {}
  BY <1>1 DEF Mapped
<1>3. Home(m, a) \in Hits(m, a) /\ \A j \in Hits(m, a) : Home(m, a) <= j
  BY <1>2, LeastFacts DEF Home
<1>4. Home(m, a) \in 1 .. Len(m) /\ Has(m[Home(m, a)], a)
  BY <1>1, <1>3
<1>5. m[Home(m, a)].base \in Nat /\ m[Home(m, a)].size \in Nat
  BY <1>4 DEF IsMemory, IsRegion
<1>6. Offset(m, a) \in 0 .. m[Home(m, a)].size - 1
  BY <1>4, <1>5 DEF Offset, Has
<1> QED BY <1>1, <1>3, <1>4, <1>6 DEF Offset, Read

(* Memories whose regions lie alike. *)
Alike(m, n) ==
  /\ IsSeq(n) /\ Len(n) = Len(m)
  /\ \A j \in 1 .. Len(m) : IsRegion(n[j]) /\ n[j].base = m[j].base /\ n[j].size = m[j].size

LEMMA AlikeFacts ==
  ASSUME NEW m, IsMemory(m), NEW n, Alike(m, n)
  PROVE  /\ IsMemory(n)
         /\ \A a \in Nat :
              /\ Mapped(n, a) = Mapped(m, a)
              /\ Mapped(m, a) => /\ Home(n, a) = Home(m, a)
                                 /\ Read(n, a) = n[Home(m, a)].bytes[a - m[Home(m, a)].base]
<1>1. IsMemory(n)
  BY DEF Alike, IsMemory
<1>2. ASSUME NEW a \in Nat
      PROVE  /\ Mapped(n, a) = Mapped(m, a)
             /\ Mapped(m, a) => /\ Home(n, a) = Home(m, a)
                                /\ Read(n, a) = n[Home(m, a)].bytes[a - m[Home(m, a)].base]
  <2>1. Hits(n, a) = Hits(m, a)
    <3>1. \A j \in 1 .. Len(m) : Has(n[j], a) <=> Has(m[j], a)
      BY DEF Alike, Has
    <3>2. Hits(m, a) = {j \in 1 .. Len(m) : Has(m[j], a)}
      BY HitsFacts
    <3>3. Hits(n, a) = {j \in 1 .. Len(n) : Has(n[j], a)}
      BY <1>1, HitsFacts
    <3>4. Len(n) = Len(m)
      BY DEF Alike
    <3> QED BY <3>1, <3>2, <3>3, <3>4
  <2>2. Mapped(n, a) = Mapped(m, a) /\ Home(n, a) = Home(m, a)
    BY <2>1 DEF Mapped, Home
  <2>3. ASSUME Mapped(m, a) PROVE Read(n, a) = n[Home(m, a)].bytes[a - m[Home(m, a)].base]
    <3>1. Home(m, a) \in 1 .. Len(m)
      BY <2>3, HomeFacts
    <3>2. n[Home(m, a)].base = m[Home(m, a)].base
      BY <3>1 DEF Alike
    <3> QED BY <1>1, <2>2, <2>3, <3>2, HomeFacts
  <2> QED BY <2>2, <2>3
<1> QED BY <1>1, <1>2

(* A region behind the others. *)
LEMMA AppendFacts ==
  ASSUME NEW m, IsMemory(m), NEW r, IsRegion(r)
  PROVE  LET n == Append(m, r) IN
         /\ IsMemory(n) /\ Len(n) = Len(m) + 1 /\ n[Len(m) + 1] = r
         /\ \A j \in 1 .. Len(m) : n[j] = m[j]
         /\ \A a \in Nat :
              /\ Mapped(n, a) <=> Mapped(m, a) \/ Has(r, a)
              /\ Mapped(m, a) => Home(n, a) = Home(m, a) /\ Read(n, a) = Read(m, a)
              /\ ~ Mapped(m, a) /\ Has(r, a) =>
                   Home(n, a) = Len(m) + 1 /\ Read(n, a) = r.bytes[a - r.base]
<1> DEFINE n == Append(m, r)
<1>1. /\ IsSeq(n) /\ Len(m) \in Nat /\ Len(n) = Len(m) + 1 /\ n[Len(m) + 1] = r
      /\ \A j \in 1 .. Len(m) : n[j] = m[j]
  BY SeqFacts DEF IsMemory
<1> HIDE DEF n
<1>2. IsMemory(n)
  <2>1. ASSUME NEW j \in 1 .. Len(n) PROVE IsRegion(n[j])
    <3>1. j \in 1 .. Len(m) \/ j = Len(m) + 1
      BY <1>1
    <3> QED BY <1>1, <3>1 DEF IsMemory
  <2> QED BY <1>1, <2>1 DEF IsMemory
<1>3. ASSUME NEW a \in Nat
      PROVE  /\ Mapped(n, a) <=> Mapped(m, a) \/ Has(r, a)
             /\ Mapped(m, a) => Home(n, a) = Home(m, a) /\ Read(n, a) = Read(m, a)
             /\ ~ Mapped(m, a) /\ Has(r, a) =>
                  Home(n, a) = Len(m) + 1 /\ Read(n, a) = r.bytes[a - r.base]
  <2>1. Mapped(m, a) <=> \E j \in 1 .. Len(m) : Has(m[j], a)
    BY HitsFacts
  <2>2. Mapped(n, a) <=> \E j \in 1 .. Len(n) : Has(n[j], a)
    BY <1>2, HitsFacts
  <2>3. \A j \in 1 .. Len(n) : j \in 1 .. Len(m) \/ j = Len(m) + 1
    BY <1>1
  <2>4. Len(m) + 1 \in 1 .. Len(n) /\ 1 .. Len(m) \subseteq 1 .. Len(n)
    BY <1>1
  <2>5. Mapped(n, a) <=> Mapped(m, a) \/ Has(r, a)
    BY <1>1, <2>1, <2>2, <2>3, <2>4
  <2>6. ASSUME Mapped(m, a) PROVE Home(n, a) = Home(m, a) /\ Read(n, a) = Read(m, a)
    <3>1. Home(m, a) \in 1 .. Len(m) /\ Has(n[Home(m, a)], a)
      BY <1>1, <2>6, HomeFacts
    <3>2. /\ Home(n, a) \in 1 .. Len(n) /\ Home(n, a) <= Home(m, a) /\ Has(n[Home(n, a)], a)
      BY <1>2, <2>4, <2>5, <2>6, <3>1, HomeFacts
    <3>3. Home(n, a) \in 1 .. Len(m)
      BY <1>1, <3>1, <3>2
    <3>4. Home(m, a) <= Home(n, a)
      BY <1>1, <2>6, <3>2, <3>3, HomeFacts
    <3>5. Home(n, a) = Home(m, a)
      BY <3>1, <3>2, <3>3, <3>4
    <3>6. n[Home(m, a)] = m[Home(m, a)]
      BY <1>1, <3>1
    <3> QED BY <1>2, <2>5, <2>6, <3>5, <3>6, HomeFacts
  <2>7. ASSUME ~ Mapped(m, a), Has(r, a)
        PROVE  Home(n, a) = Len(m) + 1 /\ Read(n, a) = r.bytes[a - r.base]
    <3>1. Home(n, a) \in 1 .. Len(n) /\ Has(n[Home(n, a)], a)
      BY <1>2, <2>5, <2>7, HomeFacts
    <3>2. Home(n, a) = Len(m) + 1
      BY <1>1, <2>1, <2>3, <2>7, <3>1
    <3> QED BY <1>1, <1>2, <2>5, <2>7, <3>2, HomeFacts
  <2> QED BY <2>5, <2>6, <2>7
<1> QED BY <1>1, <1>2, <1>3 DEF n

---------------------------------------------------------------------------
(* Making a memory leaves what is read as it is.                           *)

(* Regions are made of whole words. *)
Whole(m) == \A j \in 1 .. Len(m) : m[j].base % 4 = 0 /\ m[j].size % 4 = 0

(* n has what m has, and reads alike. *)
Extended(m, n) == \A a \in Nat : Read(n, a) = Read(m, a) /\ (Mapped(m, a) => Mapped(n, a))

Covers(m, base, size) == \A a \in Nat : base <= a /\ a < base + size => Mapped(m, a)

LEMMA ZeroRegion ==
  ASSUME NEW m, IsMemory(m), NEW r, IsRegion(r), \A o \in 0 .. r.size - 1 : r.bytes[o] = Zero,
         NEW a \in Nat
  PROVE  Read(Append(m, r), a) = Read(m, a)
<1> DEFINE n == Append(m, r)
<1>1. CASE Mapped(m, a)
  BY <1>1, AppendFacts
<1>2. CASE ~ Mapped(m, a) /\ Has(r, a)
  <2>1. a - r.base \in 0 .. r.size - 1
    BY <1>2 DEF Has, IsRegion
  <2>2. Read(n, a) = Zero
    BY <1>2, <2>1, AppendFacts
  <2> QED BY <1>2, <2>2 DEF Read
<1>3. CASE ~ Mapped(m, a) /\ ~ Has(r, a)
  <2>1. ~ Mapped(n, a)
    BY <1>3, AppendFacts
  <2> QED BY <1>3, <2>1 DEF Read
<1> QED BY <1>1, <1>2, <1>3

LEMMA AttachFacts ==
  ASSUME NEW m, IsMemory(m), Whole(m), Len(m) <= MaxRegions,
         NEW base \in Nat, NEW size \in Nat, base + size < Space, base % 4 = 0, size % 4 = 0
  PROVE  LET n == Attach(m, base, size) IN
         /\ IsMemory(n) /\ Whole(n) /\ Len(n) <= MaxRegions
         /\ Extended(m, n)
         /\ CanAttach(m) => Covers(n, base, size)
<1> DEFINE n == Attach(m, base, size)
           r == SimpleMemory(base, size)
<1>1. /\ IsRegion(r) /\ r.base = base /\ r.size = size
      /\ \A o \in 0 .. r.size - 1 : r.bytes[o] = Zero
  <2>1. RoundUp(size, WordBytes) = size
    BY DEF RoundUp, WordBytes
  <2>2. r = Region(base, size, [o \in 0 .. size - 1 |-> IF o < size THEN Zero ELSE Junk])
    BY <2>1 DEF SimpleMemory
  <2> QED BY <2>2 DEF Region, IsRegion
<1>2. CASE ~ CanAttach(m)
  BY <1>2 DEF Attach, Extended
<1>3. CASE CanAttach(m)
  <2>1. n = Append(m, r)
    BY <1>3 DEF Attach
  <2> HIDE DEF n, r
  <2>2. IsMemory(n) /\ Len(n) = Len(m) + 1 /\ n[Len(m) + 1] = r /\ \A j \in 1 .. Len(m) : n[j] = m[j]
    BY <1>1, <2>1, AppendFacts
  <2>3. Len(m) \in Nat
    BY SeqFacts DEF IsMemory
  <2>4. Whole(n)
    <3>1. \A j \in 1 .. Len(n) : j \in 1 .. Len(m) \/ j = Len(m) + 1
      BY <2>2, <2>3
    <3> QED BY <1>1, <2>2, <3>1 DEF Whole
  <2>5. Len(n) <= MaxRegions
    BY <1>3, <2>2, <2>3, RegionsAssumption DEF CanAttach
  <2>6. Extended(m, n) /\ Covers(n, base, size)
    <3>1. \A a \in Nat : base <= a /\ a < base + size => Has(r, a)
      BY <1>1 DEF Has
    <3>2. \A a \in Nat : Mapped(n, a) <=> Mapped(m, a) \/ Has(r, a)
      BY <1>1, <2>1, AppendFacts
    <3>3. \A a \in Nat : Read(n, a) = Read(m, a)
      BY <1>1, <2>1, ZeroRegion
    <3> QED BY <3>1, <3>2, <3>3 DEF Extended, Covers
  <2> QED BY <2>2, <2>4, <2>5, <2>6 DEF n
<1> QED BY <1>2, <1>3

LEMMA NewBytes ==
  ASSUME NEW r, NEW b, NEW z, NEW J, r = [base |-> b, size |-> z, bytes |-> J], NEW F
  PROVE  [r EXCEPT !.bytes = F] = [base |-> r.base, size |-> r.size, bytes |-> F]
OBVIOUS

LEMMA RoundUpFacts ==
  ASSUME NEW n \in Nat, NEW u \in Nat \ {0}
  PROVE  RoundUp(n, u) \in Nat /\ RoundUp(n, u) >= n
<1> DEFINE q == (n + u - 1) \div u
           r == (n + u - 1) % u
<1>1. q \in Nat /\ r \in 0 .. u - 1 /\ n + u - 1 = u * q + r
  BY SMT
<1> HIDE DEF q, r
<1>2. u * q \in Nat /\ u * q >= n
  BY <1>1, SMT
<1> QED BY <1>2 DEF RoundUp, q

(* The regions of the testbench grow upwards: each ends big or less above  *)
(* the one before it, or above top.                                        *)
Below(m, top, big) == \A j \in 1 .. Len(m) : m[j].base + m[j].size <= top + j * big

(* A memory for which there is room, and one that is in the lines it fills. *)
Room(base, size, top, big) == base <= top /\ RoundUp(size, BenchLine) <= big

InLines(base, size) == (base % BenchLine) + size <= RoundUp(size, BenchLine)

LEMMA BenchCreateFacts ==
  ASSUME NEW m, IsMemory(m), Len(m) <= BenchRegions, NEW top \in Nat, NEW big \in Nat,
         Below(m, top, big), top + BenchRegions * big < Space,
         NEW base \in Nat, NEW size \in Nat \ {0}, Room(base, size, top, big)
  PROVE  LET n == BenchCreate(m, base, size) IN
         /\ Len(m) # BenchRegions => ~ BenchAborts(m, base, size)
         /\ ~ BenchAborts(m, base, size) =>
              /\ IsMemory(n) /\ Len(n) <= BenchRegions /\ Below(n, top, big)
              /\ Extended(m, n)
              /\ InLines(base, size) => Covers(n, base, size)
<1> DEFINE len   == RoundUp(size, BenchLine)
           low   == base - (base % BenchLine)
           end   == top + Len(m) * big
           free  == {a \in low .. Space : ~ Mapped(m, a)}
           first == FirstFree(m, low)
           free2 == {a \in 0 .. first + len - 1 : ~ Mapped(m, a)}
           last  == LastFree(m, first, len)
           fresh == last + 1 - first
           junk  == Region(first, fresh, [o \in 0 .. fresh - 1 |-> Junk])
           zero  == Region(first, fresh, [o \in 0 .. fresh - 1 |-> Zero])
           added == AddRegion(m, first, fresh)
           n     == BenchCreate(m, base, size)
<1>1. /\ len \in Nat /\ len >= size /\ len >= 1 /\ len <= big /\ base <= top
      /\ low \in Nat /\ low <= base /\ (InLines(base, size) => base + size <= low + len)
  <2>1. base % BenchLine \in 0 .. BenchLine - 1 /\ base % BenchLine <= base
    BY RegionsAssumption, SMT
  <2>2. len \in Nat /\ len >= size
    BY RoundUpFacts, RegionsAssumption
  <2> QED BY <2>1, <2>2 DEF Room, InLines
<1>2. /\ Len(m) \in Nat /\ end \in Nat /\ end < Space /\ low <= end
      /\ Len(m) # BenchRegions => end + big < Space
  <2>1. Len(m) \in Nat
    BY SeqFacts DEF IsMemory
  <2>2. Len(m) * big \in Nat /\ Len(m) * big <= BenchRegions * big
    BY <2>1, RegionsAssumption, SMT
  <2>3. Len(m) # BenchRegions => Len(m) * big + big <= BenchRegions * big
    BY <2>1, RegionsAssumption, SMT
  <2>4. BenchRegions * big \in Nat
    BY RegionsAssumption, SMT
  <2> DEFINE step == Len(m) * big
             all  == BenchRegions * big
  <2>5. step \in Nat /\ step <= all /\ (Len(m) # BenchRegions => step + big <= all) /\ all \in Nat
    BY <2>2, <2>3, <2>4
  <2>6. end = top + step /\ top + all < Space
    OBVIOUS
  <2> HIDE DEF step, all, end, low, len
  <2> QED BY <1>1, <2>1, <2>5, <2>6, RegionsAssumption
<1>3. ~ Mapped(m, end)
  <2> SUFFICES ASSUME NEW j \in 1 .. Len(m) PROVE ~ Has(m[j], end)
    BY <1>2, HitsFacts
  <2>1. m[j].base + m[j].size <= top + j * big /\ m[j].base + m[j].size \in Nat
    <3>1. m[j].base + m[j].size <= top + j * big
      BY Zenon DEF Below
    <3>2. m[j].base + m[j].size \in Nat
      <4>1. IsRegion(m[j])
        BY Zenon DEF IsMemory
      <4> QED BY <4>1, SMTT(30) DEF IsRegion
    <3> QED BY <3>1, <3>2, Zenon
  <2>2. j * big <= Len(m) * big /\ j * big \in Nat /\ Len(m) * big \in Nat
    BY <1>2, SMTT(30)
  <2> HIDE DEF low, len
  <2> QED BY <2>1, <2>2 DEF Has, IsMemory, IsRegion
<1>4. /\ first \in low .. Space /\ ~ Mapped(m, first) /\ first <= end
      /\ \A a \in low .. Space : ~ Mapped(m, a) => first <= a
  <2>1. end \in free /\ free \subseteq Nat
    BY <1>1, <1>2, <1>3, RegionsAssumption
  <2>2. first = Min(free)
    BY DEF FirstFree
  <2>3. Min(free) \in free /\ \A a \in free : Min(free) <= a
    <3> HIDE DEF free
    <3> QED BY <2>1, LeastFacts
  <2> QED BY <2>1, <2>2, <2>3
<1>5. /\ last \in 0 .. first + len - 1 /\ ~ Mapped(m, last) /\ first <= last
      /\ \A a \in 0 .. first + len - 1 : ~ Mapped(m, a) => a <= last
  <2>1. first \in Nat /\ first + len - 1 \in Nat
    BY <1>1, <1>4
  <2>2. free2 \subseteq 0 .. first + len - 1 /\ first \in free2
    <3> HIDE DEF first, len
    <3> QED BY <1>1, <1>4, <2>1
  <2>3. last = Max(free2)
    BY DEF LastFree
  <2>4. Max(free2) \in free2 /\ \A a \in free2 : Max(free2) >= a
    <3> HIDE DEF free2, first, len
    <3> QED BY <2>1, <2>2, GreatestFacts
  <2> HIDE DEF last, first, len
  <2> QED BY <2>1, <2>2, <2>3, <2>4
<1>6. /\ first \in Nat /\ last \in Nat /\ fresh \in Nat /\ fresh >= 1 /\ first + fresh - 1 = last
      /\ first + fresh <= end + big
  <2> HIDE DEF first, last, len, end
  <2> QED BY <1>1, <1>2, <1>4, <1>5, RegionsAssumption
<1>7. CutLines(m, base, size) = [first |-> first, length |-> fresh]
  BY DEF CutLines, BenchLines
<1>8. BenchAborts(m, base, size) <=> ~ Mapped(added, first)
  BY <1>7 DEF BenchAborts
<1>9. n = Cleared(added, first, fresh)
  BY <1>7 DEF BenchCreate
<1>10. CASE Len(m) = BenchRegions
  <2>1. added = m
    BY <1>10 DEF AddRegion
  <2> QED BY <1>4, <1>8, <1>10, <2>1
<1>11. CASE Len(m) # BenchRegions
  <2> HIDE DEF first, last, len, end, low
  <2>1. added = Append(m, junk)
    BY <1>4, <1>5, <1>6, <1>11 DEF AddRegion
  <2>2. first + fresh < Space
    BY <1>2, <1>6, <1>11, RegionsAssumption
  <2> HIDE DEF fresh
  <2>3. IsRegion(junk) /\ IsRegion(zero)
    BY <1>6, <2>2 DEF IsRegion, Region
  <2>4. Has(junk, first) /\ junk.base = first /\ junk.size = fresh
    BY <1>6 DEF Has, Region
  <2>5. Mapped(added, first) /\ Home(added, first) = Len(m) + 1
    BY <1>4, <1>6, <2>1, <2>3, <2>4, AppendFacts
  <2>6. n = Append(m, zero)
    <3>1. n = [added EXCEPT ![Len(m) + 1].bytes =
                 [o \in DOMAIN @ |-> IF o < fresh THEN Zero ELSE @[o]]]
      BY <1>9, <2>5 DEF Cleared
    <3>2. PICK S : m \in Seq(S)
      BY DEF IsMemory, IsSeq
    <3>3. DOMAIN added = 1 .. Len(m) + 1 /\ Len(m) + 1 \in 1 .. Len(m) + 1
      BY <1>2, <2>1, <2>3, AppendFacts, SeqFacts DEF IsMemory
    <3>4. added[Len(m) + 1] = junk /\ \A j \in 1 .. Len(m) : added[j] = m[j]
      BY <2>1, <2>3, AppendFacts
    <3>5. [junk EXCEPT !.bytes = [o \in DOMAIN @ |-> IF o < fresh THEN Zero ELSE @[o]]] = zero
      <4>1. junk = [base |-> first, size |-> fresh, bytes |-> [o \in 0 .. fresh - 1 |-> Junk]]
        BY DEF Region
      <4>2. [o \in DOMAIN junk.bytes |-> IF o < fresh THEN Zero ELSE junk.bytes[o]]
              = [o \in 0 .. fresh - 1 |-> Zero]
        BY <1>6, <4>1
      <4>3. zero = [base |-> first, size |-> fresh, bytes |-> [o \in 0 .. fresh - 1 |-> Zero]]
        BY DEF Region
      <4>4. [junk EXCEPT !.bytes = [o \in DOMAIN @ |-> IF o < fresh THEN Zero ELSE @[o]]]
              = [base |-> junk.base, size |-> junk.size,
                 bytes |-> [o \in DOMAIN junk.bytes |-> IF o < fresh THEN Zero ELSE junk.bytes[o]]]
        <5>1. \A F : [junk EXCEPT !.bytes = F] = [base |-> junk.base, size |-> junk.size, bytes |-> F]
          <6>1. SUFFICES ASSUME NEW F
                PROVE [junk EXCEPT !.bytes = F] = [base |-> junk.base, size |-> junk.size, bytes |-> F]
            OBVIOUS
          <6>2. \E J : junk = [base |-> first, size |-> fresh, bytes |-> J]
            BY <4>1, Zenon
          <6>3. PICK J : junk = [base |-> first, size |-> fresh, bytes |-> J]
            BY <6>2, Zenon
          <6> HIDE DEF junk
          <6> QED BY <6>3, NewBytes, Zenon
        <5> HIDE DEF junk
        <5> QED BY <5>1, Zenon
      <4>5. junk.base = first /\ junk.size = fresh
        BY <4>1
      <4> HIDE DEF junk, zero
      <4> QED BY <4>2, <4>3, <4>4, <4>5, Zenon
    <3>6. n = [j \in 1 .. Len(m) + 1 |-> IF j = Len(m) + 1 THEN zero ELSE m[j]]
      <4> HIDE DEF junk, zero, added, n
      <4>1. DOMAIN n = 1 .. Len(m) + 1
        BY <3>1, <3>3
      <4>2. n[Len(m) + 1] = zero
        BY <3>1, <3>3, <3>4, <3>5
      <4>3. \A j \in 1 .. Len(m) : n[j] = m[j]
        BY <1>2, <3>1, <3>3, <3>4
      <4>4. n = [j \in 1 .. Len(m) + 1 |-> n[j]]
        BY <3>1, <3>3
      <4>5. \A j \in 1 .. Len(m) + 1 : n[j] = (IF j = Len(m) + 1 THEN zero ELSE m[j])
        BY <1>2, <4>2, <4>3
      <4> QED BY <4>4, <4>5, Zenon
    <3> HIDE DEF n, zero
    <3>7. Append(m, zero) = [j \in 1 .. Len(m) + 1 |-> IF j = Len(m) + 1 THEN zero ELSE m[j]]
      <4> DEFINE T == S \cup {zero}
      <4>1. m \in Seq(T) /\ zero \in T
        BY <3>2
      <4>2. Append(m, zero) \in Seq(T) /\ Len(Append(m, zero)) = Len(m) + 1
        <5> HIDE DEF T
        <5> QED BY <4>1
      <4>3. Append(m, zero) = [j \in 1 .. Len(m) + 1 |-> Append(m, zero)[j]]
        <5> DEFINE w == Append(m, zero)
        <5>1. w \in Seq(T) /\ Len(w) = Len(m) + 1
          BY <4>2
        <5>2. w = [j \in 1 .. Len(w) |-> w[j]]
          <6> HIDE DEF w, T
          <6> QED BY <5>1
        <5> QED BY <5>1, <5>2, Zenon
      <4>4. \A j \in 1 .. Len(m) + 1 : Append(m, zero)[j] = (IF j = Len(m) + 1 THEN zero ELSE m[j])
        BY <1>2, SeqFacts DEF IsMemory
      <4> HIDE DEF T
      <4> QED BY <4>3, <4>4, Zenon
    <3> QED BY <3>6, <3>7
  <2>7. Len(n) = Len(m) + 1 /\ n[Len(m) + 1] = zero /\ (\A j \in 1 .. Len(m) : n[j] = m[j]) /\ IsMemory(n)
    BY <2>3, <2>6, AppendFacts
  <2>8. Len(n) <= BenchRegions
    BY <1>2, <1>11, <2>7, RegionsAssumption
  <2>9. zero.base = first /\ zero.size = fresh /\ \A o \in 0 .. zero.size - 1 : zero.bytes[o] = Zero
    BY DEF Region
  <2> HIDE DEF n, zero
  <2>10. Below(n, top, big)
    <3>1. (Len(m) + 1) * big = Len(m) * big + big /\ Len(m) * big \in Nat
      BY <1>2, SMT
    <3>2. zero.base + zero.size <= top + (Len(m) + 1) * big
      BY <1>6, <2>9, <3>1 DEF end
    <3>3. \A j \in 1 .. Len(n) : j \in 1 .. Len(m) \/ j = Len(m) + 1
      BY <1>2, <2>7
    <3> QED BY <2>7, <3>2, <3>3 DEF Below
  <2>11. Extended(m, n) /\ (InLines(base, size) => Covers(n, base, size))
    <3> SUFFICES ASSUME NEW a \in Nat
                 PROVE  /\ Read(n, a) = Read(m, a) /\ (Mapped(m, a) => Mapped(n, a))
                        /\ InLines(base, size) /\ base <= a /\ a < base + size => Mapped(n, a)
      BY DEF Extended, Covers
    <3>1. Read(n, a) = Read(m, a) /\ (Mapped(n, a) <=> Mapped(m, a) \/ Has(zero, a))
      BY <2>3, <2>6, <2>9, AppendFacts, ZeroRegion
    <3>2. ASSUME InLines(base, size), base <= a, a < base + size, ~ Mapped(m, a) PROVE Has(zero, a)
      <4>1. a \in 0 .. first + len - 1
        BY <1>1, <1>4, <1>6, <3>2
      <4>2. a <= last
        BY <1>5, <3>2, <4>1
      <4>3. first <= a
        <5>1. CASE a \in low .. Space
          BY <1>4, <3>2, <5>1
        <5>2. CASE a \notin low .. Space
          BY <1>1, <1>2, <1>4, <1>6, <3>2, <5>2, RegionsAssumption
        <5> QED BY <5>1, <5>2
      <4> QED BY <1>6, <2>9, <4>2, <4>3 DEF Has
    <3> QED BY <3>1, <3>2
  <2>12. ~ BenchAborts(m, base, size)
    BY <1>8, <2>5
  <2> QED BY <2>7, <2>8, <2>10, <2>11, <2>12 DEF n
<1> QED BY <1>10, <1>11

---------------------------------------------------------------------------
(* A step of the simulator, in a program that keeps to its three words.    *)

(* Registers whose addresses are of instructions. *)
Steered(r) == r = [a \in Csr |-> r[a]] /\ \A a \in PcRegs : r[a] \in Pcs

Runs(s) ==
  /\ IsSim(s) /\ Steered(s.csr) /\ s.pc \in Pcs
  /\ s.exit \in {"running", "done", "error"}

(* An instruction that leaves in those registers only such addresses. *)
Steady(i) ==
  i.op \in CsrOps /\ Backing(i.csr) \in PcRegs =>
    IF i.op = "csrrw" THEN i.data \in Pcs ELSE i.data = {}

LEMMA SteeredFacts ==
  ASSUME NEW r, Steered(r), NEW b, NEW v, b \in PcRegs => v \in Pcs
  PROVE  Steered([r EXCEPT ![b] = v])
<1>1. PcRegs \subseteq Csr
  BY DEF PcRegs, Csr
<1>2. DOMAIN r = Csr /\ \A a \in PcRegs : r[a] \in Pcs
  BY DEF Steered
<1>3. [r EXCEPT ![b] = v] = [a \in Csr |-> IF a = b THEN v ELSE r[a]]
  <2>1. r = [a \in Csr |-> r[a]]
    BY DEF Steered
  <2> QED BY <2>1
<1>4. \A a \in PcRegs : (IF a = b THEN v ELSE r[a]) \in Pcs
  BY <1>2
<1> QED BY <1>1, <1>3, <1>4 DEF Steered

LEMMA RunsTrap ==
  ASSUME NEW s, Runs(s), NEW irq \in BOOLEAN, NEW n, NEW pc \in Pcs, NEW tval
  PROVE  LET t == SimException(s, irq, n, pc, tval) IN
         Runs(t) /\ t.pcx = s.pcx /\ t.exit = s.exit /\ t.brk = s.brk
<1>1. IsSim(s) /\ Steered(s.csr) /\ s.csr["stvec"] \in Pcs /\ s.csr["mtvec"] \in Pcs
  BY DEF Runs, Steered, PcRegs
<1>2. s.csr = [a \in Csr |-> s.csr[a]] /\ \A a \in PcRegs : s.csr[a] \in Pcs
  BY <1>1 DEF Steered
<1> DEFINE cause == CauseWord(irq, n)
<1>3. CASE Delegated(s, irq, n)
  <2>1. PICK t : t = ToSupervisor(s, cause, pc, tval)
    OBVIOUS
  <2>2. PICK q : q = SuperTrap(s.csr, s.mpriv, pc, cause, tval)
    OBVIOUS
  <2>3. t = [s EXCEPT !.mpriv = PRIV_SUPER, !.pc = s.csr["stvec"], !.csr = q]
    BY <2>1, <2>2 DEF ToSupervisor, SuperTrap
  <2>4. IsSim(t) /\ t.pc = s.csr["stvec"] /\ t.pcx = s.pcx /\ t.exit = s.exit /\ t.brk = s.brk /\ t.csr = q
    BY <1>1, <2>3 DEF IsSim
  <2>5. Steered(q)
    <3>1. PICK sr : sr = (Saved(s.csr["mstatus"], SR_SIE, SR_SPIE) \ SR_SPP)
                            \cup (IF s.mpriv = PRIV_SUPER THEN SR_SPP ELSE {})
      OBVIOUS
    <3>2. q = [s.csr EXCEPT !["mstatus"] = sr, !["sepc"] = pc, !["scause"] = cause, !["stval"] = tval]
      BY <1>2, <2>2, <3>1 DEF SuperTrap, Csr
    <3>3. q = [a \in Csr |-> q[a]]
      BY <1>2, <3>2
    <3>4. \A a \in PcRegs : q[a] \in Pcs
      BY <1>2, <3>2 DEF PcRegs, Csr
    <3> QED BY <3>3, <3>4 DEF Steered
  <2>6. SimException(s, irq, n, pc, tval) = t
    BY <1>3, <2>1 DEF SimException
  <2> QED BY <1>1, <2>4, <2>5, <2>6 DEF Runs
<1>4. CASE ~ Delegated(s, irq, n)
  <2>1. PICK t : t = ToMachine(s, cause, pc)
    OBVIOUS
  <2>2. PICK q : q = MachineTrap(s.csr, s.mpriv, pc, cause)
    OBVIOUS
  <2>3. t = [s EXCEPT !.mpriv = PRIV_MACHINE, !.pc = s.csr["mtvec"], !.csr = q]
    BY <2>1, <2>2 DEF ToMachine, MachineTrap
  <2>4. IsSim(t) /\ t.pc = s.csr["mtvec"] /\ t.pcx = s.pcx /\ t.exit = s.exit /\ t.brk = s.brk /\ t.csr = q
    BY <1>1, <2>3 DEF IsSim
  <2>5. Steered(q)
    <3>1. PICK sr : sr = (Saved(s.csr["mstatus"], SR_MIE, SR_MPIE) \ SR_MPP) \cup Mpp(s.mpriv)
      OBVIOUS
    <3>2. q = [s.csr EXCEPT !["mstatus"] = sr, !["mepc"] = pc, !["mcause"] = cause]
      BY <1>2, <2>2, <3>1 DEF MachineTrap, Csr
    <3>3. q = [a \in Csr |-> q[a]]
      BY <1>2, <3>2
    <3>4. \A a \in PcRegs : q[a] \in Pcs
      BY <1>2, <3>2 DEF PcRegs, Csr
    <3> QED BY <3>3, <3>4 DEF Steered
  <2>6. SimException(s, irq, n, pc, tval) = t
    BY <1>4, <2>1 DEF SimException
  <2> QED BY <1>1, <2>4, <2>5, <2>6 DEF Runs
<1> QED BY <1>3, <1>4

LEMMA RunsException ==
  ASSUME NEW s, Runs(s), NEW n, NEW tval
  PROVE  LET t == SimException(s, FALSE, n, s.pc, tval) IN
         Runs(t) /\ t.pcx = s.pcx /\ t.exit = s.exit /\ t.brk = s.brk
<1>1. PICK irq \in BOOLEAN : irq = FALSE
  OBVIOUS
<1>2. s.pc \in Pcs
  BY DEF Runs
<1>3. LET t == SimException(s, irq, n, s.pc, tval) IN
      Runs(t) /\ t.pcx = s.pcx /\ t.exit = s.exit /\ t.brk = s.brk
  BY <1>2, RunsTrap
<1> QED BY <1>1, <1>3

LEMMA RunsReturn ==
  ASSUME NEW s, Runs(s)
  PROVE  /\ LET t == Mret(s) IN
            Runs(t) /\ t.pcx = s.pcx /\ t.brk = s.brk
         /\ LET t == Sret(s) IN
            Runs(t) /\ t.pcx = s.pcx /\ t.brk = s.brk
         /\ LET t == Error(s) IN
            Runs(t) /\ t.pcx = s.pcx /\ t.brk = s.brk /\ t.exit = "error" /\ t.pc = s.pc
<1>1. IsSim(s) /\ Steered(s.csr) /\ s.csr["sepc"] \in Pcs /\ s.csr["mepc"] \in Pcs
  BY DEF Runs, Steered, PcRegs
<1>2. LET t == Error(s) IN
      Runs(t) /\ t.pcx = s.pcx /\ t.brk = s.brk /\ t.exit = "error" /\ t.pc = s.pc
  BY <1>1 DEF Runs, IsSim, Error
<1>3. ASSUME NEW v PROVE Steered([s.csr EXCEPT !["mstatus"] = v])
  BY <1>1, SteeredFacts DEF PcRegs
<1>4. LET t == Mret(s) IN Runs(t) /\ t.pcx = s.pcx /\ t.brk = s.brk
  <2>1. CASE s.mpriv # PRIV_MACHINE
    BY <1>2, <2>1 DEF Mret
  <2>2. CASE s.mpriv = PRIV_MACHINE
    <3>1. PICK v : v = (Popped(s.csr["mstatus"], SR_MIE, SR_MPIE) \ SR_MPP) \cup Mpp(PRIV_USER)
      OBVIOUS
    <3>2. LET t == Mret(s) IN
          /\ IsSim(t) /\ t.pc = s.csr["mepc"] /\ t.pcx = s.pcx /\ t.exit = s.exit /\ t.brk = s.brk
          /\ t.csr = [s.csr EXCEPT !["mstatus"] = v]
      BY <1>1, <2>2, <3>1 DEF IsSim, Mret
    <3>3. Steered([s.csr EXCEPT !["mstatus"] = v])
      BY <1>3
    <3> QED BY <1>1, <3>2, <3>3 DEF Runs
  <2> QED BY <2>1, <2>2
<1>5. LET t == Sret(s) IN Runs(t) /\ t.pcx = s.pcx /\ t.brk = s.brk
  <2>1. CASE s.mpriv # PRIV_SUPER
    BY <1>2, <2>1 DEF Sret
  <2>2. CASE s.mpriv = PRIV_SUPER
    <3>1. PICK v : v = Popped(s.csr["mstatus"], SR_SIE, SR_SPIE) \ SR_SPP
      OBVIOUS
    <3>2. LET t == Sret(s) IN
          /\ IsSim(t) /\ t.pc = s.csr["sepc"] /\ t.pcx = s.pcx /\ t.exit = s.exit /\ t.brk = s.brk
          /\ t.csr = [s.csr EXCEPT !["mstatus"] = v]
      BY <1>1, <2>2, <3>1 DEF IsSim, Sret
    <3>3. Steered([s.csr EXCEPT !["mstatus"] = v])
      BY <1>3
    <3> QED BY <1>1, <3>2, <3>3 DEF Runs
  <2> QED BY <2>1, <2>2
<1> QED BY <1>2, <1>4, <1>5

LEMMA RunsAccess ==
  ASSUME NEW s, Runs(s), NEW i, i.op \in CsrOps, Steady(i)
  PROVE  LET t == AccessCsr(s, i.op, i.csr, i.data) IN
         Runs(t) /\ t.pcx = s.pcx /\ t.brk = s.brk /\ t.pc = s.pc
<1>1. IsSim(s) /\ Steered(s.csr)
  BY DEF Runs
<1> DEFINE b == Backing(i.csr)
           v == Updated(i.op, s.csr[b], i.data \cap Mask(i.csr))
<1>2. b \in PcRegs => v \in Pcs
  <2> SUFFICES ASSUME b \in PcRegs PROVE v \in Pcs
    OBVIOUS
  <2>1. s.csr[b] \in Pcs
    BY <1>1 DEF Steered
  <2>2. CASE i.op = "csrrw"
    <3>1. i.data \in Pcs /\ i.data \subseteq AllOnes
      BY <2>2, PcsFacts DEF Steady
    <3>2. Mask(i.csr) = AllOnes
      BY DEF Mask, PcRegs, Backing
    <3> QED BY <2>2, <3>1, <3>2 DEF Updated
  <2>3. CASE i.op # "csrrw"
    <3>1. i.data = {}
      BY <2>3 DEF Steady
    <3> QED BY <2>1, <2>3, <3>1 DEF Updated, CsrOps
  <2> QED BY <2>2, <2>3
<1>3. Steered([s.csr EXCEPT ![b] = v])
  BY <1>1, <1>2, SteeredFacts
<1>4. LET t == StandardAccess(s, i.op, i.csr, i.data) IN
      Runs(t) /\ t.pcx = s.pcx /\ t.brk = s.brk /\ t.pc = s.pc
  <2>1. LET t == StandardAccess(s, i.op, i.csr, i.data) IN
        /\ IsSim(t) /\ t.pc = s.pc /\ t.pcx = s.pcx /\ t.exit = s.exit /\ t.brk = s.brk
        /\ t.csr = [s.csr EXCEPT ![b] = v]
    BY <1>1 DEF IsSim, StandardAccess
  <2> QED BY <1>3, <2>1 DEF Runs
<1>5. LET t == TimeAccess(s, i.op, i.data) IN
      Runs(t) /\ t.pcx = s.pcx /\ t.brk = s.brk /\ t.pc = s.pc
  <2>1. PICK w : w = s.csr["mip"] \ {TimerBit(s)}
    OBVIOUS
  <2>2. Steered([s.csr EXCEPT !["mip"] = w])
    BY <1>1, SteeredFacts DEF PcRegs
  <2>3. PICK t : t = [s EXCEPT !.mtimecmp = i.data, !.csr = [s.csr EXCEPT !["mip"] = w]]
    OBVIOUS
  <2>4. /\ IsSim(t) /\ t.pc = s.pc /\ t.pcx = s.pcx /\ t.exit = s.exit /\ t.brk = s.brk
        /\ t.csr = [s.csr EXCEPT !["mip"] = w]
    BY <1>1, <2>3 DEF IsSim
  <2>5. TimeAccess(s, i.op, i.data) = s \/ TimeAccess(s, i.op, i.data) = t
    BY <1>1, <2>1, <2>3 DEF TimeAccess, IsSim
  <2> QED BY <2>2, <2>4, <2>5 DEF Runs
<1>6. LET t == ControlAccess(s, i.data) IN
      Runs(t) /\ t.pcx = s.pcx /\ t.brk = s.brk /\ t.pc = s.pc
  BY <1>1 DEF Runs, IsSim, ControlAccess
<1>7. LET t == Error(s) IN
      Runs(t) /\ t.pcx = s.pcx /\ t.brk = s.brk /\ t.pc = s.pc
  BY RunsReturn
<1> HIDE DEF b, v
<1> QED BY <1>4, <1>5, <1>6, <1>7 DEF AccessCsr, b

LEMMA RunsInstruction ==
  ASSUME NEW s, Runs(s), NEW i, Steady(i)
  PROVE  LET t == Instruction(s, i) IN
         /\ Runs(t) /\ t.pcx = s.pc
         /\ i.op = "ebreak" => t.brk = TRUE
         /\ i.op # "ebreak" => t.brk = s.brk
<1>1. PICK at : at = [s EXCEPT !.pcx = s.pc]
  OBVIOUS
<1>2. Runs(at) /\ at.pcx = s.pc /\ at.pc = s.pc /\ at.brk = s.brk
  BY <1>1 DEF Runs, IsSim
<1>3. ASSUME NEW u, Runs(u)
      PROVE  LET t == Advanced(u) IN Runs(t) /\ t.pcx = u.pcx /\ t.brk = u.brk
  <2>1. Plus4[u.pc] \in Pcs
    BY <1>3, PcsFacts DEF Runs
  <2> QED BY <1>3, <2>1 DEF Runs, IsSim, Advanced
<1>4. CASE i.op = "ecall"
  <2>1. Instruction(s, i) = SimException(at, FALSE, MCAUSE_ECALL_U + at.mpriv, at.pc, {})
    <3>1. Instruction(s, i) = Ecall(at)
      BY <1>1, <1>4, InstructionFacts
    <3> QED BY <3>1 DEF Ecall
  <2>2. PICK n, tval : n = MCAUSE_ECALL_U + at.mpriv /\ tval = {}
    OBVIOUS
  <2>3. PICK u : u = SimException(at, FALSE, n, at.pc, tval)
    OBVIOUS
  <2>4. Runs(u) /\ u.pcx = s.pc /\ u.brk = s.brk
    <3>1. Runs(at)
      BY <1>2
    <3>2. LET t == SimException(at, FALSE, n, at.pc, tval) IN
          Runs(t) /\ t.pcx = at.pcx /\ t.exit = at.exit /\ t.brk = at.brk
      BY <3>1, RunsException
    <3>3. Runs(u) /\ u.pcx = at.pcx /\ u.brk = at.brk
      BY <2>3, <3>2
    <3> QED BY <1>2, <3>3
  <2> QED BY <1>2, <1>4, <2>1, <2>2, <2>3, <2>4
<1>5. CASE i.op = "ebreak"
  <2>1. PICK n, tval : n = MCAUSE_BREAKPOINT /\ tval = {}
    OBVIOUS
  <2>2. PICK u : u = SimException(at, FALSE, n, at.pc, tval)
    OBVIOUS
  <2>3. Instruction(s, i) = [u EXCEPT !.brk = TRUE]
    <3>1. Instruction(s, i) = Ebreak(at)
      BY <1>1, <1>5, InstructionFacts
    <3>2. Ebreak(at) = [SimException(at, FALSE, n, at.pc, tval) EXCEPT !.brk = TRUE]
      BY <2>1 DEF Ebreak
    <3> QED BY <2>2, <3>1, <3>2
  <2>4. Runs(u) /\ u.pcx = s.pc
    <3>1. Runs(at)
      BY <1>2
    <3>2. LET t == SimException(at, FALSE, n, at.pc, tval) IN
          Runs(t) /\ t.pcx = at.pcx /\ t.exit = at.exit /\ t.brk = at.brk
      BY <3>1, RunsException
    <3>3. Runs(u) /\ u.pcx = at.pcx
      BY <2>2, <3>2
    <3> QED BY <1>2, <3>3
  <2>5. LET t == [u EXCEPT !.brk = TRUE] IN Runs(t) /\ t.pcx = u.pcx /\ t.brk = TRUE
    <3>1. PICK t : t = [u EXCEPT !.brk = TRUE]
      OBVIOUS
    <3>2. IsSim(t) /\ t.brk = TRUE /\ t.csr = u.csr /\ t.pc = u.pc /\ t.pcx = u.pcx /\ t.exit = u.exit
      BY <2>4, <3>1 DEF Runs, IsSim
    <3> QED BY <2>4, <3>1, <3>2 DEF Runs
  <2> QED BY <1>5, <2>3, <2>4, <2>5
<1>6. CASE i.op = "mret"
  <2>1. PICK u : u = Mret(at)
    OBVIOUS
  <2>2. Instruction(s, i) = u
    BY <1>1, <1>6, <2>1, InstructionFacts
  <2>3. Runs(u) /\ u.pcx = at.pcx /\ u.brk = at.brk
    BY <1>2, <2>1, RunsReturn
  <2> QED BY <1>2, <1>6, <2>2, <2>3
<1>7. CASE i.op = "sret"
  <2>1. PICK u : u = Sret(at)
    OBVIOUS
  <2>2. Instruction(s, i) = u
    BY <1>1, <1>7, <2>1, InstructionFacts
  <2>3. Runs(u) /\ u.pcx = at.pcx /\ u.brk = at.brk
    BY <1>2, <2>1, RunsReturn
  <2> QED BY <1>2, <1>7, <2>2, <2>3
<1>8. CASE i.op \in CsrOps
  <2>1. PICK u : u = AccessCsr(at, i.op, i.csr, i.data)
    OBVIOUS
  <2>2. Instruction(s, i) = Advanced(u)
    BY <1>1, <1>8, <2>1, InstructionFacts
  <2>3. Runs(u) /\ u.pcx = s.pc /\ u.brk = s.brk
    BY <1>2, <1>8, <2>1, RunsAccess
  <2> QED BY <1>3, <1>8, <2>2, <2>3 DEF CsrOps
<1>9. CASE i.op = "pagefault"
  <2>1. Instruction(s, i) = SimException(at, FALSE, MCAUSE_PAGE_FAULT_LOAD, at.pc, i.data)
    BY <1>1, <1>9, InstructionFacts DEF LoadFault
  <2>2. PICK n, tval : n = MCAUSE_PAGE_FAULT_LOAD /\ tval = i.data
    OBVIOUS
  <2>3. PICK u : u = SimException(at, FALSE, n, at.pc, tval)
    OBVIOUS
  <2>4. Runs(u) /\ u.pcx = s.pc /\ u.brk = s.brk
    <3>1. Runs(at)
      BY <1>2
    <3>2. LET t == SimException(at, FALSE, n, at.pc, tval) IN
          Runs(t) /\ t.pcx = at.pcx /\ t.exit = at.exit /\ t.brk = at.brk
      BY <3>1, RunsException
    <3>3. Runs(u) /\ u.pcx = at.pcx /\ u.brk = at.brk
      BY <2>3, <3>2
    <3> QED BY <1>2, <3>3
  <2> QED BY <1>2, <1>9, <2>1, <2>2, <2>3, <2>4
<1>10. CASE i.op = "illegal"
  <2>1. Instruction(s, i) = Error(at)
    BY <1>1, <1>10 DEF Instruction, CsrOps
  <2> QED BY <1>2, <1>10, <2>1, RunsReturn
<1>11. CASE i.op \notin {"ecall", "ebreak", "mret", "sret", "pagefault", "illegal"} \cup CsrOps
  <2>1. Instruction(s, i) = Advanced(at)
    BY <1>1, <1>11, InstructionFacts
  <2> QED BY <1>2, <1>3, <1>11, <2>1
<1> QED BY <1>4, <1>5, <1>6, <1>7, <1>8, <1>9, <1>10, <1>11

(* The whole step: it has executed what was at pc, and a break stops it.   *)
LEMMA RunsStep ==
  ASSUME NEW s, Runs(s), NEW i, Steady(i)
  PROVE  LET t == Step(s, i, {}) IN
         /\ Runs(t) /\ t.pcx = s.pc
         /\ i.op = "ebreak" => t.brk
<1>1. PICK u : u = Instruction(s, i)
  OBVIOUS
<1>2. Runs(u) /\ u.pcx = s.pc /\ (i.op = "ebreak" => u.brk = TRUE)
  BY <1>1, RunsInstruction
<1>3. PICK e : e = Executed(s, i)
  OBVIOUS
<1>4. Runs(e) /\ e.pcx = s.pc /\ (i.op = "ebreak" => e.brk = TRUE)
  <2>1. CASE Excepts(i)
    BY <1>1, <1>2, <1>3, <2>1 DEF Executed
  <2>2. CASE ~ Excepts(i)
    <3>1. e = Interrupted(u) /\ i.op # "ebreak"
      BY <1>1, <1>3, <2>2 DEF Executed, Excepts
    <3>2. e = u \/ e = SimException(u, TRUE, Min(Enabled(u)), u.pc, {})
      BY <3>1 DEF Interrupted
    <3>3. u.pc \in Pcs
      BY <1>2 DEF Runs
    <3>4. PICK v : v = SimException(u, TRUE, Min(Enabled(u)), u.pc, {})
      OBVIOUS
    <3>5. Runs(v) /\ v.pcx = u.pcx /\ v.brk = u.brk
      BY <1>2, <3>3, <3>4, RunsTrap
    <3> QED BY <1>2, <3>1, <3>2, <3>4, <3>5
  <2> QED BY <2>1, <2>2
<1>5. PICK v : v = [e EXCEPT !.mtime = (@ + 1) % TimeWrap]
  OBVIOUS
<1>6. Runs(v) /\ v.pcx = e.pcx /\ v.brk = e.brk
  BY <1>4, <1>5 DEF Runs, IsSim
<1>7. Runs(RaiseTimer(v)) /\ RaiseTimer(v).pcx = v.pcx /\ RaiseTimer(v).brk = v.brk
  <2>1. PICK w : w = v.csr["mip"] \cup {TimerBit(v)}
    OBVIOUS
  <2>2. Steered([v.csr EXCEPT !["mip"] = w])
    BY <1>6, SteeredFacts DEF PcRegs, Runs
  <2>3. LET t == RaiseTimer(v) IN
        /\ IsSim(t) /\ t.pc = v.pc /\ t.pcx = v.pcx /\ t.exit = v.exit /\ t.brk = v.brk
        /\ t.csr = [v.csr EXCEPT !["mip"] = w]
    BY <1>6, <2>1 DEF IsSim, RaiseTimer, Runs
  <2> QED BY <1>6, <2>2, <2>3 DEF Runs
<1>8. PICK k : k = Tick(e)
  OBVIOUS
<1>9. k = v \/ k = RaiseTimer(v)
  BY <1>5, <1>8 DEF Tick
<1>10. Runs(k) /\ k.pcx = e.pcx /\ k.brk = e.brk
  BY <1>6, <1>7, <1>9
<1>11. CASE e.exit # "running"
  BY <1>3, <1>4, <1>11 DEF Step
<1>12. CASE e.exit = "running"
  <2>1. Step(s, i, {}) = [k EXCEPT !.brk = @ \/ k.pcx \in {}]
    BY <1>3, <1>8, <1>12 DEF Step
  <2>2. LET t == [k EXCEPT !.brk = @ \/ k.pcx \in {}] IN
        Runs(t) /\ t.pcx = k.pcx /\ t.brk = (k.brk \/ k.pcx \in {})
    BY <1>10 DEF Runs, IsSim
  <2> QED BY <1>4, <1>10, <2>1, <2>2
<1> QED BY <1>11, <1>12

---------------------------------------------------------------------------
(* Writing, and what is then read.                                         *)

(* n is m with the bytes of f at the addresses of A, each in the first     *)
(* region that has it.                                                     *)
Painted(m, n, A, f) ==
  /\ n = [j \in 1 .. Len(m) |-> n[j]]
  /\ \A j \in 1 .. Len(m) :
       /\ n[j] = [base |-> m[j].base, size |-> m[j].size, bytes |-> n[j].bytes]
       /\ n[j].bytes =
            [o \in 0 .. m[j].size - 1 |->
               IF m[j].base + o \in A /\ Home(m, m[j].base + o) = j
               THEN f[m[j].base + o] ELSE m[j].bytes[o]]

LEMMA FunctionIsSeq ==
  ASSUME NEW m, NEW n \in Nat, m = [j \in 1 .. n |-> m[j]]
  PROVE  IsSeq(m) /\ Len(m) = n
<1> DEFINE S == {m[j] : j \in 1 .. n}
<1>1. \A j \in 1 .. n : m[j] \in S
  OBVIOUS
<1>2. m \in [1 .. n -> S]
  <2> HIDE DEF S
  <2> QED BY <1>1
<1>3. m \in Seq(S) /\ Len(m) = n
  <2> HIDE DEF S
  <2> QED BY <1>2
<1> QED BY <1>3 DEF IsSeq

LEMMA PaintedFacts ==
  ASSUME NEW m, IsMemory(m), NEW n, NEW A, NEW f, Painted(m, n, A, f)
  PROVE  /\ Alike(m, n) /\ IsMemory(n)
         /\ \A a \in Nat :
              /\ Mapped(n, a) = Mapped(m, a)
              /\ Mapped(m, a) => Read(n, a) = IF a \in A THEN f[a] ELSE Read(m, a)
              /\ ~ Mapped(m, a) => Read(n, a) = Read(m, a)
<1>1. Len(m) \in Nat
  BY SeqFacts DEF IsMemory
<1>2. IsSeq(n) /\ Len(n) = Len(m)
  <2>1. n = [j \in 1 .. Len(m) |-> n[j]]
    BY DEF Painted
  <2> QED BY <1>1, <2>1, FunctionIsSeq
<1>3. ASSUME NEW j \in 1 .. Len(m)
      PROVE  IsRegion(n[j]) /\ n[j].base = m[j].base /\ n[j].size = m[j].size
  <2>1. IsRegion(m[j])
    BY DEF IsMemory
  <2>2. n[j] = [base |-> m[j].base, size |-> m[j].size, bytes |-> n[j].bytes]
    BY DEF Painted
  <2>3. n[j].base = m[j].base /\ n[j].size = m[j].size
    BY <2>2
  <2>4. n[j].bytes = [o \in 0 .. n[j].size - 1 |-> n[j].bytes[o]]
    <3>1. n[j].bytes = [o \in 0 .. m[j].size - 1 |->
               IF m[j].base + o \in A /\ Home(m, m[j].base + o) = j
               THEN f[m[j].base + o] ELSE m[j].bytes[o]]
      BY DEF Painted
    <3>2. PICK b : b = n[j].bytes
      OBVIOUS
    <3>3. b = [o \in 0 .. m[j].size - 1 |-> b[o]]
      BY <3>1, <3>2
    <3> QED BY <2>3, <3>2, <3>3
  <2> QED BY <2>1, <2>2, <2>3, <2>4 DEF IsRegion, Region
<1>4. Alike(m, n)
  BY <1>2, <1>3 DEF Alike
<1>5. ASSUME NEW a \in Nat, Mapped(m, a)
      PROVE  Read(n, a) = IF a \in A THEN f[a] ELSE Read(m, a)
  <2>1. PICK h : h = Home(m, a)
    OBVIOUS
  <2>2. /\ h \in 1 .. Len(m) /\ a - m[h].base \in 0 .. m[h].size - 1
        /\ Read(m, a) = m[h].bytes[a - m[h].base]
    BY <1>5, <2>1, HomeFacts
  <2>3. Read(n, a) = n[h].bytes[a - m[h].base]
    BY <1>4, <1>5, <2>1, AlikeFacts
  <2>4. m[h].base \in Nat /\ m[h].base + (a - m[h].base) = a
    <3>1. IsRegion(m[h])
      BY <2>2 DEF IsMemory
    <3> QED BY <3>1 DEF IsRegion
  <2>5. n[h].bytes =
            [o \in 0 .. m[h].size - 1 |->
               IF m[h].base + o \in A /\ Home(m, m[h].base + o) = h
               THEN f[m[h].base + o] ELSE m[h].bytes[o]]
    BY <2>2 DEF Painted
  <2>6. PICK o : o = a - m[h].base
    OBVIOUS
  <2>7. n[h].bytes[o] = IF m[h].base + o \in A /\ Home(m, m[h].base + o) = h
                        THEN f[m[h].base + o] ELSE m[h].bytes[o]
    BY <2>2, <2>5, <2>6
  <2> QED BY <2>1, <2>2, <2>3, <2>4, <2>6, <2>7
<1>6. \A a \in Nat : Mapped(n, a) = Mapped(m, a)
  BY <1>4, AlikeFacts
<1>7. ASSUME NEW a \in Nat, ~ Mapped(m, a) PROVE Read(n, a) = Read(m, a)
  BY <1>6, <1>7 DEF Read
<1> QED BY <1>4, <1>5, <1>6, <1>7, AlikeFacts

(* What a word of memory is made of: four bytes. *)
Word4(f) == [k \in 0 .. WordBytes - 1 |-> f[k]]

Placing(a, word) == [b \in a .. a + WordBytes - 1 |-> word[b - a]]

LEMMA Fours == \A n \in Nat : n % 4 = 0 => \E q \in Nat : n = 4 * q
<1> SUFFICES ASSUME NEW n \in Nat, n % 4 = 0 PROVE \E q \in Nat : n = 4 * q
  OBVIOUS
<1>1. n \div 4 \in Nat /\ n = 4 * (n \div 4)
  OBVIOUS
<1> QED BY <1>1

(* In a memory of whole words the bytes of a word are in one region. *)
LEMMA WholeHome ==
  ASSUME NEW m, IsMemory(m), Whole(m), NEW a \in Nat, a % 4 = 0, NEW k \in 0 .. 3
  PROVE  /\ Mapped(m, a + k) = Mapped(m, a)
         /\ Home(m, a + k) = Home(m, a)
<1>1. ASSUME NEW j \in 1 .. Len(m) PROVE Has(m[j], a + k) <=> Has(m[j], a)
  <2>1. /\ m[j].base \in Nat /\ m[j].size \in Nat
        /\ m[j].base % 4 = 0 /\ m[j].size % 4 = 0
    BY DEF IsMemory, IsRegion, Whole
  <2>2. \E p, q, r \in Nat : m[j].base = 4 * p /\ m[j].size = 4 * q /\ a = 4 * r
    <3>1. PICK p \in Nat : m[j].base = 4 * p
      BY <2>1, Fours
    <3>2. PICK q \in Nat : m[j].size = 4 * q
      BY <2>1, Fours
    <3>3. PICK r \in Nat : a = 4 * r
      BY Fours
    <3> QED BY <3>1, <3>2, <3>3
  <2>3. PICK b, z : b = m[j].base /\ z = m[j].size
    OBVIOUS
  <2>4. b <= a + k /\ a + k < b + z <=> b <= a /\ a < b + z
    <3>1. PICK p, q, r \in Nat : m[j].base = 4 * p /\ m[j].size = 4 * q /\ a = 4 * r
      BY <2>2
    <3> QED BY <2>3, <3>1
  <2> QED BY <2>3, <2>4 DEF Has
<1>2. a + k \in Nat
  OBVIOUS
<1>3. Hits(m, a + k) = Hits(m, a)
  <2>1. Hits(m, a) = {j \in 1 .. Len(m) : Has(m[j], a)}
    BY HitsFacts
  <2>2. Hits(m, a + k) = {j \in 1 .. Len(m) : Has(m[j], a + k)}
    BY <1>2, HitsFacts
  <2> QED BY <1>1, <2>1, <2>2
<1> QED BY <1>3 DEF Mapped, Home

(* A word of the simulator's memory is its bytes, each looked up. *)
LEMMA Read32Facts ==
  ASSUME NEW m, IsMemory(m), Whole(m), NEW a \in Nat, a % 4 = 0
  PROVE  Read32(m, a) = [k \in 0 .. WordBytes - 1 |-> Read(m, a + k)]
<1>1. WordBytes - 1 = 3
  BY DEF WordBytes
<1>2. CASE Mapped(m, a)
  <2>1. Read32(m, a) = [k \in 0 .. WordBytes - 1 |-> m[Home(m, a)].bytes[Offset(m, a) + k]]
    BY <1>2 DEF Read32
  <2>2. ASSUME NEW k \in 0 .. WordBytes - 1
        PROVE  m[Home(m, a)].bytes[Offset(m, a) + k] = Read(m, a + k)
    <3>1. Mapped(m, a + k) /\ Home(m, a + k) = Home(m, a) /\ a + k \in Nat
      BY <1>1, <1>2, WholeHome
    <3>2. Read(m, a + k) = m[Home(m, a)].bytes[(a + k) - m[Home(m, a)].base]
      BY <3>1, HomeFacts
    <3>3. m[Home(m, a)].base \in Nat /\ Offset(m, a) = a - m[Home(m, a)].base
      BY <1>2, HomeFacts DEF IsMemory, IsRegion
    <3>4. (a + k) - m[Home(m, a)].base = Offset(m, a) + k
      BY <1>1, <3>3
    <3> QED BY <3>2, <3>4
  <2> QED BY <2>1, <2>2
<1>3. CASE ~ Mapped(m, a)
  <2>1. Read32(m, a) = [place \in 0 .. WordBytes - 1 |-> Zero]
    BY <1>3 DEF Read32, WordOf
  <2>2. \A k \in 0 .. WordBytes - 1 : Read(m, a + k) = Zero
    BY <1>1, <1>3, WholeHome DEF Read
  <2> QED BY <2>1, <2>2
<1> QED BY <1>2, <1>3

(* So is one of its words written. *)
LEMMA Write32Facts ==
  ASSUME NEW m, IsMemory(m), Whole(m), NEW a \in Nat, a % 4 = 0, Mapped(m, a), NEW word
  PROVE  Painted(m, Write32(m, a, word), a .. a + WordBytes - 1, Placing(a, word))
<1> DEFINE h == Home(m, a)
           o == Offset(m, a)
           B == [p \in DOMAIN m[h].bytes |-> IF p \in o .. o + WordBytes - 1 THEN word[p - o] ELSE m[h].bytes[p]]
           A == a .. a + WordBytes - 1
           f == Placing(a, word)
<1>1. /\ h \in 1 .. Len(m) /\ o = a - m[h].base /\ Has(m[h], a)
      /\ Len(m) \in Nat /\ DOMAIN m = 1 .. Len(m) /\ WordBytes - 1 = 3
  BY HomeFacts, SeqFacts DEF IsMemory, WordBytes
<1>2. ASSUME NEW j \in 1 .. Len(m)
      PROVE  /\ m[j].base \in Nat /\ m[j].size \in Nat
             /\ m[j] = [base |-> m[j].base, size |-> m[j].size, bytes |-> m[j].bytes]
             /\ m[j].bytes = [p \in 0 .. m[j].size - 1 |-> m[j].bytes[p]]
  BY DEF IsMemory, IsRegion, Region
<1>3. PICK n : n = Write32(m, a, word)
  OBVIOUS
<1>4. n = [m EXCEPT ![h].bytes = B]
  BY <1>3 DEF Write32
<1>5. /\ n = [j \in 1 .. Len(m) |-> n[j]]
      /\ \A j \in 1 .. Len(m) : j # h => n[j] = m[j]
      /\ n[h] = [m[h] EXCEPT !.bytes = B]
  <2> HIDE DEF B, h
  <2>1. PICK S : m \in Seq(S)
    BY DEF IsMemory, IsSeq
  <2> QED BY <1>1, <1>4, <2>1
<1>6. n[h] = [base |-> m[h].base, size |-> m[h].size, bytes |-> B]
  <2> HIDE DEF B, h
  <2>1. \E J, b, z : m[h] = [base |-> b, size |-> z, bytes |-> J]
    <3>1. h \in 1 .. Len(m)
      BY <1>1
    <3>2. m[h] = [base |-> m[h].base, size |-> m[h].size, bytes |-> m[h].bytes]
      BY <1>2, <3>1
    <3> QED BY <3>2
  <2>2. PICK J, b, z : m[h] = [base |-> b, size |-> z, bytes |-> J]
    BY <2>1
  <2> QED BY <1>5, <2>2, NewBytes
<1>7. ASSUME NEW k \in 0 .. 3 PROVE Home(m, a + k) = h
  BY WholeHome
<1>8. B = [p \in 0 .. m[h].size - 1 |->
             IF m[h].base + p \in A /\ Home(m, m[h].base + p) = h
             THEN f[m[h].base + p] ELSE m[h].bytes[p]]
  <2>1. DOMAIN m[h].bytes = 0 .. m[h].size - 1
    BY <1>1, <1>2
  <2>2. ASSUME NEW p \in 0 .. m[h].size - 1
        PROVE  (IF p \in o .. o + WordBytes - 1 THEN word[p - o] ELSE m[h].bytes[p])
                 = IF m[h].base + p \in A /\ Home(m, m[h].base + p) = h
                   THEN f[m[h].base + p] ELSE m[h].bytes[p]
    <3>1. m[h].base \in Nat /\ p \in Nat
      <4>1. h \in 1 .. Len(m)
        BY <1>1
      <4> HIDE DEF h
      <4>2. m[h].base \in Nat /\ m[h].size \in Nat
        BY <1>2, <4>1
      <4> QED BY <4>2
    <3>2. PICK c : c = m[h].base + p
      OBVIOUS
    <3>3. p \in o .. o + WordBytes - 1 <=> c \in A
      BY <1>1, <3>1, <3>2, SMTT(30) DEF Has
    <3>4. ASSUME c \in A PROVE Home(m, c) = h /\ f[c] = word[p - o]
      <4>1. c - a \in 0 .. 3 /\ a + (c - a) = c
        <5>1. c \in a .. a + 3
          BY <1>1, <3>4
        <5> QED BY <5>1
      <4>2. c - a = p - o
        BY <1>1, <3>1, <3>2 DEF Has
      <4>3. Home(m, c) = h
        <5>1. PICK k \in 0 .. 3 : k = c - a
          BY <4>1
        <5>2. Home(m, a + k) = h
          BY <1>7
        <5> QED BY <4>1, <5>1, <5>2
      <4>4. f[c] = word[c - a]
        BY <3>4 DEF Placing
      <4> QED BY <4>2, <4>3, <4>4
    <3> HIDE DEF A, f, h, o
    <3> QED BY <3>2, <3>3, <3>4
  <2> HIDE DEF A, f, h, o
  <2> QED BY <2>1, <2>2
<1>9. ASSUME NEW j \in 1 .. Len(m), j # h, NEW p \in 0 .. m[j].size - 1
      PROVE  ~ (m[j].base + p \in A /\ Home(m, m[j].base + p) = j)
  <2> SUFFICES ASSUME m[j].base + p \in A PROVE Home(m, m[j].base + p) = h
    BY <1>9
  <2>1. PICK c : c = m[j].base + p
    OBVIOUS
  <2>2. PICK d : d = c - a
    OBVIOUS
  <2>3. d \in 0 .. 3 /\ a + d = c
    <3>1. c \in a .. a + 3
      BY <1>1, <2>1
    <3> QED BY <2>2, <3>1
  <2>4. Home(m, a + d) = h
    BY <1>7, <2>3
  <2> QED BY <2>1, <2>3, <2>4
<1>10. ASSUME NEW j \in 1 .. Len(m)
       PROVE  /\ n[j] = [base |-> m[j].base, size |-> m[j].size, bytes |-> n[j].bytes]
              /\ n[j].bytes =
                   [p \in 0 .. m[j].size - 1 |->
                      IF m[j].base + p \in A /\ Home(m, m[j].base + p) = j
                      THEN f[m[j].base + p] ELSE m[j].bytes[p]]
  <2> HIDE DEF A, f, h, o, B
  <2>1. CASE j = h
    <3>1. n[j].bytes = B
      BY <1>6, <2>1
    <3>2. n[j] = [base |-> m[j].base, size |-> m[j].size, bytes |-> B]
      BY <1>6, <2>1
    <3>3. B = [p \in 0 .. m[j].size - 1 |->
             IF m[j].base + p \in A /\ Home(m, m[j].base + p) = j
             THEN f[m[j].base + p] ELSE m[j].bytes[p]]
      BY <1>8, <2>1
    <3> QED BY <3>1, <3>2, <3>3
  <2>2. CASE j # h
    <3>1. n[j] = m[j]
      BY <1>5, <2>2
    <3>2. [p \in 0 .. m[j].size - 1 |->
             IF m[j].base + p \in A /\ Home(m, m[j].base + p) = j
             THEN f[m[j].base + p] ELSE m[j].bytes[p]]
           = [p \in 0 .. m[j].size - 1 |-> m[j].bytes[p]]
      BY <1>9, <2>2
    <3> QED BY <1>2, <3>1, <3>2
  <2> QED BY <2>1, <2>2
<1> QED BY <1>3, <1>5, <1>10 DEF Painted

LEMMA PaintBytes ==
  ASSUME NEW m, IsMemory(m), NEW j \in 1 .. Len(m), NEW B
  PROVE  /\ [m[j] EXCEPT !.bytes = B] = [base |-> m[j].base, size |-> m[j].size, bytes |-> B]
         /\ DOMAIN m[j].bytes = 0 .. m[j].size - 1
         /\ m[j].base \in Nat /\ m[j].size \in Nat /\ m[j].base + m[j].size < Space
<1>1. /\ m[j] = [base |-> m[j].base, size |-> m[j].size, bytes |-> m[j].bytes]
      /\ m[j].bytes = [o \in 0 .. m[j].size - 1 |-> m[j].bytes[o]]
      /\ m[j].base \in Nat /\ m[j].size \in Nat /\ m[j].base + m[j].size < Space
  BY DEF IsMemory, IsRegion, Region
<1>2. \E J, b, z : m[j] = [base |-> b, size |-> z, bytes |-> J]
  BY <1>1
<1>3. PICK J, b, z : m[j] = [base |-> b, size |-> z, bytes |-> J]
  BY <1>2
<1>4. [m[j] EXCEPT !.bytes = B] = [base |-> m[j].base, size |-> m[j].size, bytes |-> B]
  BY <1>3, NewBytes
<1>5. PICK d : d = m[j].bytes
  OBVIOUS
<1>6. DOMAIN d = 0 .. m[j].size - 1
  BY <1>1, <1>5
<1> QED BY <1>1, <1>4, <1>5, <1>6

LEMMA BenchWrite32Facts ==
  ASSUME NEW m, IsMemory(m), NEW a \in Nat, NEW word
  PROVE  Painted(m, BenchWrite32(m, a, word), a .. a + WordBytes - 1, Placing(a, word))
<1> DEFINE A == a .. a + WordBytes - 1
           f == Placing(a, word)
           B(j) == [p \in 0 .. m[j].size - 1 |->
                      IF m[j].base + p \in A /\ Home(m, m[j].base + p) = j
                      THEN f[m[j].base + p] ELSE m[j].bytes[p]]
<1>1. DOMAIN m = 1 .. Len(m)
  BY SeqFacts DEF IsMemory
<1>2. PICK n : n = BenchWrite32(m, a, word)
  OBVIOUS
<1>3. ASSUME NEW j \in 1 .. Len(m)
      PROVE  n[j] = [base |-> m[j].base, size |-> m[j].size, bytes |-> B(j)]
  <2>1. n[j] = [m[j] EXCEPT !.bytes = [p \in DOMAIN @ |-> LET b == m[j].base + p IN
           IF b \in a .. a + WordBytes - 1 /\ Home(m, b) = j THEN word[b - a] ELSE @[p]]]
    BY <1>1, <1>2 DEF BenchWrite32
  <2>2. DOMAIN m[j].bytes = 0 .. m[j].size - 1
    BY PaintBytes
  <2>3. [p \in DOMAIN m[j].bytes |-> LET b == m[j].base + p IN
           IF b \in a .. a + WordBytes - 1 /\ Home(m, b) = j THEN word[b - a] ELSE m[j].bytes[p]] = B(j)
    <3>1. \A b \in A : f[b] = word[b - a]
      BY DEF Placing
    <3> QED BY <2>2, <3>1
  <2> HIDE DEF B
  <2>4. n[j] = [m[j] EXCEPT !.bytes = B(j)]
    BY <2>1, <2>3, Zenon
  <2>6. PICK C : C = B(j)
    OBVIOUS
  <2>7. [m[j] EXCEPT !.bytes = C] = [base |-> m[j].base, size |-> m[j].size, bytes |-> C]
    BY PaintBytes
  <2> QED BY <2>4, <2>6, <2>7, Zenon
<1>4. n = [j \in 1 .. Len(m) |-> n[j]]
  BY <1>1, <1>2 DEF BenchWrite32
<1>5. ASSUME NEW j \in 1 .. Len(m)
      PROVE  /\ n[j] = [base |-> m[j].base, size |-> m[j].size, bytes |-> n[j].bytes]
             /\ n[j].bytes = B(j)
  <2> HIDE DEF B
  <2>1. n[j] = [base |-> m[j].base, size |-> m[j].size, bytes |-> B(j)]
    BY <1>3
  <2> QED BY <2>1
<1> QED BY <1>2, <1>4, <1>5, Zenon DEF Painted

LEMMA FilledPaints ==
  ASSUME NEW m, IsMemory(m), NEW bytes
  PROVE  Painted(m, Filled(m, bytes), DOMAIN bytes, bytes)
<1> DEFINE A == DOMAIN bytes
           B(j) == [p \in 0 .. m[j].size - 1 |->
                      IF m[j].base + p \in A /\ Home(m, m[j].base + p) = j
                      THEN bytes[m[j].base + p] ELSE m[j].bytes[p]]
<1>1. DOMAIN m = 1 .. Len(m)
  BY SeqFacts DEF IsMemory
<1>2. PICK n : n = Filled(m, bytes)
  OBVIOUS
<1>3. ASSUME NEW j \in 1 .. Len(m)
      PROVE  n[j] = [base |-> m[j].base, size |-> m[j].size, bytes |-> B(j)]
  <2>1. n[j] = [m[j] EXCEPT !.bytes =
                 [p \in DOMAIN @ |->
                    LET b == m[j].base + p IN
                    IF b \in DOMAIN bytes /\ ValidAddr(b) /\ Mapped(m, b) /\ Home(m, b) = j
                    THEN bytes[b] ELSE @[p]]]
    BY <1>1, <1>2 DEF Filled
  <2>2. /\ DOMAIN m[j].bytes = 0 .. m[j].size - 1
        /\ m[j].base \in Nat /\ m[j].size \in Nat /\ m[j].base + m[j].size < Space
    BY PaintBytes
  <2>3. ASSUME NEW p \in 0 .. m[j].size - 1
        PROVE  ValidAddr(m[j].base + p) /\ Mapped(m, m[j].base + p)
    <3>1. m[j].base + p \in Nat /\ Has(m[j], m[j].base + p) /\ m[j].base + p < Space - 1
      BY <2>2, RegionsAssumption, SMTT(30) DEF Has
    <3> QED BY <3>1, HitsFacts DEF ValidAddr
  <2>4. [p \in DOMAIN m[j].bytes |->
                    LET b == m[j].base + p IN
                    IF b \in DOMAIN bytes /\ ValidAddr(b) /\ Mapped(m, b) /\ Home(m, b) = j
                    THEN bytes[b] ELSE m[j].bytes[p]] = B(j)
    BY <2>2, <2>3
  <2> HIDE DEF B
  <2>5. n[j] = [m[j] EXCEPT !.bytes = B(j)]
    BY <2>1, <2>4, Zenon
  <2>6. PICK C : C = B(j)
    OBVIOUS
  <2>7. [m[j] EXCEPT !.bytes = C] = [base |-> m[j].base, size |-> m[j].size, bytes |-> C]
    BY PaintBytes
  <2> QED BY <2>5, <2>6, <2>7, Zenon
<1>4. n = [j \in 1 .. Len(m) |-> n[j]]
  BY <1>1, <1>2 DEF Filled
<1>5. ASSUME NEW j \in 1 .. Len(m)
      PROVE  /\ n[j] = [base |-> m[j].base, size |-> m[j].size, bytes |-> n[j].bytes]
             /\ n[j].bytes = B(j)
  <2> HIDE DEF B
  <2>1. n[j] = [base |-> m[j].base, size |-> m[j].size, bytes |-> B(j)]
    BY <1>3
  <2> QED BY <2>1
<1> QED BY <1>2, <1>4, <1>5, Zenon DEF Painted

---------------------------------------------------------------------------
(* A memory shows bytes img if it reads as they are, and 0 elsewhere.      *)
Content(img, a) == IF a \in DOMAIN img THEN img[a] ELSE Zero

Shows(m, img) == \A a \in Nat : Read(m, a) = Content(img, a)

WordIn(img, a) == [k \in 0 .. WordBytes - 1 |-> Content(img, a + k)]

LEMMA OverFacts ==
  ASSUME NEW f, NEW img
  PROVE  /\ DOMAIN Over(f, img) = DOMAIN f \cup DOMAIN img
         /\ \A a : Content(Over(f, img), a) = IF a \in DOMAIN f THEN f[a] ELSE Content(img, a)
         /\ \A a \in DOMAIN f : Over(f, img)[a] = f[a]
         /\ \A a \in DOMAIN img : a \notin DOMAIN f => Over(f, img)[a] = img[a]
BY DEF Over, Content

LEMMA PaintShows ==
  ASSUME NEW m, IsMemory(m), NEW n, NEW A, NEW f, Painted(m, n, A, f), A = DOMAIN f,
         \A a \in A : a \in Nat /\ Mapped(m, a), NEW img, Shows(m, img)
  PROVE  Shows(n, Over(f, img))
<1> SUFFICES ASSUME NEW a \in Nat PROVE Read(n, a) = Content(Over(f, img), a)
  BY DEF Shows
<1>1. Read(m, a) = Content(img, a)
  BY DEF Shows
<1>2. Content(Over(f, img), a) = IF a \in A THEN f[a] ELSE Content(img, a)
  BY DEF Over, Content
<1>3. Read(n, a) = IF a \in A THEN f[a] ELSE Read(m, a)
  BY PaintedFacts
<1> QED BY <1>1, <1>2, <1>3

LEMMA PlacingFacts ==
  ASSUME NEW a \in Nat, NEW word
  PROVE  DOMAIN Placing(a, word) = a .. a + WordBytes - 1
BY DEF Placing

---------------------------------------------------------------------------
(* Processors.                                                             *)

IsCpu(c) ==
  /\ c = [kind |-> c.kind, sim |-> c.sim, mem |-> c.mem, x1 |-> c.x1, events |-> c.events]
  /\ c.events = [kind \in EventKinds |-> c.events[kind]]
  /\ \A kind \in EventKinds : IsSeq(c.events[kind])

Laid(c, top, big) ==
  /\ IsMemory(c.mem)
  /\ c.kind = "sim" => Whole(c.mem) /\ Len(c.mem) <= MaxRegions
  /\ c.kind # "sim" => Below(c.mem, top, big) /\ Len(c.mem) <= BenchRegions

LEMMA LaidAlike ==
  ASSUME NEW c, NEW top, NEW big, Laid(c, top, big), NEW d, d.kind = c.kind, Alike(c.mem, d.mem)
  PROVE  Laid(d, top, big)
<1>1. IsMemory(c.mem) /\ IsMemory(d.mem)
  BY AlikeFacts DEF Laid
<1>2. /\ Len(d.mem) = Len(c.mem)
      /\ \A j \in 1 .. Len(c.mem) : d.mem[j].base = c.mem[j].base /\ d.mem[j].size = c.mem[j].size
  BY DEF Alike
<1>3. Whole(c.mem) => Whole(d.mem)
  BY <1>2 DEF Whole
<1>4. Below(c.mem, top, big) => Below(d.mem, top, big)
  BY <1>2, Zenon DEF Below
<1> QED BY <1>1, <1>2, <1>3, <1>4 DEF Laid

LEMMA Word32Facts ==
  ASSUME NEW c, NEW top, NEW big, Laid(c, top, big), NEW a \in Nat, c.kind = "sim" => a % 4 = 0,
         NEW img, Shows(c.mem, img)
  PROVE  Word32(c, a) = WordIn(img, a)
<1>1. Word32(c, a) = [k \in 0 .. WordBytes - 1 |-> Read(c.mem, a + k)]
  BY Read32Facts DEF Word32, Laid, BenchRead32
<1>2. \A k \in 0 .. WordBytes - 1 : Read(c.mem, a + k) = Content(img, a + k)
  BY DEF Shows, WordBytes
<1> QED BY <1>1, <1>2 DEF WordIn

LEMMA WithMemory ==
  ASSUME NEW c, IsCpu(c), NEW m
  PROVE  LET d == [c EXCEPT !.mem = m] IN
         /\ IsCpu(d) /\ d.kind = c.kind /\ d.sim = c.sim /\ d.x1 = c.x1 /\ d.events = c.events
         /\ d.mem = m
BY DEF IsCpu

(* A store that is made is made of a word of its memory. *)
LEMMA AccessMade ==
  ASSUME NEW c, NEW top, NEW big, Laid(c, top, big), NEW a \in Nat, ~ AccessFails(c, a)
  PROVE  /\ c.kind = "sim" => a % 4 = 0
         /\ \A b \in a .. a + WordBytes - 1 : b \in Nat /\ Mapped(c.mem, b)
<1>1. CASE c.kind = "sim"
  <2>1. Mapped(c.mem, a) /\ Offset(c.mem, a) % WordBytes = 0 /\ IsMemory(c.mem) /\ Whole(c.mem)
    BY <1>1 DEF AccessFails, WordAborts, Laid
  <2>2. PICK h : h = Home(c.mem, a)
    OBVIOUS
  <2>3. h \in 1 .. Len(c.mem) /\ Offset(c.mem, a) = a - c.mem[h].base /\ c.mem[h].base <= a
    BY <2>1, <2>2, HomeFacts DEF Has
  <2>4. c.mem[h].base \in Nat /\ c.mem[h].base % 4 = 0
    <3>1. IsRegion(c.mem[h])
      BY <2>1, <2>3 DEF IsMemory
    <3> QED BY <2>1, <2>3, <3>1 DEF IsRegion, Whole
  <2>5. PICK p \in Nat : c.mem[h].base = 4 * p
    BY <2>4, Fours
  <2>6. PICK q \in Nat : a - c.mem[h].base = 4 * q
    <3>1. a - c.mem[h].base \in Nat /\ (a - c.mem[h].base) % 4 = 0
      BY <2>1, <2>3, <2>4 DEF WordBytes
    <3> QED BY <3>1, Fours
  <2>7. a = 4 * (p + q)
    BY <2>4, <2>5, <2>6
  <2>8. a % 4 = 0
    BY <2>7
  <2>9. ASSUME NEW b \in a .. a + WordBytes - 1 PROVE b \in Nat /\ Mapped(c.mem, b)
    <3>1. b - a \in 0 .. 3 /\ a + (b - a) = b /\ b \in Nat
      BY DEF WordBytes
    <3> QED BY <2>1, <2>8, <3>1, WholeHome
  <2> QED BY <2>8, <2>9
<1>2. CASE c.kind # "sim"
  BY <1>2 DEF AccessFails, WordBytes
<1> QED BY <1>1, <1>2

LEMMA AfterStoreFacts ==
  ASSUME NEW c, IsCpu(c), NEW top, NEW big, Laid(c, top, big), NEW a \in Nat, NEW word,
         ~ AccessFails(c, a), NEW img, Shows(c.mem, img)
  PROVE  LET d == AfterStore(c, a, word) IN
         /\ IsCpu(d) /\ d.kind = c.kind /\ d.sim = c.sim /\ d.x1 = c.x1 /\ d.events = c.events
         /\ Laid(d, top, big) /\ Shows(d.mem, Over(Placing(a, word), img))
         /\ c.kind # "sim" => ~ AccessFails(d, a)
<1>1. /\ c.kind = "sim" => a % 4 = 0
      /\ \A b \in a .. a + WordBytes - 1 : b \in Nat /\ Mapped(c.mem, b)
  BY AccessMade
<1>2. PICK n : n = IF c.kind = "sim" THEN Write32(c.mem, a, word) ELSE BenchWrite32(c.mem, a, word)
  OBVIOUS
<1>3. PICK d : d = AfterStore(c, a, word)
  OBVIOUS
<1>4. d = [c EXCEPT !.mem = n]
  BY <1>2, <1>3 DEF AfterStore
<1>5. /\ IsCpu(d) /\ d.kind = c.kind /\ d.sim = c.sim /\ d.x1 = c.x1 /\ d.events = c.events
      /\ d.mem = n
  BY <1>4, WithMemory
<1>6. Painted(c.mem, n, a .. a + WordBytes - 1, Placing(a, word))
  <2>1. CASE c.kind = "sim"
    <3>1. Mapped(c.mem, a) /\ a % 4 = 0 /\ IsMemory(c.mem) /\ Whole(c.mem)
      BY <1>1, <2>1 DEF WordBytes, Laid
    <3> QED BY <1>2, <2>1, <3>1, Write32Facts
  <2>2. CASE c.kind # "sim"
    BY <1>2, <2>2, BenchWrite32Facts DEF Laid
  <2> QED BY <2>1, <2>2
<1>7. IsMemory(c.mem)
  BY DEF Laid
<1>8. Alike(c.mem, n)
  BY <1>6, <1>7, PaintedFacts
<1>9. Laid(d, top, big)
  BY <1>5, <1>8, LaidAlike
<1>10. Shows(n, Over(Placing(a, word), img))
  BY <1>1, <1>6, <1>7, PaintShows, PlacingFacts
<1>11. c.kind # "sim" => ~ AccessFails(d, a)
  <2>1. \A b \in a .. a + WordBytes - 1 : Mapped(n, b)
    BY <1>1, <1>6, <1>7, PaintedFacts
  <2> QED BY <1>5, <2>1 DEF AccessFails
<1> QED BY <1>3, <1>5, <1>9, <1>10, <1>11

---------------------------------------------------------------------------
(* A step of a processor, told by the bytes its memory shows.              *)

(* What the constants must be.  Programs put in the registers that hold    *)
(* addresses of instructions nothing else, a word of zeros is no           *)
(* instruction, and ebreak is itself.                                      *)
Sane ==
  /\ Attachments \subseteq {<<"sim">>, <<"sim", "rtl">>, <<"sim", "bench">>}
  /\ \A n \in DOMAIN Code : Code[n].address \in Nat /\ Steady(Code[n].instr)
  /\ "zero" \notin DOMAIN Code
  /\ "ebreak" \in DOMAIN Code /\ Code["ebreak"].instr.op = "ebreak"

EventsAfter(events, d, x1, loaded) ==
  CASE d.instr.op = "lw" -> [events EXCEPT !["load"] = Append(@, <<d.address>>),
                                           !["load_result"] = Append(@, <<loaded>>)]
    [] d.instr.op = "sw" -> [events EXCEPT !["store"] = Append(@, <<d.address, x1>>)]
    [] OTHER -> events

X1After(img, d, x1) == IF d.instr.op = "lw" THEN WordIn(img, d.address) ELSE x1

ImageAfter(img, d, x1) == IF d.instr.op = "sw" THEN Over(Placing(d.address, x1), img) ELSE img

LEMMA WordNames == \A n, k : WordOf(n) = WordOf(k) => n = k
<1> SUFFICES ASSUME NEW n, NEW k, WordOf(n) = WordOf(k) PROVE n = k
  OBVIOUS
<1>1. WordOf(n)[0] = <<n, 0>> /\ WordOf(k)[0] = <<k, 0>>
  BY DEF WordOf, WordBytes, Zero
<1> QED BY <1>1

LEMMA DecodedFacts ==
  ASSUME Sane, NEW word
  PROVE  LET d == Decoded(word) IN
         /\ d.address \in Nat /\ Steady(d.instr)
         /\ word = WordOf("ebreak") => d.instr.op = "ebreak"
         /\ d.instr.op # "illegal" =>
              \E n \in DOMAIN Code : d = Code[n] /\ word = WordOf(n) /\ n # "zero"
<1> DEFINE names == {n \in DOMAIN Code : word = WordOf(n)}
<1>1. CASE names = {}
  <2>1. Decoded(word) = [instr |-> Instr("illegal", "none", {}, FALSE), address |-> 0]
    BY <1>1 DEF Decoded
  <2>2. word # WordOf("ebreak")
    BY <1>1 DEF Sane
  <2> QED BY <2>1, <2>2 DEF Instr, Steady, CsrOps
<1>2. CASE names # {}
  <2>1. PICK n \in DOMAIN Code : word = WordOf(n) /\ Decoded(word) = Code[n]
    BY <1>2 DEF Decoded
  <2>2. word = WordOf("ebreak") => n = "ebreak"
    BY <2>1, WordNames
  <2> QED BY <2>1, <2>2 DEF Sane
<1> QED BY <1>1, <1>2

LEMMA PushKept ==
  ASSUME NEW c, IsCpu(c), NEW kind \in EventKinds, NEW e
  PROVE  LET d == Push(c, kind, e) IN
         IsCpu(d) /\ d.kind = c.kind /\ d.sim = c.sim /\ d.x1 = c.x1 /\ d.mem = c.mem
<1>1. PICK d : d = Push(c, kind, e)
  OBVIOUS
<1>2. CASE c.kind = "bench"
  <2>1. d = c
    BY <1>1, <1>2 DEF Push, PushesEvents
  <2> QED BY <1>1, <2>1
<1>3. CASE c.kind # "bench"
  <2>1. PICK ev : ev = [c.events EXCEPT ![kind] = Append(c.events[kind], e)]
    OBVIOUS
  <2>2. d = [c EXCEPT !.events = ev]
    BY <1>1, <1>3, <2>1 DEF Push, PushesEvents
  <2>3. d = [kind |-> c.kind, sim |-> c.sim, mem |-> c.mem, x1 |-> c.x1, events |-> ev]
    BY <2>2 DEF IsCpu
  <2>4. ev = [k \in EventKinds |-> ev[k]] /\ \A k \in EventKinds : IsSeq(ev[k])
    <3>1. IsSeq(Append(c.events[kind], e))
      BY SeqFacts DEF IsCpu
    <3>2. ev = [k \in EventKinds |-> IF k = kind THEN Append(c.events[kind], e) ELSE c.events[k]]
      BY <2>1 DEF IsCpu
    <3> QED BY <3>1, <3>2 DEF IsCpu
  <2>5. IsCpu(d)
    BY <2>3, <2>4 DEF IsCpu
  <2> QED BY <1>1, <2>3, <2>5
<1> QED BY <1>2, <1>3

LEMMA PushTold ==
  ASSUME NEW c, IsCpu(c), c.kind # "bench", NEW kind \in EventKinds, NEW e
  PROVE  Push(c, kind, e).events = [c.events EXCEPT ![kind] = Append(@, e)]
<1>1. PICK d : d = Push(c, kind, e)
  OBVIOUS
<1>2. PICK ev : ev = [c.events EXCEPT ![kind] = Append(c.events[kind], e)]
  OBVIOUS
<1>3. d = [c EXCEPT !.events = ev]
  BY <1>1, <1>2 DEF Push, PushesEvents
<1>4. d.events = ev
  BY <1>3 DEF IsCpu
<1> QED BY <1>1, <1>2, <1>4

LEMMA WithSim ==
  ASSUME NEW c, IsCpu(c), NEW v, NEW d, d = [c EXCEPT !.sim = v]
  PROVE  /\ IsCpu(d) /\ d.kind = c.kind /\ d.mem = c.mem /\ d.x1 = c.x1 /\ d.events = c.events
         /\ d.sim = v
BY DEF IsCpu

LEMMA WithX1 ==
  ASSUME NEW c, IsCpu(c), NEW v, NEW d, d = [c EXCEPT !.x1 = v]
  PROVE  /\ IsCpu(d) /\ d.kind = c.kind /\ d.mem = c.mem /\ d.sim = c.sim /\ d.events = c.events
         /\ d.x1 = v
BY DEF IsCpu

LEMMA LaidSame ==
  ASSUME NEW c, NEW d, d.kind = c.kind, d.mem = c.mem, NEW top, NEW big, Laid(c, top, big)
  PROVE  Laid(d, top, big)
BY Zenon DEF Laid

(* lw, sw and the others, when the process has not ended. *)
LEMMA AccessedFacts ==
  ASSUME NEW c, IsCpu(c), NEW top, NEW big, Laid(c, top, big), Runs(c.sim), c.sim.exit = "running",
         NEW img, Shows(c.mem, img), NEW d, d.address \in Nat
  PROVE  LET t == Accessed(c, d) IN
         /\ IsCpu(t) /\ t.kind = c.kind
         /\ t.sim = c.sim \/ t.sim = Error(c.sim)
         /\ t.sim.exit = "running" =>
              /\ t.sim = c.sim /\ Laid(t, top, big)
              /\ t.x1 = X1After(img, d, c.x1) /\ Shows(t.mem, ImageAfter(img, d, c.x1))
              /\ c.kind # "bench" =>
                   t.events = EventsAfter(c.events, d, c.x1, WordIn(img, d.address))
              /\ c.kind = "sim" /\ d.instr.op \in {"lw", "sw"} => d.address % 4 = 0
              /\ c.kind # "sim" /\ d.instr.op = "sw" => ~ AccessFails(t, d.address)
<1>1. Error(c.sim).exit = "error"
  BY RunsReturn
<1>2. PICK a : a = d.address
  OBVIOUS
<1>3. a \in Nat
  BY <1>2
<1>4. PICK t : t = Accessed(c, d)
  OBVIOUS
<1>5. CASE d.instr.op = "lw"
  <2>0. PICK told : told = <<a>>
    OBVIOUS
  <2>1. PICK u : u = Push(c, "load", told)
    OBVIOUS
  <2>2. /\ IsCpu(u) /\ u.kind = c.kind /\ u.sim = c.sim /\ u.x1 = c.x1 /\ u.mem = c.mem
        /\ c.kind # "bench" => u.events = [c.events EXCEPT !["load"] = Append(@, told)]
    BY <2>1, PushKept, PushTold DEF EventKinds
  <2>3. t = Load(c, a)
    BY <1>2, <1>4, <1>5 DEF Accessed
  <2>4. CASE AccessFails(c, a)
    <3>1. PICK e : e = Error(c.sim)
      OBVIOUS
    <3>2. t = [u EXCEPT !.sim = e]
      BY <2>0, <2>1, <2>2, <2>3, <2>4, <3>1 DEF Load
    <3>3. IsCpu(t) /\ t.kind = c.kind /\ t.sim = e
      <4>1. IsCpu(u) /\ u.kind = c.kind
        BY <2>2
      <4> QED BY <3>2, <4>1, WithSim
    <3> QED BY <1>1, <1>4, <3>1, <3>3
  <2>5. CASE ~ AccessFails(c, a)
    <3>1. c.kind = "sim" => a % 4 = 0
      BY <1>3, <2>5, AccessMade
    <3>2. PICK w : w = Word32(c, a)
      OBVIOUS
    <3>3. w = WordIn(img, a)
      BY <1>3, <3>1, <3>2, Word32Facts
    <3>4. PICK v : v = [u EXCEPT !.x1 = w]
      OBVIOUS
    <3>5. /\ IsCpu(v) /\ v.kind = c.kind /\ v.mem = c.mem /\ v.sim = c.sim /\ v.events = u.events
          /\ v.x1 = w
      <4>1. IsCpu(u)
        BY <2>2
      <4>2. /\ IsCpu(v) /\ v.kind = u.kind /\ v.mem = u.mem /\ v.sim = u.sim /\ v.events = u.events
            /\ v.x1 = w
        BY <3>4, <4>1, WithX1
      <4> QED BY <2>2, <4>2
    <3>0. PICK got : got = <<w>>
      OBVIOUS
    <3>6. t = Push(v, "load_result", got)
      BY <2>0, <3>0, <2>1, <2>3, <2>5, <3>2, <3>4 DEF Load
    <3>7. /\ IsCpu(t) /\ t.kind = c.kind /\ t.mem = c.mem /\ t.sim = c.sim /\ t.x1 = w
          /\ c.kind # "bench" => t.events = [u.events EXCEPT !["load_result"] = Append(@, got)]
      <4>1. "load_result" \in EventKinds
        BY DEF EventKinds
      <4>2. /\ IsCpu(t) /\ t.kind = v.kind /\ t.mem = v.mem /\ t.sim = v.sim /\ t.x1 = v.x1
            /\ v.kind # "bench" => t.events = [v.events EXCEPT !["load_result"] = Append(@, got)]
        <5>1. IsCpu(v)
          BY <3>5
        <5> QED BY <3>6, <4>1, <5>1, PushKept, PushTold
      <4> QED BY <2>2, <3>5, <4>2
    <3>8. c.kind # "bench" => t.events = EventsAfter(c.events, d, c.x1, w)
      <4>1. EventsAfter(c.events, d, c.x1, w) =
              [c.events EXCEPT !["load"] = Append(@, told), !["load_result"] = Append(@, got)]
        BY <1>2, <1>5, <2>0, <3>0 DEF EventsAfter
      <4>2. c.kind # "bench" =>
              t.events = [[c.events EXCEPT !["load"] = Append(@, told)]
                            EXCEPT !["load_result"] = Append(@, got)]
        BY <2>2, <3>7, Zenon
      <4> QED BY <4>1, <4>2
    <3>9. X1After(img, d, c.x1) = w /\ ImageAfter(img, d, c.x1) = img
      BY <1>2, <1>5, <3>3 DEF X1After, ImageAfter
    <3>10. Laid(t, top, big)
      BY <3>7, LaidSame
    <3> QED BY <1>2, <1>4, <1>5, <3>1, <3>3, <3>7, <3>8, <3>9, <3>10
  <2> QED BY <2>4, <2>5
<1>6. CASE d.instr.op = "sw"
  <2>1. PICK u : u = Push(c, "store", <<a, c.x1>>)
    OBVIOUS
  <2>2. /\ IsCpu(u) /\ u.kind = c.kind /\ u.sim = c.sim /\ u.x1 = c.x1 /\ u.mem = c.mem
        /\ c.kind # "bench" => u.events = [c.events EXCEPT !["store"] = Append(@, <<a, c.x1>>)]
    <3>1. PICK e : e = <<a, c.x1>>
      OBVIOUS
    <3>2. "store" \in EventKinds
      BY DEF EventKinds
    <3>3. /\ IsCpu(u) /\ u.kind = c.kind /\ u.sim = c.sim /\ u.x1 = c.x1 /\ u.mem = c.mem
          /\ c.kind # "bench" => u.events = [c.events EXCEPT !["store"] = Append(@, e)]
      <4>1. u = Push(c, "store", e)
        BY <2>1, <3>1
      <4> QED BY <3>2, <4>1, PushKept, PushTold
    <3> QED BY <3>1, <3>3
  <2>3. t = Store(c, a)
    BY <1>2, <1>4, <1>6 DEF Accessed
  <2>4. CASE AccessFails(c, a)
    <3>1. PICK e : e = Error(c.sim)
      OBVIOUS
    <3>2. t = [u EXCEPT !.sim = e]
      BY <2>1, <2>2, <2>3, <2>4, <3>1 DEF Store
    <3>3. IsCpu(t) /\ t.kind = c.kind /\ t.sim = e
      <4>1. IsCpu(u) /\ u.kind = c.kind
        BY <2>2
      <4> QED BY <3>2, <4>1, WithSim
    <3> QED BY <1>1, <1>4, <3>1, <3>3
  <2>5. CASE ~ AccessFails(c, a)
    <3>1. c.kind = "sim" => a % 4 = 0
      BY <1>3, <2>5, AccessMade
    <3>2. t = AfterStore(u, a, c.x1)
      BY <2>1, <2>3, <2>5 DEF Store
    <3>3. Laid(u, top, big) /\ ~ AccessFails(u, a) /\ Shows(u.mem, img)
      BY <2>2, <2>5, LaidSame DEF AccessFails
    <3>4. /\ IsCpu(t) /\ t.kind = c.kind /\ t.sim = c.sim /\ t.x1 = c.x1 /\ t.events = u.events
          /\ Laid(t, top, big) /\ Shows(t.mem, Over(Placing(a, c.x1), img))
          /\ c.kind # "sim" => ~ AccessFails(t, a)
      BY <1>3, <2>2, <3>2, <3>3, AfterStoreFacts
    <3>5. c.kind # "bench" => t.events = EventsAfter(c.events, d, c.x1, WordIn(img, d.address))
      BY <1>2, <1>6, <2>2, <3>4 DEF EventsAfter
    <3>6. X1After(img, d, c.x1) = c.x1 /\ ImageAfter(img, d, c.x1) = Over(Placing(a, c.x1), img)
      BY <1>2, <1>6 DEF X1After, ImageAfter
    <3> QED BY <1>2, <1>4, <1>6, <3>1, <3>4, <3>5, <3>6
  <2> QED BY <2>4, <2>5
<1>7. CASE d.instr.op \notin {"lw", "sw"}
  <2>1. t = c
    BY <1>4, <1>7 DEF Accessed
  <2>2. /\ c.events = EventsAfter(c.events, d, c.x1, WordIn(img, d.address))
        /\ X1After(img, d, c.x1) = c.x1 /\ ImageAfter(img, d, c.x1) = img
    BY <1>7 DEF X1After, ImageAfter, EventsAfter
  <2> QED BY <1>4, <1>7, <2>1, <2>2
<1> QED BY <1>5, <1>6, <1>7

LEMMA AddressFacts == \A pc \in Pcs : AddressOf(pc) \in {0, 4, 8}
BY DEF AddressOf, Pcs

(* The instruction at pc. *)
Next1(img, s) == Decoded(WordIn(img, AddressOf(s.pc)))

LEMMA OpcodeFacts ==
  ASSUME NEW c, NEW top, NEW big, Laid(c, top, big), Runs(c.sim), NEW img, Shows(c.mem, img)
  PROVE  Opcode(c) = Next1(img, c.sim)
<1>1. AddressOf(c.sim.pc) \in Nat /\ AddressOf(c.sim.pc) % 4 = 0
  BY AddressFacts DEF Runs
<1> QED BY <1>1, Word32Facts DEF Opcode, Next1

(* Whatever its memory shows, it is the same process. *)
LEMMA CpuStepKept ==
  ASSUME Sane, NEW c, IsCpu(c), Runs(c.sim)
  PROVE  LET t == CpuStep(c) IN IsCpu(t) /\ t.kind = c.kind /\ Runs(t.sim)
<1>1. PICK t : t = CpuStep(c)
  OBVIOUS
<1>2. PICK e : e = Error(c.sim)
  OBVIOUS
<1>3. Runs(e)
  BY <1>2, RunsReturn
<1>4. PICK d : d = Opcode(c)
  OBVIOUS
<1>5. Steady(d.instr)
  BY <1>4, DecodedFacts DEF Opcode
<1>6. PICK u : u = Accessed(c, d)
  OBVIOUS
<1>7. PICK a : a = d.address
  OBVIOUS
<1>8. IsCpu(u) /\ u.kind = c.kind /\ Runs(u.sim)
  <2>1. CASE d.instr.op = "lw"
    <3>1. PICK told, w, got : told = <<a>> /\ w = Word32(c, a) /\ got = <<w>>
      OBVIOUS
    <3>2. PICK v : v = Push(c, "load", told)
      OBVIOUS
    <3>3. IsCpu(v) /\ v.kind = c.kind /\ v.sim = c.sim
      BY <3>2, PushKept DEF EventKinds
    <3>4. PICK x : x = [v EXCEPT !.x1 = w]
      OBVIOUS
    <3>5. IsCpu(x) /\ x.kind = c.kind /\ x.sim = c.sim
      BY <3>3, <3>4, WithX1
    <3>6. u = IF AccessFails(c, a) THEN [v EXCEPT !.sim = e] ELSE Push(x, "load_result", got)
      <4>1. u = Load(c, a)
        BY <1>6, <1>7, <2>1 DEF Accessed
      <4>2. v.sim = c.sim
        BY <3>3
      <4> QED BY <1>2, <3>1, <3>2, <3>4, <4>1, <4>2 DEF Load
    <3>7. CASE AccessFails(c, a)
      <4>1. u = [v EXCEPT !.sim = e]
        BY <3>6, <3>7
      <4> QED BY <1>3, <3>3, <4>1, WithSim
    <3>8. CASE ~ AccessFails(c, a)
      <4>1. u = Push(x, "load_result", got)
        BY <3>6, <3>8
      <4>2. "load_result" \in EventKinds
        BY DEF EventKinds
      <4>3. IsCpu(u) /\ u.kind = x.kind /\ u.sim = x.sim
        <5>1. IsCpu(x)
          BY <3>5
        <5> QED BY <4>1, <4>2, <5>1, PushKept
      <4> QED BY <3>5, <4>3
    <3> QED BY <3>7, <3>8
  <2>2. CASE d.instr.op = "sw"
    <3>1. PICK told : told = <<a, c.x1>>
      OBVIOUS
    <3>2. PICK v : v = Push(c, "store", told)
      OBVIOUS
    <3>3. IsCpu(v) /\ v.kind = c.kind /\ v.sim = c.sim
      BY <3>2, PushKept DEF EventKinds
    <3>4. u = IF AccessFails(c, a) THEN [v EXCEPT !.sim = e] ELSE AfterStore(v, a, c.x1)
      <4>1. u = Store(c, a)
        BY <1>6, <1>7, <2>2 DEF Accessed
      <4>2. v.sim = c.sim
        BY <3>3
      <4> QED BY <1>2, <3>1, <3>2, <4>1, <4>2 DEF Store
    <3>5. CASE AccessFails(c, a)
      <4>1. u = [v EXCEPT !.sim = e]
        BY <3>4, <3>5
      <4> QED BY <1>3, <3>3, <4>1, WithSim
    <3>6. CASE ~ AccessFails(c, a)
      <4>1. \E n : u = [v EXCEPT !.mem = n]
        BY <3>4, <3>6 DEF AfterStore
      <4> QED BY <3>3, <4>1, WithMemory
    <3> QED BY <3>5, <3>6
  <2>3. CASE d.instr.op \notin {"lw", "sw"}
    BY <1>6, <2>3 DEF Accessed
  <2> QED BY <2>1, <2>2, <2>3
<1>9. \/ t = [c EXCEPT !.sim = e]
      \/ t = u
      \/ t = [u EXCEPT !.sim = Step(u.sim, d.instr, {})]
  BY <1>1, <1>2, <1>4, <1>6 DEF CpuStep
<1>10. CASE t = [c EXCEPT !.sim = e]
  BY <1>1, <1>3, <1>10, WithSim
<1>11. CASE t = u
  BY <1>1, <1>8, <1>11
<1>12. CASE t = [u EXCEPT !.sim = Step(u.sim, d.instr, {})]
  <2>1. PICK z : z = Step(u.sim, d.instr, {})
    OBVIOUS
  <2>2. Runs(z)
    BY <1>5, <1>8, <2>1, RunsStep
  <2>3. t = [u EXCEPT !.sim = z]
    BY <1>12, <2>1
  <2> QED BY <1>1, <1>8, <2>2, <2>3, WithSim
<1> QED BY <1>9, <1>10, <1>11, <1>12

LEMMA CpuStepFacts ==
  ASSUME Sane, NEW c, IsCpu(c), NEW top, NEW big, Laid(c, top, big), Runs(c.sim),
         c.sim.exit = "running", NEW img, Shows(c.mem, img), NEW d, d = Next1(img, c.sim)
  PROVE  LET t == CpuStep(c) IN
         /\ IsCpu(t) /\ t.kind = c.kind /\ Runs(t.sim) /\ t.sim.pcx \in {c.sim.pc, c.sim.pcx}
         /\ t.sim.exit = "running" =>
              /\ t.sim = Step(c.sim, d.instr, {}) /\ t.sim.pcx = c.sim.pc
              /\ d.instr.op = "ebreak" => t.sim.brk
              /\ Laid(t, top, big)
              /\ t.x1 = X1After(img, d, c.x1) /\ Shows(t.mem, ImageAfter(img, d, c.x1))
              /\ c.kind # "bench" =>
                   t.events = EventsAfter(c.events, d, c.x1, WordIn(img, d.address))
              /\ c.kind = "sim" /\ d.instr.op \in {"lw", "sw"} => d.address % 4 = 0
              /\ c.kind # "sim" /\ d.instr.op = "sw" => ~ AccessFails(t, d.address)
<1>1. PICK t : t = CpuStep(c)
  OBVIOUS
<1>2. PICK e : e = Error(c.sim)
  OBVIOUS
<1>3. Runs(e) /\ e.pcx = c.sim.pcx /\ e.exit = "error"
  BY <1>2, RunsReturn
<1>4. CASE c.kind = "sim" /\ WordAborts(c.mem, AddressOf(c.sim.pc))
  <2>1. t = [c EXCEPT !.sim = e]
    BY <1>1, <1>2, <1>4 DEF CpuStep
  <2>2. IsCpu(t) /\ t.kind = c.kind /\ t.sim = e
    BY <2>1, WithSim
  <2> QED BY <1>1, <1>3, <2>2
<1>5. CASE ~ (c.kind = "sim" /\ WordAborts(c.mem, AddressOf(c.sim.pc)))
  <2>2. Opcode(c) = d
    BY OpcodeFacts
  <2>3. d.address \in Nat /\ Steady(d.instr)
    BY DecodedFacts DEF Next1
  <2>4. PICK u : u = Accessed(c, d)
    OBVIOUS
  <2>5. t = IF u.sim.exit # "running" THEN u ELSE [u EXCEPT !.sim = Step(@, d.instr, {})]
    BY <1>1, <1>5, <2>2, <2>4 DEF CpuStep
  <2>6. /\ IsCpu(u) /\ u.kind = c.kind
        /\ u.sim = c.sim \/ u.sim = e
        /\ u.sim.exit = "running" =>
              /\ u.sim = c.sim /\ Laid(u, top, big)
              /\ u.x1 = X1After(img, d, c.x1) /\ Shows(u.mem, ImageAfter(img, d, c.x1))
              /\ c.kind # "bench" =>
                   u.events = EventsAfter(c.events, d, c.x1, WordIn(img, d.address))
              /\ c.kind = "sim" /\ d.instr.op \in {"lw", "sw"} => d.address % 4 = 0
              /\ c.kind # "sim" /\ d.instr.op = "sw" => ~ AccessFails(u, d.address)
    BY <1>2, <2>3, <2>4, AccessedFacts
  <2>7. CASE u.sim.exit # "running"
    <3>1. u.sim = e /\ t = u
      BY <2>5, <2>6, <2>7
    <3> QED BY <1>1, <1>3, <2>6, <2>7, <3>1
  <2>8. CASE u.sim.exit = "running"
    <3>1. PICK s : s = Step(c.sim, d.instr, {})
      OBVIOUS
    <3>2. Runs(s) /\ s.pcx = c.sim.pc /\ (d.instr.op = "ebreak" => s.brk)
      BY <2>3, <3>1, RunsStep
    <3>3. t = [u EXCEPT !.sim = s]
      BY <2>5, <2>6, <2>8, <3>1
    <3>4. IsCpu(t) /\ t.kind = c.kind /\ t.mem = u.mem /\ t.x1 = u.x1 /\ t.events = u.events /\ t.sim = s
      BY <2>6, <3>3, WithSim
    <3>5. Laid(t, top, big)
      BY <2>6, <2>8, <3>4, LaidSame
    <3>6. AccessFails(t, d.address) = AccessFails(u, d.address)
      BY <2>6, <3>4 DEF AccessFails
    <3> QED BY <1>1, <2>6, <2>8, <3>1, <3>2, <3>4, <3>5, <3>6
  <2> QED BY <2>7, <2>8
<1> QED BY <1>4, <1>5

(* The same of a step that ends with the simulator running, for a processor    *)
(* that pushes events.                                                         *)
LEMMA CpuStepRunning ==
  ASSUME Sane, NEW c, IsCpu(c), NEW top, NEW big, Laid(c, top, big), Runs(c.sim),
         c.sim.exit = "running", NEW img, Shows(c.mem, img), NEW d, d = Next1(img, c.sim),
         c.kind # "bench", NEW t, t = CpuStep(c)
  PROVE  t.sim.exit = "running" =>
           /\ t.sim = Step(c.sim, d.instr, {}) /\ t.sim.pcx = c.sim.pc /\ Runs(t.sim)
           /\ Laid(t, top, big)
           /\ t.x1 = X1After(img, d, c.x1) /\ Shows(t.mem, ImageAfter(img, d, c.x1))
           /\ t.events = EventsAfter(c.events, d, c.x1, WordIn(img, d.address))
  BY CpuStepFacts

---------------------------------------------------------------------------
(* The processors attached.                                                *)

KindsAt(c) == IF c = 1 THEN {"sim"} ELSE {"rtl", "bench"}

ShapeOf(cs) ==
  \E n \in {1, 2} :
    /\ cs = [c \in 1 .. n |-> cs[c]]
    /\ \A c \in 1 .. n : IsCpu(cs[c]) /\ cs[c].kind \in KindsAt(c)

LEMMA ShapeFacts ==
  ASSUME NEW cs, ShapeOf(cs)
  PROVE  /\ Len(cs) \in {1, 2} /\ DOMAIN cs = 1 .. Len(cs) /\ 1 \in DOMAIN cs
         /\ cs = [c \in DOMAIN cs |-> cs[c]]
         /\ \A c \in DOMAIN cs : IsCpu(cs[c]) /\ cs[c].kind \in KindsAt(c)
<1>1. PICK n \in {1, 2} :
        /\ cs = [c \in 1 .. n |-> cs[c]]
        /\ \A c \in 1 .. n : IsCpu(cs[c]) /\ cs[c].kind \in KindsAt(c)
  BY DEF ShapeOf
<1>2. Len(cs) = n /\ n \in Nat
  BY <1>1, FunctionIsSeq
<1>3. DOMAIN cs = 1 .. n /\ 1 \in 1 .. n
  BY <1>1
<1> QED BY <1>1, <1>2, <1>3

LEMMA ShapeKept ==
  ASSUME NEW cs, ShapeOf(cs), NEW ds, ds = [c \in DOMAIN cs |-> ds[c]],
         \A c \in DOMAIN cs : IsCpu(ds[c]) /\ ds[c].kind = cs[c].kind
  PROVE  ShapeOf(ds) /\ DOMAIN ds = DOMAIN cs /\ Len(ds) = Len(cs)
<1>1. PICK n \in {1, 2} :
        /\ cs = [c \in 1 .. n |-> cs[c]]
        /\ \A c \in 1 .. n : IsCpu(cs[c]) /\ cs[c].kind \in KindsAt(c)
  BY DEF ShapeOf
<1>2. DOMAIN cs = 1 .. n /\ n \in Nat
  BY <1>1
<1>3. ds = [c \in 1 .. n |-> ds[c]]
  BY <1>2
<1>4. ShapeOf(ds)
  BY <1>1, <1>2, <1>3 DEF ShapeOf
<1>5. Len(ds) = n /\ Len(cs) = n /\ DOMAIN ds = 1 .. n
  BY <1>1, <1>2, <1>3, FunctionIsSeq
<1> QED BY <1>2, <1>4, <1>5

(* Before the loop: every memory shows the image, and nothing was pushed.  *)
Ready1(c, img, top, big) == Laid(c, top, big) /\ Shows(c.mem, img) /\ c.events = NoEvents

Hold(cs, img, top, big) == \A c \in DOMAIN cs : Ready1(cs[c], img, top, big)

(* A memory of whole words there is room for. *)
Fitting(r, top, big) ==
  /\ r.base \in Nat /\ r.size \in Nat \ {0} /\ r.base % 4 = 0 /\ r.size % 4 = 0
  /\ r.base + r.size < Space /\ Room(r.base, r.size, top, big)

LEMMA CreatedFacts ==
  ASSUME NEW c, IsCpu(c), c.kind \in {"sim", "rtl", "bench"}, NEW top \in Nat, NEW big \in Nat,
         top + BenchRegions * big < Space, NEW img, Ready1(c, img, top, big),
         NEW r, Fitting(r, top, big)
  PROVE  LET d == Created(c, r.base, r.size) IN
         /\ CreateFails(c) => Len(c.mem) = MaxRegions /\ d.mem = c.mem
         /\ CreateAborts(c, r.base, r.size) => Len(c.mem) = BenchRegions
         /\ IsCpu(d) /\ d.kind = c.kind /\ d.sim = c.sim /\ d.x1 = c.x1
         /\ ~ CreateAborts(c, r.base, r.size) =>
              /\ Ready1(d, img, top, big)
              /\ ~ CreateFails(c) /\ InLines(r.base, r.size) => Covers(d.mem, r.base, r.size)
<1>1. /\ r.base \in Nat /\ r.size \in Nat \ {0} /\ r.base % 4 = 0 /\ r.size % 4 = 0
      /\ r.base + r.size < Space /\ Room(r.base, r.size, top, big)
  BY DEF Fitting
<1>2. Laid(c, top, big) /\ Shows(c.mem, img) /\ c.events = NoEvents /\ IsMemory(c.mem)
  BY DEF Ready1, Laid
<1>3. PICK n : n = IF c.kind = "sim" THEN Attach(c.mem, r.base, r.size)
                   ELSE BenchCreate(c.mem, r.base, r.size)
  OBVIOUS
<1>4. PICK d : d = Created(c, r.base, r.size)
  OBVIOUS
<1>5. d = [c EXCEPT !.mem = n]
  BY <1>3, <1>4 DEF Created
<1>6. /\ IsCpu(d) /\ d.kind = c.kind /\ d.sim = c.sim /\ d.x1 = c.x1 /\ d.events = c.events
      /\ d.mem = n
  BY <1>5, WithMemory
<1>7. ASSUME Extended(c.mem, n) PROVE Shows(n, img)
  BY <1>2, <1>7 DEF Extended, Shows
<1>8. CASE c.kind = "sim"
  <2>1. Whole(c.mem) /\ Len(c.mem) <= MaxRegions /\ Len(c.mem) \in Nat /\ MaxRegions \in Nat
    BY <1>2, <1>8, SeqFacts, RegionsAssumption DEF Laid, IsMemory
  <2>2. ~ CreateAborts(c, r.base, r.size)
    BY <1>8 DEF CreateAborts
  <2>3. CreateFails(c) => Len(c.mem) = MaxRegions /\ n = c.mem
    BY <1>3, <1>8, <2>1 DEF CreateFails, CanAttach, Attach
  <2>4. n = Attach(c.mem, r.base, r.size)
    BY <1>3, <1>8
  <2>5. /\ IsMemory(n) /\ Whole(n) /\ Len(n) <= MaxRegions /\ Extended(c.mem, n)
        /\ CanAttach(c.mem) => Covers(n, r.base, r.size)
    BY <1>1, <1>2, <2>1, <2>4, AttachFacts
  <2>6. Ready1(d, img, top, big)
    BY <1>2, <1>6, <1>7, <1>8, <2>5 DEF Ready1, Laid
  <2>7. ~ CreateFails(c) => CanAttach(c.mem)
    BY <1>8 DEF CreateFails
  <2> QED BY <1>4, <1>6, <2>2, <2>3, <2>5, <2>6, <2>7
<1>9. CASE c.kind # "sim"
  <2>1. Below(c.mem, top, big) /\ Len(c.mem) <= BenchRegions
    BY <1>2, <1>9 DEF Laid
  <2>2. n = BenchCreate(c.mem, r.base, r.size)
    BY <1>3, <1>9
  <2>3. ~ CreateFails(c) /\ (CreateAborts(c, r.base, r.size) <=> BenchAborts(c.mem, r.base, r.size))
    BY <1>9 DEF CreateFails, CreateAborts
  <2>4. /\ Len(c.mem) # BenchRegions => ~ BenchAborts(c.mem, r.base, r.size)
        /\ ~ BenchAborts(c.mem, r.base, r.size) =>
              /\ IsMemory(n) /\ Len(n) <= BenchRegions /\ Below(n, top, big)
              /\ Extended(c.mem, n)
              /\ InLines(r.base, r.size) => Covers(n, r.base, r.size)
    BY <1>1, <1>2, <2>1, <2>2, BenchCreateFacts
  <2>5. ~ BenchAborts(c.mem, r.base, r.size) => Ready1(d, img, top, big)
    BY <1>2, <1>6, <1>7, <1>9, <2>4 DEF Ready1, Laid
  <2> QED BY <1>4, <1>6, <2>3, <2>4, <2>5
<1> QED BY <1>8, <1>9

(* Loading bytes that memory has. *)
LEMMA FilledFacts ==
  ASSUME NEW cs, NEW c \in DOMAIN cs, IsCpu(cs[c]), NEW top, NEW big, NEW img,
         Ready1(cs[c], img, top, big),
         NEW bytes, \A a \in DOMAIN bytes : a \in Nat /\ Mapped(cs[c].mem, a)
  PROVE  LET d == WriteAll(cs, bytes)[c] IN
         /\ IsCpu(d) /\ d.kind = cs[c].kind /\ d.sim = cs[c].sim /\ d.x1 = cs[c].x1
         /\ Ready1(d, Over(bytes, img), top, big)
<1>1. PICK m : m = cs[c].mem
  OBVIOUS
<1>2. Laid(cs[c], top, big) /\ Shows(m, img) /\ cs[c].events = NoEvents /\ IsMemory(m)
  BY <1>1 DEF Ready1, Laid
<1>3. PICK n : n = Filled(m, bytes)
  OBVIOUS
<1>4. PICK d : d = WriteAll(cs, bytes)[c]
  OBVIOUS
<1>5. d = [cs[c] EXCEPT !.mem = n]
  <2>1. d = [cs[c] EXCEPT !.mem = Filled(cs[c].mem, bytes)]
    BY <1>4, Zenon DEF WriteAll
  <2> QED BY <1>1, <1>3, <2>1
<1>6. /\ IsCpu(d) /\ d.kind = cs[c].kind /\ d.sim = cs[c].sim /\ d.x1 = cs[c].x1
      /\ d.events = cs[c].events /\ d.mem = n
  BY <1>5, WithMemory
<1>7. Painted(m, n, DOMAIN bytes, bytes)
  BY <1>2, <1>3, FilledPaints
<1>8. Alike(m, n)
  BY <1>2, <1>7, PaintedFacts
<1>9. Laid(d, top, big)
  BY <1>1, <1>2, <1>6, <1>8, LaidAlike
<1>10. Shows(n, Over(bytes, img))
  BY <1>1, <1>2, <1>7, PaintShows
<1> QED BY <1>2, <1>4, <1>6, <1>9, <1>10 DEF Ready1

---------------------------------------------------------------------------
(* The invariant.                                                          *)

(* Sections of whole words that are apart, in the lines they fill, with    *)
(* room for every region of the testbench above them; nothing loads the    *)
(* word of an ebreak as data; and stop_pc is not the address current_pc    *)
(* has before the first step.                                              *)
OrdinaryRun(top, big) ==
  /\ top + BenchRegions * big < Space
  /\ options.memory.size # 0 => Fitting(options.memory, top, big)
  /\ IsSeq(file.sections)
  /\ \A k \in DOMAIN file.sections :
       LET s == file.sections[k] IN
       /\ Fitting(s, top, big) /\ InLines(s.base, s.size)
       /\ \A j \in DOMAIN file.sections : j # k => Segment(file.sections[j]) \cap Segment(s) = {}
       /\ \A n \in DOMAIN Code :
            Code[n].instr.op = "lw" /\ Code[n].address \in Segment(s) /\ s.bits = "progbits" =>
              s.words[(Code[n].address - s.base) \div WordBytes + 1] # "ebreak"
  /\ file.start \in Pcs
  /\ options.stop # Word(0) /\ options.max \in Nat \cup {NoLimit}

Ordinary == \E top, big \in Nat : OrdinaryRun(top, big)

(* The first byte of an ebreak. *)
Break0 == <<"ebreak", 0>>

SafeImage(img) ==
  /\ DOMAIN img \subseteq Nat
  /\ \A n \in DOMAIN Code :
       Code[n].instr.op = "lw" /\ Code[n].address % 4 = 0 => Content(img, Code[n].address) # Break0

(* What is at pc is in the image, and no ebreak. *)
Past(img, pc) ==
  pc \in Pcs /\ AddressOf(pc) \in DOMAIN img /\ img[AddressOf(pc)] # Break0

Loading(top, big) ==
  phase \in {"make", "load"} =>
    /\ failure = "none" /\ cycles = 0 /\ trace = <<>> /\ current = Word(0) /\ erred = FALSE
    /\ section \in Nat \ {0}
    /\ \A a \in DOMAIN image :
         \E k \in DOMAIN file.sections : k < section /\ a \in Segment(file.sections[k])
    /\ Hold(cpus, image, top, big)

(* A store of w still to be compared with one of v to the same place,      *)
(* whose word only one memory shows.                                       *)
Apart(q, r, m, img) ==
  \E a \in Nat : \E w, v :
     w # v /\ q = <<<<a, w>>>> /\ r = <<<<a, v>>>> /\ Shows(m, Over(Placing(a, v), img))

Wronged == erred /\ Apart(cpus[1].events["store"], cpus[2].events["store"], cpus[2].mem, image)

(* Two processors go the same way, as far as the second shows what it does *)
(* or has not gone wrong.                                                  *)
Paired(top, big) ==
  /\ cpus[2].sim.pcx = cpus[1].sim.pcx
  /\ ~ erred \/ cpus[2].kind = "rtl" =>
       /\ cpus[2].sim = cpus[1].sim /\ cpus[2].x1 = cpus[1].x1 /\ Laid(cpus[2], top, big)
       /\ Shows(cpus[2].mem, image) \/ Wronged
  /\ ~ erred /\ cpus[2].kind = "rtl" =>
       /\ cpus[2].events = cpus[1].events
       /\ \A kind \in EventKinds : Len(cpus[1].events[kind]) <= 1

Running(top, big) ==
  /\ failure = "none"
  /\ \A c \in DOMAIN cpus : Runs(cpus[c].sim) /\ cpus[c].sim.exit = "running"
  /\ Laid(cpus[1], top, big) /\ Shows(cpus[1].mem, image) /\ cpus[1].x1[0] # Break0
  /\ Len(cpus) = 2 => Paired(top, big)

(* current_pc is one step behind. *)
Following ==
  /\ trace = <<>> => current = Word(0) /\ cpus[1].sim.pcx = cpus[1].sim.pc
  /\ trace # <<>> =>
       /\ cpus[1].sim.pcx = trace[Len(trace)]
       /\ current = trace[IF Len(trace) = 1 THEN 1 ELSE Len(trace) - 1]
       /\ ~ cpus[1].sim.brk => Past(image, trace[Len(trace)])

Tracing ==
  /\ IsSeq(trace) /\ cycles = Len(trace)
  /\ \A k \in 1 .. Len(trace) : trace[k] = options.stop => Len(trace) <= k + 1
  /\ \A k \in 1 .. Len(trace) - 1 : Past(image, trace[k])
  /\ options.max \notin {NoLimit, 0} => Len(trace) <= options.max

Stopped == BreakOrLimit \/ \E k \in DOMAIN trace : trace[k] = options.stop

Ended ==
  phase = "ended" =>
    /\ failure \notin {"write", "address"}
    /\ failure = "abort" => \E c \in DOMAIN cpus : Len(cpus[c].mem) = BenchRegions
    /\ failure = "allocate" => Len(cpus[1].mem) = MaxRegions
    /\ failure = "none" =>
         /\ \A a \in file.dump \cap DOMAIN image : dump[a] = image[a]
         /\ Stopped

HInv(top, big) ==
  /\ phase \in {"make", "load", "loop", "ended"}
  /\ phase # "ended" => ShapeOf(cpus) /\ SafeImage(image)
  /\ Loading(top, big)
  /\ phase = "loop" => Running(top, big) /\ Following
  /\ Tracing /\ Ended

HostInv == \A top, big \in Nat : OrdinaryRun(top, big) => HInv(top, big)

LEMMA EmptyMemory ==
  ASSUME NEW top, NEW big, NEW kind \in {"sim", "rtl", "bench"}
  PROVE  IsCpu(Cpu(kind)) /\ Cpu(kind).kind = kind /\ Ready1(Cpu(kind), <<>>, top, big)
<1> DEFINE c == Cpu(kind)
           m == c.mem
<1>1. /\ c = [kind |-> kind, sim |-> Reset(Word(0)), mem |-> <<>>, x1 |-> WordOf("zero"),
              events |-> NoEvents]
      /\ NoEvents = [k \in EventKinds |-> <<>>] /\ IsSeq(<<>>) /\ Len(<<>>) = 0
  BY DEF Cpu, NoEvents, IsSeq
<1>2. c.kind = kind /\ m = <<>> /\ c.events = NoEvents
  BY <1>1
<1>3. IsCpu(c)
  BY <1>1 DEF IsCpu
<1>4. IsMemory(m) /\ Len(m) = 0 /\ MaxRegions \in Nat /\ BenchRegions \in Nat
  BY <1>1, <1>2, RegionsAssumption DEF IsMemory
<1>5. Laid(c, top, big)
  BY <1>2, <1>4 DEF Laid, Whole, Below
<1>6. Shows(m, <<>>)
  <2> SUFFICES ASSUME NEW a \in Nat PROVE Read(m, a) = Zero /\ Content(<<>>, a) = Zero
    BY DEF Shows
  <2>1. ~ Mapped(m, a)
    BY <1>4, HitsFacts
  <2> QED BY <2>1 DEF Read, Content
<1> QED BY <1>2, <1>3, <1>5, <1>6 DEF Ready1

LEMMA HostInitInv ==
  ASSUME Sane, HostInit, NEW top \in Nat, NEW big \in Nat, OrdinaryRun(top, big)
  PROVE  HInv(top, big)
<1>1. PICK attached \in Attachments : cpus = [c \in DOMAIN attached |-> Cpu(attached[c])]
  BY DEF HostInit
<1>2. \E n \in {1, 2} : /\ DOMAIN attached = 1 .. n
                        /\ \A c \in 1 .. n : attached[c] \in KindsAt(c)
  <2>1. CASE attached = <<"sim">>
    <3>1. DOMAIN attached = 1 .. 1 /\ \A c \in 1 .. 1 : attached[c] \in KindsAt(c)
      BY <2>1 DEF KindsAt
    <3> QED BY <3>1
  <2>2. CASE attached = <<"sim", "rtl">> \/ attached = <<"sim", "bench">>
    <3>1. DOMAIN attached = 1 .. 2 /\ \A c \in 1 .. 2 : attached[c] \in KindsAt(c)
      BY <2>2 DEF KindsAt
    <3> QED BY <3>1
  <2> QED BY <1>1, <2>1, <2>2 DEF Sane
<1>3. PICK n \in {1, 2} : /\ DOMAIN attached = 1 .. n
                          /\ \A c \in 1 .. n : attached[c] \in KindsAt(c)
  BY <1>2
<1>4. cpus = [c \in 1 .. n |-> cpus[c]] /\ \A c \in 1 .. n : cpus[c] = Cpu(attached[c])
  BY <1>1, <1>3
<1>5. ASSUME NEW c \in 1 .. n
      PROVE  /\ IsCpu(cpus[c]) /\ cpus[c].kind \in KindsAt(c)
             /\ Ready1(cpus[c], <<>>, top, big)
  BY <1>3, <1>4, EmptyMemory DEF KindsAt
<1>6. ShapeOf(cpus)
  BY <1>4, <1>5 DEF ShapeOf
<1>7. /\ phase = "make" /\ section = 1 /\ current = Word(0) /\ cycles = 0 /\ failure = "none"
      /\ erred = FALSE /\ image = <<>> /\ trace = <<>>
  BY DEF HostInit
<1>8. SafeImage(image)
  BY <1>7 DEF SafeImage, Content, Zero, Break0
<1>9. Loading(top, big)
  <2>1. Hold(cpus, image, top, big)
    BY <1>4, <1>5, <1>7 DEF Hold
  <2>2. DOMAIN image = {}
    BY <1>7
  <2> QED BY <1>7, <2>1, <2>2 DEF Loading
<1>10. Tracing
  <2>1. IsSeq(trace) /\ Len(trace) = 0
    BY <1>7 DEF IsSeq
  <2>2. options.max \in Nat \cup {NoLimit}
    BY DEF OrdinaryRun
  <2> QED BY <1>7, <2>1, <2>2 DEF Tracing
<1> QED BY <1>6, <1>7, <1>8, <1>9, <1>10 DEF HInv, Ended

---------------------------------------------------------------------------
(* Making memories.                                                        *)

LEMMA CreatedAllFacts ==
  ASSUME NEW cs, ShapeOf(cs), NEW top \in Nat, NEW big \in Nat,
         top + BenchRegions * big < Space, NEW img, Hold(cs, img, top, big),
         NEW r, Fitting(r, top, big), NEW ds, ds = CreatedAll(cs, r.base, r.size)
  PROVE  /\ CreationAborts(cs, r.base, r.size) =>
              \E c \in DOMAIN cs : Len(cs[c].mem) = BenchRegions
         /\ (\E c \in DOMAIN cs : CreateFails(cs[c])) => Len(ds[1].mem) = MaxRegions
         /\ DOMAIN ds = DOMAIN cs /\ \A c \in DOMAIN cs : ds[c].sim = cs[c].sim
         /\ ~ CreationAborts(cs, r.base, r.size) =>
              /\ ShapeOf(ds) /\ Hold(ds, img, top, big)
              /\ (\A c \in DOMAIN cs : ~ CreateFails(cs[c])) /\ InLines(r.base, r.size) =>
                   \A c \in DOMAIN ds : Covers(ds[c].mem, r.base, r.size)
<1>1. /\ 1 \in DOMAIN cs
      /\ \A c \in DOMAIN cs : IsCpu(cs[c]) /\ cs[c].kind \in KindsAt(c)
  BY ShapeFacts
<1>2. DOMAIN ds = DOMAIN cs /\ ds = [c \in DOMAIN cs |-> ds[c]]
      /\ \A c \in DOMAIN cs : ds[c] = Created(cs[c], r.base, r.size)
  BY DEF CreatedAll
<1>3. ASSUME NEW c \in DOMAIN cs
      PROVE  /\ CreateFails(cs[c]) => Len(cs[c].mem) = MaxRegions /\ ds[c].mem = cs[c].mem
             /\ CreateAborts(cs[c], r.base, r.size) => Len(cs[c].mem) = BenchRegions
             /\ IsCpu(ds[c]) /\ ds[c].kind = cs[c].kind /\ ds[c].sim = cs[c].sim
             /\ ~ CreateAborts(cs[c], r.base, r.size) =>
                  /\ Ready1(ds[c], img, top, big)
                  /\ ~ CreateFails(cs[c]) /\ InLines(r.base, r.size) =>
                       Covers(ds[c].mem, r.base, r.size)
  <2>1. PICK k : k = cs[c]
    OBVIOUS
  <2>2. IsCpu(k) /\ k.kind \in {"sim", "rtl", "bench"} /\ Ready1(k, img, top, big)
    BY <1>1, <2>1 DEF Hold, KindsAt
  <2>3. ds[c] = Created(k, r.base, r.size)
    BY <1>2, <2>1
  <2> QED BY <2>1, <2>2, <2>3, CreatedFacts
<1>4. \A c \in DOMAIN cs : CreateFails(cs[c]) => c = 1
  BY <1>1 DEF CreateFails, KindsAt
<1>5. ShapeOf(ds)
  BY <1>2, <1>3, ShapeKept
<1>6. (\E c \in DOMAIN cs : CreateFails(cs[c])) => Len(ds[1].mem) = MaxRegions
  BY <1>3, <1>4
<1>7. CreationAborts(cs, r.base, r.size) =>
        \E c \in DOMAIN cs : Len(cs[c].mem) = BenchRegions
  BY <1>3 DEF CreationAborts
<1>8. ASSUME ~ CreationAborts(cs, r.base, r.size)
      PROVE  /\ Hold(ds, img, top, big)
             /\ (\A c \in DOMAIN cs : ~ CreateFails(cs[c])) /\ InLines(r.base, r.size) =>
                   \A c \in DOMAIN ds : Covers(ds[c].mem, r.base, r.size)
  <2>1. \A c \in DOMAIN cs : ~ CreateAborts(cs[c], r.base, r.size)
    BY <1>8 DEF CreationAborts
  <2> QED BY <1>2, <1>3, <2>1 DEF Hold
<1> QED BY <1>2, <1>3, <1>5, <1>6, <1>7, <1>8

(* Nothing of what is traced changes. *)
LEMMA TracingKept ==
  Tracing /\ UNCHANGED <<trace, cycles, options, image>> => Tracing'
BY DEF Tracing, Past

LEMMA MakeMemoryInv ==
  ASSUME NEW top \in Nat, NEW big \in Nat, OrdinaryRun(top, big), HInv(top, big), MakeMemory
  PROVE  HInv(top, big)'
<1>1. /\ phase = "make"
      /\ UNCHANGED <<file, options, section, current, cycles, dump, erred, image, trace>>
  BY DEF MakeMemory
<1>2. /\ ShapeOf(cpus) /\ SafeImage(image) /\ Loading(top, big) /\ Tracing /\ failure = "none"
      /\ Hold(cpus, image, top, big)
  BY <1>1 DEF HInv, Loading
<1>3. Tracing'
  BY <1>1, <1>2, TracingKept
<1>4. ASSUME phase' = "load", failure' = failure, ShapeOf(cpus'), Hold(cpus', image, top, big)
      PROVE  HInv(top, big)'
  <2>1. Loading(top, big)'
    BY <1>1, <1>2, <1>4 DEF Loading, Hold
  <2>2. ShapeOf(cpus)' /\ SafeImage(image)'
    BY <1>1, <1>2, <1>4 DEF ShapeOf, SafeImage
  <2> QED BY <1>3, <1>4, <2>1, <2>2 DEF HInv, Ended
<1>5. CASE options.memory.size = 0
  BY <1>1, <1>2, <1>4, <1>5 DEF MakeMemory
<1>6. CASE options.memory.size # 0
  <2>1. PICK r : r = options.memory
    OBVIOUS
  <2>2. Fitting(r, top, big) /\ top + BenchRegions * big < Space /\ r.size > 0
    BY <1>6, <2>1 DEF OrdinaryRun, Fitting
  <2>3. PICK ds : ds = CreatedAll(cpus, r.base, r.size)
    OBVIOUS
  <2>4. /\ CreationAborts(cpus, r.base, r.size) =>
             \E c \in DOMAIN cpus : Len(cpus[c].mem) = BenchRegions
        /\ ~ CreationAborts(cpus, r.base, r.size) => ShapeOf(ds) /\ Hold(ds, image, top, big)
    BY <1>2, <2>2, <2>3, CreatedAllFacts
  <2>5. CASE CreationAborts(cpus, r.base, r.size)
    <3>1. phase' = "ended" /\ failure' = "abort" /\ cpus' = cpus
      BY <1>6, <2>1, <2>2, <2>5 DEF MakeMemory, Ends
    <3> QED BY <1>3, <2>4, <2>5, <3>1 DEF HInv, Loading, Ended
  <2>6. CASE ~ CreationAborts(cpus, r.base, r.size)
    <3>1. phase' = "load" /\ failure' = failure /\ cpus' = ds
      BY <1>6, <2>1, <2>2, <2>3, <2>6 DEF MakeMemory
    <3> QED BY <1>4, <2>4, <2>6, <3>1
  <2> QED BY <2>5, <2>6
<1> QED BY <1>5, <1>6

(* The bytes of a section are those of its words, none an ebreak where     *)
(* data is loaded from.                                                    *)
LEMMA SectionFacts ==
  ASSUME NEW top \in Nat, NEW big \in Nat, OrdinaryRun(top, big),
         NEW k \in DOMAIN file.sections, NEW s, s = file.sections[k], NEW img, SafeImage(img)
  PROVE  /\ DOMAIN SectionBytes(s) = Segment(s) /\ Segment(s) \subseteq Nat
         /\ SafeImage(Over(SectionBytes(s), img))
<1>1. /\ s.base \in Nat /\ s.size \in Nat /\ s.base % 4 = 0
      /\ \A n \in DOMAIN Code :
            Code[n].instr.op = "lw" /\ Code[n].address \in Segment(s) /\ s.bits = "progbits" =>
              s.words[(Code[n].address - s.base) \div WordBytes + 1] # "ebreak"
  BY DEF OrdinaryRun, Fitting
<1>2. PICK f : f = SectionBytes(s)
  BY Zenon
<1>3. DOMAIN f = Segment(s) /\ Segment(s) \subseteq Nat
  BY <1>1, <1>2 DEF SectionBytes, Segment
<1>4. ASSUME NEW n \in DOMAIN Code, Code[n].instr.op = "lw", Code[n].address % 4 = 0
      PROVE  Content(Over(f, img), Code[n].address) # Break0
  <2>1. PICK a : a = Code[n].address
    OBVIOUS
  <2>2. Content(img, a) # Break0
    BY <1>4, <2>1 DEF SafeImage
  <2>3. Content(Over(f, img), a) = IF a \in DOMAIN f THEN f[a] ELSE Content(img, a)
    BY Zenon DEF Over, Content
  <2>4. ASSUME a \in Segment(s) PROVE f[a] # Break0
    <3>1. f[a] = IF s.bits = "progbits"
                 THEN WordOf(s.words[(a - s.base) \div WordBytes + 1])[(a - s.base) % WordBytes]
                 ELSE Zero
      BY <1>2, <2>4 DEF SectionBytes
    <3>2. a - s.base \in Nat /\ (a - s.base) % WordBytes = 0
      <4>1. a \in Nat /\ s.base <= a
        BY <1>1, <1>3, <2>4 DEF Segment
      <4> QED BY <1>1, <1>4, <2>1, <4>1 DEF WordBytes
    <3>3. PICK w : w = s.words[(a - s.base) \div WordBytes + 1]
      OBVIOUS
    <3>4. s.bits = "progbits" => w # "ebreak"
      BY <1>1, <1>4, <2>1, <2>4, <3>3
    <3>5. WordOf(w)[0] = IF w = "zero" THEN Zero ELSE <<w, 0>>
      BY DEF WordOf, WordBytes
    <3>6. Zero # Break0 /\ (w # "ebreak" => <<w, 0>> # Break0)
      BY DEF Zero, Break0
    <3> QED BY <3>1, <3>2, <3>3, <3>4, <3>5, <3>6, Zenon
  <2> QED BY <1>3, <2>1, <2>2, <2>3, <2>4
<1>5. DOMAIN Over(f, img) \subseteq Nat
  BY <1>3 DEF Over, SafeImage
<1> QED BY <1>2, <1>3, <1>4, <1>5 DEF SafeImage

(* Zeros where nothing was show nothing new. *)
LEMMA ZerosShow ==
  ASSUME NEW m, NEW img, Shows(m, img), NEW f, \A a \in DOMAIN f : f[a] = Zero /\ a \notin DOMAIN img
  PROVE  Shows(m, Over(f, img))
<1> SUFFICES ASSUME NEW a \in Nat PROVE Read(m, a) = Content(Over(f, img), a)
  BY DEF Shows
<1>1. Read(m, a) = Content(img, a)
  BY DEF Shows
<1>2. Content(Over(f, img), a) = IF a \in DOMAIN f THEN f[a] ELSE Content(img, a)
  BY DEF Over, Content
<1> QED BY <1>1, <1>2 DEF Content

(* What a section's bytes leave. *)
LEMMA SectionLoaded ==
  ASSUME NEW cs, ShapeOf(cs), NEW top, NEW big, NEW img, Hold(cs, img, top, big), NEW s,
         NEW bytes, bytes = SectionBytes(s), DOMAIN bytes \subseteq Nat,
         \A c \in DOMAIN cs : \A a \in DOMAIN bytes : Mapped(cs[c].mem, a),
         DOMAIN bytes \cap DOMAIN img = {},
         NEW ds, ds = IF s.bits = "progbits" THEN WriteAll(cs, bytes) ELSE cs
  PROVE  ShapeOf(ds) /\ Hold(ds, Over(bytes, img), top, big)
<1>1. CASE s.bits = "progbits"
  <2>1. ds = WriteAll(cs, bytes)
    BY <1>1
  <2>2. ds = [c \in DOMAIN cs |-> ds[c]] /\ DOMAIN ds = DOMAIN cs
    BY <2>1 DEF WriteAll
  <2>3. \A c \in DOMAIN cs : IsCpu(cs[c])
    BY ShapeFacts
  <2>4. ASSUME NEW c \in DOMAIN cs
        PROVE  IsCpu(ds[c]) /\ ds[c].kind = cs[c].kind /\ Ready1(ds[c], Over(bytes, img), top, big)
    <3>1. Ready1(cs[c], img, top, big) /\ \A a \in DOMAIN bytes : a \in Nat /\ Mapped(cs[c].mem, a)
      BY DEF Hold
    <3> QED BY <2>1, <2>3, <3>1, FilledFacts
  <2>5. ShapeOf(ds)
    BY <2>2, <2>4, ShapeKept
  <2> QED BY <2>2, <2>4, <2>5 DEF Hold
<1>2. CASE s.bits # "progbits"
  <2>1. \A a \in DOMAIN bytes : bytes[a] = Zero /\ a \notin DOMAIN img
    BY <1>2 DEF SectionBytes
  <2>2. ds = cs
    BY <1>2
  <2>3. ASSUME NEW c \in DOMAIN cs PROVE Ready1(cs[c], Over(bytes, img), top, big)
    <3>1. PICK m : m = cs[c].mem
      OBVIOUS
    <3>2. Shows(m, img) /\ Laid(cs[c], top, big) /\ cs[c].events = NoEvents
      BY <3>1 DEF Hold, Ready1
    <3>3. Shows(m, Over(bytes, img))
      BY <2>1, <3>2, ZerosShow
    <3> QED BY <3>1, <3>2, <3>3 DEF Ready1
  <2> QED BY <2>2, <2>3 DEF Hold
<1> QED BY <1>1, <1>2

LEMMA LoadSectionInv ==
  ASSUME NEW top \in Nat, NEW big \in Nat, OrdinaryRun(top, big), HInv(top, big), LoadSection
  PROVE  HInv(top, big)'
<1>1. /\ phase = "load" /\ section <= Len(file.sections) /\ section' = section + 1
      /\ UNCHANGED <<file, options, current, cycles, dump, erred, trace>>
  BY DEF LoadSection
<1>2. /\ ShapeOf(cpus) /\ SafeImage(image) /\ Tracing
      /\ failure = "none" /\ cycles = 0 /\ trace = <<>> /\ current = Word(0) /\ erred = FALSE
      /\ section \in Nat \ {0}
      /\ \A a \in DOMAIN image :
           \E k \in DOMAIN file.sections : k < section /\ a \in Segment(file.sections[k])
      /\ Hold(cpus, image, top, big)
  BY <1>1 DEF HInv, Loading
<1>3. Tracing'
  BY <1>1, <1>2 DEF Tracing
<1>4. section \in DOMAIN file.sections
  <2>1. IsSeq(file.sections)
    BY DEF OrdinaryRun
  <2>2. Len(file.sections) \in Nat /\ DOMAIN file.sections = 1 .. Len(file.sections)
    BY <2>1, SeqFacts
  <2> QED BY <1>1, <1>2, <2>2
<1>5. PICK s : s = file.sections[section]
  OBVIOUS
<1>6. /\ Fitting(s, top, big) /\ InLines(s.base, s.size) /\ top + BenchRegions * big < Space
      /\ \A j \in DOMAIN file.sections : j # section => Segment(file.sections[j]) \cap Segment(s) = {}
  BY <1>4, <1>5 DEF OrdinaryRun
<1>7. PICK made : made = CreatedAll(cpus, s.base, s.size)
  OBVIOUS
<1>8. /\ CreationAborts(cpus, s.base, s.size) =>
            \E c \in DOMAIN cpus : Len(cpus[c].mem) = BenchRegions
      /\ (\E c \in DOMAIN cpus : CreateFails(cpus[c])) => Len(made[1].mem) = MaxRegions
      /\ DOMAIN made = DOMAIN cpus
      /\ ~ CreationAborts(cpus, s.base, s.size) =>
           /\ ShapeOf(made) /\ Hold(made, image, top, big)
           /\ (\A c \in DOMAIN cpus : ~ CreateFails(cpus[c])) /\ InLines(s.base, s.size) =>
                \A c \in DOMAIN made : Covers(made[c].mem, s.base, s.size)
  <2>1. ShapeOf(cpus) /\ Hold(cpus, image, top, big) /\ Fitting(s, top, big)
        /\ top + BenchRegions * big < Space
    BY <1>2, <1>6
  <2>2. CreationAborts(cpus, s.base, s.size) => \E c \in DOMAIN cpus : Len(cpus[c].mem) = BenchRegions
    BY <1>7, <2>1, CreatedAllFacts
  <2>3. (\E c \in DOMAIN cpus : CreateFails(cpus[c])) => Len(made[1].mem) = MaxRegions
    BY <1>7, <2>1, CreatedAllFacts
  <2>4. DOMAIN made = DOMAIN cpus
    BY <1>7 DEF CreatedAll
  <2>5. ~ CreationAborts(cpus, s.base, s.size) => ShapeOf(made) /\ Hold(made, image, top, big)
    BY <1>7, <2>1, CreatedAllFacts
  <2>6. ~ CreationAborts(cpus, s.base, s.size) =>
           ((\A c \in DOMAIN cpus : ~ CreateFails(cpus[c])) /\ InLines(s.base, s.size) =>
                \A c \in DOMAIN made : Covers(made[c].mem, s.base, s.size))
    BY <1>7, <2>1, CreatedAllFacts
  <2> QED BY <2>2, <2>3, <2>4, <2>5, <2>6
<1>9. /\ DOMAIN SectionBytes(s) = Segment(s) /\ Segment(s) \subseteq Nat
      /\ SafeImage(Over(SectionBytes(s), image))
  BY <1>2, <1>4, <1>5, SectionFacts
<1>10. CASE CreationAborts(cpus, s.base, s.size)
  <2>1. phase' = "ended" /\ failure' = "abort" /\ cpus' = cpus
    BY <1>5, <1>10 DEF LoadSection, Ends
  <2> QED BY <1>3, <1>8, <1>10, <2>1 DEF HInv, Loading, Ended
<1>11. CASE ~ CreationAborts(cpus, s.base, s.size) /\ \E c \in DOMAIN cpus : CreateFails(cpus[c])
  <2>1. phase' = "ended" /\ failure' = "allocate" /\ cpus' = made
    BY <1>5, <1>7, <1>11 DEF LoadSection, Ends
  <2> QED BY <1>3, <1>8, <1>11, <2>1 DEF HInv, Loading, Ended
<1>12. CASE ~ CreationAborts(cpus, s.base, s.size) /\ ~ \E c \in DOMAIN cpus : CreateFails(cpus[c])
  <2>1. \A c \in DOMAIN made : Covers(made[c].mem, s.base, s.size)
    BY <1>6, <1>8, <1>12
  <2>2. ASSUME NEW a \in Segment(s)
        PROVE  a \in Nat /\ ValidAddr(a) /\ \A c \in DOMAIN made : Mapped(made[c].mem, a)
    <3>1. s.base \in Nat /\ s.size \in Nat /\ s.base + s.size < Space /\ Space \in Nat
      BY <1>6, RegionsAssumption DEF Fitting
    <3>2. a \in Nat /\ s.base <= a /\ a < s.base + s.size
      BY <3>1 DEF Segment
    <3>3. ValidAddr(a)
      BY <3>1, <3>2 DEF ValidAddr
    <3> QED BY <2>1, <3>2, <3>3 DEF Covers
  <2>3. {a \in Segment(s) : s.bits = "progbits" /\ (WriteFails(made, a) \/ ~ValidAddr(a))} = {}
    BY <2>2 DEF WriteFails
  <2>4. PICK bytes : bytes = SectionBytes(s)
    OBVIOUS
  <2>5. /\ cpus' = IF s.bits = "progbits" THEN WriteAll(made, bytes) ELSE made
        /\ image' = Over(bytes, image) /\ phase' = phase /\ failure' = failure
    BY <1>5, <1>7, <1>12, <2>3, <2>4 DEF LoadSection
  <2>6. DOMAIN bytes \cap DOMAIN image = {}
    <3>1. ASSUME NEW a \in DOMAIN image, a \in Segment(s) PROVE FALSE
      <4>1. PICK k \in DOMAIN file.sections : k < section /\ a \in Segment(file.sections[k])
        BY <1>2
      <4>2. k # section
        BY <1>2, <4>1
      <4> QED BY <1>6, <3>1, <4>1, <4>2
    <3> QED BY <1>9, <2>4, <3>1
  <2>7. ShapeOf(cpus') /\ Hold(cpus', Over(bytes, image), top, big)
    <3>1. ShapeOf(made) /\ Hold(made, image, top, big)
      BY <1>8, <1>12
    <3>2. \A c \in DOMAIN made : \A a \in DOMAIN bytes : Mapped(made[c].mem, a)
      BY <1>9, <2>2, <2>4
    <3>3. DOMAIN bytes \subseteq Nat
      BY <1>9, <2>4
    <3> QED BY <2>4, <2>5, <2>6, <3>1, <3>2, <3>3, SectionLoaded
  <2>8. \A a \in DOMAIN image' :
           \E k \in DOMAIN file.sections : k < section' /\ a \in Segment(file.sections[k])
    <3> SUFFICES ASSUME NEW a \in DOMAIN image'
                 PROVE  \E k \in DOMAIN file.sections : k < section + 1 /\ a \in Segment(file.sections[k])
      BY <1>1
    <3>1. a \in Segment(s) \/ a \in DOMAIN image
      BY <1>9, <2>4, <2>5 DEF Over
    <3>2. CASE a \in Segment(s)
      BY <1>2, <1>4, <1>5, <3>2
    <3>3. CASE a \in DOMAIN image
      <4>1. PICK k \in DOMAIN file.sections : k < section /\ a \in Segment(file.sections[k])
        BY <1>2, <3>3
      <4>2. k \in Nat
        <5>1. IsSeq(file.sections)
          BY DEF OrdinaryRun
        <5>2. Len(file.sections) \in Nat /\ DOMAIN file.sections = 1 .. Len(file.sections)
          BY <5>1, SeqFacts
        <5> QED BY <5>2
      <4>3. k < section + 1
        BY <1>2, <4>1, <4>2
      <4> QED BY <4>1, <4>3
    <3> QED BY <3>1, <3>2, <3>3
  <2>9. Loading(top, big)'
    <3>1. Hold(cpus, image, top, big)'
      BY <2>5, <2>7 DEF Hold
    <3>2. section' \in Nat \ {0}
      BY <1>1, <1>2
    <3> QED BY <1>1, <1>2, <2>5, <2>8, <3>1, <3>2 DEF Loading, Segment
  <2>10. SafeImage(image)'
    BY <1>9, <2>4, <2>5 DEF SafeImage
  <2>11. ShapeOf(cpus)'
    BY <2>7 DEF ShapeOf
  <2> QED BY <1>1, <1>3, <2>5, <2>9, <2>10, <2>11 DEF HInv, Ended
<1> QED BY <1>10, <1>11, <1>12

---------------------------------------------------------------------------
(* The start of the loop.                                                  *)

LEMMA RunsReset ==
  ASSUME NEW pc \in Pcs
  PROVE  /\ Runs(Reset(pc)) /\ Reset(pc).exit = "running"
         /\ Reset(pc).pc = pc /\ Reset(pc).pcx = pc
<1>1. {} \in Pcs
  <2>1. Word(0) = {}
    BY SmallWords
  <2> QED BY <2>1 DEF Pcs
<1>2. Steered(CsrReset)
  BY <1>1 DEF Steered, CsrReset, PcRegs, Csr
<1>3. PICK k : k = CsrReset
  OBVIOUS
<1>4. Reset(pc) = [pc |-> pc, pcx |-> pc, mpriv |-> PRIV_MACHINE, csr |-> k,
                   mtime |-> 0, mtimecmp |-> {}, brk |-> FALSE, exit |-> "running"]
  BY <1>3 DEF Reset
<1> QED BY <1>2, <1>3, <1>4 DEF Runs, IsSim

LEMMA StartInv ==
  ASSUME NEW top \in Nat, NEW big \in Nat, OrdinaryRun(top, big), HInv(top, big), Start
  PROVE  HInv(top, big)'
<1>1. /\ phase = "load" /\ cpus' = ResetAll(cpus, file.start) /\ phase' = "loop"
      /\ UNCHANGED <<file, options, section, current, cycles, failure, dump, erred, image, trace>>
  BY DEF Start
<1>2. /\ ShapeOf(cpus) /\ SafeImage(image) /\ Tracing
      /\ failure = "none" /\ trace = <<>> /\ current = Word(0) /\ erred = FALSE
      /\ Hold(cpus, image, top, big)
  BY <1>1 DEF HInv, Loading
<1>3. Tracing'
  BY <1>1, <1>2, TracingKept
<1>4. PICK s : s = Reset(file.start)
  OBVIOUS
<1>5. PICK z : z = WordOf("zero")
  OBVIOUS
<1>6. Runs(s) /\ s.exit = "running" /\ s.pcx = s.pc
  BY <1>4, RunsReset DEF OrdinaryRun
<1>7. PICK ds : ds = cpus'
  OBVIOUS
<1>8. /\ 1 \in DOMAIN cpus /\ DOMAIN cpus = 1 .. Len(cpus)
      /\ \A c \in DOMAIN cpus : IsCpu(cpus[c]) /\ cpus[c].kind \in KindsAt(c)
  BY <1>2, ShapeFacts
<1>9. DOMAIN ds = DOMAIN cpus /\ ds = [c \in DOMAIN cpus |-> ds[c]]
      /\ \A c \in DOMAIN cpus : ds[c] = [cpus[c] EXCEPT !.sim = s, !.x1 = z]
  BY <1>1, <1>4, <1>5, <1>7 DEF ResetAll
<1>10. ASSUME NEW c \in DOMAIN cpus
       PROVE  /\ IsCpu(ds[c]) /\ ds[c].kind = cpus[c].kind /\ ds[c].sim = s /\ ds[c].x1 = z
              /\ ds[c].events = NoEvents /\ Laid(ds[c], top, big) /\ Shows(ds[c].mem, image)
  <2>1. PICK k : k = cpus[c]
    OBVIOUS
  <2>2. IsCpu(k) /\ k.events = NoEvents /\ Laid(k, top, big) /\ Shows(k.mem, image)
    BY <1>2, <1>8, <2>1 DEF Hold, Ready1
  <2>3. PICK d : d = ds[c]
    OBVIOUS
  <2>4. d = [k EXCEPT !.sim = s, !.x1 = z]
    BY <1>9, <2>1, <2>3
  <2>5. /\ d = [kind |-> k.kind, sim |-> s, mem |-> k.mem, x1 |-> z, events |-> k.events]
    BY <2>2, <2>4 DEF IsCpu
  <2>6. d.kind = k.kind /\ d.sim = s /\ d.mem = k.mem /\ d.x1 = z /\ d.events = k.events
    BY <2>5
  <2>7. IsCpu(d)
    BY <2>2, <2>5, <2>6 DEF IsCpu
  <2>8. Laid(d, top, big)
    BY <2>2, <2>6, LaidSame
  <2> QED BY <2>1, <2>2, <2>3, <2>6, <2>7, <2>8
<1>11. ShapeOf(ds) /\ Len(ds) = Len(cpus)
  BY <1>2, <1>9, <1>10, ShapeKept
<1>12. z[0] # Break0
  BY <1>5 DEF WordOf, WordBytes, Zero, Break0
<1>13. Len(ds) = 2 =>
         /\ ds[2].sim = ds[1].sim /\ ds[2].x1 = ds[1].x1 /\ Laid(ds[2], top, big)
         /\ ds[2].events = ds[1].events
         /\ \A kind \in EventKinds : Len(ds[1].events[kind]) <= 1
         /\ Shows(ds[2].mem, image)
  <2> SUFFICES ASSUME Len(ds) = 2
      PROVE  /\ ds[2].sim = ds[1].sim /\ ds[2].x1 = ds[1].x1 /\ Laid(ds[2], top, big)
             /\ ds[2].events = ds[1].events
             /\ \A kind \in EventKinds : Len(ds[1].events[kind]) <= 1
             /\ Shows(ds[2].mem, image)
    OBVIOUS
  <2>1. 1 \in DOMAIN cpus /\ 2 \in DOMAIN cpus
    <3>1. Len(cpus) = 2 /\ DOMAIN cpus = 1 .. Len(cpus)
      BY <1>8, <1>11
    <3> QED BY <3>1
  <2>2. \A kind \in EventKinds : NoEvents[kind] = <<>> /\ Len(<<>>) <= 1
    BY DEF NoEvents
  <2> QED BY <1>10, <2>1, <2>2
<1>14. Running(top, big)'
  <2>1. \A c \in DOMAIN ds : Runs(ds[c].sim) /\ ds[c].sim.exit = "running"
    BY <1>6, <1>9, <1>10
  <2>2. Laid(ds[1], top, big) /\ Shows(ds[1].mem, image) /\ ds[1].x1[0] # Break0
    BY <1>8, <1>10, <1>12
  <2> QED BY <1>1, <1>2, <1>7, <1>13, <2>1, <2>2 DEF Running, Paired
<1>15. Following'
  BY <1>1, <1>2, <1>6, <1>7, <1>8, <1>10 DEF Following
<1>16. ShapeOf(cpus)' /\ SafeImage(image)'
  BY <1>1, <1>2, <1>7, <1>11 DEF ShapeOf, SafeImage
<1> QED BY <1>1, <1>3, <1>14, <1>15, <1>16 DEF HInv, Loading, Ended

---------------------------------------------------------------------------
(* A step of the loop.                                                     *)

(* An instruction that is none ends the process.                           *)
LEMMA IllegalEnds ==
  ASSUME NEW s, Runs(s), NEW i, i.op = "illegal"
  PROVE  Step(s, i, {}).exit = "error"
<1>1. PICK k : k = [s EXCEPT !.pcx = s.pc]
  OBVIOUS
<1>2. k = [pc |-> k.pc, pcx |-> k.pcx, mpriv |-> k.mpriv, csr |-> k.csr, mtime |-> k.mtime,
           mtimecmp |-> k.mtimecmp, brk |-> k.brk, exit |-> k.exit]
  BY <1>1 DEF Runs, IsSim
<1>3. Instruction(s, i) = Error(k)
  BY <1>1 DEF Instruction, CsrOps
<1>4. Error(k).exit = "error"
  BY <1>2 DEF Error
<1>5. Executed(s, i).exit = "error"
  BY <1>3, <1>4 DEF Executed, Excepts
<1> QED BY <1>5 DEF Step

(* What a step does to the bytes that are watched.                         *)
LEMMA LiveStep ==
  ASSUME Sane, NEW c, IsCpu(c), c.kind = "sim", NEW top, NEW big, Laid(c, top, big),
         Runs(c.sim), c.sim.exit = "running", NEW img, Shows(c.mem, img), SafeImage(img),
         c.x1[0] # Break0, NEW t, t = CpuStep(c), t.sim.exit = "running",
         NEW d, d = Next1(img, c.sim), NEW after, after = ImageAfter(img, d, c.x1)
  PROVE  /\ SafeImage(after) /\ t.x1[0] # Break0
         /\ \A pc : Past(img, pc) => Past(after, pc)
         /\ ~ t.sim.brk => Past(after, c.sim.pc)
<1>1. /\ t.sim = Step(c.sim, d.instr, {}) /\ (d.instr.op = "ebreak" => t.sim.brk)
      /\ t.x1 = X1After(img, d, c.x1)
      /\ d.instr.op \in {"lw", "sw"} => d.address % 4 = 0
  BY CpuStepFacts
<1>2. d.instr.op # "illegal"
  <2>1. d.instr.op = "illegal" => t.sim.exit = "error"
    BY <1>1, IllegalEnds
  <2> QED BY <2>1
<1>3. PICK b : b = AddressOf(c.sim.pc)
  OBVIOUS
<1>4. b \in {0, 4, 8} /\ c.sim.pc \in Pcs
  BY <1>3, AddressFacts DEF Runs
<1>5. PICK n \in DOMAIN Code : d = Code[n] /\ WordIn(img, b) = WordOf(n) /\ n # "zero"
  BY <1>2, <1>3, DecodedFacts DEF Next1
<1>6. d.address \in Nat
  BY <1>5 DEF Sane
<1>7. CASE d.instr.op # "sw"
  <2>1. after = img
    BY <1>7 DEF ImageAfter
  <2> QED
    <3>1. Past(img, c.sim.pc) \/ t.sim.brk
      <4>1. Content(img, b) = <<n, 0>>
        <5>1. WordIn(img, b)[0] = Content(img, b + 0) /\ WordOf(n)[0] = <<n, 0>>
          BY <1>5 DEF WordIn, WordOf, WordBytes
        <5> QED BY <1>4, <1>5, <5>1
      <4>2. b \in DOMAIN img /\ img[b] = <<n, 0>>
        BY <1>5, <4>1 DEF Content, Zero
      <4>3. n = "ebreak" => t.sim.brk
        BY <1>1, <1>5 DEF Sane
      <4>4. n # "ebreak" => <<n, 0>> # Break0
        BY DEF Break0
      <4> QED BY <1>3, <1>4, <4>2, <4>3, <4>4 DEF Past
    <3>2. t.x1[0] # Break0
      <4>1. CASE d.instr.op = "lw"
        <5>1. t.x1[0] = Content(img, d.address + 0)
          BY <1>1, <4>1 DEF X1After, WordIn, WordBytes
        <5>2. Content(img, d.address) # Break0
          BY <1>1, <1>5, <4>1 DEF SafeImage
        <5> QED BY <1>6, <5>1, <5>2
      <4>2. CASE d.instr.op # "lw"
        BY <1>1, <4>2 DEF X1After
      <4> QED BY <4>1, <4>2
    <3> QED BY <2>1, <3>1, <3>2
<1>8. CASE d.instr.op = "sw"
  <2>1. PICK a : a = d.address
    OBVIOUS
  <2>2. a \in Nat /\ a % 4 = 0
    BY <1>1, <1>6, <1>8, <2>1
  <2>3. PICK f : f = Placing(a, c.x1)
    OBVIOUS
  <2>4. after = Over(f, img) /\ t.x1 = c.x1
    BY <1>1, <1>8, <2>1, <2>3 DEF ImageAfter, X1After
  <2>5. DOMAIN f = a .. a + 3
    BY <2>3 DEF Placing, WordBytes
  <2>6. ASSUME NEW k \in Nat, k % 4 = 0, k \in DOMAIN f PROVE k = a /\ f[k] = c.x1[0]
    <3>1. PICK p \in Nat : a = 4 * p
      BY <2>2, Fours
    <3>2. PICK q \in Nat : k = 4 * q
      BY <2>6, Fours
    <3>3. a <= k /\ k <= a + 3
      BY <2>5, <2>6
    <3>4. p = q
      BY <3>1, <3>2, <3>3
    <3>5. k = a
      BY <3>1, <3>2, <3>4
    <3>6. f[a] = c.x1[a - a] /\ a - a = 0
      BY <2>2, <2>3 DEF Placing, WordBytes
    <3> QED BY <3>5, <3>6
  <2>7. ASSUME NEW k \in Nat, k % 4 = 0, k \in DOMAIN after
        PROVE  after[k] = c.x1[0] \/ (k \in DOMAIN img /\ after[k] = img[k])
    <3>1. after[k] = IF k \in DOMAIN f THEN f[k] ELSE img[k]
      BY <2>4, <2>7 DEF Over
    <3>2. k \in DOMAIN f \/ k \in DOMAIN img
      BY <2>4, <2>7 DEF Over
    <3> QED BY <2>6, <2>7, <3>1, <3>2
  <2>8. DOMAIN after = DOMAIN f \cup DOMAIN img
    BY <2>4 DEF Over
  <2>9. ASSUME NEW pc, Past(img, pc) PROVE Past(after, pc)
    <3>1. AddressOf(pc) \in {0, 4, 8} /\ pc \in Pcs
      BY <2>9, AddressFacts DEF Past
    <3>2. AddressOf(pc) \in DOMAIN after /\ img[AddressOf(pc)] # Break0
      BY <2>8, <2>9 DEF Past
    <3>3. AddressOf(pc) \in Nat /\ AddressOf(pc) % 4 = 0
      BY <3>1
    <3> QED BY <2>7, <3>1, <3>2, <3>3 DEF Past
  <2>10. SafeImage(after)
    <3>1. DOMAIN after \subseteq Nat
      BY <2>2, <2>5, <2>8 DEF SafeImage
    <3>2. ASSUME NEW m \in DOMAIN Code, Code[m].instr.op = "lw", Code[m].address % 4 = 0
          PROVE  Content(after, Code[m].address) # Break0
      <4>1. PICK k : k = Code[m].address
        OBVIOUS
      <4>2. k \in Nat /\ k % 4 = 0 /\ Content(img, k) # Break0
        BY <3>2, <4>1 DEF Sane, SafeImage
      <4>3. CASE k \in DOMAIN after
        BY <2>7, <4>1, <4>2, <4>3 DEF Content
      <4>4. CASE k \notin DOMAIN after
        BY <4>1, <4>4 DEF Content, Zero, Break0
      <4> QED BY <4>3, <4>4
    <3> QED BY <3>1, <3>2 DEF SafeImage
  <2>11. Past(img, c.sim.pc)
    <3>1. Content(img, b) = <<n, 0>>
      <4>1. WordIn(img, b)[0] = Content(img, b + 0) /\ WordOf(n)[0] = <<n, 0>>
        BY <1>5 DEF WordIn, WordOf, WordBytes
      <4> QED BY <1>4, <1>5, <4>1
    <3>2. b \in DOMAIN img /\ img[b] = <<n, 0>>
      BY <1>5, <3>1 DEF Content, Zero
    <3>3. n # "ebreak"
      BY <1>5, <1>8 DEF Sane
    <3>4. <<n, 0>> # Break0
      BY <3>3 DEF Break0
    <3> QED BY <1>3, <1>4, <3>2, <3>4 DEF Past
  <2> QED BY <2>4, <2>9, <2>10, <2>11
<1> QED BY <1>7, <1>8

(* The bytes watched after a step. *)
Watched(c, t, img) ==
  IF t.sim.exit = "running" /\ Len(t.events.store) > Len(c.events.store)
  THEN LET e == Last(t.events.store)
       IN  Over([a \in e[1] .. e[1] + WordBytes - 1 |-> e[2][a - e[1]]], img)
  ELSE img

(* They are those it left. *)
LEMMA ObservedFacts ==
  ASSUME NEW c, IsCpu(c), NEW t, NEW d, NEW loaded,
         t.events = EventsAfter(c.events, d, c.x1, loaded), NEW img, t.sim.exit = "running"
  PROVE  Watched(c, t, img) = ImageAfter(img, d, c.x1)
<1> DEFINE after == Watched(c, t, img)
<1>1. PICK q : q = c.events["store"]
  OBVIOUS
<1>2. IsSeq(q) /\ Len(q) \in Nat /\ c.events = [kind \in EventKinds |-> c.events[kind]]
  BY <1>1, SeqFacts DEF IsCpu, EventKinds
<1>3. PICK r : r = t.events["store"]
  OBVIOUS
<1>4. CASE d.instr.op = "sw"
  <2>1. PICK e : e = <<d.address, c.x1>>
    OBVIOUS
  <2>2. t.events = [c.events EXCEPT !["store"] = Append(@, e)]
    BY <1>4, <2>1 DEF EventsAfter
  <2>3. r = Append(q, e)
    BY <1>1, <1>2, <1>3, <2>2 DEF EventKinds
  <2>4. Len(r) = Len(q) + 1 /\ r[Len(q) + 1] = e
    BY <1>2, <2>3, SeqFacts
  <2>5. Last(r) = e /\ Len(r) > Len(q)
    <3>1. Last(r) = r[Len(r)]
      BY DEF Last
    <3> QED BY <1>2, <2>4, <3>1
  <2>6. e[1] = d.address /\ e[2] = c.x1
    BY <2>1
  <2>7. after = Over([a \in e[1] .. e[1] + WordBytes - 1 |-> e[2][a - e[1]]], img)
    BY <1>1, <1>3, <2>5 DEF Watched
  <2> QED BY <1>4, <2>6, <2>7 DEF ImageAfter, Placing
<1>5. CASE d.instr.op # "sw"
  <2>1. r = q
    <3>1. CASE d.instr.op = "lw"
      <4>1. PICK e, l : e = <<d.address>> /\ l = <<loaded>>
        OBVIOUS
      <4>2. t.events = [c.events EXCEPT !["load"] = Append(@, e), !["load_result"] = Append(@, l)]
        BY <3>1, <4>1 DEF EventsAfter
      <4> QED BY <1>1, <1>2, <1>3, <4>2 DEF EventKinds
    <3>2. CASE d.instr.op # "lw"
      BY <1>1, <1>3, <1>5, <3>2 DEF EventsAfter
    <3> QED BY <3>1, <3>2
  <2>2. after = img
    <3>1. ~ (Len(t.events.store) > Len(c.events.store))
      BY <1>1, <1>2, <1>3, <2>1
    <3> QED BY <3>1, Zenon DEF Watched
  <2> QED BY <1>5, <2>2 DEF ImageAfter
<1> QED BY <1>4, <1>5

LEMMA WatchedStep ==
  ASSUME Sane, NEW c, IsCpu(c), c.kind = "sim", NEW top, NEW big, Laid(c, top, big), Runs(c.sim),
         c.sim.exit = "running", NEW img, Shows(c.mem, img), NEW d, d = Next1(img, c.sim),
         NEW t, t = CpuStep(c)
  PROVE  t.sim.exit = "running" => Watched(c, t, img) = ImageAfter(img, d, c.x1)
<1>1. t.sim.exit = "running" => t.events = EventsAfter(c.events, d, c.x1, WordIn(img, d.address))
  BY CpuStepFacts
<1>2. PICK loaded : loaded = WordIn(img, d.address)
  OBVIOUS
<1>3. t.sim.exit = "running" => t.events = EventsAfter(c.events, d, c.x1, loaded)
  BY <1>1, <1>2
<1> QED BY <1>3, ObservedFacts, Zenon

LEMMA TracingStep ==
  ASSUME Tracing, Following, UNCHANGED options, options.max \in Nat \cup {NoLimit},
         options.stop # Word(0), ~ cpus[1].sim.brk, current # options.stop, ~ LimitReached,
         NEW pc, trace' = Append(trace, pc), cycles' = cycles + 1,
         \A q : Past(image, q) => Past(image', q)
  PROVE  Tracing'
<1>1. PICK n : n = Len(trace)
  OBVIOUS
<1>2. /\ n \in Nat /\ cycles = n /\ IsSeq(trace')
      /\ Len(trace') = n + 1 /\ trace'[n + 1] = pc
      /\ \A k \in 1 .. n : trace'[k] = trace[k]
  BY <1>1, SeqFacts DEF Tracing
<1>3. trace # <<>> <=> n # 0
  BY <1>1, <1>2 DEF Tracing, IsSeq
<1>4. ASSUME NEW k \in 1 .. n + 1, trace'[k] = options.stop PROVE n + 1 <= k + 1
  <2>1. CASE k < n
    <3>1. trace[k] = options.stop /\ k \in 1 .. n
      BY <1>2, <1>4, <2>1
    <3>2. n <= k + 1
      BY <1>1, <3>1 DEF Tracing
    <3>3. k = n - 1 /\ n # 0 /\ n # 1
      BY <1>2, <2>1, <3>2
    <3>4. current = trace[n - 1]
      BY <1>1, <1>3, <3>3 DEF Following
    <3> QED BY <3>1, <3>3, <3>4
  <2>2. CASE ~ (k < n)
    BY <1>2, <2>2
  <2> QED BY <2>1, <2>2
<1>5. ASSUME NEW k \in 1 .. n PROVE Past(image', trace'[k])
  <2>1. CASE k = n
    <3>1. Past(image, trace[n])
      BY <1>1, <1>2, <1>3, <2>1 DEF Following
    <3> QED BY <1>2, <2>1, <3>1
  <2>2. CASE k # n
    <3>1. k \in 1 .. n - 1
      BY <1>2, <2>2
    <3>2. Past(image, trace[k])
      BY <1>1, <3>1 DEF Tracing
    <3> QED BY <1>2, <3>2
  <2> QED BY <2>1, <2>2
<1>6. options.max \notin {NoLimit, 0} => n + 1 <= options.max
  <2>1. options.max \notin {NoLimit, 0} => n <= options.max /\ options.max \in Nat \ {0}
    BY <1>1 DEF Tracing
  <2>2. n = 0 \/ n # options.max
    BY <1>2 DEF LimitReached
  <2> QED BY <1>2, <2>1, <2>2
<1> QED BY <1>2, <1>4, <1>5, <1>6 DEF Tracing

LEMMA FollowingStep ==
  ASSUME Tracing, Following, NEW pc, pc = cpus[1].sim.pc, trace' = Append(trace, pc),
         current' = cpus[1].sim.pcx, cpus'[1].sim.pcx = pc,
         ~ cpus'[1].sim.brk => Past(image', pc)
  PROVE  Following'
<1>1. PICK n : n = Len(trace)
  OBVIOUS
<1>2. /\ n \in Nat /\ IsSeq(trace')
      /\ Len(trace') = n + 1 /\ trace'[n + 1] = pc
      /\ \A k \in 1 .. n : trace'[k] = trace[k]
  BY <1>1, SeqFacts DEF Tracing
<1>3. trace # <<>> <=> n # 0
  BY <1>1, <1>2 DEF Tracing, IsSeq
<1>4. trace' # <<>>
  BY <1>2
<1>5. current' = trace'[IF n + 1 = 1 THEN 1 ELSE n]
  <2>1. CASE n = 0
    <3>1. cpus[1].sim.pcx = pc
      BY <1>3, <2>1 DEF Following
    <3> QED BY <1>2, <2>1, <3>1
  <2>2. CASE n # 0
    <3>1. cpus[1].sim.pcx = trace[n]
      BY <1>1, <1>3, <2>2 DEF Following
    <3> QED BY <1>2, <2>2, <3>1
  <2> QED BY <2>1, <2>2
<1>6. Len(trace') - 1 = n
  BY <1>2
<1> QED BY <1>2, <1>4, <1>5, <1>6 DEF Following

(* What the step of the first processor does to all that is watched.       *)
LEMMA FirstStep ==
  ASSUME Sane, NEW top \in Nat, NEW big \in Nat, OrdinaryRun(top, big), Running(top, big),
         Following, Tracing, SafeImage(image), 1 \in DOMAIN cpus, GoesOn,
         NEW c, IsCpu(c), c.kind = "sim", c.sim = cpus[1].sim, c.mem = cpus[1].mem,
         c.x1 = cpus[1].x1, c.kind = cpus[1].kind, NEW t, t = CpuStep(c), cpus'[1] = t,
         trace' = Append(trace, t.sim.pcx),
         image' = Watched(c, t, image),
         UNCHANGED options, current' = cpus[1].sim.pcx, cycles' = cycles + 1,
         NEW d, d = Next1(image, c.sim)
  PROVE  /\ Tracing'
         /\ t.sim.exit = "running" =>
              /\ Following' /\ SafeImage(image') /\ image' = ImageAfter(image, d, c.x1)
              /\ Runs(t.sim) /\ t.sim = Step(c.sim, d.instr, {}) /\ t.x1 = X1After(image, d, c.x1)
              /\ t.events = EventsAfter(c.events, d, c.x1, WordIn(image, d.address))
              /\ Laid(t, top, big) /\ Shows(t.mem, image') /\ t.x1[0] # Break0
<1>1. /\ Runs(c.sim) /\ c.sim.exit = "running" /\ Shows(c.mem, image) /\ c.x1[0] # Break0
      /\ Laid(cpus[1], top, big)
  BY DEF Running
<1>2. Laid(c, top, big)
  BY <1>1, LaidSame
<1>3. /\ t.sim.exit = "running" =>
            /\ t.sim = Step(c.sim, d.instr, {}) /\ t.sim.pcx = c.sim.pc /\ Runs(t.sim)
            /\ Laid(t, top, big)
            /\ t.x1 = X1After(image, d, c.x1) /\ Shows(t.mem, ImageAfter(image, d, c.x1))
            /\ t.events = EventsAfter(c.events, d, c.x1, WordIn(image, d.address))
  <2>1. c.kind # "bench"
    OBVIOUS
  <2> QED
    BY ONLY Sane, IsCpu(c), t = CpuStep(c), d = Next1(image, c.sim), <1>1, <1>2, <2>1,
            CpuStepRunning
<1>4. t.sim.exit = "running" => image' = ImageAfter(image, d, c.x1)
  BY <1>1, <1>2, WatchedStep
<1>5. t.sim.exit = "running" =>
        /\ SafeImage(image') /\ t.x1[0] # Break0
        /\ \A pc : Past(image, pc) => Past(image', pc)
        /\ ~ t.sim.brk => Past(image', c.sim.pc)
  <2>1. PICK after : after = ImageAfter(image, d, c.x1)
    OBVIOUS
  <2>2. t.sim.exit = "running" =>
          /\ SafeImage(after) /\ t.x1[0] # Break0
          /\ \A pc : Past(image, pc) => Past(after, pc)
          /\ ~ t.sim.brk => Past(after, c.sim.pc)
    BY <1>1, <1>2, <2>1, LiveStep
  <2> QED BY <1>4, <2>1, <2>2
<1>6. t.sim.exit # "running" => image' = image
  BY DEF Watched
<1>7. \A pc : Past(image, pc) => Past(image', pc)
  BY <1>5, <1>6
<1>8. Tracing'
  <2>1. /\ options.max \in Nat \cup {NoLimit} /\ options.stop # Word(0)
    BY DEF OrdinaryRun
  <2>2. ~ cpus[1].sim.brk /\ current # options.stop /\ ~ LimitReached
    BY DEF GoesOn, GetStopped
  <2> QED BY <1>7, <2>1, <2>2, TracingStep
<1>9. t.sim.exit = "running" => Following'
  <2> SUFFICES ASSUME t.sim.exit = "running" PROVE Following'
    OBVIOUS
  <2>1. t.sim.pcx = c.sim.pc
    BY <1>3
  <2>2. ~ cpus'[1].sim.brk => Past(image', c.sim.pc)
    BY <1>5
  <2> QED BY <2>1, <2>2, FollowingStep
<1> QED BY <1>3, <1>4, <1>5, <1>8, <1>9

LEMMA StepSimInv ==
  ASSUME Sane, NEW top \in Nat, NEW big \in Nat, OrdinaryRun(top, big), HInv(top, big), StepSim
  PROVE  HInv(top, big)'
<1>1. /\ phase = "loop" /\ Len(cpus) = 1 /\ GoesOn
      /\ cpus' = <<CpuStep(cpus[1])>> /\ current' = cpus[1].sim.pcx /\ cycles' = cycles + 1
      /\ UNCHANGED <<file, options, section, dump, erred>>
  BY DEF StepSim, GetPc
<1>2. ShapeOf(cpus) /\ SafeImage(image) /\ Running(top, big) /\ Following /\ Tracing
  BY <1>1 DEF HInv
<1>3. PICK c : c = cpus[1]
  OBVIOUS
<1>4. /\ 1 \in DOMAIN cpus /\ DOMAIN cpus = 1 .. 1 /\ IsCpu(c) /\ c.kind = "sim"
      /\ cpus = [k \in DOMAIN cpus |-> cpus[k]]
  BY <1>1, <1>2, <1>3, ShapeFacts DEF KindsAt
<1>5. PICK t : t = CpuStep(c)
  OBVIOUS
<1>6. cpus' = <<t>> /\ cpus'[1] = t
  BY <1>1, <1>3, <1>5
<1>7. /\ trace' = Append(trace, t.sim.pcx)
      /\ image' = Watched(c, t, image)
  BY <1>3, <1>6 DEF StepSim, Observe, Watched
<1>8. PICK d : d = Next1(image, c.sim)
  OBVIOUS
<1>9. /\ Tracing'
      /\ t.sim.exit = "running" =>
            /\ Following' /\ SafeImage(image')
            /\ Runs(t.sim) /\ Laid(t, top, big) /\ Shows(t.mem, image') /\ t.x1[0] # Break0
  BY <1>1, <1>2, <1>3, <1>4, <1>5, <1>6, <1>7, <1>8, FirstStep
<1>10. IsCpu(t) /\ t.kind = "sim" /\ Runs(t.sim)
  <2>1. Laid(c, top, big) /\ Runs(c.sim) /\ c.sim.exit = "running" /\ Shows(c.mem, image)
    BY <1>2, <1>3, <1>4 DEF Running
  <2> QED BY <1>4, <1>5, <2>1, CpuStepFacts
<1>11. ShapeOf(cpus') /\ DOMAIN cpus' = 1 .. 1 /\ Len(cpus') = 1
  <2>1. PICK ds : ds = cpus'
    OBVIOUS
  <2>2. DOMAIN ds = 1 .. 1 /\ ds = [k \in 1 .. 1 |-> ds[k]] /\ \A k \in 1 .. 1 : ds[k] = t
    BY <1>6, <2>1
  <2>3. \A k \in DOMAIN cpus : IsCpu(ds[k]) /\ ds[k].kind = cpus[k].kind
    BY <1>3, <1>4, <1>10, <2>2
  <2> QED BY <1>1, <1>2, <1>4, <2>1, <2>2, <2>3, ShapeKept
<1>12. Dead(cpus') # {} <=> t.sim.exit # "running"
  BY <1>6, <1>11 DEF Dead
<1>13. CASE t.sim.exit # "running"
  <2>1. phase' = "ended" /\ failure' = t.sim.exit
    BY <1>6, <1>12, <1>13 DEF StepSim, Ends
  <2>2. t.sim.exit \in {"done", "error"}
    BY <1>10, <1>13 DEF Runs
  <2> QED BY <1>9, <2>1, <2>2 DEF HInv, Loading, Ended
<1>14. CASE t.sim.exit = "running"
  <2>1. phase' = "loop" /\ failure' = failure
    BY <1>1, <1>12, <1>14 DEF StepSim
  <2>2. Running(top, big)'
    <3>1. failure' = "none"
      BY <1>2, <2>1 DEF Running
    <3>2. \A k \in DOMAIN cpus' : cpus'[k] = t
      BY <1>6, <1>11
    <3> QED BY <1>6, <1>9, <1>11, <1>14, <3>1, <3>2 DEF Running
  <2>3. SafeImage(image)' /\ ShapeOf(cpus)'
    BY <1>9, <1>11, <1>14 DEF SafeImage, ShapeOf
  <2> QED BY <1>9, <1>14, <2>1, <2>2, <2>3 DEF HInv, Loading, Ended
<1> QED BY <1>13, <1>14

---------------------------------------------------------------------------
(* Two processors: the events taken, and what may go wrong.                *)

LEMMA TailFacts ==
  ASSUME NEW q, IsSeq(q), q # <<>>
  PROVE  IsSeq(Tail(q)) /\ (Len(q) <= 1 => Tail(q) = <<>>)
<1>1. PICK S : q \in Seq(S)
  BY DEF IsSeq
<1>2. Tail(q) \in Seq(S) /\ Len(Tail(q)) = Len(q) - 1 /\ Len(q) \in Nat /\ Len(q) # 0
  BY <1>1
<1>3. Len(q) <= 1 => Len(Tail(q)) = 0
  BY <1>2
<1> QED BY <1>2, <1>3 DEF IsSeq

LEMMA WithEvents ==
  ASSUME NEW c, IsCpu(c), NEW ev, ev = [kind \in EventKinds |-> ev[kind]],
         \A kind \in EventKinds : IsSeq(ev[kind]), NEW d, d = [c EXCEPT !.events = ev]
  PROVE  /\ IsCpu(d) /\ d.kind = c.kind /\ d.sim = c.sim /\ d.mem = c.mem /\ d.x1 = c.x1
         /\ d.events = ev
<1>1. d = [kind |-> c.kind, sim |-> c.sim, mem |-> c.mem, x1 |-> c.x1, events |-> ev]
  BY DEF IsCpu
<1> QED BY <1>1 DEF IsCpu

LEMMA PoppedFacts ==
  ASSUME NEW cs, \A c \in DOMAIN cs : IsCpu(cs[c]), NEW ready, ready = EventsPopped(cs),
         NEW c \in DOMAIN cs
  PROVE  /\ IsCpu(ready[c]) /\ ready[c].kind = cs[c].kind /\ ready[c].sim = cs[c].sim
         /\ ready[c].mem = cs[c].mem /\ ready[c].x1 = cs[c].x1
         /\ (\A k \in DOMAIN cs : cs[k].events = cs[c].events)
              /\ (\A kind \in EventKinds : Len(cs[c].events[kind]) <= 1) =>
                ready[c].events = NoEvents
<1>1. PICK k : k = cs[c]
  OBVIOUS
<1>2. PICK ev : ev = [kind \in EventKinds |->
                        IF Ready(cs, kind) THEN Tail(k.events[kind]) ELSE k.events[kind]]
  OBVIOUS
<1>3. ready[c] = [k EXCEPT !.events = ev]
  BY <1>1, <1>2 DEF EventsPopped
<1>4. IsCpu(k) /\ \A kind \in EventKinds : IsSeq(k.events[kind])
  BY <1>1 DEF IsCpu
<1>5. \A kind \in EventKinds : Ready(cs, kind) => k.events[kind] # <<>>
  BY <1>1 DEF Ready
<1>6. ev = [kind \in EventKinds |-> ev[kind]] /\ \A kind \in EventKinds : IsSeq(ev[kind])
  BY <1>2, <1>4, <1>5, TailFacts
<1>7. /\ IsCpu(ready[c]) /\ ready[c].kind = k.kind /\ ready[c].sim = k.sim
      /\ ready[c].mem = k.mem /\ ready[c].x1 = k.x1 /\ ready[c].events = ev
  BY <1>3, <1>4, <1>6, WithEvents
<1>8. ASSUME \A j \in DOMAIN cs : cs[j].events = k.events,
             \A kind \in EventKinds : Len(k.events[kind]) <= 1
      PROVE  ev = NoEvents
  <2>1. ASSUME NEW kind \in EventKinds PROVE ev[kind] = <<>>
    <3>1. CASE k.events[kind] # <<>>
      <4>1. Ready(cs, kind)
        BY <1>8, <3>1 DEF Ready
      <4>2. ev[kind] = Tail(k.events[kind])
        BY <1>2, <4>1
      <4> QED BY <1>4, <1>8, <3>1, <4>2, TailFacts
    <3>2. CASE k.events[kind] = <<>>
      BY <1>2, <1>5, <3>2, Zenon
    <3> QED BY <3>1, <3>2
  <2> QED BY <1>6, <2>1 DEF NoEvents
<1> QED BY <1>1, <1>7, <1>8

LEMMA WrongCases ==
  ASSUME NEW c, NEW t, NEW p \in Wrong(c, t)
  PROVE  \/ \E pc \in Pcs : pc # t.sim.pcx /\ p = [t EXCEPT !.sim.pcx = pc]
         \/ p = [t EXCEPT !.x1 = WordOf("wrong")]
         \/ /\ Opcode(c).instr.op = "sw"
            /\ p = [AfterStore(t, Opcode(c).address, WordOf("wrong")) EXCEPT
                      !.events = Push(c, "store", <<Opcode(c).address, WordOf("wrong")>>).events]
         \/ p = [t EXCEPT !.events = c.events]
         \/ c.kind = "bench" /\ p = c
BY Zenon DEF Wrong

(* Whatever goes wrong, it is the same process. *)
LEMMA WrongKept ==
  ASSUME NEW c, IsCpu(c), NEW t, IsCpu(t), Runs(t.sim), t.kind = c.kind, NEW p \in Wrong(c, t)
  PROVE  /\ IsCpu(p) /\ p.kind = t.kind
         /\ \/ c.kind = "bench" /\ p = c
            \/ p.sim.exit = t.sim.exit /\ (p.sim.pcx = t.sim.pcx => p.sim = t.sim)
<1>1. ASSUME NEW pc \in Pcs, pc # t.sim.pcx, p = [t EXCEPT !.sim.pcx = pc]
      PROVE  IsCpu(p) /\ p.kind = t.kind /\ p.sim.exit = t.sim.exit /\ p.sim.pcx # t.sim.pcx
  <2>1. PICK s : s = [t.sim EXCEPT !.pcx = pc]
    OBVIOUS
  <2>2. p = [t EXCEPT !.sim = s]
    BY <1>1, <2>1
  <2>3. s.exit = t.sim.exit /\ s.pcx = pc
    BY <2>1 DEF Runs, IsSim
  <2>4. IsCpu(p) /\ p.kind = t.kind /\ p.sim = s
    BY <2>2, WithSim
  <2> QED BY <1>1, <2>3, <2>4
<1>2. CASE p = [t EXCEPT !.x1 = WordOf("wrong")]
  <2>1. PICK w : w = WordOf("wrong")
    OBVIOUS
  <2>2. IsCpu(p) /\ p.kind = t.kind /\ p.sim = t.sim
    BY <1>2, <2>1, WithX1
  <2> QED BY <2>2
<1>3. ASSUME p = [AfterStore(t, Opcode(c).address, WordOf("wrong")) EXCEPT
                    !.events = Push(c, "store", <<Opcode(c).address, WordOf("wrong")>>).events]
      PROVE  IsCpu(p) /\ p.kind = t.kind /\ p.sim = t.sim
  <2>1. PICK u : u = AfterStore(t, Opcode(c).address, WordOf("wrong"))
    OBVIOUS
  <2>2. IsCpu(u) /\ u.kind = t.kind /\ u.sim = t.sim
    <3>1. \E n : u = [t EXCEPT !.mem = n]
      BY <2>1 DEF AfterStore
    <3> QED BY <3>1, WithMemory
  <2>3. PICK e : e = <<Opcode(c).address, WordOf("wrong")>>
    OBVIOUS
  <2>4. PICK v : v = Push(c, "store", e)
    OBVIOUS
  <2>5. PICK ev : ev = v.events
    OBVIOUS
  <2>6. IsCpu(v)
    BY <2>4, PushKept DEF EventKinds
  <2>7. ev = [kind \in EventKinds |-> ev[kind]] /\ \A kind \in EventKinds : IsSeq(ev[kind])
    BY <2>5, <2>6 DEF IsCpu
  <2>8. p = [u EXCEPT !.events = ev]
    BY <1>3, <2>1, <2>3, <2>4, <2>5
  <2>9. IsCpu(p) /\ p.kind = u.kind /\ p.sim = u.sim
    BY <2>2, <2>7, <2>8, WithEvents
  <2> QED BY <2>2, <2>9
<1>4. CASE p = [t EXCEPT !.events = c.events]
  <2>1. PICK ev : ev = c.events
    OBVIOUS
  <2>2. ev = [kind \in EventKinds |-> ev[kind]] /\ \A kind \in EventKinds : IsSeq(ev[kind])
    BY <2>1 DEF IsCpu
  <2>3. IsCpu(p) /\ p.kind = t.kind /\ p.sim = t.sim
    BY <1>4, <2>1, <2>2, WithEvents
  <2> QED BY <2>3
<1>5. CASE c.kind = "bench" /\ p = c
  BY <1>5
<1>6. CASE \E pc \in Pcs : pc # t.sim.pcx /\ p = [t EXCEPT !.sim.pcx = pc]
  BY <1>1, <1>6
<1>7. CASE p = [AfterStore(t, Opcode(c).address, WordOf("wrong")) EXCEPT
                  !.events = Push(c, "store", <<Opcode(c).address, WordOf("wrong")>>).events]
  BY <1>3, <1>7
<1>8. \/ \E pc \in Pcs : pc # t.sim.pcx /\ p = [t EXCEPT !.sim.pcx = pc]
      \/ p = [t EXCEPT !.x1 = WordOf("wrong")]
      \/ p = [AfterStore(t, Opcode(c).address, WordOf("wrong")) EXCEPT
                !.events = Push(c, "store", <<Opcode(c).address, WordOf("wrong")>>).events]
      \/ p = [t EXCEPT !.events = c.events]
      \/ c.kind = "bench" /\ p = c
  BY WrongCases
<1> QED BY <1>2, <1>4, <1>5, <1>6, <1>7, <1>8, Zenon

(* What a processor that had recorded nothing leaves when it has carried   *)
(* out d with the register at x.                                           *)
Leaves(t, d, x, after) ==
  /\ d.address \in Nat /\ Shows(t.mem, after)
  /\ d.instr.op = "sw" => ~ AccessFails(t, d.address)
  /\ \E loaded : t.events = EventsAfter(NoEvents, d, x, loaded)
  /\ \E img : after = ImageAfter(img, d, x)

(* What goes wrong and is not seen in the registers can only be in memory. *)
LEMMA WrongFacts ==
  ASSUME NEW c, IsCpu(c), c.kind = "rtl", c.events = NoEvents,
         NEW t, IsCpu(t), t.kind = "rtl", Runs(t.sim), NEW top, NEW big, Laid(t, top, big),
         NEW d, d = Opcode(c), NEW after, Leaves(t, d, c.x1, after),
         NEW p \in Wrong(c, t), p.sim.pcx = t.sim.pcx, p.x1 = t.x1
  PROVE  /\ p.sim = t.sim /\ Laid(p, top, big)
         /\ Shows(p.mem, after) \/ Apart(t.events["store"], p.events["store"], p.mem, after)
<1>1. /\ d.address \in Nat /\ Shows(t.mem, after)
      /\ d.instr.op = "sw" => ~ AccessFails(t, d.address)
  BY DEF Leaves
<1>2. PICK loaded : t.events = EventsAfter(NoEvents, d, c.x1, loaded)
  BY DEF Leaves
<1>3. PICK img : after = ImageAfter(img, d, c.x1)
  BY DEF Leaves
<1>4. ASSUME NEW pc \in Pcs, pc # t.sim.pcx, p = [t EXCEPT !.sim.pcx = pc] PROVE FALSE
  <2>1. PICK s : s = [t.sim EXCEPT !.pcx = pc]
    OBVIOUS
  <2>2. p = [t EXCEPT !.sim = s] /\ s.pcx = pc
    BY <1>4, <2>1 DEF Runs, IsSim
  <2>3. p.sim = s
    BY <2>2, WithSim
  <2> QED BY <1>4, <2>2, <2>3
<1>5. CASE p = [t EXCEPT !.x1 = WordOf("wrong")]
  <2>1. PICK w : w = WordOf("wrong")
    OBVIOUS
  <2>2. p.kind = t.kind /\ p.mem = t.mem /\ p.sim = t.sim
    BY <1>5, <2>1, WithX1
  <2> QED BY <1>1, <2>2, LaidSame
<1>6. CASE p = [t EXCEPT !.events = c.events]
  <2>1. PICK ev : ev = c.events
    OBVIOUS
  <2>2. ev = [kind \in EventKinds |-> ev[kind]] /\ \A kind \in EventKinds : IsSeq(ev[kind])
    BY <2>1 DEF IsCpu
  <2>3. p.kind = t.kind /\ p.mem = t.mem /\ p.sim = t.sim
    BY <1>6, <2>1, <2>2, WithEvents
  <2> QED BY <1>1, <2>3, LaidSame
<1>7. ASSUME d.instr.op = "sw",
             p = [AfterStore(t, d.address, WordOf("wrong")) EXCEPT
                    !.events = Push(c, "store", <<d.address, WordOf("wrong")>>).events]
      PROVE  /\ p.sim = t.sim /\ Laid(p, top, big)
             /\ Shows(p.mem, after) \/ Apart(t.events["store"], p.events["store"], p.mem, after)
  <2>3. PICK a, v, w : a = d.address /\ v = WordOf("wrong") /\ w = c.x1
    OBVIOUS
  <2>4. PICK e : e = <<a, w>>
    OBVIOUS
  <2>5. t.events = [NoEvents EXCEPT !["store"] = Append(@, e)]
    BY <1>2, <1>7, <2>3, <2>4 DEF EventsAfter
  <2>6. t.events["store"] = Append(<<>>, e)
    BY <2>5 DEF NoEvents, EventKinds
  <2>7. t.events["store"] = <<e>>
    BY <2>6
  <2>9. PICK u : u = AfterStore(t, a, v)
    OBVIOUS
  <2>10. a \in Nat /\ ~ AccessFails(t, a)
    BY <1>1, <1>7, <2>3
  <2>11. /\ IsCpu(u) /\ u.kind = t.kind /\ u.sim = t.sim /\ u.events = t.events
         /\ Laid(u, top, big) /\ Shows(u.mem, Over(Placing(a, v), after))
    BY <1>1, <2>9, <2>10, AfterStoreFacts
  <2>12. PICK f : f = <<a, v>>
    OBVIOUS
  <2>13. PICK q : q = <<f>>
    OBVIOUS
  <2>14. PICK x, ev : x = Push(c, "store", f) /\ ev = x.events
    OBVIOUS
  <2>15. IsCpu(x) /\ ev = [c.events EXCEPT !["store"] = Append(@, f)]
    BY <2>14, PushKept, PushTold DEF EventKinds
  <2>16. p = [u EXCEPT !.events = ev]
    BY <1>7, <2>3, <2>9, <2>12, <2>14
  <2>17. ev["store"] = q
    <3>1. ev["store"] = Append(<<>>, f)
      BY <2>15 DEF NoEvents, EventKinds
    <3> QED BY <2>13, <3>1
  <2>18. ev = [kind \in EventKinds |-> ev[kind]] /\ \A kind \in EventKinds : IsSeq(ev[kind])
    BY <2>14, <2>15 DEF IsCpu
  <2>19. p.kind = u.kind /\ p.sim = u.sim /\ p.mem = u.mem /\ p.events = ev
    BY <2>11, <2>16, <2>18, WithEvents
  <2>20. p.events["store"] = <<<<a, v>>>>
    BY <2>12, <2>13, <2>17, <2>19
  <2>21. t.events["store"] = <<<<a, w>>>>
    BY <2>4, <2>7
  <2>22. p.sim = t.sim /\ Laid(p, top, big) /\ Shows(p.mem, Over(Placing(a, v), after))
    BY <2>11, <2>19, LaidSame
  <2>23. CASE w # v
    BY <2>10, <2>20, <2>21, <2>22, <2>23 DEF Apart
  <2>24. CASE w = v
    <3>1. after = Over(Placing(a, v), img)
      BY <1>3, <1>7, <2>3, <2>24 DEF ImageAfter
    <3>2. PICK m : m = p.mem
      OBVIOUS
    <3>3. \A k \in Nat : Content(Over(Placing(a, v), after), k) = Content(after, k)
      <4>1. PICK g : g = Placing(a, v)
        OBVIOUS
      <4>2. after = Over(g, img)
        BY <3>1, <4>1
      <4>3. \A k \in Nat : Content(Over(g, after), k) = Content(after, k)
        BY <4>2 DEF Over, Content
      <4> QED BY <4>1, <4>3
    <3>4. Shows(m, after)
      BY <2>22, <3>2, <3>3 DEF Shows
    <3> QED BY <2>22, <3>2, <3>4
  <2> QED BY <2>23, <2>24
<1> QED BY <1>4, <1>5, <1>6, <1>7, WrongCases


LEMMA SecondStep ==
  ASSUME Sane, NEW top \in Nat, NEW big \in Nat, Running(top, big), ShapeOf(cpus), Len(cpus) = 2,
         ~ EventMismatch(cpus),
         NEW c, IsCpu(c), c.kind = cpus[2].kind, c.sim = cpus[2].sim, c.mem = cpus[2].mem,
         c.x1 = cpus[2].x1, ~ erred \/ c.kind = "rtl",
         NEW t, t = CpuStep(c), NEW d, d = Next1(image, cpus[1].sim)
  PROVE  /\ Opcode(c) = d
         /\ t.sim.exit = "running" =>
              /\ t.sim = Step(cpus[1].sim, d.instr, {}) /\ t.x1 = X1After(image, d, cpus[1].x1)
              /\ c.kind = "rtl" =>
                   t.events = EventsAfter(c.events, d, cpus[1].x1, WordIn(image, d.address))
              /\ Laid(t, top, big) /\ Shows(t.mem, ImageAfter(image, d, cpus[1].x1))
              /\ d.instr.op = "sw" => ~ AccessFails(t, d.address)
<1>1. /\ cpus[2].sim = cpus[1].sim /\ cpus[2].x1 = cpus[1].x1 /\ Laid(cpus[2], top, big)
      /\ Shows(cpus[2].mem, image) \/ Wronged
      /\ DOMAIN cpus = 1 .. 2 /\ 1 \in DOMAIN cpus /\ 2 \in DOMAIN cpus /\ c.kind # "sim"
  BY ShapeFacts DEF Running, Paired, KindsAt
<1>2. Shows(cpus[2].mem, image)
  <2>1. ASSUME Wronged PROVE FALSE
    <3>1. PICK a \in Nat : \E w, v :
            /\ w # v /\ cpus[1].events["store"] = <<<<a, w>>>>
            /\ cpus[2].events["store"] = <<<<a, v>>>>
      BY <2>1 DEF Wronged, Apart
    <3>2. PICK w, v : /\ w # v /\ cpus[1].events["store"] = <<<<a, w>>>>
                      /\ cpus[2].events["store"] = <<<<a, v>>>>
      BY <3>1
    <3>3. PICK e, f : e = <<a, w>> /\ f = <<a, v>>
      OBVIOUS
    <3>4. e # f
      BY <3>2, <3>3
    <3>5. cpus[1].events["store"] = <<e>> /\ cpus[2].events["store"] = <<f>>
      BY <3>2, <3>3
    <3>6. <<e>> # <<>> /\ <<f>> # <<>> /\ Head(<<e>>) = e /\ Head(<<f>>) = f
      OBVIOUS
    <3>7. "store" \in EventKinds
      BY DEF EventKinds
    <3>8. Ready(cpus, "store")
      <4>1. \A j \in DOMAIN cpus : j = 1 \/ j = 2
        BY <1>1
      <4> QED BY <3>5, <3>6, <4>1 DEF Ready
    <3>9. Head(cpus[2].events["store"]) # Head(cpus[1].events["store"])
      BY <3>4, <3>5, <3>6
    <3> QED BY <1>1, <3>7, <3>8, <3>9 DEF EventMismatch
  <2> QED BY <1>1, <2>1
<1>3. Runs(c.sim) /\ c.sim.exit = "running" /\ Shows(c.mem, image) /\ Laid(c, top, big)
  <2>1. Runs(cpus[1].sim) /\ cpus[1].sim.exit = "running"
    BY <1>1 DEF Running
  <2> QED BY <1>1, <1>2, <2>1, LaidSame
<1>4. d = Next1(image, c.sim) /\ c.x1 = cpus[1].x1 /\ c.sim = cpus[1].sim
  BY <1>1
<1>5. Opcode(c) = d
  BY <1>3, <1>4, OpcodeFacts
<1> QED BY <1>1, <1>3, <1>4, <1>5, CpuStepFacts

LEMMA FewEvents ==
  ASSUME NEW d, NEW x, NEW loaded, NEW kind \in EventKinds
  PROVE  Len(EventsAfter(NoEvents, d, x, loaded)[kind]) <= 1
<1>1. PICK a, l, w : a = <<d.address>> /\ l = <<loaded>> /\ w = <<d.address, x>>
  OBVIOUS
<1>2. \A e : Append(<<>>, e) = <<e>> /\ Len(<<e>>) <= 1
  OBVIOUS
<1>3. NoEvents = [k \in EventKinds |-> <<>>] /\ Len(<<>>) <= 1
  BY DEF NoEvents
<1>4. CASE d.instr.op = "lw"
  <2>1. EventsAfter(NoEvents, d, x, loaded) =
          [NoEvents EXCEPT !["load"] = Append(@, a), !["load_result"] = Append(@, l)]
    BY <1>1, <1>4 DEF EventsAfter
  <2>2. EventsAfter(NoEvents, d, x, loaded)[kind] \in {<<>>, Append(<<>>, a), Append(<<>>, l)}
    BY <1>3, <2>1 DEF EventKinds
  <2> QED BY <1>2, <1>3, <2>2
<1>5. CASE d.instr.op = "sw"
  <2>1. EventsAfter(NoEvents, d, x, loaded) = [NoEvents EXCEPT !["store"] = Append(@, w)]
    BY <1>1, <1>5 DEF EventsAfter
  <2>2. EventsAfter(NoEvents, d, x, loaded)[kind] \in {<<>>, Append(<<>>, w)}
    BY <1>3, <2>1 DEF EventKinds
  <2> QED BY <1>2, <1>3, <2>2
<1>6. CASE d.instr.op \notin {"lw", "sw"}
  BY <1>3, <1>6 DEF EventsAfter
<1> QED BY <1>4, <1>5, <1>6

LEMMA StepCosimInv ==
  ASSUME Sane, NEW top \in Nat, NEW big \in Nat, OrdinaryRun(top, big), HInv(top, big), StepCosim
  PROVE  HInv(top, big)'
<1>1. /\ phase = "loop" /\ Len(cpus) = 2 /\ GoesOn
      /\ UNCHANGED <<file, options, section, dump>>
  BY DEF StepCosim
<1>2. ShapeOf(cpus) /\ SafeImage(image) /\ Running(top, big) /\ Following /\ Tracing
  BY <1>1 DEF HInv
<1>3. /\ DOMAIN cpus = 1 .. 2 /\ 1 \in DOMAIN cpus /\ 2 \in DOMAIN cpus
      /\ IsCpu(cpus[1]) /\ cpus[1].kind = "sim" /\ IsCpu(cpus[2])
      /\ cpus[2].kind \in {"rtl", "bench"}
      /\ \A c \in DOMAIN cpus : IsCpu(cpus[c])
  BY <1>1, <1>2, ShapeFacts DEF KindsAt
<1>4. CASE EventMismatch(cpus)
  <2>1. /\ phase' = "ended" /\ failure' = "mismatch"
        /\ UNCHANGED <<trace, cycles, options, image>>
    BY <1>1, <1>4 DEF StepCosim, Ends
  <2>2. Tracing'
    BY <1>2, <2>1, TracingKept
  <2> QED BY <2>1, <2>2 DEF HInv, Loading, Ended
<1>5. CASE ~ EventMismatch(cpus)
  <2>1. PICK ready : ready = EventsPopped(cpus)
    OBVIOUS
  <2>2. PICK c, k : c = ready[1] /\ k = ready[2]
    OBVIOUS
  <2>3. /\ IsCpu(c) /\ c.kind = "sim" /\ c.sim = cpus[1].sim /\ c.mem = cpus[1].mem
        /\ c.x1 = cpus[1].x1
        /\ IsCpu(k) /\ k.kind = cpus[2].kind /\ k.sim = cpus[2].sim /\ k.mem = cpus[2].mem
        /\ k.x1 = cpus[2].x1
    BY <1>3, <2>1, <2>2, PoppedFacts
  <2>4. ~ erred /\ k.kind = "rtl" => c.events = NoEvents /\ k.events = NoEvents
    <3> SUFFICES ASSUME ~ erred, k.kind = "rtl" PROVE c.events = NoEvents /\ k.events = NoEvents
      OBVIOUS
    <3>1. /\ cpus[2].events = cpus[1].events
          /\ \A kind \in EventKinds : Len(cpus[1].events[kind]) <= 1
      BY <1>1, <1>2, <2>3 DEF Running, Paired
    <3>2. \A j \in DOMAIN cpus : cpus[j].events = cpus[1].events
      BY <1>3, <3>1
    <3> QED BY <1>3, <2>1, <2>2, <3>1, <3>2, PoppedFacts
  <2>5. PICK t, u : t = CpuStep(c) /\ u = CpuStep(k)
    OBVIOUS
  <2>6. PICK d : d = Next1(image, cpus[1].sim)
    OBVIOUS
  <2>7. PICK p : /\ cpus' = <<t, p>>
                 /\ (p = u /\ erred' = erred) \/ (~ erred /\ erred' = TRUE /\ p \in Wrong(k, u))
    <3>1. /\ \/ /\ cpus' = [j \in DOMAIN cpus |-> CpuStep(ready[j])]
                /\ UNCHANGED erred
             \/ /\ ~erred /\ erred' = TRUE
                /\ \E rtl \in Wrong(ready[2], CpuStep(ready[2])) :
                     cpus' = <<CpuStep(ready[1]), rtl>>
      BY <1>5, <2>1 DEF StepCosim
    <3>2. CASE cpus' = [j \in DOMAIN cpus |-> CpuStep(ready[j])] /\ UNCHANGED erred
      <4>1. cpus' = [j \in 1 .. 2 |-> CpuStep(ready[j])]
        BY <1>3, <3>2
      <4>2. cpus' = <<t, u>>
        BY <2>2, <2>5, <4>1
      <4> QED BY <3>2, <4>2
    <3>3. CASE /\ ~erred /\ erred' = TRUE
               /\ \E rtl \in Wrong(ready[2], CpuStep(ready[2])) :
                     cpus' = <<CpuStep(ready[1]), rtl>>
      <4>1. PICK p \in Wrong(k, u) : cpus' = <<t, p>>
        BY <2>2, <2>5, <3>3
      <4> QED BY <3>3, <4>1
    <3> QED BY <3>1, <3>2, <3>3
  <2>8. PICK ds : ds = cpus'
    OBVIOUS
  <2>9. /\ ds = <<t, p>> /\ ds[1] = t /\ ds[2] = p /\ DOMAIN ds = 1 .. 2 /\ Len(ds) = 2
        /\ cpus'[1] = t /\ cpus'[2] = p
    BY <2>7, <2>8
  <2>10. /\ current' = cpus[1].sim.pcx /\ cycles' = cycles + 1
         /\ Observe(ready, cpus')
         /\ CASE Dead(cpus') # {}        -> Ends(cpus'[Min(Dead(cpus'))].sim.exit)
              [] Dead(cpus') = {} /\ StateMismatch(cpus') -> Ends("mismatch")
              [] OTHER                -> UNCHANGED <<phase, failure>>
    BY <1>5, <2>1 DEF StepCosim, GetPc
  <2>11. /\ trace' = Append(trace, t.sim.pcx)
         /\ image' = Watched(c, t, image)
    BY <2>2, <2>9, <2>10 DEF Observe, Watched
  <2>12. /\ Tracing'
         /\ t.sim.exit = "running" =>
              /\ Following' /\ SafeImage(image') /\ image' = ImageAfter(image, d, c.x1)
              /\ Runs(t.sim) /\ t.sim = Step(c.sim, d.instr, {}) /\ t.x1 = X1After(image, d, c.x1)
              /\ t.events = EventsAfter(c.events, d, c.x1, WordIn(image, d.address))
              /\ Laid(t, top, big) /\ Shows(t.mem, image') /\ t.x1[0] # Break0
    <3>1. UNCHANGED options /\ d = Next1(image, c.sim) /\ c.kind = cpus[1].kind
      BY <1>1, <1>3, <2>3, <2>6
    <3> QED BY <1>1, <1>2, <1>3, <2>3, <2>5, <2>9, <2>10, <2>11, <3>1, FirstStep
  <2>13. IsCpu(t) /\ t.kind = "sim" /\ Runs(t.sim)
    <3>1. /\ Runs(c.sim) /\ c.sim.exit = "running" /\ Shows(c.mem, image) /\ Laid(cpus[1], top, big)
      BY <1>2, <1>3, <2>3 DEF Running
    <3>2. Laid(c, top, big)
      BY <1>3, <2>3, <3>1, LaidSame
    <3> QED BY <2>3, <2>5, <3>1, <3>2, CpuStepFacts
  <2>14. ~ erred \/ k.kind = "rtl" =>
           /\ Opcode(k) = d
           /\ u.sim.exit = "running" =>
                /\ u.sim = Step(cpus[1].sim, d.instr, {}) /\ u.x1 = X1After(image, d, cpus[1].x1)
                /\ k.kind = "rtl" =>
                     u.events = EventsAfter(k.events, d, cpus[1].x1, WordIn(image, d.address))
                /\ Laid(u, top, big) /\ Shows(u.mem, ImageAfter(image, d, cpus[1].x1))
                /\ d.instr.op = "sw" => ~ AccessFails(u, d.address)
    BY <1>1, <1>2, <1>3, <1>5, <2>3, <2>5, <2>6, SecondStep
  <2>15. /\ Runs(k.sim) /\ k.sim.exit = "running"
         /\ IsCpu(u) /\ u.kind = k.kind /\ Runs(u.sim)
    <3>1. Runs(k.sim) /\ k.sim.exit = "running"
      BY <1>2, <1>3, <2>3 DEF Running
    <3> QED BY <2>3, <2>5, <3>1, CpuStepKept
  <2>16. /\ IsCpu(p) /\ p.kind = k.kind
         /\ \/ ~ erred /\ erred' /\ k.kind = "bench" /\ p = k
            \/ p.sim.exit = u.sim.exit /\ (p.sim.pcx = u.sim.pcx => p.sim = u.sim)
         /\ t.sim.exit \in {"running", "done", "error"}
         /\ p.sim.exit \in {"running", "done", "error"}
    <3>1. CASE p = u
      BY <2>13, <2>15, <3>1 DEF Runs
    <3>2. CASE ~ erred /\ erred' = TRUE /\ p \in Wrong(k, u)
      <4>1. /\ IsCpu(p) /\ p.kind = k.kind
            /\ \/ k.kind = "bench" /\ p = k
               \/ p.sim.exit = u.sim.exit /\ (p.sim.pcx = u.sim.pcx => p.sim = u.sim)
        BY <2>3, <2>15, <3>2, WrongKept
      <4> QED BY <2>13, <2>15, <3>2, <4>1 DEF Runs
    <3> QED BY <2>7, <3>1, <3>2
  <2>17. ShapeOf(ds)
    <3>1. ds = [j \in DOMAIN cpus |-> ds[j]]
      BY <1>3, <2>9
    <3>2. \A j \in DOMAIN cpus : IsCpu(ds[j]) /\ ds[j].kind = cpus[j].kind
      BY <1>3, <2>3, <2>9, <2>13, <2>16
    <3> QED BY <1>2, <3>1, <3>2, ShapeKept
  <2>18. Dead(ds) \subseteq 1 .. 2 /\ \A j \in 1 .. 2 : j \in Dead(ds) <=> ds[j].sim.exit # "running"
    BY <2>9 DEF Dead
  <2>19. ASSUME phase' = "ended", failure' \in {"done", "error", "mismatch"} PROVE HInv(top, big)'
    BY <2>12, <2>19 DEF HInv, Loading, Ended
  <2>20. CASE Dead(ds) # {}
    <3>1. PICK j : j = Min(Dead(ds))
      OBVIOUS
    <3>2. Dead(ds) \subseteq Nat
      BY <2>18
    <3>3. j \in Dead(ds)
      BY <2>20, <3>1, <3>2, LeastFacts
    <3>4. ds[j].sim.exit \in {"done", "error"}
      BY <2>9, <2>16, <2>18, <3>3
    <3>5. phase' = "ended" /\ failure' = ds[j].sim.exit
      BY <2>8, <2>10, <2>20, <3>1 DEF Ends
    <3> QED BY <2>19, <3>4, <3>5
  <2>21. CASE Dead(ds) = {} /\ StateMismatch(ds)
    <3>1. phase' = "ended" /\ failure' = "mismatch"
      BY <2>8, <2>10, <2>21 DEF Ends
    <3> QED BY <2>19, <3>1
  <2>22. CASE Dead(ds) = {} /\ ~ StateMismatch(ds)
    <3>1. phase' = "loop" /\ failure' = failure
      BY <1>1, <2>8, <2>10, <2>22
    <3>2. t.sim.exit = "running" /\ p.sim.exit = "running"
      BY <2>9, <2>18, <2>22
    <3>3. p.sim.pcx = t.sim.pcx /\ (k.kind = "rtl" => p.x1 = t.x1)
      <4>1. \A j \in DOMAIN ds :
              /\ ds[j].sim.pcx = ds[1].sim.pcx
              /\ ds[1].kind # "bench" /\ ds[j].kind # "bench" => ds[j].x1 = ds[1].x1
        <5>1. ~ StateMismatch(ds)
          BY <2>22
        <5> QED BY <5>1, Zenon DEF StateMismatch, GetRegValid
      <4>2. t.kind # "bench" /\ (k.kind = "rtl" => p.kind # "bench")
        BY <2>13, <2>16
      <4> QED BY <2>9, <4>1, <4>2
    <3>4. Runs(p.sim)
      <4>1. CASE p = k \/ p = u
        BY <2>15, <4>1
      <4>2. CASE p # k /\ p # u
        <5>1. p.sim.exit = u.sim.exit /\ (p.sim.pcx = u.sim.pcx => p.sim = u.sim)
          BY <2>16, <4>2
        <5>2. ~ erred /\ u.sim.exit = "running"
          BY <2>7, <3>2, <4>2, <5>1
        <5>3. u.sim = t.sim
          BY <2>3, <2>12, <2>14, <3>2, <5>2
        <5> QED BY <2>15, <3>3, <5>1, <5>3
      <4> QED BY <4>1, <4>2
    <3>5. ASSUME ~ erred' \/ k.kind = "rtl"
          PROVE  /\ p.sim = t.sim /\ p.x1 = t.x1 /\ Laid(p, top, big)
                 /\ ~ erred' /\ k.kind = "rtl" =>
                      p.events = t.events /\ \A kind \in EventKinds : Len(t.events[kind]) <= 1
                 /\ \/ Shows(p.mem, image')
                    \/ erred' /\ Apart(t.events["store"], p.events["store"], p.mem, image')
      <4>1. u.sim.exit = "running" /\ (~ erred \/ k.kind = "rtl")
        BY <2>7, <2>16, <3>2, <3>5
      <4>2. /\ u.sim = t.sim /\ u.x1 = t.x1 /\ Laid(u, top, big) /\ Shows(u.mem, image')
        BY <2>3, <2>12, <2>14, <3>2, <4>1
      <4>3. k.x1 = c.x1 /\ cpus[1].x1 = c.x1
        BY <1>1, <1>2, <2>3, <4>1 DEF Running, Paired
      <4>4. ~ erred /\ k.kind = "rtl" =>
              /\ u.events = t.events
              /\ t.events = EventsAfter(NoEvents, d, k.x1, WordIn(image, d.address))
              /\ \A kind \in EventKinds : Len(t.events[kind]) <= 1
        BY <2>4, <2>12, <2>14, <3>2, <4>1, <4>3, FewEvents
      <4>5. CASE p = u /\ erred' = erred
        BY <4>2, <4>4, <4>5
      <4>6. CASE ~ erred /\ erred' = TRUE /\ p \in Wrong(k, u)
        <5>1. k.kind = "rtl" /\ k.events = NoEvents
          BY <2>4, <3>5, <4>6
        <5>2. d.address \in Nat
          BY <2>6, DecodedFacts DEF Next1
        <5>3. u.events = EventsAfter(NoEvents, d, k.x1, WordIn(image, d.address))
          BY <4>4, <4>6, <5>1
        <5>4. image' = ImageAfter(image, d, k.x1)
          BY <2>12, <3>2, <4>3
        <5>5. (d.instr.op = "sw" => ~ AccessFails(u, d.address)) /\ d = Opcode(k)
          BY <2>14, <4>1
        <5>6. p.sim.pcx = u.sim.pcx /\ p.x1 = u.x1
          BY <3>3, <4>2, <5>1
        <5>7. PICK after : after = image'
          OBVIOUS
        <5>8. Shows(u.mem, after) /\ after = ImageAfter(image, d, k.x1)
          BY <4>2, <5>4, <5>7
        <5>9. /\ p.sim = u.sim /\ Laid(p, top, big)
              /\ Shows(p.mem, after) \/ Apart(u.events["store"], p.events["store"], p.mem, after)
          <6>1. Leaves(u, d, k.x1, after)
            BY <5>2, <5>3, <5>5, <5>8 DEF Leaves
          <6>2. IsCpu(k) /\ k.events = NoEvents /\ p \in Wrong(k, u)
            BY <2>3, <4>6, <5>1
          <6>3. IsCpu(u) /\ u.kind = "rtl" /\ Runs(u.sim) /\ Laid(u, top, big)
            BY <2>15, <4>2, <5>1
          <6> QED BY <5>1, <5>5, <5>6, <6>1, <6>2, <6>3, WrongFacts
        <5> QED BY <3>3, <4>2, <4>4, <4>6, <5>1, <5>7, <5>9
      <4> QED BY <2>7, <4>5, <4>6
    <3>7. Paired(top, big)'
      <4>1. Wronged' <=> erred' /\ Apart(t.events["store"], p.events["store"], p.mem, image')
        BY <2>9 DEF Wronged, Apart, Shows
      <4> QED BY <2>9, <2>16, <3>3, <3>5, <4>1 DEF Paired
    <3>8. Running(top, big)'
      <4>1. failure' = "none"
        BY <1>2, <3>1 DEF Running
      <4>2. \A j \in DOMAIN ds : Runs(ds[j].sim) /\ ds[j].sim.exit = "running"
        BY <2>9, <2>13, <3>2, <3>4
      <4>3. Laid(t, top, big) /\ Shows(t.mem, image') /\ t.x1[0] # Break0
        BY <2>12, <3>2
      <4> QED BY <2>8, <2>9, <3>7, <4>1, <4>2, <4>3 DEF Running
    <3>9. ShapeOf(cpus)' /\ SafeImage(image)' /\ Following'
      BY <2>8, <2>12, <2>17, <3>2 DEF ShapeOf, SafeImage
    <3> QED BY <2>12, <3>1, <3>8, <3>9 DEF HInv, Loading, Ended
  <2> QED BY <2>20, <2>21, <2>22
<1> QED BY <1>4, <1>5

---------------------------------------------------------------------------
(* The end of the loop, and the invariant of the specification.            *)

LEMMA AtExitInv ==
  ASSUME NEW top \in Nat, NEW big \in Nat, OrdinaryRun(top, big), HInv(top, big), AtExit
  PROVE  HInv(top, big)'
<1>1. /\ phase = "loop" /\ (~GoesOn \/ cycles = MaxSteps)
      /\ dump' = [a \in file.dump |-> Read(cpus[1].mem, a)]
      /\ phase' = "ended" /\ failure' = "none"
      /\ UNCHANGED <<file, options, cpus, section, current, cycles, erred, image, trace>>
  BY DEF AtExit, Ends
<1>2. ShapeOf(cpus) /\ SafeImage(image) /\ Running(top, big) /\ Following /\ Tracing
  BY <1>1 DEF HInv
<1>3. Tracing'
  BY <1>1, <1>2, TracingKept
<1>4. \A a \in file.dump \cap DOMAIN image : dump'[a] = image[a]
  <2>1. Shows(cpus[1].mem, image) /\ DOMAIN image \subseteq Nat
    BY <1>2 DEF Running, SafeImage
  <2> QED BY <1>1, <2>1 DEF Shows, Content
<1>5. BreakOrLimit \/ \E k \in DOMAIN trace : trace[k] = options.stop
  <2>1. PICK n : n = Len(trace)
    OBVIOUS
  <2>2. n \in Nat /\ DOMAIN trace = 1 .. n /\ cycles = n
    BY <1>2, <2>1, SeqFacts DEF Tracing
  <2>3. CASE current = options.stop
    <3>1. trace # <<>>
      BY <1>2, <2>3 DEF Following, OrdinaryRun
    <3>2. n # 0
      BY <1>2, <2>1, <3>1 DEF Tracing, IsSeq
    <3>3. current = trace[IF n = 1 THEN 1 ELSE n - 1]
      BY <1>2, <2>1, <3>1 DEF Following
    <3>4. PICK k : k = IF n = 1 THEN 1 ELSE n - 1
      OBVIOUS
    <3>5. k \in 1 .. n
      BY <2>2, <3>2, <3>4
    <3> QED BY <2>2, <2>3, <3>3, <3>4, <3>5
  <2>4. CASE GetStopped(cpus)
    BY <2>4 DEF BreakOrLimit
  <2>5. CASE LimitReached
    BY <2>1, <2>2, <2>5 DEF LimitReached, BreakOrLimit
  <2>6. CASE cycles = MaxSteps
    BY <2>1, <2>2, <2>6 DEF BreakOrLimit
  <2> QED BY <1>1, <2>3, <2>4, <2>5, <2>6 DEF GoesOn
<1>6. (BreakOrLimit \/ \E k \in DOMAIN trace : trace[k] = options.stop)'
  BY <1>1, <1>5 DEF BreakOrLimit, GetStopped
<1>7. Ended'
  BY <1>1, <1>4, <1>6 DEF Ended, Stopped
<1> QED BY <1>1, <1>3, <1>7 DEF HInv, Loading

LEMMA StutterInv ==
  ASSUME NEW top, NEW big, HInv(top, big), UNCHANGED hostVars
  PROVE  HInv(top, big)'
<1>1. UNCHANGED <<file, options, cpus, phase, section, current, cycles, failure, dump, erred, image, trace>>
  BY DEF hostVars
<1>2. Loading(top, big)'
  BY <1>1 DEF HInv, Loading, Hold
<1>3. phase' = "loop" => Running(top, big)' /\ Following'
  BY <1>1 DEF HInv, Running, Paired, Wronged, Following, Past
<1>4. Tracing'
  BY <1>1, TracingKept DEF HInv
<1>5. Ended'
  BY <1>1 DEF HInv, Ended, Stopped, BreakOrLimit, GetStopped
<1> QED BY <1>1, <1>2, <1>3, <1>4, <1>5 DEF HInv, ShapeOf, SafeImage

LEMMA HostInvariant ==
  ASSUME Sane
  PROVE  HostSpec => []HostInv
<1>1. HostInit => HostInv
  BY HostInitInv DEF HostInv
<1>2. HostInv /\ [HostNext]_hostVars => HostInv'
  <2> SUFFICES ASSUME HostInv, [HostNext]_hostVars, NEW top \in Nat, NEW big \in Nat,
                      OrdinaryRun(top, big)'
               PROVE  HInv(top, big)'
    BY DEF HostInv
  <2>1. UNCHANGED <<file, options>>
    BY DEF HostNext, hostVars, MakeMemory, LoadSection, Start, StepSim, StepCosim, AtExit
  <2>2. OrdinaryRun(top, big)
    BY <2>1 DEF OrdinaryRun, Segment
  <2>3. HInv(top, big)
    BY <2>2 DEF HostInv
  <2>4. CASE MakeMemory
    BY <2>2, <2>3, <2>4, MakeMemoryInv
  <2>5. CASE LoadSection
    BY <2>2, <2>3, <2>5, LoadSectionInv
  <2>6. CASE Start
    BY <2>2, <2>3, <2>6, StartInv
  <2>7. CASE StepSim
    BY <2>2, <2>3, <2>7, StepSimInv
  <2>8. CASE StepCosim
    BY <2>2, <2>3, <2>8, StepCosimInv
  <2>9. CASE AtExit
    BY <2>2, <2>3, <2>9, AtExitInv
  <2>10. CASE UNCHANGED hostVars
    BY <2>3, <2>10, StutterInv
  <2> QED BY <2>4, <2>5, <2>6, <2>7, <2>8, <2>9, <2>10 DEF HostNext
<1> QED BY <1>1, <1>2, PTL DEF HostSpec

---------------------------------------------------------------------------
(* The program sees the memory it was linked for (elf_load.cpp:55,         *)
(* riscv.cpp:291, testbench.h:114, cosim_api.cpp:283): in an ordinary run  *)
(* every byte and every whole word that was loaded or stored reads, in the *)
(* memory of each processor, as it was loaded or last stored, the dump     *)
(* holds the same, and only want of regions refuses a file.                *)
THEOREM MemoryIsProgramCorrect ==
  ASSUME Sane
  PROVE  HostSpec => [](Ordinary => MemoryIsProgram)
<1>1. HostInv => (Ordinary => MemoryIsProgram)
  <2> SUFFICES ASSUME HostInv, NEW top \in Nat, NEW big \in Nat, OrdinaryRun(top, big)
               PROVE  MemoryIsProgram
    BY DEF Ordinary
  <2>1. HInv(top, big)
    BY DEF HostInv
  <2>2. phase # "ended" => failure = "none"
    BY <2>1 DEF HInv, Loading, Running
  <2>3. /\ failure \notin {"write", "address"}
        /\ failure = "abort" => \E c \in DOMAIN cpus : Len(cpus[c].mem) = BenchRegions
        /\ failure = "allocate" => Len(cpus[1].mem) = MaxRegions
        /\ Reported("none") => \A a \in file.dump \cap DOMAIN image : dump[a] = image[a]
    BY <2>1, <2>2 DEF HInv, Ended, Reported
  <2>4. ASSUME phase = "loop", NEW c \in DOMAIN cpus, c = 1 \/ ~ erred
        PROVE  /\ \A a \in DOMAIN image : Read(cpus[c].mem, a) = image[a]
               /\ \A a \in WholeWords :
                     Word32(cpus[c], a) = [k \in 0 .. WordBytes - 1 |-> image[a + k]]
    <3>1. ShapeOf(cpus) /\ SafeImage(image) /\ Running(top, big)
      BY <2>1, <2>4 DEF HInv
    <3>2. PICK k : k = cpus[c]
      OBVIOUS
    <3>3. Laid(k, top, big) /\ Shows(k.mem, image)
      <4>1. CASE c = 1
        BY <3>1, <3>2, <4>1 DEF Running
      <4>2. CASE c # 1
        <5>1. c = 2 /\ Len(cpus) = 2 /\ ~ erred
          BY <2>4, <3>1, <4>2, ShapeFacts
        <5> QED BY <3>1, <3>2, <5>1 DEF Running, Paired, Wronged
      <4> QED BY <4>1, <4>2
    <3>4. DOMAIN image \subseteq Nat
      BY <3>1 DEF SafeImage
    <3>5. \A a \in DOMAIN image : Read(k.mem, a) = image[a]
      BY <3>3, <3>4 DEF Shows, Content
    <3>6. ASSUME NEW a \in WholeWords
          PROVE  Word32(k, a) = [j \in 0 .. WordBytes - 1 |-> image[a + j]]
      <4>1. a \in DOMAIN image /\ a % 4 = 0 /\ a .. a + WordBytes - 1 \subseteq DOMAIN image
        BY DEF WholeWords, WordBytes
      <4>2. a \in Nat
        BY <3>4, <4>1
      <4>3. Word32(k, a) = WordIn(image, a)
        BY <3>3, <4>1, <4>2, Word32Facts
      <4>4. \A j \in 0 .. WordBytes - 1 : a + j \in DOMAIN image
        BY <4>1, <4>2 DEF WordBytes
      <4> QED BY <4>3, <4>4 DEF WordIn, Content
    <3> QED BY <3>2, <3>5, <3>6
  <2> QED BY <2>3, <2>4 DEF MemoryIsProgram
<1> QED BY <1>1, HostInvariant, PTL

(* A run stops where it was told to, and nowhere else (riscv_main.cpp:     *)
(* 176): in an ordinary run at most one instruction follows the one at     *)
(* stop_pc, none a break, none max_cycles, and the memory is dumped for    *)
(* one of these reasons only.                                              *)
THEOREM StopsWhenToldCorrect ==
  ASSUME Sane
  PROVE  HostSpec => [](Ordinary => StopsWhenTold)
<1>1. HostInv => (Ordinary => StopsWhenTold)
  <2> SUFFICES ASSUME HostInv, NEW top \in Nat, NEW big \in Nat, OrdinaryRun(top, big)
               PROVE  StopsWhenTold
    BY DEF Ordinary
  <2>1. Tracing /\ Ended
    BY DEF HostInv, HInv
  <2>2. Len(trace) \in Nat /\ DOMAIN trace = 1 .. Len(trace)
    BY <2>1, SeqFacts DEF Tracing
  <2>3. ASSUME NEW k \in DOMAIN trace, WordAt(trace[k]) = WordOf("ebreak") PROVE Len(trace) = k
    <3> SUFFICES ASSUME Len(trace) # k PROVE FALSE
      OBVIOUS
    <3>1. k \in 1 .. Len(trace) - 1
      BY <2>2
    <3>2. Past(image, trace[k])
      BY <2>1, <3>1 DEF Tracing
    <3>3. AddressOf(trace[k]) \in {0, 4, 8} /\ image[AddressOf(trace[k])] # Break0
      BY <3>2, AddressFacts DEF Past
    <3>4. WordAt(trace[k])[0] = image[AddressOf(trace[k]) + 0] /\ WordOf("ebreak")[0] = Break0
      BY DEF WordAt, WordOf, WordBytes, Break0
    <3>5. AddressOf(trace[k]) + 0 = AddressOf(trace[k])
      BY <3>3
    <3> QED BY <2>3, <3>3, <3>4, <3>5
  <2>4. \A k \in DOMAIN trace : trace[k] = options.stop => Len(trace) <= k + 1
    BY <2>1, <2>2 DEF Tracing
  <2>5. options.max \notin {NoLimit, 0} => Len(trace) <= options.max
    BY <2>1 DEF Tracing
  <2>6. Reported("none") => BreakOrLimit \/ \E k \in DOMAIN trace : trace[k] = options.stop
    BY <2>1 DEF Ended, Stopped, Reported
  <2> QED BY <2>3, <2>4, <2>5, <2>6 DEF StopsWhenTold
<1> QED BY <1>1, HostInvariant, PTL

(* Processors that go different ways are told apart (cosim_api.cpp:111,    *)
(* :155): in an ordinary run the framework goes on only while both have    *)
(* executed the same instruction last; with the same result, if the second *)
(* shows its registers; and with memories that differ at most in the word  *)
(* of the store still to be compared, if it tells of its loads and stores. *)
THEOREM DivergenceReportedCorrect ==
  ASSUME Sane
  PROVE  HostSpec => [](Ordinary => DivergenceReported)
<1>1. HostInv => (Ordinary => DivergenceReported)
  <2> SUFFICES ASSUME HostInv, NEW top \in Nat, NEW big \in Nat, OrdinaryRun(top, big),
                      phase = "loop", Len(cpus) = 2
               PROVE  /\ cpus[2].sim.pcx = cpus[1].sim.pcx
                      /\ GetRegValid(cpus[2]) => cpus[2].x1 = cpus[1].x1
                      /\ PushesEvents(cpus[2]) =>
                           \A a \in DOMAIN image :
                             Read(cpus[1].mem, a) # Read(cpus[2].mem, a) =>
                               a \in Uncompared(1) \cup Uncompared(2)
    BY DEF Ordinary, DivergenceReported
  <2>1. ShapeOf(cpus) /\ SafeImage(image) /\ Running(top, big)
    BY DEF HostInv, HInv
  <2>2. /\ cpus[2].sim.pcx = cpus[1].sim.pcx /\ Shows(cpus[1].mem, image)
        /\ cpus[2].kind = "rtl" =>
             cpus[2].x1 = cpus[1].x1 /\ (Shows(cpus[2].mem, image) \/ Wronged)
    BY <2>1 DEF Running, Paired
  <2>3. DOMAIN cpus = 1 .. 2 /\ DOMAIN image \subseteq Nat /\ cpus[2].kind \in {"rtl", "bench"}
    BY <2>1, ShapeFacts DEF SafeImage, KindsAt
  <2>4. /\ GetRegValid(cpus[2]) => cpus[2].kind = "rtl"
        /\ PushesEvents(cpus[2]) => cpus[2].kind = "rtl"
    BY <2>3 DEF GetRegValid, PushesEvents
  <2>5. ASSUME PushesEvents(cpus[2]), NEW a \in DOMAIN image, Read(cpus[1].mem, a) # Read(cpus[2].mem, a)
        PROVE  a \in Uncompared(1)
    <3>1. a \in Nat /\ Read(cpus[1].mem, a) = Content(image, a)
      BY <2>2, <2>3 DEF Shows
    <3>2. Wronged
      BY <2>2, <2>4, <2>5, <3>1 DEF Shows
    <3>3. PICK b \in Nat : \E w, v : /\ cpus[1].events["store"] = <<<<b, w>>>>
                                     /\ Shows(cpus[2].mem, Over(Placing(b, v), image))
      BY <3>2 DEF Wronged, Apart
    <3>4. PICK w, v : /\ cpus[1].events["store"] = <<<<b, w>>>>
                      /\ Shows(cpus[2].mem, Over(Placing(b, v), image))
      BY <3>3
    <3>5. PICK f : f = Placing(b, v)
      OBVIOUS
    <3>6. DOMAIN f = b .. b + WordBytes - 1
      BY <3>5 DEF Placing
    <3>7. a \in DOMAIN f
      <4>1. Read(cpus[2].mem, a) = Content(Over(f, image), a)
        BY <3>1, <3>4, <3>5 DEF Shows
      <4>2. a \notin DOMAIN f => Content(Over(f, image), a) = Content(image, a)
        BY DEF Over, Content
      <4> QED BY <2>5, <3>1, <4>1, <4>2
    <3>8. PICK e : e = <<b, w>>
      OBVIOUS
    <3>9. PICK q : q = <<e>>
      OBVIOUS
    <3>10. cpus[1].events["store"] = q /\ q # <<>> /\ Last(q)[1] = b
      BY <3>4, <3>8, <3>9 DEF Last
    <3> QED BY <3>6, <3>7, <3>10 DEF Uncompared
  <2> QED BY <2>2, <2>4, <2>5
<1> QED BY <1>1, HostInvariant, PTL

===============================================================================
