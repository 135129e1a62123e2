------------------------- MODULE LedgerWriterProofs -------------------------
(***************************************************************************)
(* The invariant proof of LedgerWriter, for every number of calls, every   *)
(* queue and batch bound and every pattern of failures and crashes.  First *)
(* the lemmas: what LedgerWriter's operators on files return, preserve and *)
(* bound when they write, cut, heal and scan the day files.                *)
(***************************************************************************)
EXTENDS LedgerWriter, SequenceTheorems, FiniteSetTheorems, WellFoundedInduction, TLAPS

-----------------------------------------------------------------------------
(* Arithmetic and sequence facts *)

\* A non-empty set of naturals has a least element.
LEMMA LeastNat ==
  ASSUME NEW S \in SUBSET Nat, S # {}
  PROVE  \E m \in S : \A y \in S : m <= y
<1>1. \E m \in S : \A y \in S : ~(<<y, m>> \in OpToRel(<, Nat))
  BY NatLessThanWellFounded, WFMin, Zenon
<1>2. PICK m \in S : \A y \in S : ~(<<y, m>> \in OpToRel(<, Nat))
  BY <1>1
<1>3. \A y \in S : y < m => <<y, m>> \in OpToRel(<, Nat)
  BY Zenon DEF OpToRel
<1>4. \A y \in S : ~(y < m)
  BY <1>2, <1>3, Zenon
<1> QED
  BY <1>4

\* A non-empty bounded set of naturals has a greatest element.
LEMMA GreatestNat ==
  ASSUME NEW S \in SUBSET Nat, S # {}, NEW n \in Nat, \A x \in S : x <= n
  PROVE  \E m \in S : \A y \in S : y <= m
<1> DEFINE T == {n - x : x \in S}
<1>0. \A x \in S : n - x \in Nat
  OBVIOUS
<1>1. T \in SUBSET Nat /\ T # {}
  BY <1>0, Zenon
<1>2. PICK t \in T : \A y \in T : t <= y
  BY <1>1, LeastNat
<1>3. PICK m \in S : t = n - m
  OBVIOUS
<1>4. \A y \in S : n - m <= n - y
  BY <1>2, <1>3
<1> QED
  BY <1>4

\* Max is the greatest element of a set that has one.
LEMMA MaxIs ==
  ASSUME NEW S \in SUBSET Nat, NEW m \in S, \A y \in S : y <= m
  PROVE  Max(S) \in S /\ \A y \in S : y <= Max(S)
BY DEF Max

\* The first k elements of s have an upper bound.
Bounded(s, k) == \E m \in Nat : \A i \in 1..k : s[i] <= m

\* A sequence of naturals is bounded.
LEMMA SeqBounded ==
  ASSUME NEW s, NEW n \in Nat, \A i \in 1..n : s[i] \in Nat
  PROVE  Bounded(s, n)
<1> DEFINE U == {k \in 0..n : ~Bounded(s, k)}
<1>1. CASE U = {}
  BY <1>1
<1>2. CASE U # {}
  <2>0. U \in SUBSET Nat
    OBVIOUS
  <2>1. PICK k \in U : \A j \in U : k <= j
    BY <1>2, <2>0, LeastNat
  <2>2. Bounded(s, 0)
    BY 0 \in Nat DEF Bounded
  <2>3. k \in 1..n /\ k - 1 \in 0..n /\ ~(k <= k - 1)
    <3>1. k # 0 /\ k \in 0..n
      BY <2>1, <2>2
    <3> QED
      BY <3>1
  <2>4. Bounded(s, k - 1)
    BY <2>1, <2>3
  <2>5. PICK m \in Nat : \A i \in 1..(k - 1) : s[i] <= m
    BY <2>4 DEF Bounded
  <2>6. s[k] \in Nat
    BY <2>3
  <2>7. \A i \in 1..k : s[i] <= m + s[k] /\ m + s[k] \in Nat
    <3> SUFFICES ASSUME NEW i \in 1..k PROVE s[i] <= m + s[k] /\ m + s[k] \in Nat
      OBVIOUS
    <3>1. s[i] \in Nat /\ (i = k \/ i \in 1..(k - 1))
      BY <2>3
    <3> QED
      BY <2>5, <2>6, <3>1
  <2>8. m + s[k] \in Nat
    BY <2>6
  <2>9. Bounded(s, k)
    BY <2>7, <2>8 DEF Bounded
  <2> QED
    BY <2>1, <2>9
<1> QED
  BY <1>1, <1>2

\* A set of numbers read off a sequence has a greatest one, Max.
LEMMA PickedMax ==
  ASSUME NEW s, NEW n \in Nat, \A i \in 1..n : s[i] \in Nat, NEW I \in SUBSET (1..n)
  PROVE  LET S == {0} \cup {s[i] : i \in I}
         IN  Max(S) \in Nat /\ \A i \in I : s[i] <= Max(S)
<1> DEFINE S == {0} \cup {s[i] : i \in I}
<1>1. PICK m \in Nat : \A i \in 1..n : s[i] <= m
  BY SeqBounded DEF Bounded
<1>2. S \in SUBSET Nat /\ S # {} /\ \A i \in I : s[i] \in S
  OBVIOUS
<1>3. \A y \in S : y <= m
  BY <1>1
<1> HIDE DEF S
<1>4. PICK g \in S : \A y \in S : y <= g
  BY <1>2, <1>3, GreatestNat
<1>5. Max(S) \in S /\ \A y \in S : y <= Max(S)
  BY <1>2, <1>4, MaxIs
<1>6. Max(S) \in Nat /\ \A i \in I : s[i] <= Max(S)
  BY <1>2, <1>5
<1> QED
  BY <1>6 DEF S

\* SetToSeq lists a finite set.
LEMMA SetToSeqType ==
  ASSUME NEW S, IsFiniteSet(S)
  PROVE  SetToSeq(S) \in Seq(S)
<1>1. Cardinality(S) \in Nat /\ ExistsBijection(1..Cardinality(S), S)
  BY FS_CardinalityType, FS_Bijection
<1>2. \E f \in [1..Cardinality(S) -> S] : IsInjective(f)
  BY <1>1 DEF ExistsBijection, Bijection, Injection, Surjection, IsInjective
<1>3. SetToSeq(S) \in [1..Cardinality(S) -> S]
  BY <1>2, Zenon DEF SetToSeq
<1> QED
  BY <1>1, <1>3, IsASeq
-----------------------------------------------------------------------------
(* The files *)

\* No readable line of f is numbered above n.
Below(f, n) == \A i \in DOMAIN f : Readable(f, i) => f[i].seq <= n

\* The records the writer makes itself are records.
LEMMA RecTypes ==
  ASSUME NEW n \in Nat, NEW h \in HoleType
  PROVE  /\ NoteRec \in RecType /\ HoleRec(h) \in RecType /\ FoldRec(n) \in RecType
         /\ Rec("boot", NoCall, 0, 0) \in RecType
BY DEF NoteRec, HoleRec, FoldRec, Rec, RecType, HoleType

\* A line without a record has the type of a line.
LEMMA LineTypes ==
  /\ PartMark \in LineType
  /\ \A k \in {"frag", "torn", "corrupt", "blank"} :
       Mangled(k) \in LineType /\ Mangled(k).k = k
<1>1. NoteRec \in RecType
  BY DEF NoteRec, Rec, RecType
<1> QED
  BY <1>1 DEF PartMark, Mangled, Line, LineType

\* An item of a file.
LEMMA FileItem ==
  ASSUME NEW f \in Seq(LineType)
  PROVE  /\ Len(f) \in Nat /\ DOMAIN f = 1..Len(f)
         /\ \A i \in DOMAIN f :
              /\ i \in Nat /\ 1 <= i /\ i <= Len(f)
              /\ f[i] \in LineType /\ f[i].seq \in Nat /\ f[i].rec \in RecType
              /\ f[i].k \in {"line", "bare", "frag", "torn", "corrupt", "blank", "part"}
<1>1. Len(f) \in Nat /\ DOMAIN f = 1..Len(f) /\ \A i \in 1..Len(f) : f[i] \in LineType
  BY LenProperties, ElementOfSeq
<1>2. \A x \in LineType : /\ x.seq \in Nat /\ x.rec \in RecType
                          /\ x.k \in {"line", "bare", "frag", "torn", "corrupt", "blank", "part"}
  BY DEF LineType
<1> QED
  BY <1>1, <1>2

\* The scan's LastSeq is a number, and above every line if none was missed.
LEMMA SeenMaxBounds ==
  ASSUME NEW f \in Seq(LineType), NEW scan
  PROVE  SeenMax(f, scan) \in Nat /\ (scan.missed = {} => Below(f, SeenMax(f, scan)))
<1> DEFINE I == {j \in DOMAIN f : Readable(f, j) /\ j \notin scan.missed}
           s == [i \in 1..Len(f) |-> f[i].seq]
           S == {0} \cup {s[i] : i \in I}
<1>1. /\ Len(f) \in Nat /\ DOMAIN f = 1..Len(f) /\ I \in SUBSET (1..Len(f))
      /\ \A i \in 1..Len(f) : s[i] \in Nat /\ s[i] = f[i].seq
  BY FileItem
<1>2. SeenMax(f, scan) = Max(S)
  <2>1. {f[i].seq : i \in I} = {s[i] : i \in I}
    BY <1>1
  <2> QED
    BY <2>1 DEF SeenMax
<1> HIDE DEF s, I
<1>3. Max(S) \in Nat /\ \A i \in I : s[i] <= Max(S)
  BY <1>1, PickedMax
<1>4. scan.missed = {} => Below(f, Max(S))
  <2> HIDE DEF S
  <2> SUFFICES ASSUME scan.missed = {}, NEW i \in DOMAIN f, Readable(f, i)
               PROVE  f[i].seq <= Max(S)
    BY DEF Below
  <2>1. i \in I
    BY DEF I
  <2> QED
    BY <1>1, <1>3, <2>1
<1> QED
  BY <1>2, <1>3, <1>4

\* The scan's running number is a number.
LEMMA PrevSeqType ==
  ASSUME NEW f \in Seq(LineType), NEW i \in DOMAIN f
  PROVE  PrevSeq(f, i) \in Nat
<1>1. i \in Nat /\ i <= Len(f) /\ Len(f) \in Nat /\ DOMAIN f = 1..Len(f)
  BY FileItem
<1>2. \A j \in Before(f, i) : j \in Nat /\ j <= Len(f) /\ j \in DOMAIN f /\ f[j].seq \in Nat
  <2>1. \A j \in Before(f, i) : j \in DOMAIN f
    BY <1>1 DEF Before
  <2> QED
    BY <2>1, FileItem
<1>3. CASE Before(f, i) = {}
  BY <1>3 DEF PrevSeq
<1>4. CASE Before(f, i) # {}
  <2>1. Before(f, i) \in SUBSET Nat
    BY <1>2
  <2>2. PICK k \in Before(f, i) : \A j \in Before(f, i) : j <= k
    BY <1>1, <1>2, <1>4, <2>1, GreatestNat
  <2>3. Max(Before(f, i)) \in Before(f, i)
    BY <2>1, <2>2, MaxIs
  <2> QED
    BY <1>2, <1>4, <2>3 DEF PrevSeq
<1> QED
  BY <1>3, <1>4

\* The scan finds finitely many gaps and each is a range.
LEMMA GapsType ==
  ASSUME NEW f \in Seq(LineType), NEW blind
  PROVE  IsFiniteSet(Gaps(f, blind)) /\ Gaps(f, blind) \subseteq HoleType
<1> DEFINE I == {j \in DOMAIN f : /\ Readable(f, j) /\ PartOf(f, j) \notin blind
                                  /\ PrevSeq(f, j) # 0 /\ f[j].seq > PrevSeq(f, j) + 1}
           g == [i \in I |-> [from |-> PrevSeq(f, i) + 1, to |-> f[i].seq - 1]]
<1>1. \A i \in I : g[i] \in HoleType
  <2>1. \A i \in I : PrevSeq(f, i) \in Nat /\ f[i].seq \in Nat /\ f[i].seq > PrevSeq(f, i) + 1
    BY PrevSeqType, FileItem
  <2>2. \A i \in I : PrevSeq(f, i) + 1 \in Nat /\ f[i].seq - 1 \in Nat
    BY <2>1
  <2> QED
    BY <2>2 DEF HoleType
<1>2. IsFiniteSet(I)
  <2>1. Len(f) \in Nat /\ I \subseteq 1..Len(f)
    BY LenProperties
  <2>2. IsFiniteSet(1..Len(f))
    BY <2>1, FS_Interval
  <2> QED
    BY <2>1, <2>2, FS_Subset
<1>3. Gaps(f, blind) = {g[i] : i \in I}
  BY DEF Gaps
<1>4. g \in Surjection(I, Gaps(f, blind))
  BY <1>3 DEF Surjection
<1>5. IsFiniteSet(Gaps(f, blind))
  BY <1>2, <1>4, FS_Surjection DEF ExistsSurjection
<1> QED
  BY <1>1, <1>3, <1>5

\* The lines of g up to k are lines of f, or unreadable, and those above k are
\* the lines of b, d places down.
Joined(f, b, g, k, d) ==
  \A i \in DOMAIN g :
    IF i <= k THEN Readable(g, i) => i \in DOMAIN f /\ g[i] = f[i]
              ELSE (i - d) \in DOMAIN b /\ g[i] = b[i - d]

\* Every readable line of f is numbered above n.
Above(f, n) == \A i \in DOMAIN f : Readable(f, i) => f[i].seq > n

\* If b is numbered above f, then their join is in ascending order.
LEMMA JoinAscends ==
  ASSUME NEW f \in Seq(LineType), NEW b \in Seq(LineType), NEW g \in Seq(LineType),
         NEW n \in Nat, NEW m \in Nat, NEW k \in Nat, NEW d \in Int,
         Ascends(f), Ascends(b), Below(f, n), Below(b, m), n <= m, Above(b, n),
         Joined(f, b, g, k, d)
  PROVE  Ascends(g) /\ Below(g, m)
<1>0. \A i \in DOMAIN g : i \in Nat /\ g[i].seq \in Nat
  BY FileItem
<1>1. \A i \in DOMAIN g : (Readable(g, i) /\ i <= k) =>
            i \in DOMAIN f /\ Readable(f, i) /\ g[i].seq = f[i].seq
  BY DEF Joined, Readable
<1>2. \A i \in DOMAIN g : i > k => ~(i <= k)
  BY <1>0
<1>3. \A i \in DOMAIN g : (Readable(g, i) /\ i > k) =>
            (i - d) \in DOMAIN b /\ Readable(b, i - d) /\ g[i].seq = b[i - d].seq
  BY <1>2, Zenon DEF Joined, Readable
<1>4. ASSUME NEW i \in DOMAIN g, Readable(g, i)
      PROVE  g[i].seq <= m /\ (i <= k => g[i].seq <= n) /\ (i > k => g[i].seq > n)
  <2>1. CASE i <= k
    BY <1>0, <1>1, <1>4, <2>1 DEF Below
  <2>2. CASE i > k
    BY <1>0, <1>3, <1>4, <2>2 DEF Below, Above
  <2> QED
    BY <1>0, <2>1, <2>2
<1>5. ASSUME NEW i \in DOMAIN g, NEW j \in DOMAIN g, i < j, Readable(g, i), Readable(g, j)
      PROVE  g[i].seq < g[j].seq
  <2>1. CASE j <= k
    <3>1. i <= k
      BY <1>0, <1>5, <2>1
    <3> QED
      BY <1>1, <1>5, <2>1, <3>1 DEF Ascends
  <2>2. CASE i > k
    <3> DEFINE u == i - d
               v == j - d
    <3>1. j > k /\ u < v
      BY <1>0, <1>5, <2>2
    <3>2. u \in DOMAIN b /\ Readable(b, u) /\ g[i].seq = b[u].seq
      BY <1>3, <1>5, <2>2
    <3>3. v \in DOMAIN b /\ Readable(b, v) /\ g[j].seq = b[v].seq
      BY <1>3, <1>5, <3>1
    <3> HIDE DEF u, v
    <3> QED
      BY <3>1, <3>2, <3>3 DEF Ascends
  <2>3. CASE i <= k /\ j > k
    BY <1>0, <1>4, <1>5, <2>3
  <2> QED
    BY <1>0, <2>1, <2>2, <2>3
<1> QED
  BY <1>4, <1>5 DEF Ascends, Below

\* What a concatenation is, index by index.
LEMMA ConcatIndex ==
  ASSUME NEW S, NEW s \in Seq(S), NEW t \in Seq(S)
  PROVE  /\ s \o t \in Seq(S) /\ Len(s) \in Nat /\ Len(t) \in Nat
         /\ DOMAIN s = 1..Len(s) /\ DOMAIN t = 1..Len(t)
         /\ Len(s \o t) = Len(s) + Len(t) /\ DOMAIN (s \o t) = 1..(Len(s) + Len(t))
         /\ \A i \in DOMAIN (s \o t) :
              /\ i \in Nat /\ i >= 1
              /\ i <= Len(s) => i \in DOMAIN s /\ (s \o t)[i] = s[i]
              /\ i > Len(s) => (i - Len(s)) \in DOMAIN t /\ (s \o t)[i] = t[i - Len(s)]
<1>1. /\ s \o t \in Seq(S) /\ Len(s) \in Nat /\ Len(t) \in Nat
      /\ DOMAIN s = 1..Len(s) /\ DOMAIN t = 1..Len(t)
      /\ Len(s \o t) = Len(s) + Len(t)
  BY ConcatProperties, LenProperties
<1>2. DOMAIN (s \o t) = 1..(Len(s) + Len(t))
  BY <1>1, LenProperties
<1>3. \A i \in 1..(Len(s) + Len(t)) : (s \o t)[i] = IF i <= Len(s) THEN s[i] ELSE t[i - Len(s)]
  BY ConcatProperties
<1> QED
  BY <1>1, <1>2, <1>3

\* Writing b behind f joins the two, whether or not f ends in an open line.
LEMMA AppendedShape ==
  ASSUME NEW f \in Seq(LineType), NEW b \in Seq(LineType), NEW g \in Appended(f, b)
  PROVE  /\ g \in Seq(LineType) /\ Len(g) >= Len(f)
         /\ \E k \in Nat, d \in Int : Joined(f, b, g, k, d)
<1>0. Len(f) \in Nat /\ DOMAIN f = 1..Len(f) /\ Len(b) \in Nat /\ DOMAIN b = 1..Len(b)
  BY FileItem
<1>1. CASE Len(b) = 0
  <2>1. g = f
    BY <1>1 DEF Appended
  <2>2. Joined(f, b, f, Len(f), 0)
    BY <1>0 DEF Joined
  <2> QED
    BY <1>0, <2>1, <2>2
<1>2. CASE Len(b) # 0 /\ ~OpenTail(f)
  <2>1. g = f \o b
    BY <1>2 DEF Appended
  <2>2. Joined(f, b, g, Len(f), Len(f))
    BY <2>1, ConcatIndex DEF Joined
  <2>3. g \in Seq(LineType) /\ Len(g) = Len(f) + Len(b)
    BY <2>1, ConcatIndex
  <2> QED
    BY <1>0, <2>2, <2>3
<1>3. CASE Len(b) # 0 /\ OpenTail(f)
  <2> DEFINE h == SubSeq(f, 1, Len(f) - 1)
             t == Tail(b)
  <2>1. Len(f) > 0
    BY <1>3 DEF OpenTail
  <2>2. PICK x \in Glued(LastOf(f), Head(b)) : g = (h \o <<x>>) \o t
    BY <1>3 DEF Appended
  <2>3. x \in LineType /\ x.k \notin {"line", "bare"}
    BY <2>2, LineTypes DEF Glued
  <2>4. /\ h \in Seq(LineType) /\ Len(h) = Len(f) - 1
        /\ \A i \in 1..(Len(f) - 1) : h[i] = f[i]
    <3>1. \A i \in 1..(Len(f) - 1) : f[i] \in LineType
      BY <1>0, FileItem
    <3> QED
      BY <1>0, <2>1, <3>1, SubSeqProperties
  <2>5. /\ t \in Seq(LineType) /\ Len(t) = Len(b) - 1
        /\ \A i \in 1..(Len(b) - 1) : t[i] = b[i + 1]
    BY <1>0, <1>3, HeadTailProperties
  <2>6. <<x>> \in Seq(LineType) /\ Len(<<x>>) = 1 /\ <<x>>[1] = x
    BY <2>3
  <2> DEFINE q == h \o <<x>>
  <2> HIDE DEF h, t
  <2>7. /\ q \in Seq(LineType) /\ Len(q) = Len(f) /\ DOMAIN q = 1..Len(f)
        /\ \A i \in 1..Len(f) : (i < Len(f) => q[i] = f[i]) /\ (i = Len(f) => q[i] = x)
    <3>1. /\ q \in Seq(LineType) /\ Len(q) = Len(h) + 1 /\ DOMAIN q = 1..(Len(h) + 1)
          /\ \A i \in DOMAIN q : /\ i <= Len(h) => q[i] = h[i]
                                 /\ i > Len(h) => q[i] = <<x>>[i - Len(h)]
      BY <2>4, <2>6, ConcatIndex
    <3>2. Len(h) \in Nat /\ Len(h) + 1 = Len(f)
      BY <1>0, <2>1, <2>4
    <3> HIDE DEF q
    <3>3. \A i \in 1..Len(f) : i < Len(f) => i \in 1..(Len(f) - 1) /\ i <= Len(h)
      BY <3>2
    <3>4. Len(f) \in DOMAIN q /\ Len(f) > Len(h) /\ Len(f) - Len(h) = 1
      BY <3>1, <3>2
    <3> QED
      BY <2>4, <2>6, <3>1, <3>2, <3>3, <3>4
  <2> HIDE DEF q
  <2>8. /\ g \in Seq(LineType) /\ Len(g) = Len(f) + Len(t)
        /\ \A i \in DOMAIN g : /\ i \in Nat /\ i >= 1
                               /\ i <= Len(f) => i \in 1..Len(f) /\ g[i] = q[i]
                               /\ i > Len(f) => i - Len(f) \in 1..Len(t) /\ g[i] = t[i - Len(f)]
    <3>1. g = q \o t
      BY <2>2 DEF q
    <3>2. /\ q \o t \in Seq(LineType) /\ Len(q \o t) = Len(q) + Len(t)
          /\ \A i \in DOMAIN (q \o t) :
               /\ i \in Nat /\ i >= 1
               /\ i <= Len(q) => i \in DOMAIN q /\ (q \o t)[i] = q[i]
               /\ i > Len(q) => (i - Len(q)) \in DOMAIN t /\ (q \o t)[i] = t[i - Len(q)]
      <4>1. q \in Seq(LineType) /\ t \in Seq(LineType)
        BY <2>5, <2>7
      <4> QED
        BY ONLY <4>1, ConcatIndex
    <3>3. DOMAIN t = 1..Len(t) /\ Len(q) = Len(f) /\ DOMAIN q = 1..Len(f)
      BY <2>5, <2>7, LenProperties
    <3> QED
      BY <3>1, <3>2, <3>3
  <2>9. \A u \in 1..(Len(b) - 1) : u + 1 \in DOMAIN b
    BY <1>0
  <2>10. ASSUME NEW i \in DOMAIN g
         PROVE  IF i <= Len(f) THEN Readable(g, i) => i \in DOMAIN f /\ g[i] = f[i]
                ELSE (i - (Len(f) - 1)) \in DOMAIN b /\ g[i] = b[i - (Len(f) - 1)]
    <3>1. CASE i <= Len(f)
      <4>1. i \in 1..Len(f) /\ g[i] = q[i]
        BY <2>8, <3>1
      <4>2. CASE i = Len(f)
        BY <2>3, <2>7, <3>1, <4>1, <4>2 DEF Readable
      <4>3. CASE i # Len(f)
        <5>1. i < Len(f)
          BY <1>0, <4>1, <4>3
        <5> QED
          BY <1>0, <2>7, <3>1, <4>1, <5>1
      <4> QED
        BY <4>2, <4>3
    <3>2. CASE i > Len(f)
      <4> DEFINE u == i - Len(f)
      <4>1. u \in 1..(Len(b) - 1) /\ g[i] = t[u]
        BY <2>5, <2>8, <3>2
      <4>2. i - (Len(f) - 1) = u + 1
        BY <1>0, <2>8
      <4>3. ~(i <= Len(f))
        BY <1>0, <2>8, <3>2
      <4> HIDE DEF u
      <4> QED
        BY <2>5, <2>9, <4>1, <4>2, <4>3
    <3>3. i <= Len(f) \/ i > Len(f)
      BY <1>0, <2>8
    <3> QED
      BY <3>1, <3>2, <3>3
  <2>11. Joined(f, b, g, Len(f), Len(f) - 1)
    BY <2>10 DEF Joined
  <2>12. Len(f) - 1 \in Int /\ Len(g) >= Len(f)
    BY <1>0, <1>3, <2>5, <2>8
  <2> QED
    BY <1>0, <2>8, <2>11, <2>12
<1> QED
  BY <1>1, <1>2, <1>3

\* Writing lines numbered above a file's keeps it a file in ascending order.
LEMMA AppendedProps ==
  ASSUME NEW f \in Seq(LineType), NEW b \in Seq(LineType), NEW n \in Nat, NEW m \in Nat,
         Ascends(f), Ascends(b), Below(f, n), Below(b, m), n <= m,
         Above(b, n), NEW g \in Appended(f, b)
  PROVE  g \in Seq(LineType) /\ Ascends(g) /\ Below(g, m) /\ Len(g) >= Len(f)
<1>1. g \in Seq(LineType) /\ Len(g) >= Len(f)
  BY AppendedShape
<1>2. PICK k \in Nat, d \in Int : Joined(f, b, g, k, d)
  BY AppendedShape
<1>3. Ascends(g) /\ Below(g, m)
  BY <1>1, <1>2, JoinAscends
<1> QED
  BY <1>1, <1>3

\* A cut keeps whole items, and the torn piece it leaves keeps its number.
LEMMA CutProps ==
  ASSUME NEW b \in Seq(LineType), NEW n \in 0..Len(b), NEW p \in CutAt(b, n)
  PROVE  /\ p \in Seq(LineType) /\ n <= Len(p) /\ Len(p) <= Len(b)
         /\ \A i \in DOMAIN p :
              i \in DOMAIN b /\ (Readable(p, i) => Readable(b, i) /\ p[i].seq = b[i].seq)
<1> USE FileItem
<1> DEFINE s == SubSeq(b, 1, n)
<1>1. s \in Seq(LineType) /\ Len(s) = n /\ \A i \in 1..n : s[i] = b[i]
  BY SubSeqProperties
<1>2. CASE p = s
  BY <1>1, <1>2 DEF Readable
<1>3. CASE p # s
  <2>1. PICK t \in Tears : /\ n < Len(b) /\ b[n + 1].k = "line"
                           /\ p = s \o <<IF t = "bare" THEN [b[n + 1] EXCEPT !.k = "bare"]
                                         ELSE Mangled("frag")>>
    BY <1>3, Zenon DEF CutAt
  <2> DEFINE x == IF t = "bare" THEN [b[n + 1] EXCEPT !.k = "bare"] ELSE Mangled("frag")
  <2>2. b[n + 1] \in LineType
    BY <2>1
  <2>3. x \in LineType /\ (x.k \in {"line", "bare"} => x.seq = b[n + 1].seq)
    BY <2>2, LineTypes DEF LineType
  <2>4. p = s \o <<x>>
    BY <2>1
  <2> HIDE DEF x, s
  <2>5. /\ p \in Seq(LineType) /\ Len(p) = n + 1
        /\ \A i \in 1..(n + 1) : p[i] = IF i <= n THEN b[i] ELSE x
    BY <1>1, <2>3, <2>4
  <2>6. ASSUME NEW i \in DOMAIN p
        PROVE  i \in DOMAIN b /\ (Readable(p, i) => Readable(b, i) /\ p[i].seq = b[i].seq)
    <3>0. DOMAIN p = 1..(n + 1) /\ n \in Nat
      BY <2>5
    <3>1. CASE i <= n
      BY <2>5, <3>0, <3>1 DEF Readable
    <3>2. CASE i = n + 1
      <4>1. p[i] = x
        BY <2>5, <3>0, <3>2
      <4>0. i \in DOMAIN b
        BY <2>1, <3>2
      <4>2. Readable(b, i)
        BY <2>1, <3>2 DEF Readable
      <4> QED
        BY <2>3, <3>2, <4>0, <4>1, <4>2 DEF Readable
    <3> QED
      BY <3>0, <3>1, <3>2
  <2>7. n <= Len(p) /\ Len(p) <= Len(b)
    BY <2>1, <2>5
  <2> QED
    BY <2>5, <2>6, <2>7
<1> QED
  BY <1>2, <1>3

\* Healing keeps every readable line where it is, however much of it fails.
LEMMA HealProps ==
  ASSUME NEW f \in Seq(LineType), NEW h
  PROVE  /\ Heal(f, h) \in Seq(LineType) /\ Len(Heal(f, h)) = Len(f)
         /\ \A i \in DOMAIN f : Readable(Heal(f, h), i) =>
              Readable(f, i) /\ Heal(f, h)[i] = f[i]
<1> USE FileItem
<1>1. \A i \in DOMAIN f : Heal(f, h)[i] \in LineType
  BY LineTypes DEF Heal
<1>2. Heal(f, h) \in [1..Len(f) -> LineType]
  BY <1>1 DEF Heal
<1>3. Heal(f, h) \in Seq(LineType) /\ Len(Heal(f, h)) = Len(f)
  BY <1>2, IsASeq
<1>4. \A i \in DOMAIN f : Readable(Heal(f, h), i) => Heal(f, h)[i] = f[i]
  BY LineTypes DEF Heal, Readable
<1> QED
  BY <1>3, <1>4 DEF Readable

\* A batch's buffer is a run of consecutively numbered lines.
LEMMA EncodeProps ==
  ASSUME NEW b \in Seq(RecType), NEW n \in Nat
  PROVE  LET e == Encode(b, n + 1)
         IN  /\ e \in Seq(LineType) /\ Len(e) = Len(b)
             /\ Ascends(e) /\ Below(e, n + Len(b))
             /\ Above(e, n) /\ \A i \in DOMAIN e : e[i].k = "line"
<1> DEFINE e == Encode(b, n + 1)
<1>0. Len(b) \in Nat /\ \A i \in 1..Len(b) : b[i] \in RecType
  BY LenProperties, ElementOfSeq
<1>1. \A i \in 1..Len(b) : e[i] = [k |-> "line", seq |-> n + i, rec |-> b[i]]
  BY <1>0 DEF Encode, Line
<1>2. e \in [1..Len(b) -> LineType]
  <2>1. \A i \in 1..Len(b) : n + i \in Nat
    BY <1>0
  <2>2. \A i \in 1..Len(b) : [k |-> "line", seq |-> n + i, rec |-> b[i]] \in LineType
    BY <1>0, <2>1 DEF LineType
  <2>3. \A i \in 1..Len(b) : e[i] \in LineType
    BY <1>1, <2>2
  <2> QED
    BY <2>3 DEF Encode
<1>3. e \in Seq(LineType) /\ Len(e) = Len(b) /\ DOMAIN e = 1..Len(b)
  BY <1>0, <1>2, IsASeq, LenProperties
<1> HIDE DEF e
<1>4. Ascends(e) /\ Below(e, n + Len(b)) /\ Above(e, n) /\ \A i \in DOMAIN e : e[i].k = "line"
  BY <1>0, <1>1, <1>3 DEF Ascends, Below, Above, Readable
<1> QED
  BY <1>3, <1>4 DEF e

-----------------------------------------------------------------------------
(* Batches and queue entries *)

\* The records of a queue entry, and which of them are boot records.
LEMMA EntryRecsType ==
  ASSUME NEW e \in [c : Calls \cup {NoCall}, lo : Nat, hi : Nat]
  PROVE  /\ EntryRecs(e) \in Seq(RecType)
         /\ \A i \in DOMAIN EntryRecs(e) : EntryRecs(e)[i].t = "boot" => e.c = NoCall
<1>1. CASE e.c = NoCall
  BY <1>1 DEF EntryRecs, Rec, RecType
<1>2. CASE e.c # NoCall
  <2> DEFINE n == IF e.hi - e.lo + 1 \in Nat THEN e.hi - e.lo + 1 ELSE 0
             s == EntryRecs(e)
  <2>1. e.lo \in Nat /\ e.hi \in Nat /\ n \in Nat /\ 1..(e.hi - e.lo + 1) = 1..n
    OBVIOUS
  <2>2. s = [i \in 1..n |-> Rec("call", e.c, e.lo + i - 1, 0)]
    BY <1>2, <2>1 DEF EntryRecs
  <2>3. \A i \in 1..n : e.lo + i - 1 \in Nat
    BY <2>1
  <2>4. \A i \in 1..n : Rec("call", e.c, e.lo + i - 1, 0) \in RecType
    BY <2>3 DEF Rec, RecType
  <2> HIDE DEF n, s
  <2>5. s \in [1..n -> RecType]
    BY <2>2, <2>4
  <2>6. s \in Seq(RecType)
    BY <2>1, <2>5, IsASeq
  <2>7. \A i \in DOMAIN s : s[i].t = "call"
    BY <2>2 DEF Rec
  <2> QED
    BY <2>6, <2>7 DEF s
<1> QED
  BY <1>1, <1>2


-----------------------------------------------------------------------------
(* The inductive invariant *)

\* The counter is never behind a number that is on disk, unless a boot had to
\* open with a degraded index.
SeqBound == proc # "down" /\ ~idx.ever => Below(file, pendingSeq)

\* A batch past its write has had its numbers allocated.
BatchNumbered == pc \in {"fsync", "ack"} => Len(batch) <= pendingSeq

\* The writer serves a Rotate request that is still in its mailbox.
RotatePending ==
  (pc \in {"rotHouse", "reply"} \/ (pc \in {"flush", "fsync", "ack"} /\ then \in {"rotHouse", "reply"}))
     => rotateReq # <<>>

BootQueued == {i \in DOMAIN queue : queue[i].c = NoCall}

\* At most one boot record is under way, and it is one that is still owed.
BootOnce ==
  /\ \A i, j \in BootQueued : i = j
  /\ BootQueued # {} => notes > 0 /\ ~Carries("boot")
  /\ Carries("boot") => notes > 0

IInv ==
  /\ TypeOK
  /\ SeqsAscend
  /\ SeqBound
  /\ BatchNumbered
  /\ RotatePending
  /\ BootOnce

\* A step that leaves the files and the counter alone keeps what is said of them.
LEMMA FileKept ==
  ASSUME IInv, UNCHANGED <<file, pendingSeq, idx>>, proc' # "down" => proc # "down"
  PROVE  SeqsAscend' /\ SeqBound'
BY DEF IInv, SeqsAscend, SeqBound, Ascends, Below, Readable

\* A step that leaves the writer's position alone keeps what is said of it.
LEMMA WriterKept ==
  ASSUME IInv, UNCHANGED <<pc, then, batch, pendingSeq>>, rotateReq # <<>> => rotateReq' # <<>>
  PROVE  BatchNumbered' /\ RotatePending'
BY DEF IInv, BatchNumbered, RotatePending

\* A step that leaves the queue, the batch and the owed boot records alone.
LEMMA BootKept ==
  ASSUME IInv, UNCHANGED <<queue, batch, notes>>
  PROVE  BootOnce'
BY DEF IInv, BootOnce, BootQueued, Carries

-----------------------------------------------------------------------------
(* Producers and the life cycle *)

EntryType == [c : Calls \cup {NoCall}, lo : Nat, hi : Nat]

\* A group call hands the writer an entry of its own.
LEMMA ChunkType ==
  ASSUME TypeOK, NEW c \in Calls
  PROVE  Chunk(c) \in EntryType /\ Chunk(c).c # NoCall
<1>1. off[c] \in Nat /\ GroupSize[c] \in Nat /\ MaxBatch \in Nat /\ c # NoCall
  BY LedgerAssumption DEF TypeOK
<1>2. Min({off[c] + MaxBatch, GroupSize[c]}) \in Nat
  BY <1>1 DEF Min
<1> QED
  BY <1>1, <1>2 DEF Chunk, EntryType

\* A producer's step: only Send touches the queue, and never with a boot record.
LEMMA ProducerStep ==
  ASSUME IInv, NEW c \in Calls, Producer(c)
  PROVE  IInv'
<1> USE DEF producerFrame, callVars, rotVars, seqVars, dropVars, disk, env
<1>1. CASE Send(c)
  <2> USE <1>1 DEF Send
  <2>0. Chunk(c) \in EntryType /\ Chunk(c).c # NoCall /\ queue \in Seq(EntryType)
    BY ChunkType DEF IInv, TypeOK, EntryType
  <2>1. queue' \in Seq(EntryType)
    BY <2>0
  <2>2. TypeOK'
    BY <2>1 DEF IInv, TypeOK, EntryType
  <2>3. BootQueued' = BootQueued
    BY <2>0 DEF BootQueued
  <2>4. BootOnce'
    BY <2>3 DEF IInv, BootOnce, Carries
  <2> QED
    BY <2>2, <2>4, FileKept, WriterKept DEF IInv
<1>2. CASE Enter(c) \/ Block(c) \/ Refuse(c) \/ Cancel(c) \/ SendPanics(c)
  <2>1. ASSUME Enter(c) PROVE TypeOK'
    BY <2>1, SMTT(30) DEF Enter, IInv, TypeOK
  <2>2. ASSUME Block(c) PROVE TypeOK'
    BY <2>2 DEF Block, IInv, TypeOK
  <2>3. ASSUME Refuse(c) PROVE TypeOK'
    BY <2>3 DEF Refuse, IInv, TypeOK
  <2>4. ASSUME Cancel(c) PROVE TypeOK'
    BY <2>4 DEF Cancel, IInv, TypeOK
  <2>5. ASSUME SendPanics(c) PROVE TypeOK'
    BY <2>5 DEF SendPanics, IInv, TypeOK
  <2>6. TypeOK'
    BY <1>2, <2>1, <2>2, <2>3, <2>4, <2>5
  <2> QED
    BY <1>2, <2>6, FileKept, WriterKept, BootKept
    DEF IInv, Enter, Block, Refuse, Cancel, SendPanics
<1> QED
  BY <1>1, <1>2 DEF Producer

\* Rotate keeps the invariant.
LEMMA RotateStep ==
  ASSUME IInv, NEW r \in Rotators, Rotate(r)
  PROVE  IInv'
<1> USE DEF Rotate, callVars, seqVars, dropVars, disk, env
<1>0. rotateReq' \in Seq(Rotators) /\ rot' \in [Rotators -> {"idle", "sent", "done", "refused", "crashed"}]
  <2>1. rotateReq \in Seq(Rotators) /\ rot \in [Rotators -> {"idle", "sent", "done", "refused", "crashed"}]
    BY DEF IInv, TypeOK
  <2>2. rotateReq' = Append(rotateReq, r) \/ rotateReq' = rotateReq
    OBVIOUS
  <2>3. rotateReq' \in Seq(Rotators)
    BY ONLY <2>1, <2>2, r \in Rotators
  <2>4. rot' = [rot EXCEPT ![r] = "sent"] \/ rot' = [rot EXCEPT ![r] = "refused"]
    OBVIOUS
  <2> QED
    BY ONLY <2>1, <2>3, <2>4
<1>1. TypeOK'
  BY <1>0 DEF IInv, TypeOK
<1>2. rotateReq # <<>> => rotateReq' # <<>>
  BY DEF IInv, TypeOK
<1> QED
  BY <1>1, <1>2, FileKept, WriterKept, BootKept DEF IInv

\* Close does.
LEMMA CloseSteps ==
  ASSUME IInv, Close \/ CloseChannel \/ CloseDone
  PROVE  IInv'
<1> USE DEF callVars, rotVars, seqVars, dropVars, disk, env
<1>1. ASSUME Close PROVE TypeOK'
  BY <1>1 DEF Close, IInv, TypeOK
<1>2. ASSUME CloseChannel PROVE TypeOK'
  BY <1>2 DEF CloseChannel, IInv, TypeOK
<1>3. ASSUME CloseDone PROVE TypeOK'
  <2>1. head' \in Nat /\ faults' \in Nat
    BY <1>3 DEF CloseDone, IInv, TypeOK
  <2> QED
    BY <1>3, <2>1 DEF CloseDone, IInv, TypeOK
<1> USE DEF Close, CloseChannel, CloseDone
<1> QED
  BY <1>1, <1>2, <1>3, FileKept, WriterKept, BootKept DEF IInv

\* The boot note does.
LEMMA BootNoteStep ==
  ASSUME IInv, BootNote
  PROVE  IInv'
<1> USE DEF BootNote, callVars, rotVars, seqVars, dropVars, disk, env
<1>1. TypeOK'
  BY DEF IInv, TypeOK, BootEntry
<1>2. BootOnce'
  BY DEF IInv, BootOnce, BootQueued, Carries
<1> QED
  BY <1>1, <1>2, FileKept, WriterKept DEF IInv

-----------------------------------------------------------------------------
(* Open: recovery *)

\* The files with a torn line are finitely many.
LEMMA TornPartsFinite ==
  ASSUME NEW f \in Seq(LineType), NEW X
  PROVE  Cardinality(TornParts(f) \ X) \in Nat
<1> DEFINE g == [i \in TornAt(f) |-> PartOf(f, i)]
<1>1. Len(f) \in Nat /\ TornAt(f) \subseteq 1..Len(f)
  BY FileItem DEF TornAt
<1>2. IsFiniteSet(TornAt(f))
  <2>1. IsFiniteSet(1..Len(f))
    BY <1>1, FS_Interval
  <2> QED
    BY <1>1, <2>1, FS_Subset
<1>3. g \in Surjection(TornAt(f), TornParts(f))
  BY DEF Surjection, TornParts
<1>4. IsFiniteSet(TornParts(f))
  BY <1>2, <1>3, FS_Surjection DEF ExistsSurjection
<1>5. IsFiniteSet(TornParts(f) \ X)
  BY <1>4, FS_Subset
<1> QED
  BY <1>5, FS_CardinalityType

\* The recovery scan's results are numbers and ranges, and a scan of every line
\* ends above all of them.
LEMMA RecoveredTypes ==
  ASSUME TypeOK, NEW scan
  PROVE  /\ RecoveredSeq(scan) \in Nat
         /\ scan = Whole => Below(file, RecoveredSeq(scan))
         /\ RecoveredHoles(scan) \in Seq(HoleType)
<1> DEFINE m == SeenMax(file, scan)
<1>0. file \in Seq(LineType) /\ head \in Nat
  BY DEF TypeOK
<1>1. m \in Nat /\ (scan = Whole => Below(file, m))
  BY <1>0, SeenMaxBounds DEF Whole
<1> HIDE DEF m
<1>2. RecoveredSeq(scan) \in Nat /\ RecoveredSeq(scan) >= m
  <2> DEFINE T == {head, m}
  <2>1. T \in SUBSET Nat /\ \E x \in T : \A y \in T : y <= x
    BY <1>0, <1>1
  <2>2. Max(T) \in T /\ \A y \in T : y <= Max(T)
    BY <2>1, MaxIs
  <2> QED
    BY <1>0, <1>1, <2>2 DEF RecoveredSeq, m
<1>3. scan = Whole => Below(file, RecoveredSeq(scan))
  BY <1>0, <1>1, <1>2, FileItem DEF Below
<1> DEFINE S == {[from |-> m + 1, to |-> h] : h \in {h \in {head} : h > m /\ scan = Whole}}
<1>4. S \subseteq HoleType /\ S \subseteq {[from |-> m + 1, to |-> head]}
  BY <1>0, <1>1 DEF HoleType
<1>5. IsFiniteSet(S)
  <2>1. IsFiniteSet({[from |-> m + 1, to |-> head]})
    BY FS_Singleton
  <2> QED
    BY <1>4, <2>1, FS_Subset
<1> DEFINE G == Gaps(file, scan.blind)
<1>6. IsFiniteSet(G) /\ G \subseteq HoleType
  BY <1>0, GapsType
<1>8. RecoveredHoles(scan) = SetToSeq(G \cup S)
  BY DEF RecoveredHoles, m
<1> HIDE DEF S, G
<1>7. IsFiniteSet(G \cup S) /\ G \cup S \subseteq HoleType
  BY <1>4, <1>5, <1>6, FS_Union
<1>9. RecoveredHoles(scan) \in Seq(G \cup S)
  BY <1>7, <1>8, SetToSeqType
<1>10. RecoveredHoles(scan) \in Seq(HoleType)
  BY <1>7, <1>9, SeqMonotonic
<1> QED
  BY <1>2, <1>3, <1>10

\* What Open leaves on disk and in the writer: the readable lines where they
\* were, and a counter above them if the index is not degraded.
LEMMA OpenProps ==
  ASSUME TypeOK, Open
  PROVE  /\ file' \in Seq(LineType) /\ DOMAIN file' = DOMAIN file /\ synced' \in 0..Len(file')
         /\ \A i \in DOMAIN file : Readable(file', i) => Readable(file, i) /\ file'[i] = file[i]
         /\ ~idx'.degraded => Below(file', pendingSeq')
         /\ idx' \in [degraded : BOOLEAN, ever : BOOLEAN] /\ (~idx'.ever => ~idx.ever /\ ~idx'.degraded)
         /\ pendingSeq' \in Nat /\ lastSeq' \in Nat /\ holes' \in Seq(HoleType)
         /\ notes' \in Nat /\ notes' > 0 /\ faults' \in Nat /\ cur' \in BOOLEAN
<1>0. file \in Seq(LineType) /\ synced \in 0..Len(file) /\ faults \in Nat /\ head \in Nat
  BY DEF TypeOK
<1>1. PICK scan \in Scans(file) : \E h \in Heals(file, scan.blind), c \in BOOLEAN :
       /\ Recover(scan, h)
       /\ cur' = c /\ (~c => "open" \in IOFaults)
       /\ faults' = faults + (IF scan # Whole THEN 1 ELSE 0) + (IF h.failed THEN 1 ELSE 0) + (IF c THEN 0 ELSE 1)
  BY DEF Open
<1>2. PICK h \in Heals(file, scan.blind), c \in BOOLEAN :
       /\ Recover(scan, h) /\ cur' = c
       /\ faults' = faults + (IF scan # Whole THEN 1 ELSE 0) + (IF h.failed THEN 1 ELSE 0) + (IF c THEN 0 ELSE 1)
  BY <1>1
<1>3. faults' \in Nat /\ cur' \in BOOLEAN
  <2> DEFINE x == IF scan # Whole THEN 1 ELSE 0
             y == IF h.failed THEN 1 ELSE 0
             z == IF c THEN 0 ELSE 1
  <2>1. x \in Nat /\ y \in Nat /\ z \in Nat
    OBVIOUS
  <2>2. faults' = faults + x + y + z /\ cur' \in BOOLEAN
    BY <1>2
  <2> HIDE DEF x, y, z
  <2> QED
    BY <1>0, <2>1, <2>2
<1>4. /\ file' = Heal(file, h)
      /\ synced' = Len(file) \/ synced' = synced
      /\ idx' = [degraded |-> scan # Whole \/ h.failed, ever |-> idx.ever \/ (scan # Whole \/ h.failed)]
      /\ pendingSeq' = RecoveredSeq(scan) /\ lastSeq' = RecoveredSeq(scan)
      /\ holes' = RecoveredHoles(scan)
      /\ notes' = Cardinality(TornParts(file) \ (scan.blind \cup h.silent))
                + (IF scan.blind # {} THEN 1 ELSE 0)
                + (IF head > SeenMax(file, scan) THEN 1 ELSE 0) + 1
  BY <1>2 DEF Recover
<1>5. /\ Heal(file, h) \in Seq(LineType) /\ Len(Heal(file, h)) = Len(file)
      /\ \A i \in DOMAIN file : Readable(Heal(file, h), i) =>
              Readable(file, i) /\ Heal(file, h)[i] = file[i]
  BY <1>0, HealProps
<1>6. file' \in Seq(LineType) /\ DOMAIN file' = DOMAIN file /\ synced' \in 0..Len(file')
  BY <1>0, <1>4, <1>5, FileItem
<1>7. \A i \in DOMAIN file : Readable(file', i) => Readable(file, i) /\ file'[i] = file[i]
  BY <1>4, <1>5
<1>8. h.failed \in BOOLEAN
  <2>1. h.failed = TRUE \/ h.failed = FALSE
    BY <1>2 DEF Heals
  <2> QED
    BY <2>1, Zenon
<1>9. /\ idx' \in [degraded : BOOLEAN, ever : BOOLEAN]
      /\ ~idx'.ever => ~idx.ever /\ ~idx'.degraded
      /\ ~idx'.degraded => scan = Whole
  <2>1. idx.ever \in BOOLEAN
    BY DEF TypeOK
  <2> QED
    BY <1>4, <1>8, <2>1
<1>10. ~idx'.degraded => Below(file', pendingSeq')
  <2>1. scan = Whole => Below(file, RecoveredSeq(scan))
    BY RecoveredTypes
  <2> QED
    BY <1>4, <1>6, <1>7, <1>9, <2>1 DEF Below
<1>11. pendingSeq' \in Nat /\ lastSeq' \in Nat /\ holes' \in Seq(HoleType)
  BY <1>4, RecoveredTypes
<1>12. notes' \in Nat /\ notes' > 0
  <2> DEFINE n == Cardinality(TornParts(file) \ (scan.blind \cup h.silent))
             x == IF scan.blind # {} THEN 1 ELSE 0
             y == IF head > SeenMax(file, scan) THEN 1 ELSE 0
  <2>1. n \in Nat
    BY <1>0, TornPartsFinite
  <2>2. x \in Nat /\ y \in Nat
    OBVIOUS
  <2>3. notes' = n + x + y + 1
    BY <1>4
  <2> HIDE DEF n, x, y
  <2> QED
    BY <2>1, <2>2, <2>3
<1> QED
  BY <1>3, <1>6, <1>7, <1>9, <1>10, <1>11, <1>12

\* Recovery at Open does.
LEMMA OpenStep ==
  ASSUME IInv, Open
  PROVE  IInv'
<1>0. TypeOK /\ SeqsAscend
  BY DEF IInv
<1>1. /\ proc' = "boot" /\ pc' = "select"
      /\ UNCHANGED <<callVars, rotVars, queue, chClosed, batch, batchN, then, degraded,
                     dropVars, head, crashes>>
  BY DEF Open
<1>2. SeqsAscend' /\ SeqBound'
  BY <1>0, OpenProps DEF SeqsAscend, SeqBound, Ascends
<1>3. notes' > 0
  BY <1>0, OpenProps
<1>9. TypeOK'
  BY <1>0, <1>1, OpenProps DEF TypeOK, callVars, rotVars, dropVars
<1>10. BatchNumbered' /\ RotatePending'
  BY <1>1 DEF BatchNumbered, RotatePending
<1>11. BootOnce'
  BY <1>1, <1>3 DEF IInv, BootOnce, BootQueued, Carries
<1> QED
  BY <1>2, <1>9, <1>10, <1>11 DEF IInv

-----------------------------------------------------------------------------
(* The writer's loop *)

\* Boundary records are records, and none of them is a boot record.
LEMMA HouseType ==
  ASSUME TypeOK, NEW over, NEW roll
  PROVE  /\ House(over, roll) \in Seq(RecType)
         /\ \A i \in DOMAIN House(over, roll) : House(over, roll)[i].t # "boot"
<1> DEFINE R == {x \in RecType : x.t # "boot"}
           h == [i \in 1..Len(holes) |-> HoleRec(holes[i])]
           a == IF over /\ ~degraded THEN <<NoteRec>> ELSE <<>>
           b == IF roll \in {"rolled", "failed", "lost"} THEN <<NoteRec>> ELSE <<>>
           d == IF dropN > 0 THEN <<FoldRec(dropN)>> ELSE <<>>
<1>1. NoteRec \in R
  BY DEF NoteRec, Rec, RecType
<1>2. dropN \in Nat
  BY DEF TypeOK
<1>3. FoldRec(dropN) \in R
  BY <1>2 DEF FoldRec, Rec, RecType
<1>4. Len(holes) \in Nat /\ \A i \in 1..Len(holes) : holes[i] \in HoleType
  BY LenProperties, ElementOfSeq DEF TypeOK
<1>5. \A x \in HoleType : HoleRec(x) \in R
  BY DEF HoleRec, Rec, RecType, HoleType
<1> HIDE DEF R
<1>6. h \in Seq(R)
  <2>1. h \in [1..Len(holes) -> R]
    BY <1>4, <1>5
  <2> QED
    BY <1>4, <2>1, IsASeq
<1>7. a \in Seq(R) /\ b \in Seq(R) /\ d \in Seq(R)
  BY <1>1, <1>3
<1>8. House(over, roll) = a \o b \o h \o d
  BY DEF House
<1> HIDE DEF a, b, h, d
<1>9. House(over, roll) \in Seq(R)
  <2>1. a \o b \in Seq(R)
    BY <1>7
  <2>2. a \o b \o h \in Seq(R)
    BY <1>6, <2>1
  <2> QED
    BY <1>7, <1>8, <2>2
<1>10. R \subseteq RecType /\ \A x \in R : x.t # "boot"
  BY DEF R
<1> QED
  BY <1>9, <1>10, SeqMonotonic, ElementOfSeq, LenProperties

\* The file level of a batch boundary keeps the files in order.
LEMMA RollFileProps ==
  ASSUME IInv, Alive, NEW roll, RollFile(roll), UNCHANGED <<pendingSeq, idx>>
  PROVE  /\ SeqsAscend' /\ (~idx.ever => Below(file', pendingSeq))
         /\ file' \in Seq(LineType) /\ synced' \in 0..Len(file')
         /\ faults' \in Nat /\ cur' \in BOOLEAN
<1>0. /\ file \in Seq(LineType) /\ synced \in 0..Len(file) /\ (~idx.ever => Ascends(file)) /\ faults \in Nat
      /\ (~idx.ever => Below(file, pendingSeq)) /\ Len(file) \in Nat /\ DOMAIN file = 1..Len(file)
      /\ cur \in BOOLEAN
  BY FileItem DEF IInv, TypeOK, SeqsAscend, SeqBound, Alive
<1>1. /\ file' = file \/ (file' = Append(file, PartMark) /\ synced' = Len(file) + 1)
      /\ file' = file => synced' = synced \/ synced' = Len(file)
      /\ faults' = faults \/ faults' = faults + 1
      /\ cur' = cur \/ cur' = TRUE \/ cur' = FALSE \/ cur' = (roll = "failed")
  BY DEF RollFile, Fault
<1>2. cur' \in BOOLEAN
  BY <1>0, <1>1, Zenon
<1>3. faults' \in Nat
  BY <1>0, <1>1
<1>4. CASE file' = file
  BY <1>0, <1>1, <1>2, <1>3, <1>4 DEF SeqsAscend
<1>5. CASE file' = Append(file, PartMark) /\ synced' = Len(file) + 1
  <2>1. PartMark \in LineType /\ PartMark.k = "part"
    BY LineTypes DEF PartMark, Line
  <2>2. /\ file' \in Seq(LineType) /\ Len(file') = Len(file) + 1
        /\ DOMAIN file' = 1..(Len(file) + 1)
        /\ \A i \in 1..(Len(file) + 1) : file'[i] = IF i <= Len(file) THEN file[i] ELSE PartMark
    BY <1>0, <1>5, <2>1, AppendProperties
  <2>3. \A i \in DOMAIN file' : Readable(file', i) =>
           i \in DOMAIN file /\ Readable(file, i) /\ file'[i] = file[i]
    BY <1>0, <2>1, <2>2 DEF Readable
  <2>4. SeqsAscend'
    BY <1>0, <2>3 DEF SeqsAscend, Ascends
  <2>5. ~idx.ever => Below(file', pendingSeq)
    BY <1>0, <2>3 DEF Below
  <2> QED
    BY <1>0, <1>2, <1>3, <1>5, <2>2, <2>4, <2>5
<1> QED
  BY <1>1, <1>4, <1>5

\* Receiving the head of the queue: what is left of it, and its records.
LEMMA ReceivedProps ==
  ASSUME IInv, queue # <<>>
  PROVE  /\ Tail(queue) \in Seq(EntryType) /\ Head(queue) \in EntryType
         /\ DOMAIN queue = 1..Len(queue) /\ Len(queue) \in Nat \ {0}
         /\ DOMAIN Tail(queue) = 1..(Len(queue) - 1)
         /\ \A i \in 1..(Len(queue) - 1) : Tail(queue)[i] = queue[i + 1]
         /\ Head(queue) = queue[1]
<1>1. queue \in Seq(EntryType)
  BY DEF IInv, TypeOK, EntryType
<1> QED
  BY <1>1, HeadTailProperties, LenProperties

\* A batch q followed by an entry's records: the boot bookkeeping.
LEMMA RecvBoot ==
  ASSUME IInv, queue # <<>>, notes' = notes, queue' = Tail(queue),
         NEW q \in Seq(RecType), batch' = q \o EntryRecs(Head(queue)),
         \/ q = batch
         \/ batch = <<>> /\ \A i \in DOMAIN q : q[i].t # "boot"
  PROVE  BootOnce' /\ batch' \in Seq(RecType)
<1> DEFINE e == EntryRecs(Head(queue))
<1>1. /\ e \in Seq(RecType)
      /\ \A i \in DOMAIN e : e[i].t = "boot" => queue[1].c = NoCall
  BY ReceivedProps, EntryRecsType DEF EntryType
<1> HIDE DEF e
<1>2. /\ batch' \in Seq(RecType)
      /\ \A i \in DOMAIN batch' :
           batch'[i].t = "boot" => (\E k \in DOMAIN q : q[k].t = "boot") \/ queue[1].c = NoCall
  <2>1. batch' = q \o e
    BY DEF e
  <2>2. /\ q \o e \in Seq(RecType)
        /\ \A i \in DOMAIN (q \o e) :
             /\ i \in Nat
             /\ i <= Len(q) => i \in DOMAIN q /\ (q \o e)[i] = q[i]
             /\ i > Len(q) => (i - Len(q)) \in DOMAIN e /\ (q \o e)[i] = e[i - Len(q)]
    BY ONLY <1>1, q \in Seq(RecType), ConcatIndex
  <2>3. Len(q) \in Nat
    BY LenProperties
  <2>4. ASSUME NEW i \in DOMAIN batch', batch'[i].t = "boot"
        PROVE  (\E k \in DOMAIN q : q[k].t = "boot") \/ queue[1].c = NoCall
    <3>1. CASE i <= Len(q)
      BY <2>1, <2>2, <2>4, <3>1
    <3>2. CASE i > Len(q)
      BY <1>1, <2>1, <2>2, <2>4, <3>2
    <3> QED
      BY <2>1, <2>2, <2>3, <3>1, <3>2
  <2> QED
    BY <2>1, <2>2, <2>4
<1>3. Carries("boot")' => Carries("boot") \/ queue[1].c = NoCall
  BY <1>2 DEF Carries
<1>4. \A i \in BootQueued' : i + 1 \in BootQueued /\ i \in Nat /\ i + 1 # 1
  BY ReceivedProps DEF BootQueued
<1>5. queue[1].c = NoCall => 1 \in BootQueued
  BY ReceivedProps DEF BootQueued
<1>6. \A i, j \in BootQueued' : i = j
  BY <1>4 DEF IInv, BootOnce
<1>7. BootQueued' # {} => notes' > 0 /\ ~Carries("boot")'
  BY <1>3, <1>4, <1>5 DEF IInv, BootOnce
<1>8. Carries("boot")' => notes' > 0
  BY <1>3, <1>5 DEF IInv, BootOnce
<1> QED
  BY <1>2, <1>6, <1>7, <1>8 DEF BootOnce

\* Taking a request does.
LEMMA RecvStep ==
  ASSUME IInv, Recv
  PROVE  IInv'
<1> USE DEF Recv, callVars, rotVars, seqVars
<1>0. /\ queue # <<>> /\ queue' = Tail(queue) /\ notes' = notes /\ pendingSeq' = pendingSeq
      /\ Alive /\ proc' = proc /\ idx' = idx /\ pc' \in {"flush", "select"} /\ then' = "select"
  OBVIOUS
<1>t. TypeOK /\ SeqsAscend
  BY DEF IInv
<1>1. CASE batch = <<>>
  <2>1. PICK over \in DiskOver \cup {degraded}, roll \in Rolls :
             /\ BeforeBatch(over, roll)
             /\ batch' = House(over, roll) \o EntryRecs(Head(queue))
             /\ batchN' = Len(House(over, roll)) + 1
    BY <1>1
  <2>2. /\ House(over, roll) \in Seq(RecType)
        /\ \A i \in DOMAIN House(over, roll) : House(over, roll)[i].t # "boot"
    BY <1>t, HouseType
  <2>3. BootOnce' /\ batch' \in Seq(RecType)
    BY <1>0, <1>1, <2>1, <2>2, RecvBoot
  <2>4. batchN' \in Nat
    BY <2>1, <2>2, LenProperties
  <2>5. /\ SeqsAscend' /\ (~idx.ever => Below(file', pendingSeq))
        /\ file' \in Seq(LineType) /\ synced' \in 0..Len(file')
        /\ faults' \in Nat /\ cur' \in BOOLEAN
    BY <1>0, <2>1, RollFileProps DEF BeforeBatch
  <2>6. degraded' \in BOOLEAN
    BY <1>t, <2>1, LedgerAssumption DEF BeforeBatch, TypeOK
  <2>7. holes' \in Seq(HoleType) /\ dropN' \in Nat
    BY <2>1 DEF BeforeBatch
  <2>8. queue' \in Seq(EntryType)
    BY <1>0, ReceivedProps
  <2>9. TypeOK'
    BY <1>t, <1>0, <2>3, <2>4, <2>5, <2>6, <2>7, <2>8 DEF TypeOK, EntryType
  <2> QED
    BY <1>0, <2>3, <2>5, <2>9 DEF IInv, SeqBound, BatchNumbered, RotatePending
<1>2. CASE batch # <<>>
  <2>1. /\ batch' = batch \o EntryRecs(Head(queue)) /\ batchN' = batchN + 1
        /\ UNCHANGED <<file, synced, cur, faults, degraded, holes, dropN>>
    BY <1>2
  <2>2. BootOnce' /\ batch' \in Seq(RecType)
    <3>1. batch \in Seq(RecType)
      BY <1>t DEF TypeOK
    <3> QED
      BY <1>0, <2>1, <3>1, RecvBoot
  <2>3. queue' \in Seq(EntryType)
    BY <1>0, ReceivedProps
  <2>4. TypeOK'
    BY <1>t, <1>0, <2>1, <2>2, <2>3 DEF TypeOK, EntryType
  <2> QED
    BY <1>0, <2>1, <2>2, <2>4, FileKept DEF IInv, BatchNumbered, RotatePending
<1> QED
  BY <1>1, <1>2

\* The timer, the drained channel and a rotation request do.
LEMMA LoopSteps ==
  ASSUME IInv, Timer \/ Drained \/ RotateReceived
  PROVE  IInv'
<1> USE DEF Timer, Drained, RotateReceived, keepBoundary, loopFrame, callVars, rotVars, seqVars
<1>1. /\ UNCHANGED <<batch, batchN, rotVars, keepBoundary, loopFrame>>
      /\ pc' \in {"select", "house", "rotHouse", "flush"}
      /\ pc' = "flush" => then' \in {"select", "house", "rotHouse"}
      /\ pc' # "flush" => then' = then
      /\ (pc' = "rotHouse" \/ (pc' = "flush" /\ then' = "rotHouse")) => rotateReq # <<>>
  BY DEF FlushThen
<1>2. TypeOK'
  BY <1>1 DEF IInv, TypeOK
<1>3. BatchNumbered' /\ RotatePending'
  BY <1>1 DEF BatchNumbered, RotatePending
<1> QED
  BY <1>1, <1>2, <1>3, FileKept, BootKept DEF IInv

\* The writer's own batch does.
LEMMA HouseBatchStep ==
  ASSUME IInv, HouseBatch
  PROVE  IInv'
<1> USE DEF HouseBatch, loopFrame, callVars, rotVars, seqVars
<1>t. TypeOK /\ SeqsAscend
  BY DEF IInv
<1>1. PICK over \in DiskOver \cup {degraded}, roll \in Rolls :
        /\ BeforeBatch(over, roll)
        /\ batch' = House(over, roll)
        /\ batchN' = Len(House(over, roll))
        /\ LET t == IF pc = "house" THEN "exit" ELSE "reply"
           IN IF House(over, roll) = <<>> THEN pc' = t /\ UNCHANGED then
              ELSE pc' = "flush" /\ then' = t
  OBVIOUS
<1>2. /\ UNCHANGED <<rotVars, loopFrame>> /\ Alive /\ pc \in {"house", "rotHouse"}
  OBVIOUS
<1>3. /\ House(over, roll) \in Seq(RecType)
      /\ \A i \in DOMAIN House(over, roll) : House(over, roll)[i].t # "boot"
  BY <1>t, HouseType
<1>4. batch' \in Seq(RecType) /\ batchN' \in Nat /\ ~Carries("boot")'
  BY <1>1, <1>3, LenProperties DEF Carries
<1>5. /\ SeqsAscend' /\ (~idx.ever => Below(file', pendingSeq))
      /\ file' \in Seq(LineType) /\ synced' \in 0..Len(file')
      /\ faults' \in Nat /\ cur' \in BOOLEAN
  BY <1>1, <1>2, RollFileProps DEF BeforeBatch
<1>6. degraded' \in BOOLEAN
  BY <1>t, <1>1, LedgerAssumption DEF BeforeBatch, TypeOK
<1>7. holes' \in Seq(HoleType) /\ dropN' \in Nat
  BY <1>1 DEF BeforeBatch
<1>8. /\ pc' \in {"exit", "reply", "flush"}
      /\ pc' = "flush" => then' \in {"exit", "reply"}
      /\ pc' # "flush" => then' = then
      /\ (pc' = "reply" \/ (pc' = "flush" /\ then' = "reply")) => pc = "rotHouse"
  BY <1>1, <1>2
<1>9. TypeOK'
  BY <1>t, <1>2, <1>4, <1>5, <1>6, <1>7, <1>8 DEF TypeOK
<1>10. BatchNumbered' /\ RotatePending'
  BY <1>2, <1>8 DEF IInv, BatchNumbered, RotatePending
<1>11. BootOnce'
  BY <1>2, <1>4 DEF IInv, BootOnce, BootQueued
<1> QED
  BY <1>2, <1>5, <1>9, <1>10, <1>11 DEF IInv, SeqBound

\* Replies and the loop's end do.
LEMMA ReplyExitSteps ==
  ASSUME IInv, RotateReply \/ WriterExit
  PROVE  IInv'
<1> USE DEF keepBoundary, loopFrame, callVars, rotVars, seqVars
<1>1. CASE RotateReply
  <2> USE <1>1 DEF RotateReply
  <2>1. rotateReq \in Seq(Rotators) /\ rotateReq # <<>>
    BY DEF IInv, TypeOK, RotatePending
  <2>2. rotateReq' \in Seq(Rotators) /\ Head(rotateReq) \in Rotators
    BY <2>1, HeadTailProperties
  <2>3. TypeOK'
    BY <2>2 DEF IInv, TypeOK
  <2>4. BatchNumbered' /\ RotatePending'
    BY DEF BatchNumbered, RotatePending
  <2> QED
    BY <2>3, <2>4, FileKept, BootKept DEF IInv
<1>2. CASE WriterExit
  <2> USE <1>2 DEF WriterExit
  <2>1. synced' \in 0..Len(file)
    BY FileItem DEF IInv, TypeOK
  <2>2. TypeOK'
    BY <2>1 DEF IInv, TypeOK
  <2>3. BatchNumbered' /\ RotatePending'
    BY DEF BatchNumbered, RotatePending
  <2> QED
    BY <2>2, <2>3, FileKept, BootKept DEF IInv
<1> QED
  BY <1>1, <1>2

-----------------------------------------------------------------------------
(* The flush *)

\* A batch that is over: its records are gone and the writer goes on.
LEMMA NackStep ==
  ASSUME IInv, Nack, faults' \in Nat, pc = "flush" \/ pc = "fsync",
         holes' \in Seq(HoleType), pendingSeq' \in Nat,
         file' \in Seq(LineType), synced' \in 0..Len(file'),
         SeqsAscend', ~idx.ever => Below(file', pendingSeq')
  PROVE  IInv'
<1> USE DEF Nack, rotVars, dropVars
<1>1. call' \in [Calls -> {"idle", "send", "blocked", "wait", "ok", "err", "refused",
                         "cancelled", "closed", "crashed"}]
  BY DEF IInv, TypeOK
<1>2. proc' \in {"down", "boot", "up", "closing", "stopped", "panic"} /\ chClosed' \in BOOLEAN
  BY DEF IInv, TypeOK
<1>3. TypeOK'
  BY <1>1, <1>2 DEF IInv, TypeOK
<1>4. BatchNumbered' /\ RotatePending'
  BY DEF IInv, TypeOK, BatchNumbered, RotatePending
<1>5. BootOnce'
  BY DEF IInv, BootOnce, BootQueued, Carries
<1> QED
  BY <1>3, <1>4, <1>5 DEF IInv, SeqBound

\* A refusal for want of a file does.
LEMMA UnavailableStep ==
  ASSUME IInv, Unavailable
  PROVE  IInv'
<1>1. TypeOK /\ Nack /\ UNCHANGED <<pendingSeq, holes, file, synced, faults>> /\ pc = "flush" /\ Alive
  BY DEF IInv, Unavailable
<1>2. SeqsAscend' /\ (~idx.ever => Below(file', pendingSeq')) /\ idx' = idx
  BY <1>1 DEF IInv, SeqsAscend, SeqBound, Alive, Nack
<1> QED
  BY <1>1, <1>2, NackStep DEF TypeOK

\* The numbers a batch takes are above every number on disk.
LEMMA WrittenProps ==
  ASSUME IInv, Alive, NEW b \in Seq(LineType), NEW g \in Appended(file, b),
         Ascends(b), Below(b, pendingSeq + Len(batch)), Above(b, pendingSeq)
  PROVE  /\ g \in Seq(LineType) /\ synced \in 0..Len(g)
         /\ ~idx.ever => Ascends(g) /\ Below(g, pendingSeq + Len(batch))
<1>1. /\ file \in Seq(LineType) /\ pendingSeq \in Nat
      /\ ~idx.ever => Ascends(file) /\ Below(file, pendingSeq)
      /\ synced \in 0..Len(file) /\ batch \in Seq(RecType)
  BY DEF IInv, TypeOK, SeqsAscend, SeqBound, Alive
<1>2. Len(batch) \in Nat /\ Len(file) \in Nat
  BY <1>1, LenProperties
<1>3. pendingSeq + Len(batch) \in Nat /\ pendingSeq <= pendingSeq + Len(batch)
  BY <1>1, <1>2
<1>4. g \in Seq(LineType) /\ Len(g) >= Len(file)
  BY <1>1, AppendedShape
<1>5. ~idx.ever => Ascends(g) /\ Below(g, pendingSeq + Len(batch))
  BY <1>1, <1>3, AppendedProps
<1>6. Len(g) \in Nat
  BY <1>4, LenProperties
<1> QED
  BY <1>1, <1>2, <1>4, <1>5, <1>6

\* A whole write does.
LEMMA WriteStep ==
  ASSUME IInv, Write
  PROVE  IInv'
<1> USE DEF Write, callVars, rotVars, dropVars, env
<1> DEFINE e == Encode(batch, pendingSeq + 1)
<1>1. Alive /\ batch \in Seq(RecType) /\ pendingSeq \in Nat
  BY DEF IInv, TypeOK
<1>2. /\ e \in Seq(LineType) /\ Ascends(e) /\ Below(e, pendingSeq + Len(batch))
      /\ Above(e, pendingSeq)
  BY <1>1, EncodeProps
<1>3. file' \in Appended(file, e)
  OBVIOUS
<1> HIDE DEF e
<1>4. /\ file' \in Seq(LineType) /\ synced \in 0..Len(file') /\ idx' = idx
      /\ ~idx.ever => Ascends(file') /\ Below(file', pendingSeq + Len(batch))
  BY <1>1, <1>2, <1>3, WrittenProps
<1>5. Len(batch) \in Nat /\ pendingSeq' = pendingSeq + Len(batch)
  BY <1>1, LenProperties
<1>6. TypeOK'
  BY <1>1, <1>4, <1>5 DEF IInv, TypeOK
<1>7. SeqsAscend' /\ SeqBound'
  BY <1>4, <1>5 DEF SeqsAscend, SeqBound
<1>8. BatchNumbered' /\ RotatePending'
  BY <1>1, <1>5 DEF IInv, BatchNumbered, RotatePending
<1> QED
  BY <1>6, <1>7, <1>8, BootKept DEF IInv

\* What a short write leaves is a prefix of the buffer, cut inside a line.
LEMMA CutAscends ==
  ASSUME NEW b \in Seq(LineType), NEW n \in 0..Len(b), NEW p \in CutAt(b, n),
         NEW m \in Nat, NEW k \in Nat, Ascends(b)
  PROVE  /\ p \in Seq(LineType) /\ Ascends(p)
         /\ Below(b, m) => Below(p, m)
         /\ Above(b, k) => Above(p, k)
<1>1. /\ p \in Seq(LineType)
      /\ \A i \in DOMAIN p :
           i \in DOMAIN b /\ (Readable(p, i) => Readable(b, i) /\ p[i].seq = b[i].seq)
  BY CutProps
<1>2. Ascends(p)
  BY <1>1 DEF Ascends
<1>3. Below(b, m) => Below(p, m)
  BY <1>1 DEF Below
<1>4. Above(b, k) => Above(p, k)
  BY <1>1 DEF Above
<1> QED
  BY <1>1, <1>2, <1>3, <1>4

\* A short write does.
LEMMA WriteFailsStep ==
  ASSUME IInv, WriteFails
  PROVE  IInv'
<1> DEFINE e == Encode(batch, pendingSeq + 1)
<1>1. /\ Alive /\ batch \in Seq(RecType) /\ pendingSeq \in Nat /\ pc = "flush"
      /\ faults \in Nat /\ file \in Seq(LineType) /\ synced \in 0..Len(file)
      /\ holes \in Seq(HoleType) /\ SeqsAscend /\ (~idx.ever => Below(file, pendingSeq))
  BY DEF IInv, TypeOK, WriteFails, SeqBound, Alive
<1>2. /\ pendingSeq' = pendingSeq + Len(batch) /\ synced' = synced /\ Nack
      /\ holes' = Append(holes, [from |-> pendingSeq + 1, to |-> pendingSeq + Len(batch)])
      /\ faults' = faults + 1 /\ idx' = idx
  BY DEF WriteFails, FailBatch, Fault, Nack
<1>3. Len(batch) \in Nat /\ pendingSeq' \in Nat /\ pendingSeq <= pendingSeq'
  BY <1>1, <1>2, LenProperties
<1>4. [from |-> pendingSeq + 1, to |-> pendingSeq + Len(batch)] \in HoleType
  BY <1>1, <1>3 DEF HoleType
<1>5. holes' \in Seq(HoleType)
  BY <1>1, <1>2, <1>4
<1>6. /\ file' \in Seq(LineType) /\ synced \in 0..Len(file')
      /\ ~idx.ever => Ascends(file') /\ Below(file', pendingSeq')
  <2>1. CASE file' = file
    BY <1>1, <1>2, <1>3, <2>1, FileItem DEF SeqsAscend, Below
  <2>2. CASE \E n \in 0..(Len(batch) - 1) : \E landed \in CutAt(e, n) : file' \in Appended(file, landed)
    <3>1. /\ e \in Seq(LineType) /\ Ascends(e) /\ Below(e, pendingSeq + Len(batch))
          /\ Above(e, pendingSeq) /\ Len(e) = Len(batch)
      BY <1>1, EncodeProps
    <3>2. PICK n \in 0..(Len(batch) - 1) : \E landed \in CutAt(e, n) : file' \in Appended(file, landed)
      BY <2>2
    <3>3. PICK landed \in CutAt(e, n) : file' \in Appended(file, landed)
      BY <3>2
    <3> HIDE DEF e
    <3>4. n \in 0..Len(e)
      BY <1>3, <3>1, <3>2
    <3>5. /\ landed \in Seq(LineType) /\ Ascends(landed) /\ Below(landed, pendingSeq + Len(batch))
          /\ Above(landed, pendingSeq)
      <4>1. pendingSeq + Len(batch) \in Nat
        BY <1>2, <1>3
      <4> QED
        BY <1>1, <3>1, <3>3, <3>4, <4>1, CutAscends
    <3> QED
      BY <1>1, <1>2, <3>3, <3>5, WrittenProps
  <2> QED
    BY <2>1, <2>2 DEF WriteFails
<1>7. faults' \in Nat
  BY <1>1, <1>2
<1> QED
  BY <1>1, <1>2, <1>3, <1>5, <1>6, <1>7, NackStep DEF SeqsAscend

\* Fsync, done or failed, does.
LEMMA FsyncSteps ==
  ASSUME IInv, Fsync \/ FsyncFails
  PROVE  IInv'
<1>1. CASE Fsync
  <2> USE <1>1 DEF Fsync, callVars, rotVars, seqVars, dropVars, env
  <2>1. synced' \in 0..Len(file)
    BY FileItem DEF IInv, TypeOK
  <2>2. TypeOK'
    BY <2>1 DEF IInv, TypeOK
  <2>3. BatchNumbered' /\ RotatePending'
    BY DEF IInv, BatchNumbered, RotatePending
  <2> QED
    BY <2>2, <2>3, FileKept, BootKept DEF IInv
<1>2. CASE FsyncFails
  <2>1. /\ batch \in Seq(RecType) /\ pendingSeq \in Nat /\ holes \in Seq(HoleType)
        /\ Len(batch) <= pendingSeq /\ faults \in Nat /\ pc = "fsync"
        /\ file \in Seq(LineType) /\ synced \in 0..Len(file) /\ SeqsAscend
        /\ ~idx.ever => Below(file, pendingSeq)
    BY <1>2 DEF IInv, TypeOK, BatchNumbered, FsyncFails, SeqBound, Alive
  <2>2. /\ holes' = Append(holes, [from |-> pendingSeq - Len(batch) + 1, to |-> pendingSeq])
        /\ faults' = faults + 1 /\ Nack /\ UNCHANGED <<pendingSeq, file, synced, idx>>
    BY <1>2 DEF FsyncFails, FailBatch, Fault, Nack
  <2>3. pendingSeq - Len(batch) + 1 \in Nat
    BY <2>1, LenProperties
  <2>4. [from |-> pendingSeq - Len(batch) + 1, to |-> pendingSeq] \in HoleType
    BY <2>1, <2>3 DEF HoleType
  <2>5. holes' \in Seq(HoleType) /\ faults' \in Nat
    BY <2>1, <2>2, <2>4
  <2>6. SeqsAscend'
    BY <2>1, <2>2 DEF SeqsAscend
  <2> QED
    BY <2>1, <2>2, <2>5, <2>6, NackStep
<1> QED
  BY <1>1, <1>2

\* What an acknowledgement tells each caller, and what it credits.
LEMMA AckTypes ==
  ASSUME TypeOK
  PROVE  FoldSum \in Nat /\ \A c \in Waiters : Reach(c) \in Nat
<1>1. /\ Len(batch) \in Nat /\ DOMAIN batch = 1..Len(batch)
      /\ \A i \in DOMAIN batch : batch[i] \in RecType
  BY LenProperties, ElementOfSeq DEF TypeOK
<1>2. \A i \in DOMAIN batch : batch[i].a \in Nat
  BY <1>1 DEF RecType
<1>3. FoldSum \in Nat
  <2> DEFINE F == {i \in DOMAIN batch : batch[i].t = "fold"}
  <2>1. CASE F = {}
    BY <2>1 DEF FoldSum
  <2>2. CASE F # {}
    <3>1. (CHOOSE i \in F : TRUE) \in F
      BY <2>2
    <3> QED
      BY <1>2, <2>2, <3>1 DEF FoldSum
  <2> QED
    BY <2>1, <2>2
<1>4. ASSUME NEW c \in Waiters PROVE Reach(c) \in Nat
  <2> DEFINE I == {j \in DOMAIN batch : batch[j].id = c}
             S == {batch[i].a : i \in I}
             s == [i \in 1..Len(batch) |-> batch[i].a]
  <2>1. S \in SUBSET Nat /\ S # {}
    BY <1>2 DEF Waiters
  <2>2. \A i \in 1..Len(batch) : s[i] \in Nat /\ s[i] = batch[i].a
    BY <1>1, <1>2
  <2> HIDE DEF s
  <2>3. Bounded(s, Len(batch))
    BY <1>1, <2>2, SeqBounded
  <2>4. PICK m \in Nat : \A i \in 1..Len(batch) : s[i] <= m
    BY <2>3 DEF Bounded
  <2>5. \A y \in S : y <= m
    BY <1>1, <2>2, <2>4
  <2> HIDE DEF S
  <2>6. PICK g \in S : \A y \in S : y <= g
    BY <2>1, <2>5, GreatestNat
  <2>7. Max(S) \in S
    BY <2>1, <2>6, MaxIs
  <2>8. Reach(c) = Max(S)
    BY DEF Reach, S
  <2> QED
    BY <2>1, <2>7, <2>8
<1> QED
  BY <1>3, <1>4

\* Acknowledging does.
LEMMA AckStep ==
  ASSUME IInv, Ack
  PROVE  IInv'
<1> USE DEF Ack, rotVars
<1>t. TypeOK
  BY DEF IInv
<1>1. FoldSum \in Nat /\ \A c \in Waiters : Reach(c) \in Nat
  BY <1>t, AckTypes
<1>2. /\ lastSeq' \in Nat /\ estLost' \in Nat
  BY <1>t, <1>1 DEF TypeOK
<1>3. off' \in [Calls -> Nat]
  BY <1>t, <1>1 DEF TypeOK
<1>4. call' \in [Calls -> {"idle", "send", "blocked", "wait", "ok", "err", "refused",
                         "cancelled", "closed", "crashed"}]
  BY <1>t DEF TypeOK
<1>5. head' \in Nat /\ faults' \in Nat
  <2>1. head \in Nat /\ faults \in Nat /\ pendingSeq \in Nat
    BY <1>t DEF TypeOK
  <2>2. (head' = pendingSeq \/ head' = head) /\ (faults' = faults \/ faults' = faults + 1)
    BY DEF Fault
  <2> QED
    BY ONLY <2>1, <2>2
<1>6. notes' \in Nat
  BY <1>t DEF IInv, BootOnce, TypeOK
<1>7. proc' \in {"down", "boot", "up", "closing", "stopped", "panic"}
  BY <1>t DEF TypeOK
<1>8. TypeOK'
  BY <1>t, <1>2, <1>3, <1>4, <1>5, <1>6, <1>7 DEF TypeOK
<1>9. BatchNumbered' /\ RotatePending'
  BY <1>t DEF IInv, TypeOK, BatchNumbered, RotatePending
<1>10. BootOnce'
  BY DEF IInv, BootOnce, BootQueued, Carries
<1>11. SeqsAscend' /\ SeqBound'
  <2>1. proc' # "down" => proc # "down"
    BY DEF Alive
  <2> QED
    BY <2>1, FileKept
<1> QED
  BY <1>8, <1>9, <1>10, <1>11 DEF IInv

-----------------------------------------------------------------------------
(* Crashes, and the whole next-state relation *)

\* A kill and a power loss do.
LEMMA CrashSteps ==
  ASSUME IInv, Kill \/ PowerLoss
  PROVE  IInv'
<1> USE DEF Vanish
<1>1. TypeOK /\ Vanish
  BY DEF IInv, Kill, PowerLoss
<1>2. file' \in Seq(LineType) /\ synced' \in 0..Len(file') /\ (~idx.ever => Ascends(file'))
  <2>1. file \in Seq(LineType) /\ synced \in 0..Len(file) /\ (~idx.ever => Ascends(file)) /\ Len(file) \in Nat
    BY FileItem DEF IInv, TypeOK, SeqsAscend
  <2>2. CASE Kill
    BY <2>1, <2>2 DEF Kill
  <2>3. CASE PowerLoss
    <3>1. PICK n \in synced..Len(file) : file' \in CutAt(file, n)
      BY <2>3 DEF PowerLoss
    <3>2. synced' = Len(file')
      BY <2>3 DEF PowerLoss
    <3>3. n \in 0..Len(file)
      BY <2>1, <3>1
    <3>4. file' \in Seq(LineType) /\ (~idx.ever => Ascends(file'))
      BY <2>1, <3>1, <3>3, CutProps, CutAscends, 0 \in Nat
    <3>5. Len(file') \in Nat
      BY <3>4, LenProperties
    <3> QED
      BY <3>2, <3>4, <3>5
  <2> QED
    BY <2>2, <2>3
<1>3. call' \in [Calls -> {"idle", "send", "blocked", "wait", "ok", "err", "refused",
                         "cancelled", "closed", "crashed"}]
  BY <1>1 DEF TypeOK
<1>4. rot' \in [Rotators -> {"idle", "sent", "done", "refused", "crashed"}]
  BY <1>1 DEF TypeOK
<1>7. idx' \in [degraded : BOOLEAN, ever : BOOLEAN] /\ idx'.ever = idx.ever
  BY <1>1 DEF TypeOK
<1>5. TypeOK'
  <2>1. /\ rotateReq' \in Seq(Rotators) /\ queue' \in Seq([c : Calls \cup {NoCall}, lo : Nat, hi : Nat])
        /\ batch' \in Seq(RecType) /\ holes' \in Seq(HoleType)
    BY <1>1
  <2>2. /\ notes' \in Nat /\ pendingSeq' \in Nat /\ lastSeq' \in Nat /\ dropN' \in Nat
        /\ backpressure' \in Nat /\ estLost' \in Nat /\ batchN' \in Nat /\ crashes' \in Nat
    BY <1>1 DEF TypeOK
  <2>3. chClosed' \in BOOLEAN /\ cur' \in BOOLEAN /\ degraded' \in BOOLEAN
    BY <1>1, Zenon
  <2>4. idx' \in [degraded : BOOLEAN, ever : BOOLEAN]
    BY <1>1, <1>7, Zenon
  <2> QED
    BY <1>1, <1>2, <1>3, <1>4, <2>1, <2>2, <2>3, <2>4 DEF TypeOK
<1>6. BatchNumbered' /\ RotatePending' /\ BootOnce' /\ SeqBound'
  BY <1>1 DEF BatchNumbered, RotatePending, BootOnce, BootQueued, Carries, SeqBound
<1> QED
  BY <1>2, <1>5, <1>6, <1>7 DEF IInv, SeqsAscend

\* The invariant holds at the start.
LEMMA InitIInv == Init => IInv
<1> SUFFICES ASSUME Init PROVE IInv
  OBVIOUS
<1>1. TypeOK
  <2>1. /\ rotateReq \in Seq(Rotators) /\ queue \in Seq([c : Calls \cup {NoCall}, lo : Nat, hi : Nat])
        /\ batch \in Seq(RecType) /\ holes \in Seq(HoleType)
        /\ file \in Seq(LineType) /\ synced \in 0..Len(file)
    BY DEF Init
  <2>2. chClosed \in BOOLEAN /\ cur \in BOOLEAN /\ degraded \in BOOLEAN
    BY Zenon DEF Init
  <2>3. call \in [Calls -> {"idle"}] /\ off \in [Calls -> Nat] /\ rot \in [Rotators -> {"idle"}]
    BY DEF Init
  <2> QED
    BY <2>1, <2>2, <2>3 DEF Init, TypeOK
<1> QED
  BY <1>1 DEF Init, IInv, SeqsAscend, Ascends, SeqBound, BatchNumbered, RotatePending,
              BootOnce, BootQueued, Carries

\* It is inductive.
LEMMA StepIInv == IInv /\ [Next]_vars => IInv'
<1> SUFFICES ASSUME IInv, [Next]_vars PROVE IInv'
  OBVIOUS
<1>1. CASE \E c \in Calls : Producer(c)
  BY <1>1, ProducerStep
<1>2. CASE \E r \in Rotators : Rotate(r)
  BY <1>2, RotateStep
<1>3. CASE Writer
  BY <1>3, RecvStep, LoopSteps, HouseBatchStep, ReplyExitSteps, UnavailableStep, WriteStep,
     WriteFailsStep, FsyncSteps, AckStep DEF Writer, Flush
<1>4. CASE Lifecycle
  BY <1>4, OpenStep, BootNoteStep, CloseSteps DEF Lifecycle
<1>5. CASE Kill \/ PowerLoss
  BY <1>5, CrashSteps
<1>6. CASE UNCHANGED vars
  <2> USE <1>6 DEF vars, callVars, rotVars, seqVars, dropVars, disk, env
  <2>1. TypeOK'
    BY DEF IInv, TypeOK
  <2> QED
    BY <2>1, FileKept, WriterKept, BootKept DEF IInv
<1> QED
  BY <1>1, <1>2, <1>3, <1>4, <1>5, <1>6 DEF Next

-----------------------------------------------------------------------------
(* The theorems *)

\* The inductive invariant holds in every state of the writer.
THEOREM Invariance == Spec => []IInv
BY InitIInv, StepIInv, PTL DEF Spec

\* The writer, its queue and its disk keep their types, whatever fails: the
\* rotation replies and boot acknowledgements the writer sends always have a
\* request behind them, and a failed batch always knows the range it burned.
THEOREM TypeCorrect == Spec => []TypeOK
BY Invariance, PTL DEF IInv

\* Along the day files the numbers of the readable records strictly ascend,
\* through failed and short writes, torn tails, power losses and recoveries
\* from a stale HEAD: no two records ever share a number, as long as no boot
\* reported a degraded index (a file it could not read or heal, a record of a
\* newer schema, a build that skips events).
THEOREM SeqsAlwaysAscend == Spec => []SeqsAscend
BY Invariance, PTL DEF IInv

-----------------------------------------------------------------------------
(* Recovery *)

\* Open numbers its next record above every readable record on disk, however
\* stale the HEAD hint is and wherever the files are damaged, or says that its
\* index is degraded.
RecoversAbove == [][Open => idx'.degraded \/ Below(file', pendingSeq')]_vars

\* Every Open of every behaviour, also one behind an earlier degraded boot,
\* recovers above the files it healed unless it reports a degraded index.
THEOREM RecoveryIsAbove == Spec => RecoversAbove
<1>1. IInv /\ [Next]_vars => [Open => idx'.degraded \/ Below(file', pendingSeq')]_vars
  <2> SUFFICES ASSUME IInv, Open PROVE idx'.degraded \/ Below(file', pendingSeq')
    OBVIOUS
  <2> QED
    BY OpenProps DEF IInv
<1> QED
  BY <1>1, Invariance, PTL DEF Spec, RecoversAbove
=============================================================================
