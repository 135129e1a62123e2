----------------------- MODULE LedgerCompactionProofs -----------------------
(***************************************************************************)
(* Proofs about LedgerCompaction, for every day, every number of passes    *)
(* and every pattern of crashes and failing calls: what recovery would     *)
(* choose has every audit record, and accounts for every number.           *)
(***************************************************************************)
EXTENDS LedgerCompaction, WellFoundedInduction, TLAPS

Spine(ls) == {l \in ls : l.kind = "spine"}

\* What a generation has to hold: the day's audit records and no others, a
\* line or an aggregate for each number of the day, and no span on a line
\* that is not an aggregate.
Good(ls) ==
  /\ Spine(ls) = Spine(day)
  /\ Seqs(ls) \cup Consumed(ls) = 1 .. MaxSeq
  /\ \A l \in ls : l.kind # "agg" => l.folded = {}

-----------------------------------------------------------------------------
(* The inductive invariant *)

NewGen == idx.gen + 1
Running == comp.pc \in {"idle", "tmp", "sync", "unlink"}

\* The index has one whole generation.
Indexed == idx.gen \in Nat /\ idx.files # {} /\ (\A f \in idx.files : f.gen = idx.gen) /\ Good(Lines(idx.files))

\* The directory has that generation, older ones, and at most one file of
\* the next, which is whole.
Filed ==
  /\ \A f \in disk : /\ f.gen \in 0 .. NewGen
                     /\ f.gen = idx.gen => f \in idx.files
                     /\ f.gen = NewGen => Good(f.lines)
  /\ \A f, h \in disk : f.gen = NewGen /\ h.gen = NewGen => f = h
  /\ comp.pc # "unlink" => idx.files \subseteq disk

\* What a crash may undo: the coming of the next generation, until the
\* directory is synced, and the going of files that are no newer than the index.
Undoable ==
  \A p \in pending :
    \/ p.op = "add" /\ p.file.gen = NewGen /\ comp.pc # "unlink"
    \/ p.op = "del" /\ p.file.gen \in 0 .. idx.gen /\ (p.file.gen = idx.gen => p.file \in idx.files)

\* The compaction under way writes a whole generation, and unlinks the old
\* one only behind it.
Compacting ==
  /\ comp.pc # "idle" => Good(comp.out) /\ comp.left \subseteq idx.files
  /\ comp.pc \in {"sync", "unlink"} => NewFile \in disk

UpInv == Indexed /\ Filed /\ Undoable /\ Compacting

\* What is found after a crash is what recovery can start from.
DownInv ==
  /\ disk # {} /\ \E n \in Nat : \A f \in disk : f.gen \in 0 .. n
  /\ Good(Now) /\ pending = {}

CInv == comp.pc \in {"idle", "tmp", "sync", "unlink", "down"}
          /\ (~expired => IF comp.pc = "down" THEN DownInv ELSE UpInv)

-----------------------------------------------------------------------------
(* Greatest members, generations and lines *)

\* A non-empty set of naturals has a least element.
LEMMA LeastNat ==
  ASSUME NEW S \in SUBSET Nat, S # {}
  PROVE  \E m \in S : \A y \in S : m <= y
<1>1. PICK m \in S : \A y \in S : ~(<<y, m>> \in OpToRel(<, Nat))
  BY NatLessThanWellFounded, WFMin, Zenon
<1>2. \A y \in S : y < m => <<y, m>> \in OpToRel(<, Nat)
  BY Zenon DEF OpToRel
<1>3. \A y \in S : ~(y < m)
  BY <1>1, <1>2, Zenon
<1> QED
  BY <1>3

\* Max of a non-empty bounded set of naturals is its greatest member.
LEMMA MaxIs ==
  ASSUME NEW n \in Nat, NEW S \in SUBSET (0 .. n), S # {}
  PROVE  Max(S) \in S /\ \A y \in S : y <= Max(S)
<1> DEFINE T == {n - x : x \in S}
<1>0. \A x \in S : x \in Nat /\ x <= n
  OBVIOUS
<1>1. T \in SUBSET Nat /\ T # {}
  <2>1. \A x \in S : n - x \in Nat
    BY <1>0
  <2> QED
    BY <2>1
<1>2. PICK t \in T : \A y \in T : t <= y
  BY <1>1, LeastNat
<1>3. PICK m \in S : t = n - m
  BY <1>2
<1>4. \A y \in S : m >= y
  BY <1>0, <1>2, <1>3
<1>5. \E x \in S : \A y \in S : x >= y
  BY <1>4
<1>6. Max(S) \in S /\ \A y \in S : Max(S) >= y
  BY <1>5 DEF Max
<1> QED
  BY <1>6

\* The greatest member is what Max returns.
LEMMA MaxAt ==
  ASSUME NEW n \in Nat, NEW S \in SUBSET (0 .. n), n \in S
  PROVE  Max(S) = n
<1>1. Max(S) \in S /\ \A y \in S : y <= Max(S)
  BY MaxIs
<1>2. Max(S) \in 0 .. n /\ n <= Max(S)
  BY <1>1
<1> HIDE DEF Max
<1>3. \A m \in 0 .. n : n <= m => m = n
  OBVIOUS
<1> QED
  BY <1>2, <1>3

\* The generation recovery chooses, when its number is known.
LEMMA Chosen ==
  ASSUME NEW D, NEW g \in Nat, \A f \in D : f.gen \in 0 .. g, \E f \in D : f.gen = g
  PROVE  TopGen(D) = g /\ Authoritative(D) = {f \in D : f.gen = g}
<1>1. Max({f.gen : f \in D}) = g
  BY MaxAt
<1> QED
  BY <1>1 DEF TopGen, Authoritative

\* The generation recovery chooses is there.
LEMMA ChosenSome ==
  ASSUME NEW D, NEW n \in Nat, \A f \in D : f.gen \in 0 .. n, D # {}
  PROVE  /\ TopGen(D) \in Nat /\ Authoritative(D) # {} /\ Authoritative(D) \subseteq D
         /\ \A f \in D : f.gen \in 0 .. TopGen(D) /\ (f.gen = TopGen(D) => f \in Authoritative(D))
         /\ \A f \in Authoritative(D) : f.gen = TopGen(D)
<1> DEFINE S == {f.gen : f \in D}
<1>1. S \in SUBSET (0 .. n) /\ S # {}
  OBVIOUS
<1>2. Max(S) \in S /\ \A y \in S : y <= Max(S)
  BY <1>1, MaxIs
<1>3. TopGen(D) = Max(S)
  BY DEF TopGen
<1>4. Max(S) \in Nat
  BY <1>1, <1>2
<1>5. PICK f \in D : f.gen = Max(S)
  BY <1>2
<1>6. \A h \in D : h.gen \in Nat /\ h.gen <= Max(S)
  BY <1>2
<1>7. Authoritative(D) = {h \in D : h.gen = Max(S)}
  BY <1>3 DEF Authoritative
<1> DEFINE m == Max(S)
<1> HIDE DEF m
<1>8. m \in Nat /\ \A h \in D : h.gen \in 0 .. m
  BY <1>4, <1>6 DEF m
<1> QED
  BY <1>3, <1>5, <1>7, <1>8 DEF m

\* The lines of a single file.
LEMMA OneFile ==
  ASSUME NEW f
  PROVE  Lines({f}) = f.lines
BY DEF Lines

-----------------------------------------------------------------------------
(* What compaction writes *)

\* A pass keeps every audit record and every number accounted for.
LEMMA CompactedGood ==
  ASSUME NEW ls, Good(ls), MaxSeq \in Nat
  PROVE  Good(Compacted(ls))
<1> DEFINE F == Folded(ls)
           Of(g) == {l \in F : l.grp = g}
           A(g) == Aggregate(Of(g))
           G == {l.grp : l \in F}
           R == {l \in ls : ~Folds(l)}
           C == Compacted(ls)
<1>1. C = R \cup {A(g) : g \in G}
  BY DEF Compacted
<1>2. ASSUME NEW g \in G
      PROVE  /\ A(g).kind = "agg" /\ A(g).seq \in Seqs(Of(g))
             /\ A(g).folded = Seqs(Of(g)) \cup UNION {l.folded : l \in Of(g)}
  <2>1. Seqs(Of(g)) \in SUBSET (0 .. MaxSeq) /\ Seqs(Of(g)) # {}
    BY DEF Good, Seqs, Folded
  <2>2. Max(Seqs(Of(g))) \in Seqs(Of(g))
    BY <2>1, MaxIs
  <2> QED
    BY <2>2 DEF Aggregate
<1>3. Spine(C) = Spine(ls)
  BY <1>1, <1>2 DEF Spine, Folds
<1>4. \A l \in C : l.kind # "agg" => l.folded = {}
  BY <1>1, <1>2 DEF Good
<1>5. ASSUME NEW l \in ls PROVE l.seq \in Seqs(C) \cup Consumed(C) /\ (l.kind = "agg" => l.folded \subseteq Consumed(C))
  <2>1. CASE ~Folds(l)
    BY <2>1, <1>1 DEF Seqs, Consumed
  <2>2. CASE Folds(l)
    <3>1. l.grp \in G /\ l \in Of(l.grp)
      BY <2>2 DEF Folded
    <3>2. l.seq \in Seqs(Of(l.grp)) /\ l.folded \subseteq UNION {x.folded : x \in Of(l.grp)}
      BY <3>1 DEF Seqs
    <3>4. l.seq \in A(l.grp).folded /\ l.folded \subseteq A(l.grp).folded
      BY <3>1, <3>2, <1>2
    <3>3. A(l.grp) \in C /\ A(l.grp).kind = "agg"
      BY <3>1, <1>1, <1>2
    <3> QED
      BY <3>3, <3>4 DEF Consumed
  <2> QED
    BY <2>1, <2>2
<1>6. 1 .. MaxSeq \subseteq Seqs(C) \cup Consumed(C)
  BY <1>5 DEF Good, Seqs, Consumed
<1>7. ASSUME NEW l \in ls PROVE l.seq \in 1 .. MaxSeq /\ l.folded \subseteq 1 .. MaxSeq
  BY DEF Good, Seqs, Consumed
<1>8. ASSUME NEW l \in C PROVE l.seq \in 1 .. MaxSeq /\ l.folded \subseteq 1 .. MaxSeq
  <2>1. CASE l \in R
    BY <2>1, <1>7
  <2>2. ASSUME NEW g \in G, l = A(g) PROVE l.seq \in 1 .. MaxSeq /\ l.folded \subseteq 1 .. MaxSeq
    <3>1. Of(g) \subseteq ls
      BY DEF Folded
    <3>2. Seqs(Of(g)) \subseteq 1 .. MaxSeq
      BY <3>1, <1>7 DEF Seqs
    <3>3. UNION {x.folded : x \in Of(g)} \subseteq 1 .. MaxSeq
      BY <3>1, <1>7
    <3> QED
      BY <2>2, <3>2, <3>3, <1>2
  <2> QED
    BY <1>1, <2>1, <2>2
<1>9. Seqs(C) \cup Consumed(C) \subseteq 1 .. MaxSeq
  BY <1>8 DEF Seqs, Consumed
<1> QED
  BY <1>3, <1>4, <1>6, <1>9 DEF Good

-----------------------------------------------------------------------------
(* The steps *)

\* A directory that differs from the present one only in older files and in
\* whether the next generation has come has a whole generation on top.
LEMMA TopWhole ==
  ASSUME UpInv, Running, NEW D,
         \A f \in D : f.gen \in 0 .. NewGen /\ (f.gen = idx.gen => f \in idx.files) /\ (f.gen = NewGen => f \in disk),
         \A f \in disk : f.gen # NewGen => f \in D,
         comp.pc = "unlink" => NewFile \in D
  PROVE  D # {} /\ Good(Lines(Authoritative(D)))
<1> USE DEF UpInv, Running
<1>0. idx.gen \in Nat /\ NewGen \in Nat /\ NewGen = idx.gen + 1 /\ idx.gen # NewGen
  BY DEF Indexed, NewGen
<1>1. CASE \E f \in D : f.gen = NewGen
  <2>1. PICK f \in D : f.gen = NewGen
    BY <1>1
  <2>2. Authoritative(D) = {h \in D : h.gen = NewGen}
    BY <1>0, <2>1, Chosen
  <2>3. {h \in D : h.gen = NewGen} = {f}
    BY <2>1 DEF Filed
  <2> QED
    BY <2>1, <2>2, <2>3, OneFile DEF Filed
<1>2. CASE ~\E f \in D : f.gen = NewGen
  <2>1. comp.pc # "unlink"
    BY <1>2 DEF NewFile, NewGen
  <2>2. idx.files \subseteq D
    BY <1>0, <2>1 DEF Filed, Indexed
  <2>3. \A f \in D : f.gen \in 0 .. idx.gen
    BY <1>0, <1>2
  <2>4. {h \in D : h.gen = idx.gen} = idx.files /\ idx.files # {}
    BY <2>2 DEF Indexed
  <2>5. \E f \in D : f.gen = idx.gen
    BY <2>4
  <2>6. Authoritative(D) = idx.files
    BY <1>0, <2>3, <2>4, <2>5, Chosen, Zenon
  <2> QED
    BY <2>2, <2>4, <2>6 DEF Indexed
<1> QED
  BY <1>1, <1>2

\* The generation that recovery would choose is whole while the ledger is up.
LEMMA UpNow ==
  ASSUME UpInv, Running
  PROVE  disk # {} /\ Good(Now)
BY TopWhole DEF UpInv, Filed, Compacting, Now

\* A crash at any moment leaves what recovery can start from.
LEMMA CrashFinds ==
  ASSUME UpInv, Running, NEW lost \in SUBSET pending,
         disk' = (disk \ {p.file : p \in {q \in lost : q.op = "add"}})
                   \cup {p.file : p \in {q \in lost : q.op = "del"}},
         pending' = {}, day' = day
  PROVE  DownInv'
<1> USE DEF UpInv, Running
<1>0. idx.gen \in Nat /\ NewGen = idx.gen + 1 /\ NewGen \in Nat /\ 0 .. idx.gen \subseteq 0 .. NewGen
      /\ \A g \in 0 .. idx.gen : g # NewGen
  BY DEF Indexed, NewGen
<1>1. \A f \in disk' : f \in disk \/ (f.gen \in 0 .. idx.gen /\ (f.gen = idx.gen => f \in idx.files))
  BY DEF Undoable
<1>2. \A f \in disk' : f.gen \in 0 .. NewGen /\ (f.gen = idx.gen => f \in idx.files) /\ (f.gen = NewGen => f \in disk)
  BY <1>0, <1>1 DEF Filed
<1>3. \A f \in disk : f.gen # NewGen => f \in disk'
  BY DEF Undoable
<1>4. comp.pc = "unlink" => NewFile \in disk'
  <2>1. SUFFICES ASSUME comp.pc = "unlink" PROVE NewFile \in disk'
    OBVIOUS
  <2>2. \A p \in lost : p.op # "add"
    BY <2>1 DEF Undoable
  <2> QED
    BY <2>1, <2>2 DEF Compacting
<1>5. disk' # {} /\ Good(Lines(Authoritative(disk')))
  <2>1. PICK D : D = disk'
    OBVIOUS
  <2>2. /\ \A f \in D : f.gen \in 0 .. NewGen /\ (f.gen = idx.gen => f \in idx.files) /\ (f.gen = NewGen => f \in disk)
        /\ \A f \in disk : f.gen # NewGen => f \in D
        /\ comp.pc = "unlink" => NewFile \in D
    BY <1>2, <1>3, <1>4, <2>1, Zenon
  <2>3. D # {} /\ Good(Lines(Authoritative(D)))
    BY <2>2, TopWhole, Zenon
  <2> QED
    BY <2>1, <2>3, Zenon
<1>6. \E n \in Nat : \A h \in disk' : h.gen \in 0 .. n
  BY <1>0, <1>2
<1> QED
  BY <1>5, <1>6 DEF DownInv, Now, Good

\* What recovery starts from is whole again, whether or not the stale
\* generations went.
LEMMA RecoverStarts ==
  ASSUME DownInv, Recover
  PROVE  UpInv' /\ comp'.pc = "idle"
<1>0. PICK n \in Nat : \A f \in disk : f.gen \in 0 .. n
  BY DEF DownInv
<1> DEFINE g == TopGen(disk)
           K == Authoritative(disk)
<1>1. disk # {}
  BY DEF DownInv
<1>2. /\ g \in Nat /\ K # {} /\ K \subseteq disk
      /\ \A f \in disk : f.gen \in 0 .. g /\ (f.gen = g => f \in K)
      /\ \A f \in K : f.gen = g
  BY <1>0, <1>1, ChosenSome
<1>3. /\ comp' = Idle /\ idx' = [gen |-> g, files |-> K] /\ day' = day
      /\ \/ disk' = K /\ pending' = {[op |-> "del", file |-> f] : f \in disk \ K}
         \/ disk' = disk /\ pending' = pending
  BY <1>1 DEF Recover
<1> HIDE DEF g, K
<1>4. idx'.gen = g /\ idx'.files = K /\ NewGen' = g + 1 /\ comp'.pc = "idle" /\ comp'.out = {} /\ comp'.left = {}
  BY <1>3 DEF NewGen, Idle
<1>5. Good(Lines(K))
  BY DEF DownInv, Now, K
<1>6. Indexed'
  BY <1>2, <1>4, <1>5, <1>3 DEF Indexed, Good
<1>7. \A f \in disk' : f \in disk
  BY <1>2, <1>3
<1>8. \A f \in disk' : f.gen \in 0 .. (g + 1) /\ f.gen # g + 1
  BY <1>2, <1>7
<1>9. Filed'
  BY <1>2, <1>3, <1>4, <1>7, <1>8 DEF Filed
<1>10. Undoable'
  <2>1. pending = {}
    BY DEF DownInv
  <2> QED
    BY <2>1, <1>2, <1>3, <1>4 DEF Undoable
<1>11. Compacting'
  BY <1>4 DEF Compacting
<1> QED
  BY <1>4, <1>6, <1>9, <1>10, <1>11 DEF UpInv

\* The ledger opens on a whole day.
LEMMA InitUp ==
  ASSUME MaxSeq \in Nat, Init
  PROVE  UpInv
<1>1. PICK k \in [1 .. MaxSeq -> Kinds], g \in [1 .. MaxSeq -> Groups], split \in 1 .. MaxSeq,
           n \in SnapCounts \cup {1} :
        /\ day = {Line(s, k[s], g[s], CASE k[s] = "event" -> 1 [] k[s] = "snap" -> n [] OTHER -> 0) : s \in 1 .. MaxSeq}
        /\ disk = {f \in {[gen |-> 0, part |-> 1, lines |-> {l \in day : l.seq <= split}],
                          [gen |-> 0, part |-> 2, lines |-> {l \in day : l.seq > split}]} : f.lines # {}}
  BY DEF Init
<1>2. /\ \A l \in day : l.seq \in 1 .. MaxSeq /\ l.folded = {} /\ l.kind # "agg"
      /\ Seqs(day) = 1 .. MaxSeq
  <2>1. \A s \in 1 .. MaxSeq : k[s] \in {"event", "spine", "snap"}
    BY DEF Kinds
  <2>2. \A l \in day : \E s \in 1 .. MaxSeq : l.seq = s /\ l.folded = {} /\ l.kind = k[s]
    BY <1>1 DEF Line
  <2>3. \A s \in 1 .. MaxSeq : \E l \in day : l.seq = s
    <3>1. TAKE s \in 1 .. MaxSeq
    <3>2. Line(s, k[s], g[s], CASE k[s] = "event" -> 1 [] k[s] = "snap" -> n [] OTHER -> 0) \in day
      BY <1>1
    <3>3. \A x : Line(s, k[s], g[s], x).seq = s
      BY DEF Line
    <3> QED
      BY <3>2, <3>3, Zenon
  <2>4. \A l \in day : l.seq \in 1 .. MaxSeq /\ l.folded = {} /\ l.kind # "agg"
    <3>1. TAKE l \in day
    <3>2. PICK s \in 1 .. MaxSeq : l.seq = s /\ l.folded = {} /\ l.kind = k[s]
      BY <2>2
    <3>3. k[s] # "agg"
      BY <2>1
    <3> QED
      BY <3>2, <3>3
  <2>5. Seqs(day) \subseteq 1 .. MaxSeq
    BY <2>4 DEF Seqs
  <2>6. 1 .. MaxSeq \subseteq Seqs(day)
    BY <2>3 DEF Seqs
  <2> QED
    BY <2>4, <2>5, <2>6
<1> DEFINE P1 == [gen |-> 0, part |-> 1, lines |-> {l \in day : l.seq <= split}]
           P2 == [gen |-> 0, part |-> 2, lines |-> {l \in day : l.seq > split}]
<1>11. disk = {f \in {P1, P2} : f.lines # {}}
  BY <1>1
<1>12. P1.gen = 0 /\ P1.lines = {l \in day : l.seq <= split} /\ P2.gen = 0 /\ P2.lines = {l \in day : l.seq > split}
  OBVIOUS
<1> HIDE DEF P1, P2
<1>3. \A f \in disk : f.gen = 0 /\ f.lines \subseteq day
  BY <1>11, <1>12
<1>4. Lines(disk) = day
  <2>1. ASSUME NEW l \in day PROVE \E f \in disk : l \in f.lines
    <3>1. l.seq <= split \/ l.seq > split
      BY <1>2
    <3> QED
      BY <1>11, <1>12, <3>1
  <2> QED
    BY <1>3, <2>1 DEF Lines
<1>5. disk # {}
  <2>1. split \in Seqs(day)
    BY <1>2
  <2> QED
    BY <1>4, <2>1 DEF Lines, Seqs
<1>6. Consumed(day) = {}
  BY <1>2 DEF Consumed
<1>7. Good(day)
  BY <1>2, <1>6 DEF Good
<1>8. idx.gen = 0 /\ idx.files = disk /\ NewGen = 1 /\ comp.pc = "idle" /\ pending = {}
  BY DEF Init, NewGen, Idle
<1>9. Indexed
  BY <1>3, <1>4, <1>5, <1>7, <1>8 DEF Indexed
<1>10. Filed
  BY <1>3, <1>8 DEF Filed
<1> QED
  BY <1>8, <1>9, <1>10 DEF UpInv, Undoable, Compacting

\* It starts in the invariant.
LEMMA InitCInv ==
  ASSUME MaxSeq \in Nat, Init
  PROVE  CInv
<1>1. comp.pc = "idle"
  BY DEF Init, Idle
<1>2. UpInv
  BY InitUp
<1> QED
  BY <1>1, <1>2 DEF CInv

\* A step of compaction while the ledger is up.
LEMMA StepUp ==
  ASSUME MaxSeq \in Nat, UpInv, Running, ~expired',
         \/ \E c \in 1 .. MaxSeq + 1 : Age(c)
         \/ Start \/ StartFails \/ Rename \/ SyncDir \/ SyncDirFails
         \/ \E f \in comp.left : Unlink(f)
         \/ Replace
  PROVE  UpInv' /\ Running'
<1> USE DEF UpInv, Running
<1>0. idx.gen \in Nat /\ NewGen \in Nat /\ NewGen = idx.gen + 1 /\ idx.gen # NewGen
  BY DEF Indexed, NewGen
<1>1. ASSUME NEW c, Age(c) PROVE UpInv' /\ Running'
  BY <1>1 DEF Age, Indexed, Filed, Undoable, Compacting, NewGen, NewFile, Good
<1>2. CASE Start
  <2>1. Good(Compacted(Lines(idx.files)))
    BY CompactedGood DEF Indexed
  <2>2. /\ comp'.pc = "tmp" /\ comp'.out = Compacted(Lines(idx.files)) /\ comp'.left = idx.files
        /\ disk' = disk /\ pending' = pending /\ idx' = idx /\ day' = day
    BY <1>2 DEF Start
  <2>3. Good(comp.out)'
    BY <2>1, <2>2 DEF Good
  <2> QED
    BY <1>2, <2>2, <2>3 DEF Start, Indexed, Filed, Undoable, Compacting, NewGen, Good
<1>3. CASE StartFails \/ SyncDirFails
  BY <1>3 DEF StartFails, SyncDirFails, Abort, Idle, Indexed, Filed, Undoable, Compacting, NewGen, Good
<1>4. CASE Rename
  <2>1. /\ comp.pc = "tmp" /\ comp'.pc = "sync" /\ comp'.out = comp.out /\ comp'.left = comp.left
        /\ disk' = {f \in disk : f.gen # NewFile.gen} \cup {NewFile}
        /\ pending' = pending \cup {[op |-> "add", file |-> NewFile]}
        /\ idx' = idx /\ day' = day
    BY <1>4 DEF Rename
  <2>2. NewFile.gen = NewGen /\ NewFile.lines = comp.out /\ NewFile' = NewFile /\ NewGen' = NewGen
    BY <2>1 DEF NewFile, NewGen
  <2> DEFINE N == NewFile
  <2> HIDE DEF N
  <2>3. /\ N.gen = NewGen /\ N \in disk' /\ Good(N.lines)
        /\ \A f \in disk' : f = N \/ (f \in disk /\ f.gen # NewGen)
        /\ \A f \in disk : f.gen # NewGen => f \in disk'
    BY <2>1, <2>2 DEF N, Compacting
  <2>4. Indexed'
    BY <2>1 DEF Indexed, Good
  <2>5. Filed'
    <3>1. idx.files \subseteq disk'
      BY <1>0, <2>1, <2>3 DEF Filed, Indexed
    <3>2. \A f \in disk' : Good(f.lines)' <=> Good(f.lines)
      BY <2>1 DEF Good
    <3>3. \A f \in disk' : f.gen \in 0 .. NewGen /\ (f.gen = idx.gen => f \in idx.files)
      BY <1>0, <2>3 DEF Filed
    <3>4. \A f, h \in disk' : f.gen = NewGen /\ h.gen = NewGen => f = h
      BY <2>3
    <3>5. \A f \in disk' : f.gen = NewGen => Good(f.lines)'
      BY <2>3, <2>1 DEF Good
    <3> QED
      BY <2>1, <2>2, <3>1, <3>3, <3>4, <3>5 DEF Filed
  <2>6. Undoable'
    <3>1. \A p \in pending' : p \in pending \/ (p.op = "add" /\ p.file.gen = NewGen)
      BY <2>1, <2>2
    <3> QED
      BY <2>1, <2>2, <3>1 DEF Undoable
  <2>7. Compacting'
    BY <2>1, <2>2 DEF Compacting, Good
  <2> QED
    BY <2>1, <2>4, <2>5, <2>6, <2>7
<1>5. CASE SyncDir
  BY <1>5 DEF SyncDir, Indexed, Filed, Undoable, Compacting, NewGen, NewFile, Good
<1>6. ASSUME NEW f \in comp.left, Unlink(f) PROVE UpInv' /\ Running'
  <2>1. /\ comp.pc = "unlink" /\ comp'.pc = "unlink" /\ comp'.out = comp.out /\ comp'.left \subseteq comp.left
        /\ disk' \in {disk, disk \ {f}}
        /\ pending' \in {pending, pending \cup {[op |-> "del", file |-> f]}}
        /\ idx' = idx /\ day' = day
    BY <1>6 DEF Unlink
  <2>2. f \in idx.files /\ f.gen = idx.gen
    BY <2>1 DEF Compacting, Indexed
  <2>3. NewFile.gen = NewGen /\ NewFile' = NewFile /\ NewGen' = NewGen
    BY <2>1 DEF NewFile, NewGen
  <2>4. Indexed'
    BY <2>1 DEF Indexed, Good
  <2>5. Filed'
    BY <2>1, <2>3 DEF Filed, Good
  <2>6. Undoable'
    <3>1. \A p \in pending' : p \in pending \/ (p.op = "del" /\ p.file = f)
      BY <2>1
    <3>2. f.gen \in 0 .. idx.gen
      BY <1>0, <2>2
    <3> QED
      BY <2>1, <2>2, <2>3, <3>1, <3>2 DEF Undoable
  <2>7. Compacting'
    BY <1>0, <2>1, <2>2, <2>3 DEF Compacting, Good
  <2> QED
    BY <2>1, <2>4, <2>5, <2>6, <2>7
<1>7. CASE Replace
  <2> DEFINE N == NewFile
  <2>1. /\ comp.pc = "unlink" /\ comp'.pc = "idle" /\ pending' \in {pending, {}}
        /\ idx'.gen = N.gen /\ idx'.files = {N} /\ disk' = disk /\ day' = day
    BY <1>7 DEF Replace, Idle
  <2>2. N \in disk /\ N.gen = NewGen /\ N.lines = comp.out /\ Good(comp.out)
    BY <2>1 DEF Compacting, NewFile, NewGen
  <2> HIDE DEF N
  <2>3. NewGen' = NewGen + 1
    BY <2>1, <2>2 DEF NewGen
  <2>4. Indexed'
    <3>1. Lines(idx.files)' = comp.out
      BY <2>1, <2>2, OneFile
    <3> QED
      BY <1>0, <2>1, <2>2, <3>1 DEF Indexed, Good
  <2>5. Filed'
    <3>1. \A f \in disk : f.gen \in 0 .. (NewGen + 1) /\ f.gen # NewGen + 1 /\ (f.gen = NewGen => f = N)
      BY <1>0, <2>2 DEF Filed
    <3> QED
      BY <2>1, <2>2, <2>3, <3>1 DEF Filed
  <2>6. Undoable'
    <3>1. \A p \in pending' : p.op = "del" /\ p.file.gen \in 0 .. idx.gen
      BY <2>1 DEF Undoable
    <3>2. \A m \in 0 .. idx.gen : m \in 0 .. NewGen /\ m # NewGen
      BY <1>0
    <3> QED
      BY <2>1, <2>2, <3>1, <3>2 DEF Undoable
  <2>7. Compacting'
    BY <2>1 DEF Compacting
  <2> QED
    BY <2>1, <2>4, <2>5, <2>6, <2>7
<1> QED
  BY <1>1, <1>2, <1>3, <1>4, <1>5, <1>6, <1>7

\* Every step keeps the invariant.
LEMMA StepCInv ==
  ASSUME MaxSeq \in Nat, CInv, [Next]_vars
  PROVE  CInv'
<1>1. CASE UNCHANGED vars
  <2>1. UpInv => UpInv'
    BY <1>1 DEF vars, UpInv, Indexed, Filed, Undoable, Compacting, NewGen, NewFile, Good
  <2>2. DownInv => DownInv'
    BY <1>1 DEF vars, DownInv, Now, Good
  <2> QED
    BY <1>1, <2>1, <2>2 DEF CInv, vars
<1> DEFINE Up == \/ \E c \in 1 .. MaxSeq + 1 : Age(c)
                 \/ Start \/ StartFails \/ Rename \/ SyncDir \/ SyncDirFails
                 \/ \E f \in comp.left : Unlink(f)
                 \/ Replace
<1>2. CASE Up /\ comp.pc # "down"
  <2>1. expired' = expired
    BY <1>2 DEF Age, Start, StartFails, Rename, SyncDir, SyncDirFails, Unlink, Replace
  <2>2. comp'.pc \in {"idle", "tmp", "sync", "unlink"}
    <3>1. ASSUME NEW c, Age(c) PROVE comp'.pc \in {"idle", "tmp", "sync", "unlink"}
      BY <1>2, <3>1 DEF CInv, Age
    <3>2. CASE Start \/ StartFails \/ SyncDirFails \/ Replace
      BY <3>2 DEF Start, StartFails, SyncDirFails, Replace, Abort, Idle
    <3>3. CASE Rename
      BY <3>3 DEF Rename
    <3>4. CASE SyncDir
      BY <3>4 DEF SyncDir
    <3>5. ASSUME NEW f, Unlink(f) PROVE comp'.pc \in {"idle", "tmp", "sync", "unlink"}
      BY <3>5 DEF Unlink
    <3> QED
      BY <1>2, <3>1, <3>2, <3>3, <3>4, <3>5
  <2>3. ~expired => UpInv'
    BY <1>2, <2>1, StepUp DEF CInv, Running
  <2> QED
    BY <2>1, <2>2, <2>3 DEF CInv
<1>3. CASE Up /\ comp.pc = "down"
  <2>1. PICK c : Age(c)
    BY <1>3 DEF Start, StartFails, Rename, SyncDir, SyncDirFails, Unlink, Replace
  <2>2. DownInv => DownInv'
    BY <2>1 DEF Age, DownInv, Now, Good
  <2> QED
    BY <1>3, <2>1, <2>2 DEF CInv, Age
<1>4. CASE Expire
  BY <1>4 DEF CInv, Expire
<1>5. CASE Crash
  <2>1. comp.pc # "down" /\ comp'.pc = "down" /\ pending' = {} /\ day' = day /\ expired' = expired
    BY <1>5 DEF Crash, Idle
  <2>2. PICK lost \in SUBSET pending :
          disk' = (disk \ {p.file : p \in {q \in lost : q.op = "add"}})
                    \cup {p.file : p \in {q \in lost : q.op = "del"}}
    BY <1>5 DEF Crash
  <2>3. ~expired => DownInv'
    BY <2>1, <2>2, CrashFinds DEF CInv, Running
  <2> QED
    BY <2>1, <2>3 DEF CInv
<1>6. CASE Recover
  <2>1. comp.pc = "down" /\ comp'.pc = "idle" /\ expired' = expired
    BY <1>6 DEF Recover, Idle
  <2>2. ~expired => UpInv'
    BY <1>6, <2>1, RecoverStarts DEF CInv
  <2> QED
    BY <2>1, <2>2 DEF CInv
<1> QED
  BY <1>1, <1>2, <1>3, <1>4, <1>5, <1>6 DEF Next

\* While the day is kept, what recovery would choose is there and whole.
LEMMA AlwaysWhole ==
  ASSUME CInv, ~expired
  PROVE  disk # {} /\ Good(Now)
BY UpNow DEF CInv, DownInv, Running

-----------------------------------------------------------------------------
(* The theorems *)

(***************************************************************************)
(* SpineStays: until retention drops the day, the generation that recovery *)
(* would choose has every audit record of the day and no other, whatever   *)
(* the order of renames, syncs, unlinks, failures and crashes (compact,    *)
(* recover, ExpireDays).                                                   *)
(***************************************************************************)
THEOREM SpineStays == MaxSeq \in Nat => (Spec => []SpineKept)
<1> SUFFICES ASSUME MaxSeq \in Nat PROVE Spec => []SpineKept
  OBVIOUS
<1>1. Init => CInv
  BY InitCInv
<1>2. CInv => SpineKept
  BY AlwaysWhole DEF SpineKept, Good, Spine
<1> QED
  BY <1>1, <1>2, StepCInv, PTL DEF Spec

\* The numbers of the day are all accounted for.
Accounted == ~expired => Holes(Now) = {}

(***************************************************************************)
(* NumbersStayAccounted: the same generation has a line or an aggregate    *)
(* for every number of the day, after any number of passes over aggregates *)
(* of earlier ones, so the walk of Verify meets no hole                    *)
(* (compact, aggSeqSpans, Verify).                                         *)
(***************************************************************************)
THEOREM NumbersStayAccounted == MaxSeq \in Nat => (Spec => []Accounted)
<1> SUFFICES ASSUME MaxSeq \in Nat PROVE Spec => []Accounted
  OBVIOUS
<1>1. Init => CInv
  BY InitCInv
<1>2. CInv => Accounted
  <2> SUFFICES ASSUME CInv, ~expired, Now # {} PROVE Holes(Now) = {}
    BY DEF Accounted, Holes
  <2> DEFINE all == Seqs(Now) \cup Consumed(Now)
  <2>1. all = 1 .. MaxSeq
    BY AlwaysWhole DEF Good
  <2>2. \E l \in Now : l.seq \in 1 .. MaxSeq
    BY <2>1 DEF Seqs
  <2>3. MaxSeq \in all /\ all \in SUBSET (0 .. MaxSeq)
    BY <2>1, <2>2
  <2>4. Max(all) = MaxSeq
    BY <2>3, MaxAt
  <2> QED
    BY <2>1, <2>4 DEF Holes
<1> QED
  BY <1>1, <1>2, StepCInv, PTL DEF Spec
=============================================================================
