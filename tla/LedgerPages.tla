------------------------------ MODULE LedgerPages ------------------------------
(* Reading the ledger back: the newest-first page walk (page.go), the seek *)
(* tables it uses (sidecar.go, the boot samples of index.go) and the       *)
(* look-up of one record by its seq (rotate.go, query.go), while the       *)
(* writer appends, rolls over, restarts, compacts and expires days.        *)
(*                                                                         *)
(* A file is named <<day, gen, part>> and is a sequence of lines.  A line  *)
(* is a record [seq, kind] or a healed fragment, kind "bad".  Every line   *)
(* is one byte long, so an offset is the number of lines before it.  A     *)
(* page lists the files and their sizes first; then it opens and reads one *)
(* after the other, chunk by chunk, while the writer goes on.              *)
EXTENDS Integers, Sequences, TLC, SequencesExt, FiniteSets, FiniteSetsExt

CONSTANTS
  Filters,       \* the kinds a caller asks for; "any" is the empty filter
  Sizes,         \* the page sizes a caller asks for
  SizeDefault,   \* page_size_default
  SizeMax,       \* page_size_max
  SampleStride,  \* sampleStride: boot samples, one per so many lines
  OffsetStride,  \* DefaultOffsetStride: sidecar offsets, one per so many records
  Batches,       \* how many records a flush may hold
  MaxSeq,        \* bound: records appended
  MaxDays,       \* bound: days
  MaxParts,      \* bound: parts of a day
  MaxMoves,      \* bound: restarts, compactions and expiries
  MaxWalks       \* bound: walks started

VARIABLES
  files,   \* name -> lines: the authoritative file set
  part,    \* name -> partInfo: [first, last, samples], first and last 0 when unknown
  seq,     \* the last seq appended
  lead,    \* seqs of a part's first batch but its last, since the boot
  walk,    \* the caller's walk: its token and what its pages returned
  pg,      \* the page being read
  moves,   \* restarts, compactions and expiries so far
  walks    \* walks so far

vars == <<files, part, seq, lead, walk, pg, moves, walks>>

Bad == [seq |-> 0, kind |-> "bad"]
NoToken == [gen |-> <<>>, off |-> 0, seq |-> 0]
Idle == [at |-> "idle", filter |-> "any", want |-> 0, tok |-> NoToken, got |-> <<>>, must |-> {}, hid |-> {},
         reason |-> "none"]
NoFile == [lines |-> <<>>, samples |-> <<>>, offsets |-> <<>>, records |-> 0]
NoPage == [at |-> "none", list |-> <<>>, i |-> 0, end |-> 0, eseq |-> 0, file |-> NoFile,
           acc |-> <<>>, out |-> <<>>]
Unread == [first |-> 0, last |-> 0, samples |-> <<>>]

Newer(a, b) == \/ a[1] > b[1]
               \/ a[1] = b[1] /\ a[2] > b[2]
               \/ a[1] = b[1] /\ a[2] = b[2] /\ a[3] > b[3]
(* sortPartsNewestFirst: day, then generation, then part, all descending.  *)
Parts == [k \in 1..Cardinality(DOMAIN files) |->
  CHOOSE n \in DOMAIN files : Cardinality({m \in DOMAIN files : Newer(m, n)}) = k - 1]
Live == CHOOSE n \in DOMAIN files : ~\E m \in DOMAIN files : Newer(m, n)
Days == {n[1] : n \in DOMAIN files}
Put(f, n, v) == [x \in DOMAIN f \union {n} |-> IF x = n THEN v ELSE f[x]]
Without(f, S) == [x \in DOMAIN f \ S |-> f[x]]

Matches(l, filter) == l.kind # "bad" /\ (filter = "any" \/ l.kind = filter)
Seqs(filter) == {l.seq : l \in {x \in UNION {Range(files[n]) : n \in DOMAIN files} : Matches(x, filter)}}
-----------------------------------------------------------------------------
(* The seek tables.                                                        *)

(* The positions from a to b that satisfy a condition, ascending.          *)
Where(a, b, ok(_)) == SelectSeq([k \in 1..(b - a + 1) |-> a + k - 1], ok)

(* scanFile: the boot's samples of a file.                                 *)
Samples(ls) ==
  LET at == Where(1, Len(ls), LAMBDA i : i % SampleStride = 0 /\ ls[i].kind # "bad")
  IN  [k \in 1..Len(at) |-> [seq |-> ls[at[k]].seq, off |-> at[k] - 1]]
(* scanFile: what a boot knows of a part.                                  *)
Scanned(ls) ==
  LET good == {l.seq : l \in {x \in Range(ls) : x.kind # "bad"}}
  IN  [first |-> IF good = {} THEN 0 ELSE Min(good), last |-> IF good = {} THEN 0 ELSE Max(good),
       samples |-> Samples(ls)]
(* buildGenerationIndex: the sidecar of a file, derived from its lines.    *)
Sidecar(ls) ==
  LET good == Where(1, Len(ls), LAMBDA i : ls[i].kind # "bad")
  IN  [records |-> Len(good),
       offsets |-> LET at == Where(1, Len(good), LAMBDA k : (k - 1) % OffsetStride = 0)
                   IN  [j \in 1..Len(at) |-> good[at[j]] - 1]]
(* cachedSidecar: without a readable sidecar a page seeks by its samples.  *)
PagePart(n, sidecar) ==
  [lines |-> files[n], samples |-> part[n].samples,
   offsets |-> IF sidecar THEN Sidecar(files[n]).offsets ELSE <<>>,
   records |-> IF sidecar THEN Sidecar(files[n]).records ELSE 0]

(* sort.Search(...) - 1: the last entry of an ascending table that is not  *)
(* above the bound, 0 when there is none.                                  *)
LastAt(S) == IF S = {} THEN 0 ELSE Max(S)

(* pageFloorOffset: the newest sample at or below the seq of the token.    *)
PageFloorOffset(p, endSeq) ==
  LET k == LastAt({i \in 1..Len(p.samples) : p.samples[i].seq <= endSeq})
  IN  IF endSeq = 0 \/ k = 0 THEN 0 ELSE p.samples[k].off

Strided(p) == Len(p.offsets) > 1 /\ p.records > 1
(* The nearest sidecar offset at or below a number of records under off.   *)
Under(p, off, n) ==
  LET target == off - ((n * Len(p.lines)) \div p.records)
      k == LastAt({i \in 1..Len(p.offsets) : p.offsets[i] <= target})
  IN  IF target <= 0 \/ k = 0 THEN 0 ELSE p.offsets[k]

PageSeekOffset(p, end, endSeq, want) ==
  LET anchor == IF endSeq # 0 THEN endSeq ELSE Last(p.samples).seq
      k == LastAt({i \in 1..Len(p.samples) : p.samples[i].seq <= anchor - want})
  IN  IF Strided(p) THEN Under(p, end, want)
      ELSE IF p.samples # <<>> /\ k > 0 /\ p.samples[k].off < end THEN p.samples[k].off ELSE 0

PageSeekOffsetBack(p, off) ==
  LET k == LastAt({i \in 1..Len(p.samples) : p.samples[i].off < off})
  IN  IF Strided(p) THEN Under(p, off, OffsetStride)
      ELSE IF k = 0 THEN 0
      ELSE IF k > 1 THEN p.samples[k - 1].off ELSE p.samples[1].off
-----------------------------------------------------------------------------
(* A page.                                                                 *)

(* readRange: at or above the token's seq an earlier page served it.       *)
Served(r, endSeq) == endSeq # 0 /\ r.seq >= endSeq
ReadRange(p, start, end, endSeq, filter) ==
  LET at == Where(start + 1, end, LAMBDA i : Matches(p.lines[i], filter) /\ ~Served(p.lines[i], endSeq))
  IN  [k \in 1..Len(at) |-> [seq |-> p.lines[at[k]].seq, off |-> at[k] - 1]]

(* readPageFromFile, the end: whether a record is left below the page; one *)
(* window below it is looked at.                                           *)
ProbeStart(p, acc, endSeq) == Max({PageSeekOffsetBack(p, acc[1].off), PageFloorOffset(p, endSeq)})
More(p, acc, endSeq, want, filter) ==
  \/ Len(acc) > want
  \/ /\ Len(acc) = want /\ acc[1].off > PageFloorOffset(p, endSeq)
     /\ ReadRange(p, ProbeStart(p, acc, endSeq), acc[1].off, endSeq, filter) # <<>>

(* What the seek tables keep from a walk: all that a part has below the    *)
(* sample its token fell on, and, when the walk ends at an empty window,   *)
(* all that is below the window.                                           *)
Below(p, off) == {p.lines[i].seq : i \in 1..off}
Hidden(p, acc, endSeq, ends) ==
  Below(p, PageFloorOffset(p, endSeq)) \union (IF ends THEN Below(p, ProbeStart(p, acc, endSeq)) ELSE {})

(* pageSize: the clamp.                                                    *)
PageSize(n) == IF n <= 0 THEN SizeDefault ELSE Min({n, Max({SizeMax, SizeDefault})})

(* resolvePageStart: where the walk goes on, or from the top with the      *)
(* reason when the file of the token is gone.                              *)
ResolvePageStart(ps, tok) ==
  LET S == {i \in 1..Len(ps) : ps[i].name = tok.gen}
      i == CHOOSE x \in S : TRUE
      top(r) == [i |-> 1, end |-> ps[1].size, seq |-> 0, reason |-> r]
  IN  IF tok = NoToken THEN top("none")
      ELSE IF S # {} THEN [i |-> i, end |-> IF tok.off <= 0 \/ tok.off > ps[i].size THEN ps[i].size ELSE tok.off,
                           seq |-> tok.seq, reason |-> "none"]
      ELSE IF tok.gen[1] < Min(Days) THEN top("token_foreign")
      ELSE top("generation_dropped")

(* Page, the start: newestFirstParts lists the files and their sizes.  A   *)
(* reset is told to the caller, whose walk begins again with this page.    *)
Page ==
  /\ walk.at = "walking" /\ pg.at = "none"
  /\ LET ps == [k \in 1..Len(Parts) |-> [name |-> Parts[k], size |-> Len(files[Parts[k]])]]
         s == ResolvePageStart(ps, walk.tok)
     IN /\ pg' = [NoPage EXCEPT !.at = "file", !.list = ps, !.i = s.i, !.end = s.end, !.eseq = s.seq]
        /\ walk' = IF s.reason = "none" THEN walk
                   ELSE [walk EXCEPT !.got = <<>>, !.must = Seqs(walk.filter), !.hid = {}, !.reason = s.reason]
  /\ UNCHANGED <<files, part, seq, lead, moves, walks>>

Want == walk.want - Len(pg.out)
(* Page, the loop: the next file, read from its end.                       *)
NextFile(page, i) ==
  [page EXCEPT !.at = IF i > Len(page.list) THEN "end" ELSE "file", !.i = i, !.eseq = 0, !.acc = <<>>,
     !.file = NoFile, !.end = IF i > Len(page.list) THEN 0 ELSE page.list[i].size]
(* Page, readPageFromFile: an empty file is passed over; one that is gone  *)
(* fails the page, and the caller has the token it had.                    *)
OpenFile(sidecar) ==
  /\ pg.at = "file"
  /\ LET n == pg.list[pg.i].name
     IN pg' = CASE pg.end <= 0 -> NextFile(pg, pg.i + 1)
                [] pg.end > 0 /\ n \notin DOMAIN files -> NoPage
                [] OTHER -> [pg EXCEPT !.at = "chunk", !.file = PagePart(n, sidecar)]
  /\ UNCHANGED <<files, part, seq, lead, walk, moves, walks>>

(* readPageFromFile, the loop: disjoint chunks, each below the one before, *)
(* until the page is full or the floor is reached.                         *)
ReadChunk ==
  /\ pg.at = "chunk"
  /\ LET floor == PageFloorOffset(pg.file, pg.eseq)
         start == Max({PageSeekOffset(pg.file, pg.end, pg.eseq, Want), floor})
         acc == ReadRange(pg.file, start, pg.end, pg.eseq, walk.filter) \o pg.acc
     IN IF start >= pg.end THEN pg' = [pg EXCEPT !.at = "filed"]
        ELSE pg' = [pg EXCEPT !.at = IF Len(acc) >= Want \/ start <= floor THEN "filed" ELSE "chunk",
                              !.end = start, !.acc = acc]
  /\ UNCHANGED <<files, part, seq, lead, walk, moves, walks>>

(* Page, after a file: the newest of what was read joins the page; a full  *)
(* page has a token when something may be left, and a page that ran out    *)
(* has none.                                                               *)
EndPage(recs, tok, hid) ==
  /\ walk' = [walk EXCEPT !.at = IF tok = NoToken THEN "done" ELSE "walking", !.tok = tok, !.got = @ \o recs,
                          !.hid = @ \union hid]
  /\ pg' = NoPage
CloseFile ==
  /\ pg.at = "filed"
  /\ LET n == Min({Want, Len(pg.acc)})
         oldest == pg.acc[Len(pg.acc) - n + 1]
         out == pg.out \o [k \in 1..n |-> pg.acc[Len(pg.acc) - k + 1].seq]
         more == More(pg.file, pg.acc, pg.eseq, Want, walk.filter) \/ pg.i < Len(pg.list)
     IN IF n < Want
        THEN /\ pg' = NextFile([pg EXCEPT !.out = out], pg.i + 1)
             /\ walk' = [walk EXCEPT !.hid = @ \union Hidden(pg.file, pg.acc, pg.eseq, FALSE)]
        ELSE EndPage(out, IF more THEN [gen |-> pg.list[pg.i].name, off |-> oldest.off, seq |-> oldest.seq] ELSE NoToken,
                     Hidden(pg.file, pg.acc, pg.eseq, ~more))
  /\ UNCHANGED <<files, part, seq, lead, moves, walks>>
RunOut ==
  /\ pg.at = "end"
  /\ EndPage(pg.out, NoToken, {})
  /\ UNCHANGED <<files, part, seq, lead, moves, walks>>

(* PageFromTokenString with no token: the newest-first start.              *)
StartWalk(filter, size) ==
  /\ walk.at # "walking" /\ walks < MaxWalks
  /\ walk' = [Idle EXCEPT !.at = "walking", !.filter = filter, !.want = PageSize(size), !.must = Seqs(filter)]
  /\ walks' = walks + 1
  /\ UNCHANGED <<files, part, seq, lead, pg, moves>>
-----------------------------------------------------------------------------
(* One record by its seq.                                                  *)

(* recomputeDayLocked: the seqs a day spans, by its parts.                 *)
DayFirst(d) == LET S == {part[n].first : n \in {x \in DOMAIN files : x[1] = d}} \ {0} IN IF S = {} THEN 0 ELSE Min(S)
DayLast(d) == Max({part[n].last : n \in {x \in DOMAIN files : x[1] = d}})
(* findPartForSeq: the oldest part whose span holds the seq.               *)
Holding(s) ==
  {n \in DOMAIN files : /\ DayFirst(n[1]) # 0 /\ DayFirst(n[1]) <= s /\ s <= DayLast(n[1])
                        /\ part[n].first # 0 /\ part[n].first <= s /\ s <= part[n].last}
(* Resolve: the place of a seq in a part, counted from the sample the      *)
(* search started at, so never past the record.                            *)
Resolve(n, s) ==
  LET k == LastAt({i \in 1..Len(part[n].samples) : part[n].samples[i].seq <= s})
      from == IF k = 0 THEN 0 ELSE part[n].samples[k].off
      at == {i \in (from + 1)..Len(files[n]) : files[n][i].kind # "bad" /\ files[n][i].seq >= s}
  IN  IF part[n].samples = <<>> THEN 0
      ELSE IF at = {} THEN Len(files[n]) - from - 1
      ELSE IF files[n][Min(at)].seq = s THEN Min(at) - 1 - from ELSE Max({0, Min(at) - 2 - from})
(* recordAt: the record is found from there on.                            *)
Found(s) ==
  /\ Holding(s) # {}
  /\ LET n == CHOOSE x \in Holding(s) : \A y \in Holding(s) : x = y \/ Newer(y, x)
     IN  \E i \in (Resolve(n, s) + 1)..Len(files[n]) : files[n][i].kind # "bad" /\ files[n][i].seq = s
-----------------------------------------------------------------------------
(* The writer.                                                             *)

(* flush: a batch at the end of the live file; fileAppended takes the last *)
(* seq of the part's first batch for its first.                            *)
Append_(ks) ==
  /\ seq + Len(ks) <= MaxSeq
  /\ files' = [files EXCEPT ![Live] = @ \o [i \in 1..Len(ks) |-> [seq |-> seq + i, kind |-> ks[i]]]]
  /\ part' = [part EXCEPT ![Live].last = seq + Len(ks), ![Live].first = IF @ = 0 THEN seq + Len(ks) ELSE @]
  /\ seq' = seq + Len(ks)
  /\ lead' = IF part[Live].first = 0 THEN lead \union ((seq + 1)..(seq + Len(ks) - 1)) ELSE lead
  /\ UNCHANGED <<walk, pg, moves, walks>>
AppendBatch(k) == Len(k) \in Batches /\ Append_(k)

(* rotateLocked: the next part of the day, or the first of the next day.   *)
Rotate(nextDay) ==
  /\ files[Live] # <<>>
  /\ IF nextDay THEN Live[1] < MaxDays ELSE Live[3] < MaxParts
  /\ LET n == IF nextDay THEN <<Live[1] + 1, 0, 1>> ELSE <<Live[1], Live[2], Live[3] + 1>>
     IN files' = Put(files, n, <<>>) /\ part' = Put(part, n, Unread)
  /\ UNCHANGED <<seq, lead, walk, pg, moves, walks>>

(* Open: the boot scan indexes every file; a torn tail was healed.  A page *)
(* under way ends with the process; the caller keeps its token.            *)
Restart(torn) ==
  /\ moves < MaxMoves
  /\ torn => seq > 0
  /\ LET fs == IF torn THEN [files EXCEPT ![Live] = Append(@, Bad)] ELSE files
     IN files' = fs /\ part' = [n \in DOMAIN fs |-> Scanned(fs[n])]
  /\ lead' = {}
  /\ moves' = moves + 1
  /\ pg' = NoPage
  /\ UNCHANGED <<seq, walk, walks>>

(* CompactDay: a closed day becomes one part of the next generation; its   *)
(* events become one aggregate with the last of their seqs.                *)
CompactDay(d) ==
  /\ moves < MaxMoves
  /\ d \in Days /\ d < Live[1]
  /\ LET old == {n \in DOMAIN files : n[1] = d}
         new == <<d, (CHOOSE n \in old : TRUE)[2] + 1, 1>>
         lines == UNION {Range(files[n]) : n \in old}
         events == {l.seq : l \in {x \in lines : x.kind \in {"event", "agg"}}}
         kept == {l \in lines : l.kind = "incident"} \union
                 (IF events = {} THEN {} ELSE {[seq |-> Max(events), kind |-> "agg"]})
     IN /\ \E n \in old : files[n] # <<>>
        /\ files' = Put(Without(files, old), new, SetToSortSeq(kept, LAMBDA a, b : a.seq < b.seq))
        /\ part' = Put(Without(part, old), new, [first |-> DayFirst(d), last |-> DayLast(d), samples |-> <<>>])
  /\ moves' = moves + 1
  /\ UNCHANGED <<seq, lead, walk, pg, walks>>

(* ExpireDays: the oldest closed day leaves.                               *)
Expire ==
  /\ moves < MaxMoves
  /\ Min(Days) < Live[1]
  /\ LET old == {n \in DOMAIN files : n[1] = Min(Days)}
     IN files' = Without(files, old) /\ part' = Without(part, old)
  /\ moves' = moves + 1
  /\ UNCHANGED <<seq, lead, walk, pg, walks>>
-----------------------------------------------------------------------------
Init ==
  /\ files = (<<1, 0, 1>> :> <<>>)
  /\ part = (<<1, 0, 1>> :> Unread)
  /\ seq = 0 /\ lead = {} /\ walk = Idle /\ pg = NoPage /\ moves = 0 /\ walks = 0

Next ==
  \/ Page \/ ReadChunk \/ CloseFile \/ RunOut
  \/ \E b \in BOOLEAN : OpenFile(b) \/ Rotate(b) \/ Restart(b)
  \/ \E f \in Filters, n \in Sizes : StartWalk(f, n)
  \/ \E k \in {<<"event">>, <<"incident">>, <<"event", "incident">>} : AppendBatch(k)
  \/ \E d \in 1..MaxDays : CompactDay(d)
  \/ Expire

Spec == Init /\ [][Next]_vars
-----------------------------------------------------------------------------
(* A walk returns records newest first, so none of them twice, whatever    *)
(* the writer, a compaction or a restart does between its pages (Page).    *)
Descends == \A i, j \in 1..Len(walk.got) : i < j => walk.got[i] > walk.got[j]

(* An empty next_page_token means finished: every matching record that was *)
(* there when the walk began, and still is, was returned, but for what a   *)
(* floor or an empty probe window hid from it (Page).                      *)
WalkComplete ==
  walk.at = "done" => (walk.must \intersect Seqs(walk.filter)) \ walk.hid \subseteq Range(walk.got)

(* Every record on disk is found by its seq (Resolve, recordAt), but for   *)
(* those fileAppended leaves below the first seq of a new part.            *)
ResolveFinds == \A s \in Seqs("any") \ lead : Found(s)

(* A walk ends, though the writer goes on and a reset may restart it.      *)
Rests == walk.at # "walking"
=============================================================================
