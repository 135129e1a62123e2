------------------------------ MODULE ScrubPass ------------------------------
(* The scrubber: one ordered pass of a rule table over a value, alone        *)
(* (ScrubBytes) or in a bundle (ScrubFields), the re-scan at the ledger's    *)
(* door, and the hub scrubbing again what a satellite sent.                  *)
(*                                                                           *)
(* A value is a sequence of cells: a cell is a name a rule knows (an         *)
(* assignment, a flag, a header), a piece of a value, a marker, or other     *)
(* text.  Cells have widths, because reservations are byte ranges.           *)
EXTENDS Naturals, Sequences, SequencesExt, FiniteSetsExt

CONSTANTS
  Phrases,     \* a value is a concatenation of these
  MaxPhrases,
  ShieldKeys,  \* the public keys of the configured projects
  Target,      \* the value's target: "message", "header"
  Prefilter,   \* scrub.prefilter
  PiiRedact,   \* scrub.pii_mode = redact
  ProjectRule, \* whether the project has a rule of its own: "none", "plain", "rescan"
  MaxBytes,    \* the target's budget
  Truncate     \* whether the target truncates or refuses beyond it

VARIABLES
  val,    \* the value: raw, then scrubbed
  raw,    \* what came in
  bundle, \* the same value scrubbed as a field of a bundle, then scrubbed again by the hub
  at,     \* raw, scrubbed or failed, persisted or refused, again
  hits,   \* redactions of the latest scrub
  drift   \* whether the host's scrub used a reservation that was no longer true

vars == <<val, raw, bundle, at, hits, drift>>

(* The rule table by what sets its rules apart: the names or shapes they     *)
(* fire on, how far their value reaches, what they exempt, and whether they  *)
(* are mandatory.  Rules of one kind that differ in their patterns only have *)
(* one entry; dsn_any, the home roots and the path allowlist have none.  The *)
(* anchors are the words, or the shape, that the prefilter looks for.        *)
Rule(n, heads, reach, exempt, mandatory, anchors) ==
  [name |-> n, heads |-> heads, reach |-> reach, exempt |-> exempt, mandatory |-> mandatory,
   anchors |-> anchors, rescan |-> FALSE]
Builtins ==
  << Rule("private_key_block", {"begin"}, "block", {}, TRUE, {"begin"}),
     Rule("dsn_secret", {"uri"}, "password", {}, TRUE, {"://"}),
     Rule("url_basic_auth", {"uri"}, "password", {}, TRUE, {"://"}),
     Rule("env_assign", {"env", "flag"}, "word", {}, TRUE, {"pass", "auth"}),
     Rule("kv_secret_assign", {"env", "kv", "wide", "flag", "hdr"}, "word", {}, TRUE, {"pass", "auth"}),
     Rule("cli_flag_secret", {"flag", "switch"}, "word", {"path"}, TRUE, {"pass", "api"}),
     Rule("auth_header", {"hdr"}, "line", {}, TRUE, {"cookie"}),
     Rule("jwt", {"token"}, "self", {}, TRUE, {"eyJ"}),
     Rule("pii_email_ip", {"lo", "mail"}, "self", {"lo"}, FALSE, {"shape"}),
     Rule("pii_identity_kv", {"user", "hdr"}, "word", {"lo"}, FALSE, {"user", "cookie"}) >>

(* The words a cell holds for the prefilter, which folds ASCII letters only: *)
(* "wide" is a name spelt with a letter that only the patterns' own folding  *)
(* takes for one of them.  A marker holds the words of its rule's name.      *)
Spelt == [begin |-> {"begin"}, uri |-> {"://"}, env |-> {"pass"}, kv |-> {"pass"}, flag |-> {"pass"},
  switch |-> {"api"}, hdr |-> {"auth", "cookie"}, token |-> {"eyJ"}, lo |-> {"shape"}, mail |-> {"shape"},
  user |-> {"user"}, private_key_block |-> {"pass"}, dsn_secret |-> {"pass"}, url_basic_auth |-> {"auth"},
  kv_secret_assign |-> {"pass"}, cli_flag_secret |-> {"pass"}, auth_header |-> {"auth"}, pii_email_ip |-> {"user"}]
Words(b) == UNION {Spelt[c] : c \in Range(b) \intersect DOMAIN Spelt}

(* A project's own rule has no keywords the prefilter could look for.        *)
OwnRule == [Rule("own", {"mine"}, "word", {}, FALSE, {}) EXCEPT !.rescan = ProjectRule = "rescan"]
Enabled(r) == r.mandatory \/ PiiRedact
Table == SelectSeq(Builtins, Enabled) \o IF ProjectRule = "none" THEN <<>> ELSE <<OwnRule>>
Applies(r) == r.mandatory \/ r.name = "own" \/ Target # "header"
TableGated == Prefilter /\ \A r \in Range(Table) : r.anchors # {}

(* A rule's marker is its name in brackets; here, the name.                  *)
Marker(r) == r.name
Cut == "truncated"
Markers == {"private_key_block", "dsn_secret", "url_basic_auth", "env_assign", "kv_secret_assign",
  "cli_flag_secret", "auth_header", "jwt", "pii_email_ip", "pii_identity_kv", "own", Cut}
Hidden == [K1 |-> "ph1", K2 |-> "ph2"]
PublicKeys == DOMAIN Hidden
Placeholders == {Hidden[k] : k \in ShieldKeys}
ValueCells == {"s", "token", "mail", "path", "lo", "uri", "esc"} \union PublicKeys \union Placeholders \union Markers
(* The offset of cell i: a marker is two wide, any other cell one.           *)
At(b, i) == (i - 1) + Cardinality({j \in 1..(i - 1) : b[j] \in Markers})
Bytes(b) == At(b, Len(b) + 1)
-----------------------------------------------------------------------------
(* Where a rule's value starts and ends.                                     *)
Stretch(b, i, ok) == IF \A j \in i..Len(b) : b[j] \in ok THEN Len(b)
                     ELSE Min({j \in i..Len(b) : b[j] \notin ok}) - 1
Word(b, i) == Stretch(b, i, ValueCells)
Line(b, i) == Stretch(b, i, Range(b) \ {"nl"})
BlockEnd(b, i) == IF \A j \in i..Len(b) : b[j] # "end" THEN Len(b)
                  ELSE Min({j \in i..Len(b) : b[j] = "end"})
InBlock(b, i) == \E j \in 1..(i - 1) : b[j] = "begin" /\ BlockEnd(b, j) >= i
IsPubKey(c) == c \in PublicKeys \union Placeholders
InURI(b, i) == \E j \in 1..(i - 1) : b[j] = "uri" /\ Word(b, j) >= i

(* The span of rule r for the name at i, as the first and the last cell.     *)
Span(r, b, i) ==
  CASE r.reach = "word"     -> [lo |-> i + 1, hi |-> Word(b, i + 1)]
    [] r.reach = "line"     -> [lo |-> i + 1, hi |-> Line(b, i + 1)]
    [] r.reach = "self"     -> [lo |-> i, hi |-> i]
    [] r.reach = "block"    -> [lo |-> i, hi |-> BlockEnd(b, i)]
    [] r.reach = "password" -> [lo |-> i + 2, hi |-> Word(b, i + 1)]
Fires(r, b, i) ==
  /\ b[i] \in r.heads
  /\ r.reach = "line" => i = 1 \/ b[i - 1] = "nl"
  /\ r.reach = "block" => ~InBlock(b, i)
  /\ r.reach = "password" => ~InURI(b, i)
  /\ r.name = "dsn_secret" => i < Len(b) /\ IsPubKey(b[i + 1])
Matches(r, b) == {s \in {Span(r, b, i) : i \in {j \in 1..Len(b) : Fires(r, b, j)}} : s.lo <= s.hi}

Offsets(b, s) == [from |-> At(b, s.lo), to |-> At(b, s.hi + 1)]
Overlaps(a, reserved) == \E x \in reserved : a.from < x.to /\ x.from < a.to
Cells(b, s) == {b[j] : j \in s.lo..s.hi}
(* Text an earlier rule has redacted is left alone, whole or in part.        *)
Redacted(b, s) == Cells(b, s) \intersect Markers # {}
(* A path is no secret to the flag rule, an address of this host is nobody's. *)
PathExempt(r, b, s) == r.exempt = {"path"} /\ Cells(b, s) = {"path"}
AddrExempt(r, b, s) == r.exempt = {"lo"} /\ Cells(b, s) = {"lo"}
Spared(r, b, s) == Redacted(b, s) \/ PathExempt(r, b, s) \/ AddrExempt(r, b, s)
RuleSpans(r, b, reserved) ==
  {s \in Matches(r, b) : r.reach = "block" \/ ~(Spared(r, b, s) \/ Overlaps(Offsets(b, s), reserved))}

(* A mutant: what a rule replaces is gone.                                   *)
Carried_Not(b, s) == <<>>
(* Spans become markers; a placeholder inside one is put behind its marker.  *)
Carried(b, s) == SetToSeq(Cells(b, s) \intersect Placeholders)
ApplyRuleSpans(b, spans, r) ==
  FlattenSeq([i \in DOMAIN b |->
    CASE \E s \in spans : s.lo = i -> <<Marker(r)>> \o Carried(b, CHOOSE s \in spans : s.lo = i)
      [] \E s \in spans : s.lo < i /\ i <= s.hi -> <<>>
      [] OTHER -> <<b[i]>>])

Protect(b) == [i \in DOMAIN b |-> IF b[i] \in ShieldKeys THEN Hidden[b[i]] ELSE b[i]]
Restore(b) == [i \in DOMAIN b |->
  IF b[i] \in Placeholders THEN CHOOSE k \in ShieldKeys : Hidden[k] = b[i] ELSE b[i]]
-----------------------------------------------------------------------------
(* The prefilter: what the value holds decides which rules are run.          *)
Gate(b) == [on |-> TableGated, matched |-> Words(b)]
RuleGated(g, r) == g.on /\ r.anchors # {} /\ r.anchors \intersect g.matched = {}
Missed(g) == g.on /\ \A r \in Range(Table) : RuleGated(g, r)

SpansFor(n, b, g) ==
  {Offsets(b, s) : s \in UNION {RuleSpans(r, b, {}) : r \in {q \in Range(Table) : q.name = n /\ ~RuleGated(g, q)}}}
YieldsTo == [flag |-> {"env_assign", "kv_secret_assign"}, hdr |-> {"kv_secret_assign", "pii_identity_kv"}]
Yields(r, h) == r.name \in YieldsTo[h]

(* One rule of the pass.  ScrubBytes computes each reservation once, for the *)
(* first rule that asks; ScrubFields computes it for every rule afresh.      *)
Held(b, g) == [flag |-> SpansFor("cli_flag_secret", b, g), hdr |-> SpansFor("auth_header", b, g)]
Reserve(acc, r, held, fresh) ==
  [acc EXCEPT !.held = [h \in DOMAIN held |-> IF Yields(r, h) /\ (fresh \/ h \notin acc.asked) THEN held[h] ELSE @[h]],
              !.drift = @ \/ \E h \in acc.asked : Yields(r, h) /\ ~fresh /\ acc.held[h] # held[h],
              !.asked = @ \union {h \in DOMAIN held : Yields(r, h)}]
Reserved(acc, r) == UNION {acc.held[h] : h \in {k \in acc.asked : Yields(r, k)}}
Redact(acc, r, spans) == [acc EXCEPT !.b = ApplyRuleSpans(@, spans, r), !.n = @ + Cardinality(spans)]
Rewrite(acc, r) == IF r.rescan THEN acc ELSE Redact(acc, r, RuleSpans(r, acc.b, Reserved(acc, r)))
Step(acc, r, g, fresh) ==
  IF ~Applies(r) \/ RuleGated(g, r) THEN acc ELSE Rewrite(Reserve(acc, r, Held(acc.b, g), fresh), r)
Rescan(acc, r) == IF r.rescan THEN Redact(acc, r, RuleSpans(r, acc.b, {})) ELSE acc
Start(b) == [b |-> b, n |-> 0, held |-> [flag |-> {}, hdr |-> {}], asked |-> {}, drift |-> FALSE]
Walk(b, table, g, fresh) ==
  LET pass[k \in 0..Len(table)] == IF k = 0 THEN Start(Protect(b)) ELSE Step(pass[k - 1], table[k], g, fresh)
      again[k \in 0..Len(table)] == IF k = 0 THEN pass[Len(table)] ELSE Rescan(again[k - 1], table[k])
  IN  [again[Len(table)] EXCEPT !.b = Restore(@)]
Gated(b, g, fresh) == IF Missed(g) THEN Start(b) ELSE Walk(b, Table, g, fresh)
Pass(b, fresh) == Gated(b, Gate(b), fresh)

(* The budget: a value beyond it is cut at the end of a line or refused.     *)
Over(b) == Bytes(b) > MaxBytes
LastNewline(b) == {i \in DOMAIN b : b[i] = "nl" /\ At(b, i + 1) <= MaxBytes}
Kept(b) == IF ~Over(b) THEN b ELSE SubSeq(b, 1, IF LastNewline(b) = {} THEN 0 ELSE Max(LastNewline(b)))
CutMark(b) == IF Over(b) THEN <<Cut>> ELSE <<>>
ScrubOne(b, fresh) ==
  [Pass(Kept(b), fresh) EXCEPT !.b = @ \o CutMark(b)]
ScrubBytes(b) == ScrubOne(b, FALSE)
(* The fields of a bundle are scrubbed rule by rule, each under its own gate *)
(* and its own reservations: every field as if it were alone.               *)
ScrubFields(b) == ScrubOne(b, TRUE)

(* The door of the ledger scans the payload as it is written: a line ends in *)
(* an escape, two characters of which the second is a letter and neither     *)
(* ends a word.  There a name at the start of a line follows that letter, a  *)
(* flag at the start of the value a quote; the header's rule and the variant *)
(* the door adds ask for the start of a line, or for a backslash right       *)
(* before the name, and there is none.                                       *)
Serialised(b) == [i \in DOMAIN b |-> IF b[i] = "nl" THEN "esc" ELSE b[i]]
AfterEscape(b, i) == i > 1 /\ b[i - 1] = "esc"
AtDoor(r, b, i) ==
  /\ Fires(r, b, i) /\ r.reach # "line"
  /\ r.name = "cli_flag_secret" => i > 1
  /\ b[i] \in {"env", "kv", "wide", "hdr", "switch", "token"} \/ r.name = "cli_flag_secret" => ~AfterEscape(b, i)
DoorSpans(r, b) ==
  {s \in {Span(r, b, i) : i \in {j \in DOMAIN b : AtDoor(r, b, j)}} :
     s.lo <= s.hi /\ (r.reach = "block" \/ ~Spared(r, b, s))}
BoundaryRules == {r \in Range(Builtins) : r.mandatory}
BoundaryHit(b) ==
  \E r \in BoundaryRules :
    ~RuleGated([on |-> TRUE, matched |-> Words(b)], r) /\ DoorSpans(r, Serialised(b)) # {}
-----------------------------------------------------------------------------
Inputs == {FlattenSeq(p) : p \in UNION {[1..n -> Phrases] : n \in 1..MaxPhrases}}
Init ==
  /\ raw \in Inputs /\ val = raw /\ bundle = raw
  /\ at = "raw" /\ hits = 0 /\ drift = FALSE

(* A host scrubs a value, alone as its senders do; the same value in a       *)
(* bundle is kept beside it.                                                 *)
Scrub ==
  /\ at = "raw" /\ (Over(raw) => Truncate)
  /\ \E p \in {ScrubBytes(raw)} : val' = p.b /\ hits' = p.n /\ drift' = p.drift
  /\ bundle' = ScrubFields(raw).b
  /\ at' = "scrubbed"
  /\ UNCHANGED raw
(* A timeout, a failing rule, a cancelled call or bytes that are no text:    *)
(* there is no partial value.                                                *)
FailClosed ==
  /\ at = "raw"
  /\ at' = "failed" /\ UNCHANGED <<val, raw, bundle, hits, drift>>
RefuseLarge ==
  /\ at = "raw" /\ Over(raw) /\ ~Truncate
  /\ at' = "refused" /\ UNCHANGED <<val, raw, bundle, hits, drift>>
Persist ==
  /\ at = "scrubbed"
  /\ at' = IF BoundaryHit(val) THEN "refused" ELSE "persisted"
  /\ UNCHANGED <<val, raw, bundle, hits, drift>>
(* The hub scrubs what it receives, and puts it through the same door.       *)
Receive ==
  /\ at = "persisted"
  /\ \E p \in {ScrubBytes(val)} : bundle' = p.b /\ hits' = p.n
  /\ at' = "again" /\ UNCHANGED <<val, raw, drift>>
Next == Scrub \/ FailClosed \/ RefuseLarge \/ Persist \/ Receive
Spec == Init /\ [][Next]_vars
-----------------------------------------------------------------------------
TypeOK ==
  /\ at \in {"raw", "scrubbed", "failed", "persisted", "refused", "again"}
  /\ hits \in Nat /\ drift \in BOOLEAN
  /\ \A b \in {val, bundle} : Range(b) \subseteq UNION {Range(p) : p \in Phrases} \union Markers

(* A value that passed the ledger's door and fits its budget is left as it   *)
(* is by the hub's own scrub, which redacts nothing (scrubOne, pass,         *)
(* boundaryHitFor).                                                          *)
FixedPoint == at = "again" /\ ~Over(val) => bundle = val /\ hits = 0

(* A name the prefilter does not know and a pattern does.                    *)
OnlyPatternsSee(b) == "wide" \in Range(b)

(* So it is wherever the first scrub's reservations held, unless the value   *)
(* has a name the prefilter does not know: the markers of the first scrub    *)
(* may let the second see it.                                                *)
SettledIsFixed == ~drift /\ ~OnlyPatternsSee(val) => FixedPoint

(* A value whose reservations were still true when they were used comes out  *)
(* the same alone and in a bundle (pass, ScrubFields).                       *)
AloneAsInBundle == at = "scrubbed" /\ ~drift => bundle = val

(* The prefilter changes no outcome: what is scrubbed is what the whole      *)
(* table run over the value gives, though the words of other rules' names    *)
(* open and close a rule's gate, and unless the value has a name spelt with  *)
(* a letter the prefilter does not fold (fire, ruleGated, tableFor).         *)
Ungated(b) == Walk(Kept(b), Table, [on |-> FALSE, matched |-> {}], FALSE).b \o CutMark(b)
GateNeutral == at = "scrubbed" /\ ~OnlyPatternsSee(raw) => val = Ungated(raw)

(* A configured public key survives every rule that swallows it, and no      *)
(* placeholder is left in its place (protect, applyRuleSpans, restore).      *)
KeysKept == at \in {"scrubbed", "persisted", "again"} =>
  /\ \A k \in ShieldKeys : k \in Range(Kept(raw)) => k \in Range(val)
  /\ Range(val) \intersect Placeholders = {}

(* The ledger's door refuses what was scrubbed only where a reservation had  *)
(* drifted, where a header's line held a value that an earlier rule had      *)
(* redacted, where a flag's path, exempt in the text, ends a line and runs   *)
(* on into the escape as it is written, or where a marker lets the door see  *)
(* a name the first prefilter did not (regexSpans, boundaryHitFor,           *)
(* filterPathExemptSpans, prepare).                                          *)
HeaderMixed(b) == \E i \in DOMAIN b : b[i] = "hdr" /\ Redacted(b, [lo |-> i, hi |-> Line(b, i)])
PathRunsOn(b) == \E i \in 2..Len(b) : b[i - 1] = "path" /\ b[i] = "nl"
RefusedForCause ==
  at = "refused" =>
    \/ drift \/ HeaderMixed(val) \/ PathRunsOn(val) \/ OnlyPatternsSee(val)
    \/ Over(raw) /\ ~Truncate
=============================================================================
