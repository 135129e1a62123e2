----------------------------- MODULE TokenStore -----------------------------
(***************************************************************************)
(* The dashboard's token file (internal/dashboard/tokens.go) and everyone  *)
(* who writes it: the daemon, whose requests re-read the file when its     *)
(* stat changed and write it back to note that a token was used, and the   *)
(* `trouble dashboard token` commands (cmd/trouble/main.go), each a        *)
(* process of its own.  No lock spans the two processes, nor a daemon's    *)
(* load of its set and the rename of the file it made from that load.      *)
(*                                                                         *)
(* A file is [exists, ver, bad, toks]: ver stands for its mtime and size,  *)
(* bad for the entries no reader understands, toks for the others in file  *)
(* order.  A token is [id, hash, rev]; its hash is the number of its mint, *)
(* 32 random bytes never drawn twice.  A set in memory has ver = 0 when    *)
(* it has no mtime, as a set that is missing or invalid does.              *)
(***************************************************************************)
EXTENDS Naturals, FiniteSets, Sequences, SequencesExt

CONSTANTS
  Requests,     \* requests of the daemon
  Commands,     \* runs of the token command
  NextLabel,    \* of each label, label + "+" + date, the label Rotate mints
  Initial,      \* the labels in the file at boot; none: no file
  MaxWrites     \* bound on the renames over the file

VARIABLES
  file,      \* the token file
  cur,       \* the daemon's set (TokenStore.cur)
  refused,   \* booted without a file and none seen since (TokenStore.refused)
  noted,     \* labels whose use was written within the last 60 s
  req,       \* the requests
  cmd,       \* the commands
  minted,    \* how many tokens were minted
  told,      \* what operators were told: hashes [minted, revoked], and the entries not understood
  lost       \* whether a store or a rename undid one its writer had not seen

vars == <<file, cur, refused, noted, req, cmd, minted, told, lost>>

Absent == [exists |-> FALSE, ver |-> 0, bad |-> 0, toks |-> <<>>]
Invalid == [ver |-> 0, bad |-> 0, toks |-> <<>>, invalid |-> TRUE, missing |-> FALSE]

(* readFileIntoSet: the parsed file, entries it cannot read set aside. *)
SetOf(f) == [ver |-> f.ver, bad |-> f.bad, toks |-> f.toks, invalid |-> FALSE, missing |-> ~f.exists]

(* byID: of two entries with one id the later one stays. *)
ById(toks) == FoldLeft(LAMBDA seen, t : Append(SelectSeq(seen, LAMBDA u : u.id # t.id), t), <<>>, toks)
Live(set, h) == ~set.invalid /\ \E t \in ToSet(set.toks) : t.hash = h /\ ~t.rev
Token(id, h) == [id |-> id, hash |-> h, rev |-> FALSE]
Revoked(toks, id) == [i \in DOMAIN toks |-> [toks[i] EXCEPT !.rev = @ \/ toks[i].id = id]]
Has(toks, id) == \E t \in ToSet(toks) : t.id = id

(***************************************************************************)
(* writeFile: a temporary file renamed over the store.  `read` is the      *)
(* version its content was made from.                                      *)
(***************************************************************************)
WriteFile(toks, bad, read) ==
  /\ file.ver < MaxWrites
  /\ file' = [exists |-> TRUE, ver |-> file.ver + 1, bad |-> bad, toks |-> toks]
  /\ lost' = (lost \/ read # file.ver)

-----------------------------------------------------------------------------
(* A request of the daemon: refusedOnlyServer, authenticate, markUsed. *)

IdleReq == [at |-> "idle", hash |-> 0, id |-> "none", ver |-> 0, there |-> FALSE, set |-> Invalid, revoked |-> {}]

(* The request arrives; refresh takes the file's stat before any lock. *)
Arrive(r, h) ==
  /\ req[r].at = "idle"
  /\ h <= minted
  /\ req' = [req EXCEPT ![r] = [IdleReq EXCEPT !.at = "stat", !.hash = h, !.ver = file.ver, !.there = file.exists, !.revoked = told.revoked]]
  /\ UNCHANGED <<file, cur, refused, noted, cmd, minted, told, lost>>

(* refresh, no file: a store that never had one stays, any other fails closed. *)
RefreshGone(r) ==
  /\ req[r].at = "stat"
  /\ ~req[r].there
  /\ cur' = IF cur.ver = 0 THEN cur ELSE Invalid
  /\ req' = [req EXCEPT ![r].at = "lookup"]
  /\ UNCHANGED <<file, refused, noted, cmd, minted, told, lost>>

(* A mutant: the file is read again when it has more or fewer tokens.      *)
Stale_BySize(r) == Len(cur.toks) # Len(file.toks)

(* refresh: a stat other than the set's own reloads the file, under reloadMu. *)
Stale(r) == req[r].ver # cur.ver

RefreshSeen(r) ==
  /\ req[r].at = "stat"
  /\ req[r].there
  /\ cur' = IF Stale(r) THEN SetOf(file) ELSE cur
  /\ refused' = (refused /\ ~Stale(r))
  /\ req' = [req EXCEPT ![r].at = "lookup"]
  /\ UNCHANGED <<file, noted, cmd, minted, told, lost>>

(* refusalCleared, invalid, Identify's lookup: served, or refused with 401 or 503. *)
Answered(r) == IF refused THEN "unserved" ELSE IF cur.invalid THEN "closed" ELSE IF Live(cur, req[r].hash) THEN "served" ELSE "denied"
IdOf(h) == IF Live(cur, h) THEN (CHOOSE t \in ToSet(cur.toks) : t.hash = h).id ELSE "none"
Lookup(r) ==
  /\ req[r].at = "lookup"
  /\ req' = [req EXCEPT ![r].at = Answered(r), ![r].id = IdOf(req[r].hash)]
  /\ UNCHANGED <<file, cur, refused, noted, cmd, minted, told, lost>>

(***************************************************************************)
(* markUsed: a use already written within 60 s, a set that went invalid    *)
(* and an entry revoked meanwhile are left; else the set just loaded is    *)
(* stored back with the time of use.                                       *)
(***************************************************************************)
Marks(id) == id \notin noted /\ ~cur.invalid /\ \E t \in ToSet(ById(cur.toks)) : t.id = id /\ ~t.rev
MarkUsed(r) ==
  /\ req[r].at = "served"
  /\ noted' = noted \cup {req[r].id}
  /\ req' = [req EXCEPT ![r] = IF Marks(req[r].id) THEN [@ EXCEPT !.at = "marking", !.set = cur] ELSE IdleReq]
  /\ UNCHANGED <<file, cur, refused, cmd, minted, told, lost>>

MarkStore(r) ==
  /\ req[r].at = "marking"
  /\ cur' = [req[r].set EXCEPT !.toks = ById(@)]
  /\ lost' = (lost \/ cur # req[r].set)
  /\ req' = [req EXCEPT ![r].at = "saving"]
  /\ UNCHANGED <<file, refused, noted, cmd, minted, told>>

(* Save: the set as it is now, which a reload may have replaced. *)
SaveLoad(r) ==
  /\ req[r].at = "saving"
  /\ req' = [req EXCEPT ![r] = IF cur.invalid THEN IdleReq ELSE [@ EXCEPT !.at = "renaming", !.set = cur]]
  /\ UNCHANGED <<file, cur, refused, noted, cmd, minted, told, lost>>

(* Save: the file written, or the write failed and nothing more is done. *)
SaveRename(r, ok) ==
  /\ req[r].at = "renaming"
  /\ IF ok THEN WriteFile(ById(req[r].set.toks), req[r].set.bad, req[r].set.ver) ELSE UNCHANGED <<file, lost>>
  /\ req' = [req EXCEPT ![r] = IF ok THEN [@ EXCEPT !.at = "reading"] ELSE IdleReq]
  /\ UNCHANGED <<cur, refused, noted, cmd, minted, told>>

SaveRead(r) ==
  /\ req[r].at = "reading"
  /\ cur' = SetOf(file)
  /\ req' = [req EXCEPT ![r] = IdleReq]
  /\ UNCHANGED <<file, refused, noted, cmd, minted, told, lost>>

(* The answer of a request that is not served is given. *)
Reject(r) ==
  /\ req[r].at \in {"unserved", "closed", "denied"}
  /\ req' = [req EXCEPT ![r] = IdleReq]
  /\ UNCHANGED <<file, cur, refused, noted, cmd, minted, told, lost>>

(* Sixty seconds pass for a label. *)
Forget(l) ==
  /\ noted' = noted \ {l}
  /\ UNCHANGED <<file, cur, refused, req, cmd, minted, told, lost>>

-----------------------------------------------------------------------------
(* A token command: LoadTokenStore, Mint, Rotate or Revoke, then Save. *)

IdleCmd == [at |-> "idle", verb |-> "none", label |-> "none", hash |-> 0, set |-> Invalid, drops |-> {}]

(* LoadTokenStore, then the verb's own checks on the loaded set. *)
Allowed(set, verb, l) ==
  \/ verb = "create"
  \/ verb = "revoke" /\ Has(set.toks, l)
  \/ verb = "rotate" /\ \E t \in ToSet(ById(set.toks)) : t.id = l /\ ~t.rev
Begin(c, verb, l) ==
  /\ cmd[c].at = "idle"
  /\ Allowed(SetOf(file), verb, l)
  /\ cmd' = [cmd EXCEPT ![c] = [IdleCmd EXCEPT !.at = "loaded", !.verb = verb, !.label = l, !.hash = IF verb = "revoke" THEN 0 ELSE minted + 1]]
  /\ minted' = IF verb = "revoke" THEN minted ELSE minted + 1
  /\ UNCHANGED <<file, cur, refused, noted, req, told, lost>>

(* rewrite reads the file again. *)
ReadBack(c) ==
  /\ cmd[c].at = "loaded"
  /\ cmd' = [cmd EXCEPT ![c].at = "read", ![c].set = SetOf(file)]
  /\ UNCHANGED <<file, cur, refused, noted, req, minted, told, lost>>

(* rewrite's mutation: add replaces the first entry of its id, Rotate appends. *)
Added(toks, t) ==
  IF Has(toks, t.id)
  THEN LET first == CHOOSE i \in DOMAIN toks : toks[i].id = t.id /\ \A j \in 1..(i - 1) : toks[j].id # t.id
       IN  [toks EXCEPT ![first] = t]
  ELSE Append(toks, t)
Mutated(toks, verb, l, h) ==
  CASE verb = "create" -> Added(toks, Token(l, h))
    [] verb = "rotate" -> Append(Revoked(toks, l), Token(NextLabel[l], h))
    [] verb = "revoke" -> Revoked(toks, l)
Hashes(toks) == {t.hash : t \in ToSet(toks)}
LiveIn(toks) == {t.hash : t \in {u \in ToSet(toks) : ~u.rev}}

Rewrite(c) ==
  /\ cmd[c].at = "read"
  /\ WriteFile(Mutated(cmd[c].set.toks, cmd[c].verb, cmd[c].label, cmd[c].hash), cmd[c].set.bad, cmd[c].set.ver)
  /\ cmd' = [cmd EXCEPT ![c].at = "reload",
       ![c].drops = LiveIn(cmd[c].set.toks) \ LiveIn(ById(Mutated(cmd[c].set.toks, cmd[c].verb, cmd[c].label, cmd[c].hash)))]
  /\ UNCHANGED <<cur, refused, noted, req, minted, told>>

Reload(c) ==
  /\ cmd[c].at = "reload"
  /\ cmd' = [cmd EXCEPT ![c].at = "save", ![c].set = SetOf(file)]
  /\ UNCHANGED <<file, cur, refused, noted, req, minted, told, lost>>

(* The command's own Save, which writes one entry for each id, and its last word. *)
Conclude(c) ==
  /\ cmd[c].at = "save"
  /\ WriteFile(ById(cmd[c].set.toks), cmd[c].set.bad, cmd[c].set.ver)
  /\ told' = [told EXCEPT !.minted = @ \cup ({cmd[c].hash} \ {0}), !.revoked = @ \cup cmd[c].drops]
  /\ cmd' = [cmd EXCEPT ![c] = [IdleCmd EXCEPT !.at = "done"]]
  /\ UNCHANGED <<cur, refused, noted, req, minted>>

-----------------------------------------------------------------------------
(* An operator removes the file. *)
Delete ==
  /\ file.exists
  /\ file.ver < MaxWrites
  /\ file' = [Absent EXCEPT !.ver = file.ver + 1]
  /\ told' = [told EXCEPT !.revoked = @ \cup LiveIn(file.toks), !.bad = 0]
  /\ UNCHANGED <<cur, refused, noted, req, cmd, minted, lost>>

(* The file of the boot, with one entry no reader understands. *)
First ==
  IF Initial = <<>> THEN Absent
  ELSE [exists |-> TRUE, ver |-> 1, bad |-> 1, toks |-> [i \in DOMAIN Initial |-> Token(Initial[i], i)]]

Init ==
  /\ file = First
  /\ cur = SetOf(First)
  /\ refused = ~First.exists
  /\ noted = {}
  /\ req = [r \in Requests |-> IdleReq]
  /\ cmd = [c \in Commands |-> IdleCmd]
  /\ minted = Len(First.toks)
  /\ told = [minted |-> 1..Len(First.toks), revoked |-> {}, bad |-> First.bad]
  /\ lost = FALSE

Serve(r) == RefreshGone(r) \/ RefreshSeen(r) \/ Lookup(r) \/ MarkUsed(r) \/ MarkStore(r) \/ SaveLoad(r) \/ (\E ok \in BOOLEAN : SaveRename(r, ok)) \/ SaveRead(r) \/ Reject(r)
Run(c) == ReadBack(c) \/ Rewrite(c) \/ Reload(c) \/ Conclude(c)

Next ==
  \/ \E r \in Requests : Serve(r) \/ \E h \in 1..minted : Arrive(r, h)
  \/ \E l \in noted : Forget(l)
  \/ \E c \in Commands : Run(c) \/ \E verb \in {"create", "rotate", "revoke"}, l \in DOMAIN NextLabel : Begin(c, verb, l)
  \/ Delete

Spec == Init /\ [][Next]_vars

-----------------------------------------------------------------------------
(***************************************************************************)
(* TypeOK: the stages a request and a command go through, and a set whose  *)
(* mtime is that of a file that was there.                                 *)
(***************************************************************************)
TypeOK ==
  /\ file.ver \in 0..MaxWrites /\ cur.ver <= file.ver
  /\ \A r \in Requests : req[r].at \in {"idle", "stat", "lookup", "unserved", "closed", "denied", "served", "marking", "saving", "renaming", "reading"}
  /\ \A c \in Commands : cmd[c].at \in {"idle", "loaded", "read", "reload", "save", "done"}
  /\ told.minted \subseteq 1..minted /\ told.revoked \subseteq 1..minted

(***************************************************************************)
(* RevokedIsRefused: a request that arrives after a revoke or a rotation   *)
(* said it was done is not served on the token it took away (lookup), as   *)
(* long as no writer renamed over a file it had not read: neither the      *)
(* daemon's copy nor its own writes of last_used_ts bring the token back.  *)
(***************************************************************************)
NotServed == \A r \in Requests : req[r].at = "served" => req[r].hash \notin req[r].revoked
RevokedIsRefused == ~lost => NotServed

(***************************************************************************)
(* TokensKept: unless such an overlap happened, every token a command      *)
(* printed and none took away is live in the file: no write of the daemon  *)
(* or of a later command drops it (Save writes what it holds by id).       *)
(***************************************************************************)
TokensKept == ~lost => (told.minted \ told.revoked) \ UNION {cmd[c].drops : c \in Commands} \subseteq LiveIn(file.toks)

(***************************************************************************)
(* QuarantinedKept: an entry no reader understands outlives every rewrite  *)
(* and every overlap of them, until the operator removes the file          *)
(* (tokenFile.Raw, tokenSet.skipped).                                      *)
(***************************************************************************)
QuarantinedKept == file.exists => file.bad >= told.bad

(***************************************************************************)
(* RefusalClears: a daemon that booted without a token file serves a token *)
(* minted since, without a restart: a request that saw the file is not     *)
(* turned away by the boot's refusal (refusedOnlyServer.refusalCleared).   *)
(***************************************************************************)
RefusalClears == \A r \in Requests : (req[r].at = "unserved") => ~req[r].there

=============================================================================
