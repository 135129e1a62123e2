---------------------------- MODULE ConsoleAuth ----------------------------
(***************************************************************************)
(* What stands between a request and a dashboard handler, in the order     *)
(* authenticate (auth.go) applies it: the throttle on failed credentials,  *)
(* the health exemption, the identity, the scope, the CSRF check (csrf.go) *)
(* and the buckets that pace the good tokens (ratelimit.go).               *)
(*                                                                         *)
(* A request presents a credential, from an address, on a route.  The      *)
(* credential "none" stands for no carrier, two different ones or a value  *)
(* that cannot be a token; the others satisfy the token grammar, and those *)
(* in Scopes are in the token store.  Time is counted in ticks.            *)
(*                                                                         *)
(* Requests run at the same time.  Each reads the clock once, and each of  *)
(* its calls to the throttle, to a bucket map and to a bucket is a lock    *)
(* section, and a step, of its own.                                        *)
(***************************************************************************)
EXTENDS Integers, FiniteSets, Sequences, SequencesExt

CONSTANTS
  Requests,     \* requests under way at the same time
  Creds,        \* grammar-valid credentials presented
  Scopes,       \* of each token in the store, the scopes it expands to
  Addresses,    \* client addresses
  Loopback,     \* bound to loopback with health_loopback_exempt
  FailLimit, FailWindow,                      \* auth_fail_limit, auth_fail_window
  ReadRate, ReadBurst, WriteRate, WriteBurst, \* rate.*, tokens a tick; the rates are positive
  Idle,         \* how long a bucket stands unused before a reap may drop it, enough to fill it
  MaxTime, MaxRequests, MaxReaps              \* bounds

VARIABLES
  now,
  fails,     \* authThrottle.fails, times of the failures of each key
  block,     \* authThrottle.block, until when; 0 for none
  buckets,   \* limiter.readBuckets and writeBuckets: [in, tokens, last], in the map or not; last = -1 for zero
  req,       \* the requests: [pc, cred, ip, route, at, seen, keys, ok, own]
  touched,   \* of each key, how often a request has changed its throttle
  raced,     \* of each key, the failures of requests whose clock was read before another changed it
  spare,     \* of each bucket, the tokens taken from one already dropped from its map
  n,         \* requests so far
  reaps,     \* reaps so far
  answers,   \* what each request got, by tick: [key or token, kind, at] -> how many
  last       \* the last answer

vars == <<now, fails, block, buckets, req, touched, raced, spare, n, reaps, answers, last>>

(***************************************************************************)
(* throttleKey: a credential that could be a token is counted by itself,   *)
(* every other request by its address.                                     *)
(***************************************************************************)
Key(c, ip) == IF c \in Creds THEN <<"cred", c>> ELSE <<"ip", ip>>
Keys == {<<"cred", c>> : c \in Creds} \cup {<<"ip", ip>> : ip \in Addresses}

Routes == {"page", "health", "write", "autonomy"}
Required(route) == CASE route = "write" -> "write" [] route = "autonomy" -> "autonomy" [] OTHER -> "read"
Writes(route) == route \in {"write", "autonomy"}

(* scopeSet.has, of the scopes a token expands to. *)
Permitted(c, route) == Required(route) \in Scopes[c]

(* authThrottle.blocked: a block that lapsed is deleted by the question. *)
Blocked(k, at) == at < block[k]

(* authThrottle.fail: failures of the window and this one. *)
Recent(k, at) == SelectSeq(fails[k], LAMBDA t : t > at - FailWindow)
Trips(k, at) == Len(Recent(k, at)) + 1 > FailLimit

(* readTake takes from the token's bucket and then from the address's. *)
ReadKeys(c, ip) == << <<"r", c>>, <<"i", ip>> >>
WriteKey(c) == <<"w", c>>
BucketKeys == {<<"r", c>> : c \in Creds} \cup {<<"i", ip>> : ip \in Addresses} \cup {WriteKey(c) : c \in Creds}
Rate(k) == IF k[1] = "w" THEN WriteRate ELSE ReadRate
Burst(k) == IF k[1] = "w" THEN WriteBurst ELSE ReadBurst
AtMost(x, m) == IF x < m THEN x ELSE m

(* bucket.take: a clock read before the bucket's last use adds nothing. *)
Absent == [in |-> FALSE, tokens |-> 0, last |-> -1]
Filled(k, b, at) ==
  CASE b.last < 0 -> [b EXCEPT !.tokens = Burst(k), !.last = at]
    [] at > b.last -> [b EXCEPT !.tokens = AtMost(Burst(k), @ + (at - b.last) * Rate(k)), !.last = at]
    [] OTHER -> b
Has(k, b, at) == Filled(k, b, at).tokens >= 1
Taken(k, b, at) == [Filled(k, b, at) EXCEPT !.tokens = IF @ >= 1 THEN @ - 1 ELSE @]

(* limiter.reap: of the map that holds the new bucket, those unused for Idle, *)
(* and those no request has taken from yet, whose last use is the zero time.  *)
Dropped(map, at) == {k \in BucketKeys : map[k].in /\ (map[k].last < 0 \/ at - map[k].last > Idle)}

(* Counting the answers, for the properties. *)
Note(who, kind, at) ==
  answers' = IF <<who, kind, at>> \in DOMAIN answers
             THEN [answers EXCEPT ![<<who, kind, at>>] = @ + 1]
             ELSE [a \in DOMAIN answers \cup {<<who, kind, at>>} |-> IF a \in DOMAIN answers THEN answers[a] ELSE 1]

-----------------------------------------------------------------------------
None == [pc |-> "idle", cred |-> "none", ip |-> "none", route |-> "page", at |-> 0, seen |-> 0, keys |-> <<>>, ok |-> TRUE, own |-> Absent]
KeyOf(q) == Key(req[q].cred, req[q].ip)

(* The request is over. *)
Answer(q, what) == last' = [what |-> what, cred |-> req[q].cred] /\ req' = [req EXCEPT ![q] = None]

(* authenticate reads the clock. *)
Arrive(q, c, ip, route) ==
  /\ req[q].pc = "idle" /\ n < MaxRequests /\ n' = n + 1
  /\ req' = [req EXCEPT ![q] = [None EXCEPT !.pc = "arrived", !.cred = c, !.ip = ip, !.route = route, !.at = now,
                                             !.seen = touched[Key(c, ip)]]]
  /\ UNCHANGED <<now, fails, block, buckets, touched, raced, spare, reaps, answers, last>>

(* blocked, and the health route that needs no credential. *)
Exempt(route) == Loopback /\ route = "health"
Ask(q) ==
  LET k == KeyOf(q) IN
  /\ req[q].pc = "arrived"
  /\ IF Blocked(k, req[q].at)
     THEN Answer(q, "throttled") /\ UNCHANGED block
     ELSE /\ block' = [block EXCEPT ![k] = 0]
          /\ IF Exempt(req[q].route) THEN Answer(q, "served")
             ELSE /\ req' = [req EXCEPT ![q].pc = "asked", ![q].seen = IF block[k] # 0 THEN @ + 1 ELSE @]
                  /\ UNCHANGED last
  /\ touched' = IF block'[k] # block[k] THEN [touched EXCEPT ![k] = @ + 1] ELSE touched
  /\ UNCHANGED <<now, fails, buckets, raced, spare, n, reaps, answers>>

(* Identify failed: 401, or 429 once the failures of the window are too many. *)
Fail(q) ==
  LET k == KeyOf(q) at == req[q].at IN
  /\ req[q].pc = "asked" /\ req[q].cred \notin DOMAIN Scopes
  /\ IF Trips(k, at)
     THEN /\ block' = [block EXCEPT ![k] = at + FailWindow]
          /\ fails' = [fails EXCEPT ![k] = <<>>]
          /\ Answer(q, "throttled") /\ UNCHANGED answers
     ELSE /\ fails' = [fails EXCEPT ![k] = Append(Recent(k, at), at)]
          /\ Answer(q, "denied") /\ Note(k, "denied", at) /\ UNCHANGED block
  /\ touched' = [touched EXCEPT ![k] = @ + 1]
  /\ raced' = IF touched[k] # req[q].seen THEN [raced EXCEPT ![k] = @ + 1] ELSE raced
  /\ UNCHANGED <<now, buckets, spare, n, reaps>>

(* Authenticated: the key's failures are forgotten.  Then come the scope    *)
(* and the CSRF check of a write, which may refuse mixed carriers, a        *)
(* foreign origin, a missing value where the cookie is the carrier, or one  *)
(* that is not this token's of this hour or the last.                       *)
Succeed(q) ==
  LET k == KeyOf(q) c == req[q].cred route == req[q].route IN
  /\ req[q].pc = "asked" /\ c \in DOMAIN Scopes
  /\ fails' = [fails EXCEPT ![k] = <<>>]
  /\ touched' = [touched EXCEPT ![k] = @ + 1]
  /\ \/ ~Permitted(c, route) /\ Answer(q, "forbidden")
     \/ Permitted(c, route) /\ Writes(route) /\ Answer(q, "forged")
     \/ /\ Permitted(c, route) /\ UNCHANGED last
        /\ req' = [req EXCEPT ![q].pc = "look", ![q].keys = IF Writes(route) THEN <<WriteKey(c)>> ELSE ReadKeys(c, req[q].ip)]
  /\ UNCHANGED <<now, block, buckets, raced, spare, n, reaps, answers>>

(* limiter.take: the bucket is found, or made; every so often making one    *)
(* reaps.  Whoever holds a bucket that is dropped goes on with it.          *)
Look(q, reap) ==
  LET k == Head(req[q].keys)
      made == [buckets EXCEPT ![k].in = TRUE]
      gone == IF reap THEN Dropped(made, req[q].at) ELSE {}
      Holds(r) == IF r = q THEN k \in gone ELSE req[r].pc = "take" /\ req[r].own = Absent /\ Head(req[r].keys) \in gone
  IN
  /\ req[q].pc = "look"
  /\ reap => ~buckets[k].in /\ reaps < MaxReaps
  /\ buckets' = [b \in BucketKeys |-> IF b \in gone THEN Absent ELSE made[b]]
  /\ req' = [r \in Requests |->
               LET mine == IF r = q THEN [req[r] EXCEPT !.pc = "take", !.own = Absent] ELSE req[r]
               IN  IF Holds(r) THEN [mine EXCEPT !.own = made[Head(mine.keys)]] ELSE mine]
  /\ reaps' = IF reap THEN reaps + 1 ELSE reaps
  /\ UNCHANGED <<now, fails, block, touched, raced, spare, n, answers, last>>

(* bucket.take, of every bucket even when the first was empty. *)
Take(q) ==
  LET k == Head(req[q].keys)
      orphan == req[q].own # Absent
      b == IF orphan THEN req[q].own ELSE buckets[k]
      ok == Has(k, b, req[q].at)
      rest == Tail(req[q].keys)
  IN
  /\ req[q].pc = "take"
  /\ buckets' = IF orphan THEN buckets ELSE [buckets EXCEPT ![k] = Taken(k, b, req[q].at)]
  /\ spare' = IF orphan /\ ok THEN [spare EXCEPT ![k] = @ + 1] ELSE spare
  /\ IF rest # <<>>
     THEN req' = [req EXCEPT ![q].pc = "look", ![q].keys = rest, ![q].ok = ok] /\ UNCHANGED <<answers, last>>
     ELSE IF ok /\ req[q].ok
     THEN Answer(q, "served") /\ Note(<<"token", req[q].cred>>, Required(req[q].route), req[q].at)
     ELSE Answer(q, "limited") /\ UNCHANGED answers
  /\ UNCHANGED <<now, fails, block, touched, raced, n, reaps>>

Tick ==
  /\ now < MaxTime
  /\ now' = now + 1
  /\ UNCHANGED <<fails, block, buckets, req, touched, raced, spare, n, reaps, answers, last>>

Init ==
  /\ now = 0
  /\ fails = [k \in Keys |-> <<>>] /\ block = [k \in Keys |-> 0]
  /\ buckets = [k \in BucketKeys |-> Absent]
  /\ req = [q \in Requests |-> None]
  /\ touched = [k \in Keys |-> 0] /\ raced = [k \in Keys |-> 0] /\ spare = [k \in BucketKeys |-> 0]
  /\ n = 0 /\ reaps = 0
  /\ answers = [a \in {} |-> 0]
  /\ last = [what |-> "none", cred |-> "none"]

Next ==
  \/ Tick
  \/ \E q \in Requests :
       \/ \E c \in Creds \cup {"none"}, ip \in Addresses, route \in Routes : Arrive(q, c, ip, route)
       \/ Ask(q) \/ Fail(q) \/ Succeed(q) \/ Take(q)
       \/ \E reap \in BOOLEAN : Look(q, reap)

Spec == Init /\ [][Next]_vars

-----------------------------------------------------------------------------
Count(who, kind, from) ==
  LET at == {a \in DOMAIN answers : a[1] = who /\ a[2] = kind /\ a[3] >= from}
  IN  FoldLeft(LAMBDA x, a : x + answers[a], 0, SetToSeq(at))

(***************************************************************************)
(* RefusalsBounded: no identity gets more than auth_fail_limit 401 answers *)
(* within auth_fail_window, blocks that lapse included; each request that  *)
(* had read its clock before another changed its identity's throttle can   *)
(* wipe the count once and lets one more limit through (authThrottle).     *)
(***************************************************************************)
RefusalsBounded ==
  \A k \in Keys : \A t \in 0..now :
    Count(k, "denied", t) <= FailLimit * (1 + ((now - t) \div FailWindow) + raced[k])

(***************************************************************************)
(* GoodNeverThrottled: a token of the store is never throttled by failures *)
(* it did not make, whatever its address sends (throttleKey).              *)
(***************************************************************************)
GoodNeverThrottled == last.what = "throttled" => last.cred \notin DOMAIN Scopes

(***************************************************************************)
(* Paced: over any stretch of time a token is served at most its burst and *)
(* what its rate adds, though idle buckets are dropped and several         *)
(* addresses share the token; beyond that it is served only from buckets   *)
(* that were dropped from their map in its hands (bucket.take, reap).      *)
(***************************************************************************)
Paced ==
  \A c \in DOMAIN Scopes, t \in 0..now :
    /\ Count(<<"token", c>>, "read", t) <= ReadBurst + ReadRate * (now - t) + spare[<<"r", c>>]
    /\ \A kind \in {"write", "autonomy"} :
         Count(<<"token", c>>, kind, t) <= WriteBurst + WriteRate * (now - t) + spare[WriteKey(c)]
=============================================================================
