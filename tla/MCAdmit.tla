------------------------------ MODULE MCAdmit ------------------------------
(* Two instances of LadderAdmission in one run: "apart" has sigs with keys *)
(* of their own and replays beyond the remembered events, "mixed" two sigs *)
(* that share a key, and every move.                                       *)
EXTENDS LadderAdmission

VARIABLE scene

Ob(ev, sig, key, source) == [ev |-> ev, sig |-> sig, key |-> key, rule |-> "rule", source |-> source]

TwoSigs == {"s1", "s2"}
TwoKeys == {"k1", "k2"}

(* Three events: two sources of one sig, and a second sig with its own key.*)
Apart == {Ob("e1", "s1", "k1", "dbus"), Ob("e2", "s1", "k1", "journald"),
          Ob("e3", "s2", "k2", "dbus")}

(* Two sigs of one key and a third with its own.                           *)
Mixed == {Ob("e1", "s1", "k1", "dbus"), Ob("e2", "s2", "k1", "dbus"), Ob("e3", "s3", "k2", "dbus")}

ThreeSigs == {"s1", "s2", "s3"}
CoreMoves == {"escalate", "refuse", "trip", "fault"}

M == INSTANCE LadderAdmission WITH
  Obs <- Mixed, Sigs <- ThreeSigs, Cooldown <- TRUE, MaxSeen <- 2,
  Moves <- AllMoves, MaxArrivals <- 3

SceneInit == \/ scene = "apart" /\ Init
             \/ scene = "mixed" /\ M!Init
SceneNext == \/ scene = "apart" /\ Next /\ UNCHANGED scene
             \/ scene = "mixed" /\ M!Next /\ UNCHANGED scene

SceneSpec == SceneInit /\ [][SceneNext]_<<vars, scene>>

(* The first instance alone.                                               *)
ApartInit == scene = "apart" /\ Init
ApartSpec == ApartInit /\ [][Next /\ UNCHANGED scene]_<<vars, scene>>

(* The indexes and the incidents agree, and the ledger shows one open      *)
(* incident per sig (newIncidentLocked, Advance; SPEC-05 INV-1).           *)
ApartIndexExact == scene = "apart" => IndexExact /\ OneOpenPerSig

(* An arrival is never absorbed by a finished incident (Admit).            *)
ApartArrivalFindsWork ==
  [][scene = "apart" /\ arrivals' # arrivals /\ reply'.how \in {"folded", "merged", "reopened", "created"}
        => incs'[reply'.inc].state \notin {"resolved", "escalated"}]_vars

(* The admission maps have their types and never lead an arrival to a      *)
(* stranger (ladder.go's Ladder, Admit).                                   *)
MixedEntriesHome == scene = "mixed" => M!TypeOK /\ M!EntriesHome
=============================================================================
