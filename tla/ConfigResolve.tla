--------------------------- MODULE ConfigResolve ---------------------------
(***************************************************************************)
(* The configuration of a boot: the daemon's split of argv                 *)
(* (cmd/troubled/main.go), the reader of the configuration file, the       *)
(* environment and the flags, and Resolve, which lays them over each other *)
(* and over the defaults (lifecycle/config.go).                            *)
(*                                                                         *)
(* A name is the sequence of its dotted parts.  A value is [t, s]: a type  *)
(* and a text.  Texts are atoms; which of them a parser accepts and what   *)
(* a text with a dash or a tilde becomes is given by constants.  A key is  *)
(* of one of the kinds the registry's setters have.                        *)
(***************************************************************************)
EXTENDS Naturals, Sequences, SequencesExt, FiniteSets

CONSTANTS
  Kind,       \* of each registered key: "path", "bool", "int", "list", "table" or "rows"
  Default,    \* of each registered key, its compiled value
  Undash,     \* of each text with a dash, the text with dots in their place
  AtHome,     \* of each text that begins with a tilde, the path it stands for
  Words, Lines, Vars,            \* what argv, the file and the environment may hold
  MaxWords, MaxLines, MaxVars    \* bounds on their lengths

VARIABLES
  stage,     \* what is being read; "done" or "refused" at the end
  argv,      \* the words of the command line
  wait,      \* --config stands last and takes the next word
  keys,      \* the words forwarded to the resolver
  text,      \* the file's lines
  toml,      \* the file's reader: [section, rows, seen, vals, docs]
  env,       \* the environment, in order
  layers,    \* what each source declares: [file, env, flag], functions from keys
  config,    \* of each key the value in force
  explain,   \* of each key its row, [source, value]
  conflicts  \* rows of TROUBLE-LIFECYCLE-002, <<key, winner, loser>>

vars == <<stage, argv, wait, keys, text, toml, env, layers, config, explain, conflicts>>

Keys == DOMAIN Kind
Nothing == [k \in {} |-> 0]
Set(f, k, v) == [x \in DOMAIN f \cup {k} |-> IF x = k THEN v ELSE f[x]]
Str(s) == [t |-> "str", s |-> s]
StateRoot == <<"state_root">>
TokenFile == <<"dashboard", "token_file">>
Derived == {<<"lifecycle", "heartbeat_path">>}

(* strconv.ParseBool and ParseInt, over the texts that can occur. *)
ParseBool(s) == IF s \in {"true", "1"} THEN "true" ELSE IF s \in {"false", "0"} THEN "false" ELSE "bad"
ParseInt(s) == IF s \in {"0", "1", "2"} THEN s ELSE "bad"

(* asString, whose error the callers that compare values drop. *)
AsString(v) == IF v.t \in {"str", "bool", "int", "any"} THEN v.s ELSE ""

-----------------------------------------------------------------------------
(* splitDaemonArgs: forms are own, wait, pair, bare, plain and short. *)

Word(w) ==
  /\ stage = "argv"
  /\ Len(argv) < MaxWords
  /\ argv' = Append(argv, w)
  /\ wait' = (~wait /\ w.form = "wait")
  /\ keys' = IF ~wait /\ w.form \in {"pair", "bare", "plain"} THEN Append(keys, w) ELSE keys
  /\ stage' = IF ~wait /\ w.form = "short" THEN "refused" ELSE "argv"
  /\ UNCHANGED <<text, toml, env, layers, config, explain, conflicts>>

EndArgv ==
  /\ stage = "argv"
  /\ stage' = IF wait THEN "refused" ELSE "file"
  /\ UNCHANGED <<argv, wait, keys, text, toml, env, layers, config, explain, conflicts>>

-----------------------------------------------------------------------------
(* parseTOMLFile, one line at a time. *)

(* parseTOMLValue: quoted text is a string, else what it looks like. *)
Literal(l) ==
  CASE l.list -> [t |-> "any", s |-> l.val]
    [] l.quoted -> Str(l.val)
    [] ~l.quoted /\ l.val \in {"true", "false"} -> [t |-> "bool", s |-> l.val]
    [] ~l.quoted /\ ParseInt(l.val) # "bad" -> [t |-> "int", s |-> l.val]
    [] OTHER -> Str(l.val)

(* repeatedTable: the table itself or one below it was declared. *)
Repeated(name) == \E prev \in toml.seen : IsPrefix(name, prev)

(* appendTableDoc: a line is part of the document of its root. *)
Doc(docs, root, l) == IF root = "" THEN docs ELSE Set(docs, root, IF root \in DOMAIN docs THEN Append(docs[root], l) ELSE <<l>>)
DottedRoot(name) == IF Len(name) > 1 THEN name[1] ELSE ""

RowsLine(l) == toml' = [toml EXCEPT !.section = <<>>, !.rows = l.name, !.docs = Doc(@, l.name[1], l),
    !.vals = Set(@, l.name, [t |-> "rows", n |-> IF l.name \in DOMAIN @ /\ @[l.name].t = "rows" THEN @[l.name].n + 1 ELSE 1])]
TableLine(l) == toml' = [toml EXCEPT !.section = l.name, !.rows = <<>>, !.seen = @ \cup {l.name}, !.docs = Doc(@, l.name[1], l)]

KeyLine(l) ==
  IF toml.rows # <<>> THEN toml' = [toml EXCEPT !.docs = Doc(@, toml.rows[1], l)]
  ELSE toml' = [toml EXCEPT !.vals = Set(@, toml.section \o l.name, Literal(l)),
                            !.docs = Doc(@, IF toml.section = <<>> THEN DottedRoot(l.name) ELSE toml.section[1], l)]

ReadLine(l) ==
  /\ stage = "file"
  /\ Len(text) < MaxLines
  /\ text' = Append(text, l)
  /\ IF l.form = "table" /\ Repeated(l.name) THEN stage' = "refused" /\ UNCHANGED toml
     ELSE /\ UNCHANGED stage
          /\ CASE l.form = "rows" -> RowsLine(l) [] l.form = "table" -> TableLine(l) [] l.form = "key" -> KeyLine(l)
  /\ UNCHANGED <<argv, wait, keys, env, layers, config, explain, conflicts>>

(* absorbTables: the keys below a registered table become its one value. *)
Tables == {k \in Keys : Kind[k] = "table"}
Absorbed(name) == Len(name) > 1 /\ <<name[1]>> \in Tables
Below(k) == {name \in DOMAIN toml.vals : Absorbed(name) /\ name[1] = k[1]}
FileKeys == {name \in DOMAIN toml.vals : ~Absorbed(name)} \cup {k \in Tables : Below(k) # {}}

(* expandHomeMap, on every source alike. *)
Home(v) == IF v.t \in {"str", "list", "any"} /\ v.s \in DOMAIN AtHome THEN [v EXCEPT !.s = AtHome[v.s]] ELSE v
FileLayer == [k \in FileKeys |-> IF k \in Tables /\ Below(k) # {} THEN [t |-> "table", s |-> k[1]] ELSE Home(toml.vals[k])]

(* The end of the file; an unknown key is refused. *)
EndFile ==
  /\ stage = "file"
  /\ stage' = IF FileKeys \subseteq Keys THEN "env" ELSE "refused"
  /\ layers' = [layers EXCEPT !.file = IF FileKeys \subseteq Keys THEN FileLayer ELSE @]
  /\ UNCHANGED <<argv, wait, keys, text, toml, env, config, explain, conflicts>>

-----------------------------------------------------------------------------
(* parseEnv: the value takes the type of the key's default; unknown names are left. *)
Coerced(k, s) ==
  CASE Kind[k] = "bool" -> [t |-> "bool", s |-> IF ParseBool(s) = "true" THEN "true" ELSE "false"]
    [] Kind[k] = "int" -> [t |-> "int", s |-> IF ParseInt(s) = "bad" THEN "0" ELSE s]
    [] Kind[k] = "list" -> [t |-> "list", s |-> s]
    [] OTHER -> Str(s)

ReadEnv(e) ==
  /\ stage = "env"
  /\ Len(env) < MaxVars
  /\ env' = Append(env, e)
  /\ layers' = IF e.key \in Keys THEN [layers EXCEPT !.env = Set(@, e.key, Home(Coerced(e.key, e.val)))] ELSE layers
  /\ UNCHANGED <<stage, argv, wait, keys, text, toml, config, explain, conflicts>>

EndEnv ==
  /\ stage = "env"
  /\ stage' = "flags"
  /\ UNCHANGED <<argv, wait, keys, text, toml, env, layers, config, explain, conflicts>>

-----------------------------------------------------------------------------
(***************************************************************************)
(* parseArgs: a pair has its dashes replaced before it is cut at its equal *)
(* sign, a bare key takes the next word unless that begins with a dash,    *)
(* and a word nobody takes is passed over.                                 *)
(***************************************************************************)
Sent(s) == IF s \in DOMAIN Undash THEN Undash[s] ELSE s
Takes(i) == keys[i].form = "bare" /\ i < Len(keys) /\ keys[i + 1].form = "plain"
Taken(i) == IF keys[i].form = "pair" THEN Sent(keys[i].val) ELSE IF Takes(i) THEN keys[i + 1].val ELSE "true"
FlagWords == {i \in DOMAIN keys : keys[i].form \in {"pair", "bare"}}
LastFlag(k) == CHOOSE i \in FlagWords : keys[i].key = k /\ \A j \in FlagWords : keys[j].key = k => j <= i

ParseArgs ==
  /\ stage = "flags"
  /\ stage' = IF \A i \in FlagWords : keys[i].key \in Keys THEN "overlay" ELSE "refused"
  /\ layers' = [layers EXCEPT !.flag = [k \in {keys[i].key : i \in FlagWords} |-> Home(Str(Taken(LastFlag(k))))]]
  /\ UNCHANGED <<argv, wait, keys, text, toml, env, config, explain, conflicts>>

-----------------------------------------------------------------------------
(* Resolve: flag over env over file over default. *)

(* A mutant: the environment is laid over the flags.                       *)
Source_EnvFirst(k) ==
  IF k \in DOMAIN layers.env THEN "env" ELSE IF k \in DOMAIN layers.flag THEN "flag" ELSE IF k \in DOMAIN layers.file THEN "file" ELSE "default"

Source(k) ==
  IF k \in DOMAIN layers.flag THEN "flag" ELSE IF k \in DOMAIN layers.env THEN "env" ELSE IF k \in DOMAIN layers.file THEN "file" ELSE "default"
Winner(k) == IF Source(k) = "default" THEN Default[k] ELSE layers[Source(k)][k]

LowerSources(src) == CASE src = "flag" -> {"env", "file"} [] src = "env" -> {"file"} [] OTHER -> {}
Conflicts ==
  {<<k, Source(k), src>> : k \in Keys, src \in {"env", "file"}}
    \cap {<<k, s, src>> \in Keys \X {"flag", "env", "file"} \X {"env", "file"} :
            s = Source(k) /\ src \in LowerSources(s) /\ k \in DOMAIN layers[src] /\ AsString(Winner(k)) # AsString(layers[src][k])}

(* The setters: the value in force, or "bad" for one the key's type refuses. *)
Bad == [t |-> "bad", s |-> ""]
SetPath(v) == IF v.t \in {"str", "bool", "int", "any"} THEN Str(v.s) ELSE Bad
SetBool(v) == IF v.t = "bool" \/ (v.t = "str" /\ ParseBool(v.s) # "bad") THEN [t |-> "bool", s |-> ParseBool(v.s)] ELSE Bad
SetInt(v) == IF v.t = "int" \/ (v.t = "str" /\ ParseInt(v.s) # "bad") THEN [t |-> "int", s |-> v.s] ELSE Bad
SetList(v) == IF v.t \in {"str", "list", "any"} THEN [t |-> "list", s |-> v.s] ELSE Bad
SetTable(v) == IF v.t = "table" \/ (v.t = "str" /\ v.s = "") THEN v ELSE Bad
SetRows(v) == IF v.t = "rows" \/ (v.t = "str" /\ v.s = "") THEN v ELSE Bad
Setter(kind, v) ==
  CASE kind = "path" -> SetPath(v) [] kind = "bool" -> SetBool(v) [] kind = "int" -> SetInt(v)
    [] kind = "list" -> SetList(v) [] kind = "table" -> SetTable(v) [] kind = "rows" -> SetRows(v)
Value(k) == Setter(Kind[k], Winner(k))

(***************************************************************************)
(* The token store goes below a state root the operator chose, and paths   *)
(* left empty go below the state root (postResolve).                       *)
(***************************************************************************)
Anchored == Source(TokenFile) = "default" /\ Source(StateRoot) # "default" /\ Value(StateRoot).s # ""
BelowRoot == [t |-> "below", s |-> Value(StateRoot).s]
PostResolve(k) ==
  IF (k = TokenFile /\ Anchored) \/ (k \in Derived /\ Value(k).s = "") THEN BelowRoot ELSE Value(k)

(* The explain row: the winner as it was given, the derived paths and the summaries as they came out. *)
Row(k) ==
  [source |-> Source(k),
   value |-> IF k \in Derived \/ Kind[k] \in {"table", "rows"} \/ (k = TokenFile /\ Anchored) THEN PostResolve(k) ELSE Winner(k)]

Overlay ==
  /\ stage = "overlay"
  /\ conflicts' = Conflicts
  /\ IF \E k \in Keys : Value(k) = Bad
     THEN stage' = "refused" /\ UNCHANGED <<config, explain>>
     ELSE /\ stage' = "done"
          /\ config' = [k \in Keys |-> PostResolve(k)]
          /\ explain' = [k \in Keys |-> Row(k)]
  /\ UNCHANGED <<argv, wait, keys, text, toml, env, layers>>

Init ==
  /\ stage = "argv"
  /\ argv = <<>> /\ keys = <<>> /\ text = <<>> /\ env = <<>>
  /\ wait = FALSE
  /\ toml = [section |-> <<>>, rows |-> <<>>, seen |-> {}, vals |-> Nothing, docs |-> Nothing]
  /\ layers = [file |-> Nothing, env |-> Nothing, flag |-> Nothing]
  /\ config = Nothing /\ explain = Nothing
  /\ conflicts = {}

Next ==
  \/ \E w \in Words : Word(w)
  \/ EndArgv
  \/ \E l \in Lines : ReadLine(l)
  \/ EndFile
  \/ \E e \in Vars : ReadEnv(e)
  \/ EndEnv \/ ParseArgs \/ Overlay

Spec == Init /\ [][Next]_vars

-----------------------------------------------------------------------------
(* What the operator wrote, read without the resolver's passes: the last   *)
(* declaration of a key in each source, as [t, s].                         *)

(* The section a line of the file stands in: 0 for none, else its header's index. *)
Header(i) == LET above == {j \in 1..(i - 1) : text[j].form # "key"} IN IF above = {} THEN 0 ELSE CHOOSE j \in above : \A h \in above : h <= j
InRows(i) == Header(i) # 0 /\ text[Header(i)].form = "rows"
NameAt(i) == IF Header(i) = 0 THEN text[i].name ELSE text[Header(i)].name \o text[i].name
DeclaringLines == {i \in DOMAIN text : text[i].form = "key" /\ ~InRows(i)}
LineOf(k) == {i \in DeclaringLines : NameAt(i) = k /\ \A j \in DeclaringLines : NameAt(j) = k => j <= i}
VarOf(k) == {i \in DOMAIN env : env[i].key = k /\ \A j \in DOMAIN env : env[j].key = k => j <= i}
Waits(i) == {j \in 1..(i - 1) : \A h \in j..(i - 1) : argv[h].form = "wait"}
OwnValue(i) == Cardinality(Waits(i)) % 2 = 1
WordOf(k) == {i \in DOMAIN argv : ~OwnValue(i) /\ argv[i].form \in {"pair", "bare"} /\ argv[i].key = k
               /\ \A j \in DOMAIN argv : (~OwnValue(j) /\ argv[j].form \in {"pair", "bare"} /\ argv[j].key = k) => j <= i}
Next_(i) == {j \in (i + 1)..Len(argv) : \A h \in (i + 1)..j : OwnValue(h) \/ argv[h].form \in {"own", "wait"} \/ h = j}
Follows(i) == {argv[j].val : j \in {h \in Next_(i) : ~OwnValue(h) /\ argv[h].form = "plain"}}
Scalar(k) == Kind[k] \in {"path", "bool", "int"}

(***************************************************************************)
(* HighestWins: the value in force is the one the operator wrote last in   *)
(* the highest of the sources that name the key, whatever the others hold  *)
(* (flag > env > file > default): the file's text in a section, the        *)
(* variable's value, the pair's text, the word after a bare key.  The one  *)
(* exception is a pair whose text holds a dash, which parseArgs replaces   *)
(* along with those of the key.                                            *)
(***************************************************************************)
Written(k) ==
  IF WordOf(k) # {}
  THEN {Home(Str(argv[i].val)) : i \in {j \in WordOf(k) : argv[j].form = "pair"}}
         \cup {Home(Str(v)) : v \in UNION {Follows(i) : i \in {j \in WordOf(k) : argv[j].form = "bare"}}}
  ELSE IF VarOf(k) # {} THEN {Home(Coerced(k, env[i].val)) : i \in VarOf(k)}
  ELSE IF LineOf(k) # {} THEN {Home(Literal(text[i])) : i \in LineOf(k)}
  ELSE {Default[k]}
Dashed(k) == \E i \in WordOf(k) : argv[i].form = "pair" /\ argv[i].val \in DOMAIN Undash
HighestWins ==
  stage = "done" =>
    \A k \in {x \in Keys : Scalar(x) /\ x \notin Derived \cup {TokenFile}} :
      \A v \in Written(k) : config[k] = Setter(Kind[k], v) \/ Dashed(k)

(***************************************************************************)
(* ExplainTrue: the explain row of a key shows the value in force, derived *)
(* paths and the anchored token store included (Resolve's last loop).      *)
(***************************************************************************)
Shown(k) == IF explain[k].value.t = "below" THEN explain[k].value ELSE Setter(Kind[k], explain[k].value)
ExplainTrue == stage = "done" => \A k \in Keys : Shown(k) = config[k]

(***************************************************************************)
(* DisagreementShown: two sources that would set a scalar key differently  *)
(* leave a conflict row that names the source in force (§3.1f).            *)
(***************************************************************************)
Declaring(k) == {src \in {"flag", "env", "file"} : k \in DOMAIN layers[src]}
DisagreementShown ==
  stage = "done" => \A k \in {x \in Keys : Scalar(x)} :
    (\E s1, s2 \in Declaring(k) : Setter(Kind[k], layers[s1][k]) # Setter(Kind[k], layers[s2][k]))
      => \E c \in conflicts : c[1] = k /\ c[2] = explain[k].source

(***************************************************************************)
(* TableWhole: a subsystem gets the text of its table as it was written:   *)
(* the lines below its headers and its dotted lines, in order and no other *)
(* (appendTableDoc, absorbTables).                                         *)
(***************************************************************************)
RootAt(i) ==
  IF text[i].form # "key" THEN text[i].name[1]
  ELSE IF Header(i) # 0 THEN text[Header(i)].name[1]
  ELSE DottedRoot(text[i].name)
TableWhole ==
  stage = "done" => \A k \in Tables : config[k].t = "table" =>
    LET at == SetToSortSeq({i \in DOMAIN text : RootAt(i) = k[1]}, <)
    IN  toml.docs[k[1]] = [j \in DOMAIN at |-> text[at[j]]]
=============================================================================
