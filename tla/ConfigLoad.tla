----------------------------- MODULE ConfigLoad -----------------------------
(***************************************************************************)
(* How a configuration file becomes the configuration the gateway runs:    *)
(* `.env` files into the process environment, `${VAR}` expansion, YAML     *)
(* keys over defaults, validation, and the replacement of secret           *)
(* references (src/src/config.rs, src/src/secrets, src/src/cli.rs).        *)
(* The stages are operators; each returns [ok, val].                       *)
(*                                                                         *)
(* A text is a sequence of cells: a plain cell, a variable `${v}`, or a    *)
(* reference `secretref:provider:path`.  A cell stands for a run of        *)
(* characters, so replacing one changes the position of those after it.    *)
(***************************************************************************)
EXTENDS Integers, Sequences, FiniteSets, SequencesExt, Functions, Sorting

CONSTANT MaxU     \* the largest u64: durations are computed modulo MaxU + 1

ASSUME MaxUAssumption == MaxU \in Nat \ {0}

Plain(c) == [kind |-> "plain", is |-> c]
Var(v) == [kind |-> "var", is |-> v]
Ref(provider, path) == [kind |-> "ref", provider |-> provider, is |-> path]

Ok(v) == [ok |-> TRUE, val |-> v]
Error == [ok |-> FALSE, val |-> <<>>]
Nil == [none |-> TRUE]           \* an Option without a value
Some(v) == [some |-> v]
IsSome(o) == o # Nil

----------------------------------------------------------------------------
(* The process environment.                                                *)

(* Candidates are [file, exists, lines] where file is the canonical path;  *)
(* the first candidate of a path stays, and a later line replaces the      *)
(* variable whoever set it.  A line is <<key, value>>.                     *)
Once(candidates) ==
  LET found(i, file) == candidates[i].exists /\ candidates[i].file = file
      first(i) == /\ candidates[i].exists
                  /\ \A j \in 1..(i - 1) : ~found(j, candidates[i].file)
  IN  [i \in DOMAIN candidates |-> IF first(i) THEN candidates[i].lines ELSE <<>>]

SetVar(vars, line) ==
  [v \in DOMAIN vars \cup {line[1]} |-> IF v = line[1] THEN line[2] ELSE vars[v]]

LoadDotenv(process, candidates) ==
  FoldLeft(SetVar, process, FlattenSeq(Once(candidates)))

(* shellexpand::env replaces each variable once and fails on one that is   *)
(* not set.                                                                *)
Expand(text, env) ==
  IF \A i \in DOMAIN text : text[i].kind = "var" => text[i].is \in DOMAIN env
  THEN Ok(FlattenSeq([i \in DOMAIN text |->
            IF text[i].kind = "var" THEN env[text[i].is] ELSE <<text[i]>>]))
  ELSE Error

----------------------------------------------------------------------------
(* Durations: a text is [n, unit], unit "bare" when there is no suffix; a  *)
(* number that does not fit u64 is an error, the product wraps around.     *)

Unit == [s |-> 1, m |-> 60, h |-> 3600]

HumantimeParse(text) ==
  IF text.n > MaxU THEN Error
  ELSE IF text.unit \in DOMAIN Unit
       THEN Ok((text.n * Unit[text.unit]) % (MaxU + 1))
       ELSE IF text.unit = "bare" THEN Ok(text.n) ELSE Error

HumantimeFormat(secs) ==
  IF secs % 60 = 0 /\ secs >= 60 THEN [n |-> secs \div 60, unit |-> "m"]
                                 ELSE [n |-> secs, unit |-> "s"]

(* The command line parses `--timeout` the same way.                       *)
ParseDuration(text) ==
  CASE text.n > MaxU -> Error
    [] text.unit = "s" -> Ok(text.n)
    [] text.unit = "m" -> Ok((text.n * 60) % (MaxU + 1))
    [] text.unit = "h" -> Ok((text.n * 3600) % (MaxU + 1))
    [] text.unit = "bare" -> Ok(text.n)
    [] OTHER -> Error

----------------------------------------------------------------------------
(* Sections.  A section of the file is a function from the keys that are   *)
(* written to their values; serde takes the default of every other key and *)
(* ignores the keys it does not know.                                      *)

Fill(written, default) ==
  [k \in DOMAIN default |-> IF k \in DOMAIN written THEN written[k] ELSE default[k]]

RetryDefault ==
  [max_retries |-> 5, initial_delay |-> 1, max_delay |-> 5, backoff_multiplier |-> 2]

PoolDefault ==
  [min_idle |-> 1, max_instances |-> 20, acquire_timeout |-> 30, replenish_delay |-> 2]

HealthDefault ==
  [interval |-> 30, timeout |-> 5, failure_threshold |-> 3, max_restarts |-> 5,
   restart_window |-> 60, restart_initial_backoff |-> 1, restart_max_backoff |-> 30,
   restart_timeout |-> 30, recovery_multiplier |-> 3, drain_timeout |-> 10,
   memory_check_interval |-> 30, memory_restart_cooldown |-> 60]

DaemonDefault == [idle_timeout |-> 300, client_drain_timeout |-> 30]

SandboxDefault ==
  [timeout |-> 30, max_output_size |-> 200000, max_concurrent_sandboxes |-> 8,
   auto_chunk_json |-> TRUE, smart_truncation |-> TRUE, chunk_threshold |-> 10240]

Scalars == [timeout |-> 30, semaphore_timeout |-> 60, shutdown_grace_period |-> 5]

PrerequisiteDefault ==
  [args |-> <<>>, env |-> <<>>, cwd |-> Nil, process_match |-> Nil,
   managed |-> FALSE, startup_delay |-> 2]

(* Every key of a backend has a default.                                   *)
BackendDefault ==
  [transport |-> "stdio", namespace |-> Nil, command |-> Nil, args |-> <<>>,
   env |-> <<>>, cwd |-> Nil, url |-> Nil, headers |-> <<>>,
   required_keys |-> <<>>, max_concurrent_calls |-> Nil, retry |-> RetryDefault,
   prerequisite |-> Nil, rate_limit |-> Nil, tags |-> <<>>,
   fallback_chain |-> <<>>, tools |-> Nil, adapter_file |-> Nil,
   health_check |-> Nil, instance_mode |-> "shared", pool |-> PoolDefault,
   max_memory_mb |-> Nil, oauth |-> Nil] @@ Scalars

ConfigDefault ==
  [log_level |-> "info", strict |-> FALSE, bws |-> FALSE, backends |-> <<>>,
   health |-> HealthDefault, daemon |-> DaemonDefault, sandbox |-> SandboxDefault,
   semantic |-> Nil, cache_path |-> Nil, allow_runtime_registration |-> TRUE,
   max_dynamic_backends |-> 10, aliases |-> <<>>, composite_tools |-> <<>>]

(* A prerequisite has one required key, its command.                       *)
ParsePrerequisite(w) ==
  IF "command" \in DOMAIN w
  THEN Ok(Some([command |-> w.command] @@ Fill(w, PrerequisiteDefault)))
  ELSE Error

----------------------------------------------------------------------------
(* Validation of a configuration c.                                        *)

HasWhatTransportNeeds(b) ==
  CASE b.transport = "stdio" -> IsSome(b.command)
    [] b.transport = "streamable-http" -> IsSome(b.url)
    [] b.transport = "cli-adapter" -> IsSome(b.tools) \/ IsSome(b.adapter_file)

Validate(c) ==
  /\ c.sandbox.max_concurrent_sandboxes # 0
  /\ \A name \in DOMAIN c.backends : LET b == c.backends[name] IN
       /\ HasWhatTransportNeeds(b)
       /\ ~(b.instance_mode = "dedicated" /\ b.pool.max_instances = 0)
       /\ IsSome(b.max_concurrent_calls) => b.max_concurrent_calls.some <= 10000

----------------------------------------------------------------------------
(* Secrets.  A provider is [bws, env, projects, secrets]: with bws it is   *)
(* the cache BwsSdkProvider fills once, else the environment.              *)

(* project/<name>/key/<key>: splitn(4) leaves every further segment in the *)
(* key; of two projects with one name the last listed counts, and so does  *)
(* the last of two secrets with one key.                                   *)
Last4(path) == SubSeq(path, 4, Len(path))

BwsResolve(p, path) ==
  LET named == {i \in DOMAIN p.projects : p.projects[i].name = path[2]}
      id == p.projects[CHOOSE i \in named : \A j \in named : j <= i].id
      keyed == {i \in DOMAIN p.secrets :
                  p.secrets[i].project = Some(id) /\ p.secrets[i].key = Last4(path)}
  IN  IF Len(path) >= 4 /\ path[1] = "project" /\ path[3] = "key" /\ named # {} /\ keyed # {}
      THEN Ok(p.secrets[CHOOSE i \in keyed : \A j \in keyed : j <= i].value)
      ELSE Error

(* The fallback takes the last path segment as a variable.                 *)
EnvFallback(p, path) ==
  IF Last(path) \in DOMAIN p.env THEN Ok(p.env[Last(path)]) ELSE Error

Provider(p, path) == IF p.bws THEN BwsResolve(p, path) ELSE EnvFallback(p, path)

(* Only "bws" is registered; a failing provider leaves the reference, an   *)
(* empty value is an error in strict mode.                                 *)
ResolveSingle(p, strict, ref) ==
  LET r == Provider(p, ref.is)
  IN  IF ref.provider # "bws" THEN Error
      ELSE IF ~r.ok THEN Ok(<<ref>>)
      ELSE IF strict /\ r.val = <<>> THEN Error ELSE r

Refs(text) == {i \in DOMAIN text : text[i].kind = "ref"}

(* Mutant: from the left, at positions of the text as it was written.      *)
LeftToRight(positions) == Sorted(positions, <)

(* The matches are found in the text as it is written and replaced from    *)
(* the right, so that the positions of the others stay valid.              *)
RightToLeft(positions) == Sorted(positions, >)

ReplaceRef(p, strict, text, acc, i) ==
  LET r == ResolveSingle(p, strict, text[i])
  IN  IF acc.ok /\ r.ok
      THEN Ok(SubSeq(acc.val, 1, i - 1) \o r.val \o SubSeq(acc.val, i + 1, Len(acc.val)))
      ELSE Error

ResolveValue(p, strict, text) ==
  FoldLeft(LAMBDA acc, i : ReplaceRef(p, strict, text, acc, i),
           Ok(text), RightToLeft(Refs(text)))

(* The text fields of a backend that are resolved; cwd, health_check, the  *)
(* tools' commands and the OAuth client secret are not.  args stands for   *)
(* one argument and env, headers for one entry.                            *)
Resolved == {"command", "args", "env", "url", "headers",
             "prerequisite.command", "prerequisite.args", "prerequisite.env"}

ResolveSecrets(p, strict, texts) ==
  LET r == [f \in DOMAIN texts |->
              IF f \in Resolved THEN ResolveValue(p, strict, texts[f]) ELSE Ok(texts[f])]
  IN  IF \A f \in DOMAIN texts : r[f].ok
      THEN Ok([f \in DOMAIN texts |-> r[f].val]) ELSE Error

(* What is reported afterwards (a warning: the start goes on).             *)
Unresolved(texts) ==
  UNION {{<<f, texts[f][i]>> : i \in Refs(texts[f])} : f \in DOMAIN texts \cap Resolved}

(* The provider: with BWS enabled, the access token and the organization   *)
(* must be in the file or in the environment, else the load fails.         *)
MakeProvider(c, env, projects, secrets) ==
  LET set(written, variable) == \/ IsSome(written) /\ written.some # <<>>
                                \/ variable \in DOMAIN env
  IN  IF c.bws /\ ~(set(c.access_token, "BWS_ACCESS_TOKEN")
                    /\ set(c.organization_id, "BWS_ORG_ID"))
      THEN Error
      ELSE Ok([bws |-> c.bws, env |-> env, projects |-> projects, secrets |-> secrets])

----------------------------------------------------------------------------
(* The state machine: the start of the process and the reloads of the      *)
(* watcher run these stages; the user edits the file and the `.env` files  *)
(* between any two of them.                                                *)

CONSTANTS
  Process,          \* the environment the process is started with
  ConfigFiles,      \* configuration files: [texts, backend, timeout, strict, bws, ...]
  DotenvFiles,      \* sequences of candidates, in the order of load_dotenv
  Projects, Secrets,\* what BWS lists
  Cells, Variables  \* what texts are made of, and the names of variables

IsEnvironment(e) == DOMAIN e \subseteq Variables /\ e \in [DOMAIN e -> Seq(Cells)]

Candidate == [file : Nat, exists : BOOLEAN, lines : Seq(Variables \X Seq(Cells))]

ASSUME ConfigAssumption ==
  /\ IsEnvironment(Process) /\ DotenvFiles \subseteq Seq(Candidate)
  /\ \A f \in ConfigFiles : /\ f.timeout.n \in Nat
                             /\ \A x \in DOMAIN f.texts : f.texts[x] \in Seq(Cells)
  /\ Projects \in Seq(Range(Projects)) /\ Secrets \in Seq(Range(Secrets))
  /\ \A s \in Range(Secrets) : s.value \in Seq(Cells)

VARIABLES
  onDisk, dotenv,   \* what is on disk
  env,              \* the process environment
  dotenvOnce,       \* DOTENV_ONCE has run
  stage,            \* "down", "idle", "parsed", "failed" (the start failed)
  work,             \* the configuration being loaded
  running,          \* the configuration in effect, or Nil
  ghost             \* [env: what the first load found, from: the file read last]
configVars == <<onDisk, dotenv, env, dotenvOnce, stage, work, running, ghost>>

NoWork == [nothing |-> TRUE]

ConfigInit ==
  /\ onDisk \in ConfigFiles /\ dotenv \in DotenvFiles
  /\ env = Process /\ dotenvOnce = FALSE /\ stage = "down"
  /\ work = NoWork /\ running = Nil /\ ghost = [env |-> Process, from |-> NoWork]

EditFile ==
  /\ stage \notin {"down", "failed"}
  /\ onDisk' \in ConfigFiles \ {onDisk}
  /\ UNCHANGED <<dotenv, env, dotenvOnce, stage, work, running, ghost>>

EditDotenv ==
  /\ stage \notin {"down", "failed"}
  /\ dotenv' \in DotenvFiles \ {dotenv}
  /\ UNCHANGED <<onDisk, env, dotenvOnce, stage, work, running, ghost>>

(* main(): load_dotenv runs its body the first time it is called.          *)
Dotenv ==
  /\ stage = "down" /\ ~dotenvOnce
  /\ dotenvOnce' = TRUE
  /\ env' = LoadDotenv(env, dotenv)
  /\ ghost' = [ghost EXCEPT !.env = LoadDotenv(Process, dotenv)]
  /\ UNCHANGED <<onDisk, dotenv, stage, work, running>>

(* A load that fails ends the process at the start and is skipped by the   *)
(* watcher, which keeps the configuration it has.                          *)
Fail ==
  /\ stage' = IF IsSome(running) THEN "idle" ELSE "failed"
  /\ work' = NoWork

(* Config::load: read, expand, parse, validate.                            *)
LoadFile ==
  LET b == Fill(onDisk.backend, BackendDefault)
      expanded == [f \in DOMAIN onDisk.texts |-> Expand(onDisk.texts[f], env)]
      timeout == HumantimeParse(onDisk.timeout)
      c == [ConfigDefault EXCEPT !.strict = onDisk.strict, !.bws = onDisk.bws,
                                 !.sandbox = Fill(onDisk.sandbox, SandboxDefault),
                                 !.backends = <<b>>]
  IN  /\ dotenvOnce /\ stage \in {"down", "idle"}
      /\ ghost' = [ghost EXCEPT !.from = onDisk]
      /\ IF /\ \A f \in DOMAIN expanded : expanded[f].ok
            /\ timeout.ok
            /\ Validate(c)
         THEN /\ work' = [file |-> onDisk, config |-> c, timeout |-> timeout.val,
                          texts |-> [f \in DOMAIN expanded |-> expanded[f].val]]
              /\ stage' = "parsed"
         ELSE Fail
      /\ UNCHANGED <<onDisk, dotenv, env, dotenvOnce, running>>

(* resolve_secrets_async: the new configuration takes effect.              *)
Resolve ==
  LET p == MakeProvider(work.file, env, Projects, Secrets)
      r == ResolveSecrets(p.val, work.config.strict, work.texts)
  IN  /\ stage = "parsed"
      /\ IF p.ok /\ r.ok
         THEN /\ running' = Some([from |-> ghost.from, texts |-> r.val,
                                  timeout |-> work.timeout,
                                  reported |-> Unresolved(r.val)])
              /\ stage' = "idle" /\ work' = NoWork
         ELSE Fail /\ UNCHANGED running
      /\ UNCHANGED <<onDisk, dotenv, env, dotenvOnce, ghost>>

ConfigNext == EditFile \/ EditDotenv \/ Dotenv \/ LoadFile \/ Resolve

ConfigSpec == ConfigInit /\ [][ConfigNext]_configVars

----------------------------------------------------------------------------
(* What the texts of a file mean: each variable and each reference stands  *)
(* for its value wherever it is written, and everything else is itself.    *)

Value(cell, field, env0, bws) ==
  LET r == Provider([bws |-> bws, env |-> env0, projects |-> Projects, secrets |-> Secrets],
                    cell.is)
  IN  IF cell.kind = "ref" /\ field \in Resolved /\ r.ok THEN r.val ELSE <<cell>>

Meaning(text, field, env0, bws) ==
  LET expanded == FlattenSeq([i \in DOMAIN text |->
                     IF text[i].kind = "var" THEN env0[text[i].is] ELSE <<text[i]>>])
  IN  FlattenSeq([i \in DOMAIN expanded |-> Value(expanded[i], field, env0, bws)])

(* The configuration in effect is what the file it was read from means in  *)
(* the environment of the first start, whatever was edited since.  One     *)
(* file went through every stage, each in that environment:                *)
FromOneFile(r) ==
  LET f == r.from
      p == MakeProvider(f, ghost.env, Projects, Secrets)
      expanded == [x \in DOMAIN f.texts |-> Expand(f.texts[x], ghost.env).val]
  IN  /\ f \in ConfigFiles /\ p.ok /\ HumantimeParse(f.timeout).ok
      /\ \A x \in DOMAIN f.texts : Expand(f.texts[x], ghost.env).ok
      /\ ResolveSecrets(p.val, f.strict, expanded) = Ok(r.texts)
      /\ r.timeout = HumantimeParse(f.timeout).val

(* Every secret stands exactly where its reference was, and a reference no *)
(* provider knows is left.                                                 *)
TextsAsWritten(r) ==
  \A x \in DOMAIN r.texts :
    r.texts[x] = Meaning(r.from.texts[x], x, ghost.env, r.from.bws)

(* Strict mode lets no empty secret through.                               *)
NoEmptySecret(r) ==
  r.from.strict => \A x \in Resolved \cap DOMAIN r.texts :
    \A i \in Refs(r.from.texts[x]) :
      Value(r.from.texts[x][i], x, ghost.env, r.from.bws) # <<>>

(* The duration in effect is the one written unless that exceeds u64, it   *)
(* is printed as a text that means the same, and the command line would    *)
(* have read it the same way.                                              *)
Seconds(text) == text.n * (IF text.unit = "bare" THEN 1 ELSE Unit[text.unit])

DurationsAsWritten ==
  IsSome(running) =>
    LET r == running.some
        text == r.from.timeout
    IN  Seconds(text) <= MaxU =>
          /\ r.timeout = Seconds(text)
          /\ HumantimeParse(HumantimeFormat(r.timeout)) = Ok(r.timeout)
          /\ ParseDuration(text) = Ok(r.timeout)

(* The configuration in effect is the file's, as a whole and in every text *)
(* and duration: references are replaced from the right of what was        *)
(* written, and numbers are multiplied in u64.                             *)
RunningAsWritten ==
  /\ DurationsAsWritten
  /\ IsSome(running) =>
       FromOneFile(running.some) /\ TextsAsWritten(running.some) /\ NoEmptySecret(running.some)
=============================================================================
