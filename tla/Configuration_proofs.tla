------------------------ MODULE Configuration_proofs ------------------------
(***************************************************************************)
(* Theorems about what is loaded, what runs, what is cached and who may    *)
(* use it: ConfigLoad, Reload, ToolCache and OAuth, the modules of the     *)
(* configuration run.                                                      *)
(***************************************************************************)
EXTENDS ConfigLoad, Reload, ToolCache, OAuth, Induction, FiniteSetTheorems, TLAPS

-----------------------------------------------------------------------------
(***************************************************************************)
(* ConfigLoad.  What the configuration in effect is read from, its texts   *)
(* and its durations, for any largest number, files, environments and      *)
(* secrets.                                                                *)
(***************************************************************************)

LEMMA UnitsFit == DOMAIN Unit = {"s", "m", "h"} /\ Unit["s"] = 1 /\ Unit["m"] = 60 /\ Unit["h"] = 3600
  BY DEF Unit

\* What a duration is formatted as means the same duration.
LEMMA HumantimeRoundTrip ==
    ASSUME NEW secs \in 0..MaxU
    PROVE  HumantimeParse(HumantimeFormat(secs)) = Ok(secs)
  <1>0. MaxU \in Nat /\ secs \in Nat /\ secs <= MaxU /\ secs % (MaxU + 1) = secs
    BY MaxUAssumption
  <1>1. CASE secs % 60 = 0 /\ secs >= 60
    <2>1. HumantimeFormat(secs) = [n |-> secs \div 60, unit |-> "m"]
      BY <1>1 DEF HumantimeFormat
    <2>2. secs \div 60 \in Nat /\ (secs \div 60) * 60 = secs /\ secs \div 60 <= MaxU
      BY <1>0, <1>1
    <2> QED BY <1>0, <2>1, <2>2, UnitsFit DEF HumantimeParse
  <1>2. CASE ~(secs % 60 = 0 /\ secs >= 60)
    <2>1. HumantimeFormat(secs) = [n |-> secs, unit |-> "s"]
      BY <1>2 DEF HumantimeFormat
    <2> QED BY <1>0, <2>1, UnitsFit DEF HumantimeParse
  <1> QED
    BY <1>1, <1>2

\* A duration that is accepted and does not exceed the largest number is the one written,
\* and the command line reads it the same way.
LEMMA ParsedAsWritten ==
    ASSUME NEW t, t.n \in Nat, HumantimeParse(t).ok, Seconds(t) <= MaxU
    PROVE  /\ HumantimeParse(t).val = Seconds(t) /\ Seconds(t) \in 0..MaxU
           /\ ParseDuration(t) = Ok(Seconds(t))
  <1>0. MaxU \in Nat /\ \A x \in 0..MaxU : x % (MaxU + 1) = x
    BY MaxUAssumption
  <1>1. ~Error.ok
    BY DEF Error
  <1>2. t.n <= MaxU
    <2>1. t.n > MaxU => HumantimeParse(t) = Error
      BY DEF HumantimeParse
    <2> QED BY <1>0, <1>1, <2>1
  <1>3. t.unit \in {"s", "m", "h", "bare"}
    <2>1. t.unit \notin {"s", "m", "h", "bare"} => HumantimeParse(t) = Error
      BY UnitsFit DEF HumantimeParse
    <2> QED BY <1>1, <2>1
  <1>4. ~(t.n > MaxU)
    BY <1>0, <1>2
  <1>5. CASE t.unit = "bare"
    <2>1. Seconds(t) = t.n
      BY <1>5 DEF Seconds
    <2>2. HumantimeParse(t) = Ok(t.n)
      BY <1>4, <1>5, UnitsFit DEF HumantimeParse
    <2>3. ParseDuration(t) = Ok(t.n)
      BY <1>4, <1>5 DEF ParseDuration
    <2> QED BY <1>0, <1>2, <2>1, <2>2, <2>3 DEF Ok
  <1>6. ASSUME NEW unit \in {"s", "m", "h"}, t.unit = unit
        PROVE  /\ HumantimeParse(t).val = Seconds(t) /\ Seconds(t) \in 0..MaxU
               /\ ParseDuration(t) = Ok(Seconds(t))
    <2>1. Seconds(t) = t.n * Unit[unit] /\ Unit[unit] \in {1, 60, 3600} /\ unit \in DOMAIN Unit
      BY <1>6, UnitsFit DEF Seconds
    <2>2. Seconds(t) \in 0..MaxU /\ Seconds(t) % (MaxU + 1) = Seconds(t)
      <3>1. \A n \in Nat : n * 1 \in Nat /\ n * 60 \in Nat /\ n * 3600 \in Nat
        OBVIOUS
      <3>2. Seconds(t) \in Nat
        BY <2>1, <3>1
      <3> QED BY <1>0, <3>2
    <2>3. HumantimeParse(t) = Ok(Seconds(t) % (MaxU + 1))
      BY <1>4, <1>6, <2>1 DEF HumantimeParse
    <2>4. ParseDuration(t) = Ok(Seconds(t))
      <3>1. CASE unit = "s"
        <4>1. Seconds(t) = t.n
          BY <2>1, <3>1, UnitsFit
        <4>2. ParseDuration(t) = Ok(t.n)
          BY <1>4, <1>6, <3>1 DEF ParseDuration
        <4> QED BY <4>1, <4>2
      <3>2. CASE unit = "m"
        <4>1. ParseDuration(t) = Ok((t.n * 60) % (MaxU + 1))
          BY <1>4, <1>6, <3>2 DEF ParseDuration
        <4> QED BY <2>1, <2>2, <3>2, <4>1, UnitsFit
      <3>3. CASE unit = "h"
        <4>1. ParseDuration(t) = Ok((t.n * 3600) % (MaxU + 1))
          BY <1>4, <1>6, <3>3 DEF ParseDuration
        <4> QED BY <2>1, <2>2, <3>3, <4>1, UnitsFit
      <3> QED BY <3>1, <3>2, <3>3
    <2> QED BY <2>2, <2>3, <2>4 DEF Ok
  <1> QED
    BY <1>3, <1>5, <1>6

\* What the load keeps between its steps.  The environment changes once, before any file
\* is read; a file that is edited while it is being loaded is not mixed with its successor.
Environment ==
    /\ ghost = [env |-> ghost.env, from |-> ghost.from] /\ env = ghost.env
    /\ ~dotenvOnce => env = Process /\ stage \in {"down", "failed"} /\ running = Nil

Loaded ==
    LET f == ghost.from IN
    /\ f \in ConfigFiles /\ work.file = f /\ work.config.strict = f.strict
    /\ HumantimeParse(f.timeout).ok /\ work.timeout = HumantimeParse(f.timeout).val
    /\ \A x \in DOMAIN f.texts : Expand(f.texts[x], ghost.env).ok
    /\ work.texts = [x \in DOMAIN f.texts |-> Expand(f.texts[x], ghost.env).val]

LoadInv ==
    /\ onDisk \in ConfigFiles
    /\ Environment
    /\ stage = "parsed" => Loaded
    /\ IsSome(running) => FromOneFile(running.some)

\* The configuration in effect is one file, whole, expanded and resolved in the environment
\* of the first start, whatever the user edits between the steps of a load.
THEOREM RunningFromOneFile ==
    ConfigSpec => [](IsSome(running) => FromOneFile(running.some))
  <1>1. ConfigInit => LoadInv
    BY DEF ConfigInit, LoadInv, Environment, IsSome
  <1>2. LoadInv /\ [ConfigNext]_configVars => LoadInv'
    <2> SUFFICES ASSUME LoadInv, [ConfigNext]_configVars PROVE LoadInv'
      OBVIOUS
    <2>0. onDisk \in ConfigFiles /\ Environment /\ (stage = "parsed" => Loaded)
          /\ (IsSome(running) => FromOneFile(running.some))
      BY DEF LoadInv
    <2>k. ASSUME UNCHANGED <<env, dotenvOnce, stage, work, running, ghost>>, onDisk' \in ConfigFiles
          PROVE  LoadInv'
      BY <2>0, <2>k DEF LoadInv, Environment, Loaded, FromOneFile
    <2>1. CASE EditFile
      BY <2>1, <2>k DEF EditFile
    <2>2. CASE EditDotenv
      BY <2>0, <2>2, <2>k DEF EditDotenv
    <2>3. CASE UNCHANGED configVars
      BY <2>0, <2>3, <2>k DEF configVars
    <2>4. CASE Dotenv
      <3>1. stage' = "down" /\ running' = Nil /\ onDisk' = onDisk /\ dotenvOnce'
        BY <2>0, <2>4 DEF Dotenv, Environment
      <3>2. ghost' = [env |-> env', from |-> ghost.from]
        BY <2>0, <2>4 DEF Dotenv, Environment
      <3> QED BY <2>0, <3>1, <3>2 DEF LoadInv, Environment, IsSome
    <2>5. CASE LoadFile
      <3>1. onDisk' = onDisk /\ env' = env /\ dotenvOnce /\ dotenvOnce' /\ running' = running
            /\ ghost' = [env |-> ghost.env, from |-> onDisk]
        BY <2>0, <2>5 DEF LoadFile, Environment
      <3>2. Environment'
        BY <2>0, <3>1 DEF Environment
      <3>3. IsSome(running') => FromOneFile(running.some)'
        BY <2>0, <3>1 DEF FromOneFile
      <3>4. stage' = "parsed" => Loaded'
        <4> DEFINE expanded == [f \in DOMAIN onDisk.texts |-> Expand(onDisk.texts[f], env)]
        <4> SUFFICES ASSUME stage' = "parsed" PROVE Loaded'
          OBVIOUS
        <4>1. ~Fail
          BY DEF Fail
        <4>2. /\ \A f \in DOMAIN expanded : expanded[f].ok
              /\ HumantimeParse(onDisk.timeout).ok
              /\ work'.file = onDisk /\ work'.config.strict = onDisk.strict
              /\ work'.timeout = HumantimeParse(onDisk.timeout).val
              /\ work'.texts = [f \in DOMAIN expanded |-> expanded[f].val]
          <5> DEFINE c == [ConfigDefault EXCEPT !.strict = onDisk.strict, !.bws = onDisk.bws,
                             !.sandbox = Fill(onDisk.sandbox, SandboxDefault),
                             !.backends = <<Fill(onDisk.backend, BackendDefault)>>]
          <5>1. c.strict = onDisk.strict
            BY DEF ConfigDefault
          <5> HIDE DEF c
          <5>2. /\ \A f \in DOMAIN expanded : expanded[f].ok
                /\ HumantimeParse(onDisk.timeout).ok
                /\ work' = [file |-> onDisk, config |-> c,
                            timeout |-> HumantimeParse(onDisk.timeout).val,
                            texts |-> [f \in DOMAIN expanded |-> expanded[f].val]]
            BY <2>5, <4>1, Zenon DEF LoadFile, c
          <5> HIDE DEF expanded
          <5> QED BY <5>1, <5>2
        <4> QED BY <2>0, <3>1, <4>2 DEF Loaded, Environment
      <3> QED BY <2>0, <3>1, <3>2, <3>3, <3>4 DEF LoadInv, IsSome
    <2>6. CASE Resolve
      <3>1. stage = "parsed" /\ UNCHANGED <<onDisk, env, dotenvOnce, ghost>>
        BY <2>6 DEF Resolve
      <3>2. Environment' /\ stage' # "parsed"
        BY <2>0, <2>6, <3>1 DEF Resolve, Fail, Environment
      <3>3. IsSome(running') => FromOneFile(running.some)'
        <4> DEFINE p == MakeProvider(work.file, env, Projects, Secrets)
                   r == ResolveSecrets(p.val, work.config.strict, work.texts)
        <4>1. CASE p.ok /\ r.ok
          <5>1. running' = Some([from |-> ghost.from, texts |-> r.val, timeout |-> work.timeout,
                                 reported |-> Unresolved(r.val)])
            BY <2>6, <4>1 DEF Resolve
          <5>2. r = Ok(r.val)
            BY <4>1 DEF ResolveSecrets, Ok, Error
          <5> HIDE DEF r
          <5> QED BY <2>0, <3>1, <4>1, <5>1, <5>2 DEF FromOneFile, Loaded, Environment, Some, p, r
        <4>2. CASE ~(p.ok /\ r.ok)
          <5>1. running' = running
            BY <2>6, <4>2 DEF Resolve
          <5> QED BY <2>0, <3>1, <5>1 DEF FromOneFile
        <4> QED BY <4>1, <4>2
      <3> QED BY <2>0, <3>1, <3>2, <3>3 DEF LoadInv, IsSome
    <2> QED
      BY <2>1, <2>2, <2>3, <2>4, <2>5, <2>6 DEF ConfigNext
  <1> QED
    BY <1>1, <1>2, PTL DEF ConfigSpec, LoadInv

\* Durations survive: the one in effect is the one written unless that exceeds u64, its
\* printed form means the same, and the command line reads the text the same way.
THEOREM DurationsSurvive == ConfigSpec => []DurationsAsWritten
  <1>1. (IsSome(running) => FromOneFile(running.some)) => DurationsAsWritten
    <2> SUFFICES ASSUME IsSome(running), FromOneFile(running.some),
                        Seconds(running.some.from.timeout) <= MaxU
                 PROVE  LET r == running.some
                            t == r.from.timeout
                        IN  /\ r.timeout = Seconds(t)
                            /\ HumantimeParse(HumantimeFormat(r.timeout)) = Ok(r.timeout)
                            /\ ParseDuration(t) = Ok(r.timeout)
      BY DEF DurationsAsWritten
    <2> DEFINE r == running.some
               t == r.from.timeout
    <2>1. t.n \in Nat /\ HumantimeParse(t).ok /\ r.timeout = HumantimeParse(t).val
      BY ConfigAssumption DEF FromOneFile
    <2>2. r.timeout = Seconds(t) /\ Seconds(t) \in 0..MaxU /\ ParseDuration(t) = Ok(Seconds(t))
      BY <2>1, ParsedAsWritten
    <2> QED
      BY <2>2, HumantimeRoundTrip
  <1> QED
    BY <1>1, RunningFromOneFile, PTL

-----------------------------------------------------------------------------
(* The texts.  ResolveValue is a fold over the references from the right;  *)
(* what it does to a text is an induction over them.                       *)

\* The positions of a text from the right.
LEMMA FromTheRight ==
    ASSUME NEW n \in Nat, NEW R \in SUBSET (1..n)
    PROVE  /\ Cardinality(R) \in Nat /\ IsDescending(RightToLeft(R), Cardinality(R), R)
  <1> DEFINE above == {w \in R \X R : w[1] > w[2]}
  <1>0. IsFiniteSet(R)
    <2>1. IsFiniteSet(1..n)
      BY FS_Interval
    <2> QED BY <2>1, FS_Subset
  <1>1. IsOrder(above, R)
    BY DEF IsOrder
  <1>2. \A s : Enumerates(s, above, R) <=>
          s \in [1..Cardinality(R) -> R] /\ \A i, j \in 1..Cardinality(R) : i < j => s[i] > s[j]
    <2>1. \A s \in [1..Cardinality(R) -> R] : \A i, j \in 1..Cardinality(R) :
            <<s[i], s[j]>> \in above <=> s[i] > s[j]
      OBVIOUS
    <2> HIDE DEF above
    <2> QED BY <2>1 DEF Enumerates
  <1>3. \E s : Enumerates(s, above, R)
    <2> HIDE DEF above
    <2> QED BY <1>0, <1>1, Sortable
  <1>4. Enumerates(RightToLeft(R), above, R)
    <2> HIDE DEF above
    <2>1. \E s \in [1..Cardinality(R) -> R] : \A i, j \in 1..Cardinality(R) : i < j => s[i] > s[j]
      BY <1>2, <1>3
    <2>2. /\ RightToLeft(R) \in [1..Cardinality(R) -> R]
          /\ \A i, j \in 1..Cardinality(R) : i < j => RightToLeft(R)[i] > RightToLeft(R)[j]
      BY <2>1, Zenon DEF RightToLeft, Sorted
    <2> QED BY <1>2, <2>2
  <1>5. /\ Cardinality(R) \in Nat
        /\ \A x \in R : \E i \in 1..Cardinality(R) : RightToLeft(R)[i] = x
    <2> HIDE DEF above
    <2> QED BY <1>0, <1>1, <1>4, Enumeration
  <1> QED
    BY <1>2, <1>4, <1>5 DEF IsDescending

Results == [ok : BOOLEAN, val : Seq(Cells)]

LEMMA Constructors ==
    /\ \A v : Ok(v).ok /\ Ok(v).val = v /\ (v \in Seq(Cells) => Ok(v) \in Results)
    /\ ~Error.ok /\ Error \in Results
  BY DEF Ok, Error, Results

\* The fold of ResolveValue, one replacement at a time.
ReplaceIn(of, acc, i) == ReplaceRef(of.p, of.strict, of.text, acc, i)

Replacing == INSTANCE Induction WITH Op <- ReplaceIn

LEMMA FoldReplaces ==
    ASSUME NEW p, NEW strict, NEW text, NEW m \in Nat,
           DOMAIN RightToLeft(Refs(text)) = 1..m
    PROVE  \E f : /\ f[0] = Ok(text) /\ ResolveValue(p, strict, text) = f[m]
                  /\ \A k \in 1..m : f[k] = ReplaceRef(p, strict, text, f[k - 1], RightToLeft(Refs(text))[k])
  <1> DEFINE of == [p |-> p, strict |-> strict, text |-> text]
             base == Ok(text)
             pos == RightToLeft(Refs(text))
  <1>0. of.p = p /\ of.strict = strict /\ of.text = text
    OBVIOUS
  <1>1. \E f : /\ f[0] = base /\ \A k \in 1..m : f[k] = ReplaceIn(of, f[k - 1], pos[k])
               /\ Replacing!FoldOf(of, base, pos) = f[m]
    <2>1. DOMAIN pos = 1..m
      OBVIOUS
    <2> HIDE DEF of, base, pos
    <2>2. \E f : Replacing!Unrolled(f, of, base, pos, m) /\ Replacing!FoldOf(of, base, pos) = f[m]
      BY <2>1, Replacing!FoldUnrolled
    <2> QED BY <2>2 DEF Replacing!Unrolled
  <1>2. Replacing!FoldOf(of, base, pos) = ResolveValue(p, strict, text)
    <2>1. ResolveValue(of.p, of.strict, of.text) = Replacing!FoldOf(of, Ok(of.text), RightToLeft(Refs(of.text)))
      <3> HIDE DEF of
      <3> QED BY Zenon DEF ResolveValue, Replacing!FoldOf, FoldLeft, MapThenFoldSet, ReplaceIn, Replacing!FoldLeft, Replacing!MapThenFoldSet, Max, Replacing!Max
    <2> HIDE DEF of
    <2> QED BY <1>0, <2>1
  <1> HIDE DEF of, base, pos
  <1> QED
    BY <1>0, <1>1, <1>2 DEF ReplaceIn, pos, base

\* What a provider answers is a text or an error.
IsProvider(p) == p.projects = Projects /\ p.secrets = Secrets /\ IsEnvironment(p.env)

LEMMA ProviderFits == ASSUME NEW p, IsProvider(p), NEW ref PROVE Provider(p, ref) \in Results
  <1>1. EnvFallback(p, ref) \in Results
    BY Constructors DEF EnvFallback, IsProvider, IsEnvironment
  <1>2. BwsResolve(p, ref) \in Results
    <2> DEFINE named == {i \in DOMAIN p.projects : p.projects[i].name = ref[2]}
               id == p.projects[CHOOSE i \in named : \A j \in named : j <= i].id
               keyed == {i \in DOMAIN p.secrets :
                           p.secrets[i].project = Some(id) /\ p.secrets[i].key = Last4(ref)}
               key == CHOOSE i \in keyed : \A j \in keyed : j <= i
    <2>1. BwsResolve(p, ref) = Error \/ (keyed # {} /\ BwsResolve(p, ref) = Ok(p.secrets[key].value))
      <3> HIDE DEF named, id, keyed
      <3> QED BY Zenon DEF BwsResolve, named, id, keyed
    <2>2. ASSUME keyed # {} PROVE p.secrets[key].value \in Seq(Cells)
      <3>1. Len(Secrets) \in Nat /\ DOMAIN Secrets = 1..Len(Secrets) /\ p.secrets = Secrets
        BY ConfigAssumption DEF IsProvider
      <3>2. keyed \in SUBSET (1..Len(Secrets))
        BY <3>1
      <3> HIDE DEF keyed
      <3>3. \E i \in keyed : \A j \in keyed : j <= i
        BY <2>2, <3>1, <3>2, MaxOf
      <3>4. key \in DOMAIN Secrets
        BY <3>1, <3>2, <3>3
      <3> HIDE DEF key
      <3> QED BY <3>1, <3>4, ConfigAssumption DEF Range
    <2> HIDE DEF key, keyed
    <2> QED BY <2>1, <2>2, Constructors
  <1> QED
    BY <1>1, <1>2 DEF Provider

\* What a cell of a field that is resolved stands for.
Stands(p, cell) ==
    LET r == Provider(p, cell.is) IN IF cell.kind = "ref" /\ r.ok THEN r.val ELSE <<cell>>

LEMMA SingleStands ==
    ASSUME NEW p, NEW strict, NEW cell, cell.kind = "ref", ResolveSingle(p, strict, cell).ok
    PROVE  /\ ResolveSingle(p, strict, cell).val = Stands(p, cell)
           /\ strict => Stands(p, cell) # <<>>
  BY Constructors DEF ResolveSingle, Stands

\* A text that is resolved is the concatenation of what its cells stand for, and none of
\* its references failed.
LEMMA ResolvedText ==
    ASSUME NEW p, IsProvider(p), NEW strict, NEW text \in Seq(Cells),
           ResolveValue(p, strict, text).ok
    PROVE  /\ ResolveValue(p, strict, text).val = FlattenSeq([i \in DOMAIN text |-> Stands(p, text[i])])
           /\ \A i \in Refs(text) : ResolveSingle(p, strict, text[i]).ok
  <1> DEFINE n == Len(text)
             R == Refs(text)
             m == Cardinality(R)
             pos == RightToLeft(R)
             V == [i \in DOMAIN text |-> Stands(p, text[i])]
  <1>1. /\ n \in Nat /\ DOMAIN text = 1..n /\ R \in SUBSET (1..n)
        /\ \A i \in (1..n) \ R : text[i].kind # "ref"
        /\ \A i \in R : text[i].kind = "ref"
    BY DEF Refs
  <1>2. m \in Nat /\ IsDescending(pos, m, R)
    <2> HIDE DEF n, R
    <2> QED BY <1>1, FromTheRight
  <1>3. pos \in [1..m -> R] /\ DOMAIN pos = 1..m /\ \A i \in R : \E k \in 1..m : pos[k] = i
    <2> HIDE DEF m, R, pos
    <2> QED BY <1>2 DEF IsDescending
  <1>4. PICK f : /\ f[0] = Ok(text) /\ ResolveValue(p, strict, text) = f[m]
                 /\ \A k \in 1..m : f[k] = ReplaceRef(p, strict, text, f[k - 1], pos[k])
    <2>1. DOMAIN RightToLeft(Refs(text)) = 1..m
      BY <1>3
    <2> HIDE DEF m
    <2> QED BY <1>2, <2>1, FoldReplaces
  <1> DEFINE Single(k) == ResolveSingle(p, strict, text[pos[k]])
  <1>5. ASSUME NEW k \in 1..m, f[k].ok
        PROVE  /\ f[k - 1].ok /\ Single(k).ok
               /\ f[k].val = SubSeq(f[k - 1].val, 1, pos[k] - 1) \o Single(k).val
                               \o SubSeq(f[k - 1].val, pos[k] + 1, Len(f[k - 1].val))
    <2> HIDE DEF pos, m
    <2> QED BY <1>4, <1>5, Constructors DEF ReplaceRef
  <1> HIDE DEF pos, m, R
  <1>6. \A k \in 0..m : f[k].ok
    <2> DEFINE T == {k \in 0..m : f[k].ok}
    <2>1. m \in T
      BY <1>2, <1>4
    <2>2. ASSUME NEW k \in 1..m, k \in T PROVE k - 1 \in T
      <3>1. k - 1 \in 0..m
        BY <1>2
      <3> QED BY <1>5, <2>2, <3>1
    <2> HIDE DEF T
    <2>3. 0..m \subseteq T
      BY <1>2, <2>1, <2>2, DownFrom
    <2> QED BY <2>3 DEF T
  <1>7. \A k \in 1..m : pos[k] \in R /\ pos[k] \in 1..n /\ V[pos[k]] = Single(k).val
    <2> SUFFICES ASSUME NEW k \in 1..m
                 PROVE  pos[k] \in R /\ pos[k] \in 1..n /\ V[pos[k]] = Single(k).val
      OBVIOUS
    <2>1. pos[k] \in R /\ pos[k] \in 1..n /\ text[pos[k]].kind = "ref"
      BY <1>1, <1>3
    <2>2. Single(k).ok
      BY <1>5, <1>6
    <2>3. Single(k).val = Stands(p, text[pos[k]])
      BY <2>1, <2>2, SingleStands
    <2> QED BY <1>1, <2>1, <2>3
  <1>8. V \in [1..n -> Seq(Cells)] /\ \A q \in (1..n) \ R : V[q] = <<text[q]>>
    <2>1. ASSUME NEW i \in 1..n PROVE Stands(p, text[i]) \in Seq(Cells)
      <3>1. text[i] \in Cells
        OBVIOUS
      <3>2. Provider(p, text[i].is) \in Results
        BY ProviderFits
      <3> QED BY <3>1, <3>2 DEF Stands, Results
    <2>2. \A q \in (1..n) \ R : Stands(p, text[q]) = <<text[q]>>
      BY <1>1 DEF Stands
    <2> QED BY <1>1, <2>1, <2>2
  <1> DEFINE acc == [k \in 0..m |-> f[k].val]
  <1>9. acc[0] = text /\ acc[m] = ResolveValue(p, strict, text).val
    BY <1>2, <1>4, Constructors
  <1>10. Replaces(acc, m, pos, V)
    <2> SUFFICES ASSUME NEW k \in 1..m
                 PROVE  acc[k] = SubSeq(acc[k - 1], 1, pos[k] - 1) \o V[pos[k]]
                                   \o SubSeq(acc[k - 1], pos[k] + 1, Len(acc[k - 1]))
      BY DEF Replaces
    <2>1. k - 1 \in 0..m /\ k \in 0..m
      BY <1>2
    <2>2. acc[k] = f[k].val /\ acc[k - 1] = f[k - 1].val
      BY <2>1
    <2>3. V[pos[k]] = Single(k).val /\ f[k].ok
      BY <1>6, <1>7, <2>1
    <2> HIDE DEF acc, V, Single
    <2> QED BY <1>5, <2>2, <2>3 DEF Single
  <1>11. PICK P : ArePrefixes(P, V, n, Cells) /\ FlattenSeq(V) = P[n]
    <2>1. V \in Seq(Seq(Cells)) /\ Len(V) = n
      <3> HIDE DEF V, n
      <3> QED BY <1>1, <1>8
    <2> HIDE DEF V
    <2> QED BY <2>1, FlattenPrefixes
  <1>12. acc[m] = P[n]
    <2> HIDE DEF V, acc
    <2> QED BY <1>1, <1>2, <1>8, <1>9, <1>10, <1>11, ReplacedFromTheRight
  <1>13. \A i \in R : ResolveSingle(p, strict, text[i]).ok
    <2> SUFFICES ASSUME NEW i \in R PROVE ResolveSingle(p, strict, text[i]).ok
      OBVIOUS
    <2>1. PICK k \in 1..m : pos[k] = i
      BY <1>3
    <2>2. Single(k).ok
      BY <1>2, <1>5, <1>6
    <2> QED BY <2>1, <2>2
  <1> QED
    BY <1>9, <1>11, <1>12, <1>13 DEF R

\* The environment stays one: whatever the `.env` files hold, it maps variables to texts.
SetIn(of, vars, line) == SetVar(vars, line)

Setting == INSTANCE Induction WITH Op <- SetIn

LEMMA LinesFit ==
    ASSUME NEW candidates \in DotenvFiles
    PROVE  FlattenSeq(Once(candidates)) \in Seq(Variables \X Seq(Cells))
  <1> DEFINE Line == Variables \X Seq(Cells)
  <1>1. candidates \in Seq(Candidate)
    BY ConfigAssumption
  <1>2. \A i \in 1..Len(candidates) : candidates[i].lines \in Seq(Line)
    <2>1. \A c \in Candidate : c.lines \in Seq(Variables \X Seq(Cells))
      BY DEF Candidate
    <2> HIDE DEF Line
    <2>2. \A i \in 1..Len(candidates) : candidates[i] \in Candidate
      BY <1>1
    <2> QED BY <2>1, <2>2 DEF Line
  <1>3. Once(candidates) \in Seq(Seq(Line))
    <2> DEFINE n == Len(candidates)
    <2>1. /\ n \in Nat /\ DOMAIN Once(candidates) = 1..n
          /\ \A i \in 1..n : Once(candidates)[i] \in {candidates[i].lines, <<>>}
      <3>1. DOMAIN candidates = 1..n /\ n \in Nat
        BY <1>1
      <3> HIDE DEF n
      <3> QED BY <3>1 DEF Once
    <2>2. Once(candidates) = [i \in 1..n |-> Once(candidates)[i]]
      BY <2>1 DEF Once
    <2> HIDE DEF Line
    <2>3. <<>> \in Seq(Line)
      OBVIOUS
    <2> HIDE DEF n
    <2>4. \A i \in 1..n : Once(candidates)[i] \in Seq(Line)
      BY <1>2, <2>1, <2>3 DEF n
    <2> QED BY <2>1, <2>2, <2>4
  <1> QED
    <2> HIDE DEF Line
    <2>1. FlattenSeq(Once(candidates)) \in Seq(Line)
      BY <1>3, FlattenType
    <2> QED BY <2>1 DEF Line

LEMMA EnvironmentFits ==
    ASSUME NEW process, IsEnvironment(process), NEW candidates \in DotenvFiles
    PROVE  IsEnvironment(LoadDotenv(process, candidates))
  <1> DEFINE lines == FlattenSeq(Once(candidates))
             m == Len(lines)
             of == 0
  <1>1. m \in Nat /\ DOMAIN lines = 1..m /\ \A k \in 1..m : lines[k] \in Variables \X Seq(Cells)
    <2>1. lines \in Seq(Variables \X Seq(Cells))
      BY LinesFit
    <2> HIDE DEF lines
    <2> QED BY <2>1
  <1>2. PICK f : /\ f[0] = process /\ \A k \in 1..m : f[k] = SetIn(of, f[k - 1], lines[k])
                 /\ Setting!FoldOf(of, process, lines) = f[m]
    <2>1. m \in Nat /\ DOMAIN lines = 1..m
      BY <1>1
    <2> HIDE DEF lines, m, of
    <2>2. \E f : Setting!Unrolled(f, of, process, lines, m) /\ Setting!FoldOf(of, process, lines) = f[m]
      BY <2>1, Setting!FoldUnrolled
    <2> QED BY <2>2 DEF Setting!Unrolled
  <1>3. LoadDotenv(process, candidates) = f[m]
    <2>1. LoadDotenv(process, candidates) = Setting!FoldOf(of, process, lines)
      BY Zenon DEF LoadDotenv, SetIn, Setting!FoldOf, FoldLeft, MapThenFoldSet,
                   Setting!FoldLeft, Setting!MapThenFoldSet, Max, Setting!Max
    <2> QED BY <1>2, <2>1
  <1> HIDE DEF lines, m
  <1> DEFINE T == {k \in 0..m : IsEnvironment(f[k])}
  <1>4. 0 \in T
    BY <1>1, <1>2
  <1>5. ASSUME NEW k \in 1..m, k - 1 \in T PROVE k \in T
    <2> DEFINE vars == f[k - 1]
               line == lines[k]
    <2>1. IsEnvironment(vars) /\ line \in Variables \X Seq(Cells) /\ f[k] = SetVar(vars, line)
      BY <1>1, <1>2, <1>5 DEF SetIn
    <2> HIDE DEF vars, line
    <2>2. IsEnvironment(SetVar(vars, line))
      BY <2>1 DEF IsEnvironment, SetVar
    <2> QED BY <1>1, <2>1, <2>2
  <1>6. m \in T
    <2> HIDE DEF T
    <2>1. 0..m \subseteq T
      BY <1>1, <1>4, <1>5, UpTo
    <2> QED BY <1>1, <2>1
  <1> QED
    BY <1>3, <1>6

LEMMA Environments ==
    ConfigSpec => [](IsEnvironment(ghost.env) /\ dotenv \in DotenvFiles)
  <1> DEFINE I == /\ IsEnvironment(ghost.env) /\ dotenv \in DotenvFiles
                  /\ ghost = [env |-> ghost.env, from |-> ghost.from]
  <1>1. ConfigInit => I
    BY ConfigAssumption DEF ConfigInit
  <1>2. I /\ [ConfigNext]_configVars => I'
    <2> SUFFICES ASSUME I, [ConfigNext]_configVars PROVE I'
      OBVIOUS
    <2>1. CASE EditFile \/ Resolve \/ UNCHANGED configVars
      BY <2>1 DEF EditFile, Resolve, configVars
    <2>2. CASE EditDotenv
      BY <2>2 DEF EditDotenv
    <2>3. CASE LoadFile
      BY <2>3 DEF LoadFile
    <2>4. CASE Dotenv
      <3>1. ghost' = [ghost EXCEPT !.env = LoadDotenv(Process, dotenv)] /\ dotenv' = dotenv
        BY <2>4 DEF Dotenv
      <3>2. IsEnvironment(LoadDotenv(Process, dotenv))
        BY EnvironmentFits, ConfigAssumption
      <3> QED BY <3>1, <3>2
    <2> QED
      BY <2>1, <2>2, <2>3, <2>4 DEF ConfigNext
  <1> QED
    BY <1>1, <1>2, PTL DEF ConfigSpec

\* What is expanded is a text, and it holds every reference that was written.
LEMMA Expanded ==
    ASSUME NEW vars, IsEnvironment(vars), NEW text \in Seq(Cells), Expand(text, vars).ok
    PROVE  /\ Expand(text, vars).val \in Seq(Cells)
           /\ Expand(text, vars).val =
                FlattenSeq([i \in DOMAIN text |->
                  IF text[i].kind = "var" THEN vars[text[i].is] ELSE <<text[i]>>])
           /\ \A i \in Refs(text) : \E j \in Refs(Expand(text, vars).val) :
                Expand(text, vars).val[j] = text[i]
  <1> DEFINE n == Len(text)
             ss == [i \in DOMAIN text |->
                     IF text[i].kind = "var" THEN vars[text[i].is] ELSE <<text[i]>>]
  <1>1. /\ \A i \in DOMAIN text : text[i].kind = "var" => text[i].is \in DOMAIN vars
        /\ Expand(text, vars).val = FlattenSeq(ss)
    <2> HIDE DEF ss
    <2> QED BY Constructors DEF Expand, ss
  <1>2. n \in Nat /\ DOMAIN text = 1..n /\ \A i \in 1..n : text[i] \in Cells
    OBVIOUS
  <1>3. ss \in Seq(Seq(Cells))
    <2>1. \A i \in 1..n : text[i].kind = "var" => vars[text[i].is] \in Seq(Cells)
      BY <1>1, <1>2 DEF IsEnvironment
    <2>2. \A i \in 1..n : <<text[i]>> \in Seq(Cells)
      BY <1>2
    <2>3. ss \in [1..n -> Seq(Cells)]
      BY <1>2, <2>1, <2>2
    <2> HIDE DEF ss, n
    <2> QED BY <1>2, <2>3
  <1>4. FlattenSeq(ss) \in Seq(Cells)
    <2> HIDE DEF ss
    <2> QED BY <1>3, FlattenType
  <1>5. ASSUME NEW i \in Refs(text) PROVE \E j \in Refs(FlattenSeq(ss)) : FlattenSeq(ss)[j] = text[i]
    <2>1. i \in DOMAIN ss /\ ss[i] = <<text[i]>> /\ text[i].kind = "ref"
      BY DEF Refs
    <2>2. 1 \in DOMAIN ss[i] /\ ss[i][1] = text[i]
      BY <2>1
    <2> HIDE DEF ss
    <2>3. \E j \in DOMAIN FlattenSeq(ss) : FlattenSeq(ss)[j] = ss[i][1]
      BY <1>3, <2>1, <2>2, FlattenElements
    <2> QED BY <2>1, <2>2, <2>3 DEF Refs
  <1> HIDE DEF ss
  <1> QED
    BY <1>1, <1>4, <1>5 DEF ss

\* The texts of one file that went through every stage in one environment are what the file
\* means there, and no secret of a strict file is empty.
LEMMA TextsKept ==
    ASSUME NEW r, FromOneFile(r), IsEnvironment(ghost.env)
    PROVE  TextsAsWritten(r) /\ NoEmptySecret(r)
  <1> DEFINE f == r.from
             p == MakeProvider(f, ghost.env, Projects, Secrets)
             expanded == [x \in DOMAIN f.texts |-> Expand(f.texts[x], ghost.env).val]
             Of(x) == ResolveValue(p.val, f.strict, expanded[x])
  <1>1. /\ f \in ConfigFiles /\ p.ok /\ \A x \in DOMAIN f.texts : Expand(f.texts[x], ghost.env).ok
        /\ ResolveSecrets(p.val, f.strict, expanded) = Ok(r.texts)
    BY DEF FromOneFile
  <1>2. p.val = [bws |-> f.bws, env |-> ghost.env, projects |-> Projects, secrets |-> Secrets]
    <2>1. p = Error \/ p = Ok([bws |-> f.bws, env |-> ghost.env, projects |-> Projects, secrets |-> Secrets])
      BY DEF MakeProvider
    <2> HIDE DEF p
    <2> QED BY <1>1, <2>1, Constructors
  <1>3. IsProvider(p.val)
    BY <1>2 DEF IsProvider
  <1>4. \A x \in DOMAIN f.texts : f.texts[x] \in Seq(Cells)
    BY <1>1, ConfigAssumption
  <1>5. ASSUME NEW x \in DOMAIN f.texts
        PROVE  /\ expanded[x] \in Seq(Cells)
               /\ expanded[x] = FlattenSeq([i \in DOMAIN f.texts[x] |->
                    IF f.texts[x][i].kind = "var" THEN ghost.env[f.texts[x][i].is] ELSE <<f.texts[x][i]>>])
               /\ \A i \in Refs(f.texts[x]) : \E j \in Refs(expanded[x]) : expanded[x][j] = f.texts[x][i]
    <2> DEFINE text == f.texts[x]
    <2>1. text \in Seq(Cells) /\ Expand(text, ghost.env).ok /\ expanded[x] = Expand(text, ghost.env).val
      BY <1>1, <1>4
    <2> HIDE DEF text, expanded
    <2> DEFINE vars == ghost.env
    <2>2. IsEnvironment(vars) /\ Expand(text, vars).ok
      BY <2>1
    <2> HIDE DEF vars
    <2>3. /\ Expand(text, vars).val \in Seq(Cells)
          /\ Expand(text, vars).val = FlattenSeq([i \in DOMAIN text |->
               IF text[i].kind = "var" THEN vars[text[i].is] ELSE <<text[i]>>])
          /\ \A i \in Refs(text) : \E j \in Refs(Expand(text, vars).val) : Expand(text, vars).val[j] = text[i]
      BY <2>1, <2>2, Expanded
    <2> QED BY <2>1, <2>3 DEF text, vars
  <1>6. /\ DOMAIN r.texts = DOMAIN f.texts
        /\ \A x \in DOMAIN f.texts : x \notin Resolved => r.texts[x] = expanded[x]
        /\ \A x \in DOMAIN f.texts : x \in Resolved => Of(x).ok /\ r.texts[x] = Of(x).val
    <2> DEFINE one == [x \in DOMAIN expanded |->
                         IF x \in Resolved THEN ResolveValue(p.val, f.strict, expanded[x])
                         ELSE Ok(expanded[x])]
               whole == ResolveSecrets(p.val, f.strict, expanded)
    <2>1. DOMAIN expanded = DOMAIN f.texts
      OBVIOUS
    <2> HIDE DEF expanded, p
    <2>2. whole = Error \/ (/\ \A x \in DOMAIN expanded : one[x].ok
                            /\ whole = Ok([x \in DOMAIN expanded |-> one[x].val]))
      BY Zenon DEF ResolveSecrets
    <2>3. whole = Ok(r.texts)
      BY <1>1
    <2> HIDE DEF one, whole
    <2>4. /\ \A x \in DOMAIN expanded : one[x].ok
          /\ r.texts = [x \in DOMAIN expanded |-> one[x].val]
      BY <2>2, <2>3, Constructors
    <2>5. \A x \in DOMAIN expanded :
            one[x] = IF x \in Resolved THEN ResolveValue(p.val, f.strict, expanded[x])
                                       ELSE Ok(expanded[x])
      BY DEF one
    <2> QED BY <2>1, <2>4, <2>5, Constructors
  <1> HIDE DEF expanded, p
  <1>7. ASSUME NEW x \in DOMAIN f.texts, x \in Resolved
        PROVE  /\ r.texts[x] = FlattenSeq([i \in DOMAIN expanded[x] |-> Stands(p.val, expanded[x][i])])
               /\ \A i \in Refs(expanded[x]) : ResolveSingle(p.val, f.strict, expanded[x][i]).ok
    <2> DEFINE text == expanded[x]
    <2>1. text \in Seq(Cells) /\ ResolveValue(p.val, f.strict, text).ok
          /\ r.texts[x] = ResolveValue(p.val, f.strict, text).val
      BY <1>5, <1>6, <1>7
    <2> DEFINE prov == p.val
               strict == f.strict
    <2>2. IsProvider(prov)
      BY <1>3
    <2> HIDE DEF text, prov, strict
    <2>3. /\ ResolveValue(prov, strict, text).val = FlattenSeq([i \in DOMAIN text |-> Stands(prov, text[i])])
          /\ \A i \in Refs(text) : ResolveSingle(prov, strict, text[i]).ok
      BY <2>1, <2>2, ResolvedText DEF prov, strict
    <2> QED BY <2>1, <2>3 DEF text, prov, strict
  <1>8. ASSUME NEW x, NEW cell, x \in Resolved
        PROVE  Value(cell, x, ghost.env, f.bws) = Stands(p.val, cell)
    BY <1>2, <1>8 DEF Value, Stands
  <1>9. ASSUME NEW x \in DOMAIN r.texts
        PROVE  r.texts[x] = Meaning(f.texts[x], x, ghost.env, f.bws)
    <2>0. x \in DOMAIN f.texts
      BY <1>6
    <2>1. Meaning(f.texts[x], x, ghost.env, f.bws) =
            FlattenSeq([i \in DOMAIN expanded[x] |-> Value(expanded[x][i], x, ghost.env, f.bws)])
      BY <1>5, <2>0 DEF Meaning
    <2>2. CASE x \in Resolved
      <3>1. [i \in DOMAIN expanded[x] |-> Value(expanded[x][i], x, ghost.env, f.bws)]
              = [i \in DOMAIN expanded[x] |-> Stands(p.val, expanded[x][i])]
        BY <1>8, <2>2
      <3> QED BY <1>7, <2>0, <2>1, <2>2, <3>1
    <2>3. CASE x \notin Resolved
      <3>1. [i \in DOMAIN expanded[x] |-> Value(expanded[x][i], x, ghost.env, f.bws)]
              = [i \in DOMAIN expanded[x] |-> <<expanded[x][i]>>]
        BY <2>3 DEF Value
      <3> DEFINE text == expanded[x]
      <3>2. text \in Seq(Cells)
        BY <1>5, <2>0
      <3>3. FlattenSeq([i \in DOMAIN text |-> <<text[i]>>]) = text
        <4> HIDE DEF text
        <4> QED BY <3>2, FlattenSingletons
      <3> QED BY <1>6, <2>0, <2>1, <2>3, <3>1, <3>3
    <2> QED BY <2>2, <2>3
  <1>10. ASSUME f.strict, NEW x \in Resolved \cap DOMAIN r.texts, NEW i \in Refs(f.texts[x])
         PROVE  Value(f.texts[x][i], x, ghost.env, f.bws) # <<>>
    <2>0. x \in DOMAIN f.texts /\ x \in Resolved
      BY <1>6
    <2> DEFINE cell == f.texts[x][i]
    <2>1. PICK j \in Refs(expanded[x]) : expanded[x][j] = cell
      BY <1>5, <2>0
    <2>2. ResolveSingle(p.val, f.strict, cell).ok /\ cell.kind = "ref"
      BY <1>7, <2>0, <2>1 DEF Refs
    <2> HIDE DEF cell
    <2>3. Stands(p.val, cell) # <<>>
      BY <1>10, <2>2, SingleStands
    <2> QED BY <1>8, <2>0, <2>3 DEF cell
  <1> QED
    BY <1>9, <1>10 DEF TextsAsWritten, NoEmptySecret

\* The configuration in effect is the file's: one file, its texts with every secret exactly
\* where its reference was, no empty secret in strict mode, and its durations.
THEOREM RunsAsWritten == ConfigSpec => []RunningAsWritten
  <1>1. (IsSome(running) => FromOneFile(running.some)) /\ DurationsAsWritten
          /\ IsEnvironment(ghost.env) /\ dotenv \in DotenvFiles => RunningAsWritten
    BY TextsKept DEF RunningAsWritten
  <1> QED
    BY <1>1, RunningFromOneFile, DurationsSurvive, Environments, PTL

-----------------------------------------------------------------------------
(***************************************************************************)
(* Reload.  The backends of the file follow it, for any names, versions,   *)
(* clients and edits; max_dynamic_backends is overshot by less than the    *)
(* number of clients, so that one client after another respects it.        *)
(***************************************************************************)

Settled == {"wait", "settle", "load", "stopped"}
Applying == {"apply", "removing", "readding", "adding", "finish"}
ClientLabels == {"idle", "check", "register", "starting", "mark", "ask", "remove", "removing"}
Client == [pc : ClientLabels, name : Wanted \cup {"none"}]
Diffs == [remove : SUBSET Names, change : SUBSET Names, add : SUBSET Names]

FileFits ==
    /\ file \in Files /\ current \in Files /\ event \in BOOLEAN
    /\ edits \in Nat /\ calls \in Nat /\ down \in BOOLEAN

ManagerFits ==
    /\ configs \in [Names -> Versions \cup {0, Template}]
    /\ tools \in [Names -> Versions \cup {0, Template}]
    /\ dynamic \subseteq Names

\* A client that is on its way is about a name that clients may ask for.
ClientsFit ==
    /\ client \in [Clients -> Client]
    /\ \A c \in Clients : client[c].pc # "idle" => client[c].name \in Wanted

Watch == [pc : Settled \cup Applying, new : Files \cup {Idle.new}, todo : Diffs, name : Names \cup {"none"}]

WatchFits ==
    /\ watch \in Watch
    /\ watch.pc \in Applying => watch.new \in Files
    /\ watch.pc \in {"removing", "readding", "adding"} => watch.name \in Names

Pending ==
    watch.todo.remove \cup watch.todo.change \cup watch.todo.add
        \cup (IF watch.pc \in {"removing", "readding"} THEN {watch.name} ELSE {})

\* What the watcher has dealt with, of the backends that are its own, has the new
\* configuration; what it removes has none in it.
Applied ==
    /\ aliases = current.aliases
    /\ \A n \in Names \ Wanted :
         /\ watch.pc \in Settled => configs[n] = current.of[n]
         /\ watch.pc \in Applying /\ n \notin Pending => configs[n] = watch.new.of[n]
         /\ tools[n] \in {0, configs[n]}
         /\ watch.pc \in {"removing", "readding"} /\ n = watch.name => tools[n] = 0
         /\ watch.pc = "adding" /\ n = watch.name => configs[n] = watch.new.of[n]
    /\ watch.pc \in Applying => \A n \in watch.todo.remove : watch.new.of[n] = 0
    /\ watch.pc = "removing" => watch.new.of[watch.name] = 0
    /\ watch.pc = "finish" => watch.todo = Nothing

ReloadInv == FileFits /\ ManagerFits /\ ClientsFit /\ WatchFits /\ Applied

\* The backends that are dynamic or about to be marked so.
OnTheirWay == {client[c].name : c \in {d \in Clients : client[d].pc \in {"register", "starting", "mark"}}}
DynamicBound == Cardinality(dynamic \cup OnTheirWay) < MaxDynamic + Cardinality(Clients)

-----------------------------------------------------------------------------

LEMMA IdleFits == Idle \in Watch /\ Idle.pc = "wait" /\ Idle.todo = Nothing
  BY DEF Idle, Watch, Settled, Diffs, Nothing

LEMMA InitReloadInv == ReloadInit => ReloadInv
  <1> SUFFICES ASSUME ReloadInit PROVE ReloadInv
    OBVIOUS
  <1>1. file \in Files
    BY ReloadAssumption DEF ReloadInit, Files
  <1>2. FileFits
    BY <1>1 DEF ReloadInit, FileFits
  <1>3. file.of \in [Names -> Versions \cup {0}]
    BY <1>1 DEF Files
  <1>4. ManagerFits
    BY <1>3 DEF ReloadInit, ManagerFits
  <1>5. ClientsFit
    BY DEF ReloadInit, ClientsFit, Client, ClientLabels
  <1>6. WatchFits
    BY IdleFits DEF ReloadInit, WatchFits, Applying
  <1>7. Applied
    <2>1. aliases = current.aliases
      BY DEF ReloadInit
    <2>2. watch.pc = "wait" /\ configs = current.of /\ tools = configs
      BY IdleFits DEF ReloadInit
    <2> QED BY <2>1, <2>2 DEF Applied, Applying
  <1> QED
    BY <1>2, <1>4, <1>5, <1>6, <1>7 DEF ReloadInv

\* A change of the file is nothing the watcher or the manager sees.
LEMMA EditKeepsInv == ReloadInv /\ Edit => ReloadInv'
  <1> SUFFICES ASSUME ReloadInv, Edit PROVE ReloadInv'
    OBVIOUS
  <1>1. UNCHANGED <<watch, current, configs, tools, dynamic, aliases, client, calls, down>>
    BY DEF Edit, managerVars
  <1>2. file \in Files /\ edits \in Nat
    BY DEF ReloadInv, FileFits
  <1>3. file' \in Files
    <2>1. CASE \E n \in Listed, v \in Versions \cup {0} : file' = [file EXCEPT !.of[n] = v, !.valid = TRUE]
      <3>1. PICK n \in Listed, v \in Versions \cup {0} : file' = [file EXCEPT !.of[n] = v, !.valid = TRUE]
        BY <2>1
      <3>2. PICK of : of = [file.of EXCEPT ![n] = v]
        OBVIOUS
      <3>3. of \in [Names -> Versions \cup {0}]
        BY <1>2, <3>2 DEF Files
      <3>4. file' = [valid |-> TRUE, of |-> of, aliases |-> file.aliases]
        BY <1>2, <3>1, <3>2 DEF Files
      <3> QED BY <1>2, <3>3, <3>4 DEF Files
    <2>2. CASE \E a \in 0..1 : file' = [file EXCEPT !.aliases = a, !.valid = TRUE]
      BY <1>2, <2>2 DEF Files
    <2>3. CASE file' = [file EXCEPT !.valid = FALSE]
      BY <1>2, <2>3 DEF Files
    <2> QED BY <2>1, <2>2, <2>3 DEF Edit
  <1>4. event' = TRUE /\ edits' = edits + 1
    BY DEF Edit
  <1>5. FileFits'
    <2>1. edits' \in Nat
      BY <1>2, <1>4
    <2>2. event' \in BOOLEAN
      BY <1>4
    <2> QED BY <1>1, <1>3, <2>1, <2>2 DEF ReloadInv, FileFits
  <1>6. ManagerFits' /\ ClientsFit' /\ WatchFits' /\ Applied'
    BY <1>1 DEF ReloadInv, ManagerFits, ClientsFit, WatchFits, Applied, Pending
  <1> QED
    BY <1>5, <1>6 DEF ReloadInv

\* What a step of the watcher must do to keep the invariant; it leaves the file and the
\* clients alone.
LEMMA WatcherKeeps ==
    ASSUME ReloadInv, Outside, event' \in BOOLEAN, current' \in Files, ManagerFits', WatchFits', Applied'
    PROVE  ReloadInv'
  <1>1. FileFits' /\ ClientsFit'
    BY DEF ReloadInv, FileFits, ClientsFit, Outside
  <1> QED
    BY <1>1 DEF ReloadInv

\* The watcher moves to another label and changes nothing else of its own.
LEMMA Moving ==
    ASSUME NEW w \in Watch, NEW pc \in Settled \cup Applying
    PROVE  /\ [w EXCEPT !.pc = pc] \in Watch /\ [w EXCEPT !.pc = pc].pc = pc
           /\ [w EXCEPT !.pc = pc].new = w.new /\ [w EXCEPT !.pc = pc].todo = w.todo
           /\ [w EXCEPT !.pc = pc].name = w.name
  BY DEF Watch

LEMMA WaitingKeepsInv == ReloadInv /\ (Notice \/ Settle) => ReloadInv'
  <1> SUFFICES ASSUME ReloadInv, Notice \/ Settle PROVE ReloadInv'
    OBVIOUS
  <1>1. PICK pc \in {"settle", "load"} : watch' = [watch EXCEPT !.pc = pc] /\ watch.pc \in {"wait", "settle"}
    BY DEF Notice, Settle, WatchStep
  <1>2. UNCHANGED <<current, configs, tools, dynamic, aliases>> /\ event' = FALSE /\ Outside
    BY DEF Notice, Settle, managerVars
  <1>3. watch \in Watch /\ pc \in Settled \cup Applying
    BY DEF ReloadInv, WatchFits, Settled
  <1>4. watch' \in Watch /\ watch'.pc = pc
    BY <1>1, <1>3, Moving
  <1>5. ManagerFits' /\ current' \in Files
    BY <1>2 DEF ReloadInv, ManagerFits, FileFits
  <1>6. WatchFits'
    BY <1>4 DEF WatchFits, Applying
  <1>7. Applied'
    BY <1>1, <1>2, <1>4 DEF ReloadInv, Applied, Applying, Settled
  <1> QED
    BY <1>2, <1>5, <1>6, <1>7, WatcherKeeps

LEMMA DiffFits ==
    ASSUME NEW old \in [Names -> Versions \cup {0}], NEW new \in [Names -> Versions \cup {0}]
    PROVE  /\ Diff(old, new) \in Diffs
           /\ \A n \in Diff(old, new).remove : new[n] = 0
           /\ \A n \in Names : n \notin Diff(old, new).remove \cup Diff(old, new).change \cup Diff(old, new).add
                 => old[n] = new[n]
  BY DEF Diff, Diffs

LEMMA LoadKeepsInv == ReloadInv /\ Load => ReloadInv'
  <1> SUFFICES ASSUME ReloadInv, Load PROVE ReloadInv'
    OBVIOUS
  <1>1. UNCHANGED <<event, current, configs, tools, dynamic, aliases>> /\ Outside /\ watch.pc = "load"
    BY DEF Load, managerVars
  <1>2. file \in Files /\ current \in Files /\ event \in BOOLEAN /\ watch \in Watch
    BY DEF ReloadInv, FileFits, WatchFits
  <1>3. ManagerFits' /\ current' \in Files /\ event' \in BOOLEAN
    BY <1>1, <1>2 DEF ReloadInv, ManagerFits
  <1>4. CASE watch' = Idle
    <2>1. WatchFits'
      BY <1>4, IdleFits DEF WatchFits, Applying
    <2>2. Applied'
      BY <1>1, <1>4, IdleFits DEF ReloadInv, Applied, Applying, Settled
    <2> QED BY <1>1, <1>3, <2>1, <2>2, WatcherKeeps
  <1>5. CASE file.valid
    <2> DEFINE todo == Diff(current.of, file.of)
    <2>1. current.of \in [Names -> Versions \cup {0}] /\ file.of \in [Names -> Versions \cup {0}]
      BY <1>2 DEF Files
    <2>2. /\ todo \in Diffs
          /\ \A n \in todo.remove : file.of[n] = 0
          /\ \A n \in Names : n \notin todo.remove \cup todo.change \cup todo.add => current.of[n] = file.of[n]
      BY <2>1, DiffFits
    <2>3. watch' = [watch EXCEPT !.pc = "apply", !.new = file, !.todo = todo]
      BY <1>5 DEF Load
    <2> HIDE DEF todo
    <2>4. watch' \in Watch /\ watch'.pc = "apply" /\ watch'.new = file /\ watch'.todo = todo
      BY <1>2, <2>2, <2>3 DEF Watch, Applying
    <2>5. WatchFits'
      BY <1>2, <2>4 DEF WatchFits
    <2>6. Applied'
      <3>1. \A n \in Names \ Wanted : configs[n] = current.of[n] /\ tools[n] \in {0, configs[n]}
        BY <1>1 DEF ReloadInv, Applied, Settled
      <3>2. Pending' = todo.remove \cup todo.change \cup todo.add
        BY <2>4 DEF Pending
      <3>3. \A n \in Names \ Wanted : n \notin Pending' => configs'[n] = watch'.new.of[n]
        BY <1>1, <2>2, <2>4, <3>1, <3>2
      <3>4. aliases' = current'.aliases
        BY <1>1 DEF ReloadInv, Applied
      <3> QED BY <1>1, <2>2, <2>4, <3>1, <3>3, <3>4 DEF Applied, Settled
    <2> QED BY <1>1, <1>3, <2>5, <2>6, WatcherKeeps
  <1> QED
    BY <1>4, <1>5 DEF Load

\* The watcher takes one backend off its list, or is done.
LEMMA ApplyKeepsInv == ReloadInv /\ ApplyNext => ReloadInv'
  <1> SUFFICES ASSUME ReloadInv, ApplyNext PROVE ReloadInv'
    OBVIOUS
  <1> DEFINE todo == watch.todo
  <1>1. UNCHANGED <<event, current, aliases>> /\ Outside /\ watch.pc = "apply"
    BY DEF ApplyNext
  <1>2. /\ watch \in Watch /\ watch.new \in Files /\ todo \in Diffs
        /\ todo.remove \subseteq Names /\ todo.change \subseteq Names /\ todo.add \subseteq Names
    BY <1>1 DEF ReloadInv, WatchFits, Applying, Watch, Diffs
  <1>3. ManagerFits /\ current' \in Files /\ event' \in BOOLEAN
    BY <1>1 DEF ReloadInv, FileFits
  <1>4. /\ aliases' = current'.aliases
        /\ \A m \in Names \ Wanted :
             /\ m \notin todo.remove \cup todo.change \cup todo.add => configs[m] = watch.new.of[m]
             /\ tools[m] \in {0, configs[m]}
        /\ \A m \in todo.remove : watch.new.of[m] = 0
    BY <1>1 DEF ReloadInv, Applied, Applying, Pending
  <1>5. ASSUME NEW n \in todo.remove, BeginRemove(n),
               watch' = [watch EXCEPT !.pc = "removing", !.name = n, !.todo.remove = @ \ {n}]
        PROVE  ReloadInv'
    <2>1. /\ watch'.pc = "removing" /\ watch'.name = n /\ watch'.new = watch.new
          /\ watch'.todo.remove = todo.remove \ {n} /\ watch'.todo.change = todo.change /\ watch'.todo.add = todo.add
      BY <1>2, <1>5 DEF Watch, Diffs
    <2>2. watch' = [pc |-> "removing", new |-> watch.new, todo |-> [todo EXCEPT !.remove = @ \ {n}], name |-> n]
      BY <1>2, <1>5 DEF Watch, Diffs
    <2>3. WatchFits'
      BY <1>2, <2>2 DEF WatchFits, Watch, Applying, Diffs
    <2>4. ManagerFits'
      BY <1>3, <1>5 DEF BeginRemove, ManagerFits
    <2>5. Pending' = todo.remove \cup todo.change \cup todo.add
      BY <2>1 DEF Pending
    <2>6. /\ UNCHANGED configs
          /\ tools'[n] = 0 /\ \A m \in Names \ {n} : tools'[m] = tools[m]
      BY <1>2, <1>3, <1>5 DEF BeginRemove, ManagerFits
    <2> HIDE DEF todo
    <2>7. Applied'
      BY <1>2, <1>4, <2>1, <2>5, <2>6 DEF Applied, Applying, Settled
    <2> QED BY <1>1, <1>3, <2>3, <2>4, <2>7, WatcherKeeps
  <1>6. ASSUME NEW n \in todo.change, BeginRemove(n), todo.remove = {},
               watch' = [watch EXCEPT !.pc = "readding", !.name = n, !.todo.change = @ \ {n}]
        PROVE  ReloadInv'
    <2>1. /\ watch'.pc = "readding" /\ watch'.name = n /\ watch'.new = watch.new
          /\ watch'.todo.remove = {} /\ watch'.todo.change = todo.change \ {n} /\ watch'.todo.add = todo.add
      BY <1>2, <1>6 DEF Watch, Diffs
    <2>2. watch' = [pc |-> "readding", new |-> watch.new, todo |-> [todo EXCEPT !.change = @ \ {n}], name |-> n]
      BY <1>2, <1>6 DEF Watch, Diffs
    <2>3. WatchFits'
      BY <1>2, <2>2 DEF WatchFits, Watch, Applying, Diffs
    <2>4. ManagerFits'
      BY <1>3, <1>6 DEF BeginRemove, ManagerFits
    <2>5. Pending' = todo.remove \cup todo.change \cup todo.add
      BY <1>6, <2>1 DEF Pending
    <2>6. /\ UNCHANGED configs
          /\ tools'[n] = 0 /\ \A m \in Names \ {n} : tools'[m] = tools[m]
      BY <1>2, <1>3, <1>6 DEF BeginRemove, ManagerFits
    <2> HIDE DEF todo
    <2>7. Applied'
      BY <1>2, <1>4, <2>1, <2>5, <2>6 DEF Applied, Applying, Settled
    <2> QED BY <1>1, <1>3, <2>3, <2>4, <2>7, WatcherKeeps
  <1>7. ASSUME NEW n \in todo.add, BeginAdd(n, watch.new.of[n]), todo.remove = {}, todo.change = {},
               watch' = [watch EXCEPT !.pc = "adding", !.name = n, !.todo.add = @ \ {n}]
        PROVE  ReloadInv'
    <2>1. /\ watch'.pc = "adding" /\ watch'.name = n /\ watch'.new = watch.new
          /\ watch'.todo.remove = {} /\ watch'.todo.change = {} /\ watch'.todo.add = todo.add \ {n}
      BY <1>2, <1>7 DEF Watch, Diffs
    <2>2. watch' = [pc |-> "adding", new |-> watch.new, todo |-> [todo EXCEPT !.add = @ \ {n}], name |-> n]
      BY <1>2, <1>7 DEF Watch, Diffs
    <2>3. WatchFits'
      BY <1>2, <2>2 DEF WatchFits, Watch, Applying, Diffs
    <2>4. watch.new.of[n] \in Versions \cup {0}
      BY <1>2 DEF Files
    <2>5. ManagerFits'
      BY <1>3, <1>7, <2>4 DEF BeginAdd, ManagerFits
    <2>6. Pending' = todo.add \ {n}
      BY <2>1 DEF Pending
    <2>7. /\ configs'[n] = watch.new.of[n] /\ tools'[n] = 0
          /\ \A m \in Names \ {n} : configs'[m] = configs[m] /\ tools'[m] = tools[m]
      BY <1>2, <1>3, <1>7 DEF BeginAdd, ManagerFits
    <2>8. \A m \in Names \ Wanted : m \notin Pending' => configs'[m] = watch.new.of[m]
      BY <1>4, <1>7, <2>6, <2>7
    <2> HIDE DEF todo
    <2>9. Applied'
      BY <1>2, <1>4, <2>1, <2>7, <2>8 DEF Applied, Applying, Settled
    <2> QED BY <1>1, <1>3, <2>3, <2>5, <2>9, WatcherKeeps
  <1>8. ASSUME todo = Nothing, watch' = [watch EXCEPT !.pc = "finish"], UNCHANGED managerVars
        PROVE  ReloadInv'
    <2>1. /\ watch' \in Watch /\ watch'.pc = "finish" /\ watch'.new = watch.new /\ watch'.todo = Nothing
      BY <1>2, <1>8, Moving DEF Applying
    <2>2. WatchFits' /\ ManagerFits'
      BY <1>2, <1>3, <1>8, <2>1 DEF WatchFits, ManagerFits, managerVars
    <2>3. UNCHANGED <<configs, tools>> /\ todo.remove \cup todo.change \cup todo.add = {} /\ Pending' = {}
      BY <1>8, <2>1 DEF managerVars, Nothing, Pending
    <2>4. Applied'
      BY <1>4, <2>1, <2>3 DEF Applied, Applying, Settled, Nothing
    <2> QED BY <1>1, <1>3, <2>2, <2>4, WatcherKeeps
  <1> QED
    BY <1>5, <1>6, <1>7, <1>8 DEF ApplyNext

\* A backend is gone, is replaced or is listed, and the watcher goes on.
LEMMA ManagingKeepsInv == ReloadInv /\ (WatcherRemoved \/ WatcherReadds \/ WatcherAdded) => ReloadInv'
  <1> SUFFICES ASSUME ReloadInv, WatcherRemoved \/ WatcherReadds \/ WatcherAdded PROVE ReloadInv'
    OBVIOUS
  <1> DEFINE n == watch.name
  <1>1. /\ UNCHANGED <<event, current, aliases>> /\ Outside
        /\ watch.pc \in {"removing", "readding", "adding"}
    BY DEF WatcherRemoved, WatcherReadds, WatcherAdded, WatchStep
  <1>2. PICK pc \in {"apply", "adding"} : watch' = [watch EXCEPT !.pc = pc]
    BY DEF WatcherRemoved, WatcherReadds, WatcherAdded, WatchStep
  <1>3. watch \in Watch /\ watch.new \in Files /\ n \in Names /\ pc \in Applying
    BY <1>1 DEF ReloadInv, WatchFits, Applying
  <1>4. /\ watch' \in Watch /\ watch'.pc = pc /\ watch'.new = watch.new /\ watch'.todo = watch.todo
        /\ watch'.name = n
    BY <1>2, <1>3, Moving
  <1>5. WatchFits'
    BY <1>2, <1>3, <1>4 DEF WatchFits
  <1>6. ManagerFits /\ current' \in Files /\ event' \in BOOLEAN
    BY <1>1 DEF ReloadInv, FileFits
  <1>7. /\ aliases' = current'.aliases
        /\ \A m \in Names \ Wanted :
             /\ m \notin Pending => configs[m] = watch.new.of[m]
             /\ tools[m] \in {0, configs[m]}
             /\ watch.pc \in {"removing", "readding"} /\ m = n => tools[m] = 0
             /\ watch.pc = "adding" /\ m = n => configs[m] = watch.new.of[m]
        /\ \A m \in watch.todo.remove : watch.new.of[m] = 0
        /\ watch.pc = "removing" => watch.new.of[n] = 0
    BY <1>1 DEF ReloadInv, Applied, Applying
  <1>8. Pending \subseteq Pending' \cup (IF watch.pc \in {"removing", "readding"} THEN {n} ELSE {})
    BY <1>2, <1>4 DEF Pending
  <1>9. watch.new.of[n] \in Versions \cup {0}
    BY <1>3 DEF Files
  <1>10. /\ ManagerFits'
         /\ \A m \in Names \ {n} : configs'[m] = configs[m] /\ tools'[m] = tools[m]
         /\ n \notin Wanted => configs'[n] = watch.new.of[n] /\ tools'[n] \in {0, configs'[n]}
    <2>1. CASE WatcherRemoved
      <3>1. watch.pc = "removing" /\ configs' = [configs EXCEPT ![n] = 0] /\ dynamic' = dynamic \ {n} /\ tools' = tools
        BY <2>1 DEF WatcherRemoved, WatchStep, EndRemove
      <3>2. n \notin Wanted => tools[n] = 0 /\ watch.new.of[n] = 0
        BY <1>3, <1>7, <3>1
      <3> QED BY <1>3, <1>6, <3>1, <3>2 DEF ManagerFits
    <2>2. CASE WatcherReadds
      BY <1>3, <1>6, <1>9, <2>2 DEF ManagerFits, WatcherReadds
    <2>3. CASE WatcherAdded
      <3>1. /\ watch.pc = "adding" /\ UNCHANGED <<configs, dynamic>>
            /\ tools' \in {tools, [tools EXCEPT ![n] = watch.new.of[n]]}
        BY <2>3 DEF WatcherAdded, WatchStep, EndAdd
      <3>2. n \notin Wanted => configs[n] = watch.new.of[n] /\ tools[n] \in {0, configs[n]}
        BY <1>3, <1>7, <3>1
      <3> QED BY <1>3, <1>6, <1>9, <3>1, <3>2 DEF ManagerFits
    <2> QED BY <2>1, <2>2, <2>3
  <1> HIDE DEF n
  <1>11. \A m \in Names \ Wanted : m \notin Pending' => configs'[m] = watch.new.of[m]
    BY <1>7, <1>8, <1>10
  <1>12. \A m \in Names \ Wanted : tools'[m] \in {0, configs'[m]}
    BY <1>7, <1>10
  <1>13. Applied'
    BY <1>3, <1>4, <1>7, <1>10, <1>11, <1>12 DEF Applied, Applying, Settled
  <1> QED
    BY <1>1, <1>5, <1>6, <1>10, <1>13, WatcherKeeps

LEMMA FinishKeepsInv == ReloadInv /\ Finish => ReloadInv'
  <1> SUFFICES ASSUME ReloadInv, Finish PROVE ReloadInv'
    OBVIOUS
  <1>1. /\ watch.pc = "finish" /\ UNCHANGED <<event, configs, tools, dynamic>> /\ Outside
        /\ watch' = Idle /\ current' = watch.new
        /\ aliases' = IF watch.new.aliases # current.aliases THEN watch.new.aliases ELSE aliases
    BY DEF Finish, managerVars
  <1>2. ManagerFits' /\ current' \in Files /\ event' \in BOOLEAN
    BY <1>1 DEF ReloadInv, ManagerFits, FileFits, WatchFits, Applying
  <1>3. WatchFits'
    BY <1>1, IdleFits DEF WatchFits, Applying
  <1>4. Pending = {}
    BY <1>1 DEF ReloadInv, Applied, Pending, Nothing
  <1>5. \A n \in Names \ Wanted : configs[n] = watch.new.of[n] /\ tools[n] \in {0, configs[n]}
    BY <1>1, <1>4 DEF ReloadInv, Applied, Applying
  <1>6. aliases' = current'.aliases
    BY <1>1 DEF ReloadInv, Applied
  <1>7. Applied'
    BY <1>1, <1>5, <1>6, IdleFits DEF Applied, Applying, Settled
  <1> QED
    BY <1>1, <1>2, <1>3, <1>7, WatcherKeeps

LEMMA ShutdownKeepsInv == ReloadInv /\ Shutdown => ReloadInv'
  <1> SUFFICES ASSUME ReloadInv, Shutdown PROVE ReloadInv'
    OBVIOUS
  <1>1. /\ UNCHANGED <<file, event, current, configs, tools, dynamic, aliases, client, edits, calls>> /\ down' = TRUE
        /\ watch' = IF watch.pc = "wait" THEN [Idle EXCEPT !.pc = "stopped"] ELSE watch
    BY DEF Shutdown, managerVars
  <1>2. FileFits' /\ ManagerFits' /\ ClientsFit'
    BY <1>1 DEF ReloadInv, FileFits, ManagerFits, ClientsFit
  <1>3. CASE watch.pc = "wait"
    <2>1. watch' \in Watch /\ watch'.pc = "stopped"
      BY <1>1, <1>3, IdleFits, Moving DEF Settled
    <2>2. WatchFits'
      BY <2>1 DEF WatchFits, Applying
    <2>3. Applied'
      BY <1>1, <1>3, <2>1 DEF ReloadInv, Applied, Applying, Settled
    <2> QED BY <1>2, <2>2, <2>3 DEF ReloadInv
  <1>4. CASE watch.pc # "wait"
    BY <1>1, <1>2, <1>4 DEF ReloadInv, WatchFits, Applied, Pending
  <1> QED
    BY <1>3, <1>4

\* A client is about a name clients ask for, and touches nothing else.
LEMMA ClientKeepsInv == ASSUME ReloadInv, NEW c \in Clients, ClientNext(c) PROVE ReloadInv'
  <1> DEFINE n == client[c].name
  <1>1. UNCHANGED <<file, event, watch, current, aliases, edits, down>>
    BY DEF ClientNext, Call, CheckLimit, Register, Registered, Mark, CheckDynamic, Deregister, Deregistered, Inside
  <1>2. calls \in Nat /\ client \in [Clients -> Client] /\ ManagerFits
    BY DEF ReloadInv, FileFits, ClientsFit
  <1>3. calls' \in Nat
    BY <1>2 DEF ClientNext, Call, CheckLimit, Register, Registered, Mark, CheckDynamic, Deregister, Deregistered,
                Inside
  <1>4. client[c].pc # "idle" => n \in Wanted /\ n \in Names
    BY ReloadAssumption DEF ReloadInv, ClientsFit
  <1>5. ClientsFit'
    <2>1. CASE Call(c, "check") \/ Call(c, "ask")
      <3>1. PICK to \in ClientLabels, m \in Wanted : client' = [client EXCEPT ![c] = [pc |-> to, name |-> m]]
        BY <2>1 DEF Call, ClientLabels
      <3> QED BY <1>2, <3>1 DEF ReloadInv, ClientsFit, Client
    <2>2. CASE ~(Call(c, "check") \/ Call(c, "ask"))
      <3>1. PICK to \in ClientLabels : client' = [client EXCEPT ![c].pc = to] /\ client[c].pc # "idle"
        BY <2>2 DEF ClientNext, CheckLimit, Register, Registered, Mark, CheckDynamic, Deregister, Deregistered,
                    ClientStep, ClientLabels
      <3> QED BY <1>2, <3>1 DEF ReloadInv, ClientsFit, Client
    <2> QED BY <2>1, <2>2
  <1>6. /\ ManagerFits'
        /\ \A m \in Names \ Wanted : configs'[m] = configs[m] /\ tools'[m] = tools[m]
    <2>1. CASE UNCHANGED managerVars
      BY <1>2, <2>1 DEF ManagerFits, managerVars
    <2>2. CASE Register(c)
      BY <1>2, <1>4, <2>2 DEF ManagerFits, Register, ClientStep, BeginAdd
    <2>3. CASE Registered(c)
      BY <1>2, <1>4, <2>3 DEF ManagerFits, Registered
    <2>4. CASE Mark(c)
      BY <1>2, <1>4, <2>4 DEF ManagerFits, Mark, ClientStep
    <2>5. CASE Deregister(c)
      BY <1>2, <1>4, <2>5 DEF ManagerFits, Deregister, ClientStep, BeginRemove
    <2>6. CASE Deregistered(c)
      BY <1>2, <1>4, <2>6 DEF ManagerFits, Deregistered, ClientStep, EndRemove
    <2> QED BY <2>1, <2>2, <2>3, <2>4, <2>5, <2>6 DEF ClientNext, Call, CheckLimit, CheckDynamic
  <1>7. FileFits'
    BY <1>1, <1>3 DEF ReloadInv, FileFits
  <1>8. WatchFits'
    BY <1>1 DEF ReloadInv, WatchFits
  <1>9. Applied'
    <2>1. Pending' = Pending
      BY <1>1 DEF Pending
    <2> QED BY <1>1, <1>6, <2>1 DEF ReloadInv, Applied
  <1> QED
    BY <1>5, <1>6, <1>7, <1>8, <1>9 DEF ReloadInv

LEMMA StepKeepsReloadInv == ReloadInv /\ [ReloadNext]_reloadVars => ReloadInv'
  <1> SUFFICES ASSUME ReloadInv, [ReloadNext]_reloadVars PROVE ReloadInv'
    OBVIOUS
  <1>1. CASE UNCHANGED reloadVars
    BY <1>1 DEF reloadVars, ReloadInv, FileFits, ManagerFits, ClientsFit, WatchFits, Applied, Pending
  <1>2. CASE WatcherStep
    BY <1>2, WaitingKeepsInv, LoadKeepsInv, ApplyKeepsInv, ManagingKeepsInv, FinishKeepsInv DEF WatcherStep
  <1>3. CASE \E c \in Clients : ClientNext(c)
    BY <1>3, ClientKeepsInv
  <1> QED
    BY <1>1, <1>2, <1>3, EditKeepsInv, ShutdownKeepsInv DEF ReloadNext

\* Once the watcher waits, every backend no client may ask for has the configuration of
\* the file and lists tools of that configuration only, and the aliases are the file's;
\* an invalid file leaves all of it as it was.
THEOREM FileIsApplied == ReloadSpec => []FileApplied
  <1>1. ReloadInv => FileApplied
    <2> SUFFICES ASSUME ReloadInv PROVE FileApplied
      OBVIOUS
    <2>1. aliases \in 0..1
      BY DEF ReloadInv, FileFits, Applied, Files
    <2>2. watch.pc \in {"wait", "settle", "load", "apply", "adding", "removing", "readding", "finish", "stopped"}
      BY DEF ReloadInv, WatchFits, Watch, Settled, Applying
    <2>3. ReloadTypeOK
      BY <2>1, <2>2 DEF ReloadInv, FileFits, ManagerFits, ReloadTypeOK
    <2>4. watch.pc = "wait" =>
            /\ aliases = current.aliases
            /\ \A n \in Names \ Wanted : configs[n] = current.of[n] /\ tools[n] \in {0, configs[n]}
      BY DEF ReloadInv, Applied, Settled
    <2> QED BY <2>3, <2>4 DEF FileApplied
  <1> QED
    BY <1>1, InitReloadInv, StepKeepsReloadInv, PTL DEF ReloadSpec

-----------------------------------------------------------------------------
(* The limit on dynamic backends.                                          *)

LEMMA FewOnTheirWay ==
    ASSUME client \in [Clients -> Client]
    PROVE  IsFiniteSet(OnTheirWay) /\ Cardinality(OnTheirWay) <= Cardinality(Clients)
  <1> DEFINE D == {d \in Clients : client[d].pc \in {"register", "starting", "mark"}}
             nameOf == [d \in D |-> client[d].name]
  <1>1. nameOf \in Surjection(D, OnTheirWay)
    BY DEF OnTheirWay, Surjection
  <1>2. IsFiniteSet(D) /\ Cardinality(D) <= Cardinality(Clients)
    BY ReloadAssumption, FS_Subset
  <1> HIDE DEF D, nameOf
  <1>3. IsFiniteSet(OnTheirWay) /\ Cardinality(OnTheirWay) <= Cardinality(D)
    BY <1>1, <1>2, FS_Surjection
  <1>4. /\ Cardinality(OnTheirWay) \in Nat /\ Cardinality(D) \in Nat /\ Cardinality(Clients) \in Nat
    BY <1>2, <1>3, ReloadAssumption, FS_CardinalityType
  <1> QED
    BY <1>2, <1>3, <1>4

LEMMA ClientsAreMany == Cardinality(Clients) \in Nat /\ Cardinality(Clients) > 0 /\ MaxDynamic \in Nat
  BY ReloadAssumption, FS_CardinalityType, FS_EmptySet

\* A step that lets no further name on its way keeps the bound.
LEMMA FewerKeepsBound ==
    ASSUME ReloadInv, ReloadInv', DynamicBound, (dynamic \cup OnTheirWay)' \subseteq dynamic \cup OnTheirWay
    PROVE  DynamicBound'
  <1>1. IsFiniteSet(dynamic \cup OnTheirWay)
    <2>1. IsFiniteSet(dynamic)
      BY ReloadAssumption, FS_Subset DEF ReloadInv, ManagerFits
    <2>2. IsFiniteSet(OnTheirWay)
      BY FewOnTheirWay DEF ReloadInv, ClientsFit
    <2> QED BY <2>1, <2>2, FS_Union
  <1>2. /\ IsFiniteSet((dynamic \cup OnTheirWay)')
        /\ Cardinality((dynamic \cup OnTheirWay)') <= Cardinality(dynamic \cup OnTheirWay)
    BY <1>1, FS_Subset
  <1>3. Cardinality(dynamic \cup OnTheirWay) \in Nat /\ Cardinality((dynamic \cup OnTheirWay)') \in Nat
    BY <1>1, <1>2, FS_CardinalityType
  <1> QED
    BY <1>2, <1>3, ClientsAreMany DEF DynamicBound

\* A client that passes the check found room for its name, or the name is dynamic already.
LEMMA CheckKeepsBound ==
    ASSUME ReloadInv, ReloadInv', DynamicBound, NEW c \in Clients, CheckLimit(c)
    PROVE  DynamicBound'
  <1>1. client \in [Clients -> Client] /\ client' \in [Clients -> Client] /\ dynamic' = dynamic
    BY DEF ReloadInv, ClientsFit, CheckLimit, managerVars
  <1>2. \A d \in Clients \ {c} : client'[d] = client[d]
    BY <1>1 DEF CheckLimit
  <1>3. client'[c].name = client[c].name
    BY <1>1 DEF CheckLimit, Client
  <1>4. CASE client[c].name \in dynamic \/ client'[c].pc = "idle"
    BY <1>1, <1>2, <1>3, <1>4, FewerKeepsBound DEF OnTheirWay
  <1>5. CASE client[c].name \notin dynamic /\ client'[c].pc # "idle"
    <2>1. ~(Cardinality(dynamic) >= MaxDynamic)
      BY <1>1, <1>5 DEF CheckLimit, Client
    <2>2. IsFiniteSet(dynamic)
      BY ReloadAssumption, FS_Subset DEF ReloadInv, ManagerFits
    <2>3. IsFiniteSet(OnTheirWay') /\ Cardinality(OnTheirWay') <= Cardinality(Clients)
      <3>1. ASSUME client' \in [Clients -> Client]
            PROVE  IsFiniteSet(OnTheirWay') /\ Cardinality(OnTheirWay') <= Cardinality(Clients)
        <4> DEFINE D == {d \in Clients : client'[d].pc \in {"register", "starting", "mark"}}
                   nameOf == [d \in D |-> client'[d].name]
        <4>1. nameOf \in Surjection(D, OnTheirWay')
          BY DEF OnTheirWay, Surjection
        <4>2. IsFiniteSet(D) /\ Cardinality(D) <= Cardinality(Clients)
          BY ReloadAssumption, FS_Subset
        <4> HIDE DEF D, nameOf
        <4>3. IsFiniteSet(OnTheirWay') /\ Cardinality(OnTheirWay') <= Cardinality(D)
          BY <4>1, <4>2, FS_Surjection
        <4>4. /\ Cardinality(OnTheirWay') \in Nat /\ Cardinality(D) \in Nat /\ Cardinality(Clients) \in Nat
          BY <4>2, <4>3, ReloadAssumption, FS_CardinalityType
        <4> QED BY <4>2, <4>3, <4>4
      <3> QED BY <1>1, <3>1
    <2>4. /\ IsFiniteSet(dynamic \cup OnTheirWay')
          /\ Cardinality(dynamic \cup OnTheirWay') =
               Cardinality(dynamic) + Cardinality(OnTheirWay') - Cardinality(dynamic \cap OnTheirWay')
      BY <2>2, <2>3, FS_Union
    <2>5. /\ Cardinality(dynamic) \in Nat /\ Cardinality(OnTheirWay') \in Nat
          /\ Cardinality(dynamic \cap OnTheirWay') \in Nat
      BY <2>2, <2>3, FS_Intersection, FS_CardinalityType
    <2>6. Cardinality(dynamic \cup OnTheirWay') < MaxDynamic + Cardinality(Clients)
      BY <2>1, <2>3, <2>4, <2>5, ClientsAreMany
    <2> QED BY <1>1, <2>6 DEF DynamicBound
  <1> QED
    BY <1>4, <1>5

LEMMA StepKeepsBound == ReloadInv /\ DynamicBound /\ [ReloadNext]_reloadVars => DynamicBound'
  <1> SUFFICES ASSUME ReloadInv, DynamicBound, [ReloadNext]_reloadVars PROVE DynamicBound'
    OBVIOUS
  <1>1. ReloadInv'
    BY StepKeepsReloadInv
  <1>2. client \in [Clients -> Client] /\ client' \in [Clients -> Client]
    BY <1>1 DEF ReloadInv, ClientsFit
  <1>3. CASE UNCHANGED client /\ dynamic' \subseteq dynamic
    BY <1>1, <1>3, FewerKeepsBound DEF OnTheirWay
  <1>4. ASSUME NEW c \in Clients, ClientNext(c) PROVE DynamicBound'
    <2>1. CASE CheckLimit(c)
      BY <1>1, <2>1, CheckKeepsBound
    <2>2. CASE Call(c, "check") \/ Call(c, "ask") \/ CheckDynamic(c) \/ Deregister(c) \/ Deregistered(c)
      <3>1. \A d \in Clients \ {c} : client'[d] = client[d]
        BY <1>2, <2>2 DEF Call, CheckDynamic, Deregister, Deregistered, ClientStep
      <3>2. client'[c].pc \notin {"register", "starting", "mark"}
        BY <1>2, <2>2 DEF Call, CheckDynamic, Deregister, Deregistered, ClientStep, Client
      <3>3. dynamic' \subseteq dynamic
        BY <2>2 DEF Call, CheckDynamic, Deregister, Deregistered, managerVars, BeginRemove, EndRemove
      <3>4. OnTheirWay' \subseteq OnTheirWay
        BY <3>1, <3>2 DEF OnTheirWay
      <3> QED BY <1>1, <3>3, <3>4, FewerKeepsBound
    <2>3. CASE Register(c) \/ Registered(c) \/ Mark(c)
      <3>1. /\ \A d \in Clients \ {c} : client'[d] = client[d]
            /\ client'[c].name = client[c].name /\ client[c].pc \in {"register", "starting", "mark"}
        BY <1>2, <2>3 DEF Register, Registered, Mark, ClientStep, Client
      <3>2. dynamic' \subseteq dynamic \cup {client[c].name}
        BY <2>3 DEF Register, Registered, Mark, BeginAdd
      <3>3. client[c].name \in OnTheirWay /\ OnTheirWay' \subseteq OnTheirWay
        BY <3>1 DEF OnTheirWay
      <3> QED BY <1>1, <3>2, <3>3, FewerKeepsBound
    <2> QED BY <1>4, <2>1, <2>2, <2>3 DEF ClientNext
  <1>5. CASE Edit \/ Shutdown \/ UNCHANGED reloadVars
    BY <1>3, <1>5 DEF Edit, Shutdown, reloadVars, managerVars
  <1>6. CASE WatcherStep
    <2>1. UNCHANGED client
      BY <1>6 DEF WatcherStep, Notice, Settle, Load, ApplyNext, WatcherRemoved, WatcherReadds, WatcherAdded, Finish,
                  Outside
    <2>2. dynamic' \subseteq dynamic
      BY <1>6 DEF WatcherStep, Notice, Settle, Load, ApplyNext, WatcherRemoved, WatcherReadds, WatcherAdded, Finish,
                  managerVars, BeginAdd, EndAdd, BeginRemove, EndRemove
    <2> QED BY <1>3, <2>1, <2>2
  <1> QED
    BY <1>4, <1>5, <1>6 DEF ReloadNext

LEMMA InitBound == ReloadInit => DynamicBound
  <1> SUFFICES ASSUME ReloadInit PROVE DynamicBound
    OBVIOUS
  <1>1. dynamic \cup OnTheirWay = {}
    BY DEF ReloadInit, OnTheirWay
  <1> QED
    BY <1>1, FS_EmptySet, ClientsAreMany DEF DynamicBound

\* Whatever clients do at once, the number of dynamic backends stays below
\* max_dynamic_backends plus the number of the clients.
THEOREM OvershootIsBounded == ReloadSpec => [](Cardinality(dynamic) < MaxDynamic + Cardinality(Clients))
  <1>1. ReloadInv /\ DynamicBound => Cardinality(dynamic) < MaxDynamic + Cardinality(Clients)
    <2> SUFFICES ASSUME ReloadInv, DynamicBound PROVE Cardinality(dynamic) < MaxDynamic + Cardinality(Clients)
      OBVIOUS
    <2>1. IsFiniteSet(dynamic)
      BY ReloadAssumption, FS_Subset DEF ReloadInv, ManagerFits
    <2>2. IsFiniteSet(dynamic \cup OnTheirWay)
      BY <2>1, FewOnTheirWay, FS_Union DEF ReloadInv, ClientsFit
    <2>3. Cardinality(dynamic) <= Cardinality(dynamic \cup OnTheirWay)
      BY <2>2, FS_Subset
    <2>4. Cardinality(dynamic) \in Nat /\ Cardinality(dynamic \cup OnTheirWay) \in Nat
      BY <2>1, <2>2, FS_CardinalityType
    <2> QED BY <2>3, <2>4, ClientsAreMany DEF DynamicBound
  <1> QED
    BY <1>1, InitReloadInv, InitBound, StepKeepsReloadInv, StepKeepsBound, PTL DEF ReloadSpec

\* One client after another: never more than max_dynamic_backends, whatever is registered
\* again, deregistered or taken over by the file.
THEOREM OneClientKeepsLimit == ASSUME Cardinality(Clients) = 1 PROVE ReloadSpec => []DynamicLimit
  <1>1. ReloadInv /\ Cardinality(dynamic) < MaxDynamic + Cardinality(Clients) => DynamicLimit
    <2> SUFFICES ASSUME ReloadInv, Cardinality(dynamic) < MaxDynamic + Cardinality(Clients) PROVE DynamicLimit
      OBVIOUS
    <2>1. Cardinality(dynamic) \in Nat
      BY ReloadAssumption, FS_Subset, FS_CardinalityType DEF ReloadInv, ManagerFits
    <2> QED BY <2>1, ClientsAreMany DEF DynamicLimit
  <1> QED
    BY <1>1, InitReloadInv, StepKeepsReloadInv, OvershootIsBounded, PTL DEF ReloadSpec

-----------------------------------------------------------------------------
(***************************************************************************)
(* ToolCache.  The cache survives kills and overlapping saves, and the     *)
(* tracker's counts agree, for any number of savers, callers and calls.    *)
(***************************************************************************)

Content == [state : {"empty", "part", "whole"}, of : 0..MaxVersions]
Saver == [pc : {"idle", "open", "write", "written", "rename"}, of : 0..MaxVersions, fd : Inodes \cup {0}]

FilesFit ==
    /\ parallel \in BOOLEAN /\ cut \in BOOLEAN
    /\ registry \in 0..MaxVersions /\ path \in Inodes \cup {0} /\ tmp \in Inodes \cup {0}
    /\ content \in [Inodes -> Content] /\ saver \in [Savers -> Saver]
    /\ saves \in 0..MaxSaves

\* Every save takes one new inode at most, so that one is left for those that have yet
\* to open cache.tmp.
Used == ({path, tmp} \cup {saver[s].fd : s \in Savers}) \ {0}
Opening == {s \in Savers : saver[s].pc = "open"}
InodesLeft == Cardinality(Used) + Cardinality(Opening) <= saves

\* While no save is cut short, what is not whole is being written.
Writes(s, i) == saver[s].fd = i /\ saver[s].pc \in {"write", "written"}
Overlapping ==
    ~cut => \A i \in {path, tmp} \ {0} : content[i].state = "whole" \/ \E s \in Savers : Writes(s, i)

\* Saves that follow each other: one at a time, which writes to the inode of cache.tmp and
\* never to that of cache.json.
Alone ==
    ~parallel =>
        /\ \A s, t \in Savers : saver[s].pc # "idle" /\ saver[t].pc # "idle" => s = t
        /\ path # 0 => content[path] = [state |-> "whole", of |-> saved]
        /\ tmp # 0 => tmp # path
        /\ \A s \in Savers :
             /\ saver[s].pc \in {"write", "written", "rename"} => saver[s].fd = tmp /\ tmp # 0
             /\ saver[s].pc = "rename" => content[tmp] = [state |-> "whole", of |-> saver[s].of]

CacheInv == FilesFit /\ InodesLeft /\ Overlapping /\ Alone

\* The ring holds the last of the numbered calls.
RingFits ==
    /\ recent \in Seq(Nat) /\ records \in Nat
    /\ Len(recent) <= MaxRecent
    /\ \A k \in 1..(Len(recent) - 1) : recent[k + 1] = recent[k] + 1
    /\ recent # <<>> => recent[Len(recent)] = records

At(label) == {c \in Callers : caller[c] = label}

CountsFit ==
    /\ caller \in [Callers -> {"idle", "count", "latency"}]
    /\ usage \in Nat /\ latency \in Nat
    /\ latency + Cardinality(At("latency")) <= usage
    /\ usage + Cardinality(At("count")) <= records

TrackerInv == RingFits /\ CountsFit

-----------------------------------------------------------------------------

LEMMA InodesFinite == ASSUME FilesFit PROVE Used \subseteq Inodes /\ IsFiniteSet(Used) /\ Cardinality(Used) \in Nat
  <1>1. Used \subseteq Inodes
    BY DEF FilesFit, Used, Saver
  <1>2. IsFiniteSet(Inodes)
    BY CacheAssumption, FS_Interval DEF Inodes
  <1> QED
    BY <1>1, <1>2, FS_Subset, FS_CardinalityType

LEMMA OpeningFinite == IsFiniteSet(Opening) /\ Cardinality(Opening) \in Nat
  BY CacheAssumption, FS_Subset, FS_CardinalityType DEF Opening

\* A free inode for a save that is about to open cache.tmp.
LEMMA FreshInode ==
    ASSUME FilesFit, InodesLeft, NEW s \in Savers, saver[s].pc = "open"
    PROVE  \E i \in Inodes : i # path /\ i # tmp /\ \A t \in Savers : saver[t].fd # i
  <1>1. Cardinality(Opening) # 0
    BY OpeningFinite, FS_EmptySet DEF Opening
  <1>2. Cardinality(Used) < MaxSaves
    BY <1>1, InodesFinite, OpeningFinite, CacheAssumption DEF InodesLeft, FilesFit
  <1>3. Cardinality(Inodes) = MaxSaves
    BY CacheAssumption, FS_Interval DEF Inodes
  <1>4. Used # Inodes
    BY <1>2, <1>3, CacheAssumption
  <1>5. PICK i \in Inodes : i \notin Used
    BY <1>4, InodesFinite
  <1>6. i # 0
    BY DEF Inodes
  <1> QED
    BY <1>5, <1>6 DEF Used

\* A step that uses no further inode and opens nothing keeps the count.
LEMMA NoFurtherInode ==
    ASSUME FilesFit, FilesFit', InodesLeft, Used' \subseteq Used, Opening' \subseteq Opening, saves' = saves
    PROVE  InodesLeft'
  <1>1. /\ Cardinality(Used') <= Cardinality(Used) /\ Cardinality(Used') \in Nat
        /\ Cardinality(Used) \in Nat
    BY InodesFinite, FS_Subset, FS_CardinalityType
  <1>2. /\ Cardinality(Opening') <= Cardinality(Opening) /\ Cardinality(Opening') \in Nat
        /\ Cardinality(Opening) \in Nat
    BY OpeningFinite, FS_Subset, FS_CardinalityType
  <1> QED
    BY <1>1, <1>2 DEF InodesLeft, FilesFit

LEMMA NoSaveFits == NoSave \in Saver /\ NoSave.pc = "idle" /\ NoSave.fd = 0
  BY CacheAssumption DEF NoSave, Saver

LEMMA AbsentFits == Absent \in Content
  BY CacheAssumption DEF Absent, Content

LEMMA InitCacheInv == CacheInit => CacheInv
  <1> SUFFICES ASSUME CacheInit PROVE CacheInv
    OBVIOUS
  <1>1. FilesFit
    <2>1. 0 \in 0..MaxVersions /\ 0 \in 0..MaxSaves
      BY CacheAssumption
    <2>2. content \in [Inodes -> Content] /\ saver \in [Savers -> Saver]
      BY NoSaveFits, AbsentFits DEF CacheInit
    <2> QED BY <2>1, <2>2 DEF CacheInit, FilesFit
  <1>2. InodesLeft
    <2>1. Used = {} /\ Opening = {}
      BY NoSaveFits DEF CacheInit, Used, Opening
    <2> QED BY <2>1, FS_EmptySet DEF InodesLeft, CacheInit
  <1>3. Overlapping /\ Alone
    BY NoSaveFits DEF CacheInit, Overlapping, Alone
  <1> QED
    BY <1>1, <1>2, <1>3 DEF CacheInv

\* The registry and the tracker are none of the files' business.
LEMMA AsideKeepsInv == CacheInv /\ registry' \in 0..MaxVersions /\
        UNCHANGED <<parallel, path, tmp, content, saver, saves, saved, cut>> => CacheInv'
  BY DEF CacheInv, FilesFit, InodesLeft, Used, Opening, Overlapping, Writes, Alone

LEMMA SnapshotKeepsInv == ASSUME CacheInv, NEW s \in Savers, Snapshot(s) PROVE CacheInv'
  <1> DEFINE r == [pc |-> "open", of |-> registry, fd |-> 0]
  <1>1. /\ FilesFit /\ saver' = [saver EXCEPT ![s] = r] /\ saver[s].pc = "idle"
        /\ UNCHANGED <<parallel, registry, path, tmp, content, saved, cut>>
        /\ saves < MaxSaves /\ saves' = saves + 1
        /\ parallel \/ \A t \in Savers : saver[t].pc = "idle"
    BY DEF CacheInv, Snapshot
  <1>2. r \in Saver /\ r.pc = "open" /\ r.fd = 0
    BY <1>1 DEF Saver, FilesFit
  <1> HIDE DEF r
  <1>3. saver \in [Savers -> Saver] /\ saver'[s] = r /\ \A t \in Savers \ {s} : saver'[t] = saver[t]
    BY <1>1 DEF FilesFit
  <1>4. FilesFit'
    BY <1>1, <1>2, CacheAssumption DEF FilesFit
  <1>5. InodesLeft'
    <2>1. Used' \subseteq Used
      BY <1>1, <1>2, <1>3 DEF Used
    <2>2. Opening' = Opening \cup {s} /\ s \notin Opening
      BY <1>1, <1>2, <1>3 DEF Opening
    <2>3. Cardinality(Opening') = Cardinality(Opening) + 1
      BY <2>2, OpeningFinite, FS_AddElement
    <2>4. /\ Cardinality(Used') <= Cardinality(Used) /\ Cardinality(Used') \in Nat
          /\ Cardinality(Used) \in Nat
      BY <1>1, <2>1, InodesFinite, FS_Subset, FS_CardinalityType
    <2> QED BY <1>1, <2>3, <2>4, OpeningFinite DEF CacheInv, InodesLeft, FilesFit
  <1>6. Overlapping'
    <2>1. \A i, t : t \in Savers /\ Writes(t, i) => Writes(t, i)'
      BY <1>1, <1>3 DEF Writes
    <2> QED BY <1>1, <2>1 DEF CacheInv, Overlapping
  <1>7. Alone'
    <2>1. ~parallel => \A t, u \in Savers : saver'[t].pc # "idle" /\ saver'[u].pc # "idle" => t = u
      BY <1>1, <1>3
    <2> QED BY <1>1, <1>2, <1>3, <2>1 DEF CacheInv, Alone
  <1> QED
    BY <1>4, <1>5, <1>6, <1>7 DEF CacheInv

\* cache.tmp is emptied for a save that now writes to it, be it another's.
LEMMA OpenKeepsInv == ASSUME CacheInv, NEW s \in Savers, OpenTmp(s) PROVE CacheInv'
  <1>1. /\ FilesFit /\ InodesLeft /\ saver[s].pc = "open"
        /\ UNCHANGED <<parallel, registry, path, saves, saved, cut>>
    BY DEF CacheInv, OpenTmp
  <1>2. PICK i \in Inodes :
          /\ tmp # 0 => i = tmp
          /\ tmp = 0 => i # path
          /\ tmp' = i /\ content' = [content EXCEPT ![i] = Absent]
          /\ saver' = [saver EXCEPT ![s].pc = "write", ![s].fd = i]
    <2> DEFINE fresh == CHOOSE j \in Inodes : j # path /\ j # tmp /\ \A t \in Savers : saver[t].fd # j
    <2>1. fresh \in Inodes /\ fresh # path
      BY <1>1, FreshInode
    <2> DEFINE j == IF tmp # 0 THEN tmp ELSE fresh
    <2>2. /\ tmp' = j /\ content' = [content EXCEPT ![j] = Absent]
          /\ saver' = [saver EXCEPT ![s].pc = "write", ![s].fd = j]
      BY DEF OpenTmp
    <2> HIDE DEF fresh
    <2>3. tmp \in Inodes \cup {0}
      BY <1>1 DEF FilesFit
    <2>4. j \in Inodes /\ (tmp # 0 => j = tmp) /\ (tmp = 0 => j # path)
      BY <2>1, <2>3
    <2> QED BY <2>2, <2>4
  <1>3. PICK r : r = [saver[s] EXCEPT !.pc = "write", !.fd = i] /\ saver' = [saver EXCEPT ![s] = r]
    BY <1>1, <1>2 DEF FilesFit
  <1>4. r \in Saver /\ r.pc = "write" /\ r.fd = i
    BY <1>1, <1>3 DEF FilesFit, Saver
  <1>5. /\ saver \in [Savers -> Saver] /\ saver'[s] = r /\ \A t \in Savers \ {s} : saver'[t] = saver[t]
        /\ content'[i] = Absent /\ \A j \in Inodes \ {i} : content'[j] = content[j]
    BY <1>1, <1>2, <1>3 DEF FilesFit
  <1>6. FilesFit'
    BY <1>1, <1>2, <1>3, <1>4, AbsentFits DEF FilesFit
  <1>7. i # 0
    BY DEF Inodes
  <1>8. InodesLeft'
    <2>1. Used' \subseteq Used \cup {i}
      BY <1>1, <1>2, <1>4, <1>5 DEF Used
    <2>2. Opening' = Opening \ {s} /\ s \in Opening
      BY <1>1, <1>4, <1>5 DEF Opening
    <2>3. Cardinality(Opening') = Cardinality(Opening) - 1
      BY <2>2, OpeningFinite, FS_RemoveElement
    <2>4. IsFiniteSet(Used \cup {i}) /\ Cardinality(Used \cup {i}) <= Cardinality(Used) + 1
      <3>1. /\ IsFiniteSet(Used \cup {i})
            /\ Cardinality(Used \cup {i}) = IF i \in Used THEN Cardinality(Used) ELSE Cardinality(Used) + 1
        BY <1>1, InodesFinite, FS_AddElement
      <3>2. Cardinality(Used) \in Nat
        BY <1>1, InodesFinite
      <3> QED BY <3>1, <3>2
    <2>5. /\ Cardinality(Used') <= Cardinality(Used \cup {i}) /\ Cardinality(Used') \in Nat
          /\ Cardinality(Used) \in Nat /\ Cardinality(Used \cup {i}) \in Nat
      BY <1>1, <2>1, <2>4, InodesFinite, FS_Subset, FS_CardinalityType
    <2> QED BY <1>1, <2>3, <2>4, <2>5, OpeningFinite DEF InodesLeft, FilesFit
  <1>9. Overlapping'
    <2> SUFFICES ASSUME ~cut, NEW j \in {path, i} \ {0}
                 PROVE  content'[j].state = "whole" \/ \E t \in Savers : Writes(t, j)'
      BY <1>1, <1>2 DEF Overlapping
    <2>1. CASE j = i
      BY <1>4, <1>5, <2>1 DEF Writes
    <2>2. CASE j # i
      <3>1. j = path /\ j \in Inodes
        BY <1>1, <2>2 DEF FilesFit
      <3>2. content[j].state = "whole" \/ \E t \in Savers : Writes(t, j)
        BY <3>1 DEF CacheInv, Overlapping
      <3>3. \A t \in Savers : Writes(t, j) => t # s
        BY <1>1 DEF Writes
      <3> QED BY <1>5, <2>2, <3>1, <3>2, <3>3 DEF Writes
    <2> QED BY <2>1, <2>2
  <1>10. Alone'
    <2> SUFFICES ASSUME ~parallel PROVE Alone'
      BY <1>1 DEF Alone
    <2>1. \A t \in Savers \ {s} : saver[t].pc = "idle" /\ saver'[t].pc = "idle"
      BY <1>1, <1>5 DEF CacheInv, Alone
    <2>2. i # path
      BY <1>2 DEF CacheInv, Alone
    <2>3. path # 0 => content'[path] = content[path]
      BY <1>1, <1>5, <2>2 DEF FilesFit
    <2> QED BY <1>1, <1>2, <1>4, <1>5, <1>7, <2>1, <2>2, <2>3 DEF CacheInv, Alone
  <1> QED
    BY <1>6, <1>8, <1>9, <1>10 DEF CacheInv

\* Both halves of a write go to the inode that was opened.
LEMMA WriteKeepsInv == ASSUME CacheInv, NEW s \in Savers, WritePart(s) \/ WriteRest(s) PROVE CacheInv'
  <1> DEFINE i == saver[s].fd
             state == IF saver[s].pc = "write" THEN "part" ELSE "whole"
             to == IF saver[s].pc = "write" THEN "written" ELSE "rename"
  <1>1. /\ FilesFit /\ saver[s].pc \in {"write", "written"} /\ saver \in [Savers -> Saver]
        /\ UNCHANGED <<parallel, registry, path, tmp, saves, saved, cut>>
        /\ content' = [content EXCEPT ![i] = [state |-> state, of |-> saver[s].of]]
    BY DEF CacheInv, FilesFit, WritePart, WriteRest
  <1>2. PICK r : r = [saver[s] EXCEPT !.pc = to] /\ saver' = [saver EXCEPT ![s] = r]
    BY DEF WritePart, WriteRest
  <1>3. r \in Saver /\ r.pc = to /\ r.fd = i /\ r.of = saver[s].of
    BY <1>1, <1>2 DEF Saver
  <1>4. saver'[s] = r /\ \A t \in Savers \ {s} : saver'[t] = saver[t]
    BY <1>1, <1>2
  <1>5. [state |-> state, of |-> saver[s].of] \in Content
    BY <1>1 DEF Saver, Content
  <1>6. FilesFit'
    BY <1>1, <1>2, <1>3, <1>5 DEF FilesFit
  <1>7. InodesLeft'
    <2>1. Used' \subseteq Used /\ Opening' \subseteq Opening
      BY <1>1, <1>3, <1>4 DEF Used, Opening
    <2> QED BY <1>1, <1>6, <2>1, NoFurtherInode DEF CacheInv
  <1>8. \A j \in Inodes \ {i} : content'[j] = content[j]
    BY <1>1 DEF FilesFit
  <1>9. i \in Inodes => content'[i] = [state |-> state, of |-> saver[s].of]
    BY <1>1 DEF FilesFit
  <1>10. Overlapping'
    <2> SUFFICES ASSUME ~cut, NEW j \in {path, tmp} \ {0}
                 PROVE  content'[j].state = "whole" \/ \E t \in Savers : Writes(t, j)'
      BY <1>1 DEF Overlapping
    <2>1. j \in Inodes /\ (content[j].state = "whole" \/ \E t \in Savers : Writes(t, j))
      BY <1>1 DEF CacheInv, Overlapping, FilesFit
    <2>2. CASE j = i
      <3>1. CASE saver[s].pc = "write"
        BY <1>3, <1>4, <2>2, <3>1 DEF Writes
      <3>2. CASE saver[s].pc = "written"
        BY <1>9, <2>1, <2>2, <3>2
      <3> QED BY <1>1, <3>1, <3>2
    <2>3. CASE j # i
      <3>1. \A t \in Savers : Writes(t, j) => t # s
        BY <2>3 DEF Writes
      <3> QED BY <1>4, <1>8, <2>1, <2>3, <3>1 DEF Writes
    <2> QED BY <2>2, <2>3
  <1>11. Alone'
    <2> SUFFICES ASSUME ~parallel PROVE Alone'
      BY <1>1 DEF Alone
    <2>1. \A t \in Savers \ {s} : saver[t].pc = "idle" /\ saver'[t].pc = "idle"
      BY <1>1, <1>4 DEF CacheInv, Alone
    <2>2. i = tmp /\ tmp # 0 /\ tmp # path /\ tmp \in Inodes
      BY <1>1 DEF CacheInv, Alone, FilesFit
    <2>3. path # 0 => content'[path] = content[path]
      BY <1>1, <1>8, <2>2 DEF FilesFit
    <2>4. r.pc = "rename" => content'[tmp] = [state |-> "whole", of |-> r.of]
      BY <1>1, <1>3, <1>9, <2>2
    <2>5. r.fd = tmp /\ r.pc # "idle"
      BY <1>3, <2>2
    <2> HIDE DEF i, state, to
    <2>6. /\ \A t, u \in Savers : saver'[t].pc # "idle" /\ saver'[u].pc # "idle" => t = u
          /\ \A t \in Savers :
               /\ saver'[t].pc \in {"write", "written", "rename"} => saver'[t].fd = tmp
               /\ saver'[t].pc = "rename" => content'[tmp] = [state |-> "whole", of |-> saver'[t].of]
      BY <1>4, <2>1, <2>4, <2>5
    <2>7. path # 0 => content[path] = [state |-> "whole", of |-> saved]
      BY DEF CacheInv, Alone
    <2> QED BY <1>1, <2>2, <2>3, <2>6, <2>7 DEF Alone
  <1> QED
    BY <1>6, <1>7, <1>10, <1>11 DEF CacheInv

\* The save is over, with or without a rename.
LEMMA EndKeepsInv == ASSUME CacheInv, NEW s \in Savers, Rename(s) \/ SaveFails(s) PROVE CacheInv'
  <1>1. /\ FilesFit /\ saver \in [Savers -> Saver] /\ saver[s].pc # "idle"
        /\ saver' = [saver EXCEPT ![s] = NoSave]
        /\ UNCHANGED <<parallel, registry, content, saves>>
    BY DEF CacheInv, FilesFit, Rename, SaveFails
  <1>2. saver'[s] = NoSave /\ \A t \in Savers \ {s} : saver'[t] = saver[t]
    BY <1>1
  <1>3. /\ path' \in {path, tmp} /\ tmp' \in {tmp, 0} /\ cut' \in BOOLEAN /\ (cut => cut')
        /\ path' = tmp => tmp' = 0 \/ path' = path
    BY <1>1 DEF Rename, SaveFails, FilesFit
  <1>4. FilesFit'
    BY <1>1, <1>3, NoSaveFits DEF FilesFit
  <1>5. InodesLeft'
    <2>1. Used' \subseteq Used /\ Opening' \subseteq Opening
      BY <1>1, <1>2, <1>3, NoSaveFits DEF Used, Opening
    <2> QED BY <1>1, <1>4, <2>1, NoFurtherInode DEF CacheInv
  <1>6. Overlapping'
    <2>1. CASE SaveFails(s)
      BY <2>1 DEF SaveFails, Overlapping
    <2>2. CASE Rename(s)
      <3>1. \A t \in Savers : \A j : Writes(t, j) => Writes(t, j)'
        BY <1>2, <2>2 DEF Writes, Rename
      <3>2. (path' \in {path, tmp}) /\ (tmp' \in {tmp, 0}) /\ cut' = cut /\ content' = content
        BY <1>1, <1>3, <2>2 DEF Rename
      <3> QED BY <3>1, <3>2 DEF CacheInv, Overlapping
    <2> QED BY <2>1, <2>2
  <1>7. Alone'
    <2> SUFFICES ASSUME ~parallel PROVE Alone'
      BY <1>1 DEF Alone
    <2>1. \A t \in Savers : saver'[t].pc = "idle"
      BY <1>1, <1>2, NoSaveFits DEF CacheInv, Alone
    <2>2. /\ path' # 0 => content[path'] = [state |-> "whole", of |-> saved']
          /\ tmp' # 0 => tmp' # path'
      BY DEF CacheInv, Alone, Rename, SaveFails
    <2> QED BY <1>1, <2>1, <2>2 DEF Alone
  <1> QED
    BY <1>4, <1>5, <1>6, <1>7 DEF CacheInv

\* A kill leaves the files as they are, and the saves are no more.
LEMMA RestartKeepsInv == ASSUME CacheInv, Restart PROVE CacheInv'
  <1>1. /\ FilesFit /\ saver' = [s \in Savers |-> NoSave]
        /\ UNCHANGED <<parallel, path, tmp, content, saves, saved>>
        /\ cut' = (cut \/ \E s \in Savers : saver[s].pc # "idle")
    BY DEF CacheInv, Restart
  <1>2. \A s \in Savers : saver'[s] = NoSave
    BY <1>1
  <1>3. registry' \in 0..MaxVersions
    BY CacheAssumption DEF Restart, CacheInv, FilesFit, Content
  <1>4. FilesFit'
    <2>1. cut' \in BOOLEAN /\ saver' \in [Savers -> Saver]
      BY <1>1, NoSaveFits
    <2> QED BY <1>1, <1>3, <2>1 DEF FilesFit
  <1>5. InodesLeft'
    <2>1. Used' \subseteq Used /\ Opening' \subseteq Opening
      BY <1>1, <1>2, NoSaveFits DEF Used, Opening
    <2> QED BY <1>1, <1>4, <2>1, NoFurtherInode DEF CacheInv
  <1>6. Overlapping'
    <2>1. ~cut' => ~cut /\ \A t \in Savers : \A j : ~Writes(t, j)
      BY <1>1 DEF Writes
    <2> QED BY <1>1, <2>1 DEF CacheInv, Overlapping
  <1>7. Alone'
    BY <1>1, <1>2, NoSaveFits DEF CacheInv, Alone
  <1> QED
    BY <1>4, <1>5, <1>6, <1>7 DEF CacheInv

LEMMA StepKeepsCacheInv == CacheInv /\ [CacheNext]_toolCacheVars => CacheInv'
  <1> SUFFICES ASSUME CacheInv, [CacheNext]_toolCacheVars PROVE CacheInv'
    OBVIOUS
  <1>1. registry \in 0..MaxVersions
    BY DEF CacheInv, FilesFit
  <1>2. CASE UNCHANGED cacheVars
    BY <1>1, <1>2, AsideKeepsInv DEF cacheVars
  <1>3. CASE RegisterTools
    BY <1>1, <1>3, CacheAssumption, AsideKeepsInv DEF RegisterTools
  <1>4. ASSUME NEW s \in Savers, SaveNext(s) PROVE CacheInv'
    BY <1>4, SnapshotKeepsInv, OpenKeepsInv, WriteKeepsInv, EndKeepsInv DEF SaveNext
  <1>5. ASSUME NEW c \in Callers, Push(c) \/ CountUse(c) \/ RecordLatency(c) PROVE UNCHANGED cacheVars
    BY <1>5 DEF Push, CountUse, RecordLatency
  <1> QED
    BY <1>2, <1>3, <1>4, <1>5, RestartKeepsInv DEF CacheNext, FileNext, TrackerNext, toolCacheVars

\* Whenever the gateway is killed: saves that follow each other leave a cache that parses
\* and holds the last snapshot that was renamed; saves that overlap harm it only while one
\* of them writes into it, unless a save is cut short.
THEOREM CacheIsKept == CacheSpec => []CacheKept
  <1>1. CacheInv => CacheKept
    <2> SUFFICES ASSUME CacheInv PROVE CacheKept
      OBVIOUS
    <2>1. CacheTypeOK
      BY DEF CacheInv, FilesFit, CacheTypeOK, Content, Saver
    <2>2. ~parallel => CacheWhole /\ (path # 0 => content[path].of = saved)
      BY DEF CacheInv, Alone, CacheWhole
    <2>3. CacheWhole \/ cut \/ \E s \in Savers : saver[s].fd = path
      BY DEF CacheInv, Overlapping, Writes, CacheWhole
    <2> QED BY <2>1, <2>2, <2>3 DEF CacheKept
  <1> QED
    BY <1>1, InitCacheInv, StepKeepsCacheInv, PTL DEF CacheSpec

-----------------------------------------------------------------------------
(* The tracker.                                                            *)

LEMMA InitTrackerInv == CacheInit => TrackerInv
  <1> SUFFICES ASSUME CacheInit PROVE TrackerInv
    OBVIOUS
  <1>1. RingFits
    BY CacheAssumption DEF CacheInit, RingFits
  <1>2. At("count") = {} /\ At("latency") = {}
    BY DEF CacheInit, At
  <1>3. Cardinality(At("count")) = 0 /\ Cardinality(At("latency")) = 0
    BY <1>2, FS_EmptySet
  <1>4. /\ caller \in [Callers -> {"idle", "count", "latency"}]
        /\ usage = 0 /\ latency = 0 /\ records = 0
    BY DEF CacheInit
  <1>5. CountsFit
    BY <1>3, <1>4 DEF CountsFit
  <1> QED
    BY <1>1, <1>5 DEF TrackerInv

LEMMA AtFinite == \A label : IsFiniteSet(At(label)) /\ Cardinality(At(label)) \in Nat
  BY CacheAssumption, FS_Subset, FS_CardinalityType DEF At

\* A caller that changes its label is counted at the one and no longer at the other.
LEMMA CallerMoves ==
    ASSUME CountsFit, NEW c \in Callers, NEW from, from = caller[c],
           NEW to \in {"idle", "count", "latency"}, to # from,
           caller' = [caller EXCEPT ![c] = to]
    PROVE  /\ caller' \in [Callers -> {"idle", "count", "latency"}]
           /\ Cardinality(At(to)') = Cardinality(At(to)) + 1
           /\ Cardinality(At(from)') = Cardinality(At(from)) - 1
           /\ \A label : label \notin {to, from} => At(label)' = At(label)
  <1>1. caller \in [Callers -> {"idle", "count", "latency"}]
    BY DEF CountsFit
  <1>2. At(to)' = At(to) \cup {c} /\ c \notin At(to)
    BY <1>1 DEF At
  <1>3. At(from)' = At(from) \ {c} /\ c \in At(from)
    BY <1>1 DEF At
  <1>4. \A label : label \notin {to, from} => At(label)' = At(label)
    BY <1>1 DEF At
  <1>5. Cardinality(At(to)') = Cardinality(At(to)) + 1
    BY <1>2, AtFinite, FS_AddElement
  <1>6. Cardinality(At(from)') = Cardinality(At(from)) - 1
    BY <1>3, AtFinite, FS_RemoveElement
  <1> QED
    BY <1>1, <1>4, <1>5, <1>6

LEMMA Appending ==
    ASSUME NEW q \in Seq(Nat), NEW r \in Nat
    PROVE  /\ Append(q, r) \in Seq(Nat) /\ Len(Append(q, r)) = Len(q) + 1
           /\ Append(q, r)[Len(q) + 1] = r /\ \A k \in 1..Len(q) : Append(q, r)[k] = q[k]
  OBVIOUS

\* The oldest call makes room for the latest.
LEMMA RingTakes ==
    ASSUME RingFits, records' = records + 1,
           recent' = Append(IF Len(recent) >= MaxRecent THEN Tail(recent) ELSE recent, records')
    PROVE  RingFits'
  <1> DEFINE kept == IF Len(recent) >= MaxRecent THEN Tail(recent) ELSE recent
  <1>1. /\ recent \in Seq(Nat) /\ records \in Nat /\ Len(recent) \in Nat /\ Len(recent) <= MaxRecent
        /\ \A k \in 1..(Len(recent) - 1) : recent[k + 1] = recent[k] + 1
        /\ recent # <<>> => recent[Len(recent)] = records
    BY DEF RingFits
  <1>2. /\ kept \in Seq(Nat) /\ Len(kept) < MaxRecent
        /\ \A k \in 1..(Len(kept) - 1) : kept[k + 1] = kept[k] + 1
        /\ Len(kept) > 0 => kept[Len(kept)] = records
    <2>1. CASE Len(recent) >= MaxRecent
      <3>1. recent # <<>> /\ kept = Tail(recent)
        BY <1>1, <2>1, CacheAssumption
      <3>2. /\ kept \in Seq(Nat) /\ Len(kept) = Len(recent) - 1
            /\ \A k \in 1..Len(kept) : kept[k] = recent[k + 1]
        BY <1>1, <3>1
      <3> HIDE DEF kept
      <3>3. Len(kept) < MaxRecent
        BY <1>1, <3>2, CacheAssumption
      <3>4. ASSUME NEW k \in 1..(Len(kept) - 1) PROVE kept[k + 1] = kept[k] + 1
        <4>1. k + 1 \in 1..(Len(recent) - 1) /\ k + 1 \in 1..Len(kept) /\ k \in 1..Len(kept)
          BY <1>1, <3>2
        <4>2. kept[k + 1] = recent[k + 1 + 1] /\ kept[k] = recent[k + 1]
          BY <3>2, <4>1
        <4> QED BY <1>1, <4>1, <4>2
      <3>5. Len(kept) > 0 => kept[Len(kept)] = records
        BY <1>1, <3>1, <3>2
      <3> QED BY <3>2, <3>3, <3>4, <3>5
    <2>2. CASE ~(Len(recent) >= MaxRecent)
      BY <1>1, <2>2, CacheAssumption
    <2> QED BY <2>1, <2>2
  <1>3. recent' = Append(kept, records + 1)
    OBVIOUS
  <1> HIDE DEF kept
  <1>4. /\ recent' \in Seq(Nat) /\ Len(recent') = Len(kept) + 1
        /\ recent'[Len(kept) + 1] = records + 1
        /\ \A k \in 1..Len(kept) : recent'[k] = kept[k]
    <2>1. kept \in Seq(Nat) /\ records + 1 \in Nat
      BY <1>1, <1>2
    <2> DEFINE longer == Append(kept, records + 1)
    <2>2. /\ longer \in Seq(Nat) /\ Len(longer) = Len(kept) + 1
          /\ longer[Len(kept) + 1] = records + 1 /\ \A k \in 1..Len(kept) : longer[k] = kept[k]
      BY <2>1, Appending
    <2>3. recent' = longer
      BY <1>3
    <2> HIDE DEF longer
    <2> QED BY <2>2, <2>3
  <1>5. Len(recent') <= MaxRecent
    BY <1>2, <1>4, CacheAssumption
  <1>6. ASSUME NEW k \in 1..(Len(recent') - 1) PROVE recent'[k + 1] = recent'[k] + 1
    <2>1. k \in 1..Len(kept) /\ Len(kept) \in Nat
      BY <1>2, <1>4
    <2>2. CASE k = Len(kept)
      BY <1>1, <1>2, <1>4, <2>1, <2>2
    <2>3. CASE k # Len(kept)
      <3>1. k \in 1..(Len(kept) - 1) /\ k + 1 \in 1..Len(kept)
        BY <2>1, <2>3
      <3> QED BY <1>2, <1>4, <2>1, <3>1
    <2> QED BY <2>2, <2>3
  <1>7. recent'[Len(recent')] = records'
    BY <1>4
  <1> QED
    BY <1>1, <1>4, <1>5, <1>6, <1>7 DEF RingFits

LEMMA StepKeepsTrackerInv == TrackerInv /\ [CacheNext]_toolCacheVars => TrackerInv'
  <1> SUFFICES ASSUME TrackerInv, [CacheNext]_toolCacheVars PROVE TrackerInv'
    OBVIOUS
  <1>1. RingFits /\ CountsFit
    BY DEF TrackerInv
  <1>2. CASE UNCHANGED trackerVars
    BY <1>1, <1>2 DEF trackerVars, TrackerInv, RingFits, CountsFit, At
  <1>3. CASE Restart
    <2>1. RingFits'
      BY <1>1, <1>3, CacheAssumption DEF Restart, RingFits
    <2>2. caller' = [c \in Callers |-> "idle"] /\ usage' = 0 /\ latency' = 0 /\ records' = records
      BY <1>3 DEF Restart
    <2>3. At("count")' = {} /\ At("latency")' = {}
      BY <2>2 DEF At
    <2>4. Cardinality(At("count")') = 0 /\ Cardinality(At("latency")') = 0 /\ records \in Nat
      BY <1>1, <2>3, FS_EmptySet DEF RingFits
    <2>5. CountsFit'
      BY <2>2, <2>4 DEF CountsFit
    <2> QED BY <2>1, <2>5 DEF TrackerInv
  <1>4. ASSUME NEW c \in Callers, Push(c) PROVE TrackerInv'
    <2>1. RingFits'
      BY <1>1, <1>4, RingTakes DEF Push
    <2>2. caller[c] = "idle" /\ caller' = [caller EXCEPT ![c] = "count"] /\ UNCHANGED <<usage, latency>>
          /\ records' = records + 1 /\ records \in Nat
      BY <1>1, <1>4 DEF Push, RingFits
    <2>3. /\ caller' \in [Callers -> {"idle", "count", "latency"}]
          /\ Cardinality(At("count")') = Cardinality(At("count")) + 1 /\ At("latency")' = At("latency")
      BY <1>1, <2>2, CallerMoves
    <2>4. CountsFit'
      BY <1>1, <2>2, <2>3, AtFinite DEF CountsFit
    <2> QED BY <2>1, <2>4 DEF TrackerInv
  <1>5. ASSUME NEW c \in Callers, CountUse(c) PROVE TrackerInv'
    <2>1. /\ caller[c] = "count" /\ caller' = [caller EXCEPT ![c] = "latency"]
          /\ UNCHANGED <<recent, records, latency>> /\ usage' = usage + 1 /\ records \in Nat
      BY <1>1, <1>5 DEF CountUse, RingFits
    <2>2. /\ caller' \in [Callers -> {"idle", "count", "latency"}]
          /\ Cardinality(At("count")') = Cardinality(At("count")) - 1
          /\ Cardinality(At("latency")') = Cardinality(At("latency")) + 1
      BY <1>1, <2>1, CallerMoves
    <2>3. CountsFit'
      BY <1>1, <2>1, <2>2, AtFinite DEF CountsFit
    <2> QED BY <1>1, <2>1, <2>3 DEF TrackerInv, RingFits
  <1>6. ASSUME NEW c \in Callers, RecordLatency(c) PROVE TrackerInv'
    <2>1. /\ caller[c] = "latency" /\ caller' = [caller EXCEPT ![c] = "idle"]
          /\ UNCHANGED <<recent, records, usage>> /\ latency' \in {latency, latency + 1} /\ records \in Nat
      BY <1>1, <1>6 DEF RecordLatency, RingFits
    <2>2. /\ caller' \in [Callers -> {"idle", "count", "latency"}]
          /\ Cardinality(At("latency")') = Cardinality(At("latency")) - 1 /\ At("count")' = At("count")
      BY <1>1, <2>1, CallerMoves
    <2>3. CountsFit'
      BY <1>1, <2>1, <2>2, AtFinite DEF CountsFit
    <2> QED BY <1>1, <2>1, <2>3 DEF TrackerInv, RingFits
  <1>7. ASSUME NEW s \in Savers, SaveNext(s) PROVE UNCHANGED trackerVars
    BY <1>7 DEF SaveNext, Snapshot, OpenTmp, WritePart, WriteRest, Rename, SaveFails
  <1> QED
    BY <1>2, <1>3, <1>4, <1>5, <1>6, <1>7 DEF CacheNext, FileNext, TrackerNext, RegisterTools, toolCacheVars

\* recent_calls() starts with the latest call, whatever its limit.
LEMMA LatestFirst ==
    ASSUME recent \in Seq(Nat), NEW limit \in Nat, RecentCalls(limit) # <<>>
    PROVE  Head(RecentCalls(limit)) = Last(recent)
  <1> DEFINE n == Min({limit, Len(recent)})
             back == Reverse(recent)
  <1>1. Len(recent) \in Nat /\ \A k \in 1..Len(recent) : recent[k] \in Nat
    OBVIOUS
  <1>2. n \in Nat /\ n <= Len(recent)
    <2>1. \E x \in {limit, Len(recent)} : \A y \in {limit, Len(recent)} : x =< y
      BY <1>1
    <2>2. n \in {limit, Len(recent)} /\ \A y \in {limit, Len(recent)} : n =< y
      BY <2>1 DEF Min
    <2> QED BY <1>1, <2>2
  <1>3. back \in Seq(Nat) /\ Len(back) = Len(recent)
    <2>1. back = [i \in 1..Len(recent) |-> recent[(Len(recent) - i) + 1]]
      BY DEF Reverse
    <2>2. \A i \in 1..Len(recent) : recent[(Len(recent) - i) + 1] \in Nat
      BY <1>1
    <2> QED BY <1>1, <2>1, <2>2
  <1>4. Len(recent) > 0 => back[1] = Last(recent)
    BY <1>1 DEF Reverse, Last
  <1>5. RecentCalls(limit) = SubSeq(back, 1, n)
    BY DEF RecentCalls
  <1> HIDE DEF n, back
  <1>6. n > 0
    BY <1>2, <1>3, <1>5
  <1>7. Head(SubSeq(back, 1, n)) = back[1]
    BY <1>2, <1>3, <1>6
  <1> QED
    BY <1>1, <1>2, <1>4, <1>5, <1>6, <1>7

\* Whatever calls overlap: the ring holds the last calls in their order and no more than
\* its capacity, recent_calls() gives the most recent first, and the counts differ from
\* the histograms by the calls on their way and those out of range.
THEOREM CountsAgree == CacheSpec => []TrackerAgrees
  <1>1. TrackerInv => TrackerAgrees
    <2> SUFFICES ASSUME TrackerInv PROVE TrackerAgrees
      OBVIOUS
    <2>1. /\ recent \in Seq(Nat) /\ Len(recent) <= MaxRecent
          /\ \A k \in 1..(Len(recent) - 1) : recent[k + 1] = recent[k] + 1
      BY DEF TrackerInv, RingFits
    <2>2. \A limit \in 0..MaxRecent : RecentCalls(limit) # <<>> => Head(RecentCalls(limit)) = Last(recent)
      BY <2>1, LatestFirst, CacheAssumption
    <2>3. /\ latency + Cardinality({c \in Callers : caller[c] = "latency"}) <= usage
          /\ usage + Cardinality({c \in Callers : caller[c] = "count"}) <= records
      BY DEF TrackerInv, CountsFit, At
    <2> QED BY <2>1, <2>2, <2>3 DEF TrackerAgrees
  <1> QED
    BY <1>1, InitTrackerInv, StepKeepsTrackerInv, PTL DEF CacheSpec

-----------------------------------------------------------------------------
(***************************************************************************)
(* OAuth.  Tokens belong to the backend whose user granted them and, when  *)
(* flows follow each other, are kept: for any backends and number of flows. *)
(***************************************************************************)

Token == [of : Sites, for : Sites, key : Sites]
Labels == {"idle", "look", "refresh", "bind", "wait", "exchange", "load", "key", "truncate", "write"}
Flow == [pc : Labels, code : Sites \cup {None, "error"}, key : Sites \cup {None},
         copy : SUBSET Token, renews : BOOLEAN]

FlowsFit ==
    /\ flow \in [Sites -> Flow] /\ flows \in Nat
    /\ port \in Sites \cup {None} /\ keyring \in Sites \cup {None}
    /\ outcome \in [Sites -> Sites \cup {None, "error"}]
    /\ store \in [whole : BOOLEAN, tokens : SUBSET Token]
    /\ browser \subseteq Sites /\ lasting \subseteq Sites

\* What is about to be stored for a backend was granted to it: the endpoint refuses the
\* code of another flow.
Granted ==
    /\ \A s \in Sites : flow[s].pc \in {"load", "key"} => flow[s].code = s
    /\ \A t \in store.tokens : t.of = t.for
    /\ \A s \in Sites : \A t \in flow[s].copy : t.of = t.for

\* The device flow sleeps only while the code is valid.
Polling ==
    /\ device \in [pc : {"idle", "check", "sleep", "poll", "done", "failed"},
                   now : Nat, interval : Nat \ {0}, token : BOOLEAN]
    /\ device.now < Lifetime + device.interval
    /\ device.pc = "sleep" => device.now < Lifetime

\* The tokens of all backends whose token was stored, under the key of the keyring.
Keeps(tokens) == \A s \in lasting : \E t \in tokens : t.for = s /\ t.key = keyring

\* When flows follow each other, the one that stores holds a true copy of the file and of
\* the key, and the file is whole but between its truncation and its write.
Following ==
    ~together =>
        /\ \A s, u \in Sites : flow[s].pc # "idle" /\ flow[u].pc # "idle" => s = u
        /\ (\A s \in Sites : flow[s].pc # "write") => store.whole
        /\ store.whole => Keeps(store.tokens)
        /\ \A s \in Sites : flow[s].pc = "key" =>
              store.whole /\ flow[s].copy = store.tokens /\ flow[s].key = keyring
        /\ \A s \in Sites : flow[s].pc \in {"truncate", "write"} =>
              /\ Keeps(flow[s].copy)
              /\ \E t \in flow[s].copy : t.for = s /\ t.key = keyring

OAuthInv == FlowsFit /\ Granted /\ Polling /\ Following

-----------------------------------------------------------------------------

LEMMA InitOAuthInv == OAuthInit => OAuthInv
  <1> SUFFICES ASSUME OAuthInit PROVE OAuthInv
    OBVIOUS
  <1>1. FlowsFit
    BY OAuthAssumption DEF OAuthInit, FlowsFit, Flow, Labels, NoFlow, None
  <1>2. Granted /\ Following
    BY DEF OAuthInit, Granted, Following, NoFlow, Keeps
  <1>3. Polling
    BY OAuthAssumption DEF OAuthInit, Polling
  <1> QED
    BY <1>1, <1>2, <1>3 DEF OAuthInv

\* The device flow shares nothing with the others.
LEMMA DeviceKeepsInv == OAuthInv /\ DeviceNext /\ UNCHANGED together => OAuthInv'
  <1> SUFFICES ASSUME OAuthInv, DeviceNext, UNCHANGED together PROVE OAuthInv'
    OBVIOUS
  <1>1. UNCHANGED <<flow, flows, browser, port, outcome, keyring, store, lasting>>
    BY DEF DeviceNext, BeginDevice, CheckExpiry, SleepInterval, Poll, DeviceStep
  <1>2. FlowsFit' /\ Granted' /\ Following'
    BY <1>1 DEF OAuthInv, FlowsFit, Granted, Following, Keeps
  <1>3. Polling'
    <2>1. Polling
      BY DEF OAuthInv
    <2>2. CASE BeginDevice
      BY <2>1, <2>2 DEF BeginDevice, DeviceStep, Polling
    <2>3. CASE CheckExpiry
      BY <2>1, <2>3, OAuthAssumption DEF CheckExpiry, DeviceStep, Polling
    <2>4. CASE SleepInterval
      <3>1. device.now \in Nat /\ device.interval \in Nat \ {0} /\ device.now < Lifetime
        BY <2>1, <2>4 DEF SleepInterval, Polling
      <3>2. device' = [device EXCEPT !.pc = "poll", !.now = @ + device.interval]
        BY <2>4 DEF SleepInterval, DeviceStep
      <3>3. device'.now = device.now + device.interval /\ device'.interval = device.interval /\ device'.pc = "poll"
        BY <2>1, <3>2 DEF Polling
      <3>4. device'.now \in Nat /\ device'.now < Lifetime + device'.interval
        BY <3>1, <3>3, OAuthAssumption
      <3>5. device' = [device EXCEPT !.pc = "poll", !.now = device'.now]
        BY <2>1, <3>2, <3>3 DEF Polling
      <3> QED BY <2>1, <3>3, <3>4, <3>5 DEF Polling
    <2>5. CASE Poll
      <3>1. device.now \in Nat /\ device.interval \in Nat \ {0} /\ device.now < Lifetime + device.interval
        BY <2>1 DEF Polling
      <3>2. CASE device' = [device EXCEPT !.pc = "check", !.interval = @ + 5]
        <4>1. device'.now = device.now /\ device'.interval = device.interval + 5 /\ device'.pc = "check"
          BY <2>1, <3>2 DEF Polling
        <4>2. device'.interval \in Nat \ {0} /\ device'.now < Lifetime + device'.interval
          BY <3>1, <4>1, OAuthAssumption
        <4>3. device' = [device EXCEPT !.pc = "check", !.interval = device'.interval]
          BY <2>1, <3>2, <4>1 DEF Polling
        <4> QED BY <2>1, <4>1, <4>2, <4>3 DEF Polling
      <3>3. CASE device' = [device EXCEPT !.pc = "done", !.token = TRUE]
        BY <2>1, <3>3 DEF Polling
      <3>4. CASE device' = [device EXCEPT !.pc = "check"] \/ device' = [device EXCEPT !.pc = "failed"]
        BY <2>1, <3>4 DEF Polling
      <3> QED BY <2>5, <3>2, <3>3, <3>4 DEF Poll, DeviceStep
    <2> QED BY <2>2, <2>3, <2>4, <2>5 DEF DeviceNext
  <1> QED
    BY <1>2, <1>3 DEF OAuthInv

\* A step of a flow that neither stores nor takes a copy: it leaves the file and the key
\* alone, and goes to "load" only with a code of its own.
LEMMA FlowMoves ==
    ASSUME OAuthInv, NEW s \in Sites, NEW r \in Flow, flow' = [flow EXCEPT ![s] = r],
           UNCHANGED <<together, keyring, store, lasting, device>>, flows' \in Nat,
           browser' \subseteq Sites, port' \in Sites \cup {None},
           outcome' \in [Sites -> Sites \cup {None, "error"}],
           r.pc \notin {"key", "truncate", "write"}, r.pc = "load" => r.code = s,
           flow[s].pc # "write", r.copy = flow[s].copy \/ r.copy = {},
           flow[s].pc = "idle" => together \/ Busy = {}
    PROVE  OAuthInv'
  <1>1. flow \in [Sites -> Flow]
    BY DEF OAuthInv, FlowsFit
  <1>2. flow'[s] = r /\ \A u \in Sites \ {s} : flow'[u] = flow[u]
    BY <1>1
  <1>3. FlowsFit'
    BY <1>1 DEF OAuthInv, FlowsFit
  <1>4. Granted'
    <2>1. \A u \in Sites : flow'[u].pc \in {"load", "key"} => flow'[u].code = u
      BY <1>2 DEF OAuthInv, Granted
    <2>2. \A t \in store'.tokens : t.of = t.for
      BY DEF OAuthInv, Granted
    <2>3. \A u \in Sites : \A t \in flow'[u].copy : t.of = t.for
      BY <1>2 DEF OAuthInv, Granted
    <2> QED BY <2>1, <2>2, <2>3 DEF Granted
  <1>5. Following'
    <2> SUFFICES ASSUME ~together' PROVE Following'
      BY DEF Following
    <2>1. ~together /\ Following
      BY DEF OAuthInv
    <2>2. \A u, v \in Sites : flow'[u].pc # "idle" /\ flow'[v].pc # "idle" => u = v
      <3>1. CASE flow[s].pc = "idle"
        BY <1>2, <2>1, <3>1 DEF Busy
      <3>2. CASE flow[s].pc # "idle"
        BY <1>2, <2>1, <3>2 DEF Following
      <3> QED BY <3>1, <3>2
    <2>3. (\A u \in Sites : flow'[u].pc # "write") => store'.whole
      BY <1>2, <2>1 DEF Following
    <2>4. \A tokens : Keeps(tokens)' <=> Keeps(tokens)
      BY DEF Keeps
    <2>5. store'.whole => Keeps(store.tokens)'
      BY <2>1 DEF Following, Keeps
    <2>6. \A u \in Sites : flow'[u].pc = "key" =>
            store'.whole /\ flow'[u].copy = store'.tokens /\ flow'[u].key = keyring'
      BY <1>2, <2>1 DEF Following
    <2>7. \A u \in Sites : flow'[u].pc \in {"truncate", "write"} =>
            /\ Keeps(flow[u].copy)'
            /\ \E t \in flow'[u].copy : t.for = u /\ t.key = keyring'
      BY <1>2, <2>1 DEF Following, Keeps
    <2> QED BY <2>2, <2>3, <2>5, <2>6, <2>7 DEF Following
  <1> QED
    BY <1>3, <1>4, <1>5 DEF OAuthInv, Polling

LEMMA Going == ASSUME NEW q \in Flow, NEW pc \in Labels
               PROVE  /\ [q EXCEPT !.pc = pc] \in Flow /\ [q EXCEPT !.pc = pc].pc = pc
                      /\ [q EXCEPT !.pc = pc].copy = q.copy /\ [q EXCEPT !.pc = pc].code = q.code
                      /\ [q EXCEPT !.pc = pc].key = q.key
  BY DEF Flow

LEMMA NoFlowFits == NoFlow \in Flow /\ NoFlow.pc = "idle" /\ NoFlow.copy = {}
  BY DEF NoFlow, Flow, Labels, None

\* The flow goes to another label and changes nothing else.
LEMMA GoKeepsInv ==
    ASSUME OAuthInv, NEW s \in Sites, NEW pc \in Labels, Go(s, pc),
           UNCHANGED <<together, keyring, store, lasting, device>>, flows' \in Nat,
           browser' \subseteq Sites, port' \in Sites \cup {None},
           outcome' \in [Sites -> Sites \cup {None, "error"}],
           pc \notin {"key", "truncate", "write"}, pc = "load" => flow[s].code = s,
           flow[s].pc # "write", flow[s].pc = "idle" => together \/ Busy = {}
    PROVE  OAuthInv'
  <1>1. flow \in [Sites -> Flow]
    BY DEF OAuthInv, FlowsFit
  <1>2. PICK r : r = [flow[s] EXCEPT !.pc = pc] /\ flow' = [flow EXCEPT ![s] = r]
    BY DEF Go
  <1>3. r \in Flow /\ r.pc = pc /\ r.copy = flow[s].copy /\ r.code = flow[s].code
    BY <1>1, <1>2, Going
  <1> QED
    BY <1>2, <1>3, FlowMoves

LEMMA FlowGoesOn ==
    ASSUME OAuthInv, NEW s \in Sites, UNCHANGED together,
           BeginFlow(s) \/ LookUpToken(s) \/ Refresh(s) \/ OpenAndBind(s) \/ TakeOutcome(s) \/ Exchange(s)
    PROVE  OAuthInv'
  <1>1. /\ flow \in [Sites -> Flow] /\ flows \in Nat /\ browser \subseteq Sites
        /\ port \in Sites \cup {None} /\ outcome \in [Sites -> Sites \cup {None, "error"}]
    BY DEF OAuthInv, FlowsFit
  <1>2. CASE BeginFlow(s)
    BY <1>1, <1>2, GoKeepsInv DEF BeginFlow, PortAside, StoreAside, Labels
  <1>3. CASE LookUpToken(s)
    <2>1. PICK pc \in {"idle", "refresh", "bind"} : Go(s, pc)
      BY <1>3 DEF LookUpToken
    <2> QED BY <1>1, <1>3, <2>1, GoKeepsInv DEF LookUpToken, PortAside, StoreAside, Labels
  <1>4. CASE Refresh(s)
    <2>1. /\ flow[s].pc = "refresh" /\ UNCHANGED <<flows, browser, port, outcome>>
          /\ UNCHANGED <<together, keyring, store, lasting, device>>
      BY <1>4 DEF Refresh, PortAside, StoreAside
    <2>2. CASE flow' = [flow EXCEPT ![s].pc = "load", ![s].code = s, ![s].renews = TRUE]
      <3>1. PICK r : /\ r = [flow[s] EXCEPT !.pc = "load", !.code = s, !.renews = TRUE]
                     /\ flow' = [flow EXCEPT ![s] = r]
        BY <1>1, <2>2
      <3>2. r \in Flow /\ r.pc = "load" /\ r.code = s /\ r.copy = flow[s].copy
        BY <1>1, <3>1, ZenonT(60) DEF Flow, Labels
      <3> QED BY <1>1, <2>1, <3>1, <3>2, FlowMoves
    <2>3. CASE Go(s, "bind")
      BY <1>1, <2>1, <2>3, GoKeepsInv DEF Labels
    <2> QED BY <1>4, <2>2, <2>3 DEF Refresh
  <1>5. CASE OpenAndBind(s)
    <2>1. PICK pc \in {"wait", "idle"} : Go(s, pc)
      BY <1>5 DEF OpenAndBind
    <2>2. /\ flow[s].pc = "bind" /\ UNCHANGED <<flows, together, keyring, store, lasting, device>>
          /\ browser' \subseteq Sites /\ port' \in Sites \cup {None}
      BY <1>1, <1>5 DEF OpenAndBind, StoreAside
    <2>3. outcome' \in [Sites -> Sites \cup {None, "error"}]
      BY <1>1, <1>5 DEF OpenAndBind
    <2> QED BY <1>1, <2>1, <2>2, <2>3, GoKeepsInv DEF Labels
  <1>6. CASE TakeOutcome(s)
    <2>1. /\ flow[s].pc = "wait" /\ UNCHANGED <<flows, browser, port, outcome>>
          /\ UNCHANGED <<together, keyring, store, lasting, device>>
      BY <1>6 DEF TakeOutcome, StoreAside
    <2>2. PICK r : /\ r = [flow[s] EXCEPT !.pc = IF outcome[s] = "error" THEN "idle" ELSE "exchange",
                                          !.code = outcome[s]]
                   /\ flow' = [flow EXCEPT ![s] = r]
      BY <1>1, <1>6 DEF TakeOutcome
    <2>3. r \in Flow /\ r.pc \in {"idle", "exchange"} /\ r.copy = flow[s].copy
      BY <1>1, <2>2, ZenonT(60) DEF Flow, Labels
    <2> QED BY <1>1, <2>1, <2>2, <2>3, FlowMoves
  <1>7. CASE Exchange(s)
    <2>1. PICK pc \in {"load", "idle"} : Go(s, pc) /\ (pc = "load" => flow[s].code = s)
      BY <1>7 DEF Exchange
    <2> QED BY <1>1, <1>7, <2>1, GoKeepsInv DEF Exchange, PortAside, StoreAside, Labels
  <1> QED
    BY <1>2, <1>3, <1>4, <1>5, <1>6, <1>7

\* The user's answer and the end of the server leave the flows alone.
LEMMA CallbackKeepsInv ==
    ASSUME OAuthInv, UNCHANGED together,
           CloseServer \/ \E s \in Sites : HandleCallback(s)
    PROVE  OAuthInv'
  <1>1. UNCHANGED <<flow, flows, device, keyring, store, lasting>>
    BY DEF CloseServer, HandleCallback, StoreAside
  <1>2. browser' \subseteq Sites /\ port' \in Sites \cup {None}
    BY DEF CloseServer, HandleCallback, OAuthInv, FlowsFit
  <1>3. outcome' \in [Sites -> Sites \cup {None, "error"}]
    BY DEF CloseServer, HandleCallback, OAuthInv, FlowsFit
  <1> QED
    BY <1>1, <1>2, <1>3 DEF OAuthInv, FlowsFit, Granted, Polling, Following, Keeps

\* A step of a flow on its way through store().
LEMMA FlowStores ==
    ASSUME OAuthInv, NEW s \in Sites, NEW r \in Flow, flow' = [flow EXCEPT ![s] = r],
           flow[s].pc # "idle", UNCHANGED <<together, flows, browser, port, outcome, device>>,
           keyring' \in Sites \cup {None}, lasting' \subseteq Sites,
           store' \in [whole : BOOLEAN, tokens : SUBSET Token],
           r.pc \in {"load", "key"} => r.code = s,
           \A t \in store'.tokens \cup r.copy : t.of = t.for,
           ~together =>
              /\ r.pc # "write" => store'.whole
              /\ store'.whole => \A u \in lasting' : \E t \in store'.tokens : t.for = u /\ t.key = keyring'
              /\ r.pc = "key" => store'.whole /\ r.copy = store'.tokens /\ r.key = keyring'
              /\ r.pc \in {"truncate", "write"} =>
                   /\ \A u \in lasting' : \E t \in r.copy : t.for = u /\ t.key = keyring'
                   /\ \E t \in r.copy : t.for = s /\ t.key = keyring'
    PROVE  OAuthInv'
  <1>1. flow \in [Sites -> Flow]
    BY DEF OAuthInv, FlowsFit
  <1>2. flow'[s] = r /\ \A u \in Sites \ {s} : flow'[u] = flow[u]
    BY <1>1
  <1>3. FlowsFit'
    BY <1>1 DEF OAuthInv, FlowsFit
  <1>4. Granted'
    BY <1>2 DEF OAuthInv, Granted
  <1>5. Following'
    <2> SUFFICES ASSUME ~together PROVE Following'
      BY DEF Following
    <2>1. \A u \in Sites \ {s} : flow'[u].pc = "idle"
      BY <1>2 DEF OAuthInv, Following
    <2> QED BY <1>2, <2>1 DEF Following, Keeps
  <1> QED
    BY <1>3, <1>4, <1>5 DEF OAuthInv, Polling

LEMMA StoreKeepsInv ==
    ASSUME OAuthInv, NEW s \in Sites, UNCHANGED together,
           LoadStore(s) \/ UseKey(s) \/ Truncate(s) \/ Write(s)
    PROVE  OAuthInv'
  <1> DEFINE q == flow[s]
  <1>1. /\ flow \in [Sites -> Flow] /\ q \in Flow
        /\ keyring \in Sites \cup {None} /\ lasting \subseteq Sites
        /\ store \in [whole : BOOLEAN, tokens : SUBSET Token]
    BY DEF OAuthInv, FlowsFit
  <1>2. /\ q.pc \in {"load", "key"} => q.code = s
        /\ \A t \in store.tokens \cup q.copy : t.of = t.for
    BY DEF OAuthInv, Granted
  <1>3. ~together =>
          /\ q.pc \notin {"idle", "write"} => store.whole
          /\ store.whole => Keeps(store.tokens)
          /\ q.pc = "key" => store.whole /\ q.copy = store.tokens /\ q.key = keyring
          /\ q.pc \in {"truncate", "write"} =>
               Keeps(q.copy) /\ \E t \in q.copy : t.for = s /\ t.key = keyring
    BY DEF OAuthInv, Following
  <1>4. CASE LoadStore(s)
    <2>1. /\ q.pc = "load" /\ UNCHANGED <<flows, browser, port, outcome, device>>
          /\ UNCHANGED <<keyring, store, lasting>>
      BY <1>4 DEF LoadStore, PortAside, StoreAside
    <2>2. PICK r : /\ flow' = [flow EXCEPT ![s] = r]
                   /\ r = IF store.whole THEN [q EXCEPT !.pc = "key", !.copy = store.tokens, !.key = keyring]
                          ELSE IF q.renews THEN [NoFlow EXCEPT !.pc = "bind"] ELSE NoFlow
      BY <1>1, <1>4 DEF LoadStore
    <2> HIDE DEF q
    <2>3. CASE store.whole
      <3>1. r = [q EXCEPT !.pc = "key", !.copy = store.tokens, !.key = keyring]
        BY <2>2, <2>3
      <3>2. /\ r \in Flow /\ r.pc = "key" /\ r.copy = store.tokens
            /\ r.key = keyring /\ r.code = q.code
        BY <1>1, <3>1 DEF Flow, Labels
      <3>3. \A t \in store'.tokens \cup r.copy : t.of = t.for
        BY <1>2, <2>1, <3>2
      <3>4. ~together => \A u \in lasting' : \E t \in store'.tokens : t.for = u /\ t.key = keyring'
        BY <1>3, <2>1, <2>3 DEF Keeps
      <3>5. store'.whole /\ r.copy = store'.tokens /\ r.key = keyring' /\ r.code = s
        BY <1>2, <2>1, <2>3, <3>2
      <3>6. ~together =>
              /\ r.pc # "write" => store'.whole
              /\ store'.whole => \A u \in lasting' : \E t \in store'.tokens : t.for = u /\ t.key = keyring'
              /\ r.pc = "key" => store'.whole /\ r.copy = store'.tokens /\ r.key = keyring'
              /\ r.pc \in {"truncate", "write"} =>
                   /\ \A u \in lasting' : \E t \in r.copy : t.for = u /\ t.key = keyring'
                   /\ \E t \in r.copy : t.for = s /\ t.key = keyring'
        BY <3>2, <3>4, <3>5
      <3>7. /\ keyring' \in Sites \cup {None} /\ lasting' \subseteq Sites
            /\ store' \in [whole : BOOLEAN, tokens : SUBSET Token]
        BY <1>1, <2>1
      <3>8. flow[s].pc # "idle" /\ flow' = [flow EXCEPT ![s] = r]
        BY <2>1, <2>2 DEF q
      <3> QED BY <2>1, <3>2, <3>3, <3>5, <3>6, <3>7, <3>8, FlowStores
    <2>4. CASE ~store.whole
      <3>1. r = NoFlow \/ r = [NoFlow EXCEPT !.pc = "bind"]
        BY <2>2, <2>4
      <3>2. r \in Flow /\ r.pc \in {"idle", "bind"} /\ r.copy = {}
        <4> DEFINE again == [NoFlow EXCEPT !.pc = "bind"]
        <4>1. again \in Flow /\ again.pc = "bind" /\ again.copy = NoFlow.copy
          BY NoFlowFits, Going DEF Labels
        <4> HIDE DEF again
        <4>2. r = NoFlow \/ r = again
          BY <3>1 DEF again
        <4> QED BY <4>1, <4>2, NoFlowFits
      <3>3. /\ flows' \in Nat /\ browser' \subseteq Sites /\ port' \in Sites \cup {None}
            /\ outcome' \in [Sites -> Sites \cup {None, "error"}]
        BY <2>1 DEF OAuthInv, FlowsFit
      <3> QED BY <2>1, <2>2, <3>2, <3>3, FlowMoves DEF q
    <2> QED BY <2>3, <2>4
  <1>5. CASE UseKey(s)
    <2> DEFINE key == IF q.key = None THEN s ELSE q.key
               new == [of |-> q.code, for |-> s, key |-> key]
               copy == {t \in q.copy : t.for # s} \cup {new}
    <2>1. /\ q.pc = "key" /\ UNCHANGED <<flows, browser, port, outcome, device, store, lasting>>
          /\ keyring' = IF q.key = None THEN s ELSE keyring
      BY <1>5 DEF UseKey, PortAside
    <2>2. PICK r : flow' = [flow EXCEPT ![s] = r] /\ r = [q EXCEPT !.pc = "truncate", !.key = key, !.copy = copy]
      BY <1>1, <1>5 DEF UseKey
    <2>3. key \in Sites /\ None \notin Sites
      BY <1>1, OAuthAssumption DEF Flow, None
    <2>4. new \in Token /\ new.of = new.for /\ new.for = s /\ new.key = key /\ q.copy \subseteq Token
      BY <1>1, <1>2, <2>1, <2>3 DEF Token, Flow
    <2>5. ~together => keyring' = key
      BY <1>3, <2>1
    <2>6. ~together => \A u \in lasting : \E t \in copy : t.for = u /\ t.key = key
      <3> SUFFICES ASSUME ~together, NEW u \in lasting PROVE \E t \in copy : t.for = u /\ t.key = key
        OBVIOUS
      <3>1. PICK t \in q.copy : t.for = u /\ t.key = keyring
        BY <1>3, <2>1 DEF Keeps
      <3>2. t.key \in Sites
        BY <2>4 DEF Token
      <3>3. key = keyring
        BY <1>3, <2>1, <2>3, <3>1, <3>2
      <3>4. CASE u = s
        BY <2>4, <3>4
      <3>5. CASE u # s
        BY <3>1, <3>3, <3>5
      <3> QED BY <3>4, <3>5
    <2>7. new \in copy /\ (\A t \in copy : t.of = t.for) /\ copy \subseteq Token
      BY <1>2, <2>4
    <2>8. keyring' \in Sites \cup {None}
      BY <1>1, <2>1
    <2> HIDE DEF q, key, new, copy
    <2>9. r \in Flow /\ r.pc = "truncate" /\ r.copy = copy
      BY <1>1, <2>2, <2>3, <2>7 DEF Flow, Labels
    <2>10. \A t \in store'.tokens \cup r.copy : t.of = t.for
      BY <1>2, <2>1, <2>7, <2>9
    <2>11. ~together => store'.whole
      BY <1>3, <2>1
    <2>12. ~together => \A u \in lasting' : \E t \in r.copy : t.for = u /\ t.key = keyring'
      BY <2>1, <2>5, <2>6, <2>9
    <2>13. ~together => \E t \in r.copy : t.for = s /\ t.key = keyring'
      BY <2>4, <2>5, <2>7, <2>9
    <2>14. ~together => \A u \in lasting' : \E t \in store'.tokens : t.for = u /\ t.key = keyring'
      BY <1>3, <2>1, <2>3, <2>4 DEF Keeps, Token, key
    <2>15. ~together =>
              /\ r.pc # "write" => store'.whole
              /\ store'.whole => \A u \in lasting' : \E t \in store'.tokens : t.for = u /\ t.key = keyring'
              /\ r.pc = "key" => store'.whole /\ r.copy = store'.tokens /\ r.key = keyring'
              /\ r.pc \in {"truncate", "write"} =>
                   /\ \A u \in lasting' : \E t \in r.copy : t.for = u /\ t.key = keyring'
                   /\ \E t \in r.copy : t.for = s /\ t.key = keyring'
      BY <2>9, <2>11, <2>12, <2>13, <2>14
    <2>16. lasting' \subseteq Sites /\ store' \in [whole : BOOLEAN, tokens : SUBSET Token]
      BY <1>1, <2>1
    <2>17. flow[s].pc # "idle" /\ flow' = [flow EXCEPT ![s] = r]
      BY <2>1, <2>2 DEF q
    <2> QED BY <2>1, <2>8, <2>9, <2>10, <2>15, <2>16, <2>17, FlowStores
  <1>6. CASE Truncate(s)
    <2>1. /\ q.pc = "truncate" /\ UNCHANGED <<flows, browser, port, outcome, device, keyring, lasting>>
          /\ store' = [whole |-> FALSE, tokens |-> {}]
      BY <1>6 DEF Truncate, PortAside
    <2>2. PICK r : flow' = [flow EXCEPT ![s] = r] /\ r = [q EXCEPT !.pc = "write"]
      BY <1>6 DEF Truncate, Go
    <2> HIDE DEF q
    <2>3. r \in Flow /\ r.pc = "write" /\ r.copy = q.copy
      BY <1>1, <2>2, Going DEF Labels
    <2>4. store' \in [whole : BOOLEAN, tokens : SUBSET Token] /\ ~store'.whole /\ store'.tokens = {}
      BY <2>1
    <2> QED BY <1>1, <1>2, <1>3, <2>1, <2>2, <2>3, <2>4, FlowStores, ZenonT(60) DEF Keeps, q
  <1>7. CASE Write(s)
    <2>1. /\ q.pc = "write" /\ UNCHANGED <<flows, browser, port, outcome, device, keyring>>
          /\ store' = [whole |-> TRUE, tokens |-> q.copy] /\ lasting' = lasting \cup {s}
      BY <1>7 DEF Write, PortAside
    <2>2. flow' = [flow EXCEPT ![s] = NoFlow]
      BY <1>7 DEF Write
    <2>3. store' \in [whole : BOOLEAN, tokens : SUBSET Token] /\ store'.whole /\ store'.tokens = q.copy
      BY <1>1, <2>1 DEF Flow
    <2> HIDE DEF q
    <2>4. \A t \in store'.tokens \cup NoFlow.copy : t.of = t.for
      BY <1>2, <2>3, NoFlowFits
    <2>5. ~together => \A u \in lasting' : \E t \in store'.tokens : t.for = u /\ t.key = keyring'
      BY <1>3, <2>1, <2>3 DEF Keeps
    <2> QED BY <1>1, <2>1, <2>2, <2>3, <2>4, <2>5, NoFlowFits, FlowStores DEF q
  <1> QED
    BY <1>4, <1>5, <1>6, <1>7

\* However flows overlap, a token is stored for the backend whose user granted it and the
\* device flow stops one interval after the code has expired; flows that follow each
\* other lose no token (flow.rs, token_store.rs, device_flow.rs of src/src/oauth).
THEOREM TokensAreSafe == OAuthSpec => []TokensSafe
  <1>1. OAuthInv /\ [OAuthNext]_oauthVars => OAuthInv'
    <2> SUFFICES ASSUME OAuthInv, [OAuthNext]_oauthVars PROVE OAuthInv'
      OBVIOUS
    <2>1. ASSUME NEW s \in Sites, FlowNext(s), UNCHANGED together PROVE OAuthInv'
      BY <2>1, FlowGoesOn, CallbackKeepsInv, StoreKeepsInv DEF FlowNext
    <2>2. CASE CloseServer /\ UNCHANGED together
      BY <2>2, CallbackKeepsInv
    <2>3. CASE UNCHANGED oauthVars
      BY <2>3 DEF oauthVars, OAuthInv, FlowsFit, Granted, Polling, Following, Keeps
    <2> QED BY <2>1, <2>2, <2>3, DeviceKeepsInv DEF OAuthNext
  <1>2. OAuthInv => TokensSafe
    <2> SUFFICES ASSUME OAuthInv PROVE TokensSafe
      OBVIOUS
    <2>1. OAuthTypeOK
      BY DEF OAuthInv, FlowsFit, OAuthTypeOK, Flow, Labels, Token
    <2>2. TokensBelong
      BY DEF OAuthInv, Granted, Polling, TokensBelong
    <2>3. TokensKept
      BY DEF OAuthInv, Following, Keeps, TokensKept
    <2> QED BY <2>1, <2>2, <2>3 DEF TokensSafe
  <1> QED
    BY <1>1, <1>2, InitOAuthInv, PTL DEF OAuthSpec
=============================================================================
