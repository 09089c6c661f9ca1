------------------------------- MODULE Output -------------------------------
(***************************************************************************)
(* What call_tool_chain returns of a large result: filtering by intent,    *)
(* the summary of large JSON, truncation and the size footer               *)
(* (src/src/tools/sandbox.rs, process_output; src/src/tools/json_chunker). *)
(*                                                                         *)
(* A text is a sequence of lines [bytes, terms, blank]; bytes counts the   *)
(* line break.  A JSON value [t, id, keys, parts, bytes, depth] has the    *)
(* items of an array or the values of an object as its parts, and the      *)
(* bytes of its compact form; serde_json nests values less than 128 deep.  *)
(***************************************************************************)
EXTENDS Integers, Sequences, FiniteSets, SequencesExt, Sorting

CONSTANTS
  IntentThreshold,  \* INTENT_SEARCH_THRESHOLD
  GroupLines,       \* the 10 lines of a group
  ChunkTarget,      \* CHUNK_TARGET
  ChunkThreshold,   \* OutputConfig.chunk_threshold
  Preview, Shown,   \* 3 items and 20 identities of a uniform array
  Footer,           \* the 200 bytes that make a footer worthwhile
  Terms,            \* what the lines and the intents are about
  MaxDepth, Values, \* the JSON values, with all their parts
  Inputs            \* [lines, json, intent, max, smart, auto]; json may be NoJson

NoJson == [t |-> "none"]
TextLine == [bytes : Nat \ {0}, terms : SUBSET Terms, blank : BOOLEAN]

ASSUME OutputAssumption ==
  /\ {IntentThreshold, ChunkTarget, ChunkThreshold, Preview, Shown, Footer, MaxDepth} \subseteq Nat
  /\ GroupLines \in Nat \ {0}
  /\ \A v \in Values :
       /\ v.t \in {"scalar", "array", "object"} /\ v.parts \in Seq(Values)
       /\ v.bytes \in Nat /\ v.depth \in 0..MaxDepth
       /\ \A i \in DOMAIN v.parts : v.parts[i].depth < v.depth
  /\ \A r \in Inputs :
       /\ r.lines \in Seq(TextLine) /\ r.json \in Values \cup {NoJson}
       /\ r.intent \in SUBSET Terms /\ r.max \in Nat /\ r.smart \in BOOLEAN /\ r.auto \in BOOLEAN

Bytes(lines) == FoldLeft(LAMBDA sum, line : sum + line.bytes, 0, lines)
LeastOf(a, b) == IF a <= b THEN a ELSE b
Flattened(s, Part(_)) == FlattenSeq([i \in DOMAIN s |-> Part(s[i])])

----------------------------------------------------------------------------
(* Filtering by intent.  A section is the pair of its first and last line. *)

(* The maximal runs of lines without a blank one.                          *)
IsText(lines, i) == i \in DOMAIN lines /\ ~lines[i].blank
Paragraphs(lines) ==
  LET starts == Sorted({i \in DOMAIN lines : IsText(lines, i) /\ ~IsText(lines, i - 1)}, <)
      stop(i) == CHOOSE j \in i..Len(lines) :
                   (\A k \in i..j : IsText(lines, k)) /\ ~IsText(lines, j + 1)
  IN  [k \in DOMAIN starts |-> <<starts[k], stop(starts[k])>>]

Groups(lines) ==
  [k \in 1..((Len(lines) + GroupLines - 1) \div GroupLines) |->
     <<(k - 1) * GroupLines + 1, LeastOf(k * GroupLines, Len(lines))>>]

SplitIntoChunks(lines) ==
  IF Len(Paragraphs(lines)) >= 3 THEN Paragraphs(lines) ELSE Groups(lines)

(* More than 30 % of the intent's terms occur in the section.              *)
Relevant(lines, section, intent) ==
  LET terms == UNION {lines[i].terms : i \in section[1]..section[2]}
  IN  10 * Cardinality(intent \cap terms) > 3 * Cardinality(intent)

RelevantAt(lines, intent) ==
  LET sections == SplitIntoChunks(lines)
  IN  Sorted({k \in DOMAIN sections : Relevant(lines, sections[k], intent)}, <)

(* The filtered text starts with a header; nothing left means no filter.   *)
FilterByIntent(lines, intent) ==
  LET sections == SplitIntoChunks(lines)
      section(k) == SubSeq(lines, sections[k][1], sections[k][2])
      header == [bytes |-> 2, terms |-> {}, blank |-> FALSE]
  IN  IF \/ Bytes(lines) < IntentThreshold \/ intent = {}
         \/ Len(sections) <= 1 \/ RelevantAt(lines, intent) = <<>>
      THEN lines
      ELSE <<header>> \o Flattened(RelevantAt(lines, intent), section)

----------------------------------------------------------------------------
(* The summary of a JSON value.                                            *)

Leaves[v \in Values] ==
  IF v.t = "scalar" THEN <<v.id>>
  ELSE FlattenSeq([i \in DOMAIN v.parts |-> Leaves[v.parts[i]]])

HasNestedContainers(v) ==
  v.t = "object" /\ \E i \in DOMAIN v.parts : v.parts[i].t \in {"array", "object"}

(* At most two of the identity fields, in their order, of an object.       *)
IdentityFields == <<"id", "name", "title", "slug", "key", "label">>
ExtractIdentity(v) ==
  IF v.t # "object" THEN <<>>
  ELSE LET scalar(k) == \E i \in DOMAIN v.keys : v.keys[i] = k /\ v.parts[i].t = "scalar"
           found == SelectSeq(IdentityFields, scalar)
       IN  SubSeq(found, 1, LeastOf(2, Len(found)))

(* A chunk is a value by itself or the items of a batch, whose range is    *)
(* part of its path and whose first item identifies it.                    *)
SingleChunk(v) ==
  [identity |-> ExtractIdentity(v), first |-> 1, last |-> 1, items |-> <<v>>, bytes |-> v.bytes]
FlushBatch(arr, acc, end) ==
  Append(acc.out, [identity |-> ExtractIdentity(arr[acc.start]), first |-> acc.start,
                   last |-> end, items |-> acc.items, bytes |-> acc.bytes])

(* The batches of an array: consecutive items while they stay within the   *)
(* target; acc is the batch being filled and the chunks flushed so far.    *)
NoBatch == [start |-> 1, bytes |-> 0, items |-> <<>>, out |-> <<>>]
BatchItem(arr, acc, i) ==
  IF acc.items # <<>> /\ acc.bytes + arr[i].bytes > ChunkTarget
  THEN [start |-> i, bytes |-> arr[i].bytes, items |-> <<arr[i]>>,
        out |-> FlushBatch(arr, acc, i - 1)]
  ELSE [start |-> acc.start, bytes |-> acc.bytes + arr[i].bytes,
        items |-> Append(acc.items, arr[i]), out |-> acc.out]

FilledBatches(arr) ==
  FoldLeft(LAMBDA acc, i : BatchItem(arr, acc, i), NoBatch, [i \in DOMAIN arr |-> i])

(* Mutant: the batch that is open at the end is not flushed.               *)
BatchesUnflushed(arr) == FilledBatches(arr).out

Batches(arr) == FlushBatch(arr, FilledBatches(arr), Len(arr))

ChunkJson[v \in Values] ==
  IF v.t = "array" /\ v.parts # <<>> THEN Batches(v.parts)
  ELSE IF v.t = "object" /\ ~(v.bytes <= ChunkTarget /\ ~HasNestedContainers(v))
  THEN FlattenSeq([i \in DOMAIN v.parts |-> ChunkJson[v.parts[i]]])
  ELSE <<SingleChunk(v)>>

(* An array of more than Preview objects with one set of keys; what the    *)
(* summary keeps is the first Preview items and the next identities.       *)
IsUniform(v) ==
  /\ v.t = "array" /\ Len(v.parts) > Preview
  /\ \A i \in DOMAIN v.parts :
       /\ v.parts[i].t = "object"
       /\ ToSet(v.parts[i].keys) = ToSet(v.parts[1].keys)

UniformSummary(v) ==
  LET named == Sorted({i \in Preview + 1..Len(v.parts) : ExtractIdentity(v.parts[i]) # <<>>}, <)
  IN  [count |-> Len(v.parts), keys |-> ToSet(v.parts[1].keys),
       preview |-> SubSeq(v.parts, 1, Preview),
       identities |-> [k \in 1..LeastOf(Shown, Len(named)) |-> ExtractIdentity(v.parts[named[k]])]]

(* What is shown of a text that holds a JSON value.                        *)
Collapsed(lines, json, auto) ==
  LET raw == [kind |-> "text", lines |-> lines]
  IN  IF ~auto \/ Bytes(lines) <= ChunkThreshold \/ json.t \notin {"array", "object"} THEN raw
      ELSE IF IsUniform(json) THEN [kind |-> "uniform", sum |-> UniformSummary(json)]
      ELSE IF Len(ChunkJson[json]) > 1 THEN [kind |-> "chunks", chunks |-> ChunkJson[json]]
      ELSE raw

----------------------------------------------------------------------------
(* Truncation.  The result keeps the first `head` and the last `tail`      *)
(* lines; a text of one line is cut by bytes.                              *)

Whole(lines) == [head |-> Len(lines), tail |-> 0, bytes |-> Bytes(lines), cut |-> "no"]

FirstLines(lines, n) == SubSeq(lines, 1, n)
LastLines(lines, n) == SubSeq(lines, Len(lines) - n + 1, Len(lines))

(* How many lines, taken from one end, fit a budget.                       *)
Fitting(lines, Taken(_, _), budget) ==
  CHOOSE n \in 0..Len(lines) :
    /\ Bytes(Taken(lines, n)) <= budget
    /\ n < Len(lines) => Bytes(Taken(lines, n + 1)) > budget

HeadBudget(max) == (max * 6) \div 10

OneLine(bytes, max) ==
  LET headEnd == HeadBudget(max)
      tailStart == bytes - LeastOf(bytes, (max * 4) \div 10)
  IN  IF tailStart <= headEnd
      THEN [head |-> 1, tail |-> 0, bytes |-> max, cut |-> "head"]
      ELSE [head |-> 1, tail |-> 0, bytes |-> headEnd + bytes - tailStart, cut |-> "middle"]

HeadCount(lines, max) ==
  LET fit == Fitting(lines, FirstLines, HeadBudget(max))
  IN  IF fit = 0 THEN 1 ELSE fit
TailCount(lines, max) ==
  LET head == HeadCount(lines, max)
      fit == Fitting(lines, LastLines, max - HeadBudget(max))
  IN  IF head + fit > Len(lines) THEN Len(lines) - head ELSE fit

TruncateOutput(lines, max) ==
  LET head == HeadCount(lines, max)
      tail == TailCount(lines, max)
  IN  IF Bytes(lines) <= max THEN Whole(lines)
      ELSE IF Len(lines) <= 1 THEN OneLine(Bytes(lines), max)
      ELSE IF head + tail = Len(lines) THEN Whole(lines)
      ELSE [head |-> head, tail |-> tail, cut |-> "lines",
            bytes |-> Bytes(FirstLines(lines, head)) + Bytes(LastLines(lines, tail))]

(* Without smart truncation only the head is kept.                         *)
SimpleTruncate(lines, max) ==
  IF Bytes(lines) <= max THEN Whole(lines)
  ELSE [head |-> Fitting(lines, FirstLines, max), tail |-> 0, bytes |-> max, cut |-> "head"]

----------------------------------------------------------------------------
(* The stages of process_output, each reading what the one before left.    *)

VARIABLES
  request,     \* what the chain returned and how it is to be shown
  outStage,    \* "raw", "filtered", "chunked", "truncated", "returned"
  shown,       \* the text as it stands: lines, or a summary
  returned     \* the result of the truncation and the footer
outVars == <<request, outStage, shown, returned>>

OutInit ==
  /\ request \in Inputs
  /\ outStage = "raw" /\ shown = [kind |-> "text", lines |-> request.lines]
  /\ returned = Whole(request.lines)

FilterStage ==
  /\ outStage = "raw"
  /\ outStage' = "filtered"
  /\ shown' = [kind |-> "text", lines |-> FilterByIntent(shown.lines, request.intent)]
  /\ UNCHANGED <<request, returned>>

(* A filtered text is no JSON any more: the header spoils it.              *)
ChunkStage ==
  /\ outStage = "filtered"
  /\ outStage' = "chunked"
  /\ shown' = Collapsed(shown.lines, IF shown.lines = request.lines THEN request.json ELSE NoJson,
                        request.auto)
  /\ UNCHANGED <<request, returned>>

(* A summary is one line per chunk, or per item and identity.              *)
LinesOf(s) ==
  LET line == [bytes |-> 2, terms |-> {}, blank |-> FALSE]
  IN  CASE s.kind = "text" -> s.lines
        [] s.kind = "chunks" -> [i \in 1..(Len(s.chunks) + 2) |-> line]
        [] s.kind = "uniform" ->
             [i \in 1..(Preview + 2 + Len(s.sum.identities)) |-> line]

TruncateStage ==
  /\ outStage = "chunked"
  /\ outStage' = "truncated"
  /\ returned' = IF request.smart THEN TruncateOutput(LinesOf(shown), request.max)
                                  ELSE SimpleTruncate(LinesOf(shown), request.max)
  /\ UNCHANGED <<request, shown>>

(* The footer marks what is short for another reason than a cut, which is  *)
(* marked where it is made.                                                *)
FooterStage ==
  /\ outStage = "truncated"
  /\ outStage' = "returned"
  /\ returned' = IF Bytes(request.lines) > returned.bytes + Footer /\ returned.cut = "no"
                 THEN [returned EXCEPT !.cut = "footer"] ELSE returned
  /\ UNCHANGED <<request, shown>>

OutNext == FilterStage \/ ChunkStage \/ TruncateStage \/ FooterStage

OutSpec == OutInit /\ [][OutNext]_outVars

----------------------------------------------------------------------------
(* Nothing is invented, repeated or lost silently: the sections of a text  *)
(* follow one another and leave out blank lines only, and a filtered text  *)
(* is the relevant ones; the chunks of a summary hold every leaf of the    *)
(* value once and in order, each the items of its range and within the     *)
(* target unless it is one item; the head and the tail of a truncated text *)
(* never overlap and fit the limit unless the first line alone exceeds its *)
(* share; what needs no reduction is returned as it is.                    *)
LeavesOf(c) == Flattened(c.items, LAMBDA v : Leaves[v])
ChunksCover ==
  shown.kind = "chunks" =>
    /\ Flattened(shown.chunks, LeavesOf) = Leaves[request.json]
    /\ \A i \in DOMAIN shown.chunks :
         LET c == shown.chunks[i]
         IN  /\ c.bytes = Bytes(c.items) /\ c.last - c.first + 1 = Len(c.items)
             /\ c.bytes <= ChunkTarget \/ Len(c.items) = 1

CutsApart ==
  LET lines == LinesOf(shown)
  IN  outStage \in {"truncated", "returned"} =>
        /\ returned.head + returned.tail <= Len(lines)
        /\ returned.bytes <= request.max \/ lines[1].bytes > HeadBudget(request.max)
        /\ returned.bytes = Bytes(lines) => returned.cut \in {"no", "footer"}

SectionsFollow(sections, lines) ==
  /\ \A k \in DOMAIN sections : sections[k][1] \in 1..sections[k][2] /\ sections[k][2] \in DOMAIN lines
  /\ \A k, l \in DOMAIN sections : k < l => sections[k][2] < sections[l][1]
  /\ \A i \in DOMAIN lines :
       ~lines[i].blank => \E k \in DOMAIN sections : i \in sections[k][1]..sections[k][2]

FilterKeepsSections ==
  LET sections == SplitIntoChunks(request.lines)
      relevant == {k \in DOMAIN sections : Relevant(request.lines, sections[k], request.intent)}
      section(k) == SubSeq(request.lines, sections[k][1], sections[k][2])
  IN  /\ SectionsFollow(sections, request.lines)
      /\ outStage = "filtered" /\ shown.lines # request.lines =>
           \E ks \in [1..Cardinality(relevant) -> relevant] :
             /\ \A i, j \in DOMAIN ks : i < j => ks[i] < ks[j]
             /\ Tail(shown.lines) = Flattened(ks, section)

SmallUntouched ==
  /\ outStage = "returned"
  /\ Bytes(request.lines) <= LeastOf(request.max, LeastOf(ChunkThreshold, IntentThreshold - 1))
  => shown.kind = "text" /\ shown.lines = request.lines /\ returned = Whole(request.lines)

OutputFaithful == ChunksCover /\ CutsApart /\ FilterKeepsSections /\ SmallUntouched
=============================================================================
