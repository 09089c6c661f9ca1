------------------------------- MODULE Search -------------------------------
(***************************************************************************)
(* Tool discovery: the three tiers of the text search, its fusion with the *)
(* embedding index, and the pages of the tool list, while backends are     *)
(* registered and removed (src/src/registry.rs, search; embeddings.rs;     *)
(* tools/discovery.rs).                                                    *)
(*                                                                         *)
(* A tool is [name, orig, backend, tags, words]; a word is a sequence of   *)
(* letters.  BM25, Jaccard and cosine scores only matter through the order *)
(* they put the matching tools in, which is left open.                     *)
(***************************************************************************)
EXTENDS Integers, Sequences, FiniteSets, SequencesExt, Functions, Sorting

CONSTANTS
  Alphabet,
  Catalog,      \* the tools backends may register; a name is a number, for its place
  Queries,      \* [words, tags, limit]; tags {} is no filter
  PageSize,
  MaxChanges,   \* how often the registry changes
  MaxUses       \* searches and walks

Namespaced(t) == t.name # t.orig

\* A backend has one namespace, in which its tool has one name.
ASSUME SearchAssumption ==
  /\ PageSize \in Nat \ {0}
  /\ \A t \in Catalog : t.name \in Nat /\ \A w \in t.words : w \in Seq(Alphabet)
  /\ \A t, u \in Catalog :
       /\ Namespaced(t) /\ Namespaced(u)
       /\ t.backend = u.backend /\ t.orig = u.orig
       => t.name = u.name
  /\ \A q \in Queries : q.limit \in Nat /\ \A w \in q.words : w \in Seq(Alphabet)

----------------------------------------------------------------------------
(* Edit distance, row by row.                                              *)

LeastOf3(a, b, c) == CHOOSE x \in {a, b, c} : x <= a /\ x <= b /\ x <= c

NextRow(prev, c, b) ==
  FoldLeft(LAMBDA row, j :
             Append(row, LeastOf3(prev[j + 1] + 1, row[j] + 1,
                                  prev[j] + (IF c = b[j] THEN 0 ELSE 1))),
           <<prev[1] + 1>>, [j \in DOMAIN b |-> j])

Levenshtein(a, b) ==
  Last(FoldLeft(LAMBDA prev, c : NextRow(prev, c, b), [j \in 1..(Len(b) + 1) |-> j - 1], a))

(* The least number of single insertions, deletions and substitutions that *)
(* make b of a: letter i of a stands for letter f[i] of b, or for none,    *)
(* where f[i] is 0, in the order they have in both.                        *)
Alignments(n, m) ==
  {f \in [1..n -> 0..m] : \A i, k \in 1..n : i < k /\ f[k] # 0 => f[i] < f[k]}

Edits(a, b, f) ==
  Cardinality({i \in DOMAIN a : f[i] = 0 \/ a[i] # b[f[i]]}) + Cardinality(DOMAIN b \ Range(f))

Distance(a, b) == Min({Edits(a, b, f) : f \in Alignments(Len(a), Len(b))})

MaxEditDistance(n) == IF n <= 4 THEN 1 ELSE IF n <= 12 THEN 2 ELSE 3

Trigrams(w) == {SubSeq(w, i, i + 2) : i \in 1..(Len(w) - 2)}

(* The corrections of a word: the nearest words of the vocabulary, itself  *)
(* excluded; short words and those without a near one stay.                *)
Corrections(word, tools) ==
  LET vocabulary == {w \in UNION {t.words : t \in tools} : Len(w) >= 3}
      most == MaxEditDistance(Len(word))
      near == {w \in vocabulary : /\ Len(w) - Len(word) \in (-most)..most
                                  /\ Levenshtein(word, w) \in 1..most}
      best == {w \in near : \A v \in near : Levenshtein(word, w) <= Levenshtein(word, v)}
  IN  IF Len(word) < 3 \/ best = {} THEN {word} ELSE best

----------------------------------------------------------------------------
(* The tiers: the set of tools each one matches.                           *)

Corpus(tools, tags) == {t \in tools : tags = {} \/ t.tags \cap tags # {}}

Bm25Matches(words, tools, tags) ==
  {t \in Corpus(tools, tags) : t.words \cap words # {}}

TrigramMatches(words, tools, tags) ==
  LET q == UNION {Trigrams(w) : w \in words}
      d(t) == UNION {Trigrams(w) : w \in t.words}
  IN  {t \in Corpus(tools, tags) :
         q # {} /\ 20 * Cardinality(q \cap d(t)) > Cardinality(q \cup d(t))}

(* What a search may match: the first tier that finds something, the third *)
(* one with corrected words.  A limit of 0 leaves every tier empty.        *)
SearchMatches(q, tools) ==
  LET first == Bm25Matches(q.words, tools, q.tags)
      second == TrigramMatches(q.words, tools, q.tags)
      corrected == {UNION {{f[w]} : w \in q.words} :
                      f \in {g \in [q.words -> UNION {Corrections(w, tools) : w \in q.words}] :
                               \A w \in q.words : g[w] \in Corrections(w, tools)}}
  IN  IF q.words = {} THEN {{}}
      ELSE IF first # {} THEN {first}
      ELSE IF second # {} THEN {second}
      ELSE {IF c = q.words THEN {} ELSE Bm25Matches(c, tools, q.tags) : c \in corrected}

(* The names of a set of tools ranked and cut at a limit; the fusion asks  *)
(* each list for 30 at least.                                              *)
NamesOf(tools) == {t.name : t \in tools}
Cut(s, limit) == SubSeq(s, 1, IF Len(s) <= limit THEN Len(s) ELSE limit)
Ranked(names, limit) == {Cut(s, limit) : s \in SetToSeqs(names)}
Fetch(limit) == IF limit >= 30 THEN limit ELSE 30

(* Reciprocal rank fusion: the sum of 1 / (60 + rank) from each list, as   *)
(* a fraction; ties in the order of the names.                             *)
Share(name, list) ==
  IF \E i \in DOMAIN list : list[i] = name
  THEN <<1, 60 + CHOOSE i \in DOMAIN list : list[i] = name>> ELSE <<0, 1>>
Score(name, text, semantic) ==
  LET s == Share(name, text)
      r == Share(name, semantic)
  IN  <<s[1] * r[2] + r[1] * s[2], s[2] * r[2]>>
Above(x, y) == x[1] * y[2] > y[1] * x[2]

Fuse(text, semantic, limit) ==
  LET score == [n \in ToSet(text) \cup ToSet(semantic) |-> Score(n, text, semantic)]
      before(m, n) == Above(score[m], score[n]) \/ (~Above(score[n], score[m]) /\ m < n)
  IN  Cut(Sorted(DOMAIN score, before), limit)

(* The elements of a list that are in a set, in their order.               *)
Kept(list, set) ==
  LET at == Sorted({i \in DOMAIN list : list[i] \in set}, <)
  IN  [k \in DOMAIN at |-> list[at[k]]]

(* A page of the sorted names from a cursor; there is a next cursor when   *)
(* the page is full.                                                       *)
SortedNames(tools) == Sorted(NamesOf(tools), <)
Page(tools, cursor) ==
  LET all == SortedNames(tools)
  IN  SubSeq(all, cursor + 1, IF cursor + PageSize <= Len(all) THEN cursor + PageSize ELSE Len(all))

(* What the cache stores: one entry per tool of a backend, the namespaced  *)
(* one rather than its bare alias.                                         *)
Snapshot(tools) ==
  {t \in tools : Namespaced(t) \/ ~\E u \in tools : /\ u.backend = t.backend
                                                    /\ u.orig = t.orig /\ Namespaced(u)}

----------------------------------------------------------------------------
VARIABLES
  registry,   \* the tools one can find
  index,      \* the names that have an embedding
  changes, uses,
  query,      \* the search in progress, see Ask
  walk        \* the walk over the pages in progress
searchVars == <<registry, index, changes, uses, query, walk>>

NoQuery == [pc |-> "none"]
NoWalk == [pc |-> "none"]

SearchInit ==
  /\ registry = {} /\ index = {} /\ changes = 0 /\ uses = 0
  /\ query = NoQuery /\ walk = NoWalk

(* A change of the registry during a search or a walk is noted in it.      *)
NoteChange ==
  /\ changes < MaxChanges /\ changes' = changes + 1
  /\ query' = IF query.pc = "none" THEN query ELSE [query EXCEPT !.steady = FALSE]
  /\ walk' = IF walk.pc = "none" THEN walk ELSE [walk EXCEPT !.steady = FALSE]
  /\ UNCHANGED uses

(* Registering embeds the namespaced entries last, removing a backend      *)
(* drops the embeddings first; a backend that registers again drops its    *)
(* old tools but not their embeddings.                                     *)
AddTool ==
  /\ \E t \in Catalog \ registry : registry' = {u \in registry : u.name # t.name} \cup {t}
  /\ UNCHANGED index
  /\ NoteChange

AddEmbedding ==
  /\ \E t \in registry : Namespaced(t) /\ t.name \notin index /\ index' = index \cup {t.name}
  /\ UNCHANGED <<registry, changes, uses, query, walk>>

RemoveEmbedding ==
  /\ \E n \in index : index' = index \ {n}
  /\ UNCHANGED registry
  /\ NoteChange

RemoveTool ==
  /\ \E t \in registry : registry' = registry \ {t}
  /\ UNCHANGED index
  /\ NoteChange

(* search_hybrid: the text search, then the index, then the registry again *)
(* for the entries; without embeddings the text search alone.              *)
Ask ==
  /\ query.pc = "none" /\ uses < MaxUses /\ uses' = uses + 1
  /\ \E q \in Queries, matches \in SUBSET registry :
       /\ matches \in SearchMatches(q, registry)
       /\ \E text \in Ranked(NamesOf(matches), IF index = {} THEN q.limit ELSE Fetch(q.limit)) :
            query' = [pc |-> IF index = {} THEN "answered" ELSE "text", q |-> q,
                      text |-> text, semantic |-> <<>>, steady |-> TRUE,
                      results |-> IF index = {} THEN text ELSE <<>>, seen |-> registry]
  /\ UNCHANGED <<registry, index, changes, walk>>

AskIndex ==
  /\ query.pc = "text"
  /\ \E semantic \in Ranked(index, Fetch(query.q.limit)) :
       query' = [query EXCEPT !.pc = "semantic", !.semantic = semantic]
  /\ UNCHANGED <<registry, index, changes, uses, walk>>

(* Mutant: the names are answered as they were found.                      *)
LookupNothing ==
  /\ query.pc = "semantic"
  /\ query' = [query EXCEPT !.pc = "answered", !.seen = registry,
                            !.results = Fuse(query.text, query.semantic, query.q.limit)]
  /\ UNCHANGED <<registry, index, changes, uses, walk>>

(* A fused name that is not registered any more is dropped, and so is one  *)
(* without a wanted tag: both after the list has been cut at the limit.    *)
Lookup ==
  /\ query.pc = "semantic"
  /\ query' = [query EXCEPT !.pc = "answered", !.seen = registry,
                            !.results = Kept(Fuse(query.text, query.semantic, query.q.limit),
                                             NamesOf(Corpus(registry, query.q.tags)))]
  /\ UNCHANGED <<registry, index, changes, uses, walk>>

Forget ==
  /\ query.pc = "answered" /\ query' = NoQuery
  /\ UNCHANGED <<registry, index, changes, uses, walk>>

(* list_tools_meta: the client asks for page after page.                   *)
StartWalk ==
  /\ walk.pc = "none" /\ uses < MaxUses /\ uses' = uses + 1
  /\ walk' = [pc |-> "walking", cursor |-> 0, listed |-> <<>>, steady |-> TRUE]
  /\ UNCHANGED <<registry, index, changes, query>>

NextPage ==
  LET page == Page(registry, walk.cursor)
  IN  /\ walk.pc = "walking"
      /\ walk' = [walk EXCEPT !.listed = @ \o page, !.cursor = @ + PageSize,
                              !.pc = IF Len(page) = PageSize THEN "walking" ELSE "complete"]
      /\ UNCHANGED <<registry, index, changes, uses, query>>

EndWalk ==
  /\ walk.pc = "complete" /\ walk' = NoWalk
  /\ UNCHANGED <<registry, index, changes, uses, query>>

SearchNext ==
  \/ AddTool \/ AddEmbedding \/ RemoveEmbedding \/ RemoveTool
  \/ Ask \/ AskIndex \/ Lookup \/ Forget
  \/ StartWalk \/ NextPage \/ EndWalk

SearchSpec == SearchInit /\ [][SearchNext]_searchVars

----------------------------------------------------------------------------
(* What a search answers: different tools, at most `limit`, each one       *)
(* registered when it was looked up and, if tags were asked for, with one  *)
(* of them, whatever happened to the registry between the steps; and       *)
(* something, when no tag was asked for, a tool matches, nothing changed   *)
(* and no embedding is left of a tool that is gone (it would take a place  *)
(* among the first `limit`).                                               *)
SearchSound ==
  query.pc = "answered" =>
    LET r == query.results
    IN  /\ IsInjective(r) /\ Len(r) <= query.q.limit
        /\ \A i \in DOMAIN r : \E t \in query.seen :
             /\ t.name = r[i]
             /\ query.q.tags = {} \/ t.tags \cap query.q.tags # {}
        /\ query.steady /\ query.q.tags = {} /\ query.q.limit > 0
             /\ ToSet(query.semantic) \subseteq NamesOf(query.seen)
             /\ Bm25Matches(query.q.words, query.seen, {}) # {}
           => r # <<>>

(* A walk over the pages during which nothing changed lists every tool     *)
(* exactly once; the corrections are the nearest words by the true edit    *)
(* distance, and no word is missed because of its length; the snapshot for *)
(* the cache has each tool of a backend once.                              *)
PagesComplete ==
  walk.pc = "complete" /\ walk.steady => walk.listed = SortedNames(registry)

NearestWords(word, tools) ==
  LET near == {w \in UNION {t.words : t \in tools} :
                 Len(w) >= 3 /\ w # word /\ Distance(word, w) <= MaxEditDistance(Len(word))}
  IN  IF Len(word) < 3 \/ near = {} THEN {word}
      ELSE {w \in near : \A v \in near : Distance(word, w) <= Distance(word, v)}

CorrectionsNear ==
  query.pc = "answered" =>
    \A w \in query.q.words : Corrections(w, query.seen) = NearestWords(w, query.seen)

SnapshotOnce ==
  \A t \in registry :
    Cardinality({u \in Snapshot(registry) : u.backend = t.backend /\ u.orig = t.orig}) = 1

DiscoverySound == SearchSound /\ PagesComplete /\ CorrectionsNear /\ SnapshotOnce
=============================================================================
