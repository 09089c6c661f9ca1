------------------------------- MODULE MCTools -------------------------------
(* What a client does with tools: finds them, runs code that calls them, and *)
(* is shown the result.  A behaviour is about one of the three.              *)
EXTENDS SandboxChain, Output, Search, TLC

CONSTANTS Subjects, c1, c2

VARIABLE subject

-----------------------------------------------------------------------------
(* Two backends whose names are no identifiers, and what is run on them.    *)

BackA == <<"a", "-", "b">>
BackB == <<"1">>
ToolX == <<"a", "-">>
TwoTools == {[backend |-> BackA, tool |-> ToolX], [backend |-> BackB, tool |-> ToolX]}
JsA == [backend |-> <<"a", "_", "b">>, tool |-> <<"a", "_">>]
JsB == [backend |-> <<"_", "1">>, tool |-> <<"a", "_">>]
Wrong == [backend |-> <<"a", "_", "b">>, tool |-> <<"b">>]
Unknown == [backend |-> <<"b">>, tool |-> ToolX]

Code(form, lines, statements, args, calling) ==
    [form |-> form, lines |-> lines, statements |-> statements, args |-> args, result |-> "ident",
     calls |-> [i \in DOMAIN calling |-> [js |-> calling[i], backend |-> CASE calling[i] = JsB -> BackB
                                                                             [] calling[i] = Unknown -> <<"b">>
                                                                             [] OTHER -> BackA]],
     dotted |-> <<<<"a", "_", "b">>, ToolX>>]
SomeCodes ==
    c1 :> {Code("introspect", 1, 1, "none", <<>>), Code("script", 3, 4, "json", <<JsA, JsA>>)}
    @@ c2 :> {Code("json", 1, 1, "json", <<JsA>>), Code("call", 2, 2, "json", <<JsB>>),
              Code("script", 3, 2, "json", <<Wrong>>), Code("json", 1, 1, "json", <<Unknown>>)}

-----------------------------------------------------------------------------
(* Lines of two lengths and blank ones; arrays and objects around the target. *)

Ln(bytes, terms) == [bytes |-> bytes, terms |-> terms, blank |-> FALSE]
Line == {Ln(2, {"a"}), Ln(7, {"b"}), [bytes |-> 1, terms |-> {}, blank |-> TRUE]}
Texts == UNION {[1..n -> Line] : n \in 1..4}
         \cup {<<Ln(2, {"a"}), y, Ln(7, {"b"}), y, Ln(2, {"a"})>> : y \in Line}
Scalar(id, bytes) == [t |-> "scalar", id |-> id, keys |-> <<>>, parts |-> <<>>, bytes |-> bytes, depth |-> 0]
Sum(s) == FoldLeft(LAMBDA a, b : a + b, 0, s)
Deepest(s) == FoldLeft(LAMBDA a, b : IF a >= b THEN a ELSE b, 0, s)
\* Brackets, commas, and three bytes for a key.
Nested(t, keys, parts) ==
    [t |-> t, id |-> 0, keys |-> keys, parts |-> parts,
     bytes |-> 2 + Sum([i \in DOMAIN parts |-> parts[i].bytes]) + 3 * Len(keys)
                 + (IF parts = <<>> THEN 0 ELSE Len(parts) - 1),
     depth |-> 1 + Deepest([i \in DOMAIN parts |-> parts[i].depth])]
Arr(items) == Nested("array", <<>>, items)
Obj(keys, vals) == Nested("object", keys, vals)
Items(n, bytes) == [i \in 1..n |-> Scalar(i, bytes)]
Jsons ==
    {Arr(Items(n, bytes)) : n \in 0..5, bytes \in {3, 6, 15}}
    \cup {Arr(<<Scalar(1, 3), Scalar(2, 15), Scalar(3, 3), Scalar(4, 3)>>),
          Arr([i \in 1..4 |-> Obj(<<"title", "id", "x">>, Items(3, 1))]),
          Obj(<<"x", "id">>, <<Arr(Items(4, 6)), Scalar(9, 2)>>),
          Obj(<<"x", "name">>, <<Obj(<<"key">>, <<Scalar(1, 2)>>), Scalar(2, 12)>>),
          Obj(<<"slug", "label">>, Items(2, 2))}
Parts(values) == values \cup UNION {ToSet(v.parts) : v \in values}
SomeValues == Parts(Parts(Jsons))
SomeInputs ==
    {[lines |-> l, json |-> NoJson, intent |-> i, max |-> m, smart |-> s, auto |-> TRUE] :
        l \in Texts, i \in {{}, {"a"}, {"b", "c"}}, m \in {10}, s \in {TRUE}}
    \cup {[lines |-> l, json |-> NoJson, intent |-> {}, max |-> m, smart |-> s, auto |-> FALSE] :
        l \in {x \in Texts : Len(x) \in {1, 3}}, m \in {6, 10, 15}, s \in BOOLEAN}
    \cup {[lines |-> <<Ln(j.bytes, {"a"})>>, json |-> j, intent |-> i, max |-> m, smart |-> TRUE, auto |-> a] :
        j \in Jsons, i \in {{}, {"b"}}, m \in {10, 30}, a \in BOOLEAN}

-----------------------------------------------------------------------------
(* Three tools, one with its bare alias, and words one edit apart.          *)

SomeCatalog ==
    {[name |-> 1, orig |-> 11, backend |-> "x", tags |-> {"t"}, words |-> {<<"r", "e", "a", "d">>}],
     [name |-> 11, orig |-> 11, backend |-> "x", tags |-> {"t"}, words |-> {<<"r", "e", "a", "d">>}],
     [name |-> 2, orig |-> 12, backend |-> "y", tags |-> {}, words |-> {<<"r", "o", "a", "d">>, <<"r", "u", "n">>}]}
SomeQueries ==
    {[words |-> {<<"r", "e", "a", "d">>}, tags |-> {}, limit |-> 1],
     [words |-> {<<"r", "u", "n">>, <<"r", "a", "d">>}, tags |-> {"t"}, limit |-> 5],
     [words |-> {<<"r", "a", "d">>}, tags |-> {}, limit |-> 5],
     [words |-> {}, tags |-> {}, limit |-> 5]}

-----------------------------------------------------------------------------

Init ==
    /\ subject \in Subjects
    /\ ChainInit /\ SearchInit /\ OutInit
    /\ subject # "output" => request = CHOOSE i \in Inputs : TRUE

Running(A) == subject = "chain" /\ A /\ UNCHANGED <<outVars, searchVars, subject>>
Showing(A) == subject = "output" /\ A /\ UNCHANGED <<chainVars, searchVars, subject>>
Searching(A) == subject = "search" /\ A /\ UNCHANGED <<chainVars, outVars, subject>>

Next == Running(ChainNext) \/ Showing(OutNext) \/ Searching(SearchNext)

vars == <<chainVars, outVars, searchVars, subject>>

\* ChainFairness, where its module runs.
Fairness ==
    \A c \in Chains :
        /\ WF_vars(Running(TakePermit(c) \/ LoadModule(c) \/ CallStep(c) \/ Finish(c)))
        /\ WF_vars(Running(PermitTimeout(c))) /\ WF_vars(Running(ScriptTimeout(c)))

Spec == Init /\ [][Next]_vars /\ Fairness
=============================================================================
