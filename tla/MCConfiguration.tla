--------------------------- MODULE MCConfiguration ---------------------------
(* What decides which backends run, and as whom: the configuration as it is *)
(* loaded, its reloads beside the meta tools, the cached tools, and the     *)
(* tokens.  A behaviour is about one of them.                               *)
EXTENDS ConfigLoad, Reload, ToolCache, OAuth, TLC

CONSTANT Subjects

VARIABLE subject

\* Secrets of several cells, of none and of one.
K == Ref("bws", <<"project", "p", "key", "k">>)
L == Ref("bws", <<"project", "p", "key", "a", "b">>)
M == Ref("bws", <<"project", "p", "key", "missing">>)
V == Var("V")
SomeProjects == <<[name |-> "p", id |-> 1], [name |-> "q", id |-> 2], [name |-> "p", id |-> 3]>>
SomeSecrets == <<[project |-> Some(3), key |-> <<"k">>, value |-> <<Plain("s"), Plain("t")>>],
                 [project |-> Some(3), key |-> <<"a", "b">>, value |-> <<>>],
                 [project |-> Some(1), key |-> <<"k">>, value |-> <<Plain("other")>>],
                 [project |-> Nil, key |-> <<"k">>, value |-> <<Plain("none")>>]>>

Shell == "k" :> <<Plain("e")>> @@ "BWS_ACCESS_TOKEN" :> <<Plain("x")>> @@ "BWS_ORG_ID" :> <<Plain("y")>>
Dotenvs ==
    {<<[file |-> 1, exists |-> TRUE, lines |-> << <<"V", <<Plain("1")>> >>, <<"k", <<Plain("2")>> >> >>],
       [file |-> 2, exists |-> x, lines |-> << <<"V", <<K>> >> >>],
       [file |-> 1, exists |-> TRUE, lines |-> << <<"V", <<>> >> >>]>> : x \in BOOLEAN}

Remote == "transport" :> "streamable-http" @@ "url" :> Some("url")
AFile(url, strict, bws, n, unit, backend) ==
    [texts |-> [url |-> url, cwd |-> <<K>>], strict |-> strict, bws |-> bws,
     timeout |-> [n |-> n, unit |-> unit], backend |-> backend, sandbox |-> <<>>,
     access_token |-> Nil, organization_id |-> Nil]
SomeFiles ==
    {AFile(url, FALSE, bws, 5, "s", Remote) :
        url \in {<<K, Plain("c"), K>>, <<V, L, M>>, <<Var("unset")>>}, bws \in BOOLEAN}
    \cup {AFile(<<V, L>>, TRUE, TRUE, 1, "h", Remote), AFile(<<K, M>>, TRUE, TRUE, 20, "h", Remote),
          AFile(<<M>>, FALSE, FALSE, 120, "bare", Remote), AFile(<<Plain("c")>>, FALSE, FALSE, 1, "d", Remote),
          AFile(<<Ref("env", <<"k">>)>>, FALSE, FALSE, 1, "m", Remote),
          AFile(<<K>>, FALSE, FALSE, 1, "m", <<>>),
          AFile(<<K>>, FALSE, FALSE, 1, "m", Remote @@ "max_concurrent_calls" :> Some(20000))}

\* Everything they are made of.
SomeVariables == {"V", "k", "BWS_ACCESS_TOKEN", "BWS_ORG_ID"}
SomeCells ==
    {K, L, M, V, Var("unset"), Ref("env", <<"k">>)}
    \cup {Plain(c) : c \in {"s", "t", "other", "none", "e", "x", "y", "1", "2", "c"}}

AFirst(S) == CHOOSE x \in S : TRUE

Init ==
    /\ subject \in Subjects
    /\ ConfigInit /\ ReloadInit /\ CacheInit /\ OAuthInit
    /\ subject # "load" => onDisk = AFirst(ConfigFiles) /\ dotenv = AFirst(DotenvFiles)
    /\ subject # "cache" => ~parallel
    /\ subject # "tokens" => ~together

Loading(A) == subject = "load" /\ A /\ UNCHANGED <<reloadVars, toolCacheVars, oauthVars, subject>>
Reloading(A) == subject = "reload" /\ A /\ UNCHANGED <<configVars, toolCacheVars, oauthVars, subject>>
Caching(of, A) == subject = of /\ A /\ UNCHANGED <<configVars, reloadVars, oauthVars, subject>>
Authorizing(A) == subject = "tokens" /\ A /\ UNCHANGED <<configVars, reloadVars, toolCacheVars, subject>>

Next ==
    \/ Loading(ConfigNext) \/ Reloading(ReloadNext) \/ Authorizing(OAuthNext)
    \/ Caching("cache", FileNext) \/ Caching("tracker", TrackerNext)

vars == <<configVars, reloadVars, toolCacheVars, oauthVars, subject>>

\* ReloadFairness, where its module runs.
Spec == Init /\ [][Next]_vars /\ WF_vars(Reloading(WatcherStep))
=============================================================================
