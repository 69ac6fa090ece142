------------------------------- MODULE MCDesk -------------------------------
(***************************************************************************)
(* The instances of what the analysts' side of the system is made of.  One *)
(* scenario per behaviour: the watchlists with the worker, the analysis    *)
(* and the dictionary; the dictionary by itself, with more edits; the      *)
(* analysis of any text; sessions; the rate limit; paging.  The last four  *)
(* share no state, so their behaviours are not interleaved.                *)
(***************************************************************************)
EXTENDS Watchlists, PostAnalysis, Sessions, RateLimit, Paging

VARIABLE scenario

SlangTerms == {<<"maal">>, <<"chai">>}
SlangMeanings == {<<"heroin">>, <<"tea">>}
SeedFile == <<"maal">> :> <<"heroin">>
StoredTexts == << <<"m44l">>, <<"wide-mdma">> >>
Monitored == {{<<"heroin">>}, {<<"mdma">>}}

Samples ==
    {"mdma", "wide-mdma", "m3th", "leaf-emoji", "plug-emoji", "m44l", "maall", "meow", "liquid",
     "ecstasy", "buyer@proton.me", "wide-buyer@proton.me", "9876543210", "ph:9876543210",
     "@milo99", "1BitcoinAddress", "vendor:", "m1lo", "by", "the", "selling", "$50", "weather",
     "forbidden", "nepal", "origin:", "adajan", "buyer@proton.me.", "zw-maal", "zw-mdma"}
\* Plain terms, and terms of the seed's kinds that are not: with a digit, an emoji,
\* a place.
Slang == <<"maal">> :> <<"heroin">> @@ <<"meow", "meow">> :> <<"mephedrone">>
         @@ <<"m3th">> :> <<"methamphetamine">> @@ <<"leaf-emoji">> :> <<"cannabis">>
         @@ <<"adajan">> :> <<"surat">>
\* A plain text that its disguises are not, and a disguised one that the plain text is not.
Prohibited == {<<"mdma">>, <<"m44l", "selling">>}

Alone == [origin  |-> [source |-> "telegram", age |-> "now", views |-> 0, followers |-> 20000,
                       hint |-> <<"surat">>],
          aids    |-> [spacy |-> FALSE, ml |-> NoModel, guess |-> "en"],
          earlier |-> {}]
Equipped == [origin  |-> [source |-> "tor_market", age |-> "old", views |-> 20000, followers |-> 0,
                          hint |-> <<>>],
             aids    |-> [spacy |-> TRUE, ml |-> [label |-> "UNRELATED", score |-> 900],
                          guess |-> "hi"],
             earlier |-> {[id |-> "e1", vendors |-> << <<"milo99">> >>, fingerprints |-> {},
                           wallets |-> {[chain |-> "BTC", address |-> "1BitcoinAddress"]}]}]
BothSettings == {Alone, Equipped}

Stored(id, at, aliases, whole) == [id |-> id, at |-> at, aliases |-> aliases, whole |-> whole]
SixRecords ==
    {Stored(1, 1, {1, 2}, TRUE), Stored(2, 1, {1}, TRUE), Stored(3, 1, {2}, FALSE),
     Stored(4, 2, {3}, TRUE), Stored(5, 2, {2, 3}, TRUE), Stored(6, 1, {1, 3}, TRUE)}

DeskInit ==
    /\ scenario \in {"watchlists", "dictionary", "analysis", "sessions", "limit", "paging"}
    /\ WatchInit /\ LexInit /\ SessionInit /\ LimitInit
    /\ IF scenario = "paging" THEN PagingInit
       ELSE records = {} /\ walk = NoWalk /\ listed = <<>> /\ start = {}
    /\ IF scenario = "analysis" THEN AnalysisInit
       ELSE post = Post(<<>>, Alone.origin) /\ setting = Alone /\ outcome = <<>>

\* Bound: one edit of the dictionary while the watchlists are exercised.
WatchScenario ==
    /\ scenario = "watchlists" /\ WatchNext /\ writes' <= 1
    /\ UNCHANGED <<scenario, analysisVars, sessionVars, limitVars, pagingVars>>
DictionaryScenario ==
    /\ scenario = "dictionary" /\ LexNext
    /\ UNCHANGED <<scenario, watchVars, analysisVars, sessionVars, limitVars, pagingVars>>
AnalysisScenario ==
    /\ scenario = "analysis" /\ Analyse
    /\ UNCHANGED <<scenario, watchVars, lexVars, sessionVars, limitVars, pagingVars>>
SessionScenario ==
    /\ scenario = "sessions" /\ SessionNext
    /\ UNCHANGED <<scenario, watchVars, lexVars, analysisVars, limitVars, pagingVars>>
LimitScenario ==
    /\ scenario = "limit" /\ LimitNext
    /\ UNCHANGED <<scenario, watchVars, lexVars, analysisVars, sessionVars, pagingVars>>
PagingScenario ==
    /\ scenario = "paging" /\ PagingNext
    /\ UNCHANGED <<scenario, watchVars, lexVars, analysisVars, sessionVars, limitVars>>

DeskNext ==
    \/ WatchScenario \/ DictionaryScenario \/ AnalysisScenario
    \/ SessionScenario \/ LimitScenario \/ PagingScenario

DeskSpec ==
    DeskInit /\ [][DeskNext]_<<scenario, watchVars, lexVars, analysisVars, sessionVars,
                                limitVars, pagingVars>>
=============================================================================
