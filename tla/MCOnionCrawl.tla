---------------------------- MODULE MCOnionCrawl ----------------------------
(* An instance of OnionCrawl for TLC: page 2 is one link away from the seed    *)
(* and two over page 3, page 4 is two away over page 2, and page 3 links back  *)
(* to the seed; page 5 has no text.                                            *)
EXTENDS OnionCrawl, TLC

MCLinks == 1 :> <<2, 3, 5>> @@ 2 :> <<4>> @@ 3 :> <<1, 2>> @@ 4 :> <<>> @@ 5 :> <<4>>
MCItems == {<<u, v>> \in Urls \X (1..Versions) : v = 1 \/ u \in Changing}
MCUnsafe == {<<2, 1>>}
============================================================================
