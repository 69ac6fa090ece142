---------------------------- MODULE MCCollection ----------------------------
(* Instances of Collection for TLC: a page whose versions each add a record,   *)
(* the third behind the texts that are hashed, and a channel.                  *)
EXTENDS Collection, TLC

MCFeed    == [v \in 1..Versions |-> 1..v]
MCDigest  == [v \in 1..Versions |-> IF v = 3 THEN 2 ELSE v]
MCSources == <<"page", "channel">>
MCPage    == <<"page">>
MCChannel == <<"channel">>
MCItems   ==
    {<<s, n>> : s \in Pages, n \in 1..Versions}
    \cup {<<s, n>> : s \in Channels, n \in (1..Messages) \ Blank}
MCUnsafe  == {<<"page", 1>>}
MCNone    == {}
============================================================================
