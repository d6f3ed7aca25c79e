----------------------------- MODULE MCDiscovery -----------------------------
(* Instances of Discovery for TLC. *)
EXTENDS Discovery

CONSTANTS i1, i2, kServer, kPort

TwoKeys == <<kServer, kPort>>

\* A server with white space around it, and a port.
SetServerAndPort ==
    { <<kServer, [text |-> "url", padded |-> TRUE]>>, <<kPort, [text |-> "url", padded |-> FALSE]>> }

\* "Cam" is part of "Cam 2".
CamNames == <<"Cam", "Cam 2">>
CamContains == {<<"Cam", "Cam">>, <<"Cam 2", "Cam">>, <<"Cam 2", "Cam 2">>}

\* Both instances register "Cam", only i1 registers "Cam 2".
SharedName == [i \in Instances |-> IF i = i1 THEN {"Cam", "Cam 2"} ELSE {"Cam"}]

\* Only is what a filter does: on every list of up to four of two names.
ASSUME OnlyIsTheFilter ==
    \A k \in 0..4 : \A s \in [1..k -> Names] : \A S \in SUBSET Names :
        Only(s, S) = SelectSeq(s, LAMBDA n : n \in S)

FromDns == <<"lan", "loopback">>
FromServer == <<"relay", "lan">>

Budget(e, s, x, c, v) ==
    [edits |-> e, saves |-> s, crashes |-> x, calls |-> c, events |-> v]

\* Three calls; two calls with a network that changes; a crash after one call; and
\* the settings file, cut short at any point.
FourBudgets == {Budget(1, 0, 0, 3, 0), Budget(1, 0, 0, 2, 2), Budget(1, 0, 1, 2, 0), Budget(2, 2, 1, 0, 0)}

CallsOnly == {Budget(0, 0, 0, 2, 0)}
=============================================================================
