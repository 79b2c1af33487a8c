--------------------------- MODULE MCWatchManager ---------------------------
(* Instances of WatchManager for TLC: a long poll and a stream, one of them  *)
(* on the namespace above the other's.                                       *)
EXTENDS WatchManager, TLC

CONSTANTS poll, stream, app, web

App == <<"app">>
Prod == <<"app", "prod">>
Sibling == <<"apps">>

PollAndStream == {poll, stream}
TheStream == {stream}
WatchAppAndAny == poll :> App @@ stream :> Wildcard

TwoNotifiers == {app, web}
ChangeProdAndSibling == app :> Prod @@ web :> Sibling
TwoAndOne == app :> 2 @@ web :> 1
============================================================================
