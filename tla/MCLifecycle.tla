---------------------------- MODULE MCLifecycle ----------------------------
(* Instances of Lifecycle for TLC: keys of every outcome (configured in either *)
(* way, refused, random), or one that is set.                                 *)
EXTENDS Lifecycle, TLC

CONSTANTS s1, s2, i1, i2, r1

TwoServers == {s1, s2}
OneServer == {s1}
TwoInits == {i1, i2}
OneInit == {i1}
OneRequest == {r1}

AnyEnvKey == {"unset", "long"}
AnyKeyFile == {"no flag", "short", "long"}
LongKey == {"long"}
NoFlag == {"no flag"}
============================================================================
