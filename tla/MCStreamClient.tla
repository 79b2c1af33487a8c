--------------------------- MODULE MCStreamClient ---------------------------
(* An instance of StreamClient for TLC: buffers of one, and a third change    *)
(* that is too long.                                                          *)
EXTENDS StreamClient

TheThird == {3}
NoLong == {}
============================================================================
