------------------------------- MODULE MCRdsPower -------------------------------
\* The instance of RdsPower that TLC checks: pairs of actions that meet.
EXTENDS RdsPower, TLC

CONSTANTS a1, a2

Pair(g, h) == (a1 :> g) @@ (a2 :> h)
MCMissions ==
  { Pair("available", "stopped"),
    Pair("available", "reboot"),
    Pair("snapshot", "snapshot") }
=============================================================================
