--------------------------- MODULE MCActionLifecycle ---------------------------
\* The instances of ActionLifecycle that TLC checks.
EXTENDS ActionLifecycle, TLC

\* Actions and workers are interchangeable in the safety properties.
ActionSymmetry == Permutations(Actions) \cup Permutations(Workers)
=============================================================================
