---------------------------- MODULE MCWorkloadChange ----------------------------
\* The instance of WorkloadChange that TLC checks: a cluster in order, one that
\* app-interface does not have, and secrets that cannot be read, for ever or not.
EXTENDS WorkloadChange

Token(mount, kv, version, access, fields) ==
  [listed |-> TRUE, tokens |-> {[mount |-> mount, kv |-> kv, version |-> version,
                                 access |-> access, fields |-> fields]}]
MCClusters ==
  { Token(TRUE, 2, "LATEST", "granted", {"token"}),
    Token(TRUE, 2, "LATEST", "forbidden", {"token"}),
    Token(TRUE, 1, "LATEST", "absent", {}),
    Token(FALSE, 2, "LATEST", "granted", {"token"}),
    [listed |-> FALSE, tokens |-> {}] }
=============================================================================
