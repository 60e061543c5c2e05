--------------------------------- MODULE Lookups ---------------------------------
(***************************************************************************)
(* What a task asks before it can do anything: the cluster and its token   *)
(* in app-interface (GraphQL), the secret in Vault.  Nothing is written;   *)
(* what matters to the task is how a look-up ends:                         *)
(*                                                                         *)
(*   "ok"     it has the data                                              *)
(*   "retry"  an exception of autoretry_for (VaultError)                   *)
(*   "fatal"  any other exception                                          *)
(*                                                                         *)
(* A secret is a record:                                                   *)
(*   mount    sys/mounts/<mount point>/tune can be read                    *)
(*   kv       the version of the mount's secrets engine, 1 or 2            *)
(*   version  what app-interface names: a number, "LATEST", or "None",     *)
(*            which is what str() makes of an absent one                   *)
(*   access   Vault's answer: "granted", "forbidden", or "absent" for a    *)
(*            path or version it does not have (hvac's InvalidPath)        *)
(*   fields   the keys of the secret that have a value                     *)
(***************************************************************************)
EXTENDS Naturals

\* Mutant of ReadSecretV2: hvac's Forbidden, a VaultError, is let through.
ReadSecretV2Unguarded(secret) ==
  IF secret.version = "None" THEN "fatal"
  ELSE [granted |-> "ok", forbidden |-> "retry", absent |-> "fatal"][secret.access]

\* int("None") raises; the check for a version that is None never applies.
\* InvalidPath and Forbidden become exceptions of the client's own.
ReadSecretV2(secret) ==
  IF secret.version = "None" THEN "fatal"
  ELSE [granted |-> "ok", forbidden |-> "fatal", absent |-> "fatal"][secret.access]

\* The version is not used.  InvalidPath is not caught: it is a VaultError.
ReadSecretV1(secret) ==
  [granted |-> "ok", forbidden |-> "fatal", absent |-> "retry"][secret.access]

\* An error of the mount's configuration is a VaultError, too.
ReadSecret(secret) ==
  IF ~ secret.mount THEN "retry"
  ELSE IF secret.kv = 2 THEN ReadSecretV2(secret) ELSE ReadSecretV1(secret)

\* The cluster is a record: listed, whether app-interface has it, and tokens,
\* the set of its automation token: one secret or none.
GetClusterConnectionData(cluster) ==
  IF ~ cluster.listed \/ cluster.tokens = {} THEN "fatal"
  ELSE LET secret == CHOOSE s \in cluster.tokens : TRUE
           answer == ReadSecret(secret)
       IN IF answer = "ok" /\ "token" \notin secret.fields THEN "fatal" ELSE answer
=============================================================================
