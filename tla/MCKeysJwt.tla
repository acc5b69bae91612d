------------------------------ MODULE MCKeysJwt ------------------------------
(* Instances of KeysJwt for TLC. *)
EXTENDS KeysJwt

MCRoles == <<"admin", "proxy">>

\* An empty namespace, and one where the key pair is there and any of the tokens.
MCNamespaces ==
  {f \in [Secrets -> {0, 1}] : (\A s \in Secrets : f[s] = 0) \/ (\A s \in KeySecrets : f[s] = 1)}
==============================================================================
