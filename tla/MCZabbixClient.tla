-------------------------- MODULE MCZabbixClient --------------------------
(* Small instances of ZabbixClient for TLC. *)
EXTENDS ZabbixClient

AnyKind == {"write", "read", "version", "zone", "check"}

WriteOnly == {"write"}
=============================================================================
