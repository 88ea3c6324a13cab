-------------------------------- MODULE CDN --------------------------------
(***************************************************************************)
(* Table cdn_hosts: the hostnames in front of the node, each switched on   *)
(* or off and set to the transports it carries, and what the CDN page does *)
(* to it.  Subscription reads the table, Dashboard writes to it from the   *)
(* environment and from backups.                                           *)
(***************************************************************************)
CONSTANTS
  Host,     \* CDN hostnames
  Pick      \* transports the operator sets hosts to

Transport == {"ws", "grpc", "both", "xhttp", "wsxhttp"}

ASSUME PickAssumption == Pick \subseteq Transport

VARIABLE cdn   \* [Host -> CDNHost] table cdn_hosts

CDNHost == [known: BOOLEAN, enabled: BOOLEAN, transport: Transport]
NoHost == [known |-> FALSE, enabled |-> FALSE, transport |-> "wsxhttp"]

(* Mutation: a new host has no transport.                                  *)
AddCDNHostBare(h) ==
  cdn' = IF cdn[h].known THEN cdn
         ELSE [cdn EXCEPT ![h] = [known |-> TRUE, enabled |-> TRUE, transport |-> ""]]

(* Mutation: adding a host again switches it on.                           *)
AddCDNHostEnables(h) ==
  cdn' = IF cdn[h].known THEN [cdn EXCEPT ![h].enabled = TRUE]
         ELSE [cdn EXCEPT ![h] = [known |-> TRUE, enabled |-> TRUE, transport |-> "wsxhttp"]]

(* A known host stays as it is; a new one gets the column's default.       *)
AddCDNHost(h) ==
  cdn' = IF cdn[h].known THEN cdn
         ELSE [cdn EXCEPT ![h] = [known |-> TRUE, enabled |-> TRUE, transport |-> "wsxhttp"]]

ToggleCDNHost(h) == cdn[h].known /\ cdn' = [cdn EXCEPT ![h].enabled = ~@]

SetCDNHostTransport(h, t) == cdn[h].known /\ cdn' = [cdn EXCEPT ![h].transport = t]

DeleteCDNHost(h) == cdn' = [cdn EXCEPT ![h] = NoHost]
============================================================================
