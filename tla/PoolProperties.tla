---------------------------- MODULE PoolProperties ----------------------------
(* What the replica pool owes its callers and its replicas. *)
EXTENDS Pool

Outstanding(o) == {r \in Requests : request[r].at \in {"dial", "relay"} /\ request[r].replica = o}

(* A dispatch is in the ledger while its request is at the replica. *)
LedgerIsExact ==
  \A r \in Requests, o \in Boxes : token[r][o] # "none" <=> r \in Outstanding(o)

(* However old the probe and whatever it missed, a replica is taken to be   *)
(* at least as loaded as the requests this gateway has there make it: the   *)
(* requests of a burst do not all go to one.                                *)
NeverUndercounts == \A o \in Boxes : Active(o) >= Cardinality(Outstanding(o))

(* And not to be more loaded than they do, but for what the last probe saw  *)
(* there and could not know of: no dispatch that has ended, failed or       *)
(* timed out makes a box look full.                                         *)
NeverOvercounts ==
  \A o \in Boxes : Active(o) <= Cardinality(Outstanding(o)) + snapshot[o].blind

(* Every request ends, however its replicas fail. *)
EveryRequestEnds ==
  \A r \in Requests : request[r].at # "idle" ~> request[r].at = "idle"

-----------------------------------------------------------------------------
(* "A replica that refused, timed out, or answered 5xx before any bytes     *)
(* came back never served the request": a request is on one engine at most. *)
ServedOnce == \A r \in Requests : Cardinality(engine[r]) <= 1
=============================================================================
