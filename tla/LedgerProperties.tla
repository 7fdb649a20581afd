-------------------------- MODULE LedgerProperties --------------------------
(* What the ledgers of a mesh owe its operators. *)
EXTENDS Ledger

Newest(m) == {b \in Boxes : \A p \in Boxes : decided[p][m].made <= decided[b][m].made}

(* "updated_at wins": a gateway never goes back to a decision that was made *)
(* on its own box and has since been replaced there, whatever the clocks of *)
(* the others show, over however many boxes the old decision comes back,    *)
(* and whatever came between.  Of the decisions of another box this cannot  *)
(* be said, see RevokedIsRefused.                                           *)
OwnDecisionStands ==
  \A b \in Boxes, m \in Names :
    Made(b, entries[b][m]) => entries[b][m].made >= decided[b][m].made

(* When the operators have finished, the boxes come to agree, and save what *)
(* they agree on, although saves overtake each other and gateways restart.  *)
LedgersConverge ==
  <>[](\A b, p \in Boxes : entries[b] = entries[p] /\ disk[b] = entries[b])

(* A box refuses a name that its own operator revoked until somebody        *)
(* approves it again: no ledger fetched later brings an older approval back *)
(* ("a name with a lapsed or revoked approval is refused").                 *)
RevokedIsRefused ==
  \A m \in Names : \A b \in Newest(m) :
    decided[b][m].made > 0 /\ decided[b][m].expiry = 0 => ~Admits(b, m)

(* approve_and_save, revoke_and_save: "so a concurrent approve/revoke/save  *)
(* can never interleave with this mutation": a decision that was answered   *)
(* is in the file, or a later one is.                                       *)
DecisionIsSaved ==
  \A b \in Boxes, m \in Names : disk[b][m].made >= decided[b][m].made
=============================================================================
