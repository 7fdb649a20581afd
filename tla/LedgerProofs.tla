---------------------------- MODULE LedgerProofs ----------------------------
(***************************************************************************)
(* Proofs about the approval ledgers, whatever the clocks of the machines  *)
(* show: what the merge does to every pair of ledgers, and that no box     *)
(* goes back to a decision its own operator has replaced.                  *)
(***************************************************************************)
EXTENDS LedgerProperties, TLAPS

-----------------------------------------------------------------------------
(* The merge. *)

(* The result of a merge is a ledger. *)
LEMMA MergedIsLedger ==
  ASSUME NEW mine \in Ledgers, NEW theirs \in Ledgers
  PROVE  Merged(mine, theirs) \in Ledgers
BY DEF Ledgers, Merged

(* Merging the same ledger again changes nothing: a fetch may be repeated.  *)
LEMMA MergeIsIdempotent ==
  ASSUME NEW mine \in Ledgers, NEW theirs \in Ledgers
  PROVE  Merged(Merged(mine, theirs), theirs) = Merged(mine, theirs)
<1>. SUFFICES ASSUME NEW m \in Names
              PROVE  Merged(Merged(mine, theirs), theirs)[m] = Merged(mine, theirs)[m]
  BY DEF Merged
<1>1. Merged(mine, theirs)[m] = IF Wins(theirs[m], mine[m]) THEN theirs[m] ELSE mine[m]
  BY DEF Merged
<1>2. theirs[m].updatedAt \in Nat /\ mine[m].updatedAt \in Nat
  BY DEF Ledgers, Entry, NoEntry
<1>3. ~Wins(theirs[m], theirs[m])
  BY <1>2 DEF Wins
<1>. QED BY <1>1, <1>3 DEF Merged

LEMMA BlankIsLedger == Blank \in Ledgers
BY DEF Blank, Ledgers

-----------------------------------------------------------------------------
(* Types. *)

(* A decision leaves ledgers behind. *)
LEMMA DecideKeepsType ==
  ASSUME TypeOK, NEW b \in Boxes, NEW m \in Names, NEW expiry \in Nat, Decide(b, m, expiry)
  PROVE  TypeOK'
<1>1. now' \in 1..MaxTime /\ Clock(b)' \in Nat
  <2>1. now < MaxTime /\ now' = now + 1
    BY DEF Decide
  <2>2. now \in 0..MaxTime /\ MaxTime \in Nat /\ Uptime[b] \in Nat
    BY LedgerAssumption DEF LedgerAssumption, TypeOK
  <2>. QED BY <2>1, <2>2 DEF Clock
<1>. DEFINE entry == [expiry |-> expiry, updatedAt |-> Clock(b)', made |-> now', by |-> b]
<1>2. entry \in Entry
  BY <1>1 DEF Entry
<1>3. \A ledger \in Ledgers : [ledger EXCEPT ![m] = entry] \in Ledgers
  BY <1>2 DEF Ledgers
<1>4. /\ entries' = [entries EXCEPT ![b] = [entries[b] EXCEPT ![m] = entry]]
      /\ decided' = [decided EXCEPT ![b] = [decided[b] EXCEPT ![m] = entry]]
      /\ disk' = [disk EXCEPT ![b] = entries'[b]]
      /\ UNCHANGED <<fetch, restarts>>
  BY DEF Decide
<1>5. /\ entries[b] \in Ledgers /\ decided[b] \in Ledgers
      /\ [entries[b] EXCEPT ![m] = entry] \in Ledgers
      /\ [decided[b] EXCEPT ![m] = entry] \in Ledgers
  BY <1>3 DEF TypeOK
<1>. HIDE DEF entry
<1>6. entries' \in [Boxes -> Ledgers] /\ decided' \in [Boxes -> Ledgers]
  BY <1>4, <1>5 DEF TypeOK
<1>7. disk' \in [Boxes -> Ledgers]
  BY <1>4, <1>6 DEF TypeOK
<1>8. now' \in 0..MaxTime
  BY <1>1
<1>. QED BY <1>4, <1>6, <1>7, <1>8 DEF TypeOK

LEMMA HeartbeatKeepsType ==
  ASSUME TypeOK, NEW b \in Boxes, NEW s \in Boxes, Heartbeat(b, s)
  PROVE  TypeOK'
<1>1. fetch[b][s].ledger \in Ledgers /\ entries[s] \in Ledgers /\ entries[b] \in Ledgers
  BY DEF TypeOK
<1>2. CASE FetchSeed(b, s)
  BY <1>1, <1>2 DEF FetchSeed, TypeOK, Stations
<1>3. CASE MergeSeed(b, s)
  <2>1. Merged(entries[b], fetch[b][s].ledger) \in Ledgers
    BY <1>1, MergedIsLedger
  <2>. QED BY <1>3, <2>1, BlankIsLedger DEF MergeSeed, TypeOK, Stations
<1>4. CASE Save(b, s)
  BY <1>1, <1>4 DEF Save, TypeOK, Stations
<1>5. CASE Replace(b, s)
  BY <1>1, <1>5, BlankIsLedger DEF Replace, Resting, TypeOK, Stations
<1>. QED BY <1>2, <1>3, <1>4, <1>5 DEF Heartbeat

(* What a gateway loads is a ledger, and so is what it takes for its own.   *)
LEMMA RestartKeepsType ==
  ASSUME TypeOK, NEW b \in Boxes, Restart(b)
  PROVE  TypeOK'
<1>1. restarts' \in 0..MaxRestarts
  BY LedgerAssumption DEF Restart, TypeOK, LedgerAssumption
<1>2. disk[b] \in Ledgers
  BY DEF TypeOK
<1>. DEFINE own == [m \in Names |-> IF Made(b, disk[b][m]) THEN disk[b][m] ELSE NoEntry]
<1>3. own \in Ledgers
  BY <1>2 DEF Ledgers
<1>4. decided' = [decided EXCEPT ![b] = own]
  BY DEF Restart
<1>. HIDE DEF own
<1>5. decided' \in [Boxes -> Ledgers]
  BY <1>3, <1>4 DEF TypeOK
<1>6. entries' \in [Boxes -> Ledgers]
  BY <1>2 DEF Restart, TypeOK
<1>. QED BY <1>1, <1>5, <1>6, BlankIsLedger DEF Restart, Resting, TypeOK, Stations

(* Types are kept whatever the clocks of the machines show, and whoever     *)
(* restarts (every write of Ledger.entries, and what save puts on disk).    *)
THEOREM TypeCorrect == Spec => []TypeOK
<1>1. Init => TypeOK
  BY LedgerAssumption, BlankIsLedger DEF Init, TypeOK, LedgerAssumption, Resting, Stations
<1>2. TypeOK /\ [Next]_vars => TypeOK'
  <2>. SUFFICES ASSUME TypeOK, [Next]_vars PROVE TypeOK'
    OBVIOUS
  <2>1. CASE Operator
    <3>1. PICK b \in Boxes, m \in Names : Approve(b, m) \/ Revoke(b, m)
      BY <2>1 DEF Operator
    <3>2. Clock(b)' + Duration \in Nat
      <4>1. \E expiry : Decide(b, m, expiry)
        BY <3>1 DEF Approve, Revoke
      <4>2. now' = now + 1
        BY <4>1 DEF Decide
      <4>. QED BY <4>2, LedgerAssumption DEF Clock, TypeOK, LedgerAssumption
    <3>3. \E expiry \in Nat : Decide(b, m, expiry)
      BY <3>1, <3>2 DEF Approve, Revoke
    <3>. QED BY <3>3, DecideKeepsType
  <2>2. CASE \E b, s \in Boxes : Heartbeat(b, s)
    BY <2>2, HeartbeatKeepsType
  <2>3. CASE \E b \in Boxes : Restart(b)
    BY <2>3, RestartKeepsType
  <2>4. CASE Elapse
    BY <2>4, LedgerAssumption DEF Elapse, TypeOK, LedgerAssumption
  <2>5. CASE UNCHANGED vars
    BY <2>5 DEF vars, TypeOK
  <2>. QED BY <2>1, <2>2, <2>3, <2>4, <2>5 DEF Next
<1>. QED BY <1>1, <1>2, PTL DEF Spec

-----------------------------------------------------------------------------
(* The inductive invariant. *)

(* An entry carries the time its maker's clock showed.                      *)
Stamped(ledger) ==
  \A m \in Names : ledger[m] # NoEntry =>
    ledger[m].updatedAt = ledger[m].made + Uptime[ledger[m].by]

AllStamped ==
  /\ \A b \in Boxes : Stamped(entries[b]) /\ Stamped(disk[b]) /\ Stamped(decided[b])
  /\ \A b, s \in Boxes : Stamped(fetch[b][s].ledger)

(* What a box holds has no smaller stamp than its own last decision: only   *)
(* its operator may lower a stamp, and that is then the last decision.      *)
Ahead(b) ==
  \A m \in Names : decided[b][m] # NoEntry =>
    /\ Made(b, decided[b][m])
    /\ entries[b][m] # NoEntry
    /\ entries[b][m].updatedAt >= decided[b][m].updatedAt

LedgerInv == TypeOK /\ AllStamped /\ \A b \in Boxes : Ahead(b)

(* What the fields of an entry are. *)
LEMMA EntryFields ==
  ASSUME NEW ledger \in Ledgers, NEW m \in Names
  PROVE  /\ ledger[m].made \in Nat /\ ledger[m].updatedAt \in Nat
         /\ ledger[m].expiry \in Nat
         /\ ledger[m] # NoEntry => ledger[m].by \in Boxes
BY LedgerAssumption DEF LedgerAssumption, Ledgers, Entry, NoEntry

LEMMA BlankIsStamped == Stamped(Blank)
BY DEF Stamped, Blank

(* A merge keeps the stamps, drops no entry, and lowers no stamp.           *)
LEMMA MergedIsAhead ==
  ASSUME NEW mine \in Ledgers, NEW theirs \in Ledgers, Stamped(mine), Stamped(theirs)
  PROVE  /\ Stamped(Merged(mine, theirs))
         /\ \A m \in Names : mine[m] # NoEntry =>
              /\ Merged(mine, theirs)[m] # NoEntry
              /\ Merged(mine, theirs)[m].updatedAt >= mine[m].updatedAt
<1>1. ASSUME NEW m \in Names
      PROVE  Merged(mine, theirs)[m] = IF Wins(theirs[m], mine[m]) THEN theirs[m] ELSE mine[m]
  BY DEF Merged
<1>2. Stamped(Merged(mine, theirs))
  BY <1>1 DEF Stamped
<1>3. ASSUME NEW m \in Names, mine[m] # NoEntry
      PROVE  /\ Merged(mine, theirs)[m] # NoEntry
             /\ Merged(mine, theirs)[m].updatedAt >= mine[m].updatedAt
  <2>1. mine[m].updatedAt \in Nat /\ theirs[m].updatedAt \in Nat
    BY EntryFields
  <2>2. CASE Wins(theirs[m], mine[m])
    BY <1>1, <1>3, <2>1, <2>2 DEF Wins
  <2>3. CASE ~Wins(theirs[m], mine[m])
    BY <1>1, <1>3, <2>1, <2>3
  <2>. QED BY <2>2, <2>3
<1>. QED BY <1>2, <1>3

LEMMA InitLedgerInv == Init => LedgerInv
<1>. SUFFICES ASSUME Init PROVE LedgerInv
  OBVIOUS
<1>1. TypeOK
  BY LedgerAssumption, BlankIsLedger DEF Init, TypeOK, LedgerAssumption, Resting, Stations
<1>2. AllStamped
  BY BlankIsStamped DEF Init, AllStamped, Resting
<1>3. \A b \in Boxes : Ahead(b)
  BY DEF Init, Ahead, Blank
<1>. QED BY <1>1, <1>2, <1>3 DEF LedgerInv

-----------------------------------------------------------------------------
(* One step of each kind. *)

(* The decision carries the clock of the box, and is what the box holds.    *)
LEMMA DecideKeepsInv ==
  ASSUME LedgerInv, NEW b \in Boxes, NEW m \in Names, NEW expiry \in Nat,
         Decide(b, m, expiry)
  PROVE  LedgerInv'
<1>. USE DEF LedgerInv
<1>1. TypeOK'
  BY DecideKeepsType
<1>2. now' \in Nat \ {0} /\ Uptime[b] \in Nat
  <2>1. now' = now + 1 /\ now \in Nat
    BY DEF Decide, TypeOK
  <2>. QED BY <2>1, LedgerAssumption DEF LedgerAssumption
<1>. DEFINE entry == [expiry |-> expiry, updatedAt |-> now' + Uptime[b], made |-> now', by |-> b]
<1>3. /\ entry.updatedAt = entry.made + Uptime[entry.by] /\ entry.updatedAt \in Nat
      /\ entry # NoEntry /\ Made(b, entry)
  BY <1>2 DEF NoEntry, Made
<1>4. /\ entries' = [entries EXCEPT ![b] = [entries[b] EXCEPT ![m] = entry]]
      /\ decided' = [decided EXCEPT ![b] = [decided[b] EXCEPT ![m] = entry]]
      /\ disk' = [disk EXCEPT ![b] = entries'[b]]
      /\ fetch' = fetch
  BY DEF Decide, Clock
<1>. HIDE DEF entry
<1>5. ASSUME NEW ledger \in Ledgers, Stamped(ledger)
      PROVE  Stamped([ledger EXCEPT ![m] = entry])
  BY <1>3, <1>5 DEF Stamped, Ledgers
<1>6. Stamped([entries[b] EXCEPT ![m] = entry]) /\ Stamped([decided[b] EXCEPT ![m] = entry])
  BY <1>5 DEF AllStamped, TypeOK
<1>7. AllStamped'
  BY <1>4, <1>6 DEF AllStamped, TypeOK
<1>8. ASSUME NEW p \in Boxes, NEW n \in Names, decided'[p][n] # NoEntry
      PROVE  /\ Made(p, decided'[p][n])
             /\ entries'[p][n] # NoEntry
             /\ entries'[p][n].updatedAt >= decided'[p][n].updatedAt
  <2>1. CASE <<p, n>> = <<b, m>>
    <3>1. entries'[p][n] = entry /\ decided'[p][n] = entry
      BY <1>4, <2>1 DEF TypeOK, Ledgers
    <3>. QED BY <1>3, <2>1, <3>1
  <2>2. CASE <<p, n>> # <<b, m>>
    <3>1. entries'[p][n] = entries[p][n] /\ decided'[p][n] = decided[p][n]
      BY <1>4, <2>2 DEF TypeOK, Ledgers
    <3>. QED BY <1>8, <3>1 DEF Ahead
  <2>. QED BY <2>1, <2>2
<1>9. \A p \in Boxes : Ahead(p)'
  BY <1>8 DEF Ahead
<1>. QED BY <1>1, <1>7, <1>9

(* What is on the way from a seed is stamped as well; an absent ledger is   *)
(* blank.                                                                   *)
LEMMA HeartbeatKeepsInv ==
  ASSUME LedgerInv, NEW b \in Boxes, NEW s \in Boxes, Heartbeat(b, s)
  PROVE  LedgerInv'
<1>. USE DEF LedgerInv
<1>1. TypeOK'
  BY HeartbeatKeepsType
<1>2. /\ entries[b] \in Ledgers /\ fetch[b][s].ledger \in Ledgers
      /\ Stamped(entries[b]) /\ Stamped(entries[s]) /\ Stamped(fetch[b][s].ledger)
  BY DEF TypeOK, AllStamped
<1>3. CASE FetchSeed(b, s)
  <2>1. \A p, r \in Boxes : Stamped(fetch'[p][r].ledger)
    BY <1>2, <1>3 DEF FetchSeed, TypeOK, AllStamped
  <2>. QED BY <1>1, <2>1, <1>3 DEF FetchSeed, AllStamped, Ahead
<1>4. CASE MergeSeed(b, s)
  <2>. DEFINE merged == Merged(entries[b], fetch[b][s].ledger)
  <2>1. /\ Stamped(merged)
        /\ \A m \in Names : entries[b][m] # NoEntry =>
             merged[m] # NoEntry /\ merged[m].updatedAt >= entries[b][m].updatedAt
    BY <1>2, MergedIsAhead
  <2>2. merged \in Ledgers
    BY <1>2, MergedIsLedger
  <2>3. /\ entries' = [entries EXCEPT ![b] = merged]
        /\ UNCHANGED <<disk, decided>>
    BY <1>4 DEF MergeSeed
  <2>4. \E at : fetch' = [fetch EXCEPT ![b][s] = [at |-> at, ledger |-> Blank]]
    BY <1>4 DEF MergeSeed
  <2>. HIDE DEF merged
  <2>5. AllStamped'
    <3>1. \A p \in Boxes : Stamped(entries'[p])
      BY <2>1, <2>3 DEF TypeOK, AllStamped
    <3>2. \A p, r \in Boxes : Stamped(fetch'[p][r].ledger)
      BY <2>4, BlankIsStamped DEF TypeOK, AllStamped
    <3>. QED BY <3>1, <3>2, <2>3 DEF AllStamped
  <2>6. ASSUME NEW m \in Names, decided[b][m] # NoEntry
        PROVE  merged[m] # NoEntry /\ merged[m].updatedAt >= decided[b][m].updatedAt
    <3>1. entries[b][m] # NoEntry /\ entries[b][m].updatedAt >= decided[b][m].updatedAt
      BY <2>6 DEF Ahead
    <3>2. /\ merged[m].updatedAt \in Nat /\ entries[b][m].updatedAt \in Nat
          /\ decided[b][m].updatedAt \in Nat
      BY <2>2, EntryFields DEF TypeOK
    <3>. QED BY <2>1, <3>1, <3>2
  <2>7. \A p \in Boxes : Ahead(p)'
    BY <2>3, <2>6 DEF Ahead, TypeOK
  <2>. QED BY <1>1, <2>5, <2>7
<1>5. CASE Save(b, s)
  <2>1. \A p, r \in Boxes : Stamped(fetch'[p][r].ledger)
    BY <1>2, <1>5 DEF Save, TypeOK, AllStamped
  <2>. QED BY <1>1, <2>1, <1>5 DEF Save, AllStamped, Ahead
<1>6. CASE Replace(b, s)
  <2>1. \A p \in Boxes : Stamped(disk'[p])
    BY <1>2, <1>6 DEF Replace, TypeOK, AllStamped
  <2>2. \A p, r \in Boxes : Stamped(fetch'[p][r].ledger)
    BY <1>6, BlankIsStamped DEF Replace, TypeOK, AllStamped, Resting
  <2>. QED BY <1>1, <2>1, <2>2, <1>6 DEF Replace, AllStamped, Ahead
<1>. QED BY <1>3, <1>4, <1>5, <1>6 DEF Heartbeat

(* A gateway that restarts answers for what it loads.                       *)
LEMMA RestartKeepsInv ==
  ASSUME LedgerInv, NEW b \in Boxes, Restart(b)
  PROVE  LedgerInv'
<1>. USE DEF LedgerInv
<1>1. TypeOK'
  BY RestartKeepsType
<1>2. /\ entries' = [entries EXCEPT ![b] = disk[b]] /\ disk' = disk
      /\ \A m \in Names : decided'[b][m] = IF Made(b, disk[b][m]) THEN disk[b][m] ELSE NoEntry
      /\ \A p \in Boxes \ {b} : decided'[p] = decided[p]
  BY DEF Restart, TypeOK
<1>3. \A p \in Boxes : Stamped(entries'[p]) /\ Stamped(decided'[p])
  <2>1. Stamped(entries'[b]) /\ Stamped(decided'[b])
    BY <1>2 DEF AllStamped, Stamped, TypeOK
  <2>2. \A p \in Boxes \ {b} : entries'[p] = entries[p]
    BY <1>2 DEF TypeOK
  <2>3. \A p \in Boxes \ {b} : Stamped(entries'[p]) /\ Stamped(decided'[p])
    BY <1>2, <2>2 DEF AllStamped
  <2>. QED BY <2>1, <2>3
<1>4. \A p, r \in Boxes : Stamped(fetch'[p][r].ledger)
  BY BlankIsStamped DEF Restart, TypeOK, AllStamped, Resting
<1>5. AllStamped'
  BY <1>2, <1>3, <1>4 DEF AllStamped
<1>6. Ahead(b)'
  <2>1. \A m \in Names : disk[b][m].updatedAt \in Nat
    BY EntryFields DEF TypeOK
  <2>. QED BY <1>2, <2>1 DEF Ahead, Made, TypeOK
<1>7. \A p \in Boxes \ {b} : Ahead(p)'
  BY <1>2 DEF Ahead, TypeOK
<1>. QED BY <1>1, <1>5, <1>6, <1>7

LEMMA StepKeepsInv == LedgerInv /\ [Next]_vars => LedgerInv'
<1>. SUFFICES ASSUME LedgerInv, [Next]_vars PROVE LedgerInv'
  OBVIOUS
<1>1. CASE Operator
  <2>1. PICK b \in Boxes, m \in Names : Approve(b, m) \/ Revoke(b, m)
    BY <1>1 DEF Operator
  <2>2. Clock(b)' + Duration \in Nat
    <3>1. \E expiry : Decide(b, m, expiry)
      BY <2>1 DEF Approve, Revoke
    <3>2. now' = now + 1
      BY <3>1 DEF Decide
    <3>. QED BY <3>2, LedgerAssumption DEF Clock, LedgerInv, TypeOK, LedgerAssumption
  <2>3. \E expiry \in Nat : Decide(b, m, expiry)
    BY <2>1, <2>2 DEF Approve, Revoke
  <2>. QED BY <2>3, DecideKeepsInv
<1>2. CASE \E b, s \in Boxes : Heartbeat(b, s)
  BY <1>2, HeartbeatKeepsInv
<1>3. CASE \E b \in Boxes : Restart(b)
  BY <1>3, RestartKeepsInv
<1>4. CASE Elapse
  BY <1>4, LedgerAssumption
  DEF Elapse, LedgerInv, TypeOK, AllStamped, Ahead, LedgerAssumption
<1>5. CASE UNCHANGED vars
  BY <1>5 DEF vars, LedgerInv, TypeOK, AllStamped, Ahead
<1>. QED BY <1>1, <1>2, <1>3, <1>4, <1>5 DEF Next

(* Whatever the clocks of the machines show, every stamp is its maker's,    *)
(* and no box holds less than its own last decision.                        *)
THEOREM LedgerInvariantHolds == Spec => []LedgerInv
BY InitLedgerInv, StepKeepsInv, PTL DEF Spec

-----------------------------------------------------------------------------
(* What the invariant is for: two decisions of one box were stamped by one  *)
(* clock, so the one with the greater stamp is the later one.               *)
LEMMA InvImpliesStands == LedgerInv => OwnDecisionStands
<1>. SUFFICES ASSUME LedgerInv, NEW b \in Boxes, NEW m \in Names, Made(b, entries[b][m])
              PROVE  entries[b][m].made >= decided[b][m].made
  BY DEF OwnDecisionStands
<1>. USE DEF LedgerInv
<1>1. /\ entries[b][m].made \in Nat /\ entries[b][m].updatedAt \in Nat
      /\ decided[b][m].made \in Nat /\ decided[b][m].updatedAt \in Nat
      /\ Uptime[b] \in Nat
  BY EntryFields, LedgerAssumption DEF TypeOK, LedgerAssumption
<1>2. CASE decided[b][m] = NoEntry
  BY <1>1, <1>2 DEF NoEntry
<1>3. CASE decided[b][m] # NoEntry
  <2>1. /\ Made(b, decided[b][m])
        /\ entries[b][m].updatedAt >= decided[b][m].updatedAt
    BY <1>3 DEF Ahead
  <2>2. /\ entries[b][m].updatedAt = entries[b][m].made + Uptime[b]
        /\ decided[b][m].updatedAt = decided[b][m].made + Uptime[b]
    BY <2>1 DEF AllStamped, Stamped, Made
  <2>. QED BY <1>1, <2>1, <2>2
<1>. QED BY <1>2, <1>3

(* With any number of boxes and names, any choice of seeds, any clocks and  *)
(* any restarts, no merge brings back a decision that the operator of the   *)
(* box has replaced.                                                        *)
THEOREM OwnDecisionStandsHolds == Spec => []OwnDecisionStands
BY LedgerInvariantHolds, InvImpliesStands, PTL
=============================================================================
