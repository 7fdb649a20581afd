------------------------------- MODULE Ledger -------------------------------
(***************************************************************************)
(* The approval ledgers of the boxes of a mesh                             *)
(* (lobes/gateway/_mesh_roster.py, class Ledger), with the routes that     *)
(* change them (lobes/gateway/_mesh_routes.py): an operator approves or    *)
(* revokes a name on one box, every heartbeat fetches the ledgers of the   *)
(* box's seeds, merges and saves them, and a box that restarts loads what  *)
(* it saved.                                                               *)
(*                                                                         *)
(* Every box stamps its entries with its own time.monotonic(), which       *)
(* counts from the boot of its machine: Clock.                             *)
(***************************************************************************)
EXTENDS Naturals

CONSTANTS
  Boxes,
  Names,         \* the names that are approved and revoked
  Seeds,         \* [Boxes -> SUBSET Boxes]: MeshConfig.seeds
  Uptime,        \* [Boxes -> Nat]: the monotonic clock of each box at time 0
  Duration,      \* how long an approval lasts
  MaxTime,       \* bound: time, and with it how many decisions are made
  MaxRestarts    \* bound: restarts of a gateway

ASSUME LedgerAssumption ==
  /\ Seeds \in [Boxes -> SUBSET Boxes]
  /\ Uptime \in [Boxes -> Nat]
  /\ Duration \in Nat \ {0}
  /\ MaxTime \in Nat
  /\ MaxRestarts \in Nat

VARIABLES
  now,        \* real time
  entries,    \* Ledger.entries of each box
  disk,       \* the file at Ledger.path
  fetch,      \* what the thread that fetches from a seed is doing, and the
              \* ledger it carries: the seed's to merge, its own to save
  decided,    \* history: the last decision that was made on each box itself
              \* since its gateway started, or that it then found on disk
  restarts    \* counts what MaxRestarts bounds

vars == <<now, entries, disk, fetch, decided, restarts>>

(* made and by are history: the real time of the decision and the box it    *)
(* was made on.  The program compares updatedAt only.                       *)
Entry == [expiry : Nat, updatedAt : Nat, made : 1..MaxTime, by : Boxes]
NoEntry == [expiry |-> 0, updatedAt |-> 0, made |-> 0]
Ledgers == [Names -> Entry \cup {NoEntry}]

Blank == [m \in Names |-> NoEntry]
Resting == [at |-> "rest", ledger |-> Blank]
Stations == {"rest", "merge", "save", "replace"}

TypeOK ==
  /\ now \in 0..MaxTime
  /\ entries \in [Boxes -> Ledgers]
  /\ disk \in [Boxes -> Ledgers]
  /\ fetch \in [Boxes -> [Boxes -> [at : Stations, ledger : Ledgers]]]
  /\ \A b, s \in Boxes :
       /\ fetch[b][s].at \in {"rest", "save"} => fetch[b][s].ledger = Blank
       /\ fetch[b][s].at # "rest" => s \in Seeds[b]
  /\ decided \in [Boxes -> Ledgers]
  /\ restarts \in 0..MaxRestarts

Init ==
  /\ now = 0
  /\ entries = [b \in Boxes |-> Blank]
  /\ disk = [b \in Boxes |-> Blank]
  /\ fetch = [b \in Boxes |-> [s \in Boxes |-> Resting]]
  /\ decided = [b \in Boxes |-> Blank]
  /\ restarts = 0

-----------------------------------------------------------------------------
Clock(b) == now + Uptime[b]

IsApproved(b, m) == entries[b][m].expiry > Clock(b)

(* An absent entry is no restriction. *)
Admits(b, m) == entries[b][m] = NoEntry \/ IsApproved(b, m)

Wins_LastHeard(theirs, mine) == theirs # NoEntry

(* Whether an entry of a peer replaces one's own. *)
Wins(theirs, mine) ==
  theirs # NoEntry /\ (mine = NoEntry \/ theirs.updatedAt > mine.updatedAt)

Merged(mine, theirs) ==
  [m \in Names |-> IF Wins(theirs[m], mine[m]) THEN theirs[m] ELSE mine[m]]

-----------------------------------------------------------------------------
(* The operator.  Two decisions are never made at the same moment, and the  *)
(* change and its save are one transaction under the lock of the ledger.    *)
(* The decision counts on its box, whatever stamp the entry before it has.  *)

Decide(b, m, expiry) ==
  LET entry == [expiry |-> expiry, updatedAt |-> Clock(b)', made |-> now', by |-> b]
  IN  /\ now < MaxTime /\ now' = now + 1
      /\ entries' = [entries EXCEPT ![b][m] = entry]
      /\ disk' = [disk EXCEPT ![b] = entries'[b]]
      /\ decided' = [decided EXCEPT ![b][m] = entry]
      /\ UNCHANGED <<fetch, restarts>>

Approve(b, m) == Decide(b, m, Clock(b)' + Duration)
Revoke(b, m) == Decide(b, m, 0)

-----------------------------------------------------------------------------
(* A heartbeat: one thread per seed, each with a ledger of its own.         *)

(* GET /mesh/roster of the seed. *)
FetchSeed(b, s) ==
  /\ s \in Seeds[b] /\ fetch[b][s].at = "rest"
  /\ fetch' = [fetch EXCEPT ![b][s] = [at |-> "merge", ledger |-> entries[s]]]
  /\ UNCHANGED <<now, entries, disk, decided, restarts>>

(* An empty ledger is neither merged nor saved. *)
MergeSeed(b, s) ==
  /\ fetch[b][s].at = "merge"
  /\ entries' = [entries EXCEPT ![b] = Merged(entries[b], fetch[b][s].ledger)]
  /\ fetch' = [fetch EXCEPT ![b][s] =
                 [at |-> IF fetch[b][s].ledger = Blank THEN "rest" ELSE "save",
                  ledger |-> Blank]]
  /\ UNCHANGED <<now, disk, decided, restarts>>

(* save copies the entries under the lock ... *)
Save(b, s) ==
  /\ fetch[b][s].at = "save"
  /\ fetch' = [fetch EXCEPT ![b][s] = [at |-> "replace", ledger |-> entries[b]]]
  /\ UNCHANGED <<now, entries, disk, decided, restarts>>

Replace_Never(b, s) ==
  /\ fetch[b][s].at = "replace"
  /\ fetch' = [fetch EXCEPT ![b][s] = Resting]
  /\ UNCHANGED <<now, entries, disk, decided, restarts>>

(* ... and writes the copy after it has let go of it.  The file is replaced *)
(* as a whole.                                                              *)
Replace(b, s) ==
  /\ fetch[b][s].at = "replace"
  /\ disk' = [disk EXCEPT ![b] = fetch[b][s].ledger]
  /\ fetch' = [fetch EXCEPT ![b][s] = Resting]
  /\ UNCHANGED <<now, entries, decided, restarts>>

-----------------------------------------------------------------------------
Made(b, entry) == entry # NoEntry /\ entry.by = b

(* The gateway of a box is started again, in a moment in which no request   *)
(* reaches it, and loads the file; its machine stays up.                    *)
Restart(b) ==
  /\ restarts < MaxRestarts /\ restarts' = restarts + 1
  /\ entries' = [entries EXCEPT ![b] = disk[b]]
  /\ fetch' = [fetch EXCEPT ![b] = [s \in Boxes |-> Resting]]
  /\ decided' = [decided EXCEPT ![b] =
                   [m \in Names |-> IF Made(b, disk[b][m]) THEN disk[b][m] ELSE NoEntry]]
  /\ UNCHANGED <<now, disk>>

Elapse ==
  /\ now < MaxTime /\ now' = now + 1
  /\ UNCHANGED <<entries, disk, fetch, decided, restarts>>

-----------------------------------------------------------------------------
Operator == \E b \in Boxes, m \in Names : Approve(b, m) \/ Revoke(b, m)

Heartbeat(b, s) == FetchSeed(b, s) \/ MergeSeed(b, s) \/ Save(b, s) \/ Replace(b, s)

Next ==
  \/ Operator
  \/ \E b, s \in Boxes : Heartbeat(b, s)
  \/ \E b \in Boxes : Restart(b)
  \/ Elapse

Spec == Init /\ [][Next]_vars

(* The heartbeat goes on for as long as the gateway runs. *)
Fairness == \A b, s \in Boxes : WF_vars(Heartbeat(b, s))

FairSpec == Spec /\ Fairness
=============================================================================
