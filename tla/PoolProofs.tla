------------------------------ MODULE PoolProofs ------------------------------
(***************************************************************************)
(* The requests of this gateway are never left out of the load of a        *)
(* replica, and stop counting when they have ended, for every number of    *)
(* requests and replicas, and however the probes fail or come late.        *)
(***************************************************************************)
EXTENDS PoolProperties, TLAPS, FiniteSetTheorems

LEMMA CountIsNat == ASSUME NEW S \in SUBSET Requests PROVE Cardinality(S) \in Nat
BY PoolAssumption, FS_Subset, FS_CardinalityType DEF PoolAssumption

LEMMA LessIsNat == ASSUME NEW m \in Nat, NEW n \in Nat PROVE Less(m, n) \in Nat
BY DEF Less

LEMMA IdleType == Idle \in Progress /\ Rest \in Probes /\ Unknown \in Snapshots
BY PoolAssumption DEF PoolAssumption, Idle, Progress, Rest, Probes, Unknown, Snapshots

-----------------------------------------------------------------------------
(* Types. *)

LEMMA InitType == Init => TypeOK
<1>. SUFFICES ASSUME Init PROVE TypeOK
  OBVIOUS
<1>1. PICK ready \in SUBSET Boxes :
        snapshot = [o \in Boxes |-> [Unknown EXCEPT !.ready = o \in ready]]
  BY DEF Init
<1>2. ASSUME NEW is \in BOOLEAN PROVE [Unknown EXCEPT !.ready = is] \in Snapshots
  BY DEF Snapshots, Unknown
<1>3. \A o \in Boxes : (o \in ready) \in BOOLEAN
  OBVIOUS
<1>4. snapshot \in [Boxes -> Snapshots]
  BY <1>1, <1>2, <1>3
<1>. QED BY <1>4, IdleType DEF Init, TypeOK, Dispatched

LEMMA EndedType ==
  ASSUME TypeOK, NEW r \in Requests, NEW o \in Boxes, Ended(r, o)
  PROVE  /\ token' \in [Requests -> [Boxes -> Dispatched \cup {"none"}]]
         /\ snapshot' \in [Boxes -> Snapshots]
         /\ probe' \in [Boxes -> Probes]
<1>1. token' \in [Requests -> [Boxes -> Dispatched \cup {"none"}]]
  BY DEF TypeOK, Ended
<1>2. snapshot' \in [Boxes -> Snapshots]
  <2>1. snapshot[o].load \in Nat
    BY DEF TypeOK, Snapshots
  <2>2. Less(snapshot[o].load, 1) \in Nat
    BY <2>1, LessIsNat
  <2>. QED BY <2>1, <2>2 DEF TypeOK, Ended, Snapshots
<1>3. probe' \in [Boxes -> Probes]
  <2>. DEFINE left == IF token[r][o] \in {"stamped", "old"} /\ probe[o].at = "stamped"
                      THEN Less(probe[o].load, 1) ELSE probe[o].load
  <2>1. left \in Nat
    BY LessIsNat DEF TypeOK, Probes
  <2>2. probe' = [probe EXCEPT ![o].own = @ \ {r}, ![o].load = left]
    BY DEF Ended
  <2>. HIDE DEF left
  <2>3. [probe[o] EXCEPT !.own = @ \ {r}, !.load = left] \in Probes
    BY <2>1 DEF TypeOK, Probes
  <2>4. probe' = [probe EXCEPT ![o] = [probe[o] EXCEPT !.own = @ \ {r}, !.load = left]]
    BY <2>2 DEF TypeOK
  <2>. QED BY <2>3, <2>4 DEF TypeOK
<1>. QED BY <1>1, <1>2, <1>3

LEMMA OverType ==
  ASSUME TypeOK, NEW r \in Requests, Over(r)
  PROVE  request' \in [Requests -> Progress] /\ engine' \in [Requests -> SUBSET Boxes]
BY IdleType DEF TypeOK, Over

LEMMA FailsToType ==
  ASSUME TypeOK, NEW r \in Requests, NEW left \in SUBSET Boxes, FailsTo(r, left)
  PROVE  TypeOK'
<1>. DEFINE o == request[r].replica
            next == [Idle EXCEPT !.at = "again", !.out = request[r].out \cup {o}]
<1>1. o \in Boxes /\ request[r].out \in SUBSET Boxes
  BY DEF TypeOK, Progress
<1>2. next \in Progress
  BY <1>1, IdleType DEF Progress, Idle
<1>3. request' \in [Requests -> Progress]
  BY <1>2 DEF FailsTo, TypeOK
<1>4. engine' \in [Requests -> SUBSET Boxes]
  BY DEF FailsTo, TypeOK
<1>. QED BY <1>1, <1>3, <1>4, EndedType DEF FailsTo, TypeOK

(* The steps that only move a request on. *)
Placed(r) == Select(r) \/ FallThrough(r) \/ Exhausted(r)

LEMMA PlacedType == ASSUME TypeOK, NEW r \in Requests, Placed(r) PROVE TypeOK'
<1>1. CASE Select(r)
  <2>1. PICK out \in IF request[r].at = "idle" THEN {{}, {Here}} ELSE {request[r].out} :
               \E o \in Selectable(out) :
                 request' = [request EXCEPT ![r] = [at |-> "count", replica |-> o, out |-> out]]
    BY <1>1 DEF Select, Barred
  <2>2. out \in SUBSET Boxes
    BY <2>1, PoolAssumption DEF PoolAssumption, TypeOK, Progress
  <2>3. request' \in [Requests -> Progress]
    BY <2>1, <2>2 DEF TypeOK, Progress, Selectable
  <2>. QED BY <1>1, <2>3 DEF Select, Barred, TypeOK
<1>2. CASE FallThrough(r)
  <2>1. [request[r] EXCEPT !.at = "count", !.out = Boxes] \in Progress
    BY ZenonT(30) DEF TypeOK, Progress
  <2>2. request' \in [Requests -> Progress]
    BY <1>2, <2>1 DEF FallThrough, TypeOK
  <2>. QED BY <1>2, <2>2 DEF FallThrough, TypeOK
<1>3. CASE Exhausted(r)
  BY <1>3, OverType DEF Exhausted, TypeOK
<1>. QED BY <1>1, <1>2, <1>3 DEF Placed

LEMMA HandleType ==
  ASSUME TypeOK, NEW r \in Requests, Handle(r) \/ Works(r) \/ Placed(r)
  PROVE  TypeOK'
<1>0. request[r].replica \in Boxes /\ engine[r] \in SUBSET Boxes
  BY DEF TypeOK, Progress
<1>1. CASE Count(r)
  <2>1. request' \in [Requests -> Progress]
    BY ZenonT(30), <1>1 DEF Count, TypeOK, Progress
  <2>2. token' \in [Requests -> [Boxes -> Dispatched \cup {"none"}]]
    BY <1>0, <1>1 DEF Count, TypeOK, Dispatched
  <2>. QED BY <1>1, <2>1, <2>2 DEF Count, TypeOK
<1>2. CASE Works(r)
  BY <1>0, <1>2 DEF Works, TypeOK
<1>3. CASE Fails(r) \/ TimesOut(r)
  BY <1>0, <1>3, FailsToType DEF Fails, TimesOut
<1>4. CASE Answers(r)
  <2>1. [request[r] EXCEPT !.at = "relay", !.out = {}] \in Progress
    BY ZenonT(30) DEF TypeOK, Progress
  <2>2. request' \in [Requests -> Progress]
    BY <1>4, <2>1 DEF Answers, TypeOK
  <2>. QED BY <1>4, <2>2 DEF Answers, TypeOK
<1>5. CASE Relayed(r)
  BY <1>0, <1>5, EndedType, OverType DEF Relayed, TypeOK
<1>. QED BY <1>1, <1>2, <1>3, <1>4, <1>5, PlacedType DEF Handle, Placed

LEMMA EngineType ==
  ASSUME TypeOK, NEW r \in Requests, NEW o \in Boxes, EngineEnds(r, o)
  PROVE  TypeOK'
BY DEF EngineEnds, TypeOK

LEMMA RefreshType == ASSUME TypeOK, NEW o \in Boxes, Refresh(o) PROVE TypeOK'
<1>1. CASE Sample(o)
  <2>. DEFINE working == {r \in Requests : o \in engine[r]}
              mine == {r \in working : token[r][o] # "none"}
  <2>1. Cardinality(working) \in Nat /\ mine \in SUBSET Requests
    BY CountIsNat
  <2>1a. \A others \in 0..MaxOthers : Cardinality(working) + others \in Nat
    BY <2>1, PoolAssumption DEF PoolAssumption
  <2>2. ASSUME NEW load \in Nat
        PROVE  [Rest EXCEPT !.at = "sampled", !.load = load, !.own = mine] \in Probes
    BY <2>1, IdleType DEF Probes, Rest
  <2>3. [Rest EXCEPT !.at = "sampled"] \in Probes
    BY IdleType DEF Probes, Rest
  <2>4. \E next \in Probes : probe' = [probe EXCEPT ![o] = next]
    <3>1. \/ \E others \in 0..MaxOthers :
               probe' = [probe EXCEPT ![o] =
                 [Rest EXCEPT !.at = "sampled", !.load = Cardinality(working) + others,
                    !.own = mine]]
          \/ probe' = [probe EXCEPT ![o] = [Rest EXCEPT !.at = "sampled"]]
      BY <1>1 DEF Sample
    <3>. HIDE DEF working, mine
    <3>. QED BY <2>1a, <2>2, <2>3, <3>1
  <2>5. probe' \in [Boxes -> Probes]
    BY <2>4 DEF TypeOK
  <2>. QED BY <1>1, <2>5 DEF Sample, TypeOK, clients
<1>2. CASE Stamp(o)
  <2>1. Less(probe[o].load, Cardinality(probe[o].own)) \in Nat
    BY CountIsNat, LessIsNat DEF TypeOK, Probes
  <2>2. probe' \in [Boxes -> Probes]
    BY ZenonT(30), <1>2, <2>1 DEF Stamp, TypeOK, Probes
  <2>3. token' \in [Requests -> [Boxes -> Dispatched \cup {"none"}]]
    BY <1>2 DEF Stamp, TypeOK, Dispatched
  <2>. QED BY <1>2, <2>2, <2>3 DEF Stamp, TypeOK
<1>3. CASE Publish(o)
  <2>1. snapshot' \in [Boxes -> Snapshots]
    BY <1>3 DEF Publish, TypeOK, Probes, Snapshots
  <2>2. probe' \in [Boxes -> Probes]
    BY <1>3, IdleType DEF Publish, TypeOK
  <2>3. token' \in [Requests -> [Boxes -> Dispatched \cup {"none"}]]
    BY <1>3 DEF Publish, TypeOK, Dispatched
  <2>. QED BY <1>3, <2>1, <2>2, <2>3 DEF Publish, TypeOK
<1>4. CASE Unreachable(o)
  BY <1>4, IdleType DEF Unreachable, TypeOK, clients
<1>. QED BY <1>1, <1>2, <1>3, <1>4 DEF Refresh

LEMMA NextIsOneOfThese ==
  ASSUME Next
  PROVE  \/ \E r \in Requests : Handle(r) \/ Works(r) \/ Placed(r)
         \/ \E r \in Requests, o \in Boxes : EngineEnds(r, o)
         \/ \E o \in Boxes : Refresh(o)
BY PoolAssumption DEF PoolAssumption, Next, Placed

(* Every reachable state is well-typed. *)
THEOREM TypeCorrect == Spec => []TypeOK
<1>1. ASSUME TypeOK, [Next]_vars PROVE TypeOK'
  <2>1. CASE UNCHANGED vars
    BY <1>1, <2>1 DEF TypeOK, vars, clients
  <2>2. CASE Next
    BY <1>1, <2>2, NextIsOneOfThese, HandleType, EngineType, RefreshType
  <2>. QED BY <1>1, <2>1, <2>2
<1>. QED BY InitType, <1>1, PTL DEF Spec

-----------------------------------------------------------------------------
(* A dispatch is in the ledger for as long as its request is at the replica, *)
(* and no longer.                                                            *)

LEMMA HandleKeepsCount ==
  ASSUME TypeOK, LedgerIsExact, NEW r \in Requests, Handle(r) \/ Works(r) \/ Placed(r)
  PROVE  LedgerIsExact'
<1>. SUFFICES ASSUME NEW q \in Requests, NEW o \in Boxes
              PROVE  (token'[q][o] # "none") <=> (q \in Outstanding(o))'
  BY DEF LedgerIsExact
<1>0. /\ (token[q][o] # "none") <=> (q \in Outstanding(o))
      /\ request[r].replica \in Boxes
      /\ \A p \in Boxes : (token[r][p] # "none") <=> (r \in Outstanding(p))
  BY DEF LedgerIsExact, TypeOK, Progress
<1>1. CASE Placed(r)
  <2>1. UNCHANGED token /\ request[r].at \in {"idle", "again"}
    BY <1>1 DEF Placed, Select, Barred, FallThrough, Exhausted
  <2>2. request'[r].at \in {"count", "idle"}
    <3>1. CASE Select(r)
      BY <3>1 DEF Select, Barred, TypeOK
    <3>2. CASE FallThrough(r)
      BY <3>2 DEF FallThrough, TypeOK, Progress
    <3>3. CASE Exhausted(r)
      BY <3>3 DEF Exhausted, Over, TypeOK, Idle
    <3>. QED BY <1>1, <3>1, <3>2, <3>3 DEF Placed
  <2>3. q # r => request'[q] = request[q]
    BY <1>1 DEF Placed, Select, Barred, FallThrough, Exhausted, Over, TypeOK
  <2>. QED BY <1>0, <2>1, <2>2, <2>3 DEF Outstanding
<1>2. CASE Count(r)
  BY <1>0, <1>2 DEF Count, Outstanding, TypeOK, Progress, Dispatched
<1>3. CASE Works(r)
  BY <1>0, <1>3 DEF Works, Outstanding
<1>4. CASE Answers(r)
  BY <1>0, <1>4 DEF Answers, Outstanding, TypeOK, Progress
<1>5. ASSUME NEW left, FailsTo(r, left)
      PROVE  (token'[q][o] # "none") <=> (q \in Outstanding(o))'
  BY <1>0, <1>5 DEF FailsTo, Ended, Outstanding, TypeOK, Progress, Idle
<1>6. CASE Relayed(r)
  BY <1>0, <1>6 DEF Relayed, Ended, Over, Outstanding, TypeOK, Progress, Idle
<1>. QED BY <1>1, <1>2, <1>3, <1>4, <1>5, <1>6
         DEF Handle, Fails, TimesOut, Placed

LEMMA RefreshKeepsCount ==
  ASSUME TypeOK, LedgerIsExact, NEW p \in Boxes, Refresh(p)
  PROVE  LedgerIsExact'
<1>1. UNCHANGED request
  BY DEF Refresh, Sample, Stamp, Publish, Unreachable, clients
<1>2. \A q \in Requests, o \in Boxes : (token'[q][o] = "none") <=> (token[q][o] = "none")
  <2>1. CASE Sample(p) \/ Unreachable(p)
    BY <2>1 DEF Sample, Unreachable, clients
  <2>2. CASE Stamp(p)
    BY <2>2 DEF Stamp, TypeOK
  <2>3. CASE Publish(p)
    BY <2>3 DEF Publish, TypeOK
  <2>. QED BY <2>1, <2>2, <2>3 DEF Refresh
<1>. QED BY <1>1, <1>2 DEF LedgerIsExact, Outstanding

LEMMA LedgerIsAlwaysExact == Spec => []LedgerIsExact
<1>1. Init => LedgerIsExact
  BY DEF Init, LedgerIsExact, Outstanding, Idle
<1>2. ASSUME TypeOK, LedgerIsExact, [Next]_vars PROVE LedgerIsExact'
  <2>1. CASE UNCHANGED vars
    BY <1>2, <2>1 DEF LedgerIsExact, Outstanding, vars, clients
  <2>2. ASSUME NEW r \in Requests, NEW o \in Boxes, EngineEnds(r, o) PROVE LedgerIsExact'
    BY <1>2, <2>2 DEF EngineEnds, LedgerIsExact, Outstanding
  <2>3. CASE Next
    BY <1>2, <2>2, <2>3, NextIsOneOfThese, HandleKeepsCount, RefreshKeepsCount
  <2>. QED BY <1>2, <2>1, <2>3
<1>. QED BY TypeCorrect, <1>1, <1>2, PTL DEF Spec

LEMMA LedgerIsOldAndNew ==
  ASSUME TypeOK, LedgerIsExact, NEW o \in Boxes
  PROVE  Cardinality(Outstanding(o)) = Cardinality(Old(o)) + Cardinality(New(o))
<1>1. Outstanding(o) = Old(o) \cup New(o) /\ Old(o) \cap New(o) = {}
  BY DEF LedgerIsExact, TypeOK, Dispatched, Outstanding, Old, New
<1>2. IsFiniteSet(Old(o)) /\ IsFiniteSet(New(o))
  BY PoolAssumption, FS_Subset DEF PoolAssumption, Old, New
<1>3. Cardinality(Old(o) \cap New(o)) = 0
  BY <1>1, FS_EmptySet
<1>4. Cardinality(Old(o) \cup New(o))
        = Cardinality(Old(o)) + Cardinality(New(o)) - Cardinality(Old(o) \cap New(o))
  BY <1>2, FS_Union
<1>5. Cardinality(Old(o)) \in Nat /\ Cardinality(New(o)) \in Nat
  BY CountIsNat DEF Old, New
<1>. QED BY <1>1, <1>3, <1>4, <1>5

LEMMA ActiveCoversTheLedger ==
  ASSUME TypeOK, LedgerIsExact, NEW o \in Boxes
  PROVE  Active(o) >= Cardinality(Outstanding(o))
<1>1. Cardinality(Old(o)) \in Nat /\ Cardinality(New(o)) \in Nat
  BY CountIsNat DEF Old, New
<1>2. snapshot[o].load \in Nat
  BY DEF TypeOK, Snapshots
<1>. QED BY <1>1, <1>2, LedgerIsOldAndNew DEF Active, Larger

(* A replica is never taken to be less loaded than this gateway's own       *)
(* requests make it.                                                        *)
THEOREM OwnRequestsCount == Spec => []NeverUndercounts
<1>1. TypeOK /\ LedgerIsExact => NeverUndercounts
  BY ActiveCoversTheLedger DEF NeverUndercounts
<1>. QED BY TypeCorrect, LedgerIsAlwaysExact, <1>1, PTL

-----------------------------------------------------------------------------
(* No dispatch makes a replica look loaded once it is over.  What a probe   *)
(* read of the load is this gateway's own dispatches or was seen to be      *)
(* somebody else's when the stamp was taken; a dispatch that ends takes     *)
(* itself off every reading that it may be part of.                         *)

(* The dispatches that were begun before the stamp of the probe under way.  *)
Seen(o) == {r \in Requests : token[r][o] \in {"stamped", "old"}}

ReadingIsExplained(o) ==
  /\ snapshot[o].load <= Cardinality(Old(o)) + snapshot[o].blind
  /\ probe[o].at = "stamped" => probe[o].load <= Cardinality(Seen(o)) + probe[o].blind
  /\ probe[o].at = "sampled" => \A r \in probe[o].own : token[r][o] # "none"
  /\ \A r \in Requests : token[r][o] = "stamped" => probe[o].at = "stamped"

Explained == \A o \in Boxes : ReadingIsExplained(o)

LEMMA PartIsSmaller ==
  ASSUME NEW T \in SUBSET Requests, NEW S \in SUBSET T
  PROVE  Cardinality(S) <= Cardinality(T)
BY PoolAssumption, FS_Subset DEF PoolAssumption

LEMMA OneLess ==
  ASSUME NEW S \in SUBSET Requests, NEW r \in S
  PROVE  Cardinality(S \ {r}) = Cardinality(S) - 1
<1>1. IsFiniteSet(S)
  BY PoolAssumption, FS_Subset DEF PoolAssumption
<1>2. Cardinality(S \ {r}) = IF r \in S THEN Cardinality(S) - 1 ELSE Cardinality(S)
  BY ONLY <1>1, FS_RemoveElement
<1>. QED BY <1>2

LEMMA LessOne ==
  ASSUME NEW m \in Nat, NEW n \in Nat, NEW k \in Nat, m <= n + k, n - 1 \in Nat
  PROVE  Less(m, 1) <= (n - 1) + k
BY DEF Less

(* A box whose readings and dispatches are left alone keeps them explained. *)
LEMMA ElsewhereStaysExplained ==
  ASSUME TypeOK, NEW o \in Boxes, ReadingIsExplained(o),
         snapshot'[o] = snapshot[o], probe'[o] = probe[o],
         \A q \in Requests : token'[q][o] = token[q][o]
  PROVE  ReadingIsExplained(o)'
<1>1. Old(o)' = Old(o) /\ Seen(o)' = Seen(o)
  BY DEF Old, Seen
<1>2. Cardinality(Old(o))' = Cardinality(Old(o)) /\ Cardinality(Seen(o))' = Cardinality(Seen(o))
  BY <1>1
<1>3. probe[o].own \in SUBSET Requests
  BY DEF TypeOK, Probes
<1>4. (snapshot[o].load <= Cardinality(Old(o)) + snapshot[o].blind)'
  BY <1>2 DEF ReadingIsExplained
<1>5. (probe[o].at = "stamped" => probe[o].load <= Cardinality(Seen(o)) + probe[o].blind)'
  BY <1>2 DEF ReadingIsExplained
<1>6. (probe[o].at = "sampled" => \A r \in probe[o].own : token[r][o] # "none")'
  BY <1>3 DEF ReadingIsExplained
<1>7. (\A r \in Requests : token[r][o] = "stamped" => probe[o].at = "stamped")'
  BY DEF ReadingIsExplained
<1>. QED BY <1>4, <1>5, <1>6, <1>7 DEF ReadingIsExplained

(* A dispatch that ends is one less in every count that it was in, and one  *)
(* less in every reading.                                                   *)
LEMMA EndedStaysExplained ==
  ASSUME TypeOK, Explained, NEW r \in Requests, NEW o \in Boxes, Ended(r, o)
  PROVE  Explained'
<1>. SUFFICES ASSUME NEW p \in Boxes PROVE ReadingIsExplained(p)'
  BY DEF Explained
<1>0. ReadingIsExplained(p)
  BY DEF Explained
<1>1. CASE p # o
  <2>1. \A q \in Requests : token'[q][p] = token[q][p]
    BY <1>1 DEF Ended, TypeOK
  <2>2. snapshot'[p] = snapshot[p] /\ probe'[p] = probe[p]
    BY <1>1 DEF Ended, TypeOK
  <2>. QED BY <1>0, <2>1, <2>2, ElsewhereStaysExplained
<1>2. CASE p = o
  <2>0. ReadingIsExplained(o)
    BY <1>2, <1>0
  <2>1. \A q \in Requests : token'[q][o] = IF q = r THEN "none" ELSE token[q][o]
    BY DEF Ended, TypeOK
  <2>2. Old(o)' = Old(o) \ {r} /\ Seen(o)' = Seen(o) \ {r}
    BY <2>1 DEF Old, Seen
  <2>3. /\ snapshot'[o].load = IF token[r][o] = "old" THEN Less(snapshot[o].load, 1)
                               ELSE snapshot[o].load
        /\ snapshot'[o].blind = snapshot[o].blind
    BY DEF Ended, TypeOK, Snapshots
  <2>4. /\ probe'[o].load =
             IF token[r][o] \in {"stamped", "old"} /\ probe[o].at = "stamped"
             THEN Less(probe[o].load, 1) ELSE probe[o].load
        /\ probe'[o].blind = probe[o].blind /\ probe'[o].at = probe[o].at
        /\ probe'[o].own = probe[o].own \ {r}
    BY DEF Ended, TypeOK, Probes
  <2>5. /\ snapshot[o].load \in Nat /\ snapshot[o].blind \in Nat
        /\ probe[o].load \in Nat /\ probe[o].blind \in Nat /\ probe[o].own \in SUBSET Requests
    BY DEF TypeOK, Snapshots, Probes
  <2>6. Cardinality(Old(o)) \in Nat /\ Cardinality(Seen(o)) \in Nat
    BY CountIsNat DEF Old, Seen
  <2>7. (snapshot[o].load <= Cardinality(Old(o)) + snapshot[o].blind)'
    <3>1. CASE token[r][o] = "old"
      <4>0. Cardinality(Old(o) \ {r}) \in Nat
        BY CountIsNat DEF Old
      <4>1. Cardinality(Old(o) \ {r}) = Cardinality(Old(o)) - 1
        BY <3>1, OneLess DEF Old
      <4>2. snapshot'[o].load = Less(snapshot[o].load, 1)
        BY <2>3, <3>1
      <4>3. Less(snapshot[o].load, 1) <= (Cardinality(Old(o)) - 1) + snapshot[o].blind
        BY <2>0, <2>5, <2>6, <4>1, <4>0, LessOne DEF ReadingIsExplained
      <4>. QED BY <2>2, <2>3, <4>1, <4>2, <4>3
    <3>2. CASE token[r][o] # "old"
      <4>1. Old(o) \ {r} = Old(o)
        BY <3>2 DEF Old
      <4>. QED BY <2>0, <2>2, <2>3, <2>5, <2>6, <3>2, <4>1 DEF ReadingIsExplained
    <3>. QED BY <3>1, <3>2
  <2>8. (probe[o].at = "stamped" => probe[o].load <= Cardinality(Seen(o)) + probe[o].blind)'
    <3>. SUFFICES ASSUME probe[o].at = "stamped"
                  PROVE  (probe[o].load <= Cardinality(Seen(o)) + probe[o].blind)'
      BY <2>4
    <3>1. CASE token[r][o] \in {"stamped", "old"}
      <4>0. Cardinality(Seen(o) \ {r}) \in Nat
        BY CountIsNat DEF Seen
      <4>1. Cardinality(Seen(o) \ {r}) = Cardinality(Seen(o)) - 1
        BY <3>1, OneLess DEF Seen
      <4>2. probe'[o].load = Less(probe[o].load, 1)
        BY <2>4, <3>1
      <4>3. Less(probe[o].load, 1) <= (Cardinality(Seen(o)) - 1) + probe[o].blind
        BY <2>0, <2>5, <2>6, <4>0, <4>1, LessOne DEF ReadingIsExplained
      <4>. QED BY <2>2, <2>4, <4>1, <4>2, <4>3
    <3>2. CASE token[r][o] \notin {"stamped", "old"}
      <4>1. Seen(o) \ {r} = Seen(o)
        BY <3>2 DEF Seen
      <4>. QED BY <2>0, <2>2, <2>4, <2>5, <2>6, <3>2, <4>1 DEF ReadingIsExplained
    <3>. QED BY <3>1, <3>2
  <2>9. (probe[o].at = "sampled" => \A q \in probe[o].own : token[q][o] # "none")'
    BY <2>0, <2>1, <2>4, <2>5 DEF ReadingIsExplained
  <2>10. (\A q \in Requests : token[q][o] = "stamped" => probe[o].at = "stamped")'
    BY <2>0, <2>1, <2>4 DEF ReadingIsExplained
  <2>. QED BY <1>2, <2>7, <2>8, <2>9, <2>10 DEF ReadingIsExplained
<1>. QED BY <1>1, <1>2

LEMMA HandleStaysExplained ==
  ASSUME TypeOK, LedgerIsExact, Explained, NEW r \in Requests,
         Handle(r) \/ Works(r) \/ Placed(r)
  PROVE  Explained'
<1>0. request[r].replica \in Boxes
  BY DEF TypeOK, Progress
<1>1. CASE Placed(r) \/ Works(r) \/ Answers(r)
  <2>1. UNCHANGED <<token, snapshot, probe>>
    BY <1>1 DEF Placed, Select, FallThrough, Exhausted, Works, Answers
  <2>. QED BY <2>1 DEF Explained, ReadingIsExplained, Old, Seen
<1>2. CASE Count(r)
  <2>. DEFINE o == request[r].replica
  <2>1. token[r][o] = "none"
    BY <1>0, <1>2 DEF LedgerIsExact, Outstanding, Count
  <2>2. \A q \in Requests, p \in Boxes :
          token'[q][p] = IF q = r /\ p = o THEN "new" ELSE token[q][p]
    BY <1>0, <1>2 DEF Count, TypeOK
  <2>3. UNCHANGED <<snapshot, probe>>
    BY <1>2 DEF Count
  <2>. HIDE DEF o
  <2>4. ASSUME NEW p \in Boxes PROVE ReadingIsExplained(p)'
    <3>1. Old(p)' = Old(p) /\ Seen(p)' = Seen(p)
      BY <2>1, <2>2 DEF Old, Seen
    <3>2. ReadingIsExplained(p) /\ probe[p].own \in SUBSET Requests
      BY DEF Explained, TypeOK, Probes
    <3>3. Cardinality(Old(p))' = Cardinality(Old(p)) /\ Cardinality(Seen(p))' = Cardinality(Seen(p))
      BY <3>1
    <3>4. (snapshot[p].load <= Cardinality(Old(p)) + snapshot[p].blind)'
      BY <2>3, <3>2, <3>3 DEF ReadingIsExplained
    <3>5. (probe[p].at = "stamped" => probe[p].load <= Cardinality(Seen(p)) + probe[p].blind)'
      BY <2>3, <3>2, <3>3 DEF ReadingIsExplained
    <3>6. (probe[p].at = "sampled" => \A q \in probe[p].own : token[q][p] # "none")'
      BY <2>1, <2>2, <2>3, <3>2 DEF ReadingIsExplained
    <3>7. (\A q \in Requests : token[q][p] = "stamped" => probe[p].at = "stamped")'
      BY <2>1, <2>2, <2>3, <3>2 DEF ReadingIsExplained
    <3>. QED BY <3>4, <3>5, <3>6, <3>7 DEF ReadingIsExplained
  <2>. QED BY <2>4 DEF Explained
<1>3. CASE Fails(r) \/ TimesOut(r) \/ Relayed(r)
  BY <1>0, <1>3, EndedStaysExplained DEF Fails, TimesOut, FailsTo, Relayed
<1>. QED BY <1>1, <1>2, <1>3 DEF Handle, Placed

LEMMA RefreshStaysExplained ==
  ASSUME TypeOK, Explained, NEW o \in Boxes, Refresh(o)
  PROVE  Explained'
<1>. SUFFICES ASSUME NEW p \in Boxes PROVE ReadingIsExplained(p)'
  BY DEF Explained
<1>0. ReadingIsExplained(p)
  BY DEF Explained
<1>1. CASE p # o
  <2>1. \A q \in Requests : token'[q][p] = token[q][p]
    <3>1. CASE Sample(o) \/ Unreachable(o)
      BY <3>1 DEF Sample, Unreachable, clients
    <3>2. CASE Stamp(o)
      BY <1>1, <3>2 DEF Stamp, TypeOK
    <3>3. CASE Publish(o)
      BY <1>1, <3>3 DEF Publish, TypeOK
    <3>. QED BY <3>1, <3>2, <3>3 DEF Refresh
  <2>2. snapshot'[p] = snapshot[p] /\ probe'[p] = probe[p]
    BY <1>1 DEF Refresh, Sample, Stamp, Publish, Unreachable, TypeOK
  <2>. QED BY <1>0, <2>1, <2>2, ElsewhereStaysExplained
<1>2. CASE p = o
  <2>. SUFFICES ReadingIsExplained(o)'
    BY <1>2
  <2>0. ReadingIsExplained(o)
    BY <1>0, <1>2
  <2>1. Cardinality(Old(o)) \in Nat /\ Cardinality(Seen(o)) \in Nat
    BY CountIsNat DEF Old, Seen
  <2>2. /\ snapshot[o].load \in Nat /\ snapshot[o].blind \in Nat
        /\ probe[o].load \in Nat /\ probe[o].blind \in Nat /\ probe[o].own \in SUBSET Requests
    BY DEF TypeOK, Snapshots, Probes
  <2>3. CASE Sample(o)
    <3>1. UNCHANGED <<token, snapshot>> /\ probe[o].at = "rest"
      BY <2>3 DEF Sample, clients
    <3>2. probe'[o].at = "sampled" /\ \A r \in probe'[o].own : token[r][o] # "none"
      <4>. DEFINE mine == {r \in {q \in Requests : o \in engine[q]} : token[r][o] # "none"}
      <4>1. probe'[o].at = "sampled" /\ probe'[o].own \in {{}, mine}
        <5>1. probe \in [Boxes -> Probes]
          BY DEF TypeOK
        <5>2. \/ \E n : probe'[o] = [Rest EXCEPT !.at = "sampled", !.load = n, !.own = mine]
              \/ probe'[o] = [Rest EXCEPT !.at = "sampled"]
          BY <2>3, <5>1 DEF Sample
        <5>. QED BY <5>2 DEF Rest
      <4>. QED BY <4>1
    <3>. QED BY <2>0, <3>1, <3>2 DEF ReadingIsExplained, Old
  <2>4. CASE Stamp(o)
    <3>1. /\ UNCHANGED snapshot
          /\ \A r \in Requests :
               token'[r][o] = IF token[r][o] = "new" THEN "stamped" ELSE token[r][o]
          /\ probe[o].at = "sampled"
      BY <2>4 DEF Stamp, TypeOK
    <3>2. /\ probe'[o].at = "stamped" /\ probe'[o].load = probe[o].load
          /\ probe'[o].blind = Less(probe[o].load, Cardinality(probe[o].own))
      BY <2>4 DEF Stamp, TypeOK, Probes
    <3>3. Old(o)' = Old(o)
      BY <3>1 DEF Old
    <3>4. probe[o].own \subseteq Seen(o)'
      BY <2>0, <2>2, <3>1 DEF ReadingIsExplained, Seen, TypeOK, Dispatched
    <3>5. /\ Seen(o)' \in SUBSET Requests
          /\ Cardinality(probe[o].own) <= Cardinality(Seen(o)')
          /\ Cardinality(probe[o].own) \in Nat /\ Cardinality(Seen(o)') \in Nat
      <4>1. Seen(o)' \in SUBSET Requests
        BY DEF Seen
      <4>. QED BY <2>2, <3>4, <4>1, PartIsSmaller, CountIsNat
    <3>6. probe'[o].load <= Cardinality(Seen(o)') + probe'[o].blind
      BY <2>2, <3>2, <3>5 DEF Less
    <3>7. (snapshot[o].load <= Cardinality(Old(o)) + snapshot[o].blind)'
      BY <2>0, <3>1, <3>3 DEF ReadingIsExplained
    <3>. QED BY <3>2, <3>6, <3>7 DEF ReadingIsExplained
  <2>5. CASE Publish(o)
    <3>1. /\ snapshot'[o].load = probe[o].load /\ snapshot'[o].blind = probe[o].blind
          /\ probe[o].at = "stamped" /\ probe'[o].at = "rest"
          /\ \A r \in Requests :
               token'[r][o] = IF token[r][o] = "stamped" THEN "old" ELSE token[r][o]
      BY <2>5 DEF Publish, TypeOK, Rest
    <3>2. Old(o)' = Seen(o)
      BY <3>1 DEF Old, Seen
    <3>. QED BY <2>0, <3>1, <3>2 DEF ReadingIsExplained
  <2>6. CASE Unreachable(o)
    <3>1. UNCHANGED <<token, probe>> /\ snapshot'[o].load = 0 /\ snapshot'[o].blind = 0
      BY <2>6 DEF Unreachable, Unknown, clients, TypeOK
    <3>2. Old(o)' = Old(o) /\ Seen(o)' = Seen(o)
      BY <3>1 DEF Old, Seen
    <3>. QED BY <2>0, <2>1, <3>1, <3>2 DEF ReadingIsExplained
  <2>. QED BY <2>3, <2>4, <2>5, <2>6 DEF Refresh
<1>. QED BY <1>1, <1>2

LEMMA ReadingsAreExplained == Spec => []Explained
<1>1. Init => Explained
  <2>. SUFFICES ASSUME Init, NEW o \in Boxes PROVE ReadingIsExplained(o)
    BY DEF Explained
  <2>1. snapshot[o].load = 0 /\ snapshot[o].blind = 0 /\ probe[o] = Rest
    BY DEF Init, Unknown
  <2>2. Cardinality(Old(o)) \in Nat
    BY CountIsNat DEF Old
  <2>3. \A r \in Requests : token[r][o] = "none"
    BY DEF Init
  <2>. QED BY <2>1, <2>2, <2>3 DEF ReadingIsExplained, Rest
<1>2. ASSUME TypeOK, LedgerIsExact, Explained, [Next]_vars PROVE Explained'
  <2>1. CASE UNCHANGED vars
    BY <1>2, <2>1 DEF Explained, ReadingIsExplained, Old, Seen, vars, clients
  <2>2. ASSUME NEW r \in Requests, NEW o \in Boxes, EngineEnds(r, o) PROVE Explained'
    BY <1>2, <2>2 DEF EngineEnds, Explained, ReadingIsExplained, Old, Seen
  <2>3. CASE Next
    BY <1>2, <2>2, <2>3, NextIsOneOfThese, HandleStaysExplained, RefreshStaysExplained
  <2>. QED BY <1>2, <2>1, <2>3
<1>. QED BY TypeCorrect, LedgerIsAlwaysExact, <1>1, <1>2, PTL DEF Spec

LEMMA ActiveIsExplained ==
  ASSUME TypeOK, LedgerIsExact, Explained, NEW o \in Boxes
  PROVE  Active(o) <= Cardinality(Outstanding(o)) + snapshot[o].blind
<1>1. snapshot[o].load <= Cardinality(Old(o)) + snapshot[o].blind
  BY DEF Explained, ReadingIsExplained
<1>2. snapshot[o].load \in Nat /\ snapshot[o].blind \in Nat
  BY DEF TypeOK, Snapshots
<1>3. Cardinality(Old(o)) \in Nat /\ Cardinality(New(o)) \in Nat
  BY CountIsNat DEF Old, New
<1>. QED BY <1>1, <1>2, <1>3, LedgerIsOldAndNew DEF Active, Larger

(* A replica is never taken to be more loaded than the requests of this     *)
(* gateway and what the last probe saw of others make it: whatever ends,    *)
(* fails or times out, and in whatever order it meets the two halves of a   *)
(* probe, is taken off (end_dispatch and _reconcile in _replicas.py).       *)
THEOREM EndedRequestsDoNotCount == Spec => []NeverOvercounts
<1>1. TypeOK /\ LedgerIsExact /\ Explained => NeverOvercounts
  BY ActiveIsExplained DEF NeverOvercounts
<1>. QED BY TypeCorrect, LedgerIsAlwaysExact, ReadingsAreExplained, <1>1, PTL
=============================================================================
