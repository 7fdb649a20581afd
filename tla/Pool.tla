--------------------------------- MODULE Pool ---------------------------------
(***************************************************************************)
(* The replica pool of one gateway: requests are placed on the replicas of *)
(* a model by the load that is known of them, and tried on another when    *)
(* one fails (lobes/gateway/server.py, _pool_dispatch); the load is what   *)
(* the last probe reported, corrected by the dispatches that were begun    *)
(* and ended since (lobes/gateway/_replicas.py, _selection.py).            *)
(*                                                                         *)
(* There is no clock: of a dispatch and a probe it is known which was      *)
(* first.  Which of the replicas with room is taken is left open: the      *)
(* ranking, the affinity and the compatibility of the replicas are data,   *)
(* and so are the answers.  A dispatch that outlives INFLIGHT_MAX_AGE and  *)
(* the members of a mesh are not modelled.                                 *)
(***************************************************************************)
EXTENDS Naturals, FiniteSets

CONSTANTS
  Requests,   \* the threads that handle them, one after the other
  Boxes,      \* the origins of the replicas
  Here,       \* the one of this box
  Capacity,   \* requests at a time; 0 where none was measured
  Refreshed,  \* bound: the replicas that are probed again after the start
  MaxOthers   \* bound: what else an engine works on

ASSUME PoolAssumption ==
  /\ IsFiniteSet(Requests) /\ Here \in Boxes /\ Refreshed \subseteq Boxes
  /\ Capacity \in [Boxes -> Nat] /\ MaxOthers \in Nat

VARIABLES
  request,    \* of each thread: how far its request is
  token,      \* _inflight: of the request, for the replica it is dispatched to
  engine,     \* the replicas whose engine works on the request
  snapshot,   \* what the last probe of each replica left behind
  probe       \* and the probe that is under way

clients == <<request, token, engine>>
vars == <<clients, snapshot, probe>>

(* A dispatch was begun after the stamp of the last probe ("new"), before   *)
(* it ("old"), or before that of the probe under way ("stamped").           *)
Dispatched == {"new", "stamped", "old"}

(* Out are the replicas a request may not be placed on any more: those that *)
(* failed, this box if it was under pressure when the request came, and all *)
(* of them if the request stays on this box.                                *)
Idle == [at |-> "idle", replica |-> Here, out |-> {}]
Progress == [at : {"idle", "count", "dial", "relay", "again"}, replica : Boxes,
             out : SUBSET Boxes]

(* load is what is left of the load that was read: a dispatch that was      *)
(* begun before the stamp and ended after it is taken off.  blind is        *)
(* history: what of the load was, at the time of the stamp, no dispatch of  *)
(* this gateway.                                                            *)
Unknown == [ready |-> FALSE, load |-> 0, blind |-> 0]
Snapshots == [ready : BOOLEAN, load : Nat, blind : Nat]

(* own is history: the requests that the load includes and that are still   *)
(* outstanding.                                                             *)
Rest == [at |-> "rest", load |-> 0, own |-> {}, blind |-> 0]
Probes == [at : {"rest", "sampled", "stamped"}, load : Nat,
           own : SUBSET Requests, blind : Nat]

TypeOK ==
  /\ request \in [Requests -> Progress]
  /\ token \in [Requests -> [Boxes -> Dispatched \cup {"none"}]]
  /\ engine \in [Requests -> SUBSET Boxes]
  /\ snapshot \in [Boxes -> Snapshots]
  /\ probe \in [Boxes -> Probes]

(* Every replica was probed once, before the gateway served. *)
Init ==
  /\ request = [r \in Requests |-> Idle]
  /\ token = [r \in Requests |-> [o \in Boxes |-> "none"]]
  /\ engine = [r \in Requests |-> {}]
  /\ \E ready \in SUBSET Boxes :
       snapshot = [o \in Boxes |-> [Unknown EXCEPT !.ready = o \in ready]]
  /\ probe = [o \in Boxes |-> Rest]

-----------------------------------------------------------------------------
(* The load of a replica: _reconcile. *)
Old(o) == {r \in Requests : token[r][o] = "old"}
New(o) == {r \in Requests : token[r][o] \in {"new", "stamped"}}

Larger(m, n) == IF m > n THEN m ELSE n
Less(m, n) == IF m > n THEN m - n ELSE 0

Active_OnlyNew(o) == snapshot[o].load + Cardinality(New(o))

(* What the probe may have missed of the old is at least accounted for.     *)
Active(o) == Larger(snapshot[o].load, Cardinality(Old(o))) + Cardinality(New(o))

Full(o) == Capacity[o] > 0 /\ Active(o) >= Capacity[o]

Selectable(out) == {o \in Boxes \ out : snapshot[o].ready /\ ~Full(o)}

-----------------------------------------------------------------------------
(* What end_dispatch does to the ledgers when the dispatch of r to o ends. *)
Ended_NotRecorded(r, o) ==
  /\ token' = [token EXCEPT ![r][o] = "none"]
  /\ UNCHANGED <<snapshot, probe>>

Ended(r, o) ==
  /\ token' = [token EXCEPT ![r][o] = "none"]
  /\ snapshot' = [snapshot EXCEPT ![o].load =
       IF token[r][o] = "old" THEN Less(@, 1) ELSE @]
  /\ probe' = [probe EXCEPT
       ![o].own = @ \ {r},
       ![o].load = IF token[r][o] \in {"stamped", "old"} /\ probe[o].at = "stamped"
                   THEN Less(@, 1) ELSE @]

(* A thread is free again; what engines still do for it is others' now.     *)
Over(r) ==
  /\ request' = [request EXCEPT ![r] = Idle]
  /\ engine' = [engine EXCEPT ![r] = {}]

-----------------------------------------------------------------------------
(* The pressure on this box is looked at once, when the request comes.      *)
Barred(r) == IF request[r].at = "idle" THEN {{}, {Here}} ELSE {request[r].out}

(* handle_post: one of the replicas with room is selected ...               *)
Select(r) ==
  /\ request[r].at \in {"idle", "again"}
  /\ \E out \in Barred(r) :
       \E o \in Selectable(out) :
         request' = [request EXCEPT ![r] = [at |-> "count", replica |-> o, out |-> out]]
  /\ UNCHANGED <<token, engine, snapshot, probe>>

(* ... or this box, if it is not under pressure and there is none, or the   *)
(* request was forwarded by a peer.  Otherwise it is answered 429.          *)
FallThrough(r) ==
  /\ request[r].at = "idle"
  /\ request' = [request EXCEPT ![r] = [@ EXCEPT !.at = "count", !.out = Boxes]]
  /\ UNCHANGED <<token, engine, snapshot, probe>>

(* Every replica that has room has failed: 503. *)
Exhausted(r) ==
  /\ request[r].at = "again" /\ Selectable(request[r].out) = {}
  /\ Over(r)
  /\ UNCHANGED <<token, snapshot, probe>>

Count(r) ==
  /\ request[r].at = "count"
  /\ token' = [token EXCEPT ![r][request[r].replica] = "new"]
  /\ request' = [request EXCEPT ![r].at = "dial"]
  /\ UNCHANGED <<engine, snapshot, probe>>

(* The engine begins. *)
Works(r) ==
  /\ request[r].at = "dial" /\ request[r].replica \notin engine[r]
  /\ engine' = [engine EXCEPT ![r] = @ \cup {request[r].replica}]
  /\ UNCHANGED <<request, token, snapshot, probe>>

(* The replica refuses, answers 5xx, or not in time: that dispatch ends,    *)
(* and the request is placed again, on another.  An engine may not notice   *)
(* that nobody waits for it any more.                                       *)
FailsTo_SameAgain(r, left) ==
  LET o == request[r].replica IN
  /\ request[r].at = "dial"
  /\ Ended(r, o)
  /\ request' = [request EXCEPT ![r] = [Idle EXCEPT !.at = "again", !.out = request[r].out]]
  /\ engine' = [engine EXCEPT ![r] = left]

FailsTo(r, left) ==
  LET o == request[r].replica IN
  /\ request[r].at = "dial"
  /\ Ended(r, o)
  /\ request' = [request EXCEPT ![r] =
       [Idle EXCEPT !.at = "again", !.out = request[r].out \cup {o}]]
  /\ engine' = [engine EXCEPT ![r] = left]

Fails(r) == FailsTo(r, engine[r] \ {request[r].replica})
TimesOut(r) == request[r].replica \in engine[r] /\ FailsTo(r, engine[r])

(* The answer, 2xx or the replica's own 4xx, is relayed; then, or when the  *)
(* client has gone, the dispatch ends.                                      *)
Answers(r) ==
  /\ request[r].at = "dial"
  /\ request' = [request EXCEPT ![r] = [@ EXCEPT !.at = "relay", !.out = {}]]
  /\ UNCHANGED <<token, engine, snapshot, probe>>

Relayed(r) ==
  /\ request[r].at = "relay"
  /\ Ended(r, request[r].replica)
  /\ Over(r)

-----------------------------------------------------------------------------
(* An engine is done with a request, whoever still waits for it. *)
EngineEnds(r, o) ==
  /\ o \in engine[r] /\ ~(request[r].at = "dial" /\ request[r].replica = o)
  /\ engine' = [engine EXCEPT ![r] = @ \ {o}]
  /\ UNCHANGED <<request, token, snapshot, probe>>

-----------------------------------------------------------------------------
(* _probe_local, _probe_peer: the load is read, if it can be ... *)
Sample(o) ==
  LET working == {r \in Requests : o \in engine[r]}
      mine == {r \in working : token[r][o] # "none"}
  IN  /\ probe[o].at = "rest"
      /\ \/ \E others \in 0..MaxOthers :
              probe' = [probe EXCEPT ![o] =
                [Rest EXCEPT !.at = "sampled", !.load = Cardinality(working) + others,
                   !.own = mine]]
         \/ probe' = [probe EXCEPT ![o] = [Rest EXCEPT !.at = "sampled"]]
      /\ UNCHANGED <<clients, snapshot>>

(* ... then the time is taken ... *)
Stamp(o) ==
  /\ probe[o].at = "sampled"
  /\ probe' = [probe EXCEPT ![o].at = "stamped",
                 ![o].own = {},
                 ![o].blind = Less(probe[o].load, Cardinality(probe[o].own))]
  /\ token' = [r \in Requests |-> [token[r] EXCEPT ![o] = IF @ = "new" THEN "stamped" ELSE @]]
  /\ UNCHANGED <<request, engine, snapshot>>

(* ... and both are published, ready or not. *)
Publish(o) ==
  /\ probe[o].at = "stamped"
  /\ \E ready \in BOOLEAN :
       snapshot' = [snapshot EXCEPT ![o] =
         [ready |-> ready, load |-> probe[o].load, blind |-> probe[o].blind]]
  /\ token' = [r \in Requests |-> [token[r] EXCEPT ![o] = IF @ = "stamped" THEN "old" ELSE @]]
  /\ probe' = [probe EXCEPT ![o] = Rest]
  /\ UNCHANGED <<request, engine>>

(* Or the replica cannot be reached: no load, and the old stamp. *)
Unreachable(o) ==
  /\ probe[o].at = "rest"
  /\ snapshot' = [snapshot EXCEPT ![o] = Unknown]
  /\ UNCHANGED <<clients, probe>>

-----------------------------------------------------------------------------
Handle(r) ==
  \/ request[r].at = "again" /\ Select(r)
  \/ Exhausted(r) \/ Count(r) \/ Fails(r) \/ TimesOut(r) \/ Answers(r) \/ Relayed(r)

Refresh(o) == Sample(o) \/ Stamp(o) \/ Publish(o) \/ Unreachable(o)

Next ==
  \/ \E r \in Requests : Select(r) \/ FallThrough(r) \/ Handle(r) \/ Works(r)
  \/ \E r \in Requests, o \in Boxes : EngineEnds(r, o)
  \/ \E o \in Refreshed : Refresh(o)

Spec == Init /\ [][Next]_vars

(* Neither a thread nor what it waits for hangs: the sockets to replicas    *)
(* have time-outs, and a client reads its answer or goes.                   *)
Fairness == \A r \in Requests : WF_vars(Handle(r))

FairSpec == Spec /\ Fairness
=============================================================================
