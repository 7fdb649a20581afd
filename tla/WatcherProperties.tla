-------------------------- MODULE WatcherProperties --------------------------
(* What the holds of the lanes and the page-cache clears owe the machine. *)
EXTENDS Watcher

(* Crash backoff: however a lane fails -- its server crashes or refuses to  *)
(* start, its gate times out, it is killed -- it loads at most StartMax + 1 *)
(* times in a window, and no more than that since its counter last lost a   *)
(* start: to a file that cannot be written, to a kill while it was, or to   *)
(* the operator.  A start is recorded before the gate and may wait there:   *)
(* StartMax is not the bound.                                               *)
LoadsBounded == \A l \in Lanes : loads[l][StartMax + 2] = Window

Spares(clear, those) ==
  clear.at = "clear" /\ clear.health.read => clear.loading \cap those = {}

(* Neither the watcher nor a verb drops the cache under a lane that docker  *)
(* reports as starting and that was loading before the clear began to look, *)
(* although the lanes move between its look at the markers and at docker,   *)
(* and killed lanes leave markers that say they wait.  The exception is a   *)
(* run that left those of an earlier one in place, as it could not write to *)
(* lane-state/ or had no gate.                                              *)
SparesStartingLanes ==
  Spares(watcher, InStartPeriod \ blind) /\ Spares(verb, InStartPeriod \ blind)

(* "Docker's health status covers the whole boot": nor under a lane that    *)
(* has been loading for less than the start period, however long the same   *)
(* container was held before its server ran.                                *)
SparesLoadingLanes ==
  LET fresh == {l \in Lanes : loads[l][1] < StartPeriod}
  IN  Spares(watcher, fresh) /\ Spares(verb, fresh)

(* "A restart cannot bypass the rate limit": the watcher does not clear     *)
(* again before MinInterval is over.                                        *)
ClearsApart == watcher.at = "clear" => cleared = MinInterval

(* When no more goes wrong, every lane comes to serve, unless the operator  *)
(* stopped it: the holds end, memory that a dead container left behind is   *)
(* dropped for the lane that waits for it, and neither the rate limit nor   *)
(* the guard nor a marker that looks old stands in its way for good.        *)
EveryLaneServes == \A l \in Lanes : <>[](at[l] \in {"serve", "stopped"})

(* A marker that a killed lane left behind does not have the cache cleared  *)
(* for ever.                                                                *)
ClearingStops == <>[](watcher.at # "clear")
=============================================================================
