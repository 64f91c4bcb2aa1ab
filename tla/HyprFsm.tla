------------------------------ MODULE HyprFsm ------------------------------
(***************************************************************************)
(* The pure state maps of the hyprstate-fsm crate that the daemon's main   *)
(* machine is built from (fsm.rs, and the battery step of power.rs).       *)
(*                                                                         *)
(* A world is the record WorldInputs; a transition map is an operator, and *)
(* "None = stay put" is the current state itself.                          *)
(***************************************************************************)
EXTENDS Naturals

State == {"LidOpen", "Docked", "Deferred", "Countdown", "Suspending"}

(* What world_state reads of the daemon's context.                         *)
WorldInputs ==
  [ lid_closed : BOOLEAN, ext_mon_count : Nat, inhibitor : BOOLEAN,
    suspend_requested : BOOLEAN, locked : BOOLEAN, battery_low : BOOLEAN,
    lid_ac_hold : BOOLEAN ]

(* The kinds desired_state tells apart; every other event only carries a   *)
(* changed context and is "Other".                                         *)
EventKind == {"TimerExpired", "Resumed", "Other"}

(* Whether a keep-awake claim has authority: never on a locked machine,    *)
(* never against a battery running out.                                    *)
ClaimGoverns(w) == w.inhibitor /\ ~w.locked /\ ~w.battery_low

WorldState(w) ==
  IF w.suspend_requested
  THEN IF ClaimGoverns(w) THEN "Deferred" ELSE "Countdown"
  ELSE CASE ~w.lid_closed -> "LidOpen"
         [] w.lid_closed /\ w.ext_mon_count >= 1 -> "Docked"
         [] w.lid_closed /\ w.ext_mon_count = 0 ->
              IF ClaimGoverns(w) \/ w.lid_ac_hold THEN "Deferred"
                                                  ELSE "Countdown"

(* Wrong: an expired timer always suspends.                                *)
DesiredStateTrusting(s, kind, w) ==
  CASE kind = "TimerExpired" -> IF s = "Countdown" THEN "Suspending" ELSE s
    [] kind = "Resumed" -> IF s = "Suspending" THEN WorldState(w) ELSE s
    [] kind = "Other"   -> IF s = "Suspending" THEN s ELSE WorldState(w)

(* Wrong: any event may lead out of Suspending.                            *)
DesiredStateEager(s, kind, w) ==
  CASE kind = "TimerExpired" ->
         IF s # "Countdown" THEN s
         ELSE IF WorldState(w) = "Countdown" THEN "Suspending"
                                             ELSE WorldState(w)
    [] kind \in {"Resumed", "Other"} -> WorldState(w)

(* Wrong: waking changes nothing.                                          *)
DesiredStateAsleep(s, kind, w) ==
  CASE kind = "TimerExpired" ->
         IF s # "Countdown" THEN s
         ELSE IF WorldState(w) = "Countdown" THEN "Suspending"
                                             ELSE WorldState(w)
    [] kind = "Resumed" -> s
    [] kind = "Other"   -> IF s = "Suspending" THEN s ELSE WorldState(w)

(* Only a countdown expires, only a resume leaves Suspending; everything   *)
(* else re-derives the state from the world.                               *)
DesiredState(s, kind, w) ==
  CASE kind = "TimerExpired" ->
         IF s # "Countdown" THEN s
         ELSE IF WorldState(w) = "Countdown" THEN "Suspending"
                                             ELSE WorldState(w)
    [] kind = "Resumed" -> IF s = "Suspending" THEN WorldState(w) ELSE s
    [] kind = "Other"   -> IF s = "Suspending" THEN s ELSE WorldState(w)

(* Battery percentage in three classes: at or below the threshold, inside  *)
(* the hysteresis band, and at or above threshold + EXIT_DELTA.            *)
Pct == {"low", "band", "high"}

BatteryLowStep(low, pct) ==
  IF pct = "band" THEN low ELSE pct = "low"
=============================================================================
