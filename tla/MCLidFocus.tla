------------------------------ MODULE MCLidFocus ------------------------------
(***************************************************************************)
(* The closed lid that is not to suspend: a behaviour is either about the  *)
(* claims on the session or about the charger.  The inputs of the other    *)
(* hold still: claims matter on battery, where the charger defers nothing. *)
(* Claims hold an unlocked session only, and a locked one suspends at once *)
(* when the charger lets it: the first is about the claims, the second,    *)
(* put to sleep by others as well, about the charger.                      *)
(***************************************************************************)
EXTENDS LidSuspend

FocusInputs == {"lid", "logind", "wayland", "reload", "ac", "uevent", "extsuspend"}
ChargerSignal == {"ac"}

(* The charger's events are delayed by their signals as well as by the     *)
(* queue, and suspends come between: one place is enough.                  *)
ChargerQueue == 1

(* Neither the hint nor the locker moves here.                             *)
AboutClaims == ~env.hint

Reloads == /\ Len(queue') > Len(queue)
           /\ queue'[Len(queue')].type = "ConfigReloaded"

ClaimsOnly ==
  /\ env'.ac = env.ac
  /\ power = "awake" => power' # "asleep"

ChargerOnly ==
  /\ env'.logind = env.logind /\ env'.wayland = env.wayland
  /\ ~Reloads
  /\ Len(queue') <= ChargerQueue

FocusInit ==
  /\ Init
  /\ IF AboutClaims THEN ~env.ac ELSE ~env.logind /\ ~env.wayland

FocusSpec == FocusInit /\ [][Next]_vars

(* The steps explored: an action constraint.                               *)
Focused == IF AboutClaims THEN ClaimsOnly ELSE ChargerOnly

(* The claims alone leave no handler an excuse: between two of them the    *)
(* machine is in the state its context calls for.                          *)
ClaimsCoherent == AboutClaims => Coherent
=============================================================================
