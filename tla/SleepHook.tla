------------------------------ MODULE SleepHook ------------------------------
(***************************************************************************)
(* `sleep-hook pre|post`, run as root around every suspend: it enables     *)
(* wake-up on the USB controller, its hubs and the tracked input devices,  *)
(* and after a resume it unbinds and binds the touchpad, which often comes *)
(* back wedged, from a bus that may not have resumed yet.                  *)
(***************************************************************************)
EXTENDS Naturals, FiniteSets

CONSTANTS
  WakeDevices,  \* every device the hook would enable
  Attempts,     \* REBIND_ATTEMPTS
  MaxHookMoves  \* moves of the user, refused writes and lost wake-ups

ASSUME SleepHookAssumption ==
  /\ Attempts \in Nat \ {0}
  /\ MaxHookMoves \in Nat

VARIABLES
  phase,      \* where the machine and the hook are
  attached,   \* the wake devices that are there
  armed,      \* those whose power/wakeup is "enabled"
  refusals,   \* those whose write the last run saw refused
  touchpad,   \* "absent", "unbound" or "bound"
  attempt,    \* of the rebind loop
  binds,      \* how many binds of this run have failed
  hmoves

hookVars == <<phase, attached, armed, refusals, touchpad, attempt, binds, hmoves>>

HookTypeOK ==
  /\ phase \in {"awake", "pre", "asleep", "post", "unbind", "bind"}
  /\ armed \subseteq attached /\ attached \subseteq WakeDevices
  /\ refusals \subseteq WakeDevices
  /\ touchpad \in {"absent", "unbound", "bound"}
  /\ attempt \in 0..Attempts /\ binds \in 0..attempt
  /\ hmoves \in 0..MaxHookMoves

HookMoves == hmoves < MaxHookMoves /\ hmoves' = hmoves + 1

(* The wake-ups, of which one may be refused.                              *)
WakeEnabled ==
  \/ armed' = attached /\ refusals' = {} /\ UNCHANGED hmoves
  \/ /\ HookMoves
     /\ \E d \in attached : armed' = armed \cup (attached \ {d}) /\ refusals' = {d}

-----------------------------------------------------------------------------
GoesDown ==
  /\ phase = "awake" /\ phase' = "pre"
  /\ UNCHANGED <<attached, armed, refusals, touchpad, attempt, binds, hmoves>>

(* Wrong: only a resume enables anything.                                  *)
HookPreNothing ==
  /\ phase = "pre" /\ phase' = "asleep"
  /\ UNCHANGED <<attached, armed, refusals, touchpad, attempt, binds, hmoves>>

HookPre ==
  /\ phase = "pre" /\ phase' = "asleep"
  /\ WakeEnabled
  /\ UNCHANGED <<attached, touchpad, attempt, binds>>

(* The kernel may reset what was enabled.                                  *)
Resumes ==
  /\ phase = "asleep" /\ phase' = "post"
  /\ armed' \in {armed, {}}
  /\ UNCHANGED <<attached, refusals, touchpad, attempt, binds, hmoves>>

(* Wrong: an unbound touchpad is passed over.                              *)
HookPostBoundOnly ==
  /\ phase = "post"
  /\ phase' = IF touchpad = "bound" THEN "unbind" ELSE "awake"
  /\ attempt' = IF touchpad = "bound" THEN 1 ELSE 0
  /\ binds' = 0
  /\ WakeEnabled
  /\ UNCHANGED <<attached, touchpad>>

(* Skipped only if there is no touchpad on the bus.                        *)
HookPost ==
  /\ phase = "post"
  /\ phase' = IF touchpad = "absent" THEN "awake" ELSE "unbind"
  /\ attempt' = IF touchpad = "absent" THEN 0 ELSE 1
  /\ binds' = 0
  /\ WakeEnabled
  /\ UNCHANGED <<attached, touchpad>>

(* unbind, if it is bound; a refused write is logged.                      *)
Unbind ==
  /\ phase = "unbind" /\ phase' = "bind"
  /\ \/ touchpad' = (IF touchpad = "bound" THEN "unbound" ELSE touchpad)
        /\ UNCHANGED hmoves
     \/ touchpad = "bound" /\ HookMoves /\ UNCHANGED touchpad
  /\ UNCHANGED <<attached, armed, refusals, attempt, binds>>

(* bind counts when the write succeeds and the device is bound after it;   *)
(* one that is still bound, or is gone, refuses.                           *)
Bind ==
  /\ phase = "bind"
  /\ \/ /\ touchpad = "unbound" /\ touchpad' = "bound"
        /\ phase' = "awake"
        /\ UNCHANGED <<attempt, binds, hmoves>>
     \/ /\ IF touchpad = "unbound" THEN HookMoves ELSE UNCHANGED hmoves
        /\ binds' = binds + 1
        /\ IF attempt = Attempts
           THEN phase' = "awake" /\ UNCHANGED attempt
           ELSE phase' = "unbind" /\ attempt' = attempt + 1
        /\ UNCHANGED touchpad
  /\ UNCHANGED <<attached, armed, refusals>>

(* The user plugs and pulls, the keyboard deck comes off with its touchpad.*)
DevicesMove ==
  /\ HookMoves /\ phase \notin {"pre", "asleep"}
  /\ \/ /\ \E d \in WakeDevices :
             attached' = IF d \in attached THEN attached \ {d} ELSE attached \cup {d}
        /\ armed' = armed \cap attached'
        /\ UNCHANGED touchpad
     \/ /\ touchpad' \in (IF touchpad = "absent" THEN {"unbound", "bound"} ELSE {"absent"})
        /\ UNCHANGED <<attached, armed>>
  /\ UNCHANGED <<phase, refusals, attempt, binds>>

HookInit ==
  /\ phase = "awake" /\ attached \in SUBSET WakeDevices /\ armed = {}
  /\ refusals = {} /\ touchpad \in {"absent", "unbound", "bound"}
  /\ attempt = 0 /\ binds = 0 /\ hmoves = 0

HookNext ==
  \/ GoesDown \/ HookPre \/ Resumes \/ HookPost \/ Unbind \/ Bind \/ DevicesMove

HookSpec == HookInit /\ [][HookNext]_hookVars

-----------------------------------------------------------------------------
(* The machine never sleeps with a wake device that is not enabled, unless *)
(* the kernel refused that write, whatever an earlier resume has reset.    *)
WakeArmed == phase = "asleep" => attached \ armed \subseteq refusals

(* The hook never leaves a touchpad unbound before its last attempt, nor   *)
(* passes one over: sleep_hook.rs, "a present-but-unbound device therefore *)
(* self-heals on the next resume instead of being skipped forever".        *)
TouchpadRetried ==
  [][phase # "awake" /\ phase' = "awake" /\ touchpad' = "unbound"
       => binds' = Attempts]_hookVars
=============================================================================
