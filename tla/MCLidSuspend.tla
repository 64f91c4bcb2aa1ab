---------------------------- MODULE MCLidSuspend ----------------------------
(***************************************************************************)
(* Instances of LidSuspend small enough for TLC.  Each lets a few parts of *)
(* the environment move freely, in every order with the daemon's own steps,*)
(* and keeps the others at rest: a hazard needs the parts it is about, and *)
(* the parts it is not about only multiply the states.                     *)
(***************************************************************************)
EXTENDS LidSuspend

(* A docked laptop that is closed and locked, with a locker that may die,  *)
(* and a compositor that reloads its configuration.                        *)
LockInputs == {"lid", "monitor", "hint", "comp", "reload"}

(* hypridle, the CLI and a low battery all ask for a suspend; the daemon   *)
(* and powerd restart.                                                     *)
RequestInputs == {"request", "ac", "battery", "powerd", "restart"}

(* For the liveness run.                                                   *)
LockerInputs == {"lid", "comp"}

(* For the counterexamples.                                                *)
EchoInputs == {"lid", "request", "wayland"}
WakeInputs == {"lid"}

NoSignal     == {}
LidSignal    == {"lid"}
ResumeSignal == {"resume"}
=============================================================================
