--------------------------- MODULE SuspendPromise ---------------------------
(***************************************************************************)
(* What the daemon promises whoever closes the lid or walks away: a grace, *)
(* then a proof that the session is locked by a locker that is alive, and  *)
(* only then a suspend; a proof that fails starts a new grace; a suspended *)
(* machine counts down again only after it came back.                      *)
(*                                                                         *)
(* Nothing is said of why a countdown starts or is called off: that is     *)
(* world_state's business (HyprFsm).  LidSuspend implements this module.   *)
(***************************************************************************)
CONSTANTS
  Restarts,  (* Whether the daemon may be restarted.                       *)
  External   (* Whether others may suspend the machine.                    *)

VARIABLES
  phase,     (* "up", "grace", "proving" or "down".                        *)
  proven,    (* A live locker existed since the proving began.             *)
  machine    (* "awake", "entering" (suspend accepted) or "asleep".        *)

vars == <<phase, proven, machine>>

TypeOK ==
  /\ phase \in {"up", "grace", "proving", "down"}
  /\ proven \in BOOLEAN
  /\ machine \in {"awake", "entering", "asleep"}

Init ==
  /\ phase \in {"up", "grace"}
  /\ proven = FALSE
  /\ machine = "awake"

Goes(from, to) ==
  /\ phase = from
  /\ phase' = to
  /\ proven' = FALSE
  /\ machine' = machine

StartGrace == Goes("up", "grace")
CallOff    == Goes("grace", "up")
GiveUp     == Goes("proving", "grace")

(* The grace is over: proving begins, perhaps with a live locker there.    *)
Expire ==
  /\ phase = "grace"
  /\ phase' = "proving"
  /\ proven' \in BOOLEAN
  /\ machine' = machine

LockerSeen ==
  /\ phase = "proving"
  /\ proven' = TRUE
  /\ UNCHANGED <<phase, machine>>

Suspend ==
  /\ phase = "proving"
  /\ proven
  /\ phase' = "down"
  /\ proven' = FALSE
  /\ machine' = "entering"

(* A return is acted on once the machine is back, unless a restart or a    *)
(* suspend by others made the daemon lose count of the returns.            *)
Return ==
  /\ machine = "awake" \/ Restarts \/ External
  /\ Goes("down", "up") \/ Goes("down", "grace")

Restart ==
  /\ Restarts
  /\ phase' \in {"up", "grace"}
  /\ proven' = FALSE
  /\ machine' = machine

Sleep ==
  /\ machine = "entering" \/ (External /\ machine = "awake")
  /\ machine' = "asleep"
  /\ UNCHANGED <<phase, proven>>

Wake ==
  /\ machine = "asleep"
  /\ machine' = "awake"
  /\ UNCHANGED <<phase, proven>>

Next ==
  \/ StartGrace \/ CallOff \/ Expire \/ LockerSeen \/ GiveUp
  \/ Suspend \/ Return \/ Restart \/ Sleep \/ Wake

Spec == Init /\ [][Next]_vars
=============================================================================
