------------------------------- MODULE Powerd -------------------------------
(***************************************************************************)
(* `hyprstate powerd`: the root service that writes power knobs for        *)
(* whoever calls it on the system bus.                                     *)
(*                                                                         *)
(* It is one single-threaded tokio runtime.  A call runs without a break   *)
(* from its entry to its first real wait: the apply lock, when somebody    *)
(* holds it, or the two signals sent after an apply, with the lock held.   *)
(* The lock is tokio's: first come, first served, and handed to the next   *)
(* waiter on release.  Start-up owns the bus name before it has applied    *)
(* what it had persisted, and subscribes to PrepareForSleep last.          *)
(*                                                                         *)
(* The knobs are abstracted to the profile whose rows stand in sysfs: an   *)
(* apply goes through all the rows, each read before it is written.  The   *)
(* one row an apply may pass over, the dpm level of a discrete GPU that is *)
(* runtime-suspended, is left out; that GPU's pin is not.                  *)
(***************************************************************************)
EXTENDS Naturals, Sequences

CONSTANTS
  Callers,       (* Bus clients, one call each at a time.                  *)
  Profiles,      (* power-saver, balanced, performance.                    *)
  Balanced,      (* What an unreadable state file stands for.              *)
  Nothing,       (* No profile: an empty slot, an invalid file, knobs that *)
                 (* firmware has reset.                                    *)
  Early,         (* Whether calls and suspends come before start-up ends.  *)
  PersistFails   (* Whether writing a state file may fail (a warning).     *)

ASSUME PowerdAssumption ==
  /\ Balanced \in Profiles
  /\ Nothing \notin Profiles
  /\ Early \in BOOLEAN
  /\ PersistFails \in BOOLEAN

VARIABLES
  phase,    (* "down", "named", "applied" (start-up apply done), "ready".  *)
  active,   (* Power1.active.                                              *)
  latest,   (* Power1.latest, the latest-request slot.                     *)
  lock,     (* apply_lock: its holder, then those who wait for it.         *)
  calls,    (* Where each caller's ApplyProfile is, and what it asks for.  *)
  boot,     (* The profile start-up has read and not applied yet.          *)
  knobs,    (* The profile whose rows are in sysfs.                        *)
  saved,    (* /var/lib/hyprstate/profile.                                 *)
  pinKnob,  (* power/control of the discrete GPU: TRUE is "on".            *)
  savedPin, (* /var/lib/hyprstate/dgpu-pin.                                *)
  woken,    (* A PrepareForSleep(false) waits to be handled.               *)
  asked     (* History: the pin last asked for.                            *)

vars == <<phase, active, latest, lock, calls, boot, knobs, saved, pinKnob,
          savedPin, woken, asked>>

pinVars == <<pinKnob, savedPin, asked>>

Slot == Profiles \cup {Nothing}

Call == [at : {"none", "waiting", "emitting"}, want : Slot]

(* Every variable holds a value of its kind: whatever the state file held, *)
(* the service is on a profile of the matrix.                              *)
TypeOK ==
  /\ phase \in {"down", "named", "applied", "ready"}
  /\ active \in Profiles
  /\ latest \in Slot
  /\ lock \in Seq(Callers)
  /\ calls \in [Callers -> Call]
  /\ boot \in Slot
  /\ knobs \in Slot
  /\ saved \in Slot
  /\ pinKnob \in BOOLEAN
  /\ savedPin \in BOOLEAN
  /\ woken \in BOOLEAN
  /\ asked \in BOOLEAN

Idle == [at |-> "none", want |-> Nothing]

-----------------------------------------------------------------------------
(* Calls.                                                                  *)

Serves == phase = "ready" \/ (Early /\ phase # "down")

(* Every row of a profile is written, in sysfs.                            *)
PowerdApply(p) == knobs' = p

(* power/control of the discrete GPU, which no suspended card minds.       *)
ApplyDgpuRuntimePm(awake) == pinKnob' = awake

(* A state file takes the value, or (a warning) keeps the one it had.      *)
Persists(value, old) == {value} \cup (IF PersistFails THEN {old} ELSE {})

(* Everything between the check of the slot and the signals.               *)
Applies(c, p) ==
  /\ PowerdApply(p)
  /\ active' = p
  /\ saved' \in Persists(p, saved)
  /\ calls' = [calls EXCEPT ![c] = [at |-> "emitting", want |-> p]]

(* Wrong: a call that finds the lock free leaves the slot alone.           *)
ApplyProfileFastPath(c, p) ==
  /\ Serves
  /\ calls[c].at = "none"
  /\ lock' = Append(lock, c)
  /\ IF lock = <<>>
     THEN Applies(c, p) /\ UNCHANGED latest
     ELSE /\ latest' = p
          /\ calls' = [calls EXCEPT ![c] = [at |-> "waiting", want |-> p]]
          /\ UNCHANGED <<knobs, active, saved>>
  /\ UNCHANGED <<phase, boot, woken>>
  /\ UNCHANGED pinVars

(* Wrong: the slot is written by whoever gets the lock.                    *)
ApplyProfileUnannounced(c, p) ==
  /\ Serves
  /\ calls[c].at = "none"
  /\ lock' = Append(lock, c)
  /\ IF lock = <<>>
     THEN Applies(c, p) /\ latest' = p
     ELSE /\ calls' = [calls EXCEPT ![c] = [at |-> "waiting", want |-> p]]
          /\ UNCHANGED <<knobs, active, saved, latest>>
  /\ UNCHANGED <<phase, boot, woken>>
  /\ UNCHANGED pinVars

(* ApplyProfile of a profile of the matrix (anything else is an error and  *)
(* changes nothing): the slot first, then the lock, at once or in line.    *)
ApplyProfile(c, p) ==
  /\ Serves
  /\ calls[c].at = "none"
  /\ latest' = p
  /\ lock' = Append(lock, c)
  /\ IF lock = <<>>
     THEN Applies(c, p)
     ELSE /\ calls' = [calls EXCEPT ![c] = [at |-> "waiting", want |-> p]]
          /\ UNCHANGED <<knobs, active, saved>>
  /\ UNCHANGED <<phase, boot, woken>>
  /\ UNCHANGED pinVars

Holds(c, at) ==
  /\ lock # <<>>
  /\ Head(lock) = c
  /\ calls[c].at = at

(* The lock came to a call the slot still names: it applies.               *)
Granted(c) ==
  /\ Holds(c, "waiting")
  /\ latest = calls[c].want
  /\ Applies(c, latest)
  /\ UNCHANGED <<phase, latest, lock, boot, woken>>
  /\ UNCHANGED pinVars

(* Wrong: the superseded call returns with the lock.                       *)
SupersededHolding(c) ==
  /\ Holds(c, "waiting")
  /\ latest # calls[c].want
  /\ calls' = [calls EXCEPT ![c] = Idle]
  /\ UNCHANGED <<phase, active, latest, lock, boot, knobs, saved, woken>>
  /\ UNCHANGED pinVars

(* It came to one the slot no longer names: {"coalesced": ...}.            *)
Superseded(c) ==
  /\ Holds(c, "waiting")
  /\ latest # calls[c].want
  /\ calls' = [calls EXCEPT ![c] = Idle]
  /\ lock' = Tail(lock)
  /\ UNCHANGED <<phase, active, latest, boot, knobs, saved, woken>>
  /\ UNCHANGED pinVars

(* ProfileApplied and ActiveProfile are out, the call returns.             *)
Returns(c) ==
  /\ Holds(c, "emitting")
  /\ calls' = [calls EXCEPT ![c] = Idle]
  /\ lock' = Tail(lock)
  /\ UNCHANGED <<phase, active, latest, boot, knobs, saved, woken>>
  /\ UNCHANGED pinVars

(* SetDgpuAwake takes no lock and waits for nothing.                       *)
SetDgpuAwake(awake) ==
  /\ Serves
  /\ ApplyDgpuRuntimePm(awake)
  /\ savedPin' \in Persists(awake, savedPin)
  /\ asked' = awake
  /\ UNCHANGED <<phase, active, latest, lock, calls, boot, knobs, saved,
                 woken>>

-----------------------------------------------------------------------------
(* The life of the service.                                                *)

(* Anything but a profile in the state file stands for balanced.           *)
PersistedProfile == IF saved \in Profiles THEN saved ELSE Balanced

(* Wrong: the state file's word is taken as it is.                         *)
StartTrusting ==
  /\ phase = "down"
  /\ phase' = "named"
  /\ active' = saved /\ boot' = saved
  /\ latest' = Nothing
  /\ UNCHANGED <<lock, calls, knobs, saved, woken>>
  /\ UNCHANGED pinVars

(* systemd or the bus starts it: the file is read, the object served and   *)
(* the name owned.                                                         *)
Start ==
  /\ phase = "down"
  /\ phase' = "named"
  /\ active' = PersistedProfile /\ boot' = PersistedProfile
  /\ latest' = Nothing
  /\ UNCHANGED <<lock, calls, knobs, saved, woken>>
  /\ UNCHANGED pinVars

(* "Initial apply of the persisted profile", then of the pin.              *)
StartupApply ==
  /\ phase = "named"
  /\ phase' = "applied"
  /\ PowerdApply(boot)
  /\ boot' = Nothing
  /\ ApplyDgpuRuntimePm(savedPin)
  /\ UNCHANGED <<active, latest, lock, calls, saved, savedPin, woken, asked>>

Subscribe ==
  /\ phase = "applied"
  /\ phase' = "ready"
  /\ UNCHANGED <<active, latest, lock, calls, boot, knobs, saved, woken>>
  /\ UNCHANGED pinVars

(* The machine sleeps and wakes: firmware may reset the rows and the pin,  *)
(* and logind's signal reaches a service that has subscribed.              *)
SleepWake ==
  /\ Early \/ phase \in {"down", "ready"}
  /\ knobs' \in {knobs, Nothing}
  /\ pinKnob' \in {pinKnob, FALSE}
  /\ woken' = (phase = "ready")
  /\ UNCHANGED <<phase, active, latest, lock, calls, boot, saved, savedPin,
                 asked>>

(* Wrong: only the pin is applied again.                                   *)
ResumePinOnly ==
  /\ woken
  /\ woken' = FALSE
  /\ ApplyDgpuRuntimePm(savedPin)
  /\ UNCHANGED <<phase, active, latest, lock, calls, boot, knobs, saved,
                 savedPin, asked>>

(* Wrong: only the profile is applied again.                               *)
ResumeProfileOnly ==
  /\ woken
  /\ woken' = FALSE
  /\ PowerdApply(active)
  /\ UNCHANGED <<phase, active, latest, lock, calls, boot, saved>>
  /\ UNCHANGED pinVars

(* On resume the active profile and the persisted pin are applied again,   *)
(* outside the lock and without a wait in between.                         *)
Resume ==
  /\ woken
  /\ woken' = FALSE
  /\ PowerdApply(active)
  /\ ApplyDgpuRuntimePm(savedPin)
  /\ UNCHANGED <<phase, active, latest, lock, calls, boot, saved, savedPin,
                 asked>>

(* The service ends (an upgrade, a kill), perhaps with an apply half done: *)
(* its rows written, nothing persisted.  Its callers get an error.         *)
Ends ==
  /\ phase # "down"
  /\ phase' = "down"
  /\ \/ UNCHANGED knobs
     \/ \E c \in Callers : Holds(c, "waiting") /\ latest = calls[c].want
                             /\ knobs' = latest
  /\ lock' = <<>>
  /\ calls' = [c \in Callers |-> Idle]
  /\ latest' = Nothing
  /\ woken' = FALSE
  /\ active' = Balanced /\ boot' = Nothing
  /\ UNCHANGED saved
  /\ UNCHANGED pinVars

Init ==
  /\ phase = "down"
  /\ active = Balanced /\ boot = Nothing
  /\ latest = Nothing
  /\ lock = <<>>
  /\ calls = [c \in Callers |-> Idle]
  /\ knobs = Nothing
  /\ saved \in Slot
  /\ savedPin \in BOOLEAN
  /\ pinKnob = FALSE
  /\ asked = savedPin
  /\ woken = FALSE

Serving ==
  \/ \E c \in Callers : Granted(c) \/ Superseded(c) \/ Returns(c)
  \/ StartupApply \/ Subscribe \/ Resume

Next ==
  \/ \E c \in Callers, p \in Profiles : ApplyProfile(c, p)
  \/ \E awake \in BOOLEAN : SetDgpuAwake(awake)
  \/ Serving
  \/ Start \/ SleepWake \/ Ends

Spec == Init /\ [][Next]_vars

(* The runtime polls every task that can go on, and the bus takes signals. *)
Fairness ==
  /\ \A c \in Callers : WF_vars(Granted(c) \/ Superseded(c) \/ Returns(c))
  /\ WF_vars(StartupApply \/ Subscribe)
  /\ WF_vars(Resume)

FairSpec == Spec /\ Fairness

-----------------------------------------------------------------------------
(* The last request wins: when nobody is being served, the active profile  *)
(* is the one asked for last, whatever was coalesced on the way.           *)
LatestWins == lock = <<>> /\ latest # Nothing => active = latest

(* A caller told that it was superseded was: the profile it is referred to *)
(* is still to be applied, by a call that stands in line behind it.        *)
SupersededTruly ==
  [][\A c \in Callers : Superseded(c) =>
       \E i \in 1..Len(lock') : /\ calls'[lock'[i]].at = "waiting"
                                /\ calls'[lock'[i]].want = latest]_vars

(* Once started, and unless a resume is about to be handled, the knobs are *)
(* those of the profile the service says is active.                        *)
KnobsFollow == phase = "ready" /\ ~woken => knobs = active

(* Likewise the pin: the discrete GPU stays pinned from the call that pins *)
(* it to the one that releases it, across suspends and restarts, so long   *)
(* as the state file could be written.                                     *)
PinFollows ==
  phase = "ready" /\ ~woken /\ savedPin = asked => pinKnob = asked

(* Every call is answered, by a result, a superseder or the service's end. *)
Answered ==
  \A c \in Callers : calls[c].at # "none" ~> calls[c].at = "none"

(* The inductive invariant of the proofs: the line for the lock holds each *)
(* caller with a call once; those behind its head wait, and the last of    *)
(* them, or else the head, is the one the slot names.  Nobody stands in    *)
(* line for a service that is down.                                        *)
InLine ==
  /\ phase = "down" => lock = <<>>
  /\ \A i \in 1..Len(lock) : calls[lock[i]].at # "none"
  /\ \A i, j \in 1..Len(lock) : lock[i] = lock[j] => i = j
  /\ \A i \in 2..Len(lock) : calls[lock[i]].at = "waiting"
  /\ lock # <<>> => calls[lock[Len(lock)]].want = latest
  /\ lock # <<>> /\ calls[lock[1]].at = "emitting"
       => active = calls[lock[1]].want
  /\ latest \in Profiles \/ lock = <<>>

(* And, where nothing comes early, what each stage of start-up hands to    *)
(* the next: nobody is served before "ready", and the knobs and the pin    *)
(* have been applied by then.                                              *)
Staged ==
  /\ phase # "ready" => lock = <<>>
  /\ phase = "named" => boot = active
  /\ phase = "applied" => knobs = active /\ pinKnob = savedPin
  /\ KnobsFollow
  /\ PinFollows
=============================================================================
