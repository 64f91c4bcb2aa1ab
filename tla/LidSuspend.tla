----------------------------- MODULE LidSuspend -----------------------------
(***************************************************************************)
(* The lid / suspend machine of `hyprstate daemon`: the dispatcher that    *)
(* owns the context, the tasks that feed its queue (watchers, state-file   *)
(* task, reconciler, timers), the suspend request file they share with     *)
(* hypridle and the CLI, and the machine around them (lid, outputs, claims,*)
(* locker, charger, battery, sleep).                                       *)
(*                                                                         *)
(* The daemon is one single-threaded tokio runtime: a handler is atomic up *)
(* to its awaits.  Handlers whose awaits only read or only call out are    *)
(* one action here; the lock-then-suspend tail, whose awaits last up to two*)
(* seconds and decide whether to suspend, is one action per await (the     *)
(* variable tail).  Everything else moves between any two actions.         *)
(***************************************************************************)
EXTENDS HyprFsm, Sequences

CONSTANTS
  Inputs,        (* Which parts of the environment move in this instance. *)
  Lossy,         (* Which signals may be lost on their way to a watcher.  *)
  HyprctlFails,  (* Whether a hyprctl query may fail.                     *)
  LidPresent,    (* power.conf lid = present.                             *)
  LidAcDefer,    (* power.conf lid-ac = defer.                            *)
  MaxExt,        (* Largest number of external outputs.                   *)
  MaxQueue       (* Capacity of the event channel (256 in the code).      *)

InputNames == {"lid", "monitor", "logind", "wayland", "hint", "comp", "ac",
               "uevent", "battery", "request", "reload", "powerd",
               "extsuspend", "restart"}

Signals == {"lid", "monitor", "logind", "lock", "ac", "uevent", "battery",
            "file", "resume"}

ASSUME ConstantsAssumption ==
  /\ Inputs \subseteq InputNames
  /\ Lossy \subseteq Signals
  /\ HyprctlFails \in BOOLEAN
  /\ LidPresent \in BOOLEAN
  /\ LidAcDefer \in BOOLEAN
  /\ MaxExt \in Nat
  /\ MaxQueue \in Nat \ {0}

VARIABLES
  env,     (* The machine and session as they are.                         *)
  power,   (* "awake", "entering" (logind accepted a suspend), "asleep".   *)
  file,    (* hyprstate-suspend-request: absent, or who wrote it.          *)
  dirty,   (* Signals raised and not yet read by the task that watches.    *)
  ctx,     (* The dispatcher's Context.                                    *)
  queue,   (* The event channel.                                           *)
  grace,   (* The grace timer task: "none", "armed", "finished".           *)
  settle,  (* Whether the AC settle timer is running.                      *)
  watch,   (* Whether the Deferred claim watch is running.                 *)
  seen,    (* What the edge-filtering tasks last reported.                 *)
  lockTx,  (* The `locked` watch channel wait_for_lock reads.              *)
  snap,    (* A reconcile snapshot gathered but not yet sent (0 or 1).     *)
  tail,    (* Where suspending_tail is waiting; "idle" when not in it.     *)
  hist     (* History, for the properties only: see TypeOK.                *)

envVars  == <<env, power, file>>
taskVars == <<grace, settle, watch>>
vars == <<env, power, file, dirty, ctx, queue, grace, settle, watch, seen,
          lockTx, snap, tail, hist>>

FileBody == {"none", "idle", "battery-low"}

Snapshot ==
  [ lid : BOOLEAN, ext : 0..MaxExt, logind : BOOLEAN,
    wayland : {{}, {TRUE}, {FALSE}},   (* {} when hyprctl failed *)
    locked : BOOLEAN, ac : BOOLEAN ]

Event ==
       [type : {"Lid"}, closed : BOOLEAN]
  \cup [type : {"LogindInhibitor", "WaylandInhibitor"}, active : BOOLEAN]
  \cup [type : {"LockChanged"}, locked : BOOLEAN]
  \cup [type : {"AcChanged"}, on_ac : BOOLEAN]
  \cup [type : {"BatteryPercent"}, pct : Pct]
  \cup [type : {"SuspendRequestChanged"}, standing : BOOLEAN]
  \cup [type : {"ReconcileTick"}, snap : Snapshot]
  \cup [type : {"MonitorHotplug", "ConfigReloaded", "PowerAcSettled",
                "PowerdAppeared", "TimerExpired", "Resumed"}]

Environment ==
  [ lid : BOOLEAN, ext : 0..MaxExt, logind : BOOLEAN, wayland : BOOLEAN,
    hint : BOOLEAN,     (* logind LockedHint                    *)
    comp : BOOLEAN,     (* the compositor's session lock        *)
    ac : BOOLEAN, pct : Pct ]

Context ==
  [ state : State, lid_closed : BOOLEAN, ext_mon_count : 0..MaxExt,
    logind_inhibitor : BOOLEAN, wayland_inhibitor : BOOLEAN,
    locked : BOOLEAN, on_ac : BOOLEAN, on_ac_settled : BOOLEAN,
    low_battery : BOOLEAN, suspend_requested : BOOLEAN ]

(* The last value each edge-filtering task reported, and the output count  *)
(* the reconciler falls back on.                                           *)
Seen == [suspend : BOOLEAN, logind : BOOLEAN, ac : BOOLEAN, ext : 0..MaxExt]

(* Every variable holds a value of its kind.  hist.lockSeen: a live locker *)
(* (both lock facts at once) existed at some moment of the current or last *)
(* tail.  hist.fresh: a request was written since the machine last woke    *)
(* from this daemon's suspend or the daemon last started.                  *)
TypeOK ==
  /\ env \in Environment
  /\ power \in {"awake", "entering", "asleep"}
  /\ file \in FileBody
  /\ dirty \subseteq Signals
  /\ ctx \in Context
  /\ queue \in Seq(Event)
  /\ grace \in {"none", "armed", "finished"}
  /\ settle \in BOOLEAN
  /\ watch \in BOOLEAN
  /\ seen \in Seen
  /\ lockTx \in BOOLEAN
  /\ snap \in Seq(Snapshot)
  /\ tail \in {"idle", "probe", "asked", "wait", "reprobe", "suspend"}
  /\ hist \in [lockSeen : BOOLEAN, fresh : BOOLEAN]

-----------------------------------------------------------------------------
(* The context as the pure maps see it.                                    *)

World(c) ==
  [ lid_closed |-> c.lid_closed,
    ext_mon_count |-> c.ext_mon_count,
    inhibitor |-> c.logind_inhibitor \/ c.wayland_inhibitor,
    suspend_requested |-> c.suspend_requested,
    locked |-> c.locked,
    battery_low |-> c.low_battery /\ ~c.on_ac_settled,
    lid_ac_hold |-> LidAcDefer /\ c.on_ac ]

(* battery_low_action and battery_low_request_check: what decision 6 does  *)
(* to the context and to the request file.                                 *)
BatteryRequests(c) ==
  c.low_battery /\ ~c.on_ac /\ ~c.on_ac_settled /\ ~c.suspend_requested

BatteryWithdraws(c) ==
  /\ c.suspend_requested /\ (c.on_ac \/ ~c.low_battery)
  /\ file = "battery-low"

BatteryChecked(c) ==
  [c EXCEPT !.suspend_requested =
     (@ \/ BatteryRequests(c)) /\ ~BatteryWithdraws(c)]

BatteryFile(c) ==
  CASE BatteryRequests(c)  -> "battery-low"
    [] BatteryWithdraws(c) -> "none"
    [] OTHER               -> file

(* The request file changes hands inside a handler: inotify is told.       *)
BatteryCheckWrites(c) ==
  /\ file' = BatteryFile(c)
  /\ dirty' = IF BatteryRequests(c) \/ BatteryWithdraws(c)
              THEN dirty \cup {"file"} ELSE dirty
  /\ hist' = [hist EXCEPT !.fresh = @ \/ BatteryRequests(c)]

(* A hyprctl query: the value as it is, or what was known when it failed.  *)
Sampled(now, known) == {now} \cup (IF HyprctlFails THEN {known} ELSE {})

LiveLocker == env.hint /\ env.comp

-----------------------------------------------------------------------------
(* The environment.                                                        *)

daemonVars == <<ctx, queue, grace, settle, watch, seen, lockTx, snap, tail>>

(* One piece of reality moves and its signals are raised.                  *)
Moves(input, newEnv, signals) ==
  /\ input \in Inputs
  /\ env' = newEnv
  /\ dirty' = dirty \cup signals
  /\ hist' = [hist EXCEPT !.lockSeen =
                IF tail = "idle" THEN @ ELSE @ \/ (env'.hint /\ env'.comp)]
  /\ UNCHANGED <<power, file>>
  /\ UNCHANGED daemonVars

LidMoves      == Moves("lid", [env EXCEPT !.lid = ~@], {"lid"})
MonitorMoves  == \E n \in 0..MaxExt \ {env.ext} :
                   Moves("monitor", [env EXCEPT !.ext = n], {"monitor"})
LogindMoves   == Moves("logind", [env EXCEPT !.logind = ~@], {"logind"})
WaylandMoves  == Moves("wayland", [env EXCEPT !.wayland = ~@], {})
HintMoves     == Moves("hint", [env EXCEPT !.hint = ~@], {"lock"})
CompMoves     == Moves("comp", [env EXCEPT !.comp = ~@], {})
AcMoves       == Moves("ac", [env EXCEPT !.ac = ~@],
                       {"ac"} \cup ({"uevent"} \cap Inputs))
BatteryMoves  == \E p \in Pct :
                   Moves("battery", [env EXCEPT !.pct = p], {"battery"})

(* A signal that never reaches its watcher (a resubscription gap).         *)
SignalLost ==
  /\ \E s \in dirty \cap Lossy : dirty' = dirty \ {s}
  /\ UNCHANGED <<env, power, file, hist>>
  /\ UNCHANGED daemonVars

(* `hyprstate suspend request` and `hyprstate suspend cancel`.             *)
SuspendRequest ==
  /\ "request" \in Inputs
  /\ file' = "idle"
  /\ dirty' = dirty \cup {"file"}
  /\ hist' = [hist EXCEPT !.fresh = TRUE]
  /\ UNCHANGED <<env, power>>
  /\ UNCHANGED daemonVars

SuspendCancel ==
  /\ "request" \in Inputs
  /\ file # "none"
  /\ file' = "none"
  /\ dirty' = dirty \cup {"file"}
  /\ UNCHANGED <<env, power, hist>>
  /\ UNCHANGED daemonVars

(* The machine goes down: the accepted suspend takes effect, or someone    *)
(* else asked logind for one.                                              *)
Sleep ==
  /\ \/ power = "entering"
     \/ power = "awake" /\ "extsuspend" \in Inputs
  /\ power' = "asleep"
  /\ UNCHANGED <<env, file, dirty, hist>>
  /\ UNCHANGED daemonVars

(* It comes back and logind says so (PrepareForSleep false).               *)
Wake ==
  /\ power = "asleep"
  /\ power' = "awake"
  /\ dirty' = dirty \cup {"resume"}
  /\ hist' = [hist EXCEPT !.fresh = @ /\ ctx.state # "Suspending"]
  /\ UNCHANGED <<env, file>>
  /\ UNCHANGED daemonVars

-----------------------------------------------------------------------------
(* The tasks that feed the queue.                                          *)

Running == power # "asleep"

Send(e) ==
  /\ Running
  /\ Len(queue) < MaxQueue
  /\ queue' = Append(queue, e)

coreVars == <<env, power, file, ctx, tail, hist>>

(* A watcher reads its signal and reports what the property holds by then. *)
Watcher(signal, e) ==
  /\ signal \in dirty
  /\ Send(e)
  /\ dirty' = dirty \ {signal}
  /\ UNCHANGED <<seen, snap>>
  /\ UNCHANGED coreVars
  /\ UNCHANGED taskVars

LidWatcher ==
  /\ LidPresent
  /\ Watcher("lid", [type |-> "Lid", closed |-> env.lid])
  /\ UNCHANGED lockTx

SocketReader ==
  Watcher("monitor", [type |-> "MonitorHotplug"]) /\ UNCHANGED lockTx

(* The watch channel is fed first: wait_for_lock sees the flip before the  *)
(* queue is drained.                                                       *)
LockWatcher ==
  /\ Watcher("lock", [type |-> "LockChanged", locked |-> env.hint])
  /\ lockTx' = env.hint

(* UPower's OnBattery.                                                     *)
AcWatcher ==
  Watcher("ac", [type |-> "AcChanged", on_ac |-> env.ac]) /\ UNCHANGED lockTx

BatteryWatcher ==
  /\ Watcher("battery", [type |-> "BatteryPercent", pct |-> env.pct])
  /\ UNCHANGED lockTx

SleepWatcher ==
  Watcher("resume", [type |-> "Resumed"]) /\ UNCHANGED lockTx

(* Three tasks report edges only: a value equal to the last one they sent is *)
(* dropped, whatever the dispatcher has learnt from elsewhere since.       *)
EdgeFiltered(signal, now, last, e) ==
  /\ signal \in dirty
  /\ dirty' = dirty \ {signal}
  /\ IF now = last THEN Running /\ UNCHANGED queue ELSE Send(e)
  /\ UNCHANGED <<lockTx, snap>>
  /\ UNCHANGED coreVars
  /\ UNCHANGED taskVars

InhibitorWatcher ==
  /\ EdgeFiltered("logind", env.logind, seen.logind,
                  [type |-> "LogindInhibitor", active |-> env.logind])
  /\ seen' = [seen EXCEPT !.logind = env.logind]

(* The kernel's power_supply uevent, answered by a read of sysfs.          *)
UeventTask ==
  /\ EdgeFiltered("uevent", env.ac, seen.ac,
                  [type |-> "AcChanged", on_ac |-> env.ac])
  /\ seen' = [seen EXCEPT !.ac = env.ac]

FileTask ==
  LET standing == file # "none" IN
  /\ EdgeFiltered("file", standing, seen.suspend,
                  [type |-> "SuspendRequestChanged", standing |-> standing])
  /\ seen' = [seen EXCEPT !.suspend = standing]

(* Timers and the claim watch, and events that come from elsewhere.        *)
Fires(e) ==
  /\ Send(e)
  /\ UNCHANGED <<dirty, seen, lockTx, snap>>
  /\ UNCHANGED coreVars

GraceFires ==
  /\ grace = "armed" /\ grace' = "finished"
  /\ Fires([type |-> "TimerExpired"])
  /\ UNCHANGED <<settle, watch>>

SettleFires ==
  /\ settle /\ settle' = FALSE
  /\ Fires([type |-> "PowerAcSettled"])
  /\ UNCHANGED <<grace, watch>>

ClaimWatchSees ==
  /\ watch /\ ~env.wayland
  /\ watch' = FALSE
  /\ Fires([type |-> "WaylandInhibitor", active |-> FALSE])
  /\ UNCHANGED <<grace, settle>>

ConfigReload ==
  /\ "reload" \in Inputs
  /\ Fires([type |-> "ConfigReloaded"])
  /\ UNCHANGED taskVars

PowerdReturns ==
  /\ "powerd" \in Inputs
  /\ Fires([type |-> "PowerdAppeared"])
  /\ UNCHANGED taskVars

(* reconcile_task: a pass is always due (the safety tick), reads the world *)
(* and only then sends what it read.  The safety tick also has the state   *)
(* files read again, which shows if one has something new to report.       *)
Gather ==
  /\ Running /\ snap = <<>>
  /\ \/ UNCHANGED dirty
     \/ (file # "none") # seen.suspend /\ dirty' = dirty \cup {"file"}
  /\ \E w \in {{env.wayland}} \cup (IF HyprctlFails THEN {{}} ELSE {}),
        n \in Sampled(env.ext, seen.ext) :
       /\ snap' = << [lid |-> LidPresent /\ env.lid, ext |-> n,
                      logind |-> env.logind, wayland |-> w,
                      locked |-> env.hint, ac |-> env.ac] >>
       /\ seen' = [seen EXCEPT !.ext = n]
  /\ UNCHANGED <<queue, lockTx>>
  /\ UNCHANGED coreVars
  /\ UNCHANGED taskVars

SendTick ==
  /\ snap # <<>>
  /\ Send([type |-> "ReconcileTick", snap |-> Head(snap)])
  /\ snap' = <<>>
  /\ UNCHANGED <<dirty, seen, lockTx>>
  /\ UNCHANGED coreVars
  /\ UNCHANGED taskVars

-----------------------------------------------------------------------------
(* The dispatcher.                                                         *)

Takes(type) ==
  /\ Running
  /\ tail = "idle"
  /\ queue # <<>>
  /\ Head(queue).type = type
  /\ queue' = Tail(queue)
  /\ UNCHANGED <<env, power, seen, snap>>

(* Wrong: the claim watch outlives Deferred.                               *)
OnEnterWatching(c) ==
  /\ ctx' = c
  /\ grace' = IF c.state = "Countdown" THEN "armed" ELSE "none"
  /\ watch' = (watch \/ (c.state = "Deferred" /\ c.wayland_inhibitor))
  /\ tail' = "idle"

(* on_enter of a state other than Suspending.  Fresh or re-asserted, a     *)
(* Countdown ends up with a running timer, any other state with none; the  *)
(* claim watch lives only while Deferred holds a Wayland claim.            *)
OnEnter(c) ==
  /\ ctx' = c
  /\ grace' = IF c.state = "Countdown" THEN "armed" ELSE "none"
  /\ watch' = (c.state = "Deferred" /\ c.wayland_inhibitor)
  /\ tail' = "idle"

(* on_enter of Suspending: both tasks stop and the tail begins; the state  *)
(* is stored only once the suspend was accepted.                           *)
OnEnterSuspending(c) ==
  /\ ctx' = c
  /\ grace' = "none"
  /\ watch' = FALSE
  /\ tail' = "probe"

(* The context changed and no machine moves.                               *)
Stays(c) == ctx' = c /\ UNCHANGED <<grace, watch, tail>>

EvaluateFsms(c, kind) ==
  LET want == DesiredState(c.state, kind, World(c)) IN
  \/ want = c.state /\ Stays(c)
  \/ want # c.state /\ want = "Suspending" /\ OnEnterSuspending(c)
  \/ want \notin {c.state, "Suspending"} /\ OnEnter([c EXCEPT !.state = want])

fileVars == <<file, dirty, hist>>

Lid ==
  /\ Takes("Lid")
  /\ LET closed == Head(queue).closed IN
     \E w \in IF closed THEN Sampled(env.wayland, ctx.wayland_inhibitor)
                        ELSE {ctx.wayland_inhibitor} :
       EvaluateFsms([ctx EXCEPT !.lid_closed = closed,
                                !.wayland_inhibitor = w], "Other")
  /\ UNCHANGED <<settle, lockTx>>
  /\ UNCHANGED fileVars

(* Wrong: the built-in panel is counted too.                               *)
MonitorHotplugAll ==
  /\ Takes("MonitorHotplug")
  /\ EvaluateFsms([ctx EXCEPT !.ext_mon_count = env.ext + 1], "Other")
  /\ UNCHANGED <<settle, lockTx>>
  /\ UNCHANGED fileVars

(* The payload is not used: the outputs are counted afresh.                *)
MonitorHotplug ==
  /\ Takes("MonitorHotplug")
  /\ \E n \in Sampled(env.ext, ctx.ext_mon_count) :
       EvaluateFsms([ctx EXCEPT !.ext_mon_count = n], "Other")
  /\ UNCHANGED <<settle, lockTx>>
  /\ UNCHANGED fileVars

(* Wrong: a claim that comes or goes is noted, the state is not re-derived.*)
InhibitorNoted ==
  /\ \/ /\ Takes("LogindInhibitor")
        /\ Stays([ctx EXCEPT !.logind_inhibitor = Head(queue).active])
     \/ /\ Takes("WaylandInhibitor")
        /\ Stays([ctx EXCEPT !.wayland_inhibitor = Head(queue).active])
  /\ UNCHANGED <<settle, lockTx>>
  /\ UNCHANGED fileVars

Inhibitor ==
  /\ \/ /\ Takes("LogindInhibitor")
        /\ EvaluateFsms([ctx EXCEPT !.logind_inhibitor = Head(queue).active],
                        "Other")
     \/ /\ Takes("WaylandInhibitor")
        /\ EvaluateFsms([ctx EXCEPT !.wayland_inhibitor = Head(queue).active],
                        "Other")
  /\ UNCHANGED <<settle, lockTx>>
  /\ UNCHANGED fileVars

LockChanged ==
  /\ Takes("LockChanged")
  /\ EvaluateFsms([ctx EXCEPT !.locked = Head(queue).locked], "Other")
  /\ UNCHANGED <<settle, lockTx>>
  /\ UNCHANGED fileVars

(* Wrong: only a plug-in schedules the settle.                             *)
AcChangedPlugOnly ==
  /\ Takes("AcChanged")
  /\ LET c == [ctx EXCEPT !.on_ac = Head(queue).on_ac] IN
     IF c = ctx
     THEN Stays(ctx) /\ UNCHANGED settle /\ UNCHANGED fileVars
     ELSE /\ BatteryCheckWrites(c)
          /\ settle' = c.on_ac
          /\ EvaluateFsms(BatteryChecked(c), "Other")
  /\ UNCHANGED lockTx

(* A value already held is dropped; a new one decides on the request now,  *)
(* and on the settled axis only once the charger has stopped bouncing.     *)
AcChanged ==
  /\ Takes("AcChanged")
  /\ LET c == [ctx EXCEPT !.on_ac = Head(queue).on_ac] IN
     IF c = ctx
     THEN Stays(ctx) /\ UNCHANGED settle /\ UNCHANGED fileVars
     ELSE /\ BatteryCheckWrites(c)
          /\ settle' = TRUE
          /\ EvaluateFsms(BatteryChecked(c), "Other")
  /\ UNCHANGED lockTx

PowerAcSettled ==
  /\ Takes("PowerAcSettled")
  /\ LET c == [ctx EXCEPT !.on_ac_settled = ctx.on_ac] IN
     /\ BatteryCheckWrites(c)
     /\ EvaluateFsms(BatteryChecked(c), "Other")
  /\ UNCHANGED <<settle, lockTx>>

(* powerd came back: the settled axis is taken over without the settle.    *)
PowerdAppeared ==
  /\ Takes("PowerdAppeared")
  /\ EvaluateFsms([ctx EXCEPT !.on_ac_settled = ctx.on_ac], "Other")
  /\ UNCHANGED <<settle, lockTx>>
  /\ UNCHANGED fileVars

(* Every percent event decides on the request; the machines move only when *)
(* the low flag or the request did.                                        *)
BatteryPercent ==
  /\ Takes("BatteryPercent")
  /\ LET c == [ctx EXCEPT !.low_battery =
                 BatteryLowStep(ctx.low_battery, Head(queue).pct)] IN
     /\ BatteryCheckWrites(c)
     /\ IF BatteryChecked(c) = ctx THEN Stays(ctx)
        ELSE EvaluateFsms(BatteryChecked(c), "Other")
  /\ UNCHANGED <<settle, lockTx>>

SuspendRequestChanged ==
  /\ Takes("SuspendRequestChanged")
  /\ LET standing == Head(queue).standing IN
     \E w \in IF standing THEN Sampled(env.wayland, ctx.wayland_inhibitor)
                          ELSE {ctx.wayland_inhibitor} :
       EvaluateFsms([ctx EXCEPT !.suspend_requested = standing,
                                !.wayland_inhibitor = w], "Other")
  /\ UNCHANGED <<settle, lockTx>>
  /\ UNCHANGED fileVars

(* Wrong: the context's word is taken for the file's.                      *)
TimerExpiredUnchecked ==
  /\ Takes("TimerExpired")
  /\ EvaluateFsms(ctx, "TimerExpired")
  /\ hist' = [hist EXCEPT !.lockSeen = LiveLocker]
  /\ UNCHANGED <<settle, lockTx, file, dirty>>

(* The file, not the context, says whether a request still stands.         *)
TimerExpired ==
  /\ Takes("TimerExpired")
  /\ EvaluateFsms([ctx EXCEPT !.suspend_requested = @ /\ file # "none"],
                  "TimerExpired")
  /\ hist' = [hist EXCEPT !.lockSeen = LiveLocker]
  /\ UNCHANGED <<settle, lockTx, file, dirty>>

(* Wrong: the context forgets the request, the file keeps it.              *)
ResumedKeepsFile ==
  /\ Takes("Resumed")
  /\ EvaluateFsms([ctx EXCEPT !.suspend_requested = FALSE], "Resumed")
  /\ UNCHANGED <<settle, lockTx>>
  /\ UNCHANGED fileVars

(* The request is cleared before the state is derived.                     *)
Resumed ==
  /\ Takes("Resumed")
  /\ file' = "none"
  /\ dirty' = IF file = "none" THEN dirty ELSE dirty \cup {"file"}
  /\ EvaluateFsms([ctx EXCEPT !.suspend_requested = FALSE], "Resumed")
  /\ UNCHANGED <<settle, lockTx, hist>>

(* configreloaded and a profile apply re-assert the current state.         *)
ConfigReloaded ==
  /\ Takes("ConfigReloaded")
  /\ IF ctx.state = "Suspending" THEN Stays(ctx) ELSE OnEnter(ctx)
  /\ UNCHANGED <<settle, lockTx>>
  /\ UNCHANGED fileVars

(* Wrong: the lid and the request are left to their watchers.              *)
RepairedOutputsOnly(s) ==
  [ctx EXCEPT !.ext_mon_count = s.ext, !.logind_inhibitor = s.logind,
              !.wayland_inhibitor =
                 IF s.wayland = {} THEN @ ELSE s.wayland = {TRUE},
              !.locked = s.locked]

(* What handle_reconcile_tick repairs of the FSM's inputs: the snapshot's  *)
(* values, and the request file as it is now.                              *)
Repaired(s) ==
  [ctx EXCEPT
     !.lid_closed = IF LidPresent THEN s.lid ELSE @,
     !.suspend_requested = file # "none",
     !.ext_mon_count = s.ext,
     !.logind_inhibitor = s.logind,
     !.wayland_inhibitor = IF s.wayland = {} THEN @ ELSE s.wayland = {TRUE},
     !.locked = s.locked]

(* Repairs to what the FSM reads re-derive the state; a repaired charger   *)
(* reaches the power policy only.                                          *)
ReconcileTick ==
  /\ Takes("ReconcileTick")
  /\ LET s == Head(queue).snap
         fsm == Repaired(s)
         acDrift == s.ac # ctx.on_ac
         power_drift == acDrift \/ s.ext # ctx.ext_mon_count
         c == IF power_drift
              THEN [fsm EXCEPT !.on_ac = s.ac, !.on_ac_settled = s.ac]
              ELSE fsm
         done == IF power_drift THEN BatteryChecked(c) ELSE c
     IN /\ IF power_drift THEN BatteryCheckWrites(c) ELSE UNCHANGED fileVars
        /\ lockTx' = IF s.locked # ctx.locked THEN s.locked ELSE lockTx
        /\ IF fsm # ctx THEN EvaluateFsms(done, "Other") ELSE Stays(done)
  /\ UNCHANGED settle

-----------------------------------------------------------------------------
(* suspending_tail, await by await, and the call to logind.                *)

InTail(step) ==
  /\ Running
  /\ tail = step
  /\ UNCHANGED <<env, file, dirty, queue, settle, seen, lockTx, snap>>

TailGoes(step) ==
  /\ tail' = step
  /\ UNCHANGED <<power, ctx, grace, watch, hist>>

(* live_locker: a failed query proves nothing.                             *)
Proofs == Sampled(LiveLocker, FALSE)

(* Wrong: the retry forgets its timer.                                     *)
TailFailsUnarmed ==
  /\ tail' = "idle"
  /\ UNCHANGED <<power, ctx, grace, watch, hist>>

(* The lock did not engage, or logind refused: a fresh grace, and retry.   *)
TailFails ==
  /\ tail' = "idle"
  /\ grace' = "armed"
  /\ UNCHANGED <<power, ctx, watch, hist>>

(* Already locked, live: straight on.  Otherwise Session.Lock() is asked.  *)
TailProbe ==
  /\ InTail("probe")
  /\ \E live \in Proofs : TailGoes(IF live THEN "suspend" ELSE "asked")

(* wait_for_lock: a lock the context knows of and a live locker behind it, *)
(* or the watch channel within two seconds.                                *)
TailAsked ==
  /\ InTail("asked")
  /\ \E live \in Proofs :
       TailGoes(IF ctx.locked /\ live THEN "reprobe" ELSE "wait")

TailWait ==
  /\ InTail("wait")
  /\ IF lockTx THEN TailGoes("reprobe") ELSE TailFails

(* Wrong: the lock hint is taken for the lock.                             *)
TailReprobeTrusting == InTail("reprobe") /\ TailGoes("suspend")

(* The hint flipped; only a live locker behind it lets the suspend through.*)
TailReprobe ==
  /\ InTail("reprobe")
  /\ \E live \in Proofs : IF live THEN TailGoes("suspend") ELSE TailFails

TailSuspend ==
  /\ InTail("suspend")
  /\ \/ /\ power' = "entering"
        /\ ctx' = [ctx EXCEPT !.state = "Suspending"]
        /\ tail' = "idle"
        /\ UNCHANGED <<grace, watch, hist>>
     \/ TailFails

-----------------------------------------------------------------------------
(* Start-up.  A request left over is deleted, the world is read, decision 6*)
(* is applied, and the first state is derived and entered.                 *)

BootRequests == env.pct = "low" /\ ~env.ac

BootContext ==
  LET c == [ state |-> "LidOpen", lid_closed |-> LidPresent /\ env.lid,
             ext_mon_count |-> env.ext, logind_inhibitor |-> env.logind,
             wayland_inhibitor |-> env.wayland, locked |-> env.hint,
             on_ac |-> env.ac, on_ac_settled |-> env.ac,
             low_battery |-> env.pct = "low",
             suspend_requested |-> BootRequests ]
  IN [c EXCEPT !.state = WorldState(World(c))]

BootWatch == BootContext.state = "Deferred" /\ env.wayland
BootGrace == IF BootContext.state = "Countdown" THEN "armed" ELSE "none"
BootFile  == IF BootRequests THEN "battery-low" ELSE "none"
BootSeen  == [suspend |-> BootRequests, logind |-> env.logind,
              ac |-> env.ac, ext |-> env.ext]

(* What does not move in an instance has its usual value; a session that   *)
(* neither locks nor unlocks is wholly one or the other.                   *)
AtRest(e) ==
  /\ "lid"     \in Inputs \/ ~e.lid
  /\ "monitor" \in Inputs \/ e.ext = 0
  /\ "logind"  \in Inputs \/ ~e.logind
  /\ "wayland" \in Inputs \/ ~e.wayland
  /\ {"hint", "comp"} \cap Inputs # {} \/ e.hint = e.comp
  /\ "ac"      \in Inputs \/ e.ac
  /\ "battery" \in Inputs \/ e.pct = "high"

Init ==
  /\ env \in {e \in Environment : AtRest(e)}
  /\ power = "awake"
  /\ file = BootFile
  /\ dirty = {}
  /\ ctx = BootContext
  /\ queue = <<>>
  /\ grace = BootGrace
  /\ settle = FALSE
  /\ watch = BootWatch
  /\ seen = BootSeen
  /\ lockTx = env.hint
  /\ snap = <<>>
  /\ tail = "idle"
  /\ hist = [lockSeen |-> FALSE, fresh |-> BootRequests]

(* The daemon ends (SIGTERM on every upgrade) or dies, and systemd starts  *)
(* it again.                                                               *)
Restart ==
  /\ "restart" \in Inputs
  /\ Running
  /\ file' = BootFile
  /\ dirty' = {}
  /\ ctx' = BootContext
  /\ queue' = <<>>
  /\ grace' = BootGrace
  /\ settle' = FALSE
  /\ watch' = BootWatch
  /\ seen' = BootSeen
  /\ lockTx' = env.hint
  /\ snap' = <<>>
  /\ tail' = "idle"
  /\ hist' = [hist EXCEPT !.fresh = BootRequests]
  /\ UNCHANGED <<env, power>>

-----------------------------------------------------------------------------
EnvironmentStep ==
  \/ LidMoves \/ MonitorMoves \/ LogindMoves \/ WaylandMoves
  \/ HintMoves \/ CompMoves \/ AcMoves \/ BatteryMoves
  \/ SuspendRequest \/ SuspendCancel
  \/ SignalLost \/ ConfigReload \/ PowerdReturns
  \/ Wake \/ Restart

TailStep == TailProbe \/ TailAsked \/ TailWait \/ TailReprobe \/ TailSuspend

Dispatch ==
  \/ Lid \/ MonitorHotplug \/ Inhibitor \/ LockChanged
  \/ AcChanged \/ PowerAcSettled \/ PowerdAppeared \/ BatteryPercent
  \/ SuspendRequestChanged \/ TimerExpired \/ Resumed
  \/ ConfigReloaded \/ ReconcileTick

Source ==
  \/ LidWatcher \/ SocketReader \/ LockWatcher \/ AcWatcher
  \/ BatteryWatcher \/ SleepWatcher
  \/ InhibitorWatcher \/ UeventTask \/ FileTask
  \/ GraceFires \/ SettleFires \/ ClaimWatchSees \/ Gather \/ SendTick

DaemonStep == Dispatch \/ TailStep \/ Source

Next == EnvironmentStep \/ DaemonStep \/ Sleep

Spec == Init /\ [][Next]_vars

(* The runtime polls every ready task; a sender waiting for room in the    *)
(* channel is served in turn (tokio's mpsc permits are FIFO), so it is not *)
(* starved by the others although the channel is full again and again.  An *)
(* accepted suspend happens.  The environment owes nothing.                *)
Fairness ==
  /\ WF_vars(Dispatch)
  /\ WF_vars(TailStep)
  /\ WF_vars(Gather)
  /\ WF_vars(Sleep)
  /\ SF_vars(LidWatcher)      /\ SF_vars(SocketReader)
  /\ SF_vars(LockWatcher)     /\ SF_vars(AcWatcher)
  /\ SF_vars(BatteryWatcher)  /\ SF_vars(SleepWatcher)
  /\ SF_vars(InhibitorWatcher)
  /\ SF_vars(UeventTask)      /\ SF_vars(FileTask)
  /\ SF_vars(GraceFires)      /\ SF_vars(SettleFires)
  /\ SF_vars(ClaimWatchSees)  /\ SF_vars(SendTick)

FairSpec == Spec /\ Fairness

-----------------------------------------------------------------------------
(* Safety.                                                                 *)

Pending(type) == \E i \in 1..Len(queue) : queue[i].type = type

(* A running grace timer belongs to a Countdown that is not already being  *)
(* acted on, and a Countdown never sits without one: its timer runs, or    *)
(* the TimerExpired it sent is still queued.  Every path into, through and *)
(* out of Countdown (re-assert, retry after a refused suspend, a state     *)
(* change while the timer fires) has to keep both halves.  The tail runs   *)
(* from a Countdown, so that a proof that fails leaves one to retry.       *)
CountdownTimed ==
  /\ grace = "armed" => ctx.state = "Countdown" /\ tail = "idle"
  /\ ctx.state = "Countdown" /\ tail = "idle"
       => grace = "armed" \/ Pending("TimerExpired")
  /\ tail # "idle" => ctx.state = "Countdown"

(* The daemon's one compositor poll runs only while Deferred holds a       *)
(* Wayland claim it knows of, or its last report is on its way.            *)
WatchOnlyDeferred ==
  watch => ctx.state = "Deferred" /\ tail = "idle"

(* Lock before suspend: logind is asked to suspend only if a live locker,  *)
(* LockedHint and compositor lock together, existed since the grace timer  *)
(* expired.  A hint left over from a dead locker never suffices.           *)
LockBeforeSuspend ==
  [][power # "entering" /\ power' = "entering" => hist.lockSeen]_vars

(* Why: the history records every live locker of the tail, and the tail    *)
(* reaches its last step only behind one.                                  *)
LockSeen ==
  /\ tail # "idle" /\ LiveLocker => hist.lockSeen
  /\ tail = "suspend" => hist.lockSeen

(* Between events the machine is in the state world_state derives from     *)
(* what the daemon knows: no handler changes a context field and leaves    *)
(* the state behind.                                                       *)
Coherent ==
  tail = "idle" /\ ctx.state # "Suspending"
    => ctx.state = WorldState(World(ctx))

(* Coherent once nothing is on its way any more: no event, no signal, no   *)
(* snapshot, no timer that would re-derive the state.                      *)
Quiet == queue = <<>> /\ dirty = {} /\ snap = <<>> /\ grace # "armed"

CoherentWhenQuiet == Quiet => Coherent

(* A wake does not schedule the next suspend: with the lid open, a suspend *)
(* is attempted only for a request written after the machine last woke and *)
(* the daemon last started.                                                *)
NoSuspendLoop ==
  [][tail = "idle" /\ tail' = "probe" /\ ~ctx.lid_closed
       => hist.fresh]_vars

(* With the lid open no suspend is attempted unless a request stands at    *)
(* that moment, whatever echo of a withdrawal is still on its way: the     *)
(* cancel-versus-expiry race is decided for the user.                      *)
WithdrawnInTime ==
  [][tail = "idle" /\ tail' = "probe" /\ ~ctx.lid_closed
       => file # "none"]_vars

(* From the moment logind accepts a suspend until the machine is awake     *)
(* again the daemon is in Suspending: no event handled in between (a lock, *)
(* a lid, a late tick) starts a second countdown or a second lock cycle.   *)
DownOnlySuspending ==
  power # "awake" => ctx.state = "Suspending" /\ tail = "idle"

(* The settled charger axis is never left behind: while it disagrees with  *)
(* the raw one, the settle timer runs or its event is queued.              *)
SettleOwed ==
  ctx.on_ac # ctx.on_ac_settled => settle \/ Pending("PowerAcSettled")

(* With lid-ac = defer a closed lid never suspends a machine known to be on*)
(* the charger, even when the plug-in was learnt by a repair that left the *)
(* countdown running.                                                      *)
ParkedOnCharger ==
  [][tail = "idle" /\ tail' = "probe" /\ LidAcDefer /\ ctx.on_ac
       => ctx.suspend_requested]_vars

(* The inductive invariant of the proofs (LidSuspendProofs): the timers,   *)
(* the watch, the settled axis and the tail, all at once.                  *)
Inv ==
  TypeOK /\ CountdownTimed /\ WatchOnlyDeferred /\ SettleOwed /\ LockSeen

(* The machine keeps the promise SuspendPromise states, whatever the       *)
(* environment does: its handlers, its tail and its retries are that       *)
(* module's few steps or none.                                             *)
phase ==
  CASE tail # "idle"             -> "proving"
    [] tail = "idle" /\ ctx.state = "Countdown"  -> "grace"
    [] tail = "idle" /\ ctx.state = "Suspending" -> "down"
    [] OTHER                     -> "up"

Promise == INSTANCE SuspendPromise WITH
  Restarts <- "restart" \in Inputs,
  External <- "extsuspend" \in Inputs,
  phase    <- phase,
  proven   <- tail # "idle" /\ hist.lockSeen,
  machine  <- power

KeepsPromise == Promise!Spec

-----------------------------------------------------------------------------
(* Liveness.                                                               *)

(* The world as it is, in the terms world_state reads.                     *)
RealWorld ==
  [ lid_closed |-> LidPresent /\ env.lid,
    ext_mon_count |-> env.ext,
    inhibitor |-> env.logind \/ env.wayland,
    suspend_requested |-> file # "none",
    locked |-> env.hint,
    battery_low |-> ctx.low_battery /\ ~env.ac,
    lid_ac_hold |-> LidAcDefer /\ env.ac ]

EnvironmentQuiet == <>[][~EnvironmentStep]_vars

(* Whatever signals were lost, once the environment stops moving the       *)
(* daemon ends up, for good, in the state the real world calls for (or has *)
(* suspended the machine).                                                 *)
EventuallyFaithful ==
  EnvironmentQuiet
    => <>[](Running => ctx.state \in {WorldState(RealWorld), "Suspending"})

(* A wanted suspend is retried until it succeeds: if a countdown is called *)
(* for and a live locker stands from some point on, logind is asked again  *)
(* and again, however often it refuses.                                    *)
SuspendRetried ==
  EnvironmentQuiet /\ <>[](WorldState(RealWorld) = "Countdown" /\ LiveLocker)
    => <>(power = "asleep") \/ []<>(tail = "suspend")

(* A machine that woke leaves Suspending.                                  *)
SuspendingLeft ==
  (ctx.state = "Suspending" /\ power = "awake")
    ~> (ctx.state # "Suspending" \/ power # "awake")
=============================================================================
