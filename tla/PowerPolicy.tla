---------------------------- MODULE PowerPolicy ----------------------------
(***************************************************************************)
(* The daemon's power policy: charger, dock and battery give a base state, *)
(* the base state or a manual override gives the profile powerd is asked   *)
(* for, and the edges of the base state move the panel's brightness.       *)
(*                                                                         *)
(* policy_check ends every handler that changes one of its inputs, and is  *)
(* one step with it.  The override file is read by the state-file task,    *)
(* whose events wait in the channel; the other events come in any order    *)
(* with those.  Times are not modelled: the 5 s settle of the charger may  *)
(* end at any moment, and somebody else may write platform_profile at any  *)
(* moment (the daemon listens when no apply of its own is younger than 5 s *)
(* and takes its own values for nothing).                                  *)
(***************************************************************************)
EXTENDS HyprFsm, Sequences

CONSTANTS
  Profiles,     (* power-saver, balanced, performance.                     *)
  PolicyFor,    (* power.conf: the profile of each base state.             *)
  Words,        (* What may be written to the override file.               *)
  Nothing,      (* None: no override, no word, no base, no level.          *)
  MaxLevel,     (* brightness_max.                                         *)
  MaxQueue,     (* The channel's capacity, for the file task.              *)
  MaxMoves      (* How often the world moves: a bound for TLC.             *)

BaseState == {"docked-ac", "ac", "battery", "battery-low"}

ASSUME PowerPolicyAssumption ==
  /\ PolicyFor \in [BaseState -> Profiles]
  /\ Profiles \subseteq Words
  /\ Nothing \notin Profiles \cup Words \cup BaseState \cup Nat
  /\ MaxLevel \in Nat \ {0}
  /\ MaxQueue \in Nat \ {0}
  /\ MaxMoves \in Nat

VARIABLES
  ctx,      (* The power fields of Context.                                *)
  settling, (* The charger's settle timer runs, or its event is queued.    *)
  topology, (* MonitorsChanged is on its way.                              *)
  file,     (* ~/.config/hypr/power-override.                              *)
  seen,     (* The word the file task reported last.                       *)
  queue,    (* Its PowerOverrideChanged events.                            *)
  active,   (* What powerd has applied.                                    *)
  bright,   (* The panel, what the daemon keeps of it, and (history) the   *)
            (* level and the edge at which the daemon first dimmed it.     *)
  moves

vars == <<ctx, settling, topology, file, seen, queue, active, bright, moves>>

Maybe(S) == S \cup {Nothing}
Level == 1..MaxLevel

Context ==
  [ ac : BOOLEAN, settled : BOOLEAN, docked : BOOLEAN, low : BOOLEAN,
    override : Maybe(Profiles), stamp : Maybe(BaseState),
    applied : Maybe(Profiles), avail : BOOLEAN, lastBase : Maybe(BaseState) ]

Brightness ==
  [ panel : Level, set : Maybe(Level), saved : Maybe(Level),
    from : Maybe(Level), edge : {"none", "unplug", "low"}, failed : BOOLEAN ]

(* Every variable holds a value of its kind; an override is a profile.     *)
TypeOK ==
  /\ ctx \in Context
  /\ settling \in BOOLEAN /\ topology \in BOOLEAN
  /\ file \in Maybe(Words) /\ seen \in Maybe(Words)
  /\ queue \in Seq(Maybe(Words)) /\ Len(queue) <= MaxQueue
  /\ active \in Profiles
  /\ bright \in Brightness
  /\ moves \in 0..MaxMoves

-----------------------------------------------------------------------------
(* Pure maps.                                                              *)

(* power_base_state: the settled axis alone decides the side.              *)
Base(c) ==
  CASE c.settled /\ c.docked  -> "docked-ac"
    [] c.settled /\ ~c.docked -> "ac"
    [] ~c.settled /\ c.low    -> "battery-low"
    [] OTHER                  -> "battery"

AcAxis(base) == base \in {"docked-ac", "ac"}

Desired(c) == IF c.override # Nothing THEN c.override ELSE PolicyFor[Base(c)]

(* Wrong: any other base state ends it, a dock's blink included.           *)
ExpiredByBlink(c) ==
  /\ c.override # Nothing
  /\ c.stamp # Nothing
  /\ Base(c) # c.stamp

(* An override ends when the axis is another than the one it was stamped   *)
(* on, or when the battery has become low since.                           *)
Expired(c) ==
  /\ c.override # Nothing
  /\ c.stamp # Nothing
  /\ \/ AcAxis(Base(c)) # AcAxis(c.stamp)
     \/ Base(c) = "battery-low" /\ c.stamp # "battery-low"

-----------------------------------------------------------------------------
(* Brightness.                                                             *)

UserTookOver(b) == b.set # Nothing /\ b.panel # b.set

(* logind's SetBrightness, which may fail and leave everything as it was.  *)
Clamped(level) == IF level < 1 THEN 1 ELSE level

Write(b, level) ==
  { [b EXCEPT !.panel = Clamped(level), !.set = Clamped(level)],
    [b EXCEPT !.failed = TRUE] }

(* History: where the first dimming of this stay on battery started.       *)
Dim(b, level, edge) ==
  { IF d.panel < b.panel /\ b.from = Nothing
    THEN [d EXCEPT !.from = b.panel, !.edge = edge] ELSE d :
      d \in Write(b, level) }

(* Wrong: whatever caps also saves.                                        *)
CapSaving(b, cap, edge) ==
  IF UserTookOver(b) THEN {[b EXCEPT !.saved = Nothing, !.set = b.panel]}
  ELSE IF b.panel > cap THEN Dim([b EXCEPT !.saved = b.panel], cap, edge)
  ELSE {b}

(* brightness_cap: dims to the cap unless the user has the panel.          *)
Cap(b, cap, edge) ==
  IF UserTookOver(b) THEN {[b EXCEPT !.saved = Nothing, !.set = b.panel]}
  ELSE IF b.panel > cap THEN Dim(b, cap, edge) ELSE {b}

(* brightness_save_and_cap: likewise, and keeps the level of before.       *)
SaveAndCap(b, cap) ==
  IF UserTookOver(b) THEN Cap(b, cap, "unplug")
  ELSE Cap([b EXCEPT !.saved = b.panel], cap, "unplug")

(* brightness_restore.                                                     *)
Restore(b) ==
  LET t == [b EXCEPT !.saved = Nothing] IN
  IF b.saved = Nothing THEN {b}
  ELSE IF UserTookOver(b) THEN {[t EXCEPT !.set = b.panel]}
  ELSE Write(t, b.saved)

Half    == (MaxLevel * 50) \div 100
Quarter == (MaxLevel * 25) \div 100

(* What an edge of the base state does to the panel.                       *)
Edges(prev, base, b) ==
  LET unplug == AcAxis(prev) /\ ~AcAxis(base)
      low    == base = "battery-low" /\ prev # "battery-low"
      plugin == ~AcAxis(prev) /\ AcAxis(base)
      half   == IF unplug THEN SaveAndCap(b, Half) ELSE {b}
      lower  == IF low THEN UNION {Cap(d, Quarter, "low") : d \in half} ELSE half
  IN IF prev = Nothing THEN {b}
     ELSE IF plugin
     THEN { [d EXCEPT !.from = Nothing, !.edge = "none"] : d \in Restore(b) }
     ELSE lower

-----------------------------------------------------------------------------
(* The policy check and the calls of powerd.                               *)

(* Stamping and expiry.                                                    *)
Overridden(c) ==
  IF Expired(c) THEN [c EXCEPT !.override = Nothing, !.stamp = Nothing]
  ELSE IF c.override # Nothing /\ c.stamp = Nothing
  THEN [c EXCEPT !.stamp = Base(c)] ELSE c

(* apply_power_profile: asks only for what is not applied already, and a   *)
(* call that fails, applied or not, turns power profiles off until powerd  *)
(* appears.                                                                *)
Applies(c, a) ==
  IF c.applied = Desired(c) \/ ~c.avail
  THEN {[ctx |-> c, active |-> a]}
  ELSE {[ctx |-> [c EXCEPT !.applied = Desired(c)], active |-> Desired(c)]}
       \cup [ctx : {[c EXCEPT !.avail = FALSE]}, active : {a, Desired(c)}]

(* sync_dgpu_pin: another call that may fail.                              *)
PinPushed(c) == {c, [c EXCEPT !.avail = FALSE]}

(* power_policy_check on the context c, the override file holding f; after *)
(* it the push of the pin may turn powerd off.                             *)
PolicyCheckThen(c, f, lost) ==
  /\ file' = IF Expired(c) THEN Nothing ELSE f
  /\ \E r \in Applies(Overridden(c), active) :
       /\ ctx' = [r.ctx EXCEPT !.lastBase = Base(c), !.avail = @ /\ ~lost]
       /\ active' = r.active
  /\ bright' \in Edges(c.lastBase, Base(c), [bright EXCEPT !.failed = FALSE])

PolicyCheck(c, f) == PolicyCheckThen(c, f, FALSE)

-----------------------------------------------------------------------------
(* The handlers of the dispatcher.                                         *)

Moves == moves < MaxMoves /\ moves' = moves + 1

(* The first event a daemon handles is the MonitorsChanged of its start.   *)
Handles == Moves /\ ctx.lastBase # Nothing

(* AcChanged: the raw axis at once, the settle timer again.                *)
AcChanged ==
  /\ Handles
  /\ ctx' \in PinPushed([ctx EXCEPT !.ac = ~ctx.ac])
  /\ settling' = TRUE
  /\ UNCHANGED <<topology, file, seen, queue, active, bright>>

PowerAcSettled ==
  /\ settling
  /\ settling' = FALSE
  /\ PolicyCheck([ctx EXCEPT !.settled = ctx.ac], file)
  /\ UNCHANGED <<topology, seen, queue, moves>>

(* A percentage that leaves the hysteresis state alone gets here when the  *)
(* battery-low request, which is LidSuspend's, changed with it.            *)
BatteryPercent ==
  \E pct \in Pct :
    /\ Handles
    /\ PolicyCheck([ctx EXCEPT !.low = BatteryLowStep(ctx.low, pct)], file)
    /\ UNCHANGED <<settling, topology, seen, queue>>

(* The count is read now, or kept when hyprctl fails; the policy hears of  *)
(* it with the MonitorsChanged that this or changed profiles schedule.     *)
MonitorHotplug ==
  /\ Handles
  /\ \E docked \in BOOLEAN : ctx' = [ctx EXCEPT !.docked = docked]
  /\ topology' = TRUE
  /\ UNCHANGED <<settling, file, seen, queue, active, bright>>

MonitorsChanged ==
  /\ topology
  /\ topology' = FALSE
  /\ \E c \in PinPushed(ctx) : PolicyCheck(c, file)
  /\ UNCHANGED <<settling, seen, queue, moves>>

(* Wrong: the charger is repaired in the context and settles never.        *)
ReconcileTickUnsettled ==
  \E ac, docked \in BOOLEAN :
    /\ Handles
    /\ ac # ctx.ac \/ docked # ctx.docked
    /\ topology' = (topology \/ docked # ctx.docked)
    /\ ctx' = [ctx EXCEPT !.ac = ac, !.docked = docked, !.settled = ac]
    /\ UNCHANGED <<settling, file, seen, queue, active, bright>>

(* A reconcile pass that found charger or outputs other than known.        *)
ReconcileTick ==
  \E ac, docked \in BOOLEAN :
    /\ Handles
    /\ ac # ctx.ac \/ docked # ctx.docked
    /\ topology' = (topology \/ docked # ctx.docked)
    /\ PolicyCheck([ctx EXCEPT !.ac = ac, !.docked = docked, !.settled = ac],
                   file)
    /\ UNCHANGED <<settling, seen, queue>>

(* Wrong: any word of the file is taken for a profile.                     *)
ToldTrusting(c, word) ==
  IF word = c.override THEN c
  ELSE [c EXCEPT !.override = word, !.stamp = Nothing]

(* The context after the file task's word: an echo of what it holds, or a  *)
(* word that is no profile, changes nothing.                               *)
Told(c, word) ==
  IF word = Nothing
  THEN [c EXCEPT !.override = Nothing, !.stamp = Nothing]
  ELSE IF word \in Profiles /\ word # c.override
  THEN [c EXCEPT !.override = word, !.stamp = Nothing]
  ELSE c

PowerOverrideChanged ==
  /\ queue # <<>> /\ ctx.lastBase # Nothing
  /\ queue' = Tail(queue)
  /\ PolicyCheck(Told(ctx, Head(queue)), file)
  /\ UNCHANGED <<settling, topology, seen, moves>>

(* Somebody else's platform_profile is adopted: context and file at once.  *)
PlatformProfileChanged(p) ==
  /\ Handles
  /\ \E lost \in BOOLEAN :
       PolicyCheckThen([ctx EXCEPT !.override = p, !.stamp = Nothing], p, lost)
  /\ UNCHANGED <<settling, topology, seen, queue>>

(* The gpu-select override, or platform_profile with the daemon's own      *)
(* value: only the push of the pin, whose failure turns powerd off.        *)
GpuOverrideChanged ==
  /\ Handles
  /\ ctx' \in PinPushed(ctx)
  /\ UNCHANGED <<settling, topology, file, seen, queue, active, bright>>

(* Wrong: what was applied before powerd went is believed.                 *)
PowerdAppearedTrusting ==
  /\ Handles
  /\ PolicyCheck([ctx EXCEPT !.avail = TRUE, !.settled = ctx.ac], file)
  /\ UNCHANGED <<settling, topology, seen, queue>>

PowerdAppeared ==
  /\ Handles
  /\ PolicyCheck([ctx EXCEPT !.avail = TRUE, !.settled = ctx.ac,
                             !.applied = IF ctx.avail THEN @ ELSE Nothing],
                 file)
  /\ UNCHANGED <<settling, topology, seen, queue>>

(* brightness_rearm: what the panel shows after a resume is the daemon's.  *)
Resumed ==
  /\ Handles
  /\ bright' = [bright EXCEPT !.set = bright.panel, !.failed = FALSE]
  /\ UNCHANGED <<ctx, settling, topology, file, seen, queue, active>>

-----------------------------------------------------------------------------
(* The file task, the user, the daemon's life.                             *)

(* The file task finds another word than it reported last.                 *)
FileTask ==
  /\ file # seen
  /\ Len(queue) < MaxQueue
  /\ seen' = file
  /\ queue' = Append(queue, file)
  /\ UNCHANGED <<ctx, settling, topology, file, active, bright, moves>>

(* hyprstate power set, or auto; an editor may write any word.             *)
PowerSet(word) ==
  /\ Moves
  /\ word # file
  /\ file' = word
  /\ UNCHANGED <<ctx, settling, topology, seen, queue, active, bright>>

(* The user moves the panel, which thereby is none of the daemon's.        *)
UserBrightness(level) ==
  /\ Moves
  /\ level # bright.panel
  /\ bright' = [bright EXCEPT !.panel = level, !.from = Nothing,
                              !.edge = "none", !.failed = FALSE]
  /\ UNCHANGED <<ctx, settling, topology, file, seen, queue, active>>

Started(ac, docked, low) ==
  [ ac |-> ac, settled |-> ac, docked |-> docked, low |-> low,
    override |-> Nothing, stamp |-> Nothing, applied |-> Nothing,
    avail |-> TRUE, lastBase |-> Nothing ]

(* A start reads the world, and has MonitorsChanged and the word of the    *)
(* override file in the channel before anything else.                      *)
Restart ==
  /\ Moves
  /\ \E ac, docked, low \in BOOLEAN : ctx' = Started(ac, docked, low)
  /\ settling' = FALSE /\ topology' = TRUE
  /\ seen' = file /\ queue' = <<file>>
  /\ bright' = [bright EXCEPT !.set = Nothing, !.saved = Nothing,
                              !.from = Nothing, !.edge = "none",
                              !.failed = FALSE]
  /\ UNCHANGED <<file, active>>

Init ==
  /\ \E ac, docked, low \in BOOLEAN : ctx = Started(ac, docked, low)
  /\ settling = FALSE /\ topology = TRUE
  /\ file \in Maybe(Words) /\ seen = file /\ queue = <<file>>
  /\ active \in Profiles
  /\ bright \in { [panel |-> l, set |-> Nothing, saved |-> Nothing,
                   from |-> Nothing, edge |-> "none", failed |-> FALSE] :
                    l \in Level }
  /\ moves = 0

Next ==
  \/ AcChanged \/ PowerAcSettled \/ BatteryPercent
  \/ MonitorHotplug \/ MonitorsChanged \/ ReconcileTick
  \/ PowerOverrideChanged \/ GpuOverrideChanged
  \/ PowerdAppeared \/ Resumed
  \/ \E p \in Profiles : PlatformProfileChanged(p)
  \/ FileTask
  \/ \E word \in Maybe(Words) : PowerSet(word)
  \/ \E level \in Level : UserBrightness(level)
  \/ Restart

Spec == Init /\ [][Next]_vars

-----------------------------------------------------------------------------
(* Whenever powerd answers, and no dock change is still on its way to the  *)
(* policy, powerd is on the profile the context calls for.                 *)
InForce ==
  ctx.avail /\ ~topology /\ ctx.lastBase # Nothing => active = Desired(ctx)

(* No override outlives the side of the charger it was made on, nor a      *)
(* battery that has become low under it.                                   *)
OverrideOfThisAxis ==
  ctx.override # Nothing /\ ctx.stamp # Nothing =>
    /\ AcAxis(Base(ctx)) = AcAxis(ctx.stamp)
    /\ Base(ctx) = "battery-low" => ctx.stamp = "battery-low"

(* The daemon takes away the user's word only when the axis has flipped or *)
(* the battery has become low since its last check, never for a dock.      *)
ExpiresOnlySo ==
  [][file # Nothing /\ file' = Nothing /\ ctx' # ctx =>
       \/ AcAxis(ctx'.lastBase) # AcAxis(ctx.lastBase)
       \/ ctx'.lastBase = "battery-low" /\ ctx.lastBase # "battery-low"]_vars

(* A panel dimmed by the unplug comes back with the charger, unless the    *)
(* user has moved it since or logind refuses.                              *)
UnplugDimUndone ==
  [][~AcAxis(ctx.lastBase) /\ AcAxis(ctx'.lastBase) /\ bright.edge = "unplug"
       => bright'.panel = bright.from \/ bright'.failed]_vars
=============================================================================
