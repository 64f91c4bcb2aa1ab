------------------------------ MODULE Keyboard ------------------------------
(***************************************************************************)
(* The keyboard backlight: lit only while the room is dark, or a manual    *)
(* override stands, and the user is typing in an awake, unlocked session.  *)
(*                                                                         *)
(* Four tasks take part: the Wayland idle notification, the state-file     *)
(* task (which reports edges of two files), the logind watchers, and the   *)
(* dispatcher, whose every handler ends in one policy check.  The `kbd`    *)
(* CLI writes the level and then the override marker, as two files.        *)
(***************************************************************************)
EXTENDS Naturals, Sequences

CONSTANTS
  FullLevel,   \* 100 percent, in steps of KBD_LEVEL_STEP
  HalfLevel,   \* DEFAULT_KBD_LEVEL_PCT
  LedMax,      \* max_brightness of the LED
  NoLevel,     \* no level file; no LED value known
  MaxKbdMoves, \* moves of the user, the machine and the sensors
  MaxKbdQueue  \* events that may wait

ASSUME KeyboardAssumption ==
  /\ FullLevel \in Nat \ {0} /\ HalfLevel \in 0..FullLevel
  /\ LedMax \in Nat \ {0}
  /\ NoLevel \notin Nat
  /\ MaxKbdMoves \in Nat /\ MaxKbdQueue \in Nat \ {0}

VARIABLES
  \* the machine
  hint,        \* logind's LockedHint
  asleep,      \* between PrepareForSleep(true) and the resume
  input,       \* input within the last kbd-idle seconds
  gloom,       \* what the light sensor would read: a dark room
  led,         \* raw brightness, NoLevel while the LED is absent
  levelFile,   \* ~/.config/hypr/kbd-level
  markFile,    \* $XDG_RUNTIME_DIR/hyprstate-kbd-override exists
  press,       \* the level of a `kbd` command half done
  \* the tasks
  notifier,    \* "none", or what the compositor last said: "active", "idle"
  kseen,       \* the file task's last values
  kctx,        \* the keyboard fields of Context
  kqueue,      \* events for the dispatcher
  \* the record
  kmoves,
  untold       \* the daemon was not told of something: a lost lock signal,
               \* an LED replaced unseen, a refused SetBrightness

kbdVars == <<hint, asleep, input, gloom, led, levelFile, markFile, press,
             notifier, kseen, kctx, kqueue, kmoves, untold>>
roomVars    == <<hint, asleep, input, gloom, levelFile, markFile, press>>

KbdLevel == 0..FullLevel
Raw      == 0..LedMax
Stored   == KbdLevel \cup {NoLevel}

KbdContext ==
  [ locked : BOOLEAN, sleeping : BOOLEAN, typing : BOOLEAN, dark : BOOLEAN,
    override : BOOLEAN, level : KbdLevel, present : BOOLEAN,
    applied : Raw \cup {NoLevel} ]

KbdEvent ==
  [kind : {"lock", "idle", "override"}, on : BOOLEAN]
    \cup [kind : {"level"}, level : Stored]
    \cup [kind : {"sleep", "resumed", "hotplug"}]

KbdTypeOK ==
  /\ hint \in BOOLEAN /\ asleep \in BOOLEAN /\ input \in BOOLEAN
  /\ gloom \in BOOLEAN
  /\ led \in Raw \cup {NoLevel}
  /\ levelFile \in Stored /\ markFile \in BOOLEAN /\ press \in Stored
  /\ notifier \in {"none", "active", "idle"}
  /\ kseen \in [level : Stored, mark : BOOLEAN]
  /\ kctx \in KbdContext
  /\ kqueue \in Seq(KbdEvent)
  /\ kmoves \in Nat /\ untold \in BOOLEAN

-----------------------------------------------------------------------------
(* Pure maps (hyprstate-fsm::kbd).                                         *)

(* Wrong: nobody need be typing.                                           *)
KbdLitAlone(c) == ~c.locked /\ ~c.sleeping /\ (c.dark \/ c.override)

KbdLit(c) ==
  ~c.locked /\ ~c.sleeping /\ c.typing /\ (c.dark \/ c.override)

OrDefault(l) == IF l = NoLevel THEN HalfLevel ELSE l

(* Wrong: clamped below only.                                             *)
StepLevelUnclamped(l, up) ==
  IF up THEN l + 1 ELSE IF l > 0 THEN l - 1 ELSE 0

StepLevel(l, up) ==
  IF up THEN IF l < FullLevel THEN l + 1 ELSE FullLevel
        ELSE IF l > 0 THEN l - 1 ELSE 0

(* Rounded to nearest, and never 0 for a level that is not.                *)
LevelToRaw(l) ==
  LET raw == (2 * LedMax * l + FullLevel) \div (2 * FullLevel)
  IN  IF l = 0 THEN 0
      ELSE IF raw < 1 THEN 1
      ELSE IF raw > LedMax THEN LedMax ELSE raw

-----------------------------------------------------------------------------
(* kbd_set: write the LED unless the value is the one last written.  A     *)
(* refused write leaves that value alone.                                  *)
KbdSet(d, level) ==
  LET raw == LevelToRaw(level)
  IN  IF ~d.present \/ d.applied = raw
      THEN kctx' = d /\ UNCHANGED <<led, kmoves, untold>>
      ELSE \/ /\ led # NoLevel
              /\ led' = raw /\ kctx' = [d EXCEPT !.applied = raw]
              /\ UNCHANGED <<kmoves, untold>>
           \/ /\ led = NoLevel \/ kmoves < MaxKbdMoves
              /\ kmoves' = IF led = NoLevel THEN kmoves ELSE kmoves + 1
              /\ kctx' = d /\ untold' = TRUE
              /\ UNCHANGED led

(* kbd_policy_check: sample the sensor if asked to, decide, and set.       *)
KbdPolicyCheck(c, sample) ==
  LET d == IF sample /\ c.present THEN [c EXCEPT !.dark = gloom] ELSE c
  IN  KbdSet(d, IF KbdLit(d) THEN d.level ELSE 0)

(* discover_kbd: what was last written is forgotten if the LED is another. *)
Discovered(c) ==
  IF (led # NoLevel) = c.present THEN c
  ELSE [c EXCEPT !.present = led # NoLevel, !.applied = led]

(* kbd_release_override: an override the daemon knows of goes, its marker  *)
(* with it.                                                                *)
Released(c) ==
  /\ KbdPolicyCheck([c EXCEPT !.typing = FALSE, !.override = FALSE], FALSE)
  /\ markFile' = (markFile /\ ~c.override)

(* The events, each with the check it ends in.                             *)
HandleIdle(e) ==
  /\ e.kind = "idle"
  /\ \/ e.on /\ Released(kctx)
     \/ /\ ~e.on /\ KbdPolicyCheck([kctx EXCEPT !.typing = TRUE], TRUE)
        /\ UNCHANGED markFile

HandleOther(e) ==
  /\ CASE e.kind = "lock"     -> KbdPolicyCheck([kctx EXCEPT !.locked = e.on], FALSE)
       [] e.kind = "override" -> KbdPolicyCheck([kctx EXCEPT !.override = e.on], e.on)
       [] e.kind = "level"    -> KbdPolicyCheck(
                                   [kctx EXCEPT !.level = OrDefault(e.level)], TRUE)
       [] e.kind = "sleep"    -> KbdPolicyCheck([kctx EXCEPT !.sleeping = TRUE], FALSE)
       [] e.kind = "resumed"  -> KbdPolicyCheck([kctx EXCEPT !.sleeping = FALSE], FALSE)
       [] e.kind = "hotplug"  -> KbdPolicyCheck(Discovered(kctx), TRUE)
       [] OTHER -> FALSE
  /\ UNCHANGED markFile

KbdDispatch ==
  /\ kqueue # <<>> /\ kqueue' = Tail(kqueue)
  /\ HandleIdle(Head(kqueue)) \/ HandleOther(Head(kqueue))
  /\ UNCHANGED <<hint, asleep, input, gloom, levelFile, press, notifier, kseen>>

(* A reconcile pass repairs the lock flag and does not run the check.      *)
KbdReconcile ==
  /\ kctx.locked # hint
  /\ kctx' = [kctx EXCEPT !.locked = hint]
  /\ UNCHANGED <<roomVars, led, notifier, kseen, kqueue, kmoves, untold>>

-----------------------------------------------------------------------------
(* The sources.                                                            *)
KbdRoom == Len(kqueue) < MaxKbdQueue

KbdSend(e) == KbdRoom /\ kqueue' = Append(kqueue, e)

(* The compositor sends idled and resumed on the notification it holds.    *)
IdleNotify ==
  /\ notifier = IF input THEN "idle" ELSE "active"
  /\ notifier' = IF input THEN "active" ELSE "idle"
  /\ KbdSend([kind |-> "idle", on |-> ~input])
  /\ UNCHANGED <<roomVars, led, kseen, kctx, kmoves, untold>>

(* A new notification begins input, whatever the daemon believes.         *)
Reconnect ==
  /\ notifier = "none" /\ notifier' = "active"
  /\ UNCHANGED <<roomVars, led, kseen, kctx, kqueue, kmoves, untold>>

(* The file task reports what differs from what it reported last.          *)
SeeLevel ==
  /\ levelFile # kseen.level
  /\ kseen' = [kseen EXCEPT !.level = levelFile]
  /\ KbdSend([kind |-> "level", level |-> levelFile])
  /\ UNCHANGED <<roomVars, led, notifier, kctx, kmoves, untold>>

(* A safety tick reads both files, one after the other, so either change   *)
(* may be seen before the other.                                           *)
SeeMark ==
  /\ markFile # kseen.mark
  /\ kseen' = [kseen EXCEPT !.mark = markFile]
  /\ KbdSend([kind |-> "override", on |-> markFile])
  /\ UNCHANGED <<roomVars, led, notifier, kctx, kmoves, untold>>

-----------------------------------------------------------------------------
(* The user, the CLI and the machine.                                      *)
KbdMoves == kmoves < MaxKbdMoves /\ kmoves' = kmoves + 1

TypesOrStops ==
  /\ KbdMoves /\ ~asleep
  /\ input' = ~input
  /\ UNCHANGED <<hint, asleep, gloom, levelFile, markFile, press, led, notifier,
                 kseen, kctx, kqueue, untold>>

RoomChanges ==
  /\ KbdMoves
  /\ gloom' = ~gloom
  /\ UNCHANGED <<hint, asleep, input, levelFile, markFile, press, led, notifier,
                 kseen, kctx, kqueue, untold>>

(* Wrong: the marker first.                                                *)
MarkThenLevel == <<"mark", "level">>

(* apply writes two files, in this order.                                  *)
WriteOrder == <<"level", "mark">>

Written(what, l) ==
  IF what = "level" THEN levelFile' = l /\ UNCHANGED markFile
                    ELSE markFile' = TRUE /\ UNCHANGED levelFile

(* `kbd up` and `kbd down`, and `kbd set` to either end.                   *)
Press ==
  /\ KbdMoves /\ press = NoLevel
  /\ press' \in {StepLevel(OrDefault(levelFile), up) : up \in BOOLEAN}
                  \cup {0, FullLevel}
  /\ Written(WriteOrder[1], press')
  /\ UNCHANGED <<hint, asleep, input, gloom, led, notifier, kseen, kctx,
                 kqueue, untold>>

PressGoesOn ==
  /\ press # NoLevel /\ press' = NoLevel
  /\ Written(WriteOrder[2], press)
  /\ UNCHANGED <<hint, asleep, input, gloom, led, notifier, kseen, kctx,
                 kqueue, kmoves, untold>>

(* `kbd auto` *)
KbdAuto ==
  /\ KbdMoves /\ markFile /\ markFile' = FALSE
  /\ UNCHANGED <<hint, asleep, input, gloom, levelFile, press, led, notifier,
                 kseen, kctx, kqueue, untold>>

(* The lock signal reaches the channel, or is lost.                        *)
LocksOrUnlocks ==
  /\ KbdMoves /\ ~asleep /\ KbdRoom
  /\ hint' = ~hint
  /\ \/ kqueue' = Append(kqueue, [kind |-> "lock", on |-> ~hint])
        /\ UNCHANGED untold
     \/ untold' = TRUE /\ UNCHANGED kqueue
  /\ UNCHANGED <<asleep, input, gloom, levelFile, markFile, press, led,
                 notifier, kseen, kctx>>

SleepsOrWakes ==
  /\ KbdMoves /\ KbdRoom
  /\ asleep' = ~asleep
  /\ kqueue' = Append(kqueue, [kind |-> IF asleep THEN "resumed" ELSE "sleep"])
  /\ UNCHANGED <<hint, input, gloom, levelFile, markFile, press, led, notifier,
                 kseen, kctx, untold>>

(* The compositor restarts: the connection, and what was on it, is gone.   *)
CompositorRestarts ==
  /\ KbdMoves /\ notifier # "none" /\ notifier' = "none"
  /\ UNCHANGED <<roomVars, led, kseen, kctx, kqueue, untold>>

(* The LED's driver goes and comes back; back before the daemon has looked *)
(* it is taken for the same LED.                                           *)
LedHotplug ==
  /\ KbdMoves /\ KbdRoom
  /\ IF led = NoLevel
     THEN led' \in Raw /\ untold' = (untold \/ kctx.present)
     ELSE led' = NoLevel /\ UNCHANGED untold
  /\ kqueue' = Append(kqueue, [kind |-> "hotplug"])
  /\ UNCHANGED <<roomVars, notifier, kseen, kctx>>

-----------------------------------------------------------------------------
(* The daemon has started: files read, LED seeded, typing taken for false, *)
(* and the first check, which samples, about to run.                       *)
KbdInit ==
  /\ hint \in BOOLEAN /\ asleep = FALSE /\ input \in BOOLEAN
  /\ gloom \in BOOLEAN
  /\ led \in {0, LedMax}
  /\ levelFile \in {NoLevel, FullLevel} /\ markFile \in BOOLEAN
  /\ press = NoLevel
  /\ notifier = "none"
  /\ kseen = [level |-> levelFile, mark |-> markFile]
  /\ kctx = [locked |-> hint, sleeping |-> FALSE, typing |-> FALSE,
             dark |-> FALSE, override |-> markFile,
             level |-> OrDefault(levelFile), present |-> TRUE, applied |-> led]
  /\ kqueue = <<[kind |-> "hotplug"]>>
  /\ kmoves = 0 /\ untold = FALSE

KbdNext ==
  \/ KbdDispatch \/ KbdReconcile \/ IdleNotify \/ Reconnect
  \/ SeeLevel \/ SeeMark
  \/ TypesOrStops \/ RoomChanges \/ Press \/ PressGoesOn \/ KbdAuto
  \/ LocksOrUnlocks \/ SleepsOrWakes \/ CompositorRestarts \/ LedHotplug

KbdSpec == KbdInit /\ [][KbdNext]_kbdVars

-----------------------------------------------------------------------------
(* Every event has been handled and every notification given.             *)
KbdQuiet ==
  /\ kqueue = <<>> /\ press = NoLevel
  /\ notifier = IF input THEN "active" ELSE "idle"
  /\ kseen = [level |-> levelFile, mark |-> markFile]

(* Once everything has been handled the keys are dark on a session that is *)
(* locked, asleep or left alone, in whatever order the events came, unless *)
(* the daemon was never told (kbd_lit, and every handler's policy check).  *)
DarkWhenAway ==
  KbdQuiet /\ ~untold /\ (hint \/ asleep \/ ~input) => led \in {0, NoLevel}

(* An override never stands at another level than the one the last `kbd`   *)
(* asked for, unless that level is on its way: cli/kbd.rs:22, "the marker  *)
(* landing first would light the old level for one event".                 *)
OverrideAtNewLevel ==
  /\ kctx.override /\ kseen.level = levelFile
  /\ \A i \in DOMAIN kqueue : kqueue[i].kind # "level"
  => kctx.level = OrDefault(IF press # NoLevel THEN press ELSE levelFile)
=============================================================================
