------------------------------- MODULE MCDesk -------------------------------
(***************************************************************************)
(* The parts of the system that share no state with the lid machine nor,   *)
(* in these models, with each other: power policy, keyboard backlight, GPU *)
(* advice and the sleep hook.  One behaviour follows one of them, which    *)
(* `focus` names, while the others rest in an initial state.               *)
(***************************************************************************)
EXTENDS PowerPolicy, Keyboard, GpuSession, SleepHook

VARIABLE focus

deskVars == <<focus, vars, kbdVars, gpuVars, hookVars>>

AllProfiles == {"power-saver", "balanced", "performance"}

(* A policy that tells docked, plugged and battery apart.                  *)
DefaultPolicy ==
  [ b \in BaseState |-> CASE b = "docked-ac" -> "performance"
                          [] b = "ac" -> "balanced"
                          [] OTHER -> "power-saver" ]

(* The CLI writes profiles; an editor may write anything.                  *)
SomeWords == AllProfiles \cup {"turbo"}

(* An integrated card with the panel and two equal discrete ones.          *)
ThreeCards ==
  << [bootVga |-> TRUE,  vram |-> 1, edp |-> TRUE],
     [bootVga |-> FALSE, vram |-> 2, edp |-> FALSE],
     [bootVga |-> FALSE, vram |-> 2, edp |-> FALSE] >>

DeskPrefs ==
  { [s \in SUBSET CardIds |-> IF 2 \in s THEN "dgpu" ELSE "nomatch"],
    [s \in SUBSET CardIds |-> IF s = {} THEN "igpu" ELSE "auto"] }

PolicyRests ==
  /\ Init
  /\ ctx = Started(FALSE, FALSE, FALSE) /\ file = Nothing
  /\ active = "balanced" /\ bright.panel = 1

KbdRests ==
  /\ KbdInit
  /\ ~hint /\ ~input /\ ~gloom /\ led = 0 /\ levelFile = NoLevel /\ ~markFile

GpuRests ==
  /\ GpuInit
  /\ plugged = {} /\ ~lidShut /\ platform = "balanced"
  /\ gpuOverride = "none" /\ prefs = CHOOSE p \in Preferences : TRUE
  /\ session.aq # <<>>

(* The words start plain and move from there.                              *)
GpuBegins == GpuInit /\ gpuOverride = "none" /\ platform = "balanced"

HookRests == HookInit /\ attached = {} /\ touchpad = "absent"

DeskInit ==
  \/ focus = "policy" /\ KbdRests /\ GpuRests /\ HookRests /\ Init
  \/ focus = "kbd" /\ PolicyRests /\ GpuRests /\ HookRests /\ KbdInit
  \/ focus = "gpu" /\ PolicyRests /\ KbdRests /\ HookRests /\ GpuBegins
  \/ focus = "hook" /\ PolicyRests /\ KbdRests /\ GpuRests /\ HookInit

PolicyStep == focus = "policy" /\ Next    /\ UNCHANGED <<focus, kbdVars, gpuVars, hookVars>>
KbdStep    == focus = "kbd"    /\ KbdNext /\ UNCHANGED <<focus, vars, gpuVars, hookVars>>
GpuStep    == focus = "gpu"    /\ GpuNext /\ UNCHANGED <<focus, vars, kbdVars, hookVars>>
HookStep   == focus = "hook"   /\ HookNext /\ UNCHANGED <<focus, vars, kbdVars, gpuVars>>

DeskNext == PolicyStep \/ KbdStep \/ GpuStep \/ HookStep

DeskSpec == DeskInit /\ [][DeskNext]_deskVars

(* Every variable of the three smaller parts holds a value of its kind.    *)
PartsTypeOK == KbdTypeOK /\ GpuTypeOK /\ HookTypeOK
=============================================================================
