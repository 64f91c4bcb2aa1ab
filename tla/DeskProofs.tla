---------------------------- MODULE DeskProofs ----------------------------
(***************************************************************************)
(* Theorems about SleepHook, for any wake devices and any number of        *)
(* attempts: what the pre hook leaves enabled stays so until the resume,   *)
(* and the rebind loop counts every bind that failed.                      *)
(*                                                                         *)
(* Then, about the parts MCDesk puts side by side: with the invariants of  *)
(* KeyboardProofs and GpuSessionProofs, each keeps its types whichever one *)
(* the behaviour follows.                                                  *)
(***************************************************************************)
EXTENDS MCDesk, GpuSessionProofs, KeyboardProofs

(* In the rebind loop every attempt but the one under way has failed.      *)
Counted == phase \in {"unbind", "bind"} => attempt >= 1 /\ binds = attempt - 1

HookInv == HookTypeOK /\ Counted /\ WakeArmed

(* What TouchpadRetried says of one step.                                  *)
Retried ==
  phase # "awake" /\ phase' = "awake" /\ touchpad' = "unbound"
    => binds' = Attempts

(* Whatever is attached was enabled by the run, or refused.                *)
LEMMA EnabledOrRefused ==
  ASSUME HookTypeOK, WakeEnabled
  PROVE  /\ armed' \subseteq attached /\ refusals' \subseteq WakeDevices
         /\ attached \ armed' \subseteq refusals'
         /\ hmoves' \in 0..MaxHookMoves
BY SleepHookAssumption DEF HookTypeOK, WakeEnabled, HookMoves

LEMMA HookInvInit == HookInit => HookInv
BY SleepHookAssumption
   DEF HookInit, HookInv, HookTypeOK, Counted, WakeArmed

LEMMA HookInvStep == HookInv /\ [HookNext]_hookVars => HookInv' /\ Retried
<1> SUFFICES ASSUME HookInv, [HookNext]_hookVars
             PROVE  HookInv' /\ Retried
  OBVIOUS
<1> USE SleepHookAssumption DEF HookInv, HookTypeOK, Counted, WakeArmed, Retried
<1>1. CASE GoesDown
  BY <1>1 DEF GoesDown
<1>2. CASE HookPre
  BY <1>2, EnabledOrRefused DEF HookPre
<1>3. CASE Resumes
  BY <1>3 DEF Resumes
<1>4. CASE HookPost
  BY <1>4, EnabledOrRefused DEF HookPost
<1>5. CASE Unbind
  BY <1>5 DEF Unbind, HookMoves
<1>6. CASE Bind
  BY <1>6 DEF Bind, HookMoves
<1>7. CASE DevicesMove
  BY <1>7 DEF DevicesMove, HookMoves
<1>8. CASE UNCHANGED hookVars
  BY <1>8 DEF hookVars
<1> QED BY <1>1, <1>2, <1>3, <1>4, <1>5, <1>6, <1>7, <1>8 DEF HookNext

(* Every variable of the hook holds a value of its kind, and in the rebind *)
(* loop the failures are one less than the attempts.                       *)
THEOREM HookInvHolds == HookSpec => []HookInv
BY HookInvInit, HookInvStep, PTL DEF HookSpec

(* For any devices the machine sleeps with every wake device enabled whose *)
(* write the kernel took (hook_pre runs enable_wakeups before the sleep).  *)
THEOREM AlwaysWakeArmed == HookSpec => []WakeArmed
<1>1. HookInv => WakeArmed
  BY DEF HookInv
<1> QED BY <1>1, HookInvHolds, PTL

(* For any number of attempts the hook gives an unbound touchpad up after  *)
(* the last of them only (rebind_touchpad).                                *)
THEOREM TouchpadNeverPassedOver == HookSpec => TouchpadRetried
<1>1. HookInv /\ [HookNext]_hookVars => [Retried]_hookVars
  BY HookInvStep
<1> QED BY <1>1, HookInvHolds, PTL DEF HookSpec, TouchpadRetried, Retried

-----------------------------------------------------------------------------
(* The parts side by side.                                                 *)
Parts == KbdInv /\ GpuTypeOK /\ HookInv

LEMMA PartsBegin == DeskInit => Parts
<1> SUFFICES ASSUME DeskInit PROVE Parts
  OBVIOUS
<1>1. KbdInit
  BY DEF DeskInit, KbdRests
<1>2. GpuInit
  BY DEF DeskInit, GpuRests, GpuBegins
<1>3. HookInit
  BY DEF DeskInit, HookRests
<1> QED BY <1>1, <1>2, <1>3, KbdInvInit, TypesStart, HookInvInit DEF Parts

LEMMA PartsKept == Parts /\ [DeskNext]_deskVars => Parts'
<1> SUFFICES ASSUME Parts, [DeskNext]_deskVars PROVE Parts'
  OBVIOUS
<1>1. [KbdNext]_kbdVars /\ [GpuNext]_gpuVars /\ [HookNext]_hookVars
  BY DEF DeskNext, PolicyStep, KbdStep, GpuStep, HookStep, deskVars
<1> QED BY <1>1, KbdInvStep, TypesKept, HookInvStep DEF Parts

(* Whichever part a behaviour follows, the keyboard, the GPU session and   *)
(* the hook keep their types: no list the compositor is given, and no      *)
(* level the LED is set to, is outside the machine's own.                  *)
THEOREM PartsTypeCorrect == DeskSpec => []PartsTypeOK
<1>1. Parts => PartsTypeOK
  BY DEF Parts, KbdInv, HookInv, PartsTypeOK
<1> QED BY <1>1, PartsBegin, PartsKept, PTL DEF DeskSpec
=============================================================================
