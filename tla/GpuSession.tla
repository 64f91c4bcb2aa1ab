----------------------------- MODULE GpuSession -----------------------------
(***************************************************************************)
(* Which GPUs the compositor is given at login, and what the daemon says   *)
(* of it while the session lasts.                                          *)
(*                                                                         *)
(* `gpu select` runs before the compositor and reads files only: the       *)
(* user's override, the breadcrumb the daemon left, platform_profile and   *)
(* the sockets.  The daemon resolves the same question with the profile it *)
(* has just matched, advises a relog when the session runs on another      *)
(* list, and has powerd pin the discrete GPU in dgpu mode.                 *)
(***************************************************************************)
EXTENDS Naturals, Sequences, FiniteSets

CONSTANTS
  Cards,         \* the PCI cards by path: [bootVga, vram, edp], a sequence
  Preferences,   \* what the profiles may say: functions from the cards that
                 \* drive a monitor to "auto", "igpu", "dgpu" or "nomatch"
  OverrideWords, \* what the gpu-select file may hold
  PlatformWords, \* what platform_profile may hold
  MaxGpuMoves    \* moves of the user, the machine and powerd

CardIds == 1..Len(Cards)

ASSUME GpuAssumption ==
  /\ Cards \in Seq([bootVga : BOOLEAN, vram : Nat, edp : BOOLEAN])
  /\ Preferences \subseteq
       [SUBSET CardIds -> {"auto", "igpu", "dgpu", "nomatch"}]
  /\ OverrideWords \subseteq STRING /\ PlatformWords \subseteq STRING
  /\ MaxGpuMoves \in Nat

VARIABLES
  \* the machine and the files
  plugged,     \* the cards with an external monitor
  usbDisplay,  \* a DisplayLink monitor is connected
  lidShut,
  prefs,       \* the profile directory
  gpuOverride, \* ~/.config/hypr/gpu-select
  platform,    \* /sys/firmware/acpi/platform_profile
  breadcrumb,  \* ~/.config/hypr/gpu-profile, "none" if absent
  dgpuPin,     \* what powerd holds the discrete GPU's runtime PM to
  session,     \* AQ_DRM_DEVICES of the compositor, and whether select bailed
  \* the daemon
  gctx,        \* the GPU fields of Context
  reach,       \* powerd_available
  due,         \* a hotplug, an edit or a start waits for MonitorsChanged
  gate,        \* an event waits that is checked for drift alone
  \* the record
  gmoves, told, swallowed, blind

machine == <<plugged, usbDisplay, lidShut, prefs, gpuOverride, platform>>
gpuVars == <<plugged, usbDisplay, lidShut, prefs, gpuOverride, platform,
             breadcrumb, dgpuPin, session, gctx, reach, due, gate,
             gmoves, told, swallowed, blind>>

GpuMode  == {"auto", "igpu", "dgpu", "off"}
Device   == Seq(CardIds)

GpuContext ==
  [ pending : BOOLEAN, managed : BOOLEAN, actual : Device, notified : Device,
    cooling : BOOLEAN, pinned : {"none", "awake", "auto"} ]

GpuTypeOK ==
  /\ plugged \subseteq CardIds
  /\ usbDisplay \in BOOLEAN /\ lidShut \in BOOLEAN
  /\ prefs \in Preferences
  /\ gpuOverride \in OverrideWords /\ platform \in PlatformWords
  /\ breadcrumb \in {"none", "igpu", "dgpu"}
  /\ dgpuPin \in {"awake", "auto"}
  /\ session \in [aq : Device, bailed : BOOLEAN]
  /\ gctx \in GpuContext
  /\ reach \in BOOLEAN /\ due \in BOOLEAN /\ gate \in BOOLEAN
  /\ gmoves \in 0..MaxGpuMoves
  /\ told \in SUBSET Device
  /\ swallowed \in BOOLEAN /\ blind \in BOOLEAN

-----------------------------------------------------------------------------
(* Pure maps (hyprstate-fsm::gpu).                                         *)

(* Override over profile over platform_profile; what is not a mode falls   *)
(* through.                                                                *)
ResolveMode(word, overlay, profile) ==
  IF word \in {"igpu", "dgpu", "off"} THEN word
  ELSE IF overlay \in {"igpu", "dgpu"} THEN overlay
  ELSE IF profile \in {"low-power", "quiet"} THEN "igpu"
  ELSE IF profile = "performance" THEN "dgpu" ELSE "auto"

(* The one card on which boot_vga and the smallest memory agree, if any.   *)
IntegratedCard ==
  LET small == {i \in CardIds : \A j \in CardIds : Cards[i].vram <= Cards[j].vram}
      vga   == {i \in CardIds : Cards[i].bootVga}
  IN  IF Cardinality(vga) = 1 THEN vga \cap small
      ELSE IF vga = {} /\ Cardinality(small) = 1 THEN small ELSE {}

(* gpu_snapshot: what the maps below read of the machine.                  *)
Snapshot == [external |-> plugged, nonPci |-> usbDisplay, shut |-> lidShut]

Displays(s, i) == i \in s.external \/ Cards[i].edp

(* Driving a monitor first, then the larger memory, then the path.         *)
Ahead(s, i, j) ==
  \/ i \in s.external /\ j \notin s.external
  \/ /\ i \in s.external <=> j \in s.external
     /\ \/ Cards[i].vram > Cards[j].vram
        \/ Cards[i].vram = Cards[j].vram /\ i < j

InOrder(s, cards) ==
  CHOOSE q \in [1..Cardinality(cards) -> cards] :
    \A m, n \in DOMAIN q : m < n => Ahead(s, q[m], q[n])

(* The list a mode gives when the cards are told apart, primary first.     *)
Listed(s, mode, integrated) ==
  LET discretes == CardIds \ {integrated}
      best == InOrder(s, discretes)[1]
      primary == IF mode = "dgpu" \/ (mode = "auto" /\ Displays(s, best))
                 THEN best ELSE integrated
      kept == {i \in discretes \ {primary} : mode = "auto" \/ Displays(s, i)}
  IN  <<primary>>
        \o (IF primary = integrated THEN <<>> ELSE <<integrated>>)
        \o InOrder(s, kept)

Usable(s, list) ==
  \E n \in DOMAIN list :
    list[n] \in s.external \/ (~s.shut /\ Cards[list[n]].edp)

(* gpu_desired: the list, empty for none, and whether trying later may     *)
(* give one.                                                               *)
GpuDesired(s, mode) ==
  LET managed == /\ mode # "off" /\ Len(Cards) >= 2 /\ ~s.nonPci
                 /\ IntegratedCard # {}
      list == Listed(s, mode, CHOOSE i \in IntegratedCard : TRUE)
      dark == s.shut /\ s.external = {}
  IN  IF managed /\ ~dark /\ Usable(s, list)
      THEN [list |-> list, bailed |-> FALSE]
      ELSE [list |-> <<>>, bailed |-> managed]

-----------------------------------------------------------------------------
(* The profile matched just now; and what the next login would choose.     *)
FreshPref == prefs[plugged]

DaemonMode == ResolveMode(gpuOverride, FreshPref, platform)
SelectMode(crumb) == ResolveMode(gpuOverride, crumb, platform)
Wanted     == GpuDesired(Snapshot, DaemonMode).list

(* Wrong: only a match is worth writing down.                              *)
CrumbOfMatch(pref, old) == IF pref = "nomatch" THEN old
                           ELSE IF pref = "auto" THEN "none" ELSE pref

(* write_gpu_breadcrumb: auto, and no match, clear it.                     *)
Crumb(pref, old) == IF pref \in {"igpu", "dgpu"} THEN pref ELSE "none"

(* AQ_DRM_DEVICES in the environment of the running compositor.            *)
AqDevices == session.aq

(* resolve_gpu_actual: waits for a compositor; an unset variable is an     *)
(* unmanaged session unless select had to give up.                         *)
Actual(c) ==
  IF ~c.pending THEN {c}
  ELSE {c, [c EXCEPT !.pending = FALSE, !.actual = AqDevices,
                     !.managed = AqDevices # <<>> \/ session.bailed]}

Silent(c, want) == c.pending \/ ~c.managed \/ want = <<>>
Adrift(c, want) == ~Silent(c, want) /\ want # c.actual

(* Wrong: back in step, the last advice is still remembered.               *)
DriftCheckedForEver(c, want) ==
  IF Adrift(c, want) /\ c.notified # want /\ ~c.cooling
  THEN [c EXCEPT !.notified = want, !.cooling = TRUE] ELSE c

(* check_and_notify_drift: once for each list, and once in a minute.       *)
DriftChecked(c, want) ==
  IF Silent(c, want) THEN c
  ELSE IF want = c.actual THEN [c EXCEPT !.notified = <<>>]
  ELSE IF c.notified = want \/ c.cooling THEN c
  ELSE [c EXCEPT !.notified = want, !.cooling = TRUE]

(* sync_dgpu_pin: a call only if another pin is wanted; it may fail, with  *)
(* or without having been carried out.                                     *)
PinSynced(c, to) ==
  IF c.pinned = to \/ ~reach
  THEN gctx' = c /\ UNCHANGED <<dgpuPin, reach, gmoves>>
  ELSE \/ /\ gctx' = [c EXCEPT !.pinned = to]
          /\ dgpuPin' = to
          /\ UNCHANGED <<reach, gmoves>>
       \/ /\ gmoves < MaxGpuMoves /\ gmoves' = gmoves + 1
          /\ gctx' = c /\ dgpuPin' \in {dgpuPin, to} /\ reach' = FALSE

(* gpu_drift_check and the pin, which end two handlers.                    *)
DriftAndPin ==
  /\ \E c \in Actual(gctx) :
       LET d == DriftChecked(c, Wanted) IN
         /\ PinSynced(d, IF DaemonMode = "dgpu" THEN "awake" ELSE "auto")
         /\ told' = IF Silent(c, Wanted) THEN told
                    ELSE IF Wanted = c.actual THEN {}
                    ELSE IF d # c THEN told \cup {Wanted} ELSE told
         /\ swallowed' = (Adrift(c, Wanted) /\ d = c /\ c.notified # Wanted)
  /\ blind' = FALSE

-----------------------------------------------------------------------------
(* The daemon.                                                             *)

(* The breadcrumb first, then the check.                                   *)
GpuMonitorsChanged ==
  /\ due /\ due' = FALSE
  /\ breadcrumb' = Crumb(FreshPref, breadcrumb)
  /\ DriftAndPin
  /\ UNCHANGED <<machine, session, gate>>

(* Charger, platform_profile and override events.                          *)
DriftGate ==
  /\ gate /\ gate' = FALSE
  /\ DriftAndPin
  /\ UNCHANGED <<machine, breadcrumb, session, due>>

(* Wrong: the pin pushed before powerd went is believed.                   *)
PowerdBackTrusting ==
  /\ ~reach /\ reach' = TRUE
  /\ UNCHANGED <<machine, breadcrumb, dgpuPin, session, gctx, due, gate,
                 gmoves, told, swallowed, blind>>

(* powerd is back: the pin is pushed again, when something next asks.      *)
PowerdBack ==
  /\ ~reach /\ reach' = TRUE
  /\ gctx' = [gctx EXCEPT !.pinned = "none"]
  /\ UNCHANGED <<machine, breadcrumb, dgpuPin, session, due, gate,
                 gmoves, told, swallowed, blind>>

(* GPU_NOTIFY_MIN has passed.                                              *)
Cooled ==
  /\ gctx.cooling /\ gctx' = [gctx EXCEPT !.cooling = FALSE]
  /\ UNCHANGED <<machine, breadcrumb, dgpuPin, session, reach, due, gate,
                 gmoves, told, swallowed, blind>>

-----------------------------------------------------------------------------
(* The user and the machine.                                               *)
GpuMoves == gmoves < MaxGpuMoves /\ gmoves' = gmoves + 1

Replugged ==
  /\ GpuMoves /\ due' = TRUE
  /\ \/ plugged' \in {plugged \cup {i} : i \in CardIds}
                       \cup {plugged \ {i} : i \in CardIds}
        /\ UNCHANGED usbDisplay
     \/ usbDisplay' = ~usbDisplay /\ UNCHANGED plugged
  /\ UNCHANGED <<lidShut, prefs, gpuOverride, platform, breadcrumb, dgpuPin,
                 session, gctx, reach, gate, told, swallowed, blind>>

ProfilesEdited ==
  /\ GpuMoves /\ due' = TRUE
  /\ prefs' \in Preferences
  /\ UNCHANGED <<plugged, usbDisplay, lidShut, gpuOverride, platform,
                 breadcrumb, dgpuPin, session, gctx, reach, gate, told,
                 swallowed, blind>>

(* The lid alone is no reason to look at the GPUs.                         *)
LidMoved ==
  /\ GpuMoves /\ lidShut' = ~lidShut /\ blind' = TRUE
  /\ UNCHANGED <<plugged, usbDisplay, prefs, gpuOverride, platform,
                 breadcrumb, dgpuPin, session, gctx, reach, due, gate, told,
                 swallowed>>

(* A word written to either file, or the charger.                          *)
ModeMoved ==
  /\ GpuMoves /\ gate' = TRUE
  /\ \/ gpuOverride' \in OverrideWords /\ UNCHANGED platform
     \/ platform' \in PlatformWords /\ UNCHANGED gpuOverride
  /\ UNCHANGED <<plugged, usbDisplay, lidShut, prefs, breadcrumb, dgpuPin,
                 session, gctx, reach, due, told, swallowed, blind>>

NewGpuContext ==
  [ pending |-> TRUE, managed |-> FALSE, actual |-> <<>>, notified |-> <<>>,
    cooling |-> FALSE, pinned |-> "none" ]

(* What select leaves behind: its output and its state file.              *)
Left(list, bailed) == [aq |-> list, bailed |-> bailed]

(* `gpu select`: one retry, then the list or nothing; a device node that   *)
(* is missing makes it nothing, which is remembered like a bail.           *)
Selected(crumb) ==
  LET r == GpuDesired(Snapshot, SelectMode(crumb))
  IN  {Left(r.list, r.bailed)}
        \cup (IF r.list = <<>> THEN {} ELSE {Left(<<>>, TRUE)})

(* A relog: select, a new compositor, and the daemon started with it.      *)
Relog ==
  /\ GpuMoves
  /\ session' \in Selected(breadcrumb)
  /\ gctx' = NewGpuContext /\ reach' = TRUE
  /\ due' = TRUE /\ gate' = FALSE
  /\ told' = {} /\ swallowed' = FALSE /\ blind' = FALSE
  /\ UNCHANGED <<machine, breadcrumb, dgpuPin>>

DaemonRestarts ==
  /\ GpuMoves
  /\ gctx' = NewGpuContext /\ reach' = TRUE
  /\ due' = TRUE /\ gate' = FALSE
  /\ told' = {} /\ swallowed' = FALSE /\ blind' = FALSE
  /\ UNCHANGED <<machine, breadcrumb, dgpuPin, session>>

GpuInit ==
  /\ plugged \in SUBSET CardIds /\ usbDisplay = FALSE
  /\ lidShut \in BOOLEAN
  /\ prefs \in Preferences
  /\ gpuOverride \in OverrideWords /\ platform \in PlatformWords
  /\ breadcrumb = "none" /\ dgpuPin = "auto"
  /\ session \in Selected(breadcrumb)
  /\ gctx = NewGpuContext /\ reach = TRUE /\ due = TRUE /\ gate = FALSE
  /\ gmoves = 0 /\ told = {} /\ swallowed = FALSE /\ blind = FALSE

GpuNext ==
  \/ GpuMonitorsChanged \/ DriftGate \/ PowerdBack \/ Cooled
  \/ Replugged \/ ProfilesEdited \/ LidMoved \/ ModeMoved
  \/ Relog \/ DaemonRestarts

GpuSpec == GpuInit /\ [][GpuNext]_gpuVars

-----------------------------------------------------------------------------
GpuQuiet == ~due /\ ~gate

(* GPU_SPEC.md: "relog to apply" is always satisfiable by one relog: with  *)
(* no change of monitors or profiles still on its way, what the daemon     *)
(* advises is what `gpu select` would choose, although it reads the        *)
(* breadcrumb and the daemon the matched profile.                          *)
AdviceSatisfiable ==
  [][gctx'.notified \notin {<<>>, gctx.notified} /\ ~due'
       => GpuDesired(Snapshot, SelectMode(breadcrumb))'.list = gctx'.notified]_gpuVars

(* A session that runs on another list than the machine calls for has been *)
(* told so since it was last in step, unless the minute between two        *)
(* notices swallowed it, or only the lid has moved.                        *)
DriftTold ==
  GpuQuiet /\ ~blind /\ ~swallowed /\ Adrift(gctx, Wanted) => Wanted \in told

(* A pin the daemon believes it has pushed is what powerd holds, and is    *)
(* what the mode asks for: only dgpu mode keeps the card awake.            *)
PinFollowsMode ==
  GpuQuiet /\ reach /\ gctx.pinned # "none"
    => dgpuPin = IF DaemonMode = "dgpu" THEN "awake" ELSE "auto"
=============================================================================
