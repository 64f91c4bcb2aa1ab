------------------------------ MODULE Outputs ------------------------------
(***************************************************************************)
(* The internal panel and the monitor profiles: what the daemon, its       *)
(* effector worker, Hyprland and the profile CLI make of the lid, of one   *)
(* external monitor and of the profile directory.                          *)
(*                                                                         *)
(* The dispatcher decides (dispatcher.rs, effectors.rs) and hands commands *)
(* to a worker, which acts on the compositor later and step by step.  What *)
(* the compositor does comes back as socket2 events and as the snapshots   *)
(* of the reconciler.                                                      *)
(*                                                                         *)
(* Of the compositor this module assumes what the code relies on: plain    *)
(* `monitors` lists enabled outputs only and `monitors all` every output;  *)
(* a reload runs the base configuration (panel on), then the profile the   *)
(* link names, then the edp-off marker; an eval runs the profile alone.    *)
(***************************************************************************)
EXTENDS HyprFsm, Sequences, FiniteSets

CONSTANTS
  Profiles,   \* the names in the profile directory
  Needs,      \* [Profiles -> SUBSET Output], the match set of each
  Rank,       \* [Profiles -> Nat], the order (priority, match count, name)
  Layout,     \* [Profiles -> {"on", "off", "unsaid"}], the panel in the render
  Policy0,    \* [Profiles -> EdpPolicy], the policies to begin with
  NoProfile,
  Edits,      \* the <<profile, policy>> an edit of its TOML may state
  Links0,     \* what the link may point at when the daemon starts
  MaxMoves,   \* moves of the world: lid, plug, edit, switch, failure, ...
  MaxCmds,    \* capacity of the worker's channel
  MaxEvents   \* events the sources may pile up

ASSUME OutputsAssumption ==
  /\ IsFiniteSet(Profiles)
  /\ NoProfile \notin Profiles /\ Links0 \subseteq Profiles \cup {NoProfile}
  /\ Needs \in [Profiles -> SUBSET {"eDP", "ext"}]
  /\ Rank \in [Profiles -> Nat]
  /\ \A p, q \in Profiles : Rank[p] = Rank[q] => p = q
  /\ Layout \in [Profiles -> {"on", "off", "unsaid"}]
  /\ Policy0 \in [Profiles -> {"auto", "enable", "disable"}]
  /\ Edits \subseteq Profiles \X {"auto", "enable", "disable"}
  /\ MaxMoves \in Nat /\ MaxCmds \in Nat \ {0} /\ MaxEvents \in Nat

Output    == {"eDP", "ext"}
EdpPolicy == {"auto", "enable", "disable"}
NoRev     == "none"

VARIABLES
  \* the machine and the files
  lid,       \* TRUE while closed
  ext,       \* an external monitor is connected
  panel,     \* the compositor has the panel enabled
  marker,    \* the edp-off file exists
  link,      \* what .active.lua points at
  dir,       \* the edp policy each profile's TOML now states
  stranded,  \* workspaces were left on the disabled panel
  cli,       \* `profile switch` has repointed and not yet reloaded
  \* the daemon
  ctx,       \* the dispatcher's context
  debounce,  \* the profile debounce timer is armed
  pass,      \* a reconcile trigger is pending
  queue,     \* the event channel
  cmds,      \* the worker's channel
  worker,    \* what the worker is in the middle of
  \* the record
  moves,     \* how often the world has moved
  lost       \* a command was dropped or refused, or a re-assertion was lost

files == <<marker, link, dir>>
world == <<lid, ext, cli, dir>>
vars  == <<lid, ext, panel, marker, link, dir, stranded, cli, ctx, debounce,
           pass, queue, cmds, worker, moves, lost>>

Context ==
  [ state : State, lid : BOOLEAN, ext : BOOLEAN, edp : EdpPolicy,
    cur : Profiles \cup {NoProfile}, rev : EdpPolicy \cup {NoRev} ]

Event ==
  [kind : {"lid"}, closed : BOOLEAN]
    \cup [kind : {"hotplug", "reloaded", "applied", "monitors", "profiles",
                  "expired", "resumed"}]
    \cup [kind : {"tick"}, lid : BOOLEAN, ext : BOOLEAN, on : BOOLEAN]

Command == [kind : {"edp"}, on : BOOLEAN] \cup [kind : {"apply", "rehome"}]

(* Between two commands, after `monitors all`, and after the marker.       *)
Worker ==
  {[at |-> "idle"]}
    \cup [at : {"read", "marked"}, on : BOOLEAN, disabled : BOOLEAN]

Ev(k)   == [kind |-> k]
Idle    == [at |-> "idle"]
Hotplug(b) == IF b THEN <<Ev("hotplug")>> ELSE <<>>

-----------------------------------------------------------------------------
(* What the daemon's machine sees; the claims, locks and requests of       *)
(* LidSuspend stand still here.                                            *)
World(c) ==
  [ lid_closed |-> c.lid, ext_mon_count |-> IF c.ext THEN 1 ELSE 0,
    inhibitor |-> FALSE, suspend_requested |-> FALSE, locked |-> FALSE,
    battery_low |-> FALSE, lid_ac_hold |-> FALSE ]

(* The profile's policy over the lid-driven default.                       *)
Resolved(c, on) == c.edp = "enable" \/ (c.edp = "auto" /\ on)

(* Wrong: without an external the panel is not even turned on.             *)
SetEdpNeedsExt(c, on) ==
  IF ~c.ext THEN <<>> ELSE <<[kind |-> "edp", on |-> Resolved(c, on)]>>

(* set_edp: the only output is never asked to go off.                      *)
SetEdp(c, on) ==
  IF ~Resolved(c, on) /\ ~c.ext
  THEN <<>>
  ELSE <<[kind |-> "edp", on |-> Resolved(c, on)]>>

(* The panel's part of entering, or re-asserting, a state.                 *)
OnEnter(c) ==
  IF c.state = "Suspending" THEN <<>> ELSE SetEdp(c, c.state = "LidOpen")

(* What policy and state want of the panel.                                *)
ShouldBeOn(c) == Resolved(c, c.state = "LidOpen")

(* Wrong: the panel is left to the events.                                 *)
EdpInvariantNothing(c, on) == <<>>

(* What the reconciler makes of the panel's entry in plain `monitors`: an  *)
(* entry means it is enabled, and a disabled panel has no entry at all.    *)
EdpInvariant(c, on) == IF on /\ ~ShouldBeOn(c) THEN SetEdp(c, FALSE) ELSE <<>>

(* Enabled outputs, and the profile whose matches they cover.              *)
Signature == {o \in Output : IF o = "eDP" THEN panel ELSE ext}

Matching(sig) == {p \in Profiles : Needs[p] \subseteq sig}

Select(sig) ==
  CHOOSE p \in Matching(sig) : \A q \in Matching(sig) : Rank[q] <= Rank[p]

(* The panel after a reload, and after an eval of the linked profile.      *)
Reloaded(mark, to) == ~mark /\ (to = NoProfile \/ Layout[to] # "off")

Evaluated(to) ==
  IF to = NoProfile \/ Layout[to] = "unsaid" THEN panel ELSE Layout[to] = "on"

-----------------------------------------------------------------------------
(* Effects of the dispatcher.                                              *)

(* Wrong: nothing is ever dropped.                                         *)
SendAll(new) == cmds' = cmds \o new /\ UNCHANGED lost

(* try_send: what does not fit is dropped.                                 *)
Send(new) ==
  LET fits == IF Len(new) <= MaxCmds - Len(cmds) THEN Len(new)
              ELSE MaxCmds - Len(cmds)
  IN  /\ cmds' = cmds \o SubSeq(new, 1, fits)
      /\ lost' = (lost \/ fits < Len(new))

(* evaluate_fsms: the state is re-derived, and entered if it is another.   *)
Evaluate(c, kind, before) ==
  LET s == DesiredState(c.state, kind, World(c))
      d == [c EXCEPT !.state = s]
  IN  /\ ctx' = d
      /\ Send(before \o (IF s # c.state THEN OnEnter(d) ELSE <<>>))

(* The dispatcher takes a profile for the one in force.                    *)
Adopted(c, p) == [c EXCEPT !.cur = p, !.rev = dir[p], !.edp = dir[p]]

(* Wrong: the link is not looked at.                                       *)
IngestNothing(c) == c

(* ingest_active_profile: adopt a link that someone else moved.            *)
Ingest(c) ==
  IF link = NoProfile \/ c.cur = link THEN c
  ELSE Adopted(c, link)

(* Nothing to apply: same link, same name and same body.                   *)
Applied(c, p) == link = p /\ c.cur = p /\ c.rev = dir[p]

Take == queue' = Tail(queue)

-----------------------------------------------------------------------------
(* The dispatcher, one event at a time.                                    *)

Lid(e) ==
  /\ e.kind = "lid"
  /\ Evaluate([ctx EXCEPT !.lid = e.closed], "Other", <<>>)
  /\ Take /\ UNCHANGED <<link, debounce, pass, moves>>

(* hyprctl may fail: then the old count is kept.                           *)
MonitorHotplug(e) ==
  /\ e.kind = "hotplug"
  /\ \E n \in {ext, ctx.ext} :
       /\ n # ext => moves < MaxMoves
       /\ moves' = moves + (IF n # ext THEN 1 ELSE 0)
       /\ Evaluate([ctx EXCEPT !.ext = n], "Other", <<>>)
  /\ debounce' = TRUE /\ pass' = TRUE
  /\ Take /\ UNCHANGED link

(* The debounced event: select, apply unless applied, and re-home          *)
(* workspaces.  No match leaves the previous profile's policy in force.    *)
MonitorsChanged(e) ==
  /\ e.kind = "monitors"
  /\ LET none == Matching(Signature) = {}
         p == Select(Signature)
         skip == none \/ Applied(ctx, p)
         c == CASE none -> [ctx EXCEPT !.rev = NoRev]
                [] skip -> ctx
                [] OTHER -> Adopted(ctx, p)
         rehome == c.ext /\ ~ShouldBeOn(c)
     IN  /\ ctx' = c
         /\ link' = IF skip THEN link ELSE p
         /\ Send((IF skip THEN <<>> ELSE <<Ev("apply")>>)
                   \o (IF rehome THEN <<Ev("rehome")>> ELSE <<>>))
  /\ Take /\ UNCHANGED <<debounce, pass, moves>>

ProfilesChanged(e) ==
  /\ e.kind = "profiles"
  /\ debounce' = TRUE
  /\ Take /\ UNCHANGED <<link, ctx, cmds, lost, pass, moves>>

(* ConfigReloaded and ProfileApplied: adopt the link, then re-assert.  In  *)
(* Suspending neither happens: a switch announced then is adopted by a     *)
(* later pass, and its re-assertion is lost.                               *)
Reassert(e) ==
  /\ e.kind \in {"reloaded", "applied"}
  /\ IF ctx.state = "Suspending"
     THEN /\ lost' = (lost \/ Ingest(ctx) # ctx)
          /\ UNCHANGED <<ctx, cmds>>
     ELSE ctx' = Ingest(ctx) /\ Send(OnEnter(Ingest(ctx)))
  /\ pass' = TRUE
  /\ Take /\ UNCHANGED <<link, debounce, moves>>

(* Repair lid and external count, let the repairs drive the machine, then  *)
(* hold the panel to its policy.                                           *)
ReconcileTick(e) ==
  /\ e.kind = "tick"
  /\ LET c == [ctx EXCEPT !.lid = e.lid, !.ext = e.ext]
         drift == c # ctx
         s == IF drift THEN DesiredState(c.state, "Other", World(c))
              ELSE c.state
         d == [c EXCEPT !.state = s]
         entered == IF s # c.state THEN OnEnter(d) ELSE <<>>
         down == s = "Suspending"
     IN  /\ ctx' = IF down THEN d ELSE Ingest(d)
         /\ Send(entered \o
                 (IF down THEN <<>> ELSE EdpInvariant(Ingest(d), e.on)))
         /\ debounce' = (debounce \/ e.ext # ctx.ext)
  /\ Take /\ UNCHANGED <<link, pass, moves>>

TimerExpired(e) ==
  /\ e.kind = "expired"
  /\ Evaluate(ctx, "TimerExpired", <<>>)
  /\ Take /\ UNCHANGED <<link, debounce, pass, moves>>

Resumed(e) ==
  /\ e.kind = "resumed"
  /\ Evaluate(ctx, "Resumed", <<>>)
  /\ pass' = TRUE
  /\ Take /\ UNCHANGED <<link, debounce, moves>>

Dispatch ==
  /\ queue # <<>>
  /\ LET e == Head(queue) IN
       \/ Lid(e) \/ MonitorHotplug(e) \/ MonitorsChanged(e)
       \/ ProfilesChanged(e) \/ Reassert(e) \/ ReconcileTick(e)
       \/ TimerExpired(e) \/ Resumed(e)
  /\ UNCHANGED <<lid, ext, panel, marker, dir, stranded, cli, worker>>

(* The debounce timer sends MonitorsChanged.                               *)
Debounced ==
  /\ debounce /\ debounce' = FALSE
  /\ queue' = Append(queue, Ev("monitors"))
  /\ UNCHANGED <<lid, ext, panel, marker, link, dir, stranded, cli, ctx, pass,
                 cmds, worker, moves, lost>>

-----------------------------------------------------------------------------
(* The effector worker.                                                    *)

(* The compositor sets the panel: a change is announced, workspaces on a   *)
(* panel that goes off move to another enabled output if there is one.     *)
SetPanel(on) ==
  /\ panel' = on
  /\ stranded' = (~on /\ (stranded \/ (panel /\ ~ext)))

Room == Len(queue) < MaxEvents

(* hyprctl refuses the command: nothing changes, and nothing will repeat.  *)
Refused ==
  /\ moves < MaxMoves /\ moves' = moves + 1
  /\ lost' = TRUE
  /\ UNCHANGED <<panel, stranded, queue>>

(* reload and the two evals                                                *)
DoReload ==
  /\ SetPanel(Reloaded(marker, link))
  /\ queue' = queue \o Hotplug(panel' # panel) \o <<Ev("reloaded")>>
  /\ UNCHANGED <<moves, lost>>

DoDisable ==
  /\ SetPanel(FALSE)
  /\ queue' = queue \o Hotplug(panel)
  /\ UNCHANGED <<moves, lost>>

(* SetEdp, first step: read whether the panel is disabled.  If hyprctl     *)
(* fails the command is given up.                                          *)
WorkerRead ==
  /\ worker = Idle /\ cmds # <<>> /\ Head(cmds).kind = "edp"
  /\ \/ /\ worker' = [at |-> "read", on |-> Head(cmds).on, disabled |-> ~panel]
        /\ UNCHANGED <<panel, stranded, queue, moves, lost>>
     \/ Refused /\ UNCHANGED worker
  /\ cmds' = Tail(cmds)
  /\ UNCHANGED <<lid, ext, files, cli, ctx, debounce, pass>>

(* Wrong: the marker is forgotten.                                         *)
WorkerMarkNothing ==
  /\ worker.at = "read"
  /\ worker' = [worker EXCEPT !.at = "marked"]
  /\ UNCHANGED <<lid, ext, panel, files, stranded, cli, ctx, debounce, pass,
                 queue, cmds, moves, lost>>

(* Second step: the marker, before the live flip.                          *)
WorkerMark ==
  /\ worker.at = "read"
  /\ marker' = ~worker.on
  /\ worker' = [worker EXCEPT !.at = "marked"]
  /\ UNCHANGED <<lid, ext, panel, link, dir, stranded, cli, ctx, debounce,
                 pass, queue, cmds, moves, lost>>

(* Wrong: a panel that is on is reloaded as well.                          *)
WorkerFlipAlways ==
  /\ worker.at = "marked" /\ Room
  /\ worker' = Idle
  /\ IF worker.on THEN DoReload \/ Refused
     ELSE IF worker.disabled THEN UNCHANGED <<panel, stranded, queue, moves, lost>>
     ELSE DoDisable \/ Refused
  /\ UNCHANGED <<lid, ext, files, cli, ctx, debounce, pass, cmds>>

(* Third step: the flip, unless the panel was already as wanted.           *)
WorkerFlip ==
  /\ worker.at = "marked" /\ Room
  /\ worker' = Idle
  /\ IF worker.on # worker.disabled
     THEN UNCHANGED <<panel, stranded, queue, moves, lost>>
     ELSE \/ worker.on /\ DoReload
          \/ ~worker.on /\ DoDisable
          \/ Refused
  /\ UNCHANGED <<lid, ext, files, cli, ctx, debounce, pass, cmds>>

(* ApplyProfile: eval of the link; a refused eval falls back to a reload.  *)
(* ProfileApplied follows either way.                                      *)
WorkerApply ==
  /\ worker = Idle /\ cmds # <<>> /\ Head(cmds).kind = "apply" /\ Room
  /\ cmds' = Tail(cmds)
  /\ \/ /\ SetPanel(Evaluated(link))
        /\ queue' = queue \o Hotplug(panel' # panel) \o <<Ev("applied")>>
        /\ UNCHANGED <<moves, lost>>
     \/ /\ moves < MaxMoves /\ moves' = moves + 1
        /\ SetPanel(Reloaded(marker, link))
        /\ queue' = queue \o Hotplug(panel' # panel)
                          \o <<Ev("reloaded"), Ev("applied")>>
        /\ UNCHANGED lost
  /\ UNCHANGED <<lid, ext, files, cli, ctx, debounce, pass, worker>>

(* RehomeEdpWorkspaces: only to an external that is there.                 *)
WorkerRehome ==
  /\ worker = Idle /\ cmds # <<>> /\ Head(cmds).kind = "rehome"
  /\ cmds' = Tail(cmds)
  /\ stranded' = (stranded /\ ~ext)
  /\ UNCHANGED <<lid, ext, panel, files, cli, ctx, debounce, pass, queue,
                 worker, moves, lost>>

-----------------------------------------------------------------------------
(* Nothing on its way, nothing in the middle.                              *)
Quiet ==
  /\ queue = <<>> /\ cmds = <<>> /\ worker = Idle
  /\ ~debounce /\ ~pass /\ ~cli

(* The reconciler gathers a snapshot, on a trigger or on the safety tick.  *)
Gather ==
  /\ Room
  /\ pass' = FALSE
  /\ queue' = Append(queue, [kind |-> "tick", lid |-> lid, ext |-> ext,
                             on |-> panel])
  /\ UNCHANGED <<lid, ext, panel, files, stranded, cli, ctx, debounce, cmds,
                 worker, moves, lost>>

ReconcilePass == pass /\ Gather
SafetyTick    == Quiet /\ Gather

-----------------------------------------------------------------------------
(* The world.                                                              *)
Moves == moves < MaxMoves /\ moves' = moves + 1 /\ Room

UserLid ==
  /\ Moves
  /\ lid' = ~lid
  /\ queue' = Append(queue, [kind |-> "lid", closed |-> ~lid])
  /\ UNCHANGED <<ext, panel, files, stranded, cli, ctx, debounce, pass, cmds,
                 worker, lost>>

(* Plugged or pulled; while socket2 is being reconnected nobody hears it.  *)
UserPlug ==
  /\ Moves
  /\ ext' = ~ext
  /\ queue' \in {queue, Append(queue, Ev("hotplug"))}
  /\ UNCHANGED <<lid, panel, files, stranded, cli, ctx, debounce, pass, cmds,
                 worker, lost>>

(* The TOML of a profile is edited (or `profile save --force` rewrites it).*)
UserEdit ==
  /\ Moves
  /\ \E e \in Edits :
       dir[e[1]] # e[2] /\ dir' = [dir EXCEPT ![e[1]] = e[2]]
  /\ queue' = Append(queue, Ev("profiles"))
  /\ UNCHANGED <<lid, ext, panel, marker, link, stranded, cli, ctx, debounce,
                 pass, cmds, worker, lost>>

(* `profile switch`: repoint, then reload.                                 *)
UserSwitch ==
  /\ Moves /\ ~cli
  /\ link' \in Profiles
  /\ cli' = TRUE
  /\ UNCHANGED <<lid, ext, panel, marker, dir, stranded, ctx, debounce, pass,
                 queue, cmds, worker, lost>>

SwitchReloads ==
  /\ cli /\ Room
  /\ cli' = FALSE
  /\ DoReload
  /\ UNCHANGED <<lid, ext, files, ctx, debounce, pass, cmds, worker>>

(* The grace timer of a countdown, and the end of a suspend.               *)
GraceExpires ==
  /\ Moves /\ ctx.state = "Countdown"
  /\ queue' = Append(queue, Ev("expired"))
  /\ UNCHANGED <<world, panel, marker, link, stranded, ctx, debounce, pass,
                 cmds, worker, lost>>

Wakes ==
  /\ ctx.state = "Suspending" /\ queue = <<>>
  /\ queue' = <<Ev("resumed")>>
  /\ UNCHANGED <<world, panel, marker, link, stranded, ctx, debounce, pass,
                 cmds, worker, moves, lost>>

-----------------------------------------------------------------------------
(* The daemon starts beside a running compositor: the profile the link     *)
(* names is in force, the first state is derived from the world and        *)
(* entered, the profiles are matched once, and a first pass is asked for.  *)
Init ==
  /\ lid \in BOOLEAN /\ ext \in BOOLEAN
  /\ marker \in BOOLEAN
  /\ link \in Links0
  /\ panel = Reloaded(marker, link)
  /\ dir = Policy0
  /\ stranded = FALSE /\ cli = FALSE
  /\ LET c == Ingest([state |-> "LidOpen", lid |-> lid, ext |-> ext,
                      edp |-> "auto", cur |-> NoProfile, rev |-> NoRev])
         d == [c EXCEPT !.state = WorldState(World(c))]
     IN  ctx = d /\ cmds = OnEnter(d)
  /\ debounce = FALSE /\ pass = TRUE
  /\ queue = <<Ev("monitors")>> /\ worker = Idle
  /\ moves = 0 /\ lost = FALSE

Daemon == Dispatch \/ Debounced \/ ReconcilePass \/ SafetyTick
Work   == WorkerRead \/ WorkerMark \/ WorkerFlip \/ WorkerApply \/ WorkerRehome

User ==
  \/ UserLid \/ UserPlug \/ UserEdit \/ UserSwitch
  \/ GraceExpires

Next == Daemon \/ Work \/ User \/ SwitchReloads \/ Wakes

Spec == Init /\ [][Next]_vars

(* Tasks run, timers fire, the CLI goes on, a sleeping machine wakes.      *)
FairSpec ==
  /\ Spec
  /\ WF_vars(Dispatch) /\ WF_vars(Debounced)
  /\ WF_vars(ReconcilePass \/ SafetyTick)
  /\ WF_vars(Work) /\ WF_vars(SwitchReloads) /\ WF_vars(Wakes)

-----------------------------------------------------------------------------
TypeOK ==
  /\ lid \in BOOLEAN /\ ext \in BOOLEAN /\ panel \in BOOLEAN
  /\ marker \in BOOLEAN /\ stranded \in BOOLEAN /\ cli \in BOOLEAN
  /\ link \in Profiles \cup {NoProfile}
  /\ dir \in [Profiles -> EdpPolicy]
  /\ ctx \in Context
  /\ debounce \in BOOLEAN /\ pass \in BOOLEAN
  /\ queue \in Seq(Event)
  /\ cmds \in Seq(Command) /\ Len(cmds) <= MaxCmds
  /\ worker \in Worker
  /\ moves \in Nat /\ lost \in BOOLEAN

Awake == ctx.state # "Suspending"

(* The daemon's inputs are the world's.                                    *)
Heard == ctx.ext = ext /\ ctx.lid = lid

(* When everything has been done, an open laptop on its own is dark only   *)
(* if a profile's policy says so: one that no longer matches stays in      *)
(* force (handle_monitors_changed, no match).                              *)
DarkOnlyByProfile ==
  Quiet /\ Heard /\ Awake /\ ~lost /\ ~lid /\ ~ext /\ ~panel
    => ctx.edp = "disable"

(* When everything has been done, the profile the link names, whoever      *)
(* moved it, is the one whose policy is in force.                          *)
LinkInForce == Quiet /\ Awake /\ link # NoProfile => ctx.cur = link

(* The daemon turns the panel off only with the edp-off marker already in  *)
(* place, so a reload that races it cannot bring the panel back.           *)
OffOnlyMarked ==
  [][panel /\ ~panel' /\ (link # NoProfile => Layout[link] \in {"on", "unsaid"})
       => marker']_vars

(* A panel that policy wants off does not stay on beside an external       *)
(* monitor, whatever commands were dropped or refused: the reconciler sees *)
(* an enabled panel and disables it again.                                 *)
OffHeld == <>[](Awake /\ ~ShouldBeOn(ctx) /\ ctx.ext => ~panel)

(* Once the world rests and unless a command was lost, the work ends (no   *)
(* reload leads to another for ever), a panel that policy wants on is on   *)
(* and stays on across reloads, and no workspace is left on a dark panel   *)
(* beside an external monitor.                                             *)
Settles ==
  <>[](\/ lost
       \/ /\ cmds = <<>>
          /\ Awake /\ ShouldBeOn(ctx) => panel /\ ~marker
          /\ ~(stranded /\ ext /\ ~panel))

(* README.md:8: the panel is re-enabled when the lid opens, "Hard          *)
(* invariant, re-asserted on `configreloaded` and by the reconciler".      *)
Reasserted == <>[](Awake /\ ShouldBeOn(ctx) => panel)

(* fsm.rs:209: "Never when it is the only output."                         *)
NeverLastOutput == [][panel /\ ~panel' => ext]_vars
=============================================================================
