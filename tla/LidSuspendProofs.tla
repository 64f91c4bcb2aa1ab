-------------------------- MODULE LidSuspendProofs --------------------------
(***************************************************************************)
(* Theorems about LidSuspend for every value of its constants: any inputs, *)
(* any lost signals, any queue capacity, any number of outputs.            *)
(***************************************************************************)
EXTENDS LidSuspend, TLAPS

Awake == {"LidOpen", "Docked", "Deferred", "Countdown"}

(* world_state never answers Suspending.                                   *)
LEMMA WorldStateAwake ==
  ASSUME NEW w \in WorldInputs
  PROVE  WorldState(w) \in Awake
BY DEF WorldState, WorldInputs, Awake

(* What evaluate_fsms may be told: Suspending is entered from an expired   *)
(* countdown only, and an expired countdown never stays one.               *)
LEMMA DesiredStates ==
  ASSUME NEW s \in State, NEW kind \in EventKind, NEW w \in WorldInputs
  PROVE  /\ DesiredState(s, kind, w) \in State
         /\ DesiredState(s, kind, w) = "Suspending" /\ s # "Suspending"
              => kind = "TimerExpired" /\ s = "Countdown"
         /\ kind = "TimerExpired" /\ s = "Countdown"
              => DesiredState(s, kind, w) # "Countdown"
BY WorldStateAwake DEF DesiredState, EventKind, State, Awake

LEMMA WorldType ==
  ASSUME NEW c \in Context
  PROVE  World(c) \in WorldInputs
BY ConstantsAssumption DEF World, WorldInputs, Context

(* The payload of each kind of event.                                      *)
LEMMA Payloads ==
  ASSUME NEW e \in Event
  PROVE  /\ e.type = "Lid" => e.closed \in BOOLEAN
         /\ e.type \in {"LogindInhibitor", "WaylandInhibitor"}
              => e.active \in BOOLEAN
         /\ e.type = "LockChanged" => e.locked \in BOOLEAN
         /\ e.type = "AcChanged" => e.on_ac \in BOOLEAN
         /\ e.type = "BatteryPercent" => e.pct \in Pct
         /\ e.type = "SuspendRequestChanged" => e.standing \in BOOLEAN
         /\ e.type = "ReconcileTick" => e.snap \in Snapshot
BY DEF Event

LEMMA QueueHead ==
  ASSUME TypeOK, queue # <<>>
  PROVE  Head(queue) \in Event /\ Tail(queue) \in Seq(Event)
BY DEF TypeOK

(* Handling an event of another type keeps what is queued.                 *)
LEMMA PendingTail ==
  ASSUME TypeOK, queue # <<>>, queue' = Tail(queue),
         NEW type, Head(queue).type # type, Pending(type)
  PROVE  Pending(type)'
<1>1. PICK i \in 1..Len(queue) : queue[i].type = type
  BY DEF Pending
<1>2. i # 1
  BY <1>1 DEF TypeOK
<1>3. i - 1 \in 1..Len(Tail(queue)) /\ Tail(queue)[i - 1] = queue[i]
  BY <1>2 DEF TypeOK
<1> QED
  BY <1>1, <1>3 DEF Pending

LEMMA PendingAppend ==
  ASSUME TypeOK, NEW e, queue' = Append(queue, e), NEW type
  PROVE  /\ Pending(type) => Pending(type)'
         /\ e.type = type => Pending(type)'
<1>1. Len(queue') = Len(queue) + 1 /\ queue'[Len(queue) + 1] = e
      /\ \A i \in 1..Len(queue) : queue'[i] = queue[i]
  BY DEF TypeOK
<1>2. Len(queue) \in Nat
  BY DEF TypeOK
<1> QED
  BY <1>1, <1>2 DEF Pending

(* What evaluate_fsms does to the state and its two timers.                *)
LEMMA Evaluation ==
  ASSUME TypeOK, tail = "idle",
         NEW c \in Context, c.state = ctx.state,
         NEW kind \in EventKind,
         EvaluateFsms(c, kind)
  PROVE  /\ ctx' \in Context
         /\ ctx'.on_ac = c.on_ac /\ ctx'.on_ac_settled = c.on_ac_settled
         /\ \/ /\ ctx'.state = ctx.state
               /\ ~(kind = "TimerExpired" /\ ctx.state = "Countdown")
               /\ UNCHANGED <<grace, watch, tail>>
            \/ /\ tail' = "idle"
               /\ grace' = IF ctx'.state = "Countdown" THEN "armed" ELSE "none"
               /\ watch' \in BOOLEAN
               /\ watch' => ctx'.state = "Deferred"
            \/ /\ kind = "TimerExpired"
               /\ ctx'.state = "Countdown"
               /\ tail' = "probe"
               /\ grace' = "none"
               /\ watch' = FALSE
<1> DEFINE want == DesiredState(c.state, kind, World(c))
<1>1. /\ want \in State
      /\ want = "Suspending" /\ c.state # "Suspending"
           => kind = "TimerExpired" /\ c.state = "Countdown"
      /\ kind = "TimerExpired" /\ c.state = "Countdown" => want # "Countdown"
  <2>1. c.state \in State
    BY DEF Context
  <2> QED
    BY <2>1, WorldType, DesiredStates
<1>2. CASE want = c.state /\ Stays(c)
  BY <1>1, <1>2 DEF Stays
<1>3. CASE want # c.state /\ want = "Suspending" /\ OnEnterSuspending(c)
  BY <1>1, <1>3 DEF OnEnterSuspending
<1>4. CASE /\ want \notin {c.state, "Suspending"}
           /\ OnEnter([c EXCEPT !.state = want])
  <2> DEFINE d == [c EXCEPT !.state = want]
  <2>1. /\ d \in Context /\ d.wayland_inhibitor \in BOOLEAN
        /\ d.on_ac = c.on_ac /\ d.on_ac_settled = c.on_ac_settled
    BY <1>1 DEF Context
  <2>2. /\ ctx' = d /\ tail' = "idle"
        /\ grace' = IF d.state = "Countdown" THEN "armed" ELSE "none"
        /\ watch' = (d.state = "Deferred" /\ d.wayland_inhibitor)
    BY <1>4 DEF OnEnter
  <2> HIDE DEF d
  <2> QED
    BY <2>1, <2>2
<1> QED
  BY <1>2, <1>3, <1>4 DEF EvaluateFsms

-----------------------------------------------------------------------------
(* Type correctness.                                                       *)

LEMMA BootTyped ==
  ASSUME env \in Environment
  PROVE  /\ BootContext \in Context
         /\ BootContext.state # "Suspending"
         /\ BootContext.on_ac = BootContext.on_ac_settled
         /\ BootSeen \in Seen
         /\ BootWatch \in BOOLEAN
         /\ BootFile \in FileBody
         /\ BootGrace \in {"none", "armed"}
         /\ BootRequests \in BOOLEAN
<1> DEFINE c == [ state |-> "LidOpen", lid_closed |-> LidPresent /\ env.lid,
             ext_mon_count |-> env.ext, logind_inhibitor |-> env.logind,
             wayland_inhibitor |-> env.wayland, locked |-> env.hint,
             on_ac |-> env.ac, on_ac_settled |-> env.ac,
             low_battery |-> env.pct = "low",
             suspend_requested |-> BootRequests ]
<1>1. c \in Context
  BY ConstantsAssumption DEF Environment, Context, BootRequests, State
<1>2. WorldState(World(c)) \in Awake
  BY <1>1, WorldType, WorldStateAwake
<1>3. BootContext = [c EXCEPT !.state = WorldState(World(c))]
  BY DEF BootContext
<1>4. /\ BootContext \in Context
      /\ BootContext.state # "Suspending"
      /\ BootContext.on_ac = BootContext.on_ac_settled
  <2>1. c.on_ac = c.on_ac_settled
    OBVIOUS
  <2> HIDE DEF c
  <2> QED
    BY <1>1, <1>2, <1>3, <2>1 DEF Context, Awake, State
<1>5. env.wayland \in BOOLEAN
  BY DEF Environment
<1>6. BootWatch \in BOOLEAN
  BY <1>5 DEF BootWatch
<1>7. BootRequests \in BOOLEAN
  BY DEF BootRequests
<1>8. BootSeen \in Seen
  BY <1>7 DEF BootSeen, Environment, Seen
<1> QED
  BY <1>4, <1>6, <1>7, <1>8 DEF BootFile, BootGrace, FileBody

LEMMA InitTyped == Init => TypeOK
<1> SUFFICES ASSUME Init PROVE TypeOK
  OBVIOUS
<1>1. env \in Environment /\ env.hint \in BOOLEAN
  BY DEF Init, Environment
<1>2. hist \in [lockSeen : BOOLEAN, fresh : BOOLEAN]
  BY <1>1, BootTyped DEF Init
<1>3. settle \in BOOLEAN /\ watch \in BOOLEAN /\ lockTx \in BOOLEAN
  BY <1>1, BootTyped DEF Init
<1>4. queue \in Seq(Event) /\ snap \in Seq(Snapshot) /\ dirty \subseteq Signals
  BY DEF Init
<1> QED
  BY <1>1, <1>2, <1>3, <1>4, BootTyped DEF Init, TypeOK

LEMMA EnvironmentTyped ==
  ASSUME TypeOK, EnvironmentStep \/ Sleep
  PROVE  TypeOK'
<1> USE DEF TypeOK, daemonVars
<1>1. ASSUME NEW input, NEW e \in Environment, NEW s \in SUBSET Signals,
             Moves(input, e, s)
      PROVE  TypeOK'
  BY <1>1 DEF Moves, Environment
<1>2. CASE LidMoves
  BY <1>1, <1>2 DEF LidMoves, Environment, Signals
<1>3. CASE MonitorMoves
  BY <1>1, <1>3 DEF MonitorMoves, Environment, Signals
<1>4. CASE LogindMoves
  BY <1>1, <1>4 DEF LogindMoves, Environment, Signals
<1>5. CASE WaylandMoves
  BY <1>1, <1>5 DEF WaylandMoves, Environment, Signals
<1>6. CASE HintMoves
  BY <1>1, <1>6 DEF HintMoves, Environment, Signals
<1>7. CASE CompMoves
  BY <1>1, <1>7 DEF CompMoves, Environment, Signals
<1>8. CASE AcMoves
  BY <1>1, <1>8 DEF AcMoves, Environment, Signals
<1>9. CASE BatteryMoves
  BY <1>1, <1>9 DEF BatteryMoves, Environment, Signals
<1>10. CASE SuspendRequest
  BY <1>10 DEF SuspendRequest, FileBody, Signals
<1>11. CASE SuspendCancel
  BY <1>11 DEF SuspendCancel, FileBody, Signals
<1>12. CASE SignalLost
  BY <1>12 DEF SignalLost
<1>13. CASE ConfigReload
  BY <1>13 DEF ConfigReload, Fires, Send, coreVars, taskVars, Event
<1>14. CASE PowerdReturns
  BY <1>14 DEF PowerdReturns, Fires, Send, coreVars, taskVars, Event
<1>15. CASE Sleep
  BY <1>15 DEF Sleep
<1>16. CASE Wake
  BY <1>16 DEF Wake, Signals
<1>17. CASE Restart
  <2>1. env' \in Environment /\ env.hint \in BOOLEAN
    BY <1>17 DEF Restart, Environment
  <2>2. hist' \in [lockSeen : BOOLEAN, fresh : BOOLEAN]
    BY <1>17, BootTyped DEF Restart
  <2>3. settle' \in BOOLEAN /\ watch' \in BOOLEAN /\ lockTx' \in BOOLEAN
    BY <1>17, <2>1, BootTyped DEF Restart
  <2>4. /\ queue' \in Seq(Event)
        /\ snap' \in Seq(Snapshot)
        /\ dirty' \subseteq Signals
    BY <1>17 DEF Restart
  <2> QED
    BY <1>17, <2>1, <2>2, <2>3, <2>4, BootTyped DEF Restart
<1> QED
  BY <1>2, <1>3, <1>4, <1>5, <1>6, <1>7, <1>8, <1>9, <1>10, <1>11, <1>12,
     <1>13, <1>14, <1>15, <1>16, <1>17 DEF EnvironmentStep

LEMMA SourceTyped ==
  ASSUME TypeOK, Source
  PROVE  TypeOK'
<1> USE DEF TypeOK
<1>1. ASSUME NEW s, NEW e \in Event, Watcher(s, e), lockTx' \in BOOLEAN
      PROVE  TypeOK'
  BY <1>1 DEF Watcher, Send, coreVars, taskVars
<1>2. ASSUME NEW s, NEW now, NEW last, NEW e \in Event,
             EdgeFiltered(s, now, last, e),
             seen' \in Seen
      PROVE  TypeOK'
  BY <1>2 DEF EdgeFiltered, Send, coreVars, taskVars
<1>3. ASSUME NEW e \in Event, Fires(e),
             grace' \in {"none", "armed", "finished"},
             settle' \in BOOLEAN, watch' \in BOOLEAN
      PROVE  TypeOK'
  BY <1>3 DEF Fires, Send, coreVars
<1>4. CASE LidWatcher
  <2>1. [type |-> "Lid", closed |-> env.lid] \in Event
    BY DEF Event, Environment
  <2> QED
    BY <1>1, <1>4, <2>1 DEF LidWatcher
<1>5. CASE SocketReader
  BY <1>1, <1>5 DEF SocketReader, Event
<1>6. CASE LockWatcher
  <2>1. /\ [type |-> "LockChanged", locked |-> env.hint] \in Event
        /\ env.hint \in BOOLEAN
    BY DEF Event, Environment
  <2> QED
    BY <1>1, <1>6, <2>1 DEF LockWatcher
<1>7. CASE AcWatcher
  <2>1. [type |-> "AcChanged", on_ac |-> env.ac] \in Event
    BY DEF Event, Environment
  <2> QED
    BY <1>1, <1>7, <2>1 DEF AcWatcher
<1>8. CASE BatteryWatcher
  <2>1. [type |-> "BatteryPercent", pct |-> env.pct] \in Event
    BY DEF Event, Environment
  <2> QED
    BY <1>1, <1>8, <2>1 DEF BatteryWatcher
<1>9. CASE SleepWatcher
  BY <1>1, <1>9 DEF SleepWatcher, Event
<1>10. CASE InhibitorWatcher
  <2>1. /\ [type |-> "LogindInhibitor", active |-> env.logind] \in Event
        /\ [seen EXCEPT !.logind = env.logind]
             \in Seen
    BY DEF Event, Environment, Seen
  <2> QED
    BY <1>2, <1>10, <2>1 DEF InhibitorWatcher
<1>11. CASE FileTask
  <2> DEFINE standing == file # "none"
  <2>1. /\ [type |-> "SuspendRequestChanged", standing |-> standing] \in Event
        /\ [seen EXCEPT !.suspend = standing]
             \in Seen
    BY DEF Event, Seen
  <2>2. /\ EdgeFiltered("file", standing, seen.suspend,
              [type |-> "SuspendRequestChanged", standing |-> standing])
        /\ seen' = [seen EXCEPT !.suspend = standing]
    BY <1>11 DEF FileTask
  <2> QED
    BY <1>2, <2>1, <2>2
<1>12. CASE GraceFires
  BY <1>3, <1>12 DEF GraceFires, Event
<1>13. CASE SettleFires
  BY <1>3, <1>13 DEF SettleFires, Event
<1>14. CASE ClaimWatchSees
  BY <1>3, <1>14 DEF ClaimWatchSees, Event
<1>15. CASE Gather
  <2>1. PICK w \in {{env.wayland}} \cup (IF HyprctlFails THEN {{}} ELSE {}),
             n \in Sampled(env.ext, seen.ext) :
          /\ snap' = << [lid |-> LidPresent /\ env.lid, ext |-> n,
                         logind |-> env.logind, wayland |-> w,
                         locked |-> env.hint, ac |-> env.ac] >>
          /\ seen' = [seen EXCEPT !.ext = n]
    BY <1>15 DEF Gather
  <2>2. n \in 0..MaxExt
    BY DEF Sampled, Environment, Seen
  <2>3. w \in {{}, {TRUE}, {FALSE}}
    BY DEF Environment
  <2>4. [lid |-> LidPresent /\ env.lid, ext |-> n, logind |-> env.logind,
         wayland |-> w, locked |-> env.hint, ac |-> env.ac] \in Snapshot
    BY <2>2, <2>3, ConstantsAssumption DEF Snapshot, Environment
  <2>5. snap' \in Seq(Snapshot)
    BY <2>1, <2>4
  <2>6. seen' \in Seen
    BY <2>1, <2>2 DEF Seen
  <2>7. dirty' \subseteq Signals
    BY <1>15 DEF Gather, Signals
  <2> QED
    BY <1>15, <2>5, <2>6, <2>7 DEF Gather, coreVars, taskVars
<1>16. CASE SendTick
  <2>1. [type |-> "ReconcileTick", snap |-> Head(snap)] \in Event
    BY <1>16 DEF SendTick, Event
  <2> QED
    BY <1>16, <2>1 DEF SendTick, Send, coreVars, taskVars
<1>17. CASE UeventTask
  <2>1. /\ [type |-> "AcChanged", on_ac |-> env.ac] \in Event
        /\ [seen EXCEPT !.ac = env.ac] \in Seen
    BY DEF Event, Environment, Seen
  <2> QED
    BY <1>2, <1>17, <2>1 DEF UeventTask
<1> QED
  BY <1>4, <1>5, <1>6, <1>7, <1>8, <1>9, <1>10, <1>11, <1>12, <1>13, <1>14,
     <1>15, <1>16, <1>17 DEF Source

LEMMA BatteryTyped ==
  ASSUME TypeOK, NEW c \in Context
  PROVE  /\ BatteryChecked(c) \in Context
         /\ BatteryChecked(c).state = c.state
         /\ BatteryChecked(c).on_ac = c.on_ac
         /\ BatteryChecked(c).on_ac_settled = c.on_ac_settled
         /\ BatteryCheckWrites(c)
              => /\ file' \in FileBody
                 /\ dirty' \subseteq Signals
                 /\ hist' \in [lockSeen : BOOLEAN, fresh : BOOLEAN]
                 /\ hist'.lockSeen = hist.lockSeen
                 /\ dirty' \subseteq dirty \cup {"file"}
                 /\ file' # "none" /\ ~hist'.fresh
                      => file # "none" /\ ~hist.fresh
<1>1. BatteryRequests(c) \in BOOLEAN /\ BatteryWithdraws(c) \in BOOLEAN
  BY DEF BatteryRequests, BatteryWithdraws, Context
<1>2. /\ BatteryChecked(c) \in Context
      /\ BatteryChecked(c).state = c.state
      /\ BatteryChecked(c).on_ac = c.on_ac
      /\ BatteryChecked(c).on_ac_settled = c.on_ac_settled
  BY <1>1 DEF BatteryChecked, Context
<1>3. ASSUME BatteryCheckWrites(c)
      PROVE  /\ file' \in FileBody
             /\ dirty' \subseteq Signals
             /\ hist' \in [lockSeen : BOOLEAN, fresh : BOOLEAN]
             /\ hist'.lockSeen = hist.lockSeen
             /\ dirty' \subseteq dirty \cup {"file"}
             /\ file' # "none" /\ ~hist'.fresh
                  => file # "none" /\ ~hist.fresh
  BY <1>1, <1>3 DEF BatteryCheckWrites, BatteryFile, TypeOK, FileBody, Signals
<1> QED
  BY <1>2, <1>3

(* One event handled: the context moved to c, and the machine was, or was  *)
(* not, evaluated.  Every handler of the dispatcher has this shape.  Only a*)
(* resume is told to the machine as one, and clears the request file.      *)
Handles(type, c) ==
  /\ Takes(type)
  /\ c \in Context /\ c.state = ctx.state
  /\ \/ type = "TimerExpired" /\ EvaluateFsms(c, "TimerExpired")
     \/ /\ type # "TimerExpired"
        /\ \/ type = "Resumed" /\ EvaluateFsms(c, "Resumed")
           \/ EvaluateFsms(c, "Other")
           \/ Stays(c)
           \/ c.state # "Suspending" /\ OnEnter(c)
  /\ settle' \in BOOLEAN /\ lockTx' \in BOOLEAN
  /\ file' \in FileBody /\ dirty' \subseteq Signals
  /\ hist' \in [lockSeen : BOOLEAN, fresh : BOOLEAN]
  /\ dirty' \subseteq dirty \cup {"file"}
  /\ file' # "none" /\ ~hist'.fresh
       => type # "Resumed" /\ file # "none" /\ ~hist.fresh
  /\ hist'.lockSeen =
       IF type = "TimerExpired" THEN LiveLocker ELSE hist.lockSeen
  /\ c.on_ac # c.on_ac_settled
       => \/ settle'
          \/ /\ type # "PowerAcSettled" /\ settle' = settle
             /\ c.on_ac = ctx.on_ac /\ c.on_ac_settled = ctx.on_ac_settled

LEMMA HandlerTyped ==
  ASSUME TypeOK, NEW type, NEW c, Handles(type, c)
  PROVE  TypeOK'
<1>1. tail = "idle" /\ queue # <<>> /\ queue' \in Seq(Event)
  BY QueueHead DEF Handles, Takes
<1>2. /\ ctx' \in Context
      /\ grace' \in {"none", "armed", "finished"}
      /\ watch' \in BOOLEAN
      /\ tail' \in {"idle", "probe"}
  <2>1. ASSUME NEW kind \in EventKind, EvaluateFsms(c, kind)
        PROVE  /\ ctx' \in Context
               /\ grace' \in {"none", "armed", "finished"}
               /\ watch' \in BOOLEAN
               /\ tail' \in {"idle", "probe"}
    BY <1>1, <2>1, Evaluation DEF TypeOK, Handles
  <2>2. CASE Stays(c)
    BY <1>1, <2>2 DEF Stays, TypeOK, Handles
  <2>3. CASE OnEnter(c)
    BY <2>3 DEF OnEnter, Context, Handles
  <2> QED
    BY <2>1, <2>2, <2>3 DEF Handles, EventKind
<1>3. UNCHANGED <<env, power, seen, snap>>
  BY DEF Handles, Takes
<1> QED
  BY <1>1, <1>2, <1>3 DEF TypeOK, Handles

LEMMA Dispatched ==
  ASSUME TypeOK, Dispatch
  PROVE  \E type, c : Handles(type, c)
<1> DEFINE histT == [lockSeen : BOOLEAN, fresh : BOOLEAN]
           goal == \E type, c : Handles(type, c)
           axes(c) == c.on_ac = ctx.on_ac /\ c.on_ac_settled = ctx.on_ac_settled
<1>1. ASSUME NEW type,
             type \notin {"TimerExpired", "PowerAcSettled", "Resumed"},
             Takes(type),
             NEW c \in Context, c.state = ctx.state,
             \/ EvaluateFsms(c, "Other")
             \/ Stays(c)
             \/ c.state # "Suspending" /\ OnEnter(c),
             lockTx' \in BOOLEAN, UNCHANGED settle, UNCHANGED fileVars,
             axes(c) \/ c.on_ac = c.on_ac_settled
      PROVE  goal
  <2>1. Handles(type, c)
    BY <1>1 DEF Handles, fileVars, TypeOK
  <2> QED
    BY <2>1
<1>2. ASSUME NEW type, type \notin {"TimerExpired", "Resumed"}, Takes(type),
             NEW c \in Context, c.state = ctx.state,
             BatteryCheckWrites(c),
             \/ EvaluateFsms(BatteryChecked(c), "Other")
             \/ Stays(BatteryChecked(c)),
             settle' \in BOOLEAN, lockTx' \in BOOLEAN,
             \/ settle'
             \/ c.on_ac = c.on_ac_settled
             \/ type # "PowerAcSettled" /\ UNCHANGED settle /\ axes(c)
      PROVE  goal
  <2>1. Handles(type, BatteryChecked(c))
    BY <1>2, BatteryTyped DEF Handles
  <2> QED
    BY <2>1
<1>3. ASSUME queue # <<>> PROVE Head(queue) \in Event
  BY <1>3, QueueHead
<1>4. ctx \in Context /\ lockTx \in BOOLEAN /\ settle \in BOOLEAN
      /\ env.wayland \in BOOLEAN /\ env.ext \in 0..MaxExt
  BY DEF TypeOK, Environment
<1>5. CASE Lid
  <2>1. PICK w : /\ w \in {env.wayland, ctx.wayland_inhibitor}
                 /\ EvaluateFsms([ctx EXCEPT !.lid_closed = Head(queue).closed,
                                             !.wayland_inhibitor = w], "Other")
    BY <1>5 DEF Lid, Sampled
  <2>2. Head(queue).closed \in BOOLEAN
    BY <1>3, <1>5, Payloads DEF Lid, Takes
  <2> DEFINE c == [ctx EXCEPT !.lid_closed = Head(queue).closed,
                              !.wayland_inhibitor = w]
  <2>3. c \in Context /\ c.state = ctx.state /\ axes(c)
    BY <1>4, <2>1, <2>2 DEF Context
  <2> QED
    BY <1>1, <1>4, <1>5, <2>1, <2>3 DEF Lid
<1>6. CASE MonitorHotplug
  <2>1. PICK n : /\ n \in {env.ext, ctx.ext_mon_count}
                 /\ EvaluateFsms([ctx EXCEPT !.ext_mon_count = n], "Other")
    BY <1>6 DEF MonitorHotplug, Sampled
  <2> DEFINE c == [ctx EXCEPT !.ext_mon_count = n]
  <2>2. c \in Context /\ c.state = ctx.state /\ axes(c)
    BY <1>4, <2>1 DEF Context
  <2> QED
    BY <1>1, <1>4, <1>6, <2>1, <2>2 DEF MonitorHotplug
<1>7. CASE Inhibitor
  <2>1. Head(queue).active \in BOOLEAN
    BY <1>3, <1>7, Payloads DEF Inhibitor, Takes
  <2> DEFINE c == [ctx EXCEPT !.logind_inhibitor = Head(queue).active]
             d == [ctx EXCEPT !.wayland_inhibitor = Head(queue).active]
  <2>2. /\ c \in Context /\ c.state = ctx.state /\ axes(c)
        /\ d \in Context /\ d.state = ctx.state /\ axes(d)
    BY <1>4, <2>1 DEF Context
  <2>3. CASE EvaluateFsms(c, "Other")
    BY <1>1, <1>4, <1>7, <2>2, <2>3 DEF Inhibitor
  <2>4. CASE EvaluateFsms(d, "Other")
    BY <1>1, <1>4, <1>7, <2>2, <2>4 DEF Inhibitor
  <2> QED
    BY <1>7, <2>3, <2>4 DEF Inhibitor
<1>8. CASE LockChanged
  <2>1. Head(queue).locked \in BOOLEAN
    BY <1>3, <1>8, Payloads DEF LockChanged, Takes
  <2> DEFINE c == [ctx EXCEPT !.locked = Head(queue).locked]
  <2>2. c \in Context /\ c.state = ctx.state /\ axes(c)
    BY <1>4, <2>1 DEF Context
  <2> QED
    BY <1>1, <1>4, <1>8, <2>2 DEF LockChanged
<1>9. CASE AcChanged
  <2> DEFINE c == [ctx EXCEPT !.on_ac = Head(queue).on_ac]
  <2>1. Head(queue).on_ac \in BOOLEAN
    BY <1>3, <1>9, Payloads DEF AcChanged, Takes
  <2>2. c \in Context /\ c.state = ctx.state
    BY <1>4, <2>1 DEF Context
  <2>3. CASE c = ctx
    BY <1>1, <1>4, <1>9, <2>3 DEF AcChanged
  <2>4. CASE c # ctx
    BY <1>2, <1>4, <1>9, <2>2, <2>4 DEF AcChanged
  <2> QED
    BY <2>3, <2>4
<1>10. CASE PowerAcSettled
  <2> DEFINE c == [ctx EXCEPT !.on_ac_settled = ctx.on_ac]
  <2>1. /\ c \in Context /\ c.state = ctx.state
        /\ c.on_ac = c.on_ac_settled
    BY <1>4 DEF Context
  <2> QED
    BY <1>2, <1>4, <1>10, <2>1 DEF PowerAcSettled
<1>11. CASE PowerdAppeared
  <2> DEFINE c == [ctx EXCEPT !.on_ac_settled = ctx.on_ac]
  <2>1. /\ c \in Context /\ c.state = ctx.state
        /\ c.on_ac = c.on_ac_settled
    BY <1>4 DEF Context
  <2> QED
    BY <1>1, <1>4, <1>11, <2>1 DEF PowerdAppeared
<1>12. CASE BatteryPercent
  <2> DEFINE c == [ctx EXCEPT !.low_battery =
                     BatteryLowStep(ctx.low_battery, Head(queue).pct)]
  <2>1. c \in Context /\ c.state = ctx.state /\ axes(c)
    BY <1>4 DEF Context, BatteryLowStep
  <2>2. /\ Takes("BatteryPercent")
        /\ BatteryCheckWrites(c)
        /\ \/ EvaluateFsms(BatteryChecked(c), "Other")
           \/ Stays(BatteryChecked(c))
        /\ UNCHANGED <<settle, lockTx>>
    BY <1>12 DEF BatteryPercent
  <2> HIDE DEF c
  <2> QED
    BY <1>2, <1>4, <2>1, <2>2
<1>13. CASE SuspendRequestChanged
  <2>1. PICK w : /\ w \in {env.wayland, ctx.wayland_inhibitor}
                 /\ EvaluateFsms(
                       [ctx EXCEPT !.suspend_requested = Head(queue).standing,
                                   !.wayland_inhibitor = w], "Other")
    BY <1>13 DEF SuspendRequestChanged, Sampled
  <2>2. Head(queue).standing \in BOOLEAN
    BY <1>3, <1>13, Payloads DEF SuspendRequestChanged, Takes
  <2> DEFINE c == [ctx EXCEPT !.suspend_requested = Head(queue).standing,
                              !.wayland_inhibitor = w]
  <2>3. c \in Context /\ c.state = ctx.state /\ axes(c)
    BY <1>4, <2>1, <2>2 DEF Context
  <2> QED
    BY <1>1, <1>4, <1>13, <2>1, <2>3 DEF SuspendRequestChanged
<1>14. CASE TimerExpired
  <2> DEFINE c == [ctx EXCEPT !.suspend_requested = @ /\ file # "none"]
  <2>1. c \in Context /\ c.state = ctx.state /\ axes(c)
    BY <1>4 DEF Context
  <2>2. /\ hist' \in histT /\ hist'.lockSeen = LiveLocker
        /\ hist'.fresh = hist.fresh
    BY <1>14 DEF TimerExpired, TypeOK, LiveLocker, Environment
  <2>3. Handles("TimerExpired", c)
    BY <1>4, <1>14, <2>1, <2>2 DEF TimerExpired, TypeOK, Handles
  <2> QED
    BY <2>3
<1>15. CASE Resumed
  <2> DEFINE c == [ctx EXCEPT !.suspend_requested = FALSE]
  <2>1. c \in Context /\ c.state = ctx.state /\ axes(c)
    BY <1>4 DEF Context
  <2>2. /\ hist' \in histT /\ hist'.lockSeen = hist.lockSeen
        /\ file' \in FileBody /\ file' = "none"
        /\ dirty' \subseteq Signals /\ dirty' \subseteq dirty \cup {"file"}
    BY <1>15 DEF Resumed, TypeOK, FileBody, Signals
  <2>3. Handles("Resumed", c)
    BY <1>4, <1>15, <2>1, <2>2 DEF Resumed, TypeOK, Handles
  <2> QED
    BY <2>3
<1>16. CASE ConfigReloaded
  BY <1>1, <1>4, <1>16 DEF ConfigReloaded
<1>17. CASE ReconcileTick
  <2> DEFINE s == Head(queue).snap
             fsm == Repaired(s)
             power_drift == s.ac # ctx.on_ac \/ s.ext # ctx.ext_mon_count
             c == [fsm EXCEPT !.on_ac = s.ac, !.on_ac_settled = s.ac]
  <2>1. s \in Snapshot
    BY <1>3, <1>17, Payloads DEF ReconcileTick, Takes
  <2>2. fsm \in Context /\ fsm.state = ctx.state /\ axes(fsm)
    <3> DEFINE lid == IF LidPresent THEN s.lid ELSE ctx.lid_closed
               claim == IF s.wayland = {} THEN ctx.wayland_inhibitor
                                          ELSE s.wayland = {TRUE}
               standing == file # "none"
    <3>1. /\ lid \in BOOLEAN
          /\ s.ext \in 0..MaxExt /\ s.logind \in BOOLEAN
          /\ s.locked \in BOOLEAN
      BY <1>4, <2>1 DEF Context, Snapshot
    <3>2. claim \in BOOLEAN /\ standing \in BOOLEAN
      BY <1>4 DEF Context
    <3>3. fsm = [ctx EXCEPT !.lid_closed = lid, !.suspend_requested = standing,
                            !.ext_mon_count = s.ext,
                            !.logind_inhibitor = s.logind,
                            !.wayland_inhibitor = claim, !.locked = s.locked]
      BY DEF Repaired
    <3> HIDE DEF lid, claim, standing, s, fsm
    <3>4. fsm \in Context
      BY <1>4, <3>1, <3>2, <3>3, ZenonT(60) DEF Context
    <3> QED
      BY <1>4, <3>3, <3>4 DEF Context
  <2>3. /\ c \in Context /\ c.state = ctx.state
        /\ c.on_ac = c.on_ac_settled
    BY <2>1, <2>2 DEF Context, Snapshot
  <2>4. lockTx' \in BOOLEAN
    BY <1>4, <1>17, <2>1 DEF ReconcileTick, Snapshot
  <2> HIDE DEF fsm
  <2>5. CASE power_drift
    <3>1. /\ BatteryCheckWrites(c)
          /\ \/ EvaluateFsms(BatteryChecked(c), "Other")
             \/ Stays(BatteryChecked(c))
      BY <1>17, <2>5 DEF ReconcileTick, fsm
    <3> QED
      BY <1>2, <1>4, <1>17, <2>3, <2>4, <3>1 DEF ReconcileTick
  <2>6. CASE ~power_drift
    <3>1. /\ UNCHANGED fileVars
          /\ EvaluateFsms(fsm, "Other") \/ Stays(fsm)
      BY <1>17, <2>6 DEF ReconcileTick, fsm
    <3> QED
      BY <1>1, <1>4, <1>17, <2>2, <2>4, <3>1 DEF ReconcileTick
  <2> QED
    BY <2>5, <2>6
<1> QED
  BY <1>5, <1>6, <1>7, <1>8, <1>9, <1>10, <1>11, <1>12, <1>13, <1>14, <1>15,
     <1>16, <1>17 DEF Dispatch

LEMMA DispatchTyped ==
  ASSUME TypeOK, Dispatch
  PROVE  TypeOK'
BY Dispatched, HandlerTyped

LEMMA TailTyped ==
  ASSUME TypeOK, TailStep
  PROVE  TypeOK'
<1> USE DEF TypeOK, InTail
<1>1. ASSUME TailFails, NEW step, InTail(step)
      PROVE  TypeOK'
  BY <1>1 DEF TailFails
<1>2. ASSUME NEW step, InTail(step),
             NEW next \in {"asked", "wait", "reprobe", "suspend"},
             TailGoes(next)
      PROVE  TypeOK'
  BY <1>2 DEF TailGoes
<1>3. CASE TailProbe
  BY <1>2, <1>3 DEF TailProbe
<1>4. CASE TailAsked
  BY <1>2, <1>4 DEF TailAsked
<1>5. CASE TailWait
  BY <1>1, <1>2, <1>5 DEF TailWait
<1>6. CASE TailReprobe
  BY <1>1, <1>2, <1>6 DEF TailReprobe
<1>7. CASE TailSuspend
  <2>1. CASE TailFails
    BY <1>1, <1>7, <2>1 DEF TailSuspend
  <2>2. CASE ~TailFails
    BY <1>7, <2>2 DEF TailSuspend, Context, State
  <2> QED
    BY <2>1, <2>2
<1> QED
  BY <1>3, <1>4, <1>5, <1>6, <1>7 DEF TailStep

(* Every variable of the machine keeps a value of its kind, whatever moves,*)
(* whatever is lost and however full the queue is.                         *)
THEOREM TypeCorrect == Spec => []TypeOK
<1>1. Init => TypeOK
  BY InitTyped
<1>2. TypeOK /\ [Next]_vars => TypeOK'
  <2> SUFFICES ASSUME TypeOK, [Next]_vars PROVE TypeOK'
    OBVIOUS
  <2>1. CASE EnvironmentStep \/ Sleep
    BY <2>1, EnvironmentTyped
  <2>2. CASE Dispatch
    BY <2>2, DispatchTyped
  <2>3. CASE TailStep
    BY <2>3, TailTyped
  <2>4. CASE Source
    BY <2>4, SourceTyped
  <2>5. CASE UNCHANGED vars
    BY <2>5 DEF TypeOK, vars
  <2> QED
    BY <2>1, <2>2, <2>3, <2>4, <2>5 DEF Next, DaemonStep
<1> QED
  BY <1>1, <1>2, PTL DEF Spec

-----------------------------------------------------------------------------
(* Timers, watch, settled axis and tail: Inv is inductive.  Its parts are  *)
(* proved together because a step out of Countdown is a step into the tail *)
(* or out of it.                                                           *)

LEMMA InitKeeps == Init => Inv
<1> SUFFICES ASSUME Init PROVE Inv
  OBVIOUS
<1>1. env \in Environment
  BY DEF Init
<1>2. CountdownTimed /\ WatchOnlyDeferred /\ SettleOwed /\ LockSeen
  BY <1>1, BootTyped
  DEF Init, CountdownTimed, WatchOnlyDeferred, SettleOwed, LockSeen,
      BootGrace, BootWatch
<1> QED
  BY <1>2, InitTyped DEF Inv

(* A step that only sends.                                                 *)
LEMMA SendKeeps ==
  ASSUME Inv, NEW e, queue' = Append(queue, e) \/ queue' = queue,
         UNCHANGED <<env, ctx, grace, settle, watch, tail, hist>>
  PROVE  CountdownTimed' /\ WatchOnlyDeferred' /\ SettleOwed' /\ LockSeen'
<1>1. /\ Pending("TimerExpired") => Pending("TimerExpired")'
      /\ Pending("PowerAcSettled") => Pending("PowerAcSettled")'
  <2>1. CASE queue' = Append(queue, e)
    BY <2>1, PendingAppend DEF Inv
  <2>2. CASE queue' = queue
    BY <2>2 DEF Pending
  <2> QED
    BY <2>1, <2>2
<1> QED
  BY <1>1
  DEF Inv, CountdownTimed, WatchOnlyDeferred, SettleOwed, LockSeen, LiveLocker

LEMMA EnvironmentKeeps ==
  ASSUME Inv, EnvironmentStep \/ Sleep
  PROVE  CountdownTimed' /\ WatchOnlyDeferred' /\ SettleOwed' /\ LockSeen'
<1> DEFINE Safe == CountdownTimed /\ WatchOnlyDeferred /\ SettleOwed /\ LockSeen
<1>1. ASSUME UNCHANGED daemonVars, LockSeen'
      PROVE  Safe'
  BY <1>1 DEF Inv, daemonVars, CountdownTimed, WatchOnlyDeferred, SettleOwed,
              Pending
<1>2. ASSUME NEW input, NEW e, NEW s, Moves(input, e, s)
      PROVE  Safe'
  <2>1. /\ tail' = tail
        /\ hist'.lockSeen =
             IF tail = "idle" THEN hist.lockSeen
             ELSE hist.lockSeen \/ (env'.hint /\ env'.comp)
    BY <1>2 DEF Moves, daemonVars, Inv, TypeOK
  <2>2. LockSeen'
    BY <2>1 DEF Inv, LockSeen, LiveLocker
  <2> QED
    BY <1>1, <1>2, <2>2 DEF Moves
<1>3. CASE LidMoves \/ MonitorMoves \/ LogindMoves \/ WaylandMoves
           \/ HintMoves \/ CompMoves \/ AcMoves \/ BatteryMoves
  BY <1>2, <1>3 DEF LidMoves, MonitorMoves, LogindMoves, WaylandMoves,
                    HintMoves, CompMoves, AcMoves, BatteryMoves
<1>4. ASSUME UNCHANGED daemonVars, UNCHANGED env,
             hist'.lockSeen = hist.lockSeen
      PROVE  Safe'
  BY <1>1, <1>4 DEF Inv, LockSeen, LiveLocker, daemonVars
<1>5. CASE SuspendRequest \/ SuspendCancel \/ SignalLost \/ Sleep \/ Wake
  BY <1>4, <1>5
  DEF SuspendRequest, SuspendCancel, SignalLost, Sleep, Wake, Inv, TypeOK
<1>6. CASE ConfigReload \/ PowerdReturns
  BY <1>6, SendKeeps
  DEF ConfigReload, PowerdReturns, Fires, Send, coreVars, taskVars
<1>7. CASE Restart
  <2>1. env \in Environment
    BY DEF Inv, TypeOK
  <2> QED
    BY <1>7, <2>1, BootTyped
    DEF Restart, CountdownTimed, WatchOnlyDeferred, SettleOwed, LockSeen,
        BootGrace, BootWatch
<1> QED
  BY <1>3, <1>5, <1>6, <1>7 DEF EnvironmentStep

LEMMA SourceKeeps ==
  ASSUME Inv, Source
  PROVE  CountdownTimed' /\ WatchOnlyDeferred' /\ SettleOwed' /\ LockSeen'
<1>1. CASE LidWatcher \/ SocketReader \/ LockWatcher \/ AcWatcher
           \/ BatteryWatcher \/ SleepWatcher
  BY <1>1, SendKeeps
  DEF LidWatcher, SocketReader, LockWatcher, AcWatcher, BatteryWatcher,
      SleepWatcher, Watcher, Send, coreVars, taskVars
<1>2. CASE InhibitorWatcher \/ UeventTask \/ FileTask
  BY <1>2, SendKeeps
  DEF InhibitorWatcher, UeventTask, FileTask, EdgeFiltered, Send, coreVars, taskVars
<1>3. CASE Gather \/ SendTick
  BY <1>3, SendKeeps DEF Gather, SendTick, Send, coreVars, taskVars
<1>4. CASE GraceFires
  <2>1. queue' = Append(queue, [type |-> "TimerExpired"])
    BY <1>4 DEF GraceFires, Fires, Send
  <2>2. /\ Pending("TimerExpired")'
        /\ Pending("PowerAcSettled") => Pending("PowerAcSettled")'
    BY <2>1, PendingAppend DEF Inv
  <2> QED
    BY <1>4, <2>2
    DEF GraceFires, Fires, coreVars, Inv, CountdownTimed, WatchOnlyDeferred,
        SettleOwed, LockSeen, LiveLocker
<1>5. CASE SettleFires
  <2>1. queue' = Append(queue, [type |-> "PowerAcSettled"])
    BY <1>5 DEF SettleFires, Fires, Send
  <2>2. /\ Pending("PowerAcSettled")'
        /\ Pending("TimerExpired") => Pending("TimerExpired")'
    BY <2>1, PendingAppend DEF Inv
  <2> QED
    BY <1>5, <2>2
    DEF SettleFires, Fires, coreVars, Inv, CountdownTimed, WatchOnlyDeferred,
        SettleOwed, LockSeen, LiveLocker
<1>6. CASE ClaimWatchSees
  <2>1. PICK e : queue' = Append(queue, e)
    BY <1>6 DEF ClaimWatchSees, Fires, Send
  <2>2. /\ Pending("PowerAcSettled") => Pending("PowerAcSettled")'
        /\ Pending("TimerExpired") => Pending("TimerExpired")'
    BY <2>1, PendingAppend DEF Inv
  <2> QED
    BY <1>6, <2>2
    DEF ClaimWatchSees, Fires, coreVars, Inv, CountdownTimed,
        WatchOnlyDeferred, SettleOwed, LockSeen, LiveLocker
<1> QED
  BY <1>1, <1>2, <1>3, <1>4, <1>5, <1>6 DEF Source

LEMMA TailKeeps ==
  ASSUME Inv, TailStep
  PROVE  CountdownTimed' /\ WatchOnlyDeferred' /\ SettleOwed' /\ LockSeen'
<1> DEFINE Safe == CountdownTimed /\ WatchOnlyDeferred /\ SettleOwed /\ LockSeen
<1> USE DEF Inv, InTail, CountdownTimed, WatchOnlyDeferred, SettleOwed,
            LockSeen, LiveLocker, Pending
<1>1. ASSUME NEW step, InTail(step), step # "idle",
             ctx.state = "Countdown", TailFails
      PROVE  Safe'
  BY <1>1 DEF TailFails
<1>2. ASSUME NEW step, InTail(step), step # "idle",
             NEW next \in {"asked", "wait", "reprobe", "suspend"},
             TailGoes(next), next = "suspend" => hist.lockSeen
      PROVE  Safe'
  BY <1>2 DEF TailGoes
<1>3. ASSUME NEW live \in Proofs, live PROVE LiveLocker
  BY <1>3 DEF Proofs, Sampled
<1>4. CASE TailProbe
  BY <1>2, <1>3, <1>4 DEF TailProbe
<1>5. CASE TailAsked
  BY <1>2, <1>5 DEF TailAsked
<1>6. CASE TailWait
  BY <1>1, <1>2, <1>6 DEF TailWait
<1>7. CASE TailReprobe
  BY <1>1, <1>2, <1>3, <1>7 DEF TailReprobe
<1>8. CASE TailSuspend
  BY <1>1, <1>8 DEF TailSuspend, TypeOK, Context
<1> QED
  BY <1>4, <1>5, <1>6, <1>7, <1>8 DEF TailStep

LEMMA DispatchKeeps ==
  ASSUME Inv, Dispatch
  PROVE  CountdownTimed' /\ WatchOnlyDeferred' /\ SettleOwed' /\ LockSeen'
<1>0. PICK type, c : Handles(type, c)
  BY Dispatched DEF Inv
<1>1. /\ TypeOK /\ tail = "idle" /\ queue # <<>>
      /\ Head(queue).type = type /\ queue' = Tail(queue)
      /\ UNCHANGED <<env, power>>
  BY <1>0 DEF Inv, Handles, Takes
<1>2. /\ type # "TimerExpired" /\ Pending("TimerExpired")
           => Pending("TimerExpired")'
      /\ type # "PowerAcSettled" /\ Pending("PowerAcSettled")
           => Pending("PowerAcSettled")'
  BY <1>1, PendingTail
<1>3. LiveLocker' <=> LiveLocker
  BY <1>1 DEF LiveLocker
<1>4. /\ ctx'.on_ac = c.on_ac /\ ctx'.on_ac_settled = c.on_ac_settled
      /\ \/ /\ ctx'.state = ctx.state
            /\ type = "TimerExpired" => ctx.state # "Countdown"
            /\ UNCHANGED <<grace, watch, tail>>
         \/ /\ tail' = "idle"
            /\ grace' = IF ctx'.state = "Countdown" THEN "armed" ELSE "none"
            /\ watch' => ctx'.state = "Deferred"
         \/ /\ type = "TimerExpired"
            /\ ctx'.state = "Countdown"
            /\ tail' = "probe"
            /\ grace' = "none"
            /\ watch' = FALSE
  <2>1. c \in Context /\ c.state = ctx.state
    BY <1>0 DEF Handles
  <2>2. CASE type = "TimerExpired" /\ EvaluateFsms(c, "TimerExpired")
    BY <1>1, <2>1, <2>2, Evaluation DEF EventKind
  <2>3. CASE /\ type # "TimerExpired"
             /\ EvaluateFsms(c, "Resumed") \/ EvaluateFsms(c, "Other")
    BY <1>1, <2>1, <2>3, Evaluation DEF EventKind
  <2>4. CASE type # "TimerExpired" /\ (Stays(c) \/ OnEnter(c))
    BY <2>1, <2>4 DEF Stays, OnEnter
  <2> QED
    BY <1>0, <2>2, <2>3, <2>4 DEF Handles
<1>5. CountdownTimed' /\ WatchOnlyDeferred'
  BY <1>1, <1>2, <1>4 DEF Inv, CountdownTimed, WatchOnlyDeferred
<1>6. SettleOwed'
  BY <1>0, <1>2, <1>4 DEF Inv, SettleOwed, Handles
<1>7. LockSeen'
  BY <1>0, <1>1, <1>3, <1>4 DEF Inv, LockSeen, Handles
<1> QED
  BY <1>5, <1>6, <1>7

(* Inv holds of the machine: every countdown is timed, the claim watch runs*)
(* in Deferred only, the settled axis is never left behind, and a live     *)
(* locker seen by the tail is remembered.                                  *)
THEOREM InvHolds == Spec => []Inv
<1>1. Init => Inv
  BY InitKeeps
<1>2. Inv /\ [Next]_vars => Inv'
  <2> SUFFICES ASSUME Inv, [Next]_vars PROVE Inv'
    OBVIOUS
  <2>1. CASE EnvironmentStep \/ Sleep
    BY <2>1, EnvironmentTyped, EnvironmentKeeps DEF Inv
  <2>2. CASE Dispatch
    BY <2>2, DispatchTyped, DispatchKeeps DEF Inv
  <2>3. CASE TailStep
    BY <2>3, TailTyped, TailKeeps DEF Inv
  <2>4. CASE Source
    BY <2>4, SourceTyped, SourceKeeps DEF Inv
  <2>5. CASE UNCHANGED vars
    BY <2>5
    DEF vars, Inv, TypeOK, CountdownTimed, WatchOnlyDeferred, SettleOwed,
        LockSeen, LiveLocker, Pending
  <2> QED
    BY <2>1, <2>2, <2>3, <2>4, <2>5 DEF Next, DaemonStep
<1> QED
  BY <1>1, <1>2, PTL DEF Spec

(* A Countdown never sits without its timer or the expiry on its way.      *)
THEOREM CountdownAlwaysTimed == Spec => []CountdownTimed
<1>1. Inv => CountdownTimed
  BY DEF Inv
<1> QED
  BY <1>1, InvHolds, PTL

(* The compositor poll never outlives Deferred.                            *)
THEOREM WatchAlwaysDeferred == Spec => []WatchOnlyDeferred
<1>1. Inv => WatchOnlyDeferred
  BY DEF Inv
<1> QED
  BY <1>1, InvHolds, PTL

(* The settled charger axis follows the raw one.                           *)
THEOREM SettleAlwaysOwed == Spec => []SettleOwed
<1>1. Inv => SettleOwed
  BY DEF Inv
<1> QED
  BY <1>1, InvHolds, PTL

(* Only the tail's last step asks logind to suspend.                       *)
LEMMA OnlyTailSuspends ==
  ASSUME Next, power # "entering", power' = "entering"
  PROVE  tail = "suspend"
<1>1. CASE EnvironmentStep
  <2>1. ASSUME NEW input, NEW e, NEW s, Moves(input, e, s)
        PROVE  power' = power
    BY <2>1 DEF Moves
  <2> QED
    BY <1>1, <2>1
    DEF EnvironmentStep, LidMoves, MonitorMoves, LogindMoves, WaylandMoves,
        HintMoves, CompMoves, AcMoves, BatteryMoves, SuspendRequest,
        SuspendCancel, SignalLost, ConfigReload, PowerdReturns, Wake, Restart,
        Fires, coreVars
<1>2. CASE Sleep
  BY <1>2 DEF Sleep
<1>3. CASE Dispatch
  <2>1. power' = power
    BY <1>3
    DEF Dispatch, Lid, MonitorHotplug, Inhibitor, LockChanged, AcChanged,
        PowerAcSettled, PowerdAppeared, BatteryPercent, SuspendRequestChanged,
        TimerExpired, Resumed, ConfigReloaded, ReconcileTick, Takes
  <2> QED
    BY <2>1
<1>4. CASE TailStep
  BY <1>4 DEF TailStep, TailProbe, TailAsked, TailWait, TailReprobe,
              TailSuspend, InTail, TailGoes, TailFails
<1>5. CASE Source
  BY <1>5
  DEF Source, LidWatcher, SocketReader, LockWatcher, AcWatcher, BatteryWatcher,
      SleepWatcher, InhibitorWatcher, UeventTask, FileTask, GraceFires, SettleFires,
      ClaimWatchSees, Gather, SendTick, Watcher, EdgeFiltered, Fires, coreVars
<1> QED
  BY <1>1, <1>2, <1>3, <1>4, <1>5 DEF Next, DaemonStep

(* Lock before suspend, for every input, loss and bound.                   *)
THEOREM AlwaysLockBeforeSuspend == Spec => LockBeforeSuspend
<1>1. Inv /\ [Next]_vars
        => [power # "entering" /\ power' = "entering" => hist.lockSeen]_vars
  BY OnlyTailSuspends DEF Inv, LockSeen, vars
<1> QED
  BY <1>1, InvHolds, PTL DEF Spec, LockBeforeSuspend

-----------------------------------------------------------------------------
(* The decision to suspend.                                                *)

LEMMA OnlyDispatchEnters ==
  ASSUME Next, tail = "idle", tail' = "probe"
  PROVE  Dispatch
<1>1. CASE EnvironmentStep
  <2>1. ASSUME NEW input, NEW e, NEW s, Moves(input, e, s)
        PROVE  tail' = tail
    BY <2>1 DEF Moves, daemonVars
  <2> QED
    BY <1>1, <2>1
    DEF EnvironmentStep, LidMoves, MonitorMoves, LogindMoves, WaylandMoves,
        HintMoves, CompMoves, AcMoves, BatteryMoves, SuspendRequest,
        SuspendCancel, SignalLost, ConfigReload, PowerdReturns, Wake, Restart,
        Fires, coreVars, daemonVars
<1>2. CASE Sleep
  BY <1>2 DEF Sleep, daemonVars
<1>3. CASE TailStep
  BY <1>3 DEF TailStep, TailProbe, TailAsked, TailWait, TailReprobe,
              TailSuspend, InTail
<1>4. CASE Source
  BY <1>4
  DEF Source, LidWatcher, SocketReader, LockWatcher, AcWatcher, BatteryWatcher,
      SleepWatcher, InhibitorWatcher, UeventTask, FileTask, GraceFires, SettleFires,
      ClaimWatchSees, Gather, SendTick, Watcher, EdgeFiltered, Fires, coreVars
<1> QED
  BY <1>1, <1>2, <1>3, <1>4 DEF Next, DaemonStep

(* The tail is entered by an expired timer, and only if the world, with the*)
(* request as the file has it, still calls for a countdown.                *)
LEMMA ExpiryDecides ==
  ASSUME TypeOK, Next, tail = "idle", tail' = "probe"
  PROVE  LET c == [ctx EXCEPT !.suspend_requested = @ /\ file # "none"]
         IN  /\ c \in Context /\ WorldState(World(c)) = "Countdown"
             /\ ctx.state = "Countdown"
<1> DEFINE c == [ctx EXCEPT !.suspend_requested = @ /\ file # "none"]
<1>1. PICK type, d : Handles(type, d)
  BY OnlyDispatchEnters, Dispatched
<1>2. type = "TimerExpired"
  <2>1. d \in Context /\ d.state = ctx.state
    BY <1>1 DEF Handles
  <2>2. EvaluateFsms(d, "Other") => tail' # "probe"
    BY <2>1, Evaluation DEF EventKind
  <2>3. EvaluateFsms(d, "Resumed") => tail' # "probe"
    BY <2>1, Evaluation DEF EventKind
  <2>4. Stays(d) \/ OnEnter(d) => tail' # "probe"
    BY DEF Stays, OnEnter
  <2> QED
    BY <1>1, <2>2, <2>3, <2>4 DEF Handles
<1>3. TimerExpired
  BY <1>1, <1>2, OnlyDispatchEnters
  DEF Dispatch, Handles, Takes, Lid, MonitorHotplug, Inhibitor, LockChanged,
      AcChanged, PowerAcSettled, PowerdAppeared, BatteryPercent,
      SuspendRequestChanged, Resumed, ConfigReloaded, ReconcileTick
<1>4. EvaluateFsms(c, "TimerExpired")
  BY <1>3 DEF TimerExpired
<1>5. c \in Context /\ World(c) \in WorldInputs
  BY WorldType DEF TypeOK, Context
<1>6. DesiredState(c.state, "TimerExpired", World(c)) = "Suspending"
      /\ c.state # "Suspending"
  <2> HIDE DEF c
  <2> QED
    BY <1>4 DEF EvaluateFsms, Stays, OnEnter
<1>7. WorldState(World(c)) = "Countdown"
  <2> HIDE DEF c
  <2> QED
    BY <1>5, <1>6, WorldStateAwake DEF DesiredState, Awake
<1>8. ctx.state = "Countdown"
  <2>1. c.state = ctx.state
    BY DEF TypeOK, Context
  <2> HIDE DEF c
  <2> QED
    BY <1>6, <2>1 DEF DesiredState
<1> QED
  BY <1>5, <1>7, <1>8

(* With the lid open, no suspend is attempted without a standing request:  *)
(* a withdrawal always beats the expiry it races.                          *)
THEOREM AlwaysWithdrawnInTime == Spec => WithdrawnInTime
<1>1. TypeOK /\ [Next]_vars
        => [tail = "idle" /\ tail' = "probe" /\ ~ctx.lid_closed
              => file # "none"]_vars
  <2> SUFFICES ASSUME TypeOK, Next, tail = "idle", tail' = "probe",
                      ~ctx.lid_closed
               PROVE  file # "none"
    BY DEF vars
  <2> DEFINE c == [ctx EXCEPT !.suspend_requested = @ /\ file # "none"]
  <2>1. c \in Context /\ WorldState(World(c)) = "Countdown"
    BY ExpiryDecides
  <2>2. /\ c.lid_closed = ctx.lid_closed
        /\ c.suspend_requested => file # "none"
    BY DEF TypeOK, Context
  <2> HIDE DEF c
  <2> QED
    BY <2>1, <2>2 DEF WorldState, World
<1> QED
  BY <1>1, TypeCorrect, PTL DEF Spec, WithdrawnInTime

(* lid-ac = defer: a closed lid alone never suspends a machine that is     *)
(* known to be on the charger.                                             *)
THEOREM AlwaysParkedOnCharger == Spec => ParkedOnCharger
<1>1. TypeOK /\ [Next]_vars
        => [tail = "idle" /\ tail' = "probe" /\ LidAcDefer /\ ctx.on_ac
              => ctx.suspend_requested]_vars
  <2> SUFFICES ASSUME TypeOK, Next, tail = "idle", tail' = "probe",
                      LidAcDefer, ctx.on_ac
               PROVE  ctx.suspend_requested
    BY DEF vars
  <2> DEFINE c == [ctx EXCEPT !.suspend_requested = @ /\ file # "none"]
  <2>1. c \in Context /\ WorldState(World(c)) = "Countdown"
    BY ExpiryDecides
  <2>2. /\ c.on_ac = ctx.on_ac
        /\ c.suspend_requested => ctx.suspend_requested
    BY DEF TypeOK, Context
  <2> HIDE DEF c
  <2>3. c.suspend_requested
    BY <2>1, <2>2, WorldType DEF WorldState, World, WorldInputs
  <2> QED
    BY <2>2, <2>3
<1> QED
  BY <1>1, TypeCorrect, PTL DEF Spec, ParkedOnCharger
=============================================================================
