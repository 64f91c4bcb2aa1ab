-------------------------- MODULE LidPromiseProofs --------------------------
(***************************************************************************)
(* What LidSuspend keeps across a suspend and a wake, for every value of   *)
(* its constants: a wake schedules no new suspend, the daemon stays in     *)
(* Suspending until the machine is back, and the machine implements        *)
(* SuspendPromise.  And what it keeps between events: while charger,       *)
(* battery and request hold still, the state the context calls for.        *)
(***************************************************************************)
EXTENDS LidSuspendProofs, MCLidFocus

(* A request that stands while the machine is up was written since it last *)
(* woke from this daemon's suspend, or since the daemon started.           *)
FreshFile == file # "none" /\ ctx.state # "Suspending" => hist.fresh

ResumedAt(n) == n \in 1..Len(queue) /\ queue[n].type = "Resumed"

(* Where nobody else suspends the machine and the daemon is not restarted, *)
(* the returns are counted: one suspend, one signal, one Resumed, all of   *)
(* them met in Suspending.                                                 *)
Counted ==
  /\ power # "awake" \/ "resume" \in dirty \/ (\E n : ResumedAt(n))
       => ctx.state = "Suspending" /\ tail = "idle"
  /\ power # "awake" => "resume" \notin dirty
  /\ power # "awake" \/ "resume" \in dirty => ~\E n : ResumedAt(n)
  /\ \A m, n : ResumedAt(m) /\ ResumedAt(n) => m = n

Alone == {"restart", "extsuspend"} \cap Inputs = {}

Kept == Inv /\ FreshFile /\ (Alone => Counted)

-----------------------------------------------------------------------------
(* The shapes of a step.                                                   *)

(* What one event does to the state: kept, entered anew, or the tail.  Only*)
(* a resume leads out of Suspending.                                       *)
LEMMA HandlerMoves ==
  ASSUME TypeOK, NEW type, NEW c, Handles(type, c)
  PROVE  /\ tail = "idle" /\ ctx'.state \in State
         /\ \/ tail' = "idle"
            \/ /\ tail' = "probe" /\ type = "TimerExpired"
               /\ ctx.state = "Countdown" /\ ctx'.state = "Countdown"
         /\ ctx'.state = "Suspending" => ctx.state = "Suspending"
         /\ ctx.state = "Suspending"
              => ctx'.state = "Suspending" \/ type = "Resumed"
<1>1. c \in Context /\ c.state = ctx.state /\ tail = "idle"
  BY DEF Handles, Takes
<1>2. ASSUME NEW kind \in EventKind, EvaluateFsms(c, kind),
             kind = "Resumed" => type = "Resumed",
             kind = "TimerExpired" => type = "TimerExpired"
      PROVE  /\ ctx'.state \in State
             /\ \/ tail' = "idle"
                \/ /\ tail' = "probe" /\ type = "TimerExpired"
                   /\ ctx.state = "Countdown" /\ ctx'.state = "Countdown"
             /\ ctx'.state = "Suspending" => ctx.state = "Suspending"
             /\ ctx.state = "Suspending"
                  => ctx'.state = "Suspending" \/ type = "Resumed"
  <2> DEFINE want == DesiredState(c.state, kind, World(c))
  <2>1. /\ want \in State /\ c.state \in State
        /\ want = "Suspending" /\ c.state # "Suspending"
             => kind = "TimerExpired" /\ c.state = "Countdown"
    BY <1>1, WorldType, DesiredStates DEF Context
  <2>2. c.state = "Suspending" /\ kind # "Resumed" => want = "Suspending"
    BY DEF DesiredState, EventKind
  <2> DEFINE d == [c EXCEPT !.state = want]
  <2>3. d.state = want
    BY <1>1 DEF Context
  <2>4. \/ want = c.state /\ ctx' = c /\ tail' = tail
        \/ want # c.state /\ want = "Suspending" /\ ctx' = c /\ tail' = "probe"
        \/ want \notin {c.state, "Suspending"} /\ ctx' = d /\ tail' = "idle"
    BY <1>2 DEF EvaluateFsms, Stays, OnEnterSuspending, OnEnter
  <2> HIDE DEF want, d
  <2> QED
    BY <1>1, <1>2, <2>1, <2>2, <2>3, <2>4
<1>3. CASE Stays(c) \/ (c.state # "Suspending" /\ OnEnter(c))
  BY <1>1, <1>3 DEF Stays, OnEnter, Context
<1> QED
  BY <1>1, <1>2, <1>3 DEF Handles, EventKind

(* A step of a task that feeds the queue: at most one event more, and never*)
(* a resume unless logind's signal is spent for it.                        *)
LEMMA SourceMoves ==
  ASSUME Source
  PROVE  /\ Running
         /\ UNCHANGED <<power, file, ctx, tail, hist>>
         /\ dirty' \subseteq dirty \cup {"file"}
         /\ \/ queue' = queue
            \/ \E e : /\ queue' = Append(queue, e)
                      /\ e.type = "Resumed"
                           => "resume" \in dirty /\ "resume" \notin dirty'
<1>1. CASE LidWatcher \/ SocketReader \/ LockWatcher \/ AcWatcher
           \/ BatteryWatcher \/ SleepWatcher
  BY <1>1 DEF LidWatcher, SocketReader, LockWatcher, AcWatcher, BatteryWatcher,
              SleepWatcher, Watcher, Send, coreVars
<1>2. CASE InhibitorWatcher \/ UeventTask \/ FileTask
  BY <1>2 DEF InhibitorWatcher, UeventTask, FileTask, EdgeFiltered, Send,
              coreVars
<1>3. CASE GraceFires \/ SettleFires \/ ClaimWatchSees
  BY <1>3 DEF GraceFires, SettleFires, ClaimWatchSees, Fires, Send, coreVars
<1>4. CASE Gather
  BY <1>4 DEF Gather, coreVars
<1>5. CASE SendTick
  BY <1>5 DEF SendTick, Send, coreVars
<1> QED
  BY <1>1, <1>2, <1>3, <1>4, <1>5 DEF Source

(* The environment moves, and what it moves tells of no return.            *)
LEMMA WorldMoves ==
  ASSUME TypeOK, NEW input, NEW e \in Environment, NEW s \in SUBSET Signals,
         "resume" \notin s, Moves(input, e, s)
  PROVE  /\ UNCHANGED <<power, file, ctx, tail, queue>>
         /\ hist'.fresh = hist.fresh
         /\ hist'.lockSeen # hist.lockSeen => tail # "idle" /\ hist'.lockSeen
         /\ "resume" \in dirty' => "resume" \in dirty
<1>1. hist'.lockSeen # hist.lockSeen => tail # "idle" /\ hist'.lockSeen
  <2>1. e.hint \in BOOLEAN /\ e.comp \in BOOLEAN /\ hist.lockSeen \in BOOLEAN
    BY DEF TypeOK, Environment
  <2>2. hist'.lockSeen = IF tail = "idle" THEN hist.lockSeen
                         ELSE hist.lockSeen \/ (e.hint /\ e.comp)
    BY DEF Moves, TypeOK
  <2> QED
    BY <2>1, <2>2
<1> QED
  BY <1>1 DEF Moves, daemonVars, TypeOK

LEMMA WorldInput ==
  ASSUME TypeOK,
         LidMoves \/ MonitorMoves \/ LogindMoves \/ WaylandMoves
           \/ HintMoves \/ CompMoves \/ AcMoves \/ BatteryMoves
  PROVE  \E input, e : \E s \in SUBSET Signals :
           e \in Environment /\ "resume" \notin s /\ Moves(input, e, s)
<1>1. env \in Environment
  BY DEF TypeOK
<1>2. CASE LidMoves
  BY <1>1, <1>2 DEF LidMoves, Environment, Signals
<1>3. CASE MonitorMoves
  <2>1. PICK n \in 0..MaxExt :
          Moves("monitor", [env EXCEPT !.ext = n], {"monitor"})
    BY <1>3 DEF MonitorMoves
  <2>2. [env EXCEPT !.ext = n] \in Environment
    BY <1>1 DEF Environment
  <2> QED
    BY <2>1, <2>2 DEF Signals
<1>4. CASE LogindMoves
  BY <1>1, <1>4 DEF LogindMoves, Environment, Signals
<1>5. CASE WaylandMoves
  BY <1>1, <1>5 DEF WaylandMoves, Environment, Signals
<1>6. CASE HintMoves
  BY <1>1, <1>6 DEF HintMoves, Environment, Signals
<1>7. CASE CompMoves
  BY <1>1, <1>7 DEF CompMoves, Environment, Signals
<1>8. CASE AcMoves
  BY <1>1, <1>8 DEF AcMoves, Environment, Signals
<1>9. CASE BatteryMoves
  <2>1. PICK p \in Pct : Moves("battery", [env EXCEPT !.pct = p], {"battery"})
    BY <1>9 DEF BatteryMoves
  <2>2. [env EXCEPT !.pct = p] \in Environment
    BY <1>1, <2>1 DEF Environment
  <2> QED
    BY <2>1, <2>2 DEF Signals
<1> QED
  BY <1>2, <1>3, <1>4, <1>5, <1>6, <1>7, <1>8, <1>9

-----------------------------------------------------------------------------
(* Fresh requests.                                                         *)

LEMMA FreshKept ==
  ASSUME TypeOK, FreshFile, [Next]_vars
  PROVE  FreshFile'
<1>1. ASSUME UNCHANGED <<file, ctx>>, hist'.fresh = hist.fresh
      PROVE  FreshFile'
  BY <1>1 DEF FreshFile
<1>2. CASE LidMoves \/ MonitorMoves \/ LogindMoves \/ WaylandMoves
           \/ HintMoves \/ CompMoves \/ AcMoves \/ BatteryMoves
  BY <1>1, <1>2, WorldInput, WorldMoves
<1>3. CASE SuspendRequest \/ SuspendCancel \/ Wake
  BY <1>3 DEF SuspendRequest, SuspendCancel, Wake, FreshFile, TypeOK, daemonVars
<1>4. CASE SignalLost \/ ConfigReload \/ PowerdReturns \/ Sleep
  BY <1>1, <1>4 DEF SignalLost, ConfigReload, PowerdReturns, Sleep, Fires,
                    coreVars, daemonVars
<1>5. CASE Restart
  BY <1>5 DEF Restart, BootFile, FreshFile, TypeOK
<1>6. CASE Source
  BY <1>1, <1>6, SourceMoves
<1>7. CASE TailStep
  BY <1>7 DEF TailStep, TailProbe, TailAsked, TailWait, TailReprobe,
              TailSuspend, InTail, TailGoes, TailFails, FreshFile, TypeOK,
              Context
<1>8. CASE Dispatch
  <2>1. PICK type, c : Handles(type, c)
    BY <1>8, Dispatched
  <2>2. file' # "none" /\ ~hist'.fresh
          => type # "Resumed" /\ file # "none" /\ ~hist.fresh
    BY <2>1 DEF Handles
  <2> QED
    BY <2>1, <2>2, HandlerMoves DEF FreshFile
<1>9. CASE UNCHANGED vars
  BY <1>1, <1>9 DEF vars
<1> QED
  BY <1>2, <1>3, <1>4, <1>5, <1>6, <1>7, <1>8, <1>9
  DEF Next, EnvironmentStep, DaemonStep

-----------------------------------------------------------------------------
(* Counted returns.                                                        *)

LEMMA CountedKept ==
  ASSUME Inv, Counted, Alone, [Next]_vars
  PROVE  Counted'
<1>1. ASSUME UNCHANGED <<power, ctx, tail, queue>>,
             "resume" \in dirty' => "resume" \in dirty
      PROVE  Counted'
  BY <1>1 DEF Counted, ResumedAt
<1>2. ASSUME UNCHANGED <<power, ctx, tail>>,
             "resume" \in dirty' => "resume" \in dirty,
             NEW e, queue' = Append(queue, e),
             e.type = "Resumed" => "resume" \in dirty /\ "resume" \notin dirty'
      PROVE  Counted'
  <2>1. /\ Len(queue) \in Nat /\ Len(queue') = Len(queue) + 1
        /\ queue'[Len(queue) + 1] = e
        /\ \A n \in 1..Len(queue) : queue'[n] = queue[n]
    BY <1>2 DEF Inv, TypeOK
  <2>2. \A n : ResumedAt(n)' =>
          ResumedAt(n) \/ (n = Len(queue) + 1 /\ e.type = "Resumed")
    BY <2>1 DEF ResumedAt
  <2>3. CASE e.type = "Resumed"
    BY <1>2, <2>2, <2>3 DEF Counted
  <2>4. CASE e.type # "Resumed"
    BY <1>2, <2>2, <2>4 DEF Counted
  <2> QED
    BY <2>3, <2>4
<1>3. TypeOK
  BY DEF Inv
<1>4. CASE LidMoves \/ MonitorMoves \/ LogindMoves \/ WaylandMoves
           \/ HintMoves \/ CompMoves \/ AcMoves \/ BatteryMoves
  BY <1>1, <1>3, <1>4, WorldInput, WorldMoves
<1>5. CASE SuspendRequest \/ SuspendCancel \/ SignalLost
  BY <1>1, <1>5 DEF SuspendRequest, SuspendCancel, SignalLost, daemonVars
<1>6. CASE Sleep \/ Wake
  BY <1>6 DEF Sleep, Wake, Alone, Counted, ResumedAt, daemonVars
<1>7. CASE ConfigReload \/ PowerdReturns
  BY <1>2, <1>7 DEF ConfigReload, PowerdReturns, Fires, Send, coreVars
<1>8. CASE Source
  BY <1>1, <1>2, <1>8, SourceMoves
<1>9. CASE TailStep
  <2>1. tail # "idle" /\ UNCHANGED <<dirty, queue>>
    BY <1>9 DEF TailStep, TailProbe, TailAsked, TailWait, TailReprobe,
                TailSuspend, InTail
  <2>2. \/ UNCHANGED power
        \/ ctx'.state = "Suspending" /\ tail' = "idle" /\ power' = "entering"
    BY <1>3, <1>9 DEF TailStep, TailProbe, TailAsked, TailWait, TailReprobe,
                TailSuspend, InTail, TailGoes, TailFails, TypeOK, Context
  <2> QED
    BY <2>1, <2>2 DEF Counted, ResumedAt
<1>10. CASE Dispatch
  <2>1. PICK type, c : Handles(type, c)
    BY <1>3, <1>10, Dispatched
  <2>2. /\ queue # <<>> /\ queue' = Tail(queue) /\ Head(queue).type = type
        /\ power' = power /\ dirty' \subseteq dirty \cup {"file"}
    BY <2>1 DEF Handles, Takes
  <2>3. /\ \A n : ResumedAt(n)' => ResumedAt(n + 1)
        /\ \A n : ResumedAt(n)' => n # 0
        /\ type = "Resumed" => ResumedAt(1)
        /\ \A n : ResumedAt(n)' => n \in Nat
    <3>1. /\ Len(queue) \in Nat /\ Len(queue) > 0 /\ Head(queue) = queue[1]
          /\ Len(queue') = Len(queue) - 1
          /\ \A n \in 1..Len(queue) - 1 : queue'[n] = queue[n + 1]
      BY <1>3, <2>2 DEF TypeOK
    <3> QED
      BY <2>2, <3>1 DEF ResumedAt
  <2>4. type = "Resumed" => ~\E n : ResumedAt(n)'
    <3> SUFFICES ASSUME type = "Resumed", NEW n, ResumedAt(n)' PROVE FALSE
      OBVIOUS
    <3>1. ResumedAt(1) /\ ResumedAt(n + 1) /\ n \in Nat /\ n # 0
      BY <2>3
    <3>2. n + 1 = 1
      BY <3>1 DEF Counted
    <3> QED
      BY <3>1, <3>2
  <2>5. \/ tail' = "idle"
        \/ tail' = "probe" /\ ctx.state = "Countdown"
    BY <1>3, <2>1, HandlerMoves
  <2>6. CASE power # "awake" \/ "resume" \in dirty
    <3>1. type # "Resumed" /\ ctx.state = "Suspending"
      BY <2>3, <2>6 DEF Counted
    <3>2. ctx'.state = "Suspending" /\ tail' = "idle"
      BY <1>3, <2>1, <2>5, <3>1, HandlerMoves
    <3>3. ~\E n : ResumedAt(n)'
      BY <2>3, <2>6 DEF Counted
    <3> QED
      BY <2>2, <2>6, <3>2, <3>3 DEF Counted
  <2>7. CASE ~(power # "awake" \/ "resume" \in dirty)
    <3>1. power' = "awake" /\ "resume" \notin dirty'
      BY <2>2, <2>7
    <3>2. \A m, n : ResumedAt(m)' /\ ResumedAt(n)' => m = n
      <4> SUFFICES ASSUME NEW m, NEW n, ResumedAt(m)', ResumedAt(n)'
                   PROVE  m = n
        OBVIOUS
      <4>1. m + 1 = n + 1 /\ m \in Nat /\ n \in Nat
        BY <2>3 DEF Counted
      <4> QED
        BY <4>1
    <3>3. (\E n : ResumedAt(n)') => ctx'.state = "Suspending" /\ tail' = "idle"
      <4> SUFFICES ASSUME NEW n, ResumedAt(n)'
                   PROVE  ctx'.state = "Suspending" /\ tail' = "idle"
        OBVIOUS
      <4>1. type # "Resumed" /\ ctx.state = "Suspending"
        BY <2>3, <2>4 DEF Counted
      <4> QED
        BY <1>3, <2>1, <2>5, <4>1, HandlerMoves
    <3> QED
      BY <3>1, <3>2, <3>3 DEF Counted
  <2> QED
    BY <2>6, <2>7
<1>11. CASE UNCHANGED vars
  BY <1>1, <1>11 DEF vars
<1>12. ~Restart
  BY DEF Restart, Alone
<1> QED
  BY <1>4, <1>5, <1>6, <1>7, <1>8, <1>9, <1>10, <1>11, <1>12
  DEF Next, EnvironmentStep, DaemonStep

LEMMA KeptHolds == Spec => []Kept
<1>1. Init => Kept
  <2>1. Init => FreshFile /\ Counted
    BY DEF Init, BootFile, FreshFile, Counted, ResumedAt
  <2> QED
    BY <2>1, InitKeeps DEF Kept
<1>2. Kept /\ Inv' /\ [Next]_vars => Kept'
  BY FreshKept, CountedKept DEF Kept, Inv, Alone
<1> QED
  BY <1>1, <1>2, InvHolds, PTL DEF Spec

(* A wake schedules no new suspend, in every instance: with the lid open   *)
(* the tail is entered only for a request written since the machine last   *)
(* woke from this daemon's suspend (Event::Resumed clears the file before  *)
(* the state is derived) or since the daemon last started.                 *)
THEOREM NeverSuspendLoop == Spec => NoSuspendLoop
<1>1. Kept /\ [Next]_vars
        => [tail = "idle" /\ tail' = "probe" /\ ~ctx.lid_closed
              => hist.fresh]_vars
  <2> SUFFICES ASSUME Kept, Next, tail = "idle", tail' = "probe",
                      ~ctx.lid_closed
               PROVE  hist.fresh
    BY DEF vars
  <2> DEFINE c == [ctx EXCEPT !.suspend_requested = @ /\ file # "none"]
  <2>1. /\ c \in Context /\ WorldState(World(c)) = "Countdown"
        /\ ctx.state = "Countdown"
    BY ExpiryDecides DEF Kept, Inv
  <2>2. /\ c.lid_closed = ctx.lid_closed
        /\ c.suspend_requested => file # "none"
    BY DEF Kept, Inv, TypeOK, Context
  <2> HIDE DEF c
  <2>3. file # "none"
    BY <2>1, <2>2 DEF WorldState, World
  <2> QED
    BY <2>1, <2>3 DEF Kept, FreshFile
<1> QED
  BY <1>1, KeptHolds, PTL DEF Spec, NoSuspendLoop

(* From the moment logind accepts a suspend until the machine is back the  *)
(* daemon is in Suspending, where only it suspends the machine and is not  *)
(* restarted: no handler between the two starts a countdown.               *)
THEOREM AlwaysDownOnlySuspending ==
  ASSUME {"restart", "extsuspend"} \cap Inputs = {}
  PROVE  Spec => []DownOnlySuspending
<1>1. Kept => DownOnlySuspending
  BY DEF Kept, Alone, Counted, DownOnlySuspending
<1> QED
  BY <1>1, KeptHolds, PTL

-----------------------------------------------------------------------------
(* The promise, step by step.                                              *)

(* Nothing the promise speaks of moves.                                    *)
LEMMA Stutters ==
  ASSUME UNCHANGED <<power, tail, ctx>>, tail = "idle" \/ UNCHANGED hist.lockSeen
  PROVE  UNCHANGED Promise!vars
BY DEF Promise!vars, phase

LEMMA WorldPromises ==
  ASSUME Inv, EnvironmentStep \/ Sleep \/ UNCHANGED vars
  PROVE  [Promise!Next]_(Promise!vars)
<1>1. TypeOK
  BY DEF Inv
<1>2. CASE LidMoves \/ MonitorMoves \/ LogindMoves \/ WaylandMoves
           \/ HintMoves \/ CompMoves \/ AcMoves \/ BatteryMoves
  <2>1. /\ UNCHANGED <<power, ctx, tail>>
        /\ hist'.lockSeen # hist.lockSeen => tail # "idle" /\ hist'.lockSeen
    BY <1>1, <1>2, WorldInput, WorldMoves
  <2>2. CASE hist'.lockSeen = hist.lockSeen
    BY <2>1, <2>2, Stutters
  <2>3. CASE hist'.lockSeen # hist.lockSeen
    BY <2>1, <2>3 DEF Promise!Next, Promise!LockerSeen, phase
  <2> QED
    BY <2>2, <2>3
<1>3. CASE SuspendRequest \/ SuspendCancel \/ SignalLost \/ ConfigReload
           \/ PowerdReturns
  BY <1>1, <1>3, Stutters
  DEF SuspendRequest, SuspendCancel, SignalLost, ConfigReload, PowerdReturns,
      Fires, coreVars, daemonVars, TypeOK
<1>4. CASE Sleep
  BY <1>4 DEF Sleep, daemonVars, Promise!Next, Promise!Sleep, phase
<1>5. CASE Wake
  BY <1>1, <1>5 DEF Wake, daemonVars, Promise!Next, Promise!Wake, phase, TypeOK
<1>6. CASE Restart
  <2>1. /\ "restart" \in Inputs /\ tail' = "idle" /\ power' = power
        /\ ctx'.state # "Suspending"
    BY <1>1, <1>6, BootTyped DEF Restart, TypeOK
  <2> QED
    BY <2>1 DEF Promise!Next, Promise!Restart, phase
<1>7. CASE UNCHANGED vars
  BY <1>7, Stutters DEF vars
<1> QED
  BY <1>2, <1>3, <1>4, <1>5, <1>6, <1>7 DEF EnvironmentStep

LEMMA TailPromises ==
  ASSUME Inv, TailStep
  PROVE  [Promise!Next]_(Promise!vars)
<1>1. tail # "idle" /\ ctx.state = "Countdown" /\ phase = "proving"
  BY DEF TailStep, TailProbe, TailAsked, TailWait, TailReprobe, TailSuspend,
         InTail, Inv, CountdownTimed, phase
<1>2. ASSUME TailFails PROVE Promise!GiveUp
  BY <1>1, <1>2 DEF TailFails, Promise!GiveUp, Promise!Goes, phase
<1>3. ASSUME NEW step, step # "idle", TailGoes(step)
      PROVE  UNCHANGED Promise!vars
  BY <1>1, <1>3 DEF TailGoes, Promise!vars, phase
<1>4. CASE TailProbe \/ TailAsked
  BY <1>3, <1>4 DEF TailProbe, TailAsked
<1>5. CASE TailWait \/ TailReprobe
  BY <1>2, <1>3, <1>5 DEF TailWait, TailReprobe, Promise!Next
<1>6. CASE TailSuspend
  <2>1. CASE TailFails
    BY <1>2, <2>1 DEF Promise!Next
  <2>2. CASE ~TailFails
    <3>1. /\ tail = "suspend" /\ tail' = "idle" /\ power' = "entering"
          /\ ctx'.state = "Suspending"
      BY <1>6, <2>2 DEF TailSuspend, InTail, Inv, TypeOK, Context
    <3>2. hist.lockSeen
      BY <3>1 DEF Inv, LockSeen
    <3> QED
      BY <1>1, <3>1, <3>2 DEF Promise!Next, Promise!Suspend, phase
  <2> QED
    BY <2>1, <2>2
<1> QED
  BY <1>4, <1>5, <1>6 DEF TailStep

LEMMA DispatchPromises ==
  ASSUME Kept, Dispatch
  PROVE  [Promise!Next]_(Promise!vars)
<1>1. PICK type, c : Handles(type, c)
  BY Dispatched DEF Kept, Inv
<1>2. /\ tail = "idle" /\ power' = power
      /\ type = "Resumed" => ResumedAt(1)
  BY <1>1 DEF Handles, Takes, Kept, Inv, TypeOK, ResumedAt
<1>3. /\ ctx.state \in State /\ ctx'.state \in State
      /\ \/ tail' = "idle"
         \/ tail' = "probe" /\ ctx.state = "Countdown"
      /\ ctx'.state = "Suspending" => ctx.state = "Suspending"
      /\ ctx.state = "Suspending"
           => ctx'.state = "Suspending" \/ type = "Resumed"
  BY <1>1, HandlerMoves DEF Kept, Inv, TypeOK, Context
<1>4. hist'.lockSeen \in BOOLEAN
  BY <1>1 DEF Handles
<1>5. CASE tail' = "probe"
  <2>1. Promise!Expire
    BY <1>2, <1>3, <1>4, <1>5 DEF Promise!Expire, phase
  <2> QED
    BY <2>1 DEF Promise!Next
<1>6. CASE tail' = "idle" /\ ctx.state # "Suspending"
  BY <1>2, <1>3, <1>6
  DEF Promise!Next, Promise!StartGrace, Promise!CallOff, Promise!Goes,
      Promise!vars, phase
<1>7. CASE tail' = "idle" /\ ctx.state = "Suspending"
  <2>1. CASE ctx'.state = "Suspending"
    BY <1>2, <1>7, <2>1 DEF Promise!vars, phase
  <2>2. CASE ctx'.state # "Suspending"
    <3>1. power = "awake" \/ "restart" \in Inputs \/ "extsuspend" \in Inputs
      BY <1>2, <1>3, <1>7, <2>2 DEF Kept, Alone, Counted
    <3>2. /\ phase = "down" /\ phase' \in {"up", "grace"}
      BY <1>2, <1>3, <1>7, <2>2 DEF phase
    <3>3. Promise!Goes("down", "up") \/ Promise!Goes("down", "grace")
      BY <1>2, <1>7, <3>2 DEF Promise!Goes
    <3> QED
      BY <3>1, <3>3 DEF Promise!Next, Promise!Return
  <2> QED
    BY <2>1, <2>2
<1> QED
  BY <1>3, <1>5, <1>6, <1>7

LEMMA SourcePromises ==
  ASSUME Source
  PROVE  UNCHANGED Promise!vars
BY SourceMoves DEF Promise!vars, phase

(* The machine implements SuspendPromise, whatever moves, is lost or fills *)
(* up: its handlers, its tail, its retries and its restarts are a grace, a *)
(* proof of the lock, a suspend and a return, or nothing.                  *)
THEOREM AlwaysKeepsPromise == Spec => KeepsPromise
<1>1. Init => Promise!Init
  <2> SUFFICES ASSUME Init PROVE Promise!Init
    OBVIOUS
  <2>1. ctx.state # "Suspending" /\ tail = "idle" /\ power = "awake"
    BY BootTyped DEF Init
  <2> QED
    BY <2>1 DEF Promise!Init, phase
<1>2. Kept /\ [Next]_vars => [Promise!Next]_(Promise!vars)
  <2> SUFFICES ASSUME Kept, [Next]_vars
               PROVE  [Promise!Next]_(Promise!vars)
    OBVIOUS
  <2>1. Inv
    BY DEF Kept
  <2> QED
    BY <2>1, WorldPromises, TailPromises, DispatchPromises, SourcePromises
    DEF Next, DaemonStep
<1> QED
  BY <1>1, <1>2, KeptHolds, PTL DEF Spec, KeepsPromise, Promise!Spec

-----------------------------------------------------------------------------
(* Coherence.                                                              *)

(* A step that neither asks for a suspend nor moves charger or battery.    *)
StillStep == UNCHANGED <<env.ac, env.pct>> /\ ~SuspendRequest

(* The context of a machine nobody asks to suspend, with a full battery and*)
(* a charger that has been where it is.                                    *)
CalmContext(c) ==
  /\ c \in Context /\ c.state = ctx.state
  /\ ~c.low_battery /\ ~c.suspend_requested
  /\ c.on_ac = env.ac /\ c.on_ac_settled = env.ac

CalmEvent(e) ==
  /\ e.type = "AcChanged" => e.on_ac = env.ac
  /\ e.type = "BatteryPercent" => e.pct = "high"
  /\ e.type = "SuspendRequestChanged" => ~e.standing
  /\ e.type = "ReconcileTick" => e.snap.ac = env.ac

CalmQueue == \A n \in 1..Len(queue) : CalmEvent(queue[n])

(* Nothing that is known, queued or gathered says otherwise.               *)
Calm ==
  /\ env.pct = "high" /\ file = "none"
  /\ CalmContext(ctx)
  /\ CalmQueue
  /\ snap # <<>> => Head(snap).ac = env.ac

(* Coherent, and what makes it so after a tail that fails.                 *)
CoherentTail ==
  tail # "idle" => WorldState(World(ctx)) = "Countdown"

CalmInv == Inv /\ Calm /\ Coherent /\ CoherentTail

LEMMA CalmBoot ==
  ASSUME env \in Environment, env.pct = "high"
  PROVE  /\ BootFile = "none"
         /\ BootContext \in Context
         /\ ~BootContext.low_battery /\ ~BootContext.suspend_requested
         /\ BootContext.on_ac = env.ac /\ BootContext.on_ac_settled = env.ac
         /\ BootContext.state = WorldState(World(BootContext))
<1> DEFINE c == [ state |-> "LidOpen", lid_closed |-> LidPresent /\ env.lid,
             ext_mon_count |-> env.ext, logind_inhibitor |-> env.logind,
             wayland_inhibitor |-> env.wayland, locked |-> env.hint,
             on_ac |-> env.ac, on_ac_settled |-> env.ac,
             low_battery |-> env.pct = "low",
             suspend_requested |-> BootRequests ]
           d == [c EXCEPT !.state = WorldState(World(c))]
<1>1. BootContext = d /\ ~BootRequests
  BY DEF BootContext, BootRequests
<1>2. ~c.low_battery /\ ~c.suspend_requested
      /\ c.on_ac = env.ac /\ c.on_ac_settled = env.ac
  BY <1>1
<1>3. World(d) = World(c)
  BY DEF World
<1>4. d.state = WorldState(World(c)) /\ ~d.low_battery /\ ~d.suspend_requested
      /\ d.on_ac = env.ac /\ d.on_ac_settled = env.ac
  BY <1>2
<1> HIDE DEF c, d
<1> QED
  BY <1>1, <1>3, <1>4, BootTyped DEF BootFile

(* Decision 6 has nothing to decide.                                       *)
LEMMA CalmBattery ==
  ASSUME NEW c, CalmContext(c)
  PROVE  BatteryChecked(c) = c
<1>1. c.low_battery = FALSE /\ c.suspend_requested = FALSE
  BY DEF CalmContext, Context
<1>2. ~BatteryRequests(c) /\ ~BatteryWithdraws(c)
  BY <1>1 DEF BatteryRequests, BatteryWithdraws
<1>3. BatteryChecked(c) = [c EXCEPT !.suspend_requested = FALSE]
  BY <1>1, <1>2 DEF BatteryChecked
<1> QED
  BY <1>1, <1>3 DEF CalmContext, Context

(* What a handler does in a calm machine: it re-derives the state, or it   *)
(* leaves the context as it is.                                            *)
CalmStep ==
  \/ \E c : CalmContext(c) /\ EvaluateFsms(c, "Other")
  \/ EvaluateFsms(ctx, "TimerExpired")
  \/ EvaluateFsms(ctx, "Resumed")
  \/ Stays(ctx)
  \/ ctx.state # "Suspending" /\ OnEnter(ctx)

LEMMA CalmDispatch ==
  ASSUME Inv, Calm, Dispatch
  PROVE  CalmStep /\ file' = "none" /\ tail = "idle"
<1>1. TypeOK /\ ctx \in Context /\ CalmContext(ctx) /\ file = "none"
      /\ ctx.suspend_requested = FALSE /\ ctx.low_battery = FALSE
      /\ ctx.on_ac = env.ac /\ ctx.on_ac_settled = env.ac
      /\ env.wayland \in BOOLEAN /\ env.ext \in 0..MaxExt
  BY DEF Inv, TypeOK, Calm, CalmContext, Context, Environment
<1> DEFINE e == Head(queue)
<1>2. PICK type, d : Handles(type, d)
  BY <1>1, Dispatched
<1>3. tail = "idle" /\ queue # <<>> /\ e \in Event /\ CalmEvent(e)
  <2>1. tail = "idle" /\ queue # <<>>
    BY <1>2 DEF Handles, Takes
  <2>2. Head(queue) = queue[1] /\ 1 \in 1..Len(queue)
    BY <1>1, <2>1 DEF TypeOK
  <2> QED
    BY <1>1, <2>1, <2>2, QueueHead DEF Calm, CalmQueue
<1>4. ctx = [ctx EXCEPT !.suspend_requested = FALSE]
      /\ ctx = [ctx EXCEPT !.on_ac = env.ac]
      /\ ctx = [ctx EXCEPT !.on_ac_settled = env.ac]
      /\ ctx = [ctx EXCEPT !.low_battery = FALSE]
  BY <1>1 DEF Context
<1>5. BatteryChecked(ctx) = ctx
  BY <1>1, CalmBattery
<1>6. ASSUME BatteryCheckWrites(ctx) PROVE file' = "none"
  BY <1>1, <1>6 DEF BatteryCheckWrites, BatteryFile, BatteryRequests,
                    BatteryWithdraws
<1> HIDE DEF e
<1>7. CASE Lid
  <2>1. PICK w : /\ w \in {env.wayland, ctx.wayland_inhibitor}
                 /\ EvaluateFsms([ctx EXCEPT !.lid_closed = e.closed,
                                             !.wayland_inhibitor = w], "Other")
    BY <1>7 DEF Lid, Sampled, e
  <2>2. e.closed \in BOOLEAN
    BY <1>3, <1>7, Payloads DEF Lid, Takes, e
  <2>3. CalmContext([ctx EXCEPT !.lid_closed = e.closed,
                                !.wayland_inhibitor = w])
    BY <1>1, <2>1, <2>2 DEF CalmContext, Context
  <2> QED
    BY <1>1, <1>3, <1>7, <2>1, <2>3 DEF Lid, fileVars, CalmStep
<1>8. CASE MonitorHotplug
  <2>1. PICK n : /\ n \in {env.ext, ctx.ext_mon_count}
                 /\ EvaluateFsms([ctx EXCEPT !.ext_mon_count = n], "Other")
    BY <1>8 DEF MonitorHotplug, Sampled
  <2>2. CalmContext([ctx EXCEPT !.ext_mon_count = n])
    BY <1>1, <2>1 DEF CalmContext, Context
  <2> QED
    BY <1>1, <1>3, <1>8, <2>1, <2>2 DEF MonitorHotplug, fileVars, CalmStep
<1>9. CASE Inhibitor
  <2>1. e.active \in BOOLEAN
    BY <1>3, <1>9, Payloads DEF Inhibitor, Takes, e
  <2>2. /\ CalmContext([ctx EXCEPT !.logind_inhibitor = e.active])
        /\ CalmContext([ctx EXCEPT !.wayland_inhibitor = e.active])
    BY <1>1, <2>1 DEF CalmContext, Context
  <2> QED
    BY <1>1, <1>3, <1>9, <2>2 DEF Inhibitor, fileVars, CalmStep, e
<1>10. CASE LockChanged
  <2>1. e.locked \in BOOLEAN
    BY <1>3, <1>10, Payloads DEF LockChanged, Takes, e
  <2>2. CalmContext([ctx EXCEPT !.locked = e.locked])
    BY <1>1, <2>1 DEF CalmContext, Context
  <2> QED
    BY <1>1, <1>3, <1>10, <2>2 DEF LockChanged, fileVars, CalmStep, e
<1>11. CASE AcChanged
  <2>1. e.on_ac = env.ac
    BY <1>3, <1>11 DEF AcChanged, Takes, CalmEvent, e
  <2> QED
    BY <1>1, <1>3, <1>4, <1>11, <2>1 DEF AcChanged, fileVars, CalmStep, e
<1>12. CASE PowerAcSettled
  <2>1. EvaluateFsms(ctx, "Other") /\ BatteryCheckWrites(ctx)
    BY <1>1, <1>4, <1>5, <1>12 DEF PowerAcSettled
  <2> QED
    BY <1>1, <1>3, <1>6, <2>1 DEF CalmStep
<1>13. CASE PowerdAppeared
  <2>1. EvaluateFsms(ctx, "Other") /\ UNCHANGED file
    BY <1>1, <1>4, <1>13 DEF PowerdAppeared, fileVars
  <2> QED
    BY <1>1, <1>3, <2>1 DEF CalmStep
<1>14. CASE BatteryPercent
  <2>1. BatteryLowStep(ctx.low_battery, e.pct) = FALSE
    BY <1>1, <1>3, <1>14 DEF BatteryPercent, Takes, CalmEvent, BatteryLowStep, e
  <2>2. Stays(ctx) /\ BatteryCheckWrites(ctx)
    BY <1>4, <1>5, <1>14, <2>1 DEF BatteryPercent, e
  <2> QED
    BY <1>3, <1>6, <2>2 DEF CalmStep
<1>15. CASE SuspendRequestChanged
  <2>1. PICK w : /\ w \in {env.wayland, ctx.wayland_inhibitor}
                 /\ EvaluateFsms([ctx EXCEPT !.suspend_requested = e.standing,
                                             !.wayland_inhibitor = w], "Other")
    BY <1>15 DEF SuspendRequestChanged, Sampled, e
  <2>2. e.standing \in BOOLEAN /\ ~e.standing
    BY <1>3, <1>15, Payloads DEF SuspendRequestChanged, Takes, CalmEvent, e
  <2>3. CalmContext([ctx EXCEPT !.suspend_requested = e.standing,
                                !.wayland_inhibitor = w])
    BY <1>1, <2>1, <2>2 DEF CalmContext, Context
  <2> QED
    BY <1>1, <1>3, <1>15, <2>1, <2>3 DEF SuspendRequestChanged, fileVars, CalmStep
<1>16. CASE TimerExpired
  <2>1. (ctx.suspend_requested /\ file # "none") = FALSE
    BY <1>1
  <2>2. EvaluateFsms(ctx, "TimerExpired")
    BY <1>4, <1>16, <2>1 DEF TimerExpired
  <2> QED
    BY <1>1, <1>3, <1>16, <2>2 DEF TimerExpired, CalmStep
<1>17. CASE Resumed
  BY <1>3, <1>4, <1>17 DEF Resumed, CalmStep
<1>18. CASE ConfigReloaded
  BY <1>1, <1>3, <1>18 DEF ConfigReloaded, fileVars, CalmStep
<1>19. CASE ReconcileTick
  <2> DEFINE s == e.snap
             fsm == Repaired(s)
             power_drift == s.ac # ctx.on_ac \/ s.ext # ctx.ext_mon_count
             c == [fsm EXCEPT !.on_ac = s.ac, !.on_ac_settled = s.ac]
  <2>1. s \in Snapshot /\ s.ac = env.ac
    BY <1>3, <1>19, Payloads DEF ReconcileTick, Takes, CalmEvent, e
  <2>2. CalmContext(fsm)
    <3> DEFINE lid == IF LidPresent THEN s.lid ELSE ctx.lid_closed
               claim == IF s.wayland = {} THEN ctx.wayland_inhibitor
                                          ELSE s.wayland = {TRUE}
    <3>1. /\ lid \in BOOLEAN /\ claim \in BOOLEAN
          /\ s.ext \in 0..MaxExt /\ s.logind \in BOOLEAN
          /\ s.locked \in BOOLEAN
      BY <1>1, <2>1 DEF Context, Snapshot
    <3>2. fsm = [ctx EXCEPT !.lid_closed = lid, !.suspend_requested = FALSE,
                            !.ext_mon_count = s.ext,
                            !.logind_inhibitor = s.logind,
                            !.wayland_inhibitor = claim, !.locked = s.locked]
      BY <1>1 DEF Repaired
    <3> HIDE DEF lid, claim, s, fsm
    <3>3. fsm \in Context
      BY <1>1, <3>1, <3>2, ZenonT(60) DEF Context
    <3> QED
      BY <1>1, <3>2, <3>3 DEF Context, CalmContext
  <2>3. c = fsm
    BY <2>1, <2>2 DEF CalmContext, Context
  <2>4. BatteryChecked(c) = fsm
    BY <2>2, <2>3, CalmBattery
  <2> HIDE DEF fsm
  <2>5. EvaluateFsms(fsm, "Other") \/ (fsm = ctx /\ Stays(ctx))
    BY <1>19, <2>3, <2>4 DEF ReconcileTick, fsm, e
  <2>6. file' = "none"
    <3>1. ~BatteryRequests(fsm) /\ ~BatteryWithdraws(fsm)
      BY <2>2 DEF CalmContext, BatteryRequests, BatteryWithdraws
    <3>2. BatteryCheckWrites(fsm) \/ UNCHANGED file
      BY <1>19, <2>3 DEF ReconcileTick, fsm, e, fileVars
    <3> QED
      BY <1>1, <3>1, <3>2 DEF BatteryCheckWrites, BatteryFile
  <2> QED
    BY <1>3, <2>2, <2>5, <2>6 DEF CalmStep
<1> QED
  BY <1>7, <1>8, <1>9, <1>10, <1>11, <1>12, <1>13, <1>14, <1>15, <1>16, <1>17,
     <1>18, <1>19 DEF Dispatch

(* The state a calm machine derives is the one its context calls for.      *)
LEMMA CalmEvaluation ==
  ASSUME CalmInv, NEW c, CalmContext(c), NEW kind \in EventKind,
         c = ctx \/ kind = "Other", tail = "idle", EvaluateFsms(c, kind)
  PROVE  /\ ctx' \in Context
         /\ ~ctx'.low_battery /\ ~ctx'.suspend_requested
         /\ ctx'.on_ac = env.ac /\ ctx'.on_ac_settled = env.ac
         /\ tail' = "idle" /\ ctx'.state # "Suspending"
              => ctx'.state = WorldState(World(ctx'))
         /\ tail' # "idle" => WorldState(World(ctx')) = "Countdown"
<1> DEFINE want == DesiredState(c.state, kind, World(c))
           d == [c EXCEPT !.state = want]
<1>1. c \in Context /\ c.state = ctx.state /\ World(c) \in WorldInputs
      /\ WorldState(World(c)) \in Awake
  BY WorldType, WorldStateAwake DEF CalmContext
<1>2. World(d) = World(c)
  BY DEF World
<1>3. /\ d.state = want
      /\ d.low_battery = c.low_battery
      /\ d.suspend_requested = c.suspend_requested
      /\ d.on_ac = c.on_ac /\ d.on_ac_settled = c.on_ac_settled
      /\ want \in State => d \in Context
  BY <1>1 DEF Context
<1>4. ctx.state # "Suspending" => ctx.state = WorldState(World(ctx))
  BY DEF CalmInv, Coherent
<1>5. want \in State
  BY <1>1, DesiredStates DEF Context
<1>6. /\ want = c.state
           => want = "Suspending" \/ want = WorldState(World(c))
      /\ want # c.state /\ want = "Suspending"
           => WorldState(World(c)) = "Countdown"
      /\ want # c.state /\ want # "Suspending" => want = WorldState(World(c))
  <2>1. CASE kind = "TimerExpired"
    BY <1>1, <1>4, <2>1 DEF DesiredState, Awake
  <2>2. CASE kind = "Resumed"
    BY <1>1, <1>4, <2>2 DEF DesiredState, Awake
  <2>3. CASE kind = "Other"
    BY <1>1, <1>4, <2>3 DEF DesiredState, Awake
  <2> QED
    BY <2>1, <2>2, <2>3 DEF EventKind
<1>7. \/ want = c.state /\ ctx' = c /\ tail' = tail
      \/ want # c.state /\ want = "Suspending" /\ ctx' = c /\ tail' = "probe"
      \/ want \notin {c.state, "Suspending"} /\ ctx' = d /\ tail' = "idle"
  BY DEF EvaluateFsms, Stays, OnEnterSuspending, OnEnter
<1> HIDE DEF want, d
<1>8. CASE ctx' = c
  <2>1. World(ctx') = World(c)
    BY <1>8
  <2> QED
    BY <1>1, <1>6, <1>7, <1>8, <2>1, <1>2, <1>3, <1>5 DEF CalmContext
<1>9. CASE ctx' = d /\ tail' = "idle" /\ want \notin {c.state, "Suspending"}
  <2>1. World(ctx') = World(c)
    BY <1>2, <1>9
  <2> QED
    BY <1>3, <1>5, <1>6, <1>9, <2>1 DEF CalmContext
<1> QED
  BY <1>7, <1>8, <1>9

LEMMA CalmHandled ==
  ASSUME CalmInv, Dispatch
  PROVE  Calm' /\ Coherent' /\ CoherentTail'
<1>1. CalmStep /\ file' = "none" /\ tail = "idle" /\ TypeOK /\ CalmContext(ctx)
  BY CalmDispatch DEF CalmInv, Calm, Inv
<1>2. PICK type, d : Handles(type, d)
  BY <1>1, Dispatched
<1>3. UNCHANGED <<env, snap>> /\ queue # <<>> /\ queue' = Tail(queue)
  BY <1>2 DEF Handles, Takes
<1>4. /\ ctx' \in Context
      /\ ~ctx'.low_battery /\ ~ctx'.suspend_requested
      /\ ctx'.on_ac = env.ac /\ ctx'.on_ac_settled = env.ac
      /\ tail' = "idle" /\ ctx'.state # "Suspending"
           => ctx'.state = WorldState(World(ctx'))
      /\ tail' # "idle" => WorldState(World(ctx')) = "Countdown"
  <2>1. CASE Stays(ctx) \/ (ctx.state # "Suspending" /\ OnEnter(ctx))
    <3>1. ctx' = ctx /\ tail' = "idle"
      BY <1>1, <2>1 DEF Stays, OnEnter
    <3>2. World(ctx') = World(ctx)
      BY <3>1
    <3> QED
      BY <1>1, <3>1, <3>2 DEF CalmInv, Coherent, CalmContext
  <2>2. CASE \E c : CalmContext(c) /\ EvaluateFsms(c, "Other")
    BY <1>1, <2>2, CalmEvaluation DEF EventKind
  <2>3. CASE EvaluateFsms(ctx, "TimerExpired") \/ EvaluateFsms(ctx, "Resumed")
    BY <1>1, <2>3, CalmEvaluation DEF EventKind
  <2> QED
    BY <1>1, <2>1, <2>2, <2>3 DEF CalmStep
<1>5. Coherent' /\ CoherentTail'
  BY <1>4 DEF Coherent, CoherentTail
<1>6. CalmQueue'
  <2>1. \A n \in 1..Len(queue') : n + 1 \in 1..Len(queue)
                                /\ queue'[n] = queue[n + 1]
    BY <1>1, <1>3 DEF TypeOK
  <2> QED
    BY <1>3, <2>1 DEF CalmInv, Calm, CalmQueue, CalmEvent
<1>7. Calm'
  BY <1>1, <1>3, <1>4, <1>6 DEF CalmInv, Calm, CalmContext
<1> QED
  BY <1>5, <1>7

(* A step that leaves the context, and at most sends a calm event.         *)
LEMMA CalmSends ==
  ASSUME CalmInv, UNCHANGED <<env.ac, env.pct, file, ctx, tail>>,
         \/ queue' = queue
         \/ \E e : CalmEvent(e) /\ queue' = Append(queue, e),
         snap' # <<>> => Head(snap').ac = env.ac
  PROVE  Calm' /\ Coherent' /\ CoherentTail'
<1>1. Coherent' /\ CoherentTail'
  <2>1. World(ctx') = World(ctx)
    OBVIOUS
  <2> QED
    BY <2>1 DEF CalmInv, Coherent, CoherentTail
<1>2. \A n \in 1..Len(queue') : CalmEvent(queue'[n])
  <2>1. CASE queue' = queue
    BY <2>1 DEF CalmInv, Calm, CalmQueue
  <2>2. ASSUME NEW e, CalmEvent(e), queue' = Append(queue, e)
        PROVE  \A n \in 1..Len(queue') : CalmEvent(queue'[n])
    <3>1. /\ Len(queue) \in Nat /\ Len(queue') = Len(queue) + 1
          /\ queue'[Len(queue) + 1] = e
          /\ \A n \in 1..Len(queue) : queue'[n] = queue[n]
      BY <2>2 DEF CalmInv, Inv, TypeOK
    <3> QED
      BY <2>2, <3>1 DEF CalmInv, Calm, CalmQueue
  <2> QED
    BY <2>1, <2>2
<1>3. CalmQueue'
  BY <1>2 DEF CalmQueue, CalmEvent
<1>4. Calm'
  BY <1>3 DEF CalmInv, Calm, CalmContext
<1> QED
  BY <1>1, <1>4

LEMMA CalmSource ==
  ASSUME CalmInv, Source
  PROVE  Calm' /\ Coherent' /\ CoherentTail'
<1>1. /\ env.pct = "high" /\ file = "none"
      /\ snap # <<>> => Head(snap).ac = env.ac
  BY DEF CalmInv, Calm
<1>2. CASE LidWatcher \/ SocketReader \/ LockWatcher \/ AcWatcher
           \/ BatteryWatcher \/ SleepWatcher
  BY <1>1, <1>2, CalmSends
  DEF LidWatcher, SocketReader, LockWatcher, AcWatcher, BatteryWatcher,
      SleepWatcher, Watcher, Send, coreVars, CalmEvent
<1>3. CASE InhibitorWatcher \/ UeventTask \/ FileTask
  BY <1>1, <1>3, CalmSends
  DEF InhibitorWatcher, UeventTask, FileTask, EdgeFiltered, Send, coreVars,
      CalmEvent
<1>4. CASE GraceFires \/ SettleFires \/ ClaimWatchSees
  BY <1>1, <1>4, CalmSends
  DEF GraceFires, SettleFires, ClaimWatchSees, Fires, Send, coreVars, CalmEvent
<1>5. CASE Gather
  <2>1. snap' # <<>> => Head(snap').ac = env.ac
    BY <1>5 DEF Gather
  <2> QED
    BY <1>5, <2>1, CalmSends DEF Gather, coreVars
<1>6. CASE SendTick
  BY <1>1, <1>6, CalmSends DEF SendTick, Send, coreVars, CalmEvent
<1> QED
  BY <1>2, <1>3, <1>4, <1>5, <1>6 DEF Source

LEMMA CalmWorld ==
  ASSUME CalmInv, EnvironmentStep \/ Sleep, StillStep
  PROVE  Calm' /\ Coherent' /\ CoherentTail'
<1>1. /\ env \in Environment /\ env.pct = "high" /\ file = "none"
      /\ snap # <<>> => Head(snap).ac = env.ac
  BY DEF CalmInv, Calm, Inv, TypeOK
<1>2. ASSUME NEW input, NEW e, NEW s, Moves(input, e, s)
      PROVE  Calm' /\ Coherent' /\ CoherentTail'
  BY <1>1, <1>2, CalmSends DEF Moves, StillStep, daemonVars
<1>3. CASE LidMoves \/ MonitorMoves \/ LogindMoves \/ WaylandMoves
           \/ HintMoves \/ CompMoves \/ AcMoves \/ BatteryMoves
  BY <1>2, <1>3 DEF LidMoves, MonitorMoves, LogindMoves, WaylandMoves,
                    HintMoves, CompMoves, AcMoves, BatteryMoves
<1>4. CASE SignalLost \/ Wake \/ Sleep
  BY <1>1, <1>4, CalmSends DEF SignalLost, Wake, Sleep, daemonVars
<1>5. CASE ConfigReload \/ PowerdReturns
  BY <1>1, <1>5, CalmSends
  DEF ConfigReload, PowerdReturns, Fires, Send, coreVars, CalmEvent
<1>6. CASE Restart
  <2>1. /\ UNCHANGED env /\ ctx' = BootContext /\ file' = BootFile
        /\ queue' = <<>> /\ snap' = <<>> /\ tail' = "idle"
    BY <1>6 DEF Restart
  <2>2. World(ctx') = World(BootContext)
    BY <2>1
  <2> QED
    BY <1>1, <2>1, <2>2, CalmBoot
    DEF Calm, CalmContext, CalmQueue, Coherent, CoherentTail
<1>7. ~SuspendCancel
  BY <1>1 DEF SuspendCancel
<1> QED
  BY <1>3, <1>4, <1>5, <1>6, <1>7 DEF EnvironmentStep, StillStep

LEMMA CalmTail ==
  ASSUME CalmInv, TailStep
  PROVE  Calm' /\ Coherent' /\ CoherentTail'
<1>1. /\ tail # "idle" /\ UNCHANGED <<env, file, queue, snap>>
      /\ \/ ctx' = ctx
         \/ ctx' = [ctx EXCEPT !.state = "Suspending"] /\ tail' = "idle"
  BY DEF TailStep, TailProbe, TailAsked, TailWait, TailReprobe, TailSuspend,
         InTail, TailGoes, TailFails
<1>2. ctx.state = "Countdown" /\ WorldState(World(ctx)) = "Countdown"
  BY <1>1 DEF CalmInv, Inv, CountdownTimed, CoherentTail
<1>3. CalmQueue'
  BY <1>1 DEF CalmInv, Calm, CalmQueue, CalmEvent
<1>4. CASE ctx' = ctx
  <2>1. World(ctx') = World(ctx)
    BY <1>4
  <2> QED
    BY <1>1, <1>2, <1>3, <1>4, <2>1
    DEF CalmInv, Calm, CalmContext, Coherent, CoherentTail
<1>5. CASE ctx' = [ctx EXCEPT !.state = "Suspending"] /\ tail' = "idle"
  <2>1. ctx \in Context /\ CalmContext(ctx)
    BY DEF CalmInv, Calm, CalmContext
  <2>2. /\ ctx'.state = "Suspending" /\ ctx' \in Context
        /\ ctx'.low_battery = ctx.low_battery
        /\ ctx'.suspend_requested = ctx.suspend_requested
        /\ ctx'.on_ac = ctx.on_ac /\ ctx'.on_ac_settled = ctx.on_ac_settled
    BY <1>5, <2>1 DEF Context, State
  <2> QED
    BY <1>1, <1>3, <1>5, <2>1, <2>2
    DEF CalmInv, Calm, CalmContext, Coherent, CoherentTail
<1> QED
  BY <1>1, <1>4, <1>5

LEMMA CalmInit ==
  ASSUME Init, env.pct = "high"
  PROVE  CalmInv
<1>1. env \in Environment /\ Inv
  BY InitKeeps DEF Init
<1>2. World(ctx) = World(BootContext)
  BY DEF Init
<1> QED
  BY <1>1, <1>2, CalmBoot
  DEF Init, CalmInv, Calm, CalmContext, CalmQueue, Coherent, CoherentTail

LEMMA CalmKept ==
  ASSUME CalmInv, Inv', [Next /\ StillStep]_vars
  PROVE  CalmInv'
<1>1. CASE UNCHANGED vars
  BY <1>1 DEF vars, CalmInv, Calm, CalmContext, CalmQueue, CalmEvent,
              Coherent, CoherentTail
<1>2. CASE Next /\ StillStep
  BY <1>2, CalmHandled, CalmTail, CalmSource, CalmWorld
  DEF Next, DaemonStep, CalmInv
<1> QED
  BY <1>1, <1>2

(* What does not move, holds still.                                        *)
LEMMA InputsStill ==
  ASSUME TypeOK, Next, {"request", "battery"} \cap Inputs = {}
  PROVE  /\ UNCHANGED env.pct /\ ~SuspendRequest
         /\ "ac" \notin Inputs => UNCHANGED env.ac
         /\ "hint" \notin Inputs => UNCHANGED env.hint
<1> DEFINE still == /\ UNCHANGED env.pct
                    /\ "ac" \notin Inputs => UNCHANGED env.ac
                    /\ "hint" \notin Inputs => UNCHANGED env.hint
<1>1. ~SuspendRequest /\ ~BatteryMoves
  BY DEF SuspendRequest, BatteryMoves, Moves
<1>2. CASE UNCHANGED env
  BY <1>1, <1>2
<1>3. CASE LidMoves \/ MonitorMoves \/ LogindMoves \/ WaylandMoves
           \/ HintMoves \/ CompMoves \/ AcMoves
  <2>1. still
    BY <1>3 DEF LidMoves, MonitorMoves, LogindMoves, WaylandMoves, HintMoves,
                CompMoves, AcMoves, Moves, TypeOK, Environment
  <2> QED
    BY <1>1, <2>1
<1>4. CASE Source
  <2>1. UNCHANGED env
    BY <1>4 DEF Source, LidWatcher, SocketReader, LockWatcher, AcWatcher,
                BatteryWatcher, SleepWatcher, Watcher, InhibitorWatcher,
                UeventTask, FileTask, EdgeFiltered, GraceFires, SettleFires,
                ClaimWatchSees, Fires, Gather, SendTick, coreVars
  <2> QED
    BY <1>2, <2>1
<1>5. CASE TailStep
  <2>1. UNCHANGED env
    BY <1>5 DEF TailStep, TailProbe, TailAsked, TailWait, TailReprobe,
                TailSuspend, InTail
  <2> QED
    BY <1>2, <2>1
<1>6. CASE Dispatch
  <2>1. UNCHANGED env
    BY <1>6, Dispatched DEF Handles, Takes
  <2> QED
    BY <1>2, <2>1
<1>7. CASE SuspendCancel \/ SignalLost \/ ConfigReload \/ PowerdReturns
           \/ Wake \/ Sleep \/ Restart
  <2>1. UNCHANGED env
    BY <1>7 DEF SuspendCancel, SignalLost, ConfigReload, PowerdReturns, Wake,
                Sleep, Restart, Fires, coreVars
  <2> QED
    BY <1>2, <2>1
<1> QED
  BY <1>1, <1>3, <1>4, <1>5, <1>6, <1>7 DEF Next, EnvironmentStep, DaemonStep

(* While charger, battery and request hold still, every handler leaves the *)
(* machine in the state world_state derives from its context, however the  *)
(* lid, the outputs, the claims and the locks move, whatever is lost, and  *)
(* across restarts, refused suspends and suspends by others.               *)
THEOREM AlwaysCoherent ==
  ASSUME {"ac", "request", "battery"} \cap Inputs = {}
  PROVE  Spec => []Coherent
<1>1. Init => CalmInv
  <2>1. Init => env.pct = "high"
    BY DEF Init, AtRest
  <2> QED
    BY <2>1, CalmInit
<1>2. CalmInv /\ Inv' /\ [Next]_vars => CalmInv'
  <2>1. ASSUME CalmInv, Next PROVE StillStep
    BY <2>1, InputsStill DEF StillStep, CalmInv, Inv
  <2> QED
    BY <2>1, CalmKept
<1>3. CalmInv => Coherent
  BY DEF CalmInv
<1> QED
  BY <1>1, <1>2, <1>3, InvHolds, PTL DEF Spec

(* The steps MCLidFocus explores, as a specification.                      *)
FocusedSpec == FocusInit /\ [][Next /\ Focused]_vars

(* The claims on a session leave no handler an excuse (MCLidFocus), with   *)
(* any number of outputs, any queue and any other inputs.                  *)
THEOREM AlwaysClaimsCoherent ==
  ASSUME {"hint", "request", "battery"} \cap Inputs = {}
  PROVE  FocusedSpec => []ClaimsCoherent
<1> DEFINE FocusInv == AboutClaims => CalmInv
<1>1. FocusedSpec => Spec
  BY PTL DEF FocusedSpec, FocusInit, Spec
<1>2. FocusInit => FocusInv
  <2>1. FocusInit => Init /\ env.pct = "high"
    BY DEF FocusInit, Init, AtRest
  <2> QED
    BY <2>1, CalmInit
<1>3. FocusInv /\ Inv /\ Inv' /\ [Next /\ Focused]_vars => FocusInv'
  <2> SUFFICES ASSUME FocusInv, Inv, Inv', [Next /\ Focused]_vars,
                      AboutClaims'
               PROVE  CalmInv'
    OBVIOUS
  <2>1. CASE UNCHANGED vars
    <3>1. AboutClaims
      BY <2>1 DEF vars, AboutClaims
    <3> QED
      BY <2>1, <3>1, CalmKept
  <2>2. CASE Next /\ Focused
    <3>1. UNCHANGED <<env.hint, env.pct>> /\ ~SuspendRequest
      BY <2>2, InputsStill DEF Inv
    <3>2. AboutClaims
      BY <3>1 DEF AboutClaims
    <3>3. StillStep
      BY <2>2, <3>1, <3>2 DEF Focused, ClaimsOnly, StillStep
    <3> QED
      BY <2>2, <3>2, <3>3, CalmKept
  <2> QED
    BY <2>1, <2>2
<1>4. FocusInv => ClaimsCoherent
  BY DEF ClaimsCoherent, CalmInv
<1> QED
  BY <1>1, <1>2, <1>3, <1>4, InvHolds, PTL DEF FocusedSpec
=============================================================================
