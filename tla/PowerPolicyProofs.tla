------------------------- MODULE PowerPolicyProofs -------------------------
(***************************************************************************)
(* Theorems about PowerPolicy, for any profiles and policy, any panel, any *)
(* words in the override file.  The invariant says what each policy check  *)
(* leaves behind and every other step keeps: which profile was asked for,  *)
(* to which side of the charger an override belongs, and what is kept of a *)
(* panel dimmed by the unplug.                                             *)
(***************************************************************************)
EXTENDS PowerPolicy, TLAPS

(* An override of the context c belongs to the base state.                 *)
Fits(c, base) ==
  c.override # Nothing /\ c.stamp # Nothing =>
    /\ AcAxis(base) = AcAxis(c.stamp)
    /\ base = "battery-low" => c.stamp = "battery-low"

(* What the daemon believes of powerd is so while powerd answers.          *)
Believed(c, a) == c.avail /\ c.applied # Nothing => a = c.applied

(* A panel dimmed by the unplug is the daemon's, its old level is kept.    *)
Dimmed(b) == b.edge = "unplug" =>
  b.from \in Level /\ b.saved = b.from /\ b.set = b.panel

Asked == ctx.avail /\ ~topology /\ ctx.lastBase # Nothing =>
  ctx.applied = Desired(ctx)

OnBattery(base) == base # Nothing /\ ~AcAxis(base)

(* The base state that a step leaves has crossed a line.                   *)
Turned ==
  \/ AcAxis(ctx'.lastBase) # AcAxis(ctx.lastBase)
  \/ ctx'.lastBase = "battery-low" /\ ctx.lastBase # "battery-low"

(* What the two action properties say of one step.                         *)
Expires == file # Nothing /\ file' = Nothing /\ ctx' # ctx => Turned

Undone ==
  ~AcAxis(ctx.lastBase) /\ AcAxis(ctx'.lastBase) /\ bright.edge = "unplug"
    => bright'.panel = bright.from \/ bright'.failed

Inv ==
  /\ TypeOK
  /\ Fits(ctx, Base(ctx)) /\ Fits(ctx, ctx.lastBase)
  /\ Believed(ctx, active) /\ Asked
  /\ Dimmed(bright)
  /\ bright.edge = "unplug" => OnBattery(ctx.lastBase)

-----------------------------------------------------------------------------
(* Every context has a base state and a profile it calls for.              *)
LEMMA BaseFacts ==
  ASSUME NEW c \in Context
  PROVE  /\ Base(c) \in BaseState
         /\ Base(c) # Nothing
         /\ Desired(c) \in Profiles
         /\ Desired(c) # Nothing
<1>1. Base(c) \in BaseState
  BY DEF Base, BaseState, Context
<1> QED BY <1>1, PowerPolicyAssumption DEF Desired, Context, Maybe

(* The caps are levels of the panel, once clamped.                         *)
LEMMA CapsAreLevels ==
  /\ Half \in Nat /\ Clamped(Half) \in Level
  /\ Quarter \in Nat /\ Clamped(Quarter) \in Level
  /\ \A l \in Level : l \in Nat /\ Clamped(l) = l /\ l # Nothing
<1>1. MaxLevel \in Nat /\ MaxLevel >= 1
  BY PowerPolicyAssumption
<1>2. Half \in Nat /\ Half <= MaxLevel
  BY <1>1 DEF Half
<1>3. Quarter \in Nat /\ Quarter <= MaxLevel
  BY <1>1 DEF Quarter
<1>4. \A l \in Level : l \in Nat /\ l # Nothing
  BY <1>1, PowerPolicyAssumption DEF Level
<1> QED BY <1>1, <1>2, <1>3, <1>4 DEF Clamped, Level

-----------------------------------------------------------------------------
(* Brightness.                                                             *)

(* A write sets panel and memory to its level, or fails.                   *)
LEMMA WriteFacts ==
  ASSUME NEW b \in Brightness, NEW l, Clamped(l) \in Level,
         NEW d \in Write(b, l)
  PROVE  /\ d \in Brightness
         /\ d.saved = b.saved /\ d.from = b.from /\ d.edge = b.edge
         /\ \/ d.panel = Clamped(l) /\ d.set = Clamped(l)
            \/ d.panel = b.panel /\ d.set = b.set /\ d.failed
  BY DEF Write, Brightness, Maybe

(* A cap of an undimmed panel records where it came from; a dimmed one     *)
(* only gets darker; what was saved stays, unless the user has the panel.  *)
LEMMA CapFacts ==
  ASSUME NEW b \in Brightness, NEW l, Clamped(l) \in Level,
         NEW e \in {"unplug", "low"}, NEW d \in Cap(b, l, e)
  PROVE  /\ d \in Brightness
         /\ Dimmed(b) => (d.edge = b.edge \/ d.edge = e)
         /\ Dimmed(b) /\ e = "low" => Dimmed(d)
         /\ b.edge # "unplug" /\ b.saved = b.panel /\ ~UserTookOver(b)
              => Dimmed(d)
<1> USE DEF Brightness, Maybe, Dimmed
<1>1. CASE UserTookOver(b)
  BY <1>1 DEF Cap, UserTookOver
<1>2. CASE ~UserTookOver(b) /\ ~(b.panel > l)
  BY <1>2 DEF Cap
<1>3. CASE ~UserTookOver(b) /\ b.panel > l
  <2>1. PICK w \in Write(b, l) :
          d = IF w.panel < b.panel /\ b.from = Nothing
              THEN [w EXCEPT !.from = b.panel, !.edge = e] ELSE w
    BY <1>3 DEF Cap, Dim
  <2>2. /\ w \in Brightness
        /\ w.saved = b.saved /\ w.from = b.from /\ w.edge = b.edge
        /\ \/ w.panel = Clamped(l) /\ w.set = Clamped(l)
           \/ w.panel = b.panel /\ w.set = b.set
    BY WriteFacts, <2>1
  <2>3. CASE w.panel < b.panel /\ b.from = Nothing
    <3>1. d = [w EXCEPT !.from = b.panel, !.edge = e]
      BY <2>1, <2>3
    <3>2. b.panel \in Level /\ b.panel \in Nat /\ ~(b.panel < b.panel)
      BY CapsAreLevels
    <3>3. w.panel = w.set
      BY <2>2, <2>3, <3>2
    <3> QED BY <2>2, <3>1, <3>2, <3>3
  <2>4. CASE ~(w.panel < b.panel /\ b.from = Nothing)
    BY <2>1, <2>2, <2>4, CapsAreLevels
  <2> QED BY <2>3, <2>4
<1> QED BY <1>1, <1>2, <1>3

(* The whole effect of an edge on the panel.                               *)
LEMMA EdgesFacts ==
  ASSUME NEW prev \in Maybe(BaseState), NEW base \in BaseState,
         NEW b \in Brightness, Dimmed(b),
         b.edge = "unplug" => OnBattery(prev),
         NEW d \in Edges(prev, base, b)
  PROVE  /\ d \in Brightness
         /\ Dimmed(d)
         /\ d.edge = "unplug" => OnBattery(base)
         /\ b.edge = "unplug" /\ AcAxis(base) => d.panel = b.from \/ d.failed
<1> USE CapsAreLevels
<1>1. CASE prev = Nothing
  BY <1>1 DEF Edges, OnBattery
<1>2. CASE prev # Nothing /\ ~AcAxis(prev) /\ AcAxis(base)
  <2>1. PICK r \in Restore(b) : d = [r EXCEPT !.from = Nothing, !.edge = "none"]
    BY <1>2 DEF Edges
  <2>2. /\ r \in Brightness
        /\ b.edge = "unplug" => r.panel = b.from \/ r.failed
    <3>1. CASE b.saved = Nothing
      BY <3>1, <2>1 DEF Restore, Dimmed
    <3>2. CASE b.saved # Nothing /\ UserTookOver(b)
      BY <3>2, <2>1 DEF Restore, Dimmed, UserTookOver, Brightness, Maybe
    <3>3. CASE b.saved # Nothing /\ ~UserTookOver(b)
      <4> DEFINE t == [b EXCEPT !.saved = Nothing]
      <4>1. t \in Brightness /\ b.saved \in Level
        BY <3>3 DEF Brightness, Maybe
      <4>2. r \in Write(t, b.saved)
        BY <3>3, <2>1 DEF Restore
      <4> HIDE DEF t
      <4>3. r \in Brightness /\ (r.panel = b.saved \/ r.failed)
        BY <4>1, <4>2, WriteFacts
      <4> QED BY <4>3 DEF Dimmed
    <3> QED BY <3>1, <3>2, <3>3
  <2> QED BY <2>1, <2>2, <1>2 DEF Brightness, Maybe, Dimmed
<1>3. CASE prev # Nothing /\ ~AcAxis(prev) /\ ~AcAxis(base)
  <2>1. d = b \/ d \in Cap(b, Quarter, "low")
    BY <1>3 DEF Edges
  <2>2. d \in Brightness /\ Dimmed(d)
    BY <2>1, CapFacts
  <2> QED BY <2>2, <1>3, PowerPolicyAssumption DEF OnBattery
<1>4. CASE prev # Nothing /\ AcAxis(prev) /\ AcAxis(base)
  BY <1>4 DEF Edges, AcAxis, OnBattery
<1>5. CASE prev # Nothing /\ AcAxis(prev) /\ ~AcAxis(base)
  <2>1. b.edge # "unplug"
    BY <1>5 DEF OnBattery
  <2>2. PICK m \in SaveAndCap(b, Half) : d = m \/ d \in Cap(m, Quarter, "low")
    BY <1>5 DEF Edges
  <2>3. m \in Brightness /\ Dimmed(m)
    <3>1. CASE UserTookOver(b)
      BY <3>1, <2>1, <2>2 DEF SaveAndCap, Cap, Brightness, Maybe, Dimmed,
                             UserTookOver
    <3>2. CASE ~UserTookOver(b)
      <4> DEFINE s == [b EXCEPT !.saved = b.panel]
      <4>1. /\ s \in Brightness /\ s.edge # "unplug" /\ s.saved = s.panel
            /\ ~UserTookOver(s)
        BY <3>2, <2>1 DEF Brightness, Maybe, UserTookOver
      <4>2. m \in Cap(s, Half, "unplug")
        BY <3>2, <2>2 DEF SaveAndCap
      <4> HIDE DEF s
      <4> QED BY <4>1, <4>2, CapFacts
    <3> QED BY <3>1, <3>2
  <2>4. d \in Brightness /\ Dimmed(d)
    BY <2>2, <2>3, CapFacts
  <2> QED BY <2>1, <2>4, <1>5, PowerPolicyAssumption DEF OnBattery
<1> QED BY <1>1, <1>2, <1>3, <1>4, <1>5

-----------------------------------------------------------------------------
(* The policy check.                                                       *)

(* An expired override is gone, an unstamped one is stamped, and whatever  *)
(* is left belongs to the base state.                                      *)
LEMMA OverriddenFacts ==
  ASSUME NEW c \in Context
  PROVE  LET o == Overridden(c) IN
         /\ o \in Context
         /\ Base(o) = Base(c)
         /\ o.avail = c.avail /\ o.applied = c.applied
         /\ Fits(o, Base(c))
<1> DEFINE o == Overridden(c)
<1>1. o \in Context /\ o.avail = c.avail /\ o.applied = c.applied
  BY BaseFacts DEF Overridden, Context, Maybe
<1>2. Base(o) = Base(c)
  BY DEF Overridden, Base, Context
<1>3. Fits(o, Base(c))
  <2>1. CASE Expired(c)
    BY <2>1 DEF Overridden, Fits, Context
  <2>2. CASE ~Expired(c) /\ c.override # Nothing /\ c.stamp = Nothing
    BY <2>2 DEF Overridden, Fits, Context
  <2>3. CASE ~Expired(c) /\ ~(c.override # Nothing /\ c.stamp = Nothing)
    BY <2>3 DEF Overridden, Fits, Expired
  <2> QED BY <2>1, <2>2, <2>3
<1> QED BY <1>1, <1>2, <1>3

(* A call brings powerd to the profile, or turns power profiles off.       *)
LEMMA AppliesFacts ==
  ASSUME NEW c \in Context, NEW a \in Profiles, Believed(c, a),
         NEW r \in Applies(c, a)
  PROVE  /\ r.ctx \in Context
         /\ r.active \in Profiles
         /\ Base(r.ctx) = Base(c)
         /\ r.ctx.override = c.override /\ r.ctx.stamp = c.stamp
         /\ Believed(r.ctx, r.active)
         /\ r.ctx.avail => r.ctx.applied = Desired(r.ctx)
<1> DEFINE p == Desired(c)
<1>0. p \in Profiles
  BY BaseFacts
<1>1. CASE c.applied = p \/ ~c.avail
  BY <1>1 DEF Applies
<1>2. CASE ~(c.applied = p \/ ~c.avail)
  <2>1. CASE r = [ctx |-> [c EXCEPT !.applied = p], active |-> p]
    BY <2>1, <1>0 DEF Context, Maybe, Base, Desired, Believed
  <2>2. CASE r \in [ctx : {[c EXCEPT !.avail = FALSE]}, active : {a, p}]
    BY <2>2, <1>0 DEF Context, Maybe, Base, Desired, Believed
  <2> QED BY <2>1, <2>2, <1>2 DEF Applies
<1> QED BY <1>1, <1>2

(* What a policy check on a context leaves behind.                         *)
LEMMA CheckFacts ==
  ASSUME Inv, NEW c \in Context, NEW f \in Maybe(Words), NEW lost \in BOOLEAN,
         Believed(c, active), Fits(c, ctx.lastBase), c.lastBase = ctx.lastBase,
         PolicyCheckThen(c, f, lost)
  PROVE  /\ ctx' \in Context
         /\ file' \in Maybe(Words)
         /\ active' \in Profiles
         /\ bright' \in Brightness
         /\ Fits(ctx', Base(ctx')) /\ Fits(ctx', ctx'.lastBase)
         /\ ctx'.lastBase = Base(c)
         /\ Believed(ctx', active')
         /\ ctx'.avail => ctx'.applied = Desired(ctx')
         /\ Dimmed(bright')
         /\ bright'.edge = "unplug" => OnBattery(ctx'.lastBase)
         /\ bright.edge = "unplug" /\ AcAxis(ctx'.lastBase)
              => bright'.panel = bright.from \/ bright'.failed
         /\ f # Nothing /\ file' = Nothing => Turned
<1> DEFINE o == Overridden(c)
           b == [bright EXCEPT !.failed = FALSE]
<1>1. /\ o \in Context /\ Base(o) = Base(c)
      /\ o.avail = c.avail /\ o.applied = c.applied
      /\ Fits(o, Base(c))
  BY OverriddenFacts
<1>2. Base(c) \in BaseState
  BY BaseFacts
<1> HIDE DEF o
<1>3. PICK r \in Applies(o, active) :
        /\ ctx' = [r.ctx EXCEPT !.lastBase = Base(c), !.avail = @ /\ ~lost]
        /\ active' = r.active
  BY DEF PolicyCheckThen, o
<1>4. Believed(o, active)
  BY <1>1 DEF Believed
<1>5. active \in Profiles
  BY DEF Inv, TypeOK
<1>6. /\ r.ctx \in Context /\ r.active \in Profiles
      /\ Base(r.ctx) = Base(o)
      /\ r.ctx.override = o.override /\ r.ctx.stamp = o.stamp
      /\ Believed(r.ctx, r.active)
      /\ r.ctx.avail => r.ctx.applied = Desired(r.ctx)
  BY <1>1, <1>3, <1>4, <1>5, AppliesFacts
<1>7. /\ ctx' \in Context
      /\ ctx'.lastBase = Base(c)
      /\ ctx'.avail => r.ctx.avail
      /\ ctx'.override = r.ctx.override /\ ctx'.stamp = r.ctx.stamp
      /\ ctx'.applied = r.ctx.applied
      /\ ctx'.settled = r.ctx.settled /\ ctx'.docked = r.ctx.docked
      /\ ctx'.low = r.ctx.low
  <2>1. (r.ctx.avail /\ ~lost) \in BOOLEAN
    OBVIOUS
  <2>2. ctx' \in Context
    BY <1>2, <1>3, <1>6, <2>1, ZenonT(60) DEF Context, Maybe
  <2> QED BY <1>3, <1>6, <2>2 DEF Context
<1>8. Base(ctx') = Base(c)
  BY <1>1, <1>6, <1>7 DEF Base
<1>9. Fits(ctx', Base(ctx')) /\ Fits(ctx', ctx'.lastBase)
  BY <1>1, <1>6, <1>7, <1>8 DEF Fits
<1>10. /\ Believed(ctx', active')
       /\ ctx'.avail => ctx'.applied = Desired(ctx')
  BY <1>1, <1>3, <1>6, <1>7, <1>8 DEF Believed, Desired
<1>11. file' \in Maybe(Words)
  BY DEF PolicyCheckThen, Maybe
<1>12. /\ b \in Brightness /\ Dimmed(b)
       /\ b.edge = "unplug" => OnBattery(ctx.lastBase)
       /\ b.edge = bright.edge /\ b.from = bright.from
  BY DEF Inv, TypeOK, Brightness, Dimmed
<1>13. bright' \in Edges(ctx.lastBase, Base(c), b)
  BY DEF PolicyCheckThen
<1>14. ctx.lastBase \in Maybe(BaseState)
  BY DEF Inv, TypeOK, Context
<1> HIDE DEF b
<1>15. /\ bright' \in Brightness /\ Dimmed(bright')
       /\ bright'.edge = "unplug" => OnBattery(Base(c))
       /\ b.edge = "unplug" /\ AcAxis(Base(c))
            => bright'.panel = b.from \/ bright'.failed
  BY <1>2, <1>12, <1>13, <1>14, EdgesFacts
<1>16. ASSUME f # Nothing, file' = Nothing
       PROVE  Turned
  <2>1. Expired(c)
    BY <1>16 DEF PolicyCheckThen
  <2> QED BY <1>7, <2>1 DEF Expired, Fits, Turned
<1> QED BY <1>3, <1>6, <1>7, <1>9, <1>10, <1>11, <1>12, <1>15, <1>16

-----------------------------------------------------------------------------
(* The steps.                                                              *)

(* A handler that ends with a policy check on a context c.                 *)
LEMMA CheckedStep ==
  ASSUME Inv, NEW c \in Context, NEW f \in Maybe(Words), NEW lost \in BOOLEAN,
         Believed(c, active), Fits(c, ctx.lastBase), c.lastBase = ctx.lastBase,
         PolicyCheckThen(c, f, lost),
         file # Nothing => f # Nothing,
         settling' \in BOOLEAN, topology' \in BOOLEAN, seen' \in Maybe(Words),
         queue' \in Seq(Maybe(Words)), Len(queue') <= MaxQueue,
         moves' \in 0..MaxMoves
  PROVE  Inv' /\ Expires /\ Undone
<1>1. Inv'
  BY CheckFacts DEF Inv, TypeOK, Asked
<1>2. Expires /\ Undone
  BY CheckFacts DEF Expires, Undone
<1> QED BY <1>1, <1>2

(* A step that leaves the policy's results alone.                          *)
LEMMA QuietStep ==
  ASSUME Inv, TypeOK',
         ctx'.override = ctx.override, ctx'.stamp = ctx.stamp,
         ctx'.lastBase = ctx.lastBase, ctx'.settled = ctx.settled,
         ctx'.low = ctx.low, ctx'.applied = ctx.applied,
         ctx'.avail => ctx.avail,
         (ctx'.docked = ctx.docked /\ topology' = topology) \/ topology',
         active' = active,
         Dimmed(bright'), bright'.edge = bright.edge \/ bright'.edge = "none",
         file # Nothing /\ file' = Nothing => ctx' = ctx
  PROVE  Inv' /\ Expires /\ Undone
<1>1. /\ AcAxis(Base(ctx')) = AcAxis(Base(ctx))
      /\ Base(ctx') = "battery-low" <=> Base(ctx) = "battery-low"
      /\ ctx'.docked = ctx.docked => Base(ctx') = Base(ctx)
  BY DEF Base, AcAxis, Inv, TypeOK, Context
<1>2. /\ Fits(ctx', Base(ctx')) /\ Fits(ctx', ctx'.lastBase)
      /\ Believed(ctx', active')
  BY <1>1 DEF Inv, Fits, Believed
<1>3. Asked'
  BY <1>1 DEF Inv, Asked, Desired, TypeOK
<1>4. bright'.edge = "unplug" => OnBattery(ctx'.lastBase)
  BY DEF Inv
<1>5. Inv'
  BY <1>2, <1>3, <1>4 DEF Inv
<1>6. Expires /\ Undone
  BY DEF Expires, Undone
<1> QED BY <1>5, <1>6

(* Every step.                                                             *)
LEMMA Step == Inv /\ [Next]_vars => Inv' /\ Expires /\ Undone
<1> SUFFICES ASSUME Inv, [Next]_vars PROVE Inv' /\ Expires /\ Undone
  OBVIOUS
<1> USE PowerPolicyAssumption
<1>0. /\ TypeOK
      /\ ctx \in Context
      /\ Fits(ctx, ctx.lastBase)
      /\ Believed(ctx, active)
      /\ Dimmed(bright)
  BY DEF Inv, TypeOK
<1>a. /\ settling \in BOOLEAN /\ topology \in BOOLEAN
      /\ seen \in Maybe(Words) /\ file \in Maybe(Words)
      /\ queue \in Seq(Maybe(Words)) /\ Len(queue) <= MaxQueue
      /\ moves \in 0..MaxMoves
  BY <1>0 DEF TypeOK
<1>b. Moves => moves' \in 0..MaxMoves
  BY <1>a DEF Moves
<1>c. ASSUME NEW q \in PinPushed(ctx)
      PROVE  q = [ctx EXCEPT !.avail = q.avail] /\ q.avail \in BOOLEAN
             /\ (q.avail => ctx.avail)
  BY <1>0, <1>c DEF PinPushed, Context
<1>1. CASE AcChanged
  <2>1. PICK q \in PinPushed([ctx EXCEPT !.ac = ~ctx.ac]) : ctx' = q
    BY <1>1 DEF AcChanged
  <2>2. (~ctx.ac) \in BOOLEAN
    OBVIOUS
  <2>3. /\ ctx' \in Context
        /\ ctx'.override = ctx.override /\ ctx'.stamp = ctx.stamp
        /\ ctx'.lastBase = ctx.lastBase /\ ctx'.settled = ctx.settled
        /\ ctx'.low = ctx.low /\ ctx'.applied = ctx.applied
        /\ ctx'.docked = ctx.docked
        /\ ctx'.avail => ctx.avail
    BY <1>0, <2>1, <2>2 DEF PinPushed, Context
  <2>4. TypeOK'
    BY <1>0, <1>1, <1>b, <2>3 DEF AcChanged, Handles, TypeOK
  <2> QED BY <1>0, <1>1, <2>3, <2>4, QuietStep DEF AcChanged
<1>2. CASE PowerAcSettled
  <2> DEFINE c == [ctx EXCEPT !.settled = ctx.ac]
  <2>1. /\ c \in Context /\ c.lastBase = ctx.lastBase
        /\ Believed(c, active) /\ Fits(c, ctx.lastBase)
    BY <1>0 DEF Context, Believed, Fits
  <2>2. PolicyCheckThen(c, file, FALSE)
    BY <1>2 DEF PowerAcSettled, PolicyCheck
  <2> HIDE DEF c
  <2> QED BY <1>2, <1>a, <2>1, <2>2, CheckedStep DEF PowerAcSettled
<1>3. CASE BatteryPercent
  <2>1. PICK pct \in Pct :
          PolicyCheckThen([ctx EXCEPT !.low = BatteryLowStep(ctx.low, pct)],
                          file, FALSE)
    BY <1>3 DEF BatteryPercent, PolicyCheck
  <2> DEFINE c == [ctx EXCEPT !.low = BatteryLowStep(ctx.low, pct)]
  <2>2. BatteryLowStep(ctx.low, pct) \in BOOLEAN
    BY <1>0 DEF BatteryLowStep, Context
  <2>3. /\ c \in Context /\ c.lastBase = ctx.lastBase
        /\ Believed(c, active) /\ Fits(c, ctx.lastBase)
    BY <1>0, <2>2 DEF Context, Believed, Fits
  <2> HIDE DEF c
  <2>4. /\ UNCHANGED <<settling, topology, seen, queue>>
        /\ moves' \in 0..MaxMoves
    BY <1>3, <1>b DEF BatteryPercent, Handles
  <2> QED BY <1>a, <2>1, <2>3, <2>4, CheckedStep DEF c
<1>4. CASE MonitorHotplug
  <2>1. PICK docked \in BOOLEAN : ctx' = [ctx EXCEPT !.docked = docked]
    BY <1>4 DEF MonitorHotplug
  <2>3. ctx' \in Context
    BY <1>0, <2>1 DEF Context
  <2>2. TypeOK'
    BY <1>0, <1>4, <1>b, <2>3 DEF MonitorHotplug, Handles, TypeOK
  <2> QED BY <1>0, <1>4, <2>1, <2>2, QuietStep DEF MonitorHotplug, Context
<1>5. CASE MonitorsChanged
  <2>1. PICK c \in PinPushed(ctx) : PolicyCheckThen(c, file, FALSE)
    BY <1>5 DEF MonitorsChanged, PolicyCheck
  <2>2. /\ c \in Context /\ c.lastBase = ctx.lastBase
        /\ Believed(c, active) /\ Fits(c, ctx.lastBase)
    BY <1>0, <1>c, <2>1 DEF Context, Believed, Fits
  <2> QED BY <1>5, <1>a, <2>1, <2>2, CheckedStep DEF MonitorsChanged
<1>6. CASE ReconcileTick
  <2>1. PICK ac \in BOOLEAN, docked \in BOOLEAN :
          /\ topology' = (topology \/ docked # ctx.docked)
          /\ PolicyCheckThen([ctx EXCEPT !.ac = ac, !.docked = docked,
                                         !.settled = ac], file, FALSE)
    BY <1>6 DEF ReconcileTick, PolicyCheck
  <2> DEFINE c == [ctx EXCEPT !.ac = ac, !.docked = docked, !.settled = ac]
  <2>2. /\ c \in Context /\ c.lastBase = ctx.lastBase
        /\ Believed(c, active) /\ Fits(c, ctx.lastBase)
    BY <1>0 DEF Context, Believed, Fits
  <2>3. topology' \in BOOLEAN
    BY <2>1
  <2>4. /\ UNCHANGED <<settling, seen, queue>>
        /\ moves' \in 0..MaxMoves
    BY <1>6, <1>b DEF ReconcileTick, Handles
  <2> HIDE DEF c
  <2> QED BY <1>a, <2>1, <2>2, <2>3, <2>4, CheckedStep DEF c
<1>7. CASE PowerOverrideChanged
  <2> DEFINE c == Told(ctx, Head(queue))
  <2>1. Head(queue) \in Maybe(Words) /\ queue' \in Seq(Maybe(Words))
        /\ Len(queue') <= MaxQueue
    BY <1>7, <1>a DEF PowerOverrideChanged
  <2>2. /\ c \in Context /\ c.lastBase = ctx.lastBase
        /\ Believed(c, active) /\ Fits(c, ctx.lastBase)
    BY <1>0, <2>1 DEF Told, Context, Believed, Fits, Maybe
  <2>3. PolicyCheckThen(c, file, FALSE)
    BY <1>7 DEF PowerOverrideChanged, PolicyCheck
  <2> HIDE DEF c
  <2> QED BY <1>7, <1>a, <2>1, <2>2, <2>3, CheckedStep DEF PowerOverrideChanged
<1>8. CASE GpuOverrideChanged
  <2>1. PICK q \in PinPushed(ctx) : ctx' = q
    BY <1>8 DEF GpuOverrideChanged
  <2>2. ctx' \in Context
    BY <1>0, <1>c, <2>1 DEF Context
  <2>3. TypeOK'
    BY <1>0, <1>8, <1>b, <2>2 DEF GpuOverrideChanged, Handles, TypeOK
  <2> QED BY <1>0, <1>8, <1>c, <2>1, <2>3, QuietStep
          DEF GpuOverrideChanged, Context
<1>9. CASE PowerdAppeared
  <2> DEFINE c == [ctx EXCEPT !.avail = TRUE, !.settled = ctx.ac,
                      !.applied = IF ctx.avail THEN @ ELSE Nothing]
  <2>1. /\ c \in Context /\ c.lastBase = ctx.lastBase
        /\ Believed(c, active) /\ Fits(c, ctx.lastBase)
    BY <1>0 DEF Context, Believed, Fits, Maybe
  <2>2. PolicyCheckThen(c, file, FALSE)
    BY <1>9 DEF PowerdAppeared, PolicyCheck
  <2> HIDE DEF c
  <2> QED BY <1>9, <1>a, <1>b, <2>1, <2>2, CheckedStep
          DEF PowerdAppeared, Handles
<1>10. CASE Resumed
  <2>1. bright' \in Brightness /\ Dimmed(bright') /\ bright'.edge = bright.edge
    BY <1>0, <1>10 DEF Resumed, Brightness, Dimmed, Maybe, TypeOK
  <2>2. TypeOK'
    BY <1>0, <1>10, <1>b, <2>1 DEF Resumed, Handles, TypeOK
  <2> QED BY <1>0, <1>10, <2>1, <2>2, QuietStep DEF Resumed
<1>11. ASSUME NEW p \in Profiles, PlatformProfileChanged(p)
       PROVE  Inv' /\ Expires /\ Undone
  <2> DEFINE c == [ctx EXCEPT !.override = p, !.stamp = Nothing]
  <2>1. /\ c \in Context /\ c.lastBase = ctx.lastBase
        /\ Believed(c, active) /\ Fits(c, ctx.lastBase)
    BY <1>0 DEF Context, Believed, Fits, Maybe
  <2>2. PICK lost \in BOOLEAN : PolicyCheckThen(c, p, lost)
    BY <1>11 DEF PlatformProfileChanged
  <2>3. p \in Maybe(Words) /\ p # Nothing
    BY DEF Maybe
  <2> HIDE DEF c
  <2> QED BY <1>11, <1>a, <1>b, <2>1, <2>2, <2>3, CheckedStep
          DEF PlatformProfileChanged, Handles
<1>12. CASE FileTask
  <2>1. queue' \in Seq(Maybe(Words)) /\ Len(queue') <= MaxQueue
    <3>1. Len(queue) \in Nat /\ Len(Append(queue, file)) = Len(queue) + 1
      BY <1>a
    <3> QED BY <1>12, <1>a, <3>1 DEF FileTask
  <2>2. TypeOK'
    BY <1>0, <1>12, <2>1 DEF FileTask, TypeOK
  <2> QED BY <1>0, <1>12, <2>2, QuietStep DEF FileTask
<1>13. ASSUME NEW word \in Maybe(Words), PowerSet(word)
       PROVE  Inv' /\ Expires /\ Undone
  <2>1. TypeOK'
    BY <1>0, <1>13, <1>b DEF PowerSet, TypeOK
  <2> QED BY <1>0, <1>13, <2>1, QuietStep DEF PowerSet
<1>14. ASSUME NEW level \in Level, UserBrightness(level)
       PROVE  Inv' /\ Expires /\ Undone
  <2>1. bright' \in Brightness /\ bright'.edge = "none" /\ Dimmed(bright')
    BY <1>0, <1>14 DEF UserBrightness, Brightness, Dimmed, Maybe, TypeOK
  <2>2. TypeOK'
    BY <1>0, <1>14, <1>b, <2>1 DEF UserBrightness, TypeOK
  <2> QED BY <1>0, <1>14, <2>1, <2>2, QuietStep DEF UserBrightness
<1>15. CASE Restart
  <2>1. /\ ctx' \in Context
        /\ ctx'.override = Nothing /\ ctx'.applied = Nothing
        /\ ctx'.lastBase = Nothing
    BY <1>15 DEF Restart, Started, Context, Maybe
  <2>2. bright' \in Brightness /\ bright'.edge = "none"
    BY <1>0, <1>15 DEF Restart, Brightness, Maybe, TypeOK
  <2>3. queue' \in Seq(Maybe(Words)) /\ Len(queue') <= MaxQueue
    BY <1>15, <1>a DEF Restart
  <2>4. TypeOK'
    BY <1>0, <1>15, <1>b, <2>1, <2>2, <2>3 DEF Restart, TypeOK
  <2>5. Inv'
    BY <2>1, <2>2, <2>4 DEF Inv, Fits, Believed, Asked, Dimmed
  <2>6. ~AcAxis(ctx'.lastBase) /\ file' = file
    BY <1>15, <2>1 DEF AcAxis, BaseState, Restart
  <2> QED BY <2>5, <2>6 DEF Expires, Undone
<1>16. CASE UNCHANGED vars
  <2>1. TypeOK'
    BY <1>0, <1>16 DEF vars, TypeOK
  <2> QED BY <1>0, <1>16, <2>1, QuietStep DEF vars
<1> QED
  BY <1>1, <1>2, <1>3, <1>4, <1>5, <1>6, <1>7, <1>8, <1>9, <1>10, <1>11,
     <1>12, <1>13, <1>14, <1>15, <1>16 DEF Next

LEMMA Initially == Init => Inv
<1> SUFFICES ASSUME Init PROVE Inv
  OBVIOUS
<1> USE PowerPolicyAssumption
<1>1. /\ ctx \in Context
      /\ ctx.override = Nothing /\ ctx.applied = Nothing
      /\ ctx.lastBase = Nothing
  BY DEF Init, Started, Context, Maybe
<1>2. bright \in Brightness /\ bright.edge = "none"
  <2>1. PICK l \in Level :
          bright = [panel |-> l, set |-> Nothing, saved |-> Nothing,
                    from |-> Nothing, edge |-> "none", failed |-> FALSE]
    BY DEF Init
  <2> QED BY <2>1 DEF Brightness, Maybe
<1>3. queue \in Seq(Maybe(Words)) /\ Len(queue) <= MaxQueue
  BY DEF Init
<1>4. TypeOK
  <2>1. settling \in BOOLEAN /\ topology \in BOOLEAN
    BY Zenon DEF Init
  <2>3. moves \in 0..MaxMoves
    BY DEF Init
  <2>2. file \in Maybe(Words) /\ seen \in Maybe(Words) /\ active \in Profiles
    BY DEF Init
  <2> QED BY <1>1, <1>2, <1>3, <2>1, <2>2, <2>3 DEF TypeOK
<1> QED BY <1>1, <1>2, <1>4 DEF Inv, Fits, Believed, Asked, Dimmed

-----------------------------------------------------------------------------
(* The theorems.                                                           *)

LEMMA InvHolds == Spec => []Inv
<1>1. Inv /\ [Next]_vars => Inv'
  BY Step
<1> QED BY <1>1, Initially, PTL DEF Spec

(* Contexts stay contexts: no word of the override file that is not a      *)
(* profile ever becomes an override, and panel levels stay on the panel.   *)
THEOREM TypeCorrect == Spec => []TypeOK
<1>1. Inv => TypeOK
  BY DEF Inv
<1> QED BY <1>1, InvHolds, PTL

(* powerd is on the profile the context calls for, with whatever order of  *)
(* charger, dock, battery, override and powerd events and failing calls.   *)
THEOREM AlwaysInForce == Spec => []InForce
<1>1. Inv => InForce
  <2>1. Inv => ctx \in Context
    BY DEF Inv, TypeOK
  <2> QED BY <2>1, BaseFacts DEF Inv, InForce, Asked, Believed
<1> QED BY <1>1, InvHolds, PTL

(* No override is in force across the side of the charger it was made on.  *)
THEOREM OverrideStaysOnItsAxis == Spec => []OverrideOfThisAxis
<1>1. Inv => OverrideOfThisAxis
  BY DEF Inv, Fits, OverrideOfThisAxis
<1> QED BY <1>1, InvHolds, PTL

(* The daemon deletes the override file for a flip or a low battery only.  *)
THEOREM OverrideExpiresOnlySo == Spec => ExpiresOnlySo
<1>1. Inv /\ [Next]_vars => [Expires]_vars
  BY Step
<1>2. [Expires]_vars =>
        [file # Nothing /\ file' = Nothing /\ ctx' # ctx =>
           \/ AcAxis(ctx'.lastBase) # AcAxis(ctx.lastBase)
           \/ ctx'.lastBase = "battery-low" /\ ctx.lastBase # "battery-low"]_vars
  BY DEF Expires, Turned
<1> QED BY <1>1, <1>2, InvHolds, PTL DEF Spec, ExpiresOnlySo

(* The charger brings back what the unplug dimmed.                         *)
THEOREM UnplugIsUndone == Spec => UnplugDimUndone
<1>1. Inv /\ [Next]_vars => [Undone]_vars
  BY Step
<1>2. [Undone]_vars =>
        [~AcAxis(ctx.lastBase) /\ AcAxis(ctx'.lastBase)
           /\ bright.edge = "unplug"
             => bright'.panel = bright.from \/ bright'.failed]_vars
  BY DEF Undone
<1> QED BY <1>1, <1>2, InvHolds, PTL DEF Spec, UnplugDimUndone
=============================================================================
