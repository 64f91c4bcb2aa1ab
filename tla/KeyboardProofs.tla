--------------------------- MODULE KeyboardProofs ---------------------------
(***************************************************************************)
(* Theorems about Keyboard, for any levels, any LED and any capacity of    *)
(* the channel.  The invariant relates each field of the daemon's context  *)
(* to what it reports on: the last event of a kind that still waits tells  *)
(* the truth, and where none waits the field does.                         *)
(***************************************************************************)
EXTENDS Keyboard, Integers, TLAPS

(* No event of a kind waits; and the last one that does is at i.           *)
None(q, K) == \A i \in DOMAIN q : q[i].kind \notin K

LastOf(q, K, i) ==
  /\ i \in DOMAIN q /\ q[i].kind \in K
  /\ \A j \in DOMAIN q : j > i => q[j].kind \notin K

LockKinds    == {"lock"}
SleepKinds   == {"sleep", "resumed"}
IdleKinds    == {"idle"}
LevelKinds   == {"level"}
HotplugKinds == {"hotplug"}
LedKinds     == {"lock", "hotplug"}

LockAgrees ==
  ~untold =>
    /\ None(kqueue, LockKinds) => kctx.locked = hint
    /\ \A i : LastOf(kqueue, LockKinds, i) => kqueue[i].on = hint

SleepAgrees ==
  /\ None(kqueue, SleepKinds) => kctx.sleeping = asleep
  /\ \A i : LastOf(kqueue, SleepKinds, i) =>
       (kqueue[i].kind = "sleep" <=> asleep)

IdleAgrees ==
  notifier = "idle" =>
    /\ None(kqueue, IdleKinds) => ~kctx.typing
    /\ \A i : LastOf(kqueue, IdleKinds, i) => kqueue[i].on

LevelAgrees ==
  /\ None(kqueue, LevelKinds) => kctx.level = OrDefault(kseen.level)
  /\ \A i : LastOf(kqueue, LevelKinds, i) => kqueue[i].level = kseen.level

LevelFirst == press # NoLevel => levelFile = press

(* Lit keys are the policy's, or an event waits whose handler will look.   *)
LedAgrees ==
  ~untold /\ led # NoLevel =>
    IF kctx.present
    THEN /\ kctx.applied = led
         /\ led = 0 \/ KbdLit(kctx) \/ ~None(kqueue, LedKinds)
    ELSE ~None(kqueue, HotplugKinds)

KbdInv ==
  /\ KbdTypeOK
  /\ LockAgrees /\ SleepAgrees /\ IdleAgrees /\ LevelAgrees /\ LevelFirst
  /\ LedAgrees

(* The sets stay closed in the proofs: only this is needed of them.        *)
LEMMA Kinds ==
  \A k : /\ k \in LockKinds <=> k = "lock"
         /\ k \in SleepKinds <=> k = "sleep" \/ k = "resumed"
         /\ k \in IdleKinds <=> k = "idle"
         /\ k \in LevelKinds <=> k = "level"
         /\ k \in HotplugKinds <=> k = "hotplug"
         /\ k \in LedKinds <=> k \in LockKinds \/ k \in HotplugKinds
BY DEF LockKinds, SleepKinds, IdleKinds, LevelKinds, HotplugKinds, LedKinds

-----------------------------------------------------------------------------
(* What the queue's two operations do to the last event of a kind.         *)
LEMMA Appended ==
  ASSUME NEW q \in Seq(KbdEvent), NEW e \in KbdEvent, NEW K
  PROVE  /\ Append(q, e) \in Seq(KbdEvent)
         /\ None(Append(q, e), K) <=> None(q, K) /\ e.kind \notin K
         /\ \A i : LastOf(Append(q, e), K, i) =>
              \/ e.kind \in K /\ Append(q, e)[i] = e
              \/ e.kind \notin K /\ LastOf(q, K, i) /\ Append(q, e)[i] = q[i]
<1> DEFINE r == Append(q, e)
<1>1. /\ r \in Seq(KbdEvent) /\ Len(r) = Len(q) + 1 /\ r[Len(r)] = e
      /\ \A i \in DOMAIN q : i \in DOMAIN r /\ r[i] = q[i]
      /\ \A i \in DOMAIN r : i \in DOMAIN q \/ i = Len(r)
      /\ Len(r) \in DOMAIN r /\ \A i \in DOMAIN q : i < Len(r)
      /\ DOMAIN q \subseteq Nat
  OBVIOUS
<1> HIDE DEF r
<1>2. None(r, K) <=> None(q, K) /\ e.kind \notin K
  BY <1>1 DEF None
<1>3. ASSUME NEW i, LastOf(r, K, i)
      PROVE  \/ e.kind \in K /\ r[i] = e
             \/ e.kind \notin K /\ LastOf(q, K, i) /\ r[i] = q[i]
  <2>1. CASE i = Len(r)
    BY <1>1, <1>3, <2>1 DEF LastOf
  <2>2. CASE i # Len(r)
    <3>1. i \in DOMAIN q /\ r[i] = q[i] /\ Len(r) > i
      BY <1>1, <1>3, <2>2 DEF LastOf
    <3>2. e.kind \notin K
      BY <1>1, <1>3, <3>1 DEF LastOf
    <3> QED BY <1>1, <1>3, <3>1, <3>2 DEF LastOf
  <2> QED BY <2>1, <2>2
<1> QED BY <1>1, <1>2, <1>3 DEF r

LEMMA Taken ==
  ASSUME NEW q \in Seq(KbdEvent), q # <<>>, NEW K
  PROVE  /\ Head(q) \in KbdEvent /\ Tail(q) \in Seq(KbdEvent)
         /\ Head(q).kind \notin K => (None(Tail(q), K) <=> None(q, K))
         /\ None(Tail(q), K) /\ Head(q).kind \in K
              => LastOf(q, K, 1) /\ q[1] = Head(q)
         /\ \A i : LastOf(Tail(q), K, i) =>
              LastOf(q, K, i + 1) /\ Tail(q)[i] = q[i + 1]
<1> DEFINE r == Tail(q)
<1>1. /\ r \in Seq(KbdEvent) /\ Head(q) = q[1] /\ Head(q) \in KbdEvent
      /\ 1 \in DOMAIN q
      /\ \A i \in DOMAIN r : i \in Nat /\ i + 1 \in DOMAIN q /\ r[i] = q[i + 1]
      /\ \A i \in DOMAIN q : i \in Nat /\ (i = 1 \/ (i > 1 /\ i - 1 \in DOMAIN r))
  OBVIOUS
<1>2. \A i \in DOMAIN q : i > 1 => i - 1 \in DOMAIN r /\ r[i - 1] = q[i]
  <2> SUFFICES ASSUME NEW i \in DOMAIN q, i > 1
               PROVE  i - 1 \in DOMAIN r /\ r[i - 1] = q[i]
    OBVIOUS
  <2> QED BY <1>1
<1> HIDE DEF r
<1>3. Head(q).kind \notin K => (None(r, K) <=> None(q, K))
  BY <1>1, <1>2 DEF None
<1>4. None(r, K) /\ Head(q).kind \in K => LastOf(q, K, 1)
  BY <1>1, <1>2 DEF None, LastOf
<1>5. ASSUME NEW i, LastOf(r, K, i)
      PROVE  LastOf(q, K, i + 1) /\ r[i] = q[i + 1]
  <2>1. i \in DOMAIN r /\ i \in Nat /\ i + 1 \in DOMAIN q /\ r[i] = q[i + 1]
    BY <1>1, <1>5 DEF LastOf
  <2>2. ASSUME NEW j \in DOMAIN q, j > i + 1
        PROVE  q[j].kind \notin K
    <3>1. j \in Nat /\ j > 1
      BY <1>1, <2>1, <2>2
    <3>2. j - 1 \in DOMAIN r /\ r[j - 1] = q[j] /\ j - 1 > i
      BY <1>2, <2>1, <2>2, <3>1
    <3> QED BY <1>5, <3>2 DEF LastOf
  <2> QED BY <1>5, <2>1, <2>2 DEF LastOf
<1> QED BY <1>1, <1>3, <1>4, <1>5 DEF r

-----------------------------------------------------------------------------
(* The levels of the LED.                                                  *)
LEMMA RawLevel ==
  ASSUME NEW l \in KbdLevel
  PROVE  LevelToRaw(l) \in Raw /\ LevelToRaw(0) = 0
<1> DEFINE raw == (2 * LedMax * l + FullLevel) \div (2 * FullLevel)
<1>1. raw \in Int
  BY KeyboardAssumption DEF KbdLevel
<1> HIDE DEF raw
<1>2. LevelToRaw(l) =
        (IF l = 0 THEN 0 ELSE IF raw < 1 THEN 1
         ELSE IF raw > LedMax THEN LedMax ELSE raw)
  BY DEF LevelToRaw, raw
<1> QED BY <1>1, <1>2, KeyboardAssumption DEF LevelToRaw, Raw

LEMMA Defaulted ==
  ASSUME NEW l \in Stored
  PROVE  OrDefault(l) \in KbdLevel
BY KeyboardAssumption DEF OrDefault, Stored, KbdLevel

(* One write of the LED: it changes what was last written and nothing else *)
(* of the context, and what it wrote is there unless it was refused.       *)
LEMMA SetFacts ==
  ASSUME KbdTypeOK, NEW d \in KbdContext, NEW l \in KbdLevel, KbdSet(d, l)
  PROVE  /\ kctx' \in KbdContext
         /\ \E a \in Raw \cup {NoLevel} : kctx' = [d EXCEPT !.applied = a]
         /\ led' \in Raw \cup {NoLevel} /\ (led' = NoLevel <=> led = NoLevel)
         /\ kmoves' \in Nat /\ untold' \in BOOLEAN /\ (untold => untold')
         /\ ~untold' /\ d.present /\ led # NoLevel /\ d.applied = led
              => kctx'.applied = led' /\ led' = LevelToRaw(l)
<1> DEFINE raw == LevelToRaw(l)
<1>1. raw \in Raw /\ NoLevel \notin Raw
  BY RawLevel, KeyboardAssumption DEF Raw
<1>2. d.applied \in Raw \cup {NoLevel} /\ d = [d EXCEPT !.applied = d.applied]
  BY DEF KbdContext
<1> HIDE DEF raw
<1>3. CASE ~d.present \/ d.applied = raw
  BY <1>1, <1>2, <1>3 DEF KbdSet, KbdTypeOK, raw
<1>4. CASE ~(~d.present \/ d.applied = raw)
  <2> DEFINE e == [d EXCEPT !.applied = raw]
  <2>1. \/ /\ led # NoLevel /\ led' = raw /\ kctx' = e
           /\ kmoves' = kmoves /\ untold' = untold
        \/ /\ kmoves' \in {kmoves, kmoves + 1} /\ kctx' = d /\ untold' = TRUE
           /\ led' = led
    BY <1>4 DEF KbdSet, raw
  <2>2. e \in KbdContext /\ e.applied = raw
    BY <1>1 DEF KbdContext
  <2>3. \E a \in Raw \cup {NoLevel} : e = [d EXCEPT !.applied = a]
    BY <1>1
  <2>4. kmoves \in Nat /\ untold \in BOOLEAN /\ led \in Raw \cup {NoLevel}
    BY DEF KbdTypeOK
  <2> HIDE DEF e
  <2>5. CASE led # NoLevel /\ led' = raw /\ kctx' = e
             /\ kmoves' = kmoves /\ untold' = untold
    BY <1>1, <2>2, <2>3, <2>4, <2>5 DEF raw
  <2>6. CASE kmoves' \in {kmoves, kmoves + 1} /\ kctx' = d /\ untold' = TRUE
             /\ led' = led
    BY <1>2, <2>4, <2>6
  <2> QED BY <2>1, <2>5, <2>6
<1> QED BY <1>3, <1>4

(* One policy check: the context keeps its fields (but for the sampled     *)
(* darkness and the value written), and keys that are lit are so by policy.*)
LEMMA CheckFacts ==
  ASSUME KbdTypeOK, NEW c \in KbdContext, NEW s \in BOOLEAN,
         KbdPolicyCheck(c, s)
  PROVE  /\ kctx' \in KbdContext
         /\ kctx'.locked = c.locked /\ kctx'.sleeping = c.sleeping
         /\ kctx'.typing = c.typing /\ kctx'.level = c.level
         /\ kctx'.present = c.present
         /\ led' \in Raw \cup {NoLevel} /\ (led' = NoLevel <=> led = NoLevel)
         /\ kmoves' \in Nat /\ untold' \in BOOLEAN /\ (untold => untold')
         /\ ~untold' /\ c.present /\ led # NoLevel /\ c.applied = led
              => kctx'.applied = led' /\ (led' = 0 \/ KbdLit(kctx'))
<1> DEFINE d == IF s /\ c.present THEN [c EXCEPT !.dark = gloom] ELSE c
           l == IF KbdLit(d) THEN d.level ELSE 0
<1>1. /\ d \in KbdContext
      /\ d.locked = c.locked /\ d.sleeping = c.sleeping /\ d.typing = c.typing
      /\ d.level = c.level /\ d.present = c.present /\ d.applied = c.applied
  BY DEF KbdContext, KbdTypeOK
<1>2. KbdSet(d, l)
  BY DEF KbdPolicyCheck
<1> HIDE DEF d
<1>3. l \in KbdLevel /\ (~KbdLit(d) => l = 0)
  BY <1>1, KeyboardAssumption DEF KbdContext, KbdLevel
<1> HIDE DEF l
<1>4. PICK a \in Raw \cup {NoLevel} : kctx' = [d EXCEPT !.applied = a]
  BY <1>1, <1>2, <1>3, SetFacts
<1>5. /\ kctx'.locked = d.locked /\ kctx'.sleeping = d.sleeping
      /\ kctx'.typing = d.typing /\ kctx'.level = d.level
      /\ kctx'.present = d.present
      /\ kctx'.dark = d.dark /\ kctx'.override = d.override
  BY <1>1, <1>4 DEF KbdContext
<1>6. KbdLit(kctx') <=> KbdLit(d)
  BY <1>5 DEF KbdLit
<1>7. l = 0 => LevelToRaw(l) = 0
  BY <1>3, RawLevel
<1> QED BY <1>1, <1>2, <1>3, <1>5, <1>6, <1>7, SetFacts

(* What each event's handler leaves in the context.                        *)
Handled(e) ==
  /\ kctx'.locked = (IF e.kind = "lock" THEN e.on ELSE kctx.locked)
  /\ kctx'.sleeping = (IF e.kind \in SleepKinds THEN e.kind = "sleep"
                       ELSE kctx.sleeping)
  /\ kctx'.typing = (IF e.kind = "idle" THEN ~e.on ELSE kctx.typing)
  /\ kctx'.level = (IF e.kind = "level" THEN OrDefault(e.level) ELSE kctx.level)
  /\ kctx'.present = (IF e.kind = "hotplug" THEN led # NoLevel
                      ELSE kctx.present)

(* What it leaves of the LED.                                              *)
LedSet ==
  /\ untold => untold'
  /\ led' = NoLevel <=> led = NoLevel
  /\ ~untold' /\ led' # NoLevel /\ kctx'.present =>
       kctx'.applied = led' /\ (led' = 0 \/ KbdLit(kctx'))

(* A context that is to be checked, and believes of the LED what is so.    *)
Candid(c) == c \in KbdContext /\
  (~untold /\ c.present /\ led # NoLevel => c.applied = led)

LEMMA CheckOfCandid ==
  ASSUME KbdTypeOK, NEW c, Candid(c), NEW s \in BOOLEAN, KbdPolicyCheck(c, s)
  PROVE  /\ kctx' \in KbdContext /\ led' \in Raw \cup {NoLevel}
         /\ kmoves' \in Nat /\ untold' \in BOOLEAN
         /\ kctx'.locked = c.locked /\ kctx'.sleeping = c.sleeping
         /\ kctx'.typing = c.typing /\ kctx'.level = c.level
         /\ kctx'.present = c.present
         /\ LedSet
BY CheckFacts DEF Candid, LedSet

LEMMA DispatchFacts ==
  ASSUME KbdInv, KbdDispatch
  PROVE  /\ KbdTypeOK'
         /\ Handled(Head(kqueue))
         /\ LedSet
<1> DEFINE e == Head(kqueue)
<1>0. KbdTypeOK /\ Candid(kctx) /\ kctx \in KbdContext
  BY DEF KbdInv, LedAgrees, Candid, KbdTypeOK
<1>1. /\ e \in KbdEvent /\ kqueue' = Tail(kqueue) /\ kqueue' \in Seq(KbdEvent)
      /\ HandleIdle(e) \/ HandleOther(e)
      /\ UNCHANGED <<hint, asleep, input, gloom, levelFile, press, notifier, kseen>>
  BY <1>0, Taken DEF KbdDispatch, KbdTypeOK
<1> HIDE DEF e
<1>2. SUFFICES /\ kctx' \in KbdContext /\ led' \in Raw \cup {NoLevel}
               /\ kmoves' \in Nat /\ untold' \in BOOLEAN
               /\ markFile' \in BOOLEAN
               /\ Handled(e) /\ LedSet
  BY <1>0, <1>1 DEF KbdTypeOK, e
<1>3. markFile' \in BOOLEAN
  BY <1>0, <1>1 DEF HandleIdle, HandleOther, Released, KbdTypeOK
<1>4. CASE e.kind = "idle"
  <2>1. e.on \in BOOLEAN
    BY <1>1, <1>4 DEF KbdEvent
  <2>2. CASE e.on
    <3> DEFINE c == [kctx EXCEPT !.typing = FALSE, !.override = FALSE]
    <3>1. /\ Candid(c) /\ KbdPolicyCheck(c, FALSE)
          /\ c.locked = kctx.locked /\ c.sleeping = kctx.sleeping
          /\ c.typing = FALSE /\ c.level = kctx.level /\ c.present = kctx.present
      BY <1>0, <1>1, <1>4, <2>2
         DEF HandleIdle, HandleOther, Released, Candid, KbdContext
    <3> HIDE DEF c
    <3> QED BY <1>0, <1>3, <1>4, <2>2, <3>1, CheckOfCandid DEF Handled, SleepKinds
  <2>3. CASE ~e.on
    <3> DEFINE c == [kctx EXCEPT !.typing = TRUE]
    <3>1. /\ Candid(c) /\ KbdPolicyCheck(c, TRUE)
          /\ c.locked = kctx.locked /\ c.sleeping = kctx.sleeping
          /\ c.typing = TRUE /\ c.level = kctx.level /\ c.present = kctx.present
      BY <1>0, <1>1, <1>4, <2>3 DEF HandleIdle, HandleOther, Candid, KbdContext
    <3> HIDE DEF c
    <3> QED BY <1>0, <1>3, <1>4, <2>3, <3>1, CheckOfCandid DEF Handled, SleepKinds
  <2> QED BY <2>1, <2>2, <2>3
<1>5. CASE e.kind = "lock"
  <2> DEFINE c == [kctx EXCEPT !.locked = e.on]
  <2>1. /\ Candid(c) /\ KbdPolicyCheck(c, FALSE)
        /\ c.locked = e.on /\ c.sleeping = kctx.sleeping
        /\ c.typing = kctx.typing /\ c.level = kctx.level /\ c.present = kctx.present
    BY <1>0, <1>1, <1>5 DEF HandleIdle, HandleOther, Candid, KbdContext, KbdEvent
  <2> HIDE DEF c
  <2> QED BY <1>0, <1>3, <1>5, <2>1, CheckOfCandid DEF Handled, SleepKinds
<1>6. CASE e.kind = "override"
  <2> DEFINE c == [kctx EXCEPT !.override = e.on]
  <2>1. /\ Candid(c) /\ KbdPolicyCheck(c, e.on) /\ e.on \in BOOLEAN
        /\ c.locked = kctx.locked /\ c.sleeping = kctx.sleeping
        /\ c.typing = kctx.typing /\ c.level = kctx.level /\ c.present = kctx.present
    BY <1>0, <1>1, <1>6 DEF HandleIdle, HandleOther, Candid, KbdContext, KbdEvent
  <2> HIDE DEF c
  <2> QED BY <1>0, <1>3, <1>6, <2>1, CheckOfCandid DEF Handled, SleepKinds
<1>7. CASE e.kind = "level"
  <2> DEFINE c == [kctx EXCEPT !.level = OrDefault(e.level)]
  <2>0. OrDefault(e.level) \in KbdLevel
    BY <1>1, <1>7, Defaulted DEF KbdEvent
  <2>1. /\ Candid(c) /\ KbdPolicyCheck(c, TRUE)
        /\ c.locked = kctx.locked /\ c.sleeping = kctx.sleeping
        /\ c.typing = kctx.typing /\ c.level = OrDefault(e.level)
        /\ c.present = kctx.present
    BY <1>0, <1>1, <1>7, <2>0 DEF HandleIdle, HandleOther, Candid, KbdContext
  <2> HIDE DEF c
  <2> QED BY <1>0, <1>3, <1>7, <2>1, CheckOfCandid DEF Handled, SleepKinds
<1>8. CASE e.kind = "sleep"
  <2> DEFINE c == [kctx EXCEPT !.sleeping = TRUE]
  <2>1. /\ Candid(c) /\ KbdPolicyCheck(c, FALSE)
        /\ c.locked = kctx.locked /\ c.sleeping = TRUE
        /\ c.typing = kctx.typing /\ c.level = kctx.level /\ c.present = kctx.present
    BY <1>0, <1>1, <1>8 DEF HandleIdle, HandleOther, Candid, KbdContext
  <2> HIDE DEF c
  <2> QED BY <1>0, <1>3, <1>8, <2>1, CheckOfCandid DEF Handled, SleepKinds
<1>9. CASE e.kind = "resumed"
  <2> DEFINE c == [kctx EXCEPT !.sleeping = FALSE]
  <2>1. /\ Candid(c) /\ KbdPolicyCheck(c, FALSE)
        /\ c.locked = kctx.locked /\ c.sleeping = FALSE
        /\ c.typing = kctx.typing /\ c.level = kctx.level /\ c.present = kctx.present
    BY <1>0, <1>1, <1>9 DEF HandleIdle, HandleOther, Candid, KbdContext
  <2> HIDE DEF c
  <2> QED BY <1>0, <1>3, <1>9, <2>1, CheckOfCandid DEF Handled, SleepKinds
<1>10. CASE e.kind = "hotplug"
  <2> DEFINE c == Discovered(kctx)
  <2>1. /\ Candid(c)
        /\ c.locked = kctx.locked /\ c.sleeping = kctx.sleeping
        /\ c.typing = kctx.typing /\ c.level = kctx.level
        /\ c.present = (led # NoLevel)
    BY <1>0 DEF Discovered, Candid, KbdContext, KbdTypeOK
  <2>2. KbdPolicyCheck(c, TRUE)
    BY <1>1, <1>10 DEF HandleIdle, HandleOther
  <2> HIDE DEF c
  <2> QED BY <1>0, <1>3, <1>10, <2>1, <2>2, CheckOfCandid DEF Handled, SleepKinds
<1> QED BY <1>1, <1>4, <1>5, <1>6, <1>7, <1>8, <1>9, <1>10 DEF KbdEvent

LEMMA DispatchKeeps ==
  ASSUME KbdInv, KbdDispatch
  PROVE  KbdInv'
<1> DEFINE e == Head(kqueue)
           Left(K) ==
             /\ e.kind \notin K => (None(kqueue', K) <=> None(kqueue, K))
             /\ None(kqueue', K) /\ e.kind \in K
                  => LastOf(kqueue, K, 1) /\ kqueue[1] = e
             /\ \A i : LastOf(kqueue', K, i) =>
                  LastOf(kqueue, K, i + 1) /\ kqueue'[i] = kqueue[i + 1]
<1>1. /\ kqueue \in Seq(KbdEvent) /\ kqueue # <<>> /\ kqueue' = Tail(kqueue)
      /\ e \in KbdEvent /\ (e.kind = "idle" => e.on \in BOOLEAN)
      /\ asleep \in BOOLEAN
      /\ UNCHANGED <<hint, asleep, levelFile, press, notifier, kseen>>
      /\ untold \in BOOLEAN
  BY Taken DEF KbdInv, KbdTypeOK, KbdDispatch, KbdEvent
<1>2. KbdTypeOK' /\ Handled(e) /\ LedSet
  BY DispatchFacts
<1>a. \A K : Left(K)
  <2> TAKE K
  <2> QED BY <1>1, Taken
<1> HIDE DEF e, Left
<1>b. /\ Left(LockKinds) /\ Left(SleepKinds) /\ Left(IdleKinds)
      /\ Left(LevelKinds) /\ Left(HotplugKinds)
  BY <1>a
<1>3. LockAgrees'
  <2>0. LockAgrees /\ (~untold' => ~untold)
    BY <1>2 DEF KbdInv, LedSet
  <2>1. ASSUME None(kqueue', LockKinds), ~untold'
        PROVE  kctx'.locked = hint'
    <3>1. CASE e.kind \in LockKinds
      BY <1>1, <1>2, <1>b, <2>1, <3>1, <2>0, Kinds DEF LockAgrees, Handled, Left
    <3>2. CASE e.kind \notin LockKinds
      BY <1>1, <1>2, <1>b, <2>1, <3>2, <2>0, Kinds DEF LockAgrees, Handled, Left
    <3> QED BY <3>1, <3>2
  <2>2. ASSUME NEW i, LastOf(kqueue', LockKinds, i), ~untold'
        PROVE  kqueue'[i].on = hint'
    <3>1. LastOf(kqueue, LockKinds, i + 1) /\ kqueue'[i] = kqueue[i + 1]
      BY <1>b, <2>2 DEF Left
    <3>2. kqueue[i + 1].on = hint
      BY <2>0, <2>2, <3>1 DEF LockAgrees
    <3> QED BY <1>1, <3>1, <3>2
  <2> QED BY <2>0, <2>1, <2>2 DEF LockAgrees
<1>4. SleepAgrees'
  <2>0. SleepAgrees
    BY DEF KbdInv
  <2>1. ASSUME None(kqueue', SleepKinds)
        PROVE  kctx'.sleeping = asleep'
    <3>1. CASE e.kind \in SleepKinds
      BY <1>1, <1>2, <1>b, <2>1, <3>1, <2>0, Kinds DEF SleepAgrees, Handled, Left
    <3>2. CASE e.kind \notin SleepKinds
      BY <1>1, <1>2, <1>b, <2>1, <3>2, <2>0, Kinds DEF SleepAgrees, Handled, Left
    <3> QED BY <3>1, <3>2
  <2>2. ASSUME NEW i, LastOf(kqueue', SleepKinds, i)
        PROVE  kqueue'[i].kind = "sleep" <=> asleep'
    <3>1. LastOf(kqueue, SleepKinds, i + 1) /\ kqueue'[i] = kqueue[i + 1]
      BY <1>b, <2>2 DEF Left
    <3>2. kqueue[i + 1].kind = "sleep" <=> asleep
      BY <2>0, <3>1 DEF SleepAgrees
    <3> QED BY <1>1, <3>1, <3>2
  <2> QED BY <2>0, <2>1, <2>2 DEF SleepAgrees
<1>5. IdleAgrees'
  <2>0. IdleAgrees
    BY DEF KbdInv
  <2>1. ASSUME None(kqueue', IdleKinds), notifier' = "idle"
        PROVE  ~kctx'.typing
    <3>1. CASE e.kind \in IdleKinds
      BY <1>1, <1>2, <1>b, <2>1, <3>1, <2>0, Kinds DEF IdleAgrees, Handled, Left
    <3>2. CASE e.kind \notin IdleKinds
      BY <1>1, <1>2, <1>b, <2>1, <3>2, <2>0, Kinds DEF IdleAgrees, Handled, Left
    <3> QED BY <3>1, <3>2
  <2>2. ASSUME NEW i, LastOf(kqueue', IdleKinds, i), notifier' = "idle"
        PROVE  kqueue'[i].on
    <3>1. LastOf(kqueue, IdleKinds, i + 1) /\ kqueue'[i] = kqueue[i + 1]
      BY <1>b, <2>2 DEF Left
    <3>2. kqueue[i + 1].on
      BY <2>0, <1>1, <2>2, <3>1 DEF IdleAgrees
    <3> QED BY <1>1, <3>1, <3>2
  <2> QED BY <2>0, <2>1, <2>2 DEF IdleAgrees
<1>6. LevelAgrees'
  <2>0. LevelAgrees
    BY DEF KbdInv
  <2>1. ASSUME None(kqueue', LevelKinds)
        PROVE  kctx'.level = OrDefault(kseen'.level)
    <3>1. CASE e.kind \in LevelKinds
      BY <1>1, <1>2, <1>b, <2>1, <3>1, <2>0, Kinds DEF LevelAgrees, Handled, Left
    <3>2. CASE e.kind \notin LevelKinds
      BY <1>1, <1>2, <1>b, <2>1, <3>2, <2>0, Kinds DEF LevelAgrees, Handled, Left
    <3> QED BY <3>1, <3>2
  <2>2. ASSUME NEW i, LastOf(kqueue', LevelKinds, i)
        PROVE  kqueue'[i].level = kseen'.level
    <3>1. LastOf(kqueue, LevelKinds, i + 1) /\ kqueue'[i] = kqueue[i + 1]
      BY <1>b, <2>2 DEF Left
    <3>2. kqueue[i + 1].level = kseen.level
      BY <2>0, <3>1 DEF LevelAgrees
    <3> QED BY <1>1, <3>1, <3>2
  <2> QED BY <2>0, <2>1, <2>2 DEF LevelAgrees
<1>7. LevelFirst'
  BY <1>1 DEF KbdInv, LevelFirst
<1>8. LedAgrees'
  <2> SUFFICES ASSUME ~untold', led' # NoLevel
               PROVE  IF kctx'.present
                      THEN /\ kctx'.applied = led'
                           /\ \/ led' = 0 \/ KbdLit(kctx')
                              \/ ~None(kqueue', LedKinds)
                      ELSE ~None(kqueue', HotplugKinds)
    BY DEF LedAgrees, KbdLit
  <2>1. ~untold /\ led # NoLevel
    BY <1>2 DEF LedSet
  <2>2. CASE kctx'.present
    BY <1>2, <2>2 DEF LedSet
  <2>3. CASE ~kctx'.present
    <3>1. e.kind # "hotplug" /\ ~kctx.present
      BY <1>2, <2>1, <2>3 DEF Handled
    <3>2. ~None(kqueue, HotplugKinds)
      BY <2>1, <3>1 DEF KbdInv, LedAgrees
    <3> QED BY <1>b, Kinds, <2>3, <3>1, <3>2 DEF Left
  <2> QED BY <2>2, <2>3
<1> QED BY <1>2, <1>3, <1>4, <1>5, <1>6, <1>7, <1>8 DEF KbdInv

(* What a new event says must be so; it says nothing of the other fields.  *)
LEMMA SendKeeps ==
  ASSUME KbdInv, NEW e \in KbdEvent, kqueue' = Append(kqueue, e), kctx' = kctx,
         untold => untold'
  PROVE  /\ kqueue' \in Seq(KbdEvent)
         /\ (IF e.kind = "lock" THEN e.on = hint' ELSE hint' = hint)
              => LockAgrees'
         /\ (IF e.kind \in SleepKinds THEN e.kind = "sleep" <=> asleep'
                                      ELSE asleep' = asleep)
              => SleepAgrees'
         /\ (IF e.kind = "idle" THEN notifier' = "idle" => e.on
                                ELSE notifier' = notifier)
              => IdleAgrees'
         /\ (IF e.kind = "level" THEN e.level = kseen'.level
                                 ELSE kseen'.level = kseen.level)
              => LevelAgrees'
         /\ led' = led \/ (e.kind = "hotplug" /\ ~kctx.present)
                       \/ led' = NoLevel \/ untold'
              => LedAgrees'
<1>1. kqueue \in Seq(KbdEvent) /\ untold \in BOOLEAN
  BY DEF KbdInv, KbdTypeOK
<1>2. \A K : /\ kqueue' \in Seq(KbdEvent)
             /\ None(kqueue', K) <=> None(kqueue, K) /\ e.kind \notin K
             /\ \A i : LastOf(kqueue', K, i) =>
                  \/ e.kind \in K /\ kqueue'[i] = e
                  \/ /\ e.kind \notin K /\ LastOf(kqueue, K, i)
                     /\ kqueue'[i] = kqueue[i]
  <2> TAKE K
  <2>1. /\ Append(kqueue, e) \in Seq(KbdEvent)
        /\ None(Append(kqueue, e), K) <=> None(kqueue, K) /\ e.kind \notin K
        /\ \A i : LastOf(Append(kqueue, e), K, i) =>
              \/ e.kind \in K /\ Append(kqueue, e)[i] = e
              \/ /\ e.kind \notin K /\ LastOf(kqueue, K, i)
                 /\ Append(kqueue, e)[i] = kqueue[i]
    BY <1>1, Appended
  <2> QED BY <2>1
<1>3. (IF e.kind = "lock" THEN e.on = hint' ELSE hint' = hint) => LockAgrees'
  BY <1>2, Kinds DEF KbdInv, LockAgrees
<1>4. (IF e.kind \in SleepKinds THEN e.kind = "sleep" <=> asleep'
                                ELSE asleep' = asleep) => SleepAgrees'
  BY <1>2, Kinds DEF KbdInv, SleepAgrees
<1>5. (IF e.kind = "idle" THEN notifier' = "idle" => e.on
                          ELSE notifier' = notifier) => IdleAgrees'
  BY <1>2, Kinds DEF KbdInv, IdleAgrees
<1>6. (IF e.kind = "level" THEN e.level = kseen'.level
                           ELSE kseen'.level = kseen.level) => LevelAgrees'
  BY <1>2, Kinds DEF KbdInv, LevelAgrees
<1>7. led' = led \/ (e.kind = "hotplug" /\ ~kctx.present)
        \/ led' = NoLevel \/ untold' => LedAgrees'
  BY <1>2, Kinds DEF KbdInv, LedAgrees, KbdLit
<1> QED BY <1>2, <1>3, <1>4, <1>5, <1>6, <1>7

(* A step that neither sends nor handles an event.                         *)
LEMMA RestKeeps ==
  ASSUME KbdInv, UNCHANGED <<kqueue, kctx, hint, asleep, led, untold>>,
         notifier' = notifier \/ notifier' # "idle", kseen' = kseen
  PROVE  LockAgrees' /\ SleepAgrees' /\ IdleAgrees' /\ LevelAgrees' /\ LedAgrees'
BY DEF KbdInv, LockAgrees, SleepAgrees, IdleAgrees, LevelAgrees, LedAgrees, KbdLit

LEMMA KbdInvInit == KbdInit => KbdInv
<1> SUFFICES ASSUME KbdInit PROVE KbdInv
  OBVIOUS
<1>1. /\ kqueue = <<[kind |-> "hotplug"]>> /\ [kind |-> "hotplug"] \in KbdEvent
      /\ kqueue[1].kind = "hotplug" /\ DOMAIN kqueue = {1}
  BY DEF KbdInit, KbdEvent
<1>2. kqueue \in Seq(KbdEvent)
  BY <1>1
<1>3. levelFile \in Stored /\ OrDefault(levelFile) \in KbdLevel
  <2>1. levelFile \in Stored
    BY KeyboardAssumption DEF KbdInit, Stored, KbdLevel
  <2> QED BY <2>1, Defaulted
<1>4. led \in Raw
  BY KeyboardAssumption DEF KbdInit, Raw
<1>5. KbdTypeOK
  BY <1>2, <1>3, <1>4 DEF KbdInit, KbdTypeOK, KbdContext, Stored
<1>6. /\ \A K : "hotplug" \notin K => \A i : ~LastOf(kqueue, K, i)
      /\ ~None(kqueue, HotplugKinds) /\ ~None(kqueue, LedKinds)
  BY <1>1, Kinds DEF LastOf, None
<1>7. LockAgrees /\ SleepAgrees /\ IdleAgrees /\ LevelAgrees
  BY <1>6, Kinds DEF KbdInit, LockAgrees, SleepAgrees, IdleAgrees, LevelAgrees
<1>8. LevelFirst /\ LedAgrees
  BY <1>6 DEF KbdInit, LevelFirst, LedAgrees
<1> QED BY <1>5, <1>7, <1>8 DEF KbdInv

(* The level of a press is one of the scale.                               *)
LEMMA PressedLevel ==
  ASSUME levelFile \in Stored,
         NEW l \in {StepLevel(OrDefault(levelFile), up) : up \in BOOLEAN}
                     \cup {0, FullLevel}
  PROVE  l \in Stored
<1>1. OrDefault(levelFile) \in KbdLevel
  BY Defaulted
<1> QED BY <1>1, KeyboardAssumption DEF StepLevel, KbdLevel, Stored

LEMMA KbdInvStep == KbdInv /\ [KbdNext]_kbdVars => KbdInv'
<1> SUFFICES ASSUME KbdInv, [KbdNext]_kbdVars
             PROVE  KbdInv'
  OBVIOUS
<1>0. KbdTypeOK /\ LevelFirst
  BY DEF KbdInv
<1> USE <1>0
<1>1. CASE KbdDispatch
  BY <1>1, DispatchKeeps
<1>2. CASE KbdReconcile
  <2>1. KbdTypeOK'
    BY <1>2 DEF KbdReconcile, roomVars, KbdTypeOK, KbdContext
  <2>2. ~untold => ~None(kqueue, LockKinds)
    BY <1>2 DEF KbdReconcile, KbdInv, LockAgrees
  <2>3. ~None(kqueue, LockKinds) => ~None(kqueue, LedKinds)
    BY Kinds DEF None
  <2>4. /\ UNCHANGED <<kqueue, hint, asleep, notifier, kseen, led, untold,
                       levelFile, press>>
        /\ kctx'.locked = hint /\ kctx'.sleeping = kctx.sleeping
        /\ kctx'.typing = kctx.typing /\ kctx'.level = kctx.level
        /\ kctx'.present = kctx.present /\ kctx'.applied = kctx.applied
    BY <1>2 DEF KbdReconcile, roomVars, KbdTypeOK, KbdContext
  <2>5. LockAgrees' /\ SleepAgrees' /\ IdleAgrees' /\ LevelAgrees' /\ LevelFirst'
    BY <2>4 DEF KbdInv, LockAgrees, SleepAgrees, IdleAgrees, LevelAgrees, LevelFirst
  <2>6. LedAgrees'
    BY <2>2, <2>3, <2>4 DEF KbdInv, LedAgrees
  <2> QED BY <2>1, <2>5, <2>6 DEF KbdInv
<1>3. CASE IdleNotify
  <2> DEFINE e == [kind |-> "idle", on |-> ~input]
  <2>1. e \in KbdEvent /\ e.kind = "idle" /\ e.on = ~input
    BY DEF KbdEvent
  <2>2. /\ kqueue' = Append(kqueue, e)
        /\ UNCHANGED <<hint, asleep, levelFile, press, led, kseen, kctx, untold>>
        /\ notifier' = "idle" => e.on
    BY <1>3 DEF IdleNotify, KbdSend, roomVars, KbdTypeOK
  <2> HIDE DEF e
  <2>3. /\ kqueue' \in Seq(KbdEvent)
        /\ LockAgrees' /\ SleepAgrees' /\ IdleAgrees' /\ LevelAgrees' /\ LedAgrees'
    BY <2>1, <2>2, SendKeeps, Kinds
  <2>4. KbdTypeOK'
    BY <1>3, <2>3 DEF IdleNotify, roomVars, KbdTypeOK
  <2> QED BY <2>2, <2>3, <2>4 DEF KbdInv, LevelFirst
<1>4. CASE Reconnect
  BY <1>4, RestKeeps DEF Reconnect, roomVars, KbdInv, KbdTypeOK, LevelFirst
<1>5. CASE SeeLevel
  <2> DEFINE e == [kind |-> "level", level |-> levelFile]
  <2>1. e \in KbdEvent /\ e.kind = "level" /\ e.level = levelFile
    BY DEF KbdEvent, KbdTypeOK
  <2>2. /\ kqueue' = Append(kqueue, e) /\ kseen'.level = levelFile
        /\ kseen' \in [level : Stored, mark : BOOLEAN]
        /\ UNCHANGED <<hint, asleep, levelFile, press, led, notifier, kctx, untold>>
    BY <1>5 DEF SeeLevel, KbdSend, roomVars, KbdTypeOK
  <2> HIDE DEF e
  <2>3. /\ kqueue' \in Seq(KbdEvent)
        /\ LockAgrees' /\ SleepAgrees' /\ IdleAgrees' /\ LevelAgrees' /\ LedAgrees'
    BY <2>1, <2>2, SendKeeps, Kinds
  <2>4. KbdTypeOK'
    BY <1>5, <2>2, <2>3 DEF SeeLevel, roomVars, KbdTypeOK
  <2> QED BY <2>2, <2>3, <2>4 DEF KbdInv, LevelFirst
<1>6. CASE SeeMark
  <2> DEFINE e == [kind |-> "override", on |-> markFile]
  <2>1. e \in KbdEvent /\ e.kind = "override"
    BY DEF KbdEvent, KbdTypeOK
  <2>2. /\ kqueue' = Append(kqueue, e) /\ kseen'.level = kseen.level
        /\ kseen' \in [level : Stored, mark : BOOLEAN]
        /\ UNCHANGED <<hint, asleep, levelFile, press, led, notifier, kctx, untold>>
    BY <1>6 DEF SeeMark, KbdSend, roomVars, KbdTypeOK
  <2> HIDE DEF e
  <2>3. /\ kqueue' \in Seq(KbdEvent)
        /\ LockAgrees' /\ SleepAgrees' /\ IdleAgrees' /\ LevelAgrees' /\ LedAgrees'
    BY <2>1, <2>2, SendKeeps, Kinds
  <2>4. KbdTypeOK'
    BY <1>6, <2>2, <2>3 DEF SeeMark, roomVars, KbdTypeOK
  <2> QED BY <2>2, <2>3, <2>4 DEF KbdInv, LevelFirst
<1>7. CASE TypesOrStops \/ RoomChanges \/ KbdAuto
  <2>1. /\ kmoves' = kmoves + 1
        /\ input' \in BOOLEAN /\ gloom' \in BOOLEAN /\ markFile' \in BOOLEAN
        /\ UNCHANGED <<hint, asleep, levelFile, press, led, notifier, kseen,
                       kctx, kqueue, untold>>
    <3>1. CASE TypesOrStops
      BY <3>1 DEF TypesOrStops, KbdMoves, KbdTypeOK
    <3>2. CASE RoomChanges
      BY <3>2 DEF RoomChanges, KbdMoves, KbdTypeOK
    <3>3. CASE KbdAuto
      BY <3>3 DEF KbdAuto, KbdMoves, KbdTypeOK
    <3> QED BY <1>7, <3>1, <3>2, <3>3
  <2> QED BY <2>1, RestKeeps DEF KbdInv, KbdTypeOK, LevelFirst
<1>8. CASE Press
  <2>1. /\ press' \in Stored /\ levelFile' = press' /\ UNCHANGED markFile
        /\ kmoves' = kmoves + 1
        /\ UNCHANGED <<hint, asleep, input, gloom, led, notifier, kseen, kctx,
                       kqueue, untold>>
    BY <1>8, PressedLevel DEF Press, Written, WriteOrder, KbdMoves, KbdTypeOK
  <2> QED BY <2>1, RestKeeps DEF KbdInv, KbdTypeOK, LevelFirst
<1>9. CASE PressGoesOn
  <2>1. /\ press' = NoLevel /\ markFile' = TRUE
        /\ UNCHANGED <<hint, asleep, input, gloom, led, notifier, kseen, kctx,
                       kqueue, kmoves, untold, levelFile>>
    BY <1>9 DEF PressGoesOn, Written, WriteOrder
  <2> QED BY <2>1, RestKeeps DEF KbdInv, KbdTypeOK, LevelFirst, Stored
<1>10. CASE LocksOrUnlocks
  <2>1. /\ hint' = ~hint
        /\ UNCHANGED <<asleep, levelFile, press, led, notifier, kseen, kctx>>
    BY <1>10 DEF LocksOrUnlocks
  <2>2. CASE kqueue' = Append(kqueue, [kind |-> "lock", on |-> ~hint])
             /\ UNCHANGED untold
    <3> DEFINE e == [kind |-> "lock", on |-> ~hint]
    <3>1. e \in KbdEvent /\ e.kind = "lock" /\ e.on = hint'
      BY <2>1 DEF KbdEvent
    <3> HIDE DEF e
    <3>2. kqueue' = Append(kqueue, e)
      BY <2>2 DEF e
    <3>3. /\ kqueue' \in Seq(KbdEvent)
          /\ LockAgrees' /\ SleepAgrees' /\ IdleAgrees' /\ LevelAgrees'
          /\ LedAgrees'
      BY <2>1, <2>2, <3>1, <3>2, SendKeeps, Kinds
    <3>4. KbdTypeOK'
      BY <1>10, <2>2, <3>3 DEF LocksOrUnlocks, KbdMoves, KbdTypeOK
    <3> QED BY <2>1, <3>3, <3>4 DEF KbdInv, LevelFirst
  <2>3. CASE untold' = TRUE /\ UNCHANGED kqueue
    <3>1. KbdTypeOK'
      BY <1>10, <2>3 DEF LocksOrUnlocks, KbdMoves, KbdTypeOK
    <3>2. SleepAgrees' /\ IdleAgrees' /\ LevelAgrees' /\ LevelFirst'
      BY <2>1, <2>3 DEF KbdInv, SleepAgrees, IdleAgrees, LevelAgrees, LevelFirst
    <3>3. LockAgrees' /\ LedAgrees'
      BY <2>3 DEF LockAgrees, LedAgrees
    <3> QED BY <3>1, <3>2, <3>3 DEF KbdInv
  <2> QED BY <1>10, <2>2, <2>3 DEF LocksOrUnlocks
<1>11. CASE SleepsOrWakes
  <2> DEFINE e == [kind |-> IF asleep THEN "resumed" ELSE "sleep"]
  <2>1. /\ e \in KbdEvent /\ e.kind \in SleepKinds
        /\ e.kind = (IF asleep THEN "resumed" ELSE "sleep")
    BY Kinds DEF KbdEvent
  <2>2. /\ kqueue' = Append(kqueue, e) /\ asleep' = ~asleep
        /\ UNCHANGED <<hint, levelFile, press, led, notifier, kseen, kctx, untold>>
    BY <1>11 DEF SleepsOrWakes
  <2> HIDE DEF e
  <2>3. e.kind = "sleep" <=> asleep'
    BY <2>1, <2>2 DEF KbdTypeOK
  <2>4. /\ kqueue' \in Seq(KbdEvent)
        /\ LockAgrees' /\ SleepAgrees' /\ IdleAgrees' /\ LevelAgrees' /\ LedAgrees'
    BY <2>1, <2>2, <2>3, SendKeeps, Kinds
  <2>5. KbdTypeOK'
    BY <1>11, <2>4 DEF SleepsOrWakes, KbdMoves, KbdTypeOK
  <2> QED BY <2>2, <2>4, <2>5 DEF KbdInv, LevelFirst
<1>12. CASE CompositorRestarts
  BY <1>12, RestKeeps
     DEF CompositorRestarts, KbdMoves, roomVars, KbdInv, KbdTypeOK, LevelFirst
<1>13. CASE LedHotplug
  <2> DEFINE e == [kind |-> "hotplug"]
  <2>1. e \in KbdEvent /\ e.kind = "hotplug"
    BY DEF KbdEvent
  <2>2. /\ kqueue' = Append(kqueue, e)
        /\ led' \in Raw \cup {NoLevel} /\ untold' \in BOOLEAN
        /\ UNCHANGED <<hint, asleep, levelFile, press, notifier, kseen, kctx>>
        /\ untold => untold'
        /\ led' = NoLevel \/ ~kctx.present \/ untold'
    BY <1>13 DEF LedHotplug, roomVars, KbdTypeOK, KbdContext
  <2> HIDE DEF e
  <2>3. /\ kqueue' \in Seq(KbdEvent)
        /\ LockAgrees' /\ SleepAgrees' /\ IdleAgrees' /\ LevelAgrees' /\ LedAgrees'
    BY <2>1, <2>2, SendKeeps, Kinds
  <2>4. KbdTypeOK'
    BY <1>13, <2>2, <2>3 DEF LedHotplug, KbdMoves, roomVars, KbdTypeOK
  <2> QED BY <2>2, <2>3, <2>4 DEF KbdInv, LevelFirst
<1>14. CASE UNCHANGED kbdVars
  BY <1>14, RestKeeps DEF kbdVars, KbdInv, KbdTypeOK, LevelFirst
<1> QED BY <1>1, <1>2, <1>3, <1>4, <1>5, <1>6, <1>7, <1>8, <1>9, <1>10, <1>11,
           <1>12, <1>13, <1>14 DEF KbdNext

-----------------------------------------------------------------------------
(* The context always agrees with the machine or with what the channel     *)
(* still holds, and every variable with its type.                          *)
THEOREM KbdInvHolds == KbdSpec => []KbdInv
BY KbdInvInit, KbdInvStep, PTL DEF KbdSpec

(* For any LED, any scale and any backlog: when all has been handled the   *)
(* keys of a session that is locked, asleep or left alone are dark         *)
(* (kbd_lit and the policy check that ends each handler).                  *)
THEOREM AlwaysDarkWhenAway == KbdSpec => []DarkWhenAway
<1>1. KbdInv => DarkWhenAway
  <2> SUFFICES ASSUME KbdInv, KbdQuiet, ~untold, hint \/ asleep \/ ~input,
                      led # NoLevel, led # 0
               PROVE  FALSE
    BY DEF DarkWhenAway
  <2>1. \A K : None(kqueue, K)
    BY DEF KbdQuiet, None
  <2>2. kctx.present /\ KbdLit(kctx)
    BY <2>1 DEF KbdInv, LedAgrees
  <2>3. kctx.locked = hint /\ kctx.sleeping = asleep
    BY <2>1 DEF KbdInv, LockAgrees, SleepAgrees
  <2>4. ~input => ~kctx.typing
    BY <2>1 DEF KbdQuiet, KbdInv, IdleAgrees
  <2> QED BY <2>2, <2>3, <2>4 DEF KbdLit
<1> QED BY <1>1, KbdInvHolds, PTL

(* For any levels: an override never stands at another level than the last *)
(* `kbd` asked for, once the event of that level has been handled (apply   *)
(* writes the level before the marker).                                    *)
THEOREM OverrideIsAtNewLevel == KbdSpec => []OverrideAtNewLevel
<1>1. KbdInv => OverrideAtNewLevel
  <2> SUFFICES ASSUME KbdInv, kseen.level = levelFile,
                      \A i \in DOMAIN kqueue : kqueue[i].kind # "level"
               PROVE  kctx.level = OrDefault(IF press # NoLevel THEN press
                                             ELSE levelFile)
    BY DEF OverrideAtNewLevel
  <2>1. None(kqueue, LevelKinds)
    BY Kinds DEF None
  <2> QED BY <2>1 DEF KbdInv, LevelAgrees, LevelFirst
<1> QED BY <1>1, KbdInvHolds, PTL
=============================================================================
