-------------------------- MODULE GpuSessionProofs --------------------------
(***************************************************************************)
(* Theorems about GpuSession, for any cards, profiles, words and number of *)
(* moves: gpu_desired always lists cards that are there, and no card       *)
(* twice; and, whatever it lists, the daemon's choice is the select's, its *)
(* advice has been given, and the pin it believes in is the one powerd     *)
(* holds.                                                                  *)
(***************************************************************************)
EXTENDS GpuSession, FiniteSetTheorems, TLAPS

GpuFields == {"pending", "managed", "actual", "notified", "cooling", "pinned"}

WantedPin == IF DaemonMode = "dgpu" THEN "awake" ELSE "auto"

(* The breadcrumb is the profile's, but for a MonitorsChanged on its way.  *)
CrumbFresh == ~due => breadcrumb = Crumb(FreshPref, breadcrumb)

(* The advice that stands has been given.                                  *)
NoticeGiven == gctx.notified # <<>> => gctx.notified \in told

(* A pin that is believed is powerd's.                                     *)
PinKnown == reach /\ gctx.pinned # "none" => dgpuPin = gctx.pinned

GpuInv ==
  /\ DOMAIN gctx = GpuFields
  /\ due \in BOOLEAN /\ gate \in BOOLEAN /\ reach \in BOOLEAN
  /\ swallowed \in BOOLEAN /\ blind \in BOOLEAN
  /\ CrumbFresh /\ NoticeGiven /\ PinKnown
  /\ DriftTold /\ PinFollowsMode

(* What AdviceSatisfiable says of one step.                                *)
Satisfiable ==
  gctx'.notified \notin {<<>>, gctx.notified} /\ ~due'
    => GpuDesired(Snapshot, SelectMode(breadcrumb))'.list = gctx'.notified

-----------------------------------------------------------------------------
(* The sorted list of cards, and the list a mode gives.                    *)

(* The order of the cards: the sort's key tells any two apart.             *)
LEMMA AheadOrders ==
  ASSUME NEW s, NEW i \in CardIds, NEW j \in CardIds, NEW k \in CardIds
  PROVE  /\ i # j => Ahead(s, i, j) \/ Ahead(s, j, i)
         /\ Ahead(s, i, j) /\ Ahead(s, j, k) => Ahead(s, i, k)
         /\ ~Ahead(s, i, i)
<1>1. /\ i \in Nat /\ j \in Nat /\ k \in Nat
      /\ Cards[i].vram \in Nat /\ Cards[j].vram \in Nat
      /\ Cards[k].vram \in Nat
  <2> DEFINE Card == [bootVga : BOOLEAN, vram : Nat, edp : BOOLEAN]
  <2>1. Cards \in Seq(Card)
    BY GpuAssumption
  <2>2. \A c \in Card : c.vram \in Nat
    OBVIOUS
  <2> HIDE DEF Card
  <2>3. \A n \in CardIds : n \in Nat /\ Cards[n] \in Card
    BY <2>1 DEF CardIds
  <2> QED BY <2>2, <2>3
<1> DEFINE vi == Cards[i].vram
           vj == Cards[j].vram
           vk == Cards[k].vram
<1>2. vi \in Nat /\ vj \in Nat /\ vk \in Nat
  BY <1>1
<1>3. /\ Ahead(s, i, j) <=> \/ i \in s.external /\ j \notin s.external
                            \/ /\ i \in s.external <=> j \in s.external
                               /\ vi > vj \/ (vi = vj /\ i < j)
      /\ Ahead(s, j, i) <=> \/ j \in s.external /\ i \notin s.external
                            \/ /\ j \in s.external <=> i \in s.external
                               /\ vj > vi \/ (vj = vi /\ j < i)
      /\ Ahead(s, j, k) <=> \/ j \in s.external /\ k \notin s.external
                            \/ /\ j \in s.external <=> k \in s.external
                               /\ vj > vk \/ (vj = vk /\ j < k)
      /\ Ahead(s, i, k) <=> \/ i \in s.external /\ k \notin s.external
                            \/ /\ i \in s.external <=> k \in s.external
                               /\ vi > vk \/ (vi = vk /\ i < k)
      /\ Ahead(s, i, i) <=> vi > vi \/ i < i
  BY DEF Ahead
<1> HIDE DEF vi, vj, vk
<1> QED BY <1>1, <1>2, <1>3

(* A minimal set without a last card would stay one when a card is taken   *)
(* away; and likewise one that cannot be put in order.                     *)
LEMMA LastCard ==
  ASSUME NEW s, NEW C \in SUBSET CardIds, C # {}
  PROVE  \E x \in C : \A y \in C \ {x} : Ahead(s, y, x)
<1> DEFINE HasLast(U) == \E x \in U : \A y \in U \ {x} : Ahead(s, y, x)
           Bad == {U \in SUBSET CardIds : U # {} /\ ~HasLast(U)}
<1>1. Bad \subseteq FiniteSubsetsOf(CardIds)
  <2>1. IsFiniteSet(CardIds)
    BY GpuAssumption, FS_Interval DEF CardIds
  <2> QED BY <2>1, FS_FiniteSubsetsOfFinite
<1>2. ASSUME Bad # {} PROVE FALSE
  <2>1. PICK U \in Bad :
          \A V \in Bad : <<V, U>> \notin StrictSubsetOrdering(CardIds)
    BY <1>1, <1>2, WFMin, FS_StrictSubsetOrderingWellFounded
  <2>2. PICK x \in U : TRUE
    OBVIOUS
  <2> DEFINE V == U \ {x}
  <2>3. V \notin Bad
    BY <2>1, <2>2 DEF StrictSubsetOrdering
  <2>4. HasLast(U)
    <3>1. CASE V = {}
      BY <2>2, <3>1
    <3>2. ASSUME NEW z \in V, \A y \in V \ {z} : Ahead(s, y, z)
          PROVE  HasLast(U)
      <4>1. x \in CardIds /\ z \in CardIds /\ x # z
        BY <2>2, <3>2
      <4>2. CASE Ahead(s, x, z)
        <5>1. \A y \in U \ {z} : Ahead(s, y, z)
          BY <3>2, <4>2
        <5> QED BY <3>2, <5>1
      <4>3. CASE Ahead(s, z, x)
        <5>1. ASSUME NEW y \in U \ {x} PROVE Ahead(s, y, x)
          <6>1. CASE y = z
            BY <4>3, <6>1
          <6>2. CASE y # z
            <7>1. Ahead(s, y, z) /\ y \in CardIds
              BY <2>1, <3>2, <5>1, <6>2
            <7> QED BY <4>1, <4>3, <7>1, AheadOrders
          <6> QED BY <6>1, <6>2
        <5> QED BY <2>2, <5>1
      <4> QED BY <4>1, <4>2, <4>3, AheadOrders
    <3>3. V = {} \/ HasLast(V)
      BY <2>3
    <3> QED BY <3>1, <3>2, <3>3
  <2> QED BY <2>4
<1> QED BY <1>2

LEMMA CanOrder ==
  ASSUME NEW s, NEW C \in SUBSET CardIds
  PROVE  \E q \in [1..Cardinality(C) -> C] :
           \A m, n \in 1..Cardinality(C) : m < n => Ahead(s, q[m], q[n])
<1> DEFINE Ordered(U) ==
             \E q \in [1..Cardinality(U) -> U] :
               \A m, n \in 1..Cardinality(U) : m < n => Ahead(s, q[m], q[n])
           Bad == {U \in SUBSET CardIds : ~Ordered(U)}
<1>1. IsFiniteSet(CardIds)
  BY GpuAssumption, FS_Interval DEF CardIds
<1>2. Bad \subseteq FiniteSubsetsOf(CardIds)
  BY <1>1, FS_FiniteSubsetsOfFinite
<1>3. ASSUME Bad # {} PROVE FALSE
  <2>1. PICK U \in Bad :
          \A V \in Bad : <<V, U>> \notin StrictSubsetOrdering(CardIds)
    BY <1>2, <1>3, WFMin, FS_StrictSubsetOrderingWellFounded
  <2>2. U \in SUBSET CardIds /\ IsFiniteSet(U)
    BY <1>1, <2>1, FS_Subset
  <2>3. CASE U = {}
    <3>1. 1..Cardinality(U) = {}
      BY <2>3, FS_EmptySet
    <3>2. [n \in {} |-> n] \in [1..Cardinality(U) -> U]
      BY <3>1
    <3>3. Ordered(U)
      BY <3>1, <3>2
    <3> QED BY <2>1, <3>3
  <2>4. CASE U # {}
    <3>1. PICK x \in U : \A y \in U \ {x} : Ahead(s, y, x)
      BY <2>2, <2>4, LastCard
    <3> DEFINE V == U \ {x}
               c == Cardinality(V)
    <3>2. V \in SUBSET CardIds /\ V \notin Bad
      BY <2>1, <2>2, <3>1 DEF StrictSubsetOrdering
    <3>3. c \in Nat /\ Cardinality(U) = c + 1
      <4>1. Cardinality(U) \in Nat /\ c = Cardinality(U) - 1
        BY <2>2, <3>1, FS_RemoveElement, FS_CardinalityType
      <4>2. IsFiniteSet(V)
        BY <2>2, FS_RemoveElement
      <4>3. c \in Nat
        BY <4>2, FS_CardinalityType
      <4> QED BY <4>1, <4>3
    <3>4. PICK q \in [1..c -> V] :
            \A m, n \in 1..c : m < n => Ahead(s, q[m], q[n])
      BY <3>2
    <3> DEFINE r == [n \in 1..(c + 1) |-> IF n = c + 1 THEN x ELSE q[n]]
    <3> HIDE DEF c
    <3>5. \A n \in 1..(c + 1) : n # c + 1 => n \in 1..c
      BY <3>3
    <3>6. r \in [1..(c + 1) -> U]
      BY <3>1, <3>4, <3>5
    <3>7. ASSUME NEW m \in 1..(c + 1), NEW n \in 1..(c + 1), m < n
          PROVE  Ahead(s, r[m], r[n])
      <4>1. m \in 1..c /\ r[m] = q[m] /\ q[m] \in V
        BY <3>3, <3>4, <3>5, <3>7
      <4>2. CASE n = c + 1
        BY <3>1, <4>1, <4>2
      <4>3. CASE n # c + 1
        BY <3>4, <3>5, <3>7, <4>1, <4>3
      <4> QED BY <4>2, <4>3
    <3> HIDE DEF r
    <3>8. Ordered(U)
      BY <3>3, <3>6, <3>7
    <3> QED BY <2>1, <3>8
  <2> QED BY <2>3, <2>4
<1> QED BY <1>3

(* The sorted list is the cards of the set, each of them once.             *)
LEMMA Ordered ==
  ASSUME NEW s, NEW C \in SUBSET CardIds
  PROVE  /\ InOrder(s, C) \in Seq(C) /\ Len(InOrder(s, C)) = Cardinality(C)
         /\ \A m, n \in 1..Cardinality(C) :
              m # n => InOrder(s, C)[m] # InOrder(s, C)[n]
<1> DEFINE q == InOrder(s, C)
           c == Cardinality(C)
<1>1. /\ q \in [1..c -> C]
      /\ \A m, n \in 1..c : m < n => Ahead(s, q[m], q[n])
  <2> HIDE DEF c
  <2>1. \E p \in [1..c -> C] :
          \A m, n \in DOMAIN p : m < n => Ahead(s, p[m], p[n])
    BY CanOrder DEF c
  <2>2. /\ q \in [1..c -> C]
        /\ \A m, n \in DOMAIN q : m < n => Ahead(s, q[m], q[n])
    BY <2>1 DEF InOrder, c
  <2> HIDE DEF q
  <2> QED BY <2>2
<1>2. c \in Nat
  <2>1. IsFiniteSet(CardIds)
    BY GpuAssumption, FS_Interval DEF CardIds
  <2> QED BY <2>1, FS_Subset, FS_CardinalityType
<1> HIDE DEF q, c
<1>3. q \in Seq(C) /\ Len(q) = c
  BY <1>1, <1>2
<1>4. ASSUME NEW m \in 1..c, NEW n \in 1..c, m # n
      PROVE  q[m] # q[n]
  <2>1. m < n \/ n < m
    BY <1>4
  <2>2. q[m] \in CardIds /\ q[n] \in CardIds
    BY <1>1
  <2> QED BY <1>1, <2>1, <2>2, AheadOrders
<1> QED BY <1>3, <1>4 DEF q, c

(* gpu_desired gives cards there are, each once; an unmanaged session none.*)
LEMMA GpuLists ==
  ASSUME NEW s, NEW mode
  PROVE  /\ GpuDesired(s, mode).list \in Device
         /\ GpuDesired(s, mode).bailed \in BOOLEAN
         /\ \A m, n \in 1..Len(GpuDesired(s, mode).list) :
              m # n
                => GpuDesired(s, mode).list[m] # GpuDesired(s, mode).list[n]
<1> DEFINE managed == /\ mode # "off" /\ Len(Cards) >= 2 /\ ~s.nonPci
                      /\ IntegratedCard # {}
           integrated == CHOOSE i \in IntegratedCard : TRUE
           list == Listed(s, mode, integrated)
           given == GpuDesired(s, mode)
<1>1. \/ given = [list |-> <<>>, bailed |-> managed]
      \/ managed /\ given = [list |-> list, bailed |-> FALSE]
  BY DEF GpuDesired
<1>2. ASSUME managed
      PROVE  /\ list \in Seq(CardIds)
             /\ \A m, n \in 1..Len(list) : m # n => list[m] # list[n]
  <2> DEFINE discretes == CardIds \ {integrated}
             best == InOrder(s, discretes)[1]
             primary ==
               IF mode = "dgpu" \/ (mode = "auto" /\ Displays(s, best))
               THEN best ELSE integrated
             kept == {i \in discretes \ {primary} :
                        mode = "auto" \/ Displays(s, i)}
             second == IF primary = integrated THEN <<>> ELSE <<integrated>>
             rest == InOrder(s, kept)
  <2>1. list = <<primary>> \o second \o rest
    BY DEF Listed
  <2>2. integrated \in CardIds
    BY <1>2 DEF IntegratedCard
  <2> HIDE DEF integrated
  <2>3. best \in discretes
    <3>1. IsFiniteSet(CardIds) /\ Cardinality(CardIds) >= 2
      BY <1>2, GpuAssumption, FS_Interval DEF CardIds
    <3>2. Cardinality(discretes) >= 1 /\ Cardinality(discretes) \in Nat
      <4>1. Cardinality(discretes) = Cardinality(CardIds) - 1
        BY <2>2, <3>1, FS_RemoveElement
      <4>2. Cardinality(CardIds) \in Nat
        BY <3>1, FS_CardinalityType
      <4> QED BY <3>1, <4>1, <4>2
    <3> DEFINE q == InOrder(s, discretes)
    <3>3. q \in Seq(discretes) /\ Len(q) = Cardinality(discretes)
      BY Ordered
    <3> HIDE DEF q, discretes
    <3>4. q[1] \in discretes
      BY <3>2, <3>3
    <3> QED BY <3>4 DEF q
  <2> HIDE DEF best
  <2>4. primary \in CardIds /\ primary \in discretes \cup {integrated}
    BY <2>2, <2>3
  <2>5. /\ kept \in SUBSET CardIds
        /\ primary \notin kept /\ integrated \notin kept
    BY <2>4
  <2> HIDE DEF primary
  <2>6. second = <<>> \/ (second = <<integrated>> /\ primary # integrated)
    OBVIOUS
  <2> HIDE DEF kept, discretes, second
  <2>7. /\ rest \in Seq(kept) /\ Len(rest) = Cardinality(kept)
        /\ \A m, n \in 1..Cardinality(kept) : m # n => rest[m] # rest[n]
    BY <2>5, Ordered
  <2> HIDE DEF rest, list
  <2>8. rest \in Seq(CardIds) /\ Len(rest) \in Nat
        /\ \A n \in 1..Len(rest) : rest[n] \in kept
    BY <2>5, <2>7
  <2>9. CASE second = <<>>
    <3>1. list = <<primary>> \o rest
      BY <2>1, <2>8, <2>9
    <3>2. /\ list \in Seq(CardIds) /\ Len(list) = Len(rest) + 1
          /\ list[1] = primary
          /\ \A n \in 2..Len(list) : n - 1 \in 1..Len(rest)
                                     /\ list[n] = rest[n - 1]
      BY <2>4, <2>8, <3>1
    <3>3. ASSUME NEW m \in 1..Len(list), NEW n \in 1..Len(list), m # n
          PROVE  list[m] # list[n]
      BY <2>5, <2>7, <2>8, <3>2, <3>3
    <3> QED BY <3>2, <3>3
  <2>10. CASE second = <<integrated>> /\ primary # integrated
    <3>1. list = <<primary, integrated>> \o rest
      BY <2>1, <2>8, <2>10
    <3>2. /\ list \in Seq(CardIds) /\ Len(list) = Len(rest) + 2
          /\ list[1] = primary /\ list[2] = integrated
          /\ \A n \in 3..Len(list) : n - 2 \in 1..Len(rest)
                                     /\ list[n] = rest[n - 2]
      BY <2>2, <2>4, <2>8, <3>1
    <3>3. ASSUME NEW m \in 1..Len(list), NEW n \in 1..Len(list), m # n
          PROVE  list[m] # list[n]
      BY <2>5, <2>7, <2>8, <2>10, <3>2, <3>3
    <3> QED BY <3>2, <3>3
  <2> QED BY <2>6, <2>9, <2>10
<1>3. managed \in BOOLEAN
  OBVIOUS
<1> HIDE DEF managed, list, given
<1>4. CASE given = [list |-> <<>>, bailed |-> managed]
  BY <1>3, <1>4 DEF given, Device
<1>5. CASE managed /\ given = [list |-> list, bailed |-> FALSE]
  BY <1>2, <1>5 DEF given, Device
<1> QED BY <1>1, <1>4, <1>5

-----------------------------------------------------------------------------
(* The breadcrumb of a profile resolves as the profile itself does.        *)
LEMMA SameMode ==
  ASSUME NEW word, NEW pref, NEW old, NEW profile
  PROVE  ResolveMode(word, Crumb(pref, old), profile)
           = ResolveMode(word, pref, profile)
BY DEF ResolveMode, Crumb

(* While the machine stands still the same list is wanted, and select      *)
(* wants it too where the breadcrumb is fresh.                             *)
LEMMA SameList ==
  ASSUME UNCHANGED machine
  PROVE  /\ Wanted' = Wanted /\ WantedPin' = WantedPin /\ FreshPref' = FreshPref
         /\ breadcrumb' = Crumb(FreshPref, breadcrumb)
              => GpuDesired(Snapshot, SelectMode(breadcrumb))'.list = Wanted
<1>1. FreshPref' = FreshPref
  BY DEF machine, FreshPref
<1>2. DaemonMode' = DaemonMode
  BY <1>1 DEF machine, DaemonMode
<1>3. Snapshot' = Snapshot
  BY DEF machine, Snapshot
<1>4. Wanted' = Wanted /\ WantedPin' = WantedPin
  BY <1>2, <1>3 DEF Wanted, WantedPin
<1>5. ASSUME breadcrumb' = Crumb(FreshPref, breadcrumb)
      PROVE  GpuDesired(Snapshot, SelectMode(breadcrumb))'.list = Wanted
  <2>1. SelectMode(breadcrumb)' = DaemonMode
    BY <1>5, SameMode DEF machine, SelectMode, DaemonMode
  <2> QED BY <1>3, <2>1 DEF Wanted
<1> QED BY <1>1, <1>4, <1>5

(* The check leaves the context's other fields alone, and a session that   *)
(* is adrift has been told, unless the minute swallowed it.                *)
LEMMA Checked ==
  ASSUME GpuInv, DriftAndPin
  PROVE  /\ DOMAIN gctx' = GpuFields
         /\ gctx'.notified \in {gctx.notified, Wanted, <<>>}
         /\ gctx'.notified # <<>> => gctx'.notified \in told'
         /\ Adrift(gctx', Wanted) /\ ~swallowed' => Wanted \in told'
         /\ swallowed' \in BOOLEAN /\ reach' \in BOOLEAN /\ blind' = FALSE
         /\ reach' => reach
         /\ reach' /\ gctx'.pinned # "none" =>
              dgpuPin' = gctx'.pinned /\ gctx'.pinned = WantedPin
<1>1. PICK c \in Actual(gctx) :
        LET d == DriftChecked(c, Wanted) IN
          /\ PinSynced(d, WantedPin)
          /\ told' = IF Silent(c, Wanted) THEN told
                     ELSE IF Wanted = c.actual THEN {}
                     ELSE IF d # c THEN told \cup {Wanted} ELSE told
          /\ swallowed' = (Adrift(c, Wanted) /\ d = c /\ c.notified # Wanted)
  BY DEF DriftAndPin, WantedPin
<1> DEFINE d == DriftChecked(c, Wanted)
<1>2. /\ DOMAIN c = GpuFields /\ c.notified = gctx.notified
      /\ c.pinned = gctx.pinned
  BY DEF Actual, GpuInv, GpuFields
<1>3. /\ DOMAIN d = GpuFields /\ d.pinned = c.pinned
      /\ d.pending = c.pending /\ d.managed = c.managed /\ d.actual = c.actual
      /\ d.notified \in {c.notified, Wanted, <<>>}
  BY <1>2 DEF DriftChecked, GpuFields
<1>4. /\ d.notified # <<>> => d.notified \in told'
      /\ Adrift(c, Wanted) /\ ~swallowed' => Wanted \in told'
  <2>1. gctx.notified # <<>> => gctx.notified \in told
    BY DEF GpuInv, NoticeGiven
  <2>3. CASE Silent(c, Wanted)
    BY <1>1, <1>2, <2>1, <2>3 DEF DriftChecked, Adrift
  <2>4. CASE ~Silent(c, Wanted) /\ Wanted = c.actual
    BY <1>2, <2>4 DEF DriftChecked, Adrift, GpuFields
  <2>5. CASE ~Silent(c, Wanted) /\ Wanted # c.actual
    BY <1>1, <1>2, <2>1, <2>5 DEF DriftChecked, Adrift, GpuFields, Silent
  <2> QED BY <2>3, <2>4, <2>5
<1> HIDE DEF d
<1>5. /\ DOMAIN gctx' = GpuFields
      /\ gctx'.notified = d.notified /\ gctx'.pending = d.pending
      /\ gctx'.managed = d.managed /\ gctx'.actual = d.actual
      /\ reach' \in BOOLEAN /\ (reach' => reach)
      /\ reach' /\ gctx'.pinned # "none" =>
           dgpuPin' = gctx'.pinned /\ gctx'.pinned = WantedPin
  BY <1>1, <1>2, <1>3 DEF PinSynced, GpuInv, PinKnown, GpuFields, d
<1>6. Adrift(gctx', Wanted) <=> Adrift(c, Wanted)
  BY <1>3, <1>5 DEF Adrift, Silent
<1> QED BY <1>1, <1>2, <1>3, <1>4, <1>5, <1>6 DEF DriftAndPin, Adrift

LEMMA GpuInvInit == GpuInit => GpuInv
<1> SUFFICES ASSUME GpuInit PROVE GpuInv
  OBVIOUS
<1>1. /\ DOMAIN gctx = GpuFields /\ gctx.pinned = "none" /\ gctx.notified = <<>>
      /\ due = TRUE /\ gate = FALSE /\ reach = TRUE
      /\ swallowed = FALSE /\ blind = FALSE
  BY DEF GpuInit, NewGpuContext, GpuFields
<1> QED BY <1>1 DEF GpuInv, CrumbFresh, NoticeGiven, PinKnown, DriftTold,
                    PinFollowsMode, GpuQuiet

(* A restart forgets the notices and the pin, and owes a MonitorsChanged.  *)
LEMMA Restarted ==
  ASSUME gctx' = NewGpuContext, reach' = TRUE, due' = TRUE, gate' = FALSE,
         swallowed' = FALSE, blind' = FALSE
  PROVE  GpuInv' /\ Satisfiable
<1>1. /\ DOMAIN gctx' = GpuFields /\ gctx'.pinned = "none"
      /\ gctx'.notified = <<>>
  BY DEF NewGpuContext, GpuFields
<1> QED BY <1>1 DEF GpuInv, CrumbFresh, NoticeGiven, PinKnown, DriftTold,
                    PinFollowsMode, GpuQuiet, Satisfiable

(* A change of the machine that owes an event of either kind.              *)
LEMMA GpuOwed ==
  ASSUME GpuInv, due' \in BOOLEAN, gate' \in BOOLEAN, due' \/ gate',
         ~due' => breadcrumb' = Crumb(FreshPref', breadcrumb'),
         UNCHANGED <<gctx, told, reach, dgpuPin, swallowed, blind>>
  PROVE  GpuInv' /\ Satisfiable
BY DEF GpuInv, CrumbFresh, NoticeGiven, PinKnown, DriftTold, PinFollowsMode,
       GpuQuiet, Satisfiable

LEMMA GpuInvStep == GpuInv /\ [GpuNext]_gpuVars => GpuInv' /\ Satisfiable
<1> SUFFICES ASSUME GpuInv, [GpuNext]_gpuVars
             PROVE  GpuInv' /\ Satisfiable
  OBVIOUS
<1>1. CASE GpuMonitorsChanged
  <2>1. /\ DriftAndPin /\ UNCHANGED machine /\ UNCHANGED gate /\ due' = FALSE
        /\ breadcrumb' = Crumb(FreshPref, breadcrumb)
    BY <1>1 DEF GpuMonitorsChanged
  <2>2. breadcrumb' = Crumb(FreshPref, breadcrumb')
    BY <2>1 DEF Crumb
  <2>3. /\ Wanted' = Wanted /\ WantedPin' = WantedPin /\ FreshPref' = FreshPref
        /\ GpuDesired(Snapshot, SelectMode(breadcrumb))'.list = Wanted
    BY <2>1, SameList
  <2>4. DriftTold'
    BY <2>1, <2>3, Checked DEF DriftTold
  <2>5. PinFollowsMode'
    BY <2>1, <2>3, Checked DEF PinFollowsMode, WantedPin
  <2> QED BY <2>1, <2>2, <2>3, <2>4, <2>5, Checked
          DEF GpuInv, CrumbFresh, NoticeGiven, PinKnown, Satisfiable
<1>2. CASE DriftGate
  <2>1. /\ DriftAndPin /\ UNCHANGED machine /\ gate' = FALSE
        /\ UNCHANGED due /\ UNCHANGED breadcrumb
    BY <1>2 DEF DriftGate
  <2>2. ~due => breadcrumb' = Crumb(FreshPref, breadcrumb)
    BY <2>1 DEF GpuInv, CrumbFresh
  <2>3. /\ Wanted' = Wanted /\ WantedPin' = WantedPin /\ FreshPref' = FreshPref
        /\ ~due => GpuDesired(Snapshot, SelectMode(breadcrumb))'.list = Wanted
    BY <2>1, <2>2, SameList
  <2>4. DriftTold'
    BY <2>1, <2>3, Checked DEF DriftTold
  <2>5. PinFollowsMode'
    BY <2>1, <2>3, Checked DEF PinFollowsMode, WantedPin
  <2> QED BY <2>1, <2>2, <2>3, <2>4, <2>5, Checked
          DEF GpuInv, CrumbFresh, NoticeGiven, PinKnown, Satisfiable
<1>3. CASE PowerdBack \/ Cooled
  <2>1. /\ DOMAIN gctx' = GpuFields /\ gctx'.notified = gctx.notified
        /\ Adrift(gctx', Wanted) <=> Adrift(gctx, Wanted)
        /\ \/ gctx'.pinned = gctx.pinned /\ reach' = reach
           \/ gctx'.pinned = "none" /\ reach' = TRUE
        /\ UNCHANGED <<due, gate, told, breadcrumb, dgpuPin, swallowed, blind>>
        /\ UNCHANGED machine
    BY <1>3 DEF PowerdBack, Cooled, GpuInv, GpuFields, Adrift, Silent
  <2>2. Wanted' = Wanted /\ WantedPin' = WantedPin /\ FreshPref' = FreshPref
    BY <2>1, SameList
  <2>3. /\ GpuQuiet' = GpuQuiet
        /\ Adrift(gctx', Wanted') <=> Adrift(gctx, Wanted)
        /\ UNCHANGED <<told, swallowed, blind, DaemonMode>>
    <3>1. FreshPref' = FreshPref /\ UNCHANGED <<gpuOverride, platform>>
      BY <2>1, <2>2 DEF machine
    <3>2. DaemonMode' = DaemonMode
      BY <3>1 DEF DaemonMode
    <3> QED BY <2>1, <2>2, <3>2 DEF GpuQuiet
  <2>4. DriftTold'
    BY <2>1, <2>2, <2>3 DEF GpuInv, DriftTold
  <2>5. PinFollowsMode'
    <3>1. PinFollowsMode
      BY DEF GpuInv
    <3>2. CASE gctx'.pinned = "none"
      BY <3>2 DEF PinFollowsMode
    <3>3. CASE gctx'.pinned = gctx.pinned /\ reach' = reach
      BY <2>1, <2>3, <3>1, <3>3 DEF PinFollowsMode
    <3> QED BY <2>1, <3>2, <3>3
  <2>6. /\ UNCHANGED <<due, gate, swallowed, blind>>
        /\ reach' \in BOOLEAN
    BY <2>1 DEF GpuInv
  <2>7. CrumbFresh'
    BY <2>1, <2>2 DEF GpuInv, CrumbFresh
  <2>8. NoticeGiven' /\ Satisfiable
    BY <2>1 DEF GpuInv, NoticeGiven, Satisfiable
  <2>9. PinKnown'
    BY <2>1 DEF GpuInv, PinKnown
  <2> QED BY <2>1, <2>4, <2>5, <2>6, <2>7, <2>8, <2>9 DEF GpuInv
<1>4. CASE Replugged \/ ProfilesEdited
  BY <1>4, GpuOwed DEF Replugged, ProfilesEdited, GpuInv
<1>5. CASE ModeMoved
  <2>1. /\ gate' = TRUE
        /\ UNCHANGED <<due, breadcrumb, prefs, plugged>>
        /\ UNCHANGED <<gctx, told, reach, dgpuPin, swallowed, blind>>
    BY <1>5 DEF ModeMoved
  <2>2. FreshPref' = FreshPref
    BY <2>1 DEF FreshPref
  <2> QED BY <2>1, <2>2, GpuOwed DEF GpuInv, CrumbFresh
<1>6. CASE LidMoved
  <2>1. /\ blind' = TRUE
        /\ UNCHANGED <<plugged, prefs, gpuOverride, platform, due, gate,
                       breadcrumb>>
        /\ UNCHANGED <<gctx, told, reach, dgpuPin, swallowed>>
    BY <1>6 DEF LidMoved
  <2>2. FreshPref' = FreshPref
    BY <2>1 DEF FreshPref
  <2>3. DaemonMode' = DaemonMode
    BY <2>1, <2>2 DEF DaemonMode
  <2>4. PinFollowsMode' /\ DriftTold'
    BY <2>1, <2>3 DEF GpuInv, PinFollowsMode, DriftTold, GpuQuiet
  <2> QED BY <2>1, <2>2, <2>4
          DEF GpuInv, CrumbFresh, NoticeGiven, PinKnown, Satisfiable
<1>7. CASE Relog \/ DaemonRestarts
  BY <1>7, Restarted DEF Relog, DaemonRestarts
<1>8. CASE UNCHANGED gpuVars
  <2>1. UNCHANGED machine
    BY <1>8 DEF gpuVars, machine
  <2>2. Wanted' = Wanted /\ WantedPin' = WantedPin /\ FreshPref' = FreshPref
    BY <2>1, SameList
  <2> QED BY <1>8, <2>2
          DEF gpuVars, GpuInv, CrumbFresh, NoticeGiven, PinKnown, Satisfiable,
              DriftTold, PinFollowsMode, GpuQuiet, WantedPin
<1> QED BY <1>1, <1>2, <1>3, <1>4, <1>5, <1>6, <1>7, <1>8 DEF GpuNext

(* What `gpu select` leaves, and what the check and the pin make of the    *)
(* context.                                                                *)
LEMMA SelectedTyped ==
  ASSUME NEW crumb, NEW l \in Selected(crumb)
  PROVE  l \in [aq : Device, bailed : BOOLEAN]
<1> DEFINE r == GpuDesired(Snapshot, SelectMode(crumb))
<1>1. r.list \in Device /\ r.bailed \in BOOLEAN /\ <<>> \in Device
  BY GpuLists DEF Device
<1>2. l = Left(r.list, r.bailed) \/ l = Left(<<>>, TRUE)
  BY DEF Selected
<1>3. \A list \in Device, b \in BOOLEAN :
        Left(list, b) \in [aq : Device, bailed : BOOLEAN]
  BY DEF Left
<1> HIDE DEF r
<1> QED BY <1>1, <1>2, <1>3

LEMMA CheckTyped ==
  ASSUME GpuTypeOK, DriftAndPin
  PROVE  /\ gctx' \in GpuContext /\ dgpuPin' \in {"awake", "auto"}
         /\ reach' \in BOOLEAN /\ gmoves' \in 0..MaxGpuMoves
         /\ told' \in SUBSET Device
         /\ swallowed' \in BOOLEAN /\ blind' \in BOOLEAN
<1> DEFINE pin == IF DaemonMode = "dgpu" THEN "awake" ELSE "auto"
<1>1. PICK c \in Actual(gctx) :
        LET d == DriftChecked(c, Wanted) IN
          /\ PinSynced(d, pin)
          /\ told' = IF Silent(c, Wanted) THEN told
                     ELSE IF Wanted = c.actual THEN {}
                     ELSE IF d # c THEN told \cup {Wanted} ELSE told
          /\ swallowed' = (Adrift(c, Wanted) /\ d = c /\ c.notified # Wanted)
  BY DEF DriftAndPin
<1>2. /\ gctx \in GpuContext /\ session.aq \in Device
      /\ session.bailed \in BOOLEAN /\ dgpuPin \in {"awake", "auto"}
      /\ reach \in BOOLEAN /\ gmoves \in 0..MaxGpuMoves
      /\ told \in SUBSET Device
  BY DEF GpuTypeOK
<1>3. Wanted \in Device /\ <<>> \in Device
  BY GpuLists DEF Wanted, Device
<1>4. c \in GpuContext
  <2>1. CASE c = gctx
    BY <1>2, <2>1
  <2>2. CASE c = [gctx EXCEPT !.pending = FALSE, !.actual = AqDevices,
                              !.managed = AqDevices # <<>> \/ session.bailed]
    <3>1. PICK b \in BOOLEAN : b = (AqDevices # <<>> \/ session.bailed)
      OBVIOUS
    <3>2. c = [gctx EXCEPT !.pending = FALSE, !.actual = AqDevices,
                           !.managed = b]
      BY <2>2, <3>1
    <3> QED BY <1>2, <3>2 DEF GpuContext, AqDevices
  <2> QED BY <1>1, <2>1, <2>2 DEF Actual
<1> DEFINE d == DriftChecked(c, Wanted)
<1>5. d \in GpuContext
  BY <1>3, <1>4 DEF DriftChecked, GpuContext
<1> HIDE DEF d
<1>6. PinSynced(d, pin) /\ pin \in {"awake", "auto"}
  BY <1>1 DEF d
<1> HIDE DEF pin
<1>7. /\ gctx' \in GpuContext /\ dgpuPin' \in {"awake", "auto"}
      /\ reach' \in BOOLEAN /\ gmoves' \in 0..MaxGpuMoves
  <2>1. MaxGpuMoves \in Nat
    BY GpuAssumption
  <2>2. gctx' = d \/ gctx' = [d EXCEPT !.pinned = pin]
    BY <1>6 DEF PinSynced
  <2>3. gctx' \in GpuContext
    BY <1>5, <1>6, <2>2 DEF GpuContext
  <2>4. dgpuPin' \in {dgpuPin, pin} /\ reach' \in {reach, FALSE}
    BY <1>6 DEF PinSynced
  <2>5. gmoves' = gmoves \/ (gmoves < MaxGpuMoves /\ gmoves' = gmoves + 1)
    BY <1>6 DEF PinSynced
  <2>6. gmoves' \in 0..MaxGpuMoves
    BY <1>2, <2>1, <2>5
  <2> QED BY <1>2, <1>6, <2>3, <2>4, <2>6
<1>8. told' \in SUBSET Device
  BY <1>1, <1>2, <1>3
<1>9. swallowed' \in BOOLEAN /\ blind' \in BOOLEAN
  BY <1>1 DEF DriftAndPin
<1> QED BY <1>7, <1>8, <1>9

LEMMA NewContextTyped == NewGpuContext \in GpuContext
<1>1. <<>> \in Device
  BY DEF Device
<1> QED BY <1>1 DEF NewGpuContext, GpuContext

LEMMA TypesStart == GpuInit => GpuTypeOK
<1> SUFFICES ASSUME GpuInit PROVE GpuTypeOK
  OBVIOUS
<1>1. session \in [aq : Device, bailed : BOOLEAN]
  BY SelectedTyped DEF GpuInit
<1>2. gmoves \in 0..MaxGpuMoves
  BY GpuAssumption DEF GpuInit
<1> QED BY <1>1, <1>2, NewContextTyped DEF GpuInit, GpuTypeOK

LEMMA TypesKept == GpuTypeOK /\ [GpuNext]_gpuVars => GpuTypeOK'
<1> SUFFICES ASSUME GpuTypeOK, [GpuNext]_gpuVars PROVE GpuTypeOK'
  OBVIOUS
<1>1. MaxGpuMoves \in Nat
  BY GpuAssumption
<1>2. ASSUME GpuMoves PROVE gmoves' \in 0..MaxGpuMoves
  BY <1>1, <1>2 DEF GpuMoves, GpuTypeOK
<1>3. CASE GpuMonitorsChanged
  <2>1. breadcrumb' \in {"none", "igpu", "dgpu"}
    BY <1>3 DEF GpuMonitorsChanged, Crumb
  <2> QED BY <1>3, <2>1, CheckTyped DEF GpuMonitorsChanged, machine, GpuTypeOK
<1>4. CASE DriftGate
  BY <1>4, CheckTyped DEF DriftGate, machine, GpuTypeOK
<1>5. CASE PowerdBack \/ Cooled
  <2>1. gctx' \in GpuContext
    BY <1>5 DEF PowerdBack, Cooled, GpuTypeOK, GpuContext
  <2> QED BY <1>5, <2>1 DEF PowerdBack, Cooled, machine, GpuTypeOK
<1>6. CASE Replugged
  BY <1>2, <1>6 DEF Replugged, GpuTypeOK
<1>7. CASE ProfilesEdited
  BY <1>2, <1>7 DEF ProfilesEdited, GpuTypeOK
<1>8. CASE LidMoved
  BY <1>2, <1>8 DEF LidMoved, GpuTypeOK
<1>9. CASE ModeMoved
  BY <1>2, <1>9 DEF ModeMoved, GpuTypeOK
<1>10. CASE Relog \/ DaemonRestarts
  <2>1. session' \in [aq : Device, bailed : BOOLEAN]
    BY <1>10, SelectedTyped DEF Relog, DaemonRestarts, GpuTypeOK
  <2> QED BY <1>2, <1>10, <2>1, NewContextTyped
          DEF Relog, DaemonRestarts, machine, GpuTypeOK
<1>11. CASE UNCHANGED gpuVars
  BY <1>11 DEF gpuVars, GpuTypeOK
<1> QED BY <1>3, <1>4, <1>5, <1>6, <1>7, <1>8, <1>9, <1>10, <1>11 DEF GpuNext

-----------------------------------------------------------------------------
(* The breadcrumb, the notices and the pin always agree with what the      *)
(* daemon has handled.                                                     *)
THEOREM GpuInvHolds == GpuSpec => []GpuInv
BY GpuInvInit, GpuInvStep, PTL DEF GpuSpec

(* For any cards, monitors and mode: the list handed to the compositor     *)
(* holds cards of this machine only, and none of them twice (gpu_desired). *)
THEOREM ListsEachOnce ==
  ASSUME NEW s, NEW mode
  PROVE  LET list == GpuDesired(s, mode).list
         IN  /\ list \in Seq(CardIds)
             /\ \A m, n \in 1..Len(list) : m # n => list[m] # list[n]
BY GpuLists DEF Device

(* Every variable keeps its type: in particular every list the session     *)
(* runs on, and every list advised, is one of this machine's cards.        *)
THEOREM GpuTypeCorrect == GpuSpec => []GpuTypeOK
BY TypesStart, TypesKept, PTL DEF GpuSpec

(* For any cards and profiles: what the daemon advises (resolving with the *)
(* profile it matched) is what `gpu select` would choose at the next login *)
(* (resolving with the breadcrumb), unless a hotplug is still on its way.  *)
THEOREM AdviceAlwaysSatisfiable == GpuSpec => AdviceSatisfiable
<1>1. GpuInv /\ [GpuNext]_gpuVars => [Satisfiable]_gpuVars
  BY GpuInvStep
<1> QED BY <1>1, GpuInvHolds, PTL DEF GpuSpec, AdviceSatisfiable, Satisfiable

(* For any cards and profiles: a session on another list than the machine  *)
(* calls for has been told so (check_and_notify_drift).                    *)
THEOREM DriftAlwaysTold == GpuSpec => []DriftTold
<1>1. GpuInv => DriftTold
  BY DEF GpuInv
<1> QED BY <1>1, GpuInvHolds, PTL

(* Whatever calls failed and however often powerd came and went, a pin the *)
(* daemon believes in is powerd's, and the mode's (sync_dgpu_pin).         *)
THEOREM PinAlwaysFollowsMode == GpuSpec => []PinFollowsMode
<1>1. GpuInv => PinFollowsMode
  BY DEF GpuInv
<1> QED BY <1>1, GpuInvHolds, PTL
=============================================================================
