--------------------------- MODULE OutputsProofs ---------------------------
(***************************************************************************)
(* Theorems about Outputs, for any finite profile directory, any layouts   *)
(* and edits, any capacity of the worker's channel and any number of moves *)
(* of the world: every variable keeps its type; whoever moved the link,    *)
(* its profile comes into force; a panel that policy wants on is on once   *)
(* nothing is on its way; and the panel never goes off before its marker   *)
(* is in place.                                                            *)
(***************************************************************************)
EXTENDS Outputs, FiniteSetTheorems, TLAPS

ContextFields == {"state", "lid", "ext", "edp", "cur", "rev"}
WorkerFields  == {"at", "on", "disabled"}

(* The events whose handlers re-assert the panel, and those whose handlers *)
(* adopt the link, unless the machine is asleep.                           *)
Announcing == {"reloaded", "applied"}
Adopting   == Announcing \cup {"tick"}

Bringing(q, K) == \E n \in 1..Len(q) : q[n].kind \in K

Adoptable(c) == link = NoProfile \/ c.cur = link

(* Awake, the machine is in the state its inputs call for.                 *)
Coherent == Awake => ctx.state = WorldState(World(ctx))

(* A link that is not in force has something on its way that will adopt    *)
(* it: a reload, an event, a pass of the reconciler, or the wake after     *)
(* which there is a pass.                                                  *)
LinkOwed ==
  \/ Adoptable(ctx) \/ cli \/ pass \/ ctx.state = "Suspending"
  \/ Bringing(queue, Adopting)

(* Only `profile switch` moves the link behind the daemon's back, so a     *)
(* link that is not in force has a reload announced or to come: no pass    *)
(* adopts a profile without a re-assertion after it, or one was lost.      *)
SwitchOwed ==
  Adoptable(ctx) \/ cli \/ lost \/ Bringing(queue, {"reloaded"})

(* What a sequence of commands does to the panel: it applies a profile,    *)
(* never asks for the panel to go off, or ends by asking for it on.        *)
Applying(s) == \E n \in 1..Len(s) : s[n].kind = "apply"

AllOn(s) == \A n \in 1..Len(s) : s[n].kind = "edp" => s[n].on

LastOn(s) ==
  \E n \in 1..Len(s) :
    /\ s[n].kind = "edp" /\ s[n].on
    /\ \A m \in 1..Len(s) : m > n /\ s[m].kind = "edp" => s[m].on

(* The panel is on, or the worker is about to turn it on.                  *)
WorkerOn ==
  IF worker = Idle THEN panel ELSE worker.on /\ (worker.disabled \/ panel)

(* A panel that is to be on has a re-assertion on its way, an apply that   *)
(* announces one, a command that turns it on last, or is on.               *)
PanelOwed ==
  Awake /\ ShouldBeOn(ctx) /\ ~lost =>
    \/ cli \/ Bringing(queue, Announcing)
    \/ Applying(cmds) \/ LastOn(cmds) \/ (WorkerOn /\ AllOn(cmds))

(* Past its second step the worker has written the marker it was to write. *)
MarkerFirst ==
  \/ worker = Idle
  \/ /\ DOMAIN worker = WorkerFields
     /\ worker.at = "marked" => marker = ~worker.on

(* Whatever is not yet as it should be has something on its way.           *)
Owed == TypeOK /\ Coherent /\ LinkOwed /\ SwitchOwed /\ PanelOwed

Inv == Owed /\ MarkerFirst

-----------------------------------------------------------------------------
(* Lemmas about the operators of the model.                                *)

(* Of the profiles that match there is always a best one, so that Select   *)
(* chooses one: a minimal set without one would stay one when a member is  *)
(* taken away.                                                             *)
LEMMA BestMatch ==
  ASSUME NEW S \in SUBSET Profiles, S # {}
  PROVE  \E p \in S : \A q \in S : Rank[q] <= Rank[p]
<1> DEFINE HasBest(U) == \E p \in U : \A q \in U : Rank[q] <= Rank[p]
           Bad == {U \in SUBSET Profiles : U # {} /\ ~HasBest(U)}
<1>1. Rank \in [Profiles -> Nat] /\ IsFiniteSet(Profiles)
  BY OutputsAssumption
<1>2. Bad \subseteq FiniteSubsetsOf(Profiles)
  BY <1>1, FS_FiniteSubsetsOfFinite
<1>3. ASSUME Bad # {} PROVE FALSE
  <2>1. PICK U \in Bad :
          \A V \in Bad : <<V, U>> \notin StrictSubsetOrdering(Profiles)
    BY <1>2, <1>3, WFMin, FS_StrictSubsetOrderingWellFounded
  <2>2. PICK x \in U : TRUE
    OBVIOUS
  <2> DEFINE V == U \ {x}
  <2>3. V \notin Bad
    BY <2>1, <2>2 DEF StrictSubsetOrdering
  <2>4. V = {} \/ HasBest(V)
    BY <2>3
  <2>5. HasBest(U)
    <3>1. CASE V = {}
      <4>1. U = {x}
        BY <2>2, <3>1
      <4> QED BY <1>1, <4>1
    <3>2. ASSUME NEW y \in V, \A q \in V : Rank[q] <= Rank[y]
          PROVE  HasBest(U)
      <4>1. CASE Rank[x] <= Rank[y]
        BY <3>2, <4>1
      <4>2. CASE Rank[y] <= Rank[x]
        <5>1. \A q \in U : Rank[q] <= Rank[x]
          BY <1>1, <2>2, <3>2, <4>2
        <5> QED BY <2>2, <5>1
      <4>3. Rank[x] <= Rank[y] \/ Rank[y] <= Rank[x]
        BY <1>1, <2>2, <3>2
      <4> QED BY <4>1, <4>2, <4>3
    <3> QED BY <2>4, <3>1, <3>2
  <2> QED BY <2>5
<1> QED BY <1>3

(* select_profile's best match is a match, and no other ranks above it.    *)
LEMMA Selected ==
  ASSUME NEW sig, Matching(sig) # {}
  PROVE  /\ Select(sig) \in Matching(sig)
         /\ \A q \in Matching(sig) : Rank[q] <= Rank[Select(sig)]
<1>1. \E p \in Matching(sig) : \A q \in Matching(sig) : Rank[q] <= Rank[p]
  BY BestMatch DEF Matching
<1> QED BY <1>1 DEF Select

(* The values the model passes around are of their kinds.                  *)
LEMMA Evs ==
  \A k \in {"hotplug", "reloaded", "applied", "monitors", "profiles",
            "expired", "resumed"} : Ev(k) \in Event /\ Ev(k).kind = k
BY DEF Ev, Event

(* world_state never asks for a suspend; desired_state gives a state.      *)
LEMMA Derived ==
  ASSUME NEW c \in Context, NEW kind \in EventKind
  PROVE  /\ WorldState(World(c)) \in State \ {"Suspending"}
         /\ DesiredState(c.state, kind, World(c)) \in State
<1>1. World(c) \in WorldInputs
  BY DEF World, WorldInputs, Context
<1>2. WorldState(World(c)) \in State \ {"Suspending"}
  BY <1>1 DEF WorldState, WorldInputs, State
<1> QED BY <1>2 DEF DesiredState, EventKind, State, Context

LEMMA Commands ==
  /\ \A b \in BOOLEAN : [kind |-> "edp", on |-> b] \in Command
  /\ Ev("apply") \in Command /\ Ev("rehome") \in Command
  /\ Ev("apply").kind = "apply" /\ Ev("rehome").kind = "rehome"
BY DEF Command, Ev

(* What entering a state sends is commands.                                *)
LEMMA Enters ==
  ASSUME NEW c
  PROVE  OnEnter(c) \in Seq(Command)
<1> DEFINE on == c.state = "LidOpen"
           edp == [kind |-> "edp", on |-> Resolved(c, on)]
<1>1. edp \in Command
  BY Commands DEF Resolved
<1>2. OnEnter(c) = <<>> \/ OnEnter(c) = <<edp>>
  BY DEF OnEnter, SetEdp
<1> HIDE DEF edp
<1>3. <<edp>> \in Seq(Command) /\ <<>> \in Seq(Command)
  BY <1>1
<1> QED BY <1>2, <1>3

(* try_send: what is not dropped is there in order.                        *)
LEMMA Sent ==
  ASSUME cmds \in Seq(Command), Len(cmds) <= MaxCmds, lost \in BOOLEAN,
         NEW new \in Seq(Command), Send(new)
  PROVE  /\ cmds' \in Seq(Command) /\ Len(cmds') <= MaxCmds
         /\ lost' \in BOOLEAN
         /\ ~lost' => ~lost /\ cmds' = cmds \o new
<1> DEFINE fits == IF Len(new) <= MaxCmds - Len(cmds) THEN Len(new)
                   ELSE MaxCmds - Len(cmds)
           part == SubSeq(new, 1, fits)
<1>1. /\ Len(new) \in Nat /\ Len(cmds) \in Nat /\ MaxCmds \in Nat
      /\ fits \in 0..Len(new) /\ fits <= MaxCmds - Len(cmds)
  BY OutputsAssumption
<1>2. cmds' = cmds \o part /\ lost' = (lost \/ fits < Len(new))
  BY DEF Send
<1> HIDE DEF fits
<1>3. part \in Seq(Command) /\ Len(part) = fits
  BY <1>1
<1>4. fits = Len(new) => part = new
  BY <1>1
<1> HIDE DEF part
<1>5. /\ cmds \o part \in Seq(Command)
      /\ Len(cmds \o part) = Len(cmds) + Len(part)
  BY <1>3
<1>6. Len(cmds) + fits <= MaxCmds
  BY <1>1
<1>7. cmds' \in Seq(Command) /\ Len(cmds') <= MaxCmds
  BY <1>2, <1>3, <1>5, <1>6
<1>8. lost' \in BOOLEAN
  BY <1>2
<1>9. ASSUME ~lost' PROVE ~lost /\ cmds' = cmds \o new
  <2>1. ~lost /\ ~(fits < Len(new))
    BY <1>2, <1>9
  <2>2. fits = Len(new)
    BY <1>1, <2>1
  <2> QED BY <1>2, <1>4, <2>1, <2>2
<1> QED BY <1>7, <1>8, <1>9

LEMMA HotplugTyped == \A b \in BOOLEAN : Hotplug(b) \in Seq(Event)
<1>1. Ev("hotplug") \in Event
  BY Evs
<1> QED BY <1>1 DEF Hotplug

(* What is appended brings what it is, and what was there still comes.     *)
LEMMA Appended ==
  ASSUME NEW q \in Seq(Event), NEW e \in Event, NEW K
  PROVE  /\ Append(q, e) \in Seq(Event)
         /\ Bringing(q, K) => Bringing(Append(q, e), K)
         /\ e.kind \in K => Bringing(Append(q, e), K)
<1>1. /\ Append(q, e) \in Seq(Event) /\ Len(Append(q, e)) = Len(q) + 1
      /\ Len(q) \in Nat
      /\ \A n \in 1..Len(q) : Append(q, e)[n] = q[n]
      /\ Append(q, e)[Len(q) + 1] = e
  OBVIOUS
<1> QED BY <1>1 DEF Bringing

LEMMA Joined ==
  ASSUME NEW q \in Seq(Event), NEW r \in Seq(Event), NEW K
  PROVE  q \o r \in Seq(Event) /\ (Bringing(q, K) => Bringing(q \o r, K))
<1>1. /\ q \o r \in Seq(Event) /\ Len(q \o r) = Len(q) + Len(r)
      /\ Len(q) \in Nat /\ Len(r) \in Nat
      /\ \A n \in 1..Len(q) : (q \o r)[n] = q[n]
  OBVIOUS
<1> QED BY <1>1 DEF Bringing

(* Taking an event that adopts nothing leaves the others to come.          *)
LEMMA Taken ==
  ASSUME NEW q \in Seq(Event), q # <<>>, NEW K
  PROVE  /\ Tail(q) \in Seq(Event)
         /\ Bringing(q, K) /\ Head(q).kind \notin K => Bringing(Tail(q), K)
<1>1. /\ Tail(q) \in Seq(Event) /\ Len(Tail(q)) = Len(q) - 1
      /\ Len(q) \in Nat /\ Len(q) > 0 /\ Head(q) = q[1]
      /\ \A n \in 1..Len(q) - 1 : Tail(q)[n] = q[n + 1]
  OBVIOUS
<1>2. ASSUME Bringing(q, K), Head(q).kind \notin K
      PROVE  Bringing(Tail(q), K)
  <2>1. PICK n \in 1..Len(q) : q[n].kind \in K
    BY <1>2 DEF Bringing
  <2>2. n - 1 \in 1..Len(q) - 1 /\ Tail(q)[n - 1] = q[n]
    BY <1>1, <1>2, <2>1
  <2> QED BY <1>1, <2>1, <2>2 DEF Bringing
<1> QED BY <1>1, <1>2

(* What commands in front and behind do to a sequence of them.             *)
LEMMA NoneOn == AllOn(<<>>)
BY DEF AllOn

LEMMA OneOn ==
  ASSUME NEW on, on = TRUE
  PROVE  LastOn(<<[kind |-> "edp", on |-> on]>>)
BY DEF LastOn

LEMMA Followed ==
  ASSUME NEW s \in Seq(Command), NEW t \in Seq(Command)
  PROVE  /\ Applying(s) \/ Applying(t) => Applying(s \o t)
         /\ AllOn(s) /\ AllOn(t) => AllOn(s \o t)
         /\ LastOn(t) \/ (LastOn(s) /\ AllOn(t)) => LastOn(s \o t)
<1> DEFINE u == s \o t
<1>1. /\ u \in Seq(Command) /\ Len(u) = Len(s) + Len(t)
      /\ Len(s) \in Nat /\ Len(t) \in Nat
      /\ \A n \in 1..Len(s) : u[n] = s[n]
      /\ \A n \in 1..Len(t) : u[Len(s) + n] = t[n]
  OBVIOUS
<1> HIDE DEF u
<1>2. ASSUME NEW n \in 1..Len(u)
      PROVE  n \in 1..Len(s) \/ (n - Len(s) \in 1..Len(t)
                                  /\ u[n] = t[n - Len(s)])
  BY <1>1
<1>3. Applying(s) \/ Applying(t) => Applying(u)
  <2>1. ASSUME NEW n \in 1..Len(s), s[n].kind = "apply" PROVE Applying(u)
    <3>1. n \in 1..Len(u) /\ u[n] = s[n]
      BY <1>1
    <3> QED BY <2>1, <3>1 DEF Applying
  <2>2. ASSUME NEW n \in 1..Len(t), t[n].kind = "apply" PROVE Applying(u)
    <3>1. Len(s) + n \in 1..Len(u) /\ u[Len(s) + n] = t[n]
      BY <1>1
    <3> QED BY <2>2, <3>1 DEF Applying
  <2> QED BY <2>1, <2>2 DEF Applying
<1>4. AllOn(s) /\ AllOn(t) => AllOn(u)
  BY <1>1, <1>2 DEF AllOn
<1>5. ASSUME LastOn(t) PROVE LastOn(u)
  <2>1. PICK n \in 1..Len(t) :
          /\ t[n].kind = "edp" /\ t[n].on
          /\ \A m \in 1..Len(t) : m > n /\ t[m].kind = "edp" => t[m].on
    BY <1>5 DEF LastOn
  <2>2. ASSUME NEW m \in 1..Len(u), m > Len(s) + n, u[m].kind = "edp"
        PROVE  u[m].on
    <3>1. m - Len(s) \in 1..Len(t) /\ u[m] = t[m - Len(s)] /\ m - Len(s) > n
      BY <1>1, <1>2, <2>1, <2>2
    <3> QED BY <2>1, <2>2, <3>1
  <2>3. Len(s) + n \in 1..Len(u) /\ u[Len(s) + n] = t[n]
    BY <1>1, <2>1
  <2> QED BY <2>1, <2>2, <2>3 DEF LastOn
<1>6. ASSUME LastOn(s), AllOn(t) PROVE LastOn(u)
  <2>1. PICK n \in 1..Len(s) :
          /\ s[n].kind = "edp" /\ s[n].on
          /\ \A m \in 1..Len(s) : m > n /\ s[m].kind = "edp" => s[m].on
    BY <1>6 DEF LastOn
  <2>2. ASSUME NEW m \in 1..Len(u), m > n, u[m].kind = "edp"
        PROVE  u[m].on
    BY <1>1, <1>2, <1>6, <2>1, <2>2 DEF AllOn
  <2>3. n \in 1..Len(u) /\ u[n] = s[n]
    BY <1>1, <2>1
  <2> QED BY <2>1, <2>2, <2>3 DEF LastOn
<1> QED BY <1>3, <1>4, <1>5, <1>6 DEF u

(* What is left when the worker has taken one.                             *)
LEMMA Received ==
  ASSUME NEW s \in Seq(Command), s # <<>>
  PROVE  /\ Tail(s) \in Seq(Command) /\ Len(Tail(s)) < Len(s)
         /\ Head(s) \in Command
         /\ Applying(s) /\ Head(s).kind # "apply" => Applying(Tail(s))
         /\ AllOn(s) => AllOn(Tail(s)) /\ (Head(s).kind = "edp" => Head(s).on)
         /\ LastOn(s) => \/ LastOn(Tail(s))
                         \/ /\ Head(s).kind = "edp" /\ Head(s).on
                            /\ AllOn(Tail(s))
<1>1. /\ Tail(s) \in Seq(Command) /\ Len(Tail(s)) = Len(s) - 1
      /\ Len(s) \in Nat /\ Len(s) > 0 /\ Head(s) = s[1] /\ s[1] \in Command
      /\ \A n \in 1..Len(s) - 1 : Tail(s)[n] = s[n + 1]
  OBVIOUS
<1> DEFINE t == Tail(s)
<1> HIDE DEF t
<1>2. ASSUME NEW n \in 1..Len(s), n # 1
      PROVE  n - 1 \in 1..Len(t) /\ t[n - 1] = s[n]
  BY <1>1, <1>2 DEF t
<1>3. ASSUME NEW n \in 1..Len(t)
      PROVE  n + 1 \in 1..Len(s) /\ t[n] = s[n + 1]
  BY <1>1, <1>3 DEF t
<1>4. Applying(s) /\ Head(s).kind # "apply" => Applying(t)
  BY <1>1, <1>2 DEF Applying
<1>5. AllOn(s) => AllOn(t) /\ (Head(s).kind = "edp" => Head(s).on)
  BY <1>1, <1>3 DEF AllOn
<1>6. ASSUME LastOn(s)
      PROVE  \/ LastOn(t)
             \/ Head(s).kind = "edp" /\ Head(s).on /\ AllOn(t)
  <2>1. PICK n \in 1..Len(s) :
          /\ s[n].kind = "edp" /\ s[n].on
          /\ \A m \in 1..Len(s) : m > n /\ s[m].kind = "edp" => s[m].on
    BY <1>6 DEF LastOn
  <2>2. CASE n = 1
    <3>1. AllOn(t)
      BY <1>1, <1>3, <2>1, <2>2 DEF AllOn
    <3> QED BY <1>1, <2>1, <2>2, <3>1
  <2>3. CASE n # 1
    <3>1. ASSUME NEW m \in 1..Len(t), m > n - 1, t[m].kind = "edp"
          PROVE  t[m].on
      <4>1. m + 1 > n
        BY <3>1
      <4> QED BY <1>3, <2>1, <3>1, <4>1
    <3> QED BY <1>2, <2>1, <2>3, <3>1 DEF LastOn
  <2> QED BY <2>2, <2>3
<1> QED BY <1>1, <1>4, <1>5, <1>6 DEF t

(* One field of the context is set, the others stand.                      *)
LEMMA ContextSet ==
  ASSUME NEW c \in Context
  PROVE  /\ \A b \in BOOLEAN : /\ [c EXCEPT !.lid = b] \in Context
                               /\ [c EXCEPT !.lid = b].state = c.state
                               /\ [c EXCEPT !.lid = b].edp = c.edp
                               /\ [c EXCEPT !.lid = b].cur = c.cur
         /\ \A b \in BOOLEAN : /\ [c EXCEPT !.ext = b] \in Context
                               /\ [c EXCEPT !.ext = b].state = c.state
                               /\ [c EXCEPT !.ext = b].edp = c.edp
                               /\ [c EXCEPT !.ext = b].cur = c.cur
         /\ \A s \in State : /\ [c EXCEPT !.state = s] \in Context
                             /\ [c EXCEPT !.state = s].state = s
                             /\ [c EXCEPT !.state = s].edp = c.edp
                             /\ [c EXCEPT !.state = s].cur = c.cur
                             /\ World([c EXCEPT !.state = s]) = World(c)
BY DEF Context, World

(* Adopting a profile moves neither the state nor what it is derived from. *)
LEMMA Ingests ==
  ASSUME NEW c \in Context, link \in Profiles \cup {NoProfile},
         dir \in [Profiles -> EdpPolicy]
  PROVE  /\ \A p \in Profiles : /\ Adopted(c, p) \in Context
                                /\ Adopted(c, p).state = c.state
                                /\ Adopted(c, p).cur = p
                                /\ World(Adopted(c, p)) = World(c)
         /\ Ingest(c) \in Context /\ Ingest(c).state = c.state
         /\ World(Ingest(c)) = World(c) /\ Adoptable(Ingest(c))
         /\ Adoptable(c) <=> Ingest(c) = c
<1>1. ASSUME NEW p \in Profiles
      PROVE  /\ Adopted(c, p) \in Context /\ Adopted(c, p).state = c.state
             /\ Adopted(c, p).cur = p /\ World(Adopted(c, p)) = World(c)
  <2>1. dir[p] \in EdpPolicy
    OBVIOUS
  <2> QED BY <2>1 DEF Adopted, Context, World
<1>2. Adoptable(c) => Ingest(c) = c
  BY DEF Adoptable, Ingest
<1>3. ASSUME ~Adoptable(c)
      PROVE  link \in Profiles /\ Ingest(c) = Adopted(c, link)
  BY <1>3 DEF Adoptable, Ingest
<1>4. CASE Adoptable(c)
  BY <1>1, <1>2, <1>4
<1>5. CASE ~Adoptable(c)
  <2>1. Adoptable(Ingest(c)) /\ Ingest(c) # c
    BY <1>1, <1>3, <1>5 DEF Adoptable
  <2> QED BY <1>1, <1>3, <1>5, <2>1
<1> QED BY <1>4, <1>5

(* Entering a state that wants the panel on sends for it.                  *)
LEMMA EntersOn ==
  ASSUME NEW c, c.state # "Suspending", ShouldBeOn(c)
  PROVE  LastOn(OnEnter(c))
<1> DEFINE on == Resolved(c, c.state = "LidOpen")
<1>1. on = TRUE
  BY DEF ShouldBeOn, Resolved
<1>2. OnEnter(c) = <<[kind |-> "edp", on |-> on]>>
  BY <1>1 DEF OnEnter, SetEdp
<1> QED BY <1>1, <1>2, OneOn

-----------------------------------------------------------------------------
(* The commands reach the channel, unless a loss is on record.             *)
Sends(new) ==
  /\ cmds' \in Seq(Command) /\ Len(cmds') <= MaxCmds /\ lost' \in BOOLEAN
  /\ ~lost' => ~lost /\ cmds' = cmds \o new

(* Why a panel that is to be on after an event will be.                    *)
Answers(e, new) ==
  ctx'.state # "Suspending" /\ ShouldBeOn(ctx') /\ ~lost' =>
    \/ Awake /\ ShouldBeOn(ctx) /\ AllOn(new) /\ e.kind \notin Announcing
    \/ Applying(new) \/ LastOn(new)
    \/ cli
    \/ Bringing(queue, {"reloaded"}) /\ e.kind # "reloaded"

(* What a handler leaves behind.                                           *)
Outcome(e) ==
  /\ ctx' \in Context
  /\ ctx'.state # "Suspending" => ctx'.state = WorldState(World(ctx'))
  /\ \E new \in Seq(Command) : Sends(new) /\ Answers(e, new)

(* What goes through try_send, or does not send at all, is accounted for.  *)
LEMMA Sending ==
  ASSUME TypeOK, NEW new \in Seq(Command), Send(new)
  PROVE  Sends(new)
<1>1. cmds \in Seq(Command) /\ Len(cmds) <= MaxCmds /\ lost \in BOOLEAN
  BY DEF TypeOK
<1> QED BY <1>1, Sent DEF Sends

LEMMA SendsNothing ==
  ASSUME TypeOK, UNCHANGED cmds, lost' = lost
  PROVE  Sends(<<>>)
<1>1. cmds \o <<>> = cmds /\ cmds \in Seq(Command)
  BY DEF TypeOK
<1> QED BY <1>1 DEF Sends, TypeOK

(* An event that only re-derives the state from a changed context.         *)
LEMMA EvaluateOutcome ==
  ASSUME TypeOK, Coherent, NEW c \in Context, NEW kind \in EventKind, NEW e,
         c.state = ctx.state, c.edp = ctx.edp,
         kind = "Other" \/ c = ctx, Evaluate(c, kind, <<>>),
         e.kind \notin Announcing
  PROVE  Outcome(e)
<1> DEFINE s == DesiredState(c.state, kind, World(c))
           d == [c EXCEPT !.state = s]
           new == IF s # c.state THEN OnEnter(d) ELSE <<>>
<1>1. s \in State /\ c.state \in State
  BY Derived DEF Context
<1>2. d \in Context /\ d.state = s /\ d.edp = c.edp /\ World(d) = World(c)
  BY <1>1, ContextSet
<1>3. ctx' = d /\ Send(<<>> \o new)
  BY DEF Evaluate
<1>4. s = "Suspending" \/ s = WorldState(World(c))
  BY <1>1 DEF DesiredState, Coherent, Awake, EventKind
<1> HIDE DEF s, d
<1>5. new \in Seq(Command) /\ <<>> \o new = new
  <2>1. <<>> \in Seq(Command)
    OBVIOUS
  <2>2. new \in Seq(Command)
    BY <2>1, Enters
  <2> HIDE DEF new
  <2> QED BY <2>2
<1>6. Sends(new)
  BY <1>3, <1>5, Sending
<1>7. Answers(e, new)
  <2> SUFFICES ASSUME ctx'.state # "Suspending", ShouldBeOn(ctx')
               PROVE  \/ Awake /\ ShouldBeOn(ctx) /\ AllOn(new)
                      \/ LastOn(new)
    BY DEF Answers
  <2>1. CASE s # c.state
    BY <1>2, <1>3, <2>1, EntersOn
  <2>2. CASE s = c.state
    BY <1>2, <1>3, <2>2, NoneOn DEF Awake, ShouldBeOn, Resolved
  <2> QED BY <2>1, <2>2
<1> QED BY <1>2, <1>3, <1>4, <1>5, <1>6, <1>7 DEF Outcome

LEMMA DerivingOutcome ==
  ASSUME TypeOK, Coherent, NEW e \in Event,
         Lid(e) \/ MonitorHotplug(e) \/ TimerExpired(e) \/ Resumed(e)
  PROVE  Outcome(e)
<1>1. ctx \in Context /\ ext \in BOOLEAN /\ ctx.ext \in BOOLEAN
  BY DEF TypeOK, Context
<1>2. CASE Lid(e)
  <2>1. /\ e.kind = "lid"
        /\ Evaluate([ctx EXCEPT !.lid = e.closed], "Other", <<>>)
    BY <1>2 DEF Lid
  <2>2. e.closed \in BOOLEAN
    BY <2>1 DEF Event
  <2> QED BY <1>1, <2>1, <2>2, ContextSet, EvaluateOutcome
          DEF EventKind, Announcing
<1>3. CASE MonitorHotplug(e)
  <2>1. PICK n \in {ext, ctx.ext} :
          Evaluate([ctx EXCEPT !.ext = n], "Other", <<>>)
    BY <1>3 DEF MonitorHotplug
  <2>2. e.kind \notin Announcing /\ "Other" \in EventKind
    BY <1>3 DEF MonitorHotplug, Announcing, EventKind
  <2> DEFINE c == [ctx EXCEPT !.ext = n]
  <2>3. n \in BOOLEAN
    BY <1>1
  <2>4. c \in Context /\ c.state = ctx.state /\ c.edp = ctx.edp
    BY <1>1, <2>3, ContextSet
  <2> HIDE DEF c
  <2> QED BY <2>1, <2>2, <2>4, EvaluateOutcome DEF c
<1>4. CASE TimerExpired(e)
  BY <1>1, <1>4, EvaluateOutcome DEF TimerExpired, EventKind, Announcing
<1>5. CASE Resumed(e)
  BY <1>1, <1>5, EvaluateOutcome DEF Resumed, EventKind, Announcing
<1> QED BY <1>2, <1>3, <1>4, <1>5

(* A re-assertion sends for the panel, or is recorded as lost.             *)
LEMMA ReassertOutcome ==
  ASSUME TypeOK, Coherent, NEW e, Reassert(e)
  PROVE  Outcome(e) /\ (e.kind = "reloaded" => SwitchOwed')
<1>1. /\ ctx \in Context /\ link \in Profiles \cup {NoProfile}
      /\ dir \in [Profiles -> EdpPolicy] /\ lost \in BOOLEAN
      /\ UNCHANGED link
  BY DEF TypeOK, Reassert
<1>2. CASE ctx.state = "Suspending"
  <2>1. UNCHANGED <<ctx, cmds>> /\ lost' = (lost \/ Ingest(ctx) # ctx)
    BY <1>2 DEF Reassert
  <2>2. Sends(<<>>)
    <3>1. cmds \o <<>> = cmds /\ cmds \in Seq(Command)
      BY DEF TypeOK
    <3> QED BY <1>1, <2>1, <3>1 DEF Sends, TypeOK
  <2>3. <<>> \in Seq(Command)
    OBVIOUS
  <2>4. Outcome(e)
    BY <1>1, <1>2, <2>1, <2>2, <2>3 DEF Outcome, Answers
  <2>5. lost' \/ Adoptable(ctx)
    BY <1>1, <2>1, Ingests
  <2> QED BY <1>1, <2>1, <2>4, <2>5 DEF SwitchOwed, Adoptable
<1>3. CASE ctx.state # "Suspending"
  <2> DEFINE d == Ingest(ctx)
  <2>1. ctx' = d /\ Send(OnEnter(d))
    BY <1>3 DEF Reassert
  <2>2. /\ d \in Context /\ d.state = ctx.state /\ World(d) = World(ctx)
        /\ Adoptable(d)
    BY <1>1, Ingests
  <2> HIDE DEF d
  <2>3. OnEnter(d) \in Seq(Command) /\ Sends(OnEnter(d))
    BY <2>1, Enters, Sending
  <2>4. Answers(e, OnEnter(d))
    BY <2>1, EntersOn DEF Answers
  <2>5. Outcome(e)
    BY <1>3, <2>1, <2>2, <2>3, <2>4 DEF Outcome, Coherent, Awake
  <2> QED BY <1>1, <2>1, <2>2, <2>5 DEF SwitchOwed, Adoptable
<1> QED BY <1>2, <1>3

(* A match is applied and moves the link; without one policy stands.       *)
LEMMA MonitorsOutcome ==
  ASSUME TypeOK, Coherent, NEW e, MonitorsChanged(e)
  PROVE  /\ Outcome(e) /\ link' \in Profiles \cup {NoProfile}
         /\ Adoptable(ctx)' \/ (link' = link /\ ctx'.cur = ctx.cur)
<1> DEFINE none == Matching(Signature) = {}
           p == Select(Signature)
           skip == none \/ Applied(ctx, p)
           rehome ==
             LET c == CASE none -> [ctx EXCEPT !.rev = NoRev]
                        [] skip -> ctx
                        [] OTHER -> Adopted(ctx, p)
             IN  c.ext /\ ~ShouldBeOn(c)
           first == IF skip THEN <<>> ELSE <<Ev("apply")>>
           second == IF rehome THEN <<Ev("rehome")>> ELSE <<>>
<1>1. /\ ctx \in Context /\ link \in Profiles \cup {NoProfile}
      /\ dir \in [Profiles -> EdpPolicy]
  BY DEF TypeOK
<1>2. /\ ctx' = CASE none -> [ctx EXCEPT !.rev = NoRev]
                  [] skip -> ctx
                  [] OTHER -> Adopted(ctx, p)
      /\ link' = IF skip THEN link ELSE p
      /\ Send(first \o second)
      /\ e.kind = "monitors"
  BY DEF MonitorsChanged
<1>3. ~none => p \in Profiles
  BY Selected DEF Matching
<1> HIDE DEF none, p, rehome
<1>4. /\ first \in Seq(Command) /\ second \in Seq(Command)
      /\ first \o second \in Seq(Command)
      /\ ~skip => Applying(first)
      /\ skip => AllOn(first)
      /\ AllOn(second)
  <2>1. <<>> \in Seq(Command) /\ <<Ev("apply")>> \in Seq(Command)
        /\ <<Ev("rehome")>> \in Seq(Command)
    BY Commands
  <2>2. first \in Seq(Command) /\ second \in Seq(Command)
    BY <2>1
  <2>3. Applying(<<Ev("apply")>>) /\ AllOn(<<Ev("rehome")>>) /\ AllOn(<<>>)
    BY Commands DEF Applying, AllOn
  <2>4. first \o second \in Seq(Command)
    <3> HIDE DEF first, second
    <3> QED BY <2>2
  <2> QED BY <2>2, <2>3, <2>4
<1> DEFINE new == first \o second
<1>5. Sends(new)
  BY <1>2, <1>4, Sending
<1>6. /\ ctx' \in Context /\ ctx'.state = ctx.state /\ World(ctx') = World(ctx)
      /\ skip => ctx'.edp = ctx.edp /\ ctx'.cur = ctx.cur
      /\ ~skip => ctx'.cur = p
  <2>1. CASE none
    BY <1>1, <1>2, <2>1 DEF Context, World
  <2>2. CASE ~none /\ skip
    BY <1>1, <1>2, <2>2
  <2>3. CASE ~skip
    <3>1. ctx' = Adopted(ctx, p)
      BY <1>2, <2>3
    <3> QED BY <1>1, <1>3, <2>3, <3>1, Ingests
  <2> QED BY <2>1, <2>2, <2>3
<1>7. Answers(e, new)
  <2> SUFFICES ASSUME ctx'.state # "Suspending", ShouldBeOn(ctx')
               PROVE  \/ Awake /\ ShouldBeOn(ctx) /\ AllOn(new)
                      \/ Applying(new)
    BY <1>2 DEF Answers, Announcing
  <2>1. CASE ~skip
    <3> HIDE DEF first, second, skip
    <3> QED BY <1>4, <2>1, Followed
  <2>2. CASE skip
    <3> HIDE DEF first, second
    <3>1. AllOn(new)
      BY <1>4, <2>2, Followed
    <3> HIDE DEF skip
    <3>2. Awake /\ ShouldBeOn(ctx)
      BY <1>6, <2>2 DEF Awake, ShouldBeOn, Resolved
    <3> QED BY <3>1, <3>2
  <2> QED BY <2>1, <2>2
<1>8. Outcome(e)
  <2> HIDE DEF new, first, second, skip
  <2>1. ctx'.state # "Suspending" => ctx'.state = WorldState(World(ctx'))
    BY <1>6 DEF Coherent, Awake
  <2>2. new \in Seq(Command)
    BY <1>4 DEF new
  <2> QED BY <1>5, <1>6, <1>7, <2>1, <2>2 DEF Outcome
<1> HIDE DEF new, first, second
<1> QED BY <1>1, <1>2, <1>3, <1>6, <1>8 DEF Adoptable

(* A pass enters the state it repairs into.  The profile it adopts has its *)
(* reload announced, or the re-assertion was lost.                         *)
LEMMA TickOutcome ==
  ASSUME TypeOK, Coherent, SwitchOwed, NEW e \in Event, ReconcileTick(e)
  PROVE  /\ Outcome(e)
         /\ \/ Adoptable(ctx)' \/ ctx'.cur = ctx.cur
<1> DEFINE c == [[ctx EXCEPT !.lid = e.lid] EXCEPT !.ext = e.ext]
           s == IF c # ctx THEN DesiredState(c.state, "Other", World(c))
                ELSE c.state
           d == [c EXCEPT !.state = s]
           entered == IF s # c.state THEN OnEnter(d) ELSE <<>>
           down == s = "Suspending"
           held == IF down THEN <<>> ELSE EdpInvariant(Ingest(d), e.on)
           new == entered \o held
<1>1. /\ ctx \in Context /\ link \in Profiles \cup {NoProfile}
      /\ dir \in [Profiles -> EdpPolicy]
  BY DEF TypeOK
<1>2. e.kind = "tick" /\ e.lid \in BOOLEAN /\ e.ext \in BOOLEAN
  BY DEF ReconcileTick, Event
<1>3. /\ ctx' = IF down THEN d ELSE Ingest(d)
      /\ Send(new) /\ UNCHANGED link
  BY DEF ReconcileTick
<1>4. /\ c \in Context /\ c.state = ctx.state /\ c.edp = ctx.edp
      /\ c.cur = ctx.cur /\ c.state \in State
  <2> DEFINE b == [ctx EXCEPT !.lid = e.lid]
  <2>1. /\ b \in Context /\ b.state = ctx.state /\ b.edp = ctx.edp
        /\ b.cur = ctx.cur
    BY <1>1, <1>2, ContextSet
  <2> HIDE DEF b
  <2>2. LET x == [b EXCEPT !.ext = e.ext]
        IN  /\ x \in Context /\ x.state = b.state /\ x.edp = b.edp
            /\ x.cur = b.cur
    BY <1>2, <2>1, ContextSet
  <2>3. c = [b EXCEPT !.ext = e.ext]
    BY DEF b
  <2>4. \A x \in Context : x.state \in State
    BY DEF Context
  <2> HIDE DEF c
  <2> QED BY <2>1, <2>2, <2>3, <2>4
<1>5. s \in State /\ (s = "Suspending" \/ s = WorldState(World(c)))
  <2>1. CASE c # ctx
    <3>1. DesiredState(c.state, "Other", World(c)) \in State
      BY <1>4, Derived DEF EventKind
    <3>2. \/ DesiredState(c.state, "Other", World(c)) = "Suspending"
          \/ DesiredState(c.state, "Other", World(c)) = WorldState(World(c))
      BY DEF DesiredState
    <3> HIDE DEF c
    <3> QED BY <2>1, <3>1, <3>2
  <2>2. CASE c = ctx
    <3> HIDE DEF c
    <3> QED BY <1>4, <2>2 DEF Coherent, Awake
  <2> QED BY <2>1, <2>2
<1> HIDE DEF c, s
<1>6. /\ d \in Context /\ d.state = s /\ d.edp = c.edp /\ d.cur = c.cur
      /\ World(d) = World(c)
  BY <1>4, <1>5, ContextSet
<1> HIDE DEF d
<1>7. /\ Ingest(d) \in Context /\ Ingest(d).state = s
      /\ World(Ingest(d)) = World(d)
      /\ Adoptable(Ingest(d)) /\ (Adoptable(d) => Ingest(d) = d)
  BY <1>1, <1>6, Ingests
<1>8. new \in Seq(Command) /\ entered \in Seq(Command) /\ held \in Seq(Command)
  <2>1. <<>> \in Seq(Command)
    OBVIOUS
  <2>2. entered \in Seq(Command)
    BY <2>1, Enters
  <2>3. held \in Seq(Command)
    <3>1. \A x, b : SetEdp(x, b) \in Seq(Command)
      <4> SUFFICES ASSUME NEW x, NEW b PROVE SetEdp(x, b) \in Seq(Command)
        OBVIOUS
      <4>1. [kind |-> "edp", on |-> Resolved(x, b)] \in Command
        BY Commands DEF Resolved
      <4>2. <<[kind |-> "edp", on |-> Resolved(x, b)]>> \in Seq(Command)
        BY <4>1
      <4> QED BY <2>1, <4>2 DEF SetEdp
    <3> QED BY <2>1, <3>1 DEF EdpInvariant
  <2> HIDE DEF entered, held
  <2> QED BY <2>2, <2>3
<1>9. Sends(new)
  BY <1>3, <1>8, Sending
<1>10. Answers(e, new)
  <2> SUFFICES ASSUME ctx'.state # "Suspending", ShouldBeOn(ctx'), ~lost'
               PROVE  \/ Awake /\ ShouldBeOn(ctx) /\ AllOn(new)
                      \/ LastOn(new)
                      \/ cli \/ Bringing(queue, {"reloaded"})
    BY <1>2 DEF Answers, Announcing
  <2>1. ~down /\ ctx' = Ingest(d)
    BY <1>3, <1>6, <1>7
  <2>2. held = <<>> /\ new = entered
    <3>1. held = <<>>
      BY <2>1 DEF EdpInvariant
    <3> HIDE DEF entered, held
    <3> QED BY <1>8, <3>1
  <2>3. CASE ~Adoptable(d)
    <3>1. ~Adoptable(ctx) /\ ~lost
      BY <1>4, <1>6, <1>9, <2>3 DEF Adoptable, Sends
    <3> QED BY <3>1 DEF SwitchOwed
  <2>4. CASE Adoptable(d)
    <3>1. ctx' = d /\ ShouldBeOn(d) /\ d.state # "Suspending"
      BY <1>7, <2>1, <2>4
    <3>2. CASE s # c.state
      <4>1. new = OnEnter(d)
        BY <2>2, <3>2
      <4> HIDE DEF new
      <4> QED BY <3>1, <4>1, EntersOn
    <3>3. CASE s = c.state
      <4>1. new = <<>>
        BY <2>2, <3>3
      <4>2. Awake /\ ShouldBeOn(ctx)
        BY <1>4, <1>6, <3>1, <3>3 DEF Awake, ShouldBeOn, Resolved
      <4> HIDE DEF new
      <4> QED BY <4>1, <4>2, NoneOn
    <3> QED BY <3>2, <3>3
  <2> QED BY <2>3, <2>4
<1>11. Outcome(e)
  <2> HIDE DEF new
  <2>1. /\ ctx' \in Context
        /\ ctx'.state # "Suspending" => ctx'.state = WorldState(World(ctx'))
    BY <1>3, <1>5, <1>6, <1>7
  <2> QED BY <1>8, <1>9, <1>10, <2>1 DEF Outcome
<1> QED BY <1>3, <1>4, <1>6, <1>7, <1>11 DEF Adoptable

(* Every event: types, the state, the link and the panel together.         *)
LEMMA DispatchOutcome ==
  ASSUME TypeOK, Coherent, SwitchOwed, Dispatch
  PROVE  /\ TypeOK' /\ Coherent' /\ SwitchOwed' /\ Outcome(Head(queue))
<1> DEFINE e == Head(queue)
<1>1. /\ queue # <<>> /\ queue \in Seq(Event) /\ e \in Event
      /\ Tail(queue) \in Seq(Event)
  BY DEF Dispatch, TypeOK
<1>2. UNCHANGED <<lid, ext, panel, marker, dir, stranded, cli, worker>>
  BY DEF Dispatch
<1> HIDE DEF e
<1>3. /\ queue' = Tail(queue) /\ debounce' \in BOOLEAN /\ pass' \in BOOLEAN
      /\ moves' \in Nat
  <2>1. /\ debounce \in BOOLEAN /\ pass \in BOOLEAN /\ moves \in Nat
        /\ ext \in BOOLEAN
    BY DEF TypeOK
  <2>2. CASE MonitorHotplug(e)
    <3>1. PICK n \in {ext, ctx.ext} :
            moves' = moves + (IF n # ext THEN 1 ELSE 0)
      BY <2>2 DEF MonitorHotplug
    <3>2. moves' \in Nat
      BY <2>1, <3>1
    <3> QED BY <2>2, <3>2 DEF MonitorHotplug, Take, e
  <2>3. CASE ReconcileTick(e)
    <3>1. debounce' \in BOOLEAN
      BY <2>1, <2>3 DEF ReconcileTick
    <3> QED BY <2>1, <2>3, <3>1 DEF ReconcileTick, Take, e
  <2>4. CASE Lid(e) \/ TimerExpired(e) \/ Resumed(e)
    BY <2>1, <2>4 DEF Lid, TimerExpired, Resumed, Take, e
  <2>5. CASE MonitorsChanged(e) \/ ProfilesChanged(e) \/ Reassert(e)
    <3>1. UNCHANGED moves
      BY <2>5 DEF MonitorsChanged, ProfilesChanged, Reassert
    <3>2. debounce' \in {debounce, TRUE} /\ pass' \in {pass, TRUE}
      BY <2>5 DEF MonitorsChanged, ProfilesChanged, Reassert
    <3>3. Take
      BY <2>5 DEF MonitorsChanged, ProfilesChanged, Reassert
    <3> QED BY <2>1, <3>1, <3>2, <3>3 DEF Take, e
  <2> QED BY <2>2, <2>3, <2>4, <2>5 DEF Dispatch, e
<1>4. /\ Outcome(e) /\ link' \in Profiles \cup {NoProfile}
      /\ \/ Adoptable(ctx)' \/ SwitchOwed'
         \/ e.kind # "reloaded" /\ link' = link /\ ctx'.cur = ctx.cur
  <2>1. /\ link \in Profiles \cup {NoProfile} /\ ctx \in Context
        /\ ext \in BOOLEAN /\ ctx.ext \in BOOLEAN
    BY DEF TypeOK, Context
  <2>2. CASE Lid(e) \/ MonitorHotplug(e) \/ TimerExpired(e) \/ Resumed(e)
    <3>1. Outcome(e) /\ UNCHANGED link /\ e.kind # "reloaded"
      BY <1>1, <2>2, DerivingOutcome
         DEF Lid, MonitorHotplug, TimerExpired, Resumed
    <3>2. PICK c, k : Evaluate(c, k, <<>>) /\ c.cur = ctx.cur /\ c \in Context
                      /\ k \in EventKind
      <4>1. CASE Lid(e)
        <5>1. e.closed \in BOOLEAN
          BY <1>1, <4>1 DEF Lid, Event
        <5> QED BY <2>1, <4>1, <5>1, ContextSet DEF Lid, EventKind
      <4>2. CASE MonitorHotplug(e)
        <5>1. PICK n \in {ext, ctx.ext} :
                Evaluate([ctx EXCEPT !.ext = n], "Other", <<>>)
          BY <4>2 DEF MonitorHotplug
        <5>2. n \in BOOLEAN
          BY <2>1
        <5> QED BY <2>1, <5>1, <5>2, ContextSet DEF EventKind
      <4>3. CASE TimerExpired(e) \/ Resumed(e)
        BY <2>1, <4>3 DEF TimerExpired, Resumed, EventKind
      <4> QED BY <2>2, <4>1, <4>2, <4>3
    <3>3. ctx'.cur = c.cur
      <4>1. DesiredState(c.state, k, World(c)) \in State
        BY <3>2, Derived
      <4> QED BY <3>2, <4>1, ContextSet DEF Evaluate
    <3> QED BY <2>1, <3>1, <3>2, <3>3
  <2>3. CASE MonitorsChanged(e)
    BY <2>3, MonitorsOutcome DEF MonitorsChanged
  <2>4. CASE ProfilesChanged(e)
    <3>1. /\ UNCHANGED <<link, ctx, cmds, lost>>
          /\ e.kind \notin Announcing /\ e.kind # "reloaded"
      BY <2>4 DEF ProfilesChanged, Announcing
    <3>2. Sends(<<>>) /\ <<>> \in Seq(Command)
      BY <3>1, SendsNothing
    <3>3. Outcome(e)
      BY <2>1, <3>1, <3>2, NoneOn DEF Outcome, Answers, Coherent, Awake
    <3> QED BY <2>1, <3>1, <3>3
  <2>5. CASE Reassert(e)
    <3>1. Outcome(e) /\ (e.kind = "reloaded" => SwitchOwed') /\ UNCHANGED link
      BY <2>5, ReassertOutcome DEF Reassert
    <3>2. Adoptable(ctx)' \/ ctx' = ctx
      BY <2>1, <2>5, <3>1, Ingests DEF Reassert, Adoptable, TypeOK
    <3> QED BY <2>1, <3>1, <3>2
  <2>6. CASE ReconcileTick(e)
    BY <1>1, <2>1, <2>6, TickOutcome DEF ReconcileTick
  <2> QED BY <2>2, <2>3, <2>4, <2>5, <2>6 DEF Dispatch, e
<1>5. PICK new \in Seq(Command) : Sends(new)
  BY <1>4 DEF Outcome
<1>6. TypeOK' /\ Coherent'
  BY <1>1, <1>2, <1>3, <1>4, <1>5 DEF TypeOK, Outcome, Sends, Coherent, Awake
<1>7. SwitchOwed'
  <2>1. CASE e.kind # "reloaded" /\ link' = link /\ ctx'.cur = ctx.cur
    <3>1. Bringing(queue, {"reloaded"}) => Bringing(queue', {"reloaded"})
      BY <1>1, <1>3, <2>1, Taken DEF e
    <3> QED BY <1>2, <1>5, <2>1, <3>1 DEF SwitchOwed, Adoptable, Sends
  <2> QED BY <1>4, <2>1 DEF SwitchOwed
<1> QED BY <1>4, <1>6, <1>7 DEF e

-----------------------------------------------------------------------------
(* One event leaves the panel owed.                                        *)
LEMMA DispatchPanel ==
  ASSUME TypeOK, Coherent, SwitchOwed, PanelOwed, Dispatch
  PROVE  PanelOwed'
<1> DEFINE e == Head(queue)
<1>1. /\ Outcome(e) /\ TypeOK'
      /\ UNCHANGED <<panel, cli, worker>> /\ queue' = Tail(queue)
      /\ queue # <<>> /\ queue \in Seq(Event) /\ cmds \in Seq(Command)
  <2>1. queue' = Tail(queue)
    BY DEF Dispatch, Lid, MonitorHotplug, MonitorsChanged, ProfilesChanged,
           Reassert, ReconcileTick, TimerExpired, Resumed, Take
  <2> QED BY <2>1, DispatchOutcome DEF Dispatch, TypeOK
<1>2. PICK new \in Seq(Command) : Sends(new) /\ Answers(e, new)
  BY <1>1 DEF Outcome
<1> SUFFICES ASSUME Awake', ShouldBeOn(ctx)', ~lost'
             PROVE  \/ cli' \/ Bringing(queue', Announcing)
                    \/ Applying(cmds') \/ LastOn(cmds')
                    \/ (WorkerOn' /\ AllOn(cmds'))
  BY DEF PanelOwed
<1>3. ~lost /\ cmds' = cmds \o new
  BY <1>2 DEF Sends
<1>4. \A K : Bringing(queue, K) /\ e.kind \notin K => Bringing(queue', K)
  BY <1>1, Taken
<1>5. \/ Awake /\ ShouldBeOn(ctx) /\ AllOn(new) /\ e.kind \notin Announcing
      \/ Applying(new) \/ LastOn(new)
      \/ cli
      \/ Bringing(queue, {"reloaded"}) /\ e.kind # "reloaded"
  BY <1>2 DEF Answers, Awake, ShouldBeOn, Resolved
<1>6. CASE Applying(new) \/ LastOn(new)
  BY <1>1, <1>2, <1>3, <1>6, Followed
<1>7. CASE cli \/ (Bringing(queue, {"reloaded"}) /\ e.kind # "reloaded")
  <2>1. Bringing(queue', {"reloaded"}) => Bringing(queue', Announcing)
    BY DEF Bringing, Announcing
  <2> QED BY <1>1, <1>4, <1>7, <2>1
<1>8. CASE Awake /\ ShouldBeOn(ctx) /\ AllOn(new) /\ e.kind \notin Announcing
  <2>1. \/ cli \/ Bringing(queue, Announcing)
        \/ Applying(cmds) \/ LastOn(cmds) \/ (WorkerOn /\ AllOn(cmds))
    BY <1>3, <1>8 DEF PanelOwed
  <2>2. WorkerOn => WorkerOn'
    BY <1>1 DEF WorkerOn
  <2> HIDE DEF e
  <2> QED BY <1>1, <1>2, <1>3, <1>4, <1>8, <2>1, <2>2, Followed
<1> QED BY <1>5, <1>6, <1>7, <1>8

(* evaluate_fsms moves the state only, and nothing but a wake moves it out *)
(* of Suspending.                                                          *)
LEMMA EvaluateKeeps ==
  ASSUME NEW c, NEW kind, NEW before,
         DOMAIN c = ContextFields, Evaluate(c, kind, before)
  PROVE  /\ DOMAIN ctx' = ContextFields /\ ctx'.cur = c.cur
         /\ c.state = "Suspending" /\ kind \in {"Other", "TimerExpired"}
              => ctx'.state = "Suspending"
<1> DEFINE s == DesiredState(c.state, kind, World(c))
<1>1. ctx' = [c EXCEPT !.state = s]
  BY DEF Evaluate
<1>2. c.state = "Suspending" /\ kind \in {"Other", "TimerExpired"}
        => s = "Suspending"
  BY DEF DesiredState
<1> HIDE DEF s
<1> QED BY <1>1, <1>2 DEF ContextFields

LEMMA Adopts ==
  ASSUME NEW c, NEW p, DOMAIN c = ContextFields
  PROVE  /\ DOMAIN Adopted(c, p) = ContextFields
         /\ Adopted(c, p).cur = p /\ Adopted(c, p).state = c.state
         /\ DOMAIN Ingest(c) = ContextFields
         /\ Ingest(c).state = c.state /\ Adoptable(Ingest(c))
BY DEF Adopted, Ingest, Adoptable, ContextFields

(* One event: the link stays owed, moves into force, or is put into force. *)
LEMMA DispatchLinks ==
  ASSUME TypeOK, LinkOwed, Dispatch
  PROVE  LinkOwed'
<1> DEFINE e == Head(queue)
<1>1. /\ queue # <<>> /\ queue \in Seq(Event) /\ DOMAIN ctx = ContextFields
      /\ UNCHANGED cli
  BY DEF TypeOK, Context, ContextFields, Dispatch
<1>2. queue' = Tail(queue)
  BY DEF Dispatch, Lid, MonitorHotplug, MonitorsChanged, ProfilesChanged,
         Reassert, ReconcileTick, TimerExpired, Resumed, Take
<1>3. e.kind \notin Adopting /\ Bringing(queue, Adopting)
        => Bringing(queue', Adopting)
  BY <1>1, <1>2, Taken
<1>4. LinkOwed /\ pass \in BOOLEAN
  BY DEF TypeOK
<1>5. ASSUME e.kind \notin Adopting, DOMAIN ctx' = ContextFields,
             UNCHANGED <<pass, link>>, ctx'.cur = ctx.cur,
             ctx.state = "Suspending" => ctx'.state = "Suspending"
      PROVE  LinkOwed'
  BY <1>1, <1>3, <1>4, <1>5 DEF LinkOwed, Adoptable
<1> HIDE DEF e
<1>6. CASE Lid(e) \/ TimerExpired(e)
  <2>1. CASE Lid(e)
    <3> DEFINE c == [ctx EXCEPT !.lid = e.closed]
    <3>1. /\ Evaluate(c, "Other", <<>>) /\ UNCHANGED <<pass, link>>
          /\ e.kind \notin Adopting
      BY <2>1 DEF Lid, Adopting, Announcing
    <3>2. DOMAIN c = ContextFields /\ c.cur = ctx.cur /\ c.state = ctx.state
      BY <1>1 DEF ContextFields
    <3> HIDE DEF c
    <3> QED BY <1>4, <1>5, <3>1, <3>2, EvaluateKeeps
  <2>2. CASE TimerExpired(e)
    <3>1. /\ Evaluate(ctx, "TimerExpired", <<>>) /\ UNCHANGED <<pass, link>>
          /\ e.kind \notin Adopting
      BY <2>2 DEF TimerExpired, Adopting, Announcing
    <3> QED BY <1>1, <1>4, <1>5, <3>1, EvaluateKeeps
  <2> QED BY <1>6, <2>1, <2>2
<1>7. CASE MonitorHotplug(e)
  BY <1>7 DEF MonitorHotplug, LinkOwed
<1>8. CASE Resumed(e)
  BY <1>8 DEF Resumed, LinkOwed
<1>9. CASE ProfilesChanged(e)
  BY <1>1, <1>4, <1>5, <1>9 DEF ProfilesChanged, Adopting, Announcing
<1>10. CASE Reassert(e)
  BY <1>10 DEF Reassert, LinkOwed
<1>11. CASE MonitorsChanged(e)
  <2> DEFINE none == Matching(Signature) = {}
             p == Select(Signature)
             skip == none \/ Applied(ctx, p)
  <2>1. /\ e.kind \notin Adopting /\ UNCHANGED pass
        /\ link' = IF skip THEN link ELSE p
        /\ ctx' = CASE none -> [ctx EXCEPT !.rev = NoRev]
                    [] skip -> ctx
                    [] OTHER -> Adopted(ctx, p)
    BY <1>11 DEF MonitorsChanged, Adopting, Announcing
  <2> HIDE DEF none, p
  <2>2. CASE none
    BY <1>1, <1>4, <1>5, <2>1, <2>2 DEF ContextFields
  <2>3. CASE ~none /\ skip
    BY <1>1, <1>4, <1>5, <2>1, <2>3
  <2>4. CASE ~skip
    BY <1>1, <1>4, <2>1, <2>4, Adopts DEF LinkOwed, Adoptable
  <2> QED BY <2>2, <2>3, <2>4
<1>12. CASE ReconcileTick(e)
  <2>1. PICK d :
          /\ DOMAIN d = ContextFields
          /\ ctx' = IF d.state = "Suspending" THEN d ELSE Ingest(d)
    <3> DEFINE c == [ctx EXCEPT !.lid = e.lid, !.ext = e.ext]
               s == IF c # ctx THEN DesiredState(c.state, "Other", World(c))
                    ELSE c.state
               d == [c EXCEPT !.state = s]
    <3>1. ctx' = IF s = "Suspending" THEN d ELSE Ingest(d)
      BY <1>12 DEF ReconcileTick
    <3>2. DOMAIN c = ContextFields
      BY <1>1
    <3> HIDE DEF c, s
    <3>3. DOMAIN d = ContextFields /\ d.state = s
      BY <3>2 DEF ContextFields
    <3> QED BY <3>1, <3>3
  <2>2. UNCHANGED <<pass, link>>
    BY <1>12 DEF ReconcileTick
  <2>3. Adoptable(Ingest(d))
    BY <2>1, Adopts
  <2> QED BY <1>4, <2>1, <2>2, <2>3, Adopts DEF LinkOwed, Adoptable
<1> QED BY <1>6, <1>7, <1>8, <1>9, <1>10, <1>11, <1>12 DEF Dispatch, e


-----------------------------------------------------------------------------
(* The context and the record stand, what is on its way stays: what was    *)
(* owed still is.                                                          *)
LEMMA StandsOwed ==
  ASSUME TypeOK, SwitchOwed, Coherent,
         LinkOwed, UNCHANGED <<ctx, link>>, lost => lost',
         cli => cli' \/ Bringing(queue', {"reloaded"}),
         pass => pass' \/ Bringing(queue', Adopting),
         \A K : Bringing(queue, K) => Bringing(queue', K)
  PROVE  Coherent' /\ LinkOwed' /\ SwitchOwed'
<1>1. Coherent' /\ SwitchOwed'
  BY DEF SwitchOwed, Coherent, Adoptable, Awake
<1>2. Bringing(queue', {"reloaded"}) => Bringing(queue', Adopting)
  BY DEF Bringing, Adopting, Announcing
<1>3. LinkOwed'
  BY <1>2 DEF LinkOwed, Adoptable
<1> QED BY <1>1, <1>3

LEMMA StandsOn ==
  ASSUME PanelOwed, UNCHANGED ctx, lost => lost',
         cli => cli' \/ Bringing(queue', Announcing),
         Bringing(queue, Announcing) => Bringing(queue', Announcing),
         ~lost' => \/ Bringing(queue', Announcing)
                   \/ /\ Applying(cmds) => Applying(cmds')
                      /\ LastOn(cmds) => LastOn(cmds')
                                          \/ (WorkerOn' /\ AllOn(cmds'))
                      /\ WorkerOn /\ AllOn(cmds) => WorkerOn' /\ AllOn(cmds')
  PROVE  PanelOwed'
BY DEF PanelOwed, Awake

(* The compositor sets the panel and says so.                              *)
LEMMA Announced ==
  ASSUME TypeOK, NEW b \in BOOLEAN
  PROVE  /\ queue \o Hotplug(b) \in Seq(Event)
         /\ \A K : Bringing(queue, K) => Bringing(queue \o Hotplug(b), K)
BY HotplugTyped, Joined DEF TypeOK

(* A reload announces itself last.                                         *)
LEMMA Reloads ==
  ASSUME TypeOK, DoReload
  PROVE  /\ queue' \in Seq(Event) /\ Bringing(queue', {"reloaded"})
         /\ Bringing(queue', Announcing)
         /\ \A K : Bringing(queue, K) => Bringing(queue', K)
         /\ panel' \in BOOLEAN /\ stranded' \in BOOLEAN
         /\ UNCHANGED <<moves, lost>>
<1> DEFINE b == panel' # panel
           q == queue \o Hotplug(b)
<1>1. b \in BOOLEAN
  OBVIOUS
<1>2. q \in Seq(Event) /\ \A K : Bringing(queue, K) => Bringing(q, K)
  BY <1>1, Announced
<1>3. Ev("reloaded") \in Event /\ Ev("reloaded").kind = "reloaded"
  BY Evs
<1>4. /\ queue' = q \o <<Ev("reloaded")>> /\ UNCHANGED <<moves, lost>>
      /\ panel' = Reloaded(marker, link)
      /\ stranded' = (~panel' /\ (stranded \/ (panel /\ ~ext)))
  BY DEF DoReload, SetPanel
<1>5. queue' = Append(q, Ev("reloaded"))
  <2> HIDE DEF q
  <2> QED BY <1>2, <1>3, <1>4
<1>6. /\ queue' \in Seq(Event)
      /\ \A K : "reloaded" \in K \/ Bringing(queue, K) => Bringing(queue', K)
  <2> HIDE DEF q
  <2> QED BY <1>2, <1>3, <1>5, Appended
<1>7. panel' \in BOOLEAN /\ stranded' \in BOOLEAN
  BY <1>4 DEF Reloaded, TypeOK
<1>8. Bringing(queue', {"reloaded"}) /\ Bringing(queue', Announcing)
  BY <1>6 DEF Announcing
<1> QED BY <1>4, <1>6, <1>7, <1>8

(* The worker's steps and the world's, one by one.                         *)
LEMMA ReadKeeps ==
  ASSUME Owed, WorkerRead
  PROVE  Owed'
<1> DEFINE x == Head(cmds)
<1>1. /\ TypeOK /\ cmds \in Seq(Command) /\ cmds # <<>> /\ x.kind = "edp"
      /\ cmds' = Tail(cmds) /\ worker = Idle /\ panel \in BOOLEAN
      /\ UNCHANGED <<lid, ext, panel, marker, link, dir, stranded, cli, ctx,
                     debounce, pass, queue>>
  BY DEF Owed, TypeOK, WorkerRead, Refused, files
<1>2. x \in Command
  BY <1>1
<1>3. x.on \in BOOLEAN
  BY <1>1, <1>2 DEF Command
<1> HIDE DEF x
<1>4. PICK b \in BOOLEAN : (b <=> ~panel) /\ b = ~panel
  OBVIOUS
<1> DEFINE w == [at |-> "read", on |-> x.on, disabled |-> b]
<1>5. /\ \/ worker' = w /\ UNCHANGED <<moves, lost>>
         \/ moves' = moves + 1 /\ lost' = TRUE /\ UNCHANGED worker
      /\ worker' \in Worker /\ moves' \in Nat /\ lost' \in BOOLEAN
  <2>1. \/ worker' = w /\ UNCHANGED <<moves, lost>>
        \/ moves' = moves + 1 /\ lost' = TRUE /\ UNCHANGED worker
    BY <1>4 DEF WorkerRead, Refused, x
  <2>2. worker \in Worker /\ moves \in Nat /\ lost \in BOOLEAN
    BY <1>1 DEF TypeOK
  <2>3. w \in Worker
    BY <1>3 DEF Worker
  <2> HIDE DEF w
  <2>4. worker' \in Worker
    BY <2>1, <2>2, <2>3
  <2>5. moves' \in Nat
    BY <2>1, <2>2
  <2>6. lost' \in BOOLEAN
    BY <2>1, <2>2
  <2> QED BY <2>1, <2>4, <2>5, <2>6
<1>6. /\ cmds' \in Seq(Command) /\ Len(cmds') <= MaxCmds
      /\ Applying(cmds) => Applying(cmds')
      /\ AllOn(cmds) => AllOn(cmds') /\ x.on
      /\ LastOn(cmds) => LastOn(cmds') \/ (x.on /\ AllOn(cmds'))
  <2>1. Len(cmds) <= MaxCmds /\ MaxCmds \in Nat
    BY <1>1, OutputsAssumption DEF TypeOK
  <2>2. Len(cmds') < Len(cmds) /\ cmds' \in Seq(Command)
    BY <1>1, Received
  <2>3. Len(cmds') \in Nat /\ Len(cmds) \in Nat
    BY <1>1, <2>2
  <2>4. Len(cmds') <= MaxCmds
    BY <2>1, <2>2, <2>3
  <2> QED BY <1>1, <2>2, <2>4, Received DEF x
<1>7. TypeOK'
  BY <1>1, <1>5, <1>6 DEF TypeOK
<1>8. ~lost' /\ x.on => WorkerOn'
  <2> SUFFICES ASSUME ~lost', x.on PROVE WorkerOn'
    OBVIOUS
  <2>1. worker' = w
    BY <1>5
  <2>2. w # Idle /\ w.on = x.on /\ w.disabled = b
    BY DEF Idle
  <2> HIDE DEF w
  <2> QED BY <1>1, <1>4, <2>1, <2>2 DEF WorkerOn
<1> HIDE DEF w
<1>9. PanelOwed'
  BY <1>1, <1>5, <1>6, <1>8, StandsOn DEF Owed
<1>10. Coherent' /\ LinkOwed' /\ SwitchOwed'
  BY <1>1, <1>5, StandsOwed DEF Owed
<1> QED BY <1>7, <1>9, <1>10 DEF Owed

LEMMA MarkKeeps ==
  ASSUME Owed, WorkerMark
  PROVE  Owed'
<1>1. /\ TypeOK /\ worker \in Worker /\ worker.at = "read"
      /\ UNCHANGED <<lid, ext, panel, link, dir, stranded, cli, ctx, debounce,
                     pass, queue, cmds, moves, lost>>
      /\ worker' = [worker EXCEPT !.at = "marked"] /\ marker' = ~worker.on
  BY DEF Owed, TypeOK, WorkerMark
<1>2. worker \in [at : {"read", "marked"}, on : BOOLEAN, disabled : BOOLEAN]
  BY <1>1 DEF Worker, Idle
<1>3. /\ worker' \in Worker /\ worker'.on = worker.on
      /\ worker'.disabled = worker.disabled
      /\ worker # Idle /\ worker' # Idle /\ marker' \in BOOLEAN
  BY <1>1, <1>2 DEF Worker, Idle
<1>4. TypeOK'
  BY <1>1, <1>3 DEF TypeOK
<1>5. WorkerOn => WorkerOn'
  BY <1>1, <1>3 DEF WorkerOn
<1>6. PanelOwed'
  BY <1>1, <1>5, StandsOn DEF Owed
<1>7. Coherent' /\ LinkOwed' /\ SwitchOwed'
  BY <1>1, StandsOwed DEF Owed
<1> QED BY <1>4, <1>6, <1>7 DEF Owed

LEMMA FlipKeeps ==
  ASSUME Owed, WorkerFlip
  PROVE  Owed'
<1>1. /\ TypeOK /\ worker \in Worker /\ worker.at = "marked" /\ worker' = Idle
      /\ UNCHANGED <<lid, ext, marker, link, dir, cli, ctx, debounce,
                     pass, cmds>>
  BY DEF Owed, TypeOK, WorkerFlip, files
<1>2. /\ worker \in [at : {"read", "marked"}, on : BOOLEAN, disabled : BOOLEAN]
      /\ worker # Idle /\ Idle \in Worker
  BY <1>1 DEF Worker, Idle
<1>3. /\ panel \in BOOLEAN /\ stranded \in BOOLEAN /\ queue \in Seq(Event)
      /\ moves \in Nat /\ lost \in BOOLEAN
  BY <1>1 DEF TypeOK
<1>4. ASSUME panel' \in BOOLEAN, stranded' \in BOOLEAN, queue' \in Seq(Event),
             moves' \in Nat, lost' \in BOOLEAN, lost => lost',
             \A K : Bringing(queue, K) => Bringing(queue', K),
             ~lost' => \/ Bringing(queue', Announcing)
                       \/ WorkerOn => WorkerOn'
      PROVE  Owed'
  <2>1. TypeOK'
    BY <1>1, <1>2, <1>4 DEF TypeOK
  <2>2. PanelOwed'
    BY <1>1, <1>4, StandsOn DEF Owed
  <2>3. Coherent' /\ LinkOwed' /\ SwitchOwed'
    BY <1>1, <1>4, StandsOwed DEF Owed
  <2> QED BY <2>1, <2>2, <2>3 DEF Owed
<1>5. CASE worker.on # worker.disabled /\ UNCHANGED <<panel, stranded, queue,
                                                       moves, lost>>
  <2>1. WorkerOn => WorkerOn'
    BY <1>1, <1>2, <1>5 DEF WorkerOn
  <2> QED BY <1>3, <1>4, <1>5, <2>1
<1>6. CASE DoReload
  BY <1>1, <1>3, <1>4, <1>6, Reloads
<1>7. CASE ~worker.on /\ DoDisable
  <2>1. /\ queue' = queue \o Hotplug(panel) /\ panel' = FALSE
        /\ stranded' = (~panel' /\ (stranded \/ (panel /\ ~ext)))
        /\ UNCHANGED <<moves, lost>>
    BY <1>7 DEF DoDisable, SetPanel
  <2>2. stranded' \in BOOLEAN /\ panel' \in BOOLEAN
    BY <2>1
  <2>3. ~WorkerOn
    BY <1>2, <1>7 DEF WorkerOn
  <2> QED BY <1>1, <1>3, <1>4, <2>1, <2>2, <2>3, Announced
<1>8. CASE Refused
  <2>1. moves' \in Nat /\ lost' = TRUE /\ UNCHANGED <<panel, stranded, queue>>
    BY <1>3, <1>8 DEF Refused
  <2> QED BY <1>3, <1>4, <2>1
<1> QED BY <1>5, <1>6, <1>7, <1>8 DEF WorkerFlip

LEMMA ApplyKeeps ==
  ASSUME Owed, WorkerApply
  PROVE  Owed'
<1> DEFINE b == panel' # panel
           q == queue \o Hotplug(b)
<1>1. /\ TypeOK /\ cmds \in Seq(Command) /\ cmds # <<>>
      /\ cmds' = Tail(cmds)
      /\ UNCHANGED <<lid, ext, marker, link, dir, cli, ctx, debounce, pass,
                     worker, lost>>
  BY DEF Owed, TypeOK, WorkerApply, files
<1>2. /\ panel' \in BOOLEAN /\ stranded' \in BOOLEAN /\ moves' \in Nat
  <2>1. panel \in BOOLEAN /\ stranded \in BOOLEAN /\ moves \in Nat
        /\ marker \in BOOLEAN
    BY <1>1 DEF TypeOK
  <2>2. SetPanel(Evaluated(link)) \/ SetPanel(Reloaded(marker, link))
    BY DEF WorkerApply
  <2>3. Evaluated(link) \in BOOLEAN /\ Reloaded(marker, link) \in BOOLEAN
    BY <2>1 DEF Evaluated, Reloaded
  <2>4. stranded' = (~panel' /\ (stranded \/ (panel /\ ~ext)))
        /\ panel' \in BOOLEAN
    BY <2>2, <2>3 DEF SetPanel
  <2>5. moves' = moves \/ moves' = moves + 1
    BY DEF WorkerApply
  <2> QED BY <2>1, <2>4, <2>5
<1>3. b \in BOOLEAN
  OBVIOUS
<1>4. q \in Seq(Event) /\ \A K : Bringing(queue, K) => Bringing(q, K)
  BY <1>1, <1>3, Announced
<1>5. \/ queue' = q \o <<Ev("applied")>>
      \/ queue' = q \o <<Ev("reloaded"), Ev("applied")>>
  BY DEF WorkerApply
<1> HIDE DEF q
<1>6. PICK r \in Seq(Event) : queue' = Append(r, Ev("applied"))
                 /\ \A K : Bringing(q, K) => Bringing(r, K)
  <2>1. Ev("applied") \in Event /\ Ev("reloaded") \in Event
    BY Evs
  <2>2. CASE queue' = q \o <<Ev("applied")>>
    BY <1>4, <2>1, <2>2
  <2>3. CASE queue' = q \o <<Ev("reloaded"), Ev("applied")>>
    <3> DEFINE r == Append(q, Ev("reloaded"))
    <3>1. r \in Seq(Event) /\ \A K : Bringing(q, K) => Bringing(r, K)
      BY <1>4, <2>1, Appended
    <3>2. queue' = Append(r, Ev("applied"))
      BY <1>4, <2>1, <2>3
    <3> QED BY <3>1, <3>2
  <2> QED BY <1>5, <2>2, <2>3
<1>7. /\ queue' \in Seq(Event) /\ Bringing(queue', Announcing)
      /\ \A K : Bringing(queue, K) => Bringing(queue', K)
  <2>1. Ev("applied") \in Event /\ Ev("applied").kind \in Announcing
    BY Evs DEF Announcing
  <2> QED BY <1>4, <1>6, <2>1, Appended
<1>8. cmds' \in Seq(Command) /\ Len(cmds') <= MaxCmds
  <2>1. Len(cmds) <= MaxCmds /\ MaxCmds \in Nat
    BY <1>1, OutputsAssumption DEF TypeOK
  <2>2. Len(cmds') < Len(cmds) /\ cmds' \in Seq(Command)
    BY <1>1, Received
  <2>3. Len(cmds') \in Nat /\ Len(cmds) \in Nat
    BY <1>1, <2>2
  <2> QED BY <2>1, <2>2, <2>3
<1>9. TypeOK'
  BY <1>1, <1>2, <1>7, <1>8 DEF TypeOK
<1>10. PanelOwed'
  BY <1>7 DEF PanelOwed
<1>11. Coherent' /\ LinkOwed' /\ SwitchOwed'
  BY <1>1, <1>7, StandsOwed DEF Owed
<1> QED BY <1>9, <1>10, <1>11 DEF Owed

LEMMA RehomeKeeps ==
  ASSUME Owed, WorkerRehome
  PROVE  Owed'
<1>1. /\ TypeOK /\ cmds \in Seq(Command) /\ cmds # <<>>
      /\ cmds' = Tail(cmds) /\ Head(cmds).kind = "rehome"
      /\ UNCHANGED <<lid, ext, panel, marker, link, dir, cli, ctx, debounce,
                     pass, queue, worker, moves, lost>>
      /\ stranded' = (stranded /\ ~ext)
  BY DEF Owed, TypeOK, WorkerRehome, files
<1>2. /\ cmds' \in Seq(Command) /\ Len(cmds') <= MaxCmds
      /\ Applying(cmds) => Applying(cmds')
      /\ AllOn(cmds) => AllOn(cmds')
      /\ LastOn(cmds) => LastOn(cmds')
  <2>1. Len(cmds) <= MaxCmds /\ MaxCmds \in Nat
    BY <1>1, OutputsAssumption DEF TypeOK
  <2>2. Len(cmds') < Len(cmds) /\ cmds' \in Seq(Command)
    BY <1>1, Received
  <2>3. Len(cmds') \in Nat /\ Len(cmds) \in Nat
    BY <1>1, <2>2
  <2>4. Len(cmds') <= MaxCmds
    BY <2>1, <2>2, <2>3
  <2> QED BY <1>1, <2>2, <2>4, Received
<1>3. stranded' \in BOOLEAN /\ (WorkerOn => WorkerOn')
  BY <1>1 DEF TypeOK, WorkerOn
<1>4. TypeOK'
  BY <1>1, <1>2, <1>3 DEF TypeOK
<1>5. PanelOwed'
  BY <1>1, <1>2, <1>3, StandsOn DEF Owed
<1>6. Coherent' /\ LinkOwed' /\ SwitchOwed'
  BY <1>1, StandsOwed DEF Owed
<1> QED BY <1>4, <1>5, <1>6 DEF Owed

(* Steps that may add to the queue and touch neither daemon nor worker.    *)
LEMMA ElsewhereKeeps ==
  ASSUME Owed, UNCHANGED <<panel, link, ctx, cmds, worker, lost>>,
         lid' \in BOOLEAN, ext' \in BOOLEAN, dir' \in [Profiles -> EdpPolicy],
         debounce' \in BOOLEAN, pass' \in BOOLEAN, moves' \in Nat,
         UNCHANGED <<marker, stranded, cli>>,
         pass => pass' \/ Bringing(queue', Adopting),
         queue' = queue \/ \E x \in Event : queue' = Append(queue, x)
  PROVE  Owed'
<1>1. TypeOK /\ queue \in Seq(Event)
  BY DEF Owed, TypeOK
<1>2. queue' \in Seq(Event) /\ \A K : Bringing(queue, K) => Bringing(queue', K)
  <2>1. CASE queue' = queue
    BY <1>1, <2>1
  <2>2. ASSUME NEW x \in Event, queue' = Append(queue, x)
        PROVE  /\ queue' \in Seq(Event)
               /\ \A K : Bringing(queue, K) => Bringing(queue', K)
    BY <1>1, <2>2, Appended
  <2> QED BY <2>1, <2>2
<1>3. TypeOK'
  BY <1>1, <1>2 DEF TypeOK
<1>4. WorkerOn => WorkerOn'
  BY DEF WorkerOn
<1>5. PanelOwed'
  BY <1>2, <1>4, StandsOn DEF Owed
<1>6. Coherent' /\ LinkOwed' /\ SwitchOwed'
  BY <1>1, <1>2, StandsOwed DEF Owed
<1> QED BY <1>3, <1>5, <1>6 DEF Owed

LEMMA WorldKeeps ==
  ASSUME Owed, Debounced \/ ReconcilePass \/ SafetyTick \/ User
                 \/ SwitchReloads \/ Wakes
  PROVE  Owed'
<1>1. /\ TypeOK /\ lid \in BOOLEAN /\ ext \in BOOLEAN /\ panel \in BOOLEAN
      /\ dir \in [Profiles -> EdpPolicy] /\ debounce \in BOOLEAN
      /\ pass \in BOOLEAN /\ moves \in Nat /\ queue \in Seq(Event)
  BY DEF Owed, TypeOK
<1>2. CASE Debounced
  BY <1>1, <1>2, Evs, ElsewhereKeeps DEF Debounced
<1>3. CASE ReconcilePass \/ SafetyTick
  <2> DEFINE x == [kind |-> "tick", lid |-> lid, ext |-> ext, on |-> panel]
  <2>1. /\ queue' = Append(queue, x) /\ pass' = FALSE
        /\ UNCHANGED <<lid, ext, panel, marker, link, dir, stranded, cli, ctx,
                       debounce, cmds, worker, moves, lost>>
    BY <1>3 DEF ReconcilePass, SafetyTick, Gather, files
  <2>2. x \in Event /\ x.kind \in Adopting
    BY <1>1 DEF Event, Adopting
  <2> HIDE DEF x
  <2>3. Bringing(queue', Adopting)
    BY <1>1, <2>1, <2>2, Appended
  <2> QED BY <1>1, <2>1, <2>2, <2>3, ElsewhereKeeps
<1>4. CASE UserLid
  <2>0. PICK b \in BOOLEAN : b = ~lid
    OBVIOUS
  <2> DEFINE x == [kind |-> "lid", closed |-> b]
  <2>1. x \in Event
    BY DEF Event
  <2>2. queue' = Append(queue, x) /\ lid' = b /\ moves' = moves + 1
        /\ UNCHANGED <<ext, panel, marker, link, dir, stranded, cli, ctx,
                       debounce, pass, cmds, worker, lost>>
    BY <1>4, <2>0 DEF UserLid, Moves, files
  <2> HIDE DEF x
  <2> QED BY <1>1, <2>1, <2>2, ElsewhereKeeps
<1>5. CASE UserPlug
  <2>1. /\ queue' = queue \/ queue' = Append(queue, Ev("hotplug"))
        /\ ext' \in BOOLEAN /\ moves' = moves + 1
        /\ UNCHANGED <<lid, panel, marker, link, dir, stranded, cli, ctx,
                       debounce, pass, cmds, worker, lost>>
    BY <1>5 DEF UserPlug, Moves, files
  <2> QED BY <1>1, <2>1, Evs, ElsewhereKeeps
<1>6. CASE UserEdit
  <2>1. PICK e \in Edits : dir' = [dir EXCEPT ![e[1]] = e[2]]
    BY <1>6 DEF UserEdit
  <2>2. e[1] \in Profiles /\ e[2] \in EdpPolicy
    BY OutputsAssumption DEF EdpPolicy
  <2>3. dir' \in [Profiles -> EdpPolicy]
    BY <1>1, <2>1, <2>2
  <2>4. /\ queue' = Append(queue, Ev("profiles")) /\ moves' = moves + 1
        /\ UNCHANGED <<lid, ext, panel, marker, link, stranded, cli, ctx,
                       debounce, pass, cmds, worker, lost>>
    BY <1>6 DEF UserEdit, Moves
  <2> QED BY <1>1, <2>3, <2>4, Evs, ElsewhereKeeps
<1>7. CASE UserSwitch
  <2>1. /\ link' \in Profiles /\ cli' = TRUE /\ moves' = moves + 1
        /\ UNCHANGED <<lid, ext, panel, marker, dir, stranded, ctx, debounce,
                       pass, queue, cmds, worker, lost>>
    BY <1>7 DEF UserSwitch, Moves
  <2>2. TypeOK'
    BY <1>1, <2>1 DEF TypeOK
  <2> QED BY <2>1, <2>2 DEF Owed, LinkOwed, SwitchOwed, PanelOwed, Coherent,
          Awake
<1>8. CASE GraceExpires
  <2>1. /\ queue' = Append(queue, Ev("expired")) /\ moves' = moves + 1
        /\ UNCHANGED <<lid, ext, cli, dir, panel, marker, link, stranded, ctx,
                       debounce, pass, cmds, worker, lost>>
    BY <1>8 DEF GraceExpires, Moves, world
  <2> QED BY <1>1, <2>1, Evs, ElsewhereKeeps
<1>9. CASE SwitchReloads
  <2>1. /\ DoReload /\ cli' = FALSE
        /\ UNCHANGED <<lid, ext, marker, link, dir, ctx, debounce, pass, cmds,
                       worker>>
    BY <1>9 DEF SwitchReloads, files
  <2>2. TypeOK'
    BY <1>1, <2>1, Reloads DEF TypeOK
  <2>3. PanelOwed'
    BY <1>1, <2>1, Reloads DEF PanelOwed
  <2>4. Coherent' /\ LinkOwed' /\ SwitchOwed'
    BY <1>1, <2>1, Reloads, StandsOwed DEF Owed
  <2> QED BY <2>2, <2>3, <2>4 DEF Owed
<1>10. CASE Wakes
  <2>1. /\ queue' = Append(queue, Ev("resumed"))
        /\ UNCHANGED <<lid, ext, cli, dir, panel, marker, link, stranded, ctx,
                       debounce, pass, cmds, worker, moves, lost>>
    BY <1>10 DEF Wakes, world
  <2> QED BY <1>1, <2>1, Evs, ElsewhereKeeps
<1> QED BY <1>2, <1>3, <1>4, <1>5, <1>6, <1>7, <1>8, <1>9, <1>10 DEF User

(* The daemon's start enters its first state.                              *)
LEMMA OwedInit == Init => Owed
<1> SUFFICES ASSUME Init PROVE Owed
  OBVIOUS
<1> DEFINE b == [state |-> "LidOpen", lid |-> lid, ext |-> ext,
                 edp |-> "auto", cur |-> NoProfile, rev |-> NoRev]
           c == Ingest(b)
           d == [c EXCEPT !.state = WorldState(World(c))]
<1>1. /\ lid \in BOOLEAN /\ ext \in BOOLEAN /\ marker \in BOOLEAN
      /\ link \in Profiles \cup {NoProfile} /\ panel \in BOOLEAN
      /\ dir \in [Profiles -> EdpPolicy] /\ stranded = FALSE /\ cli = FALSE
      /\ ctx = d /\ cmds = OnEnter(d)
      /\ debounce = FALSE /\ pass = TRUE
      /\ queue = <<Ev("monitors")>> /\ worker = Idle
      /\ moves = 0 /\ lost = FALSE
  BY OutputsAssumption DEF Init, Reloaded, EdpPolicy
<1>2. b \in Context
  BY <1>1 DEF Context, State, EdpPolicy
<1> HIDE DEF b
<1>3. c \in Context /\ Adoptable(c)
  BY <1>1, <1>2, Ingests
<1> HIDE DEF c
<1>4. WorldState(World(c)) \in State \ {"Suspending"}
  BY <1>3, Derived DEF EventKind
<1>5. /\ d \in Context /\ d.state = WorldState(World(c)) /\ d.cur = c.cur
      /\ World(d) = World(c)
  BY <1>3, <1>4, ContextSet
<1> HIDE DEF d
<1>6. cmds \in Seq(Command) /\ Len(cmds) <= MaxCmds
  <2>1. Len(OnEnter(d)) \in {0, 1} /\ OnEnter(d) \in Seq(Command)
    BY Enters DEF OnEnter, SetEdp
  <2>2. MaxCmds \in Nat /\ MaxCmds >= 1
    BY OutputsAssumption
  <2>3. cmds \in Seq(Command) /\ Len(cmds) \in {0, 1}
    BY <1>1, <2>1
  <2> QED BY <2>2, <2>3
<1>7. queue \in Seq(Event) /\ worker \in Worker
  BY <1>1, Evs DEF Worker, Idle
<1>8. TypeOK
  BY <1>1, <1>5, <1>6, <1>7 DEF TypeOK
<1>9. Coherent /\ LinkOwed /\ SwitchOwed
  BY <1>1, <1>3, <1>5 DEF Coherent, LinkOwed, SwitchOwed, Adoptable
<1>10. PanelOwed
  BY <1>1, <1>4, <1>5, EntersOn DEF PanelOwed
<1> QED BY <1>8, <1>9, <1>10 DEF Owed

LEMMA OwedStep == Owed /\ [Next]_vars => Owed'
<1> SUFFICES ASSUME Owed, [Next]_vars PROVE Owed'
  OBVIOUS
<1>1. CASE Dispatch
  BY <1>1, DispatchOutcome, DispatchLinks, DispatchPanel DEF Owed
<1>2. CASE UNCHANGED vars
  BY <1>2 DEF vars, Owed, TypeOK, Coherent, LinkOwed, SwitchOwed, PanelOwed,
              Awake, Adoptable, WorkerOn, ShouldBeOn, Resolved
<1> QED BY <1>1, <1>2, ReadKeeps, MarkKeeps, FlipKeeps, ApplyKeeps,
           RehomeKeeps, WorldKeeps DEF Next, Daemon, Work

(* What OffOnlyMarked says of one step.                                    *)
OffMarked ==
  panel /\ ~panel' /\ (link # NoProfile => Layout[link] \in {"on", "unsaid"})
    => marker'

(* The worker alone writes the marker, and does so before the flip.        *)
LEMMA MarkerStep ==
  ASSUME MarkerFirst, panel \in BOOLEAN, [Next]_vars
  PROVE  MarkerFirst' /\ OffMarked
<1>1. CASE Dispatch
  BY <1>1 DEF Dispatch, MarkerFirst, OffMarked
<1>2. CASE WorkerRead
  BY <1>2 DEF WorkerRead, MarkerFirst, OffMarked, WorkerFields, Refused, files
<1>3. CASE WorkerMark
  BY <1>3 DEF WorkerMark, MarkerFirst, OffMarked, WorkerFields, Idle
<1>4. CASE WorkerFlip
  <2>1. MarkerFirst' /\ marker' = marker
    BY <1>4 DEF WorkerFlip, MarkerFirst, files
  <2>2. worker.at = "marked" => marker = ~worker.on
    BY <1>4 DEF MarkerFirst, WorkerFlip, Idle
  <2> QED BY <1>4, <2>1, <2>2
          DEF WorkerFlip, OffMarked, DoReload, DoDisable, SetPanel, Reloaded,
              Refused
<1>5. CASE WorkerApply
  BY <1>5 DEF WorkerApply, MarkerFirst, OffMarked, SetPanel, Evaluated,
              Reloaded, files
<1>6. CASE SwitchReloads
  BY <1>6 DEF SwitchReloads, DoReload, MarkerFirst, OffMarked, SetPanel,
              Reloaded, files
<1>7. CASE WorkerRehome \/ Debounced \/ ReconcilePass \/ SafetyTick \/ User
             \/ Wakes
  BY <1>7 DEF WorkerRehome, Debounced, ReconcilePass, SafetyTick, Gather, User,
              UserLid, UserPlug, UserEdit, UserSwitch, GraceExpires, Wakes,
              MarkerFirst, OffMarked, files, world
<1>8. CASE UNCHANGED vars
  BY <1>8 DEF vars, MarkerFirst, OffMarked
<1> QED BY <1>1, <1>2, <1>3, <1>4, <1>5, <1>6, <1>7, <1>8
        DEF Next, Daemon, Work

(* The two parts of the invariant together.                                *)
LEMMA InvInit == Init => Inv
<1>1. Init => MarkerFirst
  BY DEF Init, MarkerFirst
<1> QED BY <1>1, OwedInit DEF Inv

LEMMA InvStep == Inv /\ [Next]_vars => Inv' /\ OffMarked
<1> SUFFICES ASSUME Inv, [Next]_vars
             PROVE  Inv' /\ OffMarked
  OBVIOUS
<1>1. MarkerFirst' /\ OffMarked
  BY MarkerStep DEF Inv, Owed, TypeOK
<1> QED BY <1>1, OwedStep DEF Inv

-----------------------------------------------------------------------------
(* Whatever is not yet as it should be has something on its way that will  *)
(* put it right, and the marker is always written before the flip.         *)
THEOREM InvHolds == Spec => []Inv
BY InvInit, InvStep, PTL DEF Spec

(* Every variable keeps its type, and the worker's channel its capacity    *)
(* (try_send).                                                             *)
THEOREM TypeCorrect == Spec => []TypeOK
<1>1. Inv => TypeOK
  BY DEF Inv, Owed
<1> QED BY <1>1, InvHolds, PTL

(* For any profiles and any order of switches, applies, reloads and        *)
(* passes: once nothing is on its way, the profile the link names is the   *)
(* one in force (ingest_active_profile).                                   *)
THEOREM LinkAlwaysInForce == Spec => []LinkInForce
<1>1. Inv => LinkInForce
  <2> SUFFICES ASSUME Inv, Quiet, Awake, link # NoProfile PROVE ctx.cur = link
    BY DEF LinkInForce
  <2>1. ~Bringing(queue, Adopting) /\ ~cli /\ ~pass /\ ctx.state # "Suspending"
    BY DEF Quiet, Awake, Bringing
  <2> QED BY <2>1 DEF Inv, Owed, LinkOwed, Adoptable
<1> QED BY <1>1, InvHolds, PTL

(* At rest a panel that policy wants on is on.                             *)
OnAtRest == Quiet /\ Awake /\ ~lost /\ ShouldBeOn(ctx) => panel

LEMMA RestsOn == Inv => OnAtRest
<1> SUFFICES ASSUME Inv, Quiet, Awake, ~lost, ShouldBeOn(ctx) PROVE panel
  BY DEF OnAtRest
<1>1. queue = <<>> /\ cmds = <<>> /\ worker = Idle /\ ~cli
  BY DEF Quiet
<1>2. ~Bringing(queue, Announcing) /\ ~Applying(cmds) /\ ~LastOn(cmds)
  BY <1>1 DEF Bringing, Applying, LastOn
<1>3. WorkerOn
  BY <1>1, <1>2 DEF Inv, Owed, PanelOwed
<1> QED BY <1>1, <1>3 DEF WorkerOn

(* For any profiles and any interleaving of the lid, plugs, edits,         *)
(* switches, reloads, applies and passes with the worker's steps: once     *)
(* nothing is on its way, and unless a command or a re-assertion was lost, *)
(* a panel that policy wants on is on (set_edp_for and its callers).       *)
THEOREM PanelOnAtRest == Spec => []OnAtRest
BY RestsOn, InvHolds, PTL

(* In particular an open laptop on its own is dark at rest only because a  *)
(* profile's policy says so (resolve_edp under profile_edp_policy).        *)
THEOREM AlwaysDarkByProfile == Spec => []DarkOnlyByProfile
<1>1. Inv => DarkOnlyByProfile
  <2> SUFFICES ASSUME Inv, Quiet, Heard, Awake, ~lost, ~lid, ~ext, ~panel
               PROVE  ctx.edp = "disable"
    BY DEF DarkOnlyByProfile
  <2>1. ctx.state = "LidOpen"
    BY DEF Inv, Owed, Coherent, Heard, WorldState, World
  <2>2. ctx.edp \in EdpPolicy
    BY DEF Inv, Owed, TypeOK, Context
  <2>3. ~ShouldBeOn(ctx)
    BY RestsOn DEF OnAtRest
  <2> QED BY <2>1, <2>2, <2>3 DEF ShouldBeOn, Resolved, EdpPolicy
<1> QED BY <1>1, InvHolds, PTL

(* For any profiles and any interleaving of reloads with the worker's      *)
(* steps: the panel goes off only with the marker in place, or because the *)
(* profile's own render says so (the SetEdp arm of the worker).            *)
THEOREM AlwaysOffMarked == Spec => OffOnlyMarked
<1>1. Inv /\ [Next]_vars => [OffMarked]_vars
  BY InvStep
<1> QED BY <1>1, InvHolds, PTL DEF Spec, OffOnlyMarked, OffMarked
=============================================================================
