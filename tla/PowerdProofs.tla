---------------------------- MODULE PowerdProofs ----------------------------
(***************************************************************************)
(* Theorems about Powerd, for any number of clients and any profiles, with *)
(* early calls and failing state files or without.  The invariant that     *)
(* carries them is InLine: who stands in line for the apply lock, and that *)
(* the slot names the last of them.                                        *)
(***************************************************************************)
EXTENDS Powerd, TLAPS

(* A caller that joins the line for the apply lock is behind everybody.    *)
LEMMA AppendFacts ==
  ASSUME NEW S, NEW s \in Seq(S), NEW e \in S
  PROVE  /\ Append(s, e) \in Seq(S)
         /\ Append(s, e) # <<>>
         /\ Len(Append(s, e)) = Len(s) + 1
         /\ \A i \in 1..Len(s) : Append(s, e)[i] = s[i]
         /\ Append(s, e)[Len(s) + 1] = e
  OBVIOUS

(* The head of the line leaves it and changes nobody's order.              *)
LEMMA TailFacts ==
  ASSUME NEW S, NEW s \in Seq(S), s # <<>>
  PROVE  /\ Tail(s) \in Seq(S)
         /\ Len(s) \in Nat \ {0}
         /\ Len(Tail(s)) = Len(s) - 1
         /\ \A i \in 1..Len(Tail(s)) : Tail(s)[i] = s[i + 1]
         /\ Head(s) = s[1]
         /\ Tail(s) # <<>> => Len(s) > 1
         /\ Tail(s) = <<>> => Len(s) = 1
<1>1. /\ Tail(s) \in Seq(S)
      /\ Len(s) \in Nat \ {0}
      /\ Len(Tail(s)) = Len(s) - 1
      /\ \A i \in 1..Len(Tail(s)) : Tail(s)[i] = s[i + 1]
      /\ Head(s) = s[1]
  OBVIOUS
<1>2. \A t \in Seq(S) : t = <<>> <=> Len(t) = 0
  OBVIOUS
<1>3. Tail(s) = <<>> <=> Len(Tail(s)) = 0
  BY <1>1, <1>2, Zenon
<1>4. /\ Len(Tail(s)) = 0 => Len(s) = 1
      /\ Len(Tail(s)) # 0 => Len(s) > 1
  BY <1>1
<1> QED BY <1>1, <1>3, <1>4, Zenon

(* Every step keeps the values of the variables of their kinds.  That the  *)
(* slot is not empty while somebody has the lock is what makes `active` a  *)
(* profile.                                                                *)
LEMMA TypeStep ==
  ASSUME TypeOK, InLine, [Next]_vars
  PROVE  TypeOK'
<1> USE PowerdAssumption DEF TypeOK, Call, Slot, pinVars, PowerdApply,
        ApplyDgpuRuntimePm, PersistedProfile
<1>1. ASSUME NEW c \in Callers, NEW p \in Profiles, ApplyProfile(c, p)
      PROVE  TypeOK'
  <2>1. lock' \in Seq(Callers)
    BY <1>1, AppendFacts DEF ApplyProfile
  <2>2. CASE lock = <<>>
    BY <1>1, <2>1, <2>2 DEF ApplyProfile, Applies, Persists
  <2>3. CASE lock # <<>>
    BY <1>1, <2>1, <2>3 DEF ApplyProfile
  <2> QED BY <2>2, <2>3
<1>2. ASSUME NEW awake \in BOOLEAN, SetDgpuAwake(awake) PROVE TypeOK'
  BY <1>2 DEF SetDgpuAwake, Persists
<1>3. ASSUME NEW c \in Callers, Granted(c) PROVE TypeOK'
  <2>1. latest \in Profiles
    BY <1>3 DEF Granted, Holds, InLine
  <2>2. saved' \in Slot
    BY <1>3, <2>1 DEF Granted, Applies, Persists
  <2>3. calls' \in [Callers -> Call]
    BY <1>3, <2>1 DEF Granted, Applies
  <2> QED BY <1>3, <2>1, <2>2, <2>3 DEF Granted, Applies
<1>4. ASSUME NEW c \in Callers, Superseded(c) PROVE TypeOK'
  BY <1>4, TailFacts DEF Superseded, Holds, Idle
<1>5. ASSUME NEW c \in Callers, Returns(c) PROVE TypeOK'
  BY <1>5, TailFacts DEF Returns, Holds, Idle
<1>6. CASE StartupApply
  BY <1>6 DEF StartupApply
<1>7. CASE Subscribe
  BY <1>7 DEF Subscribe
<1>8. CASE Resume
  BY <1>8 DEF Resume
<1>9. CASE Start
  BY <1>9 DEF Start
<1>10. CASE SleepWake
  BY <1>10 DEF SleepWake
<1>11. CASE Ends
  <2>1. calls' \in [Callers -> Call]
    BY <1>11 DEF Ends, Idle
  <2>2. knobs' \in Slot
    BY <1>11 DEF Ends
  <2>3. lock' \in Seq(Callers)
    BY <1>11 DEF Ends
  <2> QED BY <1>11, <2>1, <2>2, <2>3 DEF Ends
<1>12. CASE UNCHANGED vars
  BY <1>12 DEF vars
<1> QED BY <1>1, <1>2, <1>3, <1>4, <1>5, <1>6, <1>7, <1>8, <1>9, <1>10,
           <1>11, <1>12 DEF Next, Serving

(* Leaving the head of the line keeps it a line.                           *)
LEMMA LeaveStep ==
  ASSUME TypeOK, InLine, NEW c \in Callers,
         lock # <<>>, Head(lock) = c,
         lock' = Tail(lock),
         calls' = [calls EXCEPT ![c] = Idle],
         UNCHANGED <<phase, latest, active>>
  PROVE  /\ InLine'
         /\ lock' = <<>> => Len(lock) = 1
         /\ lock' # <<>> => /\ Len(lock') \in 1..Len(lock')
                            /\ calls'[lock'[Len(lock')]].at = "waiting"
<1> DEFINE n == Len(lock)
<1>1. /\ n \in Nat \ {0}
      /\ Len(lock') = n - 1
      /\ \A i \in 1..Len(lock') : lock'[i] = lock[i + 1]
      /\ lock[1] = c
      /\ lock' # <<>> => n > 1
  BY TailFacts DEF TypeOK
<1>2. ASSUME NEW i \in 1..Len(lock')
      PROVE  /\ i + 1 \in 2..n
             /\ lock[i + 1] # c
             /\ lock'[i] = lock[i + 1]
             /\ calls'[lock'[i]] = calls[lock[i + 1]]
             /\ calls[lock[i + 1]].at = "waiting"
  <2>1. i + 1 \in 2..n /\ i + 1 \in 1..n /\ 1 \in 1..n /\ i + 1 # 1
    BY <1>1
  <2>2. lock[i + 1] # c
    BY <2>1, <1>1 DEF InLine
  <2>3. lock[i + 1] \in Callers
    BY <2>1 DEF TypeOK
  <2> QED BY <1>1, <2>1, <2>2, <2>3 DEF InLine, TypeOK
<1>3. \A i \in 1..Len(lock') : calls'[lock'[i]].at = "waiting"
  BY <1>2
<1>4. \A i, j \in 1..Len(lock') : lock'[i] = lock'[j] => i = j
  <2> SUFFICES ASSUME NEW i \in 1..Len(lock'), NEW j \in 1..Len(lock'),
                      lock'[i] = lock'[j]
               PROVE  i = j
    OBVIOUS
  <2>1. i + 1 \in 1..n /\ j + 1 \in 1..n
    BY <1>1
  <2> QED BY <1>1, <2>1 DEF InLine
<1>5. ASSUME lock' # <<>>
      PROVE  /\ calls'[lock'[Len(lock')]].want = latest
             /\ calls'[lock'[1]].at # "emitting"
  <2>1. Len(lock') \in 1..Len(lock') /\ 1 \in 1..Len(lock')
    BY <1>1, <1>5
  <2>2. calls'[lock'[Len(lock')]] = calls[lock[n]]
    BY <1>1, <1>2, <2>1
  <2> QED BY <1>3, <2>1, <2>2 DEF InLine
<1>6. 2..Len(lock') \subseteq 1..Len(lock')
  BY <1>1
<1>7. /\ latest' \in Profiles \/ lock' = <<>>
      /\ phase' = "down" => lock' = <<>>
  BY DEF InLine
<1>8. lock' # <<>> => Len(lock') \in 1..Len(lock')
  BY <1>1
<1>9. lock' = <<>> => Len(lock) = 1
  BY TailFacts DEF TypeOK
<1> QED BY <1>3, <1>4, <1>5, <1>6, <1>7, <1>8, <1>9 DEF InLine

(* A call that joins becomes the last of the line, the slot its own.       *)
LEMMA JoinStep ==
  ASSUME TypeOK, InLine, NEW c \in Callers, NEW p \in Profiles,
         ApplyProfile(c, p)
  PROVE  InLine'
<1> DEFINE n == Len(lock)
<1>1. /\ n \in Nat
      /\ lock' # <<>>
      /\ Len(lock') = n + 1
      /\ \A i \in 1..n : lock'[i] = lock[i]
      /\ lock'[n + 1] = c
  BY AppendFacts DEF ApplyProfile, TypeOK
<1>2. /\ latest' = p
      /\ calls[c].at = "none"
      /\ calls'[c].want = p
      /\ calls'[c].at = IF lock = <<>> THEN "emitting" ELSE "waiting"
      /\ lock = <<>> => active' = p
      /\ lock # <<>> => active' = active
      /\ \A d \in Callers \ {c} : calls'[d] = calls[d]
  BY DEF ApplyProfile, Applies, TypeOK
<1>3. lock = <<>> <=> n = 0
  BY DEF TypeOK
<1>4. ASSUME NEW i \in 1..n
      PROVE  /\ lock[i] # c
             /\ calls'[lock'[i]] = calls[lock[i]]
  <2>1. lock[i] \in Callers /\ lock[i] # c
    BY <1>2 DEF InLine, TypeOK
  <2> QED BY <1>1, <1>2, <2>1
<1>5. \A i \in 1..Len(lock') : i \in 1..n \/ i = n + 1
  BY <1>1
<1>6. \A i \in 1..Len(lock') : calls'[lock'[i]].at # "none"
  BY <1>1, <1>2, <1>4, <1>5 DEF InLine
<1>7. \A i, j \in 1..Len(lock') : lock'[i] = lock'[j] => i = j
  BY <1>1, <1>4, <1>5 DEF InLine
<1>8. \A i \in 2..Len(lock') : calls'[lock'[i]].at = "waiting"
  <2> SUFFICES ASSUME NEW i \in 2..Len(lock')
               PROVE  calls'[lock'[i]].at = "waiting"
    OBVIOUS
  <2>1. CASE i = n + 1
    BY <1>1, <1>2, <1>3, <2>1
  <2>2. CASE i \in 2..n
    <3>1. i \in 1..n
      BY <2>2, <1>1
    <3> QED BY <1>4, <2>2, <3>1 DEF InLine
  <2> QED BY <1>1, <2>1, <2>2
<1>9. calls'[lock'[Len(lock')]].want = latest'
  BY <1>1, <1>2
<1>10. calls'[lock'[1]].at = "emitting" => active' = calls'[lock'[1]].want
  <2>1. CASE n = 0
    BY <1>1, <1>2, <1>3, <2>1
  <2>2. CASE n # 0
    BY <1>1, <1>2, <1>3, <1>4, <2>2 DEF InLine
  <2> QED BY <2>1, <2>2
<1>11. phase' # "down"
  BY DEF ApplyProfile, Serves
<1> QED BY <1>2, <1>6, <1>7, <1>8, <1>9, <1>10, <1>11 DEF InLine

(* The call the lock came to applies what the slot says.                   *)
LEMMA GrantStep ==
  ASSUME TypeOK, InLine, NEW c \in Callers, Granted(c)
  PROVE  InLine'
<1>1. /\ lock' = lock /\ latest' = latest /\ lock # <<>>
      /\ phase' = phase
      /\ Head(lock) = c /\ calls[c].want = latest
      /\ active' = latest
      /\ calls'[c] = [at |-> "emitting", want |-> latest]
      /\ \A d \in Callers \ {c} : calls'[d] = calls[d]
  BY DEF Granted, Applies, Holds, TypeOK
<1>2. Len(lock) \in Nat \ {0} /\ lock[1] = c
  BY <1>1, TailFacts DEF TypeOK
<1>3. ASSUME NEW i \in 1..Len(lock)
      PROVE  /\ lock[i] \in Callers
             /\ lock[i] = c => i = 1
             /\ i = 1 => lock[i] = c
  BY <1>2 DEF InLine, TypeOK
<1>4. \A i \in 1..Len(lock) : calls'[lock[i]].at # "none"
  BY <1>1, <1>3 DEF InLine
<1>5. \A i \in 2..Len(lock) : calls'[lock[i]].at = "waiting"
  <2> SUFFICES ASSUME NEW i \in 2..Len(lock)
               PROVE  calls'[lock[i]].at = "waiting"
    OBVIOUS
  <2>1. i \in 1..Len(lock) /\ i # 1
    BY <1>2
  <2> QED BY <1>1, <1>3, <2>1 DEF InLine
<1>6. calls'[lock[Len(lock)]].want = latest
  <2>1. Len(lock) \in 1..Len(lock)
    BY <1>2
  <2> QED BY <1>1, <1>3, <2>1 DEF InLine
<1> QED BY <1>1, <1>2, <1>4, <1>5, <1>6 DEF InLine

(* Every step keeps the line for the lock a line whose last caller is the  *)
(* one the slot names.                                                     *)
LEMMA InLineStep ==
  ASSUME TypeOK, InLine, [Next]_vars
  PROVE  InLine'
<1>1. ASSUME NEW c \in Callers, NEW p \in Profiles, ApplyProfile(c, p)
      PROVE  InLine'
  BY <1>1, JoinStep
<1>2. ASSUME NEW awake \in BOOLEAN, SetDgpuAwake(awake) PROVE InLine'
  BY <1>2 DEF SetDgpuAwake, InLine
<1>3. ASSUME NEW c \in Callers, Granted(c) PROVE InLine'
  BY <1>3, GrantStep
<1>4. ASSUME NEW c \in Callers, Superseded(c) PROVE InLine'
  BY <1>4, LeaveStep DEF Superseded, Holds
<1>5. ASSUME NEW c \in Callers, Returns(c) PROVE InLine'
  BY <1>5, LeaveStep DEF Returns, Holds
<1>6. CASE StartupApply
  BY <1>6 DEF StartupApply, InLine
<1>7. CASE Subscribe
  BY <1>7 DEF Subscribe, InLine
<1>8. CASE Resume
  BY <1>8 DEF Resume, InLine, pinVars
<1>9. CASE SleepWake
  BY <1>9 DEF SleepWake, InLine
<1>10. CASE Ends
  <2>1. lock' = <<>> /\ Len(lock') = 0
    BY <1>10 DEF Ends
  <2> QED BY <2>1 DEF InLine
<1>11. CASE Start
  <2>1. lock' = <<>> /\ Len(lock') = 0
    BY <1>11 DEF Start, InLine
  <2> QED BY <2>1 DEF InLine
<1>12. CASE UNCHANGED vars
  BY <1>12 DEF vars, InLine
<1> QED BY <1>1, <1>2, <1>3, <1>4, <1>5, <1>6, <1>7, <1>8, <1>9, <1>10,
           <1>11, <1>12 DEF Next, Serving

(* A service that is down has an empty line, and any word on its disk.     *)
LEMMA Initially == Init => TypeOK /\ InLine
<1> SUFFICES ASSUME Init PROVE TypeOK /\ InLine
  OBVIOUS
<1>1. calls \in [Callers -> Call]
  BY DEF Init, Call, Idle, Slot
<1>2. lock = <<>> /\ lock \in Seq(Callers) /\ Len(lock) = 0
  BY DEF Init
<1>3. TypeOK
  BY <1>1, <1>2, PowerdAssumption DEF Init, TypeOK, Slot
<1>4. InLine
  BY <1>2 DEF InLine
<1> QED BY <1>3, <1>4

(* Whatever a state file held and whichever writes failed, every variable  *)
(* keeps a value of its kind; above all the service is on a profile, and   *)
(* the line for the apply lock is in order.                                *)
THEOREM TypeCorrect == Spec => [](TypeOK /\ InLine)
<1>1. (TypeOK /\ InLine) /\ [Next]_vars => (TypeOK /\ InLine)'
  BY TypeStep, InLineStep
<1> QED BY <1>1, Initially, PTL DEF Spec

-----------------------------------------------------------------------------
(* A superseded call never is the last of the line, and the last applies   *)
(* what the slot says: when the line is empty the last request has won.    *)
LEMMA LatestStep ==
  ASSUME TypeOK, InLine, LatestWins, [Next]_vars
  PROVE  LatestWins'
<1>1. ASSUME NEW c \in Callers, NEW p \in Profiles, ApplyProfile(c, p)
      PROVE  LatestWins'
  <2>1. lock' # <<>>
    BY <1>1, AppendFacts DEF ApplyProfile, TypeOK
  <2> QED BY <2>1 DEF LatestWins
<1>2. ASSUME NEW c \in Callers, Granted(c) PROVE LatestWins'
  BY <1>2 DEF Granted, Holds, LatestWins
<1>3. ASSUME NEW c \in Callers, Superseded(c), lock' = <<>> PROVE FALSE
  <2>1. Len(lock) = 1 /\ lock[1] = c
    BY <1>3, LeaveStep, TailFacts DEF Superseded, Holds, TypeOK
  <2> QED BY <1>3, <2>1 DEF Superseded, Holds, InLine
<1>4. ASSUME NEW c \in Callers, Returns(c), lock' = <<>>
      PROVE  active' = latest'
  <2>1. Len(lock) = 1 /\ lock[1] = c
    BY <1>4, LeaveStep, TailFacts DEF Returns, Holds, TypeOK
  <2> QED BY <1>4, <2>1 DEF Returns, Holds, InLine
<1>5. CASE Start \/ Ends
  BY <1>5 DEF Start, Ends, LatestWins
<1>6. CASE StartupApply \/ Subscribe \/ Resume \/ SleepWake
  BY <1>6 DEF StartupApply, Subscribe, Resume, SleepWake, LatestWins
<1>7. ASSUME NEW awake \in BOOLEAN, SetDgpuAwake(awake) PROVE LatestWins'
  BY <1>7 DEF SetDgpuAwake, LatestWins
<1>8. CASE UNCHANGED vars
  BY <1>8 DEF vars, LatestWins
<1> QED BY <1>1, <1>2, <1>3, <1>4, <1>5, <1>6, <1>7, <1>8
        DEF Next, Serving, LatestWins

(* When nobody is being served, the profile in force is the one asked for  *)
(* last: coalescing drops every request but that one.                      *)
THEOREM LastRequestWins == Spec => []LatestWins
<1>1. Init => LatestWins
  BY DEF Init, LatestWins
<1>2. TypeOK /\ InLine /\ LatestWins /\ [Next]_vars => LatestWins'
  BY LatestStep
<1> QED BY <1>1, <1>2, TypeCorrect, PTL DEF Spec

(* "superseded-by" is the truth: a call that applies the superseding       *)
(* profile, unless it is superseded itself, stands in line behind.         *)
THEOREM SupersededByALaterCall == Spec => SupersededTruly
<1> DEFINE P == \A c \in Callers : Superseded(c) =>
                  \E i \in 1..Len(lock') : /\ calls'[lock'[i]].at = "waiting"
                                           /\ calls'[lock'[i]].want = latest
<1>1. ASSUME TypeOK, InLine, NEW c \in Callers, Superseded(c)
      PROVE  \E i \in 1..Len(lock') : /\ calls'[lock'[i]].at = "waiting"
                                      /\ calls'[lock'[i]].want = latest
  <2>1. /\ InLine'
        /\ lock' = <<>> => Len(lock) = 1
        /\ lock' # <<>> => /\ Len(lock') \in 1..Len(lock')
                           /\ calls'[lock'[Len(lock')]].at = "waiting"
    BY <1>1, LeaveStep DEF Superseded, Holds
  <2>2. lock' # <<>>
    BY <1>1, <2>1, TailFacts DEF Superseded, Holds, InLine, TypeOK
  <2>3. calls'[lock'[Len(lock')]].want = latest
    BY <1>1, <2>1, <2>2 DEF Superseded, InLine
  <2> QED BY <2>1, <2>2, <2>3
<1>2. TypeOK /\ InLine => P
  BY <1>1
<1>3. TypeOK /\ InLine => [P]_vars
  BY <1>2
<1> QED BY <1>3, TypeCorrect, PTL DEF SupersededTruly

-----------------------------------------------------------------------------
(* Start-up hands the knobs on in order when nothing comes early.          *)
LEMMA StagedStep ==
  ASSUME ~Early, TypeOK, InLine, Staged, [Next]_vars
  PROVE  Staged'
<1> USE DEF Staged, KnobsFollow, PinFollows, pinVars, PowerdApply,
        ApplyDgpuRuntimePm
<1>1. ASSUME NEW c \in Callers, NEW p \in Profiles, ApplyProfile(c, p)
      PROVE  Staged'
  BY <1>1 DEF ApplyProfile, Applies, Serves
<1>2. ASSUME NEW awake \in BOOLEAN, SetDgpuAwake(awake) PROVE Staged'
  BY <1>2 DEF SetDgpuAwake, Serves
<1>3. ASSUME NEW c \in Callers, Granted(c) PROVE Staged'
  BY <1>3 DEF Granted, Holds, Applies
<1>4. ASSUME NEW c \in Callers, Superseded(c) \/ Returns(c) PROVE Staged'
  BY <1>4 DEF Superseded, Returns, Holds
<1>5. CASE StartupApply
  BY <1>5 DEF StartupApply
<1>6. CASE Subscribe
  BY <1>6 DEF Subscribe
<1>7. CASE Resume
  BY <1>7 DEF Resume
<1>8. CASE Start
  BY <1>8 DEF Start
<1>9. CASE SleepWake
  BY <1>9 DEF SleepWake
<1>10. CASE Ends
  BY <1>10 DEF Ends
<1>11. CASE UNCHANGED vars
  BY <1>11 DEF vars
<1> QED BY <1>1, <1>2, <1>3, <1>4, <1>5, <1>6, <1>7, <1>8, <1>9, <1>10,
           <1>11 DEF Next, Serving

(* Where no call and no suspend precedes the end of start-up, the knobs    *)
(* are the active profile's and the pin is the one last asked for,         *)
(* whatever the sleeps, the restarts and the writes that failed.           *)
THEOREM KnobsAndPinFollow ==
  ASSUME ~Early
  PROVE  Spec => [](KnobsFollow /\ PinFollows)
<1>1. Init => Staged
  BY DEF Init, Staged, KnobsFollow, PinFollows
<1>2. TypeOK /\ InLine /\ Staged /\ [Next]_vars => Staged'
  BY StagedStep
<1>3. Staged => KnobsFollow /\ PinFollows
  BY DEF Staged
<1> QED BY <1>1, <1>2, <1>3, TypeCorrect, PTL DEF Spec

(* The pin alone: the discrete GPU stays pinned from the call that pins it *)
(* to the one that releases it (apply_dgpu_runtime_pm after a resume and   *)
(* at start-up), so long as the state file could be written.               *)
THEOREM PinAlwaysFollows ==
  ASSUME ~Early
  PROVE  Spec => []PinFollows
BY KnobsAndPinFollow, PTL
=============================================================================
