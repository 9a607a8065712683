-------------------------- MODULE VaultSessionProofs --------------------------
(***************************************************************************)
(* Proofs about VaultSession, for any number of pending submissions, any   *)
(* durations and any bounds.                                               *)
(***************************************************************************)
EXTENDS VaultSession, TLAPS

USE DEF screen, window

LEMMA DelayType == ASSUME NEW n \in Nat PROVE Delay(n) \in Nat
  <1>1. Doubled \in [1..9 -> Nat]
    BY DEF Doubled
  <1>2. n # 0 => Min2(n, MaxDelay + 1) \in 1..9
    BY SessionAssumption DEF SessionAssumption, Min2
  <1> QED
    BY <1>1, <1>2 DEF Delay

(* An attempt begins, or takes its next step. *)
Begins(f) == (f \in Gated /\ Submit(f)) \/ (f \in Panels /\ Restore(f))

Ends(f) ==
  \/ f \in Gated /\ Answer(f)
  \/ f \in Panels /\ (Refused(f) \/ Rebuild(f))

LEMMA NextSplit ==
  ASSUME Next
  PROVE  \/ \E f \in Entries : Begins(f) \/ Ends(f)
         \/ Dismiss \/ StartRekey \/ EndRekey
         \/ Restart \/ Lock \/ Activity \/ AutoTimer
         \/ Hide \/ Show \/ BackgroundTimer \/ RequestArrives \/ RequestEnds
         \/ Tick
  <1>1. Gated \subseteq Entries /\ Panels \subseteq Entries
    BY DEF Entries
  <1>2. ASSUME NEW f \in Gated PROVE /\ Submit(f) => Begins(f)
                                     /\ Answer(f) => Ends(f)
    BY Zenon DEF Begins, Ends
  <1>3. ASSUME NEW p \in Panels PROVE /\ Restore(p) => Begins(p)
                                      /\ Refused(p) \/ Rebuild(p) => Ends(p)
    BY Zenon DEF Begins, Ends
  <1> QED
    BY <1>1, <1>2, <1>3 DEF Next

LEMMA OpenedType ==
  ASSUME TypeOK, Opened
  PROVE  /\ unlocked' \in BOOLEAN /\ panel' \in BOOLEAN /\ hidden' \in BOOLEAN
         /\ stayed' \in BOOLEAN /\ filled' \in BOOLEAN
         /\ deadline' \in Nat /\ bg' \in Nat /\ request' \in Nat /\ hiddenAt' \in Nat
  <1>1. unlocked' = TRUE /\ panel' = FALSE
    BY DEF Opened
  <1>2. CASE unlocked
    <2>1. UNCHANGED <<deadline, hidden, bg, request, hiddenAt, stayed, filled>>
      BY <1>2 DEF Opened
    <2> QED
      BY <1>1, <2>1 DEF TypeOK
  <1>3. CASE ~unlocked
    <2>1. /\ deadline' = now + AutoLock /\ bg' = 0
          /\ request' = 0 \/ request' = request
          /\ UNCHANGED <<hidden, hiddenAt, stayed, filled>>
      BY <1>3 DEF Opened
    <2>2. deadline' \in Nat /\ bg' \in Nat /\ request' \in Nat
      BY <2>1, SessionAssumption DEF SessionAssumption, TypeOK
    <2> QED
      BY <1>1, <2>1, <2>2 DEF TypeOK
  <1> QED
    BY <1>2, <1>3

LEMMA TypeInit == ASSUME Init PROVE TypeOK
  BY DEF Init, TypeOK, Stages

LEMMA TypeStep == ASSUME TypeOK, [Next]_vars PROVE TypeOK'
  <1> USE SessionAssumption DEF SessionAssumption
  <1>1. CASE UNCHANGED vars
    BY <1>1 DEF TypeOK, vars
  <1>2. ASSUME NEW f \in Entries, Begins(f) PROVE TypeOK'
    BY <1>2 DEF TypeOK, Begins, Submit, Restore, Stages
  <1>3. ASSUME NEW f \in Entries, Ends(f) PROVE TypeOK'
    <2>1. now' = now /\ rekey' = rekey /\ panel' \in BOOLEAN
      BY <1>3 DEF TypeOK, Ends, Answer, Refused, Rebuild, OpenSession, Opened
    <2>2. tries' \in [Entries -> {"none", "pending", "emptied", "filling"}]
          /\ \A g \in Entries : tries'[g] \in Stages(g)
      BY <1>3 DEF TypeOK, Ends, Answer, Refused, Rebuild, Stages
    <2>3. CASE OpenSession
      BY <2>1, <2>2, <2>3, OpenedType DEF TypeOK, OpenSession
    <2>4. CASE RecordFailure
      BY <2>1, <2>2, <2>4, DelayType DEF TypeOK, RecordFailure
    <2>5. CASE UNCHANGED <<lockout, missedAt, misses, unlocked, deadline, window>>
      BY <2>1, <2>2, <2>5 DEF TypeOK
    <2>6. CASE CloseSession /\ UNCHANGED <<lockout, missedAt, misses, hidden, request, hiddenAt, filled>>
      BY <2>1, <2>2, <2>6 DEF TypeOK, CloseSession
    <2> QED
      BY <1>3, <2>3, <2>4, <2>5, <2>6 DEF Ends, Answer, Refused, Rebuild
  <1>3a. CASE Dismiss \/ StartRekey
    BY <1>3a DEF TypeOK, Dismiss, StartRekey
  <1>3b. CASE EndRekey
    <2>1. now' = now /\ rekey' = FALSE /\ tries' = tries
      BY <1>3b DEF EndRekey
    <2>2. CASE Opened /\ lockout' \in [failed : Nat, until : Nat] /\ missedAt' \in Nat /\ misses' \in Nat
      BY <2>1, <2>2, OpenedType DEF TypeOK
    <2>3. CASE UNCHANGED <<lockout, missedAt, misses, panel, unlocked, deadline, window>>
      BY <2>1, <2>3 DEF TypeOK
    <2> QED
      BY <1>3b, <2>2, <2>3 DEF EndRekey, OpenSession, TypeOK
  <1>4. CASE Restart
    BY <1>4 DEF TypeOK, Restart, CloseSession, Stages
  <1>5. CASE Lock \/ AutoTimer \/ BackgroundTimer
    <2>1. CloseSession /\ UNCHANGED <<now, screen, panel, rekey, hidden, request, hiddenAt, filled>>
      BY <1>5 DEF Lock, AutoTimer, BackgroundTimer
    <2> QED
      BY <2>1 DEF TypeOK, CloseSession
  <1>6. CASE Activity
    BY <1>6 DEF TypeOK, Activity
  <1>7. CASE Hide
    BY <1>7 DEF TypeOK, Hide, Schedule
  <1>8. CASE Show
    <2>1. /\ hidden' = FALSE /\ bg' = 0
          /\ UNCHANGED <<now, screen, panel, rekey, request, hiddenAt, filled>>
      BY <1>8 DEF Show
    <2>2. \/ unlocked' = FALSE /\ deadline' = 0 /\ stayed' = FALSE
          \/ UNCHANGED <<unlocked, deadline, stayed>>
      BY <1>8, Zenon DEF Show
    <2>3. deadline' \in Nat
      BY <2>2 DEF TypeOK
    <2>4. unlocked' \in BOOLEAN /\ stayed' \in BOOLEAN
      BY <2>2, Zenon DEF TypeOK
    <2> QED
      BY <2>1, <2>3, <2>4 DEF TypeOK
  <1>9. CASE RequestArrives \/ RequestEnds
    <2>1. CASE RequestArrives
      BY <2>1 DEF TypeOK, RequestArrives
    <2>2. CASE RequestEnds
      BY <2>2 DEF TypeOK, RequestEnds
    <2> QED
      BY <1>9, <2>1, <2>2
  <1>10. CASE Tick
    BY <1>10 DEF TypeOK, Tick
  <1> QED
    BY <1>1, <1>2, <1>3, <1>3a, <1>3b, <1>4, <1>5, <1>6, <1>7, <1>8, <1>9, <1>10, NextSplit

(* Every reachable state is well typed. *)
THEOREM SessionTyped == Spec => []TypeOK
  <1> QED
    BY TypeInit, TypeStep, PTL DEF Spec

-----------------------------------------------------------------------------
(* What is stored of the failures is what they have earned, and nothing    *)
(* but an opened vault takes it back.                                      *)
LockoutEarned == lockout.until = missedAt + Delay(misses) /\ lockout.failed = misses

LEMMA EarnedStep == ASSUME TypeOK, LockoutEarned, [Next]_vars PROVE LockoutEarned'
  <1>1. CASE OpenSession
    BY <1>1 DEF OpenSession, LockoutEarned, Delay
  <1>2. CASE RecordFailure
    BY <1>2 DEF RecordFailure, LockoutEarned
  <1>3. CASE UNCHANGED <<lockout, missedAt, misses>>
    BY <1>3 DEF LockoutEarned
  <1>4. ASSUME NEW f \in Entries, Begins(f) \/ Ends(f)
        PROVE  OpenSession \/ RecordFailure \/ UNCHANGED <<lockout, missedAt, misses>>
    BY <1>4 DEF Begins, Ends, Submit, Restore, Answer, Refused, Rebuild
  <1>5. CASE ~ \E f \in Entries : Begins(f) \/ Ends(f)
    <2>1. OpenSession \/ UNCHANGED <<lockout, missedAt, misses>>
      BY <1>5, NextSplit DEF vars, Dismiss, StartRekey, EndRekey, Restart, Lock, Activity,
         AutoTimer, Hide, Show, BackgroundTimer, RequestArrives, RequestEnds, Tick
    <2> QED
      BY <1>1, <1>3, <2>1
  <1> QED
    BY <1>1, <1>2, <1>3, <1>4, <1>5

(* No pending submission, prompt or restart gets an attempt of the form or *)
(* of the prompt in before the delay of the failures since the last        *)
(* success is over, wherever they were recorded.  The restore panel does   *)
(* not wait.                                                               *)
THEOREM DelayIsServed == Spec => AttemptsWaitOutTheDelay
  <1>1. Init => LockoutEarned
    BY DEF Init, LockoutEarned, Delay
  <1>2. TypeOK /\ LockoutEarned /\ [Next]_vars
        => [\A f \in Gated : (tries[f] = "none" /\ tries'[f] # "none")
              => now >= missedAt + Delay(misses)]_vars
    <2> SUFFICES ASSUME TypeOK, LockoutEarned, Next, NEW f \in Gated,
                        tries[f] = "none", tries'[f] # "none"
                 PROVE  now >= missedAt + Delay(misses)
      OBVIOUS
    <2>0. f \in Entries /\ f \notin Panels
      BY SessionAssumption DEF SessionAssumption, Entries, Gated
    <2>1. ASSUME NEW g \in Gated, Submit(g)
          PROVE  now >= missedAt + Delay(misses)
      BY <2>1 DEF Submit, LockoutEarned
    <2>2. ASSUME NEW g \in Entries, Ends(g) PROVE FALSE
      BY <2>0, <2>2 DEF Ends, Answer, Refused, Rebuild, TypeOK
    <2>3. ASSUME NEW g \in Panels, Restore(g) PROVE FALSE
      BY <2>0, <2>3 DEF Restore, TypeOK
    <2>4. CASE Restart
      BY <2>0, <2>4 DEF Restart
    <2>5. \/ \E g \in Entries : Begins(g) \/ Ends(g)
          \/ Restart
          \/ UNCHANGED tries
      BY NextSplit DEF Dismiss, StartRekey, EndRekey, Lock, Activity, AutoTimer, Hide, Show,
         BackgroundTimer, RequestArrives, RequestEnds, Tick
    <2> QED
      BY <2>1, <2>2, <2>3, <2>4, <2>5 DEF Begins
  <1> QED
    BY <1>1, <1>2, EarnedStep, SessionTyped, PTL DEF Spec, AttemptsWaitOutTheDelay

-----------------------------------------------------------------------------
(* A background lock is armed by the window that was hidden last, and only *)
(* an autofill request in the meantime disarms it.                         *)
WindowFits ==
  /\ now # 0
  /\ stayed => unlocked
  /\ ~hidden => bg = 0
  /\ bg # 0 => bg = hiddenAt + Background
  /\ hidden /\ stayed /\ ~filled => bg = hiddenAt + Background /\ bg # 0 /\ request = 0

LEMMA WindowStep == ASSUME TypeOK, WindowFits, [Next]_vars PROVE WindowFits'
  <1> USE SessionAssumption DEF SessionAssumption
  <1>1. CASE UNCHANGED vars
    BY <1>1 DEF WindowFits, vars
  <1>o. CASE Opened /\ now' = now
    BY <1>o DEF WindowFits, Opened, TypeOK
  <1>u. CASE UNCHANGED <<now, unlocked, window>>
    BY <1>u DEF WindowFits
  <1>c. CASE CloseSession /\ UNCHANGED <<now, hidden, request, hiddenAt, filled>>
    BY <1>c DEF WindowFits, CloseSession
  <1>2. ASSUME NEW f \in Entries, Begins(f) \/ Ends(f) PROVE WindowFits'
    <2>1. \/ Opened /\ now' = now
          \/ UNCHANGED <<now, unlocked, window>>
          \/ CloseSession /\ UNCHANGED <<now, hidden, request, hiddenAt, filled>>
      BY <1>2 DEF Begins, Ends, Submit, Restore, Answer, Refused, Rebuild, OpenSession,
         RecordFailure
    <2> QED
      BY <1>o, <1>u, <1>c, <2>1
  <1>3. CASE Dismiss \/ StartRekey \/ EndRekey
    <2>1. (Opened /\ now' = now) \/ UNCHANGED <<now, unlocked, window>>
      BY <1>3 DEF Dismiss, StartRekey, EndRekey, OpenSession
    <2> QED
      BY <1>o, <1>u, <2>1
  <1>4. CASE Restart \/ Lock \/ AutoTimer \/ BackgroundTimer
    BY <1>4 DEF WindowFits, Restart, Lock, AutoTimer, BackgroundTimer, CloseSession
  <1>5. CASE Activity
    BY <1>5 DEF WindowFits, Activity
  <1>6. CASE Hide
    BY <1>6 DEF WindowFits, Hide, Schedule, TypeOK
  <1>7. CASE Show
    BY <1>7 DEF WindowFits, Show, TypeOK
  <1>8. CASE RequestArrives \/ RequestEnds
    BY <1>8 DEF WindowFits, RequestArrives, RequestEnds, TypeOK
  <1>9. CASE Tick
    BY <1>9 DEF WindowFits, Tick, TypeOK
  <1> QED
    BY <1>1, <1>2, <1>3, <1>4, <1>5, <1>6, <1>7, <1>8, <1>9, NextSplit

LEMMA WindowInit == ASSUME Init PROVE WindowFits
  BY DEF Init, WindowFits

(* Only coming back shows the window again. *)
LEMMA OnlyShowShows == ASSUME Next, hidden, ~hidden' PROVE Show
  <1>1. ASSUME NEW f \in Entries, Begins(f) \/ Ends(f) PROVE hidden' = hidden
    BY <1>1 DEF Begins, Ends, Submit, Restore, Answer, Refused, Rebuild, OpenSession, Opened,
       RecordFailure
  <1>2. CASE Dismiss \/ StartRekey \/ EndRekey
    BY <1>2 DEF Dismiss, StartRekey, EndRekey, OpenSession, Opened
  <1> QED
    BY <1>1, <1>2, NextSplit DEF Restart, Lock, Activity, AutoTimer, Hide, BackgroundTimer,
       RequestArrives, RequestEnds, Tick

(* Who comes back late to a vault left open finds it locked.               *)
THEOREM LateReturnLocked == Spec => LateReturnFindsItLocked
  <1>1. TypeOK /\ WindowFits /\ [Next]_vars
        => [(hidden /\ ~hidden' /\ stayed /\ ~filled /\ now >= hiddenAt + Background)
              => ~unlocked']_vars
    BY OnlyShowShows DEF WindowFits, Show, Passed
  <1> QED
    BY <1>1, WindowInit, WindowStep, SessionTyped, PTL DEF Spec, LateReturnFindsItLocked

(* Who comes back early is not locked out by a deadline that was not set.  *)
THEOREM EarlyReturnOpen == Spec => EarlyReturnFindsItOpen
  <1>1. TypeOK /\ WindowFits /\ [Next]_vars
        => [(hidden /\ ~hidden' /\ unlocked /\ ~unlocked')
              => now >= deadline \/ now >= hiddenAt + Background]_vars
    BY OnlyShowShows DEF WindowFits, Show, Passed
  <1> QED
    BY <1>1, WindowInit, WindowStep, SessionTyped, PTL DEF Spec, EarlyReturnFindsItOpen
===============================================================================
