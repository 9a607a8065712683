----------------------------- MODULE VaultSession -----------------------------
(***************************************************************************)
(* When the vault is open: the attempts of the lock screen and the lockout *)
(* after failures (LockScreen.tsx, vaultSession.ts), the automatic lock    *)
(* after inactivity (useAutoLock.ts), the lock of an application that was  *)
(* left in the background (useRuntimeSecurity.ts, App.tsx) and the autofill*)
(* request that suppresses it (useAndroidAutofillCoordinator.ts).          *)
(*                                                                         *)
(* Two ways open the vault without the lockout being read: the panel that  *)
(* rebuilds an unreadable vault (LockScreenVaultRecovery.tsx), and a       *)
(* change of password or a migration that was begun in an open session     *)
(* and ends after it was locked (storage.ts).  The recovery dialog         *)
(* (LockScreenRecoveryModal.tsx) calls that change of password, which      *)
(* refuses without an open session.  The first setup and the reset, which  *)
(* begin another vault, are left out.                                      *)
(*                                                                         *)
(* Time is a number of ticks, and a deadline of 0 is one that is not set.  *)
(* A timer fires at its time or later: nothing makes the clock wait for    *)
(* it, because a hidden window is throttled and a computer sleeps.         *)
(***************************************************************************)
EXTENDS Naturals

CONSTANTS
  Forms,      \* submissions of the password form that can be pending at once
  Biometric,  \* the biometric prompt: one at a time
  Panels,     \* rebuilds by the restore panel that can be pending at once
  AutoLock,   \* the configured duration of inactivity, in ticks
  Background, \* backgroundLockDelayMs: at most AutoLock
  Fresh,      \* ANDROID_AUTOFILL_REQUEST_MAX_AGE_MS
  MaxDelay,   \* where the exponent of the lockout delay stops growing
  MaxTime,    \* bound: the clock stops here
  MaxMisses   \* bound: failures that are recorded

ASSUME SessionAssumption ==
  /\ Biometric \notin Forms /\ Panels \cap (Forms \cup {Biometric}) = {}
  /\ AutoLock \in Nat \ {0} /\ Background \in 1..AutoLock /\ Fresh \in Nat \ {0}
  /\ MaxDelay \in 0..8 /\ MaxTime \in Nat /\ MaxMisses \in Nat

VARIABLES
  now,       \* the clock
  lockout,   \* LockoutState, as localStorage holds it
  tries,     \* tries[f]: how far the attempt f has come
  panel,     \* showVaultRecovery: the restore panel is shown
  rekey,     \* a change of password or a migration is under way
  unlocked,  \* getVaultSessionSnapshot()
  deadline,  \* useAutoLock: deadline
  hidden,    \* document.hidden
  bg,        \* useRuntimeSecurity: backgroundDeadline and lockTimer
  request,   \* the pending autofill request: when it expires
  missedAt,  \* history: when the last failure was recorded
  misses,    \* history: failures recorded since the vault was last opened
  hiddenAt,  \* history: when the window was last hidden
  stayed,    \* history: was the vault open then, and has it been open since?
  filled     \* history: was a request pending while the window was hidden?

screen == <<lockout, tries, missedAt, misses>>
window == <<hidden, bg, request, hiddenAt, stayed, filled>>
vars == <<now, screen, panel, rekey, unlocked, deadline, window>>

Gated == Forms \cup {Biometric}
Entries == Gated \cup Panels

(* A verification is pending; a rebuild that has proved the password has   *)
(* emptied the vault, or is filling it.                                    *)
Stages(f) == {"none", "pending"} \cup IF f \in Panels THEN {"emptied", "filling"} ELSE {}

Min2(m, n) == IF m < n THEN m ELSE n

(* recordFailedUnlockAttempt: one tick, doubled at every failure, and no   *)
(* longer after the exponent has reached its bound, which is 8.            *)
Doubled == <<1, 2, 4, 8, 16, 32, 64, 128, 256>>
Delay(n) == IF n = 0 THEN 0 ELSE Doubled[Min2(n, MaxDelay + 1)]

Init ==
  /\ now = 1
  /\ lockout = [failed |-> 0, until |-> 0] /\ tries = [f \in Entries |-> "none"]
  /\ missedAt = 0 /\ misses = 0 /\ panel = FALSE /\ rekey = FALSE
  /\ unlocked = FALSE /\ deadline = 0
  /\ hidden = FALSE /\ bg = 0 /\ request = 0
  /\ hiddenAt = 0 /\ stayed = FALSE /\ filled = FALSE

-----------------------------------------------------------------------------
(* The lock screen. *)

(* handleSubmit and handleBiometricUnlock: the lockout is read first, then *)
(* the verification is awaited.                                            *)
Submit(f) ==
  /\ ~unlocked /\ tries[f] = "none"
  /\ lockout.until <= now
  /\ tries' = [tries EXCEPT ![f] = "pending"]
  /\ UNCHANGED <<now, lockout, missedAt, misses, panel, rekey, unlocked, deadline, window>>

(* handleRestore: the password is tried on a snapshot, whatever the lockout. *)
Restore(p) ==
  /\ ~unlocked /\ panel /\ tries[p] = "none"
  /\ tries' = [tries EXCEPT ![p] = "pending"]
  /\ UNCHANGED <<now, lockout, missedAt, misses, panel, rekey, unlocked, deadline, window>>

Dismiss ==
  /\ panel
  /\ panel' = FALSE
  /\ UNCHANGED <<now, screen, rekey, unlocked, deadline, window>>

(* When the vault was locked, the lock screen goes, the effects of the     *)
(* unlocked application start, and a request that waited too long is       *)
(* dropped.                                                                *)
Opened ==
  /\ unlocked' = TRUE /\ panel' = FALSE
  /\ IF unlocked
     THEN UNCHANGED <<deadline, window>>
     ELSE /\ deadline' = now + AutoLock
          /\ bg' = 0
          /\ request' = IF request <= now THEN 0 ELSE request
          /\ UNCHANGED <<hidden, hiddenAt, stayed, filled>>

(* openVaultSession forgets the failures. *)
OpenSession ==
  /\ Opened
  /\ lockout' = [failed |-> 0, until |-> 0]
  /\ misses' = 0 /\ missedAt' = 0

RecordFailure ==
  /\ misses < MaxMisses
  /\ lockout' = [failed |-> lockout.failed + 1, until |-> now + Delay(lockout.failed + 1)]
  /\ missedAt' = now /\ misses' = misses + 1
  /\ UNCHANGED <<unlocked, deadline, window>>

(* The answer is applied whatever has happened since: another attempt may  *)
(* have opened the vault, and it may have been locked again.  The password *)
(* is right, or wrong, or the vault file cannot be read: that shows the    *)
(* restore panel, unless the screen that asked is gone.                    *)
Answer(f) ==
  /\ tries[f] = "pending"
  /\ tries' = [tries EXCEPT ![f] = "none"]
  /\ \/ OpenSession
     \/ RecordFailure /\ UNCHANGED panel
     \/ /\ panel' \in {panel, ~unlocked}
        /\ UNCHANGED <<lockout, missedAt, misses, unlocked, deadline, window>>
  /\ UNCHANGED <<now, rekey>>

(* A wrong password is recorded, which leaves a delay, so the panel closes; *)
(* a snapshot that is gone or cannot be read leaves it open.                *)
Refused(p) ==
  /\ tries[p] = "pending"
  /\ tries' = [tries EXCEPT ![p] = "none"]
  /\ \/ RecordFailure /\ panel' = FALSE
     \/ UNCHANGED <<lockout, missedAt, misses, panel, unlocked, deadline, window>>
  /\ UNCHANGED <<now, rekey>>

-----------------------------------------------------------------------------
(* lock, a reload, and the effects they end. *)
CloseSession == unlocked' = FALSE /\ deadline' = 0 /\ bg' = 0 /\ stayed' = FALSE

(* rebuildVaultFromSnapshot: the vault is emptied and the session closed,  *)
(* one is opened for the items of the snapshot, and closed again; setting  *)
(* up the empty vault may fail.                                            *)
Rebuild(p) ==
  /\ \/ /\ tries[p] = "pending" /\ tries' = [tries EXCEPT ![p] = "emptied"]
        /\ CloseSession
        /\ UNCHANGED <<lockout, missedAt, misses, panel, hidden, request, hiddenAt, filled>>
     \/ /\ tries[p] = "emptied" /\ tries' = [tries EXCEPT ![p] = "filling"]
        /\ OpenSession
     \/ /\ tries[p] = "emptied" /\ tries' = [tries EXCEPT ![p] = "none"]
        /\ UNCHANGED <<lockout, missedAt, misses, panel, unlocked, deadline, window>>
     \/ /\ tries[p] = "filling" /\ tries' = [tries EXCEPT ![p] = "none"]
        /\ CloseSession /\ panel' = FALSE
        /\ UNCHANGED <<lockout, missedAt, misses, hidden, request, hiddenAt, filled>>
  /\ UNCHANGED <<now, rekey>>

(* changeMasterPassword and migrateActiveVaultStorageToWaSqlite need an    *)
(* open session, and in the end set its key, whether it is still open or   *)
(* not: the one by openVaultSession, the other in place.                   *)
StartRekey ==
  /\ unlocked /\ ~rekey
  /\ rekey' = TRUE
  /\ UNCHANGED <<now, screen, panel, unlocked, deadline, window>>

EndRekey ==
  /\ rekey
  /\ rekey' = FALSE
  /\ \/ OpenSession
     \/ Opened /\ UNCHANGED <<lockout, missedAt, misses>>
     \/ UNCHANGED <<lockout, missedAt, misses, panel, unlocked, deadline, window>>
  /\ UNCHANGED <<now, tries>>

Lock ==
  /\ unlocked
  /\ CloseSession
  /\ UNCHANGED <<now, screen, panel, rekey, hidden, request, hiddenAt, filled>>

(* Mutant of Restart: the failures live in memory only. *)
RestartForgets ==
  /\ CloseSession /\ panel' = FALSE /\ rekey' = FALSE
  /\ lockout' = [failed |-> 0, until |-> 0]
  /\ tries' = [f \in Entries |-> "none"]
  /\ UNCHANGED <<now, missedAt, misses, hidden, request, hiddenAt, filled>>

(* Mutant of Restart: the prompt is not reset with the form. *)
RestartKeepsPrompt ==
  /\ CloseSession /\ panel' = FALSE /\ rekey' = FALSE
  /\ tries' = [f \in Forms \cup Panels |-> "none"]
  /\ UNCHANGED <<now, lockout, missedAt, misses, hidden, request, hiddenAt, filled>>

(* The page is reloaded, in front or behind: the lockout is stored. *)
Restart ==
  /\ CloseSession /\ panel' = FALSE /\ rekey' = FALSE
  /\ tries' = [f \in Entries |-> "none"]
  /\ UNCHANGED <<now, lockout, missedAt, misses, hidden, request, hiddenAt, filled>>

(* resetTimer: any activity moves the deadline. *)
Activity ==
  /\ unlocked /\ ~hidden
  /\ deadline' = now + AutoLock
  /\ UNCHANGED <<now, screen, panel, rekey, unlocked, window>>

(* Mutant of AutoTimer: a hidden window does not count down. *)
AutoTimerPaused ==
  /\ unlocked /\ ~hidden /\ now >= deadline
  /\ CloseSession
  /\ UNCHANGED <<now, screen, panel, rekey, hidden, request, hiddenAt, filled>>

(* The callback armed by armTimer; before the deadline it only arms again. *)
AutoTimer ==
  /\ unlocked /\ now >= deadline
  /\ CloseSession
  /\ UNCHANGED <<now, screen, panel, rekey, hidden, request, hiddenAt, filled>>

(* shieldAndScheduleLock: nothing is scheduled while a request is pending. *)
Schedule == IF unlocked /\ request = 0 THEN now + Background ELSE bg

Hide ==
  /\ ~hidden
  /\ hidden' = TRUE /\ hiddenAt' = now /\ stayed' = unlocked
  /\ filled' = (request # 0)
  /\ bg' = Schedule
  /\ UNCHANGED <<now, screen, panel, rekey, unlocked, deadline, request>>

BackgroundTimer ==
  /\ unlocked /\ bg # 0 /\ now >= bg
  /\ CloseSession
  /\ UNCHANGED <<now, screen, panel, rekey, hidden, request, hiddenAt, filled>>

(* Mutant of Passed: coming back cancels the background lock. *)
PassedIdleOnly == now >= deadline

(* Mutant of Passed: a deadline that is not set is an early one. *)
PassedUnset == now >= deadline \/ now >= bg

(* visibilitychange: both handlers run, and each locks when its own        *)
(* deadline has passed.                                                    *)
Passed == now >= deadline \/ (bg # 0 /\ now >= bg)

Show ==
  /\ hidden
  /\ hidden' = FALSE
  /\ bg' = 0
  /\ IF unlocked /\ Passed
     THEN unlocked' = FALSE /\ deadline' = 0 /\ stayed' = FALSE
     ELSE UNCHANGED <<unlocked, deadline, stayed>>
  /\ UNCHANGED <<now, screen, panel, rekey, request, hiddenAt, filled>>

(* A request makes the effect run again, which clears its timer; so does   *)
(* the end of the request: approved, cancelled or expired.                 *)
RequestArrives ==
  /\ request = 0
  /\ request' = now + Fresh
  /\ filled' = TRUE
  /\ bg' = 0
  /\ UNCHANGED <<now, screen, panel, rekey, unlocked, deadline, hidden, hiddenAt, stayed>>

RequestEnds ==
  /\ unlocked /\ request # 0
  /\ request' = 0
  /\ bg' = 0
  /\ UNCHANGED <<now, screen, panel, rekey, unlocked, deadline, hidden, hiddenAt, stayed, filled>>

Tick ==
  /\ now < MaxTime
  /\ now' = now + 1
  /\ UNCHANGED <<screen, panel, rekey, unlocked, deadline, window>>

Next ==
  \/ \E f \in Gated : Submit(f) \/ Answer(f)
  \/ \E p \in Panels : Restore(p) \/ Refused(p) \/ Rebuild(p)
  \/ Dismiss \/ StartRekey \/ EndRekey
  \/ Restart \/ Lock \/ Activity \/ AutoTimer
  \/ Hide \/ Show \/ BackgroundTimer \/ RequestArrives \/ RequestEnds
  \/ Tick

Spec == Init /\ [][Next]_vars

(* Timers fire in the end, and verifications end. *)
FairSpec ==
  /\ Spec
  /\ WF_vars(AutoTimer) /\ WF_vars(BackgroundTimer) /\ WF_vars(Tick)
  /\ \A f \in Gated : WF_vars(Answer(f))

-----------------------------------------------------------------------------
(* Properties. *)

TypeOK ==
  /\ now \in Nat /\ deadline \in Nat /\ bg \in Nat /\ request \in Nat
  /\ lockout \in [failed : Nat, until : Nat]
  /\ tries \in [Entries -> {"none", "pending", "emptied", "filling"}]
  /\ \A f \in Entries : tries[f] \in Stages(f)
  /\ panel \in BOOLEAN /\ rekey \in BOOLEAN
  /\ unlocked \in BOOLEAN /\ hidden \in BOOLEAN
  /\ stayed \in BOOLEAN /\ filled \in BOOLEAN
  /\ missedAt \in Nat /\ misses \in Nat /\ hiddenAt \in Nat

(* The password form and the biometric prompt start no attempt before the  *)
(* delay is over that all failures since the last success have earned,     *)
(* those of the restore panel included, not even after a restart           *)
(* (LockScreen.tsx:186-191 and 245-251).  The restore panel itself and the *)
(* end of a change of password do not wait.                                *)
AttemptsWaitOutTheDelay ==
  [][\A f \in Gated :
       (tries[f] = "none" /\ tries'[f] # "none") => now >= missedAt + Delay(misses)]_vars

(* An open vault whose deadline has passed does not stay open: it is       *)
(* locked, or somebody is there, hidden window or not (useAutoLock.ts:55). *)
IdleVaultLocks == []<>(~unlocked \/ now < deadline)

(* Who comes back after the background delay to the vault that was left    *)
(* open finds it locked, timers throttled or not, unless an autofill       *)
(* request was pending in between (useRuntimeSecurity.ts:117-131).         *)
LateReturnFindsItLocked ==
  [][(hidden /\ ~hidden' /\ stayed /\ ~filled /\ now >= hiddenAt + Background)
       => ~unlocked']_vars

(* Who comes back in time does not find it locked: coming back locks only  *)
(* when a deadline that was really set has passed (N-1).                   *)
EarlyReturnFindsItOpen ==
  [][(hidden /\ ~hidden' /\ unlocked /\ ~unlocked')
       => now >= deadline \/ now >= hiddenAt + Background]_vars
===============================================================================
