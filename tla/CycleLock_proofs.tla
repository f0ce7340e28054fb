--------------------------- MODULE CycleLock_proofs ---------------------------
(***************************************************************************)
(* Theorems about CycleLock.  The lock directory is taken over by age, so  *)
(* what keeps two cycles apart is the timetable: the theorems name the     *)
(* condition on it that each guarantee needs, for every number of          *)
(* schedulers.  The schedule that the repository installs satisfies it; a  *)
(* second scheduler for the same minute and a start by hand do not, and    *)
(* the runs two_schedulers and kickstart show what then happens.           *)
(***************************************************************************)
EXTENDS CycleLock, TLAPS

-----------------------------------------------------------------------------
(* The inductive invariant *)

Firing == {"mkdir", "age", "clobber", "retry", "cooldown", "start"}
Holding == {"cooldown", "start", "cycle", "survey", "finish", "exit"}
Beating == {"cycle", "survey", "finish", "exit"}

Capped(e, cap) == IF e < cap THEN e ELSE cap

\* w fired at minute a, e minutes ago, and the lock and the heartbeat say so.
Since(w, a, e) ==
  /\ minute = Later(a, e) /\ lock_age = Capped(e, LockTTL)
  /\ pc[w] = "cycle" => e = run_age[w] /\ e <= MaxCycle
  /\ pc[w] = "survey" => e <= MaxCycle + run_age[w] /\ run_age[w] <= MaxSurvey
  /\ pc[w] # "cycle" => MinCycle <= e
  /\ pc[w] # "exit" => heartbeat.phase = "cycle_start" /\ heartbeat.age = Capped(e, BeatCap)

FiringNow == \A w \in Wrappers : pc[w] \in Firing => minute \in FireAt[w]

JustLocked == \A w \in Wrappers : pc[w] \in {"cooldown", "start"} => lock_age = 0

RunsSince ==
  \A w \in Wrappers : pc[w] \in Beating =>
    \E a \in FireAt[w], e \in 0 .. Longest : Since(w, a, e)

RunnerBeats == \A w \in Wrappers : pc[w] \in Beating <=> heartbeat.pid = w

\* A lock found stale is nobody's.
StaleIsNobodys ==
  \A w \in Wrappers : pc[w] = "clobber" => \A v \in Wrappers : pc[v] \notin Holding

\* What the watchdog unlocks belongs to what it kills.
KillsTheHolder ==
  /\ watchdog.pc \in {"kill", "unlock"} => minute = WatchAt
  /\ watchdog.pc = "kill" =>
       /\ watchdog.target \in Wrappers
       /\ \A w \in Wrappers : pc[w] \in Holding => w = watchdog.target
  /\ watchdog.pc = "unlock" => \A w \in Wrappers : pc[w] \notin Holding

EndedSince ==
  \A w \in Wrappers : end_by = w /\ end_age < Cooldown =>
    \E a \in FireAt[w], e \in MinCycle .. Longest : minute = Later(a, e + end_age)

IInv == /\ TypeOK /\ FiringNow /\ RunnerHoldsLock /\ JustLocked /\ RunsSince
        /\ RunnerBeats /\ StaleIsNobodys /\ KillsTheHolder /\ EndedSince

-----------------------------------------------------------------------------
(* Types *)

LEMMA CapsAreNat == EndCap \in Nat /\ BeatCap \in Nat /\ RunCap \in Nat
  BY LockAssumption DEF EndCap, BeatCap, RunCap

LEMMA OlderType ==
  ASSUME NEW cap \in Nat, NEW age \in 0 .. cap PROVE Older(age, cap) \in 0 .. cap
  BY DEF Older

LEMMA HeartbeatFields ==
  ASSUME TypeOK
  PROVE  /\ heartbeat.phase \in {"missing", "cycle_start", "cycle_end"}
         /\ heartbeat.pid \in Wrappers \union {None}
         /\ heartbeat.age \in 0 .. BeatCap
         /\ heartbeat = [phase |-> heartbeat.phase, pid |-> heartbeat.pid, age |-> heartbeat.age]
  BY DEF TypeOK

LEMMA PidGoneFields ==
  ASSUME TypeOK, NEW w, PidGone(w)
  PROVE  /\ heartbeat' \in [phase : {"missing", "cycle_start", "cycle_end"},
                            pid : Wrappers \union {None}, age : 0 .. BeatCap]
         /\ heartbeat'.phase = heartbeat.phase /\ heartbeat'.age = heartbeat.age
         /\ heartbeat'.pid = IF heartbeat.pid = w THEN None ELSE heartbeat.pid
<1> PICK ph \in {"missing", "cycle_start", "cycle_end"}, p \in Wrappers \union {None},
         g \in 0 .. BeatCap :
      heartbeat = [phase |-> ph, pid |-> p, age |-> g]
  BY HeartbeatFields
<1>1. heartbeat' = [phase |-> ph, pid |-> IF p = w THEN None ELSE p, age |-> g]
  BY DEF PidGone
<1> QED BY <1>1

LEMMA TypeInit == Init => TypeOK
<1>1. /\ EndCap \in 0 .. EndCap /\ BeatCap \in 0 .. BeatCap /\ 0 \in 0 .. RunCap
      /\ 0 \in 0 .. LockTTL /\ 0 \in 0 .. MaxDeaths
  BY LockAssumption, CapsAreNat
<1> SUFFICES ASSUME Init PROVE TypeOK
  OBVIOUS
<1>2. heartbeat \in [phase : {"missing", "cycle_start", "cycle_end"},
                     pid : Wrappers \union {None}, age : 0 .. BeatCap]
  BY <1>1 DEF Init
<1>3. watchdog \in [pc : WatchPCs, target : Wrappers \union {None}]
  BY DEF Init, WatchPCs
<1>4. pc \in [Wrappers -> PCs] /\ run_age \in [Wrappers -> 0 .. RunCap]
  BY <1>1 DEF Init, PCs
<1>5. /\ minute \in 0 .. Slot - 1 /\ flag \in BOOLEAN /\ deaths \in 0 .. MaxDeaths
      /\ lockdir \in Wrappers \union {None} /\ lock_age \in 0 .. LockTTL
      /\ end_age \in 0 .. EndCap /\ end_by \in Wrappers \union {None}
  BY <1>1 DEF Init
<1> QED BY <1>2, <1>3, <1>4, <1>5 DEF TypeOK

LEMMA WrapperTypes ==
  ASSUME TypeOK, NEW w \in Wrappers, Fire(w) \/ Step(w) \/ Die(w)
  PROVE  TypeOK'
<1> USE LockAssumption DEF TypeOK, Goto, PCs, time, lock, watch
<1>0. 0 \in 0 .. RunCap /\ 0 \in 0 .. EndCap /\ 0 \in 0 .. BeatCap
  BY CapsAreNat
<1>1. CASE Fire(w)
  BY <1>1 DEF Fire
<1>2. CASE TryLock(w)
  BY <1>2 DEF TryLock, Make
<1>3. CASE CheckAge(w)
  BY <1>3 DEF CheckAge
<1>4. CASE Clobber(w)
  BY <1>4 DEF Clobber, Remove
<1>5. CASE Retry(w)
  BY <1>5 DEF Retry, Make
<1>6. CASE CheckCooldown(w)
  BY <1>6 DEF CheckCooldown, Remove
<1>7. CASE Start(w)
  BY <1>0, <1>7 DEF Start, Beat
<1>8. CASE EndCycle(w)
  BY <1>0, <1>8 DEF EndCycle
<1>9. CASE EndSurvey(w)
  BY <1>0, <1>9 DEF EndSurvey
<1>10. CASE Finish(w)
  BY <1>0, <1>10 DEF Finish, Beat
<1>11. CASE Exit(w)
  BY <1>11, PidGoneFields DEF Exit, Remove
<1>12. CASE Die(w)
  BY <1>0, <1>12, PidGoneFields DEF Die
<1> QED BY <1>1, <1>2, <1>3, <1>4, <1>5, <1>6, <1>7, <1>8, <1>9, <1>10, <1>11, <1>12 DEF Step

LEMMA WatchTypes == TypeOK /\ WatchStep => TypeOK'
<1> SUFFICES ASSUME TypeOK, WatchStep PROVE TypeOK'
  OBVIOUS
<1>1. CASE Watch
  <2>1. Verdict \in WatchPCs
    BY DEF Verdict, WatchPCs
  <2>2. watchdog' \in [pc : WatchPCs, target : Wrappers \union {None}] /\ flag' \in BOOLEAN
    BY <1>1, <2>1, HeartbeatFields DEF Watch, TypeOK
  <2> QED BY <1>1, <2>2 DEF Watch, TypeOK, time, lock
<1>2. CASE WatchKill
  <2>1. PICK p \in WatchPCs, v \in Wrappers \union {None} : watchdog = [pc |-> p, target |-> v]
    BY DEF TypeOK
  <2>2. watchdog' = [pc |-> "unlock", target |-> v] /\ watchdog.target = v
    BY <1>2, <2>1 DEF WatchKill
  <2>3. 0 \in 0 .. RunCap /\ 0 \in 0 .. LockTTL
    BY CapsAreNat, LockAssumption
  <2>4. CASE heartbeat.pid = v
    BY <1>2, <2>2, <2>3, <2>4, PidGoneFields DEF WatchKill, Remove, TypeOK, PCs, WatchPCs, time
  <2>5. CASE heartbeat.pid # v
    BY <1>2, <2>2, <2>5 DEF WatchKill, TypeOK, WatchPCs, time, lock
  <2> QED BY <2>4, <2>5
<1>3. CASE WatchUnlock
  <2>1. PICK p \in WatchPCs, v \in Wrappers \union {None} : watchdog = [pc |-> p, target |-> v]
    BY DEF TypeOK
  <2>2. watchdog' = [pc |-> "yes", target |-> v]
    BY <1>3, <2>1 DEF WatchUnlock
  <2> QED BY <1>3, <2>2, LockAssumption DEF WatchUnlock, Remove, TypeOK, WatchPCs, time
<1> QED BY <1>1, <1>2, <1>3 DEF WatchStep

\* The heartbeat after a minute.
LEMMA TickFields ==
  ASSUME TypeOK, Tick
  PROVE  /\ heartbeat' \in [phase : {"missing", "cycle_start", "cycle_end"},
                            pid : Wrappers \union {None}, age : 0 .. BeatCap]
         /\ heartbeat'.phase = heartbeat.phase /\ heartbeat'.pid = heartbeat.pid
         /\ heartbeat'.age = Older(heartbeat.age, BeatCap)
<1> PICK ph \in {"missing", "cycle_start", "cycle_end"}, p \in Wrappers \union {None},
         g \in 0 .. BeatCap :
      heartbeat = [phase |-> ph, pid |-> p, age |-> g]
  BY HeartbeatFields
<1>1. heartbeat' = [phase |-> ph, pid |-> p, age |-> Older(g, BeatCap)]
  BY DEF Tick
<1>2. Older(g, BeatCap) \in 0 .. BeatCap
  BY CapsAreNat, OlderType
<1> QED BY <1>1, <1>2

LEMMA MinuteAfter ==
  ASSUME NEW m \in 0 .. Slot - 1
  PROVE  (m + 1) % Slot = IF m + 1 = Slot THEN 0 ELSE m + 1
<1>1. Slot \in Nat \ {0}
  BY LockAssumption
<1>2. CASE m + 1 = Slot
  BY <1>1, <1>2
<1>3. CASE m + 1 # Slot
  BY <1>1, <1>3
<1> QED BY <1>2, <1>3

LEMMA TickTypes == TypeOK /\ Tick => TypeOK'
<1> SUFFICES ASSUME TypeOK, Tick PROVE TypeOK'
  OBVIOUS
<1>1. minute' \in 0 .. Slot - 1
  BY MinuteAfter, LockAssumption DEF TypeOK, Tick
<1>2. lock_age' \in 0 .. LockTTL /\ end_age' \in 0 .. EndCap
  BY LockAssumption, CapsAreNat, OlderType DEF TypeOK, Tick
<1>3. run_age' \in [Wrappers -> 0 .. RunCap]
  <2>1. \A w \in Wrappers : Older(run_age[w], RunCap) \in 0 .. RunCap /\ 0 \in 0 .. RunCap
    BY CapsAreNat, OlderType DEF TypeOK
  <2> QED BY <2>1 DEF Tick
<1>4. watchdog' \in [pc : WatchPCs, target : Wrappers \union {None}]
  BY DEF Tick, WatchPCs
<1> QED BY <1>1, <1>2, <1>3, <1>4, TickFields DEF TypeOK, Tick

LEMMA NextTypes == TypeOK /\ [Next]_vars => TypeOK'
<1> SUFFICES ASSUME TypeOK, [Next]_vars PROVE TypeOK'
  OBVIOUS
<1>1. CASE UNCHANGED vars
  BY <1>1 DEF vars, TypeOK
<1> QED BY <1>1, WrapperTypes, WatchTypes, TickTypes DEF Next

\* The types of the variables, whatever the timetable.
THEOREM TypeCorrect == Spec => []TypeOK
  BY TypeInit, NextTypes, PTL DEF Spec

-----------------------------------------------------------------------------
(* The lock *)

LEMMA InitIInv == Init => IInv
<1> SUFFICES ASSUME Init PROVE IInv
  OBVIOUS
<1>1. None \notin Wrappers
  BY LockAssumption
<1>2. \A w \in Wrappers : pc[w] = "idle"
  BY DEF Init
<1> QED BY <1>1, <1>2, TypeInit
        DEF Init, IInv, FiringNow, RunnerHoldsLock, JustLocked, RunsSince, RunnerBeats,
            StaleIsNobodys, KillsTheHolder, EndedSince, Firing, Holding, Beating

\* What w's cycle knows of its age is not disturbed by what others do.
LEMMA SinceKept ==
  ASSUME NEW w \in Wrappers, RunsSince, pc[w] \in Beating,
         pc'[w] = pc[w], run_age'[w] = run_age[w], minute' = minute, lock_age' = lock_age,
         heartbeat'.phase = heartbeat.phase, heartbeat'.age = heartbeat.age
  PROVE  \E a \in FireAt[w], e \in 0 .. Longest : Since(w, a, e)'
<1> PICK a \in FireAt[w], e \in 0 .. Longest : Since(w, a, e)
  BY DEF RunsSince
<1>1. Since(w, a, e)'
  BY DEF Since
<1> QED BY <1>1

\* Nobody else fires, and nobody else holds the lock that w holds.
LEMMA FiresAlone ==
  ASSUME IInv, Apart, NEW v \in Wrappers, NEW w \in Wrappers,
         pc[v] \in Firing, pc[w] \in Firing
  PROVE  v = w
  BY DEF IInv, FiringNow, Apart

LEMMA HoldsAlone ==
  ASSUME IInv, NEW v \in Wrappers, NEW w \in Wrappers, pc[v] \in Holding, pc[w] \in Holding
  PROVE  v = w
  BY DEF IInv, RunnerHoldsLock, Holding

\* The lock that a contender finds stale is nobody's: whoever holds it fired
\* less than LockTTL ago, or is done.
LEMMA StaleFree ==
  ASSUME IInv, Apart, NEW w \in Wrappers, pc[w] = "age", Stale, NEW v \in Wrappers
  PROVE  pc[v] \notin Holding
<1> SUFFICES ASSUME pc[v] \in Holding PROVE FALSE
  OBVIOUS
<1>1. v # w /\ pc[w] \in Firing
  BY DEF Holding, Firing
<1>2. pc[v] \notin Firing
  BY <1>1, FiresAlone
<1>3. pc[v] \in Beating
  BY <1>2 DEF Holding, Firing, Beating
<1>4. PICK a \in FireAt[v], e \in 0 .. Longest : Since(v, a, e)
  BY <1>3 DEF IInv, RunsSince
<1>5. lock_age >= LockTTL
  BY LockAssumption DEF IInv, RunnerHoldsLock, Holding, Stale
<1>6. e \in LockTTL .. Longest
  BY <1>4, <1>5, LockAssumption DEF Since, Capped, Longest
<1>7. minute \in FireAt[w] /\ minute = Later(a, e)
  BY <1>1, <1>4 DEF IInv, FiringNow, Since
<1> QED BY <1>1, <1>6, <1>7 DEF Apart

\* Where the processes are after an action of w.
LEMMA GotoFields ==
  ASSUME TypeOK, NEW w \in Wrappers, NEW to, pc' = [pc EXCEPT ![w] = to]
  PROVE  \A v \in Wrappers : pc'[v] = IF v = w THEN to ELSE pc[v]
  BY DEF TypeOK

\* An action of w that only moves w on, neither into the lock nor out of it.
LEMMA MovesOn ==
  ASSUME IInv, NEW w \in Wrappers, NEW to,
         pc[w] \notin Holding, to \notin Holding,
         to \in Firing => minute \in FireAt[w],
         to = "clobber" => \A v \in Wrappers : pc[v] \notin Holding,
         pc' = [pc EXCEPT ![w] = to],
         UNCHANGED <<time, lock, heartbeat, run_age, watch>>, TypeOK'
  PROVE  IInv'
<1> USE DEF time, lock, watch
<1>1. \A v \in Wrappers : pc'[v] = IF v = w THEN to ELSE pc[v]
  BY GotoFields DEF IInv
<1>2. pc[w] \notin Beating /\ to \notin Beating
  BY DEF Holding, Beating
<1>3. FiringNow'
  BY <1>1 DEF IInv, FiringNow
<1>4. RunnerHoldsLock' /\ JustLocked'
  BY <1>1 DEF IInv, RunnerHoldsLock, JustLocked, Holding
<1>5. RunsSince'
  <2> SUFFICES ASSUME NEW v \in Wrappers, (pc[v] \in Beating)'
               PROVE  \E a \in FireAt[v], e \in 0 .. Longest : Since(v, a, e)'
    BY DEF RunsSince
  <2>1. v # w /\ pc'[v] = pc[v] /\ pc[v] \in Beating
    BY <1>1, <1>2
  <2> QED BY <2>1, SinceKept DEF IInv
<1>6. RunnerBeats'
  BY <1>1, <1>2 DEF IInv, RunnerBeats
<1>7. StaleIsNobodys'
  BY <1>1 DEF IInv, StaleIsNobodys
<1>8. KillsTheHolder' /\ EndedSince'
  BY <1>1 DEF IInv, KillsTheHolder, EndedSince
<1> QED BY <1>3, <1>4, <1>5, <1>6, <1>7, <1>8 DEF IInv

\* The watchdog does nothing while a wrapper is at the lock.
LEMMA WatchdogAway ==
  ASSUME IInv, Apart, NEW w \in Wrappers, pc[w] \in Firing
  PROVE  watchdog.pc \notin {"kill", "unlock"}
  BY DEF IInv, KillsTheHolder, FiringNow, Apart

\* Taking the lock when there is none.
LEMMA Locks ==
  ASSUME IInv, Apart, NEW w \in Wrappers, pc[w] \in Firing, pc[w] \notin Holding,
         lockdir = None, Make(w), pc' = [pc EXCEPT ![w] = "cooldown"],
         UNCHANGED <<time, heartbeat, run_age, watch>>, TypeOK'
  PROVE  IInv'
<1> USE DEF time, watch
<1>1. \A v \in Wrappers : pc'[v] = IF v = w THEN "cooldown" ELSE pc[v]
  BY GotoFields DEF IInv
<1>2. \A v \in Wrappers : pc[v] \notin Holding /\ pc[v] \notin Beating
  BY LockAssumption DEF IInv, RunnerHoldsLock, Holding, Beating
<1>3. \A v \in Wrappers : pc'[v] \in Holding => v = w
  BY <1>1, <1>2
<1>4. FiringNow'
  BY <1>1 DEF IInv, FiringNow
<1>5. RunnerHoldsLock' /\ JustLocked'
  BY <1>1, <1>2, <1>3 DEF RunnerHoldsLock, JustLocked, Holding, Make
<1>6. RunsSince' /\ RunnerBeats'
  BY <1>1, <1>2 DEF IInv, RunsSince, RunnerBeats, Beating
<1>7. StaleIsNobodys'
  <2>1. \A v \in Wrappers : pc'[v] # "clobber"
    BY <1>1, FiresAlone DEF Firing
  <2> QED BY <2>1 DEF StaleIsNobodys
<1>8. KillsTheHolder' /\ EndedSince'
  BY WatchdogAway DEF IInv, KillsTheHolder, EndedSince
<1> QED BY <1>4, <1>5, <1>6, <1>7, <1>8 DEF IInv

\* Leaving the lock, by the EXIT trap or without it.
LEMMA Leaves ==
  ASSUME IInv, NEW w \in Wrappers, pc' = [pc EXCEPT ![w] = "idle"],
         \/ UNCHANGED lock
         \/ Remove /\ \A v \in Wrappers : pc[v] \in Holding => v = w,
         PidGone(w) \/ (heartbeat' = heartbeat /\ pc[w] \notin Beating),
         \A v \in Wrappers : v = w \/ run_age'[v] = run_age[v],
         UNCHANGED <<time, flag>>,
         \/ watchdog' = watchdog
         \/ watchdog'.pc = "unlock" /\ minute = WatchAt
              /\ \A v \in Wrappers : pc[v] \in Holding => v = w,
         TypeOK'
  PROVE  IInv'
<1> USE DEF time, lock
<1>1. \A v \in Wrappers : pc'[v] = IF v = w THEN "idle" ELSE pc[v]
  <2>1. TypeOK
    BY DEF IInv
  <2>2. pc \in [Wrappers -> PCs]
    BY <2>1 DEF TypeOK
  <2> QED BY <2>2
<1>2. "idle" \notin Holding /\ "idle" \notin Firing /\ "idle" \notin Beating
      /\ Beating \subseteq Holding
  BY DEF Holding, Firing, Beating
<1>3. \A v \in Wrappers : pc'[v] \in Holding => UNCHANGED lock
  BY <1>1, <1>2
<1>4. /\ heartbeat'.phase = heartbeat.phase /\ heartbeat'.age = heartbeat.age
      /\ \A v \in Wrappers : v # w => (heartbeat'.pid = v <=> heartbeat.pid = v)
      /\ heartbeat'.pid # w
  <2>1. CASE PidGone(w)
    BY <2>1, PidGoneFields, LockAssumption DEF IInv
  <2>2. CASE heartbeat' = heartbeat /\ pc[w] \notin Beating
    BY <2>2 DEF IInv, RunnerBeats
  <2> QED BY <2>1, <2>2
<1>5. FiringNow'
  BY <1>1, <1>2 DEF IInv, FiringNow
<1>6. RunnerHoldsLock' /\ JustLocked'
  BY <1>1, <1>2, <1>3 DEF IInv, RunnerHoldsLock, JustLocked, Holding
<1>7. RunsSince'
  <2> SUFFICES ASSUME NEW v \in Wrappers, (pc[v] \in Beating)'
               PROVE  \E a \in FireAt[v], e \in 0 .. Longest : Since(v, a, e)'
    BY DEF RunsSince
  <2>1. v # w /\ pc'[v] = pc[v] /\ pc[v] \in Beating
    BY <1>1, <1>2
  <2>2. UNCHANGED lock
    BY <1>2, <1>3, <2>1
  <2> QED BY <1>4, <2>1, <2>2, SinceKept DEF IInv
<1>8. RunnerBeats'
  BY <1>1, <1>2, <1>4 DEF IInv, RunnerBeats
<1>9. StaleIsNobodys'
  BY <1>1, <1>2 DEF IInv, StaleIsNobodys
<1>10. KillsTheHolder' /\ EndedSince'
  BY <1>1, <1>2 DEF IInv, KillsTheHolder, EndedSince
<1> QED BY <1>5, <1>6, <1>7, <1>8, <1>9, <1>10 DEF IInv

\* A step of the one that holds the lock.
LEMMA GoesOn ==
  ASSUME IInv, NEW w \in Wrappers, pc[w] \in Holding, NEW to \in Beating,
         pc' = [pc EXCEPT ![w] = to], UNCHANGED <<minute, lock, watch>>,
         heartbeat'.pid = w, EndedSince', TypeOK',
         \E a \in FireAt[w], e \in 0 .. Longest : Since(w, a, e)'
  PROVE  IInv'
<1> USE DEF lock, watch
<1>1. \A v \in Wrappers : pc'[v] = IF v = w THEN to ELSE pc[v]
  <2>1. TypeOK
    BY DEF IInv
  <2> QED BY <2>1, GotoFields
<1>2. \A v \in Wrappers : v # w => pc[v] \notin Holding
  BY HoldsAlone
<1>3. to \in Holding /\ to \notin Firing /\ Beating \subseteq Holding
      /\ to \notin {"cooldown", "start", "clobber"}
  BY DEF Beating, Holding, Firing
<1>4. \A v \in Wrappers : pc'[v] \in Holding => v = w
  BY <1>1, <1>2
<1>5. FiringNow'
  BY <1>1, <1>3 DEF IInv, FiringNow
<1>6. RunnerHoldsLock' /\ JustLocked'
  <2>1. lockdir = w
    BY DEF IInv, RunnerHoldsLock, Holding
  <2> QED BY <2>1, <1>1, <1>3, <1>4 DEF IInv, RunnerHoldsLock, JustLocked, Holding
<1>7. RunsSince' /\ RunnerBeats'
  BY <1>1, <1>3, <1>4 DEF RunsSince, RunnerBeats
<1>8. StaleIsNobodys'
  BY <1>1, <1>3 DEF IInv, StaleIsNobodys
<1>9. KillsTheHolder'
  BY <1>1, <1>4 DEF IInv, KillsTheHolder
<1> QED BY <1>5, <1>6, <1>7, <1>8, <1>9 DEF IInv

LEMMA StartIInv ==
  ASSUME IInv, Bounded, NEW w \in Wrappers, Start(w), TypeOK' PROVE IInv'
<1> USE DEF time, lock, watch
<1>1. /\ pc[w] = "start" /\ pc' = [pc EXCEPT ![w] = "cycle"] /\ pc'[w] = "cycle"
      /\ heartbeat' = [phase |-> "cycle_start", pid |-> w, age |-> 0]
      /\ run_age'[w] = 0 /\ UNCHANGED <<time, lock, watch>>
  BY DEF Start, Goto, Beat, IInv, TypeOK
<1>2. minute \in FireAt[w] /\ lock_age = 0
  BY <1>1 DEF IInv, FiringNow, JustLocked, Firing
<1>3. minute \in 0 .. Slot - 1 /\ LockTTL \in Nat /\ MaxCycle \in Nat /\ 0 \in 0 .. Longest
  BY LockAssumption DEF IInv, TypeOK, Longest
<1>4. Since(w, minute, 0)'
  <2>1. Later(minute, 0) = minute /\ Capped(0, LockTTL) = 0 /\ Capped(0, BeatCap) = 0
    BY <1>3, CapsAreNat, LockAssumption DEF Later, Capped
  <2>2. \A m : m = minute => Since(w, m, 0)'
    BY <1>1, <1>2, <1>3, <2>1 DEF Since
  <2> QED BY <1>1, <2>2
<1>5. \E a \in FireAt[w], e \in 0 .. Longest : Since(w, a, e)'
  <2>1. \A m : m = minute => Since(w, m, 0)'
    BY <1>1, <1>4
  <2> QED BY <1>2, <1>3, <2>1
<1>6. EndedSince'
  BY <1>1 DEF IInv, EndedSince
<1> QED BY <1>1, <1>5, <1>6, GoesOn DEF Holding, Beating

LEMMA EndCycleIInv ==
  ASSUME IInv, NEW w \in Wrappers, EndCycle(w), TypeOK' PROVE IInv'
<1> USE DEF time, lock, watch
<1>1. /\ pc[w] = "cycle" /\ pc' = [pc EXCEPT ![w] = "survey"] /\ pc'[w] = "survey"
      /\ run_age[w] \in MinCycle .. MaxCycle /\ run_age'[w] = 0
      /\ UNCHANGED <<time, lock, heartbeat, watch>>
  BY DEF EndCycle, Goto, IInv, TypeOK
<1>2. PICK a \in FireAt[w], e \in 0 .. Longest : Since(w, a, e)
  BY <1>1 DEF IInv, RunsSince, Beating
<1>3. Since(w, a, e)'
  BY <1>1, <1>2, LockAssumption DEF Since
<1>4. EndedSince' /\ heartbeat'.pid = w
  BY <1>1 DEF IInv, EndedSince, RunnerBeats, Beating
<1> QED BY <1>1, <1>3, <1>4, GoesOn DEF Holding, Beating

LEMMA EndSurveyIInv ==
  ASSUME IInv, NEW w \in Wrappers, EndSurvey(w), TypeOK' PROVE IInv'
<1> USE DEF time, lock, watch
<1>1. /\ pc[w] = "survey" /\ pc' = [pc EXCEPT ![w] = "finish"] /\ pc'[w] = "finish"
      /\ UNCHANGED <<time, lock, heartbeat, watch>>
  BY DEF EndSurvey, Goto, IInv, TypeOK
<1>2. PICK a \in FireAt[w], e \in 0 .. Longest : Since(w, a, e)
  BY <1>1 DEF IInv, RunsSince, Beating
<1>3. Since(w, a, e)'
  BY <1>1, <1>2 DEF Since
<1>4. EndedSince' /\ heartbeat'.pid = w
  BY <1>1 DEF IInv, EndedSince, RunnerBeats, Beating
<1> QED BY <1>1, <1>3, <1>4, GoesOn DEF Holding, Beating

LEMMA FinishIInv ==
  ASSUME IInv, NEW w \in Wrappers, Finish(w), TypeOK' PROVE IInv'
<1> USE DEF time, lock, watch
<1>1. /\ pc[w] = "finish" /\ pc' = [pc EXCEPT ![w] = "exit"] /\ pc'[w] = "exit"
      /\ heartbeat' = [phase |-> "cycle_end", pid |-> w, age |-> 0]
      /\ end_age' = 0 /\ end_by' = w /\ UNCHANGED <<minute, lock, watch>>
  BY DEF Finish, Goto, Beat, IInv, TypeOK
<1>2. PICK a \in FireAt[w], e \in 0 .. Longest : Since(w, a, e)
  BY <1>1 DEF IInv, RunsSince, Beating
<1>3. Since(w, a, e)'
  BY <1>1, <1>2 DEF Since
<1>4. EndedSince'
  <2>1. e \in MinCycle .. Longest /\ minute' = Later(a, e + 0)
    BY <1>1, <1>2, LockAssumption DEF Since, Longest
  <2> QED BY <1>1, <2>1 DEF EndedSince
<1> QED BY <1>1, <1>3, <1>4, GoesOn DEF Holding, Beating

LEMMA TickIInv ==
  ASSUME IInv, Bounded, Tick, TypeOK' PROVE IInv'
<1>1. /\ \A w \in Wrappers : MayRunOn(w)
      /\ pc' = pc /\ lockdir' = lockdir /\ end_by' = end_by
      /\ minute' = (minute + 1) % Slot /\ minute \in 0 .. Slot - 1
      /\ watchdog'.pc = "ready"
  BY DEF Tick, IInv, TypeOK
<1>2. \A w \in Wrappers : pc[w] \in {"idle", "cycle", "survey"}
  BY <1>1 DEF MayRunOn
<1>3. /\ Slot \in Nat \ {0} /\ LockTTL \in Nat /\ Cooldown \in Nat /\ MinCycle \in Nat
      /\ MaxCycle \in Nat /\ MaxSurvey \in Nat /\ Longest \in Nat
      /\ \A w \in Wrappers : FireAt[w] \subseteq 0 .. Slot - 1
  BY LockAssumption DEF Longest
<1>4. minute' = IF minute + 1 = Slot THEN 0 ELSE minute + 1
  BY <1>1, MinuteAfter
\* Minutes go round the slot.
<1>5. ASSUME NEW w \in Wrappers, NEW a \in FireAt[w], NEW d \in Nat, d + 1 <= Longest + Cooldown,
             minute = Later(a, d)
      PROVE  minute' = Later(a, d + 1)
  <2>1. a \in 0 .. Slot - 1 /\ d + 1 <= Slot
    BY <1>3, <1>5 DEF Bounded
  <2> QED BY <1>3, <1>4, <1>5, <2>1 DEF Later
<1>6. FiringNow' /\ JustLocked' /\ StaleIsNobodys' /\ KillsTheHolder'
  BY <1>1, <1>2 DEF FiringNow, JustLocked, StaleIsNobodys, KillsTheHolder, Firing
<1>7. RunnerHoldsLock' /\ RunnerBeats'
  BY <1>1, TickFields DEF IInv, RunnerHoldsLock, RunnerBeats
<1>8. RunsSince'
  <2> SUFFICES ASSUME NEW w \in Wrappers, (pc[w] \in Beating)'
               PROVE  \E a \in FireAt[w], e \in 0 .. Longest : Since(w, a, e)'
    BY DEF RunsSince
  <2>1. pc[w] \in {"cycle", "survey"} /\ pc[w] \in Beating
    BY <1>1, <1>2 DEF Beating
  <2>2. PICK a \in FireAt[w], e \in 0 .. Longest : Since(w, a, e)
    BY <2>1 DEF IInv, RunsSince
  <2>3. /\ run_age[w] \in Nat /\ run_age'[w] = run_age[w] + 1
        /\ pc[w] = "cycle" => run_age[w] < MaxCycle
        /\ pc[w] = "survey" => run_age[w] < MaxSurvey
    <3>1. /\ pc[w] = "cycle" => run_age[w] < MaxCycle
          /\ pc[w] = "survey" => run_age[w] < MaxSurvey
      BY <1>1, <2>1 DEF MayRunOn, Bounded
    <3>2. run_age[w] \in 0 .. RunCap
      BY DEF IInv, TypeOK
    <3>3. run_age[w] < RunCap
      BY <1>3, <2>1, <3>1, <3>2, CapsAreNat DEF RunCap
    <3>4. run_age'[w] = Older(run_age[w], RunCap)
      BY <2>1 DEF Tick
    <3> QED BY <3>1, <3>2, <3>3, <3>4, CapsAreNat DEF Older
  <2>4. e + 1 \in 0 .. Longest
    BY <1>3, <2>1, <2>2, <2>3 DEF Since, Longest
  <2>5. minute' = Later(a, e + 1)
    <3>1. minute = Later(a, e) /\ e \in Nat /\ e + 1 <= Longest + Cooldown
      BY <1>3, <2>2, <2>4 DEF Since
    <3> QED BY <1>5, <3>1
  <2>6. lock_age' = Capped(e + 1, LockTTL)
    <3>1. lockdir = w
      BY <2>1 DEF IInv, RunnerHoldsLock
    <3>2. lock_age = Capped(e, LockTTL) /\ lock_age' = Older(lock_age, LockTTL)
      BY <2>2, <3>1, LockAssumption DEF Since, Tick
    <3> QED BY <1>3, <3>2 DEF Older, Capped
  <2>7. heartbeat'.phase = "cycle_start" /\ heartbeat'.age = Capped(e + 1, BeatCap)
    <3>1. heartbeat'.phase = "cycle_start" /\ heartbeat.age = Capped(e, BeatCap)
      BY <2>1, <2>2, TickFields DEF Since, IInv
    <3>2. heartbeat'.age = Older(heartbeat.age, BeatCap)
      BY TickFields DEF IInv
    <3> QED BY <1>3, <3>1, <3>2, CapsAreNat DEF Older, Capped
  <2>8. Since(w, a, e + 1)'
    BY <1>1, <1>3, <2>1, <2>2, <2>3, <2>5, <2>6, <2>7 DEF Since
  <2> QED BY <2>4, <2>8
<1>9. EndedSince'
  <2> SUFFICES ASSUME NEW w \in Wrappers, end_by' = w, end_age' < Cooldown
               PROVE  \E a \in FireAt[w], e \in MinCycle .. Longest :
                        minute' = Later(a, e + end_age')
    BY DEF EndedSince
  <2>1. end_age \in 0 .. EndCap /\ EndCap >= Cooldown /\ end_age' = Older(end_age, EndCap)
    BY <1>3, LockAssumption DEF IInv, TypeOK, EndCap, Tick
  <2>2. end_age < Cooldown /\ end_age' = end_age + 1
    BY <1>3, <2>1, CapsAreNat DEF Older
  <2>3. PICK a \in FireAt[w], e \in MinCycle .. Longest : minute = Later(a, e + end_age)
    BY <1>1, <2>2 DEF IInv, EndedSince
  <2>4. e + end_age \in Nat /\ e + end_age + 1 <= Longest + Cooldown
    BY <1>3, <2>1, <2>2
  <2>5. minute' = Later(a, e + end_age + 1)
    BY <1>5, <2>3, <2>4
  <2>6. e + end_age + 1 = e + end_age'
    BY <1>3, <2>1, <2>2
  <2> QED BY <2>3, <2>5, <2>6
<1> QED BY <1>6, <1>7, <1>8, <1>9 DEF IInv

LEMMA WrapperIInv ==
  ASSUME IInv, Bounded, Apart, NEW w \in Wrappers, Fire(w) \/ Step(w) \/ Die(w) PROVE IInv'
<1>0. TypeOK /\ TypeOK' /\ pc \in [Wrappers -> PCs]
  <2>1. TypeOK
    BY DEF IInv
  <2> QED BY <2>1, WrapperTypes DEF TypeOK
<1>1. CASE Fire(w)
  BY <1>0, <1>1, MovesOn DEF Fire, Goto, Holding, Firing
<1>2. CASE TryLock(w)
  <2>1. pc[w] = "mkdir" /\ minute \in FireAt[w]
    BY <1>2 DEF TryLock, Goto, IInv, FiringNow, Firing
  <2>2. CASE lockdir = None
    BY <1>0, <1>2, <2>1, <2>2, Locks DEF TryLock, Goto, Firing, Holding
  <2>3. CASE lockdir # None
    BY <1>0, <1>2, <2>1, <2>3, MovesOn DEF TryLock, Goto, Holding
  <2> QED BY <2>2, <2>3
<1>3. CASE CheckAge(w)
  <2>1. pc[w] = "age" /\ minute \in FireAt[w]
    BY <1>3 DEF CheckAge, Goto, IInv, FiringNow, Firing
  <2>2. CASE Stale
    <3>1. \A v \in Wrappers : pc[v] \notin Holding
      BY <2>1, <2>2, StaleFree
    <3> QED BY <1>0, <1>3, <2>1, <2>2, <3>1, MovesOn DEF CheckAge, Goto, Holding
  <2>3. CASE ~ Stale
    BY <1>0, <1>3, <2>1, <2>3, MovesOn DEF CheckAge, Goto, Holding, Firing
  <2> QED BY <2>2, <2>3
<1>4. CASE Clobber(w)
  <2>1. /\ pc[w] = "clobber" /\ minute \in FireAt[w]
        /\ \A v \in Wrappers : pc[v] \notin Holding
    BY <1>4 DEF Clobber, Goto, IInv, FiringNow, Firing, StaleIsNobodys
  <2>2. \A v \in Wrappers : pc'[v] = IF v = w THEN "retry" ELSE pc[v]
    BY <1>0, <1>4 DEF Clobber, Goto
  <2>3. /\ Beating \subseteq Holding /\ {"cooldown", "start"} \subseteq Holding
        /\ "retry" \notin Holding
    BY DEF Beating, Holding
  <2>4. \A v \in Wrappers : pc'[v] \notin Holding
    BY <2>1, <2>2, <2>3
  <2>5. RunnerHoldsLock' /\ JustLocked' /\ RunsSince' /\ StaleIsNobodys'
    BY <2>3, <2>4 DEF RunnerHoldsLock, JustLocked, RunsSince, StaleIsNobodys, Holding
  <2>6. FiringNow' /\ RunnerBeats' /\ KillsTheHolder' /\ EndedSince'
    BY <1>4, <2>1, <2>2, <2>3, <2>4
       DEF IInv, Clobber, FiringNow, RunnerBeats, KillsTheHolder, EndedSince, time, watch
  <2> QED BY <1>0, <2>5, <2>6 DEF IInv
<1>5. CASE Retry(w)
  <2>1. pc[w] = "retry" /\ minute \in FireAt[w]
    BY <1>5 DEF Retry, Goto, IInv, FiringNow, Firing
  <2>2. CASE lockdir = None
    BY <1>0, <1>5, <2>1, <2>2, Locks DEF Retry, Goto, Firing, Holding
  <2>3. CASE lockdir # None
    BY <1>0, <1>5, <2>1, <2>3, MovesOn DEF Retry, Goto, Holding, Firing
  <2> QED BY <2>2, <2>3
<1>6. CASE CheckCooldown(w)
  <2>1. pc[w] = "cooldown" /\ pc[w] \notin Beating /\ UNCHANGED <<time, heartbeat, run_age, watch>>
    BY <1>6 DEF CheckCooldown, Goto, Beating
  <2>2. \A v \in Wrappers : pc[v] \in Holding => v = w
    BY <2>1, HoldsAlone DEF Holding
  <2>3. CASE ~ CooledDown
    BY <1>0, <1>6, <2>1, <2>2, <2>3, Leaves DEF CheckCooldown, Goto, time, watch
  <2>4. CASE CooledDown
    <3>1. /\ \A v \in Wrappers : pc'[v] = IF v = w THEN "start" ELSE pc[v]
          /\ UNCHANGED lock
      BY <1>0, <1>6, <2>4 DEF CheckCooldown, Goto
    <3>2. FiringNow' /\ RunnerHoldsLock' /\ JustLocked' /\ RunnerBeats' /\ StaleIsNobodys'
      BY <2>1, <3>1 DEF IInv, FiringNow, RunnerHoldsLock, JustLocked, RunnerBeats,
                        StaleIsNobodys, Firing, Holding, Beating, time, lock
    <3>3. KillsTheHolder' /\ EndedSince'
      BY <2>1, <3>1 DEF IInv, KillsTheHolder, EndedSince, Holding, time, watch
    <3>4. RunsSince'
      <4> SUFFICES ASSUME NEW v \in Wrappers, (pc[v] \in Beating)'
                   PROVE  \E a \in FireAt[v], e \in 0 .. Longest : Since(v, a, e)'
        BY DEF RunsSince
      <4>1. pc'[v] = pc[v] /\ pc[v] \in Beating
        BY <3>1 DEF Beating
      <4> QED BY <2>1, <3>1, <4>1, SinceKept DEF IInv, time, lock
    <3> QED BY <1>0, <3>2, <3>3, <3>4 DEF IInv
  <2> QED BY <2>3, <2>4
<1>7. CASE Start(w) \/ EndCycle(w) \/ EndSurvey(w) \/ Finish(w)
  BY <1>0, <1>7, StartIInv, EndCycleIInv, EndSurveyIInv, FinishIInv
<1>8. CASE Exit(w)
  <2>1. \A v \in Wrappers : pc[v] \in Holding => v = w
    BY <1>8, HoldsAlone DEF Exit, Goto, Holding
  <2> QED BY <1>0, <1>8, <2>1, Leaves DEF Exit, Goto, time, watch
<1>9. CASE Die(w)
  <2>1. \A v \in Wrappers : v = w \/ run_age'[v] = run_age[v]
    BY <1>0, <1>9 DEF Die, TypeOK
  <2> QED BY <1>0, <1>9, <2>1, Leaves DEF Die, time, watch
<1> QED BY <1>1, <1>2, <1>3, <1>4, <1>5, <1>6, <1>7, <1>8, <1>9 DEF Step

LEMMA WatchIInv ==
  ASSUME IInv, Apart, WatchStep PROVE IInv'
<1>0. TypeOK /\ TypeOK'
  <2>1. TypeOK
    BY DEF IInv
  <2> QED BY <2>1, WatchTypes
<1>1. CASE Watch
  <2>1. /\ UNCHANGED <<time, lock, heartbeat, pc, run_age>> /\ minute = WatchAt
        /\ watchdog' = [pc |-> Verdict, target |-> heartbeat.pid] /\ Verdict # "unlock"
    BY <1>1 DEF Watch, Verdict
  <2>2. Verdict = "kill" => heartbeat.pid \in Wrappers /\ heartbeat.phase = "cycle_start"
    BY <1>0, HeartbeatFields DEF Verdict, LooksStuck
  <2>3. Verdict = "kill" => \A w \in Wrappers : pc[w] \in Holding => w = heartbeat.pid
    <3>1. \A w \in Wrappers : heartbeat.pid = w => pc[w] \in Holding
      BY DEF IInv, RunnerBeats, Beating, Holding
    <3> QED BY <2>2, <3>1, HoldsAlone
  <2>4. KillsTheHolder'
    BY <2>1, <2>2, <2>3 DEF KillsTheHolder, time
  <2>5. RunsSince'
    <3> SUFFICES ASSUME NEW v \in Wrappers, (pc[v] \in Beating)'
                 PROVE  \E a \in FireAt[v], e \in 0 .. Longest : Since(v, a, e)'
      BY DEF RunsSince
    <3> QED BY <2>1, SinceKept DEF IInv, time, lock
  <2> QED BY <1>0, <2>1, <2>4, <2>5
          DEF IInv, FiringNow, RunnerHoldsLock, JustLocked, RunnerBeats, StaleIsNobodys,
              EndedSince, time, lock
<1>2. CASE WatchKill
  <2>1. /\ watchdog.pc = "kill" /\ watchdog.target \in Wrappers /\ minute = WatchAt
        /\ \A w \in Wrappers : pc[w] \in Holding => w = watchdog.target
    BY <1>2 DEF WatchKill, IInv, KillsTheHolder
  <2>2. watchdog'.pc = "unlock" /\ UNCHANGED <<time, flag>>
    BY <1>0, <1>2 DEF WatchKill, TypeOK
  <2>3. PICK w \in Wrappers : w = watchdog.target
    BY <2>1
  <2>4. CASE heartbeat.pid = watchdog.target
    <3>1. /\ pc' = [pc EXCEPT ![w] = "idle"] /\ PidGone(w) /\ Remove
          /\ \A v \in Wrappers : v = w \/ run_age'[v] = run_age[v]
      BY <1>0, <1>2, <2>3, <2>4 DEF WatchKill, TypeOK
    <3> QED BY <1>0, <2>1, <2>2, <2>3, <3>1, Leaves
  <2>5. CASE heartbeat.pid # watchdog.target
    <3>1. UNCHANGED <<time, lock, heartbeat, pc, run_age>>
      BY <1>2, <2>2, <2>5 DEF WatchKill
    <3>2. pc[w] \notin Beating /\ pc[w] \notin Firing
      <4>1. minute \notin FireAt[w]
        BY <2>1 DEF Apart
      <4> QED BY <2>3, <2>5, <4>1 DEF IInv, RunnerBeats, FiringNow
    <3>3. \A v \in Wrappers : pc[v] \notin Holding
      BY <2>1, <2>3, <3>2 DEF Holding, Beating, Firing
    <3>4. KillsTheHolder'
      BY <2>1, <2>2, <3>1, <3>3 DEF KillsTheHolder, time
    <3>5. RunsSince'
      BY <3>1, <3>3 DEF RunsSince, Beating, Holding
    <3> QED BY <1>0, <3>1, <3>4, <3>5
            DEF IInv, FiringNow, RunnerHoldsLock, JustLocked, RunnerBeats, StaleIsNobodys,
                EndedSince, time, lock
  <2> QED BY <2>4, <2>5
<1>3. CASE WatchUnlock
  <2>1. /\ watchdog'.pc = "yes" /\ \A w \in Wrappers : pc[w] \notin Holding
        /\ UNCHANGED <<time, heartbeat, pc, run_age>>
    BY <1>0, <1>3 DEF WatchUnlock, IInv, KillsTheHolder, TypeOK
  <2>2. KillsTheHolder' /\ RunsSince' /\ RunnerHoldsLock' /\ JustLocked'
    BY <2>1 DEF KillsTheHolder, RunsSince, RunnerHoldsLock, JustLocked, Holding, Beating
  <2> QED BY <1>0, <2>1, <2>2 DEF IInv, FiringNow, RunnerBeats, StaleIsNobodys, EndedSince, time
<1> QED BY <1>1, <1>2, <1>3 DEF WatchStep

LEMMA NextIInv == Bounded /\ Apart /\ IInv /\ [Next]_vars => IInv'
<1> SUFFICES ASSUME Bounded, Apart, IInv, [Next]_vars PROVE IInv'
  OBVIOUS
<1>1. CASE \E w \in Wrappers : Fire(w) \/ Step(w) \/ Die(w)
  BY <1>1, WrapperIInv
<1>2. CASE WatchStep
  BY <1>2, WatchIInv
<1>3. CASE Tick
  BY <1>3, TickIInv, TickTypes DEF IInv
<1>4. CASE UNCHANGED vars
  <2>1. TypeOK'
    BY <1>4, NextTypes DEF IInv
  <2>2. RunsSince'
    <3> SUFFICES ASSUME NEW v \in Wrappers, (pc[v] \in Beating)'
                 PROVE  \E a \in FireAt[v], e \in 0 .. Longest : Since(v, a, e)'
      BY DEF RunsSince
    <3> QED BY <1>4, SinceKept DEF IInv, vars
  <2> QED BY <1>4, <2>1, <2>2
          DEF vars, IInv, FiringNow, RunnerHoldsLock, JustLocked, RunnerBeats, StaleIsNobodys,
              KillsTheHolder, EndedSince
<1> QED BY <1>1, <1>2, <1>3, <1>4 DEF Next

LEMMA Invariant == Bounded /\ Apart => (Spec => []IInv)
<1> SUFFICES ASSUME Bounded, Apart PROVE Spec => []IInv
  OBVIOUS
<1>1. IInv /\ [Next]_vars => IInv'
  BY NextIInv
<1> QED BY <1>1, InitIInv, PTL DEF Spec

-----------------------------------------------------------------------------
(* What the timetable guarantees *)

\* Under a timetable that keeps the schedulers apart, whoever got past the
\* lock owns it until it exits, whatever is killed and whatever the watchdog
\* does (run_weather_cycle.sh:94-120).
THEOREM RunnerKeepsLock == Bounded /\ Apart => (Spec => []RunnerHoldsLock)
<1>1. IInv => RunnerHoldsLock
  BY DEF IInv
<1> QED BY <1>1, Invariant, PTL

\* And no two decision cycles run at once (run_weather_cycle.sh:81-87).
THEOREM NeverTwoCycles == Bounded /\ Apart => (Spec => []AtMostOneCycle)
<1>1. RunnerHoldsLock => AtMostOneCycle
  BY DEF RunnerHoldsLock, AtMostOneCycle, Running
<1> QED BY <1>1, RunnerKeepsLock, PTL

\* If besides no scheduler fires within the cooldown of its own last cycle,
\* then its invocation is never turned away by that cycle's cooldown
\* (run_weather_cycle.sh:152-155).
THEOREM PrimariesFire == Bounded /\ Apart /\ Spaced => (Spec => PrimaryNeverStarved)
<1> SUFFICES ASSUME Bounded, Apart, Spaced PROVE Spec => PrimaryNeverStarved
  OBVIOUS
<1>1. ASSUME IInv, NEW w \in Wrappers, CheckCooldown(w), end_by = w
      PROVE  pc'[w] = "start"
  <2>1. pc[w] = "cooldown" /\ minute \in FireAt[w] /\ pc \in [Wrappers -> PCs]
        /\ end_age \in 0 .. EndCap
    BY <1>1 DEF CheckCooldown, Goto, IInv, FiringNow, TypeOK, Firing
  <2>2. ASSUME end_age < Cooldown PROVE FALSE
    <3>1. PICK a \in FireAt[w], e \in MinCycle .. Longest : minute = Later(a, e + end_age)
      BY <1>1, <2>2 DEF IInv, EndedSince
    <3>2. e + end_age \in MinCycle .. Longest + Cooldown - 1
      BY <2>1, <2>2, LockAssumption, CapsAreNat DEF Longest
    <3> QED BY <2>1, <3>1, <3>2 DEF Spaced
  <2>3. CooledDown
    BY <2>1, <2>2, LockAssumption, CapsAreNat DEF CooledDown
  <2> QED BY <1>1, <2>1, <2>3 DEF CheckCooldown, Goto
<1>2. IInv /\ [Next]_vars =>
        [\A w \in Wrappers : CheckCooldown(w) /\ end_by = w => pc'[w] = "start"]_vars
  BY <1>1
<1> QED BY <1>2, Invariant, PTL DEF Spec, PrimaryNeverStarved

\* And if a cycle that runs at the watchdog's minute began shortly before it,
\* the watchdog reports no slot missed while a cycle runs (watchdog.sh:118).
THEOREM AlarmsAreTrue == Bounded /\ Apart /\ Watched => (Spec => NoFalseAlarm)
<1> SUFFICES ASSUME Bounded, Apart, Watched PROVE Spec => NoFalseAlarm
  OBVIOUS
<1>1. ASSUME IInv, Watch, watchdog'.pc = "missed", NEW w \in Wrappers, Running(w)
      PROVE  FALSE
  <2>1. pc[w] \in {"cycle", "survey"} /\ pc[w] \in Beating
    BY <1>1 DEF Running, Beating
  <2>2. PICK a \in FireAt[w], e \in 0 .. Longest : Since(w, a, e)
    BY <1>1, <2>1 DEF IInv, RunsSince
  <2>3. Later(a, e) = WatchAt /\ Verdict = "missed"
    BY <1>1, <2>2 DEF Since, Watch
  <2>4. e <= WatchAt + 1 /\ e < FreshAge
    BY <2>2, <2>3 DEF Watched
  <2>5. heartbeat.phase = "cycle_start" /\ heartbeat.age = e
    BY <2>1, <2>2, <2>4 DEF Since, Capped, BeatCap
  <2>6. InProgress
    BY <2>4, <2>5 DEF InProgress
  <2> QED BY <2>3, <2>6 DEF Verdict
<1>2. IInv /\ [Next]_vars =>
        [Watch /\ watchdog'.pc = "missed" => \A w \in Wrappers : ~Running(w)]_vars
  BY <1>1
<1> QED BY <1>2, Invariant, PTL DEF Spec, NoFalseAlarm
===============================================================================
