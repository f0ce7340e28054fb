------------------------------ MODULE CycleLock ------------------------------
(***************************************************************************)
(* scripts/run_weather_cycle.sh and scripts/watchdog.sh: which invocation  *)
(* of the wrapper may run the decision cycle, and what the watchdog makes  *)
(* of the heartbeat and the log.                                           *)
(*                                                                         *)
(* Time is in minutes, of which only the minute of the half-hour slot and  *)
(* ages are kept, each age up to the largest value that some test tells    *)
(* from a larger one.  Each statement that touches the lock directory is a *)
(* step of its own; statements other than the cycle and the survey take    *)
(* less than a minute, so time passes only when every process is idle or   *)
(* inside one of those two.                                                *)
(***************************************************************************)
EXTENDS Integers, FiniteSets

CONSTANTS
  Wrappers,         \* schedulers that invoke the wrapper, one invocation each
  None,
  Slot,             \* minutes of a slot
  FireAt,           \* [Wrappers -> minutes of the slot at which it may fire]
  LockTTL,          \* LOCK_TTL_SECONDS, in minutes
  Cooldown,         \* COOLDOWN_SECONDS; COOLDOWN_SLOT_COVERAGE_SECONDS
  WatchAt,          \* minute of the slot at which the watchdog runs
  StuckAge,         \* the watchdog's heartbeat age of a stuck cycle
  FreshAge,         \* and of a cycle in progress
  MinCycle,         \* shortest and longest run of run_city_cycle
  MaxCycle,
  MaxSurvey,        \* longest run of survey_opportunities
  MayHang,          \* may run_city_cycle never end
  MaxDeaths         \* bound: invocations killed from outside

EndCap == WatchAt + Cooldown        \* ages the log's last end is told apart by
BeatCap == FreshAge
RunCap == IF MaxCycle > MaxSurvey THEN MaxCycle + 1 ELSE MaxSurvey + 1

ASSUME LockAssumption ==
  /\ None \notin Wrappers
  /\ Slot \in Nat \ {0} /\ WatchAt \in 0 .. Slot - 1
  /\ FireAt \in [Wrappers -> SUBSET (0 .. Slot - 1)]
  /\ LockTTL \in Nat /\ Cooldown \in Nat
  /\ StuckAge \in Nat /\ FreshAge \in Nat /\ StuckAge < FreshAge
  /\ MinCycle \in Nat /\ MaxCycle \in Nat /\ MaxSurvey \in Nat
  /\ MayHang \in BOOLEAN /\ MaxDeaths \in Nat

VARIABLES
  minute,           \* minute of the slot
  lockdir,          \* who made cycle.lockdir, None when it does not exist
  lock_age,         \* its age
  end_age,          \* age of the log's last "cycle end" marker
  end_by,           \* who wrote it (nobody reads this)
  heartbeat,        \* heartbeat.txt
  pc,               \* what each wrapper is about to do
  run_age,          \* how long its cycle or survey has run
  watchdog,         \* what the watchdog is about to do, and to whom
  flag,             \* BOT_DOWN.flag
  deaths

vars ==
  <<minute, lockdir, lock_age, end_age, end_by, heartbeat, pc, run_age, watchdog, flag, deaths>>
lock == <<lockdir, lock_age>>
time == <<minute, end_age, end_by>>
watch == <<watchdog, flag>>

PCs == {"idle", "mkdir", "age", "clobber", "retry", "cooldown", "start",
        "cycle", "survey", "finish", "exit"}
WatchPCs == {"ready", "kill", "unlock", "in_progress", "yes", "missed"}

TypeOK ==
  /\ minute \in 0 .. Slot - 1
  /\ lockdir \in Wrappers \union {None} /\ lock_age \in 0 .. LockTTL
  /\ end_age \in 0 .. EndCap /\ end_by \in Wrappers \union {None}
  /\ heartbeat \in [phase : {"missing", "cycle_start", "cycle_end"},
                    pid : Wrappers \union {None}, age : 0 .. BeatCap]
  /\ pc \in [Wrappers -> PCs]
  /\ run_age \in [Wrappers -> 0 .. RunCap]
  /\ watchdog \in [pc : WatchPCs, target : Wrappers \union {None}]
  /\ flag \in BOOLEAN
  /\ deaths \in 0 .. MaxDeaths

Init ==
  /\ minute \in 0 .. Slot - 1
  /\ lockdir = None /\ lock_age = 0
  /\ end_age = EndCap /\ end_by = None
  /\ heartbeat = [phase |-> "missing", pid |-> None, age |-> BeatCap]
  /\ pc = [w \in Wrappers |-> "idle"]
  /\ run_age = [w \in Wrappers |-> 0]
  /\ watchdog = [pc |-> "ready", target |-> None]
  /\ flag = FALSE
  /\ deaths = 0

-----------------------------------------------------------------------------
(* The wrapper *)

Goto(w, from, to) == pc[w] = from /\ pc' = [pc EXCEPT ![w] = to]

\* mkdir, and the pid and trap that follow; rm -rf asks for no owner.
Make(w) == lockdir' = w /\ lock_age' = 0
Remove == lockdir' = None /\ lock_age' = 0

\* The process is gone; its pid names nothing any more.
PidGone(w) ==
  heartbeat' = [heartbeat EXCEPT !.pid = IF @ = w THEN None ELSE @]

\* Mutant: the file is truncated first, and that is what its readers find.
BeatTruncates(w, phase) == heartbeat' = [phase |-> "", pid |-> w, age |-> 0]

\* write_heartbeat, atomic by rename.
Beat(w, phase) == heartbeat' = [phase |-> phase, pid |-> w, age |-> 0]

Fire(w) ==
  /\ minute \in FireAt[w]
  /\ Goto(w, "idle", "mkdir")
  /\ UNCHANGED <<time, lock, heartbeat, run_age, watch, deaths>>

TryLock(w) ==
  /\ \/ lockdir = None /\ Make(w) /\ Goto(w, "mkdir", "cooldown")
     \/ lockdir # None /\ UNCHANGED lock /\ Goto(w, "mkdir", "age")
  /\ UNCHANGED <<time, heartbeat, run_age, watch, deaths>>

\* Mutant: a lock that cannot be looked at, or of any age, is never stale.
StaleNever == FALSE

\* Mutant: the TTL that was not raised with the length of a cycle.
StaleEarly == lockdir = None \/ lock_age >= Cooldown

\* A directory removed meanwhile has mtime 0, which is very old.
Stale == lockdir = None \/ lock_age >= LockTTL

CheckAge(w) ==
  /\ Goto(w, "age", IF Stale THEN "clobber" ELSE "idle")
  /\ UNCHANGED <<time, lock, heartbeat, run_age, watch, deaths>>

Clobber(w) ==
  /\ Goto(w, "clobber", "retry")
  /\ Remove
  /\ UNCHANGED <<time, heartbeat, run_age, watch, deaths>>

Retry(w) ==
  /\ \/ lockdir = None /\ Make(w) /\ Goto(w, "retry", "cooldown")
     \/ lockdir # None /\ UNCHANGED lock /\ Goto(w, "retry", "idle")
  /\ UNCHANGED <<time, heartbeat, run_age, watch, deaths>>

\* Mutant: the cooldown before it was lowered, eight minutes more.
CooledDownLater == end_age >= Cooldown + 8

CooledDown == end_age >= Cooldown

CheckCooldown(w) ==
  /\ IF CooledDown
       THEN Goto(w, "cooldown", "start") /\ UNCHANGED lock
       ELSE Goto(w, "cooldown", "idle") /\ Remove
  /\ UNCHANGED <<time, heartbeat, run_age, watch, deaths>>

Start(w) ==
  /\ Goto(w, "start", "cycle")
  /\ Beat(w, "cycle_start")
  /\ run_age' = [run_age EXCEPT ![w] = 0]
  /\ UNCHANGED <<time, lock, watch, deaths>>

\* The cycle ends, well or not.
EndCycle(w) ==
  /\ run_age[w] \in MinCycle .. MaxCycle
  /\ Goto(w, "cycle", "survey")
  /\ run_age' = [run_age EXCEPT ![w] = 0]
  /\ UNCHANGED <<time, lock, heartbeat, watch, deaths>>

EndSurvey(w) ==
  /\ Goto(w, "survey", "finish")
  /\ run_age' = [run_age EXCEPT ![w] = 0]
  /\ UNCHANGED <<time, lock, heartbeat, watch, deaths>>

Finish(w) ==
  /\ Goto(w, "finish", "exit")
  /\ Beat(w, "cycle_end")
  /\ end_age' = 0 /\ end_by' = w
  /\ UNCHANGED <<minute, lock, run_age, watch, deaths>>

\* The report is written and the EXIT trap removes the lock directory.
Exit(w) ==
  /\ Goto(w, "exit", "idle")
  /\ Remove
  /\ PidGone(w)
  /\ UNCHANGED <<time, run_age, watch, deaths>>

\* SIGKILL or power loss: no trap; the scheduler's group takes the cycle along.
Die(w) ==
  /\ pc[w] # "idle" /\ deaths < MaxDeaths
  /\ pc' = [pc EXCEPT ![w] = "idle"]
  /\ run_age' = [run_age EXCEPT ![w] = 0]
  /\ PidGone(w)
  /\ deaths' = deaths + 1
  /\ UNCHANGED <<time, lock, watch>>

-----------------------------------------------------------------------------
(* The watchdog, WatchAt minutes after the slot began *)

SlotRan == end_age <= WatchAt \/ end_age - WatchAt < Cooldown

\* Mutant: a cycle in progress is given no longer than a stuck one.
InProgressTight == heartbeat.phase = "cycle_start" /\ heartbeat.age <= StuckAge

\* A minute of slop between slot and heartbeat.
InProgress ==
  heartbeat.phase = "cycle_start" /\ heartbeat.age <= WatchAt + 1 /\ heartbeat.age < FreshAge

LooksStuck == heartbeat.phase = "cycle_start" /\ heartbeat.age > StuckAge

Verdict ==
  IF SlotRan
  THEN IF LooksStuck /\ heartbeat.pid # None THEN "kill" ELSE "yes"
  ELSE IF InProgress THEN "in_progress" ELSE "missed"

Watch ==
  /\ minute = WatchAt /\ watchdog.pc = "ready"
  /\ watchdog' = [pc |-> Verdict, target |-> heartbeat.pid]
  /\ flag' = CASE Verdict \in {"yes", "kill"} -> FALSE
               [] Verdict = "missed" -> TRUE
               [] OTHER -> flag
  /\ UNCHANGED <<time, lock, heartbeat, pc, run_age, deaths>>

\* SIGTERM: the wrapper's EXIT trap removes the lock directory.
WatchKill ==
  /\ watchdog.pc = "kill"
  /\ watchdog' = [watchdog EXCEPT !.pc = "unlock"]
  /\ IF heartbeat.pid = watchdog.target
       THEN /\ pc' = [pc EXCEPT ![watchdog.target] = "idle"]
            /\ run_age' = [run_age EXCEPT ![watchdog.target] = 0]
            /\ PidGone(watchdog.target)
            /\ Remove
       ELSE UNCHANGED <<pc, run_age, heartbeat, lock>>
  /\ UNCHANGED <<time, flag, deaths>>

\* Seconds later, whoever holds it now.
WatchUnlock ==
  /\ watchdog.pc = "unlock"
  /\ watchdog' = [watchdog EXCEPT !.pc = "yes"]
  /\ Remove
  /\ UNCHANGED <<time, heartbeat, pc, run_age, flag, deaths>>

-----------------------------------------------------------------------------
Older(age, cap) == IF age < cap THEN age + 1 ELSE cap

MayRunOn(w) ==
  \/ pc[w] = "cycle" /\ (run_age[w] < MaxCycle \/ MayHang)
  \/ pc[w] = "survey" /\ run_age[w] < MaxSurvey
  \/ pc[w] = "idle"

\* The watchdog's timer does not miss its minute.
Tick ==
  /\ \A w \in Wrappers : MayRunOn(w)
  /\ watchdog.pc \notin {"kill", "unlock"}
  /\ minute = WatchAt => watchdog.pc # "ready"
  /\ minute' = (minute + 1) % Slot
  /\ lock_age' = IF lockdir = None THEN 0 ELSE Older(lock_age, LockTTL)
  /\ end_age' = Older(end_age, EndCap)
  /\ heartbeat' = [heartbeat EXCEPT !.age = Older(@, BeatCap)]
  /\ run_age' = [w \in Wrappers |->
                   IF pc[w] = "idle" THEN 0 ELSE Older(run_age[w], RunCap)]
  /\ watchdog' = [pc |-> "ready", target |-> None]
  /\ UNCHANGED <<lockdir, end_by, pc, flag, deaths>>

Step(w) ==
  \/ TryLock(w) \/ CheckAge(w) \/ Clobber(w) \/ Retry(w) \/ CheckCooldown(w)
  \/ Start(w) \/ EndCycle(w) \/ EndSurvey(w) \/ Finish(w) \/ Exit(w)

WatchStep == Watch \/ WatchKill \/ WatchUnlock

Next ==
  \/ \E w \in Wrappers : Fire(w) \/ Step(w) \/ Die(w)
  \/ WatchStep
  \/ Tick

Spec == Init /\ [][Next]_vars

\* Time passes, a timer that is due infinitely often fires, and a process
\* that can go on does.  Nothing is killed by fairness.
FairSpec ==
  /\ Spec
  /\ SF_vars(Tick) /\ WF_vars(WatchStep)
  /\ \A w \in Wrappers : SF_vars(Fire(w)) /\ WF_vars(Step(w))

-----------------------------------------------------------------------------
(* What the guarantees ask of the timetable *)

\* The longest that an invocation holds the lock.
Longest == MaxCycle + MaxSurvey

\* The minute of the slot e minutes after minute a, e no more than a slot.
Later(a, e) == IF a + e < Slot THEN a + e ELSE a + e - Slot

\* A cycle ends by itself, and its lock and its cooldown fit into a slot.
Bounded == ~ MayHang /\ Longest + Cooldown <= Slot

\* Two schedulers never fire at once, nor one at a moment when the lock of a
\* cycle that the other started is old enough to be taken over; and nobody
\* fires at the watchdog's minute.
Apart ==
  /\ \A w \in Wrappers : WatchAt \notin FireAt[w]
  /\ \A v, w \in Wrappers : v # w =>
       \A a \in FireAt[v], b \in FireAt[w] :
         a # b /\ \A e \in LockTTL .. Longest : Later(a, e) # b

\* A scheduler does not fire within the cooldown of its own last cycle.
Spaced ==
  \A w \in Wrappers : \A a, b \in FireAt[w] :
    \A e \in MinCycle .. Longest + Cooldown - 1 : Later(a, e) # b

\* A cycle that runs at the watchdog's minute began in the watchdog's slot.
Watched ==
  \A w \in Wrappers : \A a \in FireAt[w] : \A e \in 0 .. Longest :
    Later(a, e) = WatchAt => e <= WatchAt + 1 /\ e < FreshAge

-----------------------------------------------------------------------------
(* Properties *)

Running(w) == pc[w] \in {"cycle", "survey"}

\* An invocation that got past the lock owns the lock directory until it
\* exits: neither a contender that found it stale, nor the watchdog, nor
\* another one's EXIT trap took it (run_weather_cycle.sh:94-120).
RunnerHoldsLock ==
  \A w \in Wrappers :
    pc[w] \in {"cooldown", "start", "cycle", "survey", "finish", "exit"} => lockdir = w

\* Two invocations never run the cycle or its survey at once (run_weather_cycle.sh:81-87, "Two
\* cycles writing to the same DB and heartbeat is bad state").
AtMostOneCycle == \A v, w \in Wrappers : Running(v) /\ Running(w) => v = w

\* A scheduler's invocation is never turned away by the cooldown of the cycle
\* that the same scheduler ran in the slot before, however long that one took
\* ("always letting :00/:30 primaries fire", run_weather_cycle.sh:152-155).
PrimaryNeverStarved ==
  [][\A w \in Wrappers : CheckCooldown(w) /\ end_by = w => pc'[w] = "start"]_vars

\* The watchdog reports no slot missed while a cycle runs (watchdog.sh:118).
NoFalseAlarm ==
  [][Watch /\ watchdog'.pc = "missed" => \A w \in Wrappers : ~Running(w)]_vars

\* Whatever is killed, whenever, and whatever it leaves behind, a later
\* invocation gets past the lock and the cooldown and runs a cycle.
CyclesKeepStarting == []<>(\E w \in Wrappers : pc[w] = "cycle")

\* A cycle that outlives its budget is ended by the watchdog, "the
\* belt-and-suspenders enforcement" (run_city_cycle.py:46-49).
HungCycleKilled ==
  \A w \in Wrappers : (pc[w] = "cycle" /\ run_age[w] > MaxCycle) ~> (pc[w] # "cycle")

=============================================================================
