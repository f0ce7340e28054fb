----------------------------- MODULE MCCycleLock -----------------------------
(* Instances of CycleLock: when the wrapper is invoked, and by whom. *)
EXTENDS CycleLock

CONSTANTS primary, other

\* launchd or systemd at :00 and :30, the backup job at :15 and :45.
PrimaryAndBackup == [w \in Wrappers |-> IF w = primary THEN {0} ELSE {15}]

\* The timers that invoke the wrapper satisfy what the theorems ask of them.  A
\* third one, 12:30 UTC, starts the decision cycle without the wrapper
\* (run_settlements_morning.sh:35): what two cycles do to one book is MCTradingCycle's.
ASSUME InstalledTimetable ==
  FireAt = PrimaryAndBackup /\ ~ MayHang => Bounded /\ Apart /\ Spaced /\ Watched

\* launchd and cron for the same minute.
SameMinute == [w \in Wrappers |-> {0}]

\* The primary, and a job that is started at other minutes now and then: by hand, by
\* launchctl kickstart, or by a timer that fires late.  Left out are the minutes at which
\* it, or the primary after it, may meet a lock that is old enough to take while its
\* holder is still in the survey: there the property fails (README, section 5).
MeetsOldLock(m) == m \in LockTTL .. MaxCycle + MaxSurvey
SafeStarts ==
  [w \in Wrappers |-> IF w = primary THEN {0}
                      ELSE {m \in 0 .. Slot - 1 : ~ MeetsOldLock(m) /\ ~ MeetsOldLock(Slot - m)}]
=============================================================================
