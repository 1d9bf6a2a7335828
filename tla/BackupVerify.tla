------------------------------ MODULE BackupVerify ------------------------------
(***************************************************************************)
(* `kehrkraft verify' (src/backup, verify): a process of its own, started  *)
(* by cron at any time on any host, that reads the store while Backup's    *)
(* task is writing to it: first the alias of the hourly backups, then the  *)
(* object it names, whose canary must not be too old.                      *)
(***************************************************************************)
EXTENDS Backup

CONSTANTS MaxAgeHours,   \* KEHRKRAFT_BACKUP_MAX_AGE_HOURS, 26
          VerifyTicks    \* how long the two reads take

ASSUME VerifyAssumption == MaxAgeHours \in Nat /\ VerifyTicks \in Nat

VARIABLE verifying   \* the time of the verification and the alias it has read, if any

verifyVars == <<vars, verifying>>

VerifyTypeOK ==
  /\ TypeOK
  /\ verifying = None \/ verifying \in [at : Time, name : Names]

VerifyInit == Init /\ verifying = None

\* Without an alias the verification has failed.
ReadAlias ==
  /\ verifying = None /\ alias["hourly"] # None
  /\ verifying' = [at |-> now, name |-> alias["hourly"]]
  /\ UNCHANGED vars

\* The object is there and the canary in it young enough; one that is younger than
\* the verification has the age 0.
Fresh(v) == objects[v.name] # None /\ v.at - objects[v.name] <= MaxAgeHours * TicksPerHour

\* The object is read, whatever it holds by now, and the verdict given.
ReadObject ==
  /\ verifying # None
  /\ verifying' = None
  /\ UNCHANGED vars

VerifyTick ==
  /\ verifying # None => now < verifying.at + VerifyTicks
  /\ Tick
  /\ UNCHANGED verifying

VerifyNext ==
  \/ ReadAlias \/ ReadObject \/ VerifyTick
  \/ (Start \/ Wake \/ RunStep \/ Fail \/ Crash) /\ UNCHANGED verifying

VerifySpec == VerifyInit /\ [][VerifyNext]_verifyVars

-----------------------------------------------------------------------------
\* As long as nothing has failed, no verification raises an alarm, although hours
\* are skipped by the daily slots, objects are overwritten under the same name a
\* day later, and a run may come between the two reads.
NoFalseAlarm == healthy /\ verifying # None => Fresh(verifying)
=============================================================================
