-------------------------------- MODULE Backup --------------------------------
(***************************************************************************)
(* The hourly backup (src/backup): the task run_forever, the runs it makes *)
(* (run_once), the canary row it keeps in the database, and the object     *)
(* store it fills.  The database and the store survive a crash of the      *)
(* process; the task does not.  One action is one await of run_once_inner. *)
(*                                                                         *)
(* Time is counted in ticks on a calendar scaled down by constants; only   *)
(* the ratios matter: a run (RUN_TIMEOUT) is shorter than the interval     *)
(* (RUN_INTERVAL), which is exactly one hour.                              *)
(***************************************************************************)
EXTENDS Integers

CONSTANTS LastTick,       \* bound of the clock: the ticks are 0..LastTick
          TicksPerHour,   \* RUN_INTERVAL, 3600 s
          RunTicks,       \* RUN_TIMEOUT, 120 s
          HoursPerDay,    \* 24
          NightHour,      \* the hour of the daily slot, 4
          DaysPerWeek,    \* 7; the last day is Sunday
          WeeksPerYear,   \* 52 or 53
          None            \* no canary row, no object

ASSUME CalendarAssumption ==
  /\ {LastTick, TicksPerHour, HoursPerDay, DaysPerWeek, WeeksPerYear} \subseteq Nat \ {0}
  /\ RunTicks \in Nat /\ RunTicks < TicksPerHour
  /\ HoursPerDay > 2   \* two hours apart is never the same hour of the day
  /\ NightHour \in 0..(HoursPerDay - 1)

Time == 0..LastTick

Hour(t) == t \div TicksPerHour

Day(t) == Hour(t) \div HoursPerDay

Week(t) == Day(t) \div DaysPerWeek

IsSunday(t) == Day(t) % DaysPerWeek = DaysPerWeek - 1

IsLastOfYear(t) == Week(t) % WeeksPerYear = WeeksPerYear - 1

SlotKind == {"hourly", "daily", "weekly", "yearly"}

slot_of(t) ==
  CASE Hour(t) % HoursPerDay # NightHour -> "hourly"
    [] Hour(t) % HoursPerDay = NightHour /\ ~ IsSunday(t) -> "daily"
    [] Hour(t) % HoursPerDay = NightHour /\ IsSunday(t) /\ ~ IsLastOfYear(t) -> "weekly"
    [] OTHER -> "yearly"

\* The part of the time that the name of a slot's object shows.
SlotIndex(t) ==
  CASE slot_of(t) = "hourly" -> Hour(t) % HoursPerDay
    [] slot_of(t) = "daily" -> Day(t) % DaysPerWeek
    [] slot_of(t) = "weekly" -> Week(t) % WeeksPerYear
    [] OTHER -> Week(t) \div WeeksPerYear

object_name(t) == <<slot_of(t), SlotIndex(t)>>

Names == {object_name(t) : t \in Time}

ASSUME NoneAssumption == None \notin Nat /\ None \notin Names

VARIABLES now,        \* the clock
          canary,     \* backup_canary.backed_up_at, in the database
          objects,    \* the backup objects: the canary their snapshot holds
          alias,      \* the <slot>-latest.alias objects
          pc,         \* where the task is
          runNow,     \* the argument of the current or last run_once
          snapshot,   \* the canary in the snapshot of the current run
          wake,       \* when the sleep ends
          healthy     \* nothing has failed so far; no part of the program

store == <<objects, alias>>
vars == <<now, canary, objects, alias, pc, runNow, snapshot, wake, healthy>>

Running == {"check", "canary", "vacuum", "put", "alias"}

TypeOK ==
  /\ now \in Time
  /\ canary \in Time \cup {None}
  /\ objects \in [Names -> Time \cup {None}]
  /\ alias \in [SlotKind -> Names \cup {None}]
  /\ pc \in Running \cup {"down", "sleep"}
  /\ runNow \in Time
  /\ snapshot \in Time \cup {None}
  /\ wake \in Nat
  /\ healthy \in BOOLEAN

Init ==
  /\ now = 0
  /\ canary = None
  /\ objects = [n \in Names |-> None]
  /\ alias = [s \in SlotKind |-> None]
  /\ pc = "down"
  /\ runNow = 0
  /\ snapshot = None
  /\ wake = 0
  /\ healthy = TRUE

-----------------------------------------------------------------------------
(* run_forever *)

BeginRun ==
  /\ pc' = "check"
  /\ runNow' = now
  /\ snapshot' = None
  /\ UNCHANGED <<now, canary, store, wake, healthy>>

\* main spawns run_forever, which runs at once.
Start == pc = "down" /\ BeginRun

\* run_once returned, whatever its result: sleep(RUN_INTERVAL).
Sleep ==
  /\ pc' = "sleep"
  /\ wake' = now + TicksPerHour
  /\ snapshot' = None

Wake == pc = "sleep" /\ now = wake /\ BeginRun

-----------------------------------------------------------------------------
(* run_once_inner *)

\* Mutants: the check dropped; the check of the kind of slot only.
NeverCovered == FALSE
KindCovered == canary # None /\ slot_of(canary) = slot_of(runNow)

\* The current slot was already backed up?
AlreadyCovered == canary # None /\ object_name(canary) = object_name(runNow)

CheckCanary ==
  /\ pc = "check"
  /\ IF AlreadyCovered
       THEN Sleep
       ELSE pc' = "canary" /\ UNCHANGED <<snapshot, wake>>
  /\ UNCHANGED <<now, canary, store, runNow, healthy>>

\* Mutant: ON CONFLICT DO NOTHING.
WriteFirstCanary ==
  /\ pc = "canary"
  /\ canary' = IF canary = None THEN runNow ELSE canary
  /\ pc' = "vacuum"
  /\ UNCHANGED <<now, store, runNow, snapshot, wake, healthy>>

WriteCanary ==
  /\ pc = "canary"
  /\ canary' = runNow
  /\ pc' = "vacuum"
  /\ UNCHANGED <<now, store, runNow, snapshot, wake, healthy>>

\* VACUUM INTO; reading the file and encrypting it change nothing else.
Vacuum ==
  /\ pc = "vacuum"
  /\ snapshot' = canary
  /\ pc' = "put"
  /\ UNCHANGED <<now, canary, store, runNow, wake, healthy>>

StoreObject ==
  /\ objects' = [objects EXCEPT ![object_name(runNow)] = snapshot]
  /\ UNCHANGED alias

\* Mutant: the hour is counted on past midnight.
StoreHourAlias ==
  /\ alias' = [alias EXCEPT ![slot_of(runNow)] = <<slot_of(runNow), Hour(runNow)>>]
  /\ UNCHANGED objects

StoreAlias ==
  /\ alias' = [alias EXCEPT ![slot_of(runNow)] = object_name(runNow)]
  /\ UNCHANGED objects

\* Mutant: the alias is put before the object.
PutAliasFirst ==
  /\ pc = "put"
  /\ StoreAlias
  /\ pc' = "alias"
  /\ UNCHANGED <<now, canary, runNow, snapshot, wake, healthy>>

PutObject ==
  /\ pc = "put"
  /\ StoreObject
  /\ pc' = "alias"
  /\ UNCHANGED <<now, canary, runNow, snapshot, wake, healthy>>

PutAlias ==
  /\ pc = "alias"
  /\ StoreAlias
  /\ Sleep
  /\ UNCHANGED <<now, canary, runNow, healthy>>

-----------------------------------------------------------------------------
(* Failures *)

\* A step that is cut off: a request whose answer is lost may have been
\* carried out.
CutOff ==
  \/ UNCHANGED <<canary, store>>
  \/ pc = "canary" /\ canary' = runNow /\ UNCHANGED store
  \/ pc = "put" /\ StoreObject /\ UNCHANGED canary
  \/ pc = "alias" /\ StoreAlias /\ UNCHANGED canary

\* An await of the run returns an error, or RUN_TIMEOUT drops the future:
\* run_forever logs it and sleeps.
Fail ==
  /\ pc \in Running
  /\ CutOff
  /\ Sleep
  /\ healthy' = FALSE
  /\ UNCHANGED <<now, runNow>>

\* The process ends: the task and what it remembers are gone.
Crash ==
  /\ pc # "down"
  /\ CutOff
  /\ pc' = "down" /\ runNow' = 0 /\ snapshot' = None /\ wake' = 0
  /\ healthy' = FALSE
  /\ UNCHANGED now

\* The timeout bounds a run; the sleep is not overslept.
Tick ==
  /\ now < LastTick
  /\ pc \in Running => now < runNow + RunTicks
  /\ pc = "sleep" => now < wake
  /\ now' = now + 1
  /\ UNCHANGED <<canary, store, pc, runNow, snapshot, wake, healthy>>

RunStep == CheckCanary \/ WriteCanary \/ Vacuum \/ PutObject \/ PutAlias

Next == Start \/ Wake \/ RunStep \/ Tick \/ Fail \/ Crash

Spec == Init /\ [][Next]_vars

-----------------------------------------------------------------------------
(* Properties *)

\* What `verify' relies on: the canary inside an object is the time of the run
\* that stored it -- the row is written before the snapshot (0006), and no
\* failed or repeated run leaves an object with somebody else's canary.
ObjectsCarryTheirTime ==
  \A n \in Names : objects[n] # None => object_name(objects[n]) = n

\* An alias always names an object of its slot that is in the store, although
\* the two are put one after the other and either put may fail or be cut off.
AliasNamesAnObject ==
  \A s \in SlotKind :
    alias[s] # None => alias[s][1] = s /\ objects[alias[s]] # None

\* Retention works by overwriting, and overwrites nothing too early: whatever
\* restarts, failures and repeated runs there are, an object gives way only to
\* one taken a whole cycle of its slot later, never to one of the same hour.
Cycle(slot) ==
  CASE slot = "hourly" -> HoursPerDay
    [] slot = "daily"  -> HoursPerDay * DaysPerWeek
    [] OTHER           -> HoursPerDay * DaysPerWeek * WeeksPerYear

RetainedForACycle ==
  [][\A n \in Names :
       objects[n] # None /\ objects'[n] # objects[n]
         => Hour(objects'[n]) - Hour(objects[n]) >= Cycle(n[1])]_vars

\* As long as nothing has failed, the newest object is never older than the interval and
\* two runs, from the end of the first run on: no run is lost to the sleep, and
\* none finds the canary of an earlier run in its slot.
FreshWhileHealthy ==
  healthy /\ wake # 0 =>
    \E n \in Names : objects[n] # None /\ now - objects[n] <= TicksPerHour + 2 * RunTicks

-----------------------------------------------------------------------------
(* Statements of the repository that the code does not keep. *)

Skips == pc = "check" /\ AlreadyCovered

\* run_once_inner: "Skip when the current slot was already backed up ... so the
\* existing backup is not overwritten": there is a backup of the slot.
SkippedSlotIsStored == Skips => objects[object_name(runNow)] = canary

\* README.markdown: the canary "prevents a restart within the same hour from
\* overwriting the existing backup": a skipped run is one of the same hour.
SkipsOnlyWithinTheHour == Skips => Hour(canary) = Hour(runNow)

\* README.markdown: "Hourly backups run for every hour": the next run of the
\* task is in the next hour at the latest.
EveryHourHasARun == pc = "sleep" => Hour(wake) <= Hour(runNow) + 1
=============================================================================
