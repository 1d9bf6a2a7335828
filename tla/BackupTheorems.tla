---------------------------- MODULE BackupTheorems ----------------------------
(***************************************************************************)
(* What the backup task keeps for every calendar, whatever fails and       *)
(* whenever the process dies, and what its verification finds.  What the   *)
(* store holds needs nothing of the naming scheme but that a name shows    *)
(* its slot; retention and freshness need when the names recur.            *)
(***************************************************************************)
EXTENDS BackupVerify, TLAPS

\* How far the current run has come.
Progress ==
  /\ pc \in {"vacuum", "put", "alias"} => canary = runNow
  /\ pc \in {"put", "alias"} => snapshot = runNow
  /\ pc = "alias" => objects[object_name(runNow)] # None

\* The inductive invariant: what is in the store is what a run in progress is
\* about to put there.
IInv ==
  /\ TypeOK
  /\ Progress
  /\ ObjectsCarryTheirTime
  /\ AliasNamesAnObject

-----------------------------------------------------------------------------
LEMMA NameShowsSlot ==
  ASSUME NEW t \in Time
  PROVE  object_name(t) \in Names /\ slot_of(t) \in SlotKind /\ object_name(t)[1] = slot_of(t)
  BY DEF Names, object_name, slot_of, SlotKind

\* No clock reading and no name is None.
LEMMA NotNone == \A t \in Time : t # None /\ object_name(t) # None
<1>1. Time \subseteq Nat
  BY CalendarAssumption DEF Time
<1>2. QED
  BY <1>1, NoneAssumption, NameShowsSlot

LEMMA InitIInv == Init => IInv
<1> SUFFICES ASSUME Init PROVE IInv
  OBVIOUS
<1>1. TypeOK
  BY CalendarAssumption DEF Init, TypeOK, Time
<1>2. QED
  BY <1>1 DEF Init, IInv, Progress, ObjectsCarryTheirTime, AliasNamesAnObject

\* Putting the object of the run in progress, and then its alias, keeps the
\* store consistent at either point.
LEMMA StoreObjectKeeps ==
  ASSUME IInv, pc = "put", StoreObject
  PROVE  /\ objects' \in [Names -> Time \cup {None}]
         /\ objects'[object_name(runNow)] = runNow
         /\ ObjectsCarryTheirTime'
         /\ AliasNamesAnObject'
  BY NameShowsSlot, NotNone
  DEF IInv, TypeOK, Progress, StoreObject, ObjectsCarryTheirTime, AliasNamesAnObject

LEMMA StoreAliasKeeps ==
  ASSUME IInv, pc = "alias", StoreAlias
  PROVE  /\ alias' \in [SlotKind -> Names \cup {None}]
         /\ ObjectsCarryTheirTime'
         /\ AliasNamesAnObject'
  BY NameShowsSlot
  DEF IInv, TypeOK, Progress, StoreAlias, ObjectsCarryTheirTime, AliasNamesAnObject

\* A step cut off in the middle leaves the database and the store consistent.
LEMMA CutOffKeeps ==
  ASSUME IInv, CutOff
  PROVE  /\ canary' \in Time \cup {None}
         /\ objects' \in [Names -> Time \cup {None}]
         /\ alias' \in [SlotKind -> Names \cup {None}]
         /\ ObjectsCarryTheirTime'
         /\ AliasNamesAnObject'
<1> USE DEF store
<1>1. CASE UNCHANGED <<canary, store>>
  BY <1>1 DEF IInv, TypeOK, ObjectsCarryTheirTime, AliasNamesAnObject
<1>2. CASE pc = "canary" /\ canary' = runNow /\ UNCHANGED store
  BY <1>2 DEF IInv, TypeOK, ObjectsCarryTheirTime, AliasNamesAnObject
<1>3. CASE pc = "put" /\ StoreObject /\ UNCHANGED canary
  BY <1>3, StoreObjectKeeps DEF StoreObject, IInv, TypeOK
<1>4. CASE pc = "alias" /\ StoreAlias /\ UNCHANGED canary
  BY <1>4, StoreAliasKeeps DEF StoreAlias, IInv, TypeOK
<1>5. QED
  BY <1>1, <1>2, <1>3, <1>4 DEF CutOff

LEMMA SleepType ==
  ASSUME now \in Time, Sleep PROVE wake' \in Nat /\ snapshot' = None /\ pc' = "sleep"
  BY CalendarAssumption DEF Sleep, Time

LEMMA StepIInv == IInv /\ [Next]_vars => IInv'
<1> SUFFICES ASSUME IInv, [Next]_vars PROVE IInv'
  OBVIOUS
<1> USE DEF store, Running
<1>1. ASSUME BeginRun PROVE IInv'
  BY <1>1 DEF BeginRun, IInv, TypeOK, Progress, ObjectsCarryTheirTime, AliasNamesAnObject
<1>2. ASSUME CheckCanary PROVE IInv'
  BY <1>2, SleepType
  DEF CheckCanary, IInv, TypeOK, Progress, ObjectsCarryTheirTime, AliasNamesAnObject
<1>3. ASSUME WriteCanary PROVE IInv'
  BY <1>3 DEF WriteCanary, IInv, TypeOK, Progress, ObjectsCarryTheirTime, AliasNamesAnObject
<1>4. ASSUME Vacuum PROVE IInv'
  BY <1>4 DEF Vacuum, IInv, TypeOK, Progress, ObjectsCarryTheirTime, AliasNamesAnObject
<1>5. ASSUME PutObject PROVE IInv'
  <2>1. /\ objects' \in [Names -> Time \cup {None}]
        /\ objects'[object_name(runNow)] = runNow
        /\ ObjectsCarryTheirTime'
        /\ AliasNamesAnObject'
        /\ UNCHANGED alias
    BY <1>5, StoreObjectKeeps DEF PutObject, StoreObject
  <2>2. objects'[object_name(runNow)] # None
    BY <2>1, NotNone DEF IInv, TypeOK
  <2>3. QED
    BY <1>5, <2>1, <2>2 DEF PutObject, IInv, TypeOK, Progress
<1>6. ASSUME PutAlias PROVE IInv'
  BY <1>6, SleepType, StoreAliasKeeps DEF PutAlias, StoreAlias, IInv, TypeOK, Progress
<1>7. ASSUME Fail PROVE IInv'
  BY <1>7, SleepType, CutOffKeeps DEF Fail, IInv, TypeOK, Progress
<1>8. ASSUME Crash PROVE IInv'
  <2>1. 0 \in Time /\ 0 \in Nat
    BY CalendarAssumption DEF Time
  <2>2. QED
    BY <1>8, <2>1, CutOffKeeps DEF Crash, IInv, TypeOK, Progress
<1>9. ASSUME Tick PROVE IInv'
  <2>1. now' \in Time
    BY <1>9, CalendarAssumption DEF Tick, IInv, TypeOK, Time
  <2>2. QED
    BY <1>9, <2>1 DEF Tick, IInv, TypeOK, Progress, ObjectsCarryTheirTime, AliasNamesAnObject
<1>10. ASSUME UNCHANGED vars PROVE IInv'
  BY <1>10 DEF vars, IInv, TypeOK, Progress, ObjectsCarryTheirTime, AliasNamesAnObject
<1>11. QED
  BY <1>1, <1>2, <1>3, <1>4, <1>5, <1>6, <1>7, <1>8, <1>9, <1>10
  DEF Next, Start, Wake, RunStep

\* The inductive invariant holds in every reachable state.
THEOREM Invariance == Spec => []IInv
  BY InitIInv, StepIInv, PTL DEF Spec

\* An object's canary is the time of the run that stored it.
THEOREM CanaryTheorem == Spec => []ObjectsCarryTheirTime
<1>1. IInv => ObjectsCarryTheirTime
  BY DEF IInv
<1>2. QED
  BY <1>1, Invariance, PTL

\* An alias names a stored object of its slot.
THEOREM AliasTheorem == Spec => []AliasNamesAnObject
<1>1. IInv => AliasNamesAnObject
  BY DEF IInv
<1>2. QED
  BY <1>1, Invariance, PTL

\* The variables keep their types.
THEOREM BackupTypeCorrect == Spec => []TypeOK
<1>1. IInv => TypeOK
  BY DEF IInv
<1>2. QED
  BY <1>1, Invariance, PTL

-----------------------------------------------------------------------------
(* Division *)

LEMMA Division ==
  ASSUME NEW a \in Nat, NEW d \in Nat \ {0}
  PROVE  /\ a \div d \in Nat /\ a % d \in 0..d - 1
         /\ a = d * (a \div d) + (a % d)
  OBVIOUS

LEMMA Multiples ==
  ASSUME NEW p \in Nat, NEW q \in Nat, NEW d \in Nat \ {0}, p < q
  PROVE  d * p + d <= d * q
<1>1. PICK k \in Nat : q = p + 1 + k
  BY q - p - 1 \in Nat
<1>2. d * q = d * p + d + d * k /\ d * k >= 0
  BY <1>1
<1>3. QED
  BY <1>2

LEMMA Multiplied ==
  ASSUME NEW p \in Nat, NEW q \in Int, NEW d \in Nat, p <= q
  PROVE  d * p <= d * q
<1>1. PICK k \in Nat : q = p + k
  BY q - p \in Nat
<1>2. d * q = d * p + d * k /\ d * k >= 0 /\ d * p \in Nat /\ d * k \in Nat
  BY <1>1
<1>3. QED
  BY <1>2

LEMMA QuotientsGrow ==
  ASSUME NEW a \in Nat, NEW b \in Nat, NEW d \in Nat \ {0}, a <= b
  PROVE  a \div d <= b \div d
<1> DEFINE p == a \div d
           q == b \div d
<1>1. /\ p \in Nat /\ q \in Nat /\ a >= d * p /\ b < d * q + d
  BY Division
<1>2. ASSUME q < p PROVE FALSE
  <2>1. d * q + d <= d * p
    BY <1>1, <1>2, Multiples
  <2>2. d * p \in Nat /\ d * q \in Nat
    BY <1>1
  <2>3. QED
    BY <1>1, <2>1, <2>2
<1>3. QED
  BY <1>1, <1>2

\* Numbers with the same remainder are whole multiples apart.
LEMMA SameRemainder ==
  ASSUME NEW a \in Nat, NEW b \in Nat, NEW d \in Nat \ {0}, a % d = b % d, a < b
  PROVE  /\ a \div d < b \div d
         /\ b - a = d * (b \div d - a \div d)
         /\ b - a >= d
<1> DEFINE p == a \div d
           q == b \div d
           r == a % d
<1>1. p \in Nat /\ q \in Nat /\ r \in Nat /\ a = d * p + r /\ b = d * q + r
  <2>1. p \in Nat /\ r \in 0..d - 1 /\ a = d * p + r
    BY Division
  <2>2. q \in Nat /\ b = d * q + (b % d)
    BY Division
  <2>3. QED
    BY <2>1, <2>2
<1>2. ~ q <= p
  <2> SUFFICES ASSUME q <= p PROVE FALSE
    OBVIOUS
  <2>1. q = p \/ q < p
    BY <1>1
  <2>2. d * q <= d * p
    BY <1>1, <2>1, Multiples
  <2>3. QED
    BY <1>1, <2>2
<1>3. p < q
  BY <1>1, <1>2
<1>4. d * p + d <= d * q
  BY <1>1, <1>3, Multiples
<1>5. d * (q - p) = d * q - d * p
  BY <1>1
<1>6. QED
  BY <1>1, <1>3, <1>4, <1>5

-----------------------------------------------------------------------------
(* The calendar of the names *)

LEMMA CalendarTypes ==
  ASSUME NEW t \in Time
  PROVE  t \in Nat /\ Hour(t) \in Nat /\ Day(t) \in Nat /\ Week(t) \in Nat
<1>1. t \in Nat
  BY CalendarAssumption DEF Time
<1>2. Hour(t) \in Nat
  BY <1>1, CalendarAssumption, Division DEF Hour
<1>3. Day(t) \in Nat
  BY <1>2, CalendarAssumption, Division DEF Day
<1>4. Week(t) \in Nat
  BY <1>3, CalendarAssumption, Division DEF Week
<1>5. QED
  BY <1>1, <1>2, <1>3, <1>4

LEMMA Slots ==
  ASSUME NEW t \in Time
  PROVE  /\ slot_of(t) = "hourly" => SlotIndex(t) = Hour(t) % HoursPerDay
         /\ slot_of(t) # "hourly" => Hour(t) % HoursPerDay = NightHour
         /\ slot_of(t) = "daily" => SlotIndex(t) = Day(t) % DaysPerWeek
         /\ slot_of(t) \in {"weekly", "yearly"} => Day(t) % DaysPerWeek = DaysPerWeek - 1
         /\ slot_of(t) = "weekly" => SlotIndex(t) = Week(t) % WeeksPerYear
         /\ slot_of(t) = "yearly" => /\ Week(t) % WeeksPerYear = WeeksPerYear - 1
                                     /\ SlotIndex(t) = Week(t) \div WeeksPerYear
         /\ slot_of(t) \in {"hourly", "daily", "weekly", "yearly"}
  BY DEF slot_of, SlotIndex, IsSunday, IsLastOfYear

\* The name of a slot recurs after a whole cycle, and the yearly one never.
LEMMA NamesRecur ==
  ASSUME NEW s \in Time, NEW t \in Time, object_name(s) = object_name(t), Hour(s) < Hour(t)
  PROVE  Hour(t) - Hour(s) >= Cycle(slot_of(s))
<1> DEFINE hours == Hour(t) - Hour(s)
           days  == Day(t) - Day(s)
           weeks == Week(t) - Week(s)
<1>1. /\ Hour(s) \in Nat /\ Day(s) \in Nat /\ Week(s) \in Nat
      /\ Hour(t) \in Nat /\ Day(t) \in Nat /\ Week(t) \in Nat
      /\ HoursPerDay \in Nat \ {0} /\ DaysPerWeek \in Nat \ {0} /\ WeeksPerYear \in Nat \ {0}
  BY CalendarTypes, CalendarAssumption
<1>2. slot_of(s) = slot_of(t) /\ SlotIndex(s) = SlotIndex(t)
  BY DEF object_name
<1>3. Hour(s) % HoursPerDay = Hour(t) % HoursPerDay
  BY <1>2, Slots
<1>4. hours >= HoursPerDay /\ hours = HoursPerDay * days /\ Day(s) < Day(t)
  BY <1>1, <1>3, SameRemainder DEF Day
<1>5. CASE slot_of(s) = "hourly"
  BY <1>4, <1>5 DEF Cycle
<1>6. CASE slot_of(s) # "hourly"
  <2>1. Day(s) % DaysPerWeek = Day(t) % DaysPerWeek
    BY <1>2, <1>6, Slots
  <2>2. days >= DaysPerWeek /\ days = DaysPerWeek * weeks /\ Week(s) < Week(t)
    BY <1>1, <1>4, <2>1, SameRemainder DEF Week
  <2>3. CASE slot_of(s) = "daily"
    <3>1. HoursPerDay * days >= HoursPerDay * DaysPerWeek
      BY <1>1, <2>2, Multiplied
    <3>2. QED
      BY <1>4, <2>3, <3>1 DEF Cycle
  <2>4. CASE slot_of(s) = "weekly"
    <3>1. weeks >= WeeksPerYear
      BY <1>1, <1>2, <2>2, <2>4, Slots, SameRemainder
    <3>2. DaysPerWeek * weeks >= DaysPerWeek * WeeksPerYear
      BY <1>1, <3>1, Multiplied
    <3>3. HoursPerDay * days >= HoursPerDay * (DaysPerWeek * WeeksPerYear)
      BY <1>1, <2>2, <3>2, Multiplied
    <3>4. HoursPerDay * (DaysPerWeek * WeeksPerYear) = HoursPerDay * DaysPerWeek * WeeksPerYear
      BY <1>1
    <3>5. QED
      BY <1>4, <2>4, <3>3, <3>4 DEF Cycle
  <2>5. CASE slot_of(s) = "yearly"
    <3>1. /\ Week(s) % WeeksPerYear = Week(t) % WeeksPerYear
          /\ Week(s) \div WeeksPerYear = Week(t) \div WeeksPerYear
      BY <1>2, <2>5, Slots
    <3>2. QED
      BY <1>1, <2>2, <3>1, SameRemainder
  <2>6. QED
    BY <1>6, <2>3, <2>4, <2>5, Slots
<1>7. QED
  BY <1>5, <1>6

LEMMA HoursGrow ==
  ASSUME NEW s \in Time, NEW t \in Time, s <= t
  PROVE  Hour(s) <= Hour(t)
  BY CalendarTypes, CalendarAssumption, QuotientsGrow DEF Hour

\* Within an hour there is one name.
LEMMA HourNames ==
  ASSUME NEW s \in Time, NEW t \in Time, Hour(s) = Hour(t)
  PROVE  object_name(s) = object_name(t)
  BY DEF object_name, SlotIndex, slot_of, IsSunday, IsLastOfYear, Week, Day

-----------------------------------------------------------------------------
(* Retention.  The canary is the newest time in the store; a run that is not    *)
(* skipped is of an hour after that of every object, so that the name it takes  *)
(* has come round.                                                              *)

History ==
  /\ runNow <= now
  /\ canary # None => canary <= now
  /\ pc \in {"check", "canary"} /\ canary # None => canary <= runNow
  /\ \A n \in Names : objects[n] # None => canary # None /\ objects[n] <= canary
  /\ pc = "canary" => ~ AlreadyCovered
  /\ pc \in {"vacuum", "put"} =>
       \A n \in Names : objects[n] # None => Hour(objects[n]) < Hour(runNow)

LEMMA CanaryStepOpensAnHour ==
  ASSUME IInv, History, pc = "canary", NEW n \in Names, objects[n] # None
  PROVE  Hour(objects[n]) < Hour(runNow)
<1>1. objects[n] \in Time /\ canary \in Time /\ runNow \in Time /\ canary # None
  BY DEF IInv, TypeOK, History
<1>2. objects[n] <= canary /\ canary <= runNow
  BY DEF History
<1>3. Hour(objects[n]) <= Hour(canary) /\ Hour(canary) <= Hour(runNow)
  BY <1>1, <1>2, HoursGrow
<1>4. Hour(canary) # Hour(runNow)
  BY <1>1, HourNames DEF History, AlreadyCovered
<1>5. QED
  BY <1>1, <1>3, <1>4, CalendarTypes

LEMMA CutOffHistory ==
  ASSUME IInv, History, CutOff, now' = now
  PROVE  /\ canary' # None => canary' <= now
         /\ \A n \in Names : objects'[n] # None => canary' # None /\ objects'[n] <= canary'
<1>t. now \in Nat /\ runNow \in Nat /\ runNow # None /\ runNow <= now
  BY CalendarTypes, NotNone DEF IInv, TypeOK, History
<1>1. CASE UNCHANGED <<canary, store>>
  BY <1>1 DEF store, History
<1>2. CASE pc = "canary" /\ canary' = runNow /\ UNCHANGED store
  <2>1. ASSUME NEW n \in Names, objects[n] # None PROVE objects[n] <= runNow
    BY <1>2, <2>1, CalendarTypes DEF History, IInv, TypeOK
  <2>2. QED
    BY <1>t, <1>2, <2>1 DEF store
<1>3. CASE pc = "put" /\ StoreObject /\ UNCHANGED canary
  BY <1>t, <1>3 DEF StoreObject, IInv, TypeOK, Progress, History
<1>4. CASE pc = "alias" /\ StoreAlias /\ UNCHANGED canary
  BY <1>4 DEF StoreAlias, History
<1>5. QED
  BY <1>1, <1>2, <1>3, <1>4 DEF CutOff

LEMMA StepHistory == IInv /\ History /\ [Next]_vars => History'
<1> SUFFICES ASSUME IInv, History, [Next]_vars PROVE History'
  OBVIOUS
<1> USE DEF store
<1>t. /\ now \in Nat /\ runNow \in Nat /\ runNow # None /\ runNow <= now
      /\ runNow \in Time /\ canary \in Time \cup {None}
  BY CalendarTypes, NotNone DEF IInv, TypeOK, History
<1>1. ASSUME BeginRun PROVE History'
  BY <1>1, <1>t DEF BeginRun, History
<1>2. ASSUME CheckCanary PROVE History'
  BY <1>2, <1>t DEF CheckCanary, Sleep, History, AlreadyCovered
<1>3. ASSUME WriteCanary PROVE History'
  <2>1. ASSUME NEW n \in Names, objects[n] # None PROVE objects[n] <= runNow
    BY <1>3, <2>1, CalendarTypes DEF WriteCanary, History, IInv, TypeOK
  <2>2. QED
    BY <1>3, <1>t, <2>1, CanaryStepOpensAnHour DEF WriteCanary, History
<1>4. ASSUME Vacuum PROVE History'
  BY <1>4, <1>t DEF Vacuum, History
<1>5. ASSUME PutObject PROVE History'
  BY <1>5, <1>t DEF PutObject, StoreObject, History, IInv, TypeOK, Progress
<1>6. ASSUME PutAlias PROVE History'
  BY <1>6, <1>t DEF PutAlias, StoreAlias, Sleep, History
<1>7. ASSUME Fail PROVE History'
  BY <1>7, <1>t, CutOffHistory DEF Fail, Sleep, History
<1>8. ASSUME Crash PROVE History'
  BY <1>8, <1>t, CutOffHistory DEF Crash, History
<1>9. ASSUME Tick PROVE History'
  <2>1. canary # None => canary <= now + 1
    BY <1>t, CalendarTypes DEF History
  <2>2. QED
    BY <1>9, <1>t, <2>1 DEF Tick, History, AlreadyCovered
<1>10. ASSUME UNCHANGED vars PROVE History'
  BY <1>10 DEF vars, History, AlreadyCovered
<1>11. QED
  BY <1>1, <1>2, <1>3, <1>4, <1>5, <1>6, <1>7, <1>8, <1>9, <1>10
  DEF Next, Start, Wake, RunStep

LEMMA HistoryInvariance == Spec => []History
<1>1. Init => History
  BY DEF Init, History
<1>2. QED
  BY <1>1, StepHistory, Invariance, PTL DEF Spec

\* Only the put of the object changes an object.
LEMMA Overwritten ==
  ASSUME IInv, [Next]_vars, NEW n \in Names, objects'[n] # objects[n]
  PROVE  pc = "put" /\ n = object_name(runNow) /\ objects'[n] = runNow
<1>1. pc = "put" /\ StoreObject
  BY DEF Next, vars, store, Start, Wake, BeginRun, RunStep, CheckCanary, WriteCanary, Vacuum,
         PutObject, PutAlias, StoreAlias, Tick, Fail, Crash, CutOff
<1>2. QED
  BY <1>1 DEF StoreObject, IInv, TypeOK, Progress

\* An object gives way only to one that is a whole cycle of its slot younger,
\* for every calendar, whatever fails and restarts.
THEOREM RetentionTheorem == Spec => RetainedForACycle
<1>1. IInv /\ History /\ [Next]_vars =>
        [\A n \in Names :
           objects[n] # None /\ objects'[n] # objects[n]
             => Hour(objects'[n]) - Hour(objects[n]) >= Cycle(n[1])]_vars
  <2> SUFFICES ASSUME IInv, History, [Next]_vars, NEW n \in Names,
                      objects[n] # None, objects'[n] # objects[n]
               PROVE  Hour(objects'[n]) - Hour(objects[n]) >= Cycle(n[1])
    OBVIOUS
  <2>1. pc = "put" /\ n = object_name(runNow) /\ objects'[n] = runNow
    BY Overwritten
  <2>2. objects[n] \in Time /\ runNow \in Time
    BY DEF IInv, TypeOK
  <2>3. object_name(objects[n]) = object_name(runNow) /\ Hour(objects[n]) < Hour(runNow)
    BY <2>1 DEF IInv, ObjectsCarryTheirTime, History
  <2>4. Hour(runNow) - Hour(objects[n]) >= Cycle(slot_of(objects[n]))
    BY <2>2, <2>3, NamesRecur
  <2>5. n[1] = slot_of(objects[n])
    BY <2>1, <2>2, <2>3, NameShowsSlot
  <2>6. QED
    BY <2>1, <2>4, <2>5
<1>2. QED
  BY <1>1, Invariance, HistoryInvariance, PTL DEF Spec, RetainedForACycle

-----------------------------------------------------------------------------
(* Freshness.  As long as nothing fails, runs follow one another at the interval  *)
(* and the time of a run, which is one hour or two: the names of neighbours       *)
(* differ, so that none is skipped and none overwrites the last one.              *)

Apart(s, t) == TicksPerHour <= t - s /\ t - s <= TicksPerHour + RunTicks

LEMMA NeighbourHours ==
  ASSUME NEW s \in Time, NEW t \in Time, Apart(s, t)
  PROVE  Hour(s) < Hour(t) /\ Hour(t) <= Hour(s) + 2
<1> DEFINE hs == Hour(s)
           ht == Hour(t)
<1>1. /\ hs \in Nat /\ ht \in Nat /\ s \in Nat /\ t \in Nat
      /\ TicksPerHour \in Nat \ {0} /\ RunTicks \in Nat /\ RunTicks < TicksPerHour
      /\ HoursPerDay \in Nat \ {0} /\ HoursPerDay > 2
  BY CalendarTypes, CalendarAssumption
<1>2. /\ TicksPerHour * hs <= s /\ s < TicksPerHour * hs + TicksPerHour
      /\ TicksPerHour * ht <= t /\ t < TicksPerHour * ht + TicksPerHour
      /\ TicksPerHour * hs \in Nat /\ TicksPerHour * ht \in Nat
  <2>1. /\ s % TicksPerHour \in 0..TicksPerHour - 1
        /\ s = TicksPerHour * hs + (s % TicksPerHour)
    BY <1>1, Division DEF Hour
  <2>2. /\ t % TicksPerHour \in 0..TicksPerHour - 1
        /\ t = TicksPerHour * ht + (t % TicksPerHour)
    BY <1>1, Division DEF Hour
  <2>3. QED
    BY <1>1, <2>1, <2>2
<1>3. hs < ht
  <2> SUFFICES ASSUME ht <= hs PROVE FALSE
    BY <1>1
  <2>1. TicksPerHour * ht <= TicksPerHour * hs
    BY <1>1, Multiplied
  <2>2. QED
    BY <1>1, <1>2, <2>1 DEF Apart
<1>4. ht <= hs + 2
  <2> SUFFICES ASSUME hs + 3 <= ht PROVE FALSE
    BY <1>1
  <2>1. TicksPerHour * (hs + 3) <= TicksPerHour * ht
    BY <1>1, hs + 3 \in Nat, Multiplied
  <2>2. TicksPerHour * (hs + 3) = TicksPerHour * hs + 3 * TicksPerHour
    BY <1>1
  <2>3. QED
    BY <1>1, <1>2, <2>1, <2>2 DEF Apart
<1>5. QED
  BY <1>3, <1>4

\* Neighbours are not of the same hour of the day.
LEMMA NeighbourHoursDiffer ==
  ASSUME NEW s \in Time, NEW t \in Time, Apart(s, t)
  PROVE  Hour(s) % HoursPerDay # Hour(t) % HoursPerDay
<1>1. /\ Hour(s) \in Nat /\ Hour(t) \in Nat
      /\ HoursPerDay \in Nat \ {0} /\ HoursPerDay > 2
  BY CalendarTypes, CalendarAssumption
<1>2. ASSUME Hour(s) % HoursPerDay = Hour(t) % HoursPerDay PROVE FALSE
  <2>1. Hour(t) - Hour(s) >= HoursPerDay
    BY <1>1, <1>2, NeighbourHours, SameRemainder
  <2>2. QED
    BY <1>1, <2>1, NeighbourHours
<1>3. QED
  BY <1>2

LEMMA NeighboursDiffer ==
  ASSUME NEW s \in Time, NEW t \in Time, Apart(s, t)
  PROVE  object_name(s) # object_name(t)
<1>1. ASSUME object_name(s) = object_name(t) PROVE FALSE
  <2>1. slot_of(s) = slot_of(t) /\ SlotIndex(s) = SlotIndex(t)
    BY <1>1 DEF object_name
  <2>2. Hour(s) % HoursPerDay = Hour(t) % HoursPerDay
    BY <2>1, Slots
  <2>3. QED
    BY <2>2, NeighbourHoursDiffer
<1>2. QED
  BY <1>1

\* The object of the run before the present one.
Previous(p) ==
  /\ objects[object_name(p)] = p
  /\ Apart(p, runNow)
  /\ pc \in {"check", "canary"} => canary = p

Steady ==
  /\ pc = "down" => canary = None /\ wake = 0
  /\ pc = "sleep" => /\ Apart(runNow, wake) /\ now <= wake
                     /\ canary = runNow /\ objects[object_name(runNow)] = runNow
  /\ pc \in Running => now <= runNow + RunTicks
  /\ pc \in {"check", "canary"} /\ wake = 0 => canary = None
  /\ pc \in Running /\ wake # 0 => \E p \in Time : Previous(p)
  /\ pc = "alias" => objects[object_name(runNow)] = runNow

LEMMA StepSteady ==
  ASSUME IInv, History, healthy => Steady, [Next]_vars, healthy'
  PROVE  Steady'
<1> USE DEF store, Running
<1>t. /\ now \in Nat /\ runNow \in Nat /\ runNow <= now /\ wake \in Nat
      /\ runNow \in Time /\ now \in Time /\ canary \in Time \cup {None}
      /\ TicksPerHour \in Nat \ {0} /\ RunTicks \in Nat
      /\ objects \in [Names -> Time \cup {None}]
  BY CalendarTypes, CalendarAssumption DEF IInv, TypeOK, History
<1>h. healthy /\ Steady /\ ~ Fail /\ ~ Crash
  BY DEF Next, Start, Wake, BeginRun, RunStep, CheckCanary, WriteCanary, Vacuum, PutObject,
         PutAlias, Tick, Fail, Crash, vars
<1>1. ASSUME Start PROVE Steady'
  BY <1>1, <1>h, <1>t DEF Start, BeginRun, Steady
<1>2. ASSUME Wake PROVE Steady'
  <2>1. PICK p \in Time : p = runNow
    BY <1>t
  <2>2. /\ pc = "sleep" /\ now = wake /\ pc' = "check" /\ runNow' = now
        /\ UNCHANGED <<now, canary, objects, wake>>
    BY <1>2 DEF Wake, BeginRun
  <2>3. Apart(p, wake) /\ canary = p /\ objects[object_name(p)] = p
    BY <1>h, <2>1, <2>2 DEF Steady
  <2>4. Previous(p)'
    BY <2>2, <2>3 DEF Previous
  <2>5. wake # 0
    BY <1>t, <2>1, <2>3 DEF Apart
  <2>6. QED
    BY <1>t, <2>2, <2>4, <2>5 DEF Steady
<1>3. ASSUME CheckCanary PROVE Steady'
  <2>1. ~ AlreadyCovered
    <3>1. CASE wake = 0
      BY <1>3, <1>h, <3>1 DEF CheckCanary, Steady, AlreadyCovered
    <3>2. CASE wake # 0
      BY <1>3, <1>h, <1>t, <3>2, NeighboursDiffer
      DEF CheckCanary, Steady, AlreadyCovered, Previous
    <3>3. QED
      BY <3>1, <3>2
  <2>2. pc = "check" /\ pc' = "canary"
        /\ UNCHANGED <<now, canary, objects, runNow, wake>>
    BY <1>3, <2>1 DEF CheckCanary
  <2>3. QED
    BY <1>h, <2>2 DEF Steady, Previous
<1>4. ASSUME WriteCanary \/ Vacuum PROVE Steady'
  BY <1>4, <1>h DEF WriteCanary, Vacuum, Steady, Previous
<1>5. ASSUME PutObject PROVE Steady'
  <2>1. /\ pc = "put" /\ pc' = "alias"
        /\ objects' = [objects EXCEPT ![object_name(runNow)] = runNow]
        /\ UNCHANGED <<now, canary, runNow, wake>>
    BY <1>5 DEF PutObject, StoreObject, IInv, Progress
  <2>2. objects'[object_name(runNow)] = runNow
    BY <1>t, <2>1, NameShowsSlot
  <2>3. ASSUME NEW p \in Time, Previous(p) PROVE Previous(p)'
    <3>1. object_name(p) # object_name(runNow)
      BY <1>t, <2>3, NeighboursDiffer DEF Previous
    <3>2. QED
      BY <1>t, <2>1, <2>3, <3>1, NameShowsSlot DEF Previous
  <2>4. QED
    BY <1>h, <2>1, <2>2, <2>3 DEF Steady
<1>6. ASSUME PutAlias PROVE Steady'
  <2>1. /\ pc = "alias" /\ pc' = "sleep" /\ wake' = now + TicksPerHour
        /\ UNCHANGED <<now, canary, objects, runNow>>
    BY <1>6 DEF PutAlias, StoreAlias, Sleep
  <2>2. canary = runNow
    BY <2>1 DEF IInv, Progress
  <2>3. Apart(runNow, wake') /\ now <= wake'
    BY <1>h, <1>t, <2>1 DEF Steady, Apart
  <2>4. QED
    BY <1>h, <2>1, <2>2, <2>3 DEF Steady, Apart
<1>7. ASSUME Tick PROVE Steady'
  BY <1>7, <1>h, <1>t DEF Tick, Steady, Previous, Apart
<1>8. ASSUME UNCHANGED vars PROVE Steady'
  BY <1>8, <1>h DEF vars, Steady, Previous
<1>9. QED
  BY <1>h, <1>1, <1>2, <1>3, <1>4, <1>5, <1>6, <1>7, <1>8 DEF Next, RunStep

LEMMA SteadyInvariance == Spec => [](healthy => Steady)
<1>1. Init => (healthy => Steady)
  BY DEF Init, Steady, Running
<1>2. IInv /\ History /\ (healthy => Steady) /\ [Next]_vars => (healthy => Steady)'
  BY StepSteady
<1>3. QED
  BY <1>1, <1>2, Invariance, HistoryInvariance, PTL DEF Spec

\* As long as nothing has failed, the newest object is at most the interval and two
\* runs old, for every calendar.
THEOREM FreshnessTheorem == Spec => []FreshWhileHealthy
<1>1. IInv /\ History /\ (healthy => Steady) => FreshWhileHealthy
  <2> SUFFICES ASSUME IInv, History, Steady, wake # 0
               PROVE  \E n \in Names :
                        objects[n] # None /\ now - objects[n] <= TicksPerHour + 2 * RunTicks
    BY DEF FreshWhileHealthy
  <2>t. /\ now \in Nat /\ runNow \in Nat /\ wake \in Nat /\ runNow \in Time
        /\ TicksPerHour \in Nat \ {0} /\ RunTicks \in Nat
    BY CalendarTypes, CalendarAssumption DEF IInv, TypeOK
  <2>1. CASE pc = "sleep"
    <3>1. objects[object_name(runNow)] = runNow /\ runNow # None
          /\ object_name(runNow) \in Names
      BY <2>1, <2>t, NotNone, NameShowsSlot DEF Steady
    <3>2. now - runNow <= TicksPerHour + 2 * RunTicks
      BY <2>1, <2>t DEF Steady, Apart
    <3>3. QED
      BY <3>1, <3>2
  <2>2. CASE pc \in Running
    <3>1. PICK p \in Time : Previous(p)
      BY <2>2 DEF Steady
    <3>2. objects[object_name(p)] = p /\ p # None /\ object_name(p) \in Names
      BY <3>1, NotNone, NameShowsSlot DEF Previous
    <3>3. now - p <= TicksPerHour + 2 * RunTicks
      BY <2>2, <2>t, <3>1, CalendarTypes DEF Steady, Previous, Apart
    <3>4. QED
      BY <3>2, <3>3
  <2>3. CASE pc = "down"
    BY <2>3 DEF Steady
  <2>4. QED
    BY <2>1, <2>2, <2>3 DEF IInv, TypeOK
<1>2. QED
  BY <1>1, Invariance, HistoryInvariance, SteadyInvariance, PTL

-----------------------------------------------------------------------------
(* The verification.  Of two runs that follow one another, one is in an hourly  *)
(* slot, so that the alias of the hourly backups is not older than two runs.    *)

\* What a verification would find now.
Found == objects[alias["hourly"]]

\* Found is not older than the run p, or than the one before it if p was in another slot.
NotOlderThan(p) ==
  IF slot_of(p) = "hourly" THEN Found >= p ELSE Found + TicksPerHour + RunTicks >= p

HourlyRecent ==
  alias["hourly"] # None =>
    /\ pc # "down"
    /\ pc = "sleep" => NotOlderThan(runNow)
    /\ pc \in Running => \E p \in Time : Apart(p, runNow) /\ NotOlderThan(p)

\* Objects stay, and become younger only.
LEMMA ObjectsGrow ==
  ASSUME IInv, History, [Next]_vars, NEW n \in Names, objects[n] # None
  PROVE  /\ objects[n] \in Nat /\ objects'[n] \in Nat /\ objects'[n] # None
         /\ objects[n] <= objects'[n]
<1>1. objects[n] \in Time /\ objects[n] \in Nat /\ runNow \in Time /\ runNow \in Nat
  BY CalendarTypes DEF IInv, TypeOK
<1>2. CASE objects'[n] = objects[n]
  BY <1>1, <1>2
<1>3. CASE objects'[n] # objects[n]
  <2>1. pc = "put" /\ objects'[n] = runNow
    BY <1>3, Overwritten
  <2>2. canary = runNow /\ objects[n] <= canary
    BY <2>1 DEF IInv, Progress, History
  <2>3. QED
    BY <1>1, <2>1, <2>2, NotNone
<1>4. QED
  BY <1>2, <1>3

\* As long as the alias stays, what it names does.
LEMMA StaysRecent ==
  ASSUME IInv, History, [Next]_vars, alias' = alias, alias["hourly"] # None,
         NEW p \in Time, NotOlderThan(p)
  PROVE  NotOlderThan(p)'
<1>1. alias["hourly"] \in Names /\ Found # None
  BY DEF IInv, TypeOK, AliasNamesAnObject, SlotKind, Found
<1>2. Found \in Nat /\ Found' \in Nat /\ Found <= Found'
  BY <1>1, ObjectsGrow DEF Found
<1>3. p \in Nat /\ TicksPerHour \in Nat /\ RunTicks \in Nat
  BY CalendarTypes, CalendarAssumption
<1> DEFINE before == Found
           after == Found'
<1> HIDE DEF before, after
<1>4. before \in Nat /\ after \in Nat /\ before <= after
  BY <1>2 DEF before, after
<1>5. CASE slot_of(p) = "hourly"
  <2>1. before >= p
    BY <1>5 DEF NotOlderThan, before
  <2>2. after >= p
    BY <1>3, <1>4, <2>1
  <2>3. QED
    BY <1>5, <2>2 DEF NotOlderThan, after
<1>6. CASE slot_of(p) # "hourly"
  <2>1. before + TicksPerHour + RunTicks >= p
    BY <1>6 DEF NotOlderThan, before
  <2>2. after + TicksPerHour + RunTicks >= p
    BY <1>3, <1>4, <2>1
  <2>3. QED
    BY <1>6, <2>2 DEF NotOlderThan, after
<1>7. QED
  BY <1>5, <1>6

LEMMA StepHourly ==
  ASSUME IInv, History, Steady, HourlyRecent, [Next]_vars, healthy'
  PROVE  HourlyRecent'
<1> USE DEF store, Running
<1>t. /\ runNow \in Time /\ alias \in [SlotKind -> Names \cup {None}]
      /\ "hourly" \in SlotKind
  BY DEF IInv, TypeOK, SlotKind
<1>h. ~ Fail /\ ~ Crash
  BY DEF Fail, Crash
<1>1. ASSUME Start PROVE HourlyRecent'
  BY <1>1 DEF Start, BeginRun, HourlyRecent
<1>2. ASSUME Wake PROVE HourlyRecent'
  <2>1. /\ pc = "sleep" /\ now = wake /\ pc' = "check" /\ runNow' = now
        /\ alias' = alias
    BY <1>2 DEF Wake, BeginRun
  <2>2. Apart(runNow, runNow')
    BY <2>1 DEF Steady
  <2>3. ASSUME alias["hourly"] # None PROVE NotOlderThan(runNow)
    BY <2>1, <2>3 DEF HourlyRecent
  <2>4. ASSUME NEW p \in Time, p = runNow, alias["hourly"] # None
        PROVE  Apart(p, runNow)' /\ NotOlderThan(p)'
    BY <2>1, <2>2, <2>3, <2>4, StaysRecent DEF Apart
  <2>5. QED
    BY <1>t, <2>1, <2>4 DEF HourlyRecent
<1>3. ASSUME CheckCanary PROVE HourlyRecent'
  <2>1. ~ AlreadyCovered
    <3>1. CASE wake = 0
      BY <1>3, <3>1 DEF CheckCanary, Steady, AlreadyCovered
    <3>2. CASE wake # 0
      BY <1>t, <1>3, <3>2, NeighboursDiffer DEF CheckCanary, Steady, AlreadyCovered, Previous
    <3>3. QED
      BY <3>1, <3>2
  <2>2. /\ pc = "check" /\ pc' = "canary" /\ UNCHANGED <<runNow, alias, objects>>
    BY <1>3, <2>1 DEF CheckCanary
  <2>3. QED
    BY <2>2 DEF HourlyRecent, NotOlderThan, Found
<1>4. ASSUME WriteCanary \/ Vacuum \/ PutObject PROVE HourlyRecent'
  <2>1. /\ pc \in Running /\ pc' \in Running /\ UNCHANGED <<runNow, alias>>
    BY <1>4 DEF WriteCanary, Vacuum, PutObject, StoreObject
  <2>2. ASSUME alias["hourly"] # None
        PROVE  \E p \in Time : Apart(p, runNow)' /\ NotOlderThan(p)'
    <3>1. PICK p \in Time : Apart(p, runNow) /\ NotOlderThan(p)
      BY <2>1, <2>2 DEF HourlyRecent
    <3>2. QED
      BY <2>1, <2>2, <3>1, StaysRecent DEF Apart
  <2>3. QED
    BY <2>1, <2>2 DEF HourlyRecent
<1>5. ASSUME PutAlias PROVE HourlyRecent'
  <2>1. /\ pc = "alias" /\ pc' = "sleep" /\ runNow' = runNow /\ objects' = objects
        /\ alias' = [alias EXCEPT ![slot_of(runNow)] = object_name(runNow)]
    BY <1>5 DEF PutAlias, StoreAlias, Sleep
  <2>2. CASE slot_of(runNow) = "hourly"
    <3>1. Found' = runNow /\ runNow \in Nat
      BY <1>t, <2>1, <2>2, CalendarTypes DEF Found, Steady
    <3>2. QED
      BY <2>1, <2>2, <3>1 DEF HourlyRecent, NotOlderThan
  <2>3. CASE slot_of(runNow) # "hourly"
    <3>1. alias'["hourly"] = alias["hourly"]
      BY <1>t, <2>1, <2>3
    <3>2. ASSUME alias["hourly"] # None PROVE NotOlderThan(runNow)'
      <4>1. PICK p \in Time : Apart(p, runNow) /\ NotOlderThan(p)
        BY <2>1, <3>2 DEF HourlyRecent
      <4>2. slot_of(p) = "hourly"
        BY <1>t, <2>3, <4>1, Slots, NeighbourHoursDiffer
      <4>3. Found >= p /\ Found \in Nat
        BY <1>t, <3>2, <4>1, <4>2, CalendarTypes
        DEF NotOlderThan, Found, IInv, TypeOK, AliasNamesAnObject
      <4>4. Found + TicksPerHour + RunTicks >= runNow
        BY <1>t, <4>1, <4>3, CalendarTypes, CalendarAssumption DEF Apart
      <4>5. QED
        BY <2>1, <2>3, <3>1, <4>4 DEF NotOlderThan, Found
    <3>3. QED
      BY <2>1, <3>1, <3>2 DEF HourlyRecent
  <2>4. QED
    BY <2>2, <2>3
<1>6. ASSUME Tick PROVE HourlyRecent'
  BY <1>6 DEF Tick, HourlyRecent, NotOlderThan, Found, Apart
<1>7. ASSUME UNCHANGED vars PROVE HourlyRecent'
  BY <1>7 DEF vars, HourlyRecent, NotOlderThan, Found, Apart
<1>8. QED
  BY <1>h, <1>1, <1>2, <1>3, <1>4, <1>5, <1>6, <1>7 DEF Next, RunStep

LEMMA HourlyInvariance == Spec => [](healthy => HourlyRecent)
<1>1. Init => (healthy => HourlyRecent)
  BY DEF Init, HourlyRecent, SlotKind
<1>2. [Next]_vars /\ healthy' => healthy
  BY DEF Next, Start, Wake, BeginRun, RunStep, CheckCanary, WriteCanary, Vacuum, PutObject,
     PutAlias, Tick, Fail, Crash, vars
<1>3. IInv /\ History /\ (healthy => Steady) /\ (healthy => HourlyRecent) /\ [Next]_vars
        => (healthy => HourlyRecent)'
  BY <1>2, StepHourly
<1>4. QED
  BY <1>1, <1>3, Invariance, HistoryInvariance, SteadyInvariance, PTL DEF Spec

\* How old the newest hourly backup is.
LEMMA HourlyAge ==
  ASSUME IInv, History, Steady, HourlyRecent, alias["hourly"] # None
  PROVE  Found \in Nat /\ now \in Nat /\ now - Found <= 2 * TicksPerHour + 3 * RunTicks
<1>1. /\ now \in Nat /\ runNow \in Nat /\ wake \in Nat
      /\ TicksPerHour \in Nat /\ RunTicks \in Nat
  BY CalendarTypes, CalendarAssumption DEF IInv, TypeOK
<1>2. Found \in Nat
  BY CalendarTypes DEF IInv, TypeOK, AliasNamesAnObject, SlotKind, Found
<1>3. ASSUME NEW p \in Time, NotOlderThan(p) PROVE p <= Found + TicksPerHour + RunTicks
  BY <1>1, <1>2, <1>3, CalendarTypes DEF NotOlderThan
<1>4. CASE pc = "sleep"
  <2>1. runNow <= Found + TicksPerHour + RunTicks
    BY <1>3, <1>4 DEF HourlyRecent, IInv, TypeOK
  <2>2. QED
    BY <1>1, <1>2, <1>4, <2>1 DEF Steady, Apart
<1>5. CASE pc \in Running
  <2>1. PICK p \in Time : Apart(p, runNow) /\ NotOlderThan(p)
    BY <1>5 DEF HourlyRecent
  <2>2. p <= Found + TicksPerHour + RunTicks /\ p \in Nat
    BY <1>3, <2>1, CalendarTypes
  <2>3. QED
    BY <1>1, <1>2, <1>5, <2>1, <2>2 DEF Steady, Apart
<1>6. QED
  BY <1>2, <1>4, <1>5 DEF HourlyRecent, IInv, TypeOK

\* What has been read of the alias names an object that is there.
Reading == verifying # None => verifying.name \in Names /\ verifying.at \in Nat

\* As long as nothing has failed, a verification that allows an age of two intervals and
\* three runs raises no alarm, for every calendar.  With runs of two minutes that is any
\* KEHRKRAFT_BACKUP_MAX_AGE_HOURS from 3 on.
THEOREM NoFalseAlarmTheorem ==
  ASSUME 2 * TicksPerHour + 3 * RunTicks <= MaxAgeHours * TicksPerHour
  PROVE  VerifySpec => []NoFalseAlarm
<1>1. VerifySpec => Spec
  <2>1. VerifyInit => Init
    BY DEF VerifyInit
  <2>2. [VerifyNext]_verifyVars => [Next]_vars
    BY DEF VerifyNext, VerifyTick, ReadAlias, ReadObject, verifyVars, Next
  <2>3. QED
    BY <2>1, <2>2, PTL DEF VerifySpec, Spec
<1> DEFINE Known == IInv /\ History /\ (healthy => Steady) /\ (healthy => HourlyRecent)
           Alarmless == Reading /\ NoFalseAlarm
<1>2. VerifyInit => Alarmless
  BY DEF VerifyInit, Reading, NoFalseAlarm
<1>3. Known /\ Alarmless /\ [VerifyNext]_verifyVars => Alarmless'
  <2> SUFFICES ASSUME Known, Alarmless, [VerifyNext]_verifyVars PROVE Alarmless'
    OBVIOUS
  <2>1. MaxAgeHours * TicksPerHour \in Nat /\ TicksPerHour \in Nat /\ RunTicks \in Nat
    BY VerifyAssumption, CalendarAssumption
  <2>2. CASE ReadAlias
    <3>1. /\ alias["hourly"] # None /\ verifying' = [at |-> now, name |-> alias["hourly"]]
          /\ UNCHANGED vars
      BY <2>2 DEF ReadAlias
    <3>2. alias["hourly"] \in Names /\ objects[alias["hourly"]] # None /\ now \in Nat
      BY <3>1, CalendarTypes DEF IInv, TypeOK, AliasNamesAnObject, SlotKind
    <3>3. ASSUME healthy PROVE now - objects[alias["hourly"]] <= MaxAgeHours * TicksPerHour
      BY <2>1, <3>1, <3>3, HourlyAge DEF Found
    <3>4. QED
      BY <3>1, <3>2, <3>3 DEF Reading, NoFalseAlarm, Fresh, vars, store
  <2>3. CASE ReadObject
    BY <2>3 DEF ReadObject, Reading, NoFalseAlarm
  <2>4. CASE [Next]_vars /\ UNCHANGED verifying
    <3>1. healthy' => healthy
      BY <2>4 DEF Next, Start, Wake, BeginRun, RunStep, CheckCanary, WriteCanary, Vacuum,
         PutObject, PutAlias, Tick, Fail, Crash, vars
    <3>2. ASSUME verifying # None, healthy PROVE Fresh(verifying)'
      <4>1. /\ verifying.name \in Names /\ verifying.at \in Nat
            /\ objects[verifying.name] # None
            /\ verifying.at - objects[verifying.name] <= MaxAgeHours * TicksPerHour
        BY <3>2 DEF Reading, NoFalseAlarm, Fresh
      <4>2. /\ objects[verifying.name] \in Nat /\ objects'[verifying.name] \in Nat
            /\ objects'[verifying.name] # None
            /\ objects[verifying.name] <= objects'[verifying.name]
        BY <2>4, <4>1, ObjectsGrow
      <4>3. QED
        BY <2>1, <2>4, <4>1, <4>2 DEF Fresh
    <3>3. QED
      BY <2>4, <3>1, <3>2 DEF Reading, NoFalseAlarm
  <2>5. QED
    BY <2>2, <2>3, <2>4 DEF VerifyNext, VerifyTick, Next, verifyVars
<1>4. VerifySpec => []Alarmless
  BY <1>1, <1>2, <1>3, Invariance, HistoryInvariance, SteadyInvariance, HourlyInvariance, PTL
  DEF VerifySpec
<1>5. QED
  BY <1>4, PTL
=============================================================================
