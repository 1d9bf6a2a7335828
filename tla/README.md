# Kehrkraft in TLA+

Kehrkraft keeps, in one SQLite database, who owns and who rents the apartments of
a number of buildings, and computes from it who sweeps the stairs in which week.
This directory holds TLA+ modules of the parts in which something can go wrong
over several steps or between several sessions, the TLC configurations that
check them on small instances, and theorems about them that TLAPS has proved for
all instances. Paths such as `src/db/queries.rs` are relative to the repository.

To check a configuration: `tlc -config MCOwnership.cfg MCOwnership.tla`; to check
the proofs of a module: `tlapm KehrwocheTheorems.tla`. `PROJECT.json` lists the
runs, for every property a mutation of the model that breaks it, the source lines
behind every definition, the hazards, the findings and the theorems.

## The system

| Part | State | Operations | Interacts with |
|---|---|---|---|
| Periods of ownership (`migrations/0002`..`0013`, `src/db/queries.rs`) | `ownerships` per apartment, `building_owners` per building | create, create closing the previous one, update, delete; rejected by triggers | apartments (cascade), people, the day (`date('now','localtime')`) |
| Buildings and apartments | rows, `position`, `created_at`, `rotation_seed` | create with a first owner, delete, reorder, offset | cascades to everything below |
| Tenancies | `tenancies` per apartment | create, create closing the previous one, update, delete | apartments (cascade), people |
| People (`0007`-`0009`, `0013`) | one row per e-mail address; join rows, tenancies and administrators refer to it | resolved by every form, edited on the person page, deleted by triggers | all of the above |
| Admin handlers (`src/web/admin.rs`) | none between requests; what a request has read within it | read, ask for confirmation, write, in separate awaits | the database, other sessions, midnight |
| Scheduler (`src/scheduler/mod.rs`) | none | `schedule_for_year` reads everything above | called by the pages, the PDF and the feed |
| Backup (`src/backup`) | canary row in the database, objects and aliases in the bucket, the sleeping task | a run per interval; `kehrkraft verify` | database, object store, clock, crashes |
| Rate limiter (`src/app.rs`) | a window and a count per client address | one check per PDF request | the clock |
| HTTP application (`src/app.rs`, `src/i18n.rs`) | the browser's credentials and `lang` cookie | routes, authentication, demo mode, language and its switch | rate limiter, every handler |
| Startup and shutdown (`src/main.rs`, `src/config.rs`) | the saved development port, the listening socket | bind, retry, fall back, save; a signal, graceful shutdown | the operating system, requests in progress |
| PDF (`src/web/pdf.rs`) | a temporary directory and a typst process per request | make, write, compile with a timeout, read, remove | scheduler, startup and shutdown |
| Page, PDF and feed as calendars (`src/web/admin.rs`, `pdf.rs`, `ical.rs`) | what a subscriber keeps of the feed | rows, columns, events of one to three ISO years | scheduler, the clock |
| Templates, translations, static assets, encryption | none | text; a snapshot is the snapshot | - |

What is hard about it: triggers that see one statement of a transaction at a time
while the rules speak of whole chains; rules about *today*, which changes without
a write; handlers that read in one await and write in another, with the user's
answer and other sessions in between; cleanup triggers that fire row by row in
cascades; interval arithmetic on closed intervals with an open end; a rotation
whose length changes from week to week and which goes on across years; a schedule
read by five queries without a transaction; a
backup task that can fail, be cut off or die between the canary, the snapshot,
the object and its alias, while another process verifies them; names and rows that
depend on years of 52 and 53 weeks; instances that replace one another on a port; and
a handler with a dozen ways to fail while it has a directory and a process.

What makes each part correct:

- periods: one owner a day; no tear in a chain; an apartment never without an
  owner record; a building never wholly owned and a WEG; deletes that uncover
  nobody; nothing left of what was deleted;
- tenancies: one tenant a day; the combined change of a closing create accepted
  exactly when it keeps the rules;
- people: every reference names somebody; one row an address; whoever loses the
  last reference goes, and nobody else;
- handlers: what they write is a transaction of the tables' modules, whatever they
  had read; they ask before they take coverage away, and turn down only what the
  database would reject;
- scheduler: a week belongs to whoever has most of it; each apartment in turn;
  nothing but coverage and offset moves a duty; tenants serve whole weeks;
- backup: objects hold the canary of their own slot; aliases name objects that
  exist; nothing is overwritten before its cycle is over; the newest object is
  fresh;
- rate limiter: never more than twice the limit in a window's time, and nobody
  refused who was below it;
- HTTP application: a language once chosen is the one of every answer; no redirect
  ends in an error, except a language switch that leads back to a page which answers a form;
- startup and PDF: a restart keeps the port, the file says which; every answer has
  tried to remove its directory, so that one stays behind for a known reason only; and
  whatever does not end waits for typst or for a client;
- calendars: the present week is marked, columns are consecutive, every week is one
  event, and every night that should be retained is.

## Modules

```
PeriodChain ─┬─ Ownership ──── Kehrwoche ─┬─ MCKehrwoche
             │                            └─ ScheduleRead ─┬─ MCScheduleRead
             │                                             └─ KehrwocheTheorems
             ├─ Tenancy ────── ApartmentWeek ── TenancyTheorems
             ├─ Schedule, which Kehrwoche and ApartmentWeek read their tables through
             ├─ PeriodHandlers    implements Ownership   PeriodHandlersTheorems
             ├─ TenancyHandlers   implements Tenancy     TenancyHandlersTheorems
             └─ PeriodChainTheorems, lemmas for the four modules of theorems above
People ── PeopleTheorems          Backup ── BackupVerify ─┬─ BackupTheorems
RateLimiter ── Web ─┐                                     └─ MCBackup
Instance ───────────┼─ ApplicationTheorems
Calendar ───────────┘
```

### PeriodChain: days, periods and the rules of a chain

Days are `1..LastDay`; a period is a start and an end, `Open = LastDay + 1`
standing for `NULL`, which the triggers read as `9999-12-31`. A chain is a set of
periods. `Fits`, `UpdateFits`, `ClosingPreviousFits` are the conjunctions of what
the `*_date_order_*`, `*_chain_overlap_*`, `*_chain_gap_prev_*` and
`*_chain_gap_next_*` triggers test for an INSERT, an UPDATE of one row, and the
UPDATE followed by the INSERT of a closing create; both tables have the same
triggers. Two rows of a chain can never be the same period (they would overlap),
so a set loses nothing; `PeriodHandlers`, which has ids, shows it.

### Ownership: buildings, apartments and their owners

One action is one committed transaction, with the triggers that may reject it as
its guard. `home`, `ownerships` and `buildingOwners` are the tables; `today` is
the database's local date and moves with `Midnight`. The arguments are arbitrary,
which is what a handler that has read stale data can pass. A delete cascades.

### People: persons and references

`email` is the table `people`, ids being the indexes. `resolve_person` is
`Resolved`: an address that is known keeps its row, another one gets a row that
does not exist. The cleanup triggers, which fire after each deleted row, are
`Cleaned`: of those who lost a reference, the ones without any left. Names and
display names are left out; no rule reads them. Which periods and tenancies are
accepted is left to the modules above: here all are.

### Tenancy

As Ownership, for tenancies: the only chain rule is that they do not overlap.

### PeriodHandlers and TenancyHandlers: the handlers, await by await

One request of any of the handlers is followed through its awaits: what it reads
(`FindPrevious`, `CheckGap`, `LoadRow`, `Warn`), the question it may ask
(`askClose`, `askEnd`) and the answer that comes back in a new request, and its
write. In between, `Others` commits any transaction of any other session and
`Midnight` passes. Rows have ids, as handlers address them. `WritesAreTransactions`
is the refinement: under the mapping that forgets the ids, every step is one of
Ownership (Tenancy) or changes none of its tables.

### Schedule, ApartmentWeek, Kehrwoche: the assignment of weeks

`Schedule` holds the rules as operators on the data `schedule_for_year` reads:
`overlap_days`, `majority_owner`, `covers_week`, `global_week_index` and the
assignment. The length of a week, the epoch and the first weeks of the ISO years
are constants. `ApartmentWeek` composes Tenancy, all of it, with the ownerships of one
apartment: who serves in its weeks, while both change by their writes. `Kehrwoche` is which apartment
has a week: it composes Ownership with the order of the apartments and the offset,
and reads them through `Schedule`; `RotationOrder` (by creation) and `DisplayOrder`
(by position) are different orders, as in the code. An order is a relation here: `older`
holds the pairs of apartments of which the first was created before the second, and the
index of an apartment in a sorted list is the number of those before it. Tenancies do not enter the
choice of the apartment, so the two questions are checked apart.

The offsets that the danger zone offers are `rotation_seed_options`.

### ScheduleRead

One request for a page, a feed or a PDF: `schedule_for_year` for one to three years,
one action per query, with `Write` - any of Kehrwoche's - in between. `seen` is no
part of the program: it has the duties of the year being read in every state since
its first query. `WeeksAreOfOneState` bounds how torn a schedule can be: one write
during the reading of a year never gives a week to an apartment that had it neither
before nor after. It does not hold of whole years (an apartment created with an
owner that reaches back is seen by one query and not by another, so that the year is
that of no state), nor of a week with two writes; `MaxWrites = 1` is therefore part of
the statement. It is about the apartment whose duty it is; the name printed beside it
is read with the ownerships and may be of the row before.

### Backup and BackupVerify

`run_forever` and `run_once_inner` with one action per await. `Fail` is an error
or `RUN_TIMEOUT` at an await, and what was asked of the database or the store may
have been done nevertheless; `Crash` ends the process at any point and `Start`
starts another. Time is scaled down: ticks per hour, hours per day, and so on are
constants. The clock does not go backwards. The variable `healthy` is no part of the
program: it remembers whether anything has failed.

`kehrkraft verify` is a process of its own that reads the alias of the hourly backups
and then the object, at any time and possibly on another host. Until the first hourly
backup exists it fails, and so would it in the first hour of a healthy installation;
`ReadAlias` waits for the alias.

### RateLimiter and Web

One action is one request: the map's mutex makes its check one step, but the
clock is read twice (`now` and `elapsed()`), and it may move in between.
Requests without a client address pass uncounted and change nothing. Entries are
never removed.

`Web` is a browser at the application while other clients use the public routes. The
routes differ only in their methods and in who may enter: `page`, `both` and
`change` stand for the routes of the admin area that show a page, that also take its
form, and that only take a form. Each answer has a status, a language
(`negotiate`: cookie, then `Accept-Language`, then German) and the banner of the demo
mode. The layers stand around the methods of a route: without credentials every request
is `401`, the ones that a route does not take among them. An address that is gone or a
query that fails is `404` or `500`, with a text, and so without the links of `base.html`.
One address that takes a form sends a GET on to a page (`apartments_index_redirect`).

A form is answered by a redirect, or at its own address: refused (`400`), or
with a question or a warning (`200`). Ownerships, tenancies and building owners ask before
they close a previous period or end the present one (for ownerships
`render_apartment_show_confirmation` and `render_ownership_edit_warning`), and
the addresses of these forms take only a POST (`src/app.rs:461-512`). The language switch sets the
cookie and redirects to the path of the `Referer` (`language_redirect_target`): on each of these
pages, whether anything was refused or not, it ends in `405 Method Not Allowed`, which is the
exception in `RedirectsArrive`. The property says that there is no other. The forms are sent
by htmx or, without scripts, by the browser itself; the model shows every answer, while htmx
keeps the page when the answer to a delete is an error.

### Instance

`main` from the start to the end of a process, for instances that follow one another
as under `cargo watch`: the given port, or the saved one with its attempts and the
pauses between them, or one picked by the system and then saved; the signal, which the
accept loop sees within one of its 200 ms; the graceful shutdown. The latter waits
without a limit for every connection that is not idle: for the requests of this module, and for
whatever else a client keeps busy (`open`), be it a request it does not finish sending or an answer
it does not finish receiving. `typst --version`, which `main` awaits before it opens the database,
has no timeout either (`typst_available`, `src/main.rs:29`): an instance is `probing` for
as long as that takes, which may be for ever.

`public_pdf` is one action per step that can fail, with its directory and
its typst process. A hang-up drops the handler wherever it is, the timeout drops the
wait for typst but not typst (nothing sets `kill_on_drop`), and a kill ends everything
but typst. The removal of the directory may fail at any time, with typst still writing to it
or without, and its error is ignored. A handler that is dropped removes nothing, and
nothing sweeps the directory for temporary files later: hang-ups and kills leave directories behind.
`LeftOverForAReason` lists these reasons and shows that no
other way through the handler forgets its directory. `save_dev_port` truncates before it writes
(`fs::write`), so a failure or a kill there leaves the old port, none or the new one.

### Calendar

Everything that depends on real dates, day by day: the ISO weeks of
`schedule_for_year`, the twelve rows of the page with the present week marked,
`balanced_columns` of the PDF, the events of the feed with their UIDs and what a
calendar application keeps of them, and the names of the nightly backups. The
page takes a calendar year of ISO weeks: on the last days of December that belong to
the next ISO year it marks no row, and on the first days of January that belong to
the previous one the feed lacks the present week, although `src/web/ical.rs:20-22`
says it "always covers the current ISO year"; neither lasts longer than three days,
and an application that has fetched the feed before has the week.

## Runs

| Run | Instance | What it shows |
|---|---|---|
| `ownership` | 1 building, 2 apartments, 4 days, 4 periods in all (`FewRows`) | the invariants and the step properties of the ownership tables |
| `people` | 3 ids, 3 addresses, 2 periods, 2 tenancies, 1 building | addresses, and who is cleaned up |
| `handlers` | 2 rows a table and 3 in both (`FewRows`), 3 days | the handlers' own checks against the triggers |
| `tenancy_handlers` | 3 rows, 3 days | one tenant a day, TenancyHandlers implements Tenancy, and when it lengthens a tenancy |
| `week` | up to 3 owners and 2 tenancies, 2 weeks of 3 days | whose a week is, and who serves |
| `kehrwoche` | 2 apartments, 2 one-day weeks, a year beginning in the second | round-robin across years, what moves a duty, which offsets are offered |
| `schedule_read` | the same with one offset, one write a year | what a schedule read in pieces may show |
| `backup` | 20 ticks: 3 days of 3 hours of 2 ticks | the backup with failures and crashes, its freshness without, and `verify` beside it |
| `skip_stored` | the same | violated: a slot is skipped that was never stored |
| `web` | 2 clients, limit 1, window of 2 ticks | the limiter at and around its limit; languages, and where redirects end |
| `calendar` | every day of 2024-2052 | rows, columns, events and names in every kind of year |
| `instance` | 2 processes, 2 ports, 1 request, 3 attempts, timeout of 2 ticks | who gets which port, why a directory is left behind, and that what does not wait for typst or a client ends |

Why the bounds are enough for the cases that matter. The chain triggers look at
the nearest neighbours of one row: a row with a neighbour on each side, moved past
them, is three periods, and four days hold three periods and an open end. Two
apartments in one building are needed for the mutual exclusion and the dependence
on the building owner. A request reads at most one row besides the one it
writes, and one more is what another session needs; three days are what a gap
between two periods takes, which `handlers` needs.
A week of three days has a majority that is not the whole, days on which a handover
gives it to either side, and room for three owners of a day each; that the length is
odd, as seven is, means that two owners cannot tie. With weeks of one day every change of an owner is a change of coverage, which is what makes the
rotation longer or shorter, and two apartments are what a rotation needs to have
an order; partial weeks are `week`'s subject. The scaled
calendar of the backup keeps the order of its quantities (a run is shorter than
the interval, which is an hour; more than two hours in a day; a night hour that
is neither the first nor the last; a week whose last day is Sunday; a year whose
last Sunday differs from others) and the bound of the clock spans three days and
more than a week. The slot of a year is reached on the last
tick only; its names are `calendar`'s subject. The limiter's window of two ticks lets a
request fall on its first tick, inside it, and on its edge; a limit of one is the
smallest at which a window is full, and ages, not times, are kept, so that time is
unbounded. A year begins on any of seven days and is a leap year or not, with 52 or 53
weeks: all of these occur in the 28 years of `calendar`, after which the calendar
repeats up to 2100. Two instances are one and its
successor, and a second port is what is picked when the saved one is taken. A typst that
hangs outlasts all attempts of the successor, in the model (two ticks, which is as long
as the pauses) as in the code (20 s against 800 ms). Three attempts instead of five are one before, one during and one
after the shutdown of the predecessor.

`MaxPeriods`, `MaxPosition`, `MaxTenancies`, `LastDay`, `LastTick`, `LastYear`, `MaxWrites`
and `MaxCount` bound what is unbounded in the code; each appears as a guard. `MaxRows`
bounds the rows of `ownership` and `handlers` as a state constraint (`FewRows`), which
leaves out chains that are long on both sides at once; those are in the theorems
about `Ownership`.
`MaxCount` stands for the width of the limiter's counter, which no client reaches
in a minute. Symmetry is used for apartments, rows, ids and addresses, which the
code never compares; apartments are compared by id only to break ties of
`created_at`, and `CreationOrder` takes any outcome of it.

Deadlock is checked except in `calendar`, where the bound of the clock is the end
of the behaviour.

Fairness is assumed in `Instance` only. Its program steps - startup, shutdown and
handler - are weakly fair: tokio polls what is ready, and a disabled step waits for
something else. `Tick` is strongly fair: a timer that has been armed fires
although the processes that wait are ended and started again meanwhile, which disables
it now and then. Nothing else is promised: no typst ends, not even `typst --version`, no
client sends, leaves or finishes what it has begun, no other program frees a port, nobody
sends a signal. `EverythingSettles` therefore rests on the timeout of typst and on the
bounded number of attempts alone, and it promises no more than they give: a start is
bounded once typst has told its version, a shutdown unless a client keeps a connection busy. Without the
timeout (its mutant) a request and the shutdown that waits for it never end.
The freshness of the backups, which is liveness too, is stated as a bound
(`FreshWhileHealthy`), which the clock of the model makes safety.

## Where the code does less than its documentation says

One statement has a run that shows how it fails: the check for the canary exists "so
the existing backup is not overwritten". The
canary is committed before the object is stored: when the upload fails, a restart
within the hour skips a slot that was never stored (`skip_stored`).

The modules state others at their ends, each under the heading "A statement of the
repository that the code does not keep", beside the exact property that does hold
and is checked. TLC refutes each when it is named as an INVARIANT or PROPERTY of the
component's configuration.

| Statement | What happens | What holds instead |
|---|---|---|
| `SeamlessTimelines` (README.markdown:29, "tile its timeline seamlessly ... enforced") | an update may move a period past its neighbour, and nobody looks at the hole it leaves | `GapOnlyByJump` |
| `NeverMixed` (0010) | an owner whose period begins in the future does not stop ownerships; at midnight the building is both | `InsertsKeepStructure` |
| `CombinedChangeValidated` of Ownership (`queries.rs:914`) | a closing create in the middle of a chain is rejected although the result tiles: the UPDATE is checked alone | for tenancies it holds: `CombinedChangeValidated` of Tenancy |
| `SkipsOnlyWithinTheHour` (README.markdown:95) | a restart exactly a cycle later finds a canary with the same object name | `RetainedForACycle` |
| `EveryHourHasARun` (README.markdown:93) | the sleep starts when the run ends; now and then an hour is stepped over | `FreshWhileHealthy` |
| `NoOrphanPeople` (0013:25) | a row that is pointed at somebody else leaves the old person behind | `OrphanedOnlyByRepointing` |
| `ClosesWhatWasConfirmed` (`queries.rs:911`) | the confirmation closes what covers the start by then | `WritesAreTransactions` |
| `AsksFirst` (`admin.rs:1927`) | the question is decided on a row and a day read earlier | `AskedBeforeEndingToday` |
| `ClosingShortens` (`queries.rs:1484`) | a tenancy shortened meanwhile is lengthened again | `ExtendsOnlyIfEdited` |
| `EveryWeekIsResolved` (`scheduler/mod.rs:154`) | a week of three owners has none | `HandoversAreResolved` |
| `ChangesShiftNobodyElse` (`scheduler/mod.rs:180`) | covering one apartment more or less changes the length of the rotation, and with it the turn of the others | `OnlyCoverageMovesDuties` |

Four more are not stated as formulas, for the exact property has the exception in it:

- `rotation_seed_options` says that "anything beyond would only repeat an equivalent
  phase" (`admin.rs:904`). That is so as long as every apartment takes part in every
  week (`OffersEveryPhase`); with a shorter rotation offsets offered as different may
  coincide.
- `bind_http_listener` keeps the port across restarts unless another program has it
  (`GivesUpOnlyToOthers`), even when the file has been truncated; but an instance
  that was *not* told to end, as when a second one is started by hand in the same
  directory, counts as another program.
- The pages, the PDF and the feed speak of "the current year" and mean the calendar
  year in the time zone of the server (see Calendar).
- `language_redirect_target` is said to be "the page to return to after a language
  switch" (`src/app.rs:170`). An answer to a form whose address takes no GET is not returned to:
  the switch ends there in `405` (`RedirectsArrive`).


## Proofs

All theorems hold for every value of the constants under the named assumptions.
Each listed theorem is `Spec => []Inv`, `Spec => [][A]_vars` or a refinement, nearly all
of properties that a run checks.

- **Ownership** (`PeriodChainTheorems`, first part of `KehrwocheTheorems`). The inductive
  invariant is type correctness, no orphans, an owner record for every apartment,
  and `GoodChains`: every chain is ordered and disjoint. "One owner a day" is not
  inductive by itself, since a row out of order covers no day at all and yet stands
  in the way of its neighbours; from order and disjointness it follows. That order
  and disjointness are kept is a matter of single chains: the lemmas of
  `PeriodChainTheorems` say what an accepted insert, update, closing create and
  guarded delete do to a chain (`ChainStepKeeps`), and `StepOnChains` shows
  that every action changes each chain by one of these. The same lemmas give
  `GapOnlyByJump`: an accepted change tears a seamless chain only if the row jumped
  over another. `CoverageSurvivesDeletes` and `InsertsKeepStructure` follow from
  the guards together with the invariant.
- **Kehrwoche** (second part). Every step of Kehrwoche is one of Ownership or leaves its
  tables alone, so the invariant above carries over; `HouseIInv` adds the order of
  creation and `PositionsDiffer`, for which an accepted reordering must be a
  permutation: an injective list of as many apartments as the building has
  (`AcceptedList`), hence the assumption that there are finitely many
  (`HouseAssumption`). `RoundRobin` and `OffersEveryPhase` are arithmetic: the numbers of
  the rotation go through every remainder (`AllRemainders`), the apartments of a week are
  numbered from zero without a gap (`Numbering`), and the index of a week grows by one
  across the ends of years. `OnlyCoverageMovesDuties` compares the two states of a step:
  the order of creation between two apartments that both exist never changes
  (`OrderStays`).
- **ScheduleRead** (third part). `ReadIInv` says of a year whose reading has begun:
  either nothing has been written since the building was read, and every table read so
  far is as it is; or one write fell between the queries, and the duties that the
  reading would end with are, week by week, those of before the write or of after it
  (`Completed`, `OneWrite`). That a single write can do no worse is because it changes
  one of the tables only, or an apartment and what belongs to it (`OneTableChanges`,
  `TornRows`). The theorem is for `MaxWrites` at most 1, for it does not hold of two.
- **Tenancy and ApartmentWeek** (`TenancyTheorems`). The invariant has the same shape. In
  addition `CombinedChangeIsValidated`: what the two statements of a closing create accept
  one after the other is exactly what the combined change must satisfy. For
  ownerships, where the triggers also look for gaps, it is false (see the table above).
  Every step of ApartmentWeek is one of Tenancy or changes the ownerships only. What the
  four theorems about weeks rest on is that the days of a week that two disjoint periods
  cover are together no more than the week has (`ShareTheWeek`), so that at most one
  period has the majority. That a handover without a gap loses no week
  (`HandoversLoseNoWeek`) assumes an odd number of days, as seven is: two owners of a
  week of six could tie.
- **People** (`PeopleTheorems`). The invariant is the conjunction of the module's four
  invariants. `ReferencesExist` needs `EmailIsIdentity`: an address resolves to a row
  that exists or to one that nobody refers to. `Grown` says what resolving does,
  `CleanedKeeps` what the triggers leave; every action is one followed by the other.
  The two action properties need one invariant more, `AdminsHaveBuildings`: a new
  building takes no reference from an administrator that was left over.
- **Backup** (`BackupTheorems`). The invariant adds `Progress`, what the run in
  progress has achieved at each await: from the canary step on the canary is the
  run's, from the vacuum on the snapshot is, and before the alias is put the object
  is stored. Without it the two properties of the store are not inductive.
  Retention rests on `History`: the canary is at least as new as every object, so that a
  run which is not skipped is of a later hour than all of them, and on `NamesRecur`: two
  hours of one name are whole cycles apart (division with remainder, for every length of
  day, week and year). Freshness rests on `Steady`, which holds while nothing has
  failed: runs follow one another after one or two hours (`NeighboursDiffer`), so that
  the next one is neither skipped nor overwrites the last. These are theorems of
  Backup's `Spec`; `verify`, which only reads, adds no step to its variables. That it
  raises no false alarm (`NoFalseAlarmTheorem`) follows from the freshness of what the
  alias named when it was read (`HourlyRecent`), if the greatest age allowed holds
  two intervals and three runs. A limit of an interval and a run would not do, as
  of two runs that follow one another one may be in another slot than an hourly one.
- **The handlers** (`PeriodHandlersTheorems`, `TenancyHandlersTheorems`).
  `HandlersImplement` is the refinement, for every number of rows and days: under the
  mapping from ids to the set of their periods every step of a handler is a step of
  Ownership (Tenancy), whatever the request has read before. What makes it true, and is
  the invariant, is that the rows of a table never overlap: two ids never
  map to the same period, so that what is written to a row by its id
  is what the abstract action writes to the set. The lemmas are first about one table,
  then about one transaction on the rows; then every action of a request is one of
  these or changes no table. The same invariant gives `TurnedDownOnlyRightly` - the
  checks in Rust against the triggers in SQL - and the two action properties, which
  say that what the user was not asked about is either harmless or has changed in between.
  For these the invariant also remembers what a request has in hand: `blind` and
  `seen` say what was read and whether it still is so.
- **Instance** (first part of `ApplicationTheorems`). The invariant says who may listen:
  at most one instance starts or serves, a port is held by an instance that serves on it
  (or was just told to end), and one that tries its saved port again has let a tick pass,
  in which no instance can have been in the state of having been told (`Waited`). From
  `Waited` follows `PortIsKept` with two attempts already; the code has five. For
  `LeftoversHaveReasons` it says that a request has no directory before the step that makes it
  (`RequestKnown`).
- **RateLimiter and Web** (second part). `WindowInv` relates a client's entry to its
  history: since the window began no more was passed on than it has granted, and no less
  together with the tick in which it began; and in the time of a window before now at
  most that and one limit more. What is older than
  the window of the entry is as old as a whole window when the entry is reset, which is
  why two windows never add up to more; that a request may be counted a tick after it
  was timed (the second read of the clock) is part of the step. The number of requests
  is the size of a set of pairs, about which the library of finite sets has theorems.
  For the browser the invariant adds where a redirect can lead (`RedirectKnown`,
  `OnlyAnswers`): to an address without GET only from the answer to a form that is
  still shown there.
- **Calendar** (third part). No induction over the calendar: the length of a year and the
  distance of two New Years follow from what the divisions by 4, 100 and 400 do from one
  number to the next (`YearLength`, `YearsGrow`), an ISO year from New Year by at most
  three days and from Monday to Monday in whole weeks, so that it has 364 or 371 days
  (`IsoYears`). Every day is in one ISO year (`OneIsoYear`) and every week of it one row
  (`Weeks`). `PageMarks`, `Columns` and `OneEventAWeek` need nothing else of the state
  than `ClockInv`, that the day is of the year. `NightsStay` needs `NightsInv`: every night so far
  has its name in the store, which keeps the last night of that name; and `NamesRecur`:
  nights of one name are a week apart, Sundays of one week number 52 weeks or more, and
  the last Sunday of a year is never overwritten. The years begin with 2, as
  the week before New Year must have a year.

The assumptions are the named ones of the modules: at least one day in the calendar and
one in a week, at least two attempts, a limit and a window that are not zero, a clock
bounded by a number, finitely many apartments, the values that stand for nothing
different from all others. Three theorems have one more, mentioned above and in their
statements: `HandoversLoseNoWeek`, `ReadsMakeUpNoDuty` and `NoFalseAlarmTheorem`. The
runs satisfy all of them.

Every invariant and every action property of a passing run is a theorem. Only
model-checked is `EverythingSettles`: liveness is out of the prover's reach. The refinement of
PeriodHandlers has no run of its
own: two rows a table and two days, where TLC has confirmed it (37,788 states), are fewer
than the theorem covers; to repeat it, name `WritesAreTransactions` as a PROPERTY of
`MCPeriodHandlers.cfg` with `LastDay = 2`.

## Not modelled

- The date format, the length and the syntax of names and addresses: rejected by
  triggers whatever the tables hold. A form with dates out of order is left out of
  the handlers' inputs for the same reason, and kept as an input of Ownership.
- The migrations as migrations. In particular apartments that existed before 0003
  all have position 0 and are displayed by name until they are reordered;
  `PositionsDiffer` is about buildings created since.
- Encryption, the text of PDF and feed, templates, translations, the security headers
  and the static assets: no state, or the same for every answer. (A body that is too
  large is refused by a layer outside of the one that sets the headers,
  `src/app.rs:536-539`: that answer has none.)
- Names, addresses and notes of buildings and apartments: nothing depends on them.
- What a create answers after its commit. It reads the new row again, and a concurrent
  delete makes that fail (`expect("ownership just inserted")`, `src/db/queries.rs:859`,
  and its siblings) although the write is committed; the tables are right and the
  answer is not.
- `has_building_owner`, which `apartments_create` reads before it writes: whatever it
  has read, the trigger decides, and `Ownership` takes every argument.
- The order of the statements inside one transaction: `create_apartment` and the cascades of a
  delete are one action each. What is checked is the tables after it. In the same way the
  cleanup triggers are what they leave of a whole statement, not row by row.
- An UPDATE that matches no row, as when `update_tenancy` comes after a delete: it commits
  the person it has resolved, whom nobody has ever referred to.
  `OrphanedOnlyByRepointing` is about persons who lose a reference.
- The memory of the rate limiter, which nothing in the code bounds.

## Possible next steps

1. Liveness of the backup task (after a failure there is eventually another object, if
   the store recovers), as a formula with fairness beside the bound that is checked.
2. Tenancies in `ScheduleRead`: who serves, not only which apartment.
