-------------------------------- MODULE Instance --------------------------------
(***************************************************************************)
(* A running kehrkraft: how an instance starts, finds its port, serves and *)
(* ends (src/main.rs, src/config.rs), and the one handler that works       *)
(* outside of the database, the PDF with its temporary directory and its   *)
(* typst process (src/web/pdf.rs).  Instances follow one another as under  *)
(* `cargo watch': the next one is started when the last one has been told  *)
(* to end, and may find it still shutting down.                            *)
(*                                                                         *)
(* Anything may fail, a client may hang up or keep its connection busy, an *)
(* instance may be killed and typst may hang, at any point and any number  *)
(* of times.  There is no clock: a Tick is the pause between two attempts  *)
(* to bind, and what waits longer counts ticks.                            *)
(***************************************************************************)
EXTENDS Integers

CONSTANTS Process,      \* the instances
          Port,
          Request,      \* requests for a PDF, each with a directory of its own
          None,
          Other,        \* another program, as the holder of a port
          Attempts,     \* how often the saved port is tried, 5
          CompileTicks  \* the timeout of typst, 20 s

ASSUME InstanceAssumption ==
  /\ Attempts \in Nat /\ Attempts > 1 /\ CompileTicks \in Nat \ {0}
  /\ None \notin Process \cup Port /\ Other \notin Process \cup {None}

VARIABLES pc,         \* where main is in each process
          port,       \* the port it wants or has
          source,     \* where it has that port from
          attempt,    \* the attempts to bind it that have failed so far
          holder,     \* who listens on each port
          portFile,   \* the saved port; None: no file, or nothing that parses
          at,         \* where public_pdf is for each request
          by,         \* the process that serves it
          ticks,      \* how long its typst has been running
          child,      \* its typst process
          dirs,       \* the requests whose tmp_dir exists
          open        \* the processes that a client keeps busy: it has not sent its
                      \* request, or not received its answer, completely

mainVars == <<pc, port, source, attempt, holder, portFile>>
pdfVars == <<at, by, ticks, child, dirs, open>>
vars == <<mainVars, pdfVars>>

Starting == {"probing", "starting", "fixed", "binding", "pause", "picking", "saving"}
Handling == {"lookup", "mkdir", "write", "compile", "read", "remove"}

TypeOK ==
  /\ pc \in [Process -> Starting \cup {"down", "serving", "told", "closing"}]
  /\ port \in [Process -> Port \cup {None}]
  /\ source \in [Process -> {None, "fixed", "saved", "picked", "unsaved"}]
  /\ attempt \in [Process -> 0..Attempts - 1]
  /\ holder \in [Port -> Process \cup {None, Other}]
  /\ portFile \in Port \cup {None}
  /\ at \in [Request -> Handling \cup {"idle", "dropped"}]
  /\ by \in [Request -> Process \cup {None}]
  /\ ticks \in [Request -> 0..CompileTicks]
  /\ child \in [Request -> {"none", "running", "ok", "failed"}]
  /\ dirs \subseteq Request
  /\ open \subseteq Process

Init ==
  /\ pc = [p \in Process |-> "down"]
  /\ port = [p \in Process |-> None]
  /\ source = [p \in Process |-> None]
  /\ attempt = [p \in Process |-> 0]
  /\ holder = [q \in Port |-> None]
  /\ portFile = None
  /\ at = [r \in Request |-> "idle"]
  /\ by = [r \in Request |-> None]
  /\ ticks = [r \in Request |-> 0]
  /\ child = [r \in Request |-> "none"]
  /\ dirs = {}
  /\ open = {}

-----------------------------------------------------------------------------
(* main *)

Goto(p, there) == pc' = [pc EXCEPT ![p] = there]

Wants(p, q, from) ==
  /\ port' = [port EXCEPT ![p] = q]
  /\ source' = [source EXCEPT ![p] = from]

Start(p) ==
  /\ pc[p] = "down"
  /\ \A q \in Process \ {p} : pc[q] \in {"down", "told", "closing"}
  /\ Goto(p, "probing")
  /\ UNCHANGED <<port, source, attempt, holder, portFile, pdfVars>>

\* typst_available: main waits for `typst --version' as long as that takes.
Probed(p) ==
  /\ pc[p] = "probing"
  /\ Goto(p, "starting")
  /\ UNCHANGED <<port, source, attempt, holder, portFile, pdfVars>>

\* The end of a process: what it listened on is free, and nothing is remembered.
Ended(p) ==
  /\ pc' = [pc EXCEPT ![p] = "down"]
  /\ Wants(p, None, None)
  /\ attempt' = [attempt EXCEPT ![p] = 0]
  /\ holder' = [q \in Port |-> IF holder[q] = p THEN None ELSE holder[q]]

\* The pool, the migrations, the backup task and the credentials; each of them may
\* end main with an error.  Then bind_http_listener asks for KEHRKRAFT_PORT and
\* for the saved port.
Prepare(p) ==
  /\ pc[p] = "starting"
  /\ \/ Ended(p)
     \/ /\ \E q \in Port : Wants(p, q, "fixed")
        /\ Goto(p, "fixed")
        /\ UNCHANGED <<attempt, holder>>
     \/ /\ portFile # None
        /\ Wants(p, portFile, "saved")
        /\ Goto(p, "binding")
        /\ UNCHANGED <<attempt, holder>>
     \/ /\ portFile = None
        /\ Goto(p, "picking")
        /\ UNCHANGED <<port, source, attempt, holder>>
  /\ UNCHANGED <<portFile, pdfVars>>

Listens(p, q) == holder[q] = None /\ holder' = [holder EXCEPT ![q] = p]

\* A port given by KEHRKRAFT_PORT is tried once.
BindFixed(p) ==
  /\ pc[p] = "fixed"
  /\ \/ Listens(p, port[p]) /\ Goto(p, "serving") /\ UNCHANGED <<port, source, attempt>>
     \/ holder[port[p]] # None /\ Ended(p)
  /\ UNCHANGED <<portFile, pdfVars>>

\* Mutant: the next attempt follows at once.
BindSavedHastily(p) ==
  /\ pc[p] = "binding"
  /\ \/ Listens(p, port[p]) /\ attempt' = [attempt EXCEPT ![p] = 0] /\ Goto(p, "serving")
     \/ /\ holder[port[p]] # None
        /\ attempt' = [attempt EXCEPT ![p] = (@ + 1) % Attempts]
        /\ IF attempt'[p] # 0 THEN UNCHANGED pc ELSE Goto(p, "picking")
        /\ UNCHANGED holder
  /\ UNCHANGED <<port, source, portFile, pdfVars>>

BindSaved(p) ==
  /\ pc[p] = "binding"
  /\ \/ Listens(p, port[p]) /\ attempt' = [attempt EXCEPT ![p] = 0] /\ Goto(p, "serving")
     \/ /\ holder[port[p]] # None
        /\ attempt' = [attempt EXCEPT ![p] = (@ + 1) % Attempts]
        /\ Goto(p, IF attempt'[p] # 0 THEN "pause" ELSE "picking")
        /\ UNCHANGED holder
  /\ UNCHANGED <<port, source, portFile, pdfVars>>

\* Port 0: the operating system picks a free one, if there is any.
PickPort(p) ==
  /\ pc[p] = "picking"
  /\ \/ \E q \in Port : Listens(p, q) /\ Wants(p, q, "picked") /\ Goto(p, "saving")
                        /\ UNCHANGED attempt
     \/ (\A q \in Port : holder[q] # None) /\ Ended(p)
  /\ UNCHANGED <<portFile, pdfVars>>

\* fs::write truncates the file before it writes.
FailedWrite == portFile' \in {portFile, None}

\* Mutant: a file that exists is not written again.
SavePortOnce(p) ==
  /\ pc[p] = "saving"
  /\ portFile' = IF portFile = None THEN port[p] ELSE portFile
  /\ Goto(p, "serving")
  /\ UNCHANGED <<port, source, attempt, holder, pdfVars>>

\* save_dev_port: an error is a warning.
SavePort(p) ==
  /\ pc[p] = "saving"
  /\ \/ portFile' = port[p] /\ UNCHANGED source
     \/ FailedWrite /\ source' = [source EXCEPT ![p] = "unsaved"]
  /\ Goto(p, "serving")
  /\ UNCHANGED <<port, attempt, holder, pdfVars>>

\* SIGTERM or ctrl-c.  Before axum::serve nothing handles them: see Kill.
Terminate(p) ==
  /\ pc[p] = "serving"
  /\ Goto(p, "told")
  /\ UNCHANGED <<port, source, attempt, holder, portFile, pdfVars>>

\* Graceful shutdown: axum drops the listener and waits for every connection that
\* is not idle, without a limit.
StopListening(p) ==
  /\ pc[p] = "told"
  /\ holder' = [q \in Port |-> IF holder[q] = p THEN None ELSE holder[q]]
  /\ Wants(p, None, None)
  /\ Goto(p, "closing")
  /\ UNCHANGED <<attempt, portFile, pdfVars>>

InProgress(p) == {r \in Request : at[r] \in Handling /\ by[r] = p}

Exit(p) ==
  /\ pc[p] = "closing"
  /\ InProgress(p) = {} /\ p \notin open
  /\ Ended(p)
  /\ UNCHANGED <<portFile, pdfVars>>

-----------------------------------------------------------------------------
(* public_pdf *)

MainUnlike == UNCHANGED mainVars

Continue(r, there) == at' = [at EXCEPT ![r] = there] /\ UNCHANGED <<by, ticks, open>>

\* The response, whatever its status, which the client may be slow to receive.
Answer(r) ==
  /\ at' = [at EXCEPT ![r] = "idle"]
  /\ by' = [by EXCEPT ![r] = None]
  /\ ticks' = [ticks EXCEPT ![r] = 0]
  /\ open' \in {open, open \cup {by[r]}}

\* The name of a directory is never used twice.
Accept(r, p) ==
  /\ pc[p] \in {"serving", "told"}
  /\ at[r] \notin Handling /\ r \notin dirs /\ child[r] = "none"
  /\ at' = [at EXCEPT ![r] = "lookup"]
  /\ by' = [by EXCEPT ![r] = p]
  /\ UNCHANGED <<ticks, child, dirs, open>> /\ MainUnlike

\* The building of the slug and its schedules of three years.
Lookup(r) ==
  /\ at[r] = "lookup"
  /\ \/ Answer(r)
     \/ Continue(r, "mkdir")
  /\ UNCHANGED <<child, dirs>> /\ MainUnlike

MakeDir(r) ==
  /\ at[r] = "mkdir"
  /\ \/ Answer(r) /\ UNCHANGED dirs
     \/ dirs' = dirs \cup {r} /\ Continue(r, "write")
  /\ UNCHANGED child /\ MainUnlike

\* Mutant: a typst that cannot be executed is answered at once.
WriteFilesForgets(r) ==
  /\ at[r] = "write"
  /\ \/ Continue(r, "remove") /\ UNCHANGED child
     \/ Answer(r) /\ UNCHANGED child
     \/ Continue(r, "compile") /\ child' = [child EXCEPT ![r] = "running"]
  /\ UNCHANGED dirs /\ MainUnlike

\* The template, the logo, the fonts, the QR codes and the wrapper; then typst is
\* executed.  A file that cannot be written and a typst that cannot be executed
\* end alike.
WriteFiles(r) ==
  /\ at[r] = "write"
  /\ \/ Continue(r, "remove") /\ UNCHANGED child
     \/ Continue(r, "compile") /\ child' = [child EXCEPT ![r] = "running"]
  /\ UNCHANGED dirs /\ MainUnlike

\* A failed compilation keeps its files "for inspection".
Compiled(r) ==
  /\ at[r] = "compile"
  /\ child[r] \in {"ok", "failed"}
  /\ child' = [child EXCEPT ![r] = "none"]
  /\ IF child[r] = "ok" THEN Continue(r, "read")
                        ELSE Answer(r)
  /\ UNCHANGED dirs /\ MainUnlike

\* Mutant: no timeout.
NeverTimeOut(r) == FALSE

\* The timeout drops the future of the output; the process goes on.
TimeOut(r) ==
  /\ at[r] = "compile" /\ child[r] = "running"
  /\ ticks[r] = CompileTicks
  /\ Continue(r, "remove")
  /\ UNCHANGED <<child, dirs>> /\ MainUnlike

ReadPdf(r) ==
  /\ at[r] = "read"
  /\ Continue(r, "remove")
  /\ UNCHANGED <<child, dirs>> /\ MainUnlike

\* remove_dir_all: whatever its error is, it is ignored.
RemoveDir(r) ==
  /\ at[r] = "remove"
  /\ dirs' \in {dirs, dirs \ {r}}
  /\ Answer(r)
  /\ UNCHANGED child /\ MainUnlike

\* The requests rs are dropped where they are.  A file operation that has begun
\* is carried out all the same.
Dropped(rs) ==
  /\ at' = [r \in Request |-> IF r \in rs THEN "dropped" ELSE at[r]]
  /\ by' = [r \in Request |-> IF r \in rs THEN None ELSE by[r]]
  /\ ticks' = [r \in Request |-> IF r \in rs THEN 0 ELSE ticks[r]]
  /\ \E made \in SUBSET {r \in rs : at[r] = "mkdir"},
        removed \in SUBSET {r \in rs : at[r] = "remove"} :
       dirs' = (dirs \cup made) \ removed
  /\ UNCHANGED child

HangUp(r) == at[r] \in Handling /\ Dropped({r}) /\ UNCHANGED open /\ MainUnlike

-----------------------------------------------------------------------------
(* Clients and the operating system *)

\* A client keeps a connection busy, with any request, for as long as it likes.
Connect(p) ==
  /\ pc[p] \in {"serving", "told"} /\ p \notin open
  /\ open' = open \cup {p}
  /\ UNCHANGED <<at, by, ticks, child, dirs>> /\ MainUnlike

Disconnect(p) ==
  /\ p \in open
  /\ open' = open \ {p}
  /\ UNCHANGED <<at, by, ticks, child, dirs>> /\ MainUnlike

\* A crash, SIGKILL, or SIGTERM before it is handled.  A typst process survives.
Kill(p) ==
  /\ pc[p] # "down"
  /\ IF pc[p] = "saving" THEN portFile' \in {portFile, None, port[p]} ELSE UNCHANGED portFile
  /\ Ended(p)
  /\ Dropped(InProgress(p))
  /\ open' = open \ {p}

\* A typst process ends; nobody but its request waits for it.
TypstExits(r) ==
  /\ child[r] = "running"
  /\ \E result \in IF at[r] = "compile" THEN {"ok", "failed"} ELSE {"none"} :
       child' = [child EXCEPT ![r] = result]
  /\ UNCHANGED <<at, by, ticks, dirs, open>> /\ MainUnlike

OtherProgram(q) ==
  /\ \/ holder[q] = None /\ holder' = [holder EXCEPT ![q] = Other]
     \/ holder[q] = Other /\ holder' = [holder EXCEPT ![q] = None]
  /\ UNCHANGED <<pc, port, source, attempt, portFile, pdfVars>>

\* A pause is over and typst has run longer.  A signal is handled sooner, and a
\* timer fires when it is due.
Tick ==
  /\ \A p \in Process : pc[p] # "told"
  /\ \A r \in Request : at[r] = "compile" => ticks[r] < CompileTicks
  /\ (\E p \in Process : pc[p] = "pause") \/ (\E r \in Request : at[r] = "compile")
  /\ pc' = [p \in Process |-> IF pc[p] = "pause" THEN "binding" ELSE pc[p]]
  /\ ticks' = [r \in Request |-> IF at[r] = "compile" THEN ticks[r] + 1 ELSE ticks[r]]
  /\ UNCHANGED <<port, source, attempt, holder, portFile, at, by, child, dirs, open>>

-----------------------------------------------------------------------------
StartupStep(p) == Prepare(p) \/ BindFixed(p) \/ BindSaved(p) \/ PickPort(p) \/ SavePort(p)

ShutdownStep(p) == StopListening(p) \/ Exit(p)

HandlerStep(r) ==
  \/ Lookup(r) \/ MakeDir(r) \/ WriteFiles(r) \/ Compiled(r)
  \/ TimeOut(r) \/ ReadPdf(r) \/ RemoveDir(r)

Next ==
  \/ \E p \in Process :
       \/ Start(p) \/ Probed(p) \/ StartupStep(p) \/ Terminate(p) \/ ShutdownStep(p) \/ Kill(p)
       \/ Connect(p) \/ Disconnect(p)
       \/ \E r \in Request : Accept(r, p)
  \/ \E r \in Request : HandlerStep(r) \/ HangUp(r) \/ TypstExits(r)
  \/ \E q \in Port : OtherProgram(q)
  \/ Tick

\* The program goes on wherever it is not waiting, and time passes, however many
\* instances are started and told to end meanwhile.  Nothing else is promised:
\* no typst ends, not even `typst --version', no client comes or leaves or finishes
\* what it has begun, nobody frees a port.
Fairness ==
  /\ \A p \in Process : WF_vars(StartupStep(p)) /\ WF_vars(ShutdownStep(p))
  /\ \A r \in Request : WF_vars(HandlerStep(r))
  /\ SF_vars(Tick)

Spec == Init /\ [][Next]_vars /\ Fairness

-----------------------------------------------------------------------------
(* Properties *)

\* bind_http_listener: a restart keeps the port.  An instance gives the saved port
\* up for another one only if another program has it; its own predecessor, told
\* to end before it was started, has let go of it within the attempts, even if it
\* has to wait for a PDF.
GivesUpOnlyToOthers ==
  [][\A p \in Process :
       pc[p] = "binding" /\ pc'[p] = "picking" => holder[port[p]] = Other]_vars

\* save_dev_port: the file leads the next instance to the port of the present one,
\* whichever instances have picked, lost and saved ports before; unless the port
\* is a given one or writing the file has failed.
SavedPortIsCurrent ==
  \A p \in Process :
    pc[p] = "serving" /\ source[p] \in {"saved", "picked"} => portFile = port[p]

\* public_pdf: a request that is answered has tried to remove its directory,
\* whichever of its steps has failed, unless it keeps a failed compilation for
\* inspection.  So a directory stays behind for one of three reasons: that one, an
\* error of the removal, or that the client has hung up or the instance was killed
\* before it was removed.
LeftOverForAReason ==
  [][\A r \in Request :
       at[r] \in Handling /\ at'[r] \notin Handling /\ r \in dirs' =>
         \/ at[r] = "compile" /\ child[r] = "failed"
         \/ at[r] = "remove"
         \/ at'[r] = "dropped" /\ at[r] # "lookup"]_vars

\* Whatever does not end waits for typst or for a client.  Every request for a PDF
\* comes to an end, although typst may hang and the instance may be told to end
\* meanwhile; an instance that has asked typst for its version serves before long
\* or has ended with an error; and one that is told to end does, whatever its PDF
\* requests wait for, unless a client keeps a connection busy.
EverythingSettles ==
  /\ \A r \in Request : at[r] \in Handling ~> at[r] \notin Handling
  /\ \A p \in Process :
       /\ pc[p] \in Starting \ {"probing"} ~> pc[p] \in {"serving", "down"}
       /\ pc[p] \in {"told", "closing"} ~> pc[p] = "down" \/ (pc[p] = "closing" /\ p \in open)
=============================================================================
