---------------------------- MODULE ApplicationTheorems ----------------------------
(***************************************************************************)
(* What holds of the running application: of its startup and its PDF       *)
(* handler (Instance), of its HTTP layers (RateLimiter, Web) and of what   *)
(* it makes of the calendar (Calendar), for every number of instances,     *)
(* ports, requests, attempts and ticks, for every limit and every length   *)
(* of the window, and in every year.  The three parts do not use each      *)
(* other.                                                                  *)
(*                                                                         *)
(* Instance: the inductive invariant says who may listen.  Only one        *)
(* instance at a time starts or serves, a port is held by an instance that *)
(* serves on it, and an instance that tries its saved port again has       *)
(* waited for its predecessor to let go.                                   *)
(*                                                                         *)
(* RateLimiter and Web: it relates a client's entry to what it was passed  *)
(* on since its window began and before; and what the browser shows to     *)
(* where its redirect leads.                                               *)
(*                                                                         *)
(* Calendar: lengths of years and of ISO years by division, and one row    *)
(* for every week follow from them; the invariant of the backups says that *)
(* every night has its name in the store, under which the last night of    *)
(* that name is kept.                                                      *)
(***************************************************************************)
EXTENDS Instance, Web, Calendar, FiniteSetTheorems, SequenceTheorems, TLAPS

(* Instance *)

Up == Starting \cup {"serving"}

\* An instance is started when the last one has been told to end.
OneUp == \A p, q \in Process : pc[p] \in Up /\ pc[q] \in Up => p = q

HeldByServing ==
  \A q \in Port : holder[q] \in Process =>
    pc[holder[q]] \in {"saving", "serving", "told"} /\ port[holder[q]] = q

\* What an instance knows of its port.
PortKnown ==
  \A p \in Process :
    /\ pc[p] = "fixed" => source[p] = "fixed"
    /\ pc[p] \in {"binding", "pause"} => portFile = port[p] /\ port[p] # None
    /\ pc[p] = "saving" => source[p] = "picked" /\ port[p] # None

Waited ==
  \A p \in Process :
    /\ pc[p] \notin {"binding", "pause"} => attempt[p] = 0
    /\ pc[p] = "binding" /\ attempt[p] # 0 => \A q \in Process : pc[q] # "told"

\* A request has no directory before it makes one, and is some process's until the end.
RequestKnown ==
  \A r \in Request :
    /\ at[r] \in {"lookup", "mkdir"} => r \notin dirs
    /\ at[r] \in Handling => by[r] \in Process

MainInv == OneUp /\ HeldByServing /\ PortKnown /\ SavedPortIsCurrent /\ Waited

IInv == TypeOK /\ MainInv /\ RequestKnown

-----------------------------------------------------------------------------
(* The attempts to bind *)

LEMMA NextAttempt ==
  ASSUME NEW a \in 0..Attempts - 1
  PROVE  (a + 1) % Attempts = IF a + 1 = Attempts THEN 0 ELSE a + 1
  BY InstanceAssumption

-----------------------------------------------------------------------------
(* Types *)

LEMMA EndedType ==
  ASSUME TypeOK, NEW p \in Process, Ended(p)
  PROVE  /\ pc' \in [Process -> Starting \cup {"down", "serving", "told", "closing"}]
         /\ port' \in [Process -> Port \cup {None}]
         /\ source' \in [Process -> {None, "fixed", "saved", "picked", "unsaved"}]
         /\ attempt' \in [Process -> 0..Attempts - 1]
         /\ holder' \in [Port -> Process \cup {None, Other}]
  BY InstanceAssumption DEF TypeOK, Ended, Wants

LEMMA MainType ==
  ASSUME TypeOK, NEW p \in Process,
         \/ Start(p) \/ Probed(p) \/ StartupStep(p) \/ Terminate(p) \/ ShutdownStep(p)
  PROVE  TypeOK'
<1> USE InstanceAssumption DEF TypeOK, Goto, Wants, Listens, Starting, pdfVars
<1>1. CASE Start(p) \/ Probed(p)
  BY <1>1 DEF Start, Probed
<1>2. CASE Prepare(p)
  <2>1. CASE Ended(p)
    BY <1>2, <2>1, EndedType DEF Prepare
  <2>2. CASE ~ Ended(p)
    BY <1>2, <2>2 DEF Prepare
  <2>3. QED
    BY <2>1, <2>2
<1>3. CASE BindFixed(p)
  <2>1. CASE Ended(p)
    BY <1>3, <2>1, EndedType DEF BindFixed
  <2>2. CASE ~ Ended(p)
    BY <1>3, <2>2 DEF BindFixed
  <2>3. QED
    BY <2>1, <2>2
<1>4. CASE BindSaved(p)
  <2>1. CASE holder[port[p]] # None /\ attempt' = [attempt EXCEPT ![p] = (@ + 1) % Attempts]
    <3>1. (attempt[p] + 1) % Attempts \in 0..Attempts - 1
      BY NextAttempt
    <3>2. attempt' \in [Process -> 0..Attempts - 1]
      BY <2>1, <3>1
    <3>3. pc' \in [Process -> Starting \cup {"down", "serving", "told", "closing"}]
      BY <1>4 DEF BindSaved
    <3>4. QED
      BY <1>4, <2>1, <3>2, <3>3 DEF BindSaved
  <2>2. CASE Listens(p, port[p]) /\ attempt' = [attempt EXCEPT ![p] = 0]
    <3>1. attempt' \in [Process -> 0..Attempts - 1]
      BY <2>2
    <3>2. holder' \in [Port -> Process \cup {None, Other}]
      BY <2>2
    <3>3. pc' \in [Process -> Starting \cup {"down", "serving", "told", "closing"}]
      BY <1>4 DEF BindSaved
    <3>4. QED
      BY <1>4, <3>1, <3>2, <3>3 DEF BindSaved
  <2>3. QED
    BY <1>4, <2>1, <2>2 DEF BindSaved
<1>5. CASE PickPort(p)
  <2>1. CASE Ended(p)
    BY <1>5, <2>1, EndedType DEF PickPort
  <2>2. CASE ~ Ended(p)
    BY <1>5, <2>2 DEF PickPort
  <2>3. QED
    BY <2>1, <2>2
<1>6. CASE SavePort(p)
  BY <1>6 DEF SavePort, FailedWrite
<1>7. CASE Terminate(p)
  BY <1>7 DEF Terminate
<1>8. CASE StopListening(p)
  BY <1>8 DEF StopListening
<1>9. CASE Exit(p)
  BY <1>9, EndedType DEF Exit
<1>10. QED
  BY <1>1, <1>2, <1>3, <1>4, <1>5, <1>6, <1>7, <1>8, <1>9 DEF StartupStep, ShutdownStep

LEMMA RequestType ==
  ASSUME TypeOK, RequestKnown, NEW r \in Request,
         \/ HandlerStep(r) \/ TypstExits(r) \/ HangUp(r)
         \/ \E p \in Process : Accept(r, p)
  PROVE  TypeOK'
<1> USE InstanceAssumption DEF TypeOK, RequestKnown, Handling, MainUnlike, mainVars, Continue, Answer
<1>1. CASE \E p \in Process : Accept(r, p)
  BY <1>1 DEF Accept
<1>2. CASE Lookup(r)
  BY <1>2 DEF Lookup
<1>3. CASE MakeDir(r)
  BY <1>3 DEF MakeDir
<1>4. CASE WriteFiles(r)
  BY <1>4 DEF WriteFiles
<1>5. CASE Compiled(r)
  BY <1>5 DEF Compiled
<1>6. CASE TimeOut(r)
  BY <1>6 DEF TimeOut
<1>7. CASE ReadPdf(r)
  BY <1>7 DEF ReadPdf
<1>8. CASE RemoveDir(r)
  BY <1>8 DEF RemoveDir
<1>9. CASE TypstExits(r)
  BY <1>9 DEF TypstExits
<1>10. CASE HangUp(r)
  BY <1>10 DEF HangUp, Dropped
<1>11. QED
  BY <1>1, <1>2, <1>3, <1>4, <1>5, <1>6, <1>7, <1>8, <1>9, <1>10 DEF HandlerStep

LEMMA WorldType ==
  ASSUME TypeOK,
         \/ \E p \in Process : Kill(p) \/ Connect(p) \/ Disconnect(p)
         \/ \E q \in Port : OtherProgram(q)
         \/ Tick
         \/ UNCHANGED vars
  PROVE  TypeOK'
<1>1. ASSUME NEW p \in Process, Kill(p) PROVE TypeOK'
  <2>1. Ended(p) /\ Dropped(InProgress(p)) /\ portFile' \in Port \cup {None}
    BY <1>1 DEF Kill, TypeOK
  <2>2. /\ at' \in [Request -> Handling \cup {"idle", "dropped"}]
        /\ by' \in [Request -> Process \cup {None}]
        /\ ticks' \in [Request -> 0..CompileTicks]
        /\ child' \in [Request -> {"none", "running", "ok", "failed"}]
        /\ dirs' \subseteq Request
    BY <2>1, InstanceAssumption DEF Dropped, TypeOK, InProgress
  <2>3. open' \subseteq Process
    BY <1>1 DEF Kill, TypeOK
  <2>4. QED
    BY <2>1, <2>2, <2>3, EndedType DEF TypeOK
<1>2. ASSUME NEW q \in Port, OtherProgram(q) PROVE TypeOK'
  BY <1>2 DEF OtherProgram, TypeOK, pdfVars
<1>3. CASE Tick
  <2>1. pc' \in [Process -> Starting \cup {"down", "serving", "told", "closing"}]
    BY <1>3 DEF Tick, TypeOK, Starting
  <2>2. ticks' \in [Request -> 0..CompileTicks]
    BY <1>3, InstanceAssumption DEF Tick, TypeOK
  <2>3. QED
    BY <1>3, <2>1, <2>2 DEF Tick, TypeOK
<1>4. CASE UNCHANGED vars
  BY <1>4 DEF vars, mainVars, pdfVars, TypeOK
<1>5. ASSUME NEW p \in Process, Connect(p) \/ Disconnect(p) PROVE TypeOK'
  BY <1>5 DEF Connect, Disconnect, MainUnlike, mainVars, TypeOK
<1>6. QED
  BY <1>1, <1>2, <1>3, <1>4, <1>5

LEMMA TypeKept == TypeOK /\ RequestKnown /\ [Next]_vars => TypeOK'
  BY MainType, RequestType, WorldType DEF Next

-----------------------------------------------------------------------------
(* Who is up, and who listens *)

\* What the invariant of main says of p alone and of what p holds.
LEMMA EndedKeeps ==
  ASSUME TypeOK, OneUp, HeldByServing, NEW p \in Process, Ended(p)
  PROVE  OneUp' /\ HeldByServing'
<1>1. \A q \in Process \ {p} : pc'[q] = pc[q] /\ port'[q] = port[q]
  BY DEF Ended, Wants, TypeOK
<1>2. pc'[p] = "down"
  BY DEF Ended, TypeOK
<1>3. \A q \in Port : holder'[q] = IF holder[q] = p THEN None ELSE holder[q]
  BY DEF Ended
<1>4. OneUp'
  BY <1>1, <1>2 DEF OneUp, Up, Starting
<1>5. HeldByServing'
  BY <1>1, <1>3, InstanceAssumption DEF HeldByServing
<1>6. QED
  BY <1>4, <1>5

LEMMA EndedKnows ==
  ASSUME TypeOK, PortKnown, SavedPortIsCurrent, Waited, NEW p \in Process, Ended(p),
         \/ UNCHANGED portFile
         \/ \A q \in Process \ {p} : pc[q] \notin Up
  PROVE  PortKnown' /\ SavedPortIsCurrent' /\ Waited'
<1>1. \A q \in Process \ {p} : /\ pc'[q] = pc[q] /\ port'[q] = port[q]
                               /\ source'[q] = source[q] /\ attempt'[q] = attempt[q]
  BY DEF Ended, Wants, TypeOK
<1>2. pc'[p] = "down" /\ attempt'[p] = 0
  BY DEF Ended, TypeOK
<1>3. QED
  BY <1>1, <1>2 DEF PortKnown, SavedPortIsCurrent, Waited, Up, Starting

LEMMA MainKept ==
  ASSUME TypeOK, MainInv, NEW p \in Process,
         \/ Start(p) \/ Probed(p) \/ StartupStep(p) \/ Terminate(p) \/ ShutdownStep(p) \/ Kill(p)
  PROVE  MainInv'
<1> USE DEF MainInv
<1>1. pc[p] \in Up => \A q \in Process \ {p} : pc[q] \notin Up
  BY DEF OneUp
<1>2. CASE Ended(p) /\ (UNCHANGED portFile \/ pc[p] \in Up)
  BY <1>1, <1>2, EndedKeeps, EndedKnows
<1>3. ASSUME \A q \in Process \ {p} : /\ pc'[q] = pc[q] /\ port'[q] = port[q]
                                      /\ source'[q] = source[q]
                                      /\ attempt'[q] = attempt[q],
             UNCHANGED holder, UNCHANGED portFile,
             pc'[p] \notin {"told"} \/ pc[p] = "serving",
             pc'[p] \in Up => \A q \in Process \ {p} : pc[q] \notin Up,
             \A q \in Port : holder[q] # p,
             pc'[p] = "fixed" => source'[p] = "fixed",
             pc'[p] \in {"binding", "pause"} => portFile = port'[p] /\ port'[p] # None,
             pc'[p] \notin {"saving", "serving", "told"},
             pc'[p] \notin {"binding", "pause"} => attempt'[p] = 0,
             pc'[p] = "binding" => attempt'[p] = 0
      PROVE  MainInv'
  <2>1. OneUp'
    BY <1>3 DEF OneUp
  <2>2. HeldByServing'
    BY <1>3 DEF HeldByServing
  <2>3. PortKnown' /\ SavedPortIsCurrent'
    BY <1>3 DEF PortKnown, SavedPortIsCurrent
  <2>4. Waited'
    BY <1>3 DEF Waited
  <2>5. QED
    BY <2>1, <2>2, <2>3, <2>4
<1>4. pc[p] \notin {"saving", "serving", "told"} => \A q \in Port : holder[q] # p
  BY DEF HeldByServing
<1>5. CASE Start(p)
  BY <1>3, <1>4, <1>5 DEF Start, Goto, TypeOK, Up, Starting, Waited
<1>6. CASE Prepare(p)
  BY <1>1, <1>2, <1>3, <1>4, <1>6 DEF Prepare, Wants, Goto, TypeOK, Up, Starting, Waited
<1>7. CASE BindFixed(p)
  <2>1. CASE Ended(p)
    BY <1>2, <1>7, <2>1 DEF BindFixed
  <2>2. CASE ~ Ended(p)
    <3>1. /\ pc[p] = "fixed" /\ pc' = [pc EXCEPT ![p] = "serving"]
          /\ holder[port[p]] = None /\ holder' = [holder EXCEPT ![port[p]] = p]
          /\ UNCHANGED <<port, source, attempt, portFile>>
      BY <1>7, <2>2 DEF BindFixed, Listens, Goto
    <3>2. source[p] = "fixed"
      BY <3>1 DEF PortKnown
    <3>3. QED
      BY <1>1, <3>1, <3>2, InstanceAssumption
         DEF TypeOK, OneUp, HeldByServing, PortKnown, SavedPortIsCurrent, Waited, Up, Starting
  <2>3. QED
    BY <2>1, <2>2
<1>8. CASE BindSaved(p)
  <2>1. pc[p] = "binding" /\ UNCHANGED <<port, source, portFile>>
        /\ portFile = port[p] /\ port[p] # None
    BY <1>8 DEF BindSaved, PortKnown
  <2>2. CASE Listens(p, port[p]) /\ attempt' = [attempt EXCEPT ![p] = 0] /\ Goto(p, "serving")
    BY <1>1, <2>1, <2>2, InstanceAssumption
       DEF Listens, Goto, TypeOK, OneUp, HeldByServing, PortKnown, SavedPortIsCurrent,
           Waited, Up, Starting
  <2>3. ASSUME NEW n \in 0..Attempts - 1, attempt' = [attempt EXCEPT ![p] = n],
               Goto(p, IF attempt'[p] # 0 THEN "pause" ELSE "picking"), UNCHANGED holder
        PROVE  MainInv'
    <3>1. attempt'[p] = n /\ pc' = [pc EXCEPT ![p] = IF n # 0 THEN "pause" ELSE "picking"]
      BY <2>3 DEF Goto, TypeOK
    <3>2. QED
      BY <1>1, <2>1, <2>3, <3>1
         DEF TypeOK, OneUp, HeldByServing, PortKnown, SavedPortIsCurrent, Waited, Up, Starting
  <2>4. (attempt[p] + 1) % Attempts \in 0..Attempts - 1
    BY NextAttempt, InstanceAssumption DEF TypeOK
  <2>5. QED
    BY <1>8, <2>2, <2>3, <2>4 DEF BindSaved
<1>9. CASE PickPort(p)
  <2>1. CASE Ended(p)
    BY <1>2, <1>9, <2>1 DEF PickPort
  <2>2. CASE ~ Ended(p)
    <3>1. PICK q \in Port : Listens(p, q) /\ Wants(p, q, "picked")
      BY <1>9, <2>2 DEF PickPort
    <3>2. /\ pc[p] = "picking" /\ pc' = [pc EXCEPT ![p] = "saving"]
          /\ holder[q] = None /\ holder' = [holder EXCEPT ![q] = p]
          /\ UNCHANGED <<attempt, portFile>> /\ q # None
          /\ port' = [port EXCEPT ![p] = q] /\ source' = [source EXCEPT ![p] = "picked"]
      BY <1>9, <2>2, <3>1, InstanceAssumption DEF PickPort, Listens, Wants, Goto
    <3>3. QED
      BY <1>1, <1>4, <3>2, InstanceAssumption
         DEF TypeOK, OneUp, HeldByServing, PortKnown, SavedPortIsCurrent, Waited, Up, Starting
  <2>3. QED
    BY <2>1, <2>2
<1>10. CASE SavePort(p)
  <2>1. /\ pc[p] = "saving" /\ pc' = [pc EXCEPT ![p] = "serving"]
        /\ UNCHANGED <<port, attempt, holder>>
        /\ \/ portFile' = port[p] /\ UNCHANGED source
           \/ source' = [source EXCEPT ![p] = "unsaved"]
    BY <1>10 DEF SavePort, Goto
  <2>2. QED
    BY <1>1, <2>1
       DEF TypeOK, OneUp, HeldByServing, PortKnown, SavedPortIsCurrent, Waited, Up, Starting
<1>11. CASE Terminate(p)
  <2>1. /\ pc[p] = "serving" /\ pc' = [pc EXCEPT ![p] = "told"]
        /\ UNCHANGED <<port, source, attempt, holder, portFile>>
    BY <1>11 DEF Terminate, Goto
  <2>2. QED
    BY <1>1, <2>1
       DEF TypeOK, OneUp, HeldByServing, PortKnown, SavedPortIsCurrent, Waited, Up, Starting
<1>12. CASE StopListening(p)
  <2>1. /\ pc[p] = "told" /\ pc' = [pc EXCEPT ![p] = "closing"]
        /\ holder' = [q \in Port |-> IF holder[q] = p THEN None ELSE holder[q]]
        /\ port' = [port EXCEPT ![p] = None] /\ source' = [source EXCEPT ![p] = None]
        /\ UNCHANGED <<attempt, portFile>>
    BY <1>12 DEF StopListening, Goto, Wants
  <2>2. QED
    BY <2>1, InstanceAssumption
       DEF TypeOK, OneUp, HeldByServing, PortKnown, SavedPortIsCurrent, Waited, Up, Starting
<1>13. CASE Exit(p)
  BY <1>2, <1>13 DEF Exit
<1>14. CASE Kill(p)
  BY <1>2, <1>14 DEF Kill, Up, Starting
<1>15. CASE Probed(p)
  BY <1>1, <1>3, <1>4, <1>15 DEF Probed, Goto, TypeOK, Up, Starting, Waited
<1>16. QED
  BY <1>5, <1>6, <1>7, <1>8, <1>9, <1>10, <1>11, <1>12, <1>13, <1>14, <1>15
     DEF StartupStep, ShutdownStep

LEMMA WorldKept ==
  ASSUME TypeOK, MainInv,
         \/ \E q \in Port : OtherProgram(q)
         \/ Tick
         \/ UNCHANGED mainVars
  PROVE  MainInv'
<1> USE DEF MainInv
<1>1. ASSUME NEW q \in Port, OtherProgram(q) PROVE MainInv'
  BY <1>1, InstanceAssumption
     DEF OtherProgram, TypeOK, OneUp, HeldByServing, PortKnown, SavedPortIsCurrent, Waited
<1>2. CASE Tick
  <2>1. /\ \A p \in Process : pc'[p] = IF pc[p] = "pause" THEN "binding" ELSE pc[p]
        /\ \A p \in Process : pc[p] # "told"
        /\ UNCHANGED <<port, source, attempt, holder, portFile>>
    BY <1>2 DEF Tick
  <2>2. QED
    BY <2>1
       DEF TypeOK, OneUp, HeldByServing, PortKnown, SavedPortIsCurrent, Waited, Up, Starting
<1>3. CASE UNCHANGED mainVars
  BY <1>3 DEF mainVars, OneUp, HeldByServing, PortKnown, SavedPortIsCurrent, Waited
<1>4. QED
  BY <1>1, <1>2, <1>3

-----------------------------------------------------------------------------
(* The requests *)

LEMMA RequestsKept ==
  ASSUME TypeOK, RequestKnown, [Next]_vars
  PROVE  RequestKnown'
<1>1. CASE UNCHANGED <<at, by, dirs>>
  BY <1>1 DEF RequestKnown
<1>2. ASSUME NEW r \in Request, NEW p \in Process, Accept(r, p) PROVE RequestKnown'
  BY <1>2 DEF Accept, RequestKnown, TypeOK
<1>3. ASSUME NEW r \in Request, HandlerStep(r) PROVE RequestKnown'
  BY <1>3
     DEF HandlerStep, Lookup, MakeDir, WriteFiles, Compiled, TimeOut, ReadPdf, RemoveDir,
         Continue, Answer, RequestKnown, TypeOK, Handling
<1>4. ASSUME NEW rs \in SUBSET Request, Dropped(rs) PROVE RequestKnown'
  BY <1>4 DEF Dropped, RequestKnown, Handling
<1>5. QED
  BY <1>1, <1>2, <1>3, <1>4
     DEF Next, Start, Probed, StartupStep, Prepare, BindFixed, BindSaved, PickPort, SavePort,
         Terminate, ShutdownStep, StopListening, Exit, Kill, InProgress, HangUp, Connect,
         Disconnect, TypstExits, OtherProgram, Tick, vars, pdfVars, mainVars

-----------------------------------------------------------------------------
LEMMA InitIInv == Init => IInv
  BY InstanceAssumption
     DEF Init, IInv, TypeOK, MainInv, OneUp, HeldByServing, PortKnown, SavedPortIsCurrent,
         Waited, RequestKnown, Handling, Up, Starting

LEMMA NextKeeps == IInv /\ [Next]_vars => IInv'
<1> SUFFICES ASSUME IInv, [Next]_vars PROVE IInv'
  OBVIOUS
<1>1. TypeOK' /\ RequestKnown'
  BY TypeKept, RequestsKept DEF IInv
<1>2. ASSUME UNCHANGED mainVars PROVE MainInv'
  BY <1>2, WorldKept DEF IInv
<1>3. MainInv'
  BY <1>2, MainKept, WorldKept
     DEF IInv, Next, Accept, HandlerStep, Lookup, MakeDir, WriteFiles, Compiled, TimeOut,
         ReadPdf, RemoveDir, HangUp, TypstExits, Connect, Disconnect, MainUnlike, vars
<1>4. QED
  BY <1>1, <1>3 DEF IInv

\* The inductive invariant holds in every reachable state.
THEOREM Invariance == Spec => []IInv
  BY InitIInv, NextKeeps, PTL DEF Spec

-----------------------------------------------------------------------------
\* The file leads the next instance to the port of the present one, with any
\* number of instances and ports.
THEOREM PortIsSaved == Spec => []SavedPortIsCurrent
<1>1. IInv => SavedPortIsCurrent
  BY DEF IInv, MainInv
<1>2. QED
  BY <1>1, Invariance, PTL

LEMMA OnlyItsPc ==
  ASSUME TypeOK, NEW q \in Process,
         \/ Start(q) \/ Probed(q) \/ StartupStep(q) \/ Terminate(q) \/ ShutdownStep(q) \/ Kill(q)
  PROVE  \A p \in Process \ {q} : pc'[p] = pc[p]
  BY DEF TypeOK, Start, Probed, StartupStep, Prepare, BindFixed, BindSaved, PickPort, SavePort,
         Terminate, ShutdownStep, StopListening, Exit, Kill, Ended, Goto

\* Two attempts are enough for a predecessor that was told to end to let go of the
\* port: an instance gives its saved port up only if another program has it.
THEOREM PortIsKept == Spec => GivesUpOnlyToOthers
<1>1. IInv /\ [Next]_vars =>
        [\A p \in Process :
           pc[p] = "binding" /\ pc'[p] = "picking" => holder[port[p]] = Other]_vars
  <2> SUFFICES ASSUME IInv, Next, NEW p \in Process, pc[p] = "binding", pc'[p] = "picking"
               PROVE  holder[port[p]] = Other
    BY DEF vars, mainVars
  <2>1. BindSaved(p)
    <3>1. PICK q \in Process :
            \/ Start(q) \/ Probed(q) \/ StartupStep(q) \/ Terminate(q) \/ ShutdownStep(q) \/ Kill(q)
      BY DEF Next, Accept, HandlerStep, Lookup, MakeDir, WriteFiles, Compiled, TimeOut,
             ReadPdf, RemoveDir, HangUp, TypstExits, Connect, Disconnect, MainUnlike,
             mainVars, OtherProgram, Tick
    <3>2. q = p
      BY <3>1, OnlyItsPc DEF IInv
    <3>3. CASE StartupStep(p)
      BY <3>3 DEF StartupStep, Prepare, BindFixed, PickPort, SavePort
    <3>4. pc[p] # "binding" \/ pc'[p] = "down" \/ StartupStep(p)
      BY <3>1, <3>2
         DEF Start, Probed, Terminate, ShutdownStep, StopListening, Exit, Kill, Ended, IInv, TypeOK
    <3>5. QED
      BY <3>3, <3>4
  <2>2. /\ holder[port[p]] # None
        /\ attempt' = [attempt EXCEPT ![p] = (@ + 1) % Attempts]
        /\ Goto(p, IF attempt'[p] # 0 THEN "pause" ELSE "picking")
    BY <2>1 DEF BindSaved, Goto, IInv, TypeOK
  <2>3. attempt[p] \in 0..Attempts - 1 /\ attempt'[p] = (attempt[p] + 1) % Attempts
    BY <2>2 DEF IInv, TypeOK
  <2>4. attempt'[p] = 0
    BY <2>2 DEF Goto, IInv, TypeOK
  <2>5. attempt[p] # 0
    BY <2>3, <2>4, NextAttempt, InstanceAssumption
  <2>6. \A q \in Process : pc[q] # "told" /\ (pc[q] \in Up => q = p)
    BY <2>5 DEF IInv, MainInv, Waited, OneUp, Up, Starting
  <2>7. port[p] \in Port /\ holder[port[p]] \in Process \cup {Other}
    BY <2>2 DEF IInv, MainInv, PortKnown, TypeOK
  <2>8. QED
    BY <2>6, <2>7 DEF IInv, MainInv, HeldByServing, Up, Starting
<1>2. QED
  BY <1>1, Invariance, PTL DEF Spec, GivesUpOnlyToOthers

\* A directory stays behind only if it is kept for inspection, if its removal was
\* tried, or if the handler was dropped after making it.
THEOREM LeftoversHaveReasons == Spec => LeftOverForAReason
<1>1. IInv /\ [Next]_vars =>
        [\A r \in Request :
           at[r] \in Handling /\ at'[r] \notin Handling /\ r \in dirs' =>
             \/ at[r] = "compile" /\ child[r] = "failed"
             \/ at[r] = "remove"
             \/ at'[r] = "dropped" /\ at[r] # "lookup"]_vars
  <2> SUFFICES ASSUME IInv, Next, NEW r \in Request, at[r] \in Handling, at'[r] \notin Handling,
                      r \in dirs'
               PROVE  \/ at[r] = "compile" /\ child[r] = "failed"
                      \/ at[r] = "remove"
                      \/ at'[r] = "dropped" /\ at[r] # "lookup"
    BY DEF vars, pdfVars
  <2>1. HandlerStep(r) \/ \E rs \in SUBSET Request : r \in rs /\ Dropped(rs)
    <3>1. ~ UNCHANGED at
      OBVIOUS
    <3>2. ASSUME NEW q \in Request, HandlerStep(q) PROVE HandlerStep(r)
      <4>1. q = r
        BY <3>2
           DEF HandlerStep, Lookup, MakeDir, WriteFiles, Compiled, TimeOut, ReadPdf,
               RemoveDir, Continue, Answer, IInv, TypeOK
      <4>2. QED
        BY <3>2, <4>1
    <3>3. ASSUME NEW q \in Request, NEW p \in Process, Accept(q, p) PROVE FALSE
      BY <3>3 DEF Accept, IInv, TypeOK, Handling
    <3>4. ASSUME NEW rs \in SUBSET Request, Dropped(rs) PROVE r \in rs
      BY <3>4 DEF Dropped
    <3>5. ASSUME NEW p \in Process, Kill(p)
          PROVE  InProgress(p) \in SUBSET Request /\ Dropped(InProgress(p))
      BY <3>5 DEF Kill, InProgress
    <3>6. ASSUME NEW q \in Request, HangUp(q) PROVE {q} \in SUBSET Request /\ Dropped({q})
      BY <3>6 DEF HangUp
    <3>7. (\E p \in Process : Kill(p)) \/ (\E q \in Request : HandlerStep(q) \/ HangUp(q))
      BY <3>1, <3>3
         DEF Next, Start, Probed, StartupStep, Prepare, BindFixed, BindSaved, PickPort,
             SavePort, Terminate, ShutdownStep, StopListening, Exit, Connect, Disconnect,
             TypstExits, OtherProgram, Tick, pdfVars
    <3>8. QED
      BY <3>2, <3>4, <3>5, <3>6, <3>7
  <2>2. CASE HandlerStep(r)
    BY <2>2
       DEF HandlerStep, Lookup, MakeDir, WriteFiles, Compiled, TimeOut, ReadPdf, RemoveDir,
           Continue, Answer, IInv, TypeOK, RequestKnown, Handling
  <2>3. ASSUME NEW rs \in SUBSET Request, r \in rs, Dropped(rs)
        PROVE  at'[r] = "dropped" /\ at[r] # "lookup"
    <3>1. at'[r] = "dropped" /\ (at[r] = "mkdir" \/ r \in dirs)
      BY <2>3 DEF Dropped
    <3>2. QED
      BY <3>1 DEF IInv, RequestKnown
  <2>4. QED
    BY <2>1, <2>2, <2>3
<1>2. QED
  BY <1>1, Invariance, PTL DEF Spec, LeftOverForAReason

-----------------------------------------------------------------------------
(* RateLimiter: what was passed on in the last ticks *)

History == [Age -> Nat]

\* What the client of the history s was passed on in the ticks 0..k.
Passed(s, k) == UNION {{<<age, i>> : i \in 1..s[age]} : age \in 0..k}

Total(s, k) == Cardinality(Passed(s, k))

Shifted(s, n) == [age \in Age |-> IF age < n THEN 0 ELSE s[age - n]]

More(s) == [s EXCEPT ![0] = @ + 1]

LEMMA PassedElements ==
  ASSUME NEW s, NEW k, NEW e
  PROVE  e \in Passed(s, k) <=> \E age \in 0..k : \E i \in 1..s[age] : e = <<age, i>>
  BY DEF Passed

LEMMA TotalType ==
  ASSUME NEW s \in History, NEW k \in Int, k <= Window
  PROVE  IsFiniteSet(Passed(s, k)) /\ Total(s, k) \in Nat
<1>1. ASSUME NEW age \in 0..k PROVE IsFiniteSet({<<age, i>> : i \in 1..s[age]})
  <2>1. s[age] \in Nat
    BY LimitAssumption DEF History, Age
  <2>2. IsFiniteSet({age})
    BY FS_Singleton
  <2>3. IsFiniteSet(1..s[age])
    BY <2>1, FS_Interval
  <2>4. {<<age, i>> : i \in 1..s[age]} \in SUBSET ({age} \X (1..s[age]))
    OBVIOUS
  <2> QED
    BY <2>2, <2>3, <2>4, FS_Product, FS_Subset
<1> DEFINE f == [age \in 0..k |-> {<<age, i>> : i \in 1..s[age]}]
           T == {{<<age, i>> : i \in 1..s[age]} : age \in 0..k}
<1>2. IsFiniteSet(T)
  <2>1. f \in Surjection(0..k, T)
    BY DEF Surjection
  <2>2. IsFiniteSet(0..k)
    BY FS_Interval
  <2> QED
    BY <2>1, <2>2, FS_Surjection
<1>3. IsFiniteSet(Passed(s, k))
  BY <1>1, <1>2, FS_UNION DEF Passed
<1> QED
  BY <1>3, FS_CardinalityType DEF Total

LEMMA TotalNone ==
  ASSUME NEW s, NEW k \in Int, k < 0
  PROVE  Total(s, k) = 0
<1>1. Passed(s, k) = {}
  BY PassedElements
<1> QED
  BY <1>1, FS_EmptySet DEF Total

LEMMA TotalGrows ==
  ASSUME NEW s \in History, NEW j \in Int, NEW k \in Int, j <= k, k <= Window
  PROVE  Total(s, j) <= Total(s, k)
<1>1. Passed(s, j) \subseteq Passed(s, k)
  BY PassedElements
<1> QED
  BY <1>1, TotalType, FS_Subset DEF Total

LEMMA TotalShifted ==
  ASSUME NEW s \in History, NEW n \in {0, 1}, NEW k \in Int, k <= Window
  PROVE  Shifted(s, n) \in History /\ Total(Shifted(s, n), k) = Total(s, k - n)
<1>1. Shifted(s, n) \in History
  BY LimitAssumption DEF Shifted, History, Age
<1> DEFINE A == Passed(s, k - n)
           B == Passed(Shifted(s, n), k)
           f == [e \in A |-> <<e[1] + n, e[2]>>]
<1>2. \A age \in 0..k - n : age \in Age /\ s[age] \in Nat /\ age + n \in 0..k
        /\ Shifted(s, n)[age + n] = s[age]
  BY LimitAssumption DEF Shifted, History, Age
<1>3. \A age \in 0..k : age < n => Shifted(s, n)[age] = 0
  BY LimitAssumption DEF Shifted, Age
<1>4. \A e \in A : \E age \in 0..k - n : \E i \in 1..s[age] : e = <<age, i>> /\ f[e] = <<age + n, i>>
  BY PassedElements
<1>5. f \in [A -> B]
  <2> SUFFICES ASSUME NEW e \in A PROVE f[e] \in B
    OBVIOUS
  <2>1. PICK age \in 0..k - n : \E i \in 1..s[age] : e = <<age, i>> /\ f[e] = <<age + n, i>>
    BY <1>4
  <2>2. PICK i \in 1..s[age] : f[e] = <<age + n, i>>
    BY <2>1
  <2>3. age + n \in 0..k /\ i \in 1..Shifted(s, n)[age + n]
    BY <1>2
  <2> HIDE DEF f
  <2> QED
    BY <2>2, <2>3, PassedElements
<1>6. \A d, e \in A : f[d] = f[e] => d = e
  <2> SUFFICES ASSUME NEW d \in A, NEW e \in A, f[d] = f[e] PROVE d = e
    OBVIOUS
  <2>1. PICK a1 \in 0..k - n : \E i \in 1..s[a1] : d = <<a1, i>> /\ f[d] = <<a1 + n, i>>
    BY <1>4
  <2>2. PICK a2 \in 0..k - n : \E i \in 1..s[a2] : e = <<a2, i>> /\ f[e] = <<a2 + n, i>>
    BY <1>4
  <2> HIDE DEF f
  <2>3. a1 + n = a2 + n
    BY <2>1, <2>2
  <2>4. a1 = a2
    BY <2>3
  <2> QED
    BY <2>1, <2>2, <2>4
<1>7. \A e \in B : \E d \in A : f[d] = e
  <2> SUFFICES ASSUME NEW e \in B PROVE \E d \in A : f[d] = e
    OBVIOUS
  <2>1. PICK age \in 0..k : \E i \in 1..Shifted(s, n)[age] : e = <<age, i>>
    BY PassedElements
  <2>2. PICK i \in 1..Shifted(s, n)[age] : e = <<age, i>>
    BY <2>1
  <2>3. age >= n
    BY <1>3, <2>2
  <2>4. age - n \in 0..k - n /\ (age - n) + n = age
    BY <2>3
  <2>5. i \in 1..s[age - n]
    BY <1>2, <2>2, <2>4
  <2>6. <<age - n, i>> \in A
    BY <2>4, <2>5, PassedElements
  <2>7. f[<<age - n, i>>] = e
    BY <2>2, <2>4, <2>6
  <2> QED
    BY <2>6, <2>7
<1>8. ExistsBijection(A, B)
  <2>1. f \in Injection(A, B)
    BY <1>5, <1>6 DEF Injection, IsInjective
  <2>2. f \in Surjection(A, B)
    BY <1>5, <1>7 DEF Surjection
  <2> HIDE DEF f
  <2> QED
    BY <2>1, <2>2 DEF ExistsBijection, Bijection
<1>9. k - n \in Int /\ k - n <= Window
  BY LimitAssumption
<1>10. IsFiniteSet(A)
  BY <1>9, TotalType
<1> HIDE DEF A, B
<1>11. Cardinality(B) = Cardinality(A)
  BY <1>8, <1>10, FS_Bijection
<1> QED
  BY <1>1, <1>11 DEF A, B, Total

LEMMA TotalMore ==
  ASSUME NEW s \in History, NEW k \in 0..Window
  PROVE  More(s) \in History /\ Total(More(s), k) = Total(s, k) + 1
<1>0. 0 \in Age /\ s[0] \in Nat /\ 0 \in 0..k /\ k \in Int
  BY LimitAssumption DEF History, Age
<1>1. More(s) \in History
  BY <1>0 DEF More, History
<1> DEFINE new == <<0, s[0] + 1>>
<1>2. \A age \in 0..k : More(s)[age] = IF age = 0 THEN s[0] + 1 ELSE s[age]
  BY LimitAssumption DEF More, History, Age
<1>3. Passed(More(s), k) = Passed(s, k) \cup {new}
  <2>1. \A e : e \in Passed(More(s), k) => e \in Passed(s, k) \cup {new}
    <3> SUFFICES ASSUME NEW age \in 0..k, NEW i \in 1..More(s)[age]
                 PROVE  <<age, i>> \in Passed(s, k) \cup {new}
      BY PassedElements
    <3>1. CASE i \in 1..s[age]
      BY <3>1, PassedElements
    <3>2. CASE i \notin 1..s[age]
      BY <1>0, <1>2, <3>2
    <3> QED
      BY <3>1, <3>2
  <2>2. \A e \in Passed(s, k) : e \in Passed(More(s), k)
    <3> SUFFICES ASSUME NEW age \in 0..k, NEW i \in 1..s[age]
                 PROVE  <<age, i>> \in Passed(More(s), k)
      BY PassedElements
    <3>1. i \in 1..More(s)[age]
      BY <1>0, <1>2
    <3> QED
      BY <3>1, PassedElements
  <2>3. new \in Passed(More(s), k)
    <3>1. s[0] + 1 \in 1..More(s)[0]
      BY <1>0, <1>2
    <3> QED
      BY <1>0, <3>1, PassedElements
  <2> QED
    BY <2>1, <2>2, <2>3
<1>4. new \notin Passed(s, k)
  <2> SUFFICES ASSUME NEW age \in 0..k, NEW i \in 1..s[age], new = <<age, i>> PROVE FALSE
    BY PassedElements
  <2> QED
    BY <1>0
<1>5. IsFiniteSet(Passed(s, k))
  BY <1>0, TotalType
<1> HIDE DEF new
<1> QED
  BY <1>1, <1>3, <1>4, <1>5, FS_AddElement DEF Total

-----------------------------------------------------------------------------
(* The windows *)

Entry == [age : Age, count : 0..MaxCount]

\* How many requests of its present window a client was passed on.
Granted(h) == IF h.count < Limit THEN h.count ELSE Limit

\* h is the client's entry and s its history.  Since the window began, no more than
\* what the window has granted was passed on, and not less; before, at most what
\* one window grants.
WindowInv(h, s) ==
  /\ h.count = 0 => h.age = Window
  /\ Total(s, h.age - 1) <= Granted(h)
  /\ h.age < Window => Total(s, h.age) >= Granted(h)
  /\ Total(s, Window - 1) <= Granted(h) + Limit

LimiterIInv == LimiterTypeOK /\ \A ip \in IP : WindowInv(hits[ip], served[ip])

LEMMA WindowAges ==
  ASSUME NEW h \in Entry, NEW s \in History, WindowInv(h, s), NEW n \in {0, 1}
  PROVE  /\ [h EXCEPT !.age = Older(@, n)] \in Entry
         /\ WindowInv([h EXCEPT !.age = Older(@, n)], Shifted(s, n))
<1> DEFINE g == [h EXCEPT !.age = Older(@, n)]
<1>1. /\ h.age \in 0..Window /\ h.count \in Nat /\ Window \in Nat \ {0} /\ Limit \in Nat
      /\ g \in Entry /\ g.age = Older(h.age, n) /\ g.count = h.count
  BY LimitAssumption DEF Entry, Older, Age
<1>2. g.age - 1 - n <= h.age - 1 /\ Granted(g) = Granted(h)
  BY <1>1 DEF Older, Granted
<1>3. \A k \in Int : k <= Window => Total(Shifted(s, n), k) = Total(s, k - n)
  BY TotalShifted
<1>4. \A j, k \in Int : j <= k /\ k <= Window => Total(s, j) <= Total(s, k)
  BY TotalGrows
<1>5. \A k \in Int : k <= Window => Total(s, k) \in Nat
  BY TotalType
<1>6. Granted(h) \in Nat
  BY <1>1 DEF Granted
<1> HIDE DEF g
<1>7. Total(Shifted(s, n), g.age - 1) <= Granted(g)
  <2>1. Total(Shifted(s, n), g.age - 1) = Total(s, (g.age - 1) - n)
    BY <1>1, <1>3 DEF Entry, Age
  <2>2. Total(s, (g.age - 1) - n) <= Total(s, h.age - 1)
    BY <1>1, <1>2, <1>4 DEF Entry, Age
  <2>3. (g.age - 1) - n \in Int /\ (g.age - 1) - n <= Window
    BY <1>1 DEF Entry, Age
  <2> QED
    BY <2>1, <2>2, <2>3, <1>1, <1>2, <1>5, <1>6 DEF WindowInv
<1>8. g.age < Window => Total(Shifted(s, n), g.age) >= Granted(g)
  <2> SUFFICES ASSUME g.age < Window PROVE Total(Shifted(s, n), g.age) >= Granted(g)
    OBVIOUS
  <2>1. g.age = h.age + n /\ g.age \in Int /\ g.age <= Window /\ h.age < Window
    BY <1>1 DEF Older
  <2>2. Total(Shifted(s, n), g.age) = Total(s, h.age)
    BY <1>1, <1>3, <2>1
  <2> QED
    BY <1>2, <2>1, <2>2 DEF WindowInv
<1>9. Total(Shifted(s, n), Window - 1) <= Granted(g) + Limit
  <2>1. Total(Shifted(s, n), Window - 1) = Total(s, (Window - 1) - n)
    BY <1>1, <1>3
  <2>2. Total(s, (Window - 1) - n) <= Total(s, Window - 1)
    BY <1>1, <1>4
  <2>3. Total(s, (Window - 1) - n) \in Nat /\ Total(s, Window - 1) \in Nat
    BY <1>1, <1>5
  <2> QED
    BY <2>1, <2>2, <2>3, <1>1, <1>2, <1>6 DEF WindowInv
<1>10. g.count = 0 => g.age = Window
  BY <1>1 DEF WindowInv, Older
<1> QED
  BY <1>1, <1>7, <1>8, <1>9, <1>10 DEF WindowInv, g

LEMMA WindowCounts ==
  ASSUME NEW h \in Entry, NEW s \in History, WindowInv(h, s), NEW n \in {0, 1},
         h.count < MaxCount
  PROVE  /\ Counted(h, n) \in Entry
         /\ WindowInv(Counted(h, n),
                      IF Counted(h, n).count <= Limit THEN More(Shifted(s, n)) ELSE Shifted(s, n))
<1> DEFINE g == Counted(h, n)
           r == Shifted(s, n)
<1>1. /\ h.age \in 0..Window /\ h.count \in Nat /\ Window \in Nat \ {0} /\ Limit \in Nat \ {0}
      /\ h.count < MaxCount /\ MaxCount \in Nat
  BY LimitAssumption DEF Entry, Age
<1>2. r \in History
  BY LimitAssumption, TotalShifted
<1>3. \A k \in Int : k <= Window => Total(r, k) = Total(s, k - n)
  BY TotalShifted
<1>4. \A k \in 0..Window : Total(More(r), k) = Total(r, k) + 1
  BY <1>2, TotalMore
<1>5. \A j, k \in Int : j <= k /\ k <= Window => Total(s, j) <= Total(s, k)
  BY TotalGrows
<1>6. \A k \in Int : k <= Window => Total(s, k) \in Nat
  BY TotalType
<1>7. \A k \in Int : k < 0 => Total(s, k) = 0 /\ Total(r, k) = 0 /\ Total(More(r), k) = 0
  BY TotalNone
<1>8. Granted(h) \in Nat /\ Granted(h) <= Limit
  BY <1>1 DEF Granted
<1> HIDE DEF r
<1>9. CASE h.age + n >= Window
  <2>1. g = [age |-> n, count |-> 1]
    BY <1>9 DEF Counted
  <2>2. g \in Entry /\ g.age = n /\ g.count = 1 /\ Granted(g) = 1
    BY <2>1, <1>1 DEF Entry, Age, Granted
  <2>3. Total(More(r), n - 1) <= 1
    <3>1. CASE n = 0
      BY <3>1, <1>7
    <3>2. CASE n = 1
      BY <3>2, <1>1, <1>3, <1>4, <1>7
    <3> QED
      BY <3>1, <3>2
  <2>4. Total(More(r), n) >= 1
    <3>1. Total(More(r), n) = Total(s, n - n) + 1 /\ Total(s, n - n) \in Nat
      BY <1>1, <1>3, <1>4, <1>6
    <3> QED
      BY <3>1
  <2>5. Total(More(r), Window - 1) <= 1 + Limit
    <3>1. Total(More(r), Window - 1) = Total(s, (Window - 1) - n) + 1
      BY <1>1, <1>3, <1>4
    <3>2. Total(s, (Window - 1) - n) <= Total(s, h.age - 1)
      BY <1>1, <1>5, <1>9
    <3>3. Total(s, (Window - 1) - n) \in Nat /\ Total(s, h.age - 1) \in Nat
      BY <1>1, <1>6
    <3> QED
      BY <3>1, <3>2, <3>3, <1>1, <1>8 DEF WindowInv
  <2> QED
    BY <2>2, <2>3, <2>4, <2>5, <1>1 DEF WindowInv, r
<1>10. CASE h.age + n < Window
  <2>0. h.count # 0
    BY <1>1, <1>10 DEF WindowInv
  <2>1. g = [age |-> h.age + n, count |-> h.count + 1]
    BY <2>0, <1>1, <1>10 DEF Counted
  <2>2. g \in Entry /\ g.age = h.age + n /\ g.count = h.count + 1
    BY <2>1, <1>1, <1>10 DEF Entry, Age
  <2>3. /\ Total(r, g.age - 1) = Total(s, h.age - 1) /\ Total(r, g.age) = Total(s, h.age)
        /\ Total(r, Window - 1) <= Total(s, Window - 1)
    <3>1. Total(r, g.age - 1) = Total(s, h.age - 1)
      BY <1>1, <1>3, <1>10, <2>2
    <3>2. Total(r, g.age) = Total(s, h.age)
      BY <1>1, <1>3, <1>10, <2>2
    <3>3. Total(r, Window - 1) = Total(s, (Window - 1) - n)
      BY <1>1, <1>3
    <3>4. Total(s, (Window - 1) - n) <= Total(s, Window - 1)
      BY <1>1, <1>5
    <3> QED
      BY <3>1, <3>2, <3>3, <3>4
  <2>4. /\ Total(s, h.age - 1) \in Nat /\ Total(s, h.age) \in Nat /\ Total(s, Window - 1) \in Nat
        /\ Total(r, Window - 1) \in Nat
    <3>1. Total(r, Window - 1) = Total(s, (Window - 1) - n)
      BY <1>1, <1>3
    <3> QED
      BY <3>1, <1>1, <1>6
  <2>5. CASE g.count <= Limit
    <3>1. Granted(g) = Granted(h) + 1
      BY <2>2, <2>5, <1>1 DEF Granted
    <3>2. Total(More(r), g.age) = Total(r, g.age) + 1
      BY <1>1, <1>4, <1>10, <2>2
    <3>3. Total(More(r), Window - 1) = Total(r, Window - 1) + 1
      BY <1>1, <1>4
    <3>4. Total(More(r), g.age - 1) <= Total(r, g.age - 1) + 1
      <4>1. CASE g.age = 0
        BY <4>1, <1>7
      <4>2. CASE g.age # 0
        <5>1. g.age - 1 \in 0..Window
          BY <4>2, <1>1, <1>10, <2>2
        <5>2. Total(More(r), g.age - 1) = Total(r, g.age - 1) + 1
          BY <5>1, <1>4
        <5> QED
          BY <5>2, <2>3, <2>4
      <4> QED
        BY <4>1, <4>2
    <3>5. Total(More(r), g.age - 1) \in Int
      <4>1. CASE g.age = 0
        BY <4>1, <1>7
      <4>2. CASE g.age # 0
        BY <4>2, <1>1, <1>4, <1>10, <2>2, <2>3, <2>4
      <4> QED
        BY <4>1, <4>2
    <3> QED
      BY <3>1, <3>2, <3>3, <3>4, <3>5, <2>2, <2>3, <2>4, <2>5, <1>1, <1>8 DEF WindowInv, r
  <2>6. CASE g.count > Limit
    <3>1. Granted(g) = Granted(h) /\ ~ g.count <= Limit
      BY <2>2, <2>6, <1>1 DEF Granted
    <3> QED
      BY <3>1, <2>2, <2>3, <2>4, <1>1, <1>8 DEF WindowInv, r
  <2> QED
    BY <2>2, <2>5, <2>6, <1>1
<1> QED
  BY <1>1, <1>9, <1>10

-----------------------------------------------------------------------------
(* The limiter *)

LEMMA LimiterTicks ==
  ASSUME LimiterIInv, ClockTick
  PROVE  LimiterIInv'
<1>1. \A ip \in IP : hits[ip] \in Entry /\ served[ip] \in History
  BY DEF LimiterIInv, LimiterTypeOK, Entry, History
<1>2. \A ip \in IP : hits'[ip] = [hits[ip] EXCEPT !.age = Older(@, 1)]
                       /\ served'[ip] = Shifted(served[ip], 1)
  BY DEF ClockTick, Aged, Past, Shifted
<1>3. \A ip \in IP : hits'[ip] \in Entry /\ WindowInv(hits'[ip], served'[ip])
  <2> TAKE ip \in IP
  <2>1. WindowInv(hits[ip], served[ip]) /\ 1 \in {0, 1}
    BY DEF LimiterIInv
  <2>2. /\ [hits[ip] EXCEPT !.age = Older(@, 1)] \in Entry
        /\ WindowInv([hits[ip] EXCEPT !.age = Older(@, 1)], Shifted(served[ip], 1))
    BY <1>1, <2>1, WindowAges
  <2> QED
    BY <1>2, <2>2
<1>4. \A ip \in IP : served'[ip] \in History
  <2>1. 0 \in Int /\ 0 <= Window
    BY LimitAssumption
  <2> QED
    BY <1>1, <1>2, <2>1, TotalShifted
<1>5. hits' \in [IP -> Entry] /\ served' \in [IP -> History]
  BY <1>3, <1>4 DEF ClockTick, Aged, Past
<1> QED
  BY <1>3, <1>5 DEF LimiterIInv, LimiterTypeOK, Entry, History

LEMMA LimiterChecks ==
  ASSUME LimiterIInv, NEW client \in IP, NEW n \in {0, 1}, rate_limit(client, n)
  PROVE  LimiterIInv'
<1>0. 0 \in Int /\ 0 <= Window /\ 0 \in 0..Window /\ 0 \in Age
  BY LimitAssumption DEF Age
<1>1. \A ip \in IP : hits[ip] \in Entry /\ served[ip] \in History
  BY DEF LimiterIInv, LimiterTypeOK, Entry, History
<1>2. \A ip \in IP \ {client} : hits'[ip] = [hits[ip] EXCEPT !.age = Older(@, n)]
                                /\ served'[ip] = Shifted(served[ip], n)
  BY DEF rate_limit, Aged, Past, Shifted
<1>3. /\ hits'[client] = Counted(hits[client], n)
      /\ served'[client] = IF Counted(hits[client], n).count <= Limit
                              THEN More(Shifted(served[client], n)) ELSE Shifted(served[client], n)
  BY DEF rate_limit, Aged, Past, Shifted, More, Passes
<1>4. \A ip \in IP \ {client} : hits'[ip] \in Entry /\ WindowInv(hits'[ip], served'[ip])
  <2> TAKE ip \in IP \ {client}
  <2>1. WindowInv(hits[ip], served[ip])
    BY DEF LimiterIInv
  <2>2. /\ [hits[ip] EXCEPT !.age = Older(@, n)] \in Entry
        /\ WindowInv([hits[ip] EXCEPT !.age = Older(@, n)], Shifted(served[ip], n))
    BY <1>1, <2>1, WindowAges
  <2> QED
    BY <1>2, <2>2
<1>5. hits'[client] \in Entry /\ WindowInv(hits'[client], served'[client])
  BY <1>1, <1>3, WindowCounts DEF LimiterIInv, rate_limit
<1>6. \A ip \in IP : Shifted(served[ip], n) \in History
  BY <1>0, <1>1, TotalShifted
<1>7. More(Shifted(served[client], n)) \in History
  BY <1>0, <1>6, TotalMore
<1>8. \A ip \in IP : served'[ip] \in History
  BY <1>2, <1>3, <1>6, <1>7
<1>9. hits' \in [IP -> Entry] /\ served' \in [IP -> History]
  BY <1>4, <1>5, <1>8 DEF rate_limit, Aged, Past
<1> QED
  BY <1>4, <1>5, <1>9 DEF LimiterIInv, LimiterTypeOK, Entry, History

LEMMA LimiterStarts ==
  ASSUME LimiterInit
  PROVE  LimiterIInv
<1>1. Window \in Nat \ {0} /\ Limit \in Nat \ {0} /\ MaxCount \in Nat
  BY LimitAssumption
<1>2. LimiterTypeOK
  BY <1>1 DEF LimiterInit, LimiterTypeOK, NoEntry, Age
<1> SUFFICES ASSUME NEW ip \in IP PROVE WindowInv(hits[ip], served[ip])
  BY <1>2 DEF LimiterIInv
<1>3. hits[ip] = NoEntry /\ served[ip] \in History /\ \A age \in Age : served[ip][age] = 0
  BY DEF LimiterInit, History
<1>4. Passed(served[ip], Window - 1) = {}
  BY <1>1, <1>3, PassedElements DEF Age
<1>5. Total(served[ip], Window - 1) = 0
  BY <1>4, FS_EmptySet DEF Total
<1> QED
  BY <1>1, <1>3, <1>5 DEF WindowInv, NoEntry, Granted

LEMMA LimiterKept ==
  ASSUME LimiterIInv, [WebNext]_webVars
  PROVE  LimiterIInv'
<1>1. ASSUME UNCHANGED limiterVars PROVE LimiterIInv'
  BY <1>1 DEF limiterVars, LimiterIInv, LimiterTypeOK
<1>2. CASE Visit
  BY <1>1, <1>2, WebAssumption, LimiterChecks DEF Visit, GetAdmin, GetPublic
<1>3. CASE OtherClient
  BY <1>3, LimiterChecks DEF OtherClient
<1>4. CASE ClockTick
  BY <1>4, LimiterTicks
<1>5. CASE Submit \/ SignIn \/ UNCHANGED webVars
  BY <1>1, <1>5 DEF Submit, SignIn, webVars
<1>6. ASSUME NEW lang \in Lang, language_switch(lang) PROVE LimiterIInv'
  BY <1>1, <1>6 DEF language_switch
<1> QED
  BY <1>2, <1>3, <1>4, <1>5, <1>6 DEF WebNext

LEMMA LimiterInvariance == WebSpec => []LimiterIInv
<1>1. WebInit => LimiterIInv
  BY LimiterStarts DEF WebInit
<1>2. LimiterIInv /\ [WebNext]_webVars => LimiterIInv'
  BY LimiterKept
<1> QED
  BY <1>1, <1>2, PTL DEF WebSpec

\* With any number of clients, however they share out their requests over the windows:
\* no span of the length of a window holds more than twice the limit.
THEOREM TwiceTheLimit == WebSpec => []AtMostTwiceTheLimit
<1>1. LimiterIInv => AtMostTwiceTheLimit
  <2> SUFFICES ASSUME LimiterIInv, NEW ip \in IP
               PROVE  ServedWithin(ip, 0..Window - 1) <= 2 * Limit
    BY DEF AtMostTwiceTheLimit
  <2>1. hits[ip] \in Entry /\ served[ip] \in History /\ WindowInv(hits[ip], served[ip])
    BY DEF LimiterIInv, LimiterTypeOK, Entry, History
  <2>2. Limit \in Nat /\ Granted(hits[ip]) \in Nat /\ Granted(hits[ip]) <= Limit
    BY <2>1, LimitAssumption DEF Entry, Granted
  <2>3. Total(served[ip], Window - 1) \in Nat
    BY <2>1, LimitAssumption, TotalType
  <2>4. ServedWithin(ip, 0..Window - 1) = Total(served[ip], Window - 1)
    BY DEF ServedWithin, PassedOn, Total, Passed
  <2> QED
    BY <2>1, <2>2, <2>3, <2>4 DEF WindowInv
<1> QED
  BY <1>1, LimiterInvariance, PTL

\* Whoever would be refused now has been served as often as the limit says since his
\* window began, whatever others ask for.
THEOREM NobodyIsRefusedBelow == WebSpec => []RefusedOnlyAboveTheLimit
<1>1. LimiterIInv => RefusedOnlyAboveTheLimit
  <2> SUFFICES ASSUME LimiterIInv, NEW ip \in IP, ~ Passes(ip, 0)
               PROVE  ServedWithin(ip, Age) >= Limit
    BY DEF RefusedOnlyAboveTheLimit
  <2>1. hits[ip] \in Entry /\ served[ip] \in History /\ WindowInv(hits[ip], served[ip])
    BY DEF LimiterIInv, LimiterTypeOK, Entry, History
  <2>2. /\ Limit \in Nat \ {0} /\ Window \in Nat \ {0} /\ hits[ip].age \in 0..Window
        /\ hits[ip].count \in Nat
    BY <2>1, LimitAssumption DEF Entry, Age
  <2>3. hits[ip].age < Window /\ hits[ip].count >= Limit
    BY <2>2 DEF Passes, Counted
  <2>4. Total(served[ip], hits[ip].age) >= Limit
    BY <2>1, <2>2, <2>3 DEF WindowInv, Granted
  <2>5. Total(served[ip], hits[ip].age) <= Total(served[ip], Window)
    BY <2>1, <2>2, TotalGrows
  <2>6. Total(served[ip], hits[ip].age) \in Nat /\ Total(served[ip], Window) \in Nat
    BY <2>1, <2>2, TotalType
  <2>7. ServedWithin(ip, Age) = Total(served[ip], Window)
    BY DEF ServedWithin, PassedOn, Total, Passed, Age
  <2> QED
    BY <2>2, <2>4, <2>5, <2>6, <2>7
<1> QED
  BY <1>1, LimiterInvariance, PTL

-----------------------------------------------------------------------------
(* The browser *)

\* Where a redirect leads: to an address that takes a GET, or back to the one of the
\* form that the page shown is the answer to.
RedirectKnown ==
  /\ location # "public"
  /\ location = "change" => /\ shown.route = "change" /\ shown.method = "POST"
                            /\ shown.status \in {200, 400}

\* A page shown at an address that takes no GET is the answer to a form.
OnlyAnswers == shown.route = "change" /\ shown.status \in {200, 400} => shown.method = "POST"

WebIInv == WebTypeOK /\ ShownInChosenLanguage /\ RedirectKnown /\ OnlyAnswers

LEMMA RoutesKnown ==
  /\ Route = {"page", "both", "change", "public"} /\ Admin = {"page", "both", "change"}
  /\ \A r \in Admin : "GET" \in Methods[r] <=> r # "change"
  BY DEF Route, Admin, Methods

LEMMA Shown ==
  ASSUME WebIInv, NEW r \in Route, NEW method \in {"GET", "POST"},
         NEW status \in {200, 400, 401, 405, 429} \cup Failed, Shows(r, method, status)
  PROVE  /\ shown' \in [route : Route, method : {"GET", "POST"},
                        status : {0, 200, 400, 401, 405, 429} \cup Failed, lang : Lang \cup {Absent},
                        banner : BOOLEAN]
         /\ shown'.route = r /\ shown'.method = method /\ shown'.status = status
         /\ shown'.lang # Absent /\ cookie # Absent => shown'.lang = cookie
<1>1. negotiate(cookie, accept) \in Lang /\ (cookie # Absent => negotiate(cookie, accept) = cookie)
  BY DEF WebIInv, WebTypeOK, negotiate, Lang, Absent
<1>2. (demo_mode /\ r \in Admin /\ status \in {200, 400}) \in BOOLEAN
  OBVIOUS
<1> QED
  BY <1>1, <1>2 DEF Shows

LEMMA WebKept ==
  ASSUME LimiterIInv', WebIInv, [WebNext]_webVars
  PROVE  WebIInv'
<1>1. LimiterTypeOK'
  BY DEF LimiterIInv
<1>2. ASSUME UNCHANGED browserVars PROVE WebIInv'
  BY <1>1, <1>2 DEF browserVars, WebIInv, WebTypeOK, ShownInChosenLanguage, RedirectKnown, OnlyAnswers
<1>3. ASSUME NEW r \in Admin, GetAdmin(r) PROVE WebIInv'
  <2>1. r \in Route /\ (r = "change" => "GET" \notin Methods[r])
    BY RoutesKnown
  <2>2. CASE location' = Absent
    <3>1. PICK status \in {200, 401, 405} \cup Failed :
            Shows(r, "GET", status) /\ (r = "change" => status \in {401, 405})
      BY <1>3, <2>1, <2>2 DEF GetAdmin, Absent
    <3>2. status \in {200, 400, 401, 405, 429} \cup Failed
      OBVIOUS
    <3> QED
      BY <1>1, <1>3, <2>1, <2>2, <3>1, <3>2, Shown
        DEF GetAdmin, WebIInv, WebTypeOK, ShownInChosenLanguage, RedirectKnown, OnlyAnswers, Absent
  <2>3. CASE location' = "page" /\ UNCHANGED shown
    BY <1>1, <1>3, <2>3, RoutesKnown
      DEF GetAdmin, WebIInv, WebTypeOK, ShownInChosenLanguage, RedirectKnown, OnlyAnswers, Absent
  <2> QED
    BY <1>3, <2>2, <2>3 DEF GetAdmin
<1>4. ASSUME NEW n \in {0, 1}, GetPublic(n) PROVE WebIInv'
  <2>1. PICK status \in {200, 429} \cup Failed : Shows("public", "GET", status)
    BY <1>4 DEF GetPublic
  <2>2. "public" \in Route
    BY RoutesKnown
  <2> QED
    BY <1>1, <1>4, <2>1, <2>2, Shown
      DEF GetPublic, WebIInv, WebTypeOK, ShownInChosenLanguage, RedirectKnown, OnlyAnswers, Absent
<1>5. CASE Submit
  <2>1. PICK r \in Admin :
          \/ MayEnter /\ location' \in Destinations(r) /\ UNCHANGED shown
          \/ /\ \E status \in IF MayEnter THEN Answers(r) \cup Failed ELSE {401} :
                  Shows(r, "POST", status)
             /\ UNCHANGED location
    BY <1>5 DEF Submit
  <2>2. CASE location' \in Destinations(r) /\ UNCHANGED shown
    BY <1>1, <1>5, <2>2, RoutesKnown
      DEF Submit, Destinations, WebIInv, WebTypeOK, ShownInChosenLanguage, RedirectKnown,
          OnlyAnswers, Absent
  <2>3. CASE ~ (location' \in Destinations(r) /\ UNCHANGED shown)
    <3>1. PICK status \in {200, 400, 401} \cup Failed : Shows(r, "POST", status) /\ UNCHANGED location
      BY <2>1, <2>3 DEF Answers
    <3>2. r \in Route
      BY RoutesKnown
    <3> QED
      BY <1>1, <1>5, <3>1, <3>2, Shown
        DEF Submit, WebIInv, WebTypeOK, ShownInChosenLanguage, RedirectKnown, OnlyAnswers, Absent
  <2> QED
    BY <2>2, <2>3
<1>6. ASSUME NEW lang \in Lang, language_switch(lang) PROVE WebIInv'
  <2>1. CASE MayEnter
    <3>1. PICK referer \in {shown.route, Absent} : location' = language_redirect_target(referer)
      BY <1>6, <2>1 DEF language_switch
    <3>2. location' \in {shown.route, "page"} /\ location' \in Admin /\ location' # Absent
      BY <1>6, <3>1, RoutesKnown DEF language_switch, language_redirect_target, Absent
    <3>3. shown' = shown /\ cookie' = lang /\ shown.status \in {200, 400}
      BY <1>6, <2>1 DEF language_switch
    <3> QED
      BY <1>1, <1>6, <3>2, <3>3, RoutesKnown
        DEF language_switch, WebIInv, WebTypeOK, ShownInChosenLanguage, RedirectKnown, OnlyAnswers
  <2>2. CASE ~ MayEnter
    <3>1. Shows("page", "GET", 401) /\ "page" \in Route
      BY <1>6, <2>2, RoutesKnown DEF language_switch
    <3> QED
      BY <1>1, <1>6, <2>2, <3>1, Shown
        DEF language_switch, WebIInv, WebTypeOK, ShownInChosenLanguage, RedirectKnown, OnlyAnswers, Absent
  <2> QED
    BY <2>1, <2>2
<1>7. CASE SignIn
  BY <1>1, <1>7
    DEF SignIn, WebIInv, WebTypeOK, ShownInChosenLanguage, RedirectKnown, OnlyAnswers
<1> QED
  BY <1>2, <1>3, <1>4, <1>5, <1>6, <1>7 DEF WebNext, Visit, OtherClient, webVars

LEMMA WebInvariance == WebSpec => [](LimiterIInv /\ WebIInv)
<1>1. WebInit => LimiterIInv /\ WebIInv
  BY LimiterStarts, RoutesKnown
    DEF WebInit, LimiterIInv, WebIInv, WebTypeOK, ShownInChosenLanguage, RedirectKnown, OnlyAnswers,
        NothingShown, Absent, Lang
<1>2. LimiterIInv /\ WebIInv /\ [WebNext]_webVars => (LimiterIInv /\ WebIInv)'
  BY LimiterKept, WebKept
<1> QED
  BY <1>1, <1>2, PTL DEF WebSpec

\* Type correctness of the application as a browser sees it.
THEOREM WebTypeCorrect == WebSpec => []WebTypeOK
  BY WebInvariance, PTL DEF WebIInv

\* A language once chosen wins on whatever is shown after the switch has arrived,
\* with forms refused, redirects followed and credentials forgotten in between.
THEOREM ChosenLanguage == WebSpec => []ShownInChosenLanguage
  BY WebInvariance, PTL DEF WebIInv

\* A redirect ends in `Method Not Allowed' only if it leads back to a page that
\* answers a form at an address without GET.
THEOREM RedirectsEnd == WebSpec => RedirectsArrive
<1>1. ASSUME WebIInv, [WebNext]_webVars, location # Absent, location' = Absent, shown'.status = 405
      PROVE  /\ shown.method = "POST" /\ shown.status \in {200, 400}
             /\ location = shown.route /\ "GET" \notin Methods[shown.route]
  <2>1. PICK r \in Admin : location = r /\ GetAdmin(r)
    BY <1>1 DEF WebNext, Visit, Submit, Destinations, language_switch, SignIn, OtherClient, webVars,
                browserVars, WebIInv, RedirectKnown, Absent
  <2>2. CASE r = "change"
    BY <1>1, <2>1, <2>2, RoutesKnown DEF WebIInv, RedirectKnown
  <2>3. CASE r # "change"
    <3>1. PICK status \in {200, 401} \cup Failed : Shows(r, "GET", status)
      BY <1>1, <2>1, <2>3, RoutesKnown DEF GetAdmin, Absent
    <3> QED
      BY <1>1, <3>1 DEF Shows, Failed
  <2> QED
    BY <2>2, <2>3
<1>2. WebIInv /\ [WebNext]_webVars =>
        [location # Absent /\ location' = Absent /\ shown'.status = 405 =>
           /\ shown.method = "POST" /\ shown.status \in {200, 400}
           /\ location = shown.route /\ "GET" \notin Methods[shown.route]]_webVars
  BY <1>1
<1> QED
  BY <1>2, WebInvariance, PTL DEF WebSpec, RedirectsArrive

-----------------------------------------------------------------------------
(* Years and weeks *)

LEMMA YearLength ==
  ASSUME NEW y \in Nat \ {0}
  PROVE  NewYear(y) \in Int /\ NewYear(y + 1) - NewYear(y) \in {365, 366}
<1> DEFINE n == y - 1
<1>1. n \in Nat /\ (y + 1) - 1 = n + 1
  OBVIOUS
<1>2. /\ n \div 4 \in Int /\ n \div 100 \in Int /\ n \div 400 \in Int
      /\ (n + 1) \div 4 \in Int /\ (n + 1) \div 100 \in Int /\ (n + 1) \div 400 \in Int
  BY <1>1
<1>3. /\ (n + 1) \div 4 - n \div 4 \in {0, 1}
      /\ (n + 1) \div 100 - n \div 100 \in {0, 1}
      /\ (n + 1) \div 400 - n \div 400 \in {0, 1}
  BY <1>1
<1>4. /\ (n + 1) \div 100 # n \div 100 => (n + 1) \div 4 # n \div 4
      /\ (n + 1) \div 400 # n \div 400 => (n + 1) \div 100 # n \div 100
  BY <1>1
<1> HIDE DEF n
<1>5. /\ NewYear(y) = 365 * n + n \div 4 - n \div 100 + n \div 400 + 1
      /\ NewYear(y + 1) = 365 * (n + 1) + (n + 1) \div 4 - (n + 1) \div 100 + (n + 1) \div 400 + 1
  BY <1>1 DEF NewYear, n
<1> QED
  BY <1>1, <1>2, <1>3, <1>4, <1>5

LEMMA YearsGrow ==
  ASSUME NEW y \in Nat \ {0}, NEW z \in Nat \ {0}, y < z
  PROVE  NewYear(z) - NewYear(y) >= 365
<1> DEFINE m == y - 1
           n == z - 1
<1>1. m \in Nat /\ n \in Nat /\ m < n
  OBVIOUS
<1>2. /\ n \div 4 - m \div 4 \in Nat /\ n \div 400 - m \div 400 \in Nat
      /\ n \div 100 \in Int /\ m \div 100 \in Int
      /\ n \div 4 \in Int /\ m \div 4 \in Int /\ n \div 400 \in Int /\ m \div 400 \in Int
  BY <1>1
<1>3. n \div 100 - m \div 100 <= n \div 4 - m \div 4
  BY <1>1
<1> HIDE DEF m, n
<1>4. /\ NewYear(y) = 365 * m + m \div 4 - m \div 100 + m \div 400 + 1
      /\ NewYear(z) = 365 * n + n \div 4 - n \div 100 + n \div 400 + 1
  BY DEF NewYear, m, n
<1> QED
  BY <1>1, <1>2, <1>3, <1>4

LEMMA Mondays ==
  ASSUME NEW d \in Int
  PROVE  /\ Weekday(d) \in 0..6 /\ MondayOf(d) \in d - 6..d
         /\ Weekday(MondayOf(d)) = 0
  BY DEF Weekday, MondayOf

LEMMA WholeWeeks ==
  ASSUME NEW c \in Int, NEW d \in Int, Weekday(c) = Weekday(d)
  PROVE  (d - c) % 7 = 0
  BY DEF Weekday

LEMMA IsoYears ==
  ASSUME NEW y \in Nat \ {0}
  PROVE  /\ IsoNewYear(y) \in Int /\ Weekday(IsoNewYear(y)) = 0
         /\ IsoNewYear(y) \in NewYear(y) - 3..NewYear(y) + 3
         /\ IsoNewYear(y + 1) - IsoNewYear(y) \in {364, 371}
<1>1. /\ NewYear(y) \in Int /\ NewYear(y + 1) \in Int
      /\ NewYear(y + 1) - NewYear(y) \in {365, 366}
  BY YearLength
<1>2. /\ IsoNewYear(y) \in NewYear(y) - 3..NewYear(y) + 3
      /\ IsoNewYear(y + 1) \in NewYear(y + 1) - 3..NewYear(y + 1) + 3
      /\ Weekday(IsoNewYear(y)) = 0 /\ Weekday(IsoNewYear(y + 1)) = 0
  BY <1>1, Mondays DEF IsoNewYear
<1>3. (IsoNewYear(y + 1) - IsoNewYear(y)) % 7 = 0
  BY <1>1, <1>2, WholeWeeks
<1>4. IsoNewYear(y + 1) - IsoNewYear(y) \in 359..372
  BY <1>1, <1>2
<1> QED
  BY <1>1, <1>2, <1>3, <1>4

LEMMA IsoYearsGrow ==
  ASSUME NEW y \in Nat \ {0}, NEW z \in Nat \ {0}, y < z
  PROVE  IsoNewYear(z) - IsoNewYear(y) >= 364
<1>1. /\ NewYear(y) \in Int /\ NewYear(z) \in Int /\ NewYear(z) - NewYear(y) >= 365
  BY YearLength, YearsGrow
<1>2. /\ IsoNewYear(y) \in NewYear(y) - 3..NewYear(y) + 3
      /\ IsoNewYear(z) \in NewYear(z) - 3..NewYear(z) + 3
      /\ Weekday(IsoNewYear(y)) = 0 /\ Weekday(IsoNewYear(z)) = 0
  BY IsoYears
<1>3. (IsoNewYear(z) - IsoNewYear(y)) % 7 = 0
  BY <1>1, <1>2, WholeWeeks
<1> QED
  BY <1>1, <1>2, <1>3

-----------------------------------------------------------------------------
(* The weeks of an ISO year *)

WeeksIn(y) == (IsoNewYear(y + 1) - IsoNewYear(y)) \div 7

WeekOf(y, i) == [year |-> y, iso_week |-> i, start |-> IsoNewYear(y) + 7 * (i - 1)]

WeekRow == [year : Int, iso_week : Int, start : Int]

LEMMA Weeks ==
  ASSUME NEW y \in Nat \ {0}
  PROVE  /\ WeeksIn(y) \in {52, 53} /\ IsoNewYear(y + 1) = IsoNewYear(y) + 7 * WeeksIn(y)
         /\ schedule_for_year(y) = [i \in 1..WeeksIn(y) |-> WeekOf(y, i)]
         /\ schedule_for_year(y) \in Seq(WeekRow) /\ Len(schedule_for_year(y)) = WeeksIn(y)
         /\ \A i \in 1..WeeksIn(y) : schedule_for_year(y)[i] = WeekOf(y, i)
<1>1. /\ IsoNewYear(y) \in Int /\ IsoNewYear(y + 1) \in Int
      /\ IsoNewYear(y + 1) - IsoNewYear(y) \in {364, 371}
  BY IsoYears
<1>2. WeeksIn(y) \in {52, 53} /\ IsoNewYear(y + 1) = IsoNewYear(y) + 7 * WeeksIn(y)
  BY <1>1 DEF WeeksIn
<1>3. schedule_for_year(y) = [i \in 1..WeeksIn(y) |-> WeekOf(y, i)]
  BY DEF schedule_for_year, WeeksIn, WeekOf
<1>4. \A i \in 1..WeeksIn(y) : WeekOf(y, i) \in WeekRow
  BY <1>1, <1>2 DEF WeekOf, WeekRow
<1> HIDE DEF WeeksIn, WeekOf, WeekRow
<1> QED
  BY <1>2, <1>3, <1>4

LEMMA WeekSet ==
  ASSUME NEW y \in Nat \ {0}
  PROVE  \A w : w \in ToSet(schedule_for_year(y)) <=> \E i \in 1..WeeksIn(y) : w = WeekOf(y, i)
<1>1. schedule_for_year(y) = [i \in 1..WeeksIn(y) |-> WeekOf(y, i)]
  BY Weeks
<1>2. ToSet(schedule_for_year(y)) = {WeekOf(y, i) : i \in 1..WeeksIn(y)}
  BY <1>1, Zenon DEF ToSet
<1> QED
  BY <1>2

LEMMA WeekDays ==
  ASSUME NEW y \in Nat \ {0}, NEW i \in 1..WeeksIn(y)
  PROVE  /\ WeekOf(y, i).start \in Int /\ End(WeekOf(y, i)) = WeekOf(y, i).start + 6
         /\ IsoNewYear(y) <= WeekOf(y, i).start /\ End(WeekOf(y, i)) < IsoNewYear(y + 1)
<1>1. /\ IsoNewYear(y) \in Int /\ WeeksIn(y) \in Nat /\ i \in Int
      /\ IsoNewYear(y + 1) = IsoNewYear(y) + 7 * WeeksIn(y)
  BY Weeks, IsoYears
<1>2. /\ WeekOf(y, i).start = IsoNewYear(y) + 7 * (i - 1)
      /\ End(WeekOf(y, i)) = WeekOf(y, i).start + 6
  BY DEF WeekOf, End
<1>3. i - 1 \in Nat /\ i <= WeeksIn(y)
  BY <1>1
<1> HIDE DEF WeekOf, End
<1> QED
  BY <1>1, <1>2, <1>3

LEMMA OnlyCurrentWeek ==
  ASSUME NEW y \in Nat \ {0}, NEW d \in Int, IsoNewYear(y) <= d, d < IsoNewYear(y + 1)
  PROVE  \E i \in 1..WeeksIn(y) :
           /\ is_current(WeekOf(y, i), d)
           /\ i = 1 + (d - IsoNewYear(y)) \div 7
<1> DEFINE k == (d - IsoNewYear(y)) \div 7
<1>1. /\ IsoNewYear(y) \in Int /\ WeeksIn(y) \in Nat
      /\ IsoNewYear(y + 1) = IsoNewYear(y) + 7 * WeeksIn(y)
  BY Weeks, IsoYears
<1>2. k \in Nat /\ 7 * k <= d - IsoNewYear(y) /\ d - IsoNewYear(y) <= 7 * k + 6
  BY <1>1
<1> HIDE DEF k
<1>3. 1 + k \in 1..WeeksIn(y)
  BY <1>1, <1>2
<1>4. is_current(WeekOf(y, 1 + k), d)
  BY <1>1, <1>2 DEF is_current, WeekOf, End
<1> QED
  BY <1>3, <1>4 DEF k

\* The days of the calendar year y, and the one after.
LEMMA IsoYearOf ==
  ASSUME NEW y \in Nat \ {0, 1}, NEW d \in NewYear(y)..NewYear(y + 1)
  PROVE  /\ IsoYear(d, y) \in y - 1..y + 1 /\ IsoYear(d, y) \in Nat \ {0}
         /\ IsoNewYear(IsoYear(d, y)) <= d /\ d < IsoNewYear(IsoYear(d, y) + 1)
<1>0. y \in Nat \ {0} /\ y - 1 \in Nat \ {0} /\ y + 1 \in Nat \ {0} /\ y + 2 \in Nat \ {0}
      /\ (y - 1) + 1 = y /\ (y + 1) + 1 = y + 2
  OBVIOUS
<1>1. /\ NewYear(y - 1) \in Int /\ NewYear(y) \in Int /\ NewYear(y + 1) \in Int /\ NewYear(y + 2) \in Int
      /\ NewYear(y) - NewYear(y - 1) >= 365 /\ NewYear(y + 2) - NewYear(y + 1) >= 365
  BY <1>0, YearLength
<1>2. /\ IsoNewYear(y - 1) \in Int /\ IsoNewYear(y - 1) <= NewYear(y - 1) + 3
      /\ IsoNewYear(y) \in Int /\ IsoNewYear(y + 1) \in Int
      /\ IsoNewYear(y + 2) \in Int /\ NewYear(y + 2) - 3 <= IsoNewYear(y + 2)
  BY <1>0, <1>1, IsoYears
<1>3. d \in Int /\ IsoNewYear(y - 1) <= d /\ d < IsoNewYear(y + 2)
  BY <1>1, <1>2
<1>4. \E i \in y - 1..y + 1 : IsoNewYear(i) <= d /\ d < IsoNewYear(i + 1)
  <2>1. CASE d < IsoNewYear(y)
    BY <1>0, <1>3, <2>1
  <2>2. CASE IsoNewYear(y) <= d /\ d < IsoNewYear(y + 1)
    BY <2>2
  <2>3. CASE IsoNewYear(y + 1) <= d
    BY <1>0, <1>3, <2>3
  <2> QED
    BY <1>2, <1>3, <2>1, <2>2, <2>3
<1>5. /\ IsoYear(d, y) \in y - 1..y + 1
      /\ IsoNewYear(IsoYear(d, y)) <= d /\ d < IsoNewYear(IsoYear(d, y) + 1)
  BY <1>4 DEF IsoYear
<1> QED
  BY <1>0, <1>5

LEMMA OneIsoYear ==
  ASSUME NEW i \in Nat \ {0}, NEW j \in Nat \ {0}, NEW d \in Int,
         IsoNewYear(i) <= d, d < IsoNewYear(i + 1), IsoNewYear(j) <= d, d < IsoNewYear(j + 1)
  PROVE  i = j
<1>1. /\ IsoNewYear(i) \in Int /\ IsoNewYear(i + 1) \in Int
      /\ IsoNewYear(j) \in Int /\ IsoNewYear(j + 1) \in Int
  BY IsoYears
<1>2. ~ i < j
  <2>1. CASE i + 1 = j
    BY <1>1, <2>1
  <2>2. CASE i + 1 < j
    BY <1>1, <2>2, IsoYearsGrow
  <2> QED
    BY <2>1, <2>2
<1>3. ~ j < i
  <2>1. CASE j + 1 = i
    BY <1>1, <2>1
  <2>2. CASE j + 1 < i
    BY <1>1, <2>2, IsoYearsGrow
  <2> QED
    BY <2>1, <2>2
<1> QED
  BY <1>2, <1>3

-----------------------------------------------------------------------------
(* The clock *)

ClockInv ==
  /\ year \in FirstYear..LastYear
  /\ day \in NewYear(year)..NewYear(year + 1) - 1
  /\ polled \in {0} \cup FirstYear..year

LEMMA YearsAre == \A y \in FirstYear..LastYear : y \in Nat \ {0, 1}
  BY CalendarYears

LEMMA ClockStarts == CalendarInit => ClockInv
<1> SUFFICES ASSUME CalendarInit PROVE ClockInv
  OBVIOUS
<1>1. year \in FirstYear..LastYear /\ year \in Nat \ {0}
  BY CalendarYears DEF CalendarInit
<1>2. NewYear(year) \in Int /\ NewYear(year + 1) - NewYear(year) \in {365, 366}
  BY <1>1, YearLength
<1>3. NewYear(year + 1) \in Int
  BY <1>1, YearLength
<1> QED
  BY <1>1, <1>2, <1>3 DEF CalendarInit, ClockInv

LEMMA ClockKept == ClockInv /\ [CalendarNext]_calendarVars => ClockInv'
<1> SUFFICES ASSUME ClockInv, [CalendarNext]_calendarVars PROVE ClockInv'
  OBVIOUS
<1>0. year \in Nat \ {0} /\ year + 1 \in Nat \ {0}
  BY YearsAre DEF ClockInv
<1>1. /\ NewYear(year) \in Int /\ NewYear(year + 1) \in Int /\ NewYear(year + 2) \in Int
      /\ NewYear(year + 2) - NewYear(year + 1) \in {365, 366} /\ (year + 1) + 1 = year + 2
  BY <1>0, YearLength
<1>2. CASE Midnight
  <2>1. CASE day + 1 = NewYear(year + 1)
    BY <1>0, <1>1, <1>2, <2>1, CalendarYears DEF Midnight, ClockInv
  <2>2. CASE day + 1 # NewYear(year + 1)
    BY <1>0, <1>1, <1>2, <2>2, CalendarYears DEF Midnight, ClockInv
  <2> QED
    BY <2>1, <2>2
<1>3. CASE Poll
  BY <1>0, <1>3, CalendarYears DEF Poll, ClockInv
<1>4. CASE UNCHANGED calendarVars
  BY <1>4 DEF calendarVars, ClockInv
<1> QED
  BY <1>2, <1>3, <1>4 DEF CalendarNext

LEMMA ClockInvariance == CalendarSpec => []ClockInv
  BY ClockStarts, ClockKept, PTL DEF CalendarSpec

-----------------------------------------------------------------------------
(* The page *)

LEMMA RowsMarked == ClockInv => PageMarksThisWeek
<1> SUFFICES ASSUME ClockInv PROVE PageMarksThisWeek
  OBVIOUS
<1>0. year \in Nat \ {0, 1} /\ year \in Nat \ {0}
  BY YearsAre DEF ClockInv
<1>1. /\ NewYear(year) \in Int /\ NewYear(year + 1) \in Int
      /\ IsoNewYear(year) \in Int /\ IsoNewYear(year + 1) \in Int
  BY <1>0, YearLength, IsoYears
<1> SUFFICES ASSUME NEW today \in {day, day + 1}
             PROVE  LET rows == PageRows(year, today)
                        marked == {w \in rows : is_current(w, today)}
                    IN IF IsoYear(today, year) = year
                         THEN \E w \in rows : marked = {w} /\ \A v \in rows : w.start <= v.start
                         ELSE marked = {}
  BY DEF PageMarksThisWeek
<1>2. today \in NewYear(year)..NewYear(year + 1) /\ today \in Int
  BY <1>1 DEF ClockInv
<1> DEFINE rows == PageRows(year, today)
           marked == {w \in rows : is_current(w, today)}
           rest == {w \in ToSet(schedule_for_year(year)) : Remaining(w, today)}
<1>3. rows = {w \in rest : Cardinality({v \in rest : v.start < w.start}) < 12}
  BY DEF PageRows
<1>4. \A w \in rest : \E i \in 1..WeeksIn(year) : w = WeekOf(year, i)
  BY <1>0, WeekSet
<1>5. /\ IsoYear(today, year) \in Nat \ {0}
      /\ IsoNewYear(IsoYear(today, year)) <= today /\ today < IsoNewYear(IsoYear(today, year) + 1)
  BY <1>0, <1>2, IsoYearOf
<1>6. CASE IsoYear(today, year) = year
  <2>1. PICK i \in 1..WeeksIn(year) :
          is_current(WeekOf(year, i), today) /\ i = 1 + (today - IsoNewYear(year)) \div 7
    BY <1>0, <1>2, <1>5, <1>6, OnlyCurrentWeek
  <2> DEFINE w == WeekOf(year, i)
  <2>2. WeeksIn(year) \in Nat
    BY <1>0, Weeks
  <2>3. w \in rest
    BY <1>0, <2>1, WeekSet DEF Remaining, is_current
  <2>4. \A v \in rest : w.start <= v.start /\ (is_current(v, today) => v = w)
    <3> SUFFICES ASSUME NEW j \in 1..WeeksIn(year), Remaining(WeekOf(year, j), today)
                 PROVE  /\ w.start <= WeekOf(year, j).start
                        /\ is_current(WeekOf(year, j), today) => j = i
      BY <1>4
    <3>1. i \in Int /\ j \in Int
      BY <2>2
    <3> QED
      BY <1>1, <1>2, <2>1, <3>1 DEF Remaining, is_current, WeekOf, End
  <2>5. {v \in rest : v.start < w.start} = {}
    <3>1. \A v \in rest : v.start \in Int /\ w.start \in Int
      BY <1>0, <1>4, WeekDays
    <3> HIDE DEF rest, w
    <3> QED
      BY <2>4, <3>1
  <2>6. w \in rows
    BY <1>3, <2>3, <2>5, FS_EmptySet
  <2>7. marked = {w}
    BY <1>3, <2>1, <2>4, <2>6
  <2> HIDE DEF rows, w, rest
  <2> QED
    BY <1>3, <1>6, <2>4, <2>6, <2>7 DEF rows
<1>7. CASE IsoYear(today, year) # year
  <2>1. ASSUME NEW w \in rows, is_current(w, today) PROVE FALSE
    <3>1. PICK i \in 1..WeeksIn(year) : w = WeekOf(year, i)
      BY <1>3, <1>4
    <3>2. IsoNewYear(year) <= today /\ today < IsoNewYear(year + 1)
      BY <1>0, <1>1, <1>2, <2>1, <3>1, WeekDays DEF is_current
    <3> QED
      BY <1>0, <1>2, <1>5, <1>7, <3>2, OneIsoYear
  <2> QED
    BY <1>7, <2>1
<1> QED
  BY <1>6, <1>7

\* In every year and on every day the page marks the week of that day and nothing
\* before it, also when midnight passes while it is made; around New Year, when the
\* week is of another ISO year, nothing is marked.
THEOREM PageMarks == CalendarSpec => []PageMarksThisWeek
  BY ClockInvariance, RowsMarked, PTL

-----------------------------------------------------------------------------
(* The columns of the PDF *)

\* The rows of a column that begins k weeks after the first of the year y.
Consecutive(c, y, k) ==
  /\ c \in Seq(WeekRow)
  /\ \A i \in 1..Len(c) : c[i].start = IsoNewYear(y) + 7 * (k + i - 1)

LEMMA Joined ==
  ASSUME NEW S, NEW c \in Seq(S), NEW d \in Seq(S)
  PROVE  /\ c \o d \in Seq(S) /\ Len(c \o d) = Len(c) + Len(d)
         /\ \A i \in 1..Len(c) : (c \o d)[i] = c[i]
         /\ \A i \in 1..Len(d) : (c \o d)[Len(c) + i] = d[i]
         /\ ToSet(c \o d) = ToSet(c) \cup ToSet(d)
<1>1. c \o d \in Seq(S) /\ Len(c \o d) = Len(c) + Len(d) /\ Len(c) \in Nat /\ Len(d) \in Nat
  OBVIOUS
<1>2. \A i \in 1..Len(c) : (c \o d)[i] = c[i] /\ i \in 1..Len(c \o d)
  BY <1>1
<1>3. \A i \in 1..Len(d) : (c \o d)[Len(c) + i] = d[i] /\ Len(c) + i \in 1..Len(c \o d)
  BY <1>1
<1>4. DOMAIN c = 1..Len(c) /\ DOMAIN d = 1..Len(d) /\ DOMAIN (c \o d) = 1..Len(c \o d)
  BY <1>1
<1>5. \A i \in 1..Len(c \o d) : i \in 1..Len(c) \/ (i - Len(c) \in 1..Len(d) /\ i = Len(c) + (i - Len(c)))
  BY <1>1
<1>6. ToSet(c \o d) = ToSet(c) \cup ToSet(d)
  <2>1. ASSUME NEW x \in ToSet(c \o d) PROVE x \in ToSet(c) \cup ToSet(d)
    <3>1. PICK i \in 1..Len(c \o d) : x = (c \o d)[i]
      BY <1>4 DEF ToSet
    <3>2. CASE i \in 1..Len(c)
      BY <1>2, <1>4, <3>1, <3>2 DEF ToSet
    <3>3. CASE i - Len(c) \in 1..Len(d) /\ i = Len(c) + (i - Len(c))
      <4>1. x = d[i - Len(c)]
        BY <1>3, <3>1, <3>3
      <4> QED
        BY <1>4, <3>3, <4>1 DEF ToSet
    <3> QED
      BY <1>5, <3>2, <3>3
  <2>2. ToSet(c) \subseteq ToSet(c \o d)
    BY <1>2, <1>4 DEF ToSet
  <2>3. ToSet(d) \subseteq ToSet(c \o d)
    BY <1>3, <1>4 DEF ToSet
  <2> QED
    BY <2>1, <2>2, <2>3
<1> QED
  BY <1>1, <1>2, <1>3, <1>6

LEMMA Part ==
  ASSUME NEW S, NEW s \in Seq(S), NEW m \in 1..Len(s), NEW n \in 1..Len(s), m <= n + 1
  PROVE  /\ SubSeq(s, m, n) \in Seq(S) /\ Len(SubSeq(s, m, n)) = n - m + 1
         /\ \A i \in 1..n - m + 1 : SubSeq(s, m, n)[i] = s[m + i - 1]
  OBVIOUS

LEMMA TwoParts ==
  ASSUME NEW S, NEW s \in Seq(S), NEW m \in 1..Len(s) - 1
  PROVE  ToSet(s) = ToSet(SubSeq(s, 1, m)) \cup ToSet(SubSeq(s, m + 1, Len(s)))
<1> DEFINE c == SubSeq(s, 1, m)
           d == SubSeq(s, m + 1, Len(s))
<1>1. /\ c \in Seq(S) /\ Len(c) = m /\ \A i \in 1..m : c[i] = s[i]
      /\ d \in Seq(S) /\ Len(d) = Len(s) - m /\ \A i \in 1..Len(s) - m : d[i] = s[m + i]
  BY Part
<1> HIDE DEF c, d
<1>2. c \o d = s
  <2>1. /\ c \o d \in Seq(S) /\ Len(c \o d) = Len(s)
        /\ \A i \in 1..Len(s) : (c \o d)[i] = s[i]
    <3>1. /\ c \o d \in Seq(S) /\ Len(c \o d) = Len(c) + Len(d) /\ Len(s) \in Nat
          /\ \A i \in 1..Len(c) : (c \o d)[i] = c[i]
          /\ \A i \in 1..Len(d) : (c \o d)[Len(c) + i] = d[i]
      <4>1. c \in Seq(S) /\ d \in Seq(S)
        BY <1>1
      <4> QED
        BY <4>1, Joined
    <3>2. ASSUME NEW i \in 1..Len(s) PROVE (c \o d)[i] = s[i]
      <4>1. CASE i <= m
        BY <1>1, <3>1, <4>1
      <4>2. CASE i > m
        <5>1. i - m \in 1..Len(d) /\ m + (i - m) = i /\ Len(d) = Len(s) - m
          BY <1>1, <4>2
        <5>2. (c \o d)[Len(c) + (i - m)] = d[i - m] /\ d[i - m] = s[m + (i - m)]
          BY <1>1, <3>1, <5>1
        <5> QED
          BY <1>1, <5>1, <5>2
      <4> QED
        BY <1>1, <3>1, <4>1, <4>2
    <3> QED
      BY <1>1, <3>1, <3>2
  <2> QED
    BY <2>1, SeqEqual
<1> QED
  BY <1>1, <1>2, Joined DEF c, d

LEMMA ColumnsJoin ==
  ASSUME NEW y, NEW k \in Int, NEW c, NEW d,
         Consecutive(c, y, k), Consecutive(d, y, k + Len(c))
  PROVE  Consecutive(c \o d, y, k) /\ Len(c \o d) = Len(c) + Len(d)
<1>1. /\ c \in Seq(WeekRow) /\ d \in Seq(WeekRow) /\ Len(c) \in Nat /\ Len(d) \in Nat
      /\ c \o d \in Seq(WeekRow) /\ Len(c \o d) = Len(c) + Len(d)
  BY DEF Consecutive
<1>2. ASSUME NEW i \in 1..Len(c \o d) PROVE (c \o d)[i].start = IsoNewYear(y) + 7 * (k + i - 1)
  <2>1. CASE i <= Len(c)
    <3>1. (c \o d)[i] = c[i] /\ i \in 1..Len(c)
      BY <1>1, <2>1
    <3> QED
      BY <3>1 DEF Consecutive
  <2>2. CASE i > Len(c)
    <3>1. (c \o d)[i] = d[i - Len(c)] /\ i - Len(c) \in 1..Len(d)
      BY <1>1, <2>2
    <3>2. d[i - Len(c)].start = IsoNewYear(y) + 7 * ((k + Len(c)) + (i - Len(c)) - 1)
      BY <3>1 DEF Consecutive
    <3>3. (k + Len(c)) + (i - Len(c)) - 1 = k + i - 1
      BY <1>1
    <3> QED
      BY <3>1, <3>2, <3>3
  <2> QED
    BY <1>1, <2>1, <2>2
<1> QED
  BY <1>1, <1>2 DEF Consecutive

LEMMA PartOfYear ==
  ASSUME NEW y \in Nat \ {0}, NEW m \in 1..WeeksIn(y), NEW n \in 1..WeeksIn(y), m <= n
  PROVE  LET part == SubSeq(schedule_for_year(y), m, n)
         IN Consecutive(part, y, m - 1) /\ Len(part) = n - m + 1
<1> DEFINE s == schedule_for_year(y)
           part == SubSeq(s, m, n)
<1>1. /\ WeeksIn(y) \in Nat /\ s \in Seq(WeekRow) /\ Len(s) = WeeksIn(y)
      /\ \A i \in 1..WeeksIn(y) : s[i] = WeekOf(y, i)
  BY Weeks
<1> HIDE DEF s
<1>2. part \in Seq(WeekRow) /\ Len(part) = n - m + 1
  BY <1>1
<1>3. ASSUME NEW i \in 1..Len(part) PROVE part[i].start = IsoNewYear(y) + 7 * ((m - 1) + i - 1)
  <2>1. part[i] = s[m + i - 1] /\ m + i - 1 \in 1..WeeksIn(y)
    BY <1>1, <1>2
  <2>2. part[i].start = IsoNewYear(y) + 7 * ((m + i - 1) - 1)
    BY <1>1, <2>1 DEF WeekOf
  <2>3. (m + i - 1) - 1 = (m - 1) + i - 1
    BY <1>1, <1>2
  <2> QED
    BY <2>2, <2>3
<1> QED
  BY <1>2, <1>3 DEF Consecutive, s

LEMMA ConsecutiveRows ==
  ASSUME NEW y, NEW k \in Int, IsoNewYear(y) \in Int, NEW c, Consecutive(c, y, k)
  PROVE  \A i \in 1..Len(c) - 1 : c[i + 1].start = c[i].start + 7
<1>1. Len(c) \in Nat
  BY DEF Consecutive
<1> TAKE i \in 1..Len(c) - 1
<1>2. i \in 1..Len(c) /\ i + 1 \in 1..Len(c)
  BY <1>1
<1>3. /\ c[i].start = IsoNewYear(y) + 7 * (k + i - 1)
      /\ c[i + 1].start = IsoNewYear(y) + 7 * (k + (i + 1) - 1)
  BY <1>2 DEF Consecutive
<1> QED
  BY <1>2, <1>3

LEMMA ColumnsOf ==
  ASSUME NEW y \in Nat \ {0, 1}
  PROVE  LET left == balanced_columns(y)[1]
             right == balanced_columns(y)[2]
             rows == left \o right
         IN /\ Len(left) = Len(right)
            /\ \A i \in 1..Len(rows) - 1 : rows[i + 1].start = rows[i].start + 7
            /\ ToSet(schedule_for_year(y)) \subseteq ToSet(rows)
<1> DEFINE current == schedule_for_year(y)
           prev == schedule_for_year(y - 1)
           next == schedule_for_year(y + 1)
           n == WeeksIn(y)
<1>0. /\ y \in Nat \ {0} /\ y - 1 \in Nat \ {0} /\ y + 1 \in Nat \ {0} /\ (y - 1) + 1 = y
      /\ n \in {52, 53} /\ IsoNewYear(y) \in Int
  BY Weeks, IsoYears
<1>1. current \in Seq(WeekRow) /\ Len(current) = n
  BY <1>0, Weeks
<1>2. CASE n = 52
  <2> DEFINE left == SubSeq(current, 1, 26)
             right == SubSeq(current, 27, 52)
  <2>1. balanced_columns(y) = <<left, right>>
    <3>1. n % 2 = 0 /\ n \div 2 = 26 /\ n \div 2 + 1 = 27
      BY <1>2
    <3> HIDE DEF n
    <3> QED
      BY <1>1, <1>2, <3>1 DEF balanced_columns
  <2>2. Consecutive(left, y, 1 - 1) /\ Len(left) = 26 - 1 + 1
    BY <1>0, <1>2, PartOfYear
  <2>3. Consecutive(right, y, 27 - 1) /\ Len(right) = 52 - 27 + 1
    BY <1>0, <1>2, PartOfYear
  <2>4. ToSet(current) = ToSet(left) \cup ToSet(right)
    <3>1. 26 \in 1..Len(current) - 1 /\ 26 + 1 = 27 /\ Len(current) = 52
      BY <1>1, <1>2
    <3> HIDE DEF n, current
    <3>2. ToSet(current) = ToSet(SubSeq(current, 1, 26)) \cup ToSet(SubSeq(current, 26 + 1, Len(current)))
      BY <1>1, <3>1, TwoParts
    <3> QED
      BY <3>1, <3>2
  <2> HIDE DEF left, right
  <2>5. ToSet(left \o right) = ToSet(left) \cup ToSet(right)
    <3>1. left \in Seq(WeekRow) /\ right \in Seq(WeekRow)
      BY <2>2, <2>3 DEF Consecutive
    <3> QED
      BY <3>1, Joined
  <2>6. Len(left) = 26 /\ Len(right) = 26
    BY <2>2, <2>3
  <2>7. Consecutive(left \o right, y, 1 - 1)
    <3>1. (1 - 1) + Len(left) = 27 - 1 /\ 1 - 1 \in Int
      BY <2>6
    <3>2. Consecutive(right, y, (1 - 1) + Len(left))
      BY <2>3, <3>1, Zenon
    <3> QED
      BY <2>2, <3>1, <3>2, ColumnsJoin, Zenon
  <2>8. \A i \in 1..Len(left \o right) - 1 : (left \o right)[i + 1].start = (left \o right)[i].start + 7
    <3> DEFINE rows == left \o right
               k == 1 - 1
    <3>1. Consecutive(rows, y, k) /\ k \in Int /\ IsoNewYear(y) \in Int
      BY <1>0, <2>7
    <3> HIDE DEF rows, k
    <3>2. \A i \in 1..Len(rows) - 1 : rows[i + 1].start = rows[i].start + 7
      BY <3>1, ConsecutiveRows
    <3> QED
      BY <3>2 DEF rows
  <2>9. balanced_columns(y)[1] = left /\ balanced_columns(y)[2] = right
    BY <2>1
  <2> QED
    BY <2>4, <2>5, <2>6, <2>8, <2>9
<1>3. CASE n = 53
  <2> DEFINE first == <<prev[Len(prev)]>>
             upper == SubSeq(current, 1, 27)
             lower == SubSeq(current, 28, 53)
             last == SubSeq(next, 1, 2)
             left == first \o upper
             right == lower \o last
  <2>1. balanced_columns(y) = <<left, right>>
    <3>1. n % 2 # 0 /\ (n + 3) \div 2 = 28 /\ 28 - 1 = 27
      BY <1>3
    <3> HIDE DEF n, current, prev, next
    <3> QED
      BY <1>1, <1>3, <3>1 DEF balanced_columns, current, prev, next
  <2>2. Consecutive(first, y, 0 - 1) /\ Len(first) = 1
    <3>1. /\ WeeksIn(y - 1) \in {52, 53} /\ IsoNewYear(y) = IsoNewYear(y - 1) + 7 * WeeksIn(y - 1)
          /\ IsoNewYear(y - 1) \in Int /\ prev \in Seq(WeekRow) /\ Len(prev) = WeeksIn(y - 1)
          /\ \A i \in 1..WeeksIn(y - 1) : prev[i] = WeekOf(y - 1, i)
      <4>1. y - 1 \in Nat \ {0} /\ (y - 1) + 1 = y
        BY <1>0
      <4> DEFINE x == y - 1
      <4> HIDE DEF x
      <4>2. /\ WeeksIn(x) \in {52, 53} /\ IsoNewYear(x + 1) = IsoNewYear(x) + 7 * WeeksIn(x)
            /\ IsoNewYear(x) \in Int
            /\ schedule_for_year(x) \in Seq(WeekRow) /\ Len(schedule_for_year(x)) = WeeksIn(x)
            /\ \A i \in 1..WeeksIn(x) : schedule_for_year(x)[i] = WeekOf(x, i)
        BY <4>1, Weeks, IsoYears DEF x
      <4> QED
        BY <4>1, <4>2 DEF x
    <3>2. prev[Len(prev)] = WeekOf(y - 1, WeeksIn(y - 1)) /\ prev[Len(prev)] \in WeekRow
      BY <3>1
    <3>3. prev[Len(prev)].start = IsoNewYear(y) - 7
      BY <3>1, <3>2 DEF WeekOf
    <3> HIDE DEF prev
    <3>4. first \in Seq(WeekRow) /\ Len(first) = 1 /\ first[1] = prev[Len(prev)]
      BY <3>2
    <3> HIDE DEF first
    <3>5. \A i \in 1..Len(first) : first[i].start = IsoNewYear(y) + 7 * ((0 - 1) + i - 1)
      <4>1. \A i \in 1..1 : i = 1
        OBVIOUS
      <4>2. IsoNewYear(y) - 7 = IsoNewYear(y) + 7 * ((0 - 1) + 1 - 1)
        BY <1>0
      <4> QED
        BY <3>3, <3>4, <4>1, <4>2
    <3> QED
      BY <3>4, <3>5 DEF Consecutive
  <2>3. Consecutive(upper, y, 1 - 1) /\ Len(upper) = 27 - 1 + 1
    BY <1>0, <1>3, PartOfYear
  <2>4. Consecutive(lower, y, 28 - 1) /\ Len(lower) = 53 - 28 + 1
    BY <1>0, <1>3, PartOfYear
  <2>5. Consecutive(last, y, 53) /\ Len(last) = 2
    <3>1. WeeksIn(y + 1) \in {52, 53} /\ IsoNewYear(y + 1) = IsoNewYear(y) + 7 * 53
      BY <1>0, <1>3, Weeks
    <3>2. Consecutive(last, y + 1, 1 - 1) /\ Len(last) = 2 - 1 + 1
      BY <1>0, <3>1, PartOfYear
    <3> HIDE DEF last
    <3> QED
      BY <1>0, <3>1, <3>2 DEF Consecutive
  <2>6. ToSet(current) = ToSet(upper) \cup ToSet(lower)
    <3>1. 27 \in 1..Len(current) - 1 /\ 27 + 1 = 28 /\ Len(current) = 53
      BY <1>1, <1>3
    <3> HIDE DEF n, current
    <3>2. ToSet(current) = ToSet(SubSeq(current, 1, 27)) \cup ToSet(SubSeq(current, 27 + 1, Len(current)))
      BY <1>1, <3>1, TwoParts
    <3> QED
      BY <3>1, <3>2
  <2> HIDE DEF first, upper, lower, last
  <2>7. /\ Consecutive(left, y, 0 - 1) /\ Len(left) = 28
        /\ ToSet(left) = ToSet(first) \cup ToSet(upper)
    <3>1. (0 - 1) + Len(first) = 1 - 1 /\ 0 - 1 \in Int
      BY <2>2
    <3>2. Consecutive(upper, y, (0 - 1) + Len(first))
      BY <2>3, <3>1, Zenon
    <3>3. Consecutive(left, y, 0 - 1)
      BY <2>2, <3>1, <3>2, ColumnsJoin, Zenon
    <3>4. first \in Seq(WeekRow) /\ upper \in Seq(WeekRow)
      BY <2>2, <2>3 DEF Consecutive
    <3>5. ToSet(left) = ToSet(first) \cup ToSet(upper) /\ Len(left) = Len(first) + Len(upper)
      BY <3>4, Joined
    <3> QED
      BY <2>2, <2>3, <3>3, <3>5
  <2>8. /\ Consecutive(right, y, 28 - 1) /\ Len(right) = 28
        /\ ToSet(right) = ToSet(lower) \cup ToSet(last)
    <3>1. (28 - 1) + Len(lower) = 53 /\ 28 - 1 \in Int
      BY <2>4
    <3>2. Consecutive(last, y, (28 - 1) + Len(lower))
      BY <2>5, <3>1, Zenon
    <3>3. Consecutive(right, y, 28 - 1)
      BY <2>4, <3>1, <3>2, ColumnsJoin, Zenon
    <3>4. lower \in Seq(WeekRow) /\ last \in Seq(WeekRow)
      BY <2>4, <2>5 DEF Consecutive
    <3>5. ToSet(right) = ToSet(lower) \cup ToSet(last) /\ Len(right) = Len(lower) + Len(last)
      BY <3>4, Joined
    <3> QED
      BY <2>4, <2>5, <3>3, <3>5
  <2> HIDE DEF left, right
  <2>9. ToSet(left \o right) = ToSet(left) \cup ToSet(right)
    <3>1. left \in Seq(WeekRow) /\ right \in Seq(WeekRow)
      BY <2>7, <2>8 DEF Consecutive
    <3> QED
      BY <3>1, Joined
  <2>10. Consecutive(left \o right, y, 0 - 1)
    <3>1. (0 - 1) + Len(left) = 28 - 1 /\ 0 - 1 \in Int
      BY <2>7
    <3>2. Consecutive(right, y, (0 - 1) + Len(left))
      BY <2>8, <3>1, Zenon
    <3> QED
      BY <2>7, <3>1, <3>2, ColumnsJoin, Zenon
  <2>11. \A i \in 1..Len(left \o right) - 1 : (left \o right)[i + 1].start = (left \o right)[i].start + 7
    <3> DEFINE rows == left \o right
               k == 0 - 1
    <3>1. Consecutive(rows, y, k) /\ k \in Int /\ IsoNewYear(y) \in Int
      BY <1>0, <2>10
    <3> HIDE DEF rows, k
    <3>2. \A i \in 1..Len(rows) - 1 : rows[i + 1].start = rows[i].start + 7
      BY <3>1, ConsecutiveRows
    <3> QED
      BY <3>2 DEF rows
  <2>12. balanced_columns(y)[1] = left /\ balanced_columns(y)[2] = right
    BY <2>1
  <2> QED
    BY <2>6, <2>7, <2>8, <2>9, <2>11, <2>12
<1> QED
  BY <1>0, <1>2, <1>3

LEMMA ColumnsFit == ClockInv => ColumnsAreConsecutive
<1> SUFFICES ASSUME ClockInv PROVE ColumnsAreConsecutive
  OBVIOUS
<1>1. year \in Nat \ {0, 1}
  BY YearsAre DEF ClockInv
<1> QED
  BY <1>1, ColumnsOf DEF ColumnsAreConsecutive

\* Years of 52 and of 53 weeks: the columns of the PDF are of the same length and run
\* on from week to week, from one year into the next, with no week of the year left out.
THEOREM Columns == CalendarSpec => []ColumnsAreConsecutive
  BY ClockInvariance, ColumnsFit, PTL

-----------------------------------------------------------------------------
(* The feed *)

EventOf(y, i) ==
  [uid   |-> [year |-> y, iso_week |-> i],
   start |-> IsoNewYear(y) + 7 * (i - 1),
   end   |-> IsoNewYear(y) + 7 * (i - 1) + 7]

Years == Nat \ {0}

LEMMA FeedEvents ==
  ASSUME NEW y \in Years
  PROVE  \A e : e \in Feed(y) <=> \E x \in {y, y + 1} : \E i \in 1..WeeksIn(x) : e = EventOf(x, i)
<1>0. y \in Nat \ {0} /\ y + 1 \in Nat \ {0} /\ IsoNewYear(y) \in Int /\ IsoNewYear(y + 1) \in Int
  BY IsoYears DEF Years
<1>1. \A x \in {y, y + 1} : WeeksIn(x) \in Nat
  <2>1. WeeksIn(y) \in {52, 53} /\ WeeksIn(y + 1) \in {52, 53}
    BY <1>0, Weeks
  <2> QED
    BY <2>1
<1> DEFINE Event(w) == [uid |-> uid_for(w), start |-> w.start, end |-> End(w) + 1]
<1>2. ASSUME NEW x \in {y, y + 1}, NEW i \in 1..WeeksIn(x) PROVE Event(WeekOf(x, i)) = EventOf(x, i)
  <2>1. i \in Int /\ IsoNewYear(x) \in Int
    BY <1>0, <1>1
  <2> QED
    BY <2>1 DEF WeekOf, EventOf, uid_for, End
<1>3. \A w : w \in ToSet(schedule_for_year(y)) \cup ToSet(schedule_for_year(y + 1))
               <=> \E x \in {y, y + 1} : \E i \in 1..WeeksIn(x) : w = WeekOf(x, i)
  BY <1>0, WeekSet
<1>4. Feed(y) = {Event(w) : w \in ToSet(schedule_for_year(y)) \cup ToSet(schedule_for_year(y + 1))}
  BY DEF Feed
<1> HIDE DEF Event
<1> QED
  BY <1>2, <1>3, <1>4

LEMMA EventsDiffer ==
  ASSUME NEW x \in Years, NEW y \in Years, NEW i \in 1..WeeksIn(x), NEW j \in 1..WeeksIn(y),
         EventOf(x, i).start = EventOf(y, j).start
  PROVE  x = y /\ i = j
<1>0. x \in Nat \ {0} /\ y \in Nat \ {0}
  BY DEF Years
<1>1. /\ IsoNewYear(x) \in Int /\ IsoNewYear(y) \in Int /\ i \in Int /\ j \in Int
      /\ WeekOf(x, i).start = EventOf(x, i).start /\ WeekOf(y, j).start = EventOf(y, j).start
  BY <1>0, IsoYears, Weeks DEF WeekOf, EventOf
<1>2. /\ WeekOf(x, i).start \in Int
      /\ IsoNewYear(x) <= WeekOf(x, i).start /\ WeekOf(x, i).start < IsoNewYear(x + 1)
  BY <1>0, WeekDays, IsoYears
<1>3. IsoNewYear(y) <= WeekOf(y, j).start /\ WeekOf(y, j).start < IsoNewYear(y + 1)
  BY <1>0, WeekDays, IsoYears
<1>4. x = y
  BY <1>0, <1>1, <1>2, <1>3, OneIsoYear
<1> QED
  BY <1>1, <1>4 DEF EventOf

\* What the calendar application holds are events of weeks, each of them once.
LEMMA SubscribedEvents ==
  ASSUME ClockInv
  PROVE  /\ \A e \in Subscribed : \E x \in 1..year + 1 : \E i \in 1..WeeksIn(x) : e = EventOf(x, i)
         /\ Feed(year) \subseteq Subscribed
<1>1. /\ year \in Years /\ year + 1 \in 1..year + 1 /\ year \in 1..year + 1
      /\ polled # 0 => polled \in Years /\ polled \in 1..year + 1 /\ polled + 1 \in 1..year + 1
  BY CalendarYears DEF ClockInv, Years
<1>2. \A e \in Feed(year) : \E x \in 1..year + 1 : \E i \in 1..WeeksIn(x) : e = EventOf(x, i)
  BY <1>1, FeedEvents
<1>3. polled # 0 =>
        \A e \in Feed(polled) : \E x \in 1..year + 1 : \E i \in 1..WeeksIn(x) : e = EventOf(x, i)
  BY <1>1, FeedEvents
<1> QED
  BY <1>2, <1>3 DEF Subscribed

LEMMA WeeksFed == ClockInv => EveryWeekIsOneEvent
<1> SUFFICES ASSUME ClockInv PROVE EveryWeekIsOneEvent
  OBVIOUS
<1> DEFINE S == Subscribed
           starts == {e.start : e \in S}
           uids == {e.uid : e \in S}
           f == [e \in S |-> e.start]
           g == [e \in S |-> e.uid]
           h == [e \in S |-> <<e.uid.year, e.uid.iso_week>>]
<1>0. year \in Nat \ {0} /\ \A x \in 1..year + 1 : x \in Years /\ x \in Nat \ {0}
  BY CalendarYears DEF ClockInv, Years
<1>1. /\ \A e \in S : \E x \in 1..year + 1 : \E i \in 1..WeeksIn(x) : e = EventOf(x, i)
      /\ Feed(year) \subseteq S
  BY SubscribedEvents
<1>2. \A d, e \in S : d.start = e.start => d = e
  BY <1>0, <1>1, EventsDiffer
<1>3. \A d, e \in S : d.uid = e.uid => d = e
  BY <1>1 DEF EventOf
<1>4. IsFiniteSet(S)
  <2> DEFINE T == (1..year + 1) \X (1..53)
  <2>1. \A x \in 1..year + 1 : 1..WeeksIn(x) \subseteq 1..53
    <3> TAKE x \in 1..year + 1
    <3>1. WeeksIn(x) \in {52, 53}
      BY <1>0, Weeks
    <3> QED
      BY <3>1
  <2>2. h \in [S -> T]
    BY <1>1, <2>1 DEF EventOf
  <2>3. \A d, e \in S : h[d] = h[e] => d = e
    <3>1. \A d, e \in S : d.uid.year = e.uid.year /\ d.uid.iso_week = e.uid.iso_week => d = e
      BY <1>1 DEF EventOf
    <3> QED
      BY <3>1
  <2>4. IsFiniteSet(1..year + 1)
    BY <1>0, FS_Interval
  <2>5. IsFiniteSet(1..53)
    <3>1. 1 \in Int /\ 53 \in Int
      OBVIOUS
    <3> QED
      BY <3>1, FS_Interval, Zenon
  <2>6. IsFiniteSet(T)
    BY <2>4, <2>5, FS_Product
  <2>7. h \in Injection(S, T)
    BY <2>2, <2>3 DEF Injection, IsInjective
  <2> QED
    BY <2>6, <2>7, FS_Injection
<1>5. Cardinality(starts) = Cardinality(S)
  <2>1. f \in Injection(S, starts) /\ f \in Surjection(S, starts)
    BY <1>2 DEF Injection, IsInjective, Surjection
  <2>2. ExistsBijection(S, starts)
    BY <2>1 DEF ExistsBijection, Bijection
  <2> QED
    BY <1>4, <2>2, FS_Bijection
<1>6. Cardinality(uids) = Cardinality(S)
  <2>1. g \in Injection(S, uids) /\ g \in Surjection(S, uids)
    BY <1>3 DEF Injection, IsInjective, Surjection
  <2>2. ExistsBijection(S, uids)
    BY <2>1 DEF ExistsBijection, Bijection
  <2> QED
    BY <1>4, <2>2, FS_Bijection
<1>7. \A e \in Feed(year) : e.end \in starts \cup {IsoNewYear(year + 2)}
  <2> TAKE e \in Feed(year)
  <2>1. PICK x \in {year, year + 1} : \E i \in 1..WeeksIn(x) : e = EventOf(x, i)
    BY <1>0, FeedEvents
  <2>2. PICK i \in 1..WeeksIn(x) : e = EventOf(x, i)
    BY <2>1
  <2>3. /\ x \in Nat \ {0} /\ WeeksIn(x) \in Nat /\ IsoNewYear(x) \in Int
        /\ IsoNewYear(x + 1) = IsoNewYear(x) + 7 * WeeksIn(x) /\ i \in Int
    <3>1. x \in Nat \ {0}
      BY <1>0
    <3>2. /\ WeeksIn(x) \in {52, 53} /\ IsoNewYear(x) \in Int
          /\ IsoNewYear(x + 1) = IsoNewYear(x) + 7 * WeeksIn(x)
      BY <3>1, Weeks, IsoYears
    <3> QED
      BY <3>1, <3>2
  <2>4. CASE i < WeeksIn(x)
    <3>1. i + 1 \in 1..WeeksIn(x)
      BY <2>3, <2>4
    <3>2. EventOf(x, i + 1) \in S
      BY <1>0, <1>1, <3>1, FeedEvents
    <3>3. EventOf(x, i + 1).start = e.end
      BY <2>2, <2>3 DEF EventOf
    <3> QED
      BY <3>2, <3>3
  <2>5. CASE i = WeeksIn(x)
    <3>1. e.end = IsoNewYear(x + 1)
      BY <2>2, <2>3, <2>5 DEF EventOf
    <3>2. CASE x = year
      <4>1. WeeksIn(year + 1) \in {52, 53} /\ IsoNewYear(year + 1) \in Int
        BY <1>0, Weeks, IsoYears
      <4>2. EventOf(year + 1, 1) \in S
        BY <1>0, <1>1, <4>1, FeedEvents
      <4>3. EventOf(year + 1, 1).start = IsoNewYear(year + 1)
        BY <4>1 DEF EventOf
      <4> QED
        BY <3>1, <3>2, <4>2, <4>3
    <3>3. CASE x = year + 1
      BY <1>0, <3>1, <3>3
    <3> QED
      BY <3>2, <3>3
  <2> QED
    BY <2>3, <2>4, <2>5
<1> QED
  BY <1>5, <1>6, <1>7 DEF EveryWeekIsOneEvent

\* The week numbers of two feeds fetched in any two years name one week each: the
\* calendar application that keeps the old feed has every week once, without a gap.
THEOREM OneEventAWeek == CalendarSpec => []EveryWeekIsOneEvent
  BY ClockInvariance, WeeksFed, PTL

-----------------------------------------------------------------------------
(* The nightly backups *)

OfYear(d, y) == NewYear(y) <= d /\ d < NewYear(y + 1)

LEMMA OneYear ==
  ASSUME NEW x \in Nat \ {0}, NEW y \in Nat \ {0}, NEW d \in Int, OfYear(d, x), OfYear(d, y)
  PROVE  x = y
<1>1. NewYear(x) \in Int /\ NewYear(x + 1) \in Int /\ NewYear(y) \in Int /\ NewYear(y + 1) \in Int
  BY YearLength
<1>2. ~ x < y
  <2>1. CASE x + 1 = y
    BY <1>1, <2>1 DEF OfYear
  <2>2. CASE x + 1 < y
    BY <1>1, <2>2, YearsGrow DEF OfYear
  <2> QED
    BY <2>1, <2>2
<1>3. ~ y < x
  <2>1. CASE y + 1 = x
    BY <1>1, <2>1 DEF OfYear
  <2>2. CASE y + 1 < x
    BY <1>1, <2>2, YearsGrow DEF OfYear
  <2> QED
    BY <2>1, <2>2
<1> QED
  BY <1>2, <1>3

LEMMA Sundays ==
  ASSUME NEW d \in Int
  PROVE  /\ SundayUntil(d) \in d - 6..d /\ Weekday(SundayUntil(d)) = 6
         /\ \A e \in Int : e <= d /\ Weekday(e) = 6 => e <= SundayUntil(d)
  BY DEF SundayUntil, Weekday

\* Nights that share a name are far apart: a day's a week, a Sunday's of the year 52
\* weeks, and the last Sunday's of a year for ever.
LEMMA NamesRecur ==
  ASSUME NEW x \in Nat \ {0, 1}, NEW y \in Nat \ {0, 1}, NEW c \in Int, NEW d \in Int,
         OfYear(c, x), OfYear(d, y), c < d, object_name(c, x) = object_name(d, y)
  PROVE  /\ d - c >= 7 /\ ~ (Weekday(c) = 6 /\ last_sunday_of_year(c, x))
         /\ Weekday(c) = 6 => Weekday(d) = 6 /\ d - c >= 364
<1>0. Weekday(c) \in 0..6 /\ Weekday(d) \in 0..6
  BY Mondays
<1>1. CASE Weekday(c) # 6
  <2>1. Weekday(d) = Weekday(c)
    BY <1>1 DEF object_name
  <2>2. (d - c) % 7 = 0
    BY <2>1, WholeWeeks
  <2> QED
    BY <1>1, <2>2
<1>2. CASE Weekday(c) = 6
  <2>1. Weekday(d) = 6 /\ (last_sunday_of_year(c, x) <=> last_sunday_of_year(d, y))
    BY <1>2 DEF object_name
  <2>2. CASE last_sunday_of_year(c, x)
    <3>1. x = y
      BY <1>2, <2>1, <2>2 DEF object_name
    <3> QED
      BY <2>1, <2>2, <3>1 DEF last_sunday_of_year
  <2>3. CASE ~ last_sunday_of_year(c, x)
    <3> DEFINE i == IsoYear(c, x)
               j == IsoYear(d, y)
    <3>1. IsoWeek(c, x) = IsoWeek(d, y)
      BY <1>2, <2>1, <2>3 DEF object_name
    <3>2. c \in NewYear(x)..NewYear(x + 1) /\ d \in NewYear(y)..NewYear(y + 1)
      <4>1. /\ x \in Nat \ {0} /\ y \in Nat \ {0}
            /\ NewYear(x) \in Int /\ NewYear(x + 1) \in Int /\ NewYear(y) \in Int /\ NewYear(y + 1) \in Int
        BY YearLength
      <4> QED
        BY <4>1 DEF OfYear
    <3>3. /\ i \in Nat \ {0} /\ IsoNewYear(i) <= c
          /\ j \in Nat \ {0} /\ IsoNewYear(j) <= d
      BY <3>2, IsoYearOf
    <3> HIDE DEF i, j
    <3>4. /\ IsoNewYear(i) \in Int /\ Weekday(IsoNewYear(i)) = 0
          /\ IsoNewYear(j) \in Int /\ Weekday(IsoNewYear(j)) = 0
      BY <3>3, IsoYears
    <3>5. (c - IsoNewYear(i)) \div 7 = (d - IsoNewYear(j)) \div 7
      <4>1. /\ IsoWeek(c, x) = 1 + (c - IsoNewYear(i)) \div 7
            /\ IsoWeek(d, y) = 1 + (d - IsoNewYear(j)) \div 7
        BY DEF IsoWeek, i, j
      <4> DEFINE m == (c - IsoNewYear(i)) \div 7
                 n == (d - IsoNewYear(j)) \div 7
      <4>2. m \in Int /\ n \in Int
        BY <3>4
      <4>3. 1 + m = 1 + n
        BY <3>1, <4>1, Zenon
      <4> HIDE DEF m, n
      <4>4. m = n
        BY <4>2, <4>3
      <4> QED
        BY <4>4 DEF m, n
    <3>6. (c - IsoNewYear(i)) % 7 = 6 /\ (d - IsoNewYear(j)) % 7 = 6
      BY <1>2, <2>1, <3>4 DEF Weekday
    <3>7. d - c = IsoNewYear(j) - IsoNewYear(i)
      BY <3>4, <3>5, <3>6
    <3>8. i < j
      <4>1. i # j
        BY <3>4, <3>7
      <4>2. ~ j < i
        BY <3>3, <3>4, <3>7, IsoYearsGrow
      <4> QED
        BY <3>3, <4>1, <4>2
    <3>9. IsoNewYear(j) - IsoNewYear(i) >= 364
      BY <3>3, <3>8, IsoYearsGrow
    <3> QED
      BY <2>1, <2>3, <3>4, <3>7, <3>9
  <2> QED
    BY <2>2, <2>3
<1> QED
  BY <1>1, <1>2

\* Every night so far has its name in the store, with the last night of that name.
NightsInv ==
  /\ \A y \in FirstYear..year : \A d \in NewYear(y)..day :
       d < NewYear(y + 1) =>
         object_name(d, y) \in DOMAIN stored /\ d <= stored[object_name(d, y)]
  /\ \A name \in DOMAIN stored :
       /\ stored[name] \in Int /\ stored[name] <= day
       /\ \E y \in FirstYear..year : OfYear(stored[name], y) /\ name = object_name(stored[name], y)

LEMMA NightsStart == CalendarInit => NightsInv
<1> SUFFICES ASSUME CalendarInit PROVE NightsInv
  OBVIOUS
<1>1. /\ ClockInv /\ year = FirstYear /\ day = NewYear(year) /\ FirstYear \in Nat \ {0}
      /\ stored = [name \in {object_name(day, year)} |-> day]
  BY ClockStarts, CalendarYears DEF CalendarInit
<1>2. day \in Int /\ NewYear(year + 1) - NewYear(year) \in {365, 366} /\ NewYear(year + 1) \in Int
  BY <1>1, YearLength
<1>3. OfYear(day, year)
  BY <1>1, <1>2 DEF OfYear
<1>4. \A y \in FirstYear..year : y = year
  BY <1>1
<1>5. \A d \in NewYear(year)..day : d = day
  BY <1>1, <1>2
<1> QED
  BY <1>1, <1>2, <1>3, <1>4, <1>5 DEF NightsInv

LEMMA NightsKept == ClockInv /\ ClockInv' /\ NightsInv /\ [CalendarNext]_calendarVars => NightsInv'
<1> SUFFICES ASSUME ClockInv, ClockInv', NightsInv, [CalendarNext]_calendarVars PROVE NightsInv'
  OBVIOUS
<1>1. CASE Poll \/ UNCHANGED calendarVars
  BY <1>1 DEF Poll, calendarVars, NightsInv
<1>2. CASE Midnight
  <2> DEFINE name0 == object_name(day', year')
  <2>1. /\ day' = day + 1 /\ stored' = Night(day', year') /\ year' \in {year, year + 1}
        /\ year' = IF day + 1 = NewYear(year + 1) THEN year + 1 ELSE year
    BY <1>2 DEF Midnight
  <2>2. /\ \A y \in FirstYear..year' : y \in Nat \ {0}
        /\ year' \in Nat \ {0} /\ year' \in FirstYear..year' /\ year \in Nat
        /\ \A y \in FirstYear..year' : y \in FirstYear..year \/ y = year'
        /\ \A y \in FirstYear..year : y \in FirstYear..year'
    BY <2>1, CalendarYears DEF ClockInv
  <2>3. \A y \in FirstYear..year' : NewYear(y) \in Int /\ NewYear(y + 1) \in Int
    BY <2>2, YearLength
  <2>4. day \in Int /\ day' \in Int /\ OfYear(day', year')
    BY <2>1, <2>2, <2>3 DEF ClockInv, OfYear
  <2>5. /\ DOMAIN stored' = DOMAIN stored \cup {name0}
        /\ \A name \in DOMAIN stored' : stored'[name] = IF name = name0 THEN day' ELSE stored[name]
    BY <2>1 DEF Night
  <2> HIDE DEF name0
  <2>6. ASSUME NEW y \in FirstYear..year', NEW d \in NewYear(y)..day', d < NewYear(y + 1)
        PROVE  object_name(d, y) \in DOMAIN stored' /\ d <= stored'[object_name(d, y)]
    <3>0. d \in Int /\ d <= day' /\ OfYear(d, y) /\ y \in Nat \ {0}
      BY <2>2, <2>3, <2>4, <2>6 DEF OfYear
    <3>1. CASE d = day'
      <4>1. y = year'
        BY <2>2, <2>4, <3>0, <3>1, OneYear
      <4> QED
        BY <2>4, <2>5, <3>1, <4>1 DEF name0
    <3>2. CASE d # day'
      <4>1. d \in NewYear(y)..day
        BY <2>1, <2>3, <2>4, <3>0, <3>2
      <4>2. y \in FirstYear..year
        <5>1. CASE day + 1 = NewYear(year + 1)
          <6>1. year' = year + 1 /\ d < NewYear(year')
            BY <2>1, <2>4, <4>1, <5>1
          <6>2. y # year'
            <7>1. NewYear(year') \in Int
              BY <2>2, <2>3
            <7> QED
              BY <3>0, <6>1, <7>1 DEF OfYear
          <6> QED
            BY <2>2, <6>2
        <5>2. CASE day + 1 # NewYear(year + 1)
          BY <2>1, <5>2
        <5> QED
          BY <5>1, <5>2
      <4>3. object_name(d, y) \in DOMAIN stored /\ d <= stored[object_name(d, y)]
        BY <2>6, <4>1, <4>2 DEF NightsInv
      <4> QED
        BY <2>5, <3>0, <4>3
    <3> QED
      BY <3>1, <3>2
  <2>7. ASSUME NEW name \in DOMAIN stored'
        PROVE  /\ stored'[name] \in Int /\ stored'[name] <= day'
               /\ \E y \in FirstYear..year' : OfYear(stored'[name], y) /\ name = object_name(stored'[name], y)
    <3>1. CASE name = name0
      BY <2>2, <2>4, <2>5, <3>1 DEF name0
    <3>2. CASE name # name0
      <4>1. name \in DOMAIN stored /\ stored'[name] = stored[name]
        BY <2>5, <3>2
      <4>2. stored[name] \in Int /\ stored[name] <= day
        BY <4>1 DEF NightsInv
      <4>3. PICK y \in FirstYear..year : OfYear(stored[name], y) /\ name = object_name(stored[name], y)
        BY <4>1 DEF NightsInv
      <4>4. stored[name] <= day'
        BY <2>1, <2>4, <4>2
      <4> QED
        BY <2>2, <4>1, <4>2, <4>3, <4>4
    <3> QED
      BY <3>1, <3>2
  <2>8. NightsInv' <=>
          /\ \A y \in FirstYear..year' : \A d \in NewYear(y)..day' :
               d < NewYear(y + 1) =>
                 object_name(d, y) \in DOMAIN stored' /\ d <= stored'[object_name(d, y)]
          /\ \A name \in DOMAIN stored' :
               /\ stored'[name] \in Int /\ stored'[name] <= day'
               /\ \E y \in FirstYear..year' : OfYear(stored'[name], y) /\ name = object_name(stored'[name], y)
    BY DEF NightsInv, OfYear, object_name, last_sunday_of_year, IsoWeek, IsoYear, IsoNewYear,
           MondayOf, Weekday, SundayUntil, NewYear
  <2> QED
    BY <2>6, <2>7, <2>8
<1> QED
  BY <1>1, <1>2 DEF CalendarNext

LEMMA NightsInvariance == CalendarSpec => [](ClockInv /\ NightsInv)
  BY ClockStarts, ClockKept, NightsStart, NightsKept, PTL DEF CalendarSpec

Kept == {stored[name] : name \in DOMAIN stored}

\* What is in the store under the name of the night d is this night or a later one.
LEMMA NightOrLater ==
  ASSUME ClockInv, NightsInv, NEW y \in FirstYear..year, NEW d \in Int, OfYear(d, y), d <= day
  PROVE  \E e \in Kept : /\ e \in Int /\ d <= e /\ e <= day
                         /\ \E z \in FirstYear..year : OfYear(e, z) /\ object_name(e, z) = object_name(d, y)
<1>1. y \in Nat \ {0} /\ day \in Int /\ year \in Nat \ {0}
  <2>1. y \in Nat \ {0} /\ year \in Nat \ {0}
    BY CalendarYears DEF ClockInv
  <2>2. NewYear(year) \in Int /\ NewYear(year + 1) \in Int
    BY <2>1, YearLength
  <2> QED
    BY <2>1, <2>2 DEF ClockInv
<1>2. NewYear(y) \in Int
  BY <1>1, YearLength
<1>3. d \in NewYear(y)..day /\ d < NewYear(y + 1)
  BY <1>1, <1>2 DEF OfYear
<1>4. object_name(d, y) \in DOMAIN stored /\ d <= stored[object_name(d, y)]
  BY <1>3 DEF NightsInv
<1> QED
  BY <1>4 DEF NightsInv, Kept

LEMMA LastYears ==
  ASSUME ClockInv, NEW d \in day - 363..day, NewYear(FirstYear) <= d
  PROVE  \E y \in FirstYear..year : OfYear(d, y)
<1>0. year \in Nat \ {0, 1} /\ year \in FirstYear..year /\ FirstYear \in Int
  BY CalendarYears DEF ClockInv
<1>1. /\ year - 1 \in Nat \ {0} /\ (year - 1) + 1 = year
      /\ NewYear(year) \in Int /\ NewYear(year + 1) \in Int
  BY <1>0, YearLength
<1>2. NewYear(year - 1) \in Int /\ NewYear(year) - NewYear(year - 1) \in {365, 366}
  <2> DEFINE x == year - 1
  <2>1. x \in Nat \ {0} /\ x + 1 = year
    BY <1>1
  <2> HIDE DEF x
  <2>2. NewYear(x) \in Int /\ NewYear(year) - NewYear(x) \in {365, 366}
    BY <2>1, YearLength
  <2> QED
    BY <2>2 DEF x
<1>3. day \in Int /\ day < NewYear(year + 1) /\ NewYear(year) <= day
  BY <1>1 DEF ClockInv
<1>4. CASE NewYear(year) <= d
  BY <1>0, <1>1, <1>3, <1>4 DEF OfYear
<1>5. CASE d < NewYear(year)
  <2>1. year # FirstYear
    BY <1>1, <1>3, <1>5
  <2>2. year - 1 \in FirstYear..year
    BY <1>0, <2>1
  <2>3. NewYear(year - 1) <= d
    <3>1. d \in Int /\ d >= day - 363
      BY <1>3
    <3>2. NewYear(year - 1) <= NewYear(year) - 365
      BY <1>1, <1>2
    <3> QED
      BY <1>1, <1>2, <1>3, <3>1, <3>2
  <2> QED
    BY <1>1, <1>5, <2>2, <2>3 DEF OfYear
<1> QED
  BY <1>1, <1>3, <1>4, <1>5

LEMMA NightsFound == ClockInv /\ NightsInv => NightsAreRetained
<1> SUFFICES ASSUME ClockInv, NightsInv PROVE NightsAreRetained
  OBVIOUS
<1> DEFINE first == NewYear(FirstYear)
<1>0. /\ \A y \in FirstYear..year : y \in Nat \ {0, 1} /\ y \in Nat \ {0}
      /\ FirstYear \in FirstYear..year /\ year \in FirstYear..year
  BY CalendarYears DEF ClockInv
<1>1. \A y \in FirstYear..year : NewYear(y) \in Int /\ NewYear(y + 1) \in Int
                                 /\ NewYear(y + 1) - NewYear(y) \in {365, 366}
  BY <1>0, YearLength
<1>2. day \in Int
  BY <1>0, <1>1 DEF ClockInv
<1>3. ASSUME NEW d \in day - 6..day, d >= first PROVE d \in Kept
  <2>1. PICK y \in FirstYear..year : OfYear(d, y)
    BY <1>2, <1>3, LastYears
  <2>2. PICK e \in Kept :
          /\ e \in Int /\ d <= e /\ e <= day
          /\ \E z \in FirstYear..year : OfYear(e, z) /\ object_name(e, z) = object_name(d, y)
    BY <1>2, <2>1, NightOrLater
  <2>3. ~ d < e
    BY <1>0, <1>2, <2>1, <2>2, NamesRecur
  <2> QED
    BY <1>2, <2>2, <2>3
<1>4. ASSUME NEW n \in 0..51, SundayUntil(day) - 7 * n >= first PROVE SundayUntil(day) - 7 * n \in Kept
  <2> DEFINE d == SundayUntil(day) - 7 * n
  <2>1. /\ SundayUntil(day) \in day - 6..day /\ Weekday(SundayUntil(day)) = 6
        /\ \A e \in Int : e <= day /\ Weekday(e) = 6 => e <= SundayUntil(day)
    BY <1>2, Sundays
  <2>2. d \in day - 363..day /\ Weekday(d) = 6
    BY <1>2, <2>1 DEF Weekday
  <2>3. PICK y \in FirstYear..year : OfYear(d, y)
    BY <1>2, <1>4, <2>2, LastYears
  <2>4. PICK e \in Kept :
          /\ e \in Int /\ d <= e /\ e <= day
          /\ \E z \in FirstYear..year : OfYear(e, z) /\ object_name(e, z) = object_name(d, y)
    BY <1>2, <2>2, <2>3, NightOrLater
  <2>5. ASSUME d < e PROVE FALSE
    <3>1. Weekday(e) = 6 /\ e - d >= 364
      BY <1>0, <1>2, <2>2, <2>3, <2>4, <2>5, NamesRecur
    <3>2. e <= SundayUntil(day)
      BY <2>1, <2>4, <3>1
    <3> QED
      BY <1>2, <2>1, <2>4, <3>1, <3>2
  <2> QED
    BY <1>2, <2>2, <2>4, <2>5
<1>5. ASSUME NEW y \in FirstYear..year - 1 PROVE SundayUntil(NewYear(y + 1) - 1) \in Kept
  <2> DEFINE d == SundayUntil(NewYear(y + 1) - 1)
  <2>0. y \in FirstYear..year /\ y \in Nat \ {0, 1} /\ y < year /\ NewYear(y + 1) - 1 \in Int
        /\ NewYear(y) \in Int /\ NewYear(y + 1) - NewYear(y) \in {365, 366}
    BY <1>0, <1>1
  <2>1. d \in (NewYear(y + 1) - 1) - 6..NewYear(y + 1) - 1 /\ Weekday(d) = 6
    BY <2>0, Sundays
  <2>2. d \in Int /\ OfYear(d, y) /\ last_sunday_of_year(d, y)
    <3>1. last_sunday_of_year(d, y)
      BY DEF last_sunday_of_year
    <3> HIDE DEF d
    <3>2. NewYear(y + 1) \in Int
      BY <1>1, <2>0
    <3>3. d \in Int /\ d <= NewYear(y + 1) - 1 /\ d >= NewYear(y + 1) - 7
      BY <2>1, <3>2
    <3>4. NewYear(y) <= d /\ d < NewYear(y + 1)
      BY <2>0, <3>2, <3>3
    <3> QED
      BY <3>1, <3>3, <3>4 DEF OfYear
  <2>3. d <= day
    <3>1. NewYear(y + 1) <= NewYear(year)
      <4>1. CASE y + 1 = year
        BY <1>0, <1>1, <4>1
      <4>2. CASE y + 1 < year
        BY <1>0, <1>1, <2>0, <4>2, YearsGrow
      <4> QED
        BY <1>0, <2>0, <4>1, <4>2
    <3> QED
      BY <1>0, <1>1, <1>2, <2>0, <2>1, <3>1 DEF ClockInv
  <2> HIDE DEF d
  <2>4. PICK e \in Kept :
          /\ e \in Int /\ d <= e /\ e <= day
          /\ \E z \in FirstYear..year : OfYear(e, z) /\ object_name(e, z) = object_name(d, y)
    BY <2>0, <2>2, <2>3, NightOrLater
  <2>5. ~ d < e
    BY <1>0, <2>0, <2>1, <2>2, <2>4, NamesRecur
  <2>6. e = d
    BY <2>2, <2>4, <2>5
  <2> QED
    BY <2>4, <2>6 DEF d
<1> QED
  BY <1>3, <1>4, <1>5 DEF NightsAreRetained, Kept

\* However long the server runs, the last seven nights, the last 52 Sundays and the
\* last Sunday of every year are still in the store.
THEOREM NightsStay == CalendarSpec => []NightsAreRetained
  BY NightsInvariance, NightsFound, PTL
====================================================================================
