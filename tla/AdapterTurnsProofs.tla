-------------------------- MODULE AdapterTurnsProofs --------------------------
(***************************************************************************)
(* Theorems about AdapterTurns, for any turns, threads and sub-agents and   *)
(* any number of crashes.                                                  *)
(*                                                                         *)
(* The invariants of AdapterTurns are inductive together, once what they    *)
(* say of a turn is said of its row r, its closure c and the process p: a   *)
(* step that writes one turn leaves the others' TurnOK alone.              *)
(***************************************************************************)
EXTENDS AdapterTurns, TLAPS

\* A closure that some code of this process will still end.
Live == {"queued", "running", "diff"}

TurnOK(r, c, p) ==
    /\ r \in Row /\ c \in Run
    \* A row has its thread and its kind; a closure has its row.
    /\ r.status # "absent" => r.thread \in Threads /\ r.kind \in Kinds
    /\ c.pc # "none" => r.status # "absent"
    /\ p \in {"down", "recovering"} => c.pc \in {"none", "gone"}
    \* Who listens, who is registered and who has sub-agents.
    /\ c.accept \/ c.registered => c.pc = "running" /\ r.kind # "compact"
    /\ c.agents # {} => c.registered /\ r.status = "inProgress"
    /\ p = "up" /\ c.accept /\ r.status = "inProgress" => c.registered
    /\ p \in {"up", "stopping"} =>
         \A a \in Agents : r.child[a] = "inProgress" => a \in c.agents
    \* What has been announced.
    /\ c.pc \in Live => c.announced <= 1 /\ (r.status = "inProgress" => c.announced = 0)
    /\ p = "up" /\ r.kind = "turn" /\ c.pc \notin {"none", "gone"} =>
         c.announced = IF r.status \in Terminal THEN 1 ELSE 0
    /\ p = "up" /\ r.status = "inProgress" => c.pc \in Live

TurnsOK == \A t \in Turns : TurnOK(row[t], run[t], proc)

ThreadsOK ==
    /\ threadStatus \in [Threads -> {"idle", "active"}]
    /\ active \in [Threads -> Turns \cup {None}]
    /\ proc # "up" => \A th \in Threads : active[th] = None
    /\ ActiveEntryIsLive

IndInv ==
    /\ row \in [Turns -> Row] /\ run \in [Turns -> Run]
    /\ proc \in {"up", "stopping", "down", "recovering"}
    /\ seen \subseteq Threads
    /\ TurnsOK
    /\ ThreadsOK

\* Every invariant of the run is a part of it.
LEMMA IndInvImplies ==
    ASSUME IndInv
    PROVE  /\ TypeOK /\ ChildrenSettleFirst /\ InProgressHasRunner
           /\ ActiveEntryIsLive /\ TurnAnnouncedOnce
<1>1. TypeOK
  BY DEF IndInv, ThreadsOK, TypeOK
<1>2. ASSUME NEW t \in Turns PROVE TurnOK(row[t], run[t], proc)
  BY DEF IndInv, TurnsOK
<1>3. ChildrenSettleFirst
  BY <1>2 DEF TurnOK, ChildrenSettleFirst, Alive, InProgress
<1>4. InProgressHasRunner
  BY <1>2 DEF TurnOK, InProgressHasRunner, InProgress, Live
<1>5. ActiveEntryIsLive
  BY DEF IndInv, ThreadsOK
<1>6. TurnAnnouncedOnce
  BY <1>2 DEF TurnOK, TurnAnnouncedOnce
<1> QED
  BY <1>1, <1>3, <1>4, <1>5, <1>6

LEMMA NothingTypes == NoRow \in Row /\ NoRun \in Run
BY DEF NoRow, NoRun, Row, Run, Statuses, Children

LEMMA InitIndInv == Init => IndInv
<1> SUFFICES ASSUME Init PROVE IndInv
  OBVIOUS
<1>1. TurnsOK
  BY NothingTypes DEF Init, TurnsOK, TurnOK, NoRow, NoRun, Live
<1>2. ThreadsOK
  BY DEF Init, ThreadsOK, ActiveEntryIsLive
<1> QED
  BY <1>1, <1>2, NothingTypes DEF Init, IndInv

-----------------------------------------------------------------------------
(* Steps that write one turn.                                               *)

\* What a step that writes turn t alone has to show of the turns.
LEMMA OneTurn ==
    ASSUME IndInv, NEW t \in Turns, NEW r, NEW c,
           row' = [row EXCEPT ![t] = r], run' = [run EXCEPT ![t] = c],
           proc' = proc, TurnOK(r, c, proc)
    PROVE  /\ row' \in [Turns -> Row] /\ run' \in [Turns -> Run]
           /\ row'[t] = r /\ run'[t] = c
           /\ TurnsOK'
<1>1. r \in Row /\ c \in Run
  BY DEF TurnOK
<1>2. row' \in [Turns -> Row] /\ run' \in [Turns -> Run]
  BY <1>1 DEF IndInv
<1>3. ASSUME NEW u \in Turns PROVE TurnOK(row'[u], run'[u], proc')
  <2>1. CASE u = t
    BY <2>1 DEF IndInv
  <2>2. CASE u # t
    <3>1. row'[u] = row[u] /\ run'[u] = run[u]
      BY <2>2 DEF IndInv
    <3> QED
      BY <3>1 DEF IndInv, TurnsOK
  <2> QED
    BY <2>1, <2>2
<1> QED
  BY <1>2, <1>3 DEF TurnsOK, IndInv

\* The threads keep theirs when no turn stops being in progress or moves.
LEMMA SameThreads ==
    ASSUME ThreadsOK, NEW t \in Turns, row \in [Turns -> Row], NEW r,
           row' = [row EXCEPT ![t] = r], r.thread = row[t].thread,
           row[t].status = "inProgress" => r.status = "inProgress",
           proc' = proc, UNCHANGED <<active, threadStatus>>
    PROVE  ThreadsOK'
BY DEF ThreadsOK, ActiveEntryIsLive, InProgress

\* Nor when a turn is settled that its thread no longer names.
LEMMA ThreadLeftIdle ==
    ASSUME ThreadsOK, NEW t \in Turns, NEW th, row \in [Turns -> Row],
           row[t].thread = th, \A u \in Turns : u # t => row'[u] = row[u],
           active' = [active EXCEPT ![th] = None],
           threadStatus' = [threadStatus EXCEPT ![th] = "idle"],
           proc' = proc
    PROVE  ThreadsOK'
<1>1. /\ threadStatus' \in [Threads -> {"idle", "active"}]
      /\ active' \in [Threads -> Turns \cup {None}]
      /\ proc' # "up" => \A x \in Threads : active'[x] = None
  BY DEF ThreadsOK
<1>2. ASSUME NEW x \in Threads, active'[x] # None
      PROVE  /\ row'[active'[x]].status = "inProgress"
             /\ row'[active'[x]].thread = x /\ threadStatus'[x] = "active"
  <2>1. x # th /\ active'[x] = active[x] /\ threadStatus'[x] = threadStatus[x]
    BY <1>2 DEF ThreadsOK
  <2>2. /\ active[x] \in Turns /\ row[active[x]].status = "inProgress"
        /\ row[active[x]].thread = x /\ threadStatus[x] = "active"
    BY <1>2, <2>1 DEF ThreadsOK, ActiveEntryIsLive, InProgress
  <2>3. active[x] # t
    BY <2>1, <2>2
  <2> QED
    BY <2>1, <2>2, <2>3
<1> QED
  BY <1>1, <1>2 DEF ThreadsOK, ActiveEntryIsLive, InProgress

\* A step that writes turn t and touches no thread.
LEMMA QuietStep ==
    ASSUME IndInv, NEW t \in Turns, NEW r, NEW c,
           row' = [row EXCEPT ![t] = r], run' = [run EXCEPT ![t] = c],
           UNCHANGED <<proc, seen, active, threadStatus>>, TurnOK(r, c, proc),
           r.thread = row[t].thread, row[t].status = "inProgress" => r.status = "inProgress"
    PROVE  IndInv'
<1>1. TurnsOK' /\ row' \in [Turns -> Row] /\ run' \in [Turns -> Run]
  BY OneTurn
<1>2. ThreadsOK'
  BY SameThreads DEF IndInv
<1> QED
  BY <1>1, <1>2 DEF IndInv

\* completeTurn and what goes with it.
LEMMA CompleteStep ==
    ASSUME IndInv, NEW t \in Turns, NEW rw, NEW rn, NEW status,
           Complete(t, rw, rn, status), UNCHANGED <<proc, seen>>,
           TurnOK([rw EXCEPT !.status = status], Announce(rn), proc)
    PROVE  IndInv'
<1>1. /\ TurnsOK' /\ row' \in [Turns -> Row] /\ run' \in [Turns -> Run]
  BY OneTurn DEF Complete
<1>2. \A u \in Turns : u # t => row'[u] = row[u]
  BY DEF Complete, IndInv
<1>3. ThreadsOK'
  BY <1>2, ThreadLeftIdle DEF Complete, IndInv
<1> QED
  BY <1>1, <1>3 DEF IndInv

\* The row of a turn whose children have ended, those in as.
LEMMA ChildrenEndedType ==
    ASSUME NEW r \in Row, NEW as \in SUBSET Agents
    PROVE  LET w == WithChildrenEnded(r, as)
           IN  /\ w \in Row /\ w.thread = r.thread /\ w.kind = r.kind /\ w.status = r.status
               /\ \A a \in Agents : w.child[a] = IF a \in as THEN "ended" ELSE r.child[a]
BY DEF WithChildrenEnded, Row, Children

\* When the runtime's promise settles no child is left in progress.
LEMMA OrphanedQuiet ==
    ASSUME NEW t \in Turns, TurnOK(row[t], run[t], proc), Alive
    PROVE  /\ Orphaned(t) \in Row
           /\ Orphaned(t).thread = row[t].thread /\ Orphaned(t).kind = row[t].kind
           /\ Orphaned(t).status = row[t].status
           /\ \A a \in Agents : Orphaned(t).child[a] # "inProgress"
<1>1. row[t] \in Row /\ run[t].agents \in SUBSET Agents
  BY DEF TurnOK, Run
<1>2. \A a \in Agents : row[t].child[a] = "inProgress" => a \in run[t].agents
  BY DEF TurnOK, Alive
<1>3. CASE InProgress(t)
  BY <1>1, <1>2, <1>3, ChildrenEndedType DEF Orphaned, FinalizeOrphans
<1>4. CASE ~InProgress(t)
  BY <1>1, <1>2, <1>4 DEF Orphaned, TurnOK, InProgress
<1> QED
  BY <1>3, <1>4

\* A closure that has ended is one.
LEMMA EndedType ==
    ASSUME NEW c \in Run, NEW pc \in {"done", "diff"}
    PROVE  /\ Ended(c, pc) \in Run
           /\ Ended(c, pc).pc = pc /\ ~Ended(c, pc).accept /\ ~Ended(c, pc).registered
           /\ Ended(c, pc).agents = {} /\ Ended(c, pc).announced = c.announced
BY DEF Ended, Run

\* A turn completed by its own closure; one of turn/start has looked first.
LEMMA CompletedOK ==
    ASSUME NEW t \in Turns, TurnOK(row[t], run[t], proc), Alive,
           run[t].pc \in Live, row[t].kind = "turn" => InProgress(t),
           NEW rw \in Row, rw.thread = row[t].thread, rw.kind = row[t].kind,
           \A a \in Agents : rw.child[a] # "inProgress",
           NEW status \in Terminal
    PROVE  TurnOK([rw EXCEPT !.status = status], Announce(Ended(run[t], "done")), proc)
<1> DEFINE r == [rw EXCEPT !.status = status]
           e == Ended(run[t], "done")
           c == Announce(e)
<1>1. run[t] \in Run /\ row[t] \in Row
  BY DEF TurnOK
<1>2. /\ e \in Run /\ e.pc = "done" /\ ~e.accept /\ ~e.registered
      /\ e.agents = {} /\ e.announced = run[t].announced
  BY <1>1, EndedType
<1>3. /\ r \in Row /\ r.thread = row[t].thread /\ r.kind = row[t].kind
      /\ r.status = status /\ r.child = rw.child
  BY DEF Row, Terminal, Statuses
<1>4. /\ row[t].status # "absent" /\ row[t].thread \in Threads /\ row[t].kind \in Kinds
      /\ run[t].announced \in 0 .. 1
      /\ InProgress(t) => run[t].announced = 0
  BY <1>1 DEF TurnOK, Live, InProgress, Run
<1>5. /\ c \in Run /\ c.pc = "done" /\ ~c.accept /\ ~c.registered /\ c.agents = {}
      /\ proc = "up" => c.announced = run[t].announced + 1
  <2>1. CASE proc = "up"
    BY <1>2, <1>4, <2>1 DEF Announce, Run
  <2>2. CASE proc # "up"
    BY <1>2, <2>2 DEF Announce
  <2> QED
    BY <2>1, <2>2
<1> HIDE DEF r, e, c
<1>6. proc \in {"up", "stopping"} /\ status # "inProgress" /\ status # "absent"
  BY DEF Alive, Terminal
<1>7. TurnOK(r, c, proc)
  BY <1>3, <1>4, <1>5, <1>6 DEF TurnOK, Live
<1> QED
  BY <1>7 DEF r, e, c

\* The .catch of a runtime turn.
LEMMA CatchStep ==
    ASSUME IndInv, NEW t \in Turns, Alive, run[t].pc = "running",
           Catch(t, Orphaned(t), Ended(run[t], "done")), UNCHANGED <<proc, seen>>
    PROVE  IndInv'
<1>1. TurnOK(row[t], run[t], proc)
  BY DEF IndInv, TurnsOK
<1>2. /\ Orphaned(t) \in Row
      /\ Orphaned(t).thread = row[t].thread /\ Orphaned(t).kind = row[t].kind
      /\ Orphaned(t).status = row[t].status
      /\ \A a \in Agents : Orphaned(t).child[a] # "inProgress"
  BY <1>1, OrphanedQuiet
<1> DEFINE c == Ended(run[t], "done")
<1>3. /\ c \in Run /\ c.pc = "done" /\ ~c.accept /\ ~c.registered
      /\ c.agents = {} /\ c.announced = run[t].announced
  BY <1>1, EndedType DEF TurnOK
<1>4. CASE proc # "up" \/ (row[t].kind = "turn" /\ ~InProgress(t))
  <2>1. TurnOK(Orphaned(t), c, proc)
    <3> HIDE DEF c
    <3> QED
      BY <1>1, <1>2, <1>3, <1>4 DEF TurnOK, Live, InProgress, Terminal, Alive
  <2>2. /\ row' = [row EXCEPT ![t] = Orphaned(t)] /\ run' = [run EXCEPT ![t] = c]
        /\ UNCHANGED <<active, threadStatus>>
    BY <1>4 DEF Catch
  <2> QED
    BY <1>2, <2>1, <2>2, QuietStep
<1>5. CASE ~(proc # "up" \/ (row[t].kind = "turn" /\ ~InProgress(t)))
  <2>1. Complete(t, Orphaned(t), c, "failed")
    BY <1>5 DEF Catch
  <2>2. TurnOK([Orphaned(t) EXCEPT !.status = "failed"], Announce(c), proc)
    BY <1>1, <1>2, <1>5, CompletedOK DEF Live, Terminal
  <2> QED
    BY <2>1, <2>2, CompleteStep
<1> QED
  BY <1>4, <1>5

-----------------------------------------------------------------------------
(* The client's requests.                                                   *)

LEMMA TurnStartStep ==
    ASSUME IndInv, NEW t \in Turns, NEW th \in Threads, NEW kind \in KindsOf[t],
           TurnStart(t, th, kind)
    PROVE  IndInv'
<1> DEFINE r == [NoRow EXCEPT !.thread = th, !.kind = kind, !.status = "inProgress"]
           c == [NoRun EXCEPT !.pc = "queued"]
<1>1. kind \in Kinds
  BY TurnsAssumption
<1>2. /\ r \in Row /\ r.status = "inProgress" /\ r.thread = th /\ r.kind = kind
      /\ \A a \in Agents : r.child[a] = "absent"
  BY <1>1, NothingTypes DEF NoRow, Row, Statuses
<1>3. /\ c \in Run /\ c.pc = "queued" /\ ~c.accept /\ ~c.registered /\ c.agents = {}
      /\ c.announced = 0
  BY NothingTypes DEF NoRun, Run
<1>4. /\ row' = [row EXCEPT ![t] = r] /\ run' = [run EXCEPT ![t] = c]
      /\ active' = [active EXCEPT ![th] = t]
      /\ threadStatus' = [threadStatus EXCEPT ![th] = "active"]
      /\ UNCHANGED <<proc, seen>> /\ proc = "up" /\ row[t].status = "absent"
  BY DEF TurnStart
<1> HIDE DEF r, c
<1>5. TurnOK(r, c, proc)
  BY <1>1, <1>2, <1>3, <1>4 DEF TurnOK, Live, Terminal
<1>6. TurnsOK' /\ row' \in [Turns -> Row] /\ run' \in [Turns -> Run] /\ row'[t] = r
  BY <1>4, <1>5, OneTurn
<1>7. ThreadsOK'
  <2>1. /\ threadStatus' \in [Threads -> {"idle", "active"}]
        /\ active' \in [Threads -> Turns \cup {None}] /\ proc' = "up"
    BY <1>4 DEF IndInv, ThreadsOK
  <2>2. ASSUME NEW x \in Threads, active'[x] # None
        PROVE  /\ row'[active'[x]].status = "inProgress"
               /\ row'[active'[x]].thread = x /\ threadStatus'[x] = "active"
    <3>1. CASE x = th
      BY <1>2, <1>4, <1>6, <3>1 DEF IndInv, ThreadsOK
    <3>2. CASE x # th
      <4>1. active'[x] = active[x] /\ threadStatus'[x] = threadStatus[x]
        BY <1>4, <3>2 DEF IndInv, ThreadsOK
      <4>2. /\ active[x] \in Turns /\ row[active[x]].status = "inProgress"
            /\ row[active[x]].thread = x /\ threadStatus[x] = "active"
        BY <2>2, <4>1 DEF IndInv, ThreadsOK, ActiveEntryIsLive, InProgress
      <4>3. row'[active[x]] = row[active[x]]
        BY <1>4, <4>2 DEF IndInv
      <4> QED
        BY <4>1, <4>2, <4>3
    <3> QED
      BY <3>1, <3>2
  <2> QED
    BY <2>1, <2>2 DEF ThreadsOK, ActiveEntryIsLive, InProgress
<1> QED
  BY <1>4, <1>6, <1>7 DEF IndInv

\* An interrupt settles the turn in progress it names.
LEMMA InterruptedOK ==
    ASSUME NEW t \in Turns, TurnOK(row[t], run[t], proc), proc = "up", InProgress(t)
    PROVE  TurnOK([(IF run[t].registered THEN FinalizeOrphans(t) ELSE row[t])
                      EXCEPT !.status = "interrupted"],
                  Announce(IF run[t].registered
                           THEN [run[t] EXCEPT !.registered = FALSE, !.agents = {}]
                           ELSE run[t]), proc)
<1> DEFINE w == IF run[t].registered THEN FinalizeOrphans(t) ELSE row[t]
           e == IF run[t].registered THEN [run[t] EXCEPT !.registered = FALSE, !.agents = {}]
                ELSE run[t]
           r == [w EXCEPT !.status = "interrupted"]
           c == Announce(e)
<1>1. /\ row[t] \in Row /\ run[t] \in Run /\ run[t].agents \in SUBSET Agents
      /\ \A a \in Agents : row[t].child[a] = "inProgress" => a \in run[t].agents
      /\ run[t].agents # {} => run[t].registered
      /\ run[t].pc \in Live /\ run[t].announced = 0
      /\ run[t].accept => run[t].pc = "running" /\ row[t].kind # "compact"
      /\ row[t].thread \in Threads /\ row[t].kind \in Kinds
  BY DEF TurnOK, InProgress, Run
<1>2. /\ w \in Row /\ w.thread = row[t].thread /\ w.kind = row[t].kind
      /\ \A a \in Agents : w.child[a] # "inProgress"
  <2>1. CASE run[t].registered
    BY <1>1, <2>1, ChildrenEndedType DEF FinalizeOrphans
  <2>2. CASE ~run[t].registered
    BY <1>1, <2>2
  <2> QED
    BY <2>1, <2>2
<1>3. /\ e \in Run /\ e.pc = run[t].pc /\ e.accept = run[t].accept /\ ~e.registered
      /\ e.agents = {} /\ e.announced = 0
  <2>1. CASE run[t].registered
    BY <1>1, <2>1 DEF Run
  <2>2. CASE ~run[t].registered
    BY <1>1, <2>2 DEF Run
  <2> QED
    BY <2>1, <2>2
<1> HIDE DEF w, e
<1>4. /\ r \in Row /\ r.thread = row[t].thread /\ r.kind = row[t].kind
      /\ r.status = "interrupted" /\ \A a \in Agents : r.child[a] # "inProgress"
  BY <1>2 DEF Row, Statuses, Terminal
<1>5. /\ c \in Run /\ c.pc = run[t].pc /\ c.accept = run[t].accept /\ ~c.registered
      /\ c.agents = {} /\ c.announced = 1
  BY <1>3 DEF Announce, Run
<1> HIDE DEF r, c
<1>6. TurnOK(r, c, proc)
  BY <1>1, <1>4, <1>5 DEF TurnOK, Live, Terminal
<1> QED
  BY <1>6 DEF r, c, w, e

LEMMA InterruptStep ==
    ASSUME IndInv, NEW th \in Threads,
           NEW requested \in {t \in Turns : row[t].thread = th} \cup {None},
           Interrupt(th, requested)
    PROVE  IndInv'
<1> DEFINE t == IF active[th] # None THEN active[th] ELSE requested
<1>1. /\ proc = "up" /\ UNCHANGED <<proc, seen>>
      /\ active' = [active EXCEPT ![th] = None]
      /\ threadStatus' = [threadStatus EXCEPT ![th] = "idle"]
  BY DEF Interrupt
<1>2. t # None => t \in Turns /\ row[t].thread = th
  BY DEF IndInv, ThreadsOK, ActiveEntryIsLive
<1>3. CASE t # None /\ InProgress(t)
  <2> DEFINE r == [(IF run[t].registered THEN FinalizeOrphans(t) ELSE row[t])
                      EXCEPT !.status = "interrupted"]
             c == Announce(IF run[t].registered
                           THEN [run[t] EXCEPT !.registered = FALSE, !.agents = {}]
                           ELSE run[t])
  <2>1. row' = [row EXCEPT ![t] = r] /\ run' = [run EXCEPT ![t] = c]
    BY <1>3 DEF Interrupt
  <2>2. TurnOK(r, c, proc)
    BY <1>1, <1>2, <1>3, InterruptedOK DEF IndInv, TurnsOK
  <2> HIDE DEF r, c, t
  <2>3. TurnsOK' /\ row' \in [Turns -> Row] /\ run' \in [Turns -> Run]
    BY <1>1, <1>2, <1>3, <2>1, <2>2, OneTurn
  <2>4. \A u \in Turns : u # t => row'[u] = row[u]
    BY <2>1 DEF IndInv
  <2>5. ThreadsOK'
    BY <1>1, <1>2, <1>3, <2>4, ThreadLeftIdle DEF IndInv
  <2> QED
    BY <1>1, <2>3, <2>5 DEF IndInv
<1>4. CASE ~(t # None /\ InProgress(t))
  <2>1. UNCHANGED <<row, run>>
    BY <1>4 DEF Interrupt
  <2>2. TurnsOK'
    BY <1>1, <2>1 DEF IndInv, TurnsOK
  <2>3. ThreadsOK'
    BY <1>1, <2>1 DEF IndInv, ThreadsOK, ActiveEntryIsLive, InProgress
  <2> QED
    BY <1>1, <2>1, <2>2, <2>3 DEF IndInv
<1> QED
  BY <1>3, <1>4

\* What the turn's row and closure keep, when a request is put or answered.
Akin(r, c, t) ==
    /\ r \in Row /\ c \in Run
    /\ r.status = row[t].status /\ r.thread = row[t].thread /\ r.kind = row[t].kind
    /\ \A a \in Agents : r.child[a] = "inProgress" => a \in c.agents
    /\ c.pc = run[t].pc /\ c.accept = run[t].accept /\ c.registered = run[t].registered
    /\ c.announced = run[t].announced
    /\ c.agents # {} => c.registered /\ InProgress(t)

LEMMA AkinOK ==
    ASSUME NEW t \in Turns, TurnOK(row[t], run[t], proc), NEW r, NEW c, Akin(r, c, t)
    PROVE  TurnOK(r, c, proc)
BY DEF TurnOK, Akin, InProgress

\* A step that keeps them so and may mark the thread active.
LEMMA AkinStep ==
    ASSUME IndInv, NEW t \in Turns, NEW r, NEW c, Akin(r, c, t),
           row' = [row EXCEPT ![t] = r], run' = [run EXCEPT ![t] = c],
           UNCHANGED <<proc, seen, active>>,
           threadStatus' \in {threadStatus, [threadStatus EXCEPT ![row[t].thread] = "active"]}
    PROVE  IndInv'
<1>1. TurnOK(r, c, proc)
  BY AkinOK DEF IndInv, TurnsOK
<1>2. TurnsOK' /\ row' \in [Turns -> Row] /\ run' \in [Turns -> Run]
  BY <1>1, OneTurn
<1>3. \A u \in Turns : row'[u].status = row[u].status /\ row'[u].thread = row[u].thread
  BY DEF IndInv, Akin
<1>4. /\ threadStatus' \in [Threads -> {"idle", "active"}]
      /\ \A x \in Threads : threadStatus[x] = "active" => threadStatus'[x] = "active"
  BY DEF IndInv, ThreadsOK
<1>5. ThreadsOK'
  BY <1>3, <1>4 DEF IndInv, ThreadsOK, ActiveEntryIsLive, InProgress
<1> QED
  BY <1>2, <1>5 DEF IndInv

LEMMA ActiveTurn ==
    ASSUME IndInv, NEW t \in Turns
    PROVE  /\ TurnOK(row[t], run[t], proc) /\ row[t] \in Row /\ run[t] \in Run
           /\ run[t].agents \in SUBSET Agents
           /\ proc = "up" /\ TurnIsActive(t) => run[t].registered /\ InProgress(t)
BY DEF IndInv, TurnsOK, TurnOK, TurnIsActive, InProgress, Run

\* armWatchdog writes the watchdog only.
LEMMA ArmedType ==
    ASSUME NEW c \in Run
    PROVE  /\ Armed(c) \in Run
           /\ Armed(c).pc = c.pc /\ Armed(c).accept = c.accept
           /\ Armed(c).registered = c.registered /\ Armed(c).agents = c.agents
           /\ Armed(c).announced = c.announced
BY DEF Armed, Run

LEMMA AnswerSteps ==
    ASSUME IndInv, NEW t \in Turns, AnswerApproval(t) \/ AnswerQuestion(t)
    PROVE  IndInv'
<1> USE ActiveTurn
<1>1. ASSUME NEW kind \in {"approval", "question"},
             NEW r \in Row, r.status = row[t].status, r.thread = row[t].thread,
             r.kind = row[t].kind, r.child = row[t].child
      PROVE  Akin(r, [run[t] EXCEPT !.asking = run[t].asking \ {kind}], t)
  BY <1>1 DEF Akin, Run, TurnOK, Alive, AnswerApproval, AnswerQuestion, InProgress
<1>2. CASE AnswerApproval(t)
  <2> DEFINE c == [run[t] EXCEPT !.asking = run[t].asking \ {"approval"}]
  <2>1. Akin(row[t], c, t)
    BY <1>1
  <2>2. row' = [row EXCEPT ![t] = row[t]] /\ run' = [run EXCEPT ![t] = c]
    BY <1>2 DEF AnswerApproval, IndInv
  <2> QED
    BY <1>2, <2>1, <2>2, AkinStep DEF AnswerApproval
<1>3. CASE AnswerQuestion(t)
  <2> DEFINE c == [run[t] EXCEPT !.asking = run[t].asking \ {"question"}]
             r == IF TurnIsActive(t) THEN [row[t] EXCEPT !.open = row[t].open \ {"question"}]
                  ELSE row[t]
  <2>1. Akin(r, c, t)
    <3>1. /\ r \in Row /\ r.status = row[t].status /\ r.thread = row[t].thread
          /\ r.kind = row[t].kind /\ r.child = row[t].child
      BY DEF Row
    <3> QED
      BY <1>1, <3>1
  <2>2. row' = [row EXCEPT ![t] = r] /\ run' = [run EXCEPT ![t] = c]
    BY <1>3 DEF AnswerQuestion, IndInv
  <2> QED
    BY <1>3, <2>1, <2>2, AkinStep DEF AnswerQuestion
<1> QED
  BY <1>2, <1>3

-----------------------------------------------------------------------------
(* The runtime's events and the closure's own steps.                        *)

LEMMA AskSteps ==
    ASSUME IndInv, NEW t \in Turns,
           (\E card \in BOOLEAN : AskApproval(t, card)) \/ AskQuestion(t)
    PROVE  IndInv'
<1>1. TurnOK(row[t], run[t], proc) /\ row[t] \in Row /\ run[t] \in Run
  BY ActiveTurn
<1>2. proc = "up"
  BY DEF AskApproval, AskQuestion
<1>3. ASSUME NEW item \in {"tool", "question"}, NEW kinds \in SUBSET {"approval", "question"}
      PROVE  Akin([row[t] EXCEPT !.open = row[t].open \cup {item}],
                  [run[t] EXCEPT !.asking = run[t].asking \cup kinds], t)
  BY <1>1, <1>2 DEF Akin, Run, Row, TurnOK, InProgress
<1>4. ASSUME NEW card \in BOOLEAN, AskApproval(t, card) PROVE IndInv'
  <2> DEFINE r == [row[t] EXCEPT !.open = row[t].open \cup {"tool"}]
             c == [run[t] EXCEPT !.asking = run[t].asking \cup
                                             (IF card THEN {"approval"} ELSE {})]
  <2>1. Akin(r, c, t)
    BY <1>3
  <2>2. row' = [row EXCEPT ![t] = r]
    BY <1>4 DEF AskApproval
  <2>3. run' = [run EXCEPT ![t] = c]
    BY <1>1, <1>4 DEF AskApproval, IndInv, Run
  <2> QED
    BY <1>4, <2>1, <2>2, <2>3, AkinStep DEF AskApproval
<1>5. CASE AskQuestion(t)
  <2> DEFINE r == [row[t] EXCEPT !.open = row[t].open \cup {"question"}]
             c == [run[t] EXCEPT !.asking = run[t].asking \cup {"question"}]
  <2>1. Akin(r, c, t)
    BY <1>3
  <2>2. row' = [row EXCEPT ![t] = r] /\ run' = [run EXCEPT ![t] = c]
    BY <1>5 DEF AskQuestion
  <2> QED
    BY <1>5, <2>1, <2>2, AkinStep DEF AskQuestion
<1> QED
  BY <1>4, <1>5

LEMMA ToolSteps ==
    ASSUME IndInv, NEW t \in Turns,
           (\E workflow \in BOOLEAN : OpenTool(t, workflow)) \/ CloseTool(t)
    PROVE  IndInv'
<1>1. TurnOK(row[t], run[t], proc) /\ row[t] \in Row /\ run[t] \in Run
  BY ActiveTurn
<1>2. proc = "up"
  BY DEF OpenTool, CloseTool
<1>3. ASSUME NEW open \in SUBSET (Agents \cup {"tool", "question"}), NEW workflow \in BOOLEAN
      PROVE  Akin([row[t] EXCEPT !.open = open],
                  Armed([run[t] EXCEPT !.workflow = workflow]), t)
  <2> DEFINE c == [run[t] EXCEPT !.workflow = workflow]
  <2>1. /\ c \in Run /\ c.pc = run[t].pc /\ c.accept = run[t].accept
        /\ c.registered = run[t].registered /\ c.agents = run[t].agents
        /\ c.announced = run[t].announced
    BY <1>1 DEF Run
  <2> HIDE DEF c
  <2>2. Akin([row[t] EXCEPT !.open = open], Armed(c), t)
    BY <1>1, <1>2, <2>1, ArmedType DEF Akin, Row, TurnOK, InProgress
  <2> QED
    BY <2>2 DEF c
<1>4. row[t].open \in SUBSET (Agents \cup {"tool", "question"})
  BY <1>1 DEF Row
<1>5. ASSUME NEW workflow \in BOOLEAN, OpenTool(t, workflow) PROVE IndInv'
  <2>1. Akin([row[t] EXCEPT !.open = row[t].open \cup {"tool"}],
             Armed([run[t] EXCEPT !.workflow = workflow]), t)
    BY <1>3, <1>4
  <2> QED
    BY <1>5, <2>1, AkinStep DEF OpenTool
<1>6. CASE CloseTool(t)
  <2>1. Akin([row[t] EXCEPT !.open = row[t].open \ {"tool"}],
             Armed([run[t] EXCEPT !.workflow = FALSE]), t)
    BY <1>3, <1>4
  <2> QED
    BY <1>6, <2>1, AkinStep DEF CloseTool
<1> QED
  BY <1>5, <1>6

LEMMA StartSubagentStep ==
    ASSUME IndInv, NEW t \in Turns, NEW a \in Agents, StartSubagent(t, a)
    PROVE  IndInv'
<1> DEFINE r == [row[t] EXCEPT !.child = [row[t].child EXCEPT ![a] = "inProgress"],
                               !.open = row[t].open \cup {a}]
           c == [run[t] EXCEPT !.agents = run[t].agents \cup {a}]
<1>1. /\ TurnOK(row[t], run[t], proc) /\ row[t] \in Row /\ run[t] \in Run
      /\ run[t].registered /\ InProgress(t) /\ proc = "up"
      /\ run[t].agents \in SUBSET Agents
  BY ActiveTurn DEF StartSubagent
<1>2. /\ r \in Row /\ r.status = row[t].status /\ r.thread = row[t].thread
      /\ r.kind = row[t].kind
      /\ \A b \in Agents : r.child[b] = "inProgress" => row[t].child[b] = "inProgress" \/ b = a
  <2> DEFINE child == [row[t].child EXCEPT ![a] = "inProgress"]
  <2>1. /\ child \in [Agents -> Children]
        /\ \A b \in Agents : child[b] = "inProgress" => row[t].child[b] = "inProgress" \/ b = a
    BY <1>1 DEF Row, Children
  <2>2. r = [row[t] EXCEPT !.child = child, !.open = row[t].open \cup {a}]
    OBVIOUS
  <2> HIDE DEF child, r
  <2> QED
    BY <1>1, <2>1, <2>2 DEF Row
<1>3. /\ c \in Run /\ c.pc = run[t].pc /\ c.accept = run[t].accept
      /\ c.registered = run[t].registered /\ c.agents = run[t].agents \cup {a}
      /\ c.announced = run[t].announced
  BY <1>1 DEF Run
<1>4. row' = [row EXCEPT ![t] = r] /\ run' = [run EXCEPT ![t] = Armed(c)]
  BY <1>1 DEF StartSubagent, IndInv
<1> HIDE DEF r, c
<1>5. Akin(r, Armed(c), t)
  BY <1>1, <1>2, <1>3, ArmedType DEF Akin, TurnOK
<1> QED
  BY <1>4, <1>5, AkinStep DEF StartSubagent

LEMMA FinishSubagentStep ==
    ASSUME IndInv, NEW t \in Turns, NEW a \in Agents, FinishSubagent(t, a)
    PROVE  IndInv'
<1> DEFINE r == WithChildrenEnded(row[t], {a})
           c == [run[t] EXCEPT !.agents = run[t].agents \ {a}]
<1>1. /\ TurnOK(row[t], run[t], proc) /\ row[t] \in Row /\ run[t] \in Run
      /\ run[t].registered /\ InProgress(t) /\ proc = "up"
      /\ run[t].agents \in SUBSET Agents
  BY ActiveTurn DEF FinishSubagent
<1>2. /\ r \in Row /\ r.status = row[t].status /\ r.thread = row[t].thread
      /\ r.kind = row[t].kind
      /\ \A b \in Agents : r.child[b] = "inProgress" => row[t].child[b] = "inProgress" /\ b # a
  BY <1>1, ChildrenEndedType
<1>3. /\ c \in Run /\ c.pc = run[t].pc /\ c.accept = run[t].accept
      /\ c.registered = run[t].registered /\ c.agents = run[t].agents \ {a}
      /\ c.announced = run[t].announced
  BY <1>1 DEF Run
<1>4. row' = [row EXCEPT ![t] = r] /\ run' = [run EXCEPT ![t] = Armed(c)]
  BY DEF FinishSubagent
<1> HIDE DEF r, c
<1>5. Akin(r, Armed(c), t)
  BY <1>1, <1>2, <1>3, ArmedType DEF Akin, TurnOK
<1> QED
  BY <1>4, <1>5, AkinStep DEF FinishSubagent

LEMMA DispatchStep ==
    ASSUME IndInv, NEW t \in Turns, Dispatch(t)
    PROVE  IndInv'
<1>1. TurnOK(row[t], run[t], proc) /\ row[t] \in Row /\ run[t] \in Run
  BY ActiveTurn
<1>2. Alive /\ run[t].pc = "queued" /\ UNCHANGED <<proc, seen>>
  BY DEF Dispatch
<1>3. \A a \in Agents : row[t].child[a] # "inProgress"
  BY <1>1, <1>2 DEF TurnOK, Alive
<1>4. CASE row[t].kind = "list"
  <2>1. TurnOK([row[t] EXCEPT !.status = "completed"], Announce(Ended(run[t], "done")), proc)
    BY <1>1, <1>2, <1>3, <1>4, CompletedOK DEF Live, Terminal
  <2>2. Complete(t, row[t], Ended(run[t], "done"), "completed")
    BY <1>4 DEF Dispatch
  <2> QED
    BY <1>2, <2>1, <2>2, CompleteStep
<1>5. CASE row[t].kind # "list"
  <2> DEFINE c == [run[t] EXCEPT !.pc = "running", !.accept = row[t].kind # "compact",
                                 !.registered = row[t].kind # "compact"]
  <2>1. /\ c \in Run /\ c.pc = "running" /\ c.accept = (row[t].kind # "compact")
        /\ c.registered = (row[t].kind # "compact") /\ c.agents = run[t].agents
        /\ c.announced = run[t].announced
    BY <1>1 DEF Run
  <2>2. row' = [row EXCEPT ![t] = row[t]] /\ run' = [run EXCEPT ![t] = c]
        /\ UNCHANGED <<active, threadStatus>>
    BY <1>5 DEF Dispatch, IndInv
  <2> HIDE DEF c
  <2>3. TurnOK(row[t], c, proc)
    BY <1>1, <1>2, <2>1 DEF TurnOK, Live, Alive
  <2> QED
    BY <1>2, <2>2, <2>3, QuietStep
<1> QED
  BY <1>4, <1>5

LEMMA RuntimeResolvesStep ==
    ASSUME IndInv, NEW t \in Turns, RuntimeResolves(t)
    PROVE  IndInv'
<1> DEFINE pc == IF InProgress(t) THEN "diff" ELSE "done"
           c == Ended(run[t], pc)
<1>1. TurnOK(row[t], run[t], proc) /\ run[t] \in Run
  BY ActiveTurn
<1>2. Alive /\ run[t].pc = "running" /\ UNCHANGED <<proc, seen, active, threadStatus>>
  BY DEF RuntimeResolves
<1>3. /\ c \in Run /\ c.pc = pc /\ ~c.accept /\ ~c.registered /\ c.agents = {}
      /\ c.announced = run[t].announced
  <2>1. pc \in {"done", "diff"}
    OBVIOUS
  <2> HIDE DEF pc
  <2> QED
    BY <1>1, <2>1, EndedType
<1>4. row' = [row EXCEPT ![t] = Orphaned(t)] /\ run' = [run EXCEPT ![t] = c]
  BY DEF RuntimeResolves
<1>5. /\ Orphaned(t) \in Row
      /\ Orphaned(t).thread = row[t].thread /\ Orphaned(t).kind = row[t].kind
      /\ Orphaned(t).status = row[t].status
      /\ \A a \in Agents : Orphaned(t).child[a] # "inProgress"
  BY <1>1, <1>2, OrphanedQuiet
<1> HIDE DEF c
<1>6. TurnOK(Orphaned(t), c, proc)
  BY <1>1, <1>2, <1>3, <1>5 DEF TurnOK, Live, Alive, InProgress
<1> QED
  BY <1>2, <1>4, <1>5, <1>6, QuietStep

LEMMA DiffDoneStep ==
    ASSUME IndInv, NEW t \in Turns, DiffDone(t)
    PROVE  IndInv'
<1> DEFINE c == Ended(run[t], "done")
<1>1. TurnOK(row[t], run[t], proc) /\ row[t] \in Row /\ run[t] \in Run
  BY ActiveTurn
<1>2. Alive /\ run[t].pc = "diff" /\ UNCHANGED <<proc, seen>>
  BY DEF DiffDone
<1>3. \A a \in Agents : row[t].child[a] # "inProgress"
  BY <1>1, <1>2 DEF TurnOK, Alive
<1>4. CASE InProgress(t)
  <2>1. TurnOK([row[t] EXCEPT !.status = "completed"], Announce(c), proc)
    BY <1>1, <1>2, <1>3, <1>4, CompletedOK DEF Live, Terminal
  <2>2. Complete(t, row[t], c, "completed")
    BY <1>4 DEF DiffDone
  <2> QED
    BY <1>2, <2>1, <2>2, CompleteStep
<1>5. CASE ~InProgress(t)
  <2>1. /\ c \in Run /\ c.pc = "done" /\ ~c.accept /\ ~c.registered /\ c.agents = {}
        /\ c.announced = run[t].announced
    BY <1>1, EndedType
  <2>2. row' = [row EXCEPT ![t] = row[t]] /\ run' = [run EXCEPT ![t] = c]
        /\ UNCHANGED <<active, threadStatus>>
    BY <1>5 DEF DiffDone, IndInv
  <2> HIDE DEF c
  <2>3. TurnOK(row[t], c, proc)
    BY <1>1, <1>2, <1>3, <1>5, <2>1 DEF TurnOK, Live, Alive, InProgress
  <2> QED
    BY <1>2, <2>2, <2>3, QuietStep
<1> QED
  BY <1>4, <1>5

LEMMA CompactEndsStep ==
    ASSUME IndInv, NEW t \in Turns, CompactEnds(t)
    PROVE  IndInv'
<1>1. TurnOK(row[t], run[t], proc) /\ row[t] \in Row /\ run[t] \in Run
  BY ActiveTurn
<1>2. Alive /\ run[t].pc = "running" /\ row[t].kind = "compact" /\ UNCHANGED <<proc, seen>>
  BY DEF CompactEnds
<1>3. \A a \in Agents : row[t].child[a] # "inProgress"
  BY <1>1, <1>2 DEF TurnOK, Alive
<1>4. TurnOK([row[t] EXCEPT !.status = "completed"], Announce(Ended(run[t], "done")), proc)
  BY <1>1, <1>2, <1>3, CompletedOK DEF Live, Terminal
<1> QED
  BY <1>2, <1>4, CompleteStep DEF CompactEnds

-----------------------------------------------------------------------------
(* The end of the process, and the next one.                                *)

LEMMA StopStep == ASSUME IndInv, Stop PROVE IndInv'
<1> DEFINE registered(t) == run[t].registered /\ InProgress(t)
           current(t) == InProgress(t) /\ \E th \in Threads : active[th] = t
           settled(t) == IF registered(t) THEN FinalizeOrphans(t) ELSE row[t]
           r(t) == IF current(t) THEN [settled(t) EXCEPT !.status = "interrupted"]
                   ELSE settled(t)
           c(t) == [run[t] EXCEPT !.registered = FALSE,
                                  !.agents = IF registered(t) THEN {} ELSE run[t].agents]
<1>1. /\ proc = "up" /\ proc' = "stopping" /\ seen' = seen
      /\ row' = [t \in Turns |-> r(t)] /\ run' = [t \in Turns |-> c(t)]
      /\ active' = [th \in Threads |-> None]
      /\ threadStatus' = [th \in Threads |->
                            IF active[th] # None THEN "idle" ELSE threadStatus[th]]
  BY DEF Stop
<1>2. ASSUME NEW t \in Turns PROVE TurnOK(r(t), c(t), "stopping")
  <2>1. /\ TurnOK(row[t], run[t], "up") /\ row[t] \in Row /\ run[t] \in Run
        /\ run[t].agents \in SUBSET Agents
    BY <1>1, ActiveTurn
  <2>2. /\ settled(t) \in Row /\ settled(t).thread = row[t].thread
        /\ settled(t).kind = row[t].kind /\ settled(t).status = row[t].status
        /\ \A a \in Agents : settled(t).child[a] # "inProgress"
    <3>1. CASE registered(t)
      BY <2>1, <3>1, ChildrenEndedType DEF FinalizeOrphans, TurnOK
    <3>2. CASE ~registered(t)
      BY <2>1, <3>2 DEF TurnOK, InProgress
    <3> QED
      BY <3>1, <3>2
  <2>3. /\ c(t) \in Run /\ c(t).pc = run[t].pc /\ c(t).accept = run[t].accept
        /\ ~c(t).registered /\ c(t).announced = run[t].announced /\ c(t).agents = {}
    <3>1. /\ c(t) \in Run /\ c(t).pc = run[t].pc /\ c(t).accept = run[t].accept
          /\ ~c(t).registered /\ c(t).announced = run[t].announced
          /\ c(t).agents = IF registered(t) THEN {} ELSE run[t].agents
      BY <2>1 DEF Run
    <3> QED
      BY <2>1, <3>1 DEF TurnOK, InProgress
  <2> HIDE DEF settled, c
  <2>4. /\ r(t) \in Row /\ r(t).thread = row[t].thread /\ r(t).kind = row[t].kind
        /\ r(t).status = row[t].status \/ (r(t).status = "interrupted" /\ InProgress(t))
        /\ \A a \in Agents : r(t).child[a] # "inProgress"
    <3>1. CASE current(t)
      BY <2>2, <3>1 DEF Row, Statuses, Terminal
    <3>2. CASE ~current(t)
      BY <2>2, <3>2
    <3> QED
      BY <3>1, <3>2
  <2> HIDE DEF r
  <2> QED
    BY <2>1, <2>3, <2>4 DEF TurnOK, Live, InProgress
<1> HIDE DEF r, c
<1>3. /\ \A t \in Turns : row'[t] = r(t) /\ run'[t] = c(t)
      /\ \A t \in Turns : r(t) \in Row /\ c(t) \in Run
  BY <1>1, <1>2 DEF TurnOK
<1>4. TurnsOK'
  BY <1>1, <1>2, <1>3 DEF TurnsOK
<1>5. ThreadsOK'
  BY <1>1 DEF IndInv, ThreadsOK, ActiveEntryIsLive
<1> QED
  BY <1>1, <1>3, <1>4, <1>5 DEF IndInv

\* The rows the process leaves behind need a thread and a kind, and no more.
LEMMA ForgetStep ==
    ASSUME IndInv, Forget, row' \in [Turns -> Row],
           \A t \in Turns : row'[t].status # "absent" =>
                              row'[t].thread \in Threads /\ row'[t].kind \in Kinds,
           threadStatus' = threadStatus
    PROVE  IndInv'
<1>1. /\ proc' = "down" /\ seen' = {} /\ active' = [th \in Threads |-> None]
      /\ run' = [t \in Turns |-> [NoRun EXCEPT !.pc = IF row'[t].status = "absent"
                                                     THEN "none" ELSE "gone"]]
  BY DEF Forget
<1>2. ASSUME NEW t \in Turns
      PROVE  /\ run'[t] \in Run /\ ~run'[t].accept /\ ~run'[t].registered
             /\ run'[t].agents = {}
             /\ run'[t].pc = IF row'[t].status = "absent" THEN "none" ELSE "gone"
  BY <1>1, NothingTypes DEF NoRun, Run
<1>3. TurnsOK'
  BY <1>1, <1>2 DEF TurnsOK, TurnOK, Live
<1>4. ThreadsOK'
  BY <1>1 DEF IndInv, ThreadsOK, ActiveEntryIsLive
<1>5. run' \in [Turns -> Run]
  BY <1>1, <1>2
<1> QED
  BY <1>1, <1>3, <1>4, <1>5 DEF IndInv

LEMMA CrashStep ==
    ASSUME IndInv, Close \/ Crash \/ \E t \in Turns : CrashInside(t)
    PROVE  IndInv'
<1>1. ASSUME NEW t \in Turns
      PROVE  /\ row[t] \in Row
             /\ row[t].status # "absent" => row[t].thread \in Threads /\ row[t].kind \in Kinds
  BY ActiveTurn DEF TurnOK
<1>2. CASE Close \/ Crash
  BY <1>1, <1>2, ForgetStep DEF Close, Crash, IndInv
<1>3. ASSUME NEW t \in Turns, CrashInside(t) PROVE IndInv'
  <2>1. Forget /\ threadStatus' = threadStatus
    BY <1>3 DEF CrashInside
  <2>2. ASSUME NEW r \in Row, row' = [row EXCEPT ![t] = r],
               r.status # "absent" => r.thread \in Threads /\ r.kind \in Kinds
        PROVE  IndInv'
    BY <1>1, <2>1, <2>2, ForgetStep DEF IndInv
  <2>3. ASSUME NEW th \in Threads, NEW kind \in KindsOf[t],
               row' = [row EXCEPT ![t] = [NoRow EXCEPT !.thread = th, !.kind = kind,
                                                       !.status = "inProgress"]]
        PROVE  IndInv'
    <3> DEFINE r == [NoRow EXCEPT !.thread = th, !.kind = kind, !.status = "inProgress"]
    <3>1. kind \in Kinds
      BY TurnsAssumption
    <3>2. r \in Row /\ r.thread \in Threads /\ r.kind \in Kinds
      BY <3>1, NothingTypes DEF NoRow, Row, Statuses
    <3> QED
      BY <2>2, <2>3, <3>2
  <2>4. ASSUME NEW a \in Agents, NEW state \in Children, row[t].status # "absent",
               row' = [row EXCEPT ![t].child[a] = state]
        PROVE  IndInv'
    <3> DEFINE child == [row[t].child EXCEPT ![a] = state]
               r == [row[t] EXCEPT !.child = child]
    <3>1. child \in [Agents -> Children]
      BY <1>1 DEF Row
    <3>2. row' = [row EXCEPT ![t] = r]
      BY <1>1, <2>4 DEF IndInv
    <3> HIDE DEF child
    <3>3. r \in Row /\ r.thread = row[t].thread /\ r.kind = row[t].kind
      BY <1>1, <3>1 DEF Row
    <3> HIDE DEF r
    <3> QED
      BY <1>1, <2>2, <2>4, <3>2, <3>3
  <2>5. ASSUME NEW status \in Terminal, InProgress(t),
               row' = [row EXCEPT ![t].status = status]
        PROVE  IndInv'
    <3> DEFINE r == [row[t] EXCEPT !.status = status]
    <3>1. r \in Row /\ r.thread = row[t].thread /\ r.kind = row[t].kind
      BY <1>1 DEF Row, Statuses
    <3>2. row' = [row EXCEPT ![t] = r]
      BY <2>5 DEF IndInv
    <3> HIDE DEF r
    <3> QED
      BY <1>1, <2>2, <2>5, <3>1, <3>2 DEF InProgress
  <2>6. TurnOK(row[t], run[t], proc) /\ run[t].agents \in SUBSET Agents
    BY ActiveTurn
  <2>7. CASE /\ run[t].pc = "running" /\ TurnIsActive(t)
             /\ \E a \in Agents : /\ row[t].child[a] = "absent"
                                 /\ row' = [row EXCEPT ![t].child[a] = "inProgress"]
    BY <2>4, <2>6, <2>7 DEF TurnOK, Children
  <2>8. CASE \E a \in run[t].agents : row' = [row EXCEPT ![t].child[a] = "ended"]
    BY <2>4, <2>6, <2>8 DEF TurnOK, Children
  <2> QED
    BY <1>3, <2>3, <2>5, <2>7, <2>8 DEF CrashInside
<1> QED
  BY <1>2, <1>3

\* Recovery writes one row: of a turn or of a child of its.
LEMMA RecoverStep ==
    ASSUME IndInv, NEW t \in Turns,
           RecoverTurn(t) \/ \E a \in Agents : RecoverChild(t, a)
    PROVE  IndInv'
<1>1. /\ TurnOK(row[t], run[t], proc) /\ row[t] \in Row /\ run[t] \in Run
      /\ proc = "recovering"
  BY ActiveTurn DEF RecoverTurn, RecoverChild
<1>2. /\ \A th \in Threads : active[th] = None
      /\ UNCHANGED <<threadStatus, proc, active, run>>
  BY <1>1 DEF IndInv, ThreadsOK, RecoverTurn, RecoverChild
<1>3. ThreadsOK'
  BY <1>1, <1>2 DEF IndInv, ThreadsOK, ActiveEntryIsLive
<1>4. run' = [run EXCEPT ![t] = run[t]]
  BY <1>2 DEF IndInv
<1>5. ASSUME NEW r \in Row, row' = [row EXCEPT ![t] = r], seen' \in SUBSET Threads,
             r.thread = row[t].thread, r.kind = row[t].kind, row[t].status # "absent",
             r.status # "absent"
      PROVE  IndInv'
  <2>1. TurnOK(r, run[t], proc)
    BY <1>1, <1>5 DEF TurnOK, Live
  <2>2. TurnsOK' /\ row' \in [Turns -> Row] /\ run' \in [Turns -> Run]
    BY <1>2, <1>4, <1>5, <2>1, OneTurn
  <2> QED
    BY <1>1, <1>2, <1>3, <1>5, <2>2 DEF IndInv
<1>6. CASE RecoverTurn(t)
  <2> DEFINE r == [row[t] EXCEPT !.status = "interrupted", !.open = {}]
  <2>1. /\ r \in Row /\ r.thread = row[t].thread /\ r.kind = row[t].kind
        /\ r.status = "interrupted"
    BY <1>1 DEF Row, Statuses, Terminal
  <2>2. row' = [row EXCEPT ![t] = r]
    BY <1>6 DEF RecoverTurn, IndInv
  <2>3. row[t].status # "absent" /\ row[t].thread \in Threads
    BY <1>1, <1>6 DEF RecoverTurn, InProgress, TurnOK
  <2>4. seen' \in SUBSET Threads
    BY <1>6, <2>3 DEF RecoverTurn, IndInv
  <2> HIDE DEF r
  <2> QED
    BY <1>5, <2>1, <2>2, <2>3, <2>4
<1>7. ASSUME NEW a \in Agents, RecoverChild(t, a) PROVE IndInv'
  <2> DEFINE child == [row[t].child EXCEPT ![a] = "ended"]
             r == [row[t] EXCEPT !.child = child]
  <2>1. child \in [Agents -> Children]
    BY <1>1 DEF Row, Children
  <2>2. row' = [row EXCEPT ![t] = r] /\ seen' \in SUBSET Threads
    BY <1>1, <1>7 DEF RecoverChild, IndInv
  <2> HIDE DEF child
  <2>3. /\ r \in Row /\ r.thread = row[t].thread /\ r.kind = row[t].kind
        /\ r.status = row[t].status
    BY <1>1, <2>1 DEF Row
  <2> HIDE DEF r
  <2>4. CASE row[t].status # "absent"
    BY <1>5, <2>2, <2>3, <2>4
  <2>5. CASE row[t].status = "absent"
    <3>1. TurnOK(r, run[t], proc)
      BY <1>1, <2>3, <2>5 DEF TurnOK, Live
    <3>2. TurnsOK' /\ row' \in [Turns -> Row] /\ run' \in [Turns -> Run]
      BY <1>2, <1>4, <2>2, <3>1, OneTurn
    <3> QED
      BY <1>1, <1>2, <1>3, <2>2, <3>2 DEF IndInv
  <2> QED
    BY <2>4, <2>5
<1> QED
  BY <1>6, <1>7 DEF RecoverTurn, RecoverChild

LEMMA RestartStep == ASSUME IndInv, Boot \/ RecoverEnd PROVE IndInv'
<1>1. ASSUME NEW t \in Turns PROVE TurnOK(row[t], run[t], proc) /\ row[t] \in Row
  BY ActiveTurn
<1>2. CASE Boot
  <2>1. TurnsOK'
    BY <1>1, <1>2 DEF Boot, TurnsOK, TurnOK
  <2>2. ThreadsOK'
    BY <1>2 DEF Boot, IndInv, ThreadsOK, ActiveEntryIsLive
  <2> QED
    BY <1>2, <2>1, <2>2 DEF Boot, IndInv
<1>3. CASE RecoverEnd
  <2> DEFINE r(t) == [row[t] EXCEPT !.open = {}]
  <2>1. /\ proc = "recovering" /\ proc' = "up" /\ seen' = {} /\ UNCHANGED <<active, run>>
        /\ row' = [t \in Turns |-> r(t)]
        /\ \A t \in Turns : row[t].status # "inProgress"
        /\ \A t \in Turns, a \in Agents : row[t].child[a] # "inProgress"
        /\ threadStatus' \in [Threads -> {"idle", "active"}]
    BY <1>3 DEF RecoverEnd, InProgress, IndInv, ThreadsOK
  <2>2. ASSUME NEW t \in Turns
        PROVE  /\ r(t) \in Row /\ r(t).thread = row[t].thread /\ r(t).kind = row[t].kind
               /\ r(t).status = row[t].status /\ r(t).child = row[t].child
    BY <1>1 DEF Row
  <2> HIDE DEF r
  <2>3. ASSUME NEW t \in Turns PROVE TurnOK(row'[t], run'[t], proc')
    BY <1>1, <2>1, <2>2 DEF TurnOK, Live
  <2>4. ThreadsOK'
    BY <2>1 DEF IndInv, ThreadsOK, ActiveEntryIsLive
  <2> QED
    BY <2>1, <2>2, <2>3, <2>4 DEF IndInv, TurnsOK
<1> QED
  BY <1>2, <1>3

-----------------------------------------------------------------------------
(* The theorems.                                                            *)

LEMMA NextIndInv == ASSUME IndInv, [Next]_vars PROVE IndInv'
<1>1. CASE Client
  BY <1>1, TurnStartStep, InterruptStep, AnswerSteps DEF Client
<1>2. CASE Runtime
  <2>1. ASSUME NEW t \in Turns, RuntimeRejects(t) PROVE IndInv'
    BY <2>1, CatchStep DEF RuntimeRejects
  <2> QED
    BY <1>2, <2>1, StartSubagentStep, FinishSubagentStep, ToolSteps, AskSteps,
       RuntimeResolvesStep, CompactEndsStep DEF Runtime
<1>3. CASE Loop
  <2>1. ASSUME NEW t \in Turns, WatchdogFires(t) PROVE IndInv'
    BY <2>1, CatchStep DEF WatchdogFires
  <2> QED
    BY <1>3, <2>1, DispatchStep, DiffDoneStep DEF Loop
<1>4. CASE Process
  BY <1>4, StopStep, CrashStep, RecoverStep, RestartStep DEF Process
<1>5. CASE UNCHANGED vars
  BY <1>5 DEF vars, IndInv, TurnsOK, ThreadsOK, ActiveEntryIsLive, InProgress
<1> QED
  BY <1>1, <1>2, <1>3, <1>4, <1>5 DEF Next

LEMMA SpecIndInv == Spec => []IndInv
BY InitIndInv, NextIndInv, PTL DEF Spec

\* The state keeps its types: an announcement is never made a third time.
THEOREM TypeCorrect == Spec => []TypeOK
<1>1. IndInv => TypeOK
  BY IndInvImplies
<1> QED
  BY <1>1, SpecIndInv, PTL

\* No turn of a sub-agent is in progress under a settled parent, whichever of
\* the interrupt, the watchdog, the runtime and stop settles it.
THEOREM ChildrenAlwaysSettleFirst == Spec => []ChildrenSettleFirst
<1>1. IndInv => ChildrenSettleFirst
  BY IndInvImplies
<1> QED
  BY <1>1, SpecIndInv, PTL

\* A turn in progress has code that will settle it.
THEOREM InProgressAlwaysHasRunner == Spec => []InProgressHasRunner
<1>1. IndInv => InProgressHasRunner
  BY IndInvImplies
<1> QED
  BY <1>1, SpecIndInv, PTL

\* activeTurnByThread names live turns of its threads.
THEOREM ActiveEntriesAreLive == Spec => []ActiveEntryIsLive
<1>1. IndInv => ActiveEntryIsLive
  BY IndInvImplies
<1> QED
  BY <1>1, SpecIndInv, PTL

\* The client hears of the end of a turn of turn/start once.
THEOREM AnnouncedOnce == Spec => []TurnAnnouncedOnce
<1>1. IndInv => TurnAnnouncedOnce
  BY IndInvImplies
<1> QED
  BY <1>1, SpecIndInv, PTL

\* A step leaves the status of a settled turn of turn/start as it is.
LEMMA StepKeepsSettled ==
    ASSUME IndInv, [Next]_vars, NEW t \in Turns,
           row[t].kind = "turn", row[t].status \in Terminal
    PROVE  row'[t].status = row[t].status
<1>1. row \in [Turns -> Row] /\ ~InProgress(t) /\ row[t].status # "absent"
  BY DEF IndInv, InProgress, Terminal
<1> DEFINE Keeps(r) == r.status = row[t].status
<1>2. ASSUME NEW u \in Turns, NEW r, row' = [row EXCEPT ![u] = r], u = t => Keeps(r)
      PROVE  row'[t].status = row[t].status
  BY <1>1, <1>2
<1>3. \A as \in SUBSET Agents : Keeps(WithChildrenEnded(row[t], as))
  BY <1>1, ChildrenEndedType
<1>4. Keeps(Orphaned(t))
  BY <1>1 DEF Orphaned
<1>5. ASSUME NEW u \in Turns, RuntimeRejects(u) \/ WatchdogFires(u)
      PROVE  row'[t].status = row[t].status
  <2>1. Catch(u, Orphaned(u), Ended(run[u], "done"))
    BY <1>5 DEF RuntimeRejects, WatchdogFires
  <2>2. CASE row' = [row EXCEPT ![u] = Orphaned(u)]
    BY <1>2, <1>4, <2>2
  <2>3. CASE Complete(u, Orphaned(u), Ended(run[u], "done"), "failed") /\ u # t
    BY <1>2, <2>3 DEF Complete
  <2> QED
    BY <1>1, <2>1, <2>2, <2>3 DEF Catch
<1>6. CASE Client
  <2>1. ASSUME NEW u \in Turns, NEW th \in Threads, NEW kind \in KindsOf[u],
               TurnStart(u, th, kind)
        PROVE  row'[t].status = row[t].status
    <3>1. u # t
      BY <1>1, <2>1 DEF TurnStart
    <3> QED
      BY <1>1, <2>1, <3>1 DEF TurnStart
  <2>2. ASSUME NEW th \in Threads, NEW q \in {u \in Turns : row[u].thread = th} \cup {None},
               Interrupt(th, q)
        PROVE  row'[t].status = row[t].status
    <3> DEFINE u == IF active[th] # None THEN active[th] ELSE q
    <3>1. CASE u # None /\ InProgress(u)
      <4>1. u # t
        BY <1>1, <3>1
      <4> QED
        BY <1>1, <2>2, <3>1, <4>1 DEF Interrupt
    <3>2. CASE ~(u # None /\ InProgress(u))
      BY <2>2, <3>2 DEF Interrupt
    <3> QED
      BY <3>1, <3>2
  <2>3. ASSUME NEW u \in Turns, AnswerApproval(u) \/ AnswerQuestion(u)
        PROVE  row'[t].status = row[t].status
    BY <1>1, <2>3 DEF AnswerApproval, AnswerQuestion, Row
  <2> QED
    BY <1>6, <2>1, <2>2, <2>3 DEF Client
<1>7. CASE Runtime
  <2>1. ASSUME NEW u \in Turns, NEW a \in Agents,
               StartSubagent(u, a) \/ FinishSubagent(u, a)
        PROVE  row'[t].status = row[t].status
    <3>1. u # t
      BY <1>1, <2>1 DEF StartSubagent, FinishSubagent, TurnIsActive
    <3> QED
      BY <1>1, <2>1, <3>1 DEF StartSubagent, FinishSubagent
  <2>2. ASSUME NEW u \in Turns,
               \/ \E workflow \in BOOLEAN : OpenTool(u, workflow)
               \/ CloseTool(u) \/ AskQuestion(u) \/ \E card \in BOOLEAN : AskApproval(u, card)
        PROVE  row'[t].status = row[t].status
    <3>1. u # t
      BY <1>1, <2>2 DEF OpenTool, CloseTool, AskQuestion, AskApproval, TurnIsActive
    <3> QED
      BY <1>1, <2>2, <3>1 DEF OpenTool, CloseTool, AskQuestion, AskApproval
  <2>3. ASSUME NEW u \in Turns, RuntimeResolves(u)
        PROVE  row'[t].status = row[t].status
    BY <1>2, <1>4, <2>3 DEF RuntimeResolves
  <2>4. ASSUME NEW u \in Turns, CompactEnds(u)
        PROVE  row'[t].status = row[t].status
    BY <1>2, <2>4 DEF CompactEnds, Complete
  <2> QED
    BY <1>5, <1>7, <2>1, <2>2, <2>3, <2>4 DEF Runtime
<1>8. CASE Loop
  <2>1. ASSUME NEW u \in Turns, Dispatch(u) \/ DiffDone(u)
        PROVE  row'[t].status = row[t].status
    <3>1. \/ UNCHANGED row
          \/ /\ u # t
             /\ row' = [row EXCEPT ![u] = [row[u] EXCEPT !.status = "completed"]]
      BY <1>1, <2>1 DEF Dispatch, DiffDone, Complete
    <3> QED
      BY <1>1, <3>1
  <2> QED
    BY <1>5, <1>8, <2>1 DEF Loop
<1>9. CASE Process
  <2>1. CASE Stop
    BY <1>1, <2>1 DEF Stop
  <2>2. CASE RecoverEnd
    BY <1>1, <2>2 DEF RecoverEnd, Row
  <2>3. ASSUME NEW u \in Turns, NEW a, NEW state, row' = [row EXCEPT ![u].child[a] = state]
        PROVE  row'[t].status = row[t].status
    <3>1. row' = [row EXCEPT ![u] = [row[u] EXCEPT !.child = [row[u].child EXCEPT ![a] = state]]]
      BY <1>1, <2>3
    <3>2. row[u] \in Row
      BY <1>1
    <3> QED
      BY <1>1, <3>1, <3>2 DEF Row
  <2>4. ASSUME NEW u \in Turns, CrashInside(u)
        PROVE  row'[t].status = row[t].status
    <3>1. \/ /\ u # t
             /\ \E r : row' = [row EXCEPT ![u] = r]
          \/ \E a \in Agents \cup run[u].agents, state \in Children :
               row' = [row EXCEPT ![u].child[a] = state]
          \/ /\ u # t
             /\ \E status \in Terminal : row' = [row EXCEPT ![u].status = status]
      BY <1>1, <2>4 DEF CrashInside, InProgress, Children
    <3> QED
      BY <1>1, <2>3, <3>1
  <2>5. ASSUME NEW u \in Turns, RecoverTurn(u)
        PROVE  row'[t].status = row[t].status
    BY <1>1, <2>5 DEF RecoverTurn, InProgress
  <2>6. ASSUME NEW u \in Turns, NEW a \in Agents, RecoverChild(u, a)
        PROVE  row'[t].status = row[t].status
    BY <2>3, <2>6 DEF RecoverChild
  <2> QED
    BY <1>9, <2>1, <2>2, <2>4, <2>5, <2>6 DEF Process, Close, Crash, Boot
<1> QED
  BY <1>6, <1>7, <1>8, <1>9 DEF Next, vars

\* Once settled, a turn of turn/start stays as it was settled: the late answer
\* of a runtime, the watchdog, shutdown and recovery leave it alone.
THEOREM SettledStays == Spec => SettledTurnStays
<1>1. IndInv /\ [Next]_vars =>
        [\A t \in Turns :
           row[t].kind = "turn" /\ row[t].status \in Terminal
             => row'[t].status = row[t].status]_vars
  BY StepKeepsSettled
<1> QED
  BY <1>1, SpecIndInv, PTL DEF Spec, SettledTurnStays

\* Only the end of recovery brings the server up.
LEMMA StepRestarts ==
    ASSUME IndInv, Next, proc = "recovering", proc' = "up"
    PROVE  /\ \A th \in Threads : threadStatus'[th] = "idle"
           /\ \A t \in Turns :
                /\ row'[t].status # "inProgress" /\ row'[t].open = {}
                /\ \A a \in Agents : row'[t].child[a] # "inProgress"
<1>1. RecoverEnd
  <2>1. ~Client
    BY DEF Client, TurnStart, Interrupt, AnswerApproval, AnswerQuestion
  <2>2. ~Runtime
    BY DEF Runtime, StartSubagent, FinishSubagent, OpenTool, CloseTool, AskApproval,
       AskQuestion, RuntimeRejects, RuntimeResolves, CompactEnds, Alive
  <2>3. ~Loop
    BY DEF Loop, Dispatch, WatchdogFires, DiffDone, Alive
  <2> QED
    BY <2>1, <2>2, <2>3 DEF Next, Process, Stop, Close, Crash, CrashInside, Forget, Boot,
       RecoverTurn, RecoverChild
<1>2. \A t \in Turns : row[t] \in Row
  BY DEF IndInv
<1> QED
  BY <1>1, <1>2 DEF RecoverEnd, InProgress, Row

\* A process that comes up finds nothing in progress and every thread idle,
\* whatever the crash before it.
THEOREM RestartsSettled == Spec => RestartSettles
<1>1. IndInv /\ [Next]_vars =>
        [proc = "recovering" /\ proc' = "up" =>
           /\ \A th \in Threads : threadStatus'[th] = "idle"
           /\ \A t \in Turns :
                /\ row'[t].status # "inProgress" /\ row'[t].open = {}
                /\ \A a \in Agents : row'[t].child[a] # "inProgress"]_vars
  BY StepRestarts
<1> QED
  BY <1>1, SpecIndInv, PTL DEF Spec, RestartSettles
=============================================================================
