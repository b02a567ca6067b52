---------------------------- MODULE AdapterTurns ----------------------------
(***************************************************************************)
(* Turns of the adapter server (server.mts): how a turn is started, run by  *)
(* a runtime, ended, interrupted, and recovered by the next process.        *)
(*                                                                         *)
(* A handler runs without interruption from one await to the next, so an   *)
(* action is the code between two awaits; the runtime's events, the        *)
(* client's requests and answers, the watchdog's timer and the end of the  *)
(* process come in any order between them.  Rows of SQLite survive the     *)
(* process, the server's maps and the closure of a running turn do not.    *)
(***************************************************************************)
EXTENDS Naturals, FiniteSets

CONSTANTS Turns,    \* turns, numbered in the order they are started
          Threads,
          Agents,   \* sub-agents a turn may spawn
          Kinds,    \* the requests that start a turn
          KindsOf,  \* those that may start each turn
          None

ASSUME TurnsAssumption ==
    /\ Turns \subseteq Nat
    /\ IsFiniteSet(Turns)
    /\ Kinds = {"turn", "review", "compact", "list"}
    /\ KindsOf \in [Turns -> SUBSET Kinds]
    /\ None \notin Threads \cup Turns
    /\ Agents \cap {"tool", "question"} = {}

VARIABLES
    row,           \* the rows of turns and of their sub-agents' turns
    threadStatus,  \* status of the thread rows
    proc,          \* the adapter process
    active,        \* activeTurnByThread
    run,           \* the closure of each turn and its entries in the maps
    seen           \* recovery's seenThreads

vars == <<row, threadStatus, proc, active, run, seen>>

Terminal == {"completed", "failed", "interrupted"}
Statuses == Terminal \cup {"absent", "inProgress"}

\* A sub-agent's turn; how it ended is left out.
Children == {"absent", "inProgress", "ended"}

\* open: the items of the turn whose status is inProgress; an agent stands
\* for its wait item, "tool" for a tool's item, "question" for a question's.
Row == [thread : Threads \cup {None}, kind : Kinds \cup {None},
        status : Statuses, child : [Agents -> Children],
        open : SUBSET (Agents \cup {"tool", "question"})]

\* "queued" waits for its setImmediate, "diff" for the last gitDiff, "gone"
\* ran in an earlier process.  registered is membership of
\* subagentStateByTurn, asking the turn's pending server requests, announced
\* the number of turn/completed sent for it.
Run == [pc : {"none", "queued", "running", "diff", "done", "gone"},
        accept : BOOLEAN, registered : BOOLEAN, agents : SUBSET Agents,
        workflow : BOOLEAN, watchdog : BOOLEAN,
        asking : SUBSET {"approval", "question"}, announced : 0 .. 2]

NoRow == [thread |-> None, kind |-> None, status |-> "absent",
          child |-> [a \in Agents |-> "absent"], open |-> {}]
NoRun == [pc |-> "none", accept |-> FALSE, registered |-> FALSE, agents |-> {},
          workflow |-> FALSE, watchdog |-> FALSE, asking |-> {}, announced |-> 0]

TypeOK ==
    /\ row \in [Turns -> Row]
    /\ threadStatus \in [Threads -> {"idle", "active"}]
    /\ proc \in {"up", "stopping", "down", "recovering"}
    /\ active \in [Threads -> Turns \cup {None}]
    /\ run \in [Turns -> Run]
    /\ seen \subseteq Threads

Init ==
    /\ row = [t \in Turns |-> NoRow]
    /\ threadStatus = [th \in Threads |-> "idle"]
    /\ proc = "up"
    /\ active = [th \in Threads |-> None]
    /\ run = [t \in Turns |-> NoRun]
    /\ seen = {}

-----------------------------------------------------------------------------
(* Helpers of the server.                                                   *)

InProgress(t) == row[t].status = "inProgress"

\* The store is open and the event loop runs: up, or stopped and not closed.
Alive == proc \in {"up", "stopping"}

\* Mutant: a turn that has stopped listening still takes events.
DeafTurnIsActive(t) == InProgress(t) /\ active[row[t].thread] = t

TurnIsActive(t) ==
    /\ run[t].accept
    /\ InProgress(t)
    /\ active[row[t].thread] = t

\* completeSubagentChildTurn for every agent in as, their wait items closed.
WithChildrenEnded(r, as) ==
    [r EXCEPT !.child = [a \in Agents |-> IF a \in as THEN "ended" ELSE r.child[a]],
              !.open = r.open \ as]

\* finalizeOrphanedSubagents, on the row: the active agents' turns end.
FinalizeOrphans(t) == WithChildrenEnded(row[t], run[t].agents)

\* The closure of a turn that takes no more events and is in no map.
Ended(r, pc) == [r EXCEPT !.pc = pc, !.accept = FALSE, !.registered = FALSE,
                          !.agents = {}, !.watchdog = FALSE]

\* notify says nothing once the server is stopped.
Announce(r) == IF proc = "up" THEN [r EXCEPT !.announced = r.announced + 1] ELSE r

\* Mutant: the thread keeps the entry of the turn that has ended.
CompleteKeepingEntry(t, rw, rn, status) ==
    /\ row' = [row EXCEPT ![t] = [rw EXCEPT !.status = status]]
    /\ run' = [run EXCEPT ![t] = Announce(rn)]
    /\ threadStatus' = [threadStatus EXCEPT ![row[t].thread] = "idle"]
    /\ UNCHANGED active

\* completeTurn, clearActiveTurn, setThreadStatus and turn/completed, in one
\* step: rw and rn are the turn's row and closure before them.
Complete(t, rw, rn, status) ==
    /\ row' = [row EXCEPT ![t] = [rw EXCEPT !.status = status]]
    /\ run' = [run EXCEPT ![t] = Announce(rn)]
    /\ active' = [active EXCEPT ![row[t].thread] = None]
    /\ threadStatus' = [threadStatus EXCEPT ![row[t].thread] = "idle"]

\* Mutant: only a workflow arms it.
ArmedByWorkflow(r) == [r EXCEPT !.watchdog = r.accept /\ r.workflow]

\* armWatchdog, for a closure that has an agent or a workflow in flight.
Armed(r) == [r EXCEPT !.watchdog = r.accept /\ (r.agents # {} \/ r.workflow)]

-----------------------------------------------------------------------------
(* Requests of the client.                                                  *)

\* turn/start, review/start and thread/compact/start.  None of them asks
\* whether the thread has an active turn: a second one takes its place.
TurnStart(t, th, kind) ==
    /\ proc = "up"
    /\ row[t].status = "absent"
    /\ \A u \in Turns : u < t => row[u].status # "absent"
    /\ row' = [row EXCEPT ![t] = [NoRow EXCEPT !.thread = th, !.kind = kind,
                                               !.status = "inProgress"]]
    /\ run' = [run EXCEPT ![t] = [NoRun EXCEPT !.pc = "queued"]]
    /\ active' = [active EXCEPT ![th] = t]
    /\ threadStatus' = [threadStatus EXCEPT ![th] = "active"]
    /\ UNCHANGED <<proc, seen>>

\* turn/interrupt.  The active turn of the thread, or the one the client
\* names, is settled before the runtime is asked to abort.
Interrupt(th, requested) ==
    LET t == IF active[th] # None THEN active[th] ELSE requested IN
    /\ proc = "up"
    /\ IF t # None /\ InProgress(t)
       THEN /\ row' = [row EXCEPT ![t] =
                          [(IF run[t].registered THEN FinalizeOrphans(t) ELSE row[t])
                             EXCEPT !.status = "interrupted"]]
            /\ run' = [run EXCEPT ![t] = Announce(
                          IF run[t].registered
                          THEN [run[t] EXCEPT !.registered = FALSE, !.agents = {}]
                          ELSE run[t])]
       ELSE UNCHANGED <<row, run>>
    /\ active' = [active EXCEPT ![th] = None]
    /\ threadStatus' = [threadStatus EXCEPT ![th] = "idle"]
    /\ UNCHANGED <<proc, seen>>

\* The client answers an approval.  requestApproval's finally marks the
\* thread active whatever became of the turn meanwhile.
AnswerApproval(t) ==
    /\ proc = "up"
    /\ "approval" \in run[t].asking
    /\ run' = [run EXCEPT ![t].asking = run[t].asking \ {"approval"}]
    /\ threadStatus' = [threadStatus EXCEPT ![row[t].thread] = "active"]
    /\ UNCHANGED <<row, proc, active, seen>>

\* The client answers a question: its item is completed if the turn still
\* is the active one.
AnswerQuestion(t) ==
    /\ proc = "up"
    /\ "question" \in run[t].asking
    /\ run' = [run EXCEPT ![t].asking = run[t].asking \ {"question"}]
    /\ IF TurnIsActive(t)
       THEN /\ row' = [row EXCEPT ![t].open = row[t].open \ {"question"}]
            /\ threadStatus' = [threadStatus EXCEPT ![row[t].thread] = "active"]
       ELSE UNCHANGED <<row, threadStatus>>
    /\ UNCHANGED <<proc, active, seen>>

-----------------------------------------------------------------------------
(* The turn's own code.                                                     *)

\* The setImmediate callback.  "/workflows" is answered on the spot, whatever
\* happened to the turn since it was queued; the others call the runtime.
Dispatch(t) ==
    /\ Alive
    /\ run[t].pc = "queued"
    /\ IF row[t].kind = "list"
       THEN Complete(t, row[t], Ended(run[t], "done"), "completed")
       ELSE /\ run' = [run EXCEPT ![t].pc = "running",
                                  ![t].accept = row[t].kind # "compact",
                                  ![t].registered = row[t].kind # "compact"]
            /\ UNCHANGED <<row, active, threadStatus>>
    /\ UNCHANGED <<proc, seen>>

\* startSubagent: the child's turn, its wait item, the watchdog.  The runtime
\* may send the event after its promise has settled.
StartSubagent(t, a) ==
    /\ proc = "up"
    /\ run[t].pc \in {"running", "diff"}
    /\ TurnIsActive(t)
    /\ row[t].child[a] = "absent"
    /\ row' = [row EXCEPT ![t].child[a] = "inProgress", ![t].open = row[t].open \cup {a}]
    /\ run' = [run EXCEPT ![t] = Armed([run[t] EXCEPT !.agents = run[t].agents \cup {a}])]
    /\ UNCHANGED <<threadStatus, proc, active, seen>>

\* finishSubagent, for the result of a Task still active.
FinishSubagent(t, a) ==
    /\ proc = "up"
    /\ TurnIsActive(t)
    /\ a \in run[t].agents
    /\ row' = [row EXCEPT ![t] = WithChildrenEnded(row[t], {a})]
    /\ run' = [run EXCEPT ![t] = Armed([run[t] EXCEPT !.agents = run[t].agents \ {a}])]
    /\ UNCHANGED <<threadStatus, proc, active, seen>>

\* openToolItem: suppressed while a sub-agent runs; a Workflow arms the
\* watchdog by itself.
OpenTool(t, workflow) ==
    /\ proc = "up"
    /\ TurnIsActive(t)
    /\ run[t].agents = {}
    /\ "tool" \notin row[t].open
    /\ row' = [row EXCEPT ![t].open = row[t].open \cup {"tool"}]
    /\ run' = [run EXCEPT ![t] = Armed([run[t] EXCEPT !.workflow = workflow])]
    /\ UNCHANGED <<threadStatus, proc, active, seen>>

\* closeToolItem.
CloseTool(t) ==
    /\ proc = "up"
    /\ TurnIsActive(t)
    /\ "tool" \in row[t].open
    /\ row' = [row EXCEPT ![t].open = row[t].open \ {"tool"}]
    /\ run' = [run EXCEPT ![t] = Armed([run[t] EXCEPT !.workflow = FALSE])]
    /\ UNCHANGED <<threadStatus, proc, active, seen>>

\* onPermissionRequest up to its await: the tool's item, and a card for the
\* client when the thread's posture does not decide (one at a time here).
AskApproval(t, card) ==
    /\ proc = "up"
    /\ TurnIsActive(t)
    /\ "approval" \notin run[t].asking
    /\ row' = [row EXCEPT ![t].open = row[t].open \cup {"tool"}]
    /\ IF card
       THEN /\ run' = [run EXCEPT ![t].asking = run[t].asking \cup {"approval"}]
            /\ threadStatus' = [threadStatus EXCEPT ![row[t].thread] = "active"]
       ELSE UNCHANGED <<run, threadStatus>>
    /\ UNCHANGED <<proc, active, seen>>

\* onUserInputRequest up to its await (one question at a time here).
AskQuestion(t) ==
    /\ proc = "up"
    /\ TurnIsActive(t)
    /\ "question" \notin run[t].asking
    /\ row' = [row EXCEPT ![t].open = row[t].open \cup {"question"}]
    /\ run' = [run EXCEPT ![t].asking = run[t].asking \cup {"question"}]
    /\ threadStatus' = [threadStatus EXCEPT ![row[t].thread] = "active"]
    /\ UNCHANGED <<proc, active, seen>>

\* Mutant: the handler of turn/start has lost its check of the row.
BlindCatch(t, rw, rn) ==
    IF proc # "up"
    THEN row' = [row EXCEPT ![t] = rw] /\ run' = [run EXCEPT ![t] = rn]
         /\ UNCHANGED <<active, threadStatus>>
    ELSE Complete(t, rw, rn, "failed")

\* Mutant: the error ends the closure and nothing else.
SilentCatch(t, rw, rn) ==
    /\ row' = [row EXCEPT ![t] = rw] /\ run' = [run EXCEPT ![t] = rn]
    /\ UNCHANGED <<active, threadStatus>>

\* The .catch of a runtime turn.  After stop it does nothing; turn/start's
\* leaves a settled turn alone, review/start's does not look.
Catch(t, rw, rn) ==
    IF \/ proc # "up"
       \/ row[t].kind = "turn" /\ ~InProgress(t)
    THEN row' = [row EXCEPT ![t] = rw] /\ run' = [run EXCEPT ![t] = rn]
         /\ UNCHANGED <<active, threadStatus>>
    ELSE Complete(t, rw, rn, "failed")

\* What the children become when the runtime's promise settles.
Orphaned(t) == IF InProgress(t) THEN FinalizeOrphans(t) ELSE row[t]

\* The sub-agent watchdog: the turn stops listening, fails its children and
\* throws into its .catch.
WatchdogFires(t) ==
    /\ Alive
    /\ run[t].pc = "running"
    /\ run[t].watchdog
    /\ Catch(t, Orphaned(t), Ended(run[t], "done"))
    /\ UNCHANGED <<proc, seen>>

\* The runtime's promise rejects: an error event, a failed result, an abort.
RuntimeRejects(t) ==
    /\ Alive
    /\ run[t].pc = "running"
    /\ row[t].kind # "compact"
    /\ Catch(t, Orphaned(t), Ended(run[t], "done"))
    /\ UNCHANGED <<proc, seen>>

\* It resolves: orphans are finalized, then the last diff is awaited.
RuntimeResolves(t) ==
    /\ Alive
    /\ run[t].pc = "running"
    /\ row[t].kind # "compact"
    /\ row' = [row EXCEPT ![t] = Orphaned(t)]
    /\ run' = [run EXCEPT ![t] = Ended(run[t], IF InProgress(t) THEN "diff" ELSE "done")]
    /\ UNCHANGED <<threadStatus, proc, active, seen>>

\* Mutant: a turn is completed once per diff it asked for.
RepeatedDiffDone(t) ==
    /\ Alive
    /\ run[t].pc = "diff"
    /\ Complete(t, row[t], run[t], "completed")
    /\ UNCHANGED <<proc, seen>>

\* Mutant: the row is not read again after the diff.
StaleDiffDone(t) ==
    /\ Alive
    /\ run[t].pc = "diff"
    /\ Complete(t, row[t], Ended(run[t], "done"), "completed")
    /\ UNCHANGED <<proc, seen>>

\* The diff is there: the turn completes unless it was settled meanwhile.
DiffDone(t) ==
    /\ Alive
    /\ run[t].pc = "diff"
    /\ IF InProgress(t)
       THEN Complete(t, row[t], Ended(run[t], "done"), "completed")
       ELSE /\ run' = [run EXCEPT ![t] = Ended(run[t], "done")]
            /\ UNCHANGED <<row, active, threadStatus>>
    /\ UNCHANGED <<proc, seen>>

\* The .finally of a compaction, whatever its runtime said and whatever
\* happened to the turn or to the server.
CompactEnds(t) ==
    /\ Alive
    /\ run[t].pc = "running"
    /\ row[t].kind = "compact"
    /\ Complete(t, row[t], Ended(run[t], "done"), "completed")
    /\ UNCHANGED <<proc, seen>>

-----------------------------------------------------------------------------
(* The end of the process, and the next one.                                *)

\* stop(): finalizeActiveSubagentsForShutdown, then completeActiveTurns.
\* A signal, the end of stdin and the idle exit all come here.
Stop ==
    LET registered(t) == run[t].registered /\ InProgress(t)
        current(t) == InProgress(t) /\ \E th \in Threads : active[th] = t
        settled(t) == IF registered(t) THEN FinalizeOrphans(t) ELSE row[t]
    IN
    /\ proc = "up"
    /\ proc' = "stopping"
    /\ row' = [t \in Turns |-> IF current(t)
                               THEN [settled(t) EXCEPT !.status = "interrupted"]
                               ELSE settled(t)]
    /\ run' = [t \in Turns |->
                 [run[t] EXCEPT !.registered = FALSE,
                                !.agents = IF registered(t) THEN {} ELSE run[t].agents]]
    /\ threadStatus' = [th \in Threads |->
                          IF active[th] # None THEN "idle" ELSE threadStatus[th]]
    /\ active' = [th \in Threads |-> None]
    /\ UNCHANGED seen

\* What the next process finds in memory.
Forget ==
    /\ active' = [th \in Threads |-> None]
    /\ run' = [t \in Turns |-> [NoRun EXCEPT !.pc = IF row'[t].status = "absent"
                                                    THEN "none" ELSE "gone"]]
    /\ seen' = {}
    /\ proc' = "down"

\* store.close() and exit.
Close ==
    /\ proc = "stopping"
    /\ UNCHANGED <<row, threadStatus>>
    /\ Forget

\* The process dies between two handlers, in recovery too.
Crash ==
    /\ proc # "down"
    /\ UNCHANGED <<row, threadStatus>>
    /\ Forget

\* It dies inside a handler, between two of its writes: a turn's row written
\* and not yet its thread's, a child's row and not yet its wait item, or a
\* turn settled and its thread still active.
CrashInside(t) ==
    /\ proc = "up"
    /\ UNCHANGED threadStatus
    /\ \/ /\ row[t].status = "absent"
          /\ \A u \in Turns : u < t => row[u].status # "absent"
          /\ \E th \in Threads, kind \in KindsOf[t] :
               row' = [row EXCEPT ![t] = [NoRow EXCEPT !.thread = th, !.kind = kind,
                                                       !.status = "inProgress"]]
       \/ /\ run[t].pc = "running" /\ TurnIsActive(t)
          /\ \E a \in Agents :
               /\ row[t].child[a] = "absent"
               /\ row' = [row EXCEPT ![t].child[a] = "inProgress"]
       \/ \E a \in run[t].agents : row' = [row EXCEPT ![t].child[a] = "ended"]
       \/ /\ InProgress(t) /\ run[t].agents = {}
          /\ \E status \in Terminal : row' = [row EXCEPT ![t].status = status]
    /\ Forget

\* A process starts and opens the store.
Boot ==
    /\ proc = "down"
    /\ proc' = "recovering"
    /\ UNCHANGED <<row, threadStatus, active, run, seen>>

\* recoverStaleInProgressTurns writes one row at a time, in any order here.
RecoverTurn(t) ==
    /\ proc = "recovering"
    /\ InProgress(t)
    /\ row' = [row EXCEPT ![t].status = "interrupted", ![t].open = {}]
    /\ seen' = seen \cup {row[t].thread}
    /\ UNCHANGED <<threadStatus, proc, active, run>>

RecoverChild(t, a) ==
    /\ proc = "recovering"
    /\ row[t].child[a] = "inProgress"
    /\ row' = [row EXCEPT ![t].child[a] = "ended"]
    /\ UNCHANGED <<threadStatus, proc, active, run, seen>>

\* Mutant: only the threads of turns recovered or repaired are reconciled.
RecoverSeenOnly ==
    /\ proc = "recovering"
    /\ \A t \in Turns : ~InProgress(t) /\ \A a \in Agents : row[t].child[a] # "inProgress"
    /\ row' = [t \in Turns |-> [row[t] EXCEPT !.open = {}]]
    /\ threadStatus' = [th \in Threads |->
                          IF \/ th \in seen
                             \/ \E t \in Turns : row[t].thread = th /\ row[t].open # {}
                          THEN "idle" ELSE threadStatus[th]]
    /\ proc' = "up" /\ seen' = {}
    /\ UNCHANGED <<active, run>>

\* The rest of it, and the server is up: the threads of recovered turns are
\* idle, open items of settled turns are terminal, and so is any other thread
\* still active with no turn in progress.
RecoverEnd ==
    LET busy(th) == \E t \in Turns : row[t].thread = th /\ InProgress(t) IN
    /\ proc = "recovering"
    /\ \A t \in Turns : ~InProgress(t) /\ \A a \in Agents : row[t].child[a] # "inProgress"
    /\ row' = [t \in Turns |-> [row[t] EXCEPT !.open = {}]]
    /\ threadStatus' = [th \in Threads |->
                          IF th \in seen \/ ~busy(th) THEN "idle" ELSE threadStatus[th]]
    /\ proc' = "up" /\ seen' = {}
    /\ UNCHANGED <<active, run>>

-----------------------------------------------------------------------------
Client == \/ \E t \in Turns, th \in Threads : \E kind \in KindsOf[t] : TurnStart(t, th, kind)
          \/ \E th \in Threads :
               \E requested \in {t \in Turns : row[t].thread = th} \cup {None} :
                 Interrupt(th, requested)
          \/ \E t \in Turns : AnswerApproval(t) \/ AnswerQuestion(t)

Runtime == \E t \in Turns :
             \/ \E a \in Agents : StartSubagent(t, a) \/ FinishSubagent(t, a)
             \/ \E workflow \in BOOLEAN : OpenTool(t, workflow)
             \/ CloseTool(t)
             \/ \E card \in BOOLEAN : AskApproval(t, card)
             \/ AskQuestion(t)
             \/ RuntimeRejects(t)
             \/ RuntimeResolves(t)
             \/ CompactEnds(t)

Loop == \E t \in Turns : Dispatch(t) \/ WatchdogFires(t) \/ DiffDone(t)

Process == \/ Stop \/ Close \/ Crash \/ Boot \/ RecoverEnd
           \/ \E t \in Turns : CrashInside(t) \/ RecoverTurn(t)
           \/ \E t \in Turns, a \in Agents : RecoverChild(t, a)

Next == Client \/ Runtime \/ Loop \/ Process

Spec == Init /\ [][Next]_vars

\* Node runs a timer that is due as long as the process lives; nothing is
\* asked of the runtime, of the client, or of whoever starts the adapter.
FairSpec == Spec /\ \A t \in Turns : WF_vars(WatchdogFires(t))

-----------------------------------------------------------------------------
(* Properties.                                                              *)

\* Once a turn of turn/start is settled nothing rewrites its status: not the
\* runtime's late answer, not the watchdog, not shutdown, not recovery.
SettledTurnStays ==
    [][\A t \in Turns :
         row[t].kind = "turn" /\ row[t].status \in Terminal
           => row'[t].status = row[t].status]_vars

\* No turn of a sub-agent is left in progress under a parent that is settled.
ChildrenSettleFirst ==
    Alive => \A t \in Turns, a \in Agents :
               row[t].child[a] = "inProgress" => InProgress(t)

\* A turn in progress still has code of this process that will settle it,
\* also after another turn has taken its place on the thread.
InProgressHasRunner ==
    proc = "up" => \A t \in Turns :
                     InProgress(t) => run[t].pc \in {"queued", "running", "diff"}

\* The entry of a thread is a turn in progress on it, and the thread's row
\* says active: an idle exit never counts a turn that has ended.
ActiveEntryIsLive ==
    \A th \in Threads :
      active[th] # None => /\ InProgress(active[th])
                           /\ row[active[th]].thread = th
                           /\ threadStatus[th] = "active"

\* The client hears of the end of a turn exactly once, however the interrupt,
\* the watchdog and the runtime's own end race.
TurnAnnouncedOnce ==
    proc = "up" => \A t \in Turns :
      row[t].kind = "turn" /\ run[t].pc \notin {"none", "gone"} =>
        run[t].announced = IF row[t].status \in Terminal THEN 1 ELSE 0

\* A process that comes up after any crash finds every thread idle, no turn
\* in progress and no item that would show as working.
RestartSettles ==
    [][proc = "recovering" /\ proc' = "up" =>
         /\ \A th \in Threads : threadStatus'[th] = "idle"
         /\ \A t \in Turns :
              /\ row'[t].status # "inProgress" /\ row'[t].open = {}
              /\ \A a \in Agents : row'[t].child[a] # "inProgress"]_vars

\* A sub-agent whose result never comes is ended all the same, unless the
\* process dies first.
SubagentsEnd ==
    \A t \in Turns, a \in Agents :
      (proc = "up" /\ row[t].child[a] = "inProgress")
        ~> (row[t].child[a] # "inProgress" \/ proc = "down")

\* What the test "runtime settlement cannot overwrite an interrupted turn"
\* asserts, of the turns of every request.
InterruptedStays ==
    [][\A t \in Turns :
         row[t].status = "interrupted" => row'[t].status = "interrupted"]_vars
=============================================================================
