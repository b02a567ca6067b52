----------------------------- MODULE AccountWork -----------------------------
(***************************************************************************)
(* An adapter's model work under managed accounts: the leases that keep the *)
(* account in place while a turn or a native subagent runs                 *)
(* (accounts-work.mts), the one retry of the first turn after a switch     *)
(* (accounts-thread-retry.mts) and the turn that continues one stopped at a *)
(* usage limit (accounts-replay.mts), over a Codex child that may exit.    *)
(*                                                                         *)
(* The child's messages come in order and are handled on arrival, so an    *)
(* event of the child and its handling are one action.                     *)
(***************************************************************************)
EXTENDS Naturals, FiniteSets

CONSTANTS Threads,      \* the app's threads
          Agents,       \* threads of native subagents, each spawned once
          MaxStarts,    \* bound on the requests admitted
          MaxSwitches,  \* bound on account switches begun
          None

ASSUME WorkAssumption ==
    /\ MaxStarts \in Nat /\ MaxSwitches \in Nat
    /\ Threads \cap Agents = {} /\ None \notin Nat /\ None \notin {"rpc", "terminal"}

VARIABLES
    phase,       \* the ledger's phase
    generation,  \* the ledger's generation of the account
    switches,    \* switches begun
    mine,        \* the participant's generation: the ledger's at its last restart
    upstream,    \* "running", "stopped" by a switch, or "restarting": the restart hook
                 \* awaits the child's launch and its answer to initialize
    owed,        \* history: the generation of the last restart whose flush counts
    alive,       \* a Codex child runs
    lost,        \* some child exited with a turn or a subagent at work
    starts,      \* requests admitted
    work,        \* AccountWork's sets, its leases and their rows in the ledger
    job,         \* each thread's request, the child's turn and the retry's attempt
    agent,       \* each subagent: its spawn item and its turn
    context,     \* generation under which each thread last had a turn, or was rehomed
    ended,       \* ends sent of each thread's last request: an error, turn/completed
    effects,     \* how many turns made of that request had an effect
    replay,      \* each thread's row in account_replay, for its last failed turn
    callers,     \* threads whose running turn a user asked for
    due,         \* a flush of the replay is asked for
    toSend       \* the threads a flush still has to look at

account == <<phase, generation, switches, mine, upstream, owed>>
again == <<replay, callers, due, toSend>>
vars == <<phase, generation, switches, mine, upstream, owed, alive, lost, starts, work, job,
          agent, context, ended, effects, replay, callers, due, toSend>>

NoJob == [pc |-> "idle", kind |-> "turn", by |-> "user", gone |-> FALSE, tracked |-> FALSE,
          try |-> 1, responded |-> FALSE, started |-> FALSE, effect |-> FALSE, failure |-> None]

NoRow == [status |-> "none", generation |-> 0, newer |-> FALSE]

Init ==
    /\ phase = "open" /\ generation = 0 /\ switches = 0
    /\ mine = 0 /\ upstream = "running" /\ owed = 0
    /\ alive = TRUE /\ lost = FALSE /\ starts = 0
    /\ work = [lease |-> [t \in Threads |-> None], rows |-> [t \in Threads |-> 0],
               active |-> {}, starting |-> {}, completed |-> {}, finished |-> {},
               spawnItems |-> {}, realtime |-> {}]
    /\ job = [t \in Threads |-> NoJob]
    /\ agent = [a \in Agents |-> [item |-> "none", turn |-> "none"]]
    /\ context = [t \in Threads |-> 0]
    /\ ended = [t \in Threads |-> 1] /\ effects = [t \in Threads |-> 0]
    /\ replay = [t \in Threads |-> NoRow] /\ callers = {} /\ due = FALSE /\ toSend = {}

-----------------------------------------------------------------------------
(* AccountWork: its sets w before to its sets after.                        *)

\* release, of each of the keys.
Release(w, keys) ==
    [w EXCEPT !.lease = [t \in Threads |-> IF t \in keys THEN None ELSE w.lease[t]],
              !.rows = [t \in Threads |-> IF t \in keys /\ w.lease[t] # None
                                          THEN w.rows[t] - 1 ELSE w.rows[t]],
              !.starting = w.starting \ keys,
              !.realtime = w.realtime \ keys]

\* Mutant: a spawn under way keeps no lease.
FlushOverSpawns(w) ==
    IF w.active \cup w.starting # {} THEN w
    ELSE [Release(w, w.completed) EXCEPT !.completed = {}]

\* flushCompleted: the leases of completed work go when nothing is at work.
Flush(w) ==
    IF w.active \cup w.starting \cup w.spawnItems # {} THEN w
    ELSE [Release(w, w.completed) EXCEPT !.completed = {}]

Busy(w, t) == t \in w.starting \cup w.active \cup w.realtime

\* Mutant: the retained lease is forgotten.
AdmitOver(w, t, kind) ==
    [w EXCEPT !.lease[t] = mine,
              !.rows[t] = w.rows[t] + 1,
              !.starting = w.starting \cup {t},
              !.completed = w.completed \ {t},
              !.realtime = IF kind = "realtime" THEN w.realtime \cup {t} ELSE w.realtime]

\* admit, not busy and let in by the ledger: a fresh lease, then the retained
\* one is released.
Admitted(w, t, kind) ==
    [w EXCEPT !.lease[t] = mine,
              !.rows[t] = w.rows[t] + 1 - (IF w.lease[t] = None THEN 0 ELSE 1),
              !.starting = w.starting \cup {t},
              !.completed = w.completed \ {t},
              !.realtime = IF kind = "realtime" THEN w.realtime \cup {t} ELSE w.realtime]

\* The error response to the requests of the threads ts.
Refused(w, ts) ==
    Flush([w EXCEPT !.starting = w.starting \ ts,
                    !.realtime = w.realtime \ {t \in ts : job[t].kind = "realtime"},
                    !.completed = w.completed \cup ts])

\* observe: turn/started, turn/completed, thread/realtime/closed.
Started(w, t) ==
    Flush([w EXCEPT !.starting = w.starting \ {t}, !.completed = w.completed \ {t},
                    !.active = w.active \cup {t}, !.finished = w.finished \ {t}])

Completed(w, ts) ==
    Flush([w EXCEPT !.starting = w.starting \ ts, !.active = w.active \ ts,
                    !.finished = w.finished \cup ts,
                    !.completed = w.completed \cup (ts \ w.realtime)])

Closed(w, t) == Completed([w EXCEPT !.realtime = w.realtime \ {t}], {t})

\* observeSpawn: item/started, and item/completed with its receivers.
Spawning(w, a) == Flush([w EXCEPT !.spawnItems = w.spawnItems \cup {a}])

\* Mutant: a subagent that has come and gone is waited for.
SpawnedLate(w, a, receivers) ==
    Flush([w EXCEPT !.spawnItems = w.spawnItems \ {a}, !.active = w.active \cup receivers])

Spawned(w, a, receivers) ==
    Flush([w EXCEPT !.spawnItems = w.spawnItems \ {a},
                    !.active = w.active \cup (receivers \ w.finished)])

-----------------------------------------------------------------------------
(* A request, from its admission to its end.                                *)

\* The flush of the replay awaits the dispatch of one row before it takes the next.
Dispatching == \E t \in Threads : job[t].by = "continue" /\ job[t].pc = "preparing"

\* It awaits nothing else: the other steps come before it, after it or then.
Yielded == toSend = {} \/ Dispatching

\* begin: the ledger is open and the participant, restarted or not, is of its generation.
LetIn == phase = "open" /\ mine = generation

\* admit, of a request of the app or of the replay: by is who asked.
Admit(t, kind, by) ==
    /\ LetIn /\ ~Busy(work, t)
    /\ work' = Admitted(work, t, kind)
    /\ job' = [job EXCEPT ![t] = [NoJob EXCEPT !.pc = "preparing", !.kind = kind, !.by = by]]
    /\ ended' = [ended EXCEPT ![t] = 0] /\ effects' = [effects EXCEPT ![t] = 0]
    /\ UNCHANGED <<account, alive, lost, agent, context>>

\* Mutant: the row of the turn the user moved on from still stands.
UserMovesOnQuietly(t, kind) ==
    IF kind = "turn" THEN /\ replay' = [replay EXCEPT ![t].newer = TRUE]
                          /\ callers' = callers \cup {t}
    ELSE UNCHANGED <<replay, callers>>

\* AccountReplay.user
UserMovesOn(t, kind) ==
    IF kind = "turn"
    THEN /\ replay' = [replay EXCEPT ![t].newer = TRUE,
                           ![t].status = IF replay[t].status = "pending" THEN "cancelled"
                                         ELSE replay[t].status]
         /\ callers' = callers \cup {t}
    ELSE UNCHANGED <<replay, callers>>

\* The app asks for a turn or a realtime session. What is refused changes nothing.
Request(t, kind) ==
    /\ Yielded
    /\ starts < MaxStarts
    /\ Admit(t, kind, "user")
    /\ UserMovesOn(t, kind)
    /\ starts' = starts + 1
    /\ UNCHANGED <<due, toSend>>

\* The request ends with w, and the app is told.
EndsWith(t, w) ==
    /\ work' = w
    /\ job' = [job EXCEPT ![t] = NoJob]
    /\ ended' = [ended EXCEPT ![t] = ended[t] + 1]

\* prepare fails, or succeeds for a peer that has gone.
PrepareFails(t) ==
    /\ Yielded
    /\ job[t].pc = "preparing"
    /\ EndsWith(t, Refused(work, {t}))
    /\ context' \in {context, [context EXCEPT ![t] = mine]}
    /\ UNCHANGED <<account, alive, lost, starts, agent, effects, again>>

\* prepare succeeds and the request goes to the child: the first turn after a
\* switch is followed, unless resuming had to move its thread already.
Prepared(t) ==
    /\ Yielded
    /\ job[t].pc = "preparing" /\ alive /\ ~job[t].gone
    /\ \E moved \in BOOLEAN :
         /\ moved => context[t] < mine
         /\ job' = [job EXCEPT ![t].pc = "running",
                       ![t].tracked = job[t].kind = "turn" /\ context[t] < mine /\ ~moved]
         /\ context' = IF job[t].kind = "turn" \/ moved THEN [context EXCEPT ![t] = mine]
                       ELSE context
    /\ UNCHANGED <<account, alive, lost, starts, work, agent, ended, effects, again>>

\* Mutant: an effect of the turn does not stop its retry.
RetriesAnyTurn(t) == job[t].tracked /\ job[t].try = 1

\* Mutant: the retry is retried.
RetriesAgain(t) == job[t].tracked /\ ~job[t].effect

\* A failure for encrypted content starts the one retry.
Retries(t) == job[t].tracked /\ job[t].try = 1 /\ ~job[t].effect

\* Mutant: the failure is passed on as well.
RehomeAndTell(t, failure) ==
    /\ job' = [job EXCEPT ![t].pc = "rehoming", ![t].failure = failure,
                          ![t].responded = FALSE, ![t].started = FALSE,
                          ![t].effect = FALSE]
    /\ ended' = [ended EXCEPT ![t] = ended[t] + 1]
    /\ UNCHANGED work

\* retry: the failure is held, and a fresh thread is made for the request.
Rehome(t, failure) ==
    /\ job' = [job EXCEPT ![t].pc = "rehoming", ![t].failure = failure,
                          ![t].responded = FALSE, ![t].started = FALSE,
                          ![t].effect = FALSE]
    /\ UNCHANGED <<work, ended>>

\* Mutant: a held terminal is delivered as an answer.
DeliversAnswer(t) == EndsWith(t, Refused(work, {t}))

\* deliverFailure, and the error answered when nothing is held.
DeliverFailure(t) ==
    EndsWith(t, IF job[t].failure = "terminal" THEN Completed(work, {t}) ELSE Refused(work, {t}))

\* deliver hands a held terminal to AccountReplay.observe too.
Observed(t) ==
    /\ callers' = IF job[t].failure = "terminal" THEN callers \ {t} ELSE callers
    /\ UNCHANGED <<replay, due, toSend>>

Waiting(t) == job[t].pc = "running" /\ ~job[t].responded

\* The child answers the request.
Respond(t) ==
    /\ Yielded
    /\ Waiting(t)
    /\ job' = [job EXCEPT ![t].responded = TRUE]
    /\ UNCHANGED <<account, alive, lost, starts, work, agent, context, ended,
                   effects, again>>

\* The child answers with an error.
RespondError(t) ==
    /\ Yielded
    /\ Waiting(t) /\ ~job[t].started
    /\ \/ Retries(t) /\ Rehome(t, "rpc") /\ UNCHANGED again
       \/ DeliverFailure(t) /\ Observed(t)
    /\ UNCHANGED <<account, alive, lost, starts, agent, context, effects>>

\* turn/started: of a retry whose first turn the app saw it is held back.
TurnStarts(t) ==
    /\ Yielded
    /\ job[t].pc = "running" /\ ~job[t].started
    /\ job' = [job EXCEPT ![t].started = TRUE]
    /\ work' = IF job[t].failure = "terminal" THEN work ELSE Started(work, t)
    /\ UNCHANGED <<account, alive, lost, starts, agent, context, ended, effects, again>>

\* The turn does something a retry would do again. Told apart only where one may come.
Effect(t) ==
    /\ Yielded
    /\ job[t].started /\ job[t].tracked /\ ~job[t].effect
    /\ job' = [job EXCEPT ![t].effect = TRUE]
    /\ effects' = [effects EXCEPT ![t] = effects[t] + 1]
    /\ UNCHANGED <<account, alive, lost, starts, work, agent, context, ended, again>>

\* AccountReplay.observe of turn/completed: a user's turn stopped at a usage
\* limit leaves a row, when quota says so and that the replay is switched on.
ReplayObserves(t, quota) ==
    /\ callers' = callers \ {t}
    /\ replay' = IF quota /\ t \in callers
                 THEN [replay EXCEPT ![t] = [NoRow EXCEPT !.status = "pending",
                                                          !.generation = mine]]
                 ELSE replay
    /\ UNCHANGED <<due, toSend>>

Completes(t) == job[t].responded /\ job[t].started

\* turn/completed reaches the app.
TurnCompletes(t, quota) ==
    /\ Yielded
    /\ Completes(t) /\ job[t].kind = "turn"
    /\ EndsWith(t, Completed(work, {t}))
    /\ ReplayObserves(t, quota)
    /\ UNCHANGED <<account, alive, lost, starts, agent, context, effects>>

\* turn/completed, failed for encrypted content, is held and the turn retried.
TurnRetried(t) ==
    /\ Yielded
    /\ Completes(t) /\ Retries(t)
    /\ Rehome(t, "terminal")
    /\ UNCHANGED <<account, alive, lost, starts, agent, context, effects, again>>

\* rehome made a fresh thread: the request is sent again.
Rehomed(t) ==
    /\ Yielded
    /\ job[t].pc = "rehoming" /\ alive /\ ~job[t].gone
    /\ job' = [job EXCEPT ![t].pc = "running", ![t].try = job[t].try + 1]
    /\ UNCHANGED <<account, alive, lost, starts, work, agent, context, ended,
                   effects, again>>

\* rehome failed, or the peer has gone.
RehomeFails(t) ==
    /\ Yielded
    /\ job[t].pc = "rehoming"
    /\ DeliverFailure(t) /\ Observed(t)
    /\ UNCHANGED <<account, alive, lost, starts, agent, context, effects>>

\* A turn inside a realtime session ends.
RealtimeTurnCompletes(t, quota) ==
    /\ Yielded
    /\ Completes(t) /\ job[t].kind = "realtime"
    /\ work' = Completed(work, {t})
    /\ job' = [job EXCEPT ![t].started = FALSE]
    /\ ReplayObserves(t, quota)
    /\ UNCHANGED <<account, alive, lost, starts, agent, context, ended, effects>>

\* thread/realtime/closed
RealtimeCloses(t) ==
    /\ Yielded
    /\ job[t].kind = "realtime" /\ job[t].responded
    /\ EndsWith(t, Closed(work, t))
    /\ UNCHANGED <<account, alive, lost, starts, agent, context, effects, again>>

-----------------------------------------------------------------------------
(* Native subagents: the item that spawns one and the turn it runs, whose   *)
(* messages come in either order, also after the parent's turn.             *)

SpawnItemStarts(t, a) ==
    /\ Yielded
    /\ job[t].started /\ agent[a].item = "none"
    /\ agent' = [agent EXCEPT ![a].item = "started"]
    /\ work' = Spawning(work, a)
    /\ job' = [job EXCEPT ![t].effect = TRUE]
    /\ effects' = [effects EXCEPT ![t] = IF job[t].effect THEN effects[t] ELSE effects[t] + 1]
    /\ UNCHANGED <<account, alive, lost, starts, context, ended, again>>

SpawnItemCompletes(a) ==
    /\ Yielded
    /\ agent[a].item = "started"
    /\ agent' = [agent EXCEPT ![a].item = "completed"]
    /\ work' = Spawned(work, a, {a})
    /\ UNCHANGED <<account, alive, lost, starts, job, context, ended, effects, again>>

\* The spawn failed: its item names no receivers.
SpawnFails(a) ==
    /\ Yielded
    /\ agent[a] = [item |-> "started", turn |-> "none"]
    /\ agent' = [agent EXCEPT ![a].item = "failed"]
    /\ work' = Spawned(work, a, {})
    /\ UNCHANGED <<account, alive, lost, starts, job, context, ended, effects, again>>

AgentTurnStarts(a) ==
    /\ Yielded
    /\ agent[a].item \in {"started", "completed"} /\ agent[a].turn = "none"
    /\ agent' = [agent EXCEPT ![a].turn = "running"]
    /\ work' = Started(work, a)
    /\ UNCHANGED <<account, alive, lost, starts, job, context, ended, effects, again>>

AgentTurnEnds(a) ==
    /\ Yielded
    /\ agent[a].turn = "running"
    /\ agent' = [agent EXCEPT ![a].turn = "ended"]
    /\ work' = Completed(work, {a})
    /\ UNCHANGED <<account, alive, lost, starts, job, context, ended, effects, again>>

-----------------------------------------------------------------------------
(* The child exits and comes back, the app's connection goes.               *)

\* failPending answers what waits with an error, and a restart hook that awaits
\* initialize fails. A turn under way is gone and nobody tells AccountWork. (What
\* is prepared or rehomed fails on its own.)
ChildExit ==
    LET waiting == {t \in Threads : Waiting(t)}
        held == {t \in waiting : job[t].failure = "terminal"}
        atWork == {t \in Threads : job[t].responded}
    IN  /\ Yielded /\ alive
        /\ alive' = FALSE /\ upstream' = "running"
        /\ work' = Completed(Refused(work, waiting \ held), held)
        /\ job' = [t \in Threads |-> IF t \in waiting \cup atWork THEN NoJob ELSE job[t]]
        /\ ended' = [t \in Threads |-> IF t \in waiting THEN ended[t] + 1 ELSE ended[t]]
        /\ callers' = callers \ held
        /\ lost' = \/ lost
                   \/ atWork # {}
                   \/ \E t \in waiting : job[t].started
                   \/ \E a \in Agents : \/ agent[a].item = "started"
                                        \/ agent[a].turn = "running"
                                        \/ a \in work.active
        /\ agent' = [a \in Agents |-> IF agent[a].item = "none" THEN agent[a]
                                      ELSE [item |-> "failed", turn |-> "ended"]]
        /\ UNCHANGED <<phase, generation, switches, mine, owed, starts, context, effects,
                       replay, due, toSend>>

\* A launch, asked for by the restart timer or the restart hook, comes to its end.
Respawn ==
    /\ Yielded
    /\ ~alive /\ upstream # "stopped"
    /\ alive' = TRUE
    /\ UNCHANGED <<account, lost, starts, work, job, agent, context, ended,
                   effects, again>>

\* closePeer, AccountReplay.disconnect: what the app's connection asked for is
\* for nobody now. (Another one may ask for more at once.)
Disconnect ==
    /\ Yielded
    /\ job' = [t \in Threads |-> IF job[t].pc = "idle" THEN job[t]
                                 ELSE [job[t] EXCEPT !.gone = TRUE]]
    /\ replay' = [t \in Threads |-> IF replay[t].status = "pending"
                                    THEN [replay[t] EXCEPT !.status = "cancelled"]
                                    ELSE replay[t]]
    /\ callers' = {}
    /\ UNCHANGED <<account, alive, lost, starts, work, agent, context, ended, effects, due, toSend>>

-----------------------------------------------------------------------------
(* The switch of the account: the ledger's drain, the participant's hooks.  *)

Freeze ==
    /\ Yielded
    /\ phase = "open" /\ switches < MaxSwitches
    /\ phase' = "draining" /\ switches' = switches + 1
    /\ UNCHANGED <<generation, mine, upstream, owed, alive, lost, starts, work, job, agent,
                   context, ended, effects, again>>

CancelDrain ==
    /\ Yielded
    /\ phase = "draining"
    /\ phase' = "open"
    /\ UNCHANGED <<generation, switches, mine, upstream, owed, alive, lost, starts, work, job,
                   agent, context, ended, effects, again>>

\* No lease is left, and the hook finds no turn: the child is stopped, and so is
\* a restart of it still under way.
StopChild ==
    /\ Yielded
    /\ phase = "draining" /\ \A t \in Threads : work.rows[t] = 0
    /\ phase' = "stopped" /\ upstream' = "stopped" /\ alive' = FALSE
    /\ UNCHANGED <<generation, switches, mine, owed, lost, starts, work, job, agent, context,
                   ended, effects, again>>

\* The account has moved, or the switch is given up or undone: admission opens
\* before any participant is told.
Reopen ==
    /\ Yielded
    /\ phase = "stopped"
    /\ phase' = "open" /\ generation' \in {generation, generation + 1}
    /\ UNCHANGED <<switches, mine, upstream, owed, alive, lost, starts, work, job, agent,
                   context, ended, effects, again>>

\* The restart control, which may never come: the participant, which must hold
\* no lease, is rebased, and unless preparing the overlay fails the hook asks
\* for a child.
Restart ==
    /\ Yielded
    /\ phase = "open" /\ upstream = "stopped" /\ \A t \in Threads : work.rows[t] = 0
    /\ mine' = generation /\ upstream' \in {"stopped", "restarting"}
    /\ UNCHANGED <<phase, generation, switches, owed, alive, lost, starts, work, job, agent,
                   context, ended, effects, again>>

\* The child has answered initialize: the hook asks for a flush of the replay.
\* (A child no app has initialized yet is not awaited, but then no row waits.)
RestartSucceeds ==
    /\ Yielded
    /\ upstream = "restarting" /\ alive
    /\ upstream' = "running" /\ due' = TRUE /\ owed' = mine
    /\ UNCHANGED <<phase, generation, switches, mine, alive, lost, starts, work, job, agent,
                   context, ended, effects, replay, callers, toSend>>

\* The launch failed, or initialize was refused or timed out: the hook throws and
\* asks for no flush, child or no child.
RestartFails ==
    /\ Yielded
    /\ upstream = "restarting"
    /\ upstream' = "running"
    /\ UNCHANGED <<phase, generation, switches, mine, owed, alive, lost, starts, work, job,
                   agent, context, ended, effects, again>>

-----------------------------------------------------------------------------
(* AccountReplay.flush, one row at a time.                                  *)

\* Mutant: the rows of the account just left are not read.
ReadyLate == {t \in Threads : replay[t].status = "pending" /\ replay[t].generation + 1 < mine}

\* The rows a flush reads.
Ready == {t \in Threads : replay[t].status = "pending" /\ replay[t].generation < mine}

\* A flush begins, or finds the replay switched off and leaves it at that.
FlushReplay ==
    /\ due /\ toSend = {} /\ ~Dispatching
    /\ due' = FALSE
    /\ \/ toSend' = Ready /\ UNCHANGED owed
       \/ owed' = 0 /\ UNCHANGED toSend
    /\ UNCHANGED <<phase, generation, switches, mine, upstream, alive, lost, starts, work, job,
                   agent, context, ended, effects, replay, callers>>

\* The row is still pending when it is claimed.
Claims(t) == replay[t].status = "pending"

\* The next row is claimed, and a new turn that continues is admitted.
Continue(t) ==
    /\ t \in toSend /\ ~Dispatching
    /\ toSend' = toSend \ {t}
    /\ Claims(t)
    /\ replay' = [replay EXCEPT ![t].status = "sent"]
    /\ Admit(t, "turn", "continue")
    /\ UNCHANGED <<starts, callers, due>>

\* The row is claimed and its turn refused: nothing sends it again.
ContinueRefused(t) ==
    /\ t \in toSend /\ ~Dispatching
    /\ toSend' = toSend \ {t}
    /\ Claims(t)
    /\ ~LetIn \/ Busy(work, t)
    /\ replay' = [replay EXCEPT ![t].status = "sent"]
    /\ UNCHANGED <<account, alive, lost, starts, work, job, agent, context, ended,
                   effects, callers, due>>

\* The row has been cancelled, by the user or with the app's connection.
ContinueDropped(t) ==
    /\ t \in toSend /\ ~Dispatching
    /\ toSend' = toSend \ {t}
    /\ ~Claims(t)
    /\ UNCHANGED <<account, alive, lost, starts, work, job, agent, context, ended,
                   effects, replay, callers, due>>

-----------------------------------------------------------------------------
ThreadSteps(t) ==
    \/ \E kind \in {"turn", "realtime"} : Request(t, kind)
    \/ PrepareFails(t) \/ Prepared(t)
    \/ Respond(t) \/ RespondError(t) \/ TurnStarts(t) \/ Effect(t)
    \/ \E quota \in BOOLEAN : TurnCompletes(t, quota) \/ RealtimeTurnCompletes(t, quota)
    \/ TurnRetried(t) \/ Rehomed(t) \/ RehomeFails(t) \/ RealtimeCloses(t)

AgentSteps(a) ==
    \/ \E t \in Threads : SpawnItemStarts(t, a)
    \/ SpawnItemCompletes(a) \/ SpawnFails(a) \/ AgentTurnStarts(a) \/ AgentTurnEnds(a)

FlushSteps(t) == Continue(t) \/ ContinueRefused(t) \/ ContinueDropped(t)

Next ==
    \/ \E t \in Threads : ThreadSteps(t) \/ FlushSteps(t)
    \/ \E a \in Agents : AgentSteps(a)
    \/ ChildExit \/ Respawn \/ Disconnect
    \/ Freeze \/ CancelDrain \/ StopChild \/ Reopen
    \/ Restart \/ RestartSucceeds \/ RestartFails \/ FlushReplay

Spec == Init /\ [][Next]_vars

\* What is under way goes on: the adapter's awaits and flushes settle, the
\* child answers and its turns, spawns and subagents come to an end, and the
\* ledger polls its drain. A realtime session ends when the app likes.
Progress ==
    \/ \E t \in Threads :
          \/ FlushSteps(t)
          \/ PrepareFails(t) \/ Prepared(t) \/ Respond(t) \/ RespondError(t) \/ TurnStarts(t)
          \/ \E quota \in BOOLEAN : TurnCompletes(t, quota)
          \/ TurnRetried(t) \/ Rehomed(t) \/ RehomeFails(t)
    \/ \E a \in Agents :
          \/ SpawnItemCompletes(a) \/ SpawnFails(a) \/ AgentTurnStarts(a) \/ AgentTurnEnds(a)
    \/ StopChild

FairSpec == Spec /\ WF_vars(Progress)

-----------------------------------------------------------------------------
\* Types of the state: one lease, one row and one request a thread.
TypeOK ==
    /\ phase \in {"open", "draining", "stopped"}
    /\ generation \in 0..MaxSwitches /\ switches \in 0..MaxSwitches
    /\ mine \in 0..generation /\ owed \in 0..mine
    /\ upstream \in {"running", "stopped", "restarting"}
    /\ alive \in BOOLEAN /\ lost \in BOOLEAN
    /\ starts \in 0..MaxStarts
    /\ work.lease \in [Threads -> {None} \cup (0..MaxSwitches)]
    /\ work.rows \in [Threads -> Nat]
    /\ work.active \subseteq Threads \cup Agents /\ work.completed \subseteq Threads \cup Agents
    /\ work.finished \subseteq Threads \cup Agents
    /\ work.starting \subseteq Threads /\ work.realtime \subseteq Threads
    /\ work.spawnItems \subseteq Agents
    /\ job \in [Threads ->
           [pc : {"idle", "preparing", "running", "rehoming"}, kind : {"turn", "realtime"},
            by : {"user", "continue"}, gone : BOOLEAN, tracked : BOOLEAN, try : 1..2,
            responded : BOOLEAN, started : BOOLEAN, effect : BOOLEAN,
            failure : {None, "rpc", "terminal"}]]
    /\ agent \in [Agents -> [item : {"none", "started", "completed", "failed"},
                             turn : {"none", "running", "ended"}]]
    /\ context \in [Threads -> 0..MaxSwitches]
    /\ ended \in [Threads -> Nat] /\ effects \in [Threads -> Nat]
    /\ replay \in [Threads -> [status : {"none", "pending", "sent", "cancelled"},
                               generation : 0..MaxSwitches, newer : BOOLEAN]]
    /\ callers \subseteq Threads
    /\ due \in BOOLEAN /\ toSend \subseteq Threads

\* Whatever runs on the account keeps it in place: a request has one lease of
\* its generation from its admission to its end, over the retry of its turn
\* too, and while a subagent runs some lease is held, its parent's turn long
\* over or not.
WorkHoldsItsLease ==
    /\ \A t \in Threads : job[t].pc # "idle" =>
          work.lease[t] = generation /\ work.rows[t] > 0 /\ phase # "stopped"
    /\ \A a \in Agents : agent[a].turn = "running" /\ ~lost => \E t \in Threads : work.rows[t] > 0

\* Every lease in the ledger is one AccountWork still holds, so that what it
\* drops it gives back.
NoLeakedLease ==
    \A t \in Threads : work.rows[t] = (IF work.lease[t] = None THEN 0 ELSE 1)

\* When nothing is at work no lease is left, whatever the order in which the
\* turns, the spawns and the subagents came to an end: the account can switch.
RestGivesBack ==
    /\ \A t \in Threads : job[t].pc = "idle"
    /\ \A a \in Agents : agent[a].item # "started" /\ (agent[a].item = "completed" => agent[a].turn = "ended")
    /\ ~lost
    => \A t \in Threads : work.rows[t] = 0

\* A request is answered for exactly once: by an error, or by the end of its
\* turn, of whichever attempt, and never before it is over.
OneEnd ==
    \A t \in Threads :
       /\ ended[t] <= 1
       /\ job[t].pc # "idle" => ended[t] = 0
       /\ job[t].pc = "idle" /\ ~lost => ended[t] = 1

\* The retry does not do again what the first turn has done.
CarriedOutOnce == \A t \in Threads : effects[t] <= 1

\* The turn that continues one stopped at a usage limit never comes after a
\* turn the user asked for since.
ContinuesTheLastTurn ==
    \A t \in Threads : job[t].pc # "idle" /\ job[t].by = "continue" => ~replay[t].newer

\* A turn stopped at a usage limit is not forgotten by a restart that succeeds:
\* once the flush it asked for has gone through, whatever turns, disconnects,
\* switches and restarts that fail came between or since, no row of an account
\* before that restart's is pending. Not so when the replay was off at the
\* flush; and where the restart fails or never comes the row waits for a later one.
NoneIsForgotten ==
    ~due /\ toSend = {} =>
        \A t \in Threads : replay[t].status = "pending" => replay[t].generation >= owed

\* A switch that has frozen the account gets it: turns, retries, spawns and
\* subagents come to an end in whatever order and the drain with them, unless
\* it is cancelled, the app keeps a realtime session open or a child has died
\* at work.
DrainEnds ==
    phase = "draining"
        ~> \/ phase # "draining" \/ lost
           \/ \E t \in Threads : job[t].kind = "realtime"
=============================================================================
