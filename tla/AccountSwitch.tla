--------------------------- MODULE AccountSwitch ---------------------------
(***************************************************************************)
(* Switching the active account: processes that run rotateAccount or       *)
(* recoverManagedAccounts, the participants (adapters, brokers) they stop   *)
(* and restart, and the durable state in between: the ledger, the switch   *)
(* journal and the credential files.                                       *)
(*                                                                         *)
(* A step of a switcher is the code between two durable effects, so a      *)
(* crash may fall between any two of them.  Refused says when the code's   *)
(* own checks throw, Fault stands for a step that fails on its own (I/O,   *)
(* SQLite, a control call that times out), Crash for the process's end.    *)
(***************************************************************************)
EXTENDS AccountLedger

CONSTANTS Rotators,      \* switchers that run rotateAccount, once each
          Recoverers,    \* switchers that run recoverManagedAccounts
          Resident,      \* rotators hosted by a process that lives on
          Starters,      \* participants that are not running at first
          MaxFailures,   \* bound on crashes and faults
          MaxClaim,      \* bound on recoveries tried while turns still run
          MaxRetries,    \* bound on those tried after that
          MaxRevision    \* bound on edits of the registry

ASSUME SwitchersAssumption ==
    /\ Switchers = Rotators \cup Recoverers
    /\ Rotators \cap Recoverers = {}
    /\ Resident \subseteq Rotators
    /\ Starters \subseteq Participants
    /\ Participants \subseteq Nat   \* numbered in the order of their rows
    /\ MaxFailures \in Nat /\ MaxClaim \in Nat /\ MaxRetries \in Nat /\ MaxRevision \in Nat

VARIABLES
    pc,        \* where each switcher is
    dead,      \* switchers whose process has ended
    token,     \* the owner token each switcher works under
    memo,      \* the other locals of a switcher
    plan,      \* its journal object j, None before it has one
    proc,      \* what each participant process is doing
    view,      \* the active account a starting participant has read
    failures   \* crashes and faults so far

switcherVars == <<pc, dead, token, memo, plan, failures>>
participantVars == <<proc, view>>
vars == <<gate, registry, members, work, families, journal, files,
          pc, dead, token, memo, plan, proc, view, failures>>

\* next operations are recorded as done, back are still to be undone.
SwitchJournal ==
    {j \in [transaction : Switchers, from : Accounts, to : Accounts,
            generation : Nat, revision : Nat,
            phase : {"forward", "rollback", "committed"},
            ops : Operations,
            next : 0 .. 2, back : 0 .. 2, inv : Files] :
       j.next <= Len(j.ops) /\ j.back <= Len(j.ops)}

ASSUME JournalAssumption == None \notin SwitchJournal

Memo == [to : Accounts, auto : BOOLEAN,
         generation : Nat,                 \* the generation it read first
         expected : OwnerToken \cup {None},\* the owner it means to adopt from
         parts : SUBSET Participants,      \* its list of participants
         todo : SUBSET Participants,       \* those still to be called
         calling : Participants \cup {None},
         caught : BOOLEAN,                 \* past its catch, or without one
         stopped : BOOLEAN]

\* Program counters of a switcher between freeze (or adoption) and open.
OwnerPcs == {"drain", "retire", "stop", "stopping", "joined", "reconcile", "seal",
             "begin", "mark", "apply", "record", "commit", "rolling",
             "undo", "unrecord", "verify", "open"}
Pcs == OwnerPcs \cup {"idle", "freeze", "adopt", "recover", "restart", "catch", "exit"}

Owns(s) == Owned(token[s])
At(s, here) == s \notin dead /\ pc[s] = here
Goto(s, there) == pc' = [pc EXCEPT ![s] = there]
Fails == failures < MaxFailures /\ failures' = failures + 1

\* The statement throws: rotateAccount has a catch, recoverManagedAccounts
\* and the catch itself do not.
Throw(s) == Goto(s, IF memo[s].caught \/ pc[s] = "catch" THEN "exit" ELSE "catch")

Running == {p \in Participants : proc[p] \in {"running", "stopping", "stopped"}}
Exited == {p \in Registered : proc[p] = "off"}

\* A switcher calls its participants in the order of their rows.
Called(s, p) == p \in memo[s].todo /\ \A q \in memo[s].todo : p <= q

-----------------------------------------------------------------------------
(* rotateAccount: freeze and drain. *)

\* With the account already active and admission open it returns at once.
Start(s, to, auto) ==
    /\ At(s, "idle") /\ s \in Rotators
    /\ ~(gate.active = to /\ gate.phase = "open")
    /\ memo' = [memo EXCEPT ![s] = [@ EXCEPT !.to = to, !.auto = auto,
                                             !.generation = gate.generation]]
    /\ token' = [token EXCEPT ![s] = [transaction |-> s, claim |-> 1, proc |-> s]]
    /\ Goto(s, "freeze")
    /\ UNCHANGED <<ledgerVars, journal, files, participantVars, dead, plan, failures>>

FreezeStep(s) ==
    /\ At(s, "freeze")
    /\ Freeze(token[s], memo[s].to, memo[s].auto)
    /\ memo' = [memo EXCEPT ![s].caught = FALSE, ![s].stopped = FALSE]
    /\ Goto(s, "drain")
    /\ UNCHANGED <<registry, members, work, families, journal, files,
                   participantVars, dead, token, plan, failures>>

\* freeze is called before the try block: nothing has changed, and the same
\* command may be given again.
FreezeRefused(s) ==
    /\ At(s, "freeze")
    /\ ~CanFreeze(memo[s].to) \/ memo[s].auto
    /\ Goto(s, "idle")
    /\ UNCHANGED <<ledgerVars, journal, files, participantVars, dead, token, memo, plan, failures>>

\* One pass of the loop: retire participants whose process has exited, leave
\* the loop when no work remains.
Drain(s) ==
    /\ At(s, "drain")
    /\ Owns(s)
    /\ Exited # {} \/ work = {}
    /\ Retire(Exited)
    /\ IF work' = {}
       THEN /\ Goto(s, "stop")
            /\ memo' = [memo EXCEPT ![s] = [@ EXCEPT !.parts = DOMAIN members',
                                                     !.todo = DOMAIN members']]
       ELSE UNCHANGED <<pc, memo>>
    /\ UNCHANGED <<gate, registry, journal, files, participantVars, dead, token, plan, failures>>

\* The abort signal is looked at once per pass; by default it is a timeout.
Abort(s) ==
    /\ pc[s] \in {"drain", "stop"} /\ At(s, pc[s]) /\ ~memo[s].caught
    /\ pc[s] = "stop" => memo[s].todo # {}
    /\ Throw(s)
    /\ UNCHANGED <<ledgerVars, journal, files, participantVars, dead, token, memo, plan, failures>>

-----------------------------------------------------------------------------
(* Stopping participants, common to rotation and recovery. *)

\* The participant's check of a "stop" request.
CanStop(s, p) == p \in Running /\ Owns(s) /\ gate.generation = memo[s].generation

SendStop(s, p) ==
    /\ At(s, "stop") /\ Called(s, p)
    /\ CanStop(s, p)
    /\ proc' = [proc EXCEPT ![p] = "stopping"]
    /\ memo' = [memo EXCEPT ![s] = [@ EXCEPT !.todo = memo[s].todo \ {p}, !.calling = p]]
    /\ Goto(s, "stopping")
    /\ UNCHANGED <<ledgerVars, journal, files, view, dead, token, plan, failures>>

\* The awaited reply of the participant that was called.
StopReplied(s) ==
    /\ At(s, "stopping")
    /\ proc[memo[s].calling] = "stopped"
    /\ Goto(s, "stop")
    /\ UNCHANGED <<ledgerVars, journal, files, participantVars, dead, token, memo, plan, failures>>

AllStopped(s) ==
    /\ At(s, "stop") /\ memo[s].todo = {}
    /\ memo' = [memo EXCEPT ![s].stopped = TRUE]
    /\ Goto(s, IF memo[s].caught THEN "recover" ELSE "joined")
    /\ UNCHANGED <<ledgerVars, journal, files, participantVars, dead, token, plan, failures>>

Joined(s) ==
    /\ At(s, "joined")
    /\ Retire(Exited)
    /\ IF work' = {} /\ families' = {}
       THEN SetPhase(token[s], "draining", "stopped") /\ Goto(s, "reconcile")
       ELSE Throw(s) /\ UNCHANGED gate
    /\ UNCHANGED <<registry, journal, files, participantVars, dead, token, memo, plan, failures>>

CanReconcile(s) ==
    /\ gate.phase = "stopped" /\ Owns(s) /\ NoUsers
    /\ Registered \subseteq Running

\* Every participant moves its own non-credential files out of the overlay.
Reconcile(s) ==
    /\ At(s, "reconcile")
    /\ CanReconcile(s)
    /\ Goto(s, "seal")
    /\ UNCHANGED <<ledgerVars, journal, files, participantVars, dead, token, memo, plan, failures>>

-----------------------------------------------------------------------------
(* The journaled move. *)

CanSeal(s) ==
    /\ Owns(s) /\ gate.phase = "stopped" /\ NoUsers
    /\ gate.intent.auto => registry.rotation
    /\ CanPlan(files, registry.active, registry.ready, gate.intent.to)

Seal(s) ==
    /\ At(s, "seal")
    /\ CanSeal(s)
    /\ LET ops == Plan(files, registry.active, gate.intent.to) IN
       /\ plan' = [plan EXCEPT ![s] =
             [transaction |-> token[s].transaction, from |-> gate.active,
              to |-> gate.intent.to, generation |-> gate.generation,
              revision |-> registry.revision, phase |-> "forward", ops |-> ops,
              next |-> 0, back |-> 0, inv |-> files]]
       /\ gate' = [gate EXCEPT !.phase = "sealed",
                               !.sealed = [inv |-> files, ops |-> ops]]
    /\ Goto(s, "begin")
    /\ UNCHANGED <<registry, members, work, families, journal, files,
                   participantVars, dead, token, memo, failures>>

\* The policy's guard is evaluated again before the seal.
GuardStale(s) ==
    /\ At(s, "seal") /\ memo[s].auto
    /\ Throw(s)
    /\ UNCHANGED <<ledgerVars, journal, files, participantVars, dead, token, memo, plan, failures>>

\* write: the owner's in-memory journal replaces the file.
Write(s, j) ==
    /\ Owns(s)
    /\ plan' = [plan EXCEPT ![s] = j]
    /\ journal' = j

BeginJournal(s) ==
    /\ At(s, "begin")
    /\ journal = None
    /\ Write(s, plan[s])
    /\ Goto(s, "mark")
    /\ UNCHANGED <<ledgerVars, files, participantVars, dead, token, memo, failures>>

MarkJournal(s) ==
    /\ At(s, "mark")
    /\ SetPhase(token[s], "sealed", "journal")
    /\ Goto(s, "apply")
    /\ UNCHANGED <<registry, members, work, families, journal, files,
                   participantVars, dead, token, memo, plan, failures>>

CanApplyNext(s) ==
    /\ Owns(s) /\ gate.phase = "journal"
    /\ CanApply(files, plan[s].ops[plan[s].next + 1])

\* The write that precedes the operation repeats what the file holds.
ApplyNext(s) ==
    /\ At(s, "apply") /\ plan[s].next < Len(plan[s].ops)
    /\ CanApplyNext(s)
    /\ files' = Applied(files, plan[s].ops[plan[s].next + 1])
    /\ Goto(s, "record")
    /\ UNCHANGED <<ledgerVars, journal, participantVars, dead, token, memo, plan, failures>>

RecordNext(s) ==
    /\ At(s, "record")
    /\ Write(s, [plan[s] EXCEPT !.next = @ + 1])
    /\ Goto(s, "apply")
    /\ UNCHANGED <<ledgerVars, files, participantVars, dead, token, memo, failures>>

CanPublishPlan(s) ==
    /\ MatchesSealed(files, plan[s], {Len(plan[s].ops)})
    /\ Layout(files, plan[s].to, registry.ready)
    /\ CanPublish(token[s], plan[s].revision)

PublishTransition(s) ==
    /\ At(s, "apply") /\ plan[s].next = Len(plan[s].ops)
    /\ CanPublishPlan(s)
    /\ Publish(token[s], plan[s].revision)
    /\ Goto(s, "commit")
    /\ UNCHANGED <<members, work, families, journal, files,
                   participantVars, dead, token, memo, plan, failures>>

RecordCommit(s) ==
    /\ At(s, "commit")
    /\ Write(s, [plan[s] EXCEPT !.phase = "committed"])
    /\ Goto(s, "verify")
    /\ UNCHANGED <<ledgerVars, files, participantVars, dead, token, memo, failures>>

-----------------------------------------------------------------------------
(* finishTransition and restart, common to commit and rollback. *)

CanFinish(s) ==
    /\ Owns(s)
    /\ gate.sealed # None =>
          MatchesSealed(files, gate.sealed,
              {IF gate.phase = "cleanup-commit" THEN Len(gate.sealed.ops) ELSE 0})
    /\ Layout(files, registry.active, registry.ready)

RemoveJournal(s) ==
    /\ At(s, "verify")
    /\ CanFinish(s)
    /\ journal' = None
    /\ Goto(s, "open")
    /\ UNCHANGED <<ledgerVars, files, participantVars, dead, token, memo, plan, failures>>

OpenGate(s) ==
    /\ At(s, "open")
    /\ Open(token[s])
    /\ memo' = [memo EXCEPT ![s] = [@ EXCEPT !.todo = memo[s].parts,
                                             !.generation = gate'.generation]]
    /\ Goto(s, "restart")
    /\ UNCHANGED <<registry, members, work, families, journal, files,
                   participantVars, dead, token, plan, failures>>

\* The participant's check of a "restart" request; it rebases itself, then
\* starts its native process again, which must have been stopped.
CanRestart(s, p) ==
    /\ p \in Running
    /\ gate.generation = memo[s].generation
    /\ CanRebase(p)
    /\ proc[p] = "stopped"

Restart(s, p) ==
    /\ At(s, "restart") /\ Called(s, p)
    /\ CanRestart(s, p)
    /\ Rebase(p)
    /\ proc' = [proc EXCEPT ![p] = "running"]
    /\ memo' = [memo EXCEPT ![s].todo = @ \ {p}]
    /\ UNCHANGED <<gate, registry, work, families, journal, files, view,
                   pc, dead, token, plan, failures>>

\* It has taken the new generation when its overlay or its native process
\* fails; the switcher calls nobody after it.
RestartFails(s, p) ==
    /\ At(s, "restart") /\ Called(s, p)
    /\ CanRestart(s, p)
    /\ Rebase(p)
    /\ Fails
    /\ Throw(s)
    /\ UNCHANGED <<gate, registry, work, families, journal, files, participantVars,
                   dead, token, memo, plan>>

\* A participant whose process is dead is passed over.
SkipRestart(s, p) ==
    /\ At(s, "restart") /\ Called(s, p) /\ proc[p] = "off"
    /\ memo' = [memo EXCEPT ![s].todo = @ \ {p}]
    /\ UNCHANGED <<ledgerVars, journal, files, participantVars, pc, dead, token, plan, failures>>

Restarted(s) ==
    /\ At(s, "restart") /\ memo[s].todo = {}
    /\ Goto(s, "exit")
    /\ UNCHANGED <<ledgerVars, journal, files, participantVars, dead, token, memo, plan, failures>>

-----------------------------------------------------------------------------
(* The catch of rotateAccount. *)

CatchCancels(s) ==
    /\ At(s, "catch") /\ gate.phase = "draining" /\ ~memo[s].stopped
    /\ IF CanCancelDrain(token[s])
       THEN /\ CancelDrain(token[s])
            /\ memo' = [memo EXCEPT ![s] =
                  [@ EXCEPT !.caught = TRUE,
                            !.todo = {p \in memo[s].parts : RowsOf(families, {p}) = {}}]]
            /\ Goto(s, "restart")
       ELSE Goto(s, "exit") /\ UNCHANGED <<gate, memo>>
    /\ UNCHANGED <<registry, members, work, families, journal, files,
                   participantVars, dead, token, plan, failures>>

CatchRecovers(s) ==
    /\ At(s, "catch") /\ ~(gate.phase = "draining" /\ ~memo[s].stopped)
    /\ Goto(s, IF NoUsers /\ gate.phase # "open" THEN "recover" ELSE "exit")
    /\ memo' = [memo EXCEPT ![s].caught = TRUE]
    /\ UNCHANGED <<ledgerVars, journal, files, participantVars, dead, token, plan, failures>>

-----------------------------------------------------------------------------
(* recoverManagedAccounts.  With admission open it only verifies. *)

\* A recoverer stands for one process after the other: when it has ended and
\* the gate no longer names it, the next `accounts recover` may start.
StartRecovery(s) ==
    /\ s \in Recoverers
    /\ pc[s] = "idle" \/ (s \in dead /\ ~Owns(s))
    /\ gate.phase # "open"
    /\ gate.owner.claim < IF RowsOf(work, Running) # {} THEN MaxClaim ELSE MaxClaim + MaxRetries
    /\ memo' = [memo EXCEPT ![s] = [@ EXCEPT !.expected = gate.owner, !.caught = TRUE,
                                             !.generation = gate.generation]]
    /\ token' = [token EXCEPT ![s] =
          [gate.owner EXCEPT !.claim = gate.owner.claim + 1, !.proc = s]]
    /\ dead' = dead \ {s}
    /\ Goto(s, "adopt")
    /\ UNCHANGED <<ledgerVars, journal, files, participantVars, plan, failures>>

\* Mutant: nobody asks whether the owner's process is dead.
AdoptOwnerAlive(s) ==
    /\ At(s, "adopt")
    /\ Adopt(token[s], memo[s].expected)
    /\ Goto(s, "retire")
    /\ UNCHANGED <<registry, members, work, families, journal, files,
                   participantVars, dead, token, memo, plan, failures>>

AdoptOwner(s) ==
    /\ At(s, "adopt")
    /\ memo[s].expected.proc \in dead
    /\ Adopt(token[s], memo[s].expected)
    /\ Goto(s, "retire")
    /\ UNCHANGED <<registry, members, work, families, journal, files,
                   participantVars, dead, token, memo, plan, failures>>

\* A refused recovery leaves nothing behind; the command may be given again.
AdoptRefused(s) ==
    /\ At(s, "adopt")
    /\ memo[s].expected.proc \notin dead \/ ~CanAdopt(memo[s].expected)
    /\ Goto(s, "idle")
    /\ UNCHANGED <<ledgerVars, journal, files, participantVars, dead, token, memo, plan, failures>>

RetireForRecovery(s) ==
    /\ At(s, "retire")
    /\ Retire(Exited)
    /\ IF work' = {}
       THEN /\ Goto(s, "stop")
            /\ memo' = [memo EXCEPT ![s] = [@ EXCEPT !.parts = DOMAIN members',
                                                     !.todo = DOMAIN members']]
       ELSE Goto(s, "exit") /\ UNCHANGED memo
    /\ UNCHANGED <<gate, registry, journal, files, participantVars, dead, token, plan, failures>>

\* Mutant: the phase between the seal and the journal is forgotten.
CanFinishUnsealed(s) ==
    /\ Owns(s) /\ NoUsers /\ journal = None
    /\ \/ gate.phase \in {"draining", "stopped"}
       \/ gate.phase \in {"cleanup-commit", "cleanup-rollback"} /\ gate.sealed # None

\* recoverAccounts without a journal: nothing was moved, or all of it was.
CanFinishWithoutJournal(s) ==
    /\ Owns(s) /\ NoUsers /\ journal = None
    /\ \/ gate.phase \in {"draining", "stopped"}
       \/ gate.phase \in {"sealed", "cleanup-commit", "cleanup-rollback"} /\ gate.sealed # None

\* readSwitchJournal and the check of the files against the journal.
CanReadJournal(s) ==
    /\ Owns(s) /\ NoUsers /\ journal # None
    /\ journal.transaction = token[s].transaction
    /\ journal.from = gate.intent.from /\ journal.to = gate.intent.to
    /\ gate.generation \in {journal.generation, journal.generation + 1}
    /\ MatchesSealed(files, journal,
          IF journal.phase = "rollback"
          THEN {journal.back, IF journal.back = 0 THEN 0 ELSE journal.back - 1}
          ELSE {journal.next, journal.next + 1})

JournalCommitted ==
    registry.active = journal.to /\ registry.generation = journal.generation + 1

CanRollBack == registry.active = journal.from /\ registry.generation = journal.generation

RecoverForward(s) ==
    /\ At(s, "recover")
    /\ \/ CanFinishWithoutJournal(s)
       \/ /\ CanReadJournal(s) /\ JournalCommitted
          /\ Layout(files, registry.active, registry.ready)
    /\ Goto(s, "verify")
    /\ UNCHANGED <<ledgerVars, journal, files, participantVars, dead, token, memo, plan, failures>>

\* Mutant: every recovery starts the rollback over.
RecoverBackwardAgain(s) ==
    /\ At(s, "recover")
    /\ CanReadJournal(s) /\ ~JournalCommitted /\ CanRollBack
    /\ LET len == Len(journal.ops)
           first == IF journal.next < len THEN journal.next + 1 ELSE len
       IN  Write(s, [journal EXCEPT !.phase = "rollback", !.back = first])
    /\ Goto(s, "rolling")
    /\ UNCHANGED <<ledgerVars, files, participantVars, dead, token, memo, failures>>

\* Mutant: the first operation to undo is not clamped to the last one.
RecoverBackwardUnclamped(s) ==
    /\ At(s, "recover")
    /\ CanReadJournal(s) /\ ~JournalCommitted /\ CanRollBack
    /\ Write(s, [journal EXCEPT !.phase = "rollback",
                                !.back = IF journal.phase = "rollback"
                                         THEN @ ELSE journal.next + 1])
    /\ Goto(s, "rolling")
    /\ UNCHANGED <<ledgerVars, files, participantVars, dead, token, memo, failures>>

\* The first recovery starts at the operation that may be half done.
RecoverBackward(s) ==
    /\ At(s, "recover")
    /\ CanReadJournal(s) /\ ~JournalCommitted /\ CanRollBack
    /\ LET len == Len(journal.ops)
           first == IF journal.next < len THEN journal.next + 1 ELSE len
       IN  Write(s, [journal EXCEPT !.phase = "rollback",
                                    !.back = IF journal.phase = "rollback" THEN @ ELSE first])
    /\ Goto(s, "rolling")
    /\ UNCHANGED <<ledgerVars, files, participantVars, dead, token, memo, failures>>

MarkRollback(s) ==
    /\ At(s, "rolling")
    /\ SetPhase(token[s], gate.phase, "rolling-back")
    /\ Goto(s, "undo")
    /\ UNCHANGED <<registry, members, work, families, journal, files,
                   participantVars, dead, token, memo, plan, failures>>

CanUndoNext(s) ==
    /\ Owns(s)
    /\ CanApply(files, Inverse(plan[s].ops[plan[s].back]))

UndoNext(s) ==
    /\ At(s, "undo") /\ plan[s].back > 0
    /\ CanUndoNext(s)
    /\ files' = Applied(files, Inverse(plan[s].ops[plan[s].back]))
    /\ Goto(s, "unrecord")
    /\ UNCHANGED <<ledgerVars, journal, participantVars, dead, token, memo, plan, failures>>

RecordUndo(s) ==
    /\ At(s, "unrecord")
    /\ Write(s, [plan[s] EXCEPT !.back = @ - 1])
    /\ Goto(s, "undo")
    /\ UNCHANGED <<ledgerVars, files, participantVars, dead, token, memo, failures>>

RolledBack(s) ==
    /\ At(s, "undo") /\ plan[s].back = 0
    /\ Layout(files, registry.active, registry.ready)
    /\ SetPhase(token[s], "rolling-back", "cleanup-rollback")
    /\ Goto(s, "verify")
    /\ UNCHANGED <<registry, members, work, families, journal, files,
                   participantVars, dead, token, memo, plan, failures>>

-----------------------------------------------------------------------------
(* Steps that do not succeed. *)

\* The code's own check at this point throws.
Refuses(s) ==
    CASE pc[s] = "drain"     -> ~Owns(s)
      [] pc[s] = "stop"      -> \E p \in Participants : Called(s, p) /\ ~CanStop(s, p)
      [] pc[s] = "stopping"  -> proc[memo[s].calling] = "off"
      [] pc[s] = "reconcile" -> ~CanReconcile(s)
      [] pc[s] = "seal"      -> ~CanSeal(s)
      [] pc[s] = "begin"     -> journal # None \/ ~Owns(s)
      [] pc[s] = "mark"      -> ~Owns(s) \/ gate.phase # "sealed"
      [] pc[s] = "apply"     -> IF plan[s].next < Len(plan[s].ops) THEN ~CanApplyNext(s)
                                                                  ELSE ~CanPublishPlan(s)
      [] pc[s] = "verify"    -> ~CanFinish(s)
      [] pc[s] = "open"      -> ~CanOpen(token[s])
      [] pc[s] = "restart"   -> \E p \in Participants : Called(s, p) /\ proc[p] # "off" /\ ~CanRestart(s, p)
      [] pc[s] = "recover"   -> /\ ~CanFinishWithoutJournal(s)
                                /\ ~(/\ CanReadJournal(s)
                                     /\ IF JournalCommitted
                                        THEN Layout(files, registry.active, registry.ready)
                                        ELSE CanRollBack)
      [] pc[s] = "undo"      -> IF plan[s].back > 0
                                THEN ~CanUndoNext(s)
                                ELSE \/ ~Layout(files, registry.active, registry.ready)
                                     \/ ~Owns(s) \/ gate.phase # "rolling-back"
      [] pc[s] \in {"record", "commit", "rolling", "unrecord"} -> ~Owns(s)
      [] OTHER -> FALSE

Refused(s) ==
    /\ s \notin dead /\ Refuses(s)
    /\ Throw(s)
    /\ UNCHANGED <<ledgerVars, journal, files, participantVars, dead, token, memo, plan, failures>>

\* I/O, SQLite or a control call fails; a step that failed after its durable
\* effect is a fault of the next one.
Fault(s) ==
    /\ s \notin dead /\ pc[s] \in OwnerPcs \cup {"recover", "restart", "catch"}
    /\ Fails
    /\ Throw(s)
    /\ UNCHANGED <<ledgerVars, journal, files, participantVars, dead, token, memo, plan>>

Crash(s) ==
    /\ s \notin dead /\ pc[s] # "idle"
    /\ Fails
    /\ dead' = dead \cup {s}
    /\ UNCHANGED <<ledgerVars, journal, files, participantVars, pc, token, memo, plan>>

\* The command's process ends; an adapter that hosts a rotator lives on.
Leave(s) ==
    /\ At(s, "exit") /\ s \notin Resident
    /\ dead' = dead \cup {s}
    /\ UNCHANGED <<ledgerVars, journal, files, participantVars, pc, token, memo, plan, failures>>

-----------------------------------------------------------------------------
(* Participants. *)

\* The constructor: admission is open and there is no journal; the registry
\* is read for prepareOverlay.
StartParticipant(p) ==
    /\ proc[p] = "off" /\ p \in Starters \ Registered
    /\ ~Frozen
    /\ view' = [view EXCEPT ![p] = registry.active]
    /\ proc' = [proc EXCEPT ![p] = "preparing"]
    /\ UNCHANGED <<ledgerVars, journal, files, switcherVars>>

\* Mutant: the home link replaces whatever the overlay holds.
PrepareOverlayAnyway(p) ==
    /\ proc[p] = "preparing"
    /\ files' = IF view[p] = Home THEN [files EXCEPT ![Overlay] = HomeLink] ELSE files
    /\ proc' = [proc EXCEPT ![p] = "prepared"]
    /\ UNCHANGED <<ledgerVars, journal, switcherVars, view>>

\* prepareOverlay recreates a missing home link, and verifies the overlay,
\* from the registry read before.
PrepareOverlay(p) ==
    /\ proc[p] = "preparing"
    /\ files' = IF files[Overlay] = Absent /\ view[p] = Home
                THEN [files EXCEPT ![Overlay] = HomeLink] ELSE files
    /\ proc' = [proc EXCEPT ![p] =
          IF IF view[p] = Home THEN files'[Overlay] = HomeLink ELSE IsFile(files'[Overlay])
          THEN "prepared" ELSE "off"]
    /\ UNCHANGED <<ledgerVars, journal, switcherVars, view>>

JoinLedger(p) ==
    /\ proc[p] = "prepared"
    /\ IF CanRegister(p)
       THEN Register(p) /\ proc' = [proc EXCEPT ![p] = "running"]
       ELSE UNCHANGED members /\ proc' = [proc EXCEPT ![p] = "off"]
    /\ UNCHANGED <<gate, registry, work, families, journal, files, switcherVars, view>>

\* One lease and one family per participant stand for any number.
BeginWork(p) ==
    /\ p \in Running /\ RowsOf(work, {p}) = {}
    /\ Begin(p)
    /\ UNCHANGED <<gate, registry, members, families, journal, files, switcherVars, participantVars>>

EndWork(p) ==
    /\ p \in Running /\ RowsOf(work, {p}) # {}
    /\ work' = work \ RowsOf(work, {p})
    /\ UNCHANGED <<gate, registry, members, families, journal, files, switcherVars, participantVars>>

SpawnFamily(p) ==
    /\ proc[p] = "running" /\ RowsOf(families, {p}) = {}
    /\ ReserveFamily(p)
    /\ UNCHANGED <<gate, registry, members, work, journal, files, switcherVars, participantVars>>

\* The participant stops its native process on its own, to start it again.
StopFamily(p) ==
    /\ proc[p] = "running" /\ RowsOf(families, {p}) # {}
    /\ ReleaseFamilies(p)
    /\ UNCHANGED <<gate, registry, members, work, journal, files, switcherVars, participantVars>>

\* The stop hook completes, whether or not its caller still waits.
FinishStop(p) ==
    /\ proc[p] = "stopping"
    /\ ReleaseFamilies(p)
    /\ proc' = [proc EXCEPT ![p] = "stopped"]
    /\ UNCHANGED <<gate, registry, members, work, journal, files, switcherVars, view>>

\* close: the native processes first, then the registration.
Close(p) ==
    /\ p \in Running
    /\ RowsOf(work, {p}) = {}
    /\ Retire({p})
    /\ proc' = [proc EXCEPT ![p] = "off"]
    /\ UNCHANGED <<gate, registry, journal, files, switcherVars, view>>

\* The process dies; its leases stay, and its native processes live on.
Die(p) ==
    /\ p \in Running
    /\ proc' = [proc EXCEPT ![p] = "off"]
    /\ UNCHANGED <<ledgerVars, journal, files, switcherVars, view>>

\* `accounts rotate on|off`.
SetRotation(rotation) == EditRegistry(rotation, registry.ready)

\* A reading finds the login of an account good, or bad.
ObserveLogin(a) ==
    \E ready \in {registry.ready \ {a}, registry.ready \cup {a}} :
        /\ a \in ready => \E path \in Paths : files[path] = a
        /\ EditRegistry(registry.rotation, ready)

Configure ==
    /\ registry.revision < MaxRevision
    /\ \/ \E rotation \in BOOLEAN : SetRotation(rotation)
       \/ \E a \in Accounts : ObserveLogin(a)
    /\ UNCHANGED <<gate, members, work, families, journal, files, switcherVars, participantVars>>

-----------------------------------------------------------------------------
NoMemo == [to |-> Home, auto |-> FALSE, generation |-> 0, expected |-> None,
           parts |-> {}, todo |-> {}, calling |-> None, caught |-> TRUE, stopped |-> FALSE]

NoToken(s) == [transaction |-> s, claim |-> 0, proc |-> s]

\* The accounts whose credentials exist are logged in, one of them or Home is
\* active, and rotation has been turned on.
Init ==
    /\ \E ready \in SUBSET Accounts : \E active \in ready \cup {Home} :
          /\ registry = [active |-> active, generation |-> 0, revision |-> 0,
                         rotation |-> TRUE, ready |-> ready]
          /\ files = [path \in Paths |->
                CASE path = Canonical -> IF Home \in ready THEN Home ELSE Absent
                  [] path = Overlay -> IF active = Home THEN HomeLink ELSE active
                  [] OTHER -> IF path \in ready \ {active} THEN path ELSE Absent]
    /\ gate = [active |-> registry.active, generation |-> 0, phase |-> "open",
               owner |-> None, intent |-> None, sealed |-> None]
    /\ members = [p \in Participants \ Starters |-> 0]
    /\ work = {} /\ families = {} /\ journal = None
    /\ pc = [s \in Switchers |-> "idle"] /\ dead = {}
    /\ token = [s \in Switchers |-> NoToken(s)]
    /\ memo = [s \in Switchers |-> NoMemo]
    /\ plan = [s \in Switchers |-> None]
    /\ proc = [p \in Participants |-> IF p \in Starters THEN "off" ELSE "running"]
    /\ view = [p \in Participants |-> Home]
    /\ failures = 0

\* What a switcher does when nothing fails.
Advance(s) ==
    \/ FreezeStep(s) \/ FreezeRefused(s) \/ Drain(s)
    \/ \E p \in Participants : SendStop(s, p) \/ Restart(s, p) \/ SkipRestart(s, p)
    \/ StopReplied(s) \/ AllStopped(s) \/ Joined(s) \/ Reconcile(s) \/ Seal(s)
    \/ BeginJournal(s) \/ MarkJournal(s) \/ ApplyNext(s) \/ RecordNext(s)
    \/ PublishTransition(s) \/ RecordCommit(s) \/ RemoveJournal(s) \/ OpenGate(s)
    \/ Restarted(s) \/ CatchCancels(s) \/ CatchRecovers(s)
    \/ AdoptOwner(s) \/ AdoptRefused(s) \/ RetireForRecovery(s)
    \/ RecoverForward(s) \/ RecoverBackward(s) \/ MarkRollback(s)
    \/ UndoNext(s) \/ RecordUndo(s) \/ RolledBack(s)
    \/ Refused(s) \/ Leave(s)

Switcher(s) ==
    \/ Advance(s)
    \/ \E to \in Accounts, auto \in BOOLEAN : Start(s, to, auto)
    \/ \E p \in Participants : RestartFails(s, p)
    \/ StartRecovery(s)
    \/ Abort(s) \/ GuardStale(s) \/ Fault(s) \/ Crash(s)

Participant(p) ==
    \/ StartParticipant(p) \/ PrepareOverlay(p) \/ JoinLedger(p)
    \/ BeginWork(p) \/ EndWork(p) \/ SpawnFamily(p) \/ StopFamily(p)
    \/ FinishStop(p) \/ Close(p) \/ Die(p)

Next ==
    \/ \E s \in Switchers : Switcher(s)
    \/ \E p \in Participants : Participant(p)
    \/ Configure

Spec == Init /\ [][Next]_vars

\* A switcher whose process runs takes its next step, a stop hook completes, and
\* somebody runs `accounts recover` while admission is closed.  Nothing bounds a
\* turn: it may wait for an approval, so no fairness of EndWork.
Fairness ==
    /\ \A s \in Switchers : WF_vars(Advance(s)) /\ WF_vars(StartRecovery(s))
    /\ \A p \in Participants : WF_vars(FinishStop(p))

FairSpec == Spec /\ Fairness

-----------------------------------------------------------------------------
(* Properties. *)

\* The values the variables take: those of the rows and locals in the code.
TypeOK ==
    /\ LedgerTypeOK
    /\ journal \in SwitchJournal \cup {None}
    /\ pc \in [Switchers -> Pcs] /\ dead \subseteq Switchers
    /\ token \in [Switchers -> OwnerToken]
    /\ memo \in [Switchers -> Memo]
    /\ plan \in [Switchers -> SwitchJournal \cup {None}]
    /\ proc \in [Participants ->
                 {"off", "preparing", "prepared", "running", "stopping", "stopped"}]
    /\ view \in [Participants -> Accounts]
    /\ failures \in 0 .. MaxFailures

\* Fencing: a live process between freeze (or adoption) and open is the owner
\* in the gate, so at most one process moves credentials, and a process whose
\* transaction was adopted is dead.
SingleOwner ==
    \A s \in Switchers \ dead :
        pc[s] \in OwnerPcs => gate.phase # "open" /\ Owns(s)

\* No crash, fault or concurrent start loses a credential or leaves it under
\* two names: every account that was logged in has its file exactly once.
Credentials == {files[path] : path \in Paths} \cap Accounts
NothingLostOrCopied == [][Credentials' = Credentials /\ NoDuplicates(files')]_files

\* Admission reopens only when the switch is settled: the gate and registry
\* agree, no journal is left, and the files have the active account's layout.
OpenIsSettled ==
    gate.phase = "open" =>
        /\ journal = None
        /\ gate.active = registry.active /\ gate.generation = registry.generation
        /\ Layout(files, registry.active, registry.ready)

\* Whoever holds a lease holds it at the current generation: no turn and no
\* native process survives a switch.
LeasesAreCurrent ==
    \A row \in work \cup families : row.generation = gate.generation

\* A native process reads the credential of the account it was admitted for,
\* for as long as it runs.
FamilyReadsItsAccount ==
    \A f \in families :
        /\ f.account = registry.active
        /\ files[Overlay] = IF f.account = Home THEN HomeLink ELSE f.account

\* Whatever the instant of a crash, the checks that recovery makes before it
\* touches a file pass, so an interrupted switch can always be finished.
RecoveryPasses ==
    \/ gate.phase = "open"
    \/ journal = None /\ gate.phase \in {"draining", "stopped"}
    \/ /\ journal = None /\ gate.phase \in {"sealed", "cleanup-rollback"}
       /\ MatchesSealed(files, gate.sealed, {0})
    \/ /\ journal = None /\ gate.phase = "cleanup-commit"
       /\ MatchesSealed(files, gate.sealed, {Len(gate.sealed.ops)})
    \/ /\ journal # None
       /\ gate.intent = [from |-> journal.from, to |-> journal.to, auto |-> gate.intent.auto]
       /\ gate.sealed = [inv |-> journal.inv, ops |-> journal.ops]
       /\ IF journal.phase = "rollback"
          THEN CanRollBack /\ MatchesSealed(files, journal, {journal.back} \cup
                                 {n \in 0 .. 2 : n + 1 = journal.back})
          ELSE /\ JournalCommitted \/ CanRollBack
               /\ MatchesSealed(files, journal, {journal.next, journal.next + 1})

\* The switch is decided once: the registry's account and generation change
\* together, from the intent, with every lease gone, and a reopened gate
\* shows either the old pair or the new one.
SwitchIsAtomic ==
    [][ /\ registry'.active # registry.active => registry'.generation # registry.generation
        /\ registry'.generation # registry.generation =>
              /\ registry'.generation = registry.generation + 1
              /\ registry'.active = gate.intent.to
              /\ NoUsers /\ NoUsers' ]_registry

\* Nobody touches the credential files of a running process.
MovesAreQuiet == [][NoUsers /\ gate.phase \notin {"open", "draining"}]_files

\* No live participant holds a turn's lease for ever while admission is closed.
\* The code does not see to it: a turn may wait for an approval, which has no
\* timeout, and a lease whose native process died at work is kept.
AtWork(p) == p \in Running /\ RowsOf(work, {p}) # {}
LeasesEnd == \A p \in Participants : []<>(gate.phase = "open" \/ ~AtWork(p))

\* Provided that leases end, an interrupted or failed switch ends with admission
\* open again: some recovery finishes what a crash, a fault or a refusal left,
\* the leases of dead participants among it.
Settles == LeasesEnd => (gate.phase # "open" ~> gate.phase = "open")

\* "your next message continues with context on the selected account": once
\* admission is open and no switcher is at work, no participant is left
\* stopped, or running at an old generation, which admits no turn any more.
ServiceResumes ==
    /\ gate.phase = "open"
    /\ \A s \in Switchers \ dead : pc[s] \in {"idle", "exit"}
    => \A p \in Registered :
          proc[p] # "stopped" /\ (proc[p] = "running" => members[p] = gate.generation)

(***************************************************************************)
(* The promise to the rest of the program, AtomicSwitch, seen through the  *)
(* overlay: its link stands for Home, a file for the account it logs in.   *)
(***************************************************************************)
Atomic == INSTANCE AtomicSwitch WITH
    Account <- Accounts,
    User <- {"turn", "family"} \X Participants,
    NoCredential <- Absent,
    active <- registry.active,
    generation <- registry.generation,
    admitting <- gate.phase = "open",
    presented <- IF files[Overlay] = HomeLink THEN Home ELSE files[Overlay],
    users <- {<<<<"turn", w.participant>>, w.generation>> : w \in work}
             \cup {<<<<"family", f.participant>>, f.generation>> : f \in families}

\* Every run of the journaled switch, with its crashes and recoveries, is a run
\* of the atomic one.
ImplementsAtomicSwitch == Atomic!Spec
=============================================================================
