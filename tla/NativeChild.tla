----------------------------- MODULE NativeChild -----------------------------
(***************************************************************************)
(* The native Codex child of an adapter: its launch under a supervisor      *)
(* (accounts-family.mts, accounts-supervisor.mts), its handshake, its exits *)
(* and restarts (codex-upstream.mts), and its stop and restart by a switch  *)
(* of accounts, which has frozen the ledger.                               *)
(*                                                                         *)
(* The adapter's code runs without interruption from one await to the next. *)
(* The supervisor is a process of its own, blocked until it is told to run  *)
(* what it was launched for; the adapter may die between any two steps.     *)
(***************************************************************************)
EXTENDS Naturals

CONSTANTS Launches,     \* launches of a child, numbered in their order
          MaxRestarts,  \* maxRestarts, 3 in the adapter
          MaxExits,     \* bound on exits of a child at work
          MaxSwitches,  \* bound on switches begun
          None

ASSUME ChildAssumption ==
    /\ Launches \subseteq Nat /\ None \notin Launches
    /\ MaxRestarts \in Nat /\ MaxExits \in Nat /\ MaxSwitches \in Nat

VARIABLES
    phase,     \* the ledger's phase
    row,       \* the ledger's family row of each launch
    group,     \* the process group of each launch
    launch,    \* where the spawn of the family is, for each launch
    refusing,  \* the family is being stopped
    process,   \* the adapter
    up,        \* its CodexUpstream
    inits,     \* calls of initialize under way
    hook,      \* where the hook that stops the upstream is
    told,      \* what each child has answered and been told
    exits, switches

vars == <<phase, row, group, launch, refusing, process, up, inits, hook, told, exits, switches>>

\* native stands for every process of the group but the supervisor, run for
\* the message that grants the launch, said for the one that reports it.
Group == [sup : {"none", "blocked", "running", "ending", "dead"},
          native : BOOLEAN, run : BOOLEAN, said : BOOLEAN]

\* "ready" and "launched" await those messages, "undo" is the catch, "child"
\* a child in the family's map, "stopping" one being stopped.
Steps == {"none", "ready", "attached", "launched", "undo", "child", "stopping", "over"}

Upstream ==
    [child : Launches \cup {None}, starting : Launches \cup {None},
     handshaken : BOOLEAN, sent : BOOLEAN, ready : BOOLEAN,
     stopping : BOOLEAN, unavailable : BOOLEAN, timer : BOOLEAN,
     restarts : 0 .. MaxRestarts, params : BOOLEAN, cached : BOOLEAN]

\* "await" waits for the launch, "asked" for the child, "after" for
\* afterInitialize and the first reading of limits.
Call == [child : Launches \cup {None}, at : {"await", "asked", "after"}]

NoGroup == [sup |-> "none", native |-> FALSE, run |-> FALSE, said |-> FALSE]
Blocked == [NoGroup EXCEPT !.sup = "blocked"]
Dead    == [NoGroup EXCEPT !.sup = "dead"]

TypeOK ==
    /\ phase \in {"open", "draining", "stopped"}
    /\ row \in [Launches -> {"none", "reserved", "native"}]
    /\ group \in [Launches -> Group]
    /\ launch \in [Launches -> Steps]
    /\ refusing \in BOOLEAN
    /\ process \in {"up", "gone"}
    /\ up \in Upstream
    /\ inits \subseteq Call
    /\ hook \in {"none", "starting", "child", "family", "done"}
    /\ told \in [Launches -> [answered : BOOLEAN, initialized : 0 .. 2]]
    /\ exits \in 0 .. MaxExits /\ switches \in 0 .. MaxSwitches

Init ==
    /\ phase = "open"
    /\ row = [l \in Launches |-> "none"]
    /\ group = [l \in Launches |-> NoGroup]
    /\ launch = [l \in Launches |-> "none"]
    /\ refusing = FALSE
    /\ process = "up"
    /\ up = [child |-> None, starting |-> None, handshaken |-> FALSE, sent |-> FALSE,
             ready |-> FALSE, stopping |-> FALSE, unavailable |-> FALSE, timer |-> FALSE,
             restarts |-> 0, params |-> FALSE, cached |-> FALSE]
    /\ inits = {}
    /\ hook = "none"
    /\ told = [l \in Launches |-> [answered |-> FALSE, initialized |-> 0]]
    /\ exits = 0 /\ switches = 0

-----------------------------------------------------------------------------
(* The supervisor and what runs in its group.                               *)

GroupStep == UNCHANGED <<phase, row, launch, refusing, process, up, inits, hook, told, switches>>

\* The run message; or the binary cannot be started.
SupervisorRuns(l) ==
    /\ group[l].sup = "blocked" /\ group[l].run
    /\ \/ group' = [group EXCEPT ![l] = [sup |-> "running", native |-> TRUE,
                                         run |-> FALSE, said |-> TRUE]]
       \/ group' = [group EXCEPT ![l] = Dead]
    /\ UNCHANGED exits /\ GroupStep

\* Ten seconds without a run message, or the launcher is gone.
SupervisorGivesUp(l) ==
    /\ group[l].sup = "blocked"
    /\ group' = [group EXCEPT ![l] = Dead]
    /\ UNCHANGED exits /\ GroupStep

\* Codex exits, or the supervisor is killed: others of the group may remain.
CodexExits(l) ==
    /\ group[l].sup = "running" /\ exits < MaxExits
    /\ exits' = exits + 1
    /\ \E left \in BOOLEAN :
          group' = [group EXCEPT ![l].sup = "dead", ![l].native = left]
    /\ GroupStep

\* The launcher is gone: the supervisor ends its group, and itself last.
SupervisorStops(l) ==
    /\ group[l].sup = "running" /\ process = "gone"
    /\ group' = [group EXCEPT ![l].sup = "ending"]
    /\ UNCHANGED exits /\ GroupStep

SupervisorEnds(l) ==
    /\ group[l].sup = "ending"
    /\ group' = [group EXCEPT ![l] = [@ EXCEPT !.sup = "dead", !.native = FALSE]]
    /\ UNCHANGED exits /\ GroupStep

Exited(l) == group[l].sup = "dead" /\ ~group[l].native

\* stopFamily, or SIGKILL to a blocked supervisor.
GroupKilled(l) ==
    /\ process = "up" /\ launch[l] \in {"undo", "stopping"}
    /\ ~Exited(l)
    /\ group' = [group EXCEPT ![l] = [@ EXCEPT !.sup = "dead", !.native = FALSE, !.run = FALSE]]
    /\ UNCHANGED exits /\ GroupStep

-----------------------------------------------------------------------------
(* CodexUpstream: starting, and the launch of a child.                      *)

\* The calls whose child is still to answer fail with it.
FailPending == {c \in inits : c.at # "asked"}

Fresh(l) == launch[l] = "none" /\ \A k \in Launches : k < l => launch[k] # "none"

\* reserveFamily of a model family, in a family that is not being stopped.
Admitted == phase = "open" /\ ~refusing

\* start(), called in the state u of the upstream.
Start(u) ==
    LET nothingToDo == u.child # None \/ u.starting # None \/ u.stopping \/ u.unavailable IN
    \/ nothingToDo /\ up' = u /\ UNCHANGED <<row, group, launch>>
    \/ /\ ~nothingToDo /\ ~Admitted
       /\ up' = [u EXCEPT !.unavailable = TRUE]
       /\ UNCHANGED <<row, group, launch>>
    \/ /\ ~nothingToDo /\ Admitted
       /\ \E l \in Launches :
             /\ Fresh(l)
             /\ up' = [u EXCEPT !.starting = l]
             /\ row' = [row EXCEPT ![l] = "reserved"]
             /\ group' = [group EXCEPT ![l] = Blocked]
             /\ launch' = [launch EXCEPT ![l] = "ready"]

\* initialize(), called in the state u of the upstream.
Initialize(u) ==
    inits' = inits \cup
        IF u.starting # None THEN {[child |-> None, at |-> "await"]}
        ELSE IF u.child # None THEN {[child |-> u.child, at |-> "asked"]} ELSE {}

\* Mutant: the row is written once the supervisor runs.
ReadyUnattached(l) ==
    /\ process = "up" /\ launch[l] = "ready" /\ group[l].sup = "blocked"
    /\ launch' = [launch EXCEPT ![l] = "attached"]
    /\ UNCHANGED <<phase, row, group, refusing, process, up, inits, hook, told, exits, switches>>

\* The supervisor is ready: its group is written to its row.
Ready(l) ==
    /\ process = "up" /\ launch[l] = "ready" /\ group[l].sup = "blocked"
    /\ row' = [row EXCEPT ![l] = "native"]
    /\ launch' = [launch EXCEPT ![l] = "attached"]
    /\ UNCHANGED <<phase, group, refusing, process, up, inits, hook, told, exits, switches>>

Grant(l) ==
    /\ process = "up" /\ launch[l] = "attached"
    /\ launch' = [launch EXCEPT ![l] = "launched"]
    /\ group' = [group EXCEPT ![l].run = (@ \/ group[l].sup = "blocked")]
    /\ UNCHANGED <<phase, row, refusing, process, up, inits, hook, told, exits, switches>>

\* Mutant: nothing bounds the wait for the child.
LaunchWaits(l) ==
    /\ process = "up" /\ launch[l] = "ready"
    /\ launch' = [launch EXCEPT ![l] = "undo"]
    /\ UNCHANGED <<phase, row, group, refusing, process, up, inits, hook, told, exits, switches>>

\* A message that does not come within ten seconds, an exit or an error.
LaunchFails(l) ==
    /\ process = "up" /\ launch[l] \in {"ready", "launched"}
    /\ launch' = [launch EXCEPT ![l] = "undo"]
    /\ UNCHANGED <<phase, row, group, refusing, process, up, inits, hook, told, exits, switches>>

\* The launch is undone, its row released or cancelled.
Undone(l) ==
    /\ process = "up" /\ launch[l] = "undo" /\ Exited(l)
    /\ row' = [row EXCEPT ![l] = "none"]
    /\ launch' = [launch EXCEPT ![l] = "over"]
    /\ up' = [up EXCEPT !.starting = None, !.unavailable = TRUE]
    /\ UNCHANGED <<phase, group, refusing, process, inits, hook, told, exits, switches>>

\* The child runs; stop() may have been called meanwhile.
Launched(l) ==
    /\ process = "up" /\ launch[l] = "launched" /\ group[l].said
    /\ \/ /\ up.stopping
          /\ launch' = [launch EXCEPT ![l] = "stopping"]
          /\ UNCHANGED up
       \/ /\ ~up.stopping
          /\ launch' = [launch EXCEPT ![l] = "child"]
          /\ up' = [up EXCEPT !.starting = None, !.child = l, !.handshaken = FALSE,
                              !.sent = FALSE, !.ready = FALSE]
    /\ UNCHANGED <<phase, row, group, refusing, process, inits, hook, told, exits, switches>>

\* The end of the family's stop(child).
ChildStopped(l) ==
    /\ process = "up" /\ launch[l] = "stopping" /\ Exited(l)
    /\ row' = [row EXCEPT ![l] = "none"]
    /\ launch' = [launch EXCEPT ![l] = "over"]
    /\ up' = [up EXCEPT !.starting = IF @ = l THEN None ELSE @]
    /\ UNCHANGED <<phase, group, refusing, process, inits, hook, told, exits, switches>>

-----------------------------------------------------------------------------
(* CodexUpstream: exits, restarts and the handshake.                        *)

NoChild(u) == [u EXCEPT !.child = None, !.handshaken = FALSE, !.ready = FALSE]

\* Mutant: one restart too many.
ExitSeenLate(l) ==
    /\ process = "up" /\ up.child = l /\ group[l].sup = "dead"
    /\ \/ up.stopping /\ up' = NoChild(up)
       \/ /\ ~up.stopping /\ up.restarts > MaxRestarts
          /\ up' = [NoChild(up) EXCEPT !.unavailable = TRUE]
       \/ /\ ~up.stopping /\ up.restarts <= MaxRestarts
          /\ up' = [NoChild(up) EXCEPT !.timer = TRUE, !.restarts = @ + 1]
    /\ inits' = FailPending
    /\ UNCHANGED <<phase, row, group, launch, refusing, process, hook, told, exits, switches>>

\* The exit of the child that is attached, and scheduleRestart.
ExitSeen(l) ==
    /\ process = "up" /\ up.child = l /\ group[l].sup = "dead"
    /\ \/ up.stopping /\ up' = NoChild(up)
       \/ /\ ~up.stopping /\ up.restarts >= MaxRestarts
          /\ up' = [NoChild(up) EXCEPT !.unavailable = TRUE]
       \/ /\ ~up.stopping /\ up.restarts < MaxRestarts
          /\ up' = [NoChild(up) EXCEPT !.timer = TRUE, !.restarts = @ + 1]
    /\ inits' = FailPending
    /\ UNCHANGED <<phase, row, group, launch, refusing, process, hook, told, exits, switches>>

\* The restart timer, and the handshake replayed.
TimerFires ==
    /\ process = "up" /\ up.timer
    /\ \/ /\ up.stopping
          /\ up' = [up EXCEPT !.timer = FALSE]
          /\ UNCHANGED <<row, group, launch, inits>>
       \/ /\ ~up.stopping
          /\ Start([up EXCEPT !.timer = FALSE])
          /\ IF up.params THEN Initialize(up') ELSE UNCHANGED inits
    /\ UNCHANGED <<phase, refusing, process, hook, told, exits, switches>>

\* The adapter's eager start, or the first half of the app's initialize.
AppStarts ==
    /\ process = "up" /\ ~up.unavailable /\ ~up.stopping
    /\ up.child = None /\ up.starting = None
    /\ Start(up)
    /\ UNCHANGED <<phase, refusing, process, inits, hook, told, exits, switches>>

\* Mutant: a child that has not answered is told.
MarkUnasked ==
    IF up.sent \/ up.child = None
    THEN UNCHANGED <<up, told>>
    ELSE /\ up' = [up EXCEPT !.sent = TRUE, !.ready = TRUE]
         /\ told' = [told EXCEPT ![up.child].initialized = @ + 1]

\* markInitialized
Mark ==
    IF up.sent \/ ~up.handshaken \/ up.child = None
    THEN UNCHANGED <<up, told>>
    ELSE /\ up' = [up EXCEPT !.sent = TRUE, !.ready = TRUE]
         /\ told' = [told EXCEPT ![up.child].initialized = @ + 1]

\* The second half of the app's initialize: a cached result, or a call.
AppInitializes ==
    /\ process = "up" /\ ~up.unavailable /\ ~up.stopping
    /\ \/ up.cached /\ Mark /\ UNCHANGED inits
       \/ /\ ~up.cached
          /\ up' = [up EXCEPT !.params = TRUE]
          /\ Initialize(up) /\ UNCHANGED told
    /\ UNCHANGED <<phase, row, group, launch, refusing, process, hook, exits, switches>>

\* The app's initialized notification.
AppInitialized ==
    /\ process = "up" /\ ~up.unavailable /\ ~up.stopping
    /\ Mark
    /\ UNCHANGED <<phase, row, group, launch, refusing, process, inits, hook, exits, switches>>

\* The launch is over: the call goes to the child there is.
CallResumes(c) ==
    /\ process = "up" /\ c.at = "await" /\ up.starting = None
    /\ inits' = (inits \ {c}) \cup
         IF up.child = None THEN {} ELSE {[child |-> up.child, at |-> "asked"]}
    /\ UNCHANGED <<phase, row, group, launch, refusing, process, up, hook, told, exits, switches>>

\* The child's answer, while it runs.
CallAnswered(c) ==
    /\ process = "up" /\ c.at = "asked" /\ up.child = c.child
    /\ up' = [up EXCEPT !.handshaken = TRUE, !.cached = TRUE]
    /\ told' = [told EXCEPT ![c.child].answered = TRUE]
    /\ inits' = (inits \ {c}) \cup {[c EXCEPT !.at = "after"]}
    /\ UNCHANGED <<phase, row, group, launch, refusing, process, hook, exits, switches>>

\* An error, or none within thirty seconds; or afterInitialize fails.
CallFails(c) ==
    /\ process = "up" /\ c.at \in {"asked", "after"}
    /\ inits' = inits \ {c}
    /\ UNCHANGED <<phase, row, group, launch, refusing, process, up, hook, told, exits, switches>>

\* The call returns to its caller, unless its child has been replaced.
CallReturns(c) ==
    /\ process = "up" /\ c.at = "after"
    /\ inits' = inits \ {c}
    /\ IF c.child = up.child THEN Mark ELSE UNCHANGED <<up, told>>
    /\ UNCHANGED <<phase, row, group, launch, refusing, process, hook, exits, switches>>

-----------------------------------------------------------------------------
(* The hook that stops the upstream, and the one that restarts it.          *)

HookStops ==
    /\ process = "up" /\ phase = "draining" /\ hook \in {"none", "done"}
    /\ up' = [up EXCEPT !.stopping = TRUE]
    /\ hook' = "starting"
    /\ UNCHANGED <<phase, row, group, launch, refusing, process, inits, told, exits, switches>>

\* No launch is under way: the child is let go, and stopped.
HookStopsChild ==
    /\ process = "up" /\ hook = "starting" /\ up.starting = None
    /\ up' = [NoChild(up) EXCEPT !.timer = FALSE]
    /\ inits' = FailPending
    /\ launch' = [l \in Launches |-> IF l = up.child THEN "stopping" ELSE launch[l]]
    /\ hook' = "child"
    /\ UNCHANGED <<phase, row, group, refusing, process, told, exits, switches>>

\* The child is gone: the family refuses launches.
HookStopsFamily ==
    /\ process = "up" /\ hook = "child"
    /\ \A l \in Launches : launch[l] # "stopping"
    /\ refusing' = TRUE
    /\ hook' = "family"
    /\ UNCHANGED <<phase, row, group, launch, process, up, inits, told, exits, switches>>

Pending == {l \in Launches : launch[l] \in {"ready", "attached", "launched", "undo"}}

\* Children that exited before are still in the family's map.
FamilyStops ==
    /\ process = "up" /\ hook = "family" /\ Pending = {}
    /\ \E l \in Launches : launch[l] = "child"
    /\ launch' = [l \in Launches |-> IF launch[l] = "child" THEN "stopping" ELSE launch[l]]
    /\ UNCHANGED <<phase, row, group, refusing, process, up, inits, hook, told, exits, switches>>

\* Mutant: children that exited before are not joined.
FamilyForgets ==
    /\ process = "up" /\ hook = "family" /\ Pending = {}
    /\ refusing' = FALSE
    /\ hook' = "done"
    /\ UNCHANGED <<phase, row, group, launch, process, up, inits, told, exits, switches>>

\* Nothing is left: the participant takes a new family.
FamilyStopped ==
    /\ process = "up" /\ hook = "family" /\ Pending = {}
    /\ \A l \in Launches : launch[l] \notin {"child", "stopping"}
    /\ refusing' = FALSE
    /\ hook' = "done"
    /\ UNCHANGED <<phase, row, group, launch, process, up, inits, told, exits, switches>>

\* rebaseParticipant, which refuses while a row is left, restartForAccounts.
\* Once no row is left the hook that stops goes on without waiting for any event.
HookRestarts ==
    /\ process = "up" /\ phase = "open" /\ up.stopping
    /\ \A l \in Launches : row[l] = "none"
    /\ hook = "done"
    /\ Start([up EXCEPT !.stopping = FALSE, !.unavailable = FALSE, !.restarts = 0])
    /\ IF up.params THEN Initialize(up') ELSE UNCHANGED inits
    /\ UNCHANGED <<phase, refusing, process, hook, told, exits, switches>>

-----------------------------------------------------------------------------
(* The switch of accounts, elsewhere, and the adapter's death.              *)

SwitchStep == UNCHANGED <<launch, refusing, process, up, inits, hook, told, exits>>

Freeze ==
    /\ phase = "open" /\ switches < MaxSwitches
    /\ phase' = "draining"
    /\ switches' = switches + 1
    /\ UNCHANGED <<row, group>> /\ SwitchStep

\* Work has not drained in time, or a participant has not stopped.
Cancel ==
    /\ phase = "draining"
    /\ phase' = "open"
    /\ UNCHANGED <<row, group, switches>> /\ SwitchStep

\* The participant has stopped, or is gone: no family is left.
Seal ==
    /\ phase = "draining"
    /\ hook = "done" \/ process = "gone"
    /\ \A l \in Launches : row[l] = "none"
    /\ phase' = "stopped"
    /\ UNCHANGED <<row, group, switches>> /\ SwitchStep

Reopen ==
    /\ phase = "stopped"
    /\ phase' = "open"
    /\ UNCHANGED <<row, group, switches>> /\ SwitchStep

\* retireExitedParticipants, for a row of the adapter that died: one without
\* a group is cancelled, else the group is ended before the row is released.
RetireRow(l) ==
    /\ process = "gone" /\ phase = "draining"
    /\ \/ row[l] = "reserved" /\ UNCHANGED group
       \/ row[l] = "native" /\ group' = [group EXCEPT ![l] = Dead]
    /\ row' = [row EXCEPT ![l] = "none"]
    /\ UNCHANGED <<phase, switches>> /\ SwitchStep

Die ==
    /\ process = "up"
    /\ process' = "gone"
    /\ UNCHANGED <<phase, row, group, launch, refusing, up, inits, hook, told, exits, switches>>

-----------------------------------------------------------------------------
LaunchStep(l) == Ready(l) \/ Grant(l) \/ LaunchFails(l) \/ Launched(l) \/ Undone(l) \/ ChildStopped(l)

HookStep == HookStopsChild \/ HookStopsFamily \/ FamilyStops \/ FamilyStopped

Next ==
    \/ \E l \in Launches :
          \/ SupervisorRuns(l) \/ SupervisorGivesUp(l) \/ CodexExits(l)
          \/ SupervisorStops(l) \/ SupervisorEnds(l) \/ GroupKilled(l)
          \/ LaunchStep(l) \/ ExitSeen(l) \/ RetireRow(l)
    \/ TimerFires \/ AppStarts \/ AppInitializes \/ AppInitialized
    \/ \E c \in inits : CallResumes(c) \/ CallAnswered(c) \/ CallFails(c) \/ CallReturns(c)
    \/ HookStops \/ HookStep \/ HookRestarts
    \/ Freeze \/ Cancel \/ Seal \/ Reopen \/ Die

Spec == Init /\ [][Next]_vars

\* Promises settle, timers fire, exits are reported, signals end a group.
Fairness ==
    /\ \A l \in Launches : WF_vars(LaunchStep(l)) /\ WF_vars(GroupKilled(l)) /\ WF_vars(ExitSeen(l))
    /\ WF_vars(TimerFires) /\ WF_vars(HookStep)

FairSpec == Spec /\ Fairness

-----------------------------------------------------------------------------
(* Properties.                                                              *)

\* Whatever reads a credential is in the ledger: a native process has its row,
\* though the launcher died between two steps, and none runs under a switch
\* that has sealed its account, though a launch, an exit or a restart was
\* under way when it began.
NativeIsHeld ==
    /\ \A l \in Launches : group[l].native => row[l] = "native"
    /\ phase = "stopped" => \A l \in Launches : ~group[l].native

\* What the stop hook answers is so: no launch, child, process, row or timer
\* is left until the restart, whatever was under way when it was called.
StopLeavesNothing ==
    hook = "done" /\ up.stopping /\ process = "up" =>
        /\ up.starting = None /\ up.child = None /\ ~up.timer
        /\ \A l \in Launches : row[l] = "none" /\ group[l].sup \in {"none", "dead"}

\* A child is told `initialized` once, after it has itself answered
\* initialize, and is ready from then to its end; not on the answer of one
\* before it, which the upstream keeps and other calls wait for.
HandshakeFirst ==
    /\ \A l \in Launches :
          /\ told[l].initialized <= 1
          /\ told[l].initialized = 1 => told[l].answered
    /\ up.ready => up.child # None /\ told[up.child].initialized = 1

\* A launch or a restart under way comes to a child, or to the admission that
\* there is none; a stop comes to its end. Neither waits for the other, or for
\* a message that does not come.
NothingHangs ==
    /\ up.starting # None \/ up.timer ~>
          up.child # None \/ up.unavailable \/ up.stopping \/ process = "gone"
    /\ hook \in {"starting", "child", "family"} ~> hook = "done" \/ process = "gone"

\* The guide: "The child is restarted with backoff (1 s, 2 s, 4 s) if it exits".
\* While admission is open and no launch has failed, a child that has exited is
\* given up only once its restarts are spent.
RestartedIfItExits ==
    phase = "open" /\ up.unavailable /\ exits > 0 /\ (\A l \in Launches : launch[l] \in {"none", "child"})
        => up.restarts = MaxRestarts
=============================================================================
