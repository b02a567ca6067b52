# AnyEngine in TLA+

AnyEngine lets the ChatGPT app, the Codex CLI and Claude Code use each other's
providers.  A shim starts an adapter in place of the official Codex process, a
router serves Claude Code, and both share one *active OpenAI account* out of the
user's own login (Home) and the accounts registered with `accounts add`.

This directory is the verification project for that program: TLA+ modules
translated from `src/`, the TLC configurations that check them on small
instances, and theorems checked by TLAPS.  It covers five parts, those with the
most to lose: switching the active account, which moves credential files between
directories while other processes start, work and die; the work of an adapter
that has to keep the account in place while it runs; its native Codex child, from its
launch to its end; the router's cache of the
account's token; and the turns of the adapter server.

## 1. The system

| part | state | operations | what is hard | what makes it correct |
|---|---|---|---|---|
| account ledger (`accounts-ledger`, `-metadata`) | SQLite rows: gate, registry, participants, work, families | freeze, adopt, cancelDrain, phase, publish, open; register, begin, reserveFamily, rebase, retire | many processes, one database; values read before a transaction | one owner at a time; nobody admitted while the gate is closed; leases of one generation |
| switch journal (`accounts-journal`, `-credentials`, `-inventory`, `-files`) | the journal file, the `auth.json` files and the overlay's link | seal, begin, apply, publish, finish, recover | a crash between any two durable steps, a crash of the recovery | no credential lost or duplicated; recovery always possible; all or nothing |
| rotation (`accounts-rotation`) | the locals of the process that runs it | rotateAccount, recoverManagedAccounts | aborts, faults, its own catch, competition | an interrupted switch ends |
| participants (`accounts-participant`, `-control`, `-overlay`) | a registration, a control socket, a native process | start, stop, restart, reconcile, close | requests that time out but still take effect; a start under a switch | no native process reads an account it was not admitted for; service resumes |
| account policy (`accounts-policy`, `limits-*`) | readings, the durable rotation request | observe, run | readings that are stale after the drain | one rotation per request, never on a stale decision |
| work leases (`accounts-work`) | a lease per thread; sets of what starts, runs, spawns and has ended | admit, observe, release | turns, spawn items and subagents' turns that end in any order | a lease for as long as work runs, and no longer |
| replay and retry (`accounts-replay`, `-thread-retry`, `-continuity`) | rows of pending continuations, one attempt per thread | retry, claim, continue | held failures, a peer that leaves, a user who moves on | one end per request, one effect, no continuation of an old turn |
| native process families (`accounts-family`, `-supervisor`) | supervised process groups | launch, grant, stop | a launcher that dies half way | no row without a process, no process without a row |
| token broker (`broker-*`, `claude-gpt`) | one cached lease, one flight, one source, a queue of official children | get, reject, refresh, stop, restart, close | a source that changes under a flight; single-use refresh tokens | a bearer of the current account and revision only; nobody waits for ever |
| Codex child (`codex-upstream`, `codex-mux`) | the child, pending requests, restart count | request, forward, restart, stop | exits at work or during initialize | each request is settled; no reply crosses a restart |
| adapter server (`server`, `store`) | rows of threads, turns and items; the active turn per thread; the closures of running turns | start, interrupt, answer, end, stop, recover | events, timers and requests between any two awaits; crashes between two rows | a turn ends once, is announced once, its children before it; a restart settles everything |
| claims (`claim-server`) | claims per thread, barriers | claim, busy, release | awaits while the connection closes | one holder per thread |
| locks and workflows (`file-lock`, `workflow-*`) | lock markers, a state file | lock, take over, claim, complete | stale owners that come back | one holder; every task ends |
| flip control (`control-flip*`) | the lock and the marker of an installation | flip, resume, hand off | crashes between steps | one control operation at a time |
| runtimes, rest of the router, bridge, desktop, posture, smoke | sessions of other programs | translate, relay | wide rather than deep | out of scope, see section 7 |

How they interact: every adapter and broker is a *participant*.  It opens the
ledger's database, registers, and takes a lease for each turn and for each
native process it starts.  A *switcher* (the `accounts use` or `accounts recover`
command, or the policy inside an adapter) closes the gate, waits for the turns,
asks each participant over its socket to stop its native processes, moves the
files, publishes the new account, opens the gate and asks the participants to
start again.  Ledger, journal and files are the only state the processes share.

Inside an adapter, `handle` asks `AccountWork` to admit a request before the
multiplexer sends it to the Codex child or the server runs it itself; every
notification on its way to the app passes `AccountWork.observe`, so the leases
follow the turns.  After a switch the multiplexer retries the first turn of each
thread once if its encrypted history is refused, and continues turns that a usage
limit stopped.  The router is a participant too: each request it serves is
admitted, gets a bearer from the broker, and is released when its stream ends.

## 2. Modules

| module | models | lines of code it stands for |
|---|---|---|
| `CredentialFiles` | the files, the operations on them, the plan of a switch, the two verifications | `accounts-credentials`, `-inventory`, `-files` |
| `AccountLedger` | the ledger's tables and one operator per transaction (guard and effect) | `accounts-ledger`, `-metadata` |
| `AccountSwitch` | the processes: switchers, participants, registry edits; specification and properties | `accounts-rotation`, `-journal`, `-control`, `-participant`, `-overlay` |
| `AtomicSwitch` | what the switch promises to the rest of the program; no file, no phase, no process | (abstract) |
| `MCAccountSwitch` | symmetry sets for TLC | |
| `CredentialFilesProofs`, `AccountSwitchProofs` | lemmas about the files, the type invariant, the theorems about gate, owner and leases | |
| `AccountSwitchFiles` | the inductive invariant that ties phases, journal and files; the theorems about files and recovery; the refinement | |
| `AccountWork` | an adapter's leases, the retry, the replay, the child and the switch as the adapter sees it | `accounts-work`, `-replay`, `-thread-retry`, parts of `-continuity`, `codex-upstream`, `codex-mux` |
| `TokenBroker`, `MCTokenBroker` | the router's token cache, its source, its official children and its requests | `broker-cache`, `-owner`, `-file`, `-runtime`, parts of `claude-gpt` |
| `TokenBrokerProofs`, `TokenBrokerRefreshes` | theorems about `TokenBroker`; the second that a bearer is refreshed once | |
| `NativeChild` | the launch of the Codex child under its supervisor, its handshake, exits, restarts, and the stop and restart by a switch | `accounts-family`, `-supervisor`, `codex-upstream`, parts of `-processes`, `-participant`, `codex-mux` |
| `AdapterTurns`, `MCAdapterTurns` | turns of the adapter server, from the request to the recovery after a crash | parts of `server`, `store`, `adapter` |
| `AccountWorkProofs` | the inductive invariant of `AccountWork` and all its invariants as theorems | |
| `NativeChildProofs` | the inductive invariant of `NativeChild` and all its invariants as theorems | |
| `AdapterTurnsProofs` | the inductive invariant of `AdapterTurns` and its safety theorems | |

`AccountSwitch` EXTENDS `AccountLedger`, which EXTENDS `CredentialFiles`; a
transaction of the ledger is an operator such as `Freeze(token, to, auto)`, and
the process that calls it is an action such as `FreezeStep(s)`.

`AccountWork`, `NativeChild` and `TokenBroker` are the sides of a switch that `AccountSwitch`
abstracts to one lease and one family per participant.  Each has the switch in a few steps (freeze,
stop, reopen), as a participant sees it: no step of `AccountSwitch` looks inside a
participant beyond its leases and whether it has stopped.  `AdapterTurns` is about one
process and its database, without accounts.

### The account switch: state

* `gate`, `registry`, `members`, `work`, `families` are the rows of the ledger.
  `members` is table `participant` as a function to the registered generation.
* `journal` is the journal file, `files` what each credential path holds.
  A path holds nothing, the overlay's link to Home, or a credential; the code
  tells credentials by device and inode, the model by the account they log in.
* `pc`, `memo`, `token`, `plan` are a switcher's place in the code and its locals
  (`plan` is its in-memory journal `j`); `dead` are the processes that ended.
* `proc` is what a participant is doing, `view` the registry it read at start.

An owner token's transaction, a random UUID in the code, is the name of the
switcher that froze the gate.  The journal field `back` is the code's
`reverseNext + 1`: 0 when nothing is left to undo, and 0 too while no rollback
has begun (the code's null, which `phase` tells apart).

### The account switch: steps

A step of a switcher is the code between two durable effects, so that `Crash`
falls between any two of them.  Reads and checks that come before an effect
belong to its step.  `Refused` is the code's own check failing at that place,
`Fault` a step that fails for reasons of its own (I/O, SQLite, a control call
that times out), and both go where the exception goes: `rotateAccount` has a
catch, the catch and `recoverManagedAccounts` have none.  A fault *after* the
effect is a fault of the next step.  `RestartFails` is the one place where half
of a handler remains: the participant has rebased, then its start fails.

| action | code |
|---|---|
| `Start` .. `Reconcile` | `rotateAccount`, up to the seal |
| `Seal`, `BeginJournal`, `MarkJournal`, `ApplyNext`, `RecordNext`, `PublishTransition`, `RecordCommit` | `sealTransition`, `beginJournal`, `applyJournal`, `publishTransition` |
| `RemoveJournal`, `OpenGate`, `Restart`, `RestartFails`, `SkipRestart`, `Restarted` | `finishTransition`, `restart` |
| `CatchCancels`, `CatchRecovers` | the catch |
| `StartRecovery`, `AdoptOwner`, `AdoptRefused`, `RetireForRecovery` | `recoverManagedAccounts` |
| `RecoverForward`, `RecoverBackward`, `MarkRollback`, `UndoNext`, `RecordUndo`, `RolledBack` | `recoverAccounts` |
| `StartParticipant`, `PrepareOverlay`, `JoinLedger` | the constructor of `AccountParticipant`, three steps because it is not one transaction |
| `BeginWork`, `EndWork`, `SpawnFamily`, `StopFamily`, `FinishStop`, `Close`, `Die` | the rest of a participant's life |
| `Configure` (`SetRotation`, `ObserveLogin`) | `accounts rotate on\|off`, and a reading that finds a login good or bad |

### The account switch: abstractions, and why they lose nothing here

* **A retire pass is one step.**  `retireExitedParticipants` removes the rows of
  exited participants one by one, each in a transaction that can be repeated.
  Half a pass leaves rows that the next pass removes, and nothing but a pass
  reads the rows of an exited participant.
* **One lease and one family per participant** stand for any number: every
  guard asks whether there is one.
* **The rewriting of the journal before an operation** (`accounts-journal.mts:134`,
  `:253`) writes what the file holds already, apart from the owner, whose
  transaction is the only part that is read back.
* **`undo` returns early** when its operation never happened; its inverse is
  idempotent, so the early return is a case of `Applied(files, Inverse(op))`.
* **Process identity** is exact (`dead`).  In the code a reused process number
  makes the answer `unknown`, which is treated as alive; the model has it as
  an owner that does not die yet.
* **The overlay is prepared before each spawn too** (`accounts-participant.mts:58`),
  again from a registry read outside any transaction.  It writes under the same
  condition as at the start (no journal, link missing, Home active), and the model
  lets any time pass between `StartParticipant` and `PrepareOverlay`, so a starting
  participant stands for both.
* **The control lock** that serializes CLI commands (`lockAccountControl`) is
  left out: a rotation inside an adapter does not take it, so the ledger's own
  fencing has to suffice, and the model gives it more competition than the CLI
  would.
* **A recoverer** is one `accounts recover` after the other, under one name.
* Families for probes, logins and the installation, and phase `bootstrap`, are
  left out.

### The adapter's turns (`AdapterTurns`)

`row` and `threadStatus` are the rows in SQLite, `active` is `activeTurnByThread`, `run[t]`
the closure of `runRuntimeTurn` for turn t with its entries in the server's maps.  A row
survives `Crash`, a closure does not.  An action is a handler, or a part of one between
two awaits.

| action | code |
|---|---|
| `TurnStart`, `Dispatch` | `turnStart`, `reviewStart`, `threadCompactStart`: the rows, then the `setImmediate` callback |
| `StartSubagent`, `FinishSubagent`, `OpenTool`, `CloseTool` | the branches of `onEvent` |
| `AskApproval`, `AnswerApproval`, `AskQuestion`, `AnswerQuestion` | `onPermissionRequest`, `onUserInputRequest`, cut at their await |
| `RuntimeResolves`, `DiffDone`, `RuntimeRejects`, `WatchdogFires`, `Catch`, `CompactEnds` | the end of `runRuntimeTurn`, the `.catch` and the `.finally` |
| `Interrupt` | `turnInterrupt` up to its await |
| `Stop`, `Close`, `Crash`, `CrashInside`, `Boot`, `Recover*` | `stop`, the end of the process, `recoverStaleInProgressTurns` |

`CrashInside` is the end of the process between two writes of one handler: recovery's
transaction-free writes are `RecoverTurn` and `RecoverChild`, in any order.  What
an item says, streaming, plans, hooks and usage are left out, and so is
`thread/rollback`, which deletes rows without asking whether their turn runs.  One
approval and one question at a time stand for more.  The watchdog's opt-out
(`ANYENGINE_SUBAGENT_TIMEOUT_MS=0`) is not modelled: `SubagentsEnd` is of the default.

### Work of an adapter (`AccountWork`)

`work` holds the sets of `accounts-work.mts` (`active`, `starting`, `completed`, `finished`,
`spawnItems`, `realtime`), the leases they keep and their rows in the ledger; `job[t]` is
thread t's request, what the child has said of it and the attempt of
`AccountThreadRetry`; `replay[t]` the row of its last failed turn.  The child's
messages come in order and are handled when they come, so an event and its whole
handling, by the retry, the leases and the replay, are one action.  `Yielded` says that
the replay's flush runs without interruption except where it awaits a dispatch.

* An error notification and the failed `turn/completed` after it are one step (`TurnRetried`).
* `Effect` is told apart only for turns that may be retried: of the others nothing asks.
* `Disconnect` is the app's connection going; another may ask for more at once.
  Whatever was asked for by a peer that has gone is `gone`.
* Reviews and compactions take and give back their lease as a turn does, `command/exec`
  as a request that ends at once: they are left out.
* `ended` and `effects` are history variables; they count, per request, what the app
  was told and what the child did.
* Admission and service come back one after the other, and the second may not come.
  `Reopen` is `open` (or the end of a drain, `CancelDrain`) and touches the gate only.
  `Restart` is the restart control that follows: it needs the participant to hold no
  lease, takes the ledger's generation (`mine`), and asks for a child (`upstream` is
  "restarting") unless preparing the overlay fails.  `RestartSucceeds` is `afterAccountRestart`, the only place
  that asks for a flush; `RestartFails` is `restartForAccounts` throwing, and an exit of the child
  meanwhile has the same effect (`ChildExit`).  None of the three is under fairness.  `owed` is a history variable:
  the generation of the last restart whose flush counts.
* It follows that when the restart fails, or never comes (the run `resume`
  shows how), a replay row of an earlier account stays pending with admission open and nobody
  about to send it, until a later restart succeeds.  No document promises otherwise.  A reopening at the same generation
  lets requests in before the restart control; while they hold leases the control is refused.
* `flush` returns at once when replay has been switched off.  The setting is read anew by each
  flush, so the second disjunct of `FlushReplay` may happen at any; its rows wait too (`owed` becomes 0).
* A restart before any app has initialized the child does not await it; such an adapter has had no
  turn and has no row, so the model always awaits the child.
* A child that exits while a turn runs leaves that turn's thread in `active` for ever:
  `failPending` answers what is pending, and nothing tells `AccountWork`.  The variable
  `lost` marks it, and `RestGivesBack` and `DrainEnds` are about adapters where it has not
  happened.  After it the thread is refused with "A managed turn is already running" and no
  switch drains until the adapter restarts; see the hazard at `codex-upstream.mts:212`.

### The native child (`NativeChild`)

`up` is the `CodexUpstream` (`child`, `starting`, its flags, the restart timer and count),
`launch[l]` where the promise of the l-th `spawn` of `accounts-family.mts` stands, `row[l]` its
row in the ledger, `group[l]` the supervisor and what runs in its process group, `inits` the
calls of `initialize` between their awaits, `hook` where the stop hook is.  The adapter's
code from one await to the next is one action; the supervisor is a process of its own,
so its steps (`SupervisorRuns`, `SupervisorGivesUp`, `CodexExits`, `SupervisorStops`,
`SupervisorEnds`) come at any time, and so does the adapter's end, `Die`.

| action | code |
|---|---|
| `Ready`, `Grant`, `Launched`, `LaunchFails`, `Undone` | `spawn` of the family, cut at its awaits, and its catch |
| `ExitSeen`, `TimerFires`, `ChildStopped` | the `exit` listener with `scheduleRestart`, the timer, the end of `stop(child)` |
| `AppStarts`, `AppInitializes`, `AppInitialized` | `handleInitialize` of the multiplexer in its two halves, the app's notification |
| `CallResumes`, `CallAnswered`, `CallFails`, `CallReturns` | `initialize`, cut at its awaits |
| `HookStops`, `HookStopsChild`, `HookStopsFamily`, `FamilyStops`, `FamilyStopped`, `HookRestarts` | the participant's hooks: `upstream.stop()`, `stopAll`, `restartForAccounts` |
| `Freeze`, `Cancel`, `Seal`, `Reopen`, `RetireRow` | what the switch does to the ledger, and `retireExitedParticipants` |

* `native` stands for all processes of a group but its supervisor.  One of them may
  outlive Codex itself (`CodexExits` with `left`), which is why a row is released only
  after `stopFamily` has seen the whole group gone.
* A `start()` that finds the gate closed fails in the microtasks that follow; the model
  has its end, `unavailable`, in the same step.
* `stopFamily` always ends the group in the model; its errors (an unknown process state, a
  group that outlives `SIGKILL`) are left out.  So are other holders of the account
  (probes, logins), `retire`, the streams that `stop` waits for after the exits, requests
  other than `initialize`, an `error` event after the attachment, and a second stop hook
  while the first is under way.
* After the last row is gone the stop hook has nothing left to wait for but microtasks:
  `HookRestarts` therefore asks for `hook = "done"`.

### The token broker (`TokenBroker`)

`mem` holds the variables of `broker-cache.mts` (`value`, `inflight`, `cache` for
`cacheRevision`), of `broker-owner.mts` (`selected`, `revision`, `paused`) and the sources of
`broker-file.mts`; `mem.flight` the promises and what is left of `acquire` for each.
`req[r]` is a request of the router and the `get` it awaits.

* A function of the code from its variables before to those after is an operator on `mem`
  (`Drop`, `Publish`, `Current`, `Source`, `Prepare`, `Fly`), composed as the code calls them.
* What waits for a settled promise only runs before anything else: the guard `Idle`.
* The managed home is one directory; an account is the generation it is active in.
  A bearer is the pair of an account and the version of its login.
* The five minutes of `CACHE_LIFETIME` may have passed at any time (`old`).
* `spent` is a history variable: official refreshes asked for while a bearer was the one
  served, in one cool-down window.
* A keyring login, the launches for quota records, `observe` and `status` are left out.

## 3. Properties

| property | says | hazard |
|---|---|---|
| `TypeOK` | rows, journal and locals stay in their types; the journal's indices never leave its operations | off-by-one of `reverseNext` |
| `SingleOwner` | a live process between freeze (or adoption) and open is the gate's owner | a liveness check outside its transaction, two rotations |
| `RecoveryPasses` | in every reachable state, recovery's own checks of files, journal and registry would pass | a crash anywhere, a crash of the recovery |
| `NothingLostOrCopied` | no step loses a credential or leaves it under two names | a crash between rename and record |
| `SwitchIsAtomic` | account and generation change together, to the intent, without leases | publication under competition |
| `LeasesAreCurrent` | each lease is of the current generation | a participant with a stale generation |
| `FamilyReadsItsAccount` | a native process's overlay presents the account it was admitted for | a spawn that races the freeze |
| `OpenIsSettled` | an open gate agrees with registry and files and leaves no journal | a half-finished switch that reopens |
| `MovesAreQuiet` | credential files change only while the gate is past draining and nobody holds a lease | the same |
| `ImplementsAtomicSwitch` | every behaviour maps to one of `AtomicSwitch` | all of the above |
| `Settles` | if leases end, a closed gate opens again | recovery that can get stuck |
| `ServiceResumes` | with the gate open and no switcher at work, nobody is left stopped | time-outs, partial restart |

Of the adapter's turns:

| property | says | hazard |
|---|---|---|
| `SettledTurnStays` | nothing rewrites the status of a settled turn of `turn/start` | the runtime's late answer, the watchdog, the awaited diff |
| `ChildrenSettleFirst` | no sub-agent's turn is in progress under a settled parent | a late `Task` event after an interrupt |
| `InProgressHasRunner` | a turn in progress has code that will settle it | an error path that forgets the row |
| `ActiveEntryIsLive` | a thread's active entry is a turn in progress on it | overlapping turns, the idle exit |
| `TurnAnnouncedOnce` | `turn/completed` is sent exactly once | interrupt, watchdog and runtime racing |
| `RestartSettles` | recovery leaves nothing at work | a crash between two rows of a handler |
| `SubagentsEnd` | a sub-agent without a result is ended all the same | the watchdog not armed |
| `InterruptedStays` | as `SettledTurnStays`, of interrupted turns of every kind | the other catches |

Of an adapter's work:

| property | says | hazard |
|---|---|---|
| `WorkHoldsItsLease` | a request holds one lease of its generation from admission to end, and some lease is held while a subagent runs | a switch under work |
| `NoLeakedLease` | each lease in the ledger is one `AccountWork` still holds | a retained lease replaced |
| `RestGivesBack` | when nothing runs no lease is left | ends in any order |
| `OneEnd` | a request is answered for exactly once | a held failure told twice or never |
| `CarriedOutOnce` | a retry repeats no effect | effects noticed late |
| `ContinuesTheLastTurn` | a continuation never follows a turn the user asked for since | the claim against the user's next turn |
| `NoneIsForgotten` | a restart that succeeds leaves, once its flush is through, no row of an earlier account pending | rows written while a switch ends, restarts that fail |
| `DrainEnds` | a frozen account is drained, or the drain cancelled | any lease kept for ever |

Of the native child:

| property | says | hazard |
|---|---|---|
| `NativeIsHeld` | a native process has its row, and none runs under a sealed account | an adapter that dies between attachment and grant, a launch under a freeze |
| `StopLeavesNothing` | after the stop hook no launch, child, process, row or timer is left until the restart | a launch or an exit under way when it is called |
| `HandshakeFirst` | a child is told `initialized` once, after its own answer to `initialize`, and is ready from then to its end | the answer of a child since replaced, several calls of `initialize` |
| `NothingHangs` | launches, restarts and stops come to an end | a message that never comes; a stop that waits for a launch |
| `RestartedIfItExits` | with admission open, an exited child is given up only when its restarts are spent | a restart under a freeze |

Of the token broker:

| property | says | hazard |
|---|---|---|
| `LeaseIsOfItsAccount` | a bearer is kept and handed out under its own account only | a flight overtaken by a switch |
| `ValueIsOfThisRevision` | the cached value is of the current revisions | a flight that ends late |
| `GetReturnsCurrent` | what `get` returns is current when it returns | a value dropped while it was awaited |
| `RefusedIsReadAgain` | a refused bearer comes back only after a forced read of the same source | joining a plain flight |
| `RefreshedOnce` | one official refresh per bearer and window | many requests refused at once |
| `AwaitedIsUnderWay` | a get awaits only what somebody will settle, and never two flights for one key | a dropped flight, a refresh not queued, the end of an old flight emptying the slot |
| `ServesAfterSwitch` | after a switch, or its undoing, the sources are not paused | a switch given up |

`AtomicSwitch` knows an active account, a generation, whether new users are
admitted, the account the overlay presents, and the users with the generation
they came at.  An account changes in one step, when nobody uses it.  The
refinement mapping takes the registry's account and generation, the gate's
phase, the overlay's content and the union of turns and native processes; the
files, the journal and the whole recovery are stuttering or `Exchange` steps.

## 4. Runs

The first five runs use `MCAccountSwitch`.  r = rotations, v = recoverers, p =
participants, F = crashes and faults.

| run | instance | checks | states |
|---|---|---|---|
| `crash` | Home and two managed accounts, 1 hosted r, 2 v, no p, F = 2, one registry edit, all logged in | `TypeOK`, `SingleOwner`, `RecoveryPasses`, `NothingLostOrCopied`, `SwitchIsAtomic` | 0.5 M |
| `drain` | one managed account, 1 r, 1 v, 2 p (one that starts), F = 1, all logged in | the lease properties, `OpenIsSettled`, `MovesAreQuiet`, `ImplementsAtomicSwitch` | 0.8 M |
| `settles` | 1 r, 2 v, 1 p, F = 1, Home active at first, fair | `Settles` | 0.2 M |
| `start_race` | 1 r, 1 v, 1 p that starts, F = 1 | `RecoveryPasses`: violated | |
| `resume` | 1 r, 1 v, 1 p, F = 1 | `ServiceResumes`: violated | |
| `turns` | a turn or a compaction, then a turn, a review or a list, on one thread; one sub-agent; crashes without bound; fair | the eight properties of turns | 0.7 M |
| `overwrite` | one review | `InterruptedStays`: violated | |
| `broker` | two requests, one switch begun, one login near its expiry, one replaced | the seven properties of the broker | 0.8 M |
| `paused` | the same | `ServesAfterSwitch`: violated | |
| `work` | two threads, one subagent, two requests of the app, one switch; child exits and disconnects without bound; fair | the nine properties of work | 0.7 M |
| `native` | four launches, one restart, two exits, one switch; the adapter dies at any step; fair | the five properties of the child | 0.1 M |
| `stranded` | the same with three restarts | `RestartedIfItExits`: violated | |

`Init` begins with Home or any logged-in account active, and with any set of
accounts logged in.  `MCAccountSwitch` narrows it for the larger runs: in `crash`
and `drain` every account is logged in at first (`LoggedInSpec`; in `crash` a login
may go bad and good again), and `settles` begins on Home (`FromHomeSpec`).

Why these bounds are enough to see the interesting cases: a switch has two
operations, so two managed accounts, with Home as a third, give all three kinds of
plan in `crash` (unlink and move, move and move, move and link), and one managed
account gives the first and the last; a second failure is the
first one inside a recovery, and a third would repeat it, since a recovery
leaves only what `journal` holds; two recoverers are needed for a stale
`expected` owner, two participants for a
stop or restart that ends half way through its list.  Bounds: `MaxFailures` counts
`Crash`, `Fault` and `RestartFails`; `MaxRevision` counts registry edits;
`MaxClaim` bounds recoveries that are refused because turns still run, and
`MaxRetries` those after that.  Neither of the last two changes the number of states of
`drain` or `crash` when it is lowered to 2 and 3: they are never reached, and in
`settles` five retries outlast one failure, so nothing holds by these bounds.  Two rotations
that contend for a freeze are in no run: that at most one of them is ever inside, and that
the account changes at once or not at all, is proved for any number of them (section 5).
Deadlock is not checked: when its rotations are done, its turns and requests used up, the
system may stop.

`turns`: two turns are what can share a thread's active entry, one of them ending late or
interrupted while the other runs; one thread is enough for that, since threads share
nothing else.  A turn is started once, and recovery happens after each of any
number of crashes.  `broker`: a second request is needed to join a flight or to be
refused the same bearer, one switch to overtake a flight; each request makes at most two
gets of at most two attempts, so flights are few by the code itself.  `MaxAged` and `Logins`
bound expiries and replacements.  `work`: two threads are needed for one to hold back the
lease of the other; continuations are not counted by `MaxStarts`; one switch makes a first
turn after it, and a second request is then the retried, the continued or the
competing one.  `native`: a first child, its restart, the launch after a switch and one more
for the app's next `initialize` are four launches; a child can exit before and after the
switch; with one restart allowed its exhaustion is reached too.

### Fairness

`FairSpec` gives weak fairness to a switcher's own steps (a process that runs
takes its next step), to the stop hook (its processes are killed if they do not end), and to `StartRecovery`: somebody runs
`accounts recover` while admission stays closed, as `docs/guide/control.md` tells the
user to.  Nothing is assumed of crashes, faults, aborts, new work, or the end of a turn.
The last is not bounded by the code: a turn may wait for an approval, which has no timeout,
"manual switching waits for managed work to finish" (`docs/guide/control.md:73`), and the
leases of a child that died at work are kept as long as their adapter lives (`AccountWork`'s
`lost`).  Meanwhile each `accounts recover` is refused with "Managed work still active; recovery remains
frozen" (`accounts-rotation.mts:139`), and admission stays closed.  So `Settles` has
this as its hypothesis, `LeasesEnd`: no live participant holds a turn's lease for ever while
admission is closed.  Without it TLC refutes the conclusion in five steps: a turn begins, a
switch freezes the gate, its process dies, the turn goes on.  The leases of dead participants are
not in the hypothesis: that recovery takes them away is part of what `Settles` says.

`AdapterTurns`: weak fairness of `WatchdogFires(t)` alone, since Node runs a timer that is
due as long as the process lives.  Nothing is asked of the runtime, of the client, or
of whoever starts the adapter: `SubagentsEnd` holds by the timer, or the process is down.

`AccountWork`: weak fairness of `Progress` as a whole, the steps that go on by
themselves: the adapter's awaits settle (each has a timeout or a child that exits), the
child answers, its turns, spawns and subagents come to an end, and the ledger polls its
drain every 50 ms.  No fairness for the end of a realtime session, which the user ends, nor for
the child's restart, requests or a cancelled drain.

`NativeChild`: weak fairness of the steps of a launch (each is a message, an exit or a
ten-second timer), of the end of a group that is signalled, of the report of an exit, of the restart timer and of
the stop hook's own steps.  None of the child's exits, of the app, of the switch, or of
the supervisor, which may never answer.

### What the violated runs show

* **`start_race`**, a defect.  A participant's constructor (and each CLI command)
  looks at the gate, reads the registry, and only then recreates a missing home
  link, without a transaction.  A switch away from Home that begins in between
  removes that link, and finds it back: its next move is refused, and since the
  link also contradicts the journal (one operation recorded, none visible),
  `verifySealedInventory` refuses every recovery.  Admission stays closed until
  somebody deletes the link by hand, while `docs/guide/control.md:92-93` offers
  `accounts recover` for an interrupted transition.
* **`resume`**, against `docs/guide/gui.md:38-39`.  A stop request that times out
  cancels the drain, and the restart it sends is refused because the stop hook
  still runs; when the hook completes, the participant is stopped and nobody
  calls it again.  So does a crash between open and restart.
* **`overwrite`**, a defect.  The catch of `turn/start` reads the row again before it
  fails the turn; those of `review/start`, of a compaction and of `/workflows` do
  not, so that the rejection an interrupt causes makes an interrupted review failed,
  and its end is sent twice.  `SettledTurnStays` and `TurnAnnouncedOnce` are therefore
  stated of turns of `turn/start`.
* **`paused`**, a defect.  The router's stop hook pauses the sources for the active
  account; only another account lifts the pause.  When the switch is given up after
  the stop (a later participant fails, a fault, a recovery backwards), the restart at the
  same generation leaves them paused and every request fails with no source.

* **`stranded`**, against `docs/guide/backends.md:221`.  A child exits while turns of
  another participant hold a drain back; its restart is refused by the frozen ledger, which
  makes the upstream unavailable with restarts left; the drain is given
  up before it has stopped anybody, so that nobody is asked to restart.  The child stays
  down with admission open until another switch restarts its participant.

For this reason `settles` has no starting participant, and `RecoveryPasses` is checked
without one: those runs state what holds, `start_race` and `resume` what does not.
`settles` has no hosted rotation either: a rotation hosted by an adapter (`Resident`) whose
own recovery fails leaves a live owner, which `adopt` may not replace
(`accounts-ledger.mts:134-135`) while the adapter lives, and with `Resident = {r1}` and two
failures TLC finds `Settles` violated, against `docs/guide/control.md:92-93`.  `OpenIsSettled`,
`LeasesAreCurrent` and the refinement hold with a starting participant (`drain`).

## 5. Proofs

All theorems are of `Spec` for every value of the constants under the named
assumptions in `CredentialFiles`, `AccountLedger` and `AccountSwitch`: paths and
contents are told apart, null is no token, no journal and no sealed inventory, participants are numbered, the
bounds are natural numbers.

* `TypeCorrect`: `Spec => []TypeOK`.  `TypeOK` is not inductive.  `TypeInv` adds that a
  closed gate has an owner and an intent (else `Publish` may write None as an
  account), that a switcher at a place where the code uses `j` has one (`PlanPcs`),
  and that a switcher about to adopt has read an owner.  Steps are grouped by what
  they leave alone (`QuietSwitcher`, `Unjournaled`, `Plain`), so that each group is
  one lemma.
* `OwnerIsSingle`: `Spec => []SingleOwner`.  The inductive invariant is `Fence`:
  `SingleOwner`, and `OwnToken`, that a token names the process that made it.
  Two switchers cannot both own the gate, so opening it or adopting it leaves
  no other live process inside; a switcher that adopts has seen the process of
  the expected owner dead, and the transaction checks that it is still expected.
* `LeasesStayCurrent`: `Spec => []LeasesAreCurrent`.  Every step of a switcher is
  `Leasing`: leases only go, and the generation moves only when there is none.
  A participant admits at the gate's generation.
* `SwitchingIsAtomic`: `Spec => SwitchIsAtomic`.  Only `PublishTransition` and `Configure`
  write the registry's row (`RegistryWriters`); the second keeps account and generation.

The files are the harder half (`AccountSwitchFiles`).  `RecoveryPasses` and its neighbours look at
files, journal, gate and registry at once, in states where each has been written without the
others, so none is inductive.  `Inv` is `TypeInv`, `Fence` and `SwitchInv`, whose parts are:

* `Kept`: each credential is in its place or in the overlay, never in both, and every ready
  account has one.  So what the overlay holds determines all files (`SameFiles`): an inventory
  with the same accounts and the same overlay is the same inventory.
* `Placing`: outside the phases `journal` and `rolling-back` the overlay presents the registry's
  account; inside them it is what it must be after as many moves as the journal records, or one
  more, or while rolling back one less (`AtStage`, `UnderWay`): a move is made before it is
  recorded.
* `Sealing`, `Journaled`: the inventory that was sealed is one of these files' accounts, and
  the journal is of the transition the gate is in, with a phase that fits the gate's (`InPhase`).
* `Holding`: where a live switcher is, its journal in memory is the one in the file.  Only the
  owner is at such a place (`Fence`), so a step of the owner invalidates nobody else's.
* `Emptied`: past the drain nobody works, and a native process is of the registry's account.

From `Inv`, for any number of accounts, switchers, participants, crashes and faults:

* `OpenGateIsSettled`, `FamiliesReadTheirAccount`: by `Placing` at the phase `open`, and because a
  native process keeps the phase before the seal.
* `FilesMoveQuietly`: a switcher moves a file only at `apply` or `undo`, where `Emptied` has no
  user; a starting participant makes only a link that is missing, and by `Placing` one is
  missing only in those phases.
* `NoCredentialIsLost`: each move takes one credential from one path to another (`StagesOfMovePlan`).
* `RecoveryAlwaysPasses`: the stage at which the overlay is, is one that
  `verifySealedInventory` accepts for that journal, whichever side of the record the crash fell.
  It has the hypothesis `Starters = {}`, no participant that starts during the run, and cannot do
  without: `start_race` shows that a starting one spoils the recovery.  What is left with any starters is
  `OnlyAStartSpoilsRecovery`: the checks pass or the state is `Spoilt`, the home link back in the
  overlay in the middle of a move; no other state of any run stops a recovery.
* `OnlyFaultsStopASwitch` says the same of the code's checks themselves, where they are made
  (`NothingRefused`, with the model's `Refuses`): past the seal the live owner of a
  transition passes each of them, and so does a recovery that owns it and finds no user, unless the state is
  `Spoilt`.  So a sealed switch stops only at a crash or a fault, and each recovery goes on from there:
  the safety half of `Settles`.  It needs a second invariant beside `Inv`, `Unhindered`: the journal in the
  file is of the transaction of whoever owns the gate, through every adoption (`Claimed`); a plan
  has the registry's revision until it is published, because nobody edits the registry past the
  seal; and a verified transition has no user and no journal left (`Ready`).
* `SwitchImplementsAtomicSwitch`: the refinement.  Initial states map to initial states, and each
  group of steps to an abstract action or a stutter: the gate's freeze and open to `Freeze` and
  `Thaw`, which needs `Placing`; moves and starts to `Exchange`, which needs `Emptied`; the
  publication to `Commit`, which needs both; leases and families to `Admit` and `Depart`.

Of `AdapterTurns`, for any number of turns, threads and sub-agents: `TypeCorrect`,
`ChildrenAlwaysSettleFirst`, `InProgressAlwaysHasRunner`, `ActiveEntriesAreLive`, `AnnouncedOnce`,
`SettledStays` and `RestartsSettled`, all from one inductive invariant `IndInv`.  None of the
properties is inductive alone: that a settled turn stays settled needs that a turn
which still listens is registered, that a turn which waits for its diff has no child left,
and that a turn of an earlier process has no code.  `TurnOK` says this of one turn's row
and closure (`row[t]`, `run[t]`), `ThreadsOK` of the active entries; a step changes one
turn's pair, so each action's proof is about `TurnOK` of that turn, and the frame is a lemma.

Of `AccountWork`, for any number of threads, subagents, requests and switches: all eight
invariants of its run (`TypeCorrect`, `WorkKeepsItsLease`, `LeasesAreHeld`, `RestGivesAllBack`,
`AnsweredOnce`, `EffectsHappenOnce`, `ContinuesNothingOlder`, `NoRowForgotten`), from one inductive
invariant `IndInv`.  Its first part is about the sets of `AccountWork` alone: `Sound`, a row in
the ledger for each lease, and `Steady`, that what is at work has a lease to rest on and that
nothing is retained once nothing is at work.  Only `Flush` could break `Steady`, and the handlers
end in it, so it is proved of `Flush` once.  The other parts are about one thread's request
(`JobOK`), its lease and replay row, and one subagent; a step that leaves a thread or a subagent
alone keeps its part (the frame lemmas `KeepsThread` and `KeepsAgent`).  Leases carry the
participant's generation, `mine`, and the properties compare them with the ledger's: that the two agree
whenever a lease is held is `InPlace`, kept because `Restart` needs the adapter to hold none and `LetIn` lets
nobody in at another.  `NoRowForgotten` rests on a row's part, that a pending row of a generation before `owed` is due or to be sent, which only a
restart that succeeds can make false of more rows, and it asks for the flush.  A child that exits at
work (`lost`) leaves its leases behind, so what is given back is stated only while none has.
The assumption is that threads and subagents are told apart and that `None` is no generation
and no kind of failure.

Of `NativeChild`, for any number of launches, restarts, exits and switches: `TypeCorrect`,
`NativeIsAlwaysHeld`, `StopsLeaveNothing` and `HandshakesComeFirst`, from one inductive invariant
`IndInv`.  That a native process has its row is kept only because a grant is (`Held`: the run
message is sent after the attachment), and that a stop leaves nothing because the place of
each launch says what its row and group are (`Tracked`); the latter holds as long as the
adapter lives, the former after its death too.  That `initialized` is sent once needs the flag
`sent` to be of the child there is (`Handshakes`).  The assumption is that launches are
natural numbers, so that one is the first without a launch.

Of `TokenBroker`, for any requests, logins and number of switches: `TypeCorrect`,
`LeasesAreOfTheirAccount`, `ValueIsCurrent`, `AwaitedAlwaysUnderWay` and the action property
`ReturnsAreCurrent`, from one inductive invariant `IndInv`.  A flight carries the key of the
moment it began.  While that key is of this revision of the cache, the flight's bearer is of the
ledger's account (`WorksOK`): the login on disk is another account's only between the move and
its publication; the router was stopped before, which drops the cache, so that no earlier flight
is of this revision, and pauses the source, so that no new flight asks it.  What a flight stores
is therefore of its own account, because `acquire` stores only under the flight's key
(`BrokerOK`), and a request that gets on takes only what the broker holds then.  That keys are
never shared (`Apart`) needs that a flight which may no longer be joined never has the present
key again (`WaitsOK`): revisions and generations only grow, and `flight` joins exactly when the
key is the present one.  The queue is the set of the sources asked to refresh, each once
(`Queued`).  The broker's functions are pure (`Get`, `Attempt`, `Settle`), so most lemmas are
about what they do to one flight (`Onward`, `Continued`, `FitsIn`), and the actions follow from
them.  The assumption is that every account has its first login and that `None` is no number, no
request, no flight, no lease, no login and no outcome of a refresh.

`RefusedAlwaysReadAgain` (`RefusedIsReadAgain`) takes a second invariant, `Recall`, inductive beside
`IndInv`.  A request recognises its refused bearer only under the same source, revision and
generation, while the property speaks of the source alone: so every lease there is, cached,
in a flight or with a request, must be of its source's generation, and of the present revision if
its source is the selected one (`Known`).  This holds because a source is selected once, when it
is made, and never after another (`Retained`).  When a get was forced, the flight it awaits must be
one that reads, and not one it joined: a forced attempt comes after a drop, which leaves no flight to join,
so it is the request's own (`Recalls`, `ReadsForced`); it is forgotten only when nobody awaits
it.  Every function of the broker keeps what the others remember (`Passes`; `Quiet` where the
flights are left alone, `Works` where they go on), and a request that asks gets what it may
(`Asked`).

`RefreshedAtMostOnce` (`RefreshedOnce`, in `TokenBrokerRefreshes`) has the hypothesis that at most
one switch is begun, and cannot do without: a read that finds the login torn (`readDisk`) may go
on after a switch, and with two switches begun, the first given up while it drains, two such reads
on the source of before refresh the new account's login a second time, beside its own source (TLC
gives 33 steps).  The code waits 50 ms before it reads again, so that both reads would have to
span a whole switch; the model does not bound how long a read takes.  The switch there is may be
done or given up at any point, and requests, logins and expiries are any.

Its inductive invariant, beside `IndInv` and `Recall`, is `Windows`.  Its aim is `Once`: a bearer
spent is spent once, and its account has a source that is past it (`Past`), or that nobody will
ask again (`Left`).  A source is past a bearer as long as it served a later login of its account, or
that bearer while it refreshes or cools down.  What could undo it:

* A second source of the account.  There is none: a source of the present generation is the
  selected one, or the router is paused or closed (`Own`).
* A refresh whose end nobody waits for, which would start the cooldown without having served what
  it brought.  There is none: the flight that asked waits until the end (`Waited`).
* A login of the next account, served by a flight of the account before, so that a later read of
  the old login starts again from it.  This happens: a read may find the next account's login on
  disk.  But its source is left then, because that flight was the last to read from it (`ServedOK`,
  `ForeignIsLeft`), as no other is at work for its account (`OneOf`).  The same holds of an
  official answer that comes to a source of the account before (`StaleIsLeft`).

`OneOf` is where one switch matters: until the router is told of it, drops find nothing under way
(`Alone`: a flight under way fills the slot while there is no value, so that whoever asks joins it),
and afterwards no flight of the old account begins; after a switch given up it may
(`MayMove` says when `OneOf` holds), but then no second switch moves the account.  What the broker's
functions and a request's step keep of all this is `Goes` and `Turned`, what a flight and the
end of a refresh keep `Reworks`.

Model-checked only: `Settles` (under its hypothesis), `SubagentsEnd`, `DrainEnds` and `NothingHangs`, as liveness
under fairness is out of the prover's reach.  Every invariant and every step property of the
passing runs is proved.  What a
recursive definition computes for every input is out of its reach too; these modules have none.

## 6. Order of the work, and what is left

Done, in this order: `CredentialFiles`, `AccountLedger`, `AccountSwitch` with
`AtomicSwitch` and their proofs; `AdapterTurns` and its proofs; `TokenBroker` and its proofs; `AccountWork`
and its proofs; `NativeChild` and its proofs.

Left, in the order of what it would add: the
takeover of a stale lock (`file-lock`) with the workflow scheduler, claims, and the lock of
an installation (`control-flip-lock`).

## 7. Not modelled

Most of the program's lines are message shaping and relaying (router, bridge, runtimes, the
rest of the adapter server), file formats of other programs (desktop, sessions, posture),
generated recovery scripts and installation steps, probes of a live installation
(smoke, doctor) and vendored code: their state is mostly in other programs, or what they
do is formatting, so the share of the lines that is modelled stays small while
the parts that several actors share are covered.

Left out though they have state of their own: the process table that `stopFamily` reads
(the operating system's), the policy's readings (arithmetic on limits; only its decision and its stale guard matter to
a switch), file locks and workflows, claims and the installation's lock (each small,
separate from accounts and turns, and used by few).

`PROJECT.json` lists every component with its status, and every hazard found, those
without a property included, with the reason.
