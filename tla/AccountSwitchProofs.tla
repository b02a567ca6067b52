------------------------ MODULE AccountSwitchProofs ------------------------
(***************************************************************************)
(* Theorems about AccountSwitch for any number of switchers, participants  *)
(* and accounts, and any crashes and faults: its types, the fence around   *)
(* the owner of a transition, the currency of leases, and the single step  *)
(* that switches the account.                                              *)
(***************************************************************************)
EXTENDS AccountSwitch, CredentialFilesProofs

\* TypeOK is not inductive: a step takes the target from the gate's intent and
\* the operation from the switcher's journal, which TypeOK lets be None.  The
\* inductive invariant is in three parts, by the variables they are about.
LedgerInv ==
    /\ LedgerTypeOK
    \* A gate that is not open names its transition.
    /\ gate.phase # "open" => gate.owner \in OwnerToken /\ gate.intent \in Intent
    /\ gate.phase = "open" => gate.owner = None

\* Program counters of a switcher that holds a journal object.
PlanPcs == {"begin", "mark", "apply", "record", "commit", "rolling", "undo", "unrecord"}

JournalInv ==
    /\ journal \in SwitchJournal \cup {None}
    /\ plan \in [Switchers -> SwitchJournal \cup {None}]
    /\ pc \in [Switchers -> Pcs]
    /\ \A s \in Switchers : pc[s] \in PlanPcs => plan[s] \in SwitchJournal
    \* An operation that has been done, or undone, is one of the journal's.
    /\ \A s \in Switchers : pc[s] = "record" => plan[s].next < Len(plan[s].ops)
    /\ \A s \in Switchers : pc[s] = "unrecord" => plan[s].back > 0

LocalInv ==
    /\ dead \subseteq Switchers
    /\ token \in [Switchers -> OwnerToken]
    /\ memo \in [Switchers -> Memo]
    /\ proc \in [Participants ->
                 {"off", "preparing", "prepared", "running", "stopping", "stopped"}]
    /\ view \in [Participants -> Accounts]
    /\ failures \in 0 .. MaxFailures
    \* A recovery starts from a gate that names its owner.
    /\ \A s \in Switchers : pc[s] = "adopt" => memo[s].expected \in OwnerToken

TypeInv == LedgerInv /\ JournalInv /\ LocalInv

LEMMA TypeInvImpliesTypeOK == TypeInv => TypeOK
BY DEF TypeInv, LedgerInv, JournalInv, LocalInv, TypeOK

LEMMA InitTypeInv == Init => TypeInv
<1> SUFFICES ASSUME Init PROVE TypeInv
  OBVIOUS
<1>1. LedgerInv
  <2>1. gate \in Gate /\ gate.phase = "open" /\ gate.owner = None
    BY DEF Init, Gate, Accounts, Phases
  <2>2. registry \in Registry
    BY DEF Init, Registry, Accounts
  <2>3. files \in Files
    BY DEF Init, Files, Paths, Accounts, Absent
  <2>4. /\ Registered \subseteq Participants /\ members \in [Registered -> Nat]
        /\ work \subseteq WorkLease /\ families \subseteq Family
    BY DEF Init, Registered
  <2> QED
    BY <2>1, <2>2, <2>3, <2>4 DEF LedgerInv, LedgerTypeOK
<1>2. JournalInv
  BY DEF Init, JournalInv, Pcs, PlanPcs
<1>3. LocalInv
  <2>1. token \in [Switchers -> OwnerToken]
    BY DEF Init, NoToken, OwnerToken
  <2>2. memo \in [Switchers -> Memo]
    BY DEF Init, NoMemo, Memo, Accounts
  <2>3. view \in [Participants -> Accounts]
    BY DEF Init, Accounts
  <2> QED
    BY <2>1, <2>2, <2>3, SwitchersAssumption DEF Init, LocalInv
<1> QED
  BY <1>1, <1>2, <1>3 DEF TypeInv

-----------------------------------------------------------------------------
(* Steps that leave the ledger and the files alone. *)

QuietSwitcher(s) ==
    \/ \E to \in Accounts, auto \in BOOLEAN : Start(s, to, auto)
    \/ \E p \in Participants : SendStop(s, p) \/ SkipRestart(s, p)
    \/ FreezeRefused(s) \/ Abort(s) \/ StopReplied(s) \/ AllStopped(s) \/ Reconcile(s)
    \/ GuardStale(s) \/ BeginJournal(s) \/ RecordNext(s) \/ RecordCommit(s)
    \/ RemoveJournal(s) \/ Restarted(s) \/ CatchRecovers(s)
    \/ StartRecovery(s) \/ AdoptRefused(s) \/ RecoverForward(s) \/ RecoverBackward(s)
    \/ RecordUndo(s) \/ Refused(s) \/ Fault(s) \/ Crash(s) \/ Leave(s)

QuietParticipant(p) == StartParticipant(p) \/ Die(p)

LEMMA QuietSteps ==
    ASSUME \/ \E s \in Switchers : QuietSwitcher(s)
           \/ \E p \in Participants : QuietParticipant(p)
           \/ UNCHANGED vars
    PROVE  UNCHANGED <<ledgerVars, files>>
<1>1. ASSUME NEW s \in Switchers, QuietSwitcher(s)
      PROVE  UNCHANGED <<ledgerVars, files>>
  BY <1>1 DEF QuietSwitcher, ledgerVars, Start, SendStop, SkipRestart, FreezeRefused,
       Abort, StopReplied, AllStopped, Reconcile, GuardStale, BeginJournal, RecordNext,
       RecordCommit, RemoveJournal, Restarted, CatchRecovers, StartRecovery,
       AdoptRefused, RecoverForward, RecoverBackward, RecordUndo, Refused, Fault,
       Crash, Leave
<1>2. ASSUME NEW p \in Participants, QuietParticipant(p)
      PROVE  UNCHANGED <<ledgerVars, files>>
  BY <1>2 DEF QuietParticipant, StartParticipant, Die, ledgerVars
<1>3. CASE UNCHANGED vars
  BY <1>3 DEF vars, ledgerVars
<1> QED
  BY <1>1, <1>2, <1>3

LEMMA LedgerUnchanged ==
    ASSUME LedgerInv, UNCHANGED <<ledgerVars, files>>
    PROVE  LedgerInv'
BY DEF LedgerInv, LedgerTypeOK, ledgerVars, Registered

\* Steps of a switcher that change the gate only, without opening it.
LEMMA GatePhase ==
    ASSUME LedgerInv, NEW tok, NEW expected, NEW next \in Phases \ {"open"},
           SetPhase(tok, expected, next), expected # "open",
           UNCHANGED <<registry, members, work, families, files>>
    PROVE  LedgerInv'
<1>1. gate \in Gate /\ gate.owner \in OwnerToken /\ gate.intent \in Intent
  BY DEF LedgerInv, LedgerTypeOK, SetPhase
<1>2. /\ gate' \in Gate /\ gate'.phase # "open"
      /\ gate'.owner = gate.owner /\ gate'.intent = gate.intent
  BY <1>1 DEF SetPhase, Gate
<1> QED
  BY <1>1, <1>2 DEF LedgerInv, LedgerTypeOK, Registered

\* Steps that retire participants, their work and their families.
LEMMA RetireTables ==
    ASSUME LedgerInv, NEW ps, Retire(ps)
    PROVE  /\ Registered' \subseteq Participants /\ members' \in [Registered' -> Nat]
           /\ work' \subseteq WorkLease /\ families' \subseteq Family
BY DEF LedgerInv, LedgerTypeOK, Retire, RowsOf, Registered

LEMMA LedgerOfRotation ==
    ASSUME TypeInv, NEW s \in Switchers,
           \/ FreezeStep(s) \/ Drain(s) \/ Joined(s) \/ Seal(s) \/ MarkJournal(s)
           \/ ApplyNext(s) \/ PublishTransition(s)
    PROVE  LedgerInv'
<1> LedgerInv /\ JournalInv /\ LocalInv
  BY DEF TypeInv
<1>a. /\ gate \in Gate /\ registry \in Registry /\ files \in Files
      /\ Registered \subseteq Participants /\ members \in [Registered -> Nat]
      /\ work \subseteq WorkLease /\ families \subseteq Family
  BY DEF LedgerInv, LedgerTypeOK
<1>b. /\ gate.phase # "open" => gate.owner \in OwnerToken /\ gate.intent \in Intent
      /\ gate.phase = "open" => gate.owner = None
  BY DEF LedgerInv
<1>c. token[s] \in OwnerToken /\ memo[s] \in Memo
  BY DEF LocalInv
<1>1. CASE FreezeStep(s)
  <2>1. memo[s].to \in Accounts /\ memo[s].auto \in BOOLEAN
    BY <1>c DEF Memo
  <2>2. /\ gate' \in Gate /\ gate'.phase = "draining"
        /\ gate'.owner \in OwnerToken /\ gate'.intent \in Intent
    BY <1>1, <1>a, <1>c, <2>1 DEF FreezeStep, Freeze, Gate, Phases, Intent
  <2> QED
    BY <1>1, <1>a, <2>2 DEF FreezeStep, LedgerInv, LedgerTypeOK, Registered
<1>2. CASE Drain(s)
  BY <1>2, <1>a, <1>b, RetireTables DEF Drain, LedgerInv, LedgerTypeOK
<1>3. CASE Joined(s)
  <2>1. gate' \in Gate
    BY <1>3, <1>a DEF Joined, SetPhase, Gate, Phases
  <2>2. /\ gate'.phase # "open" => gate'.owner \in OwnerToken /\ gate'.intent \in Intent
        /\ gate'.phase = "open" => gate'.owner = None
    BY <1>3, <1>a, <1>b DEF Joined, SetPhase, Gate
  <2> QED
    BY <1>3, <1>a, <2>1, <2>2, RetireTables DEF Joined, LedgerInv, LedgerTypeOK
<1>4. CASE Seal(s)
  <2>1. gate.owner \in OwnerToken /\ gate.intent \in Intent /\ gate.intent.to \in Accounts
    BY <1>4, <1>b DEF Seal, CanSeal, Intent
  <2>2. Plan(files, registry.active, gate.intent.to) \in Operations
    BY <1>4, <1>a, <2>1, PlanType DEF Seal, CanSeal, Registry
  <2>3. /\ gate' \in Gate /\ gate'.phase = "sealed"
        /\ gate'.owner = gate.owner /\ gate'.intent = gate.intent
    BY <1>4, <1>a, <2>2 DEF Seal, Gate, Phases, Sealed
  <2> QED
    BY <1>4, <1>a, <2>1, <2>3 DEF Seal, LedgerInv, LedgerTypeOK, Registered
<1>5. CASE MarkJournal(s)
  BY <1>5, GatePhase DEF MarkJournal, Phases
<1>6. CASE ApplyNext(s)
  <2>1. plan[s] \in SwitchJournal
    BY <1>6 DEF ApplyNext, At, JournalInv, PlanPcs
  <2>2. plan[s].ops[plan[s].next + 1] \in AuthOp
    BY <1>6, <2>1, OperationsType DEF ApplyNext, SwitchJournal
  <2>3. files' \in Files
    BY <1>6, <1>a, <2>2, AppliedType DEF ApplyNext
  <2> QED
    BY <1>6, <1>a, <1>b, <2>3 DEF ApplyNext, LedgerInv, LedgerTypeOK, Registered, ledgerVars
<1>7. CASE PublishTransition(s)
  <2>1. gate.owner \in OwnerToken /\ gate.intent \in Intent /\ gate.intent.to \in Accounts
    BY <1>7, <1>b DEF PublishTransition, Publish, CanPublish, Intent
  <2>2. /\ gate' = [gate EXCEPT !.active = gate.intent.to,
                                !.generation = gate.generation + 1,
                                !.phase = "cleanup-commit"]
        /\ registry' = [registry EXCEPT !.active = gate.intent.to,
                                        !.generation = gate.generation + 1,
                                        !.revision = registry.revision + 1]
    BY <1>7, <1>a DEF PublishTransition, Publish, Gate, Registry
  <2>3. /\ gate' \in Gate /\ gate'.phase = "cleanup-commit"
        /\ gate'.owner = gate.owner /\ gate'.intent = gate.intent
    <3>1. gate.generation + 1 \in Nat
      BY <1>a DEF Gate
    <3> QED
      BY <1>a, <2>1, <2>2, <3>1 DEF Gate, Phases
  <2>4. registry' \in Registry
    <3>1. gate.generation + 1 \in Nat /\ registry.revision + 1 \in Nat
      BY <1>a DEF Gate, Registry
    <3> QED
      BY <1>a, <2>1, <2>2, <3>1 DEF Registry
  <2> QED
    BY <1>7, <1>a, <2>1, <2>3, <2>4 DEF PublishTransition, LedgerInv, LedgerTypeOK, Registered
<1> QED
  BY <1>1, <1>2, <1>3, <1>4, <1>5, <1>6, <1>7

LEMMA LedgerOfRecovery ==
    ASSUME TypeInv, NEW s \in Switchers,
           \/ OpenGate(s) \/ CatchCancels(s) \/ AdoptOwner(s) \/ RetireForRecovery(s)
           \/ MarkRollback(s) \/ UndoNext(s) \/ RolledBack(s)
           \/ \E p \in Participants : Restart(s, p) \/ RestartFails(s, p)
    PROVE  LedgerInv'
<1> LedgerInv /\ JournalInv /\ LocalInv
  BY DEF TypeInv
<1>a. /\ gate \in Gate /\ registry \in Registry /\ files \in Files
      /\ Registered \subseteq Participants /\ members \in [Registered -> Nat]
      /\ work \subseteq WorkLease /\ families \subseteq Family
  BY DEF LedgerInv, LedgerTypeOK
<1>b. /\ gate.phase # "open" => gate.owner \in OwnerToken /\ gate.intent \in Intent
      /\ gate.phase = "open" => gate.owner = None
  BY DEF LedgerInv
<1>c. token[s] \in OwnerToken /\ memo[s] \in Memo
  BY DEF LocalInv
<1>1. CASE OpenGate(s)
  <2>1. gate' \in Gate /\ gate'.phase = "open" /\ gate'.owner = None
    BY <1>1, <1>a DEF OpenGate, Open, Gate, Registry, Phases
  <2> QED
    BY <1>1, <1>a, <2>1 DEF OpenGate, LedgerInv, LedgerTypeOK, Registered
<1>2. CASE CatchCancels(s)
  <2>1. CASE CanCancelDrain(token[s])
    <3>1. gate' \in Gate /\ gate'.phase = "open" /\ gate'.owner = None
      BY <1>2, <1>a, <2>1 DEF CatchCancels, CancelDrain, Gate, Phases
    <3> QED
      BY <1>2, <1>a, <3>1 DEF CatchCancels, LedgerInv, LedgerTypeOK, Registered
  <2>2. CASE ~CanCancelDrain(token[s])
    BY <1>2, <2>2, LedgerUnchanged DEF CatchCancels, ledgerVars
  <2> QED
    BY <2>1, <2>2
<1>3. CASE AdoptOwner(s)
  <2>0. gate.phase # "open"
    BY <1>3, <1>b, OwnerAssumption DEF AdoptOwner, At, Adopt, CanAdopt, Owned, LocalInv
  <2>1. gate' \in Gate /\ gate'.phase = gate.phase /\ gate'.intent = gate.intent
        /\ gate'.owner \in OwnerToken
    BY <1>3, <1>a, <1>c DEF AdoptOwner, Adopt, Gate
  <2> QED
    BY <1>3, <1>a, <1>b, <2>0, <2>1 DEF AdoptOwner, LedgerInv, LedgerTypeOK, Registered
<1>4. CASE RetireForRecovery(s)
  BY <1>4, <1>a, <1>b, RetireTables DEF RetireForRecovery, LedgerInv, LedgerTypeOK
<1>5. CASE MarkRollback(s)
  <2>1. CASE gate.phase # "open"
    <3>1. /\ gate' \in Gate /\ gate'.phase = "rolling-back"
          /\ gate'.owner = gate.owner /\ gate'.intent = gate.intent
      BY <1>5, <1>a DEF MarkRollback, SetPhase, Gate, Phases
    <3> QED
      BY <1>5, <1>a, <1>b, <2>1, <3>1 DEF MarkRollback, LedgerInv, LedgerTypeOK, Registered
  <2>2. CASE gate.phase = "open"
    BY <1>5, <1>b, <1>c, <2>2, OwnerAssumption DEF MarkRollback, SetPhase, Owned
  <2> QED
    BY <2>1, <2>2
<1>6. CASE UndoNext(s)
  <2>1. plan[s] \in SwitchJournal
    BY <1>6 DEF UndoNext, At, JournalInv, PlanPcs
  <2>2. plan[s].ops[plan[s].back] \in AuthOp
    BY <1>6, <2>1, OperationsType DEF UndoNext, SwitchJournal
  <2>3. files' \in Files
    BY <1>6, <1>a, <2>2, InverseType, AppliedType DEF UndoNext
  <2> QED
    BY <1>6, <1>a, <1>b, <2>3 DEF UndoNext, LedgerInv, LedgerTypeOK, Registered, ledgerVars
<1>7. CASE RolledBack(s)
  BY <1>7, GatePhase DEF RolledBack, Phases
<1>8. ASSUME NEW p \in Participants, Restart(s, p) \/ RestartFails(s, p)
      PROVE  LedgerInv'
  <2>1. gate.generation \in Nat /\ p \in Registered
    BY <1>8, <1>a DEF Gate, Restart, RestartFails, Rebase, CanRebase
  <2>2. members' = [members EXCEPT ![p] = gate.generation]
    BY <1>8 DEF Restart, RestartFails, Rebase
  <2>3. DOMAIN members' = Registered /\ members' \in [Registered -> Nat]
    BY <1>a, <2>1, <2>2
  <2> QED
    BY <1>8, <1>a, <1>b, <2>3 DEF Restart, RestartFails, LedgerInv, LedgerTypeOK, Registered
<1> QED
  BY <1>1, <1>2, <1>3, <1>4, <1>5, <1>6, <1>7, <1>8

LEMMA LedgerOfParticipants ==
    ASSUME TypeInv, NEW p \in Participants,
           \/ PrepareOverlay(p) \/ JoinLedger(p) \/ BeginWork(p) \/ EndWork(p)
           \/ SpawnFamily(p) \/ StopFamily(p) \/ FinishStop(p) \/ Close(p)
    PROVE  LedgerInv'
<1> LedgerInv /\ JournalInv /\ LocalInv
  BY DEF TypeInv
<1>a. /\ gate \in Gate /\ registry \in Registry /\ files \in Files
      /\ Registered \subseteq Participants /\ members \in [Registered -> Nat]
      /\ work \subseteq WorkLease /\ families \subseteq Family
      /\ gate.generation \in Nat /\ gate.active \in Accounts
  BY DEF LedgerInv, LedgerTypeOK, Gate
<1>b. /\ gate.phase # "open" => gate.owner \in OwnerToken /\ gate.intent \in Intent
      /\ gate.phase = "open" => gate.owner = None
  BY DEF LedgerInv
<1> USE DEF LedgerInv, LedgerTypeOK, ledgerVars, Registered
<1>1. CASE PrepareOverlay(p)
  <2>1. files' \in Files
    BY <1>1, <1>a DEF PrepareOverlay, Files, Paths
  <2> QED
    BY <1>1, <1>a, <1>b, <2>1 DEF PrepareOverlay
<1>2. CASE JoinLedger(p)
  <2>1. CASE CanRegister(p)
    BY <1>2, <1>a, <1>b, <2>1 DEF JoinLedger, Register
  <2>2. CASE ~CanRegister(p)
    BY <1>2, <1>a, <1>b, <2>2 DEF JoinLedger
  <2> QED
    BY <2>1, <2>2
<1>3. CASE BeginWork(p)
  <2>1. members[p] \in Nat
    BY <1>3, <1>a DEF BeginWork, Begin, CanBegin
  <2> QED
    BY <1>3, <1>a, <1>b, <2>1 DEF BeginWork, Begin, WorkLease
<1>4. CASE EndWork(p)
  BY <1>4, <1>a, <1>b DEF EndWork
<1>5. CASE SpawnFamily(p)
  BY <1>5, <1>a, <1>b DEF SpawnFamily, ReserveFamily, Family
<1>6. CASE StopFamily(p)
  BY <1>6, <1>a, <1>b DEF StopFamily, ReleaseFamilies
<1>7. CASE FinishStop(p)
  BY <1>7, <1>a, <1>b DEF FinishStop, ReleaseFamilies
<1>8. CASE Close(p)
  BY <1>8, <1>a, <1>b, RetireTables DEF Close
<1> QED
  BY <1>1, <1>2, <1>3, <1>4, <1>5, <1>6, <1>7, <1>8

LEMMA LedgerOfConfigure == TypeInv /\ Configure => LedgerInv'
<1> SUFFICES ASSUME TypeInv, Configure PROVE LedgerInv'
  OBVIOUS
<1>1. registry \in Registry /\ registry.revision + 1 \in Nat /\ registry.ready \subseteq Accounts
  BY DEF TypeInv, LedgerInv, LedgerTypeOK, Registry
<1>2. PICK rotation \in BOOLEAN, ready \in SUBSET Accounts :
          registry' = [registry EXCEPT !.rotation = rotation, !.ready = ready,
                                       !.revision = registry.revision + 1]
  <2>1. ASSUME NEW rotation \in BOOLEAN, SetRotation(rotation)
        PROVE  registry' = [registry EXCEPT !.rotation = rotation, !.ready = registry.ready,
                                            !.revision = registry.revision + 1]
    BY <2>1 DEF SetRotation, EditRegistry
  <2>2. ASSUME NEW a \in Accounts, ObserveLogin(a)
        PROVE  \E ready \in SUBSET Accounts :
                  registry' = [registry EXCEPT !.rotation = registry.rotation, !.ready = ready,
                                               !.revision = registry.revision + 1]
    BY <1>1, <2>2 DEF ObserveLogin, EditRegistry
  <2>3. registry.rotation \in BOOLEAN
    BY <1>1 DEF Registry
  <2> QED
    BY <1>1, <2>1, <2>2, <2>3 DEF Configure
<1>3. registry' \in Registry
  BY <1>1, <1>2 DEF Registry
<1> QED
  BY <1>3 DEF Configure, TypeInv, LedgerInv, LedgerTypeOK, Registered

\* Every step preserves the types of the ledger and of the files.
LEMMA LedgerStep == TypeInv /\ [Next]_vars => LedgerInv'
<1> SUFFICES ASSUME TypeInv, [Next]_vars PROVE LedgerInv'
  OBVIOUS
<1> LedgerInv
  BY DEF TypeInv
<1>1. ASSUME NEW s \in Switchers, Switcher(s)
      PROVE  LedgerInv'
  <2>1. CASE QuietSwitcher(s)
    BY <2>1, QuietSteps, LedgerUnchanged
  <2>2. CASE ~QuietSwitcher(s)
    BY <1>1, <2>2, LedgerOfRotation, LedgerOfRecovery DEF Switcher, Advance, QuietSwitcher
  <2> QED
    BY <2>1, <2>2
<1>2. ASSUME NEW p \in Participants, Participant(p)
      PROVE  LedgerInv'
  <2>1. CASE QuietParticipant(p)
    BY <2>1, QuietSteps, LedgerUnchanged
  <2>2. CASE ~QuietParticipant(p)
    BY <1>2, <2>2, LedgerOfParticipants DEF Participant, QuietParticipant
  <2> QED
    BY <2>1, <2>2
<1>3. CASE Configure
  BY <1>3, LedgerOfConfigure
<1>4. CASE UNCHANGED vars
  BY <1>4, QuietSteps, LedgerUnchanged
<1> QED
  BY <1>1, <1>2, <1>3, <1>4 DEF Next

-----------------------------------------------------------------------------
(* The journal and the program counters. *)

\* Steps that neither touch the journal nor lead where one is held.
Unjournaled(s) ==
    \/ \E to \in Accounts, auto \in BOOLEAN : Start(s, to, auto)
    \/ \E p \in Participants : SendStop(s, p) \/ Restart(s, p) \/ SkipRestart(s, p)
                                \/ RestartFails(s, p)
    \/ FreezeStep(s) \/ FreezeRefused(s) \/ Drain(s) \/ Abort(s) \/ StopReplied(s)
    \/ AllStopped(s) \/ Joined(s) \/ Reconcile(s) \/ GuardStale(s) \/ OpenGate(s)
    \/ Restarted(s) \/ CatchCancels(s) \/ CatchRecovers(s) \/ StartRecovery(s)
    \/ AdoptOwner(s) \/ AdoptRefused(s) \/ RetireForRecovery(s) \/ RecoverForward(s)
    \/ RolledBack(s) \/ Refused(s) \/ Fault(s) \/ Crash(s) \/ Leave(s)

LEMMA UnjournaledMoves ==
    ASSUME NEW s \in Switchers, Unjournaled(s)
    PROVE  /\ UNCHANGED <<plan, journal>>
           /\ pc' = pc \/ \E there \in Pcs \ PlanPcs : pc' = [pc EXCEPT ![s] = there]
<1> DEFINE Moves == pc' = pc \/ \E there \in Pcs \ PlanPcs : pc' = [pc EXCEPT ![s] = there]
<1> USE DEF Pcs, OwnerPcs, PlanPcs, Goto, Throw
<1>1. UNCHANGED <<plan, journal>>
  BY DEF Unjournaled, Start, SendStop, Restart, RestartFails, SkipRestart, FreezeStep, FreezeRefused,
       Drain, Abort, StopReplied, AllStopped, Joined, Reconcile, GuardStale, OpenGate,
       Restarted, CatchCancels, CatchRecovers, StartRecovery, AdoptOwner, AdoptRefused,
       RetireForRecovery, RecoverForward, RolledBack, Refused, Fault, Crash, Leave
<1>2. ASSUME NEW to \in Accounts, NEW auto \in BOOLEAN, Start(s, to, auto)
      PROVE  Moves
  BY <1>2 DEF Start
<1>3. ASSUME NEW p \in Participants,
             SendStop(s, p) \/ Restart(s, p) \/ SkipRestart(s, p) \/ RestartFails(s, p)
      PROVE  Moves
  BY <1>3 DEF SendStop, Restart, RestartFails, SkipRestart
<1>4. CASE FreezeStep(s) \/ FreezeRefused(s) \/ Drain(s) \/ Abort(s) \/ StopReplied(s)
           \/ AllStopped(s) \/ Joined(s) \/ Reconcile(s) \/ GuardStale(s)
  BY <1>4 DEF FreezeStep, FreezeRefused, Drain, Abort, StopReplied, AllStopped, Joined,
       Reconcile, GuardStale
<1>5. CASE OpenGate(s) \/ Restarted(s) \/ CatchCancels(s) \/ CatchRecovers(s)
           \/ RolledBack(s) \/ Refused(s) \/ Fault(s) \/ Crash(s) \/ Leave(s)
  BY <1>5 DEF OpenGate, Restarted, CatchCancels, CatchRecovers, RolledBack, Refused,
       Fault, Crash, Leave
<1>6. CASE StartRecovery(s) \/ AdoptOwner(s) \/ AdoptRefused(s) \/ RetireForRecovery(s)
           \/ RecoverForward(s)
  BY <1>6 DEF StartRecovery, AdoptOwner, AdoptRefused, RetireForRecovery, RecoverForward
<1>7. Moves
  BY <1>2, <1>3, <1>4, <1>5, <1>6 DEF Unjournaled
<1> QED
  BY <1>1, <1>7

LEMMA JournalOfUnjournaled ==
    ASSUME JournalInv, NEW s \in Switchers, Unjournaled(s)
    PROVE  JournalInv'
<1>1. UNCHANGED <<plan, journal>>
  BY UnjournaledMoves
<1>2. CASE pc' = pc
  BY <1>1, <1>2 DEF JournalInv
<1>3. ASSUME NEW there \in Pcs \ PlanPcs, pc' = [pc EXCEPT ![s] = there]
      PROVE  JournalInv'
  BY <1>1, <1>3 DEF JournalInv, PlanPcs
<1> QED
  BY <1>2, <1>3, UnjournaledMoves

\* The counters of a journal of len operations stay in range.
LEMMA Counting ==
    ASSUME NEW len \in {0, 2}, NEW n \in 0 .. 2
    PROVE  /\ n < len => n + 1 \in 0 .. 2 /\ n + 1 <= len
           /\ len \in 0 .. 2
           /\ n <= len /\ n > 0 => n - 1 \in 0 .. 2 /\ n - 1 <= len
OBVIOUS

\* A journal object that is written is the switcher's and the file's.
LEMMA JournalWritten ==
    ASSUME JournalInv, NEW s \in Switchers, NEW j \in SwitchJournal, Write(s, j),
           NEW there \in Pcs \ {"record", "unrecord"}, Goto(s, there)
    PROVE  JournalInv'
BY DEF JournalInv, Write, Goto

\* Steps from one place where the journal is held to another.
LEMMA JournalKept ==
    ASSUME JournalInv, NEW s \in Switchers, pc[s] \in PlanPcs,
           NEW there \in Pcs, Goto(s, there), UNCHANGED <<plan, journal>>,
           there = "record" => plan[s].next < Len(plan[s].ops),
           there = "unrecord" => plan[s].back > 0
    PROVE  JournalInv'
BY DEF JournalInv, Goto

LEMMA JournalOfSwitch ==
    ASSUME TypeInv, NEW s \in Switchers,
           \/ Seal(s) \/ BeginJournal(s) \/ MarkJournal(s) \/ ApplyNext(s) \/ RecordNext(s)
           \/ PublishTransition(s) \/ RecordCommit(s) \/ RemoveJournal(s)
    PROVE  JournalInv'
<1> LedgerInv /\ JournalInv /\ LocalInv
  BY DEF TypeInv
<1> USE DEF PlanPcs, Pcs, OwnerPcs
<1>a. pc[s] \in PlanPcs => plan[s] \in SwitchJournal
  BY DEF JournalInv
<1>1. CASE Seal(s)
  <2>1. gate.intent \in Intent /\ gate.intent.to \in Accounts /\ gate.phase = "stopped"
    BY <1>1 DEF Seal, CanSeal, LedgerInv, Intent
  <2>2. /\ gate.active \in Accounts /\ gate.generation \in Nat
        /\ registry.active \in Accounts /\ registry.revision \in Nat
        /\ files \in Files /\ token[s].transaction \in Switchers
    BY DEF LedgerInv, LedgerTypeOK, Gate, Registry, LocalInv, OwnerToken
  <2> DEFINE ops == Plan(files, registry.active, gate.intent.to)
  <2>3. ops \in Operations
    BY <1>1, <2>1, <2>2, PlanType DEF Seal, CanSeal
  <2>4. plan' = [plan EXCEPT ![s] =
                   [transaction |-> token[s].transaction, from |-> gate.active,
                    to |-> gate.intent.to, generation |-> gate.generation,
                    revision |-> registry.revision, phase |-> "forward", ops |-> ops,
                    next |-> 0, back |-> 0, inv |-> files]]
        /\ journal' = journal
        /\ pc' = [pc EXCEPT ![s] = "begin"]
    BY <1>1 DEF Seal, Goto
  <2> HIDE DEF ops
  <2>5. 0 <= Len(ops)
    BY <2>3, OperationsType
  <2>6. [transaction |-> token[s].transaction, from |-> gate.active,
         to |-> gate.intent.to, generation |-> gate.generation,
         revision |-> registry.revision, phase |-> "forward", ops |-> ops,
         next |-> 0, back |-> 0, inv |-> files] \in SwitchJournal
    BY <2>1, <2>2, <2>3, <2>5 DEF SwitchJournal
  <2> QED
    BY <2>4, <2>6 DEF JournalInv
<1>2. CASE BeginJournal(s)
  BY <1>2, <1>a, JournalWritten DEF BeginJournal, At
<1>3. CASE MarkJournal(s)
  BY <1>3, JournalKept DEF MarkJournal, At
<1>4. CASE ApplyNext(s)
  BY <1>4, JournalKept DEF ApplyNext, At
<1>5. CASE RecordNext(s)
  <2>1. plan[s] \in SwitchJournal /\ plan[s].next < Len(plan[s].ops)
    BY <1>5, <1>a DEF RecordNext, At, JournalInv
  <2>2. [plan[s] EXCEPT !.next = @ + 1] \in SwitchJournal
    <3>1. /\ plan[s].next \in 0 .. 2 /\ Len(plan[s].ops) \in {0, 2}
          /\ plan[s].back <= Len(plan[s].ops)
      BY <2>1, OperationsType DEF SwitchJournal
    <3>2. plan[s].next + 1 \in 0 .. 2 /\ plan[s].next + 1 <= Len(plan[s].ops)
      BY <2>1, <3>1, Counting
    <3> QED
      BY <2>1, <3>1, <3>2 DEF SwitchJournal
  <2> QED
    BY <1>5, <2>2, JournalWritten DEF RecordNext
<1>6. CASE PublishTransition(s)
  BY <1>6, JournalKept DEF PublishTransition, At
<1>7. CASE RecordCommit(s)
  <2>1. plan[s] \in SwitchJournal
    BY <1>7, <1>a DEF RecordCommit, At
  <2>2. [plan[s] EXCEPT !.phase = "committed"] \in SwitchJournal
    BY <2>1 DEF SwitchJournal
  <2> QED
    BY <1>7, <2>2, JournalWritten DEF RecordCommit
<1>8. CASE RemoveJournal(s)
  BY <1>8 DEF RemoveJournal, Goto, JournalInv
<1> QED
  BY <1>1, <1>2, <1>3, <1>4, <1>5, <1>6, <1>7, <1>8

LEMMA JournalOfRollback ==
    ASSUME TypeInv, NEW s \in Switchers,
           RecoverBackward(s) \/ MarkRollback(s) \/ UndoNext(s) \/ RecordUndo(s)
    PROVE  JournalInv'
<1> LedgerInv /\ JournalInv /\ LocalInv
  BY DEF TypeInv
<1> USE DEF PlanPcs, Pcs, OwnerPcs
<1>a. pc[s] \in PlanPcs => plan[s] \in SwitchJournal
  BY DEF JournalInv
<1>1. CASE RecoverBackward(s)
  <2>1. journal \in SwitchJournal
    BY <1>1 DEF RecoverBackward, CanReadJournal, JournalInv
  <2> DEFINE len == Len(journal.ops)
             first == IF journal.next < len THEN journal.next + 1 ELSE len
             back == IF journal.phase = "rollback" THEN journal.back ELSE first
             j == [journal EXCEPT !.phase = "rollback", !.back = back]
  <2>2. Write(s, j) /\ Goto(s, "rolling")
    BY <1>1 DEF RecoverBackward
  <2>3. /\ len \in {0, 2} /\ journal.next \in 0 .. 2 /\ journal.back \in 0 .. 2
        /\ journal.back <= len
    BY <2>1, OperationsType DEF SwitchJournal
  <2>4. back \in 0 .. 2 /\ back <= len
    <3>1. first \in 0 .. 2 /\ first <= len
      <4> HIDE DEF len
      <4> QED
        BY <2>3, Counting
    <3> HIDE DEF first, len
    <3> QED
      BY <2>3, <3>1
  <2> HIDE DEF back
  <2>5. j \in SwitchJournal
    BY <2>1, <2>4 DEF SwitchJournal
  <2> QED
    BY <2>2, <2>5, JournalWritten
<1>2. CASE MarkRollback(s)
  BY <1>2, JournalKept DEF MarkRollback, At
<1>3. CASE UndoNext(s)
  BY <1>3, JournalKept DEF UndoNext, At
<1>4. CASE RecordUndo(s)
  <2>1. plan[s] \in SwitchJournal /\ plan[s].back > 0
    BY <1>4, <1>a DEF RecordUndo, At, JournalInv
  <2>2. [plan[s] EXCEPT !.back = @ - 1] \in SwitchJournal
    <3>1. /\ plan[s].back \in 0 .. 2 /\ Len(plan[s].ops) \in {0, 2}
          /\ plan[s].back <= Len(plan[s].ops)
      BY <2>1, OperationsType DEF SwitchJournal
    <3>2. plan[s].back - 1 \in 0 .. 2 /\ plan[s].back - 1 <= Len(plan[s].ops)
      BY <2>1, <3>1, Counting
    <3> QED
      BY <2>1, <3>1, <3>2 DEF SwitchJournal
  <2> QED
    BY <1>4, <2>2, JournalWritten DEF RecordUndo
<1> QED
  BY <1>1, <1>2, <1>3, <1>4

\* Every step preserves the journal's type.
LEMMA JournalStep == TypeInv /\ [Next]_vars => JournalInv'
<1> SUFFICES ASSUME TypeInv, [Next]_vars PROVE JournalInv'
  OBVIOUS
<1>a. JournalInv
  BY DEF TypeInv
<1>1. ASSUME NEW s \in Switchers, Switcher(s)
      PROVE  JournalInv'
  <2>1. CASE Unjournaled(s)
    BY <1>a, <2>1, JournalOfUnjournaled
  <2>2. CASE ~Unjournaled(s)
    BY <1>1, <2>2, JournalOfSwitch, JournalOfRollback DEF Switcher, Advance, Unjournaled
  <2> QED
    BY <2>1, <2>2
<1>2. ASSUME NEW p \in Participants, Participant(p)
      PROVE  JournalInv'
  <2>1. UNCHANGED <<pc, plan, journal>>
    BY <1>2 DEF Participant, StartParticipant, PrepareOverlay, JoinLedger, BeginWork,
         EndWork, SpawnFamily, StopFamily, FinishStop, Close, Die, switcherVars
  <2> QED
    BY <1>a, <2>1 DEF JournalInv
<1>3. CASE Configure \/ UNCHANGED vars
  <2>1. UNCHANGED <<pc, plan, journal>>
    BY <1>3 DEF Configure, switcherVars, vars
  <2> QED
    BY <1>a, <2>1 DEF JournalInv
<1> QED
  BY <1>1, <1>2, <1>3 DEF Next

-----------------------------------------------------------------------------
(* The locals of the processes. *)

\* Steps of a switcher that change none of its locals but the journal and the
\* program counter.
Plain(s) ==
    \/ FreezeRefused(s) \/ Abort(s) \/ StopReplied(s) \/ Joined(s) \/ Reconcile(s)
    \/ Seal(s) \/ GuardStale(s) \/ BeginJournal(s) \/ MarkJournal(s) \/ ApplyNext(s)
    \/ RecordNext(s) \/ PublishTransition(s) \/ RecordCommit(s) \/ RemoveJournal(s)
    \/ Restarted(s) \/ AdoptOwner(s) \/ AdoptRefused(s) \/ RecoverForward(s)
    \/ RecoverBackward(s) \/ MarkRollback(s) \/ UndoNext(s) \/ RecordUndo(s)
    \/ RolledBack(s) \/ Refused(s) \/ Fault(s) \/ Crash(s) \/ Leave(s)
    \/ \E p \in Participants : RestartFails(s, p)

LEMMA PlainMoves ==
    ASSUME NEW s \in Switchers, Plain(s)
    PROVE  /\ UNCHANGED <<token, memo, proc, view>>
           /\ dead' \in {dead, dead \cup {s}}
           /\ failures' = failures \/ Fails
           /\ pc' = pc \/ \E there \in Pcs \ {"adopt"} : pc' = [pc EXCEPT ![s] = there]
<1> DEFINE Moves == pc' = pc \/ \E there \in Pcs \ {"adopt"} : pc' = [pc EXCEPT ![s] = there]
<1> USE DEF Pcs, OwnerPcs, Goto, Throw
<1>1. /\ UNCHANGED <<token, memo, proc, view>>
      /\ dead' \in {dead, dead \cup {s}}
      /\ failures' = failures \/ Fails
  BY DEF Plain, FreezeRefused, Abort, StopReplied, Joined, Reconcile, Seal, GuardStale,
       BeginJournal, MarkJournal, ApplyNext, RecordNext, PublishTransition, RecordCommit,
       RemoveJournal, Restarted, AdoptOwner, AdoptRefused, RecoverForward,
       RecoverBackward, MarkRollback, UndoNext, RecordUndo, RolledBack, Refused, Fault,
       Crash, Leave, RestartFails, participantVars
<1>2. CASE FreezeRefused(s) \/ Abort(s) \/ StopReplied(s) \/ Joined(s) \/ Reconcile(s)
           \/ Seal(s) \/ GuardStale(s) \/ BeginJournal(s) \/ MarkJournal(s) \/ ApplyNext(s)
  BY <1>1, <1>2 DEF FreezeRefused, Abort, StopReplied, Joined, Reconcile, Seal,
       GuardStale, BeginJournal, MarkJournal, ApplyNext
<1>3. CASE RecordNext(s) \/ PublishTransition(s) \/ RecordCommit(s) \/ RemoveJournal(s)
           \/ Restarted(s) \/ AdoptOwner(s) \/ AdoptRefused(s) \/ RecoverForward(s)
  BY <1>1, <1>3 DEF RecordNext, PublishTransition, RecordCommit, RemoveJournal,
       Restarted, AdoptOwner, AdoptRefused, RecoverForward
<1>4. CASE RecoverBackward(s) \/ MarkRollback(s) \/ UndoNext(s) \/ RecordUndo(s)
           \/ RolledBack(s) \/ Refused(s) \/ Fault(s) \/ Crash(s) \/ Leave(s)
  BY <1>1, <1>4 DEF RecoverBackward, MarkRollback, UndoNext, RecordUndo, RolledBack,
       Refused, Fault, Crash, Leave
<1>5. CASE \E p \in Participants : RestartFails(s, p)
  BY <1>1, <1>5 DEF RestartFails
<1> QED
  BY <1>1, <1>2, <1>3, <1>4, <1>5 DEF Plain

LEMMA LocalsOfPlain ==
    ASSUME TypeInv, NEW s \in Switchers, Plain(s)
    PROVE  LocalInv'
<1>1. /\ UNCHANGED <<token, memo, proc, view>>
      /\ dead' \in {dead, dead \cup {s}}
      /\ failures' = failures \/ Fails
  BY PlainMoves
<1>2. failures' \in 0 .. MaxFailures
  <2>1. failures \in 0 .. MaxFailures
    BY DEF TypeInv, LocalInv
  <2> QED
    BY <1>1, <2>1, SwitchersAssumption DEF Fails
<1>3. \A t \in Switchers : pc'[t] = "adopt" => pc[t] = "adopt"
  BY PlainMoves DEF TypeInv, JournalInv
<1> QED
  BY <1>1, <1>2, <1>3 DEF TypeInv, LocalInv

\* Steps that change a switcher's memo and leave it elsewhere than at "adopt".
LEMMA MemoWritten ==
    ASSUME TypeInv, NEW s \in Switchers, NEW m \in Memo,
           memo' = [memo EXCEPT ![s] = m],
           pc[s] # "adopt", NEW there \in Pcs \ {"adopt"},
           pc' = pc \/ Goto(s, there),
           token' \in [Switchers -> OwnerToken],
           proc' \in [Participants ->
                       {"off", "preparing", "prepared", "running", "stopping", "stopped"}],
           UNCHANGED <<dead, view, failures>>
    PROVE  LocalInv'
BY DEF TypeInv, JournalInv, LocalInv, Goto

LEMMA LocalsOfMemo ==
    ASSUME TypeInv, NEW s \in Switchers,
           \/ \E to \in Accounts, auto \in BOOLEAN : Start(s, to, auto)
           \/ \E p \in Participants : SendStop(s, p) \/ Restart(s, p) \/ SkipRestart(s, p)
           \/ FreezeStep(s) \/ Drain(s) \/ AllStopped(s) \/ OpenGate(s)
           \/ CatchCancels(s) \/ CatchRecovers(s) \/ RetireForRecovery(s)
    PROVE  LocalInv'
<1> LedgerInv /\ JournalInv /\ LocalInv
  BY DEF TypeInv
<1>a. /\ memo[s] \in Memo /\ memo \in [Switchers -> Memo]
      /\ token \in [Switchers -> OwnerToken]
      /\ proc \in [Participants ->
                    {"off", "preparing", "prepared", "running", "stopping", "stopped"}]
  BY DEF LocalInv
<1>b. /\ gate.generation \in Nat
      /\ memo[s].parts \subseteq Participants /\ memo[s].todo \subseteq Participants
  BY <1>a DEF LedgerInv, LedgerTypeOK, Gate, Memo
<1> USE DEF Pcs, OwnerPcs, At, participantVars
<1>1. ASSUME NEW to \in Accounts, NEW auto \in BOOLEAN, Start(s, to, auto)
      PROVE  LocalInv'
  <2>1. [memo[s] EXCEPT !.to = to, !.auto = auto, !.generation = gate.generation] \in Memo
    BY <1>a, <1>b DEF Memo
  <2>2. token' \in [Switchers -> OwnerToken]
    BY <1>1, <1>a DEF Start, OwnerToken
  <2> QED
    BY <1>1, <1>a, <2>1, <2>2, MemoWritten DEF Start
<1>2. ASSUME NEW p \in Participants, SendStop(s, p)
      PROVE  LocalInv'
  <2> DEFINE m == [memo[s] EXCEPT !.todo = memo[s].todo \ {p}, !.calling = p]
  <2>1. m \in Memo
    BY <1>a, <1>b DEF Memo
  <2>2. proc' \in [Participants ->
                    {"off", "preparing", "prepared", "running", "stopping", "stopped"}]
    BY <1>2, <1>a DEF SendStop
  <2>3. memo' = [memo EXCEPT ![s] = m]
    BY <1>2, <1>a DEF SendStop
  <2>4. /\ pc' = [pc EXCEPT ![s] = "stopping"]
        /\ UNCHANGED <<token, dead, view, failures>>
    BY <1>2 DEF SendStop, Goto
  <2> HIDE DEF m
  <2>5. memo' \in [Switchers -> Memo]
    BY <1>a, <2>1, <2>3
  <2>6. \A t \in Switchers : pc'[t] = "adopt" => pc[t] = "adopt" /\ memo'[t] = memo[t]
    BY <1>a, <2>3, <2>4 DEF JournalInv
  <2> QED
    BY <2>2, <2>4, <2>5, <2>6 DEF LocalInv
<1>3. ASSUME NEW p \in Participants, Restart(s, p) \/ SkipRestart(s, p)
      PROVE  LocalInv'
  <2>1. [memo[s] EXCEPT !.todo = @ \ {p}] \in Memo
    BY <1>a, <1>b DEF Memo
  <2>2. proc' \in [Participants ->
                    {"off", "preparing", "prepared", "running", "stopping", "stopped"}]
    BY <1>3, <1>a DEF Restart, SkipRestart
  <2>3. memo' = [memo EXCEPT ![s] = [memo[s] EXCEPT !.todo = @ \ {p}]]
    BY <1>3, <1>a DEF Restart, SkipRestart
  <2> QED
    BY <1>3, <1>a, <2>1, <2>2, <2>3, MemoWritten DEF Restart, SkipRestart
<1>4. CASE FreezeStep(s)
  <2>1. [memo[s] EXCEPT !.caught = FALSE, !.stopped = FALSE] \in Memo
    BY <1>a DEF Memo
  <2>2. memo' = [memo EXCEPT ![s] = [memo[s] EXCEPT !.caught = FALSE, !.stopped = FALSE]]
    BY <1>4, <1>a DEF FreezeStep
  <2> QED
    BY <1>4, <1>a, <2>1, <2>2, MemoWritten DEF FreezeStep
<1>5. CASE Drain(s) \/ RetireForRecovery(s)
  <2>1. DOMAIN members' \subseteq Participants
    BY <1>5, RetireTables DEF Drain, RetireForRecovery, Registered
  <2>2. [memo[s] EXCEPT !.parts = DOMAIN members', !.todo = DOMAIN members'] \in Memo
    BY <1>a, <2>1 DEF Memo
  <2>3. \E m \in Memo : memo' = [memo EXCEPT ![s] = m]
    BY <1>5, <1>a, <2>2 DEF Drain, RetireForRecovery
  <2>4. pc' = pc \/ Goto(s, "stop") \/ Goto(s, "exit")
    BY <1>5 DEF Drain, RetireForRecovery
  <2> QED
    BY <1>5, <1>a, <2>3, <2>4, MemoWritten DEF Drain, RetireForRecovery
<1>6. CASE AllStopped(s)
  <2>1. [memo[s] EXCEPT !.stopped = TRUE] \in Memo
    BY <1>a DEF Memo
  <2>2. memo' = [memo EXCEPT ![s] = [memo[s] EXCEPT !.stopped = TRUE]]
    BY <1>6, <1>a DEF AllStopped
  <2> QED
    BY <1>6, <1>a, <2>1, <2>2, MemoWritten DEF AllStopped
<1>7. CASE OpenGate(s)
  <2>1. gate'.generation \in Nat
    BY <1>7 DEF OpenGate, Open, LedgerInv, LedgerTypeOK, Registry
  <2>2. [memo[s] EXCEPT !.todo = memo[s].parts, !.generation = gate'.generation] \in Memo
    BY <1>a, <1>b, <2>1 DEF Memo
  <2> QED
    BY <1>7, <1>a, <2>2, MemoWritten DEF OpenGate
<1>8. CASE CatchCancels(s)
  <2> DEFINE called == {p \in memo[s].parts : RowsOf(families, {p}) = {}}
  <2>1. [memo[s] EXCEPT !.caught = TRUE, !.todo = called] \in Memo
    <3>1. called \subseteq Participants
      BY <1>b
    <3> QED
      BY <1>a, <3>1 DEF Memo
  <2>2. \E m \in Memo : memo' = [memo EXCEPT ![s] = m]
    BY <1>8, <1>a, <2>1 DEF CatchCancels
  <2> QED
    BY <1>8, <1>a, <2>2, MemoWritten DEF CatchCancels
<1>9. CASE CatchRecovers(s)
  <2>1. [memo[s] EXCEPT !.caught = TRUE] \in Memo
    BY <1>a DEF Memo
  <2>2. memo' = [memo EXCEPT ![s] = [memo[s] EXCEPT !.caught = TRUE]]
    BY <1>9, <1>a DEF CatchRecovers
  <2> QED
    BY <1>9, <1>a, <2>1, <2>2, MemoWritten DEF CatchRecovers
<1> QED
  BY <1>1, <1>2, <1>3, <1>4, <1>5, <1>6, <1>7, <1>8, <1>9

LEMMA LocalsOfStartRecovery ==
    ASSUME TypeInv, NEW s \in Switchers, StartRecovery(s)
    PROVE  LocalInv'
<1> LedgerInv /\ JournalInv /\ LocalInv
  BY DEF TypeInv
<1>1. gate.owner \in OwnerToken /\ gate.generation \in Nat /\ memo[s] \in Memo
  BY DEF StartRecovery, LedgerInv, LedgerTypeOK, Gate, LocalInv
<1>2. [gate.owner EXCEPT !.claim = gate.owner.claim + 1, !.proc = s] \in OwnerToken
  <2>1. gate.owner.claim + 1 \in Nat
    BY <1>1 DEF OwnerToken
  <2> QED
    BY <1>1, <2>1 DEF OwnerToken
<1> DEFINE m == [memo[s] EXCEPT !.expected = gate.owner, !.caught = TRUE,
                                !.generation = gate.generation]
<1>3. m \in Memo /\ m.expected = gate.owner
  BY <1>1 DEF Memo
<1>4. memo' = [memo EXCEPT ![s] = m]
  BY DEF StartRecovery, LocalInv
<1> HIDE DEF m
<1>5. /\ token' = [token EXCEPT ![s] = [gate.owner EXCEPT !.claim = gate.owner.claim + 1, !.proc = s]]
      /\ dead' = dead \ {s} /\ pc' = [pc EXCEPT ![s] = "adopt"]
      /\ UNCHANGED <<proc, view, failures>>
  BY DEF StartRecovery, Goto, participantVars
<1> QED
  BY <1>1, <1>2, <1>3, <1>4, <1>5 DEF LocalInv, JournalInv

LEMMA LocalsOfParticipants ==
    ASSUME TypeInv, NEW p \in Participants, Participant(p)
    PROVE  LocalInv'
<1>1. UNCHANGED <<pc, dead, token, memo, failures>>
  BY DEF Participant, StartParticipant, PrepareOverlay, JoinLedger, BeginWork,
       EndWork, SpawnFamily, StopFamily, FinishStop, Close, Die, switcherVars
<1>2. view' \in [Participants -> Accounts]
  <2>1. registry.active \in Accounts /\ view \in [Participants -> Accounts]
    BY DEF TypeInv, LedgerInv, LedgerTypeOK, Registry, LocalInv
  <2> QED
    BY <2>1 DEF Participant, StartParticipant, PrepareOverlay, JoinLedger, BeginWork,
         EndWork, SpawnFamily, StopFamily, FinishStop, Close, Die, participantVars
<1>3. \/ proc' = proc
      \/ \E state \in {"off", "preparing", "prepared", "running", "stopping", "stopped"} :
             proc' = [proc EXCEPT ![p] = state]
  BY DEF Participant, StartParticipant, PrepareOverlay, JoinLedger, BeginWork,
       EndWork, SpawnFamily, StopFamily, FinishStop, Close, Die, participantVars
<1> QED
  BY <1>1, <1>2, <1>3 DEF TypeInv, LocalInv

\* Every step preserves the types of the locals.
LEMMA LocalStep == TypeInv /\ [Next]_vars => LocalInv'
<1> SUFFICES ASSUME TypeInv, [Next]_vars PROVE LocalInv'
  OBVIOUS
<1>1. ASSUME NEW s \in Switchers, Switcher(s)
      PROVE  LocalInv'
  <2>1. CASE Plain(s)
    BY <2>1, LocalsOfPlain
  <2>2. CASE ~Plain(s)
    BY <1>1, <2>2, LocalsOfMemo, LocalsOfStartRecovery DEF Switcher, Advance, Plain
  <2> QED
    BY <2>1, <2>2
<1>2. ASSUME NEW p \in Participants, Participant(p)
      PROVE  LocalInv'
  BY <1>2, LocalsOfParticipants
<1>3. CASE Configure \/ UNCHANGED vars
  <2>1. UNCHANGED <<pc, dead, token, memo, proc, view, failures>>
    BY <1>3 DEF Configure, switcherVars, participantVars, vars
  <2> QED
    BY <2>1 DEF TypeInv, LocalInv
<1> QED
  BY <1>1, <1>2, <1>3 DEF Next

-----------------------------------------------------------------------------
(* Theorems. *)

\* The strengthened type invariant holds in every state of every run.
THEOREM TypeInvariant == Spec => []TypeInv
<1>1. Init => TypeInv
  BY InitTypeInv
<1>2. TypeInv /\ [Next]_vars => TypeInv'
  BY LedgerStep, JournalStep, LocalStep DEF TypeInv
<1> QED
  BY <1>1, <1>2, PTL DEF Spec

\* The rows of the ledger, the journal, the files and the locals of every
\* process keep the types the code gives them, through every crash.
THEOREM TypeCorrect == Spec => []TypeOK
<1>1. Spec => []TypeInv
  BY TypeInvariant
<1>2. TypeInv => TypeOK
  BY TypeInvImpliesTypeOK
<1> QED
  BY <1>1, <1>2, PTL

-----------------------------------------------------------------------------
(* The fence. *)

\* A token names the process that works under it, so no two switchers have the
\* same one; SingleOwner alone is not inductive, for lack of this.
OwnToken == \A s \in Switchers : token[s].proc = s

Fence == OwnToken /\ SingleOwner

\* Steps of s that keep the gate's owner and do not open the gate, and leave s
\* between freeze and open only if it is there already or is the owner.
Fenced(s) ==
    /\ gate'.owner = gate.owner
    /\ gate.phase # "open" => gate'.phase # "open"
    /\ UNCHANGED token /\ dead \subseteq dead'
    /\ pc' = pc \/ \E there \in Pcs :
          /\ Goto(s, there)
          /\ there \in OwnerPcs => (pc[s] \in OwnerPcs /\ s \notin dead) \/ Owns(s)

LEMMA FencedKeeps ==
    ASSUME TypeInv, Fence, NEW s \in Switchers, Fenced(s)
    PROVE  Fence'
<1> USE DEF TypeInv
<1>1. \A t \in Switchers : Owns(t) => gate.phase # "open"
  BY OwnerAssumption DEF LocalInv, LedgerInv, Owns, Owned
<1>2. \A t \in Switchers \ dead' :
         pc'[t] \in OwnerPcs => Owns(t) \/ (t \notin dead /\ pc[t] \in OwnerPcs)
  BY DEF Fenced, Goto, JournalInv
<1>3. \A t \in Switchers : Owns(t)' <=> Owns(t)
  BY DEF Fenced, Owns, Owned
<1>4. SingleOwner'
  BY <1>1, <1>2, <1>3 DEF Fence, SingleOwner, Fenced
<1>5. OwnToken'
  BY DEF Fence, OwnToken, Fenced
<1> QED
  BY <1>4, <1>5 DEF Fence

LEMMA LocalMovesAreFenced ==
    ASSUME TypeInv, Fence, NEW s \in Switchers,
           \/ \E p \in Participants : SendStop(s, p) \/ Restart(s, p) \/ SkipRestart(s, p)
                                       \/ RestartFails(s, p)
           \/ FreezeRefused(s) \/ Drain(s) \/ StopReplied(s) \/ AllStopped(s) \/ Reconcile(s)
           \/ BeginJournal(s) \/ ApplyNext(s) \/ RecordNext(s) \/ RecordCommit(s)
           \/ RemoveJournal(s) \/ Restarted(s) \/ CatchRecovers(s) \/ AdoptRefused(s)
           \/ RetireForRecovery(s) \/ RecoverForward(s) \/ RecoverBackward(s)
           \/ UndoNext(s) \/ RecordUndo(s) \/ Refused(s) \/ Leave(s)
           \/ Abort(s) \/ GuardStale(s) \/ Fault(s) \/ Crash(s)
    PROVE  Fenced(s)
<1> USE DEF Fenced, Pcs, OwnerPcs, At, Goto, ledgerVars, participantVars
<1>1. ASSUME NEW p \in Participants,
             SendStop(s, p) \/ Restart(s, p) \/ SkipRestart(s, p) \/ RestartFails(s, p)
      PROVE  Fenced(s)
  BY <1>1 DEF SendStop, Restart, RestartFails, SkipRestart, Throw
<1>2. CASE FreezeRefused(s) \/ Drain(s) \/ StopReplied(s) \/ AllStopped(s) \/ Reconcile(s)
  BY <1>2 DEF FreezeRefused, Drain, StopReplied, AllStopped, Reconcile
<1>3. CASE BeginJournal(s) \/ ApplyNext(s) \/ RecordNext(s) \/ RecordCommit(s)
           \/ RemoveJournal(s) \/ Restarted(s) \/ CatchRecovers(s) \/ AdoptRefused(s)
           \/ RetireForRecovery(s)
  BY <1>3 DEF BeginJournal, ApplyNext, RecordNext, RecordCommit, RemoveJournal,
       Restarted, CatchRecovers, AdoptRefused, RetireForRecovery
<1>4. CASE RecoverForward(s) \/ RecoverBackward(s)
  <2>1. Owns(s)
    BY <1>4 DEF RecoverForward, RecoverBackward, CanFinishWithoutJournal, CanReadJournal
  <2> QED
    BY <1>4, <2>1 DEF RecoverForward, RecoverBackward
<1>5. CASE UndoNext(s) \/ RecordUndo(s)
  BY <1>5 DEF UndoNext, RecordUndo
<1>6. CASE Refused(s) \/ Leave(s) \/ Abort(s) \/ GuardStale(s) \/ Fault(s) \/ Crash(s)
  BY <1>6 DEF Refused, Leave, Abort, GuardStale, Fault, Crash, Throw
<1> QED
  BY <1>1, <1>2, <1>3, <1>4, <1>5, <1>6

\* The owner's own marks on the gate, none of which opens it.
LEMMA MarksAreFenced ==
    ASSUME TypeInv, Fence, NEW s \in Switchers,
           Joined(s) \/ Seal(s) \/ MarkJournal(s) \/ PublishTransition(s)
           \/ MarkRollback(s) \/ RolledBack(s)
    PROVE  Fenced(s)
<1> USE DEF Fenced, Pcs, OwnerPcs, At, Goto
<1> gate \in Gate
  BY DEF TypeInv, LedgerInv, LedgerTypeOK
<1>1. CASE Joined(s)
  BY <1>1 DEF Joined, SetPhase, Throw, Gate
<1>2. CASE Seal(s) \/ PublishTransition(s)
  BY <1>2 DEF Seal, PublishTransition, Publish, Gate
<1>3. CASE MarkJournal(s) \/ MarkRollback(s) \/ RolledBack(s)
  BY <1>3 DEF MarkJournal, MarkRollback, RolledBack, SetPhase, Gate
<1> QED
  BY <1>1, <1>2, <1>3

\* The owner opens the gate: nobody else was between freeze and open.
LEMMA OpeningKeepsFence ==
    ASSUME TypeInv, Fence, NEW s \in Switchers, OpenGate(s) \/ CatchCancels(s)
    PROVE  Fence'
<1>1. CASE CatchCancels(s) /\ ~CanCancelDrain(token[s])
  <2>1. Fenced(s)
    BY <1>1 DEF CatchCancels, Fenced, Goto, Pcs, OwnerPcs
  <2> QED
    BY <2>1, FencedKeeps
<1>2. CASE ~(CatchCancels(s) /\ ~CanCancelDrain(token[s]))
  <2>1. /\ Owns(s) /\ UNCHANGED <<token, dead>>
        /\ pc' = [pc EXCEPT ![s] = "restart"]
    BY <1>2 DEF OpenGate, CatchCancels, Open, CanOpen, CanCancelDrain, CancelDrain,
         Owns, Goto
  <2>2. \A t \in Switchers : Owns(t) => t = s
    BY <2>1 DEF Fence, OwnToken, Owns, Owned
  <2>3. \A t \in Switchers \ dead : pc'[t] \notin OwnerPcs
    BY <2>1, <2>2 DEF Fence, SingleOwner, TypeInv, JournalInv, OwnerPcs
  <2> QED
    BY <2>1, <2>3 DEF Fence, OwnToken, SingleOwner
<1> QED
  BY <1>1, <1>2

\* freeze closes an open gate, so nobody is between freeze and open.
LEMMA FreezeKeepsFence ==
    ASSUME TypeInv, Fence, NEW s \in Switchers, FreezeStep(s)
    PROVE  Fence'
<1>1. /\ gate.phase = "open" /\ gate'.phase = "draining" /\ gate'.owner = token[s]
      /\ UNCHANGED <<token, dead>> /\ pc' = [pc EXCEPT ![s] = "drain"]
  BY DEF FreezeStep, Freeze, CanFreeze, Frozen, Goto, TypeInv, LedgerInv, LedgerTypeOK, Gate
<1>2. \A t \in Switchers \ dead : pc[t] \notin OwnerPcs
  BY <1>1 DEF Fence, SingleOwner
<1> QED
  BY <1>1, <1>2 DEF Fence, OwnToken, SingleOwner, Owns, Owned, TypeInv, JournalInv

\* A recovery takes the gate from a token whose process is dead; whoever lives
\* between freeze and open works under a token of its own.
LEMMA AdoptKeepsFence ==
    ASSUME TypeInv, Fence, NEW s \in Switchers, AdoptOwner(s)
    PROVE  Fence'
<1>1. /\ memo[s].expected.proc \in dead /\ gate.owner = memo[s].expected
      /\ gate.owner \in OwnerToken
      /\ UNCHANGED <<token, dead>> /\ pc' = [pc EXCEPT ![s] = "retire"]
  BY DEF AdoptOwner, At, Adopt, CanAdopt, Owned, Goto, TypeInv, LocalInv
<1>2. gate'.owner = token[s] /\ gate'.phase = gate.phase /\ gate.phase # "open"
  BY <1>1, OwnerAssumption
     DEF AdoptOwner, Adopt, TypeInv, LedgerInv, LedgerTypeOK, Gate
<1>3. \A t \in Switchers \ dead : pc[t] \notin OwnerPcs
  BY <1>1 DEF Fence, OwnToken, SingleOwner, Owns, Owned
<1> QED
  BY <1>1, <1>2, <1>3
     DEF Fence, OwnToken, SingleOwner, Owns, Owned, TypeInv, JournalInv

\* A command starts under a fresh token, outside the fence.
LEMMA StartingKeepsFence ==
    ASSUME TypeInv, Fence, NEW s \in Switchers,
           \/ \E to \in Accounts, auto \in BOOLEAN : Start(s, to, auto)
           \/ StartRecovery(s)
    PROVE  Fence'
<1>1. PICK tok \in OwnerToken, there \in {"freeze", "adopt"} :
         /\ tok.proc = s
         /\ token' = [token EXCEPT ![s] = tok]
         /\ pc' = [pc EXCEPT ![s] = there]
         /\ dead \ {s} \subseteq dead'
         /\ UNCHANGED gate
  <2>1. ASSUME NEW to \in Accounts, NEW auto \in BOOLEAN, Start(s, to, auto)
        PROVE  /\ [transaction |-> s, claim |-> 1, proc |-> s] \in OwnerToken
               /\ token' = [token EXCEPT ![s] = [transaction |-> s, claim |-> 1, proc |-> s]]
               /\ pc' = [pc EXCEPT ![s] = "freeze"]
               /\ dead' = dead /\ UNCHANGED gate
    BY <2>1 DEF Start, OwnerToken, Goto, ledgerVars
  <2> DEFINE next == [gate.owner EXCEPT !.claim = gate.owner.claim + 1, !.proc = s]
  <2>2. ASSUME StartRecovery(s)
        PROVE  /\ next \in OwnerToken /\ next.proc = s
               /\ token' = [token EXCEPT ![s] = next]
               /\ pc' = [pc EXCEPT ![s] = "adopt"]
               /\ dead' = dead \ {s} /\ UNCHANGED gate
    <3>1. gate.owner \in OwnerToken
      BY <2>2 DEF StartRecovery, TypeInv, LedgerInv
    <3>2. gate.owner.claim + 1 \in Nat
      BY <3>1 DEF OwnerToken
    <3>3. next \in OwnerToken /\ next.proc = s
      BY <3>1, <3>2 DEF OwnerToken
    <3>4. /\ token' = [token EXCEPT ![s] = next]
          /\ pc' = [pc EXCEPT ![s] = "adopt"]
          /\ dead' = dead \ {s} /\ UNCHANGED gate
      BY <2>2 DEF StartRecovery, Goto, ledgerVars
    <3> QED
      BY <3>3, <3>4
  <2> HIDE DEF next
  <2>3. CASE StartRecovery(s)
    BY <2>2, <2>3
  <2>4. CASE \E to \in Accounts, auto \in BOOLEAN : Start(s, to, auto)
    BY <2>1, <2>4
  <2> QED
    BY <2>3, <2>4
<1>2. \A t \in Switchers \ {s} : token'[t] = token[t] /\ pc'[t] = pc[t]
  BY <1>1 DEF TypeInv, LocalInv, JournalInv
<1>3. token'[s].proc = s /\ pc'[s] \notin OwnerPcs
  BY <1>1 DEF TypeInv, LocalInv, JournalInv, OwnerPcs
<1> QED
  BY <1>1, <1>2, <1>3 DEF Fence, OwnToken, SingleOwner, Owns, Owned

LEMMA FenceStep == TypeInv /\ Fence /\ [Next]_vars => Fence'
<1> SUFFICES ASSUME TypeInv, Fence, [Next]_vars PROVE Fence'
  OBVIOUS
<1>1. ASSUME NEW s \in Switchers, Switcher(s)
      PROVE  Fence'
  <2>1. CASE OpenGate(s) \/ CatchCancels(s) \/ FreezeStep(s) \/ AdoptOwner(s)
             \/ StartRecovery(s) \/ \E to \in Accounts, auto \in BOOLEAN : Start(s, to, auto)
    BY <2>1, OpeningKeepsFence, FreezeKeepsFence, AdoptKeepsFence, StartingKeepsFence
  <2>2. CASE Joined(s) \/ Seal(s) \/ MarkJournal(s) \/ PublishTransition(s)
             \/ MarkRollback(s) \/ RolledBack(s)
    BY <2>2, MarksAreFenced, FencedKeeps
  <2>3. CASE ~(OpenGate(s) \/ CatchCancels(s) \/ FreezeStep(s) \/ AdoptOwner(s)
               \/ StartRecovery(s) \/ \E to \in Accounts, auto \in BOOLEAN : Start(s, to, auto))
             /\ ~(Joined(s) \/ Seal(s) \/ MarkJournal(s) \/ PublishTransition(s)
                  \/ MarkRollback(s) \/ RolledBack(s))
    <3>1. Fenced(s)
      BY <1>1, <2>3, LocalMovesAreFenced DEF Switcher, Advance
    <3> QED
      BY <3>1, FencedKeeps
  <2> QED
    BY <2>1, <2>2, <2>3
<1>2. ASSUME NEW p \in Participants, Participant(p)
      PROVE  Fence'
  <2>1. UNCHANGED <<gate, pc, dead, token>>
    BY <1>2 DEF Participant, StartParticipant, PrepareOverlay, JoinLedger, BeginWork,
         EndWork, SpawnFamily, StopFamily, FinishStop, Close, Die, switcherVars, ledgerVars
  <2> QED
    BY <2>1 DEF Fence, OwnToken, SingleOwner, Owns, Owned
<1>3. CASE Configure \/ UNCHANGED vars
  <2>1. UNCHANGED <<gate, pc, dead, token>>
    BY <1>3 DEF Configure, switcherVars, vars
  <2> QED
    BY <2>1 DEF Fence, OwnToken, SingleOwner, Owns, Owned
<1> QED
  BY <1>1, <1>2, <1>3 DEF Next

\* At most one live process is between freeze, or adoption, and open, and it is
\* the owner the gate names: whoever was adopted from is dead.
THEOREM OwnerIsSingle == Spec => []SingleOwner
<1>1. Init => Fence
  BY DEF Init, Fence, OwnToken, SingleOwner, NoToken, OwnerPcs
<1>2. TypeInv /\ Fence /\ [Next]_vars => Fence'
  BY FenceStep
<1>3. Fence => SingleOwner
  BY DEF Fence
<1> QED
  BY <1>1, <1>2, <1>3, TypeInvariant, PTL DEF Spec

-----------------------------------------------------------------------------
(* Leases. *)

\* Steps under which no lease is admitted and no lease's generation passes.
Leasing ==
    /\ work' \subseteq work /\ families' \subseteq families
    /\ gate'.generation # gate.generation => work' = {} /\ families' = {}

LEMMA LeasingKeeps == LeasesAreCurrent /\ Leasing => LeasesAreCurrent'
BY DEF LeasesAreCurrent, Leasing

\* Rows that are released or retired.
LEMMA FewerRows ==
    ASSUME NEW ps, Retire(ps)
    PROVE  work' \subseteq work /\ families' \subseteq families
BY DEF Retire, RowsOf

LEMMA SwitchersOnlyRelease ==
    ASSUME TypeInv, NEW s \in Switchers, Switcher(s)
    PROVE  Leasing
<1> gate \in Gate /\ registry \in Registry
  BY DEF TypeInv, LedgerInv, LedgerTypeOK
<1>1. CASE QuietSwitcher(s)
  <2>1. UNCHANGED ledgerVars
    BY <1>1, QuietSteps
  <2> QED
    BY <2>1 DEF Leasing, ledgerVars
<1>2. CASE Drain(s) \/ Joined(s) \/ RetireForRecovery(s)
  <2>1. Retire(Exited)
    BY <1>2 DEF Drain, Joined, RetireForRecovery
  <2>2. gate'.generation = gate.generation
    BY <1>2 DEF Drain, Joined, RetireForRecovery, SetPhase, Gate
  <2> QED
    BY <2>1, <2>2, FewerRows DEF Leasing
<1>3. CASE FreezeStep(s) \/ CatchCancels(s) \/ Seal(s) \/ MarkJournal(s) \/ AdoptOwner(s)
           \/ MarkRollback(s) \/ RolledBack(s)
  BY <1>3 DEF Leasing, FreezeStep, Freeze, CatchCancels, CancelDrain, Seal, MarkJournal,
       AdoptOwner, Adopt, MarkRollback, RolledBack, SetPhase, Gate
<1>4. CASE \/ ApplyNext(s) \/ UndoNext(s)
           \/ \E p \in Participants : Restart(s, p) \/ RestartFails(s, p)
  BY <1>4 DEF Leasing, ApplyNext, UndoNext, Restart, RestartFails, ledgerVars
<1>5. CASE PublishTransition(s) \/ OpenGate(s)
  BY <1>5 DEF Leasing, PublishTransition, Publish, CanPublish, OpenGate, Open, CanOpen, NoUsers
<1> QED
  BY <1>1, <1>2, <1>3, <1>4, <1>5 DEF Switcher, Advance, QuietSwitcher

\* A lease is admitted at the generation of an open gate.
LEMMA ParticipantsLeaseNow ==
    ASSUME LeasesAreCurrent, NEW p \in Participants, Participant(p)
    PROVE  LeasesAreCurrent'
<1>1. CASE BeginWork(p) \/ SpawnFamily(p)
  BY <1>1 DEF BeginWork, Begin, CanBegin, SpawnFamily, ReserveFamily, LeasesAreCurrent
<1>2. CASE Close(p)
  <2>1. Leasing
    BY <1>2, FewerRows DEF Close, Leasing
  <2> QED
    BY <2>1, LeasingKeeps
<1>3. CASE ~(BeginWork(p) \/ SpawnFamily(p) \/ Close(p))
  <2>1. Leasing
    BY <1>3 DEF Participant, StartParticipant, PrepareOverlay, JoinLedger, EndWork,
         StopFamily, FinishStop, ReleaseFamilies, Die, RowsOf, Leasing, ledgerVars
  <2> QED
    BY <2>1, LeasingKeeps
<1> QED
  BY <1>1, <1>2, <1>3

\* No turn and no native process survives a switch: every lease is held at the
\* current generation, for any number of participants and switches.
THEOREM LeasesStayCurrent == Spec => []LeasesAreCurrent
<1>1. Init => LeasesAreCurrent
  BY DEF Init, LeasesAreCurrent
<1>2. TypeInv /\ LeasesAreCurrent /\ [Next]_vars => LeasesAreCurrent'
  <2> SUFFICES ASSUME TypeInv, LeasesAreCurrent, [Next]_vars PROVE LeasesAreCurrent'
    OBVIOUS
  <2>1. CASE \E s \in Switchers : Switcher(s)
    BY <2>1, SwitchersOnlyRelease, LeasingKeeps
  <2>2. CASE \E p \in Participants : Participant(p)
    BY <2>2, ParticipantsLeaseNow
  <2>3. CASE Configure \/ UNCHANGED vars
    BY <2>3 DEF Configure, vars, LeasesAreCurrent
  <2> QED
    BY <2>1, <2>2, <2>3 DEF Next
<1> QED
  BY <1>1, <1>2, TypeInvariant, PTL DEF Spec

-----------------------------------------------------------------------------
(* The step that switches. *)

SwitchStep ==
    /\ registry'.active # registry.active => registry'.generation # registry.generation
    /\ registry'.generation # registry.generation =>
          /\ registry'.generation = registry.generation + 1
          /\ registry'.active = gate.intent.to
          /\ NoUsers /\ NoUsers'

\* Nothing but publish and the editing of other fields writes the registry row.
LEMMA RegistryWriters ==
    ASSUME [Next]_vars, registry' # registry
    PROVE  Configure \/ \E s \in Switchers : PublishTransition(s)
<1>1. ASSUME NEW s \in Switchers, Switcher(s), ~PublishTransition(s)
      PROVE  registry' = registry
  <2>1. CASE QuietSwitcher(s)
    BY <2>1, QuietSteps DEF ledgerVars
  <2>2. CASE ~QuietSwitcher(s)
    BY <1>1, <2>2 DEF Switcher, Advance, QuietSwitcher, FreezeStep, Drain, Joined, Seal,
         MarkJournal, ApplyNext, OpenGate, Restart, RestartFails, CatchCancels, AdoptOwner,
         RetireForRecovery, MarkRollback, UndoNext, RolledBack, ledgerVars
  <2> QED
    BY <2>1, <2>2
<1>2. ASSUME NEW p \in Participants, Participant(p)
      PROVE  registry' = registry
  BY <1>2 DEF Participant, StartParticipant, PrepareOverlay, JoinLedger, BeginWork,
       EndWork, SpawnFamily, StopFamily, FinishStop, Close, Die, ledgerVars
<1>3. CASE UNCHANGED vars
  BY <1>3 DEF vars
<1> QED
  BY <1>1, <1>2, <1>3 DEF Next

\* The account and the generation of the registry change in one step, to what
\* the switch intended, while no lease is held.
THEOREM SwitchingIsAtomic == Spec => SwitchIsAtomic
<1>1. TypeInv /\ [Next]_vars => [SwitchStep]_registry
  <2> SUFFICES ASSUME TypeInv, [Next]_vars, registry' # registry PROVE SwitchStep
    OBVIOUS
  <2>1. registry \in Registry
    BY DEF TypeInv, LedgerInv, LedgerTypeOK
  <2>2. CASE Configure
    BY <2>1, <2>2 DEF Configure, SetRotation, ObserveLogin, EditRegistry, Registry, SwitchStep
  <2>3. ASSUME NEW s \in Switchers, PublishTransition(s)
        PROVE  SwitchStep
    BY <2>1, <2>3 DEF PublishTransition, Publish, CanPublish, Registry, SwitchStep, NoUsers
  <2> QED
    BY <2>2, <2>3, RegistryWriters
<1>2. [][SwitchStep]_registry => SwitchIsAtomic
  BY PTL DEF SwitchIsAtomic, SwitchStep
<1> QED
  BY <1>1, <1>2, TypeInvariant, PTL DEF Spec
=============================================================================
