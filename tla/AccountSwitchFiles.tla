------------------------- MODULE AccountSwitchFiles -------------------------
(***************************************************************************)
(* The credential files through a switch and its recoveries, for any       *)
(* number of switchers, participants, accounts, crashes and faults: where  *)
(* every credential is at each phase of the gate and each entry of the     *)
(* journal.  From that follow what an open gate shows, what a native       *)
(* process reads, that no credential is lost, that recovery's checks pass, *)
(* that the journaled switch implements the atomic one, and that nothing   *)
(* but a crash or a fault stops it once it is sealed.                      *)
(***************************************************************************)
EXTENDS AccountSwitchProofs

-----------------------------------------------------------------------------
(* The inductive invariant, in parts. *)

\* The overlay after n operations of j.  Without a link, a starting participant
\* whose registry reading named Home may have made one (prepareOverlay).
AtStage(j, n) ==
    \/ n = 0 /\ files[Overlay] = Presented(j.from)
    \/ /\ n = 1 /\ j.from # j.to
       /\ \/ files[Overlay] = Absent
          \/ files[Overlay] = HomeLink /\ Starters # {}
    \/ n = 2 /\ j.from # j.to /\ files[Overlay] = Presented(j.to)

\* An operation is done before it is recorded as done, or as undone.
UnderWay(j) ==
    IF j.phase = "rollback" THEN AtStage(j, j.back) \/ AtStage(j, j.back - 1)
                            ELSE AtStage(j, j.next) \/ AtStage(j, j.next + 1)

Moving == {"journal", "rolling-back"}

\* The gate's row and the registry's agree, and only publish changes them.
Agreed ==
    /\ gate.active = registry.active /\ gate.generation = registry.generation
    /\ gate.phase # "open" =>
          registry.active = IF gate.phase = "cleanup-commit" THEN gate.intent.to
                                                             ELSE gate.intent.from

Emptied ==
    /\ gate.phase \notin {"open", "draining"} => NoUsers
    /\ \A f \in families : f.account = registry.active

Kept == InPlace(files) /\ registry.ready \subseteq Held(files)

SealedOk(seal) ==
    /\ seal # None
    /\ seal.inv \in Files /\ InPlace(seal.inv) /\ Held(seal.inv) = Held(files)
    /\ seal.inv[Overlay] = Presented(gate.intent.from)
    /\ seal.ops = MovePlan(gate.intent.from, gate.intent.to)
    /\ gate.intent.to # Home => gate.intent.to \in Held(files)

Sealing == IF gate.phase \in {"open", "draining", "stopped"}
           THEN gate.sealed = None /\ journal = None
           ELSE SealedOk(gate.sealed)

\* j is of the transition that the gate and the registry are in.
OfTransition(j) ==
    /\ j.from = gate.intent.from /\ j.to = gate.intent.to
    /\ gate.sealed = [inv |-> j.inv, ops |-> j.ops]
    /\ registry.generation = IF gate.phase = "cleanup-commit" THEN j.generation + 1
                                                              ELSE j.generation

InPhase(j) ==
    /\ gate.phase = "sealed" => IF j.phase = "rollback" THEN j.back \in {0, 1}
                                                        ELSE j.phase = "forward" /\ j.next = 0
    /\ gate.phase = "journal" => j.phase \in {"forward", "rollback"}
    /\ gate.phase = "rolling-back" => j.phase = "rollback"
    /\ gate.phase = "cleanup-commit" => j.phase # "rollback" /\ j.next = Len(j.ops)
    /\ gate.phase = "cleanup-rollback" => j.phase = "rollback" /\ j.back = 0

Journaled ==
    /\ gate.phase \in Moving => journal # None
    /\ journal # None => OfTransition(journal) /\ InPhase(journal)

Placing == IF gate.phase \in Moving THEN UnderWay(journal)
                                    ELSE files[Overlay] = Presented(registry.active)

\* Whoever prepares an overlay was not running at first.
Starting == \A p \in Participants : proc[p] = "preparing" => p \in Starters

Global == Agreed /\ Emptied /\ Kept /\ Sealing /\ Journaled /\ Placing /\ Starting

\* Where a live switcher is, the phase and the journal it holds in memory are
\* those of the ledger and of the file.
HoldPcs == {"begin", "mark", "apply", "record", "commit",
            "rolling", "undo", "unrecord", "verify"}

Holding(s) ==
    /\ pc[s] \in HoldPcs \ {"begin", "verify"} => journal = plan[s]
    /\ pc[s] = "begin" => /\ gate.phase = "sealed" /\ OfTransition(plan[s])
                          /\ plan[s].phase = "forward" /\ plan[s].next = 0
    /\ pc[s] = "mark" => gate.phase = "sealed" /\ plan[s].phase = "forward"
    /\ pc[s] \in {"apply", "record"} => gate.phase = "journal" /\ plan[s].phase = "forward"
    /\ pc[s] = "record" => AtStage(plan[s], plan[s].next + 1)
    /\ pc[s] = "commit" => gate.phase = "cleanup-commit"
    /\ pc[s] \in {"rolling", "undo", "unrecord"} => plan[s].phase = "rollback"
    /\ pc[s] \in {"undo", "unrecord"} => gate.phase = "rolling-back"
    /\ pc[s] = "unrecord" => AtStage(plan[s], plan[s].back - 1)
    /\ pc[s] = "verify" => gate.phase \notin Moving

SwitchInv == Global /\ \A s \in Switchers \ dead : Holding(s)

Inv == TypeInv /\ Fence /\ SwitchInv

-----------------------------------------------------------------------------
(* The initial states. *)

LEMMA InitGlobal == Init => Global
<1> SUFFICES ASSUME Init PROVE Global
  OBVIOUS
<1>0. PICK ready \in SUBSET Accounts : \E active \in ready \cup {Home} :
          /\ registry = [active |-> active, generation |-> 0, revision |-> 0,
                         rotation |-> TRUE, ready |-> ready]
          /\ files = [path \in Paths |->
                CASE path = Canonical -> IF Home \in ready THEN Home ELSE Absent
                  [] path = Overlay -> IF active = Home THEN HomeLink ELSE active
                  [] OTHER -> IF path \in ready \ {active} THEN path ELSE Absent]
  BY DEF Init
<1>1. PICK active \in ready \cup {Home} :
          /\ registry = [active |-> active, generation |-> 0, revision |-> 0,
                         rotation |-> TRUE, ready |-> ready]
          /\ files = [path \in Paths |->
                CASE path = Canonical -> IF Home \in ready THEN Home ELSE Absent
                  [] path = Overlay -> IF active = Home THEN HomeLink ELSE active
                  [] OTHER -> IF path \in ready \ {active} THEN path ELSE Absent]
  BY <1>0
<1>2. registry.active = active /\ registry.generation = 0 /\ registry.ready = ready
  BY <1>1
<1>3. /\ files[Canonical] = IF Home \in ready THEN Home ELSE Absent
      /\ files[Overlay] = Presented(active)
      /\ \A a \in Managed : files[a] = IF a \in ready \ {active} THEN a ELSE Absent
  BY <1>1, PathsAssumption DEF Paths, Presented
<1>4. active \in Accounts
  BY DEF Accounts
<1>5. InPlace(files)
  <2>1. files[Canonical] \in {Home, Absent}
    BY <1>3
  <2>2. files[Overlay] \in Managed \cup {HomeLink, Absent}
    BY <1>3, <1>4, PresentedIsOne
  <2>3. \A a \in Managed : files[a] \in {a, Absent} /\ (files[Overlay] = a => files[a] = Absent)
    BY <1>3, <1>4, ContentsAssumption DEF Presented, Accounts
  <2> QED
    BY <2>1, <2>2, <2>3 DEF InPlace
<1>6. files \in Files
  BY InitTypeInv DEF TypeInv, LedgerInv, LedgerTypeOK
<1>7. ready \subseteq Held(files)
  <2> SUFFICES ASSUME NEW a \in ready PROVE a \in Held(files)
    OBVIOUS
  <2>1. a \in Accounts
    OBVIOUS
  <2>2. IF a = Home THEN files[Canonical] = Home ELSE files[a] = a \/ files[Overlay] = a
    BY <1>3, <2>1 DEF Accounts, Presented
  <2> QED
    BY <1>5, <1>6, <2>1, <2>2, HeldWhere
<1>8. /\ gate.phase = "open" /\ gate.active = registry.active /\ gate.generation = 0
      /\ gate.sealed = None /\ journal = None /\ families = {}
      /\ proc = [p \in Participants |-> IF p \in Starters THEN "off" ELSE "running"]
  BY DEF Init
<1> QED
  BY <1>2, <1>3, <1>5, <1>7, <1>8
     DEF Global, Agreed, Emptied, Kept, Sealing, Journaled, Placing, Starting, Moving

-----------------------------------------------------------------------------
(* Steps that move nothing. *)

\* Nobody else is between the seal and the end of the clean-up.
LEMMA OthersHoldNothing ==
    ASSUME Inv, NEW s \in Switchers, Owns(s) \/ gate.phase = "open"
    PROVE  \A t \in Switchers \ dead : t # s => pc[t] \notin OwnerPcs
BY DEF Inv, Fence, OwnToken, SingleOwner, Owns, Owned

LEMMA HoldPcsOwn == HoldPcs \subseteq OwnerPcs
BY DEF HoldPcs, OwnerPcs

\* A live switcher that holds something is the owner.
LEMMA HolderOwns ==
    ASSUME Inv, NEW s \in Switchers, s \notin dead, pc[s] \in OwnerPcs
    PROVE  Owns(s)
BY DEF Inv, Fence, SingleOwner

\* s moves on with nothing in its hands; leases only go.
Unmoved ==
    /\ UNCHANGED <<registry, journal, files, plan>>
    /\ work' \subseteq work /\ families' \subseteq families
    /\ gate' = [gate EXCEPT !.owner = gate'.owner]
    /\ \A p \in Participants : proc'[p] = "preparing" => proc[p] = "preparing"

LEMMA UnmovedKeeps ==
    ASSUME Inv, Unmoved,
           \A t \in Switchers \ dead' :
              \/ t \notin dead /\ pc'[t] = pc[t]
              \/ pc'[t] \notin HoldPcs
    PROVE  SwitchInv'
<1> gate \in Gate
  BY DEF Inv, TypeInv, LedgerInv, LedgerTypeOK
<1>1. /\ gate'.phase = gate.phase /\ gate'.active = gate.active
      /\ gate'.generation = gate.generation /\ gate'.intent = gate.intent
      /\ gate'.sealed = gate.sealed
      /\ registry' = registry /\ journal' = journal /\ files' = files /\ plan' = plan
  BY DEF Unmoved, Gate
<1>2. Agreed' /\ Kept' /\ Starting'
  BY <1>1 DEF Inv, SwitchInv, Global, Agreed, Kept, Starting, Unmoved
<1>3. Emptied'
  BY <1>1 DEF Inv, SwitchInv, Global, Emptied, Unmoved, NoUsers
<1>4. Sealing' /\ Journaled' /\ Placing'
  BY <1>1 DEF Inv, SwitchInv, Global, Sealing, SealedOk, Journaled, OfTransition, InPhase,
       Placing, UnderWay, AtStage
<1>5. ASSUME NEW t \in Switchers \ dead'
      PROVE  Holding(t)'
  <2>1. CASE t \notin dead /\ pc'[t] = pc[t]
    <3>1. Holding(t)
      BY <2>1 DEF Inv, SwitchInv
    <3> QED
      BY <1>1, <2>1, <3>1 DEF Holding, OfTransition, AtStage
  <2>2. CASE pc'[t] \notin HoldPcs
    BY <2>2 DEF Holding, HoldPcs
  <2> QED
    BY <1>5, <2>1, <2>2
<1> QED
  BY <1>2, <1>3, <1>4, <1>5 DEF SwitchInv, Global

\* s goes on to where nothing is held, or ends.
LettingGo(s) ==
    \/ pc' = pc /\ dead \subseteq dead'
    \/ \E there \in Pcs \ HoldPcs : Goto(s, there) /\ dead \ {s} \subseteq dead'

LEMMA LettingGoKeeps ==
    ASSUME Inv, NEW s \in Switchers, Unmoved, LettingGo(s)
    PROVE  SwitchInv'
<1>1. pc \in [Switchers -> Pcs]
  BY DEF Inv, TypeInv, JournalInv
<1>2. \A t \in Switchers \ dead' :
         \/ t \notin dead /\ pc'[t] = pc[t]
         \/ pc'[t] \notin HoldPcs
  BY <1>1 DEF LettingGo, Goto
<1> QED
  BY <1>2, UnmovedKeeps

LEMMA ThrowLetsGo ==
    ASSUME NEW s \in Switchers, Throw(s), dead' = dead
    PROVE  LettingGo(s)
BY DEF Throw, Goto, LettingGo, Pcs, HoldPcs, OwnerPcs

\* The gate keeps its row, or changes its owner.
LEMMA SameGate ==
    ASSUME Inv
    PROVE  /\ gate' = gate => gate' = [gate EXCEPT !.owner = gate'.owner]
           /\ \A tok : gate' = [gate EXCEPT !.owner = tok]
                         => gate' = [gate EXCEPT !.owner = gate'.owner]
BY DEF Inv, TypeInv, LedgerInv, LedgerTypeOK, Gate

LEMMA UnmovedSteps ==
    ASSUME Inv, NEW s \in Switchers,
           \/ \E to \in Accounts, auto \in BOOLEAN : Start(s, to, auto)
           \/ \E p \in Participants : SendStop(s, p) \/ Restart(s, p) \/ SkipRestart(s, p)
                                       \/ RestartFails(s, p)
           \/ FreezeRefused(s) \/ Drain(s) \/ Abort(s) \/ StopReplied(s) \/ AllStopped(s)
           \/ Joined(s) /\ gate' = gate /\ Throw(s)
           \/ CatchCancels(s) /\ gate' = gate /\ Goto(s, "exit")
           \/ Reconcile(s) \/ GuardStale(s) \/ Restarted(s) \/ CatchRecovers(s)
           \/ StartRecovery(s) \/ AdoptOwner(s) \/ AdoptRefused(s) \/ RetireForRecovery(s)
           \/ Refused(s) \/ Fault(s) \/ Crash(s) \/ Leave(s)
    PROVE  Unmoved /\ LettingGo(s)
<1>0. /\ proc \in [Participants ->
                     {"off", "preparing", "prepared", "running", "stopping", "stopped"}]
      /\ \A there \in {"idle", "freeze", "drain", "stop", "stopping", "joined", "seal", "recover",
                       "restart", "catch", "exit", "adopt", "retire"} : there \in Pcs \ HoldPcs
  BY DEF Inv, TypeInv, LocalInv, Pcs, OwnerPcs, HoldPcs
<1>1. ASSUME NEW p \in Participants,
             SendStop(s, p) \/ Restart(s, p) \/ SkipRestart(s, p) \/ RestartFails(s, p)
      PROVE  Unmoved /\ LettingGo(s)
  <2>1. UNCHANGED <<gate, registry, journal, files, plan, work, families, dead>>
    BY <1>1 DEF SendStop, Restart, SkipRestart, RestartFails, ledgerVars
  <2>2. \A q \in Participants : proc'[q] = "preparing" => proc[q] = "preparing"
    BY <1>0, <1>1 DEF SendStop, Restart, SkipRestart, RestartFails, participantVars
  <2>3. pc' = pc \/ Goto(s, "stopping") \/ Throw(s)
    BY <1>1 DEF SendStop, Restart, SkipRestart, RestartFails
  <2>4. LettingGo(s)
    BY <1>0, <2>1, <2>3, ThrowLetsGo DEF LettingGo
  <2> QED
    BY <2>1, <2>2, <2>4, SameGate DEF Unmoved
<1>2. CASE \/ \E to \in Accounts, auto \in BOOLEAN : Start(s, to, auto)
           \/ FreezeRefused(s) \/ Abort(s) \/ StopReplied(s) \/ AllStopped(s)
           \/ Reconcile(s) \/ GuardStale(s) \/ Restarted(s) \/ CatchRecovers(s)
  <2>1. UNCHANGED <<gate, registry, journal, files, plan, work, families, dead, proc>>
    BY <1>2 DEF Start, FreezeRefused, Abort, StopReplied, AllStopped, Reconcile, GuardStale,
       Restarted, CatchRecovers, ledgerVars, participantVars
  <2>2. Throw(s) \/ \E there \in {"freeze", "idle", "stop", "recover", "joined", "seal", "exit"} :
                       Goto(s, there)
    BY <1>2 DEF Start, FreezeRefused, Abort, StopReplied, AllStopped, Reconcile, GuardStale,
       Restarted, CatchRecovers
  <2>3. LettingGo(s)
    BY <1>0, <2>1, <2>2, ThrowLetsGo DEF LettingGo
  <2> QED
    BY <2>1, <2>3, SameGate DEF Unmoved
<1>3. CASE Drain(s) \/ RetireForRecovery(s) \/ (Joined(s) /\ gate' = gate /\ Throw(s))
  <2>1. work' \subseteq work /\ families' \subseteq families
    BY <1>3, FewerRows DEF Drain, RetireForRecovery, Joined
  <2>2. UNCHANGED <<gate, registry, journal, files, plan, dead, proc>>
    BY <1>3 DEF Drain, RetireForRecovery, Joined, participantVars
  <2>3. pc' = pc \/ Goto(s, "stop") \/ Goto(s, "exit") \/ Throw(s)
    BY <1>3 DEF Drain, RetireForRecovery
  <2>4. LettingGo(s)
    BY <1>0, <2>2, <2>3, ThrowLetsGo DEF LettingGo
  <2> QED
    BY <2>1, <2>2, <2>4, SameGate DEF Unmoved
<1>4. CASE StartRecovery(s) \/ AdoptOwner(s) \/ AdoptRefused(s)
           \/ (CatchCancels(s) /\ gate' = gate /\ Goto(s, "exit"))
  <2>1. UNCHANGED <<registry, journal, files, plan, work, families, proc>>
    BY <1>4 DEF StartRecovery, AdoptOwner, AdoptRefused, CatchCancels, ledgerVars, participantVars
  <2>2. gate' = gate \/ gate' = [gate EXCEPT !.owner = token[s]]
    BY <1>4 DEF StartRecovery, AdoptOwner, Adopt, AdoptRefused, ledgerVars
  <2>3. /\ Goto(s, "adopt") \/ Goto(s, "retire") \/ Goto(s, "idle") \/ Goto(s, "exit")
        /\ dead \ {s} \subseteq dead'
    BY <1>4 DEF StartRecovery, AdoptOwner, AdoptRefused, CatchCancels
  <2>4. LettingGo(s)
    BY <1>0, <2>3 DEF LettingGo
  <2> QED
    BY <2>1, <2>2, <2>4, SameGate DEF Unmoved
<1>5. CASE Refused(s) \/ Fault(s) \/ Crash(s) \/ Leave(s)
  <2>1. UNCHANGED <<gate, registry, journal, files, plan, work, families, proc>>
    BY <1>5 DEF Refused, Fault, Crash, Leave, ledgerVars, participantVars
  <2>2. (Throw(s) /\ dead' = dead) \/ (pc' = pc /\ dead \subseteq dead')
    BY <1>5 DEF Refused, Fault, Crash, Leave
  <2>3. LettingGo(s)
    BY <2>2, ThrowLetsGo DEF LettingGo
  <2> QED
    BY <2>1, <2>3, SameGate DEF Unmoved
<1> QED
  BY <1>1, <1>2, <1>3, <1>4, <1>5

\* A participant's steps, but for the link it may make in the overlay and the
\* leases it takes.
LEMMA ParticipantsUnmoved ==
    ASSUME Inv, NEW p \in Participants,
           JoinLedger(p) \/ EndWork(p) \/ StopFamily(p) \/ FinishStop(p) \/ Close(p) \/ Die(p)
    PROVE  SwitchInv'
<1>1. work' \subseteq work /\ families' \subseteq families
  BY FewerRows DEF JoinLedger, EndWork, StopFamily, FinishStop, ReleaseFamilies, Close, Die,
     ledgerVars
<1>2. UNCHANGED <<gate, registry, journal, files, plan, pc, dead>>
  BY DEF JoinLedger, EndWork, StopFamily, FinishStop, Close, Die, ledgerVars, switcherVars
<1>3. \A q \in Participants : proc'[q] = "preparing" => proc[q] = "preparing"
  <2>1. proc \in [Participants ->
                    {"off", "preparing", "prepared", "running", "stopping", "stopped"}]
    BY DEF Inv, TypeInv, LocalInv
  <2>2. proc' = proc \/ \E there \in {"off", "running", "stopped"} : proc' = [proc EXCEPT ![p] = there]
    BY DEF JoinLedger, EndWork, StopFamily, FinishStop, Close, Die, participantVars
  <2> QED
    BY <2>1, <2>2
<1>4. Unmoved
  BY <1>1, <1>2, <1>3, SameGate DEF Unmoved
<1> QED
  BY <1>2, <1>4, UnmovedKeeps

\* A lease is taken while admission is open, of the active account.
LEMMA LeasingKeepsFiles ==
    ASSUME Inv, NEW p \in Participants, BeginWork(p) \/ SpawnFamily(p) \/ StartParticipant(p)
    PROVE  SwitchInv'
<1>1. UNCHANGED <<gate, registry, journal, files, pc, dead, plan>>
  BY DEF BeginWork, SpawnFamily, StartParticipant, ledgerVars, switcherVars
<1>2. gate.phase = "open"
  BY DEF BeginWork, Begin, CanBegin, SpawnFamily, ReserveFamily, CanReserve, StartParticipant,
     Frozen
<1>3. gate.active = registry.active
  BY DEF Inv, SwitchInv, Global, Agreed
<1>4. Emptied'
  BY <1>1, <1>2, <1>3 DEF Inv, SwitchInv, Global, Emptied, NoUsers, BeginWork, SpawnFamily,
     ReserveFamily, StartParticipant, ledgerVars
<1>5. Starting'
  BY DEF Inv, SwitchInv, Global, Starting, BeginWork, SpawnFamily, StartParticipant,
     participantVars, TypeInv, LocalInv
<1>6. Agreed' /\ Kept' /\ Sealing' /\ Journaled' /\ Placing'
  BY <1>1 DEF Inv, SwitchInv, Global, Agreed, Kept, Sealing, SealedOk, Journaled, OfTransition,
     InPhase, Placing, UnderWay, AtStage
<1>7. \A t \in Switchers \ dead' : Holding(t)'
  BY <1>1 DEF Inv, SwitchInv, Holding, OfTransition, AtStage
<1> QED
  BY <1>4, <1>5, <1>6, <1>7 DEF SwitchInv, Global

\* `accounts rotate`, and a reading that finds a login: only a credential that
\* exists becomes ready.
LEMMA ConfigureKeepsFiles ==
    ASSUME Inv, Configure
    PROVE  SwitchInv'
<1>1. UNCHANGED <<gate, work, families, journal, files, pc, dead, plan, proc>>
  BY DEF Configure, switcherVars, participantVars
<1>2. registry \in Registry /\ files \in Files
  BY DEF Inv, TypeInv, LedgerInv, LedgerTypeOK
<1>3. registry'.active = registry.active /\ registry'.generation = registry.generation
  BY <1>2 DEF Configure, SetRotation, ObserveLogin, EditRegistry, Registry
<1>4. registry'.ready \subseteq Held(files)
  <2>1. registry.ready \subseteq Held(files)
    BY DEF Inv, SwitchInv, Global, Kept
  <2>2. CASE \E rotation \in BOOLEAN : SetRotation(rotation)
    BY <1>2, <2>1, <2>2 DEF SetRotation, EditRegistry, Registry
  <2>3. ASSUME NEW a \in Accounts, ObserveLogin(a)
        PROVE  registry'.ready \subseteq Held(files)
    <3>1. PICK ready \in {registry.ready \ {a}, registry.ready \cup {a}} :
             /\ a \in ready => \E path \in Paths : files[path] = a
             /\ EditRegistry(registry.rotation, ready)
      BY <2>3 DEF ObserveLogin
    <3>2. a \in ready => a \in Held(files)
      BY <3>1 DEF Held
    <3>3. registry'.ready = ready
      BY <1>2, <3>1 DEF EditRegistry, Registry
    <3> QED
      BY <2>1, <3>2, <3>3
  <2> QED
    BY <2>2, <2>3 DEF Configure
<1>5. Agreed' /\ Emptied' /\ Kept' /\ Sealing' /\ Journaled' /\ Placing' /\ Starting'
  BY <1>1, <1>3, <1>4 DEF Inv, SwitchInv, Global, Agreed, Emptied, NoUsers, Kept, Sealing,
     SealedOk, Journaled, OfTransition, InPhase, Placing, UnderWay, AtStage, Starting
<1>6. \A t \in Switchers \ dead' : Holding(t)'
  BY <1>1, <1>3 DEF Inv, SwitchInv, Holding, OfTransition, AtStage
<1> QED
  BY <1>5, <1>6 DEF SwitchInv, Global

-----------------------------------------------------------------------------
(* The owner's steps. *)

LEMMA OwnerStepKeeps ==
    ASSUME Inv, NEW s \in Switchers, Owns(s) \/ gate.phase = "open",
           NEW there, Goto(s, there), dead' = dead, Global', Holding(s)'
    PROVE  SwitchInv'
<1> SUFFICES ASSUME NEW t \in Switchers \ dead PROVE Holding(t)'
  BY DEF SwitchInv
<1>1. CASE t = s
  BY <1>1
<1>2. CASE t # s
  <2>1. pc[t] \notin HoldPcs
    BY <1>2, OthersHoldNothing, HoldPcsOwn
  <2>2. pc'[t] = pc[t]
    BY <1>2 DEF Goto, Inv, TypeInv, JournalInv
  <2> QED
    BY <2>1, <2>2 DEF Holding, HoldPcs
<1> QED
  BY <1>1, <1>2

\* Where pc is after a step of s.
LEMMA Arrived ==
    ASSUME Inv, NEW s \in Switchers, NEW there, Goto(s, there)
    PROVE  pc'[s] = there
BY DEF Inv, TypeInv, JournalInv, Goto

LEMMA HoldsNothing ==
    ASSUME NEW s, pc'[s] \notin HoldPcs
    PROVE  Holding(s)'
BY DEF Holding, HoldPcs

\* freeze: from an open gate to a draining one of the same account.
LEMMA FreezeKeepsFiles ==
    ASSUME Inv, NEW s \in Switchers, FreezeStep(s)
    PROVE  SwitchInv'
<1>1. /\ gate.phase = "open" /\ journal = None
      /\ UNCHANGED <<registry, work, families, journal, files, proc, dead>>
      /\ Goto(s, "drain")
  BY DEF FreezeStep, Freeze, CanFreeze, Frozen, participantVars
<1>2. /\ gate'.phase = "draining" /\ gate'.active = gate.active
      /\ gate'.generation = gate.generation /\ gate'.intent.from = gate.active
      /\ gate'.sealed = None
  BY DEF FreezeStep, Freeze, Inv, TypeInv, LedgerInv, LedgerTypeOK, Gate
<1>3. Global'
  BY <1>1, <1>2 DEF Inv, SwitchInv, Global, Agreed, Emptied, Kept, Sealing, Journaled, Placing,
     Moving, Starting
<1>4. Holding(s)'
  BY <1>1, Arrived, HoldsNothing DEF HoldPcs
<1> QED
  BY <1>1, <1>3, <1>4, OwnerStepKeeps

\* The drain ends: every lease is gone when the phase is stopped.
LEMMA JoinedKeepsFiles ==
    ASSUME Inv, NEW s \in Switchers, Joined(s)
    PROVE  SwitchInv'
<1>1. CASE work' = {} /\ families' = {}
  <2>1. /\ Owns(s) /\ gate.phase = "draining"
        /\ gate' = [gate EXCEPT !.phase = "stopped"]
        /\ Goto(s, "reconcile")
        /\ UNCHANGED <<registry, journal, files, proc, dead>>
    BY <1>1 DEF Joined, SetPhase, Owns, participantVars
  <2>2. /\ gate'.phase = "stopped" /\ gate'.active = gate.active
        /\ gate'.generation = gate.generation /\ gate'.intent = gate.intent
        /\ gate'.sealed = gate.sealed
    BY <2>1 DEF Inv, TypeInv, LedgerInv, LedgerTypeOK, Gate
  <2>3. Global'
    BY <1>1, <2>1, <2>2 DEF Inv, SwitchInv, Global, Agreed, Emptied, NoUsers, Kept, Sealing,
       Journaled, Placing, Moving, Starting
  <2>4. Holding(s)'
    BY <2>1, Arrived, HoldsNothing DEF HoldPcs
  <2> QED
    BY <2>1, <2>3, <2>4, OwnerStepKeeps
<1>2. CASE ~(work' = {} /\ families' = {})
  <2>1. Throw(s) /\ gate' = gate
    BY <1>2 DEF Joined
  <2> QED
    BY <2>1, UnmovedSteps, LettingGoKeeps
<1> QED
  BY <1>1, <1>2

\* No phase that opens, by cancelling the drain or at the end, is one in which
\* files are being moved.
LEMMA OpeningKeepsFiles ==
    ASSUME Inv, NEW s \in Switchers, OpenGate(s) \/ CatchCancels(s)
    PROVE  SwitchInv'
<1>1. CASE CatchCancels(s) /\ ~CanCancelDrain(token[s])
  <2>1. gate' = gate /\ Goto(s, "exit")
    BY <1>1 DEF CatchCancels
  <2> QED
    BY <1>1, <2>1, UnmovedSteps, LettingGoKeeps
<1>2. CASE ~(CatchCancels(s) /\ ~CanCancelDrain(token[s]))
  <2>1. /\ Owns(s) /\ journal = None
        /\ UNCHANGED <<registry, work, families, journal, files, proc, dead>>
        /\ Goto(s, "restart")
    BY <1>2 DEF OpenGate, Open, CanOpen, CatchCancels, CanCancelDrain, Owns, participantVars
  <2>2. gate.phase \notin Moving
    BY <2>1 DEF Inv, SwitchInv, Global, Journaled
  <2>3. /\ gate'.phase = "open" /\ gate'.active = registry.active
        /\ gate'.generation = registry.generation /\ gate'.sealed = None
    <3>1. CASE OpenGate(s)
      BY <3>1 DEF OpenGate, Open
    <3>2. CASE CatchCancels(s) /\ CanCancelDrain(token[s])
      <4>1. gate.phase = "draining" /\ gate' = [gate EXCEPT !.phase = "open", !.owner = None, !.intent = None]
        BY <3>2 DEF CatchCancels, CancelDrain
      <4>2. gate.sealed = None
        BY <4>1 DEF Inv, SwitchInv, Global, Sealing
      <4> QED
        BY <4>1, <4>2 DEF Inv, TypeInv, LedgerInv, LedgerTypeOK, Gate, SwitchInv, Global, Agreed
    <3> QED
      BY <1>2, <3>1, <3>2
  <2>4. Global'
    BY <2>1, <2>2, <2>3 DEF Inv, SwitchInv, Global, Agreed, Emptied, Kept, Sealing,
       Journaled, Placing, Moving, Starting
  <2>5. Holding(s)'
    BY <2>1, Arrived, HoldsNothing DEF HoldPcs
  <2> QED
    BY <2>1, <2>4, <2>5, OwnerStepKeeps
<1> QED
  BY <1>1, <1>2

-----------------------------------------------------------------------------
(* The journaled move and its rollback. *)

AfterSeal == {"sealed", "journal", "rolling-back", "cleanup-commit", "cleanup-rollback"}

\* The operations of a transition's journal.
Shaped(j) ==
    /\ j.from \in Accounts /\ j.to \in Accounts
    /\ j.inv \in Files /\ InPlace(j.inv) /\ Held(j.inv) = Held(files)
    /\ j.inv[Overlay] = Presented(j.from)
    /\ j.to # Home => j.to \in Held(files)
    /\ j.ops = MovePlan(j.from, j.to)
    /\ j.from = j.to => Len(j.ops) = 0
    /\ j.from # j.to => Len(j.ops) = 2 /\ j.ops[1] = Outgoing(j.from) /\ j.ops[2] = Incoming(j.to)
    /\ j.next \in 0 .. 2 /\ j.back \in 0 .. 2 /\ j.next <= Len(j.ops) /\ j.back <= Len(j.ops)

LEMMA JournalShape ==
    ASSUME Inv, NEW j \in SwitchJournal, OfTransition(j), gate.phase \in AfterSeal
    PROVE  Shaped(j)
<1>1. SealedOk(gate.sealed)
  BY DEF Inv, SwitchInv, Global, Sealing, AfterSeal
<1>2. /\ j.from = gate.intent.from /\ j.to = gate.intent.to
      /\ j.inv = gate.sealed.inv /\ j.ops = gate.sealed.ops
  BY DEF OfTransition
<1>3. /\ j.from \in Accounts /\ j.to \in Accounts /\ j.inv \in Files
      /\ j.next \in 0 .. 2 /\ j.back \in 0 .. 2 /\ j.next <= Len(j.ops) /\ j.back <= Len(j.ops)
  BY DEF SwitchJournal
<1>4. j.ops = MovePlan(j.from, j.to)
  BY <1>1, <1>2 DEF SealedOk
<1>5. j.from = j.to => Len(j.ops) = 0
  BY <1>4 DEF MovePlan
<1>6. j.from # j.to => Len(j.ops) = 2 /\ j.ops[1] = Outgoing(j.from) /\ j.ops[2] = Incoming(j.to)
  BY <1>4 DEF MovePlan
<1> QED
  BY <1>1, <1>2, <1>3, <1>4, <1>5, <1>6 DEF Shaped, SealedOk

\* The journal file, while there is one.
LEMMA JournalFile ==
    ASSUME Inv, journal # None
    PROVE  /\ journal \in SwitchJournal /\ OfTransition(journal) /\ InPhase(journal)
           /\ gate.phase \in AfterSeal /\ Shaped(journal)
<1>1. journal \in SwitchJournal /\ OfTransition(journal) /\ InPhase(journal)
  BY DEF Inv, TypeInv, JournalInv, SwitchInv, Global, Journaled
<1>2. gate.phase \in AfterSeal
  BY DEF Inv, TypeInv, LedgerInv, LedgerTypeOK, Gate, Phases, SwitchInv, Global, Sealing, AfterSeal
<1> QED
  BY <1>1, <1>2, JournalShape

\* A step that leaves the gate's phase, the registry and the files alone.
LEMMA SameLedgerKeeps ==
    ASSUME Inv, UNCHANGED <<gate, registry, work, families, files, proc>>, Journaled', Placing',
           gate.phase \in AfterSeal
    PROVE  Global'
BY DEF Inv, SwitchInv, Global, Agreed, Emptied, NoUsers, Kept, Sealing, SealedOk, Starting, AfterSeal

\* seal: the plan is of the registry's account and the gate's target.
LEMMA SealKeepsFiles ==
    ASSUME Inv, NEW s \in Switchers, Seal(s)
    PROVE  SwitchInv'
<1> DEFINE ops == Plan(files, registry.active, gate.intent.to)
           j == [transaction |-> token[s].transaction, from |-> gate.active,
                 to |-> gate.intent.to, generation |-> gate.generation,
                 revision |-> registry.revision, phase |-> "forward", ops |-> ops,
                 next |-> 0, back |-> 0, inv |-> files]
<1>1. /\ Owns(s) /\ gate.phase = "stopped" /\ NoUsers
      /\ CanPlan(files, registry.active, registry.ready, gate.intent.to)
      /\ plan' = [plan EXCEPT ![s] = j]
      /\ gate' = [gate EXCEPT !.phase = "sealed", !.sealed = [inv |-> files, ops |-> ops]]
      /\ Goto(s, "begin")
      /\ UNCHANGED <<registry, work, families, journal, files, proc, dead>>
  BY DEF Seal, CanSeal, participantVars
<1>2. /\ gate.active = registry.active /\ gate.generation = registry.generation
      /\ registry.active = gate.intent.from /\ journal = None
      /\ InPlace(files) /\ files[Overlay] = Presented(registry.active)
  BY <1>1 DEF Inv, SwitchInv, Global, Agreed, Sealing, Kept, Placing, Moving
<1>3. /\ gate.intent.from \in Accounts /\ gate.intent.to \in Accounts
      /\ files \in Files /\ gate \in Gate
  BY <1>1 DEF Inv, TypeInv, LedgerInv, LedgerTypeOK, Intent
<1>4. /\ ops = MovePlan(gate.intent.from, gate.intent.to)
      /\ gate.intent.to # Home => gate.intent.to \in Held(files)
      /\ ops \in Operations
  BY <1>1, <1>2, <1>3, PlanIsMovePlan, PlanType
<1> HIDE DEF ops
<1>5. /\ gate'.phase = "sealed" /\ gate'.active = gate.active
      /\ gate'.generation = gate.generation /\ gate'.intent = gate.intent
      /\ gate'.sealed = [inv |-> files, ops |-> ops]
      /\ gate'.sealed # None
  BY <1>1, <1>3, <1>4, OwnerAssumption DEF Gate, Sealed
<1>6. Agreed' /\ Emptied' /\ Kept' /\ Starting'
  BY <1>1, <1>2, <1>5 DEF Inv, SwitchInv, Global, Agreed, Emptied, NoUsers, Kept, Starting
<1>7. Sealing' /\ Journaled' /\ Placing'
  BY <1>1, <1>2, <1>3, <1>4, <1>5 DEF Sealing, SealedOk, Journaled, Placing, Moving
<1>8. Holding(s)'
  <2>1. plan'[s] = j /\ pc'[s] = "begin"
    BY <1>1, Arrived DEF Inv, TypeInv, JournalInv
  <2> QED
    BY <1>1, <1>2, <1>5, <2>1 DEF Holding, HoldPcs, OfTransition
<1> QED
  BY <1>1, <1>6, <1>7, <1>8, OwnerStepKeeps DEF Global

\* The journal in the hands of the switcher that writes it.
LEMMA JournalInHand ==
    ASSUME Inv, NEW s \in Switchers, NEW here \in HoldPcs \ {"begin", "verify"}, At(s, here)
    PROVE  /\ journal = plan[s] /\ journal # None /\ journal \in SwitchJournal
           /\ Owns(s) /\ s \notin dead /\ pc[s] = here
<1>1. s \in Switchers \ dead /\ pc[s] = here /\ pc[s] \in OwnerPcs
  BY HoldPcsOwn DEF At
<1>2. Holding(s)
  BY <1>1 DEF Inv, SwitchInv
<1>3. plan[s] \in SwitchJournal
  BY <1>1 DEF HoldPcs, PlanPcs, Inv, TypeInv, JournalInv
<1>4. Owns(s)
  BY <1>1, HolderOwns
<1> QED
  BY <1>1, <1>2, <1>3, <1>4, JournalAssumption DEF Holding

\* What is written is held in memory too.
LEMMA Written ==
    ASSUME Inv, NEW s \in Switchers, NEW j, Write(s, j)
    PROVE  Owns(s) /\ journal' = j /\ plan'[s] = j
BY DEF Write, Owns, Inv, TypeInv, JournalInv

LEMMA BeginKeepsFiles ==
    ASSUME Inv, NEW s \in Switchers, BeginJournal(s)
    PROVE  SwitchInv'
<1>1. /\ s \notin dead /\ pc[s] = "begin" /\ Write(s, plan[s]) /\ Goto(s, "mark")
      /\ UNCHANGED <<gate, registry, work, families, files, proc, dead>>
  BY DEF BeginJournal, At, ledgerVars, participantVars
<1>2. Owns(s) /\ journal' = plan[s] /\ plan'[s] = plan[s] /\ pc'[s] = "mark"
  BY <1>1, Written, Arrived
<1>3. /\ gate.phase = "sealed" /\ OfTransition(plan[s])
      /\ plan[s].phase = "forward" /\ plan[s].next = 0
  BY <1>1 DEF Inv, SwitchInv, Holding
<1>4. Journaled'
  BY <1>1, <1>2, <1>3 DEF Journaled, Moving, OfTransition, InPhase
<1>5. Placing'
  BY <1>1, <1>3 DEF Inv, SwitchInv, Global, Placing, Moving
<1>6. Global'
  BY <1>1, <1>3, <1>4, <1>5, SameLedgerKeeps DEF AfterSeal
<1>7. Holding(s)'
  BY <1>1, <1>2, <1>3 DEF Holding, HoldPcs
<1> QED
  BY <1>1, <1>2, <1>6, <1>7, OwnerStepKeeps

\* A mark on the gate's row.
LEMMA MarkedGate ==
    ASSUME Inv, NEW tok, NEW expected, NEW next, SetPhase(tok, expected, next)
    PROVE  /\ gate.phase = expected /\ gate'.phase = next
           /\ gate'.active = gate.active /\ gate'.generation = gate.generation
           /\ gate'.intent = gate.intent /\ gate'.sealed = gate.sealed
BY DEF SetPhase, Inv, TypeInv, LedgerInv, LedgerTypeOK, Gate

\* Marks between the seal and the clean-up of a rollback.
LEMMA MarkKeeps ==
    ASSUME Inv, UNCHANGED <<registry, work, families, files, proc, journal>>,
           gate.phase \in AfterSeal \ {"cleanup-commit"},
           gate'.phase \in AfterSeal \ {"cleanup-commit"},
           gate'.active = gate.active, gate'.generation = gate.generation,
           gate'.intent = gate.intent, gate'.sealed = gate.sealed,
           journal # None, InPhase(journal)', Placing'
    PROVE  Global'
<1>1. Agreed' /\ Emptied' /\ Kept' /\ Starting'
  BY DEF Inv, SwitchInv, Global, Agreed, Emptied, NoUsers, Kept, Starting, AfterSeal
<1>2. Sealing'
  BY DEF Inv, SwitchInv, Global, Sealing, SealedOk, AfterSeal
<1>3. OfTransition(journal)'
  BY JournalFile DEF OfTransition
<1> QED
  BY <1>1, <1>2, <1>3 DEF Global, Journaled

LEMMA MarkJournalKeepsFiles ==
    ASSUME Inv, NEW s \in Switchers, MarkJournal(s)
    PROVE  SwitchInv'
<1>1. /\ At(s, "mark") /\ SetPhase(token[s], "sealed", "journal") /\ Goto(s, "apply")
      /\ UNCHANGED <<registry, work, families, journal, files, proc, dead, plan>>
  BY DEF MarkJournal, participantVars
<1>2. /\ gate.phase = "sealed" /\ gate'.phase = "journal"
      /\ gate'.active = gate.active /\ gate'.generation = gate.generation
      /\ gate'.intent = gate.intent /\ gate'.sealed = gate.sealed
  BY <1>1, MarkedGate
<1>3. journal = plan[s] /\ journal # None /\ Owns(s) /\ s \notin dead /\ pc[s] = "mark"
  BY <1>1, JournalInHand DEF HoldPcs
<1>4. plan[s].phase = "forward" /\ pc'[s] = "apply"
  BY <1>1, <1>3, Arrived DEF Inv, SwitchInv, Holding
<1>5. journal.next = 0
  BY <1>2, <1>3, <1>4, JournalFile DEF InPhase
<1>6. InPhase(journal)'
  BY <1>1, <1>2, <1>3, <1>4 DEF InPhase
<1>7. files[Overlay] = Presented(journal.from)
  BY <1>2, <1>3, JournalFile DEF Inv, SwitchInv, Global, Placing, Moving, Agreed, OfTransition
<1>8. Placing'
  BY <1>1, <1>2, <1>3, <1>4, <1>5, <1>7 DEF Placing, Moving, UnderWay, AtStage
<1>9. Global'
  BY <1>1, <1>2, <1>3, <1>6, <1>8, MarkKeeps DEF AfterSeal
<1>10. Holding(s)'
  BY <1>1, <1>2, <1>3, <1>4 DEF Holding, HoldPcs
<1> QED
  BY <1>1, <1>3, <1>9, <1>10, OwnerStepKeeps

\* A step that moves files, in a phase that does.
LEMMA MoveKeeps ==
    ASSUME Inv, UNCHANGED <<gate, registry, work, families, journal>>,
           NEW overlay, Rearranged(files, files', overlay),
           gate.phase \in Moving, Placing', Starting'
    PROVE  Global'
<1>1. InPlace(files)' /\ Held(files)' = Held(files)
  BY DEF Rearranged, InPlace, Held
<1>2. Agreed' /\ Emptied' /\ Kept'
  BY <1>1 DEF Inv, SwitchInv, Global, Agreed, Emptied, NoUsers, Kept
<1>3. Sealing'
  BY <1>1 DEF Inv, SwitchInv, Global, Sealing, SealedOk, Moving
<1>4. Journaled'
  BY DEF Inv, SwitchInv, Global, Journaled, OfTransition, InPhase
<1> QED
  BY <1>2, <1>3, <1>4 DEF Global

\* applyJournal does the next operation.
LEMMA ApplyNextMoves ==
    ASSUME Inv, NEW s \in Switchers, ApplyNext(s)
    PROVE  /\ Rearranged(files, files', files'[Overlay])
           /\ AtStage(journal, journal.next + 1)'
           /\ gate.phase \in Moving /\ NoUsers /\ journal = plan[s] /\ Owns(s)
<1> DEFINE op == plan[s].ops[plan[s].next + 1]
<1>1. /\ At(s, "apply") /\ plan[s].next < Len(plan[s].ops) /\ CanApply(files, op)
      /\ gate.phase = "journal" /\ files' = Applied(files, op) /\ journal' = journal
  BY DEF ApplyNext, CanApplyNext
<1>2. journal = plan[s] /\ journal # None /\ Owns(s)
  BY <1>1, JournalInHand DEF HoldPcs
<1>3. Shaped(journal)
  BY <1>2, JournalFile
<1>4. journal.from # journal.to /\ journal.next \in {0, 1} /\ journal.from \in Accounts /\ journal.to \in Accounts
  BY <1>1, <1>2, <1>3 DEF Shaped
<1>5. files \in Files /\ InPlace(files) /\ gate.phase \in Moving /\ NoUsers
  BY <1>1 DEF Inv, TypeInv, LedgerInv, LedgerTypeOK, SwitchInv, Global, Kept, Emptied, Moving
<1>6. CASE journal.next = 0
  <2>1. op = Outgoing(journal.from)
    BY <1>2, <1>3, <1>4, <1>6 DEF Shaped
  <2>2. Rearranged(files, files', Absent)
    BY <1>1, <1>4, <1>5, <2>1, OutgoingApplied
  <2>3. files'[Overlay] = Absent /\ Rearranged(files, files', files'[Overlay])
    BY <2>2 DEF Rearranged
  <2>4. journal' = journal /\ journal.next + 1 = 1
    BY <1>1, <1>6
  <2>5. AtStage(journal, journal.next + 1)'
    BY <1>4, <2>3, <2>4 DEF AtStage
  <2> QED
    BY <1>2, <1>5, <2>3, <2>5
<1>7. CASE journal.next = 1
  <2>1. op = Incoming(journal.to)
    BY <1>2, <1>3, <1>4, <1>7 DEF Shaped
  <2>2. Rearranged(files, files', Presented(journal.to))
    BY <1>1, <1>4, <1>5, <2>1, IncomingApplied
  <2>3. files'[Overlay] = Presented(journal.to) /\ Rearranged(files, files', files'[Overlay])
    BY <2>2 DEF Rearranged
  <2>4. journal' = journal /\ journal.next + 1 = 2
    BY <1>1, <1>7
  <2>5. AtStage(journal, journal.next + 1)'
    BY <1>4, <2>3, <2>4 DEF AtStage
  <2> QED
    BY <1>2, <1>5, <2>3, <2>5
<1> QED
  BY <1>4, <1>6, <1>7

LEMMA ApplyNextKeepsFiles ==
    ASSUME Inv, NEW s \in Switchers, ApplyNext(s)
    PROVE  SwitchInv'
<1>1. /\ At(s, "apply") /\ Goto(s, "record")
      /\ UNCHANGED <<gate, registry, work, families, journal, proc, dead, plan>>
  BY DEF ApplyNext, ledgerVars, participantVars
<1>2. /\ Rearranged(files, files', files'[Overlay])
      /\ AtStage(journal, journal.next + 1)'
      /\ gate.phase \in Moving /\ journal = plan[s] /\ Owns(s)
  BY ApplyNextMoves
<1>3. journal # None /\ s \notin dead /\ pc[s] = "apply" /\ pc'[s] = "record"
  BY <1>1, JournalInHand, Arrived DEF HoldPcs
<1>4. gate.phase = "journal" /\ journal.phase = "forward"
  BY <1>2, <1>3 DEF Inv, SwitchInv, Holding
<1>5. Placing'
  BY <1>1, <1>2, <1>4 DEF Placing, UnderWay
<1>6. Starting'
  BY <1>1 DEF Inv, SwitchInv, Global, Starting
<1>7. Global'
  BY <1>1, <1>2, <1>5, <1>6, MoveKeeps
<1>8. Holding(s)'
  <2>1. AtStage(plan[s], plan[s].next + 1)'
    BY <1>1, <1>2 DEF AtStage
  <2> QED
    BY <1>1, <1>2, <1>3, <1>4, <2>1 DEF Holding, HoldPcs
<1> QED
  BY <1>1, <1>2, <1>7, <1>8, OwnerStepKeeps

LEMMA RecordNextKeepsFiles ==
    ASSUME Inv, NEW s \in Switchers, RecordNext(s), JournalInv'
    PROVE  SwitchInv'
<1> DEFINE j == [plan[s] EXCEPT !.next = @ + 1]
<1>1. /\ At(s, "record") /\ Write(s, j) /\ Goto(s, "apply")
      /\ UNCHANGED <<gate, registry, work, families, files, proc, dead>>
  BY DEF RecordNext, ledgerVars, participantVars
<1>2. /\ journal = plan[s] /\ journal # None /\ s \notin dead /\ pc[s] = "record"
      /\ plan[s] \in SwitchJournal
  BY <1>1, JournalInHand DEF HoldPcs
<1>3. Owns(s) /\ journal' = j /\ plan'[s] = j /\ pc'[s] = "apply"
  BY <1>1, Written, Arrived
<1>4. /\ gate.phase = "journal" /\ plan[s].phase = "forward"
      /\ AtStage(plan[s], plan[s].next + 1)
  BY <1>2 DEF Inv, SwitchInv, Holding
<1>5. /\ j.phase = "forward" /\ j.next = plan[s].next + 1
      /\ j.from = plan[s].from /\ j.to = plan[s].to /\ j.ops = plan[s].ops
      /\ j.inv = plan[s].inv /\ j.generation = plan[s].generation
  BY <1>2, <1>4 DEF SwitchJournal
<1> HIDE DEF j
<1>6. j # None
  BY <1>3, JournalAssumption DEF JournalInv, PlanPcs
<1>7. Journaled'
  BY <1>1, <1>2, <1>3, <1>4, <1>5, <1>6, JournalFile DEF Journaled, OfTransition, InPhase
<1>8. Placing'
  BY <1>1, <1>3, <1>4, <1>5 DEF Placing, Moving, UnderWay, AtStage
<1>9. Global'
  BY <1>1, <1>4, <1>7, <1>8, SameLedgerKeeps DEF AfterSeal
<1>10. Holding(s)'
  BY <1>1, <1>3, <1>4, <1>5 DEF Holding, HoldPcs
<1> QED
  BY <1>1, <1>3, <1>9, <1>10, OwnerStepKeeps

\* publish: every operation is done, and the overlay presents the target.
LEMMA PublishPresents ==
    ASSUME Inv, NEW s \in Switchers, PublishTransition(s)
    PROVE  /\ files[Overlay] = Presented(journal.to) /\ journal.next = Len(journal.ops)
           /\ journal = plan[s] /\ journal # None /\ journal.phase = "forward"
           /\ Owns(s) /\ gate.phase = "journal" /\ s \notin dead
<1>1. At(s, "apply") /\ plan[s].next = Len(plan[s].ops)
  BY DEF PublishTransition
<1>2. journal = plan[s] /\ journal # None /\ Owns(s) /\ s \notin dead /\ pc[s] = "apply"
  BY <1>1, JournalInHand DEF HoldPcs
<1>3. gate.phase = "journal" /\ journal.phase = "forward"
  BY <1>2 DEF Inv, SwitchInv, Holding
<1>4. Shaped(journal)
  BY <1>2, JournalFile
<1>5. UnderWay(journal)
  BY <1>3 DEF Inv, SwitchInv, Global, Placing, Moving
<1>6. files[Overlay] = Presented(journal.to)
  <2>1. AtStage(journal, journal.next) \/ AtStage(journal, journal.next + 1)
    BY <1>3, <1>5 DEF UnderWay
  <2>2. CASE journal.from = journal.to
    BY <1>1, <1>2, <1>4, <2>1, <2>2 DEF Shaped, AtStage
  <2>3. CASE journal.from # journal.to
    BY <1>1, <1>2, <1>4, <2>1, <2>3 DEF Shaped, AtStage
  <2> QED
    BY <2>2, <2>3
<1> QED
  BY <1>1, <1>2, <1>3, <1>6

LEMMA PublishKeepsFiles ==
    ASSUME Inv, NEW s \in Switchers, PublishTransition(s)
    PROVE  SwitchInv'
<1>1. /\ Goto(s, "commit") /\ NoUsers
      /\ UNCHANGED <<work, families, journal, files, proc, dead, plan>>
  BY DEF PublishTransition, Publish, CanPublish, participantVars
<1>2. /\ files[Overlay] = Presented(journal.to) /\ journal.next = Len(journal.ops)
      /\ journal = plan[s] /\ journal # None /\ journal.phase = "forward"
      /\ Owns(s) /\ gate.phase = "journal" /\ s \notin dead
  BY PublishPresents
<1>3. OfTransition(journal) /\ journal \in SwitchJournal
  BY <1>2, JournalFile
<1>4. /\ registry'.active = gate.intent.to /\ registry'.generation = gate.generation + 1
      /\ registry'.ready = registry.ready
  BY DEF PublishTransition, Publish, Inv, TypeInv, LedgerInv, LedgerTypeOK, Registry
<1>5. /\ gate'.active = gate.intent.to /\ gate'.generation = gate.generation + 1
      /\ gate'.phase = "cleanup-commit" /\ gate'.intent = gate.intent
      /\ gate'.sealed = gate.sealed
  BY DEF PublishTransition, Publish, Inv, TypeInv, LedgerInv, LedgerTypeOK, Gate
<1>6. Agreed' /\ Emptied' /\ Kept' /\ Starting'
  BY <1>1, <1>4, <1>5 DEF Inv, SwitchInv, Global, Agreed, Emptied, NoUsers, Kept, Starting
<1>7. Sealing'
  BY <1>1, <1>2, <1>5 DEF Inv, SwitchInv, Global, Sealing, SealedOk
<1>8. Journaled'
  BY <1>1, <1>2, <1>3, <1>4, <1>5
     DEF Journaled, OfTransition, InPhase, Moving, Inv, SwitchInv, Global, Agreed
<1>9. Placing'
  BY <1>1, <1>2, <1>3, <1>4, <1>5 DEF Placing, Moving, OfTransition
<1>10. Holding(s)'
  <2>1. pc'[s] = "commit"
    BY <1>1, Arrived
  <2> QED
    BY <1>1, <1>2, <1>5, <2>1 DEF Holding, HoldPcs
<1> QED
  BY <1>1, <1>2, <1>6, <1>7, <1>8, <1>9, <1>10, OwnerStepKeeps DEF Global

LEMMA RecordCommitKeepsFiles ==
    ASSUME Inv, NEW s \in Switchers, RecordCommit(s)
    PROVE  SwitchInv'
<1> DEFINE j == [plan[s] EXCEPT !.phase = "committed"]
<1>1. /\ At(s, "commit") /\ Write(s, j) /\ Goto(s, "verify")
      /\ UNCHANGED <<gate, registry, work, families, files, proc, dead>>
  BY DEF RecordCommit, ledgerVars, participantVars
<1>2. /\ journal = plan[s] /\ journal # None /\ s \notin dead /\ pc[s] = "commit"
      /\ plan[s] \in SwitchJournal
  BY <1>1, JournalInHand DEF HoldPcs
<1>3. Owns(s) /\ journal' = j /\ pc'[s] = "verify"
  BY <1>1, Written, Arrived
<1>4. gate.phase = "cleanup-commit"
  BY <1>2 DEF Inv, SwitchInv, Holding
<1>5. /\ j.phase = "committed" /\ j.next = plan[s].next
      /\ j.from = plan[s].from /\ j.to = plan[s].to /\ j.ops = plan[s].ops
      /\ j.inv = plan[s].inv /\ j.generation = plan[s].generation
  BY <1>2 DEF SwitchJournal
<1> HIDE DEF j
<1>6. OfTransition(journal) /\ InPhase(journal)
  BY <1>2, JournalFile
<1>7. Journaled'
  BY <1>1, <1>2, <1>3, <1>4, <1>5, <1>6 DEF Journaled, OfTransition, InPhase, Moving
<1>8. Placing'
  BY <1>1, <1>4 DEF Inv, SwitchInv, Global, Placing, Moving
<1>9. Global'
  BY <1>1, <1>4, <1>7, <1>8, SameLedgerKeeps DEF AfterSeal
<1>10. Holding(s)'
  BY <1>1, <1>3, <1>4 DEF Holding, HoldPcs, Moving
<1> QED
  BY <1>1, <1>3, <1>9, <1>10, OwnerStepKeeps

\* The journal goes when no file is being moved any more.
LEMMA RemoveKeepsFiles ==
    ASSUME Inv, NEW s \in Switchers, RemoveJournal(s)
    PROVE  SwitchInv'
<1>1. /\ s \notin dead /\ pc[s] = "verify" /\ Goto(s, "open") /\ journal' = None
      /\ UNCHANGED <<gate, registry, work, families, files, proc, dead>>
  BY DEF RemoveJournal, At, ledgerVars, participantVars
<1>2. gate.phase \notin Moving
  BY <1>1 DEF Inv, SwitchInv, Holding
<1>3. Owns(s)
  BY <1>1, HolderOwns DEF OwnerPcs
<1>4. Global'
  BY <1>1, <1>2 DEF Inv, SwitchInv, Global, Agreed, Emptied, NoUsers, Kept, Sealing, SealedOk,
     Journaled, Placing, Starting
<1>5. Holding(s)'
  BY <1>1, Arrived, HoldsNothing DEF HoldPcs
<1> QED
  BY <1>1, <1>3, <1>4, <1>5, OwnerStepKeeps

\* recoverAccounts goes forward without a journal, or from one whose switch was
\* published: either way the moves are over.
LEMMA ForwardKeepsFiles ==
    ASSUME Inv, NEW s \in Switchers, RecoverForward(s)
    PROVE  SwitchInv'
<1>1. /\ Goto(s, "verify") /\ Owns(s)
      /\ UNCHANGED <<gate, registry, work, families, journal, files, proc, dead, plan>>
  BY DEF RecoverForward, CanFinishWithoutJournal, CanReadJournal, ledgerVars, participantVars
<1>2. gate.phase \notin Moving
  <2>1. CASE journal = None
    BY <2>1 DEF Inv, SwitchInv, Global, Journaled
  <2>2. CASE journal # None
    <3>1. registry.generation = journal.generation + 1
      BY <2>2 DEF RecoverForward, CanFinishWithoutJournal, JournalCommitted
    <3>2. journal.generation \in Nat
      BY <2>2, JournalFile DEF SwitchJournal
    <3>3. gate.phase = "cleanup-commit"
      BY <2>2, <3>1, <3>2, JournalFile DEF OfTransition
    <3> QED
      BY <3>3 DEF Moving
  <2> QED
    BY <2>1, <2>2
<1>3. Global'
  BY <1>1 DEF Inv, SwitchInv, Global, Agreed, Emptied, NoUsers, Kept, Sealing, SealedOk,
     Journaled, OfTransition, InPhase, Placing, UnderWay, AtStage, Starting
<1>4. pc'[s] = "verify"
  BY <1>1, Arrived
<1>5. Holding(s)'
  BY <1>1, <1>2, <1>4 DEF Holding, HoldPcs, Moving
<1> QED
  BY <1>1, <1>3, <1>5, OwnerStepKeeps

\* The rollback starts at the operation that may have been done last.
LEMMA BackwardKeepsFiles ==
    ASSUME Inv, NEW s \in Switchers, RecoverBackward(s), JournalInv'
    PROVE  SwitchInv'
<1> DEFINE first == IF journal.next < Len(journal.ops) THEN journal.next + 1 ELSE Len(journal.ops)
           j == [journal EXCEPT !.phase = "rollback",
                                !.back = IF journal.phase = "rollback" THEN @ ELSE first]
<1>1. /\ journal # None /\ ~JournalCommitted
      /\ Write(s, j) /\ Goto(s, "rolling")
      /\ UNCHANGED <<gate, registry, work, families, files, proc, dead>>
  BY DEF RecoverBackward, CanReadJournal, ledgerVars, participantVars
<1>2. /\ journal \in SwitchJournal /\ OfTransition(journal) /\ InPhase(journal)
      /\ Shaped(journal) /\ gate.phase \in AfterSeal
  BY <1>1, JournalFile
<1>3. Owns(s) /\ journal' = j /\ plan'[s] = j /\ pc'[s] = "rolling"
  BY <1>1, Written, Arrived
<1>4. gate.phase # "cleanup-commit"
  BY <1>1, <1>2 DEF JournalCommitted, Inv, SwitchInv, Global, Agreed, OfTransition
<1>5. /\ j.phase = "rollback" /\ j.back = (IF journal.phase = "rollback" THEN journal.back ELSE first)
      /\ j.from = journal.from /\ j.to = journal.to /\ j.ops = journal.ops
      /\ j.inv = journal.inv /\ j.generation = journal.generation
  BY <1>2 DEF SwitchJournal
<1>6. j # None
  BY <1>3, JournalAssumption DEF JournalInv, PlanPcs
<1> HIDE DEF j
<1>7. gate.phase = "sealed" => j.back \in {0, 1}
  BY <1>2, <1>5 DEF InPhase, Shaped
<1>8. gate.phase = "cleanup-rollback" => j.back = 0
  BY <1>2, <1>5 DEF InPhase
<1>9. Journaled'
  BY <1>1, <1>2, <1>3, <1>4, <1>5, <1>6, <1>7, <1>8 DEF Journaled, OfTransition, InPhase
<1>10. gate.phase \in Moving => AtStage(j, j.back) \/ AtStage(j, j.back - 1)
  <2> SUFFICES ASSUME gate.phase \in Moving PROVE AtStage(j, j.back) \/ AtStage(j, j.back - 1)
    OBVIOUS
  <2>1. UnderWay(journal)
    BY DEF Inv, SwitchInv, Global, Placing
  <2>2. CASE journal.phase = "rollback"
    BY <1>5, <2>1, <2>2 DEF UnderWay, AtStage
  <2>3. CASE journal.phase # "rollback"
    <3>1. j.back = first
      BY <1>5, <2>3
    <3>2. AtStage(journal, journal.next) \/ AtStage(journal, journal.next + 1)
      BY <2>1, <2>3 DEF UnderWay
    <3>3. CASE journal.from = journal.to
      BY <1>2, <1>5, <3>1, <3>2, <3>3 DEF Shaped, AtStage
    <3>4. CASE journal.from # journal.to
      BY <1>2, <1>5, <3>1, <3>2, <3>4 DEF Shaped, AtStage
    <3> QED
      BY <3>3, <3>4
  <2> QED
    BY <2>2, <2>3
<1>11. Placing'
  BY <1>1, <1>3, <1>5, <1>10 DEF Placing, UnderWay, AtStage, Inv, SwitchInv, Global
<1>12. Global'
  BY <1>1, <1>2, <1>9, <1>11, SameLedgerKeeps
<1>13. Holding(s)'
  BY <1>1, <1>3, <1>5 DEF Holding, HoldPcs
<1> QED
  BY <1>1, <1>3, <1>12, <1>13, OwnerStepKeeps

LEMMA MarkRollbackKeepsFiles ==
    ASSUME Inv, NEW s \in Switchers, MarkRollback(s)
    PROVE  SwitchInv'
<1>1. /\ At(s, "rolling") /\ SetPhase(token[s], gate.phase, "rolling-back") /\ Goto(s, "undo")
      /\ UNCHANGED <<registry, work, families, journal, files, proc, dead, plan>>
  BY DEF MarkRollback, participantVars
<1>2. /\ gate'.phase = "rolling-back"
      /\ gate'.active = gate.active /\ gate'.generation = gate.generation
      /\ gate'.intent = gate.intent /\ gate'.sealed = gate.sealed
  BY <1>1, MarkedGate
<1>3. journal = plan[s] /\ journal # None /\ Owns(s) /\ s \notin dead /\ pc[s] = "rolling"
  BY <1>1, JournalInHand DEF HoldPcs
<1>4. journal.phase = "rollback" /\ pc'[s] = "undo"
  BY <1>1, <1>3, Arrived DEF Inv, SwitchInv, Holding
<1>5. OfTransition(journal) /\ InPhase(journal) /\ Shaped(journal) /\ gate.phase \in AfterSeal
  BY <1>3, JournalFile
<1>6. gate.phase # "cleanup-commit" /\ InPhase(journal)'
  BY <1>1, <1>2, <1>4, <1>5 DEF InPhase
<1>7. UnderWay(journal)
  <2>1. CASE gate.phase \in Moving
    BY <2>1 DEF Inv, SwitchInv, Global, Placing
  <2>2. CASE gate.phase \notin Moving
    <3>1. files[Overlay] = Presented(journal.from)
      BY <1>5, <1>6, <2>2 DEF Inv, SwitchInv, Global, Placing, Agreed, OfTransition, AfterSeal
    <3>2. journal.back \in {0, 1}
      BY <1>4, <1>5, <1>6, <2>2 DEF InPhase, Moving, AfterSeal
    <3> QED
      BY <1>4, <3>1, <3>2 DEF UnderWay, AtStage
  <2> QED
    BY <2>1, <2>2
<1>8. Placing'
  BY <1>1, <1>2, <1>7 DEF Placing, Moving, UnderWay, AtStage
<1>9. Global'
  BY <1>1, <1>2, <1>3, <1>5, <1>6, <1>8, MarkKeeps DEF AfterSeal
<1>10. Holding(s)'
  BY <1>1, <1>2, <1>3, <1>4 DEF Holding, HoldPcs
<1> QED
  BY <1>1, <1>3, <1>9, <1>10, OwnerStepKeeps

\* undo: the inverse of the operation, whether or not it had been done.
LEMMA UndoNextMoves ==
    ASSUME Inv, NEW s \in Switchers, UndoNext(s)
    PROVE  /\ Rearranged(files, files', files'[Overlay])
           /\ AtStage(journal, journal.back - 1)'
           /\ gate.phase = "rolling-back" /\ NoUsers
           /\ journal = plan[s] /\ journal # None /\ journal.phase = "rollback"
           /\ Owns(s) /\ s \notin dead
<1> DEFINE op == Inverse(plan[s].ops[plan[s].back])
<1>1. /\ At(s, "undo") /\ plan[s].back > 0 /\ CanApply(files, op)
      /\ files' = Applied(files, op) /\ journal' = journal
  BY DEF UndoNext, CanUndoNext
<1>2. journal = plan[s] /\ journal # None /\ Owns(s) /\ s \notin dead /\ pc[s] = "undo"
  BY <1>1, JournalInHand DEF HoldPcs
<1>3. gate.phase = "rolling-back" /\ journal.phase = "rollback"
  BY <1>2 DEF Inv, SwitchInv, Holding
<1>4. Shaped(journal)
  BY <1>2, JournalFile
<1>5. /\ journal.from # journal.to /\ journal.back \in {1, 2}
      /\ journal.from \in Accounts /\ journal.to \in Accounts
  BY <1>1, <1>2, <1>4 DEF Shaped
<1>6. files \in Files /\ InPlace(files) /\ NoUsers
  BY <1>3 DEF Inv, TypeInv, LedgerInv, LedgerTypeOK, SwitchInv, Global, Kept, Emptied
<1>7. CASE journal.back = 1
  <2>1. op = Incoming(journal.from)
    BY <1>2, <1>4, <1>5, <1>7, InverseOfMove DEF Shaped
  <2>2. Rearranged(files, files', Presented(journal.from))
    BY <1>1, <1>5, <1>6, <2>1, IncomingApplied
  <2>3. files'[Overlay] = Presented(journal.from) /\ Rearranged(files, files', files'[Overlay])
    BY <2>2 DEF Rearranged
  <2>4. journal' = journal /\ journal.back - 1 = 0
    BY <1>1, <1>7
  <2>5. AtStage(journal, journal.back - 1)'
    BY <2>3, <2>4 DEF AtStage
  <2> QED
    BY <1>2, <1>3, <1>6, <2>3, <2>5
<1>8. CASE journal.back = 2
  <2>1. op = Outgoing(journal.to)
    BY <1>2, <1>4, <1>5, <1>8, InverseOfMove DEF Shaped
  <2>2. Rearranged(files, files', Absent)
    BY <1>1, <1>5, <1>6, <2>1, OutgoingApplied
  <2>3. files'[Overlay] = Absent /\ Rearranged(files, files', files'[Overlay])
    BY <2>2 DEF Rearranged
  <2>4. journal' = journal /\ journal.back - 1 = 1
    BY <1>1, <1>8
  <2>5. AtStage(journal, journal.back - 1)'
    BY <1>5, <2>3, <2>4 DEF AtStage
  <2> QED
    BY <1>2, <1>3, <1>6, <2>3, <2>5
<1> QED
  BY <1>5, <1>7, <1>8

LEMMA UndoNextKeepsFiles ==
    ASSUME Inv, NEW s \in Switchers, UndoNext(s)
    PROVE  SwitchInv'
<1>1. /\ Goto(s, "unrecord")
      /\ UNCHANGED <<gate, registry, work, families, journal, proc, dead, plan>>
  BY DEF UndoNext, ledgerVars, participantVars
<1>2. /\ Rearranged(files, files', files'[Overlay])
      /\ AtStage(journal, journal.back - 1)'
      /\ gate.phase = "rolling-back" /\ NoUsers
      /\ journal = plan[s] /\ journal # None /\ journal.phase = "rollback"
      /\ Owns(s) /\ s \notin dead
  BY UndoNextMoves
<1>3. Placing'
  BY <1>1, <1>2 DEF Placing, UnderWay, Moving
<1>4. Starting'
  BY <1>1 DEF Inv, SwitchInv, Global, Starting
<1>5. Global'
  BY <1>1, <1>2, <1>3, <1>4, MoveKeeps DEF Moving
<1>6. Holding(s)'
  <2>1. AtStage(plan[s], plan[s].back - 1)'
    BY <1>1, <1>2 DEF AtStage
  <2>2. pc'[s] = "unrecord"
    BY <1>1, Arrived
  <2> QED
    BY <1>1, <1>2, <2>1, <2>2 DEF Holding, HoldPcs
<1> QED
  BY <1>1, <1>2, <1>5, <1>6, OwnerStepKeeps

LEMMA RecordUndoKeepsFiles ==
    ASSUME Inv, NEW s \in Switchers, RecordUndo(s), JournalInv'
    PROVE  SwitchInv'
<1> DEFINE j == [plan[s] EXCEPT !.back = @ - 1]
<1>1. /\ At(s, "unrecord") /\ Write(s, j) /\ Goto(s, "undo")
      /\ UNCHANGED <<gate, registry, work, families, files, proc, dead>>
  BY DEF RecordUndo, ledgerVars, participantVars
<1>2. /\ journal = plan[s] /\ journal # None /\ s \notin dead /\ pc[s] = "unrecord"
      /\ plan[s] \in SwitchJournal
  BY <1>1, JournalInHand DEF HoldPcs
<1>3. Owns(s) /\ journal' = j /\ plan'[s] = j /\ pc'[s] = "undo"
  BY <1>1, Written, Arrived
<1>4. /\ gate.phase = "rolling-back" /\ plan[s].phase = "rollback"
      /\ AtStage(plan[s], plan[s].back - 1)
  BY <1>2 DEF Inv, SwitchInv, Holding
<1>5. /\ j.phase = "rollback" /\ j.back = plan[s].back - 1
      /\ j.from = plan[s].from /\ j.to = plan[s].to /\ j.ops = plan[s].ops
      /\ j.inv = plan[s].inv /\ j.generation = plan[s].generation
  BY <1>2, <1>4 DEF SwitchJournal
<1> HIDE DEF j
<1>6. j # None
  BY <1>3, JournalAssumption DEF JournalInv, PlanPcs
<1>7. Journaled'
  BY <1>1, <1>2, <1>3, <1>4, <1>5, <1>6, JournalFile DEF Journaled, OfTransition, InPhase
<1>8. Placing'
  BY <1>1, <1>3, <1>4, <1>5 DEF Placing, Moving, UnderWay, AtStage
<1>9. Global'
  BY <1>1, <1>4, <1>7, <1>8, SameLedgerKeeps DEF AfterSeal
<1>10. Holding(s)'
  BY <1>1, <1>3, <1>4, <1>5 DEF Holding, HoldPcs
<1> QED
  BY <1>1, <1>3, <1>9, <1>10, OwnerStepKeeps

\* Everything is undone: the overlay presents the registry's account again.
LEMMA RolledBackKeepsFiles ==
    ASSUME Inv, NEW s \in Switchers, RolledBack(s)
    PROVE  SwitchInv'
<1>1. /\ At(s, "undo") /\ plan[s].back = 0
      /\ SetPhase(token[s], "rolling-back", "cleanup-rollback") /\ Goto(s, "verify")
      /\ UNCHANGED <<registry, work, families, journal, files, proc, dead, plan>>
  BY DEF RolledBack, participantVars
<1>2. /\ gate.phase = "rolling-back" /\ gate'.phase = "cleanup-rollback"
      /\ gate'.active = gate.active /\ gate'.generation = gate.generation
      /\ gate'.intent = gate.intent /\ gate'.sealed = gate.sealed
  BY <1>1, MarkedGate
<1>3. journal = plan[s] /\ journal # None /\ Owns(s) /\ s \notin dead /\ pc[s] = "undo"
  BY <1>1, JournalInHand DEF HoldPcs
<1>4. journal.phase = "rollback" /\ pc'[s] = "verify"
  BY <1>1, <1>3, Arrived DEF Inv, SwitchInv, Holding
<1>5. files[Overlay] = Presented(registry.active)
  <2>1. UnderWay(journal)
    BY <1>2 DEF Inv, SwitchInv, Global, Placing, Moving
  <2>2. AtStage(journal, 0)
    BY <1>1, <1>3, <1>4, <2>1 DEF UnderWay, AtStage
  <2>3. registry.active = journal.from
    BY <1>2, <1>3, JournalFile DEF Inv, SwitchInv, Global, Agreed, OfTransition
  <2> QED
    BY <2>2, <2>3 DEF AtStage
<1>6. InPhase(journal)'
  BY <1>1, <1>2, <1>3, <1>4 DEF InPhase
<1>7. Placing'
  BY <1>1, <1>2, <1>5 DEF Placing, Moving
<1>8. Global'
  BY <1>1, <1>2, <1>3, <1>6, <1>7, MarkKeeps DEF AfterSeal
<1>9. Holding(s)'
  BY <1>2, <1>4 DEF Holding, HoldPcs, Moving
<1> QED
  BY <1>1, <1>3, <1>8, <1>9, OwnerStepKeeps

\* prepareOverlay makes a link only while files are being moved: at any other
\* phase the overlay holds something.
LEMMA PrepareMoves ==
    ASSUME Inv, NEW p \in Participants, PrepareOverlay(p), files' # files
    PROVE  /\ files[Overlay] = Absent /\ files' = [files EXCEPT ![Overlay] = HomeLink]
           /\ gate.phase \in Moving /\ NoUsers
           /\ Rearranged(files, files', HomeLink)
<1>1. files[Overlay] = Absent /\ files' = [files EXCEPT ![Overlay] = HomeLink]
  BY DEF PrepareOverlay
<1>2. gate.phase \in Moving
  <2>1. registry.active \in Accounts
    BY DEF Inv, TypeInv, LedgerInv, LedgerTypeOK, Registry
  <2> QED
    BY <1>1, <2>1, PresentedIsOne DEF Inv, SwitchInv, Global, Placing
<1>3. NoUsers
  BY <1>2 DEF Inv, SwitchInv, Global, Emptied, Moving
<1>4. Rearranged(files, files', HomeLink)
  <2>1. files \in Files /\ InPlace(files)
    BY DEF Inv, TypeInv, LedgerInv, LedgerTypeOK, SwitchInv, Global, Kept
  <2>2. CanApply(files, Incoming(Home))
    BY <1>1 DEF CanApply, Incoming, LinkOp
  <2>3. files' = Applied(files, Incoming(Home)) /\ Presented(Home) = HomeLink
    BY <1>1 DEF Applied, Incoming, LinkOp, Presented
  <2> QED
    BY <2>1, <2>2, <2>3, IncomingApplied DEF Accounts
<1> QED
  BY <1>1, <1>2, <1>3, <1>4

LEMMA PrepareKeepsFiles ==
    ASSUME Inv, NEW p \in Participants, PrepareOverlay(p)
    PROVE  SwitchInv'
<1>1. UNCHANGED <<gate, registry, work, families, journal, pc, dead, plan>>
  BY DEF PrepareOverlay, ledgerVars, switcherVars
<1>2. proc[p] = "preparing" /\ \A q \in Participants : proc'[q] = "preparing" => proc[q] = "preparing"
  BY DEF PrepareOverlay, Inv, TypeInv, LocalInv
<1>3. Starters # {} /\ Starting'
  BY <1>2 DEF Inv, SwitchInv, Global, Starting
<1>4. CASE files' = files
  <2>1. Unmoved
    BY <1>1, <1>2, <1>4, SameGate DEF Unmoved
  <2> QED
    BY <1>1, <2>1, UnmovedKeeps
<1>5. CASE files' # files
  <2>1. /\ files[Overlay] = Absent /\ gate.phase \in Moving
        /\ Rearranged(files, files', HomeLink)
    BY <1>5, PrepareMoves
  <2>2. files'[Overlay] = HomeLink
    BY <2>1 DEF Rearranged
  <2>3. ASSUME NEW j, NEW n, AtStage(j, n), j.from \in Accounts, j.to \in Accounts
        PROVE  n = 1 /\ j.from # j.to
    BY <2>1, <2>3, PresentedIsOne DEF AtStage
  <2>4. journal # None /\ journal.from \in Accounts /\ journal.to \in Accounts
    <3>1. journal # None
      BY <2>1 DEF Inv, SwitchInv, Global, Journaled
    <3> QED
      BY <3>1, JournalFile DEF Shaped
  <2>5. UnderWay(journal)
    BY <2>1 DEF Inv, SwitchInv, Global, Placing
  <2>6. UnderWay(journal)'
    BY <1>1, <1>3, <2>2, <2>3, <2>4, <2>5 DEF UnderWay, AtStage
  <2>7. Global'
    BY <1>1, <1>3, <2>1, <2>6, MoveKeeps DEF Placing
  <2>8. ASSUME NEW t \in Switchers \ dead
        PROVE  Holding(t)'
    <3>1. Holding(t)
      BY DEF Inv, SwitchInv
    <3>2. ASSUME NEW n \in 0 .. 3, AtStage(plan[t], n), pc[t] \in {"record", "unrecord"}
          PROVE  AtStage(plan[t], n)'
      <4>1. journal = plan[t]
        BY <3>1, <3>2 DEF Holding, HoldPcs
      <4>2. n = 1 /\ plan[t].from # plan[t].to
        BY <2>3, <2>4, <3>2, <4>1
      <4> QED
        BY <1>1, <1>3, <2>2, <4>2 DEF AtStage
    <3>3. /\ pc[t] = "record" => AtStage(plan[t], plan[t].next + 1)'
          /\ pc[t] = "unrecord" => AtStage(plan[t], plan[t].back - 1)'
      <4>1. pc[t] = "record" => plan[t].next + 1 \in 0 .. 3
        BY <2>4, <3>1, JournalFile DEF Holding, HoldPcs, Shaped
      <4>2. pc[t] = "unrecord" => plan[t].back - 1 \in 0 .. 3
        <5>1. pc[t] = "unrecord" => journal = plan[t] /\ plan[t].back > 0
          BY <3>1 DEF Holding, HoldPcs, Inv, TypeInv, JournalInv
        <5>2. journal.back \in 0 .. 2
          BY <2>4, JournalFile DEF Shaped
        <5> QED
          BY <5>1, <5>2
      <4> QED
        BY <1>1, <3>1, <3>2, <4>1, <4>2 DEF Holding
    <3> QED
      BY <1>1, <3>1, <3>3 DEF Holding, OfTransition
  <2> QED
    BY <1>1, <2>7, <2>8 DEF SwitchInv
<1> QED
  BY <1>4, <1>5

LEMMA SwitchInvStep == Inv /\ [Next]_vars /\ JournalInv' => SwitchInv'
<1> SUFFICES ASSUME Inv, [Next]_vars, JournalInv' PROVE SwitchInv'
  OBVIOUS
<1>1. ASSUME NEW s \in Switchers, Switcher(s)
      PROVE  SwitchInv'
  <2>1. CASE FreezeStep(s) \/ Joined(s) \/ OpenGate(s) \/ CatchCancels(s) \/ Seal(s)
    BY <2>1, FreezeKeepsFiles, JoinedKeepsFiles, OpeningKeepsFiles, SealKeepsFiles
  <2>2. CASE BeginJournal(s) \/ MarkJournal(s) \/ ApplyNext(s) \/ RecordNext(s)
             \/ PublishTransition(s) \/ RecordCommit(s) \/ RemoveJournal(s)
    BY <2>2, BeginKeepsFiles, MarkJournalKeepsFiles, ApplyNextKeepsFiles, RecordNextKeepsFiles,
       PublishKeepsFiles, RecordCommitKeepsFiles, RemoveKeepsFiles
  <2>3. CASE RecoverForward(s) \/ RecoverBackward(s) \/ MarkRollback(s) \/ UndoNext(s)
             \/ RecordUndo(s) \/ RolledBack(s)
    BY <2>3, ForwardKeepsFiles, BackwardKeepsFiles, MarkRollbackKeepsFiles, UndoNextKeepsFiles,
       RecordUndoKeepsFiles, RolledBackKeepsFiles
  <2>4. CASE \/ \E to \in Accounts, auto \in BOOLEAN : Start(s, to, auto)
             \/ \E p \in Participants : SendStop(s, p) \/ Restart(s, p) \/ SkipRestart(s, p)
                                         \/ RestartFails(s, p)
             \/ FreezeRefused(s) \/ Drain(s) \/ Abort(s) \/ StopReplied(s) \/ AllStopped(s)
             \/ Reconcile(s) \/ GuardStale(s) \/ Restarted(s) \/ CatchRecovers(s)
             \/ StartRecovery(s) \/ AdoptOwner(s) \/ AdoptRefused(s) \/ RetireForRecovery(s)
             \/ Refused(s) \/ Fault(s) \/ Crash(s) \/ Leave(s)
    BY <2>4, UnmovedSteps, LettingGoKeeps
  <2> QED
    BY <1>1, <2>1, <2>2, <2>3, <2>4 DEF Switcher, Advance
<1>2. ASSUME NEW p \in Participants, Participant(p)
      PROVE  SwitchInv'
  BY <1>2, ParticipantsUnmoved, LeasingKeepsFiles, PrepareKeepsFiles DEF Participant
<1>3. CASE Configure
  BY <1>3, ConfigureKeepsFiles
<1>4. CASE UNCHANGED vars
  <2>1. Unmoved /\ pc' = pc /\ dead' = dead
    BY <1>4, SameGate DEF vars, Unmoved
  <2> QED
    BY <2>1, UnmovedKeeps
<1> QED
  BY <1>1, <1>2, <1>3, <1>4 DEF Next

\* At each phase of the gate and each entry of the journal the credentials are
\* where the transition has put them, whatever has crashed or failed before.
THEOREM SwitchInvariant == Spec => []Inv
<1>1. Init => Inv
  <2>1. Init => Fence
    BY DEF Init, Fence, OwnToken, SingleOwner, NoToken, OwnerPcs
  <2>2. Init => \A s \in Switchers \ dead : Holding(s)
    BY DEF Init, Holding, HoldPcs
  <2> QED
    BY <2>1, <2>2, InitTypeInv, InitGlobal DEF Inv, SwitchInv
<1>2. Inv /\ [Next]_vars => Inv'
  <2>1. TypeInv /\ [Next]_vars => TypeInv'
    BY LedgerStep, JournalStep, LocalStep DEF TypeInv
  <2> QED
    BY <2>1, FenceStep, SwitchInvStep DEF Inv, TypeInv
<1> QED
  BY <1>1, <1>2, PTL DEF Spec

-----------------------------------------------------------------------------
(* What the invariant says of an open gate and of native processes. *)

LEMMA PhaseOfUsers ==
    ASSUME Inv, ~NoUsers
    PROVE  files[Overlay] = Presented(registry.active)
BY DEF Inv, SwitchInv, Global, Emptied, Placing, Moving

\* A native process reads the credential of the account it was admitted for
\* as long as it runs: the overlay that it opens presents that account.
THEOREM FamiliesReadTheirAccount == Spec => []FamilyReadsItsAccount
<1>1. Inv => FamilyReadsItsAccount
  BY PhaseOfUsers DEF Inv, SwitchInv, Global, Emptied, FamilyReadsItsAccount, NoUsers, Presented
<1> QED
  BY <1>1, SwitchInvariant, PTL

\* Admission reopens only when the switch is settled: gate and registry agree,
\* no journal is left and the files have the active account's layout.
THEOREM OpenGateIsSettled == Spec => []OpenIsSettled
<1>1. Inv => OpenIsSettled
  <2> SUFFICES ASSUME Inv, gate.phase = "open"
               PROVE  /\ journal = None
                      /\ gate.active = registry.active /\ gate.generation = registry.generation
                      /\ Layout(files, registry.active, registry.ready)
    BY DEF OpenIsSettled
  <2>1. journal = None /\ files[Overlay] = Presented(registry.active)
    BY DEF Inv, SwitchInv, Global, Sealing, Placing, Moving
  <2>2. gate.active = registry.active /\ gate.generation = registry.generation
    BY DEF Inv, SwitchInv, Global, Agreed
  <2>3. /\ files \in Files /\ InPlace(files)
        /\ registry.active \in Accounts /\ registry.ready \in SUBSET Held(files)
    BY DEF Inv, TypeInv, LedgerInv, LedgerTypeOK, Registry, SwitchInv, Global, Kept
  <2>4. Layout(files, registry.active, registry.ready)
    BY <2>1, <2>3, InPlaceIsLaidOut
  <2> QED
    BY <2>1, <2>2, <2>4
<1> QED
  BY <1>1, SwitchInvariant, PTL

-----------------------------------------------------------------------------
(* Recovery's checks. *)

\* What the overlay holds tells after how many operations the files are.
LEMMA StageOfFiles ==
    ASSUME Inv, NEW inv \in Files, InPlace(inv), Held(inv) = Held(files),
           NEW from \in Accounts, NEW to \in Accounts,
           inv[Overlay] = Presented(from), to # Home => to \in Held(files)
    PROVE  /\ Len(MovePlan(from, to)) = IF from = to THEN 0 ELSE 2
           /\ files[Overlay] = Presented(from) => files = After(inv, MovePlan(from, to), 0)
           /\ from # to /\ files[Overlay] = Absent => files = After(inv, MovePlan(from, to), 1)
           /\ files[Overlay] = Presented(to)
                => files = After(inv, MovePlan(from, to), Len(MovePlan(from, to)))
<1>1. files \in Files /\ InPlace(files)
  BY DEF Inv, TypeInv, LedgerInv, LedgerTypeOK, SwitchInv, Global, Kept
<1>2. CASE from = to
  <2>1. Len(MovePlan(from, to)) = 0 /\ After(inv, MovePlan(from, to), 0) = inv
    BY <1>2 DEF MovePlan, After
  <2>2. files[Overlay] = Presented(from) => files = inv
    BY <1>1, SameFiles
  <2> QED
    BY <1>2, <2>1, <2>2
<1>3. CASE from # to
  <2>1. Len(MovePlan(from, to)) = 2
    BY <1>3 DEF MovePlan
  <2>2. /\ Rearranged(inv, After(inv, MovePlan(from, to), 0), Presented(from))
        /\ Rearranged(inv, After(inv, MovePlan(from, to), 1), Absent)
        /\ Rearranged(inv, After(inv, MovePlan(from, to), 2), Presented(to))
    BY <1>3, StagesOfMovePlan
  <2>3. ASSUME NEW gs, NEW overlay, Rearranged(inv, gs, overlay), files[Overlay] = overlay
        PROVE  files = gs
    BY <1>1, <2>3, SameFiles DEF Rearranged
  <2>4. files[Overlay] = Presented(from) => files = After(inv, MovePlan(from, to), 0)
    BY <2>2, <2>3
  <2>5. files[Overlay] = Absent => files = After(inv, MovePlan(from, to), 1)
    BY <2>2, <2>3
  <2>6. files[Overlay] = Presented(to) => files = After(inv, MovePlan(from, to), 2)
    BY <2>2, <2>3
  <2> QED
    BY <1>3, <2>1, <2>4, <2>5, <2>6
<1> QED
  BY <1>2, <1>3

\* The home link is in the overlay while files are being moved: a participant
\* that was starting may have made it in place of an operation.
Spoilt == Starters # {} /\ gate.phase \in Moving /\ files[Overlay] = HomeLink

\* verifySealedInventory against the journal file, at a stage.
LEMMA StageMatches ==
    ASSUME Inv, ~Spoilt, journal # None, NEW n \in 0 .. 2, AtStage(journal, n),
           gate.phase \in Moving \/ n # 1, NEW counts, n \in counts
    PROVE  MatchesSealed(files, journal, counts)
<1>1. Shaped(journal)
  BY JournalFile
<1>2. NoDuplicates(files)
  BY InPlaceIsUnique DEF Inv, TypeInv, LedgerInv, LedgerTypeOK, SwitchInv, Global, Kept
<1> DEFINE inv == journal.inv
           from == journal.from
           to == journal.to
<1>3. /\ inv \in Files /\ InPlace(inv) /\ Held(inv) = Held(files)
      /\ from \in Accounts /\ to \in Accounts /\ inv[Overlay] = Presented(from)
      /\ to # Home => to \in Held(files)
      /\ journal.ops = MovePlan(from, to)
  BY <1>1 DEF Shaped
<1>4. \/ n = 0 /\ files[Overlay] = Presented(from)
      \/ n = 1 /\ from # to /\ files[Overlay] = Absent
      \/ n = 2 /\ from # to /\ files[Overlay] = Presented(to)
  BY DEF AtStage, Spoilt
<1> HIDE DEF inv, from, to
<1>5. /\ Len(MovePlan(from, to)) = IF from = to THEN 0 ELSE 2
      /\ files[Overlay] = Presented(from) => files = After(inv, MovePlan(from, to), 0)
      /\ from # to /\ files[Overlay] = Absent => files = After(inv, MovePlan(from, to), 1)
      /\ files[Overlay] = Presented(to)
           => files = After(inv, MovePlan(from, to), Len(MovePlan(from, to)))
  BY <1>3, StageOfFiles
<1>6. files = After(inv, MovePlan(from, to), n) /\ n \in 0 .. Len(MovePlan(from, to))
  BY <1>3, <1>4, <1>5
<1>7. \E m \in counts \cap 0 .. Len(journal.ops) : files = After(journal.inv, journal.ops, m)
  BY <1>3, <1>6 DEF inv
<1> QED
  BY <1>2, <1>7 DEF MatchesSealed

\* The sealed inventory, before the first operation or after the last.
LEMMA SealMatches ==
    ASSUME Inv, gate.phase \in AfterSeal \ Moving
    PROVE  IF gate.phase = "cleanup-commit"
           THEN MatchesSealed(files, gate.sealed, {Len(gate.sealed.ops)})
           ELSE MatchesSealed(files, gate.sealed, {0})
<1> DEFINE inv == gate.sealed.inv
           from == gate.intent.from
           to == gate.intent.to
<1>1. SealedOk(gate.sealed) /\ from \in Accounts /\ to \in Accounts
  BY DEF Inv, SwitchInv, Global, Sealing, AfterSeal, TypeInv, LedgerInv, Intent
<1>2. /\ files[Overlay] = Presented(registry.active)
      /\ registry.active = IF gate.phase = "cleanup-commit" THEN to ELSE from
  BY DEF Inv, SwitchInv, Global, Placing, Agreed, AfterSeal
<1>3. NoDuplicates(files)
  BY InPlaceIsUnique DEF Inv, TypeInv, LedgerInv, LedgerTypeOK, SwitchInv, Global, Kept
<1>4. /\ inv \in Files /\ InPlace(inv) /\ Held(inv) = Held(files) /\ inv[Overlay] = Presented(from)
      /\ to # Home => to \in Held(files)
      /\ gate.sealed.ops = MovePlan(from, to)
  BY <1>1 DEF SealedOk
<1> HIDE DEF inv, from, to
<1>5. /\ Len(MovePlan(from, to)) = IF from = to THEN 0 ELSE 2
      /\ files[Overlay] = Presented(from) => files = After(inv, MovePlan(from, to), 0)
      /\ files[Overlay] = Presented(to)
           => files = After(inv, MovePlan(from, to), Len(MovePlan(from, to)))
  BY <1>1, <1>4, StageOfFiles
<1>6. Len(MovePlan(from, to)) \in 0 .. Len(MovePlan(from, to)) /\ 0 \in 0 .. Len(MovePlan(from, to))
  BY <1>5
<1> QED
  BY <1>2, <1>3, <1>4, <1>5, <1>6 DEF MatchesSealed, inv

\* The journal file's entries: the operation that may be half done is the one
\* recorded last, or the next.
LEMMA JournalMatches ==
    ASSUME Inv, ~Spoilt, journal # None
    PROVE  MatchesSealed(files, journal,
              IF journal.phase = "rollback"
              THEN {journal.back} \cup {n \in 0 .. 2 : n + 1 = journal.back}
              ELSE {journal.next, journal.next + 1})
<1>1. /\ OfTransition(journal) /\ InPhase(journal) /\ gate.phase \in AfterSeal
      /\ journal.next \in 0 .. 2 /\ journal.back \in 0 .. 2
      /\ journal \in SwitchJournal
  BY JournalFile DEF Shaped
<1>2. CASE gate.phase \in Moving
  <2>1. UnderWay(journal)
    BY <1>2 DEF Inv, SwitchInv, Global, Placing
  <2>2. CASE journal.phase = "rollback"
    <3>1. AtStage(journal, journal.back) \/ AtStage(journal, journal.back - 1)
      BY <2>1, <2>2 DEF UnderWay
    <3>2. AtStage(journal, journal.back - 1) => journal.back - 1 \in 0 .. 2
      BY <1>1 DEF AtStage
    <3> QED
      BY <1>1, <1>2, <2>2, <3>1, <3>2, StageMatches
  <2>3. CASE journal.phase # "rollback"
    <3>1. AtStage(journal, journal.next) \/ AtStage(journal, journal.next + 1)
      BY <2>1, <2>3 DEF UnderWay
    <3>2. AtStage(journal, journal.next + 1) => journal.next + 1 \in 0 .. 2
      BY <1>1 DEF AtStage
    <3> QED
      BY <1>1, <1>2, <2>3, <3>1, <3>2, StageMatches
  <2> QED
    BY <2>2, <2>3
<1>3. CASE gate.phase \notin Moving
  <2>1. files[Overlay] = Presented(registry.active)
    BY <1>3 DEF Inv, SwitchInv, Global, Placing
  <2>2. CASE gate.phase = "cleanup-commit"
    <3>1. gate.sealed.ops = journal.ops /\ gate.sealed.inv = journal.inv
      BY <1>1 DEF OfTransition
    <3>2. MatchesSealed(files, gate.sealed, {Len(gate.sealed.ops)})
      BY <1>1, <1>3, <2>2, SealMatches
    <3>3. journal.next = Len(journal.ops) /\ journal.phase # "rollback"
      BY <1>1, <2>2 DEF InPhase
    <3> QED
      BY <3>1, <3>2, <3>3 DEF MatchesSealed
  <2>3. CASE gate.phase # "cleanup-commit"
    <3>1. AtStage(journal, 0)
      BY <1>1, <2>1, <2>3 DEF Inv, SwitchInv, Global, Agreed, AtStage, OfTransition, AfterSeal
    <3>2. IF journal.phase = "rollback" THEN journal.back \in {0, 1} ELSE journal.next = 0
      BY <1>1, <1>3, <2>3 DEF InPhase, AfterSeal, Moving
    <3>3. 0 \in IF journal.phase = "rollback"
                THEN {journal.back} \cup {n \in 0 .. 2 : n + 1 = journal.back}
                ELSE {journal.next, journal.next + 1}
      BY <3>2
    <3> QED
      BY <3>1, <3>3, StageMatches
  <2> QED
    BY <2>2, <2>3
<1> QED
  BY <1>2, <1>3

\* Whatever the instant of a crash, recovery's checks pass; but for one case: a
\* participant that started before the switch has put the home link into the
\* overlay that the switch had emptied.
LEMMA InvRecoveryPasses ==
    ASSUME Inv, ~Spoilt
    PROVE  RecoveryPasses
<1>1. CASE gate.phase \in {"open", "draining", "stopped"}
  BY <1>1 DEF RecoveryPasses, Inv, SwitchInv, Global, Sealing
<1>2. CASE gate.phase \in AfterSeal /\ journal = None
  <2>1. gate.phase \notin Moving
    BY <1>2 DEF Inv, SwitchInv, Global, Journaled
  <2>2. gate.phase \in {"sealed", "cleanup-rollback", "cleanup-commit"}
    BY <1>2, <2>1 DEF AfterSeal, Moving
  <2>3. IF gate.phase = "cleanup-commit"
        THEN MatchesSealed(files, gate.sealed, {Len(gate.sealed.ops)})
        ELSE MatchesSealed(files, gate.sealed, {0})
    BY <1>2, <2>1, SealMatches
  <2> QED
    BY <1>2, <2>2, <2>3 DEF RecoveryPasses
<1>3. CASE journal # None
  <2>1. OfTransition(journal) /\ InPhase(journal) /\ gate.phase \in AfterSeal
    BY <1>3, JournalFile
  <2>2. gate.intent = [from |-> journal.from, to |-> journal.to, auto |-> gate.intent.auto]
    <3>1. gate.intent \in Intent
      BY <2>1 DEF Inv, TypeInv, LedgerInv, AfterSeal
    <3> QED
      BY <2>1, <3>1 DEF OfTransition, Intent
  <2>3. gate.sealed = [inv |-> journal.inv, ops |-> journal.ops]
    BY <2>1 DEF OfTransition
  <2>4. IF gate.phase = "cleanup-commit" THEN JournalCommitted ELSE CanRollBack
    BY <2>1 DEF OfTransition, JournalCommitted, CanRollBack, Inv, SwitchInv, Global, Agreed,
       AfterSeal
  <2>5. journal.phase = "rollback" => gate.phase # "cleanup-commit"
    BY <2>1 DEF InPhase
  <2>6. MatchesSealed(files, journal,
              IF journal.phase = "rollback"
              THEN {journal.back} \cup {n \in 0 .. 2 : n + 1 = journal.back}
              ELSE {journal.next, journal.next + 1})
    BY <1>3, JournalMatches
  <2> QED
    BY <1>3, <2>2, <2>3, <2>4, <2>5, <2>6 DEF RecoveryPasses
<1> QED
  BY <1>1, <1>2, <1>3 DEF Inv, TypeInv, LedgerInv, LedgerTypeOK, Gate, Phases, AfterSeal

\* An interrupted switch can always be finished, whatever the instant of the
\* crash and however many there have been, unless a participant that was
\* starting has made the home link in the overlay that was being exchanged.
THEOREM OnlyAStartSpoilsRecovery == Spec => [](RecoveryPasses \/ Spoilt)
<1>1. Inv => RecoveryPasses \/ Spoilt
  BY InvRecoveryPasses
<1> QED
  BY <1>1, SwitchInvariant, PTL

\* Without participants that start late, it can always be finished.
THEOREM RecoveryAlwaysPasses == Starters = {} => (Spec => []RecoveryPasses)
<1> SUFFICES ASSUME Starters = {} PROVE Spec => []RecoveryPasses
  OBVIOUS
<1>1. Inv => RecoveryPasses
  BY InvRecoveryPasses DEF Spoilt
<1> QED
  BY <1>1, SwitchInvariant, PTL

-----------------------------------------------------------------------------
(* Every move of a file. *)

\* Who writes the credential files: the journaled operations, their undoing,
\* and the preparation of an overlay.
LEMMA FilesWriters ==
    ASSUME [Next]_vars, files' # files
    PROVE  \/ \E s \in Switchers : ApplyNext(s) \/ UndoNext(s)
           \/ \E p \in Participants : PrepareOverlay(p)
<1>1. ASSUME NEW s \in Switchers, Switcher(s), ~(ApplyNext(s) \/ UndoNext(s))
      PROVE  files' = files
  <2>1. CASE QuietSwitcher(s)
    BY <2>1, QuietSteps
  <2>2. CASE ~QuietSwitcher(s)
    BY <1>1, <2>2 DEF Switcher, Advance, QuietSwitcher, FreezeStep, Drain, Joined, Seal,
         MarkJournal, PublishTransition, OpenGate, Restart, RestartFails, CatchCancels,
         AdoptOwner, RetireForRecovery, MarkRollback, RolledBack
  <2> QED
    BY <2>1, <2>2
<1>2. ASSUME NEW p \in Participants, Participant(p), ~PrepareOverlay(p)
      PROVE  files' = files
  BY <1>2 DEF Participant, StartParticipant, JoinLedger, BeginWork, EndWork, SpawnFamily,
       StopFamily, FinishStop, Close, Die
<1>3. CASE Configure \/ UNCHANGED vars
  BY <1>3 DEF Configure, vars
<1> QED
  BY <1>1, <1>2, <1>3 DEF Next

\* Each of them rearranges what is there, while nobody runs.
LEMMA EveryMove ==
    ASSUME Inv, [Next]_vars, files' # files
    PROVE  Rearranged(files, files', files'[Overlay]) /\ gate.phase \in Moving /\ NoUsers
<1>1. ASSUME NEW s \in Switchers, ApplyNext(s)
      PROVE  Rearranged(files, files', files'[Overlay]) /\ gate.phase \in Moving /\ NoUsers
  BY <1>1, ApplyNextMoves
<1>2. ASSUME NEW s \in Switchers, UndoNext(s)
      PROVE  Rearranged(files, files', files'[Overlay]) /\ gate.phase \in Moving /\ NoUsers
  BY <1>2, UndoNextMoves DEF Moving
<1>3. ASSUME NEW p \in Participants, PrepareOverlay(p)
      PROVE  Rearranged(files, files', files'[Overlay]) /\ gate.phase \in Moving /\ NoUsers
  <2>1. Rearranged(files, files', HomeLink) /\ gate.phase \in Moving /\ NoUsers
    BY <1>3, PrepareMoves
  <2> QED
    BY <2>1 DEF Rearranged
<1> QED
  BY <1>1, <1>2, <1>3, FilesWriters

\* No crash, fault or concurrent start loses a credential or leaves it under
\* two names.
THEOREM NoCredentialIsLost == Spec => NothingLostOrCopied
<1>1. Inv /\ [Next]_vars => [Credentials' = Credentials /\ NoDuplicates(files')]_files
  <2> SUFFICES ASSUME Inv, [Next]_vars, files' # files
               PROVE  Credentials' = Credentials /\ NoDuplicates(files')
    OBVIOUS
  <2>1. files' \in Files /\ InPlace(files') /\ Held(files') = Held(files)
    BY EveryMove DEF Rearranged
  <2> QED
    BY <2>1, InPlaceIsUnique DEF Credentials, Held
<1> QED
  BY <1>1, SwitchInvariant, PTL DEF Spec, NothingLostOrCopied

\* Nobody touches the credential files of a running process.
THEOREM FilesMoveQuietly == Spec => MovesAreQuiet
<1>1. Inv /\ [Next]_vars => [NoUsers /\ gate.phase \notin {"open", "draining"}]_files
  <2> SUFFICES ASSUME Inv, [Next]_vars, files' # files
               PROVE  NoUsers /\ gate.phase \notin {"open", "draining"}
    OBVIOUS
  <2> QED
    BY EveryMove DEF Moving
<1> QED
  BY <1>1, SwitchInvariant, PTL DEF Spec, MovesAreQuiet

-----------------------------------------------------------------------------
(* The atomic switch: what each step is to who sees only the active account, *)
(* the overlay and the leases.                                               *)

SameView ==
    /\ registry'.active = registry.active /\ registry'.generation = registry.generation
    /\ gate'.phase = "open" <=> gate.phase = "open"
    /\ files'[Overlay] = files[Overlay]

LEMMA SeesNothing ==
    ASSUME SameView, UNCHANGED <<work, families>>
    PROVE  UNCHANGED Atomic!vars
BY DEF SameView, Atomic!vars

\* Leases that go.
LEMMA SeesDepartures ==
    ASSUME SameView, work' \subseteq work, families' \subseteq families
    PROVE  Atomic!Next
<1> DEFINE turns(w) == {<<<<"turn", row.participant>>, row.generation>> : row \in w}
           natives(f) == {<<<<"family", row.participant>>, row.generation>> : row \in f}
           before == turns(work) \cup natives(families)
           after == turns(work') \cup natives(families')
           gone == before \ after
<1>1. after \subseteq before
  OBVIOUS
<1>2. after = before \ gone /\ gone \in SUBSET before
  BY <1>1
<1>3. \E some \in SUBSET before : after = before \ some
  BY <1>2
<1> QED
  BY <1>3 DEF SameView, Atomic!Next, Atomic!Depart

\* begin: a turn is admitted at the current generation.
LEMMA SeesTurn ==
    ASSUME Inv, NEW p \in Participants, BeginWork(p)
    PROVE  Atomic!Next
<1> DEFINE turns(w) == {<<<<"turn", row.participant>>, row.generation>> : row \in w}
           natives(f) == {<<<<"family", row.participant>>, row.generation>> : row \in f}
           before == turns(work) \cup natives(families)
           after == turns(work') \cup natives(families')
           lease == [participant |-> p, generation |-> registry.generation]
<1>1. gate.phase = "open" /\ UNCHANGED <<gate, registry, files, families>>
  BY DEF BeginWork, Begin, CanBegin, Frozen
<1>2. work' = work \cup {lease}
  BY DEF BeginWork, Begin, CanBegin, Inv, SwitchInv, Global, Agreed
<1>3. turns(work') = turns(work) \cup {<<<<"turn", p>>, registry.generation>>}
  <2>1. turns({lease}) = {<<<<"turn", p>>, registry.generation>>}
    OBVIOUS
  <2>2. \A w : turns(work \cup w) = turns(work) \cup turns(w)
    OBVIOUS
  <2> HIDE DEF turns, lease
  <2> QED
    BY <1>2, <2>1, <2>2
<1>4. after = before \cup {<<<<"turn", p>>, registry.generation>>}
  <2> HIDE DEF turns
  <2> QED
    BY <1>1, <1>3
<1>5. \E u \in {"turn", "family"} \X Participants : after = before \cup {<<u, registry.generation>>}
  BY <1>4
<1> QED
  BY <1>1, <1>5 DEF Atomic!Next, Atomic!Admit

\* reserveFamily: a native process is admitted at the current generation.
LEMMA SeesFamily ==
    ASSUME Inv, NEW p \in Participants, SpawnFamily(p)
    PROVE  Atomic!Next
<1> DEFINE turns(w) == {<<<<"turn", row.participant>>, row.generation>> : row \in w}
           natives(f) == {<<<<"family", row.participant>>, row.generation>> : row \in f}
           before == turns(work) \cup natives(families)
           after == turns(work') \cup natives(families')
           lease == [participant |-> p, generation |-> registry.generation,
                     account |-> gate.active]
<1>1. gate.phase = "open" /\ UNCHANGED <<gate, registry, files, work>>
  BY DEF SpawnFamily, ReserveFamily, CanReserve, Frozen
<1>2. families' = families \cup {lease}
  BY DEF SpawnFamily, ReserveFamily, Inv, SwitchInv, Global, Agreed
<1>3. natives(families') = natives(families) \cup {<<<<"family", p>>, registry.generation>>}
  <2>1. natives({lease}) = {<<<<"family", p>>, registry.generation>>}
    OBVIOUS
  <2>2. \A f : natives(families \cup f) = natives(families) \cup natives(f)
    OBVIOUS
  <2> HIDE DEF natives, lease
  <2> QED
    BY <1>2, <2>1, <2>2
<1>4. after = before \cup {<<<<"family", p>>, registry.generation>>}
  <2> HIDE DEF natives
  <2> QED
    BY <1>1, <1>3
<1>5. \E u \in {"turn", "family"} \X Participants : after = before \cup {<<u, registry.generation>>}
  BY <1>4
<1> QED
  BY <1>1, <1>5 DEF Atomic!Next, Atomic!Admit

\* A moved file is an exchange under closed admission.
LEMMA SeesMove ==
    ASSUME Inv, [Next]_vars, UNCHANGED ledgerVars, files' # files
    PROVE  Atomic!Next
<1>1. NoUsers /\ gate.phase # "open" /\ files' \in Files /\ InPlace(files')
  BY EveryMove DEF Rearranged, Moving
<1>2. files'[Overlay] \in Managed \cup {HomeLink, Absent}
  BY <1>1 DEF InPlace
<1>3. \E a \in Accounts \cup {Absent} :
         (IF files'[Overlay] = HomeLink THEN Home ELSE files'[Overlay]) = a
  BY <1>2 DEF Accounts
<1>4. UNCHANGED <<gate, registry, work, families>>
  BY DEF ledgerVars
<1> QED
  BY <1>1, <1>3, <1>4 DEF NoUsers, Atomic!Next, Atomic!Exchange

\* publish is the step that switches.
LEMMA SeesCommit ==
    ASSUME Inv, NEW s \in Switchers, PublishTransition(s)
    PROVE  Atomic!Next
<1>1. /\ files[Overlay] = Presented(journal.to) /\ journal # None /\ gate.phase = "journal"
  BY PublishPresents
<1>2. journal.to = gate.intent.to /\ journal.to \in Accounts
  BY <1>1, JournalFile DEF OfTransition, Shaped
<1>3. (IF files[Overlay] = HomeLink THEN Home ELSE files[Overlay]) = gate.intent.to
  BY <1>1, <1>2, ContentsAssumption DEF Presented, Accounts
<1>4. /\ registry'.active = gate.intent.to /\ registry'.generation = registry.generation + 1
      /\ gate'.phase = "cleanup-commit"
      /\ NoUsers /\ UNCHANGED <<files, work, families>>
  BY DEF PublishTransition, Publish, CanPublish, Inv, TypeInv, LedgerInv, LedgerTypeOK,
     Registry, Gate
<1> QED
  BY <1>1, <1>2, <1>3, <1>4 DEF NoUsers, Atomic!Commit, Atomic!Next

\* open, and the cancelling of a drain, readmit users to what is presented.
LEMMA SeesThaw ==
    ASSUME Inv, NEW s \in Switchers,
           OpenGate(s) \/ (CatchCancels(s) /\ CanCancelDrain(token[s]))
    PROVE  Atomic!Next
<1>1. /\ Owns(s) /\ journal = None /\ gate'.phase = "open"
      /\ UNCHANGED <<registry, files, work, families>>
  <2>1. CASE OpenGate(s)
    BY <2>1 DEF OpenGate, Open, CanOpen, Owns
  <2>2. CASE CatchCancels(s) /\ CanCancelDrain(token[s])
    BY <2>2 DEF CatchCancels, CancelDrain, CanCancelDrain, Owns, Inv, TypeInv, LedgerInv,
       LedgerTypeOK, Gate
  <2> QED
    BY <2>1, <2>2
<1>2. gate.phase # "open"
  BY <1>1, OwnerAssumption DEF Inv, TypeInv, LedgerInv, LocalInv, Owns, Owned
<1>3. files[Overlay] = Presented(registry.active) /\ registry.active \in Accounts
  BY <1>1 DEF Inv, SwitchInv, Global, Journaled, Placing, TypeInv, LedgerInv, LedgerTypeOK,
     Registry
<1>4. (IF files[Overlay] = HomeLink THEN Home ELSE files[Overlay]) = registry.active
  BY <1>3, ContentsAssumption DEF Presented, Accounts
<1> QED
  BY <1>1, <1>2, <1>4 DEF Atomic!Thaw, Atomic!Next

LEMMA SwitcherImplements ==
    ASSUME Inv, NEW s \in Switchers, Switcher(s)
    PROVE  [Atomic!Next]_Atomic!vars
<1> gate \in Gate /\ registry \in Registry
  BY DEF Inv, TypeInv, LedgerInv, LedgerTypeOK
<1>1. CASE QuietSwitcher(s)
  <2>1. UNCHANGED <<ledgerVars, files>>
    BY <1>1, QuietSteps
  <2> QED
    BY <2>1, SeesNothing DEF SameView, ledgerVars
<1>2. CASE \E p \in Participants : Restart(s, p) \/ RestartFails(s, p)
  <2>1. UNCHANGED <<gate, registry, work, families, files>>
    BY <1>2 DEF Restart, RestartFails
  <2> QED
    BY <2>1, SeesNothing DEF SameView
<1>3. CASE FreezeStep(s)
  <2>1. /\ gate.phase = "open" /\ gate'.phase = "draining"
        /\ UNCHANGED <<registry, work, families, files>>
    BY <1>3 DEF FreezeStep, Freeze, CanFreeze, Frozen, Gate
  <2> QED
    BY <2>1 DEF Atomic!Freeze, Atomic!Next
<1>4. CASE Drain(s) \/ Joined(s) \/ RetireForRecovery(s)
  <2>1. work' \subseteq work /\ families' \subseteq families
    BY <1>4, FewerRows DEF Drain, Joined, RetireForRecovery
  <2>2. UNCHANGED <<registry, files>>
    BY <1>4 DEF Drain, Joined, RetireForRecovery
  <2>3. gate'.phase = gate.phase \/ (gate.phase = "draining" /\ gate'.phase = "stopped")
    BY <1>4 DEF Drain, Joined, RetireForRecovery, SetPhase, Gate
  <2> QED
    BY <2>1, <2>2, <2>3, SeesDepartures DEF SameView
<1>5. CASE Seal(s) \/ MarkJournal(s) \/ AdoptOwner(s) \/ MarkRollback(s) \/ RolledBack(s)
  <2>1. UNCHANGED <<registry, work, families, files>>
    BY <1>5 DEF Seal, MarkJournal, AdoptOwner, MarkRollback, RolledBack
  <2>2. gate'.phase = "open" <=> gate.phase = "open"
    <3>1. CASE Seal(s)
      BY <3>1 DEF Seal, CanSeal, Gate
    <3>2. CASE MarkJournal(s) \/ RolledBack(s)
      BY <3>2 DEF MarkJournal, RolledBack, SetPhase, Gate
    <3>3. CASE AdoptOwner(s)
      BY <3>3 DEF AdoptOwner, Adopt, Gate
    <3>4. CASE MarkRollback(s)
      <4>1. Owns(s) /\ gate'.phase = "rolling-back"
        BY <3>4 DEF MarkRollback, SetPhase, Owns, Gate
      <4> QED
        BY <4>1, OwnerAssumption DEF Owns, Owned, Inv, TypeInv, LedgerInv, LocalInv
    <3> QED
      BY <1>5, <3>1, <3>2, <3>3, <3>4
  <2> QED
    BY <2>1, <2>2, SeesNothing DEF SameView
<1>6. CASE ApplyNext(s) \/ UndoNext(s)
  <2>1. UNCHANGED ledgerVars
    BY <1>6 DEF ApplyNext, UndoNext
  <2>2. CASE files' = files
    BY <2>1, <2>2, SeesNothing DEF SameView, ledgerVars
  <2>3. CASE files' # files
    <3>1. Next
      BY <1>6 DEF Next, Switcher, Advance
    <3> QED
      BY <2>1, <2>3, <3>1, SeesMove
  <2> QED
    BY <2>2, <2>3
<1>7. CASE PublishTransition(s)
  BY <1>7, SeesCommit
<1>8. CASE OpenGate(s) \/ CatchCancels(s)
  <2>1. CASE CatchCancels(s) /\ ~CanCancelDrain(token[s])
    <3>1. UNCHANGED <<gate, registry, work, families, files>>
      BY <2>1 DEF CatchCancels
    <3> QED
      BY <3>1, SeesNothing DEF SameView
  <2> QED
    BY <1>8, <2>1, SeesThaw
<1> QED
  BY <1>1, <1>2, <1>3, <1>4, <1>5, <1>6, <1>7, <1>8 DEF Switcher, Advance, QuietSwitcher

LEMMA ParticipantImplements ==
    ASSUME Inv, NEW p \in Participants, Participant(p)
    PROVE  [Atomic!Next]_Atomic!vars
<1>1. CASE BeginWork(p) \/ SpawnFamily(p)
  BY <1>1, SeesTurn, SeesFamily
<1>2. CASE EndWork(p) \/ StopFamily(p) \/ FinishStop(p) \/ Close(p)
  <2>1. work' \subseteq work /\ families' \subseteq families
    BY <1>2, FewerRows DEF EndWork, StopFamily, FinishStop, ReleaseFamilies, Close
  <2>2. UNCHANGED <<gate, registry, files>>
    BY <1>2 DEF EndWork, StopFamily, FinishStop, Close
  <2> QED
    BY <2>1, <2>2, SeesDepartures DEF SameView
<1>3. CASE StartParticipant(p) \/ JoinLedger(p) \/ Die(p)
  <2>1. UNCHANGED <<gate, registry, work, families, files>>
    BY <1>3 DEF StartParticipant, JoinLedger, Die, ledgerVars
  <2> QED
    BY <2>1, SeesNothing DEF SameView
<1>4. CASE PrepareOverlay(p)
  <2>1. UNCHANGED ledgerVars
    BY <1>4 DEF PrepareOverlay
  <2>2. CASE files' = files
    BY <2>1, <2>2, SeesNothing DEF SameView, ledgerVars
  <2>3. CASE files' # files
    <3>1. Next
      BY <1>4 DEF Next, Participant
    <3> QED
      BY <2>1, <2>3, <3>1, SeesMove
  <2> QED
    BY <2>2, <2>3
<1> QED
  BY <1>1, <1>2, <1>3, <1>4 DEF Participant

LEMMA StepImplements == Inv /\ [Next]_vars => [Atomic!Next]_Atomic!vars
<1> SUFFICES ASSUME Inv, [Next]_vars PROVE [Atomic!Next]_Atomic!vars
  OBVIOUS
<1>1. CASE Configure
  <2>1. registry \in Registry
    BY DEF Inv, TypeInv, LedgerInv, LedgerTypeOK
  <2>2. SameView /\ UNCHANGED <<work, families>>
    BY <1>1, <2>1 DEF Configure, SetRotation, ObserveLogin, EditRegistry, Registry, SameView
  <2> QED
    BY <2>2, SeesNothing
<1>2. CASE UNCHANGED vars
  BY <1>2, SeesNothing DEF vars, SameView
<1> QED
  BY <1>1, <1>2, SwitcherImplements, ParticipantImplements DEF Next

LEMMA InitImplements == Init => Atomic!Init
<1> SUFFICES ASSUME Init PROVE Atomic!Init
  OBVIOUS
<1>1. /\ gate.phase = "open" /\ work = {} /\ families = {} /\ registry.generation = 0
      /\ registry.active \in Accounts
  <2>1. registry.active \in Accounts
    BY InitTypeInv DEF TypeInv, LedgerInv, LedgerTypeOK, Registry
  <2>2. registry.generation = 0 /\ gate.phase = "open" /\ work = {} /\ families = {}
    BY DEF Init
  <2> QED
    BY <2>1, <2>2
<1>2. files[Overlay] = Presented(registry.active)
  BY <1>1, InitGlobal DEF Global, Placing, Moving
<1>3. (IF files[Overlay] = HomeLink THEN Home ELSE files[Overlay]) = registry.active
  BY <1>1, <1>2, ContentsAssumption DEF Presented, Accounts
<1> QED
  BY <1>1, <1>3 DEF Atomic!Init

\* Every run of the journaled switch, with its crashes, faults and recoveries,
\* is a run of the atomic one: the account changes in one step, while nobody
\* uses it, and admission is open only over its credential.
THEOREM SwitchImplementsAtomicSwitch == Spec => ImplementsAtomicSwitch
<1>1. Init => Atomic!Init
  BY InitImplements
<1>2. Inv /\ [Next]_vars => [Atomic!Next]_Atomic!vars
  BY StepImplements
<1> QED
  BY <1>1, <1>2, SwitchInvariant, PTL DEF Spec, ImplementsAtomicSwitch, Atomic!Spec
-----------------------------------------------------------------------------
(* Past the seal only a crash or a fault stops a switch: every check the   *)
(* owner makes there passes.  Two more parts of the invariant.             *)

\* The journal in the file is of the transaction that the gate's owner holds,
\* whoever has adopted it since.
Claimed == journal # None => journal.transaction = gate.owner.transaction

ReadyPcs == {"adopt", "begin", "mark", "apply", "record", "verify", "open"}

\* What a live switcher carries to the checks that it has still to make.
Ready(s) ==
    /\ pc[s] = "adopt" => token[s].transaction = memo[s].expected.transaction
    /\ pc[s] = "begin" => plan[s].transaction = token[s].transaction /\ journal = None
    /\ pc[s] \in {"begin", "mark", "apply", "record"} => plan[s].revision = registry.revision
    /\ pc[s] \in {"verify", "open"} => NoUsers
    /\ pc[s] = "open" => journal = None /\ gate.phase \notin Moving

Unhindered == Claimed /\ \A s \in Switchers \ dead : Ready(s)

\* Past the seal, and when it recovers what it owns, with no user left, a
\* switcher that is refused has met a link that a start has put in its way.
NothingRefused ==
    \A s \in Switchers \ dead :
        \/ pc[s] \in (HoldPcs \cup {"open"})
        \/ pc[s] = "recover" /\ Owns(s) /\ NoUsers
        => ~Refuses(s) \/ Spoilt

LEMMA ReadyElsewhere ==
    ASSUME NEW s, pc'[s] \notin ReadyPcs
    PROVE  Ready(s)'
BY DEF Ready, ReadyPcs

\* A step of s leaves the locals of the others alone.
Others(s) ==
    \A t \in Switchers \ {s} :
        /\ pc'[t] = pc[t] /\ token'[t] = token[t] /\ memo'[t] = memo[t] /\ plan'[t] = plan[t]
        /\ t \in dead' <=> t \in dead

LEMMA OthersAlone ==
    ASSUME Inv, NEW s \in Switchers, Switcher(s)
    PROVE  Others(s)
<1> USE DEF Others, Goto, Throw, At
<1>0. /\ pc \in [Switchers -> Pcs] /\ token \in [Switchers -> OwnerToken]
      /\ memo \in [Switchers -> Memo] /\ plan \in [Switchers -> SwitchJournal \cup {None}]
  BY DEF Inv, TypeInv, JournalInv, LocalInv
<1>1. CASE \E p \in Participants : SendStop(s, p) \/ Restart(s, p) \/ SkipRestart(s, p)
                                    \/ RestartFails(s, p)
  BY <1>0, <1>1 DEF SendStop, Restart, SkipRestart, RestartFails
<1>2. CASE \/ \E to \in Accounts, auto \in BOOLEAN : Start(s, to, auto)
           \/ FreezeStep(s) \/ FreezeRefused(s) \/ Drain(s) \/ Abort(s) \/ StopReplied(s)
  BY <1>0, <1>2 DEF Start, FreezeStep, FreezeRefused, Drain, Abort, StopReplied
<1>3. CASE AllStopped(s) \/ Joined(s) \/ Reconcile(s) \/ Seal(s) \/ GuardStale(s)
  BY <1>0, <1>3 DEF AllStopped, Joined, Reconcile, Seal, GuardStale
<1>4. CASE BeginJournal(s) \/ MarkJournal(s) \/ ApplyNext(s) \/ RecordNext(s)
           \/ PublishTransition(s) \/ RecordCommit(s)
  BY <1>0, <1>4 DEF BeginJournal, MarkJournal, ApplyNext, RecordNext, PublishTransition,
     RecordCommit, Write
<1>5. CASE RemoveJournal(s) \/ OpenGate(s) \/ Restarted(s) \/ CatchCancels(s) \/ CatchRecovers(s)
  BY <1>0, <1>5 DEF RemoveJournal, OpenGate, Restarted, CatchCancels, CatchRecovers
<1>6. CASE StartRecovery(s) \/ AdoptOwner(s) \/ AdoptRefused(s) \/ RetireForRecovery(s)
           \/ RecoverForward(s)
  BY <1>0, <1>6 DEF StartRecovery, AdoptOwner, AdoptRefused, RetireForRecovery, RecoverForward
<1>7. CASE RecoverBackward(s) \/ MarkRollback(s) \/ UndoNext(s) \/ RecordUndo(s) \/ RolledBack(s)
  BY <1>0, <1>7 DEF RecoverBackward, MarkRollback, UndoNext, RecordUndo, RolledBack, Write
<1>8. CASE Refused(s) \/ Fault(s) \/ Crash(s) \/ Leave(s)
  BY <1>0, <1>8 DEF Refused, Fault, Crash, Leave
<1> QED
  BY <1>1, <1>2, <1>3, <1>4, <1>5, <1>6, <1>7, <1>8 DEF Switcher, Advance

\* The others carry what they did: they have no part in the transition that s
\* owns, and s changes nothing of theirs in one that it does not.
LEMMA OthersReady ==
    ASSUME Inv, Unhindered, NEW s \in Switchers, Others(s),
           \/ Owns(s) \/ gate.phase = "open"
           \/ /\ UNCHANGED <<registry, journal>> /\ gate'.phase = gate.phase
              /\ work' \subseteq work /\ families' \subseteq families
    PROVE  \A t \in Switchers \ dead' : t # s => Ready(t)'
<1> SUFFICES ASSUME NEW t \in Switchers \ dead', t # s PROVE Ready(t)'
  OBVIOUS
<1>1. /\ t \in Switchers \ dead /\ Ready(t)
      /\ pc'[t] = pc[t] /\ token'[t] = token[t] /\ memo'[t] = memo[t] /\ plan'[t] = plan[t]
  BY DEF Others, Unhindered
<1>2. CASE Owns(s) \/ gate.phase = "open"
  <2>1. pc[t] \notin OwnerPcs
    BY <1>1, <1>2, OthersHoldNothing
  <2> QED
    BY <1>1, <2>1 DEF Ready, OwnerPcs
<1>3. CASE /\ UNCHANGED <<registry, journal>> /\ gate'.phase = gate.phase
           /\ work' \subseteq work /\ families' \subseteq families
  BY <1>1, <1>3 DEF Ready, NoUsers
<1> QED
  BY <1>2, <1>3

LEMMA StepReady ==
    ASSUME Inv, Unhindered, NEW s \in Switchers, Others(s), Claimed', Ready(s)',
           \/ Owns(s) \/ gate.phase = "open"
           \/ /\ UNCHANGED <<registry, journal>> /\ gate'.phase = gate.phase
              /\ work' \subseteq work /\ families' \subseteq families
    PROVE  Unhindered'
BY OthersReady DEF Unhindered

\* Steps that leave the gate's row and the journal alone and lead to no check.
LEMMA IdleReady ==
    ASSUME Inv, Unhindered, NEW s \in Switchers, Others(s),
           \/ \E to \in Accounts, auto \in BOOLEAN : Start(s, to, auto)
           \/ \E p \in Participants : SendStop(s, p) \/ Restart(s, p) \/ SkipRestart(s, p)
                                       \/ RestartFails(s, p)
           \/ FreezeRefused(s) \/ Drain(s) \/ Abort(s) \/ StopReplied(s) \/ AllStopped(s)
           \/ Joined(s) /\ gate' = gate /\ Throw(s)
           \/ CatchCancels(s) /\ gate' = gate /\ Goto(s, "exit")
           \/ Reconcile(s) \/ GuardStale(s) \/ Restarted(s) \/ CatchRecovers(s)
           \/ AdoptRefused(s) \/ RetireForRecovery(s)
           \/ Refused(s) \/ Fault(s) \/ Crash(s) \/ Leave(s)
    PROVE  Unhindered'
<1>1. Unmoved
  BY UnmovedSteps
<1>2. gate' = gate
  BY DEF Start, SendStop, Restart, SkipRestart, RestartFails, FreezeRefused, Drain, Abort,
     StopReplied, AllStopped, Reconcile, GuardStale, Restarted, CatchRecovers, AdoptRefused,
     RetireForRecovery, Refused, Fault, Crash, Leave, ledgerVars
<1>3. s \in dead' \/ pc'[s] \notin ReadyPcs
  <2> pc \in [Switchers -> Pcs]
    BY DEF Inv, TypeInv, JournalInv
  <2> USE DEF ReadyPcs, Goto, Throw, At
  <2>1. CASE \E p \in Participants : SendStop(s, p) \/ Restart(s, p) \/ SkipRestart(s, p)
                                      \/ RestartFails(s, p)
    BY <2>1 DEF SendStop, Restart, SkipRestart, RestartFails
  <2>2. CASE \/ \E to \in Accounts, auto \in BOOLEAN : Start(s, to, auto)
             \/ FreezeRefused(s) \/ Drain(s) \/ Abort(s) \/ StopReplied(s) \/ AllStopped(s)
             \/ Joined(s) /\ gate' = gate /\ Throw(s)
             \/ CatchCancels(s) /\ gate' = gate /\ Goto(s, "exit")
    BY <2>2 DEF Start, FreezeRefused, Drain, Abort, StopReplied, AllStopped
  <2>3. CASE Reconcile(s) \/ GuardStale(s) \/ Restarted(s) \/ CatchRecovers(s)
             \/ AdoptRefused(s) \/ RetireForRecovery(s)
    BY <2>3 DEF Reconcile, GuardStale, Restarted, CatchRecovers, AdoptRefused, RetireForRecovery
  <2>4. CASE Refused(s) \/ Fault(s) \/ Crash(s) \/ Leave(s)
    BY <2>4 DEF Refused, Fault, Crash, Leave
  <2> QED
    BY <2>1, <2>2, <2>3, <2>4
<1>4. Claimed'
  BY <1>1, <1>2 DEF Unhindered, Claimed, Unmoved
<1>5. \A t \in Switchers \ dead' : t # s => Ready(t)'
  BY <1>1, <1>2, OthersReady DEF Unmoved
<1>6. s \notin dead' => Ready(s)'
  BY <1>3, ReadyElsewhere
<1> QED
  BY <1>4, <1>5, <1>6 DEF Unhindered

\* A recovery works under the transaction of the owner that it replaces.
LEMMA AdoptionReady ==
    ASSUME Inv, Unhindered, NEW s \in Switchers, Others(s), StartRecovery(s) \/ AdoptOwner(s)
    PROVE  Unhindered'
<1>0. /\ gate \in Gate /\ pc \in [Switchers -> Pcs] /\ token \in [Switchers -> OwnerToken]
      /\ memo \in [Switchers -> Memo] /\ s \in Switchers
  BY DEF Inv, TypeInv, LedgerInv, LedgerTypeOK, JournalInv, LocalInv
<1>1. CASE StartRecovery(s)
  <2>1. /\ gate.phase # "open" /\ Goto(s, "adopt")
        /\ UNCHANGED <<gate, registry, work, families, journal>>
        /\ memo' = [memo EXCEPT ![s] = [@ EXCEPT !.expected = gate.owner, !.caught = TRUE,
                                                 !.generation = gate.generation]]
        /\ token' = [token EXCEPT ![s] =
              [gate.owner EXCEPT !.claim = gate.owner.claim + 1, !.proc = s]]
    BY <1>1 DEF StartRecovery, ledgerVars
  <2>2. gate.owner \in OwnerToken
    BY <2>1 DEF Inv, TypeInv, LedgerInv
  <2>3. /\ pc'[s] = "adopt" /\ memo'[s].expected = gate.owner
        /\ token'[s].transaction = gate.owner.transaction
    BY <1>0, <2>1, <2>2 DEF Goto, OwnerToken, Memo
  <2>4. Ready(s)'
    BY <2>3 DEF Ready
  <2>5. Claimed'
    BY <2>1 DEF Unhindered, Claimed
  <2> QED
    BY <2>1, <2>4, <2>5, StepReady
<1>2. CASE AdoptOwner(s)
  <2>1. /\ s \notin dead /\ pc[s] = "adopt" /\ Goto(s, "retire")
        /\ gate.owner = memo[s].expected /\ gate' = [gate EXCEPT !.owner = token[s]]
        /\ UNCHANGED <<registry, work, families, journal>>
    BY <1>2 DEF AdoptOwner, At, Adopt, CanAdopt, Owned
  <2>2. token[s].transaction = gate.owner.transaction
    BY <2>1 DEF Unhindered, Ready
  <2>3. gate'.owner = token[s] /\ gate'.phase = gate.phase
    BY <1>0, <2>1 DEF Gate
  <2>4. Claimed'
    BY <2>1, <2>2, <2>3 DEF Unhindered, Claimed
  <2>5. Ready(s)'
    BY <1>0, <2>1, ReadyElsewhere DEF Goto, ReadyPcs
  <2> QED
    BY <2>1, <2>3, <2>4, <2>5, StepReady
<1> QED
  BY <1>1, <1>2

\* Steps by which the transition begins and ends find no journal and leave none.
LEMMA GateReady ==
    ASSUME Inv, Unhindered, NEW s \in Switchers, Others(s),
           FreezeStep(s) \/ Joined(s) \/ OpenGate(s) \/ CatchCancels(s)
    PROVE  Unhindered'
<1>0. pc \in [Switchers -> Pcs]
  BY DEF Inv, TypeInv, JournalInv
<1>1. CASE FreezeStep(s) \/ OpenGate(s) \/ (CatchCancels(s) /\ CanCancelDrain(token[s]))
  <2>1. /\ journal' = None
        /\ Owns(s) \/ gate.phase = "open"
        /\ \E there \in {"drain", "restart"} : Goto(s, there)
    BY <1>1 DEF FreezeStep, Freeze, CanFreeze, Frozen, OpenGate, Open, CanOpen, CatchCancels,
       CanCancelDrain, Owns
  <2>2. Claimed' /\ Ready(s)'
    BY <1>0, <2>1, ReadyElsewhere DEF Goto, ReadyPcs, Claimed
  <2> QED
    BY <2>1, <2>2, StepReady
<1>2. CASE CatchCancels(s) /\ ~CanCancelDrain(token[s])
  BY <1>2, IdleReady DEF CatchCancels
<1>3. CASE Joined(s)
  <2>1. CASE gate' = gate /\ Throw(s)
    BY <1>3, <2>1, IdleReady
  <2>2. CASE SetPhase(token[s], "draining", "stopped") /\ Goto(s, "reconcile")
    <3>1. Owns(s) /\ gate.phase = "draining" /\ journal' = journal
      BY <1>3, <2>2 DEF Joined, SetPhase, Owns
    <3>2. journal = None
      BY <3>1 DEF Inv, SwitchInv, Global, Sealing
    <3>3. Claimed' /\ Ready(s)'
      BY <1>0, <2>2, <3>1, <3>2, ReadyElsewhere DEF Goto, ReadyPcs, Claimed
    <3> QED
      BY <3>1, <3>3, StepReady
  <2> QED
    BY <1>3, <2>1, <2>2 DEF Joined
<1> QED
  BY <1>1, <1>2, <1>3

\* The transition forward: what is sealed is begun, done and published.
LEMMA ForwardReady ==
    ASSUME Inv, Inv', Unhindered, NEW s \in Switchers, Others(s),
           Seal(s) \/ BeginJournal(s) \/ MarkJournal(s) \/ ApplyNext(s) \/ RecordNext(s)
           \/ PublishTransition(s) \/ RecordCommit(s) \/ RemoveJournal(s)
    PROVE  Unhindered'
<1>0. /\ pc \in [Switchers -> Pcs] /\ gate \in Gate
      /\ plan \in [Switchers -> SwitchJournal \cup {None}]
  BY DEF Inv, TypeInv, LedgerInv, LedgerTypeOK, JournalInv
<1>1. CASE Seal(s)
  <2>1. /\ Owns(s) /\ gate.phase = "stopped" /\ Goto(s, "begin")
        /\ UNCHANGED <<registry, journal, token>>
        /\ plan'[s].transaction = token[s].transaction /\ plan'[s].revision = registry.revision
    BY <1>0, <1>1 DEF Seal, CanSeal
  <2>2. journal = None
    BY <2>1 DEF Inv, SwitchInv, Global, Sealing
  <2>3. pc'[s] = "begin"
    BY <2>1, Arrived
  <2>4. Claimed' /\ Ready(s)'
    BY <2>1, <2>2, <2>3 DEF Claimed, Ready
  <2> QED
    BY <2>1, <2>4, StepReady
<1>2. CASE BeginJournal(s)
  <2>1. /\ s \notin dead /\ pc[s] = "begin" /\ Write(s, plan[s]) /\ Goto(s, "mark")
        /\ UNCHANGED <<gate, registry>>
    BY <1>2 DEF BeginJournal, At, ledgerVars
  <2>2. Owns(s) /\ journal' = plan[s] /\ plan'[s] = plan[s] /\ pc'[s] = "mark"
    BY <2>1, Written, Arrived
  <2>3. plan[s].transaction = token[s].transaction /\ plan[s].revision = registry.revision
    BY <2>1 DEF Unhindered, Ready
  <2>4. Claimed' /\ Ready(s)'
    BY <2>1, <2>2, <2>3 DEF Claimed, Ready, Owns, Owned
  <2> QED
    BY <2>2, <2>4, StepReady
<1>3. CASE MarkJournal(s) \/ ApplyNext(s)
  <2>1. /\ \E here \in {"mark", "apply"} : At(s, here)
        /\ \E there \in {"apply", "record"} : Goto(s, there)
        /\ UNCHANGED <<registry, journal, plan>> /\ gate'.owner = gate.owner
    BY <1>0, <1>3 DEF MarkJournal, ApplyNext, SetPhase, ledgerVars, Gate
  <2>2. Owns(s) /\ s \notin dead /\ pc[s] \in {"mark", "apply"}
    BY <2>1, JournalInHand DEF HoldPcs
  <2>3. plan[s].revision = registry.revision
    BY <2>2 DEF Unhindered, Ready
  <2>4. pc'[s] \in {"apply", "record"}
    BY <2>1, Arrived
  <2>5. Claimed' /\ Ready(s)'
    BY <2>1, <2>3, <2>4 DEF Unhindered, Claimed, Ready
  <2> QED
    BY <2>2, <2>5, StepReady
<1>4. CASE RecordNext(s)
  <2> DEFINE j == [plan[s] EXCEPT !.next = @ + 1]
  <2>1. At(s, "record") /\ Write(s, j) /\ Goto(s, "apply") /\ UNCHANGED <<gate, registry>>
    BY <1>4 DEF RecordNext, ledgerVars
  <2>2. /\ journal = plan[s] /\ journal # None /\ s \notin dead /\ pc[s] = "record"
        /\ plan[s] \in SwitchJournal
    BY <2>1, JournalInHand DEF HoldPcs
  <2>3. Owns(s) /\ journal' = j /\ plan'[s] = j /\ pc'[s] = "apply"
    BY <2>1, Written, Arrived
  <2>4. j.transaction = plan[s].transaction /\ j.revision = plan[s].revision
    BY <2>2 DEF SwitchJournal
  <2> HIDE DEF j
  <2>5. plan[s].revision = registry.revision
    BY <2>2 DEF Unhindered, Ready
  <2>6. Claimed' /\ Ready(s)'
    BY <2>1, <2>2, <2>3, <2>4, <2>5 DEF Unhindered, Claimed, Ready
  <2> QED
    BY <2>3, <2>6, StepReady
<1>5. CASE PublishTransition(s)
  <2>1. Owns(s) /\ Goto(s, "commit") /\ journal' = journal /\ gate'.owner = gate.owner
    BY <1>0, <1>5 DEF PublishTransition, Publish, CanPublish, Gate, Owns
  <2>2. pc'[s] = "commit"
    BY <2>1, Arrived
  <2>3. Claimed' /\ Ready(s)'
    BY <2>1, <2>2, ReadyElsewhere DEF Unhindered, Claimed, ReadyPcs
  <2> QED
    BY <2>1, <2>3, StepReady
<1>6. CASE RecordCommit(s)
  <2> DEFINE j == [plan[s] EXCEPT !.phase = "committed"]
  <2>1. /\ At(s, "commit") /\ Write(s, j) /\ Goto(s, "verify")
        /\ UNCHANGED <<gate, registry, work, families>>
    BY <1>6 DEF RecordCommit, ledgerVars
  <2>2. /\ journal = plan[s] /\ journal # None /\ s \notin dead /\ pc[s] = "commit"
        /\ plan[s] \in SwitchJournal
    BY <2>1, JournalInHand DEF HoldPcs
  <2>3. Owns(s) /\ journal' = j /\ pc'[s] = "verify"
    BY <2>1, Written, Arrived
  <2>4. j.transaction = plan[s].transaction
    BY <2>2 DEF SwitchJournal
  <2> HIDE DEF j
  <2>5. gate.phase = "cleanup-commit" /\ NoUsers
    BY <2>2 DEF Inv, SwitchInv, Holding, Global, Emptied
  <2>6. Claimed' /\ Ready(s)'
    BY <2>1, <2>2, <2>3, <2>4, <2>5 DEF Unhindered, Claimed, Ready, NoUsers
  <2> QED
    BY <2>3, <2>6, StepReady
<1>7. CASE RemoveJournal(s)
  <2>1. /\ s \notin dead /\ pc[s] = "verify" /\ Goto(s, "open") /\ journal' = None
        /\ Owns(s) /\ UNCHANGED <<gate, work, families>>
    BY <1>7 DEF RemoveJournal, At, CanFinish, ledgerVars
  <2>2. NoUsers /\ gate.phase \notin Moving
    BY <2>1 DEF Unhindered, Ready, Inv, SwitchInv, Holding
  <2>3. pc'[s] = "open"
    BY <2>1, Arrived
  <2>4. Claimed' /\ Ready(s)'
    BY <2>1, <2>2, <2>3 DEF Claimed, Ready, NoUsers
  <2> QED
    BY <2>1, <2>4, StepReady
<1> QED
  BY <1>1, <1>2, <1>3, <1>4, <1>5, <1>6, <1>7

\* Recovery, forward or back: the journal stays of the same transaction.
LEMMA RecoveryReady ==
    ASSUME Inv, Unhindered, NEW s \in Switchers, Others(s),
           RecoverForward(s) \/ RecoverBackward(s) \/ MarkRollback(s) \/ UndoNext(s)
           \/ RecordUndo(s) \/ RolledBack(s)
    PROVE  Unhindered'
<1>0. gate \in Gate
  BY DEF Inv, TypeInv, LedgerInv, LedgerTypeOK
<1>1. CASE RecoverForward(s)
  <2>1. Owns(s) /\ NoUsers /\ Goto(s, "verify") /\ UNCHANGED <<gate, journal, work, families>>
    BY <1>1 DEF RecoverForward, CanFinishWithoutJournal, CanReadJournal, ledgerVars
  <2>2. pc'[s] = "verify"
    BY <2>1, Arrived
  <2>3. Claimed' /\ Ready(s)'
    BY <2>1, <2>2 DEF Unhindered, Claimed, Ready, NoUsers
  <2> QED
    BY <2>1, <2>3, StepReady
<1>2. CASE RecoverBackward(s)
  <2> DEFINE first == IF journal.next < Len(journal.ops) THEN journal.next + 1 ELSE Len(journal.ops)
             j == [journal EXCEPT !.phase = "rollback",
                                  !.back = IF journal.phase = "rollback" THEN @ ELSE first]
  <2>1. journal # None /\ Write(s, j) /\ Goto(s, "rolling") /\ gate' = gate
    BY <1>2 DEF RecoverBackward, CanReadJournal, ledgerVars
  <2>2. Owns(s) /\ journal' = j /\ pc'[s] = "rolling"
    BY <2>1, Written, Arrived
  <2>3. j.transaction = journal.transaction
    BY <2>1, JournalFile DEF SwitchJournal
  <2> HIDE DEF j
  <2>4. Claimed' /\ Ready(s)'
    BY <2>1, <2>2, <2>3, ReadyElsewhere DEF Unhindered, Claimed, ReadyPcs
  <2> QED
    BY <2>2, <2>4, StepReady
<1>3. CASE MarkRollback(s) \/ UndoNext(s)
  <2>1. /\ \E here \in {"rolling", "undo"} : At(s, here)
        /\ \E there \in {"undo", "unrecord"} : Goto(s, there)
        /\ journal' = journal /\ gate'.owner = gate.owner
    BY <1>0, <1>3 DEF MarkRollback, UndoNext, SetPhase, ledgerVars, Gate
  <2>2. Owns(s)
    BY <2>1, JournalInHand DEF HoldPcs
  <2>3. pc'[s] \in {"undo", "unrecord"}
    BY <2>1, Arrived
  <2>4. Claimed' /\ Ready(s)'
    BY <2>1, <2>3, ReadyElsewhere DEF Unhindered, Claimed, ReadyPcs
  <2> QED
    BY <2>2, <2>4, StepReady
<1>4. CASE RecordUndo(s)
  <2> DEFINE j == [plan[s] EXCEPT !.back = @ - 1]
  <2>1. At(s, "unrecord") /\ Write(s, j) /\ Goto(s, "undo") /\ gate' = gate
    BY <1>4 DEF RecordUndo, ledgerVars
  <2>2. journal = plan[s] /\ journal # None /\ plan[s] \in SwitchJournal
    BY <2>1, JournalInHand DEF HoldPcs
  <2>3. Owns(s) /\ journal' = j /\ pc'[s] = "undo"
    BY <2>1, Written, Arrived
  <2>4. j.transaction = plan[s].transaction
    BY <2>2 DEF SwitchJournal
  <2> HIDE DEF j
  <2>5. Claimed' /\ Ready(s)'
    BY <2>1, <2>2, <2>3, <2>4, ReadyElsewhere DEF Unhindered, Claimed, ReadyPcs
  <2> QED
    BY <2>3, <2>5, StepReady
<1>5. CASE RolledBack(s)
  <2>1. /\ At(s, "undo") /\ Goto(s, "verify") /\ UNCHANGED <<journal, work, families>>
        /\ gate.phase = "rolling-back" /\ gate'.owner = gate.owner
    BY <1>0, <1>5 DEF RolledBack, SetPhase, Gate
  <2>2. Owns(s)
    BY <2>1, JournalInHand DEF HoldPcs
  <2>3. NoUsers
    BY <2>1 DEF Inv, SwitchInv, Global, Emptied
  <2>4. pc'[s] = "verify"
    BY <2>1, Arrived
  <2>5. Claimed' /\ Ready(s)'
    BY <2>1, <2>3, <2>4 DEF Unhindered, Claimed, Ready, NoUsers
  <2> QED
    BY <2>2, <2>5, StepReady
<1> QED
  BY <1>1, <1>2, <1>3, <1>4, <1>5

\* A participant takes a lease only while the gate is open, and nobody edits
\* the registry once a transition is sealed.
LEMMA OutsideReady ==
    ASSUME Inv, Unhindered,
           (\E p \in Participants : Participant(p)) \/ Configure \/ UNCHANGED vars
    PROVE  Unhindered'
<1>1. UNCHANGED <<gate, journal, pc, dead, token, memo, plan>>
  BY DEF Participant, StartParticipant, PrepareOverlay, JoinLedger, BeginWork, EndWork,
     SpawnFamily, StopFamily, FinishStop, Close, Die, Configure, ledgerVars, switcherVars, vars
<1>2. Claimed'
  BY <1>1 DEF Unhindered, Claimed
<1>3. ASSUME NEW t \in Switchers \ dead
      PROVE  Ready(t)'
  <2>0. Ready(t)
    BY DEF Unhindered
  <2>1. CASE /\ work' \subseteq work /\ families' \subseteq families
             /\ registry' = registry
    BY <1>1, <2>0, <2>1 DEF Ready, NoUsers
  <2>2. CASE \E p \in Participants : BeginWork(p) \/ SpawnFamily(p)
    <3>1. gate.phase = "open"
      BY <2>2 DEF BeginWork, Begin, CanBegin, SpawnFamily, ReserveFamily, CanReserve, Frozen
    <3>2. pc[t] \notin OwnerPcs
      BY <3>1 DEF Inv, Fence, SingleOwner
    <3> QED
      BY <1>1, <2>0, <3>2 DEF Ready, OwnerPcs
  <2>3. CASE Configure
    <3>1. gate.phase \in {"open", "draining"} /\ UNCHANGED <<work, families>>
      BY <2>3 DEF Configure, SetRotation, ObserveLogin, EditRegistry, CanEdit
    <3>2. pc[t] \notin {"begin", "mark", "apply", "record"}
      BY <3>1 DEF Inv, SwitchInv, Holding
    <3> QED
      BY <1>1, <2>0, <3>1, <3>2 DEF Ready, NoUsers
  <2>4. ASSUME NEW p \in Participants, Participant(p), ~BeginWork(p), ~SpawnFamily(p)
        PROVE  work' \subseteq work /\ families' \subseteq families /\ registry' = registry
    BY <2>4, FewerRows DEF Participant, StartParticipant, PrepareOverlay, JoinLedger, EndWork,
       StopFamily, FinishStop, ReleaseFamilies, Close, Die, ledgerVars
  <2>5. CASE UNCHANGED vars
    BY <2>1, <2>5 DEF vars
  <2> QED
    BY <2>1, <2>2, <2>3, <2>4, <2>5
<1> QED
  BY <1>1, <1>2, <1>3 DEF Unhindered

LEMMA UnhinderedStep == Inv /\ Inv' /\ Unhindered /\ [Next]_vars => Unhindered'
<1> SUFFICES ASSUME Inv, Inv', Unhindered, [Next]_vars PROVE Unhindered'
  OBVIOUS
<1>1. ASSUME NEW s \in Switchers, Switcher(s)
      PROVE  Unhindered'
  <2>1. Others(s)
    BY <1>1, OthersAlone
  <2> QED
    BY <1>1, <2>1, IdleReady, AdoptionReady, GateReady, ForwardReady, RecoveryReady
       DEF Switcher, Advance
<1> QED
  BY <1>1, OutsideReady DEF Next

-----------------------------------------------------------------------------
(* The owner's checks, each from the invariant. *)

\* An operation of a transition can be done, or undone by its inverse, while
\* the overlay shows the account it is about, or nothing.
LEMMA CanMove ==
    ASSUME NEW fs \in Files, InPlace(fs), NEW a \in Accounts, a # Home => a \in Held(fs),
           fs[Overlay] \in {Presented(a), Absent}
    PROVE  CanApply(fs, Outgoing(a)) /\ CanApply(fs, Incoming(a))
<1>1. CASE a = Home
  BY <1>1 DEF CanApply, Outgoing, Incoming, UnlinkOp, LinkOp, Presented
<1>2. CASE a # Home
  <2>1. a \in Managed /\ Presented(a) = a /\ a # Absent
    BY <1>2, ContentsAssumption DEF Accounts, Presented, Absent
  <2>2. fs[a] = a \/ fs[Overlay] = a
    BY <1>2, HeldWhere
  <2>3. fs[Overlay] = a => fs[a] = Absent
    BY <2>1 DEF InPlace
  <2> QED
    BY <1>2, <2>1, <2>2, <2>3 DEF CanApply, Outgoing, Incoming, MoveOp
<1> QED
  BY <1>1, <1>2

\* The accounts of the journal have their credentials.
LEMMA JournalAccounts ==
    ASSUME Inv, NEW j, Shaped(j)
    PROVE  /\ files \in Files /\ InPlace(files)
           /\ j.from \in Accounts /\ (j.from # Home => j.from \in Held(files))
           /\ j.to \in Accounts /\ (j.to # Home => j.to \in Held(files))
<1>1. files \in Files /\ InPlace(files)
  BY DEF Inv, TypeInv, LedgerInv, LedgerTypeOK, SwitchInv, Global, Kept
<1>2. j.from # Home => j.from \in Held(files)
  <2> SUFFICES ASSUME j.from # Home PROVE j.from \in Held(j.inv)
    BY DEF Shaped
  <2>1. j.inv[Overlay] = j.from /\ Overlay \in Paths
    BY DEF Shaped, Presented, Paths
  <2> QED
    BY <2>1 DEF Held, Shaped
<1> QED
  BY <1>1, <1>2 DEF Shaped

\* The layout of the registry's account, when the overlay presents it.
LEMMA LaidOut ==
    ASSUME Inv, NEW active \in Accounts, files[Overlay] = Presented(active)
    PROVE  Layout(files, active, registry.ready)
<1>1. files \in Files /\ InPlace(files) /\ registry.ready \in SUBSET Held(files)
  BY DEF Inv, TypeInv, LedgerInv, LedgerTypeOK, SwitchInv, Global, Kept
<1> QED
  BY <1>1, InPlaceIsLaidOut

\* applyJournal's next operation, or publish when there is none.
LEMMA ApplyIsNotRefused ==
    ASSUME Inv, Unhindered, ~Spoilt, NEW s \in Switchers, At(s, "apply")
    PROVE  IF plan[s].next < Len(plan[s].ops) THEN CanApplyNext(s) ELSE CanPublishPlan(s)
<1> DEFINE j == plan[s]
<1>1. journal = j /\ journal # None /\ Owns(s) /\ s \notin dead /\ pc[s] = "apply"
  BY JournalInHand DEF HoldPcs
<1>2. gate.phase = "journal" /\ j.phase = "forward"
  BY <1>1 DEF Inv, SwitchInv, Holding
<1>3. /\ Shaped(j) /\ OfTransition(j)
      /\ AtStage(j, j.next) \/ AtStage(j, j.next + 1)
  BY <1>1, <1>2, JournalFile DEF Inv, SwitchInv, Global, Placing, UnderWay, Moving
<1>4. /\ files \in Files /\ InPlace(files)
      /\ j.from \in Accounts /\ (j.from # Home => j.from \in Held(files))
      /\ j.to \in Accounts /\ (j.to # Home => j.to \in Held(files))
  BY <1>3, JournalAccounts
<1>5. /\ Len(j.ops) = IF j.from = j.to THEN 0 ELSE 2
      /\ j.next \in 0 .. 2 /\ j.next <= Len(j.ops)
      /\ j.from # j.to => j.ops[1] = Outgoing(j.from) /\ j.ops[2] = Incoming(j.to)
  BY <1>3 DEF Shaped
<1>6. ASSUME NEW n, AtStage(j, n)
      PROVE  \/ n = 0 /\ files[Overlay] = Presented(j.from)
             \/ n = 1 /\ j.from # j.to /\ files[Overlay] = Absent
             \/ n = 2 /\ j.from # j.to /\ files[Overlay] = Presented(j.to)
  BY <1>2, <1>6 DEF AtStage, Spoilt, Moving
<1> HIDE DEF j
<1>7. CASE j.next < Len(j.ops)
  <2>1. j.from # j.to /\ j.next \in {0, 1}
    BY <1>5, <1>7
  <2>2. CASE j.next = 0
    <3>1. files[Overlay] \in {Presented(j.from), Absent}
      BY <1>3, <1>6, <2>2
    <3>2. j.ops[j.next + 1] = Outgoing(j.from)
      BY <1>5, <2>1, <2>2
    <3> QED
      BY <1>1, <1>2, <1>4, <1>7, <3>1, <3>2, CanMove DEF CanApplyNext, j
  <2>3. CASE j.next = 1
    <3>1. files[Overlay] \in {Presented(j.to), Absent}
      BY <1>3, <1>6, <2>3
    <3>2. j.ops[j.next + 1] = Incoming(j.to)
      BY <1>5, <2>1, <2>3
    <3> QED
      BY <1>1, <1>2, <1>4, <1>7, <3>1, <3>2, CanMove DEF CanApplyNext, j
  <2> QED
    BY <2>1, <2>2, <2>3
<1>8. CASE ~(j.next < Len(j.ops))
  <2>1. j.next = Len(j.ops) /\ AtStage(j, Len(j.ops)) /\ Len(j.ops) \in {0, 2}
    BY <1>3, <1>5, <1>6, <1>8
  <2>2. files[Overlay] = Presented(j.to)
    BY <1>5, <1>6, <2>1
  <2>3. MatchesSealed(files, j, {Len(j.ops)})
    <3> DEFINE n == Len(j.ops)
    <3>1. n \in 0 .. 2 /\ n # 1
      BY <2>1
    <3>2. AtStage(journal, n) /\ journal = j
      BY <1>1, <2>1
    <3> HIDE DEF n
    <3>3. MatchesSealed(files, journal, {n})
      BY <1>1, <3>1, <3>2, StageMatches
    <3> QED
      BY <3>2, <3>3 DEF n
  <2>4. Layout(files, j.to, registry.ready)
    BY <1>4, <2>2, LaidOut
  <2>5. /\ registry.revision = j.revision /\ registry.active = gate.intent.from
        /\ registry.generation = gate.generation /\ NoUsers
    BY <1>1, <1>2 DEF Unhindered, Ready, Inv, SwitchInv, Global, Agreed, Emptied, j
  <2> QED
    <3>1. CanPublish(token[s], j.revision)
      BY <1>1, <1>2, <2>5 DEF CanPublish, Owns
    <3>2. CanPublishPlan(s)
      BY <2>3, <2>4, <3>1 DEF CanPublishPlan, j
    <3> QED
      BY <1>8, <3>2 DEF j
<1> QED
  BY <1>7, <1>8 DEF j

\* undo of the operation recorded last, or the end of the rollback.
LEMMA UndoIsNotRefused ==
    ASSUME Inv, ~Spoilt, NEW s \in Switchers, At(s, "undo")
    PROVE  /\ gate.phase = "rolling-back" /\ Owns(s)
           /\ IF plan[s].back > 0 THEN CanUndoNext(s)
                                  ELSE Layout(files, registry.active, registry.ready)
<1> DEFINE j == plan[s]
<1>1. journal = j /\ journal # None /\ Owns(s) /\ s \notin dead /\ pc[s] = "undo"
  BY JournalInHand DEF HoldPcs
<1>2. gate.phase = "rolling-back" /\ j.phase = "rollback"
  BY <1>1 DEF Inv, SwitchInv, Holding
<1>3. /\ Shaped(j) /\ OfTransition(j)
      /\ AtStage(j, j.back) \/ AtStage(j, j.back - 1)
  BY <1>1, <1>2, JournalFile DEF Inv, SwitchInv, Global, Placing, UnderWay, Moving
<1>4. /\ files \in Files /\ InPlace(files)
      /\ j.from \in Accounts /\ (j.from # Home => j.from \in Held(files))
      /\ j.to \in Accounts /\ (j.to # Home => j.to \in Held(files))
  BY <1>3, JournalAccounts
<1>5. /\ Len(j.ops) = IF j.from = j.to THEN 0 ELSE 2
      /\ j.back \in 0 .. 2 /\ j.back <= Len(j.ops)
      /\ j.from # j.to => j.ops[1] = Outgoing(j.from) /\ j.ops[2] = Incoming(j.to)
  BY <1>3 DEF Shaped
<1>6. ASSUME NEW n, AtStage(j, n)
      PROVE  \/ n = 0 /\ files[Overlay] = Presented(j.from)
             \/ n = 1 /\ j.from # j.to /\ files[Overlay] = Absent
             \/ n = 2 /\ j.from # j.to /\ files[Overlay] = Presented(j.to)
  BY <1>2, <1>6 DEF AtStage, Spoilt, Moving
<1>7. registry.active = j.from
  BY <1>2, <1>3 DEF OfTransition, Inv, SwitchInv, Global, Agreed
<1> HIDE DEF j
<1>8. CASE j.back = 0
  <2>1. files[Overlay] = Presented(registry.active)
    BY <1>3, <1>6, <1>7, <1>8
  <2> QED
    BY <1>1, <1>2, <1>4, <1>7, <1>8, <2>1, LaidOut DEF j
<1>9. CASE j.back = 1
  <2>1. files[Overlay] \in {Presented(j.from), Absent}
    BY <1>3, <1>6, <1>9
  <2>2. Inverse(j.ops[j.back]) = Incoming(j.from)
    BY <1>4, <1>5, <1>9, InverseOfMove
  <2> QED
    BY <1>1, <1>2, <1>4, <1>9, <2>1, <2>2, CanMove DEF CanUndoNext, j
<1>10. CASE j.back = 2
  <2>1. files[Overlay] \in {Presented(j.to), Absent}
    BY <1>3, <1>6, <1>10
  <2>2. Inverse(j.ops[j.back]) = Outgoing(j.to)
    BY <1>4, <1>5, <1>10, InverseOfMove
  <2> QED
    BY <1>1, <1>2, <1>4, <1>10, <2>1, <2>2, CanMove DEF CanUndoNext, j
<1> QED
  BY <1>5, <1>8, <1>9, <1>10

\* finishTransition's verification.
LEMMA VerifyIsNotRefused ==
    ASSUME Inv, NEW s \in Switchers, At(s, "verify")
    PROVE  CanFinish(s)
<1>1. s \in Switchers \ dead /\ pc[s] = "verify" /\ Owns(s)
  BY HolderOwns DEF At, OwnerPcs
<1>2. gate.phase \notin Moving /\ gate \in Gate
  BY <1>1 DEF Inv, SwitchInv, Holding, TypeInv, LedgerInv, LedgerTypeOK
<1>3. Layout(files, registry.active, registry.ready)
  BY <1>2, LaidOut DEF Inv, SwitchInv, Global, Placing, TypeInv, LedgerInv, LedgerTypeOK, Registry
<1>4. CASE gate.phase \in AfterSeal
  <2>1. IF gate.phase = "cleanup-commit"
        THEN MatchesSealed(files, gate.sealed, {Len(gate.sealed.ops)})
        ELSE MatchesSealed(files, gate.sealed, {0})
    BY <1>2, <1>4, SealMatches
  <2> QED
    BY <1>1, <1>3, <2>1 DEF CanFinish
<1>5. CASE gate.phase \notin AfterSeal
  <2>1. gate.sealed = None
    BY <1>2, <1>5 DEF AfterSeal, Gate, Phases, Inv, SwitchInv, Global, Sealing
  <2> QED
    BY <1>1, <1>3, <2>1 DEF CanFinish
<1> QED
  BY <1>4, <1>5

\* recoverAccounts, by the owner of a gate that is not open and has no user.
LEMMA RecoverIsNotRefused ==
    ASSUME Inv, Unhindered, ~Spoilt, NEW s \in Switchers, Owns(s), NoUsers
    PROVE  \/ CanFinishWithoutJournal(s)
           \/ /\ CanReadJournal(s)
              /\ IF JournalCommitted THEN Layout(files, registry.active, registry.ready)
                                     ELSE CanRollBack
<1>1. gate.phase # "open" /\ gate \in Gate
  BY OwnerAssumption DEF Owns, Owned, Inv, TypeInv, LedgerInv, LedgerTypeOK, LocalInv
<1>2. CASE journal = None
  <2>1. gate.phase \notin Moving
    BY <1>2 DEF Inv, SwitchInv, Global, Journaled
  <2>2. gate.phase \in {"sealed", "cleanup-commit", "cleanup-rollback"} => gate.sealed # None
    BY DEF Inv, SwitchInv, Global, Sealing, SealedOk
  <2> QED
    BY <1>1, <1>2, <2>1, <2>2 DEF Gate, Phases, Moving, CanFinishWithoutJournal
<1>3. CASE journal # None
  <2>1. /\ journal \in SwitchJournal /\ OfTransition(journal) /\ InPhase(journal)
        /\ gate.phase \in AfterSeal /\ Shaped(journal)
    BY <1>3, JournalFile
  <2>2. MatchesSealed(files, journal,
              IF journal.phase = "rollback"
              THEN {journal.back} \cup {n \in 0 .. 2 : n + 1 = journal.back}
              ELSE {journal.next, journal.next + 1})
    BY <1>3, JournalMatches
  <2>3. MatchesSealed(files, journal,
              IF journal.phase = "rollback"
              THEN {journal.back, IF journal.back = 0 THEN 0 ELSE journal.back - 1}
              ELSE {journal.next, journal.next + 1})
    <3>1. /\ journal.back \in Nat
          /\ {journal.back} \cup {n \in 0 .. 2 : n + 1 = journal.back}
                \subseteq {journal.back, IF journal.back = 0 THEN 0 ELSE journal.back - 1}
      BY <2>1 DEF Shaped
    <3> QED
      BY <2>2, <3>1 DEF MatchesSealed
  <2>4. journal.transaction = token[s].transaction
    BY <1>3 DEF Unhindered, Claimed, Owns, Owned
  <2>5. /\ gate.generation \in {journal.generation, journal.generation + 1}
        /\ journal.from = gate.intent.from /\ journal.to = gate.intent.to
    BY <2>1 DEF OfTransition, Inv, SwitchInv, Global, Agreed
  <2>6. CanReadJournal(s)
    BY <1>3, <2>3, <2>4, <2>5 DEF CanReadJournal
  <2>7. CASE gate.phase = "cleanup-commit"
    <3>1. JournalCommitted
      BY <1>1, <2>1, <2>7 DEF JournalCommitted, OfTransition, Inv, SwitchInv, Global, Agreed
    <3>2. Layout(files, registry.active, registry.ready)
      BY <2>7, LaidOut DEF Moving, Inv, SwitchInv, Global, Placing, TypeInv, LedgerInv,
         LedgerTypeOK, Registry
    <3> QED
      BY <2>6, <3>1, <3>2
  <2>8. CASE gate.phase # "cleanup-commit"
    <3>1. CanRollBack
      BY <1>1, <2>1, <2>8 DEF CanRollBack, OfTransition, Inv, SwitchInv, Global, Agreed
    <3>2. ~JournalCommitted
      BY <2>1, <3>1 DEF CanRollBack, JournalCommitted, SwitchJournal
    <3> QED
      BY <2>6, <3>1, <3>2
  <2> QED
    BY <2>7, <2>8
<1> QED
  BY <1>2, <1>3

LEMMA UnhinderedIsNotRefused == Inv /\ Unhindered => NothingRefused
<1> SUFFICES ASSUME Inv, Unhindered, ~Spoilt, NEW s \in Switchers \ dead,
                    \/ pc[s] \in (HoldPcs \cup {"open"})
                    \/ pc[s] = "recover" /\ Owns(s) /\ NoUsers
             PROVE  ~Refuses(s)
  BY DEF NothingRefused
<1>0. Holding(s) /\ Ready(s) /\ (pc[s] \in OwnerPcs => Owns(s))
  BY HolderOwns DEF Inv, SwitchInv, Unhindered
<1>1. CASE pc[s] = "begin"
  BY <1>0, <1>1 DEF Refuses, Ready, OwnerPcs
<1>2. CASE pc[s] = "mark"
  BY <1>0, <1>2 DEF Refuses, Holding, OwnerPcs
<1>3. CASE pc[s] = "apply"
  BY <1>3, ApplyIsNotRefused DEF Refuses, At
<1>4. CASE pc[s] \in {"record", "commit", "rolling", "unrecord"}
  BY <1>0, <1>4 DEF Refuses, OwnerPcs
<1>5. CASE pc[s] = "undo"
  BY <1>5, UndoIsNotRefused DEF Refuses, At
<1>6. CASE pc[s] = "verify"
  BY <1>6, VerifyIsNotRefused DEF Refuses, At
<1>7. CASE pc[s] = "open"
  <2>1. /\ Owns(s) /\ journal = None /\ NoUsers
        /\ Layout(files, registry.active, registry.ready)
    BY <1>0, <1>7, LaidOut DEF Ready, OwnerPcs, Inv, SwitchInv, Global, Placing, TypeInv,
       LedgerInv, LedgerTypeOK, Registry
  <2> QED
    BY <1>7, <2>1 DEF Refuses, CanOpen, Owns
<1>8. CASE pc[s] = "recover" /\ Owns(s) /\ NoUsers
  BY <1>8, RecoverIsNotRefused DEF Refuses
<1> QED
  BY <1>1, <1>2, <1>3, <1>4, <1>5, <1>6, <1>7, <1>8 DEF HoldPcs

\* Past the seal no check of the code stops the owner of a transition, and none
\* stops a recovery that owns it and finds no user, however often a switch was
\* interrupted before and whoever adopted it: only another crash or fault does,
\* or the one link that a start may have put in the way.
THEOREM OnlyFaultsStopASwitch == Spec => []NothingRefused
<1>1. Init => Unhindered
  BY DEF Init, Unhindered, Claimed, Ready
<1>2. Inv /\ Inv' /\ Unhindered /\ [Next]_vars => Unhindered'
  BY UnhinderedStep
<1>3. Inv /\ Unhindered => NothingRefused
  BY UnhinderedIsNotRefused
<1> QED
  BY <1>1, <1>2, <1>3, SwitchInvariant, PTL DEF Spec
=============================================================================
