--------------------------- MODULE AccountLedger ---------------------------
(***************************************************************************)
(* The account ledger: the SQLite tables that gate admission to the active *)
(* account, and the transactions on them.  Each operator below is one      *)
(* transaction (BEGIN IMMEDIATE .. COMMIT), so it is one atomic step; it    *)
(* says what the transaction requires and how it changes the ledger's own  *)
(* variables.  The modules that use it say who calls it and when.          *)
(***************************************************************************)
EXTENDS CredentialFiles, FiniteSets

CONSTANTS Switchers,     \* processes that run a switch or a recovery
          Participants   \* adapters and brokers that use the active account

VARIABLES
    gate,      \* the row of table gate: admission phase, owner and intent
    registry,  \* the registry row of table metadata, with its revision
    members,   \* table participant: the generation each one is registered at
    work,      \* table work: leases of running turns
    families,  \* table family: credential families of native processes
    journal,   \* the switch journal file, None when there is none
    files      \* the credential files

ledgerVars == <<gate, registry, members, work, families>>

Phases == {"open", "draining", "stopped", "sealed", "journal", "rolling-back",
           "cleanup-commit", "cleanup-rollback"}

\* transaction is named by the switcher that began it, claim counts the
\* adoptions of the transaction, proc is the process that holds it now.
OwnerToken == [transaction : Switchers, claim : Nat, proc : Switchers]

Intent == [from : Accounts, to : Accounts, auto : BOOLEAN]

Sealed == [inv : Files, ops : Operations]

\* Null is no owner and no sealed inventory.
ASSUME OwnerAssumption == None \notin OwnerToken /\ None \notin Sealed

Gate == [active : Accounts, generation : Nat, phase : Phases,
         owner : OwnerToken \cup {None}, intent : Intent \cup {None},
         sealed : Sealed \cup {None}]

Registry == [active : Accounts, generation : Nat, revision : Nat,
             rotation : BOOLEAN, ready : SUBSET Accounts]

WorkLease == [participant : Participants, generation : Nat]
Family == [participant : Participants, generation : Nat, account : Accounts]

Registered == DOMAIN members

NoUsers == work = {} /\ families = {}

Frozen == gate.phase # "open" \/ journal # None

Owned(token) == gate.owner = token

\* The rows that the tables hold, and what is on the disk.
LedgerTypeOK ==
    /\ gate \in Gate
    /\ registry \in Registry
    /\ Registered \subseteq Participants /\ members \in [Registered -> Nat]
    /\ work \subseteq WorkLease /\ families \subseteq Family
    /\ files \in Files

(***************************************************************************)
(* The transition gate.                                                    *)
(***************************************************************************)
CanFreeze(to) ==
    /\ ~Frozen
    /\ registry.active = gate.active
    /\ registry.generation = gate.generation
    /\ to \in registry.ready \cup {Home}

Freeze(token, to, auto) ==
    /\ CanFreeze(to)
    /\ gate' = [gate EXCEPT !.phase = "draining",
                            !.owner = token,
                            !.intent = [from |-> gate.active, to |-> to, auto |-> auto],
                            !.sealed = None]

\* The caller has found the expected owner's process dead.
CanAdopt(expected) == Owned(expected)

Adopt(replacement, expected) ==
    /\ CanAdopt(expected)
    /\ gate' = [gate EXCEPT !.owner = replacement]

SetPhase(token, expected, next) ==
    /\ Owned(token)
    /\ gate.phase = expected
    /\ gate' = [gate EXCEPT !.phase = next]

CanCancelDrain(token) ==
    /\ Owned(token)
    /\ gate.phase = "draining"
    /\ journal = None
    /\ Layout(files, registry.active, registry.ready)

CancelDrain(token) ==
    /\ CanCancelDrain(token)
    /\ gate' = [gate EXCEPT !.phase = "open", !.owner = None, !.intent = None]

CanPublish(token, revision) ==
    /\ Owned(token)
    /\ gate.phase = "journal"
    /\ registry.revision = revision
    /\ registry.active = gate.intent.from
    /\ registry.generation = gate.generation
    /\ NoUsers

\* Mutant: the generation does not move with the account.
PublishKeepingGeneration(token, revision) ==
    /\ CanPublish(token, revision)
    /\ registry' = [registry EXCEPT !.active = gate.intent.to, !.revision = @ + 1]
    /\ gate' = [gate EXCEPT !.active = gate.intent.to, !.phase = "cleanup-commit"]

Publish(token, revision) ==
    /\ CanPublish(token, revision)
    /\ registry' = [registry EXCEPT !.active = gate.intent.to,
                                    !.generation = gate.generation + 1,
                                    !.revision = @ + 1]
    /\ gate' = [gate EXCEPT !.active = gate.intent.to,
                            !.generation = @ + 1,
                            !.phase = "cleanup-commit"]

CanOpen(token) ==
    /\ Owned(token)
    /\ journal = None
    /\ NoUsers
    /\ Layout(files, registry.active, registry.ready)

\* Mutant: the intended account is taken for the registered one.
OpenAtIntent(token) ==
    /\ CanOpen(token)
    /\ gate' = [active |-> gate.intent.to, generation |-> registry.generation,
                phase |-> "open", owner |-> None, intent |-> None, sealed |-> None]

Open(token) ==
    /\ CanOpen(token)
    /\ gate' = [active |-> registry.active, generation |-> registry.generation,
                phase |-> "open", owner |-> None, intent |-> None, sealed |-> None]

(***************************************************************************)
(* Participants and their leases.                                          *)
(***************************************************************************)
RowsOf(table, ps) == {row \in table : row.participant \in ps}

\* A participant registers at the generation it has just read.
CanRegister(p) == ~Frozen /\ p \notin Registered

Register(p) ==
    /\ CanRegister(p)
    /\ members' = [q \in Registered \cup {p} |->
                       IF q = p THEN gate.generation ELSE members[q]]

\* Mutant: the participant's generation is not compared.
CanBeginStale(p) == ~Frozen /\ p \in Registered

\* Mutant: admission is not looked at.
CanBeginFrozen(p) == p \in Registered /\ members[p] = gate.generation

CanBegin(p) ==
    /\ ~Frozen
    /\ p \in Registered
    /\ members[p] = gate.generation

Begin(p) ==
    /\ CanBegin(p)
    /\ work' = work \cup {[participant |-> p, generation |-> members[p]]}

\* Mutant: admission is not looked at.
CanReserveFrozen(p) == p \in Registered

\* A "model" family: it reads the credential of the active account.
CanReserve(p) == ~Frozen /\ p \in Registered

ReserveFamily(p) ==
    /\ CanReserve(p)
    /\ families' = families \cup {[participant |-> p, generation |-> gate.generation,
                                   account |-> gate.active]}

\* releaseFamily of every family of p, all proven to have exited.
ReleaseFamilies(p) == families' = families \ RowsOf(families, {p})

CanRebase(p) ==
    /\ p \in Registered
    /\ gate.phase = "open"
    /\ RowsOf(work, {p}) = {} /\ RowsOf(families, {p}) = {}

Rebase(p) ==
    /\ CanRebase(p)
    /\ members' = [members EXCEPT ![p] = gate.generation]

\* The rows of the given participants go: retireParticipant for one that
\* closes, retireExitedParticipants for those whose process is dead.
Retire(ps) ==
    /\ members' = [p \in Registered \ ps |-> members[p]]
    /\ work' = work \ RowsOf(work, ps)
    /\ families' = families \ RowsOf(families, ps)

(***************************************************************************)
(* editRegistry: anything but active and generation, until the seal.       *)
(***************************************************************************)
CanEdit == gate.phase \in {"open", "draining"}

EditRegistry(rotation, ready) ==
    /\ CanEdit
    /\ registry' = [registry EXCEPT !.rotation = rotation, !.ready = ready,
                                    !.revision = @ + 1]
=============================================================================
