-------------------------- MODULE CredentialFiles --------------------------
(***************************************************************************)
(* The auth.json files that an account switch moves, and the operators     *)
(* that plan, apply, undo and verify such a move.                          *)
(*                                                                         *)
(* A path holds nothing (Absent), the overlay's symbolic link to the       *)
(* canonical home (HomeLink), or one account's credential file.  The code  *)
(* identifies a credential by device and inode and never opens it; the     *)
(* model identifies it by the account that it logs in.                     *)
(***************************************************************************)
EXTENDS Naturals, Sequences

CONSTANTS Home,       \* the account of the user's own ~/.codex login
          Managed,    \* the accounts registered with `accounts add`
          Canonical,  \* the path ~/.codex/auth.json
          Overlay,    \* the path ~/.anyengine/codex-home/auth.json
          HomeLink,   \* the overlay's link to Canonical
          None        \* JavaScript's null, and an absent file

ASSUME PathsAssumption ==
    /\ Canonical # Overlay
    /\ Managed \cap {Canonical, Overlay} = {}

ASSUME ContentsAssumption ==
    /\ Home \notin Managed
    /\ HomeLink # None
    /\ {HomeLink, None} \cap ({Home} \cup Managed) = {}

Accounts == {Home} \cup Managed

\* The parked path accounts/openai/<a>/auth.json of a managed account is
\* written as the account itself.
Paths == {Canonical, Overlay} \cup Managed

Absent == None

IsFile(content) == content \in Accounts

Files == [Paths -> Accounts \cup {HomeLink, Absent}]

(***************************************************************************)
(* Operations.  "link" and "unlink" work on the overlay path only, "move"  *)
(* renames the file that was stamped when the operation was planned.       *)
(***************************************************************************)
AuthOp == [kind : {"link", "unlink"}, from : {Overlay}, to : {Overlay}, cred : {HomeLink}]
          \cup [kind : {"move"}, from : Paths, to : Paths, cred : Accounts]

\* A plan: nothing to do, or the outgoing operation and the incoming one.
Operations == {<<>>} \cup (AuthOp \X AuthOp)

LinkOp == [kind |-> "link", from |-> Overlay, to |-> Overlay, cred |-> HomeLink]
UnlinkOp == [LinkOp EXCEPT !.kind = "unlink"]
MoveOp(cred, from, to) == [kind |-> "move", from |-> from, to |-> to, cred |-> cred]

\* applyAuthOp throws unless the operation is still to be done or has been
\* done already.
CanApply(files, op) ==
    \/ /\ op.kind = "move"
       /\ \/ files[op.from] = op.cred /\ files[op.to] = Absent
          \/ files[op.from] = Absent /\ files[op.to] = op.cred
    \/ /\ op.kind \in {"link", "unlink"}
       /\ files[Overlay] \in {HomeLink, Absent}

\* Mutant: a move that copies and leaves the original behind.
AppliedByCopy(files, op) ==
    CASE op.kind = "move"   -> [files EXCEPT ![op.to] = op.cred]
      [] op.kind = "link"   -> [files EXCEPT ![Overlay] = HomeLink]
      [] op.kind = "unlink" -> [files EXCEPT ![Overlay] = Absent]

\* What the paths hold once the operation is done.
Applied(files, op) ==
    CASE op.kind = "move"   -> [files EXCEPT ![op.from] = Absent, ![op.to] = op.cred]
      [] op.kind = "link"   -> [files EXCEPT ![Overlay] = HomeLink]
      [] op.kind = "unlink" -> [files EXCEPT ![Overlay] = Absent]

\* undo() returns early when the operation never happened; the inverse of an
\* operation is idempotent too, so the early return is an instance of it.
Inverse(op) ==
    CASE op.kind = "move"   -> MoveOp(op.cred, op.to, op.from)
      [] op.kind = "link"   -> UnlinkOp
      [] op.kind = "unlink" -> LinkOp

(***************************************************************************)
(* Verification.                                                           *)
(***************************************************************************)
\* credentialInventory refuses one credential under two names.
NoDuplicates(files) ==
    \A p, q \in Paths : IsFile(files[p]) /\ files[p] = files[q] => p = q

\* verifyCredentialLayout: the overlay presents the active account, every
\* other account that is logged in is parked.
Layout(files, active, ready) ==
    /\ NoDuplicates(files)
    /\ Home \in ready => IsFile(files[Canonical])
    /\ IF active = Home THEN files[Overlay] = HomeLink ELSE IsFile(files[Overlay])
    /\ \A a \in Managed : IF a = active THEN files[a] = Absent
                                        ELSE a \in ready => IsFile(files[a])

\* The files as they are after the first n of at most two operations.
After(files, ops, n) ==
    CASE n = 0 -> files
      [] n = 1 -> Applied(files, ops[1])
      [] n = 2 -> Applied(Applied(files, ops[1]), ops[2])

\* verifySealedInventory: the files are the sealed ones with the first n
\* operations done, for one of the given n.
MatchesSealed(files, sealed, counts) ==
    /\ NoDuplicates(files)
    /\ \E n \in counts \cap 0 .. Len(sealed.ops) :
          files = After(sealed.inv, sealed.ops, n)

(***************************************************************************)
(* planAuthMoves: the outgoing operation vacates the overlay path, the     *)
(* incoming one fills it.                                                  *)
(***************************************************************************)
CanPlan(files, active, ready, to) ==
    /\ Layout(files, active, ready)
    /\ to # active /\ to # Home => IsFile(files[to])

Plan(files, active, to) ==
    IF to = active THEN <<>>
    ELSE << IF active = Home THEN UnlinkOp ELSE MoveOp(files[Overlay], Overlay, active),
            IF to = Home THEN LinkOp ELSE MoveOp(files[to], to, Overlay) >>
=============================================================================
