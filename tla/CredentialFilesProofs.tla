----------------------- MODULE CredentialFilesProofs -----------------------
(***************************************************************************)
(* What the operations on credential files preserve: the lemmas that the   *)
(* proofs about the account switch rest on.                                *)
(***************************************************************************)
EXTENDS CredentialFiles, TLAPS

\* The three constructors build operations (accounts-files.mts AuthOp).
LEMMA ConstructorsType ==
    /\ LinkOp \in AuthOp /\ UnlinkOp \in AuthOp
    /\ \A cred \in Accounts, from, to \in Paths : MoveOp(cred, from, to) \in AuthOp
BY DEF LinkOp, UnlinkOp, MoveOp, AuthOp

\* inverseAuthOp returns an operation.
LEMMA InverseType ==
    ASSUME NEW op \in AuthOp
    PROVE  Inverse(op) \in AuthOp
<1>1. CASE op.kind = "move"
  <2>1. op.cred \in Accounts /\ op.from \in Paths /\ op.to \in Paths
    BY <1>1 DEF AuthOp
  <2>2. Inverse(op) = MoveOp(op.cred, op.to, op.from)
    BY <1>1 DEF Inverse
  <2> QED
    BY <2>1, <2>2, ConstructorsType
<1>2. CASE op.kind = "link"
  BY <1>2, ConstructorsType DEF Inverse
<1>3. CASE op.kind = "unlink"
  BY <1>3, ConstructorsType DEF Inverse
<1> QED
  BY <1>1, <1>2, <1>3 DEF AuthOp

\* applyAuthOp leaves every path with nothing, the link or a credential.
LEMMA AppliedType ==
    ASSUME NEW fs \in Files, NEW op \in AuthOp
    PROVE  Applied(fs, op) \in Files
<1>1. CASE op.kind = "move"
  BY <1>1 DEF Applied, AuthOp, Files
<1>2. CASE op.kind = "link"
  BY <1>2 DEF Applied, AuthOp, Files, Paths
<1>3. CASE op.kind = "unlink"
  BY <1>3 DEF Applied, AuthOp, Files, Paths
<1> QED
  BY <1>1, <1>2, <1>3 DEF AuthOp

\* A plan has none or two operations, and each of them is one.
LEMMA OperationsType ==
    ASSUME NEW ops \in Operations
    PROVE  /\ Len(ops) \in {0, 2}
           /\ \A n \in 1 .. 2 : n <= Len(ops) => ops[n] \in AuthOp
BY DEF Operations

\* planAuthMoves moves credentials only: what it moves out of the overlay and
\* into it are files, by the layout it has verified.
LEMMA PlanType ==
    ASSUME NEW fs \in Files, NEW active \in Accounts, NEW to \in Accounts, NEW ready,
           CanPlan(fs, active, ready, to)
    PROVE  Plan(fs, active, to) \in Operations
<1>1. CASE to = active
  BY <1>1 DEF Plan, Operations
<1>2. CASE to # active
  <2> DEFINE outgoing == IF active = Home THEN UnlinkOp ELSE MoveOp(fs[Overlay], Overlay, active)
             incoming == IF to = Home THEN LinkOp ELSE MoveOp(fs[to], to, Overlay)
  <2>1. outgoing \in AuthOp
    <3>1. CASE active = Home
      BY <3>1, ConstructorsType
    <3>2. CASE active # Home
      <4>1. fs[Overlay] \in Accounts
        BY <3>2 DEF CanPlan, Layout, IsFile
      <4>2. active \in Paths /\ Overlay \in Paths
        BY <3>2 DEF Accounts, Paths
      <4> QED
        BY <3>2, <4>1, <4>2, ConstructorsType
    <3> QED
      BY <3>1, <3>2
  <2>2. incoming \in AuthOp
    <3>1. CASE to = Home
      BY <3>1, ConstructorsType
    <3>2. CASE to # Home
      <4>1. fs[to] \in Accounts
        BY <1>2, <3>2 DEF CanPlan, IsFile
      <4>2. to \in Paths /\ Overlay \in Paths
        BY <3>2 DEF Accounts, Paths
      <4> QED
        BY <3>2, <4>1, <4>2, ConstructorsType
    <3> QED
      BY <3>1, <3>2
  <2>3. Plan(fs, active, to) = <<outgoing, incoming>>
    BY <1>2 DEF Plan
  <2> QED
    BY <2>1, <2>2, <2>3 DEF Operations
<1> QED
  BY <1>1, <1>2

-----------------------------------------------------------------------------
(* Where credentials are.  A credential is at its own place or, a managed   *)
(* one, in the overlay; so what the overlay holds says where all of them    *)
(* are.                                                                     *)

Presented(account) == IF account = Home THEN HomeLink ELSE account

Held(fs) == {fs[path] : path \in Paths} \cap Accounts

InPlace(fs) ==
    /\ fs[Canonical] \in {Home, Absent}
    /\ \A a \in Managed : fs[a] \in {a, Absent} /\ (fs[Overlay] = a => fs[a] = Absent)
    /\ fs[Overlay] \in Managed \cup {HomeLink, Absent}

\* gs has the credentials of fs, in place, and shows the given overlay.
Rearranged(fs, gs, overlay) ==
    gs \in Files /\ InPlace(gs) /\ Held(gs) = Held(fs) /\ gs[Overlay] = overlay

Outgoing(account) == IF account = Home THEN UnlinkOp ELSE MoveOp(account, Overlay, account)
Incoming(account) == IF account = Home THEN LinkOp ELSE MoveOp(account, account, Overlay)
MovePlan(from, to) == IF to = from THEN <<>> ELSE <<Outgoing(from), Incoming(to)>>

\* What is presented is never nothing, and says which account is meant.
LEMMA PresentedIsOne ==
    /\ \A a \in Accounts : Presented(a) # Absent /\ Presented(a) \in Managed \cup {HomeLink}
    /\ \A a, b \in Accounts : Presented(a) = Presented(b) => a = b
BY ContentsAssumption DEF Presented, Accounts, Absent

LEMMA HeldWhere ==
    ASSUME NEW fs \in Files, InPlace(fs), NEW c \in Accounts
    PROVE  c \in Held(fs) <=> IF c = Home THEN fs[Canonical] = Home
                                         ELSE fs[c] = c \/ fs[Overlay] = c
BY PathsAssumption, ContentsAssumption DEF Held, InPlace, Paths, Accounts, Absent

\* credentialInventory finds no credential under two names.
LEMMA InPlaceIsUnique ==
    ASSUME NEW fs \in Files, InPlace(fs)
    PROVE  NoDuplicates(fs)
BY PathsAssumption, ContentsAssumption
   DEF NoDuplicates, InPlace, IsFile, Accounts, Absent, Paths

\* The overlay determines where everything is.
LEMMA SameFiles ==
    ASSUME NEW fs \in Files, NEW gs \in Files, InPlace(fs), InPlace(gs),
           Held(fs) = Held(gs), fs[Overlay] = gs[Overlay]
    PROVE  fs = gs
<1>1. fs[Canonical] = gs[Canonical]
  BY HeldWhere, ContentsAssumption DEF InPlace, Accounts
<1>2. \A a \in Managed : fs[a] = gs[a]
  BY HeldWhere, ContentsAssumption DEF InPlace, Accounts
<1>3. \A path \in Paths : fs[path] = gs[path]
  BY <1>1, <1>2 DEF Paths
<1> QED
  BY <1>3 DEF Files

\* verifyCredentialLayout passes when the overlay presents the active account
\* and nothing but held credentials counts as logged in.
LEMMA InPlaceIsLaidOut ==
    ASSUME NEW fs \in Files, InPlace(fs), NEW active \in Accounts,
           fs[Overlay] = Presented(active), NEW ready \in SUBSET Held(fs)
    PROVE  Layout(fs, active, ready)
<1>1. NoDuplicates(fs)
  BY InPlaceIsUnique
<1>2. Home \in ready => IsFile(fs[Canonical])
  BY HeldWhere DEF Accounts, IsFile
<1>3. IF active = Home THEN fs[Overlay] = HomeLink ELSE IsFile(fs[Overlay])
  BY DEF Presented, IsFile
<1>4. \A a \in Managed : IF a = active THEN fs[a] = Absent
                                       ELSE a \in ready => IsFile(fs[a])
  BY HeldWhere, PresentedIsOne, ContentsAssumption
     DEF InPlace, Accounts, IsFile, Presented
<1> QED
  BY <1>1, <1>2, <1>3, <1>4 DEF Layout

\* planAuthMoves takes the active account's credential out of the overlay and
\* puts the target's there.
LEMMA PlanIsMovePlan ==
    ASSUME NEW fs \in Files, InPlace(fs), NEW active \in Accounts, NEW to \in Accounts,
           NEW ready, fs[Overlay] = Presented(active), CanPlan(fs, active, ready, to)
    PROVE  /\ Plan(fs, active, to) = MovePlan(active, to)
           /\ to # Home => to \in Held(fs)
<1>1. CASE to = active
  <2>1. to # Home => to \in Held(fs)
    BY <1>1, HeldWhere DEF Presented
  <2> QED
    BY <1>1, <2>1 DEF Plan, MovePlan
<1>2. CASE to # active
  <2>1. to # Home => fs[to] = to
    BY <1>2, ContentsAssumption DEF CanPlan, IsFile, InPlace, Accounts, Absent
  <2>2. to # Home => to \in Held(fs)
    BY <2>1, HeldWhere
  <2>3. active # Home => fs[Overlay] = active
    BY DEF Presented
  <2> QED
    BY <1>2, <2>1, <2>2, <2>3 DEF Plan, MovePlan, Outgoing, Incoming
<1> QED
  BY <1>1, <1>2

\* Undoing the one is doing the other.
LEMMA InverseOfMove ==
    \A a \in Accounts : Inverse(Outgoing(a)) = Incoming(a) /\ Inverse(Incoming(a)) = Outgoing(a)
BY DEF Inverse, Outgoing, Incoming, UnlinkOp, LinkOp, MoveOp

\* applyAuthOp of the outgoing operation clears the overlay and loses nothing.
LEMMA OutgoingApplied ==
    ASSUME NEW fs \in Files, InPlace(fs), NEW a \in Accounts, CanApply(fs, Outgoing(a))
    PROVE  Rearranged(fs, Applied(fs, Outgoing(a)), Absent)
<1> DEFINE gs == Applied(fs, Outgoing(a))
<1>1. CASE a = Home
  <2>1. fs[Overlay] \in {HomeLink, Absent}
    BY <1>1 DEF CanApply, Outgoing, UnlinkOp, LinkOp
  <2>2. gs = [fs EXCEPT ![Overlay] = Absent]
    BY <1>1 DEF Applied, Outgoing, UnlinkOp, LinkOp
  <2>3. gs \in Files /\ gs[Overlay] = Absent /\ \A path \in Paths \ {Overlay} : gs[path] = fs[path]
    BY <2>2 DEF Files, Paths
  <2>4. InPlace(gs)
    BY <2>3, PathsAssumption, ContentsAssumption DEF InPlace, Paths, Absent
  <2>5. Held(gs) = Held(fs)
    BY <2>1, <2>3, ContentsAssumption DEF Held, Accounts, Absent
  <2> QED
    BY <2>3, <2>4, <2>5 DEF Rearranged
<1>2. CASE a # Home
  <2> a \in Managed /\ a \in Paths /\ a # Overlay
    BY <1>2, PathsAssumption DEF Accounts, Paths
  <2>1. \/ fs[Overlay] = a /\ fs[a] = Absent
        \/ fs[Overlay] = Absent /\ fs[a] = a
    BY <1>2 DEF CanApply, Outgoing, MoveOp
  <2>2. gs = [fs EXCEPT ![Overlay] = Absent, ![a] = a]
    BY <1>2 DEF Applied, Outgoing, MoveOp
  <2>3. /\ gs \in Files /\ gs[Overlay] = Absent /\ gs[a] = a
        /\ \A path \in Paths \ {Overlay, a} : gs[path] = fs[path]
    BY <2>2 DEF Files, Paths, Accounts
  <2>4. InPlace(gs)
    BY <2>3, PathsAssumption, ContentsAssumption DEF InPlace, Paths, Absent
  <2>5. \A c \in Accounts : c \in Held(gs) <=> c \in Held(fs)
    BY <2>1, <2>3, <2>4, HeldWhere, PathsAssumption, ContentsAssumption
       DEF Paths, Accounts, Absent
  <2>6. Held(gs) = Held(fs)
    BY <2>5 DEF Held
  <2> QED
    BY <2>3, <2>4, <2>6 DEF Rearranged
<1> QED
  BY <1>1, <1>2

\* applyAuthOp of the incoming operation presents its account.
LEMMA IncomingApplied ==
    ASSUME NEW fs \in Files, InPlace(fs), NEW a \in Accounts, CanApply(fs, Incoming(a))
    PROVE  Rearranged(fs, Applied(fs, Incoming(a)), Presented(a))
<1> DEFINE gs == Applied(fs, Incoming(a))
<1>1. CASE a = Home
  <2>1. fs[Overlay] \in {HomeLink, Absent}
    BY <1>1 DEF CanApply, Incoming, LinkOp
  <2>2. gs = [fs EXCEPT ![Overlay] = HomeLink]
    BY <1>1 DEF Applied, Incoming, LinkOp
  <2>3. gs \in Files /\ gs[Overlay] = HomeLink /\ \A path \in Paths \ {Overlay} : gs[path] = fs[path]
    BY <2>2 DEF Files, Paths
  <2>4. InPlace(gs)
    BY <2>3, PathsAssumption, ContentsAssumption DEF InPlace, Paths, Absent
  <2>5. Held(gs) = Held(fs)
    BY <2>1, <2>3, ContentsAssumption DEF Held, Accounts, Absent
  <2> QED
    BY <1>1, <2>3, <2>4, <2>5 DEF Rearranged, Presented
<1>2. CASE a # Home
  <2> a \in Managed /\ a \in Paths /\ a # Overlay
    BY <1>2, PathsAssumption DEF Accounts, Paths
  <2>1. \/ fs[a] = a /\ fs[Overlay] = Absent
        \/ fs[a] = Absent /\ fs[Overlay] = a
    BY <1>2 DEF CanApply, Incoming, MoveOp
  <2>2. gs = [fs EXCEPT ![a] = Absent, ![Overlay] = a]
    BY <1>2 DEF Applied, Incoming, MoveOp
  <2>3. /\ gs \in Files /\ gs[Overlay] = a /\ gs[a] = Absent
        /\ \A path \in Paths \ {Overlay, a} : gs[path] = fs[path]
    BY <2>2 DEF Files, Paths, Accounts
  <2>4. InPlace(gs)
    BY <2>3, PathsAssumption, ContentsAssumption DEF InPlace, Paths, Absent
  <2>5. \A c \in Accounts : c \in Held(gs) <=> c \in Held(fs)
    BY <2>1, <2>3, <2>4, HeldWhere, PathsAssumption, ContentsAssumption
       DEF Paths, Accounts, Absent
  <2>6. Held(gs) = Held(fs)
    BY <2>5 DEF Held
  <2> QED
    BY <1>2, <2>3, <2>4, <2>6 DEF Rearranged, Presented
<1> QED
  BY <1>1, <1>2

\* The stages of a move: presenting the old account, nothing, the new one.
LEMMA StagesOfMovePlan ==
    ASSUME NEW inv \in Files, InPlace(inv), NEW from \in Accounts, NEW to \in Accounts,
           from # to, inv[Overlay] = Presented(from), to # Home => to \in Held(inv)
    PROVE  /\ Rearranged(inv, After(inv, MovePlan(from, to), 0), Presented(from))
           /\ Rearranged(inv, After(inv, MovePlan(from, to), 1), Absent)
           /\ Rearranged(inv, After(inv, MovePlan(from, to), 2), Presented(to))
<1> DEFINE one == Applied(inv, Outgoing(from))
           two == Applied(one, Incoming(to))
<1>1. CanApply(inv, Outgoing(from))
  BY ContentsAssumption
     DEF CanApply, Outgoing, UnlinkOp, LinkOp, MoveOp, Presented, InPlace, Accounts, Absent
<1>2. Rearranged(inv, one, Absent)
  BY <1>1, OutgoingApplied
<1>3. CanApply(one, Incoming(to))
  <2>1. CASE to = Home
    BY <1>2, <2>1 DEF CanApply, Incoming, LinkOp, Rearranged
  <2>2. CASE to # Home
    <3>1. to \in Held(one) /\ one \in Files /\ InPlace(one) /\ one[Overlay] = Absent
      BY <1>2, <2>2 DEF Rearranged
    <3>2. one[to] = to
      BY <2>2, <3>1, HeldWhere, ContentsAssumption DEF Accounts, Absent
    <3> QED
      BY <2>2, <3>1, <3>2 DEF CanApply, Incoming, MoveOp
  <2> QED
    BY <2>1, <2>2
<1>4. Rearranged(one, two, Presented(to))
  BY <1>2, <1>3, IncomingApplied DEF Rearranged
<1>5. Rearranged(inv, two, Presented(to))
  BY <1>2, <1>4 DEF Rearranged
<1>6. /\ After(inv, MovePlan(from, to), 0) = inv
      /\ After(inv, MovePlan(from, to), 1) = one
      /\ After(inv, MovePlan(from, to), 2) = two
  BY DEF After, MovePlan
<1>7. Rearranged(inv, inv, Presented(from))
  BY DEF Rearranged
<1> QED
  BY <1>2, <1>5, <1>6, <1>7
=============================================================================
