---------------------------- MODULE AtomicSwitch ----------------------------
(***************************************************************************)
(* What an account switch promises to the rest of the program: a user of   *)
(* the active account (a running turn, a native process) is admitted at a  *)
(* generation and stays at it; the account changes in one step, with the   *)
(* generation, while nobody uses it; and whenever admission is open the    *)
(* overlay presents the active account's credential.                       *)
(***************************************************************************)
EXTENDS Naturals

CONSTANTS Account, User, NoCredential

VARIABLES active,      \* the account in use
          generation,  \* how often it has changed
          admitting,   \* whether new users are admitted
          presented,   \* the account whose credential the overlay presents
          users        \* who uses the active account, and since when

vars == <<active, generation, admitting, presented, users>>

TypeOK == /\ active \in Account
          /\ generation \in Nat
          /\ admitting \in BOOLEAN
          /\ presented \in Account \cup {NoCredential}
          /\ users \subseteq User \X Nat

Init == /\ active \in Account
        /\ generation = 0
        /\ admitting = TRUE
        /\ presented = active
        /\ users = {}

Admit(u) == /\ admitting
            /\ users' = users \cup {<<u, generation>>}
            /\ UNCHANGED <<active, generation, admitting, presented>>

\* Users leave one by one, or a participant's all at once.
Depart(gone) == /\ users' = users \ gone
                /\ UNCHANGED <<active, generation, admitting, presented>>

Freeze == /\ admitting
          /\ admitting' = FALSE
          /\ UNCHANGED <<active, generation, presented, users>>

\* The credential under the overlay is being exchanged.
Exchange(a) == /\ ~admitting /\ users = {}
               /\ presented' = a
               /\ UNCHANGED <<active, generation, admitting, users>>

Commit(a) == /\ ~admitting /\ users = {}
             /\ presented = a
             /\ active' = a
             /\ generation' = generation + 1
             /\ UNCHANGED <<admitting, presented, users>>

Thaw == /\ ~admitting
        /\ presented = active
        /\ admitting' = TRUE
        /\ UNCHANGED <<active, generation, presented, users>>

Next == \/ \E u \in User : Admit(u)
        \/ \E gone \in SUBSET users : Depart(gone)
        \/ \E a \in Account : Commit(a)
        \/ \E a \in Account \cup {NoCredential} : Exchange(a)
        \/ Freeze
        \/ Thaw

Spec == Init /\ [][Next]_vars
=============================================================================
