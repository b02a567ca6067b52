-------------------------- MODULE MCAccountSwitch --------------------------
(* Instances of AccountSwitch for TLC. *)
EXTENDS AccountSwitch, TLC

\* Interchangeable values: the managed accounts, the rotators, the recoverers.
Symmetry ==
    Permutations(Managed) \cup Permutations(Rotators \ Resident) \cup Permutations(Recoverers)

\* Runs in which every account is logged in at first.
LoggedInInit == Init /\ registry.ready = Accounts
LoggedInSpec == LoggedInInit /\ [][Next]_vars

\* Runs that begin on the Home account.
FromHomeInit == Init /\ registry.active = Home
FromHomeSpec == FromHomeInit /\ [][Next]_vars /\ Fairness
=============================================================================
