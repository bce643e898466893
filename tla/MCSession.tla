----------------------------- MODULE MCSession -----------------------------
(***************************************************************************)
(* Session on small sets, for TLC.                                         *)
(***************************************************************************)
EXTENDS Session, TLC

\* Objects of one kind, requests and passwords are interchangeable.
Interchangeable ==
    Permutations(LoginVC) \cup Permutations(RegisterVC) \cup
    Permutations(Slot) \cup Permutations(Account) \cup Permutations(Password)
=============================================================================
