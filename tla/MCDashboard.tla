----------------------------- MODULE MCDashboard -----------------------------
(* One project with two environments, two users and one other operator.    *)
EXTENDS Dashboard, TLC

Symmetric == Permutations(User)

===============================================================================
