---------------------------- MODULE MCBackendRequest ----------------------------
(* An instance of BackendRequest for TLC.                                   *)
EXTENDS BackendRequest

\* Budgets around the call that are spent, shorter, equal and longer.
Budgets == 0..BUDGET + 1
=================================================================================
