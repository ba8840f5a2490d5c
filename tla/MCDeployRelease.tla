---------------------------- MODULE MCDeployRelease ----------------------------
(* Small instances of DeployRelease for TLC.                                *)
EXTENDS DeployRelease, TLC

\* Deployers, and releases of one kind, are only compared.
Symmetry == Permutations(Deployer) \cup Permutations(Healthy)

\* result is read only in the step that sets it.
WithoutResult == <<unit, current, entry, service, staged, lock, script, proven,
                   cut>>
================================================================================
