----------------------------- MODULE MCWriteFlow -----------------------------
(* Small instances of WriteFlow for TLC.                                    *)
EXTENDS WriteFlow, TLC

\* All of these are only compared, writes as long as none is made with create_post.
Symmetry ==
    Permutations(Owner) \cup Permutations(Write)
        \cup Permutations(Id) \cup Permutations(Task)

\* reply and outcome are read only in the step that sets them.
WithoutAnswers == <<clock, challenges, owners, boot, grants, accepted,
                  call, wire, commits>>
==============================================================================
