-------------------------- MODULE MCChallengeManager --------------------------
(* Instances of ChallengeManager for TLC; the sizes are in the .cfg files. *)
EXTENDS ChallengeManager, TLC

\* Owners, contexts and ids are interchangeable in every safety property.
Symmetry == Permutations(Owner) \cup Permutations(Context) \cup Permutations(Id)

\* No operation reads the previous reply, and the only properties that read
\* reply are action properties, which TLC evaluates on every transition.
WithoutReply == <<clock, challenges, owners, history>>

\* RetryHonest is checked where its premise on the windows holds, as it does
\* for the default limits.
ASSUME EntriesOutliveNoWindow
===============================================================================
