--------------------------- MODULE MCRewardManager ---------------------------
EXTENDS RewardManager, TLC

\* Keys, operators and managers are interchangeable in every definition.
Symmetry == Permutations(Keys) \cup Permutations(Operators)
              \cup Permutations(Managers)
=============================================================================
