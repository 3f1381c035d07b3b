------------------------ MODULE MCRewardAttestations ------------------------
EXTENDS RewardAttestations, TLC

\* The payment the backend means by each id.
MCReward == [i \in Ids |-> [recipient |-> CHOOSE r \in Recipients : TRUE,
                             amount |-> 1]]

\* Keys, operators and managers appear in no definition by name.
Symmetry == Permutations(Keys) \cup Permutations(Operators)
              \cup Permutations(Managers)
\* State constraint of the deletion run: senders come and go only by the
\* manager's CreateSender and DeleteSender (no sender-registry attestation
\* is signed), so that a deletion between SubmitAttestations and
\* EvaluateAttestations fits the bounds.
ManagerSendersOnly == signed = {}
=============================================================================
