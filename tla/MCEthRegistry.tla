---------------------------- MODULE MCEthRegistry ----------------------------
EXTENDS EthRegistry, TLC

\* Owners, accounts and Ethereum keys appear in no definition by name.
Symmetry == Permutations(Owners) \cup Permutations(Accts)
              \cup Permutations(EthKeys)

\* State constraint of the timestamp run: no two valid signers of a group
\* hold the same address, so that a violation found there cannot come from
\* one key standing for three accounts.
DistinctValidKeys ==
    \A a, b \in Accts :
        a # b /\ signer[a] \in Valid /\ signer[b] \in Valid => signer[a] # signer[b]
=============================================================================
