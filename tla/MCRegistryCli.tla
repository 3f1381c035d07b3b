---------------------------- MODULE MCRegistryCli ----------------------------
EXTENDS RegistryCli, TLC

\* Owners, accounts and Ethereum keys appear in no definition by name.
Symmetry == Permutations(Owners) \cup Permutations(Accts)
              \cup Permutations(EthKeys)
=============================================================================
