------------------------- MODULE MCClaimableTokens -------------------------
EXTENDS ClaimableTokens
=============================================================================
