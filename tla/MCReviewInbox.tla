--------------------------- MODULE MCReviewInbox ---------------------------
EXTENDS ReviewInbox, TLC

CONSTANTS r1, h1, ann, bob, dev

MCRequester == r1 :> dev @@ h1 :> bob
=============================================================================
