----------------------------- MODULE MCRedBlack -----------------------------
EXTENDS RedBlack
=============================================================================
