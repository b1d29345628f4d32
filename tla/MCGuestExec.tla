----------------------------- MODULE MCGuestExec -----------------------------
EXTENDS GuestExec
=============================================================================
