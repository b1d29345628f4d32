---------------------------- MODULE MCGuestPorts ----------------------------
EXTENDS GuestPorts
=============================================================================
