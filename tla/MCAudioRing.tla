---------------------------- MODULE MCAudioRing ----------------------------
EXTENDS AudioRing
=============================================================================
