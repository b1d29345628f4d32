---------------------------- MODULE MCSocketPump ----------------------------
EXTENDS SocketPump
=============================================================================
