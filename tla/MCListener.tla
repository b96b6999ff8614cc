---------------------------- MODULE MCListener ----------------------------
EXTENDS Listener
=============================================================================
