---------------------------- MODULE MCBringup ----------------------------
EXTENDS Bringup
=============================================================================
