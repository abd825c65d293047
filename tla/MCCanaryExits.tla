---------------------------- MODULE MCCanaryExits ----------------------------
\* CanaryExits for TLC: one or two processes, two exits of a lot of two fills.
EXTENDS CanaryExits
=============================================================================
