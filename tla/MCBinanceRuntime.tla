--------------------------- MODULE MCBinanceRuntime ---------------------------
\* BinanceRuntime for TLC: two processes of one profile, the one starting while
\* the other runs, stops or has crashed.
EXTENDS BinanceRuntime
=============================================================================
