------------------------- MODULE MCBinanceExecution -------------------------
(* Small instances of BinanceExecution for TLC.                            *)
EXTENDS BinanceExecutionInvariant

CONSTANTS b1, b2, x1, x2,       \* signals: entries b, exits x
          btc, eth,             \* symbols
          w1, w2,               \* workers
          id1, id2              \* configured identities

(* Every signal whose name is an exit's sells; all on one symbol, or one    *)
(* entry on each of two symbols.                                            *)
MCIntent == [s \in Signals |-> IF s \in {b1, b2} THEN "ENTRY" ELSE "EXIT"]
OneSymbol == [s \in Signals |-> btc]
TwoSymbols == [s \in Signals |-> IF s \in {b2, x2} THEN eth ELSE btc]

=============================================================================
