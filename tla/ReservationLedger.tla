-------------------------- MODULE ReservationLedger --------------------------
(***************************************************************************)
(* What the Binance execution service promises of every signal, without   *)
(* its database, workers, fences, retries or crashes: risk is held before  *)
(* an order leaves the process, the order leaves at most once, and the     *)
(* risk stays held until the order is known unsent or is over.             *)
(***************************************************************************)
CONSTANT Signals

VARIABLES
    exposure,   \* "none", "refused", "held" or "released", per signal
    order       \* "none", "open" or "done" at the venue, per signal

promise == <<exposure, order>>

Init ==
    /\ exposure = [s \in Signals |-> "none"]
    /\ order = [s \in Signals |-> "none"]

(* The signal id is burned: it never reserves and never trades.             *)
Refuse(s) ==
    /\ exposure[s] = "none"
    /\ exposure' = [exposure EXCEPT ![s] = "refused"]
    /\ UNCHANGED order

Reserve(s) ==
    /\ exposure[s] = "none"
    /\ exposure' = [exposure EXCEPT ![s] = "held"]
    /\ UNCHANGED order

Send(s) ==
    /\ exposure[s] = "held"
    /\ order[s] = "none"
    /\ order' = [order EXCEPT ![s] = "open"]
    /\ UNCHANGED exposure

(* The venue ends an order, or loses all of them in a reset.                *)
Finish(S) ==
    /\ \A s \in S : order[s] = "open"
    /\ order' = [s \in Signals |-> IF s \in S THEN "done" ELSE order[s]]
    /\ UNCHANGED exposure

(* The reservation of an order that never left, or that is over, returns.   *)
Release(s) ==
    /\ exposure[s] = "held"
    /\ order[s] # "open"
    /\ exposure' = [exposure EXCEPT ![s] = "released"]
    /\ UNCHANGED order

Next ==
    \/ \E s \in Signals : Refuse(s) \/ Reserve(s) \/ Send(s) \/ Release(s)
    \/ \E S \in SUBSET Signals : Finish(S)

Spec == Init /\ [][Next]_promise

-----------------------------------------------------------------------------

(* Types of the two maps.                                                   *)
LedgerTypes ==
    /\ exposure \in [Signals -> {"none", "refused", "held", "released"}]
    /\ order \in [Signals -> {"none", "open", "done"}]

(* An order the venue may still fill is covered by held risk.               *)
OpenIsHeld == \A s \in Signals : order[s] = "open" => exposure[s] = "held"

(* A signal that was refused, or released unsent, never trades: its order   *)
(* is none now, and nothing below lets it be sent.                          *)
RefusedNeverTrades ==
    \A s \in Signals : exposure[s] \in {"none", "refused"} => order[s] = "none"

LedgerInvariant == LedgerTypes /\ OpenIsHeld /\ RefusedNeverTrades

=============================================================================
