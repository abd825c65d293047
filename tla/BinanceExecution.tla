-------------------------- MODULE BinanceExecution --------------------------
(***************************************************************************)
(* The Binance execution service: one durable order-intent row, one risk   *)
(* reservation and a set of trade rows per signal, a control row, and a    *)
(* derived position row per symbol, all in SQLite.  A worker (a process    *)
(* that holds a BinanceExecutionService) runs one service call at a time;  *)
(* every step below is one transaction or one venue call of such a call,   *)
(* so that other workers, the operator, the venue and a crash can come     *)
(* between any two of them.                                                *)
(*                                                                         *)
(* Prices are one quote unit and fees are zero: a notional, a cost basis   *)
(* and a quantity are the same number.                                     *)
(***************************************************************************)
EXTENDS Integers, FiniteSets, Functions

CONSTANTS
    Signals,            \* signal ids; the client order id is a hash of it
    Symbols,            \* traded symbols
    Workers,            \* processes holding a service on the same database
    Identities,         \* configured (binding, envelope, credential) hashes
    Environment,        \* "PAPER" or "TESTNET"
    Intent,             \* [Signals -> {"ENTRY", "EXIT"}]
    Symbol,             \* [Signals -> Symbols]
    MaxQuantity,        \* largest order quantity
    MaxAggregate,       \* envelope.max_aggregate_exposure
    MaxReserved,        \* envelope.max_reserved_exposure
    MaxPositions,       \* envelope.max_positions
    MaxSubmissions,     \* envelope.max_submissions_per_day
    UnknownFeeSymbols,  \* symbols whose commission asset cannot be valued
    MaxGeneration,      \* bound: control changes explored
    MaxRestarts,        \* bound: process deaths explored
    MaxDay,             \* bound: UTC days explored
    VenueResets         \* bound: may the venue lose its history, once

NoSignal == "no signal"

ASSUME ConstantsAssumption ==
    /\ IsFiniteSet(Signals) /\ IsFiniteSet(Symbols) /\ IsFiniteSet(Workers)
    /\ NoSignal \notin Signals
    /\ Environment \in {"PAPER", "TESTNET"}
    /\ Intent \in [Signals -> {"ENTRY", "EXIT"}]
    /\ Symbol \in [Signals -> Symbols]
    /\ MaxQuantity \in Nat \ {0}
    /\ MaxAggregate \in Nat /\ MaxReserved \in Nat
    /\ MaxPositions \in Nat /\ MaxSubmissions \in Nat
    /\ UnknownFeeSymbols \subseteq Symbols
    /\ MaxGeneration \in Nat /\ MaxRestarts \in Nat
    /\ MaxDay \in Nat \ {0} /\ VenueResets \in BOOLEAN
    /\ Workers # {} /\ Identities # {}

VARIABLES
    control,    \* the singleton control row
    intents,    \* order intent row per signal ("none": no row)
    held,       \* risk reservation per signal: "none", "HELD", "RELEASED"
    fills,      \* quantity covered by durable trade rows, per signal
    position,   \* position row per symbol, as last recomputed
    account,    \* last account payload stored by update_account
    day,        \* the UTC day, from 1
    venue,      \* the venue's own order book, one order per client order id
    calls,      \* history: place_limit_order calls that left the process
    barred,     \* history: has the operator disarmed or killed, and which
                \* unsent orders did an operator's change catch
    worker,     \* volatile: program counter and locals of each worker
    restarts    \* history: process deaths so far

ledger == <<intents, held, fills, position, account>>
market == <<venue, calls>>
vars == <<control, intents, held, fills, position, account, day, venue, calls,
          barred, worker, restarts>>

-----------------------------------------------------------------------------
(* Names of the states                                                     *)

Terminal == {"REJECTED", "FILLED", "CANCELED", "EXPIRED"}
Stopped  == {"DISABLED", "DISARMED", "KILLED"}
Live     == {"RESERVED", "SUBMITTING", "UNKNOWN", "ACKNOWLEDGED",
             "PARTIALLY_FILLED"}

Quantity == 0..MaxQuantity

NoRow == [state |-> "none", generation |-> 0, qty |-> 0, cumulative |-> 0,
          day |-> 0]

NoResponse == [state |-> "none", cumulative |-> 0, trades |-> 0]

(* The order rows a reconcile pass read when it began, "none" once done.    *)
NoRows == [s \in Signals |-> [state |-> "none", cumulative |-> 0]]

Idle(i) == [pc |-> "idle", sig |-> NoSignal, resp |-> NoResponse,
            then |-> "release", after |-> "idle", rows |-> NoRows, syms |-> {},
            failed |-> FALSE, missing |-> FALSE, identity |-> i]

Entries == {s \in Signals : Intent[s] = "ENTRY"}
Exits   == Signals \ Entries
Of(sym) == {s \in Signals : Symbol[s] = sym}
Held    == {s \in Signals : held[s] = "HELD"}

Min2(a, b) == IF a < b THEN a ELSE b
Max2(a, b) == IF a < b THEN b ELSE a

-----------------------------------------------------------------------------
(* Risk: the snapshot of the ledgers and the assessment of an order        *)

Remainder(s) == Max2(0, intents[s].qty - fills[s])
Remainders == [s \in Signals |-> Remainder(s)]

(* Inventory an exit may sell: TESTNET reads the position ledger only;      *)
(* PAPER falls back on the account payload when the ledger holds nothing.   *)
InventoryIgnoringOpenExits(sym) == position[sym].qty
Inventory(sym) ==
    LET owned == IF position[sym].qty > 0 THEN position[sym].qty
                 ELSE IF Environment = "PAPER" THEN account.inventory[sym]
                 ELSE 0
    IN  Max2(0, owned - SumFunctionOnSet(Remainders, Exits \cap Of(sym) \cap Held))

HeldBuys == SumFunctionOnSet([s \in Signals |-> intents[s].qty], Entries \cap Held)

AggregateExposureOfPositions == SumFunction([sym \in Symbols |-> position[sym].qty])
AggregateExposure ==
    IF Environment = "TESTNET"
      THEN SumFunction([sym \in Symbols |-> position[sym].qty]) + HeldBuys
      ELSE HeldBuys

OwnedPositions ==
    LET rows == {sym \in Symbols : position[sym].qty > 0}
    IN  IF rows # {} THEN Cardinality(rows)
        ELSE Cardinality({sym \in Symbols : Inventory(sym) > 0})

SubmittedToday(S) == Cardinality({s \in S : intents[s].day = day})

EntrySubmissionsOfOpenOrders == SubmittedToday(Entries \cap Held)
EntrySubmissions ==
    IF Environment = "TESTNET" THEN SubmittedToday(Entries) ELSE 0
ExitSubmissions ==
    IF Environment = "TESTNET" THEN SubmittedToday(Exits) ELSE account.exits

(* Trade rows whose fee cannot be valued; TESTNET looks at today's trades   *)
(* themselves, so it need not wait for the position row.  (The venue keeps  *)
(* the day of an order's last trade: IOC and FOK orders trade at once.)     *)
Unvalued == {s \in Signals : fills[s] > 0 /\ Symbol[s] \in UnknownFeeSymbols}
UnvaluedToday == {s \in Unvalued : venue[s].day = day}

AccountPausedByRowsOnly == \E sym \in Symbols : position[sym].unknown
AccountPaused ==
    \/ \E sym \in Symbols : position[sym].unknown
    \/ /\ Environment = "TESTNET"
       /\ control.state = "PAUSED" \/ UnvaluedToday # {}

AssessEntry(q) ==
    /\ AggregateExposure + q <= MaxAggregate
    /\ HeldBuys + q <= MaxReserved
    /\ OwnedPositions < MaxPositions
    /\ EntrySubmissions + 1 <= MaxSubmissions
    /\ ~AccountPaused

AssessExit(sym, q) ==
    /\ q <= Inventory(sym)
    /\ ExitSubmissions + 1 <= MaxSubmissions
    /\ ~AccountPaused

(* TESTNET runs the dynamic entry policy: an exit needs a durable origin.   *)
OriginResolved(s) ==
    Environment = "TESTNET" /\ Intent[s] = "EXIT" => position[Symbol[s]].qty > 0

-----------------------------------------------------------------------------
(* Initial state: an empty database, control DISABLED, nothing at the venue *)

Init ==
    /\ \E i \in Identities :
        /\ control = [state |-> "DISABLED", generation |-> 0,
                      authorized |-> FALSE, kill |-> FALSE,
                      identity |-> i, reset |-> FALSE]
        /\ worker = [w \in Workers |-> Idle(i)]
    /\ intents = [s \in Signals |-> NoRow]
    /\ held = [s \in Signals |-> "none"]
    /\ fills = [s \in Signals |-> 0]
    /\ position = [sym \in Symbols |-> [qty |-> 0, unknown |-> FALSE]]
    /\ account = [inventory |-> [sym \in Symbols |-> 0], exits |-> 0]
    /\ day = 1
    /\ venue = [s \in Signals |-> [status |-> "absent", filled |-> 0, day |-> 0]]
    /\ calls = [s \in Signals |-> 0]
    /\ barred = [plane |-> FALSE, orders |-> {}]
    /\ restarts = 0

-----------------------------------------------------------------------------
(* Control row                                                             *)

Authorized(w) == control.authorized /\ control.identity = worker[w].identity

SetControlInPlace(state, reset) ==
    control' = [control EXCEPT
        !.state = state,
        !.authorized = @ /\ state # "KILLED",
        !.kill = (state = "KILLED"),
        !.reset = reset]

(* _set_control: every change bumps the generation; only a kill revokes the *)
(* authorization, and any other change clears kill_requested.               *)
SetControl(state, reset) ==
    control' = [control EXCEPT
        !.state = state,
        !.generation = @ + 1,
        !.authorized = @ /\ state # "KILLED",
        !.kill = (state = "KILLED"),
        !.reset = reset]

(* Bound: what may or may not happen to change the control row (an operator *)
(* action, a failing call) stops happening at MaxGeneration; the pauses     *)
(* that follow from it are never held back.                                 *)
MayChange == control.generation < MaxGeneration

EnableAutoCanary(w) ==
    /\ MayChange
    /\ control' = [state |-> "ARMED", generation |-> control.generation + 1,
                   authorized |-> TRUE, kill |-> FALSE,
                   identity |-> worker[w].identity, reset |-> FALSE]
    /\ barred' = [barred EXCEPT !.plane = FALSE]
    /\ UNCHANGED <<ledger, day, market, worker, restarts>>

Unsent(s) ==
    calls[s] = 0 /\ \A w \in Workers : worker[w].pc = "call" => worker[w].sig # s

Operator(state) ==
    /\ MayChange
    /\ SetControl(state, FALSE)
    /\ barred' = [plane |-> barred.plane \/ state # "PAUSED",
                  orders |-> barred.orders \cup
                        {s \in Signals : intents[s].state # "none" /\ Unsent(s)}]
    /\ UNCHANGED <<ledger, day, market, worker, restarts>>

Blocked(w, s) ==
    \/ ~Authorized(w)
    \/ control.state \in Stopped
    \/ Intent[s] = "ENTRY" /\ control.state = "PAUSED"

(* _fence: the control row still is the one the order was reserved under.   *)
FenceIgnoringGeneration(w, s) ==
    control.state \notin Stopped /\ Authorized(w)
FenceAuthorizedOnly(w, s) == Authorized(w)
Fence(w, s) ==
    /\ control.generation = intents[s].generation
    /\ ~control.kill
    /\ control.state \notin Stopped
    /\ Intent[s] = "ENTRY" => control.state = "ARMED"
    /\ Authorized(w)

-----------------------------------------------------------------------------
(* Steps shared by the service calls                                       *)

Goto(w, pc) == worker' = [worker EXCEPT ![w].pc = pc]
Return(w)   == worker' = [worker EXCEPT ![w] = Idle(worker[w].identity)]

(* _set_unknown never touches a terminal row; it drops the last payload.    *)
SetUnknownAlways(s) ==
    intents' = [intents EXCEPT ![s].state = "UNKNOWN", ![s].cumulative = 0]
SetUnknown(s) ==
    intents' = [intents EXCEPT ![s] =
        IF @.state \in Terminal THEN @
        ELSE [@ EXCEPT !.state = "UNKNOWN", !.cumulative = 0]]

MergeOrderState(current, observed, original, filled) ==
    CASE current \in Terminal -> current
      [] current \notin Terminal /\ filled >= original
           /\ (current = "PARTIALLY_FILLED"
               \/ observed \in {"CANCELED", "EXPIRED", "FILLED"}) -> "FILLED"
      [] current \notin Terminal /\ observed \in {"CANCELED", "EXPIRED"}
           /\ filled < original -> observed
      [] current = "PARTIALLY_FILLED" /\ filled < original
           /\ observed \notin {"CANCELED", "EXPIRED"} -> "PARTIALLY_FILLED"
      [] OTHER -> IF observed = "PARTIALLY_FILLED" \/ filled > 0
                    THEN "PARTIALLY_FILLED"
                    ELSE observed

(* _insert_fills_locked: trade ids deduplicate, so n listed trades leave    *)
(* the ledger with the larger of what it had and what was listed.           *)
CoveredWithoutDedupe(s, n) == fills[s] + n
Covered(s, n) == Max2(fills[s], n)

(* _filled_evidence_sufficient, of a row just read or read earlier: trade   *)
(* rows cover the quantity its payload reports, or else the order quantity. *)
FilledIsEvidence(s, row) == row.state = "FILLED"
FilledEvidenceSufficient(s, row) ==
    /\ row.state = "FILLED"
    /\ fills[s] >= IF row.cumulative > 0 THEN row.cumulative ELSE intents[s].qty

ReleaseIfDone(s) ==
    held' = [held EXCEPT ![s] =
        IF /\ @ = "HELD"
           /\ intents[s].state \in Terminal
           /\ intents[s].state = "FILLED" => FilledEvidenceSufficient(s, intents[s])
        THEN "RELEASED" ELSE @]

FilledOn(S) == SumFunctionOnSet(fills, S)

NetPosition(sym) ==
    [qty |-> Max2(0, FilledOn(Entries \cap Of(sym)) - FilledOn(Exits \cap Of(sym))),
     unknown |-> /\ sym \in UnknownFeeSymbols
                 /\ \E s \in Of(sym) : fills[s] > 0]

-----------------------------------------------------------------------------
(* submit_signal.  The checks before _reserve_and_send are repeated inside  *)
(* its transaction, so the decision is one step: reject and burn the signal *)
(* id, or reserve risk and go on to the venue.                              *)

FreshUnlessOpen(s) == held[s] # "HELD"
Fresh(s) == intents[s].state = "none"

(* A rejection is always possible: deadline, sizing, market data, origin    *)
(* and peer checks are inputs here.                                         *)
RejectSignal(w, s) ==
    /\ worker[w].pc = "idle"
    /\ Fresh(s)
    /\ intents' = [intents EXCEPT ![s] =
            [NoRow EXCEPT !.state = "REJECTED",
                          !.generation = control.generation]]
    /\ UNCHANGED <<control, held, fills, position, account, day, market,
                   barred, worker, restarts>>

ReserveAndSend(w, s, q) ==
    /\ worker[w].pc = "idle"
    /\ Fresh(s)
    /\ ~Blocked(w, s)
    /\ OriginResolved(s)
    /\ IF Intent[s] = "ENTRY" THEN AssessEntry(q) ELSE AssessExit(Symbol[s], q)
    /\ intents' = [intents EXCEPT ![s] =
            [NoRow EXCEPT !.state = "RESERVED", !.qty = q,
                          !.generation = control.generation]]
    /\ held' = [held EXCEPT ![s] = "HELD"]
    /\ worker' = [worker EXCEPT ![w].pc = "claim", ![w].sig = s]
    /\ UNCHANGED <<control, fills, position, account, day, market, barred,
                   restarts>>

ExpireAfterTheCall(w) ==
    LET s == worker[w].sig IN
    /\ worker[w].pc \in {"claim", "final", "call", "await"}
    /\ intents' = [intents EXCEPT ![s].state = "REJECTED"]
    /\ held' = [held EXCEPT ![s] = "RELEASED"]
    /\ Return(w)
    /\ UNCHANGED <<control, fills, position, account, day, market, barred,
                   restarts>>

(* _expire_unsent: known unsent, so the row is rejected and released.       *)
ExpireUnsent(w) ==
    LET s == worker[w].sig IN
    /\ worker[w].pc \in {"claim", "final", "call"}
    /\ IF intents[s].state \in {"RESERVED", "SUBMITTING"}
         THEN /\ intents' = [intents EXCEPT ![s].state = "REJECTED"]
              /\ held' = [held EXCEPT ![s] = "RELEASED"]
         ELSE UNCHANGED <<intents, held>>
    /\ Return(w)
    /\ UNCHANGED <<control, fills, position, account, day, market, barred,
                   restarts>>

(* _claim: RESERVED -> SUBMITTING, or the call returns with what it found.  *)
Claim(w) ==
    LET s == worker[w].sig IN
    /\ worker[w].pc = "claim"
    /\ IF intents[s].state = "RESERVED"
         THEN /\ intents' = [intents EXCEPT ![s].state = "SUBMITTING",
                                            ![s].day = day]
              /\ Goto(w, "fence")
         ELSE UNCHANGED intents /\ Return(w)
    /\ UNCHANGED <<control, held, fills, position, account, day, market,
                   barred, restarts>>

FenceRejected(w) ==
    LET s == worker[w].sig IN
    /\ ~Fence(w, s)
    /\ SetUnknown(s)
    /\ Return(w)
    /\ UNCHANGED <<control, held, fills, position, account, day, market,
                   barred, restarts>>

FirstFence(w) ==
    /\ worker[w].pc = "fence"
    /\ \/ FenceRejected(w)
       \/ /\ Fence(w, worker[w].sig)
          /\ Goto(w, "final")
          /\ UNCHANGED <<control, ledger, day, market, barred, restarts>>

(* _final_submit_fence: the last durable check, one transaction.            *)
FinalSubmitFence(w) ==
    LET s == worker[w].sig IN
    /\ worker[w].pc = "final"
    /\ IF intents[s].state # "SUBMITTING"
         THEN Return(w) /\ UNCHANGED <<control, ledger, day, market, barred, restarts>>
         ELSE \/ FenceRejected(w)
              \/ /\ Fence(w, s)
                 /\ OriginResolved(s)
                 /\ Goto(w, "call")
                 /\ UNCHANGED <<control, ledger, day, market, barred, restarts>>

(* The venue call itself: the request leaves the process.                   *)
NetworkSubmit(w) ==
    LET s == worker[w].sig IN
    /\ worker[w].pc = "call"
    /\ venue' = [venue EXCEPT ![s].status =
                    IF @ = "absent" THEN "inflight" ELSE @]
    /\ calls' = [calls EXCEPT ![s] = @ + 1]
    /\ Goto(w, "await")
    /\ UNCHANGED <<control, ledger, day, barred, restarts>>

-----------------------------------------------------------------------------
(* What the venue answers: a snapshot of the order at this moment           *)

Known(s) == venue[s].status \in {"NEW", "FILLED", "CANCELED", "EXPIRED"}

Observed(s) ==
    CASE venue[s].status # "NEW" -> venue[s].status
      [] venue[s].filled = 0 -> "ACKNOWLEDGED"
      [] OTHER -> "PARTIALLY_FILLED"

Snapshot(s, trades) ==
    [state |-> Observed(s), cumulative |-> venue[s].filled, trades |-> trades]

(* A submission response carries either no trade rows or all of them.       *)
Acknowledged(w) ==
    LET s == worker[w].sig IN
    /\ worker[w].pc = "await"
    /\ Known(s) \/ venue[s].status = "REJECTED"
    /\ IF control.generation # intents[s].generation \/ control.kill
         THEN SetUnknown(s) /\ Return(w)
         ELSE /\ \E trades \in {0, venue[s].filled} :
                    worker' = [worker EXCEPT ![w].pc = "apply",
                                             ![w].resp = Snapshot(s, trades)]
              /\ UNCHANGED intents
    /\ UNCHANGED <<control, held, fills, position, account, day, market,
                   barred, restarts>>

(* Timeout, exception, rate limit, malformed or foreign response.           *)
Ambiguous(w) ==
    /\ worker[w].pc = "await"
    /\ SetUnknown(worker[w].sig)
    /\ Return(w)
    /\ UNCHANGED <<control, held, fills, position, account, day, market,
                   barred, restarts>>

(* _apply_order_result: trade rows, merged state and payload, one           *)
(* transaction; the position and the reservation follow in their own.       *)
ApplyOrderResult(w) ==
    LET s == worker[w].sig
        r == worker[w].resp
        row == intents[s]
        covered == Covered(s, r.trades)
        underEvidenced == r.state \in {"CANCELED", "EXPIRED"} /\ r.cumulative > covered
        target == IF underEvidenced THEN "UNKNOWN"
                  ELSE MergeOrderState(row.state, r.state, row.qty,
                                       Max2(r.cumulative, covered))
    IN
    /\ worker[w].pc = "apply"
    /\ fills' = [fills EXCEPT ![s] = covered]
    /\ intents' = [intents EXCEPT ![s].state = target,
                                  ![s].cumulative = r.cumulative]
    /\ worker' = [worker EXCEPT
            ![w].pc = IF covered > fills[s] THEN "recompute" ELSE "release",
            ![w].then = "release"]
    /\ UNCHANGED <<control, held, position, account, day, market, barred, restarts>>

(* _recompute_position: its own commit, then the unknown-fee pause.         *)
RecomputePosition(w) ==
    LET sym == Symbol[worker[w].sig] IN
    /\ worker[w].pc = "recompute"
    /\ position' = [position EXCEPT ![sym] = NetPosition(sym)]
    /\ Goto(w, IF NetPosition(sym).unknown /\ control.state = "ARMED"
                 THEN "feepause" ELSE worker[w].then)
    /\ UNCHANGED <<control, intents, held, fills, account, day, market, barred, restarts>>

UnknownFeePause(w) ==
    /\ worker[w].pc = "feepause"
    /\ SetControl("PAUSED", FALSE)
    /\ IF worker[w].then = "idle" THEN Return(w) ELSE Goto(w, worker[w].then)
    /\ UNCHANGED <<ledger, day, market, barred, restarts>>

Release(w) ==
    /\ worker[w].pc = "release"
    /\ ReleaseIfDone(worker[w].sig)
    /\ IF worker[w].after = "idle" THEN Return(w) ELSE Goto(w, worker[w].after)
    /\ UNCHANGED <<control, intents, fills, position, account, day, market,
                   barred, restarts>>

-----------------------------------------------------------------------------
(* reconcile: account, then every unfinished order by its client id, then   *)
(* the trades of each, then all positions, then the verdict on the pass.    *)
(* The pass works from the rows it read at its start; what it writes is     *)
(* checked against the rows as they are by then.                            *)

(* What a PAPER venue reports of itself, from the orders it still has: its  *)
(* book and its balances live in memory.  TESTNET keeps only the free quote.*)
Traded(S) ==
    SumFunctionOnSet([s \in Signals |-> venue[s].filled],
                     {s \in S : venue[s].status # "forgotten"})
Fetched ==
    IF Environment = "PAPER"
      THEN [inventory |-> [sym \in Symbols |->
                Max2(0, Traded(Entries \cap Of(sym)) - Traded(Exits \cap Of(sym)))],
            exits |-> Cardinality({s \in Exits : Known(s)})]
      ELSE account

ReconciledWithoutUnknown == (Live \ {"UNKNOWN"}) \cup {"FILLED"}
Reconciled == Live \cup {"FILLED"}

StartReconcile(w) ==
    /\ worker[w].pc = "idle"
    /\ account' = Fetched
    /\ worker' = [worker EXCEPT ![w].pc = "rows", ![w].rows =
            [s \in Signals |->
                IF intents[s].state \in Reconciled
                THEN [state |-> intents[s].state, cumulative |-> intents[s].cumulative]
                ELSE NoRows[s]]]
    /\ UNCHANGED <<control, intents, held, fills, position, day, market, barred,
                   restarts>>

(* The account fetch fails: pause and give up the whole pass.               *)
AccountFailure(w) ==
    /\ worker[w].pc = "idle"
    /\ MayChange
    /\ SetControl("PAUSED", FALSE)
    /\ UNCHANGED <<ledger, day, market, barred, worker, restarts>>

NextRow(w, s) == worker[w].pc = "rows" /\ worker[w].rows[s].state # "none"

Skip(w, s) == worker' = [worker EXCEPT ![w].rows[s] = NoRows[s]]
Fail(w, s) == worker' = [worker EXCEPT ![w].rows[s] = NoRows[s], ![w].failed = TRUE]

SettledRow(w, s) == FilledEvidenceSufficient(s, worker[w].rows[s])

(* A crash came between the fill commit and the release: only release.      *)
ReleaseFilled(w, s) ==
    /\ NextRow(w, s)
    /\ SettledRow(w, s)
    /\ ReleaseIfDone(s)
    /\ Skip(w, s)
    /\ UNCHANGED <<control, intents, fills, position, account, day, market,
                   barred, restarts>>

QueryMissingReleases(w, s) ==
    /\ NextRow(w, s)
    /\ ~SettledRow(w, s)
    /\ ~Known(s)
    /\ intents' = [intents EXCEPT ![s].state = "REJECTED"]
    /\ held' = [held EXCEPT ![s] = "RELEASED"]
    /\ Skip(w, s)
    /\ UNCHANGED <<control, fills, position, account, day, market, barred,
                   restarts>>

(* The venue has no such order: -2013.  It never authorizes a release.      *)
QueryMissing(w, s) ==
    /\ NextRow(w, s)
    /\ ~SettledRow(w, s)
    /\ ~Known(s)
    /\ IF /\ Environment = "TESTNET"
          /\ worker[w].rows[s].state \in
                {"RESERVED", "SUBMITTING", "ACKNOWLEDGED", "UNKNOWN"}
         THEN SetUnknown(s)
         ELSE UNCHANGED intents
    /\ worker' = [worker EXCEPT ![w].rows[s] = NoRows[s], ![w].missing = TRUE]
    /\ UNCHANGED <<control, held, fills, position, account, day, market,
                   barred, restarts>>

(* UNKNOWN leaves the row unresolved, as does a TESTNET answer of another   *)
(* identity; an exception or an unusable answer also fails the pass.        *)
QueryUnresolved(w, s) ==
    /\ NextRow(w, s)
    /\ ~SettledRow(w, s)
    /\ \/ Skip(w, s) /\ IF worker[w].rows[s].state \in {"RESERVED", "SUBMITTING"}
                          THEN SetUnknown(s) ELSE UNCHANGED intents
       \/ Environment = "TESTNET" /\ Skip(w, s) /\ SetUnknown(s)
       \/ MayChange /\ Fail(w, s) /\ UNCHANGED intents
       \/ MayChange /\ Fail(w, s) /\ SetUnknown(s)
    /\ UNCHANGED <<control, held, fills, position, account, day, market,
                   barred, restarts>>

QueryAnswered(w, s) ==
    /\ NextRow(w, s)
    /\ ~SettledRow(w, s)
    /\ Known(s)
    /\ worker' = [worker EXCEPT ![w].pc = "apply", ![w].sig = s,
                                ![w].resp = Snapshot(s, 0),
                                ![w].after = "trades",
                                ![w].rows[s] = NoRows[s]]
    /\ UNCHANGED <<control, ledger, day, market, barred, restarts>>

(* myTrades fails.                                                          *)
TradesFailure(w) ==
    /\ worker[w].pc = "trades"
    /\ MayChange
    /\ worker' = [worker EXCEPT ![w].pc = "rows", ![w].failed = TRUE]
    /\ UNCHANGED <<control, ledger, day, market, barred, restarts>>

(* _ingest_fills: the trade rows the venue lists now, possibly not all yet. *)
IngestFills(w) ==
    LET s == worker[w].sig
        row == intents[s]
    IN
    /\ worker[w].pc = "trades"
    /\ \E listed \in 0..venue[s].filled :
        LET covered == Covered(s, listed)
            observed == IF covered >= row.qty THEN "FILLED" ELSE "PARTIALLY_FILLED"
        IN
        /\ fills' = [fills EXCEPT ![s] = covered]
        /\ IF covered > fills[s]
             THEN /\ intents' = [intents EXCEPT ![s].state =
                        MergeOrderState(row.state, observed, row.qty, covered)]
                  /\ worker' = [worker EXCEPT ![w].pc = "recompute",
                                              ![w].then = "release",
                                              ![w].after = "reapply"]
             ELSE /\ UNCHANGED intents
                  /\ Goto(w, "reapply")
    /\ UNCHANGED <<control, held, position, account, day, market, barred, restarts>>

(* The trades cover the terminal order the query reported: recompute and    *)
(* apply that same response again.                                          *)
Reapply(w) ==
    LET s == worker[w].sig
        r == worker[w].resp
    IN
    /\ worker[w].pc = "reapply"
    /\ worker' = [worker EXCEPT
            ![w].pc = IF /\ r.state \in {"CANCELED", "EXPIRED", "FILLED"}
                         /\ r.cumulative > 0
                         /\ fills[s] >= r.cumulative
                        THEN "recompute" ELSE "rows",
            ![w].then = "apply",
            ![w].after = "rows"]
    /\ UNCHANGED <<control, ledger, day, market, barred, restarts>>

EndRowsWithoutPositions(w) ==
    /\ worker[w].pc = "rows"
    /\ worker[w].rows = NoRows
    /\ worker' = [worker EXCEPT ![w].pc = "positions", ![w].syms = {}]
    /\ UNCHANGED <<control, ledger, day, market, barred, restarts>>

(* _recompute_all_positions: one commit per symbol that has trade rows.     *)
EndRows(w) ==
    /\ worker[w].pc = "rows"
    /\ worker[w].rows = NoRows
    /\ worker' = [worker EXCEPT ![w].pc = "positions",
            ![w].syms = {sym \in Symbols : \E s \in Of(sym) : fills[s] > 0}]
    /\ UNCHANGED <<control, ledger, day, market, barred, restarts>>

RecomputeOne(w, sym) ==
    /\ worker[w].pc = "positions"
    /\ sym \in worker[w].syms
    /\ position' = [position EXCEPT ![sym] = NetPosition(sym)]
    /\ worker' = [worker EXCEPT
            ![w].syms = @ \ {sym},
            ![w].then = "positions",
            ![w].pc = IF NetPosition(sym).unknown /\ control.state = "ARMED"
                        THEN "feepause" ELSE @]
    /\ UNCHANGED <<control, intents, held, fills, account, day, market, barred,
                   restarts>>

(* The verdict: a failure pauses; missing history pauses once.              *)
EndReconcile(w) ==
    /\ worker[w].pc = "positions"
    /\ worker[w].syms = {}
    /\ IF worker[w].failed THEN SetControl("PAUSED", FALSE)
       ELSE IF worker[w].missing /\ ~control.reset THEN SetControl("PAUSED", TRUE)
       ELSE UNCHANGED control
    /\ Return(w)
    /\ UNCHANGED <<ledger, day, market, barred, restarts>>

-----------------------------------------------------------------------------
(* cancel, mark and update_account                                         *)

Cancellable(w, s) ==
    worker[w].pc = "idle" /\ intents[s].state \in Live

(* The venue may have canceled the order even when the answer is lost.      *)
CancelAtVenue(s) ==
    venue' = [venue EXCEPT ![s].status = IF @ = "NEW" THEN "CANCELED" ELSE @]

Cancel(w, s) ==
    /\ Cancellable(w, s)
    /\ venue[s].status = "NEW"
    /\ CancelAtVenue(s)
    /\ worker' = [worker EXCEPT ![w].pc = "apply", ![w].sig = s,
            ![w].resp = [state |-> "CANCELED", cumulative |-> venue[s].filled,
                         trades |-> 0]]
    /\ UNCHANGED <<control, ledger, day, calls, barred, restarts>>

CancelFailure(w, s) ==
    /\ Cancellable(w, s)
    /\ MayChange
    /\ CancelAtVenue(s) \/ UNCHANGED venue
    /\ SetControl("PAUSED", FALSE)
    /\ worker' = [worker EXCEPT ![w].pc = "cancelfail", ![w].sig = s]
    /\ UNCHANGED <<ledger, day, calls, barred, restarts>>

CancelUnknown(w) ==
    /\ worker[w].pc = "cancelfail"
    /\ SetUnknown(worker[w].sig)
    /\ Return(w)
    /\ UNCHANGED <<control, held, fills, position, account, day, market,
                   barred, restarts>>

(* A mark recomputes the position row it prices.                            *)
Mark(w, sym) ==
    /\ worker[w].pc = "idle"
    /\ position' = [position EXCEPT ![sym] = NetPosition(sym)]
    /\ IF NetPosition(sym).unknown /\ control.state = "ARMED"
         THEN worker' = [worker EXCEPT ![w].pc = "feepause", ![w].then = "idle"]
         ELSE UNCHANGED worker
    /\ UNCHANGED <<control, intents, held, fills, account, day, market, barred,
                   restarts>>

(* check_connectivity stores the account payload it got.                    *)
UpdateAccount(w) ==
    /\ worker[w].pc = "idle"
    /\ account' = Fetched
    /\ UNCHANGED <<control, intents, held, fills, position, day, market, barred,
                   worker, restarts>>

-----------------------------------------------------------------------------
(* The venue, time and process deaths                                      *)

VenueAccepts(s) ==
    /\ venue[s].status = "inflight"
    /\ \E status \in {"NEW", "REJECTED"} : venue' = [venue EXCEPT ![s].status = status]
    /\ UNCHANGED <<control, ledger, day, calls, barred, worker, restarts>>

(* An IOC or FOK order trades at once: on one day.                          *)
VenueFills(s) ==
    /\ venue[s].status = "NEW"
    /\ venue[s].filled > 0 => venue[s].day = day
    /\ venue' = [venue EXCEPT
            ![s].filled = @ + 1,
            ![s].day = day,
            ![s].status = IF venue[s].filled + 1 = intents[s].qty
                            THEN "FILLED" ELSE @]
    /\ UNCHANGED <<control, ledger, day, calls, barred, worker, restarts>>

VenueEnds(s) ==
    /\ venue[s].status = "NEW"
    /\ \E status \in {"CANCELED", "EXPIRED"} : venue' = [venue EXCEPT ![s].status = status]
    /\ UNCHANGED <<control, ledger, day, calls, barred, worker, restarts>>

VenueReset ==
    /\ VenueResets
    /\ \A s \in Signals : venue[s].status # "forgotten"
    /\ \E s \in Signals : Known(s)
    /\ venue' = [s \in Signals |->
            IF Known(s) THEN [venue[s] EXCEPT !.status = "forgotten"] ELSE venue[s]]
    /\ UNCHANGED <<control, ledger, day, calls, barred, worker, restarts>>

NewDay ==
    /\ day < MaxDay
    /\ day' = day + 1
    /\ UNCHANGED <<control, ledger, market, barred, worker, restarts>>

(* The process dies at any point and comes back, perhaps reconfigured:      *)
(* _check_persisted_boundary disables a control row of another identity.    *)
Restart(w) ==
    /\ restarts < MaxRestarts
    /\ restarts' = restarts + 1
    /\ \E i \in Identities :
        /\ worker' = [worker EXCEPT ![w] = Idle(i)]
        /\ IF control.identity = i THEN UNCHANGED control
           ELSE /\ MayChange
                /\ control' = [control EXCEPT
                        !.state = "DISABLED", !.authorized = FALSE,
                        !.generation = @ + 1, !.identity = i]
    /\ UNCHANGED <<ledger, day, market, barred>>

-----------------------------------------------------------------------------

SubmitSignal(w) ==
    \/ \E s \in Signals : RejectSignal(w, s)
    \/ \E s \in Signals, q \in 1..MaxQuantity : ReserveAndSend(w, s, q)

SubmitStep(w) ==
    \/ ExpireUnsent(w) \/ Claim(w) \/ FirstFence(w) \/ FinalSubmitFence(w)
    \/ NetworkSubmit(w) \/ Acknowledged(w) \/ Ambiguous(w)

LedgerStep(w) ==
    \/ ApplyOrderResult(w) \/ RecomputePosition(w) \/ UnknownFeePause(w)
    \/ Release(w)

ReconcileStep(w) ==
    \/ \E s \in Signals :
        \/ ReleaseFilled(w, s) \/ QueryMissing(w, s)
        \/ QueryUnresolved(w, s) \/ QueryAnswered(w, s)
    \/ TradesFailure(w) \/ IngestFills(w) \/ Reapply(w) \/ EndRows(w)
    \/ \E sym \in Symbols : RecomputeOne(w, sym)
    \/ EndReconcile(w)

OtherCall(w) ==
    \/ \E s \in Signals : Cancel(w, s) \/ CancelFailure(w, s)
    \/ CancelUnknown(w)
    \/ \E sym \in Symbols : Mark(w, sym)
    \/ UpdateAccount(w)

OperatorStep ==
    \/ \E w \in Workers : EnableAutoCanary(w)
    \/ \E state \in {"PAUSED", "DISARMED", "KILLED"} : Operator(state)

VenueStep ==
    \/ \E s \in Signals : VenueAccepts(s) \/ VenueFills(s) \/ VenueEnds(s)
    \/ VenueReset

Next ==
    \/ \E w \in Workers :
        \/ SubmitSignal(w) \/ SubmitStep(w) \/ LedgerStep(w)
        \/ StartReconcile(w) \/ AccountFailure(w) \/ ReconcileStep(w)
        \/ OtherCall(w) \/ Restart(w)
    \/ OperatorStep \/ VenueStep \/ NewDay

Spec == Init /\ [][Next]_vars

-----------------------------------------------------------------------------
(* Types                                                                   *)

ControlType ==
    [state : Stopped \cup {"ARMED", "PAUSED"}, generation : Nat,
     authorized : BOOLEAN, kill : BOOLEAN, identity : Identities, reset : BOOLEAN]

IntentType ==
    [state : {"none"} \cup Live \cup Terminal, generation : Nat,
     qty : Quantity, cumulative : Quantity, day : 0..MaxDay]

VenueType ==
    [status : {"absent", "inflight", "NEW", "REJECTED", "FILLED", "CANCELED",
               "EXPIRED", "forgotten"},
     filled : Quantity, day : 0..MaxDay]

ResponseType ==
    [state : {"none", "ACKNOWLEDGED", "PARTIALLY_FILLED", "REJECTED", "FILLED",
              "CANCELED", "EXPIRED"},
     cumulative : Quantity, trades : Quantity]

Steps == {"idle", "claim", "fence", "final", "call", "await", "apply",
          "recompute", "feepause", "release", "rows", "trades", "reapply",
          "positions", "cancelfail"}

WorkerType ==
    [pc : Steps,
     sig : Signals \cup {NoSignal}, resp : ResponseType,
     then : {"release", "apply", "positions", "idle"},
     after : {"idle", "trades", "reapply", "rows"},
     rows : [Signals -> [state : {"none"} \cup Reconciled, cumulative : Quantity]],
     syms : SUBSET Symbols,
     failed : BOOLEAN, missing : BOOLEAN, identity : Identities]

(* Every row and every local is of its column's type; the sums over the     *)
(* ledger (positions and the account payload) are typed apart.              *)
LedgerTypeOK ==
    /\ control \in ControlType
    /\ intents \in [Signals -> IntentType]
    /\ held \in [Signals -> {"none", "HELD", "RELEASED"}]
    /\ fills \in [Signals -> Quantity]
    /\ day \in 1..MaxDay
    /\ venue \in [Signals -> VenueType]
    /\ calls \in [Signals -> Nat]
    /\ barred \in [plane : BOOLEAN, orders : SUBSET Signals]
    /\ worker \in [Workers -> WorkerType]
    /\ restarts \in 0..MaxRestarts

SumTypeOK ==
    /\ position \in [Symbols -> [qty : Nat, unknown : BOOLEAN]]
    /\ account \in [inventory : [Symbols -> Nat], exits : Nat]

TypeOK == LedgerTypeOK /\ SumTypeOK

-----------------------------------------------------------------------------
(* Safety                                                                  *)

(* A signal reaches the venue at most once, whatever crashes, retries or   *)
(* other workers do: dedupe by signal id and the durable claim.            *)
AtMostOnceSubmission == \A s \in Signals : calls[s] <= 1

(* An order the venue may still fill is covered by a held reservation: no  *)
(* path releases risk on an ambiguous or missing answer.                   *)
OpenOrdersAreReserved ==
    \A s \in Signals : venue[s].status \in {"inflight", "NEW"} => held[s] = "HELD"

(* A reservation is released only when the trade ledger has every trade of *)
(* the order: "FILLED without durable trade rows remains unresolved".      *)
ReleasedIsEvidenced ==
    \A s \in Signals : held[s] = "RELEASED" => fills[s] = venue[s].filled

(* Exits never commit more of a symbol than the trade ledger says AXIOM    *)
(* bought: sold plus the open remainders of exits stays within the buys.   *)
ExitsWithinLedger ==
    \A sym \in Symbols :
        FilledOn(Exits \cap Of(sym))
            + SumFunctionOnSet(Remainders, Exits \cap Of(sym) \cap Held)
        <= FilledOn(Entries \cap Of(sym))

(* Owned cost plus what open buys may still fill stays within the envelope,*)
(* counted from the trade ledger and not from the position rows.           *)
CommittedExposure ==
    SumFunction([sym \in Symbols |-> NetPosition(sym).qty])
        + SumFunctionOnSet(Remainders, Entries \cap Held)

ExposureWithinEnvelope == CommittedExposure <= MaxAggregate

(* Entries claimed on one UTC day stay within the daily budget, also when  *)
(* a day ends between the reservation and the claim.                       *)
EntriesWithinDailyBudget == SubmittedToday(Entries) <= MaxSubmissions

(* A reconcile pass that gets to its end repairs every position row, also  *)
(* after a crash between the commit of a trade and that of its position.   *)
ReconciledPositionsAgree ==
    \A w \in Workers :
        worker[w].pc = "positions" /\ worker[w].syms = {} =>
            \A sym \in Symbols : position[sym] = NetPosition(sym)

-----------------------------------------------------------------------------
(* Action properties                                                       *)

(* A terminal row never changes state again, whatever stale or delayed     *)
(* answers are applied to it.                                              *)
TerminalIsFinal ==
    [][\A s \in Signals : intents[s].state \in Terminal
            => intents'[s].state = intents[s].state]_vars

PassesFinalFence(w) == worker[w].pc # "call" /\ worker'[w].pc = "call"

(* An order that an operator's PAUSE, DISARM or KILL caught before its      *)
(* final fence is never sent, also after the operator enables the plane     *)
(* again and whatever state the row is in by then.                          *)
RevokedNeverSent ==
    [][\A w \in Workers :
        PassesFinalFence(w) => worker[w].sig \notin barred.orders]_vars

(* After the operator disarms or kills, no order passes its final fence    *)
(* until the operator enables again, whatever automatic pauses intervene.  *)
NoOrderWhileBarred ==
    [][\A w \in Workers :
        PassesFinalFence(w) => ~barred.plane]_vars

(* No order passes its final fence once the trade ledger holds a trade     *)
(* whose fee cannot be valued, also when the process died before it could  *)
(* recompute the position or pause.  Only a trade of an earlier day, whose  *)
(* position row such a death left behind, goes unnoticed until a pass.      *)
NoOrderOnUnvaluedTrade ==
    [][\A w \in Workers :
        PassesFinalFence(w) => \A s \in Unvalued :
            venue[s].day < day /\ position[Symbol[s]] # NetPosition(Symbol[s])]_vars

-----------------------------------------------------------------------------
(* The promise this service implements                                     *)

Exposure ==
    [s \in Signals |->
        CASE held[s] = "HELD" -> "held"
          [] held[s] = "RELEASED" -> "released"
          [] held[s] = "none" /\ intents[s].state = "none" -> "none"
          [] OTHER -> "refused"]

Order ==
    [s \in Signals |->
        CASE venue[s].status = "absent" -> "none"
          [] venue[s].status \in {"inflight", "NEW"} -> "open"
          [] OTHER -> "done"]

Promise == INSTANCE ReservationLedger WITH exposure <- Exposure, order <- Order

(* Every behavior of the service is one of the reservation ledger: risk is *)
(* held before an order leaves, each order leaves at most once, and risk    *)
(* returns only when the order never left or is over.                      *)
KeepsPromise == Promise!Spec

-----------------------------------------------------------------------------
(* Liveness                                                                *)

(* The worker thread keeps running its calls and keeps reconciling, the    *)
(* venue answers a query and lists its trades when asked often enough.     *)
Fairness ==
    \A w \in Workers :
        /\ WF_vars(SubmitStep(w) \/ LedgerStep(w) \/ ReconcileStep(w)
                   \/ CancelUnknown(w))
        /\ SF_vars(StartReconcile(w))
        /\ \A s \in Signals :
            /\ SF_vars(QueryAnswered(w, s))
            /\ SF_vars(/\ worker[w].sig = s
                       /\ IngestFills(w)
                       /\ fills'[s] = venue[s].filled)

FairSpec == Spec /\ Fairness

(* An order that is over at the venue is eventually settled: its           *)
(* reservation is released with all its trades, without a second order.    *)
FinishedOrdersSettle ==
    \A s \in Signals :
        venue[s].status \in {"FILLED", "CANCELED", "EXPIRED"}
            ~> \/ held[s] = "RELEASED"
               \/ venue[s].status = "forgotten"

=============================================================================
