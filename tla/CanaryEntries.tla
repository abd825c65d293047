---------------------------- MODULE CanaryEntries ----------------------------
(***************************************************************************)
(* The BUY path of the Polymarket canary: CanaryService.submit (canary.py) *)
(* over the capacity ledger of AxiomStore (storage.py).  Workers are       *)
(* processes of auto_canary.py; one holds the controller lease.  A submit  *)
(* reserves capacity, writes the ledger row and the attempt, and hands the *)
(* order to a transport thread that outlives a timeout of its caller.      *)
(* Operators run disarm() and kill() from other processes, whose read and  *)
(* write of the control row are two steps.  The venue fills, cancels and   *)
(* lists trades on its own; any worker reconciles.                         *)
(* One signal is one market: the caps per market, event and strategy are   *)
(* left out, and so are prices, fees and valuations.  Quantities and costs *)
(* are counted in fills: an order costs OrderQuantity.  All happens in one *)
(* accounting day.                                                         *)
(***************************************************************************)
EXTENDS Integers, FiniteSets, Functions

CONSTANTS
    Signals,        \* persisted READY signals, one event id and market each
    Workers,        \* auto-canary processes, each its own controller owner
    Operators,      \* processes that call disarm() and kill()
    NULL,
    OrderQuantity,  \* fills of a complete order, and its all-in cost
    MaxExposure,    \* max_aggregate_exposure_usd
    MaxOrders,      \* max_submitted_orders_per_day
    MaxGeneration,  \* bound: control generations
    MaxLease        \* bound: lease generations

ASSUME EntryConstants ==
    /\ OrderQuantity \in Nat \ {0}
    /\ MaxExposure \in Nat /\ MaxOrders \in Nat
    /\ MaxGeneration \in Nat /\ MaxLease \in Nat
    /\ NULL \notin Workers \cup Signals
    /\ IsFiniteSet(Signals)

VARIABLES
    control,      \* canary_control: [state, generation]
    setter,       \* per operator: NULL, or what _set_state read and will write
    lease,        \* canary_controller_leases: [owner, generation, current]
    signal,       \* canary_signals.status
    ledger,       \* canary_ledger: [status, order, generation]
    reservation,  \* canary_risk_reservations
    attempt,      \* canary_submission_attempts: the intent has its attempt
    worker,       \* locals of a running submit: [step, signal, lease, generation]
    transport,    \* the submission thread: [step, worker, cancelled, result]
    venue,        \* the order at the venue: [state, filled, listed]
    posts,        \* history: POST calls made for the signal
    cleared,      \* history: generations the last fence saw
    reopened      \* history: signals whose released capacity was taken again

ledgerVars == <<signal, ledger, reservation, attempt>>
controlVars == <<control, setter, lease>>
history == <<posts, cleared, reopened>>
vars == <<control, setter, lease, signal, ledger, reservation, attempt,
          worker, transport, venue, posts, cleared, reopened>>

ActiveStatuses == {"HELD", "SUBMITTING", "PARTIALLY_FILLED"}
Statuses == ActiveStatuses \cup {"NONE", "FILLED", "RELEASED", "REJECTED"}

\* What the rows and the locals may be.
Controls == [state : {"DISARMED", "AUTONOMOUS", "KILLED"}, generation : Nat]
Settings == {NULL} \cup [to : {"DISARMED", "KILLED"}, generation : Nat]
Leases == [owner : Workers \cup {NULL}, generation : Nat, current : BOOLEAN]
SignalStatuses == {"READY", "SUBMITTING", "ACCEPTED", "REJECTED", "UNKNOWN", "NO_LONGER_VALID"}
Rows == [status : {"NONE", "RESERVED", "SUBMITTING", "ACCEPTED", "REJECTED", "UNKNOWN",
                   "CONFIRMED", "CANCELED"},
         order : BOOLEAN, generation : Nat]
Reservations == [status : Statuses, generation : Nat, lease : Nat,
                 filled : 0..OrderQuantity, remaining : 0..OrderQuantity]
Submits == [step : {"idle", "reserved", "inserted", "submitting", "attempted", "waiting",
                    "releasing", "closing", "tripping", "killing"},
            signal : Signals \cup {NULL}, lease : Nat, generation : Nat]
Threads == [step : {"none", "called", "signed", "fenced", "started", "cleared", "done"},
            worker : Workers \cup {NULL}, cancelled : BOOLEAN,
            result : {"NONE", "ACCEPTED", "REJECTED", "REFUSED", "FAILED"}]
Orders == [state : {"NONE", "OPEN", "MATCHED", "CANCELED"},
           filled : 0..OrderQuantity, listed : 0..OrderQuantity]

NoOrder == [state |-> "NONE", filled |-> 0, listed |-> 0]
NoReservation == [status |-> "NONE", generation |-> 0, lease |-> 0,
                  filled |-> 0, remaining |-> 0]
Idle == [step |-> "idle", signal |-> NULL, lease |-> 0, generation |-> 0]
NoTransport == [step |-> "none", worker |-> NULL, cancelled |-> FALSE, result |-> "NONE"]

\* What the capacity ledger counts (canary_risk_accounting).

\* Filled cost, and the remainder while the reservation is active.
Committed(s) == reservation[s].filled
    + (IF reservation[s].status \in ActiveStatuses THEN reservation[s].remaining ELSE 0)

Exposure == SumFunction([s \in Signals |-> Committed(s)])

Unsubmitted == {s \in Signals : /\ reservation[s].status \in ActiveStatuses
                                /\ ~attempt[s]}

\* Lots that are owned or still being bought: one market each.
OpenLots == {s \in Signals : Committed(s) > 0}

SlotsUsed == Cardinality({s \in Signals : attempt[s]}) + Cardinality(Unsubmitted)

\* A BUY takes its own slot, one for its exit, and one per open lot.
SlotsLeft == SlotsUsed + 1 + Cardinality(OpenLots) + 1 <= MaxOrders

\* Mutant: only the slots are counted.
CapacityLeftBySlots == SlotsLeft

CapacityLeft == Exposure + OrderQuantity <= MaxExposure /\ SlotsLeft

\* Mutant: a lease taken again by the same owner passes for the old one.
HoldsLeaseByOwner(w, generation) == lease.current /\ lease.owner = w

\* The lease row is active, unexpired and of this owner and generation.
HoldsLease(w, generation) == /\ lease.current
                             /\ lease.owner = w
                             /\ lease.generation = generation

EntriesEnabled == control.state = "AUTONOMOUS"

Halt(w) == worker' = [worker EXCEPT ![w] = [@ EXCEPT !.step = "idle", !.signal = NULL]]

\* release_canary_capacity: FILLED and RELEASED rows keep what they are, a
\* rejected row stays rejected, anything else gives back what is left.
Given(r, status) ==
    IF r.status \in {"REJECTED", "RELEASED"} THEN r
    ELSE IF r.status = "FILLED" /\ status = "REJECTED" THEN r
    ELSE [r EXCEPT !.status = status, !.remaining = 0]
-----------------------------------------------------------------------------
\* The operators' control row.

\* _set_state reads the row; KILLED ends the call.
SetStateReads(o, to) ==
    /\ setter[o] = NULL
    /\ control.state # "KILLED"
    /\ control.generation < MaxGeneration
    /\ setter' = [setter EXCEPT ![o] = [to |-> to, generation |-> control.generation]]
    /\ UNCHANGED <<control, lease, ledgerVars, worker, transport, venue, history>>

\* ... and writes it in a later transaction, whatever it has become.
SetStateWrites(o) ==
    /\ setter[o] # NULL
    /\ control' = [state |-> setter[o].to, generation |-> setter[o].generation + 1]
    /\ setter' = [setter EXCEPT ![o] = NULL]
    /\ UNCHANGED <<lease, ledgerVars, worker, transport, venue, history>>

\* enable_autonomous_micro_live, one immediate transaction.
Enable ==
    /\ control.state = "DISARMED"
    /\ control.generation < MaxGeneration
    /\ control' = [state |-> "AUTONOMOUS", generation |-> control.generation + 1]
    /\ UNCHANGED <<setter, lease, ledgerVars, worker, transport, venue, history>>

AcquireLease(w) ==
    /\ ~lease.current
    /\ lease.generation < MaxLease
    /\ worker[w].step = "idle"
    /\ lease' = [owner |-> w, generation |-> lease.generation + 1, current |-> TRUE]
    /\ worker' = [worker EXCEPT ![w].lease = lease.generation + 1]
    /\ UNCHANGED <<control, setter, ledgerVars, transport, venue, history>>

\* The lease runs out, or its owner releases it.
LoseLease ==
    /\ lease.current
    /\ lease' = [lease EXCEPT !.current = FALSE]
    /\ UNCHANGED <<control, setter, ledgerVars, worker, transport, venue, history>>

-----------------------------------------------------------------------------
\* submit(), step by step.

\* reserve_canary_capacity for a READY signal; a row of the same intent and
\* identity is replayed, whatever its status.
Reserve(w, s) ==
    /\ worker[w].step = "idle"
    /\ EntriesEnabled /\ HoldsLease(w, worker[w].lease)
    /\ signal[s] = "READY"
    /\ \/ /\ reservation[s].status = "NONE"
          /\ CapacityLeft
          /\ reservation' = [reservation EXCEPT ![s] =
                [status |-> "HELD", generation |-> control.generation,
                 lease |-> worker[w].lease, filled |-> 0, remaining |-> OrderQuantity]]
       \/ /\ reservation[s].status # "NONE"
          /\ reservation[s].generation = control.generation
          /\ reservation[s].lease = worker[w].lease
          /\ UNCHANGED reservation
    /\ worker' = [worker EXCEPT ![w] = [@ EXCEPT !.step = "reserved", !.signal = s]]
    /\ UNCHANGED <<controlVars, signal, ledger, attempt, transport, venue, history>>

\* The first fenced transaction: the ledger row is RESERVED and the signal
\* SUBMITTING, under the control generation read here.
InsertRow(w) ==
    LET s == worker[w].signal IN
    /\ worker[w].step = "reserved"
    /\ EntriesEnabled
    /\ signal[s] = "READY"
    /\ ledger[s].status = "NONE"
    /\ ledger' = [ledger EXCEPT ![s] =
          [status |-> "RESERVED", order |-> FALSE, generation |-> control.generation]]
    /\ signal' = [signal EXCEPT ![s] = "SUBMITTING"]
    /\ worker' = [worker EXCEPT ![w] =
          [@ EXCEPT !.step = "inserted", !.generation = control.generation]]
    /\ UNCHANGED <<controlVars, reservation, attempt, transport, venue, history>>

\* Any failure of it (control, health, limits) rolls back and releases.
InsertFails(w) ==
    /\ worker[w].step = "reserved"
    /\ worker' = [worker EXCEPT ![w].step = "releasing"]
    /\ UNCHANGED <<controlVars, ledgerVars, transport, venue, history>>

\* The second fenced transaction: RESERVED -> SUBMITTING.
MarkSubmitting(w) ==
    LET s == worker[w].signal IN
    /\ worker[w].step = "inserted"
    /\ EntriesEnabled /\ control.generation = worker[w].generation
    /\ ledger[s].status = "RESERVED"
    /\ ledger' = [ledger EXCEPT ![s].status = "SUBMITTING"]
    /\ worker' = [worker EXCEPT ![w].step = "submitting"]
    /\ UNCHANGED <<controlVars, signal, reservation, attempt, transport, venue, history>>

\* Its failure, or that of the attempt, rejects row and signal; the release
\* follows in a transaction of its own.
RejectRow(w) ==
    LET s == worker[w].signal IN
    /\ worker[w].step \in {"inserted", "submitting"}
    /\ ledger' = [ledger EXCEPT ![s].status =
          IF @ \in {"RESERVED", "SUBMITTING"} THEN "REJECTED" ELSE @]
    /\ signal' = [signal EXCEPT ![s] = IF @ = "SUBMITTING" THEN "REJECTED" ELSE @]
    /\ worker' = [worker EXCEPT ![w].step = "releasing"]
    /\ UNCHANGED <<controlVars, reservation, attempt, transport, venue, history>>

\* record_canary_submission_attempt; one attempt per intent, for ever.
RecordAttempt(w) ==
    LET s == worker[w].signal IN
    /\ worker[w].step = "submitting"
    /\ EntriesEnabled
    /\ control.generation = worker[w].generation
    /\ reservation[s].generation = control.generation
    /\ HoldsLease(w, worker[w].lease)
    /\ reservation[s].status = "HELD"
    /\ ~attempt[s]
    /\ attempt' = [attempt EXCEPT ![s] = TRUE]
    /\ reservation' = [reservation EXCEPT ![s].status = "SUBMITTING"]
    /\ worker' = [worker EXCEPT ![w].step = "attempted"]
    /\ UNCHANGED <<controlVars, signal, ledger, transport, venue, history>>

\* _call_with_timeout starts the thread.
CallTransport(w) ==
    LET s == worker[w].signal IN
    /\ worker[w].step = "attempted"
    /\ transport' = [transport EXCEPT ![s] = [NoTransport EXCEPT !.step = "called", !.worker = w]]
    /\ worker' = [worker EXCEPT ![w].step = "waiting"]
    /\ UNCHANGED <<controlVars, ledgerVars, venue, history>>
-----------------------------------------------------------------------------
\* The submission thread.

Answers(s, result) ==
    transport' = [transport EXCEPT ![s] = [@ EXCEPT !.step = "done", !.result = result]]

\* _submit_position_order binds the order to its reservation; network reads follow.
PrepareOrder(s) ==
    /\ transport[s].step = "called"
    /\ IF /\ control.generation = ledger[s].generation
          /\ reservation[s].generation = ledger[s].generation
          /\ reservation[s].status \notin {"RELEASED", "REJECTED", "FILLED"}
       THEN transport' = [transport EXCEPT ![s].step = "signed"]
       ELSE Answers(s, "REFUSED")
    /\ UNCHANGED <<controlVars, ledgerVars, worker, venue, history>>

\* What before_post reads of the signal, the row and the control.
RowCurrent(s) ==
    /\ signal[s] = "SUBMITTING"
    /\ ledger[s].status = "SUBMITTING"
    /\ EntriesEnabled /\ control.generation = ledger[s].generation

AuthorityCurrent(s) == HoldsLease(transport[s].worker, reservation[s].lease)

\* before_post refuses.  A signal, control or risk code is known to mean "not
\* sent" even after the send was marked; a lease, authorization, health or venue
\* code is not.  An expired signal is rejected at once; once row and control
\* are found current, the fence's own transaction may call it invalid.
FenceRefuses(s) ==
    /\ transport[s].step \in {"signed", "started"}
    /\ \/ /\ Answers(s, "REFUSED")
          /\ UNCHANGED signal
       \/ /\ signal[s] = "SUBMITTING"
          /\ Answers(s, "REFUSED")
          /\ signal' = [signal EXCEPT ![s] = "REJECTED"]
       \/ /\ RowCurrent(s)
          /\ \E result \in {"REFUSED", "FAILED"} :
                /\ result = "FAILED" => transport[s].step = "started"
                /\ Answers(s, result)
          /\ \E status \in {"SUBMITTING", "NO_LONGER_VALID"} :
                signal' = [signal EXCEPT ![s] = status]
    /\ UNCHANGED <<controlVars, ledger, reservation, attempt, worker, venue, history>>

FirstFence(s) ==
    /\ transport[s].step = "signed"
    /\ RowCurrent(s) /\ AuthorityCurrent(s)
    /\ transport' = [transport EXCEPT ![s].step = "fenced"]
    /\ UNCHANGED <<controlVars, ledgerVars, worker, venue, history>>

\* mark_send_started, under transport_state_lock.
MarkSendStarted(s) ==
    /\ transport[s].step = "fenced"
    /\ IF transport[s].cancelled
       THEN Answers(s, "REFUSED")
       ELSE transport' = [transport EXCEPT ![s].step = "started"]
    /\ UNCHANGED <<controlVars, ledgerVars, worker, venue, history>>

\* before_post again, "immediately before the irreversible transport call".
SecondFence(s) ==
    /\ transport[s].step = "started"
    /\ RowCurrent(s) /\ AuthorityCurrent(s)
    /\ transport' = [transport EXCEPT ![s].step = "cleared"]
    /\ cleared' = [cleared EXCEPT ![s] = <<control.generation, lease.generation>>]
    /\ UNCHANGED <<controlVars, ledgerVars, worker, venue, posts, reopened>>

\* The credential check or the connection fails before the POST leaves.
PostFails(s) ==
    /\ transport[s].step = "cleared"
    /\ \E result \in {"REFUSED", "FAILED"} : Answers(s, result)
    /\ UNCHANGED <<controlVars, ledgerVars, worker, venue, history>>

\* Mutant: a lost answer is retried.
PostRetrying(s) ==
    /\ transport[s].step = "cleared"
    /\ posts' = [posts EXCEPT ![s] = @ + 1]
    /\ \/ /\ venue' = [venue EXCEPT ![s].state = "OPEN"]
          /\ \/ Answers(s, "ACCEPTED")
             \/ transport' = [transport EXCEPT ![s].step = "signed"]
       \/ /\ Answers(s, "REJECTED")
          /\ UNCHANGED venue
    /\ UNCHANGED <<controlVars, ledgerVars, worker, cleared, reopened>>

\* post_order: the venue books the order or refuses it; the answer may be lost.
Post(s) ==
    /\ transport[s].step = "cleared"
    /\ posts' = [posts EXCEPT ![s] = @ + 1]
    /\ \/ /\ venue' = [venue EXCEPT ![s].state = "OPEN"]
          /\ \E result \in {"ACCEPTED", "FAILED"} : Answers(s, result)
       \/ /\ Answers(s, "REJECTED")
          /\ UNCHANGED venue
    /\ UNCHANGED <<controlVars, ledgerVars, worker, cleared, reopened>>
-----------------------------------------------------------------------------
\* The caller's end of the submission.

\* persist_outcome: only a SUBMITTING row takes the outcome; the release of a
\* rejected one follows in a transaction of its own.
PersistOutcome(w, s, outcome) ==
    /\ ledger' = [ledger EXCEPT ![s] =
          IF @.status = "SUBMITTING"
          THEN [@ EXCEPT !.status = outcome, !.order = (outcome = "ACCEPTED")] ELSE @]
    /\ signal' = [signal EXCEPT ![s] = IF @ = "SUBMITTING" THEN outcome ELSE @]
    /\ IF outcome = "REJECTED"
       THEN worker' = [worker EXCEPT ![w].step = "closing"]
       ELSE Halt(w)
    /\ UNCHANGED <<controlVars, reservation, attempt, venue, history>>

\* Mutant: a failure after the send counts as a rejection.
OutcomeOfFailures(result) == IF result = "ACCEPTED" THEN "ACCEPTED" ELSE "REJECTED"

OutcomeOf(result) ==
    CASE result = "ACCEPTED" -> "ACCEPTED"
      [] result \in {"REJECTED", "REFUSED"} -> "REJECTED"
      [] result = "FAILED" -> "UNKNOWN"

ReceiveAnswer(w) ==
    LET s == worker[w].signal IN
    /\ worker[w].step = "waiting"
    /\ transport[s].step = "done"
    /\ PersistOutcome(w, s, OutcomeOf(transport[s].result))
    /\ transport' = [transport EXCEPT ![s] = NoTransport]

\* Mutant: the send is marked when it is over.
TimeOutUnmarked(w) ==
    LET s == worker[w].signal IN
    /\ worker[w].step = "waiting"
    /\ transport[s].step # "done"
    /\ PersistOutcome(w, s, "REJECTED")
    /\ transport' = [transport EXCEPT ![s].cancelled = TRUE]

\* TimeoutError: the flag is read and the thread cancelled under one lock.
TimeOut(w) ==
    LET s == worker[w].signal
        started == transport[s].step \in {"started", "cleared"} IN
    /\ worker[w].step = "waiting"
    /\ transport[s].step # "done"
    /\ PersistOutcome(w, s, IF started THEN "UNKNOWN" ELSE "REJECTED")
    /\ transport' = [transport EXCEPT ![s].cancelled = TRUE]

\* release_canary_capacity(status="REJECTED"), of a row that was never sent
\* or of one the outcome calls rejected.
ReleaseRejected(w) ==
    LET s == worker[w].signal IN
    /\ worker[w].step \in {"releasing", "closing"}
    /\ reservation' = [reservation EXCEPT ![s] = Given(@, "REJECTED")]
    /\ Halt(w)
    /\ UNCHANGED <<controlVars, signal, ledger, attempt, transport, venue, history>>

\* release_risk_reservation swallows a failing release: the capacity stays held.
ReleaseLost(w) ==
    /\ worker[w].step = "releasing"
    /\ Halt(w)
    /\ UNCHANGED <<controlVars, ledgerVars, transport, venue, history>>

\* durable_accounting_failure: the row becomes UNKNOWN ...
AccountingFails(w) ==
    LET s == worker[w].signal IN
    /\ worker[w].step = "closing"
    /\ ledger' = [ledger EXCEPT ![s].status = "UNKNOWN"]
    /\ signal' = [signal EXCEPT ![s] =
          IF @ \in {"REJECTED", "SUBMITTING", "ACCEPTED"} THEN "UNKNOWN" ELSE @]
    /\ worker' = [worker EXCEPT ![w].step = "tripping"]
    /\ UNCHANGED <<controlVars, reservation, attempt, transport, venue, history>>

\* ... and kill() is called: it reads the control row ...
TripBreaker(w) ==
    /\ worker[w].step = "tripping"
    /\ \/ /\ control.state = "KILLED"
          /\ Halt(w)
       \/ /\ control.state # "KILLED"
          /\ worker' = [worker EXCEPT ![w] =
                [@ EXCEPT !.step = "killing", !.generation = control.generation]]
    /\ UNCHANGED <<controlVars, ledgerVars, transport, venue, history>>

\* ... and sets the latch, in a later transaction.
LatchKill(w) ==
    /\ worker[w].step = "killing"
    /\ control' = [state |-> "KILLED", generation |-> worker[w].generation + 1]
    /\ Halt(w)
    /\ UNCHANGED <<setter, lease, ledgerVars, transport, venue, history>>

\* The process dies with its threads and restarts idle, without its lease.
Crash(w) ==
    /\ worker[w].step # "idle"
    /\ worker' = [worker EXCEPT ![w] = Idle]
    /\ transport' = [s \in Signals |->
          IF transport[s].worker = w THEN NoTransport ELSE transport[s]]
    /\ UNCHANGED <<controlVars, ledgerVars, venue, history>>
-----------------------------------------------------------------------------
\* The venue, and what the ledger learns from it.

VenueFill(s) ==
    /\ venue[s].state = "OPEN"
    /\ venue' = [venue EXCEPT ![s] =
          [state |-> IF @.filled + 1 = OrderQuantity THEN "MATCHED" ELSE "OPEN",
           filled |-> @.filled + 1, listed |-> @.listed]]
    /\ UNCHANGED <<controlVars, ledgerVars, worker, transport, history>>

VenueCancel(s) ==
    /\ venue[s].state = "OPEN"
    /\ venue' = [venue EXCEPT ![s].state = "CANCELED"]
    /\ UNCHANGED <<controlVars, ledgerVars, worker, transport, history>>

\* A trade becomes CONFIRMED in the account's trade list, perhaps much later.
VenueList(s) ==
    /\ venue[s].listed < venue[s].filled
    /\ venue' = [venue EXCEPT ![s].listed = @ + 1]
    /\ UNCHANGED <<controlVars, ledgerVars, worker, transport, history>>

\* Mutant: the cumulative quantity is added to what is recorded.
FilledAgain(r, n) ==
    [r EXCEPT !.filled = @ + n, !.remaining = OrderQuantity - n,
              !.status = IF n = OrderQuantity THEN "FILLED" ELSE "PARTIALLY_FILLED"]

\* record_canary_fill: a RELEASED BUY is opened again, a rejected one refuses.
Filled(r, n) ==
    [r EXCEPT !.filled = n, !.remaining = OrderQuantity - n,
              !.status = IF n = OrderQuantity THEN "FILLED" ELSE "PARTIALLY_FILLED"]

\* One row of _reconcile_entry_ledger: the listed trades are recorded, and an
\* order the venue calls over gives back what it did not fill.  A rejected
\* reservation refuses the trades and the row becomes UNKNOWN.
Reconcile(s) ==
    LET held == reservation[s]
        n == venue[s].listed
        news == n > held.filled
        over == venue[s].state = "CANCELED"
        r == IF news THEN Filled(held, n) ELSE held IN
    /\ ledger[s].order
    /\ news \/ (over /\ Given(held, "RELEASED") # held)
    /\ IF news /\ held.status = "REJECTED"
       THEN /\ ledger' = [ledger EXCEPT ![s].status = "UNKNOWN"]
            /\ UNCHANGED <<reservation, reopened>>
       ELSE /\ ledger' = [ledger EXCEPT ![s].status =
                  IF n > 0 THEN "CONFIRMED" ELSE "CANCELED"]
            /\ reservation' = [reservation EXCEPT ![s] =
                  IF over THEN Given(r, "RELEASED") ELSE r]
            /\ reopened' = IF news /\ held.status = "RELEASED"
                           THEN reopened \cup {s} ELSE reopened
    /\ UNCHANGED <<controlVars, signal, attempt, worker, transport, venue, posts, cleared>>

\* recover_entry_intent: an operator attaches the order of an unresolved row.
Recover(s) ==
    /\ ledger[s].status \in {"UNKNOWN", "SUBMITTING"}
    /\ ~ledger[s].order
    /\ venue[s].state # "NONE"
    /\ ledger' = [ledger EXCEPT ![s] = [@ EXCEPT !.status = "ACCEPTED", !.order = TRUE]]
    /\ signal' = [signal EXCEPT ![s] =
          IF @ \in {"UNKNOWN", "SUBMITTING"} THEN "ACCEPTED" ELSE @]
    /\ UNCHANGED <<controlVars, reservation, attempt, worker, transport, venue, history>>
-----------------------------------------------------------------------------
Init ==
    /\ control = [state |-> "DISARMED", generation |-> 0]
    /\ setter = [o \in Operators |-> NULL]
    /\ lease = [owner |-> NULL, generation |-> 0, current |-> FALSE]
    /\ signal = [s \in Signals |-> "READY"]
    /\ ledger = [s \in Signals |-> [status |-> "NONE", order |-> FALSE, generation |-> 0]]
    /\ reservation = [s \in Signals |-> NoReservation]
    /\ attempt = [s \in Signals |-> FALSE]
    /\ worker = [w \in Workers |-> Idle]
    /\ transport = [s \in Signals |-> NoTransport]
    /\ venue = [s \in Signals |-> NoOrder]
    /\ posts = [s \in Signals |-> 0]
    /\ cleared = [s \in Signals |-> <<0, 0>>]
    /\ reopened = {}

Control ==
    \/ \E o \in Operators : \E to \in {"DISARMED", "KILLED"} : SetStateReads(o, to)
    \/ \E o \in Operators : SetStateWrites(o)
    \/ Enable \/ LoseLease
    \/ \E w \in Workers : AcquireLease(w)

WorkerStep(w) ==
    \/ InsertRow(w) \/ InsertFails(w) \/ MarkSubmitting(w) \/ RejectRow(w)
    \/ RecordAttempt(w) \/ CallTransport(w) \/ ReceiveAnswer(w) \/ TimeOut(w)
    \/ ReleaseRejected(w) \/ ReleaseLost(w) \/ AccountingFails(w) \/ TripBreaker(w)
    \/ LatchKill(w)

TransportStep(s) ==
    \/ PrepareOrder(s) \/ FenceRefuses(s) \/ FirstFence(s) \/ MarkSendStarted(s)
    \/ SecondFence(s) \/ PostFails(s) \/ Post(s)

VenueStep(s) == VenueFill(s) \/ VenueCancel(s) \/ VenueList(s)

Next ==
    \/ Control
    \/ \E w \in Workers : \/ \E s \in Signals : Reserve(w, s)
                          \/ WorkerStep(w) \/ Crash(w)
    \/ \E s \in Signals : TransportStep(s) \/ VenueStep(s) \/ Reconcile(s) \/ Recover(s)

Spec == Init /\ [][Next]_vars
-----------------------------------------------------------------------------
\* Rows, locals of the submits and threads, and the venue's orders are of their
\* types; no fill is recorded beyond the quantity of its order.
TypeOK ==
    /\ control \in Controls
    /\ setter \in [Operators -> Settings]
    /\ lease \in Leases
    /\ signal \in [Signals -> SignalStatuses]
    /\ ledger \in [Signals -> Rows]
    /\ reservation \in [Signals -> Reservations]
    /\ attempt \in [Signals -> BOOLEAN]
    /\ worker \in [Workers -> Submits]
    /\ transport \in [Signals -> Threads]
    /\ venue \in [Signals -> Orders]
    /\ posts \in [Signals -> Nat]
    /\ cleared \in [Signals -> Nat \X Nat]
    /\ reopened \in SUBSET Signals

\* Capacity given back as "rejected" belongs to an order that is not at the
\* venue, and no late thread of a timed-out submit can still send it.
RejectedNeverPosted ==
    \A s \in Signals : reservation[s].status = "REJECTED" =>
        /\ venue[s].state = "NONE"
        /\ transport[s].step # "cleared"

\* Over retries of the signal, crashes, restarts and takeovers of the lease, its
\* order is sent at most once.
PostedAtMostOnce == \A s \in Signals : posts[s] <= 1

\* The ledger holds capacity for all an order can still trade at the venue.
WorkingOrdersAreHeld ==
    \A s \in Signals : venue[s].state \in {"OPEN", "MATCHED"} =>
        /\ Committed(s) = OrderQuantity
        /\ venue[s].filled <= Committed(s)

\* Admission never commits more than the cap; only a trade that the venue lists
\* after it called its order over can take it higher.
ExposureWithinCap ==
    SumFunctionOnSet([s \in Signals |-> Committed(s)], Signals \ reopened) <= MaxExposure

\* An order passes its last fence under the control and the lease generation
\* its capacity was reserved under.
PostedUnderItsAuthority ==
    \A s \in Signals : transport[s].step = "cleared" \/ posts[s] > 0 =>
        cleared[s] = <<reservation[s].generation, reservation[s].lease>>

\* "KILLED is a terminal latch; disarm must not make it possible to arm again."
KillLatchHolds == [][control.state = "KILLED" => control'.state = "KILLED"]_vars
=============================================================================
