----------------------------- MODULE CanaryExits -----------------------------
(***************************************************************************)
(* The SELL path of the Polymarket canary (canary_positions.py): a lot     *)
(* owned since its BUY was confirmed, submit_exit, the transport thread    *)
(* that outlives a timeout of its caller, and reconcile_pending, which     *)
(* every auto-canary process runs, with or without the controller lease.   *)
(* One lot in one market whose exit policy is due; control, settings,      *)
(* authorization, health and account checks are the choice of a fence to   *)
(* refuse, and the generation of the lease is left out: they are in        *)
(* CanaryEntries.  Quantities are counted in fills; prices and marks are   *)
(* left out, and so is EXIT_FILL_OVER_PLAN, which needs a venue that fills *)
(* more than was ordered.  MATCHED, FILLED, LIVE and the other pollable    *)
(* statuses of a request are one, "OPEN".                                  *)
(***************************************************************************)
EXTENDS Integers, FiniteSetsExt

CONSTANTS
    Workers,      \* auto-canary processes
    NULL,
    MaxExits,     \* bound: exit requests (request ids are fresh uuids)
    MaxQuantity,  \* bound: confirmed fills of the BUY
    MaxCrashes    \* bound: process crashes

ASSUME ExitConstants ==
    /\ MaxExits \in Nat \ {0} /\ MaxQuantity \in Nat \ {0} /\ MaxCrashes \in Nat
    /\ NULL \notin Workers

Exits == 1..MaxExits

VARIABLES
    holder,       \* the worker that holds the controller lease
    bought,       \* confirmed BUY fills in canary_risk_fills
    lot,          \* canary_position_lots: [status, quantity, sold, pending]
    request,      \* canary_position_requests: [status, quantity, order, filled]
    reservation,  \* canary_risk_reservations: [status, quantity, filled]
    attempt,      \* canary_submission_attempts: the request has its attempt
    worker,       \* locals of submit_exit and of reconcile_pending
    rows,         \* per worker: what the projection read and compares
    transport,    \* the submission thread: [step, worker, cancelled, result]
    venue,        \* the order at the venue: [state, matched, confirmed]
    preempted,    \* history: taken for unsent though they went on
    crashes       \* history: crashes so far

books == <<bought, lot, request, reservation, attempt>>
vars == <<holder, bought, lot, request, reservation, attempt, worker, rows,
          transport, venue, preempted, crashes>>

Quantity == 0..MaxQuantity

\* Mutant: an order whose answer was odd once is not asked for again.
PollableStatuses == {"PREPARED", "SUBMITTING", "OPEN"}

PendingStatuses == {"PREPARED", "SUBMITTING", "OPEN", "UNKNOWN"}
FinalStatuses == {"REJECTED", "FAILED", "CANCELED", "SETTLED", "SETTLED_PARTIAL"}
HoldingStatuses == {"HELD", "SUBMITTING", "OPEN", "UNKNOWN", "PARTIALLY_FILLED"}

SubmitSteps == {"read", "admitted", "reserved", "prepared", "attempted", "waiting",
                "withdrawing", "withdrawn"}
ReconcileSteps == {"unsent", "rejecting", "orphan", "poll", "polled", "listed",
                   "booked", "project"}

\* What the rows and the locals may be.
Lots == [status : {"NONE", "OPEN", "EXIT_PENDING", "CLOSED"},
         quantity : Quantity, sold : Quantity, pending : Quantity]
Requests == [status : {"NONE"} \cup PendingStatuses \cup FinalStatuses,
             quantity : Quantity, order : BOOLEAN, filled : Quantity]
Reservations == [status : {"NONE", "FILLED", "RELEASED", "SETTLED"} \cup HoldingStatuses,
                 quantity : Quantity, filled : Quantity]
Locals == [step : {"idle", "releasing"} \cup SubmitSteps \cup ReconcileSteps,
           exit : Exits \cup {NULL}, quantity : Quantity, pending : Quantity,
           to : {"NONE", "RELEASED", "UNKNOWN", "OPEN", "SETTLED"},
           state : {"NONE", "OPEN", "CANCELED", "FAILED", "SETTLED"},
           matched : Quantity, confirmed : Quantity]
Rows == {NULL} \cup [request : Requests, lot : Lots, booked : Quantity]
Threads == [step : {"none", "called", "signed", "fenced", "started", "marked", "cleared",
                    "done"},
            worker : Workers \cup {NULL}, cancelled : BOOLEAN,
            result : {"NONE", "ACCEPTED", "REJECTED", "REFUSED", "FAILED"}]
Orders == [state : {"NONE", "OPEN", "CANCELED", "FAILED", "SETTLED"},
           matched : Quantity, confirmed : Quantity]

Idle == [step |-> "idle", exit |-> NULL, quantity |-> 0, pending |-> 0, to |-> "NONE",
         state |-> "NONE", matched |-> 0, confirmed |-> 0]
NoTransport == [step |-> "none", worker |-> NULL, cancelled |-> FALSE, result |-> "NONE"]

Available == lot.quantity - lot.sold - lot.pending
Owned == lot.quantity - lot.sold

\* canary_risk_accounting: what is sold, and what active reservations still hold.
SoldByRisk == SumFunction([e \in Exits |-> reservation[e].filled])
HeldBySells == SumFunctionOnSet([e \in Exits |-> reservation[e].quantity - reservation[e].filled],
                                {e \in Exits : reservation[e].status \in HoldingStatuses})

Final(e) == request[e].status \in FinalStatuses

\* release_canary_capacity for a SELL: SETTLED stays, RELEASED may only be
\* settled, and so may FILLED.
Given(r, status) ==
    IF r.status \in {"SETTLED", "RELEASED", "FILLED"} /\ status # "SETTLED" THEN r
    ELSE [r EXCEPT !.status = status]

Goto(w, step) == worker' = [worker EXCEPT ![w].step = step]
Halt(w) == worker' = [worker EXCEPT ![w] = Idle]
-----------------------------------------------------------------------------
\* The BUY, the lease and the process.

\* A pass begins with the BUY: its reconciliation records one more confirmed
\* fill ...
ConfirmBuy(w) ==
    /\ worker[w].step = "idle"
    /\ bought < MaxQuantity
    /\ bought' = bought + 1
    /\ UNCHANGED <<holder, lot, request, reservation, attempt, worker, rows, transport,
                   venue, preempted, crashes>>

\* ... and _sync_entry_lots opens the lot, or grows it: a closed lot opens
\* again, any other keeps its status and what is pending.
SyncEntryLot(w) ==
    /\ worker[w].step = "idle"
    /\ lot.quantity < bought
    /\ lot' = [lot EXCEPT !.quantity = bought,
                          !.status = IF @ \in {"NONE", "CLOSED"} THEN "OPEN" ELSE @]
    /\ UNCHANGED <<holder, bought, request, reservation, attempt, worker, rows, transport,
                   venue, preempted, crashes>>

LeaseMoves ==
    /\ holder' \in Workers \ {holder}
    /\ UNCHANGED <<books, worker, rows, transport, venue, preempted, crashes>>

\* The process dies, its threads with it, and starts again.
Crash(w) ==
    /\ crashes < MaxCrashes
    /\ \/ worker[w].step # "idle"
       \/ \E e \in Exits : transport[e].worker = w /\ transport[e].step # "done"
    /\ crashes' = crashes + 1
    /\ Halt(w)
    /\ rows' = [rows EXCEPT ![w] = NULL]
    /\ transport' = [e \in Exits |->
          IF transport[e].worker = w THEN [transport[e] EXCEPT !.step = "done"]
          ELSE transport[e]]
    /\ UNCHANGED <<holder, books, venue, preempted>>
-----------------------------------------------------------------------------
\* submit_exit, step by step.

\* It reads the lot ...
ReadLot(w) ==
    /\ worker[w].step = "idle"
    /\ holder = w
    /\ lot.status \in {"OPEN", "EXIT_PENDING"}
    /\ Available > 0
    /\ worker' = [worker EXCEPT ![w] =
          [Idle EXCEPT !.step = "read", !.quantity = Available, !.pending = lot.pending]]
    /\ UNCHANGED <<holder, books, rows, transport, venue, preempted, crashes>>

\* ... and the pending requests; a request id is a fresh uuid.
CheckRequests(w) ==
    LET unused == {e \in Exits : /\ reservation[e].status = "NONE"
                                 /\ \A v \in Workers : worker[v].exit # e} IN
    /\ worker[w].step = "read"
    /\ \A e \in Exits : request[e].status \notin PendingStatuses
    /\ unused # {}
    /\ worker' = [worker EXCEPT ![w] = [@ EXCEPT !.step = "admitted", !.exit = CHOOSE e \in unused : TRUE]]
    /\ UNCHANGED <<holder, books, rows, transport, venue, preempted, crashes>>

\* A duplicate, the market's rules, the depth or the ledger refuses.
AdmissionRefused(w) ==
    /\ worker[w].step \in {"read", "admitted"}
    /\ Halt(w)
    /\ UNCHANGED <<holder, books, rows, transport, venue, preempted, crashes>>

\* reserve_canary_capacity: SELL may not exceed the owned inventory.
ReserveExit(w) ==
    LET e == worker[w].exit IN
    /\ worker[w].step = "admitted"
    /\ holder = w
    /\ worker[w].quantity + HeldBySells <= bought - SoldByRisk
    /\ reservation' = [reservation EXCEPT ![e] =
          [status |-> "HELD", quantity |-> worker[w].quantity, filled |-> 0]]
    /\ Goto(w, "reserved")
    /\ UNCHANGED <<holder, bought, lot, request, attempt, rows, transport, venue, preempted,
                   crashes>>

\* One transaction marks the lot and inserts the request, from what was read
\* of the lot before.
PrepareRequest(w) ==
    LET e == worker[w].exit IN
    /\ worker[w].step = "reserved"
    /\ IF lot.status \in {"OPEN", "EXIT_PENDING"}
       THEN /\ lot' = [lot EXCEPT !.status = "EXIT_PENDING",
                                  !.pending = worker[w].pending + worker[w].quantity]
            /\ request' = [request EXCEPT ![e] =
                  [status |-> "PREPARED", quantity |-> worker[w].quantity,
                   order |-> FALSE, filled |-> 0]]
            /\ Goto(w, "prepared")
       ELSE /\ Goto(w, "withdrawing")
            /\ UNCHANGED <<lot, request>>
    /\ UNCHANGED <<holder, bought, reservation, attempt, rows, transport, venue, preempted,
                   crashes>>

RecordAttempt(w) ==
    LET e == worker[w].exit IN
    /\ worker[w].step = "prepared"
    /\ holder = w
    /\ reservation[e].status = "HELD"
    /\ ~attempt[e]
    /\ attempt' = [attempt EXCEPT ![e] = TRUE]
    /\ reservation' = [reservation EXCEPT ![e].status = "SUBMITTING"]
    /\ Goto(w, "attempted")
    /\ UNCHANGED <<holder, bought, lot, request, rows, transport, venue, preempted, crashes>>

\* The attempt or the update after it fails: reject_prepared.
SubmissionBlocked(w) ==
    /\ worker[w].step \in {"prepared", "attempted"}
    /\ Goto(w, "withdrawing")
    /\ UNCHANGED <<holder, books, rows, transport, venue, preempted, crashes>>

\* reject_prepared releases the reservation ...
WithdrawReservation(w) ==
    LET e == worker[w].exit IN
    /\ worker[w].step = "withdrawing"
    /\ reservation' = [reservation EXCEPT ![e] = Given(@, "RELEASED")]
    /\ Goto(w, "withdrawn")
    /\ UNCHANGED <<holder, bought, lot, request, attempt, rows, transport, venue, preempted,
                   crashes>>

\* ... and then rejects the request and opens the lot, whatever they are now.
WithdrawRequest(w) ==
    LET e == worker[w].exit IN
    /\ worker[w].step = "withdrawn"
    /\ request' = [request EXCEPT ![e].status = IF @ = "NONE" THEN @ ELSE "REJECTED"]
    /\ lot' = [lot EXCEPT !.status = "OPEN", !.pending = worker[w].pending]
    /\ Halt(w)
    /\ UNCHANGED <<holder, bought, reservation, attempt, rows, transport, venue, preempted,
                   crashes>>

\* PREPARED -> SUBMITTING, without a look at the row count, and the thread.
CallTransport(w) ==
    LET e == worker[w].exit IN
    /\ worker[w].step = "attempted"
    /\ request' = [request EXCEPT ![e].status = IF @ = "PREPARED" THEN "SUBMITTING" ELSE @]
    /\ transport' = [transport EXCEPT ![e] = [NoTransport EXCEPT !.step = "called", !.worker = w]]
    /\ Goto(w, "waiting")
    /\ UNCHANGED <<holder, bought, lot, reservation, attempt, rows, venue, preempted, crashes>>
-----------------------------------------------------------------------------
\* The submission thread.

Answers(e, result) ==
    transport' = [transport EXCEPT ![e] = [@ EXCEPT !.step = "done", !.result = result]]

ThreadOnly == UNCHANGED <<holder, books, worker, rows, venue, preempted, crashes>>

\* _submit_position_order binds the order to its reservation, signs it and
\* reads balance and allowance.
PrepareOrder(e) ==
    /\ transport[e].step = "called"
    /\ \/ /\ reservation[e].status \notin {"RELEASED", "FILLED", "SETTLED"}
          /\ transport' = [transport EXCEPT ![e].step = "signed"]
       \/ Answers(e, "REFUSED")
    /\ ThreadOnly

\* What before_post reads of the request and the lot.
RowsCurrent(e) ==
    /\ request[e].status = "SUBMITTING"
    /\ lot.status \in {"OPEN", "EXIT_PENDING"}
    /\ request[e].quantity <= Owned

\* before_post refuses, on what it reads or on what CanaryEntries models.
FenceRefuses(e) ==
    /\ transport[e].step \in {"signed", "marked"}
    /\ \E result \in {"REFUSED", "FAILED"} : Answers(e, result)
    /\ ThreadOnly

FirstFence(e) ==
    /\ transport[e].step = "signed"
    /\ RowsCurrent(e) /\ holder = transport[e].worker
    /\ transport' = [transport EXCEPT ![e].step = "fenced"]
    /\ ThreadOnly

\* on_send_started, under transport_state_lock ...
SendStarts(e) ==
    /\ transport[e].step = "fenced"
    /\ IF transport[e].cancelled
       THEN Answers(e, "REFUSED")
       ELSE transport' = [transport EXCEPT ![e].step = "started"]
    /\ ThreadOnly

\* ... and its write, which does not look at the status it replaces.
MarkSendStarted(e) ==
    /\ transport[e].step = "started"
    /\ request' = [request EXCEPT ![e].status = "SUBMITTING"]
    /\ transport' = [transport EXCEPT ![e].step = "marked"]
    /\ UNCHANGED <<holder, bought, lot, reservation, attempt, worker, rows, venue, preempted,
                   crashes>>

SecondFence(e) ==
    /\ transport[e].step = "marked"
    /\ RowsCurrent(e) /\ holder = transport[e].worker
    /\ transport' = [transport EXCEPT ![e].step = "cleared"]
    /\ ThreadOnly

\* post_order: the venue books the order or refuses it, and the answer may be
\* lost; or the credential check or the connection fails before it leaves.
Post(e) ==
    /\ transport[e].step = "cleared"
    /\ \/ /\ venue' = [venue EXCEPT ![e].state = "OPEN"]
          /\ \E result \in {"ACCEPTED", "FAILED"} : Answers(e, result)
       \/ /\ \E result \in {"REJECTED", "REFUSED", "FAILED"} : Answers(e, result)
          /\ UNCHANGED venue
    /\ UNCHANGED <<holder, books, worker, rows, preempted, crashes>>
-----------------------------------------------------------------------------
\* submit_exit takes the outcome.

\* Mutant: the guard is left out.
Always(r, status) == [r EXCEPT !.status = status]

\* The guard "status NOT IN (terminal)" of its updates.
Unless(r, status) == IF r.status \in FinalStatuses THEN r ELSE [r EXCEPT !.status = status]

Releasing(w, status) ==
    worker' = [worker EXCEPT ![w] = [@ EXCEPT !.step = "releasing", !.to = status]]

\* persist_submission_failure: the request, and the reservation after it.
PersistFailure(w, status) ==
    LET e == worker[w].exit IN
    /\ request' = [request EXCEPT ![e] = Unless(@, status)]
    /\ Releasing(w, IF status = "REJECTED" THEN "RELEASED" ELSE "UNKNOWN")
    /\ UNCHANGED lot

\* An error of the thread: a preflight code is known unsent.
SubmissionFails(w) ==
    LET e == worker[w].exit IN
    /\ worker[w].step = "waiting"
    /\ transport[e].step = "done"
    /\ transport[e].result \in {"REFUSED", "FAILED"}
    /\ PersistFailure(w, IF transport[e].result = "REFUSED" THEN "REJECTED" ELSE "UNKNOWN")
    /\ UNCHANGED <<holder, bought, reservation, attempt, rows, transport, venue, preempted,
                   crashes>>

\* Mutant: the second fence is taken for the last moment to cancel.
TimeOutStatusByFence(e) ==
    IF transport[e].step \in {"started", "marked"} THEN "UNKNOWN" ELSE "REJECTED"

\* What a timeout makes of the request.
TimeOutStatus(e) ==
    IF transport[e].step \in {"started", "marked", "cleared"} THEN "UNKNOWN" ELSE "REJECTED"

\* The call times out; a thread that has not started to send never will.
TimeOut(w) ==
    LET e == worker[w].exit IN
    /\ worker[w].step = "waiting"
    /\ transport[e].step \notin {"none", "done"}
    /\ transport' = [transport EXCEPT ![e].cancelled = TRUE]
    /\ PersistFailure(w, TimeOutStatus(e))
    /\ UNCHANGED <<holder, bought, reservation, attempt, rows, venue, preempted, crashes>>

\* The response: accepted with an order id, or refused, which opens the lot.
Responds(w) ==
    LET e == worker[w].exit IN
    /\ worker[w].step = "waiting"
    /\ transport[e].step = "done"
    /\ \/ /\ transport[e].result = "ACCEPTED"
          /\ request' = [request EXCEPT ![e] =
                IF @.status \in FinalStatuses THEN @
                ELSE [@ EXCEPT !.status = "OPEN", !.order = TRUE]]
          /\ Releasing(w, "OPEN")
          /\ UNCHANGED lot
       \/ /\ transport[e].result = "REJECTED"
          /\ request' = [request EXCEPT ![e] = Unless(@, "REJECTED")]
          /\ lot' = IF lot.status = "CLOSED" THEN lot
                    ELSE [lot EXCEPT !.status = "OPEN", !.pending = worker[w].pending]
          /\ Releasing(w, "RELEASED")
    /\ UNCHANGED <<holder, bought, reservation, attempt, rows, transport, venue, preempted,
                   crashes>>

\* The transaction of release_canary_capacity, last step of a submission and
\* of a projection that was terminal.
ReleaseCapacity(w) ==
    LET e == worker[w].exit IN
    /\ worker[w].step = "releasing"
    /\ reservation' = [reservation EXCEPT ![e] = Given(@, worker[w].to)]
    /\ Halt(w)
    /\ UNCHANGED <<holder, bought, lot, request, attempt, rows, transport, venue, preempted,
                   crashes>>
-----------------------------------------------------------------------------
\* reconcile_pending, of any process, with or without the lease.

\* The pass reads the pending requests and takes them one by one: with an
\* order id it asks the venue, PREPARED it takes for unsent, else UNKNOWN.
ReadRequest(w, e) ==
    /\ worker[w].step = "idle"
    /\ request[e].status \in PendingStatuses
    /\ worker' = [worker EXCEPT ![w] = [@ EXCEPT !.exit = e, !.step =
          IF request[e].order THEN "poll"
          ELSE IF request[e].status = "PREPARED" THEN "unsent" ELSE "orphan"]]
    /\ UNCHANGED <<holder, books, rows, transport, venue, preempted, crashes>>

\* _mark_request_unknown
MarkUnknown(w) ==
    LET e == worker[w].exit IN
    /\ worker[w].step = "orphan"
    /\ request' = [request EXCEPT ![e] = Unless(@, "UNKNOWN")]
    /\ Halt(w)
    /\ UNCHANGED <<holder, bought, lot, reservation, attempt, rows, transport, venue, preempted,
                   crashes>>

\* The request is no leavings of a crash: it went on, or its submitter lives.
WentOn(e) ==
    \/ request[e].status # "PREPARED"
    \/ \E v \in Workers : worker[v].exit = e /\ worker[v].step \in SubmitSteps
    \/ transport[e].step \notin {"none", "done"}

\* CRASH_BEFORE_SUBMISSION releases the reservation ...
ReleaseUnsent(w) ==
    LET e == worker[w].exit IN
    /\ worker[w].step = "unsent"
    /\ reservation' = [reservation EXCEPT ![e] = Given(@, "RELEASED")]
    /\ preempted' = IF WentOn(e) THEN preempted \cup {e} ELSE preempted
    /\ Goto(w, "rejecting")
    /\ UNCHANGED <<holder, bought, lot, request, attempt, rows, transport, venue, crashes>>

\* Mutant: what another process has taken off already is taken off again.
PendingLess(quantity) == lot.pending - quantity

\* What stays pending on the lot.
PendingWithout(quantity) == Max({0, lot.pending - quantity})

\* ... and then rejects the request and takes its quantity off the lot,
\* whatever they are now.
RejectUnsent(w) ==
    LET e == worker[w].exit
        left == PendingWithout(request[e].quantity)
    IN
    /\ worker[w].step = "rejecting"
    /\ request' = [request EXCEPT ![e].status = "REJECTED"]
    /\ lot' = [lot EXCEPT !.pending = left,
                          !.status = IF left > 0 THEN "EXIT_PENDING" ELSE "OPEN"]
    /\ preempted' = IF WentOn(e) THEN preempted \cup {e} ELSE preempted
    /\ Halt(w)
    /\ UNCHANGED <<holder, bought, reservation, attempt, rows, transport, venue, crashes>>

\* get_order ...
PollOrder(w) ==
    LET e == worker[w].exit IN
    /\ worker[w].step = "poll"
    /\ worker' = [worker EXCEPT ![w] = [@ EXCEPT !.step = "polled", !.state = venue[e].state]]
    /\ UNCHANGED <<holder, books, rows, transport, venue, preempted, crashes>>

\* ... and list_account_trades, later.
ListTrades(w) ==
    LET e == worker[w].exit IN
    /\ worker[w].step = "polled"
    /\ worker' = [worker EXCEPT ![w] = [@ EXCEPT !.step = "listed",
                                                 !.matched = venue[e].matched,
                                                 !.confirmed = venue[e].confirmed]]
    /\ UNCHANGED <<holder, books, rows, transport, venue, preempted, crashes>>

VenueUnavailable(w) ==
    /\ worker[w].step \in {"poll", "polled"}
    /\ Goto(w, "orphan")
    /\ UNCHANGED <<holder, books, rows, transport, venue, preempted, crashes>>

\* Mutant: a matched trade is taken for a sale.
Matched(w) == IF worker[w].state = "FAILED" THEN 0 ELSE worker[w].matched

\* What was listed: the trades of a failed order count for nothing.
Confirmed(w) == IF worker[w].state = "FAILED" THEN 0 ELSE worker[w].confirmed

\* Mutant: the trades of an order that is over are not waited for.
ProvisionalWhileOpen(w) == worker[w].state = "OPEN" /\ worker[w].matched > worker[w].confirmed

\* A trade is neither confirmed nor failed.
Provisional(w) == worker[w].state # "FAILED" /\ worker[w].matched > worker[w].confirmed

\* _apply_reconciled_request, first transaction: every new confirmed trade is
\* a risk fill and a position fill; record_canary_fill refuses it for a final
\* request, a finished reservation or more than the lot has left.
BookFills(w) ==
    LET e == worker[w].exit IN
    /\ worker[w].step = "listed"
    /\ \/ /\ Final(e) \/ reservation[e].status = "RELEASED"
          /\ Halt(w)
          /\ UNCHANGED reservation
       \/ /\ ~Final(e) /\ reservation[e].status # "RELEASED"
          /\ Confirmed(w) <= reservation[e].filled
          /\ Goto(w, "booked")
          /\ UNCHANGED reservation
       \/ /\ ~Final(e) /\ reservation[e].status # "RELEASED"
          /\ Confirmed(w) > reservation[e].filled
          /\ IF reservation[e].status \in HoldingStatuses /\ Owned > 0
             THEN /\ reservation' = [reservation EXCEPT
                        ![e].filled = Confirmed(w),
                        ![e].status = IF Confirmed(w) >= reservation[e].quantity THEN "FILLED"
                                      ELSE "PARTIALLY_FILLED"]
                  /\ Goto(w, "booked")
             ELSE Goto(w, "orphan") /\ UNCHANGED reservation
    /\ UNCHANGED <<holder, bought, lot, request, attempt, rows, transport, venue, preempted,
                   crashes>>

\* Second transaction: it reads the rows and what is booked ...
ReadRows(w) ==
    LET e == worker[w].exit IN
    /\ worker[w].step = "booked"
    /\ IF Final(e) \/ reservation[e].status \in {"SETTLED", "RELEASED"}
       THEN Halt(w) /\ UNCHANGED rows
       ELSE IF lot.status = "CLOSED"
       THEN Goto(w, "orphan") /\ UNCHANGED rows
       ELSE /\ rows' = [rows EXCEPT ![w] =
                  [request |-> request[e], lot |-> lot, booked |-> reservation[e].filled]]
            /\ Goto(w, "project")
    /\ UNCHANGED <<holder, books, transport, venue, preempted, crashes>>

\* A final observation: settled, failed or canceled, with no trade provisional.
Finishes(w) ==
    \/ worker[w].state = "FAILED"
    \/ worker[w].state \in {"CANCELED", "SETTLED"} /\ ~Provisional(w)

\* The status the request is given.
Proposed(w) ==
    IF worker[w].state = "SETTLED" /\ ~Provisional(w)
    THEN IF rows[w].booked >= rows[w].request.quantity THEN "SETTLED" ELSE "SETTLED_PARTIAL"
    ELSE IF worker[w].state = "SETTLED" THEN "UNKNOWN"
    ELSE IF Provisional(w) THEN "OPEN"
    ELSE worker[w].state

\* Neither the request nor the lot is other than what was read.
NothingMoved(w) ==
    LET e == worker[w].exit IN
    /\ [request[e] EXCEPT !.order = TRUE] = [rows[w].request EXCEPT !.order = TRUE]
    /\ lot = rows[w].lot

\* ... and projects them on request and lot, if neither has changed.
Project(w) ==
    LET e == worker[w].exit IN
    /\ worker[w].step = "project"
    /\ NothingMoved(w)
    /\ request' = [request EXCEPT ![e] =
          [@ EXCEPT !.status = Proposed(w), !.filled = rows[w].booked]]
    /\ lot' = [lot EXCEPT
          !.sold = rows[w].lot.sold + rows[w].booked - rows[w].request.filled,
          !.pending = IF Finishes(w) THEN 0 ELSE @,
          !.status = IF Proposed(w) = "SETTLED" THEN "CLOSED"
                     ELSE IF Finishes(w) THEN "OPEN" ELSE "EXIT_PENDING"]
    /\ rows' = [rows EXCEPT ![w] = NULL]
    /\ IF Finishes(w)
       THEN Releasing(w, IF worker[w].state = "SETTLED" THEN "SETTLED" ELSE "RELEASED")
       ELSE Halt(w)
    /\ UNCHANGED <<holder, bought, reservation, attempt, transport, venue, preempted, crashes>>

\* The compare-and-set misses: once more, or CANARY_RECONCILIATION_CAS_FAILED.
ProjectMisses(w) ==
    /\ worker[w].step = "project"
    /\ ~NothingMoved(w)
    /\ \/ Goto(w, "booked")
       \/ Goto(w, "orphan")
    /\ rows' = [rows EXCEPT ![w] = NULL]
    /\ UNCHANGED <<holder, books, transport, venue, preempted, crashes>>
-----------------------------------------------------------------------------
\* The venue.

VenueOnly == UNCHANGED <<holder, books, worker, rows, transport, preempted, crashes>>

Match(e) ==
    /\ venue[e].state = "OPEN"
    /\ venue[e].matched < request[e].quantity
    /\ venue' = [venue EXCEPT ![e].matched = @ + 1]
    /\ VenueOnly

ConfirmTrade(e) ==
    /\ venue[e].confirmed < venue[e].matched
    /\ venue' = [venue EXCEPT ![e].confirmed = @ + 1]
    /\ VenueOnly

TradeFails(e) ==
    /\ venue[e].confirmed < venue[e].matched
    /\ venue' = [venue EXCEPT ![e].matched = @ - 1]
    /\ VenueOnly

\* The order ends: canceled with what it matched, settled, or failed.
EndOrder(e) ==
    /\ venue[e].state = "OPEN"
    /\ \/ /\ venue[e].matched < request[e].quantity
          /\ venue' = [venue EXCEPT ![e].state = "CANCELED"]
       \/ /\ venue[e].matched > 0
          /\ venue' = [venue EXCEPT ![e].state = "SETTLED"]
       \/ /\ venue[e].confirmed = 0
          /\ venue' = [venue EXCEPT ![e] = [@ EXCEPT !.state = "FAILED", !.matched = 0]]
    /\ VenueOnly
-----------------------------------------------------------------------------
Init ==
    /\ holder \in Workers
    /\ bought = 0
    /\ lot = [status |-> "NONE", quantity |-> 0, sold |-> 0, pending |-> 0]
    /\ request = [e \in Exits |->
          [status |-> "NONE", quantity |-> 0, order |-> FALSE, filled |-> 0]]
    /\ reservation = [e \in Exits |-> [status |-> "NONE", quantity |-> 0, filled |-> 0]]
    /\ attempt = [e \in Exits |-> FALSE]
    /\ worker = [w \in Workers |-> Idle]
    /\ rows = [w \in Workers |-> NULL]
    /\ transport = [e \in Exits |-> NoTransport]
    /\ venue = [e \in Exits |-> [state |-> "NONE", matched |-> 0, confirmed |-> 0]]
    /\ preempted = {}
    /\ crashes = 0

Submit(w) ==
    \/ ReadLot(w) \/ CheckRequests(w) \/ AdmissionRefused(w) \/ ReserveExit(w)
    \/ PrepareRequest(w) \/ RecordAttempt(w) \/ SubmissionBlocked(w)
    \/ WithdrawReservation(w) \/ WithdrawRequest(w) \/ CallTransport(w)
    \/ SubmissionFails(w) \/ TimeOut(w) \/ Responds(w) \/ ReleaseCapacity(w)

Thread(e) ==
    \/ PrepareOrder(e) \/ FenceRefuses(e) \/ FirstFence(e) \/ SendStarts(e)
    \/ MarkSendStarted(e) \/ SecondFence(e) \/ Post(e)

\* A request of the pass, taken up, runs to its end.
Reconcile(w) ==
    \/ MarkUnknown(w) \/ ReleaseUnsent(w) \/ RejectUnsent(w)
    \/ PollOrder(w) \/ ListTrades(w) \/ VenueUnavailable(w)
    \/ BookFills(w) \/ ReadRows(w) \/ Project(w) \/ ProjectMisses(w)

Venue(e) == Match(e) \/ ConfirmTrade(e) \/ TradeFails(e) \/ EndOrder(e)

Next ==
    \/ LeaseMoves
    \/ \E w \in Workers : \/ ConfirmBuy(w) \/ SyncEntryLot(w)
                          \/ Submit(w) \/ Reconcile(w) \/ Crash(w)
    \/ \E w \in Workers, e \in Exits : ReadRequest(w, e)
    \/ \E e \in Exits : Thread(e) \/ Venue(e)

Spec == Init /\ [][Next]_vars

\* A process goes on with what it has begun; each pass of each tick takes up
\* every pending request; and the venue, asked again and again, answers.
FairSpec ==
    /\ Spec
    /\ \A w \in Workers : /\ WF_vars(Submit(w)) /\ WF_vars(Reconcile(w))
                          /\ SF_vars(PollOrder(w)) /\ SF_vars(ListTrades(w))
                          /\ SF_vars(Project(w))
    /\ \A w \in Workers, e \in Exits : SF_vars(ReadRequest(w, e))
    /\ \A e \in Exits : WF_vars(Thread(e))
-----------------------------------------------------------------------------
\* Properties.

\* The rows and the locals keep their types.
TypeOK ==
    /\ holder \in Workers /\ bought \in Quantity /\ lot \in Lots
    /\ request \in [Exits -> Requests] /\ reservation \in [Exits -> Reservations]
    /\ attempt \in [Exits -> BOOLEAN]
    /\ worker \in [Workers -> Locals] /\ rows \in [Workers -> Rows]
    /\ transport \in [Exits -> Threads] /\ venue \in [Exits -> Orders]
    /\ preempted \subseteq Exits /\ crashes \in 0..MaxCrashes

\* An exit whose request is REJECTED, and whose reservation is given back, is
\* never an order at the venue: not by a thread that outlived its caller, not
\* after a crash.  Except where a second process took a PREPARED request for
\* the leavings of a crash while its submitter was alive.
RejectedNeverPosted ==
    \A e \in Exits \ preempted :
        request[e].status = "REJECTED" => venue[e].state \in {"NONE", "FAILED"}

\* What live exit orders can still sell, with what was sold, never exceeds the
\* confirmed inventory: however requests, timeouts, crashes and reconciliation
\* interleave, with the same exception.
SalesWithinInventory ==
    LET atVenue(e) == IF venue[e].state = "OPEN" THEN request[e].quantity
                      ELSE venue[e].matched
    IN SumFunctionOnSet([e \in Exits |-> atVenue(e)], Exits \ preempted) <= bought

\* The three books of a sale agree: the lot has sold what its requests were
\* filled, a request is filled with no more than its risk fills and all of them
\* once it is final, and every risk fill is a confirmed trade, though two
\* processes reconcile the same request at once.
BooksAgree ==
    /\ lot.sold = SumFunction([e \in Exits |-> request[e].filled])
    /\ \A e \in Exits :
        /\ request[e].filled <= reservation[e].filled
        /\ Final(e) /\ e \notin preempted => request[e].filled = reservation[e].filled
        /\ reservation[e].filled <= venue[e].confirmed

\* A final request stays as it is: no late read, answer or retry of another
\* process reopens or refills it.
FinalStaysFinal ==
    [][\A e \in Exits \ preempted' : Final(e) => request'[e] = request[e]]_vars

\* An exit whose order id is recorded and whose order has ended at the venue
\* with all its trades confirmed becomes final, though the venue is at times
\* unavailable and a process crashes.
EndedIsReconciled ==
    \A e \in Exits :
        [](/\ request[e].order
           /\ venue[e].state \in {"CANCELED", "FAILED", "SETTLED"}
           /\ venue[e].matched = venue[e].confirmed
           => <>(Final(e) \/ e \in preempted))

=============================================================================
