-------------------------- MODULE CanaryExitsProofs --------------------------
(***************************************************************************)
(* Proofs about CanaryExits, for any number of processes, exits, fills and *)
(* crashes: an exit that is REJECTED was never posted and its thread never *)
(* will, and a final request stays as it is.  What the ledgers add up to   *)
(* is proved from this in CanaryExitsLedger.                               *)
(***************************************************************************)
EXTENDS CanaryExits, TLAPS

-----------------------------------------------------------------------------
(* The inductive invariant.                                                *)

\* The types, without their bounds.
Statuses == {"NONE"} \cup PendingStatuses \cup FinalStatuses
AnyLot == [status : {"NONE", "OPEN", "EXIT_PENDING", "CLOSED"},
           quantity : Int, sold : Int, pending : Int]
AnyRequest == [status : Statuses, quantity : Int, order : BOOLEAN, filled : Int]
AnyReservation == [status : {"NONE", "FILLED", "RELEASED", "SETTLED"} \cup HoldingStatuses,
                   quantity : Int, filled : Int]
AnyWorker == [step : {"idle", "releasing"} \cup SubmitSteps \cup ReconcileSteps,
              exit : Exits \cup {NULL}, quantity : Int, pending : Int,
              to : {"NONE", "RELEASED", "UNKNOWN", "OPEN", "SETTLED"},
              state : {"NONE", "OPEN", "CANCELED", "FAILED", "SETTLED"},
              matched : Int, confirmed : Int]
AnyRows == [request : AnyRequest, lot : AnyLot, booked : Int]
AnyOrder == [state : {"NONE", "OPEN", "CANCELED", "FAILED", "SETTLED"},
             matched : Int, confirmed : Int]

Shape ==
    /\ bought \in Int /\ lot \in AnyLot
    /\ request \in [Exits -> AnyRequest] /\ reservation \in [Exits -> AnyReservation]
    /\ worker \in [Workers -> AnyWorker] /\ rows \in [Workers -> {NULL} \cup AnyRows]
    /\ transport \in [Exits -> Threads] /\ venue \in [Exits -> AnyOrder]
    /\ attempt \in [Exits -> BOOLEAN] /\ preempted \subseteq Exits

\* From its choice to its end, a worker is about an exit.
Working ==
    \A w \in Workers : worker[w].step \notin {"idle", "read"} => worker[w].exit \in Exits

Busy(w, e) == worker[w].exit = e /\ worker[w].step \notin {"idle", "read"}

Submitting(w, e) == worker[w].exit = e /\ worker[w].step \in SubmitSteps \ {"read"}

\* An exit has one submitter.
Exclusive(e) == \A v, w \in Workers : Submitting(v, e) /\ Submitting(w, e) => v = w

\* Nothing has left for the venue before the thread is called; an answer is
\* given once, by a thread that is done; an order id was answered.
ThreadOK(e) ==
    /\ reservation[e].status = "NONE" => request[e].status = "NONE"
    /\ request[e].status \in {"NONE", "PREPARED"} => transport[e].step = "none"
    /\ transport[e].step = "none" => transport[e].worker = NULL
    /\ venue[e].state # "NONE" => transport[e].step = "done"
    /\ transport[e].result # "NONE" => transport[e].step = "done"
    /\ transport[e].result = "ACCEPTED" => venue[e].state # "NONE"
    /\ transport[e].result \in {"REJECTED", "REFUSED"} => venue[e].state = "NONE"
    /\ request[e].order => transport[e].step = "done" /\ venue[e].state # "NONE"

\* The thread of a final request is over, or was told to end before it sends.
FinalOK(e) ==
    e \notin preempted =>
        /\ Final(e) => \/ transport[e].step \in {"none", "done"}
                       \/ transport[e].cancelled /\
                          transport[e].step \in {"called", "signed", "fenced"}
        /\ request[e].status = "REJECTED" => venue[e].state = "NONE"

\* What a worker relies on at each step.
StepOK(w, e) ==
    LET step == worker[w].step IN
    /\ step = "admitted" => reservation[e].status = "NONE"
    /\ step # "admitted" => reservation[e].status # "NONE"
    /\ step = "reserved" => request[e].status = "NONE"
    /\ step \in {"prepared", "attempted"} =>
          /\ transport[e].step = "none" /\ request[e].status # "NONE"
          /\ request[e].status = "PREPARED" \/ e \in preempted
    /\ step \in {"withdrawing", "withdrawn"} =>
          /\ transport[e].step = "none"
          /\ request[e].status \in {"NONE", "PREPARED"} \/ e \in preempted
    /\ step = "waiting" => transport[e].step # "none"
    /\ step = "releasing" => worker[w].to # "NONE"
    /\ step \in ReconcileSteps => request[e].status # "NONE"
    /\ step \in ReconcileSteps \ {"unsent", "rejecting"} => request[e].status # "PREPARED"
    /\ step \in {"poll", "polled", "listed", "booked", "project"} => request[e].order
    /\ step \in {"polled", "listed", "booked", "project"} => worker[w].state # "NONE"
    /\ step = "project" =>
          rows[w] \in AnyRows /\ rows[w].request.status \notin FinalStatuses

ExitInvariantOf(e) ==
    /\ Exclusive(e) /\ ThreadOK(e) /\ FinalOK(e)
    /\ \A w \in Workers : Busy(w, e) => StepOK(w, e)

ExitInvariant == Shape /\ Working /\ \A e \in Exits : ExitInvariantOf(e)

-----------------------------------------------------------------------------
(* Every step keeps the types.                                             *)

LEMMA MaxIsInt ==
    ASSUME NEW n \in Int
    PROVE  Max({0, n}) \in Int
<1>1. \E x \in {0, n} : \A y \in {0, n} : x >= y
  <2>1. CASE n >= 0 BY <2>1
  <2>2. CASE ~(n >= 0) BY <2>2
  <2> QED BY <2>1, <2>2
<1> QED BY <1>1 DEF Max

LEMMA RecordsTyped ==
    /\ Idle \in AnyWorker
    /\ NoTransport \in Threads
BY DEF Idle, NoTransport, AnyWorker, Threads, SubmitSteps, ReconcileSteps

LEMMA ConfirmBuyShape ==
    ASSUME ExitInvariant, NEW w \in Workers, ConfirmBuy(w)
    PROVE  Shape'
<1>1. bought' \in Int
  BY RecordsTyped DEF ConfirmBuy, ExitInvariant, Shape, Working
<1>2. UNCHANGED <<lot, request, reservation, worker, rows, transport, venue, attempt, preempted>>
  BY DEF ConfirmBuy, books
<1> QED BY <1>1, <1>2 DEF Shape, ExitInvariant

LEMMA SyncEntryLotShape ==
    ASSUME ExitInvariant, NEW w \in Workers, SyncEntryLot(w)
    PROVE  Shape'
<1>1. lot' \in AnyLot
  BY RecordsTyped DEF SyncEntryLot, ExitInvariant, Shape, Working, AnyLot
<1>2. UNCHANGED <<bought, request, reservation, worker, rows, transport,
        venue, attempt, preempted>>
  BY DEF SyncEntryLot, books
<1> QED BY <1>1, <1>2 DEF Shape, ExitInvariant

LEMMA ReadLotShape ==
    ASSUME ExitInvariant, NEW w \in Workers, ReadLot(w)
    PROVE  Shape'
<1>1. worker' \in [Workers -> AnyWorker]
  <2>1. ASSUME NEW q \in Int, NEW p \in Int, NEW r \in AnyWorker
        PROVE  [r EXCEPT !.step = "read", !.quantity = q, !.pending = p] \in AnyWorker
    BY DEF AnyWorker, SubmitSteps
  <2>2. Available \in Int /\ lot.pending \in Int
    BY DEF ExitInvariant, Shape, Available, AnyLot
  <2>3. [Idle EXCEPT !.step = "read", !.quantity = Available, !.pending = lot.pending]
          \in AnyWorker
    BY <2>1, <2>2, RecordsTyped
  <2>4. worker' = [worker EXCEPT ![w] =
          [Idle EXCEPT !.step = "read", !.quantity = Available, !.pending = lot.pending]]
    BY DEF ReadLot
  <2> QED BY <2>3, <2>4 DEF ExitInvariant, Shape
<1>2. UNCHANGED <<bought, lot, request, reservation, rows, transport, venue, attempt, preempted>>
  BY DEF ReadLot, Idle, Available, books
<1> QED BY <1>1, <1>2 DEF Shape, ExitInvariant

LEMMA AdmissionRefusedShape ==
    ASSUME ExitInvariant, NEW w \in Workers, AdmissionRefused(w)
    PROVE  Shape'
<1>1. worker' \in [Workers -> AnyWorker]
  BY RecordsTyped DEF AdmissionRefused, Halt, Idle, ExitInvariant, Shape, Working, AnyWorker,
     SubmitSteps, ReconcileSteps
<1>2. UNCHANGED <<bought, lot, request, reservation, rows, transport, venue, attempt, preempted>>
  BY DEF AdmissionRefused, Halt, Idle, books
<1> QED BY <1>1, <1>2 DEF Shape, ExitInvariant

LEMMA CheckRequestsShape ==
    ASSUME ExitInvariant, NEW w \in Workers, CheckRequests(w)
    PROVE  Shape'
<1>1. worker' \in [Workers -> AnyWorker]
  <2> DEFINE unused == {e \in Exits : /\ reservation[e].status = "NONE"
                                     /\ \A v \in Workers : worker[v].exit # e}
             chosen == CHOOSE e \in unused : TRUE
  <2>1. worker[w] \in AnyWorker /\ chosen \in Exits
    BY DEF ExitInvariant, Shape, CheckRequests
  <2>2. worker' = [worker EXCEPT ![w] = [worker[w] EXCEPT !.step = "admitted", !.exit = chosen]]
    BY DEF CheckRequests
  <2> HIDE DEF chosen
  <2>3. [worker[w] EXCEPT !.step = "admitted", !.exit = chosen] \in AnyWorker
    BY <2>1 DEF AnyWorker, SubmitSteps, ReconcileSteps
  <2> QED BY <2>2, <2>3 DEF ExitInvariant, Shape
<1>2. UNCHANGED <<bought, lot, request, reservation, rows, transport, venue, attempt, preempted>>
  BY DEF CheckRequests, books
<1> QED BY <1>1, <1>2 DEF Shape, ExitInvariant

LEMMA ReserveExitShape ==
    ASSUME ExitInvariant, NEW w \in Workers, ReserveExit(w)
    PROVE  Shape'
<1>1. reservation' \in [Exits -> AnyReservation]
  <2> DEFINE e == worker[w].exit
  <2>1. /\ worker[w] \in AnyWorker /\ lot \in AnyLot
        /\ e \in Exits /\ reservation[e] \in AnyReservation
    BY DEF ExitInvariant, Shape, Working, ReserveExit
  <2>2. [status |-> "HELD", quantity |-> worker[w].quantity, filled |-> 0] \in AnyReservation
    BY <2>1 DEF AnyReservation, HoldingStatuses, AnyWorker
  <2>3. reservation' = [reservation EXCEPT ![e] =
          [status |-> "HELD", quantity |-> worker[w].quantity, filled |-> 0]]
    BY DEF ReserveExit
  <2> QED BY <2>2, <2>3 DEF ExitInvariant, Shape
<1>2. worker' \in [Workers -> AnyWorker]
  BY RecordsTyped DEF ReserveExit, Goto, ExitInvariant, Shape, Working, AnyWorker, SubmitSteps,
     ReconcileSteps
<1>3. UNCHANGED <<bought, lot, request, rows, transport, venue, attempt, preempted>>
  BY DEF ReserveExit, Goto, books
<1> QED BY <1>1, <1>2, <1>3 DEF Shape, ExitInvariant

LEMMA PrepareRequestShape ==
    ASSUME ExitInvariant, NEW w \in Workers, PrepareRequest(w)
    PROVE  Shape'
<1>1. lot' \in AnyLot
  <2>1. worker[w] \in AnyWorker /\ lot \in AnyLot
    BY DEF ExitInvariant, Shape
  <2> DEFINE pending == worker[w].pending + worker[w].quantity
  <2>2. pending \in Int
    BY <2>1 DEF AnyWorker
  <2>3. \/ lot' = [lot EXCEPT !.status = "EXIT_PENDING", !.pending = pending]
        \/ lot' = lot
    BY DEF PrepareRequest
  <2> HIDE DEF pending
  <2> QED BY <2>1, <2>2, <2>3 DEF AnyLot
<1>2. request' \in [Exits -> AnyRequest]
  <2> DEFINE e == worker[w].exit
  <2>1. /\ worker[w] \in AnyWorker /\ lot \in AnyLot
        /\ e \in Exits /\ request[e] \in AnyRequest
    BY DEF ExitInvariant, Shape, Working, PrepareRequest
  <2>2. CASE lot.status \in {"OPEN", "EXIT_PENDING"}
    <3>1. [status |-> "PREPARED", quantity |-> worker[w].quantity,
           order |-> FALSE, filled |-> 0] \in AnyRequest
      BY <2>2, <2>1 DEF AnyRequest, Statuses, PendingStatuses, FinalStatuses, AnyWorker
    <3>2. request' = [request EXCEPT ![e] =
            [status |-> "PREPARED", quantity |-> worker[w].quantity,
           order |-> FALSE, filled |-> 0]]
      BY <2>2 DEF PrepareRequest
    <3> QED BY <3>1, <3>2 DEF ExitInvariant, Shape
  <2>3. CASE ~(lot.status \in {"OPEN", "EXIT_PENDING"})
    <3>1. request' = request
      BY <2>3 DEF PrepareRequest
    <3> QED BY <3>1 DEF ExitInvariant, Shape
  <2> QED BY <2>2, <2>3 DEF PrepareRequest
<1>3. worker' \in [Workers -> AnyWorker]
  <2>1. worker[w] \in AnyWorker /\ lot \in AnyLot
    BY DEF ExitInvariant, Shape, Working, PrepareRequest
  <2>2. CASE lot.status \in {"OPEN", "EXIT_PENDING"}
    <3>1. [worker[w] EXCEPT !.step = "prepared"] \in AnyWorker
      BY <2>2, <2>1 DEF AnyWorker, SubmitSteps, ReconcileSteps
    <3>2. worker' = [worker EXCEPT ![w] = [worker[w] EXCEPT !.step = "prepared"]]
      BY <2>2 DEF PrepareRequest, Goto
    <3> QED BY <3>1, <3>2 DEF ExitInvariant, Shape
  <2>3. CASE ~(lot.status \in {"OPEN", "EXIT_PENDING"})
    <3>1. [worker[w] EXCEPT !.step = "withdrawing"] \in AnyWorker
      BY <2>3, <2>1 DEF AnyWorker, SubmitSteps, ReconcileSteps
    <3>2. worker' = [worker EXCEPT ![w] = [worker[w] EXCEPT !.step = "withdrawing"]]
      BY <2>3 DEF PrepareRequest, Goto
    <3> QED BY <3>1, <3>2 DEF ExitInvariant, Shape
  <2> QED BY <2>2, <2>3 DEF PrepareRequest
<1>4. UNCHANGED <<bought, reservation, rows, transport, venue, attempt, preempted>>
  BY DEF PrepareRequest, Goto, books
<1> QED BY <1>1, <1>2, <1>3, <1>4 DEF Shape, ExitInvariant

LEMMA RecordAttemptShape ==
    ASSUME ExitInvariant, NEW w \in Workers, RecordAttempt(w)
    PROVE  Shape'
<1>1. attempt' \in [Exits -> BOOLEAN]
  BY RecordsTyped DEF RecordAttempt, Goto, ExitInvariant, Shape, Working
<1>2. reservation' \in [Exits -> AnyReservation]
  BY RecordsTyped DEF RecordAttempt, Goto, ExitInvariant, Shape, Working, AnyReservation,
     HoldingStatuses
<1>3. worker' \in [Workers -> AnyWorker]
  BY RecordsTyped DEF RecordAttempt, Goto, ExitInvariant, Shape, Working, AnyWorker, SubmitSteps,
     ReconcileSteps
<1>4. UNCHANGED <<bought, lot, request, rows, transport, venue, preempted>>
  BY DEF RecordAttempt, Goto, books
<1> QED BY <1>1, <1>2, <1>3, <1>4 DEF Shape, ExitInvariant

LEMMA SubmissionBlockedShape ==
    ASSUME ExitInvariant, NEW w \in Workers, SubmissionBlocked(w)
    PROVE  Shape'
<1>1. worker' \in [Workers -> AnyWorker]
  BY RecordsTyped DEF SubmissionBlocked, Goto, ExitInvariant, Shape, Working, AnyWorker,
     SubmitSteps, ReconcileSteps
<1>2. UNCHANGED <<bought, lot, request, reservation, rows, transport, venue, attempt, preempted>>
  BY DEF SubmissionBlocked, Goto, books
<1> QED BY <1>1, <1>2 DEF Shape, ExitInvariant

LEMMA WithdrawReservationShape ==
    ASSUME ExitInvariant, NEW w \in Workers, WithdrawReservation(w)
    PROVE  Shape'
<1>1. reservation' \in [Exits -> AnyReservation]
  BY RecordsTyped DEF WithdrawReservation, Goto, Given, ExitInvariant, Shape, Working,
     AnyReservation, HoldingStatuses
<1>2. worker' \in [Workers -> AnyWorker]
  BY RecordsTyped DEF WithdrawReservation, Goto, Given, ExitInvariant, Shape, Working, AnyWorker,
     SubmitSteps, ReconcileSteps
<1>3. UNCHANGED <<bought, lot, request, rows, transport, venue, attempt, preempted>>
  BY DEF WithdrawReservation, Goto, Given, books
<1> QED BY <1>1, <1>2, <1>3 DEF Shape, ExitInvariant

LEMMA WithdrawRequestShape ==
    ASSUME ExitInvariant, NEW w \in Workers, WithdrawRequest(w)
    PROVE  Shape'
<1>1. request' \in [Exits -> AnyRequest]
  <2> DEFINE e == worker[w].exit
  <2>1. /\ worker[w] \in AnyWorker /\ lot \in AnyLot
        /\ e \in Exits /\ request[e] \in AnyRequest
    BY DEF ExitInvariant, Shape, Working, WithdrawRequest
  <2>2. [request[e] EXCEPT !.status =
           IF request[e].status = "NONE" THEN "NONE" ELSE "REJECTED"] \in AnyRequest
    BY <2>1 DEF AnyRequest, Statuses, PendingStatuses, FinalStatuses
  <2>3. request' = [request EXCEPT ![e] = [request[e] EXCEPT !.status =
           IF request[e].status = "NONE" THEN "NONE" ELSE "REJECTED"]]
    BY DEF WithdrawRequest
  <2> QED BY <2>2, <2>3 DEF ExitInvariant, Shape
<1>2. lot' \in AnyLot
  <2>1. worker[w] \in AnyWorker /\ lot \in AnyLot
    BY DEF ExitInvariant, Shape, Working, WithdrawRequest
  <2>2. [lot EXCEPT !.status = "OPEN", !.pending = worker[w].pending] \in AnyLot
    BY <2>1 DEF AnyLot, AnyWorker
  <2>3. lot' = [lot EXCEPT !.status = "OPEN", !.pending = worker[w].pending]
    BY DEF WithdrawRequest
  <2> QED BY <2>2, <2>3 DEF ExitInvariant, Shape
<1>3. worker' \in [Workers -> AnyWorker]
  BY RecordsTyped DEF WithdrawRequest, Halt, Idle, ExitInvariant, Shape, Working, AnyWorker,
     SubmitSteps, ReconcileSteps
<1>4. UNCHANGED <<bought, reservation, rows, transport, venue, attempt, preempted>>
  BY DEF WithdrawRequest, Halt, Idle, books
<1> QED BY <1>1, <1>2, <1>3, <1>4 DEF Shape, ExitInvariant

LEMMA CallTransportShape ==
    ASSUME ExitInvariant, NEW w \in Workers, CallTransport(w)
    PROVE  Shape'
<1>1. request' \in [Exits -> AnyRequest]
  <2> DEFINE e == worker[w].exit
  <2>1. /\ worker[w] \in AnyWorker /\ lot \in AnyLot
        /\ e \in Exits /\ request[e] \in AnyRequest
    BY DEF ExitInvariant, Shape, Working, CallTransport
  <2>2. [request[e] EXCEPT !.status =
           IF request[e].status = "PREPARED" THEN "SUBMITTING"
                   ELSE request[e].status] \in AnyRequest
    BY <2>1 DEF AnyRequest, Statuses, PendingStatuses, FinalStatuses
  <2>3. request' = [request EXCEPT ![e] = [request[e] EXCEPT !.status =
           IF request[e].status = "PREPARED" THEN "SUBMITTING" ELSE request[e].status]]
    BY DEF CallTransport
  <2> QED BY <2>2, <2>3 DEF ExitInvariant, Shape
<1>2. transport' \in [Exits -> Threads]
  BY RecordsTyped DEF CallTransport, Goto, NoTransport, ExitInvariant, Shape, Working, Threads
<1>3. worker' \in [Workers -> AnyWorker]
  <2>1. worker[w] \in AnyWorker /\ lot \in AnyLot
    BY DEF ExitInvariant, Shape, Working, CallTransport
  <2>2. [worker[w] EXCEPT !.step = "waiting"] \in AnyWorker
    BY <2>1 DEF AnyWorker, SubmitSteps, ReconcileSteps
  <2>3. worker' = [worker EXCEPT ![w] = [worker[w] EXCEPT !.step = "waiting"]]
    BY DEF CallTransport, Goto
  <2> QED BY <2>2, <2>3 DEF ExitInvariant, Shape
<1>4. UNCHANGED <<bought, lot, reservation, rows, venue, attempt, preempted>>
  BY DEF CallTransport, Goto, NoTransport, books
<1> QED BY <1>1, <1>2, <1>3, <1>4 DEF Shape, ExitInvariant

LEMMA SubmissionFailsShape ==
    ASSUME ExitInvariant, NEW w \in Workers, SubmissionFails(w)
    PROVE  Shape'
<1>1. request' \in [Exits -> AnyRequest]
  <2> DEFINE e == worker[w].exit
  <2>1. /\ worker[w] \in AnyWorker /\ lot \in AnyLot
        /\ e \in Exits /\ request[e] \in AnyRequest
    BY DEF ExitInvariant, Shape, Working, SubmissionFails
  <2>2. CASE transport[e].result = "REFUSED"
    <3>1. Unless(request[e], "REJECTED") \in AnyRequest
      BY <2>2, <2>1 DEF AnyRequest, Statuses, PendingStatuses, FinalStatuses, Unless
    <3>2. request' = [request EXCEPT ![e] = Unless(request[e], "REJECTED")]
      BY <2>2 DEF SubmissionFails, PersistFailure
    <3> QED BY <3>1, <3>2 DEF ExitInvariant, Shape
  <2>3. CASE transport[e].result # "REFUSED"
    <3>1. Unless(request[e], "UNKNOWN") \in AnyRequest
      BY <2>3, <2>1 DEF AnyRequest, Statuses, PendingStatuses, FinalStatuses, Unless
    <3>2. request' = [request EXCEPT ![e] = Unless(request[e], "UNKNOWN")]
      BY <2>3 DEF SubmissionFails, PersistFailure
    <3> QED BY <3>1, <3>2 DEF ExitInvariant, Shape
  <2> QED BY <2>2, <2>3 DEF SubmissionFails
<1>2. worker' \in [Workers -> AnyWorker]
  <2> DEFINE e == worker[w].exit
  <2>1. worker[w] \in AnyWorker /\ lot \in AnyLot
    BY DEF ExitInvariant, Shape, Working, SubmissionFails
  <2>2. CASE transport[e].result = "REFUSED"
    <3>1. [worker[w] EXCEPT !.step = "releasing", !.to = "RELEASED"] \in AnyWorker
      BY <2>2, <2>1 DEF AnyWorker, SubmitSteps, ReconcileSteps
    <3>2. worker' = [worker EXCEPT ![w] =
            [worker[w] EXCEPT !.step = "releasing", !.to = "RELEASED"]]
      BY <2>2 DEF SubmissionFails, PersistFailure, Releasing
    <3> QED BY <3>1, <3>2 DEF ExitInvariant, Shape
  <2>3. CASE transport[e].result # "REFUSED"
    <3>1. [worker[w] EXCEPT !.step = "releasing", !.to = "UNKNOWN"] \in AnyWorker
      BY <2>3, <2>1 DEF AnyWorker, SubmitSteps, ReconcileSteps
    <3>2. worker' = [worker EXCEPT ![w] =
            [worker[w] EXCEPT !.step = "releasing", !.to = "UNKNOWN"]]
      BY <2>3 DEF SubmissionFails, PersistFailure, Releasing
    <3> QED BY <3>1, <3>2 DEF ExitInvariant, Shape
  <2> QED BY <2>2, <2>3 DEF SubmissionFails
<1>3. UNCHANGED <<bought, lot, reservation, rows, transport, venue, attempt, preempted>>
  BY DEF SubmissionFails, PersistFailure, Releasing, Unless, books
<1> QED BY <1>1, <1>2, <1>3 DEF Shape, ExitInvariant

LEMMA TimeOutShape ==
    ASSUME ExitInvariant, NEW w \in Workers, TimeOut(w)
    PROVE  Shape'
<1>1. request' \in [Exits -> AnyRequest]
  <2> DEFINE e == worker[w].exit
  <2>1. e \in Exits /\ request[e] \in AnyRequest
    BY DEF ExitInvariant, Shape, Working, TimeOut
  <2>2. TimeOutStatus(e) \in {"UNKNOWN", "REJECTED"}
    BY DEF TimeOutStatus
  <2>3. Unless(request[e], TimeOutStatus(e)) \in AnyRequest
    BY <2>1, <2>2 DEF Unless, AnyRequest, Statuses, PendingStatuses, FinalStatuses
  <2>4. request' = [request EXCEPT ![e] = Unless(request[e], TimeOutStatus(e))]
    BY DEF TimeOut, PersistFailure
  <2> QED BY <2>1, <2>3, <2>4 DEF ExitInvariant, Shape
<1>2. transport' \in [Exits -> Threads]
  BY RecordsTyped DEF TimeOut, PersistFailure, Releasing, Unless, TimeOutStatus, ExitInvariant,
     Shape, Working, Threads
<1>3. worker' \in [Workers -> AnyWorker]
  <2> DEFINE e == worker[w].exit
  <2>1. worker[w] \in AnyWorker /\ lot \in AnyLot
    BY DEF ExitInvariant, Shape, Working, TimeOut
  <2>2. CASE TimeOutStatus(e) = "REJECTED"
    <3>1. [worker[w] EXCEPT !.step = "releasing", !.to = "RELEASED"] \in AnyWorker
      BY <2>2, <2>1 DEF AnyWorker, SubmitSteps, ReconcileSteps
    <3>2. worker' = [worker EXCEPT ![w] =
            [worker[w] EXCEPT !.step = "releasing", !.to = "RELEASED"]]
      BY <2>2 DEF TimeOut, PersistFailure, Releasing
    <3> QED BY <3>1, <3>2 DEF ExitInvariant, Shape
  <2>3. CASE TimeOutStatus(e) # "REJECTED"
    <3>1. [worker[w] EXCEPT !.step = "releasing", !.to = "UNKNOWN"] \in AnyWorker
      BY <2>3, <2>1 DEF AnyWorker, SubmitSteps, ReconcileSteps
    <3>2. worker' = [worker EXCEPT ![w] =
            [worker[w] EXCEPT !.step = "releasing", !.to = "UNKNOWN"]]
      BY <2>3 DEF TimeOut, PersistFailure, Releasing
    <3> QED BY <3>1, <3>2 DEF ExitInvariant, Shape
  <2> QED BY <2>2, <2>3 DEF TimeOut
<1>4. UNCHANGED <<bought, lot, reservation, rows, venue, attempt, preempted>>
  BY DEF TimeOut, PersistFailure, Releasing, Unless, TimeOutStatus, books
<1> QED BY <1>1, <1>2, <1>3, <1>4 DEF Shape, ExitInvariant

LEMMA RespondsShape ==
    ASSUME ExitInvariant, NEW w \in Workers, Responds(w)
    PROVE  Shape'
<1>1. request' \in [Exits -> AnyRequest]
  <2> DEFINE e == worker[w].exit
  <2>1. /\ worker[w] \in AnyWorker /\ lot \in AnyLot
        /\ e \in Exits /\ request[e] \in AnyRequest
    BY DEF ExitInvariant, Shape, Working, Responds
  <2>2. CASE transport[e].result = "ACCEPTED" /\ request[e].status \in FinalStatuses
    <3>1. request[e] \in AnyRequest
      BY <2>2, <2>1 DEF AnyRequest, Statuses, PendingStatuses, FinalStatuses, Unless
    <3>2. request' = [request EXCEPT ![e] = request[e]]
      BY <2>2 DEF Responds
    <3> QED BY <3>1, <3>2 DEF ExitInvariant, Shape
  <2>3. CASE transport[e].result = "ACCEPTED" /\ request[e].status \notin FinalStatuses
    <3>1. [request[e] EXCEPT !.status = "OPEN", !.order = TRUE] \in AnyRequest
      BY <2>3, <2>1 DEF AnyRequest, Statuses, PendingStatuses, FinalStatuses, Unless
    <3>2. request' = [request EXCEPT ![e] = [request[e] EXCEPT !.status = "OPEN", !.order = TRUE]]
      BY <2>3 DEF Responds
    <3> QED BY <3>1, <3>2 DEF ExitInvariant, Shape
  <2>4. CASE transport[e].result # "ACCEPTED"
    <3>1. Unless(request[e], "REJECTED") \in AnyRequest
      BY <2>4, <2>1 DEF AnyRequest, Statuses, PendingStatuses, FinalStatuses, Unless
    <3>2. request' = [request EXCEPT ![e] = Unless(request[e], "REJECTED")]
      BY <2>4 DEF Responds
    <3> QED BY <3>1, <3>2 DEF ExitInvariant, Shape
  <2> QED BY <2>2, <2>3, <2>4 DEF Responds
<1>2. lot' \in AnyLot
  <2>1. worker[w] \in AnyWorker /\ lot \in AnyLot
    BY DEF ExitInvariant, Shape, Working, Responds
  <2>2. CASE lot' = lot
    <3>1. lot' = lot
      BY <2>2 DEF Responds
    <3> QED BY <3>1 DEF ExitInvariant, Shape
  <2>3. CASE lot' # lot
    <3>1. [lot EXCEPT !.status = "OPEN", !.pending = worker[w].pending] \in AnyLot
      BY <2>3, <2>1 DEF AnyLot, AnyWorker
    <3>2. lot' = [lot EXCEPT !.status = "OPEN", !.pending = worker[w].pending]
      BY <2>3 DEF Responds
    <3> QED BY <3>1, <3>2 DEF ExitInvariant, Shape
  <2> QED BY <2>2, <2>3 DEF Responds
<1>3. worker' \in [Workers -> AnyWorker]
  <2> DEFINE e == worker[w].exit
  <2>1. worker[w] \in AnyWorker /\ lot \in AnyLot
    BY DEF ExitInvariant, Shape, Working, Responds
  <2>2. CASE transport[e].result = "ACCEPTED"
    <3>1. [worker[w] EXCEPT !.step = "releasing", !.to = "OPEN"] \in AnyWorker
      BY <2>2, <2>1 DEF AnyWorker, SubmitSteps, ReconcileSteps
    <3>2. worker' = [worker EXCEPT ![w] = [worker[w] EXCEPT !.step = "releasing", !.to = "OPEN"]]
      BY <2>2 DEF Responds, Releasing
    <3> QED BY <3>1, <3>2 DEF ExitInvariant, Shape
  <2>3. CASE transport[e].result # "ACCEPTED"
    <3>1. [worker[w] EXCEPT !.step = "releasing", !.to = "RELEASED"] \in AnyWorker
      BY <2>3, <2>1 DEF AnyWorker, SubmitSteps, ReconcileSteps
    <3>2. worker' = [worker EXCEPT ![w] =
            [worker[w] EXCEPT !.step = "releasing", !.to = "RELEASED"]]
      BY <2>3 DEF Responds, Releasing
    <3> QED BY <3>1, <3>2 DEF ExitInvariant, Shape
  <2> QED BY <2>2, <2>3 DEF Responds
<1>4. UNCHANGED <<bought, reservation, rows, transport, venue, attempt, preempted>>
  BY DEF Responds, Releasing, Unless, books
<1> QED BY <1>1, <1>2, <1>3, <1>4 DEF Shape, ExitInvariant

LEMMA ReleaseCapacityShape ==
    ASSUME ExitInvariant, NEW w \in Workers, ReleaseCapacity(w)
    PROVE  Shape'
<1>1. reservation' \in [Exits -> AnyReservation]
  <2> DEFINE e == worker[w].exit
  <2>1. /\ worker[w] \in AnyWorker /\ lot \in AnyLot
        /\ e \in Exits /\ reservation[e] \in AnyReservation
    BY DEF ExitInvariant, Shape, Working, ReleaseCapacity
  <2>2. Given(reservation[e], worker[w].to) \in AnyReservation
    BY <2>1 DEF AnyReservation, HoldingStatuses, Given, AnyWorker
  <2>3. reservation' = [reservation EXCEPT ![e] = Given(reservation[e], worker[w].to)]
    BY DEF ReleaseCapacity
  <2> QED BY <2>2, <2>3 DEF ExitInvariant, Shape
<1>2. worker' \in [Workers -> AnyWorker]
  BY RecordsTyped DEF ReleaseCapacity, Halt, Idle, Given, ExitInvariant, Shape, Working,
     AnyWorker, SubmitSteps, ReconcileSteps
<1>3. UNCHANGED <<bought, lot, request, rows, transport, venue, attempt, preempted>>
  BY DEF ReleaseCapacity, Halt, Idle, Given, books
<1> QED BY <1>1, <1>2, <1>3 DEF Shape, ExitInvariant

LEMMA ReadRequestShape ==
    ASSUME ExitInvariant, NEW w \in Workers, NEW e \in Exits, ReadRequest(w, e)
    PROVE  Shape'
<1>1. worker' \in [Workers -> AnyWorker]
  <2> DEFINE step == IF request[e].order THEN "poll"
                     ELSE IF request[e].status = "PREPARED" THEN "unsent" ELSE "orphan"
  <2>1. worker[w] \in AnyWorker
    BY DEF ExitInvariant, Shape
  <2>2. worker' = [worker EXCEPT ![w] = [worker[w] EXCEPT !.exit = e, !.step = step]]
    BY DEF ReadRequest
  <2>3. step \in {"poll", "unsent", "orphan"}
    OBVIOUS
  <2> HIDE DEF step
  <2>4. [worker[w] EXCEPT !.exit = e, !.step = step] \in AnyWorker
    BY <2>1, <2>3 DEF AnyWorker, SubmitSteps, ReconcileSteps
  <2> QED BY <2>2, <2>4 DEF ExitInvariant, Shape
<1>2. UNCHANGED <<bought, lot, request, reservation, rows, transport, venue, attempt, preempted>>
  BY DEF ReadRequest, books
<1> QED BY <1>1, <1>2 DEF Shape, ExitInvariant

LEMMA MarkUnknownShape ==
    ASSUME ExitInvariant, NEW w \in Workers, MarkUnknown(w)
    PROVE  Shape'
<1>1. request' \in [Exits -> AnyRequest]
  <2> DEFINE e == worker[w].exit
  <2>1. /\ worker[w] \in AnyWorker /\ lot \in AnyLot
        /\ e \in Exits /\ request[e] \in AnyRequest
    BY DEF ExitInvariant, Shape, Working, MarkUnknown
  <2>2. Unless(request[e], "UNKNOWN") \in AnyRequest
    BY <2>1 DEF AnyRequest, Statuses, PendingStatuses, FinalStatuses, Unless
  <2>3. request' = [request EXCEPT ![e] = Unless(request[e], "UNKNOWN")]
    BY DEF MarkUnknown
  <2> QED BY <2>2, <2>3 DEF ExitInvariant, Shape
<1>2. worker' \in [Workers -> AnyWorker]
  BY RecordsTyped DEF MarkUnknown, Halt, Idle, Unless, ExitInvariant, Shape, Working, AnyWorker,
     SubmitSteps, ReconcileSteps
<1>3. UNCHANGED <<bought, lot, reservation, rows, transport, venue, attempt, preempted>>
  BY DEF MarkUnknown, Halt, Idle, Unless, books
<1> QED BY <1>1, <1>2, <1>3 DEF Shape, ExitInvariant

LEMMA ReleaseUnsentShape ==
    ASSUME ExitInvariant, NEW w \in Workers, ReleaseUnsent(w)
    PROVE  Shape'
<1>1. reservation' \in [Exits -> AnyReservation]
  BY RecordsTyped DEF ReleaseUnsent, Goto, Given, ExitInvariant, Shape, Working, AnyReservation,
     HoldingStatuses
<1>2. worker' \in [Workers -> AnyWorker]
  <2>1. [worker[w] EXCEPT !.step = "rejecting"] \in AnyWorker
    BY DEF ExitInvariant, Shape, AnyWorker, SubmitSteps, ReconcileSteps
  <2>2. worker' = [worker EXCEPT ![w] = [worker[w] EXCEPT !.step = "rejecting"]]
    BY DEF ReleaseUnsent, Goto
  <2> QED BY <2>1, <2>2 DEF ExitInvariant, Shape
<1>3. preempted' \in SUBSET Exits
  BY DEF ReleaseUnsent, ExitInvariant, Shape, Working
<1>4. UNCHANGED <<bought, lot, request, rows, transport, venue, attempt>>
  BY DEF ReleaseUnsent, Goto, Given, books
<1> QED BY <1>1, <1>2, <1>3, <1>4 DEF Shape, ExitInvariant

LEMMA RejectUnsentShape ==
    ASSUME ExitInvariant, NEW w \in Workers, RejectUnsent(w)
    PROVE  Shape'
<1>1. request' \in [Exits -> AnyRequest]
  BY RecordsTyped DEF RejectUnsent, Halt, Idle, WentOn, Submitting, ExitInvariant, Shape, Working,
     AnyRequest, Statuses, PendingStatuses, FinalStatuses
<1>2. lot' \in AnyLot
  <2> DEFINE less == lot.pending - request[worker[w].exit].quantity
             left == Max({0, less})
  <2>1. lot \in AnyLot /\ request[worker[w].exit] \in AnyRequest
    BY DEF ExitInvariant, Shape, Working, RejectUnsent
  <2>2. less \in Int
    BY <2>1 DEF AnyLot, AnyRequest
  <2>3. lot' = [lot EXCEPT !.pending = left,
                          !.status = IF left > 0 THEN "EXIT_PENDING" ELSE "OPEN"]
    BY DEF RejectUnsent, PendingWithout
  <2> HIDE DEF less
  <2>4. left \in Int
    BY <2>2, MaxIsInt
  <2> HIDE DEF left
  <2> QED BY <2>1, <2>3, <2>4 DEF AnyLot
<1>3. preempted' \in SUBSET Exits
  BY RecordsTyped DEF RejectUnsent, Halt, Idle, WentOn, Submitting, ExitInvariant, Shape, Working
<1>4. worker' \in [Workers -> AnyWorker]
  BY RecordsTyped DEF RejectUnsent, Halt, Idle, WentOn, Submitting, ExitInvariant, Shape, Working,
     AnyWorker, SubmitSteps, ReconcileSteps
<1>5. UNCHANGED <<bought, reservation, rows, transport, venue, attempt>>
  BY DEF RejectUnsent, Halt, Idle, WentOn, Submitting, books
<1> QED BY <1>1, <1>2, <1>3, <1>4, <1>5 DEF Shape, ExitInvariant

LEMMA PollOrderShape ==
    ASSUME ExitInvariant, NEW w \in Workers, PollOrder(w)
    PROVE  Shape'
<1>1. worker' \in [Workers -> AnyWorker]
  <2> DEFINE e == worker[w].exit
  <2>1. worker[w] \in AnyWorker /\ venue[e] \in AnyOrder
    BY DEF ExitInvariant, Shape, Working, PollOrder
  <2>2. [worker[w] EXCEPT !.step = "polled", !.state = venue[e].state] \in AnyWorker
    BY <2>1 DEF AnyOrder, AnyWorker, SubmitSteps, ReconcileSteps
  <2>3. worker' = [worker EXCEPT ![w] =
          [worker[w] EXCEPT !.step = "polled", !.state = venue[e].state]]
    BY DEF PollOrder
  <2> QED BY <2>2, <2>3 DEF ExitInvariant, Shape
<1>2. UNCHANGED <<bought, lot, request, reservation, rows, transport, venue, attempt, preempted>>
  BY DEF PollOrder, books
<1> QED BY <1>1, <1>2 DEF Shape, ExitInvariant

LEMMA ListTradesShape ==
    ASSUME ExitInvariant, NEW w \in Workers, ListTrades(w)
    PROVE  Shape'
<1>1. worker' \in [Workers -> AnyWorker]
  <2> DEFINE e == worker[w].exit
  <2>1. worker[w] \in AnyWorker /\ venue[e] \in AnyOrder
    BY DEF ExitInvariant, Shape, Working, ListTrades
  <2>2. [worker[w] EXCEPT !.step = "listed",
                           !.matched = venue[e].matched,
                           !.confirmed = venue[e].confirmed] \in AnyWorker
    BY <2>1 DEF AnyOrder, AnyWorker, SubmitSteps, ReconcileSteps
  <2>3. worker' = [worker EXCEPT ![w] = [worker[w] EXCEPT !.step = "listed",
                           !.matched = venue[e].matched,
                           !.confirmed = venue[e].confirmed]]
    BY DEF ListTrades
  <2> QED BY <2>2, <2>3 DEF ExitInvariant, Shape
<1>2. UNCHANGED <<bought, lot, request, reservation, rows, transport, venue, attempt, preempted>>
  BY DEF ListTrades, books
<1> QED BY <1>1, <1>2 DEF Shape, ExitInvariant

LEMMA VenueUnavailableShape ==
    ASSUME ExitInvariant, NEW w \in Workers, VenueUnavailable(w)
    PROVE  Shape'
<1>1. worker' \in [Workers -> AnyWorker]
  BY RecordsTyped DEF VenueUnavailable, Goto, ExitInvariant, Shape, Working, AnyWorker,
     SubmitSteps, ReconcileSteps
<1>2. UNCHANGED <<bought, lot, request, reservation, rows, transport, venue, attempt, preempted>>
  BY DEF VenueUnavailable, Goto, books
<1> QED BY <1>1, <1>2 DEF Shape, ExitInvariant

LEMMA BookFillsShape ==
    ASSUME ExitInvariant, NEW w \in Workers, BookFills(w)
    PROVE  Shape'
<1>1. reservation' \in [Exits -> AnyReservation]
  <2> DEFINE e == worker[w].exit
  <2>1. worker[w] \in AnyWorker /\ e \in Exits /\ reservation[e] \in AnyReservation
    BY DEF ExitInvariant, Shape, Working, BookFills
  <2>2. CASE reservation' = reservation
    BY <2>2 DEF ExitInvariant, Shape
  <2>3. CASE reservation' # reservation
    <3> DEFINE status == IF Confirmed(w) >= reservation[e].quantity THEN "FILLED"
                         ELSE "PARTIALLY_FILLED"
    <3>1. Confirmed(w) \in Int
      BY <2>1 DEF Confirmed, AnyWorker
    <3>2. reservation' = [reservation EXCEPT ![e] =
              [reservation[e] EXCEPT !.filled = Confirmed(w), !.status = status]]
      BY <2>1, <2>3 DEF BookFills, ExitInvariant, Shape
    <3>3. status \in {"FILLED", "PARTIALLY_FILLED"}
      OBVIOUS
    <3> HIDE DEF status
    <3>4. [reservation[e] EXCEPT !.filled = Confirmed(w), !.status = status] \in AnyReservation
      BY <2>1, <3>1, <3>3 DEF AnyReservation, HoldingStatuses
    <3> QED BY <2>1, <3>2, <3>4 DEF ExitInvariant, Shape
  <2> QED BY <2>2, <2>3
<1>2. worker' \in [Workers -> AnyWorker]
  <2>1. worker[w] \in AnyWorker
    BY DEF ExitInvariant, Shape
  <2>2. Idle \in AnyWorker /\ [worker[w] EXCEPT !.step = "booked"] \in AnyWorker
        /\ [worker[w] EXCEPT !.step = "orphan"] \in AnyWorker
    BY <2>1, RecordsTyped DEF AnyWorker, ReconcileSteps
  <2>3. \/ worker' = [worker EXCEPT ![w] = Idle]
        \/ worker' = [worker EXCEPT ![w] = [worker[w] EXCEPT !.step = "booked"]]
        \/ worker' = [worker EXCEPT ![w] = [worker[w] EXCEPT !.step = "orphan"]]
    BY DEF BookFills, Goto, Halt
  <2> QED BY <2>2, <2>3 DEF ExitInvariant, Shape
<1>3. UNCHANGED <<bought, lot, request, rows, transport, venue, attempt, preempted>>
  BY DEF BookFills, Goto, Halt, Idle, books
<1> QED BY <1>1, <1>2, <1>3 DEF Shape, ExitInvariant

LEMMA ReadRowsShape ==
    ASSUME ExitInvariant, NEW w \in Workers, ReadRows(w)
    PROVE  Shape'
<1>1. rows' \in [Workers -> {NULL} \cup AnyRows]
  <2> DEFINE e == worker[w].exit
             read == [request |-> request[e], lot |-> lot, booked |-> reservation[e].filled]
  <2>1. e \in Exits /\ request[e] \in AnyRequest /\ reservation[e] \in AnyReservation
        /\ lot \in AnyLot
    BY DEF ExitInvariant, Shape, Working, ReadRows
  <2>2. reservation[e].filled \in Int
    BY <2>1 DEF AnyReservation
  <2>3. read \in AnyRows
    BY <2>1, <2>2 DEF AnyRows
  <2>4. rows' = rows \/ rows' = [rows EXCEPT ![w] = read]
    BY DEF ReadRows
  <2> HIDE DEF read
  <2> QED BY <2>3, <2>4 DEF ExitInvariant, Shape
<1>2. worker' \in [Workers -> AnyWorker]
  BY RecordsTyped DEF ReadRows, Goto, Halt, Idle, Final, ExitInvariant, Shape, Working, AnyWorker,
     SubmitSteps, ReconcileSteps
<1>3. UNCHANGED <<bought, lot, request, reservation, transport, venue, attempt, preempted>>
  BY DEF ReadRows, Goto, Halt, Idle, Final, books
<1> QED BY <1>1, <1>2, <1>3 DEF Shape, ExitInvariant

LEMMA ProjectShape ==
    ASSUME ExitInvariant, NEW w \in Workers, Project(w)
    PROVE  Shape'
<1> DEFINE e == worker[w].exit
<1>1. /\ e \in Exits /\ request[e] \in AnyRequest /\ lot \in AnyLot
      /\ worker[w] \in AnyWorker /\ rows[w] \in AnyRows
  BY DEF ExitInvariant, Shape, Working, Project, ExitInvariant, ExitInvariantOf, Busy, StepOK
<1>2. /\ rows[w].booked \in Int /\ rows[w].lot \in AnyLot /\ rows[w].request \in AnyRequest
      /\ rows[w].lot.sold \in Int /\ rows[w].request.filled \in Int
  BY <1>1 DEF AnyRows, AnyLot, AnyRequest
<1>3. request' \in [Exits -> AnyRequest]
  <2>1. Proposed(w) \in Statuses
    BY <1>1 DEF Proposed, AnyWorker, Statuses, PendingStatuses, FinalStatuses
  <2>2. [request[e] EXCEPT !.status = Proposed(w), !.filled = rows[w].booked] \in AnyRequest
    BY <1>1, <1>2, <2>1 DEF AnyRequest
  <2>3. request' = [request EXCEPT ![e] =
            [request[e] EXCEPT !.status = Proposed(w), !.filled = rows[w].booked]]
    BY DEF Project
  <2> QED BY <1>1, <2>2, <2>3 DEF ExitInvariant, Shape
<1>4. lot' \in AnyLot
  <2> DEFINE sold == rows[w].lot.sold + rows[w].booked - rows[w].request.filled
             pending == IF Finishes(w) THEN 0 ELSE lot.pending
             status == IF Proposed(w) = "SETTLED" THEN "CLOSED"
                       ELSE IF Finishes(w) THEN "OPEN" ELSE "EXIT_PENDING"
  <2>1. sold \in Int /\ pending \in Int /\ status \in {"CLOSED", "OPEN", "EXIT_PENDING"}
    BY <1>1, <1>2 DEF AnyLot
  <2>2. lot' = [lot EXCEPT !.sold = sold, !.pending = pending, !.status = status]
    BY DEF Project
  <2> HIDE DEF sold, pending, status
  <2> QED BY <1>1, <2>1, <2>2 DEF AnyLot
<1>5. rows' \in [Workers -> {NULL} \cup AnyRows]
  BY DEF Project, ExitInvariant, Shape
<1>6. worker' \in [Workers -> AnyWorker]
  <2>1. /\ [worker[w] EXCEPT !.step = "releasing", !.to = "SETTLED"] \in AnyWorker
        /\ [worker[w] EXCEPT !.step = "releasing", !.to = "RELEASED"] \in AnyWorker
    BY <1>1 DEF AnyWorker
  <2>2. \/ worker' = [worker EXCEPT ![w] = Idle]
        \/ worker' = [worker EXCEPT ![w] =
                        [worker[w] EXCEPT !.step = "releasing", !.to = "SETTLED"]]
        \/ worker' = [worker EXCEPT ![w] =
                        [worker[w] EXCEPT !.step = "releasing", !.to = "RELEASED"]]
    BY DEF Project, Halt, Releasing
  <2> QED BY <2>1, <2>2, RecordsTyped DEF ExitInvariant, Shape
<1>7. UNCHANGED <<bought, reservation, transport, venue, attempt, preempted>>
  BY DEF Project
<1> QED BY <1>3, <1>4, <1>5, <1>6, <1>7 DEF ExitInvariant, Shape

LEMMA ProjectMissesShape ==
    ASSUME ExitInvariant, NEW w \in Workers, ProjectMisses(w)
    PROVE  Shape'
<1>1. rows' \in [Workers -> {NULL} \cup AnyRows]
  BY RecordsTyped DEF ProjectMisses, Goto, ExitInvariant, Shape, Working, AnyRows
<1>2. worker' \in [Workers -> AnyWorker]
  <2>1. worker[w] \in AnyWorker
    BY DEF ExitInvariant, Shape
  <2>2. [worker[w] EXCEPT !.step = "booked"] \in AnyWorker
        /\ [worker[w] EXCEPT !.step = "orphan"] \in AnyWorker
    BY <2>1 DEF AnyWorker, ReconcileSteps
  <2>3. \/ worker' = [worker EXCEPT ![w] = [worker[w] EXCEPT !.step = "booked"]]
        \/ worker' = [worker EXCEPT ![w] = [worker[w] EXCEPT !.step = "orphan"]]
    BY DEF ProjectMisses, Goto
  <2> QED BY <2>2, <2>3 DEF ExitInvariant, Shape
<1>3. UNCHANGED <<bought, lot, request, reservation, transport, venue, attempt, preempted>>
  BY DEF ProjectMisses, Goto, books
<1> QED BY <1>1, <1>2, <1>3 DEF Shape, ExitInvariant

LEMMA PrepareOrderShape ==
    ASSUME ExitInvariant, NEW e \in Exits, PrepareOrder(e)
    PROVE  Shape'
<1>1. transport' \in [Exits -> Threads]
  <2>1. transport[e] \in Threads
    BY DEF ExitInvariant, Shape
  <2>2. /\ [transport[e] EXCEPT !.step = "signed"] \in Threads
        /\ [transport[e] EXCEPT !.step = "done", !.result = "REFUSED"] \in Threads
    BY <2>1 DEF Threads
  <2>3. \/ transport' = [transport EXCEPT ![e] =
                            [transport[e] EXCEPT !.step = "signed"]]
        \/ transport' = [transport EXCEPT ![e] =
                            [transport[e] EXCEPT !.step = "done", !.result = "REFUSED"]]
    BY DEF PrepareOrder, Answers
  <2> QED BY <2>2, <2>3 DEF ExitInvariant, Shape
<1>2. UNCHANGED <<bought, lot, request, reservation, worker, rows, venue, attempt, preempted>>
  BY DEF PrepareOrder, Answers, ThreadOnly, books
<1> QED BY <1>1, <1>2 DEF Shape, ExitInvariant

LEMMA FenceRefusesShape ==
    ASSUME ExitInvariant, NEW e \in Exits, FenceRefuses(e)
    PROVE  Shape'
<1>1. transport' \in [Exits -> Threads]
  <2>1. transport[e] \in Threads
    BY DEF ExitInvariant, Shape
  <2>2. /\ [transport[e] EXCEPT !.step = "done", !.result = "REFUSED"] \in Threads
        /\ [transport[e] EXCEPT !.step = "done", !.result = "FAILED"] \in Threads
    BY <2>1 DEF Threads
  <2>3. \/ transport' = [transport EXCEPT ![e] =
                            [transport[e] EXCEPT !.step = "done", !.result = "REFUSED"]]
        \/ transport' = [transport EXCEPT ![e] =
                            [transport[e] EXCEPT !.step = "done", !.result = "FAILED"]]
    BY DEF FenceRefuses, Answers
  <2> QED BY <2>2, <2>3 DEF ExitInvariant, Shape
<1>2. UNCHANGED <<bought, lot, request, reservation, worker, rows, venue, attempt, preempted>>
  BY DEF FenceRefuses, Answers, ThreadOnly, books
<1> QED BY <1>1, <1>2 DEF Shape, ExitInvariant

LEMMA FirstFenceShape ==
    ASSUME ExitInvariant, NEW e \in Exits, FirstFence(e)
    PROVE  Shape'
<1>1. transport' \in [Exits -> Threads]
  BY RecordsTyped DEF FirstFence, ThreadOnly, ExitInvariant, Shape, Working, Threads
<1>2. UNCHANGED <<bought, lot, request, reservation, worker, rows, venue, attempt, preempted>>
  BY DEF FirstFence, ThreadOnly, books
<1> QED BY <1>1, <1>2 DEF Shape, ExitInvariant

LEMMA SendStartsShape ==
    ASSUME ExitInvariant, NEW e \in Exits, SendStarts(e)
    PROVE  Shape'
<1>1. transport' \in [Exits -> Threads]
  <2>1. transport[e] \in Threads
    BY DEF ExitInvariant, Shape
  <2>2. /\ [transport[e] EXCEPT !.step = "started"] \in Threads
        /\ [transport[e] EXCEPT !.step = "done", !.result = "REFUSED"] \in Threads
    BY <2>1 DEF Threads
  <2>3. \/ transport' = [transport EXCEPT ![e] =
                            [transport[e] EXCEPT !.step = "started"]]
        \/ transport' = [transport EXCEPT ![e] =
                            [transport[e] EXCEPT !.step = "done", !.result = "REFUSED"]]
    BY DEF SendStarts, Answers
  <2> QED BY <2>2, <2>3 DEF ExitInvariant, Shape
<1>2. UNCHANGED <<bought, lot, request, reservation, worker, rows, venue, attempt, preempted>>
  BY DEF SendStarts, Answers, ThreadOnly, books
<1> QED BY <1>1, <1>2 DEF Shape, ExitInvariant

LEMMA MarkSendStartedShape ==
    ASSUME ExitInvariant, NEW e \in Exits, MarkSendStarted(e)
    PROVE  Shape'
<1>1. request' \in [Exits -> AnyRequest]
  BY RecordsTyped DEF MarkSendStarted, ExitInvariant, Shape, Working, AnyRequest, Statuses,
     PendingStatuses, FinalStatuses
<1>2. transport' \in [Exits -> Threads]
  BY RecordsTyped DEF MarkSendStarted, ExitInvariant, Shape, Working, Threads
<1>3. UNCHANGED <<bought, lot, reservation, worker, rows, venue, attempt, preempted>>
  BY DEF MarkSendStarted, books
<1> QED BY <1>1, <1>2, <1>3 DEF Shape, ExitInvariant

LEMMA SecondFenceShape ==
    ASSUME ExitInvariant, NEW e \in Exits, SecondFence(e)
    PROVE  Shape'
<1>1. transport' \in [Exits -> Threads]
  BY RecordsTyped DEF SecondFence, ThreadOnly, ExitInvariant, Shape, Working, Threads
<1>2. UNCHANGED <<bought, lot, request, reservation, worker, rows, venue, attempt, preempted>>
  BY DEF SecondFence, ThreadOnly, books
<1> QED BY <1>1, <1>2 DEF Shape, ExitInvariant

LEMMA PostShape ==
    ASSUME ExitInvariant, NEW e \in Exits, Post(e)
    PROVE  Shape'
<1>1. transport' \in [Exits -> Threads]
  <2>1. transport[e] \in Threads
    BY DEF ExitInvariant, Shape
  <2>2. /\ [transport[e] EXCEPT !.step = "done", !.result = "ACCEPTED"] \in Threads
        /\ [transport[e] EXCEPT !.step = "done", !.result = "REJECTED"] \in Threads
        /\ [transport[e] EXCEPT !.step = "done", !.result = "REFUSED"] \in Threads
        /\ [transport[e] EXCEPT !.step = "done", !.result = "FAILED"] \in Threads
    BY <2>1 DEF Threads
  <2>3. \/ transport' = [transport EXCEPT ![e] =
                            [transport[e] EXCEPT !.step = "done", !.result = "ACCEPTED"]]
        \/ transport' = [transport EXCEPT ![e] =
                            [transport[e] EXCEPT !.step = "done", !.result = "REJECTED"]]
        \/ transport' = [transport EXCEPT ![e] =
                            [transport[e] EXCEPT !.step = "done", !.result = "REFUSED"]]
        \/ transport' = [transport EXCEPT ![e] =
                            [transport[e] EXCEPT !.step = "done", !.result = "FAILED"]]
    BY DEF Post, Answers
  <2> QED BY <2>2, <2>3 DEF ExitInvariant, Shape
<1>2. venue' \in [Exits -> AnyOrder]
  BY RecordsTyped DEF Post, Answers, ExitInvariant, Shape, Working, AnyOrder
<1>3. UNCHANGED <<bought, lot, request, reservation, worker, rows, attempt, preempted>>
  BY DEF Post, Answers, books
<1> QED BY <1>1, <1>2, <1>3 DEF Shape, ExitInvariant

LEMMA MatchShape ==
    ASSUME ExitInvariant, NEW e \in Exits, Match(e)
    PROVE  Shape'
<1>1. venue' \in [Exits -> AnyOrder]
  BY RecordsTyped DEF Match, VenueOnly, ExitInvariant, Shape, Working, AnyOrder
<1>2. UNCHANGED <<bought, lot, request, reservation, worker, rows, transport, attempt, preempted>>
  BY DEF Match, VenueOnly, books
<1> QED BY <1>1, <1>2 DEF Shape, ExitInvariant

LEMMA ConfirmTradeShape ==
    ASSUME ExitInvariant, NEW e \in Exits, ConfirmTrade(e)
    PROVE  Shape'
<1>1. venue' \in [Exits -> AnyOrder]
  BY RecordsTyped DEF ConfirmTrade, VenueOnly, ExitInvariant, Shape, Working, AnyOrder
<1>2. UNCHANGED <<bought, lot, request, reservation, worker, rows, transport, attempt, preempted>>
  BY DEF ConfirmTrade, VenueOnly, books
<1> QED BY <1>1, <1>2 DEF Shape, ExitInvariant

LEMMA TradeFailsShape ==
    ASSUME ExitInvariant, NEW e \in Exits, TradeFails(e)
    PROVE  Shape'
<1>1. venue' \in [Exits -> AnyOrder]
  BY RecordsTyped DEF TradeFails, VenueOnly, ExitInvariant, Shape, Working, AnyOrder
<1>2. UNCHANGED <<bought, lot, request, reservation, worker, rows, transport, attempt, preempted>>
  BY DEF TradeFails, VenueOnly, books
<1> QED BY <1>1, <1>2 DEF Shape, ExitInvariant

LEMMA EndOrderShape ==
    ASSUME ExitInvariant, NEW e \in Exits, EndOrder(e)
    PROVE  Shape'
<1>1. venue' \in [Exits -> AnyOrder]
  <2>1. ASSUME NEW state \in {"CANCELED", "SETTLED", "FAILED"}, NEW n \in Int, NEW r \in AnyOrder
        PROVE  /\ [r EXCEPT !.state = state] \in AnyOrder
               /\ [r EXCEPT !.state = state, !.matched = n] \in AnyOrder
    BY DEF AnyOrder
  <2>2. venue[e] \in AnyOrder /\ 0 \in Int
    BY DEF ExitInvariant, Shape
  <2>3. /\ [venue[e] EXCEPT !.state = "CANCELED"] \in AnyOrder
        /\ [venue[e] EXCEPT !.state = "SETTLED"] \in AnyOrder
        /\ [venue[e] EXCEPT !.state = "FAILED", !.matched = 0] \in AnyOrder
    BY <2>1, <2>2
  <2>4. \/ venue' = [venue EXCEPT ![e] = [venue[e] EXCEPT !.state = "CANCELED"]]
        \/ venue' = [venue EXCEPT ![e] = [venue[e] EXCEPT !.state = "SETTLED"]]
        \/ venue' = [venue EXCEPT ![e] =
                        [venue[e] EXCEPT !.state = "FAILED", !.matched = 0]]
    BY DEF EndOrder
  <2> QED BY <2>3, <2>4 DEF ExitInvariant, Shape
<1>2. UNCHANGED <<bought, lot, request, reservation, worker, rows, transport, attempt, preempted>>
  BY DEF EndOrder, VenueOnly, books
<1> QED BY <1>1, <1>2 DEF Shape, ExitInvariant

-----------------------------------------------------------------------------
(* Frames.                                                                 *)

\* A step that is not about f.
Elsewhere(f) ==
    /\ request'[f].status = request[f].status /\ request'[f].order = request[f].order
    /\ reservation'[f].status = reservation[f].status
    /\ transport'[f] = transport[f] /\ venue'[f].state = venue[f].state
    /\ f \in preempted' <=> f \in preempted
    /\ \A v \in Workers :
          Busy(v, f)' => Busy(v, f) /\ worker'[v] = worker[v] /\ rows'[v] = rows[v]

\* It keeps what holds of f.
LEMMA ElsewhereKeeps ==
    ASSUME NEW f \in Exits, ExitInvariantOf(f), Elsewhere(f)
    PROVE  ExitInvariantOf(f)'
<1>1. Exclusive(f)'
  BY DEF ExitInvariantOf, Elsewhere, Exclusive, Submitting, Busy, SubmitSteps
<1>2. ThreadOK(f)'
  BY DEF ExitInvariantOf, Elsewhere, ThreadOK
<1>3. FinalOK(f)'
  BY DEF ExitInvariantOf, Elsewhere, FinalOK, Final
<1>4. ASSUME NEW v \in Workers, Busy(v, f)'
      PROVE  StepOK(v, f)'
  BY <1>4 DEF ExitInvariantOf, Elsewhere, StepOK
<1> QED BY <1>1, <1>2, <1>3, <1>4 DEF ExitInvariantOf

\* The invariant after a step about one exit ...
LEMMA OneExit ==
    ASSUME ExitInvariant, NEW e \in Exits, Shape', Working', ExitInvariantOf(e)',
           \A f \in Exits \ {e} : Elsewhere(f)
    PROVE  ExitInvariant'
<1>1. ASSUME NEW f \in Exits \ {e} PROVE ExitInvariantOf(f)'
  BY ElsewhereKeeps DEF ExitInvariant
<1> QED BY <1>1 DEF ExitInvariant

\* ... and after a step about none.
LEMMA NoExit ==
    ASSUME ExitInvariant, Shape', Working', \A f \in Exits : Elsewhere(f)
    PROVE  ExitInvariant'
<1>1. ASSUME NEW f \in Exits PROVE ExitInvariantOf(f)'
  BY ElsewhereKeeps DEF ExitInvariant
<1> QED BY <1>1 DEF ExitInvariant

-----------------------------------------------------------------------------
(* One lemma per action.                                                   *)

LEMMA ConfirmBuyKeeps ==
    ASSUME ExitInvariant, NEW w \in Workers, ConfirmBuy(w)
    PROVE  ExitInvariant'
<1>1. Shape' /\ Shape
  BY ConfirmBuyShape DEF ExitInvariant
<1>2. UNCHANGED <<request, reservation, transport, venue, preempted, rows, worker>>
  BY DEF ConfirmBuy, books
<1>3. Working'
  BY <1>2 DEF ExitInvariant, Working
<1>4. ASSUME NEW f \in Exits PROVE Elsewhere(f)
  BY <1>2 DEF Elsewhere, Busy
<1> QED BY <1>1, <1>3, <1>4, NoExit

LEMMA SyncEntryLotKeeps ==
    ASSUME ExitInvariant, NEW w \in Workers, SyncEntryLot(w)
    PROVE  ExitInvariant'
<1>1. Shape' /\ Shape
  BY SyncEntryLotShape DEF ExitInvariant
<1>2. UNCHANGED <<request, reservation, transport, venue, preempted, rows, worker>>
  BY DEF SyncEntryLot, books
<1>3. Working'
  BY <1>2 DEF ExitInvariant, Working
<1>4. ASSUME NEW f \in Exits PROVE Elsewhere(f)
  BY <1>2 DEF Elsewhere, Busy
<1> QED BY <1>1, <1>3, <1>4, NoExit

LEMMA ReadLotKeeps ==
    ASSUME ExitInvariant, NEW w \in Workers, ReadLot(w)
    PROVE  ExitInvariant'
<1>1. Shape' /\ Shape
  BY ReadLotShape DEF ExitInvariant
<1>2. UNCHANGED <<request, reservation, transport, venue, preempted, rows>>
      /\ worker'[w].step \in {"idle", "read"}
      /\ \A v \in Workers \ {w} : worker'[v] = worker[v]
  BY <1>1 DEF ReadLot, Idle, Available, books, Shape
<1>3. Working'
  BY <1>1, <1>2 DEF ExitInvariant, Working
<1>4. ASSUME NEW f \in Exits PROVE Elsewhere(f)
  BY <1>1, <1>2 DEF Elsewhere, Busy
<1> QED BY <1>1, <1>3, <1>4, NoExit

LEMMA AdmissionRefusedKeeps ==
    ASSUME ExitInvariant, NEW w \in Workers, AdmissionRefused(w)
    PROVE  ExitInvariant'
<1>1. Shape' /\ Shape
  BY AdmissionRefusedShape DEF ExitInvariant
<1>2. UNCHANGED <<request, reservation, transport, venue, preempted, rows>>
      /\ worker'[w].step \in {"idle", "read"}
      /\ \A v \in Workers \ {w} : worker'[v] = worker[v]
  BY <1>1 DEF AdmissionRefused, Halt, Idle, books, Shape
<1>3. Working'
  BY <1>1, <1>2 DEF ExitInvariant, Working
<1>4. ASSUME NEW f \in Exits PROVE Elsewhere(f)
  BY <1>1, <1>2 DEF Elsewhere, Busy
<1> QED BY <1>1, <1>3, <1>4, NoExit

\* submit_exit chooses a new request id.
LEMMA CheckRequestsKeeps ==
    ASSUME ExitInvariant, NEW w \in Workers, CheckRequests(w)
    PROVE  ExitInvariant'
<1>1. Shape' /\ Shape /\ Working
  BY CheckRequestsShape DEF ExitInvariant
<1>2. PICK e \in Exits : /\ worker[w].step = "read" /\ worker'[w].exit = e
                          /\ reservation[e].status = "NONE"
                          /\ \A v \in Workers : worker[v].exit # e
  <2> DEFINE unused == {e \in Exits : /\ reservation[e].status = "NONE"
                                     /\ \A v \in Workers : worker[v].exit # e}
             chosen == CHOOSE e \in unused : TRUE
  <2>1. chosen \in unused /\ worker[w].step = "read"
    BY DEF CheckRequests
  <2>2. worker' = [worker EXCEPT ![w] = [worker[w] EXCEPT !.step = "admitted", !.exit = chosen]]
    BY DEF CheckRequests
  <2> HIDE DEF chosen
  <2>3. worker'[w].exit = chosen
    BY <1>1, <2>2 DEF Shape, AnyWorker
  <2> QED BY <2>1, <2>3
<1>3. UNCHANGED <<request, reservation, transport, venue, preempted, rows>>
  BY DEF CheckRequests, books
<1>4. /\ \A v \in Workers \ {w} : worker'[v] = worker[v]
  BY <1>1, <1>2 DEF CheckRequests, Shape
<1>5. /\ worker'[w].step = "admitted"
      /\ reservation[e].status = "NONE"
  BY <1>1, <1>2, <1>3 DEF CheckRequests, ExitInvariant, ExitInvariantOf, Busy, StepOK, ThreadOK,
     Shape, AnyWorker, SubmitSteps, ReconcileSteps
<1>6. ExitInvariantOf(e)
  BY DEF ExitInvariant
<1>7. ExitInvariantOf(e)'
  <2> USE DEF ExitInvariantOf, Exclusive, ThreadOK, FinalOK, StepOK, Final, Submitting, Busy,
              SubmitSteps, ReconcileSteps, FinalStatuses, PendingStatuses
  <2>1. Exclusive(e)'
    BY <1>2, <1>3, <1>4, <1>5, <1>6
  <2>2. ThreadOK(e)'
    BY <1>2, <1>3, <1>4, <1>5, <1>6
  <2>3. FinalOK(e)'
    BY <1>2, <1>3, <1>4, <1>5, <1>6
  <2>4. ASSUME NEW v \in Workers, Busy(v, e)'
        PROVE  StepOK(v, e)'
    <3>1. CASE v = w
      BY <1>2, <1>3, <1>4, <1>5, <1>6, <2>4, <3>1
    <3>2. CASE v # w
      BY <1>2, <1>3, <1>4, <1>5, <1>6, <2>4, <3>2
    <3> QED BY <3>1, <3>2
  <2> QED BY <2>1, <2>2, <2>3, <2>4
<1>8. Working'
  BY <1>1, <1>2, <1>4, <1>5 DEF Working
<1>9. ASSUME NEW f \in Exits \ {e} PROVE Elsewhere(f)
  BY <1>2, <1>3, <1>4, <1>5 DEF Elsewhere, Busy
<1> QED BY <1>1, <1>7, <1>8, <1>9, OneExit

\* Reservation of the inventory.
LEMMA ReserveExitKeeps ==
    ASSUME ExitInvariant, NEW w \in Workers, ReserveExit(w)
    PROVE  ExitInvariant'
<1>1. Shape' /\ Shape /\ Working
  BY ReserveExitShape DEF ExitInvariant
<1>2. PICK e \in Exits : worker[w].exit = e /\ worker[w].step = "admitted"
  BY <1>1 DEF ReserveExit, Working
<1>3. UNCHANGED <<request, transport, venue, preempted, rows>>
  BY DEF ReserveExit, Goto, books
<1>4. /\ \A v \in Workers \ {w} : worker'[v] = worker[v]
      /\ \A f \in Exits \ {e} : reservation'[f] = reservation[f]
  BY <1>1, <1>2 DEF ReserveExit, Goto, Shape
<1>5. /\ worker'[w].step \notin {"idle", "read"} => worker'[w].exit = e
      /\ worker'[w].step = "reserved"
      /\ reservation'[e].status = "HELD"
  BY <1>1, <1>2, <1>3
     DEF ReserveExit, Goto, ExitInvariant, ExitInvariantOf, Busy, StepOK, ThreadOK,
     Shape, AnyReservation, HoldingStatuses, AnyWorker, SubmitSteps,
     ReconcileSteps
<1>6. ExitInvariantOf(e)
  BY DEF ExitInvariant
<1>7. ExitInvariantOf(e)'
  <2> USE DEF ExitInvariantOf, Exclusive, ThreadOK, FinalOK, StepOK, Final, Submitting, Busy,
              SubmitSteps, ReconcileSteps, FinalStatuses, PendingStatuses
  <2>1. Exclusive(e)'
    BY <1>2, <1>3, <1>4, <1>5, <1>6
  <2>2. ThreadOK(e)'
    BY <1>2, <1>3, <1>4, <1>5, <1>6
  <2>3. FinalOK(e)'
    BY <1>2, <1>3, <1>4, <1>5, <1>6
  <2>4. ASSUME NEW v \in Workers, Busy(v, e)'
        PROVE  StepOK(v, e)'
    <3>1. CASE v = w
      BY <1>2, <1>3, <1>4, <1>5, <1>6, <2>4, <3>1
    <3>2. CASE v # w
      BY <1>2, <1>3, <1>4, <1>5, <1>6, <2>4, <3>2
    <3> QED BY <3>1, <3>2
  <2> QED BY <2>1, <2>2, <2>3, <2>4
<1>8. Working'
  BY <1>1, <1>2, <1>4, <1>5 DEF Working
<1>9. ASSUME NEW f \in Exits \ {e} PROVE Elsewhere(f)
  BY <1>2, <1>3, <1>4, <1>5 DEF Elsewhere, Busy
<1> QED BY <1>1, <1>7, <1>8, <1>9, OneExit

\* Request and lot.
LEMMA PrepareRequestKeeps ==
    ASSUME ExitInvariant, NEW w \in Workers, PrepareRequest(w)
    PROVE  ExitInvariant'
<1>1. Shape' /\ Shape /\ Working
  BY PrepareRequestShape DEF ExitInvariant
<1>2. PICK e \in Exits : worker[w].exit = e /\ worker[w].step = "reserved"
  BY <1>1 DEF PrepareRequest, Working
<1>3. UNCHANGED <<reservation, transport, venue, preempted, rows>>
  BY DEF PrepareRequest, Goto, books
<1>4. /\ \A v \in Workers \ {w} : worker'[v] = worker[v]
      /\ \A f \in Exits \ {e} : request'[f] = request[f]
  BY <1>1, <1>2 DEF PrepareRequest, Goto, Shape
<1>5. /\ worker'[w].step \notin {"idle", "read"} => worker'[w].exit = e
      /\ \/ worker'[w].step = "prepared" /\ request'[e].status = "PREPARED" /\ ~request'[e].order
         \/ worker'[w].step = "withdrawing" /\ request'[e] = request[e]
  <2>1. worker'[w].step \notin {"idle", "read"} => worker'[w].exit = e
    BY <1>1, <1>2, <1>3
       DEF PrepareRequest, Goto, Shape, AnyRequest, Statuses, FinalStatuses, AnyWorker,
       SubmitSteps, ReconcileSteps
  <2>2. \/ worker'[w].step = "prepared" /\ request'[e].status = "PREPARED" /\ ~request'[e].order
        \/ worker'[w].step = "withdrawing" /\ request'[e] = request[e]
    <3>1. worker[w] \in AnyWorker /\ request[e] \in AnyRequest
      BY <1>1 DEF Shape
    <3>2. CASE lot.status \in {"OPEN", "EXIT_PENDING"}
      <4>1. request'[e] = [status |-> "PREPARED", quantity |-> worker[w].quantity,
                           order |-> FALSE, filled |-> 0]
        BY <1>1, <1>2, <3>2 DEF PrepareRequest, Shape
      <4>2. worker'[w] = [worker[w] EXCEPT !.step = "prepared"]
        BY <1>1, <3>2 DEF PrepareRequest, Goto, Shape
      <4>3. worker'[w].step = "prepared"
        BY <3>1, <4>2 DEF AnyWorker
      <4>4. request'[e].status = "PREPARED" /\ ~request'[e].order
        BY <4>1
      <4> QED BY <4>3, <4>4
    <3>3. CASE lot.status \notin {"OPEN", "EXIT_PENDING"}
      <4>1. request' = request /\ worker'[w] = [worker[w] EXCEPT !.step = "withdrawing"]
        BY <1>1, <3>3 DEF PrepareRequest, Goto, Shape
      <4> QED BY <3>1, <4>1 DEF AnyWorker
    <3> QED BY <3>2, <3>3
  <2> QED BY <2>1, <2>2
<1>6. ExitInvariantOf(e)
  BY DEF ExitInvariant
<1>7. ExitInvariantOf(e)'
  <2> USE DEF ExitInvariantOf, Exclusive, ThreadOK, FinalOK, StepOK, Final, Submitting, Busy,
              SubmitSteps, ReconcileSteps, FinalStatuses, PendingStatuses
  <2>1. Exclusive(e)'
    BY <1>2, <1>3, <1>4, <1>5, <1>6
  <2>2. ThreadOK(e)'
    BY <1>2, <1>3, <1>4, <1>5, <1>6
  <2>3. FinalOK(e)'
    BY <1>2, <1>3, <1>4, <1>5, <1>6
  <2>4. ASSUME NEW v \in Workers, Busy(v, e)'
        PROVE  StepOK(v, e)'
    <3>1. CASE v = w
      BY <1>2, <1>3, <1>4, <1>5, <1>6, <2>4, <3>1
    <3>2. CASE v # w
      BY <1>2, <1>3, <1>4, <1>5, <1>6, <2>4, <3>2
    <3> QED BY <3>1, <3>2
  <2> QED BY <2>1, <2>2, <2>3, <2>4
<1>8. Working'
  BY <1>1, <1>2, <1>4, <1>5 DEF Working
<1>9. ASSUME NEW f \in Exits \ {e} PROVE Elsewhere(f)
  BY <1>2, <1>3, <1>4, <1>5 DEF Elsewhere, Busy
<1> QED BY <1>1, <1>7, <1>8, <1>9, OneExit

\* The attempt.
LEMMA RecordAttemptKeeps ==
    ASSUME ExitInvariant, NEW w \in Workers, RecordAttempt(w)
    PROVE  ExitInvariant'
<1>1. Shape' /\ Shape /\ Working
  BY RecordAttemptShape DEF ExitInvariant
<1>2. PICK e \in Exits : worker[w].exit = e /\ worker[w].step = "prepared"
  BY <1>1 DEF RecordAttempt, Working
<1>3. UNCHANGED <<request, transport, venue, preempted, rows>>
  BY DEF RecordAttempt, Goto, books
<1>4. /\ \A v \in Workers \ {w} : worker'[v] = worker[v]
      /\ \A f \in Exits \ {e} : reservation'[f] = reservation[f]
  BY <1>1, <1>2 DEF RecordAttempt, Goto, Shape
<1>5. /\ worker'[w].step \notin {"idle", "read"} => worker'[w].exit = e
      /\ worker'[w].step = "attempted"
      /\ reservation'[e].status = "SUBMITTING"
  BY <1>1, <1>2, <1>3
     DEF RecordAttempt, Goto, ExitInvariant, ExitInvariantOf, Busy, StepOK, ThreadOK,
     Shape, AnyReservation, HoldingStatuses, AnyWorker, SubmitSteps,
     ReconcileSteps
<1>6. ExitInvariantOf(e)
  BY DEF ExitInvariant
<1>7. ExitInvariantOf(e)'
  <2> USE DEF ExitInvariantOf, Exclusive, ThreadOK, FinalOK, StepOK, Final, Submitting, Busy,
              SubmitSteps, ReconcileSteps, FinalStatuses, PendingStatuses
  <2>1. Exclusive(e)'
    BY <1>2, <1>3, <1>4, <1>5, <1>6
  <2>2. ThreadOK(e)'
    BY <1>2, <1>3, <1>4, <1>5, <1>6
  <2>3. FinalOK(e)'
    BY <1>2, <1>3, <1>4, <1>5, <1>6
  <2>4. ASSUME NEW v \in Workers, Busy(v, e)'
        PROVE  StepOK(v, e)'
    <3>1. CASE v = w
      BY <1>2, <1>3, <1>4, <1>5, <1>6, <2>4, <3>1
    <3>2. CASE v # w
      BY <1>2, <1>3, <1>4, <1>5, <1>6, <2>4, <3>2
    <3> QED BY <3>1, <3>2
  <2> QED BY <2>1, <2>2, <2>3, <2>4
<1>8. Working'
  BY <1>1, <1>2, <1>4, <1>5 DEF Working
<1>9. ASSUME NEW f \in Exits \ {e} PROVE Elsewhere(f)
  BY <1>2, <1>3, <1>4, <1>5 DEF Elsewhere, Busy
<1> QED BY <1>1, <1>7, <1>8, <1>9, OneExit

\* Its failure.
LEMMA SubmissionBlockedKeeps ==
    ASSUME ExitInvariant, NEW w \in Workers, SubmissionBlocked(w)
    PROVE  ExitInvariant'
<1>1. Shape' /\ Shape /\ Working
  BY SubmissionBlockedShape DEF ExitInvariant
<1>2. PICK e \in Exits : worker[w].exit = e /\ worker[w].step \in {"prepared", "attempted"}
  BY <1>1 DEF SubmissionBlocked, Working
<1>3. UNCHANGED <<request, reservation, transport, venue, preempted, rows>>
  BY DEF SubmissionBlocked, Goto, books
<1>4. /\ \A v \in Workers \ {w} : worker'[v] = worker[v]
  BY <1>1, <1>2 DEF SubmissionBlocked, Goto, Shape
<1>5. /\ worker'[w].step \notin {"idle", "read"} => worker'[w].exit = e
      /\ worker'[w].step = "withdrawing"
  BY <1>1, <1>2, <1>3 DEF SubmissionBlocked, Goto, ExitInvariant, ExitInvariantOf, Busy, StepOK,
     ThreadOK, Shape, AnyWorker, SubmitSteps, ReconcileSteps
<1>6. ExitInvariantOf(e)
  BY DEF ExitInvariant
<1>7. ExitInvariantOf(e)'
  <2> USE DEF ExitInvariantOf, Exclusive, ThreadOK, FinalOK, StepOK, Final, Submitting, Busy,
              SubmitSteps, ReconcileSteps, FinalStatuses, PendingStatuses
  <2>1. Exclusive(e)'
    BY <1>2, <1>3, <1>4, <1>5, <1>6
  <2>2. ThreadOK(e)'
    BY <1>2, <1>3, <1>4, <1>5, <1>6
  <2>3. FinalOK(e)'
    BY <1>2, <1>3, <1>4, <1>5, <1>6
  <2>4. ASSUME NEW v \in Workers, Busy(v, e)'
        PROVE  StepOK(v, e)'
    <3>1. CASE v = w
      BY <1>2, <1>3, <1>4, <1>5, <1>6, <2>4, <3>1
    <3>2. CASE v # w
      BY <1>2, <1>3, <1>4, <1>5, <1>6, <2>4, <3>2
    <3> QED BY <3>1, <3>2
  <2> QED BY <2>1, <2>2, <2>3, <2>4
<1>8. Working'
  BY <1>1, <1>2, <1>4, <1>5 DEF Working
<1>9. ASSUME NEW f \in Exits \ {e} PROVE Elsewhere(f)
  BY <1>2, <1>3, <1>4, <1>5 DEF Elsewhere, Busy
<1> QED BY <1>1, <1>7, <1>8, <1>9, OneExit

\* reject_prepared.
LEMMA WithdrawReservationKeeps ==
    ASSUME ExitInvariant, NEW w \in Workers, WithdrawReservation(w)
    PROVE  ExitInvariant'
<1>1. Shape' /\ Shape /\ Working
  BY WithdrawReservationShape DEF ExitInvariant
<1>2. PICK e \in Exits : worker[w].exit = e /\ worker[w].step = "withdrawing"
  BY <1>1 DEF WithdrawReservation, Working
<1>3. UNCHANGED <<request, transport, venue, preempted, rows>>
  BY DEF WithdrawReservation, Goto, Given, books
<1>4. /\ \A v \in Workers \ {w} : worker'[v] = worker[v]
      /\ \A f \in Exits \ {e} : reservation'[f] = reservation[f]
  BY <1>1, <1>2 DEF WithdrawReservation, Goto, Given, Shape
<1>5. /\ worker'[w].step \notin {"idle", "read"} => worker'[w].exit = e
      /\ worker'[w].step = "withdrawn"
      /\ reservation'[e].status \in {reservation[e].status, "RELEASED"}
  BY <1>1, <1>2, <1>3 DEF WithdrawReservation, Goto, Given, ExitInvariant, ExitInvariantOf, Busy,
     StepOK, ThreadOK, Shape, AnyReservation, HoldingStatuses, AnyWorker,
     SubmitSteps, ReconcileSteps
<1>6. ExitInvariantOf(e)
  BY DEF ExitInvariant
<1>7. ExitInvariantOf(e)'
  <2> USE DEF ExitInvariantOf, Exclusive, ThreadOK, FinalOK, StepOK, Final, Submitting, Busy,
              SubmitSteps, ReconcileSteps, FinalStatuses, PendingStatuses
  <2>1. Exclusive(e)'
    BY <1>2, <1>3, <1>4, <1>5, <1>6
  <2>2. ThreadOK(e)'
    BY <1>2, <1>3, <1>4, <1>5, <1>6
  <2>3. FinalOK(e)'
    BY <1>2, <1>3, <1>4, <1>5, <1>6
  <2>4. ASSUME NEW v \in Workers, Busy(v, e)'
        PROVE  StepOK(v, e)'
    <3>1. CASE v = w
      BY <1>2, <1>3, <1>4, <1>5, <1>6, <2>4, <3>1
    <3>2. CASE v # w
      BY <1>2, <1>3, <1>4, <1>5, <1>6, <2>4, <3>2
    <3> QED BY <3>1, <3>2
  <2> QED BY <2>1, <2>2, <2>3, <2>4
<1>8. Working'
  BY <1>1, <1>2, <1>4, <1>5 DEF Working
<1>9. ASSUME NEW f \in Exits \ {e} PROVE Elsewhere(f)
  BY <1>2, <1>3, <1>4, <1>5 DEF Elsewhere, Busy
<1> QED BY <1>1, <1>7, <1>8, <1>9, OneExit

\* Its second transaction.
LEMMA WithdrawRequestKeeps ==
    ASSUME ExitInvariant, NEW w \in Workers, WithdrawRequest(w)
    PROVE  ExitInvariant'
<1>1. Shape' /\ Shape /\ Working
  BY WithdrawRequestShape DEF ExitInvariant
<1>2. PICK e \in Exits : worker[w].exit = e /\ worker[w].step = "withdrawn"
  BY <1>1 DEF WithdrawRequest, Working
<1>3. UNCHANGED <<reservation, transport, venue, preempted, rows>>
  BY DEF WithdrawRequest, Halt, Idle, books
<1>4. /\ \A v \in Workers \ {w} : worker'[v] = worker[v]
      /\ \A f \in Exits \ {e} : request'[f] = request[f]
  BY <1>1, <1>2 DEF WithdrawRequest, Halt, Idle, Shape
<1>5. /\ worker'[w].step \notin {"idle", "read"} => worker'[w].exit = e
      /\ worker'[w].step = "idle"
      /\ request'[e].order = request[e].order
      /\ request'[e].status = IF request[e].status = "NONE" THEN "NONE" ELSE "REJECTED"
  BY <1>1, <1>2, <1>3
     DEF WithdrawRequest, Halt, Idle, ExitInvariant, ExitInvariantOf, Busy, StepOK,
     ThreadOK, Shape, AnyRequest, Statuses, PendingStatuses, FinalStatuses,
     AnyWorker, SubmitSteps, ReconcileSteps
<1>6. ExitInvariantOf(e)
  BY DEF ExitInvariant
<1>7. ExitInvariantOf(e)'
  <2> USE DEF ExitInvariantOf, Exclusive, ThreadOK, FinalOK, StepOK, Final, Submitting, Busy,
              SubmitSteps, ReconcileSteps, FinalStatuses, PendingStatuses
  <2>1. Exclusive(e)'
    BY <1>2, <1>3, <1>4, <1>5, <1>6
  <2>2. ThreadOK(e)'
    BY <1>2, <1>3, <1>4, <1>5, <1>6
  <2>3. FinalOK(e)'
    BY <1>2, <1>3, <1>4, <1>5, <1>6
  <2>4. ASSUME NEW v \in Workers, Busy(v, e)'
        PROVE  StepOK(v, e)'
    <3>1. CASE v = w
      BY <1>2, <1>3, <1>4, <1>5, <1>6, <2>4, <3>1
    <3>2. CASE v # w
      BY <1>2, <1>3, <1>4, <1>5, <1>6, <2>4, <3>2
    <3> QED BY <3>1, <3>2
  <2> QED BY <2>1, <2>2, <2>3, <2>4
<1>8. Working'
  BY <1>1, <1>2, <1>4, <1>5 DEF Working
<1>9. ASSUME NEW f \in Exits \ {e} PROVE Elsewhere(f)
  BY <1>2, <1>3, <1>4, <1>5 DEF Elsewhere, Busy
<1> QED BY <1>1, <1>7, <1>8, <1>9, OneExit

\* The thread is called.
LEMMA CallTransportKeeps ==
    ASSUME ExitInvariant, NEW w \in Workers, CallTransport(w)
    PROVE  ExitInvariant'
<1>1. Shape' /\ Shape /\ Working
  BY CallTransportShape DEF ExitInvariant
<1>2. PICK e \in Exits : worker[w].exit = e /\ worker[w].step = "attempted"
  BY <1>1 DEF CallTransport, Working
<1>3. UNCHANGED <<reservation, venue, preempted, rows>>
  BY DEF CallTransport, Goto, NoTransport, books
<1>4. /\ \A v \in Workers \ {w} : worker'[v] = worker[v]
      /\ \A f \in Exits \ {e} : request'[f] = request[f]
      /\ \A f \in Exits \ {e} : transport'[f] = transport[f]
  BY <1>1, <1>2 DEF CallTransport, Goto, NoTransport, Shape
<1>5. /\ worker'[w].step \notin {"idle", "read"} => worker'[w].exit = e
      /\ worker'[w].step = "waiting"
      /\ request'[e].order = request[e].order
      /\ request'[e].status = IF request[e].status = "PREPARED" THEN "SUBMITTING"
              ELSE request[e].status
      /\ transport'[e].step = "called" /\ transport'[e].result = "NONE"
  BY <1>1, <1>2, <1>3 DEF CallTransport, Goto, NoTransport, ExitInvariant, ExitInvariantOf, Busy,
     StepOK, ThreadOK, Shape, AnyRequest, Statuses, PendingStatuses,
     FinalStatuses, Threads, AnyWorker, SubmitSteps, ReconcileSteps
<1>6. ExitInvariantOf(e)
  BY DEF ExitInvariant
<1>7. ExitInvariantOf(e)'
  <2> USE DEF ExitInvariantOf, Exclusive, ThreadOK, FinalOK, StepOK, Final, Submitting, Busy,
              SubmitSteps, ReconcileSteps, FinalStatuses, PendingStatuses
  <2>1. Exclusive(e)'
    BY <1>2, <1>3, <1>4, <1>5, <1>6
  <2>2. ThreadOK(e)'
    BY <1>2, <1>3, <1>4, <1>5, <1>6
  <2>3. FinalOK(e)'
    BY <1>2, <1>3, <1>4, <1>5, <1>6
  <2>4. ASSUME NEW v \in Workers, Busy(v, e)'
        PROVE  StepOK(v, e)'
    <3>1. CASE v = w
      BY <1>2, <1>3, <1>4, <1>5, <1>6, <2>4, <3>1
    <3>2. CASE v # w
      BY <1>2, <1>3, <1>4, <1>5, <1>6, <2>4, <3>2
    <3> QED BY <3>1, <3>2
  <2> QED BY <2>1, <2>2, <2>3, <2>4
<1>8. Working'
  BY <1>1, <1>2, <1>4, <1>5 DEF Working
<1>9. ASSUME NEW f \in Exits \ {e} PROVE Elsewhere(f)
  BY <1>2, <1>3, <1>4, <1>5 DEF Elsewhere, Busy
<1> QED BY <1>1, <1>7, <1>8, <1>9, OneExit

\* The thread ends with an error.
LEMMA SubmissionFailsKeeps ==
    ASSUME ExitInvariant, NEW w \in Workers, SubmissionFails(w)
    PROVE  ExitInvariant'
<1>1. Shape' /\ Shape /\ Working
  BY SubmissionFailsShape DEF ExitInvariant
<1>2. PICK e \in Exits : worker[w].exit = e /\ worker[w].step = "waiting"
  BY <1>1 DEF SubmissionFails, Working
<1>3. UNCHANGED <<reservation, transport, venue, preempted, rows>>
  BY DEF SubmissionFails, PersistFailure, Releasing, Unless, books
<1>4. /\ \A v \in Workers \ {w} : worker'[v] = worker[v]
      /\ \A f \in Exits \ {e} : request'[f] = request[f]
  BY <1>1, <1>2 DEF SubmissionFails, PersistFailure, Releasing, Unless, Shape
<1>5. /\ worker'[w].step \notin {"idle", "read"} => worker'[w].exit = e
      /\ worker'[w].step = "releasing" /\ worker'[w].to # "NONE"
      /\ transport[e].step = "done"
      /\ request'[e].order = request[e].order
      /\ \/ request[e].status \in FinalStatuses /\ request'[e].status = request[e].status
         \/ transport[e].result = "REFUSED" /\ request'[e].status = "REJECTED"
         \/ request'[e].status = "UNKNOWN"
  <2>1. worker'[w].step \notin {"idle", "read"} => worker'[w].exit = e
    BY <1>1, <1>2, <1>3 DEF SubmissionFails, PersistFailure, Releasing, Unless, Shape, AnyRequest,
       Statuses, FinalStatuses, AnyWorker, SubmitSteps, ReconcileSteps
  <2>2. worker'[w].step = "releasing" /\ worker'[w].to # "NONE"
    BY <1>1, <1>2, <1>3 DEF SubmissionFails, PersistFailure, Releasing, Unless, Shape, AnyRequest,
       Statuses, FinalStatuses, AnyWorker, SubmitSteps, ReconcileSteps
  <2>3. transport[e].step = "done"
    BY <1>1, <1>2, <1>3 DEF SubmissionFails, PersistFailure, Releasing, Unless, Shape, AnyRequest,
       Statuses, FinalStatuses, AnyWorker, SubmitSteps, ReconcileSteps
  <2>4. request'[e].order = request[e].order
    BY <1>1, <1>2, <1>3 DEF SubmissionFails, PersistFailure, Releasing, Unless, Shape, AnyRequest,
       Statuses, FinalStatuses, AnyWorker, SubmitSteps, ReconcileSteps
  <2>5. \/ request[e].status \in FinalStatuses /\ request'[e].status = request[e].status
        \/ transport[e].result = "REFUSED" /\ request'[e].status = "REJECTED"
        \/ request'[e].status = "UNKNOWN"
    <3>1. request[e] \in AnyRequest
      BY <1>1 DEF Shape
    <3>2. \/ /\ transport[e].result = "REFUSED"
             /\ request'[e] = Unless(request[e], "REJECTED")
          \/ request'[e] = Unless(request[e], "UNKNOWN")
      BY <1>1, <1>2 DEF SubmissionFails, PersistFailure, Shape
    <3>3. CASE request[e].status \in FinalStatuses
      BY <3>1, <3>2, <3>3 DEF Unless, AnyRequest
    <3>4. CASE request[e].status \notin FinalStatuses
      BY <3>1, <3>2, <3>4 DEF Unless, AnyRequest
    <3> QED BY <3>3, <3>4
  <2> QED BY <2>1, <2>2, <2>3, <2>4, <2>5
<1>6. ExitInvariantOf(e)
  BY DEF ExitInvariant
<1>7. ExitInvariantOf(e)'
  <2> USE DEF ExitInvariantOf, Exclusive, ThreadOK, FinalOK, StepOK, Final, Submitting, Busy,
              SubmitSteps, ReconcileSteps, FinalStatuses, PendingStatuses
  <2>1. Exclusive(e)'
    BY <1>2, <1>3, <1>4, <1>5, <1>6
  <2>2. ThreadOK(e)'
    BY <1>2, <1>3, <1>4, <1>5, <1>6
  <2>3. FinalOK(e)'
    BY <1>2, <1>3, <1>4, <1>5, <1>6
  <2>4. ASSUME NEW v \in Workers, Busy(v, e)'
        PROVE  StepOK(v, e)'
    <3>1. CASE v = w
      BY <1>2, <1>3, <1>4, <1>5, <1>6, <2>4, <3>1
    <3>2. CASE v # w
      BY <1>2, <1>3, <1>4, <1>5, <1>6, <2>4, <3>2
    <3> QED BY <3>1, <3>2
  <2> QED BY <2>1, <2>2, <2>3, <2>4
<1>8. Working'
  BY <1>1, <1>2, <1>4, <1>5 DEF Working
<1>9. ASSUME NEW f \in Exits \ {e} PROVE Elsewhere(f)
  BY <1>2, <1>3, <1>4, <1>5 DEF Elsewhere, Busy
<1> QED BY <1>1, <1>7, <1>8, <1>9, OneExit

\* The call times out.
LEMMA TimeOutKeeps ==
    ASSUME ExitInvariant, NEW w \in Workers, TimeOut(w)
    PROVE  ExitInvariant'
<1>1. Shape' /\ Shape /\ Working
  BY TimeOutShape DEF ExitInvariant
<1>2. PICK e \in Exits : worker[w].exit = e /\ worker[w].step = "waiting"
  BY <1>1 DEF TimeOut, Working
<1>3. UNCHANGED <<reservation, venue, preempted, rows>>
  BY DEF TimeOut, PersistFailure, Releasing, Unless, TimeOutStatus, books
<1>4. /\ \A v \in Workers \ {w} : worker'[v] = worker[v]
      /\ \A f \in Exits \ {e} : request'[f] = request[f]
      /\ \A f \in Exits \ {e} : transport'[f] = transport[f]
  BY <1>1, <1>2 DEF TimeOut, PersistFailure, Releasing, Unless, TimeOutStatus, Shape
<1>5. /\ worker'[w].step \notin {"idle", "read"} => worker'[w].exit = e
      /\ worker'[w].step = "releasing" /\ worker'[w].to # "NONE"
      /\ transport[e].step \notin {"none", "done"}
      /\ transport'[e].step = transport[e].step /\ transport'[e].cancelled
      /\ transport'[e].result = transport[e].result
      /\ request'[e].order = request[e].order
      /\ \/ request[e].status \in FinalStatuses /\ request'[e].status = request[e].status
         \/ transport[e].step \in {"called", "signed", "fenced"}
                 /\ request'[e].status = "REJECTED"
         \/ request'[e].status = "UNKNOWN"
  <2>1. worker'[w].step \notin {"idle", "read"} => worker'[w].exit = e
    BY <1>1, <1>2, <1>3 DEF TimeOut, PersistFailure, Releasing, Unless, TimeOutStatus, Shape,
       AnyRequest, Statuses, FinalStatuses, Threads, AnyWorker, SubmitSteps,
       ReconcileSteps
  <2>2. worker'[w].step = "releasing" /\ worker'[w].to # "NONE"
    BY <1>1, <1>2, <1>3 DEF TimeOut, PersistFailure, Releasing, Unless, TimeOutStatus, Shape,
       AnyRequest, Statuses, FinalStatuses, Threads, AnyWorker, SubmitSteps,
       ReconcileSteps
  <2>3. transport[e].step \notin {"none", "done"}
    BY <1>1, <1>2, <1>3 DEF TimeOut, PersistFailure, Releasing, Unless, TimeOutStatus, Shape,
       AnyRequest, Statuses, FinalStatuses, Threads, AnyWorker, SubmitSteps,
       ReconcileSteps
  <2>4. transport'[e].step = transport[e].step /\ transport'[e].cancelled
    BY <1>1, <1>2, <1>3 DEF TimeOut, PersistFailure, Releasing, Unless, TimeOutStatus, Shape,
       AnyRequest, Statuses, FinalStatuses, Threads, AnyWorker, SubmitSteps,
       ReconcileSteps
  <2>5. transport'[e].result = transport[e].result
    BY <1>1, <1>2, <1>3 DEF TimeOut, PersistFailure, Releasing, Unless, TimeOutStatus, Shape,
       AnyRequest, Statuses, FinalStatuses, Threads, AnyWorker, SubmitSteps,
       ReconcileSteps
  <2>6. request'[e].order = request[e].order
    BY <1>1, <1>2, <1>3 DEF TimeOut, PersistFailure, Releasing, Unless, TimeOutStatus, Shape,
       AnyRequest, Statuses, FinalStatuses, Threads, AnyWorker, SubmitSteps,
       ReconcileSteps
  <2>7. \/ request[e].status \in FinalStatuses /\ request'[e].status = request[e].status
        \/ transport[e].step \in {"called", "signed", "fenced"} /\ request'[e].status = "REJECTED"
        \/ request'[e].status = "UNKNOWN"
    <3>1. request[e] \in AnyRequest /\ transport[e] \in Threads
      BY <1>1 DEF Shape
    <3>2. request'[e] = Unless(request[e], TimeOutStatus(e))
      BY <1>1, <1>2 DEF TimeOut, PersistFailure, Shape
    <3>3. TimeOutStatus(e) = "REJECTED" => transport[e].step \in {"called", "signed", "fenced"}
      BY <1>2, <3>1 DEF TimeOut, TimeOutStatus, Threads
    <3>4. TimeOutStatus(e) \in {"REJECTED", "UNKNOWN"}
      BY DEF TimeOutStatus
    <3>5. CASE request[e].status \in FinalStatuses
      BY <3>1, <3>2, <3>5 DEF Unless, AnyRequest
    <3>6. CASE request[e].status \notin FinalStatuses
      <4>1. request'[e].status = TimeOutStatus(e)
        BY <3>1, <3>2, <3>6 DEF Unless, AnyRequest
      <4> QED BY <3>3, <3>4, <4>1
    <3> QED BY <3>5, <3>6
  <2> QED BY <2>1, <2>2, <2>3, <2>4, <2>5, <2>6, <2>7
<1>6. ExitInvariantOf(e)
  BY DEF ExitInvariant
<1>7. ExitInvariantOf(e)'
  <2> USE DEF ExitInvariantOf, Exclusive, ThreadOK, FinalOK, StepOK, Final, Submitting, Busy,
              SubmitSteps, ReconcileSteps, FinalStatuses, PendingStatuses
  <2>1. Exclusive(e)'
    BY <1>2, <1>3, <1>4, <1>5, <1>6
  <2>2. ThreadOK(e)'
    BY <1>2, <1>3, <1>4, <1>5, <1>6
  <2>3. FinalOK(e)'
    BY <1>2, <1>3, <1>4, <1>5, <1>6
  <2>4. ASSUME NEW v \in Workers, Busy(v, e)'
        PROVE  StepOK(v, e)'
    <3>1. CASE v = w
      BY <1>2, <1>3, <1>4, <1>5, <1>6, <2>4, <3>1
    <3>2. CASE v # w
      BY <1>2, <1>3, <1>4, <1>5, <1>6, <2>4, <3>2
    <3> QED BY <3>1, <3>2
  <2> QED BY <2>1, <2>2, <2>3, <2>4
<1>8. Working'
  BY <1>1, <1>2, <1>4, <1>5 DEF Working
<1>9. ASSUME NEW f \in Exits \ {e} PROVE Elsewhere(f)
  BY <1>2, <1>3, <1>4, <1>5 DEF Elsewhere, Busy
<1> QED BY <1>1, <1>7, <1>8, <1>9, OneExit

\* The venue answered.
LEMMA RespondsKeeps ==
    ASSUME ExitInvariant, NEW w \in Workers, Responds(w)
    PROVE  ExitInvariant'
<1>1. Shape' /\ Shape /\ Working
  BY RespondsShape DEF ExitInvariant
<1>2. PICK e \in Exits : worker[w].exit = e /\ worker[w].step = "waiting"
  BY <1>1 DEF Responds, Working
<1>3. UNCHANGED <<reservation, transport, venue, preempted, rows>>
  BY DEF Responds, Releasing, Unless, books
<1>4. /\ \A v \in Workers \ {w} : worker'[v] = worker[v]
      /\ \A f \in Exits \ {e} : request'[f] = request[f]
  BY <1>1, <1>2 DEF Responds, Releasing, Unless, Shape
<1>5. /\ worker'[w].step \notin {"idle", "read"} => worker'[w].exit = e
      /\ worker'[w].step = "releasing" /\ worker'[w].to # "NONE"
      /\ transport[e].step = "done"
      /\ \/ request[e].status \in FinalStatuses /\ request'[e] = request[e]
         \/ transport[e].result = "ACCEPTED" /\ request'[e].status = "OPEN" /\ request'[e].order
         \/ /\ transport[e].result = "REJECTED"
            /\ request'[e].status = "REJECTED" /\ request'[e].order = request[e].order
  <2>1. worker'[w].step \notin {"idle", "read"} => worker'[w].exit = e
    <3>1. worker[w] \in AnyWorker
      BY <1>1 DEF Shape
    <3>2. \/ worker'[w] = [worker[w] EXCEPT !.step = "releasing", !.to = "OPEN"]
          \/ worker'[w] = [worker[w] EXCEPT !.step = "releasing", !.to = "RELEASED"]
      BY <1>1 DEF Responds, Releasing, Shape
    <3> QED BY <1>2, <3>1, <3>2 DEF AnyWorker
  <2>2. worker'[w].step = "releasing" /\ worker'[w].to # "NONE"
    <3>1. worker[w] \in AnyWorker
      BY <1>1 DEF Shape
    <3>2. \/ worker'[w] = [worker[w] EXCEPT !.step = "releasing", !.to = "OPEN"]
          \/ worker'[w] = [worker[w] EXCEPT !.step = "releasing", !.to = "RELEASED"]
      BY <1>1 DEF Responds, Releasing, Shape
    <3> QED BY <1>2, <3>1, <3>2 DEF AnyWorker
  <2>3. transport[e].step = "done"
    BY <1>1, <1>2, <1>3
       DEF Responds, Releasing, Unless, Shape, AnyRequest, Statuses, FinalStatuses,
       AnyWorker, SubmitSteps, ReconcileSteps
  <2>4. \/ request[e].status \in FinalStatuses /\ request'[e] = request[e]
        \/ transport[e].result = "ACCEPTED" /\ request'[e].status = "OPEN" /\ request'[e].order
        \/ /\ transport[e].result = "REJECTED"
           /\ request'[e].status = "REJECTED" /\ request'[e].order = request[e].order
    <3>1. request[e] \in AnyRequest
      BY <1>1 DEF Shape
    <3>2. \/ request'[e] = request[e] /\ request[e].status \in FinalStatuses
          \/ /\ transport[e].result = "ACCEPTED"
             /\ request'[e] = [request[e] EXCEPT !.status = "OPEN", !.order = TRUE]
          \/ transport[e].result = "REJECTED" /\ request'[e] = Unless(request[e], "REJECTED")
      BY <1>1, <1>2 DEF Responds, Shape
    <3>3. CASE request[e].status \in FinalStatuses
      BY <3>1, <3>2, <3>3 DEF Unless, AnyRequest
    <3>4. CASE /\ request[e].status \notin FinalStatuses
               /\ request'[e] = [request[e] EXCEPT !.status = "OPEN", !.order = TRUE]
               /\ transport[e].result = "ACCEPTED"
      BY <3>1, <3>4 DEF AnyRequest
    <3>5. CASE /\ request[e].status \notin FinalStatuses
               /\ request'[e] = Unless(request[e], "REJECTED")
               /\ transport[e].result = "REJECTED"
      BY <3>1, <3>5 DEF Unless, AnyRequest
    <3> QED BY <3>2, <3>3, <3>4, <3>5
  <2> QED BY <2>1, <2>2, <2>3, <2>4
<1>6. ExitInvariantOf(e)
  BY DEF ExitInvariant
<1>7. ExitInvariantOf(e)'
  <2> USE DEF ExitInvariantOf, Exclusive, ThreadOK, FinalOK, StepOK, Final, Submitting, Busy,
              SubmitSteps, ReconcileSteps, FinalStatuses, PendingStatuses
  <2>1. Exclusive(e)'
    BY <1>2, <1>3, <1>4, <1>5, <1>6
  <2>2. ThreadOK(e)'
    BY <1>2, <1>3, <1>4, <1>5, <1>6
  <2>3. FinalOK(e)'
    BY <1>2, <1>3, <1>4, <1>5, <1>6
  <2>4. ASSUME NEW v \in Workers, Busy(v, e)'
        PROVE  StepOK(v, e)'
    <3>1. CASE v = w
      BY <1>2, <1>3, <1>4, <1>5, <1>6, <2>4, <3>1
    <3>2. CASE v # w
      BY <1>2, <1>3, <1>4, <1>5, <1>6, <2>4, <3>2
    <3> QED BY <3>1, <3>2
  <2> QED BY <2>1, <2>2, <2>3, <2>4
<1>8. Working'
  BY <1>1, <1>2, <1>4, <1>5 DEF Working
<1>9. ASSUME NEW f \in Exits \ {e} PROVE Elsewhere(f)
  BY <1>2, <1>3, <1>4, <1>5 DEF Elsewhere, Busy
<1> QED BY <1>1, <1>7, <1>8, <1>9, OneExit

\* release_canary_capacity.
LEMMA ReleaseCapacityKeeps ==
    ASSUME ExitInvariant, NEW w \in Workers, ReleaseCapacity(w)
    PROVE  ExitInvariant'
<1>1. Shape' /\ Shape /\ Working
  BY ReleaseCapacityShape DEF ExitInvariant
<1>2. PICK e \in Exits : worker[w].exit = e /\ worker[w].step = "releasing"
  BY <1>1 DEF ReleaseCapacity, Working
<1>3. UNCHANGED <<request, transport, venue, preempted, rows>>
  BY DEF ReleaseCapacity, Halt, Idle, Given, books
<1>4. /\ \A v \in Workers \ {w} : worker'[v] = worker[v]
      /\ \A f \in Exits \ {e} : reservation'[f] = reservation[f]
  BY <1>1, <1>2 DEF ReleaseCapacity, Halt, Idle, Given, Shape
<1>5. /\ worker'[w].step \notin {"idle", "read"} => worker'[w].exit = e
      /\ worker'[w].step = "idle"
      /\ reservation'[e].status \in {reservation[e].status, worker[w].to}
  BY <1>1, <1>2, <1>3
     DEF ReleaseCapacity, Halt, Idle, Given, ExitInvariant, ExitInvariantOf, Busy,
     StepOK, ThreadOK, Shape, AnyReservation, HoldingStatuses, AnyWorker,
     SubmitSteps, ReconcileSteps
<1>6. ExitInvariantOf(e)
  BY DEF ExitInvariant
<1>7. ExitInvariantOf(e)'
  <2> USE DEF ExitInvariantOf, Exclusive, ThreadOK, FinalOK, StepOK, Final, Submitting, Busy,
              SubmitSteps, ReconcileSteps, FinalStatuses, PendingStatuses
  <2>1. Exclusive(e)'
    BY <1>2, <1>3, <1>4, <1>5, <1>6
  <2>2. ThreadOK(e)'
    BY <1>2, <1>3, <1>4, <1>5, <1>6
  <2>3. FinalOK(e)'
    BY <1>2, <1>3, <1>4, <1>5, <1>6
  <2>4. ASSUME NEW v \in Workers, Busy(v, e)'
        PROVE  StepOK(v, e)'
    <3>1. CASE v = w
      BY <1>2, <1>3, <1>4, <1>5, <1>6, <2>4, <3>1
    <3>2. CASE v # w
      BY <1>2, <1>3, <1>4, <1>5, <1>6, <2>4, <3>2
    <3> QED BY <3>1, <3>2
  <2> QED BY <2>1, <2>2, <2>3, <2>4
<1>8. Working'
  BY <1>1, <1>2, <1>4, <1>5 DEF Working
<1>9. ASSUME NEW f \in Exits \ {e} PROVE Elsewhere(f)
  BY <1>2, <1>3, <1>4, <1>5 DEF Elsewhere, Busy
<1> QED BY <1>1, <1>7, <1>8, <1>9, OneExit

\* reconcile_pending takes up a request.
LEMMA ReadRequestKeeps ==
    ASSUME ExitInvariant, NEW w \in Workers, NEW e \in Exits, ReadRequest(w, e)
    PROVE  ExitInvariant'
<1>1. Shape' /\ Shape /\ Working
  BY ReadRequestShape DEF ExitInvariant
<1>2. worker'[w].exit = e
  BY <1>1 DEF ReadRequest, Shape, AnyWorker
<1>3. UNCHANGED <<request, reservation, transport, venue, preempted, rows>>
  BY DEF ReadRequest, books
<1>4. /\ \A v \in Workers \ {w} : worker'[v] = worker[v]
  BY <1>1, <1>2 DEF ReadRequest, Shape
<1>5. /\ worker[w].step = "idle"
      /\ request[e].status \in PendingStatuses
      /\ worker'[w].step =
            IF request[e].order THEN "poll"
            ELSE IF request[e].status = "PREPARED" THEN "unsent" ELSE "orphan"
  BY <1>1, <1>2, <1>3
     DEF ReadRequest, ExitInvariant, ExitInvariantOf, Busy, StepOK, ThreadOK, Shape,
     AnyWorker, SubmitSteps, ReconcileSteps
<1>6. ExitInvariantOf(e)
  BY DEF ExitInvariant
<1>7. ExitInvariantOf(e)'
  <2> USE DEF ExitInvariantOf, Exclusive, ThreadOK, FinalOK, StepOK, Final, Submitting, Busy,
              SubmitSteps, ReconcileSteps, FinalStatuses, PendingStatuses
  <2>1. Exclusive(e)'
    BY <1>2, <1>3, <1>4, <1>5, <1>6
  <2>2. ThreadOK(e)'
    BY <1>2, <1>3, <1>4, <1>5, <1>6
  <2>3. FinalOK(e)'
    BY <1>2, <1>3, <1>4, <1>5, <1>6
  <2>4. ASSUME NEW v \in Workers, Busy(v, e)'
        PROVE  StepOK(v, e)'
    <3>1. CASE v = w
      BY <1>2, <1>3, <1>4, <1>5, <1>6, <2>4, <3>1
    <3>2. CASE v # w
      BY <1>2, <1>3, <1>4, <1>5, <1>6, <2>4, <3>2
    <3> QED BY <3>1, <3>2
  <2> QED BY <2>1, <2>2, <2>3, <2>4
<1>8. Working'
  BY <1>1, <1>2, <1>4, <1>5 DEF Working
<1>9. ASSUME NEW f \in Exits \ {e} PROVE Elsewhere(f)
  BY <1>2, <1>3, <1>4, <1>5 DEF Elsewhere, Busy
<1> QED BY <1>1, <1>7, <1>8, <1>9, OneExit

\* _mark_request_unknown.
LEMMA MarkUnknownKeeps ==
    ASSUME ExitInvariant, NEW w \in Workers, MarkUnknown(w)
    PROVE  ExitInvariant'
<1>1. Shape' /\ Shape /\ Working
  BY MarkUnknownShape DEF ExitInvariant
<1>2. PICK e \in Exits : worker[w].exit = e /\ worker[w].step = "orphan"
  BY <1>1 DEF MarkUnknown, Working
<1>3. UNCHANGED <<reservation, transport, venue, preempted, rows>>
  BY DEF MarkUnknown, Halt, Idle, Unless, books
<1>4. /\ \A v \in Workers \ {w} : worker'[v] = worker[v]
      /\ \A f \in Exits \ {e} : request'[f] = request[f]
  BY <1>1, <1>2 DEF MarkUnknown, Halt, Idle, Unless, Shape
<1>5. /\ worker'[w].step \notin {"idle", "read"} => worker'[w].exit = e
      /\ worker'[w].step = "idle"
      /\ request'[e].order = request[e].order
      /\ \/ request[e].status \in FinalStatuses /\ request'[e].status = request[e].status
         \/ request'[e].status = "UNKNOWN"
  BY <1>1, <1>2, <1>3 DEF MarkUnknown, Halt, Idle, Unless, ExitInvariant, ExitInvariantOf, Busy,
     StepOK, ThreadOK, Shape, AnyRequest, Statuses, PendingStatuses,
     FinalStatuses, AnyWorker, SubmitSteps, ReconcileSteps
<1>6. ExitInvariantOf(e)
  BY DEF ExitInvariant
<1>7. ExitInvariantOf(e)'
  <2> USE DEF ExitInvariantOf, Exclusive, ThreadOK, FinalOK, StepOK, Final, Submitting, Busy,
              SubmitSteps, ReconcileSteps, FinalStatuses, PendingStatuses
  <2>1. Exclusive(e)'
    BY <1>2, <1>3, <1>4, <1>5, <1>6
  <2>2. ThreadOK(e)'
    BY <1>2, <1>3, <1>4, <1>5, <1>6
  <2>3. FinalOK(e)'
    BY <1>2, <1>3, <1>4, <1>5, <1>6
  <2>4. ASSUME NEW v \in Workers, Busy(v, e)'
        PROVE  StepOK(v, e)'
    <3>1. CASE v = w
      BY <1>2, <1>3, <1>4, <1>5, <1>6, <2>4, <3>1
    <3>2. CASE v # w
      BY <1>2, <1>3, <1>4, <1>5, <1>6, <2>4, <3>2
    <3> QED BY <3>1, <3>2
  <2> QED BY <2>1, <2>2, <2>3, <2>4
<1>8. Working'
  BY <1>1, <1>2, <1>4, <1>5 DEF Working
<1>9. ASSUME NEW f \in Exits \ {e} PROVE Elsewhere(f)
  BY <1>2, <1>3, <1>4, <1>5 DEF Elsewhere, Busy
<1> QED BY <1>1, <1>7, <1>8, <1>9, OneExit

\* CRASH_BEFORE_SUBMISSION.
LEMMA ReleaseUnsentKeeps ==
    ASSUME ExitInvariant, NEW w \in Workers, ReleaseUnsent(w)
    PROVE  ExitInvariant'
<1>1. Shape' /\ Shape /\ Working
  BY ReleaseUnsentShape DEF ExitInvariant
<1>2. PICK e \in Exits : worker[w].exit = e /\ worker[w].step = "unsent"
  BY <1>1 DEF ReleaseUnsent, Working
<1>3. UNCHANGED <<request, transport, venue, rows>>
  BY DEF ReleaseUnsent, Goto, Given, books
<1>4. /\ \A v \in Workers \ {w} : worker'[v] = worker[v]
      /\ \A f \in Exits \ {e} : reservation'[f] = reservation[f]
  BY <1>1, <1>2 DEF ReleaseUnsent, Goto, Given, Shape
<1>5. /\ worker'[w].step \notin {"idle", "read"} => worker'[w].exit = e
      /\ worker'[w].step = "rejecting"
      /\ reservation'[e].status \in {reservation[e].status, "RELEASED"}
      /\ preempted \subseteq preempted' /\ preempted' \subseteq preempted \cup {e}
  BY <1>1, <1>2, <1>3
     DEF ReleaseUnsent, Goto, Given, ExitInvariant, ExitInvariantOf, Busy, StepOK,
     ThreadOK, Shape, AnyReservation, HoldingStatuses, AnyWorker, SubmitSteps,
     ReconcileSteps
<1>6. ExitInvariantOf(e)
  BY DEF ExitInvariant
<1>7. ExitInvariantOf(e)'
  <2> USE DEF ExitInvariantOf, Exclusive, ThreadOK, FinalOK, StepOK, Final, Submitting, Busy,
              SubmitSteps, ReconcileSteps, FinalStatuses, PendingStatuses
  <2>1. Exclusive(e)'
    BY <1>2, <1>3, <1>4, <1>5, <1>6
  <2>2. ThreadOK(e)'
    BY <1>2, <1>3, <1>4, <1>5, <1>6
  <2>3. FinalOK(e)'
    BY <1>2, <1>3, <1>4, <1>5, <1>6
  <2>4. ASSUME NEW v \in Workers, Busy(v, e)'
        PROVE  StepOK(v, e)'
    <3>1. CASE v = w
      BY <1>2, <1>3, <1>4, <1>5, <1>6, <2>4, <3>1
    <3>2. CASE v # w
      BY <1>2, <1>3, <1>4, <1>5, <1>6, <2>4, <3>2
    <3> QED BY <3>1, <3>2
  <2> QED BY <2>1, <2>2, <2>3, <2>4
<1>8. Working'
  BY <1>1, <1>2, <1>4, <1>5 DEF Working
<1>9. ASSUME NEW f \in Exits \ {e} PROVE Elsewhere(f)
  BY <1>2, <1>3, <1>4, <1>5 DEF Elsewhere, Busy
<1> QED BY <1>1, <1>7, <1>8, <1>9, OneExit

\* Its second transaction.
LEMMA RejectUnsentKeeps ==
    ASSUME ExitInvariant, NEW w \in Workers, RejectUnsent(w)
    PROVE  ExitInvariant'
<1>1. Shape' /\ Shape /\ Working
  BY RejectUnsentShape DEF ExitInvariant
<1>2. PICK e \in Exits : worker[w].exit = e /\ worker[w].step = "rejecting"
  BY <1>1 DEF RejectUnsent, Working
<1>3. UNCHANGED <<reservation, transport, venue, rows>>
  BY DEF RejectUnsent, Halt, Idle, WentOn, Submitting, books
<1>4. /\ \A v \in Workers \ {w} : worker'[v] = worker[v]
      /\ \A f \in Exits \ {e} : request'[f] = request[f]
  BY <1>1, <1>2 DEF RejectUnsent, Halt, Idle, WentOn, Submitting, Shape
<1>5. /\ worker'[w].step \notin {"idle", "read"} => worker'[w].exit = e
      /\ worker'[w].step = "idle"
      /\ request'[e].order = request[e].order
      /\ request'[e].status = "REJECTED"
      /\ preempted \subseteq preempted'
      /\ preempted' \subseteq preempted \cup {e}
      /\ e \in preempted' \/ (request[e].status = "PREPARED" /\ \A v \in Workers : ~Submitting(v, e))
  BY <1>1, <1>2, <1>3 DEF RejectUnsent, Halt, Idle, WentOn, Submitting, ExitInvariant,
     ExitInvariantOf, Busy, StepOK, ThreadOK, Shape, AnyRequest, Statuses,
     PendingStatuses, FinalStatuses, AnyWorker, SubmitSteps, ReconcileSteps
<1>6. ExitInvariantOf(e)
  BY DEF ExitInvariant
<1>7. ExitInvariantOf(e)'
  <2> USE DEF ExitInvariantOf, Exclusive, ThreadOK, FinalOK, StepOK, Final, Submitting, Busy,
              SubmitSteps, ReconcileSteps, FinalStatuses, PendingStatuses
  <2>1. Exclusive(e)'
    BY <1>2, <1>3, <1>4, <1>5, <1>6
  <2>2. ThreadOK(e)'
    BY <1>2, <1>3, <1>4, <1>5, <1>6
  <2>3. FinalOK(e)'
    BY <1>2, <1>3, <1>4, <1>5, <1>6
  <2>4. ASSUME NEW v \in Workers, Busy(v, e)'
        PROVE  StepOK(v, e)'
    <3>1. CASE v = w
      BY <1>2, <1>3, <1>4, <1>5, <1>6, <2>4, <3>1
    <3>2. CASE v # w
      BY <1>2, <1>3, <1>4, <1>5, <1>6, <2>4, <3>2
    <3> QED BY <3>1, <3>2
  <2> QED BY <2>1, <2>2, <2>3, <2>4
<1>8. Working'
  BY <1>1, <1>2, <1>4, <1>5 DEF Working
<1>9. ASSUME NEW f \in Exits \ {e} PROVE Elsewhere(f)
  BY <1>2, <1>3, <1>4, <1>5 DEF Elsewhere, Busy
<1> QED BY <1>1, <1>7, <1>8, <1>9, OneExit

\* get_order.
LEMMA PollOrderKeeps ==
    ASSUME ExitInvariant, NEW w \in Workers, PollOrder(w)
    PROVE  ExitInvariant'
<1>1. Shape' /\ Shape /\ Working
  BY PollOrderShape DEF ExitInvariant
<1>2. PICK e \in Exits : worker[w].exit = e /\ worker[w].step = "poll"
  BY <1>1 DEF PollOrder, Working
<1>3. UNCHANGED <<request, reservation, transport, venue, preempted, rows>>
  BY DEF PollOrder, books
<1>4. /\ \A v \in Workers \ {w} : worker'[v] = worker[v]
  BY <1>1, <1>2 DEF PollOrder, Shape
<1>5. /\ worker'[w].step \notin {"idle", "read"} => worker'[w].exit = e
      /\ worker'[w].step = "polled"
      /\ worker'[w].state = venue[e].state
  BY <1>1, <1>2, <1>3
     DEF PollOrder, ExitInvariant, ExitInvariantOf, Busy, StepOK, ThreadOK, Shape,
     AnyWorker, SubmitSteps, ReconcileSteps
<1>6. ExitInvariantOf(e)
  BY DEF ExitInvariant
<1>7. ExitInvariantOf(e)'
  <2> USE DEF ExitInvariantOf, Exclusive, ThreadOK, FinalOK, StepOK, Final, Submitting, Busy,
              SubmitSteps, ReconcileSteps, FinalStatuses, PendingStatuses
  <2>1. Exclusive(e)'
    BY <1>2, <1>3, <1>4, <1>5, <1>6
  <2>2. ThreadOK(e)'
    BY <1>2, <1>3, <1>4, <1>5, <1>6
  <2>3. FinalOK(e)'
    BY <1>2, <1>3, <1>4, <1>5, <1>6
  <2>4. ASSUME NEW v \in Workers, Busy(v, e)'
        PROVE  StepOK(v, e)'
    <3>1. CASE v = w
      BY <1>2, <1>3, <1>4, <1>5, <1>6, <2>4, <3>1
    <3>2. CASE v # w
      BY <1>2, <1>3, <1>4, <1>5, <1>6, <2>4, <3>2
    <3> QED BY <3>1, <3>2
  <2> QED BY <2>1, <2>2, <2>3, <2>4
<1>8. Working'
  BY <1>1, <1>2, <1>4, <1>5 DEF Working
<1>9. ASSUME NEW f \in Exits \ {e} PROVE Elsewhere(f)
  BY <1>2, <1>3, <1>4, <1>5 DEF Elsewhere, Busy
<1> QED BY <1>1, <1>7, <1>8, <1>9, OneExit

\* list_account_trades.
LEMMA ListTradesKeeps ==
    ASSUME ExitInvariant, NEW w \in Workers, ListTrades(w)
    PROVE  ExitInvariant'
<1>1. Shape' /\ Shape /\ Working
  BY ListTradesShape DEF ExitInvariant
<1>2. PICK e \in Exits : worker[w].exit = e /\ worker[w].step = "polled"
  BY <1>1 DEF ListTrades, Working
<1>3. UNCHANGED <<request, reservation, transport, venue, preempted, rows>>
  BY DEF ListTrades, books
<1>4. /\ \A v \in Workers \ {w} : worker'[v] = worker[v]
  BY <1>1, <1>2 DEF ListTrades, Shape
<1>5. /\ worker'[w].step \notin {"idle", "read"} => worker'[w].exit = e
      /\ worker'[w].step = "listed"
      /\ worker'[w].state = worker[w].state
  BY <1>1, <1>2, <1>3
     DEF ListTrades, ExitInvariant, ExitInvariantOf, Busy, StepOK, ThreadOK, Shape,
     AnyWorker, SubmitSteps, ReconcileSteps
<1>6. ExitInvariantOf(e)
  BY DEF ExitInvariant
<1>7. ExitInvariantOf(e)'
  <2> USE DEF ExitInvariantOf, Exclusive, ThreadOK, FinalOK, StepOK, Final, Submitting, Busy,
              SubmitSteps, ReconcileSteps, FinalStatuses, PendingStatuses
  <2>1. Exclusive(e)'
    BY <1>2, <1>3, <1>4, <1>5, <1>6
  <2>2. ThreadOK(e)'
    BY <1>2, <1>3, <1>4, <1>5, <1>6
  <2>3. FinalOK(e)'
    BY <1>2, <1>3, <1>4, <1>5, <1>6
  <2>4. ASSUME NEW v \in Workers, Busy(v, e)'
        PROVE  StepOK(v, e)'
    <3>1. CASE v = w
      BY <1>2, <1>3, <1>4, <1>5, <1>6, <2>4, <3>1
    <3>2. CASE v # w
      BY <1>2, <1>3, <1>4, <1>5, <1>6, <2>4, <3>2
    <3> QED BY <3>1, <3>2
  <2> QED BY <2>1, <2>2, <2>3, <2>4
<1>8. Working'
  BY <1>1, <1>2, <1>4, <1>5 DEF Working
<1>9. ASSUME NEW f \in Exits \ {e} PROVE Elsewhere(f)
  BY <1>2, <1>3, <1>4, <1>5 DEF Elsewhere, Busy
<1> QED BY <1>1, <1>7, <1>8, <1>9, OneExit

\* The venue fails to answer.
LEMMA VenueUnavailableKeeps ==
    ASSUME ExitInvariant, NEW w \in Workers, VenueUnavailable(w)
    PROVE  ExitInvariant'
<1>1. Shape' /\ Shape /\ Working
  BY VenueUnavailableShape DEF ExitInvariant
<1>2. PICK e \in Exits : worker[w].exit = e /\ worker[w].step \in {"poll", "polled"}
  BY <1>1 DEF VenueUnavailable, Working
<1>3. UNCHANGED <<request, reservation, transport, venue, preempted, rows>>
  BY DEF VenueUnavailable, Goto, books
<1>4. /\ \A v \in Workers \ {w} : worker'[v] = worker[v]
  BY <1>1, <1>2 DEF VenueUnavailable, Goto, Shape
<1>5. /\ worker'[w].step \notin {"idle", "read"} => worker'[w].exit = e
      /\ worker'[w].step = "orphan"
  BY <1>1, <1>2, <1>3 DEF VenueUnavailable, Goto, ExitInvariant, ExitInvariantOf, Busy, StepOK,
     ThreadOK, Shape, AnyWorker, SubmitSteps, ReconcileSteps
<1>6. ExitInvariantOf(e)
  BY DEF ExitInvariant
<1>7. ExitInvariantOf(e)'
  <2> USE DEF ExitInvariantOf, Exclusive, ThreadOK, FinalOK, StepOK, Final, Submitting, Busy,
              SubmitSteps, ReconcileSteps, FinalStatuses, PendingStatuses
  <2>1. Exclusive(e)'
    BY <1>2, <1>3, <1>4, <1>5, <1>6
  <2>2. ThreadOK(e)'
    BY <1>2, <1>3, <1>4, <1>5, <1>6
  <2>3. FinalOK(e)'
    BY <1>2, <1>3, <1>4, <1>5, <1>6
  <2>4. ASSUME NEW v \in Workers, Busy(v, e)'
        PROVE  StepOK(v, e)'
    <3>1. CASE v = w
      BY <1>2, <1>3, <1>4, <1>5, <1>6, <2>4, <3>1
    <3>2. CASE v # w
      BY <1>2, <1>3, <1>4, <1>5, <1>6, <2>4, <3>2
    <3> QED BY <3>1, <3>2
  <2> QED BY <2>1, <2>2, <2>3, <2>4
<1>8. Working'
  BY <1>1, <1>2, <1>4, <1>5 DEF Working
<1>9. ASSUME NEW f \in Exits \ {e} PROVE Elsewhere(f)
  BY <1>2, <1>3, <1>4, <1>5 DEF Elsewhere, Busy
<1> QED BY <1>1, <1>7, <1>8, <1>9, OneExit

\* The fills of the ledger.
LEMMA BookFillsKeeps ==
    ASSUME ExitInvariant, NEW w \in Workers, BookFills(w)
    PROVE  ExitInvariant'
<1>1. Shape' /\ Shape /\ Working
  BY BookFillsShape DEF ExitInvariant
<1>2. PICK e \in Exits : worker[w].exit = e /\ worker[w].step = "listed"
  BY <1>1 DEF BookFills, Working
<1>3. UNCHANGED <<request, transport, venue, preempted, rows>>
  BY DEF BookFills, Goto, Halt, Idle, books
<1>4. /\ \A v \in Workers \ {w} : worker'[v] = worker[v]
      /\ \A f \in Exits \ {e} : reservation'[f] = reservation[f]
  BY <1>1, <1>2 DEF BookFills, Goto, Halt, Idle, Shape
<1>5. /\ worker'[w].step \notin {"idle", "read"} => worker'[w].exit = e
      /\ \/ worker'[w].step \in {"idle", "orphan"}
         \/ worker'[w].step = "booked" /\ worker'[w].state = worker[w].state
      /\ reservation'[e].status \in {reservation[e].status, "FILLED", "PARTIALLY_FILLED"}
  <2>1. worker'[w].step \notin {"idle", "read"} => worker'[w].exit = e
    BY <1>1, <1>2, <1>3 DEF BookFills, Goto, Halt, Idle, Shape, AnyReservation, HoldingStatuses,
       AnyWorker, SubmitSteps, ReconcileSteps
  <2>2. \/ worker'[w].step \in {"idle", "orphan"}
        \/ worker'[w].step = "booked" /\ worker'[w].state = worker[w].state
    <3>1. worker[w] \in AnyWorker
      BY <1>1 DEF Shape
    <3>2. \/ worker'[w] = Idle
          \/ worker'[w] = [worker[w] EXCEPT !.step = "booked"]
          \/ worker'[w] = [worker[w] EXCEPT !.step = "orphan"]
      BY <1>1 DEF BookFills, Goto, Halt, Shape
    <3>3. CASE worker'[w] = Idle
      BY <3>3 DEF Idle
    <3>4. CASE worker'[w] = [worker[w] EXCEPT !.step = "booked"]
      BY <3>1, <3>4 DEF AnyWorker
    <3>5. CASE worker'[w] = [worker[w] EXCEPT !.step = "orphan"]
      BY <3>1, <3>5 DEF AnyWorker
    <3> QED BY <3>2, <3>3, <3>4, <3>5
  <2>3. reservation'[e].status \in {reservation[e].status, "FILLED", "PARTIALLY_FILLED"}
    BY <1>1, <1>2, <1>3 DEF BookFills, Goto, Halt, Idle, Shape, AnyReservation, HoldingStatuses,
       AnyWorker, SubmitSteps, ReconcileSteps
  <2> QED BY <2>1, <2>2, <2>3
<1>6. ExitInvariantOf(e)
  BY DEF ExitInvariant
<1>7. ExitInvariantOf(e)'
  <2> USE DEF ExitInvariantOf, Exclusive, ThreadOK, FinalOK, StepOK, Final, Submitting, Busy,
              SubmitSteps, ReconcileSteps, FinalStatuses, PendingStatuses
  <2>1. Exclusive(e)'
    BY <1>2, <1>3, <1>4, <1>5, <1>6
  <2>2. ThreadOK(e)'
    BY <1>2, <1>3, <1>4, <1>5, <1>6
  <2>3. FinalOK(e)'
    BY <1>2, <1>3, <1>4, <1>5, <1>6
  <2>4. ASSUME NEW v \in Workers, Busy(v, e)'
        PROVE  StepOK(v, e)'
    <3>1. CASE v = w
      BY <1>2, <1>3, <1>4, <1>5, <1>6, <2>4, <3>1
    <3>2. CASE v # w
      BY <1>2, <1>3, <1>4, <1>5, <1>6, <2>4, <3>2
    <3> QED BY <3>1, <3>2
  <2> QED BY <2>1, <2>2, <2>3, <2>4
<1>8. Working'
  BY <1>1, <1>2, <1>4, <1>5 DEF Working
<1>9. ASSUME NEW f \in Exits \ {e} PROVE Elsewhere(f)
  BY <1>2, <1>3, <1>4, <1>5 DEF Elsewhere, Busy
<1> QED BY <1>1, <1>7, <1>8, <1>9, OneExit

\* The rows of the projection.
LEMMA ReadRowsKeeps ==
    ASSUME ExitInvariant, NEW w \in Workers, ReadRows(w)
    PROVE  ExitInvariant'
<1>1. Shape' /\ Shape /\ Working
  BY ReadRowsShape DEF ExitInvariant
<1>2. PICK e \in Exits : worker[w].exit = e /\ worker[w].step = "booked"
  BY <1>1 DEF ReadRows, Working
<1>3. UNCHANGED <<request, reservation, transport, venue, preempted>>
  BY DEF ReadRows, Goto, Halt, Idle, Final, books
<1>4. /\ \A v \in Workers \ {w} : worker'[v] = worker[v]
      /\ \A v \in Workers \ {w} : rows'[v] = rows[v]
  BY <1>1, <1>2 DEF ReadRows, Goto, Halt, Idle, Final, Shape
<1>5. /\ worker'[w].step \notin {"idle", "read"} => worker'[w].exit = e
      /\ \/ worker'[w].step \in {"idle", "orphan"}
         \/ /\ worker'[w].step = "project" /\ worker'[w].state = worker[w].state
            /\ rows'[w] \in AnyRows /\ rows'[w].request.status \notin FinalStatuses
  <2>1. worker'[w].step \notin {"idle", "read"} => worker'[w].exit = e
    BY <1>1, <1>2, <1>3
       DEF ReadRows, Goto, Halt, Idle, Final, Shape, AnyRows, AnyWorker, SubmitSteps,
       ReconcileSteps
  <2>2. \/ worker'[w].step \in {"idle", "orphan"}
        \/ /\ worker'[w].step = "project" /\ worker'[w].state = worker[w].state
           /\ rows'[w] \in AnyRows /\ rows'[w].request.status \notin FinalStatuses
    <3>1. worker[w] \in AnyWorker /\ rows'[w] \in {NULL} \cup AnyRows
      BY <1>1 DEF Shape
    <3>2. CASE Final(e) \/ reservation[e].status \in {"SETTLED", "RELEASED"}
      <4>1. worker'[w] = Idle
        BY <1>1, <1>2, <3>2 DEF ReadRows, Halt, Shape
      <4> QED BY <4>1 DEF Idle
    <3>3. CASE worker'[w] = [worker[w] EXCEPT !.step = "orphan"]
      BY <3>1, <3>3 DEF AnyWorker
    <3>4. CASE /\ ~(Final(e) \/ reservation[e].status \in {"SETTLED", "RELEASED"})
               /\ worker'[w] # [worker[w] EXCEPT !.step = "orphan"]
      <4> DEFINE read == [request |-> request[e], lot |-> lot, booked |-> reservation[e].filled]
      <4>1. /\ worker'[w] = [worker[w] EXCEPT !.step = "project"]
            /\ rows'[w] = read
        BY <1>1, <1>2, <3>4 DEF ReadRows, Goto, Shape
      <4>2. request[e] \in AnyRequest /\ lot \in AnyLot /\ reservation[e].filled \in Int
        BY <1>1 DEF Shape, AnyReservation
      <4>3. read \in AnyRows
        BY <4>2 DEF AnyRows
      <4>4. rows'[w].request.status \notin FinalStatuses
        BY <3>4, <4>1 DEF Final
      <4>5. worker'[w].step = "project" /\ worker'[w].state = worker[w].state
        BY <3>1, <4>1 DEF AnyWorker
      <4> QED BY <4>1, <4>3, <4>4, <4>5
    <3> QED BY <3>2, <3>3, <3>4
  <2> QED BY <2>1, <2>2
<1>6. ExitInvariantOf(e)
  BY DEF ExitInvariant
<1>7. ExitInvariantOf(e)'
  <2> USE DEF ExitInvariantOf, Exclusive, ThreadOK, FinalOK, StepOK, Final, Submitting, Busy,
              SubmitSteps, ReconcileSteps, FinalStatuses, PendingStatuses
  <2>1. Exclusive(e)'
    BY <1>2, <1>3, <1>4, <1>5, <1>6
  <2>2. ThreadOK(e)'
    BY <1>2, <1>3, <1>4, <1>5, <1>6
  <2>3. FinalOK(e)'
    BY <1>2, <1>3, <1>4, <1>5, <1>6
  <2>4. ASSUME NEW v \in Workers, Busy(v, e)'
        PROVE  StepOK(v, e)'
    <3>1. CASE v = w
      BY <1>2, <1>3, <1>4, <1>5, <1>6, <2>4, <3>1
    <3>2. CASE v # w
      BY <1>2, <1>3, <1>4, <1>5, <1>6, <2>4, <3>2
    <3> QED BY <3>1, <3>2
  <2> QED BY <2>1, <2>2, <2>3, <2>4
<1>8. Working'
  BY <1>1, <1>2, <1>4, <1>5 DEF Working
<1>9. ASSUME NEW f \in Exits \ {e} PROVE Elsewhere(f)
  BY <1>2, <1>3, <1>4, <1>5 DEF Elsewhere, Busy
<1> QED BY <1>1, <1>7, <1>8, <1>9, OneExit

\* The projection.
LEMMA ProjectKeeps ==
    ASSUME ExitInvariant, NEW w \in Workers, Project(w)
    PROVE  ExitInvariant'
<1>1. Shape' /\ Shape /\ Working
  BY ProjectShape DEF ExitInvariant
<1>2. PICK e \in Exits : worker[w].exit = e /\ worker[w].step = "project"
  BY <1>1 DEF Project, Working
<1>3. UNCHANGED <<reservation, transport, venue, preempted>>
  BY DEF Project, Halt, Idle, Releasing, books
<1>4. /\ \A v \in Workers \ {w} : worker'[v] = worker[v]
      /\ \A v \in Workers \ {w} : rows'[v] = rows[v]
      /\ \A f \in Exits \ {e} : request'[f] = request[f]
  BY <1>1, <1>2 DEF Project, Halt, Idle, Releasing, Shape
<1>5. /\ worker'[w].step \notin {"idle", "read"} => worker'[w].exit = e
      /\ \/ worker'[w].step = "idle"
         \/ worker'[w].step = "releasing" /\ worker'[w].to # "NONE"
      /\ request[e].status \notin FinalStatuses
      /\ request'[e].order = request[e].order
      /\ request'[e].status \in {"SETTLED", "SETTLED_PARTIAL", "UNKNOWN", "OPEN", "CANCELED", "FAILED"}
  <2>1. worker'[w].step \notin {"idle", "read"} => worker'[w].exit = e
    <3>1. worker[w] \in AnyWorker
      BY <1>1 DEF Shape
    <3>2. \/ worker'[w] = Idle
          \/ worker'[w] = [worker[w] EXCEPT !.step = "releasing", !.to = "SETTLED"]
          \/ worker'[w] = [worker[w] EXCEPT !.step = "releasing", !.to = "RELEASED"]
      BY <1>1 DEF Project, Halt, Releasing, Shape
    <3>3. CASE worker'[w] = Idle
      BY <3>3 DEF Idle
    <3>4. CASE worker'[w] = [worker[w] EXCEPT !.step = "releasing", !.to = "SETTLED"]
      BY <1>2, <3>1, <3>4 DEF AnyWorker
    <3>5. CASE worker'[w] = [worker[w] EXCEPT !.step = "releasing", !.to = "RELEASED"]
      BY <1>2, <3>1, <3>5 DEF AnyWorker
    <3> QED BY <3>2, <3>3, <3>4, <3>5
  <2>2. \/ worker'[w].step = "idle"
        \/ worker'[w].step = "releasing" /\ worker'[w].to # "NONE"
    <3>1. worker[w] \in AnyWorker
      BY <1>1 DEF Shape
    <3>2. \/ worker'[w] = Idle
          \/ worker'[w] = [worker[w] EXCEPT !.step = "releasing", !.to = "SETTLED"]
          \/ worker'[w] = [worker[w] EXCEPT !.step = "releasing", !.to = "RELEASED"]
      BY <1>1 DEF Project, Halt, Releasing, Shape
    <3>3. CASE worker'[w] = Idle
      BY <3>3 DEF Idle
    <3>4. CASE worker'[w] = [worker[w] EXCEPT !.step = "releasing", !.to = "SETTLED"]
      BY <1>2, <3>1, <3>4 DEF AnyWorker
    <3>5. CASE worker'[w] = [worker[w] EXCEPT !.step = "releasing", !.to = "RELEASED"]
      BY <1>2, <3>1, <3>5 DEF AnyWorker
    <3> QED BY <3>2, <3>3, <3>4, <3>5
  <2>3. request[e].status \notin FinalStatuses
    <3>1. /\ request[e] \in AnyRequest /\ rows[w] \in AnyRows
          /\ rows[w].request.status \notin FinalStatuses
      BY <1>1, <1>2 DEF Shape, ExitInvariant, ExitInvariantOf, Busy, StepOK
    <3>2. [request[e] EXCEPT !.order = TRUE] = [rows[w].request EXCEPT !.order = TRUE]
      BY <1>2 DEF Project, NothingMoved
    <3>3. request[e].status = [request[e] EXCEPT !.order = TRUE].status
      BY <3>1 DEF AnyRequest
    <3>4. rows[w].request \in AnyRequest
      BY <3>1 DEF AnyRows
    <3>5. rows[w].request.status = [rows[w].request EXCEPT !.order = TRUE].status
      BY <3>4 DEF AnyRequest
    <3> QED BY <3>1, <3>2, <3>3, <3>5
  <2>4. request'[e].order = request[e].order
    BY <1>1, <1>2, <1>3
       DEF Project, Halt, Idle, Releasing, Shape, AnyRequest, Statuses, FinalStatuses,
       AnyRows, AnyWorker, SubmitSteps, ReconcileSteps
  <2>5. request'[e].status \in {"SETTLED", "SETTLED_PARTIAL", "UNKNOWN", "OPEN", "CANCELED", "FAILED"}
    <3>1. /\ request[e] \in AnyRequest /\ worker[w] \in AnyWorker
          /\ worker[w].state # "NONE"
      BY <1>1, <1>2 DEF Shape, ExitInvariant, ExitInvariantOf, Busy, StepOK
    <3>2. Proposed(w) \in {"SETTLED", "SETTLED_PARTIAL", "UNKNOWN", "OPEN", "CANCELED", "FAILED"}
      BY <3>1 DEF Proposed, AnyWorker
    <3>3. request'[e] = [request[e] EXCEPT !.status = Proposed(w), !.filled = rows[w].booked]
      BY <1>1, <1>2 DEF Project, Shape
    <3>4. request'[e].status = Proposed(w)
      BY <3>1, <3>3 DEF AnyRequest
    <3> QED BY <3>2, <3>4
  <2> QED BY <2>1, <2>2, <2>3, <2>4, <2>5
<1>6. ExitInvariantOf(e)
  BY DEF ExitInvariant
<1>7. ExitInvariantOf(e)'
  <2> USE DEF ExitInvariantOf, Exclusive, ThreadOK, FinalOK, StepOK, Final, Submitting, Busy,
              SubmitSteps, ReconcileSteps, FinalStatuses, PendingStatuses
  <2>1. Exclusive(e)'
    BY <1>2, <1>3, <1>4, <1>5, <1>6
  <2>2. ThreadOK(e)'
    BY <1>2, <1>3, <1>4, <1>5, <1>6
  <2>3. FinalOK(e)'
    BY <1>2, <1>3, <1>4, <1>5, <1>6
  <2>4. ASSUME NEW v \in Workers, Busy(v, e)'
        PROVE  StepOK(v, e)'
    <3>1. CASE v = w
      BY <1>2, <1>3, <1>4, <1>5, <1>6, <2>4, <3>1
    <3>2. CASE v # w
      BY <1>2, <1>3, <1>4, <1>5, <1>6, <2>4, <3>2
    <3> QED BY <3>1, <3>2
  <2> QED BY <2>1, <2>2, <2>3, <2>4
<1>8. Working'
  BY <1>1, <1>2, <1>4, <1>5 DEF Working
<1>9. ASSUME NEW f \in Exits \ {e} PROVE Elsewhere(f)
  BY <1>2, <1>3, <1>4, <1>5 DEF Elsewhere, Busy
<1> QED BY <1>1, <1>7, <1>8, <1>9, OneExit

\* Its compare-and-set misses.
LEMMA ProjectMissesKeeps ==
    ASSUME ExitInvariant, NEW w \in Workers, ProjectMisses(w)
    PROVE  ExitInvariant'
<1>1. Shape' /\ Shape /\ Working
  BY ProjectMissesShape DEF ExitInvariant
<1>2. PICK e \in Exits : worker[w].exit = e /\ worker[w].step = "project"
  BY <1>1 DEF ProjectMisses, Working
<1>3. UNCHANGED <<request, reservation, transport, venue, preempted>>
  BY DEF ProjectMisses, Goto, books
<1>4. /\ \A v \in Workers \ {w} : worker'[v] = worker[v]
      /\ \A v \in Workers \ {w} : rows'[v] = rows[v]
  BY <1>1, <1>2 DEF ProjectMisses, Goto, Shape
<1>5. /\ worker'[w].step \notin {"idle", "read"} => worker'[w].exit = e
      /\ \/ worker'[w].step = "orphan"
         \/ worker'[w].step = "booked" /\ worker'[w].state = worker[w].state
  BY <1>1, <1>2, <1>3
     DEF ProjectMisses, Goto, ExitInvariant, ExitInvariantOf, Busy, StepOK, ThreadOK,
     Shape, AnyRows, AnyWorker, SubmitSteps, ReconcileSteps
<1>6. ExitInvariantOf(e)
  BY DEF ExitInvariant
<1>7. ExitInvariantOf(e)'
  <2> USE DEF ExitInvariantOf, Exclusive, ThreadOK, FinalOK, StepOK, Final, Submitting, Busy,
              SubmitSteps, ReconcileSteps, FinalStatuses, PendingStatuses
  <2>1. Exclusive(e)'
    BY <1>2, <1>3, <1>4, <1>5, <1>6
  <2>2. ThreadOK(e)'
    BY <1>2, <1>3, <1>4, <1>5, <1>6
  <2>3. FinalOK(e)'
    BY <1>2, <1>3, <1>4, <1>5, <1>6
  <2>4. ASSUME NEW v \in Workers, Busy(v, e)'
        PROVE  StepOK(v, e)'
    <3>1. CASE v = w
      BY <1>2, <1>3, <1>4, <1>5, <1>6, <2>4, <3>1
    <3>2. CASE v # w
      BY <1>2, <1>3, <1>4, <1>5, <1>6, <2>4, <3>2
    <3> QED BY <3>1, <3>2
  <2> QED BY <2>1, <2>2, <2>3, <2>4
<1>8. Working'
  BY <1>1, <1>2, <1>4, <1>5 DEF Working
<1>9. ASSUME NEW f \in Exits \ {e} PROVE Elsewhere(f)
  BY <1>2, <1>3, <1>4, <1>5 DEF Elsewhere, Busy
<1> QED BY <1>1, <1>7, <1>8, <1>9, OneExit

LEMMA PrepareOrderKeeps ==
    ASSUME ExitInvariant, NEW e \in Exits, PrepareOrder(e)
    PROVE  ExitInvariant'
<1>1. Shape' /\ Shape /\ Working
  BY PrepareOrderShape DEF ExitInvariant
<1>2. transport[e].step = "called"
  BY DEF PrepareOrder
<1>3. UNCHANGED <<request, reservation, venue, preempted, rows, worker>>
  BY DEF PrepareOrder, Answers, ThreadOnly, books
<1>4. /\ \A f \in Exits \ {e} : transport'[f] = transport[f]
  BY <1>1, <1>2 DEF PrepareOrder, Answers, ThreadOnly, Shape
<1>5. /\ \/ /\ transport'[e].step = "signed" /\ transport'[e].result = transport[e].result
            /\ transport'[e].cancelled = transport[e].cancelled
         \/ transport'[e].step = "done" /\ transport'[e].result = "REFUSED"
  <2>1. \/ /\ transport'[e].step = "signed" /\ transport'[e].result = transport[e].result
           /\ transport'[e].cancelled = transport[e].cancelled
        \/ transport'[e].step = "done" /\ transport'[e].result = "REFUSED"
    <3>1. transport[e] \in Threads
      BY <1>1, <1>2 DEF Shape
    <3>2. \/ transport'[e] = [transport[e] EXCEPT !.step = "signed"]
          \/ transport'[e] = [transport[e] EXCEPT !.step = "done", !.result = "REFUSED"]
      BY <1>1, <1>2 DEF PrepareOrder, Answers, Shape
    <3>3. CASE transport'[e] = [transport[e] EXCEPT !.step = "signed"]
      BY <3>1, <3>3 DEF Threads
    <3>4. CASE transport'[e] = [transport[e] EXCEPT !.step = "done", !.result = "REFUSED"]
      BY <3>1, <3>4 DEF Threads
    <3> QED BY <3>2, <3>3, <3>4
  <2> QED BY <2>1
<1>6. ExitInvariantOf(e)
  BY DEF ExitInvariant
<1>7. ExitInvariantOf(e)'
  <2> USE DEF ExitInvariantOf, Exclusive, ThreadOK, FinalOK, StepOK, Final, Submitting, Busy,
              SubmitSteps, ReconcileSteps, FinalStatuses, PendingStatuses
  <2>1. Exclusive(e)'
    BY <1>2, <1>3, <1>4, <1>5, <1>6
  <2>2. ThreadOK(e)'
    BY <1>2, <1>3, <1>4, <1>5, <1>6
  <2>3. FinalOK(e)'
    BY <1>2, <1>3, <1>4, <1>5, <1>6
  <2>4. ASSUME NEW v \in Workers, Busy(v, e)'
        PROVE  StepOK(v, e)'
    BY <1>2, <1>3, <1>4, <1>5, <1>6, <2>4
  <2> QED BY <2>1, <2>2, <2>3, <2>4
<1>8. Working'
  BY <1>1, <1>3 DEF Working
<1>9. ASSUME NEW f \in Exits \ {e} PROVE Elsewhere(f)
  BY <1>2, <1>3, <1>4, <1>5 DEF Elsewhere, Busy
<1> QED BY <1>1, <1>7, <1>8, <1>9, OneExit

LEMMA FenceRefusesKeeps ==
    ASSUME ExitInvariant, NEW e \in Exits, FenceRefuses(e)
    PROVE  ExitInvariant'
<1>1. Shape' /\ Shape /\ Working
  BY FenceRefusesShape DEF ExitInvariant
<1>2. transport[e].step \in {"signed", "marked"}
  BY DEF FenceRefuses
<1>3. UNCHANGED <<request, reservation, venue, preempted, rows, worker>>
  BY DEF FenceRefuses, Answers, ThreadOnly, books
<1>4. /\ \A f \in Exits \ {e} : transport'[f] = transport[f]
  BY <1>1, <1>2 DEF FenceRefuses, Answers, ThreadOnly, Shape
<1>5. /\ transport'[e].step = "done"
      /\ transport'[e].result \in {"REFUSED", "FAILED"}
  BY <1>1, <1>2, <1>3 DEF FenceRefuses, Answers, ThreadOnly, ExitInvariant, ExitInvariantOf, Busy,
     StepOK, ThreadOK, Shape, Threads
<1>6. ExitInvariantOf(e)
  BY DEF ExitInvariant
<1>7. ExitInvariantOf(e)'
  <2> USE DEF ExitInvariantOf, Exclusive, ThreadOK, FinalOK, StepOK, Final, Submitting, Busy,
              SubmitSteps, ReconcileSteps, FinalStatuses, PendingStatuses
  <2>1. Exclusive(e)'
    BY <1>2, <1>3, <1>4, <1>5, <1>6
  <2>2. ThreadOK(e)'
    BY <1>2, <1>3, <1>4, <1>5, <1>6
  <2>3. FinalOK(e)'
    BY <1>2, <1>3, <1>4, <1>5, <1>6
  <2>4. ASSUME NEW v \in Workers, Busy(v, e)'
        PROVE  StepOK(v, e)'
    BY <1>2, <1>3, <1>4, <1>5, <1>6, <2>4
  <2> QED BY <2>1, <2>2, <2>3, <2>4
<1>8. Working'
  BY <1>1, <1>3 DEF Working
<1>9. ASSUME NEW f \in Exits \ {e} PROVE Elsewhere(f)
  BY <1>2, <1>3, <1>4, <1>5 DEF Elsewhere, Busy
<1> QED BY <1>1, <1>7, <1>8, <1>9, OneExit

LEMMA FirstFenceKeeps ==
    ASSUME ExitInvariant, NEW e \in Exits, FirstFence(e)
    PROVE  ExitInvariant'
<1>1. Shape' /\ Shape /\ Working
  BY FirstFenceShape DEF ExitInvariant
<1>2. transport[e].step = "signed"
  BY DEF FirstFence
<1>3. UNCHANGED <<request, reservation, venue, preempted, rows, worker>>
  BY DEF FirstFence, ThreadOnly, books
<1>4. /\ \A f \in Exits \ {e} : transport'[f] = transport[f]
  BY <1>1, <1>2 DEF FirstFence, ThreadOnly, Shape
<1>5. /\ transport'[e].step = "fenced"
      /\ transport'[e].cancelled = transport[e].cancelled
      /\ transport'[e].result = transport[e].result
  BY <1>1, <1>2, <1>3 DEF FirstFence, ThreadOnly, ExitInvariant, ExitInvariantOf, Busy, StepOK,
     ThreadOK, Shape, Threads
<1>6. ExitInvariantOf(e)
  BY DEF ExitInvariant
<1>7. ExitInvariantOf(e)'
  <2> USE DEF ExitInvariantOf, Exclusive, ThreadOK, FinalOK, StepOK, Final, Submitting, Busy,
              SubmitSteps, ReconcileSteps, FinalStatuses, PendingStatuses
  <2>1. Exclusive(e)'
    BY <1>2, <1>3, <1>4, <1>5, <1>6
  <2>2. ThreadOK(e)'
    BY <1>2, <1>3, <1>4, <1>5, <1>6
  <2>3. FinalOK(e)'
    BY <1>2, <1>3, <1>4, <1>5, <1>6
  <2>4. ASSUME NEW v \in Workers, Busy(v, e)'
        PROVE  StepOK(v, e)'
    BY <1>2, <1>3, <1>4, <1>5, <1>6, <2>4
  <2> QED BY <2>1, <2>2, <2>3, <2>4
<1>8. Working'
  BY <1>1, <1>3 DEF Working
<1>9. ASSUME NEW f \in Exits \ {e} PROVE Elsewhere(f)
  BY <1>2, <1>3, <1>4, <1>5 DEF Elsewhere, Busy
<1> QED BY <1>1, <1>7, <1>8, <1>9, OneExit

LEMMA SendStartsKeeps ==
    ASSUME ExitInvariant, NEW e \in Exits, SendStarts(e)
    PROVE  ExitInvariant'
<1>1. Shape' /\ Shape /\ Working
  BY SendStartsShape DEF ExitInvariant
<1>2. transport[e].step = "fenced"
  BY DEF SendStarts
<1>3. UNCHANGED <<request, reservation, venue, preempted, rows, worker>>
  BY DEF SendStarts, Answers, ThreadOnly, books
<1>4. /\ \A f \in Exits \ {e} : transport'[f] = transport[f]
  BY <1>1, <1>2 DEF SendStarts, Answers, ThreadOnly, Shape
<1>5. /\ \/ transport'[e].step = "done" /\ transport'[e].result = "REFUSED"
         \/ /\ ~transport[e].cancelled
            /\ transport'[e].step = "started" /\ transport'[e].result = transport[e].result
  <2>1. \/ transport'[e].step = "done" /\ transport'[e].result = "REFUSED"
        \/ /\ ~transport[e].cancelled
           /\ transport'[e].step = "started" /\ transport'[e].result = transport[e].result
    <3>1. transport[e] \in Threads
      BY <1>1, <1>2 DEF Shape
    <3>2. \/ ~transport[e].cancelled /\ transport'[e] = [transport[e] EXCEPT !.step = "started"]
          \/ transport'[e] = [transport[e] EXCEPT !.step = "done", !.result = "REFUSED"]
      BY <1>1, <1>2 DEF SendStarts, Answers, Shape
    <3> QED BY <1>2, <3>1, <3>2 DEF Threads
  <2> QED BY <2>1
<1>6. ExitInvariantOf(e)
  BY DEF ExitInvariant
<1>7. ExitInvariantOf(e)'
  <2> USE DEF ExitInvariantOf, Exclusive, ThreadOK, FinalOK, StepOK, Final, Submitting, Busy,
              SubmitSteps, ReconcileSteps, FinalStatuses, PendingStatuses
  <2>1. Exclusive(e)'
    BY <1>2, <1>3, <1>4, <1>5, <1>6
  <2>2. ThreadOK(e)'
    BY <1>2, <1>3, <1>4, <1>5, <1>6
  <2>3. FinalOK(e)'
    BY <1>2, <1>3, <1>4, <1>5, <1>6
  <2>4. ASSUME NEW v \in Workers, Busy(v, e)'
        PROVE  StepOK(v, e)'
    BY <1>2, <1>3, <1>4, <1>5, <1>6, <2>4
  <2> QED BY <2>1, <2>2, <2>3, <2>4
<1>8. Working'
  BY <1>1, <1>3 DEF Working
<1>9. ASSUME NEW f \in Exits \ {e} PROVE Elsewhere(f)
  BY <1>2, <1>3, <1>4, <1>5 DEF Elsewhere, Busy
<1> QED BY <1>1, <1>7, <1>8, <1>9, OneExit

LEMMA MarkSendStartedKeeps ==
    ASSUME ExitInvariant, NEW e \in Exits, MarkSendStarted(e)
    PROVE  ExitInvariant'
<1>1. Shape' /\ Shape /\ Working
  BY MarkSendStartedShape DEF ExitInvariant
<1>2. transport[e].step = "started"
  BY DEF MarkSendStarted
<1>3. UNCHANGED <<reservation, venue, preempted, rows, worker>>
  BY DEF MarkSendStarted, books
<1>4. /\ \A f \in Exits \ {e} : request'[f] = request[f]
      /\ \A f \in Exits \ {e} : transport'[f] = transport[f]
  BY <1>1, <1>2 DEF MarkSendStarted, Shape
<1>5. /\ transport'[e].step = "marked"
      /\ transport'[e].result = transport[e].result
      /\ request'[e].status = "SUBMITTING"
      /\ request'[e].order = request[e].order
  BY <1>1, <1>2, <1>3 DEF MarkSendStarted, ExitInvariant, ExitInvariantOf, Busy, StepOK, ThreadOK,
     Shape, AnyRequest, Statuses, PendingStatuses, FinalStatuses, Threads
<1>6. ExitInvariantOf(e)
  BY DEF ExitInvariant
<1>7. ExitInvariantOf(e)'
  <2> USE DEF ExitInvariantOf, Exclusive, ThreadOK, FinalOK, StepOK, Final, Submitting, Busy,
              SubmitSteps, ReconcileSteps, FinalStatuses, PendingStatuses
  <2>1. Exclusive(e)'
    BY <1>2, <1>3, <1>4, <1>5, <1>6
  <2>2. ThreadOK(e)'
    BY <1>2, <1>3, <1>4, <1>5, <1>6
  <2>3. FinalOK(e)'
    BY <1>2, <1>3, <1>4, <1>5, <1>6
  <2>4. ASSUME NEW v \in Workers, Busy(v, e)'
        PROVE  StepOK(v, e)'
    BY <1>2, <1>3, <1>4, <1>5, <1>6, <2>4
  <2> QED BY <2>1, <2>2, <2>3, <2>4
<1>8. Working'
  BY <1>1, <1>3 DEF Working
<1>9. ASSUME NEW f \in Exits \ {e} PROVE Elsewhere(f)
  BY <1>2, <1>3, <1>4, <1>5 DEF Elsewhere, Busy
<1> QED BY <1>1, <1>7, <1>8, <1>9, OneExit

LEMMA SecondFenceKeeps ==
    ASSUME ExitInvariant, NEW e \in Exits, SecondFence(e)
    PROVE  ExitInvariant'
<1>1. Shape' /\ Shape /\ Working
  BY SecondFenceShape DEF ExitInvariant
<1>2. transport[e].step = "marked"
  BY DEF SecondFence
<1>3. UNCHANGED <<request, reservation, venue, preempted, rows, worker>>
  BY DEF SecondFence, ThreadOnly, books
<1>4. /\ \A f \in Exits \ {e} : transport'[f] = transport[f]
  BY <1>1, <1>2 DEF SecondFence, ThreadOnly, Shape
<1>5. /\ transport'[e].step = "cleared"
      /\ transport'[e].result = transport[e].result
  BY <1>1, <1>2, <1>3 DEF SecondFence, ThreadOnly, ExitInvariant, ExitInvariantOf, Busy, StepOK,
     ThreadOK, Shape, Threads
<1>6. ExitInvariantOf(e)
  BY DEF ExitInvariant
<1>7. ExitInvariantOf(e)'
  <2> USE DEF ExitInvariantOf, Exclusive, ThreadOK, FinalOK, StepOK, Final, Submitting, Busy,
              SubmitSteps, ReconcileSteps, FinalStatuses, PendingStatuses
  <2>1. Exclusive(e)'
    BY <1>2, <1>3, <1>4, <1>5, <1>6
  <2>2. ThreadOK(e)'
    BY <1>2, <1>3, <1>4, <1>5, <1>6
  <2>3. FinalOK(e)'
    BY <1>2, <1>3, <1>4, <1>5, <1>6
  <2>4. ASSUME NEW v \in Workers, Busy(v, e)'
        PROVE  StepOK(v, e)'
    BY <1>2, <1>3, <1>4, <1>5, <1>6, <2>4
  <2> QED BY <2>1, <2>2, <2>3, <2>4
<1>8. Working'
  BY <1>1, <1>3 DEF Working
<1>9. ASSUME NEW f \in Exits \ {e} PROVE Elsewhere(f)
  BY <1>2, <1>3, <1>4, <1>5 DEF Elsewhere, Busy
<1> QED BY <1>1, <1>7, <1>8, <1>9, OneExit

LEMMA PostKeeps ==
    ASSUME ExitInvariant, NEW e \in Exits, Post(e)
    PROVE  ExitInvariant'
<1>1. Shape' /\ Shape /\ Working
  BY PostShape DEF ExitInvariant
<1>2. transport[e].step = "cleared"
  BY DEF Post
<1>3. UNCHANGED <<request, reservation, preempted, rows, worker>>
  BY DEF Post, Answers, books
<1>4. /\ \A f \in Exits \ {e} : transport'[f] = transport[f]
      /\ \A f \in Exits \ {e} : venue'[f] = venue[f]
  BY <1>1, <1>2 DEF Post, Answers, Shape
<1>5. /\ transport'[e].step = "done"
      /\ \/ venue'[e].state = "OPEN" /\ transport'[e].result \in {"ACCEPTED", "FAILED"}
         \/ /\ venue'[e].state = venue[e].state
            /\ transport'[e].result \in {"REJECTED", "REFUSED", "FAILED"}
  <2>1. transport'[e].step = "done"
    <3>1. transport[e] \in Threads
      BY <1>1, <1>2 DEF Shape
    <3>2. \/ transport'[e] = [transport[e] EXCEPT !.step = "done", !.result = "ACCEPTED"]
          \/ transport'[e] = [transport[e] EXCEPT !.step = "done", !.result = "REJECTED"]
          \/ transport'[e] = [transport[e] EXCEPT !.step = "done", !.result = "REFUSED"]
          \/ transport'[e] = [transport[e] EXCEPT !.step = "done", !.result = "FAILED"]
      BY <1>1, <1>2 DEF Post, Answers, Shape
    <3> QED BY <1>2, <3>1, <3>2 DEF Threads
  <2>2. \/ venue'[e].state = "OPEN" /\ transport'[e].result \in {"ACCEPTED", "FAILED"}
        \/ /\ venue'[e].state = venue[e].state
           /\ transport'[e].result \in {"REJECTED", "REFUSED", "FAILED"}
    <3>1. transport[e] \in Threads /\ venue[e] \in AnyOrder
      BY <1>1 DEF Shape
    <3>2. \/ /\ venue'[e] = [venue[e] EXCEPT !.state = "OPEN"]
             /\ \E result \in {"ACCEPTED", "FAILED"} :
                   transport'[e] = [transport[e] EXCEPT !.step = "done", !.result = result]
          \/ /\ venue' = venue
             /\ \E result \in {"REJECTED", "REFUSED", "FAILED"} :
                   transport'[e] = [transport[e] EXCEPT !.step = "done", !.result = result]
      BY <1>1 DEF Post, Answers, Shape
    <3> QED BY <3>1, <3>2 DEF Threads, AnyOrder
  <2> QED BY <2>1, <2>2
<1>6. ExitInvariantOf(e)
  BY DEF ExitInvariant
<1>7. ExitInvariantOf(e)'
  <2> USE DEF ExitInvariantOf, Exclusive, ThreadOK, FinalOK, StepOK, Final, Submitting, Busy,
              SubmitSteps, ReconcileSteps, FinalStatuses, PendingStatuses
  <2>1. Exclusive(e)'
    BY <1>2, <1>3, <1>4, <1>5, <1>6
  <2>2. ThreadOK(e)'
    BY <1>2, <1>3, <1>4, <1>5, <1>6
  <2>3. FinalOK(e)'
    BY <1>2, <1>3, <1>4, <1>5, <1>6
  <2>4. ASSUME NEW v \in Workers, Busy(v, e)'
        PROVE  StepOK(v, e)'
    BY <1>2, <1>3, <1>4, <1>5, <1>6, <2>4
  <2> QED BY <2>1, <2>2, <2>3, <2>4
<1>8. Working'
  BY <1>1, <1>3 DEF Working
<1>9. ASSUME NEW f \in Exits \ {e} PROVE Elsewhere(f)
  BY <1>2, <1>3, <1>4, <1>5 DEF Elsewhere, Busy
<1> QED BY <1>1, <1>7, <1>8, <1>9, OneExit

LEMMA MatchKeeps ==
    ASSUME ExitInvariant, NEW e \in Exits, Match(e)
    PROVE  ExitInvariant'
<1>1. Shape' /\ Shape /\ Working
  BY MatchShape DEF ExitInvariant
<1>3. UNCHANGED <<request, reservation, transport, preempted, rows, worker>>
  BY DEF Match, VenueOnly, books
<1>4. /\ \A f \in Exits \ {e} : venue'[f] = venue[f]
  BY <1>1 DEF Match, VenueOnly, Shape
<1>5. /\ venue'[e].state = venue[e].state
  BY <1>1, <1>3 DEF Match, VenueOnly, ExitInvariant, ExitInvariantOf, Busy, StepOK, ThreadOK,
     Shape, AnyOrder
<1>6. ExitInvariantOf(e)
  BY DEF ExitInvariant
<1>7. ExitInvariantOf(e)'
  <2> USE DEF ExitInvariantOf, Exclusive, ThreadOK, FinalOK, StepOK, Final, Submitting, Busy,
              SubmitSteps, ReconcileSteps, FinalStatuses, PendingStatuses
  <2>1. Exclusive(e)'
    BY <1>3, <1>4, <1>5, <1>6
  <2>2. ThreadOK(e)'
    BY <1>3, <1>4, <1>5, <1>6
  <2>3. FinalOK(e)'
    BY <1>3, <1>4, <1>5, <1>6
  <2>4. ASSUME NEW v \in Workers, Busy(v, e)'
        PROVE  StepOK(v, e)'
    BY <1>3, <1>4, <1>5, <1>6, <2>4
  <2> QED BY <2>1, <2>2, <2>3, <2>4
<1>8. Working'
  BY <1>1, <1>3 DEF Working
<1>9. ASSUME NEW f \in Exits \ {e} PROVE Elsewhere(f)
  BY <1>3, <1>4, <1>5 DEF Elsewhere, Busy
<1> QED BY <1>1, <1>7, <1>8, <1>9, OneExit

LEMMA ConfirmTradeKeeps ==
    ASSUME ExitInvariant, NEW e \in Exits, ConfirmTrade(e)
    PROVE  ExitInvariant'
<1>1. Shape' /\ Shape /\ Working
  BY ConfirmTradeShape DEF ExitInvariant
<1>3. UNCHANGED <<request, reservation, transport, preempted, rows, worker>>
  BY DEF ConfirmTrade, VenueOnly, books
<1>4. /\ \A f \in Exits \ {e} : venue'[f] = venue[f]
  BY <1>1 DEF ConfirmTrade, VenueOnly, Shape
<1>5. /\ venue'[e].state = venue[e].state
  BY <1>1, <1>3 DEF ConfirmTrade, VenueOnly, ExitInvariant, ExitInvariantOf, Busy, StepOK,
     ThreadOK, Shape, AnyOrder
<1>6. ExitInvariantOf(e)
  BY DEF ExitInvariant
<1>7. ExitInvariantOf(e)'
  <2> USE DEF ExitInvariantOf, Exclusive, ThreadOK, FinalOK, StepOK, Final, Submitting, Busy,
              SubmitSteps, ReconcileSteps, FinalStatuses, PendingStatuses
  <2>1. Exclusive(e)'
    BY <1>3, <1>4, <1>5, <1>6
  <2>2. ThreadOK(e)'
    BY <1>3, <1>4, <1>5, <1>6
  <2>3. FinalOK(e)'
    BY <1>3, <1>4, <1>5, <1>6
  <2>4. ASSUME NEW v \in Workers, Busy(v, e)'
        PROVE  StepOK(v, e)'
    BY <1>3, <1>4, <1>5, <1>6, <2>4
  <2> QED BY <2>1, <2>2, <2>3, <2>4
<1>8. Working'
  BY <1>1, <1>3 DEF Working
<1>9. ASSUME NEW f \in Exits \ {e} PROVE Elsewhere(f)
  BY <1>3, <1>4, <1>5 DEF Elsewhere, Busy
<1> QED BY <1>1, <1>7, <1>8, <1>9, OneExit

LEMMA TradeFailsKeeps ==
    ASSUME ExitInvariant, NEW e \in Exits, TradeFails(e)
    PROVE  ExitInvariant'
<1>1. Shape' /\ Shape /\ Working
  BY TradeFailsShape DEF ExitInvariant
<1>3. UNCHANGED <<request, reservation, transport, preempted, rows, worker>>
  BY DEF TradeFails, VenueOnly, books
<1>4. /\ \A f \in Exits \ {e} : venue'[f] = venue[f]
  BY <1>1 DEF TradeFails, VenueOnly, Shape
<1>5. /\ venue'[e].state = venue[e].state
  BY <1>1, <1>3 DEF TradeFails, VenueOnly, ExitInvariant, ExitInvariantOf, Busy, StepOK,
     ThreadOK, Shape, AnyOrder
<1>6. ExitInvariantOf(e)
  BY DEF ExitInvariant
<1>7. ExitInvariantOf(e)'
  <2> USE DEF ExitInvariantOf, Exclusive, ThreadOK, FinalOK, StepOK, Final, Submitting, Busy,
              SubmitSteps, ReconcileSteps, FinalStatuses, PendingStatuses
  <2>1. Exclusive(e)'
    BY <1>3, <1>4, <1>5, <1>6
  <2>2. ThreadOK(e)'
    BY <1>3, <1>4, <1>5, <1>6
  <2>3. FinalOK(e)'
    BY <1>3, <1>4, <1>5, <1>6
  <2>4. ASSUME NEW v \in Workers, Busy(v, e)'
        PROVE  StepOK(v, e)'
    BY <1>3, <1>4, <1>5, <1>6, <2>4
  <2> QED BY <2>1, <2>2, <2>3, <2>4
<1>8. Working'
  BY <1>1, <1>3 DEF Working
<1>9. ASSUME NEW f \in Exits \ {e} PROVE Elsewhere(f)
  BY <1>3, <1>4, <1>5 DEF Elsewhere, Busy
<1> QED BY <1>1, <1>7, <1>8, <1>9, OneExit

LEMMA EndOrderKeeps ==
    ASSUME ExitInvariant, NEW e \in Exits, EndOrder(e)
    PROVE  ExitInvariant'
<1>1. Shape' /\ Shape /\ Working
  BY EndOrderShape DEF ExitInvariant
<1>2. venue[e].state = "OPEN"
  BY DEF EndOrder
<1>3. UNCHANGED <<request, reservation, transport, preempted, rows, worker>>
  BY DEF EndOrder, VenueOnly, books
<1>4. /\ \A f \in Exits \ {e} : venue'[f] = venue[f]
  BY <1>1, <1>2 DEF EndOrder, VenueOnly, Shape
<1>5. /\ venue[e].state = "OPEN"
      /\ venue'[e].state \in {"CANCELED", "SETTLED", "FAILED"}
  <2>1. venue[e].state = "OPEN"
    BY <1>1, <1>2, <1>3 DEF EndOrder, VenueOnly, Shape, AnyOrder
  <2>2. venue'[e].state \in {"CANCELED", "SETTLED", "FAILED"}
    <3>1. venue[e] \in AnyOrder
      BY <1>1 DEF Shape
    <3>2. \/ venue'[e] = [venue[e] EXCEPT !.state = "CANCELED"]
          \/ venue'[e] = [venue[e] EXCEPT !.state = "SETTLED"]
          \/ venue'[e] = [venue[e] EXCEPT !.state = "FAILED", !.matched = 0]
      BY <1>1 DEF EndOrder, Shape
    <3>3. CASE venue'[e] = [venue[e] EXCEPT !.state = "FAILED", !.matched = 0]
      BY <3>1, <3>3 DEF AnyOrder
    <3> QED BY <3>1, <3>2, <3>3 DEF AnyOrder
  <2> QED BY <2>1, <2>2
<1>6. ExitInvariantOf(e)
  BY DEF ExitInvariant
<1>7. ExitInvariantOf(e)'
  <2> USE DEF ExitInvariantOf, Exclusive, ThreadOK, FinalOK, StepOK, Final, Submitting, Busy,
              SubmitSteps, ReconcileSteps, FinalStatuses, PendingStatuses
  <2>1. Exclusive(e)'
    BY <1>2, <1>3, <1>4, <1>5, <1>6
  <2>2. ThreadOK(e)'
    BY <1>2, <1>3, <1>4, <1>5, <1>6
  <2>3. FinalOK(e)'
    BY <1>2, <1>3, <1>4, <1>5, <1>6
  <2>4. ASSUME NEW v \in Workers, Busy(v, e)'
        PROVE  StepOK(v, e)'
    BY <1>2, <1>3, <1>4, <1>5, <1>6, <2>4
  <2> QED BY <2>1, <2>2, <2>3, <2>4
<1>8. Working'
  BY <1>1, <1>3 DEF Working
<1>9. ASSUME NEW f \in Exits \ {e} PROVE Elsewhere(f)
  BY <1>2, <1>3, <1>4, <1>5 DEF Elsewhere, Busy
<1> QED BY <1>1, <1>7, <1>8, <1>9, OneExit

\* The lease, and the crash of a process with its threads.
LEMMA LeaseMovesKeeps ==
    ASSUME ExitInvariant, LeaseMoves
    PROVE  ExitInvariant'
<1>1. UNCHANGED <<bought, lot, request, reservation, attempt, worker, rows, transport, venue,
                  preempted>>
  BY DEF LeaseMoves, books
<1>2. Shape' /\ Working'
  BY <1>1 DEF ExitInvariant, Shape, Working
<1>3. ASSUME NEW f \in Exits PROVE Elsewhere(f)
  BY <1>1 DEF Elsewhere, Busy
<1> QED BY <1>2, <1>3, NoExit

LEMMA CrashKeeps ==
    ASSUME ExitInvariant, NEW w \in Workers, Crash(w)
    PROVE  ExitInvariant'
<1>1. Shape /\ Working
  BY DEF ExitInvariant
<1>2. UNCHANGED <<bought, lot, request, reservation, attempt, venue, preempted>>
  BY DEF Crash, books
<1>3. /\ worker'[w] = Idle /\ \A v \in Workers \ {w} : worker'[v] = worker[v]
      /\ \A v \in Workers \ {w} : rows'[v] = rows[v]
  BY <1>1 DEF Crash, Halt, Shape
<1>4. \A e \in Exits :
         IF transport[e].worker = w THEN transport'[e] = [transport[e] EXCEPT !.step = "done"]
         ELSE transport'[e] = transport[e]
  BY DEF Crash
<1>5. \A e \in Exits :
         /\ transport[e] \in Threads
         /\ [transport[e] EXCEPT !.step = "done"] \in Threads
  BY <1>1 DEF Shape, Threads
<1>6. Shape'
  <2>1. transport' \in [Exits -> Threads]
    BY <1>4, <1>5 DEF Crash
  <2>2. worker' \in [Workers -> AnyWorker]
    BY <1>1, RecordsTyped DEF Crash, Halt, Shape
  <2>3. rows' \in [Workers -> {NULL} \cup AnyRows]
    BY <1>1 DEF Crash, Shape
  <2> QED BY <1>1, <1>2, <2>1, <2>2, <2>3 DEF Shape
<1>7. Working'
  BY <1>1, <1>3 DEF Working, Idle
<1>8. ASSUME NEW e \in Exits PROVE ExitInvariantOf(e)'
  <2>1. /\ transport'[e].step \in {transport[e].step, "done"}
        /\ transport'[e].result = transport[e].result
        /\ transport'[e].worker = transport[e].worker
        /\ transport'[e].cancelled = transport[e].cancelled
        /\ transport[e].step = "none" => transport'[e].step = "none"
        /\ transport[e].step # "none" => transport'[e].step # "none"
        /\ transport'[e].step \in {"none", "done"} \/ transport'[e].step = transport[e].step
    <3>1. ExitInvariantOf(e) /\ w # NULL
      BY ExitConstants DEF ExitInvariant
    <3>2. CASE transport[e].worker = w
      <4>1. transport'[e] = [transport[e] EXCEPT !.step = "done"] /\ transport[e] \in Threads
        BY <1>4, <1>5, <3>2
      <4>2. transport[e].step # "none"
        BY <3>1, <3>2 DEF ExitInvariantOf, ThreadOK
      <4> QED BY <4>1, <4>2 DEF Threads
    <3>3. CASE transport[e].worker # w
      BY <1>4, <3>3
    <3> QED BY <3>2, <3>3
  <2>2. ExitInvariantOf(e)
    BY DEF ExitInvariant
  <2>3. \A v \in Workers : Busy(v, e)' => v # w /\ Busy(v, e)
    BY <1>3 DEF Busy, Idle
  <2>4. Exclusive(e)'
    BY <1>3, <2>2, <2>3 DEF ExitInvariantOf, Exclusive, Submitting, Busy, SubmitSteps
  <2>5. ThreadOK(e)'
    BY <1>2, <2>1, <2>2 DEF ExitInvariantOf, ThreadOK
  <2>6. FinalOK(e)'
    BY <1>2, <2>1, <2>2 DEF ExitInvariantOf, FinalOK, Final
  <2>7. ASSUME NEW v \in Workers, Busy(v, e)'
        PROVE  StepOK(v, e)'
    BY <1>2, <1>3, <2>1, <2>2, <2>3, <2>7 DEF ExitInvariantOf, StepOK
  <2> QED BY <2>4, <2>5, <2>6, <2>7 DEF ExitInvariantOf
<1> QED BY <1>6, <1>7, <1>8 DEF ExitInvariant

-----------------------------------------------------------------------------
(* The invariant and what follows from it.                                 *)

LEMMA InitExitInvariant == Init => ExitInvariant
<1> SUFFICES ASSUME Init PROVE ExitInvariant
  OBVIOUS
<1>1. /\ lot \in AnyLot /\ bought \in Int /\ preempted \subseteq Exits
      /\ attempt \in [Exits -> BOOLEAN]
  BY DEF Init, AnyLot
<1>2. /\ request \in [Exits -> AnyRequest] /\ reservation \in [Exits -> AnyReservation]
  BY DEF Init, AnyRequest, AnyReservation, Statuses
<1>3. worker \in [Workers -> AnyWorker] /\ transport \in [Exits -> Threads]
  BY RecordsTyped DEF Init
<1>4. venue \in [Exits -> AnyOrder]
  BY DEF Init, AnyOrder
<1>5. rows \in [Workers -> {NULL} \cup AnyRows]
  BY DEF Init
<1>6. Working
  BY DEF Init, Working, Idle
<1>7. ASSUME NEW e \in Exits PROVE ExitInvariantOf(e)
  BY DEF Init, ExitInvariantOf, Exclusive, ThreadOK, FinalOK, Final, Submitting, Busy, Idle,
         NoTransport, SubmitSteps, FinalStatuses
<1> QED BY <1>1, <1>2, <1>3, <1>4, <1>5, <1>6, <1>7 DEF ExitInvariant, Shape

LEMMA NextExitInvariant == ExitInvariant /\ [Next]_vars => ExitInvariant'
<1> SUFFICES ASSUME ExitInvariant, [Next]_vars PROVE ExitInvariant'
  OBVIOUS
<1>1. CASE UNCHANGED vars
  <2>1. UNCHANGED <<bought, lot, request, reservation, attempt, worker, rows, transport, venue,
                    preempted>>
    BY <1>1 DEF vars
  <2>2. Shape' /\ Working'
    BY <2>1 DEF ExitInvariant, Shape, Working
  <2>3. ASSUME NEW f \in Exits PROVE Elsewhere(f)
    BY <2>1 DEF Elsewhere, Busy
  <2> QED BY <2>2, <2>3, NoExit
<1>2. ASSUME NEW w \in Workers, Submit(w) PROVE ExitInvariant'
  BY <1>2, ReadLotKeeps, CheckRequestsKeeps, AdmissionRefusedKeeps, ReserveExitKeeps,
     PrepareRequestKeeps, RecordAttemptKeeps, SubmissionBlockedKeeps, WithdrawReservationKeeps,
     WithdrawRequestKeeps, CallTransportKeeps, SubmissionFailsKeeps, TimeOutKeeps,
     RespondsKeeps, ReleaseCapacityKeeps DEF Submit
<1>3. ASSUME NEW w \in Workers, Reconcile(w) PROVE ExitInvariant'
  BY <1>3, MarkUnknownKeeps, ReleaseUnsentKeeps, RejectUnsentKeeps, PollOrderKeeps,
     ListTradesKeeps, VenueUnavailableKeeps, BookFillsKeeps, ReadRowsKeeps, ProjectKeeps,
     ProjectMissesKeeps DEF Reconcile
<1>4. ASSUME NEW e \in Exits, Thread(e) PROVE ExitInvariant'
  BY <1>4, PrepareOrderKeeps, FenceRefusesKeeps, FirstFenceKeeps, SendStartsKeeps,
     MarkSendStartedKeeps, SecondFenceKeeps, PostKeeps DEF Thread
<1>5. ASSUME NEW e \in Exits, Venue(e) PROVE ExitInvariant'
  BY <1>5, MatchKeeps, ConfirmTradeKeeps, TradeFailsKeeps, EndOrderKeeps DEF Venue
<1> QED BY <1>1, <1>2, <1>3, <1>4, <1>5, LeaseMovesKeeps, ConfirmBuyKeeps, SyncEntryLotKeeps,
           CrashKeeps, ReadRequestKeeps DEF Next

\* Every behavior of the exit path keeps its inductive invariant, for any
\* number of processes and requests, any quantity and any number of crashes.
THEOREM ExitInvariantHolds == Spec => []ExitInvariant
<1> QED BY InitExitInvariant, NextExitInvariant, PTL DEF Spec

\* A REJECTED exit is never an order at the venue, but where a second process
\* took the PREPARED request of a live submitter for the leavings of a crash.
THEOREM RejectedNeverPostedHolds == Spec => []RejectedNeverPosted
<1>1. ExitInvariant => RejectedNeverPosted
  BY DEF ExitInvariant, ExitInvariantOf, FinalOK, RejectedNeverPosted
<1> QED BY <1>1, ExitInvariantHolds, PTL

-----------------------------------------------------------------------------
(* Final requests.                                                         *)

Kept == \A e \in Exits \ preempted' : Final(e) => request'[e] = request[e]

\* A step that writes the request of one worker's exit, guarded or not.
LEMMA SubmitKeepsFinal ==
    ASSUME ExitInvariant, NEW w \in Workers, Submit(w)
    PROVE  Kept
<1>1. Shape /\ Working
  BY DEF ExitInvariant
<1>2. CASE PrepareRequest(w)
  <2>1. PICK e \in Exits : worker[w].exit = e /\ worker[w].step = "reserved"
    BY <1>1, <1>2 DEF PrepareRequest, Working
  <2>2. request[e].status = "NONE"
    BY <2>1 DEF ExitInvariant, ExitInvariantOf, Busy, StepOK
  <2>3. \A f \in Exits \ {e} : request'[f] = request[f]
    BY <1>1, <1>2, <2>1 DEF PrepareRequest, Shape
  <2> QED BY <2>2, <2>3 DEF Kept, Final, FinalStatuses
<1>3. CASE WithdrawRequest(w) \/ CallTransport(w)
  <2>1. PICK e \in Exits : worker[w].exit = e /\ worker[w].step \in {"withdrawn", "attempted"}
    BY <1>1, <1>3 DEF WithdrawRequest, CallTransport, Working
  <2>2. request[e].status \in {"NONE", "PREPARED"} \/ e \in preempted
    BY <2>1 DEF ExitInvariant, ExitInvariantOf, Busy, StepOK
  <2>3. \A f \in Exits \ {e} : request'[f] = request[f]
    BY <1>1, <1>3, <2>1 DEF WithdrawRequest, CallTransport, Shape
  <2>4. preempted' = preempted
    BY <1>3 DEF WithdrawRequest, CallTransport
  <2> QED BY <2>2, <2>3, <2>4 DEF Kept, Final, FinalStatuses
<1>4. CASE SubmissionFails(w) \/ TimeOut(w)
  <2>1. PICK e \in Exits : worker[w].exit = e
    BY <1>1, <1>4 DEF SubmissionFails, TimeOut, Working
  <2>2. \E status : request' = [request EXCEPT ![e] = Unless(request[e], status)]
    BY <1>4, <2>1 DEF SubmissionFails, TimeOut, PersistFailure
  <2>3. request[e].status \in FinalStatuses => \A status : Unless(request[e], status) = request[e]
    BY Zenon DEF Unless
  <2> HIDE DEF Unless
  <2> QED BY <1>1, <2>2, <2>3 DEF Kept, Final, Shape
<1>5. CASE Responds(w)
  <2>1. PICK e \in Exits : worker[w].exit = e
    BY <1>1, <1>5 DEF Responds, Working
  <2>2. request[e].status \in FinalStatuses => Unless(request[e], "REJECTED") = request[e]
    BY Zenon DEF Unless
  <2>3. \A f \in Exits \ {e} : request'[f] = request[f]
    BY <1>1, <1>5, <2>1 DEF Responds, Shape
  <2>4. request[e].status \in FinalStatuses => request'[e] = request[e]
    BY <1>1, <1>5, <2>1, <2>2 DEF Responds, Shape
  <2> QED BY <2>3, <2>4 DEF Kept, Final
<1>6. CASE ~ \/ PrepareRequest(w) \/ WithdrawRequest(w) \/ CallTransport(w)
             \/ SubmissionFails(w) \/ TimeOut(w) \/ Responds(w)
  <2>1. request' = request
    BY <1>6 DEF Submit, ReadLot, CheckRequests, AdmissionRefused, ReserveExit, RecordAttempt,
       SubmissionBlocked, WithdrawReservation, ReleaseCapacity, books
  <2> QED BY <2>1 DEF Kept
<1> QED BY <1>2, <1>3, <1>4, <1>5, <1>6

LEMMA ReconcileKeepsFinal ==
    ASSUME ExitInvariant, NEW w \in Workers, Reconcile(w)
    PROVE  Kept
<1>1. Shape /\ Working
  BY DEF ExitInvariant
<1>2. CASE MarkUnknown(w)
  <2>1. PICK e \in Exits : worker[w].exit = e
    BY <1>1, <1>2 DEF MarkUnknown, Working
  <2>2. request' = [request EXCEPT ![e] = Unless(request[e], "UNKNOWN")]
    BY <1>2, <2>1 DEF MarkUnknown
  <2>3. request[e].status \in FinalStatuses => Unless(request[e], "UNKNOWN") = request[e]
    BY Zenon DEF Unless
  <2> HIDE DEF Unless
  <2> QED BY <1>1, <2>2, <2>3 DEF Kept, Final, Shape
<1>3. CASE RejectUnsent(w)
  <2>1. PICK e \in Exits : worker[w].exit = e
    BY <1>1, <1>3 DEF RejectUnsent, Working
  <2>2. e \in preempted' \/ request[e].status = "PREPARED"
    BY <1>3, <2>1 DEF RejectUnsent, WentOn
  <2>3. \A f \in Exits \ {e} : request'[f] = request[f]
    BY <1>1, <1>3, <2>1 DEF RejectUnsent, Shape
  <2> QED BY <2>2, <2>3 DEF Kept, Final, FinalStatuses
<1>4. CASE Project(w)
  <2>1. PICK e \in Exits : worker[w].exit = e /\ worker[w].step = "project"
    BY <1>1, <1>4 DEF Project, Working
  <2>2. request[e].status \notin FinalStatuses
    <3>1. /\ request[e] \in AnyRequest /\ rows[w] \in AnyRows
          /\ rows[w].request.status \notin FinalStatuses
      BY <1>1, <2>1 DEF Shape, ExitInvariant, ExitInvariantOf, Busy, StepOK
    <3>2. [request[e] EXCEPT !.order = TRUE] = [rows[w].request EXCEPT !.order = TRUE]
      BY <1>4, <2>1 DEF Project, NothingMoved
    <3>3. request[e].status = [request[e] EXCEPT !.order = TRUE].status
      BY <3>1 DEF AnyRequest
    <3>4. rows[w].request \in AnyRequest
      BY <3>1 DEF AnyRows
    <3>5. rows[w].request.status = [rows[w].request EXCEPT !.order = TRUE].status
      BY <3>4 DEF AnyRequest
    <3> QED BY <3>1, <3>2, <3>3, <3>5
  <2>3. \A f \in Exits \ {e} : request'[f] = request[f]
    BY <1>1, <1>4, <2>1 DEF Project, Shape
  <2> QED BY <2>2, <2>3 DEF Kept, Final
<1>5. CASE ~ (MarkUnknown(w) \/ RejectUnsent(w) \/ Project(w))
  <2>1. request' = request
    BY <1>5 DEF Reconcile, ReleaseUnsent, PollOrder, ListTrades, VenueUnavailable, BookFills,
       ReadRows, ProjectMisses, books
  <2> QED BY <2>1 DEF Kept
<1> QED BY <1>2, <1>3, <1>4, <1>5

LEMMA MarkSendStartedKeepsFinal ==
    ASSUME ExitInvariant, NEW e \in Exits, MarkSendStarted(e)
    PROVE  Kept
<1>1. Shape /\ FinalOK(e) /\ transport[e].step = "started"
  BY DEF ExitInvariant, ExitInvariantOf, MarkSendStarted
<1>2. e \in preempted \/ ~Final(e)
  BY <1>1 DEF FinalOK
<1>3. /\ \A f \in Exits \ {e} : request'[f] = request[f]
      /\ preempted' = preempted
  BY <1>1 DEF MarkSendStarted, Shape
<1> QED BY <1>2, <1>3 DEF Kept

\* A final request stays as it is, whoever reads, answers or retries late.
THEOREM FinalStaysFinalHolds == Spec => FinalStaysFinal
<1>1. ExitInvariant /\ [Next]_vars => [Kept]_vars
  <2> SUFFICES ASSUME ExitInvariant, Next PROVE Kept
    OBVIOUS
  <2>1. CASE request' = request
    BY <2>1 DEF Kept
  <2>2. CASE request' # request
    <3>1. \/ \E w \in Workers : Submit(w) \/ Reconcile(w)
          \/ \E e \in Exits : MarkSendStarted(e)
      BY <2>2 DEF Next, LeaseMoves, ConfirmBuy, SyncEntryLot, Crash, ReadRequest, Thread, Venue,
         PrepareOrder, FenceRefuses, FirstFence, SendStarts, SecondFence, Post, ThreadOnly,
         Match, ConfirmTrade, TradeFails, EndOrder, VenueOnly, books
    <3> QED BY <3>1, SubmitKeepsFinal, ReconcileKeepsFinal, MarkSendStartedKeepsFinal
  <2> QED BY <2>1, <2>2
<1>2. Spec => [][Kept]_vars
  BY <1>1, ExitInvariantHolds, PTL DEF Spec
<1> QED BY <1>2 DEF FinalStaysFinal, Kept

=============================================================================
