----------------------- MODULE BinanceExecutionLedger ------------------------
(***************************************************************************)
(* What the books of the execution service hold.  First, the promise of    *)
(* ReservationLedger: every step of the service is a step of it or leaves  *)
(* exposures and orders as they are.  Then what each action does to the    *)
(* ledgers, field by field, and with it: the evidence behind a released    *)
(* reservation, the position rows behind the trades, the exposure within   *)
(* the envelope, the exits within the inventory, the daily budget, rows    *)
(* that stay final, and orders that stop at a trade of unknown value.      *)
(***************************************************************************)
EXTENDS BinanceExecutionProofs, LedgerSums

(* A step that touches no reservation, no order at the venue and no row     *)
(* but those of reserved signals.                                           *)
Silent ==
    /\ UNCHANGED <<held, venue>>
    /\ \A s \in Signals : held[s] = "none" => intents'[s].state = intents[s].state

Stutter == UNCHANGED <<Exposure, Order>>

(* A step that moves no reservation and no order is a stutter.              *)
LEMMA SilentStutters == Silent => Stutter
  BY DEF Silent, Stutter, Exposure, Order

(* A step on workers and control is one.                                    *)
LEMMA StillIsSilent == Still => Silent
  BY DEF Still, Silent

(* Only the row of a signal with a reservation is rewritten.                *)
LEMMA RowIsSilent ==
    ASSUME LedgerTypeOK, NEW s \in Signals, held[s] # "none", UNCHANGED <<held, venue>>,
           \A t \in Signals \ {s} : intents'[t] = intents[t]
    PROVE  Silent
  BY DEF Silent

(* So is _set_unknown: it never touches a reservation.                      *)
LEMMA SetUnknownIsSilent ==
    ASSUME LedgerTypeOK, NEW s \in Signals, held[s] # "none", UNCHANGED <<held, venue>>,
           SetUnknown(s)
    PROVE  Silent
<1>1. \A t \in Signals \ {s} : intents'[t] = intents[t]
  BY DEF SetUnknown, LedgerTypeOK
<1>2. QED
  BY <1>1, RowIsSilent

-----------------------------------------------------------------------------
(* The steps that are silent                                               *)

(* The claim, the fences and the dropped answers of a submission are silent.*)
LEMMA SubmitStepSilent ==
    ASSUME InductiveInvariant, NEW w \in Workers,
           Claim(w) \/ FirstFence(w) \/ FinalSubmitFence(w) \/ Acknowledged(w) \/ Ambiguous(w)
    PROVE  Silent
<1>1. PICK s \in Signals : s = worker[w].sig /\ held[s] # "none"
  BY DEF Claim, FirstFence, FinalSubmitFence, Acknowledged, Ambiguous, PreCall,
     InductiveInvariant, CallsAccounted, PreCallOK, PassOK, RowOK
<1>2. CASE Claim(w)
  <2>1. UNCHANGED <<held, venue>>
    BY <1>2 DEF Claim, market
  <2>2. \A t \in Signals \ {s} : intents'[t] = intents[t]
    BY <1>1, <1>2 DEF Claim, InductiveInvariant, LedgerTypeOK
  <2>3. QED
    BY <1>1, <2>1, <2>2, RowIsSilent DEF InductiveInvariant
<1>3. CASE UNCHANGED <<held, venue>> /\ SetUnknown(s)
  BY <1>1, <1>3, SetUnknownIsSilent DEF InductiveInvariant
<1>4. CASE UNCHANGED <<held, venue, intents>>
  BY <1>4 DEF Silent
<1>5. QED
  BY <1>1, <1>2, <1>3, <1>4
     DEF FirstFence, FinalSubmitFence, FenceRejected, Acknowledged, Ambiguous, ledger, market

(* So are applied answers and recomputed positions.                         *)
LEMMA LedgerStepSilent ==
    ASSUME InductiveInvariant, NEW w \in Workers,
           ApplyOrderResult(w) \/ IngestFills(w) \/ RecomputePosition(w) \/ UnknownFeePause(w)
    PROVE  Silent
<1>1. CASE ApplyOrderResult(w) \/ IngestFills(w)
  <2>1. Carries(w) /\ UNCHANGED <<held, venue>>
    BY <1>1 DEF ApplyOrderResult, IngestFills, Carries, market
  <2>2. PICK s \in Signals : s = worker[w].sig
    BY <2>1 DEF InductiveInvariant, CallsAccounted, AnswerOK
  <2>3. held[s] # "none"
    BY <2>1, <2>2, CarriedFacts
  <2>4. \A t \in Signals \ {s} : intents'[t] = intents[t]
    BY <1>1, <2>2 DEF ApplyOrderResult, IngestFills, InductiveInvariant, LedgerTypeOK
  <2>5. QED
    BY <2>1, <2>3, <2>4, RowIsSilent DEF InductiveInvariant
<1>2. CASE RecomputePosition(w) \/ UnknownFeePause(w)
  BY <1>2 DEF RecomputePosition, UnknownFeePause, ledger, market, Silent
<1>3. QED
  BY <1>1, <1>2

(* So are the steps of a pass that release nothing.                         *)
LEMMA ReconcileStepSilent ==
    ASSUME InductiveInvariant, NEW w \in Workers,
           \/ \E s \in Signals :
                QueryMissing(w, s) \/ QueryUnresolved(w, s) \/ QueryAnswered(w, s)
           \/ TradesFailure(w) \/ Reapply(w) \/ EndRows(w)
           \/ \E sym \in Symbols : RecomputeOne(w, sym)
           \/ EndReconcile(w)
    PROVE  Silent
<1>1. ASSUME NEW s \in Signals, QueryMissing(w, s) \/ QueryUnresolved(w, s)
      PROVE  Silent
  <2>1. held[s] # "none"
    BY <1>1 DEF QueryMissing, QueryUnresolved, NextRow,
       InductiveInvariant, CallsAccounted, PassOK
  <2>2. UNCHANGED <<held, venue>> /\ (SetUnknown(s) \/ UNCHANGED intents)
    BY <1>1 DEF QueryMissing, QueryUnresolved, market
  <2>3. CASE SetUnknown(s)
    BY <2>1, <2>2, <2>3, SetUnknownIsSilent DEF InductiveInvariant
  <2>4. CASE UNCHANGED intents
    BY <2>2, <2>4 DEF Silent
  <2>5. QED
    BY <2>2, <2>3, <2>4
<1>2. ASSUME NEW s \in Signals, QueryAnswered(w, s)
      PROVE  Silent
  BY <1>2 DEF QueryAnswered, ledger, market, Silent
<1>3. CASE TradesFailure(w) \/ Reapply(w) \/ EndRows(w) \/ EndReconcile(w)
  BY <1>3 DEF TradesFailure, Reapply, EndRows, EndReconcile, ledger, market, Silent
<1>4. ASSUME NEW sym \in Symbols, RecomputeOne(w, sym)
      PROVE  Silent
  BY <1>4 DEF RecomputeOne, market, Silent
<1>5. QED
  BY <1>1, <1>2, <1>3, <1>4

(* And the other calls, operators, restarts and midnight.                   *)
LEMMA OtherStepSilent ==
    ASSUME InductiveInvariant,
           \/ \E w \in Workers :
                \/ StartReconcile(w) \/ AccountFailure(w) \/ UpdateAccount(w)
                \/ CancelUnknown(w) \/ Restart(w)
                \/ \E sym \in Symbols : Mark(w, sym)
           \/ OperatorStep \/ NewDay \/ UNCHANGED vars
    PROVE  Silent
<1>1. ASSUME NEW w \in Workers, CancelUnknown(w)
      PROVE  Silent
  <2>1. worker[w].sig \in Signals /\ held[worker[w].sig] # "none"
    BY <1>1 DEF CancelUnknown, InductiveInvariant, CallsAccounted, PassOK
  <2>2. PICK s \in Signals : s = worker[w].sig
    BY <2>1
  <2>3. QED
    BY <1>1, <2>1, <2>2, SetUnknownIsSilent DEF CancelUnknown, market, InductiveInvariant
<1>2. ASSUME NEW w \in Workers,
             StartReconcile(w) \/ AccountFailure(w) \/ UpdateAccount(w) \/ Restart(w)
      PROVE  Silent
  BY <1>2 DEF StartReconcile, AccountFailure, UpdateAccount, Restart, ledger, market, Silent
<1>3. ASSUME NEW w \in Workers, NEW sym \in Symbols, Mark(w, sym)
      PROVE  Silent
  BY <1>3 DEF Mark, market, Silent
<1>4. CASE OperatorStep \/ NewDay \/ UNCHANGED vars
  BY <1>4 DEF OperatorStep, EnableAutoCanary, Operator, NewDay, vars, ledger, market, Silent
<1>5. QED
  BY <1>1, <1>2, <1>3, <1>4

-----------------------------------------------------------------------------
(* The steps that move one signal of the promise                           *)

(* A step on one signal changes the promise at that signal only.            *)
LEMMA OneExposure ==
    ASSUME NEW s \in Signals, NEW e, Exposure'[s] = e,
           \A t \in Signals \ {s} :
                held'[t] = held[t] /\ intents'[t].state = intents[t].state
    PROVE  Exposure' = [Exposure EXCEPT ![s] = e]
<1>1. \A t \in Signals \ {s} : Exposure'[t] = Exposure[t]
  BY DEF Exposure
<1>2. /\ Exposure = [t \in Signals |-> Exposure[t]]
      /\ Exposure' = [t \in Signals |-> Exposure'[t]]
  BY DEF Exposure
<1>3. QED
  BY <1>1, <1>2

(* _reject_signal is the refusal of the promise.                            *)
LEMMA RejectSignalRefuses ==
    ASSUME InductiveInvariant, NEW w \in Workers, NEW s \in Signals, RejectSignal(w, s)
    PROVE  Promise!Refuse(s)
<1>1. /\ intents \in [Signals -> IntentType] /\ intents[s].state = "none"
      /\ held[s] = "none" /\ UNCHANGED <<held, venue>>
  BY NewRow DEF RejectSignal, Fresh, market, InductiveInvariant, LedgerTypeOK
<1>2. /\ intents'[s].state = "REJECTED"
      /\ \A t \in Signals \ {s} : intents'[t] = intents[t]
  BY <1>1 DEF RejectSignal, NoRow
<1>3. Exposure[s] = "none" /\ Exposure'[s] = "refused"
  BY <1>1, <1>2 DEF Exposure
<1>4. Exposure' = [Exposure EXCEPT ![s] = "refused"]
  BY <1>1, <1>2, <1>3, OneExposure
<1>5. UNCHANGED Order
  BY <1>1 DEF Order
<1>6. QED
  BY <1>3, <1>4, <1>5 DEF Promise!Refuse

(* _reserve_and_send is its reservation.                                    *)
LEMMA ReserveAndSendReserves ==
    ASSUME InductiveInvariant, NEW w \in Workers, NEW s \in Signals,
           NEW q \in 1..MaxQuantity, ReserveAndSend(w, s, q)
    PROVE  Promise!Reserve(s)
<1>1. /\ intents \in [Signals -> IntentType] /\ intents[s].state = "none"
      /\ held \in [Signals -> {"none", "HELD", "RELEASED"}]
      /\ held[s] = "none" /\ UNCHANGED venue
  BY NewRow DEF ReserveAndSend, Fresh, market, InductiveInvariant, LedgerTypeOK
<1>2. /\ held'[s] = "HELD"
      /\ \A t \in Signals \ {s} : intents'[t] = intents[t] /\ held'[t] = held[t]
  BY <1>1 DEF ReserveAndSend
<1>3. Exposure[s] = "none" /\ Exposure'[s] = "held"
  BY <1>1, <1>2 DEF Exposure
<1>4. Exposure' = [Exposure EXCEPT ![s] = "held"]
  BY <1>1, <1>2, <1>3, OneExposure
<1>5. UNCHANGED Order
  BY <1>1 DEF Order
<1>6. QED
  BY <1>3, <1>4, <1>5 DEF Promise!Reserve

(* A reservation goes from HELD to RELEASED while the order is not open.    *)
LEMMA ReleasingReleases ==
    ASSUME InductiveInvariant, NEW s \in Signals, UNCHANGED venue,
           held' = [held EXCEPT ![s] = "RELEASED"], held[s] = "HELD",
           venue[s].status \notin {"inflight", "NEW"},
           \A t \in Signals \ {s} : intents'[t].state = intents[t].state
    PROVE  Promise!Release(s)
<1>1. /\ held'[s] = "RELEASED"
      /\ \A t \in Signals \ {s} : held'[t] = held[t]
  BY DEF InductiveInvariant, LedgerTypeOK
<1>2. Exposure[s] = "held" /\ Exposure'[s] = "released" /\ Order[s] # "open"
  BY <1>1 DEF Exposure, Order
<1>3. Exposure' = [Exposure EXCEPT ![s] = "released"]
  BY <1>1, <1>2, OneExposure
<1>4. UNCHANGED Order
  BY DEF Order
<1>5. QED
  BY <1>2, <1>3, <1>4 DEF Promise!Release

(* _expire_unsent is its release of an order that never left.               *)
LEMMA ExpireUnsentReleases ==
    ASSUME InductiveInvariant, NEW w \in Workers, ExpireUnsent(w)
    PROVE  (\E s \in Signals : Promise!Release(s)) \/ Stutter
<1>1. PICK s \in Signals : s = worker[w].sig
  BY DEF ExpireUnsent, InductiveInvariant, CallsAccounted, PreCallOK, PreCall
<1>2. held[s] = "HELD" /\ venue[s].status = "absent" /\ UNCHANGED venue
  BY <1>1 DEF ExpireUnsent, InductiveInvariant, CallsAccounted, PreCallOK, PreCall, market
<1>3. CASE /\ intents' = [intents EXCEPT ![s].state = "REJECTED"]
           /\ held' = [held EXCEPT ![s] = "RELEASED"]
  <2>1. \A t \in Signals \ {s} : intents'[t].state = intents[t].state
    BY <1>3 DEF InductiveInvariant, LedgerTypeOK
  <2>2. QED
    BY <1>2, <1>3, <2>1, ReleasingReleases
<1>4. CASE UNCHANGED <<intents, held>>
  BY <1>2, <1>4, SilentStutters DEF Silent
<1>5. QED
  BY <1>1, <1>3, <1>4 DEF ExpireUnsent

(* _release_if_done is its release of an order that is over.                *)
LEMMA ReleaseIfDoneReleases ==
    ASSUME InductiveInvariant, NEW s \in Signals, ReleaseIfDone(s),
           UNCHANGED <<intents, venue>>
    PROVE  Promise!Release(s) \/ Stutter
<1>1. RowOK(s) /\ held \in [Signals -> {"none", "HELD", "RELEASED"}]
  BY DEF InductiveInvariant, CallsAccounted, LedgerTypeOK
<1>2. CASE /\ held' = [held EXCEPT ![s] = "RELEASED"]
           /\ held[s] = "HELD" /\ intents[s].state \in Terminal
  <2>1. venue[s].status \notin {"inflight", "NEW"}
    BY <1>1, <1>2 DEF RowOK, Dead
  <2>2. QED
    BY <1>2, <2>1, ReleasingReleases
<1>3. CASE UNCHANGED held
  BY <1>3, SilentStutters DEF Silent
<1>4. QED
  BY <1>1, <1>2, <1>3 DEF ReleaseIfDone

(* Both callers of _release_if_done are.                                    *)
LEMMA ReleaseStepsRelease ==
    ASSUME InductiveInvariant, NEW w \in Workers,
           Release(w) \/ \E s \in Signals : ReleaseFilled(w, s)
    PROVE  (\E s \in Signals : Promise!Release(s)) \/ Stutter
<1>1. CASE Release(w)
  <2>1. PICK s \in Signals : s = worker[w].sig
    BY <1>1 DEF Release, Carries, InductiveInvariant, CallsAccounted, AnswerOK
  <2>2. QED
    BY <1>1, <2>1, ReleaseIfDoneReleases DEF Release, market
<1>2. ASSUME NEW s \in Signals, ReleaseFilled(w, s)
      PROVE  (\E t \in Signals : Promise!Release(t)) \/ Stutter
  BY <1>2, ReleaseIfDoneReleases DEF ReleaseFilled, market
<1>3. QED
  BY <1>1, <1>2

(* The venue call is its only send.                                         *)
LEMMA NetworkSubmitSends ==
    ASSUME InductiveInvariant, NEW w \in Workers, NetworkSubmit(w)
    PROVE  \E s \in Signals : Promise!Send(s)
<1>1. PICK s \in Signals : s = worker[w].sig
  BY DEF NetworkSubmit, InductiveInvariant, CallsAccounted, PreCallOK, PreCall
<1>2. /\ held[s] = "HELD" /\ venue[s].status = "absent" /\ UNCHANGED <<held, intents>>
      /\ venue' = [venue EXCEPT ![s].status = IF @ = "absent" THEN "inflight" ELSE @]
      /\ venue \in [Signals -> VenueType] /\ venue[s] \in VenueType
  BY <1>1 DEF NetworkSubmit, InductiveInvariant, LedgerTypeOK, CallsAccounted,
     PreCallOK, PreCall, ledger
<1>3. /\ venue'[s].status = "inflight"
      /\ \A t \in Signals \ {s} : venue'[t] = venue[t]
  BY <1>2 DEF VenueType
<1>4. /\ Order[s] = "none" /\ Order'[s] = "open"
      /\ \A t \in Signals \ {s} : Order'[t] = Order[t]
  BY <1>2, <1>3 DEF Order
<1>5. Order' = [Order EXCEPT ![s] = "open"]
  BY <1>4 DEF Order
<1>6. Exposure[s] = "held" /\ UNCHANGED Exposure
  BY <1>2 DEF Exposure
<1>7. QED
  BY <1>4, <1>5, <1>6 DEF Promise!Send

-----------------------------------------------------------------------------
(* The steps that end orders at the venue                                  *)

(* Orders that go from open to over at the venue are finished orders.       *)
LEMMA VenueStepFinishes ==
    ASSUME UNCHANGED <<intents, held>>,
           \A s \in Signals :
                \/ venue'[s].status = venue[s].status
                \/ /\ venue[s].status \in {"inflight", "NEW"}
                   /\ venue'[s].status \in {"inflight", "NEW"}
                \/ /\ venue[s].status # "absent"
                   /\ venue'[s].status \notin {"absent", "inflight", "NEW"}
    PROVE  \E S \in SUBSET Signals : Promise!Finish(S)
<1>1. UNCHANGED Exposure
  BY DEF Exposure
<1>2. PICK S \in SUBSET Signals :
        S = {s \in Signals : Order[s] = "open" /\ Order'[s] = "done"}
  OBVIOUS
<1>3. \A s \in Signals \ S : Order'[s] = Order[s]
  BY <1>2 DEF Order
<1>4. Order' = [s \in Signals |-> Order'[s]]
  BY DEF Order
<1>5. Order' = [s \in Signals |-> IF s \in S THEN "done" ELSE Order[s]]
  BY <1>2, <1>3, <1>4
<1>6. Promise!Finish(S)
  BY <1>1, <1>2, <1>5 DEF Promise!Finish
<1>7. QED
  BY <1>6

(* One order gets another status.                                           *)
LEMMA OneOrderFinishes ==
    ASSUME InductiveInvariant, NEW s \in Signals, NEW status,
           UNCHANGED <<intents, held>>,
           \A t \in Signals \ {s} : venue'[t] = venue[t],
           venue'[s].status = status,
           \/ status = venue[s].status
           \/ /\ venue[s].status \in {"inflight", "NEW"}
              /\ status \notin {"absent", "inflight"}
    PROVE  \E S \in SUBSET Signals : Promise!Finish(S)
  BY VenueStepFinishes

(* A step of the venue on one order is such a step.                         *)
LEMMA VenueOrderFinishes ==
    ASSUME InductiveInvariant, NEW s \in Signals,
           VenueAccepts(s) \/ VenueFills(s) \/ VenueEnds(s)
    PROVE  \E S \in SUBSET Signals : Promise!Finish(S)
<1>1. venue \in [Signals -> VenueType] /\ venue[s] \in VenueType
  BY DEF InductiveInvariant, LedgerTypeOK
<1>2. /\ UNCHANGED <<intents, held>> /\ venue[s].status \in {"inflight", "NEW"}
      /\ \A t \in Signals \ {s} : venue'[t] = venue[t]
  BY <1>1 DEF VenueAccepts, VenueFills, VenueEnds, ledger
<1>3. CASE VenueAccepts(s)
  <2>1. venue'[s].status \in {"NEW", "REJECTED"}
    BY <1>1, <1>3 DEF VenueAccepts, VenueType
  <2>2. QED
    BY <1>2, <2>1, OneOrderFinishes
<1>4. CASE VenueFills(s)
  <2>1. venue'[s].status \in {"FILLED", "NEW"}
    BY <1>1, <1>4 DEF VenueFills, VenueType
  <2>2. QED
    BY <1>2, <2>1, OneOrderFinishes
<1>5. CASE VenueEnds(s)
  <2>1. venue'[s].status \in {"CANCELED", "EXPIRED"}
    BY <1>1, <1>5 DEF VenueEnds, VenueType
  <2>2. QED
    BY <1>2, <2>1, OneOrderFinishes
<1>6. QED
  BY <1>3, <1>4, <1>5

(* So is a cancel, answered or not.                                         *)
LEMMA CancelFinishes ==
    ASSUME InductiveInvariant, NEW w \in Workers, NEW s \in Signals,
           Cancel(w, s) \/ CancelFailure(w, s)
    PROVE  \E S \in SUBSET Signals : Promise!Finish(S)
<1>1. venue \in [Signals -> VenueType] /\ venue[s] \in VenueType
  BY DEF InductiveInvariant, LedgerTypeOK
<1>2. UNCHANGED <<intents, held>>
  BY DEF Cancel, CancelFailure, ledger
<1>3. CASE CancelAtVenue(s)
  <2>1. /\ venue'[s].status = "CANCELED" \/ venue'[s].status = venue[s].status
        /\ venue'[s].status = "CANCELED" => venue[s].status \in {"NEW", "CANCELED"}
        /\ \A t \in Signals \ {s} : venue'[t] = venue[t]
    BY <1>1, <1>3 DEF CancelAtVenue, VenueType
  <2>2. QED
    BY <1>2, <2>1, OneOrderFinishes
<1>4. CASE UNCHANGED venue
  BY <1>2, <1>4, VenueStepFinishes
<1>5. QED
  BY <1>3, <1>4 DEF Cancel, CancelFailure

(* And the loss of the venue's history.                                     *)
LEMMA VenueResetFinishes ==
    ASSUME InductiveInvariant, VenueReset
    PROVE  \E S \in SUBSET Signals : Promise!Finish(S)
<1>1. venue \in [Signals -> VenueType]
  BY DEF InductiveInvariant, LedgerTypeOK
<1>2. UNCHANGED <<intents, held>>
  BY DEF VenueReset, ledger
<1>3. ASSUME NEW s \in Signals
      PROVE  \/ venue'[s].status = venue[s].status
             \/ /\ venue[s].status # "absent"
                /\ venue'[s].status \notin {"absent", "inflight", "NEW"}
  <2>1. venue[s] \in VenueType
    BY <1>1
  <2>2. CASE Known(s)
    BY <1>1, <2>1, <2>2 DEF VenueReset, VenueType, Known
  <2>3. CASE ~Known(s)
    BY <1>1, <2>1, <2>3 DEF VenueReset
  <2>4. QED
    BY <2>2, <2>3
<1>4. QED
  BY <1>2, <1>3, VenueStepFinishes

-----------------------------------------------------------------------------
(* The refinement                                                          *)

(* The empty database is the empty promise.                                 *)
LEMMA InitRefines == Init => Promise!Init
  BY DEF Init, NoRow, Promise!Init, Exposure, Order

(* Every step of the service is a step or a stutter of the promise.         *)
LEMMA StepRefines ==
    InductiveInvariant /\ [Next]_vars => [Promise!Next]_(Promise!promise)
<1> SUFFICES ASSUME InductiveInvariant, [Next]_vars
             PROVE  Promise!Next \/ Stutter
  BY DEF Promise!promise, Stutter
<1>1. ASSUME NEW w \in Workers, SubmitSignal(w)
      PROVE  Promise!Next \/ Stutter
  BY <1>1, RejectSignalRefuses, ReserveAndSendReserves DEF SubmitSignal, Promise!Next
<1>2. ASSUME NEW w \in Workers, SubmitStep(w)
      PROVE  Promise!Next \/ Stutter
  <2>1. CASE ExpireUnsent(w)
    BY <2>1, ExpireUnsentReleases DEF Promise!Next
  <2>2. CASE NetworkSubmit(w)
    BY <2>2, NetworkSubmitSends DEF Promise!Next
  <2>3. QED
    BY <1>2, <2>1, <2>2, SubmitStepSilent, SilentStutters DEF SubmitStep
<1>3. ASSUME NEW w \in Workers, LedgerStep(w)
      PROVE  Promise!Next \/ Stutter
  <2>1. CASE Release(w)
    BY <2>1, ReleaseStepsRelease DEF Promise!Next
  <2>2. QED
    BY <1>3, <2>1, LedgerStepSilent, SilentStutters DEF LedgerStep
<1>4. ASSUME NEW w \in Workers, ReconcileStep(w)
      PROVE  Promise!Next \/ Stutter
  <2>1. CASE \E s \in Signals : ReleaseFilled(w, s)
    BY <2>1, ReleaseStepsRelease DEF Promise!Next
  <2>2. CASE IngestFills(w)
    BY <2>2, LedgerStepSilent, SilentStutters
  <2>3. QED
    BY <1>4, <2>1, <2>2, ReconcileStepSilent, SilentStutters DEF ReconcileStep
<1>5. ASSUME NEW w \in Workers, OtherCall(w)
      PROVE  Promise!Next \/ Stutter
  <2>1. CASE \E s \in Signals : Cancel(w, s) \/ CancelFailure(w, s)
    BY <2>1, CancelFinishes DEF Promise!Next
  <2>2. QED
    BY <1>5, <2>1, OtherStepSilent, SilentStutters DEF OtherCall
<1>6. ASSUME NEW w \in Workers, StartReconcile(w) \/ AccountFailure(w) \/ Restart(w)
      PROVE  Promise!Next \/ Stutter
  BY <1>6, OtherStepSilent, SilentStutters
<1>7. CASE VenueStep
  BY <1>7, VenueOrderFinishes, VenueResetFinishes DEF VenueStep, Promise!Next
<1>8. CASE OperatorStep \/ NewDay \/ UNCHANGED vars
  BY <1>8, OtherStepSilent, SilentStutters
<1>9. QED
  BY <1>1, <1>2, <1>3, <1>4, <1>5, <1>6, <1>7, <1>8 DEF Next

(* The service keeps the promise of ReservationLedger: risk is held before *)
(* an order leaves the process, each order leaves at most once, and risk   *)
(* returns only when the order never left or is over, whatever crashes,    *)
(* retries, delayed answers and other workers do.                          *)
THEOREM ServiceKeepsPromise == Spec => KeepsPromise
  BY InvariantHolds, InitRefines, StepRefines, PTL DEF Spec, KeepsPromise, Promise!Spec

-----------------------------------------------------------------------------
(* The promise itself.                                                     *)

(* The promise keeps every open order covered by held risk, for every set   *)
(* of signals: the abstract form of _reserve_and_send and _release_if_done. *)
THEOREM OpenOrdersHeld == Promise!Spec => []Promise!LedgerInvariant
<1> USE DEF Promise!LedgerInvariant, Promise!LedgerTypes, Promise!OpenIsHeld,
            Promise!RefusedNeverTrades
<1>1. Promise!Init => Promise!LedgerInvariant
  BY DEF Promise!Init
<1>2. Promise!LedgerInvariant /\ [Promise!Next]_(Promise!promise) => Promise!LedgerInvariant'
  <2> SUFFICES ASSUME Promise!LedgerInvariant, [Promise!Next]_(Promise!promise)
               PROVE  Promise!LedgerInvariant'
    OBVIOUS
  <2>1. ASSUME NEW s \in Signals, Promise!Refuse(s) \/ Promise!Reserve(s)
        PROVE  Promise!LedgerInvariant'
    BY <2>1 DEF Promise!Refuse, Promise!Reserve
  <2>2. ASSUME NEW s \in Signals, Promise!Send(s)
        PROVE  Promise!LedgerInvariant'
    BY <2>2 DEF Promise!Send
  <2>3. ASSUME NEW s \in Signals, Promise!Release(s)
        PROVE  Promise!LedgerInvariant'
    BY <2>3 DEF Promise!Release
  <2>4. ASSUME NEW S \in SUBSET Signals, Promise!Finish(S)
        PROVE  Promise!LedgerInvariant'
    BY <2>4 DEF Promise!Finish
  <2>5. CASE UNCHANGED Promise!promise
    BY <2>5 DEF Promise!promise
  <2>6. QED
    BY <2>1, <2>2, <2>3, <2>4, <2>5 DEF Promise!Next
<1>3. QED
  BY <1>1, <1>2, PTL DEF Promise!Spec

-----------------------------------------------------------------------------
(* What one step does to the rows.                                         *)

(* The types of one signal's row, order and trades.                         *)
LEMMA RowTypes ==
    ASSUME LedgerTypeOK, NEW s \in Signals
    PROVE  /\ intents[s] \in IntentType /\ intents[s].state \in RowStates
           /\ intents[s].qty \in Nat /\ intents[s].cumulative \in Nat
           /\ intents[s].day \in Nat
           /\ fills[s] \in Nat /\ venue[s] \in VenueType /\ venue[s].filled \in Nat
           /\ held[s] \in {"none", "HELD", "RELEASED"}
BY ConstantsAssumption DEF LedgerTypeOK, IntentType, VenueType, Quantity, RowStates

(* _merge_order_state ends a row only on evidence that the order is over.   *)
LEMMA MergeEnds ==
    ASSUME NEW current \in RowStates,
           NEW observed \in {"ACKNOWLEDGED", "PARTIALLY_FILLED", "REJECTED",
                             "FILLED", "CANCELED", "EXPIRED"},
           NEW original \in Nat, NEW filled \in Nat,
           NEW merged, merged = MergeOrderState(current, observed, original, filled)
    PROVE  /\ current \in Terminal => merged = current
           /\ current \notin Terminal =>
                /\ merged \in {"CANCELED", "EXPIRED", "REJECTED"} => observed = merged
                /\ merged = "FILLED" => observed = "FILLED" \/ filled >= original
           /\ merged # "RESERVED"
  BY DEF MergeOrderState, RowStates, Live, Terminal

(* _set_unknown changes the state and the payload of an unfinished row.     *)
LEMMA SetUnknownRows ==
    ASSUME LedgerTypeOK, NEW s \in Signals, SetUnknown(s) \/ UNCHANGED intents
    PROVE  \A t \in Signals :
              /\ intents'[t].qty = intents[t].qty /\ intents'[t].day = intents[t].day
              /\ \/ /\ intents'[t].state = intents[t].state
                    /\ intents'[t].cumulative = intents[t].cumulative
                 \/ intents'[t].state = "UNKNOWN" /\ intents[t].state \notin Terminal
<1>1. CASE UNCHANGED intents
  BY <1>1
<1>2. CASE SetUnknown(s)
  <2>1. intents \in [Signals -> IntentType] /\ intents[s] \in IntentType
    BY DEF LedgerTypeOK
  <2>2. CASE intents[s].state \in Terminal
    BY <1>2, <2>1, <2>2 DEF SetUnknown
  <2>3. CASE intents[s].state \notin Terminal
    <3>1. intents' = [intents EXCEPT ![s] =
                        [@ EXCEPT !.state = "UNKNOWN", !.cumulative = 0]]
      BY <1>2, <2>1, <2>3 DEF SetUnknown
    <3>2. \A t \in Signals \ {s} : intents'[t] = intents[t]
      BY <2>1, <3>1
    <3>3. /\ intents'[s].qty = intents[s].qty /\ intents'[s].day = intents[s].day
          /\ intents'[s].state = "UNKNOWN"
      BY <2>1, <3>1 DEF IntentType
    <3> QED BY <2>3, <3>2, <3>3
  <2> QED BY <2>2, <2>3
<1> QED BY <1>1, <1>2

(* The trades of s grow to c, and its row follows the answer.               *)
Grows(s, c) ==
    /\ c \in fills[s]..venue[s].filled
    /\ fills' = [fills EXCEPT ![s] = c]
    /\ \A t \in Signals \ {s} : intents'[t] = intents[t]
    /\ intents'[s].qty = intents[s].qty /\ intents'[s].day = intents[s].day

(* _apply_order_result, field by field.                                     *)
LEMMA ApplyEffect ==
    ASSUME InductiveInvariant, NEW w \in Workers, ApplyOrderResult(w),
           NEW s \in Signals, s = worker[w].sig
    PROVE  \E c \in Nat :
              /\ Grows(s, c)
              /\ LET r == worker[w].resp IN
                 /\ intents'[s].cumulative = r.cumulative
                 /\ intents'[s].state =
                       IF r.state \in {"CANCELED", "EXPIRED"} /\ r.cumulative > c THEN "UNKNOWN"
                       ELSE MergeOrderState(intents[s].state, r.state, intents[s].qty,
                                            Max2(r.cumulative, c))
              /\ \A v \in Workers \ {w} : worker'[v] = worker[v]
              /\ worker'[w].pc = IF c > fills[s] THEN "recompute" ELSE "release"
              /\ worker'[w].then = "release" /\ worker'[w].sig = s
              /\ worker'[w].resp = worker[w].resp /\ worker'[w].syms = worker[w].syms
<1> DEFINE r == worker[w].resp
           c == Covered(s, r.trades)
           target == IF r.state \in {"CANCELED", "EXPIRED"} /\ r.cumulative > c THEN "UNKNOWN"
                     ELSE MergeOrderState(intents[s].state, r.state, intents[s].qty,
                                          Max2(r.cumulative, c))
           pc == IF c > fills[s] THEN "recompute" ELSE "release"
<1>1. Carries(w)
  BY DEF ApplyOrderResult, Carries
<1>2. /\ r.trades \in 0..venue[s].filled /\ fills[s] \in 0..venue[s].filled
      /\ venue[s].filled \in Nat
  BY <1>1, CarriedFacts, RowTypes DEF InductiveInvariant
<1>3. c \in fills[s]..venue[s].filled /\ c \in Nat
  BY <1>2 DEF Covered, Max2
<1>4. /\ fills' = [fills EXCEPT ![s] = c]
      /\ intents' = [intents EXCEPT ![s].state = target, ![s].cumulative = r.cumulative]
      /\ worker' = [worker EXCEPT ![w].pc = pc, ![w].then = "release"]
  BY DEF ApplyOrderResult
<1> HIDE DEF c, target, pc
<1>5. /\ intents'[s].state = target /\ intents'[s].cumulative = r.cumulative
      /\ intents'[s].qty = intents[s].qty /\ intents'[s].day = intents[s].day
      /\ \A t \in Signals \ {s} : intents'[t] = intents[t]
  BY <1>4 DEF InductiveInvariant, LedgerTypeOK, IntentType
<1>6. /\ \A v \in Workers \ {w} : worker'[v] = worker[v]
      /\ worker'[w].pc = pc /\ worker'[w].then = "release" /\ worker'[w].sig = s
      /\ worker'[w].resp = worker[w].resp /\ worker'[w].syms = worker[w].syms
  BY <1>4 DEF InductiveInvariant, LedgerTypeOK, WorkerType
<1>7. Grows(s, c)
  BY <1>3, <1>4, <1>5 DEF Grows
<1> USE DEF c, target, pc
<1> QED BY <1>3, <1>5, <1>6, <1>7

(* _ingest_fills, field by field.                                           *)
LEMMA IngestEffect ==
    ASSUME InductiveInvariant, NEW w \in Workers, IngestFills(w),
           NEW s \in Signals, s = worker[w].sig
    PROVE  \E c \in Nat :
              /\ Grows(s, c)
              /\ intents'[s].cumulative = intents[s].cumulative
              /\ \/ intents'[s].state = intents[s].state
                 \/ intents'[s].state =
                       MergeOrderState(intents[s].state,
                                       IF c >= intents[s].qty THEN "FILLED" ELSE "PARTIALLY_FILLED",
                                       intents[s].qty, c)
              /\ \A v \in Workers \ {w} : worker'[v] = worker[v]
              /\ worker'[w].sig = s /\ worker'[w].resp = worker[w].resp
              /\ worker'[w].syms = worker[w].syms
              /\ \/ c > fills[s] /\ worker'[w].pc = "recompute" /\ worker'[w].then = "release"
                 \/ /\ c = fills[s] /\ worker'[w].pc = "reapply"
                    /\ worker'[w].then = worker[w].then
<1>1. Carries(w)
  BY DEF IngestFills, Carries
<1>2. fills[s] \in 0..venue[s].filled /\ venue[s].filled \in Nat
  BY <1>1, CarriedFacts, RowTypes DEF InductiveInvariant
<1>3. PICK listed \in 0..venue[s].filled :
        LET c == Covered(s, listed)
            observed == IF c >= intents[s].qty THEN "FILLED" ELSE "PARTIALLY_FILLED"
        IN  /\ fills' = [fills EXCEPT ![s] = c]
            /\ IF c > fills[s]
                 THEN /\ intents' = [intents EXCEPT ![s].state =
                            MergeOrderState(intents[s].state, observed, intents[s].qty, c)]
                      /\ worker' = [worker EXCEPT ![w].pc = "recompute",
                                                  ![w].then = "release",
                                                  ![w].after = "reapply"]
                 ELSE UNCHANGED intents /\ Goto(w, "reapply")
  BY DEF IngestFills
<1> DEFINE c == Covered(s, listed)
           target == MergeOrderState(intents[s].state,
                                     IF c >= intents[s].qty THEN "FILLED" ELSE "PARTIALLY_FILLED",
                                     intents[s].qty, c)
<1>4. c \in fills[s]..venue[s].filled /\ c \in Nat
  BY <1>2, <1>3 DEF Covered, Max2
<1>5. /\ fills' = [fills EXCEPT ![s] = c]
      /\ c > fills[s] =>
            /\ intents' = [intents EXCEPT ![s].state = target]
            /\ worker' = [worker EXCEPT ![w].pc = "recompute", ![w].then = "release",
                                        ![w].after = "reapply"]
      /\ ~(c > fills[s]) => UNCHANGED intents /\ Goto(w, "reapply")
  BY <1>3
<1> HIDE DEF c, target
<1>6. CASE c > fills[s]
  <2>1. /\ intents'[s].state = target /\ intents'[s].cumulative = intents[s].cumulative
        /\ intents'[s].qty = intents[s].qty /\ intents'[s].day = intents[s].day
        /\ \A t \in Signals \ {s} : intents'[t] = intents[t]
    BY <1>5, <1>6 DEF InductiveInvariant, LedgerTypeOK, IntentType
  <2>2. /\ \A v \in Workers \ {w} : worker'[v] = worker[v]
        /\ worker'[w].pc = "recompute" /\ worker'[w].then = "release" /\ worker'[w].sig = s
        /\ worker'[w].resp = worker[w].resp /\ worker'[w].syms = worker[w].syms
    BY <1>5, <1>6 DEF InductiveInvariant, LedgerTypeOK, WorkerType
  <2>3. Grows(s, c)
    BY <1>4, <1>5, <2>1 DEF Grows
  <2> USE DEF c, target
  <2> QED BY <1>4, <1>6, <2>1, <2>2, <2>3
<1>7. CASE ~(c > fills[s])
  <2>1. c = fills[s] /\ UNCHANGED intents /\ Goto(w, "reapply")
    BY <1>2, <1>4, <1>5, <1>7
  <2>2. /\ \A v \in Workers \ {w} : worker'[v] = worker[v]
        /\ worker'[w].pc = "reapply" /\ worker'[w].then = worker[w].then /\ worker'[w].sig = s
        /\ worker'[w].resp = worker[w].resp /\ worker'[w].syms = worker[w].syms
    BY <2>1 DEF Goto, InductiveInvariant, LedgerTypeOK, WorkerType
  <2>3. Grows(s, c)
    BY <1>4, <1>5, <2>1 DEF Grows
  <2> QED BY <1>4, <2>1, <2>2, <2>3
<1> QED BY <1>6, <1>7

-----------------------------------------------------------------------------
(* Steps that leave trades, reservations and positions alone               *)

(* The trades, the reservations and the quantities stand; a row moves only  *)
(* from a state that is not final to another.                               *)
RowsQuiet ==
    /\ UNCHANGED <<held, fills>>
    /\ \A s \in Signals :
        /\ intents'[s].qty = intents[s].qty /\ venue'[s].filled = venue[s].filled
        /\ \/ /\ intents'[s].state = intents[s].state
              /\ intents'[s].cumulative = intents[s].cumulative
           \/ intents[s].state \notin Terminal /\ intents'[s].state \notin Terminal

(* So do the claims of the day, and no row is reserved.                     *)
DaysQuiet ==
    /\ day' = day
    /\ \A s \in Signals :
        /\ intents'[s].day = intents[s].day
        /\ intents'[s].state = "RESERVED" => intents[s].state = "RESERVED"

(* The steps in which a worker has no answer and no symbol in its hands.    *)
Resting == {"idle", "fence", "final", "call", "await", "rows", "cancelfail"}

SetsDown(w) ==
    /\ \A v \in Workers \ {w} : worker'[v] = worker[v]
    /\ worker'[w].pc \in Resting /\ worker[w].pc # "recompute"

(* A row that becomes UNKNOWN, or none.                                     *)
LEMMA SetUnknownQuiet ==
    ASSUME LedgerTypeOK, NEW s \in Signals, SetUnknown(s) \/ UNCHANGED intents,
           UNCHANGED <<held, fills, day>>,
           \A t \in Signals : venue'[t].filled = venue[t].filled
    PROVE  RowsQuiet /\ DaysQuiet
  BY SetUnknownRows DEF RowsQuiet, DaysQuiet, Terminal

(* No row at all.                                                           *)
LEMMA StillQuiet ==
    ASSUME UNCHANGED <<intents, held, fills, day>>,
           \A t \in Signals : venue'[t].filled = venue[t].filled
    PROVE  RowsQuiet /\ DaysQuiet
  BY DEF RowsQuiet, DaysQuiet

(* A call that returns has nothing in its hands.                            *)
LEMMA ReturnSetsDown ==
    ASSUME LedgerTypeOK, NEW w \in Workers, Return(w), worker[w].pc # "recompute"
    PROVE  SetsDown(w)
  BY DEF Return, Idle, LedgerTypeOK, SetsDown, Resting

(* Neither has a call that goes on to a step without one.                   *)
LEMMA GotoSetsDown ==
    ASSUME LedgerTypeOK, NEW w \in Workers, NEW pc \in Resting, Goto(w, pc),
           worker[w].pc # "recompute"
    PROVE  SetsDown(w)
  BY DEF Goto, LedgerTypeOK, WorkerType, SetsDown

(* Nor a worker that stays idle.                                            *)
LEMMA IdleSetsDown ==
    ASSUME NEW w \in Workers, worker[w].pc = "idle", UNCHANGED worker
    PROVE  SetsDown(w)
  BY DEF SetsDown, Resting

(* The quantity an order is filled to when the venue is told to cancel it.  *)
LEMMA StatusOnly ==
    ASSUME LedgerTypeOK, NEW s \in Signals, NEW status,
           venue' = [venue EXCEPT ![s].status = status]
    PROVE  \A t \in Signals : venue'[t].filled = venue[t].filled
  BY DEF LedgerTypeOK, VenueType

(* A cancel fills nothing.                                                  *)
LEMMA CancelKeepsFilled ==
    ASSUME LedgerTypeOK, NEW s \in Signals, CancelAtVenue(s) \/ UNCHANGED venue
    PROVE  \A t \in Signals : venue'[t].filled = venue[t].filled
  BY DEF LedgerTypeOK, VenueType, CancelAtVenue

(* The submission, from the first fence to the answer it drops.             *)
LEMMA SubmitQuiet ==
    ASSUME InductiveInvariant, NEW w \in Workers,
           \/ FirstFence(w) \/ FinalSubmitFence(w) \/ NetworkSubmit(w) \/ Ambiguous(w)
           \/ Acknowledged(w) /\ worker'[w].pc # "apply"
    PROVE  RowsQuiet /\ DaysQuiet /\ SetsDown(w) /\ UNCHANGED position
<1>1. LedgerTypeOK
  BY DEF InductiveInvariant
<1>2. PICK s \in Signals : s = worker[w].sig
  BY DEF FirstFence, FinalSubmitFence, NetworkSubmit, Ambiguous, Acknowledged, PreCall,
     InductiveInvariant, CallsAccounted, PreCallOK, PassOK
<1>3. CASE FirstFence(w) \/ FinalSubmitFence(w) \/ Ambiguous(w)
  <2>1. UNCHANGED <<venue, held, fills, day, position>> /\ (SetUnknown(s) \/ UNCHANGED intents)
    BY <1>2, <1>3 DEF FirstFence, FinalSubmitFence, FenceRejected, Ambiguous, ledger, market
  <2>2. Return(w) \/ Goto(w, "final") \/ Goto(w, "call")
    BY <1>3 DEF FirstFence, FinalSubmitFence, FenceRejected, Ambiguous
  <2>3. worker[w].pc # "recompute"
    BY <1>3 DEF FirstFence, FinalSubmitFence, Ambiguous
  <2>4. SetsDown(w)
    BY <1>1, <2>2, <2>3, ReturnSetsDown, GotoSetsDown DEF Resting
  <2>5. RowsQuiet /\ DaysQuiet
    BY <1>1, <2>1, SetUnknownQuiet
  <2> QED BY <2>1, <2>4, <2>5
<1>4. CASE NetworkSubmit(w)
  <2>1. UNCHANGED <<intents, held, fills, day, position>> /\ Goto(w, "await")
        /\ worker[w].pc # "recompute"
    BY <1>4 DEF NetworkSubmit, ledger
  <2>2. \A t \in Signals : venue'[t].filled = venue[t].filled
    BY <1>1, <1>2, <1>4, StatusOnly DEF NetworkSubmit
  <2>3. SetsDown(w)
    BY <1>1, <2>1, GotoSetsDown DEF Resting
  <2> QED BY <2>1, <2>2, <2>3, StillQuiet
<1>5. CASE Acknowledged(w) /\ worker'[w].pc # "apply"
  <2>1. UNCHANGED <<venue, held, fills, day, position>> /\ worker[w].pc = "await"
    BY <1>5 DEF Acknowledged, market
  <2>2. SetUnknown(s) /\ Return(w)
    <3>1. CASE control.generation # intents[s].generation \/ control.kill
      BY <1>2, <1>5, <3>1 DEF Acknowledged
    <3>2. CASE ~(control.generation # intents[s].generation \/ control.kill)
      <4>1. PICK r : worker' = [worker EXCEPT ![w].pc = "apply", ![w].resp = r]
        BY <1>2, <1>5, <3>2 DEF Acknowledged
      <4>2. worker'[w].pc = "apply"
        BY <1>1, <4>1 DEF LedgerTypeOK, WorkerType
      <4> QED BY <1>5, <4>2
    <3> QED BY <3>1, <3>2
  <2>3. SetsDown(w)
    BY <1>1, <2>1, <2>2, ReturnSetsDown
  <2> QED BY <1>1, <2>1, <2>2, <2>3, SetUnknownQuiet
<1> QED BY <1>3, <1>4, <1>5

(* A reconcile pass, but for the answers it gets and the positions.         *)
LEMMA PassQuiet ==
    ASSUME InductiveInvariant, NEW w \in Workers, NEW s \in Signals,
           QueryMissing(w, s) \/ QueryUnresolved(w, s)
    PROVE  RowsQuiet /\ DaysQuiet /\ SetsDown(w) /\ UNCHANGED position
<1>1. LedgerTypeOK /\ worker \in [Workers -> WorkerType]
  BY DEF InductiveInvariant, LedgerTypeOK
<1>2. /\ UNCHANGED <<venue, held, fills, day, position>>
      /\ SetUnknown(s) \/ UNCHANGED intents
      /\ worker[w].pc = "rows"
  BY DEF QueryMissing, QueryUnresolved, NextRow, market
<1>3. \/ worker' = [worker EXCEPT ![w].rows[s] = NoRows[s]]
      \/ worker' = [worker EXCEPT ![w].rows[s] = NoRows[s], ![w].failed = TRUE]
      \/ worker' = [worker EXCEPT ![w].rows[s] = NoRows[s], ![w].missing = TRUE]
  BY DEF QueryMissing, QueryUnresolved, Skip, Fail
<1>4. \A v \in Workers \ {w} : worker'[v] = worker[v]
  BY <1>1, <1>3
<1>5. worker'[w].pc = worker[w].pc
  BY <1>1, <1>3 DEF WorkerType
<1> QED BY <1>1, <1>2, <1>4, <1>5, SetUnknownQuiet DEF SetsDown, Resting

(* The begin and the end of a pass, and the account calls.                  *)
LEMMA CallQuiet ==
    ASSUME InductiveInvariant, NEW w \in Workers,
           \/ TradesFailure(w) \/ EndReconcile(w) \/ StartReconcile(w) \/ AccountFailure(w)
           \/ UpdateAccount(w)
    PROVE  RowsQuiet /\ DaysQuiet /\ SetsDown(w) /\ UNCHANGED position
<1>1. LedgerTypeOK /\ worker \in [Workers -> WorkerType]
  BY DEF InductiveInvariant, LedgerTypeOK
<1>2. UNCHANGED <<intents, venue, held, fills, day, position>>
  BY DEF TradesFailure, EndReconcile, StartReconcile, AccountFailure, UpdateAccount, ledger,
     market
<1>3. worker[w].pc # "recompute"
  BY DEF TradesFailure, EndReconcile, StartReconcile, AccountFailure, UpdateAccount
<1>4. SetsDown(w)
  <2>1. CASE EndReconcile(w)
    BY <1>1, <1>3, <2>1, ReturnSetsDown DEF EndReconcile
  <2>2. CASE AccountFailure(w) \/ UpdateAccount(w)
    BY <2>2, IdleSetsDown DEF AccountFailure, UpdateAccount
  <2>3. CASE TradesFailure(w) \/ StartReconcile(w)
    <3>1. PICK rows, failed :
            worker' = [worker EXCEPT ![w].pc = "rows", ![w].rows = rows, ![w].failed = failed]
      <4>1. CASE TradesFailure(w)
        <5>1. worker' = [worker EXCEPT ![w].pc = "rows", ![w].rows = worker[w].rows,
                                       ![w].failed = TRUE]
          BY <1>1, <4>1 DEF TradesFailure, WorkerType
        <5> QED BY <5>1
      <4>2. CASE StartReconcile(w)
        <5>1. PICK rows : worker' = [worker EXCEPT ![w].pc = "rows", ![w].rows = rows]
          BY <4>2 DEF StartReconcile
        <5>2. worker' = [worker EXCEPT ![w].pc = "rows", ![w].rows = rows,
                                       ![w].failed = worker[w].failed]
          BY <1>1, <5>1 DEF WorkerType
        <5> QED BY <5>2
      <4> QED BY <2>3, <4>1, <4>2
    <3>2. /\ worker'[w].pc = "rows"
          /\ \A v \in Workers \ {w} : worker'[v] = worker[v]
      BY <1>1, <3>1 DEF WorkerType
    <3> QED BY <1>3, <3>2 DEF SetsDown, Resting
  <2> QED BY <2>1, <2>2, <2>3
<1> QED BY <1>2, <1>4, StillQuiet

(* A cancel that fails, and the UNKNOWN row it leaves.                      *)
LEMMA CancelQuiet ==
    ASSUME InductiveInvariant, NEW w \in Workers,
           CancelUnknown(w) \/ \E s \in Signals : CancelFailure(w, s)
    PROVE  RowsQuiet /\ DaysQuiet /\ SetsDown(w) /\ UNCHANGED position
<1>1. LedgerTypeOK /\ worker \in [Workers -> WorkerType]
  BY DEF InductiveInvariant, LedgerTypeOK
<1>2. CASE CancelUnknown(w)
  <2>1. /\ UNCHANGED <<venue, held, fills, day, position>> /\ worker[w].pc = "cancelfail"
        /\ SetUnknown(worker[w].sig) /\ Return(w)
    BY <1>2 DEF CancelUnknown, market
  <2>2. worker[w].sig \in Signals
    BY <2>1 DEF InductiveInvariant, CallsAccounted, PassOK
  <2>3. SetsDown(w)
    BY <1>1, <2>1, ReturnSetsDown
  <2>4. RowsQuiet /\ DaysQuiet
    BY <1>1, <2>1, <2>2, SetUnknownQuiet
  <2> QED BY <2>1, <2>3, <2>4
<1>3. ASSUME NEW s \in Signals, CancelFailure(w, s)
      PROVE  RowsQuiet /\ DaysQuiet /\ SetsDown(w) /\ UNCHANGED position
  <2>1. /\ UNCHANGED <<intents, held, fills, day, position>> /\ worker[w].pc = "idle"
        /\ CancelAtVenue(s) \/ UNCHANGED venue
        /\ worker' = [worker EXCEPT ![w].pc = "cancelfail", ![w].sig = s]
    BY <1>3 DEF CancelFailure, Cancellable, ledger
  <2>2. \A t \in Signals : venue'[t].filled = venue[t].filled
    BY <1>1, <2>1, CancelKeepsFilled
  <2>3. SetsDown(w)
    BY <1>1, <2>1 DEF WorkerType, SetsDown, Resting
  <2> QED BY <2>1, <2>2, <2>3, StillQuiet
<1> QED BY <1>2, <1>3

(* All of them.                                                             *)
QuietStep(w) ==
    \/ FirstFence(w) \/ FinalSubmitFence(w) \/ NetworkSubmit(w) \/ Ambiguous(w)
    \/ Acknowledged(w) /\ worker'[w].pc # "apply"
    \/ \E s \in Signals : QueryMissing(w, s) \/ QueryUnresolved(w, s) \/ CancelFailure(w, s)
    \/ TradesFailure(w) \/ EndReconcile(w) \/ StartReconcile(w) \/ AccountFailure(w)
    \/ UpdateAccount(w) \/ CancelUnknown(w)

(* None of them moves a ledger, a final row or the day.                     *)
LEMMA QuietSteps ==
    ASSUME InductiveInvariant, NEW w \in Workers, QuietStep(w)
    PROVE  RowsQuiet /\ DaysQuiet /\ SetsDown(w) /\ UNCHANGED position
  BY SubmitQuiet, PassQuiet, CallQuiet, CancelQuiet DEF QuietStep

(* The claim: RESERVED becomes SUBMITTING, with the day.                    *)
LEMMA ClaimEffect ==
    ASSUME InductiveInvariant, NEW w \in Workers, Claim(w),
           NEW s \in Signals, s = worker[w].sig
    PROVE  /\ RowsQuiet /\ SetsDown(w) /\ UNCHANGED <<position, day>>
           /\ \A t \in Signals \ {s} : intents'[t] = intents[t]
           /\ \/ UNCHANGED intents /\ intents[s].state # "RESERVED"
              \/ /\ intents[s].state = "RESERVED" /\ intents'[s].state = "SUBMITTING"
                 /\ intents'[s].day = day
<1>1. LedgerTypeOK
  BY DEF InductiveInvariant
<1>2. UNCHANGED <<venue, held, fills, day, position>> /\ worker[w].pc = "claim"
  BY DEF Claim, market
<1>3. CASE intents[s].state # "RESERVED"
  <2>1. UNCHANGED intents /\ Return(w)
    BY <1>3 DEF Claim
  <2>2. SetsDown(w)
    BY <1>1, <1>2, <2>1, ReturnSetsDown
  <2>3. RowsQuiet
    BY <1>2, <2>1, StillQuiet
  <2> QED BY <1>2, <1>3, <2>1, <2>2, <2>3
<1>4. CASE intents[s].state = "RESERVED"
  <2>1. Goto(w, "fence") /\ intents' = [intents EXCEPT ![s].state = "SUBMITTING", ![s].day = day]
    BY <1>4 DEF Claim
  <2>2. SetsDown(w)
    BY <1>1, <1>2, <2>1, GotoSetsDown DEF Resting
  <2>3. /\ \A t \in Signals \ {s} : intents'[t] = intents[t]
        /\ intents'[s].state = "SUBMITTING" /\ intents'[s].day = day
        /\ intents'[s].qty = intents[s].qty
    BY <1>1, <2>1 DEF LedgerTypeOK, IntentType
  <2>4. RowsQuiet
    BY <1>2, <1>4, <2>3 DEF RowsQuiet, Terminal
  <2> QED BY <1>2, <1>4, <2>2, <2>3, <2>4
<1> QED BY <1>3, <1>4

-----------------------------------------------------------------------------
(* Answers, positions and the way through a pass                           *)

(* Nothing but the workers and the control row moves.                       *)
OnlyWorker(w) ==
    /\ UNCHANGED <<intents, held, fills, day>>
    /\ \A t \in Signals : venue'[t].filled = venue[t].filled
    /\ \A v \in Workers \ {w} : worker'[v] = worker[v]

(* The venue answers with the order as it is.                               *)
LEMMA AnswerEffect ==
    ASSUME InductiveInvariant, NEW w \in Workers,
           \/ Acknowledged(w) /\ worker'[w].pc = "apply"
           \/ \E t \in Signals : QueryAnswered(w, t) \/ Cancel(w, t)
    PROVE  /\ OnlyWorker(w) /\ UNCHANGED position
           /\ worker[w].pc \in {"await", "rows", "idle"}
           /\ worker'[w].pc = "apply"
           /\ \E s \in Signals :
                /\ worker'[w].sig = s
                /\ worker'[w].resp.cumulative = venue[s].filled
                /\ worker'[w].resp.state = "REJECTED" => venue[s].filled = 0
                /\ worker'[w].resp.state = "FILLED" => venue[s].status = "FILLED"
                /\ worker'[w].resp.state \in {"CANCELED", "EXPIRED"} =>
                        venue[s].status \in {"NEW", "CANCELED", "EXPIRED"}
<1>1. LedgerTypeOK /\ worker \in [Workers -> WorkerType]
  BY DEF InductiveInvariant, LedgerTypeOK
<1>2. CASE Acknowledged(w) /\ worker'[w].pc = "apply"
  <2>1. PICK s \in Signals : s = worker[w].sig
    BY <1>2 DEF Acknowledged, InductiveInvariant, CallsAccounted, PassOK
  <2>2. UNCHANGED <<held, fills, day, position, venue>> /\ worker[w].pc = "await"
    BY <1>2 DEF Acknowledged, market
  <2>3. CASE control.generation # intents[s].generation \/ control.kill
    <3>1. Return(w)
      BY <1>2, <2>1, <2>3 DEF Acknowledged
    <3>2. worker'[w].pc = "idle"
      BY <1>1, <3>1 DEF Return, Idle
    <3> QED BY <1>2, <3>2
  <2>4. CASE ~(control.generation # intents[s].generation \/ control.kill)
    <3>1. /\ UNCHANGED intents
          /\ \E trades \in {0, venue[s].filled} :
                worker' = [worker EXCEPT ![w].pc = "apply", ![w].resp = Snapshot(s, trades)]
      BY <1>2, <2>1, <2>4 DEF Acknowledged
    <3>2. PICK trades : worker' = [worker EXCEPT ![w].pc = "apply",
                                                 ![w].resp = Snapshot(s, trades)]
      BY <3>1
    <3>3. /\ worker'[w].resp = Snapshot(s, trades) /\ worker'[w].sig = s
          /\ \A v \in Workers \ {w} : worker'[v] = worker[v]
      BY <1>1, <2>1, <3>2 DEF WorkerType
    <3>4. /\ Snapshot(s, trades).cumulative = venue[s].filled
          /\ Snapshot(s, trades).state = "REJECTED" => venue[s].status = "REJECTED"
          /\ Snapshot(s, trades).state = "FILLED" => venue[s].status = "FILLED"
          /\ Snapshot(s, trades).state \in {"CANCELED", "EXPIRED"} =>
                venue[s].status \in {"CANCELED", "EXPIRED"}
      BY DEF Snapshot, Observed
    <3>5. venue[s].status = "REJECTED" => venue[s].filled = 0
      BY DEF InductiveInvariant, CallsAccounted, VenueOK
    <3> QED BY <1>2, <2>2, <3>1, <3>3, <3>4, <3>5 DEF OnlyWorker
  <2> QED BY <2>3, <2>4
<1>3. ASSUME NEW s \in Signals, QueryAnswered(w, s)
      PROVE  /\ OnlyWorker(w) /\ UNCHANGED position
             /\ worker[w].pc = "rows" /\ worker'[w].pc = "apply" /\ worker'[w].sig = s
             /\ worker'[w].resp.cumulative = venue[s].filled
             /\ worker'[w].resp.state = "REJECTED" => venue[s].filled = 0
             /\ worker'[w].resp.state = "FILLED" => venue[s].status = "FILLED"
             /\ worker'[w].resp.state \in {"CANCELED", "EXPIRED"} =>
                    venue[s].status \in {"NEW", "CANCELED", "EXPIRED"}
  <2>1. /\ UNCHANGED <<intents, held, fills, day, position, venue>> /\ worker[w].pc = "rows"
        /\ Known(s)
        /\ worker' = [worker EXCEPT ![w].pc = "apply", ![w].sig = s,
                                    ![w].resp = Snapshot(s, 0),
                                    ![w].after = "trades",
                                    ![w].rows[s] = NoRows[s]]
    BY <1>3 DEF QueryAnswered, NextRow, ledger, market
  <2>2. /\ worker'[w].resp = Snapshot(s, 0) /\ worker'[w].sig = s /\ worker'[w].pc = "apply"
        /\ \A v \in Workers \ {w} : worker'[v] = worker[v]
    BY <1>1, <2>1 DEF WorkerType
  <2>3. /\ Snapshot(s, 0).cumulative = venue[s].filled
        /\ Snapshot(s, 0).state # "REJECTED"
        /\ Snapshot(s, 0).state = "FILLED" => venue[s].status = "FILLED"
        /\ Snapshot(s, 0).state \in {"CANCELED", "EXPIRED"} =>
                venue[s].status \in {"CANCELED", "EXPIRED"}
    BY <2>1 DEF Snapshot, Observed, Known
  <2> QED BY <2>1, <2>2, <2>3 DEF OnlyWorker
<1>4. ASSUME NEW s \in Signals, Cancel(w, s)
      PROVE  /\ OnlyWorker(w) /\ UNCHANGED position
             /\ worker[w].pc = "idle" /\ worker'[w].pc = "apply" /\ worker'[w].sig = s
             /\ worker'[w].resp.cumulative = venue[s].filled
             /\ worker'[w].resp.state = "REJECTED" => venue[s].filled = 0
             /\ worker'[w].resp.state = "FILLED" => venue[s].status = "FILLED"
             /\ worker'[w].resp.state \in {"CANCELED", "EXPIRED"} =>
                    venue[s].status \in {"NEW", "CANCELED", "EXPIRED"}
  <2>1. /\ UNCHANGED <<intents, held, fills, day, position>> /\ worker[w].pc = "idle"
        /\ CancelAtVenue(s) /\ venue[s].status = "NEW"
        /\ worker' = [worker EXCEPT ![w].pc = "apply", ![w].sig = s,
            ![w].resp = [state |-> "CANCELED", cumulative |-> venue[s].filled,
                         trades |-> 0]]
    BY <1>4 DEF Cancel, Cancellable, ledger
  <2>2. \A t \in Signals : venue'[t].filled = venue[t].filled
    BY <1>1, <2>1, CancelKeepsFilled
  <2>3. /\ worker'[w].resp = [state |-> "CANCELED", cumulative |-> venue[s].filled,
                              trades |-> 0]
        /\ worker'[w].sig = s /\ worker'[w].pc = "apply"
        /\ \A v \in Workers \ {w} : worker'[v] = worker[v]
    BY <1>1, <2>1 DEF WorkerType
  <2>4. /\ worker'[w].resp.cumulative = venue[s].filled
        /\ worker'[w].resp.state = "CANCELED"
    BY <2>3
  <2>5. OnlyWorker(w)
    BY <2>1, <2>2, <2>3 DEF OnlyWorker
  <2> QED BY <2>1, <2>3, <2>4, <2>5
<1> QED BY <1>2, <1>3, <1>4

(* A position row is recomputed for the order in hand.                      *)
LEMMA RecomputePositionEffect ==
    ASSUME InductiveInvariant, NEW w \in Workers, RecomputePosition(w)
    PROVE  /\ OnlyWorker(w) /\ worker[w].pc = "recompute"
           /\ position' = [position EXCEPT ![Symbol[worker[w].sig]] =
                                NetPosition(Symbol[worker[w].sig])]
           /\ worker'[w].pc \in {"feepause", worker[w].then}
           /\ worker'[w].sig = worker[w].sig /\ worker'[w].resp = worker[w].resp
           /\ worker'[w].then = worker[w].then /\ worker'[w].syms = worker[w].syms
<1>1. worker \in [Workers -> WorkerType]
  BY DEF InductiveInvariant, LedgerTypeOK
<1>2. PICK pc \in {"feepause", worker[w].then} : Goto(w, pc)
  BY DEF RecomputePosition
<1>3. /\ worker'[w].pc = pc /\ \A v \in Workers \ {w} : worker'[v] = worker[v]
      /\ worker'[w].sig = worker[w].sig /\ worker'[w].resp = worker[w].resp
      /\ worker'[w].then = worker[w].then /\ worker'[w].syms = worker[w].syms
  BY <1>1, <1>2 DEF Goto, WorkerType
<1> QED BY <1>2, <1>3 DEF RecomputePosition, OnlyWorker, market

(* The pause after it.                                                      *)
LEMMA UnknownFeePauseEffect ==
    ASSUME InductiveInvariant, NEW w \in Workers, UnknownFeePause(w)
    PROVE  /\ OnlyWorker(w) /\ UNCHANGED position /\ worker[w].pc = "feepause"
           /\ worker'[w].pc = worker[w].then
           /\ worker[w].then # "idle" =>
                /\ worker'[w].sig = worker[w].sig /\ worker'[w].resp = worker[w].resp
                /\ worker'[w].then = worker[w].then /\ worker'[w].syms = worker[w].syms
<1>1. worker \in [Workers -> WorkerType]
  BY DEF InductiveInvariant, LedgerTypeOK
<1>2. CASE worker[w].then = "idle"
  <2>1. worker' = [worker EXCEPT ![w] = Idle(worker[w].identity)]
    BY <1>2 DEF UnknownFeePause, Return
  <2>2. worker'[w].pc = "idle" /\ \A v \in Workers \ {w} : worker'[v] = worker[v]
    BY <1>1, <2>1 DEF Idle
  <2> QED BY <1>2, <2>2 DEF UnknownFeePause, OnlyWorker, ledger, market
<1>3. CASE worker[w].then # "idle"
  <2>1. Goto(w, worker[w].then)
    BY <1>3 DEF UnknownFeePause
  <2>2. /\ worker'[w].pc = worker[w].then /\ \A v \in Workers \ {w} : worker'[v] = worker[v]
        /\ worker'[w].sig = worker[w].sig /\ worker'[w].resp = worker[w].resp
        /\ worker'[w].then = worker[w].then /\ worker'[w].syms = worker[w].syms
    BY <1>1, <2>1 DEF Goto, WorkerType
  <2> QED BY <2>2 DEF UnknownFeePause, OnlyWorker, ledger, market
<1> QED BY <1>2, <1>3

(* The answer is applied again only when it is final and fully traded.      *)
LEMMA ReapplyEffect ==
    ASSUME InductiveInvariant, NEW w \in Workers, Reapply(w)
    PROVE  /\ OnlyWorker(w) /\ UNCHANGED position /\ worker[w].pc = "reapply"
           /\ \/ /\ worker'[w].pc = "recompute"
                 /\ worker[w].resp.state \in Terminal
              \/ worker'[w].pc = "rows"
           /\ worker'[w].sig = worker[w].sig /\ worker'[w].resp = worker[w].resp
           /\ worker'[w].then = "apply" /\ worker'[w].syms = worker[w].syms
<1>1. worker \in [Workers -> WorkerType]
  BY DEF InductiveInvariant, LedgerTypeOK
<1>2. PICK pc : /\ worker' = [worker EXCEPT ![w].pc = pc, ![w].then = "apply",
                                            ![w].after = "rows"]
                /\ \/ pc = "recompute" /\ worker[w].resp.state \in Terminal
                   \/ pc = "rows"
  <2> DEFINE pc == IF /\ worker[w].resp.state \in {"CANCELED", "EXPIRED", "FILLED"}
                      /\ worker[w].resp.cumulative > 0
                      /\ fills[worker[w].sig] >= worker[w].resp.cumulative
                   THEN "recompute" ELSE "rows"
  <2>1. worker' = [worker EXCEPT ![w].pc = pc, ![w].then = "apply", ![w].after = "rows"]
    BY DEF Reapply
  <2>2. \/ pc = "recompute" /\ worker[w].resp.state \in Terminal
        \/ pc = "rows"
    BY DEF Terminal
  <2> HIDE DEF pc
  <2> QED BY <2>1, <2>2
<1>3. /\ worker'[w].pc = pc /\ \A v \in Workers \ {w} : worker'[v] = worker[v]
      /\ worker'[w].sig = worker[w].sig /\ worker'[w].resp = worker[w].resp
      /\ worker'[w].then = "apply" /\ worker'[w].syms = worker[w].syms
  BY <1>1, <1>2 DEF WorkerType
<1> QED BY <1>2, <1>3 DEF Reapply, OnlyWorker, ledger, market

(* The pass turns to the positions of all symbols with trades.              *)
LEMMA EndRowsEffect ==
    ASSUME InductiveInvariant, NEW w \in Workers, EndRows(w)
    PROVE  /\ OnlyWorker(w) /\ UNCHANGED position /\ worker[w].pc = "rows"
           /\ worker'[w].pc = "positions"
           /\ worker'[w].syms = {sym \in Symbols : \E s \in Of(sym) : fills[s] > 0}
<1>1. worker \in [Workers -> WorkerType]
  BY DEF InductiveInvariant, LedgerTypeOK
<1>2. PICK syms : /\ syms = {sym \in Symbols : \E s \in Of(sym) : fills[s] > 0}
                  /\ worker' = [worker EXCEPT ![w].pc = "positions", ![w].syms = syms]
  BY DEF EndRows
<1>3. /\ worker'[w].pc = "positions" /\ \A v \in Workers \ {w} : worker'[v] = worker[v]
      /\ worker'[w].syms = syms
  BY <1>1, <1>2 DEF WorkerType
<1> QED BY <1>2, <1>3 DEF EndRows, OnlyWorker, ledger, market

(* It recomputes them one by one.                                           *)
LEMMA RecomputeOneEffect ==
    ASSUME InductiveInvariant, NEW w \in Workers, NEW sym \in Symbols, RecomputeOne(w, sym)
    PROVE  /\ OnlyWorker(w) /\ worker[w].pc = "positions"
           /\ position' = [position EXCEPT ![sym] = NetPosition(sym)]
           /\ worker'[w].pc \in {"feepause", "positions"} /\ worker'[w].then = "positions"
           /\ worker'[w].syms = worker[w].syms \ {sym}
<1>1. worker \in [Workers -> WorkerType]
  BY DEF InductiveInvariant, LedgerTypeOK
<1>2. worker[w].pc = "positions"
  BY DEF RecomputeOne
<1>3. PICK pc \in {"feepause", "positions"} :
        worker' = [worker EXCEPT ![w].syms = worker[w].syms \ {sym},
                                 ![w].then = "positions", ![w].pc = pc]
  <2> DEFINE pc == IF NetPosition(sym).unknown /\ control.state = "ARMED"
                     THEN "feepause" ELSE worker[w].pc
  <2>1. pc \in {"feepause", "positions"}
    BY <1>2
  <2>2. worker' = [worker EXCEPT ![w].syms = worker[w].syms \ {sym},
                                 ![w].then = "positions", ![w].pc = pc]
    BY <1>1 DEF RecomputeOne, WorkerType
  <2> HIDE DEF pc
  <2> QED BY <2>1, <2>2
<1>4. /\ worker'[w].pc = pc /\ \A v \in Workers \ {w} : worker'[v] = worker[v]
      /\ worker'[w].syms = worker[w].syms \ {sym} /\ worker'[w].then = "positions"
  BY <1>1, <1>3 DEF WorkerType
<1> QED BY <1>2, <1>3, <1>4 DEF RecomputeOne, OnlyWorker, market

(* So does a mark.                                                          *)
LEMMA MarkEffect ==
    ASSUME InductiveInvariant, NEW w \in Workers, NEW sym \in Symbols, Mark(w, sym)
    PROVE  /\ OnlyWorker(w) /\ worker[w].pc = "idle"
           /\ position' = [position EXCEPT ![sym] = NetPosition(sym)]
           /\ \/ worker'[w].pc = "idle"
              \/ worker'[w].pc = "feepause" /\ worker'[w].then = "idle"
<1>1. worker \in [Workers -> WorkerType]
  BY DEF InductiveInvariant, LedgerTypeOK
<1>2. CASE NetPosition(sym).unknown /\ control.state = "ARMED"
  <2>1. worker' = [worker EXCEPT ![w].pc = "feepause", ![w].then = "idle"]
    BY <1>2 DEF Mark
  <2>2. /\ worker'[w].pc = "feepause" /\ worker'[w].then = "idle"
        /\ \A v \in Workers \ {w} : worker'[v] = worker[v]
    BY <1>1, <2>1 DEF WorkerType
  <2> QED BY <2>2 DEF Mark, OnlyWorker, market
<1>3. CASE ~(NetPosition(sym).unknown /\ control.state = "ARMED")
  <2>1. UNCHANGED worker
    BY <1>3 DEF Mark
  <2> QED BY <2>1 DEF Mark, OnlyWorker, market
<1> QED BY <1>2, <1>3

(* A death leaves what is durable.                                          *)
LEMMA RestartEffect ==
    ASSUME InductiveInvariant, NEW w \in Workers, Restart(w)
    PROVE  /\ OnlyWorker(w) /\ UNCHANGED position /\ worker'[w].pc = "idle"
           /\ restarts < MaxRestarts
<1>1. PICK i \in Identities : worker' = [worker EXCEPT ![w] = Idle(i)]
  BY DEF Restart
<1>2. worker'[w].pc = "idle" /\ \A v \in Workers \ {w} : worker'[v] = worker[v]
  BY <1>1 DEF InductiveInvariant, LedgerTypeOK, Idle
<1> QED BY <1>2 DEF Restart, OnlyWorker, ledger, market

-----------------------------------------------------------------------------
(* Reservations and rows that come and go                                  *)

(* What _apply_order_result and _ingest_fills leave alone.                  *)
LEMMA GrowthFrame ==
    ASSUME InductiveInvariant, NEW w \in Workers, ApplyOrderResult(w) \/ IngestFills(w)
    PROVE  /\ UNCHANGED <<held, position, venue, day>>
           /\ Carries(w) /\ worker[w].sig \in Signals
           /\ worker[w].pc \in {"apply", "trades"}
<1>1. Carries(w) /\ worker[w].pc \in {"apply", "trades"}
  BY DEF ApplyOrderResult, IngestFills, Carries
<1>2. worker[w].sig \in Signals
  BY <1>1 DEF InductiveInvariant, CallsAccounted, AnswerOK
<1> QED BY <1>1, <1>2 DEF ApplyOrderResult, IngestFills, market

(* A refused signal: a row without quantity, and nothing of it elsewhere.   *)
LEMMA RejectSignalEffect ==
    ASSUME InductiveInvariant, NEW w \in Workers, NEW s \in Signals, RejectSignal(w, s)
    PROVE  /\ UNCHANGED <<held, fills, position, venue, day, worker>>
           /\ held[s] = "none" /\ fills[s] = 0 /\ venue[s].filled = 0
           /\ \A t \in Signals \ {s} : intents'[t] = intents[t]
           /\ intents[s].state = "none" /\ worker[w].pc = "idle"
           /\ intents'[s].state = "REJECTED" /\ intents'[s].qty = 0 /\ intents'[s].day = 0
<1> DEFINE row == [NoRow EXCEPT !.state = "REJECTED", !.generation = control.generation]
<1>1. row.state = "REJECTED" /\ row.qty = 0 /\ row.day = 0
  BY DEF NoRow
<1>2. intents \in [Signals -> IntentType] /\ intents' = [intents EXCEPT ![s] = row]
  BY DEF RejectSignal, InductiveInvariant, LedgerTypeOK
<1>3. Fresh(s)
  BY DEF RejectSignal
<1> HIDE DEF row
<1> QED BY <1>1, <1>2, <1>3, NewRow DEF RejectSignal, Fresh, market

(* A reservation: a new row with its quantity, and its risk.                *)
LEMMA ReserveAndSendEffect ==
    ASSUME InductiveInvariant, NEW w \in Workers, NEW s \in Signals,
           NEW q \in 1..MaxQuantity, ReserveAndSend(w, s, q)
    PROVE  /\ UNCHANGED <<fills, position, venue, day>>
           /\ held[s] = "none" /\ fills[s] = 0 /\ venue[s].filled = 0
           /\ \A t \in Signals \ {s} : intents'[t] = intents[t] /\ held'[t] = held[t]
           /\ held'[s] = "HELD" /\ intents[s].state = "none"
           /\ intents'[s].state = "RESERVED" /\ intents'[s].qty = q /\ intents'[s].day = 0
           /\ \A v \in Workers \ {w} : worker'[v] = worker[v]
           /\ worker[w].pc = "idle" /\ worker'[w].pc = "claim" /\ worker'[w].sig = s
<1> DEFINE row == [NoRow EXCEPT !.state = "RESERVED", !.qty = q,
                                !.generation = control.generation]
<1>1. row.state = "RESERVED" /\ row.qty = q /\ row.day = 0
  BY DEF NoRow
<1>2. /\ intents \in [Signals -> IntentType] /\ intents' = [intents EXCEPT ![s] = row]
      /\ held \in [Signals -> {"none", "HELD", "RELEASED"}]
      /\ held' = [held EXCEPT ![s] = "HELD"]
  BY DEF ReserveAndSend, InductiveInvariant, LedgerTypeOK
<1>3. Fresh(s) /\ worker[w].pc = "idle" /\ UNCHANGED <<fills, position, venue, day>>
  BY DEF ReserveAndSend, market
<1>4. /\ \A v \in Workers \ {w} : worker'[v] = worker[v]
      /\ worker'[w].pc = "claim" /\ worker'[w].sig = s
  BY DEF ReserveAndSend, InductiveInvariant, LedgerTypeOK, WorkerType
<1> HIDE DEF row
<1> QED BY <1>1, <1>2, <1>3, <1>4, NewRow DEF Fresh

(* A reservation given back: of an order that never left.                   *)
LEMMA ExpireUnsentEffect ==
    ASSUME InductiveInvariant, NEW w \in Workers, ExpireUnsent(w)
    PROVE  /\ UNCHANGED <<fills, position, venue, day>> /\ SetsDown(w)
           /\ \/ UNCHANGED <<intents, held>>
              \/ \E s \in Signals :
                    /\ venue[s].filled = 0 /\ fills[s] = 0
                    /\ \A t \in Signals \ {s} : intents'[t] = intents[t] /\ held'[t] = held[t]
                    /\ held[s] = "HELD" /\ held'[s] = "RELEASED"
                    /\ intents'[s].state = "REJECTED" /\ intents'[s].qty = intents[s].qty
                    /\ intents'[s].day = intents[s].day
<1>1. PICK s \in Signals : s = worker[w].sig
  BY DEF ExpireUnsent, InductiveInvariant, CallsAccounted, PreCallOK, PreCall
<1>2. /\ held[s] = "HELD" /\ venue[s].status = "absent"
      /\ worker[w].pc # "recompute"
      /\ Return(w) /\ UNCHANGED <<fills, venue, position, day>>
  BY <1>1 DEF ExpireUnsent, InductiveInvariant, CallsAccounted, PreCallOK, PreCall, market
<1>3. SetsDown(w)
  BY <1>2, ReturnSetsDown DEF InductiveInvariant
<1>4. venue[s].filled = 0 /\ fills[s] = 0
  BY <1>2, RowTypes DEF InductiveInvariant, CallsAccounted, VenueOK
<1>5. CASE UNCHANGED <<intents, held>>
  BY <1>2, <1>3, <1>5
<1>6. CASE /\ intents' = [intents EXCEPT ![s].state = "REJECTED"]
           /\ held' = [held EXCEPT ![s] = "RELEASED"]
  <2>1. /\ \A t \in Signals \ {s} : intents'[t] = intents[t] /\ held'[t] = held[t]
        /\ held'[s] = "RELEASED"
        /\ intents'[s].state = "REJECTED" /\ intents'[s].qty = intents[s].qty
        /\ intents'[s].day = intents[s].day
    BY <1>6 DEF InductiveInvariant, LedgerTypeOK, IntentType
  <2> QED BY <1>2, <1>3, <1>4, <2>1
<1> QED BY <1>1, <1>5, <1>6 DEF ExpireUnsent

(* _release: the reservation of a final row with the trades it counts.      *)
ReleasesEvidenced(s) ==
    /\ \A t \in Signals \ {s} : held'[t] = held[t]
    /\ \/ held'[s] = held[s]
       \/ /\ held[s] = "HELD" /\ held'[s] = "RELEASED"
          /\ intents[s].state \in Terminal
          /\ intents[s].state = "FILLED" =>
                fills[s] >= IF intents[s].cumulative > 0 THEN intents[s].cumulative
                            ELSE intents[s].qty

(* _release_if_done is such a step.                                         *)
LEMMA ReleaseIfDoneEffect ==
    ASSUME LedgerTypeOK, NEW s \in Signals, ReleaseIfDone(s)
    PROVE  ReleasesEvidenced(s)
  BY DEF LedgerTypeOK, ReleaseIfDone, ReleasesEvidenced, FilledEvidenceSufficient

(* At the end of an applied answer, and for a row found settled.            *)
LEMMA ReleaseEffect ==
    ASSUME InductiveInvariant, NEW w \in Workers,
           Release(w) \/ \E s \in Signals : ReleaseFilled(w, s)
    PROVE  /\ UNCHANGED <<intents, fills, position, venue, day>>
           /\ \E s \in Signals : ReleasesEvidenced(s)
           /\ \A v \in Workers \ {w} : worker'[v] = worker[v]
           /\ worker[w].pc \in {"release", "rows"}
           /\ \/ worker'[w].pc \in {"idle", "rows"}
              \/ /\ worker[w].pc = "release"
                 /\ worker'[w].pc \in {"trades", "reapply"}
                 /\ worker'[w].sig = worker[w].sig /\ worker'[w].resp = worker[w].resp
                 /\ worker'[w].then = worker[w].then
<1>1. LedgerTypeOK /\ worker \in [Workers -> WorkerType]
  BY DEF InductiveInvariant, LedgerTypeOK
<1>2. CASE Release(w)
  <2>1. /\ UNCHANGED <<intents, fills, position, venue, day>> /\ worker[w].pc = "release"
        /\ ReleaseIfDone(worker[w].sig)
    BY <1>2 DEF Release, market
  <2>2. worker[w].sig \in Signals
    BY <2>1 DEF InductiveInvariant, CallsAccounted, AnswerOK, Carries
  <2>3. CASE worker[w].after = "idle"
    <3>1. worker' = [worker EXCEPT ![w] = Idle(worker[w].identity)]
      BY <1>2, <2>3 DEF Release, Return
    <3>2. worker'[w].pc = "idle" /\ \A v \in Workers \ {w} : worker'[v] = worker[v]
      BY <1>1, <3>1 DEF Idle
    <3> QED BY <1>1, <2>1, <2>2, <3>2, ReleaseIfDoneEffect
  <2>4. CASE worker[w].after # "idle"
    <3>1. worker' = [worker EXCEPT ![w].pc = worker[w].after]
      BY <1>2, <2>4 DEF Release, Goto
    <3>2. /\ worker'[w].pc = worker[w].after
          /\ \A v \in Workers \ {w} : worker'[v] = worker[v]
          /\ worker'[w].sig = worker[w].sig /\ worker'[w].resp = worker[w].resp
          /\ worker'[w].then = worker[w].then
      BY <1>1, <3>1 DEF WorkerType
    <3>3. worker[w].after \in {"idle", "trades", "reapply", "rows"}
      BY <1>1 DEF WorkerType
    <3> QED BY <1>1, <2>1, <2>2, <3>2, <3>3, ReleaseIfDoneEffect
  <2> QED BY <2>3, <2>4
<1>3. ASSUME NEW s \in Signals, ReleaseFilled(w, s)
      PROVE  /\ UNCHANGED <<intents, fills, position, venue, day>>
             /\ ReleasesEvidenced(s)
             /\ \A v \in Workers \ {w} : worker'[v] = worker[v]
             /\ worker[w].pc = "rows" /\ worker'[w].pc = "rows"
  <2>1. /\ UNCHANGED <<intents, fills, position, venue, day>> /\ worker[w].pc = "rows"
        /\ ReleaseIfDone(s) /\ worker' = [worker EXCEPT ![w].rows[s] = NoRows[s]]
    BY <1>3 DEF ReleaseFilled, NextRow, Skip, market
  <2>2. worker'[w].pc = "rows" /\ \A v \in Workers \ {w} : worker'[v] = worker[v]
    BY <1>1, <2>1 DEF WorkerType
  <2> QED BY <1>1, <2>1, <2>2, ReleaseIfDoneEffect
<1> QED BY <1>2, <1>3

-----------------------------------------------------------------------------
(* Steps of the operator, the venue and the clock                           *)

(* Nothing here fills an order.                                             *)
OutsideStill ==
    /\ UNCHANGED <<intents, held, fills, position, worker>>
    /\ \A t \in Signals : venue'[t].filled = venue[t].filled

(* The operator, the clock and most of the venue are outside.               *)
LEMMA OutsideEffect ==
    ASSUME InductiveInvariant,
           \/ OperatorStep \/ NewDay \/ UNCHANGED vars \/ VenueReset
           \/ \E s \in Signals : VenueAccepts(s) \/ VenueEnds(s)
    PROVE  \/ OutsideStill /\ day' = day
           \/ NewDay /\ OutsideStill
<1>1. LedgerTypeOK
  BY DEF InductiveInvariant
<1>2. UNCHANGED <<intents, held, fills, position, worker>> /\ (day' = day \/ NewDay)
  BY DEF OperatorStep, EnableAutoCanary, Operator, NewDay, vars, VenueReset, VenueAccepts,
     VenueEnds, ledger, market
<1>3. CASE OperatorStep \/ NewDay \/ UNCHANGED vars
  <2>1. UNCHANGED venue
    BY <1>3 DEF OperatorStep, EnableAutoCanary, Operator, NewDay, vars, market
  <2> QED BY <1>2, <2>1 DEF OutsideStill
<1>4. CASE VenueReset
  <2>1. \A t \in Signals : venue'[t].filled = venue[t].filled
    BY <1>1, <1>4 DEF VenueReset, LedgerTypeOK, VenueType
  <2> QED BY <1>2, <2>1 DEF OutsideStill
<1>5. ASSUME NEW s \in Signals, VenueAccepts(s) \/ VenueEnds(s)
      PROVE  \A t \in Signals : venue'[t].filled = venue[t].filled
  <2>1. PICK status : venue' = [venue EXCEPT ![s].status = status]
    BY <1>5 DEF VenueAccepts, VenueEnds
  <2> QED BY <1>1, <2>1, StatusOnly
<1> QED BY <1>2, <1>3, <1>4, <1>5 DEF OutsideStill

(* An open order is filled by one.                                          *)
LEMMA VenueFillsEffect ==
    ASSUME InductiveInvariant, NEW s \in Signals, VenueFills(s)
    PROVE  /\ UNCHANGED <<intents, held, fills, position, worker, day>>
           /\ venue[s].status = "NEW" /\ held[s] = "HELD"
           /\ intents[s].state \notin Terminal
           /\ \A t \in Signals \ {s} : venue'[t] = venue[t]
<1>1. RowOK(s) /\ VenueOK(s) /\ venue[s].status = "NEW"
  BY DEF InductiveInvariant, CallsAccounted, VenueFills
<1>2. held[s] = "HELD"
  BY <1>1, RowTypes DEF InductiveInvariant, RowOK
<1>3. intents[s].state \notin Terminal
  BY <1>1, <1>2 DEF RowOK, Dead
<1>4. \A t \in Signals \ {s} : venue'[t] = venue[t]
  BY DEF VenueFills, InductiveInvariant, LedgerTypeOK
<1> QED BY <1>1, <1>2, <1>3, <1>4 DEF VenueFills, ledger

-----------------------------------------------------------------------------
(* The evidence of an order that is over                                    *)

(* Rows, reservations and trades as they were, or not final.                *)
LEMMA QuietEvidence ==
    ASSUME LedgerTypeOK, EvidenceInvariant, RowsQuiet
    PROVE  \A s \in Signals : EvidenceOK(s)'
<1> SUFFICES ASSUME NEW s \in Signals PROVE EvidenceOK(s)'
  OBVIOUS
<1>1. EvidenceOK(s)
  BY DEF EvidenceInvariant
<1>2. held'[s] = held[s] /\ fills'[s] = fills[s] /\ venue'[s].filled = venue[s].filled
  BY DEF RowsQuiet
<1>3. CASE intents'[s].state = intents[s].state /\ intents'[s].cumulative = intents[s].cumulative
  BY <1>1, <1>2, <1>3 DEF EvidenceOK
<1>4. CASE intents'[s].state \notin Terminal
  BY <1>1, <1>2, <1>4 DEF EvidenceOK, Terminal
<1> QED BY <1>3, <1>4 DEF RowsQuiet

(* A step on a worker alone leaves the rows as they are.                    *)
LEMMA OnlyWorkerIsQuiet ==
    ASSUME NEW w \in Workers, OnlyWorker(w)
    PROVE  RowsQuiet
  BY DEF OnlyWorker, RowsQuiet

(* One worker: its answer is the only one.                                  *)
LEMMA OneAnswer ==
    ASSUME OneWorker, NEW w \in Workers, \A s \in Signals : EvidenceOK(s)', FinalAnswerOK(w)'
    PROVE  EvidenceInvariant'
<1>1. ASSUME NEW v \in Workers PROVE FinalAnswerOK(v)'
  <2>1. v = w
    BY DEF OneWorker
  <2> QED BY <2>1
<1> QED BY <1>1 DEF EvidenceInvariant

(* One that goes on with its answer keeps it.                               *)
LEMMA AnswerGoesOn ==
    ASSUME InductiveInvariant, EvidenceInvariant, NEW w \in Workers, Carries(w),
           UNCHANGED <<intents, fills>>,
           \A t \in Signals : venue'[t].filled = venue[t].filled,
           worker'[w].sig = worker[w].sig, worker'[w].resp = worker[w].resp,
           worker[w].pc # "apply",
           worker'[w].pc = "recompute" => worker'[w].then \in {"release", "apply"},
           \/ worker'[w].then \in {worker[w].then, "release"} /\ worker'[w].pc # "apply"
           \/ worker'[w].then = worker[w].then /\ worker[w].then = "apply"
           \/ worker[w].resp.state \in Terminal
    PROVE  FinalAnswerOK(w)'
<1>1. PICK s \in Signals : s = worker[w].sig
  BY DEF InductiveInvariant, CallsAccounted, AnswerOK
<1>2. FinalAnswerOK(w)
  BY DEF EvidenceInvariant
<1>3. /\ worker[w].resp.state \in Terminal => worker[w].resp.cumulative = venue[s].filled
      /\ worker[w].resp.state = "REJECTED" => venue[s].filled = 0
      /\ worker[w].then = "apply" => worker[w].resp.state \in Terminal
  BY <1>1, <1>2 DEF FinalAnswerOK
<1>4. /\ intents'[s] = intents[s] /\ fills'[s] = fills[s]
      /\ venue'[s].filled = venue[s].filled
      /\ worker'[w].sig = s /\ worker'[w].resp = worker[w].resp
  BY <1>1
<1>5. worker'[w].pc # "apply" /\ worker'[w].then = "apply" => worker[w].resp.state \in Terminal
  BY <1>3
<1>6. worker'[w].pc = "apply" => worker[w].resp.state \in Terminal
  BY <1>3
<1> QED BY <1>3, <1>4, <1>5, <1>6 DEF FinalAnswerOK

(* The quiet steps, the claim and a death.                                  *)
LEMMA QuietStepEvidence ==
    ASSUME OneWorker, InductiveInvariant, EvidenceInvariant, NEW w \in Workers,
           QuietStep(w) \/ Claim(w) \/ Restart(w)
    PROVE  EvidenceInvariant'
<1>1. RowsQuiet /\ worker'[w].pc \in Resting
  <2>1. CASE QuietStep(w)
    BY <2>1, QuietSteps DEF SetsDown
  <2>2. CASE Claim(w)
    <3>1. worker[w].sig \in Signals
      BY <2>2 DEF Claim, PreCall, InductiveInvariant, CallsAccounted, PreCallOK
    <3> QED BY <2>2, <3>1, ClaimEffect DEF SetsDown
  <2>3. CASE Restart(w)
    BY <2>3, RestartEffect, OnlyWorkerIsQuiet DEF Resting
  <2> QED BY <2>1, <2>2, <2>3
<1>2. FinalAnswerOK(w)'
  BY <1>1 DEF FinalAnswerOK, Carries, Resting
<1>3. \A s \in Signals : EvidenceOK(s)'
  BY <1>1, QuietEvidence DEF InductiveInvariant
<1> QED BY <1>2, <1>3, OneAnswer

(* A new answer counts all trades of the order.                             *)
LEMMA AnswerEvidence ==
    ASSUME OneWorker, InductiveInvariant, EvidenceInvariant, NEW w \in Workers,
           \/ Acknowledged(w) /\ worker'[w].pc = "apply"
           \/ \E t \in Signals : QueryAnswered(w, t) \/ Cancel(w, t)
    PROVE  EvidenceInvariant'
<1>1. OnlyWorker(w) /\ worker'[w].pc = "apply"
  BY AnswerEffect
<1>2. PICK s \in Signals :
        /\ worker'[w].sig = s
        /\ worker'[w].resp.cumulative = venue[s].filled
        /\ worker'[w].resp.state = "REJECTED" => venue[s].filled = 0
  BY AnswerEffect
<1>3. venue'[s].filled = venue[s].filled
  BY <1>1 DEF OnlyWorker
<1>4. FinalAnswerOK(w)'
  BY <1>1, <1>2, <1>3 DEF FinalAnswerOK
<1>5. \A t \in Signals : EvidenceOK(t)'
  BY <1>1, OnlyWorkerIsQuiet, QuietEvidence DEF InductiveInvariant
<1> QED BY <1>4, <1>5, OneAnswer

(* The steps between two uses of an answer, and those on positions.         *)
LEMMA PassEvidence ==
    ASSUME OneWorker, InductiveInvariant, EvidenceInvariant, NEW w \in Workers,
           \/ RecomputePosition(w) \/ UnknownFeePause(w) \/ Reapply(w) \/ EndRows(w)
           \/ \E sym \in Symbols : RecomputeOne(w, sym) \/ Mark(w, sym)
    PROVE  EvidenceInvariant'
<1>1. OnlyWorker(w)
  BY RecomputePositionEffect, UnknownFeePauseEffect, ReapplyEffect, EndRowsEffect,
     RecomputeOneEffect, MarkEffect
<1>2. FinalAnswerOK(w)'
  <2>1. CASE EndRows(w) \/ \E sym \in Symbols : RecomputeOne(w, sym) \/ Mark(w, sym)
    <3>1. \/ worker'[w].pc \in {"positions", "idle"}
          \/ worker'[w].pc = "feepause" /\ worker'[w].then \in {"positions", "idle"}
      BY <2>1, EndRowsEffect, RecomputeOneEffect, MarkEffect
    <3> QED BY <3>1 DEF FinalAnswerOK, Carries, Resting
  <2>2. CASE RecomputePosition(w)
    <3>1. /\ Carries(w) /\ worker[w].pc = "recompute"
          /\ worker[w].then \in {"release", "apply"}
          /\ worker'[w].pc \in {"feepause", worker[w].then}
          /\ worker'[w].sig = worker[w].sig /\ worker'[w].resp = worker[w].resp
          /\ worker'[w].then = worker[w].then
      BY <2>2, RecomputePositionEffect DEF Carries, EvidenceInvariant, FinalAnswerOK
    <3> QED BY <1>1, <3>1, AnswerGoesOn DEF OnlyWorker
  <2>3. CASE UnknownFeePause(w)
    <3>1. /\ worker[w].pc = "feepause" /\ worker'[w].pc = worker[w].then
          /\ worker[w].then # "idle" =>
                /\ worker'[w].sig = worker[w].sig /\ worker'[w].resp = worker[w].resp
                /\ worker'[w].then = worker[w].then
      BY <2>3, UnknownFeePauseEffect
    <3>2. CASE Carries(w)
      BY <1>1, <3>1, <3>2, AnswerGoesOn DEF OnlyWorker, Carries
    <3>3. CASE ~Carries(w)
      <4>1. worker[w].then \in {"idle", "positions"}
        BY <3>1, <3>3 DEF Carries, InductiveInvariant, LedgerTypeOK, WorkerType
      <4> QED BY <3>1, <4>1 DEF FinalAnswerOK, Carries, Resting
    <3> QED BY <3>2, <3>3
  <2>4. CASE Reapply(w)
    <3>1. /\ Carries(w) /\ worker[w].pc = "reapply"
          /\ \/ worker'[w].pc = "recompute" /\ worker[w].resp.state \in Terminal
             \/ worker'[w].pc = "rows"
          /\ worker'[w].sig = worker[w].sig /\ worker'[w].resp = worker[w].resp
          /\ worker'[w].then = "apply"
      BY <2>4, ReapplyEffect DEF Carries
    <3>2. CASE worker'[w].pc = "rows"
      BY <3>2 DEF FinalAnswerOK, Carries, Resting
    <3>3. CASE worker'[w].pc = "recompute"
      BY <1>1, <3>1, <3>3, AnswerGoesOn DEF OnlyWorker
    <3> QED BY <3>1, <3>2, <3>3
  <2> QED BY <2>1, <2>2, <2>3, <2>4
<1>3. \A s \in Signals : EvidenceOK(s)'
  BY <1>1, OnlyWorkerIsQuiet, QuietEvidence DEF InductiveInvariant
<1> QED BY <1>2, <1>3, OneAnswer

(* A reservation is given back with the trades that the row counts.         *)
LEMMA ReleaseEvidence ==
    ASSUME OneWorker, InductiveInvariant, EvidenceInvariant, NEW w \in Workers,
           Release(w) \/ \E s \in Signals : ReleaseFilled(w, s)
    PROVE  EvidenceInvariant'
<1>1. UNCHANGED <<intents, fills, venue>>
  BY ReleaseEffect
<1>2. PICK s \in Signals : ReleasesEvidenced(s)
  BY ReleaseEffect
<1>3. ASSUME NEW t \in Signals PROVE EvidenceOK(t)'
  <2>1. EvidenceOK(t) /\ VenueOK(t)
    BY DEF EvidenceInvariant, InductiveInvariant, CallsAccounted
  <2>2. intents'[t] = intents[t] /\ fills'[t] = fills[t] /\ venue'[t] = venue[t]
    BY <1>1
  <2>3. CASE held'[t] = held[t]
    BY <2>1, <2>2, <2>3 DEF EvidenceOK
  <2>4. CASE held'[t] # held[t]
    <3>1. /\ intents[t].state \in Terminal
          /\ intents[t].state = "FILLED" =>
                fills[t] >= IF intents[t].cumulative > 0 THEN intents[t].cumulative
                            ELSE intents[t].qty
      BY <1>2, <2>4 DEF ReleasesEvidenced
    <3>2. /\ fills[t] \in Nat /\ venue[t].filled \in Nat /\ intents[t].cumulative \in Nat
          /\ intents[t].qty \in Nat
      BY RowTypes DEF InductiveInvariant
    <3>3. fills[t] = venue[t].filled
      BY <2>1, <3>1, <3>2 DEF EvidenceOK, VenueOK, Terminal
    <3> QED BY <2>1, <2>2, <3>3 DEF EvidenceOK
  <2> QED BY <2>3, <2>4
<1>4. FinalAnswerOK(w)'
  <2>1. CASE worker'[w].pc \in {"idle", "rows"}
    BY <2>1 DEF FinalAnswerOK, Carries
  <2>2. CASE /\ worker[w].pc = "release"
             /\ worker'[w].pc \in {"trades", "reapply"}
             /\ worker'[w].sig = worker[w].sig /\ worker'[w].resp = worker[w].resp
             /\ worker'[w].then = worker[w].then
    <3>1. Carries(w)
      BY <2>2 DEF Carries
    <3> QED BY <1>1, <2>2, <3>1, AnswerGoesOn
  <2> QED BY <2>1, <2>2, ReleaseEffect
<1> QED BY <1>3, <1>4, OneAnswer

(* A signal that is burned, reserved or given up before it was sent.        *)
LEMMA UnsentEvidence ==
    ASSUME OneWorker, InductiveInvariant, EvidenceInvariant, NEW w \in Workers,
           \/ SubmitSignal(w) \/ ExpireUnsent(w)
    PROVE  EvidenceInvariant'
<1>1. ASSUME NEW s \in Signals, RejectSignal(w, s) PROVE EvidenceInvariant'
  <2>1. ASSUME NEW t \in Signals PROVE EvidenceOK(t)'
    <3>1. EvidenceOK(t)
      BY DEF EvidenceInvariant
    <3>2. CASE t = s
      BY <1>1, <3>2, RejectSignalEffect DEF EvidenceOK
    <3>3. CASE t # s
      BY <1>1, <3>1, <3>3, RejectSignalEffect DEF EvidenceOK
    <3> QED BY <3>2, <3>3
  <2>2. FinalAnswerOK(w)'
    BY <1>1, RejectSignalEffect DEF FinalAnswerOK, Carries
  <2> QED BY <2>1, <2>2, OneAnswer
<1>2. ASSUME NEW s \in Signals, NEW q \in 1..MaxQuantity, ReserveAndSend(w, s, q)
      PROVE  EvidenceInvariant'
  <2>1. ASSUME NEW t \in Signals PROVE EvidenceOK(t)'
    <3>1. EvidenceOK(t)
      BY DEF EvidenceInvariant
    <3>2. CASE t = s
      BY <1>2, <3>2, ReserveAndSendEffect DEF EvidenceOK
    <3>3. CASE t # s
      BY <1>2, <3>1, <3>3, ReserveAndSendEffect DEF EvidenceOK
    <3> QED BY <3>2, <3>3
  <2>2. FinalAnswerOK(w)'
    BY <1>2, ReserveAndSendEffect DEF FinalAnswerOK, Carries
  <2> QED BY <2>1, <2>2, OneAnswer
<1>3. CASE ExpireUnsent(w)
  <2>1. ASSUME NEW t \in Signals PROVE EvidenceOK(t)'
    <3>1. EvidenceOK(t) /\ UNCHANGED <<fills, venue>>
      BY <1>3, ExpireUnsentEffect DEF EvidenceInvariant
    <3>2. CASE UNCHANGED <<intents, held>>
      BY <3>1, <3>2 DEF EvidenceOK
    <3>3. ASSUME NEW s \in Signals, venue[s].filled = 0, fills[s] = 0,
                 \A u \in Signals \ {s} : intents'[u] = intents[u] /\ held'[u] = held[u],
                 intents'[s].state = "REJECTED"
          PROVE  EvidenceOK(t)'
      <4>1. CASE t = s
        BY <3>1, <3>3, <4>1 DEF EvidenceOK
      <4>2. CASE t # s
        BY <3>1, <3>3, <4>2 DEF EvidenceOK
      <4> QED BY <4>1, <4>2
    <3> QED BY <1>3, <3>2, <3>3, ExpireUnsentEffect
  <2>2. FinalAnswerOK(w)'
    BY <1>3, ExpireUnsentEffect DEF SetsDown, FinalAnswerOK, Carries, Resting
  <2> QED BY <2>1, <2>2, OneAnswer
<1> QED BY <1>1, <1>2, <1>3 DEF SubmitSignal

(* The trades of s grow and its row says no more than they do.              *)
LEMMA GrowthEvidence ==
    ASSUME InductiveInvariant, EvidenceInvariant, NEW s \in Signals, NEW c \in Nat,
           Grows(s, c), UNCHANGED <<held, venue>>,
           intents'[s].state \in {"CANCELED", "EXPIRED"} => c = venue[s].filled,
           intents'[s].state = "FILLED" =>
                c = venue[s].filled \/ intents'[s].cumulative = venue[s].filled,
           intents'[s].state = "REJECTED" => venue[s].filled = 0
    PROVE  \A t \in Signals : EvidenceOK(t)'
<1> SUFFICES ASSUME NEW t \in Signals PROVE EvidenceOK(t)'
  OBVIOUS
<1>1. EvidenceOK(t) /\ venue'[t] = venue[t] /\ held'[t] = held[t]
  BY DEF EvidenceInvariant
<1>2. fills \in [Signals -> Quantity]
  BY DEF InductiveInvariant, LedgerTypeOK
<1>3. CASE t = s
  <2>1. fills'[s] = c /\ c >= fills[s] /\ c <= venue[s].filled
    BY <1>2, RowTypes DEF Grows, InductiveInvariant
  <2>2. held[s] = "RELEASED" => c = venue[s].filled
    BY <1>1, <1>3, <2>1, RowTypes DEF EvidenceOK, InductiveInvariant
  <2> QED BY <1>1, <1>3, <2>1, <2>2 DEF EvidenceOK
<1>4. CASE t # s
  BY <1>1, <1>2, <1>4 DEF Grows, EvidenceOK
<1> QED BY <1>3, <1>4

(* An applied answer ends a row only with its trades or their count.        *)
LEMMA ApplyEvidence ==
    ASSUME OneWorker, InductiveInvariant, EvidenceInvariant, NEW w \in Workers,
           ApplyOrderResult(w)
    PROVE  EvidenceInvariant'
<1>1. PICK s \in Signals : s = worker[w].sig
  BY GrowthFrame
<1> DEFINE r == worker[w].resp
<1>2. PICK c \in Nat :
        /\ Grows(s, c)
        /\ intents'[s].cumulative = r.cumulative
        /\ intents'[s].state =
              IF r.state \in {"CANCELED", "EXPIRED"} /\ r.cumulative > c THEN "UNKNOWN"
              ELSE MergeOrderState(intents[s].state, r.state, intents[s].qty,
                                   Max2(r.cumulative, c))
        /\ worker'[w].pc = IF c > fills[s] THEN "recompute" ELSE "release"
        /\ worker'[w].then = "release" /\ worker'[w].sig = s
        /\ worker'[w].resp = r
  BY <1>1, ApplyEffect
<1>3. /\ UNCHANGED <<held, venue>> /\ Carries(w) /\ worker[w].pc = "apply"
  BY GrowthFrame DEF ApplyOrderResult
<1>4. /\ r.cumulative \in Nat /\ venue[s].filled \in Nat /\ intents[s].qty \in Nat
      /\ fills[s] \in Nat /\ intents[s].state \in RowStates
      /\ r.state \in {"ACKNOWLEDGED", "PARTIALLY_FILLED", "REJECTED", "FILLED", "CANCELED",
                      "EXPIRED"}
      /\ venue[s].filled <= intents[s].qty /\ r.cumulative <= venue[s].filled
  BY <1>1, <1>3, CarriedFacts, RowTypes DEF InductiveInvariant, ResponseType
<1>5. /\ r.state \in Terminal => r.cumulative = venue[s].filled
      /\ r.state = "REJECTED" => venue[s].filled = 0
      /\ intents[s].state = "FILLED" =>
            fills[s] = venue[s].filled \/ r.cumulative = venue[s].filled
  BY <1>1, <1>3 DEF EvidenceInvariant, FinalAnswerOK
<1>6. EvidenceOK(s)
  BY DEF EvidenceInvariant
<1>7. c \in fills[s]..venue[s].filled
  BY <1>2 DEF Grows
<1>8. Max2(r.cumulative, c) \in Nat /\ Max2(r.cumulative, c) \in {r.cumulative, c}
  BY <1>4 DEF Max2
<1> DEFINE merged == MergeOrderState(intents[s].state, r.state, intents[s].qty,
                                     Max2(r.cumulative, c))
<1>9. /\ intents[s].state \in Terminal => merged = intents[s].state
      /\ intents[s].state \notin Terminal =>
            /\ merged \in {"CANCELED", "EXPIRED", "REJECTED"} => r.state = merged
            /\ merged = "FILLED" =>
                r.state = "FILLED" \/ Max2(r.cumulative, c) >= intents[s].qty
  BY <1>4, <1>8, MergeEnds
<1>10. \/ intents'[s].state = "UNKNOWN"
       \/ /\ intents'[s].state = merged
          /\ r.state \in {"CANCELED", "EXPIRED"} => r.cumulative <= c
  BY <1>2, <1>4
<1> HIDE DEF merged, r
<1>11. intents'[s].state \in {"CANCELED", "EXPIRED"} => c = venue[s].filled
  BY <1>4, <1>5, <1>6, <1>7, <1>9, <1>10 DEF EvidenceOK, Terminal
<1>12. intents'[s].state = "FILLED" =>
            c = venue[s].filled \/ intents'[s].cumulative = venue[s].filled
  BY <1>2, <1>4, <1>5, <1>7, <1>8, <1>9, <1>10 DEF Terminal
<1>13. intents'[s].state = "REJECTED" => venue[s].filled = 0
  BY <1>5, <1>6, <1>9, <1>10 DEF EvidenceOK, Terminal
<1>14. \A t \in Signals : EvidenceOK(t)'
  BY <1>2, <1>3, <1>11, <1>12, <1>13, GrowthEvidence
<1>15. FinalAnswerOK(w)'
  BY <1>2, <1>3, <1>5 DEF FinalAnswerOK
<1> QED BY <1>14, <1>15, OneAnswer

(* Ingested trades end a row only when they fill it.                        *)
LEMMA IngestEvidence ==
    ASSUME OneWorker, InductiveInvariant, EvidenceInvariant, NEW w \in Workers, IngestFills(w)
    PROVE  EvidenceInvariant'
<1>1. PICK s \in Signals : s = worker[w].sig
  BY GrowthFrame
<1>2. PICK c \in Nat :
        /\ Grows(s, c)
        /\ intents'[s].cumulative = intents[s].cumulative
        /\ \/ intents'[s].state = intents[s].state
           \/ intents'[s].state =
                 MergeOrderState(intents[s].state,
                                 IF c >= intents[s].qty THEN "FILLED" ELSE "PARTIALLY_FILLED",
                                 intents[s].qty, c)
        /\ worker'[w].sig = s /\ worker'[w].resp = worker[w].resp
        /\ \/ c > fills[s] /\ worker'[w].pc = "recompute" /\ worker'[w].then = "release"
           \/ /\ c = fills[s] /\ worker'[w].pc = "reapply"
              /\ worker'[w].then = worker[w].then
  BY <1>1, IngestEffect
<1>3. /\ UNCHANGED <<held, venue>> /\ Carries(w) /\ worker[w].pc = "trades"
  BY GrowthFrame DEF IngestFills
<1>4. /\ venue[s].filled \in Nat /\ intents[s].qty \in Nat /\ intents[s].cumulative \in Nat
      /\ fills[s] \in Nat /\ intents[s].state \in RowStates
      /\ venue[s].filled <= intents[s].qty
  BY <1>1, <1>3, CarriedFacts, RowTypes DEF InductiveInvariant
<1>5. EvidenceOK(s)
  BY DEF EvidenceInvariant
<1>6. c \in fills[s]..venue[s].filled
  BY <1>2 DEF Grows
<1> DEFINE observed == IF c >= intents[s].qty THEN "FILLED" ELSE "PARTIALLY_FILLED"
           merged == MergeOrderState(intents[s].state, observed, intents[s].qty, c)
<1>7. /\ intents[s].state \in Terminal => merged = intents[s].state
      /\ intents[s].state \notin Terminal =>
            /\ merged \notin {"CANCELED", "EXPIRED", "REJECTED"}
            /\ merged = "FILLED" => c >= intents[s].qty
  <2>1. /\ observed \in {"ACKNOWLEDGED", "PARTIALLY_FILLED", "REJECTED", "FILLED",
                         "CANCELED", "EXPIRED"}
        /\ observed \notin {"CANCELED", "EXPIRED", "REJECTED"}
        /\ observed = "FILLED" => c >= intents[s].qty
    OBVIOUS
  <2> HIDE DEF observed
  <2> QED BY <1>4, <2>1, MergeEnds
<1>8. intents'[s].state \in {intents[s].state, merged}
  BY <1>2
<1> HIDE DEF merged, observed
<1>9. intents'[s].state \in {"CANCELED", "EXPIRED"} => c = venue[s].filled
  BY <1>4, <1>5, <1>6, <1>7, <1>8 DEF EvidenceOK, Terminal
<1>10. intents'[s].state = "FILLED" =>
            c = venue[s].filled \/ intents'[s].cumulative = venue[s].filled
  BY <1>2, <1>4, <1>5, <1>6, <1>7, <1>8 DEF EvidenceOK, Terminal
<1>11. intents'[s].state = "REJECTED" => venue[s].filled = 0
  BY <1>5, <1>7, <1>8 DEF EvidenceOK, Terminal
<1>12. \A t \in Signals : EvidenceOK(t)'
  BY <1>2, <1>3, <1>9, <1>10, <1>11, GrowthEvidence
<1>13. FinalAnswerOK(w)'
  <2>1. FinalAnswerOK(w)
    BY DEF EvidenceInvariant
  <2>2. /\ worker[w].resp.state \in Terminal => worker[w].resp.cumulative = venue[s].filled
        /\ worker[w].resp.state = "REJECTED" => venue[s].filled = 0
        /\ worker[w].then = "apply" => worker[w].resp.state \in Terminal
    BY <1>1, <1>3, <2>1 DEF FinalAnswerOK
  <2>3. venue' = venue
    BY <1>3
  <2> QED BY <1>2, <2>2, <2>3 DEF FinalAnswerOK
<1> QED BY <1>12, <1>13, OneAnswer

(* The venue fills an order nobody takes for over.                          *)
LEMMA OutsideEvidence ==
    ASSUME InductiveInvariant, EvidenceInvariant,
           \/ OperatorStep \/ NewDay \/ UNCHANGED vars \/ VenueStep
    PROVE  EvidenceInvariant'
<1>1. CASE OutsideStill
  <2>1. RowsQuiet
    BY <1>1 DEF OutsideStill, RowsQuiet
  <2>2. ASSUME NEW v \in Workers PROVE FinalAnswerOK(v)'
    <3>1. FinalAnswerOK(v) /\ worker' = worker /\ intents' = intents /\ fills' = fills
      BY <1>1 DEF EvidenceInvariant, OutsideStill
    <3>2. Carries(v) => worker[v].sig \in Signals
      BY DEF InductiveInvariant, CallsAccounted, AnswerOK
    <3> QED BY <1>1, <3>1, <3>2 DEF FinalAnswerOK, Carries, OutsideStill
  <2>3. \A s \in Signals : EvidenceOK(s)'
    BY <2>1, QuietEvidence DEF InductiveInvariant
  <2> QED BY <2>2, <2>3 DEF EvidenceInvariant
<1>2. ASSUME NEW s \in Signals, VenueFills(s) PROVE EvidenceInvariant'
  <2>1. /\ UNCHANGED <<intents, held, fills, worker>> /\ venue[s].status = "NEW"
        /\ held[s] = "HELD" /\ intents[s].state \notin Terminal
        /\ \A t \in Signals \ {s} : venue'[t] = venue[t]
    BY <1>2, VenueFillsEffect
  <2>2. ASSUME NEW t \in Signals PROVE EvidenceOK(t)'
    <3>1. EvidenceOK(t)
      BY DEF EvidenceInvariant
    <3>2. CASE t = s
      BY <2>1, <3>2 DEF EvidenceOK, Terminal
    <3>3. CASE t # s
      BY <2>1, <3>1, <3>3 DEF EvidenceOK
    <3> QED BY <3>2, <3>3
  <2>3. ASSUME NEW v \in Workers PROVE FinalAnswerOK(v)'
    <3>1. FinalAnswerOK(v)
      BY DEF EvidenceInvariant
    <3>2. CASE ~Carries(v)
      BY <2>1, <3>2 DEF FinalAnswerOK, Carries
    <3>3. CASE Carries(v) /\ worker[v].sig # s
      <4>1. worker[v].sig \in Signals
        BY <3>3 DEF InductiveInvariant, CallsAccounted, AnswerOK
      <4> QED BY <2>1, <3>1, <3>3, <4>1 DEF FinalAnswerOK, Carries
    <3>4. CASE Carries(v) /\ worker[v].sig = s
      <4>1. worker[v].resp.state \notin Terminal
        BY <2>1, <3>4, CarriedFacts DEF Dead
      <4> QED BY <2>1, <3>1, <3>4, <4>1 DEF FinalAnswerOK, Carries, Terminal
    <3> QED BY <3>2, <3>3, <3>4
  <2> QED BY <2>2, <2>3 DEF EvidenceInvariant
<1> QED BY <1>1, <1>2, OutsideEffect DEF VenueStep

(* Every step of the one worker keeps the evidence.                         *)
LEMMA EvidenceKept ==
    ASSUME OneWorker
    PROVE  InductiveInvariant /\ EvidenceInvariant /\ [Next]_vars => EvidenceInvariant'
<1> SUFFICES ASSUME InductiveInvariant, EvidenceInvariant, [Next]_vars
             PROVE  EvidenceInvariant'
  OBVIOUS
<1>1. ASSUME NEW w \in Workers, SubmitSignal(w) \/ SubmitStep(w)
      PROVE  EvidenceInvariant'
  BY <1>1, UnsentEvidence, QuietStepEvidence, AnswerEvidence DEF SubmitStep, QuietStep
<1>2. ASSUME NEW w \in Workers, LedgerStep(w)
      PROVE  EvidenceInvariant'
  BY <1>2, ApplyEvidence, PassEvidence, ReleaseEvidence DEF LedgerStep
<1>3. ASSUME NEW w \in Workers, ReconcileStep(w)
      PROVE  EvidenceInvariant'
  BY <1>3, ReleaseEvidence, QuietStepEvidence, AnswerEvidence, IngestEvidence, PassEvidence
     DEF ReconcileStep, QuietStep
<1>4. ASSUME NEW w \in Workers,
             StartReconcile(w) \/ AccountFailure(w) \/ OtherCall(w) \/ Restart(w)
      PROVE  EvidenceInvariant'
  BY <1>4, QuietStepEvidence, AnswerEvidence, PassEvidence DEF OtherCall, QuietStep
<1> QED BY <1>1, <1>2, <1>3, <1>4, OutsideEvidence DEF Next

(* An empty database has nothing to give evidence of.                       *)
LEMMA InitEvidence == Init => EvidenceInvariant
  BY DEF Init, NoRow, Idle, EvidenceInvariant, EvidenceOK, FinalAnswerOK, Carries

(* _release with one worker on the database: a reservation is given back    *)
(* only when the trade ledger has every trade of its order, across crashes, *)
(* lost and repeated answers, and a venue that forgets.                     *)
THEOREM ReleasesAreEvidenced ==
    ASSUME OneWorker
    PROVE  Spec => []ReleasedIsEvidenced
<1>1. EvidenceInvariant => ReleasedIsEvidenced
  BY DEF EvidenceInvariant, EvidenceOK, ReleasedIsEvidenced
<1> QED BY <1>1, InvariantHolds, InitEvidence, EvidenceKept, PTL DEF Spec

-----------------------------------------------------------------------------
(* The positions and the account payload keep their types                  *)

(* What trades add up to is an integer.                                     *)
LEMMA FilledType ==
    ASSUME LedgerTypeOK, NEW S \in SUBSET Signals
    PROVE  FilledOn(S) \in Nat
<1>1. IsFiniteSet(S)
  BY ConstantsAssumption, FS_Subset
<1>2. \A s \in S : fills[s] \in Nat
  BY RowTypes
<1> QED BY <1>1, <1>2, SumNonNegative DEF FilledOn

(* A position is a natural quantity and a flag.                             *)
LEMMA NetPositionType ==
    ASSUME LedgerTypeOK, NEW sym \in Symbols
    PROVE  NetPosition(sym) \in [qty : Nat, unknown : BOOLEAN]
<1>1. FilledOn(Entries \cap Of(sym)) \in Nat /\ FilledOn(Exits \cap Of(sym)) \in Nat
  BY FilledType DEF Entries, Exits
<1> QED BY <1>1 DEF NetPosition, Max2

(* So is what the account call returns.                                     *)
LEMMA FetchedType ==
    ASSUME LedgerTypeOK, SumTypeOK
    PROVE  Fetched \in [inventory : [Symbols -> Nat], exits : Nat]
<1>1. CASE Environment # "PAPER"
  BY <1>1 DEF Fetched, SumTypeOK
<1>2. CASE Environment = "PAPER"
  <2>1. ASSUME NEW S \in SUBSET Signals PROVE Traded(S) \in Int
    <3> DEFINE f == [s \in Signals |-> venue[s].filled]
               T == {s \in S : venue[s].status # "forgotten"}
    <3>1. IsFiniteSet(T)
      BY ConstantsAssumption, FS_Subset
    <3>2. \A s \in T : f[s] \in Int
      BY RowTypes
    <3>3. Traded(S) = SumFunctionOnSet(f, T)
      BY DEF Traded
    <3> HIDE DEF f, T
    <3> QED BY <3>1, <3>2, <3>3, SumType
  <2>2. ASSUME NEW sym \in Symbols
        PROVE  Max2(0, Traded(Entries \cap Of(sym)) - Traded(Exits \cap Of(sym))) \in Nat
    <3>1. Traded(Entries \cap Of(sym)) \in Int /\ Traded(Exits \cap Of(sym)) \in Int
      BY <2>1 DEF Entries, Exits
    <3> QED BY <3>1 DEF Max2
  <2>3. Cardinality({s \in Exits : Known(s)}) \in Nat
    <3>1. IsFiniteSet({s \in Exits : Known(s)})
      BY ConstantsAssumption, FS_Subset DEF Exits
    <3> QED BY <3>1, FS_CardinalityType
  <2> QED BY <1>2, <2>2, <2>3 DEF Fetched
<1> QED BY <1>1, <1>2

(* A step recomputes one position row at most, and stores what it fetched.  *)
LEMMA PositionSteps ==
    ASSUME InductiveInvariant, [Next]_vars
    PROVE  /\ \/ UNCHANGED position
              \/ \E sym \in Symbols : position' = [position EXCEPT ![sym] = NetPosition(sym)]
           /\ account' = account \/ account' = Fetched
<1> DEFINE Moves ==
        /\ \/ UNCHANGED position
           \/ \E sym \in Symbols : position' = [position EXCEPT ![sym] = NetPosition(sym)]
        /\ account' = account \/ account' = Fetched
<1>1. ASSUME NEW w \in Workers, SubmitSignal(w) \/ SubmitStep(w) PROVE Moves
  BY <1>1 DEF SubmitSignal, SubmitStep, RejectSignal, ReserveAndSend, ExpireUnsent, Claim,
     FirstFence, FinalSubmitFence, FenceRejected, NetworkSubmit, Acknowledged, Ambiguous, ledger
<1>2. ASSUME NEW w \in Workers, LedgerStep(w) PROVE Moves
  <2>1. CASE RecomputePosition(w)
    <3>1. Symbol[worker[w].sig] \in Symbols
      BY <2>1, ConstantsAssumption
         DEF RecomputePosition, Carries, InductiveInvariant, CallsAccounted, AnswerOK
    <3> QED BY <2>1, <3>1 DEF RecomputePosition
  <2> QED BY <1>2, <2>1 DEF LedgerStep, ApplyOrderResult, UnknownFeePause, Release, ledger
<1>3. ASSUME NEW w \in Workers, ReconcileStep(w) PROVE Moves
  <2>1. ASSUME NEW s \in Signals,
               \/ ReleaseFilled(w, s) \/ QueryMissing(w, s) \/ QueryUnresolved(w, s)
               \/ QueryAnswered(w, s)
        PROVE  UNCHANGED <<position, account>>
    BY <2>1 DEF ReleaseFilled, QueryMissing, QueryUnresolved, QueryAnswered, ledger
  <2>2. ASSUME TradesFailure(w) \/ IngestFills(w) \/ Reapply(w) \/ EndRows(w)
               \/ EndReconcile(w)
        PROVE  UNCHANGED <<position, account>>
    BY <2>2 DEF TradesFailure, IngestFills, Reapply, EndRows, EndReconcile, ledger
  <2>3. ASSUME NEW sym \in Symbols, RecomputeOne(w, sym) PROVE Moves
    BY <2>3 DEF RecomputeOne
  <2> QED BY <1>3, <2>1, <2>2, <2>3 DEF ReconcileStep
<1>4. ASSUME NEW w \in Workers,
             StartReconcile(w) \/ AccountFailure(w) \/ OtherCall(w) \/ Restart(w)
      PROVE  Moves
  <2>1. ASSUME NEW sym \in Symbols, Mark(w, sym) PROVE Moves
    BY <2>1 DEF Mark
  <2>2. ASSUME NEW s \in Signals, Cancel(w, s) \/ CancelFailure(w, s)
        PROVE  UNCHANGED <<position, account>>
    BY <2>2 DEF Cancel, CancelFailure, ledger
  <2> QED BY <1>4, <2>1, <2>2 DEF OtherCall, StartReconcile, AccountFailure, CancelUnknown,
      UpdateAccount, Restart, ledger
<1>5. ASSUME OperatorStep \/ VenueStep \/ NewDay \/ UNCHANGED vars PROVE Moves
  BY <1>5 DEF OperatorStep, EnableAutoCanary, Operator, VenueStep, VenueAccepts, VenueFills,
     VenueEnds, VenueReset, NewDay, vars, ledger
<1> HIDE DEF Moves
<1>6. Moves
  BY <1>1, <1>2, <1>3, <1>4, <1>5 DEF Next
<1> QED BY <1>6 DEF Moves

(* Positions and the account payload keep their types.                      *)
LEMMA SumTypesKept == InductiveInvariant /\ SumTypeOK /\ [Next]_vars => SumTypeOK'
<1> SUFFICES ASSUME InductiveInvariant, SumTypeOK, [Next]_vars PROVE SumTypeOK'
  OBVIOUS
<1>1. position' \in [Symbols -> [qty : Nat, unknown : BOOLEAN]]
  <2>1. CASE UNCHANGED position
    BY <2>1 DEF SumTypeOK
  <2>2. ASSUME NEW sym \in Symbols, position' = [position EXCEPT ![sym] = NetPosition(sym)]
        PROVE  position' \in [Symbols -> [qty : Nat, unknown : BOOLEAN]]
    <3>1. NetPosition(sym) \in [qty : Nat, unknown : BOOLEAN]
      BY NetPositionType DEF InductiveInvariant
    <3> QED BY <2>2, <3>1 DEF SumTypeOK
  <2> QED BY <2>1, <2>2, PositionSteps
<1>2. account' \in [inventory : [Symbols -> Nat], exits : Nat]
  <2>1. Fetched \in [inventory : [Symbols -> Nat], exits : Nat]
    BY FetchedType DEF InductiveInvariant
  <2> QED BY <2>1, PositionSteps DEF SumTypeOK
<1> QED BY <1>1, <1>2 DEF SumTypeOK

(* They have them from the start.                                           *)
LEMMA InitSumTypes == Init => SumTypeOK
  BY DEF Init, SumTypeOK

(* _recompute_position and update_account write what their columns take,    *)
(* whatever the trades add up to, for any number of workers and crashes.    *)
THEOREM AllTypesHold == Spec => []TypeOK
<1>1. InductiveInvariant /\ SumTypeOK => TypeOK
  BY DEF InductiveInvariant, TypeOK
<1> QED BY <1>1, InvariantHolds, InitSumTypes, SumTypesKept, PTL DEF Spec

-----------------------------------------------------------------------------
(* Position rows and the trade ledger                                       *)

(* The net position of a symbol follows the trades of its signals.          *)
LEMMA NetSame ==
    ASSUME NEW sym \in Symbols, \A s \in Of(sym) : fills'[s] = fills[s]
    PROVE  NetPosition(sym)' = NetPosition(sym)
<1>1. ASSUME NEW S \in SUBSET Of(sym)
      PROVE  SumFunctionOnSet(fills', S) = SumFunctionOnSet(fills, S)
  <2>1. IsFiniteSet(S)
    BY ConstantsAssumption, FS_Subset DEF Of
  <2> QED BY <2>1, SumSame
<1>2. /\ FilledOn(Entries \cap Of(sym))' = FilledOn(Entries \cap Of(sym))
      /\ FilledOn(Exits \cap Of(sym))' = FilledOn(Exits \cap Of(sym))
  BY <1>1 DEF FilledOn
<1>3. (\E s \in Of(sym) : fills'[s] > 0) <=> (\E s \in Of(sym) : fills[s] > 0)
  OBVIOUS
<1> QED BY <1>2, <1>3 DEF NetPosition

(* A row left alone by a step without trades stays up to date.              *)
LEMMA UpToDateKept ==
    ASSUME NEW sym \in Symbols, UpToDate(sym), position'[sym] = position[sym],
           \A s \in Of(sym) : fills'[s] = fills[s]
    PROVE  UpToDate(sym)'
  BY NetSame DEF UpToDate

(* A recomputed row is up to date, and no other row loses that.             *)
LEMMA Recomputed ==
    ASSUME SumTypeOK, UNCHANGED fills, NEW sym \in Symbols,
           position' = [position EXCEPT ![sym] = NetPosition(sym)]
    PROVE  /\ UpToDate(sym)'
           /\ \A other \in Symbols : UpToDate(other) => UpToDate(other)'
<1>1. /\ position'[sym] = NetPosition(sym)
      /\ \A other \in Symbols \ {sym} : position'[other] = position[other]
  BY DEF SumTypeOK
<1>2. NetPosition(sym)' = NetPosition(sym)
  BY NetSame
<1>3. UpToDate(sym)'
  BY <1>1, <1>2 DEF UpToDate
<1> QED BY <1>1, <1>3, UpToDateKept

(* Trades that grow touch the position of their symbol only.                *)
LEMMA GrowthPositions ==
    ASSUME LedgerTypeOK, NEW s \in Signals, NEW c \in Nat, Grows(s, c), UNCHANGED position
    PROVE  /\ \A sym \in Symbols : sym # Symbol[s] /\ UpToDate(sym) => UpToDate(sym)'
           /\ c = fills[s] => \A sym \in Symbols : UpToDate(sym) => UpToDate(sym)'
<1>1. fills'[s] = c /\ \A t \in Signals \ {s} : fills'[t] = fills[t]
  BY DEF Grows, LedgerTypeOK
<1>2. ASSUME NEW sym \in Symbols, sym # Symbol[s] \/ c = fills[s], UpToDate(sym)
      PROVE  UpToDate(sym)'
  <2>1. \A t \in Of(sym) : fills'[t] = fills[t]
    BY <1>1, <1>2 DEF Of
  <2> QED BY <1>2, <2>1, UpToDateKept
<1> QED BY <1>2

(* What PositionsInvariant asks of a step that fills nothing.               *)
LEMMA PositionsKept ==
    ASSUME OneWorker, LedgerTypeOK, PositionsInvariant, NEW w \in Workers, UNCHANGED fills,
           \A sym \in Symbols : UpToDate(sym) => UpToDate(sym)',
           Repairs(w)' => \A sym \in Symbols \ worker'[w].syms : UpToDate(sym)'
    PROVE  PositionsInvariant'
<1>1. ASSUME NEW v \in Workers, Repairs(v)'
      PROVE  \A sym \in Symbols \ worker'[v].syms : UpToDate(sym)'
  <2>1. v = w
    BY DEF OneWorker
  <2> QED BY <1>1, <2>1
<1> QED BY <1>1 DEF PositionsInvariant

(* So do all rows when neither trades nor positions move.                   *)
LEMMA StillPositions ==
    ASSUME UNCHANGED <<fills, position>>
    PROVE  \A sym \in Symbols : UpToDate(sym) => UpToDate(sym)'
  BY UpToDateKept

(* The steps without a position in them.                                    *)
LEMMA RestingPositions ==
    ASSUME OneWorker, InductiveInvariant, PositionsInvariant, NEW w \in Workers,
           \/ QuietStep(w) \/ Claim(w) \/ Restart(w) \/ SubmitSignal(w) \/ ExpireUnsent(w)
           \/ Acknowledged(w) /\ worker'[w].pc = "apply"
           \/ \E t \in Signals : QueryAnswered(w, t) \/ Cancel(w, t) \/ ReleaseFilled(w, t)
           \/ Release(w) \/ Reapply(w)
    PROVE  PositionsInvariant'
<1>1. /\ UNCHANGED <<fills, position>>
      /\ worker'[w].pc \in Resting \cup {"claim", "apply", "recompute", "trades", "reapply"}
  <2>1. CASE QuietStep(w)
    BY <2>1, QuietSteps DEF SetsDown, RowsQuiet
  <2>2. CASE Claim(w)
    <3>1. worker[w].sig \in Signals
      BY <2>2 DEF Claim, PreCall, InductiveInvariant, CallsAccounted, PreCallOK
    <3> QED BY <2>2, <3>1, ClaimEffect DEF SetsDown, RowsQuiet
  <2>3. CASE Restart(w)
    BY <2>3, RestartEffect DEF OnlyWorker, Resting
  <2>4. CASE SubmitSignal(w)
    BY <2>4, RejectSignalEffect, ReserveAndSendEffect DEF SubmitSignal, Resting
  <2>5. CASE ExpireUnsent(w)
    BY <2>5, ExpireUnsentEffect DEF SetsDown
  <2>6. CASE \/ Acknowledged(w) /\ worker'[w].pc = "apply"
             \/ \E t \in Signals : QueryAnswered(w, t) \/ Cancel(w, t)
    BY <2>6, AnswerEffect DEF OnlyWorker
  <2>7. CASE Release(w) \/ \E t \in Signals : ReleaseFilled(w, t)
    BY <2>7, ReleaseEffect DEF Resting
  <2>8. CASE Reapply(w)
    BY <2>8, ReapplyEffect DEF OnlyWorker, Resting
  <2> QED BY <2>1, <2>2, <2>3, <2>4, <2>5, <2>6, <2>7, <2>8
<1>2. ~Repairs(w)'
  BY <1>1 DEF Repairs, Resting
<1>3. \A sym \in Symbols : UpToDate(sym) => UpToDate(sym)'
  BY <1>1, StillPositions
<1> QED BY <1>1, <1>2, <1>3, PositionsKept DEF InductiveInvariant

(* The pass over the positions, and the recomputations outside it.          *)
LEMMA PassPositions ==
    ASSUME OneWorker, InductiveInvariant, SumTypeOK, EvidenceInvariant, PositionsInvariant,
           NEW w \in Workers,
           \/ RecomputePosition(w) \/ UnknownFeePause(w) \/ EndRows(w)
           \/ \E sym \in Symbols : RecomputeOne(w, sym) \/ Mark(w, sym)
    PROVE  PositionsInvariant'
<1>1. LedgerTypeOK
  BY DEF InductiveInvariant
<1>2. CASE RecomputePosition(w)
  <2>1. /\ worker[w].pc = "recompute" /\ Carries(w)
        /\ worker'[w].pc \in {"feepause", worker[w].then}
        /\ worker'[w].then = worker[w].then /\ UNCHANGED fills
        /\ position' = [position EXCEPT ![Symbol[worker[w].sig]] =
                                NetPosition(Symbol[worker[w].sig])]
    BY <1>2, RecomputePositionEffect DEF Carries, OnlyWorker
  <2>2. worker[w].then \in {"release", "apply"} /\ Symbol[worker[w].sig] \in Symbols
    BY <2>1, ConstantsAssumption
       DEF EvidenceInvariant, FinalAnswerOK, InductiveInvariant, CallsAccounted, AnswerOK
  <2>3. ~Repairs(w)'
    BY <2>1, <2>2 DEF Repairs
  <2>4. \A sym \in Symbols : UpToDate(sym) => UpToDate(sym)'
    BY <2>1, <2>2, Recomputed
  <2> QED BY <1>1, <2>1, <2>3, <2>4, PositionsKept
<1>3. CASE UnknownFeePause(w)
  <2>1. /\ UNCHANGED <<fills, position>> /\ worker[w].pc = "feepause"
        /\ worker'[w].pc = worker[w].then
        /\ worker[w].then # "idle" =>
              worker'[w].then = worker[w].then /\ worker'[w].syms = worker[w].syms
    BY <1>3, UnknownFeePauseEffect DEF OnlyWorker
  <2>2. \A sym \in Symbols : UpToDate(sym) => UpToDate(sym)'
    BY <2>1, StillPositions
  <2>3. Repairs(w)' => Repairs(w) /\ worker'[w].syms = worker[w].syms
    <3>1. worker[w].then \in {"release", "apply", "positions", "idle"}
      BY <1>1 DEF LedgerTypeOK, WorkerType
    <3> QED BY <2>1, <3>1 DEF Repairs
  <2>4. Repairs(w)' => \A sym \in Symbols \ worker'[w].syms : UpToDate(sym)'
    BY <2>2, <2>3 DEF PositionsInvariant
  <2> QED BY <1>1, <2>1, <2>2, <2>4, PositionsKept
<1>4. CASE EndRows(w)
  <2>1. /\ UNCHANGED <<fills, position>>
        /\ worker'[w].syms = {sym \in Symbols : \E s \in Of(sym) : fills[s] > 0}
    BY <1>4, EndRowsEffect DEF OnlyWorker
  <2>2. \A sym \in Symbols : UpToDate(sym) => UpToDate(sym)'
    BY <2>1, StillPositions
  <2>3. ASSUME NEW sym \in Symbols \ worker'[w].syms PROVE UpToDate(sym)
    <3>1. \A s \in Of(sym) : fills[s] = 0
      BY <1>1, <2>1, <2>3, RowTypes DEF Of
    <3> QED BY <3>1 DEF PositionsInvariant
  <2> QED BY <1>1, <2>1, <2>2, <2>3, PositionsKept
<1>5. ASSUME NEW sym \in Symbols, RecomputeOne(w, sym) PROVE PositionsInvariant'
  <2>1. /\ UNCHANGED fills /\ worker[w].pc = "positions"
        /\ position' = [position EXCEPT ![sym] = NetPosition(sym)]
        /\ worker'[w].syms = worker[w].syms \ {sym}
    BY <1>5, RecomputeOneEffect DEF OnlyWorker
  <2>2. UpToDate(sym)' /\ \A other \in Symbols : UpToDate(other) => UpToDate(other)'
    BY <2>1, Recomputed
  <2>3. \A other \in Symbols \ worker[w].syms : UpToDate(other)
    BY <2>1 DEF Repairs, PositionsInvariant
  <2>4. \A other \in Symbols \ worker'[w].syms : UpToDate(other)'
    BY <2>1, <2>2, <2>3
  <2> QED BY <1>1, <2>1, <2>2, <2>4, PositionsKept
<1>6. ASSUME NEW sym \in Symbols, Mark(w, sym) PROVE PositionsInvariant'
  <2>1. /\ UNCHANGED fills /\ position' = [position EXCEPT ![sym] = NetPosition(sym)]
        /\ ~Repairs(w)'
    BY <1>6, MarkEffect DEF OnlyWorker, Repairs
  <2>2. \A other \in Symbols : UpToDate(other) => UpToDate(other)'
    BY <2>1, Recomputed
  <2> QED BY <1>1, <2>1, <2>2, PositionsKept
<1> QED BY <1>2, <1>3, <1>4, <1>5, <1>6

(* New trades of a symbol: it has traded from now on.                       *)
LEMMA GrowthKeepsPositions ==
    ASSUME OneWorker, InductiveInvariant, PositionsInvariant, NEW w \in Workers,
           ApplyOrderResult(w) \/ IngestFills(w)
    PROVE  PositionsInvariant'
<1>1. PICK s \in Signals : s = worker[w].sig
  BY GrowthFrame
<1>2. UNCHANGED position
  BY GrowthFrame
<1>3. PICK c \in Nat : Grows(s, c) /\ worker'[w].pc \in {"recompute", "release", "reapply"}
  BY <1>1, ApplyEffect, IngestEffect
<1>4. ~Repairs(w)'
  BY <1>3 DEF Repairs
<1>5. \A v \in Workers : ~Repairs(v)'
  <2>1. \A v \in Workers : v = w
    BY DEF OneWorker
  <2> QED BY <1>4, <2>1
<1>6. ASSUME NEW sym \in Symbols, \A t \in Of(sym) : fills'[t] = 0
      PROVE  UpToDate(sym)'
  <2>1. \A t \in Of(sym) : fills[t] = 0
    <3>1. /\ \A t \in Signals \ {s} : fills'[t] = fills[t]
          /\ fills'[s] = c /\ fills[s] <= c
          /\ \A t \in Signals : fills[t] \in Nat
      BY <1>3, RowTypes DEF Grows, InductiveInvariant, LedgerTypeOK
    <3> QED BY <1>6, <3>1 DEF Of
  <2>2. UpToDate(sym)
    BY <2>1 DEF PositionsInvariant
  <2> QED BY <1>2, <1>6, <2>1, <2>2, UpToDateKept
<1> QED BY <1>5, <1>6 DEF PositionsInvariant

(* The operator, the venue and the clock leave positions alone.             *)
LEMMA OutsidePositions ==
    ASSUME InductiveInvariant, PositionsInvariant,
           \/ OperatorStep \/ NewDay \/ UNCHANGED vars \/ VenueStep
    PROVE  PositionsInvariant'
<1>1. UNCHANGED <<fills, position, worker>>
  BY OutsideEffect, VenueFillsEffect DEF OutsideStill, VenueStep
<1>2. \A sym \in Symbols : UpToDate(sym) => UpToDate(sym)'
  BY <1>1, StillPositions
<1>3. \A v \in Workers : Repairs(v)' => Repairs(v)
  BY <1>1 DEF Repairs
<1> QED BY <1>1, <1>2, <1>3 DEF PositionsInvariant

(* PositionsInvariant is inductive beside the evidence.                     *)
LEMMA PositionsInductive ==
    ASSUME OneWorker
    PROVE  InductiveInvariant /\ SumTypeOK /\ EvidenceInvariant /\ PositionsInvariant
                /\ [Next]_vars => PositionsInvariant'
<1> SUFFICES ASSUME InductiveInvariant, SumTypeOK, EvidenceInvariant, PositionsInvariant,
                    [Next]_vars
             PROVE  PositionsInvariant'
  OBVIOUS
<1>1. ASSUME NEW w \in Workers, SubmitSignal(w) \/ SubmitStep(w)
      PROVE  PositionsInvariant'
  BY <1>1, RestingPositions DEF SubmitStep, QuietStep
<1>2. ASSUME NEW w \in Workers, LedgerStep(w)
      PROVE  PositionsInvariant'
  BY <1>2, GrowthKeepsPositions, PassPositions, RestingPositions DEF LedgerStep
<1>3. ASSUME NEW w \in Workers, ReconcileStep(w)
      PROVE  PositionsInvariant'
  BY <1>3, RestingPositions, GrowthKeepsPositions, PassPositions DEF ReconcileStep, QuietStep
<1>4. ASSUME NEW w \in Workers,
             StartReconcile(w) \/ AccountFailure(w) \/ OtherCall(w) \/ Restart(w)
      PROVE  PositionsInvariant'
  BY <1>4, RestingPositions, PassPositions DEF OtherCall, QuietStep
<1> QED BY <1>1, <1>2, <1>3, <1>4, OutsidePositions DEF Next

(* An empty database has nothing to recompute.                              *)
LEMMA InitUpToDate == Init => \A sym \in Symbols : UpToDate(sym)
<1> SUFFICES ASSUME Init, NEW sym \in Symbols PROVE UpToDate(sym)
  OBVIOUS
<1>1. ASSUME NEW S \in SUBSET Signals PROVE FilledOn(S) = 0
  <2>1. IsFiniteSet(S)
    BY ConstantsAssumption, FS_Subset
  <2>2. \A s \in S : fills[s] = 0
    BY DEF Init
  <2> QED BY <2>1, <2>2, SumOfZeros DEF FilledOn
<1>2. FilledOn(Entries \cap Of(sym)) = 0 /\ FilledOn(Exits \cap Of(sym)) = 0
  BY <1>1 DEF Entries, Exits
<1>3. \A s \in Of(sym) : fills[s] = 0
  BY DEF Init, Of
<1>4. NetPosition(sym) = [qty |-> 0, unknown |-> FALSE]
  <2>1. (sym \in UnknownFeeSymbols /\ \E s \in Of(sym) : fills[s] > 0) = FALSE
    BY <1>3
  <2>2. Max2(0, FilledOn(Entries \cap Of(sym)) - FilledOn(Exits \cap Of(sym))) = 0
    BY <1>2 DEF Max2
  <2> QED BY <2>1, <2>2 DEF NetPosition
<1> QED BY <1>4 DEF Init, UpToDate

(* It holds of an empty database.                                           *)
LEMMA InitPositions == Init => PositionsInvariant
<1> SUFFICES ASSUME Init PROVE PositionsInvariant
  OBVIOUS
<1>1. \A w \in Workers : ~Repairs(w)
  BY DEF Init, Idle, Repairs
<1> QED BY <1>1, InitUpToDate DEF PositionsInvariant

(* _recompute_all_positions with one worker on the database: a pass that    *)
(* gets to its end has repaired every position row, also after a crash      *)
(* between the commit of a trade and that of its position.                  *)
THEOREM PassRepairsPositions ==
    ASSUME OneWorker
    PROVE  Spec => []ReconciledPositionsAgree
<1>1. PositionsInvariant => ReconciledPositionsAgree
  BY DEF PositionsInvariant, Repairs, UpToDate, ReconciledPositionsAgree
<1> QED BY <1>1, InvariantHolds, InitSumTypes, SumTypesKept, InitEvidence, EvidenceKept,
        InitPositions, PositionsInductive, PTL DEF Spec

-----------------------------------------------------------------------------
(* Without crashes a stale position row is on its way to be recomputed      *)

(* A step of a worker that has no recomputation in its hands.               *)
LEMMA StaleStaysPending ==
    ASSUME StaleIsPending, NEW w \in Workers, worker[w].pc # "recompute",
           \A v \in Workers \ {w} : worker'[v] = worker[v],
           \A sym \in Symbols : UpToDate(sym) => UpToDate(sym)'
    PROVE  StaleIsPending'
<1> SUFFICES ASSUME NEW sym \in Symbols, ~UpToDate(sym)'
             PROVE  \E v \in Workers :
                        worker'[v].pc = "recompute" /\ Symbol[worker'[v].sig] = sym
  BY DEF StaleIsPending
<1>1. PICK v \in Workers : worker[v].pc = "recompute" /\ Symbol[worker[v].sig] = sym
  BY DEF StaleIsPending
<1>2. worker'[v] = worker[v]
  BY <1>1
<1> QED BY <1>1, <1>2

(* The steps without a position in them leave pending what was stale.       *)
LEMMA RestingStale ==
    ASSUME InductiveInvariant, SumTypeOK, StaleIsPending, MaxRestarts = 0, NEW w \in Workers,
           \/ QuietStep(w) \/ Claim(w) \/ Restart(w) \/ SubmitSignal(w) \/ ExpireUnsent(w)
           \/ Acknowledged(w) /\ worker'[w].pc = "apply"
           \/ \E t \in Signals : QueryAnswered(w, t) \/ Cancel(w, t) \/ ReleaseFilled(w, t)
           \/ Release(w) \/ Reapply(w) \/ UnknownFeePause(w) \/ EndRows(w)
    PROVE  StaleIsPending'
<1>1. /\ UNCHANGED <<fills, position>> /\ worker[w].pc # "recompute"
      /\ \A v \in Workers \ {w} : worker'[v] = worker[v]
  <2>1. CASE QuietStep(w)
    BY <2>1, QuietSteps DEF SetsDown, RowsQuiet
  <2>2. CASE Claim(w)
    <3>1. worker[w].sig \in Signals
      BY <2>2 DEF Claim, PreCall, InductiveInvariant, CallsAccounted, PreCallOK
    <3> QED BY <2>2, <3>1, ClaimEffect DEF SetsDown, RowsQuiet
  <2>3. CASE Restart(w)
    BY <2>3, RestartEffect DEF InductiveInvariant, LedgerTypeOK
  <2>4. CASE SubmitSignal(w)
    BY <2>4, RejectSignalEffect, ReserveAndSendEffect DEF SubmitSignal
  <2>5. CASE ExpireUnsent(w)
    BY <2>5, ExpireUnsentEffect DEF SetsDown
  <2>6. CASE \/ Acknowledged(w) /\ worker'[w].pc = "apply"
             \/ \E t \in Signals : QueryAnswered(w, t) \/ Cancel(w, t)
    BY <2>6, AnswerEffect DEF OnlyWorker
  <2>7. CASE Release(w) \/ \E t \in Signals : ReleaseFilled(w, t)
    BY <2>7, ReleaseEffect
  <2>8. CASE Reapply(w)
    BY <2>8, ReapplyEffect DEF OnlyWorker
  <2>9. CASE UnknownFeePause(w) \/ EndRows(w)
    BY <2>9, UnknownFeePauseEffect, EndRowsEffect DEF OnlyWorker
  <2> QED BY <2>1, <2>2, <2>3, <2>4, <2>5, <2>6, <2>7, <2>8, <2>9
<1>2. \A sym \in Symbols : UpToDate(sym) => UpToDate(sym)'
  BY <1>1, StillPositions
<1> QED BY <1>1, <1>2, StaleStaysPending

(* A recomputed symbol is no longer stale, the others stay as they were.    *)
LEMMA RecomputedStale ==
    ASSUME InductiveInvariant, SumTypeOK, StaleIsPending, NEW w \in Workers,
           \/ RecomputePosition(w)
           \/ \E sym \in Symbols : RecomputeOne(w, sym) \/ Mark(w, sym)
    PROVE  StaleIsPending'
<1>1. CASE RecomputePosition(w)
  <2>1. /\ worker[w].pc = "recompute" /\ UNCHANGED fills
        /\ \A v \in Workers \ {w} : worker'[v] = worker[v]
        /\ position' = [position EXCEPT ![Symbol[worker[w].sig]] =
                                NetPosition(Symbol[worker[w].sig])]
    BY <1>1, RecomputePositionEffect DEF OnlyWorker
  <2>2. PICK own \in Symbols : own = Symbol[worker[w].sig]
    BY <2>1, ConstantsAssumption DEF Carries, InductiveInvariant, CallsAccounted, AnswerOK
  <2>3. UpToDate(own)' /\ \A sym \in Symbols : UpToDate(sym) => UpToDate(sym)'
    BY <2>1, <2>2, Recomputed
  <2> SUFFICES ASSUME NEW sym \in Symbols, ~UpToDate(sym)'
               PROVE  \E v \in Workers :
                        worker'[v].pc = "recompute" /\ Symbol[worker'[v].sig] = sym
    BY DEF StaleIsPending
  <2>4. PICK v \in Workers : worker[v].pc = "recompute" /\ Symbol[worker[v].sig] = sym
    BY <2>3 DEF StaleIsPending
  <2>5. sym # own
    BY <2>3
  <2> QED BY <2>1, <2>2, <2>4, <2>5
<1>2. ASSUME NEW sym \in Symbols, RecomputeOne(w, sym) \/ Mark(w, sym) PROVE StaleIsPending'
  <2>1. /\ worker[w].pc # "recompute" /\ UNCHANGED fills
        /\ \A v \in Workers \ {w} : worker'[v] = worker[v]
        /\ position' = [position EXCEPT ![sym] = NetPosition(sym)]
    BY <1>2, RecomputeOneEffect, MarkEffect DEF OnlyWorker
  <2>2. \A other \in Symbols : UpToDate(other) => UpToDate(other)'
    BY <2>1, Recomputed
  <2> QED BY <2>1, <2>2, StaleStaysPending
<1> QED BY <1>1, <1>2

(* A worker that stores new trades goes on to recompute their position.     *)
LEMMA GrowthStale ==
    ASSUME InductiveInvariant, StaleIsPending, NEW w \in Workers,
           ApplyOrderResult(w) \/ IngestFills(w)
    PROVE  StaleIsPending'
<1>1. PICK s \in Signals : s = worker[w].sig
  BY GrowthFrame
<1>2. UNCHANGED position /\ worker[w].pc # "recompute" /\ LedgerTypeOK
  BY GrowthFrame DEF InductiveInvariant
<1>3. PICK c \in Nat :
        /\ Grows(s, c) /\ worker'[w].sig = s
        /\ c > fills[s] => worker'[w].pc = "recompute"
        /\ \A v \in Workers \ {w} : worker'[v] = worker[v]
  <2>1. CASE ApplyOrderResult(w)
    BY <1>1, <2>1, ApplyEffect
  <2>2. CASE IngestFills(w)
    <3>1. PICK c \in Nat :
            /\ Grows(s, c) /\ worker'[w].sig = s
            /\ \A v \in Workers \ {w} : worker'[v] = worker[v]
            /\ \/ c > fills[s] /\ worker'[w].pc = "recompute"
               \/ c = fills[s]
      BY <1>1, <2>2, IngestEffect
    <3>2. fills[s] \in Nat
      BY <1>2, RowTypes
    <3> QED BY <3>1, <3>2
  <2> QED BY <2>1, <2>2
<1>4. CASE c = fills[s]
  <2>1. \A sym \in Symbols : UpToDate(sym) => UpToDate(sym)'
    BY <1>2, <1>3, <1>4, GrowthPositions
  <2> QED BY <1>2, <1>3, <2>1, StaleStaysPending
<1>5. CASE c # fills[s]
  <2>1. c > fills[s]
    BY <1>2, <1>3, <1>5, RowTypes DEF Grows
  <2> SUFFICES ASSUME NEW sym \in Symbols, ~UpToDate(sym)'
               PROVE  \E v \in Workers :
                        worker'[v].pc = "recompute" /\ Symbol[worker'[v].sig] = sym
    BY DEF StaleIsPending
  <2>2. CASE sym = Symbol[s]
    BY <1>3, <2>1, <2>2
  <2>3. CASE sym # Symbol[s]
    <3>1. ~UpToDate(sym)
      BY <1>2, <1>3, <2>3, GrowthPositions
    <3>2. PICK v \in Workers : worker[v].pc = "recompute" /\ Symbol[worker[v].sig] = sym
      BY <3>1 DEF StaleIsPending
    <3> QED BY <1>2, <1>3, <3>2
  <2> QED BY <2>2, <2>3
<1> QED BY <1>4, <1>5

(* Without a death of the process, stale rows stay pending.                 *)
LEMMA StaleKept ==
    ASSUME MaxRestarts = 0
    PROVE  InductiveInvariant /\ SumTypeOK /\ StaleIsPending /\ [Next]_vars => StaleIsPending'
<1> SUFFICES ASSUME InductiveInvariant, SumTypeOK, StaleIsPending, [Next]_vars
             PROVE  StaleIsPending'
  OBVIOUS
<1>1. ASSUME NEW w \in Workers, SubmitSignal(w) \/ SubmitStep(w)
      PROVE  StaleIsPending'
  BY <1>1, RestingStale DEF SubmitStep, QuietStep
<1>2. ASSUME NEW w \in Workers, LedgerStep(w)
      PROVE  StaleIsPending'
  BY <1>2, GrowthStale, RecomputedStale, RestingStale DEF LedgerStep
<1>3. ASSUME NEW w \in Workers, ReconcileStep(w)
      PROVE  StaleIsPending'
  BY <1>3, RestingStale, GrowthStale, RecomputedStale DEF ReconcileStep, QuietStep
<1>4. ASSUME NEW w \in Workers,
             StartReconcile(w) \/ AccountFailure(w) \/ OtherCall(w) \/ Restart(w)
      PROVE  StaleIsPending'
  BY <1>4, RestingStale, RecomputedStale DEF OtherCall, QuietStep
<1>5. ASSUME OperatorStep \/ NewDay \/ UNCHANGED vars \/ VenueStep
      PROVE  StaleIsPending'
  <2>1. UNCHANGED <<fills, position, worker>>
    BY <1>5, OutsideEffect, VenueFillsEffect DEF OutsideStill, VenueStep
  <2>2. \A sym \in Symbols : UpToDate(sym) => UpToDate(sym)'
    BY <2>1, StillPositions
  <2> QED BY <2>1, <2>2 DEF StaleIsPending
<1> QED BY <1>1, <1>2, <1>3, <1>4, <1>5 DEF Next

(* No row of an empty database is stale.                                    *)
LEMMA InitStale == Init => StaleIsPending
  BY InitUpToDate DEF StaleIsPending

-----------------------------------------------------------------------------
(* How trades and open remainders move                                     *)

Open(S) == SumFunctionOnSet(Remainders, S \cap Held)

(* No trade, and no new reservation.                                        *)
Shrinks ==
    /\ UNCHANGED fills
    /\ \A s \in Signals :
        held'[s] = "HELD" => held[s] = "HELD" /\ intents'[s].qty = intents[s].qty

(* Trades of an order, within its quantity and under its reservation.       *)
GrowsHeld(s, c) ==
    /\ Grows(s, c) /\ UNCHANGED held /\ c <= intents[s].qty
    /\ held[s] = "HELD" \/ c = fills[s]

(* The trades of a released order are complete, so that new ones are        *)
(* always of a reserved order.                                              *)
LEMMA GrowthIsHeld ==
    ASSUME InductiveInvariant, EvidenceInvariant, NEW w \in Workers,
           ApplyOrderResult(w) \/ IngestFills(w)
    PROVE  \E s \in Signals, c \in Nat : GrowsHeld(s, c)
<1>1. PICK s \in Signals : s = worker[w].sig
  BY GrowthFrame
<1>2. PICK c \in Nat : Grows(s, c)
  BY <1>1, ApplyEffect, IngestEffect
<1>3. UNCHANGED held /\ Carries(w)
  BY GrowthFrame
<1>4. /\ venue[s].filled \in Nat /\ venue[s].filled <= intents[s].qty
      /\ fills[s] \in Nat /\ intents[s].qty \in Nat
      /\ held[s] \in {"HELD", "RELEASED"}
  BY <1>1, <1>3, CarriedFacts, RowTypes DEF InductiveInvariant
<1>5. held[s] = "RELEASED" => fills[s] = venue[s].filled
  BY DEF EvidenceInvariant, EvidenceOK
<1>6. c >= fills[s] /\ c <= venue[s].filled
  BY <1>2 DEF Grows
<1>7. GrowsHeld(s, c)
  BY <1>2, <1>3, <1>4, <1>5, <1>6 DEF GrowsHeld
<1> QED BY <1>7

(* Every step leaves the ledgers, adds trades to one order, or reserves.    *)
LEMMA LedgerMoves ==
    ASSUME InductiveInvariant, EvidenceInvariant, [Next]_vars
    PROVE  \/ Shrinks
           \/ \E s \in Signals, c \in Nat : GrowsHeld(s, c)
           \/ \E w \in Workers, s \in Signals, q \in 1..MaxQuantity : ReserveAndSend(w, s, q)
<1>1. ASSUME NEW w, OnlyWorker(w) PROVE Shrinks
  BY <1>1 DEF OnlyWorker, Shrinks
<1>2. ASSUME RowsQuiet PROVE Shrinks
  BY <1>2 DEF RowsQuiet, Shrinks
<1>3. ASSUME NEW w \in Workers, QuietStep(w) \/ Claim(w) PROVE Shrinks
  <2>1. CASE QuietStep(w)
    BY <1>2, <2>1, QuietSteps
  <2>2. CASE Claim(w)
    <3>1. worker[w].sig \in Signals
      BY <2>2 DEF Claim, PreCall, InductiveInvariant, CallsAccounted, PreCallOK
    <3> QED BY <1>2, <2>2, <3>1, ClaimEffect
  <2> QED BY <1>3, <2>1, <2>2
<1>4. ASSUME NEW w \in Workers,
             \/ Acknowledged(w) /\ worker'[w].pc = "apply"
             \/ \E t \in Signals : QueryAnswered(w, t) \/ Cancel(w, t)
             \/ RecomputePosition(w) \/ UnknownFeePause(w) \/ Reapply(w) \/ EndRows(w)
             \/ \E sym \in Symbols : RecomputeOne(w, sym) \/ Mark(w, sym)
             \/ Restart(w)
      PROVE  Shrinks
  BY <1>1, <1>4, AnswerEffect, RecomputePositionEffect, UnknownFeePauseEffect, ReapplyEffect,
     EndRowsEffect, RecomputeOneEffect, MarkEffect, RestartEffect
<1>5. ASSUME NEW w \in Workers, Release(w) \/ \E s \in Signals : ReleaseFilled(w, s)
      PROVE  Shrinks
  <2>1. UNCHANGED <<intents, fills>>
    BY <1>5, ReleaseEffect
  <2>2. PICK s \in Signals : ReleasesEvidenced(s)
    BY <1>5, ReleaseEffect
  <2> QED BY <2>1, <2>2 DEF ReleasesEvidenced, Shrinks
<1>6. ASSUME NEW w \in Workers, ExpireUnsent(w) PROVE Shrinks
  <2>1. UNCHANGED fills
    BY <1>6, ExpireUnsentEffect
  <2>2. ASSUME NEW t \in Signals, held'[t] = "HELD"
        PROVE  held[t] = "HELD" /\ intents'[t].qty = intents[t].qty
    BY <1>6, <2>2, ExpireUnsentEffect
  <2> QED BY <2>1, <2>2 DEF Shrinks
<1>7. ASSUME NEW w \in Workers, NEW s \in Signals, RejectSignal(w, s) PROVE Shrinks
  <2>1. UNCHANGED fills
    BY <1>7, RejectSignalEffect
  <2>2. ASSUME NEW t \in Signals, held'[t] = "HELD"
        PROVE  held[t] = "HELD" /\ intents'[t].qty = intents[t].qty
    BY <1>7, <2>2, RejectSignalEffect
  <2> QED BY <2>1, <2>2 DEF Shrinks
<1>8. ASSUME OperatorStep \/ VenueStep \/ NewDay \/ UNCHANGED vars PROVE Shrinks
  BY <1>8, OutsideEffect, VenueFillsEffect DEF VenueStep, OutsideStill, Shrinks
<1>9. ASSUME NEW w \in Workers, SubmitStep(w) \/ LedgerStep(w)
      PROVE  Shrinks \/ \E s \in Signals, c \in Nat : GrowsHeld(s, c)
  BY <1>3, <1>4, <1>5, <1>6, <1>9, GrowthIsHeld DEF SubmitStep, LedgerStep, QuietStep
<1>10. ASSUME NEW w \in Workers, ReconcileStep(w)
       PROVE  Shrinks \/ \E s \in Signals, c \in Nat : GrowsHeld(s, c)
  BY <1>3, <1>4, <1>5, <1>10, GrowthIsHeld DEF ReconcileStep, QuietStep
<1>11. ASSUME NEW w \in Workers,
              StartReconcile(w) \/ AccountFailure(w) \/ OtherCall(w) \/ Restart(w)
       PROVE  Shrinks
  BY <1>3, <1>4, <1>11 DEF OtherCall, QuietStep
<1> QED BY <1>7, <1>8, <1>9, <1>10, <1>11 DEF Next, SubmitSignal

(* Remainders are natural, and at most the quantity.                        *)
LEMMA RemainderType ==
    ASSUME LedgerTypeOK, NEW s \in Signals
    PROVE  /\ Remainders[s] \in Nat /\ Remainders[s] <= intents[s].qty
           /\ fills[s] <= intents[s].qty => Remainders[s] = intents[s].qty - fills[s]
<1>1. intents[s].qty \in Nat /\ fills[s] \in Nat
  BY RowTypes
<1> QED BY <1>1 DEF Remainders, Remainder, Max2

(* What the open orders of a set may still trade is a natural.              *)
LEMMA OpenType ==
    ASSUME LedgerTypeOK, NEW S \in SUBSET Signals
    PROVE  Open(S) \in Nat
<1>1. IsFiniteSet(S \cap Held) /\ \A s \in S \cap Held : Remainders[s] \in Nat
  BY ConstantsAssumption, FS_Subset, RemainderType
<1> QED BY <1>1, SumNonNegative DEF Open

(* Without trades and reservations, open remainders only go away.           *)
LEMMA OpenShrinks ==
    ASSUME LedgerTypeOK, Shrinks, NEW S \in SUBSET Signals
    PROVE  Open(S)' \in Nat /\ Open(S)' <= Open(S) /\ FilledOn(S)' = FilledOn(S)
<1>1. FilledOn(S)' = FilledOn(S)
  BY DEF FilledOn, Shrinks
<1> DEFINE before == S \cap Held
           after == S \cap Held'
<1>2. IsFiniteSet(before) /\ IsFiniteSet(after) /\ after \in SUBSET before
  BY ConstantsAssumption, FS_Subset DEF Shrinks, Held
<1>3. \A s \in after : Remainders'[s] = Remainders[s]
  BY DEF Shrinks, Held, Remainders, Remainder
<1>4. \A s \in before : Remainders[s] \in Nat
  BY RemainderType
<1>5. Open(S) = SumFunctionOnSet(Remainders, before)
      /\ Open(S)' = SumFunctionOnSet(Remainders', after)
  BY DEF Open
<1> HIDE DEF before, after
<1>6. SumFunctionOnSet(Remainders', after) = SumFunctionOnSet(Remainders, after)
  BY <1>2, <1>3, SumSame
<1>7. SumFunctionOnSet(Remainders, after) <= SumFunctionOnSet(Remainders, before)
  BY <1>2, <1>4, SumOfSubset
<1>8. SumFunctionOnSet(Remainders, after) \in Nat
  BY <1>2, <1>4, SumNonNegative
<1> QED BY <1>1, <1>5, <1>6, <1>7, <1>8

(* Trades take from the remainder of their order what they add.             *)
LEMMA OpenGrows ==
    ASSUME LedgerTypeOK, LedgerTypeOK', NEW s \in Signals, NEW c \in Nat, GrowsHeld(s, c),
           NEW S \in SUBSET Signals
    PROVE  /\ s \in S => /\ FilledOn(S)' = FilledOn(S) - fills[s] + c
                         /\ Open(S)' = Open(S) + fills[s] - c
           /\ s \notin S => FilledOn(S)' = FilledOn(S) /\ Open(S)' = Open(S)
<1>1. /\ fills'[s] = c /\ \A t \in Signals \ {s} : fills'[t] = fills[t]
      /\ \A t \in Signals : intents'[t].qty = intents[t].qty
      /\ fills[s] <= c /\ c <= intents[s].qty
      /\ fills[s] \in Nat /\ intents[s].qty \in Nat
  BY RowTypes DEF GrowsHeld, Grows, LedgerTypeOK
<1> DEFINE open == S \cap Held
<1>2. IsFiniteSet(S) /\ IsFiniteSet(open)
  BY ConstantsAssumption, FS_Subset
<1>3. \A t \in S : fills[t] \in Int /\ fills'[t] \in Int
  BY <1>1, RowTypes
<1>4. \A t \in S \ {s} : fills'[t] = fills[t]
  BY <1>1
<1>5. Open(S) = SumFunctionOnSet(Remainders, open)
      /\ Open(S)' = SumFunctionOnSet(Remainders', open)
  BY DEF Open, Held, GrowsHeld
<1>6. \A t \in open : Remainders[t] \in Int
  BY RemainderType
<1>7. \A t \in open : Remainders'[t] \in Int
  <2>1. \A t \in Signals : fills'[t] \in Nat /\ intents'[t].qty \in Nat
    BY ConstantsAssumption DEF LedgerTypeOK, IntentType, Quantity
  <2>2. \A t \in Signals : Remainders'[t] \in Nat
    BY <2>1 DEF Remainders, Remainder, Max2
  <2> QED BY <2>2
<1>8. \A t \in open \ {s} : Remainders'[t] = Remainders[t]
  BY <1>1 DEF Remainders, Remainder
<1>9. /\ Remainders[s] = intents[s].qty - fills[s]
      /\ Remainders'[s] = intents[s].qty - c
  BY <1>1 DEF Remainders, Remainder, Max2
<1>10. s \in open \/ c = fills[s] \/ s \notin S
  BY DEF GrowsHeld, Held
<1>11. s \in open => s \in S
  OBVIOUS
<1>12. Open(S) \in Int /\ FilledOn(S) \in Int
  BY OpenType, FilledType
<1> HIDE DEF open
<1>13. ASSUME s \in S PROVE FilledOn(S)' = FilledOn(S) - fills[s] + c
  BY <1>1, <1>2, <1>3, <1>4, <1>13, SumChanges DEF FilledOn
<1>14. ASSUME s \notin S PROVE FilledOn(S)' = FilledOn(S)
  <2>1. \A t \in S : fills'[t] = fills[t]
    BY <1>4, <1>14
  <2> QED BY <1>2, <2>1, SumSame DEF FilledOn
<1>15. ASSUME s \in open PROVE Open(S)' = Open(S) + fills[s] - c
  <2>1. SumFunctionOnSet(Remainders', open) =
            SumFunctionOnSet(Remainders, open) - Remainders[s] + Remainders'[s]
    BY <1>2, <1>6, <1>7, <1>8, <1>15, SumChanges
  <2> QED BY <1>1, <1>5, <1>9, <1>12, <2>1
<1>16. ASSUME s \notin open \/ c = fills[s] PROVE Open(S)' = Open(S)
  <2>1. \A t \in open : Remainders'[t] = Remainders[t]
    BY <1>8, <1>9, <1>16
  <2> QED BY <1>2, <1>5, <2>1, SumSame
<1>17. s \in S => Open(S)' = Open(S) + fills[s] - c
  BY <1>1, <1>10, <1>12, <1>15, <1>16
<1>18. s \notin S => Open(S)' = Open(S)
  BY <1>11, <1>16
<1> QED BY <1>13, <1>14, <1>17, <1>18

(* A reservation opens its quantity.                                        *)
LEMMA OpenReserves ==
    ASSUME InductiveInvariant, InductiveInvariant', NEW w \in Workers, NEW s \in Signals,
           NEW q \in 1..MaxQuantity, ReserveAndSend(w, s, q), NEW S \in SUBSET Signals
    PROVE  /\ FilledOn(S)' = FilledOn(S)
           /\ s \in S => Open(S)' = Open(S) + q
           /\ s \notin S => Open(S)' = Open(S)
<1>1. /\ UNCHANGED fills /\ held[s] = "none" /\ fills[s] = 0 /\ held'[s] = "HELD"
      /\ intents'[s].qty = q
      /\ \A t \in Signals \ {s} : intents'[t] = intents[t] /\ held'[t] = held[t]
  BY ReserveAndSendEffect
<1>2. FilledOn(S)' = FilledOn(S)
  BY <1>1 DEF FilledOn
<1> DEFINE before == S \cap Held
           after == S \cap Held'
<1>3. IsFiniteSet(before) /\ IsFiniteSet(after)
  BY ConstantsAssumption, FS_Subset
<1>4. before = after \ {s}
  BY <1>1 DEF Held
<1>5. s \in S => s \in after
  BY <1>1 DEF Held
<1>6. s \notin S => before = after
  BY <1>4
<1>7. \A t \in before : Remainders'[t] = Remainders[t]
  BY <1>1, <1>4 DEF Remainders, Remainder
<1>8. \A t \in after : Remainders'[t] \in Int
  <2>1. \A t \in Signals : fills'[t] \in Nat /\ intents'[t].qty \in Nat
    BY ConstantsAssumption DEF InductiveInvariant, LedgerTypeOK, IntentType, Quantity
  <2>2. \A t \in Signals : Remainders'[t] \in Nat
    BY <2>1 DEF Remainders, Remainder, Max2
  <2> QED BY <2>2
<1>9. Remainders'[s] = q
  BY <1>1, ConstantsAssumption DEF Remainders, Remainder, Max2
<1>10. Open(S) = SumFunctionOnSet(Remainders, before)
       /\ Open(S)' = SumFunctionOnSet(Remainders', after)
  BY DEF Open
<1>11. Open(S) \in Nat
  BY OpenType DEF InductiveInvariant
<1> HIDE DEF before, after
<1>12. SumFunctionOnSet(Remainders', before) = SumFunctionOnSet(Remainders, before)
  BY <1>3, <1>7, SumSame
<1>13. ASSUME s \in S PROVE Open(S)' = Open(S) + q
  <2>1. SumFunctionOnSet(Remainders', after) =
            Remainders'[s] + SumFunctionOnSet(Remainders', after \ {s})
    BY <1>3, <1>5, <1>8, <1>13, SumTakesOut
  <2>2. SumFunctionOnSet(Remainders', after) =
            Remainders'[s] + SumFunctionOnSet(Remainders', before)
    BY <1>4, <2>1
  <2> QED BY <1>9, <1>10, <1>11, <1>12, <2>2
<1>14. ASSUME s \notin S PROVE Open(S)' = Open(S)
  BY <1>6, <1>10, <1>12, <1>14
<1> QED BY <1>2, <1>13, <1>14

-----------------------------------------------------------------------------
(* What orders commit: one worker, a position ledger that is read, and no   *)
(* crash between a trade and its position row                              *)

(* A worker that reserves finds every position row up to date.              *)
LEMMA IdleIsUpToDate ==
    ASSUME OneWorker, StaleIsPending, NEW w \in Workers, worker[w].pc = "idle"
    PROVE  \A sym \in Symbols : UpToDate(sym)
<1>1. \A v \in Workers : worker[v].pc # "recompute"
  <2>1. \A v \in Workers : v = w
    BY DEF OneWorker
  <2> QED BY <2>1
<1> QED BY <1>1 DEF StaleIsPending

(* Sold and still to sell stay within what was bought, step by step.        *)
LEMMA ExitsInductive ==
    ASSUME OneWorker, Environment = "TESTNET"
    PROVE  InductiveInvariant /\ InductiveInvariant' /\ EvidenceInvariant /\ StaleIsPending
                /\ ExitsWithinLedger /\ [Next]_vars => ExitsWithinLedger'
<1> SUFFICES ASSUME InductiveInvariant, InductiveInvariant', EvidenceInvariant,
                    StaleIsPending, ExitsWithinLedger, [Next]_vars, NEW sym \in Symbols
             PROVE  FilledOn(Exits \cap Of(sym))' + Open(Exits \cap Of(sym))'
                        <= FilledOn(Entries \cap Of(sym))'
  BY DEF ExitsWithinLedger, Open
<1> DEFINE X == Exits \cap Of(sym)
           E == Entries \cap Of(sym)
<1>1. X \in SUBSET Signals /\ E \in SUBSET Signals /\ X \cap E = {}
  BY DEF Exits, Entries
<1>2. FilledOn(X) + Open(X) <= FilledOn(E)
  BY DEF ExitsWithinLedger, Open
<1>3. LedgerTypeOK /\ LedgerTypeOK'
  BY DEF InductiveInvariant
<1>4. FilledOn(X) \in Nat /\ FilledOn(E) \in Nat /\ Open(X) \in Nat
  BY <1>1, <1>3, FilledType, OpenType
<1> HIDE DEF X, E
<1>5. ASSUME Shrinks PROVE FilledOn(X)' + Open(X)' <= FilledOn(E)'
  <2>1. /\ Open(X)' \in Nat /\ Open(X)' <= Open(X) /\ FilledOn(X)' = FilledOn(X)
        /\ FilledOn(E)' = FilledOn(E)
    BY <1>1, <1>3, <1>5, OpenShrinks
  <2> QED BY <1>2, <1>4, <2>1
<1>6. ASSUME NEW s \in Signals, NEW c \in Nat, GrowsHeld(s, c)
      PROVE  FilledOn(X)' + Open(X)' <= FilledOn(E)'
  <2>1. /\ s \in X => /\ FilledOn(X)' = FilledOn(X) - fills[s] + c
                      /\ Open(X)' = Open(X) + fills[s] - c
        /\ s \notin X => FilledOn(X)' = FilledOn(X) /\ Open(X)' = Open(X)
        /\ s \in E => FilledOn(E)' = FilledOn(E) - fills[s] + c
        /\ s \notin E => FilledOn(E)' = FilledOn(E)
    BY <1>1, <1>3, <1>6, OpenGrows
  <2>2. fills[s] \in Nat /\ fills[s] <= c
    BY <1>3, <1>6, RowTypes DEF GrowsHeld, Grows
  <2>3. ~(s \in X /\ s \in E)
    BY <1>1
  <2> QED BY <1>2, <1>4, <2>1, <2>2, <2>3
<1>7. ASSUME NEW w \in Workers, NEW s \in Signals, NEW q \in 1..MaxQuantity,
             ReserveAndSend(w, s, q)
      PROVE  FilledOn(X)' + Open(X)' <= FilledOn(E)'
  <2>1. /\ FilledOn(X)' = FilledOn(X) /\ FilledOn(E)' = FilledOn(E)
        /\ s \in X => Open(X)' = Open(X) + q
        /\ s \notin X => Open(X)' = Open(X)
    BY <1>1, <1>7, OpenReserves
  <2>2. CASE s \notin X
    BY <1>2, <2>1, <2>2
  <2>3. CASE s \in X
    <3>1. Intent[s] # "ENTRY" /\ Symbol[s] = sym
      BY <2>3 DEF X, Exits, Entries, Of
    <3>2. q <= Inventory(sym) /\ worker[w].pc = "idle"
      BY <1>7, <3>1 DEF ReserveAndSend, AssessExit
    <3>3. position[sym].qty = Max2(0, FilledOn(E) - FilledOn(X))
      <4>1. position[sym] = NetPosition(sym)
        BY <3>2, IdleIsUpToDate DEF UpToDate
      <4> QED BY <4>1 DEF NetPosition, E, X
    <3>4. Inventory(sym) =
            Max2(0, (IF position[sym].qty > 0 THEN position[sym].qty ELSE 0) - Open(X))
      BY DEF Inventory, Open, X
    <3>5. q \in Nat /\ q >= 1
      BY ConstantsAssumption
    <3>6. q <= FilledOn(E) - FilledOn(X) - Open(X)
      BY <1>4, <3>2, <3>3, <3>4, <3>5 DEF Max2
    <3> QED BY <1>4, <2>1, <2>3, <3>5, <3>6
  <2> QED BY <2>2, <2>3
<1>8. FilledOn(X)' + Open(X)' <= FilledOn(E)'
  BY <1>5, <1>6, <1>7, LedgerMoves
<1> QED BY <1>8 DEF X, E

(* An empty ledger commits nothing.                                         *)
LEMMA InitSums ==
    ASSUME Init, NEW S \in SUBSET Signals
    PROVE  FilledOn(S) = 0 /\ Open(S) = 0
<1>1. IsFiniteSet(S)
  BY ConstantsAssumption, FS_Subset
<1>2. \A s \in S : fills[s] = 0
  BY DEF Init
<1>3. S \cap Held = {}
  BY DEF Init, Held
<1>4. FilledOn(S) = 0
  BY <1>1, <1>2, SumOfZeros DEF FilledOn
<1>5. SumFunctionOnSet(Remainders, {}) = 0
  BY SumEmpty
<1> QED BY <1>3, <1>4, <1>5 DEF Open

(* Nothing is bought or sold at the start.                                  *)
LEMMA InitExits == Init => ExitsWithinLedger
<1> SUFFICES ASSUME Init, NEW sym \in Symbols
             PROVE  FilledOn(Exits \cap Of(sym)) + Open(Exits \cap Of(sym))
                        <= FilledOn(Entries \cap Of(sym))
  BY DEF ExitsWithinLedger, Open
<1>1. FilledOn(Exits \cap Of(sym)) = 0 /\ FilledOn(Entries \cap Of(sym)) = 0
      /\ Open(Exits \cap Of(sym)) = 0
  BY InitSums DEF Exits, Entries
<1> QED BY <1>1

(* assess_exit on TESTNET, with one worker that does not die between a      *)
(* trade and its position row: what exits sold and may still sell of a      *)
(* symbol never exceeds what entries bought, whatever control changes,      *)
(* failures and late answers come between.                                  *)
THEOREM ExitsAreCovered ==
    ASSUME OneWorker, Environment = "TESTNET", MaxRestarts = 0
    PROVE  Spec => []ExitsWithinLedger
<1>1. InductiveInvariant /\ SumTypeOK /\ EvidenceInvariant /\ StaleIsPending
          /\ ExitsWithinLedger /\ [Next]_vars
        => /\ InductiveInvariant' /\ SumTypeOK' /\ EvidenceInvariant' /\ StaleIsPending'
           /\ ExitsWithinLedger'
  BY NextKeeps, SumTypesKept, EvidenceKept, StaleKept, ExitsInductive
<1>2. Init => InductiveInvariant /\ SumTypeOK /\ EvidenceInvariant /\ StaleIsPending
                /\ ExitsWithinLedger
  BY InitHolds, InitSumTypes, InitEvidence, InitStale, InitExits
<1> QED BY <1>1, <1>2, PTL DEF Spec

(* What the symbols are worth, by the trade ledger.                         *)
NetExposure == SumFunction([sym \in Symbols |-> NetPosition(sym).qty])

(* What AXIOM owns by its trades is a sum over finitely many symbols.       *)
LEMMA NetExposureSum ==
    /\ NetExposure = SumFunctionOnSet([sym \in Symbols |-> NetPosition(sym).qty], Symbols)
    /\ IsFiniteSet(Symbols)
    /\ LedgerTypeOK => NetExposure \in Nat
<1> DEFINE f == [sym \in Symbols |-> NetPosition(sym).qty]
<1>1. IsFiniteSet(Symbols) /\ DOMAIN f = Symbols
  BY ConstantsAssumption
<1>2. LedgerTypeOK => \A sym \in Symbols : f[sym] \in Nat
  BY NetPositionType
<1>3. NetExposure = SumFunction(f)
  BY DEF NetExposure
<1> HIDE DEF f
<1>4. NetExposure = SumFunctionOnSet(f, Symbols)
  BY <1>1, <1>3 DEF SumFunction
<1>5. LedgerTypeOK => SumFunctionOnSet(f, Symbols) \in Nat
  BY <1>1, <1>2, SumNonNegative
<1> QED BY <1>1, <1>4, <1>5 DEF f

(* Without trades no symbol changes its worth.                              *)
LEMMA NetExposureStays ==
    ASSUME UNCHANGED fills
    PROVE  NetExposure' = NetExposure
<1>1. \A sym \in Symbols : NetPosition(sym)' = NetPosition(sym)
  BY NetSame
<1>2. [sym \in Symbols |-> NetPosition(sym).qty]' = [sym \in Symbols |-> NetPosition(sym).qty]
  BY <1>1
<1> QED BY <1>2 DEF NetExposure

(* Trades of an entry add no more than themselves, those of an exit nothing.*)
LEMMA NetExposureGrows ==
    ASSUME LedgerTypeOK, LedgerTypeOK', NEW s \in Signals, NEW c \in Nat, GrowsHeld(s, c)
    PROVE  /\ NetExposure' \in Nat
           /\ s \in Entries => NetExposure' <= NetExposure - fills[s] + c
           /\ s \notin Entries => NetExposure' <= NetExposure
<1> DEFINE f == [sym \in Symbols |-> NetPosition(sym).qty]
           g == [sym \in Symbols |-> NetPosition(sym)'.qty]
<1>1. /\ fills'[s] = c /\ fills[s] <= c /\ fills[s] \in Nat
      /\ \A t \in Signals \ {s} : fills'[t] = fills[t]
  BY RowTypes DEF GrowsHeld, Grows, LedgerTypeOK
<1>2. PICK own \in Symbols : own = Symbol[s]
  BY ConstantsAssumption
<1>3. /\ NetExposure = SumFunctionOnSet(f, Symbols) /\ NetExposure' = SumFunctionOnSet(g, Symbols)
      /\ IsFiniteSet(Symbols)
  <2>1. NetExposure' = SumFunction(g) /\ DOMAIN g = Symbols
    BY DEF NetExposure
  <2>2. NetExposure = SumFunctionOnSet(f, Symbols) /\ IsFiniteSet(Symbols)
    BY NetExposureSum
  <2> HIDE DEF g
  <2> QED BY <2>1, <2>2 DEF SumFunction
<1>4. /\ \A sym \in Symbols : f[sym] \in Int /\ f[sym] = NetPosition(sym).qty
      /\ NetExposure \in Nat
  BY NetPositionType, NetExposureSum
<1>5. ASSUME NEW sym \in Symbols \ {own} PROVE g[sym] = f[sym]
  <2>1. \A t \in Of(sym) : fills'[t] = fills[t]
    BY <1>1, <1>2 DEF Of
  <2> QED BY <2>1, NetSame
<1> DEFINE E == Entries \cap Of(own)
           X == Exits \cap Of(own)
<1>6. E \in SUBSET Signals /\ X \in SUBSET Signals
  BY DEF Entries, Exits
<1>7. /\ FilledOn(E) \in Nat /\ FilledOn(X) \in Nat
      /\ s \in E => FilledOn(E)' = FilledOn(E) - fills[s] + c
      /\ s \notin E => FilledOn(E)' = FilledOn(E)
      /\ s \in X => FilledOn(X)' = FilledOn(X) - fills[s] + c
      /\ s \notin X => FilledOn(X)' = FilledOn(X)
  BY <1>6, FilledType, OpenGrows
<1>8. /\ f[own] = Max2(0, FilledOn(E) - FilledOn(X))
      /\ g[own] = Max2(0, FilledOn(E)' - FilledOn(X)')
  BY DEF NetPosition
<1>9. (s \in Entries => s \in E /\ s \notin X) /\ (s \notin Entries => s \in X /\ s \notin E)
  BY <1>2 DEF Entries, Exits, Of
<1> HIDE DEF f, g, E, X
<1>10. g[own] \in Nat
  BY <1>1, <1>7, <1>8, <1>9 DEF Max2
<1>11. /\ s \in Entries => g[own] <= f[own] - fills[s] + c
       /\ s \notin Entries => g[own] <= f[own]
  BY <1>1, <1>7, <1>8, <1>9 DEF Max2
<1>12. \A sym \in Symbols : g[sym] \in Int
  BY <1>4, <1>5, <1>10
<1>13. NetExposure' = NetExposure - f[own] + g[own]
  <2>1. \A sym \in Symbols : f[sym] \in Int
    BY <1>4
  <2> QED BY <1>3, <1>5, <1>12, <2>1, SumChanges
<1>14. NetExposure' \in Nat
  <2>1. \A sym \in Symbols : g[sym] \in Nat
    BY <1>5, <1>10, NetPositionType DEF f
  <2> QED BY <1>3, <2>1, SumNonNegative
<1> QED BY <1>1, <1>4, <1>10, <1>11, <1>13, <1>14

(* Open buys count at least what they may still fill.                       *)
LEMMA OpenWithinHeldBuys ==
    ASSUME LedgerTypeOK
    PROVE  HeldBuys \in Nat /\ Open(Entries) <= HeldBuys
<1> DEFINE f == [s \in Signals |-> intents[s].qty]
           open == Entries \cap Held
<1>1. IsFiniteSet(open)
  BY ConstantsAssumption, FS_Subset DEF Entries
<1>2. \A s \in open : f[s] \in Nat /\ f[s] \in Int
  BY RowTypes DEF Entries
<1>3. \A s \in open : Remainders[s] \in Int /\ Remainders[s] <= f[s]
  BY RemainderType DEF Entries
<1>4. HeldBuys = SumFunctionOnSet(f, open) /\ Open(Entries) = SumFunctionOnSet(Remainders, open)
  BY DEF HeldBuys, Open
<1> HIDE DEF f, open
<1>5. SumFunctionOnSet(f, open) \in Nat
  BY <1>1, <1>2, SumNonNegative
<1>6. SumFunctionOnSet(Remainders, open) <= SumFunctionOnSet(f, open)
  BY <1>1, <1>2, <1>3, SumMonotonic
<1> QED BY <1>4, <1>5, <1>6

(* Owned and still to buy stay within the envelope, step by step.           *)
LEMMA EnvelopeInductive ==
    ASSUME OneWorker, Environment = "TESTNET"
    PROVE  InductiveInvariant /\ InductiveInvariant' /\ EvidenceInvariant /\ StaleIsPending
                /\ ExposureWithinEnvelope /\ [Next]_vars => ExposureWithinEnvelope'
<1> SUFFICES ASSUME InductiveInvariant, InductiveInvariant', EvidenceInvariant,
                    StaleIsPending, ExposureWithinEnvelope, [Next]_vars
             PROVE  NetExposure' + Open(Entries)' <= MaxAggregate
  BY DEF ExposureWithinEnvelope, CommittedExposure, NetExposure, Open
<1>1. LedgerTypeOK /\ LedgerTypeOK' /\ MaxAggregate \in Nat /\ Entries \in SUBSET Signals
  BY ConstantsAssumption DEF InductiveInvariant, Entries
<1>2. NetExposure + Open(Entries) <= MaxAggregate
  BY DEF ExposureWithinEnvelope, CommittedExposure, NetExposure, Open
<1>3. NetExposure \in Nat /\ Open(Entries) \in Nat
  BY <1>1, NetExposureSum, OpenType
<1>4. ASSUME Shrinks PROVE NetExposure' + Open(Entries)' <= MaxAggregate
  <2>1. Open(Entries)' \in Nat /\ Open(Entries)' <= Open(Entries)
    BY <1>1, <1>4, OpenShrinks
  <2>2. NetExposure' = NetExposure
    BY <1>4, NetExposureStays DEF Shrinks
  <2> QED BY <1>1, <1>2, <1>3, <2>1, <2>2
<1>5. ASSUME NEW s \in Signals, NEW c \in Nat, GrowsHeld(s, c)
      PROVE  NetExposure' + Open(Entries)' <= MaxAggregate
  <2>1. /\ NetExposure' \in Nat
        /\ s \in Entries => NetExposure' <= NetExposure - fills[s] + c
        /\ s \notin Entries => NetExposure' <= NetExposure
    BY <1>1, <1>5, NetExposureGrows
  <2>2. /\ s \in Entries => Open(Entries)' = Open(Entries) + fills[s] - c
        /\ s \notin Entries => Open(Entries)' = Open(Entries)
    BY <1>1, <1>5, OpenGrows
  <2>3. fills[s] \in Nat
    BY <1>1, RowTypes
  <2> QED BY <1>1, <1>2, <1>3, <2>1, <2>2, <2>3
<1>6. ASSUME NEW w \in Workers, NEW s \in Signals, NEW q \in 1..MaxQuantity,
             ReserveAndSend(w, s, q)
      PROVE  NetExposure' + Open(Entries)' <= MaxAggregate
  <2>1. NetExposure' = NetExposure
    BY <1>6, ReserveAndSendEffect, NetExposureStays
  <2>2. /\ s \in Entries => Open(Entries)' = Open(Entries) + q
        /\ s \notin Entries => Open(Entries)' = Open(Entries)
    BY <1>1, <1>6, OpenReserves
  <2>3. CASE s \notin Entries
    BY <1>2, <2>1, <2>2, <2>3
  <2>4. CASE s \in Entries
    <3>1. AggregateExposure + q <= MaxAggregate /\ worker[w].pc = "idle"
      BY <1>6, <2>4 DEF ReserveAndSend, AssessEntry, Entries
    <3>2. \A sym \in Symbols : position[sym] = NetPosition(sym)
      BY <3>1, IdleIsUpToDate DEF UpToDate
    <3>3. [sym \in Symbols |-> position[sym].qty] = [sym \in Symbols |-> NetPosition(sym).qty]
      BY <3>2
    <3>4. AggregateExposure = NetExposure + HeldBuys
      BY <3>3 DEF AggregateExposure, NetExposure
    <3>5. HeldBuys \in Nat /\ Open(Entries) <= HeldBuys
      BY <1>1, OpenWithinHeldBuys
    <3>6. q \in Nat
      BY ConstantsAssumption
    <3> QED BY <1>1, <1>3, <2>1, <2>2, <2>4, <3>1, <3>4, <3>5, <3>6
  <2> QED BY <2>3, <2>4
<1> QED BY <1>4, <1>5, <1>6, LedgerMoves

(* Nothing is owned or bought at the start.                                 *)
LEMMA InitEnvelope == Init => ExposureWithinEnvelope
<1> SUFFICES ASSUME Init PROVE NetExposure + Open(Entries) <= MaxAggregate
  BY DEF ExposureWithinEnvelope, CommittedExposure, NetExposure, Open
<1>1. Open(Entries) = 0
  BY InitSums DEF Entries
<1> DEFINE f == [sym \in Symbols |-> NetPosition(sym).qty]
<1>2. \A sym \in Symbols : f[sym] = 0
  <2>1. \A sym \in Symbols : position[sym] = [qty |-> 0, unknown |-> FALSE]
    BY DEF Init
  <2>2. \A sym \in Symbols : NetPosition(sym) = position[sym]
    BY InitUpToDate DEF UpToDate
  <2> QED BY <2>1, <2>2
<1>3. NetExposure = SumFunctionOnSet(f, Symbols) /\ IsFiniteSet(Symbols)
  BY NetExposureSum
<1> HIDE DEF f
<1>4. NetExposure = 0
  BY <1>2, <1>3, SumOfZeros
<1> QED BY <1>1, <1>4, ConstantsAssumption

(* assess_entry on TESTNET, with one worker that does not die between a     *)
(* trade and its position row: what AXIOM owns, by its trades, and what its *)
(* open buys may still fill stays within max_aggregate_exposure.            *)
THEOREM EnvelopeHolds ==
    ASSUME OneWorker, Environment = "TESTNET", MaxRestarts = 0
    PROVE  Spec => []ExposureWithinEnvelope
<1>1. InductiveInvariant /\ SumTypeOK /\ EvidenceInvariant /\ StaleIsPending
          /\ ExposureWithinEnvelope /\ [Next]_vars
        => /\ InductiveInvariant' /\ SumTypeOK' /\ EvidenceInvariant' /\ StaleIsPending'
           /\ ExposureWithinEnvelope'
  BY NextKeeps, SumTypesKept, EvidenceKept, StaleKept, EnvelopeInductive
<1>2. Init => InductiveInvariant /\ SumTypeOK /\ EvidenceInvariant /\ StaleIsPending
                /\ ExposureWithinEnvelope
  BY InitHolds, InitSumTypes, InitEvidence, InitStale, InitEnvelope
<1> QED BY <1>1, <1>2, PTL DEF Spec

-----------------------------------------------------------------------------
(* The daily budget of entries                                             *)

(* A step of w that claims nothing: no signal enters the count of the day,  *)
(* no row becomes RESERVED, and w is not about to claim.                    *)
ClaimsNothing ==
    /\ day' = day
    /\ \A s \in Signals : intents'[s].day \in {intents[s].day, 0}
    /\ Claiming' \subseteq Claiming

(* The workers about to claim an entry are fewer than all, and counted.     *)
LEMMA ClaimingCount ==
    /\ IsFiniteSet(Claiming) /\ Cardinality(Claiming) \in Nat
    /\ IsFiniteSet(Workers) /\ Cardinality(Workers) \in Nat
    /\ Cardinality(Claiming) <= Cardinality(Workers)
<1>1. IsFiniteSet(Workers) /\ Claiming \in SUBSET Workers
  BY ConstantsAssumption DEF Claiming
<1> QED BY <1>1, FS_Subset, FS_CardinalityType

(* So are the entries of a day.                                             *)
LEMMA EntriesFinite ==
    \A S \in SUBSET Entries : IsFiniteSet(S) /\ Cardinality(S) \in Nat
<1>1. IsFiniteSet(Signals) /\ \A S \in SUBSET Entries : S \in SUBSET Signals
  BY ConstantsAssumption DEF Entries
<1> QED BY <1>1, FS_Subset, FS_CardinalityType

(* Who is not about to claim stays so.                                      *)
LEMMA ClaimingShrinks ==
    ASSUME NEW w \in Workers,
           \A v \in Workers \ {w} : worker'[v] = worker[v],
           worker'[w].pc # "claim" \/ worker'[w] = worker[w],
           \A s \in Signals : intents'[s].state = "RESERVED" => intents[s].state = "RESERVED"
    PROVE  Claiming' \subseteq Claiming
  BY DEF Claiming, Entries

(* A step that claims nothing keeps the budget.                             *)
LEMMA ClaimsNothingKeepsBudget ==
    ASSUME LedgerTypeOK, BudgetInvariant, ClaimsNothing
    PROVE  BudgetInvariant'
<1> DEFINE T == {s \in Entries : intents[s].day = day}
           U == {s \in Entries : intents'[s].day = day'}
<1>1. day' = day /\ day \in Nat /\ day > 0
  BY ConstantsAssumption DEF ClaimsNothing, LedgerTypeOK
<1>2. U \in SUBSET T /\ T \in SUBSET Entries
  BY <1>1 DEF ClaimsNothing, Entries
<1>3. Cardinality(U) <= Cardinality(T) /\ Cardinality(U) \in Nat /\ Cardinality(T) \in Nat
  <2>1. IsFiniteSet(T) /\ Cardinality(T) \in Nat /\ Cardinality(U) \in Nat
    BY <1>2, EntriesFinite
  <2> HIDE DEF T, U
  <2> QED BY <1>2, <2>1, FS_Subset
<1>4. SubmittedToday(Entries) = Cardinality(T) /\ SubmittedToday(Entries)' = Cardinality(U)
  BY DEF SubmittedToday
<1>5. /\ Cardinality(Claiming') <= Cardinality(Claiming) /\ Cardinality(Claiming') \in Nat
      /\ Cardinality(Claiming) \in Nat /\ Cardinality(Workers) \in Nat
  BY ClaimingCount, FS_Subset, FS_CardinalityType DEF ClaimsNothing
<1>6. \A s \in Signals : intents'[s].day <= day'
  BY <1>1, RowTypes DEF ClaimsNothing, BudgetInvariant
<1>7. Claiming' # {} => MaxSubmissions > 0
  BY DEF ClaimsNothing, BudgetInvariant
<1> HIDE DEF T, U
<1>8. SubmittedToday(Entries)' + Cardinality(Claiming')
        <= MaxSubmissions + Cardinality(Workers) - 1
  BY <1>3, <1>4, <1>5, ConstantsAssumption DEF BudgetInvariant
<1> QED BY <1>6, <1>7, <1>8 DEF BudgetInvariant

(* Every step of a worker but the reservation and the claim.                *)
LEMMA WorkerClaimsNothing ==
    ASSUME InductiveInvariant, NEW w \in Workers,
           \/ QuietStep(w) \/ Restart(w) \/ ExpireUnsent(w)
           \/ Acknowledged(w) /\ worker'[w].pc = "apply"
           \/ \E t \in Signals :
                QueryAnswered(w, t) \/ Cancel(w, t) \/ ReleaseFilled(w, t) \/ RejectSignal(w, t)
           \/ Release(w) \/ Reapply(w) \/ UnknownFeePause(w) \/ EndRows(w) \/ RecomputePosition(w)
           \/ \E sym \in Symbols : RecomputeOne(w, sym) \/ Mark(w, sym)
    PROVE  ClaimsNothing
<1>1. /\ worker[w].then \in {"release", "apply", "positions", "idle"}
      /\ LedgerTypeOK
  BY DEF InductiveInvariant, LedgerTypeOK, WorkerType
<1>2. CASE QuietStep(w)
  <2>1. DaysQuiet /\ SetsDown(w)
    BY <1>2, QuietSteps
  <2>2. Claiming' \subseteq Claiming
    BY <2>1, ClaimingShrinks DEF DaysQuiet, SetsDown, Resting
  <2> QED BY <2>1, <2>2 DEF DaysQuiet, ClaimsNothing
<1>3. CASE ExpireUnsent(w)
  <2>1. UNCHANGED day /\ SetsDown(w)
    BY <1>3, ExpireUnsentEffect
  <2>2. \A s \in Signals :
            /\ intents'[s].day = intents[s].day
            /\ intents'[s].state = "RESERVED" => intents[s].state = "RESERVED"
    BY <1>3, ExpireUnsentEffect
  <2>3. Claiming' \subseteq Claiming
    BY <2>1, <2>2, ClaimingShrinks DEF SetsDown, Resting
  <2> QED BY <2>1, <2>2, <2>3 DEF ClaimsNothing
<1>4. ASSUME UNCHANGED <<intents, day>>, \A v \in Workers \ {w} : worker'[v] = worker[v],
             worker'[w].pc # "claim"
      PROVE  ClaimsNothing
  BY <1>4, ClaimingShrinks DEF ClaimsNothing
<1>5. CASE \/ Acknowledged(w) /\ worker'[w].pc = "apply"
           \/ \E t \in Signals : QueryAnswered(w, t) \/ Cancel(w, t)
  BY <1>4, <1>5, AnswerEffect DEF OnlyWorker
<1>6. CASE \/ Restart(w) \/ Reapply(w) \/ EndRows(w)
           \/ \E sym \in Symbols : RecomputeOne(w, sym) \/ Mark(w, sym)
  BY <1>4, <1>6, RestartEffect, ReapplyEffect, EndRowsEffect, RecomputeOneEffect, MarkEffect
     DEF OnlyWorker
<1>7. CASE RecomputePosition(w) \/ UnknownFeePause(w)
  BY <1>1, <1>4, <1>7, RecomputePositionEffect, UnknownFeePauseEffect DEF OnlyWorker
<1>8. CASE Release(w) \/ \E t \in Signals : ReleaseFilled(w, t)
  BY <1>4, <1>8, ReleaseEffect
<1>9. ASSUME NEW t \in Signals, RejectSignal(w, t) PROVE ClaimsNothing
  <2>1. /\ UNCHANGED <<day, worker>> /\ \A s \in Signals \ {t} : intents'[s] = intents[s]
        /\ intents'[t].state = "REJECTED" /\ intents'[t].day = 0
    BY <1>9, RejectSignalEffect
  <2>2. Claiming' \subseteq Claiming
    BY <2>1, ClaimingShrinks
  <2> QED BY <2>1, <2>2 DEF ClaimsNothing
<1> QED BY <1>2, <1>3, <1>5, <1>6, <1>7, <1>8, <1>9

(* Neither do stored trades.                                                *)
LEMMA GrowthClaimsNothing ==
    ASSUME InductiveInvariant, NEW w \in Workers, ApplyOrderResult(w) \/ IngestFills(w)
    PROVE  ClaimsNothing
<1>1. PICK s \in Signals : s = worker[w].sig
  BY GrowthFrame
<1>2. /\ UNCHANGED day /\ Carries(w) /\ LedgerTypeOK
      /\ worker[w].resp.state \in
            {"ACKNOWLEDGED", "PARTIALLY_FILLED", "REJECTED", "FILLED", "CANCELED", "EXPIRED"}
      /\ worker[w].resp.cumulative \in Nat
  BY GrowthFrame, ConstantsAssumption
     DEF InductiveInvariant, CallsAccounted, AnswerOK, LedgerTypeOK, WorkerType, ResponseType,
         Quantity
<1>3. intents[s].state \in RowStates /\ intents[s].qty \in Nat
  BY <1>2, RowTypes
<1>4. PICK c \in Nat :
        /\ Grows(s, c)
        /\ intents'[s].state = "RESERVED" => intents[s].state = "RESERVED"
        /\ \A v \in Workers \ {w} : worker'[v] = worker[v]
        /\ worker'[w].pc # "claim"
  <2>1. CASE ApplyOrderResult(w)
    <3>1. PICK c \in Nat :
            /\ Grows(s, c)
            /\ LET r == worker[w].resp IN
                 intents'[s].state =
                       IF r.state \in {"CANCELED", "EXPIRED"} /\ r.cumulative > c THEN "UNKNOWN"
                       ELSE MergeOrderState(intents[s].state, r.state, intents[s].qty,
                                            Max2(r.cumulative, c))
            /\ \A v \in Workers \ {w} : worker'[v] = worker[v]
            /\ worker'[w].pc = IF c > fills[s] THEN "recompute" ELSE "release"
      BY <1>1, <2>1, ApplyEffect
    <3>2. Max2(worker[w].resp.cumulative, c) \in Nat
      BY <1>2, <3>1 DEF Max2
    <3>3. MergeOrderState(intents[s].state, worker[w].resp.state, intents[s].qty,
                          Max2(worker[w].resp.cumulative, c)) # "RESERVED"
      BY <1>2, <1>3, <3>2, MergeEnds
    <3> QED BY <3>1, <3>3
  <2>2. CASE IngestFills(w)
    <3>1. PICK c \in Nat :
              /\ Grows(s, c)
              /\ \/ intents'[s].state = intents[s].state
                 \/ intents'[s].state =
                       MergeOrderState(intents[s].state,
                                       IF c >= intents[s].qty THEN "FILLED" ELSE "PARTIALLY_FILLED",
                                       intents[s].qty, c)
              /\ \A v \in Workers \ {w} : worker'[v] = worker[v]
              /\ worker'[w].pc \in {"recompute", "reapply"}
      BY <1>1, <2>2, IngestEffect
    <3>2. (IF c >= intents[s].qty THEN "FILLED" ELSE "PARTIALLY_FILLED")
            \in {"FILLED", "PARTIALLY_FILLED"}
      OBVIOUS
    <3>3. MergeOrderState(intents[s].state,
                          IF c >= intents[s].qty THEN "FILLED" ELSE "PARTIALLY_FILLED",
                          intents[s].qty, c) # "RESERVED"
      BY <1>3, <3>1, <3>2, MergeEnds
    <3> QED BY <3>1, <3>3
  <2> QED BY <2>1, <2>2
<1>5. \A t \in Signals :
        /\ intents'[t].day = intents[t].day
        /\ intents'[t].state = "RESERVED" => intents[t].state = "RESERVED"
  BY <1>4 DEF Grows
<1>6. Claiming' \subseteq Claiming
  BY <1>4, <1>5, ClaimingShrinks
<1> QED BY <1>2, <1>5, <1>6 DEF ClaimsNothing

(* assess_entry counts the entries of the day before it reserves one more,  *)
(* and not the workers that have reserved and not yet claimed.              *)
LEMMA ReserveKeepsBudget ==
    ASSUME InductiveInvariant, BudgetInvariant, Environment = "TESTNET", NEW w \in Workers,
           NEW s \in Signals, NEW q \in 1..MaxQuantity, ReserveAndSend(w, s, q)
    PROVE  BudgetInvariant'
<1>1. /\ UNCHANGED day /\ day \in Nat /\ day > 0 /\ LedgerTypeOK
      /\ \A t \in Signals \ {s} : intents'[t] = intents[t]
      /\ intents'[s].day = 0
      /\ \A v \in Workers \ {w} : worker'[v] = worker[v]
      /\ worker'[w].sig = s
  BY ReserveAndSendEffect, ConstantsAssumption DEF InductiveInvariant, LedgerTypeOK
<1>2. CASE s \notin Entries
  <2>1. Claiming' \subseteq Claiming
    BY <1>1, <1>2 DEF Claiming, Entries
  <2> QED BY <1>1, <2>1, ClaimsNothingKeepsBudget DEF ClaimsNothing
<1>3. CASE s \in Entries
  <2> DEFINE T == {t \in Entries : intents[t].day = day}
             U == {t \in Entries : intents'[t].day = day'}
  <2>1. SubmittedToday(Entries) = Cardinality(T) /\ SubmittedToday(Entries)' = Cardinality(U)
    BY DEF SubmittedToday
  <2>2. U \in SUBSET T /\ T \in SUBSET Entries
    BY <1>1 DEF Entries
  <2> HIDE DEF T, U
  <2>3. Cardinality(U) <= Cardinality(T) /\ Cardinality(U) \in Nat /\ Cardinality(T) \in Nat
    BY <2>2, EntriesFinite, FS_Subset
  <2>4. SubmittedToday(Entries) + 1 <= MaxSubmissions
    BY <1>3 DEF ReserveAndSend, AssessEntry, EntrySubmissions, Entries
  <2>5. /\ Cardinality(Claiming') <= Cardinality(Workers)
        /\ Cardinality(Claiming') \in Nat /\ Cardinality(Workers) \in Nat
    <3>1. IsFiniteSet(Workers) /\ Claiming' \in SUBSET Workers
      BY ConstantsAssumption DEF Claiming
    <3> QED BY <3>1, FS_Subset, FS_CardinalityType
  <2>6. \A t \in Signals : intents'[t].day <= day'
    BY <1>1 DEF BudgetInvariant
  <2>7. MaxSubmissions > 0
    BY <2>1, <2>3, <2>4, ConstantsAssumption
  <2>8. SubmittedToday(Entries)' + Cardinality(Claiming')
          <= MaxSubmissions + Cardinality(Workers) - 1
    BY <2>1, <2>3, <2>4, <2>5, ConstantsAssumption
  <2> QED BY <2>6, <2>7, <2>8 DEF BudgetInvariant
<1> QED BY <1>2, <1>3

(* A claim moves its worker from those about to claim into the count.       *)
LEMMA ClaimKeepsBudget ==
    ASSUME InductiveInvariant, BudgetInvariant, NEW w \in Workers, Claim(w)
    PROVE  BudgetInvariant'
<1>1. PICK s \in Signals : s = worker[w].sig
  BY DEF Claim, PreCall, InductiveInvariant, CallsAccounted, PreCallOK
<1>2. /\ SetsDown(w) /\ UNCHANGED day /\ LedgerTypeOK /\ worker[w].pc = "claim"
      /\ \A t \in Signals \ {s} : intents'[t] = intents[t]
      /\ \/ UNCHANGED intents
         \/ /\ intents[s].state = "RESERVED" /\ intents'[s].state = "SUBMITTING"
            /\ intents'[s].day = day
  BY <1>1, ClaimEffect DEF InductiveInvariant, Claim
<1>3. Claiming' \subseteq Claiming \ {w}
  <2>1. Claiming' \subseteq Claiming
    BY <1>2, ClaimingShrinks DEF SetsDown, Resting
  <2>2. w \notin Claiming'
    BY <1>2 DEF SetsDown, Resting, Claiming
  <2> QED BY <2>1, <2>2
<1>4. CASE UNCHANGED intents
  BY <1>2, <1>3, <1>4, ClaimsNothingKeepsBudget DEF ClaimsNothing
<1>5. CASE /\ intents[s].state = "RESERVED" /\ intents'[s].state = "SUBMITTING"
           /\ intents'[s].day = day
  <2> DEFINE T == {t \in Entries : intents[t].day = day}
             U == {t \in Entries : intents'[t].day = day'}
  <2>1. SubmittedToday(Entries) = Cardinality(T) /\ SubmittedToday(Entries)' = Cardinality(U)
    BY DEF SubmittedToday
  <2>2. /\ s \in Entries => U \in SUBSET (T \cup {s})
        /\ s \notin Entries => U \in SUBSET T
        /\ T \in SUBSET Entries /\ U \in SUBSET Entries
    BY <1>2, <1>5 DEF Entries
  <2>3. s \in Entries => w \in Claiming
    BY <1>1, <1>2, <1>5 DEF Claiming
  <2> HIDE DEF T, U
  <2>4. IsFiniteSet(T) /\ Cardinality(T) \in Nat /\ Cardinality(U) \in Nat
    BY <2>2, EntriesFinite
  <2>5. s \in Entries => Cardinality(U) <= Cardinality(T) + 1
    <3>1. IsFiniteSet(T \cup {s}) /\ Cardinality(T \cup {s}) <= Cardinality(T) + 1
      <4>1. /\ IsFiniteSet(T \cup {s})
            /\ Cardinality(T \cup {s}) = IF s \in T THEN Cardinality(T) ELSE Cardinality(T) + 1
        BY <2>4, FS_AddElement
      <4> QED BY <2>4, <4>1
    <3>2. Cardinality(T \cup {s}) \in Nat
      BY <3>1, FS_CardinalityType
    <3>3. SUFFICES ASSUME s \in Entries PROVE Cardinality(U) <= Cardinality(T \cup {s})
      BY <2>4, <3>1, <3>2
    <3> QED BY <2>2, <3>1, <3>3, FS_Subset
  <2>6. s \notin Entries => Cardinality(U) <= Cardinality(T)
    BY <2>2, <2>4, FS_Subset
  <2>7. /\ Cardinality(Claiming') \in Nat /\ Cardinality(Claiming) \in Nat
        /\ Cardinality(Workers) \in Nat /\ Cardinality(Claiming') <= Cardinality(Claiming)
        /\ s \in Entries => Cardinality(Claiming') <= Cardinality(Claiming) - 1
    <3>1. IsFiniteSet(Claiming) /\ Cardinality(Claiming) \in Nat /\ Cardinality(Workers) \in Nat
      BY ClaimingCount
    <3>2. /\ IsFiniteSet(Claiming \ {w})
          /\ s \in Entries => Cardinality(Claiming \ {w}) = Cardinality(Claiming) - 1
      BY <2>3, <3>1, FS_RemoveElement
    <3>3. /\ Claiming' \in SUBSET (Claiming \ {w}) /\ Claiming' \in SUBSET Claiming
      BY <1>3
    <3>4. /\ Cardinality(Claiming') <= Cardinality(Claiming \ {w})
          /\ Cardinality(Claiming') <= Cardinality(Claiming)
          /\ Cardinality(Claiming') \in Nat
      BY <3>1, <3>2, <3>3, FS_Subset, FS_CardinalityType
    <3> QED BY <3>1, <3>2, <3>4
  <2>8. \A t \in Signals : intents'[t].day <= day'
    <3>1. day \in Nat
      BY <1>2, ConstantsAssumption DEF LedgerTypeOK
    <3> QED BY <1>2, <1>5, <3>1 DEF BudgetInvariant
  <2>9. Claiming' # {} => MaxSubmissions > 0
    BY <1>3 DEF BudgetInvariant
  <2>10. SubmittedToday(Entries)' + Cardinality(Claiming')
          <= MaxSubmissions + Cardinality(Workers) - 1
    BY <2>1, <2>4, <2>5, <2>6, <2>7, ConstantsAssumption DEF BudgetInvariant
  <2> QED BY <2>8, <2>9, <2>10 DEF BudgetInvariant
<1> QED BY <1>2, <1>4, <1>5

(* A new day has no claims, and as many workers about to claim as the last. *)
LEMMA NewDayKeepsBudget ==
    ASSUME LedgerTypeOK, BudgetInvariant, day \in Nat, day' = day + 1,
           UNCHANGED <<intents, worker>>
    PROVE  BudgetInvariant'
<1>1. {s \in Entries : intents'[s].day = day'} = {}
  BY RowTypes DEF BudgetInvariant, Entries
<1>2. SubmittedToday(Entries)' = 0
  BY <1>1, FS_EmptySet DEF SubmittedToday
<1>3. Claiming' = Claiming
  BY DEF Claiming
<1>4. /\ Cardinality(Claiming) \in Nat /\ Cardinality(Workers) \in Nat
      /\ Cardinality(Claiming) <= Cardinality(Workers)
      /\ Claiming = {} => Cardinality(Claiming) = 0
      /\ Cardinality(Workers) # 0
  BY ClaimingCount, FS_EmptySet, ConstantsAssumption
<1>5. Claiming # {} => MaxSubmissions > 0
  BY DEF BudgetInvariant
<1>6. 0 + Cardinality(Claiming) <= MaxSubmissions + Cardinality(Workers) - 1
  BY <1>4, <1>5, ConstantsAssumption
<1>7. \A s \in Signals : intents'[s].day <= day'
  BY RowTypes DEF BudgetInvariant
<1> QED BY <1>2, <1>3, <1>5, <1>6, <1>7 DEF BudgetInvariant

(* The operator, the venue and the clock.                                   *)
LEMMA OutsideKeepsBudget ==
    ASSUME InductiveInvariant, BudgetInvariant,
           \/ OperatorStep \/ NewDay \/ UNCHANGED vars \/ VenueStep
    PROVE  BudgetInvariant'
<1>1. LedgerTypeOK /\ day \in Nat
  BY ConstantsAssumption DEF InductiveInvariant, LedgerTypeOK
<1>2. ASSUME UNCHANGED <<intents, worker, day>> PROVE BudgetInvariant'
  <2>1. Claiming' = Claiming
    BY <1>2 DEF Claiming
  <2> QED BY <1>1, <1>2, <2>1, ClaimsNothingKeepsBudget DEF ClaimsNothing
<1>3. CASE NewDay
  BY <1>1, <1>3, NewDayKeepsBudget DEF NewDay, ledger
<1>4. ASSUME NEW s \in Signals, VenueFills(s) PROVE BudgetInvariant'
  BY <1>2, <1>4, VenueFillsEffect
<1>5. CASE /\ ~NewDay
           /\ \/ OperatorStep \/ UNCHANGED vars \/ VenueReset
              \/ \E s \in Signals : VenueAccepts(s) \/ VenueEnds(s)
  BY <1>2, <1>5, OutsideEffect DEF OutsideStill
<1> QED BY <1>3, <1>4, <1>5 DEF VenueStep

(* Every step keeps the budget, whatever the number of workers.             *)
LEMMA BudgetKept ==
    ASSUME Environment = "TESTNET"
    PROVE  InductiveInvariant /\ BudgetInvariant /\ [Next]_vars => BudgetInvariant'
<1> SUFFICES ASSUME InductiveInvariant, BudgetInvariant, [Next]_vars PROVE BudgetInvariant'
  OBVIOUS
<1>1. ClaimsNothing => BudgetInvariant'
  BY ClaimsNothingKeepsBudget DEF InductiveInvariant
<1>2. ASSUME NEW w \in Workers, SubmitSignal(w) PROVE BudgetInvariant'
  BY <1>1, <1>2, ReserveKeepsBudget, WorkerClaimsNothing DEF SubmitSignal
<1>3. ASSUME NEW w \in Workers, SubmitStep(w) PROVE BudgetInvariant'
  BY <1>1, <1>3, ClaimKeepsBudget, WorkerClaimsNothing DEF SubmitStep, QuietStep
<1>4. ASSUME NEW w \in Workers, LedgerStep(w) PROVE BudgetInvariant'
  BY <1>1, <1>4, GrowthClaimsNothing, WorkerClaimsNothing DEF LedgerStep
<1>5. ASSUME NEW w \in Workers, ReconcileStep(w) PROVE BudgetInvariant'
  BY <1>1, <1>5, GrowthClaimsNothing, WorkerClaimsNothing DEF ReconcileStep, QuietStep
<1>6. ASSUME NEW w \in Workers,
             StartReconcile(w) \/ AccountFailure(w) \/ OtherCall(w) \/ Restart(w)
      PROVE  BudgetInvariant'
  BY <1>1, <1>6, WorkerClaimsNothing DEF OtherCall, QuietStep
<1> QED BY <1>2, <1>3, <1>4, <1>5, <1>6, OutsideKeepsBudget DEF Next

(* An empty database has claimed nothing.                                   *)
LEMMA InitBudget == Init => BudgetInvariant
<1> SUFFICES ASSUME Init PROVE BudgetInvariant
  OBVIOUS
<1>1. /\ day = 1 /\ \A s \in Signals : intents[s].day = 0
      /\ Claiming = {}
  BY DEF Init, NoRow, Idle, Claiming
<1>2. {s \in Entries : intents[s].day = day} = {}
  BY <1>1 DEF Entries
<1>3. SubmittedToday(Entries) = 0 /\ Cardinality(Claiming) = 0
  BY <1>1, <1>2, FS_EmptySet DEF SubmittedToday
<1>4. Cardinality(Workers) \in Nat /\ Cardinality(Workers) # 0
  BY ClaimingCount, FS_EmptySet, ConstantsAssumption
<1> QED BY <1>1, <1>3, <1>4, ConstantsAssumption DEF BudgetInvariant

(* _submission_counts and _claim on TESTNET, with any number of workers:    *)
(* the entries claimed on a day exceed max_submissions_per_day by fewer     *)
(* than there are workers, also when a day ends between a reservation and   *)
(* its claim.                                                               *)
THEOREM BudgetOverrunBounded ==
    ASSUME Environment = "TESTNET"
    PROVE  Spec => [](SubmittedToday(Entries) <= MaxSubmissions + Cardinality(Workers) - 1)
<1>1. InductiveInvariant /\ BudgetInvariant /\ [Next]_vars
        => InductiveInvariant' /\ BudgetInvariant'
  BY NextKeeps, BudgetKept
<1>2. Init => InductiveInvariant /\ BudgetInvariant
  BY InitHolds, InitBudget
<1>3. BudgetInvariant => SubmittedToday(Entries) <= MaxSubmissions + Cardinality(Workers) - 1
  <2>1. Cardinality(Claiming) \in Nat /\ Cardinality(Workers) \in Nat
    BY ClaimingCount
  <2>2. SubmittedToday(Entries) \in Nat
    BY EntriesFinite DEF SubmittedToday
  <2> QED BY <2>1, <2>2, ConstantsAssumption DEF BudgetInvariant
<1> QED BY <1>1, <1>2, <1>3, PTL DEF Spec

(* With one worker on the database there is none to overrun it: the entries *)
(* claimed on a day stay within max_submissions_per_day.                    *)
THEOREM BudgetHolds ==
    ASSUME OneWorker, Environment = "TESTNET"
    PROVE  Spec => []EntriesWithinDailyBudget
<1>1. Cardinality(Workers) = 1
  <2>1. PICK w \in Workers : TRUE
    BY ConstantsAssumption
  <2>2. Workers = {w}
    BY <2>1 DEF OneWorker
  <2> QED BY <2>2, FS_Singleton
<1>2. SubmittedToday(Entries) <= MaxSubmissions + Cardinality(Workers) - 1
        => EntriesWithinDailyBudget
  BY <1>1, ConstantsAssumption DEF EntriesWithinDailyBudget
<1>3. Spec => [](SubmittedToday(Entries) <= MaxSubmissions + Cardinality(Workers) - 1)
  BY BudgetOverrunBounded
<1> QED BY <1>2, <1>3, PTL

-----------------------------------------------------------------------------
(* Final rows, with any number of workers                                   *)

(* A final row stays as it is.                                              *)
FinalStay ==
    \A s \in Signals : intents[s].state \in Terminal => intents'[s].state = intents[s].state

(* Rows that stand, or move while unfinished, say no more than they did.    *)
LEMMA QuietFinalRow ==
    ASSUME FinalityInvariant, RowsQuiet
    PROVE  FinalStay /\ \A s \in Signals : FinalRowOK(s)'
<1>1. ASSUME NEW s \in Signals PROVE FinalRowOK(s)'
  <2>1. FinalRowOK(s)
    BY DEF FinalityInvariant
  <2>2. /\ fills'[s] = fills[s] /\ intents'[s].qty = intents[s].qty
        /\ venue'[s].filled = venue[s].filled
        /\ intents'[s].state = intents[s].state \/ intents'[s].state \notin Terminal
    BY DEF RowsQuiet
  <2> QED BY <2>1, <2>2 DEF FinalRowOK, Terminal
<1>2. FinalStay
  BY DEF FinalStay, RowsQuiet
<1> QED BY <1>1, <1>2

(* An order that the venue does not fill ends short of its quantity.        *)
EndsShort ==
    \A s \in Signals :
        \/ venue'[s].status = venue[s].status
        \/ venue'[s].status \notin {"FILLED", "CANCELED", "EXPIRED"}
        \/ venue[s].status = "NEW" /\ venue'[s].status # "FILLED"

(* Then what ended before or ends now did not fill, or did.                 *)
LEMMA EndedKept ==
    ASSUME InductiveInvariant, FinalityInvariant, EndsShort,
           \A s \in Signals : venue'[s].filled = venue[s].filled,
           \A s \in Signals : held[s] # "none" => intents'[s].qty = intents[s].qty
    PROVE  \A s \in Signals : EndedOK(s)'
<1> SUFFICES ASSUME NEW s \in Signals PROVE EndedOK(s)'
  OBVIOUS
<1>1. /\ EndedOK(s) /\ (venue[s].status = "NEW" => venue[s].filled < intents[s].qty)
      /\ held[s] = "none" => venue[s].status = "absent"
  BY DEF FinalityInvariant, InductiveInvariant, CallsAccounted, VenueOK, RowOK
<1>2. /\ venue'[s].filled = venue[s].filled
      /\ held[s] # "none" => intents'[s].qty = intents[s].qty
      /\ \/ venue'[s].status = venue[s].status
         \/ venue'[s].status \notin {"FILLED", "CANCELED", "EXPIRED"}
         \/ venue[s].status = "NEW" /\ venue'[s].status # "FILLED"
  BY DEF EndsShort
<1> QED BY <1>1, <1>2 DEF EndedOK

(* One status changes.                                                      *)
LEMMA OneStatus ==
    ASSUME LedgerTypeOK, NEW s \in Signals, NEW status,
           venue' = [venue EXCEPT ![s].status = status]
    PROVE  /\ venue'[s].status = status
           /\ \A t \in Signals \ {s} : venue'[t] = venue[t]
  BY DEF LedgerTypeOK, VenueType

(* The worker steps that touch the venue at all.                            *)
LEMMA WorkerEndsShort ==
    ASSUME InductiveInvariant, NEW w \in Workers,
           \/ SubmitSignal(w) \/ SubmitStep(w) \/ LedgerStep(w) \/ ReconcileStep(w)
           \/ StartReconcile(w) \/ AccountFailure(w) \/ OtherCall(w) \/ Restart(w)
    PROVE  EndsShort
<1>1. CASE SubmitSignal(w)
  BY <1>1 DEF SubmitSignal, RejectSignal, ReserveAndSend, market, EndsShort
<1>2. CASE NetworkSubmit(w)
  <2>1. PICK s \in Signals : s = worker[w].sig /\ venue[s].status = "absent"
    BY <1>2 DEF NetworkSubmit, PreCall, InductiveInvariant, CallsAccounted, PreCallOK
  <2>2. venue' = [venue EXCEPT ![s].status = "inflight"]
    BY <1>2, <2>1 DEF NetworkSubmit
  <2> QED BY <2>2, OneStatus DEF InductiveInvariant, EndsShort
<1>3. CASE SubmitStep(w) /\ ~NetworkSubmit(w)
  BY <1>3 DEF SubmitStep, ExpireUnsent, Claim, FirstFence, FinalSubmitFence, FenceRejected,
     Acknowledged, Ambiguous, market, EndsShort
<1>4. CASE LedgerStep(w)
  BY <1>4 DEF LedgerStep, ApplyOrderResult, RecomputePosition, UnknownFeePause, Release,
     market, EndsShort
<1>5. CASE ReconcileStep(w)
  BY <1>5 DEF ReconcileStep, ReleaseFilled, QueryMissing, QueryUnresolved, QueryAnswered,
     TradesFailure, IngestFills, Reapply, EndRows, RecomputeOne, EndReconcile, market, EndsShort
<1>6. ASSUME NEW s \in Signals, CancelAtVenue(s) PROVE EndsShort
  <2>1. CASE venue[s].status = "NEW"
    <3>1. venue' = [venue EXCEPT ![s].status = "CANCELED"]
      BY <1>6, <2>1 DEF CancelAtVenue
    <3> QED BY <2>1, <3>1, OneStatus DEF InductiveInvariant, EndsShort
  <2>2. CASE venue[s].status # "NEW"
    <3>1. venue' = [venue EXCEPT ![s].status = venue[s].status]
      BY <1>6, <2>2 DEF CancelAtVenue
    <3> QED BY <3>1, OneStatus DEF InductiveInvariant, EndsShort
  <2> QED BY <2>1, <2>2
<1>7. CASE OtherCall(w)
  BY <1>6, <1>7 DEF OtherCall, Cancel, CancelFailure, CancelUnknown, Mark, UpdateAccount,
     market, EndsShort
<1>8. CASE StartReconcile(w) \/ AccountFailure(w) \/ Restart(w)
  BY <1>8 DEF StartReconcile, AccountFailure, Restart, market, EndsShort
<1> QED BY <1>1, <1>2, <1>3, <1>4, <1>5, <1>7, <1>8

(* Nor does the world outside end an order otherwise, without a fill.       *)
LEMMA OutsideEndsShort ==
    ASSUME InductiveInvariant,
           \/ OperatorStep \/ NewDay \/ UNCHANGED vars \/ VenueReset
           \/ \E s \in Signals : VenueAccepts(s) \/ VenueEnds(s)
    PROVE  EndsShort
<1>1. CASE OperatorStep \/ NewDay \/ UNCHANGED vars
  BY <1>1 DEF OperatorStep, EnableAutoCanary, Operator, NewDay, vars, market, EndsShort
<1>2. CASE VenueReset
  BY <1>2 DEF VenueReset, Known, EndsShort, InductiveInvariant, LedgerTypeOK, VenueType
<1>3. ASSUME NEW s \in Signals, VenueAccepts(s) \/ VenueEnds(s) PROVE EndsShort
  <2>1. PICK status : /\ venue' = [venue EXCEPT ![s].status = status]
                      /\ \/ status \in {"NEW", "REJECTED"}
                         \/ venue[s].status = "NEW" /\ status \in {"CANCELED", "EXPIRED"}
    BY <1>3 DEF VenueAccepts, VenueEnds
  <2> QED BY <2>1, OneStatus DEF InductiveInvariant, EndsShort
<1> QED BY <1>1, <1>2, <1>3

(* An answer in the hands of a worker that keeps it stays true.             *)
LEMMA CountKept ==
    ASSUME InductiveInvariant, FinalityInvariant, NEW w \in Workers,
           \/ ~Carries(w)'
           \/ /\ Carries(w)
              /\ worker'[w].sig = worker[w].sig
              /\ worker'[w].resp = worker[w].resp,
           Carries(w) =>
              /\ \/ venue'[worker[w].sig].filled = venue[worker[w].sig].filled
                 \/ worker[w].resp.state \notin Terminal
              /\ intents'[worker[w].sig].qty = intents[worker[w].sig].qty
    PROVE  FinalCountOK(w)'
<1>1. FinalCountOK(w)
  BY DEF FinalityInvariant
<1>2. CASE ~Carries(w)'
  BY <1>2 DEF FinalCountOK
<1>3. CASE /\ Carries(w)
           /\ worker'[w].sig = worker[w].sig
           /\ worker'[w].resp = worker[w].resp
  BY <1>1, <1>3 DEF FinalCountOK, Terminal
<1> QED BY <1>2, <1>3

(* The answers of the workers that do not move, when no order is filled.    *)
LEMMA OthersCount ==
    ASSUME InductiveInvariant, FinalityInvariant, NEW w \in Workers,
           \A v \in Workers \ {w} : worker'[v] = worker[v],
           \A s \in Signals : venue'[s].filled = venue[s].filled,
           \A s \in Signals : held[s] # "none" => intents'[s].qty = intents[s].qty
    PROVE  \A v \in Workers \ {w} : FinalCountOK(v)'
<1> SUFFICES ASSUME NEW v \in Workers \ {w} PROVE FinalCountOK(v)'
  OBVIOUS
<1>1. worker'[v] = worker[v]
  OBVIOUS
<1>2. CASE Carries(v)
  <2>1. worker[v].sig \in Signals /\ held[worker[v].sig] # "none"
    BY <1>2, CarriedFacts DEF InductiveInvariant, CallsAccounted, AnswerOK
  <2> QED BY <1>1, <1>2, <2>1, CountKept
<1>3. CASE ~Carries(v)
  BY <1>1, <1>3 DEF FinalCountOK, Carries
<1> QED BY <1>2, <1>3

(* A worker's step that fills no order, put together.                       *)
LEMMA WorkerFinality ==
    ASSUME InductiveInvariant, FinalityInvariant, NEW w \in Workers, EndsShort, FinalStay,
           \A v \in Workers \ {w} : worker'[v] = worker[v],
           \A s \in Signals : venue'[s].filled = venue[s].filled,
           \A s \in Signals : held[s] # "none" => intents'[s].qty = intents[s].qty,
           \A s \in Signals : FinalRowOK(s)',
           FinalCountOK(w)'
    PROVE  FinalityInvariant' /\ FinalStay
  BY EndedKept, OthersCount DEF FinalityInvariant

(* Steps that leave the rows alone or unfinished.                           *)
LEMMA QuietFinality ==
    ASSUME InductiveInvariant, FinalityInvariant, NEW w \in Workers, EndsShort, RowsQuiet,
           \A v \in Workers \ {w} : worker'[v] = worker[v],
           FinalCountOK(w)'
    PROVE  FinalityInvariant' /\ FinalStay
<1>1. FinalStay /\ \A s \in Signals : FinalRowOK(s)'
  BY QuietFinalRow
<1>2. \A s \in Signals : venue'[s].filled = venue[s].filled /\ intents'[s].qty = intents[s].qty
  BY DEF RowsQuiet
<1> QED BY <1>1, <1>2, WorkerFinality

(* The quiet steps, the claim and a death.                                  *)
LEMMA QuietStepFinality ==
    ASSUME InductiveInvariant, FinalityInvariant, NEW w \in Workers,
           QuietStep(w) \/ Claim(w) \/ Restart(w)
    PROVE  FinalityInvariant' /\ FinalStay
<1>1. /\ RowsQuiet /\ worker'[w].pc \in Resting
      /\ \A v \in Workers \ {w} : worker'[v] = worker[v]
  <2>1. CASE QuietStep(w)
    BY <2>1, QuietSteps DEF SetsDown
  <2>2. CASE Claim(w)
    <3>1. worker[w].sig \in Signals
      BY <2>2 DEF Claim, PreCall, InductiveInvariant, CallsAccounted, PreCallOK
    <3> QED BY <2>2, <3>1, ClaimEffect DEF SetsDown
  <2>3. CASE Restart(w)
    BY <2>3, RestartEffect, OnlyWorkerIsQuiet DEF Resting, OnlyWorker
  <2> QED BY <2>1, <2>2, <2>3
<1>2. FinalCountOK(w)'
  BY <1>1 DEF FinalCountOK, Carries, Resting
<1>3. EndsShort
  BY WorkerEndsShort DEF QuietStep, SubmitStep, ReconcileStep, OtherCall
<1> QED BY <1>1, <1>2, <1>3, QuietFinality

(* A new answer tells how the order stands.                                 *)
LEMMA AnswerFinality ==
    ASSUME InductiveInvariant, FinalityInvariant, NEW w \in Workers,
           \/ Acknowledged(w) /\ worker'[w].pc = "apply"
           \/ \E t \in Signals : QueryAnswered(w, t) \/ Cancel(w, t)
    PROVE  FinalityInvariant' /\ FinalStay
<1>1. OnlyWorker(w) /\ worker'[w].pc = "apply"
  BY AnswerEffect
<1>2. PICK s \in Signals :
        /\ worker'[w].sig = s
        /\ worker'[w].resp.cumulative = venue[s].filled
        /\ worker'[w].resp.state = "REJECTED" => venue[s].filled = 0
        /\ worker'[w].resp.state = "FILLED" => venue[s].status = "FILLED"
        /\ worker'[w].resp.state \in {"CANCELED", "EXPIRED"} =>
                venue[s].status \in {"NEW", "CANCELED", "EXPIRED"}
  BY AnswerEffect
<1>3. /\ venue[s].status = "FILLED" => venue[s].filled = intents[s].qty
      /\ venue[s].status \in {"NEW", "CANCELED", "EXPIRED"} => venue[s].filled < intents[s].qty
  BY DEF FinalityInvariant, EndedOK, InductiveInvariant, CallsAccounted, VenueOK
<1>4. venue'[s].filled = venue[s].filled /\ intents'[s].qty = intents[s].qty
  BY <1>1 DEF OnlyWorker
<1>5. FinalCountOK(w)'
  BY <1>1, <1>2, <1>3, <1>4 DEF FinalCountOK
<1>6. EndsShort
  BY WorkerEndsShort DEF SubmitStep, ReconcileStep, OtherCall
<1> QED BY <1>1, <1>5, <1>6, OnlyWorkerIsQuiet, QuietFinality DEF OnlyWorker

(* The steps between two uses of an answer, and those on positions.         *)
LEMMA PassFinality ==
    ASSUME InductiveInvariant, FinalityInvariant, NEW w \in Workers,
           \/ RecomputePosition(w) \/ UnknownFeePause(w) \/ Reapply(w) \/ EndRows(w)
           \/ \E sym \in Symbols : RecomputeOne(w, sym) \/ Mark(w, sym)
    PROVE  FinalityInvariant' /\ FinalStay
<1>1. OnlyWorker(w)
  BY RecomputePositionEffect, UnknownFeePauseEffect, ReapplyEffect, EndRowsEffect,
     RecomputeOneEffect, MarkEffect
<1>2. \/ ~Carries(w)'
      \/ /\ Carries(w) /\ worker'[w].sig = worker[w].sig
         /\ worker'[w].resp = worker[w].resp
  <2>1. CASE EndRows(w) \/ \E sym \in Symbols : RecomputeOne(w, sym) \/ Mark(w, sym)
    <3>1. \/ worker'[w].pc \in {"positions", "idle"}
          \/ worker'[w].pc = "feepause" /\ worker'[w].then \in {"positions", "idle"}
      BY <2>1, EndRowsEffect, RecomputeOneEffect, MarkEffect
    <3> QED BY <3>1 DEF Carries
  <2>2. CASE RecomputePosition(w)
    BY <2>2, RecomputePositionEffect DEF Carries
  <2>3. CASE UnknownFeePause(w)
    <3>1. /\ worker[w].pc = "feepause" /\ worker'[w].pc = worker[w].then
          /\ worker[w].then # "idle" =>
                worker'[w].sig = worker[w].sig /\ worker'[w].resp = worker[w].resp
      BY <2>3, UnknownFeePauseEffect
    <3>2. worker[w].then \in {"release", "apply", "positions", "idle"}
      BY DEF InductiveInvariant, LedgerTypeOK, WorkerType
    <3> QED BY <3>1, <3>2 DEF Carries
  <2>4. CASE Reapply(w)
    BY <2>4, ReapplyEffect DEF Carries
  <2> QED BY <2>1, <2>2, <2>3, <2>4
<1>3. FinalCountOK(w)'
  <2>1. Carries(w) => worker[w].sig \in Signals
    BY DEF InductiveInvariant, CallsAccounted, AnswerOK
  <2> QED BY <1>1, <1>2, <2>1, CountKept DEF OnlyWorker
<1>4. EndsShort
  BY WorkerEndsShort DEF LedgerStep, ReconcileStep, OtherCall
<1> QED BY <1>1, <1>3, <1>4, OnlyWorkerIsQuiet, QuietFinality DEF OnlyWorker

(* A reservation given back says nothing of the row.                        *)
LEMMA ReleaseFinality ==
    ASSUME InductiveInvariant, FinalityInvariant, NEW w \in Workers,
           Release(w) \/ \E s \in Signals : ReleaseFilled(w, s)
    PROVE  FinalityInvariant' /\ FinalStay
<1>1. /\ UNCHANGED <<intents, fills, venue>>
      /\ \A v \in Workers \ {w} : worker'[v] = worker[v]
  BY ReleaseEffect
<1>2. \/ ~Carries(w)'
      \/ /\ Carries(w) /\ worker'[w].sig = worker[w].sig
         /\ worker'[w].resp = worker[w].resp
  BY ReleaseEffect DEF Carries
<1>3. FinalCountOK(w)'
  BY <1>1, <1>2, CountKept
<1>4. EndsShort
  BY <1>1 DEF EndsShort
<1>5. FinalStay /\ \A s \in Signals : FinalRowOK(s)'
  BY <1>1 DEF FinalStay, FinalityInvariant, FinalRowOK
<1> QED BY <1>1, <1>3, <1>4, <1>5, WorkerFinality

(* A signal that is burned, reserved or given up before it was sent.        *)
LEMMA UnsentFinality ==
    ASSUME InductiveInvariant, FinalityInvariant, NEW w \in Workers,
           SubmitSignal(w) \/ ExpireUnsent(w)
    PROVE  FinalityInvariant' /\ FinalStay
<1>1. EndsShort
  BY WorkerEndsShort DEF SubmitStep
<1>2. ASSUME NEW s \in Signals, RejectSignal(w, s) PROVE FinalityInvariant' /\ FinalStay
  <2>1. /\ UNCHANGED <<fills, venue, worker>> /\ held[s] = "none" /\ venue[s].filled = 0
        /\ \A t \in Signals \ {s} : intents'[t] = intents[t]
        /\ intents[s].state = "none" /\ worker[w].pc = "idle" /\ intents'[s].state = "REJECTED"
    BY <1>2, RejectSignalEffect
  <2>2. ASSUME NEW t \in Signals PROVE FinalRowOK(t)'
    <3>1. FinalRowOK(t)
      BY DEF FinalityInvariant
    <3>2. CASE t = s
      BY <2>1, <3>2 DEF FinalRowOK
    <3>3. CASE t # s
      BY <2>1, <3>1, <3>3 DEF FinalRowOK
    <3> QED BY <3>2, <3>3
  <2>3. FinalStay
    BY <2>1 DEF FinalStay, Terminal
  <2>4. FinalCountOK(w)'
    BY <2>1 DEF FinalCountOK, Carries
  <2> QED BY <1>1, <2>1, <2>2, <2>3, <2>4, WorkerFinality
<1>3. ASSUME NEW s \in Signals, NEW q \in 1..MaxQuantity, ReserveAndSend(w, s, q)
      PROVE  FinalityInvariant' /\ FinalStay
  <2>1. /\ UNCHANGED <<fills, venue>> /\ held[s] = "none"
        /\ \A t \in Signals \ {s} : intents'[t] = intents[t]
        /\ intents[s].state = "none" /\ intents'[s].state = "RESERVED"
        /\ \A v \in Workers \ {w} : worker'[v] = worker[v]
        /\ worker'[w].pc = "claim"
    BY <1>3, ReserveAndSendEffect
  <2>2. ASSUME NEW t \in Signals PROVE FinalRowOK(t)'
    <3>1. FinalRowOK(t)
      BY DEF FinalityInvariant
    <3>2. CASE t = s
      BY <2>1, <3>2 DEF FinalRowOK
    <3>3. CASE t # s
      BY <2>1, <3>1, <3>3 DEF FinalRowOK
    <3> QED BY <3>2, <3>3
  <2>3. FinalStay
    BY <2>1 DEF FinalStay, Terminal
  <2>4. FinalCountOK(w)'
    BY <2>1 DEF FinalCountOK, Carries
  <2> QED BY <1>1, <2>1, <2>2, <2>3, <2>4, WorkerFinality
<1>4. CASE ExpireUnsent(w)
  <2>1. /\ UNCHANGED <<fills, venue>> /\ worker'[w].pc \in Resting
        /\ \A v \in Workers \ {w} : worker'[v] = worker[v]
    BY <1>4, ExpireUnsentEffect DEF SetsDown
  <2>2. FinalCountOK(w)'
    BY <2>1 DEF FinalCountOK, Carries, Resting
  <2>3. ASSUME NEW t \in Signals
        PROVE  /\ FinalRowOK(t)' /\ intents'[t].qty = intents[t].qty
               /\ intents[t].state \in Terminal => intents'[t].state = intents[t].state
    <3>1. FinalRowOK(t)
      BY DEF FinalityInvariant
    <3>2. \/ intents'[t] = intents[t]
          \/ /\ venue[t].filled = 0 /\ intents'[t].state = "REJECTED"
             /\ intents'[t].qty = intents[t].qty /\ intents[t].state \notin Terminal
      <4>1. worker[w].sig \in Signals
        BY <1>4 DEF ExpireUnsent, InductiveInvariant, CallsAccounted, PreCallOK, PreCall
      <4>2. venue[worker[w].sig].filled = 0
        BY <1>4, <4>1 DEF ExpireUnsent, InductiveInvariant, CallsAccounted, PreCallOK, PreCall,
           VenueOK
      <4>3. CASE UNCHANGED intents
        BY <4>3
      <4>4. CASE ~UNCHANGED intents
        <5>1. /\ intents[worker[w].sig].state \in {"RESERVED", "SUBMITTING"}
              /\ intents' = [intents EXCEPT ![worker[w].sig].state = "REJECTED"]
          BY <1>4, <4>4 DEF ExpireUnsent
        <5>2. intents \in [Signals -> IntentType]
          BY DEF InductiveInvariant, LedgerTypeOK
        <5>3. CASE t = worker[w].sig
          BY <4>2, <5>1, <5>2, <5>3 DEF IntentType, Terminal
        <5>4. CASE t # worker[w].sig
          BY <5>1, <5>2, <5>4
        <5> QED BY <5>3, <5>4
      <4> QED BY <4>3, <4>4
    <3> QED BY <2>1, <3>1, <3>2 DEF FinalRowOK
  <2>4. FinalStay
    BY <2>3 DEF FinalStay
  <2> QED BY <1>1, <2>1, <2>2, <2>3, <2>4, WorkerFinality
<1> QED BY <1>2, <1>3, <1>4 DEF SubmitSignal

(* The trades of s grow, and its row says no more than they do.             *)
LEMMA GrowthFinality ==
    ASSUME InductiveInvariant, FinalityInvariant, NEW w \in Workers,
           NEW s \in Signals, s = worker[w].sig, NEW c \in Nat, Grows(s, c),
           UNCHANGED <<held, venue>>,
           \A v \in Workers \ {w} : worker'[v] = worker[v],
           Carries(w), worker'[w].sig = s, worker'[w].resp = worker[w].resp,
           intents[s].state \in Terminal => intents'[s].state = intents[s].state,
           intents'[s].state \in {"CANCELED", "EXPIRED"} => c = venue[s].filled,
           intents'[s].state = "FILLED" => venue[s].filled = intents[s].qty,
           intents'[s].state = "REJECTED" => venue[s].filled = 0
    PROVE  FinalityInvariant' /\ FinalStay
<1>1. /\ fills'[s] = c /\ intents'[s].qty = intents[s].qty
      /\ \A t \in Signals \ {s} : intents'[t] = intents[t] /\ fills'[t] = fills[t]
  BY DEF Grows, InductiveInvariant, LedgerTypeOK
<1>2. EndsShort
  BY DEF EndsShort
<1>3. FinalStay
  BY <1>1 DEF FinalStay
<1>4. ASSUME NEW t \in Signals PROVE FinalRowOK(t)'
  <2>1. FinalRowOK(t)
    BY DEF FinalityInvariant
  <2>2. CASE t = s
    BY <1>1, <2>2 DEF FinalRowOK
  <2>3. CASE t # s
    BY <1>1, <2>1, <2>3 DEF FinalRowOK
  <2> QED BY <2>2, <2>3
<1>5. FinalCountOK(w)'
  BY <1>1, CountKept
<1>6. \A t \in Signals : venue'[t].filled = venue[t].filled /\ intents'[t].qty = intents[t].qty
  BY <1>1
<1> QED BY <1>2, <1>3, <1>4, <1>5, <1>6, WorkerFinality

(* An applied answer leaves a final row alone: it counts no more trades     *)
(* than the row has, and ends none of the orders that were filled.          *)
LEMMA ApplyFinality ==
    ASSUME InductiveInvariant, FinalityInvariant, NEW w \in Workers, ApplyOrderResult(w)
    PROVE  FinalityInvariant' /\ FinalStay
<1>1. PICK s \in Signals : s = worker[w].sig
  BY GrowthFrame
<1> DEFINE r == worker[w].resp
           merged(c) == MergeOrderState(intents[s].state, r.state, intents[s].qty,
                                        Max2(r.cumulative, c))
<1>2. PICK c \in Nat :
        /\ Grows(s, c)
        /\ intents'[s].state =
              IF r.state \in {"CANCELED", "EXPIRED"} /\ r.cumulative > c THEN "UNKNOWN"
              ELSE merged(c)
        /\ \A v \in Workers \ {w} : worker'[v] = worker[v]
        /\ worker'[w].sig = s /\ worker'[w].resp = r
  BY <1>1, ApplyEffect
<1>3. UNCHANGED <<held, venue>> /\ Carries(w)
  BY GrowthFrame
<1>4. /\ r.cumulative \in Nat /\ venue[s].filled \in Nat /\ intents[s].qty \in Nat
      /\ fills[s] \in Nat /\ intents[s].state \in RowStates
      /\ r.state \in {"ACKNOWLEDGED", "PARTIALLY_FILLED", "REJECTED", "FILLED", "CANCELED",
                      "EXPIRED"}
      /\ venue[s].filled <= intents[s].qty /\ r.cumulative <= venue[s].filled
  BY <1>1, <1>3, CarriedFacts, RowTypes DEF InductiveInvariant, ResponseType
<1>5. /\ r.state \in Terminal => r.cumulative = venue[s].filled
      /\ r.state = "REJECTED" => venue[s].filled = 0
      /\ r.state = "FILLED" => venue[s].filled = intents[s].qty
      /\ r.state \in {"CANCELED", "EXPIRED"} => venue[s].filled < intents[s].qty
  BY <1>1, <1>3 DEF FinalityInvariant, FinalCountOK
<1>6. /\ intents[s].state \in {"CANCELED", "EXPIRED"} => fills[s] = venue[s].filled
      /\ intents[s].state = "FILLED" => venue[s].filled = intents[s].qty
      /\ intents[s].state = "REJECTED" => venue[s].filled = 0
  BY DEF FinalityInvariant, FinalRowOK
<1>7. c \in fills[s]..venue[s].filled
  BY <1>2 DEF Grows
<1>8. Max2(r.cumulative, c) \in Nat /\ Max2(r.cumulative, c) \in {r.cumulative, c}
  BY <1>4 DEF Max2
<1>9. /\ intents[s].state \in Terminal => merged(c) = intents[s].state
      /\ intents[s].state \notin Terminal =>
            /\ merged(c) \in {"CANCELED", "EXPIRED", "REJECTED"} => r.state = merged(c)
            /\ merged(c) = "FILLED" =>
                r.state = "FILLED" \/ Max2(r.cumulative, c) >= intents[s].qty
  BY <1>4, <1>8, MergeEnds
<1>10. \/ /\ intents'[s].state = "UNKNOWN"
          /\ r.state \in {"CANCELED", "EXPIRED"} /\ r.cumulative > c
       \/ /\ intents'[s].state = merged(c)
          /\ r.state \in {"CANCELED", "EXPIRED"} => r.cumulative <= c
  BY <1>2, <1>4
<1>11. /\ \A v \in Workers \ {w} : worker'[v] = worker[v]
       /\ worker'[w].sig = s /\ worker'[w].resp = worker[w].resp /\ Grows(s, c)
  BY <1>2
<1> HIDE DEF merged, r
<1>12. intents[s].state \in Terminal => intents'[s].state = intents[s].state
  BY <1>4, <1>5, <1>6, <1>7, <1>9, <1>10 DEF Terminal
<1>13. intents'[s].state \in {"CANCELED", "EXPIRED"} => c = venue[s].filled
  BY <1>4, <1>5, <1>6, <1>7, <1>9, <1>10 DEF Terminal
<1>14. intents'[s].state = "FILLED" => venue[s].filled = intents[s].qty
  BY <1>4, <1>5, <1>6, <1>7, <1>8, <1>9, <1>10 DEF Terminal
<1>15. intents'[s].state = "REJECTED" => venue[s].filled = 0
  BY <1>5, <1>6, <1>9, <1>10 DEF Terminal
<1> QED BY <1>1, <1>3, <1>11, <1>12, <1>13, <1>14, <1>15, GrowthFinality

(* Ingested trades leave a final row alone and end one when they fill it.   *)
LEMMA IngestFinality ==
    ASSUME InductiveInvariant, FinalityInvariant, NEW w \in Workers, IngestFills(w)
    PROVE  FinalityInvariant' /\ FinalStay
<1>1. PICK s \in Signals : s = worker[w].sig
  BY GrowthFrame
<1> DEFINE observed(c) == IF c >= intents[s].qty THEN "FILLED" ELSE "PARTIALLY_FILLED"
           merged(c) == MergeOrderState(intents[s].state, observed(c), intents[s].qty, c)
<1>2. PICK c \in Nat :
        /\ Grows(s, c)
        /\ intents'[s].state \in {intents[s].state, merged(c)}
        /\ \A v \in Workers \ {w} : worker'[v] = worker[v]
        /\ worker'[w].sig = s /\ worker'[w].resp = worker[w].resp
  BY <1>1, IngestEffect
<1>3. UNCHANGED <<held, venue>> /\ Carries(w)
  BY GrowthFrame
<1>4. /\ venue[s].filled \in Nat /\ intents[s].qty \in Nat /\ fills[s] \in Nat
      /\ intents[s].state \in RowStates /\ venue[s].filled <= intents[s].qty
  BY <1>1, <1>3, CarriedFacts, RowTypes DEF InductiveInvariant
<1>5. /\ intents[s].state \in {"CANCELED", "EXPIRED"} => fills[s] = venue[s].filled
      /\ intents[s].state = "FILLED" => venue[s].filled = intents[s].qty
      /\ intents[s].state = "REJECTED" => venue[s].filled = 0
  BY DEF FinalityInvariant, FinalRowOK
<1>6. c \in fills[s]..venue[s].filled
  BY <1>2 DEF Grows
<1>7. /\ intents[s].state \in Terminal => merged(c) = intents[s].state
      /\ intents[s].state \notin Terminal =>
            /\ merged(c) \notin {"CANCELED", "EXPIRED", "REJECTED"}
            /\ merged(c) = "FILLED" => c >= intents[s].qty
  <2>1. /\ observed(c) \in {"ACKNOWLEDGED", "PARTIALLY_FILLED", "REJECTED", "FILLED",
                            "CANCELED", "EXPIRED"}
        /\ observed(c) \notin {"CANCELED", "EXPIRED", "REJECTED"}
        /\ observed(c) = "FILLED" => c >= intents[s].qty
    OBVIOUS
  <2> HIDE DEF observed
  <2> QED BY <1>4, <2>1, MergeEnds
<1> HIDE DEF merged, observed
<1>8. intents[s].state \in Terminal => intents'[s].state = intents[s].state
  BY <1>2, <1>7
<1>9. intents'[s].state \in {"CANCELED", "EXPIRED"} => c = venue[s].filled
  BY <1>2, <1>4, <1>5, <1>6, <1>7 DEF Terminal
<1>10. intents'[s].state = "FILLED" => venue[s].filled = intents[s].qty
  BY <1>2, <1>4, <1>5, <1>6, <1>7 DEF Terminal
<1>11. intents'[s].state = "REJECTED" => venue[s].filled = 0
  BY <1>2, <1>5, <1>7 DEF Terminal
<1> QED BY <1>1, <1>2, <1>3, <1>8, <1>9, <1>10, <1>11, GrowthFinality

(* The venue fills an order nobody takes for over, up to its quantity.      *)
LEMMA OutsideFinality ==
    ASSUME InductiveInvariant, FinalityInvariant,
           \/ OperatorStep \/ NewDay \/ UNCHANGED vars \/ VenueStep
    PROVE  FinalityInvariant' /\ FinalStay
<1>1. CASE OutsideStill /\ EndsShort
  <2>1. RowsQuiet
    BY <1>1 DEF OutsideStill, RowsQuiet
  <2>2. FinalStay /\ \A s \in Signals : FinalRowOK(s)'
    BY <2>1, QuietFinalRow
  <2>3. \A s \in Signals : EndedOK(s)'
    BY <1>1, EndedKept DEF OutsideStill
  <2>4. ASSUME NEW v \in Workers PROVE FinalCountOK(v)'
    <3>1. Carries(v) => worker[v].sig \in Signals
      BY DEF InductiveInvariant, CallsAccounted, AnswerOK
    <3>2. worker' = worker /\ intents' = intents
      BY <1>1 DEF OutsideStill
    <3>3. CASE Carries(v)
      BY <1>1, <3>1, <3>2, <3>3, CountKept DEF OutsideStill
    <3>4. CASE ~Carries(v)
      BY <3>2, <3>4 DEF FinalCountOK, Carries
    <3> QED BY <3>3, <3>4
  <2> QED BY <2>2, <2>3, <2>4 DEF FinalityInvariant
<1>2. ASSUME NEW s \in Signals, VenueFills(s) PROVE FinalityInvariant' /\ FinalStay
  <2>1. /\ UNCHANGED <<intents, held, fills, worker>> /\ venue[s].status = "NEW"
        /\ intents[s].state \notin Terminal
        /\ \A t \in Signals \ {s} : venue'[t] = venue[t]
    BY <1>2, VenueFillsEffect
  <2>2. /\ venue'[s].status \in {"NEW", "FILLED"}
        /\ venue'[s].status = "FILLED" => venue'[s].filled = intents[s].qty
    BY <1>2 DEF VenueFills, InductiveInvariant, LedgerTypeOK, VenueType
  <2>3. ASSUME NEW t \in Signals PROVE EndedOK(t)' /\ FinalRowOK(t)'
    <3>1. EndedOK(t) /\ FinalRowOK(t)
      BY DEF FinalityInvariant
    <3>2. CASE t = s
      BY <2>1, <2>2, <3>2 DEF EndedOK, FinalRowOK, Terminal
    <3>3. CASE t # s
      BY <2>1, <3>1, <3>3 DEF EndedOK, FinalRowOK
    <3> QED BY <3>2, <3>3
  <2>4. ASSUME NEW v \in Workers PROVE FinalCountOK(v)'
    <3>1. CASE ~Carries(v)
      BY <2>1, <3>1 DEF FinalCountOK, Carries
    <3>2. CASE Carries(v)
      <4>1. worker[v].sig \in Signals
        BY <3>2 DEF InductiveInvariant, CallsAccounted, AnswerOK
      <4>2. \/ venue'[worker[v].sig].filled = venue[worker[v].sig].filled
            \/ worker[v].resp.state \notin Terminal
        BY <2>1, <3>2, <4>1, CarriedFacts DEF Dead
      <4> QED BY <2>1, <3>2, <4>1, <4>2, CountKept
    <3> QED BY <3>1, <3>2
  <2>5. FinalStay
    BY <2>1 DEF FinalStay
  <2> QED BY <2>3, <2>4, <2>5 DEF FinalityInvariant
<1> QED BY <1>1, <1>2, OutsideEffect, OutsideEndsShort DEF VenueStep

(* Every step of any worker keeps it, and leaves final rows alone.          *)
LEMMA FinalityKept ==
    InductiveInvariant /\ FinalityInvariant /\ [Next]_vars => FinalityInvariant' /\ FinalStay
<1> SUFFICES ASSUME InductiveInvariant, FinalityInvariant, [Next]_vars
             PROVE  FinalityInvariant' /\ FinalStay
  OBVIOUS
<1>1. ASSUME NEW w \in Workers, SubmitSignal(w) \/ SubmitStep(w)
      PROVE  FinalityInvariant' /\ FinalStay
  BY <1>1, UnsentFinality, QuietStepFinality, AnswerFinality DEF SubmitStep, QuietStep
<1>2. ASSUME NEW w \in Workers, LedgerStep(w)
      PROVE  FinalityInvariant' /\ FinalStay
  BY <1>2, ApplyFinality, PassFinality, ReleaseFinality DEF LedgerStep
<1>3. ASSUME NEW w \in Workers, ReconcileStep(w)
      PROVE  FinalityInvariant' /\ FinalStay
  BY <1>3, ReleaseFinality, QuietStepFinality, AnswerFinality, IngestFinality, PassFinality
     DEF ReconcileStep, QuietStep
<1>4. ASSUME NEW w \in Workers,
             StartReconcile(w) \/ AccountFailure(w) \/ OtherCall(w) \/ Restart(w)
      PROVE  FinalityInvariant' /\ FinalStay
  BY <1>4, QuietStepFinality, AnswerFinality, PassFinality DEF OtherCall, QuietStep
<1> QED BY <1>1, <1>2, <1>3, <1>4, OutsideFinality DEF Next

(* An empty database has no final row.                                      *)
LEMMA InitFinality == Init => FinalityInvariant
  BY DEF Init, NoRow, Idle, FinalityInvariant, EndedOK, FinalRowOK, FinalCountOK, Carries

(* _merge_order_state and what writes around it, for any number of workers: *)
(* no late, repeated or stale answer moves an order row that is final.      *)
THEOREM TerminalStaysFinal == Spec => TerminalIsFinal
<1>1. InductiveInvariant /\ FinalityInvariant /\ [Next]_vars =>
        FinalityInvariant'
        /\ [\A s \in Signals : intents[s].state \in Terminal
                => intents'[s].state = intents[s].state]_vars
  BY FinalityKept DEF FinalStay
<1> QED BY <1>1, InvariantHolds, InitFinality, PTL DEF Spec, TerminalIsFinal

-----------------------------------------------------------------------------
(* Unvalued trades and the way to the venue, with one worker                *)

(* The trades, their days and the position rows stand.                      *)
DatedStill ==
    /\ UNCHANGED <<fills, position, day>>
    /\ \A s \in Signals : venue'[s].day = venue[s].day

(* An order on its way when they stand was on its way before.               *)
LEMMA DatedKeeps ==
    ASSUME ValuationInvariant, DatedStill, NoneSetsOut
    PROVE  ValuationInvariant'
<1>1. Unvalued' = Unvalued
  BY DEF DatedStill, Unvalued
<1>2. ASSUME NEW w \in Workers, worker'[w].pc \in PreCall, NEW s \in Unvalued
      PROVE  venue'[s].day < day' /\ ~position'[Symbol[s]].unknown
  <2>1. worker[w].pc \in PreCall
    BY <1>2 DEF NoneSetsOut
  <2>2. s \in Signals
    BY <1>2 DEF Unvalued
  <2> QED BY <2>1, <2>2 DEF ValuationInvariant, DatedStill
<1> QED BY <1>1, <1>2 DEF ValuationInvariant, DatedStill

(* The one worker is not on its way: nothing is asked of the rows.          *)
LEMMA NobodySetsOut ==
    ASSUME OneWorker, ValuationInvariant, NEW w \in Workers, worker[w].pc \notin PreCall,
           NoneSetsOut, UNCHANGED day, \A s \in Signals : venue'[s].day = venue[s].day
    PROVE  ValuationInvariant'
<1>1. ASSUME NEW v \in Workers PROVE worker'[v].pc \notin PreCall
  <2>1. v = w
    BY DEF OneWorker
  <2> QED BY <2>1 DEF NoneSetsOut
<1> QED BY <1>1 DEF ValuationInvariant

(* A change of status is none of the day of the trades.                     *)
LEMMA StatusKeepsDays ==
    ASSUME LedgerTypeOK, NEW s \in Signals,
           NEW status, venue' = [venue EXCEPT ![s].status = status]
    PROVE  \A t \in Signals : venue'[t].day = venue[t].day
  BY DEF LedgerTypeOK, VenueType

(* Neither is a cancel.                                                     *)
LEMMA CancelKeepsDays ==
    ASSUME LedgerTypeOK, NEW s \in Signals, CancelAtVenue(s) \/ UNCHANGED venue
    PROVE  \A t \in Signals : venue'[t].day = venue[t].day
  BY DEF LedgerTypeOK, VenueType, CancelAtVenue

(* The steps of a submission and a death: no trade comes in.                *)
LEMMA SubmitValuation ==
    ASSUME InductiveInvariant, ValuationInvariant, NEW w \in Workers,
           SubmitStep(w) \/ Restart(w) \/ \E s \in Signals : RejectSignal(w, s)
    PROVE  ValuationInvariant'
<1>1. NoneSetsOut
  <2>1. CASE \E s \in Signals : RejectSignal(w, s)
    BY <2>1, NoWorkerAside DEF RejectSignal
  <2>2. CASE Restart(w)
    <3>1. /\ worker'[w].pc = "idle" /\ \A v \in Workers \ {w} : worker'[v] = worker[v]
      BY <2>2, RestartEffect DEF OnlyWorker
    <3> QED BY <3>1, OneWorkerAside DEF PreCall
  <2>3. CASE SubmitStep(w)
    BY <2>3, SubmitStepOrderly, FinalFenceOrderly DEF SubmitStep, Orderly
  <2> QED BY <2>1, <2>2, <2>3
<1>2. DatedStill
  <2>1. CASE NetworkSubmit(w)
    <3>1. worker[w].sig \in Signals
      BY <2>1 DEF NetworkSubmit, PreCall, InductiveInvariant, CallsAccounted, PreCallOK
    <3>2. /\ UNCHANGED <<fills, position, day>>
          /\ \E status : venue' = [venue EXCEPT ![worker[w].sig].status = status]
      BY <2>1 DEF NetworkSubmit, ledger
    <3> QED BY <3>1, <3>2, StatusKeepsDays DEF InductiveInvariant, DatedStill
  <2>2. CASE ~NetworkSubmit(w)
    BY <2>2 DEF SubmitStep, ExpireUnsent, Claim, FirstFence, FinalSubmitFence, FenceRejected,
       Acknowledged, Ambiguous, Restart, RejectSignal, ledger, market, DatedStill
  <2> QED BY <2>1, <2>2
<1> QED BY <1>1, <1>2, DatedKeeps

(* Every other call of the worker: it is not on its way to the venue.       *)
LEMMA OtherValuation ==
    ASSUME OneWorker, InductiveInvariant, InductiveInvariant', ValuationInvariant,
           NEW w \in Workers,
           \/ LedgerStep(w) \/ ReconcileStep(w) \/ OtherCall(w) \/ StartReconcile(w)
           \/ AccountFailure(w)
    PROVE  ValuationInvariant'
<1>1. NoneSetsOut
  BY LedgerStepOrderly, ReconcileStepOrderly, OtherCallOrderly DEF Orderly
<1>2. worker[w].pc \notin PreCall
  BY DEF PreCall, LedgerStep, ApplyOrderResult, RecomputePosition, UnknownFeePause, Release,
     ReconcileStep, ReleaseFilled, QueryMissing, QueryUnresolved, QueryAnswered, NextRow,
     TradesFailure, IngestFills, Reapply, EndRows, RecomputeOne, EndReconcile,
     OtherCall, Cancel, CancelFailure, Cancellable, CancelUnknown, Mark, UpdateAccount,
     StartReconcile, AccountFailure
<1>3. UNCHANGED day
  BY DEF LedgerStep, ApplyOrderResult, RecomputePosition, UnknownFeePause, Release,
     ReconcileStep, ReleaseFilled, QueryMissing, QueryUnresolved, QueryAnswered,
     TradesFailure, IngestFills, Reapply, EndRows, RecomputeOne, EndReconcile,
     OtherCall, Cancel, CancelFailure, CancelUnknown, Mark, UpdateAccount,
     StartReconcile, AccountFailure
<1>4. \A s \in Signals : venue'[s].day = venue[s].day
  <2>1. ASSUME NEW s \in Signals, Cancel(w, s) \/ CancelFailure(w, s)
        PROVE  \A t \in Signals : venue'[t].day = venue[t].day
    BY <2>1, CancelKeepsDays DEF Cancel, CancelFailure, InductiveInvariant
  <2>2. CASE ~\E s \in Signals : Cancel(w, s) \/ CancelFailure(w, s)
    BY <2>2 DEF LedgerStep, ApplyOrderResult, RecomputePosition, UnknownFeePause, Release,
       ReconcileStep, ReleaseFilled, QueryMissing, QueryUnresolved, QueryAnswered,
       TradesFailure, IngestFills, Reapply, EndRows, RecomputeOne, EndReconcile,
       OtherCall, CancelUnknown, Mark, UpdateAccount, StartReconcile, AccountFailure, market
  <2> QED BY <2>1, <2>2
<1> QED BY <1>1, <1>2, <1>3, <1>4, NobodySetsOut

(* A reservation: the snapshot it was decided on has no unvalued trade of   *)
(* the day and no position row that says so.                                *)
LEMMA ReserveValuation ==
    ASSUME OneWorker, Environment = "TESTNET", InductiveInvariant, ValuationInvariant,
           NEW w \in Workers, NEW s \in Signals, NEW q \in 1..MaxQuantity,
           ReserveAndSend(w, s, q)
    PROVE  ValuationInvariant'
<1>1. UNCHANGED <<fills, position, venue, day>>
  BY ReserveAndSendEffect
<1>2. ~AccountPaused
  BY DEF ReserveAndSend, AssessEntry, AssessExit
<1>3. (\A sym \in Symbols : ~position[sym].unknown) /\ UnvaluedToday = {}
  BY <1>2 DEF AccountPaused
<1>4. ASSUME NEW t \in Unvalued
      PROVE  venue[t].day < day /\ ~position[Symbol[t]].unknown
  <2>1. t \in Signals /\ Symbol[t] \in Symbols
    BY <1>4, ConstantsAssumption DEF Unvalued
  <2>2. venue[t].day # day
    BY <1>3, <1>4 DEF UnvaluedToday
  <2>3. venue[t].day \in Int /\ day \in Int /\ venue[t].day <= day
    BY <2>1, ConstantsAssumption DEF ValuationInvariant, InductiveInvariant, LedgerTypeOK, VenueType
  <2> QED BY <1>3, <2>1, <2>2, <2>3
<1>5. Unvalued' = Unvalued
  BY <1>1 DEF Unvalued
<1> QED BY <1>1, <1>4, <1>5 DEF ValuationInvariant

(* An order trades on one day: one with trades of an earlier day trades no  *)
(* more, and one without is none of the unvalued.                           *)
LEMMA FillsValuation ==
    ASSUME InductiveInvariant, ValuationInvariant, NEW s \in Signals, VenueFills(s)
    PROVE  ValuationInvariant'
<1>1. /\ UNCHANGED <<fills, position, worker, day>>
      /\ \A t \in Signals \ {s} : venue'[t] = venue[t]
  BY VenueFillsEffect
<1>2. venue'[s].day = day /\ (venue[s].filled > 0 => venue[s].day = day)
  BY DEF VenueFills, InductiveInvariant, LedgerTypeOK, VenueType
<1>3. fills[s] <= venue[s].filled /\ fills[s] \in Nat /\ venue[s].filled \in Nat /\ day \in Int
  BY RowTypes, ConstantsAssumption DEF InductiveInvariant, CallsAccounted, VenueOK, LedgerTypeOK
<1>4. Unvalued' = Unvalued
  BY <1>1 DEF Unvalued
<1>5. ASSUME NEW w \in Workers, worker'[w].pc \in PreCall, NEW t \in Unvalued
      PROVE  venue'[t].day < day' /\ ~position'[Symbol[t]].unknown
  <2>1. t \in Signals /\ fills[t] > 0
    BY <1>5 DEF Unvalued
  <2>2. venue[t].day < day /\ ~position[Symbol[t]].unknown
    BY <1>1, <1>5 DEF ValuationInvariant
  <2>3. t # s
    BY <1>2, <1>3, <2>1, <2>2
  <2> QED BY <1>1, <2>1, <2>2, <2>3
<1>6. \A t \in Signals : venue'[t].day <= day'
  BY <1>1, <1>2, <1>3 DEF ValuationInvariant
<1> QED BY <1>4, <1>5, <1>6 DEF ValuationInvariant

(* The operator, the clock and the rest of the venue.                       *)
LEMMA OutsideValuation ==
    ASSUME InductiveInvariant, ValuationInvariant,
           \/ OperatorStep \/ NewDay \/ UNCHANGED vars \/ VenueReset
           \/ \E s \in Signals : VenueAccepts(s) \/ VenueEnds(s)
    PROVE  ValuationInvariant'
<1>1. NoneSetsOut /\ UNCHANGED <<fills, position, worker>>
  BY OutsideEffect, NoWorkerAside DEF OutsideStill
<1>2. \A s \in Signals : venue'[s].day = venue[s].day
  <2>1. ASSUME NEW s \in Signals, VenueAccepts(s) \/ VenueEnds(s)
        PROVE  \A t \in Signals : venue'[t].day = venue[t].day
    <3>1. PICK status : venue' = [venue EXCEPT ![s].status = status]
      BY <2>1 DEF VenueAccepts, VenueEnds
    <3> QED BY <3>1, StatusKeepsDays DEF InductiveInvariant
  <2>2. CASE VenueReset
    BY <2>2 DEF VenueReset, InductiveInvariant, LedgerTypeOK, VenueType
  <2>3. CASE OperatorStep \/ NewDay \/ UNCHANGED vars
    BY <2>3 DEF OperatorStep, EnableAutoCanary, Operator, NewDay, vars, market
  <2> QED BY <2>1, <2>2, <2>3
<1>3. CASE day' = day
  BY <1>1, <1>2, <1>3, DatedKeeps DEF DatedStill
<1>4. CASE NewDay
  <2>1. day' = day + 1 /\ day \in Int /\ \A s \in Signals : venue[s].day \in Int
    BY <1>4, ConstantsAssumption DEF NewDay, InductiveInvariant, LedgerTypeOK, VenueType
  <2>2. Unvalued' = Unvalued /\ Unvalued \subseteq Signals
    BY <1>1 DEF Unvalued
  <2> QED BY <1>1, <1>2, <2>1, <2>2 DEF ValuationInvariant
<1> QED BY <1>3, <1>4, OutsideEffect

(* Every step of the one worker, on TESTNET.                                *)
LEMMA ValuationKept ==
    ASSUME OneWorker, Environment = "TESTNET"
    PROVE  InductiveInvariant /\ InductiveInvariant' /\ ValuationInvariant /\ [Next]_vars
           => ValuationInvariant'
<1> SUFFICES ASSUME InductiveInvariant, InductiveInvariant', ValuationInvariant, [Next]_vars
             PROVE  ValuationInvariant'
  OBVIOUS
<1>1. ASSUME NEW w \in Workers, SubmitSignal(w) \/ SubmitStep(w) \/ Restart(w)
      PROVE  ValuationInvariant'
  BY <1>1, SubmitValuation, ReserveValuation DEF SubmitSignal
<1>2. ASSUME NEW w \in Workers,
             \/ LedgerStep(w) \/ ReconcileStep(w) \/ OtherCall(w) \/ StartReconcile(w)
             \/ AccountFailure(w)
      PROVE  ValuationInvariant'
  BY <1>2, OtherValuation
<1> QED BY <1>1, <1>2, FillsValuation, OutsideValuation DEF Next, VenueStep

(* An empty database has no trades.                                         *)
LEMMA InitValuation == Init => ValuationInvariant
  BY DEF Init, Idle, ValuationInvariant, PreCall

(* _strict_snapshot, with one worker on TESTNET: no order passes its final  *)
(* fence on a trade whose fee cannot be valued, across crashes between the  *)
(* commit of a trade and that of its position; only a trade of an earlier   *)
(* day whose position row such a crash left behind goes unnoticed.          *)
THEOREM UnvaluedTradeStopsOrders ==
    ASSUME OneWorker, Environment = "TESTNET"
    PROVE  Spec => NoOrderOnUnvaluedTrade
<1>1. InductiveInvariant /\ InductiveInvariant' /\ ControlInvariant /\ ValuationInvariant
      /\ [Next]_vars
      => [\A w \in Workers : PassesFinalFence(w) => \A s \in Unvalued :
            venue[s].day < day /\ position[Symbol[s]] # NetPosition(Symbol[s])]_vars
  <2> SUFFICES ASSUME InductiveInvariant, InductiveInvariant', ControlInvariant,
                      ValuationInvariant, [Next]_vars,
                      NEW w \in Workers, PassesFinalFence(w), NEW s \in Unvalued
               PROVE  venue[s].day < day /\ position[Symbol[s]] # NetPosition(Symbol[s])
    OBVIOUS
  <2>1. worker[w].pc \in PreCall
    BY StepControl
  <2>2. venue[s].day < day /\ ~position[Symbol[s]].unknown
    BY <2>1 DEF ValuationInvariant
  <2>3. NetPosition(Symbol[s]).unknown
    BY DEF NetPosition, Unvalued, Of
  <2> QED BY <2>2, <2>3
<1>2. InductiveInvariant /\ InductiveInvariant' /\ ValuationInvariant /\ [Next]_vars
      => ValuationInvariant'
  BY ValuationKept
<1> QED BY <1>1, <1>2, InvariantHolds, ControlHolds, InitValuation, PTL
        DEF Spec, NoOrderOnUnvaluedTrade

=============================================================================
