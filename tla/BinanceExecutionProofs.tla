---------------------- MODULE BinanceExecutionProofs ----------------------
(***************************************************************************)
(* That every reachable state of the execution service satisfies the       *)
(* inductive invariant of BinanceExecutionInvariant, whatever the signals, *)
(* workers, limits and bounds; and what follows from it.                   *)
(***************************************************************************)
EXTENDS BinanceExecutionInvariant, TLAPS

-----------------------------------------------------------------------------
(* Types                                                                   *)

(* A worker that begins or has ended a call is typed.                       *)
LEMMA IdleType ==
    ASSUME NEW i \in Identities
    PROVE  Idle(i) \in WorkerType
<1>1. NoRows \in [Signals -> [state : {"none"} \cup Reconciled, cumulative : Quantity]]
  BY ConstantsAssumption DEF NoRows, Quantity
<1>2. NoResponse \in ResponseType
  BY ConstantsAssumption DEF NoResponse, ResponseType, Quantity
<1>3. QED
  BY <1>1, <1>2 DEF Idle, WorkerType, Steps

(* The end of a service call keeps the worker typed.                        *)
LEMMA ReturnType ==
    ASSUME worker \in [Workers -> WorkerType], NEW w \in Workers, Return(w)
    PROVE  worker' \in [Workers -> WorkerType]
<1>1. Idle(worker[w].identity) \in WorkerType
  BY IdleType DEF WorkerType
<1>2. QED
  BY <1>1 DEF Return

(* So does a move to another step of the call.                              *)
LEMMA GotoType ==
    ASSUME worker \in [Workers -> WorkerType], NEW w \in Workers,
           NEW pc \in Steps, Goto(w, pc)
    PROVE  worker' \in [Workers -> WorkerType]
<1>1. [worker[w] EXCEPT !.pc = pc] \in WorkerType
  BY DEF WorkerType
<1>2. QED
  BY <1>1 DEF Goto

(* _set_control keeps the control row typed.                                *)
LEMMA SetControlType ==
    ASSUME control \in ControlType, NEW reset \in BOOLEAN,
           NEW state \in Stopped \cup {"ARMED", "PAUSED"},
           SetControl(state, reset)
    PROVE  control' \in ControlType
<1>1. control.generation + 1 \in Nat
  BY DEF ControlType
<1>2. PICK n \in Nat, a \in BOOLEAN, k \in BOOLEAN :
        control' = [control EXCEPT !.state = state, !.generation = n,
                                   !.authorized = a, !.kill = k, !.reset = reset]
  BY <1>1, Zenon DEF SetControl
<1>3. QED
  BY <1>2 DEF ControlType, Stopped

(* The ways a row is rewritten keep it typed.                               *)
RowStates == {"none"} \cup Live \cup Terminal

(* A row that exists is of the table's row type.                            *)
LEMMA RowType ==
    ASSUME NEW row \in IntentType, NEW state \in RowStates,
           NEW n \in Quantity, NEW d \in 0..MaxDay
    PROVE  /\ [row EXCEPT !.state = state] \in IntentType
           /\ [row EXCEPT !.state = state, !.cumulative = n] \in IntentType
           /\ [row EXCEPT !.state = state, !.day = d] \in IntentType
  BY DEF IntentType, RowStates

-----------------------------------------------------------------------------
(* Frames                                                                  *)

(* What a step does to the order of a signal, as the other workers see it:  *)
(* the venue only moves forward and risk is never forgotten.                *)
Later(s) ==
    /\ venue[s].filled <= venue'[s].filled
    /\ venue[s].status # "absent" => venue'[s].status # "absent"
    /\ venue[s].status \notin {"absent", "inflight"}
        => venue'[s].status \notin {"absent", "inflight"}
    /\ venue[s].status \in Dead => venue'[s].status \in Dead
    /\ held[s] # "none" => held'[s] # "none"

(* What a worker before its venue call relies on.                           *)
PreCallSafe(v) ==
    worker[v].pc \in PreCall =>
        /\ held'[worker[v].sig] = "HELD"
        /\ venue'[worker[v].sig].status = "absent"

(* A step leaves a worker that does not take it with its facts.             *)
LEMMA OtherWorkerKeeps ==
    ASSUME InductiveInvariant, LedgerTypeOK',
           NEW v \in Workers, worker'[v] = worker[v],
           \A s \in Signals : Later(s),
           PreCallSafe(v)
    PROVE  /\ AnswerOK(v)' /\ PassOK(v)'
           /\ worker[v].pc \in PreCall =>
                /\ worker[v].sig \in Signals
                /\ held'[worker[v].sig] = "HELD"
                /\ venue'[worker[v].sig].status = "absent"
<1>1. AnswerOK(v)'
  BY DEF InductiveInvariant, CallsAccounted, LedgerTypeOK, VenueType, WorkerType,
         ResponseType, Quantity, AnswerOK, Later, Carries
<1>2. PassOK(v)'
  BY DEF InductiveInvariant, CallsAccounted, PassOK, Later
<1>3. QED
  BY <1>1, <1>2 DEF PreCallSafe, InductiveInvariant, CallsAccounted, PreCallOK

(* The invariant after a step of worker w, from what the step does to the   *)
(* rows, to the venue and to w itself.                                      *)
LEMMA WorkerStep ==
    ASSUME InductiveInvariant, LedgerTypeOK', NEW w \in Workers,
           \A s \in Signals : RowOK(s)' /\ VenueOK(s)' /\ Later(s),
           \A v \in Workers \ {w} : worker'[v] = worker[v] /\ PreCallSafe(v),
           PreCallOK(w)', AnswerOK(w)', PassOK(w)'
    PROVE  InductiveInvariant'
<1>1. ASSUME NEW v \in Workers \ {w}
      PROVE  PreCallOK(v)' /\ AnswerOK(v)' /\ PassOK(v)'
  <2>1. AnswerOK(v)' /\ PassOK(v)'
    BY OtherWorkerKeeps
  <2>2. PreCallOK(v)'
    BY OtherWorkerKeeps DEF PreCallOK, InductiveInvariant, CallsAccounted
  <2>3. QED
    BY <2>1, <2>2
<1>2. QED
  BY <1>1 DEF InductiveInvariant, CallsAccounted

(* The same for a step no worker takes.                                     *)
LEMMA OutsideStep ==
    ASSUME InductiveInvariant, LedgerTypeOK', UNCHANGED worker,
           \A s \in Signals : RowOK(s)' /\ VenueOK(s)' /\ Later(s),
           \A v \in Workers : PreCallSafe(v)
    PROVE  InductiveInvariant'
<1>1. ASSUME NEW v \in Workers
      PROVE  PreCallOK(v)' /\ AnswerOK(v)' /\ PassOK(v)'
  <2>1. AnswerOK(v)' /\ PassOK(v)'
    BY OtherWorkerKeeps
  <2>2. PreCallOK(v)'
    BY OtherWorkerKeeps DEF PreCallOK, InductiveInvariant, CallsAccounted
  <2>3. QED
    BY <2>1, <2>2
<1>2. QED
  BY <1>1 DEF InductiveInvariant, CallsAccounted

(* The rows, the reservations and the venue as they were.                   *)
Still == UNCHANGED <<intents, held, fills, venue, calls>>

(* A step that moves only the worker and the control row keeps the facts.   *)
LEMMA StillKeeps ==
    ASSUME InductiveInvariant, Still
    PROVE  /\ \A s \in Signals : RowOK(s)' /\ VenueOK(s)' /\ Later(s)
           /\ \A v \in Workers : PreCallSafe(v)
<1>1. ASSUME NEW s \in Signals
      PROVE  RowOK(s)' /\ VenueOK(s)' /\ Later(s)
  BY DEF InductiveInvariant, CallsAccounted, LedgerTypeOK, VenueType, Quantity,
         RowOK, VenueOK, Later, Still
<1>2. ASSUME NEW v \in Workers
      PROVE  PreCallSafe(v)
  BY DEF InductiveInvariant, CallsAccounted, PreCallOK, PreCallSafe, Still
<1>3. QED
  BY <1>1, <1>2

(* A step that returns to idle has nothing left to account for.             *)
LEMMA ReturnKeeps ==
    ASSUME InductiveInvariant, NEW w \in Workers, Return(w)
    PROVE  /\ PreCallOK(w)' /\ AnswerOK(w)' /\ PassOK(w)'
           /\ \A v \in Workers \ {w} : worker'[v] = worker[v]
<1>1. worker' = [worker EXCEPT ![w] = Idle(worker[w].identity)]
  BY DEF Return
<1>2. worker'[w] = Idle(worker[w].identity)
  BY <1>1 DEF InductiveInvariant, LedgerTypeOK
<1>3. QED
  BY <1>1, <1>2 DEF InductiveInvariant, LedgerTypeOK, Idle, NoRows, PreCall,
     PreCallOK, Carries, AnswerOK, PassOK

(* _set_unknown of a row with a reservation only touches that row.          *)
LEMMA SetUnknownKeeps ==
    ASSUME InductiveInvariant, NEW s \in Signals, held[s] # "none", SetUnknown(s),
           UNCHANGED <<held, fills, venue, calls>>
    PROVE  /\ intents' \in [Signals -> IntentType]
           /\ \A t \in Signals : RowOK(t)' /\ VenueOK(t)' /\ Later(t)
           /\ \A v \in Workers : PreCallSafe(v)
<1>1. intents' \in [Signals -> IntentType]
  <2>1. intents[s] \in IntentType
    BY DEF InductiveInvariant, LedgerTypeOK
  <2>2. 0 \in Quantity /\ 0 \in 0..MaxDay /\ "UNKNOWN" \in RowStates
    BY ConstantsAssumption DEF Quantity, RowStates, Live
  <2>3. QED
    BY <2>1, <2>2, RowType DEF SetUnknown, InductiveInvariant, LedgerTypeOK
<1>2. ASSUME NEW t \in Signals
      PROVE  RowOK(t)' /\ VenueOK(t)' /\ Later(t)
  <2>0. intents[t] \in IntentType
    BY DEF InductiveInvariant, LedgerTypeOK
  <2>1. RowOK(t) /\ VenueOK(t) /\ RowOK(s)
    BY DEF InductiveInvariant, CallsAccounted
  <2>2. intents'[t] = intents[t] \/
        (/\ t = s
         /\ intents'[t] = [intents[t] EXCEPT !.state = "UNKNOWN", !.cumulative = 0])
    <3>1. intents \in [Signals -> IntentType]
      BY DEF InductiveInvariant, LedgerTypeOK
    <3>2. CASE t = s
      BY <3>1, <3>2, Zenon DEF SetUnknown
    <3>3. CASE t # s
      BY <3>1, <3>3 DEF SetUnknown
    <3>4. QED
      BY <3>2, <3>3
  <2>3. intents'[t].qty = intents[t].qty
    BY <2>2 DEF InductiveInvariant, LedgerTypeOK, IntentType
  <2>4. intents'[t].state = intents[t].state
        \/ (t = s /\ intents'[t].state = "UNKNOWN")
    BY <2>2, <2>0 DEF IntentType
  <2>5. RowOK(t)'
    BY <2>1, <2>3, <2>4 DEF RowOK, Terminal
  <2>6. VenueOK(t)' /\ Later(t)
    BY <2>1, <2>3 DEF VenueOK, Later, InductiveInvariant, LedgerTypeOK, VenueType, Quantity
  <2>7. QED
    BY <2>5, <2>6
<1>3. ASSUME NEW v \in Workers
      PROVE  PreCallSafe(v)
  BY DEF InductiveInvariant, CallsAccounted, PreCallOK, PreCallSafe
<1>4. QED
  BY <1>1, <1>2, <1>3

-----------------------------------------------------------------------------
(* submit_signal                                                           *)

(* A new row: no row, no risk and no order before it.                       *)
LEMMA NewRow ==
    ASSUME InductiveInvariant, NEW s \in Signals, Fresh(s)
    PROVE  /\ held[s] = "none" /\ venue[s].status = "absent"
           /\ venue[s].filled = 0 /\ calls[s] = 0 /\ fills[s] = 0
<1>1. RowOK(s) /\ VenueOK(s) /\ fills[s] \in Nat /\ venue[s].filled \in Nat
  BY ConstantsAssumption
     DEF InductiveInvariant, CallsAccounted, LedgerTypeOK, VenueType, Quantity
<1>2. QED
  BY <1>1 DEF Fresh, RowOK, VenueOK

(* The row a signal begins with is of the table's row type.                 *)
LEMMA NewRowType ==
    ASSUME InductiveInvariant, NEW state \in RowStates, NEW q \in Quantity
    PROVE  /\ [NoRow EXCEPT !.state = state, !.qty = q,
                            !.generation = control.generation] \in IntentType
           /\ [NoRow EXCEPT !.state = state,
                            !.generation = control.generation] \in IntentType
<1>1. control.generation \in Nat
  BY DEF InductiveInvariant, LedgerTypeOK, ControlType
<1>2. 0 \in Quantity /\ 0 \in 0..MaxDay
  BY ConstantsAssumption DEF Quantity
<1>3. QED
  BY <1>1, <1>2 DEF NoRow, IntentType, RowStates

(* _reject_signal: a burned signal has no risk and no order.                *)
LEMMA RejectSignalKeeps ==
    ASSUME InductiveInvariant, NEW w \in Workers, NEW s \in Signals, RejectSignal(w, s)
    PROVE  InductiveInvariant'
<1> DEFINE row == [NoRow EXCEPT !.state = "REJECTED", !.generation = control.generation]
<1>1. row \in IntentType
  <2>1. "REJECTED" \in RowStates /\ 0 \in Quantity
    BY ConstantsAssumption DEF RowStates, Terminal, Quantity
  <2>2. QED
    BY <2>1, NewRowType
<1>2. row.state = "REJECTED" /\ row.qty = 0
  BY DEF NoRow
<1>3. intents \in [Signals -> IntentType] /\ intents' = [intents EXCEPT ![s] = row]
  BY DEF RejectSignal, InductiveInvariant, LedgerTypeOK
<1> HIDE DEF row
<1>4. intents' \in [Signals -> IntentType]
  BY <1>1, <1>3
<1>5. LedgerTypeOK'
  BY <1>4 DEF RejectSignal, InductiveInvariant, LedgerTypeOK, market
<1>6. ASSUME NEW t \in Signals
      PROVE  RowOK(t)' /\ VenueOK(t)' /\ Later(t)
  <2>1. RowOK(t) /\ VenueOK(t) /\ venue[t].filled \in Nat
    BY ConstantsAssumption
       DEF InductiveInvariant, CallsAccounted, LedgerTypeOK, VenueType, Quantity
  <2>2. CASE t = s
    BY <1>2, <1>3, <2>1, <2>2, NewRow
       DEF RejectSignal, RowOK, VenueOK, Later, market
  <2>3. CASE t # s
    BY <1>3, <2>1, <2>3 DEF RejectSignal, RowOK, VenueOK, Later, market
  <2>4. QED
    BY <2>2, <2>3
<1>7. \A v \in Workers : PreCallSafe(v)
  BY DEF RejectSignal, InductiveInvariant, CallsAccounted, PreCallOK, PreCallSafe, market
<1>8. QED
  BY <1>5, <1>6, <1>7, OutsideStep DEF RejectSignal

(* _reserve_and_send: a new row with its risk, and no other worker on it.   *)
LEMMA ReserveAndSendKeeps ==
    ASSUME InductiveInvariant, NEW w \in Workers, NEW s \in Signals,
           NEW q \in 1..MaxQuantity, ReserveAndSend(w, s, q)
    PROVE  InductiveInvariant'
<1> DEFINE row == [NoRow EXCEPT !.state = "RESERVED", !.qty = q,
                                !.generation = control.generation]
<1>1. row \in IntentType
  <2>1. "RESERVED" \in RowStates /\ q \in Quantity
    BY ConstantsAssumption DEF RowStates, Live, Quantity
  <2>2. QED
    BY <2>1, NewRowType
<1>2. row.state = "RESERVED" /\ row.qty = q /\ q > 0
  BY ConstantsAssumption DEF NoRow
<1>3. /\ intents \in [Signals -> IntentType] /\ intents' = [intents EXCEPT ![s] = row]
      /\ held \in [Signals -> {"none", "HELD", "RELEASED"}]
      /\ held' = [held EXCEPT ![s] = "HELD"]
      /\ Fresh(s)
      /\ UNCHANGED <<fills, venue, calls>>
  BY DEF ReserveAndSend, InductiveInvariant, LedgerTypeOK, market
<1> HIDE DEF row
<1>4. worker' \in [Workers -> WorkerType]
  <2>1. worker[w] \in WorkerType
    BY DEF InductiveInvariant, LedgerTypeOK
  <2>2. [[worker[w] EXCEPT !.pc = "claim"] EXCEPT !.sig = s] \in WorkerType
    BY <2>1 DEF WorkerType, Steps
  <2>3. QED
    BY <2>2 DEF ReserveAndSend, InductiveInvariant, LedgerTypeOK
<1>5. LedgerTypeOK'
  <2>1. intents' \in [Signals -> IntentType]
    BY <1>1, <1>3
  <2>2. held' \in [Signals -> {"none", "HELD", "RELEASED"}]
    BY <1>3
  <2>3. QED
    BY <1>4, <2>1, <2>2 DEF ReserveAndSend, InductiveInvariant, LedgerTypeOK, market
<1>6. ASSUME NEW t \in Signals
      PROVE  RowOK(t)' /\ VenueOK(t)' /\ Later(t)
  <2>1. RowOK(t) /\ VenueOK(t) /\ venue[t].filled \in Nat
    BY ConstantsAssumption
       DEF InductiveInvariant, CallsAccounted, LedgerTypeOK, VenueType, Quantity
  <2>2. CASE t = s
    BY <1>2, <1>3, <2>1, <2>2, NewRow DEF RowOK, VenueOK, Later, Terminal
  <2>3. CASE t # s
    BY <1>3, <2>1, <2>3 DEF RowOK, VenueOK, Later
  <2>4. QED
    BY <2>2, <2>3
<1>7. held[s] = "none" /\ venue[s].status = "absent"
  BY <1>3, NewRow
<1>8. ASSUME NEW v \in Workers \ {w}
      PROVE  worker'[v] = worker[v] /\ PreCallSafe(v)
  BY <1>3, <1>7 DEF ReserveAndSend, InductiveInvariant, LedgerTypeOK, CallsAccounted,
     PreCallOK, PreCallSafe
<1>9. /\ worker'[w].pc = "claim" /\ worker'[w].sig = s
      /\ worker'[w].rows = worker[w].rows
  BY DEF ReserveAndSend, InductiveInvariant, LedgerTypeOK, WorkerType
<1>10. PreCallOK(w)' /\ AnswerOK(w)' /\ PassOK(w)'
  <2>1. PreCallOK(w)'
    BY <1>3, <1>7, <1>8, <1>9
       DEF InductiveInvariant, CallsAccounted, PreCallOK
  <2>2. AnswerOK(w)'
    BY <1>9 DEF AnswerOK, Carries
  <2>3. PassOK(w)'
    BY <1>3, <1>9 DEF PassOK, InductiveInvariant, CallsAccounted
  <2>4. QED
    BY <2>1, <2>2, <2>3
<1>11. QED
  BY <1>5, <1>6, <1>8, <1>10, WorkerStep

(* The steps that end a call: nothing but the call itself changes, or the   *)
(* row of its signal becomes UNKNOWN.                                       *)
LEMMA StillReturn ==
    ASSUME InductiveInvariant, NEW w \in Workers, Return(w), Still,
           control' \in ControlType, UNCHANGED <<day, barred, restarts>>
    PROVE  InductiveInvariant'
<1>1. worker' \in [Workers -> WorkerType]
  BY ReturnType DEF InductiveInvariant, LedgerTypeOK
<1>2. LedgerTypeOK'
  BY <1>1 DEF InductiveInvariant, LedgerTypeOK, Still
<1>3. QED
  BY <1>2, StillKeeps, ReturnKeeps, WorkerStep

(* A call that ends with _set_unknown keeps the facts.                      *)
LEMMA SetUnknownReturn ==
    ASSUME InductiveInvariant, NEW w \in Workers, Return(w),
           worker[w].sig \in Signals, held[worker[w].sig] # "none",
           SetUnknown(worker[w].sig),
           UNCHANGED <<control, held, fills, day, venue, calls, barred, restarts>>
    PROVE  InductiveInvariant'
<1>1. worker' \in [Workers -> WorkerType]
  BY ReturnType DEF InductiveInvariant, LedgerTypeOK
<1>2. /\ intents' \in [Signals -> IntentType]
      /\ \A t \in Signals : RowOK(t)' /\ VenueOK(t)' /\ Later(t)
      /\ \A v \in Workers : PreCallSafe(v)
  BY SetUnknownKeeps
<1>3. LedgerTypeOK'
  BY <1>1, <1>2 DEF InductiveInvariant, LedgerTypeOK
<1>4. QED
  BY <1>2, <1>3, ReturnKeeps, WorkerStep

(* What a move to another step of the call changes of the worker: the step. *)
LEMMA GotoFields ==
    ASSUME InductiveInvariant, NEW w \in Workers, NEW pc, Goto(w, pc)
    PROVE  /\ worker'[w].pc = pc
           /\ worker'[w].sig = worker[w].sig /\ worker'[w].resp = worker[w].resp
           /\ worker'[w].then = worker[w].then /\ worker'[w].rows = worker[w].rows
           /\ \A v \in Workers \ {w} : worker'[v] = worker[v]
<1>1. worker \in [Workers -> WorkerType] /\ worker[w] \in WorkerType
  BY DEF InductiveInvariant, LedgerTypeOK
<1>2. worker'[w] = [worker[w] EXCEPT !.pc = pc]
  BY <1>1 DEF Goto
<1>3. QED
  BY <1>1, <1>2 DEF Goto, WorkerType

(* On its way to the venue call a worker may take the next step.            *)
LEMMA PreCallGoto ==
    ASSUME InductiveInvariant, NEW w \in Workers, worker[w].pc \in PreCall,
           NEW pc \in PreCall, Goto(w, pc), UNCHANGED <<held, venue>>
    PROVE  /\ PreCallOK(w)' /\ AnswerOK(w)' /\ PassOK(w)'
           /\ worker' \in [Workers -> WorkerType]
           /\ \A v \in Workers \ {w} : worker'[v] = worker[v]
<1>1. worker' \in [Workers -> WorkerType]
  BY GotoType DEF InductiveInvariant, LedgerTypeOK, PreCall, Steps
<1>2. PreCallOK(w)'
  BY GotoFields DEF InductiveInvariant, CallsAccounted, PreCallOK
<1>3. AnswerOK(w)'
  BY GotoFields DEF AnswerOK, Carries, PreCall
<1>4. PassOK(w)'
  BY GotoFields DEF InductiveInvariant, CallsAccounted, PassOK, PreCall
<1>5. QED
  BY <1>1, <1>2, <1>3, <1>4, GotoFields

(* _expire_unsent releases risk only of an order that never left.           *)
LEMMA ExpireUnsentKeeps ==
    ASSUME InductiveInvariant, NEW w \in Workers, ExpireUnsent(w)
    PROVE  InductiveInvariant'
<1> DEFINE s == worker[w].sig
<1>1. /\ s \in Signals /\ held[s] = "HELD" /\ venue[s].status = "absent"
      /\ Return(w) /\ UNCHANGED <<fills, venue, calls>>
      /\ \A v \in Workers \ {w} : worker[v].pc \in PreCall => worker[v].sig # s
  BY DEF ExpireUnsent, InductiveInvariant, CallsAccounted, PreCallOK, PreCall, market
<1>2. CASE UNCHANGED <<intents, held>>
  BY <1>1, <1>2, StillReturn
     DEF ExpireUnsent, Still, InductiveInvariant, LedgerTypeOK, market
<1>3. CASE /\ intents' = [intents EXCEPT ![s].state = "REJECTED"]
           /\ held' = [held EXCEPT ![s] = "RELEASED"]
  <2>1. intents' \in [Signals -> IntentType] /\ intents'[s].state = "REJECTED"
        /\ intents'[s].qty = intents[s].qty
    <3>1. intents[s] \in IntentType /\ "REJECTED" \in RowStates /\ 0 \in Quantity
          /\ 0 \in 0..MaxDay
      BY <1>1, ConstantsAssumption
         DEF InductiveInvariant, LedgerTypeOK, RowStates, Terminal, Quantity
    <3>2. [intents[s] EXCEPT !.state = "REJECTED"] \in IntentType
      BY <3>1, RowType
    <3>3. QED
      BY <1>1, <1>3, <3>1, <3>2 DEF InductiveInvariant, LedgerTypeOK, IntentType
  <2>2. LedgerTypeOK'
    <3>1. worker' \in [Workers -> WorkerType]
      BY <1>1, ReturnType DEF InductiveInvariant, LedgerTypeOK
    <3>2. held' \in [Signals -> {"none", "HELD", "RELEASED"}]
      BY <1>1, <1>3 DEF InductiveInvariant, LedgerTypeOK
    <3>3. QED
      BY <2>1, <3>1, <3>2 DEF ExpireUnsent, InductiveInvariant, LedgerTypeOK, market
  <2>3. ASSUME NEW t \in Signals
        PROVE  RowOK(t)' /\ VenueOK(t)' /\ Later(t)
    <3>1. RowOK(t) /\ VenueOK(t) /\ venue[t].filled \in Nat
      BY ConstantsAssumption
         DEF InductiveInvariant, CallsAccounted, LedgerTypeOK, VenueType, Quantity
    <3>2. /\ intents \in [Signals -> IntentType]
          /\ held \in [Signals -> {"none", "HELD", "RELEASED"}]
      BY DEF InductiveInvariant, LedgerTypeOK
    <3>3. CASE t = s
      BY <1>1, <1>3, <2>1, <3>1, <3>2, <3>3 DEF RowOK, VenueOK, Later, Terminal
    <3>4. CASE t # s
      BY <1>1, <1>3, <3>1, <3>2, <3>4 DEF RowOK, VenueOK, Later
    <3>5. QED
      BY <3>3, <3>4
  <2>4. ASSUME NEW v \in Workers \ {w}
        PROVE  worker'[v] = worker[v] /\ PreCallSafe(v)
    <3>1. worker'[v] = worker[v]
      BY <1>1, ReturnKeeps
    <3>2. PreCallSafe(v)
      BY <1>1, <1>3
         DEF InductiveInvariant, LedgerTypeOK, CallsAccounted, PreCallOK, PreCallSafe
    <3>3. QED
      BY <3>1, <3>2
  <2>5. QED
    BY <1>1, <2>2, <2>3, <2>4, ReturnKeeps, WorkerStep
<1>4. QED
  BY <1>2, <1>3 DEF ExpireUnsent

(* _claim: the durable RESERVED to SUBMITTING transition.                   *)
LEMMA ClaimKeeps ==
    ASSUME InductiveInvariant, NEW w \in Workers, Claim(w)
    PROVE  InductiveInvariant'
<1> DEFINE s == worker[w].sig
<1>1. /\ s \in Signals /\ held[s] = "HELD" /\ worker[w].pc = "claim"
      /\ UNCHANGED <<control, held, fills, day, venue, calls, barred, restarts>>
  BY DEF Claim, InductiveInvariant, CallsAccounted, PreCallOK, PreCall, market
<1>2. CASE UNCHANGED intents /\ Return(w)
  BY <1>1, <1>2, StillReturn DEF Still, InductiveInvariant, LedgerTypeOK
<1>3. CASE /\ intents' = [intents EXCEPT ![s].state = "SUBMITTING", ![s].day = day]
           /\ Goto(w, "fence")
  <2>1. /\ intents' \in [Signals -> IntentType]
        /\ intents'[s].state = "SUBMITTING" /\ intents'[s].qty = intents[s].qty
    <3>1. /\ intents[s] \in IntentType /\ "SUBMITTING" \in RowStates
          /\ 0 \in Quantity /\ day \in 0..MaxDay
      BY <1>1, ConstantsAssumption
         DEF InductiveInvariant, LedgerTypeOK, RowStates, Live, Quantity
    <3>2. [intents[s] EXCEPT !.state = "SUBMITTING", !.day = day] \in IntentType
      BY <3>1, RowType
    <3>3. QED
      BY <1>1, <1>3, <3>1, <3>2 DEF InductiveInvariant, LedgerTypeOK, IntentType
  <2>2. /\ PreCallOK(w)' /\ AnswerOK(w)' /\ PassOK(w)'
        /\ worker' \in [Workers -> WorkerType]
        /\ \A v \in Workers \ {w} : worker'[v] = worker[v]
    BY <1>1, <1>3, PreCallGoto DEF PreCall
  <2>3. LedgerTypeOK'
    BY <1>1, <2>1, <2>2 DEF InductiveInvariant, LedgerTypeOK
  <2>4. ASSUME NEW t \in Signals
        PROVE  RowOK(t)' /\ VenueOK(t)' /\ Later(t)
    <3>1. RowOK(t) /\ VenueOK(t) /\ venue[t].filled \in Nat
      BY ConstantsAssumption
         DEF InductiveInvariant, CallsAccounted, LedgerTypeOK, VenueType, Quantity
    <3>2. intents \in [Signals -> IntentType]
      BY DEF InductiveInvariant, LedgerTypeOK
    <3>3. CASE t = s
      BY <1>1, <2>1, <3>1, <3>3 DEF RowOK, VenueOK, Later, Terminal
    <3>4. CASE t # s
      BY <1>1, <1>3, <3>1, <3>2, <3>4 DEF RowOK, VenueOK, Later
    <3>5. QED
      BY <3>3, <3>4
  <2>5. \A v \in Workers : PreCallSafe(v)
    BY <1>1 DEF InductiveInvariant, CallsAccounted, PreCallOK, PreCallSafe
  <2>6. QED
    BY <2>2, <2>3, <2>4, <2>5, WorkerStep
<1>4. QED
  BY <1>2, <1>3 DEF Claim

(* A step on the order of one signal leaves the facts of the others.        *)
LEMMA OneSignal ==
    ASSUME InductiveInvariant, NEW s \in Signals,
           \A t \in Signals \ {s} :
               /\ intents'[t] = intents[t] /\ held'[t] = held[t]
               /\ fills'[t] = fills[t] /\ venue'[t] = venue[t] /\ calls'[t] = calls[t],
           RowOK(s)', VenueOK(s)', Later(s)
    PROVE  \A t \in Signals : RowOK(t)' /\ VenueOK(t)' /\ Later(t)
<1>1. ASSUME NEW t \in Signals \ {s}
      PROVE  RowOK(t)' /\ VenueOK(t)' /\ Later(t)
  <2>1. RowOK(t) /\ VenueOK(t) /\ venue[t].filled \in Nat
    BY ConstantsAssumption
       DEF InductiveInvariant, CallsAccounted, LedgerTypeOK, VenueType, Quantity
  <2>2. QED
    BY <2>1 DEF RowOK, VenueOK, Later
<1>2. QED
  BY <1>1

(* A worker before its venue call keeps what it relies on when a step       *)
(* changes no order but one the venue knows.                                *)
LEMMA PreCallKept ==
    ASSUME InductiveInvariant, NEW s \in Signals, NEW v \in Workers,
           \A t \in Signals \ {s} : held'[t] = held[t] /\ venue'[t] = venue[t],
           venue[s].status # "absent"
    PROVE  PreCallSafe(v)
  BY DEF InductiveInvariant, CallsAccounted, PreCallOK, PreCallSafe

(* A rejection at either fence leaves the row UNKNOWN, its risk held.       *)
LEMMA FenceRejectedKeeps ==
    ASSUME InductiveInvariant, NEW w \in Workers, worker[w].pc \in PreCall,
           FenceRejected(w)
    PROVE  InductiveInvariant'
<1>1. worker[w].sig \in Signals /\ held[worker[w].sig] = "HELD"
  BY DEF InductiveInvariant, CallsAccounted, PreCallOK
<1>2. QED
  BY <1>1, SetUnknownReturn DEF FenceRejected, market

(* Passing a fence changes nothing but the program counter.                 *)
LEMMA StillPreCall ==
    ASSUME InductiveInvariant, NEW w \in Workers, worker[w].pc \in PreCall,
           NEW pc \in PreCall, Goto(w, pc),
           UNCHANGED <<control, ledger, day, market, barred, restarts>>
    PROVE  InductiveInvariant'
<1>1. Still
  BY DEF Still, ledger, market
<1>2. /\ PreCallOK(w)' /\ AnswerOK(w)' /\ PassOK(w)'
      /\ worker' \in [Workers -> WorkerType]
      /\ \A v \in Workers \ {w} : worker'[v] = worker[v]
  BY <1>1, PreCallGoto DEF Still
<1>3. LedgerTypeOK'
  BY <1>2 DEF InductiveInvariant, LedgerTypeOK, ledger, market
<1>4. QED
  BY <1>1, <1>2, <1>3, StillKeeps, WorkerStep

(* _fence, before the order is handed to the venue call.                    *)
LEMMA FirstFenceKeeps ==
    ASSUME InductiveInvariant, NEW w \in Workers, FirstFence(w)
    PROVE  InductiveInvariant'
<1>1. worker[w].pc \in PreCall
  BY DEF FirstFence, PreCall
<1>2. CASE FenceRejected(w)
  BY <1>1, <1>2, FenceRejectedKeeps
<1>3. CASE Goto(w, "final") /\ UNCHANGED <<control, ledger, day, market, barred, restarts>>
  BY <1>1, <1>3, StillPreCall DEF PreCall
<1>4. QED
  BY <1>2, <1>3 DEF FirstFence

(* _final_submit_fence, the last check before the call.                     *)
LEMMA FinalSubmitFenceKeeps ==
    ASSUME InductiveInvariant, NEW w \in Workers, FinalSubmitFence(w)
    PROVE  InductiveInvariant'
<1>1. worker[w].pc \in PreCall
  BY DEF FinalSubmitFence, PreCall
<1>2. CASE FenceRejected(w)
  BY <1>1, <1>2, FenceRejectedKeeps
<1>3. CASE Goto(w, "call") /\ UNCHANGED <<control, ledger, day, market, barred, restarts>>
  BY <1>1, <1>3, StillPreCall DEF PreCall
<1>4. CASE Return(w) /\ UNCHANGED <<control, ledger, day, market, barred, restarts>>
  BY <1>4, StillReturn DEF Still, ledger, market, InductiveInvariant, LedgerTypeOK
<1>5. QED
  BY <1>2, <1>3, <1>4 DEF FinalSubmitFence

(* _network_submit: the only step that calls place_limit_order.             *)
LEMMA NetworkSubmitKeeps ==
    ASSUME InductiveInvariant, NEW w \in Workers, NetworkSubmit(w)
    PROVE  InductiveInvariant'
<1>0. PICK s \in Signals : s = worker[w].sig
  BY DEF NetworkSubmit, InductiveInvariant, CallsAccounted, PreCallOK, PreCall
<1>1. /\ held[s] = "HELD" /\ venue[s].status = "absent"
      /\ \A v \in Workers \ {w} : worker[v].pc \in PreCall => worker[v].sig # s
      /\ UNCHANGED <<control, intents, held, fills, day, barred, restarts>>
      /\ Goto(w, "await")
  BY <1>0 DEF NetworkSubmit, InductiveInvariant, CallsAccounted, PreCallOK, PreCall, ledger
<1>2. /\ venue[s] \in VenueType /\ venue \in [Signals -> VenueType]
      /\ calls \in [Signals -> Nat]
      /\ RowOK(s) /\ VenueOK(s) /\ venue[s].filled \in Nat
  BY <1>1, ConstantsAssumption
     DEF InductiveInvariant, CallsAccounted, LedgerTypeOK, VenueType, Quantity
<1>3. /\ calls[s] = 0 /\ calls' = [calls EXCEPT ![s] = 1]
      /\ venue' = [venue EXCEPT ![s].status = "inflight"]
  BY <1>0, <1>1, <1>2 DEF NetworkSubmit, VenueOK
<1>4. /\ [venue[s] EXCEPT !.status = "inflight"] \in VenueType
      /\ venue'[s].status = "inflight" /\ venue'[s].filled = venue[s].filled
      /\ calls'[s] = 1
  BY <1>1, <1>2, <1>3 DEF VenueType
<1>5. worker' \in [Workers -> WorkerType]
  BY <1>1, GotoType DEF InductiveInvariant, LedgerTypeOK, Steps
<1>6. LedgerTypeOK'
  <2>1. venue' \in [Signals -> VenueType] /\ calls' \in [Signals -> Nat]
    BY <1>2, <1>3, <1>4
  <2>2. QED
    BY <1>1, <1>5, <2>1 DEF InductiveInvariant, LedgerTypeOK
<1>7. \A t \in Signals : RowOK(t)' /\ VenueOK(t)' /\ Later(t)
  <2>1. RowOK(s)' /\ VenueOK(s)' /\ Later(s)
    <3>1. RowOK(s)'
      BY <1>1, <1>2, <1>4 DEF RowOK, Dead
    <3>2. VenueOK(s)'
      BY <1>1, <1>2, <1>4 DEF VenueOK
    <3>3. Later(s)
      BY <1>1, <1>2, <1>4 DEF Later, Dead
    <3>4. QED
      BY <3>1, <3>2, <3>3
  <2>2. ASSUME NEW t \in Signals \ {s}
        PROVE  /\ intents'[t] = intents[t] /\ held'[t] = held[t]
               /\ fills'[t] = fills[t] /\ venue'[t] = venue[t] /\ calls'[t] = calls[t]
    BY <1>1, <1>2, <1>3
  <2>3. QED
    BY <1>1, <2>1, <2>2, OneSignal
<1>8. ASSUME NEW v \in Workers \ {w}
      PROVE  worker'[v] = worker[v] /\ PreCallSafe(v)
  <2>1. worker'[v] = worker[v]
    BY <1>1, GotoFields
  <2>2. PreCallSafe(v)
    BY <1>1, <1>2, <1>3 DEF InductiveInvariant, CallsAccounted, PreCallOK, PreCallSafe
  <2>3. QED
    BY <2>1, <2>2
<1>9. PreCallOK(w)' /\ AnswerOK(w)' /\ PassOK(w)'
  <2>1. /\ worker'[w].pc = "await" /\ worker'[w].sig = s
        /\ worker'[w].rows = worker[w].rows
    BY <1>0, <1>1, GotoFields
  <2>2. PreCallOK(w)' /\ AnswerOK(w)'
    BY <2>1 DEF PreCallOK, PreCall, AnswerOK, Carries
  <2>3. PassOK(w)'
    BY <1>1, <1>4, <2>1 DEF PassOK, InductiveInvariant, CallsAccounted
  <2>4. QED
    BY <2>2, <2>3
<1>10. QED
  BY <1>6, <1>7, <1>8, <1>9, WorkerStep

-----------------------------------------------------------------------------
(* Answers                                                                 *)

(* An answer is typed, and as far as the venue is when it gives it.         *)
LEMMA SnapshotFacts ==
    ASSUME InductiveInvariant, NEW s \in Signals,
           Known(s) \/ venue[s].status = "REJECTED",
           NEW n \in {0, venue[s].filled}
    PROVE  /\ Snapshot(s, n) \in ResponseType
           /\ Snapshot(s, n).state # "none"
           /\ Snapshot(s, n).cumulative = venue[s].filled
           /\ Snapshot(s, n).trades <= venue[s].filled
           /\ Snapshot(s, n).state \in Terminal => venue[s].status \in Dead
<1>1. venue[s] \in VenueType
  BY DEF InductiveInvariant, LedgerTypeOK
<1>2. venue[s].filled \in Quantity /\ n \in Quantity /\ n <= venue[s].filled
  BY <1>1, ConstantsAssumption DEF VenueType, Quantity
<1>3. Observed(s) \in {"ACKNOWLEDGED", "PARTIALLY_FILLED", "REJECTED", "FILLED",
                       "CANCELED", "EXPIRED"}
  BY <1>1 DEF Known, Observed
<1>4. Observed(s) \in Terminal => venue[s].status \in Dead
  BY DEF Observed, Terminal, Dead, Known
<1>5. QED
  BY <1>2, <1>3, <1>4 DEF Snapshot, ResponseType

(* A timeout or an unusable answer keeps the risk.                          *)
LEMMA AmbiguousKeeps ==
    ASSUME InductiveInvariant, NEW w \in Workers, Ambiguous(w)
    PROVE  InductiveInvariant'
<1>1. worker[w].sig \in Signals /\ held[worker[w].sig] # "none"
  BY DEF Ambiguous, InductiveInvariant, CallsAccounted, PassOK, RowOK
<1>2. QED
  BY <1>1, SetUnknownReturn DEF Ambiguous, market

(* An answer is carried on, or dropped when the control row moved.          *)
LEMMA AcknowledgedKeeps ==
    ASSUME InductiveInvariant, NEW w \in Workers, Acknowledged(w)
    PROVE  InductiveInvariant'
<1>0. PICK s \in Signals : s = worker[w].sig
  BY DEF Acknowledged, InductiveInvariant, CallsAccounted, PassOK
<1>1. held[s] # "none" /\ venue[s].status # "absent"
  BY <1>0 DEF Acknowledged, InductiveInvariant, CallsAccounted, PassOK, RowOK
<1>2. CASE SetUnknown(worker[w].sig) /\ Return(w)
  BY <1>0, <1>1, <1>2, SetUnknownReturn DEF Acknowledged, market
<1>3. ASSUME NEW n \in {0, venue[s].filled},
             worker' = [worker EXCEPT ![w].pc = "apply", ![w].resp = Snapshot(s, n)],
             UNCHANGED intents
      PROVE  InductiveInvariant'
  <2>1. Known(s) \/ venue[s].status = "REJECTED"
    BY <1>0 DEF Acknowledged
  <2> DEFINE r == Snapshot(s, n)
  <2>2. /\ r \in ResponseType /\ r.state # "none" /\ r.cumulative = venue[s].filled
        /\ r.trades <= venue[s].filled
        /\ r.state \in Terminal => venue[s].status \in Dead
    BY <2>1, SnapshotFacts
  <2>3. worker' = [worker EXCEPT ![w].pc = "apply", ![w].resp = r]
    BY <1>3
  <2> HIDE DEF r
  <2>4. Still /\ UNCHANGED <<control, day, barred, restarts>>
    BY <1>3 DEF Acknowledged, Still, market
  <2>5. worker \in [Workers -> WorkerType] /\ worker[w] \in WorkerType
    BY DEF InductiveInvariant, LedgerTypeOK
  <2>6. [[worker[w] EXCEPT !.pc = "apply"] EXCEPT !.resp = r] \in WorkerType
    BY <2>2, <2>5 DEF WorkerType, Steps
  <2>7. /\ worker' \in [Workers -> WorkerType]
        /\ \A v \in Workers \ {w} : worker'[v] = worker[v]
        /\ worker'[w].pc = "apply" /\ worker'[w].sig = s /\ worker'[w].resp = r
        /\ worker'[w].rows = worker[w].rows
    BY <1>0, <2>3, <2>5, <2>6 DEF WorkerType, Steps
  <2>8. LedgerTypeOK'
    BY <2>4, <2>7 DEF InductiveInvariant, LedgerTypeOK, Still
  <2>9. AnswerOK(w)'
    <3>1. venue[s].status \notin {"absent", "inflight"}
      BY <1>1, <2>1 DEF Known
    <3>2. venue[s].filled \in Nat
      BY ConstantsAssumption DEF InductiveInvariant, LedgerTypeOK, VenueType, Quantity
    <3>3. QED
      BY <2>2, <2>4, <2>7, <3>1, <3>2 DEF AnswerOK, Carries, Still
  <2>10. PreCallOK(w)' /\ PassOK(w)'
    BY <2>4, <2>7 DEF PreCallOK, PreCall, PassOK, Still, InductiveInvariant, CallsAccounted
  <2>11. QED
    BY <2>4, <2>7, <2>8, <2>9, <2>10, StillKeeps, WorkerStep
<1>4. CASE \E n \in {0, venue[s].filled} :
             worker' = [worker EXCEPT ![w].pc = "apply", ![w].resp = Snapshot(s, n)]
           /\ UNCHANGED intents
  BY <1>3, <1>4
<1>5. QED
  BY <1>0, <1>2, <1>4 DEF Acknowledged

(* _merge_order_state: the result is a row state, and terminal only over a  *)
(* terminal row, on a full fill, or on a terminal answer.                   *)
LEMMA MergeFacts ==
    ASSUME NEW current \in RowStates,
           NEW observed \in {"ACKNOWLEDGED", "PARTIALLY_FILLED", "REJECTED",
                             "FILLED", "CANCELED", "EXPIRED"},
           NEW original \in Nat, NEW filled \in Nat
    PROVE  /\ MergeOrderState(current, observed, original, filled) \in Live \cup Terminal
           /\ MergeOrderState(current, observed, original, filled) \in Terminal =>
                current \in Terminal \/ observed \in Terminal \/ filled >= original
  BY DEF MergeOrderState, RowStates, Live, Terminal

-----------------------------------------------------------------------------
(* Applying an answer                                                      *)

(* A carried answer, with the row, the reservation and the order it is of.  *)
LEMMA CarriedFacts ==
    ASSUME InductiveInvariant, NEW w \in Workers, Carries(w),
           NEW s \in Signals, s = worker[w].sig
    PROVE  /\ worker[w].resp \in ResponseType /\ worker[w].resp.state # "none"
           /\ worker[w].resp.cumulative \in 0..venue[s].filled
           /\ worker[w].resp.trades \in 0..venue[s].filled
           /\ worker[w].resp.state \in Terminal => venue[s].status \in Dead
           /\ venue[s].status \notin {"absent", "inflight"}
           /\ held[s] # "none" /\ intents[s].state # "none"
           /\ venue[s].filled \in Quantity /\ venue[s].filled <= intents[s].qty
           /\ fills[s] \in 0..venue[s].filled
           /\ intents[s] \in IntentType /\ intents[s].qty \in Quantity
           /\ venue[s].filled >= intents[s].qty => venue[s].status \in Dead
<1>1. /\ worker[w] \in WorkerType /\ intents[s] \in IntentType
      /\ venue[s] \in VenueType /\ fills[s] \in Quantity
      /\ AnswerOK(w) /\ RowOK(s) /\ VenueOK(s)
  BY DEF InductiveInvariant, LedgerTypeOK, CallsAccounted
<1>2. /\ worker[w].resp \in ResponseType
      /\ worker[w].resp.cumulative \in Nat /\ worker[w].resp.trades \in Nat
      /\ venue[s].filled \in Quantity /\ venue[s].filled \in Nat
      /\ fills[s] \in Nat /\ intents[s].qty \in Quantity /\ intents[s].qty \in Nat
  BY <1>1, ConstantsAssumption
     DEF WorkerType, ResponseType, VenueType, IntentType, Quantity
<1>3. /\ venue[s].status \notin {"absent", "inflight"}
      /\ worker[w].resp.state # "none"
      /\ worker[w].resp.cumulative <= venue[s].filled
      /\ worker[w].resp.trades <= venue[s].filled
      /\ worker[w].resp.state \in Terminal => venue[s].status \in Dead
  BY <1>1 DEF AnswerOK
<1>4. /\ held[s] # "none" /\ intents[s].state # "none"
      /\ venue[s].filled <= intents[s].qty /\ fills[s] <= venue[s].filled
  BY <1>1, <1>3 DEF RowOK, VenueOK
<1>5. venue[s].filled >= intents[s].qty => venue[s].status \in Dead
  BY <1>1, <1>2, <1>3 DEF VenueOK, VenueType, Dead
<1>6. QED
  BY <1>1, <1>2, <1>3, <1>4, <1>5

(* The row after a merge: rewritten only when that is true of the venue.    *)
LEMMA RowRewritten ==
    ASSUME InductiveInvariant, NEW s \in Signals, LedgerTypeOK',
           UNCHANGED <<held, venue, calls>>, held[s] # "none",
           \A t \in Signals \ {s} : intents'[t] = intents[t] /\ fills'[t] = fills[t],
           intents'[s].qty = intents[s].qty, intents'[s].state # "none",
           fills'[s] <= venue[s].filled,
           intents'[s].state \in Terminal => venue[s].status \in Dead
    PROVE  /\ \A t \in Signals : RowOK(t)' /\ VenueOK(t)' /\ Later(t)
           /\ \A v \in Workers : PreCallSafe(v)
<1>1. RowOK(s) /\ VenueOK(s) /\ venue[s].filled \in Nat
  BY ConstantsAssumption
     DEF InductiveInvariant, CallsAccounted, LedgerTypeOK, VenueType, Quantity
<1>2. RowOK(s)'
  BY <1>1 DEF RowOK
<1>3. VenueOK(s)'
  BY <1>1 DEF VenueOK
<1>4. Later(s)
  BY <1>1 DEF Later
<1>5. \A t \in Signals : RowOK(t)' /\ VenueOK(t)' /\ Later(t)
  BY <1>2, <1>3, <1>4, OneSignal
<1>6. \A v \in Workers : PreCallSafe(v)
  BY DEF InductiveInvariant, CallsAccounted, PreCallOK, PreCallSafe
<1>7. QED
  BY <1>5, <1>6

(* _apply_order_result: the merged row is terminal only of a dead order.    *)
LEMMA ApplyOrderResultKeeps ==
    ASSUME InductiveInvariant, NEW w \in Workers, ApplyOrderResult(w)
    PROVE  InductiveInvariant'
<1>1. worker[w].pc = "apply" /\ Carries(w)
  BY DEF ApplyOrderResult, Carries
<1>2. PICK s \in Signals : s = worker[w].sig
  BY <1>1 DEF InductiveInvariant, CallsAccounted, AnswerOK
<1> DEFINE r == worker[w].resp
           covered == Covered(s, r.trades)
           underEvidenced == r.state \in {"CANCELED", "EXPIRED"} /\ r.cumulative > covered
           target == IF underEvidenced THEN "UNKNOWN"
                     ELSE MergeOrderState(intents[s].state, r.state, intents[s].qty,
                                          Max2(r.cumulative, covered))
<1>3. /\ r \in ResponseType /\ r.state # "none"
      /\ r.cumulative \in 0..venue[s].filled /\ r.trades \in 0..venue[s].filled
      /\ r.state \in Terminal => venue[s].status \in Dead
      /\ venue[s].status \notin {"absent", "inflight"}
      /\ held[s] # "none" /\ intents[s].state # "none"
      /\ venue[s].filled \in Quantity /\ venue[s].filled <= intents[s].qty
      /\ fills[s] \in 0..venue[s].filled
      /\ intents[s] \in IntentType /\ intents[s].qty \in Quantity
      /\ venue[s].filled >= intents[s].qty => venue[s].status \in Dead
  BY <1>1, <1>2, CarriedFacts
<1>4. /\ covered \in 0..venue[s].filled
      /\ Max2(r.cumulative, covered) \in 0..venue[s].filled
  BY <1>3 DEF Covered, Max2, Quantity
<1>5. /\ target \in Live \cup Terminal
      /\ target \in Terminal => venue[s].status \in Dead
  <2>1. CASE underEvidenced
    BY <2>1 DEF Live, Terminal
  <2>2. CASE ~underEvidenced
    <3>1. /\ intents[s].state \in RowStates
          /\ r.state \in {"ACKNOWLEDGED", "PARTIALLY_FILLED", "REJECTED", "FILLED",
                          "CANCELED", "EXPIRED"}
          /\ intents[s].qty \in Nat /\ Max2(r.cumulative, covered) \in Nat
      BY <1>3, <1>4, ConstantsAssumption
         DEF IntentType, ResponseType, RowStates, Quantity
    <3>2. intents[s].state \in Terminal => venue[s].status \in Dead
      BY <1>3 DEF InductiveInvariant, CallsAccounted, RowOK, LedgerTypeOK, VenueType, Dead
    <3>3. Max2(r.cumulative, covered) >= intents[s].qty => venue[s].status \in Dead
      BY <1>3, <1>4, <3>1 DEF Quantity
    <3>4. QED
      BY <1>3, <2>2, <3>1, <3>2, <3>3, MergeFacts
  <2>3. QED
    BY <2>1, <2>2
<1>6. /\ fills' = [fills EXCEPT ![s] = covered]
      /\ intents' = [intents EXCEPT ![s].state = target, ![s].cumulative = r.cumulative]
      /\ worker' = [worker EXCEPT
            ![w].pc = IF covered > fills[s] THEN "recompute" ELSE "release",
            ![w].then = "release"]
      /\ UNCHANGED <<control, held, day, venue, calls, barred, restarts>>
  BY <1>2 DEF ApplyOrderResult, market
<1>7. covered \in Quantity /\ r.cumulative \in Quantity
  BY <1>3, <1>4, ConstantsAssumption DEF Quantity
<1> HIDE DEF covered, underEvidenced, target
<1>8. PICK pc \in {"recompute", "release"} :
        worker' = [worker EXCEPT ![w].pc = pc, ![w].then = "release"]
  BY <1>6
<1>9. /\ worker' \in [Workers -> WorkerType]
      /\ \A v \in Workers \ {w} : worker'[v] = worker[v]
      /\ worker'[w].pc = pc /\ worker'[w].sig = s /\ worker'[w].resp = r
      /\ worker'[w].rows = worker[w].rows
  <2>1. worker \in [Workers -> WorkerType] /\ worker[w] \in WorkerType
    BY DEF InductiveInvariant, LedgerTypeOK
  <2>2. [[worker[w] EXCEPT !.pc = pc] EXCEPT !.then = "release"] \in WorkerType
    BY <2>1 DEF WorkerType, Steps
  <2>3. QED
    BY <1>2, <1>8, <2>1, <2>2 DEF WorkerType, Steps
<1>10. /\ intents' \in [Signals -> IntentType] /\ intents'[s].state = target
       /\ intents'[s].qty = intents[s].qty
       /\ \A t \in Signals \ {s} : intents'[t] = intents[t]
  <2>1. 0 \in 0..MaxDay /\ target \in RowStates
    BY <1>5, ConstantsAssumption DEF RowStates
  <2>2. [intents[s] EXCEPT !.state = target, !.cumulative = r.cumulative] \in IntentType
    BY <1>3, <1>7, <2>1, RowType
  <2>3. QED
    BY <1>3, <1>6, <2>2 DEF InductiveInvariant, LedgerTypeOK, IntentType
<1>11. /\ fills' \in [Signals -> Quantity] /\ fills'[s] = covered
       /\ \A t \in Signals \ {s} : fills'[t] = fills[t]
  BY <1>6, <1>7 DEF InductiveInvariant, LedgerTypeOK
<1>12. LedgerTypeOK'
  BY <1>6, <1>9, <1>10, <1>11 DEF InductiveInvariant, LedgerTypeOK
<1>13. /\ \A t \in Signals : RowOK(t)' /\ VenueOK(t)' /\ Later(t)
       /\ \A v \in Workers : PreCallSafe(v)
  <2>1. covered <= venue[s].filled /\ target # "none"
    BY <1>3, <1>4, <1>5 DEF Live, Terminal, Quantity
  <2>2. QED
    BY <1>3, <1>5, <1>6, <1>10, <1>11, <1>12, <2>1, RowRewritten
<1>14. PreCallOK(w)' /\ AnswerOK(w)' /\ PassOK(w)'
  <2>1. PreCallOK(w)'
    BY <1>9 DEF PreCallOK, PreCall
  <2>2. AnswerOK(w)'
    BY <1>3, <1>6, <1>9 DEF AnswerOK, Quantity
  <2>3. PassOK(w)'
    BY <1>6, <1>9 DEF PassOK, InductiveInvariant, CallsAccounted
  <2>4. QED
    BY <2>1, <2>2, <2>3
<1>15. QED
  BY <1>9, <1>12, <1>13, <1>14, WorkerStep

(* A step that changes nothing but the worker and the control row.          *)
LEMMA StillStep ==
    ASSUME InductiveInvariant, NEW w \in Workers, Still,
           control' \in ControlType, UNCHANGED <<day, barred, restarts>>,
           worker' \in [Workers -> WorkerType],
           \A v \in Workers \ {w} : worker'[v] = worker[v],
           PreCallOK(w)', AnswerOK(w)', PassOK(w)'
    PROVE  InductiveInvariant'
<1>1. LedgerTypeOK'
  BY DEF InductiveInvariant, LedgerTypeOK, Still
<1>2. QED
  BY <1>1, StillKeeps, WorkerStep

(* A worker that carries an answer may take it to the next step.            *)
LEMMA CarryOn ==
    ASSUME InductiveInvariant, NEW w \in Workers, Carries(w),
           UNCHANGED venue, \A t \in Signals : held[t] # "none" => held'[t] # "none",
           worker'[w].sig = worker[w].sig, worker'[w].resp = worker[w].resp,
           worker'[w].rows = worker[w].rows,
           worker'[w].pc \notin PreCall \cup {"await", "cancelfail"}
    PROVE  PreCallOK(w)' /\ AnswerOK(w)' /\ PassOK(w)'
<1>1. PreCallOK(w)'
  BY DEF PreCallOK
<1>2. AnswerOK(w)'
  BY DEF InductiveInvariant, CallsAccounted, AnswerOK
<1>3. PassOK(w)'
  BY DEF InductiveInvariant, CallsAccounted, PassOK
<1>4. QED
  BY <1>1, <1>2, <1>3

(* _recompute_position writes a position row only.                          *)
LEMMA RecomputePositionKeeps ==
    ASSUME InductiveInvariant, NEW w \in Workers, RecomputePosition(w)
    PROVE  InductiveInvariant'
<1>1. /\ Still /\ UNCHANGED <<control, day, barred, restarts>>
      /\ worker[w].pc = "recompute" /\ Carries(w)
  BY DEF RecomputePosition, Still, market, Carries
<1>2. PICK pc \in {"feepause", "release", "apply", "positions", "idle"} : Goto(w, pc)
  BY DEF RecomputePosition, InductiveInvariant, LedgerTypeOK, WorkerType
<1>3. worker' \in [Workers -> WorkerType]
  BY <1>2, GotoType DEF InductiveInvariant, LedgerTypeOK, Steps
<1>4. PreCallOK(w)' /\ AnswerOK(w)' /\ PassOK(w)'
  BY <1>1, <1>2, GotoFields, CarryOn DEF Still, PreCall
<1>5. QED
  BY <1>1, <1>2, <1>3, <1>4, GotoFields, StillStep
     DEF InductiveInvariant, LedgerTypeOK

(* The pause on an unvalued fee writes the control row only.                *)
LEMMA UnknownFeePauseKeeps ==
    ASSUME InductiveInvariant, NEW w \in Workers, UnknownFeePause(w)
    PROVE  InductiveInvariant'
<1>1. /\ Still /\ UNCHANGED <<day, barred, restarts>> /\ worker[w].pc = "feepause"
  BY DEF UnknownFeePause, Still, ledger, market
<1>2. control' \in ControlType
  BY SetControlType DEF UnknownFeePause, InductiveInvariant, LedgerTypeOK
<1>3. CASE Return(w)
  BY <1>1, <1>2, <1>3, StillReturn
<1>4. CASE Goto(w, worker[w].then) /\ worker[w].then # "idle"
  <2>1. PICK pc \in {"release", "apply", "positions"} : pc = worker[w].then
    BY <1>4 DEF InductiveInvariant, LedgerTypeOK, WorkerType
  <2>2. Goto(w, pc)
    BY <1>4, <2>1
  <2>3. worker' \in [Workers -> WorkerType]
    BY <2>2, GotoType DEF InductiveInvariant, LedgerTypeOK, Steps
  <2>4. PreCallOK(w)' /\ AnswerOK(w)' /\ PassOK(w)'
    <3>1. CASE pc = "positions"
      BY <1>1, <2>2, <3>1, GotoFields
         DEF PreCallOK, PreCall, AnswerOK, Carries, PassOK, Still,
             InductiveInvariant, CallsAccounted
    <3>2. CASE pc # "positions"
      BY <1>1, <2>1, <2>2, <3>2, GotoFields, CarryOn DEF Still, PreCall, Carries
    <3>3. QED
      BY <3>1, <3>2
  <2>5. QED
    BY <1>1, <1>2, <2>2, <2>3, <2>4, GotoFields, StillStep
<1>5. QED
  BY <1>3, <1>4 DEF UnknownFeePause

(* _release_if_done: a reservation returns only over a terminal row, which  *)
(* under held risk means that the venue has ended the order.                *)
LEMMA ReleaseIfDoneKeeps ==
    ASSUME InductiveInvariant, NEW s \in Signals, ReleaseIfDone(s),
           UNCHANGED <<intents, fills, venue, calls>>
    PROVE  /\ held' \in [Signals -> {"none", "HELD", "RELEASED"}]
           /\ \A t \in Signals : RowOK(t)' /\ VenueOK(t)' /\ Later(t)
           /\ \A v \in Workers : PreCallSafe(v)
<1>1. /\ held \in [Signals -> {"none", "HELD", "RELEASED"}]
      /\ RowOK(s) /\ VenueOK(s) /\ venue[s].filled \in Nat
  BY ConstantsAssumption
     DEF InductiveInvariant, CallsAccounted, LedgerTypeOK, VenueType, Quantity
<1>2. CASE UNCHANGED held
  BY <1>1, <1>2, StillKeeps DEF Still
<1>3. CASE /\ held' = [held EXCEPT ![s] = "RELEASED"]
           /\ held[s] = "HELD" /\ intents[s].state \in Terminal
  <2>1. held' \in [Signals -> {"none", "HELD", "RELEASED"}] /\ held'[s] = "RELEASED"
    BY <1>1, <1>3
  <2>2. venue[s].status \in Dead
    BY <1>1, <1>3 DEF RowOK
  <2>3. RowOK(s)' /\ VenueOK(s)' /\ Later(s)
    BY <1>1, <1>3, <2>1, <2>2 DEF RowOK, VenueOK, Later, Dead
  <2>4. \A t \in Signals : RowOK(t)' /\ VenueOK(t)' /\ Later(t)
    BY <1>1, <1>3, <2>3, OneSignal
  <2>5. \A v \in Workers : PreCallSafe(v)
    BY <1>1, <1>3, <2>2, PreCallKept DEF Dead
  <2>6. QED
    BY <2>1, <2>4, <2>5
<1>4. QED
  BY <1>1, <1>2, <1>3 DEF ReleaseIfDone

(* _release_if_done at the end of an applied answer.                        *)
LEMMA ReleaseKeeps ==
    ASSUME InductiveInvariant, NEW w \in Workers, Release(w)
    PROVE  InductiveInvariant'
<1>1. Carries(w) /\ UNCHANGED <<control, intents, fills, day, venue, calls, barred, restarts>>
  BY DEF Release, Carries, market
<1>2. PICK s \in Signals : s = worker[w].sig
  BY <1>1 DEF InductiveInvariant, CallsAccounted, AnswerOK
<1>3. /\ held' \in [Signals -> {"none", "HELD", "RELEASED"}]
      /\ \A t \in Signals : RowOK(t)' /\ VenueOK(t)' /\ Later(t)
      /\ \A v \in Workers : PreCallSafe(v)
  BY <1>1, <1>2, ReleaseIfDoneKeeps DEF Release
<1>4. CASE Return(w)
  <2>1. LedgerTypeOK'
    BY <1>1, <1>3, <1>4, ReturnType DEF InductiveInvariant, LedgerTypeOK
  <2>2. QED
    BY <1>3, <1>4, <2>1, ReturnKeeps, WorkerStep
<1>5. CASE Goto(w, worker[w].after)
  <2>1. PICK pc \in {"idle", "trades", "reapply", "rows"} : Goto(w, pc)
    BY <1>5 DEF InductiveInvariant, LedgerTypeOK, WorkerType
  <2>2. worker' \in [Workers -> WorkerType]
    BY <2>1, GotoType DEF InductiveInvariant, LedgerTypeOK, Steps
  <2>3. LedgerTypeOK'
    BY <1>1, <1>3, <2>2 DEF InductiveInvariant, LedgerTypeOK
  <2>4. PreCallOK(w)' /\ AnswerOK(w)' /\ PassOK(w)'
    BY <1>1, <1>3, <2>1, GotoFields, CarryOn DEF PreCall, Later
  <2>5. QED
    BY <1>3, <2>1, <2>3, <2>4, GotoFields, WorkerStep
<1>6. QED
  BY <1>4, <1>5 DEF Release

-----------------------------------------------------------------------------
(* reconcile                                                               *)

(* The rows a pass reads are of orders with a reservation.                  *)
LEMMA StartReconcileKeeps ==
    ASSUME InductiveInvariant, NEW w \in Workers, StartReconcile(w)
    PROVE  InductiveInvariant'
<1> DEFINE read == [s \in Signals |->
                IF intents[s].state \in Reconciled
                THEN [state |-> intents[s].state, cumulative |-> intents[s].cumulative]
                ELSE NoRows[s]]
<1>1. /\ worker' = [worker EXCEPT ![w].pc = "rows", ![w].rows = read]
      /\ worker[w].pc = "idle"
      /\ Still /\ UNCHANGED <<control, day, barred, restarts>>
  BY DEF StartReconcile, Still, market
<1>2. read \in [Signals -> [state : {"none"} \cup Reconciled, cumulative : Quantity]]
  <2>1. ASSUME NEW s \in Signals
        PROVE  read[s] \in [state : {"none"} \cup Reconciled, cumulative : Quantity]
    <3>1. intents[s].cumulative \in Quantity /\ 0 \in Quantity
      BY ConstantsAssumption DEF InductiveInvariant, LedgerTypeOK, IntentType, Quantity
    <3>2. QED
      BY <3>1 DEF NoRows
  <2>2. QED
    BY <2>1
<1>3. \A s \in Signals : read[s].state # "none" => held[s] # "none"
  <2>1. ASSUME NEW s \in Signals, read[s].state # "none"
        PROVE  held[s] # "none"
    <3>1. intents[s].state \in Reconciled
      BY <2>1 DEF NoRows
    <3>2. RowOK(s)
      BY DEF InductiveInvariant, CallsAccounted
    <3>3. QED
      BY <3>1, <3>2 DEF RowOK, Reconciled, Live
  <2>2. QED
    BY <2>1
<1> HIDE DEF read
<1>4. /\ worker' \in [Workers -> WorkerType]
      /\ \A v \in Workers \ {w} : worker'[v] = worker[v]
      /\ worker'[w].pc = "rows" /\ worker'[w].rows = read
  <2>1. worker \in [Workers -> WorkerType] /\ worker[w] \in WorkerType
    BY DEF InductiveInvariant, LedgerTypeOK
  <2>2. [[worker[w] EXCEPT !.pc = "rows"] EXCEPT !.rows = read] \in WorkerType
    BY <1>2, <2>1 DEF WorkerType, Steps
  <2>3. QED
    BY <1>1, <2>1, <2>2 DEF WorkerType, Steps
<1>5. PreCallOK(w)' /\ AnswerOK(w)' /\ PassOK(w)'
  BY <1>1, <1>3, <1>4 DEF PreCallOK, PreCall, AnswerOK, Carries, PassOK, Still
<1>6. QED
  BY <1>1, <1>4, <1>5, StillStep DEF InductiveInvariant, LedgerTypeOK

(* A row done with: the pass forgets it, and may remember a failure or a    *)
(* missing order.                                                           *)
Done(w, s, failed, missing) ==
    worker' = [worker EXCEPT ![w].rows[s] = NoRows[s],
                             ![w].failed = failed, ![w].missing = missing]

(* A pass that drops a row it has dealt with keeps the facts.               *)
LEMMA DoneKeeps ==
    ASSUME InductiveInvariant, NEW w \in Workers, NEW s \in Signals, NextRow(w, s),
           NEW failed \in BOOLEAN, NEW missing \in BOOLEAN, Done(w, s, failed, missing),
           \A t \in Signals : held[t] # "none" => held'[t] # "none"
    PROVE  /\ worker' \in [Workers -> WorkerType]
           /\ \A v \in Workers \ {w} : worker'[v] = worker[v]
           /\ PreCallOK(w)' /\ AnswerOK(w)' /\ PassOK(w)'
<1>1. worker \in [Workers -> WorkerType] /\ worker[w] \in WorkerType
  BY DEF InductiveInvariant, LedgerTypeOK
<1> DEFINE kept == [worker[w].rows EXCEPT ![s] = NoRows[s]]
<1>2. /\ kept \in [Signals -> [state : {"none"} \cup Reconciled, cumulative : Quantity]]
      /\ \A t \in Signals : kept[t].state # "none" => worker[w].rows[t].state # "none"
  <2>1. NoRows[s] \in [state : {"none"} \cup Reconciled, cumulative : Quantity]
        /\ NoRows[s].state = "none"
    BY ConstantsAssumption DEF NoRows, Quantity
  <2>2. worker[w].rows \in
            [Signals -> [state : {"none"} \cup Reconciled, cumulative : Quantity]]
    BY <1>1 DEF WorkerType, Steps
  <2>3. QED
    BY <2>1, <2>2
<1>3. worker' = [worker EXCEPT ![w] = [worker[w] EXCEPT !.rows = kept,
                                            !.failed = failed, !.missing = missing]]
  BY <1>1 DEF Done, WorkerType
<1> HIDE DEF kept
<1>4. [worker[w] EXCEPT !.rows = kept, !.failed = failed, !.missing = missing]
        \in WorkerType
  BY <1>1, <1>2 DEF WorkerType, Steps
<1>5. /\ worker' \in [Workers -> WorkerType]
      /\ \A v \in Workers \ {w} : worker'[v] = worker[v]
      /\ worker'[w].pc = "rows" /\ worker'[w].rows = kept
  BY <1>1, <1>3, <1>4 DEF NextRow, WorkerType
<1>6. PreCallOK(w)' /\ AnswerOK(w)' /\ PassOK(w)'
  BY <1>2, <1>5 DEF PreCallOK, PreCall, AnswerOK, Carries, PassOK,
     InductiveInvariant, CallsAccounted
<1>7. QED
  BY <1>5, <1>6

(* Skipping a row is such a drop.                                           *)
LEMMA SkipIsDone ==
    ASSUME InductiveInvariant, NEW w \in Workers, NEW s \in Signals
    PROVE  /\ Skip(w, s) => Done(w, s, worker[w].failed, worker[w].missing)
           /\ Fail(w, s) => Done(w, s, TRUE, worker[w].missing)
           /\ worker' = [worker EXCEPT ![w].rows[s] = NoRows[s], ![w].missing = TRUE]
                => Done(w, s, worker[w].failed, TRUE)
           /\ worker[w].failed \in BOOLEAN /\ worker[w].missing \in BOOLEAN
<1>1. worker \in [Workers -> WorkerType] /\ worker[w] \in WorkerType
  BY DEF InductiveInvariant, LedgerTypeOK
<1>2. worker[w].failed \in BOOLEAN /\ worker[w].missing \in BOOLEAN
  BY <1>1 DEF WorkerType, Steps
<1>3. QED
  BY <1>1, <1>2 DEF Skip, Fail, Done, WorkerType

(* A row that stays unresolved: UNKNOWN, or left as it is.                  *)
LEMMA UnresolvedKeeps ==
    ASSUME InductiveInvariant, NEW w \in Workers, NEW s \in Signals, NextRow(w, s),
           NEW failed \in BOOLEAN, NEW missing \in BOOLEAN, Done(w, s, failed, missing),
           SetUnknown(s) \/ UNCHANGED intents,
           UNCHANGED <<control, held, fills, day, venue, calls, barred, restarts>>
    PROVE  InductiveInvariant'
<1>1. held[s] # "none"
  BY DEF NextRow, InductiveInvariant, CallsAccounted, PassOK
<1>2. /\ worker' \in [Workers -> WorkerType]
      /\ \A v \in Workers \ {w} : worker'[v] = worker[v]
      /\ PreCallOK(w)' /\ AnswerOK(w)' /\ PassOK(w)'
  BY DoneKeeps
<1>3. CASE SetUnknown(s)
  <2>1. /\ intents' \in [Signals -> IntentType]
        /\ \A t \in Signals : RowOK(t)' /\ VenueOK(t)' /\ Later(t)
        /\ \A v \in Workers : PreCallSafe(v)
    BY <1>1, <1>3, SetUnknownKeeps
  <2>2. LedgerTypeOK'
    BY <1>2, <2>1 DEF InductiveInvariant, LedgerTypeOK
  <2>3. QED
    BY <1>2, <2>1, <2>2, WorkerStep
<1>4. CASE UNCHANGED intents
  BY <1>2, <1>4, StillStep DEF Still, InductiveInvariant, LedgerTypeOK
<1>5. QED
  BY <1>3, <1>4

(* The release of a FILLED row found by a pass.                             *)
LEMMA ReleaseFilledKeeps ==
    ASSUME InductiveInvariant, NEW w \in Workers, NEW s \in Signals, ReleaseFilled(w, s)
    PROVE  InductiveInvariant'
<1>1. /\ NextRow(w, s) /\ ReleaseIfDone(s)
      /\ Done(w, s, worker[w].failed, worker[w].missing)
      /\ worker[w].failed \in BOOLEAN /\ worker[w].missing \in BOOLEAN
      /\ UNCHANGED <<control, intents, fills, day, venue, calls, barred, restarts>>
  BY SkipIsDone DEF ReleaseFilled, market
<1>2. /\ held' \in [Signals -> {"none", "HELD", "RELEASED"}]
      /\ \A t \in Signals : RowOK(t)' /\ VenueOK(t)' /\ Later(t)
      /\ \A v \in Workers : PreCallSafe(v)
  BY <1>1, ReleaseIfDoneKeeps
<1>3. /\ worker' \in [Workers -> WorkerType]
      /\ \A v \in Workers \ {w} : worker'[v] = worker[v]
      /\ PreCallOK(w)' /\ AnswerOK(w)' /\ PassOK(w)'
  BY <1>1, <1>2, DoneKeeps DEF Later
<1>4. LedgerTypeOK'
  BY <1>1, <1>2, <1>3 DEF InductiveInvariant, LedgerTypeOK
<1>5. QED
  BY <1>2, <1>3, <1>4, WorkerStep

(* A missing order leaves its row unresolved and its risk held.             *)
LEMMA QueryMissingKeeps ==
    ASSUME InductiveInvariant, NEW w \in Workers, NEW s \in Signals, QueryMissing(w, s)
    PROVE  InductiveInvariant'
<1>1. Done(w, s, worker[w].failed, TRUE) /\ worker[w].failed \in BOOLEAN
  BY SkipIsDone DEF QueryMissing
<1>2. QED
  BY <1>1, UnresolvedKeeps DEF QueryMissing, market

(* An unresolved query leaves the risk held.                                *)
LEMMA QueryUnresolvedKeeps ==
    ASSUME InductiveInvariant, NEW w \in Workers, NEW s \in Signals, QueryUnresolved(w, s)
    PROVE  InductiveInvariant'
<1>1. /\ worker[w].failed \in BOOLEAN /\ worker[w].missing \in BOOLEAN
      /\ \/ Done(w, s, worker[w].failed, worker[w].missing)
         \/ Done(w, s, TRUE, worker[w].missing)
  BY SkipIsDone DEF QueryUnresolved
<1>2. NextRow(w, s) /\ (SetUnknown(s) \/ UNCHANGED intents)
  BY DEF QueryUnresolved
<1>3. UNCHANGED <<control, held, fills, day, venue, calls, barred, restarts>>
  BY DEF QueryUnresolved, market
<1>4. QED
  BY <1>1, <1>2, <1>3, UnresolvedKeeps

(* An answered query is carried to _apply_order_result.                     *)
LEMMA QueryAnsweredKeeps ==
    ASSUME InductiveInvariant, NEW w \in Workers, NEW s \in Signals, QueryAnswered(w, s)
    PROVE  InductiveInvariant'
<1> DEFINE r == Snapshot(s, 0)
           kept == [worker[w].rows EXCEPT ![s] = NoRows[s]]
<1>1. worker \in [Workers -> WorkerType] /\ worker[w] \in WorkerType
  BY DEF InductiveInvariant, LedgerTypeOK
<1>2. /\ Still /\ UNCHANGED <<control, day, barred, restarts>>
      /\ Known(s) /\ worker[w].pc = "rows"
  BY DEF QueryAnswered, NextRow, Still, ledger, market
<1>3. worker' = [worker EXCEPT ![w] = [worker[w] EXCEPT !.pc = "apply", !.sig = s,
                    !.resp = r, !.after = "trades", !.rows = kept]]
  BY <1>1 DEF QueryAnswered, WorkerType
<1>4. /\ venue[s].filled \in Nat /\ 0 <= venue[s].filled
      /\ venue[s].status \notin {"absent", "inflight"}
  BY <1>2, ConstantsAssumption
     DEF InductiveInvariant, LedgerTypeOK, VenueType, Quantity, Known
<1>5. /\ r \in ResponseType /\ r.state # "none" /\ r.cumulative = venue[s].filled
      /\ r.state \in Terminal => venue[s].status \in Dead
  BY <1>2, SnapshotFacts DEF Snapshot
<1>6. r.trades = 0
  BY DEF Snapshot
<1>7. /\ kept \in [Signals -> [state : {"none"} \cup Reconciled, cumulative : Quantity]]
      /\ \A t \in Signals : kept[t].state # "none" => worker[w].rows[t].state # "none"
  <2>1. NoRows[s] \in [state : {"none"} \cup Reconciled, cumulative : Quantity]
        /\ NoRows[s].state = "none"
    BY ConstantsAssumption DEF NoRows, Quantity
  <2>2. worker[w].rows \in
            [Signals -> [state : {"none"} \cup Reconciled, cumulative : Quantity]]
    BY <1>1 DEF WorkerType, Steps
  <2>3. QED
    BY <2>1, <2>2
<1> HIDE DEF r, kept
<1>8. [worker[w] EXCEPT !.pc = "apply", !.sig = s, !.resp = r, !.after = "trades",
                        !.rows = kept] \in WorkerType
  BY <1>1, <1>5, <1>7 DEF WorkerType, Steps
<1>9. /\ worker' \in [Workers -> WorkerType]
      /\ \A v \in Workers \ {w} : worker'[v] = worker[v]
      /\ worker'[w].pc = "apply" /\ worker'[w].sig = s /\ worker'[w].resp = r
      /\ worker'[w].rows = kept
  BY <1>1, <1>3, <1>8 DEF WorkerType, Steps
<1>10. AnswerOK(w)'
  BY <1>2, <1>4, <1>5, <1>6, <1>9 DEF AnswerOK, Still
<1>11. PreCallOK(w)' /\ PassOK(w)'
  BY <1>2, <1>7, <1>9 DEF PreCallOK, PreCall, PassOK, Still,
     InductiveInvariant, CallsAccounted
<1>12. QED
  BY <1>2, <1>9, <1>10, <1>11, StillStep DEF InductiveInvariant, LedgerTypeOK

(* A failing myTrades call changes the pass only.                           *)
LEMMA TradesFailureKeeps ==
    ASSUME InductiveInvariant, NEW w \in Workers, TradesFailure(w)
    PROVE  InductiveInvariant'
<1>1. worker \in [Workers -> WorkerType] /\ worker[w] \in WorkerType
  BY DEF InductiveInvariant, LedgerTypeOK
<1>2. /\ Still /\ UNCHANGED <<control, day, barred, restarts>> /\ Carries(w)
      /\ worker' = [worker EXCEPT ![w].pc = "rows", ![w].failed = TRUE]
  BY DEF TradesFailure, Still, ledger, market, Carries
<1>3. [[worker[w] EXCEPT !.pc = "rows"] EXCEPT !.failed = TRUE] \in WorkerType
  BY <1>1 DEF WorkerType, Steps
<1>4. /\ worker' \in [Workers -> WorkerType]
      /\ \A v \in Workers \ {w} : worker'[v] = worker[v]
      /\ worker'[w].pc = "rows" /\ worker'[w].sig = worker[w].sig
      /\ worker'[w].resp = worker[w].resp /\ worker'[w].rows = worker[w].rows
  BY <1>1, <1>2, <1>3 DEF WorkerType, Steps
<1>5. PreCallOK(w)' /\ AnswerOK(w)' /\ PassOK(w)'
  BY <1>2, <1>4, CarryOn DEF PreCall, Still
<1>6. QED
  BY <1>2, <1>4, <1>5, StillStep DEF InductiveInvariant, LedgerTypeOK

(* The same answer is carried once more when trades cover it.               *)
LEMMA ReapplyKeeps ==
    ASSUME InductiveInvariant, NEW w \in Workers, Reapply(w)
    PROVE  InductiveInvariant'
<1>1. worker \in [Workers -> WorkerType] /\ worker[w] \in WorkerType
  BY DEF InductiveInvariant, LedgerTypeOK
<1>2. PICK pc \in {"recompute", "rows"} :
        worker' = [worker EXCEPT ![w].pc = pc, ![w].then = "apply", ![w].after = "rows"]
  BY DEF Reapply
<1>3. Still /\ UNCHANGED <<control, day, barred, restarts>> /\ Carries(w)
  BY DEF Reapply, Still, ledger, market, Carries
<1>4. [[[worker[w] EXCEPT !.pc = pc] EXCEPT !.then = "apply"] EXCEPT !.after = "rows"]
        \in WorkerType
  BY <1>1 DEF WorkerType, Steps
<1>5. /\ worker' \in [Workers -> WorkerType]
      /\ \A v \in Workers \ {w} : worker'[v] = worker[v]
      /\ worker'[w].pc = pc /\ worker'[w].sig = worker[w].sig
      /\ worker'[w].resp = worker[w].resp /\ worker'[w].rows = worker[w].rows
  BY <1>1, <1>2, <1>4 DEF WorkerType, Steps
<1>6. PreCallOK(w)' /\ AnswerOK(w)' /\ PassOK(w)'
  BY <1>3, <1>5, CarryOn DEF PreCall, Still
<1>7. QED
  BY <1>3, <1>5, <1>6, StillStep DEF InductiveInvariant, LedgerTypeOK

(* _ingest_fills and _update_fill_state: no more trades than the venue has. *)
LEMMA IngestFillsKeeps ==
    ASSUME InductiveInvariant, NEW w \in Workers, IngestFills(w)
    PROVE  InductiveInvariant'
<1>1. Carries(w) /\ UNCHANGED <<control, held, day, venue, calls, barred, restarts>>
  BY DEF IngestFills, Carries, market
<1>2. PICK s \in Signals : s = worker[w].sig
  BY <1>1 DEF InductiveInvariant, CallsAccounted, AnswerOK
<1>3. /\ held[s] # "none" /\ intents[s].state # "none"
      /\ venue[s].filled \in Quantity /\ venue[s].filled <= intents[s].qty
      /\ fills[s] \in 0..venue[s].filled
      /\ intents[s] \in IntentType /\ intents[s].qty \in Quantity
      /\ venue[s].filled >= intents[s].qty => venue[s].status \in Dead
  BY <1>1, <1>2, CarriedFacts
<1>4. PICK listed \in 0..venue[s].filled :
        LET covered == Covered(s, listed)
            observed == IF covered >= intents[s].qty THEN "FILLED" ELSE "PARTIALLY_FILLED"
        IN
        /\ fills' = [fills EXCEPT ![s] = covered]
        /\ IF covered > fills[s]
             THEN /\ intents' = [intents EXCEPT ![s].state =
                        MergeOrderState(intents[s].state, observed, intents[s].qty, covered)]
                  /\ worker' = [worker EXCEPT ![w].pc = "recompute",
                                              ![w].then = "release",
                                              ![w].after = "reapply"]
             ELSE /\ UNCHANGED intents
                  /\ Goto(w, "reapply")
  BY <1>2 DEF IngestFills
<1> DEFINE covered == Covered(s, listed)
           observed == IF covered >= intents[s].qty THEN "FILLED" ELSE "PARTIALLY_FILLED"
           target == MergeOrderState(intents[s].state, observed, intents[s].qty, covered)
<1>5. covered \in 0..venue[s].filled
  BY <1>3 DEF Covered, Max2, Quantity
<1>6. covered \in Quantity /\ covered <= venue[s].filled
  BY <1>3, <1>5, ConstantsAssumption DEF Quantity
<1>7. target \in Live \cup Terminal /\ (target \in Terminal => venue[s].status \in Dead)
  <2>1. /\ intents[s].state \in RowStates /\ intents[s].qty \in Nat /\ covered \in Nat
        /\ observed \in {"ACKNOWLEDGED", "PARTIALLY_FILLED", "REJECTED", "FILLED",
                         "CANCELED", "EXPIRED"}
    BY <1>3, <1>6, ConstantsAssumption DEF IntentType, RowStates, Quantity
  <2>2. intents[s].state \in Terminal => venue[s].status \in Dead
    BY <1>1, <1>2, <1>3
       DEF InductiveInvariant, CallsAccounted, RowOK, AnswerOK, LedgerTypeOK, VenueType, Dead
  <2>3. covered >= intents[s].qty => venue[s].status \in Dead
    BY <1>3, <1>6, <2>1 DEF Quantity
  <2>4. observed \in Terminal => covered >= intents[s].qty
    BY DEF Terminal
  <2>5. QED
    BY <2>1, <2>2, <2>3, <2>4, MergeFacts
<1>8. /\ fills' = [fills EXCEPT ![s] = covered]
      /\ \/ /\ intents' = [intents EXCEPT ![s].state = target]
            /\ worker' = [worker EXCEPT ![w].pc = "recompute", ![w].then = "release",
                                        ![w].after = "reapply"]
         \/ UNCHANGED intents /\ Goto(w, "reapply")
  BY <1>4
<1> HIDE DEF covered, observed, target
<1>9. /\ worker' \in [Workers -> WorkerType]
      /\ \A v \in Workers \ {w} : worker'[v] = worker[v]
      /\ worker'[w].pc \in {"recompute", "reapply"}
      /\ worker'[w].sig = worker[w].sig /\ worker'[w].resp = worker[w].resp
      /\ worker'[w].rows = worker[w].rows
  <2>1. CASE Goto(w, "reapply")
    BY <2>1, GotoType, GotoFields DEF InductiveInvariant, LedgerTypeOK, Steps
  <2>2. CASE worker' = [worker EXCEPT ![w].pc = "recompute", ![w].then = "release",
                                      ![w].after = "reapply"]
    <3>1. worker \in [Workers -> WorkerType] /\ worker[w] \in WorkerType
      BY DEF InductiveInvariant, LedgerTypeOK
    <3>2. [[[worker[w] EXCEPT !.pc = "recompute"] EXCEPT !.then = "release"]
                EXCEPT !.after = "reapply"] \in WorkerType
      BY <3>1 DEF WorkerType, Steps
    <3>3. QED
      BY <2>2, <3>1, <3>2 DEF WorkerType, Steps
  <2>3. QED
    BY <1>8, <2>1, <2>2
<1>10. /\ fills' \in [Signals -> Quantity] /\ fills'[s] = covered
       /\ \A t \in Signals \ {s} : fills'[t] = fills[t]
  BY <1>6, <1>8 DEF InductiveInvariant, LedgerTypeOK
<1>11. /\ intents' \in [Signals -> IntentType]
       /\ intents'[s].state \in {target, intents[s].state}
       /\ intents'[s].qty = intents[s].qty
       /\ \A t \in Signals \ {s} : intents'[t] = intents[t]
  <2>1. CASE UNCHANGED intents
    BY <2>1 DEF InductiveInvariant, LedgerTypeOK
  <2>2. CASE intents' = [intents EXCEPT ![s].state = target]
    <3>1. 0 \in 0..MaxDay /\ target \in RowStates
      BY <1>7, ConstantsAssumption DEF RowStates
    <3>2. [intents[s] EXCEPT !.state = target] \in IntentType
      BY <1>3, <3>1, RowType
    <3>3. QED
      BY <1>3, <2>2, <3>2 DEF InductiveInvariant, LedgerTypeOK, IntentType
  <2>3. QED
    BY <1>8, <2>1, <2>2
<1>12. LedgerTypeOK'
  BY <1>1, <1>9, <1>10, <1>11 DEF InductiveInvariant, LedgerTypeOK
<1>13. /\ \A t \in Signals : RowOK(t)' /\ VenueOK(t)' /\ Later(t)
       /\ \A v \in Workers : PreCallSafe(v)
  <2>1. intents'[s].state # "none"
    BY <1>3, <1>7, <1>11 DEF Live, Terminal
  <2>2. intents'[s].state \in Terminal => venue[s].status \in Dead
    <3>1. intents[s].state \in Terminal => venue[s].status \in Dead
      BY <1>1, <1>2, <1>3
         DEF InductiveInvariant, CallsAccounted, RowOK, AnswerOK, LedgerTypeOK, VenueType, Dead
    <3>2. QED
      BY <1>7, <1>11, <3>1
  <2>3. QED
    BY <1>1, <1>3, <1>6, <1>10, <1>11, <1>12, <2>1, <2>2, RowRewritten
<1>14. PreCallOK(w)' /\ AnswerOK(w)' /\ PassOK(w)'
  BY <1>1, <1>9, CarryOn DEF PreCall
<1>15. QED
  BY <1>9, <1>12, <1>13, <1>14, WorkerStep

(* A worker between rows and verdict accounts for no order.                 *)
LEMMA PassGoesOn ==
    ASSUME InductiveInvariant, NEW w \in Workers, Still,
           worker'[w].pc \in {"positions", "feepause"},
           worker'[w].pc = "feepause" => worker'[w].then \in {"positions", "idle"},
           worker'[w].rows = worker[w].rows
    PROVE  PreCallOK(w)' /\ AnswerOK(w)' /\ PassOK(w)'
  BY DEF PreCallOK, PreCall, AnswerOK, Carries, PassOK, Still,
     InductiveInvariant, CallsAccounted

(* The end of the rows of a pass.                                           *)
LEMMA EndRowsKeeps ==
    ASSUME InductiveInvariant, NEW w \in Workers, EndRows(w)
    PROVE  InductiveInvariant'
<1>1. worker \in [Workers -> WorkerType] /\ worker[w] \in WorkerType
  BY DEF InductiveInvariant, LedgerTypeOK
<1>2. PICK syms \in SUBSET Symbols :
        worker' = [worker EXCEPT ![w].pc = "positions", ![w].syms = syms]
  BY DEF EndRows
<1>3. Still /\ UNCHANGED <<control, day, barred, restarts>>
  BY DEF EndRows, Still, ledger, market
<1>4. [[worker[w] EXCEPT !.pc = "positions"] EXCEPT !.syms = syms] \in WorkerType
  BY <1>1 DEF WorkerType, Steps
<1>5. /\ worker' \in [Workers -> WorkerType]
      /\ \A v \in Workers \ {w} : worker'[v] = worker[v]
      /\ worker'[w].pc = "positions" /\ worker'[w].rows = worker[w].rows
  BY <1>1, <1>2, <1>4 DEF WorkerType, Steps
<1>6. QED
  BY <1>3, <1>5, PassGoesOn, StillStep DEF InductiveInvariant, LedgerTypeOK

(* _recompute_all_positions, one symbol.                                    *)
LEMMA RecomputeOneKeeps ==
    ASSUME InductiveInvariant, NEW w \in Workers, NEW sym \in Symbols, RecomputeOne(w, sym)
    PROVE  InductiveInvariant'
<1>1. worker \in [Workers -> WorkerType] /\ worker[w] \in WorkerType
  BY DEF InductiveInvariant, LedgerTypeOK
<1>2. PICK pc \in {"positions", "feepause"} :
        worker' = [worker EXCEPT ![w].syms = @ \ {sym}, ![w].then = "positions",
                                 ![w].pc = pc]
  BY <1>1 DEF RecomputeOne
<1>3. Still /\ UNCHANGED <<control, day, barred, restarts>>
  BY DEF RecomputeOne, Still, market
<1>4. worker[w].syms \ {sym} \in SUBSET Symbols
  BY <1>1 DEF WorkerType, Steps
<1>5. [[[worker[w] EXCEPT !.syms = worker[w].syms \ {sym}] EXCEPT !.then = "positions"]
        EXCEPT !.pc = pc] \in WorkerType
  BY <1>1, <1>4 DEF WorkerType, Steps
<1>6. /\ worker' \in [Workers -> WorkerType]
      /\ \A v \in Workers \ {w} : worker'[v] = worker[v]
      /\ worker'[w].pc = pc /\ worker'[w].then = "positions"
      /\ worker'[w].rows = worker[w].rows
  BY <1>1, <1>2, <1>5 DEF WorkerType, Steps
<1>7. QED
  BY <1>3, <1>6, PassGoesOn, StillStep DEF InductiveInvariant, LedgerTypeOK

(* The verdict of a pass writes the control row only.                       *)
LEMMA EndReconcileKeeps ==
    ASSUME InductiveInvariant, NEW w \in Workers, EndReconcile(w)
    PROVE  InductiveInvariant'
<1>1. /\ Still /\ UNCHANGED <<day, barred, restarts>> /\ Return(w)
  BY DEF EndReconcile, Still, ledger, market
<1>2. control' \in ControlType
  BY SetControlType DEF EndReconcile, InductiveInvariant, LedgerTypeOK
<1>3. QED
  BY <1>1, <1>2, StillReturn

-----------------------------------------------------------------------------
(* cancel, mark, update_account and the account failure of a pass          *)

(* The venue moves an open order on.                                        *)
LEMMA VenueMoves ==
    ASSUME InductiveInvariant, NEW s \in Signals, NEW order \in VenueType,
           venue' = [venue EXCEPT ![s] = order],
           UNCHANGED <<intents, held, fills, calls>>,
           venue[s].status \in {"inflight", "NEW"},
           order.status \notin {"absent", "inflight"},
           venue[s].filled <= order.filled, order.filled <= intents[s].qty,
           order.status = "REJECTED" => order.filled = 0,
           order.status = "NEW" => order.filled < intents[s].qty
    PROVE  /\ venue' \in [Signals -> VenueType]
           /\ \A t \in Signals : RowOK(t)' /\ VenueOK(t)' /\ Later(t)
           /\ \A v \in Workers : PreCallSafe(v)
<1>1. /\ venue \in [Signals -> VenueType] /\ venue[s].filled \in Nat
      /\ order.filled \in Nat /\ fills[s] \in Nat /\ intents[s].qty \in Nat
      /\ RowOK(s) /\ VenueOK(s)
  BY ConstantsAssumption
     DEF InductiveInvariant, CallsAccounted, LedgerTypeOK, VenueType, IntentType, Quantity
<1>2. venue' \in [Signals -> VenueType] /\ venue'[s] = order
  BY <1>1
<1>3. RowOK(s)'
  BY <1>1, <1>2 DEF RowOK, Dead
<1>4. VenueOK(s)'
  BY <1>1, <1>2 DEF VenueOK
<1>5. Later(s)
  BY <1>1, <1>2 DEF Later, Dead
<1>6. \A t \in Signals : RowOK(t)' /\ VenueOK(t)' /\ Later(t)
  BY <1>1, <1>3, <1>4, <1>5, OneSignal
<1>7. \A v \in Workers : PreCallSafe(v)
  BY <1>1, PreCallKept
<1>8. QED
  BY <1>2, <1>6, <1>7

(* A canceled order is still of its type, and over.                         *)
LEMMA CancelAtVenueKeeps ==
    ASSUME InductiveInvariant, NEW s \in Signals, venue[s].status = "NEW",
           venue' = [venue EXCEPT ![s].status = "CANCELED"],
           UNCHANGED <<intents, held, fills, calls>>
    PROVE  /\ venue' \in [Signals -> VenueType]
           /\ \A t \in Signals : RowOK(t)' /\ VenueOK(t)' /\ Later(t)
           /\ \A v \in Workers : PreCallSafe(v)
           /\ venue'[s].status = "CANCELED" /\ venue'[s].filled = venue[s].filled
<1>1. /\ venue \in [Signals -> VenueType] /\ venue[s] \in VenueType /\ VenueOK(s)
      /\ venue[s].filled \in Nat
  BY ConstantsAssumption
     DEF InductiveInvariant, CallsAccounted, LedgerTypeOK, VenueType, Quantity
<1>2. PICK order \in VenueType :
        /\ venue' = [venue EXCEPT ![s] = order]
        /\ order.status = "CANCELED" /\ order.filled = venue[s].filled
  <2>1. [venue[s] EXCEPT !.status = "CANCELED"] \in VenueType
    BY <1>1 DEF VenueType
  <2>2. QED
    BY <1>1, <2>1 DEF VenueType
<1>3. order.filled <= intents[s].qty /\ venue[s].filled <= order.filled
  BY <1>1, <1>2 DEF VenueOK
<1>4. QED
  BY <1>1, <1>2, <1>3, VenueMoves

(* cancel: the answer says the order is over, and it is.                    *)
LEMMA CancelKeeps ==
    ASSUME InductiveInvariant, NEW w \in Workers, NEW s \in Signals, Cancel(w, s)
    PROVE  InductiveInvariant'
<1> DEFINE r == [state |-> "CANCELED", cumulative |-> venue[s].filled, trades |-> 0]
<1>1. /\ venue' = [venue EXCEPT ![s].status = "CANCELED"] /\ venue[s].status = "NEW"
      /\ UNCHANGED <<control, intents, held, fills, day, calls, barred, restarts>>
      /\ worker' = [worker EXCEPT ![w].pc = "apply", ![w].sig = s, ![w].resp = r]
  BY DEF Cancel, CancelAtVenue, ledger, InductiveInvariant, LedgerTypeOK
<1>2. /\ venue' \in [Signals -> VenueType]
      /\ \A t \in Signals : RowOK(t)' /\ VenueOK(t)' /\ Later(t)
      /\ \A v \in Workers : PreCallSafe(v)
      /\ venue'[s].status = "CANCELED" /\ venue'[s].filled = venue[s].filled
  BY <1>1, CancelAtVenueKeeps
<1>3. venue[s].filled \in Quantity /\ 0 \in Quantity /\ venue[s].filled \in Nat
  BY ConstantsAssumption DEF InductiveInvariant, LedgerTypeOK, VenueType, Quantity
<1>4. /\ r \in ResponseType /\ r.state = "CANCELED" /\ r.cumulative = venue[s].filled
      /\ r.trades = 0
  BY <1>3 DEF ResponseType
<1> HIDE DEF r
<1>5. /\ worker' \in [Workers -> WorkerType]
      /\ \A v \in Workers \ {w} : worker'[v] = worker[v]
      /\ worker'[w].pc = "apply" /\ worker'[w].sig = s /\ worker'[w].resp = r
      /\ worker'[w].rows = worker[w].rows
  <2>1. worker \in [Workers -> WorkerType] /\ worker[w] \in WorkerType
    BY DEF InductiveInvariant, LedgerTypeOK
  <2>2. [[[worker[w] EXCEPT !.pc = "apply"] EXCEPT !.sig = s] EXCEPT !.resp = r]
          \in WorkerType
    BY <1>4, <2>1 DEF WorkerType, Steps
  <2>3. QED
    BY <1>1, <2>1, <2>2 DEF WorkerType, Steps
<1>6. LedgerTypeOK'
  BY <1>1, <1>2, <1>5 DEF InductiveInvariant, LedgerTypeOK
<1>7. PreCallOK(w)' /\ AnswerOK(w)' /\ PassOK(w)'
  <2>1. AnswerOK(w)'
    BY <1>2, <1>3, <1>4, <1>5 DEF AnswerOK, Dead
  <2>2. PreCallOK(w)' /\ PassOK(w)'
    BY <1>1, <1>5 DEF PreCallOK, PreCall, PassOK, InductiveInvariant, CallsAccounted
  <2>3. QED
    BY <2>1, <2>2
<1>8. QED
  BY <1>2, <1>5, <1>6, <1>7, WorkerStep

(* A cancel whose answer is lost.                                           *)
LEMMA CancelFailureKeeps ==
    ASSUME InductiveInvariant, NEW w \in Workers, NEW s \in Signals, CancelFailure(w, s)
    PROVE  InductiveInvariant'
<1>1. /\ control' \in ControlType
      /\ UNCHANGED <<intents, held, fills, day, calls, barred, restarts>>
      /\ worker' = [worker EXCEPT ![w].pc = "cancelfail", ![w].sig = s]
  BY SetControlType DEF CancelFailure, ledger, InductiveInvariant, LedgerTypeOK
<1>2. held[s] # "none"
  BY DEF CancelFailure, Cancellable, Live, InductiveInvariant, CallsAccounted, RowOK
<1>3. /\ venue' \in [Signals -> VenueType]
      /\ \A t \in Signals : RowOK(t)' /\ VenueOK(t)' /\ Later(t)
      /\ \A v \in Workers : PreCallSafe(v)
  <2>1. CASE UNCHANGED venue
    BY <1>1, <2>1, StillKeeps DEF Still, InductiveInvariant, LedgerTypeOK
  <2>2. CASE venue[s].status = "NEW" /\ venue' = [venue EXCEPT ![s].status = "CANCELED"]
    BY <1>1, <2>2, CancelAtVenueKeeps
  <2>3. venue[s].status # "NEW" /\ CancelAtVenue(s) => UNCHANGED venue
    BY DEF CancelAtVenue, InductiveInvariant, LedgerTypeOK, VenueType
  <2>4. QED
    BY <2>1, <2>2, <2>3 DEF CancelFailure, CancelAtVenue
<1>4. /\ worker' \in [Workers -> WorkerType]
      /\ \A v \in Workers \ {w} : worker'[v] = worker[v]
      /\ worker'[w].pc = "cancelfail" /\ worker'[w].sig = s
      /\ worker'[w].rows = worker[w].rows
  <2>1. worker \in [Workers -> WorkerType] /\ worker[w] \in WorkerType
    BY DEF InductiveInvariant, LedgerTypeOK
  <2>2. [[worker[w] EXCEPT !.pc = "cancelfail"] EXCEPT !.sig = s] \in WorkerType
    BY <2>1 DEF WorkerType, Steps
  <2>3. QED
    BY <1>1, <2>1, <2>2 DEF WorkerType, Steps
<1>5. LedgerTypeOK'
  BY <1>1, <1>3, <1>4 DEF InductiveInvariant, LedgerTypeOK
<1>6. PreCallOK(w)' /\ AnswerOK(w)' /\ PassOK(w)'
  BY <1>1, <1>2, <1>4 DEF PreCallOK, PreCall, AnswerOK, Carries, PassOK,
     InductiveInvariant, CallsAccounted
<1>7. QED
  BY <1>3, <1>4, <1>5, <1>6, WorkerStep

(* The row of a failed cancel becomes UNKNOWN.                              *)
LEMMA CancelUnknownKeeps ==
    ASSUME InductiveInvariant, NEW w \in Workers, CancelUnknown(w)
    PROVE  InductiveInvariant'
<1>1. worker[w].sig \in Signals /\ held[worker[w].sig] # "none"
  BY DEF CancelUnknown, InductiveInvariant, CallsAccounted, PassOK
<1>2. QED
  BY <1>1, SetUnknownReturn DEF CancelUnknown, market

(* mark writes a position row only.                                         *)
LEMMA MarkKeeps ==
    ASSUME InductiveInvariant, NEW w \in Workers, NEW sym \in Symbols, Mark(w, sym)
    PROVE  InductiveInvariant'
<1>1. Still /\ UNCHANGED <<control, day, barred, restarts>> /\ worker[w].pc = "idle"
  BY DEF Mark, Still, market
<1>2. CASE UNCHANGED worker
  <2>1. LedgerTypeOK'
    BY <1>1, <1>2 DEF InductiveInvariant, LedgerTypeOK, Still
  <2>2. QED
    BY <1>1, <1>2, <2>1, StillKeeps, OutsideStep
<1>3. CASE worker' = [worker EXCEPT ![w].pc = "feepause", ![w].then = "idle"]
  <2>1. worker \in [Workers -> WorkerType] /\ worker[w] \in WorkerType
    BY DEF InductiveInvariant, LedgerTypeOK
  <2>2. [[worker[w] EXCEPT !.pc = "feepause"] EXCEPT !.then = "idle"] \in WorkerType
    BY <2>1 DEF WorkerType, Steps
  <2>3. /\ worker' \in [Workers -> WorkerType]
        /\ \A v \in Workers \ {w} : worker'[v] = worker[v]
        /\ worker'[w].pc = "feepause" /\ worker'[w].then = "idle"
        /\ worker'[w].rows = worker[w].rows
    BY <1>3, <2>1, <2>2 DEF WorkerType, Steps
  <2>4. QED
    BY <1>1, <2>3, PassGoesOn, StillStep DEF InductiveInvariant, LedgerTypeOK
<1>4. QED
  BY <1>2, <1>3 DEF Mark

-----------------------------------------------------------------------------
(* The operator, the venue, time and process deaths                        *)

(* A step that changes no order and no worker.                              *)
LEMMA NothingMoves ==
    ASSUME InductiveInvariant, Still, UNCHANGED worker, control' \in ControlType,
           day' \in 1..MaxDay, restarts' \in 0..MaxRestarts,
           barred' \in [plane : BOOLEAN, orders : SUBSET Signals]
    PROVE  InductiveInvariant'
<1>1. LedgerTypeOK'
  BY DEF InductiveInvariant, LedgerTypeOK, Still
<1>2. QED
  BY <1>1, StillKeeps, OutsideStep

(* update_account, and the pause of a pass without an account.              *)
LEMMA AccountKeeps ==
    ASSUME InductiveInvariant, NEW w \in Workers, AccountFailure(w) \/ UpdateAccount(w)
    PROVE  InductiveInvariant'
<1>1. Still /\ UNCHANGED <<day, barred, restarts, worker>>
  BY DEF AccountFailure, UpdateAccount, Still, ledger, market
<1>2. control' \in ControlType
  BY SetControlType DEF AccountFailure, UpdateAccount, InductiveInvariant, LedgerTypeOK
<1>3. QED
  BY <1>1, <1>2, NothingMoves DEF InductiveInvariant, LedgerTypeOK

(* An operator writes the control row only.                                 *)
LEMMA OperatorStepKeeps ==
    ASSUME InductiveInvariant, OperatorStep
    PROVE  InductiveInvariant'
<1>1. ASSUME NEW w \in Workers, EnableAutoCanary(w)
      PROVE  InductiveInvariant'
  <2>1. Still /\ UNCHANGED <<day, restarts, worker>>
    BY <1>1 DEF EnableAutoCanary, Still, ledger, market
  <2>2. control' \in ControlType
    BY <1>1 DEF EnableAutoCanary, InductiveInvariant, LedgerTypeOK, ControlType,
       WorkerType, Stopped
  <2>3. barred' \in [plane : BOOLEAN, orders : SUBSET Signals]
    BY <1>1 DEF EnableAutoCanary, InductiveInvariant, LedgerTypeOK
  <2>4. QED
    BY <2>1, <2>2, <2>3, NothingMoves DEF InductiveInvariant, LedgerTypeOK
<1>2. ASSUME NEW state \in {"PAUSED", "DISARMED", "KILLED"}, Operator(state)
      PROVE  InductiveInvariant'
  <2>1. Still /\ UNCHANGED <<day, restarts, worker>>
    BY <1>2 DEF Operator, Still, ledger, market
  <2>2. control' \in ControlType
    BY <1>2, SetControlType DEF Operator, InductiveInvariant, LedgerTypeOK, Stopped
  <2>3. barred' \in [plane : BOOLEAN, orders : SUBSET Signals]
    <3>1. PICK p \in BOOLEAN, S \in SUBSET Signals : barred' = [plane |-> p, orders |-> S]
      <4>1. (barred.plane \/ state # "PAUSED") \in BOOLEAN
        OBVIOUS
      <4>2. barred.orders \in SUBSET Signals
        BY DEF InductiveInvariant, LedgerTypeOK
      <4>3. QED
        BY <1>2, <4>1, <4>2, Zenon DEF Operator
    <3>2. QED
      BY <3>1
  <2>4. QED
    BY <2>1, <2>2, <2>3, NothingMoves DEF InductiveInvariant, LedgerTypeOK
<1>3. QED
  BY <1>1, <1>2 DEF OperatorStep

(* Midnight changes no row.                                                 *)
LEMMA NewDayKeeps ==
    ASSUME InductiveInvariant, NewDay
    PROVE  InductiveInvariant'
<1>1. Still /\ UNCHANGED <<control, barred, restarts, worker>>
  BY DEF NewDay, Still, ledger, market
<1>2. day' \in 1..MaxDay
  BY ConstantsAssumption DEF NewDay, InductiveInvariant, LedgerTypeOK
<1>3. QED
  BY <1>1, <1>2, NothingMoves DEF InductiveInvariant, LedgerTypeOK

(* One order moves at the venue; no worker does anything.                   *)
LEMMA VenueMovesKeeps ==
    ASSUME InductiveInvariant, NEW s \in Signals, NEW order \in VenueType,
           venue' = [venue EXCEPT ![s] = order],
           UNCHANGED <<control, ledger, day, calls, barred, worker, restarts>>,
           venue[s].status \in {"inflight", "NEW"},
           order.status \notin {"absent", "inflight"},
           venue[s].filled <= order.filled, order.filled <= intents[s].qty,
           order.status = "REJECTED" => order.filled = 0,
           order.status = "NEW" => order.filled < intents[s].qty
    PROVE  InductiveInvariant'
<1>1. /\ venue' \in [Signals -> VenueType]
      /\ \A t \in Signals : RowOK(t)' /\ VenueOK(t)' /\ Later(t)
      /\ \A v \in Workers : PreCallSafe(v)
  BY VenueMoves DEF ledger
<1>2. LedgerTypeOK'
  BY <1>1 DEF InductiveInvariant, LedgerTypeOK, ledger
<1>3. QED
  BY <1>1, <1>2, OutsideStep

(* An order still open at the venue has quantity left to fill.              *)
LEMMA OpenOrderFacts ==
    ASSUME InductiveInvariant, NEW s \in Signals, venue[s].status \in {"inflight", "NEW"}
    PROVE  /\ venue \in [Signals -> VenueType] /\ venue[s] \in VenueType
           /\ venue[s].filled \in Nat /\ intents[s].qty \in Nat
           /\ intents[s].qty <= MaxQuantity /\ MaxQuantity \in Nat
           /\ venue[s].filled < intents[s].qty
           /\ venue[s].status = "inflight" => venue[s].filled = 0
           /\ day \in 0..MaxDay
<1>1. RowOK(s) /\ VenueOK(s)
  BY DEF InductiveInvariant, CallsAccounted
<1>2. /\ venue \in [Signals -> VenueType] /\ venue[s] \in VenueType
      /\ venue[s].filled \in Nat /\ intents[s].qty \in 0..MaxQuantity /\ MaxQuantity \in Nat
      /\ day \in 0..MaxDay
  BY ConstantsAssumption
     DEF InductiveInvariant, LedgerTypeOK, VenueType, IntentType, Quantity
<1>3. QED
  BY <1>1, <1>2 DEF RowOK, VenueOK

(* The venue accepts, fills or ends an order it was sent.                   *)
LEMMA VenueOrderKeeps ==
    ASSUME InductiveInvariant, NEW s \in Signals,
           VenueAccepts(s) \/ VenueFills(s) \/ VenueEnds(s)
    PROVE  InductiveInvariant'
<1>1. ASSUME NEW status \in {"NEW", "REJECTED"}, venue[s].status = "inflight",
             venue' = [venue EXCEPT ![s].status = status],
             UNCHANGED <<control, ledger, day, calls, barred, worker, restarts>>
      PROVE  InductiveInvariant'
  <2>1. [venue[s] EXCEPT !.status = status] \in VenueType
    BY <1>1, OpenOrderFacts DEF VenueType
  <2>2. PICK order \in VenueType :
            /\ venue' = [venue EXCEPT ![s] = order]
            /\ order.status = status /\ order.filled = venue[s].filled
    BY <1>1, <2>1, OpenOrderFacts DEF VenueType
  <2>3. /\ venue[s].filled <= order.filled /\ order.filled <= intents[s].qty
        /\ order.status = "REJECTED" => order.filled = 0
        /\ order.status = "NEW" => order.filled < intents[s].qty
        /\ order.status \notin {"absent", "inflight"}
    BY <1>1, <2>2, OpenOrderFacts
  <2>4. QED
    BY <1>1, <2>2, <2>3, VenueMovesKeeps
<1>2. ASSUME NEW status \in {"CANCELED", "EXPIRED"}, venue[s].status = "NEW",
             venue' = [venue EXCEPT ![s].status = status],
             UNCHANGED <<control, ledger, day, calls, barred, worker, restarts>>
      PROVE  InductiveInvariant'
  <2>1. [venue[s] EXCEPT !.status = status] \in VenueType
    BY <1>2, OpenOrderFacts DEF VenueType
  <2>2. PICK order \in VenueType :
            /\ venue' = [venue EXCEPT ![s] = order]
            /\ order.status = status /\ order.filled = venue[s].filled
    BY <1>2, <2>1, OpenOrderFacts DEF VenueType
  <2>3. /\ venue[s].filled <= order.filled /\ order.filled <= intents[s].qty
        /\ order.status = "REJECTED" => order.filled = 0
        /\ order.status = "NEW" => order.filled < intents[s].qty
        /\ order.status \notin {"absent", "inflight"}
    BY <1>2, <2>2, OpenOrderFacts
  <2>4. QED
    BY <1>2, <2>2, <2>3, VenueMovesKeeps
<1>3. CASE VenueFills(s)
  <2> DEFINE status == IF venue[s].filled + 1 = intents[s].qty THEN "FILLED" ELSE "NEW"
             order == [venue[s] EXCEPT !.filled = venue[s].filled + 1, !.day = day,
                                       !.status = status]
  <2>1. venue[s].status = "NEW" /\ venue' = [venue EXCEPT ![s] = order]
    BY <1>3, OpenOrderFacts DEF VenueFills
  <2>2. venue[s].filled + 1 \in Quantity
    BY <2>1, OpenOrderFacts DEF Quantity
  <2>3. /\ order \in VenueType /\ order.filled = venue[s].filled + 1
        /\ order.status = status
    BY <2>1, <2>2, OpenOrderFacts DEF VenueType
  <2>4. /\ status \in {"FILLED", "NEW"}
        /\ status = "NEW" => venue[s].filled + 1 # intents[s].qty
    OBVIOUS
  <2> HIDE DEF order, status
  <2>5. /\ venue[s].filled <= order.filled /\ order.filled <= intents[s].qty
        /\ order.status = "NEW" => order.filled < intents[s].qty
    BY <2>1, <2>3, <2>4, OpenOrderFacts
  <2>6. QED
    BY <1>3, <2>1, <2>3, <2>4, <2>5, VenueMovesKeeps DEF VenueFills
<1>4. QED
  BY <1>1, <1>2, <1>3 DEF VenueAccepts, VenueEnds

(* A venue that loses its history has no open order left.                   *)
LEMMA VenueResetKeeps ==
    ASSUME InductiveInvariant, VenueReset
    PROVE  InductiveInvariant'
<1>1. /\ venue \in [Signals -> VenueType]
      /\ UNCHANGED <<control, intents, held, fills, day, calls, barred, worker, restarts>>
      /\ venue' = [s \in Signals |->
            IF Known(s) THEN [venue[s] EXCEPT !.status = "forgotten"] ELSE venue[s]]
  BY DEF VenueReset, ledger, InductiveInvariant, LedgerTypeOK
<1>2. ASSUME NEW s \in Signals
      PROVE  /\ venue'[s] \in VenueType /\ venue'[s].filled = venue[s].filled
             /\ \/ Known(s) /\ venue'[s].status = "forgotten"
                \/ ~Known(s) /\ venue'[s].status = venue[s].status
  <2>1. venue[s] \in VenueType
    BY <1>1
  <2>2. [venue[s] EXCEPT !.status = "forgotten"] \in VenueType
    BY <2>1 DEF VenueType
  <2>3. CASE Known(s)
    BY <1>1, <2>1, <2>2, <2>3 DEF VenueType
  <2>4. CASE ~Known(s)
    BY <1>1, <2>1, <2>4
  <2>5. QED
    BY <2>3, <2>4
<1>3. LedgerTypeOK'
  <2>1. venue' \in [Signals -> VenueType]
    BY <1>1, <1>2
  <2>2. QED
    BY <1>1, <2>1 DEF InductiveInvariant, LedgerTypeOK
<1>4. ASSUME NEW t \in Signals
      PROVE  RowOK(t)' /\ VenueOK(t)' /\ Later(t)
  <2>1. RowOK(t) /\ VenueOK(t) /\ venue[t].filled \in Nat
    BY ConstantsAssumption
       DEF InductiveInvariant, CallsAccounted, LedgerTypeOK, VenueType, Quantity
  <2>2. RowOK(t)'
    BY <1>1, <1>2, <2>1 DEF RowOK, Known, Dead
  <2>3. VenueOK(t)'
    BY <1>1, <1>2, <2>1 DEF VenueOK, Known
  <2>4. Later(t)
    BY <1>1, <1>2, <2>1 DEF Later, Known, Dead
  <2>5. QED
    BY <2>2, <2>3, <2>4
<1>5. \A v \in Workers : PreCallSafe(v)
  BY <1>1, <1>2 DEF InductiveInvariant, CallsAccounted, PreCallOK, PreCallSafe, Known
<1>6. QED
  BY <1>1, <1>3, <1>4, <1>5, OutsideStep

(* A process that dies carries nothing; its rows say enough.                *)
LEMMA RestartKeeps ==
    ASSUME InductiveInvariant, NEW w \in Workers, Restart(w)
    PROVE  InductiveInvariant'
<1>1. PICK i \in Identities :
        /\ worker' = [worker EXCEPT ![w] = Idle(i)]
        /\ IF control.identity = i THEN UNCHANGED control
           ELSE /\ MayChange
                /\ control' = [control EXCEPT
                        !.state = "DISABLED", !.authorized = FALSE,
                        !.generation = @ + 1, !.identity = i]
  BY DEF Restart
<1>2. Still /\ UNCHANGED <<day, barred>>
  BY DEF Restart, Still, ledger, market
<1>3. control' \in ControlType
  <2>1. control \in ControlType /\ control.generation + 1 \in Nat
    BY DEF InductiveInvariant, LedgerTypeOK, ControlType
  <2>2. CASE control.identity = i
    BY <1>1, <2>1, <2>2
  <2>3. CASE control.identity # i
    BY <1>1, <2>1, <2>3 DEF ControlType, Stopped
  <2>4. QED
    BY <2>2, <2>3
<1>4. restarts' \in 0..MaxRestarts
  BY ConstantsAssumption DEF Restart, InductiveInvariant, LedgerTypeOK
<1>5. /\ worker' \in [Workers -> WorkerType]
      /\ \A v \in Workers \ {w} : worker'[v] = worker[v]
      /\ worker'[w] = Idle(i)
  BY <1>1, IdleType DEF InductiveInvariant, LedgerTypeOK
<1>6. LedgerTypeOK'
  BY <1>2, <1>3, <1>4, <1>5 DEF InductiveInvariant, LedgerTypeOK, Still
<1>7. PreCallOK(w)' /\ AnswerOK(w)' /\ PassOK(w)'
  BY <1>5 DEF Idle, NoRows, PreCallOK, PreCall, AnswerOK, Carries, PassOK
<1>8. QED
  BY <1>2, <1>5, <1>6, <1>7, StillKeeps, WorkerStep

-----------------------------------------------------------------------------
(* The theorems                                                            *)

(* The empty database satisfies the inductive invariant.                    *)
LEMMA InitHolds == Init => InductiveInvariant
<1> SUFFICES ASSUME Init PROVE InductiveInvariant
  OBVIOUS
<1>1. PICK i \in Identities :
        /\ control = [state |-> "DISABLED", generation |-> 0, authorized |-> FALSE,
                      kill |-> FALSE, identity |-> i, reset |-> FALSE]
        /\ worker = [w \in Workers |-> Idle(i)]
  BY DEF Init
<1>2. 0 \in Quantity /\ 0 \in 0..MaxDay /\ 1 \in 1..MaxDay /\ 0 \in 0..MaxRestarts
  BY ConstantsAssumption DEF Quantity
<1>3. LedgerTypeOK
  <2>1. control \in ControlType /\ worker \in [Workers -> WorkerType]
    BY <1>1, IdleType DEF ControlType, Stopped
  <2>2. intents \in [Signals -> IntentType]
    BY <1>2 DEF Init, NoRow, IntentType
  <2>3. /\ held \in [Signals -> {"none", "HELD", "RELEASED"}]
        /\ fills \in [Signals -> Quantity] /\ calls \in [Signals -> Nat]
        /\ day \in 1..MaxDay /\ restarts \in 0..MaxRestarts
        /\ barred \in [plane : BOOLEAN, orders : SUBSET Signals]
    BY <1>2 DEF Init
  <2>4. venue \in [Signals -> VenueType]
    BY <1>2 DEF Init, VenueType
  <2>5. QED
    BY <2>1, <2>2, <2>3, <2>4 DEF LedgerTypeOK
<1>4. ASSUME NEW s \in Signals
      PROVE  RowOK(s) /\ VenueOK(s)
  BY DEF Init, NoRow, RowOK, VenueOK, Terminal
<1>5. ASSUME NEW w \in Workers
      PROVE  PreCallOK(w) /\ AnswerOK(w) /\ PassOK(w)
  BY <1>1 DEF Idle, NoRows, PreCallOK, PreCall, AnswerOK, Carries, PassOK
<1>6. QED
  BY <1>3, <1>4, <1>5 DEF InductiveInvariant, CallsAccounted

(* Every step keeps the inductive invariant.                                *)
LEMMA NextKeeps == InductiveInvariant /\ [Next]_vars => InductiveInvariant'
<1> SUFFICES ASSUME InductiveInvariant, [Next]_vars
             PROVE  InductiveInvariant'
  OBVIOUS
<1>1. ASSUME NEW w \in Workers, SubmitSignal(w)
      PROVE  InductiveInvariant'
  BY <1>1, RejectSignalKeeps, ReserveAndSendKeeps DEF SubmitSignal
<1>2. ASSUME NEW w \in Workers, SubmitStep(w)
      PROVE  InductiveInvariant'
  BY <1>2, ExpireUnsentKeeps, ClaimKeeps, FirstFenceKeeps, FinalSubmitFenceKeeps,
     NetworkSubmitKeeps, AcknowledgedKeeps, AmbiguousKeeps DEF SubmitStep
<1>3. ASSUME NEW w \in Workers, LedgerStep(w)
      PROVE  InductiveInvariant'
  BY <1>3, ApplyOrderResultKeeps, RecomputePositionKeeps, UnknownFeePauseKeeps,
     ReleaseKeeps DEF LedgerStep
<1>4. ASSUME NEW w \in Workers, ReconcileStep(w)
      PROVE  InductiveInvariant'
  BY <1>4, ReleaseFilledKeeps, QueryMissingKeeps, QueryUnresolvedKeeps,
     QueryAnsweredKeeps, TradesFailureKeeps, IngestFillsKeeps, ReapplyKeeps,
     EndRowsKeeps, RecomputeOneKeeps, EndReconcileKeeps DEF ReconcileStep
<1>5. ASSUME NEW w \in Workers, OtherCall(w)
      PROVE  InductiveInvariant'
  BY <1>5, CancelKeeps, CancelFailureKeeps, CancelUnknownKeeps, MarkKeeps,
     AccountKeeps DEF OtherCall
<1>6. ASSUME NEW w \in Workers, StartReconcile(w) \/ AccountFailure(w) \/ Restart(w)
      PROVE  InductiveInvariant'
  BY <1>6, StartReconcileKeeps, AccountKeeps, RestartKeeps
<1>7. CASE OperatorStep \/ NewDay
  BY <1>7, OperatorStepKeeps, NewDayKeeps
<1>8. CASE VenueStep
  BY <1>8, VenueOrderKeeps, VenueResetKeeps DEF VenueStep
<1>9. CASE UNCHANGED vars
  <2>1. Still /\ UNCHANGED <<control, day, barred, restarts, worker>>
    BY <1>9 DEF vars, Still
  <2>2. QED
    BY <2>1, NothingMoves DEF InductiveInvariant, LedgerTypeOK
<1>10. QED
  BY <1>1, <1>2, <1>3, <1>4, <1>5, <1>6, <1>7, <1>8, <1>9 DEF Next

(* The inductive invariant holds in every reachable state: what rows,      *)
(* reservations, calls and answers in hand say of the venue is true.       *)
THEOREM InvariantHolds == Spec => []InductiveInvariant
  BY InitHolds, NextKeeps, PTL DEF Spec

(* Every row, reservation, order and local of a worker keeps its type.     *)
THEOREM TypesHold == Spec => []LedgerTypeOK
<1>1. InductiveInvariant => LedgerTypeOK
  BY DEF InductiveInvariant
<1>2. QED
  BY <1>1, InvariantHolds, PTL

(* submit_signal sends a signal to the venue at most once, for any number  *)
(* of workers, process deaths, timeouts and control changes.               *)
THEOREM SubmittedAtMostOnce == Spec => []AtMostOnceSubmission
<1>1. InductiveInvariant => AtMostOnceSubmission
  BY DEF InductiveInvariant, LedgerTypeOK, CallsAccounted, VenueOK, AtMostOnceSubmission
<1>2. QED
  BY <1>1, InvariantHolds, PTL

(* Until the venue ends an order its reservation is held: no timeout,      *)
(* missing answer, crash or other worker releases the risk of a live order.*)
THEOREM OpenOrdersReserved == Spec => []OpenOrdersAreReserved
<1>1. InductiveInvariant => OpenOrdersAreReserved
  BY DEF InductiveInvariant, LedgerTypeOK, CallsAccounted, RowOK, OpenOrdersAreReserved
<1>2. QED
  BY <1>1, InvariantHolds, PTL

-----------------------------------------------------------------------------
(***************************************************************************)
(* That the generation of the control row keeps revoked orders from the    *)
(* venue: what an operator's change caught before its final fence is never *)
(* sent, and a barred TESTNET plane sends nothing.                         *)
(***************************************************************************)

(* What a step that is neither an operator's nor a new row leaves true      *)

ControlMoves ==
    /\ control.generation <= control'.generation
    /\ control'.state = "ARMED" => control.state = "ARMED"

RowsStay ==
    \A s \in Signals :
        /\ intents'[s].generation = intents[s].generation
        /\ intents[s].state # "none" => intents'[s].state # "none"

(* No worker gets on its way to the venue, or past its final fence.         *)
NoneSetsOut ==
    \A v \in Workers : worker'[v].pc \in PreCall =>
        worker[v].pc \in PreCall /\ worker'[v].sig = worker[v].sig

NonePasses == \A v \in Workers : ~PassesFinalFence(v)

Orderly == barred' = barred /\ ControlMoves /\ RowsStay /\ NoneSetsOut

(* Such a step keeps the control invariant.                                 *)
LEMMA OrderlyKeeps ==
    ASSUME InductiveInvariant, InductiveInvariant', ControlInvariant, Orderly
    PROVE  ControlInvariant'
<1>1. /\ control.generation \in Nat /\ control'.generation \in Nat
      /\ \A s \in Signals : intents[s].generation \in Nat
      /\ barred.orders \subseteq Signals
  BY DEF InductiveInvariant, LedgerTypeOK, ControlType, IntentType
<1>2. GenerationsOrdered'
  BY <1>1 DEF Orderly, ControlMoves, RowsStay, ControlInvariant, GenerationsOrdered
<1>3. RevokedAreStale'
  BY <1>1 DEF Orderly, ControlMoves, RowsStay, ControlInvariant, RevokedAreStale
<1>4. ASSUME Environment = "TESTNET", barred'.plane,
             NEW w \in Workers, worker'[w].pc \in PreCall
      PROVE  intents'[worker'[w].sig].generation < control'.generation
  <2>1. worker[w].pc \in PreCall /\ worker'[w].sig = worker[w].sig
    BY <1>4 DEF Orderly, NoneSetsOut
  <2>2. worker[w].sig \in Signals
    BY <2>1 DEF InductiveInvariant, CallsAccounted, PreCallOK
  <2>3. intents[worker[w].sig].generation < control.generation
    BY <1>4, <2>1 DEF Orderly, ControlInvariant, BarredAreStale
  <2>4. QED
    BY <1>1, <2>1, <2>2, <2>3 DEF Orderly, ControlMoves, RowsStay
<1>5. BarredAreStale'
  BY <1>4 DEF Orderly, ControlMoves, ControlInvariant, BarredAreStale
<1>6. QED
  BY <1>2, <1>3, <1>5 DEF ControlInvariant

(* _set_control moves the generation on; an automatic one never arms.       *)
LEMMA SetControlMoves ==
    ASSUME control \in ControlType, NEW reset, SetControl("PAUSED", reset)
    PROVE  ControlMoves
<1>1. /\ control'.generation = control.generation + 1
      /\ control'.state = "PAUSED"
  BY DEF SetControl, ControlType
<1>2. QED
  BY <1>1 DEF ControlMoves, ControlType

(* An untouched control row moves in this sense, too.                       *)
LEMMA SameControlMoves ==
    ASSUME control \in ControlType, UNCHANGED control
    PROVE  ControlMoves
  BY DEF ControlMoves, ControlType

(* Rows as they were, or one that became UNKNOWN.                           *)
LEMMA SetUnknownStays ==
    ASSUME LedgerTypeOK, NEW s \in Signals, SetUnknown(s) \/ UNCHANGED intents
    PROVE  RowsStay
<1>1. CASE UNCHANGED intents
  BY <1>1 DEF RowsStay
<1>2. CASE SetUnknown(s)
  <2>1. intents \in [Signals -> IntentType] /\ intents[s] \in IntentType
    BY DEF LedgerTypeOK
  <2>2. CASE intents[s].state \in Terminal
    BY <1>2, <2>1, <2>2 DEF SetUnknown, RowsStay
  <2>3. CASE intents[s].state \notin Terminal
    <3>1. intents' = [intents EXCEPT ![s] =
                        [@ EXCEPT !.state = "UNKNOWN", !.cumulative = 0]]
      BY <1>2, <2>1, <2>3 DEF SetUnknown
    <3>2. \A t \in Signals \ {s} : intents'[t] = intents[t]
      BY <2>1, <3>1
    <3>3. intents'[s].generation = intents[s].generation /\ intents'[s].state = "UNKNOWN"
      BY <2>1, <3>1 DEF IntentType
    <3>4. QED
      BY <3>2, <3>3 DEF RowsStay
  <2>4. QED
    BY <2>2, <2>3
<1>3. QED
  BY <1>1, <1>2

(* The worker whose step it is ends outside the way to the venue.           *)
LEMMA OneWorkerAside ==
    ASSUME NEW w \in Workers, \A v \in Workers \ {w} : worker'[v] = worker[v],
           worker'[w].pc \notin PreCall
    PROVE  NoneSetsOut /\ NonePasses
  BY DEF NoneSetsOut, NonePasses, PassesFinalFence, PreCall

(* So does one that returns from its call.                                  *)
LEMMA ReturnAside ==
    ASSUME LedgerTypeOK, NEW w \in Workers, Return(w)
    PROVE  NoneSetsOut /\ NonePasses
<1>1. /\ \A v \in Workers \ {w} : worker'[v] = worker[v]
      /\ worker'[w].pc = "idle"
  BY DEF Return, Idle, LedgerTypeOK
<1>2. QED
  BY <1>1, OneWorkerAside DEF PreCall

(* Or that goes on to a step behind the venue call.                         *)
LEMMA GotoAside ==
    ASSUME LedgerTypeOK, NEW w \in Workers, NEW pc, pc \notin PreCall, Goto(w, pc)
    PROVE  NoneSetsOut /\ NonePasses
<1>1. /\ \A v \in Workers \ {w} : worker'[v] = worker[v]
      /\ worker'[w].pc = pc
  BY DEF Goto, LedgerTypeOK, WorkerType
<1>2. QED
  BY <1>1, OneWorkerAside

(* A step no worker takes.                                                  *)
LEMMA NoWorkerAside ==
    ASSUME UNCHANGED worker
    PROVE  NoneSetsOut /\ NonePasses
  BY DEF NoneSetsOut, NonePasses, PassesFinalFence

-----------------------------------------------------------------------------
(* The steps of a submission                                                *)

(* The way to the venue, but for the final fence.                           *)
LEMMA SubmitStepOrderly ==
    ASSUME InductiveInvariant, NEW w \in Workers,
           \/ ExpireUnsent(w) \/ Claim(w) \/ FirstFence(w) \/ NetworkSubmit(w)
           \/ Acknowledged(w) \/ Ambiguous(w)
    PROVE  Orderly /\ NonePasses
<1>1. LedgerTypeOK /\ control \in ControlType
  BY DEF InductiveInvariant, LedgerTypeOK
<1>2. PICK s \in Signals : s = worker[w].sig
  BY DEF ExpireUnsent, Claim, FirstFence, NetworkSubmit, Acknowledged, Ambiguous, PreCall,
     InductiveInvariant, CallsAccounted, PreCallOK, PassOK
<1>3. barred' = barred /\ UNCHANGED control
  BY DEF ExpireUnsent, Claim, FirstFence, FenceRejected, NetworkSubmit, Acknowledged, Ambiguous
<1>4. ControlMoves
  BY <1>1, <1>3, SameControlMoves
<1>5. RowsStay
  <2>1. CASE ExpireUnsent(w) \/ Claim(w)
    BY <1>1, <1>2, <2>1 DEF ExpireUnsent, Claim, RowsStay, LedgerTypeOK, IntentType
  <2>2. CASE SetUnknown(s) \/ UNCHANGED intents
    BY <1>1, <2>2, SetUnknownStays
  <2>3. QED
    BY <1>2, <2>1, <2>2 DEF FirstFence, FenceRejected, NetworkSubmit, Acknowledged,
       Ambiguous, ledger
<1>6. NoneSetsOut /\ NonePasses
  <2>1. CASE Return(w)
    BY <1>1, <2>1, ReturnAside
  <2>2. CASE Goto(w, "await")
    BY <1>1, <2>2, GotoAside DEF PreCall
  <2>3. ASSUME NEW pc \in {"fence", "final"}, Goto(w, pc), worker[w].pc \in PreCall
        PROVE  NoneSetsOut /\ NonePasses
    BY <1>1, <2>3 DEF Goto, LedgerTypeOK, WorkerType, NoneSetsOut, NonePasses,
       PassesFinalFence, PreCall
  <2>4. CASE Acknowledged(w) /\ ~Return(w)
    <3>1. /\ \A v \in Workers \ {w} : worker'[v] = worker[v]
          /\ worker'[w].pc = "apply"
      BY <1>1, <2>4 DEF Acknowledged, LedgerTypeOK, WorkerType
    <3>2. QED
      BY <3>1, OneWorkerAside DEF PreCall
  <2>5. QED
    BY <2>1, <2>2, <2>3, <2>4 DEF ExpireUnsent, Claim, FirstFence, FenceRejected,
       NetworkSubmit, Ambiguous, PreCall
<1>7. QED
  BY <1>3, <1>4, <1>5, <1>6 DEF Orderly

(* The final fence: an order passes it only under the current generation.   *)
LEMMA FinalFenceOrderly ==
    ASSUME InductiveInvariant, NEW w \in Workers, FinalSubmitFence(w)
    PROVE  /\ Orderly
           /\ \A v \in Workers : PassesFinalFence(v) =>
                /\ worker[v].pc \in PreCall /\ worker[v].sig \in Signals
                /\ control.generation = intents[worker[v].sig].generation
<1>1. LedgerTypeOK /\ control \in ControlType
  BY DEF InductiveInvariant, LedgerTypeOK
<1>2. worker[w].pc \in PreCall /\ worker[w].sig \in Signals
  BY DEF FinalSubmitFence, PreCall, InductiveInvariant, CallsAccounted, PreCallOK
<1>3. barred' = barred /\ UNCHANGED control
  BY DEF FinalSubmitFence, FenceRejected
<1>4. ControlMoves
  BY <1>1, <1>3, SameControlMoves
<1>5. RowsStay
  <2>1. SetUnknown(worker[w].sig) \/ UNCHANGED intents
    BY DEF FinalSubmitFence, FenceRejected, ledger
  <2>2. QED
    BY <1>1, <1>2, <2>1, SetUnknownStays
<1>6. CASE Return(w)
  BY <1>1, <1>3, <1>4, <1>5, <1>6, ReturnAside DEF Orderly, NonePasses
<1>7. CASE Goto(w, "call") /\ Fence(w, worker[w].sig)
  <2>1. /\ \A v \in Workers \ {w} : worker'[v] = worker[v]
        /\ worker'[w].sig = worker[w].sig
    BY <1>1, <1>7 DEF Goto, LedgerTypeOK, WorkerType
  <2>2. NoneSetsOut
    BY <1>2, <2>1 DEF NoneSetsOut
  <2>3. QED
    BY <1>2, <1>3, <1>4, <1>5, <1>7, <2>1, <2>2 DEF Orderly, PassesFinalFence, Fence
<1>8. QED
  BY <1>6, <1>7 DEF FinalSubmitFence, FenceRejected

-----------------------------------------------------------------------------
(* Answers, passes and the other calls                                      *)

(* A step behind the venue call whose rows stay and whose control row is    *)
(* untouched or paused by the service itself.                               *)
LEMMA AsideIsOrderly ==
    ASSUME InductiveInvariant, barred' = barred, RowsStay, NoneSetsOut,
           UNCHANGED control \/ \E reset \in BOOLEAN : SetControl("PAUSED", reset)
    PROVE  Orderly
<1>1. control \in ControlType
  BY DEF InductiveInvariant, LedgerTypeOK
<1>2. QED
  BY <1>1, SetControlMoves, SameControlMoves DEF Orderly

(* Applied answers, ingested trades, recomputed positions, releases.        *)
LEMMA LedgerStepOrderly ==
    ASSUME InductiveInvariant, InductiveInvariant', NEW w \in Workers,
           LedgerStep(w) \/ IngestFills(w)
    PROVE  Orderly /\ NonePasses
<1>1. LedgerTypeOK /\ worker[w] \in WorkerType
  BY DEF InductiveInvariant, LedgerTypeOK
<1>2. barred' = barred /\ (UNCHANGED control \/ SetControl("PAUSED", FALSE))
  BY DEF LedgerStep, ApplyOrderResult, RecomputePosition, UnknownFeePause, Release, IngestFills
<1>3. RowsStay
  <2>1. CASE ApplyOrderResult(w) \/ IngestFills(w)
    <3>1. Carries(w) /\ UNCHANGED held
      BY <2>1 DEF ApplyOrderResult, IngestFills, Carries
    <3>2. PICK s \in Signals : s = worker[w].sig
      BY <3>1 DEF InductiveInvariant, CallsAccounted, AnswerOK
    <3>3. /\ \A t \in Signals \ {s} : intents'[t] = intents[t]
          /\ intents'[s].generation = intents[s].generation
      <4>1. intents \in [Signals -> IntentType] /\ intents[s] \in IntentType
        BY <1>1 DEF LedgerTypeOK
      <4>2. ASSUME NEW state, intents' = [intents EXCEPT ![s].state = state]
            PROVE  /\ \A t \in Signals \ {s} : intents'[t] = intents[t]
                   /\ intents'[s].generation = intents[s].generation
        BY <4>1, <4>2 DEF IntentType
      <4>3. ASSUME NEW state, NEW n,
                   intents' = [intents EXCEPT ![s].state = state, ![s].cumulative = n]
            PROVE  /\ \A t \in Signals \ {s} : intents'[t] = intents[t]
                   /\ intents'[s].generation = intents[s].generation
        BY <4>1, <4>3 DEF IntentType
      <4>4. \/ UNCHANGED intents
            \/ \E state : intents' = [intents EXCEPT ![s].state = state]
            \/ \E state, n :
                    intents' = [intents EXCEPT ![s].state = state, ![s].cumulative = n]
        <5>1. CASE ApplyOrderResult(w)
          BY <3>2, <5>1, Zenon DEF ApplyOrderResult
        <5>2. CASE IngestFills(w)
          <6>1. PICK listed \in 0..venue[s].filled :
                    LET covered == Covered(s, listed)
                        observed == IF covered >= intents[s].qty
                                      THEN "FILLED" ELSE "PARTIALLY_FILLED"
                    IN  IF covered > fills[s]
                          THEN intents' = [intents EXCEPT ![s].state =
                                MergeOrderState(intents[s].state, observed,
                                                intents[s].qty, covered)]
                          ELSE UNCHANGED intents
            BY <3>2, <5>2, Zenon DEF IngestFills
          <6>2. CASE Covered(s, listed) > fills[s]
            BY <6>1, <6>2, Zenon
          <6>3. CASE ~(Covered(s, listed) > fills[s])
            BY <6>1, <6>3, Zenon
          <6>4. QED
            BY <6>2, <6>3
        <5>3. QED
          BY <2>1, <5>1, <5>2
      <4>5. QED
        BY <4>2, <4>3, <4>4
    <3>4. held'[s] # "none" /\ RowOK(s)'
      BY <3>1, <3>2, CarriedFacts DEF InductiveInvariant, CallsAccounted
    <3>5. intents'[s].state # "none"
      BY <3>4 DEF RowOK
    <3>6. QED
      BY <3>3, <3>5 DEF RowsStay
  <2>2. CASE UNCHANGED intents
    BY <2>2 DEF RowsStay
  <2>3. QED
    BY <2>1, <2>2 DEF LedgerStep, RecomputePosition, UnknownFeePause, Release, ledger
<1>4. NoneSetsOut /\ NonePasses
  <2>1. CASE Return(w)
    BY <1>1, <2>1, ReturnAside
  <2>2. ASSUME NEW pc \in {"release", "apply", "positions", "idle", "feepause", "reapply",
                           "trades", "rows"}, Goto(w, pc)
        PROVE  NoneSetsOut /\ NonePasses
    BY <1>1, <2>2, GotoAside DEF PreCall
  <2>3. CASE ApplyOrderResult(w) \/ (IngestFills(w) /\ ~Goto(w, "reapply"))
    <3>1. /\ \A v \in Workers \ {w} : worker'[v] = worker[v]
          /\ worker'[w].pc \in {"recompute", "release"}
      BY <1>1, <2>3 DEF ApplyOrderResult, IngestFills, LedgerTypeOK, WorkerType
    <3>2. QED
      BY <3>1, OneWorkerAside DEF PreCall
  <2>4. worker[w].then \in {"release", "apply", "positions", "idle"}
        /\ worker[w].after \in {"idle", "trades", "reapply", "rows"}
    BY <1>1 DEF WorkerType
  <2>5. QED
    BY <2>1, <2>2, <2>3, <2>4 DEF LedgerStep, RecomputePosition, UnknownFeePause, Release
<1>5. QED
  BY <1>2, <1>3, <1>4, AsideIsOrderly

(* The other steps of a pass.                                               *)
LEMMA ReconcileStepOrderly ==
    ASSUME InductiveInvariant, InductiveInvariant', NEW w \in Workers, ReconcileStep(w)
    PROVE  Orderly /\ NonePasses
<1>1. CASE IngestFills(w)
  BY <1>1, LedgerStepOrderly
<1>2. CASE ~IngestFills(w)
  <2>1. LedgerTypeOK /\ worker[w] \in WorkerType
    BY DEF InductiveInvariant, LedgerTypeOK
  <2>2. /\ barred' = barred
        /\ UNCHANGED control \/ \E reset \in BOOLEAN : SetControl("PAUSED", reset)
    BY <1>2 DEF ReconcileStep, ReleaseFilled, QueryMissing, QueryUnresolved, QueryAnswered,
       TradesFailure, Reapply, EndRows, RecomputeOne, EndReconcile
  <2>3. RowsStay
    <3>1. UNCHANGED intents \/ \E s \in Signals : SetUnknown(s)
      BY <1>2 DEF ReconcileStep, ReleaseFilled, QueryMissing, QueryUnresolved,
         QueryAnswered, TradesFailure, Reapply, EndRows, RecomputeOne, EndReconcile, ledger
    <3>2. CASE UNCHANGED intents
      BY <3>2 DEF RowsStay
    <3>3. ASSUME NEW s \in Signals, SetUnknown(s)
          PROVE  RowsStay
      BY <2>1, <3>3, SetUnknownStays
    <3>4. QED
      BY <3>1, <3>2, <3>3
  <2>4. NoneSetsOut /\ NonePasses
    <3>1. CASE Return(w)
      BY <2>1, <3>1, ReturnAside
    <3>2. CASE UNCHANGED worker
      BY <3>2, NoWorkerAside
    <3>3. ASSUME NEW s \in Signals, worker[w].pc = "rows",
                 \/ Skip(w, s) \/ Fail(w, s)
                 \/ worker' = [worker EXCEPT ![w].rows[s] = NoRows[s], ![w].missing = TRUE]
          PROVE  NoneSetsOut /\ NonePasses
      <4>1. /\ \A v \in Workers \ {w} : worker'[v] = worker[v]
            /\ worker'[w].pc = "rows"
        BY <2>1, <3>3 DEF Skip, Fail, LedgerTypeOK, WorkerType
      <4>2. QED
        BY <4>1, OneWorkerAside DEF PreCall
    <3>4. ASSUME NEW s \in Signals, QueryAnswered(w, s)
          PROVE  NoneSetsOut /\ NonePasses
      <4>1. /\ \A v \in Workers \ {w} : worker'[v] = worker[v]
            /\ worker'[w].pc = "apply"
        BY <2>1, <3>4 DEF QueryAnswered, LedgerTypeOK, WorkerType
      <4>2. QED
        BY <4>1, OneWorkerAside DEF PreCall
    <3>5. CASE TradesFailure(w) \/ Reapply(w) \/ EndRows(w)
      <4>1. /\ \A v \in Workers \ {w} : worker'[v] = worker[v]
            /\ worker'[w].pc \in {"rows", "recompute", "positions"}
        BY <2>1, <3>5 DEF TradesFailure, Reapply, EndRows, LedgerTypeOK, WorkerType
      <4>2. QED
        BY <4>1, OneWorkerAside DEF PreCall
    <3>6. ASSUME NEW sym \in Symbols, RecomputeOne(w, sym)
          PROVE  NoneSetsOut /\ NonePasses
      <4>1. /\ \A v \in Workers \ {w} : worker'[v] = worker[v]
            /\ worker'[w].pc \in {"positions", "feepause"}
        BY <2>1, <3>6 DEF RecomputeOne, LedgerTypeOK, WorkerType
      <4>2. QED
        BY <4>1, OneWorkerAside DEF PreCall
    <3>7. QED
      BY <1>2, <3>1, <3>2, <3>3, <3>4, <3>5, <3>6 DEF ReconcileStep, ReleaseFilled,
         QueryMissing, QueryUnresolved, NextRow, EndReconcile
  <2>5. QED
    BY <2>2, <2>3, <2>4, AsideIsOrderly
<1>3. QED
  BY <1>1, <1>2


(* cancel, mark, the account, the start of a pass.                          *)
LEMMA OtherCallOrderly ==
    ASSUME InductiveInvariant, NEW w \in Workers,
           OtherCall(w) \/ StartReconcile(w) \/ AccountFailure(w)
    PROVE  Orderly /\ NonePasses
<1>1. LedgerTypeOK /\ worker[w] \in WorkerType
  BY DEF InductiveInvariant, LedgerTypeOK
<1>2. /\ barred' = barred
      /\ UNCHANGED control \/ \E reset \in BOOLEAN : SetControl("PAUSED", reset)
  BY DEF OtherCall, Cancel, CancelFailure, CancelUnknown, Mark, UpdateAccount,
     StartReconcile, AccountFailure
<1>3. RowsStay
  <2>1. CASE CancelUnknown(w)
    <3>1. worker[w].sig \in Signals
      BY <2>1 DEF CancelUnknown, InductiveInvariant, CallsAccounted, PassOK
    <3>2. QED
      BY <1>1, <2>1, <3>1, SetUnknownStays DEF CancelUnknown
  <2>2. CASE UNCHANGED intents
    BY <2>2 DEF RowsStay
  <2>3. QED
    BY <2>1, <2>2 DEF OtherCall, Cancel, CancelFailure, Mark, UpdateAccount,
       StartReconcile, AccountFailure, ledger
<1>4. NoneSetsOut /\ NonePasses
  <2>1. CASE UNCHANGED worker
    BY <2>1, NoWorkerAside
  <2>2. CASE Return(w)
    BY <1>1, <2>2, ReturnAside
  <2>3. ASSUME NEW s \in Signals, Cancel(w, s) \/ CancelFailure(w, s)
        PROVE  NoneSetsOut /\ NonePasses
    <3>1. /\ \A v \in Workers \ {w} : worker'[v] = worker[v]
          /\ worker'[w].pc \in {"apply", "cancelfail"}
      <4>1. CASE Cancel(w, s)
        BY <1>1, <4>1 DEF Cancel, LedgerTypeOK, WorkerType
      <4>2. CASE CancelFailure(w, s)
        BY <1>1, <4>2 DEF CancelFailure, LedgerTypeOK, WorkerType
      <4>3. QED
        BY <2>3, <4>1, <4>2
    <3>2. QED
      BY <3>1, OneWorkerAside DEF PreCall
  <2>4. CASE worker' = [worker EXCEPT ![w].pc = "feepause", ![w].then = "idle"]
    <3>1. /\ \A v \in Workers \ {w} : worker'[v] = worker[v]
          /\ worker'[w].pc = "feepause"
      BY <1>1, <2>4 DEF LedgerTypeOK, WorkerType
    <3>2. QED
      BY <3>1, OneWorkerAside DEF PreCall
  <2>5. CASE StartReconcile(w)
    <3>1. /\ \A v \in Workers \ {w} : worker'[v] = worker[v]
          /\ worker'[w].pc = "rows"
      BY <1>1, <2>5 DEF StartReconcile, LedgerTypeOK, WorkerType
    <3>2. QED
      BY <3>1, OneWorkerAside DEF PreCall
  <2>6. QED
    BY <2>1, <2>2, <2>3, <2>4, <2>5 DEF OtherCall, CancelUnknown, Mark, UpdateAccount,
       AccountFailure
<1>5. QED
  BY <1>2, <1>3, <1>4, AsideIsOrderly

(* The venue, midnight, and no step at all.                                 *)
LEMMA OutsideOrderly ==
    ASSUME InductiveInvariant, VenueStep \/ NewDay \/ UNCHANGED vars
    PROVE  Orderly /\ NonePasses
<1>1. UNCHANGED <<control, intents, barred, worker>>
  BY DEF VenueStep, VenueAccepts, VenueFills, VenueEnds, VenueReset, NewDay, vars, ledger
<1>2. RowsStay
  BY <1>1 DEF RowsStay
<1>3. QED
  BY <1>1, <1>2, NoWorkerAside, AsideIsOrderly

(* A process that comes back is idle; a new identity disables the plane.    *)
LEMMA RestartOrderly ==
    ASSUME InductiveInvariant, NEW w \in Workers, Restart(w)
    PROVE  Orderly /\ NonePasses
<1>1. /\ worker \in [Workers -> WorkerType] /\ control \in ControlType
      /\ control.generation \in Nat
  BY DEF InductiveInvariant, LedgerTypeOK, ControlType
<1>2. PICK i \in Identities :
        /\ worker' = [worker EXCEPT ![w] = Idle(i)]
        /\ \/ UNCHANGED control
           \/ control' = [control EXCEPT !.state = "DISABLED", !.authorized = FALSE,
                                         !.generation = @ + 1, !.identity = i]
  BY DEF Restart
<1>3. ControlMoves
  <2>1. CASE UNCHANGED control
    BY <1>1, <2>1, SameControlMoves
  <2>2. CASE ~UNCHANGED control
    <3>1. /\ control'.generation = control.generation + 1
          /\ control'.state = "DISABLED"
      BY <1>1, <1>2, <2>2 DEF ControlType
    <3>2. QED
      BY <1>1, <3>1 DEF ControlMoves
  <2>3. QED
    BY <2>1, <2>2
<1>4. /\ \A v \in Workers \ {w} : worker'[v] = worker[v]
      /\ worker'[w].pc = "idle"
  BY <1>1, <1>2 DEF Idle
<1>5. NoneSetsOut /\ NonePasses
  BY <1>4, OneWorkerAside DEF PreCall
<1>6. barred' = barred /\ RowsStay
  BY DEF Restart, RowsStay, ledger
<1>7. QED
  BY <1>3, <1>5, <1>6 DEF Orderly

-----------------------------------------------------------------------------
(* Operators and new rows                                                   *)

(* PAUSE, DISARM and KILL make every row older than the control row.        *)
LEMMA OperatorKeeps ==
    ASSUME InductiveInvariant, ControlInvariant,
           NEW state \in {"PAUSED", "DISARMED", "KILLED"}, Operator(state)
    PROVE  ControlInvariant'
<1>1. /\ control.generation \in Nat
      /\ \A s \in Signals : intents[s].generation \in Nat
      /\ barred \in [plane : BOOLEAN, orders : SUBSET Signals]
  BY DEF InductiveInvariant, LedgerTypeOK, ControlType, IntentType
<1>2. /\ control'.generation = control.generation + 1 /\ control'.state = state
      /\ UNCHANGED <<intents, worker>>
  BY DEF Operator, SetControl, ledger, InductiveInvariant, LedgerTypeOK, ControlType
<1>3. \A s \in Signals : intents'[s].generation < control'.generation
  BY <1>1, <1>2 DEF ControlInvariant, GenerationsOrdered
<1>4. GenerationsOrdered'
  BY <1>1, <1>2, <1>3 DEF GenerationsOrdered
<1>5. \A s \in barred'.orders : s \in Signals /\ intents'[s].state # "none"
  BY <1>1, <1>2 DEF Operator, ControlInvariant, RevokedAreStale
<1>6. RevokedAreStale'
  BY <1>3, <1>5 DEF RevokedAreStale
<1>7. \A w \in Workers : worker'[w].pc \in PreCall => worker'[w].sig \in Signals
  BY <1>2 DEF InductiveInvariant, CallsAccounted, PreCallOK
<1>8. BarredAreStale'
  BY <1>2, <1>3, <1>7 DEF BarredAreStale
<1>9. QED
  BY <1>4, <1>6, <1>8 DEF ControlInvariant

(* So does enabling the plane, which is then no longer barred.              *)
LEMMA EnableKeeps ==
    ASSUME InductiveInvariant, ControlInvariant, NEW w \in Workers, EnableAutoCanary(w)
    PROVE  ControlInvariant'
<1>1. /\ control.generation \in Nat
      /\ \A s \in Signals : intents[s].generation \in Nat
      /\ barred \in [plane : BOOLEAN, orders : SUBSET Signals]
  BY DEF InductiveInvariant, LedgerTypeOK, ControlType, IntentType
<1>2. /\ control'.generation = control.generation + 1
      /\ barred'.orders = barred.orders /\ ~barred'.plane
      /\ UNCHANGED <<intents, worker>>
  BY <1>1 DEF EnableAutoCanary, ledger
<1>3. GenerationsOrdered'
  BY <1>1, <1>2 DEF ControlInvariant, GenerationsOrdered
<1>4. RevokedAreStale'
  BY <1>1, <1>2 DEF ControlInvariant, RevokedAreStale
<1>5. QED
  BY <1>2, <1>3, <1>4 DEF ControlInvariant, BarredAreStale

(* A burned signal id.                                                      *)
LEMMA RejectSignalControl ==
    ASSUME InductiveInvariant, ControlInvariant,
           NEW w \in Workers, NEW s \in Signals, RejectSignal(w, s)
    PROVE  ControlInvariant' /\ NonePasses
<1>1. /\ control.generation \in Nat /\ intents \in [Signals -> IntentType]
      /\ barred.orders \subseteq Signals
  BY DEF InductiveInvariant, LedgerTypeOK, ControlType
<1>2. UNCHANGED <<control, barred, worker>> /\ intents[s].state = "none"
  BY DEF RejectSignal, Fresh
<1>3. /\ \A t \in Signals \ {s} : intents'[t] = intents[t]
      /\ intents'[s].generation = control.generation
  BY <1>1 DEF RejectSignal, NoRow
<1>4. GenerationsOrdered'
  BY <1>1, <1>2, <1>3 DEF ControlInvariant, GenerationsOrdered
<1>5. RevokedAreStale'
  BY <1>1, <1>2, <1>3 DEF ControlInvariant, RevokedAreStale
<1>6. ASSUME NEW v \in Workers, worker[v].pc \in PreCall
      PROVE  worker[v].sig \in Signals \ {s}
  BY <1>2, <1>6 DEF InductiveInvariant, CallsAccounted, PreCallOK, RowOK
<1>7. BarredAreStale'
  BY <1>2, <1>3, <1>6 DEF ControlInvariant, BarredAreStale
<1>8. QED
  BY <1>2, <1>4, <1>5, <1>7, NoWorkerAside DEF ControlInvariant

(* A new order: never on a barred TESTNET plane, whose automatic pauses    *)
(* keep entries out by the control state and exits by the snapshot.         *)
LEMMA ReserveAndSendControl ==
    ASSUME InductiveInvariant, ControlInvariant, NEW w \in Workers, NEW s \in Signals,
           NEW q \in 1..MaxQuantity, ReserveAndSend(w, s, q)
    PROVE  ControlInvariant' /\ NonePasses
<1>1. /\ control.generation \in Nat /\ control.state \in Stopped \cup {"ARMED", "PAUSED"}
      /\ intents \in [Signals -> IntentType] /\ barred.orders \subseteq Signals
      /\ worker \in [Workers -> WorkerType] /\ Intent[s] \in {"ENTRY", "EXIT"}
  BY ConstantsAssumption DEF InductiveInvariant, LedgerTypeOK, ControlType
<1>2. UNCHANGED <<control, barred>> /\ intents[s].state = "none"
  BY DEF ReserveAndSend, Fresh
<1>3. /\ \A t \in Signals \ {s} : intents'[t] = intents[t]
      /\ intents'[s].generation = control.generation
  BY <1>1 DEF ReserveAndSend, NoRow
<1>4. /\ \A v \in Workers \ {w} : worker'[v] = worker[v]
      /\ worker'[w].pc = "claim"
  BY <1>1 DEF ReserveAndSend, WorkerType
<1>5. GenerationsOrdered'
  BY <1>1, <1>2, <1>3 DEF ControlInvariant, GenerationsOrdered
<1>6. RevokedAreStale'
  BY <1>1, <1>2, <1>3 DEF ControlInvariant, RevokedAreStale
<1>7. ASSUME Environment = "TESTNET", barred.plane
      PROVE  FALSE
  <2>1. control.state # "ARMED"
    BY <1>7 DEF ControlInvariant, BarredAreStale
  <2>2. control.state = "PAUSED" /\ Intent[s] = "EXIT"
    BY <1>1, <2>1 DEF ReserveAndSend, Blocked
  <2>3. AccountPaused
    BY <1>7, <2>2 DEF AccountPaused
  <2>4. QED
    BY <2>2, <2>3 DEF ReserveAndSend, AssessExit
<1>8. BarredAreStale'
  BY <1>2, <1>7 DEF BarredAreStale
<1>9. NonePasses
  BY <1>4 DEF NonePasses, PassesFinalFence
<1>10. QED
  BY <1>5, <1>6, <1>8, <1>9 DEF ControlInvariant

-----------------------------------------------------------------------------
(* Every step                                                               *)

(* Steps other than the final fence: the invariant stays, nothing passes.   *)
LEMMA OtherStepControl ==
    ASSUME InductiveInvariant, InductiveInvariant', ControlInvariant, [Next]_vars,
           \A w \in Workers : ~FinalSubmitFence(w)
    PROVE  ControlInvariant' /\ NonePasses
<1>1. CASE Orderly /\ NonePasses
  BY <1>1, OrderlyKeeps
<1>2. ASSUME NEW w \in Workers, SubmitSignal(w)
      PROVE  ControlInvariant' /\ NonePasses
  BY <1>2, RejectSignalControl, ReserveAndSendControl DEF SubmitSignal
<1>3. ASSUME NEW w \in Workers, SubmitStep(w)
      PROVE  Orderly /\ NonePasses
  BY <1>3, SubmitStepOrderly DEF SubmitStep
<1>4. ASSUME NEW w \in Workers,
             \/ LedgerStep(w) \/ ReconcileStep(w) \/ OtherCall(w) \/ StartReconcile(w)
             \/ AccountFailure(w) \/ Restart(w)
      PROVE  Orderly /\ NonePasses
  BY <1>4, LedgerStepOrderly, ReconcileStepOrderly, OtherCallOrderly, RestartOrderly
<1>5. CASE OperatorStep
  <2>1. UNCHANGED worker
    BY <1>5 DEF OperatorStep, EnableAutoCanary, Operator
  <2>2. QED
    BY <1>5, <2>1, EnableKeeps, OperatorKeeps, NoWorkerAside DEF OperatorStep
<1>6. CASE VenueStep \/ NewDay \/ UNCHANGED vars
  BY <1>1, <1>6, OutsideOrderly
<1>7. QED
  BY <1>1, <1>2, <1>3, <1>4, <1>5, <1>6 DEF Next

(* Every step keeps the control invariant, and lets an order past the final *)
(* fence only under the generation it was reserved under.                   *)
LEMMA StepControl ==
    ASSUME InductiveInvariant, InductiveInvariant', ControlInvariant, [Next]_vars
    PROVE  /\ ControlInvariant'
           /\ \A v \in Workers : PassesFinalFence(v) =>
                /\ worker[v].pc \in PreCall /\ worker[v].sig \in Signals
                /\ control.generation = intents[worker[v].sig].generation
<1>1. CASE \E w \in Workers : FinalSubmitFence(w)
  BY <1>1, FinalFenceOrderly, OrderlyKeeps
<1>2. CASE \A w \in Workers : ~FinalSubmitFence(w)
  BY <1>2, OtherStepControl DEF NonePasses
<1>3. QED
  BY <1>1, <1>2

(* The empty database: no rows, nothing barred.                             *)
LEMMA InitControl == Init => ControlInvariant
  BY DEF Init, ControlInvariant, GenerationsOrdered, RevokedAreStale, BarredAreStale, NoRow

(* The control invariant holds in every reachable state.                    *)
THEOREM ControlHolds == Spec => []ControlInvariant
<1>1. /\ InductiveInvariant /\ InductiveInvariant' /\ ControlInvariant /\ [Next]_vars
      => ControlInvariant'
  BY StepControl
<1>2. QED
  BY <1>1, InitControl, InvariantHolds, PTL DEF Spec

(* No order that PAUSE, DISARM or KILL caught before its final fence is     *)
(* ever sent, also after the plane is enabled again, in both environments.  *)
THEOREM RevokedStaysUnsent == Spec => RevokedNeverSent
<1>1. /\ InductiveInvariant /\ InductiveInvariant' /\ ControlInvariant /\ [Next]_vars
      => [\A w \in Workers : PassesFinalFence(w) => worker[w].sig \notin barred.orders]_vars
  <2> SUFFICES ASSUME InductiveInvariant, InductiveInvariant', ControlInvariant, [Next]_vars,
                      NEW w \in Workers, PassesFinalFence(w),
                      worker[w].sig \in barred.orders
               PROVE  FALSE
    OBVIOUS
  <2>1. control.generation = intents[worker[w].sig].generation /\ control.generation \in Nat
    BY StepControl DEF InductiveInvariant, LedgerTypeOK, ControlType
  <2>2. intents[worker[w].sig].generation < control.generation
    BY DEF ControlInvariant, RevokedAreStale
  <2>3. QED
    BY <2>1, <2>2
<1>2. QED
  BY <1>1, InvariantHolds, ControlHolds, PTL DEF Spec, RevokedNeverSent

(* On TESTNET nothing passes its final fence after DISARM or KILL until an  *)
(* operator enables the plane, whatever automatic pauses rewrite the row.   *)
THEOREM BarredPlaneSendsNothing ==
    ASSUME Environment = "TESTNET"
    PROVE  Spec => NoOrderWhileBarred
<1>1. /\ InductiveInvariant /\ InductiveInvariant' /\ ControlInvariant /\ [Next]_vars
      => [\A w \in Workers : PassesFinalFence(w) => ~barred.plane]_vars
  <2> SUFFICES ASSUME InductiveInvariant, InductiveInvariant', ControlInvariant, [Next]_vars,
                      NEW w \in Workers, PassesFinalFence(w), barred.plane
               PROVE  FALSE
    OBVIOUS
  <2>1. /\ worker[w].pc \in PreCall /\ control.generation \in Nat
        /\ control.generation = intents[worker[w].sig].generation
    BY StepControl DEF InductiveInvariant, LedgerTypeOK, ControlType
  <2>2. intents[worker[w].sig].generation < control.generation
    BY <2>1 DEF ControlInvariant, BarredAreStale
  <2>3. QED
    BY <2>1, <2>2
<1>2. QED
  BY <1>1, InvariantHolds, ControlHolds, PTL DEF Spec, NoOrderWhileBarred

=============================================================================
