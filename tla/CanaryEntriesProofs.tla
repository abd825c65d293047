------------------------- MODULE CanaryEntriesProofs -------------------------
(***************************************************************************)
(* The BUY path of the canary, proved for every set of signals, workers    *)
(* and operators and every bound.                                          *)
(***************************************************************************)
EXTENDS CanaryEntries, LedgerSums

\* w is in the middle of submit(s).
Busy(w, s) == worker[w].step # "idle" /\ worker[w].signal = s

\* No two processes work under the same lease generation.
LeasesApart ==
    /\ lease.current => lease.generation > 0
    /\ \A w \in Workers : worker[w].lease <= lease.generation
    /\ \A w, v \in Workers :
          w # v /\ worker[w].lease > 0 => worker[w].lease # worker[v].lease

\* One submit per signal at a time, replays of its reservation included.
Exclusive(s) ==
    /\ \A w, v \in Workers : Busy(w, s) /\ Busy(v, s) => w = v
    /\ \A w \in Workers : Busy(w, s) => reservation[s].status # "NONE"
    /\ \A w \in Workers : Busy(w, s) /\ signal[s] = "READY" =>
          worker[w].lease = reservation[s].lease
    /\ signal[s] = "READY" => ledger[s].status = "NONE" /\ ~attempt[s]

\* Before the attempt is recorded nothing has left.
Pristine(s) ==
    ~attempt[s] =>
        /\ transport[s].step = "none" /\ venue[s] = NoOrder /\ posts[s] = 0
        /\ reservation[s].filled = 0
        /\ reservation[s].status \in {"NONE", "HELD", "REJECTED"}

\* The order is not at the venue and its thread will not pass the last fence.
Dead(s) ==
    /\ venue[s].state = "NONE"
    /\ transport[s].step # "cleared"
    /\ ledger[s].status # "SUBMITTING"

\* What a submit may rely on at each of its steps.
StepOK(w, s) ==
    LET step == worker[w].step IN
    /\ step \in {"reserved", "inserted", "submitting", "releasing"} => ~attempt[s]
    /\ step \in {"inserted", "submitting"} => signal[s] # "READY"
    /\ step = "submitting" => ledger[s].status = "SUBMITTING"
    /\ step = "attempted" =>
          /\ attempt[s] /\ transport[s].step = "none" /\ posts[s] = 0
          /\ venue[s] = NoOrder /\ reservation[s].status = "SUBMITTING"
          /\ ledger[s].status = "SUBMITTING"
    /\ step = "waiting" => attempt[s] /\ transport[s].step # "none" /\ transport[s].worker = w
    /\ step \in {"closing", "tripping", "killing"} => attempt[s] /\ Dead(s)

\* What the thread may rely on, and what its answers mean.
ThreadOK(s) ==
    /\ transport[s].step \notin {"none", "done"} =>
          posts[s] = 0 /\ venue[s] = NoOrder
    /\ transport[s].step = "done" => transport[s].result # "NONE"
    /\ transport[s].step = "done" /\ transport[s].result \in {"REJECTED", "REFUSED"} =>
          venue[s].state = "NONE"
    /\ transport[s].step \in {"signed", "fenced", "started", "cleared"} =>
          ledger[s].generation = reservation[s].generation
    /\ posts[s] <= 1
    /\ transport[s].step = "cleared" \/ posts[s] > 0 =>
          cleared[s] = <<reservation[s].generation, reservation[s].lease>>

\* What is held for an order covers what it can still trade.
HeldOK(s) ==
    LET r == reservation[s] IN
    /\ r.status \in {"HELD", "SUBMITTING", "PARTIALLY_FILLED", "FILLED"} =>
          r.filled + r.remaining = OrderQuantity
    /\ r.status = "FILLED" => r.remaining = 0
    /\ r.status = "REJECTED" => r.filled = 0 /\ (~attempt[s] \/ Dead(s))
    /\ attempt[s] => r.status \in {"SUBMITTING", "REJECTED", "PARTIALLY_FILLED", "FILLED",
         "RELEASED"}
    /\ r.status = "RELEASED" => venue[s].state = "CANCELED"
    /\ venue[s].state = "NONE" => venue[s] = NoOrder
    /\ r.filled <= venue[s].listed /\ venue[s].listed <= venue[s].filled
    /\ venue[s].state = "OPEN" => venue[s].filled < OrderQuantity

SignalInvariant(s) ==
    /\ Exclusive(s) /\ Pristine(s) /\ ThreadOK(s) /\ HeldOK(s)
    /\ \A w \in Workers : Busy(w, s) => StepOK(w, s)

\* A running submit is about a signal.
Working == \A w \in Workers : worker[w].step # "idle" => worker[w].signal \in Signals

EntryInvariant ==
    TypeOK /\ Working /\ LeasesApart /\ \A s \in Signals : SignalInvariant(s)

-----------------------------------------------------------------------------
(* Frames                                                                  *)

\* A step that is not about t.
Elsewhere(t) ==
    /\ signal'[t] = signal[t] /\ ledger'[t] = ledger[t] /\ reservation'[t] = reservation[t]
    /\ attempt'[t] = attempt[t] /\ transport'[t] = transport[t] /\ venue'[t] = venue[t]
    /\ posts'[t] = posts[t] /\ cleared'[t] = cleared[t]
    /\ \A v \in Workers : Busy(v, t)' => Busy(v, t) /\ worker'[v] = worker[v]

(* A step that is not about a signal keeps what holds of the signal.       *)
LEMMA ElsewhereKeeps ==
    ASSUME NEW t \in Signals, SignalInvariant(t), Elsewhere(t)
    PROVE  SignalInvariant(t)'
<1>1. Exclusive(t)'
  BY DEF SignalInvariant, Elsewhere, Exclusive
<1>2. Pristine(t)'
  BY DEF SignalInvariant, Elsewhere, Pristine
<1>3. ThreadOK(t)'
  BY DEF SignalInvariant, Elsewhere, ThreadOK
<1>4. HeldOK(t)'
  BY DEF SignalInvariant, Elsewhere, HeldOK, Dead
<1>5. ASSUME NEW v \in Workers, Busy(v, t)'
      PROVE  StepOK(v, t)'
  BY <1>5 DEF SignalInvariant, Elsewhere, StepOK, Dead
<1>6. QED
  BY <1>1, <1>2, <1>3, <1>4, <1>5 DEF SignalInvariant

(* The invariant after a step about one signal.                            *)
LEMMA OneSignal ==
    ASSUME EntryInvariant, NEW s \in Signals, TypeOK', Working', LeasesApart',
           SignalInvariant(s)', \A t \in Signals \ {s} : Elsewhere(t)
    PROVE  EntryInvariant'
<1>1. ASSUME NEW t \in Signals \ {s}
      PROVE  SignalInvariant(t)'
  BY ElsewhereKeeps DEF EntryInvariant
<1>2. QED
  BY <1>1 DEF EntryInvariant

(* The invariant after a step about none.                                  *)
LEMMA NoSignal ==
    ASSUME EntryInvariant, TypeOK', Working', LeasesApart', \A t \in Signals : Elsewhere(t)
    PROVE  EntryInvariant'
<1>1. ASSUME NEW t \in Signals
      PROVE  SignalInvariant(t)'
  BY ElsewhereKeeps DEF EntryInvariant
<1>2. QED
  BY <1>1 DEF EntryInvariant

-----------------------------------------------------------------------------
(* The first transaction of submit: row and signal.                        *)
LEMMA InsertRowKeeps ==
    ASSUME NEW w \in Workers, EntryInvariant, InsertRow(w)
    PROVE  EntryInvariant'
<1>1. PICK s \in Signals : worker[w].signal = s /\ Busy(w, s)
  BY DEF EntryInvariant, Working, InsertRow, Busy
<1>2. UNCHANGED <<control, setter, lease, reservation, attempt, transport, venue, posts,
     cleared, reopened>>
  BY DEF InsertRow, controlVars, ledgerVars, history
<1>3. TypeOK /\ SignalInvariant(s) /\ Working /\ LeasesApart
  BY <1>1 DEF EntryInvariant
<1>4. TypeOK'
  <2>1. worker' \in [Workers -> Submits]
    <3>1. worker \in [Workers -> Submits] /\ control.generation \in Nat
      BY <1>3 DEF TypeOK, Controls
    <3>2. QED
      BY <1>1, <3>1 DEF InsertRow, Submits
  <2>2. signal' \in [Signals -> SignalStatuses]
    <3>1. signal \in [Signals -> SignalStatuses]
      BY <1>3 DEF TypeOK
    <3>2. QED
      BY <1>1, <3>1 DEF InsertRow, SignalStatuses
  <2>3. ledger' \in [Signals -> Rows]
    <3>1. ledger \in [Signals -> Rows] /\ control.generation \in Nat
      BY <1>3 DEF TypeOK, Controls
    <3>2. QED
      BY <1>1, <3>1 DEF InsertRow, Rows
  <2>4. QED
    BY <1>2, <1>3, <2>1, <2>2, <2>3 DEF TypeOK
<1>5. /\ \A v \in Workers \ {w} : worker'[v] = worker[v]
      /\ worker[w].step = "reserved" /\ worker'[w].step = "inserted"
      /\ worker'[w].signal = s /\ worker'[w].lease = worker[w].lease
  BY <1>1, <1>2, <1>3 DEF InsertRow, TypeOK, Submits
<1>6. ledger'[s].status = "RESERVED" /\ signal'[s] = "SUBMITTING" /\ signal[s] = "READY"
  BY <1>1, <1>2, <1>3 DEF InsertRow, TypeOK
<1>7. SignalInvariant(s)'
  <2>1. Exclusive(s)'
    BY <1>1, <1>2, <1>3, <1>5, <1>6 DEF SignalInvariant, Exclusive, Busy, StepOK
  <2>2. Pristine(s)'
    BY <1>1, <1>2, <1>3, <1>5, <1>6 DEF SignalInvariant, Pristine, StepOK, Busy, ThreadOK,
       HeldOK, Dead, NoOrder
  <2>3. ThreadOK(s)'
    BY <1>1, <1>2, <1>3, <1>5, <1>6 DEF SignalInvariant, ThreadOK, Pristine, StepOK, HeldOK,
       Dead, NoOrder
  <2>4. HeldOK(s)'
    BY <1>1, <1>2, <1>3, <1>5, <1>6 DEF SignalInvariant, HeldOK, Pristine, StepOK, ThreadOK,
       Dead, NoOrder
  <2>5. ASSUME NEW v \in Workers, Busy(v, s)'
        PROVE  StepOK(v, s)'
    BY <1>1, <1>2, <1>3, <1>5, <1>6, <2>5 DEF SignalInvariant, StepOK, Exclusive, Busy,
       Pristine, ThreadOK, HeldOK, Dead
  <2>6. QED
    BY <2>1, <2>2, <2>3, <2>4, <2>5 DEF SignalInvariant
<1>8. Working' /\ LeasesApart'
  BY <1>1, <1>2, <1>3, <1>5, <1>6 DEF Working, LeasesApart
<1>9. ASSUME NEW t \in Signals \ {s}
      PROVE  Elsewhere(t)
  BY <1>1, <1>2, <1>3, <1>5, <1>6 DEF Elsewhere, Busy, TypeOK, InsertRow
<1>10. QED
  BY <1>4, <1>7, <1>8, <1>9, OneSignal

(* Its failure.                                                            *)
LEMMA InsertFailsKeeps ==
    ASSUME NEW w \in Workers, EntryInvariant, InsertFails(w)
    PROVE  EntryInvariant'
<1>1. PICK s \in Signals : worker[w].signal = s /\ Busy(w, s)
  BY DEF EntryInvariant, Working, InsertFails, Busy
<1>2. UNCHANGED <<control, setter, lease, signal, ledger, reservation, attempt, transport,
     venue, posts, cleared, reopened>>
  BY DEF InsertFails, controlVars, ledgerVars, history
<1>3. TypeOK /\ SignalInvariant(s) /\ Working /\ LeasesApart
  BY <1>1 DEF EntryInvariant
<1>4. TypeOK'
  <2>1. worker' \in [Workers -> Submits]
    <3>1. worker \in [Workers -> Submits]
      BY <1>3 DEF TypeOK
    <3>2. QED
      BY <1>1, <3>1 DEF InsertFails, Submits
  <2>2. QED
    BY <1>2, <1>3, <2>1 DEF TypeOK
<1>5. /\ \A v \in Workers \ {w} : worker'[v] = worker[v]
      /\ worker[w].step = "reserved" /\ worker'[w].step = "releasing"
      /\ worker'[w].signal = s /\ worker'[w].lease = worker[w].lease
  BY <1>1, <1>2, <1>3 DEF InsertFails, TypeOK, Submits
<1>6. SignalInvariant(s)'
  <2>1. Exclusive(s)'
    BY <1>1, <1>2, <1>3, <1>5 DEF SignalInvariant, Exclusive, Busy, StepOK
  <2>2. Pristine(s)'
    BY <1>1, <1>2, <1>3, <1>5 DEF SignalInvariant, Pristine, StepOK, Busy, ThreadOK, HeldOK,
       Dead, NoOrder
  <2>3. ThreadOK(s)'
    BY <1>1, <1>2, <1>3, <1>5 DEF SignalInvariant, ThreadOK, Pristine, StepOK, HeldOK, Dead,
       NoOrder
  <2>4. HeldOK(s)'
    BY <1>1, <1>2, <1>3, <1>5 DEF SignalInvariant, HeldOK, Pristine, StepOK, ThreadOK, Dead,
       NoOrder
  <2>5. ASSUME NEW v \in Workers, Busy(v, s)'
        PROVE  StepOK(v, s)'
    BY <1>1, <1>2, <1>3, <1>5, <2>5 DEF SignalInvariant, StepOK, Exclusive, Busy, Pristine,
       ThreadOK, HeldOK, Dead
  <2>6. QED
    BY <2>1, <2>2, <2>3, <2>4, <2>5 DEF SignalInvariant
<1>7. Working' /\ LeasesApart'
  BY <1>1, <1>2, <1>3, <1>5 DEF Working, LeasesApart
<1>8. ASSUME NEW t \in Signals \ {s}
      PROVE  Elsewhere(t)
  BY <1>1, <1>2, <1>3, <1>5 DEF Elsewhere, Busy, TypeOK, InsertFails
<1>9. QED
  BY <1>4, <1>6, <1>7, <1>8, OneSignal

(* The second transaction.                                                 *)
LEMMA MarkSubmittingKeeps ==
    ASSUME NEW w \in Workers, EntryInvariant, MarkSubmitting(w)
    PROVE  EntryInvariant'
<1>1. PICK s \in Signals : worker[w].signal = s /\ Busy(w, s)
  BY DEF EntryInvariant, Working, MarkSubmitting, Busy
<1>2. UNCHANGED <<control, setter, lease, signal, reservation, attempt, transport, venue,
     posts, cleared, reopened>>
  BY DEF MarkSubmitting, controlVars, ledgerVars, history
<1>3. TypeOK /\ SignalInvariant(s) /\ Working /\ LeasesApart
  BY <1>1 DEF EntryInvariant
<1>4. TypeOK'
  <2>1. worker' \in [Workers -> Submits]
    <3>1. worker \in [Workers -> Submits]
      BY <1>3 DEF TypeOK
    <3>2. QED
      BY <1>1, <3>1 DEF MarkSubmitting, Submits
  <2>2. ledger' \in [Signals -> Rows]
    <3>1. ledger \in [Signals -> Rows]
      BY <1>3 DEF TypeOK
    <3>2. QED
      BY <1>1, <3>1 DEF MarkSubmitting, Rows
  <2>3. QED
    BY <1>2, <1>3, <2>1, <2>2 DEF TypeOK
<1>5. /\ \A v \in Workers \ {w} : worker'[v] = worker[v]
      /\ worker[w].step = "inserted" /\ worker'[w].step = "submitting"
      /\ worker'[w].signal = s /\ worker'[w].lease = worker[w].lease
  BY <1>1, <1>2, <1>3 DEF MarkSubmitting, TypeOK, Submits
<1>6. ledger'[s].status = "SUBMITTING" /\ ledger'[s].generation = ledger[s].generation
  BY <1>1, <1>2, <1>3 DEF MarkSubmitting, TypeOK, Rows
<1>7. SignalInvariant(s)'
  <2>1. Exclusive(s)'
    BY <1>1, <1>2, <1>3, <1>5, <1>6 DEF SignalInvariant, Exclusive, Busy, StepOK
  <2>2. Pristine(s)'
    BY <1>1, <1>2, <1>3, <1>5, <1>6 DEF SignalInvariant, Pristine, StepOK, Busy, ThreadOK,
       HeldOK, Dead, NoOrder
  <2>3. ThreadOK(s)'
    BY <1>1, <1>2, <1>3, <1>5, <1>6 DEF SignalInvariant, ThreadOK, Pristine, StepOK, HeldOK,
       Dead, NoOrder
  <2>4. HeldOK(s)'
    BY <1>1, <1>2, <1>3, <1>5, <1>6 DEF SignalInvariant, HeldOK, Pristine, StepOK, ThreadOK,
       Dead, NoOrder
  <2>5. ASSUME NEW v \in Workers, Busy(v, s)'
        PROVE  StepOK(v, s)'
    BY <1>1, <1>2, <1>3, <1>5, <1>6, <2>5 DEF SignalInvariant, StepOK, Exclusive, Busy,
       Pristine, ThreadOK, HeldOK, Dead
  <2>6. QED
    BY <2>1, <2>2, <2>3, <2>4, <2>5 DEF SignalInvariant
<1>8. Working' /\ LeasesApart'
  BY <1>1, <1>2, <1>3, <1>5, <1>6 DEF Working, LeasesApart
<1>9. ASSUME NEW t \in Signals \ {s}
      PROVE  Elsewhere(t)
  BY <1>1, <1>2, <1>3, <1>5, <1>6 DEF Elsewhere, Busy, TypeOK, MarkSubmitting
<1>10. QED
  BY <1>4, <1>7, <1>8, <1>9, OneSignal

(* A row that will not be sent.                                            *)
LEMMA RejectRowKeeps ==
    ASSUME NEW w \in Workers, EntryInvariant, RejectRow(w)
    PROVE  EntryInvariant'
<1>1. PICK s \in Signals : worker[w].signal = s /\ Busy(w, s)
  BY DEF EntryInvariant, Working, RejectRow, Busy
<1>2. UNCHANGED <<control, setter, lease, reservation, attempt, transport, venue, posts,
     cleared, reopened>>
  BY DEF RejectRow, controlVars, ledgerVars, history
<1>3. TypeOK /\ SignalInvariant(s) /\ Working /\ LeasesApart
  BY <1>1 DEF EntryInvariant
<1>4. TypeOK'
  <2>1. worker' \in [Workers -> Submits]
    <3>1. worker \in [Workers -> Submits]
      BY <1>3 DEF TypeOK
    <3>2. QED
      BY <1>1, <3>1 DEF RejectRow, Submits
  <2>2. signal' \in [Signals -> SignalStatuses]
    <3>1. signal \in [Signals -> SignalStatuses]
      BY <1>3 DEF TypeOK
    <3>2. QED
      BY <1>1, <3>1 DEF RejectRow, SignalStatuses
  <2>3. ledger' \in [Signals -> Rows]
    <3>1. ledger \in [Signals -> Rows]
      BY <1>3 DEF TypeOK
    <3>2. QED
      BY <1>1, <3>1 DEF RejectRow, Rows
  <2>4. QED
    BY <1>2, <1>3, <2>1, <2>2, <2>3 DEF TypeOK
<1>5. worker[w].step \in {"inserted", "submitting"}
  BY <1>1, <1>2, <1>3 DEF RejectRow, TypeOK
<1>6. /\ \A v \in Workers \ {w} : worker'[v] = worker[v]
      /\ worker'[w].step = "releasing"
      /\ worker'[w].signal = s /\ worker'[w].lease = worker[w].lease
  BY <1>1, <1>2, <1>3 DEF RejectRow, TypeOK, Submits
<1>7. ledger'[s].generation = ledger[s].generation /\ (signal[s] # "READY" => signal'[s] # "READY")
  BY <1>1, <1>2, <1>3 DEF RejectRow, TypeOK, Rows, SignalStatuses
<1>8. SignalInvariant(s)'
  <2>1. Exclusive(s)'
    BY <1>1, <1>2, <1>3, <1>5, <1>6, <1>7 DEF SignalInvariant, Exclusive, Busy, StepOK
  <2>2. Pristine(s)'
    BY <1>1, <1>2, <1>3, <1>5, <1>6, <1>7 DEF SignalInvariant, Pristine, StepOK, Busy,
       ThreadOK, HeldOK, Dead, NoOrder
  <2>3. ThreadOK(s)'
    BY <1>1, <1>2, <1>3, <1>5, <1>6, <1>7 DEF SignalInvariant, ThreadOK, Pristine, StepOK,
       HeldOK, Dead, NoOrder
  <2>4. HeldOK(s)'
    BY <1>1, <1>2, <1>3, <1>5, <1>6, <1>7 DEF SignalInvariant, HeldOK, Pristine, StepOK,
       ThreadOK, Dead, NoOrder
  <2>5. ASSUME NEW v \in Workers, Busy(v, s)'
        PROVE  StepOK(v, s)'
    BY <1>1, <1>2, <1>3, <1>5, <1>6, <1>7, <2>5 DEF SignalInvariant, StepOK, Exclusive, Busy,
       Pristine, ThreadOK, HeldOK, Dead
  <2>6. QED
    BY <2>1, <2>2, <2>3, <2>4, <2>5 DEF SignalInvariant
<1>9. Working' /\ LeasesApart'
  BY <1>1, <1>2, <1>3, <1>5, <1>6, <1>7 DEF Working, LeasesApart
<1>10. ASSUME NEW t \in Signals \ {s}
      PROVE  Elsewhere(t)
  BY <1>1, <1>2, <1>3, <1>5, <1>6, <1>7 DEF Elsewhere, Busy, TypeOK, RejectRow
<1>11. QED
  BY <1>4, <1>8, <1>9, <1>10, OneSignal

(* The attempt.                                                            *)
LEMMA RecordAttemptKeeps ==
    ASSUME NEW w \in Workers, EntryInvariant, RecordAttempt(w)
    PROVE  EntryInvariant'
<1>1. PICK s \in Signals : worker[w].signal = s /\ Busy(w, s)
  BY DEF EntryInvariant, Working, RecordAttempt, Busy
<1>2. UNCHANGED <<control, setter, lease, signal, ledger, transport, venue, posts, cleared,
     reopened>>
  BY DEF RecordAttempt, controlVars, ledgerVars, history
<1>3. TypeOK /\ SignalInvariant(s) /\ Working /\ LeasesApart
  BY <1>1 DEF EntryInvariant
<1>4. TypeOK'
  <2>1. worker' \in [Workers -> Submits]
    <3>1. worker \in [Workers -> Submits]
      BY <1>3 DEF TypeOK
    <3>2. QED
      BY <1>1, <3>1 DEF RecordAttempt, Submits
  <2>2. attempt' \in [Signals -> BOOLEAN]
    <3>1. attempt \in [Signals -> BOOLEAN]
      BY <1>3 DEF TypeOK
    <3>2. QED
      BY <1>1, <3>1 DEF RecordAttempt
  <2>3. reservation' \in [Signals -> Reservations]
    <3>1. reservation \in [Signals -> Reservations]
      BY <1>3 DEF TypeOK
    <3>2. QED
      BY <1>1, <3>1 DEF RecordAttempt, Reservations, Statuses, ActiveStatuses
  <2>4. QED
    BY <1>2, <1>3, <2>1, <2>2, <2>3 DEF TypeOK
<1>5. /\ \A v \in Workers \ {w} : worker'[v] = worker[v]
      /\ worker[w].step = "submitting" /\ worker'[w].step = "attempted"
      /\ worker'[w].signal = s /\ worker'[w].lease = worker[w].lease
  BY <1>1, <1>2, <1>3 DEF RecordAttempt, TypeOK, Submits
<1>6. /\ ~attempt[s] /\ attempt'[s]
      /\ reservation[s].status = "HELD" /\ reservation'[s].status = "SUBMITTING"
      /\ reservation'[s].generation = reservation[s].generation
      /\ reservation'[s].lease = reservation[s].lease
      /\ reservation'[s].filled = reservation[s].filled
      /\ reservation'[s].remaining = reservation[s].remaining
  BY <1>1, <1>2, <1>3 DEF RecordAttempt, TypeOK, Reservations
<1>7. SignalInvariant(s)'
  <2>1. Exclusive(s)'
    BY <1>1, <1>2, <1>3, <1>5, <1>6 DEF SignalInvariant, Exclusive, Busy, StepOK
  <2>2. Pristine(s)'
    BY <1>1, <1>2, <1>3, <1>5, <1>6 DEF SignalInvariant, Pristine, StepOK, Busy, ThreadOK,
       HeldOK, Dead, NoOrder
  <2>3. ThreadOK(s)'
    BY <1>1, <1>2, <1>3, <1>5, <1>6 DEF SignalInvariant, ThreadOK, Pristine, StepOK, HeldOK,
       Dead, NoOrder
  <2>4. HeldOK(s)'
    BY <1>1, <1>2, <1>3, <1>5, <1>6 DEF SignalInvariant, HeldOK, Pristine, StepOK, ThreadOK,
       Dead, NoOrder
  <2>5. ASSUME NEW v \in Workers, Busy(v, s)'
        PROVE  StepOK(v, s)'
    BY <1>1, <1>2, <1>3, <1>5, <1>6, <2>5 DEF SignalInvariant, StepOK, Exclusive, Busy,
       Pristine, ThreadOK, HeldOK, Dead
  <2>6. QED
    BY <2>1, <2>2, <2>3, <2>4, <2>5 DEF SignalInvariant
<1>8. Working' /\ LeasesApart'
  BY <1>1, <1>2, <1>3, <1>5, <1>6 DEF Working, LeasesApart
<1>9. ASSUME NEW t \in Signals \ {s}
      PROVE  Elsewhere(t)
  BY <1>1, <1>2, <1>3, <1>5, <1>6 DEF Elsewhere, Busy, TypeOK, RecordAttempt
<1>10. QED
  BY <1>4, <1>7, <1>8, <1>9, OneSignal

(* The thread starts.                                                      *)
LEMMA CallTransportKeeps ==
    ASSUME NEW w \in Workers, EntryInvariant, CallTransport(w)
    PROVE  EntryInvariant'
<1>1. PICK s \in Signals : worker[w].signal = s /\ Busy(w, s)
  BY DEF EntryInvariant, Working, CallTransport, Busy
<1>2. UNCHANGED <<control, setter, lease, signal, ledger, reservation, attempt, venue, posts,
     cleared, reopened>>
  BY DEF CallTransport, NoTransport, controlVars, ledgerVars, history
<1>3. TypeOK /\ SignalInvariant(s) /\ Working /\ LeasesApart
  BY <1>1 DEF EntryInvariant
<1>4. TypeOK'
  <2>1. worker' \in [Workers -> Submits]
    <3>1. worker \in [Workers -> Submits]
      BY <1>3 DEF TypeOK
    <3>2. QED
      BY <1>1, <3>1 DEF CallTransport, NoTransport, Submits
  <2>2. transport' \in [Signals -> Threads]
    <3>1. transport \in [Signals -> Threads]
      BY <1>3 DEF TypeOK
    <3>2. QED
      BY <1>1, <3>1 DEF CallTransport, NoTransport, Threads
  <2>3. QED
    BY <1>2, <1>3, <2>1, <2>2 DEF TypeOK
<1>5. /\ \A v \in Workers \ {w} : worker'[v] = worker[v]
      /\ worker[w].step = "attempted" /\ worker'[w].step = "waiting"
      /\ worker'[w].signal = s /\ worker'[w].lease = worker[w].lease
  BY <1>1, <1>2, <1>3 DEF CallTransport, NoTransport, TypeOK, Submits
<1>6. transport'[s].step = "called" /\ transport'[s].worker = w
  BY <1>1, <1>2, <1>3 DEF CallTransport, NoTransport, TypeOK, Threads, NoTransport
<1>7. SignalInvariant(s)'
  <2>1. Exclusive(s)'
    BY <1>1, <1>2, <1>3, <1>5, <1>6 DEF SignalInvariant, Exclusive, Busy, StepOK
  <2>2. Pristine(s)'
    BY <1>1, <1>2, <1>3, <1>5, <1>6 DEF SignalInvariant, Pristine, StepOK, Busy, ThreadOK,
       HeldOK, Dead, NoOrder
  <2>3. ThreadOK(s)'
    BY <1>1, <1>2, <1>3, <1>5, <1>6 DEF SignalInvariant, ThreadOK, Pristine, StepOK, HeldOK,
       Dead, NoOrder
  <2>4. HeldOK(s)'
    BY <1>1, <1>2, <1>3, <1>5, <1>6 DEF SignalInvariant, HeldOK, Pristine, StepOK, ThreadOK,
       Dead, NoOrder
  <2>5. ASSUME NEW v \in Workers, Busy(v, s)'
        PROVE  StepOK(v, s)'
    BY <1>1, <1>2, <1>3, <1>5, <1>6, <2>5 DEF SignalInvariant, StepOK, Exclusive, Busy,
       Pristine, ThreadOK, HeldOK, Dead
  <2>6. QED
    BY <2>1, <2>2, <2>3, <2>4, <2>5 DEF SignalInvariant
<1>8. Working' /\ LeasesApart'
  BY <1>1, <1>2, <1>3, <1>5, <1>6 DEF Working, LeasesApart
<1>9. ASSUME NEW t \in Signals \ {s}
      PROVE  Elsewhere(t)
  BY <1>1, <1>2, <1>3, <1>5, <1>6 DEF Elsewhere, Busy, TypeOK, CallTransport, NoTransport
<1>10. QED
  BY <1>4, <1>7, <1>8, <1>9, OneSignal

(* persist_outcome, as its two callers use it.                             *)
LEMMA PersistFacts ==
    ASSUME TypeOK, NEW w \in Workers, NEW s \in Signals, worker[w].signal = s,
           NEW outcome \in {"ACCEPTED", "REJECTED", "UNKNOWN"}, PersistOutcome(w, s, outcome)
    PROVE  /\ ledger' \in [Signals -> Rows] /\ signal' \in [Signals -> SignalStatuses]
           /\ worker' \in [Workers -> Submits]
           /\ \A v \in Workers \ {w} : worker'[v] = worker[v]
           /\ \A t \in Signals \ {s} : ledger'[t] = ledger[t] /\ signal'[t] = signal[t]
           /\ ledger'[s].generation = ledger[s].generation
           /\ ledger'[s].status # "SUBMITTING"
           /\ ledger'[s].status = "NONE" => ledger[s].status = "NONE"
           /\ signal'[s] = "READY" => signal[s] = "READY"
           /\ worker'[w].lease = worker[w].lease
           /\ IF outcome = "REJECTED"
              THEN worker'[w].step = "closing" /\ worker'[w].signal = s
              ELSE worker'[w].step = "idle"
<1>1. /\ ledger' \in [Signals -> Rows]
      /\ \A t \in Signals \ {s} : ledger'[t] = ledger[t]
      /\ ledger'[s].generation = ledger[s].generation
      /\ ledger'[s].status # "SUBMITTING"
      /\ ledger'[s].status = "NONE" => ledger[s].status = "NONE"
  <2>1. ledger \in [Signals -> Rows]
    BY DEF TypeOK
  <2>2. (outcome = "ACCEPTED") \in BOOLEAN
    OBVIOUS
  <2>3. CASE ledger[s].status = "SUBMITTING"
    <3>1. ledger' = [ledger EXCEPT ![s] = [ledger[s] EXCEPT !.status = outcome,
                                                             !.order = (outcome = "ACCEPTED")]]
      BY <2>3 DEF PersistOutcome
    <3>2. [ledger[s] EXCEPT !.status = outcome, !.order = (outcome = "ACCEPTED")] \in Rows
      BY <2>1, <2>2 DEF Rows
    <3>3. QED
      BY <2>1, <2>3, <3>1, <3>2 DEF Rows
  <2>4. CASE ledger[s].status # "SUBMITTING"
    <3>1. ledger' = ledger
      BY <2>1, <2>4 DEF PersistOutcome
    <3>2. QED
      BY <2>1, <2>4, <3>1
  <2>5. QED
    BY <2>3, <2>4
<1>2. /\ signal' \in [Signals -> SignalStatuses]
      /\ \A t \in Signals \ {s} : signal'[t] = signal[t]
      /\ signal'[s] = "READY" => signal[s] = "READY"
  BY DEF PersistOutcome, TypeOK, SignalStatuses
<1>3. worker \in [Workers -> Submits]
  BY DEF TypeOK
<1>4. CASE outcome = "REJECTED"
  <2>1. worker' = [worker EXCEPT ![w].step = "closing"]
    BY <1>4 DEF PersistOutcome
  <2>2. QED
    BY <1>1, <1>2, <1>3, <1>4, <2>1 DEF Submits
<1>5. CASE outcome # "REJECTED"
  <2>1. Halt(w)
    BY <1>5 DEF PersistOutcome
  <2>2. QED
    BY <1>1, <1>2, <1>3, <1>5, <2>1 DEF Halt, Submits
<1>6. QED
  BY <1>4, <1>5

(* The answer of the thread.                                               *)
LEMMA ReceiveAnswerKeeps ==
    ASSUME NEW w \in Workers, EntryInvariant, ReceiveAnswer(w)
    PROVE  EntryInvariant'
<1>1. PICK s \in Signals : worker[w].signal = s /\ Busy(w, s)
  BY DEF EntryInvariant, Working, ReceiveAnswer, Busy
<1>2. UNCHANGED <<control, setter, lease, reservation, attempt, venue, posts, cleared,
     reopened>>
  BY DEF ReceiveAnswer, PersistOutcome, controlVars, history
<1>3. TypeOK /\ SignalInvariant(s) /\ Working /\ LeasesApart
  BY <1>1 DEF EntryInvariant
<1>4. /\ worker[w].step = "waiting" /\ StepOK(w, s)
      /\ transport[s].step = "done"
  BY <1>1, <1>3 DEF ReceiveAnswer, SignalInvariant
<1>5. PICK outcome \in {"ACCEPTED", "REJECTED", "UNKNOWN"} :
        /\ PersistOutcome(w, s, outcome)
        /\ outcome = "REJECTED" => venue[s].state = "NONE" /\ transport[s].step # "cleared"
  <2>1. transport[s].result \in {"ACCEPTED", "REJECTED", "REFUSED", "FAILED"}
    BY <1>1, <1>3, <1>4 DEF TypeOK, Threads, SignalInvariant, ThreadOK
  <2>2. OutcomeOf(transport[s].result) \in {"ACCEPTED", "REJECTED", "UNKNOWN"}
    BY <2>1 DEF OutcomeOf
  <2>3. OutcomeOf(transport[s].result) = "REJECTED" => venue[s].state = "NONE"
    BY <1>3, <1>4, <2>1 DEF OutcomeOf, SignalInvariant, ThreadOK
  <2>4. QED
    BY <1>1, <1>4, <2>2, <2>3 DEF ReceiveAnswer
<1>6. /\ \A v \in Workers \ {w} : worker'[v] = worker[v]
      /\ worker'[w].lease = worker[w].lease
      /\ ledger'[s].generation = ledger[s].generation
      /\ ledger'[s].status # "SUBMITTING"
      /\ ledger'[s].status = "NONE" => ledger[s].status = "NONE"
      /\ signal'[s] = "READY" => signal[s] = "READY"
      /\ worker'[w].step = "idle" \/ (outcome = "REJECTED" /\ worker'[w].step = "closing" /\ worker'[w].signal = s)
  BY <1>1, <1>3, <1>5, PersistFacts
<1>7. /\ transport' \in [Signals -> Threads] /\ transport'[s].step = "none"
      /\ \A t \in Signals \ {s} : transport'[t] = transport[t]
  <2>1. NoTransport \in Threads /\ NoTransport.step = "none"
    BY DEF NoTransport, Threads
  <2>2. QED
    BY <1>1, <1>3, <2>1 DEF ReceiveAnswer, TypeOK
<1>8. TypeOK'
  <2>1. ledger' \in [Signals -> Rows] /\ signal' \in [Signals -> SignalStatuses] /\ worker' \in [Workers -> Submits]
    BY <1>1, <1>3, <1>5, PersistFacts
  <2>2. QED
    BY <1>2, <1>3, <1>7, <2>1 DEF TypeOK
<1>9. SignalInvariant(s)'
  <2>1. Exclusive(s)'
    BY <1>1, <1>2, <1>3, <1>4, <1>5, <1>6, <1>7 DEF SignalInvariant, Exclusive, Busy, StepOK
  <2>2. Pristine(s)'
    BY <1>1, <1>2, <1>3, <1>4, <1>5, <1>6, <1>7 DEF SignalInvariant, Pristine, StepOK
  <2>3. ThreadOK(s)'
    BY <1>1, <1>2, <1>3, <1>4, <1>5, <1>6, <1>7 DEF SignalInvariant, ThreadOK, Pristine, StepOK
  <2>4. HeldOK(s)'
    BY <1>1, <1>2, <1>3, <1>4, <1>5, <1>6, <1>7 DEF SignalInvariant, HeldOK, StepOK, Dead
  <2>5. ASSUME NEW v \in Workers, Busy(v, s)'
        PROVE  StepOK(v, s)'
    BY <1>1, <1>2, <1>3, <1>4, <1>5, <1>6, <1>7, <2>5 DEF SignalInvariant, StepOK, Exclusive,
       Busy, ThreadOK, Dead
  <2>6. QED
    BY <2>1, <2>2, <2>3, <2>4, <2>5 DEF SignalInvariant
<1>10. Working' /\ LeasesApart'
  BY <1>1, <1>2, <1>3, <1>6 DEF Working, LeasesApart
<1>11. ASSUME NEW t \in Signals \ {s}
      PROVE  Elsewhere(t)
  <2>1. ledger'[t] = ledger[t] /\ signal'[t] = signal[t]
    BY <1>1, <1>3, <1>5, PersistFacts
  <2>2. QED
    BY <1>1, <1>2, <1>4, <1>6, <1>7, <2>1 DEF Elsewhere, Busy
<1>12. QED
  BY <1>8, <1>9, <1>10, <1>11, OneSignal

(* The caller gives up.                                                    *)
LEMMA TimeOutKeeps ==
    ASSUME NEW w \in Workers, EntryInvariant, TimeOut(w)
    PROVE  EntryInvariant'
<1>1. PICK s \in Signals : worker[w].signal = s /\ Busy(w, s)
  BY DEF EntryInvariant, Working, TimeOut, Busy
<1>2. UNCHANGED <<control, setter, lease, reservation, attempt, venue, posts, cleared,
     reopened>>
  BY DEF TimeOut, PersistOutcome, controlVars, history
<1>3. TypeOK /\ SignalInvariant(s) /\ Working /\ LeasesApart
  BY <1>1 DEF EntryInvariant
<1>4. /\ worker[w].step = "waiting" /\ StepOK(w, s)
      /\ transport[s].step # "done"
  BY <1>1, <1>3 DEF TimeOut, SignalInvariant
<1>5. PICK outcome \in {"ACCEPTED", "REJECTED", "UNKNOWN"} :
        /\ PersistOutcome(w, s, outcome)
        /\ outcome = "REJECTED" => venue[s].state = "NONE" /\ transport[s].step # "cleared"
  <2>1. transport[s].step \notin {"started", "cleared"} => venue[s].state = "NONE"
    BY <1>3, <1>4 DEF SignalInvariant, ThreadOK, StepOK, NoOrder
  <2>2. CASE transport[s].step \in {"started", "cleared"}
    BY <1>1, <2>2 DEF TimeOut
  <2>3. CASE transport[s].step \notin {"started", "cleared"}
    BY <1>1, <2>1, <2>3 DEF TimeOut
  <2>4. QED
    BY <2>2, <2>3
<1>6. /\ \A v \in Workers \ {w} : worker'[v] = worker[v]
      /\ worker'[w].lease = worker[w].lease
      /\ ledger'[s].generation = ledger[s].generation
      /\ ledger'[s].status # "SUBMITTING"
      /\ ledger'[s].status = "NONE" => ledger[s].status = "NONE"
      /\ signal'[s] = "READY" => signal[s] = "READY"
      /\ worker'[w].step = "idle" \/ (outcome = "REJECTED" /\ worker'[w].step = "closing" /\ worker'[w].signal = s)
  BY <1>1, <1>3, <1>5, PersistFacts
<1>7. /\ transport' \in [Signals -> Threads]
      /\ transport'[s].step = transport[s].step
      /\ transport'[s].result = transport[s].result
      /\ \A t \in Signals \ {s} : transport'[t] = transport[t]
  BY <1>1, <1>3 DEF TimeOut, TypeOK, Threads
<1>8. TypeOK'
  <2>1. ledger' \in [Signals -> Rows] /\ signal' \in [Signals -> SignalStatuses] /\ worker' \in [Workers -> Submits]
    BY <1>1, <1>3, <1>5, PersistFacts
  <2>2. QED
    BY <1>2, <1>3, <1>7, <2>1 DEF TypeOK
<1>9. SignalInvariant(s)'
  <2>1. Exclusive(s)'
    BY <1>1, <1>2, <1>3, <1>4, <1>5, <1>6, <1>7 DEF SignalInvariant, Exclusive, Busy, StepOK
  <2>2. Pristine(s)'
    BY <1>1, <1>2, <1>3, <1>4, <1>5, <1>6, <1>7 DEF SignalInvariant, Pristine, StepOK
  <2>3. ThreadOK(s)'
    BY <1>1, <1>2, <1>3, <1>4, <1>5, <1>6, <1>7 DEF SignalInvariant, ThreadOK, Pristine, StepOK
  <2>4. HeldOK(s)'
    BY <1>1, <1>2, <1>3, <1>4, <1>5, <1>6, <1>7 DEF SignalInvariant, HeldOK, StepOK, Dead
  <2>5. ASSUME NEW v \in Workers, Busy(v, s)'
        PROVE  StepOK(v, s)'
    BY <1>1, <1>2, <1>3, <1>4, <1>5, <1>6, <1>7, <2>5 DEF SignalInvariant, StepOK, Exclusive,
       Busy, ThreadOK, Dead
  <2>6. QED
    BY <2>1, <2>2, <2>3, <2>4, <2>5 DEF SignalInvariant
<1>10. Working' /\ LeasesApart'
  BY <1>1, <1>2, <1>3, <1>6 DEF Working, LeasesApart
<1>11. ASSUME NEW t \in Signals \ {s}
      PROVE  Elsewhere(t)
  <2>1. ledger'[t] = ledger[t] /\ signal'[t] = signal[t]
    BY <1>1, <1>3, <1>5, PersistFacts
  <2>2. QED
    BY <1>1, <1>2, <1>4, <1>6, <1>7, <2>1 DEF Elsewhere, Busy
<1>12. QED
  BY <1>8, <1>9, <1>10, <1>11, OneSignal

(* The capacity of a rejected order comes back.                            *)
LEMMA ReleaseRejectedKeeps ==
    ASSUME NEW w \in Workers, EntryInvariant, ReleaseRejected(w)
    PROVE  EntryInvariant'
<1>1. PICK s \in Signals : worker[w].signal = s /\ Busy(w, s)
  BY DEF EntryInvariant, Working, ReleaseRejected, Busy
<1>2. UNCHANGED <<control, setter, lease, signal, ledger, attempt, transport, venue, posts,
     cleared, reopened>>
  BY DEF ReleaseRejected, Given, Halt, controlVars, ledgerVars, history
<1>3. TypeOK /\ SignalInvariant(s) /\ Working /\ LeasesApart
  BY <1>1 DEF EntryInvariant
<1>4. TypeOK'
  <2>1. worker' \in [Workers -> Submits]
    <3>1. worker \in [Workers -> Submits]
      BY <1>3 DEF TypeOK
    <3>2. QED
      BY <3>1 DEF ReleaseRejected, Halt, Submits
  <2>2. reservation' \in [Signals -> Reservations]
    <3>1. reservation \in [Signals -> Reservations] /\ 0 \in 0..OrderQuantity
      BY <1>3, EntryConstants DEF TypeOK, EntryConstants
    <3>2. [reservation[s] EXCEPT !.status = "REJECTED", !.remaining = 0] \in Reservations
      BY <3>1 DEF Reservations, Statuses
    <3>3. Given(reservation[s], "REJECTED") \in Reservations
      BY <3>1, <3>2 DEF Given
    <3>4. reservation' = [reservation EXCEPT ![s] = Given(@, "REJECTED")]
      BY <1>1 DEF ReleaseRejected
    <3>5. QED
      BY <3>1, <3>3, <3>4
  <2>3. QED
    BY <1>2, <1>3, <2>1, <2>2 DEF TypeOK
<1>5. /\ \A v \in Workers \ {w} : worker'[v] = worker[v]
      /\ worker'[w].step = "idle" /\ worker'[w].lease = worker[w].lease
  BY <1>1, <1>2, <1>3 DEF ReleaseRejected, Given, Halt, TypeOK, Submits
<1>6. worker[w].step \in {"releasing", "closing"}
  BY <1>1, <1>2, <1>3 DEF ReleaseRejected, Given, Halt, TypeOK
<1>7. /\ reservation'[s].generation = reservation[s].generation
      /\ reservation'[s].lease = reservation[s].lease
      /\ reservation'[s].filled = reservation[s].filled
      /\ \/ reservation'[s] = reservation[s]
         \/ /\ reservation[s].status \notin {"REJECTED", "RELEASED", "FILLED"}
            /\ reservation'[s].status = "REJECTED"
  BY <1>1, <1>2, <1>3 DEF ReleaseRejected, Given, Halt, TypeOK, Reservations
<1>8. reservation[s].filled = 0
  BY <1>1, <1>2, <1>3, <1>6 DEF ReleaseRejected, Given, Halt, TypeOK, SignalInvariant,
     StepOK, Pristine, Dead, HeldOK, NoOrder, Reservations, Orders
<1>9. SignalInvariant(s)'
  <2>1. Exclusive(s)'
    BY <1>1, <1>2, <1>3, <1>5, <1>6, <1>7, <1>8 DEF SignalInvariant, Exclusive, Busy, StepOK
  <2>2. Pristine(s)'
    BY <1>1, <1>2, <1>3, <1>5, <1>6, <1>7, <1>8 DEF SignalInvariant, Pristine, StepOK, Busy,
       ThreadOK, HeldOK, Dead, NoOrder
  <2>3. ThreadOK(s)'
    BY <1>1, <1>2, <1>3, <1>5, <1>6, <1>7, <1>8 DEF SignalInvariant, ThreadOK, Pristine,
       StepOK, HeldOK, Dead, NoOrder
  <2>4. HeldOK(s)'
    BY <1>1, <1>2, <1>3, <1>5, <1>6, <1>7, <1>8 DEF SignalInvariant, HeldOK, Pristine,
       StepOK, ThreadOK, Dead, NoOrder
  <2>5. ASSUME NEW v \in Workers, Busy(v, s)'
        PROVE  StepOK(v, s)'
    BY <1>1, <1>2, <1>3, <1>5, <1>6, <1>7, <1>8, <2>5 DEF SignalInvariant, StepOK, Exclusive,
       Busy, Pristine, ThreadOK, HeldOK, Dead
  <2>6. QED
    BY <2>1, <2>2, <2>3, <2>4, <2>5 DEF SignalInvariant
<1>10. Working' /\ LeasesApart'
  BY <1>1, <1>2, <1>3, <1>5, <1>6, <1>7, <1>8 DEF Working, LeasesApart
<1>11. ASSUME NEW t \in Signals \ {s}
      PROVE  Elsewhere(t)
  BY <1>1, <1>2, <1>3, <1>5, <1>6, <1>7, <1>8 DEF Elsewhere, Busy, TypeOK, ReleaseRejected,
     Given, Halt
<1>12. QED
  BY <1>4, <1>9, <1>10, <1>11, OneSignal

(* A failing release is swallowed.                                         *)
LEMMA ReleaseLostKeeps ==
    ASSUME NEW w \in Workers, EntryInvariant, ReleaseLost(w)
    PROVE  EntryInvariant'
<1>1. PICK s \in Signals : worker[w].signal = s /\ Busy(w, s)
  BY DEF EntryInvariant, Working, ReleaseLost, Busy
<1>2. UNCHANGED <<control, setter, lease, signal, ledger, reservation, attempt, transport,
     venue, posts, cleared, reopened>>
  BY DEF ReleaseLost, Halt, controlVars, ledgerVars, history
<1>3. TypeOK /\ SignalInvariant(s) /\ Working /\ LeasesApart
  BY <1>1 DEF EntryInvariant
<1>4. TypeOK'
  <2>1. worker' \in [Workers -> Submits]
    <3>1. worker \in [Workers -> Submits]
      BY <1>3 DEF TypeOK
    <3>2. QED
      BY <3>1 DEF ReleaseLost, Halt, Submits
  <2>2. QED
    BY <1>2, <1>3, <2>1 DEF TypeOK
<1>5. /\ \A v \in Workers \ {w} : worker'[v] = worker[v]
      /\ worker'[w].step = "idle" /\ worker'[w].lease = worker[w].lease
  BY <1>1, <1>2, <1>3 DEF ReleaseLost, Halt, TypeOK, Submits
<1>6. SignalInvariant(s)'
  <2>1. Exclusive(s)'
    BY <1>1, <1>2, <1>3, <1>5 DEF SignalInvariant, Exclusive, Busy, StepOK
  <2>2. Pristine(s)'
    BY <1>1, <1>2, <1>3, <1>5 DEF SignalInvariant, Pristine, StepOK, Busy, ThreadOK, HeldOK,
       Dead, NoOrder
  <2>3. ThreadOK(s)'
    BY <1>1, <1>2, <1>3, <1>5 DEF SignalInvariant, ThreadOK, Pristine, StepOK, HeldOK, Dead,
       NoOrder
  <2>4. HeldOK(s)'
    BY <1>1, <1>2, <1>3, <1>5 DEF SignalInvariant, HeldOK, Pristine, StepOK, ThreadOK, Dead,
       NoOrder
  <2>5. ASSUME NEW v \in Workers, Busy(v, s)'
        PROVE  StepOK(v, s)'
    BY <1>1, <1>2, <1>3, <1>5, <2>5 DEF SignalInvariant, StepOK, Exclusive, Busy, Pristine,
       ThreadOK, HeldOK, Dead
  <2>6. QED
    BY <2>1, <2>2, <2>3, <2>4, <2>5 DEF SignalInvariant
<1>7. Working' /\ LeasesApart'
  BY <1>1, <1>2, <1>3, <1>5 DEF Working, LeasesApart
<1>8. ASSUME NEW t \in Signals \ {s}
      PROVE  Elsewhere(t)
  BY <1>1, <1>2, <1>3, <1>5 DEF Elsewhere, Busy, TypeOK, ReleaseLost, Halt
<1>9. QED
  BY <1>4, <1>6, <1>7, <1>8, OneSignal

(* A failing release of a rejected order.                                  *)
LEMMA AccountingFailsKeeps ==
    ASSUME NEW w \in Workers, EntryInvariant, AccountingFails(w)
    PROVE  EntryInvariant'
<1>1. PICK s \in Signals : worker[w].signal = s /\ Busy(w, s)
  BY DEF EntryInvariant, Working, AccountingFails, Busy
<1>2. UNCHANGED <<control, setter, lease, reservation, attempt, transport, venue, posts,
     cleared, reopened>>
  BY DEF AccountingFails, controlVars, ledgerVars, history
<1>3. TypeOK /\ SignalInvariant(s) /\ Working /\ LeasesApart
  BY <1>1 DEF EntryInvariant
<1>4. TypeOK'
  <2>1. worker' \in [Workers -> Submits]
    <3>1. worker \in [Workers -> Submits]
      BY <1>3 DEF TypeOK
    <3>2. QED
      BY <1>1, <3>1 DEF AccountingFails, Submits
  <2>2. signal' \in [Signals -> SignalStatuses]
    <3>1. signal \in [Signals -> SignalStatuses]
      BY <1>3 DEF TypeOK
    <3>2. QED
      BY <1>1, <3>1 DEF AccountingFails, SignalStatuses
  <2>3. ledger' \in [Signals -> Rows]
    <3>1. ledger \in [Signals -> Rows]
      BY <1>3 DEF TypeOK
    <3>2. QED
      BY <1>1, <3>1 DEF AccountingFails, Rows
  <2>4. QED
    BY <1>2, <1>3, <2>1, <2>2, <2>3 DEF TypeOK
<1>5. /\ \A v \in Workers \ {w} : worker'[v] = worker[v]
      /\ worker[w].step = "closing" /\ worker'[w].step = "tripping"
      /\ worker'[w].signal = s /\ worker'[w].lease = worker[w].lease
  BY <1>1, <1>2, <1>3 DEF AccountingFails, TypeOK, Submits
<1>6. ledger'[s].status = "UNKNOWN" /\ ledger'[s].generation = ledger[s].generation /\ (signal'[s] = "READY" => signal[s] = "READY")
  BY <1>1, <1>2, <1>3 DEF AccountingFails, TypeOK, Rows, SignalStatuses
<1>7. SignalInvariant(s)'
  <2>1. Exclusive(s)'
    BY <1>1, <1>2, <1>3, <1>5, <1>6 DEF SignalInvariant, Exclusive, Busy, StepOK
  <2>2. Pristine(s)'
    BY <1>1, <1>2, <1>3, <1>5, <1>6 DEF SignalInvariant, Pristine, StepOK, Busy, ThreadOK,
       HeldOK, Dead, NoOrder
  <2>3. ThreadOK(s)'
    BY <1>1, <1>2, <1>3, <1>5, <1>6 DEF SignalInvariant, ThreadOK, Pristine, StepOK, HeldOK,
       Dead, NoOrder
  <2>4. HeldOK(s)'
    BY <1>1, <1>2, <1>3, <1>5, <1>6 DEF SignalInvariant, HeldOK, Pristine, StepOK, ThreadOK,
       Dead, NoOrder
  <2>5. ASSUME NEW v \in Workers, Busy(v, s)'
        PROVE  StepOK(v, s)'
    BY <1>1, <1>2, <1>3, <1>5, <1>6, <2>5 DEF SignalInvariant, StepOK, Exclusive, Busy,
       Pristine, ThreadOK, HeldOK, Dead
  <2>6. QED
    BY <2>1, <2>2, <2>3, <2>4, <2>5 DEF SignalInvariant
<1>8. Working' /\ LeasesApart'
  BY <1>1, <1>2, <1>3, <1>5, <1>6 DEF Working, LeasesApart
<1>9. ASSUME NEW t \in Signals \ {s}
      PROVE  Elsewhere(t)
  BY <1>1, <1>2, <1>3, <1>5, <1>6 DEF Elsewhere, Busy, TypeOK, AccountingFails
<1>10. QED
  BY <1>4, <1>7, <1>8, <1>9, OneSignal

(* kill() reads the control row.                                           *)
LEMMA TripBreakerKeeps ==
    ASSUME NEW w \in Workers, EntryInvariant, TripBreaker(w)
    PROVE  EntryInvariant'
<1>1. PICK s \in Signals : worker[w].signal = s /\ Busy(w, s)
  BY DEF EntryInvariant, Working, TripBreaker, Busy
<1>2. UNCHANGED <<control, setter, lease, signal, ledger, reservation, attempt, transport, venue,
     posts, cleared, reopened>>
  BY DEF TripBreaker, Halt, controlVars, ledgerVars, history
<1>3. TypeOK /\ SignalInvariant(s) /\ Working /\ LeasesApart
  BY <1>1 DEF EntryInvariant
<1>4. TypeOK'
  <2>1. worker' \in [Workers -> Submits]
    <3>1. worker \in [Workers -> Submits] /\ control.generation \in Nat
      BY <1>3 DEF TypeOK, Controls
    <3>2. CASE Halt(w)
      BY <3>1, <3>2 DEF Halt, Submits
    <3>3. CASE worker' = [worker EXCEPT ![w] =
                 [@ EXCEPT !.step = "killing", !.generation = control.generation]]
      BY <3>1, <3>3 DEF Submits
    <3>4. QED
      BY <3>2, <3>3 DEF TripBreaker
  <2>2. QED
    BY <1>2, <1>3, <2>1 DEF TypeOK
<1>5. /\ \A v \in Workers \ {w} : worker'[v] = worker[v]
      /\ worker[w].step = "tripping" /\ worker'[w].step \in {"idle", "killing"}
      /\ worker'[w].lease = worker[w].lease
      /\ worker'[w].step = "killing" => worker'[w].signal = s
  <2>1. worker \in [Workers -> Submits] /\ worker[w].step = "tripping"
    BY <1>3 DEF TypeOK, TripBreaker
  <2>2. CASE Halt(w)
    BY <2>1, <2>2 DEF Halt, Submits
  <2>3. CASE worker' = [worker EXCEPT ![w] =
               [@ EXCEPT !.step = "killing", !.generation = control.generation]]
    BY <1>1, <2>1, <2>3 DEF Submits
  <2>4. QED
    BY <2>2, <2>3 DEF TripBreaker
<1>6. SignalInvariant(s)'
  <2>1. Exclusive(s)'
    BY <1>1, <1>2, <1>3, <1>5 DEF SignalInvariant, Exclusive, Busy, StepOK
  <2>2. Pristine(s)'
    BY <1>1, <1>2, <1>3, <1>5 DEF SignalInvariant, Pristine, StepOK, Busy, ThreadOK, HeldOK,
       Dead, NoOrder
  <2>3. ThreadOK(s)'
    BY <1>1, <1>2, <1>3, <1>5 DEF SignalInvariant, ThreadOK, Pristine, StepOK, HeldOK, Dead,
       NoOrder
  <2>4. HeldOK(s)'
    BY <1>1, <1>2, <1>3, <1>5 DEF SignalInvariant, HeldOK, Pristine, StepOK, ThreadOK, Dead,
       NoOrder
  <2>5. ASSUME NEW v \in Workers, Busy(v, s)'
        PROVE  StepOK(v, s)'
    BY <1>1, <1>2, <1>3, <1>5, <2>5 DEF SignalInvariant, StepOK, Exclusive, Busy, Pristine,
       ThreadOK, HeldOK, Dead
  <2>6. QED
    BY <2>1, <2>2, <2>3, <2>4, <2>5 DEF SignalInvariant
<1>7. Working' /\ LeasesApart'
  BY <1>1, <1>2, <1>3, <1>5 DEF Working, LeasesApart
<1>8. ASSUME NEW t \in Signals \ {s}
      PROVE  Elsewhere(t)
  BY <1>1, <1>2, <1>3, <1>5 DEF Elsewhere, Busy, TypeOK, TripBreaker, Halt
<1>9. QED
  BY <1>4, <1>6, <1>7, <1>8, OneSignal

(* The kill latch is set.                                                  *)
LEMMA LatchKillKeeps ==
    ASSUME NEW w \in Workers, EntryInvariant, LatchKill(w)
    PROVE  EntryInvariant'
<1>1. PICK s \in Signals : worker[w].signal = s /\ Busy(w, s)
  BY DEF EntryInvariant, Working, LatchKill, Busy
<1>2. UNCHANGED <<setter, lease, signal, ledger, reservation, attempt, transport, venue,
     posts, cleared, reopened>>
  BY DEF LatchKill, Halt, controlVars, ledgerVars, history
<1>3. TypeOK /\ SignalInvariant(s) /\ Working /\ LeasesApart
  BY <1>1 DEF EntryInvariant
<1>4. TypeOK'
  <2>1. control' \in Controls
    <3>1. worker[w] \in Submits
      BY <1>3 DEF TypeOK
    <3>2. worker[w].generation + 1 \in Nat
      BY <3>1 DEF Submits
    <3>3. QED
      BY <3>2 DEF LatchKill, Controls
  <2>2. worker' \in [Workers -> Submits]
    <3>1. worker \in [Workers -> Submits]
      BY <1>3 DEF TypeOK
    <3>2. QED
      BY <3>1 DEF LatchKill, Halt, Submits
  <2>3. QED
    BY <1>2, <1>3, <2>1, <2>2 DEF TypeOK
<1>5. /\ \A v \in Workers \ {w} : worker'[v] = worker[v]
      /\ worker'[w].step = "idle" /\ worker'[w].lease = worker[w].lease
  BY <1>1, <1>2, <1>3 DEF LatchKill, Halt, TypeOK, Submits
<1>6. SignalInvariant(s)'
  <2>1. Exclusive(s)'
    BY <1>1, <1>2, <1>3, <1>5 DEF SignalInvariant, Exclusive, Busy, StepOK
  <2>2. Pristine(s)'
    BY <1>1, <1>2, <1>3, <1>5 DEF SignalInvariant, Pristine, StepOK, Busy, ThreadOK, HeldOK,
       Dead, NoOrder
  <2>3. ThreadOK(s)'
    BY <1>1, <1>2, <1>3, <1>5 DEF SignalInvariant, ThreadOK, Pristine, StepOK, HeldOK, Dead,
       NoOrder
  <2>4. HeldOK(s)'
    BY <1>1, <1>2, <1>3, <1>5 DEF SignalInvariant, HeldOK, Pristine, StepOK, ThreadOK, Dead,
       NoOrder
  <2>5. ASSUME NEW v \in Workers, Busy(v, s)'
        PROVE  StepOK(v, s)'
    BY <1>1, <1>2, <1>3, <1>5, <2>5 DEF SignalInvariant, StepOK, Exclusive, Busy, Pristine,
       ThreadOK, HeldOK, Dead
  <2>6. QED
    BY <2>1, <2>2, <2>3, <2>4, <2>5 DEF SignalInvariant
<1>7. Working' /\ LeasesApart'
  BY <1>1, <1>2, <1>3, <1>5 DEF Working, LeasesApart
<1>8. ASSUME NEW t \in Signals \ {s}
      PROVE  Elsewhere(t)
  BY <1>1, <1>2, <1>3, <1>5 DEF Elsewhere, Busy, TypeOK, LatchKill, Halt
<1>9. QED
  BY <1>4, <1>6, <1>7, <1>8, OneSignal

(* How the thread moves on, and how it answers.                            *)
LEMMA ThreadMoves ==
    ASSUME TypeOK, NEW s \in Signals,
           NEW step \in {"signed", "fenced", "started", "cleared"},
           transport' = [transport EXCEPT ![s].step = step]
    PROVE  /\ transport' \in [Signals -> Threads]
           /\ \A t \in Signals \ {s} : transport'[t] = transport[t]
           /\ transport'[s].step = step
           /\ transport'[s].worker = transport[s].worker
<1>1. transport \in [Signals -> Threads]
  BY DEF TypeOK
<1>2. QED
  BY <1>1 DEF Threads

LEMMA ThreadAnswers ==
    ASSUME TypeOK, NEW s \in Signals,
           NEW result \in {"ACCEPTED", "REJECTED", "REFUSED", "FAILED"}, Answers(s, result)
    PROVE  /\ transport' \in [Signals -> Threads]
           /\ \A t \in Signals \ {s} : transport'[t] = transport[t]
           /\ transport'[s].step = "done" /\ transport'[s].result = result
           /\ transport'[s].worker = transport[s].worker
<1>1. transport \in [Signals -> Threads]
  BY DEF TypeOK
<1>2. QED
  BY <1>1 DEF Answers, Threads

(* The order is bound to its reservation.                                  *)
LEMMA PrepareOrderKeeps ==
    ASSUME NEW s \in Signals, EntryInvariant, PrepareOrder(s)
    PROVE  EntryInvariant'
<1>1. s \in Signals
  OBVIOUS
<1>2. UNCHANGED <<control, setter, lease, signal, ledger, reservation, attempt, worker,
     venue, posts, cleared, reopened>>
  BY DEF PrepareOrder, controlVars, ledgerVars, history
<1>3. TypeOK /\ SignalInvariant(s) /\ Working /\ LeasesApart
  BY <1>1 DEF EntryInvariant
<1>4. TypeOK'
  <2>1. transport' \in [Signals -> Threads]
    BY <1>1, <1>3, ThreadMoves, ThreadAnswers DEF PrepareOrder
  <2>2. QED
    BY <1>2, <1>3, <2>1 DEF TypeOK
<1>5. transport[s].step = "called"
  BY <1>1, <1>2, <1>3 DEF PrepareOrder, TypeOK
<1>6. /\ \A t \in Signals \ {s} : transport'[t] = transport[t]
      /\ transport'[s].step \in {"signed", "done"}
      /\ transport'[s].worker = transport[s].worker
      /\ transport'[s].step = "signed" => ledger[s].generation = reservation[s].generation
      /\ transport'[s].step = "done" => transport'[s].result = "REFUSED"
  BY <1>1, <1>3, ThreadMoves, ThreadAnswers DEF PrepareOrder
<1>7. SignalInvariant(s)'
  <2>1. Exclusive(s)'
    BY <1>1, <1>2, <1>3, <1>5, <1>6 DEF SignalInvariant, Exclusive, Busy, StepOK
  <2>2. Pristine(s)'
    BY <1>1, <1>2, <1>3, <1>5, <1>6 DEF SignalInvariant, Pristine, StepOK, Busy, ThreadOK,
       HeldOK, Dead, NoOrder
  <2>3. ThreadOK(s)'
    BY <1>1, <1>2, <1>3, <1>5, <1>6 DEF SignalInvariant, ThreadOK, Pristine, StepOK, HeldOK,
       Dead, NoOrder
  <2>4. HeldOK(s)'
    BY <1>1, <1>2, <1>3, <1>5, <1>6 DEF SignalInvariant, HeldOK, Pristine, StepOK, ThreadOK,
       Dead, NoOrder
  <2>5. ASSUME NEW v \in Workers, Busy(v, s)'
        PROVE  StepOK(v, s)'
    BY <1>1, <1>2, <1>3, <1>5, <1>6, <2>5 DEF SignalInvariant, StepOK, Exclusive, Busy,
       Pristine, ThreadOK, HeldOK, Dead
  <2>6. QED
    BY <2>1, <2>2, <2>3, <2>4, <2>5 DEF SignalInvariant
<1>8. Working' /\ LeasesApart'
  BY <1>1, <1>2, <1>3, <1>5, <1>6 DEF Working, LeasesApart
<1>9. ASSUME NEW t \in Signals \ {s}
      PROVE  Elsewhere(t)
  BY <1>1, <1>2, <1>3, <1>5, <1>6 DEF Elsewhere, Busy, TypeOK, PrepareOrder
<1>10. QED
  BY <1>4, <1>7, <1>8, <1>9, OneSignal

(* before_post refuses.                                                    *)
LEMMA FenceRefusesKeeps ==
    ASSUME NEW s \in Signals, EntryInvariant, FenceRefuses(s)
    PROVE  EntryInvariant'
<1>1. s \in Signals
  OBVIOUS
<1>2. UNCHANGED <<control, setter, lease, ledger, reservation, attempt, worker, venue, posts,
     cleared, reopened>>
  BY DEF FenceRefuses, controlVars, ledgerVars, history
<1>3. TypeOK /\ SignalInvariant(s) /\ Working /\ LeasesApart
  BY <1>1 DEF EntryInvariant
<1>4. TypeOK'
  <2>1. transport' \in [Signals -> Threads]
    BY <1>1, <1>3, ThreadMoves, ThreadAnswers DEF FenceRefuses
  <2>2. signal' \in [Signals -> SignalStatuses]
    <3>1. signal \in [Signals -> SignalStatuses]
      BY <1>3 DEF TypeOK
    <3>2. QED
      BY <1>1, <3>1 DEF FenceRefuses, SignalStatuses
  <2>3. QED
    BY <1>2, <1>3, <2>1, <2>2 DEF TypeOK
<1>5. transport[s].step \in {"signed", "started"}
  BY <1>1, <1>2, <1>3 DEF FenceRefuses, TypeOK
<1>6. /\ \A t \in Signals \ {s} : transport'[t] = transport[t]
      /\ transport'[s].step = "done"
      /\ transport'[s].worker = transport[s].worker
      /\ transport'[s].result \in {"REFUSED", "FAILED"}
  BY <1>1, <1>3, ThreadMoves, ThreadAnswers DEF FenceRefuses
<1>7. /\ \A t \in Signals \ {s} : signal'[t] = signal[t]
      /\ signal'[s] = "READY" => signal[s] = "READY"
  BY <1>1, <1>2, <1>3 DEF FenceRefuses, TypeOK
<1>8. SignalInvariant(s)'
  <2>1. Exclusive(s)'
    BY <1>1, <1>2, <1>3, <1>5, <1>6, <1>7 DEF SignalInvariant, Exclusive, Busy, StepOK
  <2>2. Pristine(s)'
    BY <1>1, <1>2, <1>3, <1>5, <1>6, <1>7 DEF SignalInvariant, Pristine, StepOK, Busy,
       ThreadOK, HeldOK, Dead, NoOrder
  <2>3. ThreadOK(s)'
    BY <1>1, <1>2, <1>3, <1>5, <1>6, <1>7 DEF SignalInvariant, ThreadOK, Pristine, StepOK,
       HeldOK, Dead, NoOrder
  <2>4. HeldOK(s)'
    BY <1>1, <1>2, <1>3, <1>5, <1>6, <1>7 DEF SignalInvariant, HeldOK, Pristine, StepOK,
       ThreadOK, Dead, NoOrder
  <2>5. ASSUME NEW v \in Workers, Busy(v, s)'
        PROVE  StepOK(v, s)'
    BY <1>1, <1>2, <1>3, <1>5, <1>6, <1>7, <2>5 DEF SignalInvariant, StepOK, Exclusive, Busy,
       Pristine, ThreadOK, HeldOK, Dead
  <2>6. QED
    BY <2>1, <2>2, <2>3, <2>4, <2>5 DEF SignalInvariant
<1>9. Working' /\ LeasesApart'
  BY <1>1, <1>2, <1>3, <1>5, <1>6, <1>7 DEF Working, LeasesApart
<1>10. ASSUME NEW t \in Signals \ {s}
      PROVE  Elsewhere(t)
  BY <1>1, <1>2, <1>3, <1>5, <1>6, <1>7 DEF Elsewhere, Busy, TypeOK, FenceRefuses
<1>11. QED
  BY <1>4, <1>8, <1>9, <1>10, OneSignal

(* before_post passes.                                                     *)
LEMMA FirstFenceKeeps ==
    ASSUME NEW s \in Signals, EntryInvariant, FirstFence(s)
    PROVE  EntryInvariant'
<1>1. s \in Signals
  OBVIOUS
<1>2. UNCHANGED <<control, setter, lease, signal, ledger, reservation, attempt, worker,
     venue, posts, cleared, reopened>>
  BY DEF FirstFence, controlVars, ledgerVars, history
<1>3. TypeOK /\ SignalInvariant(s) /\ Working /\ LeasesApart
  BY <1>1 DEF EntryInvariant
<1>4. TypeOK'
  <2>1. transport' \in [Signals -> Threads]
    BY <1>1, <1>3, ThreadMoves, ThreadAnswers DEF FirstFence
  <2>2. QED
    BY <1>2, <1>3, <2>1 DEF TypeOK
<1>5. transport[s].step = "signed"
  BY <1>1, <1>2, <1>3 DEF FirstFence, TypeOK
<1>6. /\ \A t \in Signals \ {s} : transport'[t] = transport[t]
      /\ transport'[s].step = "fenced"
      /\ transport'[s].worker = transport[s].worker
  BY <1>1, <1>3, ThreadMoves, ThreadAnswers DEF FirstFence
<1>7. SignalInvariant(s)'
  <2>1. Exclusive(s)'
    BY <1>1, <1>2, <1>3, <1>5, <1>6 DEF SignalInvariant, Exclusive, Busy, StepOK
  <2>2. Pristine(s)'
    BY <1>1, <1>2, <1>3, <1>5, <1>6 DEF SignalInvariant, Pristine, StepOK, Busy, ThreadOK,
       HeldOK, Dead, NoOrder
  <2>3. ThreadOK(s)'
    BY <1>1, <1>2, <1>3, <1>5, <1>6 DEF SignalInvariant, ThreadOK, Pristine, StepOK, HeldOK,
       Dead, NoOrder
  <2>4. HeldOK(s)'
    BY <1>1, <1>2, <1>3, <1>5, <1>6 DEF SignalInvariant, HeldOK, Pristine, StepOK, ThreadOK,
       Dead, NoOrder
  <2>5. ASSUME NEW v \in Workers, Busy(v, s)'
        PROVE  StepOK(v, s)'
    BY <1>1, <1>2, <1>3, <1>5, <1>6, <2>5 DEF SignalInvariant, StepOK, Exclusive, Busy,
       Pristine, ThreadOK, HeldOK, Dead
  <2>6. QED
    BY <2>1, <2>2, <2>3, <2>4, <2>5 DEF SignalInvariant
<1>8. Working' /\ LeasesApart'
  BY <1>1, <1>2, <1>3, <1>5, <1>6 DEF Working, LeasesApart
<1>9. ASSUME NEW t \in Signals \ {s}
      PROVE  Elsewhere(t)
  BY <1>1, <1>2, <1>3, <1>5, <1>6 DEF Elsewhere, Busy, TypeOK, FirstFence
<1>10. QED
  BY <1>4, <1>7, <1>8, <1>9, OneSignal

(* The send is marked, or was cancelled.                                   *)
LEMMA MarkSendStartedKeeps ==
    ASSUME NEW s \in Signals, EntryInvariant, MarkSendStarted(s)
    PROVE  EntryInvariant'
<1>1. s \in Signals
  OBVIOUS
<1>2. UNCHANGED <<control, setter, lease, signal, ledger, reservation, attempt, worker,
     venue, posts, cleared, reopened>>
  BY DEF MarkSendStarted, controlVars, ledgerVars, history
<1>3. TypeOK /\ SignalInvariant(s) /\ Working /\ LeasesApart
  BY <1>1 DEF EntryInvariant
<1>4. TypeOK'
  <2>1. transport' \in [Signals -> Threads]
    BY <1>1, <1>3, ThreadMoves, ThreadAnswers DEF MarkSendStarted
  <2>2. QED
    BY <1>2, <1>3, <2>1 DEF TypeOK
<1>5. transport[s].step = "fenced"
  BY <1>1, <1>2, <1>3 DEF MarkSendStarted, TypeOK
<1>6. /\ \A t \in Signals \ {s} : transport'[t] = transport[t]
      /\ transport'[s].step \in {"started", "done"}
      /\ transport'[s].worker = transport[s].worker
      /\ transport'[s].step = "done" => transport'[s].result = "REFUSED"
  BY <1>1, <1>3, ThreadMoves, ThreadAnswers DEF MarkSendStarted
<1>7. SignalInvariant(s)'
  <2>1. Exclusive(s)'
    BY <1>1, <1>2, <1>3, <1>5, <1>6 DEF SignalInvariant, Exclusive, Busy, StepOK
  <2>2. Pristine(s)'
    BY <1>1, <1>2, <1>3, <1>5, <1>6 DEF SignalInvariant, Pristine, StepOK, Busy, ThreadOK,
       HeldOK, Dead, NoOrder
  <2>3. ThreadOK(s)'
    BY <1>1, <1>2, <1>3, <1>5, <1>6 DEF SignalInvariant, ThreadOK, Pristine, StepOK, HeldOK,
       Dead, NoOrder
  <2>4. HeldOK(s)'
    BY <1>1, <1>2, <1>3, <1>5, <1>6 DEF SignalInvariant, HeldOK, Pristine, StepOK, ThreadOK,
       Dead, NoOrder
  <2>5. ASSUME NEW v \in Workers, Busy(v, s)'
        PROVE  StepOK(v, s)'
    BY <1>1, <1>2, <1>3, <1>5, <1>6, <2>5 DEF SignalInvariant, StepOK, Exclusive, Busy,
       Pristine, ThreadOK, HeldOK, Dead
  <2>6. QED
    BY <2>1, <2>2, <2>3, <2>4, <2>5 DEF SignalInvariant
<1>8. Working' /\ LeasesApart'
  BY <1>1, <1>2, <1>3, <1>5, <1>6 DEF Working, LeasesApart
<1>9. ASSUME NEW t \in Signals \ {s}
      PROVE  Elsewhere(t)
  BY <1>1, <1>2, <1>3, <1>5, <1>6 DEF Elsewhere, Busy, TypeOK, MarkSendStarted
<1>10. QED
  BY <1>4, <1>7, <1>8, <1>9, OneSignal

(* before_post passes again.                                               *)
LEMMA SecondFenceKeeps ==
    ASSUME NEW s \in Signals, EntryInvariant, SecondFence(s)
    PROVE  EntryInvariant'
<1>1. s \in Signals
  OBVIOUS
<1>2. UNCHANGED <<control, setter, lease, signal, ledger, reservation, attempt, worker,
     venue, posts, reopened>>
  BY DEF SecondFence, controlVars, ledgerVars, history
<1>3. TypeOK /\ SignalInvariant(s) /\ Working /\ LeasesApart
  BY <1>1 DEF EntryInvariant
<1>4. TypeOK'
  <2>1. transport' \in [Signals -> Threads]
    BY <1>1, <1>3, ThreadMoves, ThreadAnswers DEF SecondFence
  <2>2. cleared' \in [Signals -> Nat \X Nat]
    <3>1. cleared \in [Signals -> Nat \X Nat] /\ control.generation \in Nat /\ lease.generation \in Nat
      BY <1>3 DEF TypeOK, Controls, Leases
    <3>2. QED
      BY <1>1, <3>1 DEF SecondFence
  <2>3. QED
    BY <1>2, <1>3, <2>1, <2>2 DEF TypeOK
<1>5. transport[s].step = "started"
  BY <1>1, <1>2, <1>3 DEF SecondFence, TypeOK
<1>6. /\ \A t \in Signals \ {s} : transport'[t] = transport[t]
      /\ transport'[s].step = "cleared"
      /\ transport'[s].worker = transport[s].worker
  BY <1>1, <1>3, ThreadMoves, ThreadAnswers DEF SecondFence
<1>7. /\ ledger[s].status = "SUBMITTING"
      /\ \A t \in Signals \ {s} : cleared'[t] = cleared[t]
  BY <1>1, <1>2, <1>3 DEF SecondFence, TypeOK, RowCurrent
<1>8. cleared'[s] = <<reservation[s].generation, reservation[s].lease>>
  BY <1>1, <1>2, <1>3, <1>5 DEF SecondFence, TypeOK, SignalInvariant, ThreadOK, RowCurrent,
     AuthorityCurrent, HoldsLease
<1>9. SignalInvariant(s)'
  <2>1. Exclusive(s)'
    BY <1>1, <1>2, <1>3, <1>5, <1>6, <1>7, <1>8 DEF SignalInvariant, Exclusive, Busy, StepOK
  <2>2. Pristine(s)'
    BY <1>1, <1>2, <1>3, <1>5, <1>6, <1>7, <1>8 DEF SignalInvariant, Pristine, StepOK, Busy,
       ThreadOK, HeldOK, Dead, NoOrder
  <2>3. ThreadOK(s)'
    BY <1>1, <1>2, <1>3, <1>5, <1>6, <1>7, <1>8 DEF SignalInvariant, ThreadOK, Pristine,
       StepOK, HeldOK, Dead, NoOrder
  <2>4. HeldOK(s)'
    BY <1>1, <1>2, <1>3, <1>5, <1>6, <1>7, <1>8 DEF SignalInvariant, HeldOK, Pristine,
       StepOK, ThreadOK, Dead, NoOrder
  <2>5. ASSUME NEW v \in Workers, Busy(v, s)'
        PROVE  StepOK(v, s)'
    BY <1>1, <1>2, <1>3, <1>5, <1>6, <1>7, <1>8, <2>5 DEF SignalInvariant, StepOK, Exclusive,
       Busy, Pristine, ThreadOK, HeldOK, Dead
  <2>6. QED
    BY <2>1, <2>2, <2>3, <2>4, <2>5 DEF SignalInvariant
<1>10. Working' /\ LeasesApart'
  BY <1>1, <1>2, <1>3, <1>5, <1>6, <1>7, <1>8 DEF Working, LeasesApart
<1>11. ASSUME NEW t \in Signals \ {s}
      PROVE  Elsewhere(t)
  BY <1>1, <1>2, <1>3, <1>5, <1>6, <1>7, <1>8 DEF Elsewhere, Busy, TypeOK, SecondFence
<1>12. QED
  BY <1>4, <1>9, <1>10, <1>11, OneSignal

(* The POST does not leave.                                                *)
LEMMA PostFailsKeeps ==
    ASSUME NEW s \in Signals, EntryInvariant, PostFails(s)
    PROVE  EntryInvariant'
<1>1. s \in Signals
  OBVIOUS
<1>2. UNCHANGED <<control, setter, lease, signal, ledger, reservation, attempt, worker,
     venue, posts, cleared, reopened>>
  BY DEF PostFails, controlVars, ledgerVars, history
<1>3. TypeOK /\ SignalInvariant(s) /\ Working /\ LeasesApart
  BY <1>1 DEF EntryInvariant
<1>4. TypeOK'
  <2>1. transport' \in [Signals -> Threads]
    BY <1>1, <1>3, ThreadMoves, ThreadAnswers DEF PostFails
  <2>2. QED
    BY <1>2, <1>3, <2>1 DEF TypeOK
<1>5. transport[s].step = "cleared"
  BY <1>1, <1>2, <1>3 DEF PostFails, TypeOK
<1>6. /\ \A t \in Signals \ {s} : transport'[t] = transport[t]
      /\ transport'[s].step = "done"
      /\ transport'[s].worker = transport[s].worker
      /\ transport'[s].result \in {"REFUSED", "FAILED"}
  BY <1>1, <1>3, ThreadMoves, ThreadAnswers DEF PostFails
<1>7. SignalInvariant(s)'
  <2>1. Exclusive(s)'
    BY <1>1, <1>2, <1>3, <1>5, <1>6 DEF SignalInvariant, Exclusive, Busy, StepOK
  <2>2. Pristine(s)'
    BY <1>1, <1>2, <1>3, <1>5, <1>6 DEF SignalInvariant, Pristine, StepOK, Busy, ThreadOK,
       HeldOK, Dead, NoOrder
  <2>3. ThreadOK(s)'
    BY <1>1, <1>2, <1>3, <1>5, <1>6 DEF SignalInvariant, ThreadOK, Pristine, StepOK, HeldOK,
       Dead, NoOrder
  <2>4. HeldOK(s)'
    BY <1>1, <1>2, <1>3, <1>5, <1>6 DEF SignalInvariant, HeldOK, Pristine, StepOK, ThreadOK,
       Dead, NoOrder
  <2>5. ASSUME NEW v \in Workers, Busy(v, s)'
        PROVE  StepOK(v, s)'
    BY <1>1, <1>2, <1>3, <1>5, <1>6, <2>5 DEF SignalInvariant, StepOK, Exclusive, Busy,
       Pristine, ThreadOK, HeldOK, Dead
  <2>6. QED
    BY <2>1, <2>2, <2>3, <2>4, <2>5 DEF SignalInvariant
<1>8. Working' /\ LeasesApart'
  BY <1>1, <1>2, <1>3, <1>5, <1>6 DEF Working, LeasesApart
<1>9. ASSUME NEW t \in Signals \ {s}
      PROVE  Elsewhere(t)
  BY <1>1, <1>2, <1>3, <1>5, <1>6 DEF Elsewhere, Busy, TypeOK, PostFails
<1>10. QED
  BY <1>4, <1>7, <1>8, <1>9, OneSignal

(* The POST.                                                               *)
LEMMA PostKeeps ==
    ASSUME NEW s \in Signals, EntryInvariant, Post(s)
    PROVE  EntryInvariant'
<1>1. s \in Signals
  OBVIOUS
<1>2. UNCHANGED <<control, setter, lease, signal, ledger, reservation, attempt, worker,
     cleared, reopened>>
  BY DEF Post, controlVars, ledgerVars, history
<1>3. TypeOK /\ SignalInvariant(s) /\ Working /\ LeasesApart
  BY <1>1 DEF EntryInvariant
<1>4. TypeOK'
  <2>1. transport' \in [Signals -> Threads]
    BY <1>1, <1>3, ThreadMoves, ThreadAnswers DEF Post
  <2>2. venue' \in [Signals -> Orders]
    <3>1. venue \in [Signals -> Orders]
      BY <1>3 DEF TypeOK
    <3>2. QED
      BY <1>1, <3>1 DEF Post, Orders
  <2>3. posts' \in [Signals -> Nat]
    <3>1. posts \in [Signals -> Nat]
      BY <1>3 DEF TypeOK
    <3>2. QED
      BY <1>1, <3>1 DEF Post
  <2>4. QED
    BY <1>2, <1>3, <2>1, <2>2, <2>3 DEF TypeOK
<1>5. transport[s].step = "cleared"
  BY <1>1, <1>2, <1>3 DEF Post, TypeOK
<1>6. /\ \A t \in Signals \ {s} : transport'[t] = transport[t]
      /\ transport'[s].step = "done"
      /\ transport'[s].worker = transport[s].worker
      /\ \/ /\ transport'[s].result \in {"ACCEPTED", "FAILED"}
            /\ venue' = [venue EXCEPT ![s].state = "OPEN"]
         \/ transport'[s].result = "REJECTED" /\ venue' = venue
  BY <1>1, <1>3, ThreadMoves, ThreadAnswers DEF Post
<1>7. venue \in [Signals -> Orders]
  BY <1>1, <1>3 DEF TypeOK
<1>8. /\ \A t \in Signals \ {s} : venue'[t] = venue[t]
      /\ venue'[s].state = "OPEN" \/ (venue'[s] = venue[s] /\ transport'[s].result = "REJECTED")
      /\ venue'[s].filled = venue[s].filled /\ venue'[s].listed = venue[s].listed
  <2>1. CASE venue' = venue /\ transport'[s].result = "REJECTED"
    BY <1>1, <1>7, <2>1
  <2>2. CASE venue' = [venue EXCEPT ![s].state = "OPEN"]
    BY <1>1, <1>7, <2>2 DEF Orders
  <2>3. QED
    BY <1>6, <2>1, <2>2
<1>9. /\ \A t \in Signals \ {s} : posts'[t] = posts[t]
      /\ posts'[s] = posts[s] + 1 /\ posts[s] = 0 /\ venue[s] = NoOrder
  BY <1>1, <1>2, <1>3, <1>5 DEF Post, TypeOK, SignalInvariant, ThreadOK
<1>10. OrderQuantity > 0
  BY <1>1, <1>2, <1>3, EntryConstants DEF Post, TypeOK, EntryConstants
<1>11. SignalInvariant(s)'
  <2>1. Exclusive(s)'
    BY <1>1, <1>2, <1>3, <1>5, <1>6, <1>7, <1>8, <1>9, <1>10 DEF SignalInvariant, Exclusive,
       Busy, StepOK
  <2>2. Pristine(s)'
    BY <1>1, <1>2, <1>3, <1>5, <1>6, <1>7, <1>8, <1>9, <1>10 DEF SignalInvariant, Pristine,
       StepOK, Busy, ThreadOK, HeldOK, Dead, NoOrder
  <2>3. ThreadOK(s)'
    BY <1>1, <1>2, <1>3, <1>5, <1>6, <1>7, <1>8, <1>9, <1>10 DEF SignalInvariant, ThreadOK,
       Pristine, StepOK, HeldOK, Dead, NoOrder
  <2>4. HeldOK(s)'
    BY <1>1, <1>2, <1>3, <1>5, <1>6, <1>7, <1>8, <1>9, <1>10 DEF SignalInvariant, HeldOK,
       Pristine, StepOK, ThreadOK, Dead, NoOrder
  <2>5. ASSUME NEW v \in Workers, Busy(v, s)'
        PROVE  StepOK(v, s)'
    BY <1>1, <1>2, <1>3, <1>5, <1>6, <1>7, <1>8, <1>9, <1>10, <2>5 DEF SignalInvariant,
       StepOK, Exclusive, Busy, Pristine, ThreadOK, HeldOK, Dead, NoOrder
  <2>6. QED
    BY <2>1, <2>2, <2>3, <2>4, <2>5 DEF SignalInvariant
<1>12. Working' /\ LeasesApart'
  BY <1>1, <1>2, <1>3, <1>5, <1>6, <1>7, <1>8, <1>9, <1>10 DEF Working, LeasesApart
<1>13. ASSUME NEW t \in Signals \ {s}
      PROVE  Elsewhere(t)
  BY <1>1, <1>2, <1>3, <1>5, <1>6, <1>7, <1>8, <1>9, <1>10 DEF Elsewhere, Busy, TypeOK, Post
<1>14. QED
  BY <1>4, <1>11, <1>12, <1>13, OneSignal

(* A fill at the venue.                                                    *)
LEMMA VenueFillKeeps ==
    ASSUME NEW s \in Signals, EntryInvariant, VenueFill(s)
    PROVE  EntryInvariant'
<1>1. s \in Signals
  OBVIOUS
<1>2. UNCHANGED <<control, setter, lease, signal, ledger, reservation, attempt, worker,
     transport, posts, cleared, reopened>>
  BY DEF VenueFill, controlVars, ledgerVars, history
<1>3. TypeOK /\ SignalInvariant(s) /\ Working /\ LeasesApart
  BY <1>1 DEF EntryInvariant
<1>4. TypeOK'
  <2>1. venue' \in [Signals -> Orders]
    <3>1. venue \in [Signals -> Orders] /\ OrderQuantity \in Nat
      BY <1>3, EntryConstants DEF TypeOK, EntryConstants
    <3>2. venue[s].state = "OPEN" /\ venue[s].filled < OrderQuantity
      BY <1>3 DEF VenueFill, SignalInvariant, HeldOK
    <3>3. QED
      BY <1>1, <3>1, <3>2 DEF VenueFill, Orders
  <2>2. QED
    BY <1>2, <1>3, <2>1 DEF TypeOK
<1>5. venue[s].filled \in Nat /\ venue[s].listed \in Nat /\ reservation[s].filled \in Nat /\ OrderQuantity \in Nat /\ posts[s] \in Nat
  BY <1>1, <1>2, <1>3, EntryConstants DEF VenueFill, TypeOK, Orders, Reservations,
     EntryConstants
<1>6. /\ \A t \in Signals \ {s} : venue'[t] = venue[t]
      /\ venue[s].state = "OPEN"
      /\ venue'[s].state \in {"OPEN", "MATCHED"}
      /\ venue'[s].filled = venue[s].filled + 1 /\ venue'[s].listed = venue[s].listed
      /\ venue'[s].state = "OPEN" => venue'[s].filled # OrderQuantity
  BY <1>1, <1>2, <1>3, <1>5 DEF VenueFill, TypeOK, Orders
<1>7. SignalInvariant(s)'
  <2>1. Exclusive(s)'
    BY <1>1, <1>2, <1>3, <1>5, <1>6 DEF SignalInvariant, Exclusive, Busy, StepOK
  <2>2. Pristine(s)'
    BY <1>1, <1>2, <1>3, <1>5, <1>6 DEF SignalInvariant, Pristine, StepOK, Busy, ThreadOK,
       HeldOK, Dead, NoOrder
  <2>3. ThreadOK(s)'
    BY <1>1, <1>2, <1>3, <1>5, <1>6 DEF SignalInvariant, ThreadOK, Pristine, StepOK, HeldOK,
       Dead, NoOrder
  <2>4. HeldOK(s)'
    BY <1>1, <1>2, <1>3, <1>5, <1>6 DEF SignalInvariant, HeldOK, Pristine, StepOK, ThreadOK,
       Dead, NoOrder
  <2>5. ASSUME NEW v \in Workers, Busy(v, s)'
        PROVE  StepOK(v, s)'
    BY <1>1, <1>2, <1>3, <1>5, <1>6, <2>5 DEF SignalInvariant, StepOK, Exclusive, Busy,
       Pristine, ThreadOK, HeldOK, Dead, NoOrder
  <2>6. QED
    BY <2>1, <2>2, <2>3, <2>4, <2>5 DEF SignalInvariant
<1>8. Working' /\ LeasesApart'
  BY <1>1, <1>2, <1>3, <1>5, <1>6 DEF Working, LeasesApart
<1>9. ASSUME NEW t \in Signals \ {s}
      PROVE  Elsewhere(t)
  BY <1>1, <1>2, <1>3, <1>5, <1>6 DEF Elsewhere, Busy, TypeOK, VenueFill
<1>10. QED
  BY <1>4, <1>7, <1>8, <1>9, OneSignal

(* The venue ends the order.                                               *)
LEMMA VenueCancelKeeps ==
    ASSUME NEW s \in Signals, EntryInvariant, VenueCancel(s)
    PROVE  EntryInvariant'
<1>1. s \in Signals
  OBVIOUS
<1>2. UNCHANGED <<control, setter, lease, signal, ledger, reservation, attempt, worker,
     transport, posts, cleared, reopened>>
  BY DEF VenueCancel, controlVars, ledgerVars, history
<1>3. TypeOK /\ SignalInvariant(s) /\ Working /\ LeasesApart
  BY <1>1 DEF EntryInvariant
<1>4. TypeOK'
  <2>1. venue' \in [Signals -> Orders]
    <3>1. venue \in [Signals -> Orders]
      BY <1>3 DEF TypeOK
    <3>2. QED
      BY <1>1, <3>1 DEF VenueCancel, Orders
  <2>2. QED
    BY <1>2, <1>3, <2>1 DEF TypeOK
<1>5. venue[s].filled \in Nat /\ venue[s].listed \in Nat /\ reservation[s].filled \in Nat /\ OrderQuantity \in Nat /\ posts[s] \in Nat
  BY <1>1, <1>2, <1>3, EntryConstants DEF VenueCancel, TypeOK, Orders, Reservations,
     EntryConstants
<1>6. /\ \A t \in Signals \ {s} : venue'[t] = venue[t]
      /\ venue[s].state = "OPEN" /\ venue'[s].state = "CANCELED"
      /\ venue'[s].filled = venue[s].filled /\ venue'[s].listed = venue[s].listed
  BY <1>1, <1>2, <1>3 DEF VenueCancel, TypeOK, Orders
<1>7. SignalInvariant(s)'
  <2>1. Exclusive(s)'
    BY <1>1, <1>2, <1>3, <1>5, <1>6 DEF SignalInvariant, Exclusive, Busy, StepOK
  <2>2. Pristine(s)'
    BY <1>1, <1>2, <1>3, <1>5, <1>6 DEF SignalInvariant, Pristine, StepOK, Busy, ThreadOK,
       HeldOK, Dead, NoOrder
  <2>3. ThreadOK(s)'
    BY <1>1, <1>2, <1>3, <1>5, <1>6 DEF SignalInvariant, ThreadOK, Pristine, StepOK, HeldOK,
       Dead, NoOrder
  <2>4. HeldOK(s)'
    BY <1>1, <1>2, <1>3, <1>5, <1>6 DEF SignalInvariant, HeldOK, Pristine, StepOK, ThreadOK,
       Dead, NoOrder
  <2>5. ASSUME NEW v \in Workers, Busy(v, s)'
        PROVE  StepOK(v, s)'
    BY <1>1, <1>2, <1>3, <1>5, <1>6, <2>5 DEF SignalInvariant, StepOK, Exclusive, Busy,
       Pristine, ThreadOK, HeldOK, Dead, NoOrder
  <2>6. QED
    BY <2>1, <2>2, <2>3, <2>4, <2>5 DEF SignalInvariant
<1>8. Working' /\ LeasesApart'
  BY <1>1, <1>2, <1>3, <1>5, <1>6 DEF Working, LeasesApart
<1>9. ASSUME NEW t \in Signals \ {s}
      PROVE  Elsewhere(t)
  BY <1>1, <1>2, <1>3, <1>5, <1>6 DEF Elsewhere, Busy, TypeOK, VenueCancel
<1>10. QED
  BY <1>4, <1>7, <1>8, <1>9, OneSignal

(* A trade is listed.                                                      *)
LEMMA VenueListKeeps ==
    ASSUME NEW s \in Signals, EntryInvariant, VenueList(s)
    PROVE  EntryInvariant'
<1>1. s \in Signals
  OBVIOUS
<1>2. UNCHANGED <<control, setter, lease, signal, ledger, reservation, attempt, worker,
     transport, posts, cleared, reopened>>
  BY DEF VenueList, controlVars, ledgerVars, history
<1>3. TypeOK /\ SignalInvariant(s) /\ Working /\ LeasesApart
  BY <1>1 DEF EntryInvariant
<1>4. TypeOK'
  <2>1. venue' \in [Signals -> Orders]
    <3>1. venue \in [Signals -> Orders] /\ OrderQuantity \in Nat
      BY <1>3, EntryConstants DEF TypeOK, EntryConstants
    <3>2. venue[s].listed < venue[s].filled
      BY <1>3 DEF VenueList, SignalInvariant, HeldOK
    <3>3. QED
      BY <1>1, <3>1, <3>2 DEF VenueList, Orders
  <2>2. QED
    BY <1>2, <1>3, <2>1 DEF TypeOK
<1>5. venue[s].filled \in Nat /\ venue[s].listed \in Nat /\ reservation[s].filled \in Nat /\ OrderQuantity \in Nat /\ posts[s] \in Nat
  BY <1>1, <1>2, <1>3, EntryConstants DEF VenueList, TypeOK, Orders, Reservations,
     EntryConstants
<1>6. /\ \A t \in Signals \ {s} : venue'[t] = venue[t]
      /\ venue'[s].state = venue[s].state
      /\ venue'[s].filled = venue[s].filled /\ venue'[s].listed = venue[s].listed + 1
      /\ venue[s].listed < venue[s].filled
  BY <1>1, <1>2, <1>3, <1>5 DEF VenueList, TypeOK, Orders
<1>7. SignalInvariant(s)'
  <2>1. Exclusive(s)'
    BY <1>1, <1>2, <1>3, <1>5, <1>6 DEF SignalInvariant, Exclusive, Busy, StepOK
  <2>2. Pristine(s)'
    BY <1>1, <1>2, <1>3, <1>5, <1>6 DEF SignalInvariant, Pristine, StepOK, Busy, ThreadOK,
       HeldOK, Dead, NoOrder
  <2>3. ThreadOK(s)'
    BY <1>1, <1>2, <1>3, <1>5, <1>6 DEF SignalInvariant, ThreadOK, Pristine, StepOK, HeldOK,
       Dead, NoOrder
  <2>4. HeldOK(s)'
    BY <1>1, <1>2, <1>3, <1>5, <1>6 DEF SignalInvariant, HeldOK, Pristine, StepOK, ThreadOK,
       Dead, NoOrder
  <2>5. ASSUME NEW v \in Workers, Busy(v, s)'
        PROVE  StepOK(v, s)'
    BY <1>1, <1>2, <1>3, <1>5, <1>6, <2>5 DEF SignalInvariant, StepOK, Exclusive, Busy,
       Pristine, ThreadOK, HeldOK, Dead, NoOrder
  <2>6. QED
    BY <2>1, <2>2, <2>3, <2>4, <2>5 DEF SignalInvariant
<1>8. Working' /\ LeasesApart'
  BY <1>1, <1>2, <1>3, <1>5, <1>6 DEF Working, LeasesApart
<1>9. ASSUME NEW t \in Signals \ {s}
      PROVE  Elsewhere(t)
  BY <1>1, <1>2, <1>3, <1>5, <1>6 DEF Elsewhere, Busy, TypeOK, VenueList
<1>10. QED
  BY <1>4, <1>7, <1>8, <1>9, OneSignal

(* An operator attaches an order.                                          *)
LEMMA RecoverKeeps ==
    ASSUME NEW s \in Signals, EntryInvariant, Recover(s)
    PROVE  EntryInvariant'
<1>1. s \in Signals
  OBVIOUS
<1>2. UNCHANGED <<control, setter, lease, reservation, attempt, worker, transport, venue,
     posts, cleared, reopened>>
  BY DEF Recover, controlVars, ledgerVars, history
<1>3. TypeOK /\ SignalInvariant(s) /\ Working /\ LeasesApart
  BY <1>1 DEF EntryInvariant
<1>4. TypeOK'
  <2>1. ledger' \in [Signals -> Rows]
    <3>1. ledger \in [Signals -> Rows]
      BY <1>3 DEF TypeOK
    <3>2. QED
      BY <1>1, <3>1 DEF Recover, Rows
  <2>2. signal' \in [Signals -> SignalStatuses]
    <3>1. signal \in [Signals -> SignalStatuses]
      BY <1>3 DEF TypeOK
    <3>2. QED
      BY <1>1, <3>1 DEF Recover, SignalStatuses
  <2>3. QED
    BY <1>2, <1>3, <2>1, <2>2 DEF TypeOK
<1>5. /\ \A t \in Signals \ {s} : ledger'[t] = ledger[t] /\ signal'[t] = signal[t]
      /\ ledger'[s].status = "ACCEPTED" /\ ledger'[s].generation = ledger[s].generation
      /\ ledger[s].status # "NONE" /\ venue[s].state # "NONE"
      /\ signal'[s] = "READY" => signal[s] = "READY"
  BY <1>1, <1>2, <1>3 DEF Recover, TypeOK, Rows, SignalStatuses
<1>6. SignalInvariant(s)'
  <2>1. Exclusive(s)'
    BY <1>1, <1>2, <1>3, <1>5 DEF SignalInvariant, Exclusive, Busy, StepOK
  <2>2. Pristine(s)'
    BY <1>1, <1>2, <1>3, <1>5 DEF SignalInvariant, Pristine, StepOK, Busy, ThreadOK, HeldOK,
       Dead, NoOrder
  <2>3. ThreadOK(s)'
    BY <1>1, <1>2, <1>3, <1>5 DEF SignalInvariant, ThreadOK, Pristine, StepOK, HeldOK, Dead,
       NoOrder
  <2>4. HeldOK(s)'
    BY <1>1, <1>2, <1>3, <1>5 DEF SignalInvariant, HeldOK, Pristine, StepOK, ThreadOK, Dead,
       NoOrder
  <2>5. ASSUME NEW v \in Workers, Busy(v, s)'
        PROVE  StepOK(v, s)'
    BY <1>1, <1>2, <1>3, <1>5, <2>5 DEF SignalInvariant, StepOK, Exclusive, Busy, Pristine,
       ThreadOK, HeldOK, Dead, NoOrder
  <2>6. QED
    BY <2>1, <2>2, <2>3, <2>4, <2>5 DEF SignalInvariant
<1>7. Working' /\ LeasesApart'
  BY <1>1, <1>2, <1>3, <1>5 DEF Working, LeasesApart
<1>8. ASSUME NEW t \in Signals \ {s}
      PROVE  Elsewhere(t)
  BY <1>1, <1>2, <1>3, <1>5 DEF Elsewhere, Busy, TypeOK, Recover
<1>9. QED
  BY <1>4, <1>6, <1>7, <1>8, OneSignal

(* reserve_canary_capacity, or its replay.                                 *)
LEMMA ReserveKeeps ==
    ASSUME NEW w \in Workers, NEW s \in Signals, EntryInvariant, Reserve(w, s)
    PROVE  EntryInvariant'
<1>1. UNCHANGED <<control, setter, lease, signal, ledger, attempt, transport, venue, posts,
     cleared, reopened>>
  BY DEF Reserve, controlVars, history
<1>2. TypeOK /\ SignalInvariant(s) /\ Working /\ LeasesApart
  BY DEF EntryInvariant
<1>3. /\ worker[w].step = "idle" /\ signal[s] = "READY"
      /\ worker[w].lease > 0
  BY <1>2 DEF Reserve, HoldsLease, LeasesApart
<1>4. /\ worker' \in [Workers -> Submits]
      /\ \A v \in Workers \ {w} : worker'[v] = worker[v]
      /\ worker'[w].step = "reserved" /\ worker'[w].signal = s
      /\ worker'[w].lease = worker[w].lease
  <2>1. worker \in [Workers -> Submits]
    BY <1>2 DEF TypeOK
  <2>2. QED
    BY <2>1 DEF Reserve, Submits
<1>5. /\ reservation' \in [Signals -> Reservations]
      /\ \A t \in Signals \ {s} : reservation'[t] = reservation[t]
      /\ reservation'[s].lease = worker[w].lease
      /\ reservation'[s].status # "NONE"
      /\ \/ reservation[s].status # "NONE" /\ reservation' = reservation
         \/ /\ reservation[s].status = "NONE" /\ reservation'[s].status = "HELD"
            /\ reservation'[s].filled = 0
            /\ reservation'[s].remaining = OrderQuantity
  <2>1. /\ reservation \in [Signals -> Reservations]
        /\ control.generation \in Nat /\ worker[w].lease \in Nat
        /\ OrderQuantity \in Nat
    BY <1>2, EntryConstants DEF TypeOK, Controls, Submits, EntryConstants
  <2>2. CASE reservation[s].status # "NONE"
    BY <2>1, <2>2 DEF Reserve
  <2>3. CASE reservation[s].status = "NONE"
    <3> DEFINE r == [status |-> "HELD", generation |-> control.generation,
                     lease |-> worker[w].lease, filled |-> 0, remaining |-> OrderQuantity]
    <3>1. reservation' = [reservation EXCEPT ![s] = r]
      BY <2>3 DEF Reserve
    <3>2. r \in Reservations
      BY <2>1 DEF Reservations, Statuses, ActiveStatuses
    <3>3. QED
      BY <2>1, <2>3, <3>1, <3>2
  <2>4. QED
    BY <2>2, <2>3
<1>6. \A v \in Workers : ~Busy(v, s)
  <2>1. ASSUME NEW v \in Workers, Busy(v, s)
        PROVE  FALSE
    <3>1. reservation[s].status # "NONE" /\ worker[v].lease = reservation[s].lease
      BY <1>2, <1>3, <2>1 DEF SignalInvariant, Exclusive
    <3>2. worker[v].lease = worker[w].lease
      BY <1>5, <3>1
    <3>3. v = w
      BY <1>2, <1>3, <3>2 DEF LeasesApart
    <3>4. QED
      BY <1>3, <2>1, <3>3 DEF Busy
  <2>2. QED
    BY <2>1
<1>7. TypeOK'
  BY <1>1, <1>2, <1>4, <1>5 DEF TypeOK
<1>8. SignalInvariant(s)'
  <2>0. ~attempt[s] /\ OrderQuantity \in Nat
    BY <1>2, <1>3, EntryConstants DEF SignalInvariant, Exclusive, EntryConstants
  <2>1. Exclusive(s)'
    BY <1>1, <1>2, <1>3, <1>4, <1>5, <1>6 DEF SignalInvariant, Exclusive, Busy
  <2>2. Pristine(s)'
    BY <1>1, <1>2, <1>5 DEF SignalInvariant, Pristine
  <2>3. ThreadOK(s)'
    BY <1>1, <1>2, <1>5, <2>0 DEF SignalInvariant, ThreadOK, Pristine
  <2>4. HeldOK(s)'
    BY <1>1, <1>2, <1>5, <2>0 DEF SignalInvariant, HeldOK, Pristine, NoOrder, Dead
  <2>5. ASSUME NEW v \in Workers, Busy(v, s)'
        PROVE  StepOK(v, s)'
    BY <1>1, <1>4, <1>6, <2>0, <2>5 DEF StepOK, Busy
  <2>6. QED
    BY <2>1, <2>2, <2>3, <2>4, <2>5 DEF SignalInvariant
<1>9. Working' /\ LeasesApart'
  BY <1>1, <1>2, <1>4 DEF Working, LeasesApart
<1>10. ASSUME NEW t \in Signals \ {s}
       PROVE  Elsewhere(t)
  BY <1>1, <1>4, <1>5 DEF Elsewhere, Busy
<1>11. QED
  BY <1>7, <1>8, <1>9, <1>10, OneSignal

(* What a listed trade makes of a reservation.                             *)
LEMMA FilledReservation ==
    ASSUME NEW r \in Reservations, NEW n \in 0..OrderQuantity
    PROVE  /\ Filled(r, n) \in Reservations
           /\ Filled(r, n).generation = r.generation /\ Filled(r, n).lease = r.lease
           /\ Filled(r, n).filled = n /\ Filled(r, n).remaining = OrderQuantity - n
           /\ Filled(r, n).status = IF n = OrderQuantity THEN "FILLED" ELSE "PARTIALLY_FILLED"
<1> DEFINE status == IF n = OrderQuantity THEN "FILLED" ELSE "PARTIALLY_FILLED"
           rest == OrderQuantity - n
<1>1. status \in Statuses /\ rest \in 0..OrderQuantity
  BY EntryConstants DEF EntryConstants, Statuses, ActiveStatuses
<1>2. Filled(r, n) = [r EXCEPT !.filled = n, !.remaining = rest, !.status = status]
  BY DEF Filled
<1> HIDE DEF status, rest
<1>3. /\ Filled(r, n) \in Reservations
      /\ Filled(r, n).generation = r.generation /\ Filled(r, n).lease = r.lease
      /\ Filled(r, n).filled = n /\ Filled(r, n).remaining = rest
      /\ Filled(r, n).status = status
  BY <1>1, <1>2 DEF Reservations
<1>4. QED
  BY <1>3 DEF status, rest

(* What the end of an order makes of a reservation that was not rejected.  *)
LEMMA ReleasedReservation ==
    ASSUME NEW r \in Reservations, r.status # "REJECTED"
    PROVE  /\ Given(r, "RELEASED") \in Reservations
           /\ Given(r, "RELEASED").generation = r.generation
           /\ Given(r, "RELEASED").lease = r.lease
           /\ Given(r, "RELEASED").filled = r.filled
           /\ Given(r, "RELEASED").status = "RELEASED"
<1>1. CASE r.status = "RELEASED"
  BY <1>1 DEF Given
<1>2. CASE r.status # "RELEASED"
  <2>1. Given(r, "RELEASED") = [r EXCEPT !.status = "RELEASED", !.remaining = 0]
    BY <1>2 DEF Given
  <2>2. 0 \in 0..OrderQuantity /\ "RELEASED" \in Statuses
    BY EntryConstants DEF EntryConstants, Statuses
  <2>3. QED
    BY <2>1, <2>2 DEF Reservations
<1>3. QED
  BY <1>1, <1>2

(* A row is reconciled.                                                    *)
LEMMA ReconcileKeeps ==
    ASSUME NEW s \in Signals, EntryInvariant, Reconcile(s)
    PROVE  EntryInvariant'
<1> DEFINE held == reservation[s]
           n == venue[s].listed
           news == n > held.filled
           over == venue[s].state = "CANCELED"
           r == IF news THEN Filled(held, n) ELSE held
           p == IF over THEN Given(r, "RELEASED") ELSE r
<1>1. UNCHANGED <<control, setter, lease, signal, attempt, worker, transport, venue, posts,
     cleared>>
  BY DEF Reconcile, controlVars
<1>2. TypeOK /\ SignalInvariant(s) /\ Working /\ LeasesApart
  BY DEF EntryInvariant
<1>3. /\ held \in Reservations /\ n \in 0..OrderQuantity /\ held.filled \in 0..OrderQuantity
      /\ reservation \in [Signals -> Reservations] /\ ledger \in [Signals -> Rows]
      /\ OrderQuantity \in Nat
  BY <1>2, EntryConstants DEF TypeOK, Reservations, Orders, EntryConstants
<1>4. venue[s].state # "NONE" /\ attempt[s]
  <2>1. news \/ over
    BY DEF Reconcile
  <2>2. venue[s].state # "NONE"
    BY <1>2, <1>3, <2>1 DEF SignalInvariant, HeldOK, NoOrder
  <2>3. QED
    BY <1>2, <2>2 DEF SignalInvariant, Pristine, NoOrder
<1>5. held.status \in {"SUBMITTING", "PARTIALLY_FILLED", "FILLED", "RELEASED"}
  BY <1>2, <1>4 DEF SignalInvariant, HeldOK, Dead
<1>6. /\ ledger' = [ledger EXCEPT ![s].status = IF n > 0 THEN "CONFIRMED" ELSE "CANCELED"]
      /\ reservation' = [reservation EXCEPT ![s] = p]
      /\ reopened' = IF news /\ held.status = "RELEASED" THEN reopened \cup {s} ELSE reopened
  BY <1>5 DEF Reconcile
<1>7. /\ r \in Reservations /\ r.generation = held.generation /\ r.lease = held.lease
      /\ r.filled = IF news THEN n ELSE held.filled
      /\ IF news THEN /\ r.remaining = OrderQuantity - n
                      /\ r.status = IF n = OrderQuantity THEN "FILLED" ELSE "PARTIALLY_FILLED"
                 ELSE r = held
  BY <1>3, FilledReservation
<1>8. /\ p \in Reservations /\ p.generation = held.generation /\ p.lease = held.lease
      /\ p.filled = IF news THEN n ELSE held.filled
      /\ IF over THEN p.status = "RELEASED" ELSE p = r
  BY <1>5, <1>7, ReleasedReservation
<1> HIDE DEF r, p
<1>9. /\ reservation' \in [Signals -> Reservations] /\ reservation'[s] = p
      /\ \A t \in Signals \ {s} : reservation'[t] = reservation[t]
  BY <1>3, <1>6, <1>8
<1>10. /\ ledger' \in [Signals -> Rows]
       /\ \A t \in Signals \ {s} : ledger'[t] = ledger[t]
       /\ ledger'[s].generation = ledger[s].generation
       /\ ledger'[s].status \in {"CONFIRMED", "CANCELED"}
  <2>1. PICK status \in {"CONFIRMED", "CANCELED"} :
          ledger' = [ledger EXCEPT ![s].status = status]
    BY <1>6
  <2>2. QED
    BY <1>3, <2>1 DEF Rows
<1>11. TypeOK'
  <2>1. reopened' \in SUBSET Signals
    BY <1>2, <1>6 DEF TypeOK
  <2>2. QED
    BY <1>1, <1>2, <1>9, <1>10, <2>1 DEF TypeOK
<1>12. SignalInvariant(s)'
  <2>1. Exclusive(s)'
    <3>1. signal[s] # "READY"
      BY <1>2, <1>4 DEF SignalInvariant, Exclusive
    <3>2. p.status # "NONE"
      BY <1>5, <1>7, <1>8
    <3>3. QED
      BY <1>1, <1>2, <1>8, <1>9, <3>1, <3>2 DEF SignalInvariant, Exclusive, Busy
  <2>2. Pristine(s)'
    BY <1>1, <1>4 DEF Pristine
  <2>3. ThreadOK(s)'
    BY <1>1, <1>2, <1>8, <1>9, <1>10 DEF SignalInvariant, ThreadOK
  <2>4. HeldOK(s)'
    BY <1>1, <1>2, <1>3, <1>4, <1>5, <1>7, <1>8, <1>9, <1>10 DEF SignalInvariant, HeldOK
  <2>5. ASSUME NEW v \in Workers, Busy(v, s)'
        PROVE  StepOK(v, s)'
    BY <1>1, <1>2, <1>4, <1>10, <2>5 DEF SignalInvariant, StepOK, Busy, NoOrder, Dead
  <2>6. QED
    BY <2>1, <2>2, <2>3, <2>4, <2>5 DEF SignalInvariant
<1>13. Working' /\ LeasesApart'
  BY <1>1, <1>2 DEF Working, LeasesApart
<1>14. ASSUME NEW t \in Signals \ {s}
       PROVE  Elsewhere(t)
  BY <1>1, <1>9, <1>10 DEF Elsewhere, Busy
<1>15. QED
  BY <1>11, <1>12, <1>13, <1>14, OneSignal

-----------------------------------------------------------------------------
(* Steps about no signal, and a crash                                      *)

(* The control row and the lease move, no submit does.                     *)
LEMMA ControlKeeps ==
    ASSUME EntryInvariant, Control
    PROVE  EntryInvariant'
<1>1. TypeOK /\ Working /\ LeasesApart
  BY DEF EntryInvariant
<1>2. ASSUME UNCHANGED <<lease, ledgerVars, worker, transport, venue, history>>,
             control' \in Controls, setter' \in [Operators -> Settings]
      PROVE  EntryInvariant'
  <2>1. TypeOK' /\ Working' /\ LeasesApart'
    BY <1>1, <1>2 DEF TypeOK, Working, LeasesApart, ledgerVars, history
  <2>2. \A t \in Signals : Elsewhere(t)
    BY <1>2 DEF Elsewhere, Busy, ledgerVars, history
  <2>3. QED
    BY <2>1, <2>2, NoSignal
<1>3. ASSUME NEW o \in Operators, NEW to \in {"DISARMED", "KILLED"}, SetStateReads(o, to)
      PROVE  EntryInvariant'
  <2>1. [to |-> to, generation |-> control.generation] \in Settings
    BY <1>1 DEF TypeOK, Controls, Settings
  <2>2. setter' \in [Operators -> Settings]
    BY <1>1, <1>3, <2>1 DEF TypeOK, SetStateReads
  <2>3. QED
    BY <1>1, <1>2, <1>3, <2>2 DEF TypeOK, SetStateReads
<1>4. ASSUME NEW o \in Operators, SetStateWrites(o)
      PROVE  EntryInvariant'
  <2>1. setter[o] \in Settings /\ setter[o] # NULL
    BY <1>1, <1>4 DEF TypeOK, SetStateWrites
  <2>2. setter[o].to \in {"DISARMED", "KILLED"} /\ setter[o].generation \in Nat
    BY <2>1 DEF Settings
  <2>3. control' \in Controls
    BY <1>4, <2>2 DEF SetStateWrites, Controls
  <2>4. setter' \in [Operators -> Settings]
    BY <1>1, <1>4 DEF TypeOK, SetStateWrites, Settings
  <2>5. QED
    BY <1>2, <1>4, <2>3, <2>4 DEF SetStateWrites
<1>5. ASSUME Enable
      PROVE  EntryInvariant'
  <2>1. control' \in Controls
    BY <1>1, <1>5 DEF TypeOK, Enable, Controls
  <2>2. QED
    BY <1>1, <1>2, <1>5, <2>1 DEF TypeOK, Enable
<1>6. ASSUME LoseLease
      PROVE  EntryInvariant'
  <2>1. /\ lease' \in Leases /\ lease'.generation = lease.generation /\ ~lease'.current
    BY <1>1, <1>6 DEF TypeOK, LoseLease, Leases
  <2>2. TypeOK' /\ Working' /\ LeasesApart'
    BY <1>1, <1>6, <2>1
       DEF TypeOK, Working, LeasesApart, LoseLease, ledgerVars, history
  <2>3. \A t \in Signals : Elsewhere(t)
    BY <1>6 DEF Elsewhere, Busy, LoseLease, ledgerVars, history
  <2>4. QED
    BY <2>2, <2>3, NoSignal
<1>7. ASSUME NEW w \in Workers, AcquireLease(w)
      PROVE  EntryInvariant'
  <2>1. /\ lease.generation \in Nat /\ worker \in [Workers -> Submits]
        /\ \A v \in Workers : worker[v].lease \in Nat
    BY <1>1 DEF TypeOK, Leases, Submits
  <2>2. /\ worker' \in [Workers -> Submits]
        /\ worker[w].step = "idle" /\ worker'[w].step = "idle"
        /\ worker'[w].lease = lease.generation + 1
        /\ \A v \in Workers \ {w} : worker'[v] = worker[v]
    BY <1>7, <2>1 DEF AcquireLease, Submits
  <2>3. lease' \in Leases /\ lease'.generation = lease.generation + 1
    BY <1>7, <2>1 DEF AcquireLease, Leases
  <2>4. TypeOK'
    BY <1>1, <1>7, <2>2, <2>3 DEF TypeOK, AcquireLease, ledgerVars, history
  <2>5. Working' /\ LeasesApart'
    BY <1>1, <2>1, <2>2, <2>3 DEF Working, LeasesApart
  <2>6. \A t \in Signals : Elsewhere(t)
    BY <1>7, <2>2 DEF Elsewhere, Busy, AcquireLease, ledgerVars, history
  <2>7. QED
    BY <2>4, <2>5, <2>6, NoSignal
<1>8. QED
  BY <1>3, <1>4, <1>5, <1>6, <1>7 DEF Control

(* A process dies with its threads.                                        *)
LEMMA CrashKeeps ==
    ASSUME NEW w \in Workers, EntryInvariant, Crash(w)
    PROVE  EntryInvariant'
<1>1. UNCHANGED <<control, setter, lease, signal, ledger, reservation, attempt, venue, posts,
     cleared, reopened>>
  BY DEF Crash, controlVars, ledgerVars, history
<1>2. TypeOK /\ Working /\ LeasesApart
  BY DEF EntryInvariant
<1>3. /\ worker' \in [Workers -> Submits]
      /\ worker'[w].step = "idle" /\ worker'[w].lease = 0
      /\ \A v \in Workers \ {w} : worker'[v] = worker[v]
  <2>1. Idle \in Submits /\ Idle.step = "idle" /\ Idle.lease = 0
    BY DEF Idle, Submits
  <2>2. QED
    BY <1>2, <2>1 DEF Crash, TypeOK
<1>4. /\ transport' \in [Signals -> Threads]
      /\ \A t \in Signals : \/ transport'[t] = transport[t] /\ transport[t].worker # w
                            \/ transport'[t].step = "none" /\ transport[t].worker = w
  <2>1. NoTransport \in Threads /\ NoTransport.step = "none"
    BY DEF NoTransport, Threads
  <2>2. QED
    BY <1>2, <2>1 DEF Crash, TypeOK
<1>5. TypeOK'
  BY <1>1, <1>2, <1>3, <1>4 DEF TypeOK
<1>6. Working' /\ LeasesApart'
  <2>1. lease.generation \in Nat
    BY <1>2 DEF TypeOK, Leases
  <2>2. QED
    BY <1>1, <1>2, <1>3, <2>1 DEF Working, LeasesApart
<1>7. ASSUME NEW s \in Signals
      PROVE  SignalInvariant(s)'
  <2>1. SignalInvariant(s)
    BY DEF EntryInvariant
  <2>2. Exclusive(s)'
    BY <1>1, <1>3, <2>1 DEF SignalInvariant, Exclusive, Busy
  <2>3. Pristine(s)'
    BY <1>1, <1>4, <2>1 DEF SignalInvariant, Pristine
  <2>4. ThreadOK(s)'
    BY <1>1, <1>4, <2>1 DEF SignalInvariant, ThreadOK
  <2>5. HeldOK(s)'
    BY <1>1, <1>4, <2>1 DEF SignalInvariant, HeldOK, Dead
  <2>6. ASSUME NEW v \in Workers, Busy(v, s)'
        PROVE  StepOK(v, s)'
    <3>1. v # w /\ Busy(v, s) /\ worker'[v] = worker[v]
      BY <1>3, <2>6 DEF Busy
    <3>2. StepOK(v, s)
      BY <2>1, <3>1 DEF SignalInvariant
    <3>3. QED
      BY <1>1, <1>4, <3>1, <3>2 DEF StepOK, Dead
  <2>7. QED
    BY <2>2, <2>3, <2>4, <2>5, <2>6 DEF SignalInvariant
<1>8. QED
  BY <1>5, <1>6, <1>7 DEF EntryInvariant

-----------------------------------------------------------------------------
(* The theorems                                                            *)

(* Nothing has been reserved, and no lease granted.                        *)
LEMMA InitHolds == Init => EntryInvariant
<1> SUFFICES ASSUME Init
             PROVE  EntryInvariant
  OBVIOUS
<1>1. TypeOK
  <2>1. NoReservation \in Reservations /\ NoOrder \in Orders
    BY EntryConstants DEF NoReservation, NoOrder, Reservations, Orders, Statuses, EntryConstants
  <2>2. Idle \in Submits /\ NoTransport \in Threads
    BY DEF Idle, Submits, NoTransport, Threads
  <2>3. /\ control \in Controls /\ setter \in [Operators -> Settings] /\ lease \in Leases
        /\ ledger \in [Signals -> Rows] /\ signal \in [Signals -> SignalStatuses]
    BY DEF Init, Controls, Settings, Leases, Rows, SignalStatuses
  <2>4. QED
    BY <2>1, <2>2, <2>3 DEF Init, TypeOK
<1>2. Working /\ LeasesApart
  BY DEF Init, Working, LeasesApart, Idle
<1>3. ASSUME NEW s \in Signals
      PROVE  SignalInvariant(s)
  <2>1. \A w \in Workers : ~Busy(w, s)
    BY DEF Init, Busy, Idle
  <2>2. /\ ledger[s].status = "NONE" /\ ~attempt[s] /\ transport[s].step = "none"
        /\ venue[s] = NoOrder /\ posts[s] = 0
        /\ reservation[s].status = "NONE" /\ reservation[s].filled = 0
    BY DEF Init, NoTransport, NoReservation
  <2>3. QED
    BY <2>1, <2>2 DEF SignalInvariant, Exclusive, Pristine, ThreadOK, HeldOK, NoOrder
<1>4. QED
  BY <1>1, <1>2, <1>3 DEF EntryInvariant

(* Every step keeps the invariant.                                         *)
LEMMA NextKeeps == EntryInvariant /\ [Next]_vars => EntryInvariant'
<1> SUFFICES ASSUME EntryInvariant, [Next]_vars
             PROVE  EntryInvariant'
  OBVIOUS
<1>1. CASE Control
  BY <1>1, ControlKeeps
<1>2. ASSUME NEW w \in Workers, WorkerStep(w) \/ Crash(w)
      PROVE  EntryInvariant'
  BY <1>2, InsertRowKeeps, InsertFailsKeeps, MarkSubmittingKeeps, RejectRowKeeps,
     RecordAttemptKeeps, CallTransportKeeps, ReceiveAnswerKeeps, TimeOutKeeps,
     ReleaseRejectedKeeps, ReleaseLostKeeps, AccountingFailsKeeps, TripBreakerKeeps,
     LatchKillKeeps,
     CrashKeeps DEF WorkerStep
<1>3. ASSUME NEW w \in Workers, NEW s \in Signals, Reserve(w, s)
      PROVE  EntryInvariant'
  BY <1>3, ReserveKeeps
<1>4. ASSUME NEW s \in Signals, TransportStep(s)
      PROVE  EntryInvariant'
  BY <1>4, PrepareOrderKeeps, FenceRefusesKeeps, FirstFenceKeeps, MarkSendStartedKeeps,
     SecondFenceKeeps, PostFailsKeeps, PostKeeps DEF TransportStep
<1>5. ASSUME NEW s \in Signals, VenueStep(s) \/ Reconcile(s) \/ Recover(s)
      PROVE  EntryInvariant'
  BY <1>5, VenueFillKeeps, VenueCancelKeeps, VenueListKeeps, ReconcileKeeps, RecoverKeeps
     DEF VenueStep
<1>6. CASE UNCHANGED vars
  <2>1. TypeOK' /\ Working' /\ LeasesApart'
    BY <1>6 DEF vars, EntryInvariant, TypeOK, Working, LeasesApart
  <2>2. \A t \in Signals : Elsewhere(t)
    BY <1>6 DEF vars, Elsewhere, Busy
  <2>3. QED
    BY <2>1, <2>2, NoSignal
<1>7. QED
  BY <1>1, <1>2, <1>3, <1>4, <1>5, <1>6 DEF Next

(* Every behaviour of the canary's BUY path keeps the invariant.           *)
THEOREM EntryInvariantHolds == Spec => []EntryInvariant
<1>1. QED
  BY InitHolds, NextKeeps, PTL DEF Spec

(* Rows, reservations and the locals of every submit stay of their types.  *)
THEOREM EntriesTyped == Spec => []TypeOK
<1>1. EntryInvariant => TypeOK
  BY DEF EntryInvariant
<1>2. QED
  BY <1>1, EntryInvariantHolds, PTL

(* Capacity that submit gave back as rejected belongs to no order at the   *)
(* venue, and no thread that outlived its caller can still send one.       *)
THEOREM RejectedStaysUnposted == Spec => []RejectedNeverPosted
<1>1. EntryInvariant => RejectedNeverPosted
  BY DEF EntryInvariant, SignalInvariant, HeldOK, Pristine, Dead, NoOrder, RejectedNeverPosted
<1>2. QED
  BY <1>1, EntryInvariantHolds, PTL

(* A signal is posted at most once, over retries, crashes, timeouts and    *)
(* takeovers of the controller lease.                                      *)
THEOREM PostedOnce == Spec => []PostedAtMostOnce
<1>1. EntryInvariant => PostedAtMostOnce
  BY DEF EntryInvariant, SignalInvariant, ThreadOK, PostedAtMostOnce
<1>2. QED
  BY <1>1, EntryInvariantHolds, PTL

(* The capacity ledger holds all that an order at the venue can still cost.*)
THEOREM WorkingOrdersHeld == Spec => []WorkingOrdersAreHeld
<1>1. ASSUME EntryInvariant, NEW s \in Signals, venue[s].state \in {"OPEN", "MATCHED"}
      PROVE  Committed(s) = OrderQuantity /\ venue[s].filled <= Committed(s)
  <2>1. TypeOK /\ SignalInvariant(s)
    BY <1>1 DEF EntryInvariant
  <2>2. /\ reservation[s].filled \in 0..OrderQuantity
        /\ reservation[s].remaining \in 0..OrderQuantity
        /\ venue[s].filled \in 0..OrderQuantity /\ OrderQuantity \in Nat
    BY <2>1, EntryConstants DEF TypeOK, Reservations, Orders, EntryConstants
  <2>3. attempt[s]
    BY <1>1, <2>1 DEF SignalInvariant, Pristine, NoOrder
  <2>4. reservation[s].status \in {"SUBMITTING", "PARTIALLY_FILLED", "FILLED"}
    BY <1>1, <2>1, <2>3 DEF SignalInvariant, HeldOK, Dead
  <2>5. Committed(s) = OrderQuantity
    BY <2>1, <2>2, <2>4 DEF SignalInvariant, HeldOK, Committed, ActiveStatuses
  <2>6. QED
    BY <2>2, <2>5
<1>2. EntryInvariant => WorkingOrdersAreHeld
  BY <1>1 DEF WorkingOrdersAreHeld
<1>3. QED
  BY <1>2, EntryInvariantHolds, PTL

(* The control and the lease generation that the last fence saw are those  *)
(* the capacity was reserved under.                                        *)
THEOREM PostedUnderAuthority == Spec => []PostedUnderItsAuthority
<1>1. EntryInvariant => PostedUnderItsAuthority
  BY DEF EntryInvariant, SignalInvariant, ThreadOK, PostedUnderItsAuthority
<1>2. QED
  BY <1>1, EntryInvariantHolds, PTL

-----------------------------------------------------------------------------
(* The aggregate cap                                                       *)

(* What a signal commits is a quantity.                                    *)
LEMMA CommittedTyped ==
    ASSUME TypeOK, NEW s \in Signals
    PROVE  Committed(s) \in Nat
BY EntryConstants DEF EntryConstants, TypeOK, Reservations, Committed

(* Also after a step.                                                      *)
LEMMA CommittedTypedNext ==
    ASSUME TypeOK', NEW s \in Signals
    PROVE  Committed(s)' \in Nat
BY EntryConstants DEF EntryConstants, TypeOK, Reservations, Committed

(* A step that only lowers what signals commit, but for reopened ones.     *)
LEMMA CapKept ==
    ASSUME TypeOK, TypeOK', ExposureWithinCap, reopened \subseteq reopened',
           \A s \in Signals \ reopened' : Committed(s)' <= Committed(s)
    PROVE  ExposureWithinCap'
<1> DEFINE cost == [s \in Signals |-> Committed(s)]
           costs == [s \in Signals |-> Committed(s)']
           T == Signals \ reopened
           U == Signals \ reopened'
<1>1. \A s \in Signals : cost[s] \in Nat /\ costs[s] \in Nat
  BY CommittedTyped, CommittedTypedNext
<1>2. IsFiniteSet(T) /\ IsFiniteSet(U) /\ U \in SUBSET T
  BY EntryConstants, FS_Subset DEF EntryConstants
<1>3. SumFunctionOnSet(costs, U) <= SumFunctionOnSet(cost, U)
  <2>1. \A s \in U : costs[s] \in Int /\ cost[s] \in Int /\ costs[s] <= cost[s]
    BY <1>1
  <2> HIDE DEF cost, costs, U
  <2> QED BY <1>2, <2>1, SumMonotonic
<1>4. SumFunctionOnSet(cost, U) <= SumFunctionOnSet(cost, T)
  <2>1. \A s \in T : cost[s] \in Nat
    BY <1>1
  <2> HIDE DEF cost, T, U
  <2> QED BY <1>2, <2>1, SumOfSubset
<1>5. SumFunctionOnSet(cost, T) <= MaxExposure /\ MaxExposure \in Nat
  BY EntryConstants DEF EntryConstants, ExposureWithinCap
<1>6. /\ SumFunctionOnSet(costs, U) \in Nat /\ SumFunctionOnSet(cost, U) \in Nat
      /\ SumFunctionOnSet(cost, T) \in Nat
  <2>1. /\ \A s \in T : cost[s] \in Nat
        /\ \A s \in U : cost[s] \in Nat /\ costs[s] \in Nat
    BY <1>1
  <2> HIDE DEF cost, costs, T, U
  <2> QED BY <1>2, <2>1, SumNonNegative
<1>7. SumFunctionOnSet(costs, U) <= MaxExposure
  <2> HIDE DEF cost, costs, T, U
  <2> QED BY <1>3, <1>4, <1>5, <1>6
<1> QED BY <1>7 DEF ExposureWithinCap

(* Nor does one that leaves the reservations alone.                        *)
LEMMA CapFrame ==
    ASSUME TypeOK, TypeOK', ExposureWithinCap, UNCHANGED <<reservation, reopened>>
    PROVE  ExposureWithinCap'
<1>1. \A s \in Signals : Committed(s)' = Committed(s) /\ Committed(s) \in Nat
  BY CommittedTyped DEF Committed
<1>2. \A s \in Signals \ reopened' : Committed(s)' <= Committed(s)
  BY <1>1
<1> QED BY <1>2, CapKept

(* Admission: the capacity left pays for the new order.                    *)
LEMMA ReserveWithinCap ==
    ASSUME NEW w \in Workers, NEW s \in Signals, EntryInvariant, EntryInvariant',
           ExposureWithinCap, Reserve(w, s)
    PROVE  ExposureWithinCap'
<1>0. TypeOK /\ TypeOK' /\ reopened' = reopened /\ attempt' = attempt
  BY DEF EntryInvariant, Reserve, history
<1>1. CASE reservation' = reservation
  BY <1>0, <1>1, CapFrame
<1>2. CASE reservation' # reservation
  <2> DEFINE cost == [t \in Signals |-> Committed(t)]
             costs == [t \in Signals |-> Committed(t)']
             T == Signals \ reopened
  <2> DEFINE r == [status |-> "HELD", generation |-> control.generation,
                 lease |-> worker[w].lease, filled |-> 0, remaining |-> OrderQuantity]
  <2>1. /\ reservation[s].status = "NONE" /\ CapacityLeft
        /\ reservation' = [reservation EXCEPT ![s] = r]
    BY <1>2 DEF Reserve
  <2>2. Committed(s)' = OrderQuantity /\ OrderQuantity \in Nat
    <3>1. reservation'[s] = r
      BY <1>0, <2>1 DEF TypeOK
    <3> QED BY <3>1, EntryConstants DEF EntryConstants, Committed, ActiveStatuses
  <2>3. \A t \in Signals \ {s} : Committed(t)' = Committed(t)
    BY <1>0, <2>1 DEF TypeOK, Committed
  <2>4. \A t \in Signals : cost[t] \in Nat /\ costs[t] \in Nat
    BY <1>0, CommittedTyped, CommittedTypedNext
  <2>5. /\ IsFiniteSet(T) /\ IsFiniteSet(Signals) /\ T \in SUBSET Signals
    BY EntryConstants, FS_Subset DEF EntryConstants
  <2>6. SumFunctionOnSet(costs, Signals) <= SumFunctionOnSet(cost, Signals) + OrderQuantity
    <3>1. /\ \A t \in Signals : cost[t] \in Int /\ costs[t] \in Int
          /\ \A t \in Signals \ {s} : costs[t] = cost[t]
      BY <2>3, <2>4
    <3>2. SumFunctionOnSet(costs, Signals) =
            SumFunctionOnSet(cost, Signals) - cost[s] + costs[s]
      <4> HIDE DEF cost, costs
      <4> QED BY <2>5, <3>1, SumChanges
    <3>3. SumFunctionOnSet(cost, Signals) \in Int
      <4> HIDE DEF cost
      <4> QED BY <2>5, <3>1, SumType
    <3>4. costs[s] = OrderQuantity /\ cost[s] \in Nat
      BY <2>2, <2>4
    <3> HIDE DEF cost, costs
    <3> QED BY <2>2, <3>2, <3>3, <3>4
  <2>7. SumFunctionOnSet(cost, Signals) + OrderQuantity <= MaxExposure /\ MaxExposure \in Nat
    BY <2>1, EntryConstants DEF EntryConstants, CapacityLeft, Exposure, SumFunction
  <2>8. SumFunctionOnSet(costs, T) <= SumFunctionOnSet(costs, Signals)
    <3>1. \A t \in Signals : costs[t] \in Nat
      BY <2>4
    <3> HIDE DEF costs, T
    <3> QED BY <2>5, <3>1, SumOfSubset
  <2>9. /\ SumFunctionOnSet(costs, T) \in Nat /\ SumFunctionOnSet(costs, Signals) \in Nat
        /\ SumFunctionOnSet(cost, Signals) \in Nat
    <3>1. \A t \in Signals : costs[t] \in Nat /\ cost[t] \in Nat
      BY <2>4
    <3>2. \A t \in T : costs[t] \in Nat
      BY <3>1
    <3> HIDE DEF cost, costs, T
    <3> QED BY <2>5, <3>1, <3>2, SumNonNegative
  <2>10. SumFunctionOnSet(costs, T) <= MaxExposure
    <3> HIDE DEF cost, costs, T
    <3> QED BY <2>2, <2>6, <2>7, <2>8, <2>9
  <2> QED BY <1>0, <2>10 DEF ExposureWithinCap
<1> QED BY <1>1, <1>2

(* A reservation under its attempt commits what it did; a rejected one     *)
(* commits less.                                                           *)
LEMMA AttemptWithinCap ==
    ASSUME NEW w \in Workers, EntryInvariant, EntryInvariant', ExposureWithinCap,
           RecordAttempt(w) \/ ReleaseRejected(w)
    PROVE  ExposureWithinCap'
<1>0. PICK s \in Signals : s = worker[w].signal
  BY DEF EntryInvariant, Working, RecordAttempt, ReleaseRejected
<1>1. TypeOK /\ TypeOK' /\ reopened' = reopened
  BY DEF EntryInvariant, RecordAttempt, ReleaseRejected, history
<1>2. reservation \in [Signals -> Reservations]
  BY <1>1 DEF TypeOK
<1>3. Committed(s)' <= Committed(s)
  <2>1. CASE RecordAttempt(w)
    <3>1. /\ reservation[s].status = "HELD"
          /\ reservation' = [reservation EXCEPT ![s].status = "SUBMITTING"]
      BY <1>0, <2>1 DEF RecordAttempt
    <3>2. /\ reservation'[s].status = "SUBMITTING"
          /\ reservation'[s].filled = reservation[s].filled
          /\ reservation'[s].remaining = reservation[s].remaining
      BY <1>2, <3>1 DEF Reservations
    <3>3. Committed(s)' = Committed(s)
      BY <3>1, <3>2 DEF Committed, ActiveStatuses
    <3> QED BY <1>1, <1>2, <3>3, CommittedTyped
  <2>2. CASE ReleaseRejected(w)
    <3>1. reservation'[s] = Given(reservation[s], "REJECTED")
      BY <1>0, <1>2, <2>2 DEF ReleaseRejected
    <3>2. CASE reservation'[s] = reservation[s]
      <4>1. Committed(s)' = Committed(s)
        BY <3>2 DEF Committed
      <4> QED BY <1>1, <1>2, <4>1, CommittedTyped
    <3>3. CASE reservation'[s] # reservation[s]
      <4>1. reservation'[s] = [reservation[s] EXCEPT !.status = "REJECTED", !.remaining = 0]
        BY <3>1, <3>3 DEF Given
      <4>2. reservation'[s].status = "REJECTED" /\ reservation'[s].filled = reservation[s].filled
        BY <1>2, <4>1 DEF Reservations
      <4>3. Committed(s)' = reservation[s].filled + 0
        BY <4>2 DEF Committed, ActiveStatuses
      <4>4. reservation[s].filled \in Nat /\ reservation[s].remaining \in Nat
        BY <1>2, EntryConstants DEF Reservations, EntryConstants
      <4> QED BY <4>3, <4>4 DEF Committed
    <3> QED BY <3>2, <3>3
  <2> QED BY <2>1, <2>2
<1>4. \A t \in Signals \ {s} : Committed(t)' = Committed(t) /\ Committed(t) \in Nat
  <2>1. \A t \in Signals \ {s} : reservation'[t] = reservation[t]
    BY <1>0, <1>2 DEF RecordAttempt, ReleaseRejected
  <2> QED BY <1>1, <2>1, CommittedTyped DEF Committed
<1>5. \A t \in Signals \ reopened' : Committed(t)' <= Committed(t)
  BY <1>3, <1>4
<1> QED BY <1>1, <1>5, CapKept

(* A trade costs what was held for it, except after a release.             *)
LEMMA ReconcileWithinCap ==
    ASSUME NEW s \in Signals, EntryInvariant, EntryInvariant', ExposureWithinCap, Reconcile(s)
    PROVE  ExposureWithinCap'
<1> DEFINE held == reservation[s]
           n == venue[s].listed
           news == n > held.filled
           over == venue[s].state = "CANCELED"
           r == IF news THEN Filled(held, n) ELSE held
           p == IF over THEN Given(r, "RELEASED") ELSE r
<1>1. TypeOK /\ TypeOK' /\ SignalInvariant(s)
  BY DEF EntryInvariant
<1>2. /\ held \in Reservations /\ n \in 0..OrderQuantity /\ held.filled \in 0..OrderQuantity
      /\ reservation \in [Signals -> Reservations] /\ held.remaining \in 0..OrderQuantity
      /\ OrderQuantity \in Nat
  BY <1>1, EntryConstants DEF TypeOK, Reservations, Orders, EntryConstants
<1>3. venue[s].state # "NONE" /\ attempt[s]
  <2>1. news \/ over
    BY DEF Reconcile
  <2>2. venue[s].state # "NONE"
    BY <1>1, <1>2, <2>1 DEF SignalInvariant, HeldOK, NoOrder
  <2>3. QED
    BY <1>1, <2>2 DEF SignalInvariant, Pristine, NoOrder
<1>4. held.status \in {"SUBMITTING", "PARTIALLY_FILLED", "FILLED", "RELEASED"}
  BY <1>1, <1>3 DEF SignalInvariant, HeldOK, Dead
<1>5. /\ reservation' = [reservation EXCEPT ![s] = p]
      /\ reopened' = IF news /\ held.status = "RELEASED" THEN reopened \cup {s} ELSE reopened
  BY <1>4 DEF Reconcile
<1>6. /\ r \in Reservations
      /\ r.filled = IF news THEN n ELSE held.filled
      /\ IF news THEN /\ r.remaining = OrderQuantity - n
                      /\ r.status = IF n = OrderQuantity THEN "FILLED" ELSE "PARTIALLY_FILLED"
                 ELSE r = held
  BY <1>2, FilledReservation
<1>7. /\ p.filled = IF news THEN n ELSE held.filled
      /\ IF over THEN p.status = "RELEASED" ELSE p = r
  BY <1>4, <1>6, ReleasedReservation
<1> HIDE DEF r, p
<1>8. reservation'[s] = p /\ \A t \in Signals \ {s} : reservation'[t] = reservation[t]
  BY <1>2, <1>5
<1>9. ASSUME s \notin reopened'
      PROVE  Committed(s)' <= Committed(s)
  <2>1. ~(news /\ held.status = "RELEASED")
    BY <1>5, <1>9
  <2>2. held.status = "FILLED" => held.filled = OrderQuantity
    BY <1>1, <1>2 DEF SignalInvariant, HeldOK
  <2>3. held.status # "FILLED" \/ ~news
    BY <1>2, <2>2
  <2>4. CASE news
    <3>1. held.status \in {"SUBMITTING", "PARTIALLY_FILLED"}
      BY <1>4, <2>1, <2>3, <2>4
    <3>2. Committed(s) = OrderQuantity
      BY <1>1, <1>2, <3>1 DEF SignalInvariant, HeldOK, Committed, ActiveStatuses
    <3>3. p.filled = n
      BY <1>7, <2>4
    <3>4. CASE p.status \in ActiveStatuses
      <4>1. p.remaining = OrderQuantity - n
        BY <1>6, <1>7, <2>4, <3>4 DEF ActiveStatuses
      <4> QED BY <1>2, <1>8, <3>2, <3>3, <3>4, <4>1 DEF Committed
    <3>5. CASE p.status \notin ActiveStatuses
      BY <1>2, <1>8, <3>2, <3>3, <3>5 DEF Committed
    <3> QED BY <3>4, <3>5
  <2>5. CASE ~news
    <3>1. p.filled = held.filled /\ r = held
      BY <1>6, <1>7, <2>5
    <3>2. CASE p = r
      <4>1. Committed(s)' = Committed(s)
        BY <1>8, <3>1, <3>2 DEF Committed
      <4> QED BY <1>1, <4>1, CommittedTyped
    <3>3. CASE p.status = "RELEASED"
      BY <1>2, <1>8, <3>1, <3>3 DEF Committed, ActiveStatuses
    <3> QED BY <1>7, <3>2, <3>3
  <2> QED BY <2>4, <2>5
<1>10. \A t \in Signals \ {s} : Committed(t)' = Committed(t) /\ Committed(t) \in Nat
  BY <1>1, <1>8, CommittedTyped DEF Committed
<1>11. \A t \in Signals \ reopened' : Committed(t)' <= Committed(t)
  BY <1>9, <1>10
<1>12. reopened \subseteq reopened'
  BY <1>5
<1> QED BY <1>1, <1>11, <1>12, CapKept

(* Every other step leaves reservations and reopened signals alone.        *)
LEMMA OthersReserveNothing ==
    ASSUME [Next]_vars
    PROVE  \/ UNCHANGED <<reservation, reopened>>
           \/ \E w \in Workers, s \in Signals : Reserve(w, s)
           \/ \E w \in Workers : RecordAttempt(w) \/ ReleaseRejected(w)
           \/ \E s \in Signals : Reconcile(s)
<1>1. ASSUME Control
      PROVE  UNCHANGED <<reservation, reopened>>
  BY <1>1 DEF Control, SetStateReads, SetStateWrites, Enable, LoseLease, AcquireLease,
     ledgerVars, history
<1>2. ASSUME NEW w \in Workers, WorkerStep(w) \/ Crash(w)
      PROVE  \/ UNCHANGED <<reservation, reopened>>
             \/ RecordAttempt(w) \/ ReleaseRejected(w)
  BY <1>2 DEF WorkerStep, Crash, InsertRow, InsertFails, MarkSubmitting, RejectRow,
     CallTransport, ReceiveAnswer, TimeOut, PersistOutcome, ReleaseLost, AccountingFails,
     TripBreaker, LatchKill, ledgerVars, history
<1>3. ASSUME NEW s \in Signals, TransportStep(s) \/ VenueStep(s) \/ Recover(s)
      PROVE  UNCHANGED <<reservation, reopened>>
  BY <1>3 DEF TransportStep, VenueStep, Recover, PrepareOrder, FenceRefuses, FirstFence,
     MarkSendStarted, SecondFence, PostFails, Post, VenueFill, VenueCancel, VenueList,
     ledgerVars, history
<1>4. CASE UNCHANGED vars
  BY <1>4 DEF vars
<1> QED BY <1>1, <1>2, <1>3, <1>4 DEF Next

(* Admission never commits more than the aggregate cap, over crashes,      *)
(* retries, late answers and releases; only a trade listed after the venue *)
(* called its order over can take it higher.                               *)
THEOREM ExposureCapped == Spec => []ExposureWithinCap
<1>1. Init => ExposureWithinCap
  <2> SUFFICES ASSUME Init PROVE ExposureWithinCap
    OBVIOUS
  <2> DEFINE cost == [s \in Signals |-> Committed(s)]
             T == Signals \ reopened
  <2>1. \A s \in T : cost[s] = 0
    BY DEF Init, NoReservation, Committed, ActiveStatuses
  <2>2. IsFiniteSet(T)
    BY EntryConstants, FS_Subset DEF EntryConstants
  <2>3. SumFunctionOnSet(cost, T) = 0
    <3> HIDE DEF cost, T
    <3> QED BY <2>1, <2>2, SumOfZeros
  <2> QED BY <2>3, EntryConstants DEF EntryConstants, ExposureWithinCap
<1>2. EntryInvariant /\ EntryInvariant' /\ ExposureWithinCap /\ [Next]_vars => ExposureWithinCap'
  <2> SUFFICES ASSUME EntryInvariant, EntryInvariant', ExposureWithinCap, [Next]_vars
               PROVE  ExposureWithinCap'
    OBVIOUS
  <2>1. CASE UNCHANGED <<reservation, reopened>>
    BY <2>1, CapFrame DEF EntryInvariant
  <2> QED BY <2>1, OthersReserveNothing, ReserveWithinCap, AttemptWithinCap, ReconcileWithinCap
<1> QED BY <1>1, <1>2, EntryInvariantHolds, PTL DEF Spec

=============================================================================
