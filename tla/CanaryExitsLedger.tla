-------------------------- MODULE CanaryExitsLedger --------------------------
(***************************************************************************)
(* Proofs about the ledgers of CanaryExits, for any number of processes,   *)
(* exits, fills and crashes: the lot, the requests and the risk fills      *)
(* agree on what was sold, and what live orders can still sell stays       *)
(* within the confirmed inventory.                                         *)
(***************************************************************************)
EXTENDS CanaryExitsProofs, LedgerSums

-----------------------------------------------------------------------------
(* The inductive invariant.                                                *)

Holding(e) == reservation[e].status \in HoldingStatuses

\* What a reservation takes of the inventory: all of it while it holds, and
\* then what it was filled.
Claimed(e) == IF Holding(e) THEN reservation[e].quantity ELSE reservation[e].filled

SoldByRequests == SumFunction([e \in Exits |-> request[e].filled])
ClaimedByExits == SumFunction([e \in Exits |-> Claimed(e)])

SoldAgrees == lot.sold = SoldByRequests
ClaimsWithin == ClaimedByExits <= bought

LotOK ==
    /\ 0 <= bought /\ bought <= MaxQuantity
    /\ 0 <= lot.quantity /\ lot.quantity <= bought
    /\ 0 <= lot.pending /\ lot.pending <= MaxQuantity

\* A fill is booked on the request after the reservation, and there after the
\* venue confirmed it; a request is for what was reserved.
BookedOK(e) ==
    /\ 0 <= request[e].filled /\ request[e].filled <= reservation[e].filled
    /\ reservation[e].filled <= venue[e].confirmed
    /\ venue[e].confirmed <= venue[e].matched
    /\ venue[e].matched <= request[e].quantity
    /\ venue[e].state \in {"NONE", "FAILED"} => venue[e].matched = 0
    /\ 0 <= reservation[e].quantity /\ reservation[e].quantity <= MaxQuantity
    /\ request[e].quantity =
          IF request[e].status = "NONE" THEN 0 ELSE reservation[e].quantity
    /\ reservation[e].status = "FILLED" => reservation[e].filled >= reservation[e].quantity

\* A request is final after its order ended and all of it was booked, and
\* until it is, the reservation of a thread that was called holds.
ClaimOK(e) ==
    e \notin preempted =>
        /\ Final(e) => /\ venue[e].state # "OPEN"
                       /\ venue[e].matched = reservation[e].filled
                       /\ request[e].filled = reservation[e].filled
        /\ ~Final(e) /\ transport[e].step # "none" =>
              Holding(e) \/ reservation[e].status = "FILLED"

LocalOK(w) ==
    /\ 0 <= worker[w].quantity /\ 0 <= worker[w].pending
    /\ worker[w].quantity + worker[w].pending <= MaxQuantity
    /\ 0 <= worker[w].matched /\ worker[w].matched <= MaxQuantity
    /\ 0 <= worker[w].confirmed /\ worker[w].confirmed <= MaxQuantity
    /\ rows[w] \in Rows

Over == {"CANCELED", "FAILED", "SETTLED"}

\* What a worker in the course of a submission or a reconciliation knows of
\* the books of its exit, though others write them.
PassOK(w, e) ==
    LET step == worker[w].step IN
    /\ step = "reserved" => Holding(e) /\ reservation[e].quantity = worker[w].quantity
    /\ step \in {"prepared", "attempted"} /\ e \notin preempted => Holding(e)
    /\ step = "releasing" => transport[e].step # "none"
    /\ step = "releasing" /\ worker[w].to \in {"RELEASED", "SETTLED"} /\ e \notin preempted =>
          Final(e)
    /\ step \in {"polled", "listed", "booked", "project"} /\ worker[w].state \in Over =>
          venue[e].state = worker[w].state
    /\ step \in {"listed", "booked", "project"} =>
          /\ worker[w].confirmed <= venue[e].confirmed
          /\ worker[w].confirmed <= worker[w].matched
          /\ worker[w].state \in Over /\ worker[w].matched = worker[w].confirmed =>
                venue[e].matched = worker[w].confirmed
    /\ step \in {"booked", "project"} => Confirmed(w) <= reservation[e].filled
    /\ step = "project" =>
          Confirmed(w) <= rows[w].booked /\ rows[w].booked <= reservation[e].filled

Ledger ==
    /\ SoldAgrees /\ ClaimsWithin /\ LotOK
    /\ \A e \in Exits : BookedOK(e) /\ ClaimOK(e)
    /\ \A w \in Workers : LocalOK(w)
    /\ \A w \in Workers, e \in Exits : Busy(w, e) => PassOK(w, e)

-----------------------------------------------------------------------------
(* Types, and the frames of a step.                                        *)

\* The quantities of the books of an exit are integers.
LEMMA BookNumbers ==
    ASSUME Shape, NEW e \in Exits
    PROVE  /\ request[e].status \in Statuses /\ request[e].quantity \in Int
           /\ request[e].filled \in Int
           /\ reservation[e].quantity \in Int /\ reservation[e].filled \in Int
           /\ venue[e].matched \in Int /\ venue[e].confirmed \in Int
BY DEF Shape, AnyRequest, AnyReservation, AnyOrder

\* Also after a step.
LEMMA BookNumbersNext ==
    ASSUME Shape', NEW e \in Exits
    PROVE  /\ request'[e].status \in Statuses /\ request'[e].quantity \in Int
           /\ request'[e].filled \in Int
           /\ reservation'[e].quantity \in Int /\ reservation'[e].filled \in Int
           /\ venue'[e].matched \in Int /\ venue'[e].confirmed \in Int
BY DEF Shape, AnyRequest, AnyReservation, AnyOrder

\* So are those of a worker and of the lot.
LEMMA LocalNumbers ==
    ASSUME Shape, NEW w \in Workers
    PROVE  /\ worker[w].quantity \in Int /\ worker[w].pending \in Int
           /\ worker[w].matched \in Int /\ worker[w].confirmed \in Int
           /\ lot.quantity \in Int /\ lot.pending \in Int /\ lot.sold \in Int /\ bought \in Int
BY DEF Shape, AnyWorker, AnyLot

\* There are finitely many exits to sum over.
LEMMA ExitsFinite == IsFiniteSet(Exits)
BY ExitConstants, FS_Interval DEF Exits

\* What a worker that rests holds.
LEMMA NumbersAre ==
    /\ MaxQuantity \in Int /\ MaxQuantity >= 1
    /\ Idle.quantity = 0 /\ Idle.pending = 0 /\ Idle.matched = 0 /\ Idle.confirmed = 0
    /\ Idle.step = "idle" /\ NULL \in Rows
BY ExitConstants DEF Idle, Rows

\* A step that leaves the books of e alone.
SameBooks(e) ==
    /\ request'[e] = request[e] /\ reservation'[e] = reservation[e] /\ venue'[e] = venue[e]
    /\ transport'[e].step = "none" <=> transport[e].step = "none"

\* Books left alone keep what holds of them and what they claim.
LEMMA BooksKept ==
    ASSUME NEW e \in Exits, SameBooks(e), preempted \subseteq preempted', BookedOK(e), ClaimOK(e)
    PROVE  BookedOK(e)' /\ ClaimOK(e)' /\ Claimed(e)' = Claimed(e)
BY DEF SameBooks, BookedOK, ClaimOK, Claimed, Holding, Final

\* A worker that does nothing.
Rests(v) == worker'[v] = worker[v] /\ rows'[v] = rows[v]

\* A worker that rests knows what it knew, as long as the books stay.
LEMMA RestKept ==
    ASSUME NEW v \in Workers, Rests(v)
    PROVE  /\ LocalOK(v) => LocalOK(v)'
           /\ \A e \in Exits : Busy(v, e)' <=> Busy(v, e)
           /\ \A e \in Exits : /\ SameBooks(e) /\ preempted \subseteq preempted' /\ PassOK(v, e)
                               => PassOK(v, e)'
BY DEF Rests, LocalOK, Busy, SameBooks, PassOK, Confirmed, Holding, Final

\* The lot and the requests still agree when neither counts a sale.
LEMMA SoldKept ==
    ASSUME SoldAgrees, lot'.sold = lot.sold,
           \A e \in Exits : request'[e].filled = request[e].filled
    PROVE  SoldAgrees'
<1>1. [e \in Exits |-> request'[e].filled] = [e \in Exits |-> request[e].filled]
  OBVIOUS
<1> QED BY <1>1 DEF SoldAgrees, SoldByRequests

\* A claim is an integer.
LEMMA ClaimIsInt ==
    ASSUME Shape, NEW e \in Exits
    PROVE  Claimed(e) \in Int
BY BookNumbers DEF Claimed

\* Also after a step.
LEMMA ClaimIsIntNext ==
    ASSUME Shape', NEW e \in Exits
    PROVE  Claimed(e)' \in Int
BY BookNumbersNext DEF Claimed

\* The claims stay within what was bought when none of them grows.
LEMMA ClaimsKept ==
    ASSUME Shape, Shape', ClaimsWithin, bought <= bought',
           \A e \in Exits : Claimed(e)' <= Claimed(e)
    PROVE  ClaimsWithin'
<1> DEFINE old == [e \in Exits |-> Claimed(e)]
           new == [e \in Exits |-> Claimed(e)']
<1>1. \A e \in Exits : new[e] \in Int /\ old[e] \in Int /\ new[e] <= old[e]
  BY ClaimIsInt, ClaimIsIntNext
<1>2. \A e \in Exits : old[e] \in Int /\ new[e] \in Int
  BY <1>1
<1>3. DOMAIN old = Exits /\ DOMAIN new = Exits
  OBVIOUS
<1>4. ClaimedByExits = SumFunctionOnSet(old, Exits)
      /\ ClaimedByExits' = SumFunctionOnSet(new, Exits)
  BY <1>3 DEF ClaimedByExits, SumFunction
<1> HIDE DEF old, new
<1>5. SumFunctionOnSet(new, Exits) <= SumFunctionOnSet(old, Exits)
  BY <1>1, ExitsFinite, SumMonotonic
<1>6. SumFunctionOnSet(new, Exits) \in Int /\ SumFunctionOnSet(old, Exits) \in Int
  BY <1>2, ExitsFinite, SumType
<1>7. bought \in Int /\ bought' \in Int
  BY DEF Shape
<1> QED BY <1>4, <1>5, <1>6, <1>7 DEF ClaimsWithin

\* The ledger after a step of the workers W about the exit f.
LEMMA StepAt ==
    ASSUME Ledger, NEW f \in Exits, NEW W \in SUBSET Workers, preempted \subseteq preempted',
           \A e \in Exits \ {f} : SameBooks(e),
           \A v \in Workers \ W : Rests(v),
           BookedOK(f)', ClaimOK(f)',
           \A v \in Workers \ W : Busy(v, f) => PassOK(v, f)',
           \A w \in W : LocalOK(w)',
           \A w \in W, e \in Exits : Busy(w, e)' => PassOK(w, e)',
           LotOK', SoldAgrees', ClaimsWithin'
    PROVE  Ledger'
<1>1. ASSUME NEW e \in Exits PROVE BookedOK(e)' /\ ClaimOK(e)'
  BY BooksKept DEF Ledger
<1>2. ASSUME NEW v \in Workers PROVE LocalOK(v)'
  BY RestKept DEF Ledger
<1>3. ASSUME NEW v \in Workers, NEW e \in Exits, Busy(v, e)' PROVE PassOK(v, e)'
  <2>1. CASE v \in W
    BY <1>3, <2>1
  <2>2. CASE v \notin W
    <3>1. Rests(v) /\ Busy(v, e)
      BY <1>3, <2>2, RestKept
    <3> QED BY <2>2, <3>1, RestKept DEF Ledger
  <2> QED BY <2>1, <2>2
<1> QED BY <1>1, <1>2, <1>3 DEF Ledger

\* ... when nothing is sold or claimed by it ...
LEMMA StepSellsNothing ==
    ASSUME ExitInvariant, ExitInvariant', Ledger, NEW f \in Exits,
           preempted \subseteq preempted', \A e \in Exits \ {f} : SameBooks(e),
           request'[f].filled = request[f].filled, Claimed(f)' <= Claimed(f),
           lot'.sold = lot.sold, bought <= bought'
    PROVE  SoldAgrees' /\ ClaimsWithin'
<1>1. Shape /\ Shape'
  BY DEF ExitInvariant
<1>2. \A e \in Exits : request'[e].filled = request[e].filled
  BY DEF SameBooks
<1>3. ASSUME NEW e \in Exits PROVE Claimed(e)' <= Claimed(e)
  <2>1. CASE e = f
    BY <2>1
  <2>2. CASE e # f
    <3>1. Claimed(e)' = Claimed(e)
      BY <2>2, BooksKept DEF Ledger
    <3> QED BY <1>1, <3>1, ClaimIsInt
  <2> QED BY <2>1, <2>2
<1> QED BY <1>1, <1>2, <1>3, SoldKept, ClaimsKept DEF Ledger

\* ... and after a step of the workers W that leaves all books alone.
LEMMA StepLocal ==
    ASSUME ExitInvariant, ExitInvariant', Ledger, NEW W \in SUBSET Workers,
           UNCHANGED <<bought, lot, request, reservation, venue, preempted>>,
           \A e \in Exits : transport'[e].step = "none" <=> transport[e].step = "none",
           \A v \in Workers \ W : Rests(v),
           \A w \in W : LocalOK(w)',
           \A w \in W, e \in Exits : Busy(w, e)' => PassOK(w, e)'
    PROVE  Ledger'
<1>1. \A e \in Exits : SameBooks(e)
  BY DEF SameBooks
<1>2. LotOK'
  BY DEF Ledger, LotOK
<1>3. SoldAgrees' /\ ClaimsWithin'
  <2>1. Shape /\ Shape'
    BY DEF ExitInvariant
  <2>2. ASSUME NEW e \in Exits PROVE Claimed(e)' <= Claimed(e)
    <3>1. Claimed(e)' = Claimed(e)
      BY <1>1, BooksKept DEF Ledger
    <3> QED BY <2>1, <3>1, ClaimIsInt
  <2>3. bought \in Int
    BY <2>1 DEF Shape
  <2> QED BY <2>1, <2>2, <2>3, SoldKept, ClaimsKept DEF Ledger
<1>4. ASSUME NEW e \in Exits PROVE BookedOK(e)' /\ ClaimOK(e)'
  BY <1>1, BooksKept DEF Ledger
<1>5. ASSUME NEW v \in Workers PROVE LocalOK(v)'
  BY RestKept DEF Ledger
<1>6. ASSUME NEW v \in Workers, NEW e \in Exits, Busy(v, e)' PROVE PassOK(v, e)'
  <2>1. CASE v \in W
    BY <1>6, <2>1
  <2>2. CASE v \notin W
    <3>1. Rests(v) /\ Busy(v, e)
      BY <1>6, <2>2, RestKept
    <3> QED BY <1>1, <2>2, <3>1, RestKept DEF Ledger
  <2> QED BY <2>1, <2>2
<1> QED BY <1>2, <1>3, <1>4, <1>5, <1>6 DEF Ledger

\* The same of one worker.
LEMMA StepAtWorker ==
    ASSUME Ledger, NEW f \in Exits, NEW w \in Workers, preempted \subseteq preempted',
           \A e \in Exits \ {f} : SameBooks(e),
           \A v \in Workers \ {w} : Rests(v),
           BookedOK(f)', ClaimOK(f)',
           \A v \in Workers \ {w} : Busy(v, f) => PassOK(v, f)',
           LocalOK(w)', \A e \in Exits : Busy(w, e)' => PassOK(w, e)',
           LotOK', SoldAgrees', ClaimsWithin'
    PROVE  Ledger'
<1> DEFINE W == {w}
<1>1. /\ W \in SUBSET Workers /\ \A v \in Workers \ W : v \in Workers \ {w}
      /\ \A v \in W : v = w
  OBVIOUS
<1> HIDE DEF W
<1>2. /\ \A v \in Workers \ W : Rests(v)
      /\ \A v \in Workers \ W : Busy(v, f) => PassOK(v, f)'
      /\ \A v \in W : LocalOK(v)'
      /\ \A v \in W, e \in Exits : Busy(v, e)' => PassOK(v, e)'
  BY <1>1
<1> QED BY <1>1, <1>2, StepAt

\* One worker moves and leaves the books alone.
LEMMA StepOfWorker ==
    ASSUME ExitInvariant, ExitInvariant', Ledger, NEW w \in Workers,
           UNCHANGED <<bought, lot, request, reservation, venue, preempted>>,
           \A e \in Exits : transport'[e].step = "none" <=> transport[e].step = "none",
           \A v \in Workers \ {w} : Rests(v),
           LocalOK(w)', \A e \in Exits : Busy(w, e)' => PassOK(w, e)'
    PROVE  Ledger'
<1> DEFINE W == {w}
<1>1. /\ W \in SUBSET Workers /\ \A v \in Workers \ W : v \in Workers \ {w}
      /\ \A v \in W : v = w
  OBVIOUS
<1> HIDE DEF W
<1>2. /\ \A v \in Workers \ W : Rests(v)
      /\ \A v \in W : LocalOK(v)'
      /\ \A v \in W, e \in Exits : Busy(v, e)' => PassOK(v, e)'
  BY <1>1
<1> QED BY <1>1, <1>2, StepLocal

\* No worker and no book moves.
LEMMA StepOfNone ==
    ASSUME ExitInvariant, ExitInvariant', Ledger,
           UNCHANGED <<bought, lot, request, reservation, venue, preempted>>,
           \A e \in Exits : transport'[e].step = "none" <=> transport[e].step = "none",
           \A v \in Workers : Rests(v)
    PROVE  Ledger'
<1> DEFINE W == {}
<1>1. W \in SUBSET Workers /\ \A v \in W : FALSE
  OBVIOUS
<1> HIDE DEF W
<1> QED BY <1>1, StepLocal

\* A step of a thread or of the venue about f.
LEMMA StepAtNone ==
    ASSUME Ledger, NEW f \in Exits, preempted \subseteq preempted',
           \A e \in Exits \ {f} : SameBooks(e),
           \A v \in Workers : Rests(v),
           BookedOK(f)', ClaimOK(f)',
           \A v \in Workers : Busy(v, f) => PassOK(v, f)',
           LotOK', SoldAgrees', ClaimsWithin'
    PROVE  Ledger'
<1> DEFINE W == {}
<1>1. W \in SUBSET Workers /\ \A v \in W : FALSE
  OBVIOUS
<1> HIDE DEF W
<1> QED BY <1>1, StepAt

\* What was sold is within what was bought.
LEMMA SoldIsSmall ==
    ASSUME Shape, Ledger
    PROVE  0 <= lot.sold /\ lot.sold <= bought
<1> DEFINE filled == [e \in Exits |-> request[e].filled]
           claimed == [e \in Exits |-> Claimed(e)]
<1>1. ASSUME NEW e \in Exits
      PROVE  filled[e] \in Nat /\ claimed[e] \in Int /\ filled[e] <= claimed[e]
  <2>1. BookedOK(e)
    BY DEF Ledger
  <2>2. 0 <= request[e].filled /\ request[e].filled <= Claimed(e)
    BY <2>1, BookNumbers DEF BookedOK, Claimed
  <2> QED BY <2>2, BookNumbers, ClaimIsInt
<1>2. /\ \A e \in Exits : filled[e] \in Nat
      /\ \A e \in Exits : claimed[e] \in Int
      /\ \A e \in Exits : filled[e] \in Int /\ claimed[e] \in Int /\ filled[e] <= claimed[e]
  BY <1>1
<1>3. DOMAIN filled = Exits /\ DOMAIN claimed = Exits
  OBVIOUS
<1>4. lot.sold = SumFunctionOnSet(filled, Exits)
  BY <1>3 DEF Ledger, SoldAgrees, SoldByRequests, SumFunction
<1>5. SumFunctionOnSet(claimed, Exits) <= bought
  BY <1>3 DEF Ledger, ClaimsWithin, ClaimedByExits, SumFunction
<1> HIDE DEF filled, claimed
<1>6. /\ SumFunctionOnSet(filled, Exits) \in Nat /\ SumFunctionOnSet(claimed, Exits) \in Int
      /\ SumFunctionOnSet(filled, Exits) <= SumFunctionOnSet(claimed, Exits)
  BY <1>2, ExitsFinite, SumNonNegative, SumMonotonic, SumType
<1>7. bought \in Int
  BY DEF Shape
<1> QED BY <1>4, <1>5, <1>6, <1>7

\* The lot keeps its bounds.
LEMMA LotTyped ==
    ASSUME Shape, Ledger
    PROVE  lot \in Lots
<1>1. lot \in AnyLot /\ LotOK
  BY DEF Shape, Ledger
<1>2. lot.quantity \in Quantity /\ lot.sold \in Quantity /\ lot.pending \in Quantity
  BY <1>1, SoldIsSmall, NumbersAre DEF LotOK, Quantity, AnyLot, Shape
<1> QED BY <1>1, <1>2 DEF AnyLot, Lots

\* MAX(0, n), as the lot's quantity is cut off.
LEMMA MaxOfZero ==
    ASSUME NEW n \in Int
    PROVE  /\ Max({0, n}) \in Int /\ 0 <= Max({0, n})
           /\ Max({0, n}) <= 0 \/ Max({0, n}) <= n
<1>1. \E x \in {0, n} : \A y \in {0, n} : x >= y
  <2>1. CASE n >= 0 BY <2>1
  <2>2. CASE ~(n >= 0) BY <2>2
  <2> QED BY <2>1, <2>2
<1> QED BY <1>1 DEF Max

\* The sums the reservation query returns are integers.
LEMMA RiskSumsTyped ==
    ASSUME Shape
    PROVE  SoldByRisk \in Int /\ HeldBySells \in Int
<1> DEFINE filled == [e \in Exits |-> reservation[e].filled]
           open == [e \in Exits |-> reservation[e].quantity - reservation[e].filled]
           holding == {e \in Exits : reservation[e].status \in HoldingStatuses}
<1>1. (\A e \in Exits : filled[e] \in Int) /\ \A e \in holding : open[e] \in Int
  BY BookNumbers
<1>2. IsFiniteSet(holding) /\ DOMAIN filled = Exits
  BY ExitsFinite, FS_Subset
<1>3. SoldByRisk = SumFunctionOnSet(filled, Exits)
  BY <1>2 DEF SoldByRisk, SumFunction
<1>4. HeldBySells = SumFunctionOnSet(open, holding)
  BY DEF HeldBySells
<1> HIDE DEF filled, open, holding
<1> QED BY <1>1, <1>2, <1>3, <1>4, ExitsFinite, SumType

-----------------------------------------------------------------------------
(* Steps of one worker, or of a thread, that leave the books alone.        *)

\* The numbers of a worker that only goes on.
GoesOn(w) ==
    /\ worker'[w].exit = worker[w].exit /\ worker'[w].state = worker[w].state
    /\ worker'[w].quantity = worker[w].quantity /\ worker'[w].pending = worker[w].pending
    /\ worker'[w].matched = worker[w].matched /\ worker'[w].confirmed = worker[w].confirmed

\* A worker that goes on keeps its numbers.
LEMMA GoesOnTyped ==
    ASSUME NEW w \in Workers, GoesOn(w), LocalOK(w), rows'[w] \in Rows
    PROVE  LocalOK(w)'
BY DEF GoesOn, LocalOK

\* Goto moves the worker to the step and no other worker.
LEMMA GotoGoesOn ==
    ASSUME Shape, NEW w \in Workers, NEW step, Goto(w, step)
    PROVE  /\ GoesOn(w) /\ worker'[w].step = step
           /\ \A v \in Workers \ {w} : worker'[v] = worker[v]
BY DEF Goto, GoesOn, Shape, AnyWorker

\* Halt leaves the worker idle.
LEMMA HaltIdles ==
    ASSUME Shape, NEW w \in Workers, Halt(w)
    PROVE  /\ worker'[w] = Idle /\ \A e \in Exits : ~Busy(w, e)'
           /\ rows'[w] \in Rows => LocalOK(w)'
           /\ \A v \in Workers \ {w} : worker'[v] = worker[v]
<1>1. worker'[w] = Idle /\ \A v \in Workers \ {w} : worker'[v] = worker[v]
  BY DEF Halt, Shape
<1>2. rows'[w] \in Rows => LocalOK(w)'
  BY <1>1, NumbersAre DEF LocalOK
<1> QED BY <1>1, <1>2, NumbersAre DEF Busy

\* The gates refuse a close: nothing is written.
LEMMA AdmissionRefusedLedger ==
    ASSUME ExitInvariant, ExitInvariant', Ledger, NEW w \in Workers, AdmissionRefused(w)
    PROVE  Ledger'
<1>1. Shape /\ rows[w] \in Rows
  BY DEF ExitInvariant, Ledger, LocalOK
<1>2. /\ UNCHANGED <<bought, lot, request, reservation, transport, venue, preempted>>
      /\ UNCHANGED rows
      /\ Halt(w)
  BY DEF AdmissionRefused, books
<1>3. LocalOK(w)' /\ \A e \in Exits : ~Busy(w, e)'
  BY <1>1, <1>2, HaltIdles
<1>4. \A v \in Workers \ {w} : Rests(v)
  BY <1>1, <1>2, HaltIdles DEF Rests
<1> QED BY <1>2, <1>3, <1>4, StepOfWorker

\* A lease that moved turns the submission back.
LEMMA SubmissionBlockedLedger ==
    ASSUME ExitInvariant, ExitInvariant', Ledger, NEW w \in Workers, SubmissionBlocked(w)
    PROVE  Ledger'
<1>1. Shape /\ LocalOK(w) /\ rows[w] \in Rows
  BY DEF ExitInvariant, Ledger, LocalOK
<1>2. /\ UNCHANGED <<bought, lot, request, reservation, transport, venue, preempted>>
      /\ UNCHANGED rows
      /\ Goto(w, "withdrawing")
  BY DEF SubmissionBlocked, books
<1>3. GoesOn(w) /\ worker'[w].step = "withdrawing" /\ \A v \in Workers \ {w} : Rests(v)
  BY <1>1, <1>2, GotoGoesOn DEF Rests
<1>4. LocalOK(w)'
  BY <1>1, <1>2, <1>3, GoesOnTyped
<1>5. ASSUME NEW e \in Exits PROVE PassOK(w, e)'
  BY <1>3 DEF PassOK
<1> QED BY <1>2, <1>3, <1>4, <1>5, StepOfWorker

\* A venue that does not answer leaves the books alone.
LEMMA VenueUnavailableLedger ==
    ASSUME ExitInvariant, ExitInvariant', Ledger, NEW w \in Workers, VenueUnavailable(w)
    PROVE  Ledger'
<1>1. Shape /\ LocalOK(w) /\ rows[w] \in Rows
  BY DEF ExitInvariant, Ledger, LocalOK
<1>2. /\ UNCHANGED <<bought, lot, request, reservation, transport, venue, preempted>>
      /\ UNCHANGED rows
      /\ Goto(w, "orphan")
  BY DEF VenueUnavailable, books
<1>3. GoesOn(w) /\ worker'[w].step = "orphan" /\ \A v \in Workers \ {w} : Rests(v)
  BY <1>1, <1>2, GotoGoesOn DEF Rests
<1>4. LocalOK(w)'
  BY <1>1, <1>2, <1>3, GoesOnTyped
<1>5. ASSUME NEW e \in Exits PROVE PassOK(w, e)'
  BY <1>3 DEF PassOK
<1> QED BY <1>2, <1>3, <1>4, <1>5, StepOfWorker

\* The lot is read before the reservation.
LEMMA ReadLotLedger ==
    ASSUME ExitInvariant, ExitInvariant', Ledger, NEW w \in Workers, ReadLot(w)
    PROVE  Ledger'
<1>1. Shape /\ SoldAgrees /\ LotOK
  BY DEF ExitInvariant, Ledger
<1>2. UNCHANGED <<bought, lot, request, reservation, transport, venue, preempted>> /\ UNCHANGED rows
      /\ \A v \in Workers \ {w} : Rests(v)
  BY <1>1 DEF ReadLot, books, Rests, Shape
<1>3. /\ worker'[w].quantity = Available /\ worker'[w].pending = lot.pending
      /\ worker'[w].matched = 0 /\ worker'[w].confirmed = 0 /\ worker'[w].step = "read"
  BY <1>1 DEF ReadLot, Idle, Shape
<1>4. lot.sold >= 0
  BY <1>1, SoldIsSmall
<1>5. LocalOK(w)'
  <2>1. Available > 0 /\ rows[w] \in Rows
    BY DEF ReadLot, Ledger, LocalOK
  <2> QED BY <1>1, <1>2, <1>3, <1>4, <2>1, LocalNumbers, NumbersAre
         DEF LocalOK, LotOK, Available
<1>6. ASSUME NEW e \in Exits PROVE PassOK(w, e)'
  BY <1>3 DEF PassOK
<1> QED BY <1>2, <1>5, <1>6, StepOfWorker

\* A pending close ends the submission.
LEMMA CheckRequestsLedger ==
    ASSUME ExitInvariant, ExitInvariant', Ledger, NEW w \in Workers, CheckRequests(w)
    PROVE  Ledger'
<1>1. Shape /\ LocalOK(w) /\ rows[w] \in Rows /\ worker[w] \in AnyWorker
  BY DEF ExitInvariant, Ledger, LocalOK, Shape
<1>2. UNCHANGED <<bought, lot, request, reservation, transport, venue, preempted>> /\ UNCHANGED rows
      /\ \A v \in Workers \ {w} : Rests(v)
  BY <1>1 DEF CheckRequests, books, Rests, Shape
<1>3. /\ worker'[w].quantity = worker[w].quantity /\ worker'[w].pending = worker[w].pending
      /\ worker'[w].matched = worker[w].matched /\ worker'[w].confirmed = worker[w].confirmed
      /\ worker'[w].step = "admitted"
  <2> DEFINE chosen == CHOOSE e \in {e \in Exits : /\ reservation[e].status = "NONE"
                                     /\ \A v \in Workers : worker[v].exit # e} : TRUE
  <2>1. worker'[w] = [worker[w] EXCEPT !.step = "admitted", !.exit = chosen]
    BY <1>1 DEF CheckRequests, Shape
  <2> HIDE DEF chosen
  <2> QED BY <1>1, <2>1 DEF AnyWorker
<1>4. LocalOK(w)'
  BY <1>1, <1>2, <1>3 DEF LocalOK
<1>5. ASSUME NEW e \in Exits PROVE PassOK(w, e)'
  BY <1>3 DEF PassOK
<1> QED BY <1>2, <1>4, <1>5, StepOfWorker

\* A reconciliation reads its request.
LEMMA ReadRequestLedger ==
    ASSUME ExitInvariant, ExitInvariant', Ledger, NEW w \in Workers, NEW f \in Exits,
           ReadRequest(w, f)
    PROVE  Ledger'
<1>1. Shape /\ LocalOK(w) /\ rows[w] \in Rows /\ worker[w] \in AnyWorker
  BY DEF ExitInvariant, Ledger, LocalOK, Shape
<1>2. UNCHANGED <<bought, lot, request, reservation, transport, venue, preempted>> /\ UNCHANGED rows
      /\ \A v \in Workers \ {w} : Rests(v)
  BY <1>1 DEF ReadRequest, books, Rests, Shape
<1>3. /\ worker'[w].quantity = worker[w].quantity /\ worker'[w].pending = worker[w].pending
      /\ worker'[w].matched = worker[w].matched /\ worker'[w].confirmed = worker[w].confirmed
      /\ worker'[w].step \in {"poll", "unsent", "orphan"}
  BY <1>1 DEF ReadRequest, Shape, AnyWorker
<1>4. LocalOK(w)'
  BY <1>1, <1>2, <1>3 DEF LocalOK
<1>5. ASSUME NEW e \in Exits PROVE PassOK(w, e)'
  BY <1>3 DEF PassOK
<1> QED BY <1>2, <1>4, <1>5, StepOfWorker

\* The order is read: what is over at the venue stays over.
LEMMA PollOrderLedger ==
    ASSUME ExitInvariant, ExitInvariant', Ledger, NEW w \in Workers, PollOrder(w)
    PROVE  Ledger'
<1>1. Shape /\ LocalOK(w) /\ rows[w] \in Rows /\ worker[w] \in AnyWorker
  BY DEF ExitInvariant, Ledger, LocalOK, Shape
<1>2. UNCHANGED <<bought, lot, request, reservation, transport, venue, preempted>> /\ UNCHANGED rows
      /\ \A v \in Workers \ {w} : Rests(v)
  BY <1>1 DEF PollOrder, books, Rests, Shape
<1>3. /\ worker'[w].quantity = worker[w].quantity /\ worker'[w].pending = worker[w].pending
      /\ worker'[w].matched = worker[w].matched /\ worker'[w].confirmed = worker[w].confirmed
      /\ worker'[w].exit = worker[w].exit /\ worker'[w].step = "polled"
      /\ worker'[w].state = venue[worker[w].exit].state
  BY <1>1 DEF PollOrder, Shape, AnyWorker
<1>4. LocalOK(w)'
  BY <1>1, <1>2, <1>3 DEF LocalOK
<1>5. ASSUME NEW e \in Exits, Busy(w, e)' PROVE PassOK(w, e)'
  BY <1>2, <1>3, <1>5 DEF PassOK, Busy
<1> QED BY <1>2, <1>4, <1>5, StepOfWorker

\* The trades are read: confirmed fills only grow.
LEMMA ListTradesLedger ==
    ASSUME ExitInvariant, ExitInvariant', Ledger, NEW w \in Workers, ListTrades(w)
    PROVE  Ledger'
<1>1. Shape /\ LocalOK(w) /\ rows[w] \in Rows /\ worker[w] \in AnyWorker /\ Working
  BY DEF ExitInvariant, Ledger, LocalOK, Shape
<1>2. PICK f \in Exits : worker[w].exit = f /\ worker[w].step = "polled"
  BY <1>1 DEF ListTrades, Working
<1>3. UNCHANGED <<bought, lot, request, reservation, transport, venue, preempted>> /\ UNCHANGED rows
      /\ \A v \in Workers \ {w} : Rests(v)
  BY <1>1 DEF ListTrades, books, Rests, Shape
<1>4. /\ worker'[w].quantity = worker[w].quantity /\ worker'[w].pending = worker[w].pending
      /\ worker'[w].matched = venue[f].matched /\ worker'[w].confirmed = venue[f].confirmed
      /\ worker'[w].exit = f /\ worker'[w].step = "listed"
      /\ worker'[w].state = worker[w].state
  BY <1>1, <1>2 DEF ListTrades, Shape, AnyWorker
<1>5. BookedOK(f) /\ PassOK(w, f)
  BY <1>2 DEF Ledger, Busy
<1>6. LocalOK(w)'
  BY <1>1, <1>2, <1>3, <1>4, <1>5, BookNumbers, NumbersAre DEF LocalOK, BookedOK
<1>7. ASSUME NEW e \in Exits, Busy(w, e)' PROVE PassOK(w, e)'
  BY <1>1, <1>2, <1>3, <1>4, <1>5, <1>7, BookNumbers DEF PassOK, Busy, BookedOK
<1> QED BY <1>3, <1>6, <1>7, StepOfWorker

\* The rows are read before the projection writes them.
LEMMA ReadRowsLedger ==
    ASSUME ExitInvariant, ExitInvariant', Ledger, NEW w \in Workers, ReadRows(w)
    PROVE  Ledger'
<1>1. Shape /\ LocalOK(w) /\ rows[w] \in Rows /\ worker[w] \in AnyWorker /\ Working
  BY DEF ExitInvariant, Ledger, LocalOK, Shape
<1>2. PICK f \in Exits : worker[w].exit = f /\ worker[w].step = "booked"
  BY <1>1 DEF ReadRows, Working
<1>3. /\ UNCHANGED <<bought, lot, request, reservation, transport, venue, preempted>>
      /\ \A v \in Workers \ {w} : Rests(v)
  BY <1>1 DEF ReadRows, books, Rests, Shape, Halt, Goto
<1>4. CASE Halt(w) /\ UNCHANGED rows
  <2>1. LocalOK(w)' /\ \A e \in Exits : ~Busy(w, e)'
    BY <1>1, <1>4, HaltIdles
  <2> QED BY <1>3, <2>1, StepOfWorker
<1>5. CASE Goto(w, "orphan") /\ UNCHANGED rows
  <2>1. GoesOn(w) /\ worker'[w].step = "orphan" /\ LocalOK(w)'
    BY <1>1, <1>5, GotoGoesOn, GoesOnTyped
  <2>2. ASSUME NEW e \in Exits PROVE PassOK(w, e)'
    BY <2>1 DEF PassOK
  <2> QED BY <1>3, <2>1, <2>2, StepOfWorker
<1>6. CASE Goto(w, "project")
           /\ rows' = [rows EXCEPT ![w] = [request |-> request[f], lot |-> lot,
                                           booked |-> reservation[f].filled]]
  <2>1. GoesOn(w) /\ worker'[w].step = "project"
    BY <1>1, <1>6, GotoGoesOn
  <2>2. rows'[w] = [request |-> request[f], lot |-> lot, booked |-> reservation[f].filled]
    BY <1>1, <1>6 DEF Shape
  <2>3. BookedOK(f) /\ PassOK(w, f) /\ LotOK
    BY <1>2 DEF Ledger, Busy
  <2>4. rows'[w] \in Rows
    <3>1. request[f] \in Requests /\ reservation[f].filled \in Quantity
      <4>1. request[f] \in AnyRequest
        BY <1>1 DEF Shape
      <4>2. request[f].quantity \in Quantity /\ request[f].filled \in Quantity
            /\ reservation[f].filled \in Quantity
        BY <1>1, <2>3, BookNumbers, NumbersAre DEF BookedOK, Quantity
      <4> QED BY <4>1, <4>2 DEF AnyRequest, Requests, Statuses
    <3>2. lot \in Lots
      BY <1>1, LotTyped
    <3> QED BY <2>2, <3>1, <3>2 DEF Rows
  <2>5. LocalOK(w)'
    BY <1>1, <2>1, <2>4, GoesOnTyped
  <2>6. ASSUME NEW e \in Exits, Busy(w, e)' PROVE PassOK(w, e)'
    <3>1. e = f /\ Confirmed(w)' = Confirmed(w)
      BY <1>2, <2>1, <2>6 DEF Busy, GoesOn, Confirmed
    <3>2. rows'[w].booked = reservation[f].filled
      BY <2>2
    <3> QED BY <1>1, <1>2, <1>3, <2>1, <2>3, <3>1, <3>2, BookNumbers DEF PassOK, GoesOn
  <2> QED BY <1>3, <2>5, <2>6, StepOfWorker
<1> QED BY <1>2, <1>4, <1>5, <1>6 DEF ReadRows

\* A projection whose row moved writes nothing.
LEMMA ProjectMissesLedger ==
    ASSUME ExitInvariant, ExitInvariant', Ledger, NEW w \in Workers, ProjectMisses(w)
    PROVE  Ledger'
<1>1. Shape /\ LocalOK(w) /\ Working
  BY DEF ExitInvariant, Ledger
<1>2. PICK f \in Exits : worker[w].exit = f /\ worker[w].step = "project"
  BY <1>1 DEF ProjectMisses, Working
<1>3. PICK step \in {"booked", "orphan"} : Goto(w, step)
  BY DEF ProjectMisses
<1>4. GoesOn(w) /\ worker'[w].step = step
  BY <1>1, <1>3, GotoGoesOn
<1>5. /\ UNCHANGED <<bought, lot, request, reservation, transport, venue, preempted>>
      /\ rows'[w] = NULL
      /\ \A v \in Workers \ {w} : Rests(v)
  BY <1>1, <1>3, GotoGoesOn DEF ProjectMisses, books, Rests, Shape
<1>6. LocalOK(w)'
  BY <1>1, <1>4, <1>5, GoesOnTyped, NumbersAre
<1>7. PassOK(w, f)
  BY <1>2 DEF Ledger, Busy
<1>8. ASSUME NEW e \in Exits, Busy(w, e)' PROVE PassOK(w, e)'
  <2>1. e = f /\ Confirmed(w)' = Confirmed(w)
    BY <1>2, <1>4, <1>8 DEF Busy, GoesOn, Confirmed
  <2> QED BY <1>2, <1>3, <1>4, <1>5, <1>7, <2>1 DEF PassOK, GoesOn
<1> QED BY <1>5, <1>6, <1>8, StepOfWorker

\* The thread before it posts.
LEMMA ThreadLedger ==
    ASSUME ExitInvariant, ExitInvariant', Ledger, NEW f \in Exits,
           PrepareOrder(f) \/ FenceRefuses(f) \/ FirstFence(f) \/ SendStarts(f)
           \/ SecondFence(f)
    PROVE  Ledger'
<1>1. Shape
  BY DEF ExitInvariant
<1>2. UNCHANGED <<bought, lot, request, reservation, worker, rows, venue, preempted>>
  BY DEF PrepareOrder, FenceRefuses, FirstFence, SendStarts, SecondFence, ThreadOnly, books
<1>3. \A e \in Exits : transport'[e].step = "none" <=> transport[e].step = "none"
  BY <1>1 DEF PrepareOrder, FenceRefuses, FirstFence, SendStarts, SecondFence, Answers, Shape,
     Threads
<1>4. \A v \in Workers : Rests(v)
  BY <1>2 DEF Rests
<1> QED BY <1>2, <1>3, <1>4, StepOfNone

\* The lease moves to another process.
LEMMA LeaseMovesLedger ==
    ASSUME ExitInvariant, ExitInvariant', Ledger, LeaseMoves
    PROVE  Ledger'
<1>1. UNCHANGED <<bought, lot, request, reservation, worker, rows, transport, venue, preempted>>
  BY DEF LeaseMoves, books
<1>2. \A v \in Workers : Rests(v)
  BY <1>1 DEF Rests
<1> QED BY <1>1, <1>2, StepOfNone

\* A process dies: its threads end, the books stay.
LEMMA CrashLedger ==
    ASSUME ExitInvariant, ExitInvariant', Ledger, NEW w \in Workers, Crash(w)
    PROVE  Ledger'
<1>1. Shape /\ LocalOK(w)
  BY DEF ExitInvariant, Ledger
<1>2. UNCHANGED <<bought, lot, request, reservation, venue, preempted>> /\ Halt(w)
  BY DEF Crash, books
<1>3. rows'[w] \in Rows /\ \A v \in Workers \ {w} : Rests(v)
  BY <1>1, <1>2, HaltIdles, NumbersAre DEF Crash, Rests, Shape
<1>4. LocalOK(w)' /\ \A e \in Exits : ~Busy(w, e)'
  BY <1>1, <1>2, <1>3, HaltIdles
<1>5. ASSUME NEW e \in Exits PROVE transport'[e].step = "none" <=> transport[e].step = "none"
  <2>1. ThreadOK(e) /\ transport[e] \in Threads
    BY DEF ExitInvariant, ExitInvariantOf, Shape
  <2>2. transport'[e] = IF transport[e].worker = w THEN [transport[e] EXCEPT !.step = "done"]
                        ELSE transport[e]
    BY DEF Crash
  <2> QED BY <2>1, <2>2, ExitConstants DEF ThreadOK, Threads
<1> QED BY <1>2, <1>3, <1>4, <1>5, StepOfWorker

-----------------------------------------------------------------------------
(* Steps that write the books of one exit.                                 *)

\* What the two invariants say of one exit.
LEMMA FactsOf ==
    ASSUME ExitInvariant, Ledger, NEW f \in Exits
    PROVE  /\ Exclusive(f) /\ ThreadOK(f) /\ FinalOK(f) /\ BookedOK(f) /\ ClaimOK(f)
           /\ \A v \in Workers : Busy(v, f) => StepOK(v, f) /\ PassOK(v, f)
BY DEF ExitInvariant, ExitInvariantOf, Ledger

\* Only the status of the request and the thread.
LEMMA StatusKept ==
    ASSUME Shape, NEW f \in Exits, BookedOK(f), ClaimOK(f), preempted \subseteq preempted',
           reservation'[f] = reservation[f], venue'[f] = venue[f],
           request'[f].quantity = request[f].quantity, request'[f].filled = request[f].filled,
           request'[f].status = "NONE" <=> request[f].status = "NONE",
           f \notin preempted' /\ Final(f) => Final(f)',
           f \notin preempted' /\ Final(f)' => Final(f) \/ venue[f].state = "NONE",
           transport'[f].step = "none" => transport[f].step = "none",
           f \notin preempted' /\ transport[f].step = "none" /\ transport'[f].step # "none" =>
              Holding(f)
    PROVE  /\ BookedOK(f)' /\ ClaimOK(f)' /\ Claimed(f)' <= Claimed(f)
           /\ \A v \in Workers : Rests(v) /\ PassOK(v, f) => PassOK(v, f)'
<1>1. BookedOK(f)'
  BY DEF BookedOK
<1>2. Claimed(f)' = Claimed(f) /\ Claimed(f) \in Int /\ (Holding(f)' <=> Holding(f))
  BY ClaimIsInt DEF Claimed, Holding
<1>3. ClaimOK(f)'
  <2>1. CASE Final(f)' /\ ~Final(f) /\ f \notin preempted'
    <3>1. venue[f].matched = 0 /\ reservation[f].filled = 0 /\ request[f].filled = 0
      BY <2>1, BookNumbers DEF BookedOK
    <3> QED BY <2>1, <3>1 DEF ClaimOK
  <2>2. CASE Final(f)' <=> Final(f)
    BY <1>2, <2>2 DEF ClaimOK
  <2>3. CASE f \in preempted'
    BY <2>3 DEF ClaimOK
  <2> QED BY <2>1, <2>2, <2>3
<1>4. ASSUME NEW v \in Workers, Rests(v), PassOK(v, f) PROVE PassOK(v, f)'
  <2>1. Confirmed(v)' = Confirmed(v)
    BY <1>4 DEF Rests, Confirmed
  <2> QED BY <1>2, <1>4, <2>1 DEF PassOK, Rests
<1> QED BY <1>1, <1>2, <1>3, <1>4

\* Only the status of the reservation.
LEMMA GivenKept ==
    ASSUME Shape, NEW f \in Exits, BookedOK(f), ClaimOK(f), preempted \subseteq preempted',
           request'[f] = request[f], venue'[f] = venue[f],
           transport'[f].step = "none" <=> transport[f].step = "none",
           reservation'[f].quantity = reservation[f].quantity,
           reservation'[f].filled = reservation[f].filled,
           reservation'[f].status = "FILLED" => reservation[f].status = "FILLED",
           Holding(f)' => Holding(f),
           f \notin preempted' /\ ~Final(f) /\ transport[f].step # "none" =>
              reservation'[f].status = reservation[f].status \/ Holding(f)'
    PROVE  /\ BookedOK(f)' /\ ClaimOK(f)' /\ Claimed(f)' <= Claimed(f)
           /\ \A v \in Workers :
                 /\ Rests(v) /\ PassOK(v, f)
                 /\ worker[v].step = "reserved" => Holding(f)'
                 /\ worker[v].step \in {"prepared", "attempted"} /\ f \notin preempted' =>
                       Holding(f)'
                 => PassOK(v, f)'
<1>1. BookedOK(f)'
  BY DEF BookedOK
<1>2. Claimed(f)' <= Claimed(f)
  <2>1. reservation[f].filled <= reservation[f].quantity
    BY BookNumbers DEF BookedOK
  <2> QED BY <2>1, BookNumbers DEF Claimed
<1>3. Final(f)' = Final(f)
  BY DEF Final
<1>4. ClaimOK(f)'
  BY <1>3 DEF ClaimOK, Holding
<1>5. ASSUME NEW v \in Workers, Rests(v), PassOK(v, f),
             worker[v].step = "reserved" => Holding(f)',
             worker[v].step \in {"prepared", "attempted"} /\ f \notin preempted' => Holding(f)'
      PROVE  PassOK(v, f)'
  <2>1. Confirmed(v)' = Confirmed(v)
    BY <1>5 DEF Rests, Confirmed
  <2> QED BY <1>3, <1>5, <2>1 DEF PassOK, Rests
<1> QED BY <1>1, <1>2, <1>4, <1>5

\* _release_capacity writes a status and no quantity, and ends no row
\* twice.
LEMMA GivenFields ==
    ASSUME NEW r \in AnyReservation, NEW status \in {"RELEASED", "UNKNOWN", "OPEN", "SETTLED"}
    PROVE  /\ Given(r, status).quantity = r.quantity /\ Given(r, status).filled = r.filled
           /\ Given(r, status).status \in {r.status, status}
           /\ r.status \in {"SETTLED", "RELEASED", "FILLED"} /\ status # "SETTLED" =>
                 Given(r, status).status = r.status
BY DEF Given, AnyReservation

\* A late answer leaves a final request as it is.
LEMMA UnlessFields ==
    ASSUME NEW r \in AnyRequest, NEW status \in {"REJECTED", "UNKNOWN"}
    PROVE  /\ Unless(r, status).quantity = r.quantity /\ Unless(r, status).filled = r.filled
           /\ Unless(r, status).status =
                 IF r.status \in FinalStatuses THEN r.status ELSE status
BY DEF Unless, AnyRequest

\* More is bought.
LEMMA ConfirmBuyLedger ==
    ASSUME ExitInvariant, ExitInvariant', Ledger, NEW w \in Workers, ConfirmBuy(w)
    PROVE  Ledger'
<1>1. Shape /\ Shape' /\ LotOK /\ 1 \in Exits
  BY ExitConstants DEF ExitInvariant, Ledger, Exits
<1>2. UNCHANGED <<request, reservation, transport, venue, preempted, worker, rows>>
  BY DEF ConfirmBuy, books
<1>3. bought < MaxQuantity /\ UNCHANGED lot /\ bought' = bought + 1
  BY <1>1 DEF ConfirmBuy, Shape, AnyLot
<1>4. (\A e \in Exits : SameBooks(e)) /\ \A v \in Workers : Rests(v)
  BY <1>2 DEF SameBooks, Rests
<1>5. /\ BookedOK(1)' /\ ClaimOK(1)' /\ Claimed(1)' <= Claimed(1)
      /\ \A v \in Workers : Busy(v, 1) => PassOK(v, 1)'
  <2>1. Claimed(1)' = Claimed(1)
    BY <1>1, <1>2, <1>4, BooksKept DEF Ledger
  <2> QED BY <1>1, <1>2, <1>4, <2>1, BooksKept, RestKept, ClaimIsInt DEF Ledger
<1>6. LotOK'
  BY <1>1, <1>3, LocalNumbers, NumbersAre DEF LotOK, Shape
<1>7. bought <= bought' /\ lot'.sold = lot.sold
  BY <1>1, <1>3 DEF Shape
<1>8. SoldAgrees' /\ ClaimsWithin'
  BY <1>1, <1>2, <1>4, <1>5, <1>7, StepSellsNothing
<1> QED BY <1>1, <1>2, <1>4, <1>5, <1>6, <1>8, StepAtNone

\* The lot follows what was bought, sold and pending.
LEMMA SyncEntryLotLedger ==
    ASSUME ExitInvariant, ExitInvariant', Ledger, NEW w \in Workers, SyncEntryLot(w)
    PROVE  Ledger'
<1>1. Shape /\ Shape' /\ LotOK /\ 1 \in Exits
  BY ExitConstants DEF ExitInvariant, Ledger, Exits
<1>2. UNCHANGED <<request, reservation, transport, venue, preempted, worker, rows>>
  BY DEF SyncEntryLot, books
<1>3. lot.quantity < bought /\ /\ bought' = bought /\ lot'.quantity = bought
      /\ lot'.pending = lot.pending /\ lot'.sold = lot.sold
  BY <1>1 DEF SyncEntryLot, Shape, AnyLot
<1>4. (\A e \in Exits : SameBooks(e)) /\ \A v \in Workers : Rests(v)
  BY <1>2 DEF SameBooks, Rests
<1>5. /\ BookedOK(1)' /\ ClaimOK(1)' /\ Claimed(1)' <= Claimed(1)
      /\ \A v \in Workers : Busy(v, 1) => PassOK(v, 1)'
  <2>1. Claimed(1)' = Claimed(1)
    BY <1>1, <1>2, <1>4, BooksKept DEF Ledger
  <2> QED BY <1>1, <1>2, <1>4, <2>1, BooksKept, RestKept, ClaimIsInt DEF Ledger
<1>6. LotOK'
  BY <1>1, <1>3, LocalNumbers, NumbersAre DEF LotOK, Shape
<1>7. bought <= bought' /\ lot'.sold = lot.sold
  BY <1>1, <1>3 DEF Shape
<1>8. SoldAgrees' /\ ClaimsWithin'
  BY <1>1, <1>2, <1>4, <1>5, <1>7, StepSellsNothing
<1> QED BY <1>1, <1>2, <1>4, <1>5, <1>6, <1>8, StepAtNone

\* A request whose submission was turned back ends unsent.
LEMMA WithdrawRequestLedger ==
    ASSUME ExitInvariant, ExitInvariant', Ledger, NEW w \in Workers, WithdrawRequest(w)
    PROVE  Ledger'
<1>1. Shape /\ Shape' /\ Working /\ LocalOK(w) /\ rows[w] \in Rows
  BY DEF ExitInvariant, Ledger, LocalOK
<1>2. PICK f \in Exits : worker[w].exit = f /\ worker[w].step = "withdrawn"
  BY <1>1 DEF WithdrawRequest, Working
<1>3. UNCHANGED <<bought, reservation, venue, rows, transport, preempted>>
  BY DEF WithdrawRequest, PersistFailure, books
<1>4. /\ FinalOK(f) /\ ThreadOK(f) /\ BookedOK(f) /\ ClaimOK(f) /\ StepOK(w, f) /\ PassOK(w, f)
      /\ \A v \in Workers : Busy(v, f) => StepOK(v, f) /\ PassOK(v, f)
      /\ request[f] \in AnyRequest /\ worker[w] \in AnyWorker
  BY <1>1, <1>2, FactsOf DEF Busy, Shape
<1>5. /\ \A v \in Workers \ {w} : Rests(v)
      /\ \A e \in Exits \ {f} : SameBooks(e)
  BY <1>1, <1>2, <1>3 DEF WithdrawRequest, PersistFailure, Releasing, Halt, Goto, Rests,
     SameBooks, Shape
<1>6. /\ request'[f].quantity = request[f].quantity /\ request'[f].filled = request[f].filled
      /\ request'[f].status = IF request[f].status = "NONE" THEN "NONE" ELSE "REJECTED"
  BY <1>1, <1>2, <1>4 DEF WithdrawRequest, Shape, AnyRequest
<1>7. /\ f \notin preempted' /\ Final(f) => Final(f)'
      /\ f \notin preempted' /\ Final(f)' => Final(f) \/ venue[f].state = "NONE"
      /\ request'[f].status = "NONE" <=> request[f].status = "NONE"
      /\ transport'[f].step = "none" => transport[f].step = "none"
      /\ f \notin preempted' /\ transport[f].step = "none" /\ transport'[f].step # "none" =>
            Holding(f)
  BY <1>2, <1>3, <1>4, <1>6 DEF Final, FinalStatuses, StepOK, ThreadOK
<1>8. preempted \subseteq preempted' /\ reservation'[f] = reservation[f] /\ venue'[f] = venue[f]
  BY <1>3
<1>9. /\ BookedOK(f)' /\ ClaimOK(f)' /\ Claimed(f)' <= Claimed(f)
      /\ \A v \in Workers : Rests(v) /\ PassOK(v, f) => PassOK(v, f)'
  BY <1>1, <1>4, <1>6, <1>7, <1>8, StatusKept
<1>10. LocalOK(w)' /\ \A e \in Exits : Busy(w, e)' => PassOK(w, e)'
  <2>1. Halt(w)
    BY DEF WithdrawRequest
  <2> QED BY <1>1, <1>3, <2>1, HaltIdles
<1>11. LotOK' /\ lot'.sold = lot.sold /\ bought <= bought'
  <2>1. /\ lot'.pending = worker[w].pending \/ lot' = lot
        /\ lot'.quantity = lot.quantity /\ lot'.sold = lot.sold
    BY <1>1, <1>2 DEF WithdrawRequest, Shape, AnyLot
  <2> QED BY <1>1, <1>3, <2>1, LocalNumbers, NumbersAre DEF Ledger, LotOK, LocalOK, Shape
<1>12. SoldAgrees' /\ ClaimsWithin'
  BY <1>5, <1>6, <1>8, <1>9, <1>11, StepSellsNothing
<1> QED BY <1>4, <1>5, <1>8, <1>9, <1>10, <1>11, <1>12, StepAtWorker

\* The thread is called while the reservation holds.
LEMMA CallTransportLedger ==
    ASSUME ExitInvariant, ExitInvariant', Ledger, NEW w \in Workers, CallTransport(w)
    PROVE  Ledger'
<1>1. Shape /\ Shape' /\ Working /\ LocalOK(w) /\ rows[w] \in Rows
  BY DEF ExitInvariant, Ledger, LocalOK
<1>2. PICK f \in Exits : worker[w].exit = f /\ worker[w].step = "attempted"
  BY <1>1 DEF CallTransport, Working
<1>3. UNCHANGED <<bought, lot, reservation, venue, rows, preempted>>
  BY DEF CallTransport, PersistFailure, books
<1>4. /\ FinalOK(f) /\ ThreadOK(f) /\ BookedOK(f) /\ ClaimOK(f) /\ StepOK(w, f) /\ PassOK(w, f)
      /\ \A v \in Workers : Busy(v, f) => StepOK(v, f) /\ PassOK(v, f)
      /\ request[f] \in AnyRequest /\ worker[w] \in AnyWorker
  BY <1>1, <1>2, FactsOf DEF Busy, Shape
<1>5. /\ \A v \in Workers \ {w} : Rests(v)
      /\ \A e \in Exits \ {f} : SameBooks(e)
  BY <1>1, <1>2, <1>3 DEF CallTransport, PersistFailure, Releasing, Halt, Goto, Rests,
     SameBooks, Shape
<1>6. /\ request'[f].quantity = request[f].quantity /\ request'[f].filled = request[f].filled
      /\ request'[f].status = IF request[f].status = "PREPARED" THEN "SUBMITTING"
                              ELSE request[f].status
      /\ transport'[f].step = "called"
  BY <1>1, <1>2, <1>4 DEF CallTransport, Shape, AnyRequest, NoTransport
<1>7. /\ f \notin preempted' /\ Final(f) => Final(f)'
      /\ f \notin preempted' /\ Final(f)' => Final(f) \/ venue[f].state = "NONE"
      /\ request'[f].status = "NONE" <=> request[f].status = "NONE"
      /\ transport'[f].step = "none" => transport[f].step = "none"
      /\ f \notin preempted' /\ transport[f].step = "none" /\ transport'[f].step # "none" =>
            Holding(f)
  BY <1>2, <1>3, <1>4, <1>6 DEF Final, FinalStatuses, StepOK, PassOK
<1>8. preempted \subseteq preempted' /\ reservation'[f] = reservation[f] /\ venue'[f] = venue[f]
  BY <1>3
<1>9. /\ BookedOK(f)' /\ ClaimOK(f)' /\ Claimed(f)' <= Claimed(f)
      /\ \A v \in Workers : Rests(v) /\ PassOK(v, f) => PassOK(v, f)'
  BY <1>1, <1>4, <1>6, <1>7, <1>8, StatusKept
<1>10. LocalOK(w)' /\ \A e \in Exits : Busy(w, e)' => PassOK(w, e)'
  <2>1. GoesOn(w) /\ worker'[w].step = "waiting"
    BY <1>1, GotoGoesOn DEF CallTransport
  <2> QED BY <1>1, <1>3, <2>1, GoesOnTyped DEF PassOK
<1>11. LotOK' /\ lot'.sold = lot.sold /\ bought <= bought'
  BY <1>1, <1>3 DEF Ledger, LotOK, Shape
<1>12. SoldAgrees' /\ ClaimsWithin'
  BY <1>5, <1>6, <1>8, <1>9, <1>11, StepSellsNothing
<1> QED BY <1>4, <1>5, <1>8, <1>9, <1>10, <1>11, <1>12, StepAtWorker

\* A thread that raised leaves the request for reconciliation.
LEMMA SubmissionFailsLedger ==
    ASSUME ExitInvariant, ExitInvariant', Ledger, NEW w \in Workers, SubmissionFails(w)
    PROVE  Ledger'
<1>1. Shape /\ Shape' /\ Working /\ LocalOK(w) /\ rows[w] \in Rows
  BY DEF ExitInvariant, Ledger, LocalOK
<1>2. PICK f \in Exits : worker[w].exit = f /\ worker[w].step = "waiting"
  BY <1>1 DEF SubmissionFails, Working
<1>3. UNCHANGED <<bought, lot, reservation, venue, rows, transport, preempted>>
  BY DEF SubmissionFails, PersistFailure, books
<1>4. /\ FinalOK(f) /\ ThreadOK(f) /\ BookedOK(f) /\ ClaimOK(f) /\ StepOK(w, f) /\ PassOK(w, f)
      /\ \A v \in Workers : Busy(v, f) => StepOK(v, f) /\ PassOK(v, f)
      /\ request[f] \in AnyRequest /\ worker[w] \in AnyWorker
  BY <1>1, <1>2, FactsOf DEF Busy, Shape
<1>5. /\ \A v \in Workers \ {w} : Rests(v)
      /\ \A e \in Exits \ {f} : SameBooks(e)
  BY <1>1, <1>2, <1>3 DEF SubmissionFails, PersistFailure, Releasing, Halt, Goto, Rests,
     SameBooks, Shape
<1>6. /\ request'[f].quantity = request[f].quantity /\ request'[f].filled = request[f].filled
      /\ request'[f].status \in {request[f].status, "REJECTED", "UNKNOWN"}
      /\ request[f].status \in FinalStatuses => request'[f].status = request[f].status
      /\ request'[f].status = "REJECTED" =>
            request[f].status = "REJECTED" \/ transport[f].result = "REFUSED"
      /\ transport[f].result = "REFUSED" => request'[f].status \in FinalStatuses
  <2> DEFINE status == IF transport[f].result = "REFUSED" THEN "REJECTED" ELSE "UNKNOWN"
  <2>1. status \in {"REJECTED", "UNKNOWN"}
    OBVIOUS
  <2>2. request'[f] = Unless(request[f], status)
    BY <1>1, <1>2 DEF SubmissionFails, PersistFailure, Shape
  <2>3. transport[f].result = "REFUSED" <=> status = "REJECTED"
    OBVIOUS
  <2> HIDE DEF status
  <2> QED BY <1>4, <2>1, <2>2, <2>3, UnlessFields DEF FinalStatuses
<1>7. /\ f \notin preempted' /\ Final(f) => Final(f)'
      /\ f \notin preempted' /\ Final(f)' => Final(f) \/ venue[f].state = "NONE"
      /\ request'[f].status = "NONE" <=> request[f].status = "NONE"
      /\ transport'[f].step = "none" => transport[f].step = "none"
      /\ f \notin preempted' /\ transport[f].step = "none" /\ transport'[f].step # "none" =>
            Holding(f)
  BY <1>2, <1>3, <1>4, <1>6 DEF Final, FinalStatuses, StepOK, ThreadOK
<1>8. preempted \subseteq preempted' /\ reservation'[f] = reservation[f] /\ venue'[f] = venue[f]
  BY <1>3
<1>9. /\ BookedOK(f)' /\ ClaimOK(f)' /\ Claimed(f)' <= Claimed(f)
      /\ \A v \in Workers : Rests(v) /\ PassOK(v, f) => PassOK(v, f)'
  BY <1>1, <1>4, <1>6, <1>7, <1>8, StatusKept
<1>10. LocalOK(w)' /\ \A e \in Exits : Busy(w, e)' => PassOK(w, e)'
  <2>1. GoesOn(w) /\ worker'[w].step = "releasing"
        /\ (worker'[w].to \in {"RELEASED", "SETTLED"} => Final(f)')
    <3>1. worker'[w] = [worker[w] EXCEPT !.step = "releasing", !.to =
              IF transport[f].result = "REFUSED" THEN "RELEASED" ELSE "UNKNOWN"]
      BY <1>1, <1>2 DEF SubmissionFails, PersistFailure, Releasing, Shape
    <3> QED BY <1>4, <1>6, <3>1 DEF GoesOn, AnyWorker, Final
  <2>2. LocalOK(w)'
    BY <1>1, <1>3, <2>1, GoesOnTyped
  <2>3. ASSUME NEW e \in Exits, Busy(w, e)' PROVE PassOK(w, e)'
    <3>1. e = f /\ transport'[f].step # "none"
      BY <1>2, <1>4, <1>7, <2>1, <2>3 DEF Busy, GoesOn, StepOK
    <3> QED BY <2>1, <3>1 DEF PassOK
  <2> QED BY <2>2, <2>3
<1>11. LotOK' /\ lot'.sold = lot.sold /\ bought <= bought'
  BY <1>1, <1>3 DEF Ledger, LotOK, Shape
<1>12. SoldAgrees' /\ ClaimsWithin'
  BY <1>5, <1>6, <1>8, <1>9, <1>11, StepSellsNothing
<1> QED BY <1>4, <1>5, <1>8, <1>9, <1>10, <1>11, <1>12, StepAtWorker

\* So does one that took too long.
LEMMA TimeOutLedger ==
    ASSUME ExitInvariant, ExitInvariant', Ledger, NEW w \in Workers, TimeOut(w)
    PROVE  Ledger'
<1>1. Shape /\ Shape' /\ Working /\ LocalOK(w) /\ rows[w] \in Rows
  BY DEF ExitInvariant, Ledger, LocalOK
<1>2. PICK f \in Exits : worker[w].exit = f /\ worker[w].step = "waiting"
  BY <1>1 DEF TimeOut, Working
<1>3. UNCHANGED <<bought, lot, reservation, venue, rows, preempted>>
  BY DEF TimeOut, PersistFailure, books
<1>4. /\ FinalOK(f) /\ ThreadOK(f) /\ BookedOK(f) /\ ClaimOK(f) /\ StepOK(w, f) /\ PassOK(w, f)
      /\ \A v \in Workers : Busy(v, f) => StepOK(v, f) /\ PassOK(v, f)
      /\ request[f] \in AnyRequest /\ worker[w] \in AnyWorker
  BY <1>1, <1>2, FactsOf DEF Busy, Shape
<1>5. /\ \A v \in Workers \ {w} : Rests(v)
      /\ \A e \in Exits \ {f} : SameBooks(e)
  BY <1>1, <1>2, <1>3 DEF TimeOut, PersistFailure, Releasing, Halt, Goto, Rests, SameBooks, Shape
<1>6. /\ request'[f].quantity = request[f].quantity /\ request'[f].filled = request[f].filled
      /\ request'[f].status \in {request[f].status, "REJECTED", "UNKNOWN"}
      /\ request[f].status \in FinalStatuses => request'[f].status = request[f].status
      /\ TimeOutStatus(f) = "REJECTED" => request'[f].status \in FinalStatuses
      /\ transport'[f].step = transport[f].step /\ transport[f].step # "done"
  <2>1. TimeOutStatus(f) \in {"REJECTED", "UNKNOWN"}
    BY DEF TimeOutStatus
  <2>2. request'[f] = Unless(request[f], TimeOutStatus(f))
    BY <1>1, <1>2 DEF TimeOut, PersistFailure, Shape
  <2>3. transport'[f].step = transport[f].step /\ transport[f].step # "done"
    BY <1>1, <1>2 DEF TimeOut, Shape, Threads
  <2> QED BY <1>4, <2>1, <2>2, <2>3, UnlessFields DEF FinalStatuses
<1>7. /\ f \notin preempted' /\ Final(f) => Final(f)'
      /\ f \notin preempted' /\ Final(f)' => Final(f) \/ venue[f].state = "NONE"
      /\ request'[f].status = "NONE" <=> request[f].status = "NONE"
      /\ transport'[f].step = "none" => transport[f].step = "none"
      /\ f \notin preempted' /\ transport[f].step = "none" /\ transport'[f].step # "none" =>
            Holding(f)
  BY <1>2, <1>3, <1>4, <1>6 DEF Final, FinalStatuses, StepOK, ThreadOK
<1>8. preempted \subseteq preempted' /\ reservation'[f] = reservation[f] /\ venue'[f] = venue[f]
  BY <1>3
<1>9. /\ BookedOK(f)' /\ ClaimOK(f)' /\ Claimed(f)' <= Claimed(f)
      /\ \A v \in Workers : Rests(v) /\ PassOK(v, f) => PassOK(v, f)'
  BY <1>1, <1>4, <1>6, <1>7, <1>8, StatusKept
<1>10. LocalOK(w)' /\ \A e \in Exits : Busy(w, e)' => PassOK(w, e)'
  <2>1. GoesOn(w) /\ worker'[w].step = "releasing"
        /\ (worker'[w].to \in {"RELEASED", "SETTLED"} => Final(f)')
    <3>1. worker'[w] = [worker[w] EXCEPT !.step = "releasing", !.to =
              IF TimeOutStatus(f) = "REJECTED" THEN "RELEASED" ELSE "UNKNOWN"]
      BY <1>1, <1>2 DEF TimeOut, PersistFailure, Releasing, Shape
    <3> QED BY <1>4, <1>6, <3>1 DEF GoesOn, AnyWorker, Final
  <2>2. LocalOK(w)'
    BY <1>1, <1>3, <2>1, GoesOnTyped
  <2>3. ASSUME NEW e \in Exits, Busy(w, e)' PROVE PassOK(w, e)'
    <3>1. e = f /\ transport'[f].step # "none"
      BY <1>2, <1>4, <1>7, <2>1, <2>3 DEF Busy, GoesOn, StepOK
    <3> QED BY <2>1, <3>1 DEF PassOK
  <2> QED BY <2>2, <2>3
<1>11. LotOK' /\ lot'.sold = lot.sold /\ bought <= bought'
  BY <1>1, <1>3 DEF Ledger, LotOK, Shape
<1>12. SoldAgrees' /\ ClaimsWithin'
  BY <1>5, <1>6, <1>8, <1>9, <1>11, StepSellsNothing
<1> QED BY <1>4, <1>5, <1>8, <1>9, <1>10, <1>11, <1>12, StepAtWorker

\* An answer moves the request on.
LEMMA RespondsLedger ==
    ASSUME ExitInvariant, ExitInvariant', Ledger, NEW w \in Workers, Responds(w)
    PROVE  Ledger'
<1>1. Shape /\ Shape' /\ Working /\ LocalOK(w) /\ rows[w] \in Rows
  BY DEF ExitInvariant, Ledger, LocalOK
<1>2. PICK f \in Exits : worker[w].exit = f /\ worker[w].step = "waiting"
  BY <1>1 DEF Responds, Working
<1>3. UNCHANGED <<bought, reservation, venue, rows, transport, preempted>>
  BY DEF Responds, PersistFailure, books
<1>4. /\ FinalOK(f) /\ ThreadOK(f) /\ BookedOK(f) /\ ClaimOK(f) /\ StepOK(w, f) /\ PassOK(w, f)
      /\ \A v \in Workers : Busy(v, f) => StepOK(v, f) /\ PassOK(v, f)
      /\ request[f] \in AnyRequest /\ worker[w] \in AnyWorker
  BY <1>1, <1>2, FactsOf DEF Busy, Shape
<1>5. /\ \A v \in Workers \ {w} : Rests(v)
      /\ \A e \in Exits \ {f} : SameBooks(e)
  BY <1>1, <1>2, <1>3 DEF Responds, PersistFailure, Releasing, Halt, Goto, Rests, SameBooks, Shape
<1>6. /\ request'[f].quantity = request[f].quantity /\ request'[f].filled = request[f].filled
      /\ request'[f].status \in {request[f].status, "REJECTED", "OPEN"}
      /\ request[f].status \in FinalStatuses => request'[f].status = request[f].status
      /\ request'[f].status = "REJECTED" =>
            request[f].status = "REJECTED" \/ transport[f].result = "REJECTED"
      /\ transport[f].result = "REJECTED" => request'[f].status \in FinalStatuses
  <2>1. CASE transport[f].result = "ACCEPTED"
    <3>1. request'[f] = IF request[f].status \in FinalStatuses THEN request[f]
                        ELSE [request[f] EXCEPT !.status = "OPEN", !.order = TRUE]
      BY <1>1, <1>2, <2>1 DEF Responds, Shape
    <3>2. CASE request[f].status \in FinalStatuses
      BY <2>1, <3>1, <3>2
    <3>3. CASE request[f].status \notin FinalStatuses
      BY <1>4, <2>1, <3>1, <3>3 DEF AnyRequest
    <3> QED BY <3>2, <3>3
  <2>2. CASE transport[f].result = "REJECTED"
    <3>1. request'[f] = Unless(request[f], "REJECTED")
      BY <1>1, <1>2, <2>2 DEF Responds, Shape
    <3> QED BY <1>4, <2>2, <3>1, UnlessFields DEF FinalStatuses
  <2> QED BY <1>2, <2>1, <2>2 DEF Responds
<1>7. /\ f \notin preempted' /\ Final(f) => Final(f)'
      /\ f \notin preempted' /\ Final(f)' => Final(f) \/ venue[f].state = "NONE"
      /\ request'[f].status = "NONE" <=> request[f].status = "NONE"
      /\ transport'[f].step = "none" => transport[f].step = "none"
      /\ f \notin preempted' /\ transport[f].step = "none" /\ transport'[f].step # "none" =>
            Holding(f)
  BY <1>2, <1>3, <1>4, <1>6 DEF Final, FinalStatuses, StepOK, ThreadOK
<1>8. preempted \subseteq preempted' /\ reservation'[f] = reservation[f] /\ venue'[f] = venue[f]
  BY <1>3
<1>9. /\ BookedOK(f)' /\ ClaimOK(f)' /\ Claimed(f)' <= Claimed(f)
      /\ \A v \in Workers : Rests(v) /\ PassOK(v, f) => PassOK(v, f)'
  BY <1>1, <1>4, <1>6, <1>7, <1>8, StatusKept
<1>10. LocalOK(w)' /\ \A e \in Exits : Busy(w, e)' => PassOK(w, e)'
  <2>1. GoesOn(w) /\ worker'[w].step = "releasing"
        /\ (worker'[w].to \in {"RELEASED", "SETTLED"} => Final(f)')
    <3>1. worker'[w] = [worker[w] EXCEPT !.step = "releasing", !.to =
              IF transport[f].result = "REJECTED" THEN "RELEASED" ELSE "OPEN"]
      BY <1>1, <1>2 DEF Responds, Releasing, Shape
    <3> QED BY <1>4, <1>6, <3>1 DEF GoesOn, AnyWorker, Final
  <2>2. LocalOK(w)'
    BY <1>1, <1>3, <2>1, GoesOnTyped
  <2>3. ASSUME NEW e \in Exits, Busy(w, e)' PROVE PassOK(w, e)'
    <3>1. e = f /\ transport'[f].step # "none"
      BY <1>2, <1>4, <1>7, <2>1, <2>3 DEF Busy, GoesOn, StepOK
    <3> QED BY <2>1, <3>1 DEF PassOK
  <2> QED BY <2>2, <2>3
<1>11. LotOK' /\ lot'.sold = lot.sold /\ bought <= bought'
  <2>1. /\ lot'.pending = worker[w].pending \/ lot' = lot
        /\ lot'.quantity = lot.quantity /\ lot'.sold = lot.sold
    BY <1>1, <1>2 DEF Responds, Shape, AnyLot
  <2> QED BY <1>1, <1>3, <2>1, LocalNumbers, NumbersAre DEF Ledger, LotOK, LocalOK, Shape
<1>12. SoldAgrees' /\ ClaimsWithin'
  BY <1>5, <1>6, <1>8, <1>9, <1>11, StepSellsNothing
<1> QED BY <1>4, <1>5, <1>8, <1>9, <1>10, <1>11, <1>12, StepAtWorker

\* A request without an order becomes UNKNOWN.
LEMMA MarkUnknownLedger ==
    ASSUME ExitInvariant, ExitInvariant', Ledger, NEW w \in Workers, MarkUnknown(w)
    PROVE  Ledger'
<1>1. Shape /\ Shape' /\ Working /\ LocalOK(w) /\ rows[w] \in Rows
  BY DEF ExitInvariant, Ledger, LocalOK
<1>2. PICK f \in Exits : worker[w].exit = f /\ worker[w].step = "orphan"
  BY <1>1 DEF MarkUnknown, Working
<1>3. UNCHANGED <<bought, lot, reservation, venue, rows, transport, preempted>>
  BY DEF MarkUnknown, PersistFailure, books
<1>4. /\ FinalOK(f) /\ ThreadOK(f) /\ BookedOK(f) /\ ClaimOK(f) /\ StepOK(w, f) /\ PassOK(w, f)
      /\ \A v \in Workers : Busy(v, f) => StepOK(v, f) /\ PassOK(v, f)
      /\ request[f] \in AnyRequest /\ worker[w] \in AnyWorker
  BY <1>1, <1>2, FactsOf DEF Busy, Shape
<1>5. /\ \A v \in Workers \ {w} : Rests(v)
      /\ \A e \in Exits \ {f} : SameBooks(e)
  BY <1>1, <1>2, <1>3 DEF MarkUnknown, PersistFailure, Releasing, Halt, Goto, Rests,
     SameBooks, Shape
<1>6. /\ request'[f].quantity = request[f].quantity /\ request'[f].filled = request[f].filled
      /\ request'[f].status = IF request[f].status \in FinalStatuses THEN request[f].status
                              ELSE "UNKNOWN"
  <2>1. request'[f] = Unless(request[f], "UNKNOWN")
    BY <1>1, <1>2 DEF MarkUnknown, Shape
  <2> QED BY <1>4, <2>1, UnlessFields
<1>7. /\ f \notin preempted' /\ Final(f) => Final(f)'
      /\ f \notin preempted' /\ Final(f)' => Final(f) \/ venue[f].state = "NONE"
      /\ request'[f].status = "NONE" <=> request[f].status = "NONE"
      /\ transport'[f].step = "none" => transport[f].step = "none"
      /\ f \notin preempted' /\ transport[f].step = "none" /\ transport'[f].step # "none" =>
            Holding(f)
  BY <1>2, <1>3, <1>4, <1>6 DEF Final, FinalStatuses, StepOK, ReconcileSteps
<1>8. preempted \subseteq preempted' /\ reservation'[f] = reservation[f] /\ venue'[f] = venue[f]
  BY <1>3
<1>9. /\ BookedOK(f)' /\ ClaimOK(f)' /\ Claimed(f)' <= Claimed(f)
      /\ \A v \in Workers : Rests(v) /\ PassOK(v, f) => PassOK(v, f)'
  BY <1>1, <1>4, <1>6, <1>7, <1>8, StatusKept
<1>10. LocalOK(w)' /\ \A e \in Exits : Busy(w, e)' => PassOK(w, e)'
  <2>1. Halt(w)
    BY DEF MarkUnknown
  <2> QED BY <1>1, <1>3, <2>1, HaltIdles
<1>11. LotOK' /\ lot'.sold = lot.sold /\ bought <= bought'
  BY <1>1, <1>3 DEF Ledger, LotOK, Shape
<1>12. SoldAgrees' /\ ClaimsWithin'
  BY <1>5, <1>6, <1>8, <1>9, <1>11, StepSellsNothing
<1> QED BY <1>4, <1>5, <1>8, <1>9, <1>10, <1>11, <1>12, StepAtWorker

\* A request known unsent becomes final.
LEMMA RejectUnsentLedger ==
    ASSUME ExitInvariant, ExitInvariant', Ledger, NEW w \in Workers, RejectUnsent(w)
    PROVE  Ledger'
<1>1. Shape /\ Shape' /\ Working /\ LocalOK(w) /\ rows[w] \in Rows
  BY DEF ExitInvariant, Ledger, LocalOK
<1>2. PICK f \in Exits : worker[w].exit = f /\ worker[w].step = "rejecting"
  BY <1>1 DEF RejectUnsent, Working
<1>3. UNCHANGED <<bought, reservation, venue, rows, transport>>
  BY DEF RejectUnsent, PersistFailure, books
<1>4. /\ FinalOK(f) /\ ThreadOK(f) /\ BookedOK(f) /\ ClaimOK(f) /\ StepOK(w, f) /\ PassOK(w, f)
      /\ \A v \in Workers : Busy(v, f) => StepOK(v, f) /\ PassOK(v, f)
      /\ request[f] \in AnyRequest /\ worker[w] \in AnyWorker
  BY <1>1, <1>2, FactsOf DEF Busy, Shape
<1>5. /\ \A v \in Workers \ {w} : Rests(v)
      /\ \A e \in Exits \ {f} : SameBooks(e)
  BY <1>1, <1>2, <1>3 DEF RejectUnsent, PersistFailure, Releasing, Halt, Goto, Rests,
     SameBooks, Shape
<1>6. /\ request'[f].quantity = request[f].quantity /\ request'[f].filled = request[f].filled
      /\ request'[f].status = "REJECTED" /\ preempted \subseteq preempted'
      /\ f \in preempted' \/ request[f].status = "PREPARED"
  BY <1>1, <1>2, <1>4 DEF RejectUnsent, WentOn, Shape, AnyRequest
<1>7. /\ f \notin preempted' /\ Final(f) => Final(f)'
      /\ f \notin preempted' /\ Final(f)' => Final(f) \/ venue[f].state = "NONE"
      /\ request'[f].status = "NONE" <=> request[f].status = "NONE"
      /\ transport'[f].step = "none" => transport[f].step = "none"
      /\ f \notin preempted' /\ transport[f].step = "none" /\ transport'[f].step # "none" =>
            Holding(f)
  BY <1>2, <1>3, <1>4, <1>6 DEF Final, FinalStatuses, StepOK, ThreadOK, ReconcileSteps
<1>8. preempted \subseteq preempted' /\ reservation'[f] = reservation[f] /\ venue'[f] = venue[f]
  BY <1>3, <1>6
<1>9. /\ BookedOK(f)' /\ ClaimOK(f)' /\ Claimed(f)' <= Claimed(f)
      /\ \A v \in Workers : Rests(v) /\ PassOK(v, f) => PassOK(v, f)'
  BY <1>1, <1>4, <1>6, <1>7, <1>8, StatusKept
<1>10. LocalOK(w)' /\ \A e \in Exits : Busy(w, e)' => PassOK(w, e)'
  <2>1. Halt(w)
    BY DEF RejectUnsent
  <2> QED BY <1>1, <1>3, <2>1, HaltIdles
<1>11. LotOK' /\ lot'.sold = lot.sold /\ bought <= bought'
  <2> DEFINE less == lot.pending - request[f].quantity
             left == Max({0, less})
  <2>1. lot' = [lot EXCEPT !.pending = left,
                          !.status = IF left > 0 THEN "EXIT_PENDING" ELSE "OPEN"]
    BY <1>2 DEF RejectUnsent, PendingWithout
  <2>2. less \in Int /\ less <= lot.pending
    BY <1>1, <1>4, BookNumbers, LocalNumbers DEF BookedOK
  <2>3. left \in Int /\ 0 <= left /\ (left <= 0 \/ left <= less)
    <3> HIDE DEF less
    <3> QED BY <2>2, MaxOfZero
  <2> HIDE DEF left
  <2>4. lot'.pending = left /\ lot'.quantity = lot.quantity /\ lot'.sold = lot.sold
    BY <1>1, <2>1 DEF Shape, AnyLot
  <2> HIDE DEF less
  <2> QED BY <1>1, <1>3, <2>2, <2>3, <2>4, LocalNumbers, NumbersAre DEF Ledger, LotOK, Shape
<1>12. SoldAgrees' /\ ClaimsWithin'
  BY <1>5, <1>6, <1>8, <1>9, <1>11, StepSellsNothing
<1> QED BY <1>4, <1>5, <1>8, <1>9, <1>10, <1>11, <1>12, StepAtWorker

\* The thread marks the request of a submission that is not over.
LEMMA MarkSendStartedLedger ==
    ASSUME ExitInvariant, ExitInvariant', Ledger, NEW f \in Exits, MarkSendStarted(f)
    PROVE  Ledger'
<1>1. Shape /\ Shape'
  BY DEF ExitInvariant
<1>2. UNCHANGED <<bought, lot, reservation, worker, rows, venue, preempted>>
  BY DEF MarkSendStarted, books
<1>3. /\ FinalOK(f) /\ ThreadOK(f) /\ BookedOK(f) /\ ClaimOK(f)
      /\ \A v \in Workers : Busy(v, f) => PassOK(v, f)
      /\ request[f] \in AnyRequest /\ transport[f] \in Threads
  BY <1>1, FactsOf DEF Shape
<1>4. (\A v \in Workers : Rests(v)) /\ \A e \in Exits \ {f} : SameBooks(e)
  BY <1>1, <1>2 DEF MarkSendStarted, Rests, SameBooks, Shape
<1>5. /\ request'[f].quantity = request[f].quantity /\ request'[f].filled = request[f].filled
      /\ request'[f].status = "SUBMITTING"
      /\ transport[f].step = "started" /\ transport'[f].step = "marked"
  BY <1>1, <1>3 DEF MarkSendStarted, Shape, AnyRequest, Threads
<1>6. /\ f \notin preempted' /\ Final(f) => Final(f)'
      /\ f \notin preempted' /\ Final(f)' => Final(f) \/ venue[f].state = "NONE"
      /\ request'[f].status = "NONE" <=> request[f].status = "NONE"
  BY <1>2, <1>3, <1>5 DEF Final, FinalStatuses, FinalOK, ThreadOK
<1>7. preempted \subseteq preempted' /\ reservation'[f] = reservation[f] /\ venue'[f] = venue[f]
  BY <1>2
<1>8. /\ BookedOK(f)' /\ ClaimOK(f)' /\ Claimed(f)' <= Claimed(f)
      /\ \A v \in Workers : Rests(v) /\ PassOK(v, f) => PassOK(v, f)'
  BY <1>1, <1>3, <1>5, <1>6, <1>7, StatusKept
<1>9. LotOK' /\ lot'.sold = lot.sold /\ bought <= bought'
  BY <1>1, <1>2 DEF Ledger, LotOK, Shape
<1>10. SoldAgrees' /\ ClaimsWithin'
  BY <1>4, <1>5, <1>7, <1>8, <1>9, StepSellsNothing
<1> QED BY <1>3, <1>4, <1>7, <1>8, <1>9, <1>10, StepAtNone

\* The attempt is recorded on the lot and the request.
LEMMA RecordAttemptLedger ==
    ASSUME ExitInvariant, ExitInvariant', Ledger, NEW w \in Workers, RecordAttempt(w)
    PROVE  Ledger'
<1>1. Shape /\ Shape' /\ Working /\ LocalOK(w) /\ rows[w] \in Rows
  BY DEF ExitInvariant, Ledger, LocalOK
<1>2. PICK f \in Exits : worker[w].exit = f /\ worker[w].step = "prepared"
  BY <1>1 DEF RecordAttempt, Working
<1>3. UNCHANGED <<bought, lot, request, venue, rows, transport, preempted>>
  BY DEF RecordAttempt, books
<1>4. /\ Exclusive(f) /\ ThreadOK(f) /\ BookedOK(f) /\ ClaimOK(f) /\ StepOK(w, f) /\ PassOK(w, f)
      /\ \A v \in Workers : Busy(v, f) => StepOK(v, f) /\ PassOK(v, f)
      /\ reservation[f] \in AnyReservation /\ worker[w] \in AnyWorker
  BY <1>1, <1>2, FactsOf DEF Busy, Shape
<1>5. /\ \A v \in Workers \ {w} : Rests(v)
      /\ \A e \in Exits \ {f} : SameBooks(e)
  BY <1>1, <1>2, <1>3 DEF RecordAttempt, Halt, Goto, Rests, SameBooks, Shape
<1>6. /\ reservation'[f].quantity = reservation[f].quantity
      /\ reservation'[f].filled = reservation[f].filled
      /\ reservation[f].status = "HELD" /\ reservation'[f].status = "SUBMITTING"
  BY <1>1, <1>2, <1>4 DEF RecordAttempt, Shape, AnyReservation
<1>7. /\ reservation'[f].status = "FILLED" => reservation[f].status = "FILLED"
      /\ Holding(f)' => Holding(f)
      /\ f \notin preempted' /\ ~Final(f) /\ transport[f].step # "none" =>
            reservation'[f].status = reservation[f].status \/ Holding(f)'
  BY <1>6 DEF Holding, HoldingStatuses
<1>8. /\ preempted \subseteq preempted' /\ request'[f] = request[f] /\ venue'[f] = venue[f]
      /\ transport'[f].step = "none" <=> transport[f].step = "none"
  BY <1>3
<1>9. /\ BookedOK(f)' /\ ClaimOK(f)' /\ Claimed(f)' <= Claimed(f)
      /\ \A v \in Workers \ {w} : Busy(v, f) => PassOK(v, f)'
  <2>1. /\ BookedOK(f)' /\ ClaimOK(f)' /\ Claimed(f)' <= Claimed(f)
        /\ \A v \in Workers :
              /\ Rests(v) /\ PassOK(v, f)
              /\ worker[v].step = "reserved" => Holding(f)'
              /\ worker[v].step \in {"prepared", "attempted"} /\ f \notin preempted' =>
                    Holding(f)'
              => PassOK(v, f)'
    BY <1>1, <1>4, <1>6, <1>7, <1>8, GivenKept
  <2>2. ASSUME NEW v \in Workers \ {w}, Busy(v, f)
        PROVE  /\ worker[v].step = "reserved" => Holding(f)'
               /\ worker[v].step \in {"prepared", "attempted"} /\ f \notin preempted' =>
                     Holding(f)'
    BY <1>6 DEF Holding, HoldingStatuses
  <2> QED BY <1>4, <1>5, <2>1, <2>2
<1>10. LocalOK(w)' /\ \A e \in Exits : Busy(w, e)' => PassOK(w, e)'
  <2>1. GoesOn(w) /\ worker'[w].step = "attempted"
    BY <1>1, GotoGoesOn DEF RecordAttempt
  <2>2. Holding(f)'
    BY <1>6 DEF Holding, HoldingStatuses
  <2>3. ASSUME NEW e \in Exits, Busy(w, e)' PROVE e = f
    BY <1>2, <2>1, <2>3 DEF Busy, GoesOn
  <2> QED BY <1>1, <1>3, <2>1, <2>2, <2>3, GoesOnTyped DEF PassOK
<1>11. LotOK' /\ lot'.sold = lot.sold /\ bought <= bought' /\ request'[f].filled = request[f].filled
  BY <1>1, <1>3 DEF Ledger, LotOK, Shape
<1>12. SoldAgrees' /\ ClaimsWithin'
  BY <1>5, <1>8, <1>9, <1>11, StepSellsNothing
<1> QED BY <1>4, <1>5, <1>8, <1>9, <1>10, <1>11, <1>12, StepAtWorker

\* The reservation of an unsent request returns.
LEMMA WithdrawReservationLedger ==
    ASSUME ExitInvariant, ExitInvariant', Ledger, NEW w \in Workers, WithdrawReservation(w)
    PROVE  Ledger'
<1>1. Shape /\ Shape' /\ Working /\ LocalOK(w) /\ rows[w] \in Rows
  BY DEF ExitInvariant, Ledger, LocalOK
<1>2. PICK f \in Exits : worker[w].exit = f /\ worker[w].step = "withdrawing"
  BY <1>1 DEF WithdrawReservation, Working
<1>3. UNCHANGED <<bought, lot, request, venue, rows, transport, preempted>>
  BY DEF WithdrawReservation, books
<1>4. /\ Exclusive(f) /\ ThreadOK(f) /\ BookedOK(f) /\ ClaimOK(f) /\ StepOK(w, f) /\ PassOK(w, f)
      /\ \A v \in Workers : Busy(v, f) => StepOK(v, f) /\ PassOK(v, f)
      /\ reservation[f] \in AnyReservation /\ worker[w] \in AnyWorker
  BY <1>1, <1>2, FactsOf DEF Busy, Shape
<1>5. /\ \A v \in Workers \ {w} : Rests(v)
      /\ \A e \in Exits \ {f} : SameBooks(e)
  BY <1>1, <1>2, <1>3 DEF WithdrawReservation, Halt, Goto, Rests, SameBooks, Shape
<1>6. /\ reservation'[f].quantity = reservation[f].quantity
      /\ reservation'[f].filled = reservation[f].filled
      /\ reservation'[f].status \in {reservation[f].status, "RELEASED"}
  <2>1. reservation'[f] = Given(reservation[f], "RELEASED")
    BY <1>1, <1>2 DEF WithdrawReservation, Shape
  <2> QED BY <1>4, <2>1, GivenFields
<1>7. /\ reservation'[f].status = "FILLED" => reservation[f].status = "FILLED"
      /\ Holding(f)' => Holding(f)
      /\ f \notin preempted' /\ ~Final(f) /\ transport[f].step # "none" =>
            reservation'[f].status = reservation[f].status \/ Holding(f)'
  BY <1>2, <1>4, <1>6 DEF Holding, HoldingStatuses, StepOK
<1>8. /\ preempted \subseteq preempted' /\ request'[f] = request[f] /\ venue'[f] = venue[f]
      /\ transport'[f].step = "none" <=> transport[f].step = "none"
  BY <1>3
<1>9. /\ BookedOK(f)' /\ ClaimOK(f)' /\ Claimed(f)' <= Claimed(f)
      /\ \A v \in Workers \ {w} : Busy(v, f) => PassOK(v, f)'
  <2>1. /\ BookedOK(f)' /\ ClaimOK(f)' /\ Claimed(f)' <= Claimed(f)
        /\ \A v \in Workers :
              /\ Rests(v) /\ PassOK(v, f)
              /\ worker[v].step = "reserved" => Holding(f)'
              /\ worker[v].step \in {"prepared", "attempted"} /\ f \notin preempted' =>
                    Holding(f)'
              => PassOK(v, f)'
    BY <1>1, <1>4, <1>6, <1>7, <1>8, GivenKept
  <2>2. ASSUME NEW v \in Workers \ {w}, Busy(v, f)
        PROVE  /\ worker[v].step = "reserved" => Holding(f)'
               /\ worker[v].step \in {"prepared", "attempted"} /\ f \notin preempted' =>
                     Holding(f)'
    BY <1>2, <1>4, <2>2 DEF Exclusive, Submitting, Busy, SubmitSteps
  <2> QED BY <1>4, <1>5, <2>1, <2>2
<1>10. LocalOK(w)' /\ \A e \in Exits : Busy(w, e)' => PassOK(w, e)'
  <2>1. GoesOn(w) /\ worker'[w].step = "withdrawn"
    BY <1>1, GotoGoesOn DEF WithdrawReservation
  <2> QED BY <1>1, <1>3, <2>1, GoesOnTyped DEF PassOK
<1>11. LotOK' /\ lot'.sold = lot.sold /\ bought <= bought' /\ request'[f].filled = request[f].filled
  BY <1>1, <1>3 DEF Ledger, LotOK, Shape
<1>12. SoldAgrees' /\ ClaimsWithin'
  BY <1>5, <1>8, <1>9, <1>11, StepSellsNothing
<1> QED BY <1>4, <1>5, <1>8, <1>9, <1>10, <1>11, <1>12, StepAtWorker

\* The reservation ends after the request did.
LEMMA ReleaseCapacityLedger ==
    ASSUME ExitInvariant, ExitInvariant', Ledger, NEW w \in Workers, ReleaseCapacity(w)
    PROVE  Ledger'
<1>1. Shape /\ Shape' /\ Working /\ LocalOK(w) /\ rows[w] \in Rows
  BY DEF ExitInvariant, Ledger, LocalOK
<1>2. PICK f \in Exits : worker[w].exit = f /\ worker[w].step = "releasing"
  BY <1>1 DEF ReleaseCapacity, Working
<1>3. UNCHANGED <<bought, lot, request, venue, rows, transport, preempted>>
  BY DEF ReleaseCapacity, books
<1>4. /\ Exclusive(f) /\ ThreadOK(f) /\ BookedOK(f) /\ ClaimOK(f) /\ StepOK(w, f) /\ PassOK(w, f)
      /\ \A v \in Workers : Busy(v, f) => StepOK(v, f) /\ PassOK(v, f)
      /\ reservation[f] \in AnyReservation /\ worker[w] \in AnyWorker
  BY <1>1, <1>2, FactsOf DEF Busy, Shape
<1>5. /\ \A v \in Workers \ {w} : Rests(v)
      /\ \A e \in Exits \ {f} : SameBooks(e)
  BY <1>1, <1>2, <1>3 DEF ReleaseCapacity, Halt, Goto, Rests, SameBooks, Shape
<1>6. /\ reservation'[f].quantity = reservation[f].quantity
      /\ reservation'[f].filled = reservation[f].filled
      /\ reservation'[f].status \in {reservation[f].status, worker[w].to}
      /\ worker[w].to \in {"RELEASED", "UNKNOWN", "OPEN", "SETTLED"}
      /\ reservation[f].status \in {"SETTLED", "RELEASED", "FILLED"} /\ worker[w].to # "SETTLED" =>
            reservation'[f].status = reservation[f].status
  <2>1. worker[w].to \in {"RELEASED", "UNKNOWN", "OPEN", "SETTLED"}
    BY <1>2, <1>4 DEF StepOK, AnyWorker
  <2>2. reservation'[f] = Given(reservation[f], worker[w].to)
    BY <1>1, <1>2 DEF ReleaseCapacity, Shape
  <2> QED BY <1>4, <2>1, <2>2, GivenFields
<1>7. /\ reservation'[f].status = "FILLED" => reservation[f].status = "FILLED"
      /\ Holding(f)' => Holding(f)
      /\ f \notin preempted' /\ ~Final(f) /\ transport[f].step # "none" =>
            reservation'[f].status = reservation[f].status \/ Holding(f)'
  <2>1. reservation[f].status # "NONE"
    BY <1>2, <1>4 DEF StepOK
  <2>2. worker[w].to \in {"RELEASED", "SETTLED"} /\ f \notin preempted => Final(f)
    BY <1>2, <1>4 DEF PassOK
  <2> QED BY <1>3, <1>4, <1>6, <2>1, <2>2 DEF Holding, HoldingStatuses, AnyReservation
<1>8. /\ preempted \subseteq preempted' /\ request'[f] = request[f] /\ venue'[f] = venue[f]
      /\ transport'[f].step = "none" <=> transport[f].step = "none"
  BY <1>3
<1>9. /\ BookedOK(f)' /\ ClaimOK(f)' /\ Claimed(f)' <= Claimed(f)
      /\ \A v \in Workers \ {w} : Busy(v, f) => PassOK(v, f)'
  <2>1. /\ BookedOK(f)' /\ ClaimOK(f)' /\ Claimed(f)' <= Claimed(f)
        /\ \A v \in Workers :
              /\ Rests(v) /\ PassOK(v, f)
              /\ worker[v].step = "reserved" => Holding(f)'
              /\ worker[v].step \in {"prepared", "attempted"} /\ f \notin preempted' =>
                    Holding(f)'
              => PassOK(v, f)'
    BY <1>1, <1>4, <1>6, <1>7, <1>8, GivenKept
  <2>2. ASSUME NEW v \in Workers \ {w}, Busy(v, f)
        PROVE  /\ worker[v].step = "reserved" => Holding(f)'
               /\ worker[v].step \in {"prepared", "attempted"} /\ f \notin preempted' =>
                     Holding(f)'
    BY <1>2, <1>4, <2>2 DEF StepOK, PassOK, ThreadOK
  <2> QED BY <1>4, <1>5, <2>1, <2>2
<1>10. LocalOK(w)' /\ \A e \in Exits : Busy(w, e)' => PassOK(w, e)'
  <2>1. Halt(w)
    BY DEF ReleaseCapacity
  <2> QED BY <1>1, <1>3, <2>1, HaltIdles
<1>11. LotOK' /\ lot'.sold = lot.sold /\ bought <= bought' /\ request'[f].filled = request[f].filled
  BY <1>1, <1>3 DEF Ledger, LotOK, Shape
<1>12. SoldAgrees' /\ ClaimsWithin'
  BY <1>5, <1>8, <1>9, <1>11, StepSellsNothing
<1> QED BY <1>4, <1>5, <1>8, <1>9, <1>10, <1>11, <1>12, StepAtWorker

\* So does that of a request found unsent.
LEMMA ReleaseUnsentLedger ==
    ASSUME ExitInvariant, ExitInvariant', Ledger, NEW w \in Workers, ReleaseUnsent(w)
    PROVE  Ledger'
<1>1. Shape /\ Shape' /\ Working /\ LocalOK(w) /\ rows[w] \in Rows
  BY DEF ExitInvariant, Ledger, LocalOK
<1>2. PICK f \in Exits : worker[w].exit = f /\ worker[w].step = "unsent"
  BY <1>1 DEF ReleaseUnsent, Working
<1>3. UNCHANGED <<bought, lot, request, venue, rows, transport>>
  BY DEF ReleaseUnsent, books
<1>4. /\ Exclusive(f) /\ ThreadOK(f) /\ BookedOK(f) /\ ClaimOK(f) /\ StepOK(w, f) /\ PassOK(w, f)
      /\ \A v \in Workers : Busy(v, f) => StepOK(v, f) /\ PassOK(v, f)
      /\ reservation[f] \in AnyReservation /\ worker[w] \in AnyWorker
  BY <1>1, <1>2, FactsOf DEF Busy, Shape
<1>5. /\ \A v \in Workers \ {w} : Rests(v)
      /\ \A e \in Exits \ {f} : SameBooks(e)
  BY <1>1, <1>2, <1>3 DEF ReleaseUnsent, Halt, Goto, Rests, SameBooks, Shape
<1>6. /\ reservation'[f].quantity = reservation[f].quantity
      /\ reservation'[f].filled = reservation[f].filled
      /\ reservation'[f].status \in {reservation[f].status, "RELEASED"}
      /\ preempted \subseteq preempted'
      /\ f \in preempted' \/ request[f].status = "PREPARED"
      /\ f \in preempted' \/ \A v \in Workers : worker[v].exit = f => worker[v].step \notin SubmitSteps
  <2>1. reservation'[f] = Given(reservation[f], "RELEASED")
    BY <1>1, <1>2 DEF ReleaseUnsent, Shape
  <2>2. preempted' = IF WentOn(f) THEN preempted \cup {f} ELSE preempted
    BY <1>2 DEF ReleaseUnsent
  <2> QED BY <1>4, <2>1, <2>2, GivenFields DEF WentOn
<1>7. /\ reservation'[f].status = "FILLED" => reservation[f].status = "FILLED"
      /\ Holding(f)' => Holding(f)
      /\ f \notin preempted' /\ ~Final(f) /\ transport[f].step # "none" =>
            reservation'[f].status = reservation[f].status \/ Holding(f)'
  BY <1>2, <1>4, <1>6 DEF Holding, HoldingStatuses, ThreadOK
<1>8. /\ preempted \subseteq preempted' /\ request'[f] = request[f] /\ venue'[f] = venue[f]
      /\ transport'[f].step = "none" <=> transport[f].step = "none"
  BY <1>3, <1>6
<1>9. /\ BookedOK(f)' /\ ClaimOK(f)' /\ Claimed(f)' <= Claimed(f)
      /\ \A v \in Workers \ {w} : Busy(v, f) => PassOK(v, f)'
  <2>1. /\ BookedOK(f)' /\ ClaimOK(f)' /\ Claimed(f)' <= Claimed(f)
        /\ \A v \in Workers :
              /\ Rests(v) /\ PassOK(v, f)
              /\ worker[v].step = "reserved" => Holding(f)'
              /\ worker[v].step \in {"prepared", "attempted"} /\ f \notin preempted' =>
                    Holding(f)'
              => PassOK(v, f)'
    BY <1>1, <1>4, <1>6, <1>7, <1>8, GivenKept
  <2>2. ASSUME NEW v \in Workers \ {w}, Busy(v, f)
        PROVE  /\ worker[v].step = "reserved" => Holding(f)'
               /\ worker[v].step \in {"prepared", "attempted"} /\ f \notin preempted' =>
                     Holding(f)'
    BY <1>2, <1>4, <1>6, <2>2 DEF StepOK, Busy, SubmitSteps, ReconcileSteps
  <2> QED BY <1>4, <1>5, <2>1, <2>2
<1>10. LocalOK(w)' /\ \A e \in Exits : Busy(w, e)' => PassOK(w, e)'
  <2>1. GoesOn(w) /\ worker'[w].step = "rejecting"
    BY <1>1, GotoGoesOn DEF ReleaseUnsent
  <2> QED BY <1>1, <1>3, <2>1, GoesOnTyped DEF PassOK
<1>11. LotOK' /\ lot'.sold = lot.sold /\ bought <= bought' /\ request'[f].filled = request[f].filled
  BY <1>1, <1>3 DEF Ledger, LotOK, Shape
<1>12. SoldAgrees' /\ ClaimsWithin'
  BY <1>5, <1>8, <1>9, <1>11, StepSellsNothing
<1> QED BY <1>4, <1>5, <1>8, <1>9, <1>10, <1>11, <1>12, StepAtWorker

-----------------------------------------------------------------------------
(* Steps that sell or claim.                                               *)

\* What the ledger counts as sold and as held is what is claimed.
LEMMA SoldAndHeld ==
    ASSUME Shape
    PROVE  SoldByRisk + HeldBySells = ClaimedByExits
<1> DEFINE filled == [e \in Exits |-> reservation[e].filled]
           open == [e \in Exits |-> reservation[e].quantity - reservation[e].filled]
           holding == {e \in Exits : Holding(e)}
           held == [e \in Exits |-> IF e \in holding THEN open[e] ELSE 0]
           claimed == [e \in Exits |-> Claimed(e)]
<1>1. /\ \A e \in Exits : open[e] \in Int
      /\ \A e \in Exits : held[e] = IF e \in holding THEN open[e] ELSE 0
      /\ \A e \in Exits : filled[e] \in Int /\ held[e] \in Int /\ claimed[e] = filled[e] + held[e]
  <2> SUFFICES ASSUME NEW e \in Exits
               PROVE  /\ open[e] \in Int /\ held[e] = IF e \in holding THEN open[e] ELSE 0
                      /\ filled[e] \in Int /\ held[e] \in Int
                      /\ claimed[e] = filled[e] + held[e]
    OBVIOUS
  <2>1. reservation[e].quantity \in Int /\ reservation[e].filled \in Int
    BY BookNumbers
  <2>2. CASE Holding(e)
    BY <2>1, <2>2 DEF Claimed
  <2>3. CASE ~Holding(e)
    BY <2>1, <2>3 DEF Claimed
  <2> QED BY <2>2, <2>3
<1>2. holding \in SUBSET Exits /\ DOMAIN filled = Exits /\ DOMAIN claimed = Exits
  OBVIOUS
<1>3. /\ SoldByRisk = SumFunctionOnSet(filled, Exits)
      /\ HeldBySells = SumFunctionOnSet(open, holding)
      /\ ClaimedByExits = SumFunctionOnSet(claimed, Exits)
  BY <1>2 DEF SoldByRisk, HeldBySells, ClaimedByExits, SumFunction, Holding
<1> HIDE DEF filled, open, holding, held, claimed
<1>4. SumFunctionOnSet(open, holding) = SumFunctionOnSet(held, Exits)
  BY <1>1, <1>2, ExitsFinite, SumOfPart
<1>5. SumFunctionOnSet(claimed, Exits) =
         SumFunctionOnSet(filled, Exits) + SumFunctionOnSet(held, Exits)
  BY <1>1, ExitsFinite, SumOfSums
<1> QED BY <1>3, <1>4, <1>5

\* A reservation claims no more than what is left.
LEMMA ReserveExitLedger ==
    ASSUME ExitInvariant, ExitInvariant', Ledger, NEW w \in Workers, ReserveExit(w)
    PROVE  Ledger'
<1>1. Shape /\ Shape' /\ Working /\ LocalOK(w) /\ rows[w] \in Rows
  BY DEF ExitInvariant, Ledger, LocalOK
<1>2. PICK f \in Exits : worker[w].exit = f /\ worker[w].step = "admitted"
  BY <1>1 DEF ReserveExit, Working
<1>3. UNCHANGED <<bought, lot, request, venue, rows, transport, preempted>>
  BY DEF ReserveExit
<1>4. /\ Exclusive(f) /\ ThreadOK(f) /\ BookedOK(f) /\ ClaimOK(f) /\ StepOK(w, f)
      /\ \A v \in Workers : Busy(v, f) => StepOK(v, f) /\ PassOK(v, f)
      /\ reservation[f] \in AnyReservation /\ worker[w] \in AnyWorker
  BY <1>1, <1>2, FactsOf DEF Busy, Shape
<1>5. /\ \A v \in Workers \ {w} : Rests(v)
      /\ \A e \in Exits \ {f} : SameBooks(e)
  BY <1>1, <1>2, <1>3 DEF ReserveExit, Goto, Rests, SameBooks, Shape
<1>6. /\ reservation'[f].quantity = worker[w].quantity /\ reservation'[f].filled = 0
      /\ reservation'[f].status = "HELD"
  BY <1>1, <1>2 DEF ReserveExit, Shape
<1>7. /\ reservation[f].status = "NONE" /\ request[f].status = "NONE"
      /\ transport[f].step = "none" /\ venue[f].state = "NONE"
      /\ reservation[f].filled = 0 /\ request[f].filled = 0
      /\ venue[f].matched = 0 /\ venue[f].confirmed = 0
  <2>1. /\ reservation[f].status = "NONE" /\ request[f].status = "NONE"
        /\ transport[f].step = "none" /\ venue[f].state = "NONE"
    BY <1>2, <1>4 DEF StepOK, ThreadOK
  <2> QED BY <1>1, <1>4, <2>1, BookNumbers DEF BookedOK
<1>8. BookedOK(f)' /\ ClaimOK(f)'
  <2>1. worker[w].quantity \in Int /\ worker[w].pending \in Int
    BY <1>1, LocalNumbers
  <2> QED BY <1>1, <1>3, <1>4, <1>6, <1>7, <2>1, NumbersAre
          DEF BookedOK, ClaimOK, LocalOK, Final, FinalStatuses
<1>9. ASSUME NEW v \in Workers \ {w}, Busy(v, f) PROVE PassOK(v, f)'
  <2>1. worker[v].step \in SubmitSteps \/ reservation[f].status # "NONE"
    BY <1>4, <1>9 DEF StepOK, Busy, SubmitSteps
  <2> QED BY <1>2, <1>4, <1>7, <1>9, <2>1 DEF Exclusive, Submitting, Busy, SubmitSteps
<1>10. LocalOK(w)' /\ \A e \in Exits : Busy(w, e)' => PassOK(w, e)'
  <2>1. GoesOn(w) /\ worker'[w].step = "reserved"
    BY <1>1, GotoGoesOn DEF ReserveExit
  <2>2. Holding(f)' /\ reservation'[f].quantity = worker'[w].quantity
    BY <1>6, <2>1 DEF Holding, HoldingStatuses, GoesOn
  <2>3. ASSUME NEW e \in Exits, Busy(w, e)' PROVE e = f
    BY <1>2, <2>1, <2>3 DEF Busy, GoesOn
  <2> QED BY <1>1, <1>3, <2>1, <2>2, <2>3, GoesOnTyped DEF PassOK
<1>11. LotOK'
  BY <1>3 DEF Ledger, LotOK
<1>12. SoldAgrees'
  BY <1>3, SoldKept DEF Ledger
<1>13. ClaimsWithin'
  <2> DEFINE old == [e \in Exits |-> Claimed(e)]
             new == [e \in Exits |-> Claimed(e)']
  <2>1. (\A e \in Exits : old[e] \in Int) /\ \A e \in Exits : new[e] \in Int
    BY <1>1, ClaimIsInt, ClaimIsIntNext
  <2>2. \A e \in Exits \ {f} : new[e] = old[e]
    BY <1>3, <1>5, BooksKept DEF Ledger
  <2>3. old[f] = 0 /\ new[f] = worker[w].quantity
    BY <1>6, <1>7 DEF Claimed, Holding, HoldingStatuses
  <2>4. DOMAIN old = Exits /\ DOMAIN new = Exits
    OBVIOUS
  <2>5. /\ ClaimedByExits = SumFunctionOnSet(old, Exits)
        /\ ClaimedByExits' = SumFunctionOnSet(new, Exits)
    BY <2>4 DEF ClaimedByExits, SumFunction
  <2> HIDE DEF old, new
  <2>6. SumFunctionOnSet(new, Exits) = SumFunctionOnSet(old, Exits) - old[f] + new[f]
    BY <2>1, <2>2, ExitsFinite, SumChanges
  <2>7. SumFunctionOnSet(old, Exits) \in Int
    BY <2>1, ExitsFinite, SumType
  <2>8. worker[w].quantity + HeldBySells <= bought - SoldByRisk
    BY DEF ReserveExit
  <2>9. SoldByRisk \in Int /\ HeldBySells \in Int
    BY <1>1, RiskSumsTyped
  <2>10. worker[w].quantity \in Int /\ bought \in Int
    BY <1>1, LocalNumbers
  <2> QED BY <1>1, <1>3, <2>3, <2>5, <2>6, <2>7, <2>8, <2>9, <2>10, SoldAndHeld DEF ClaimsWithin
<1> QED BY <1>3, <1>4, <1>5, <1>8, <1>9, <1>10, <1>11, <1>12, <1>13, StepAtWorker

\* The request is for what was reserved.
LEMMA PrepareRequestLedger ==
    ASSUME ExitInvariant, ExitInvariant', Ledger, NEW w \in Workers, PrepareRequest(w)
    PROVE  Ledger'
<1>1. Shape /\ Shape' /\ Working /\ LocalOK(w) /\ rows[w] \in Rows
  BY DEF ExitInvariant, Ledger, LocalOK
<1>2. PICK f \in Exits : worker[w].exit = f /\ worker[w].step = "reserved"
  BY <1>1 DEF PrepareRequest, Working
<1>3. UNCHANGED <<bought, reservation, venue, rows, transport, preempted>>
  BY DEF PrepareRequest
<1>4. /\ Exclusive(f) /\ ThreadOK(f) /\ BookedOK(f) /\ ClaimOK(f) /\ StepOK(w, f) /\ PassOK(w, f)
      /\ \A v \in Workers : Busy(v, f) => StepOK(v, f) /\ PassOK(v, f)
  BY <1>1, <1>2, FactsOf DEF Busy
<1>5. /\ \A v \in Workers \ {w} : Rests(v)
      /\ \A e \in Exits \ {f} : SameBooks(e)
  BY <1>1, <1>2, <1>3 DEF PrepareRequest, Goto, Rests, SameBooks, Shape
<1>6. CASE lot.status \notin {"OPEN", "EXIT_PENDING"}
  <2>1. UNCHANGED <<lot, request>> /\ Goto(w, "withdrawing")
    BY <1>6 DEF PrepareRequest
  <2>2. GoesOn(w) /\ worker'[w].step = "withdrawing" /\ LocalOK(w)'
    BY <1>1, <1>3, <2>1, GotoGoesOn, GoesOnTyped
  <2>3. \A e \in Exits : Busy(w, e)' => PassOK(w, e)'
    BY <2>2 DEF PassOK
  <2> QED BY <1>3, <1>5, <2>1, <2>2, <2>3, StepOfWorker
<1>7. CASE lot.status \in {"OPEN", "EXIT_PENDING"}
  <2>1. /\ request'[f].status = "PREPARED" /\ request'[f].quantity = worker[w].quantity
        /\ request'[f].filled = 0
        /\ lot'.pending = worker[w].pending + worker[w].quantity
        /\ lot'.quantity = lot.quantity /\ lot'.sold = lot.sold
    <3>1. request'[f] = [status |-> "PREPARED", quantity |-> worker[w].quantity,
                         order |-> FALSE, filled |-> 0]
      BY <1>1, <1>2, <1>7 DEF PrepareRequest, Shape
    <3> DEFINE pending == worker[w].pending + worker[w].quantity
    <3>2. lot' = [lot EXCEPT !.status = "EXIT_PENDING", !.pending = pending]
      BY <1>7 DEF PrepareRequest
    <3> HIDE DEF pending
    <3>3. lot'.pending = pending /\ lot'.quantity = lot.quantity /\ lot'.sold = lot.sold
      BY <1>1, <3>2 DEF Shape, AnyLot
    <3> QED BY <3>1, <3>3 DEF pending
  <2>2. /\ request[f].status = "NONE" /\ transport[f].step = "none" /\ venue[f].state = "NONE"
        /\ reservation[f].filled = 0 /\ request[f].filled = 0
        /\ venue[f].matched = 0 /\ venue[f].confirmed = 0
        /\ Holding(f) /\ reservation[f].quantity = worker[w].quantity
    <3>1. /\ request[f].status = "NONE" /\ transport[f].step = "none" /\ venue[f].state = "NONE"
          /\ Holding(f) /\ reservation[f].quantity = worker[w].quantity
      BY <1>2, <1>4 DEF StepOK, ThreadOK, PassOK
    <3> QED BY <1>1, <1>4, <3>1, BookNumbers DEF BookedOK
  <2>3. /\ BookedOK(f)'
        /\ ClaimOK(f)'
    BY <1>3, <1>4, <2>1, <2>2, BookNumbers, <1>1 DEF BookedOK, ClaimOK, Final, FinalStatuses
  <2>4. Claimed(f)' = Claimed(f) /\ Claimed(f) \in Int
    BY <1>1, <1>3, ClaimIsInt DEF Claimed, Holding
  <2>5. ASSUME NEW v \in Workers \ {w}, Busy(v, f) PROVE PassOK(v, f)'
    <3>1. Rests(v) /\ PassOK(v, f) /\ Confirmed(v)' = Confirmed(v)
      BY <1>4, <1>5, <2>5 DEF Rests, Confirmed
    <3>2. worker[v].step # "releasing"
      BY <2>2, <3>1 DEF PassOK
    <3> QED BY <1>3, <3>1, <3>2 DEF PassOK, Rests, Holding
  <2>6. GoesOn(w) /\ worker'[w].step = "prepared"
    BY <1>1, <1>7, GotoGoesOn DEF PrepareRequest
  <2>7. LocalOK(w)'
    BY <1>1, <1>3, <2>6, GoesOnTyped
  <2>8. ASSUME NEW e \in Exits, Busy(w, e)' PROVE PassOK(w, e)'
    <3>1. e = f /\ Holding(f)'
      BY <1>2, <1>3, <2>2, <2>6, <2>8 DEF Busy, GoesOn, Holding
    <3> QED BY <2>6, <3>1 DEF PassOK
  <2>9. LotOK'
    BY <1>1, <1>3, <2>1, LocalNumbers, NumbersAre DEF Ledger, LotOK, LocalOK
  <2>10. SoldAgrees' /\ ClaimsWithin'
    <3>1. bought <= bought' /\ preempted \subseteq preempted' /\ Claimed(f)' <= Claimed(f)
          /\ request'[f].filled = request[f].filled
      BY <1>1, <1>3, <2>1, <2>2, <2>4 DEF Shape
    <3> QED BY <1>5, <2>1, <3>1, StepSellsNothing
  <2> QED BY <1>3, <1>4, <1>5, <2>3, <2>5, <2>7, <2>8, <2>9, <2>10, StepAtWorker
<1> QED BY <1>6, <1>7

\* A fill the venue confirmed is booked on the reservation.
LEMMA BookFillsLedger ==
    ASSUME ExitInvariant, ExitInvariant', Ledger, NEW w \in Workers, BookFills(w)
    PROVE  Ledger'
<1>1. Shape /\ Shape' /\ Working /\ LocalOK(w) /\ rows[w] \in Rows
  BY DEF ExitInvariant, Ledger, LocalOK
<1>2. PICK f \in Exits : worker[w].exit = f /\ worker[w].step = "listed"
  BY <1>1 DEF BookFills, Working
<1>3. UNCHANGED <<bought, lot, request, venue, rows, transport, preempted>>
  BY DEF BookFills
<1>4. /\ Exclusive(f) /\ ThreadOK(f) /\ BookedOK(f) /\ ClaimOK(f) /\ StepOK(w, f) /\ PassOK(w, f)
      /\ \A v \in Workers : Busy(v, f) => StepOK(v, f) /\ PassOK(v, f)
      /\ reservation[f] \in AnyReservation /\ worker[w] \in AnyWorker
  BY <1>1, <1>2, FactsOf DEF Busy, Shape
<1>5. \A v \in Workers \ {w} : Rests(v)
  BY <1>1, <1>2, <1>3 DEF BookFills, Halt, Goto, Rests, Shape
<1>6. Confirmed(w) \in Int /\ 0 <= Confirmed(w) /\ Confirmed(w) <= worker[w].confirmed
  BY <1>1, LocalNumbers DEF Confirmed, LocalOK
<1>7. CASE Halt(w) /\ UNCHANGED reservation
  <2>1. LocalOK(w)' /\ \A e \in Exits : ~Busy(w, e)'
    BY <1>1, <1>3, <1>7, HaltIdles
  <2> QED BY <1>3, <1>5, <1>7, <2>1, StepOfWorker
<1>8. CASE Goto(w, "orphan") /\ UNCHANGED reservation
  <2>1. GoesOn(w) /\ worker'[w].step = "orphan" /\ LocalOK(w)'
    BY <1>1, <1>3, <1>8, GotoGoesOn, GoesOnTyped
  <2>2. \A e \in Exits : PassOK(w, e)'
    BY <2>1 DEF PassOK
  <2> QED BY <1>3, <1>5, <1>8, <2>1, <2>2, StepOfWorker
<1>9. CASE Goto(w, "booked") /\ Confirmed(w) <= reservation[f].filled /\ UNCHANGED reservation
  <2>1. GoesOn(w) /\ worker'[w].step = "booked" /\ LocalOK(w)'
    BY <1>1, <1>3, <1>9, GotoGoesOn, GoesOnTyped
  <2>2. ASSUME NEW e \in Exits, Busy(w, e)' PROVE PassOK(w, e)'
    <3>1. e = f /\ Confirmed(w)' = Confirmed(w)
      BY <1>2, <2>1, <2>2 DEF Busy, GoesOn, Confirmed
    <3> QED BY <1>2, <1>3, <1>4, <1>9, <2>1, <3>1 DEF PassOK, GoesOn
  <2> QED BY <1>3, <1>5, <1>9, <2>1, <2>2, StepOfWorker
<1>10. CASE /\ Goto(w, "booked") /\ Holding(f) /\ ~Final(f)
            /\ Confirmed(w) > reservation[f].filled
            /\ reservation' = [reservation EXCEPT
                  ![f].filled = Confirmed(w),
                  ![f].status = IF Confirmed(w) >= reservation[f].quantity THEN "FILLED"
                                ELSE "PARTIALLY_FILLED"]
  <2>1. \A e \in Exits \ {f} : SameBooks(e)
    BY <1>1, <1>3, <1>10 DEF SameBooks, Shape
  <2>2. /\ reservation'[f].quantity = reservation[f].quantity
        /\ reservation'[f].filled = Confirmed(w)
        /\ reservation'[f].status = IF Confirmed(w) >= reservation[f].quantity THEN "FILLED"
                                    ELSE "PARTIALLY_FILLED"
    <3> DEFINE n == Confirmed(w)
               status == IF n >= reservation[f].quantity THEN "FILLED" ELSE "PARTIALLY_FILLED"
    <3>1. reservation' = [reservation EXCEPT ![f].filled = n, ![f].status = status]
      BY <1>10
    <3> HIDE DEF n, status
    <3>2. /\ reservation'[f].quantity = reservation[f].quantity
          /\ reservation'[f].filled = n /\ reservation'[f].status = status
      BY <1>1, <1>4, <3>1 DEF Shape, AnyReservation
    <3> QED BY <3>2 DEF n, status
  <2>3. /\ request[f].status # "NONE" /\ request[f].order
        /\ transport[f].step = "done" /\ venue[f].state # "NONE"
    BY <1>2, <1>4 DEF StepOK, ThreadOK, ReconcileSteps
  <2>4. worker[w].confirmed <= venue[f].confirmed
    BY <1>2, <1>4 DEF PassOK
  <2>5. BookedOK(f)' /\ Confirmed(w) <= reservation[f].quantity
    <3>1. Confirmed(w) <= venue[f].confirmed
      BY <1>1, <1>6, <2>4, BookNumbers, LocalNumbers
    <3> QED BY <1>1, <1>3, <1>4, <1>6, <1>10, <2>2, <2>3, <3>1, BookNumbers DEF BookedOK
  <2>6. ClaimOK(f)'
    BY <1>3, <1>10, <2>2 DEF ClaimOK, Final, Holding, HoldingStatuses
  <2>7. Claimed(f)' <= Claimed(f)
    BY <1>1, <1>6, <1>10, <2>2, <2>5, BookNumbers DEF Claimed, Holding, HoldingStatuses
  <2>8. ASSUME NEW v \in Workers \ {w}, Busy(v, f) PROVE PassOK(v, f)'
    <3>1. Rests(v) /\ PassOK(v, f) /\ Confirmed(v)' = Confirmed(v)
      BY <1>4, <1>5, <2>8 DEF Rests, Confirmed
    <3>2. worker[v].step \notin {"reserved", "prepared", "attempted"}
      BY <1>4, <2>3, <2>8 DEF StepOK
    <3>3. /\ worker[v].step \in {"booked", "project"} => Confirmed(v) <= reservation'[f].filled
          /\ worker[v].step = "project" => rows[v].booked <= reservation'[f].filled
      <4>1. Confirmed(v) \in Int
        BY <1>1, LocalNumbers DEF Confirmed
      <4>2. worker[v].step = "project" => rows[v].booked \in Int
        BY <1>4, <2>8 DEF StepOK, AnyRows
      <4> QED BY <1>1, <1>6, <1>10, <2>2, <3>1, <4>1, <4>2, BookNumbers DEF PassOK
    <3> QED BY <1>3, <3>1, <3>2, <3>3 DEF PassOK, Rests, Final
  <2>9. GoesOn(w) /\ worker'[w].step = "booked" /\ LocalOK(w)'
    BY <1>1, <1>3, <1>10, GotoGoesOn, GoesOnTyped
  <2>10. ASSUME NEW e \in Exits, Busy(w, e)' PROVE PassOK(w, e)'
    <3>1. e = f /\ Confirmed(w)' = Confirmed(w)
      BY <1>2, <2>9, <2>10 DEF Busy, GoesOn, Confirmed
    <3>2. Confirmed(w) <= reservation'[f].filled
      BY <1>6, <2>2
    <3> QED BY <1>2, <1>3, <1>4, <2>9, <3>1, <3>2 DEF PassOK, GoesOn
  <2>11. LotOK' /\ lot'.sold = lot.sold /\ bought <= bought' /\ request'[f].filled = request[f].filled
    BY <1>1, <1>3 DEF Ledger, LotOK, Shape
  <2>12. SoldAgrees' /\ ClaimsWithin'
    BY <1>3, <2>1, <2>7, <2>11, StepSellsNothing
  <2> QED BY <1>3, <1>5, <2>1, <2>5, <2>6, <2>8, <2>9, <2>10, <2>11, <2>12, StepAtWorker
<1> QED BY <1>2, <1>7, <1>8, <1>9, <1>10 DEF BookFills, Holding

\* What was booked is projected on the request and the lot.
LEMMA ProjectLedger ==
    ASSUME ExitInvariant, ExitInvariant', Ledger, NEW w \in Workers, Project(w)
    PROVE  Ledger'
<1>1. Shape /\ Shape' /\ Working /\ LocalOK(w) /\ rows[w] \in Rows
  BY DEF ExitInvariant, Ledger, LocalOK
<1>2. PICK f \in Exits : worker[w].exit = f /\ worker[w].step = "project"
  BY <1>1 DEF Project, Working
<1>3. UNCHANGED <<bought, reservation, venue, transport, preempted>>
  BY DEF Project
<1>4. /\ Exclusive(f) /\ ThreadOK(f) /\ FinalOK(f) /\ BookedOK(f) /\ ClaimOK(f) /\ StepOK(w, f)
      /\ PassOK(w, f)
      /\ \A v \in Workers : Busy(v, f) => StepOK(v, f) /\ PassOK(v, f)
      /\ request[f] \in AnyRequest /\ worker[w] \in AnyWorker
      /\ rows[w] \in AnyRows /\ rows[w].request.status \notin FinalStatuses
  <2>1. StepOK(w, f)
    BY <1>2, FactsOf DEF Busy
  <2> QED BY <1>1, <1>2, <2>1, FactsOf DEF Busy, Shape, StepOK
<1>5. /\ \A v \in Workers \ {w} : Rests(v)
      /\ \A e \in Exits \ {f} : SameBooks(e)
  BY <1>1, <1>2, <1>3 DEF Project, Halt, Releasing, Rests, SameBooks, Shape
<1>6. /\ rows[w].request.status = request[f].status
      /\ rows[w].request.quantity = request[f].quantity
      /\ rows[w].request.filled = request[f].filled /\ rows[w].lot = lot
  <2>1. [request[f] EXCEPT !.order = TRUE] = [rows[w].request EXCEPT !.order = TRUE]
        /\ rows[w].lot = lot
    BY <1>2 DEF Project, NothingMoved
  <2>2. rows[w].request \in AnyRequest
    BY <1>4 DEF AnyRows
  <2> DEFINE a == [request[f] EXCEPT !.order = TRUE]
             b == [rows[w].request EXCEPT !.order = TRUE]
  <2>3. /\ a.status = request[f].status /\ a.quantity = request[f].quantity
        /\ a.filled = request[f].filled
    BY <1>4 DEF AnyRequest
  <2>4. /\ b.status = rows[w].request.status /\ b.quantity = rows[w].request.quantity
        /\ b.filled = rows[w].request.filled
    BY <2>2 DEF AnyRequest
  <2>5. a = b
    BY <2>1
  <2> HIDE DEF a, b
  <2> QED BY <2>1, <2>3, <2>4, <2>5
<1>7. rows[w].booked \in Int /\ 0 <= rows[w].booked /\ rows[w].booked <= reservation[f].filled
      /\ Confirmed(w) <= rows[w].booked /\ Confirmed(w) \in Int
  <2>1. rows[w].booked \in Int /\ Confirmed(w) \in Int /\ 0 <= Confirmed(w)
    BY <1>1, <1>4, LocalNumbers DEF AnyRows, Confirmed, LocalOK
  <2>2. Confirmed(w) <= rows[w].booked /\ rows[w].booked <= reservation[f].filled
    BY <1>2, <1>4 DEF PassOK
  <2> QED BY <2>1, <2>2
<1>8. /\ request'[f].status = Proposed(w) /\ request'[f].quantity = request[f].quantity
      /\ request'[f].filled = rows[w].booked
  <2> DEFINE status == Proposed(w)
             n == rows[w].booked
  <2>1. request' = [request EXCEPT ![f] = [request[f] EXCEPT !.status = status, !.filled = n]]
    BY <1>2 DEF Project
  <2> HIDE DEF status, n
  <2>2. /\ request'[f].status = status /\ request'[f].quantity = request[f].quantity
        /\ request'[f].filled = n
    BY <1>1, <1>4, <2>1 DEF Shape, AnyRequest
  <2> QED BY <2>2 DEF status, n
<1>9. /\ lot'.sold = lot.sold + rows[w].booked - request[f].filled
      /\ lot'.quantity = lot.quantity /\ lot'.pending \in {0, lot.pending}
  <2> DEFINE sold == rows[w].lot.sold + rows[w].booked - rows[w].request.filled
             pending == IF Finishes(w) THEN 0 ELSE lot.pending
             status == IF Proposed(w) = "SETTLED" THEN "CLOSED"
                       ELSE IF Finishes(w) THEN "OPEN" ELSE "EXIT_PENDING"
  <2>1. lot' = [lot EXCEPT !.sold = sold, !.pending = pending, !.status = status]
    BY <1>2 DEF Project
  <2>2. pending \in {0, lot.pending}
    OBVIOUS
  <2> HIDE DEF sold, pending, status
  <2>3. lot'.sold = sold /\ lot'.pending = pending /\ lot'.quantity = lot.quantity
    BY <1>1, <2>1 DEF Shape, AnyLot
  <2> QED BY <1>6, <2>2, <2>3 DEF sold
<1>10. request[f].status # "NONE" /\ ~Final(f) /\ transport[f].step = "done"
  BY <1>2, <1>4, <1>6 DEF StepOK, ThreadOK, Final, ReconcileSteps
<1>11. worker[w].state \in {"OPEN", "CANCELED", "FAILED", "SETTLED"}
  BY <1>2, <1>4 DEF StepOK, AnyWorker
<1>12. Proposed(w) \in {"SETTLED", "SETTLED_PARTIAL", "UNKNOWN", "OPEN", "CANCELED", "FAILED"}
  BY <1>11 DEF Proposed
\* A final status is given when the order is over and all of it is booked.
<1>13. ASSUME Proposed(w) \in FinalStatuses
       PROVE  /\ venue[f].state # "OPEN" /\ venue[f].matched = reservation[f].filled
              /\ rows[w].booked = reservation[f].filled
  <2>1. worker[w].state \in Over /\ ~Provisional(w)
    BY <1>11, <1>13 DEF Proposed, Over, FinalStatuses, Provisional
  <2>2. venue[f].state = worker[w].state
    BY <1>2, <1>4, <2>1 DEF PassOK
  <2>3. venue[f].matched = Confirmed(w)
    <3>1. CASE worker[w].state = "FAILED"
      BY <1>4, <2>2, <3>1 DEF BookedOK, Confirmed
    <3>2. CASE worker[w].state # "FAILED"
      <4>1. worker[w].confirmed <= worker[w].matched /\ ~(worker[w].matched > worker[w].confirmed)
        BY <1>2, <1>4, <2>1, <3>2 DEF PassOK, Provisional
      <4>2. worker[w].matched = worker[w].confirmed
        BY <1>1, <4>1, LocalNumbers
      <4> QED BY <1>2, <1>4, <2>1, <3>2, <4>2 DEF PassOK, Confirmed
    <3> QED BY <3>1, <3>2
  <2> QED BY <1>1, <1>4, <1>7, <2>1, <2>2, <2>3, BookNumbers DEF BookedOK, Over
<1>14. BookedOK(f)'
  BY <1>1, <1>3, <1>4, <1>7, <1>8, <1>10, <1>12, BookNumbers DEF BookedOK
<1>15. ClaimOK(f)'
  BY <1>3, <1>4, <1>8, <1>10, <1>13 DEF ClaimOK, Final, Holding
<1>16. ASSUME NEW v \in Workers \ {w}, Busy(v, f) PROVE PassOK(v, f)'
  <2>1. Rests(v) /\ PassOK(v, f) /\ Confirmed(v)' = Confirmed(v)
    BY <1>4, <1>5, <1>16 DEF Rests, Confirmed
  <2>2. worker[v].step = "releasing" /\ worker[v].to \in {"RELEASED", "SETTLED"} => f \in preempted
    BY <1>10, <2>1 DEF PassOK
  <2> QED BY <1>3, <2>1, <2>2 DEF PassOK, Rests, Holding
<1>17. LocalOK(w)' /\ \A e \in Exits : Busy(w, e)' => PassOK(w, e)'
  <2>1. rows'[w] \in Rows
    BY <1>1, NumbersAre DEF Project, Shape
  <2>2. CASE ~Finishes(w)
    <3>1. Halt(w)
      BY <2>2 DEF Project
    <3> QED BY <1>1, <2>1, <3>1, HaltIdles
  <2>3. CASE Finishes(w)
    <3>1. worker'[w] = [worker[w] EXCEPT !.step = "releasing", !.to =
             IF worker[w].state = "SETTLED" THEN "SETTLED" ELSE "RELEASED"]
      BY <1>1, <2>3 DEF Project, Releasing, Shape
    <3>2. GoesOn(w) /\ worker'[w].step = "releasing"
      BY <1>4, <3>1 DEF GoesOn, AnyWorker
    <3>3. Proposed(w) \in FinalStatuses
      BY <2>3 DEF Proposed, Finishes, Provisional, FinalStatuses
    <3>4. ASSUME NEW e \in Exits, Busy(w, e)' PROVE PassOK(w, e)'
      <4>1. e = f
        BY <1>2, <3>2, <3>4 DEF Busy, GoesOn
      <4> QED BY <1>3, <1>8, <1>10, <3>2, <3>3, <4>1 DEF PassOK, Final
    <3> QED BY <1>1, <2>1, <3>2, <3>4, GoesOnTyped
  <2> QED BY <2>2, <2>3
<1>18. LotOK'
  BY <1>1, <1>3, <1>9, LocalNumbers, NumbersAre DEF Ledger, LotOK
<1>19. SoldAgrees'
  <2> DEFINE old == [e \in Exits |-> request[e].filled]
             new == [e \in Exits |-> request'[e].filled]
  <2>1. (\A e \in Exits : old[e] \in Int) /\ \A e \in Exits : new[e] \in Int
    BY <1>1, BookNumbers, BookNumbersNext
  <2>2. \A e \in Exits \ {f} : new[e] = old[e]
    BY <1>5 DEF SameBooks
  <2>3. old[f] = request[f].filled /\ new[f] = rows[w].booked
    BY <1>8
  <2>4. DOMAIN old = Exits /\ DOMAIN new = Exits
    OBVIOUS
  <2>5. /\ SoldByRequests = SumFunctionOnSet(old, Exits)
        /\ SoldByRequests' = SumFunctionOnSet(new, Exits)
    BY <2>4 DEF SoldByRequests, SumFunction
  <2> HIDE DEF old, new
  <2>6. SumFunctionOnSet(new, Exits) = SumFunctionOnSet(old, Exits) - old[f] + new[f]
    BY <2>1, <2>2, ExitsFinite, SumChanges
  <2>7. SumFunctionOnSet(old, Exits) \in Int
    BY <2>1, ExitsFinite, SumType
  <2> QED BY <1>1, <1>7, <1>9, <2>3, <2>5, <2>6, <2>7, BookNumbers DEF Ledger, SoldAgrees
<1>20. ClaimsWithin'
  <2>1. ASSUME NEW e \in Exits PROVE Claimed(e)' <= Claimed(e)
    <3>1. Claimed(e)' = Claimed(e)
      BY <1>3 DEF Claimed, Holding
    <3> QED BY <1>1, <3>1, ClaimIsInt
  <2> QED BY <1>1, <1>3, <2>1, ClaimsKept DEF Ledger, Shape
<1> QED BY <1>3, <1>5, <1>14, <1>15, <1>16, <1>17, <1>18, <1>19, <1>20, StepAtWorker

-----------------------------------------------------------------------------
(* The venue.                                                              *)

\* An order may match more, its trades are confirmed or fail, and it ends.
VenueMoves(f) ==
    /\ 0 <= venue'[f].confirmed /\ venue[f].confirmed <= venue'[f].confirmed
    /\ venue'[f].confirmed <= venue'[f].matched /\ venue'[f].matched <= request[f].quantity
    /\ venue'[f].state \in {"NONE", "FAILED"} => venue'[f].matched = 0
    /\ Final(f) /\ f \notin preempted =>
          venue'[f].state # "OPEN" /\ venue'[f].matched = venue[f].matched
    /\ venue[f].state \in Over => venue'[f].state = venue[f].state
    /\ venue[f].state \in Over /\ venue[f].matched = venue[f].confirmed =>
          venue'[f].matched = venue[f].matched

\* A step of the venue: fills grow within the order.
LEMMA VenueMovesLedger ==
    ASSUME ExitInvariant, ExitInvariant', Ledger, NEW f \in Exits, VenueMoves(f),
           UNCHANGED <<bought, lot, request, reservation, worker, rows, preempted>>,
           transport'[f].step = "none" <=> transport[f].step = "none",
           \A e \in Exits \ {f} : venue'[e] = venue[e] /\ transport'[e] = transport[e]
    PROVE  Ledger'
<1>1. Shape /\ Shape' /\ BookedOK(f) /\ ClaimOK(f) /\ \A v \in Workers : Busy(v, f) => PassOK(v, f)
  BY FactsOf DEF ExitInvariant
<1>2. (\A v \in Workers : Rests(v)) /\ \A e \in Exits \ {f} : SameBooks(e)
  BY DEF Rests, SameBooks
<1>3. BookedOK(f)'
  BY <1>1, BookNumbers, BookNumbersNext DEF BookedOK, VenueMoves
<1>4. ClaimOK(f)'
  BY <1>1 DEF ClaimOK, Final, Holding, VenueMoves
<1>5. Claimed(f)' = Claimed(f) /\ Claimed(f) \in Int
  BY <1>1, ClaimIsInt DEF Claimed, Holding
<1>6. ASSUME NEW v \in Workers, Busy(v, f) PROVE PassOK(v, f)'
  <2>1. Rests(v) /\ PassOK(v, f) /\ Confirmed(v)' = Confirmed(v)
    BY <1>1, <1>2, <1>6 DEF Rests, Confirmed
  <2>2. worker[v].step \in {"listed", "booked", "project"} =>
          worker[v].confirmed <= venue'[f].confirmed
    BY <1>1, <2>1, BookNumbers, BookNumbersNext, LocalNumbers DEF PassOK, VenueMoves
  <2>3. /\ worker[v].step \in {"listed", "booked", "project"}
        /\ worker[v].state \in Over /\ worker[v].matched = worker[v].confirmed
        => venue'[f].matched = worker[v].confirmed
    <3> SUFFICES ASSUME worker[v].step \in {"listed", "booked", "project"},
                        worker[v].state \in Over, worker[v].matched = worker[v].confirmed
                 PROVE  venue'[f].matched = worker[v].confirmed
      OBVIOUS
    <3>1. /\ venue[f].state = worker[v].state /\ venue[f].matched = worker[v].confirmed
          /\ worker[v].confirmed <= venue[f].confirmed
      BY <2>1 DEF PassOK
    <3>2. venue[f].matched = venue[f].confirmed
      BY <1>1, <3>1, BookNumbers, LocalNumbers DEF BookedOK
    <3> QED BY <3>1, <3>2 DEF VenueMoves
  <2> QED BY <2>1, <2>2, <2>3 DEF PassOK, Rests, Final, Holding, VenueMoves
<1>7. LotOK' /\ bought <= bought'
  BY <1>1 DEF Ledger, LotOK, Shape
<1>8. SoldAgrees' /\ ClaimsWithin'
  BY <1>2, <1>5, <1>7, StepSellsNothing
<1> QED BY <1>2, <1>3, <1>4, <1>6, <1>7, <1>8, StepAtNone

\* A fill is matched.
LEMMA MatchLedger ==
    ASSUME ExitInvariant, ExitInvariant', Ledger, NEW f \in Exits, Match(f)
    PROVE  Ledger'
<1>1. Shape /\ BookedOK(f) /\ ClaimOK(f)
  BY FactsOf DEF ExitInvariant
<1>2. UNCHANGED <<bought, lot, request, reservation, worker, rows, transport, preempted>>
  BY DEF Match, VenueOnly, books
<1>3. /\ venue'[f].state = "OPEN" /\ venue[f].state = "OPEN"
      /\ venue[f].matched < request[f].quantity
      /\ venue'[f].matched = venue[f].matched + 1 /\ venue'[f].confirmed = venue[f].confirmed
  BY <1>1 DEF Match, Shape, AnyOrder
<1>4. VenueMoves(f)
  BY <1>1, <1>3, BookNumbers DEF VenueMoves, BookedOK, ClaimOK, Over
<1>5. \A e \in Exits \ {f} : venue'[e] = venue[e] /\ transport'[e] = transport[e]
  BY <1>1, <1>2 DEF Match, Shape
<1> QED BY <1>2, <1>4, <1>5, VenueMovesLedger

\* A fill is confirmed.
LEMMA ConfirmTradeLedger ==
    ASSUME ExitInvariant, ExitInvariant', Ledger, NEW f \in Exits, ConfirmTrade(f)
    PROVE  Ledger'
<1>1. Shape /\ BookedOK(f) /\ ClaimOK(f)
  BY FactsOf DEF ExitInvariant
<1>2. UNCHANGED <<bought, lot, request, reservation, worker, rows, transport, preempted>>
  BY DEF ConfirmTrade, VenueOnly, books
<1>3. /\ venue'[f].state = venue[f].state /\ venue[f].confirmed < venue[f].matched
      /\ venue'[f].matched = venue[f].matched /\ venue'[f].confirmed = venue[f].confirmed + 1
  BY <1>1 DEF ConfirmTrade, Shape, AnyOrder
<1>4. VenueMoves(f)
  BY <1>1, <1>3, BookNumbers DEF VenueMoves, BookedOK, ClaimOK, Over
<1>5. \A e \in Exits \ {f} : venue'[e] = venue[e] /\ transport'[e] = transport[e]
  BY <1>1, <1>2 DEF ConfirmTrade, Shape
<1> QED BY <1>2, <1>4, <1>5, VenueMovesLedger

\* A matched trade fails.
LEMMA TradeFailsLedger ==
    ASSUME ExitInvariant, ExitInvariant', Ledger, NEW f \in Exits, TradeFails(f)
    PROVE  Ledger'
<1>1. Shape /\ BookedOK(f) /\ ClaimOK(f)
  BY FactsOf DEF ExitInvariant
<1>2. UNCHANGED <<bought, lot, request, reservation, worker, rows, transport, preempted>>
  BY DEF TradeFails, VenueOnly, books
<1>3. /\ venue'[f].state = venue[f].state /\ venue[f].confirmed < venue[f].matched
      /\ venue'[f].matched = venue[f].matched - 1 /\ venue'[f].confirmed = venue[f].confirmed
  BY <1>1 DEF TradeFails, Shape, AnyOrder
<1>4. VenueMoves(f)
  BY <1>1, <1>3, BookNumbers DEF VenueMoves, BookedOK, ClaimOK, Over
<1>5. \A e \in Exits \ {f} : venue'[e] = venue[e] /\ transport'[e] = transport[e]
  BY <1>1, <1>2 DEF TradeFails, Shape
<1> QED BY <1>2, <1>4, <1>5, VenueMovesLedger

\* An order ends.
LEMMA EndOrderLedger ==
    ASSUME ExitInvariant, ExitInvariant', Ledger, NEW f \in Exits, EndOrder(f)
    PROVE  Ledger'
<1>1. Shape /\ BookedOK(f) /\ ClaimOK(f) /\ venue[f] \in AnyOrder
  BY FactsOf DEF ExitInvariant, Shape
<1>2. UNCHANGED <<bought, lot, request, reservation, worker, rows, transport, preempted>>
  BY DEF EndOrder, VenueOnly, books
<1>3. /\ venue'[f].state \in Over /\ venue[f].state = "OPEN"
      /\ venue'[f].confirmed = venue[f].confirmed
      /\ IF venue'[f].state = "FAILED" THEN venue'[f].matched = 0 /\ venue[f].confirmed = 0
         ELSE venue'[f].matched = venue[f].matched
  <2>1. \/ venue' = [venue EXCEPT ![f].state = "CANCELED"]
        \/ venue' = [venue EXCEPT ![f].state = "SETTLED"]
        \/ /\ venue[f].confirmed = 0
           /\ venue' = [venue EXCEPT ![f] = [venue[f] EXCEPT !.state = "FAILED", !.matched = 0]]
    BY DEF EndOrder
  <2>2. venue[f].state = "OPEN"
    BY DEF EndOrder
  <2>3. CASE venue' = [venue EXCEPT ![f].state = "CANCELED"]
    BY <1>1, <2>2, <2>3 DEF Over, Shape, AnyOrder
  <2>4. CASE venue' = [venue EXCEPT ![f].state = "SETTLED"]
    BY <1>1, <2>2, <2>4 DEF Over, Shape, AnyOrder
  <2>5. CASE venue[f].confirmed = 0
             /\ venue' = [venue EXCEPT ![f] = [venue[f] EXCEPT !.state = "FAILED", !.matched = 0]]
    <3>1. venue'[f] = [venue[f] EXCEPT !.state = "FAILED", !.matched = 0]
      BY <1>1, <2>5 DEF Shape
    <3> QED BY <1>1, <2>2, <2>5, <3>1 DEF Over, AnyOrder
  <2> QED BY <2>1, <2>3, <2>4, <2>5
<1>4. VenueMoves(f)
  BY <1>1, <1>3, BookNumbers DEF VenueMoves, BookedOK, ClaimOK, Over
<1>5. \A e \in Exits \ {f} : venue'[e] = venue[e] /\ transport'[e] = transport[e]
  BY <1>1, <1>2 DEF EndOrder, Shape
<1> QED BY <1>2, <1>4, <1>5, VenueMovesLedger

\* An order that is posted has matched nothing, and its request is not final.
LEMMA PostLedger ==
    ASSUME ExitInvariant, ExitInvariant', Ledger, NEW f \in Exits, Post(f)
    PROVE  Ledger'
<1>1. Shape /\ BookedOK(f) /\ ClaimOK(f) /\ FinalOK(f) /\ ThreadOK(f)
      /\ venue[f] \in AnyOrder /\ transport[f] \in Threads
  BY FactsOf DEF ExitInvariant, Shape
<1>2. UNCHANGED <<bought, lot, request, reservation, worker, rows, preempted>>
  BY DEF Post, books
<1>3. /\ transport[f].step = "cleared" /\ transport'[f].step = "done"
      /\ venue'[f].state \in {"OPEN", venue[f].state}
      /\ venue'[f].matched = venue[f].matched /\ venue'[f].confirmed = venue[f].confirmed
      /\ \A e \in Exits \ {f} : venue'[e] = venue[e] /\ transport'[e] = transport[e]
  <2>1. transport[f].step = "cleared" /\ \E result \in {"ACCEPTED", "REJECTED", "REFUSED", "FAILED"} :
           transport' = [transport EXCEPT ![f] =
              [transport[f] EXCEPT !.step = "done", !.result = result]]
    BY DEF Post, Answers
  <2>2. /\ transport'[f].step = "done"
        /\ \A e \in Exits \ {f} : transport'[e] = transport[e]
    BY <1>1, <2>1 DEF Shape, Threads
  <2>3. venue' = [venue EXCEPT ![f].state = "OPEN"] \/ venue' = venue
    BY DEF Post
  <2>4. /\ venue'[f].state \in {"OPEN", venue[f].state}
        /\ venue'[f].matched = venue[f].matched /\ venue'[f].confirmed = venue[f].confirmed
        /\ \A e \in Exits \ {f} : venue'[e] = venue[e]
    BY <1>1, <2>3 DEF Shape, AnyOrder
  <2> QED BY <2>1, <2>2, <2>4
<1>4. venue[f].state = "NONE" /\ (f \notin preempted => ~Final(f))
  BY <1>1, <1>3 DEF ThreadOK, FinalOK
<1>5. VenueMoves(f)
  BY <1>1, <1>3, <1>4, BookNumbers DEF VenueMoves, BookedOK, Over
<1> QED BY <1>2, <1>3, <1>5, VenueMovesLedger

-----------------------------------------------------------------------------
(* The invariant and what follows from it.                                 *)

\* Empty books agree.
LEMMA InitLedger == Init => Ledger
<1> SUFFICES ASSUME Init PROVE Ledger
  OBVIOUS
<1>1. /\ \A e \in Exits : BookedOK(e) /\ ClaimOK(e)
      /\ \A e \in Exits : Claimed(e) = 0 /\ request[e].filled = 0
  BY NumbersAre DEF Init, BookedOK, ClaimOK, Claimed, Final, Holding, FinalStatuses,
     HoldingStatuses, NoTransport
<1>2. \A w \in Workers : LocalOK(w)
  BY NumbersAre DEF Init, LocalOK
<1>3. \A w \in Workers, e \in Exits : ~Busy(w, e)
  BY NumbersAre DEF Init, Busy
<1>4. LotOK
  BY NumbersAre DEF Init, LotOK
<1>5. SoldByRequests = 0 /\ ClaimedByExits = 0
  <2> DEFINE filled == [e \in Exits |-> request[e].filled]
             claimed == [e \in Exits |-> Claimed(e)]
  <2>1. (\A e \in Exits : filled[e] = 0) /\ \A e \in Exits : claimed[e] = 0
    BY <1>1
  <2>2. DOMAIN filled = Exits /\ DOMAIN claimed = Exits
    OBVIOUS
  <2>3. /\ SoldByRequests = SumFunctionOnSet(filled, Exits)
        /\ ClaimedByExits = SumFunctionOnSet(claimed, Exits)
    BY <2>2 DEF SoldByRequests, ClaimedByExits, SumFunction
  <2> HIDE DEF filled, claimed
  <2> QED BY <2>1, <2>3, ExitsFinite, SumOfZeros
<1>6. SoldAgrees /\ ClaimsWithin
  BY <1>5 DEF Init, SoldAgrees, ClaimsWithin
<1> QED BY <1>1, <1>2, <1>3, <1>4, <1>6 DEF Ledger

\* Every step keeps the ledger.
LEMMA NextLedger == ExitInvariant /\ ExitInvariant' /\ Ledger /\ [Next]_vars => Ledger'
<1> SUFFICES ASSUME ExitInvariant, ExitInvariant', Ledger, [Next]_vars PROVE Ledger'
  OBVIOUS
<1>1. CASE UNCHANGED vars
  <2>1. UNCHANGED <<bought, lot, request, reservation, worker, rows, transport, venue, preempted>>
    BY <1>1 DEF vars
  <2>2. \A v \in Workers : Rests(v)
    BY <2>1 DEF Rests
  <2> QED BY <2>1, <2>2, StepOfNone
<1>2. ASSUME NEW w \in Workers, Submit(w) PROVE Ledger'
  BY <1>2, ReadLotLedger, CheckRequestsLedger, AdmissionRefusedLedger, ReserveExitLedger,
     PrepareRequestLedger, RecordAttemptLedger, SubmissionBlockedLedger,
     WithdrawReservationLedger, WithdrawRequestLedger, CallTransportLedger,
     SubmissionFailsLedger, TimeOutLedger, RespondsLedger, ReleaseCapacityLedger DEF Submit
<1>3. ASSUME NEW w \in Workers, Reconcile(w) PROVE Ledger'
  BY <1>3, MarkUnknownLedger, ReleaseUnsentLedger, RejectUnsentLedger, PollOrderLedger,
     ListTradesLedger, VenueUnavailableLedger, BookFillsLedger, ReadRowsLedger, ProjectLedger,
     ProjectMissesLedger DEF Reconcile
<1>4. ASSUME NEW e \in Exits, Thread(e) PROVE Ledger'
  BY <1>4, ThreadLedger, MarkSendStartedLedger, PostLedger DEF Thread
<1>5. ASSUME NEW e \in Exits, Venue(e) PROVE Ledger'
  BY <1>5, MatchLedger, ConfirmTradeLedger, TradeFailsLedger, EndOrderLedger DEF Venue
<1> QED BY <1>1, <1>2, <1>3, <1>4, <1>5, LeaseMovesLedger, ConfirmBuyLedger, SyncEntryLotLedger,
           CrashLedger, ReadRequestLedger DEF Next

\* The books of an exit, what its submitter and its reconciler know of
\* them, and the inventory agree throughout, whoever crashes or answers
\* late.
THEOREM LedgerHolds == Spec => []Ledger
<1>1. Spec => [](ExitInvariant /\ Ledger)
  BY InitLedger, NextLedger, InitExitInvariant, NextExitInvariant, PTL DEF Spec
<1> QED BY <1>1, PTL

\* The lot, the requests and the risk fills agree on what was sold.
THEOREM BooksAgreeHolds == Spec => []BooksAgree
<1>1. Ledger => BooksAgree
  BY DEF Ledger, SoldAgrees, SoldByRequests, BookedOK, ClaimOK, BooksAgree
<1> QED BY <1>1, LedgerHolds, PTL

\* What the live orders can still sell, with what was sold, is within the
\* confirmed inventory.
THEOREM SalesWithinInventoryHolds == Spec => []SalesWithinInventory
<1> DEFINE atVenue == [e \in Exits |-> IF venue[e].state = "OPEN" THEN request[e].quantity
                                      ELSE venue[e].matched]
           claimed == [e \in Exits |-> Claimed(e)]
           kept == Exits \ preempted
<1>1. ASSUME ExitInvariant, Ledger PROVE SalesWithinInventory
  <2>1. Shape
    BY <1>1 DEF ExitInvariant
  <2>2. ASSUME NEW e \in Exits
        PROVE  /\ atVenue[e] \in Int /\ claimed[e] \in Nat
               /\ e \notin preempted => atVenue[e] <= claimed[e]
    <3>1. BookedOK(e) /\ ClaimOK(e) /\ ThreadOK(e)
      BY <1>1, FactsOf
    <3>2. 0 <= Claimed(e) /\ Claimed(e) \in Int /\ reservation[e].filled <= Claimed(e)
      BY <2>1, <3>1, BookNumbers, ClaimIsInt DEF BookedOK, Claimed
    <3>3. ASSUME e \notin preempted PROVE atVenue[e] <= Claimed(e)
      <4>1. CASE Final(e)
        BY <2>1, <3>1, <3>2, <3>3, <4>1 DEF ClaimOK
      <4>2. CASE ~Final(e) /\ transport[e].step = "none"
        <5>1. venue[e].state = "NONE" /\ venue[e].matched = 0
          BY <3>1, <4>2 DEF ThreadOK, BookedOK
        <5> QED BY <3>2, <5>1
      <4>3. CASE ~Final(e) /\ transport[e].step # "none"
        <5>1. request[e].status # "NONE" /\ request[e].quantity = reservation[e].quantity
          BY <3>1, <4>3 DEF ThreadOK, BookedOK
        <5>2. reservation[e].quantity <= Claimed(e)
          BY <2>1, <3>1, <3>3, <4>3, BookNumbers DEF ClaimOK, BookedOK, Claimed, Holding,
             HoldingStatuses
        <5> QED BY <2>1, <3>1, <3>2, <5>1, <5>2, BookNumbers DEF BookedOK
      <4> QED BY <4>1, <4>2, <4>3
    <3> QED BY <2>1, <3>2, <3>3, BookNumbers
  <2>3. kept \in SUBSET Exits /\ IsFiniteSet(kept) /\ DOMAIN claimed = Exits
    BY ExitsFinite, FS_Subset
  <2>4. /\ \A e \in kept : atVenue[e] \in Int /\ claimed[e] \in Int /\ atVenue[e] <= claimed[e]
        /\ \A e \in kept : atVenue[e] \in Int
        /\ \A e \in kept : claimed[e] \in Int
        /\ \A e \in Exits : claimed[e] \in Int
        /\ \A e \in Exits : claimed[e] \in Nat
    BY <2>2
  <2>5. SumFunctionOnSet(claimed, Exits) <= bought
    BY <1>1, <2>3 DEF Ledger, ClaimsWithin, ClaimedByExits, SumFunction
  <2>6. SalesWithinInventory <=> SumFunctionOnSet(atVenue, kept) <= bought
    BY DEF SalesWithinInventory
  <2> HIDE DEF atVenue, claimed, kept
  <2>7. SumFunctionOnSet(atVenue, kept) <= SumFunctionOnSet(claimed, kept)
    BY <2>3, <2>4, SumMonotonic
  <2>8. SumFunctionOnSet(claimed, kept) <= SumFunctionOnSet(claimed, Exits)
    BY <2>3, <2>4, ExitsFinite, SumOfSubset
  <2>9. /\ SumFunctionOnSet(atVenue, kept) \in Int /\ SumFunctionOnSet(claimed, kept) \in Int
        /\ SumFunctionOnSet(claimed, Exits) \in Int
    BY <2>3, <2>4, ExitsFinite, SumType
  <2>10. bought \in Int
    BY <2>1 DEF Shape
  <2> QED BY <2>5, <2>6, <2>7, <2>8, <2>9, <2>10
<1> QED BY <1>1, LedgerHolds, ExitInvariantHolds, PTL

-----------------------------------------------------------------------------
(* Types.                                                                  *)

CountsOK == holder \in Workers /\ crashes \in 0..MaxCrashes

\* There is a lease holder, and at most MaxCrashes crashes.
LEMMA CountsHold == Spec => []CountsOK
<1>1. Init => CountsOK
  BY ExitConstants DEF Init, CountsOK
<1>2. CountsOK /\ [Next]_vars => CountsOK'
  <2> SUFFICES ASSUME CountsOK, [Next]_vars PROVE CountsOK'
    OBVIOUS
  <2>1. CASE UNCHANGED <<holder, crashes>>
    BY <2>1 DEF CountsOK
  <2>2. CASE LeaseMoves
    BY <2>2 DEF LeaseMoves, CountsOK
  <2>3. ASSUME NEW w \in Workers, Crash(w) PROVE CountsOK'
    BY <2>3, ExitConstants DEF Crash, CountsOK
  <2>4. ASSUME Next, ~LeaseMoves, \A w \in Workers : ~Crash(w) PROVE UNCHANGED <<holder, crashes>>
    BY <2>4 DEF Next, ConfirmBuy, SyncEntryLot, Submit, Reconcile, ReadRequest, Thread, Venue,
       ReadLot, CheckRequests, AdmissionRefused, ReserveExit, PrepareRequest, RecordAttempt,
       SubmissionBlocked, WithdrawReservation, WithdrawRequest, CallTransport, SubmissionFails,
       TimeOut, Responds, ReleaseCapacity, MarkUnknown, ReleaseUnsent, RejectUnsent, PollOrder,
       ListTrades, VenueUnavailable, BookFills, ReadRows, Project, ProjectMisses, PrepareOrder,
       FenceRefuses, FirstFence, SendStarts, MarkSendStarted, SecondFence, Post, ThreadOnly,
       Match, ConfirmTrade, TradeFails, EndOrder, VenueOnly
  <2> QED BY <2>1, <2>2, <2>3, <2>4 DEF vars
<1> QED BY <1>1, <1>2, PTL DEF Spec

\* Every number stays within its bound: nothing is sold, pending or filled
\* beyond what was bought.
THEOREM TypeOKHolds == Spec => []TypeOK
<1>1. ASSUME ExitInvariant, Ledger, CountsOK PROVE TypeOK
  <2>1. Shape /\ LotOK
    BY <1>1 DEF ExitInvariant, Ledger
  <2>2. lot \in Lots /\ bought \in Quantity
    BY <1>1, <2>1, LotTyped, NumbersAre DEF LotOK, Quantity, Shape
  <2>3. ASSUME NEW e \in Exits
        PROVE  request[e] \in Requests /\ reservation[e] \in Reservations /\ venue[e] \in Orders
    <3>1. BookedOK(e)
      BY <1>1 DEF Ledger
    <3>2. /\ request[e].quantity \in Quantity /\ request[e].filled \in Quantity
          /\ reservation[e].quantity \in Quantity /\ reservation[e].filled \in Quantity
          /\ venue[e].matched \in Quantity /\ venue[e].confirmed \in Quantity
      BY <2>1, <3>1, BookNumbers, NumbersAre DEF BookedOK, Quantity
    <3>3. request[e] \in AnyRequest /\ reservation[e] \in AnyReservation /\ venue[e] \in AnyOrder
      BY <2>1 DEF Shape
    <3> QED BY <3>2, <3>3 DEF AnyRequest, Requests, Statuses, AnyReservation, Reservations,
               AnyOrder, Orders
  <2>4. ASSUME NEW w \in Workers PROVE worker[w] \in Locals /\ rows[w] \in Rows
    <3>1. LocalOK(w) /\ worker[w] \in AnyWorker
      BY <1>1, <2>1 DEF Ledger, Shape
    <3>2. /\ worker[w].quantity \in Quantity /\ worker[w].pending \in Quantity
          /\ worker[w].matched \in Quantity /\ worker[w].confirmed \in Quantity
      BY <2>1, <3>1, LocalNumbers, NumbersAre DEF LocalOK, Quantity
    <3>3. rows[w] \in Rows
      BY <3>1 DEF LocalOK
    <3> QED BY <3>1, <3>2, <3>3 DEF AnyWorker, Locals
  <2>5. /\ request \in [Exits -> Requests] /\ reservation \in [Exits -> Reservations]
        /\ venue \in [Exits -> Orders]
        /\ worker \in [Workers -> Locals] /\ rows \in [Workers -> Rows]
    BY <2>1, <2>3, <2>4 DEF Shape
  <2> QED BY <1>1, <2>1, <2>2, <2>5 DEF TypeOK, CountsOK, Shape
<1> QED BY <1>1, LedgerHolds, ExitInvariantHolds, CountsHold, PTL
=====================================
