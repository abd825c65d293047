---------------------- MODULE BinanceExecutionInvariant ----------------------
(***************************************************************************)
(* The inductive invariant behind AtMostOnceSubmission and                 *)
(* OpenOrdersAreReserved.  It says what each program counter of a worker   *)
(* knows about the order it works on, and that no answer a worker carries  *)
(* claims more than the venue did.                                         *)
(***************************************************************************)
EXTENDS BinanceExecution

(* Before the venue call, and after: what a worker is doing with its signal.*)
PreCall == {"claim", "fence", "final", "call"}

Carries(w) ==
    \/ worker[w].pc \in {"apply", "recompute", "release", "trades", "reapply"}
    \/ worker[w].pc = "feepause" /\ worker[w].then \in {"release", "apply"}

Dead == {"REJECTED", "FILLED", "CANCELED", "EXPIRED", "forgotten"}

(* Rows and reservations: no risk is held without a row, no order exists    *)
(* without risk, and a row is terminal under held risk only when the venue  *)
(* has ended the order.                                                     *)
RowOK(s) ==
    /\ intents[s].state = "none" => held[s] = "none"
    /\ intents[s].state \notin {"none", "REJECTED"} => held[s] # "none"
    /\ held[s] = "none" => venue[s].status = "absent"
    /\ held[s] # "none" => intents[s].qty > 0
    /\ held[s] = "RELEASED" => venue[s].status \notin {"inflight", "NEW"}
    /\ held[s] = "HELD" /\ intents[s].state \in Terminal => venue[s].status \in Dead

(* The venue has an order exactly when it was called once, fills it up to   *)
(* its quantity, and the trade ledger never runs ahead of it.               *)
VenueOK(s) ==
    /\ calls[s] = IF venue[s].status = "absent" THEN 0 ELSE 1
    /\ venue[s].status \in {"absent", "inflight", "REJECTED"} => venue[s].filled = 0
    /\ venue[s].filled <= intents[s].qty
    /\ venue[s].status = "NEW" => venue[s].filled < intents[s].qty
    /\ fills[s] <= venue[s].filled

(* A worker on its way to the venue call is alone with a signal that has    *)
(* risk held and has never reached the venue.                               *)
PreCallOK(w) ==
    worker[w].pc \in PreCall =>
        /\ worker[w].sig \in Signals
        /\ held[worker[w].sig] = "HELD"
        /\ venue[worker[w].sig].status = "absent"
        /\ \A v \in Workers \ {w} :
            worker[v].pc \in PreCall => worker[v].sig # worker[w].sig

(* An answer in a worker's hands, however old: never ahead of the venue,    *)
(* and final only if the order is over.                                     *)
AnswerOK(w) ==
    Carries(w) =>
        /\ worker[w].sig \in Signals
        /\ venue[worker[w].sig].status \notin {"absent", "inflight"}
        /\ worker[w].resp.state # "none"
        /\ worker[w].resp.cumulative <= venue[worker[w].sig].filled
        /\ worker[w].resp.trades <= venue[worker[w].sig].filled
        /\ worker[w].resp.state \in Terminal => venue[worker[w].sig].status \in Dead

(* What the other steps of a call and the rows of a pass may touch exists.  *)
PassOK(w) ==
    /\ worker[w].pc = "await" =>
        worker[w].sig \in Signals /\ venue[worker[w].sig].status # "absent"
    /\ worker[w].pc = "cancelfail" =>
        worker[w].sig \in Signals /\ held[worker[w].sig] # "none"
    /\ \A s \in Signals : worker[w].rows[s].state # "none" => held[s] # "none"

(* The inductive invariant: the types and the facts above.                  *)
CallsAccounted ==
    /\ \A s \in Signals : RowOK(s) /\ VenueOK(s)
    /\ \A w \in Workers : PreCallOK(w) /\ AnswerOK(w) /\ PassOK(w)

InductiveInvariant == LedgerTypeOK /\ CallsAccounted

-----------------------------------------------------------------------------
(* What the generation of the control row says of an order.  Rows never     *)
(* carry a later one; a revoked order carries an older one; and a barred    *)
(* TESTNET plane is not armed and has only older ones on their way.         *)
GenerationsOrdered ==
    \A s \in Signals : intents[s].generation <= control.generation

RevokedAreStale ==
    \A s \in barred.orders :
        intents[s].state # "none" /\ intents[s].generation < control.generation

BarredAreStale ==
    Environment = "TESTNET" /\ barred.plane =>
        /\ control.state # "ARMED"
        /\ \A w \in Workers : worker[w].pc \in PreCall =>
                intents[worker[w].sig].generation < control.generation

(* An order on its way to the venue under the current generation was not   *)
(* revoked: what the generation of the control row is for.                 *)
ControlInvariant == GenerationsOrdered /\ RevokedAreStale /\ BarredAreStale

-----------------------------------------------------------------------------
(* One process works on the database, as the runtime's lease has it; it may *)
(* die and come back.                                                       *)
OneWorker == \A v, w \in Workers : v = w

(* What the trade ledger says of an order that is over.  A row is final    *)
(* only with the trades of the order, or with a payload that counts them;   *)
(* its reservation returns only with the trades themselves.                 *)
EvidenceOK(s) ==
    /\ held[s] = "RELEASED" => fills[s] = venue[s].filled
    /\ intents[s].state \in {"CANCELED", "EXPIRED"} => fills[s] = venue[s].filled
    /\ intents[s].state = "FILLED" =>
        fills[s] = venue[s].filled \/ intents[s].cumulative = venue[s].filled
    /\ intents[s].state = "REJECTED" => venue[s].filled = 0

(* A final answer in the hands of the worker counts all trades, an older    *)
(* one does not come after a row that is FILLED without its trades, and a   *)
(* position is recomputed on the way to a release or to a final answer.     *)
FinalAnswerOK(w) ==
    Carries(w) =>
        LET s == worker[w].sig
            r == worker[w].resp
        IN
        /\ r.state \in Terminal => r.cumulative = venue[s].filled
        /\ r.state = "REJECTED" => venue[s].filled = 0
        /\ worker[w].pc # "apply" /\ worker[w].then = "apply" => r.state \in Terminal
        /\ worker[w].pc = "recompute" => worker[w].then \in {"release", "apply"}
        /\ worker[w].pc = "apply" /\ intents[s].state = "FILLED" =>
            fills[s] = venue[s].filled \/ r.cumulative = venue[s].filled

EvidenceInvariant ==
    (\A s \in Signals : EvidenceOK(s)) /\ \A w \in Workers : FinalAnswerOK(w)

(* Position rows follow the trade ledger: a symbol that never traded has    *)
(* none, and the symbols a pass has behind it are up to date.               *)
UpToDate(sym) == position[sym] = NetPosition(sym)

Repairs(w) ==
    \/ worker[w].pc = "positions"
    \/ worker[w].pc = "feepause" /\ worker[w].then = "positions"

PositionsInvariant ==
    /\ \A sym \in Symbols : (\A s \in Of(sym) : fills[s] = 0) => UpToDate(sym)
    /\ \A w \in Workers :
        Repairs(w) => \A sym \in Symbols \ worker[w].syms : UpToDate(sym)

(* Without a crash a row is stale only until its worker recomputes it.      *)
StaleIsPending ==
    \A sym \in Symbols :
        UpToDate(sym) \/ \E w \in Workers :
            worker[w].pc = "recompute" /\ Symbol[worker[w].sig] = sym

(* Entries claimed today and entries about to be claimed: each worker but   *)
(* one may have counted the day before the others claimed.                  *)
Claiming ==
    {w \in Workers : /\ worker[w].pc = "claim"
                     /\ worker[w].sig \in Entries
                     /\ intents[worker[w].sig].state = "RESERVED"}

BudgetInvariant ==
    /\ \A s \in Signals : intents[s].day <= day
    /\ Claiming # {} => MaxSubmissions > 0
    /\ SubmittedToday(Entries) + Cardinality(Claiming) <= MaxSubmissions + Cardinality(Workers) - 1

-----------------------------------------------------------------------------
(* Why a final row stays as it is, for any number of workers: what it says  *)
(* of the trades is all there is to say, and an answer that ends an order   *)
(* short of its quantity is none of an order that was filled.               *)
EndedOK(s) ==
    /\ venue[s].status = "FILLED" => venue[s].filled = intents[s].qty
    /\ venue[s].status \in {"CANCELED", "EXPIRED"} => venue[s].filled < intents[s].qty

FinalRowOK(s) ==
    /\ intents[s].state \in {"CANCELED", "EXPIRED"} => fills[s] = venue[s].filled
    /\ intents[s].state = "FILLED" => venue[s].filled = intents[s].qty
    /\ intents[s].state = "REJECTED" => venue[s].filled = 0

FinalCountOK(w) ==
    Carries(w) =>
        LET s == worker[w].sig
            r == worker[w].resp
        IN
        /\ r.state \in Terminal => r.cumulative = venue[s].filled
        /\ r.state = "REJECTED" => venue[s].filled = 0
        /\ r.state = "FILLED" => venue[s].filled = intents[s].qty
        /\ r.state \in {"CANCELED", "EXPIRED"} => venue[s].filled < intents[s].qty

FinalityInvariant ==
    /\ \A s \in Signals : EndedOK(s) /\ FinalRowOK(s)
    /\ \A w \in Workers : FinalCountOK(w)

(* An order on its way past its reservation saw no unvalued trade but those *)
(* of an earlier day whose position row is behind.                          *)
ValuationInvariant ==
    /\ \A s \in Signals : venue[s].day <= day
    /\ \A w \in Workers : worker[w].pc \in PreCall =>
        \A s \in Unvalued : venue[s].day < day /\ ~position[Symbol[s]].unknown

=============================================================================
