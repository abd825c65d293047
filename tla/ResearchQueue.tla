---------------------------- MODULE ResearchQueue ----------------------------
(***************************************************************************)
(* The durable research queue (storage.py research_queue, research_bus.py) *)
(* and the passes that work on it: AutonomousResearchProcessor             *)
(* .process_pending of the node ("research-queue") and of the operator     *)
(* plane ("operator-hermes"), two processes on one database.               *)
(*                                                                         *)
(* A pass reads the clock once and uses that instant for every lease it    *)
(* gives, checks or declares expired.  An item is processed in ONE         *)
(* transaction: budget reservation, campaign document and completion       *)
(* commit together.  When the transaction fails the campaign is advanced   *)
(* OUTSIDE any transaction (read, then write of the whole document), and a *)
(* second transaction completes the item as REJECTED or FAILED.            *)
(*                                                                         *)
(* Time is relative: age[w] is how old the instant of w's pass is, left[i] *)
(* is the time from now to the end of item i's lease.  lease_until <= the  *)
(* instant of w is therefore left + age <= 0.                              *)
(***************************************************************************)
EXTENDS Integers, Sequences, FiniteSets

CONSTANTS
  Workers,      \* worker names: each process passes its own
  Trials,       \* the planned trials of one campaign, in order; each trial
                \* has one queue item (dedupe key campaign:<id>:<trial>)
  Others,       \* experiments that belong to no campaign
  NoItem, NoOwner,
  LeaseTime,    \* config.lease_seconds, in units of the clock
  MaxItems,     \* config.max_items_per_cycle
  TotalLimit,   \* config.total_limit of the experiment budget
  MaxAge,       \* bound: clock ticks within one pass
  MaxFaults     \* bound: processes killed, and ticks that make a pass as old
                \* as the leases it gives

TrialItems == {Trials[k] : k \in DOMAIN Trials}
Items == TrialItems \cup Others

ASSUME QueueAssumption ==
  /\ Trials \in Seq(TrialItems) /\ Trials # <<>>
  /\ NoItem \notin Items /\ NoOwner \notin Workers
  /\ LeaseTime \in Nat \ {0} /\ MaxItems \in Nat \ {0}
  /\ TotalLimit \in Nat /\ MaxAge \in Nat /\ MaxFaults \in Nat

ASSUME ItemsFinite == IsFiniteSet(Items)

\* an experiment of no campaign is no trial of this one
ASSUME OthersBelongToNone == Others \cap TrialItems = {}

VARIABLES
  item,       \* the rows of research_queue
  job,        \* the operator job of the campaign: one JSON document
  used,       \* experiment_budget.used_total
  reserved,   \* the keys of experiment_budget_reservations
  worker,     \* the processes
  stolen,     \* history: some lease was released before its work was decided
  faults

vars == <<item, job, used, reserved, worker, stolen, faults>>

Decided == {"COMPLETED", "REJECTED", "FAILED"}
Classes == {"VALIDATION_QUALIFIED", "ECONOMIC_REJECTION", "DATA_INSUFFICIENT",
            "SOFTWARE_OR_INPUT_ERROR"}
Lefts == (-MaxAge) .. LeaseTime
Rows == [status : {"ABSENT", "PENDING", "TESTING"} \cup Decided,
         owner : Workers \cup {NoOwner}, left : Lefts]
Jobs == [status : {"RUNNING", "WAITING_FOR_DATA", "SOFTWARE_OR_INPUT_ERROR", "FINISHED"},
         trial : [TrialItems -> {"PLANNED", "RUNNING"} \cup Classes]]
Locals == [pc : {"idle", "claim", "pick", "cas", "process",
                 "read", "write", "next", "final", "finish"},
           age : 0 .. MaxAge, quota : 0 .. MaxItems,
           item : Items \cup {NoItem}, final : {"REJECTED", "FAILED"}, class : Classes,
           seen : Jobs, lost : BOOLEAN]

(***************************************************************************)
(* Rows and leases                                                         *)
(***************************************************************************)
PendingRow == [status |-> "PENDING", owner |-> NoOwner, left |-> 0]
DecidedRow(status) == [status |-> status, owner |-> NoOwner, left |-> 0]
Later(n) == IF n < -MaxAge THEN -MaxAge ELSE n
LeasedRow(w) == [status |-> "TESTING", owner |-> w,
                 left |-> Later(LeaseTime - worker[w].age)]
Expired(i, age) == item[i].status = "TESTING" /\ item[i].left + age <= 0

\* Mutant: any worker may complete a leased item.
HeldByAnyone(w, i) == item[i].status = "TESTING" /\ item[i].left + worker[w].age > 0

\* complete_research_item accepts the worker
Holds(w, i) ==
  /\ item[i].status = "TESTING"
  /\ item[i].owner = w
  /\ item[i].left + worker[w].age > 0

\* Mutant: the limit may be passed by one.
CanReserveOneMore(i) == i \in reserved \/ used <= TotalLimit
CanReserve(i) == i \in reserved \/ used < TotalLimit

(***************************************************************************)
(* The campaign document                                                   *)
(***************************************************************************)
FirstJob == [status |-> "RUNNING",
             trial |-> [t \in TrialItems |-> IF t = Trials[1] THEN "RUNNING" ELSE "PLANNED"]]

\* CAMPAIGN_TRIAL_TERMINAL and CAMPAIGN_TERMINAL_STATUSES: what stops
\* _advance_campaign_after_result from recording a result again
Records(doc, i) == /\ i \in TrialItems
                   /\ doc.status # "FINISHED"
                   /\ doc.trial[i] \notin Classes

StatusAfter(class) == CASE class = "DATA_INSUFFICIENT" -> "WAITING_FOR_DATA"
                        [] class = "SOFTWARE_OR_INPUT_ERROR" -> "SOFTWARE_OR_INPUT_ERROR"
                        [] OTHER -> "RUNNING"
Continues(class) == class \in {"VALIDATION_QUALIFIED", "ECONOMIC_REJECTION"}
Classified(doc, i, class) ==
  [status |-> StatusAfter(class), trial |-> [doc.trial EXCEPT ![i] = class]]

\* _campaign_queue_next: the first planned trial runs; an item it already has
\* is kept as it is.  The trial budget is as long as the protocol's grid.
PlannedAt(doc) == {k \in DOMAIN Trials : doc.trial[Trials[k]] = "PLANNED"}
NextTrials(doc) == {Trials[k] : k \in {n \in PlannedAt(doc) : \A m \in PlannedAt(doc) : n <= m}}
\* Mutant: the cursor of the campaign is not moved.
NextUnmarked(doc) == [status |-> "RUNNING", trial |-> doc.trial]
NextQueued(doc) ==
  [status |-> "RUNNING",
   trial |-> [t \in TrialItems |-> IF t \in NextTrials(doc) THEN "RUNNING" ELSE doc.trial[t]]]
Finished(doc) == [status |-> "FINISHED", trial |-> doc.trial]

\* _advance_campaign_after_result inside the processing transaction
Advanced(doc, i, class) ==
  LET said == Classified(doc, i, class)
  IN  IF ~Records(doc, i) THEN doc
      ELSE IF ~Continues(class) THEN said
      ELSE IF NextTrials(said) = {} THEN Finished(said) ELSE NextQueued(said)
Enqueued(before, after) ==
  {t \in TrialItems : before.trial[t] = "PLANNED" /\ after.trial[t] = "RUNNING"}
WithTrials(rows, trials) ==
  [i \in Items |-> IF i \in trials /\ rows[i].status = "ABSENT" THEN PendingRow ELSE rows[i]]

Idle == [pc |-> "idle", age |-> 0, quota |-> 0, item |-> NoItem, final |-> "FAILED",
         class |-> "SOFTWARE_OR_INPUT_ERROR", seen |-> FirstJob, lost |-> FALSE]
\* the end of one round of the loop: the next claim, or the end of the pass
RoundOver(w) == IF worker[w].quota = 0 THEN Idle
                ELSE [Idle EXCEPT !.pc = "claim", !.age = worker[w].age,
                                  !.quota = worker[w].quota]

Init ==
  /\ item = [i \in Items |-> IF i = Trials[1] THEN PendingRow ELSE DecidedRow("ABSENT")]
  /\ job = FirstJob
  /\ used = 0 /\ reserved = {}
  /\ worker = [w \in Workers |-> Idle]
  /\ stolen = FALSE /\ faults = 0

\* enqueue_research_item: INSERT OR IGNORE on the dedupe key
Submit(i) ==
  /\ item' = IF item[i].status = "ABSENT" THEN [item EXCEPT ![i] = PendingRow] ELSE item
  /\ UNCHANGED <<job, used, reserved, worker, stolen, faults>>

(***************************************************************************)
(* One pass                                                                *)
(***************************************************************************)
\* v works on an item whose lease a pass of that age declares expired
LosesClaim(v, age) == \E i \in Items : /\ worker[v].item = i
                                       /\ item[i].owner = v
                                       /\ Expired(i, age)
\* Mutant: the lease is cleared, the status kept.
ReleasedLease(age) ==
  [i \in Items |-> IF Expired(i, age) THEN [item[i] EXCEPT !.owner = NoOwner] ELSE item[i]]
Released(age) == [i \in Items |-> IF Expired(i, age) THEN PendingRow ELSE item[i]]
AfterRelease(w, own, age) ==
  [v \in Workers |-> IF v = w THEN own
                     ELSE [worker[v] EXCEPT !.lost = worker[v].lost \/ LosesClaim(v, age)]]

\* the pass takes its instant and releases what expired (resume_expired)
BeginPass(w) ==
  /\ worker[w].pc = "idle"
  /\ item' = Released(0)
  /\ stolen' = (stolen \/ \E i \in Items : Expired(i, 0))
  /\ worker' = AfterRelease(w, [Idle EXCEPT !.pc = "claim", !.quota = MaxItems], 0)
  /\ UNCHANGED <<job, used, reserved, faults>>

\* release_expired_research_items, the first transaction of every claim
ReleaseExpired(w) ==
  /\ worker[w].pc = "claim"
  /\ item' = Released(worker[w].age)
  /\ stolen' = (stolen \/ \E i \in Items : Expired(i, worker[w].age))
  /\ worker' = AfterRelease(w, [worker[w] EXCEPT !.pc = "pick"], worker[w].age)
  /\ UNCHANGED <<job, used, reserved, faults>>

\* the SELECT of claim_research_item: the order (aged items, priority, age)
\* depends on data the model leaves out
PickItem(w) ==
  /\ worker[w].pc = "pick"
  /\ \E i \in Items :
       /\ item[i].status = "PENDING"
       /\ worker' = [worker EXCEPT ![w] = [worker[w] EXCEPT !.pc = "cas", !.item = i]]
  /\ UNCHANGED <<item, job, used, reserved, stolen, faults>>

NothingToPick(w) ==
  /\ worker[w].pc = "pick"
  /\ \A i \in Items : item[i].status # "PENDING"
  /\ worker' = [worker EXCEPT ![w] = Idle]
  /\ UNCHANGED <<item, job, used, reserved, stolen, faults>>

\* its UPDATE ... WHERE status='PENDING'
ClaimItem(w) ==
  /\ worker[w].pc = "cas"
  /\ item[worker[w].item].status = "PENDING"
  /\ item' = [item EXCEPT ![worker[w].item] = LeasedRow(w)]
  /\ worker' = [worker EXCEPT ![w] = [worker[w] EXCEPT !.pc = "process",
                                                       !.quota = worker[w].quota - 1]]
  /\ UNCHANGED <<job, used, reserved, stolen, faults>>

\* another process was faster: claim returns None and the pass ends, though
\* other items may be pending
ClaimMissed(w) ==
  /\ worker[w].pc = "cas"
  /\ item[worker[w].item].status # "PENDING"
  /\ worker' = [worker EXCEPT ![w] = Idle]
  /\ UNCHANGED <<item, job, used, reserved, stolen, faults>>

(***************************************************************************)
(* Processing                                                              *)
(***************************************************************************)
\* the result was returned: budget, campaign and completion in one transaction
ProcessItem(w, class) ==
  LET i == worker[w].item
      status == IF class = "VALIDATION_QUALIFIED" THEN "COMPLETED" ELSE "REJECTED"
      after == Advanced(job, i, class)
  IN  /\ worker[w].pc = "process"
      /\ CanReserve(i)
      /\ Holds(w, i)
      /\ reserved' = reserved \cup {i}
      /\ used' = IF i \in reserved THEN used ELSE used + 1
      /\ job' = after
      /\ item' = WithTrials([item EXCEPT ![i] = DecidedRow(status)], Enqueued(job, after))
      /\ worker' = [worker EXCEPT ![w] = RoundOver(w)]
      /\ UNCHANGED <<stolen, faults>>

\* the transaction raised and was rolled back: a rejection by the handler
\* (AutonomousResearchError, the exhausted budget among them), or any other
\* exception (PROCESSING_FAILED).  The lease is not looked at.
Outcomes == {<<"REJECTED", "ECONOMIC_REJECTION">>, <<"REJECTED", "DATA_INSUFFICIENT">>,
             <<"REJECTED", "SOFTWARE_OR_INPUT_ERROR">>, <<"FAILED", "SOFTWARE_OR_INPUT_ERROR">>}
Raised(w, final, class) ==
  [worker[w] EXCEPT !.pc = "read", !.final = final, !.class = class]
\* Mutant: the reservation outlives the rollback.
ProcessRaisesPaid(w, outcome) ==
  /\ worker[w].pc = "process"
  /\ CanReserve(worker[w].item)
  /\ reserved' = reserved \cup {worker[w].item}
  /\ used' = IF worker[w].item \in reserved THEN used ELSE used + 1
  /\ worker' = [worker EXCEPT ![w] = Raised(w, outcome[1], outcome[2])]
  /\ UNCHANGED <<item, job, stolen, faults>>
ProcessRaises(w, outcome) ==
  /\ worker[w].pc = "process"
  /\ worker' = [worker EXCEPT ![w] = Raised(w, outcome[1], outcome[2])]
  /\ UNCHANGED <<item, job, used, reserved, stolen, faults>>

\* complete raised: the lease is gone or another's; the same except clause
\* takes it for a failure of the processing
ProcessRefused(w) ==
  /\ worker[w].pc = "process"
  /\ CanReserve(worker[w].item)
  /\ ~Holds(w, worker[w].item)
  /\ worker' = [worker EXCEPT ![w] = Raised(w, "FAILED", "SOFTWARE_OR_INPUT_ERROR")]
  /\ UNCHANGED <<item, job, used, reserved, stolen, faults>>

(***************************************************************************)
(* The campaign after a failure, outside any transaction                   *)
(***************************************************************************)
ReadJob(w) ==
  LET i == worker[w].item
  IN  /\ worker[w].pc = "read"
      /\ worker' = [worker EXCEPT ![w] =
           IF Records(job, i)
           THEN [worker[w] EXCEPT !.pc = "write", !.seen = Classified(job, i, worker[w].class)]
           ELSE [worker[w] EXCEPT !.pc = "finish"]]
      /\ UNCHANGED <<item, job, used, reserved, stolen, faults>>

\* set_operator_job replaces the document
WriteJob(w) ==
  /\ worker[w].pc = "write"
  /\ job' = worker[w].seen
  /\ worker' = [worker EXCEPT ![w] =
       [worker[w] EXCEPT !.pc = IF Continues(worker[w].class) THEN "next" ELSE "finish"]]
  /\ UNCHANGED <<item, used, reserved, stolen, faults>>

\* _campaign_queue_next in its immediate transaction
QueueNext(w) ==
  /\ worker[w].pc = "next"
  /\ NextTrials(job) # {}
  /\ job' = NextQueued(job)
  /\ item' = WithTrials(item, NextTrials(job))
  /\ worker' = [worker EXCEPT ![w] = [worker[w] EXCEPT !.pc = "finish"]]
  /\ UNCHANGED <<used, reserved, stolen, faults>>

NoNextTrial(w) ==
  /\ worker[w].pc = "next"
  /\ NextTrials(job) = {}
  /\ worker' = [worker EXCEPT ![w] = [worker[w] EXCEPT !.pc = "final"]]
  /\ UNCHANGED <<item, job, used, reserved, stolen, faults>>

\* the final assessment writes the document the worker read
Assess(w) ==
  /\ worker[w].pc = "final"
  /\ job' = Finished(worker[w].seen)
  /\ worker' = [worker EXCEPT ![w] = [worker[w] EXCEPT !.pc = "finish"]]
  /\ UNCHANGED <<item, used, reserved, stolen, faults>>

(***************************************************************************)
(* The second transaction: complete as REJECTED or FAILED                  *)
(***************************************************************************)
FinishItem(w) ==
  /\ worker[w].pc = "finish"
  /\ Holds(w, worker[w].item)
  /\ item' = [item EXCEPT ![worker[w].item] = DecidedRow(worker[w].final)]
  /\ worker' = [worker EXCEPT ![w] = RoundOver(w)]
  /\ UNCHANGED <<job, used, reserved, stolen, faults>>

\* RuntimeError: not leased, or expired; the loop goes on
FinishRefused(w) ==
  /\ worker[w].pc = "finish"
  /\ \/ item[worker[w].item].status # "TESTING"
     \/ item[worker[w].item].owner = w /\ ~Holds(w, worker[w].item)
  /\ worker' = [worker EXCEPT ![w] = RoundOver(w)]
  /\ UNCHANGED <<item, job, used, reserved, stolen, faults>>

\* PermissionError is no RuntimeError: it ends the pass
FinishForbidden(w) ==
  /\ worker[w].pc = "finish"
  /\ item[worker[w].item].status = "TESTING" /\ item[worker[w].item].owner # w
  /\ worker' = [worker EXCEPT ![w] = Idle]
  /\ UNCHANGED <<item, job, used, reserved, stolen, faults>>

(***************************************************************************)
(* Time and crashes                                                        *)
(***************************************************************************)
\* a pass that outlives the leases it gives is a pause, and bounded
Outlives(w) == worker[w].pc # "idle" /\ worker[w].age + 1 >= LeaseTime
Tick ==
  /\ \A w \in Workers : worker[w].pc # "idle" => worker[w].age < MaxAge
  /\ \/ (\A w \in Workers : ~Outlives(w)) /\ faults' = faults
     \/ (\E w \in Workers : Outlives(w)) /\ faults < MaxFaults /\ faults' = faults + 1
  /\ worker' = [w \in Workers |->
       IF worker[w].pc = "idle" THEN worker[w]
       ELSE [worker[w] EXCEPT !.age = worker[w].age + 1]]
  /\ item' = [i \in Items |->
       IF item[i].status = "TESTING"
       THEN [item[i] EXCEPT !.left = Later(item[i].left - 1)] ELSE item[i]]
  /\ UNCHANGED <<job, used, reserved, stolen>>

Crash(w) ==
  /\ faults < MaxFaults
  /\ worker[w].pc # "idle"
  /\ faults' = faults + 1
  /\ worker' = [worker EXCEPT ![w] = Idle]
  /\ UNCHANGED <<item, job, used, reserved, stolen>>

Step(w) ==
  \/ BeginPass(w) \/ ReleaseExpired(w) \/ PickItem(w) \/ NothingToPick(w)
  \/ ClaimItem(w) \/ ClaimMissed(w)
  \/ \E class \in Classes : ProcessItem(w, class)
  \/ \E outcome \in Outcomes : ProcessRaises(w, outcome)
  \/ ProcessRefused(w)
  \/ ReadJob(w) \/ WriteJob(w) \/ QueueNext(w) \/ NoNextTrial(w) \/ Assess(w)
  \/ FinishItem(w) \/ FinishRefused(w) \/ FinishForbidden(w)

Next ==
  \/ \E w \in Workers : Step(w) \/ Crash(w)
  \/ \E i \in Others : Submit(i)
  \/ Tick

Spec == Init /\ [][Next]_vars

\* a process that is not dead goes on, and starts the next pass on schedule;
\* time passes
FairSpec == Spec /\ (\A w \in Workers : WF_vars(Step(w))) /\ WF_vars(Tick)

(***************************************************************************)
(* Properties                                                              *)
(***************************************************************************)
\* Every variable keeps its type.
TypeOK ==
  /\ item \in [Items -> Rows]
  /\ job \in Jobs
  /\ used \in 0 .. TotalLimit
  /\ reserved \in SUBSET Items
  /\ worker \in [Workers -> Locals]
  /\ stolen \in BOOLEAN
  /\ faults \in 0 .. MaxFaults

\* The experiment budget counts every reservation key once, whatever was
\* rolled back, retried or taken over; a COMPLETED item is paid for, and an
\* item that failed or is still to be decided has spent nothing.
ChargedOnce ==
  /\ used = Cardinality(reserved)
  /\ \A i \in Items : /\ item[i].status = "COMPLETED" => i \in reserved
                      /\ i \in reserved => item[i].status \in {"COMPLETED", "REJECTED"}

\* While no lease was ever taken over, the campaign tells of every trial what
\* its queue item tells: the decision of a decided item, no decision of an
\* item that nobody works on, and a planned trial has no item.
CampaignAgrees ==
  ~stolen => \A t \in TrialItems :
    /\ item[t].status = "COMPLETED" => job.trial[t] = "VALIDATION_QUALIFIED"
    /\ item[t].status = "FAILED" => job.trial[t] = "SOFTWARE_OR_INPUT_ERROR"
    /\ item[t].status = "REJECTED" => job.trial[t] \in Classes \ {"VALIDATION_QUALIFIED"}
    /\ item[t].status = "PENDING" => job.trial[t] = "RUNNING"
    /\ item[t].status = "ABSENT" => job.trial[t] = "PLANNED"

\* A decided item stays as it is, and an item is decided only by a step of a
\* worker that still has the lease it claimed the item under: a worker whose
\* lease was released decides nothing, not even after it got a late answer.
DecidedByHolder ==
  [][\A i \in Items :
       /\ item[i].status \in Decided => item'[i] = item[i]
       /\ item[i].status = "TESTING" /\ item'[i].status \in Decided =>
            \E w \in Workers : /\ worker'[w] # worker[w]
                               /\ worker[w].item = i
                               /\ ~worker[w].lost]_vars

\* A queue with work in it is worked off: the lease of a dead or slow worker
\* expires and another pass takes the item, until every item that was put in
\* is decided.
QueueDrains ==
  (\E i \in Items : item[i].status = "PENDING")
    ~> (\A i \in Items : item[i].status \in Decided \cup {"ABSENT"})

\* process_pending: "The storage lease owner remains authoritative; a later
\* cycle will release and reclaim it safely." An item whose processing was
\* committed as COMPLETED is a qualified trial of its campaign.
CompletedIsQualified ==
  \A t \in TrialItems : item[t].status = "COMPLETED" => job.trial[t] = "VALIDATION_QUALIFIED"
=============================================================================
