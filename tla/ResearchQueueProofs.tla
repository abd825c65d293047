------------------------- MODULE ResearchQueueProofs -------------------------
(***************************************************************************)
(* Proofs about ResearchQueue: QueueInv is inductive for every set of      *)
(* workers and items, every lease time and every bound.  With it the queue *)
(* keeps its types, the budget counts each key once, and only the holder   *)
(* of a lease decides an item.  CampaignInv, inductive beside it, says that*)
(* the campaign and the queue agree while no lease is taken over.          *)
(***************************************************************************)
EXTENDS ResearchQueue, TLAPS, FiniteSetTheorems

-----------------------------------------------------------------------------
\* The inductive invariant.

\* An item is claimed between its choice and the end of its round.
Claimed == {"process", "read", "write", "next", "final", "finish"}
ItemsOfWorkers ==
    \A w \in Workers :
        /\ worker[w].pc \in Claimed \cup {"cas"} => worker[w].item \in Items
        /\ worker[w].pc \notin Claimed \cup {"cas"} => worker[w].item = NoItem
        /\ worker[w].pc \in {"write", "next", "final"} => worker[w].item \in TrialItems
        /\ worker[w].pc \in {"claim", "pick", "cas"} => worker[w].quota > 0

\* Only a leased row has an owner.
OwnersOfRows == \A i \in Items : item[i].status # "TESTING" => item[i].owner = NoOwner

\* A lost claim is not the worker's any more: the row is free, or leased to
\* another; nothing is lost before it is claimed.
LostIsFreed ==
    \A w \in Workers :
        /\ worker[w].lost => /\ worker[w].pc \in Claimed
                             /\ item[worker[w].item].owner # w
        /\ worker[w].pc = "cas" => item[worker[w].item].owner # w

QueueInv == TypeOK /\ ItemsOfWorkers /\ OwnersOfRows /\ LostIsFreed /\ ChargedOnce

USE QueueAssumption

-----------------------------------------------------------------------------
\* Types of the documents and rows.

LEMMA FirstJobTyped == FirstJob \in Jobs
BY DEF FirstJob, Jobs, Classes

LEMMA IdleTyped == Idle \in Locals
BY FirstJobTyped DEF Idle, Locals, Classes

LEMMA FreshTyped == [Idle EXCEPT !.pc = "claim", !.quota = MaxItems] \in Locals
<1>1. MaxItems \in 0 .. MaxItems
  OBVIOUS
<1>2. ASSUME NEW l \in Locals
      PROVE  [l EXCEPT !.pc = "claim", !.quota = MaxItems] \in Locals
  BY <1>1 DEF Locals
<1> QED BY <1>2, IdleTyped

LEMMA ClassifiedTyped ==
    ASSUME NEW doc \in Jobs, NEW i, NEW class \in Classes
    PROVE  Classified(doc, i, class) \in Jobs
<1>1. StatusAfter(class) \in {"RUNNING", "WAITING_FOR_DATA", "SOFTWARE_OR_INPUT_ERROR"}
  BY DEF StatusAfter
<1>2. [doc.trial EXCEPT ![i] = class] \in [TrialItems -> {"PLANNED", "RUNNING"} \cup Classes]
  BY DEF Jobs
<1> QED BY <1>1, <1>2 DEF Classified, Jobs

LEMMA NextQueuedTyped == \A doc \in Jobs : NextQueued(doc) \in Jobs
BY DEF NextQueued, Jobs

LEMMA FinishedTyped == \A doc \in Jobs : Finished(doc) \in Jobs
BY DEF Finished, Jobs

LEMMA AdvancedTyped ==
    ASSUME NEW doc \in Jobs, NEW i, NEW class \in Classes
    PROVE  Advanced(doc, i, class) \in Jobs
BY ClassifiedTyped, NextQueuedTyped, FinishedTyped DEF Advanced

LEMMA RowsTyped ==
    /\ PendingRow \in Rows
    /\ \A status \in Decided \cup {"ABSENT"} : DecidedRow(status) \in Rows
    /\ \A w \in Workers : worker[w].age \in Nat => LeasedRow(w) \in Rows
BY DEF PendingRow, DecidedRow, LeasedRow, Rows, Lefts, Later, Decided

-----------------------------------------------------------------------------
\* What the helpers keep.

\* Enqueuing trials turns absent rows into pending ones.
LEMMA EnqueueRows ==
    ASSUME NEW rows \in [Items -> Rows], NEW trials
    PROVE  /\ WithTrials(rows, trials) \in [Items -> Rows]
           /\ \A i \in Items :
                \/ WithTrials(rows, trials)[i] = rows[i]
                \/ rows[i].status = "ABSENT" /\ WithTrials(rows, trials)[i] = PendingRow
BY RowsTyped DEF WithTrials

\* A round that is over leaves the worker without an item.
LEMMA RoundOverTyped ==
    ASSUME NEW w \in Workers, worker[w] \in Locals
    PROVE  /\ RoundOver(w) \in Locals
           /\ RoundOver(w).pc = "claim" => RoundOver(w).quota > 0
           /\ RoundOver(w).item = NoItem /\ ~RoundOver(w).lost
           /\ RoundOver(w).pc \in {"idle", "claim"}
<1>1. CASE worker[w].quota = 0
  <2>1. RoundOver(w) = Idle
    BY <1>1 DEF RoundOver
  <2> QED BY <2>1, IdleTyped DEF Idle
<1>2. CASE worker[w].quota # 0
  <2>1. RoundOver(w) = [Idle EXCEPT !.pc = "claim", !.age = worker[w].age, !.quota = worker[w].quota]
    BY <1>2 DEF RoundOver
  <2>2. worker[w].age \in 0 .. MaxAge /\ worker[w].quota \in 0 .. MaxItems
    BY DEF Locals
  <2>3. RoundOver(w) \in Locals
    BY <2>1, <2>2, IdleTyped DEF Locals
  <2> QED BY <1>2, <2>1, <2>2, <2>3 DEF Idle
<1> QED BY <1>1, <1>2

\* A release frees rows and takes claims away, and does nothing else.
LEMMA ReleaseRows ==
    ASSUME item \in [Items -> Rows], NEW age
    PROVE  /\ Released(age) \in [Items -> Rows]
           /\ \A i \in Items :
                \/ Released(age)[i] = item[i] /\ ~Expired(i, age)
                \/ Expired(i, age) /\ item[i].status = "TESTING" /\ Released(age)[i] = PendingRow
BY RowsTyped DEF Released, Expired

LEMMA InitQueueInv == Init => QueueInv
<1> SUFFICES ASSUME Init PROVE QueueInv
  OBVIOUS
<1>1. TypeOK
  <2>1. item \in [Items -> Rows]
    BY RowsTyped DEF Init
  <2>2. job \in Jobs /\ worker \in [Workers -> Locals]
    BY FirstJobTyped, IdleTyped DEF Init
  <2>3. used \in 0 .. TotalLimit /\ faults \in 0 .. MaxFaults
    BY DEF Init
  <2> QED BY <2>1, <2>2, <2>3 DEF Init, TypeOK
<1>2. ItemsOfWorkers
  BY DEF Init, ItemsOfWorkers, Idle, Claimed
<1>3. OwnersOfRows /\ LostIsFreed
  BY DEF Init, OwnersOfRows, LostIsFreed, Idle, PendingRow, DecidedRow
<1>4. ChargedOnce
  BY FS_EmptySet DEF Init, ChargedOnce, PendingRow, DecidedRow
<1> QED BY <1>1, <1>2, <1>3, <1>4 DEF QueueInv

\* A submission adds a pending row, or changes nothing.
LEMMA SubmitKeeps ==
    ASSUME NEW j \in Items, QueueInv, Submit(j)
    PROVE  QueueInv'
<1> USE DEF QueueInv, Submit
<1>1. TypeOK'
  BY RowsTyped DEF TypeOK
<1>2. ItemsOfWorkers'
  BY DEF ItemsOfWorkers
<1>3. OwnersOfRows'
  BY DEF OwnersOfRows, TypeOK, PendingRow
<1>4. LostIsFreed'
  BY RowsTyped DEF LostIsFreed, ItemsOfWorkers, TypeOK, PendingRow, OwnersOfRows, Claimed
<1>5. ChargedOnce'
  BY DEF ChargedOnce, TypeOK, PendingRow, Decided
<1> QED BY <1>1, <1>2, <1>3, <1>4, <1>5

\* The release at the start of a pass takes expired claims away.
LEMMA BeginPassKeeps ==
    ASSUME NEW w \in Workers, QueueInv, BeginPass(w)
    PROVE  QueueInv'
<1> USE DEF QueueInv, BeginPass
<1>1. TypeOK'
  <2>1. worker[w] \in Locals
    BY DEF TypeOK
  <2>2. [Idle EXCEPT !.pc = "claim", !.quota = MaxItems] \in Locals
    BY FreshTyped
  <2>3. worker' \in [Workers -> Locals]
    <3> SUFFICES ASSUME NEW v \in Workers PROVE worker'[v] \in Locals
      BY DEF AfterRelease
    <3>1. worker[v] \in Locals /\ LosesClaim(v, 0) \in BOOLEAN
      BY DEF TypeOK, LosesClaim
    <3>2. [worker[v] EXCEPT !.lost = worker[v].lost \/ LosesClaim(v, 0)] \in Locals
      BY <3>1 DEF Locals
    <3> QED BY <2>2, <3>2 DEF AfterRelease
  <2>4. (stolen \/ \E i \in Items : Expired(i, 0)) \in BOOLEAN
    BY DEF TypeOK
  <2> QED BY <2>3, <2>4, ReleaseRows DEF TypeOK
<1>2. ItemsOfWorkers'
  BY DEF TypeOK, Locals, ItemsOfWorkers, Claimed, Idle, AfterRelease
<1>3. OwnersOfRows'
  BY ReleaseRows DEF TypeOK, OwnersOfRows, PendingRow
<1>4. LostIsFreed'
  <2> SUFFICES ASSUME NEW v \in Workers
               PROVE  /\ worker'[v].lost => /\ worker'[v].pc \in Claimed
                                            /\ item'[worker'[v].item].owner # v
                      /\ worker'[v].pc = "cas" => item'[worker'[v].item].owner # v
    BY DEF LostIsFreed
  <2>1. CASE v = w
    <3>1. worker'[w].pc # "cas" /\ worker'[w].lost = worker[w].lost /\ ~worker[w].lost
      BY DEF TypeOK, Locals, LostIsFreed, AfterRelease, Idle, Claimed
    <3> QED BY <2>1, <3>1
  <2>2. CASE v # w /\ worker[v].item \in Items
    <3>1. /\ worker'[v].pc = worker[v].pc /\ worker'[v].item = worker[v].item
          /\ worker'[v].lost = (worker[v].lost \/ LosesClaim(v, 0))
      BY <2>2 DEF TypeOK, Locals, AfterRelease
    <3>2. item'[worker[v].item].owner = v => /\ item[worker[v].item].owner = v
                                             /\ ~Expired(worker[v].item, 0)
      BY <2>2, ReleaseRows DEF TypeOK, PendingRow
    <3>3. LosesClaim(v, 0) => worker[v].pc \in Claimed
      BY <2>2 DEF LosesClaim, LostIsFreed, ItemsOfWorkers
    <3> QED BY <2>2, <3>1, <3>2, <3>3 DEF LostIsFreed, LosesClaim
  <2>3. CASE v # w /\ worker[v].item \notin Items
    <3>1. worker'[v].pc = worker[v].pc /\ worker[v].pc \notin Claimed \cup {"cas"}
      BY <2>3 DEF TypeOK, Locals, AfterRelease, ItemsOfWorkers
    <3>2. worker'[v].lost = worker[v].lost
      BY <2>3 DEF TypeOK, Locals, AfterRelease, LosesClaim
    <3> QED BY <3>1, <3>2 DEF LostIsFreed
  <2> QED BY <2>1, <2>2, <2>3
<1>5. ChargedOnce'
  BY ReleaseRows DEF ChargedOnce, TypeOK, PendingRow, Expired
<1> QED BY <1>1, <1>2, <1>3, <1>4, <1>5

\* So does the release before a claim.
LEMMA ReleaseExpiredKeeps ==
    ASSUME NEW w \in Workers, QueueInv, ReleaseExpired(w)
    PROVE  QueueInv'
<1> USE DEF QueueInv, ReleaseExpired
<1>1. TypeOK'
  <2>1. worker[w] \in Locals
    BY DEF TypeOK
  <2>2. [worker[w] EXCEPT !.pc = "pick"] \in Locals
    BY <2>1 DEF Locals
  <2>3. worker' \in [Workers -> Locals]
    <3> SUFFICES ASSUME NEW v \in Workers PROVE worker'[v] \in Locals
      BY DEF AfterRelease
    <3>1. worker[v] \in Locals /\ LosesClaim(v, worker[w].age) \in BOOLEAN
      BY DEF TypeOK, LosesClaim
    <3>2. [worker[v] EXCEPT !.lost = worker[v].lost \/ LosesClaim(v, worker[w].age)] \in Locals
      BY <3>1 DEF Locals
    <3> QED BY <2>2, <3>2 DEF AfterRelease
  <2>4. (stolen \/ \E i \in Items : Expired(i, worker[w].age)) \in BOOLEAN
    BY DEF TypeOK
  <2> QED BY <2>3, <2>4, ReleaseRows DEF TypeOK
<1>2. ItemsOfWorkers'
  BY DEF TypeOK, Locals, ItemsOfWorkers, Claimed, Idle, AfterRelease
<1>3. OwnersOfRows'
  BY ReleaseRows DEF TypeOK, OwnersOfRows, PendingRow
<1>4. LostIsFreed'
  <2> SUFFICES ASSUME NEW v \in Workers
               PROVE  /\ worker'[v].lost => /\ worker'[v].pc \in Claimed
                                            /\ item'[worker'[v].item].owner # v
                      /\ worker'[v].pc = "cas" => item'[worker'[v].item].owner # v
    BY DEF LostIsFreed
  <2>1. CASE v = w
    <3>1. worker'[w].pc # "cas" /\ worker'[w].lost = worker[w].lost /\ ~worker[w].lost
      BY DEF TypeOK, Locals, LostIsFreed, AfterRelease, Idle, Claimed
    <3> QED BY <2>1, <3>1
  <2>2. CASE v # w /\ worker[v].item \in Items
    <3>1. /\ worker'[v].pc = worker[v].pc /\ worker'[v].item = worker[v].item
          /\ worker'[v].lost = (worker[v].lost \/ LosesClaim(v, worker[w].age))
      BY <2>2 DEF TypeOK, Locals, AfterRelease
    <3>2. item'[worker[v].item].owner = v => /\ item[worker[v].item].owner = v
                                             /\ ~Expired(worker[v].item, worker[w].age)
      BY <2>2, ReleaseRows DEF TypeOK, PendingRow
    <3>3. LosesClaim(v, worker[w].age) => worker[v].pc \in Claimed
      BY <2>2 DEF LosesClaim, LostIsFreed, ItemsOfWorkers
    <3> QED BY <2>2, <3>1, <3>2, <3>3 DEF LostIsFreed, LosesClaim
  <2>3. CASE v # w /\ worker[v].item \notin Items
    <3>1. worker'[v].pc = worker[v].pc /\ worker[v].pc \notin Claimed \cup {"cas"}
      BY <2>3 DEF TypeOK, Locals, AfterRelease, ItemsOfWorkers
    <3>2. worker'[v].lost = worker[v].lost
      BY <2>3 DEF TypeOK, Locals, AfterRelease, LosesClaim
    <3> QED BY <3>1, <3>2 DEF LostIsFreed
  <2> QED BY <2>1, <2>2, <2>3
<1>5. ChargedOnce'
  BY ReleaseRows DEF ChargedOnce, TypeOK, PendingRow, Expired
<1> QED BY <1>1, <1>2, <1>3, <1>4, <1>5

\* A pending row has no owner.
LEMMA PickItemKeeps ==
    ASSUME NEW w \in Workers, QueueInv, PickItem(w)
    PROVE  QueueInv'
<1> USE DEF QueueInv, PickItem
<1>1. TypeOK'
  <2>1. worker[w] \in Locals /\ job \in Jobs
    BY DEF TypeOK
  <2>a. PICK i \in Items : worker' = [worker EXCEPT ![w] = [worker[w] EXCEPT !.pc = "cas", !.item = i]]
    OBVIOUS
  <2>b. [worker[w] EXCEPT !.pc = "cas", !.item = i] \in Locals
    BY <2>1 DEF Locals, Classes, Outcomes
  <2>2. worker' \in [Workers -> Locals]
    BY <2>a, <2>b DEF TypeOK
  <2> QED BY <2>2 DEF TypeOK
<1>2. ItemsOfWorkers'
  BY DEF TypeOK, Locals, ItemsOfWorkers, Claimed, Idle
<1>3. OwnersOfRows'
  BY DEF OwnersOfRows
<1>4. LostIsFreed'
  BY DEF TypeOK, Locals, LostIsFreed, OwnersOfRows, ItemsOfWorkers, Claimed, Idle
<1>5. ChargedOnce'
  BY DEF ChargedOnce
<1> QED BY <1>1, <1>2, <1>3, <1>4, <1>5

\* An empty queue ends the pass.
LEMMA NothingToPickKeeps ==
    ASSUME NEW w \in Workers, QueueInv, NothingToPick(w)
    PROVE  QueueInv'
<1> USE DEF QueueInv, NothingToPick
<1>1. TypeOK'
  <2>1. worker[w] \in Locals /\ job \in Jobs
    BY DEF TypeOK
  <2>2. worker' \in [Workers -> Locals]
    BY <2>1, IdleTyped DEF TypeOK, Locals, Decided, Classes
  <2> QED BY <2>2 DEF TypeOK
<1>2. ItemsOfWorkers'
  BY DEF TypeOK, Locals, ItemsOfWorkers, Claimed, Idle
<1>3. OwnersOfRows'
  BY DEF OwnersOfRows
<1>4. LostIsFreed'
  BY DEF TypeOK, Locals, LostIsFreed, OwnersOfRows, ItemsOfWorkers, Claimed, Idle
<1>5. ChargedOnce'
  BY DEF ChargedOnce
<1> QED BY <1>1, <1>2, <1>3, <1>4, <1>5

\* The claim gives the row to the worker.
LEMMA ClaimItemKeeps ==
    ASSUME NEW w \in Workers, QueueInv, ClaimItem(w)
    PROVE  QueueInv'
<1> USE DEF QueueInv, ClaimItem
<1>1. TypeOK'
  <2>1. worker[w] \in Locals /\ worker[w].quota - 1 \in 0 .. MaxItems
    BY DEF TypeOK, Locals, ItemsOfWorkers
  <2>2. [worker[w] EXCEPT !.pc = "process", !.quota = worker[w].quota - 1] \in Locals
    BY <2>1 DEF Locals
  <2>3. LeasedRow(w) \in Rows
    BY <2>1, RowsTyped DEF Locals
  <2> QED BY <2>2, <2>3 DEF TypeOK
<1>2. ItemsOfWorkers'
  BY DEF TypeOK, Locals, ItemsOfWorkers, Claimed
<1>3. OwnersOfRows'
  BY RowsTyped DEF TypeOK, Rows, OwnersOfRows, LeasedRow
<1>4. LostIsFreed'
  <2> SUFFICES ASSUME NEW v \in Workers
               PROVE  /\ worker'[v].lost => /\ worker'[v].pc \in Claimed
                                            /\ item'[worker'[v].item].owner # v
                      /\ worker'[v].pc = "cas" => item'[worker'[v].item].owner # v
    BY DEF LostIsFreed
  <2>1. CASE v = w
    <3>1. worker'[w].pc # "cas" /\ worker'[w].lost = worker[w].lost /\ ~worker[w].lost
      BY DEF TypeOK, Locals, LostIsFreed, Claimed
    <3> QED BY <2>1, <3>1
  <2>2. CASE v # w
    BY <2>2 DEF TypeOK, Locals, LostIsFreed, ItemsOfWorkers, Claimed, LeasedRow
  <2> QED BY <2>1, <2>2
<1>5. ChargedOnce'
  BY DEF ChargedOnce, TypeOK, ItemsOfWorkers, LeasedRow
<1> QED BY <1>1, <1>2, <1>3, <1>4, <1>5

\* A lost race ends the pass.
LEMMA ClaimMissedKeeps ==
    ASSUME NEW w \in Workers, QueueInv, ClaimMissed(w)
    PROVE  QueueInv'
<1> USE DEF QueueInv, ClaimMissed
<1>1. TypeOK'
  <2>1. worker[w] \in Locals /\ job \in Jobs
    BY DEF TypeOK
  <2>2. worker' \in [Workers -> Locals]
    BY <2>1, IdleTyped DEF TypeOK, Locals, Decided, Classes
  <2> QED BY <2>2 DEF TypeOK
<1>2. ItemsOfWorkers'
  BY DEF TypeOK, Locals, ItemsOfWorkers, Claimed, Idle
<1>3. OwnersOfRows'
  BY DEF OwnersOfRows
<1>4. LostIsFreed'
  BY DEF TypeOK, Locals, LostIsFreed, OwnersOfRows, ItemsOfWorkers, Claimed, Idle
<1>5. ChargedOnce'
  BY DEF ChargedOnce
<1> QED BY <1>1, <1>2, <1>3, <1>4, <1>5

\* What a commit of the processing does to the rows.
LEMMA ProcessRows ==
    ASSUME NEW w \in Workers, NEW class \in Classes, QueueInv, ProcessItem(w, class)
    PROVE  /\ worker[w].item \in Items
           /\ item[worker[w].item].status = "TESTING"
           /\ item[worker[w].item].owner = w
           /\ item' \in [Items -> Rows]
           /\ \E status \in {"COMPLETED", "REJECTED"} : item'[worker[w].item] = DecidedRow(status)
           /\ \A i \in Items \ {worker[w].item} :
                \/ item'[i] = item[i]
                \/ item[i].status = "ABSENT" /\ item'[i] = PendingRow
<1> DEFINE i == worker[w].item
           status == IF class = "VALIDATION_QUALIFIED" THEN "COMPLETED" ELSE "REJECTED"
           rows == [item EXCEPT ![i] = DecidedRow(status)]
           trials == Enqueued(job, Advanced(job, i, class))
<1>1. i \in Items /\ item[i].status = "TESTING" /\ item[i].owner = w
  BY DEF QueueInv, ItemsOfWorkers, ProcessItem, Claimed, Holds
<1>2. rows \in [Items -> Rows] /\ rows[i] = DecidedRow(status)
  BY <1>1, RowsTyped DEF QueueInv, TypeOK, Decided
<1>3. item' = WithTrials(rows, trials)
  BY DEF ProcessItem
<1>4. rows[i].status # "ABSENT"
  BY <1>2 DEF DecidedRow
<1> HIDE DEF trials
<1>5. /\ item' \in [Items -> Rows]
      /\ \A j \in Items : \/ item'[j] = rows[j]
                          \/ rows[j].status = "ABSENT" /\ item'[j] = PendingRow
  BY <1>2, <1>3, EnqueueRows
<1>6. item'[i] = DecidedRow(status)
  BY <1>1, <1>2, <1>4, <1>5
<1>7. \A j \in Items \ {i} : rows[j] = item[j]
  BY DEF QueueInv, TypeOK
<1> QED BY <1>1, <1>5, <1>6, <1>7

\* The commit pays for the item and decides it.
LEMMA ProcessItemKeeps ==
    ASSUME NEW w \in Workers, NEW class \in Classes, QueueInv, ProcessItem(w, class)
    PROVE  QueueInv'
<1> USE DEF QueueInv
<1>a. /\ worker[w].item \in Items
      /\ item[worker[w].item].status = "TESTING" /\ item[worker[w].item].owner = w
      /\ item' \in [Items -> Rows]
      /\ \E status \in {"COMPLETED", "REJECTED"} : item'[worker[w].item] = DecidedRow(status)
      /\ \A i \in Items \ {worker[w].item} :
           \/ item'[i] = item[i]
           \/ item[i].status = "ABSENT" /\ item'[i] = PendingRow
  BY ProcessRows
<1>b. \A i \in Items :
        \/ item'[i].owner = NoOwner /\ item'[i].status \in Decided \cup {"PENDING"}
        \/ item'[i] = item[i]
  BY <1>a DEF PendingRow, DecidedRow, Decided
<1>1. TypeOK'
  <2>1. worker[w] \in Locals /\ job \in Jobs
    BY DEF TypeOK
  <2>2. worker' \in [Workers -> Locals]
    BY <2>1, RoundOverTyped DEF TypeOK, ProcessItem
  <2>3. job' \in Jobs
    BY <2>1, AdvancedTyped DEF ProcessItem
  <2>4. reserved' \in SUBSET Items /\ used' \in 0 .. TotalLimit
    <3>1. worker[w].item \in Items /\ CanReserve(worker[w].item)
      BY ProcessRows DEF ProcessItem
    <3> QED BY <3>1 DEF TypeOK, CanReserve, ProcessItem
  <2> QED BY <2>2, <2>3, <2>4, <1>a DEF TypeOK, ProcessItem
<1>2. ItemsOfWorkers'
  BY RoundOverTyped DEF TypeOK, ItemsOfWorkers, Claimed, ProcessItem
<1>3. OwnersOfRows'
  BY <1>b DEF OwnersOfRows, Decided
<1>4. LostIsFreed'
  <2> SUFFICES ASSUME NEW v \in Workers
               PROVE  /\ worker'[v].lost => /\ worker'[v].pc \in Claimed
                                            /\ item'[worker'[v].item].owner # v
                      /\ worker'[v].pc = "cas" => item'[worker'[v].item].owner # v
    BY DEF LostIsFreed
  <2>1. CASE v = w
    BY <2>1, RoundOverTyped DEF TypeOK, ProcessItem
  <2>2. CASE v # w /\ worker[v].pc \in Claimed \cup {"cas"}
    <3>1. worker'[v] = worker[v] /\ worker[v].item \in Items
      BY <2>2 DEF TypeOK, ItemsOfWorkers, ProcessItem
    <3>2. item'[worker[v].item].owner \in {item[worker[v].item].owner, NoOwner}
      BY <3>1, <1>b
    <3> QED BY <3>1, <3>2 DEF LostIsFreed
  <2>3. CASE v # w /\ worker[v].pc \notin Claimed \cup {"cas"}
    BY <2>3 DEF TypeOK, LostIsFreed, ProcessItem
  <2> QED BY <2>1, <2>2, <2>3
<1>5. ChargedOnce'
  <2>1. worker[w].item \notin reserved
    BY <1>a DEF ChargedOnce
  <2>2. IsFiniteSet(reserved)
    BY ItemsFinite, FS_Subset DEF TypeOK
  <2>3. used' = Cardinality(reserved')
    BY <2>1, <2>2, FS_AddElement DEF ChargedOnce, ProcessItem
  <2>4. reserved' = reserved \cup {worker[w].item}
    BY DEF ProcessItem
  <2>5. item'[worker[w].item].status \in {"COMPLETED", "REJECTED"}
    BY <1>a DEF DecidedRow
  <2>6. \A i \in Items \ {worker[w].item} : \/ item'[i] = item[i]
                                            \/ i \notin reserved /\ item'[i].status = "PENDING"
    BY <1>a DEF ChargedOnce, PendingRow
  <2> QED BY <2>3, <2>4, <2>5, <2>6 DEF ChargedOnce
<1> QED BY <1>1, <1>2, <1>3, <1>4, <1>5

\* A rollback changes nothing but the worker.
LEMMA ProcessRaisesKeeps ==
    ASSUME NEW w \in Workers, NEW outcome \in Outcomes, QueueInv, ProcessRaises(w, outcome)
    PROVE  QueueInv'
<1> USE DEF QueueInv, ProcessRaises, Raised
<1>1. TypeOK'
  <2>1. worker[w] \in Locals /\ job \in Jobs
    BY DEF TypeOK
  <2>2. outcome[1] \in {"REJECTED", "FAILED"} /\ outcome[2] \in Classes
    BY DEF Outcomes, Classes
  <2>3. [worker[w] EXCEPT !.pc = "read", !.final = outcome[1], !.class = outcome[2]] \in Locals
    BY <2>1, <2>2 DEF Locals
  <2> QED BY <2>3 DEF TypeOK
<1>2. ItemsOfWorkers'
  BY DEF TypeOK, Locals, ItemsOfWorkers, Claimed, Idle, Outcomes
<1>3. OwnersOfRows'
  BY DEF OwnersOfRows
<1>4. LostIsFreed'
  BY DEF TypeOK, Locals, LostIsFreed, OwnersOfRows, ItemsOfWorkers, Claimed, Idle, Outcomes
<1>5. ChargedOnce'
  BY DEF ChargedOnce
<1> QED BY <1>1, <1>2, <1>3, <1>4, <1>5

\* Nor does a refused completion.
LEMMA ProcessRefusedKeeps ==
    ASSUME NEW w \in Workers, QueueInv, ProcessRefused(w)
    PROVE  QueueInv'
<1> USE DEF QueueInv, ProcessRefused, Raised
<1>1. TypeOK'
  <2>1. worker[w] \in Locals /\ job \in Jobs
    BY DEF TypeOK
  <2>2. worker' \in [Workers -> Locals]
    BY <2>1 DEF TypeOK, Locals, Decided, Classes
  <2> QED BY <2>2 DEF TypeOK
<1>2. ItemsOfWorkers'
  BY DEF TypeOK, Locals, ItemsOfWorkers, Claimed, Idle
<1>3. OwnersOfRows'
  BY DEF OwnersOfRows
<1>4. LostIsFreed'
  BY DEF TypeOK, Locals, LostIsFreed, OwnersOfRows, ItemsOfWorkers, Claimed, Idle
<1>5. ChargedOnce'
  BY DEF ChargedOnce
<1> QED BY <1>1, <1>2, <1>3, <1>4, <1>5

\* Reading the document changes the worker only.

\* The worker keeps the document it will write.
LEMMA ReadJobKeeps ==
    ASSUME NEW w \in Workers, QueueInv, ReadJob(w)
    PROVE  QueueInv'
<1> USE DEF QueueInv, ReadJob
<1>1. TypeOK'
  <2>1. worker[w] \in Locals /\ job \in Jobs /\ worker[w].class \in Classes
    BY DEF TypeOK, Locals
  <2>2. Classified(job, worker[w].item, worker[w].class) \in Jobs
    BY <2>1, ClassifiedTyped
  <2>3. [worker[w] EXCEPT !.pc = "write", !.seen = Classified(job, worker[w].item, worker[w].class)] \in Locals
    BY <2>1, <2>2 DEF Locals
  <2>4. [worker[w] EXCEPT !.pc = "finish"] \in Locals
    BY <2>1 DEF Locals
  <2> QED BY <2>3, <2>4 DEF TypeOK
<1>2. ItemsOfWorkers'
  BY DEF TypeOK, Locals, ItemsOfWorkers, Claimed, Records
<1>3. OwnersOfRows'
  BY DEF OwnersOfRows
<1>4. LostIsFreed'
  BY DEF TypeOK, Locals, LostIsFreed, OwnersOfRows, ItemsOfWorkers, Claimed
<1>5. ChargedOnce'
  BY DEF ChargedOnce
<1> QED BY <1>1, <1>2, <1>3, <1>4, <1>5

\* The document is replaced.
LEMMA WriteJobKeeps ==
    ASSUME NEW w \in Workers, QueueInv, WriteJob(w)
    PROVE  QueueInv'
<1> USE DEF QueueInv, WriteJob
<1>1. TypeOK'
  <2>1. worker[w] \in Locals /\ job \in Jobs
    BY DEF TypeOK
  <2>2. worker' \in [Workers -> Locals]
    BY <2>1 DEF TypeOK, Locals, Decided, Classes
  <2>3. job' \in Jobs
    BY <2>1 DEF Locals
  <2> QED BY <2>2, <2>3 DEF TypeOK
<1>2. ItemsOfWorkers'
  BY DEF TypeOK, Locals, ItemsOfWorkers, Claimed, Idle
<1>3. OwnersOfRows'
  BY DEF OwnersOfRows
<1>4. LostIsFreed'
  BY DEF TypeOK, Locals, LostIsFreed, OwnersOfRows, ItemsOfWorkers, Claimed, Idle
<1>5. ChargedOnce'
  BY DEF ChargedOnce
<1> QED BY <1>1, <1>2, <1>3, <1>4, <1>5

\* The next trial gets a row.
LEMMA QueueNextKeeps ==
    ASSUME NEW w \in Workers, QueueInv, QueueNext(w)
    PROVE  QueueInv'
<1> USE DEF QueueInv, QueueNext
<1>1. TypeOK'
  <2>1. [worker[w] EXCEPT !.pc = "finish"] \in Locals /\ job \in Jobs
    BY DEF TypeOK, Locals
  <2> QED BY <2>1, EnqueueRows, NextQueuedTyped DEF TypeOK
<1>2. ItemsOfWorkers'
  BY DEF TypeOK, Locals, ItemsOfWorkers, Claimed
<1>3. OwnersOfRows'
  BY EnqueueRows DEF TypeOK, OwnersOfRows, PendingRow
<1>4. LostIsFreed'
  <2> SUFFICES ASSUME NEW v \in Workers, worker[v].pc \in Claimed \cup {"cas"}
               PROVE  item[worker[v].item].owner # v => item'[worker[v].item].owner # v
    BY DEF TypeOK, Locals, LostIsFreed, Claimed
  <2> QED BY EnqueueRows DEF TypeOK, ItemsOfWorkers, PendingRow
<1>5. ChargedOnce'
  BY EnqueueRows DEF TypeOK, ChargedOnce, PendingRow
<1> QED BY <1>1, <1>2, <1>3, <1>4, <1>5

\* No trial is left.
LEMMA NoNextTrialKeeps ==
    ASSUME NEW w \in Workers, QueueInv, NoNextTrial(w)
    PROVE  QueueInv'
<1> USE DEF QueueInv, NoNextTrial
<1>1. TypeOK'
  <2>1. worker[w] \in Locals /\ job \in Jobs
    BY DEF TypeOK
  <2>2. worker' \in [Workers -> Locals]
    BY <2>1 DEF TypeOK, Locals, Decided, Classes
  <2> QED BY <2>2 DEF TypeOK
<1>2. ItemsOfWorkers'
  BY DEF TypeOK, Locals, ItemsOfWorkers, Claimed, Idle
<1>3. OwnersOfRows'
  BY DEF OwnersOfRows
<1>4. LostIsFreed'
  BY DEF TypeOK, Locals, LostIsFreed, OwnersOfRows, ItemsOfWorkers, Claimed, Idle
<1>5. ChargedOnce'
  BY DEF ChargedOnce
<1> QED BY <1>1, <1>2, <1>3, <1>4, <1>5

\* The assessment replaces the document.
LEMMA AssessKeeps ==
    ASSUME NEW w \in Workers, QueueInv, Assess(w)
    PROVE  QueueInv'
<1> USE DEF QueueInv, Assess
<1>1. TypeOK'
  <2>1. worker[w] \in Locals /\ job \in Jobs
    BY DEF TypeOK
  <2>2. worker' \in [Workers -> Locals]
    BY <2>1 DEF TypeOK, Locals, Decided, Classes
  <2>3. job' \in Jobs
    BY <2>1, FinishedTyped DEF Locals
  <2> QED BY <2>2, <2>3 DEF TypeOK
<1>2. ItemsOfWorkers'
  BY DEF TypeOK, Locals, ItemsOfWorkers, Claimed, Idle
<1>3. OwnersOfRows'
  BY DEF OwnersOfRows
<1>4. LostIsFreed'
  BY DEF TypeOK, Locals, LostIsFreed, OwnersOfRows, ItemsOfWorkers, Claimed, Idle
<1>5. ChargedOnce'
  BY DEF ChargedOnce
<1> QED BY <1>1, <1>2, <1>3, <1>4, <1>5

\* What the completion of a failure does to the rows.
LEMMA FinishRows ==
    ASSUME NEW w \in Workers, QueueInv, FinishItem(w)
    PROVE  /\ worker[w].item \in Items
           /\ item[worker[w].item].status = "TESTING"
           /\ item[worker[w].item].owner = w
           /\ item' \in [Items -> Rows]
           /\ \E status \in {"REJECTED", "FAILED"} : item'[worker[w].item] = DecidedRow(status)
           /\ \A i \in Items \ {worker[w].item} : item'[i] = item[i]
<1>1. worker[w].item \in Items /\ worker[w].final \in {"REJECTED", "FAILED"}
  BY DEF Decided, QueueInv, TypeOK, Locals, ItemsOfWorkers, FinishItem, Claimed
<1>2. item[worker[w].item].status = "TESTING" /\ item[worker[w].item].owner = w
  BY DEF FinishItem, Holds
<1>3. item' = [item EXCEPT ![worker[w].item] = DecidedRow(worker[w].final)]
  BY DEF FinishItem
<1>4. DecidedRow(worker[w].final) \in Rows /\ item \in [Items -> Rows]
  BY <1>1, RowsTyped DEF QueueInv, TypeOK, Decided
<1>5. item'[worker[w].item] = DecidedRow(worker[w].final)
  BY <1>1, <1>3, <1>4
<1>6. item' \in [Items -> Rows] /\ \A i \in Items \ {worker[w].item} : item'[i] = item[i]
  BY <1>3, <1>4, <1>1
<1> QED BY <1>1, <1>2, <1>5, <1>6

\* The holder decides the item; it was never paid for.
LEMMA FinishItemKeeps ==
    ASSUME NEW w \in Workers, QueueInv, FinishItem(w)
    PROVE  QueueInv'
<1> USE DEF QueueInv
<1>a. /\ worker[w].item \in Items
      /\ item[worker[w].item].status = "TESTING" /\ item[worker[w].item].owner = w
      /\ item' \in [Items -> Rows]
      /\ \E status \in {"REJECTED", "FAILED"} : item'[worker[w].item] = DecidedRow(status)
      /\ \A i \in Items \ {worker[w].item} :
           \/ item'[i] = item[i]
           \/ item[i].status = "ABSENT" /\ item'[i] = PendingRow
  BY FinishRows
<1>b. \A i \in Items :
        \/ item'[i].owner = NoOwner /\ item'[i].status \in Decided \cup {"PENDING"}
        \/ item'[i] = item[i]
  BY <1>a DEF PendingRow, DecidedRow, Decided
<1>1. TypeOK'
  BY <1>a, RoundOverTyped DEF TypeOK, FinishItem
<1>2. ItemsOfWorkers'
  BY RoundOverTyped DEF TypeOK, ItemsOfWorkers, Claimed, FinishItem
<1>3. OwnersOfRows'
  BY <1>b DEF OwnersOfRows, Decided
<1>4. LostIsFreed'
  <2> SUFFICES ASSUME NEW v \in Workers
               PROVE  /\ worker'[v].lost => /\ worker'[v].pc \in Claimed
                                            /\ item'[worker'[v].item].owner # v
                      /\ worker'[v].pc = "cas" => item'[worker'[v].item].owner # v
    BY DEF LostIsFreed
  <2>1. CASE v = w
    BY <2>1, RoundOverTyped DEF TypeOK, FinishItem
  <2>2. CASE v # w /\ worker[v].pc \in Claimed \cup {"cas"}
    <3>1. worker'[v] = worker[v] /\ worker[v].item \in Items
      BY <2>2 DEF TypeOK, ItemsOfWorkers, FinishItem
    <3>2. item'[worker[v].item].owner \in {item[worker[v].item].owner, NoOwner}
      BY <3>1, <1>b
    <3> QED BY <3>1, <3>2 DEF LostIsFreed
  <2>3. CASE v # w /\ worker[v].pc \notin Claimed \cup {"cas"}
    BY <2>3 DEF TypeOK, LostIsFreed, FinishItem
  <2> QED BY <2>1, <2>2, <2>3
<1>5. ChargedOnce'
  <2>1. worker[w].item \notin reserved
    BY <1>a DEF ChargedOnce
  <2>2. item'[worker[w].item].status \in {"REJECTED", "FAILED"}
    BY <1>a DEF DecidedRow
  <2>3. \A i \in Items \ {worker[w].item} : \/ item'[i] = item[i]
                                            \/ i \notin reserved /\ item'[i].status = "PENDING"
    BY <1>a DEF ChargedOnce, PendingRow
  <2> QED BY <2>1, <2>2, <2>3 DEF ChargedOnce, FinishItem
<1> QED BY <1>1, <1>2, <1>3, <1>4, <1>5

\* A refused completion changes no row.
LEMMA FinishRefusedKeeps ==
    ASSUME NEW w \in Workers, QueueInv, FinishRefused(w)
    PROVE  QueueInv'
<1> USE DEF QueueInv, FinishRefused
<1>1. TypeOK'
  <2>1. worker[w] \in Locals /\ job \in Jobs
    BY DEF TypeOK
  <2>2. worker' \in [Workers -> Locals]
    BY <2>1, RoundOverTyped DEF TypeOK, Locals, Decided, Classes
  <2> QED BY <2>2 DEF TypeOK
<1>2. ItemsOfWorkers'
  BY RoundOverTyped DEF TypeOK, Locals, ItemsOfWorkers, Claimed, Idle
<1>3. OwnersOfRows'
  BY DEF OwnersOfRows
<1>4. LostIsFreed'
  BY RoundOverTyped DEF TypeOK, Locals, LostIsFreed, OwnersOfRows, ItemsOfWorkers, Claimed, Idle
<1>5. ChargedOnce'
  BY DEF ChargedOnce
<1> QED BY <1>1, <1>2, <1>3, <1>4, <1>5

\* Nor does a forbidden one.
LEMMA FinishForbiddenKeeps ==
    ASSUME NEW w \in Workers, QueueInv, FinishForbidden(w)
    PROVE  QueueInv'
<1> USE DEF QueueInv, FinishForbidden
<1>1. TypeOK'
  <2>1. worker[w] \in Locals /\ job \in Jobs
    BY DEF TypeOK
  <2>2. worker' \in [Workers -> Locals]
    BY <2>1, IdleTyped DEF TypeOK, Locals, Decided, Classes
  <2> QED BY <2>2 DEF TypeOK
<1>2. ItemsOfWorkers'
  BY DEF TypeOK, Locals, ItemsOfWorkers, Claimed, Idle
<1>3. OwnersOfRows'
  BY DEF OwnersOfRows
<1>4. LostIsFreed'
  BY DEF TypeOK, Locals, LostIsFreed, OwnersOfRows, ItemsOfWorkers, Claimed, Idle
<1>5. ChargedOnce'
  BY DEF ChargedOnce
<1> QED BY <1>1, <1>2, <1>3, <1>4, <1>5

\* Time keeps rows and claims.
LEMMA TickKeeps ==
    ASSUME QueueInv, Tick
    PROVE  QueueInv'
<1> USE DEF QueueInv, Tick
<1>1. TypeOK'
  <2>1. worker' \in [Workers -> Locals]
    <3> SUFFICES ASSUME NEW w \in Workers PROVE worker'[w] \in Locals
      OBVIOUS
    <3>1. CASE worker[w].pc = "idle"
      BY <3>1 DEF TypeOK
    <3>2. CASE worker[w].pc # "idle"
      <4>1. worker[w] \in Locals /\ worker[w].age + 1 \in 0 .. MaxAge
        BY <3>2 DEF TypeOK, Locals
      <4>2. [worker[w] EXCEPT !.age = worker[w].age + 1] \in Locals
        BY <4>1 DEF Locals
      <4> QED BY <3>2, <4>2
    <3> QED BY <3>1, <3>2
  <2>2. item' \in [Items -> Rows]
    <3> SUFFICES ASSUME NEW i \in Items PROVE item'[i] \in Rows
      OBVIOUS
    <3>1. item[i] \in Rows /\ Later(item[i].left - 1) \in Lefts
      BY DEF TypeOK, Rows, Lefts, Later
    <3>2. [item[i] EXCEPT !.left = Later(item[i].left - 1)] \in Rows
      BY <3>1 DEF Rows
    <3> QED BY <3>1, <3>2
  <2>3. faults' \in 0 .. MaxFaults
    BY DEF TypeOK
  <2> QED BY <2>1, <2>2, <2>3 DEF TypeOK
<1>2. ItemsOfWorkers'
  BY DEF TypeOK, Locals, ItemsOfWorkers
<1>3. OwnersOfRows'
  BY DEF TypeOK, Rows, OwnersOfRows
<1>4. LostIsFreed'
  <2>1. \A i \in Items : item'[i].owner = item[i].owner
    BY DEF TypeOK, Rows
  <2>2. \A w \in Workers : /\ worker'[w].pc = worker[w].pc /\ worker'[w].item = worker[w].item
                            /\ worker'[w].lost = worker[w].lost
    BY DEF TypeOK, Locals
  <2> QED BY <2>1, <2>2 DEF LostIsFreed, ItemsOfWorkers, Claimed
<1>5. ChargedOnce'
  <2>1. \A i \in Items : item'[i].status = item[i].status
    BY DEF TypeOK, Rows
  <2> QED BY <2>1 DEF ChargedOnce
<1> QED BY <1>1, <1>2, <1>3, <1>4, <1>5

\* A crash frees the worker and leaves its lease.
LEMMA CrashKeeps ==
    ASSUME NEW w \in Workers, QueueInv, Crash(w)
    PROVE  QueueInv'
<1> USE DEF QueueInv, Crash
<1>1. TypeOK'
  BY IdleTyped DEF TypeOK
<1>2. ItemsOfWorkers'
  BY DEF TypeOK, ItemsOfWorkers, Claimed, Idle
<1>3. OwnersOfRows'
  BY DEF OwnersOfRows
<1>4. LostIsFreed'
  BY DEF TypeOK, LostIsFreed, Claimed, Idle
<1>5. ChargedOnce'
  BY DEF ChargedOnce
<1> QED BY <1>1, <1>2, <1>3, <1>4, <1>5

-----------------------------------------------------------------------------
\* Every step keeps the invariant.

LEMMA NextQueueInv == QueueInv /\ [Next]_vars => QueueInv'
<1> SUFFICES ASSUME QueueInv, [Next]_vars PROVE QueueInv'
  OBVIOUS
<1>1. CASE UNCHANGED vars
  BY <1>1 DEF vars, QueueInv, TypeOK, ItemsOfWorkers, OwnersOfRows, LostIsFreed, ChargedOnce
<1>2. ASSUME NEW w \in Workers, Step(w) PROVE QueueInv'
  BY <1>2, BeginPassKeeps,
     ReleaseExpiredKeeps,
     PickItemKeeps,
     NothingToPickKeeps,
     ClaimItemKeeps,
     ClaimMissedKeeps,
     ProcessItemKeeps,
     ProcessRaisesKeeps,
     ProcessRefusedKeeps,
     ReadJobKeeps,
     WriteJobKeeps,
     QueueNextKeeps,
     NoNextTrialKeeps,
     AssessKeeps,
     FinishItemKeeps,
     FinishRefusedKeeps,
     FinishForbiddenKeeps DEF Step
<1>3. ASSUME NEW w \in Workers, Crash(w) PROVE QueueInv'
  BY <1>3, CrashKeeps
<1>4. ASSUME NEW i \in Others, Submit(i) PROVE QueueInv'
  BY <1>4, SubmitKeeps DEF Items
<1>5. CASE Tick
  BY <1>5, TickKeeps
<1> QED BY <1>1, <1>2, <1>3, <1>4, <1>5 DEF Next

\* QueueInv holds in every reachable state.
THEOREM QueueInvariant == Spec => []QueueInv
<1>1. Init => QueueInv
  BY InitQueueInv
<1>2. QueueInv /\ [Next]_vars => QueueInv'
  BY NextQueueInv
<1> QED BY <1>1, <1>2, PTL DEF Spec

\* The rows, the campaign, the budget and the workers keep their types: used
\* never passes TotalLimit.
THEOREM QueueTyped == Spec => []TypeOK
<1>1. QueueInv => TypeOK
  BY DEF QueueInv
<1> QED BY <1>1, QueueInvariant, PTL

\* The budget counts each reservation key once and no failed item is paid for.
THEOREM ChargedOnceHolds == Spec => []ChargedOnce
<1>1. QueueInv => ChargedOnce
  BY DEF QueueInv
<1> QED BY <1>1, QueueInvariant, PTL

-----------------------------------------------------------------------------
\* A worker that decides an item holds its lease.

DecidedByHolderStep ==
    \A i \in Items :
       /\ item[i].status \in Decided => item'[i] = item[i]
       /\ item[i].status = "TESTING" /\ item'[i].status \in Decided =>
            \E w \in Workers : /\ worker'[w] # worker[w]
                               /\ worker[w].item = i
                               /\ ~worker[w].lost

LEMMA StepDecides ==
    ASSUME NEW w \in Workers, QueueInv, Step(w)
    PROVE  DecidedByHolderStep
<1> USE DEF QueueInv
<1>1. CASE BeginPass(w)
  BY <1>1, ReleaseRows DEF BeginPass, DecidedByHolderStep, TypeOK, PendingRow, Decided
<1>2. CASE ReleaseExpired(w)
  BY <1>2, ReleaseRows DEF ReleaseExpired, DecidedByHolderStep, TypeOK, PendingRow, Decided
<1>3. CASE \/ PickItem(w) \/ NothingToPick(w) \/ ClaimMissed(w) \/ ProcessRefused(w)
           \/ \E outcome \in Outcomes : ProcessRaises(w, outcome)
           \/ ReadJob(w) \/ WriteJob(w) \/ NoNextTrial(w) \/ Assess(w)
           \/ FinishRefused(w) \/ FinishForbidden(w)
  <2>1. item' = item
    BY <1>3 DEF PickItem, NothingToPick, ClaimMissed, ProcessRefused, ProcessRaises, ReadJob,
                WriteJob, NoNextTrial, Assess, FinishRefused, FinishForbidden
  <2> QED BY <2>1 DEF DecidedByHolderStep, Decided
<1>4. CASE ClaimItem(w)
  BY <1>4 DEF ClaimItem, DecidedByHolderStep, TypeOK, LeasedRow, Decided
<1>5. CASE \E class \in Classes : ProcessItem(w, class)
  <2>1. PICK class \in Classes : ProcessItem(w, class)
    BY <1>5
  <2>2. ~worker[w].lost
    BY <2>1, ProcessRows DEF LostIsFreed
  <2>3. worker'[w] # worker[w]
    BY <2>1, RoundOverTyped DEF ProcessItem, TypeOK
  <2> QED BY <2>1, <2>2, <2>3, ProcessRows DEF DecidedByHolderStep, PendingRow, Decided
<1>6. CASE QueueNext(w)
  BY <1>6, EnqueueRows DEF QueueNext, DecidedByHolderStep, TypeOK, PendingRow, Decided
<1>7. CASE FinishItem(w)
  <2>1. ~worker[w].lost
    BY <1>7, FinishRows DEF LostIsFreed
  <2>2. worker'[w] # worker[w]
    BY <1>7, RoundOverTyped DEF FinishItem, TypeOK
  <2> QED BY <1>7, <2>1, <2>2, FinishRows DEF DecidedByHolderStep, Decided
<1> QED BY <1>1, <1>2, <1>3, <1>4, <1>5, <1>6, <1>7 DEF Step

\* A decided item never changes, and only a worker that still has its lease
\* decides one, for any number of workers, pauses and crashes.
THEOREM HolderDecides == Spec => DecidedByHolder
<1>1. QueueInv /\ [Next]_vars => [DecidedByHolderStep]_vars
  <2> SUFFICES ASSUME QueueInv, Next PROVE DecidedByHolderStep
    OBVIOUS
  <2>1. ASSUME NEW w \in Workers, Step(w) PROVE DecidedByHolderStep
    BY <2>1, StepDecides
  <2>2. ASSUME NEW w \in Workers, Crash(w) PROVE DecidedByHolderStep
    BY <2>2 DEF Crash, DecidedByHolderStep, Decided
  <2>3. ASSUME NEW i \in Others, Submit(i) PROVE DecidedByHolderStep
    BY <2>3 DEF Submit, DecidedByHolderStep, QueueInv, TypeOK, PendingRow, Decided, Items
  <2>4. CASE Tick
    <3>1. \A i \in Items : /\ item'[i].status = item[i].status
                           /\ item[i].status # "TESTING" => item'[i] = item[i]
      BY <2>4 DEF Tick, QueueInv, TypeOK, Rows
    <3> QED BY <3>1 DEF DecidedByHolderStep, Decided
  <2> QED BY <2>1, <2>2, <2>3, <2>4 DEF Next
<1> QED BY <1>1, QueueInvariant, PTL DEF Spec, DecidedByHolder, DecidedByHolderStep

-----------------------------------------------------------------------------
\* The campaign and the queue.

\* What the campaign tells of a trial with that row; only a planned trial has
\* no row.
Tells(status, told) ==
    /\ status = "COMPLETED" => told = "VALIDATION_QUALIFIED"
    /\ status = "FAILED" => told = "SOFTWARE_OR_INPUT_ERROR"
    /\ status = "REJECTED" => told \in Classes \ {"VALIDATION_QUALIFIED"}
    /\ status = "PENDING" => told = "RUNNING"
    /\ status = "ABSENT" <=> told = "PLANNED"

\* A worker holds the lease of its item; before it writes the campaign its
\* trial runs, afterwards the campaign has the class it writes.
Holding(w) ==
    worker[w].pc \in Claimed =>
        item[worker[w].item].status = "TESTING" /\ item[worker[w].item].owner = w
Rejecting(w) ==
    worker[w].pc \in {"read", "write", "next", "final", "finish"} =>
        /\ worker[w].class # "VALIDATION_QUALIFIED"
        /\ worker[w].final = "FAILED" => worker[w].class = "SOFTWARE_OR_INPUT_ERROR"
Working(w) ==
    worker[w].item \in TrialItems =>
        /\ worker[w].pc \in {"process", "read", "write"} => job.trial[worker[w].item] = "RUNNING"
        /\ worker[w].pc = "write" =>
            worker[w].seen = Classified(job, worker[w].item, worker[w].class)
        /\ worker[w].pc \in {"next", "final", "finish"} =>
            job.trial[worker[w].item] = worker[w].class
Following(w) ==
    worker[w].pc \in {"next", "final"} =>
        /\ worker[w].seen = job
        /\ \A t \in TrialItems : job.trial[t] # "RUNNING"
        /\ \A v \in Workers : worker[v].pc \in {"next", "final"} => v = w

\* One trial of the campaign runs at a time, and none of a finished one.
OneRuns ==
    \A t \in TrialItems : job.trial[t] = "RUNNING" =>
        /\ job.status # "FINISHED"
        /\ \A u \in TrialItems : job.trial[u] = "RUNNING" => u = t

CampaignFacts ==
    /\ \A t \in TrialItems : Tells(item[t].status, job.trial[t])
    /\ \A w \in Workers : Holding(w) /\ Rejecting(w) /\ Working(w) /\ Following(w)
    /\ OneRuns

\* While no lease was taken over.
CampaignInv == ~stolen => CampaignFacts

\* What a worker knows of its item stands.
SameWork(v) ==
    /\ worker'[v].pc = worker[v].pc /\ worker'[v].item = worker[v].item
    /\ worker'[v].seen = worker[v].seen /\ worker'[v].class = worker[v].class
    /\ worker'[v].final = worker[v].final

\* A step of w beside the campaign: the rows still agree with it, and the
\* other workers keep what they know and hold.
BesideCampaign(w) ==
    /\ job' = job
    /\ \A t \in TrialItems : Tells(item'[t].status, job.trial[t])
    /\ \A v \in Workers \ {w} : SameWork(v) /\ Holding(v)'

\* Leases that stand are held by who held them.
LEMMA HoldingKept ==
    ASSUME QueueInv, CampaignFacts, NEW v \in Workers, SameWork(v),
           \A i \in Items : worker[v].pc \in Claimed /\ worker[v].item = i =>
              item'[i].status = item[i].status /\ item'[i].owner = item[i].owner
    PROVE  Holding(v)'
<1>1. worker[v].pc \in Claimed => worker[v].item \in Items
  BY DEF QueueInv, ItemsOfWorkers
<1> QED BY <1>1 DEF Holding, CampaignFacts, SameWork

\* Two workers hold two items.
LEMMA ItemsApart ==
    ASSUME CampaignFacts, NEW v \in Workers, NEW w \in Workers, v # w,
           worker[v].pc \in Claimed, worker[w].pc \in Claimed
    PROVE  worker[v].item # worker[w].item
BY DEF CampaignFacts, Holding

\* What else v knows of the campaign stands when the campaign does.
LEMMA WorkKept ==
    ASSUME CampaignFacts, NEW v \in Workers, SameWork(v), job' = job,
           \A u \in Workers :
              worker'[u].pc \in {"next", "final"} => worker[u].pc \in {"next", "final"}
    PROVE  Rejecting(v)' /\ Working(v)' /\ Following(v)'
<1>1. Rejecting(v)' /\ Working(v)'
  BY DEF Rejecting, Working, CampaignFacts, SameWork
<1>2. Following(v)'
  <2> SUFFICES ASSUME worker'[v].pc \in {"next", "final"}
               PROVE  /\ worker'[v].seen = job'
                      /\ \A t \in TrialItems : job'.trial[t] # "RUNNING"
                      /\ \A u \in Workers : worker'[u].pc \in {"next", "final"} => u = v
    BY DEF Following
  <2>1. Following(v) /\ worker[v].pc \in {"next", "final"}
    BY DEF CampaignFacts, SameWork
  <2> QED BY <2>1 DEF Following, SameWork
<1> QED BY <1>1, <1>2

\* The campaign facts are kept when w keeps its own.
LEMMA BesideKeeps ==
    ASSUME QueueInv, CampaignFacts, NEW w \in Workers, BesideCampaign(w),
           Holding(w)', Rejecting(w)', Working(w)', Following(w)',
           worker'[w].pc \in {"next", "final"} => worker[w].pc \in {"next", "final"}
    PROVE  CampaignFacts'
<1>1. \A t \in TrialItems : Tells(item'[t].status, job'.trial[t])
  BY DEF BesideCampaign
<1>2. OneRuns'
  BY DEF CampaignFacts, OneRuns, BesideCampaign
<1>3. \A u \in Workers :
        worker'[u].pc \in {"next", "final"} => worker[u].pc \in {"next", "final"}
  BY DEF BesideCampaign, SameWork
<1>4. ASSUME NEW v \in Workers \ {w}
      PROVE  Holding(v)' /\ Rejecting(v)' /\ Working(v)' /\ Following(v)'
  BY <1>3, WorkKept DEF BesideCampaign
<1> QED BY <1>1, <1>2, <1>4 DEF CampaignFacts

\* A worker without an item knows nothing that could be wrong.
LEMMA RestingTells ==
    ASSUME NEW w \in Workers, worker'[w].pc \in {"idle", "claim", "pick", "cas"}
    PROVE  Holding(w)' /\ Rejecting(w)' /\ Working(w)' /\ Following(w)'
BY DEF Holding, Rejecting, Working, Following, Claimed

\* A pass begins, chooses, misses or ends, and leaves the campaign alone.
LEMMA RestKeepsCampaign ==
    ASSUME QueueInv, CampaignFacts, NEW w \in Workers, ~stolen',
           \/ BeginPass(w) \/ ReleaseExpired(w) \/ PickItem(w) \/ NothingToPick(w)
           \/ ClaimMissed(w) \/ FinishRefused(w) \/ FinishForbidden(w) \/ Crash(w)
    PROVE  CampaignFacts'
<1>1. worker \in [Workers -> Locals] /\ item \in [Items -> Rows]
  BY DEF QueueInv, TypeOK
<1>2. CASE BeginPass(w) \/ ReleaseExpired(w)
  <2>1. PICK age : /\ item' = Released(age) /\ \A i \in Items : ~Expired(i, age)
                   /\ \E own : worker' = AfterRelease(w, own, age)
                               /\ own.pc \in {"claim", "pick"}
    <3>1. CASE BeginPass(w)
      <4>1. [Idle EXCEPT !.pc = "claim", !.quota = MaxItems].pc = "claim"
        BY DEF Idle
      <4> QED BY <3>1, <4>1 DEF BeginPass
    <3>2. CASE ReleaseExpired(w)
      <4>1. [worker[w] EXCEPT !.pc = "pick"].pc = "pick"
        BY <1>1 DEF Locals
      <4> QED BY <3>2, <4>1 DEF ReleaseExpired
    <3> QED BY <1>2, <3>1, <3>2
  <2>2. /\ worker'[w].pc \in {"claim", "pick"}
        /\ \A v \in Workers \ {w} : SameWork(v)
    BY <1>1, <2>1 DEF AfterRelease, SameWork, Locals
  <2>3. job' = job /\ \A i \in Items : item'[i] = item[i]
    BY <1>1, <1>2, <2>1, ReleaseRows DEF BeginPass, ReleaseExpired
  <2>4. BesideCampaign(w)
    BY <2>2, <2>3, HoldingKept DEF BesideCampaign, CampaignFacts, Items
  <2> QED BY <2>2, <2>4, RestingTells, BesideKeeps
<1>3. CASE \/ PickItem(w) \/ NothingToPick(w) \/ ClaimMissed(w) \/ FinishRefused(w)
           \/ FinishForbidden(w) \/ Crash(w)
  <2>1. /\ item' = item /\ job' = job
        /\ \E own : /\ worker' = [worker EXCEPT ![w] = own]
                    /\ own.pc \in {"idle", "claim", "cas"}
    <3>1. CASE PickItem(w)
      <4>1. PICK i \in Items :
                worker' = [worker EXCEPT ![w] = [worker[w] EXCEPT !.pc = "cas", !.item = i]]
        BY <3>1 DEF PickItem
      <4>2. [worker[w] EXCEPT !.pc = "cas", !.item = i].pc = "cas"
        BY <1>1 DEF Locals
      <4> QED BY <3>1, <4>1, <4>2 DEF PickItem
    <3>2. CASE FinishRefused(w)
      <4>1. RoundOver(w).pc \in {"idle", "claim"}
        BY <1>1, RoundOverTyped
      <4> QED BY <3>2, <4>1 DEF FinishRefused
    <3>3. CASE NothingToPick(w) \/ ClaimMissed(w) \/ FinishForbidden(w) \/ Crash(w)
      <4>1. Idle.pc = "idle"
        BY DEF Idle
      <4> QED BY <3>3, <4>1 DEF NothingToPick, ClaimMissed, FinishForbidden, Crash
    <3> QED BY <1>3, <3>1, <3>2, <3>3
  <2>2. /\ worker'[w].pc \in {"idle", "claim", "cas"}
        /\ \A v \in Workers \ {w} : SameWork(v)
    BY <1>1, <2>1 DEF SameWork
  <2>3. BesideCampaign(w)
    BY <2>1, <2>2, HoldingKept DEF BesideCampaign, CampaignFacts
  <2> QED BY <2>2, <2>3, RestingTells, BesideKeeps
<1> QED BY <1>2, <1>3

\* Time passes over the leases, and nobody's work changes.
LEMMA TickKeepsCampaign ==
    ASSUME QueueInv, CampaignFacts, Tick \/ UNCHANGED vars \/ \E i \in Others : Submit(i)
    PROVE  CampaignFacts'
<1>1. worker \in [Workers -> Locals] /\ item \in [Items -> Rows]
  BY DEF QueueInv, TypeOK
<1>2. job' = job /\ \A v \in Workers : SameWork(v)
  <2>1. CASE Tick
    BY <1>1, <2>1 DEF Tick, SameWork, Locals
  <2> QED BY <2>1 DEF SameWork, vars, Submit
<1>3. /\ \A t \in TrialItems : item'[t].status = item[t].status
      /\ \A i \in Items : item[i].status = "TESTING" =>
            item'[i].status = item[i].status /\ item'[i].owner = item[i].owner
  <2>1. CASE Tick
    BY <1>1, <2>1 DEF Tick, Rows, Items
  <2>2. CASE UNCHANGED vars
    BY <2>2 DEF vars
  <2>3. ASSUME NEW j \in Others, Submit(j)
        PROVE  /\ \A t \in TrialItems : item'[t].status = item[t].status
               /\ \A i \in Items : item[i].status = "TESTING" =>
                     item'[i].status = item[i].status /\ item'[i].owner = item[i].owner
    BY <1>1, <2>3, OthersBelongToNone DEF Submit
  <2> QED BY <2>1, <2>2, <2>3
<1>4. ASSUME NEW v \in Workers
      PROVE  Holding(v)' /\ Rejecting(v)' /\ Working(v)' /\ Following(v)'
  <2>1. Holding(v)'
    BY <1>2, <1>3, HoldingKept DEF CampaignFacts, Holding
  <2>2. \A u \in Workers :
          worker'[u].pc \in {"next", "final"} => worker[u].pc \in {"next", "final"}
    BY <1>2 DEF SameWork
  <2> QED BY <1>2, <2>1, <2>2, WorkKept
<1>5. OneRuns' /\ \A t \in TrialItems : Tells(item'[t].status, job'.trial[t])
  BY <1>2, <1>3 DEF CampaignFacts, OneRuns
<1> QED BY <1>4, <1>5 DEF CampaignFacts

\* A claim under the lease: the trial of a pending row runs.
LEMMA ClaimKeepsCampaign ==
    ASSUME QueueInv, CampaignFacts, NEW w \in Workers, ClaimItem(w)
    PROVE  CampaignFacts'
<1>1. PICK i \in Items : i = worker[w].item
  BY DEF ClaimItem, QueueInv, ItemsOfWorkers
<1>2. worker \in [Workers -> Locals] /\ item \in [Items -> Rows]
  BY DEF QueueInv, TypeOK
<1>3. /\ item[i].status = "PENDING" /\ item' = [item EXCEPT ![i] = LeasedRow(w)]
      /\ job' = job
      /\ worker' = [worker EXCEPT ![w] = [worker[w] EXCEPT !.pc = "process",
                                                           !.quota = worker[w].quota - 1]]
  BY <1>1 DEF ClaimItem
<1>4. LeasedRow(w).status = "TESTING" /\ LeasedRow(w).owner = w
  BY DEF LeasedRow
<1>5. /\ item'[i].status = "TESTING" /\ item'[i].owner = w
      /\ \A j \in Items \ {i} : item'[j] = item[j]
  BY <1>2, <1>3, <1>4
<1>6. /\ worker'[w].pc = "process" /\ worker'[w].item = i
      /\ \A v \in Workers \ {w} : SameWork(v)
  BY <1>1, <1>2, <1>3 DEF Locals, SameWork
<1>7. i \in TrialItems => job.trial[i] = "RUNNING"
  BY <1>3 DEF CampaignFacts, Tells
<1>8. \A t \in TrialItems : Tells(item'[t].status, job.trial[t])
  BY <1>5, <1>7 DEF CampaignFacts, Tells, Items
<1>9. ASSUME NEW v \in Workers \ {w} PROVE Holding(v)'
  <2>1. worker[v].pc \in Claimed => worker[v].item # i
    BY <1>3 DEF CampaignFacts, Holding
  <2> QED BY <1>5, <1>6, <2>1, HoldingKept
<1>10. BesideCampaign(w)
  BY <1>3, <1>6, <1>8, <1>9 DEF BesideCampaign
<1>11. Holding(w)' /\ Rejecting(w)' /\ Working(w)' /\ Following(w)'
  BY <1>3, <1>5, <1>6, <1>7 DEF Holding, Rejecting, Working, Following
<1> QED BY <1>6, <1>10, <1>11, BesideKeeps

\* A trial whose work is in hand runs in a campaign that is not finished.
LEMMA TrialRuns ==
    ASSUME CampaignFacts, NEW w \in Workers, worker[w].item \in TrialItems,
           worker[w].pc \in {"process", "read", "write"}
    PROVE  job.trial[worker[w].item] = "RUNNING" /\ Records(job, worker[w].item)
<1>1. job.trial[worker[w].item] = "RUNNING"
  BY DEF CampaignFacts, Working
<1> QED BY <1>1 DEF CampaignFacts, OneRuns, Records, Classes

\* A processing that raises, and the reading of the campaign after it.
LEMMA FailureKeepsCampaign ==
    ASSUME QueueInv, CampaignFacts, NEW w \in Workers,
           \/ \E outcome \in Outcomes : ProcessRaises(w, outcome)
           \/ ProcessRefused(w) \/ ReadJob(w) \/ NoNextTrial(w)
    PROVE  CampaignFacts'
<1>1. worker[w] \in Locals /\ worker \in [Workers -> Locals]
  BY DEF QueueInv, TypeOK
<1>2. /\ item' = item /\ job' = job
      /\ \E own : worker' = [worker EXCEPT ![w] = own]
      /\ worker[w].pc \in Claimed
  BY DEF ProcessRaises, ProcessRefused, ReadJob, NoNextTrial, Claimed
<1>3. \A v \in Workers \ {w} : SameWork(v)
  BY <1>1, <1>2 DEF SameWork
<1>4. BesideCampaign(w)
  BY <1>2, <1>3, HoldingKept DEF BesideCampaign, CampaignFacts
<1>5. Holding(w) /\ Rejecting(w) /\ Working(w) /\ Following(w)
  BY DEF CampaignFacts
<1>6. ASSUME NEW final, NEW class,
             worker' = [worker EXCEPT ![w] = Raised(w, final, class)],
             worker[w].pc = "process", class \in Classes \ {"VALIDATION_QUALIFIED"},
             final = "FAILED" => class = "SOFTWARE_OR_INPUT_ERROR"
      PROVE  CampaignFacts'
  <2>1. /\ worker'[w].pc = "read" /\ worker'[w].item = worker[w].item
        /\ worker'[w].final = final /\ worker'[w].class = class
    BY <1>1, <1>6 DEF Raised, Locals
  <2>2. Holding(w)' /\ Rejecting(w)' /\ Working(w)' /\ Following(w)'
    BY <1>2, <1>5, <1>6, <2>1 DEF Holding, Rejecting, Working, Following, Claimed
  <2> QED BY <1>4, <2>1, <2>2, BesideKeeps
<1>7. ASSUME NEW outcome \in Outcomes, ProcessRaises(w, outcome) PROVE CampaignFacts'
  <2>1. /\ outcome[2] \in Classes \ {"VALIDATION_QUALIFIED"}
        /\ outcome[1] = "FAILED" => outcome[2] = "SOFTWARE_OR_INPUT_ERROR"
    BY DEF Outcomes, Classes
  <2> QED BY <1>6, <1>7, <2>1 DEF ProcessRaises
<1>8. CASE ProcessRefused(w)
  BY <1>6, <1>8 DEF ProcessRefused, Classes
<1>9. CASE NoNextTrial(w)
  <2>1. /\ worker' = [worker EXCEPT ![w] = [worker[w] EXCEPT !.pc = "final"]]
        /\ worker[w].pc = "next"
    BY <1>9 DEF NoNextTrial
  <2>2. /\ worker'[w].pc = "final" /\ worker'[w].item = worker[w].item
        /\ worker'[w].final = worker[w].final /\ worker'[w].class = worker[w].class
        /\ worker'[w].seen = worker[w].seen
    BY <1>1, <2>1 DEF Locals
  <2>3. Holding(w)' /\ Rejecting(w)' /\ Working(w)'
    BY <1>2, <1>5, <2>1, <2>2 DEF Holding, Rejecting, Working, Claimed
  <2>4. \A u \in Workers \ {w} : worker'[u].pc = worker[u].pc
    BY <1>3 DEF SameWork
  <2>5. Following(w)'
    BY <1>2, <1>5, <2>1, <2>2, <2>4 DEF Following
  <2> QED BY <1>4, <2>1, <2>3, <2>5, BesideKeeps
<1>10. CASE ReadJob(w)
  <2>1. worker[w].pc = "read"
    BY <1>10 DEF ReadJob
  <2>2. CASE Records(job, worker[w].item)
    <3>1. worker' = [worker EXCEPT ![w] =
            [worker[w] EXCEPT !.pc = "write",
                              !.seen = Classified(job, worker[w].item, worker[w].class)]]
      BY <1>10, <2>2 DEF ReadJob
    <3>2. /\ worker'[w].pc = "write" /\ worker'[w].item = worker[w].item
          /\ worker'[w].final = worker[w].final /\ worker'[w].class = worker[w].class
          /\ worker'[w].seen = Classified(job, worker[w].item, worker[w].class)
      BY <1>1, <3>1 DEF Locals
    <3>3. Holding(w)' /\ Rejecting(w)' /\ Working(w)' /\ Following(w)'
      BY <1>2, <1>5, <2>1, <3>2 DEF Holding, Rejecting, Working, Following, Claimed
    <3> QED BY <1>4, <3>2, <3>3, BesideKeeps
  <2>3. CASE ~Records(job, worker[w].item)
    <3>1. worker' = [worker EXCEPT ![w] = [worker[w] EXCEPT !.pc = "finish"]]
      BY <1>10, <2>3 DEF ReadJob
    <3>2. /\ worker'[w].pc = "finish" /\ worker'[w].item = worker[w].item
          /\ worker'[w].final = worker[w].final /\ worker'[w].class = worker[w].class
      BY <1>1, <3>1 DEF Locals
    <3>3. worker[w].item \notin TrialItems
      BY <2>1, <2>3, TrialRuns
    <3>4. Holding(w)' /\ Rejecting(w)' /\ Working(w)' /\ Following(w)'
      BY <1>2, <1>5, <2>1, <3>2, <3>3 DEF Holding, Rejecting, Working, Following, Claimed
    <3> QED BY <1>4, <3>2, <3>4, BesideKeeps
  <2> QED BY <2>2, <2>3
<1> QED BY <1>7, <1>8, <1>9, <1>10

\* An item is decided as the campaign tells already.
LEMMA FinishKeepsCampaign ==
    ASSUME QueueInv, CampaignFacts, NEW w \in Workers, FinishItem(w)
    PROVE  CampaignFacts'
<1>1. worker \in [Workers -> Locals] /\ item \in [Items -> Rows]
  BY DEF QueueInv, TypeOK
<1>2. PICK i \in Items : i = worker[w].item
  BY DEF FinishItem, QueueInv, ItemsOfWorkers, Claimed
<1>3. /\ worker[w].pc = "finish" /\ job' = job
      /\ item' = [item EXCEPT ![i] = DecidedRow(worker[w].final)]
      /\ worker' = [worker EXCEPT ![w] = RoundOver(w)]
  BY <1>2 DEF FinishItem
<1>4. worker'[w].pc \in {"idle", "claim"} /\ \A v \in Workers \ {w} : SameWork(v)
  BY <1>1, <1>3, RoundOverTyped DEF SameWork
<1>5. /\ item'[i].status = worker[w].final
      /\ \A j \in Items \ {i} : item'[j] = item[j]
  BY <1>1, <1>3 DEF DecidedRow
<1>6. /\ worker[w].final \in {"REJECTED", "FAILED"} /\ worker[w].class \in Classes
      /\ worker[w].class # "VALIDATION_QUALIFIED"
      /\ worker[w].final = "FAILED" => worker[w].class = "SOFTWARE_OR_INPUT_ERROR"
      /\ i \in TrialItems => job.trial[i] = worker[w].class
  BY <1>1, <1>2, <1>3 DEF CampaignFacts, Rejecting, Working, Locals
<1>7. \A t \in TrialItems : Tells(item'[t].status, job.trial[t])
  BY <1>5, <1>6 DEF CampaignFacts, Tells, Items, Classes
<1>8. ASSUME NEW v \in Workers \ {w} PROVE Holding(v)'
  <2>1. worker[v].pc \in Claimed => worker[v].item # i
    BY <1>2, <1>3, ItemsApart DEF Claimed
  <2> QED BY <1>4, <1>5, <2>1, HoldingKept
<1>9. BesideCampaign(w)
  BY <1>3, <1>4, <1>7, <1>8 DEF BesideCampaign
<1> QED BY <1>4, <1>9, RestingTells, BesideKeeps

-----------------------------------------------------------------------------
\* The steps that change the campaign.

\* They keep what is classified; the rows and the one running trial fit.
ChangesCampaign(w) ==
    /\ \A t \in TrialItems :
        /\ Tells(item'[t].status, job'.trial[t])
        /\ job.trial[t] \in Classes => job'.trial[t] = job.trial[t]
    /\ OneRuns'
    /\ \A v \in Workers \ {w} : SameWork(v) /\ Holding(v)'

\* Who changes the campaign has the only trial in hand, or the last word.
LEMMA ChangeKeeps ==
    ASSUME QueueInv, CampaignFacts, NEW w \in Workers, ChangesCampaign(w),
           worker[w].pc \in {"process", "write", "next", "final"}, worker[w].item \in TrialItems,
           Holding(w)', Rejecting(w)', Working(w)',
           worker'[w].pc \in {"next", "final"} =>
              worker'[w].seen = job' /\ \A t \in TrialItems : job'.trial[t] # "RUNNING"
    PROVE  CampaignFacts'
<1>1. worker[w].pc \in {"process", "write"} => job.trial[worker[w].item] = "RUNNING"
  BY TrialRuns
<1>2. ASSUME NEW v \in Workers \ {w}
      PROVE  /\ worker[v].pc \notin {"next", "final"}
             /\ worker[v].pc \in {"process", "read", "write"} => worker[v].item \notin TrialItems
  <2>1. /\ worker[v].pc \in {"process", "read", "write"} /\ worker[v].item \in TrialItems =>
              job.trial[worker[v].item] = "RUNNING"
        /\ worker[v].pc \in Claimed => worker[v].item # worker[w].item
    BY TrialRuns, ItemsApart DEF Claimed
  <2>2. CASE worker[w].pc \in {"process", "write"}
    BY <1>1, <2>1, <2>2 DEF CampaignFacts, OneRuns, Following, Claimed
  <2>3. CASE worker[w].pc \in {"next", "final"}
    BY <2>1, <2>3 DEF CampaignFacts, Following
  <2> QED BY <2>2, <2>3
<1>3. ASSUME NEW v \in Workers \ {w}
      PROVE  Holding(v)' /\ Rejecting(v)' /\ Working(v)' /\ Following(v)'
  <2>1. SameWork(v) /\ Holding(v)' /\ worker[v] \in Locals
    BY DEF ChangesCampaign, QueueInv, TypeOK
  <2>2. Rejecting(v)' /\ Following(v)'
    BY <1>2, <2>1 DEF CampaignFacts, Rejecting, Following, SameWork
  <2>3. worker[v].class \in Classes
    BY <2>1 DEF Locals
  <2>4. Working(v)'
    BY <1>2, <2>1, <2>3 DEF CampaignFacts, Working, SameWork, ChangesCampaign
  <2> QED BY <2>1, <2>2, <2>4
<1>4. Following(w)'
  <2>1. \A v \in Workers \ {w} : worker'[v].pc \notin {"next", "final"}
    BY <1>2 DEF ChangesCampaign, SameWork
  <2> QED BY <2>1 DEF Following
<1> QED BY <1>3, <1>4 DEF CampaignFacts, ChangesCampaign

\* At most one trial is next, and it was planned.
LEMMA NextIsOne ==
    ASSUME NEW doc
    PROVE  \A t, u \in NextTrials(doc) : t = u /\ t \in TrialItems /\ doc.trial[t] = "PLANNED"
<1> SUFFICES ASSUME NEW t \in NextTrials(doc), NEW u \in NextTrials(doc)
             PROVE  t = u /\ t \in TrialItems /\ doc.trial[t] = "PLANNED"
  OBVIOUS
<1>1. PICK k \in PlannedAt(doc) : t = Trials[k] /\ \A m \in PlannedAt(doc) : k <= m
  BY DEF NextTrials
<1>2. PICK n \in PlannedAt(doc) : u = Trials[n] /\ \A m \in PlannedAt(doc) : n <= m
  BY DEF NextTrials
<1>3. DOMAIN Trials \subseteq Int
  OBVIOUS
<1>4. k \in DOMAIN Trials /\ n \in DOMAIN Trials /\ doc.trial[Trials[k]] = "PLANNED"
  BY DEF PlannedAt
<1>5. k <= n /\ n <= k
  BY <1>1, <1>2
<1>6. k = n
  BY <1>3, <1>4, <1>5
<1> QED BY <1>1, <1>2, <1>4, <1>6 DEF TrialItems

\* The write of the class ends the running trial, and nothing else.
LEMMA WriteKeepsCampaign ==
    ASSUME QueueInv, CampaignFacts, NEW w \in Workers, WriteJob(w)
    PROVE  CampaignFacts'
<1>1. worker \in [Workers -> Locals] /\ job \in Jobs /\ worker[w].pc = "write"
  BY DEF QueueInv, TypeOK, WriteJob
<1>2. PICK i \in TrialItems : i = worker[w].item
  BY <1>1 DEF QueueInv, ItemsOfWorkers
<1>3. PICK class \in Classes : class = worker[w].class
  BY <1>1 DEF Locals
<1>4. job' = Classified(job, i, class) /\ job' = worker[w].seen /\ item' = item
  BY <1>1, <1>2, <1>3 DEF WriteJob, CampaignFacts, Working
<1>5. /\ job'.trial[i] = class
      /\ \A t \in TrialItems \ {i} : job'.trial[t] = job.trial[t]
  BY <1>4, <1>1 DEF Classified, Jobs
<1>6. /\ job.trial[i] = "RUNNING"
      /\ \A t \in TrialItems \ {i} : job.trial[t] # "RUNNING"
  BY <1>1, <1>2, TrialRuns DEF CampaignFacts, OneRuns
<1>7. item[i].status = "TESTING" /\ item[i].owner = w
  BY <1>1, <1>2 DEF CampaignFacts, Holding, Claimed
<1>8. PICK pc \in {"next", "finish"} :
        worker' = [worker EXCEPT ![w] = [worker[w] EXCEPT !.pc = pc]]
  BY DEF WriteJob
<1>9. /\ worker'[w].pc = pc /\ worker'[w].item = i /\ worker'[w].class = class
      /\ worker'[w].final = worker[w].final /\ worker'[w].seen = worker[w].seen
      /\ \A v \in Workers \ {w} : SameWork(v)
  BY <1>1, <1>2, <1>3, <1>8 DEF Locals, SameWork
<1>10. \A t \in TrialItems : job'.trial[t] # "RUNNING"
  BY <1>3, <1>5, <1>6 DEF Classes
<1>11. ChangesCampaign(w)
  <2>1. \A t \in TrialItems : Tells(item'[t].status, job'.trial[t])
    BY <1>3, <1>4, <1>5, <1>7 DEF Tells, CampaignFacts, Classes
  <2>2. \A t \in TrialItems : job.trial[t] \in Classes => job'.trial[t] = job.trial[t]
    BY <1>5, <1>6 DEF Classes
  <2>3. OneRuns'
    BY <1>10 DEF OneRuns
  <2>4. \A v \in Workers \ {w} : Holding(v)'
    BY <1>4, <1>9, HoldingKept
  <2> QED BY <1>9, <2>1, <2>2, <2>3, <2>4 DEF ChangesCampaign
<1>12. Holding(w)' /\ Rejecting(w)' /\ Working(w)'
  BY <1>1, <1>2, <1>3, <1>4, <1>5, <1>7, <1>9
     DEF Holding, Rejecting, Working, CampaignFacts
<1> QED BY <1>1, <1>2, <1>4, <1>9, <1>10, <1>11, <1>12, ChangeKeeps

\* The next trial runs and is pending at once.
LEMMA QueueNextKeepsCampaign ==
    ASSUME QueueInv, CampaignFacts, NEW w \in Workers, QueueNext(w)
    PROVE  CampaignFacts'
<1>1. /\ worker \in [Workers -> Locals] /\ job \in Jobs /\ item \in [Items -> Rows]
      /\ worker[w].pc = "next"
  BY DEF QueueInv, TypeOK, QueueNext
<1>2. PICK i \in TrialItems : i = worker[w].item
  BY <1>1 DEF QueueInv, ItemsOfWorkers
<1>3. PICK class \in Classes : class = worker[w].class
  BY <1>1 DEF Locals
<1>4. /\ \A t \in TrialItems : job.trial[t] # "RUNNING"
      /\ job.trial[i] = class /\ item[i].status = "TESTING" /\ item[i].owner = w
  BY <1>1, <1>2, <1>3 DEF CampaignFacts, Following, Working, Holding, Claimed
<1>5. /\ job' = NextQueued(job) /\ item' = WithTrials(item, NextTrials(job))
      /\ worker' = [worker EXCEPT ![w] = [worker[w] EXCEPT !.pc = "finish"]]
  BY DEF QueueNext
<1>6. /\ worker'[w].pc = "finish" /\ worker'[w].item = i /\ worker'[w].class = class
      /\ worker'[w].final = worker[w].final
      /\ \A v \in Workers \ {w} : SameWork(v)
  BY <1>1, <1>2, <1>3, <1>5 DEF Locals, SameWork
<1>7. \A t \in TrialItems :
        job'.trial[t] = IF t \in NextTrials(job) THEN "RUNNING" ELSE job.trial[t]
  BY <1>5 DEF NextQueued
<1>8. job'.status = "RUNNING"
  BY <1>5 DEF NextQueued
<1>9. \A j \in Items : item'[j] = IF j \in NextTrials(job) /\ item[j].status = "ABSENT"
                                    THEN PendingRow ELSE item[j]
  BY <1>5 DEF WithTrials
<1>10. \A t \in TrialItems : t \in NextTrials(job) => item[t].status = "ABSENT"
  BY NextIsOne DEF CampaignFacts, Tells
<1>11. ChangesCampaign(w)
  <2>1. \A t \in TrialItems : Tells(item'[t].status, job'.trial[t])
    BY <1>7, <1>9, <1>10 DEF Tells, CampaignFacts, Items, PendingRow
  <2>2. \A t \in TrialItems : job.trial[t] \in Classes => job'.trial[t] = job.trial[t]
    BY <1>7, NextIsOne DEF Classes
  <2>3. OneRuns'
    BY <1>4, <1>7, <1>8, NextIsOne DEF OneRuns
  <2>4. \A v \in Workers \ {w} : Holding(v)'
    <3> SUFFICES ASSUME NEW v \in Workers \ {w} PROVE Holding(v)'
      OBVIOUS
    <3>1. \A j \in Items : worker[v].pc \in Claimed /\ worker[v].item = j => item'[j] = item[j]
      BY <1>9 DEF CampaignFacts, Holding
    <3> QED BY <1>6, <3>1, HoldingKept
  <2> QED BY <1>6, <2>1, <2>2, <2>3, <2>4 DEF ChangesCampaign
<1>12. Holding(w)' /\ Rejecting(w)' /\ Working(w)'
  <2>1. item'[i] = item[i] /\ job'.trial[i] = class
    BY <1>4, <1>7, <1>9, NextIsOne DEF Items, Classes
  <2> QED BY <1>1, <1>2, <1>3, <1>4, <1>6, <2>1 DEF Holding, Rejecting, Working, CampaignFacts
<1> QED BY <1>1, <1>2, <1>6, <1>11, <1>12, ChangeKeeps

\* The final assessment closes a campaign in which no trial runs.
LEMMA AssessKeepsCampaign ==
    ASSUME QueueInv, CampaignFacts, NEW w \in Workers, Assess(w)
    PROVE  CampaignFacts'
<1>1. /\ worker \in [Workers -> Locals] /\ worker[w].pc = "final"
  BY DEF QueueInv, TypeOK, Assess
<1>2. PICK i \in TrialItems : i = worker[w].item
  BY <1>1 DEF QueueInv, ItemsOfWorkers
<1>3. /\ \A t \in TrialItems : job.trial[t] # "RUNNING"
      /\ job.trial[i] = worker[w].class /\ worker[w].seen = job
      /\ item[i].status = "TESTING" /\ item[i].owner = w
  BY <1>1, <1>2 DEF CampaignFacts, Following, Working, Holding, Claimed
<1>4. /\ job'.trial = job.trial /\ item' = item
      /\ worker' = [worker EXCEPT ![w] = [worker[w] EXCEPT !.pc = "finish"]]
  BY <1>3 DEF Assess, Finished
<1>5. /\ worker'[w].pc = "finish" /\ worker'[w].item = i
      /\ worker'[w].class = worker[w].class /\ worker'[w].final = worker[w].final
      /\ \A v \in Workers \ {w} : SameWork(v)
  BY <1>1, <1>2, <1>4 DEF Locals, SameWork
<1>6. ChangesCampaign(w)
  <2>1. \A v \in Workers \ {w} : Holding(v)'
    BY <1>4, <1>5, HoldingKept
  <2> QED BY <1>3, <1>4, <1>5, <2>1 DEF ChangesCampaign, CampaignFacts, OneRuns
<1>7. Holding(w)' /\ Rejecting(w)' /\ Working(w)'
  BY <1>1, <1>3, <1>4, <1>5 DEF Holding, Rejecting, Working, CampaignFacts
<1> QED BY <1>1, <1>2, <1>5, <1>6, <1>7, ChangeKeeps

\* A recorded result ends its trial and starts at most one other.
LEMMA AdvancedTells ==
    ASSUME NEW doc \in Jobs, NEW i \in TrialItems, NEW class \in Classes, Records(doc, i),
           NEW after, after = Advanced(doc, i, class)
    PROVE  /\ after.trial[i] = class
           /\ \A t \in TrialItems \ {i} :
                \/ after.trial[t] = doc.trial[t]
                \/ /\ doc.trial[t] = "PLANNED" /\ after.trial[t] = "RUNNING"
                   /\ after.status = "RUNNING"
                   /\ \A u \in TrialItems \ {i, t} : after.trial[u] = doc.trial[u]
<1> DEFINE said == Classified(doc, i, class)
<1>1. /\ said.trial[i] = class
      /\ \A t \in TrialItems \ {i} : said.trial[t] = doc.trial[t]
  BY DEF Classified, Jobs
<1> HIDE DEF said
<1>2. after = said \/ after = Finished(said) \/ after = NextQueued(said)
  BY DEF Advanced, said
<1>3. CASE after = said \/ after = Finished(said)
  <2>1. after.trial = said.trial
    BY <1>3 DEF Finished
  <2> QED BY <1>1, <2>1
<1>4. CASE after = NextQueued(said)
  <2>1. /\ after.status = "RUNNING"
        /\ \A t \in TrialItems :
             after.trial[t] = IF t \in NextTrials(said) THEN "RUNNING" ELSE said.trial[t]
    BY <1>4 DEF NextQueued
  <2>2. \A t, u \in NextTrials(said) :
            t = u /\ t \in TrialItems /\ said.trial[t] = "PLANNED"
    BY NextIsOne
  <2>3. i \notin NextTrials(said)
    BY <1>1, <2>2 DEF Classes
  <2> QED BY <1>1, <2>1, <2>2, <2>3
<1> QED BY <1>2, <1>3, <1>4

\* The one transaction of a processed item: the row and the campaign change
\* together, and the trial it queues is the one that runs.
LEMMA ProcessKeepsCampaign ==
    ASSUME QueueInv, CampaignFacts, NEW w \in Workers, NEW class \in Classes,
           ProcessItem(w, class)
    PROVE  CampaignFacts'
<1>1. /\ worker \in [Workers -> Locals] /\ job \in Jobs /\ item \in [Items -> Rows]
      /\ worker[w].pc = "process"
  BY DEF QueueInv, TypeOK, ProcessItem
<1>2. PICK i \in Items : i = worker[w].item
  BY <1>1 DEF QueueInv, ItemsOfWorkers, Claimed
<1>3. PICK after : after = Advanced(job, i, class)
  OBVIOUS
<1>4. PICK status : status = IF class = "VALIDATION_QUALIFIED" THEN "COMPLETED" ELSE "REJECTED"
  OBVIOUS
<1>5. /\ job' = after
      /\ item' = WithTrials([item EXCEPT ![i] = DecidedRow(status)], Enqueued(job, after))
      /\ worker' = [worker EXCEPT ![w] = RoundOver(w)]
      /\ item[i].status = "TESTING" /\ item[i].owner = w
  BY <1>2, <1>3, <1>4 DEF ProcessItem, Holds
<1>6. worker'[w].pc \in {"idle", "claim"} /\ \A v \in Workers \ {w} : SameWork(v)
  BY <1>1, <1>5, RoundOverTyped DEF SameWork
<1>7. status \in {"COMPLETED", "REJECTED"} /\ DecidedRow(status).status = status
  BY <1>4 DEF DecidedRow
<1>8. /\ item'[i].status = status
      /\ \A j \in Items \ {i} :
           item'[j] = IF j \in Enqueued(job, after) /\ item[j].status = "ABSENT"
                        THEN PendingRow ELSE item[j]
  <2>1. PICK rows : rows = [item EXCEPT ![i] = DecidedRow(status)]
    OBVIOUS
  <2>2. rows[i] = DecidedRow(status) /\ \A j \in Items \ {i} : rows[j] = item[j]
    BY <1>1, <2>1
  <2>3. \A j \in Items : item'[j] = IF j \in Enqueued(job, after) /\ rows[j].status = "ABSENT"
                                      THEN PendingRow ELSE rows[j]
    BY <1>5, <2>1 DEF WithTrials
  <2> QED BY <1>7, <2>2, <2>3
<1>9. \A v \in Workers \ {w} : Holding(v)'
  <2> SUFFICES ASSUME NEW v \in Workers \ {w} PROVE Holding(v)'
    OBVIOUS
  <2>1. worker[v].pc \in Claimed => worker[v].item # i
    BY <1>1, <1>2, ItemsApart DEF Claimed
  <2>2. \A j \in Items : worker[v].pc \in Claimed /\ worker[v].item = j => item'[j] = item[j]
    BY <1>8, <2>1 DEF CampaignFacts, Holding
  <2> QED BY <1>6, <2>2, HoldingKept
<1>10. CASE i \notin TrialItems
  <2>1. job' = job /\ Enqueued(job, after) = {}
    <3>1. after = job
      BY <1>3, <1>10 DEF Advanced, Records
    <3> QED BY <1>5, <3>1 DEF Enqueued
  <2>2. \A t \in TrialItems : item'[t] = item[t]
    BY <1>8, <1>10, <2>1 DEF Items
  <2>3. BesideCampaign(w)
    BY <1>6, <1>9, <2>1, <2>2 DEF BesideCampaign, CampaignFacts
  <2> QED BY <1>6, <2>3, RestingTells, BesideKeeps
<1>11. CASE i \in TrialItems
  <2>1. /\ job.trial[i] = "RUNNING" /\ Records(job, i)
        /\ \A t \in TrialItems \ {i} : job.trial[t] # "RUNNING"
    BY <1>1, <1>2, <1>11, TrialRuns DEF CampaignFacts, OneRuns
  <2>2. /\ after.trial[i] = class
        /\ \A t \in TrialItems \ {i} :
             \/ after.trial[t] = job.trial[t]
             \/ /\ job.trial[t] = "PLANNED" /\ after.trial[t] = "RUNNING"
                /\ after.status = "RUNNING"
                /\ \A u \in TrialItems \ {i, t} : after.trial[u] = job.trial[u]
    BY <1>1, <1>3, <1>11, <2>1, AdvancedTells
  <2>3. \A t \in TrialItems : Tells(item[t].status, job.trial[t])
    BY DEF CampaignFacts
  <2>4. Tells(item'[i].status, after.trial[i])
    BY <1>4, <1>8, <2>2 DEF Tells, Classes
  <2>5. ASSUME NEW t \in TrialItems \ {i} PROVE Tells(item'[t].status, after.trial[t])
    <3>1. CASE after.trial[t] = job.trial[t]
      <4>1. t \notin Enqueued(job, after)
        BY <3>1 DEF Enqueued
      <4> QED BY <1>8, <2>3, <3>1, <4>1 DEF Items
    <3>2. CASE job.trial[t] = "PLANNED" /\ after.trial[t] = "RUNNING"
      <4>1. t \in Enqueued(job, after) /\ item[t].status = "ABSENT"
        BY <2>3, <3>2 DEF Enqueued, Tells
      <4>2. item'[t].status = "PENDING"
        BY <1>8, <4>1 DEF Items, PendingRow
      <4> QED BY <3>2, <4>2 DEF Tells
    <3> QED BY <2>2, <3>1, <3>2
  <2>6. \A t \in TrialItems : job.trial[t] \in Classes => after.trial[t] = job.trial[t]
    BY <2>1, <2>2 DEF Classes
  <2>7. \A t \in TrialItems : after.trial[t] = "RUNNING" =>
            after.status # "FINISHED" /\ \A u \in TrialItems : after.trial[u] = "RUNNING" => u = t
    BY <2>1, <2>2 DEF Classes
  <2>8. ChangesCampaign(w)
    BY <1>5, <1>6, <1>9, <2>4, <2>5, <2>6, <2>7 DEF ChangesCampaign, OneRuns
  <2> QED BY <1>1, <1>2, <1>6, <1>11, <2>8, RestingTells, ChangeKeeps
<1> QED BY <1>10, <1>11

\* The campaign of an empty queue has its first trial running and pending.
LEMMA InitCampaign == Init => CampaignInv
<1> SUFFICES ASSUME Init PROVE CampaignFacts
  BY DEF CampaignInv
<1>1. Trials[1] \in TrialItems
  BY DEF TrialItems
<1>2. \A t \in TrialItems :
        /\ job.trial[t] = IF t = Trials[1] THEN "RUNNING" ELSE "PLANNED"
        /\ item[t].status = IF t = Trials[1] THEN "PENDING" ELSE "ABSENT"
  BY DEF Init, FirstJob, Items, PendingRow, DecidedRow
<1>3. \A t \in TrialItems : Tells(item[t].status, job.trial[t])
  BY <1>2 DEF Tells
<1>4. OneRuns
  BY <1>2 DEF OneRuns, Init, FirstJob
<1>5. \A w \in Workers : Holding(w) /\ Rejecting(w) /\ Working(w) /\ Following(w)
  BY DEF Init, Idle, Holding, Rejecting, Working, Following, Claimed
<1> QED BY <1>3, <1>4, <1>5 DEF CampaignFacts

\* Every step in which no lease is taken over keeps the campaign.
LEMMA NextCampaign == QueueInv /\ CampaignInv /\ [Next]_vars => CampaignInv'
<1> SUFFICES ASSUME QueueInv, CampaignInv, [Next]_vars, ~stolen' PROVE CampaignFacts'
  BY DEF CampaignInv
<1>1. CampaignFacts
  <2>1. stolen => stolen'
    BY DEF Next, vars, Step, BeginPass, ReleaseExpired, PickItem, NothingToPick, ClaimItem,
           ClaimMissed, ProcessItem, ProcessRaises, ProcessRefused, ReadJob, WriteJob,
           QueueNext, NoNextTrial, Assess, FinishItem, FinishRefused, FinishForbidden, Crash,
           Submit, Tick
  <2> QED BY <2>1 DEF CampaignInv
<1>2. ASSUME NEW w \in Workers, Step(w) \/ Crash(w) PROVE CampaignFacts'
  BY <1>1, <1>2, RestKeepsCampaign, ClaimKeepsCampaign, ProcessKeepsCampaign,
     FailureKeepsCampaign, WriteKeepsCampaign, QueueNextKeepsCampaign, AssessKeepsCampaign,
     FinishKeepsCampaign DEF Step
<1> QED BY <1>1, <1>2, TickKeepsCampaign DEF Next

\* As long as no lease is taken over, the campaign tells of every trial what
\* its row in the queue tells, however processings fail and processes die.
THEOREM CampaignAgreesHolds == Spec => []CampaignAgrees
<1>1. QueueInv /\ CampaignInv /\ [Next]_vars => QueueInv' /\ CampaignInv'
  BY NextQueueInv, NextCampaign
<1>2. Init => QueueInv /\ CampaignInv
  BY InitQueueInv, InitCampaign
<1>3. CampaignInv => CampaignAgrees
  BY DEF CampaignInv, CampaignFacts, Tells, CampaignAgrees
<1> QED BY <1>1, <1>2, <1>3, PTL DEF Spec
=============================================================================
