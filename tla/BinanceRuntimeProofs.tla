------------------------ MODULE BinanceRuntimeProofs ------------------------
(***************************************************************************)
(* Proofs about BinanceRuntime: RuntimeInv is inductive for every set of   *)
(* processes, and with it the profile has one writer, the PID file never   *)
(* outlives the lock, TESTNET is armed under the lock only, and a stop     *)
(* request is not removed by the process it was published under.           *)
(***************************************************************************)
EXTENDS BinanceRuntime, TLAPS

-----------------------------------------------------------------------------
\* The inductive invariant.

\* The steps that are taken with the lock held.
LockedSteps == {"locked", "owned", "clearing", "rereading", "starting", "serving", "gates",
                "authorizing", "cycle", "pausing", "disarming"}

UnstartedSteps == (LockedSteps \ {"serving"}) \cup {"new", "snapped"}

StepsUnderLock ==
    \A p \in Processes : /\ process[p].step \in LockedSteps => lock = p
                         /\ At(p, "new") => lock # p

\* A thread that can still write has the lock of its process.
ThreadUnderLock ==
    \A p \in Processes :
        process[p].thread \in {"waiting", "cycle", "writing"} /\ ~process[p].closed => lock = p

\* Where the lock can be given back, the thread is none or its store closed.
ThreadStarted ==
    \A p \in Processes :
        /\ process[p].step \in UnstartedSteps => process[p].thread = "none"
        /\ process[p].step \in {"releasing", "unlocking"} =>
              process[p].thread = "none" \/ process[p].closed

\* stop() is called once, or once more after its release.
StopCalls ==
    \A p \in Processes :
        LET q == process[p] IN
        /\ q.step \in LockedSteps \cup {"new", "snapped"} => q.calls = 0 /\ ~q.closed
        /\ q.step = "stopping" => IF q.closed THEN q.calls = 1 /\ ~q.again ELSE q.calls = 0
        /\ q.step \in {"joining", "closing"} => q.calls = 1 /\ ~q.closed
        /\ q.step \in {"releasing", "unlocking"} => q.calls = IF q.closed THEN 1 ELSE 0

PidOfOwner ==
    /\ pid # NULL => lock = pid
    /\ \A p \in Processes : process[p].step \in {"locked", "unlocking"} => pid # p

\* An armed control belongs to an auto that goes on, has crashed with the lock,
\* or failed to clean up.
ArmedByOwner ==
    control = "ARMED" =>
        \/ unclean # {}
        \/ /\ lock \in Processes
           /\ process[lock].step \in {"cycle", "pausing", "disarming", "crashed"}

\* No process starts under its own lock, so that its snapshot is no request
\* addressed to it.
MarkersUnderLock ==
    /\ marker # NULL => \A p \in Processes : At(p, "new") => marker.under # p
    /\ \A p \in Processes :
        /\ process[p].snap # NULL => process[p].snap.under # p
        /\ At(p, "clearing") => marker = process[p].snap /\ marker # NULL

RuntimeInv ==
    /\ TypeOK /\ StepsUnderLock /\ ThreadUnderLock /\ ThreadStarted
    /\ StopCalls /\ PidOfOwner /\ ArmedByOwner /\ MarkersUnderLock

USE RuntimeConstants

-----------------------------------------------------------------------------
\* The initial state.
LEMMA InitRuntimeInv == Init => RuntimeInv
BY DEF Init, RuntimeInv, TypeOK, StepsUnderLock, ThreadUnderLock, ThreadStarted, StopCalls,
       PidOfOwner, UnstartedSteps,
       ArmedByOwner, MarkersUnderLock, New, Locals, Steps, LockedSteps, At

-----------------------------------------------------------------------------
\* One lemma per action.

\* The snapshot of a new process is no marker published under its lock.
LEMMA SnapshotMarkerKeeps ==
    ASSUME NEW p \in Processes, RuntimeInv, SnapshotMarker(p)
    PROVE  RuntimeInv'
<1> USE DEF RuntimeInv, SnapshotMarker, At, files, LockedSteps, UnstartedSteps
<1>1. TypeOK'
  <2>1. process[p] \in Locals /\ marker \in Markers \cup {NULL}
    BY DEF TypeOK
  <2>2. process' = [process EXCEPT ![p] = [process[p] EXCEPT !.step = "snapped", !.snap = marker]]
    OBVIOUS
  <2>3. [process[p] EXCEPT !.step = "snapped", !.snap = marker] \in Locals
    BY <2>1 DEF Locals, Steps
  <2>4. process' \in [Processes -> Locals]
    BY <2>2, <2>3 DEF TypeOK
  <2> QED
    BY <2>4 DEF TypeOK
<1>2. StepsUnderLock'
  BY DEF StepsUnderLock, TypeOK, Locals, Steps, PidOfOwner
<1>3. ThreadUnderLock'
  BY DEF ThreadUnderLock, TypeOK, Locals, Steps, StepsUnderLock, ThreadStarted
<1>4. ThreadStarted'
  BY DEF ThreadStarted, TypeOK, Locals, Steps
<1>5. StopCalls'
  BY DEF StopCalls, TypeOK, Locals, Steps
<1>6. PidOfOwner'
  BY DEF PidOfOwner, TypeOK, Locals, Steps, StepsUnderLock
<1>7. ArmedByOwner'
  BY DEF ArmedByOwner, TypeOK, Locals, Steps, StepsUnderLock
<1>8. MarkersUnderLock'
  BY DEF MarkersUnderLock, TypeOK, Locals, Steps, StepsUnderLock
<1> QED
  BY <1>1, <1>2, <1>3, <1>4, <1>5, <1>6, <1>7, <1>8

\* The lock is taken when it is free.
LEMMA CreateLockKeeps ==
    ASSUME NEW p \in Processes, RuntimeInv, CreateLock(p)
    PROVE  RuntimeInv'
<1> USE DEF RuntimeInv, CreateLock, At, files, Goto, LockedSteps, UnstartedSteps
<1>1. TypeOK'
  BY DEF TypeOK, Locals, Steps
<1>2. StepsUnderLock'
  BY DEF StepsUnderLock, TypeOK, Locals, Steps, PidOfOwner
<1>3. ThreadUnderLock'
  BY DEF ThreadUnderLock, TypeOK, Locals, Steps, StepsUnderLock, ThreadStarted
<1>4. ThreadStarted'
  BY DEF ThreadStarted, TypeOK, Locals, Steps
<1>5. StopCalls'
  BY DEF StopCalls, TypeOK, Locals, Steps
<1>6. PidOfOwner'
  BY DEF PidOfOwner, TypeOK, Locals, Steps, StepsUnderLock
<1>7. ArmedByOwner'
  BY DEF ArmedByOwner, TypeOK, Locals, Steps, StepsUnderLock
<1>8. MarkersUnderLock'
  BY DEF MarkersUnderLock, TypeOK, Locals, Steps, StepsUnderLock
<1> QED
  BY <1>1, <1>2, <1>3, <1>4, <1>5, <1>6, <1>7, <1>8

\* A process that finds the lock taken changes no file before stop().
LEMMA LockBusyKeeps ==
    ASSUME NEW p \in Processes, RuntimeInv, LockBusy(p)
    PROVE  RuntimeInv'
<1> USE DEF RuntimeInv, LockBusy, At, files, CallStop, LockedSteps, UnstartedSteps
<1>1. TypeOK'
  <2>1. process[p] \in Locals /\ marker \in Markers \cup {NULL}
    BY DEF TypeOK
  <2>2. process' = [process EXCEPT ![p] = [process[p] EXCEPT !.step = "stopping", !.again = FALSE]]
    OBVIOUS
  <2>3. [process[p] EXCEPT !.step = "stopping", !.again = FALSE] \in Locals
    BY <2>1 DEF Locals, Steps
  <2>4. process' \in [Processes -> Locals]
    BY <2>2, <2>3 DEF TypeOK
  <2> QED
    BY <2>4 DEF TypeOK
<1>2. StepsUnderLock'
  BY DEF StepsUnderLock, TypeOK, Locals, Steps, PidOfOwner
<1>3. ThreadUnderLock'
  BY DEF ThreadUnderLock, TypeOK, Locals, Steps, StepsUnderLock, ThreadStarted
<1>4. ThreadStarted'
  BY DEF ThreadStarted, TypeOK, Locals, Steps
<1>5. StopCalls'
  BY DEF StopCalls, TypeOK, Locals, Steps
<1>6. PidOfOwner'
  BY DEF PidOfOwner, TypeOK, Locals, Steps, StepsUnderLock
<1>7. ArmedByOwner'
  BY DEF ArmedByOwner, TypeOK, Locals, Steps, StepsUnderLock
<1>8. MarkersUnderLock'
  BY DEF MarkersUnderLock, TypeOK, Locals, Steps, StepsUnderLock
<1> QED
  BY <1>1, <1>2, <1>3, <1>4, <1>5, <1>6, <1>7, <1>8

\* The PID file is written under the lock.
LEMMA WritePidKeeps ==
    ASSUME NEW p \in Processes, RuntimeInv, WritePid(p)
    PROVE  RuntimeInv'
<1> USE DEF RuntimeInv, WritePid, At, files, Goto, LockedSteps, UnstartedSteps
<1>1. TypeOK'
  BY DEF TypeOK, Locals, Steps
<1>2. StepsUnderLock'
  BY DEF StepsUnderLock, TypeOK, Locals, Steps, PidOfOwner
<1>3. ThreadUnderLock'
  BY DEF ThreadUnderLock, TypeOK, Locals, Steps, StepsUnderLock, ThreadStarted
<1>4. ThreadStarted'
  BY DEF ThreadStarted, TypeOK, Locals, Steps
<1>5. StopCalls'
  BY DEF StopCalls, TypeOK, Locals, Steps
<1>6. PidOfOwner'
  BY DEF PidOfOwner, TypeOK, Locals, Steps, StepsUnderLock
<1>7. ArmedByOwner'
  BY DEF ArmedByOwner, TypeOK, Locals, Steps, StepsUnderLock
<1>8. MarkersUnderLock'
  BY DEF MarkersUnderLock, TypeOK, Locals, Steps, StepsUnderLock
<1> QED
  BY <1>1, <1>2, <1>3, <1>4, <1>5, <1>6, <1>7, <1>8

\* The rollback of a failed acquisition leaves neither file.
LEMMA AcquireFailsKeeps ==
    ASSUME NEW p \in Processes, RuntimeInv, AcquireFails(p)
    PROVE  RuntimeInv'
<1> USE DEF RuntimeInv, AcquireFails, At, files, CallStop, LockedSteps, UnstartedSteps
<1>1. TypeOK'
  <2>1. process[p] \in Locals /\ marker \in Markers \cup {NULL}
    BY DEF TypeOK
  <2>2. process' = [process EXCEPT ![p] = [process[p] EXCEPT !.step = "stopping", !.again = FALSE]]
    OBVIOUS
  <2>3. [process[p] EXCEPT !.step = "stopping", !.again = FALSE] \in Locals
    BY <2>1 DEF Locals, Steps
  <2>4. process' \in [Processes -> Locals]
    BY <2>2, <2>3 DEF TypeOK
  <2> QED
    BY <2>4 DEF TypeOK
<1>2. StepsUnderLock'
  BY DEF StepsUnderLock, TypeOK, Locals, Steps, PidOfOwner
<1>3. ThreadUnderLock'
  BY DEF ThreadUnderLock, TypeOK, Locals, Steps, StepsUnderLock, ThreadStarted
<1>4. ThreadStarted'
  BY DEF ThreadStarted, TypeOK, Locals, Steps
<1>5. StopCalls'
  BY DEF StopCalls, TypeOK, Locals, Steps
<1>6. PidOfOwner'
  BY DEF PidOfOwner, TypeOK, Locals, Steps, StepsUnderLock
<1>7. ArmedByOwner'
  BY DEF ArmedByOwner, TypeOK, Locals, Steps, StepsUnderLock
<1>8. MarkersUnderLock'
  BY DEF MarkersUnderLock, TypeOK, Locals, Steps, StepsUnderLock
<1> QED
  BY <1>1, <1>2, <1>3, <1>4, <1>5, <1>6, <1>7, <1>8

\* Only the marker of the snapshot is taken for stale.
LEMMA FindStaleMarkerKeeps ==
    ASSUME NEW p \in Processes, RuntimeInv, FindStaleMarker(p)
    PROVE  RuntimeInv'
<1> USE DEF RuntimeInv, FindStaleMarker, At, files, Goto, SameAsBefore, LockedSteps, UnstartedSteps
<1>1. TypeOK'
  BY DEF TypeOK, Locals, Steps
<1>2. StepsUnderLock'
  BY DEF StepsUnderLock, TypeOK, Locals, Steps, PidOfOwner
<1>3. ThreadUnderLock'
  BY DEF ThreadUnderLock, TypeOK, Locals, Steps, StepsUnderLock, ThreadStarted
<1>4. ThreadStarted'
  BY DEF ThreadStarted, TypeOK, Locals, Steps
<1>5. StopCalls'
  BY DEF StopCalls, TypeOK, Locals, Steps
<1>6. PidOfOwner'
  BY DEF PidOfOwner, TypeOK, Locals, Steps, StepsUnderLock
<1>7. ArmedByOwner'
  BY DEF ArmedByOwner, TypeOK, Locals, Steps, StepsUnderLock
<1>8. MarkersUnderLock'
  BY DEF MarkersUnderLock, TypeOK, Locals, Steps, StepsUnderLock
<1> QED
  BY <1>1, <1>2, <1>3, <1>4, <1>5, <1>6, <1>7, <1>8

\* Any other is a live request.
LEMMA FindLiveMarkerKeeps ==
    ASSUME NEW p \in Processes, RuntimeInv, FindLiveMarker(p)
    PROVE  RuntimeInv'
<1> USE DEF RuntimeInv, FindLiveMarker, At, files, Acquired, LockedSteps, UnstartedSteps
<1>1. TypeOK'
  <2>1. process[p] \in Locals /\ marker \in Markers \cup {NULL}
    BY DEF TypeOK
  <2>2. PICK step \in {"starting", "gates"}, event \in BOOLEAN :
          process' = [process EXCEPT ![p] = [process[p] EXCEPT !.step = step, !.event = event]]
    OBVIOUS
  <2>3. [process[p] EXCEPT !.step = step, !.event = event] \in Locals
    BY <2>1, <2>2 DEF Locals, Steps
  <2>4. process' \in [Processes -> Locals]
    BY <2>2, <2>3 DEF TypeOK
  <2> QED
    BY <2>4 DEF TypeOK
<1>2. StepsUnderLock'
  BY DEF StepsUnderLock, TypeOK, Locals, Steps, PidOfOwner
<1>3. ThreadUnderLock'
  BY DEF ThreadUnderLock, TypeOK, Locals, Steps, StepsUnderLock, ThreadStarted
<1>4. ThreadStarted'
  BY DEF ThreadStarted, TypeOK, Locals, Steps
<1>5. StopCalls'
  BY DEF StopCalls, TypeOK, Locals, Steps
<1>6. PidOfOwner'
  BY DEF PidOfOwner, TypeOK, Locals, Steps, StepsUnderLock
<1>7. ArmedByOwner'
  BY DEF ArmedByOwner, TypeOK, Locals, Steps, StepsUnderLock
<1>8. MarkersUnderLock'
  BY DEF MarkersUnderLock, TypeOK, Locals, Steps, StepsUnderLock
<1> QED
  BY <1>1, <1>2, <1>3, <1>4, <1>5, <1>6, <1>7, <1>8

\* The stale marker goes, with the lock held.
LEMMA RemoveMarkerKeeps ==
    ASSUME NEW p \in Processes, RuntimeInv, RemoveMarker(p)
    PROVE  RuntimeInv'
<1> USE DEF RuntimeInv, RemoveMarker, At, files, Goto, LockedSteps, UnstartedSteps
<1>1. TypeOK'
  BY DEF TypeOK, Locals, Steps
<1>2. StepsUnderLock'
  BY DEF StepsUnderLock, TypeOK, Locals, Steps, PidOfOwner
<1>3. ThreadUnderLock'
  BY DEF ThreadUnderLock, TypeOK, Locals, Steps, StepsUnderLock, ThreadStarted
<1>4. ThreadStarted'
  BY DEF ThreadStarted, TypeOK, Locals, Steps
<1>5. StopCalls'
  BY DEF StopCalls, TypeOK, Locals, Steps
<1>6. PidOfOwner'
  BY DEF PidOfOwner, TypeOK, Locals, Steps, StepsUnderLock
<1>7. ArmedByOwner'
  BY DEF ArmedByOwner, TypeOK, Locals, Steps, StepsUnderLock
<1>8. MarkersUnderLock'
  BY DEF MarkersUnderLock, TypeOK, Locals, Steps, StepsUnderLock
<1> QED
  BY <1>1, <1>2, <1>3, <1>4, <1>5, <1>6, <1>7, <1>8

\* What appeared meanwhile becomes the event.
LEMMA RereadMarkerKeeps ==
    ASSUME NEW p \in Processes, RuntimeInv, RereadMarker(p)
    PROVE  RuntimeInv'
<1> USE DEF RuntimeInv, RereadMarker, At, files, Acquired, LockedSteps, UnstartedSteps
<1>1. TypeOK'
  <2>1. process[p] \in Locals /\ marker \in Markers \cup {NULL}
    BY DEF TypeOK
  <2>2. PICK step \in {"starting", "gates"}, event \in BOOLEAN :
          process' = [process EXCEPT ![p] = [process[p] EXCEPT !.step = step, !.event = event]]
    OBVIOUS
  <2>3. [process[p] EXCEPT !.step = step, !.event = event] \in Locals
    BY <2>1, <2>2 DEF Locals, Steps
  <2>4. process' \in [Processes -> Locals]
    BY <2>2, <2>3 DEF TypeOK
  <2> QED
    BY <2>4 DEF TypeOK
<1>2. StepsUnderLock'
  BY DEF StepsUnderLock, TypeOK, Locals, Steps, PidOfOwner
<1>3. ThreadUnderLock'
  BY DEF ThreadUnderLock, TypeOK, Locals, Steps, StepsUnderLock, ThreadStarted
<1>4. ThreadStarted'
  BY DEF ThreadStarted, TypeOK, Locals, Steps
<1>5. StopCalls'
  BY DEF StopCalls, TypeOK, Locals, Steps
<1>6. PidOfOwner'
  BY DEF PidOfOwner, TypeOK, Locals, Steps, StepsUnderLock
<1>7. ArmedByOwner'
  BY DEF ArmedByOwner, TypeOK, Locals, Steps, StepsUnderLock
<1>8. MarkersUnderLock'
  BY DEF MarkersUnderLock, TypeOK, Locals, Steps, StepsUnderLock
<1> QED
  BY <1>1, <1>2, <1>3, <1>4, <1>5, <1>6, <1>7, <1>8

\* The thread starts under the lock.
LEMMA StartKeeps ==
    ASSUME NEW p \in Processes, RuntimeInv, Start(p)
    PROVE  RuntimeInv'
<1> USE DEF RuntimeInv, Start, At, files, LockedSteps, UnstartedSteps
<1>1. TypeOK'
  <2>1. process[p] \in Locals /\ marker \in Markers \cup {NULL}
    BY DEF TypeOK
  <2>2. PICK thread \in {"waiting", "none"} :
          process' = [process EXCEPT ![p] = [process[p] EXCEPT !.step = "serving", !.thread = thread]]
    OBVIOUS
  <2>3. [process[p] EXCEPT !.step = "serving", !.thread = thread] \in Locals
    BY <2>1, <2>2 DEF Locals, Steps
  <2>4. process' \in [Processes -> Locals]
    BY <2>2, <2>3 DEF TypeOK
  <2> QED
    BY <2>4 DEF TypeOK
<1>2. StepsUnderLock'
  BY DEF StepsUnderLock, TypeOK, Locals, Steps, PidOfOwner
<1>3. ThreadUnderLock'
  BY DEF ThreadUnderLock, TypeOK, Locals, Steps, StepsUnderLock, ThreadStarted
<1>4. ThreadStarted'
  BY DEF ThreadStarted, TypeOK, Locals, Steps
<1>5. StopCalls'
  BY DEF StopCalls, TypeOK, Locals, Steps
<1>6. PidOfOwner'
  BY DEF PidOfOwner, TypeOK, Locals, Steps, StepsUnderLock
<1>7. ArmedByOwner'
  BY DEF ArmedByOwner, TypeOK, Locals, Steps, StepsUnderLock
<1>8. MarkersUnderLock'
  BY DEF MarkersUnderLock, TypeOK, Locals, Steps, StepsUnderLock
<1> QED
  BY <1>1, <1>2, <1>3, <1>4, <1>5, <1>6, <1>7, <1>8

\* A failed start leaves by way of stop().
LEMMA StartFailsKeeps ==
    ASSUME NEW p \in Processes, RuntimeInv, StartFails(p)
    PROVE  RuntimeInv'
<1> USE DEF RuntimeInv, StartFails, At, files, CallStop, LockedSteps, UnstartedSteps
<1>1. TypeOK'
  <2>1. process[p] \in Locals /\ marker \in Markers \cup {NULL}
    BY DEF TypeOK
  <2>2. process' = [process EXCEPT ![p] = [process[p] EXCEPT !.step = "stopping", !.again = TRUE]]
    OBVIOUS
  <2>3. [process[p] EXCEPT !.step = "stopping", !.again = TRUE] \in Locals
    BY <2>1 DEF Locals, Steps
  <2>4. process' \in [Processes -> Locals]
    BY <2>2, <2>3 DEF TypeOK
  <2> QED
    BY <2>4 DEF TypeOK
<1>2. StepsUnderLock'
  BY DEF StepsUnderLock, TypeOK, Locals, Steps, PidOfOwner
<1>3. ThreadUnderLock'
  BY DEF ThreadUnderLock, TypeOK, Locals, Steps, StepsUnderLock, ThreadStarted
<1>4. ThreadStarted'
  BY DEF ThreadStarted, TypeOK, Locals, Steps
<1>5. StopCalls'
  BY DEF StopCalls, TypeOK, Locals, Steps
<1>6. PidOfOwner'
  BY DEF PidOfOwner, TypeOK, Locals, Steps, StepsUnderLock
<1>7. ArmedByOwner'
  BY DEF ArmedByOwner, TypeOK, Locals, Steps, StepsUnderLock
<1>8. MarkersUnderLock'
  BY DEF MarkersUnderLock, TypeOK, Locals, Steps, StepsUnderLock
<1> QED
  BY <1>1, <1>2, <1>3, <1>4, <1>5, <1>6, <1>7, <1>8

\* The serving loop ends in stop().
LEMMA ServeEndsKeeps ==
    ASSUME NEW p \in Processes, RuntimeInv, ServeEnds(p)
    PROVE  RuntimeInv'
<1> USE DEF RuntimeInv, ServeEnds, At, files, CallStop, StopSeen, LockedSteps, UnstartedSteps
<1>1. TypeOK'
  <2>1. process[p] \in Locals /\ marker \in Markers \cup {NULL}
    BY DEF TypeOK
  <2>2. PICK again \in BOOLEAN :
          process' = [process EXCEPT ![p] = [process[p] EXCEPT !.step = "stopping", !.again = again]]
    OBVIOUS
  <2>3. [process[p] EXCEPT !.step = "stopping", !.again = again] \in Locals
    BY <2>1, <2>2 DEF Locals, Steps
  <2>4. process' \in [Processes -> Locals]
    BY <2>2, <2>3 DEF TypeOK
  <2> QED
    BY <2>4 DEF TypeOK
<1>2. StepsUnderLock'
  BY DEF StepsUnderLock, TypeOK, Locals, Steps, PidOfOwner
<1>3. ThreadUnderLock'
  BY DEF ThreadUnderLock, TypeOK, Locals, Steps, StepsUnderLock, ThreadStarted
<1>4. ThreadStarted'
  BY DEF ThreadStarted, TypeOK, Locals, Steps
<1>5. StopCalls'
  BY DEF StopCalls, TypeOK, Locals, Steps
<1>6. PidOfOwner'
  BY DEF PidOfOwner, TypeOK, Locals, Steps, StepsUnderLock
<1>7. ArmedByOwner'
  BY DEF ArmedByOwner, TypeOK, Locals, Steps, StepsUnderLock
<1>8. MarkersUnderLock'
  BY DEF MarkersUnderLock, TypeOK, Locals, Steps, StepsUnderLock
<1> QED
  BY <1>1, <1>2, <1>3, <1>4, <1>5, <1>6, <1>7, <1>8

\* So does an interrupt.
LEMMA InterruptedKeeps ==
    ASSUME NEW p \in Processes, RuntimeInv, Interrupted(p)
    PROVE  RuntimeInv'
<1> USE DEF RuntimeInv, Interrupted, At, files, CallStop, LockedSteps, UnstartedSteps
<1>1. TypeOK'
  <2>1. process[p] \in Locals /\ marker \in Markers \cup {NULL}
    BY DEF TypeOK
  <2>2. PICK again \in BOOLEAN :
          process' = [process EXCEPT ![p] = [process[p] EXCEPT !.step = "stopping", !.again = again]]
    OBVIOUS
  <2>3. [process[p] EXCEPT !.step = "stopping", !.again = again] \in Locals
    BY <2>1, <2>2 DEF Locals, Steps
  <2>4. process' \in [Processes -> Locals]
    BY <2>2, <2>3 DEF TypeOK
  <2> QED
    BY <2>4 DEF TypeOK
<1>2. StepsUnderLock'
  BY DEF StepsUnderLock, TypeOK, Locals, Steps, PidOfOwner
<1>3. ThreadUnderLock'
  BY DEF ThreadUnderLock, TypeOK, Locals, Steps, StepsUnderLock, ThreadStarted
<1>4. ThreadStarted'
  BY DEF ThreadStarted, TypeOK, Locals, Steps
<1>5. StopCalls'
  BY DEF StopCalls, TypeOK, Locals, Steps
<1>6. PidOfOwner'
  BY DEF PidOfOwner, TypeOK, Locals, Steps, StepsUnderLock
<1>7. ArmedByOwner'
  BY DEF ArmedByOwner, TypeOK, Locals, Steps, StepsUnderLock
<1>8. MarkersUnderLock'
  BY DEF MarkersUnderLock, TypeOK, Locals, Steps, StepsUnderLock
<1> QED
  BY <1>1, <1>2, <1>3, <1>4, <1>5, <1>6, <1>7, <1>8

\* The thread begins a cycle.
LEMMA BeginCycleKeeps ==
    ASSUME NEW p \in Processes, RuntimeInv, BeginCycle(p)
    PROVE  RuntimeInv'
<1> USE DEF RuntimeInv, BeginCycle, At, files, LockedSteps, UnstartedSteps
<1>1. TypeOK'
  BY DEF TypeOK, Locals, Steps
<1>2. StepsUnderLock'
  BY DEF StepsUnderLock, TypeOK, Locals, Steps, PidOfOwner
<1>3. ThreadUnderLock'
  BY DEF ThreadUnderLock, TypeOK, Locals, Steps, StepsUnderLock, ThreadStarted
<1>4. ThreadStarted'
  BY DEF ThreadStarted, TypeOK, Locals, Steps
<1>5. StopCalls'
  BY DEF StopCalls, TypeOK, Locals, Steps
<1>6. PidOfOwner'
  BY DEF PidOfOwner, TypeOK, Locals, Steps, StepsUnderLock
<1>7. ArmedByOwner'
  BY DEF ArmedByOwner, TypeOK, Locals, Steps, StepsUnderLock
<1>8. MarkersUnderLock'
  BY DEF MarkersUnderLock, TypeOK, Locals, Steps, StepsUnderLock
<1> QED
  BY <1>1, <1>2, <1>3, <1>4, <1>5, <1>6, <1>7, <1>8

\* The thread begins a transaction.
LEMMA BeginWriteKeeps ==
    ASSUME NEW p \in Processes, RuntimeInv, BeginWrite(p)
    PROVE  RuntimeInv'
<1> USE DEF RuntimeInv, BeginWrite, At, files, LockedSteps, UnstartedSteps
<1>1. TypeOK'
  BY DEF TypeOK, Locals, Steps
<1>2. StepsUnderLock'
  BY DEF StepsUnderLock, TypeOK, Locals, Steps, PidOfOwner
<1>3. ThreadUnderLock'
  BY DEF ThreadUnderLock, TypeOK, Locals, Steps, StepsUnderLock, ThreadStarted
<1>4. ThreadStarted'
  BY DEF ThreadStarted, TypeOK, Locals, Steps
<1>5. StopCalls'
  BY DEF StopCalls, TypeOK, Locals, Steps
<1>6. PidOfOwner'
  BY DEF PidOfOwner, TypeOK, Locals, Steps, StepsUnderLock
<1>7. ArmedByOwner'
  BY DEF ArmedByOwner, TypeOK, Locals, Steps, StepsUnderLock
<1>8. MarkersUnderLock'
  BY DEF MarkersUnderLock, TypeOK, Locals, Steps, StepsUnderLock
<1> QED
  BY <1>1, <1>2, <1>3, <1>4, <1>5, <1>6, <1>7, <1>8

\* The thread ends a transaction.
LEMMA EndWriteKeeps ==
    ASSUME NEW p \in Processes, RuntimeInv, EndWrite(p)
    PROVE  RuntimeInv'
<1> USE DEF RuntimeInv, EndWrite, At, files, LockedSteps, UnstartedSteps
<1>1. TypeOK'
  BY DEF TypeOK, Locals, Steps
<1>2. StepsUnderLock'
  BY DEF StepsUnderLock, TypeOK, Locals, Steps, PidOfOwner
<1>3. ThreadUnderLock'
  BY DEF ThreadUnderLock, TypeOK, Locals, Steps, StepsUnderLock, ThreadStarted
<1>4. ThreadStarted'
  BY DEF ThreadStarted, TypeOK, Locals, Steps
<1>5. StopCalls'
  BY DEF StopCalls, TypeOK, Locals, Steps
<1>6. PidOfOwner'
  BY DEF PidOfOwner, TypeOK, Locals, Steps, StepsUnderLock
<1>7. ArmedByOwner'
  BY DEF ArmedByOwner, TypeOK, Locals, Steps, StepsUnderLock
<1>8. MarkersUnderLock'
  BY DEF MarkersUnderLock, TypeOK, Locals, Steps, StepsUnderLock
<1> QED
  BY <1>1, <1>2, <1>3, <1>4, <1>5, <1>6, <1>7, <1>8

\* The thread ends a cycle.
LEMMA EndCycleKeeps ==
    ASSUME NEW p \in Processes, RuntimeInv, EndCycle(p)
    PROVE  RuntimeInv'
<1> USE DEF RuntimeInv, EndCycle, At, files, LockedSteps, UnstartedSteps
<1>1. TypeOK'
  BY DEF TypeOK, Locals, Steps
<1>2. StepsUnderLock'
  BY DEF StepsUnderLock, TypeOK, Locals, Steps, PidOfOwner
<1>3. ThreadUnderLock'
  BY DEF ThreadUnderLock, TypeOK, Locals, Steps, StepsUnderLock, ThreadStarted
<1>4. ThreadStarted'
  BY DEF ThreadStarted, TypeOK, Locals, Steps
<1>5. StopCalls'
  BY DEF StopCalls, TypeOK, Locals, Steps
<1>6. PidOfOwner'
  BY DEF PidOfOwner, TypeOK, Locals, Steps, StepsUnderLock
<1>7. ArmedByOwner'
  BY DEF ArmedByOwner, TypeOK, Locals, Steps, StepsUnderLock
<1>8. MarkersUnderLock'
  BY DEF MarkersUnderLock, TypeOK, Locals, Steps, StepsUnderLock
<1> QED
  BY <1>1, <1>2, <1>3, <1>4, <1>5, <1>6, <1>7, <1>8

\* The thread ends on an error.
LEMMA WorkerFailsKeeps ==
    ASSUME NEW p \in Processes, RuntimeInv, WorkerFails(p)
    PROVE  RuntimeInv'
<1> USE DEF RuntimeInv, WorkerFails, At, files, LockedSteps, UnstartedSteps
<1>1. TypeOK'
  <2>1. process[p] \in Locals /\ marker \in Markers \cup {NULL}
    BY DEF TypeOK
  <2>2. process' = [process EXCEPT ![p] = [process[p] EXCEPT !.thread = "ended", !.event = TRUE]]
    OBVIOUS
  <2>3. [process[p] EXCEPT !.thread = "ended", !.event = TRUE] \in Locals
    BY <2>1 DEF Locals, Steps
  <2>4. process' \in [Processes -> Locals]
    BY <2>2, <2>3 DEF TypeOK
  <2> QED
    BY <2>4 DEF TypeOK
<1>2. StepsUnderLock'
  BY DEF StepsUnderLock, TypeOK, Locals, Steps, PidOfOwner
<1>3. ThreadUnderLock'
  BY DEF ThreadUnderLock, TypeOK, Locals, Steps, StepsUnderLock, ThreadStarted
<1>4. ThreadStarted'
  BY DEF ThreadStarted, TypeOK, Locals, Steps
<1>5. StopCalls'
  BY DEF StopCalls, TypeOK, Locals, Steps
<1>6. PidOfOwner'
  BY DEF PidOfOwner, TypeOK, Locals, Steps, StepsUnderLock
<1>7. ArmedByOwner'
  BY DEF ArmedByOwner, TypeOK, Locals, Steps, StepsUnderLock
<1>8. MarkersUnderLock'
  BY DEF MarkersUnderLock, TypeOK, Locals, Steps, StepsUnderLock
<1> QED
  BY <1>1, <1>2, <1>3, <1>4, <1>5, <1>6, <1>7, <1>8

\* A gate refuses.
LEMMA LeaveGatesKeeps ==
    ASSUME NEW p \in Processes, RuntimeInv, LeaveGates(p)
    PROVE  RuntimeInv'
<1> USE DEF RuntimeInv, LeaveGates, At, files, Goto, LockedSteps, UnstartedSteps
<1>1. TypeOK'
  BY DEF TypeOK, Locals, Steps
<1>2. StepsUnderLock'
  BY DEF StepsUnderLock, TypeOK, Locals, Steps, PidOfOwner
<1>3. ThreadUnderLock'
  BY DEF ThreadUnderLock, TypeOK, Locals, Steps, StepsUnderLock, ThreadStarted
<1>4. ThreadStarted'
  BY DEF ThreadStarted, TypeOK, Locals, Steps
<1>5. StopCalls'
  BY DEF StopCalls, TypeOK, Locals, Steps
<1>6. PidOfOwner'
  BY DEF PidOfOwner, TypeOK, Locals, Steps, StepsUnderLock
<1>7. ArmedByOwner'
  BY DEF ArmedByOwner, TypeOK, Locals, Steps, StepsUnderLock
<1>8. MarkersUnderLock'
  BY DEF MarkersUnderLock, TypeOK, Locals, Steps, StepsUnderLock
<1> QED
  BY <1>1, <1>2, <1>3, <1>4, <1>5, <1>6, <1>7, <1>8

\* The gates pass.
LEMMA PassGatesKeeps ==
    ASSUME NEW p \in Processes, RuntimeInv, PassGates(p)
    PROVE  RuntimeInv'
<1> USE DEF RuntimeInv, PassGates, At, files, Goto, LockedSteps, UnstartedSteps
<1>1. TypeOK'
  BY DEF TypeOK, Locals, Steps
<1>2. StepsUnderLock'
  BY DEF StepsUnderLock, TypeOK, Locals, Steps, PidOfOwner
<1>3. ThreadUnderLock'
  BY DEF ThreadUnderLock, TypeOK, Locals, Steps, StepsUnderLock, ThreadStarted
<1>4. ThreadStarted'
  BY DEF ThreadStarted, TypeOK, Locals, Steps
<1>5. StopCalls'
  BY DEF StopCalls, TypeOK, Locals, Steps
<1>6. PidOfOwner'
  BY DEF PidOfOwner, TypeOK, Locals, Steps, StepsUnderLock
<1>7. ArmedByOwner'
  BY DEF ArmedByOwner, TypeOK, Locals, Steps, StepsUnderLock
<1>8. MarkersUnderLock'
  BY DEF MarkersUnderLock, TypeOK, Locals, Steps, StepsUnderLock
<1> QED
  BY <1>1, <1>2, <1>3, <1>4, <1>5, <1>6, <1>7, <1>8

\* The control is armed by the holder of the lock.
LEMMA AuthorizeKeeps ==
    ASSUME NEW p \in Processes, RuntimeInv, Authorize(p)
    PROVE  RuntimeInv'
<1> USE DEF RuntimeInv, Authorize, At, files, Goto, LockedSteps, UnstartedSteps
<1>1. TypeOK'
  BY DEF TypeOK, Locals, Steps
<1>2. StepsUnderLock'
  BY DEF StepsUnderLock, TypeOK, Locals, Steps, PidOfOwner
<1>3. ThreadUnderLock'
  BY DEF ThreadUnderLock, TypeOK, Locals, Steps, StepsUnderLock, ThreadStarted
<1>4. ThreadStarted'
  BY DEF ThreadStarted, TypeOK, Locals, Steps
<1>5. StopCalls'
  BY DEF StopCalls, TypeOK, Locals, Steps
<1>6. PidOfOwner'
  BY DEF PidOfOwner, TypeOK, Locals, Steps, StepsUnderLock
<1>7. ArmedByOwner'
  BY DEF ArmedByOwner, TypeOK, Locals, Steps, StepsUnderLock
<1>8. MarkersUnderLock'
  BY DEF MarkersUnderLock, TypeOK, Locals, Steps, StepsUnderLock
<1> QED
  BY <1>1, <1>2, <1>3, <1>4, <1>5, <1>6, <1>7, <1>8

\* The bounded cycle ends.
LEMMA RunOnceKeeps ==
    ASSUME NEW p \in Processes, RuntimeInv, RunOnce(p)
    PROVE  RuntimeInv'
<1> USE DEF RuntimeInv, RunOnce, At, files, Goto, LockedSteps, UnstartedSteps
<1>1. TypeOK'
  BY DEF TypeOK, Locals, Steps
<1>2. StepsUnderLock'
  BY DEF StepsUnderLock, TypeOK, Locals, Steps, PidOfOwner
<1>3. ThreadUnderLock'
  BY DEF ThreadUnderLock, TypeOK, Locals, Steps, StepsUnderLock, ThreadStarted
<1>4. ThreadStarted'
  BY DEF ThreadStarted, TypeOK, Locals, Steps
<1>5. StopCalls'
  BY DEF StopCalls, TypeOK, Locals, Steps
<1>6. PidOfOwner'
  BY DEF PidOfOwner, TypeOK, Locals, Steps, StepsUnderLock
<1>7. ArmedByOwner'
  BY DEF ArmedByOwner, TypeOK, Locals, Steps, StepsUnderLock
<1>8. MarkersUnderLock'
  BY DEF MarkersUnderLock, TypeOK, Locals, Steps, StepsUnderLock
<1> QED
  BY <1>1, <1>2, <1>3, <1>4, <1>5, <1>6, <1>7, <1>8

\* PAUSE, under the lock.
LEMMA PauseKeeps ==
    ASSUME NEW p \in Processes, RuntimeInv, Pause(p)
    PROVE  RuntimeInv'
<1> USE DEF RuntimeInv, Pause, At, files, Goto, LockedSteps, UnstartedSteps
<1>1. TypeOK'
  BY DEF TypeOK, Locals, Steps
<1>2. StepsUnderLock'
  BY DEF StepsUnderLock, TypeOK, Locals, Steps, PidOfOwner
<1>3. ThreadUnderLock'
  BY DEF ThreadUnderLock, TypeOK, Locals, Steps, StepsUnderLock, ThreadStarted
<1>4. ThreadStarted'
  BY DEF ThreadStarted, TypeOK, Locals, Steps
<1>5. StopCalls'
  BY DEF StopCalls, TypeOK, Locals, Steps
<1>6. PidOfOwner'
  BY DEF PidOfOwner, TypeOK, Locals, Steps, StepsUnderLock
<1>7. ArmedByOwner'
  BY DEF ArmedByOwner, TypeOK, Locals, Steps, StepsUnderLock
<1>8. MarkersUnderLock'
  BY DEF MarkersUnderLock, TypeOK, Locals, Steps, StepsUnderLock
<1> QED
  BY <1>1, <1>2, <1>3, <1>4, <1>5, <1>6, <1>7, <1>8

\* DISARM, under the lock: a failure of both is recorded.
LEMMA DisarmKeeps ==
    ASSUME NEW p \in Processes, RuntimeInv, Disarm(p)
    PROVE  RuntimeInv'
<1> USE DEF RuntimeInv, Disarm, At, files, Goto, LockedSteps, UnstartedSteps
<1>1. TypeOK'
  BY DEF TypeOK, Locals, Steps
<1>2. StepsUnderLock'
  BY DEF StepsUnderLock, TypeOK, Locals, Steps, PidOfOwner
<1>3. ThreadUnderLock'
  BY DEF ThreadUnderLock, TypeOK, Locals, Steps, StepsUnderLock, ThreadStarted
<1>4. ThreadStarted'
  BY DEF ThreadStarted, TypeOK, Locals, Steps
<1>5. StopCalls'
  BY DEF StopCalls, TypeOK, Locals, Steps
<1>6. PidOfOwner'
  BY DEF PidOfOwner, TypeOK, Locals, Steps, StepsUnderLock
<1>7. ArmedByOwner'
  BY DEF ArmedByOwner, TypeOK, Locals, Steps, StepsUnderLock
<1>8. MarkersUnderLock'
  BY DEF MarkersUnderLock, TypeOK, Locals, Steps, StepsUnderLock
<1> QED
  BY <1>1, <1>2, <1>3, <1>4, <1>5, <1>6, <1>7, <1>8

\* A marker is published where there is none.
LEMMA SignalStopKeeps ==
    ASSUME NEW p \in Processes, RuntimeInv, SignalStop(p)
    PROVE  RuntimeInv'
<1> USE DEF RuntimeInv, SignalStop, At, files, Publishes, PublishMarker, Markers, LockedSteps, UnstartedSteps
<1>1. TypeOK'
  <2>1. process[p] \in Locals /\ marker \in Markers \cup {NULL}
    BY DEF TypeOK
  <2>2. process' = [process EXCEPT ![p] = [process[p] EXCEPT !.step = "joining", !.event = TRUE, !.calls = 1]]
    OBVIOUS
  <2>a. process[p].calls \in 0..1
    BY <2>1 DEF StopCalls, Locals
  <2>b. 1 \in 0..2 /\ 2 \in 0..2
    OBVIOUS
  <2>3. [process[p] EXCEPT !.step = "joining", !.event = TRUE, !.calls = 1] \in Locals
    BY <2>1, <2>b DEF Locals, Steps
  <2>4. process' \in [Processes -> Locals]
    BY <2>2, <2>3 DEF TypeOK
  <2>5. marker' \in Markers \cup {NULL}
    BY <2>1, <2>a DEF TypeOK
  <2> QED
    BY <2>4, <2>5 DEF TypeOK
<1>2. StepsUnderLock'
  BY DEF StepsUnderLock, TypeOK, Locals, Steps, PidOfOwner
<1>3. ThreadUnderLock'
  BY DEF ThreadUnderLock, TypeOK, Locals, Steps, StepsUnderLock, ThreadStarted
<1>4. ThreadStarted'
  BY DEF ThreadStarted, TypeOK, Locals, Steps
<1>5. StopCalls'
  BY DEF StopCalls, TypeOK, Locals, Steps
<1>6. PidOfOwner'
  BY DEF PidOfOwner, TypeOK, Locals, Steps, StepsUnderLock
<1>7. ArmedByOwner'
  BY DEF ArmedByOwner, TypeOK, Locals, Steps, StepsUnderLock
<1>8. MarkersUnderLock'
  BY DEF MarkersUnderLock, TypeOK, Locals, Steps, StepsUnderLock
<1> QED
  BY <1>1, <1>2, <1>3, <1>4, <1>5, <1>6, <1>7, <1>8

\* So it is by a second stop().
LEMMA StopAgainKeeps ==
    ASSUME NEW p \in Processes, RuntimeInv, StopAgain(p)
    PROVE  RuntimeInv'
<1> USE DEF RuntimeInv, StopAgain, At, files, Publishes, PublishMarker, Markers, LockedSteps, UnstartedSteps
<1>1. TypeOK'
  <2>1. process[p] \in Locals /\ marker \in Markers \cup {NULL}
    BY DEF TypeOK
  <2>2. process' = [process EXCEPT ![p] = [process[p] EXCEPT !.step = "exit", !.event = TRUE, !.calls = 2]]
    OBVIOUS
  <2>a. process[p].calls \in 0..1
    BY <2>1 DEF StopCalls, Locals
  <2>b. 1 \in 0..2 /\ 2 \in 0..2
    OBVIOUS
  <2>3. [process[p] EXCEPT !.step = "exit", !.event = TRUE, !.calls = 2] \in Locals
    BY <2>1, <2>b DEF Locals, Steps
  <2>4. process' \in [Processes -> Locals]
    BY <2>2, <2>3 DEF TypeOK
  <2>5. marker' \in Markers \cup {NULL}
    BY <2>1, <2>a DEF TypeOK
  <2> QED
    BY <2>4, <2>5 DEF TypeOK
<1>2. StepsUnderLock'
  BY DEF StepsUnderLock, TypeOK, Locals, Steps, PidOfOwner
<1>3. ThreadUnderLock'
  BY DEF ThreadUnderLock, TypeOK, Locals, Steps, StepsUnderLock, ThreadStarted
<1>4. ThreadStarted'
  BY DEF ThreadStarted, TypeOK, Locals, Steps
<1>5. StopCalls'
  BY DEF StopCalls, TypeOK, Locals, Steps
<1>6. PidOfOwner'
  BY DEF PidOfOwner, TypeOK, Locals, Steps, StepsUnderLock
<1>7. ArmedByOwner'
  BY DEF ArmedByOwner, TypeOK, Locals, Steps, StepsUnderLock
<1>8. MarkersUnderLock'
  BY DEF MarkersUnderLock, TypeOK, Locals, Steps, StepsUnderLock
<1> QED
  BY <1>1, <1>2, <1>3, <1>4, <1>5, <1>6, <1>7, <1>8

\* The join gives up or succeeds.
LEMMA JoinKeeps ==
    ASSUME NEW p \in Processes, RuntimeInv, Join(p)
    PROVE  RuntimeInv'
<1> USE DEF RuntimeInv, Join, At, files, Goto, LockedSteps, UnstartedSteps
<1>1. TypeOK'
  BY DEF TypeOK, Locals, Steps
<1>2. StepsUnderLock'
  BY DEF StepsUnderLock, TypeOK, Locals, Steps, PidOfOwner
<1>3. ThreadUnderLock'
  BY DEF ThreadUnderLock, TypeOK, Locals, Steps, StepsUnderLock, ThreadStarted
<1>4. ThreadStarted'
  BY DEF ThreadStarted, TypeOK, Locals, Steps
<1>5. StopCalls'
  BY DEF StopCalls, TypeOK, Locals, Steps
<1>6. PidOfOwner'
  BY DEF PidOfOwner, TypeOK, Locals, Steps, StepsUnderLock
<1>7. ArmedByOwner'
  BY DEF ArmedByOwner, TypeOK, Locals, Steps, StepsUnderLock
<1>8. MarkersUnderLock'
  BY DEF MarkersUnderLock, TypeOK, Locals, Steps, StepsUnderLock
<1> QED
  BY <1>1, <1>2, <1>3, <1>4, <1>5, <1>6, <1>7, <1>8

\* The store is closed.
LEMMA CloseStoreKeeps ==
    ASSUME NEW p \in Processes, RuntimeInv, CloseStore(p)
    PROVE  RuntimeInv'
<1> USE DEF RuntimeInv, CloseStore, At, files, LockedSteps, UnstartedSteps
<1>1. TypeOK'
  <2>1. process[p] \in Locals /\ marker \in Markers \cup {NULL}
    BY DEF TypeOK
  <2>2. process' = [process EXCEPT ![p] = [process[p] EXCEPT !.step = "releasing", !.closed = TRUE]]
    OBVIOUS
  <2>3. [process[p] EXCEPT !.step = "releasing", !.closed = TRUE] \in Locals
    BY <2>1 DEF Locals, Steps
  <2>4. process' \in [Processes -> Locals]
    BY <2>2, <2>3 DEF TypeOK
  <2> QED
    BY <2>4 DEF TypeOK
<1>2. StepsUnderLock'
  BY DEF StepsUnderLock, TypeOK, Locals, Steps, PidOfOwner
<1>3. ThreadUnderLock'
  BY DEF ThreadUnderLock, TypeOK, Locals, Steps, StepsUnderLock, ThreadStarted
<1>4. ThreadStarted'
  BY DEF ThreadStarted, TypeOK, Locals, Steps
<1>5. StopCalls'
  BY DEF StopCalls, TypeOK, Locals, Steps
<1>6. PidOfOwner'
  BY DEF PidOfOwner, TypeOK, Locals, Steps, StepsUnderLock
<1>7. ArmedByOwner'
  BY DEF ArmedByOwner, TypeOK, Locals, Steps, StepsUnderLock
<1>8. MarkersUnderLock'
  BY DEF MarkersUnderLock, TypeOK, Locals, Steps, StepsUnderLock
<1> QED
  BY <1>1, <1>2, <1>3, <1>4, <1>5, <1>6, <1>7, <1>8

\* The PID file goes before the lock.
LEMMA ReleasePidKeeps ==
    ASSUME NEW p \in Processes, RuntimeInv, ReleasePid(p)
    PROVE  RuntimeInv'
<1> USE DEF RuntimeInv, ReleasePid, At, files, Goto, LockedSteps, UnstartedSteps
<1>1. TypeOK'
  BY DEF TypeOK, Locals, Steps
<1>2. StepsUnderLock'
  BY DEF StepsUnderLock, TypeOK, Locals, Steps, PidOfOwner
<1>3. ThreadUnderLock'
  BY DEF ThreadUnderLock, TypeOK, Locals, Steps, StepsUnderLock, ThreadStarted
<1>4. ThreadStarted'
  BY DEF ThreadStarted, TypeOK, Locals, Steps
<1>5. StopCalls'
  BY DEF StopCalls, TypeOK, Locals, Steps
<1>6. PidOfOwner'
  BY DEF PidOfOwner, TypeOK, Locals, Steps, StepsUnderLock
<1>7. ArmedByOwner'
  BY DEF ArmedByOwner, TypeOK, Locals, Steps, StepsUnderLock
<1>8. MarkersUnderLock'
  BY DEF MarkersUnderLock, TypeOK, Locals, Steps, StepsUnderLock
<1> QED
  BY <1>1, <1>2, <1>3, <1>4, <1>5, <1>6, <1>7, <1>8

\* The lock goes when no thread can write and no PID is left.
LEMMA ReleaseLockKeeps ==
    ASSUME NEW p \in Processes, RuntimeInv, ReleaseLock(p)
    PROVE  RuntimeInv'
<1> USE DEF RuntimeInv, ReleaseLock, At, files, LockedSteps, UnstartedSteps
<1>1. TypeOK'
  <2>1. process[p] \in Locals /\ marker \in Markers \cup {NULL}
    BY DEF TypeOK
  <2>2. PICK step \in {"exit", "stopping"} :
          process' = [process EXCEPT ![p] = [process[p] EXCEPT !.again = FALSE, !.step = step]]
    OBVIOUS
  <2>3. [process[p] EXCEPT !.again = FALSE, !.step = step] \in Locals
    BY <2>1, <2>2 DEF Locals, Steps
  <2>4. process' \in [Processes -> Locals]
    BY <2>2, <2>3 DEF TypeOK
  <2> QED
    BY <2>4 DEF TypeOK
<1>2. StepsUnderLock'
  BY DEF StepsUnderLock, TypeOK, Locals, Steps, PidOfOwner
<1>3. ThreadUnderLock'
  BY DEF ThreadUnderLock, TypeOK, Locals, Steps, StepsUnderLock, ThreadStarted
<1>4. ThreadStarted'
  BY DEF ThreadStarted, TypeOK, Locals, Steps
<1>5. StopCalls'
  BY DEF StopCalls, TypeOK, Locals, Steps
<1>6. PidOfOwner'
  BY DEF PidOfOwner, TypeOK, Locals, Steps, StepsUnderLock
<1>7. ArmedByOwner'
  BY DEF ArmedByOwner, TypeOK, Locals, Steps, StepsUnderLock
<1>8. MarkersUnderLock'
  BY DEF MarkersUnderLock, TypeOK, Locals, Steps, StepsUnderLock
<1> QED
  BY <1>1, <1>2, <1>3, <1>4, <1>5, <1>6, <1>7, <1>8

\* A crash leaves all files behind.
LEMMA CrashKeeps ==
    ASSUME NEW p \in Processes, RuntimeInv, Crash(p)
    PROVE  RuntimeInv'
<1> USE DEF RuntimeInv, Crash, At, files, New, LockedSteps, UnstartedSteps
<1>1. TypeOK'
  <2>1. process[p] \in Locals /\ marker \in Markers \cup {NULL}
    BY DEF TypeOK
  <2>2. process' = [process EXCEPT ![p] = [New EXCEPT !.step = "crashed"]]
    OBVIOUS
  <2> New \in Locals
    BY DEF New, Locals, Steps
  <2>3. [New EXCEPT !.step = "crashed"] \in Locals
    BY <2>1 DEF Locals, Steps
  <2>4. process' \in [Processes -> Locals]
    BY <2>2, <2>3 DEF TypeOK
  <2> QED
    BY <2>4 DEF TypeOK
<1>2. StepsUnderLock'
  BY DEF StepsUnderLock, TypeOK, Locals, Steps, PidOfOwner
<1>3. ThreadUnderLock'
  BY DEF ThreadUnderLock, TypeOK, Locals, Steps, StepsUnderLock, ThreadStarted
<1>4. ThreadStarted'
  BY DEF ThreadStarted, TypeOK, Locals, Steps
<1>5. StopCalls'
  BY DEF StopCalls, TypeOK, Locals, Steps
<1>6. PidOfOwner'
  BY DEF PidOfOwner, TypeOK, Locals, Steps, StepsUnderLock
<1>7. ArmedByOwner'
  BY DEF ArmedByOwner, TypeOK, Locals, Steps, StepsUnderLock
<1>8. MarkersUnderLock'
  BY DEF MarkersUnderLock, TypeOK, Locals, Steps, StepsUnderLock
<1> QED
  BY <1>1, <1>2, <1>3, <1>4, <1>5, <1>6, <1>7, <1>8

\* Every step of the program keeps the invariant.
LEMMA NextKeeps == RuntimeInv /\ [Next]_vars => RuntimeInv'
<1> SUFFICES ASSUME RuntimeInv, [Next]_vars
             PROVE  RuntimeInv'
  OBVIOUS
<1>1. ASSUME NEW p \in Processes, Acquire(p)
      PROVE  RuntimeInv'
  BY <1>1, SnapshotMarkerKeeps, CreateLockKeeps, LockBusyKeeps, WritePidKeeps, AcquireFailsKeeps,
     FindStaleMarkerKeeps, FindLiveMarkerKeeps, RemoveMarkerKeeps, RereadMarkerKeeps
     DEF Acquire
<1>2. ASSUME NEW p \in Processes,
             Start(p) \/ StartFails(p) \/ ServeEnds(p) \/ Interrupted(p) \/ Crash(p)
      PROVE  RuntimeInv'
  BY <1>2, StartKeeps, StartFailsKeeps, ServeEndsKeeps, InterruptedKeeps, CrashKeeps
<1>3. ASSUME NEW p \in Processes, Thread(p)
      PROVE  RuntimeInv'
  BY <1>3, BeginCycleKeeps, BeginWriteKeeps, EndWriteKeeps, EndCycleKeeps, WorkerFailsKeeps
     DEF Thread
<1>4. ASSUME NEW p \in Processes, BoundedAuto(p)
      PROVE  RuntimeInv'
  BY <1>4, LeaveGatesKeeps, PassGatesKeeps, AuthorizeKeeps, RunOnceKeeps, PauseKeeps, DisarmKeeps
     DEF BoundedAuto
<1>5. ASSUME NEW p \in Processes, Stop(p)
      PROVE  RuntimeInv'
  BY <1>5, SignalStopKeeps, StopAgainKeeps, JoinKeeps, CloseStoreKeeps, ReleasePidKeeps,
     ReleaseLockKeeps
     DEF Stop
<1>6. CASE UNCHANGED vars
  BY <1>6 DEF vars, RuntimeInv, TypeOK, StepsUnderLock, ThreadUnderLock, ThreadStarted,
              StopCalls, PidOfOwner, ArmedByOwner, MarkersUnderLock, At
<1> QED
  BY <1>1, <1>2, <1>3, <1>4, <1>5, <1>6 DEF Next

-----------------------------------------------------------------------------
\* The inductive invariant holds in every reachable state of a profile.
THEOREM RuntimeInvariant == Spec => []RuntimeInv
BY InitRuntimeInv, NextKeeps, PTL DEF Spec

\* Files, locals and control state keep their types.
THEOREM RuntimeTyped == Spec => []TypeOK
<1>1. RuntimeInv => TypeOK
  BY DEF RuntimeInv
<1> QED
  BY <1>1, RuntimeInvariant, PTL

\* At most one process of a profile works on its database, though the thread of
\* a stopped one may outlive the two seconds stop() waits for it.
THEOREM OneWriterHolds == Spec => []OneWriter
<1>1. RuntimeInv => OneWriter
  BY DEF RuntimeInv, OneWriter, Writes, ThreadUnderLock, StepsUnderLock, LockedSteps, At
<1> QED
  BY <1>1, RuntimeInvariant, PTL

\* The PID file never outlives the lock of its process.
THEOREM PidUnderLockHolds == Spec => []PidUnderLock
<1>1. RuntimeInv => PidUnderLock
  BY DEF RuntimeInv, PidOfOwner, PidUnderLock
<1> QED
  BY <1>1, RuntimeInvariant, PTL

\* TESTNET is armed only under the profile lock, or after a cleanup that failed.
THEOREM ArmedUnderLockHolds == Spec => []ArmedUnderLock
<1>1. RuntimeInv => ArmedUnderLock
  BY DEF RuntimeInv, ArmedByOwner, ArmedUnderLock
<1> QED
  BY <1>1, RuntimeInvariant, PTL

\* Only the process that starts removes a marker, and never one that was
\* published under its own lock.
LEMMA RequestKept ==
    ASSUME RuntimeInv, [Next]_vars, marker # NULL, marker' # marker
    PROVE  marker.under = NULL \/ marker.under # lock
<1>1. ASSUME NEW p \in Processes, Acquire(p)
      PROVE  RemoveMarker(p)
  BY <1>1 DEF Acquire, files, SnapshotMarker, CreateLock, LockBusy, WritePid, AcquireFails,
              FindStaleMarker, FindLiveMarker, RereadMarker
<1>2. ASSUME NEW p \in Processes, Stop(p)
      PROVE  FALSE
  BY <1>2 DEF Stop, files, SignalStop, StopAgain, PublishMarker, Publishes, Join, CloseStore, ReleasePid, ReleaseLock
<1>3. ASSUME NEW p \in Processes, Thread(p) \/ BoundedAuto(p)
      PROVE  FALSE
  BY <1>3 DEF Thread, BoundedAuto, files, BeginCycle, BeginWrite, EndWrite, EndCycle, WorkerFails,
              LeaveGates, PassGates, Authorize, RunOnce, Pause, Disarm
<1>4. ASSUME NEW p \in Processes,
             Start(p) \/ StartFails(p) \/ ServeEnds(p) \/ Interrupted(p) \/ Crash(p)
      PROVE  FALSE
  BY <1>4 DEF files, Start, StartFails, ServeEnds, Interrupted, Crash
<1>5. PICK p \in Processes : RemoveMarker(p)
  BY <1>1, <1>2, <1>3, <1>4 DEF Next, vars
<1>6. At(p, "clearing") /\ lock = p
  BY <1>5 DEF RemoveMarker, RuntimeInv, StepsUnderLock, LockedSteps, At
<1> QED
  BY <1>6 DEF RuntimeInv, MarkersUnderLock

\* A live stop request survives the process it is addressed to.
THEOREM LiveRequestKeptHolds == Spec => LiveRequestKept
<1>1. RuntimeInv /\ [Next]_vars =>
        [marker # NULL /\ marker' # marker
            => marker.under = NULL \/ marker.under # lock]_vars
  BY RequestKept
<1> QED
  BY <1>1, RuntimeInvariant, PTL DEF Spec, LiveRequestKept
=============================================================================
