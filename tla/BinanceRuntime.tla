---------------------------- MODULE BinanceRuntime ----------------------------
(***************************************************************************)
(* The single-owner lifecycle of the Binance development runtimes          *)
(* (binance_dev.py): the lock, PID and stop files of one profile, the      *)
(* start and stop of a PAPER process with its worker thread, and a TESTNET *)
(* process that serves, takes one locked action, or runs the bounded       *)
(* autonomous cycle.  All processes of a profile share its runtime         *)
(* identity; a process runs one command and ends.  A crash leaves the      *)
(* files behind, and nothing in the code takes them away.                  *)
(***************************************************************************)
EXTENDS Integers

CONSTANTS Processes, NULL

ASSUME RuntimeConstants == NULL \notin Processes

VARIABLES
    environment,  \* which runtime it is: PAPER or TESTNET
    lock,         \* lock file: the process named in it
    pid,          \* PID file
    marker,       \* stop file: who wrote it, how often, and who ran then
    process,      \* locals of a process
    control,      \* TESTNET control state
    unclean       \* history: autos whose PAUSE and DISARM both failed

vars == <<environment, lock, pid, marker, process, control, unclean>>

Markers == [by : Processes, copy : 1..2, under : Processes \cup {NULL}]

Steps == {"new", "snapped", "locked", "owned", "clearing", "rereading", "starting", "serving",
          "gates", "authorizing", "cycle", "pausing", "disarming", "releasing", "unlocking",
          "stopping", "joining", "closing", "exit", "crashed"}

\* snap: the marker read before the lock; event: stop_event; calls: how often
\* stop() was called; again: stop() is called once more by the finally of the
\* command; thread: the PAPER worker; closed: the store.
Locals == [step : Steps, snap : Markers \cup {NULL}, event : BOOLEAN, calls : 0..2,
           again : BOOLEAN, closed : BOOLEAN,
           thread : {"none", "waiting", "cycle", "writing", "ended"}]

New == [step |-> "new", snap |-> NULL, event |-> FALSE, calls |-> 0, again |-> FALSE,
        closed |-> FALSE, thread |-> "none"]

files == <<lock, pid, marker>>

At(p, step) == process[p].step = step
Goto(p, step) == process' = [process EXCEPT ![p].step = step]

\* stop() is called, and once more later or not.
CallStop(p, again) ==
    process' = [process EXCEPT ![p] = [@ EXCEPT !.step = "stopping", !.again = again]]
-----------------------------------------------------------------------------
\* _acquire_paper and _acquire_testnet.

SnapshotMarker(p) ==
    /\ At(p, "new")
    /\ process' = [process EXCEPT ![p] = [@ EXCEPT !.step = "snapped", !.snap = marker]]
    /\ UNCHANGED <<environment, files, control, unclean>>

\* os.open with O_CREAT | O_EXCL; who loses it leaves by way of stop().
CreateLock(p) ==
    /\ At(p, "snapped")
    /\ lock = NULL
    /\ lock' = p
    /\ Goto(p, "locked")
    /\ UNCHANGED <<environment, pid, marker, control, unclean>>

LockBusy(p) ==
    /\ At(p, "snapped")
    /\ lock # NULL
    /\ CallStop(p, FALSE)
    /\ UNCHANGED <<environment, files, control, unclean>>

WritePid(p) ==
    /\ At(p, "locked")
    /\ pid' = p
    /\ Goto(p, "owned")
    /\ UNCHANGED <<environment, lock, marker, control, unclean>>

\* A failing write gives both files back.
AcquireFails(p) ==
    /\ At(p, "locked")
    /\ lock' = NULL
    /\ CallStop(p, FALSE)
    /\ UNCHANGED <<environment, pid, marker, control, unclean>>

\* What follows the acquisition.
Acquired(p, requested) ==
    \E step \in IF environment = "PAPER" THEN {"starting"} ELSE {"starting", "gates"} :
        process' = [process EXCEPT ![p] = [@ EXCEPT !.step = step, !.event = requested]]

\* Mutant: whatever marker is there is cleared.
SameAsAny(p) == marker # NULL

\* The marker is the one of the snapshot, hence stale.
SameAsBefore(p) == marker # NULL /\ marker = process[p].snap

\* _clear_stale_stop finds the marker of the snapshot ...
FindStaleMarker(p) ==
    /\ At(p, "owned")
    /\ SameAsBefore(p)
    /\ Goto(p, "clearing")
    /\ UNCHANGED <<environment, files, control, unclean>>

\* ... or none, or one that appeared since, which is a live request.
FindLiveMarker(p) ==
    /\ At(p, "owned")
    /\ ~SameAsBefore(p)
    /\ Acquired(p, marker # NULL)
    /\ UNCHANGED <<environment, files, control, unclean>>

\* _remove_stop_marker_if_snapshot; none but the holder of the lock removes one,
\* so that it is still the one that was compared.
RemoveMarker(p) ==
    /\ At(p, "clearing")
    /\ marker' = NULL
    /\ Goto(p, "rereading")
    /\ UNCHANGED <<environment, lock, pid, control, unclean>>

RereadMarker(p) ==
    /\ At(p, "rereading")
    /\ Acquired(p, marker # NULL)
    /\ UNCHANGED <<environment, files, control, unclean>>
-----------------------------------------------------------------------------
\* start and serve.

\* The dashboard starts, and with it the worker thread of PAPER ...
Start(p) ==
    /\ At(p, "starting")
    /\ process' = [process EXCEPT ![p] = [@ EXCEPT !.step = "serving",
          !.thread = IF environment = "PAPER" THEN "waiting" ELSE "none"]]
    /\ UNCHANGED <<environment, files, control, unclean>>

\* ... or it does not: start() calls stop(), and so does the finally.
StartFails(p) ==
    /\ At(p, "starting")
    /\ CallStop(p, TRUE)
    /\ UNCHANGED <<environment, files, control, unclean>>

\* Mutant: only the marker that carries its own token stops a process.
StopSeenByOwner(p) == process[p].event \/ (marker # NULL /\ marker.by = p)

StopSeen(p) == process[p].event \/ marker # NULL

\* serve_forever of PAPER sees its event or a marker of its identity; it calls
\* stop() itself when there is a marker.
ServeEnds(p) ==
    /\ At(p, "serving")
    /\ environment = "PAPER"
    /\ StopSeen(p)
    /\ CallStop(p, marker # NULL)
    /\ UNCHANGED <<environment, files, control, unclean>>

\* Control-C, --once, or an error of the server; TESTNET ends no other way.
Interrupted(p) ==
    /\ At(p, "serving")
    /\ \E again \in BOOLEAN : CallStop(p, again)
    /\ UNCHANGED <<environment, files, control, unclean>>

\* The worker thread: run, its cycles, and their transactions under the lock of
\* the store.  A closed store ends the thread.
BeginCycle(p) ==
    /\ process[p].thread = "waiting"
    /\ process' = [process EXCEPT ![p].thread =
          IF process[p].event THEN "ended" ELSE "cycle"]
    /\ UNCHANGED <<environment, files, control, unclean>>

BeginWrite(p) ==
    /\ process[p].thread = "cycle"
    /\ process' = [process EXCEPT ![p].thread = IF process[p].closed THEN "ended"
                                                ELSE "writing"]
    /\ UNCHANGED <<environment, files, control, unclean>>

EndWrite(p) ==
    /\ process[p].thread = "writing"
    /\ process' = [process EXCEPT ![p].thread = "cycle"]
    /\ UNCHANGED <<environment, files, control, unclean>>

EndCycle(p) ==
    /\ process[p].thread = "cycle"
    /\ process' = [process EXCEPT ![p].thread = "waiting"]
    /\ UNCHANGED <<environment, files, control, unclean>>

\* The cycle fails and so does its pause: _run_worker sets the event.
WorkerFails(p) ==
    /\ process[p].thread = "cycle"
    /\ process' = [process EXCEPT ![p] = [@ EXCEPT !.thread = "ended", !.event = TRUE]]
    /\ UNCHANGED <<environment, files, control, unclean>>
-----------------------------------------------------------------------------
\* TESTNET: locked_action and auto, from the gates on.

\* A gate refuses, the deadline is over, or it was one locked action.
LeaveGates(p) ==
    /\ At(p, "gates")
    /\ Goto(p, "releasing")
    /\ UNCHANGED <<environment, files, control, unclean>>

PassGates(p) ==
    /\ At(p, "gates")
    /\ Goto(p, "authorizing")
    /\ UNCHANGED <<environment, files, control, unclean>>

\* Mutant: an authorization that raises was none.
AuthorizeOrLeave(p) ==
    /\ At(p, "authorizing")
    /\ control' \in {"ARMED", control}
    /\ \E step \in {"cycle", "releasing"} : Goto(p, step)
    /\ UNCHANGED <<environment, files, unclean>>

\* authorize_bounded_auto arms the control; it may fail before or after.
Authorize(p) ==
    /\ At(p, "authorizing")
    /\ \/ control' = "ARMED" /\ \E step \in {"cycle", "pausing"} : Goto(p, step)
       \/ UNCHANGED control /\ Goto(p, "pausing")
    /\ UNCHANGED <<environment, files, unclean>>

\* One cycle of the worker, which ends or fails: the finally.
RunOnce(p) ==
    /\ At(p, "cycle")
    /\ Goto(p, "pausing")
    /\ UNCHANGED <<environment, files, control, unclean>>

\* _pause_after_auto: PAUSE, and DISARM whatever became of it.
Pause(p) ==
    /\ At(p, "pausing")
    /\ control' \in {"PAUSED", control}
    /\ Goto(p, "disarming")
    /\ UNCHANGED <<environment, files, unclean>>

Disarm(p) ==
    /\ At(p, "disarming")
    /\ control' \in {"DISARMED", control}
    /\ unclean' = IF control' = "ARMED" THEN unclean \cup {p} ELSE unclean
    /\ Goto(p, "releasing")
    /\ UNCHANGED <<environment, files>>
-----------------------------------------------------------------------------
\* stop and _release_lock.

\* PAPER publishes its marker on every call, whoever holds the lock; TESTNET
\* only as the owner.  An existing one is never replaced.
Publishes(p) == marker = NULL /\ (environment = "PAPER" \/ lock = p)

PublishMarker(p) ==
    marker' = IF Publishes(p) THEN [by |-> p, copy |-> process[p].calls + 1, under |-> lock]
              ELSE marker

\* stop() up to the join of the thread.
SignalStop(p) ==
    /\ At(p, "stopping")
    /\ ~process[p].closed
    /\ PublishMarker(p)
    /\ process' = [process EXCEPT ![p] =
          [@ EXCEPT !.step = "joining", !.event = TRUE, !.calls = 1]]
    /\ UNCHANGED <<environment, lock, pid, control, unclean>>

\* Mutant: a stop that finds the runtime closed is tried again.
StopForever(p) ==
    /\ At(p, "stopping")
    /\ process[p].closed
    /\ PublishMarker(p)
    /\ process' = [process EXCEPT ![p] = [@ EXCEPT !.event = TRUE, !.calls = @ + 1]]
    /\ UNCHANGED <<environment, lock, pid, control, unclean>>

\* The second stop() only publishes, though the lock may be another's now.
StopAgain(p) ==
    /\ At(p, "stopping")
    /\ process[p].closed
    /\ PublishMarker(p)
    /\ process' = [process EXCEPT ![p] =
          [@ EXCEPT !.step = "exit", !.event = TRUE, !.calls = 2]]
    /\ UNCHANGED <<environment, lock, pid, control, unclean>>

\* The thread has ended, or two seconds are over.
Join(p) ==
    /\ At(p, "joining")
    /\ Goto(p, "closing")
    /\ UNCHANGED <<environment, files, control, unclean>>

\* Mutant: the store stays open for a thread that has not ended.
CloseIdleStore(p) ==
    /\ At(p, "closing")
    /\ process' = [process EXCEPT ![p] = [@ EXCEPT !.step = "releasing",
          !.closed = @ \/ process[p].thread \in {"none", "ended"}]]
    /\ UNCHANGED <<environment, files, control, unclean>>

\* store.close waits for the lock of the store.
CloseStore(p) ==
    /\ At(p, "closing")
    /\ process[p].thread # "writing"
    /\ process' = [process EXCEPT ![p] = [@ EXCEPT !.step = "releasing", !.closed = TRUE]]
    /\ UNCHANGED <<environment, files, control, unclean>>

\* Mutant: the lock goes first.
ReleaseLockFirst(p) ==
    /\ At(p, "releasing")
    /\ lock' = IF lock = p THEN NULL ELSE lock
    /\ Goto(p, "unlocking")
    /\ UNCHANGED <<environment, pid, marker, control, unclean>>

\* _release_lock unlinks the PID file and then the lock, each only as its owner.
ReleasePid(p) ==
    /\ At(p, "releasing")
    /\ pid' = IF pid = p THEN NULL ELSE pid
    /\ Goto(p, "unlocking")
    /\ UNCHANGED <<environment, lock, marker, control, unclean>>

\* Then stop() is called by the command, or once more, or the process ends.
ReleaseLock(p) ==
    /\ At(p, "unlocking")
    /\ lock' = IF lock = p THEN NULL ELSE lock
    /\ process' = [process EXCEPT ![p] = [@ EXCEPT !.again = FALSE,
          !.step = IF process[p].closed /\ ~process[p].again THEN "exit" ELSE "stopping"]]
    /\ UNCHANGED <<environment, pid, marker, control, unclean>>

Crash(p) ==
    /\ process[p].step \notin {"new", "exit", "crashed"}
    /\ process' = [process EXCEPT ![p] = [New EXCEPT !.step = "crashed"]]
    /\ UNCHANGED <<environment, files, control, unclean>>
-----------------------------------------------------------------------------
Init ==
    /\ environment \in {"PAPER", "TESTNET"}
    /\ lock = NULL /\ pid = NULL /\ marker = NULL
    /\ process = [p \in Processes |-> New]
    /\ control = "DISARMED"
    /\ unclean = {}

Acquire(p) ==
    \/ SnapshotMarker(p) \/ CreateLock(p) \/ LockBusy(p) \/ WritePid(p) \/ AcquireFails(p)
    \/ FindStaleMarker(p) \/ FindLiveMarker(p) \/ RemoveMarker(p) \/ RereadMarker(p)

Thread(p) == BeginCycle(p) \/ BeginWrite(p) \/ EndWrite(p) \/ EndCycle(p) \/ WorkerFails(p)

BoundedAuto(p) ==
    LeaveGates(p) \/ PassGates(p) \/ Authorize(p) \/ RunOnce(p) \/ Pause(p) \/ Disarm(p)

Stop(p) ==
    SignalStop(p) \/ StopAgain(p) \/ Join(p) \/ CloseStore(p) \/ ReleasePid(p) \/ ReleaseLock(p)

Next ==
    \E p \in Processes :
        \/ Acquire(p) \/ Start(p) \/ StartFails(p) \/ ServeEnds(p) \/ Interrupted(p)
        \/ Thread(p) \/ BoundedAuto(p) \/ Stop(p) \/ Crash(p)

Spec == Init /\ [][Next]_vars

\* What a started process does of itself.
Main(p) ==
    \/ ~At(p, "new") /\ Acquire(p)
    \/ Start(p) \/ ServeEnds(p) \/ BoundedAuto(p) \/ Stop(p)

\* A started process goes on: the serving loop looks every quarter of a second,
\* a transaction of the thread ends, and close() gets the lock of the store.
FairSpec == Spec /\ \A p \in Processes : SF_vars(Main(p)) /\ WF_vars(EndWrite(p))
-----------------------------------------------------------------------------
\* Properties.

\* The files, the locals and the control state keep their types.
TypeOK ==
    /\ environment \in {"PAPER", "TESTNET"}
    /\ lock \in Processes \cup {NULL} /\ pid \in Processes \cup {NULL}
    /\ marker \in Markers \cup {NULL}
    /\ process \in [Processes -> Locals]
    /\ control \in {"DISARMED", "PAUSED", "ARMED"}
    /\ unclean \subseteq Processes

\* The process can write to the database of the profile from a cycle.
Writes(p) ==
    \/ process[p].thread \in {"cycle", "writing"} /\ ~process[p].closed
    \/ At(p, "cycle")

\* At most one process of a profile works on its database, although stop()
\* waits only two seconds for a thread: the store is closed before the lock is
\* given back.
OneWriter == \A p \in Processes : Writes(p) => lock = p

\* "A contender can therefore never observe a free lock with this runtime's PID
\* still present", whatever fails or crashes on the way.
PidUnderLock == pid # NULL => lock = pid

\* TESTNET is armed only while a process holds the profile lock, unless both
\* PAUSE and DISARM of an auto failed: also after a crash no other process can
\* be started on an armed profile.
ArmedUnderLock == control = "ARMED" => lock # NULL \/ unclean # {}

\* A stop request that is published while a process runs is never removed by
\* that process.
LiveRequestKept ==
    [][marker # NULL /\ marker' # marker => marker.under = NULL \/ marker.under # lock]_vars

\* A PAPER process that serves while a stop request is there gives the lock
\* back, though its thread may hang in a call, or it has crashed.
StopRequestHonoured ==
    \A p \in Processes :
        environment = "PAPER" /\ At(p, "serving") /\ marker # NULL
            ~> lock # p \/ At(p, "crashed")
=============================================================================
