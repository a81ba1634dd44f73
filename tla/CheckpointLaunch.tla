-------------------------- MODULE CheckpointLaunch --------------------------
(***************************************************************************)
(* The root supervisor of the managed LLM worker: the fixed launcher, the  *)
(* custody of the files it stages for the worker, and its owned-stop       *)
(* server.                                                                 *)
(*                                                                         *)
(* One lifetime prepares the model cache, stages a private copy of the     *)
(* executable, starts the worker, publishes a signed custody receipt,      *)
(* supervises the worker and, once it is reaped, reclaims what it staged.  *)
(* Within a lifetime these run concurrently: the launcher (main), the wait *)
(* for the worker (waiter, reaper), the removal of a receipt whose commit  *)
(* failed (undo), the cleanup of the executable (exeJob), the terminal     *)
(* release (rel) and the handler of a stop request (stop).  The last three *)
(* may outlive the caller that started them.                               *)
(*                                                                         *)
(* A lifetime ends by itself, or is killed; the cache, the files and the   *)
(* stop receipts stay on disk for the next one.                            *)
(***************************************************************************)
EXTENDS Naturals, FiniteSets

CONSTANTS
    Commands,      \* the owned-stop commands the node agent may send
    LaunchLimits   \* the bounds of a scenario: [faults, lives]

ASSUME LaunchLimitsAssumption ==
    LaunchLimits \subseteq [faults : Nat, lives : Nat]

None == "none"

VARIABLES
    main,       \* where the launcher is
    pinned,     \* the pinned launch plan is still the one on disk
    lifetime,   \* the supervision context has not been cancelled
    cache,      \* the reusable model: empty, model (no record), recorded
    keys,       \* the two signing key pairs: none, private (half), pair
    debris,     \* what earlier lifetimes left in the store, owned by nobody
    exe,        \* the staged executable of this lifetime
    receipt,    \* the custody receipt of this lifetime
    child,      \* the worker process
    status,     \* how the worker ended: expected (0 or SIGTERM) or other
    killed,     \* SIGKILL was sent through the pidfd
    launch,     \* the CheckpointControlledLaunch
    waiter,     \* WaitContext
    waitErr,    \* what WaitContext returned
    reaper,     \* the goroutine that waits for the process
    undo,       \* the background removal of a receipt that was not committed
    exeJob,     \* who waits for the cleanup of the executable
    rel,        \* where the terminal release is
    relFor,     \* who waits for it
    stop,       \* the owned-stop server
    receipts,   \* the stop receipts on disk
    intent,     \* the stop the node agent's journal holds as pending
    faults,     \* faults that may still happen
    lives       \* lifetimes that may still begin

store == <<cache, keys, debris, exe, receipt>>
worker == <<child, status, killed>>
waiting == <<waiter, waitErr, reaper>>
releasing == <<exeJob, rel, relFor>>
disk == <<receipts, intent>>
budget == <<faults, lives>>
launchVars == <<main, pinned, lifetime, store, worker, launch, waiting, undo,
                releasing, stop, disk, budget>>

-----------------------------------------------------------------------------
(* State.                                                                  *)

\* A file is removed by renaming it to a private name, unlinking that name
\* and syncing the directory; each step is remembered and can be resumed.
Kept == {"live", "captured", "removed"}

NoLaunch == [started |-> FALSE, created |-> FALSE, reaped |-> FALSE,
             failedStart |-> FALSE, waitStarted |-> FALSE,
             commitPending |-> FALSE, committed |-> FALSE, aborting |-> FALSE,
             aborted |-> FALSE, terminal |-> FALSE, released |-> FALSE]

NoStop == [at |-> "idle", cmd |-> None, active |-> FALSE, acked |-> FALSE]

Down == {"exited", "unacknowledged", "crashed"}
Up == main \notin Down

\* The steps after the worker has been given up.
Ending == {"discard", "abort", "aborting", "cancel", "release", "retain"}

ASSUME NoneIsNotACommand == None \notin Commands

\* The unit has not been started yet.
LaunchInit ==
    /\ main = "exited" /\ pinned = TRUE /\ lifetime = TRUE
    /\ cache = "empty" /\ debris = {}
    /\ keys = [k \in {"custody", "stop"} |-> None]
    /\ exe = None /\ receipt = None
    /\ child = None /\ status = None /\ killed = FALSE
    /\ launch = NoLaunch
    /\ waiter = "off" /\ waitErr = None /\ reaper = "off"
    /\ undo = "off" /\ exeJob = "idle" /\ rel = "idle" /\ relFor = "nobody"
    /\ stop = NoStop
    /\ receipts = [c \in Commands |-> None] /\ intent = None
    /\ \E limit \in LaunchLimits : faults = limit.faults /\ lives = limit.lives

\* A step that fails, or runs into its time limit, spends one fault.
LaunchFault == faults > 0 /\ faults' = faults - 1 /\ lives' = lives
NoFault == UNCHANGED budget

\* Any one step may work or fail.
Advances(ok, then, else) ==
    \/ ok /\ NoFault /\ main' = then
    \/ LaunchFault /\ main' = else

-----------------------------------------------------------------------------
(* The launcher up to the start of the worker.                             *)

Idle == UNCHANGED <<worker, waiting, undo, releasing, stop, disk>>

\* Open and validate the plan, discover the device placement.
OpenPlan ==
    /\ main = "open"
    /\ Advances(pinned, "store", "exited")
    /\ Idle /\ UNCHANGED <<pinned, lifetime, store, launch>>

\* A key pair is used when it is whole and made when there is nothing; the
\* private half is written first, and half a pair is refused from then on.
EnsureKeys(k, then, else) ==
    \/ keys[k] = "pair" /\ NoFault /\ main' = then /\ keys' = keys
    \/ keys[k] = "private" /\ NoFault /\ main' = else /\ keys' = keys
    \/ /\ keys[k] = None /\ NoFault
       /\ main' = then /\ keys' = [keys EXCEPT ![k] = "pair"]
    \/ /\ keys[k] = None /\ LaunchFault
       /\ main' = else /\ keys' \in {keys, [keys EXCEPT ![k] = "private"]}

OpenStore ==
    /\ main = "store"
    /\ EnsureKeys("custody", "prepare", "exited")
    /\ Idle /\ UNCHANGED <<pinned, lifetime, cache, debris, exe, receipt, launch>>

\* The cache is used only with its signed record, never next to leftovers of
\* an interrupted copy or cleanup; leftover executables only count as quota.
CacheUsable == cache # "model" /\ debris \cap {"tmp", "cleanup"} = {}

\* The cached model and its record verify against the approved source.
CacheHit == CacheUsable /\ cache = "recorded"

PrepareReusable ==
    /\ main = "prepare"
    /\ \/ ~CacheUsable /\ NoFault /\ main' = "exited"
       \/ CacheHit /\ Advances(TRUE, "begin", "exited")
       \/ CacheUsable /\ cache = "empty" /\ Advances(TRUE, "copy", "exited")
    /\ Idle /\ UNCHANGED <<pinned, lifetime, store, launch>>

\* The copy is renamed into place; a copy that fails is removed, as far as
\* the removal works.
PublishModel ==
    /\ main = "copy"
    /\ \/ NoFault /\ main' = "record" /\ cache' = "model" /\ debris' = debris
       \/ /\ LaunchFault /\ main' = "exited" /\ cache' = cache
          /\ debris' \in {debris, debris \cup {"tmp"}, debris \cup {"cleanup"}}
    /\ Idle /\ UNCHANGED <<pinned, lifetime, keys, exe, receipt, launch>>

\* The record is written after the model; it may fail before or after it is
\* in place.
PublishRecord ==
    /\ main = "record"
    /\ \/ NoFault /\ main' = "begin" /\ cache' = "recorded"
       \/ LaunchFault /\ main' = "exited" /\ cache' \in {"model", "recorded"}
    /\ Idle /\ UNCHANGED <<pinned, lifetime, keys, debris, exe, receipt, launch>>

\* Stage the executable.  A failure after it is in place leaves it, pinned,
\* to Discard; a failure to open it right after the rename leaves it to
\* nobody.
Begin ==
    /\ main = "begin"
    /\ \/ pinned /\ NoFault /\ main' = "start" /\ exe' = "live" /\ debris' = debris
       \/ ~pinned /\ NoFault /\ main' = "discard" /\ UNCHANGED <<exe, debris>>
       \/ /\ pinned /\ LaunchFault /\ main' = "discard"
          /\ \/ exe' \in {None, "live"} /\ debris' = debris
             \/ exe' = None /\ debris' = debris \cup {"exe"}
    /\ Idle /\ UNCHANGED <<pinned, lifetime, cache, keys, receipt, launch>>

\* Start may fail before the process exists, or after it: then the process is
\* killed and waited for before Start returns.
Start ==
    /\ main = "start"
    /\ \/ /\ pinned /\ NoFault /\ main' = "listen"
          /\ child' = "running"
          /\ launch' = [launch EXCEPT !.started = TRUE, !.created = TRUE]
       \/ /\ ~pinned /\ NoFault /\ main' = "abort" /\ UNCHANGED <<child, launch>>
       \/ /\ pinned /\ LaunchFault /\ main' = "abort"
          /\ \E made \in {None, "reaped", "lost"} :
                /\ child' = made
                /\ launch' = [launch EXCEPT !.failedStart = TRUE,
                                            !.created = made # None,
                                            !.reaped = made = "reaped",
                                            !.terminal = made # "lost"]
    /\ UNCHANGED <<pinned, lifetime, store, status, killed, waiting, undo,
                   releasing, stop, disk>>

\* The process is the child that was started, in the unit's control group,
\* and the plan is the pinned one.
LoadingChild == child = "running" /\ pinned

\* Wait until the worker listens and answers as ready; a worker that has
\* ended never does.
Listen ==
    /\ main = "listen"
    /\ \/ Advances(LoadingChild, "commit", "abort")
       \/ ~LoadingChild /\ NoFault /\ main' = "abort"
    /\ Idle /\ UNCHANGED <<pinned, lifetime, store, launch>>

-----------------------------------------------------------------------------
(* The custody receipt.                                                    *)

CommitBegins ==
    /\ main = "commit"
    /\ main' = "publish"
    /\ launch' = [launch EXCEPT !.commitPending = TRUE]
    /\ NoFault /\ Idle /\ UNCHANGED <<pinned, lifetime, store>>

\* What the receipt says of the process: it lives, serves the endpoint, maps
\* the staged model and runs the staged executable.
LiveFacts == child = "running" /\ exe = "live"

\* The receipt is published only for a process whose facts were read twice;
\* a failed directory sync leaves it published.
PublishReceipt ==
    /\ main = "publish"
    /\ \/ /\ LiveFacts /\ NoFault
          /\ main' = "settle" /\ receipt' = "live"
       \/ /\ LiveFacts /\ LaunchFault
          /\ main' = "failed" /\ receipt' \in {None, "live"}
       \/ /\ ~LiveFacts /\ NoFault /\ main' = "failed" /\ receipt' = receipt
    /\ Idle /\ UNCHANGED <<pinned, lifetime, cache, keys, debris, exe, launch>>

\* Mutant: a commit that settles after the reap does not mark the launch
\* terminal.
SettledLosingTerminal(l) == [l EXCEPT !.commitPending = FALSE]

\* The commit is over; with the worker already reaped the launch is terminal.
Settled(l) ==
    [l EXCEPT !.commitPending = FALSE, !.terminal = @ \/ l.reaped]

CommitSettles ==
    /\ main = "settle"
    /\ \/ /\ NoFault /\ main' = "steps" /\ undo' = undo
          /\ launch' = Settled([launch EXCEPT !.committed = TRUE])
       \/ LaunchFault /\ main' = "undo" /\ undo' = "on" /\ launch' = launch
    /\ UNCHANGED <<pinned, lifetime, store, worker, waiting, releasing, stop,
                   disk>>

CommitFails ==
    /\ main = "failed"
    /\ main' = "undo" /\ undo' = "on"
    /\ NoFault
    /\ UNCHANGED <<pinned, lifetime, store, worker, launch, waiting, releasing,
                   stop, disk>>

\* Commit returns when the receipt's removal ends, or after five seconds
\* while the removal goes on.
CommitStopsWaiting ==
    /\ main = "undo"
    /\ main' = "abort"
    /\ \/ undo = "off" /\ NoFault
       \/ undo = "on" /\ LaunchFault
    /\ Idle /\ UNCHANGED <<pinned, lifetime, store, launch>>

\* A receipt on disk that names the live process.
BindingVerified == receipt = "live" /\ LiveFacts

\* The worker as observed from its receipt, its process and the plan.
ManagedWorker == pinned /\ BindingVerified

\* MAINPID, barrier, and two equal observations of the worker.
Join ==
    /\ main = "steps"
    /\ \/ Advances(ManagedWorker, "join", "abort")
       \/ ~ManagedWorker /\ NoFault /\ main' = "abort"
    /\ Idle /\ UNCHANGED <<pinned, lifetime, store, launch>>

StartStopServer ==
    /\ main = "join"
    /\ EnsureKeys("stop", "ready", "abort")
    /\ Idle /\ UNCHANGED <<pinned, lifetime, cache, debris, exe, receipt, launch>>

\* READY; the waiter is registered with the stop server and started.
FinishStartup ==
    /\ main = "ready"
    /\ \/ /\ pinned /\ NoFault
          /\ main' = "supervise"
          /\ waiter' = "waiting" /\ reaper' = "on" /\ waitErr' = waitErr
          /\ launch' = [launch EXCEPT !.waitStarted = TRUE]
       \/ /\ \/ LaunchFault
             \/ ~pinned /\ NoFault
          /\ main' = "abort" /\ UNCHANGED <<launch, waiting>>
    /\ UNCHANGED <<pinned, lifetime, store, worker, undo, releasing, stop, disk>>

-----------------------------------------------------------------------------
(* Waiting for the worker.                                                 *)

\* The context of WaitContext: cancelled from the start when the launcher
\* gives up a started worker, the supervision context otherwise.
WaitCancelled == main = "cancel" \/ ~lifetime

\* The worker ends: by itself, on SIGTERM, or killed.
WorkerEnds ==
    /\ Up /\ child = "running"
    /\ child' = "zombie"
    /\ status' \in IF killed THEN {"other"} ELSE {"expected", "other"}
    /\ NoFault
    /\ UNCHANGED <<main, pinned, lifetime, store, killed, launch, waiting, undo,
                   releasing, stop, disk>>

\* The reaper.  A wait that ends without a process state proves nothing.
Reap ==
    /\ Up /\ reaper = "on" /\ child = "zombie"
    /\ reaper' = "done"
    /\ \/ /\ NoFault /\ child' = "reaped"
          /\ launch' = [launch EXCEPT !.reaped = TRUE,
                                      !.terminal = @ \/ ~launch.commitPending]
       \/ LaunchFault /\ child' = "lost" /\ launch' = launch
    /\ UNCHANGED <<main, pinned, lifetime, store, status, killed, waiter, waitErr,
                   undo, releasing, stop, disk>>

\* The pidfd is held from Start until the reap.
Kill == killed' = (killed \/ child \in {"running", "zombie"})

\* WaitContext waits for the process or the end of its context, in which case
\* it kills the process; then for a commit that was under way when it began.
WaiterWakes ==
    /\ Up /\ waiter = "waiting"
    /\ \/ reaper = "done" /\ ~WaitCancelled /\ killed' = killed
       \/ WaitCancelled /\ Kill
    /\ waiter' = "commit"
    /\ NoFault
    /\ UNCHANGED <<main, pinned, lifetime, store, child, status, launch, waitErr,
                   reaper, undo, releasing, stop, disk>>

WaiterReturns(err) == waiter' = "done" /\ waitErr' = err

WaiterCommit ==
    /\ Up /\ waiter = "commit"
    /\ \/ ~launch.commitPending /\ NoFault /\ waiter' = "child" /\ waitErr' = waitErr
       \/ launch.commitPending /\ LaunchFault /\ WaiterReturns("error")
    /\ UNCHANGED <<main, pinned, lifetime, store, worker, launch, reaper, undo,
                   releasing, stop, disk>>

\* Mutant: after its bound the wait goes on to the cleanup.
WaiterChildCleansAnyway ==
    /\ Up /\ waiter = "child"
    /\ \/ reaper = "done" /\ NoFault
       \/ reaper = "on" /\ LaunchFault
    /\ waiter' = "clean" /\ waitErr' = waitErr
    /\ launch' = [launch EXCEPT !.terminal = TRUE]
    /\ UNCHANGED <<main, pinned, lifetime, store, worker, reaper, undo, releasing,
                   stop, disk>>

\* The wait for the process itself is bounded too.
WaiterChild ==
    /\ Up /\ waiter = "child"
    /\ \/ /\ reaper = "done" /\ launch.reaped /\ NoFault
          /\ waiter' = "clean" /\ waitErr' = waitErr
          /\ launch' = [launch EXCEPT !.terminal = TRUE]
       \/ /\ reaper = "done" /\ ~launch.reaped /\ NoFault
          /\ WaiterReturns("error") /\ launch' = launch
       \/ /\ reaper = "on" /\ LaunchFault
          /\ WaiterReturns("error") /\ launch' = launch
    /\ UNCHANGED <<main, pinned, lifetime, store, worker, reaper, undo, releasing,
                   stop, disk>>

WaiterCleans ==
    /\ Up /\ waiter = "clean" /\ exeJob = "idle"
    /\ exeJob' = "waiter"
    /\ NoFault
    /\ UNCHANGED <<main, pinned, lifetime, store, worker, launch, waiting, undo,
                   rel, relFor, stop, disk>>

-----------------------------------------------------------------------------
(* Reclaiming files.                                                       *)

\* Capture, unlink, sync: one step of captureAndRemoveCustodyPath.
NextStep(file) ==
    CASE file = "live" -> "captured"
      [] file = "captured" -> "removed"
      [] file = "removed" -> "gone"

\* The release has an outcome for the caller that still waits for it.
ReleaseReturns(ok) ==
    /\ rel' = "idle" /\ relFor' = "nobody"
    /\ main' = IF relFor = "main" THEN IF ok THEN "exited" ELSE "retain" ELSE main
    /\ stop' = IF relFor = "stop"
               THEN [stop EXCEPT !.at = IF ok THEN "publish" ELSE "idle"]
               ELSE stop

\* Abort and the launcher's discard go on without the executable, or retry.
MainAfterExe(ok) ==
    CASE main = "aborting" -> IF ok THEN "release" ELSE "retain"
      [] main = "discard" -> IF ok THEN "exited" ELSE "discard"

Aborted(l) ==
    IF main = "aborting"
    THEN [l EXCEPT !.aborting = FALSE, !.aborted = TRUE, !.terminal = TRUE]
    ELSE l

\* The caller of the executable's cleanup gets its outcome.
ExeReturns(ok) ==
    \/ /\ exeJob = "main"
       /\ main' = MainAfterExe(ok) /\ launch' = Aborted(launch)
       /\ UNCHANGED <<waiter, waitErr, rel, relFor, stop>>
    \/ /\ exeJob = "waiter"
       /\ WaiterReturns(IF ok /\ ~WaitCancelled /\ status = "expected"
                        THEN "expected" ELSE "error")
       /\ UNCHANGED <<main, launch, rel, relFor, stop>>
    \/ /\ exeJob = "release"
       /\ IF ok THEN rel' = "receipt" /\ UNCHANGED <<main, relFor, stop>>
                ELSE ReleaseReturns(FALSE)
       /\ UNCHANGED <<waiter, waitErr, launch>>
    \/ /\ exeJob = "late"
       /\ UNCHANGED <<main, launch, waiter, waitErr, rel, relFor, stop>>

CleanExe ==
    /\ Up /\ exeJob # "idle" /\ NoFault
    /\ exe' = NextStep(exe)
    /\ IF exe' = "gone"
       THEN exeJob' = "idle" /\ ExeReturns(TRUE)
       ELSE UNCHANGED <<exeJob, main, launch, waiter, waitErr, rel, relFor, stop>>
    /\ UNCHANGED <<pinned, lifetime, cache, keys, debris, receipt, worker, reaper, undo,
                   disk>>

\* A step of the cleanup fails; what was done stays remembered.
CleanExeFails ==
    /\ Up /\ exeJob # "idle" /\ LaunchFault
    /\ exeJob' = "idle" /\ ExeReturns(FALSE)
    /\ UNCHANGED <<pinned, lifetime, store, worker, reaper, undo, disk>>

\* The caller stops waiting; the cleanup goes on and keeps its gate.
CleanExeTimesOut ==
    /\ Up /\ exeJob \in {"main", "waiter", "release"} /\ main # "discard"
    /\ LaunchFault
    /\ exeJob' = "late" /\ ExeReturns(FALSE)
    /\ UNCHANGED <<pinned, lifetime, store, worker, reaper, undo, disk>>

\* The receipt of a commit that failed.  Whatever comes of its removal, the
\* commit is settled afterwards; the release tries again.
UndoReceipt ==
    /\ Up /\ undo = "on"
    /\ \/ /\ receipt \in {"live", "captured"} /\ NoFault
          /\ receipt' = NextStep(receipt) /\ UNCHANGED <<undo, launch>>
       \/ /\ receipt \in {None, "removed"} /\ NoFault
          /\ receipt' = IF receipt = None THEN None ELSE "gone"
          /\ undo' = "off" /\ launch' = Settled(launch)
       \/ /\ receipt # None /\ LaunchFault
          /\ receipt' = receipt
          /\ undo' = "off" /\ launch' = Settled(launch)
    /\ UNCHANGED <<main, pinned, lifetime, cache, keys, debris, exe, worker, waiting,
                   releasing, stop, disk>>

-----------------------------------------------------------------------------
(* The terminal release.                                                   *)

\* The launch is over for good: aborted before the start, or reaped, with the
\* commit settled.
TerminallyOwned ==
    /\ launch.terminal /\ ~launch.aborting /\ ~launch.commitPending
    /\ ~(launch.started /\ ~launch.reaped /\ ~launch.aborted)
    /\ ~(launch.committed /\ ~launch.reaped)

ReleaseTerminal(who) ==
    /\ rel = "idle"
    /\ IF TerminallyOwned /\ ~launch.released
       THEN rel' = "exe" /\ relFor' = who /\ UNCHANGED <<main, stop>>
       ELSE /\ UNCHANGED <<rel, relFor>>
            /\ main' = IF who # "main" THEN main
                       ELSE IF TerminallyOwned THEN "exited" ELSE "retain"
            /\ stop' = IF who # "stop" THEN stop
                       ELSE [stop EXCEPT !.at = IF TerminallyOwned
                                                THEN "publish" ELSE "idle"]

\* Model and receipt are validated before the first removal; the executable
\* goes first.
ReleaseExe ==
    /\ Up /\ rel = "exe" /\ exeJob = "idle"
    /\ \/ /\ exe \in Kept /\ NoFault
          /\ exeJob' = "release" /\ UNCHANGED <<rel, relFor, main, stop>>
       \/ /\ exe \notin Kept /\ NoFault
          /\ rel' = "receipt" /\ UNCHANGED <<exeJob, relFor, main, stop>>
       \/ /\ LaunchFault
          /\ ReleaseReturns(FALSE) /\ exeJob' = exeJob
    /\ UNCHANGED <<pinned, lifetime, store, worker, launch, waiting, undo, disk>>

\* Then the receipt; the model stays in the cache.
ReleaseReceipt ==
    /\ Up /\ rel = "receipt"
    /\ \/ /\ receipt \in Kept /\ NoFault
          /\ receipt' = NextStep(receipt)
          /\ UNCHANGED <<launch, rel, relFor, main, stop>>
       \/ /\ receipt \notin Kept /\ NoFault
          /\ receipt' = receipt
          /\ launch' = [launch EXCEPT !.released = TRUE]
          /\ ReleaseReturns(TRUE)
       \/ /\ receipt \in Kept /\ LaunchFault
          /\ ReleaseReturns(FALSE) /\ UNCHANGED <<receipt, launch>>
    /\ UNCHANGED <<pinned, lifetime, cache, keys, debris, exe, worker, waiting, undo,
                   exeJob, disk>>

\* The caller's bound passes while the release holds its gate.
ReleaseTimesOut ==
    /\ Up /\ rel # "idle" /\ relFor # "nobody" /\ exeJob # "release"
    /\ LaunchFault
    /\ relFor' = "nobody" /\ rel' = rel
    /\ main' = IF relFor = "main" THEN "retain" ELSE main
    /\ stop' = IF relFor = "stop" THEN [stop EXCEPT !.at = "idle"] ELSE stop
    /\ UNCHANGED <<pinned, lifetime, store, worker, launch, waiting, undo, exeJob,
                   disk>>

-----------------------------------------------------------------------------
(* The launcher after the worker has been given up, or has ended.          *)

\* Discard of a prepared model whose launch never began.
Discard ==
    /\ main = "discard" /\ exeJob = "idle"
    /\ IF exe \in Kept THEN exeJob' = "main" /\ main' = main
                       ELSE exeJob' = exeJob /\ main' = "exited"
    /\ NoFault
    /\ UNCHANGED <<pinned, lifetime, store, worker, launch, waiting, undo, rel,
                   relFor, stop, disk>>

\* A launch that has not started is aborted, unless its process may live; a
\* started one is waited for with a cancelled context.
FixedAbort ==
    /\ main = "abort" /\ NoFault
    /\ \/ /\ launch.started
          /\ main' = "cancel" /\ waiter' = "waiting" /\ reaper' = "on"
          /\ launch' = [launch EXCEPT !.waitStarted = TRUE] /\ exeJob' = exeJob
       \/ /\ ~launch.started /\ ~(launch.created /\ ~launch.reaped)
          /\ main' = "aborting" /\ exeJob' = "main"
          /\ launch' = [launch EXCEPT !.aborting = TRUE]
          /\ UNCHANGED <<waiter, reaper>>
       \/ /\ ~launch.started /\ launch.created /\ ~launch.reaped
          /\ main' = "retain" /\ UNCHANGED <<launch, waiter, reaper, exeJob>>
    /\ UNCHANGED <<pinned, lifetime, store, worker, waitErr, undo, rel, relFor,
                   stop, disk>>

Cancelled ==
    /\ main = "cancel" /\ waiter = "done"
    /\ main' = IF launch.reaped THEN "release" ELSE "retain"
    /\ NoFault /\ Idle /\ UNCHANGED <<pinned, lifetime, store, launch>>

\* The waiter has returned.  The server's lock, held by a stop in progress,
\* comes first; a stop that signalled the worker owns what follows.
Supervise ==
    /\ main = "supervise" /\ waiter = "done" /\ stop.at = "idle"
    /\ IF stop.active
       THEN main' = "ackwait" /\ lifetime' = lifetime
       ELSE /\ lifetime' = FALSE
            /\ main' = IF waitErr = "error" /\ ~launch.reaped
                       THEN "retain" ELSE "release"
    /\ NoFault /\ Idle /\ UNCHANGED <<pinned, store, launch>>

AwaitAck ==
    /\ main = "ackwait"
    /\ \/ stop.acked /\ main' = "exited"
       \/ ~lifetime /\ main' = "unacknowledged"
    /\ NoFault /\ Idle /\ UNCHANGED <<pinned, lifetime, store, launch>>

Release ==
    /\ main = "release" /\ relFor # "main"
    /\ ReleaseTerminal("main")
    /\ NoFault
    /\ UNCHANGED <<pinned, lifetime, store, worker, launch, waiting, undo, exeJob,
                   disk>>

\* What retainCheckpointFixedLaunch waits for before each attempt.
RetainSettled ==
    /\ \/ launch.started /\ reaper = "done" /\ launch.reaped
       \/ /\ ~launch.started
          /\ launch.aborted \/ launch.failedStart
          /\ ~launch.created \/ launch.reaped
    /\ launch.terminal /\ ~launch.commitPending

Retain ==
    /\ main = "retain" /\ relFor # "main"
    /\ \/ RetainSettled /\ ReleaseTerminal("main") /\ killed' = killed
       \/ ~RetainSettled /\ Kill /\ UNCHANGED <<rel, relFor, main, stop>>
    /\ NoFault
    /\ UNCHANGED <<pinned, lifetime, store, child, status, launch, waiting, undo,
                   exeJob, disk>>

-----------------------------------------------------------------------------
(* The owned-stop server.                                                  *)

Serving == main \in {"supervise", "ackwait", "release", "retain"}
             /\ waiter # "off" /\ launch.committed

\* The node agent's journal holds this very command as its pending stop.
IntentHolds(c) == intent = c

\* A new stop needs the plan and a worker observed now.
StopObserves(c) ==
    /\ Serving /\ stop.at = "idle" /\ ~stop.active
    /\ IntentHolds(c) /\ receipts[c] = None /\ ManagedWorker
    /\ stop' = [stop EXCEPT !.at = "observed", !.cmd = c]
    /\ NoFault
    /\ UNCHANGED <<main, pinned, lifetime, store, worker, launch, waiting, undo,
                   releasing, disk>>

\* SIGTERM through the pidfd, which is gone once the worker is reaped; then
\* the wait for the single waiter.
StopSignals ==
    /\ Up /\ stop.at = "observed"
    /\ stop' = IF launch.reaped THEN [stop EXCEPT !.at = "idle"]
               ELSE [stop EXCEPT !.at = "wait", !.active = TRUE]
    /\ NoFault
    /\ UNCHANGED <<main, pinned, lifetime, store, worker, launch, waiting, undo,
                   releasing, disk>>

\* The same command again, after the worker was signalled for it.
StopResumes(c) ==
    /\ Serving /\ stop.at = "idle" /\ stop.active /\ stop.cmd = c
    /\ IntentHolds(c) /\ receipts[c] = None
    /\ stop' = [stop EXCEPT !.at = "wait"]
    /\ NoFault
    /\ UNCHANGED <<main, pinned, lifetime, store, worker, launch, waiting, undo,
                   releasing, disk>>

\* The receipt is already there: authenticate it and acknowledge.
StopRepeats(c) ==
    /\ Serving /\ stop.at = "idle" /\ ~stop.acked
    /\ IntentHolds(c) /\ receipts[c] = "now"
    /\ stop' = [stop EXCEPT !.acked = TRUE]
    /\ NoFault
    /\ UNCHANGED <<main, pinned, lifetime, store, worker, launch, waiting, undo,
                   releasing, disk>>

\* Mutant: any end of the worker counts as the stop's.
StopProvenByAnyExit ==
    launch.reaped /\ launch.terminal /\ pinned /\ IntentHolds(stop.cmd)

StopProven ==
    /\ launch.reaped /\ launch.terminal /\ waitErr = "expected"
    /\ pinned /\ IntentHolds(stop.cmd)

\* After the reap everything is checked again: the wait's result, the plan,
\* the node's intent, the unit's invocation, the supervisor's own process.
StopWaited ==
    /\ Up /\ stop.at = "wait"
    /\ \/ /\ waiter = "done" /\ NoFault
          /\ stop' = [stop EXCEPT !.at = IF StopProven THEN "release" ELSE "idle"]
       \/ /\ LaunchFault
          /\ stop' = [stop EXCEPT !.at = "idle"]
    /\ UNCHANGED <<main, pinned, lifetime, store, worker, launch, waiting, undo,
                   releasing, disk>>

StopReleases ==
    /\ Up /\ stop.at = "release" /\ relFor # "stop"
    /\ ReleaseTerminal("stop")
    /\ NoFault
    /\ UNCHANGED <<pinned, lifetime, store, worker, launch, waiting, undo, exeJob,
                   disk>>

\* Sign, publish without replacing, read back, acknowledge.  It may fail
\* before or after the receipt is on disk.
StopPublishes ==
    /\ Up /\ stop.at = "publish"
    /\ \/ /\ NoFault
          /\ receipts' = [receipts EXCEPT ![stop.cmd] = "now"]
          /\ stop' = [stop EXCEPT !.at = "idle", !.acked = TRUE]
       \/ /\ LaunchFault
          /\ receipts' \in {receipts, [receipts EXCEPT ![stop.cmd] = "now"]}
          /\ stop' = [stop EXCEPT !.at = "idle"]
    /\ UNCHANGED <<main, pinned, lifetime, store, worker, launch, waiting, undo,
                   releasing, intent>>

-----------------------------------------------------------------------------
(* The surroundings.                                                       *)

\* The node agent records a stop before it sends it, one at a time and never
\* one that has a receipt.
NodeIntends(c) ==
    /\ intent = None /\ receipts[c] = None
    /\ intent' = c
    /\ NoFault
    /\ UNCHANGED <<main, pinned, lifetime, store, worker, launch, waiting, undo,
                   releasing, stop, receipts>>

\* It settles the stop with the receipt, or drops it when it has expired.
NodeSettles ==
    /\ intent # None
    /\ \/ receipts[intent] # None /\ NoFault
       \/ receipts[intent] = None /\ LaunchFault
    /\ intent' = None
    /\ UNCHANGED <<main, pinned, lifetime, store, worker, launch, waiting, undo,
                   releasing, stop, receipts>>

\* Somebody replaces the plan file.
PlanChanges ==
    /\ Up /\ pinned /\ LaunchFault
    /\ pinned' = FALSE
    /\ UNCHANGED <<main, lifetime, store, worker, launch, waiting, undo,
                   releasing, stop, disk>>

\* The five-second monitor, or a signal to the supervisor, ends supervision.
LifetimeEnds ==
    /\ main \in {"supervise", "ackwait"} /\ lifetime
    /\ lifetime' = FALSE
    /\ \/ ~pinned /\ NoFault
       \/ LaunchFault
    /\ UNCHANGED <<main, pinned, store, worker, launch, waiting, undo, releasing,
                   stop, disk>>

\* The supervisor is killed; the unit's control group goes with it.
Crash ==
    /\ Up /\ LaunchFault
    /\ main' = "crashed"
    /\ child' = IF child = None THEN None ELSE "reaped"
    /\ debris' = IF main = "copy" THEN debris \cup {"tmp"} ELSE debris
    /\ UNCHANGED <<pinned, lifetime, cache, keys, exe, receipt, status, killed, launch,
                   waiting, undo, releasing, stop, disk>>

\* The unit is started, for the first time or again: a new process, a new plan pin, and what is left
\* of the old files without an owner.
Restart ==
    /\ main \in Down /\ lives > 0
    /\ lives' = lives - 1 /\ faults' = faults
    /\ debris' = debris
          \cup (IF exe = "live" THEN {"exe"} ELSE {})
          \cup (IF exe = "captured" THEN {"cleanup"} ELSE {})
          \cup (IF receipt \in {"live", "captured"} THEN {"receipt"} ELSE {})
    /\ receipts' = [c \in Commands |->
                       IF receipts[c] = "now" THEN "before" ELSE receipts[c]]
    /\ UNCHANGED <<cache, keys, intent>>
    /\ main' = "open" /\ pinned' = TRUE /\ lifetime' = TRUE
    /\ exe' = None /\ receipt' = None
    /\ child' = None /\ status' = None /\ killed' = FALSE
    /\ launch' = NoLaunch
    /\ waiter' = "off" /\ waitErr' = None /\ reaper' = "off"
    /\ undo' = "off" /\ exeJob' = "idle" /\ rel' = "idle" /\ relFor' = "nobody"
    /\ stop' = NoStop

-----------------------------------------------------------------------------

Launcher ==
    \/ OpenPlan \/ OpenStore \/ PrepareReusable \/ PublishModel \/ PublishRecord \/ Begin
    \/ Start \/ Listen \/ CommitBegins \/ PublishReceipt \/ CommitSettles
    \/ CommitFails \/ CommitStopsWaiting
    \/ Join \/ StartStopServer \/ FinishStartup
    \/ Discard \/ FixedAbort \/ Cancelled \/ Supervise \/ AwaitAck
    \/ Release \/ Retain

Waiter == WaiterWakes \/ WaiterCommit \/ WaiterChild \/ WaiterCleans

Files == CleanExe \/ UndoReceipt \/ ReleaseExe \/ ReleaseReceipt

StopHandler == StopSignals \/ StopWaited \/ StopReleases \/ StopPublishes

LaunchNext ==
    \/ Launcher \/ Waiter \/ Files \/ StopHandler
    \/ WorkerEnds \/ Reap
    \/ CleanExeFails \/ CleanExeTimesOut \/ ReleaseTimesOut
    \/ \E c \in Commands : StopObserves(c) \/ StopResumes(c) \/ StopRepeats(c)
    \/ \E c \in Commands : NodeIntends(c)
    \/ NodeSettles
    \/ PlanChanges \/ LifetimeEnds \/ Crash \/ Restart

\* Goroutines run; a killed process dies and is reaped.  Nothing makes a
\* worker obey SIGTERM and nobody has to retry a stop.
LaunchFairness ==
    /\ WF_launchVars(Launcher) /\ WF_launchVars(Waiter) /\ WF_launchVars(Files)
    /\ WF_launchVars(StopHandler) /\ WF_launchVars(Reap)
    /\ WF_launchVars(killed /\ WorkerEnds)

LaunchSpec == LaunchInit /\ [][LaunchNext]_launchVars /\ LaunchFairness

-----------------------------------------------------------------------------
(* Properties.                                                             *)

\* ReleaseTerminal, Abort, WaitContext: what was staged for the worker is
\* reclaimed only when no process can still be using it: the executable after
\* the exact reap or an abort without a process, the receipt of a committed
\* worker after its reap, and the release is complete only with the commit
\* settled and nothing left.
ReclaimedAfterReap ==
    Up =>
    /\ exe \in {"captured", "removed", "gone"} => child \in {None, "reaped"}
    /\ receipt \in {"captured", "removed", "gone"} /\ launch.committed
          => child = "reaped"
    /\ launch.released =>
          /\ ~launch.commitPending /\ undo = "off"
          /\ exe \notin Kept /\ receipt \notin Kept

\* handleStop: a stop receipt appears only for the command that signalled the
\* worker, after the worker ended the way a stop ends it, was reaped, and its
\* custody was released.
StopReceiptProves ==
    [][\A c \in Commands : receipts[c] = None /\ receipts'[c] = "now" =>
          /\ stop.active /\ stop.cmd = c
          /\ child = "reaped" /\ status = "expected"
          /\ launch.released]_launchVars

\* retainCheckpointFixedLaunch, retainCheckpointPreparedModel: a supervisor
\* that has given up its worker goes on until everything is reclaimed, and
\* then exits, unless the wait could not tell whether the process ended.
RetentionEnds ==
    main \in Ending ~> (main \in Down \/ child = "lost")
=============================================================================
