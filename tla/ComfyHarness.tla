----------------------------- MODULE ComfyHarness -----------------------------
(***************************************************************************)
(* The managed executions of internal/comfyharness: a plan of chunks run    *)
(* one after the other on a ComfyUI server, with a state file, yield and    *)
(* resume at chunk boundaries, cancellation, and restart.                   *)
(*                                                                          *)
(* Handlers and runs take the server's mutex for each stretch of work and   *)
(* give it up around every call to ComfyUI. Under the mutex the state file  *)
(* is replaced as a whole. ComfyUI knows nothing of executions: it answers  *)
(* a submission with a prompt id, and that id is all that ties the two.     *)
(*                                                                          *)
(* yield and checkpoint differ only in the name of the state they lead to,  *)
(* and are one operation here. SubmittingChunk is set and cleared together  *)
(* with Submission and always names the next chunk.                         *)
(***************************************************************************)
EXTENDS Naturals, FiniteSets

CONSTANTS
  Executions,   \* idempotency keys
  LastChunk,    \* the chunks of a plan are 0 .. LastChunk
  Troubles      \* the bounds of a behaviour, a set of Trouble records

\* plans: the executions started; crash: restarts and shutdowns; fault: failing
\* state writes; lost: calls to ComfyUI may fail; cancel: cancel requests of each
\* execution; yield: requests; comfy: restarts of ComfyUI; lag: a submission may
\* still arrive after its sender has gone.
Trouble == [plans: SUBSET Executions, crash: Nat, fault: Nat, lost: BOOLEAN, cancel: 0 .. 2, yield: Nat,
            comfy: Nat, lag: BOOLEAN]

Handlers == 1 .. 2

ASSUME TroublesBounded == Troubles \subseteq Trouble

VARIABLES
  mem,      \* the executions in memory
  disk,     \* the state file
  run,      \* the run goroutine of each execution, and whether its context is cancelled
  call,     \* the cancel handlers
  waiting,  \* the executions with a yield request waiting for the boundary
  prompt,   \* what became of each chunk's submission in ComfyUI
  closed,   \* the harness is shutting down
  trouble   \* what is left of the trouble of this behaviour

vars == <<mem, disk, run, call, waiting, prompt, closed, trouble>>

Chunks == 0 .. LastChunk
NoRow == [state |-> "none"]
Row == [state: {"running", "cancelling", "uncertain", "cancelled", "completed", "failed",
                "yielded"},
        sub: {"", "submitting", "accepted", "unknown"}, prompt: BOOLEAN,
        next: 0 .. LastChunk + 1, epoch: Nat, req: {"", "yield", "cancel"}, ckpt: Nat]
NoRun == [pc |-> "none", epoch |-> 0, cancelled |-> FALSE]
NoCall == [pc |-> "idle", epoch |-> 0, idle |-> FALSE]
Done == [NoCall EXCEPT !.pc = "done"]
InQueue == {"queued", "running"}
Settled == {"cancelled", "completed", "failed"}

Init ==
  /\ mem = [e \in Executions |-> NoRow] /\ disk = mem
  /\ run = [e \in Executions |-> NoRun]
  /\ call = [c \in Handlers \X Executions |-> NoCall]
  /\ waiting = {} /\ closed = FALSE
  /\ prompt = [p \in Executions \X Chunks |-> "none"]
  /\ trouble \in Troubles

-----------------------------------------------------------------------------
(* The state file *)

Spend(field) == trouble[field] > 0 /\ trouble' = [trouble EXCEPT ![field] = @ - 1]

\* persistLocked succeeds.
Saved(e, new) ==
  /\ mem' = [mem EXCEPT ![e] = new] /\ disk' = mem'
  /\ UNCHANGED trouble

\* persistLocked fails and the handler keeps kept in memory. When only the sync of
\* the directory failed, the file has been replaced all the same.
Unsaved(e, new, kept) ==
  /\ Spend("fault")
  /\ mem' = [mem EXCEPT ![e] = kept]
  /\ disk' \in {disk, [mem EXCEPT ![e] = new]}

\* The same where the code then tries to persist kept, and ignores the outcome.
UnsavedThenKept(e, new, kept) ==
  \/ /\ Spend("fault")
     /\ mem' = [mem EXCEPT ![e] = kept] /\ disk' = mem'
  \/ trouble.fault > 1 /\ Unsaved(e, new, kept)

\* A write whose failure changes nothing but the file.
SavedOrNot(e, new) == Saved(e, new) \/ Unsaved(e, new, new)

Pc(e, pc) == run' = [run EXCEPT ![e].pc = pc]

Notify(e) == waiting' = waiting \ {e}

\* runtime.cancel() of the run, if there is one.
StopRun(e) == run' = [run EXCEPT ![e].cancelled = (run[e].pc # "none")]

Launch(e, epoch) == run' = [run EXCEPT ![e] = [pc |-> "loop", epoch |-> epoch, cancelled |-> FALSE]]

Active(e) == run[e].pc # "none"

\* A submission whose sender is gone: it arrives or not, at once unless it may lag.
Orphaned(e) ==
  IF mem[e] = NoRow \/ trouble.lag \/ ~(\E c \in Chunks : prompt[e, c] = "sent") THEN {prompt}
  ELSE {[prompt EXCEPT ![e, mem[e].next] = s] : s \in {"queued", "gone"}}

Cleared(r) == [r EXCEPT !.sub = "", !.prompt = FALSE]
-----------------------------------------------------------------------------
(* Requests of the controller *)

Start(e) ==
  LET new == [state |-> "running", sub |-> "", prompt |-> FALSE, next |-> 0, epoch |-> 1,
              req |-> "", ckpt |-> 0]
  IN /\ ~closed /\ mem[e] = NoRow /\ e \in trouble.plans
     /\ \/ Saved(e, new) /\ Launch(e, 1)
        \/ Unsaved(e, new, NoRow) /\ UNCHANGED run
     /\ UNCHANGED <<call, waiting, prompt, closed>>

\* A repeated start with the current checkpoint reference.
Resume(e) ==
  LET new == [Cleared(mem[e]) EXCEPT !.state = "running", !.req = "", !.ckpt = 0, !.epoch = @ + 1]
  IN /\ ~closed /\ mem[e].state = "yielded"
     /\ \/ Saved(e, new) /\ Launch(e, new.epoch)
        \/ Unsaved(e, new, mem[e]) /\ UNCHANGED run
     /\ UNCHANGED <<call, waiting, prompt, closed>>

\* yield or checkpoint: the request is recorded and waits for the boundary.
Yield(e) ==
  LET new == [mem[e] EXCEPT !.req = "yield"]
  IN /\ ~closed /\ mem[e].state = "running" /\ trouble.yield > 0
     /\ \/ /\ mem' = [mem EXCEPT ![e] = new] /\ disk' = mem'
           /\ waiting' = waiting \cup {e}
           /\ trouble' = [trouble EXCEPT !.yield = @ - 1]
        \/ /\ trouble.fault > 0
           /\ trouble' = [trouble EXCEPT !.yield = @ - 1, !.fault = @ - 1]
           /\ disk' \in {disk, [mem EXCEPT ![e] = new]} /\ UNCHANGED <<mem, waiting>>
     /\ UNCHANGED <<run, call, prompt, closed>>

\* The end of cancel when the outcome of a submission cannot be told. The run's
\* context is only cancelled when the write succeeded.
MarkUncertain(e) ==
  LET new == [mem[e] EXCEPT !.state = "uncertain", !.epoch = @ + 1]
  IN \/ Saved(e, new) /\ StopRun(e)
     \/ Unsaved(e, new, new) /\ UNCHANGED run

CallPc(h, e, pc) == call' = [call EXCEPT ![h, e].pc = pc]

CancelRequested(h, e) ==
  /\ ~closed /\ call[h, e].pc = "idle" /\ h <= trouble.cancel
  /\ mem[e] # NoRow /\ mem[e].state \notin Settled \cup {"yielded"}
  /\ UNCHANGED <<prompt, closed>>

\* Nothing was submitted since the last boundary.
CancelBetweenChunks(h, e) ==
  LET new == [mem[e] EXCEPT !.state = "cancelled", !.req = "", !.epoch = @ + 1]
  IN /\ CancelRequested(h, e) /\ mem[e].sub = "" /\ ~mem[e].prompt
     /\ \/ Saved(e, new) /\ StopRun(e) /\ Notify(e)
        \/ Unsaved(e, new, [new EXCEPT !.state = "uncertain"]) /\ UNCHANGED <<run, waiting>>
     /\ CallPc(h, e, "done")

CustodyUnknown(e) == mem[e].sub \in {"submitting", "unknown"}

\* A run may still be submitting: no one can tell.
CancelSubmitting(h, e) ==
  /\ CancelRequested(h, e) /\ CustodyUnknown(e) /\ Active(e)
  /\ MarkUncertain(e) /\ CallPc(h, e, "done") /\ UNCHANGED waiting

\* No run is left: ask ComfyUI, without the mutex.
CancelProbe(h, e) ==
  /\ CancelRequested(h, e) /\ CustodyUnknown(e) /\ ~Active(e)
  /\ call' = [call EXCEPT ![h, e] = [pc |-> "probe", epoch |-> mem[e].epoch, idle |-> FALSE]]
  /\ UNCHANGED <<mem, disk, run, waiting, trouble>>

QueueIdle == \A p \in Executions \X Chunks : prompt[p] \notin InQueue

\* comfyQueueIdle; a failing call counts as busy.
Probe(h, e) ==
  /\ call[h, e].pc = "probe"
  /\ \/ call' = [call EXCEPT ![h, e].pc = "probed", ![h, e].idle = QueueIdle]
     \/ trouble.lost /\ CallPc(h, e, "probed")
  /\ UNCHANGED <<mem, disk, run, waiting, prompt, closed, trouble>>

\* Mutant: the probe only has to have run, the queue need not be idle.
ProbedBusy(h, e) ==
  LET c == call[h, e]
      new == [Cleared(mem[e]) EXCEPT !.state = "cancelled", !.req = "", !.epoch = @ + 1]
      proven == mem[e].epoch = c.epoch /\ ~Active(e) /\ mem[e].state \notin Settled
  IN /\ c.pc = "probed"
     /\ \/ proven /\ Saved(e, new) /\ Notify(e) /\ UNCHANGED run
        \/ ~proven /\ MarkUncertain(e) /\ UNCHANGED waiting
     /\ call' = [call EXCEPT ![h, e] = Done]
     /\ UNCHANGED <<prompt, closed>>

\* Back under the mutex: the cancellation is proven, or the execution is marked
\* uncertain, whatever state it has by now.
Probed(h, e) ==
  LET c == call[h, e]
      new == [Cleared(mem[e]) EXCEPT !.state = "cancelled", !.req = "", !.epoch = @ + 1]
      proven == c.idle /\ mem[e].epoch = c.epoch /\ ~Active(e) /\ mem[e].state \notin Settled
  IN /\ c.pc = "probed"
     /\ \/ proven /\ Saved(e, new) /\ Notify(e) /\ UNCHANGED run
        \/ proven /\ Unsaved(e, new, mem[e]) /\ UNCHANGED <<run, waiting>>
        \/ ~proven /\ MarkUncertain(e) /\ UNCHANGED waiting
     /\ call' = [call EXCEPT ![h, e] = Done]
     /\ UNCHANGED <<prompt, closed>>

\* The exact prompt is known: record the intent, then stop it without the mutex.
CancelPrompt(h, e) ==
  LET new == [mem[e] EXCEPT !.state = "cancelling", !.req = "cancel", !.epoch = @ + 1]
  IN /\ CancelRequested(h, e) /\ mem[e].sub = "accepted"
     /\ \/ /\ Saved(e, new) /\ StopRun(e)
           /\ call' = [call EXCEPT ![h, e] = [pc |-> "stop", epoch |-> new.epoch, idle |-> FALSE]]
        \/ Unsaved(e, new, mem[e]) /\ CallPc(h, e, "done") /\ UNCHANGED run
     /\ UNCHANGED waiting

\* stopComfyPrompt looks first: only a prompt that waits in the queue can be deleted.
ObservePrompt(h, e) ==
  /\ call[h, e].pc = "stop"
  /\ \/ prompt[e, mem[e].next] = "queued" /\ CallPc(h, e, "delete")
     \/ (prompt[e, mem[e].next] # "queued" \/ trouble.lost) /\ CallPc(h, e, "stopFailed")
  /\ UNCHANGED <<mem, disk, run, waiting, prompt, closed, trouble>>

\* It then deletes and confirms: the prompt is in neither the queue nor the history.
\* Someone else may have removed it, or ComfyUI forgotten it, since the look.
StopComfyPrompt(h, e) ==
  LET p == <<e, mem[e].next>>
  IN /\ call[h, e].pc = "delete"
     /\ \/ /\ prompt' = IF prompt[p] = "queued" THEN [prompt EXCEPT ![p] = "removed"] ELSE prompt
           /\ CallPc(h, e, IF prompt'[p] \in {"removed", "gone"} THEN "stopped" ELSE "stopFailed")
        \/ /\ trouble.lost /\ CallPc(h, e, "stopFailed")
           /\ \/ UNCHANGED prompt
              \/ prompt[p] = "queued" /\ prompt' = [prompt EXCEPT ![p] = "removed"]
     /\ UNCHANGED <<mem, disk, run, waiting, closed, trouble>>

StillCancelling(h, e) == mem[e].epoch = call[h, e].epoch /\ mem[e].state = "cancelling"

StopConfirmed(h, e) ==
  LET new == [Cleared(mem[e]) EXCEPT !.state = "cancelled", !.req = ""]
  IN /\ call[h, e].pc = "stopped"
     /\ \/ StillCancelling(h, e) /\ Saved(e, new) /\ Notify(e)
        \/ StillCancelling(h, e) /\ Unsaved(e, new, mem[e]) /\ UNCHANGED waiting
        \/ ~StillCancelling(h, e) /\ UNCHANGED <<mem, disk, waiting, trouble>>
     /\ call' = [call EXCEPT ![h, e] = Done]
     /\ UNCHANGED <<run, prompt, closed>>

StopFailed(h, e) ==
  /\ call[h, e].pc = "stopFailed"
  /\ IF StillCancelling(h, e) THEN SavedOrNot(e, [mem[e] EXCEPT !.state = "uncertain"])
     ELSE UNCHANGED <<mem, disk, trouble>>
  /\ call' = [call EXCEPT ![h, e] = Done]
  /\ UNCHANGED <<run, waiting, prompt, closed>>

CancelStep(h, e) ==
  \/ Probe(h, e) \/ Probed(h, e) \/ ObservePrompt(h, e) \/ StopComfyPrompt(h, e)
  \/ StopConfirmed(h, e) \/ StopFailed(h, e)

-----------------------------------------------------------------------------
(* The run goroutine *)

Fenced(e) == mem[e].state # "running" \/ mem[e].epoch # run[e].epoch

Uncertain(e) == [mem[e] EXCEPT !.state = "uncertain"]

\* The run finds that it is not wanted any more and returns.
RunFenced(e) ==
  /\ run[e].pc = "loop" /\ Fenced(e)
  /\ Pc(e, "leave")
  /\ UNCHANGED <<mem, disk, call, waiting, prompt, closed, trouble>>

\* Mutant: the waiters of a completed run are forgotten.
CompletesSilently(e) ==
  /\ run[e].pc = "loop" /\ ~Fenced(e) /\ mem[e].next = LastChunk + 1
  /\ Saved(e, [mem[e] EXCEPT !.state = "completed"])
  /\ Pc(e, "leave")
  /\ UNCHANGED <<call, waiting, prompt, closed>>

RunCompletes(e) ==
  /\ run[e].pc = "loop" /\ ~Fenced(e) /\ mem[e].next = LastChunk + 1
  /\ LET new == [mem[e] EXCEPT !.state = "completed"]
     IN Saved(e, new) \/ UnsavedThenKept(e, new, Uncertain(e))
  /\ Notify(e) /\ Pc(e, "leave")
  /\ UNCHANGED <<call, prompt, closed>>

\* The intent to submit is durable before anything is sent.
RunSubmits(e) ==
  /\ run[e].pc = "loop" /\ ~Fenced(e) /\ mem[e].next \in Chunks
  /\ LET new == [mem[e] EXCEPT !.sub = "submitting"]
     IN \/ Saved(e, new) /\ Pc(e, "send") /\ UNCHANGED waiting
        \/ UnsavedThenKept(e, new, Uncertain(e)) /\ Pc(e, "leave") /\ Notify(e)
  /\ UNCHANGED <<call, prompt, closed>>

Send(e) ==
  /\ run[e].pc = "send" /\ ~run[e].cancelled
  /\ prompt' = [prompt EXCEPT ![e, mem[e].next] = "sent"]
  /\ Pc(e, "wait")
  /\ UNCHANGED <<mem, disk, call, waiting, closed, trouble>>

\* A failing call, by itself or because the context is cancelled or ComfyUI
\* has restarted.
Abandons(e) ==
  \/ run[e].cancelled \/ (run[e].pc = "wait" /\ prompt[e, mem[e].next] = "gone")
  \/ trouble.lost

\* markSubmissionUnknown, after a submission without a usable answer.
SubmissionUnknown(e) ==
  /\ run[e].pc \in {"send", "wait"} /\ Abandons(e)
  /\ IF mem[e].epoch = run[e].epoch /\ mem[e].sub = "submitting"
     THEN LET new == [Uncertain(e) EXCEPT !.sub = "unknown"]
          IN Saved(e, new) \/ Unsaved(e, new, Uncertain(e))
     ELSE UNCHANGED <<mem, disk, trouble>>
  /\ prompt' \in Orphaned(e)
  /\ Pc(e, "leave")
  /\ UNCHANGED <<call, waiting, closed>>

\* ComfyUI itself says that the chunk ended in an error or was never queued.
ChunkFailed(e) ==
  /\ \/ run[e].pc = "wait" /\ prompt[e, mem[e].next] = "rejected"
     \/ run[e].pc = "poll" /\ prompt[e, mem[e].next] = "error"
  /\ IF Fenced(e) THEN UNCHANGED <<mem, disk, waiting, trouble>>
     ELSE LET new == [Cleared(mem[e]) EXCEPT !.state = "failed"]
          IN /\ Saved(e, new) \/ Unsaved(e, new, [Uncertain(e) EXCEPT !.sub = "unknown"])
             /\ Notify(e)
  /\ Pc(e, "leave")
  /\ UNCHANGED <<call, prompt, closed>>

\* The prompt id arrives: in time, or after another operation has fenced the run,
\* when it is only kept as evidence.
Accepted(e) ==
  LET inTime == mem[e].epoch = run[e].epoch /\ mem[e].sub = "submitting"
      new == [mem[e] EXCEPT !.prompt = TRUE, !.sub = "accepted"]
      kept == [mem[e] EXCEPT !.prompt = TRUE, !.sub = "unknown"]
  IN /\ run[e].pc = "wait" /\ prompt[e, mem[e].next] \in InQueue \cup {"success", "error"}
     /\ \/ inTime /\ Saved(e, new) /\ Pc(e, "poll")
        \/ inTime /\ UnsavedThenKept(e, new, [kept EXCEPT !.state = "uncertain"]) /\ Pc(e, "leave")
        \/ /\ ~inTime /\ mem[e].sub # "" /\ ~mem[e].prompt
           /\ SavedOrNot(e, kept) /\ Pc(e, "leave")
     /\ UNCHANGED <<call, waiting, prompt, closed>>

\* comfyHistory fails while the chunk is awaited.
PollFails(e) ==
  /\ run[e].pc = "poll" /\ Abandons(e)
  /\ IF Fenced(e) THEN UNCHANGED <<mem, disk, waiting, trouble>>
     ELSE LET new == [Uncertain(e) EXCEPT !.sub = "unknown"]
          IN /\ Saved(e, new) \/ Unsaved(e, new, Uncertain(e))
             /\ Notify(e)
  /\ Pc(e, "leave")
  /\ UNCHANGED <<call, prompt, closed>>

\* Mutant: the yield at the boundary does not count the chunk.
ChunkDoneUncounted(e) ==
  LET done == [Cleared(mem[e]) EXCEPT !.next = @ + 1]
      new == IF mem[e].req = "yield"
             THEN [Cleared(mem[e]) EXCEPT !.state = "yielded", !.req = "", !.ckpt = mem[e].epoch]
             ELSE done
  IN /\ run[e].pc = "poll" /\ prompt[e, mem[e].next] = "success" /\ ~Fenced(e)
     /\ Saved(e, new) /\ Notify(e)
     /\ Pc(e, IF new.state = "yielded" THEN "leave" ELSE "loop")
     /\ UNCHANGED <<call, prompt, closed>>

\* The history of the chunk is committed; a requested yield happens here.
ChunkDone(e) ==
  LET done == [Cleared(mem[e]) EXCEPT !.next = @ + 1]
      new == IF mem[e].req = "yield"
             THEN [done EXCEPT !.state = "yielded", !.req = "", !.ckpt = mem[e].epoch]
             ELSE done
  IN /\ run[e].pc = "poll" /\ prompt[e, mem[e].next] = "success"
     /\ \/ Fenced(e) /\ Pc(e, "leave") /\ UNCHANGED <<mem, disk, waiting, trouble>>
        \/ /\ ~Fenced(e) /\ Saved(e, new)
           /\ IF new.state = "yielded" THEN Pc(e, "leave") /\ Notify(e)
              ELSE Pc(e, "loop") /\ UNCHANGED waiting
        \/ ~Fenced(e) /\ UnsavedThenKept(e, new, Uncertain(e)) /\ Pc(e, "leave") /\ Notify(e)
     /\ UNCHANGED <<call, prompt, closed>>

\* activeRuns is decremented only when the goroutine ends.
Leave(e) ==
  /\ run[e].pc = "leave"
  /\ run' = [run EXCEPT ![e] = NoRun]
  /\ UNCHANGED <<mem, disk, call, waiting, prompt, closed, trouble>>

RunStep(e) ==
  \/ RunFenced(e) \/ RunCompletes(e) \/ RunSubmits(e) \/ Send(e) \/ SubmissionUnknown(e)
  \/ ChunkFailed(e) \/ Accepted(e) \/ PollFails(e) \/ ChunkDone(e) \/ Leave(e)

-----------------------------------------------------------------------------
(* Restart *)

RequiresRestartRecovery(r) ==
  r # NoRow /\ (r.state \in {"running", "cancelling"} \/ r.sub # "" \/ r.prompt)

Recovered(r) == IF RequiresRestartRecovery(r) THEN [r EXCEPT !.state = "uncertain"] ELSE r

\* The rows load accepts; with any other the harness does not start.
LoadAccepts(r) ==
  /\ r.sub # "" => r.next \in Chunks
  /\ r.prompt => r.sub \in {"accepted", "unknown"}
  /\ r.state = "completed" => r.next = LastChunk + 1
  /\ r.ckpt # 0 => r.state = "yielded" /\ r.ckpt = r.epoch
  /\ r.state = "yielded" => r.ckpt # 0
  /\ r.state = "cancelling" => r.req = "cancel"

Reload ==
  /\ mem' = [e \in Executions |-> Recovered(disk[e])] /\ disk' = mem'
  /\ run' = [e \in Executions |-> NoRun]
  /\ call' = [c \in DOMAIN call |-> IF call[c].pc = "idle" THEN NoCall ELSE Done]
  /\ waiting' = {} /\ closed' = FALSE

Crash ==
  /\ Spend("crash") /\ Reload
  /\ \/ trouble.lag /\ UNCHANGED prompt
     \/ /\ ~trouble.lag
        /\ \E s \in {"queued", "gone"} :
             prompt' = [p \in DOMAIN prompt |-> IF prompt[p] = "sent" THEN s ELSE prompt[p]]

\* Close, once the HTTP server has stopped: every run is told to end.
Close ==
  /\ ~closed /\ Spend("crash") /\ closed' = TRUE
  /\ \A c \in DOMAIN call : call[c].pc \in {"idle", "done"}
  /\ run' = [e \in Executions |-> [run[e] EXCEPT !.cancelled = Active(e)]]
  /\ waiting' = {}
  /\ UNCHANGED <<mem, disk, call, prompt>>

Reopen ==
  /\ closed /\ \A e \in Executions : ~Active(e)
  /\ Reload /\ UNCHANGED <<prompt, trouble>>

-----------------------------------------------------------------------------
(* ComfyUI *)

Becomes(p, s) ==
  /\ prompt' = [prompt EXCEPT ![p] = s]
  /\ UNCHANGED <<mem, disk, run, call, waiting, closed, trouble>>

ComfyReceives(p) == prompt[p] = "sent" /\ (Becomes(p, "queued") \/ Becomes(p, "rejected"))
ComfyRuns(p) ==
  /\ prompt[p] = "queued" /\ \A q \in DOMAIN prompt : prompt[q] # "running"
  /\ Becomes(p, "running")
ComfyEnds(p) == prompt[p] = "running" /\ (Becomes(p, "success") \/ Becomes(p, "error"))

ComfyStep(p) == ComfyReceives(p) \/ ComfyRuns(p) \/ ComfyEnds(p)

\* ComfyUI restarts and forgets its queue.
ComfyRestarts ==
  /\ Spend("comfy")
  /\ prompt' = [p \in DOMAIN prompt |->
                  IF prompt[p] \in InQueue \cup {"sent"} THEN "gone" ELSE prompt[p]]
  /\ UNCHANGED <<mem, disk, run, call, waiting, closed>>

-----------------------------------------------------------------------------
Next ==
  \/ \E e \in Executions : Start(e) \/ Resume(e) \/ Yield(e) \/ RunStep(e)
  \/ \E h \in Handlers, e \in Executions :
       \/ CancelBetweenChunks(h, e) \/ CancelSubmitting(h, e) \/ CancelProbe(h, e)
       \/ CancelPrompt(h, e) \/ CancelStep(h, e)
  \/ Crash \/ Close \/ Reopen
  \/ \E p \in DOMAIN prompt : ComfyStep(p)
  \/ ComfyRestarts

Spec == Init /\ [][Next]_vars

\* A run goroutine is scheduled, its calls return, and ComfyUI works off its queue.
FairSpec ==
  /\ Spec
  /\ \A e \in Executions : WF_vars(RunStep(e))
  /\ WF_vars(\E p \in DOMAIN prompt : ComfyStep(p))

-----------------------------------------------------------------------------
\* A chunk is submitted at most once, whatever is retried, resumed, cancelled or
\* restarted: video chunks are expensive and ComfyUI does not recognise a repeat.
ChunkSentOnce ==
  [][\A p \in DOMAIN prompt : prompt'[p] = "sent" /\ prompt[p] # "sent" => prompt[p] = "none"]_vars

\* As long as a submission of an execution is on its way, queued or running in
\* ComfyUI, the state file says that it may be, in a row the next start accepts:
\* neither a crash nor a cancellation that claims to be proven loses sight of it.
\* (Not so when a submission arrives after its sender has given up: the
\* cancellation cannot know.)
LivePromptInCustody ==
  ~trouble.lag => \A e \in Executions, c \in Chunks : prompt[e, c] \in InQueue \cup {"sent"} =>
    /\ \A r \in {mem[e], disk[e]} : r # NoRow /\ r.sub # "" /\ r.next = c
    /\ LoadAccepts(disk[e])

\* A yield request is answered at the next boundary, unless a cancellation came
\* first, the outcome of the chunk cannot be told, or ComfyUI has lost it.
YieldAnswered ==
  \A e \in Executions :
    e \in waiting ~> \/ e \notin waiting \/ mem[e].state \in {"uncertain", "cancelling"}
                     \/ \E c \in Chunks : prompt[e, c] = "gone"

=============================================================================
