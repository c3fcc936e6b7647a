------------------------------ MODULE WorkerIO ------------------------------
(***************************************************************************)
(* deploy/docker/worker_io.voxedge-patch.py: the multiplexer of many       *)
(* requests over one worker subprocess.  A request takes a token of a      *)
(* semaphore, registers a queue under its id, writes one line to the       *)
(* worker's stdin and consumes the events a reader thread routes to its    *)
(* queue.  Synchronous requests (request) run on threads of their own;     *)
(* asynchronous ones (send_request) share one event loop and hand their    *)
(* blocking calls, sem.acquire and q.get, to the loop's thread executor.   *)
(*                                                                         *)
(* An action is what runs between two points where another thread, the     *)
(* event loop or the worker can interfere; a step under a lock is one      *)
(* action.  Events carry, besides the id on the line, the request they are *)
(* about and whether a cancel line provoked them.                          *)
(***************************************************************************)
EXTENDS Integers, Sequences, FiniteSets, SequencesExt

CONSTANTS
  Reqs,            (* requests, each issued once, with distinct ids          *)
  Async,           (* the ones issued through send_request                   *)
  NoId,            (* the id of a worker event that carries none             *)
  Concurrency,     (* tokens of the semaphore                                *)
  ExecThreads,     (* threads of the loop's default executor                 *)
  TaskCancel,      (* whether tasks awaiting a request may be cancelled      *)
  ReaderMayCrash,  (* whether stdout may carry a line that kills the reader  *)
  CancelAware,     (* whether the worker understands cancel lines            *)
  MaxChunks        (* bound: partial events per request                      *)

ASSUME WorkerIOConstants ==
  /\ Async \subseteq Reqs /\ NoId \notin Reqs /\ IsFiniteSet(Reqs)
  /\ Concurrency \in Nat \ {0} /\ ExecThreads \in Nat \ {0}
  /\ MaxChunks \in Nat
  /\ TaskCancel \in BOOLEAN /\ ReaderMayCrash \in BOOLEAN
  /\ CancelAware \in BOOLEAN

VARIABLES
  pc,         (* where each request is                                       *)
  natural,    (* finished_naturally of each request                          *)
  sem,        (* free tokens of _sem                                         *)
  inflight,   (* keys of _inflight                                           *)
  queue,      (* the queue of each request                                   *)
  closed,     (* _closed                                                     *)
  closer,     (* progress of close()                                         *)
  snapshot,   (* close(): the queues still to be woken                       *)
  jobs,       (* executor jobs waiting for a thread, oldest first            *)
  zombies,    (* requests gone while a thread still runs their q.get         *)
  reader,     (* "reading", or "exited" after the finally of _reader_loop    *)
  carry,      (* the event the reader has looked a queue up for, if any      *)
  alive,      (* the worker process runs                                     *)
  stdin,      (* lines written and not yet read by the worker                *)
  stdout,     (* events written and not yet read by the reader               *)
  work        (* the worker's progress on each request                       *)

clientVars == <<pc, natural, sem, inflight, queue, jobs, zombies>>
closeVars  == <<closed, closer, snapshot>>
readerVars == <<reader, carry>>
workerVars == <<alive, stdin, stdout, work>>
vars == <<clientVars, closeVars, readerVars, workerVars>>

Events == [ev : {"partial", "done", "cancelled", "error"},
           rid : Reqs \cup {NoId}, about : Reqs, byCancel : BOOLEAN]
WorkerExit == [ev |-> "_worker_exit"]

PCs == {"new", "acqQueued", "acquiring", "acquired", "register", "write",
        "getQueued", "getting", "yielded", "terminal", "pop", "release",
        "cancel", "ended", "orphan", "leaked"}

Init ==
  /\ pc = [r \in Reqs |-> "new"]
  /\ natural = [r \in Reqs |-> FALSE]
  /\ sem = Concurrency
  /\ inflight = {}
  /\ queue = [r \in Reqs |-> << >>]
  /\ closed = FALSE /\ closer = "idle" /\ snapshot = {}
  /\ jobs = << >> /\ zombies = {}
  /\ reader = "reading" /\ carry = << >>
  /\ alive = TRUE /\ stdin = << >> /\ stdout = << >>
  /\ work = [r \in Reqs |-> [state |-> "none", chunks |-> 0]]

-----------------------------------------------------------------------------
(* The event loop runs one coroutine at a time, up to its next await.        *)
OnLoop == {"register", "write", "pop", "release", "cancel"}
MayRun(r) == r \in Async => \A o \in Async \ {r} : pc[o] \notin OnLoop

Goto(r, label) == pc' = [pc EXCEPT ![r] = label]

(* Executor: a job is queued, and starts when it is the oldest and one of    *)
(* the threads is free.                                                      *)
Busy == {r \in Async : pc[r] \in {"acquiring", "getting", "orphan"}} \cup zombies
Submit(r) == jobs' = Append(jobs, r)

execStart ==
  /\ jobs # << >> /\ Cardinality(Busy) < ExecThreads
  /\ LET r == Head(jobs) IN
       Goto(r, IF pc[r] = "acqQueued" THEN "acquiring" ELSE "getting")
  /\ jobs' = Tail(jobs)
  /\ UNCHANGED <<natural, sem, inflight, queue, zombies,
                 closeVars, readerVars, workerVars>>

(* A blocking call is made directly by a thread, through the executor by a   *)
(* coroutine.                                                                *)
Block(r, queued, running) ==
  IF r \in Async THEN Goto(r, queued) /\ Submit(r)
                 ELSE Goto(r, running) /\ UNCHANGED jobs

start(r) ==
  /\ pc[r] = "new" /\ MayRun(r)
  /\ Block(r, "acqQueued", "acquiring")
  /\ UNCHANGED <<natural, sem, inflight, queue, zombies,
                 closeVars, readerVars, workerVars>>

(* _sem.acquire() returns. *)
semAcquire(r) ==
  /\ pc[r] = "acquiring" /\ sem > 0
  /\ sem' = sem - 1
  /\ Goto(r, "acquired")
  /\ UNCHANGED <<natural, inflight, queue, jobs, zombies,
                 closeVars, readerVars, workerVars>>

(* Mutant: the token is released, and then once more by the finally arm. *)
checkClosedReleasesTwice(r) ==
  /\ pc[r] = "acquired" /\ MayRun(r)
  /\ IF closed THEN Goto(r, "pop") /\ sem' = sem + 1
               ELSE Goto(r, "register") /\ UNCHANGED sem
  /\ UNCHANGED <<natural, inflight, queue, jobs, zombies,
                 closeVars, readerVars, workerVars>>

(* Mutant: the token is not given back. *)
checkClosedKeepsToken(r) ==
  /\ pc[r] = "acquired" /\ MayRun(r)
  /\ Goto(r, IF closed THEN "ended" ELSE "register")
  /\ UNCHANGED <<natural, sem, inflight, queue, jobs, zombies,
                 closeVars, readerVars, workerVars>>

(* First check of _closed: the token goes back and WorkerExitError is raised. *)
checkClosed(r) ==
  /\ pc[r] = "acquired" /\ MayRun(r)
  /\ IF closed THEN Goto(r, "ended") /\ sem' = sem + 1
               ELSE Goto(r, "register") /\ UNCHANGED sem
  /\ UNCHANGED <<natural, inflight, queue, jobs, zombies,
                 closeVars, readerVars, workerVars>>

register(r) ==
  /\ pc[r] = "register"
  /\ inflight' = inflight \cup {r}
  /\ Goto(r, "write")
  /\ UNCHANGED <<natural, sem, queue, jobs, zombies,
                 closeVars, readerVars, workerVars>>

(* Mutant: _closed is not checked again under _stdin_lock. *)
writeWithoutRecheck(r) ==
  /\ pc[r] = "write"
  /\ IF ~alive
     THEN Goto(r, "pop") /\ UNCHANGED <<jobs, stdin>>
     ELSE /\ Block(r, "getQueued", "getting")
          /\ stdin' = Append(stdin, [type |-> "request", id |-> r])
  /\ UNCHANGED <<natural, sem, inflight, queue, zombies, closeVars, readerVars,
                 alive, stdout, work>>

(* Under _stdin_lock: _closed is checked again, then the line is written; a  *)
(* write to a dead worker raises.                                            *)
write(r) ==
  /\ pc[r] = "write"
  /\ IF closed \/ ~alive
     THEN Goto(r, "pop") /\ UNCHANGED <<jobs, stdin>>
     ELSE /\ Block(r, "getQueued", "getting")
          /\ stdin' = Append(stdin, [type |-> "request", id |-> r])
  /\ UNCHANGED <<natural, sem, inflight, queue, zombies, closeVars, readerVars,
                 alive, stdout, work>>

(* q.get returns an event: the sentinel raises, any other is yielded. *)
getEvent(r) ==
  /\ pc[r] = "getting" /\ MayRun(r) /\ queue[r] # << >>
  /\ LET ev == Head(queue[r]).ev IN
       Goto(r, CASE ev = "_worker_exit" -> "pop"
                 [] ev \in {"done", "cancelled"} -> "terminal"
                 [] OTHER -> "yielded")
  /\ queue' = [queue EXCEPT ![r] = Tail(@)]
  /\ UNCHANGED <<natural, sem, inflight, jobs, zombies,
                 closeVars, readerVars, workerVars>>

(* Mutant: q.get without a timeout. *)
getForever(r) == FALSE /\ UNCHANGED vars

(* 60 s without an event. *)
getTimeout(r) ==
  /\ pc[r] = "getting" /\ MayRun(r) /\ queue[r] = << >>
  /\ Goto(r, "pop")
  /\ UNCHANGED <<natural, sem, inflight, queue, jobs, zombies,
                 closeVars, readerVars, workerVars>>

(* The consumer asks for the next event: none after a terminal one. *)
consumerNext(r) ==
  /\ MayRun(r)
  /\ \/ /\ pc[r] = "yielded"
        /\ Block(r, "getQueued", "getting")
        /\ UNCHANGED natural
     \/ /\ pc[r] = "terminal"
        /\ Goto(r, "pop")
        /\ natural' = [natural EXCEPT ![r] = TRUE]
        /\ UNCHANGED jobs
  /\ UNCHANGED <<sem, inflight, queue, zombies, closeVars, readerVars, workerVars>>

(* The consumer stops iterating: GeneratorExit is raised at the yield. *)
consumerBreaks(r) ==
  /\ pc[r] \in {"yielded", "terminal"} /\ MayRun(r)
  /\ Goto(r, "pop")
  /\ UNCHANGED <<natural, sem, inflight, queue, jobs, zombies,
                 closeVars, readerVars, workerVars>>

(* The finally arm: unregister, give the token back, and, for an             *)
(* asynchronous request that did not finish naturally, cancel.               *)
unregister(r) ==
  /\ pc[r] = "pop"
  /\ inflight' = inflight \ {r}
  /\ Goto(r, "release")
  /\ UNCHANGED <<natural, sem, queue, jobs, zombies,
                 closeVars, readerVars, workerVars>>

semRelease(r) ==
  /\ pc[r] = "release"
  /\ sem' = sem + 1
  /\ Goto(r, IF r \in Async /\ ~natural[r] THEN "cancel" ELSE "ended")
  /\ UNCHANGED <<natural, inflight, queue, jobs, zombies,
                 closeVars, readerVars, workerVars>>

(* cancel(), under _stdin_lock; a failing write is only logged. *)
cancel(r) ==
  /\ pc[r] = "cancel"
  /\ stdin' = IF closed \/ ~alive THEN stdin
              ELSE Append(stdin, [type |-> "cancel", id |-> r])
  /\ Goto(r, "ended")
  /\ UNCHANGED <<natural, sem, inflight, queue, jobs, zombies,
                 closeVars, readerVars, alive, stdout, work>>

-----------------------------------------------------------------------------
(* Cancellation of the task awaiting a coroutine.  Waiting for the           *)
(* semaphore: a queued job is dropped; a running sem.acquire goes on without *)
(* its future, whose done-callback sees a cancelled future and releases      *)
(* nothing.  If acquire has returned, the callback releases the token when   *)
(* the result had reached the future, and not otherwise.                     *)
cancelAcquire(r) ==
  /\ pc[r] \in {"acqQueued", "acquiring", "acquired"}
  /\ \/ /\ pc[r] = "acqQueued"
        /\ \E i \in DOMAIN jobs : jobs[i] = r /\ jobs' = RemoveAt(jobs, i)
        /\ Goto(r, "ended")
        /\ UNCHANGED sem
     \/ /\ pc[r] = "acquiring"
        /\ Goto(r, "orphan")
        /\ UNCHANGED <<jobs, sem>>
     \/ /\ pc[r] = "acquired"
        /\ \/ Goto(r, "ended") /\ sem' = sem + 1
           \/ Goto(r, "leaked") /\ UNCHANGED sem
        /\ UNCHANGED jobs
  /\ UNCHANGED zombies

(* Waiting for an event: the finally arm runs at once; a thread already in   *)
(* q.get stays there.                                                        *)
cancelGet(r) ==
  /\ \/ /\ pc[r] = "getQueued"
        /\ \E i \in DOMAIN jobs : jobs[i] = r /\ jobs' = RemoveAt(jobs, i)
        /\ UNCHANGED zombies
     \/ /\ pc[r] = "getting"
        /\ zombies' = zombies \cup {r}
        /\ UNCHANGED jobs
  /\ Goto(r, "pop")
  /\ UNCHANGED sem

taskCancelled(r) ==
  /\ TaskCancel /\ r \in Async /\ MayRun(r)
  /\ cancelAcquire(r) \/ cancelGet(r)
  /\ UNCHANGED <<natural, inflight, queue, closeVars, readerVars, workerVars>>

(* A thread nobody waits for any more gets its token ... *)
lateAcquire(r) ==
  /\ pc[r] = "orphan" /\ sem > 0
  /\ sem' = sem - 1
  /\ Goto(r, "leaked")
  /\ UNCHANGED <<natural, inflight, queue, jobs, zombies,
                 closeVars, readerVars, workerVars>>

(* ... or its q.get returns or times out. *)
zombieEnds(r) ==
  /\ r \in zombies
  /\ zombies' = zombies \ {r}
  /\ UNCHANGED <<pc, natural, sem, inflight, queue, jobs,
                 closeVars, readerVars, workerVars>>

-----------------------------------------------------------------------------
(* close(): the flag under _stdin_lock, the snapshot under _inflight_lock,   *)
(* then the sentinels, without a lock.                                       *)
closeFlag ==
  /\ closer = "idle"
  /\ closed' = TRUE /\ closer' = "flagged"
  /\ UNCHANGED <<clientVars, snapshot, readerVars, workerVars>>

closeSnapshot ==
  /\ closer = "flagged"
  /\ snapshot' = inflight /\ inflight' = {}
  /\ closer' = "waking"
  /\ UNCHANGED <<pc, natural, sem, queue, jobs, zombies, closed,
                 readerVars, workerVars>>

closeWake ==
  /\ closer = "waking"
  /\ \/ \E r \in snapshot :
          /\ queue' = [queue EXCEPT ![r] = Append(@, WorkerExit)]
          /\ snapshot' = snapshot \ {r}
          /\ UNCHANGED closer
     \/ /\ snapshot = {}
        /\ closer' = "closed"
        /\ UNCHANGED <<queue, snapshot>>
  /\ UNCHANGED <<pc, natural, sem, inflight, jobs, zombies, closed,
                 readerVars, workerVars>>

-----------------------------------------------------------------------------
(* Mutant: any event without a queue is rerouted. *)
RoutesAnyEvent(event) ==
  IF event.rid \in inflight THEN {event.rid}
  ELSE IF Cardinality(inflight) = 1 THEN inflight
  ELSE {}

(* The queue an event goes to: its own, or, for an error with no queue, the  *)
(* only one there is.                                                        *)
Routes(event) ==
  IF event.rid \in inflight THEN {event.rid}
  ELSE IF event.ev = "error" /\ Cardinality(inflight) = 1 THEN inflight
  ELSE {}

(* _reader_loop looks the queue up under _inflight_lock ... *)
readEvent ==
  /\ reader = "reading" /\ carry = << >> /\ stdout # << >>
  /\ LET event == Head(stdout) IN
       carry' = IF Routes(event) = {} THEN << >>
                ELSE <<[to |-> CHOOSE r \in Routes(event) : TRUE, event |-> event]>>
  /\ stdout' = Tail(stdout)
  /\ UNCHANGED <<clientVars, closeVars, reader, alive, stdin, work>>

(* ... and puts the event into it after the lock is released. *)
putEvent ==
  /\ carry # << >>
  /\ queue' = [queue EXCEPT ![carry[1].to] = Append(@, carry[1].event)]
  /\ carry' = << >>
  /\ UNCHANGED <<pc, natural, sem, inflight, jobs, zombies, closeVars, reader,
                 workerVars>>

(* End of file, or a line that raises (valid JSON but no object, bytes that  *)
(* do not decode): the finally arm wakes everyone and empties the map.       *)
(* "crashed" records that there was more to read.                            *)
readerExit ==
  /\ reader = "reading" /\ carry = << >>
  /\ \/ stdout = << >> /\ ~alive /\ reader' = "exited"
     \/ ReaderMayCrash /\ (stdout # << >> \/ alive) /\ reader' = "crashed"
  /\ queue' = [r \in Reqs |->
                 IF r \in inflight THEN Append(queue[r], WorkerExit) ELSE queue[r]]
  /\ inflight' = {}
  /\ UNCHANGED <<pc, natural, sem, jobs, zombies, closeVars, carry, workerVars>>

-----------------------------------------------------------------------------
(* The worker process, as WorkerIO sees it: it reads lines in order, answers *)
(* a request with partials and one last event, keyed or not, and may die.    *)
(* One that does not know cancel lines answers them with an unkeyed error.   *)
Reply(ev, rid, r, byCancel) ==
  stdout' = Append(stdout, [ev |-> ev, rid |-> rid, about |-> r, byCancel |-> byCancel])

workerReads ==
  /\ alive /\ stdin # << >>
  /\ stdin' = Tail(stdin)
  /\ LET r == Head(stdin).id IN
     \/ /\ Head(stdin).type = "request"
        /\ work' = [work EXCEPT ![r].state = "busy"]
        /\ UNCHANGED stdout
     \/ /\ Head(stdin).type = "cancel" /\ CancelAware
        /\ work' = [work EXCEPT ![r].state = IF @ = "busy" THEN "tripped" ELSE @]
        /\ UNCHANGED stdout
     \/ /\ Head(stdin).type = "cancel" /\ ~CancelAware
        /\ Reply("error", NoId, r, TRUE)
        /\ UNCHANGED work
  /\ UNCHANGED <<clientVars, closeVars, readerVars, alive>>

workerReplies(r) ==
  /\ alive /\ work[r].state \in {"busy", "tripped"}
  /\ \/ /\ work[r].chunks < MaxChunks
        /\ Reply("partial", r, r, FALSE)
        /\ work' = [work EXCEPT ![r].chunks = @ + 1]
     \/ /\ \/ Reply("done", r, r, FALSE)
           \/ Reply("error", r, r, FALSE)
           \/ Reply("error", NoId, r, FALSE)
           \/ work[r].state = "tripped" /\ Reply("cancelled", r, r, FALSE)
        /\ work' = [work EXCEPT ![r] = [state |-> "finished", chunks |-> 0]]
  /\ UNCHANGED <<clientVars, closeVars, readerVars, alive, stdin>>

workerDies ==
  /\ alive
  /\ alive' = FALSE /\ stdin' = << >>
  /\ work' = [r \in Reqs |-> [state |-> "none", chunks |-> 0]]
  /\ UNCHANGED <<clientVars, closeVars, readerVars, stdout>>

-----------------------------------------------------------------------------
(* The steps that run by themselves once a request has been started. *)
Steps(r) ==
  \/ semAcquire(r) \/ checkClosed(r) \/ register(r) \/ write(r)
  \/ getEvent(r) \/ getTimeout(r) \/ consumerNext(r)
  \/ unregister(r) \/ semRelease(r) \/ cancel(r) \/ zombieEnds(r)

Reader == readEvent \/ putEvent \/ readerExit
Closer == closeFlag \/ closeSnapshot \/ closeWake

Next ==
  \/ \E r \in Reqs : \/ start(r) \/ Steps(r) \/ consumerBreaks(r)
                     \/ taskCancelled(r) \/ lateAcquire(r) \/ workerReplies(r)
  \/ execStart \/ Reader \/ Closer
  \/ workerReads \/ workerDies

Spec == Init /\ [][Next]_vars

(* Threads, the event loop and the executor run, and a consumer asks for     *)
(* the next event or stops.  Nothing is assumed of the worker: it may hang.  *)
FairSpec ==
  /\ Spec
  /\ \A r \in Reqs : WF_vars(Steps(r) \/ lateAcquire(r))
  /\ WF_vars(execStart)
-----------------------------------------------------------------------------
TypeOK ==
  /\ pc \in [Reqs -> PCs] /\ natural \in [Reqs -> BOOLEAN]
  /\ sem \in 0 .. Concurrency
  /\ inflight \subseteq Reqs /\ snapshot \subseteq Reqs
  /\ queue \in [Reqs -> Seq(Events \cup {WorkerExit})]
  /\ closed \in BOOLEAN /\ closer \in {"idle", "flagged", "waking", "closed"}
  /\ jobs \in Seq(Async) /\ zombies \subseteq Async
  /\ reader \in {"reading", "exited", "crashed"}
  /\ carry \in {<< >>} \cup {<<c>> : c \in [to : Reqs, event : Events]}
  /\ alive \in BOOLEAN
  /\ stdin \in Seq([type : {"request", "cancel"}, id : Reqs])
  /\ stdout \in Seq(Events)
  /\ work \in [Reqs -> [state : {"none", "busy", "tripped", "finished"},
                        chunks : 0 .. MaxChunks]]

(* Every token is free, held by a request that is still to release it, or    *)
(* taken by a thread whose task was cancelled: whatever a request meets      *)
(* (close, death, timeout, a consumer that stops, a cancelled get) the token *)
(* it took comes back exactly once.                                          *)
Holding == {"acquired", "register", "write", "getQueued", "getting", "yielded",
            "terminal", "pop", "release", "leaked"}
TokensConserved ==
  sem + Cardinality({r \in Reqs : pc[r] \in Holding}) = Concurrency

(* "Attach a done-callback so the late-acquired token is released back to    *)
(* the pool instead of leaking the slot" (send_request): once every request  *)
(* is over, every token is back.                                             *)
SlotsComeBack ==
  (\A r \in Reqs : pc[r] \in {"ended", "leaked"}) => sem = Concurrency

(* Once close() has returned, or the reader has seen the worker's end, no    *)
(* request waits in vain: a sentinel or a terminal event is in its queue or  *)
(* on the way to it, so that it raises "instead of hanging on q.get".  The race is *)
(* with a request that passed the first check of _closed before.             *)
Ends(event) == event.ev \in {"_worker_exit", "done", "cancelled"}
NoVainWait ==
  (closer = "closed" \/ reader = "exited") =>
    \A r \in Reqs : pc[r] \in {"getQueued", "getting"} =>
      \/ r \in snapshot
      \/ \E i \in DOMAIN queue[r] : Ends(queue[r][i])
      \/ carry # << >> /\ carry[1].to = r /\ Ends(carry[1].event)

(* Whatever a request's queue holds besides errors is about that request:    *)
(* rerouting never mixes the streams of an abandoned request and of a live   *)
(* one.                                                                      *)
StreamsApart ==
  \A r \in Reqs : \A i \in DOMAIN queue[r] :
    queue[r][i].ev \in {"partial", "done", "cancelled"} => queue[r][i].about = r

(* "Safe to call after the request has naturally completed (worker silently  *)
(* drops unknown cancels)" (cancel): a cancel line for one request is never  *)
(* heard as an error by another.                                             *)
CancelsAreSilent ==
  \A r \in Reqs : \A i \in DOMAIN queue[r] :
    queue[r][i].ev = "error" /\ queue[r][i].byCancel => queue[r][i].about = r

(* The deadlock of the executor: no token is free, each one held is held by  *)
(* a coroutine whose q.get waits for a thread, and every thread sits in      *)
(* sem.acquire.                                                              *)
Starved ==
  /\ sem = 0
  /\ \A r \in Reqs : pc[r] \in Holding => pc[r] = "getQueued"
  /\ Cardinality({r \in Async : pc[r] \in {"acquiring", "orphan"}}) = ExecThreads

(* Every request that is issued ends, or its task is cancelled, even when    *)
(* the worker hangs, dies or is closed or the reader trips over a line, since *)
(* q.get is bounded by 60 s and the finally arm always runs.  Two things may  *)
(* keep the others waiting, and nothing else: a token that a cancelled task   *)
(* leaked, and requests that stay starved of executor threads for ever.       *)
RequestsEnd ==
  \/ <>[]Starved
  \/ \A r \in Reqs : pc[r] # "new" ~> \/ pc[r] \in {"ended", "orphan"}
                                      \/ \E q \in Reqs : pc[q] = "leaked"

(* "After close(), in-flight send_request/request generators observe a        *)
(* _worker_exit sentinel and surface WorkerExitError" (close): a request that *)
(* waits for an event when close() has returned ends.                         *)
CloseEndsRequests ==
  \A r \in Reqs : closer = "closed" /\ pc[r] \in {"getQueued", "getting"} ~> pc[r] = "ended"
=============================================================================
