-------------------------- MODULE MCConversations --------------------------
(***************************************************************************)
(* What must go on: the sessions of the ASR worker, the requests of the      *)
(* Spark worker, the requests a process has with its worker (WorkerIO), and   *)
(* the scripts that drive a worker as their child.  The four share nothing    *)
(* here; a behaviour follows one of them and the others stay in one initial    *)
(* state.                                                                      *)
(***************************************************************************)
EXTENDS AsrWorker, WorkerClients

CONSTANTS SparkReqs, SparkSlots,                \* of the Spark worker
          Async, Concurrency, ExecThreads       \* of WorkerIO

VARIABLES side,
  main, inUse, queue, shutdown, thread, current, activeChannel, gCancelMap, mIdToSlot,
  cancelled, finished, decode, answers, asked, tripped,
  ioPc, natural, sem, inflight, ioQueue, closed, closer, snapshot, jobs, zombies,
  reader, carry, alive, ioStdin, ioStdout, work

Spark == INSTANCE SparkWorker WITH Reqs <- SparkReqs, MaxSlots <- SparkSlots
\* tasks may be cancelled, the worker may kill the reader; events in between do not
\* count here
Io == INSTANCE WorkerIO WITH
  Reqs <- Async, TaskCancel <- TRUE, ReaderMayCrash <- TRUE, CancelAware <- TRUE, MaxChunks <- 0,
  pc <- ioPc, queue <- ioQueue, stdin <- ioStdin, stdout <- ioStdout

sparkVars == <<main, inUse, queue, shutdown, thread, current, activeChannel, gCancelMap, mIdToSlot,
               cancelled, finished, decode, answers, asked, tripped>>
ioVars == <<ioPc, natural, sem, inflight, ioQueue, closed, closer, snapshot, jobs, zombies,
            reader, carry, alive, ioStdin, ioStdout, work>>
allVars == <<side, vars, clientsVars, sparkVars, ioVars>>

ConversationInit ==
  /\ side \in {"asr", "spark", "io", "client"}
  /\ Init /\ Spark!Init /\ Io!Init
  \* no property asks the quality gate to end
  /\ ClientsInit /\ (side = "client" \/ prog = "quality")

OnAsr(A) == side = "asr" /\ A /\ UNCHANGED <<side, clientsVars, sparkVars, ioVars>>
OnSpark(A) == side = "spark" /\ A /\ UNCHANGED <<side, vars, clientsVars, ioVars>>
OnIo(A) == side = "io" /\ A /\ UNCHANGED <<side, vars, clientsVars, sparkVars>>
OnClient(A) == side = "client" /\ A /\ UNCHANGED <<side, vars, sparkVars, ioVars>>

\* requests are interchangeable: nothing is lost when they are first issued in one order
First == CHOOSE r \in Async : TRUE
InOrder == ioPc[First] = "new" => \A r \in Async : ioPc[r] = "new"

\* handling a line does not look at the pipe: nothing is lost when the client writes
\* between two reads
Lockstep == Len(pipe') > Len(pipe) => buffer = << >>

ConversationNext ==
  OnAsr(Next /\ Lockstep) \/ OnSpark(Spark!Next) \/ OnIo(Io!Next /\ InOrder') \/ OnClient(ClientsNext)

\* the fairness of the four specifications
ConversationSpec ==
  /\ ConversationInit /\ [][ConversationNext]_allVars
  /\ WF_allVars(OnAsr(Worker)) /\ WF_allVars(OnAsr(tick))
  /\ WF_allVars(OnSpark(Spark!MainThread))
  /\ \A s \in Spark!Slots : WF_allVars(OnSpark(Spark!SlotThread(s)))
  /\ \A r \in SparkReqs : WF_allVars(OnSpark(Spark!Decode(r)))
  /\ \A r \in Async : WF_allVars(OnIo(Io!Steps(r) \/ Io!lateAcquire(r)))
  /\ WF_allVars(OnIo(Io!execStart))
  /\ WF_allVars(OnClient(WorkerProgress)) /\ WF_allVars(OnClient(DrainStderr))
  /\ WF_allVars(OnClient(Smoke \/ Moss \/ Cores \/ Quality))

Answered == Spark!Answered
RequestsEnd == Io!RequestsEnd
=============================================================================
