------------------------ MODULE WorkerClientsProofs ------------------------
(***************************************************************************)
(* Machine-checked proofs about the scripts that drive a worker: for any   *)
(* number of runs, chunks and log lines and any size of the pipes, with a  *)
(* worker that may crash, answer with an error or print to stdout.         *)
(***************************************************************************)
EXTENDS WorkerClients, SequenceTheorems, TLAPS

-----------------------------------------------------------------------------
(* The children                                                             *)

(* A script has ended exactly when it has a result; the worker is gone when  *)
(* the sampler is stopped; only the two MOSS drivers start one.              *)
ReapInv ==
  /\ exit \in {"none", "ok", "raised"} /\ (exit # "none" <=> pc = "ended")
  /\ sampler \in BOOLEAN /\ (sampler => prog \in {"moss", "cores"})
  /\ pc = "stop" => Exited
  /\ ChildrenReaped

-----------------------------------------------------------------------------
(* The audio                                                                *)

(* What goes through the pipes. *)
Chunks == Requests \X Nat
Lines == [event : {"ready", "done", "error", "noise"}]
           \cup [event : {"chunk"}, data : Chunks]
(* Where the worker is. *)
WorkerStates ==
  [pc : {"none", "loading", "idle", "serving", "exited"}, req : Requests,
   left : Nat, logs : Nat, log : BOOLEAN]

(* Types of what script and worker keep. *)
ClientTypes ==
  /\ prog \in {"smoke", "moss", "cores", "quality"}
  /\ run \in 1 .. TotalRuns
  /\ pcm \in Seq(Chunks) /\ answered \in BOOLEAN
  /\ saved \in [Requests -> Seq(Chunks)] /\ sent \in [Requests -> Seq(Chunks)]
  /\ stdin \in Seq(Requests) /\ stdout \in Seq(Lines)
  /\ worker \in WorkerStates

(* The worker has nothing to do for the script and nothing more to say. *)
Silent == stdin = << >> /\ stdout = << >> /\ worker.pc \in {"idle", "exited"}

(* The worker has said the last line about the request. *)
LastSaid == stdout # << >> /\ stdout[Len(stdout)].event # "chunk"

(* Before the worker is ready: noise, and ready as the last line. *)
StartUp ==
  /\ stdin = << >> /\ worker.pc \in {"loading", "idle", "exited"}
  /\ \A i \in DOMAIN stdout :
       /\ stdout[i].event \in {"noise", "ready"}
       /\ stdout[i].event = "ready" => i = Len(stdout) /\ worker.pc # "loading"

(* While a request is under way, what the script has collected and the       *)
(* chunks in the pipe are together what the worker has produced for it.      *)
Flow ==
  /\ worker.pc \in {"idle", "serving", "exited"}
  /\ \/ stdin = << >>
     \/ stdin = <<run>> /\ stdout = << >> /\ worker.pc # "serving"
  /\ worker.pc = "serving" => worker.req = run /\ ~LastSaid
  /\ worker.pc = "idle" /\ stdin = << >> => LastSaid
  /\ \A i \in DOMAIN stdout :
       /\ stdout[i].event \in {"chunk", "done", "error"}
       /\ stdout[i].event # "chunk" => i = Len(stdout)
       /\ stdout[i].event = "chunk" => stdout[i].data = sent[run][Len(pcm) + i]
  /\ \A i \in DOMAIN pcm : pcm[i] = sent[run][i]
  /\ Len(sent[run]) = Len(pcm) + Len(stdout) - (IF LastSaid THEN 1 ELSE 0)

(* The measured runs before r are published whole. *)
SavedBefore(r) == \A q \in Requests : q < r /\ ~IsWarmup(q) => saved[q] = sent[q]

(* Nothing has been produced for a request that was not sent. *)
UnsentFrom(r) == \A q \in Requests : q >= r => sent[q] = << >>

(* The smoke script, stage by stage, over all its requests. *)
SmokeInv ==
  prog = "smoke" =>
    /\ pc \in {"spawn", "ready", "send", "read", "save", "reap", "ended"}
    /\ pc \in {"spawn", "ready", "send", "read", "save"} => SavedBefore(run) /\ UnsentFrom(run + 1)
    /\ pc \in {"spawn", "ready", "send"} => UnsentFrom(run)
    /\ pc = "spawn" => stdin = << >> /\ stdout = << >> /\ worker.pc = "none"
    /\ pc = "ready" => StartUp
    /\ pc \in {"send", "save", "reap"} => Silent
    /\ pc = "read" => Flow
    /\ pc = "save" => pcm = sent[run]
    /\ pc = "reap" \/ exit = "ok" => SavedBefore(TotalRuns + 1)

(* The MOSS driver, stage by stage, over its one request. *)
MossInv ==
  prog = "moss" =>
    /\ run = 1
    /\ pc \in {"sampler", "asr", "llm", "spawn", "ready", "send", "read", "close",
               "reap", "stop", "ended"}
    /\ pc \in {"sampler", "asr", "llm", "spawn", "ready", "send", "read"} => ~answered
    /\ pc \in {"sampler", "asr", "llm", "spawn"} =>
         stdin = << >> /\ stdout = << >> /\ worker.pc = "none"
    /\ pc \in {"sampler", "asr", "llm", "spawn", "ready", "send"} =>
         pcm = << >> /\ sent[1] = << >>
    /\ pc = "ready" => StartUp
    /\ pc = "send" => Silent
    /\ pc = "read" => Flow
    /\ pc \in {"close", "reap"} /\ answered => Silent /\ pcm = sent[1]
    /\ (pc = "stop" \/ exit = "ok") /\ answered => saved[1] = sent[1]

(* The inductive invariant. *)
ClientInv == ReapInv /\ ClientTypes /\ SmokeInv /\ MossInv

-----------------------------------------------------------------------------
(* What the pieces are                                                      *)

(* Requests are numbered from one, and the script is on one of them. *)
LEMMA RequestNumbers ==
  ASSUME ClientTypes
  PROVE  /\ TotalRuns \in Nat \ {0} /\ 1 .. TotalRuns \subseteq Requests
         /\ run \in Requests /\ run \in Nat /\ 1 \in Requests /\ Requests \subseteq Nat
         /\ prog = "smoke" => Requests = 1 .. TotalRuns
         /\ prog # "smoke" => TotalRuns = 1 /\ run = 1
<1>1. Repeat \in Nat /\ Warmups \in Nat
  BY ClientsAssumption
<1> QED BY <1>1 DEF ClientTypes, TotalRuns, Requests

(* A sequence with one more element. *)
LEMMA Appended ==
  ASSUME NEW S, NEW q \in Seq(S), NEW c \in S
  PROVE  /\ Append(q, c) \in Seq(S) /\ Len(Append(q, c)) = Len(q) + 1 /\ Len(q) \in Nat
         /\ Append(q, c)[Len(q) + 1] = c /\ \A i \in 1 .. Len(q) : Append(q, c)[i] = q[i]
OBVIOUS

(* One more line in the pipe. *)
LEMMA LineSaid ==
  ASSUME stdout \in Seq(Lines), NEW line \in Lines, Say(line)
  PROVE  /\ stdout' \in Seq(Lines) /\ Len(stdout') = Len(stdout) + 1 /\ stdout' # << >>
         /\ Len(stdout) \in Nat
         /\ DOMAIN stdout = 1 .. Len(stdout) /\ DOMAIN stdout' = 1 .. Len(stdout) + 1
         /\ stdout'[Len(stdout) + 1] = line
         /\ \A i \in 1 .. Len(stdout) : stdout'[i] = stdout[i]
BY DEF Say

(* One line fewer. *)
LEMMA LineTaken ==
  ASSUME stdout \in Seq(Lines), stdout # << >>, TakeLine
  PROVE  /\ stdout' \in Seq(Lines) /\ Head(stdout) = stdout[1] /\ stdout[1] \in Lines
         /\ Len(stdout) \in Nat \ {0} /\ Len(stdout') = Len(stdout) - 1
         /\ DOMAIN stdout = 1 .. Len(stdout) /\ DOMAIN stdout' = 1 .. Len(stdout) - 1
         /\ \A i \in 1 .. Len(stdout) - 1 : stdout'[i] = stdout[i + 1]
         /\ Len(stdout) = 1 => stdout' = << >>
BY DEF TakeLine

(* The lines the worker writes. *)
LEMMA LineTypes ==
  /\ [event |-> "ready"] \in Lines /\ [event |-> "done"] \in Lines
  /\ [event |-> "error"] \in Lines /\ [event |-> "noise"] \in Lines
  /\ \A c \in Chunks : [event |-> "chunk", data |-> c] \in Lines
BY DEF Lines

(* A record of the worker with other fields. *)
PCs == {"none", "loading", "idle", "serving", "exited"}

(* A worker that goes to another state keeps its type. *)
LEMMA WorkerAt ==
  ASSUME worker \in WorkerStates, NEW p \in PCs
  PROVE  /\ [worker EXCEPT !.pc = p] \in WorkerStates
         /\ [worker EXCEPT !.pc = p].pc = p
BY DEF WorkerStates, PCs

(* A worker that exits is no longer in a log line. *)
LEMMA WorkerOut ==
  ASSUME worker \in WorkerStates
  PROVE  /\ [worker EXCEPT !.pc = "exited", !.log = FALSE] \in WorkerStates
         /\ [worker EXCEPT !.pc = "exited", !.log = FALSE].pc = "exited"
         /\ [worker EXCEPT !.pc = "exited", !.log = FALSE].req = worker.req
BY DEF WorkerStates

(* A worker that fails has no chunks left to produce. *)
LEMMA WorkerFailed ==
  ASSUME worker \in WorkerStates
  PROVE  /\ [worker EXCEPT !.pc = "idle", !.left = 0] \in WorkerStates
         /\ [worker EXCEPT !.pc = "idle", !.left = 0].pc = "idle"
BY DEF WorkerStates

(* A worker that produced a chunk, or begins a log line, stays where it is. *)
LEMMA WorkerGoesOn ==
  ASSUME worker \in WorkerStates
  PROVE  /\ worker.left > 0 =>
              /\ [worker EXCEPT !.left = worker.left - 1] \in WorkerStates
              /\ [worker EXCEPT !.left = worker.left - 1].pc = worker.pc
              /\ [worker EXCEPT !.left = worker.left - 1].req = worker.req
         /\ [worker EXCEPT !.log = TRUE, !.logs = worker.logs + 1] \in WorkerStates
         /\ [worker EXCEPT !.log = TRUE, !.logs = worker.logs + 1].pc = worker.pc
         /\ [worker EXCEPT !.log = TRUE, !.logs = worker.logs + 1].req = worker.req
<1>1. worker.left \in Nat /\ worker.logs + 1 \in Nat
  BY DEF WorkerStates
<1>2. worker.left > 0 => worker.left - 1 \in Nat
  BY <1>1
<1> QED BY <1>1, <1>2 DEF WorkerStates

(* A worker that takes a request serves that one. *)
LEMMA WorkerServes ==
  ASSUME worker \in WorkerStates, NEW r \in Requests, NEW n \in Nat
  PROVE  /\ [worker EXCEPT !.pc = "serving", !.req = r, !.left = n] \in WorkerStates
         /\ [worker EXCEPT !.pc = "serving", !.req = r, !.left = n].pc = "serving"
         /\ [worker EXCEPT !.pc = "serving", !.req = r, !.left = n].req = r
BY DEF WorkerStates

-----------------------------------------------------------------------------
(* What a step of the worker does to a script that waits for it, whatever   *)
(* the script waits for.                                                    *)
WorkerKeeps ==
  /\ UNCHANGED client /\ ClientTypes'
  /\ Silent => Silent' /\ sent' = sent
  /\ StartUp => StartUp' /\ sent' = sent
  /\ Flow => Flow' /\ \A q \in Requests \ {run} : sent'[q] = sent[q]
  /\ worker.pc \in {"none", "exited"} =>
       worker'.pc = worker.pc /\ stdin' = stdin /\ stdout' = stdout /\ sent' = sent

(* The worker loads, or a library prints to its stdout meanwhile. *)
LEMMA LoadKeeps == ClientTypes /\ (WorkerLoad \/ WorkerNoise) => WorkerKeeps
<1> SUFFICES ASSUME ClientTypes, WorkerLoad \/ WorkerNoise PROVE WorkerKeeps
  OBVIOUS
<1>1. /\ worker.pc = "loading" /\ stdin' = stdin /\ sent' = sent /\ UNCHANGED client
  BY DEF WorkerLoad, WorkerNoise, Quiet
<1>2. \/ Say([event |-> "ready"]) /\ worker' = [worker EXCEPT !.pc = "idle"]
      \/ Say([event |-> "noise"]) /\ worker' = worker
  BY DEF WorkerLoad, WorkerNoise, ready
<1>3. stdout \in Seq(Lines) /\ worker \in WorkerStates
  BY DEF ClientTypes
<1>4. PICK line \in Lines :
        /\ Say(line)
        /\ \/ line.event = "ready" /\ worker' = [worker EXCEPT !.pc = "idle"]
           \/ line.event = "noise" /\ worker' = worker
  BY <1>2, LineTypes
<1>5. worker' \in WorkerStates /\ worker'.pc \in {"loading", "idle"}
      /\ (line.event = "ready" => worker'.pc = "idle")
  <2>1. [worker EXCEPT !.pc = "idle"] \in WorkerStates /\ [worker EXCEPT !.pc = "idle"].pc = "idle"
    BY <1>3, WorkerAt DEF PCs
  <2> QED BY <1>1, <1>3, <1>4, <2>1
<1>6. ClientTypes'
  BY <1>1, <1>3, <1>4, <1>5, LineSaid DEF ClientTypes, client, TotalRuns
<1>7. ASSUME StartUp PROVE StartUp'
  <2>1. \A i \in 1 .. Len(stdout) : stdout[i].event = "noise"
    BY <1>1, <1>3, <1>7 DEF StartUp
  <2>2. /\ Len(stdout) \in Nat /\ Len(stdout') = Len(stdout) + 1
        /\ DOMAIN stdout' = 1 .. Len(stdout) + 1
        /\ stdout'[Len(stdout) + 1] = line
        /\ \A i \in 1 .. Len(stdout) : stdout'[i] = stdout[i]
    BY <1>3, <1>4, LineSaid
  <2>3. ASSUME NEW i \in DOMAIN stdout'
        PROVE  /\ stdout'[i].event \in {"noise", "ready"}
               /\ stdout'[i].event = "ready" => i = Len(stdout') /\ worker'.pc # "loading"
    <3>1. CASE i = Len(stdout) + 1
      BY <1>4, <1>5, <2>2, <3>1
    <3>2. CASE i # Len(stdout) + 1
      <4>1. i \in 1 .. Len(stdout)
        BY <2>2, <3>2
      <4> QED BY <2>1, <2>2, <4>1
    <3> QED BY <3>1, <3>2
  <2> QED BY <1>1, <1>5, <1>7, <2>3 DEF StartUp
<1>8. ~Silent /\ ~Flow
  BY <1>1 DEF Silent, Flow
<1> QED BY <1>1, <1>6, <1>7, <1>8 DEF WorkerKeeps

(* The worker takes the request from its stdin. *)
LEMMA TakeKeeps == ClientTypes /\ WorkerTake => WorkerKeeps
<1> SUFFICES ASSUME ClientTypes, WorkerTake PROVE WorkerKeeps
  OBVIOUS
<1>1. /\ worker.pc = "idle" /\ stdin # << >> /\ stdin' = Tail(stdin)
      /\ stdout' = stdout /\ sent' = sent /\ UNCHANGED client
  BY DEF WorkerTake, Quiet
<1>2. stdin \in Seq(Requests) /\ worker \in WorkerStates
  BY DEF ClientTypes
<1>3. Head(stdin) \in Requests /\ stdin' \in Seq(Requests)
  BY <1>1, <1>2
<1>4. PICK n \in Nat :
        worker' = [worker EXCEPT !.pc = "serving", !.req = Head(stdin), !.left = n]
  <2>1. \A n \in 0 .. (IF prog = "quality" THEN 0 ELSE MaxChunks) : n \in Nat
    BY ClientsAssumption
  <2>2. \E n \in 0 .. (IF prog = "quality" THEN 0 ELSE MaxChunks) :
          worker' = [worker EXCEPT !.pc = "serving", !.req = Head(stdin), !.left = n]
    BY Zenon DEF WorkerTake
  <2> QED BY <2>1, <2>2, Zenon
<1>5. worker' \in WorkerStates /\ worker'.pc = "serving" /\ worker'.req = Head(stdin)
  <2> DEFINE r == Head(stdin)
  <2>1. r \in Requests /\ worker' = [worker EXCEPT !.pc = "serving", !.req = r, !.left = n]
    BY <1>3, <1>4, Zenon
  <2> HIDE DEF r
  <2>2. worker' \in WorkerStates /\ worker'.pc = "serving" /\ worker'.req = r
    BY <1>2, <2>1, WorkerServes, Zenon
  <2> QED BY <2>2 DEF r
<1>6. ClientTypes'
  BY <1>1, <1>3, <1>5 DEF ClientTypes, client, TotalRuns
<1>7. ASSUME Flow PROVE Flow'
  <2>1. stdin = <<run>> /\ stdout = << >>
    BY <1>1, <1>7 DEF Flow
  <2>2. stdin' = << >> /\ Head(stdin) = run
    BY <1>1, <2>1
  <2>3. ~LastSaid /\ ~LastSaid'
    BY <1>1, <2>1 DEF LastSaid
  <2> QED BY <1>1, <1>5, <1>7, <2>1, <2>2, <2>3 DEF Flow, client
<1>8. ~Silent /\ ~StartUp
  BY <1>1 DEF Silent, StartUp
<1> QED BY <1>1, <1>6, <1>7, <1>8 DEF WorkerKeeps

(* The worker produces a chunk and writes it. *)
LEMMA ChunkKeeps == ClientTypes /\ WorkerChunk => WorkerKeeps
<1> SUFFICES ASSUME ClientTypes, WorkerChunk PROVE WorkerKeeps
  OBVIOUS
<1> DEFINE r == worker.req
           c == <<r, Len(sent[r]) + 1>>
           line == [event |-> "chunk", data |-> c]
<1>1. /\ worker.pc = "serving" /\ stdin' = stdin /\ UNCHANGED client
      /\ Say(line) /\ sent' = [sent EXCEPT ![r] = Append(@, c)]
      /\ worker' = [worker EXCEPT !.left = @ - 1] /\ worker.left > 0
  BY DEF WorkerChunk, Quiet
<1>2. /\ stdout \in Seq(Lines) /\ worker \in WorkerStates
      /\ sent \in [Requests -> Seq(Chunks)] /\ r \in Requests
  BY DEF ClientTypes, WorkerStates
<1>3. sent[r] \in Seq(Chunks) /\ Len(sent[r]) \in Nat /\ c \in Chunks
  BY <1>2 DEF Chunks
<1>4. line \in Lines /\ line.event = "chunk" /\ line.data = c
  BY <1>3, LineTypes
<1>5. worker' \in WorkerStates /\ worker'.pc = "serving" /\ worker'.req = r
  BY <1>1, <1>2, WorkerGoesOn
<1> HIDE DEF c, line
<1>6. sent' \in [Requests -> Seq(Chunks)] /\ sent'[r] = Append(sent[r], c)
      /\ \A q \in Requests \ {r} : sent'[q] = sent[q]
  BY <1>1, <1>2, <1>3
<1>7. ClientTypes'
  BY <1>1, <1>2, <1>4, <1>5, <1>6, LineSaid DEF ClientTypes, client, TotalRuns
<1>8. ASSUME Flow PROVE Flow' /\ \A q \in Requests \ {run} : sent'[q] = sent[q]
  <2>1. r = run /\ ~LastSaid /\ run' = run /\ pcm' = pcm
        /\ pcm \in Seq(Chunks) /\ Len(pcm) \in Nat
    BY <1>1, <1>8 DEF Flow, client, ClientTypes
  <2>2. /\ stdout' # << >> /\ Len(stdout) \in Nat /\ Len(stdout') = Len(stdout) + 1
        /\ DOMAIN stdout = 1 .. Len(stdout) /\ DOMAIN stdout' = 1 .. Len(stdout) + 1
        /\ stdout'[Len(stdout) + 1] = line
        /\ \A i \in 1 .. Len(stdout) : stdout'[i] = stdout[i]
    BY <1>1, <1>2, <1>4, LineSaid
  <2>3. Len(sent[run]) = Len(pcm) + Len(stdout)
    BY <1>8, <2>1, <2>2 DEF Flow
  <2>4. /\ Len(sent'[run]) = Len(sent[run]) + 1 /\ sent'[run][Len(sent[run]) + 1] = c
        /\ \A i \in 1 .. Len(sent[run]) : sent'[run][i] = sent[run][i]
    BY <1>3, <1>6, <2>1, Appended
  <2>5. ~LastSaid'
    BY <1>4, <2>2 DEF LastSaid
  <2>6. \A i \in 1 .. Len(stdout) : stdout[i].event = "chunk"
    <3>1. \A i \in DOMAIN stdout : stdout[i].event # "chunk" => i = Len(stdout)
      BY <1>8, Zenon DEF Flow
    <3> QED BY <2>1, <2>2, <3>1 DEF LastSaid
  <2>7. ASSUME NEW i \in DOMAIN stdout'
        PROVE  stdout'[i].event = "chunk" /\ stdout'[i].data = sent'[run][Len(pcm) + i]
    <3>1. CASE i = Len(stdout) + 1
      BY <1>4, <2>1, <2>2, <2>3, <2>4, <3>1
    <3>2. CASE i # Len(stdout) + 1
      <4>1. i \in 1 .. Len(stdout) /\ Len(pcm) + i \in 1 .. Len(sent[run])
        BY <2>1, <2>2, <2>3, <3>2
      <4>2. stdout[i].data = sent[run][Len(pcm) + i]
        BY <1>8, <2>2, <2>6, <4>1 DEF Flow
      <4> QED BY <2>2, <2>4, <2>6, <4>1, <4>2
    <3> QED BY <3>1, <3>2
  <2>8. \A i \in DOMAIN pcm : pcm[i] = sent'[run][i]
    <3>1. DOMAIN pcm = 1 .. Len(pcm) /\ \A i \in DOMAIN pcm : pcm[i] = sent[run][i]
      BY <1>8, <2>1 DEF Flow
    <3>2. \A i \in DOMAIN pcm : i \in 1 .. Len(sent[run])
      BY <2>1, <2>2, <2>3, <3>1
    <3> QED BY <2>4, <3>1, <3>2
  <2>9. Len(sent'[run]) = Len(pcm) + Len(stdout')
    BY <2>1, <2>2, <2>3, <2>4
  <2>10. stdin = << >>
    BY <1>1, <1>8 DEF Flow
  <2>11. Len(sent[run])' = Len(pcm') + Len(stdout') - (IF LastSaid' THEN 1 ELSE 0)
    BY <2>1, <2>2, <2>5, <2>9
  <2>12. worker'.pc = "serving" /\ worker'.req = run /\ stdin' = << >>
    BY <1>1, <1>5, <2>1, <2>10
  <2>13. Flow'
    BY <2>1, <2>5, <2>7, <2>8, <2>11, <2>12 DEF Flow
  <2> QED BY <1>6, <2>1, <2>13
<1>9. ~Silent /\ ~StartUp
  BY <1>1 DEF Silent, StartUp
<1> QED BY <1>1, <1>7, <1>8, <1>9 DEF WorkerKeeps

(* The worker ends the request, with done or with error. *)
LEMMA AnswerKeeps == ClientTypes /\ (WorkerDone \/ WorkerError) => WorkerKeeps
<1> SUFFICES ASSUME ClientTypes, WorkerDone \/ WorkerError PROVE WorkerKeeps
  OBVIOUS
<1>1. worker.pc = "serving" /\ stdin' = stdin /\ sent' = sent /\ UNCHANGED client
  BY DEF WorkerDone, WorkerError, Quiet
<1>2. stdout \in Seq(Lines) /\ worker \in WorkerStates
  BY DEF ClientTypes
<1>3. PICK line \in Lines : Say(line) /\ line.event \in {"done", "error"}
  BY LineTypes DEF WorkerDone, WorkerError
<1>4. worker' \in WorkerStates /\ worker'.pc = "idle"
  <2>1. CASE WorkerDone
    BY <1>2, <2>1, WorkerAt DEF WorkerDone, PCs
  <2>2. CASE WorkerError
    BY <1>2, <2>2, WorkerFailed DEF WorkerError
  <2> QED BY <2>1, <2>2
<1>5. ClientTypes'
  BY <1>1, <1>2, <1>3, <1>4, LineSaid DEF ClientTypes, client, TotalRuns
<1>6. ASSUME Flow PROVE Flow'
  <2>1. ~LastSaid /\ run' = run /\ pcm' = pcm /\ stdin = << >>
    BY <1>1, <1>6 DEF Flow, client
  <2>2. /\ stdout' # << >> /\ Len(stdout) \in Nat /\ Len(stdout') = Len(stdout) + 1
        /\ DOMAIN stdout = 1 .. Len(stdout) /\ DOMAIN stdout' = 1 .. Len(stdout) + 1
        /\ stdout'[Len(stdout) + 1] = line
        /\ \A i \in 1 .. Len(stdout) : stdout'[i] = stdout[i]
    BY <1>2, <1>3, LineSaid
  <2>3. LastSaid'
    BY <1>3, <2>2 DEF LastSaid
  <2>4. Len(sent[run]) = Len(pcm) + Len(stdout)
        /\ Len(pcm) \in Nat
    BY <1>6, <2>1, <2>2 DEF Flow, ClientTypes
  <2>5. \A i \in 1 .. Len(stdout) : stdout[i].event = "chunk"
    <3>1. \A i \in DOMAIN stdout : stdout[i].event # "chunk" => i = Len(stdout)
      BY <1>6, Zenon DEF Flow
    <3> QED BY <2>1, <2>2, <3>1 DEF LastSaid
  <2>6. ASSUME NEW i \in DOMAIN stdout'
        PROVE  /\ stdout'[i].event \in {"chunk", "done", "error"}
               /\ stdout'[i].event # "chunk" => i = Len(stdout')
               /\ stdout'[i].event = "chunk" => stdout'[i].data = sent[run][Len(pcm) + i]
    <3>1. CASE i = Len(stdout) + 1
      BY <1>3, <2>2, <3>1
    <3>2. CASE i # Len(stdout) + 1
      <4>1. i \in 1 .. Len(stdout)
        BY <2>2, <3>2
      <4> QED BY <1>6, <2>2, <2>5, <4>1 DEF Flow
    <3> QED BY <3>1, <3>2
  <2>7. Len(sent[run]) = Len(pcm) + Len(stdout') - 1
    BY <2>2, <2>4
  <2> QED BY <1>1, <1>4, <1>6, <2>1, <2>3, <2>6, <2>7 DEF Flow
<1>7. ~Silent /\ ~StartUp
  BY <1>1 DEF Silent, StartUp
<1> QED BY <1>1, <1>5, <1>6, <1>7 DEF WorkerKeeps

(* The worker exits, crashes, or is somewhere in a log line. *)
LEMMA QuietKeeps ==
  ClientTypes /\ (WorkerExit \/ WorkerCrash \/ WorkerBeginLog \/ WorkerEndLog) => WorkerKeeps
<1> SUFFICES ASSUME ClientTypes, WorkerExit \/ WorkerCrash \/ WorkerBeginLog \/ WorkerEndLog
             PROVE  WorkerKeeps
  OBVIOUS
<1>1. stdin' = stdin /\ stdout' = stdout /\ sent' = sent /\ UNCHANGED client
  BY DEF WorkerExit, WorkerCrash, WorkerBeginLog, WorkerEndLog, pipes
<1>2. /\ worker' \in WorkerStates /\ worker'.req = worker.req
      /\ \/ worker'.pc = worker.pc
         \/ worker'.pc = "exited" /\ worker.pc \in {"loading", "idle", "serving"}
  <2>1. worker \in WorkerStates
    BY DEF ClientTypes
  <2>2. CASE WorkerExit \/ WorkerCrash
    BY <2>1, <2>2, WorkerOut DEF WorkerExit, WorkerCrash
  <2>3. CASE WorkerBeginLog
    BY <2>1, <2>3, WorkerGoesOn DEF WorkerBeginLog
  <2>4. CASE WorkerEndLog
    BY <2>1, <2>4 DEF WorkerEndLog, WorkerStates
  <2> QED BY <2>2, <2>3, <2>4
<1>3. ClientTypes'
  BY <1>1, <1>2 DEF ClientTypes, client, TotalRuns
<1>4. Silent => Silent'
  BY <1>1, <1>2 DEF Silent
<1>5. StartUp => StartUp'
  BY <1>1, <1>2 DEF StartUp
<1>6. Flow => Flow'
  <2>1. LastSaid' = LastSaid /\ run' = run /\ pcm' = pcm
    BY <1>1 DEF LastSaid, client
  <2> QED BY <1>1, <1>2, <2>1 DEF Flow
<1> QED BY <1>1, <1>2, <1>3, <1>4, <1>5, <1>6 DEF WorkerKeeps

(* Every step of the worker is one of these. *)
LEMMA WorkerStep == ClientTypes /\ (WorkerProgress \/ WorkerFault) => WorkerKeeps
BY LoadKeeps, TakeKeeps, ChunkKeeps, AnswerKeeps, QuietKeeps DEF WorkerProgress, WorkerFault

(* A script that waits finds its invariant as it left it. *)
LEMMA WaitKeeps == ClientInv /\ WorkerKeeps => ClientInv'
<1> SUFFICES ASSUME ClientInv, WorkerKeeps PROVE ClientInv'
  OBVIOUS
<1>1. /\ prog' = prog /\ pc' = pc /\ exit' = exit /\ run' = run /\ pcm' = pcm
      /\ answered' = answered /\ saved' = saved /\ sampler' = sampler
  BY DEF WorkerKeeps, client
<1>2. /\ ClientTypes'
      /\ Silent => Silent' /\ sent' = sent
      /\ StartUp => StartUp' /\ sent' = sent
      /\ Flow => Flow' /\ \A q \in Requests \ {run} : sent'[q] = sent[q]
      /\ worker.pc \in {"none", "exited"} =>
           worker'.pc = worker.pc /\ stdin' = stdin /\ stdout' = stdout /\ sent' = sent
  BY DEF WorkerKeeps
<1>3. ReapInv /\ ClientTypes /\ SmokeInv /\ MossInv
  BY DEF ClientInv
<1>4. ReapInv'
  BY <1>1, <1>2, <1>3 DEF ReapInv, ChildrenReaped, Exited
<1>5. TotalRuns' = TotalRuns /\ \A r : IsWarmup(r)' = IsWarmup(r)
  BY <1>1 DEF TotalRuns, IsWarmup
<1>6. run \in Requests /\ Requests \subseteq Nat /\ TotalRuns \in Nat
  BY <1>3, RequestNumbers
<1>7. exit = "ok" => worker.pc = "exited"
  BY <1>3 DEF ReapInv, ChildrenReaped, Exited
<1>8. SmokeInv'
  <2> SUFFICES ASSUME prog = "smoke" PROVE SmokeInv'
    BY <1>1 DEF SmokeInv
  <2>1. CASE sent' = sent
    <3>1. \A r : SavedBefore(r)' = SavedBefore(r) /\ UnsentFrom(r)' = UnsentFrom(r)
      BY <1>1, <1>5, <2>1 DEF SavedBefore, UnsentFrom
    <3>2. pc = "read" => Flow'
      BY <1>2, <1>3 DEF SmokeInv
    <3>3. pc = "ready" => StartUp'
      BY <1>2, <1>3 DEF SmokeInv
    <3>4. pc \in {"send", "save", "reap"} => Silent'
      BY <1>2, <1>3 DEF SmokeInv
    <3>5. pc = "spawn" => stdin' = << >> /\ stdout' = << >> /\ worker'.pc = "none"
      BY <1>2, <1>3 DEF SmokeInv
    <3> HIDE DEF SavedBefore, UnsentFrom, Flow, StartUp, Silent
    <3> QED BY <1>1, <1>3, <1>5, <2>1, <3>1, <3>2, <3>3, <3>4, <3>5 DEF SmokeInv
  <2>2. CASE sent' # sent
    <3>1. pc \in {"read", "ended"} /\ exit # "ok"
      BY <1>2, <1>3, <1>7, <2>2 DEF SmokeInv, ReapInv
    <3>2. CASE pc = "ended"
      BY <1>1, <3>1, <3>2, <1>3 DEF SmokeInv, ReapInv
    <3>3. CASE pc = "read"
      <4>1. Flow' /\ \A q \in Requests \ {run} : sent'[q] = sent[q]
        BY <1>2, <1>3, <3>3 DEF SmokeInv
      <4>2. SavedBefore(run) /\ UnsentFrom(run + 1)
        BY <1>3, <3>3 DEF SmokeInv
      <4>3. \A q \in Requests : (q < run \/ q >= run + 1) => sent'[q] = sent[q]
        BY <1>6, <4>1
      <4>4. SavedBefore(run)' /\ UnsentFrom(run + 1)'
        BY <1>1, <1>5, <4>2, <4>3 DEF SavedBefore, UnsentFrom
      <4> HIDE DEF SavedBefore, UnsentFrom, Flow
      <4> QED BY <1>1, <3>1, <3>3, <4>1, <4>4 DEF SmokeInv
    <3> QED BY <3>1, <3>2, <3>3
  <2> QED BY <2>1, <2>2
<1>9. MossInv'
  <2> SUFFICES ASSUME prog = "moss" PROVE MossInv'
    BY <1>1 DEF MossInv
  <2>1. pc = "stop" => worker.pc = "exited"
    BY <1>3 DEF ReapInv, Exited
  <2>2. pc = "read" => Flow'
    BY <1>2, <1>3 DEF MossInv
  <2>3. pc = "ready" => StartUp' /\ sent' = sent
    BY <1>2, <1>3 DEF MossInv
  <2>4. pc = "send" => Silent' /\ sent' = sent
    BY <1>2, <1>3 DEF MossInv
  <2>5. pc \in {"close", "reap"} /\ answered => Silent' /\ sent' = sent
    BY <1>2, <1>3 DEF MossInv
  <2>6. pc \in {"sampler", "asr", "llm", "spawn"} =>
          stdin' = << >> /\ stdout' = << >> /\ worker'.pc = "none" /\ sent' = sent
    BY <1>2, <1>3 DEF MossInv
  <2>7. pc = "stop" \/ exit = "ok" => sent' = sent
    BY <1>2, <1>7, <2>1
  <2> HIDE DEF Flow, StartUp, Silent
  <2> QED BY <1>1, <1>3, <2>2, <2>3, <2>4, <2>5, <2>6, <2>7 DEF MossInv
<1> QED BY <1>2, <1>4, <1>8, <1>9 DEF ClientInv

(* A step that leaves the script, the worker and the two pipes of the        *)
(* conversation alone.                                                       *)
LEMMA FrameKeeps ==
  ClientInv /\ UNCHANGED <<client, worker, stdin, stdout, sent>> => ClientInv'
<1> SUFFICES ASSUME ClientInv, UNCHANGED <<client, worker, stdin, stdout, sent>>
             PROVE  ClientInv'
  OBVIOUS
<1>1. ClientTypes'
  BY DEF ClientInv, ClientTypes, client, TotalRuns
<1>2. (Silent => Silent') /\ (StartUp => StartUp')
  BY DEF Silent, StartUp
<1>3. Flow => Flow'
  <2>1. LastSaid' = LastSaid /\ run' = run /\ pcm' = pcm
    BY DEF LastSaid, client
  <2> QED BY <2>1 DEF Flow
<1> QED BY <1>1, <1>2, <1>3, WaitKeeps DEF WorkerKeeps

-----------------------------------------------------------------------------
(* Steps of the scripts                                                     *)

(* An exception leaves main: nothing is published as a result. *)
LEMMA RaiseKeeps == ClientInv /\ Raise => ClientInv'
<1> SUFFICES ASSUME ClientInv, Raise PROVE ClientInv'
  OBVIOUS
<1>1. /\ prog' = prog /\ pc' = "ended" /\ exit' = "raised" /\ sampler' = sampler
      /\ UNCHANGED <<run, pcm, answered, saved, worker, sent, stdin, stdout>>
  BY DEF Raise, End
<1>2. ReapInv'
  BY <1>1 DEF ClientInv, ReapInv, ChildrenReaped
<1>3. ClientTypes'
  BY <1>1 DEF ClientInv, ClientTypes, TotalRuns
<1>4. SmokeInv' /\ MossInv'
  BY <1>1 DEF ClientInv, SmokeInv, MossInv
<1> QED BY <1>2, <1>3, <1>4 DEF ClientInv

(* Popen starts a worker that has said nothing. *)
LEMMA SpawnedStartsUp ==
  ASSUME ClientTypes, stdin = << >>, stdout = << >>, Popen
  PROVE  /\ StartUp' /\ worker' \in WorkerStates /\ sent' = sent
         /\ stdin' = stdin /\ stdout' = stdout
<1>1. worker' \in WorkerStates /\ worker'.pc = "loading"
  BY WorkerAt DEF Popen, ClientTypes, PCs
<1>2. stdin' = << >> /\ stdout' = << >> /\ sent' = sent
  BY DEF Popen
<1> QED BY <1>1, <1>2 DEF StartUp

(* Once ready is read there is nothing left in the pipe. *)
LEMMA ReadyIsLast ==
  ASSUME ClientTypes, StartUp, HasLine("ready"), Readline
  PROVE  /\ Silent' /\ stdout' \in Seq(Lines)
         /\ UNCHANGED <<worker, stdin, sent>>
<1>1. stdout \in Seq(Lines) /\ stdout # << >> /\ Head(stdout).event = "ready" /\ TakeLine
  BY DEF ClientTypes, HasLine, Readline
<1>2. /\ stdout' \in Seq(Lines) /\ stdout[1].event = "ready" /\ 1 \in DOMAIN stdout
      /\ (Len(stdout) = 1 => stdout' = << >>)
  BY <1>1, LineTaken
<1>3. Len(stdout) = 1 /\ worker.pc # "loading"
  BY <1>2 DEF StartUp
<1>4. UNCHANGED <<worker, stdin, sent>>
  BY DEF Readline
<1> QED BY <1>2, <1>3, <1>4 DEF Silent, StartUp

(* A line that is no answer is skipped. *)
LEMMA NoiseSkipped ==
  ASSUME ClientTypes, StartUp, stdout # << >>, Readline
  PROVE  StartUp' /\ stdout' \in Seq(Lines) /\ UNCHANGED <<worker, stdin, sent>>
<1>1. UNCHANGED <<worker, stdin, sent>> /\ TakeLine /\ stdout \in Seq(Lines)
  BY DEF Readline, ClientTypes
<1>2. /\ stdout' \in Seq(Lines) /\ Len(stdout) \in Nat \ {0} /\ Len(stdout') = Len(stdout) - 1
      /\ DOMAIN stdout = 1 .. Len(stdout) /\ DOMAIN stdout' = 1 .. Len(stdout) - 1
      /\ \A i \in 1 .. Len(stdout) - 1 : stdout'[i] = stdout[i + 1]
  BY <1>1, LineTaken
<1>3. ASSUME NEW i \in DOMAIN stdout'
      PROVE  /\ stdout'[i].event \in {"noise", "ready"}
             /\ stdout'[i].event = "ready" => i = Len(stdout') /\ worker'.pc # "loading"
  <2>1. i + 1 \in DOMAIN stdout /\ stdout'[i] = stdout[i + 1] /\ i \in Nat
    BY <1>2
  <2>2. /\ stdout[i + 1].event \in {"noise", "ready"}
        /\ stdout[i + 1].event = "ready" => i + 1 = Len(stdout) /\ worker.pc # "loading"
    BY <2>1 DEF StartUp
  <2> QED BY <1>1, <1>2, <2>1, <2>2
<1> QED BY <1>1, <1>2, <1>3 DEF StartUp

(* A request goes to a silent worker and the flow begins. *)
LEMMA SentFlows ==
  ASSUME ClientTypes, Silent, sent[run] = << >>, pcm' = << >>, run' = run, Write
  PROVE  Flow' /\ stdin' \in Seq(Requests) /\ UNCHANGED <<worker, stdout, sent>>
<1>1. worker.pc = "idle" /\ stdout = << >> /\ stdin = << >>
  BY DEF Silent, Write, Exited
<1>2. UNCHANGED <<worker, stdout, sent>> /\ stdin' = Append(stdin, run)
  BY DEF Write
<1>3. run \in Requests /\ stdin \in Seq(Requests)
  BY RequestNumbers DEF ClientTypes
<1>4. stdin' = <<run>> /\ stdin' # << >> /\ stdin' \in Seq(Requests)
  BY <1>1, <1>2, <1>3
<1>5. ~LastSaid'
  BY <1>1, <1>2 DEF LastSaid
<1>6. Len(sent'[run']) = Len(pcm') + Len(stdout') - (IF LastSaid' THEN 1 ELSE 0)
  BY <1>1, <1>2, <1>5
<1> QED BY <1>1, <1>2, <1>4, <1>5, <1>6 DEF Flow

(* A chunk moves from the pipe to what the script has collected. *)
LEMMA ChunkFlows ==
  ASSUME ClientTypes, Flow, HasLine("chunk"), Readline, run' = run,
         pcm' = Append(pcm, Head(stdout).data)
  PROVE  /\ Flow' /\ pcm' \in Seq(Chunks) /\ stdout' \in Seq(Lines)
         /\ UNCHANGED <<worker, stdin, sent>>
<1>1. /\ UNCHANGED <<worker, stdin, sent>> /\ TakeLine /\ stdout \in Seq(Lines)
      /\ stdout # << >> /\ Head(stdout).event = "chunk" /\ pcm \in Seq(Chunks)
      /\ sent \in [Requests -> Seq(Chunks)] /\ run \in Requests
  BY RequestNumbers DEF Readline, ClientTypes, HasLine
<1>2. /\ stdout' \in Seq(Lines) /\ Head(stdout) = stdout[1] /\ stdout[1] \in Lines
      /\ Len(stdout) \in Nat \ {0} /\ Len(stdout') = Len(stdout) - 1
      /\ DOMAIN stdout = 1 .. Len(stdout) /\ DOMAIN stdout' = 1 .. Len(stdout) - 1
      /\ \A i \in 1 .. Len(stdout) - 1 : stdout'[i] = stdout[i + 1]
      /\ Len(stdout) = 1 => stdout' = << >>
  BY <1>1, LineTaken
<1> DEFINE c == Head(stdout).data
<1>3. c \in Chunks /\ c = sent[run][Len(pcm) + 1]
  <2>1. stdout[1].data \in Chunks
    BY <1>1, <1>2 DEF Lines
  <2>2. 1 \in DOMAIN stdout /\ stdout[1].event = "chunk"
    BY <1>1, <1>2
  <2>3. stdout[1].data = sent[run][Len(pcm) + 1]
    BY <2>2 DEF Flow
  <2> QED BY <1>2, <2>1, <2>3
<1>4. pcm' = Append(pcm, c)
  OBVIOUS
<1> HIDE DEF c
<1>5. /\ pcm' \in Seq(Chunks) /\ Len(pcm') = Len(pcm) + 1 /\ Len(pcm) \in Nat
      /\ pcm'[Len(pcm) + 1] = c /\ \A i \in 1 .. Len(pcm) : pcm'[i] = pcm[i]
      /\ DOMAIN pcm' = 1 .. Len(pcm) + 1 /\ DOMAIN pcm = 1 .. Len(pcm)
  BY <1>1, <1>3, <1>4, Appended
<1>6. LastSaid' <=> LastSaid
  <2>1. CASE Len(stdout) = 1
    BY <1>1, <1>2, <2>1 DEF LastSaid
  <2>2. CASE Len(stdout) # 1
    <3>1. Len(stdout) - 1 \in 1 .. Len(stdout) - 1 /\ (Len(stdout) - 1) + 1 = Len(stdout)
      BY <1>2, <2>2
    <3>2. stdout' # << >> /\ stdout'[Len(stdout')] = stdout[Len(stdout)]
      BY <1>2, <3>1
    <3> QED BY <1>1, <3>2 DEF LastSaid
  <2> QED BY <2>1, <2>2
<1>7. ASSUME NEW i \in DOMAIN stdout'
      PROVE  /\ stdout'[i].event \in {"chunk", "done", "error"}
             /\ stdout'[i].event # "chunk" => i = Len(stdout')
             /\ stdout'[i].event = "chunk" => stdout'[i].data = sent[run][Len(pcm') + i]
  <2>1. i + 1 \in DOMAIN stdout /\ stdout'[i] = stdout[i + 1] /\ i \in Nat
    BY <1>2
  <2>2. /\ stdout[i + 1].event \in {"chunk", "done", "error"}
        /\ stdout[i + 1].event # "chunk" => i + 1 = Len(stdout)
        /\ stdout[i + 1].event = "chunk" => stdout[i + 1].data = sent[run][Len(pcm) + (i + 1)]
    BY <2>1 DEF Flow
  <2>3. Len(pcm') + i = Len(pcm) + (i + 1)
    BY <1>5, <2>1
  <2> QED BY <1>2, <2>1, <2>2, <2>3
<1>8. ASSUME NEW i \in DOMAIN pcm' PROVE pcm'[i] = sent[run][i]
  <2>1. \A j \in DOMAIN pcm : pcm[j] = sent[run][j]
    BY DEF Flow
  <2>2. CASE i = Len(pcm) + 1
    BY <1>3, <1>5, <2>2
  <2>3. CASE i # Len(pcm) + 1
    <3>1. i \in 1 .. Len(pcm)
      BY <1>5, <2>3
    <3> QED BY <1>5, <2>1, <3>1
  <2> QED BY <2>2, <2>3
<1>9. Len(sent[run]) = Len(pcm') + Len(stdout') - (IF LastSaid' THEN 1 ELSE 0)
  <2>1. Len(sent[run]) = Len(pcm) + Len(stdout) - (IF LastSaid THEN 1 ELSE 0)
    BY DEF Flow
  <2> QED BY <1>2, <1>5, <1>6, <2>1
<1>10. /\ worker'.pc \in {"idle", "serving", "exited"} /\ stdin' = << >>
       /\ worker'.pc = "serving" => worker'.req = run /\ ~LastSaid'
       /\ worker'.pc = "idle" => LastSaid'
  BY <1>1, <1>6 DEF Flow
<1>11. Flow'
  BY <1>1, <1>7, <1>8, <1>9, <1>10 DEF Flow
<1> QED BY <1>1, <1>2, <1>5, <1>11

(* done is the last line about the request: all of it has been collected. *)
LEMMA DoneIsWhole ==
  ASSUME ClientTypes, Flow, HasLine("done"), Readline
  PROVE  /\ Silent' /\ pcm = sent[run] /\ stdout' \in Seq(Lines)
         /\ UNCHANGED <<worker, stdin, sent>>
<1>1. /\ UNCHANGED <<worker, stdin, sent>> /\ TakeLine /\ stdout \in Seq(Lines)
      /\ stdout # << >> /\ Head(stdout).event = "done" /\ pcm \in Seq(Chunks)
      /\ sent[run] \in Seq(Chunks)
  BY RequestNumbers DEF Readline, ClientTypes, HasLine
<1>2. /\ stdout' \in Seq(Lines) /\ Head(stdout) = stdout[1]
      /\ DOMAIN stdout = 1 .. Len(stdout) /\ Len(stdout) \in Nat \ {0}
      /\ Len(stdout) = 1 => stdout' = << >>
  BY <1>1, LineTaken
<1>3. stdout[1].event = "done" /\ 1 \in DOMAIN stdout
  BY <1>1, <1>2
<1>4. Len(stdout) = 1
  BY <1>3 DEF Flow
<1>5. LastSaid
  BY <1>1, <1>3, <1>4 DEF LastSaid
<1>6. Silent'
  BY <1>1, <1>2, <1>4, <1>5 DEF Silent, Flow
<1>7. pcm = sent[run]
  <2>1. Len(pcm) \in Nat /\ Len(sent[run]) = Len(pcm) + Len(stdout) - 1
    BY <1>1, <1>5 DEF Flow
  <2>2. Len(sent[run]) = Len(pcm)
    BY <1>4, <2>1
  <2>3. \A i \in 1 .. Len(pcm) : pcm[i] = sent[run][i]
    BY <1>1 DEF Flow
  <2> QED BY <1>1, <2>2, <2>3, SeqEqual
<1> QED BY <1>1, <1>2, <1>6, <1>7

-----------------------------------------------------------------------------
(* run_qwen3_tts_worker_smoke.py                                            *)
LEMMA SmokeKeeps == ClientInv /\ Smoke => ClientInv'
<1> SUFFICES ASSUME ClientInv, Smoke PROVE ClientInv'
  OBVIOUS
<1>0. /\ ReapInv /\ ClientTypes /\ SmokeInv /\ prog = "smoke"
      /\ run \in Requests /\ run \in Nat /\ TotalRuns \in Nat \ {0}
      /\ Requests = 1 .. TotalRuns
  BY RequestNumbers
     DEF ClientInv, Smoke, SmokeSpawn, SmokeReady, SmokeSend, SmokeRead, SmokeSave, SmokeReap
<1>1. CASE SmokeSpawn
  <2>1. /\ prog' = prog /\ pc' = "ready" /\ exit' = exit /\ pc = "spawn" /\ Popen
        /\ UNCHANGED <<run, pcm, answered, saved, sampler>>
    BY <1>1 DEF SmokeSpawn, GoOn
  <2>2. stdin = << >> /\ stdout = << >> /\ SavedBefore(run) /\ UnsentFrom(run + 1)
        /\ UnsentFrom(run)
    BY <1>0, <2>1 DEF SmokeInv
  <2>3. /\ StartUp' /\ worker' \in WorkerStates /\ sent' = sent
        /\ stdin' = stdin /\ stdout' = stdout
    BY <1>0, <2>1, <2>2, SpawnedStartsUp
  <2>4. ReapInv'
    BY <1>0, <2>1 DEF ReapInv, ChildrenReaped
  <2>5. ClientTypes'
    BY <1>0, <2>1, <2>3 DEF ClientTypes, TotalRuns
  <2>6. SavedBefore(run)' /\ UnsentFrom(run + 1)' /\ UnsentFrom(run)'
    BY <2>1, <2>2, <2>3 DEF SavedBefore, UnsentFrom, IsWarmup
  <2>7. exit' # "ok"
    BY <1>0, <2>1 DEF ReapInv
  <2>8. SmokeInv' /\ MossInv'
    BY <1>0, <2>1, <2>3, <2>6, <2>7 DEF SmokeInv, MossInv
  <2> QED BY <2>4, <2>5, <2>8 DEF ClientInv
<1>2. CASE SmokeReady
  <2>1. CASE Raise
    BY <2>1, RaiseKeeps
  <2>2. CASE ~Raise
    <3>1. /\ prog' = prog /\ pc' = "send" /\ exit' = exit /\ pc = "ready"
          /\ HasLine("ready") /\ Readline
          /\ UNCHANGED <<run, pcm, answered, saved, sampler>>
      BY <1>2, <2>2 DEF SmokeReady, GoOn
    <3>2. StartUp /\ SavedBefore(run) /\ UnsentFrom(run + 1) /\ UnsentFrom(run)
      BY <1>0, <3>1 DEF SmokeInv
    <3>3. Silent' /\ stdout' \in Seq(Lines) /\ UNCHANGED <<worker, stdin, sent>>
      BY <1>0, <3>1, <3>2, ReadyIsLast
    <3>4. ReapInv'
      BY <1>0, <3>1 DEF ReapInv, ChildrenReaped
    <3>5. ClientTypes'
      BY <1>0, <3>1, <3>3 DEF ClientTypes, TotalRuns
    <3>6. SavedBefore(run)' /\ UnsentFrom(run + 1)' /\ UnsentFrom(run)'
      BY <3>1, <3>2, <3>3 DEF SavedBefore, UnsentFrom, IsWarmup
    <3>7. exit' # "ok"
      BY <1>0, <3>1 DEF ReapInv
    <3>8. SmokeInv' /\ MossInv'
      BY <1>0, <3>1, <3>3, <3>6, <3>7 DEF SmokeInv, MossInv
    <3> QED BY <3>4, <3>5, <3>8 DEF ClientInv
  <2> QED BY <2>1, <2>2
<1>3. CASE SmokeSend
  <2>1. CASE Raise
    BY <2>1, RaiseKeeps
  <2>2. CASE ~Raise
    <3>1. /\ prog' = prog /\ pc' = "read" /\ exit' = exit /\ pc = "send" /\ Write
          /\ pcm' = << >> /\ answered' = FALSE
          /\ UNCHANGED <<run, saved, sampler>>
      BY <1>3, <2>2 DEF SmokeSend, GoOn
    <3>2. Silent /\ SavedBefore(run) /\ UnsentFrom(run + 1) /\ UnsentFrom(run)
      BY <1>0, <3>1 DEF SmokeInv
    <3>3. sent[run] = << >>
      BY <1>0, <3>2 DEF UnsentFrom
    <3>4. Flow' /\ stdin' \in Seq(Requests) /\ UNCHANGED <<worker, stdout, sent>>
      BY <1>0, <3>1, <3>2, <3>3, SentFlows
    <3>5. ReapInv'
      BY <1>0, <3>1 DEF ReapInv, ChildrenReaped
    <3>6. ClientTypes'
      <4>1. pcm' \in Seq(Chunks)
        BY <3>1
      <4>2. answered' \in BOOLEAN
        BY <3>1
      <4> QED BY <1>0, <3>1, <3>4, <4>1, <4>2 DEF ClientTypes, TotalRuns
    <3>7. SavedBefore(run)' /\ UnsentFrom(run + 1)'
      BY <3>1, <3>2, <3>4 DEF SavedBefore, UnsentFrom, IsWarmup
    <3>8. exit' # "ok"
      BY <1>0, <3>1 DEF ReapInv
    <3>9. SmokeInv' /\ MossInv'
      BY <1>0, <3>1, <3>4, <3>7, <3>8 DEF SmokeInv, MossInv
    <3> QED BY <3>5, <3>6, <3>9 DEF ClientInv
  <2> QED BY <2>1, <2>2
<1>4. CASE SmokeRead
  <2>0. pc = "read"
    BY <1>4 DEF SmokeRead
  <2>1. Flow /\ SavedBefore(run) /\ UnsentFrom(run + 1) /\ exit = "none"
    BY <1>0, <2>0 DEF SmokeInv, ReapInv
  <2>2. CASE Raise
    BY <2>2, RaiseKeeps
  <2>3. CASE /\ HasLine("chunk") /\ pcm' = Append(pcm, Head(stdout).data)
             /\ Readline /\ GoOn("read")
             /\ UNCHANGED <<run, answered, saved, sampler>>
    <3>1. prog' = prog /\ pc' = "read" /\ exit' = exit
      BY <2>3 DEF GoOn
    <3>2. /\ Flow' /\ pcm' \in Seq(Chunks) /\ stdout' \in Seq(Lines)
          /\ UNCHANGED <<worker, stdin, sent>>
      BY <1>0, <2>1, <2>3, ChunkFlows
    <3>3. ReapInv'
      BY <1>0, <2>1, <2>3, <3>1 DEF ReapInv, ChildrenReaped
    <3>4. ClientTypes'
      BY <1>0, <2>3, <3>1, <3>2 DEF ClientTypes, TotalRuns
    <3>5. SavedBefore(run)' /\ UnsentFrom(run + 1)'
      BY <2>1, <2>3, <3>1, <3>2 DEF SavedBefore, UnsentFrom, IsWarmup
    <3>6. SmokeInv' /\ MossInv'
      BY <1>0, <2>1, <3>1, <3>2, <3>5 DEF SmokeInv, MossInv
    <3> QED BY <3>3, <3>4, <3>6 DEF ClientInv
  <2>4. CASE /\ HasLine("done") /\ answered' = TRUE
             /\ Readline /\ GoOn("save")
             /\ UNCHANGED <<run, pcm, saved, sampler>>
    <3>1. prog' = prog /\ pc' = "save" /\ exit' = exit
      BY <2>4 DEF GoOn
    <3>2. /\ Silent' /\ pcm = sent[run] /\ stdout' \in Seq(Lines)
          /\ UNCHANGED <<worker, stdin, sent>>
      BY <1>0, <2>1, <2>4, DoneIsWhole
    <3>3. ReapInv'
      BY <1>0, <2>1, <2>4, <3>1 DEF ReapInv, ChildrenReaped
    <3>4. ClientTypes'
      BY <1>0, <2>4, <3>1, <3>2 DEF ClientTypes, TotalRuns
    <3>5. SavedBefore(run)' /\ UnsentFrom(run + 1)'
      BY <2>1, <2>4, <3>1, <3>2 DEF SavedBefore, UnsentFrom, IsWarmup
    <3>6. pcm' = sent'[run']
      BY <2>4, <3>2
    <3>7. SmokeInv' /\ MossInv'
      BY <1>0, <2>1, <3>1, <3>2, <3>5, <3>6 DEF SmokeInv, MossInv
    <3> QED BY <3>3, <3>4, <3>7 DEF ClientInv
  <2> QED BY <1>4, <2>2, <2>3, <2>4 DEF SmokeRead
<1>5. CASE SmokeSave
  <2>1. /\ pc = "save" /\ prog' = prog /\ exit' = exit
        /\ saved' = IF IsWarmup(run) THEN saved ELSE [saved EXCEPT ![run] = pcm]
        /\ UNCHANGED <<pcm, answered, sampler, worker, stdin, stdout, sent>>
        /\ \/ run < TotalRuns /\ run' = run + 1 /\ pc' = "send"
           \/ ~(run < TotalRuns) /\ run' = run /\ pc' = "reap"
    BY <1>5 DEF SmokeSave, GoOn, pipes
  <2>2. /\ Silent /\ SavedBefore(run) /\ UnsentFrom(run + 1) /\ pcm = sent[run]
        /\ exit = "none"
    BY <1>0, <2>1 DEF SmokeInv, ReapInv
  <2>3. saved \in [Requests -> Seq(Chunks)] /\ pcm \in Seq(Chunks) /\ run \in 1 .. TotalRuns
    BY <1>0 DEF ClientTypes
  <2>4. /\ saved' \in [Requests -> Seq(Chunks)]
        /\ \A q \in Requests \ {run} : saved'[q] = saved[q]
        /\ ~IsWarmup(run) => saved'[run] = sent[run]
    BY <1>0, <2>1, <2>2, <2>3
  <2>5. TotalRuns' = TotalRuns /\ (\A r : IsWarmup(r)' <=> IsWarmup(r)) /\ sent' = sent
    BY <2>1 DEF TotalRuns, IsWarmup
  <2>6. \A q \in Requests : q < run + 1 /\ ~IsWarmup(q) => saved'[q] = sent[q]
    <3>1. \A q \in Requests : q < run + 1 => q = run \/ q < run
      BY <1>0
    <3> QED BY <2>2, <2>4, <3>1 DEF SavedBefore
  <2>7. Silent'
    BY <2>1, <2>2 DEF Silent
  <2>8. ReapInv'
    BY <1>0, <2>1, <2>2 DEF ReapInv, ChildrenReaped
  <2>9. ClientTypes'
    <3>1. run' \in 1 .. TotalRuns
      BY <1>0, <2>1, <2>3
    <3> QED BY <1>0, <2>1, <2>4, <2>5, <3>1 DEF ClientTypes
  <2>10. CASE run < TotalRuns
    <3>1. run' = run + 1 /\ pc' = "send"
      BY <2>1, <2>10
    <3>2. SavedBefore(run)' /\ UnsentFrom(run)'
      BY <2>2, <2>5, <2>6, <3>1 DEF SavedBefore, UnsentFrom
    <3>3. UnsentFrom(run + 1)'
      BY <1>0, <3>1, <3>2 DEF UnsentFrom
    <3>4. SmokeInv' /\ MossInv'
      BY <1>0, <2>1, <2>2, <2>7, <3>1, <3>2, <3>3 DEF SmokeInv, MossInv
    <3> QED BY <2>8, <2>9, <3>4 DEF ClientInv
  <2>11. CASE ~(run < TotalRuns)
    <3>1. run' = run /\ pc' = "reap" /\ run = TotalRuns
      BY <1>0, <2>1, <2>3, <2>11
    <3>2. SavedBefore(TotalRuns + 1)'
      BY <2>5, <2>6, <3>1 DEF SavedBefore
    <3>3. SmokeInv' /\ MossInv'
      BY <1>0, <2>1, <2>2, <2>7, <3>1, <3>2 DEF SmokeInv, MossInv
    <3> QED BY <2>8, <2>9, <3>3 DEF ClientInv
  <2> QED BY <2>10, <2>11
<1>6. CASE SmokeReap
  <2>1. /\ pc = "reap" /\ pc' = "ended" /\ exit' = "ok" /\ prog' = prog
        /\ IF Exited THEN worker' = worker ELSE Kill
        /\ UNCHANGED <<run, pcm, answered, saved, sampler, stdin, stdout, sent>>
    BY <1>6 DEF SmokeReap, End
  <2>2. worker' \in WorkerStates /\ worker'.pc = "exited"
    BY <1>0, <2>1, WorkerOut DEF Kill, Exited, ClientTypes
  <2>3. ReapInv'
    BY <1>0, <2>1, <2>2 DEF ReapInv, ChildrenReaped, Exited
  <2>4. ClientTypes'
    BY <1>0, <2>1, <2>2 DEF ClientTypes, TotalRuns
  <2>5. SavedBefore(TotalRuns + 1)
    BY <1>0, <2>1 DEF SmokeInv
  <2>6. SavedBefore(TotalRuns + 1)'
    BY <2>1, <2>5 DEF SavedBefore, TotalRuns, IsWarmup
  <2>7. SmokeInv' /\ MossInv'
    BY <1>0, <2>1, <2>6 DEF SmokeInv, MossInv
  <2> QED BY <2>3, <2>4, <2>7 DEF ClientInv
<1> QED BY <1>1, <1>2, <1>3, <1>4, <1>5, <1>6 DEF Smoke

-----------------------------------------------------------------------------
(* v080_pipeline_driver.py                                                  *)
LEMMA MossKeeps == ClientInv /\ Moss => ClientInv'
<1> SUFFICES ASSUME ClientInv, Moss PROVE ClientInv'
  OBVIOUS
<1>0. /\ ReapInv /\ ClientTypes /\ MossInv /\ prog = "moss"
      /\ run = 1 /\ 1 \in Requests
  BY RequestNumbers
     DEF ClientInv, Moss, StartTegra, RunAsr, RunLlm, MossSpawn, MossReady, MossSend, MossRead,
         MossClose, MossReap, MossStop
<1>1. CASE StartTegra \/ RunAsr \/ RunLlm
  <2>1. /\ prog' = prog /\ exit' = exit /\ pc \in {"sampler", "asr", "llm"}
        /\ pc' \in {"asr", "llm", "spawn"} /\ sampler' \in BOOLEAN
        /\ UNCHANGED <<run, pcm, answered, saved, worker, sent, stdin, stdout>>
    BY <1>0, <1>1 DEF ReapInv, StartTegra, RunAsr, RunLlm, GoOn, Keep, KeepChild, pipes
  <2>2. ReapInv'
    BY <1>0, <2>1 DEF ReapInv, ChildrenReaped
  <2>3. ClientTypes'
    BY <1>0, <2>1 DEF ClientTypes, TotalRuns
  <2>4. SmokeInv' /\ MossInv'
    BY <1>0, <2>1 DEF SmokeInv, MossInv, ReapInv
  <2> QED BY <2>2, <2>3, <2>4 DEF ClientInv
<1>2. CASE MossSpawn
  <2>1. /\ prog' = prog /\ exit' = exit /\ pc = "spawn" /\ pc' = "ready" /\ Popen
        /\ UNCHANGED <<run, pcm, answered, saved, sampler>>
    BY <1>2 DEF MossSpawn, GoOn, Keep
  <2>2. stdin = << >> /\ stdout = << >>
    BY <1>0, <2>1 DEF MossInv
  <2>3. /\ StartUp' /\ worker' \in WorkerStates /\ sent' = sent
        /\ stdin' = stdin /\ stdout' = stdout
    BY <1>0, <2>1, <2>2, SpawnedStartsUp
  <2>4. ReapInv'
    BY <1>0, <2>1 DEF ReapInv, ChildrenReaped
  <2>5. ClientTypes'
    BY <1>0, <2>1, <2>3 DEF ClientTypes, TotalRuns
  <2>6. SmokeInv' /\ MossInv'
    BY <1>0, <2>1, <2>3 DEF SmokeInv, MossInv, ReapInv
  <2> QED BY <2>4, <2>5, <2>6 DEF ClientInv
<1>3. CASE MossReady
  <2>1. /\ prog' = prog /\ exit' = exit /\ pc = "ready"
        /\ UNCHANGED <<run, pcm, answered, saved, sampler>>
    BY <1>3 DEF MossReady, AwaitReady, GoOn, Keep
  <2>2. StartUp /\ exit = "none"
    BY <1>0, <2>1 DEF MossInv, ReapInv
  <2>3. /\ UNCHANGED <<worker, stdin, sent>> /\ stdout' \in Seq(Lines)
        /\ \/ pc' = "ready" /\ StartUp'
           \/ pc' = "send" /\ Silent'
    <3>1. CASE HasLine("noise") /\ Readline /\ GoOn("ready")
      BY <1>0, <2>2, <3>1, NoiseSkipped DEF HasLine, GoOn
    <3>2. CASE HasLine("ready") /\ Readline /\ GoOn("send")
      BY <1>0, <2>2, <3>2, ReadyIsLast DEF GoOn
    <3>3. CASE Eof /\ GoOn("send") /\ KeepChild
      BY <1>0, <2>2, <3>3 DEF Eof, Exited, GoOn, KeepChild, pipes, Silent, StartUp, ClientTypes
    <3> QED BY <1>3, <3>1, <3>2, <3>3 DEF MossReady, AwaitReady
  <2>4. ReapInv'
    BY <1>0, <2>1, <2>2, <2>3 DEF ReapInv, ChildrenReaped
  <2>5. ClientTypes'
    BY <1>0, <2>1, <2>3 DEF ClientTypes, TotalRuns
  <2>6. SmokeInv' /\ MossInv'
    BY <1>0, <2>1, <2>2, <2>3 DEF SmokeInv, MossInv
  <2> QED BY <2>4, <2>5, <2>6 DEF ClientInv
<1>4. CASE MossSend
  <2>1. CASE Raise
    BY <2>1, RaiseKeeps
  <2>2. CASE ~Raise
    <3>1. /\ prog' = prog /\ exit' = exit /\ pc = "send" /\ pc' = "read" /\ Write
          /\ UNCHANGED <<run, pcm, answered, saved, sampler>>
      BY <1>4, <2>2 DEF MossSend, SendOne, GoOn, Keep
    <3>2. Silent /\ pcm = << >> /\ sent[1] = << >> /\ exit = "none"
      BY <1>0, <3>1 DEF MossInv, ReapInv
    <3>3. Flow' /\ stdin' \in Seq(Requests) /\ UNCHANGED <<worker, stdout, sent>>
      BY <1>0, <3>1, <3>2, SentFlows
    <3>4. ReapInv'
      BY <1>0, <3>1 DEF ReapInv, ChildrenReaped
    <3>5. ClientTypes'
      BY <1>0, <3>1, <3>3 DEF ClientTypes, TotalRuns
    <3>6. SmokeInv' /\ MossInv'
      BY <1>0, <3>1, <3>2, <3>3 DEF SmokeInv, MossInv
    <3> QED BY <3>4, <3>5, <3>6 DEF ClientInv
  <2> QED BY <2>1, <2>2
<1>5. CASE MossRead
  <2>1. /\ prog' = prog /\ exit' = exit /\ pc = "read"
        /\ UNCHANGED <<run, saved, sampler>>
    BY <1>5 DEF MossRead, GoOn
  <2>2. Flow /\ exit = "none" /\ ~answered
    BY <1>0, <2>1 DEF MossInv, ReapInv
  <2>3. /\ UNCHANGED <<worker, stdin, sent>> /\ stdout' \in Seq(Lines)
        /\ pcm' \in Seq(Chunks) /\ answered' \in BOOLEAN
        /\ \/ pc' = "read" /\ Flow' /\ ~answered'
           \/ pc' = "close" /\ (answered' => Silent' /\ pcm' = sent[1])
    <3>1. CASE /\ HasLine("chunk") /\ pcm' = Append(pcm, Head(stdout).data)
               /\ Readline /\ GoOn("read") /\ UNCHANGED answered
      <4>1. /\ Flow' /\ pcm' \in Seq(Chunks) /\ stdout' \in Seq(Lines)
            /\ UNCHANGED <<worker, stdin, sent>>
        BY <1>0, <2>1, <2>2, <3>1, ChunkFlows
      <4> QED BY <1>0, <2>2, <3>1, <4>1 DEF GoOn, ClientTypes
    <3>2. CASE HasLine("done") /\ Readline /\ GoOn("close") /\ answered' = TRUE /\ UNCHANGED pcm
      <4>1. /\ Silent' /\ pcm = sent[run] /\ stdout' \in Seq(Lines)
            /\ UNCHANGED <<worker, stdin, sent>>
        BY <1>0, <2>2, <3>2, DoneIsWhole
      <4> QED BY <1>0, <3>2, <4>1 DEF GoOn, ClientTypes
    <3>3. CASE HasLine("error") /\ Readline /\ GoOn("close") /\ UNCHANGED <<pcm, answered>>
      <4>1. stdout' \in Seq(Lines)
        BY <1>0, <3>3, LineTaken DEF HasLine, Readline, ClientTypes
      <4> QED BY <1>0, <2>2, <3>3, <4>1 DEF GoOn, Readline, ClientTypes
    <3>4. CASE Eof /\ GoOn("close") /\ KeepChild /\ UNCHANGED <<pcm, answered>>
      BY <1>0, <2>2, <3>4 DEF GoOn, KeepChild, pipes, ClientTypes
    <3> QED BY <1>5, <3>1, <3>2, <3>3, <3>4 DEF MossRead
  <2>4. ReapInv'
    BY <1>0, <2>1, <2>2, <2>3 DEF ReapInv, ChildrenReaped
  <2>5. ClientTypes'
    BY <1>0, <2>1, <2>3 DEF ClientTypes, TotalRuns
  <2>6. SmokeInv' /\ MossInv'
    BY <1>0, <2>1, <2>2, <2>3 DEF SmokeInv, MossInv
  <2> QED BY <2>4, <2>5, <2>6 DEF ClientInv
<1>6. CASE MossClose
  <2>1. /\ prog' = prog /\ exit' = exit /\ pc = "close" /\ pc' = "reap"
        /\ UNCHANGED <<run, pcm, answered, saved, sampler, worker, sent, stdin, stdout>>
    BY <1>6 DEF MossClose, CloseStdin, GoOn, Keep
  <2>2. ReapInv'
    BY <1>0, <2>1 DEF ReapInv, ChildrenReaped
  <2>3. ClientTypes'
    BY <1>0, <2>1 DEF ClientTypes, TotalRuns
  <2>4. answered' => Silent' /\ pcm' = sent'[1]
    BY <1>0, <2>1 DEF MossInv, Silent
  <2>5. SmokeInv' /\ MossInv'
    BY <1>0, <2>1, <2>4 DEF SmokeInv, MossInv, ReapInv
  <2> QED BY <2>2, <2>3, <2>5 DEF ClientInv
<1>7. CASE MossReap
  <2>1. /\ prog' = prog /\ exit' = exit /\ pc = "reap" /\ pc' = "stop" /\ WaitOrKill
        /\ saved' = [saved EXCEPT ![run] = pcm]
        /\ UNCHANGED <<run, pcm, answered, sampler, sent, stdin, stdout>>
    BY <1>7 DEF MossReap, GoOn, pipes
  <2>2. worker' \in WorkerStates /\ worker'.pc = "exited"
    BY <1>0, <2>1, WorkerOut DEF WaitOrKill, Kill, Exited, ClientTypes
  <2>3. saved' \in [Requests -> Seq(Chunks)] /\ saved'[1] = pcm
    BY <1>0, <2>1 DEF ClientTypes
  <2>4. answered => saved'[1] = sent[1]
    BY <1>0, <2>1, <2>3 DEF MossInv
  <2>5. ReapInv'
    BY <1>0, <2>1, <2>2 DEF ReapInv, ChildrenReaped, Exited
  <2>6. ClientTypes'
    BY <1>0, <2>1, <2>2, <2>3 DEF ClientTypes, TotalRuns
  <2>7. SmokeInv' /\ MossInv'
    BY <1>0, <2>1, <2>4 DEF SmokeInv, MossInv, ReapInv
  <2> QED BY <2>5, <2>6, <2>7 DEF ClientInv
<1>8. CASE MossStop
  <2>1. /\ prog' = prog /\ exit' = "ok" /\ pc = "stop" /\ pc' = "ended" /\ sampler' = FALSE
        /\ UNCHANGED <<run, pcm, answered, saved, worker, sent, stdin, stdout>>
    BY <1>8 DEF MossStop, StopTegra, End
  <2>2. ReapInv'
    BY <1>0, <2>1 DEF ReapInv, ChildrenReaped, Exited
  <2>3. ClientTypes'
    BY <1>0, <2>1 DEF ClientTypes, TotalRuns
  <2>4. SmokeInv' /\ MossInv'
    BY <1>0, <2>1 DEF SmokeInv, MossInv
  <2> QED BY <2>2, <2>3, <2>4 DEF ClientInv
<1> QED BY <1>1, <1>2, <1>3, <1>4, <1>5, <1>6, <1>7, <1>8 DEF Moss

-----------------------------------------------------------------------------
(* The two programs that publish no audio: their children and the types.    *)

(* What is left to show for a step of the other two programs. *)
OtherKeeps ==
  /\ prog \in {"cores", "quality"} /\ prog' = prog
  /\ UNCHANGED <<run, saved, sent>> /\ pcm' = pcm /\ answered' \in BOOLEAN
  /\ worker' \in WorkerStates /\ stdin' \in Seq(Requests) /\ stdout' \in Seq(Lines)

(* Typed steps of the two programs keep the invariant if their children are  *)
(* looked after.                                                             *)
LEMMA OtherStep == ClientInv /\ OtherKeeps /\ ReapInv' => ClientInv'
<1> SUFFICES ASSUME ClientInv, OtherKeeps, ReapInv' PROVE ClientInv'
  OBVIOUS
<1>1. ClientTypes'
  BY DEF ClientInv, OtherKeeps, ClientTypes, TotalRuns
<1>2. SmokeInv' /\ MossInv'
  BY DEF OtherKeeps, SmokeInv, MossInv
<1> QED BY <1>1, <1>2 DEF ClientInv

(* What a read, a write and a start do to the types. *)
LEMMA ChildTypes ==
  ASSUME ClientTypes
  PROVE  /\ Readline /\ stdout # << >> =>
              /\ worker' \in WorkerStates /\ stdin' \in Seq(Requests) /\ stdout' \in Seq(Lines)
              /\ sent' = sent
         /\ Write =>
              /\ worker' \in WorkerStates /\ stdin' \in Seq(Requests) /\ stdout' \in Seq(Lines)
              /\ sent' = sent
         /\ Popen =>
              /\ worker' \in WorkerStates /\ stdin' \in Seq(Requests) /\ stdout' \in Seq(Lines)
              /\ sent' = sent
         /\ KeepChild =>
              /\ worker' \in WorkerStates /\ stdin' \in Seq(Requests) /\ stdout' \in Seq(Lines)
              /\ sent' = sent
<1>1. worker \in WorkerStates /\ stdin \in Seq(Requests) /\ stdout \in Seq(Lines) /\ run \in Requests
  BY RequestNumbers DEF ClientTypes
<1>2. Readline /\ stdout # << >> => stdout' \in Seq(Lines)
  BY <1>1, LineTaken DEF Readline
<1>3. Write => stdin' \in Seq(Requests)
  BY <1>1 DEF Write
<1>4. Popen => worker' \in WorkerStates
  BY <1>1, WorkerAt DEF Popen, PCs
<1> QED BY <1>1, <1>2, <1>3, <1>4 DEF Readline, Write, Popen, KeepChild, pipes

(* v080_coresidency.py *)
LEMMA CoresKeeps == ClientInv /\ Cores => ClientInv'
<1> SUFFICES ASSUME ClientInv, Cores PROVE ClientInv'
  OBVIOUS
<1>0. /\ ReapInv /\ ClientTypes /\ prog = "cores" /\ answered \in BOOLEAN
  BY DEF ClientInv, ClientTypes, Cores, CoresStart, CoresSpawn, CoresReady, CoresSend, CoresRead,
         CoresAsr, CoresClose, CoresReap, CoresStop
<1>1. worker \in WorkerStates /\ stdin \in Seq(Requests) /\ stdout \in Seq(Lines)
  BY <1>0 DEF ClientTypes
<1>2. CASE CoresStart \/ CoresSpawn \/ CoresReady \/ CoresRead \/ CoresAsr
  <2>1. /\ prog' = prog /\ exit' = exit /\ pc \in {"sampler", "spawn", "ready", "read", "asr"}
        /\ pc' \in {"spawn", "ready", "send", "read", "asr", "close"}
        /\ sampler' \in BOOLEAN /\ answered' \in BOOLEAN
        /\ UNCHANGED <<run, pcm, saved>>
        /\ (Readline /\ stdout # << >>) \/ Popen \/ KeepChild
    BY <1>0, <1>2 DEF ReapInv, CoresStart, CoresSpawn, CoresReady, CoresRead, CoresAsr, AwaitReady, GoOn, Keep,
                HasLine
  <2>2. OtherKeeps
    BY <1>0, <2>1, ChildTypes DEF OtherKeeps
  <2>3. ReapInv'
    BY <1>0, <2>1 DEF ReapInv, ChildrenReaped
  <2> QED BY <2>2, <2>3, OtherStep
<1>3. CASE CoresSend
  <2>1. CASE Raise
    BY <2>1, RaiseKeeps
  <2>2. CASE ~Raise
    <3>1. /\ prog' = prog /\ exit' = exit /\ pc = "send" /\ pc' = "read" /\ Write
          /\ UNCHANGED <<run, pcm, answered, saved, sampler>>
      BY <1>3, <2>2 DEF CoresSend, SendOne, GoOn, Keep
    <3>2. OtherKeeps
      BY <1>0, <3>1, ChildTypes DEF OtherKeeps
    <3>3. ReapInv'
      BY <1>0, <3>1 DEF ReapInv, ChildrenReaped
    <3> QED BY <3>2, <3>3, OtherStep
  <2> QED BY <2>1, <2>2
<1>4. CASE CoresClose
  <2>1. /\ prog' = prog /\ exit' = exit /\ pc = "close" /\ pc' = "reap"
        /\ UNCHANGED <<run, pcm, answered, saved, sampler, worker, sent, stdin, stdout>>
    BY <1>4 DEF CoresClose, CloseStdin, GoOn, Keep
  <2>2. OtherKeeps
    BY <1>0, <1>1, <2>1 DEF OtherKeeps
  <2>3. ReapInv'
    BY <1>0, <2>1 DEF ReapInv, ChildrenReaped
  <2> QED BY <2>2, <2>3, OtherStep
<1>5. CASE CoresReap
  <2>1. /\ prog' = prog /\ exit' = exit /\ pc = "reap" /\ pc' = "stop" /\ WaitOrKill
        /\ UNCHANGED <<run, pcm, answered, saved, sampler, sent, stdin, stdout>>
    BY <1>5 DEF CoresReap, GoOn, Keep, pipes
  <2>2. worker' \in WorkerStates /\ worker'.pc = "exited"
    BY <1>1, <2>1, WorkerOut DEF WaitOrKill, Kill, Exited
  <2>3. OtherKeeps
    BY <1>0, <1>1, <2>1, <2>2 DEF OtherKeeps
  <2>4. ReapInv'
    BY <1>0, <2>1, <2>2 DEF ReapInv, ChildrenReaped, Exited
  <2> QED BY <2>3, <2>4, OtherStep
<1>6. CASE CoresStop
  <2>1. /\ prog' = prog /\ exit' = "ok" /\ pc = "stop" /\ pc' = "ended" /\ sampler' = FALSE
        /\ UNCHANGED <<run, pcm, answered, saved, worker, sent, stdin, stdout>>
    BY <1>6 DEF CoresStop, StopTegra, End
  <2>2. OtherKeeps
    BY <1>0, <1>1, <2>1 DEF OtherKeeps
  <2>3. ReapInv'
    BY <1>0, <2>1 DEF ReapInv, ChildrenReaped, Exited
  <2> QED BY <2>2, <2>3, OtherStep
<1> QED BY <1>2, <1>3, <1>4, <1>5, <1>6 DEF Cores

(* validate_qwen3_tts_quality_gate.py *)
LEMMA QualityKeeps == ClientInv /\ Quality => ClientInv'
<1> SUFFICES ASSUME ClientInv, Quality PROVE ClientInv'
  OBVIOUS
<1>0. /\ ReapInv /\ ClientTypes /\ prog = "quality" /\ answered \in BOOLEAN
      /\ ~sampler
  BY DEF ClientInv, ReapInv, ClientTypes, Quality, QualitySpawn, QualityReady, QualitySend,
         QualityRead, QualityReap
<1>1. worker \in WorkerStates /\ stdin \in Seq(Requests) /\ stdout \in Seq(Lines)
  BY <1>0 DEF ClientTypes
<1>2. CASE Raise
  BY <1>2, RaiseKeeps
<1>3. CASE (QualitySpawn \/ QualityReady \/ QualitySend) /\ ~Raise
  <2>1. /\ prog' = prog /\ exit' = exit /\ pc \in {"spawn", "ready", "send"}
        /\ pc' \in {"ready", "send", "read"}
        /\ UNCHANGED <<run, pcm, answered, saved, sampler>>
        /\ Popen \/ (Readline /\ stdout # << >>) \/ Write
    BY <1>3 DEF QualitySpawn, QualityReady, QualitySend, GoOn, HasLine
  <2>2. OtherKeeps
    BY <1>0, <2>1, ChildTypes DEF OtherKeeps
  <2>3. ReapInv'
    BY <1>0, <2>1 DEF ReapInv, ChildrenReaped
  <2> QED BY <2>2, <2>3, OtherStep
<1>4. CASE QualityRead
  <2>1. /\ prog' = prog /\ exit' = exit /\ pc = "read" /\ pc' = "reap"
        /\ UNCHANGED <<run, pcm, saved, sampler, worker, stdin, sent>>
    BY <1>4 DEF QualityRead, GoOn
  <2>2. answered' \in BOOLEAN /\ stdout' \in Seq(Lines)
    <3>1. CASE stdout # << >> /\ answered' = HasLine("done") /\ TakeLine
      BY <1>1, <3>1, LineTaken DEF HasLine
    <3>2. CASE Eof /\ UNCHANGED <<answered, stdout>>
      BY <1>0, <1>1, <3>2
    <3> QED BY <1>4, <3>1, <3>2 DEF QualityRead
  <2>3. OtherKeeps
    BY <1>0, <1>1, <2>1, <2>2 DEF OtherKeeps
  <2>4. ReapInv'
    BY <1>0, <2>1 DEF ReapInv, ChildrenReaped
  <2> QED BY <2>3, <2>4, OtherStep
<1>5. CASE QualityReap
  <2>1. /\ prog' = prog /\ exit' \in {"ok", "raised"} /\ pc' = "ended"
        /\ IF Exited THEN worker' = worker ELSE Kill
        /\ UNCHANGED <<run, pcm, answered, saved, sampler, sent, stdin, stdout>>
    BY <1>5 DEF QualityReap, End
  <2>2. worker' \in WorkerStates /\ worker'.pc = "exited"
    BY <1>1, <2>1, WorkerOut DEF Kill, Exited
  <2>3. OtherKeeps
    BY <1>0, <1>1, <2>1, <2>2 DEF OtherKeeps
  <2>4. ReapInv'
    BY <1>0, <2>1, <2>2 DEF ReapInv, ChildrenReaped, Exited
  <2> QED BY <2>3, <2>4, OtherStep
<1> QED BY <1>2, <1>3, <1>4, <1>5 DEF Quality

-----------------------------------------------------------------------------
(* Nothing is running, sent or saved at first. *)
LEMMA ClientsStart == ClientsInit => ClientInv
<1> SUFFICES ASSUME ClientsInit PROVE ClientInv
  OBVIOUS
<1> USE DEF ClientsInit
<1>1. prog \in {"smoke", "moss", "cores", "quality"} /\ Repeat \in Nat /\ Warmups \in Nat
  BY ClientsAssumption
<1>2. 1 \in 1 .. TotalRuns /\ 1 \in Requests /\ Requests \subseteq Nat
  BY <1>1 DEF TotalRuns, Requests
<1>3. /\ worker \in WorkerStates /\ worker.pc = "none"
      /\ \A r \in Requests : sent[r] = << >> /\ saved[r] = << >>
  BY <1>2 DEF WorkerStates
<1>4. ClientTypes
  <2>1. /\ pcm \in Seq(Chunks) /\ stdin \in Seq(Requests) /\ stdout \in Seq(Lines)
        /\ saved \in [Requests -> Seq(Chunks)] /\ sent \in [Requests -> Seq(Chunks)]
    OBVIOUS
  <2> QED BY <1>1, <1>2, <1>3, <2>1 DEF ClientTypes
<1>5. ReapInv
  BY <1>1 DEF ReapInv, ChildrenReaped
<1>6. SmokeInv
  BY <1>2, <1>3 DEF SmokeInv, SavedBefore, UnsentFrom
<1>7. MossInv
  BY <1>2, <1>3 DEF MossInv
<1> QED BY <1>4, <1>5, <1>6, <1>7 DEF ClientInv

(* The invariant of the scripts, their workers and the pipes between them. *)
THEOREM ClientsInvariant == ClientsSpec => []ClientInv
<1>1. ClientInv /\ [ClientsNext]_clientsVars => ClientInv'
  <2> SUFFICES ASSUME ClientInv, [ClientsNext]_clientsVars PROVE ClientInv'
    OBVIOUS
  <2>1. CASE UNCHANGED clientsVars \/ Terminated \/ DrainStderr
    <3>1. UNCHANGED <<client, worker, stdin, stdout, sent>>
      BY <2>1 DEF clientsVars, Terminated, DrainStderr, pipes
    <3> QED BY <3>1, FrameKeeps
  <2>2. CASE WorkerProgress \/ WorkerFault
    <3>1. ClientTypes
      BY DEF ClientInv
    <3> QED BY <2>2, <3>1, WorkerStep, WaitKeeps
  <2> QED BY <2>1, <2>2, SmokeKeeps, MossKeeps, CoresKeeps, QualityKeeps DEF ClientsNext
<1> QED BY <1>1, ClientsStart, PTL DEF ClientsSpec

(* Published audio is what the worker produced for the request, whole and in *)
(* order, for any number of warm-ups, runs and chunks: the smoke script's    *)
(* pcm_parts, and the pipeline driver's WAV once it has seen done.           *)
THEOREM AudioStaysWhole == ClientsSpec => []AudioIsWhole
<1>1. ClientInv => AudioIsWhole
  <2> SUFFICES ASSUME ClientInv, exit = "ok", prog = "smoke" \/ (prog = "moss" /\ answered),
                      NEW r \in 1 .. TotalRuns, ~IsWarmup(r)
               PROVE  saved[r] = sent[r]
    BY DEF AudioIsWhole
  <2>1. /\ r \in Requests /\ TotalRuns \in Nat /\ r < TotalRuns + 1
        /\ prog # "smoke" => r = 1
    BY RequestNumbers DEF ClientInv
  <2>2. CASE prog = "smoke"
    BY <2>1, <2>2 DEF ClientInv, SmokeInv, SavedBefore
  <2>3. CASE prog = "moss" /\ answered
    BY <2>1, <2>3 DEF ClientInv, MossInv
  <2> QED BY <2>2, <2>3
<1> QED BY <1>1, ClientsInvariant, PTL

(* A script that returns normally has waited for or killed its worker, and   *)
(* stopped the sampler, for each of the four scripts.                        *)
THEOREM NoChildLeftBehind == ClientsSpec => []ChildrenReaped
<1>1. ClientInv => ChildrenReaped
  BY DEF ClientInv, ReapInv
<1> QED BY <1>1, ClientsInvariant, PTL
=============================================================================
