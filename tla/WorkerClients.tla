--------------------------- MODULE WorkerClients ---------------------------
(***************************************************************************)
(* The scripts that drive a native worker as a child process over its       *)
(* stdin, stdout and stderr:                                                *)
(*   "smoke"   models/qwen3/run_qwen3_tts_worker_smoke.py                   *)
(*   "moss"    bench/v080_pipeline_driver.py (ASR, LLM, then MOSS TTS)      *)
(*   "cores"   bench/v080_coresidency.py                                    *)
(*   "quality" scripts/validate_qwen3_tts_quality_gate.py                   *)
(*                                                                          *)
(* The worker and the kernel's pipes are external: a pipe holds a bounded   *)
(* number of lines and a writer to a full one blocks.  A stdout line is the *)
(* event it carries; audio is the sequence of chunks <<request, index>>.    *)
(***************************************************************************)
EXTENDS Integers, Sequences

CONSTANTS
  Programs,   \* the scripts a run starts from
  Warmups,    \* --warmup-runs of the smoke script
  Repeat,     \* --repeat of the smoke script
  MaxChunks,  \* bound: chunks of one request
  OutCap,     \* lines the stdout pipe holds
  ErrCap,     \* lines the stderr pipe holds
  MaxLogs,    \* bound: stderr lines a worker writes
  Faults      \* what may go wrong: "crash", "error", "noise"

ASSUME ClientsAssumption ==
  /\ Programs \subseteq {"smoke", "moss", "cores", "quality"}
  /\ {Warmups, Repeat, MaxChunks, MaxLogs} \subseteq Nat
  /\ {OutCap, ErrCap} \subseteq Nat \ {0}
  /\ Faults \subseteq {"crash", "error", "noise"}

VARIABLES
  prog,     \* the script
  pc,       \* where it is
  exit,     \* how it ended: "none", "ok", "raised"
  run,      \* the request it is on, 1..TotalRuns
  pcm,      \* pcm_parts / pcm: the chunks it has collected
  answered, \* it has read the terminal event of the request
  saved,    \* request -> the audio written out for it
  sampler,  \* the tegrastats child is running
  worker,   \* the worker: pc, request, chunks left, log lines, blocked in a log
  term,     \* SIGTERM is pending
  stdin, stdout, stderr, \* the pipes
  inOpen,   \* the script's end of stdin is open
  rdOpen,   \* the script's ends of stdout and stderr are open
  sent      \* request -> the chunks the worker has produced for it

client == <<prog, pc, exit, run, pcm, answered, saved, sampler>>
pipes  == <<stdin, stdout, stderr, inOpen, rdOpen>>
clientsVars == <<client, worker, term, pipes, sent>>

\* total_runs = max(1, repeat + warmup_runs); the other scripts send one request
TotalRuns == IF prog = "smoke" /\ Repeat + Warmups > 1 THEN Repeat + Warmups ELSE 1
IsWarmup(r) == prog = "smoke" /\ r <= Warmups

\* run_moss and the co-residency probe send the worker's stderr to a file
StderrIsPipe == prog \in {"smoke", "quality"}

Requests == 1 .. (IF Repeat + Warmups > 1 THEN Repeat + Warmups ELSE 1)
Exited == worker.pc = "exited"
Eof == stdout = <<>> /\ Exited           \* readline returns ""
HasLine(e) == stdout # <<>> /\ Head(stdout).event = e
TakeLine == stdout' = Tail(stdout)

ClientsInit ==
  /\ prog \in Programs
  /\ pc = (IF prog \in {"moss", "cores"} THEN "sampler" ELSE "spawn")
  /\ exit = "none" /\ run = 1 /\ pcm = <<>> /\ answered = FALSE
  /\ saved = [r \in Requests |-> <<>>]
  /\ sampler = FALSE
  /\ worker = [pc |-> "none", req |-> 1, left |-> 0, logs |-> 0, log |-> FALSE]
  /\ term = FALSE
  /\ stdin = <<>> /\ stdout = <<>> /\ stderr = 0
  /\ inOpen = FALSE /\ rdOpen = FALSE
  /\ sent = [r \in Requests |-> <<>>]

-----------------------------------------------------------------------------
(* The worker, as the scripts use it (external).                            *)

ready == [event |-> "ready"]

\* A line goes to stdout when the pipe has room for it.
Say(line) == Len(stdout) < OutCap /\ rdOpen /\ stdout' = Append(stdout, line)

Quiet == ~worker.log /\ UNCHANGED <<client, term, stderr, inOpen, rdOpen>>

WorkerLoad ==
  /\ Quiet /\ worker.pc = "loading"
  /\ Say(ready)
  /\ worker' = [worker EXCEPT !.pc = "idle"]
  /\ UNCHANGED <<stdin, sent>>

WorkerTake ==
  /\ Quiet /\ worker.pc = "idle" /\ stdin # <<>>
  /\ stdin' = Tail(stdin)
  /\ \E n \in 0..(IF prog = "quality" THEN 0 ELSE MaxChunks) :
       worker' = [worker EXCEPT !.pc = "serving", !.req = Head(stdin), !.left = n]
  /\ UNCHANGED <<stdout, sent>>

WorkerChunk ==
  /\ Quiet /\ worker.pc = "serving" /\ worker.left > 0
  /\ LET r == worker.req
         c == <<r, Len(sent[r]) + 1>>
     IN  Say([event |-> "chunk", data |-> c]) /\ sent' = [sent EXCEPT ![r] = Append(@, c)]
  /\ worker' = [worker EXCEPT !.left = @ - 1]
  /\ UNCHANGED stdin

WorkerDone ==
  /\ Quiet /\ worker.pc = "serving" /\ worker.left = 0
  /\ Say([event |-> "done"])
  /\ worker' = [worker EXCEPT !.pc = "idle"]
  /\ UNCHANGED <<stdin, sent>>

\* End of stdin, a pending SIGTERM, or a write to a pipe nobody reads.
WorkerExit ==
  /\ \/ ~worker.log /\ worker.pc = "idle" /\ stdin = <<>> /\ ~inOpen
     \/ worker.pc \in {"loading", "idle", "serving"} /\ term
     \/ worker.pc \in {"loading", "serving"} /\ ~rdOpen
  /\ worker' = [worker EXCEPT !.pc = "exited", !.log = FALSE]
  /\ UNCHANGED <<client, term, pipes, sent>>

\* A log line is a write like any other: with the pipe full it does not return.
WorkerBeginLog ==
  /\ worker.pc \in {"loading", "serving"} /\ ~worker.log /\ worker.logs < MaxLogs
  /\ worker' = [worker EXCEPT !.log = TRUE, !.logs = @ + 1]
  /\ UNCHANGED <<client, term, pipes, sent>>

WorkerEndLog ==
  /\ worker.log /\ ~Exited
  /\ ~StderrIsPipe \/ stderr < ErrCap
  /\ stderr' = IF StderrIsPipe THEN stderr + 1 ELSE stderr
  /\ worker' = [worker EXCEPT !.log = FALSE]
  /\ UNCHANGED <<client, term, stdin, stdout, inOpen, rdOpen, sent>>

WorkerCrash ==
  /\ "crash" \in Faults /\ worker.pc \in {"loading", "idle", "serving"}
  /\ worker' = [worker EXCEPT !.pc = "exited", !.log = FALSE]
  /\ UNCHANGED <<client, term, pipes, sent>>

WorkerError ==
  /\ "error" \in Faults /\ Quiet /\ worker.pc = "serving"
  /\ Say([event |-> "error"])
  /\ worker' = [worker EXCEPT !.pc = "idle", !.left = 0]
  /\ UNCHANGED <<stdin, sent>>

\* A stdout line that is not JSON: a library printed to stdout.
WorkerNoise ==
  /\ "noise" \in Faults /\ Quiet /\ worker.pc = "loading" /\ stdout = <<>>
  /\ Say([event |-> "noise"])
  /\ UNCHANGED <<worker, stdin, sent>>

WorkerProgress ==
  WorkerLoad \/ WorkerTake \/ WorkerChunk \/ WorkerDone \/ WorkerExit \/ WorkerEndLog
WorkerFault == WorkerBeginLog \/ WorkerCrash \/ WorkerError \/ WorkerNoise

-----------------------------------------------------------------------------
(* What the scripts do with a child process.                                *)

GoOn(l) == pc' = l /\ UNCHANGED <<prog, exit>>

\* The script returns or an exception leaves main: the interpreter's exit
\* closes its ends of the pipes.
End(how) ==
  /\ pc' = "ended" /\ exit' = how /\ inOpen' = FALSE /\ rdOpen' = FALSE
  /\ UNCHANGED prog

\* Mutant: the failed script keeps the pipes of its worker open.
RaiseHolding == /\ pc' = "ended" /\ exit' = "raised" /\ UNCHANGED <<prog, inOpen, rdOpen>>
                /\ UNCHANGED <<run, pcm, answered, saved, sampler, worker, term, sent, stdin, stdout, stderr>>

\* an exception no handler of the script catches
Raise == /\ End("raised")
         /\ UNCHANGED <<run, pcm, answered, saved, sampler, worker, term, sent, stdin, stdout, stderr>>

\* subprocess.Popen
Popen ==
  /\ worker' = [worker EXCEPT !.pc = "loading"]
  /\ inOpen' = TRUE /\ rdOpen' = TRUE
  /\ UNCHANGED <<stdin, stdout, stderr, term, sent>>

\* proc.stdin.write + flush; a dead worker is a broken pipe
Write == /\ ~Exited /\ stdin' = Append(stdin, run)
         /\ UNCHANGED <<worker, term, stdout, stderr, inOpen, rdOpen, sent>>

\* one line read, and nothing else of the child touched
Readline == /\ TakeLine
            /\ UNCHANGED <<worker, term, stdin, stderr, inOpen, rdOpen, sent>>

Kill == worker' = [worker EXCEPT !.pc = "exited", !.log = FALSE]

-----------------------------------------------------------------------------
(* run_qwen3_tts_worker_smoke.py                                            *)

\* Mutant: no thread drains stderr.
DrainStderrNever == FALSE /\ UNCHANGED clientsVars

\* the drain thread: every stderr line is taken as it comes
DrainStderr ==
  /\ prog = "smoke" /\ rdOpen /\ stderr > 0
  /\ stderr' = stderr - 1
  /\ UNCHANGED <<client, worker, term, stdin, stdout, inOpen, rdOpen, sent>>

SmokeSpawn ==
  /\ prog = "smoke" /\ pc = "spawn"
  /\ Popen /\ GoOn("ready")
  /\ UNCHANGED <<run, pcm, answered, saved, sampler>>

SmokeReady ==
  /\ prog = "smoke" /\ pc = "ready"
  /\ \/ HasLine("ready") /\ Readline /\ GoOn("send")
        /\ UNCHANGED <<run, pcm, answered, saved, sampler>>
     \/ (HasLine("noise") \/ Eof) /\ Raise

\* Mutant: pcm_parts outlives the request it was made for.
SmokeSendKeepingPcm ==
  /\ prog = "smoke" /\ pc = "send"
  /\ \/ Write /\ GoOn("read") /\ answered' = FALSE
        /\ UNCHANGED <<run, pcm, saved, sampler>>
     \/ Exited /\ Raise

\* the request of this run, with its own chunk counter and pcm_parts
SmokeSend ==
  /\ prog = "smoke" /\ pc = "send"
  /\ \/ Write /\ GoOn("read") /\ pcm' = <<>> /\ answered' = FALSE
        /\ UNCHANGED <<run, saved, sampler>>
     \/ Exited /\ Raise

SmokeRead ==
  /\ prog = "smoke" /\ pc = "read"
  /\ \/ /\ HasLine("chunk") /\ pcm' = Append(pcm, Head(stdout).data)
        /\ Readline /\ GoOn("read")
        /\ UNCHANGED <<run, answered, saved, sampler>>
     \/ /\ HasLine("done") /\ answered' = TRUE
        /\ Readline /\ GoOn("save")
        /\ UNCHANGED <<run, pcm, saved, sampler>>
     \/ (HasLine("error") \/ HasLine("noise") \/ Eof) /\ Raise

\* outputs and summary of this run, then the next one; after the last, terminate
SmokeSave ==
  /\ prog = "smoke" /\ pc = "save"
  /\ saved' = IF IsWarmup(run) THEN saved ELSE [saved EXCEPT ![run] = pcm]
  /\ IF run < TotalRuns
     THEN run' = run + 1 /\ GoOn("send") /\ UNCHANGED term
     ELSE run' = run /\ GoOn("reap") /\ term' = TRUE
  /\ UNCHANGED <<pcm, answered, sampler, worker, pipes, sent>>

\* Mutant: the timeout of the wait is swallowed without a kill.
SmokeReapNoKill ==
  /\ prog = "smoke" /\ pc = "reap"
  /\ End("ok")
  /\ UNCHANGED <<run, pcm, answered, saved, sampler, worker, term, stdin, stdout, stderr, sent>>

\* proc.wait(timeout=5), kill when it runs out
SmokeReap ==
  /\ prog = "smoke" /\ pc = "reap"
  /\ IF Exited THEN UNCHANGED worker ELSE Kill
  /\ End("ok")
  /\ UNCHANGED <<run, pcm, answered, saved, sampler, term, stdin, stdout, stderr, sent>>

Smoke == SmokeSpawn \/ SmokeReady \/ SmokeSend \/ SmokeRead \/ SmokeSave \/ SmokeReap

-----------------------------------------------------------------------------
(* What the two MOSS drivers share.                                         *)

Keep == UNCHANGED <<run, pcm, answered, saved, sampler>>
KeepChild == UNCHANGED <<worker, term, pipes, sent>>

\* lines that are not JSON are skipped; end of file also ends the wait
AwaitReady ==
  /\ pc = "ready"
  /\ \/ HasLine("noise") /\ Readline /\ GoOn("ready")
     \/ HasLine("ready") /\ Readline /\ GoOn("send")
     \/ Eof /\ GoOn("send") /\ KeepChild
  /\ Keep

SendOne ==
  /\ pc = "send"
  /\ \/ Write /\ GoOn("read") /\ Keep
     \/ Exited /\ Raise

\* stdin.close()
CloseStdin(next) ==
  /\ pc = "close" /\ inOpen' = FALSE /\ GoOn(next) /\ Keep
  /\ UNCHANGED <<worker, term, stdin, stdout, stderr, rdOpen, sent>>

\* wait(timeout=10), kill when it runs out
WaitOrKill == IF Exited THEN UNCHANGED worker ELSE Kill

\* tegra.kill(), its log read back for the peak, the summary printed
StopTegra ==
  /\ pc = "stop" /\ sampler' = FALSE /\ End("ok")
  /\ UNCHANGED <<run, pcm, answered, saved, worker, term, stdin, stdout, stderr, sent>>

-----------------------------------------------------------------------------
(* v080_pipeline_driver.py                                                  *)

StartTegra ==
  /\ prog = "moss" /\ pc = "sampler"
  /\ sampler' = TRUE /\ GoOn("asr")
  /\ UNCHANGED <<run, pcm, answered, saved>> /\ KeepChild

\* run_asr: subprocess.run drains both pipes of its child and waits for it.  An
\* empty transcript is replaced by a fixed text, so a text is always handed on.
RunAsr == prog = "moss" /\ pc = "asr" /\ GoOn("llm") /\ Keep /\ KeepChild

\* run_llm when its engine is there, skipped otherwise; an unreadable output
\* gives way to the transcript.
RunLlm == prog = "moss" /\ pc = "llm" /\ GoOn("spawn") /\ Keep /\ KeepChild

MossSpawn == prog = "moss" /\ pc = "spawn" /\ Popen /\ GoOn("ready") /\ Keep
MossReady == prog = "moss" /\ AwaitReady
MossSend == prog = "moss" /\ SendOne

\* done, error and end of file all end the loop; only done carries ttfa_ms
MossRead ==
  /\ prog = "moss" /\ pc = "read"
  /\ \/ /\ HasLine("chunk") /\ pcm' = Append(pcm, Head(stdout).data)
        /\ Readline /\ GoOn("read") /\ UNCHANGED answered
     \/ HasLine("done") /\ Readline /\ GoOn("close") /\ answered' = TRUE /\ UNCHANGED pcm
     \/ HasLine("error") /\ Readline /\ GoOn("close") /\ UNCHANGED <<pcm, answered>>
     \/ Eof /\ GoOn("close") /\ KeepChild /\ UNCHANGED <<pcm, answered>>
  /\ UNCHANGED <<run, saved, sampler>>

MossClose == prog = "moss" /\ CloseStdin("reap")

\* the WAV is written from whatever has arrived
MossReap ==
  /\ prog = "moss" /\ pc = "reap"
  /\ WaitOrKill /\ saved' = [saved EXCEPT ![run] = pcm] /\ GoOn("stop")
  /\ UNCHANGED <<run, pcm, answered, sampler, term, pipes, sent>>

MossStop == prog = "moss" /\ StopTegra

Moss == \/ StartTegra \/ RunAsr \/ RunLlm \/ MossSpawn \/ MossReady \/ MossSend
        \/ MossRead \/ MossClose \/ MossReap \/ MossStop

-----------------------------------------------------------------------------
(* v080_coresidency.py                                                      *)

CoresStart ==
  /\ prog = "cores" /\ pc = "sampler"
  /\ sampler' = TRUE /\ GoOn("spawn")
  /\ UNCHANGED <<run, pcm, answered, saved>> /\ KeepChild

CoresSpawn == prog = "cores" /\ pc = "spawn" /\ Popen /\ GoOn("ready") /\ Keep
CoresReady == prog = "cores" /\ AwaitReady
CoresSend == prog = "cores" /\ SendOne

\* only done and end of file end the wait
CoresRead ==
  /\ prog = "cores" /\ pc = "read"
  /\ \/ (HasLine("chunk") \/ HasLine("error")) /\ Readline /\ GoOn("read") /\ UNCHANGED answered
     \/ HasLine("done") /\ Readline /\ GoOn("asr") /\ answered' = TRUE
     \/ Eof /\ GoOn("asr") /\ KeepChild /\ UNCHANGED answered
  /\ UNCHANGED <<run, pcm, saved, sampler>>

\* the ASR process runs to its end while the MOSS worker stays resident
CoresAsr == prog = "cores" /\ pc = "asr" /\ GoOn("close") /\ Keep /\ KeepChild

CoresClose == prog = "cores" /\ CloseStdin("reap")

CoresReap ==
  /\ prog = "cores" /\ pc = "reap"
  /\ WaitOrKill /\ GoOn("stop") /\ Keep
  /\ UNCHANGED <<term, pipes, sent>>

CoresStop == prog = "cores" /\ StopTegra

Cores == \/ CoresStart \/ CoresSpawn \/ CoresReady \/ CoresSend \/ CoresRead
         \/ CoresAsr \/ CoresClose \/ CoresReap \/ CoresStop

-----------------------------------------------------------------------------
(* validate_qwen3_tts_quality_gate.py: transcribe_with_worker               *)

QualitySpawn ==
  /\ prog = "quality" /\ pc = "spawn"
  /\ Popen /\ GoOn("ready")
  /\ UNCHANGED <<run, pcm, answered, saved, sampler>>

QualityReady ==
  /\ prog = "quality" /\ pc = "ready"
  /\ \/ HasLine("ready") /\ Readline /\ GoOn("send")
        /\ UNCHANGED <<run, pcm, answered, saved, sampler>>
     \/ (HasLine("noise") \/ Eof) /\ Raise

QualitySend ==
  /\ prog = "quality" /\ pc = "send"
  /\ \/ Write /\ GoOn("read") /\ UNCHANGED <<run, pcm, answered, saved, sampler>>
     \/ Exited /\ Raise

\* one line is the whole answer; the worker is terminated before it is looked at
QualityRead ==
  /\ prog = "quality" /\ pc = "read"
  /\ \/ stdout # <<>> /\ answered' = HasLine("done") /\ TakeLine
     \/ Eof /\ UNCHANGED <<answered, stdout>>
  /\ term' = TRUE /\ GoOn("reap")
  /\ UNCHANGED <<run, pcm, saved, sampler, worker, stdin, stderr, inOpen, rdOpen, sent>>

\* wait(timeout=5) or kill; then no line, or an answer that is not ok, raises
QualityReap ==
  /\ prog = "quality" /\ pc = "reap"
  /\ IF Exited THEN UNCHANGED worker ELSE Kill
  /\ End(IF answered THEN "ok" ELSE "raised")
  /\ UNCHANGED <<run, pcm, answered, saved, sampler, term, stdin, stdout, stderr, sent>>

Quality == QualitySpawn \/ QualityReady \/ QualitySend \/ QualityRead \/ QualityReap

-----------------------------------------------------------------------------
Terminated == /\ pc = "ended" /\ Exited
              /\ UNCHANGED clientsVars

ClientsNext == \/ WorkerProgress \/ WorkerFault \/ DrainStderr
        \/ Smoke \/ Moss \/ Cores \/ Quality \/ Terminated

ClientsSpec == ClientsInit /\ [][ClientsNext]_clientsVars

\* The worker and the scripts run whenever they can; a fault or a log line need
\* not come.
ClientsFairSpec == /\ ClientsSpec
            /\ WF_clientsVars(WorkerProgress)
            /\ WF_clientsVars(DrainStderr)
            /\ WF_clientsVars(Smoke \/ Moss \/ Cores \/ Quality)

-----------------------------------------------------------------------------
(* Properties                                                               *)

\* Audio published as a result is exactly what the worker produced for that
\* request: nothing of an earlier request, nothing missing, in order.  The
\* smoke script publishes every measured run when it returns; the pipeline
\* driver publishes a file in every case and marks a complete one with ttfa_ms.
AudioIsWhole ==
  exit = "ok" /\ (prog = "smoke" \/ (prog = "moss" /\ answered)) =>
    \A r \in 1..TotalRuns : ~IsWarmup(r) => saved[r] = sent[r]

\* A script that returns normally leaves neither the worker nor tegrastats
\* behind, whichever of the worker's exit and the wait's timeout came first.
ChildrenReaped == exit = "ok" => Exited /\ ~sampler

\* However the script ended, by returning or by an exception on the way, its
\* worker is gone in the end.
WorkerGone == pc = "ended" ~> Exited

\* The smoke harness and the pipeline driver end, however much the worker logs
\* and whatever it answers.
ClientEnds == prog \in {"smoke", "moss"} => <>(pc = "ended")

\* The quality gate ends (its worker's stderr is a pipe nobody reads).
QualityGateEnds == prog = "quality" => <>(pc = "ended")

\* The co-residency probe ends (an error event is not one it waits for).
CoresidencyEnds == prog = "cores" => <>(pc = "ended")

=============================================================================
