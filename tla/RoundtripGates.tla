--------------------------- MODULE RoundtripGates ---------------------------
(***************************************************************************)
(* The acceptance gates that drive a whole voice stack and judge it by what    *)
(* it says and hears:                                                          *)
(*   http   models/common/verify_tts_asr_roundtrip.py, over the services;       *)
(*   qwen3  scripts/verify_qwen3_tts_asr_roundtrip.py, in process with the ASR  *)
(*          of another container;                                               *)
(*   bench  bench/bench_http_tts_stream.py, latency and real-time factor.       *)
(*                                                                          *)
(* A gate is run again and again over the same output directory, so audio and   *)
(* reports of earlier runs are lying around.  A wav file is the number of the    *)
(* run that wrote it; a transcript is "same", "near" (close enough to the text,  *)
(* but without a keyword of the case), "other" or "silent".                      *)
(***************************************************************************)
EXTENDS Integers, Sequences, SequencesExt

CONSTANTS NCases,        \* cases, prompts or texts of a run
          Blank,         \* cases whose text has no letter or digit
          MaxRuns,
          Repeat         \* --repeat of the benchmark

ASSUME GatesAssumption ==
  /\ NCases \in Nat \ {0} /\ Repeat \in Nat
  /\ Blank \subseteq 1..NCases

Cases == 1..NCases
Texts == {"same", "near", "other", "silent"}
NotHeard == [audio |-> 0, text |-> "none"]
NoReport == [run |-> 0, status |-> "none"]
Programs == {"http", "qwen3"}

VARIABLES gate, gpc,   \* the running program and where it is
          run,         \* number of the run
          case,        \* the case it is at
          heard,       \* case -> what the ASR made of which audio, this run
          wav,         \* case -> <name>.wav in the output directory
          box,         \* case -> its copy in the ASR container
          status,      \* report["status"]
          report,      \* program -> the report file
          gexit,       \* exit code, "none" while running
          trials,      \* bench: what each trial of the text really gave
          lists        \* bench: ttft_list, rtf_list

gateVars == <<gate, gpc, run, case, heard, wav, box, status, report, gexit,
              trials, lists>>
judged == <<heard, wav, box, status>>
benchVars == <<trials, lists>>

GatesInit ==
  /\ gate = "none" /\ gpc = "idle" /\ run = 0 /\ case = 1
  /\ heard = [c \in Cases |-> NotHeard]
  /\ wav = [c \in Cases |-> 0] /\ box = [c \in Cases |-> 0]
  /\ status = "PASS" /\ report = [p \in Programs |-> NoReport] /\ gexit = "none"
  /\ trials = <<>> /\ lists = [ttft |-> <<>>, rtf |-> <<>>]

GateStart(p) ==
  /\ gpc = "idle" /\ run < MaxRuns
  /\ gate' = p /\ run' = run + 1 /\ case' = 1 /\ gexit' = "none"
  /\ gpc' = [http |-> "health", qwen3 |-> "tts", bench |-> "warmup"][p]
  /\ heard' = [c \in Cases |-> NotHeard] /\ status' = "PASS"
  /\ trials' = <<>> /\ lists' = [ttft |-> <<>>, rtf |-> <<>>]
  /\ UNCHANGED <<wav, box, report>>

GateExit(code) == gpc' = "idle" /\ gexit' = code

Similar(c, text) == text \in {"same", "near"} \/ (text = "silent" /\ c \in Blank)

WriteReport(p, judgement) == report' = [report EXCEPT ![p] = [run |-> run, status |-> judgement]]

NextCase(from) ==
  IF case = NCases THEN gpc' = "report" /\ UNCHANGED case
                   ELSE gpc' = from /\ case' = case + 1

-----------------------------------------------------------------------------
(* http                                                                        *)

\* anything raised ends the run with 1 and no report
HttpRaise ==
  /\ gate = "http" /\ gpc \in {"health", "tts", "asr"}
  /\ GateExit("1")
  /\ UNCHANGED <<gate, run, case, judged, report, benchVars>>

\* Mutant: the report is written as soon as it is made.
HttpHealthyEarly ==
  /\ gate = "http" /\ gpc = "health"
  /\ gpc' = "tts"
  /\ WriteReport("http", status)
  /\ UNCHANGED <<gate, run, case, judged, gexit, benchVars>>

HttpHealthy ==
  /\ gate = "http" /\ gpc = "health"
  /\ gpc' = "tts"
  /\ UNCHANGED <<gate, run, case, judged, report, gexit, benchVars>>

\* _run_case: the reply to /tts or /tts/stream, as a WAV file
HttpTts ==
  /\ gate = "http" /\ gpc = "tts"
  /\ wav' = [wav EXCEPT ![case] = run]
  /\ gpc' = "asr"
  /\ UNCHANGED <<gate, run, case, heard, box, status, report, gexit, benchVars>>

\* Mutant: an answer is enough.
HttpPassedAny(c, text) == text # "silent"

HttpPassed(c, text) == text # "silent" /\ Similar(c, text) /\ text # "near"

HttpAsr ==
  /\ gate = "http" /\ gpc = "asr"
  /\ \E text \in Texts :
       /\ heard' = [heard EXCEPT ![case] = [audio |-> wav[case], text |-> text]]
       /\ status' = IF HttpPassed(case, text) THEN status ELSE "FAIL"
  /\ NextCase("tts")
  /\ UNCHANGED <<gate, run, wav, box, report, gexit, benchVars>>

HttpEnd ==
  /\ gate = "http" /\ gpc = "report"
  /\ WriteReport("http", status)
  /\ GateExit(IF status = "PASS" THEN "0" ELSE "1")
  /\ UNCHANGED <<gate, run, case, judged, benchVars>>

-----------------------------------------------------------------------------
(* qwen3: whatever a case raises is that case's failure                        *)

QwenRaise ==
  /\ gate = "qwen3" /\ gpc \in {"tts", "copy", "asr"}
  /\ status' = "FAIL"
  /\ NextCase("tts")
  /\ UNCHANGED <<gate, run, heard, wav, box, report, gexit, benchVars>>

synthesize ==
  /\ gate = "qwen3" /\ gpc = "tts"
  /\ wav' = [wav EXCEPT ![case] = run]
  /\ gpc' = "copy"
  /\ UNCHANGED <<gate, run, case, heard, box, status, report, gexit, benchVars>>

\* _asr_with_paraformer_container: docker cp over what an earlier run left there
dockerCp ==
  /\ gate = "qwen3" /\ gpc = "copy"
  /\ box' = [box EXCEPT ![case] = wav[case]]
  /\ gpc' = "asr"
  /\ UNCHANGED <<gate, run, case, heard, wav, status, report, gexit, benchVars>>

Transcribed(audio) ==
  /\ \E text \in Texts :
       /\ heard' = [heard EXCEPT ![case] = [audio |-> audio, text |-> text]]
       /\ status' = IF Similar(case, text) THEN status ELSE "FAIL"
  /\ NextCase("tts")
  /\ UNCHANGED <<gate, run, wav, box, report, gexit, benchVars>>

\* docker exec transcribes the container's copy
asr_with_paraformer_container == gate = "qwen3" /\ gpc = "asr" /\ Transcribed(box[case])

\* --asr product_qwen3 reads the wav file itself
asr_with_product_qwen3 == gate = "qwen3" /\ gpc = "copy" /\ Transcribed(wav[case])

QwenEnd ==
  /\ gate = "qwen3" /\ gpc = "report"
  /\ WriteReport("qwen3", status)
  /\ GateExit(IF status = "PASS" THEN "0" ELSE "2")
  /\ UNCHANGED <<gate, run, case, judged, benchVars>>

-----------------------------------------------------------------------------
(* bench                                                                       *)

\* the warm-up's failure is logged
BenchWarmup ==
  /\ gate = "bench" /\ gpc = "warmup"
  /\ gpc' = "trial"
  /\ UNCHANGED <<gate, run, case, judged, report, gexit, benchVars>>

\* _stream_tts_once: a reply of the header alone has a ttft but no rtf
trialLists(kind) ==
  [ttft |-> Append(lists.ttft, IF kind = "failed" THEN "nan" ELSE "ms"),
   rtf |-> Append(lists.rtf, IF kind = "audio" THEN "x" ELSE "nan")]

BenchTrial ==
  /\ gate = "bench" /\ gpc = "trial" /\ Len(trials) < Repeat
  /\ \E kind \in {"audio", "header", "failed"} :
       /\ trials' = Append(trials, kind)
       /\ lists' = trialLists(kind)
  /\ UNCHANGED <<gate, gpc, run, case, judged, report, gexit>>

\* the summary of a text; after the last one the exit code is 0 whatever failed
BenchText ==
  /\ gate = "bench" /\ gpc = "trial" /\ Len(trials) = Repeat
  /\ IF case = NCases THEN GateExit("0") /\ UNCHANGED <<case, trials, lists>>
     ELSE /\ case' = case + 1 /\ gpc' = "warmup"
          /\ trials' = <<>> /\ lists' = [ttft |-> <<>>, rtf |-> <<>>]
          /\ UNCHANGED gexit
  /\ UNCHANGED <<gate, run, judged, report>>

\* the trials whose value is not a NaN: the mean is over those
Valid(xs) == {i \in DOMAIN xs : xs[i] # "nan"}

GateKilled ==
  /\ gpc # "idle"
  /\ GateExit("killed")
  /\ UNCHANGED <<gate, run, case, judged, report, benchVars>>

GatesNext ==
  \/ \E p \in Programs \cup {"bench"} : GateStart(p)
  \/ HttpRaise \/ HttpHealthy \/ HttpTts \/ HttpAsr \/ HttpEnd
  \/ QwenRaise \/ synthesize \/ dockerCp \/ asr_with_paraformer_container \/ asr_with_product_qwen3 \/ QwenEnd
  \/ BenchWarmup \/ BenchTrial \/ BenchText
  \/ GateKilled

GatesSpec == GatesInit /\ [][GatesNext]_gateVars

-----------------------------------------------------------------------------
\* A round trip that ends with 0 has heard every case in this run, from audio
\* synthesized in this run, and close enough to its text: neither the wav file nor
\* the container's copy of an earlier run, nor a case that raised, nor an empty
\* transcript of a text with words can carry it (_run_case 159-219, main 222-269;
\* _asr_with_paraformer_container 146-178, main 222-254).
GateSound ==
  (gexit = "0" /\ gate \in {"http", "qwen3"}) =>
    \A c \in Cases : heard[c].audio = run /\ Similar(c, heard[c].text)

\* What the gates write down is what happened.  A report that says PASS is the
\* report of a run that passed, and while it is the latest run's, that run ended
\* with 0: raising, a kill or a failing case never leaves a PASS of its own behind.
\* The benchmark's means are over the trials that were answered, the real-time
\* factor over those that had audio: failures neither shift the lists nor enter a
\* mean (main 222-269, 191-254; _bench_one 106-152).
ReportHonest ==
  /\ \A p \in Programs : (report[p].run = run /\ gpc = "idle") =>
       (report[p].status = "PASS" <=> gexit = "0")
  /\ Len(lists.ttft) = Len(trials) /\ Len(lists.rtf) = Len(trials)
  /\ Valid(lists.ttft) = {i \in DOMAIN trials : trials[i] # "failed"}
  /\ Valid(lists.rtf) = {i \in DOMAIN trials : trials[i] = "audio"}
=============================================================================
