--------------------------- MODULE StreamingGate ---------------------------
(***************************************************************************)
(* scripts/streaming_e2e_verify.py, the release gate of the streaming ASR:     *)
(* for every prompt the one-shot baseline A, the mel stream B, the PCM stream   *)
(* F and B again for its latency, each in a worker of its own, then the         *)
(* verdict.  A transcript is compared with the one-shot text, "same".           *)
(***************************************************************************)
EXTENDS Integers, Sequences, FiniteSets, SequencesExt

CONSTANTS NPrompts,
          LatencyRuns,   \* --latency-runs
          Latencies,     \* end-of-speech latencies, in ms
          MedianGate, P95Gate

ASSUME StreamingAssumption ==
  /\ NPrompts \in Nat \ {0} /\ LatencyRuns \in Nat \ {0}
  /\ Latencies \subseteq Nat /\ MedianGate \in Nat /\ P95Gate \in Nat

Prompts == 1..NPrompts
NoLine == [ok |-> FALSE, b |-> "none", f |-> "none", lat |-> <<>>]

VARIABLES epc,       \* where the gate is
          pid,       \* the prompt it is at
          scen,     \* its scenario: A, B, F or C
          withF,     \* --mel-settings and --mel-filters were given
          prompt,    \* per_prompt
          workers,   \* ASR workers alive
          verdict,   \* --results-json on disk
          eexit      \* exit code, "none" while running

e2eVars == <<epc, pid, scen, withF, prompt, workers, verdict, eexit>>

StreamingInit ==
  /\ epc = "spawn" /\ pid = 1 /\ scen = "A" /\ withF \in BOOLEAN
  /\ prompt = [p \in Prompts |-> NoLine]
  /\ workers = 0 /\ verdict = "none" /\ eexit = "none"

EExit(code) == epc' = "end" /\ eexit' = code

\* no prompts, or a malformed one
NoPrompts ==
  /\ epc = "spawn" /\ pid = 1 /\ scen = "A"
  /\ EExit("2")
  /\ UNCHANGED <<pid, scen, withF, prompt, workers, verdict>>

\* Worker(args): a worker that dies first raises, so does one whose first line is
\* something else, and that one is not closed
E2eSpawn ==
  /\ epc = "spawn"
  /\ \/ workers' = workers + 1 /\ epc' = "scenario" /\ UNCHANGED eexit
     \/ UNCHANGED workers /\ EExit("1")
     \/ workers' = workers + 1 /\ EExit("1")
  /\ UNCHANGED <<pid, scen, withF, prompt, verdict>>

\* what B leaves: the comparison of its transcript and the first latency
MelLine(text, latency) == [prompt[pid] EXCEPT !.b = text, !.lat = <<latency>>]

Measured ==
  LET line == prompt[pid]  Compared == {"same", "other"} IN
  CASE scen = "A" -> {[line EXCEPT !.ok = ok] : ok \in BOOLEAN}
    [] scen = "B" -> {MelLine(t, l) : t \in Compared, l \in Latencies}
    [] scen = "F" -> {[line EXCEPT !.f = t] : t \in Compared}
    [] scen = "C" -> {[line EXCEPT !.lat = Append(@, l)] : l \in Latencies}

scenario ==
  /\ epc = "scenario"
  /\ \/ \E line \in Measured : prompt' = [prompt EXCEPT ![pid] = line] /\ epc' = "close"
     \/ epc' = "closeRaised" /\ UNCHANGED prompt
  /\ UNCHANGED <<pid, scen, withF, workers, verdict, eexit>>

\* finally: w.close(): end of file, ten seconds, SIGTERM, five seconds; a worker
\* that outlives both makes close() itself raise
close ==
  /\ epc \in {"close", "closeRaised"}
  /\ \/ /\ workers' = workers - 1
        /\ IF epc = "close" THEN epc' = "stage" /\ UNCHANGED eexit ELSE EExit("1")
     \/ UNCHANGED workers /\ EExit("1")
  /\ UNCHANGED <<pid, scen, withF, prompt, verdict>>

\* run_one: A, B, F if its files were given, then B again for the latency
run_one ==
  /\ epc = "stage"
  /\ LET next == IF scen = "A" THEN "B"
                 ELSE IF scen = "B" /\ withF THEN "F"
                 ELSE IF Len(prompt[pid].lat) < LatencyRuns THEN "C" ELSE "done"
     IN  IF next # "done" THEN scen' = next /\ epc' = "spawn" /\ UNCHANGED pid
         ELSE /\ scen' = "A"
              /\ IF pid = NPrompts THEN epc' = "verdict" /\ UNCHANGED pid
                                   ELSE epc' = "spawn" /\ pid' = pid + 1
  /\ UNCHANGED <<withF, prompt, workers, verdict, eexit>>

\* sorted(values)[n - 1]: the n-th smallest of xs
sorted(xs, n) ==
  CHOOSE x \in ToSet(xs) : /\ Cardinality({i \in DOMAIN xs : xs[i] < x}) < n
                           /\ Cardinality({i \in DOMAIN xs : xs[i] <= x}) >= n

\* percentile, in hundredths, with linear interpolation
percentile(xs, p) ==
  LET k == (Len(xs) - 1) * p  f == k \div 100  c == (k + 99) \div 100
  IN  100 * sorted(xs, f + 1) + (sorted(xs, c + 1) - sorted(xs, f + 1)) * (k - 100 * f)

\* Mutant: the dictionary of gates is made anew for every prompt.
evaluate_gatesLast ==
  LET r == prompt[NPrompts] IN
    /\ r.ok /\ r.b = "same" /\ r.f \in {"none", "same"}
    /\ percentile(r.lat, 50) <= 100 * MedianGate
    /\ percentile(r.lat, 95) <= 100 * P95Gate

\* F counts only if it was run
evaluate_gates ==
  \A p \in Prompts : LET r == prompt[p] IN
    /\ r.ok /\ r.b = "same" /\ r.f \in {"none", "same"}
    /\ percentile(r.lat, 50) <= 100 * MedianGate
    /\ percentile(r.lat, 95) <= 100 * P95Gate

\* the results are rendered and written, then the exit code
E2eEnd ==
  /\ epc = "verdict"
  /\ verdict' = IF evaluate_gates THEN "PASS" ELSE "FAIL"
  /\ EExit(IF evaluate_gates THEN "0" ELSE "1")
  /\ UNCHANGED <<pid, scen, withF, prompt, workers>>

\* the pipe of a worker that was left behind closes with the gate
WorkerEof ==
  /\ epc = "end" /\ workers > 0
  /\ workers' = workers - 1
  /\ UNCHANGED <<epc, pid, scen, withF, prompt, verdict, eexit>>

StreamingNext ==
  \/ NoPrompts \/ E2eSpawn \/ scenario \/ close \/ run_one \/ E2eEnd \/ WorkerEof

StreamingSpec == StreamingInit /\ [][StreamingNext]_e2eVars

-----------------------------------------------------------------------------
\* "Exit code 0 iff every gate on every prompt passes": with 0 every prompt was
\* transcribed alike by the streams that were run, at least half of its runs were
\* within the median gate and all but the share above the 95th percentile within the
\* other, whatever the order of the runs, and no worker is left behind (percentile,
\* evaluate_gates 153-172, finally: w.close() 76-138).
VerdictHonest ==
  eexit = "0" => workers = 0 /\ \A p \in Prompts :
    LET r == prompt[p]
        within(g) == Cardinality({i \in DOMAIN r.lat : r.lat[i] <= g})
    IN  /\ r.ok /\ r.b = "same" /\ (withF => r.f = "same")
        /\ Len(r.lat) = LatencyRuns /\ 2 * within(MedianGate) >= Len(r.lat)
        /\ 100 * (within(P95Gate) - 1) >= 95 * (Len(r.lat) - 1) - 99

\* "Gates per prompt (all hard)", F among them: with 0 every prompt has passed F.
\* The code does not keep this: without --mel-settings and --mel-filters F is
\* skipped and the verdict is taken without it (106, 166).
AllGatesHard == eexit = "0" => \A p \in Prompts : prompt[p].f = "same"
=============================================================================
