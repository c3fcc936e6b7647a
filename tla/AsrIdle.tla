------------------------------ MODULE AsrIdle ------------------------------
(***************************************************************************)
(* The ASR worker together with what its client knows of time: how many    *)
(* ticks ago each session's client last wrote a line.  It tells apart a    *)
(* session that went silent from one whose lines wait in the stdin pipe    *)
(* while the single thread is busy decoding for another session.           *)
(***************************************************************************)
EXTENDS AsrWorker

VARIABLES
  silence,   (* history: ticks since the client last wrote for a sid        *)
  decoding   (* history: the worker's last step ran the engine              *)

idleVars == <<vars, silence, decoding>>

IdleInit == Init /\ silence = [s \in Sids |-> 0] /\ decoding = FALSE

(* Time passes while the worker waits for input, or while a decode runs: the *)
(* other steps take none.                                                    *)
slowTick ==
  /\ tick
  /\ decoding \/ (loop = "poll" /\ pipe = << >>)
  /\ silence' = [s \in Sids |->
                   IF silence[s] > IdleTimeout THEN silence[s] ELSE silence[s] + 1]
  /\ UNCHANGED decoding

write ==
  /\ send
  /\ silence' = [s \in Sids |->
                   IF s = pipe'[Len(pipe')].sid THEN 0 ELSE silence[s]]
  /\ UNCHANGED decoding

work ==
  /\ Worker
  /\ decoding' = \E e \in out' : e.ev \in {"partial", "final", "done"}
  /\ UNCHANGED silence

IdleNext == slowTick \/ write \/ work

IdleSpec == IdleInit /\ [][IdleNext]_idleVars

(* The sweep closes only sessions whose client has written nothing for       *)
(* longer than the timeout ("releases lanes whose session went silent past   *)
(* kIdleTimeoutMs", qwen3_asr_worker.cpp:417-418).                           *)
ReapsOnlySilent ==
  \A e \in out : e.ev = "timeout" => silence[e.sid] > IdleTimeout
=============================================================================
