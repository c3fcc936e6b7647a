---------------------------- MODULE SparkWorker ----------------------------
(***************************************************************************)
(* native/edgellm_voice_worker/spark_tts_worker.cpp: the Spark TTS worker  *)
(* process.  The main thread reads stdin, claims a slot of the pool for    *)
(* each request and hands the request to the slot's thread; that thread    *)
(* runs processRequest, which decodes on a further thread and consumes the *)
(* tokens through a StreamChannel.  A cancel line is routed through the    *)
(* cancel map to the channel of the slot that serves the id.  At end of    *)
(* file the main thread shuts the slot threads down and joins them.        *)
(*                                                                         *)
(* A request has a channel and a decode thread of its own, so both are     *)
(* indexed by the request.  Tokens and audio are left out; SparkStream     *)
(* models them.                                                            *)
(***************************************************************************)
EXTENDS Integers, Sequences, FiniteSets

CONSTANTS
  Reqs,       (* requests, with distinct non-empty ids                      *)
  MaxSlots,   (* --max_slots                                                *)
  None        (* no request, no slot                                        *)

ASSUME SparkConstants == MaxSlots \in Nat \ {0} /\ None \notin Reqs \cup Nat

Slots == 1 .. MaxSlots

VARIABLES
  main,           (* the main thread: where it is, its slot and request     *)
  inUse,          (* claim flag of each slot                                *)
  queue,          (* handoff queue of each slot                             *)
  shutdown,       (* shutdown flag of each slot                             *)
  thread,         (* where each slot thread is                              *)
  current,        (* the request each slot thread processes                 *)
  activeChannel,  (* the request whose channel the slot exposes to cancels  *)
  gCancelMap,     (* id -> slot                                             *)
  mIdToSlot,      (* the pool's id -> slot map                              *)
  cancelled,      (* the channel of a request is cancelled                  *)
  finished,       (* the channel of a request is finished                   *)
  decode,         (* the decode thread of a request                         *)
  answers,        (* terminal events written for a request                  *)
  asked,          (* history: ids a cancel line has named                   *)
  tripped         (* history: requests whose channel a cancel line tripped  *)

slotVars == <<inUse, queue, shutdown, thread, current, activeChannel>>
chanVars == <<cancelled, finished, decode>>
history  == <<asked, tripped>>
vars == <<main, slotVars, gCancelMap, mIdToSlot, chanVars, answers, history>>

Reading == [at |-> "read", slot |-> None, req |-> None]

Init ==
  /\ main = Reading
  /\ inUse = [s \in Slots |-> FALSE]
  /\ queue = [s \in Slots |-> << >>]
  /\ shutdown = [s \in Slots |-> FALSE]
  /\ thread = [s \in Slots |-> "waiting"]
  /\ current = [s \in Slots |-> None]
  /\ activeChannel = [s \in Slots |-> None]
  /\ gCancelMap = [r \in Reqs |-> None]
  /\ mIdToSlot = [r \in Reqs |-> None]
  /\ cancelled = [r \in Reqs |-> FALSE]
  /\ finished = [r \in Reqs |-> FALSE]
  /\ decode = [r \in Reqs |-> "none"]
  /\ answers = [r \in Reqs |-> << >>]
  /\ asked = {} /\ tripped = {}

-----------------------------------------------------------------------------
(* The main thread. *)
Sent(r) == mIdToSlot[r] # None \/ answers[r] # << >>

FreeSlots == {s \in Slots : ~inUse[s]}

Answer(r, event) == answers' = [answers EXCEPT ![r] = Append(@, event)]

(* A request line: acquireFree claims the first free slot and the id is      *)
(* bound to it, or the pool is saturated.                                    *)
readRequest(r) ==
  /\ main = Reading /\ ~Sent(r)
  /\ \/ \E s \in FreeSlots :
          /\ \A t \in FreeSlots : s <= t
          /\ inUse' = [inUse EXCEPT ![s] = TRUE]
          /\ mIdToSlot' = [mIdToSlot EXCEPT ![r] = s]
          /\ main' = [at |-> "push", slot |-> s, req |-> r]
          /\ UNCHANGED answers
     \/ /\ FreeSlots = {}
        /\ Answer(r, "pool_saturated")
        /\ UNCHANGED <<inUse, mIdToSlot, main>>
  /\ UNCHANGED <<queue, shutdown, thread, current, activeChannel, gCancelMap,
                 chanVars, history>>

(* The queue is filled under queueMu, which a thread between its predicate   *)
(* and its wait holds; the notification comes after the lock is released.    *)
pushQueue ==
  /\ main.at = "push" /\ thread[main.slot] # "checked"
  /\ queue' = [queue EXCEPT ![main.slot] = Append(@, main.req)]
  /\ main' = [main EXCEPT !.at = "notify"]
  /\ UNCHANGED <<inUse, shutdown, thread, current, activeChannel, gCancelMap,
                 mIdToSlot, chanVars, answers, history>>

Wake(s) == thread' = [thread EXCEPT ![s] = IF @ = "blocked" THEN "waiting" ELSE @]

notifyOne ==
  /\ main.at = "notify"
  /\ Wake(main.slot)
  /\ main' = Reading
  /\ UNCHANGED <<inUse, queue, shutdown, current, activeChannel, gCancelMap,
                 mIdToSlot, chanVars, answers, history>>

(* tripCancel: the channel is looked up under gCancelMu and chanMu ...       *)
readCancel(r) ==
  /\ main = Reading
  /\ asked' = asked \cup {r}
  /\ LET chan == IF gCancelMap[r] = None THEN None ELSE activeChannel[gCancelMap[r]]
     IN  main' = IF chan = None THEN Reading
                 ELSE [at |-> "trip", slot |-> None, req |-> chan]
  /\ UNCHANGED <<slotVars, gCancelMap, mIdToSlot, chanVars, answers, tripped>>

(* ... and cancelled after the locks are released; cancel_ack says tripped. *)
tripChannel ==
  /\ main.at = "trip"
  /\ cancelled' = [cancelled EXCEPT ![main.req] = TRUE]
  /\ tripped' = tripped \cup {main.req}
  /\ main' = Reading
  /\ UNCHANGED <<slotVars, gCancelMap, mIdToSlot, finished, decode, answers, asked>>

(* End of file: the flag of each slot is set and its thread notified, both   *)
(* without queueMu; then every thread is joined.                             *)
eof ==
  /\ main = Reading
  /\ main' = [at |-> "flag", slot |-> 1, req |-> None]
  /\ UNCHANGED <<slotVars, gCancelMap, mIdToSlot, chanVars, answers, history>>

setShutdown ==
  /\ main.at = "flag"
  /\ shutdown' = [shutdown EXCEPT ![main.slot] = TRUE]
  /\ main' = [main EXCEPT !.at = "notifyAll"]
  /\ UNCHANGED <<inUse, queue, thread, current, activeChannel, gCancelMap,
                 mIdToSlot, chanVars, answers, history>>

notifyAll ==
  /\ main.at = "notifyAll"
  /\ Wake(main.slot)
  /\ main' = IF main.slot = MaxSlots THEN [Reading EXCEPT !.at = "join"]
             ELSE [main EXCEPT !.at = "flag", !.slot = @ + 1]
  /\ UNCHANGED <<inUse, queue, shutdown, current, activeChannel, gCancelMap,
                 mIdToSlot, chanVars, answers, history>>

joinThreads ==
  /\ main.at = "join" /\ \A s \in Slots : thread[s] = "ended"
  /\ main' = [Reading EXCEPT !.at = "exited"]
  /\ UNCHANGED <<slotVars, gCancelMap, mIdToSlot, chanVars, answers, history>>

-----------------------------------------------------------------------------
(* A slot thread. *)
Goto(s, label) == thread' = [thread EXCEPT ![s] = label]

(* slotWorkerLoop: the predicate of the wait, under queueMu. *)
checkQueue(s) ==
  /\ thread[s] = "waiting"
  /\ \/ /\ queue[s] # << >>
        /\ current' = [current EXCEPT ![s] = Head(queue[s])]
        /\ queue' = [queue EXCEPT ![s] = Tail(@)]
        /\ Goto(s, "open")
     \/ /\ queue[s] = << >>
        /\ Goto(s, IF shutdown[s] THEN "ended" ELSE "checked")
        /\ UNCHANGED <<current, queue>>
  /\ UNCHANGED <<main, inUse, shutdown, activeChannel, gCancelMap, mIdToSlot,
                 chanVars, answers, history>>

block(s) ==
  /\ thread[s] = "checked"
  /\ Goto(s, "blocked")
  /\ UNCHANGED <<main, inUse, queue, shutdown, current, activeChannel, gCancelMap,
                 mIdToSlot, chanVars, answers, history>>

(* processRequest: the channel is exposed before the id is registered. *)
openChannel(s) ==
  /\ thread[s] = "open"
  /\ activeChannel' = [activeChannel EXCEPT ![s] = current[s]]
  /\ Goto(s, "register")
  /\ UNCHANGED <<main, inUse, queue, shutdown, current, gCancelMap, mIdToSlot,
                 chanVars, answers, history>>

registerCancel(s) ==
  /\ thread[s] = "register"
  /\ gCancelMap' = [gCancelMap EXCEPT ![current[s]] = s]
  /\ Goto(s, "prepare")
  /\ UNCHANGED <<main, inUse, queue, shutdown, current, activeChannel, mIdToSlot,
                 chanVars, answers, history>>

(* A bad request (empty text, wrong clone ids) throws; otherwise the decode  *)
(* thread starts.                                                            *)
prepare(s) ==
  /\ thread[s] = "prepare"
  /\ \/ Goto(s, "catch") /\ UNCHANGED decode
     \/ Goto(s, "consume") /\ decode' = [decode EXCEPT ![current[s]] = "running"]
  /\ UNCHANGED <<main, inUse, queue, shutdown, current, activeChannel, gCancelMap,
                 mIdToSlot, cancelled, finished, answers, history>>

(* The consumer loop ends when the channel is finished or cancelled. *)
consume(s) ==
  /\ thread[s] = "consume" /\ (finished[current[s]] \/ cancelled[current[s]])
  /\ Goto(s, "join")
  /\ UNCHANGED <<main, inUse, queue, shutdown, current, activeChannel, gCancelMap,
                 mIdToSlot, chanVars, answers, history>>

(* A speaker decoder or vocoder run inside the loop throws. *)
vocoderFails(s) ==
  /\ thread[s] = "consume"
  /\ Goto(s, "catch")
  /\ UNCHANGED <<main, inUse, queue, shutdown, current, activeChannel, gCancelMap,
                 mIdToSlot, chanVars, answers, history>>

Joinable(r) == decode[r] # "running"

joinDecode(s) ==
  /\ thread[s] = "join" /\ Joinable(current[s])
  /\ Goto(s, "decide")
  /\ UNCHANGED <<main, inUse, queue, shutdown, current, activeChannel, gCancelMap,
                 mIdToSlot, chanVars, answers, history>>

(* Mutant: the branch on a decode error does not end the request. *)
decideFallsThrough(s) ==
  /\ thread[s] = "decide"
  /\ LET r == current[s] IN
     CASE decode[r] = "failed" -> Answer(r, "error") /\ Goto(s, "flush")
       [] decode[r] # "failed" /\ cancelled[r] ->
            Answer(r, "cancelled") /\ Goto(s, "unregister")
       [] OTHER -> Goto(s, "flush") /\ UNCHANGED answers
  /\ UNCHANGED <<main, inUse, queue, shutdown, current, activeChannel, gCancelMap,
                 mIdToSlot, chanVars, history>>

(* Mutant: the channel is looked at before the decode error. *)
decideCancelFirst(s) ==
  /\ thread[s] = "decide"
  /\ LET r == current[s] IN
     CASE cancelled[r] -> Answer(r, "cancelled") /\ Goto(s, "unregister")
       [] ~cancelled[r] /\ decode[r] = "failed" ->
            Answer(r, "error") /\ Goto(s, "unregister")
       [] OTHER -> Goto(s, "flush") /\ UNCHANGED answers
  /\ UNCHANGED <<main, inUse, queue, shutdown, current, activeChannel, gCancelMap,
                 mIdToSlot, chanVars, history>>

(* A decode error is reported as an error although it cancelled the channel; *)
(* then a cancel; otherwise the rest of the audio is vocoded.                *)
decide(s) ==
  /\ thread[s] = "decide"
  /\ LET r == current[s] IN
     CASE decode[r] = "failed" -> Answer(r, "error") /\ Goto(s, "unregister")
       [] decode[r] # "failed" /\ cancelled[r] ->
            Answer(r, "cancelled") /\ Goto(s, "unregister")
       [] OTHER -> Goto(s, "flush") /\ UNCHANGED answers
  /\ UNCHANGED <<main, inUse, queue, shutdown, current, activeChannel, gCancelMap,
                 mIdToSlot, chanVars, history>>

(* The remaining chunks and done; no cancel is looked for any more.  Missing *)
(* tokens, the vocoder or the WAV file may throw.                            *)
flush(s) ==
  /\ thread[s] = "flush"
  /\ \/ Answer(current[s], "done") /\ Goto(s, "unregister")
     \/ Goto(s, "catch") /\ UNCHANGED answers
  /\ UNCHANGED <<main, inUse, queue, shutdown, current, activeChannel, gCancelMap,
                 mIdToSlot, chanVars, history>>

(* The catch arm cancels the channel, joins the decode thread and reports. *)
catchCancel(s) ==
  /\ thread[s] = "catch"
  /\ cancelled' = [cancelled EXCEPT ![current[s]] = TRUE]
  /\ Goto(s, "catchJoin")
  /\ UNCHANGED <<main, inUse, queue, shutdown, current, activeChannel, gCancelMap,
                 mIdToSlot, finished, decode, answers, history>>

catchJoin(s) ==
  /\ thread[s] = "catchJoin" /\ Joinable(current[s])
  /\ Answer(current[s], "error")
  /\ Goto(s, "unregister")
  /\ UNCHANGED <<main, inUse, queue, shutdown, current, activeChannel, gCancelMap,
                 mIdToSlot, chanVars, history>>

(* Mutant: the slot is given away before its channel is hidden. *)
unregisterCancelFreesSlot(s) ==
  /\ thread[s] = "unregister"
  /\ gCancelMap' = [gCancelMap EXCEPT ![current[s]] = None]
  /\ inUse' = [inUse EXCEPT ![s] = FALSE]
  /\ Goto(s, "reset")
  /\ UNCHANGED <<main, queue, shutdown, current, activeChannel, mIdToSlot,
                 chanVars, answers, history>>

(* Mutant: the id is left in the cancel map. *)
unregisterCancelKeepsId(s) ==
  /\ thread[s] = "unregister"
  /\ Goto(s, "reset")
  /\ UNCHANGED <<main, inUse, queue, shutdown, current, activeChannel, gCancelMap,
                 mIdToSlot, chanVars, answers, history>>

(* The id leaves the cancel map, then the channel is hidden, then the slot   *)
(* is free.  The id stays in the pool's map; the channel and the decode      *)
(* thread, local to processRequest, are gone.                                *)
unregisterCancel(s) ==
  /\ thread[s] = "unregister"
  /\ gCancelMap' = [gCancelMap EXCEPT ![current[s]] = None]
  /\ Goto(s, "reset")
  /\ UNCHANGED <<main, inUse, queue, shutdown, current, activeChannel, mIdToSlot,
                 chanVars, answers, history>>

resetChannel(s) ==
  /\ thread[s] = "reset"
  /\ activeChannel' = [activeChannel EXCEPT ![s] = None]
  /\ Goto(s, "free")
  /\ UNCHANGED <<main, inUse, queue, shutdown, current, gCancelMap, mIdToSlot,
                 chanVars, answers, history>>

freeSlot(s) ==
  /\ thread[s] = "free"
  /\ inUse' = [inUse EXCEPT ![s] = FALSE]
  /\ current' = [current EXCEPT ![s] = None]
  /\ cancelled' = [cancelled EXCEPT ![current[s]] = FALSE]
  /\ finished' = [finished EXCEPT ![current[s]] = FALSE]
  /\ decode' = [decode EXCEPT ![current[s]] = "none"]
  /\ Goto(s, "waiting")
  /\ UNCHANGED <<main, queue, shutdown, activeChannel, gCancelMap, mIdToSlot,
                 answers, history>>

-----------------------------------------------------------------------------
(* The decode thread: handleRequest returns with the channel finished, when  *)
(* it is done or has seen the cancellation; or it throws, and the channel is *)
(* cancelled; or it returns FALSE, which nobody looks at, and may leave the  *)
(* channel as it was.                                                        *)
decodeEnds(r) ==
  /\ decode[r] = "running"
  /\ decode' = [decode EXCEPT ![r] = "ended"]
  /\ finished' = [finished EXCEPT ![r] = TRUE]
  /\ UNCHANGED <<main, slotVars, gCancelMap, mIdToSlot, cancelled, answers, history>>

(* Mutant: the channel is not cancelled when the decode throws. *)
decodeFailsSilently(r) ==
  /\ decode[r] = "running"
  /\ decode' = [decode EXCEPT ![r] = "failed"]
  /\ UNCHANGED <<main, slotVars, gCancelMap, mIdToSlot, cancelled, finished,
                 answers, history>>

decodeFails(r) ==
  /\ decode[r] = "running"
  /\ decode' = [decode EXCEPT ![r] = "failed"]
  /\ cancelled' = [cancelled EXCEPT ![r] = TRUE]
  /\ UNCHANGED <<main, slotVars, gCancelMap, mIdToSlot, finished, answers, history>>

decodeRefuses(r) ==
  /\ decode[r] = "running"
  /\ decode' = [decode EXCEPT ![r] = "refused"]
  /\ UNCHANGED <<main, slotVars, gCancelMap, mIdToSlot, cancelled, finished,
                 answers, history>>

Decode(r) == decodeEnds(r) \/ decodeFails(r) \/ decodeRefuses(r)

-----------------------------------------------------------------------------
SlotThread(s) ==
  \/ checkQueue(s) \/ block(s) \/ openChannel(s) \/ registerCancel(s)
  \/ prepare(s) \/ consume(s) \/ joinDecode(s) \/ decide(s) \/ flush(s)
  \/ catchCancel(s) \/ catchJoin(s)
  \/ unregisterCancel(s) \/ resetChannel(s) \/ freeSlot(s)

(* The main thread between two reads. *)
MainThread ==
  \/ pushQueue \/ notifyOne \/ tripChannel
  \/ setShutdown \/ notifyAll \/ joinThreads

Next ==
  \/ \E r \in Reqs : readRequest(r) \/ readCancel(r)
  \/ eof \/ MainThread
  \/ \E s \in Slots : SlotThread(s) \/ vocoderFails(s)
  \/ \E r \in Reqs : Decode(r)

Spec == Init /\ [][Next]_vars

(* Threads run, and a decode ends: max_tokens bounds it.  Nothing is assumed *)
(* of whoever writes to stdin, and no failure of the vocoder is counted on.  *)
FairSpec ==
  /\ Spec
  /\ WF_vars(MainThread)
  /\ \A s \in Slots : WF_vars(SlotThread(s))
  /\ \A r \in Reqs : WF_vars(Decode(r))
-----------------------------------------------------------------------------
Labels == {"waiting", "checked", "blocked", "open", "register", "prepare",
           "consume", "join", "decide", "flush", "catch", "catchJoin",
           "unregister", "reset", "free", "ended"}

TypeOK ==
  /\ main \in [at : {"read", "push", "notify", "trip", "flag", "notifyAll",
                     "join", "exited"},
               slot : Slots \cup {None}, req : Reqs \cup {None}]
  /\ inUse \in [Slots -> BOOLEAN] /\ shutdown \in [Slots -> BOOLEAN]
  /\ queue \in [Slots -> Seq(Reqs)]
  /\ thread \in [Slots -> Labels]
  /\ current \in [Slots -> Reqs \cup {None}]
  /\ activeChannel \in [Slots -> Reqs \cup {None}]
  /\ gCancelMap \in [Reqs -> Slots \cup {None}]
  /\ mIdToSlot \in [Reqs -> Slots \cup {None}]
  /\ cancelled \in [Reqs -> BOOLEAN] /\ finished \in [Reqs -> BOOLEAN]
  /\ decode \in [Reqs -> {"none", "running", "ended", "failed", "refused"}]
  /\ answers \in [Reqs -> Seq({"done", "cancelled", "error", "pool_saturated"})]
  /\ asked \subseteq Reqs /\ tripped \subseteq Reqs

(* The requests a slot is responsible for: on their way to its queue, in it, *)
(* or being processed.                                                       *)
Custody(s) ==
  {r \in Reqs : \/ main.at = "push" /\ main.slot = s /\ main.req = r
                \/ \E i \in DOMAIN queue[s] : queue[s][i] = r
                \/ current[s] = r}

(* The claim flag and the handoff agree: a claimed slot has exactly one      *)
(* request, a free one none, so no request waits behind another and no       *)
(* thread touches a slot that has been given away.                           *)
SlotCustody ==
  \A s \in Slots : Cardinality(Custody(s)) = IF inUse[s] THEN 1 ELSE 0

(* Every accepted request is answered by exactly one terminal event before   *)
(* its slot is free again, whichever of decode error, vocoder error, bad     *)
(* input, cancel and completion it meets.                                    *)
OneTerminal ==
  \A r \in Reqs :
    /\ Len(answers[r]) <= 1
    /\ mIdToSlot[r] # None /\ (\A s \in Slots : r \notin Custody(s))
         => Len(answers[r]) = 1

(* A cancel line trips only the request it names, although the channel is    *)
(* found through the slot and tripped after the locks are released.          *)
CancelHitsItsOwn == tripped \subseteq asked

(* "Report it as an error, not a cancel": cancelled is answered only to a    *)
(* client that asked, whoever else cancels the channel to unblock a thread.  *)
CancelledOnlyIfAsked ==
  \A r \in Reqs : "cancelled" \in {answers[r][i] : i \in DOMAIN answers[r]} => r \in asked

(* Every accepted request is answered and its slot freed, decode errors      *)
(* included ("Cancel the channel so the consumer unblocks and the slot       *)
(* recovers"), except for one kind of request: its decode returned FALSE     *)
(* with the channel unfinished, and nobody cancelled it yet.  The consumer   *)
(* of such a request waits until a cancel line for it is read.               *)
Unfinished(r) == decode[r] = "refused" /\ ~cancelled[r]
Answered ==
  \A r \in Reqs :
    mIdToSlot[r] # None ~>
      \/ answers[r] # << >> /\ \A s \in Slots : r \notin Custody(s)
      \/ Unfinished(r)

(* "The worker will check its per-request atomic flag at the next chunk      *)
(* boundary and emit a cancelled terminal event in lieu of done"             *)
(* (WorkerIO.cancel): a request whose cancel was acknowledged as tripped     *)
(* before its terminal event is not answered done.                           *)
TrippedNotDone ==
  [][\A r \in tripped : answers'[r] # answers[r] => answers'[r] # <<"done">>]_vars

(* "EOF: shutdown workers, join, free GPU" (main): after end of file the     *)
(* process exits.                                                            *)
ShutdownEnds == main.at = "flag" ~> main.at = "exited"

(* "drop any id binding BEFORE calling release" (SlotPool::release): an id   *)
(* is bound to a slot only while the slot serves it.                         *)
BoundIdsAreLive ==
  \A r \in Reqs : mIdToSlot[r] # None => r \in Custody(mIdToSlot[r])
=============================================================================
