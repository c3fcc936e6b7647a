------------------------- MODULE SparkWorkerProofs -------------------------
(***************************************************************************)
(* Machine-checked proofs about the Spark TTS worker, for any number of     *)
(* requests and slots and every interleaving of its threads.                *)
(***************************************************************************)
EXTENDS SparkWorker, FiniteSetTheorems, TLAPS

(* Where a slot thread is while it processes a request: before its answer,   *)
(* and after it.                                                             *)
Unanswered == {"open", "register", "prepare", "consume", "join", "decide",
               "flush", "catch", "catchJoin"}
Answering == {"unregister", "reset", "free"}
Serving == Unanswered \cup Answering

(* The main thread between its steps has the slot and the request it needs,  *)
(* and trips only a channel some cancel line has named.                      *)
MainInv ==
  /\ main.at = "read" => main = Reading
  /\ main.at = "push" => main.slot \in Slots /\ main.req \in Reqs
  /\ main.at \in {"notify", "flag", "notifyAll"} => main.slot \in Slots
  /\ main.at = "trip" => main.req \in Reqs /\ main.req \in asked

(* What the claim flag of a slot stands for: a request on its way to the     *)
(* queue, in the queue, or being processed, and only one of the three.       *)
ClaimInv ==
  \A s \in Slots :
    /\ thread[s] \in Serving <=> current[s] # None
    /\ Len(queue[s]) <= 1
    /\ main.at = "push" /\ main.slot = s =>
         inUse[s] /\ queue[s] = << >> /\ current[s] = None
    /\ queue[s] # << >> => inUse[s] /\ current[s] = None
    /\ current[s] # None => inUse[s]
    /\ inUse[s] => \/ main.at = "push" /\ main.slot = s
                   \/ queue[s] # << >>
                   \/ current[s] # None

(* A request stays with the slot the pool bound it to. *)
BoundInv ==
  /\ main.at = "push" => mIdToSlot[main.req] = main.slot
  /\ \A s \in Slots : queue[s] # << >> => mIdToSlot[Head(queue[s])] = s
  /\ \A s \in Slots : current[s] # None => mIdToSlot[current[s]] = s

(* A request has no answer while it waits or is processed, and one later. *)
InHands(r) ==
  \/ main.at = "push" /\ main.req = r
  \/ queue[mIdToSlot[r]] # << >> /\ Head(queue[mIdToSlot[r]]) = r
  \/ current[mIdToSlot[r]] = r /\ thread[mIdToSlot[r]] \in Unanswered

(* Exactly one answer, given when the request leaves the hands of its slot. *)
AnswerInv ==
  \A r \in Reqs :
    /\ mIdToSlot[r] = None => Len(answers[r]) \in {0, 1}
    /\ mIdToSlot[r] # None /\ InHands(r) => answers[r] = << >>
    /\ mIdToSlot[r] # None /\ ~InHands(r) => Len(answers[r]) = 1

(* The cancel map leads from an id to the slot that processes it, and from   *)
(* there to its own channel or to none.                                      *)
RouteInv ==
  /\ \A s \in Slots : activeChannel[s] # None =>
       activeChannel[s] = current[s] /\ thread[s] # "free"
  /\ \A r \in Reqs : gCancelMap[r] # None =>
       /\ current[gCancelMap[r]] = r
       /\ thread[gCancelMap[r]] \in Serving \ {"open", "register", "reset", "free"}

(* A decode thread belongs to the request being processed.  A channel is     *)
(* cancelled because its decode failed, a cancel line named it, or the catch *)
(* arm has run, which no longer looks at it.                                 *)
ChannelInv ==
  \A r \in Reqs :
    /\ decode[r] # "none" =>
         /\ mIdToSlot[r] # None
         /\ current[mIdToSlot[r]] = r
         /\ thread[mIdToSlot[r]] \in Serving \ {"open", "register", "prepare"}
    /\ cancelled[r] =>
         \/ decode[r] = "failed"
         \/ r \in asked
         \/ /\ mIdToSlot[r] # None /\ current[mIdToSlot[r]] = r
            /\ thread[mIdToSlot[r]] \in {"catchJoin"} \cup Answering

(* CancelledOnlyIfAsked, event by event. *)
AskedInv ==
  \A r \in Reqs : \A i \in DOMAIN answers[r] : answers[r][i] = "cancelled" => r \in asked

(* Together they are inductive: none is kept by every step without the       *)
(* others.                                                                   *)
SparkInv ==
  /\ TypeOK /\ MainInv /\ ClaimInv /\ BoundInv /\ AnswerInv /\ RouteInv
  /\ ChannelInv /\ CancelHitsItsOwn /\ AskedInv

-----------------------------------------------------------------------------
(* What the pieces of the actions do. *)

(* The terminal events. *)
Events == {"done", "cancelled", "error", "pool_saturated"}

(* The first terminal event of a request is its only one. *)
LEMMA FirstAnswer ==
  ASSUME TypeOK, NEW r \in Reqs, answers[r] = << >>,
         NEW event \in Events, Answer(r, event)
  PROVE  /\ answers' \in [Reqs -> Seq(Events)]
         /\ Len(answers'[r]) = 1 /\ \A i \in DOMAIN answers'[r] : answers'[r][i] = event
         /\ \A q \in Reqs \ {r} : answers'[q] = answers[q]
<1>1. answers \in [Reqs -> Seq(Events)]
  BY DEF TypeOK, Events
<1>2. answers' = [answers EXCEPT ![r] = <<event>>]
  <2>1. answers' = [answers EXCEPT ![r] = Append(answers[r], event)]
    BY DEF Answer
  <2>2. Append(answers[r], event) = <<event>>
    OBVIOUS
  <2> QED BY <2>1, <2>2
<1>3. /\ <<event>> \in Seq(Events) /\ Len(<<event>>) = 1
      /\ \A i \in DOMAIN <<event>> : <<event>>[i] = event
  OBVIOUS
<1>4. answers'[r] = <<event>>
  BY <1>1, <1>2
<1> QED BY <1>1, <1>2, <1>3, <1>4

(* The queue of a slot, emptied and filled. *)
LEMMA QueueFacts ==
  ASSUME NEW q \in Seq(Reqs), NEW r \in Reqs
  PROVE  /\ Len(q) \in Nat /\ (q = << >> <=> Len(q) = 0)
         /\ q # << >> => /\ Head(q) \in Reqs /\ Tail(q) \in Seq(Reqs)
                         /\ Head(q) = q[1] /\ Len(Tail(q)) = Len(q) - 1
         /\ Append(q, r) \in Seq(Reqs) /\ Append(q, r) # << >>
         /\ Len(Append(q, r)) = Len(q) + 1
         /\ q = << >> => Head(Append(q, r)) = r
OBVIOUS

(* None is no slot. *)
LEMMA SlotsAreSlots == \A s \in Slots : s # None
BY SparkConstants DEF Slots

(* A serving thread has a request, bound to its slot. *)
LEMMA ServedRequest ==
  ASSUME SparkInv, NEW s \in Slots, thread[s] \in Serving
  PROVE  /\ current[s] \in Reqs /\ mIdToSlot[current[s]] = s /\ s # None
         /\ inUse[s] /\ queue[s] = << >> /\ ~(main.at = "push" /\ main.req = current[s])
<1>1. current[s] # None /\ current[s] \in Reqs
  BY DEF SparkInv, ClaimInv, TypeOK
<1>2. mIdToSlot[current[s]] = s
  BY <1>1 DEF SparkInv, BoundInv
<1>3. inUse[s] /\ queue[s] = << >> /\ ~(main.at = "push" /\ main.slot = s)
  BY <1>1 DEF SparkInv, ClaimInv
<1> QED BY <1>1, <1>2, <1>3, SlotsAreSlots DEF SparkInv, BoundInv

(* The slot of any other thread is reachable by no cancel. *)
LEMMA IdleSlot ==
  ASSUME SparkInv, NEW s \in Slots, thread[s] \notin Serving
  PROVE  /\ current[s] = None /\ activeChannel[s] = None
         /\ \A q \in Reqs : gCancelMap[q] # s
<1>1. current[s] = None
  BY DEF SparkInv, ClaimInv
<1>2. activeChannel[s] = None
  BY <1>1 DEF SparkInv, RouteInv
<1>3. \A q \in Reqs : gCancelMap[q] # s
  BY SlotsAreSlots DEF SparkInv, RouteInv
<1> QED BY <1>1, <1>2, <1>3

(* Its request has no answer yet before the end of processRequest. *)
LEMMA UnansweredYet ==
  ASSUME SparkInv, NEW s \in Slots, thread[s] \in Unanswered
  PROVE  answers[current[s]] = << >>
<1>1. current[s] \in Reqs /\ mIdToSlot[current[s]] = s /\ s # None
  BY ServedRequest DEF Serving
<1> QED BY <1>1 DEF SparkInv, AnswerInv, InHands

-----------------------------------------------------------------------------
(* Every action keeps the types.                                             *)
LEMMA TypeKept == SparkInv /\ Next => TypeOK'
<1> SUFFICES ASSUME SparkInv, Next PROVE TypeOK'
  OBVIOUS
<1>0. /\ \A s \in Slots, event \in Events :
           thread[s] \in Unanswered /\ Answer(current[s], event) =>
             answers' \in [Reqs -> Seq(Events)]
      /\ \A r \in Reqs : ~Sent(r) /\ Answer(r, "pool_saturated") =>
           answers' \in [Reqs -> Seq(Events)]
  BY UnansweredYet, ServedRequest, FirstAnswer DEF SparkInv, Serving, Sent, Events
<1> USE SparkConstants DEF SparkInv, MainInv, TypeOK, Slots, Labels, slotVars,
        chanVars, history, Goto
<1>1. ASSUME NEW r \in Reqs, readRequest(r) PROVE TypeOK'
  <2>1. ASSUME NEW s \in FreeSlots, inUse' = [inUse EXCEPT ![s] = TRUE],
               mIdToSlot' = [mIdToSlot EXCEPT ![r] = s],
               main' = [at |-> "push", slot |-> s, req |-> r], UNCHANGED answers
        PROVE  TypeOK'
    BY <1>1, <2>1 DEF readRequest, FreeSlots
  <2>2. ASSUME Answer(r, "pool_saturated"), UNCHANGED <<inUse, mIdToSlot, main>>
        PROVE  TypeOK'
    BY <1>1, <1>0, <2>2 DEF readRequest, Events
  <2> QED BY <1>1, <2>1, <2>2 DEF readRequest
<1>2. ASSUME NEW r \in Reqs, readCancel(r) PROVE TypeOK'
  BY <1>2 DEF readCancel, Reading
<1>3. ASSUME eof PROVE TypeOK'
  BY <1>3 DEF eof, Reading
<1>4. ASSUME pushQueue PROVE TypeOK'
  <2>1. main.slot \in Slots /\ main.req \in Reqs /\ queue[main.slot] \in Seq(Reqs)
    BY <1>4 DEF pushQueue
  <2>2. queue' \in [Slots -> Seq(Reqs)]
    BY <1>4, <2>1, QueueFacts DEF pushQueue
  <2> QED BY <1>4, <2>1, <2>2 DEF pushQueue
<1>5. ASSUME notifyOne PROVE TypeOK'
  BY <1>5 DEF notifyOne, Wake, Reading
<1>6. ASSUME tripChannel PROVE TypeOK'
  BY <1>6 DEF tripChannel, Reading
<1>7. ASSUME setShutdown PROVE TypeOK'
  BY <1>7 DEF setShutdown
<1>8. ASSUME notifyAll PROVE TypeOK'
  <2>1. main.slot \in Slots /\ (main.slot # MaxSlots => main.slot + 1 \in Slots)
    BY <1>8 DEF notifyAll
  <2>2. thread' \in [Slots -> Labels]
    BY <1>8, <2>1 DEF notifyAll, Wake
  <2> QED BY <1>8, <2>1, <2>2 DEF notifyAll, Reading
<1>9. ASSUME joinThreads PROVE TypeOK'
  BY <1>9 DEF joinThreads, Reading
<1>10. ASSUME NEW s \in Slots, checkQueue(s) PROVE TypeOK'
  <2>1. queue[s] \in Seq(Reqs)
    OBVIOUS
  <2>2. CASE queue[s] # << >>
    <3>1. Head(queue[s]) \in Reqs /\ Tail(queue[s]) \in Seq(Reqs)
      BY <2>1, <2>2
    <3>2. /\ current' = [current EXCEPT ![s] = Head(queue[s])]
          /\ queue' = [queue EXCEPT ![s] = Tail(queue[s])]
          /\ thread' = [thread EXCEPT ![s] = "open"]
      BY <1>10, <2>2 DEF checkQueue
    <3> QED BY <1>10, <3>1, <3>2 DEF checkQueue
  <2>3. CASE queue[s] = << >>
    BY <1>10, <2>3 DEF checkQueue
  <2> QED BY <2>2, <2>3
<1>11. ASSUME NEW s \in Slots, block(s) PROVE TypeOK'
  BY <1>11 DEF block
<1>12. ASSUME NEW s \in Slots, openChannel(s) PROVE TypeOK'
  BY <1>12 DEF openChannel
<1>13. ASSUME NEW s \in Slots, registerCancel(s) PROVE TypeOK'
  BY <1>13 DEF registerCancel
<1>14. ASSUME NEW s \in Slots, prepare(s) PROVE TypeOK'
  <2>1. current[s] \in Reqs
    BY <1>14 DEF prepare, ClaimInv, Serving, Unanswered, Answering
  <2>2. thread' \in [Slots -> Labels]
    <3>1. \E l \in {"catch", "consume"} : thread' = [thread EXCEPT ![s] = l]
      BY <1>14 DEF prepare
    <3> QED BY <3>1
  <2>3. decode' \in [Reqs -> {"none", "running", "ended", "failed", "refused"}]
    BY <1>14 DEF prepare
  <2> QED BY <1>14, <2>2, <2>3 DEF prepare
<1>15. ASSUME NEW s \in Slots, consume(s) PROVE TypeOK'
  BY <1>15 DEF consume
<1>16. ASSUME NEW s \in Slots, vocoderFails(s) PROVE TypeOK'
  BY <1>16 DEF vocoderFails
<1>17. ASSUME NEW s \in Slots, joinDecode(s) PROVE TypeOK'
  BY <1>17 DEF joinDecode, Joinable
<1>18. ASSUME NEW s \in Slots, decide(s) PROVE TypeOK'
  <2>1. thread[s] \in Unanswered /\ current[s] \in Reqs
    BY <1>18 DEF decide, ClaimInv, Serving, Unanswered
  <2>2. \E l \in Labels : thread' = [thread EXCEPT ![s] = l]
    BY <1>18 DEF decide
  <2>3. answers' = answers \/ \E event \in Events : Answer(current[s], event)
    BY <1>18 DEF decide, Events
  <2>4. answers' \in [Reqs -> Seq(Events)]
    BY <1>0, <2>1, <2>3 DEF Events
  <2> QED BY <1>18, <2>2, <2>4 DEF decide, Events
<1>19. ASSUME NEW s \in Slots, flush(s) PROVE TypeOK'
  <2>1. thread[s] \in Unanswered /\ current[s] \in Reqs
    BY <1>19 DEF flush, ClaimInv, Serving, Unanswered
  <2>2. \E l \in Labels : thread' = [thread EXCEPT ![s] = l]
    BY <1>19 DEF flush
  <2>3. answers' = answers \/ \E event \in Events : Answer(current[s], event)
    BY <1>19 DEF flush, Events
  <2>4. answers' \in [Reqs -> Seq(Events)]
    BY <1>0, <2>1, <2>3 DEF Events
  <2> QED BY <1>19, <2>2, <2>4 DEF flush, Events
<1>20. ASSUME NEW s \in Slots, catchCancel(s) PROVE TypeOK'
  BY <1>20 DEF catchCancel
<1>21. ASSUME NEW s \in Slots, catchJoin(s) PROVE TypeOK'
  <2>1. thread[s] \in Unanswered /\ current[s] \in Reqs
    BY <1>21 DEF catchJoin, ClaimInv, Serving, Unanswered
  <2>2. \E l \in Labels : thread' = [thread EXCEPT ![s] = l]
    BY <1>21 DEF catchJoin
  <2>3. answers' = answers \/ \E event \in Events : Answer(current[s], event)
    BY <1>21 DEF catchJoin, Events
  <2>4. answers' \in [Reqs -> Seq(Events)]
    BY <1>0, <2>1, <2>3 DEF Events
  <2> QED BY <1>21, <2>2, <2>4 DEF catchJoin, Events
<1>22. ASSUME NEW s \in Slots, unregisterCancel(s) PROVE TypeOK'
  BY <1>22 DEF unregisterCancel
<1>23. ASSUME NEW s \in Slots, resetChannel(s) PROVE TypeOK'
  BY <1>23 DEF resetChannel
<1>24. ASSUME NEW s \in Slots, freeSlot(s) PROVE TypeOK'
  BY <1>24 DEF freeSlot
<1>25. ASSUME NEW r \in Reqs, decodeEnds(r) PROVE TypeOK'
  BY <1>25 DEF decodeEnds
<1>26. ASSUME NEW r \in Reqs, decodeFails(r) PROVE TypeOK'
  BY <1>26 DEF decodeFails
<1>27. ASSUME NEW r \in Reqs, decodeRefuses(r) PROVE TypeOK'
  BY <1>27 DEF decodeRefuses
<1> HIDE DEF SparkInv, MainInv, TypeOK, Slots, Labels
<1> QED
  BY <1>1, <1>2, <1>3, <1>4, <1>5, <1>6, <1>7, <1>8, <1>9, <1>10, <1>11, <1>12,
     <1>13, <1>14, <1>15, <1>16, <1>17, <1>18, <1>19, <1>20, <1>21, <1>22, <1>23,
     <1>24, <1>25, <1>26, <1>27 DEF Next, MainThread, SlotThread, Decode

(* readCancel takes the channel of the id it names, so what tripChannel later *)
(* trips has been asked for.                                                 *)
LEMMA MainKept == SparkInv /\ Next => MainInv'
<1> SUFFICES ASSUME SparkInv, Next PROVE MainInv'
  OBVIOUS
<1> USE SparkConstants DEF SparkInv, MainInv, TypeOK, RouteInv, BoundInv, Slots,
        slotVars, chanVars, history, Goto
<1>1. ASSUME NEW r \in Reqs, readRequest(r) PROVE MainInv'
  <2>1. main' = Reading \/ \E s \in Slots : main' = [at |-> "push", slot |-> s, req |-> r]
    BY <1>1 DEF readRequest, FreeSlots
  <2> QED BY <1>1, <2>1 DEF readRequest, Reading
<1>2. ASSUME NEW r \in Reqs, readCancel(r) PROVE MainInv'
  BY <1>2 DEF readCancel, Reading
<1>3. ASSUME eof PROVE MainInv'
  BY <1>3 DEF eof, Reading
<1>4. ASSUME pushQueue PROVE MainInv'
  BY <1>4 DEF pushQueue
<1>5. ASSUME notifyOne PROVE MainInv'
  BY <1>5 DEF notifyOne, Wake, Reading
<1>6. ASSUME tripChannel PROVE MainInv'
  BY <1>6 DEF tripChannel, Reading
<1>7. ASSUME setShutdown PROVE MainInv'
  BY <1>7 DEF setShutdown
<1>8. ASSUME notifyAll PROVE MainInv'
  BY <1>8 DEF notifyAll, Wake, Reading
<1>9. ASSUME joinThreads PROVE MainInv'
  BY <1>9 DEF joinThreads, Reading
<1>10. ASSUME NEW s \in Slots, checkQueue(s) PROVE MainInv'
  BY <1>10 DEF checkQueue
<1>11. ASSUME NEW s \in Slots, block(s) PROVE MainInv'
  BY <1>11 DEF block
<1>12. ASSUME NEW s \in Slots, openChannel(s) PROVE MainInv'
  BY <1>12 DEF openChannel
<1>13. ASSUME NEW s \in Slots, registerCancel(s) PROVE MainInv'
  BY <1>13 DEF registerCancel
<1>14. ASSUME NEW s \in Slots, prepare(s) PROVE MainInv'
  BY <1>14 DEF prepare
<1>15. ASSUME NEW s \in Slots, consume(s) PROVE MainInv'
  BY <1>15 DEF consume
<1>16. ASSUME NEW s \in Slots, vocoderFails(s) PROVE MainInv'
  BY <1>16 DEF vocoderFails
<1>17. ASSUME NEW s \in Slots, joinDecode(s) PROVE MainInv'
  BY <1>17 DEF joinDecode, Joinable
<1>18. ASSUME NEW s \in Slots, decide(s) PROVE MainInv'
  BY <1>18 DEF decide, Answer
<1>19. ASSUME NEW s \in Slots, flush(s) PROVE MainInv'
  BY <1>19 DEF flush, Answer
<1>20. ASSUME NEW s \in Slots, catchCancel(s) PROVE MainInv'
  BY <1>20 DEF catchCancel
<1>21. ASSUME NEW s \in Slots, catchJoin(s) PROVE MainInv'
  BY <1>21 DEF catchJoin, Answer, Joinable
<1>22. ASSUME NEW s \in Slots, unregisterCancel(s) PROVE MainInv'
  BY <1>22 DEF unregisterCancel
<1>23. ASSUME NEW s \in Slots, resetChannel(s) PROVE MainInv'
  BY <1>23 DEF resetChannel
<1>24. ASSUME NEW s \in Slots, freeSlot(s) PROVE MainInv'
  BY <1>24 DEF freeSlot
<1>25. ASSUME NEW r \in Reqs, decodeEnds(r) PROVE MainInv'
  BY <1>25 DEF decodeEnds
<1>26. ASSUME NEW r \in Reqs, decodeFails(r) PROVE MainInv'
  BY <1>26 DEF decodeFails
<1>27. ASSUME NEW r \in Reqs, decodeRefuses(r) PROVE MainInv'
  BY <1>27 DEF decodeRefuses
<1> HIDE DEF SparkInv, MainInv, TypeOK, RouteInv, BoundInv, Slots
<1> QED
  BY <1>1, <1>2, <1>3, <1>4, <1>5, <1>6, <1>7, <1>8, <1>9, <1>10, <1>11, <1>12,
     <1>13, <1>14, <1>15, <1>16, <1>17, <1>18, <1>19, <1>20, <1>21, <1>22, <1>23,
     <1>24, <1>25, <1>26, <1>27 DEF Next, MainThread, SlotThread, Decode

(* A slot is claimed for one request and freed by the thread that served it. *)
LEMMA ClaimKept == SparkInv /\ Next => ClaimInv'
<1> SUFFICES ASSUME SparkInv, Next PROVE ClaimInv'
  OBVIOUS
<1> USE SparkConstants DEF SparkInv, MainInv, ClaimInv, TypeOK, Serving,
        Unanswered, Answering, slotVars, chanVars, history, Goto
<1>1. ASSUME NEW r \in Reqs, readRequest(r) PROVE ClaimInv'
  BY <1>1 DEF readRequest, Answer, FreeSlots, Sent, Reading
<1>2. ASSUME NEW r \in Reqs, readCancel(r) PROVE ClaimInv'
  BY <1>2 DEF readCancel, Reading
<1>3. ASSUME eof PROVE ClaimInv'
  BY <1>3 DEF eof, Reading
<1>4. ASSUME pushQueue PROVE ClaimInv'
  <2>1. main.slot \in Slots /\ main.req \in Reqs /\ queue[main.slot] = << >>
    BY <1>4 DEF pushQueue
  <2>2. /\ Append(queue[main.slot], main.req) # << >>
        /\ Len(Append(queue[main.slot], main.req)) = 1
    BY <2>1, QueueFacts
  <2> QED BY <1>4, <2>1, <2>2 DEF pushQueue
<1>5. ASSUME notifyOne PROVE ClaimInv'
  BY <1>5 DEF notifyOne, Wake, Reading
<1>6. ASSUME tripChannel PROVE ClaimInv'
  BY <1>6 DEF tripChannel, Reading
<1>7. ASSUME setShutdown PROVE ClaimInv'
  BY <1>7 DEF setShutdown
<1>8. ASSUME notifyAll PROVE ClaimInv'
  BY <1>8 DEF notifyAll, Wake, Reading
<1>9. ASSUME joinThreads PROVE ClaimInv'
  BY <1>9 DEF joinThreads, Reading
<1>10. ASSUME NEW s \in Slots, checkQueue(s) PROVE ClaimInv'
  BY <1>10 DEF checkQueue
<1>11. ASSUME NEW s \in Slots, block(s) PROVE ClaimInv'
  BY <1>11 DEF block
<1>12. ASSUME NEW s \in Slots, openChannel(s) PROVE ClaimInv'
  BY <1>12 DEF openChannel
<1>13. ASSUME NEW s \in Slots, registerCancel(s) PROVE ClaimInv'
  BY <1>13 DEF registerCancel
<1>14. ASSUME NEW s \in Slots, prepare(s) PROVE ClaimInv'
  BY <1>14 DEF prepare
<1>15. ASSUME NEW s \in Slots, consume(s) PROVE ClaimInv'
  BY <1>15 DEF consume
<1>16. ASSUME NEW s \in Slots, vocoderFails(s) PROVE ClaimInv'
  BY <1>16 DEF vocoderFails
<1>17. ASSUME NEW s \in Slots, joinDecode(s) PROVE ClaimInv'
  BY <1>17 DEF joinDecode, Joinable
<1>18. ASSUME NEW s \in Slots, decide(s) PROVE ClaimInv'
  BY <1>18 DEF decide, Answer
<1>19. ASSUME NEW s \in Slots, flush(s) PROVE ClaimInv'
  BY <1>19 DEF flush, Answer
<1>20. ASSUME NEW s \in Slots, catchCancel(s) PROVE ClaimInv'
  BY <1>20 DEF catchCancel
<1>21. ASSUME NEW s \in Slots, catchJoin(s) PROVE ClaimInv'
  BY <1>21 DEF catchJoin, Answer, Joinable
<1>22. ASSUME NEW s \in Slots, unregisterCancel(s) PROVE ClaimInv'
  BY <1>22 DEF unregisterCancel
<1>23. ASSUME NEW s \in Slots, resetChannel(s) PROVE ClaimInv'
  BY <1>23 DEF resetChannel
<1>24. ASSUME NEW s \in Slots, freeSlot(s) PROVE ClaimInv'
  BY <1>24 DEF freeSlot
<1>25. ASSUME NEW r \in Reqs, decodeEnds(r) PROVE ClaimInv'
  BY <1>25 DEF decodeEnds
<1>26. ASSUME NEW r \in Reqs, decodeFails(r) PROVE ClaimInv'
  BY <1>26 DEF decodeFails
<1>27. ASSUME NEW r \in Reqs, decodeRefuses(r) PROVE ClaimInv'
  BY <1>27 DEF decodeRefuses
<1> HIDE DEF SparkInv, MainInv, ClaimInv, TypeOK, Serving, Unanswered, Answering
<1> QED
  BY <1>1, <1>2, <1>3, <1>4, <1>5, <1>6, <1>7, <1>8, <1>9, <1>10, <1>11, <1>12,
     <1>13, <1>14, <1>15, <1>16, <1>17, <1>18, <1>19, <1>20, <1>21, <1>22, <1>23,
     <1>24, <1>25, <1>26, <1>27 DEF Next, MainThread, SlotThread, Decode

(* The handoff takes a request to the slot it was bound to.                  *)
LEMMA BoundKept == SparkInv /\ Next => BoundInv'
<1> SUFFICES ASSUME SparkInv, Next PROVE BoundInv'
  OBVIOUS
<1> USE SparkConstants DEF SparkInv, MainInv, ClaimInv, BoundInv, TypeOK, Serving,
        Unanswered, Answering, slotVars, chanVars, history, Goto
<1>1. ASSUME NEW r \in Reqs, readRequest(r) PROVE BoundInv'
  <2>1. CASE mIdToSlot' = mIdToSlot /\ main' = main
    BY <1>1, <2>1 DEF readRequest
  <2>2. ASSUME NEW s \in Slots, main' = [at |-> "push", slot |-> s, req |-> r],
               mIdToSlot' = [mIdToSlot EXCEPT ![r] = s]
        PROVE  BoundInv'
    <3>1. mIdToSlot[r] = None
      BY <1>1 DEF readRequest, Sent
    <3>2. \A t \in Slots : queue[t] # << >> => Head(queue[t]) \in Reqs \ {r}
      BY <3>1, QueueFacts, SlotsAreSlots
    <3>3. \A t \in Slots : current[t] # None => current[t] \in Reqs \ {r}
      BY <3>1, SlotsAreSlots
    <3> QED BY <1>1, <2>2, <3>2, <3>3 DEF readRequest
  <2> QED BY <1>1, <2>1, <2>2 DEF readRequest, FreeSlots
<1>2. ASSUME NEW r \in Reqs, readCancel(r) PROVE BoundInv'
  BY <1>2 DEF readCancel, Reading
<1>3. ASSUME eof PROVE BoundInv'
  BY <1>3 DEF eof, Reading
<1>4. ASSUME pushQueue PROVE BoundInv'
  BY <1>4 DEF pushQueue
<1>5. ASSUME notifyOne PROVE BoundInv'
  BY <1>5 DEF notifyOne, Wake, Reading
<1>6. ASSUME tripChannel PROVE BoundInv'
  BY <1>6 DEF tripChannel, Reading
<1>7. ASSUME setShutdown PROVE BoundInv'
  BY <1>7 DEF setShutdown
<1>8. ASSUME notifyAll PROVE BoundInv'
  BY <1>8 DEF notifyAll, Wake, Reading
<1>9. ASSUME joinThreads PROVE BoundInv'
  BY <1>9 DEF joinThreads, Reading
<1>10. ASSUME NEW s \in Slots, checkQueue(s) PROVE BoundInv'
  <2>1. CASE queue[s] # << >>
    <3>1. /\ current' = [current EXCEPT ![s] = Head(queue[s])]
          /\ queue' = [queue EXCEPT ![s] = Tail(queue[s])]
      BY <1>10, <2>1 DEF checkQueue
    <3>2. Tail(queue[s]) = << >>
      BY <2>1, QueueFacts
    <3> QED BY <1>10, <2>1, <3>1, <3>2 DEF checkQueue
  <2>2. CASE queue[s] = << >>
    BY <1>10, <2>2 DEF checkQueue
  <2> QED BY <2>1, <2>2
<1>11. ASSUME NEW s \in Slots, block(s) PROVE BoundInv'
  BY <1>11 DEF block
<1>12. ASSUME NEW s \in Slots, openChannel(s) PROVE BoundInv'
  BY <1>12 DEF openChannel
<1>13. ASSUME NEW s \in Slots, registerCancel(s) PROVE BoundInv'
  BY <1>13 DEF registerCancel
<1>14. ASSUME NEW s \in Slots, prepare(s) PROVE BoundInv'
  BY <1>14 DEF prepare
<1>15. ASSUME NEW s \in Slots, consume(s) PROVE BoundInv'
  BY <1>15 DEF consume
<1>16. ASSUME NEW s \in Slots, vocoderFails(s) PROVE BoundInv'
  BY <1>16 DEF vocoderFails
<1>17. ASSUME NEW s \in Slots, joinDecode(s) PROVE BoundInv'
  BY <1>17 DEF joinDecode, Joinable
<1>18. ASSUME NEW s \in Slots, decide(s) PROVE BoundInv'
  BY <1>18 DEF decide, Answer
<1>19. ASSUME NEW s \in Slots, flush(s) PROVE BoundInv'
  BY <1>19 DEF flush, Answer
<1>20. ASSUME NEW s \in Slots, catchCancel(s) PROVE BoundInv'
  BY <1>20 DEF catchCancel
<1>21. ASSUME NEW s \in Slots, catchJoin(s) PROVE BoundInv'
  BY <1>21 DEF catchJoin, Answer, Joinable
<1>22. ASSUME NEW s \in Slots, unregisterCancel(s) PROVE BoundInv'
  BY <1>22 DEF unregisterCancel
<1>23. ASSUME NEW s \in Slots, resetChannel(s) PROVE BoundInv'
  BY <1>23 DEF resetChannel
<1>24. ASSUME NEW s \in Slots, freeSlot(s) PROVE BoundInv'
  BY <1>24 DEF freeSlot
<1>25. ASSUME NEW r \in Reqs, decodeEnds(r) PROVE BoundInv'
  BY <1>25 DEF decodeEnds
<1>26. ASSUME NEW r \in Reqs, decodeFails(r) PROVE BoundInv'
  BY <1>26 DEF decodeFails
<1>27. ASSUME NEW r \in Reqs, decodeRefuses(r) PROVE BoundInv'
  BY <1>27 DEF decodeRefuses
<1> HIDE DEF SparkInv, MainInv, ClaimInv, BoundInv, TypeOK, Serving, Unanswered,
         Answering
<1> QED
  BY <1>1, <1>2, <1>3, <1>4, <1>5, <1>6, <1>7, <1>8, <1>9, <1>10, <1>11, <1>12,
     <1>13, <1>14, <1>15, <1>16, <1>17, <1>18, <1>19, <1>20, <1>21, <1>22, <1>23,
     <1>24, <1>25, <1>26, <1>27 DEF Next, MainThread, SlotThread, Decode

(* Each way through processRequest writes one terminal event.                *)
LEMMA AnswerKept == SparkInv /\ Next => AnswerInv'
<1> SUFFICES ASSUME SparkInv, Next PROVE AnswerInv'
  OBVIOUS
<1>0. ASSUME NEW r \in Reqs, answers[r] = << >>, NEW event \in Events, Answer(r, event)
      PROVE  /\ Len(answers'[r]) = 1 /\ \A i \in DOMAIN answers'[r] : answers'[r][i] = event
             /\ \A q \in Reqs \ {r} : answers'[q] = answers[q]
  BY <1>0, FirstAnswer DEF SparkInv
<1> USE SparkConstants DEF SparkInv, MainInv, ClaimInv, BoundInv, AnswerInv,
        InHands, TypeOK, Serving, Unanswered, Answering, slotVars, chanVars,
        history, Goto
<1>1. ASSUME NEW r \in Reqs, readRequest(r) PROVE AnswerInv'
  <2>1. mIdToSlot[r] = None /\ answers[r] = << >> /\ main.at = "read"
    BY <1>1 DEF readRequest, Sent, Reading
  <2>2. CASE Answer(r, "pool_saturated") /\ mIdToSlot' = mIdToSlot /\ main' = main
    <3>1. Len(answers'[r]) = 1 /\ \A q \in Reqs \ {r} : answers'[q] = answers[q]
      BY <1>0, <2>1, <2>2 DEF Events
    <3>2. \A q \in Reqs : InHands(q)' = InHands(q)
      BY <1>1, <2>2 DEF readRequest
    <3>3. ASSUME NEW q \in Reqs, mIdToSlot[q] # None PROVE answers'[q] = answers[q]
      BY <2>1, <3>1, <3>3
    <3>4. ASSUME NEW q \in Reqs, mIdToSlot[q] = None PROVE Len(answers'[q]) \in {0, 1}
      BY <3>1, <3>4
    <3> HIDE DEF InHands, TypeOK, MainInv, ClaimInv, BoundInv
    <3> QED BY <2>2, <3>2, <3>3, <3>4
  <2>3. ASSUME NEW s \in Slots, main' = [at |-> "push", slot |-> s, req |-> r],
               mIdToSlot' = [mIdToSlot EXCEPT ![r] = s], answers' = answers
        PROVE  AnswerInv'
    BY <1>1, <2>1, <2>3 DEF readRequest
  <2> QED BY <1>1, <2>2, <2>3 DEF readRequest, FreeSlots
<1>2. ASSUME NEW r \in Reqs, readCancel(r) PROVE AnswerInv'
  BY <1>2 DEF readCancel, Reading
<1>3. ASSUME eof PROVE AnswerInv'
  BY <1>3 DEF eof, Reading
<1>4. ASSUME pushQueue PROVE AnswerInv'
  <2> DEFINE t == main.slot  q == main.req
  <2>1. t \in Slots /\ q \in Reqs /\ queue[t] = << >> /\ current[t] = None /\ mIdToSlot[q] = t
    BY <1>4 DEF pushQueue
  <2>2. Append(queue[t], q) # << >> /\ Head(Append(queue[t], q)) = q
    BY <2>1, QueueFacts
  <2>3. /\ queue'[t] # << >> /\ Head(queue'[t]) = q
        /\ \A u \in Slots \ {t} : queue'[u] = queue[u]
    BY <1>4, <2>1, <2>2 DEF pushQueue
  <2>4. /\ main.at = "push" /\ main'.at = "notify" /\ current' = current /\ thread' = thread
        /\ mIdToSlot' = mIdToSlot /\ answers' = answers
    BY <1>4 DEF pushQueue
  <2> HIDE DEF t, q
  <2>5. ASSUME NEW p \in Reqs, mIdToSlot[p] # None PROVE InHands(p)' <=> InHands(p)
    <3>1. CASE p = q
      BY <2>1, <2>3, <2>4, <3>1 DEF t, q
    <3>2. CASE p # q /\ mIdToSlot[p] = t
      BY <2>1, <2>3, <2>4, <3>2 DEF t, q
    <3>3. CASE p # q /\ mIdToSlot[p] # t
      BY <2>3, <2>4, <2>5, <3>3 DEF q
    <3> QED BY <3>1, <3>2, <3>3
  <2> QED BY <2>4, <2>5
<1>5. ASSUME notifyOne PROVE AnswerInv'
  BY <1>5 DEF notifyOne, Wake, Reading
<1>6. ASSUME tripChannel PROVE AnswerInv'
  BY <1>6 DEF tripChannel, Reading
<1>7. ASSUME setShutdown PROVE AnswerInv'
  BY <1>7 DEF setShutdown
<1>8. ASSUME notifyAll PROVE AnswerInv'
  BY <1>8 DEF notifyAll, Wake, Reading
<1>9. ASSUME joinThreads PROVE AnswerInv'
  BY <1>9 DEF joinThreads, Reading
<1>10. ASSUME NEW s \in Slots, checkQueue(s) PROVE AnswerInv'
  BY <1>10 DEF checkQueue
<1>11. ASSUME NEW s \in Slots, block(s) PROVE AnswerInv'
  BY <1>11 DEF block
<1>12. ASSUME NEW s \in Slots, openChannel(s) PROVE AnswerInv'
  BY <1>12 DEF openChannel
<1>13. ASSUME NEW s \in Slots, registerCancel(s) PROVE AnswerInv'
  BY <1>13 DEF registerCancel
<1>14. ASSUME NEW s \in Slots, prepare(s) PROVE AnswerInv'
  <2>1. \A q \in Reqs : mIdToSlot[q] # None => (InHands(q)' <=> InHands(q))
    <3>1. \E l \in {"catch", "consume"} : thread' = [thread EXCEPT ![s] = l]
      BY <1>14 DEF prepare
    <3> QED BY <1>14, <3>1 DEF prepare
  <2>2. answers' = answers /\ mIdToSlot' = mIdToSlot
    BY <1>14 DEF prepare
  <2> HIDE DEF InHands, TypeOK, MainInv, ClaimInv, BoundInv
  <2> QED BY <2>1, <2>2
<1>15. ASSUME NEW s \in Slots, consume(s) PROVE AnswerInv'
  BY <1>15 DEF consume
<1>16. ASSUME NEW s \in Slots, vocoderFails(s) PROVE AnswerInv'
  BY <1>16 DEF vocoderFails
<1>17. ASSUME NEW s \in Slots, joinDecode(s) PROVE AnswerInv'
  BY <1>17 DEF joinDecode, Joinable
<1>18. ASSUME NEW s \in Slots, decide(s) PROVE AnswerInv'
  <2>1. thread[s] \in Unanswered /\ current[s] \in Reqs
        /\ mIdToSlot[current[s]] = s /\ s # None
        /\ queue[s] = << >> /\ ~(main.at = "push" /\ main.req = current[s])
    BY <1>18, ServedRequest DEF decide
  <2>2. ASSUME answers' = answers, Goto(s, "flush")
        PROVE  AnswerInv'
    <3>1. \A q \in Reqs : mIdToSlot[q] # None => (InHands(q)' <=> InHands(q))
      BY <1>18, <2>1, <2>2 DEF decide
    <3> QED BY <1>18, <2>2, <3>1 DEF decide
  <2>3. ASSUME NEW event \in Events, Answer(current[s], event), Goto(s, "unregister")
        PROVE  AnswerInv'
    <3>1. answers[current[s]] = << >>
      BY <2>1, UnansweredYet
    <3>2. Len(answers'[current[s]]) = 1
          /\ \A q \in Reqs \ {current[s]} : answers'[q] = answers[q]
      BY <2>1, <2>3, <3>1, <1>0
    <3>3. \A q \in Reqs : q = current[s] => ~InHands(q)'
      BY <1>18, <2>1, <2>3 DEF decide
    <3>4. \A q \in Reqs \ {current[s]} : mIdToSlot[q] # None => (InHands(q)' <=> InHands(q))
      BY <1>18, <2>1, <2>3 DEF decide
    <3>5. mIdToSlot' = mIdToSlot
      BY <1>18 DEF decide
    <3> HIDE DEF InHands, TypeOK, MainInv, ClaimInv, BoundInv
    <3> QED BY <2>1, <3>2, <3>3, <3>4, <3>5
  <2> QED BY <1>18, <2>2, <2>3 DEF decide, Events
<1>19. ASSUME NEW s \in Slots, flush(s) PROVE AnswerInv'
  <2>1. thread[s] \in Unanswered /\ current[s] \in Reqs
        /\ mIdToSlot[current[s]] = s /\ s # None
        /\ queue[s] = << >> /\ ~(main.at = "push" /\ main.req = current[s])
    BY <1>19, ServedRequest DEF flush
  <2>2. ASSUME answers' = answers, Goto(s, "catch")
        PROVE  AnswerInv'
    <3>1. \A q \in Reqs : mIdToSlot[q] # None => (InHands(q)' <=> InHands(q))
      BY <1>19, <2>1, <2>2 DEF flush
    <3> QED BY <1>19, <2>2, <3>1 DEF flush
  <2>3. ASSUME NEW event \in Events, Answer(current[s], event), Goto(s, "unregister")
        PROVE  AnswerInv'
    <3>1. answers[current[s]] = << >>
      BY <2>1, UnansweredYet
    <3>2. Len(answers'[current[s]]) = 1
          /\ \A q \in Reqs \ {current[s]} : answers'[q] = answers[q]
      BY <2>1, <2>3, <3>1, <1>0
    <3>3. \A q \in Reqs : q = current[s] => ~InHands(q)'
      BY <1>19, <2>1, <2>3 DEF flush
    <3>4. \A q \in Reqs \ {current[s]} : mIdToSlot[q] # None => (InHands(q)' <=> InHands(q))
      BY <1>19, <2>1, <2>3 DEF flush
    <3>5. mIdToSlot' = mIdToSlot
      BY <1>19 DEF flush
    <3> HIDE DEF InHands, TypeOK, MainInv, ClaimInv, BoundInv
    <3> QED BY <2>1, <3>2, <3>3, <3>4, <3>5
  <2> QED BY <1>19, <2>2, <2>3 DEF flush, Events
<1>20. ASSUME NEW s \in Slots, catchCancel(s) PROVE AnswerInv'
  BY <1>20 DEF catchCancel
<1>21. ASSUME NEW s \in Slots, catchJoin(s) PROVE AnswerInv'
  <2>1. thread[s] \in Unanswered /\ current[s] \in Reqs
        /\ mIdToSlot[current[s]] = s /\ s # None
        /\ queue[s] = << >> /\ ~(main.at = "push" /\ main.req = current[s])
    BY <1>21, ServedRequest DEF catchJoin
  <2>3. ASSUME NEW event \in Events, Answer(current[s], event), Goto(s, "unregister")
        PROVE  AnswerInv'
    <3>1. answers[current[s]] = << >>
      BY <2>1, UnansweredYet
    <3>2. Len(answers'[current[s]]) = 1
          /\ \A q \in Reqs \ {current[s]} : answers'[q] = answers[q]
      BY <2>1, <2>3, <3>1, <1>0
    <3>3. \A q \in Reqs : q = current[s] => ~InHands(q)'
      BY <1>21, <2>1, <2>3 DEF catchJoin
    <3>4. \A q \in Reqs \ {current[s]} : mIdToSlot[q] # None => (InHands(q)' <=> InHands(q))
      BY <1>21, <2>1, <2>3 DEF catchJoin
    <3>5. mIdToSlot' = mIdToSlot
      BY <1>21 DEF catchJoin
    <3> HIDE DEF InHands, TypeOK, MainInv, ClaimInv, BoundInv
    <3> QED BY <2>1, <3>2, <3>3, <3>4, <3>5
  <2> QED BY <1>21, <2>3 DEF catchJoin, Events
<1>22. ASSUME NEW s \in Slots, unregisterCancel(s) PROVE AnswerInv'
  BY <1>22 DEF unregisterCancel
<1>23. ASSUME NEW s \in Slots, resetChannel(s) PROVE AnswerInv'
  BY <1>23 DEF resetChannel
<1>24. ASSUME NEW s \in Slots, freeSlot(s) PROVE AnswerInv'
  BY <1>24 DEF freeSlot
<1>25. ASSUME NEW r \in Reqs, decodeEnds(r) PROVE AnswerInv'
  BY <1>25 DEF decodeEnds
<1>26. ASSUME NEW r \in Reqs, decodeFails(r) PROVE AnswerInv'
  BY <1>26 DEF decodeFails
<1>27. ASSUME NEW r \in Reqs, decodeRefuses(r) PROVE AnswerInv'
  BY <1>27 DEF decodeRefuses
<1> HIDE DEF SparkInv, MainInv, ClaimInv, BoundInv, AnswerInv, InHands, TypeOK,
         Serving, Unanswered, Answering
<1> QED
  BY <1>1, <1>2, <1>3, <1>4, <1>5, <1>6, <1>7, <1>8, <1>9, <1>10, <1>11, <1>12,
     <1>13, <1>14, <1>15, <1>16, <1>17, <1>18, <1>19, <1>20, <1>21, <1>22, <1>23,
     <1>24, <1>25, <1>26, <1>27 DEF Next, MainThread, SlotThread, Decode

(* The cancel map and the exposed channel follow the thread that serves the id. *)
LEMMA RouteKept == SparkInv /\ Next => RouteInv'
<1> SUFFICES ASSUME SparkInv, Next PROVE RouteInv'
  OBVIOUS
<1> USE SparkConstants DEF SparkInv, MainInv, ClaimInv, BoundInv, RouteInv,
        TypeOK, Serving, Unanswered, Answering, slotVars, chanVars, history, Goto
<1>1. ASSUME NEW r \in Reqs, readRequest(r) PROVE RouteInv'
  BY <1>1 DEF readRequest, Answer, FreeSlots, Sent, Reading
<1>2. ASSUME NEW r \in Reqs, readCancel(r) PROVE RouteInv'
  BY <1>2 DEF readCancel, Reading
<1>3. ASSUME eof PROVE RouteInv'
  BY <1>3 DEF eof, Reading
<1>4. ASSUME pushQueue PROVE RouteInv'
  BY <1>4 DEF pushQueue
<1>5. ASSUME notifyOne PROVE RouteInv'
  BY <1>5 DEF notifyOne, Wake, Reading
<1>6. ASSUME tripChannel PROVE RouteInv'
  BY <1>6 DEF tripChannel, Reading
<1>7. ASSUME setShutdown PROVE RouteInv'
  BY <1>7 DEF setShutdown
<1>8. ASSUME notifyAll PROVE RouteInv'
  <2>1. /\ main.slot \in Slots
        /\ thread' = [thread EXCEPT ![main.slot] =
                        IF thread[main.slot] = "blocked" THEN "waiting" ELSE thread[main.slot]]
    BY <1>8 DEF notifyAll, Wake
  <2>2. \A t \in Slots : thread'[t] # thread[t] =>
          thread[t] = "blocked" /\ thread'[t] = "waiting"
    <3>1. thread \in [Slots -> Labels]
      OBVIOUS
    <3> HIDE DEF TypeOK, MainInv, ClaimInv, BoundInv, RouteInv
    <3> QED BY <2>1, <3>1
  <2>3. current' = current /\ activeChannel' = activeChannel /\ gCancelMap' = gCancelMap
    BY <1>8 DEF notifyAll
  <2>4. gCancelMap \in [Reqs -> Slots \cup {None}]
    OBVIOUS
  <2> HIDE DEF TypeOK, MainInv, ClaimInv, BoundInv
  <2> QED BY <2>2, <2>3, <2>4
<1>9. ASSUME joinThreads PROVE RouteInv'
  BY <1>9 DEF joinThreads, Reading
<1>10. ASSUME NEW s \in Slots, checkQueue(s) PROVE RouteInv'
  <2>1. current[s] = None /\ activeChannel[s] = None /\ \A q \in Reqs : gCancelMap[q] # s
    BY <1>10, IdleSlot DEF checkQueue
  <2>2. /\ \A t \in Slots \ {s} : current'[t] = current[t] /\ thread'[t] = thread[t]
        /\ activeChannel' = activeChannel /\ gCancelMap' = gCancelMap
    BY <1>10 DEF checkQueue
  <2> QED BY <2>1, <2>2
<1>11. ASSUME NEW s \in Slots, block(s) PROVE RouteInv'
  BY <1>11 DEF block
<1>12. ASSUME NEW s \in Slots, openChannel(s) PROVE RouteInv'
  BY <1>12 DEF openChannel
<1>13. ASSUME NEW s \in Slots, registerCancel(s) PROVE RouteInv'
  BY <1>13 DEF registerCancel
<1>14. ASSUME NEW s \in Slots, prepare(s) PROVE RouteInv'
  <2>1. \E l \in {"catch", "consume"} : thread' = [thread EXCEPT ![s] = l]
    BY <1>14 DEF prepare
  <2>2. thread'[s] \in {"catch", "consume"} /\ \A t \in Slots \ {s} : thread'[t] = thread[t]
    BY <2>1
  <2>3. /\ thread[s] = "prepare" /\ current' = current
        /\ activeChannel' = activeChannel /\ gCancelMap' = gCancelMap
    BY <1>14 DEF prepare
  <2>4. gCancelMap \in [Reqs -> Slots \cup {None}]
    OBVIOUS
  <2> HIDE DEF TypeOK, MainInv, ClaimInv, BoundInv
  <2> QED BY <2>2, <2>3, <2>4
<1>15. ASSUME NEW s \in Slots, consume(s) PROVE RouteInv'
  BY <1>15 DEF consume
<1>16. ASSUME NEW s \in Slots, vocoderFails(s) PROVE RouteInv'
  BY <1>16 DEF vocoderFails
<1>17. ASSUME NEW s \in Slots, joinDecode(s) PROVE RouteInv'
  BY <1>17 DEF joinDecode, Joinable
<1>18. ASSUME NEW s \in Slots, decide(s) PROVE RouteInv'
  <2>1. \E l \in {"unregister", "flush"} : thread' = [thread EXCEPT ![s] = l]
    BY <1>18 DEF decide
  <2>2. thread'[s] \in {"unregister", "flush"} /\ \A t \in Slots \ {s} : thread'[t] = thread[t]
    BY <2>1
  <2>3. /\ thread[s] = "decide" /\ current' = current
        /\ activeChannel' = activeChannel /\ gCancelMap' = gCancelMap
    BY <1>18 DEF decide
  <2>4. gCancelMap \in [Reqs -> Slots \cup {None}]
    OBVIOUS
  <2> HIDE DEF TypeOK, MainInv, ClaimInv, BoundInv
  <2> QED BY <2>2, <2>3, <2>4
<1>19. ASSUME NEW s \in Slots, flush(s) PROVE RouteInv'
  <2>1. \E l \in {"unregister", "catch"} : thread' = [thread EXCEPT ![s] = l]
    BY <1>19 DEF flush
  <2>2. thread'[s] \in {"unregister", "catch"} /\ \A t \in Slots \ {s} : thread'[t] = thread[t]
    BY <2>1
  <2>3. /\ thread[s] = "flush" /\ current' = current
        /\ activeChannel' = activeChannel /\ gCancelMap' = gCancelMap
    BY <1>19 DEF flush
  <2>4. gCancelMap \in [Reqs -> Slots \cup {None}]
    OBVIOUS
  <2> HIDE DEF TypeOK, MainInv, ClaimInv, BoundInv
  <2> QED BY <2>2, <2>3, <2>4
<1>20. ASSUME NEW s \in Slots, catchCancel(s) PROVE RouteInv'
  BY <1>20 DEF catchCancel
<1>21. ASSUME NEW s \in Slots, catchJoin(s) PROVE RouteInv'
  BY <1>21 DEF catchJoin, Answer, Joinable
<1>22. ASSUME NEW s \in Slots, unregisterCancel(s) PROVE RouteInv'
  BY <1>22 DEF unregisterCancel
<1>23. ASSUME NEW s \in Slots, resetChannel(s) PROVE RouteInv'
  BY <1>23 DEF resetChannel
<1>24. ASSUME NEW s \in Slots, freeSlot(s) PROVE RouteInv'
  <2>1. activeChannel[s] = None /\ \A q \in Reqs : gCancelMap[q] # s
    BY <1>24, SlotsAreSlots DEF freeSlot
  <2>2. \A t \in Slots \ {s} : current'[t] = current[t] /\ thread'[t] = thread[t]
    BY <1>24 DEF freeSlot
  <2> QED BY <1>24, <2>1, <2>2 DEF freeSlot
<1>25. ASSUME NEW r \in Reqs, decodeEnds(r) PROVE RouteInv'
  BY <1>25 DEF decodeEnds
<1>26. ASSUME NEW r \in Reqs, decodeFails(r) PROVE RouteInv'
  BY <1>26 DEF decodeFails
<1>27. ASSUME NEW r \in Reqs, decodeRefuses(r) PROVE RouteInv'
  BY <1>27 DEF decodeRefuses
<1> HIDE DEF SparkInv, MainInv, ClaimInv, BoundInv, RouteInv, TypeOK, Serving,
         Unanswered, Answering
<1> QED
  BY <1>1, <1>2, <1>3, <1>4, <1>5, <1>6, <1>7, <1>8, <1>9, <1>10, <1>11, <1>12,
     <1>13, <1>14, <1>15, <1>16, <1>17, <1>18, <1>19, <1>20, <1>21, <1>22, <1>23,
     <1>24, <1>25, <1>26, <1>27 DEF Next, MainThread, SlotThread, Decode

(* Only a failed decode, a cancel line and the catch arm cancel a channel.   *)
LEMMA ChannelKept == SparkInv /\ Next => ChannelInv'
<1> SUFFICES ASSUME SparkInv, Next PROVE ChannelInv'
  OBVIOUS
<1> USE SparkConstants DEF SparkInv, MainInv, ClaimInv, BoundInv, ChannelInv,
        TypeOK, Serving, Unanswered, Answering, slotVars, chanVars, history, Goto
<1>1. ASSUME NEW r \in Reqs, readRequest(r) PROVE ChannelInv'
  <2>1. /\ mIdToSlot[r] = None
        /\ \A q \in Reqs \ {r} : mIdToSlot'[q] = mIdToSlot[q]
    BY <1>1 DEF readRequest, Answer, FreeSlots, Sent, Reading
  <2>2. /\ cancelled' = cancelled /\ decode' = decode /\ asked' = asked
        /\ thread' = thread /\ current' = current
    BY <1>1 DEF readRequest
  <2>3. decode[r] = "none" /\ (cancelled[r] => r \in asked)
    BY <2>1
  <2> HIDE DEF TypeOK, MainInv, ClaimInv, BoundInv, SparkInv
  <2>4. ASSUME NEW q \in Reqs \ {r}
        PROVE  mIdToSlot'[q] = mIdToSlot[q]
    BY <2>1
  <2>5. ChannelInv
    BY DEF SparkInv
  <2> QED BY <2>2, <2>3, <2>4, <2>5
<1>2. ASSUME NEW r \in Reqs, readCancel(r) PROVE ChannelInv'
  BY <1>2 DEF readCancel, Reading
<1>3. ASSUME eof PROVE ChannelInv'
  BY <1>3 DEF eof, Reading
<1>4. ASSUME pushQueue PROVE ChannelInv'
  BY <1>4 DEF pushQueue
<1>5. ASSUME notifyOne PROVE ChannelInv'
  BY <1>5 DEF notifyOne, Wake, Reading
<1>6. ASSUME tripChannel PROVE ChannelInv'
  BY <1>6 DEF tripChannel, Reading
<1>7. ASSUME setShutdown PROVE ChannelInv'
  BY <1>7 DEF setShutdown
<1>8. ASSUME notifyAll PROVE ChannelInv'
  BY <1>8 DEF notifyAll, Wake, Reading
<1>9. ASSUME joinThreads PROVE ChannelInv'
  BY <1>9 DEF joinThreads, Reading
<1>10. ASSUME NEW s \in Slots, checkQueue(s) PROVE ChannelInv'
  <2>1. current[s] = None /\ thread[s] \notin Serving
    BY <1>10 DEF checkQueue
  <2>2. \A t \in Slots \ {s} : current'[t] = current[t] /\ thread'[t] = thread[t]
    BY <1>10 DEF checkQueue
  <2>3. \A q \in Reqs : mIdToSlot[q] = s => current[mIdToSlot[q]] # q
    BY <2>1
  <2>4. mIdToSlot' = mIdToSlot /\ decode' = decode /\ cancelled' = cancelled /\ asked' = asked
    BY <1>10 DEF checkQueue
  <2>5. ChannelInv /\ \A q \in Reqs : mIdToSlot[q] \in Slots \cup {None}
    BY DEF SparkInv
  <2> HIDE DEF TypeOK, MainInv, ClaimInv, BoundInv, SparkInv
  <2> QED BY <2>2, <2>3, <2>4, <2>5
<1>11. ASSUME NEW s \in Slots, block(s) PROVE ChannelInv'
  BY <1>11 DEF block
<1>12. ASSUME NEW s \in Slots, openChannel(s) PROVE ChannelInv'
  BY <1>12 DEF openChannel
<1>13. ASSUME NEW s \in Slots, registerCancel(s) PROVE ChannelInv'
  BY <1>13 DEF registerCancel
<1>14. ASSUME NEW s \in Slots, prepare(s) PROVE ChannelInv'
  <2>1. current[s] \in Reqs /\ mIdToSlot[current[s]] = s /\ s # None
    BY <1>14, ServedRequest DEF prepare
  <2>2. thread'[s] \in {"catch", "consume"} /\ \A t \in Slots \ {s} : thread'[t] = thread[t]
    BY <1>14 DEF prepare
  <2>3. \A q \in Reqs : decode'[q] = decode[q] \/ q = current[s]
    BY <1>14, <2>1 DEF prepare
  <2>4. decode[current[s]] = "none"
    BY <1>14, <2>1 DEF prepare
  <2>5. cancelled' = cancelled /\ asked' = asked
        /\ current' = current /\ mIdToSlot' = mIdToSlot
    BY <1>14 DEF prepare
  <2> QED BY <1>14, <2>1, <2>2, <2>3, <2>4, <2>5 DEF prepare
<1>15. ASSUME NEW s \in Slots, consume(s) PROVE ChannelInv'
  BY <1>15 DEF consume
<1>16. ASSUME NEW s \in Slots, vocoderFails(s) PROVE ChannelInv'
  BY <1>16 DEF vocoderFails
<1>17. ASSUME NEW s \in Slots, joinDecode(s) PROVE ChannelInv'
  BY <1>17 DEF joinDecode, Joinable
<1>18. ASSUME NEW s \in Slots, decide(s) PROVE ChannelInv'
  BY <1>18 DEF decide, Answer
<1>19. ASSUME NEW s \in Slots, flush(s) PROVE ChannelInv'
  BY <1>19 DEF flush, Answer
<1>20. ASSUME NEW s \in Slots, catchCancel(s) PROVE ChannelInv'
  <2>1. current[s] \in Reqs /\ mIdToSlot[current[s]] = s /\ s # None
    BY <1>20, ServedRequest DEF catchCancel
  <2> QED BY <1>20, <2>1 DEF catchCancel
<1>21. ASSUME NEW s \in Slots, catchJoin(s) PROVE ChannelInv'
  BY <1>21 DEF catchJoin, Answer, Joinable
<1>22. ASSUME NEW s \in Slots, unregisterCancel(s) PROVE ChannelInv'
  BY <1>22 DEF unregisterCancel
<1>23. ASSUME NEW s \in Slots, resetChannel(s) PROVE ChannelInv'
  BY <1>23 DEF resetChannel
<1>24. ASSUME NEW s \in Slots, freeSlot(s) PROVE ChannelInv'
  BY <1>24 DEF freeSlot
<1>25. ASSUME NEW r \in Reqs, decodeEnds(r) PROVE ChannelInv'
  BY <1>25 DEF decodeEnds
<1>26. ASSUME NEW r \in Reqs, decodeFails(r) PROVE ChannelInv'
  BY <1>26 DEF decodeFails
<1>27. ASSUME NEW r \in Reqs, decodeRefuses(r) PROVE ChannelInv'
  BY <1>27 DEF decodeRefuses
<1> HIDE DEF SparkInv, MainInv, ClaimInv, BoundInv, ChannelInv, TypeOK, Serving,
         Unanswered, Answering
<1> QED
  BY <1>1, <1>2, <1>3, <1>4, <1>5, <1>6, <1>7, <1>8, <1>9, <1>10, <1>11, <1>12,
     <1>13, <1>14, <1>15, <1>16, <1>17, <1>18, <1>19, <1>20, <1>21, <1>22, <1>23,
     <1>24, <1>25, <1>26, <1>27 DEF Next, MainThread, SlotThread, Decode

(* A channel is tripped for the id a cancel line named.                      *)
LEMMA TrippedKept == SparkInv /\ Next => CancelHitsItsOwn'
<1> SUFFICES ASSUME SparkInv, Next PROVE CancelHitsItsOwn'
  OBVIOUS
<1> USE SparkConstants DEF SparkInv, MainInv, TypeOK, CancelHitsItsOwn, slotVars,
        chanVars, history, Goto
<1>1. ASSUME NEW r \in Reqs, readRequest(r) PROVE CancelHitsItsOwn'
  BY <1>1 DEF readRequest, Answer, FreeSlots, Sent, Reading
<1>2. ASSUME NEW r \in Reqs, readCancel(r) PROVE CancelHitsItsOwn'
  BY <1>2 DEF readCancel, Reading
<1>3. ASSUME eof PROVE CancelHitsItsOwn'
  BY <1>3 DEF eof, Reading
<1>4. ASSUME pushQueue PROVE CancelHitsItsOwn'
  BY <1>4 DEF pushQueue
<1>5. ASSUME notifyOne PROVE CancelHitsItsOwn'
  BY <1>5 DEF notifyOne, Wake, Reading
<1>6. ASSUME tripChannel PROVE CancelHitsItsOwn'
  BY <1>6 DEF tripChannel, Reading
<1>7. ASSUME setShutdown PROVE CancelHitsItsOwn'
  BY <1>7 DEF setShutdown
<1>8. ASSUME notifyAll PROVE CancelHitsItsOwn'
  BY <1>8 DEF notifyAll, Wake, Reading
<1>9. ASSUME joinThreads PROVE CancelHitsItsOwn'
  BY <1>9 DEF joinThreads, Reading
<1>10. ASSUME NEW s \in Slots, checkQueue(s) PROVE CancelHitsItsOwn'
  BY <1>10 DEF checkQueue
<1>11. ASSUME NEW s \in Slots, block(s) PROVE CancelHitsItsOwn'
  BY <1>11 DEF block
<1>12. ASSUME NEW s \in Slots, openChannel(s) PROVE CancelHitsItsOwn'
  BY <1>12 DEF openChannel
<1>13. ASSUME NEW s \in Slots, registerCancel(s) PROVE CancelHitsItsOwn'
  BY <1>13 DEF registerCancel
<1>14. ASSUME NEW s \in Slots, prepare(s) PROVE CancelHitsItsOwn'
  BY <1>14 DEF prepare
<1>15. ASSUME NEW s \in Slots, consume(s) PROVE CancelHitsItsOwn'
  BY <1>15 DEF consume
<1>16. ASSUME NEW s \in Slots, vocoderFails(s) PROVE CancelHitsItsOwn'
  BY <1>16 DEF vocoderFails
<1>17. ASSUME NEW s \in Slots, joinDecode(s) PROVE CancelHitsItsOwn'
  BY <1>17 DEF joinDecode, Joinable
<1>18. ASSUME NEW s \in Slots, decide(s) PROVE CancelHitsItsOwn'
  BY <1>18 DEF decide, Answer
<1>19. ASSUME NEW s \in Slots, flush(s) PROVE CancelHitsItsOwn'
  BY <1>19 DEF flush, Answer
<1>20. ASSUME NEW s \in Slots, catchCancel(s) PROVE CancelHitsItsOwn'
  BY <1>20 DEF catchCancel
<1>21. ASSUME NEW s \in Slots, catchJoin(s) PROVE CancelHitsItsOwn'
  BY <1>21 DEF catchJoin, Answer, Joinable
<1>22. ASSUME NEW s \in Slots, unregisterCancel(s) PROVE CancelHitsItsOwn'
  BY <1>22 DEF unregisterCancel
<1>23. ASSUME NEW s \in Slots, resetChannel(s) PROVE CancelHitsItsOwn'
  BY <1>23 DEF resetChannel
<1>24. ASSUME NEW s \in Slots, freeSlot(s) PROVE CancelHitsItsOwn'
  BY <1>24 DEF freeSlot
<1>25. ASSUME NEW r \in Reqs, decodeEnds(r) PROVE CancelHitsItsOwn'
  BY <1>25 DEF decodeEnds
<1>26. ASSUME NEW r \in Reqs, decodeFails(r) PROVE CancelHitsItsOwn'
  BY <1>26 DEF decodeFails
<1>27. ASSUME NEW r \in Reqs, decodeRefuses(r) PROVE CancelHitsItsOwn'
  BY <1>27 DEF decodeRefuses
<1> HIDE DEF SparkInv, MainInv, TypeOK, CancelHitsItsOwn
<1> QED
  BY <1>1, <1>2, <1>3, <1>4, <1>5, <1>6, <1>7, <1>8, <1>9, <1>10, <1>11, <1>12,
     <1>13, <1>14, <1>15, <1>16, <1>17, <1>18, <1>19, <1>20, <1>21, <1>22, <1>23,
     <1>24, <1>25, <1>26, <1>27 DEF Next, MainThread, SlotThread, Decode

(* cancelled is answered only from decide, and there the decode has not failed. *)
LEMMA AskedKept == SparkInv /\ Next => AskedInv'
<1> SUFFICES ASSUME SparkInv, Next PROVE AskedInv'
  OBVIOUS
<1>0. ASSUME NEW r \in Reqs, answers[r] = << >>, NEW event \in Events, Answer(r, event)
      PROVE  /\ Len(answers'[r]) = 1 /\ \A i \in DOMAIN answers'[r] : answers'[r][i] = event
             /\ \A q \in Reqs \ {r} : answers'[q] = answers[q]
  BY <1>0, FirstAnswer DEF SparkInv
<1> USE SparkConstants DEF SparkInv, MainInv, ClaimInv, ChannelInv, TypeOK,
        AskedInv, Serving, Unanswered, Answering, slotVars, chanVars, history,
        Goto
<1>1. ASSUME NEW r \in Reqs, readRequest(r) PROVE AskedInv'
  <2>1. CASE answers' = answers
    BY <1>1, <2>1 DEF readRequest
  <2>2. CASE Answer(r, "pool_saturated")
    <3>1. /\ \A i \in DOMAIN answers'[r] : answers'[r][i] = "pool_saturated"
          /\ \A q \in Reqs \ {r} : answers'[q] = answers[q]
      BY <1>1, <1>0, <2>2 DEF readRequest, Sent, Events
    <3>2. asked' = asked
      BY <1>1 DEF readRequest
    <3> HIDE DEF TypeOK, MainInv, ClaimInv, ChannelInv
    <3> QED BY <3>1, <3>2
  <2> QED BY <1>1, <2>1, <2>2 DEF readRequest
<1>2. ASSUME NEW r \in Reqs, readCancel(r) PROVE AskedInv'
  BY <1>2 DEF readCancel, Reading
<1>3. ASSUME eof PROVE AskedInv'
  BY <1>3 DEF eof, Reading
<1>4. ASSUME pushQueue PROVE AskedInv'
  BY <1>4 DEF pushQueue
<1>5. ASSUME notifyOne PROVE AskedInv'
  BY <1>5 DEF notifyOne, Wake, Reading
<1>6. ASSUME tripChannel PROVE AskedInv'
  BY <1>6 DEF tripChannel, Reading
<1>7. ASSUME setShutdown PROVE AskedInv'
  BY <1>7 DEF setShutdown
<1>8. ASSUME notifyAll PROVE AskedInv'
  BY <1>8 DEF notifyAll, Wake, Reading
<1>9. ASSUME joinThreads PROVE AskedInv'
  BY <1>9 DEF joinThreads, Reading
<1>10. ASSUME NEW s \in Slots, checkQueue(s) PROVE AskedInv'
  BY <1>10 DEF checkQueue
<1>11. ASSUME NEW s \in Slots, block(s) PROVE AskedInv'
  BY <1>11 DEF block
<1>12. ASSUME NEW s \in Slots, openChannel(s) PROVE AskedInv'
  BY <1>12 DEF openChannel
<1>13. ASSUME NEW s \in Slots, registerCancel(s) PROVE AskedInv'
  BY <1>13 DEF registerCancel
<1>14. ASSUME NEW s \in Slots, prepare(s) PROVE AskedInv'
  BY <1>14 DEF prepare
<1>15. ASSUME NEW s \in Slots, consume(s) PROVE AskedInv'
  BY <1>15 DEF consume
<1>16. ASSUME NEW s \in Slots, vocoderFails(s) PROVE AskedInv'
  BY <1>16 DEF vocoderFails
<1>17. ASSUME NEW s \in Slots, joinDecode(s) PROVE AskedInv'
  BY <1>17 DEF joinDecode, Joinable
<1>18. ASSUME NEW s \in Slots, decide(s) PROVE AskedInv'
  <2>1. current[s] \in Reqs /\ answers[current[s]] = << >> /\ asked' = asked
    BY <1>18, ServedRequest, UnansweredYet DEF decide
  <2>2. CASE answers' = answers
    BY <2>1, <2>2
  <2>3. ASSUME NEW event \in Events, Answer(current[s], event),
               event = "cancelled" => current[s] \in asked
        PROVE  AskedInv'
    <3>1. /\ \A i \in DOMAIN answers'[current[s]] : answers'[current[s]][i] = event
          /\ \A q \in Reqs \ {current[s]} : answers'[q] = answers[q]
      BY <1>0, <2>1, <2>3
    <3> HIDE DEF TypeOK, MainInv, ClaimInv, ChannelInv
    <3> QED BY <2>1, <2>3, <3>1
  <2>4. \/ answers' = answers
        \/ \E event \in Events :
             Answer(current[s], event) /\ (event = "cancelled" => current[s] \in asked)
    <3>1. mIdToSlot[current[s]] = s /\ thread[s] = "decide"
      BY <1>18, ServedRequest DEF decide
    <3>2. decode[current[s]] = "failed" \/ ~cancelled[current[s]] \/ current[s] \in asked
      BY <2>1, <3>1
    <3> HIDE DEF TypeOK, MainInv, ClaimInv, ChannelInv, AskedInv
    <3> QED BY <1>18, <3>2 DEF decide, Events
  <2> HIDE DEF AskedInv, TypeOK, MainInv, ClaimInv, ChannelInv, SparkInv
  <2> QED BY <2>2, <2>3, <2>4
<1>19. ASSUME NEW s \in Slots, flush(s) PROVE AskedInv'
  <2>1. current[s] \in Reqs /\ answers[current[s]] = << >> /\ asked' = asked
    BY <1>19, ServedRequest, UnansweredYet DEF flush
  <2>2. CASE answers' = answers
    BY <2>1, <2>2
  <2>3. ASSUME NEW event \in Events, Answer(current[s], event),
               event = "cancelled" => current[s] \in asked
        PROVE  AskedInv'
    <3>1. /\ \A i \in DOMAIN answers'[current[s]] : answers'[current[s]][i] = event
          /\ \A q \in Reqs \ {current[s]} : answers'[q] = answers[q]
      BY <1>0, <2>1, <2>3
    <3> HIDE DEF TypeOK, MainInv, ClaimInv, ChannelInv
    <3> QED BY <2>1, <2>3, <3>1
  <2>4. \/ answers' = answers
        \/ \E event \in Events :
             Answer(current[s], event) /\ (event = "cancelled" => current[s] \in asked)
    BY <1>19, <2>1 DEF flush, Events
  <2> HIDE DEF AskedInv, TypeOK, MainInv, ClaimInv, ChannelInv, SparkInv
  <2> QED BY <2>2, <2>3, <2>4
<1>20. ASSUME NEW s \in Slots, catchCancel(s) PROVE AskedInv'
  BY <1>20 DEF catchCancel
<1>21. ASSUME NEW s \in Slots, catchJoin(s) PROVE AskedInv'
  <2>1. current[s] \in Reqs /\ answers[current[s]] = << >> /\ asked' = asked
    BY <1>21, ServedRequest, UnansweredYet DEF catchJoin
  <2>2. CASE answers' = answers
    BY <2>1, <2>2
  <2>3. ASSUME NEW event \in Events, Answer(current[s], event),
               event = "cancelled" => current[s] \in asked
        PROVE  AskedInv'
    <3>1. /\ \A i \in DOMAIN answers'[current[s]] : answers'[current[s]][i] = event
          /\ \A q \in Reqs \ {current[s]} : answers'[q] = answers[q]
      BY <1>0, <2>1, <2>3
    <3> HIDE DEF TypeOK, MainInv, ClaimInv, ChannelInv
    <3> QED BY <2>1, <2>3, <3>1
  <2>4. \/ answers' = answers
        \/ \E event \in Events :
             Answer(current[s], event) /\ (event = "cancelled" => current[s] \in asked)
    BY <1>21, <2>1 DEF catchJoin, Events
  <2> HIDE DEF AskedInv, TypeOK, MainInv, ClaimInv, ChannelInv, SparkInv
  <2> QED BY <2>2, <2>3, <2>4
<1>22. ASSUME NEW s \in Slots, unregisterCancel(s) PROVE AskedInv'
  BY <1>22 DEF unregisterCancel
<1>23. ASSUME NEW s \in Slots, resetChannel(s) PROVE AskedInv'
  BY <1>23 DEF resetChannel
<1>24. ASSUME NEW s \in Slots, freeSlot(s) PROVE AskedInv'
  BY <1>24 DEF freeSlot
<1>25. ASSUME NEW r \in Reqs, decodeEnds(r) PROVE AskedInv'
  BY <1>25 DEF decodeEnds
<1>26. ASSUME NEW r \in Reqs, decodeFails(r) PROVE AskedInv'
  BY <1>26 DEF decodeFails
<1>27. ASSUME NEW r \in Reqs, decodeRefuses(r) PROVE AskedInv'
  BY <1>27 DEF decodeRefuses
<1> HIDE DEF SparkInv, MainInv, ClaimInv, ChannelInv, TypeOK, AskedInv, Serving,
         Unanswered, Answering
<1> QED
  BY <1>1, <1>2, <1>3, <1>4, <1>5, <1>6, <1>7, <1>8, <1>9, <1>10, <1>11, <1>12,
     <1>13, <1>14, <1>15, <1>16, <1>17, <1>18, <1>19, <1>20, <1>21, <1>22, <1>23,
     <1>24, <1>25, <1>26, <1>27 DEF Next, MainThread, SlotThread, Decode

-----------------------------------------------------------------------------
(* The worker starts with every slot free and nothing answered. *)
LEMMA SparkStarts == Init => SparkInv
<1> SUFFICES ASSUME Init PROVE SparkInv
  OBVIOUS
<1> USE SparkConstants DEF Init, Reading
<1>1. TypeOK /\ MainInv
  BY DEF TypeOK, MainInv, Labels
<1>2. ClaimInv /\ BoundInv
  BY DEF ClaimInv, BoundInv, Serving, Unanswered, Answering
<1>3. AnswerInv /\ RouteInv /\ ChannelInv
  BY DEF AnswerInv, InHands, RouteInv, ChannelInv
<1>4. CancelHitsItsOwn /\ AskedInv
  BY DEF CancelHitsItsOwn, AskedInv
<1> QED BY <1>1, <1>2, <1>3, <1>4 DEF SparkInv

(* A step that changes nothing keeps everything. *)
LEMMA SparkStutters == SparkInv /\ UNCHANGED vars => SparkInv'
<1> SUFFICES ASSUME SparkInv, UNCHANGED vars PROVE SparkInv'
  OBVIOUS
<1> USE DEF vars, slotVars, chanVars, history
<1>1. TypeOK'
  BY DEF SparkInv, TypeOK
<1>2. MainInv' /\ ClaimInv' /\ BoundInv'
  BY DEF SparkInv, MainInv, ClaimInv, BoundInv
<1>3. AnswerInv' /\ RouteInv' /\ ChannelInv'
  BY DEF SparkInv, AnswerInv, InHands, RouteInv, ChannelInv
<1>4. CancelHitsItsOwn' /\ AskedInv'
  BY DEF SparkInv, CancelHitsItsOwn, AskedInv
<1> QED BY <1>1, <1>2, <1>3, <1>4 DEF SparkInv

(* The inductive invariant of the worker. *)
THEOREM SparkInvariant == Spec => []SparkInv
<1>1. SparkInv /\ [Next]_vars => SparkInv'
  BY TypeKept, MainKept, ClaimKept, BoundKept, AnswerKept, RouteKept, ChannelKept,
     TrippedKept, AskedKept, SparkStutters DEF SparkInv
<1> QED BY <1>1, SparkStarts, PTL DEF Spec

(* Every variable keeps its type, whatever the interleaving. *)
THEOREM SparkTypeCorrect == Spec => []TypeOK
<1>1. SparkInv => TypeOK
  BY DEF SparkInv
<1> QED BY <1>1, SparkInvariant, PTL

(* The one request of a claimed slot, wherever it is on its way. *)
LEMMA CustodyOfSlot ==
  ASSUME SparkInv, NEW s \in Slots
  PROVE  /\ inUse[s] => \E r \in Reqs : Custody(s) = {r}
         /\ ~inUse[s] => Custody(s) = {}
<1> USE DEF SparkInv
<1>1. queue[s] \in Seq(Reqs) /\ current[s] \in Reqs \cup {None} /\ None \notin Reqs
  BY SparkConstants DEF TypeOK
<1>2. queue[s] # << >> => queue[s][1] \in Reqs /\ DOMAIN queue[s] = {1}
  BY <1>1 DEF ClaimInv
<1>3. queue[s] = << >> => DOMAIN queue[s] = {}
  OBVIOUS
<1>4. CASE ~inUse[s]
  BY <1>1, <1>3, <1>4 DEF ClaimInv, Custody
<1>5. CASE inUse[s] /\ main.at = "push" /\ main.slot = s
  <2>1. queue[s] = << >> /\ current[s] = None /\ main.req \in Reqs
    BY <1>5 DEF ClaimInv, MainInv
  <2>2. Custody(s) = {main.req}
    BY <1>1, <1>3, <1>5, <2>1 DEF Custody
  <2> QED BY <1>5, <2>1, <2>2
<1>6. CASE inUse[s] /\ ~(main.at = "push" /\ main.slot = s) /\ queue[s] # << >>
  <2>1. current[s] = None
    BY <1>6 DEF ClaimInv
  <2>2. Custody(s) = {queue[s][1]}
    BY <1>1, <1>2, <1>6, <2>1 DEF Custody
  <2> QED BY <1>2, <1>6, <2>2
<1>7. CASE inUse[s] /\ ~(main.at = "push" /\ main.slot = s) /\ queue[s] = << >>
  <2>1. current[s] \in Reqs
    BY <1>1, <1>7 DEF ClaimInv
  <2>2. Custody(s) = {current[s]}
    BY <1>3, <1>7, <2>1 DEF Custody
  <2> QED BY <1>7, <2>1, <2>2
<1> QED BY <1>4, <1>5, <1>6, <1>7

(* SlotPool: a claimed slot has exactly one request, a free slot none. *)
THEOREM SlotCustodyHolds == Spec => []SlotCustody
<1>1. ASSUME SparkInv, NEW s \in Slots
      PROVE  Cardinality(Custody(s)) = IF inUse[s] THEN 1 ELSE 0
  <2>1. CASE inUse[s]
    <3>1. PICK r \in Reqs : Custody(s) = {r}
      BY <1>1, <2>1, CustodyOfSlot
    <3> QED BY <2>1, <3>1, FS_Singleton
  <2>2. CASE ~inUse[s]
    BY <1>1, <2>2, CustodyOfSlot, FS_EmptySet
  <2> QED BY <2>1, <2>2
<1>2. SparkInv => SlotCustody
  BY <1>1 DEF SlotCustody
<1> QED BY <1>2, SparkInvariant, PTL

(* processRequest: a request is answered at most once, and once when no slot *)
(* has it any more.                                                          *)
THEOREM OneTerminalHolds == Spec => []OneTerminal
<1>1. ASSUME SparkInv, NEW r \in Reqs
      PROVE  /\ Len(answers[r]) <= 1
             /\ mIdToSlot[r] # None /\ (\A s \in Slots : r \notin Custody(s))
                  => Len(answers[r]) = 1
  <2>1. Len(answers[r]) \in {0, 1}
    <3>1. answers[r] = << >> => Len(answers[r]) = 0
      OBVIOUS
    <3> QED BY <1>1, <3>1 DEF SparkInv, AnswerInv
  <2>2. ASSUME mIdToSlot[r] # None, \A s \in Slots : r \notin Custody(s)
        PROVE  Len(answers[r]) = 1
    <3>1. mIdToSlot[r] \in Slots
      BY <1>1, <2>2 DEF SparkInv, TypeOK
    <3> DEFINE t == mIdToSlot[r]
    <3>2. ~(main.at = "push" /\ main.req = r)
      BY <1>1, <2>2, <3>1 DEF SparkInv, BoundInv, Custody
    <3>3. ~(queue[t] # << >> /\ Head(queue[t]) = r)
      <4>1. queue[t] \in Seq(Reqs)
        BY <1>1, <3>1 DEF SparkInv, TypeOK
      <4>2. queue[t] # << >> => 1 \in DOMAIN queue[t] /\ Head(queue[t]) = queue[t][1]
        BY <4>1
      <4> QED BY <2>2, <3>1, <4>2 DEF Custody
    <3>4. current[t] # r
      BY <2>2, <3>1 DEF Custody
    <3>5. ~InHands(r)
      BY <3>2, <3>3, <3>4 DEF InHands
    <3> QED BY <1>1, <2>2, <3>5 DEF SparkInv, AnswerInv
  <2>3. \A n \in {0, 1} : n <= 1
    OBVIOUS
  <2> QED BY <2>1, <2>2, <2>3
<1>2. SparkInv => OneTerminal
  BY <1>1 DEF OneTerminal
<1> QED BY <1>2, SparkInvariant, PTL

(* tripCancel: only a request that a cancel line named is tripped. *)
THEOREM CancelHitsItsOwnHolds == Spec => []CancelHitsItsOwn
<1>1. SparkInv => CancelHitsItsOwn
  BY DEF SparkInv
<1> QED BY <1>1, SparkInvariant, PTL

(* A decode error or the catch arm, which cancel the channel themselves, are *)
(* never reported as a cancel nobody asked for.                              *)
THEOREM CancelledOnlyIfAskedHolds == Spec => []CancelledOnlyIfAsked
<1>1. SparkInv => CancelledOnlyIfAsked
  BY DEF SparkInv, AskedInv, CancelledOnlyIfAsked
<1> QED BY <1>1, SparkInvariant, PTL
=============================================================================
