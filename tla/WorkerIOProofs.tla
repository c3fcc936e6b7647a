--------------------------- MODULE WorkerIOProofs ---------------------------
(***************************************************************************)
(* Machine-checked proofs about the WorkerIO multiplexer, for any number of *)
(* requests, tokens and executor threads, with task cancellation, reader   *)
(* crashes and worker deaths allowed.                                      *)
(***************************************************************************)
EXTENDS WorkerIO, FiniteSetTheorems, SequenceTheorems, TLAPS

(* The executor's queue names each request once, and only requests that wait *)
(* for a thread: a job that starts belongs to a coroutine that awaits it.    *)
Queued == {"acqQueued", "getQueued"}
JobsInv ==
  /\ \A i \in DOMAIN jobs : pc[jobs[i]] \in Queued
  /\ \A i, j \in DOMAIN jobs : jobs[i] = jobs[j] => i = j

(* The end of a request is announced: by close(), which still has its queue  *)
(* to wake, in its queue, or in the reader's hand.                           *)
Woken(r) ==
  \/ r \in snapshot
  \/ \E i \in DOMAIN queue[r] : Ends(queue[r][i])
  \/ carry # << >> /\ carry[1].to = r /\ Ends(carry[1].event)

(* A registered request stays in the map until it is woken.  After the       *)
(* snapshot of close(), or when the reader has seen the end of the worker,   *)
(* no request that has written its line is only in the map: one that         *)
(* registers later meets the second check of _closed, or a dead worker.      *)
Written == {"getQueued", "getting", "yielded"}
WakeInv ==
  /\ closed <=> closer # "idle"
  /\ closer \in {"idle", "flagged"} => snapshot = {}
  /\ reader = "exited" => ~alive
  /\ \A r \in Reqs : pc[r] \in {"write"} \cup Written => r \in inflight \/ Woken(r)
  /\ closer \in {"waking", "closed"} \/ reader = "exited" =>
       \A r \in Reqs : pc[r] \in Written => Woken(r)

(* Events other than errors carry the id of the request they are about, so   *)
(* the reader holds them for that request.                                   *)
Stream == {"partial", "done", "cancelled"}
RouteInv ==
  /\ \A i \in DOMAIN stdout : stdout[i].ev \in Stream => stdout[i].rid = stdout[i].about
  /\ carry # << >> /\ carry[1].event.ev \in Stream => carry[1].event.about = carry[1].to
  /\ StreamsApart

(* TokensConserved, by the requests that hold a token. *)
Holders == {r \in Reqs : pc[r] \in Holding}
TokenInv == sem + Cardinality(Holders) = Concurrency

(* TypeOK bounds the free tokens, which only their conservation explains. *)
IOInv == TypeOK /\ JobsInv /\ TokenInv /\ WakeInv /\ RouteInv

-----------------------------------------------------------------------------
(* What the pieces of the actions do. *)

(* The holders can be counted. *)
LEMMA HoldersFinite == IsFiniteSet(Holders) /\ Cardinality(Holders) \in Nat
BY WorkerIOConstants, FS_Subset, FS_CardinalityType DEF Holders

(* A request that moves keeps, takes or gives back its own token. *)
LEMMA TokenKept ==
  ASSUME pc \in [Reqs -> PCs], TokenInv, NEW r \in Reqs, NEW label, Goto(r, label),
         pc[r] \in Holding <=> label \in Holding, sem' = sem
  PROVE  TokenInv'
<1>1. Holders' = Holders
  BY DEF Holders, Goto
<1> QED BY <1>1 DEF TokenInv

(* A request that takes a token leaves one fewer in the semaphore. *)
LEMMA TokenTaken ==
  ASSUME pc \in [Reqs -> PCs], sem \in 0 .. Concurrency, TokenInv, NEW r \in Reqs, NEW label,
         Goto(r, label), pc[r] \notin Holding, label \in Holding, sem' = sem - 1
  PROVE  TokenInv'
<1>1. Holders' = Holders \cup {r} /\ r \notin Holders
  BY DEF Holders, Goto
<1>2. Cardinality(Holders \cup {r}) = Cardinality(Holders) + 1
  BY <1>1, HoldersFinite, FS_AddElement
<1>3. Concurrency \in Nat /\ sem \in Nat /\ Cardinality(Holders) \in Nat
  BY HoldersFinite, WorkerIOConstants
<1> QED BY <1>1, <1>2, <1>3 DEF TokenInv

(* A request that gives its token back leaves one more. *)
LEMMA TokenBack ==
  ASSUME pc \in [Reqs -> PCs], sem \in 0 .. Concurrency, TokenInv, NEW r \in Reqs, NEW label,
         Goto(r, label), pc[r] \in Holding, label \notin Holding, sem' = sem + 1
  PROVE  TokenInv' /\ sem' \in 0 .. Concurrency
<1>1. Holders' = Holders \ {r} /\ r \in Holders
  BY DEF Holders, Goto
<1>2. /\ Cardinality(Holders \ {r}) = Cardinality(Holders) - 1
      /\ Cardinality(Holders) # 0
  BY <1>1, HoldersFinite, FS_RemoveElement, FS_EmptySet
<1>3. Concurrency \in Nat /\ sem \in Nat /\ Cardinality(Holders) \in Nat
  BY HoldersFinite, WorkerIOConstants
<1>4. sem' + Cardinality(Holders') = Concurrency
  BY <1>1, <1>2, <1>3 DEF TokenInv
<1>5. sem + 1 <= Concurrency
  BY <1>2, <1>3 DEF TokenInv
<1> QED BY <1>3, <1>4, <1>5 DEF TokenInv

(* What is left of a sequence without its k-th element. *)
LEMMA RemoveAtFacts ==
  ASSUME NEW s \in Seq(Async), NEW k \in 1 .. Len(s)
  PROVE  /\ RemoveAt(s, k) \in Seq(Async) /\ Len(RemoveAt(s, k)) = Len(s) - 1
         /\ \A i \in 1 .. Len(s) - 1 :
              RemoveAt(s, k)[i] = IF i < k THEN s[i] ELSE s[i + 1]
<1> DEFINE n == Len(s)  a == SubSeq(s, 1, k - 1)  b == SubSeq(s, k + 1, n)
<1>1. n \in Nat /\ k \in 1 .. n
  OBVIOUS
<1>2. a \in Seq(Async) /\ Len(a) = k - 1 /\ \A i \in 1 .. k - 1 : a[i] = s[i]
  BY <1>1
<1>3. b \in Seq(Async) /\ Len(b) = n - k
  <2>1. CASE k = n
    BY <1>1, <2>1
  <2>2. CASE k < n
    BY <1>1, <2>2
  <2> QED BY <1>1, <2>1, <2>2
<1>4. \A i \in 1 .. n - k : b[i] = s[k + i]
  <2> TAKE i \in 1 .. n - k
  <2>1. k + 1 \in 1 .. n + 1 /\ n - (k + 1) + 1 = n - k /\ (k + 1) + i - 1 = k + i
    BY <1>1
  <2> QED BY <1>1, <2>1
<1>5. RemoveAt(s, k) = a \o b
  BY DEF RemoveAt
<1> HIDE DEF a, b, n
<1>6. a \o b \in Seq(Async) /\ Len(a \o b) = n - 1
  <2>1. a \o b \in Seq(Async) /\ Len(a \o b) = Len(a) + Len(b)
    BY <1>2, <1>3, ConcatProperties
  <2> QED BY <1>1, <1>2, <1>3, <2>1
<1>7. ASSUME NEW i \in 1 .. n - 1
      PROVE  (a \o b)[i] = IF i < k THEN s[i] ELSE s[i + 1]
  <2>1. /\ i \in Int /\ k - 1 + (n - k) = n - 1 /\ (i <= k - 1 <=> i < k)
    BY <1>1
  <2>2. (a \o b)[i] = IF i <= Len(a) THEN a[i] ELSE b[i - Len(a)]
    BY <1>2, <1>3, <2>1, ConcatProperties
  <2>3. CASE i < k
    <3>1. i \in 1 .. k - 1 /\ i <= k - 1
      BY <1>1, <2>3
    <3>2. i <= Len(a)
      BY <1>2, <3>1
    <3> QED BY <1>2, <2>2, <2>3, <3>1, <3>2
  <2>4. CASE ~(i < k)
    <3>1. i - (k - 1) \in 1 .. n - k /\ k + (i - (k - 1)) = i + 1
      BY <1>1, <2>4
    <3>2. b[i - (k - 1)] = s[i + 1]
      BY <1>4, <3>1
    <3> QED BY <1>2, <2>1, <2>2, <2>4, <3>2
  <2> QED BY <2>3, <2>4
<1> QED BY <1>5, <1>6, <1>7 DEF n

(* The executor's queue: a job is added at the end, taken from the head, or  *)
(* dropped by a cancelled task.                                              *)
LEMMA Submitted ==
  ASSUME jobs \in Seq(Async), NEW r \in Async, Submit(r)
  PROVE  /\ jobs' \in Seq(Async)
         /\ DOMAIN jobs' = DOMAIN jobs \cup {Len(jobs) + 1} /\ Len(jobs) + 1 \notin DOMAIN jobs
         /\ jobs'[Len(jobs) + 1] = r /\ \A i \in DOMAIN jobs : jobs'[i] = jobs[i]
BY DEF Submit

(* The oldest job leaves the front of the executor's queue. *)
LEMMA JobStarted ==
  ASSUME jobs \in Seq(Async), jobs # << >>, jobs' = Tail(jobs)
  PROVE  /\ Head(jobs) \in Async /\ Head(jobs) = jobs[1] /\ 1 \in DOMAIN jobs
         /\ jobs' \in Seq(Async)
         /\ \A i \in DOMAIN jobs' : i + 1 \in DOMAIN jobs /\ jobs'[i] = jobs[i + 1] /\ i \in Nat \ {0}
OBVIOUS

(* A job that is cancelled before it started leaves the queue from the middle. *)
LEMMA JobDropped ==
  ASSUME jobs \in Seq(Async), NEW k \in DOMAIN jobs, jobs' = RemoveAt(jobs, k)
  PROVE  /\ jobs' \in Seq(Async)
         /\ \A i \in DOMAIN jobs' : \E j \in DOMAIN jobs \ {k} :
              jobs'[i] = jobs[j] /\ i = IF j < k THEN j ELSE j - 1
<1>1. k \in 1 .. Len(jobs) /\ Len(jobs) \in Nat
  OBVIOUS
<1>2. /\ jobs' \in Seq(Async) /\ Len(jobs') = Len(jobs) - 1
      /\ \A i \in 1 .. Len(jobs) - 1 :
           jobs'[i] = IF i < k THEN jobs[i] ELSE jobs[i + 1]
  BY <1>1, RemoveAtFacts
<1>3. ASSUME NEW i \in DOMAIN jobs'
      PROVE  \E j \in DOMAIN jobs \ {k} : jobs'[i] = jobs[j] /\ i = IF j < k THEN j ELSE j - 1
  <2>1. i \in 1 .. Len(jobs) - 1
    BY <1>2
  <2>2. CASE i < k
    <3>1. i \in DOMAIN jobs \ {k}
      BY <1>1, <2>1, <2>2
    <3> QED BY <1>2, <2>1, <2>2, <3>1
  <2>3. CASE ~(i < k)
    <3>1. i + 1 \in DOMAIN jobs \ {k} /\ ~(i + 1 < k) /\ i = (i + 1) - 1
      BY <1>1, <2>1, <2>3
    <3> QED BY <1>2, <2>1, <2>3, <3>1
  <2> QED BY <2>2, <2>3
<1> QED BY <1>2, <1>3

(* A request that takes part in no job moves; one submits a job; one's job   *)
(* is dropped: the executor's queue stays in order.                          *)
LEMMA MoveKeepsJobs ==
  ASSUME pc \in [Reqs -> PCs], JobsInv, NEW r \in Reqs, NEW label,
         pc[r] \notin Queued, Goto(r, label), jobs' = jobs
  PROVE  JobsInv'
BY DEF JobsInv, Goto, Queued

(* A blocking call queues its request, which is not in the queue yet. *)
LEMMA BlockKeepsJobs ==
  ASSUME pc \in [Reqs -> PCs], jobs \in Seq(Async), JobsInv, NEW r \in Reqs,
         pc[r] \notin Queued, NEW queued \in Queued, NEW running \in PCs,
         Block(r, queued, running)
  PROVE  JobsInv' /\ jobs' \in Seq(Async) /\ pc' \in [Reqs -> PCs]
<1>1. CASE r \in Async
  <2>1. pc' = [pc EXCEPT ![r] = queued] /\ Submit(r)
    BY <1>1 DEF Block, Goto
  <2>2. /\ jobs' \in Seq(Async)
        /\ DOMAIN jobs' = DOMAIN jobs \cup {Len(jobs) + 1} /\ Len(jobs) + 1 \notin DOMAIN jobs
        /\ jobs'[Len(jobs) + 1] = r /\ \A i \in DOMAIN jobs : jobs'[i] = jobs[i]
    BY <1>1, <2>1, Submitted
  <2>3. \A i \in DOMAIN jobs : jobs[i] # r
    BY DEF JobsInv, Queued
  <2>4. pc' \in [Reqs -> PCs]
    BY <2>1 DEF Queued, PCs
  <2>5. \A i \in DOMAIN jobs' : pc'[jobs'[i]] \in Queued
    BY <2>1, <2>2, <2>3 DEF JobsInv, Queued
  <2>6. \A i, j \in DOMAIN jobs' : jobs'[i] = jobs'[j] => i = j
    BY <2>2, <2>3 DEF JobsInv
  <2> QED BY <2>2, <2>4, <2>5, <2>6 DEF JobsInv, Queued
<1>2. CASE r \notin Async
  <2>1. Goto(r, running) /\ jobs' = jobs
    BY <1>2 DEF Block
  <2> QED BY <2>1, MoveKeepsJobs DEF Goto
<1> QED BY <1>1, <1>2

(* A cancelled job takes its request out of the queue. *)
LEMMA DropKeepsJobs ==
  ASSUME pc \in [Reqs -> PCs], jobs \in Seq(Async), JobsInv, NEW r \in Reqs, NEW label,
         Goto(r, label), \E i \in DOMAIN jobs : jobs[i] = r /\ jobs' = RemoveAt(jobs, i)
  PROVE  JobsInv' /\ jobs' \in Seq(Async)
<1>1. PICK k \in DOMAIN jobs : jobs[k] = r /\ jobs' = RemoveAt(jobs, k)
  OBVIOUS
<1>2. /\ jobs' \in Seq(Async)
      /\ \A i \in DOMAIN jobs' : \E j \in DOMAIN jobs \ {k} :
           jobs'[i] = jobs[j] /\ i = IF j < k THEN j ELSE j - 1
  BY <1>1, JobDropped
<1>3. \A j \in DOMAIN jobs \ {k} : jobs[j] # r
  BY <1>1 DEF JobsInv
<1>4. \A i \in DOMAIN jobs' : pc'[jobs'[i]] \in Queued
  BY <1>2, <1>3 DEF JobsInv, Goto, Queued
<1>5. ASSUME NEW i \in DOMAIN jobs', NEW j \in DOMAIN jobs', jobs'[i] = jobs'[j]
      PROVE  i = j
  <2>1. PICK m \in DOMAIN jobs \ {k} : jobs'[i] = jobs[m] /\ i = IF m < k THEN m ELSE m - 1
    BY <1>2
  <2>2. PICK n \in DOMAIN jobs \ {k} : jobs'[j] = jobs[n] /\ j = IF n < k THEN n ELSE n - 1
    BY <1>2
  <2>3. m = n
    BY <1>5, <2>1, <2>2 DEF JobsInv
  <2> QED BY <2>1, <2>2, <2>3
<1> QED BY <1>2, <1>4, <1>5 DEF JobsInv, Queued

(* A thread of the executor takes the oldest job. *)
LEMMA StartedRequest ==
  ASSUME pc \in [Reqs -> PCs], jobs \in Seq(Async), JobsInv, execStart
  PROVE  \E r \in Reqs :
           /\ \/ pc[r] = "acqQueued" /\ Goto(r, "acquiring")
              \/ pc[r] = "getQueued" /\ Goto(r, "getting")
           /\ JobsInv' /\ jobs' \in Seq(Async)
<1> DEFINE r == Head(jobs)
<1>1. jobs # << >> /\ jobs' = Tail(jobs)
  BY DEF execStart
<1>2. /\ r \in Reqs /\ r = jobs[1] /\ 1 \in DOMAIN jobs /\ jobs' \in Seq(Async)
      /\ \A i \in DOMAIN jobs' : i + 1 \in DOMAIN jobs /\ jobs'[i] = jobs[i + 1] /\ i \in Nat \ {0}
  BY <1>1, JobStarted, WorkerIOConstants
<1>3. pc[r] \in Queued
  BY <1>2 DEF JobsInv, Queued
<1>4. \/ pc[r] = "acqQueued" /\ Goto(r, "acquiring")
      \/ pc[r] = "getQueued" /\ Goto(r, "getting")
  BY <1>3 DEF execStart, Queued
<1>5. \A i \in DOMAIN jobs' : jobs'[i] # r
  BY <1>2 DEF JobsInv
<1> HIDE DEF r
<1>6. \A i \in DOMAIN jobs' : pc'[jobs'[i]] \in Queued
  <2>1. \A q \in Reqs \ {r} : pc'[q] = pc[q]
    BY <1>2, <1>4 DEF Goto
  <2>2. \A i \in DOMAIN jobs' : jobs'[i] \in Reqs \ {r}
    BY <1>2, <1>5, WorkerIOConstants
  <2> QED BY <1>2, <2>1, <2>2 DEF JobsInv
<1>7. \A i, j \in DOMAIN jobs' : jobs'[i] = jobs'[j] => i = j
  BY <1>2 DEF JobsInv
<1> QED BY <1>2, <1>4, <1>6, <1>7 DEF JobsInv, Queued

(* Adding an event to a queue, and taking one from it. *)
Ended(q) == \E i \in DOMAIN q : Ends(q[i])
Apart(q, r) == \A i \in DOMAIN q : q[i].ev \in Stream => q[i].about = r

(* An event put into a queue keeps the type of the queue. *)
LEMMA EventAdded ==
  ASSUME NEW S, NEW q \in Seq(S), NEW e \in S
  PROVE  /\ Append(q, e) \in Seq(S)
         /\ Ended(q) \/ Ends(e) => Ended(Append(q, e))
         /\ \A r : Apart(q, r) /\ (e.ev \in Stream => e.about = r) => Apart(Append(q, e), r)
<1>1. /\ Append(q, e) \in Seq(S) /\ DOMAIN Append(q, e) = 1 .. Len(q) + 1
      /\ Len(q) \in Nat /\ DOMAIN q = 1 .. Len(q)
      /\ Append(q, e)[Len(q) + 1] = e /\ \A i \in 1 .. Len(q) : Append(q, e)[i] = q[i]
  OBVIOUS
<1>2. DOMAIN Append(q, e) = DOMAIN q \cup {Len(q) + 1}
  BY <1>1
<1> QED BY <1>1, <1>2 DEF Ended, Apart

(* Lines on stdin and the worker's progress. *)
Lines == [type : {"request", "cancel"}, id : Reqs]
Progress == [state : {"none", "busy", "tripped", "finished"}, chunks : 0 .. MaxChunks]

(* A line written to stdin keeps the type of the pipe. *)
LEMMA LineWritten ==
  ASSUME TypeOK, NEW r \in Reqs
  PROVE  /\ stdin \in Seq(Lines)
         /\ Append(stdin, [type |-> "request", id |-> r]) \in Seq(Lines)
         /\ Append(stdin, [type |-> "cancel", id |-> r]) \in Seq(Lines)
<1>1. stdin \in Seq(Lines)
  BY DEF TypeOK, Lines
<1>2. [type |-> "request", id |-> r] \in Lines /\ [type |-> "cancel", id |-> r] \in Lines
  BY DEF Lines
<1> QED BY <1>1, <1>2

(* A line read from stdin is a line, about a request. *)
LEMMA LineRead ==
  ASSUME TypeOK, stdin # << >>
  PROVE  Head(stdin).id \in Reqs /\ Tail(stdin) \in Seq(Lines)
<1>1. stdin \in Seq(Lines)
  BY DEF TypeOK, Lines
<1>2. Head(stdin) \in Lines /\ Tail(stdin) \in Seq(Lines)
  BY <1>1
<1> QED BY <1>2 DEF Lines

(* What the worker writes to stdout is an event of the request it serves. *)
LEMMA Replied ==
  ASSUME TypeOK, NEW ev \in Stream \cup {"error"}, NEW rid \in Reqs \cup {NoId}, NEW r \in Reqs,
         NEW byCancel \in BOOLEAN, Reply(ev, rid, r, byCancel)
  PROVE  /\ stdout' \in Seq(Events)
         /\ RouteInv /\ (ev \in Stream => rid = r) =>
              \A i \in DOMAIN stdout' : stdout'[i].ev \in Stream => stdout'[i].rid = stdout'[i].about
<1> DEFINE e == [ev |-> ev, rid |-> rid, about |-> r, byCancel |-> byCancel]
<1>1. e \in Events /\ e.ev = ev /\ e.rid = rid /\ e.about = r
  BY DEF Events, Stream
<1>2. stdout \in Seq(Events) /\ stdout' = Append(stdout, e)
  BY DEF TypeOK, Reply
<1> HIDE DEF e
<1> QED BY <1>1, <1>2 DEF RouteInv

(* An event taken from a queue leaves the others, one place earlier. *)
LEMMA EventTaken ==
  ASSUME NEW S, NEW q \in Seq(S), q # << >>
  PROVE  /\ Tail(q) \in Seq(S) /\ Head(q) \in S
         /\ Ended(q) /\ ~Ends(Head(q)) => Ended(Tail(q))
         /\ \A r : Apart(q, r) => Apart(Tail(q), r)
<1>1. /\ Tail(q) \in Seq(S) /\ Head(q) \in S /\ Head(q) = q[1]
      /\ DOMAIN q = 1 .. Len(q) /\ Len(q) \in Nat /\ DOMAIN Tail(q) = 1 .. Len(q) - 1
      /\ \A i \in 1 .. Len(q) - 1 : Tail(q)[i] = q[i + 1]
  OBVIOUS
<1>2. ASSUME NEW i \in DOMAIN q, i # 1 PROVE i - 1 \in DOMAIN Tail(q) /\ Tail(q)[i - 1] = q[i]
  BY <1>1, <1>2
<1>3. Ended(q) /\ ~Ends(Head(q)) => Ended(Tail(q))
  BY <1>1, <1>2 DEF Ended
<1>4. \A i \in DOMAIN Tail(q) : i + 1 \in DOMAIN q /\ Tail(q)[i] = q[i + 1]
  BY <1>1
<1> QED BY <1>1, <1>3, <1>4 DEF Apart

(* A request may move when it stays registered or woken, and no other is     *)
(* forgotten.                                                                *)
LEMMA MoveKeepsWake ==
  ASSUME pc \in [Reqs -> PCs], WakeInv, NEW r \in Reqs, NEW label, Goto(r, label),
         UNCHANGED <<closed, closer, snapshot, reader, alive>>,
         \A o \in Reqs \ {r} : Woken(o) => Woken(o)',
         \A o \in Reqs \ {r} : o \in inflight => o \in inflight',
         label \in {"write"} \cup Written => r \in inflight' \/ Woken(r)',
         label \in Written /\ (closer \in {"waking", "closed"} \/ reader = "exited") => Woken(r)'
  PROVE  WakeInv'
<1>1. pc'[r] = label /\ \A o \in Reqs \ {r} : pc'[o] = pc[o]
  BY DEF Goto
<1>2. \A o \in Reqs : pc'[o] \in {"write"} \cup Written => o \in inflight' \/ Woken(o)'
  BY <1>1 DEF WakeInv
<1>3. closer \in {"waking", "closed"} \/ reader = "exited" =>
        \A o \in Reqs : pc'[o] \in Written => Woken(o)'
  BY <1>1 DEF WakeInv
<1> QED BY <1>2, <1>3 DEF WakeInv

(* Nobody moves and nobody is forgotten. *)
LEMMA StayKeepsWake ==
  ASSUME WakeInv, UNCHANGED <<pc, closed, reader, alive>>,
         closer' = closer \/ (closer = "waking" /\ closer' = "closed"),
         closer \in {"idle", "flagged"} => snapshot' = snapshot,
         \A o \in Reqs : Woken(o) => Woken(o)',
         \A o \in Reqs : o \in inflight => o \in inflight' \/ Woken(o)'
  PROVE  WakeInv'
<1>1. \A o \in Reqs : pc'[o] \in {"write"} \cup Written => o \in inflight' \/ Woken(o)'
  BY DEF WakeInv
<1>2. closer' \in {"waking", "closed"} \/ reader' = "exited" =>
        \A o \in Reqs : pc'[o] \in Written => Woken(o)'
  BY DEF WakeInv
<1> QED BY <1>1, <1>2 DEF WakeInv

-----------------------------------------------------------------------------
(* Every action keeps the types; that no more tokens come back than there are *)
(* follows from their conservation.                                          *)
LEMMA TypeKept == IOInv /\ Next => TypeOK'
<1> SUFFICES ASSUME IOInv, Next PROVE TypeOK'
  OBVIOUS
<1>0. JobsInv /\ TokenInv /\ pc \in [Reqs -> PCs] /\ jobs \in Seq(Async) /\ sem \in 0 .. Concurrency
  BY WorkerIOConstants DEF IOInv, TypeOK
<1> SUFFICES ASSUME TypeOK PROVE TypeOK'
  BY DEF IOInv
<1> USE WorkerIOConstants DEF clientVars, closeVars, readerVars, workerVars
<1>1. ASSUME NEW r \in Reqs, start(r) PROVE TypeOK'
  <2>1. pc' \in [Reqs -> PCs] /\ jobs' \in Seq(Async)
    BY <1>1, <1>0, BlockKeepsJobs DEF start, PCs, Queued
  <2> QED BY <1>1, <2>1 DEF start, TypeOK
<1>2. ASSUME NEW r \in Reqs, semAcquire(r) PROVE TypeOK'
  BY <1>2 DEF semAcquire, TypeOK, Goto, PCs
<1>3. ASSUME NEW r \in Reqs, checkClosed(r) PROVE TypeOK'
  <2>1. CASE closed
    <3>1. sem' \in 0 .. Concurrency
      BY <1>3, <1>0, <2>1, TokenBack DEF checkClosed, Holding
    <3> QED BY <1>3, <2>1, <3>1 DEF checkClosed, TypeOK, Goto, PCs
  <2>2. CASE ~closed
    BY <1>3, <2>2 DEF checkClosed, TypeOK, Goto, PCs
  <2> QED BY <2>1, <2>2
<1>4. ASSUME NEW r \in Reqs, register(r) PROVE TypeOK'
  BY <1>4 DEF register, TypeOK, Goto, PCs
<1>5. ASSUME NEW r \in Reqs, write(r) PROVE TypeOK'
  <2>1. CASE closed \/ ~alive
    BY <1>5, <2>1 DEF write, TypeOK, Goto, PCs
  <2>2. CASE ~(closed \/ ~alive)
    <3>1. pc' \in [Reqs -> PCs] /\ jobs' \in Seq(Async)
      BY <1>5, <1>0, <2>2, BlockKeepsJobs DEF write, PCs, Queued
    <3>2. stdin' \in Seq(Lines)
      BY <1>5, <2>2, LineWritten DEF write
    <3> QED BY <1>5, <3>1, <3>2 DEF write, TypeOK, Lines
  <2> QED BY <2>1, <2>2
<1>6. ASSUME NEW r \in Reqs, getEvent(r) PROVE TypeOK'
  <2>1. \E label \in PCs : Goto(r, label)
    BY <1>6 DEF getEvent, PCs
  <2>2. queue[r] \in Seq(Events \cup {WorkerExit}) /\ queue[r] # << >>
    BY <1>6 DEF getEvent, TypeOK
  <2>3. Tail(queue[r]) \in Seq(Events \cup {WorkerExit})
    BY <2>2, EventTaken
  <2> QED BY <1>6, <2>1, <2>3 DEF getEvent, TypeOK, Goto
<1>7. ASSUME NEW r \in Reqs, getTimeout(r) PROVE TypeOK'
  BY <1>7 DEF getTimeout, TypeOK, Goto, PCs
<1>8. ASSUME NEW r \in Reqs, consumerNext(r) PROVE TypeOK'
  <2>1. CASE pc[r] = "yielded"
    <3>1. pc' \in [Reqs -> PCs] /\ jobs' \in Seq(Async)
      BY <1>8, <1>0, <2>1, BlockKeepsJobs DEF consumerNext, PCs, Queued
    <3> QED BY <1>8, <2>1, <3>1 DEF consumerNext, TypeOK
  <2>2. CASE pc[r] = "terminal"
    BY <1>8, <2>2 DEF consumerNext, TypeOK, Goto, PCs
  <2> QED BY <1>8, <2>1, <2>2 DEF consumerNext
<1>9. ASSUME NEW r \in Reqs, consumerBreaks(r) PROVE TypeOK'
  BY <1>9 DEF consumerBreaks, TypeOK, Goto, PCs
<1>10. ASSUME NEW r \in Reqs, unregister(r) PROVE TypeOK'
  BY <1>10 DEF unregister, TypeOK, Goto, PCs
<1>11. ASSUME NEW r \in Reqs, semRelease(r) PROVE TypeOK'
  <2>1. PICK label \in {"cancel", "ended"} : Goto(r, label)
    BY <1>11 DEF semRelease
  <2>2. sem' \in 0 .. Concurrency
    BY <1>11, <1>0, <2>1, TokenBack DEF semRelease, Holding
  <2> QED BY <1>11, <2>1, <2>2 DEF semRelease, TypeOK, Goto, PCs
<1>12. ASSUME NEW r \in Reqs, cancel(r) PROVE TypeOK'
  <2>1. stdin' \in Seq(Lines)
    BY <1>12, LineWritten DEF cancel
  <2> QED BY <1>12, <2>1 DEF cancel, TypeOK, Goto, PCs, Lines
<1>13. ASSUME NEW r \in Reqs, taskCancelled(r) PROVE TypeOK'
  <2>1. \E label \in PCs : Goto(r, label)
    BY <1>13 DEF taskCancelled, cancelAcquire, cancelGet, PCs
  <2>2. jobs' \in Seq(Async)
    BY <1>13, <1>0, DropKeepsJobs DEF taskCancelled, cancelAcquire, cancelGet
  <2>3. sem' \in 0 .. Concurrency
    <3>1. CASE sem' = sem
      BY <3>1 DEF TypeOK
    <3>2. CASE pc[r] = "acquired" /\ Goto(r, "ended") /\ sem' = sem + 1
      BY <1>0, <3>2, TokenBack DEF Holding
    <3> QED BY <1>13, <3>1, <3>2 DEF taskCancelled, cancelAcquire, cancelGet
  <2>4. zombies' \subseteq Async
    BY <1>13 DEF taskCancelled, cancelAcquire, cancelGet, TypeOK
  <2>5. pc' \in [Reqs -> PCs]
    BY <1>0, <2>1 DEF Goto
  <2> QED BY <1>13, <2>2, <2>3, <2>4, <2>5 DEF taskCancelled, TypeOK
<1>14. ASSUME NEW r \in Reqs, lateAcquire(r) PROVE TypeOK'
  BY <1>14 DEF lateAcquire, TypeOK, Goto, PCs
<1>15. ASSUME NEW r \in Reqs, zombieEnds(r) PROVE TypeOK'
  BY <1>15 DEF zombieEnds, TypeOK
<1>16. ASSUME execStart PROVE TypeOK'
  <2>1. PICK r \in Reqs :
          /\ \/ pc[r] = "acqQueued" /\ Goto(r, "acquiring")
             \/ pc[r] = "getQueued" /\ Goto(r, "getting")
          /\ JobsInv' /\ jobs' \in Seq(Async)
    BY <1>16, <1>0, StartedRequest
  <2> QED BY <1>16, <2>1 DEF execStart, TypeOK, Goto, PCs
<1>17. ASSUME closeFlag PROVE TypeOK'
  BY <1>17 DEF closeFlag, TypeOK
<1>18. ASSUME closeSnapshot PROVE TypeOK'
  BY <1>18 DEF closeSnapshot, TypeOK
<1>19. ASSUME closeWake PROVE TypeOK'
  <2>1. ASSUME NEW q \in snapshot PROVE [queue EXCEPT ![q] = Append(queue[q], WorkerExit)]
                                        \in [Reqs -> Seq(Events \cup {WorkerExit})]
    <3>1. q \in Reqs /\ Append(queue[q], WorkerExit) \in Seq(Events \cup {WorkerExit})
      BY EventAdded DEF TypeOK
    <3> QED BY <3>1 DEF TypeOK
  <2>2. queue' \in [Reqs -> Seq(Events \cup {WorkerExit})]
    <3>1. \/ queue' = queue
          \/ \E q \in snapshot : queue' = [queue EXCEPT ![q] = Append(queue[q], WorkerExit)]
      BY <1>19 DEF closeWake
    <3>2. queue \in [Reqs -> Seq(Events \cup {WorkerExit})]
      BY DEF TypeOK
    <3> QED BY <2>1, <3>1, <3>2
  <2> QED BY <1>19, <2>2 DEF closeWake, TypeOK
<1>20. ASSUME readEvent PROVE TypeOK'
  <2> DEFINE e == Head(stdout)
  <2>1. e \in Events /\ stdout' \in Seq(Events)
    BY <1>20 DEF readEvent, TypeOK
  <2>2. Routes(e) \subseteq Reqs
    BY DEF Routes, TypeOK
  <2> HIDE DEF e
  <2>3. carry' = << >> \/ \E q \in Reqs : carry' = <<[to |-> q, event |-> e]>>
    BY <1>20, <2>2 DEF readEvent, e
  <2>4. carry' \in {<< >>} \cup {<<c>> : c \in [to : Reqs, event : Events]}
    BY <2>1, <2>3
  <2> QED BY <1>20, <2>1, <2>4 DEF readEvent, TypeOK
<1>21. ASSUME putEvent PROVE TypeOK'
  <2>1. carry[1].to \in Reqs /\ carry[1].event \in Events
    BY <1>21 DEF putEvent, TypeOK
  <2>2. queue' \in [Reqs -> Seq(Events \cup {WorkerExit})]
    BY <1>21, <2>1, EventAdded DEF putEvent, TypeOK
  <2> QED BY <1>21, <2>2 DEF putEvent, TypeOK
<1>22. ASSUME readerExit PROVE TypeOK'
  <2>1. queue' \in [Reqs -> Seq(Events \cup {WorkerExit})]
    BY <1>22, EventAdded DEF readerExit, TypeOK
  <2> QED BY <1>22, <2>1 DEF readerExit, TypeOK
<1>23. ASSUME NEW r \in Reqs, workerReplies(r) PROVE TypeOK'
  <2>1. \E ev \in Stream \cup {"error"}, rid \in Reqs \cup {NoId} : Reply(ev, rid, r, FALSE)
    BY <1>23 DEF workerReplies, Stream
  <2>2. stdout' \in Seq(Events)
    BY <2>1, Replied
  <2>3. work \in [Reqs -> Progress] /\ work[r] \in Progress
    BY DEF TypeOK, Progress
  <2>4. \/ work' = [work EXCEPT ![r].chunks = work[r].chunks + 1] /\ work[r].chunks < MaxChunks
        \/ work' = [work EXCEPT ![r] = [state |-> "finished", chunks |-> 0]]
    BY <1>23 DEF workerReplies
  <2>5. work' \in [Reqs -> Progress]
    BY <2>3, <2>4 DEF Progress
  <2> QED BY <1>23, <2>2, <2>5 DEF workerReplies, TypeOK, Progress
<1>24. ASSUME workerReads PROVE TypeOK'
  <2> DEFINE r == Head(stdin).id
  <2>1. r \in Reqs /\ stdin' \in Seq(Lines)
    BY <1>24, LineRead DEF workerReads
  <2>2. stdout' = stdout \/ Reply("error", NoId, r, TRUE)
    BY <1>24 DEF workerReads
  <2>3. \/ work' = [work EXCEPT ![r].state = "busy"] \/ work' = work
        \/ work' = [work EXCEPT ![r].state = IF work[r].state = "busy" THEN "tripped" ELSE work[r].state]
    BY <1>24 DEF workerReads
  <2> HIDE DEF r
  <2>4. stdout' \in Seq(Events)
    BY <2>1, <2>2, Replied DEF TypeOK
  <2>5. work \in [Reqs -> Progress] /\ work[r] \in Progress
    BY <2>1 DEF TypeOK, Progress
  <2>6. work' \in [Reqs -> Progress]
    <3>1. \A st \in {"none", "busy", "tripped", "finished"} :
            [work[r] EXCEPT !.state = st] \in Progress
      BY <2>5 DEF Progress
    <3>2. CASE work' = [work EXCEPT ![r].state = "busy"]
      BY <2>1, <2>5, <3>1, <3>2
    <3>3. CASE work' = [work EXCEPT ![r].state =
                          IF work[r].state = "busy" THEN "tripped" ELSE work[r].state]
      <4>1. work[r].state \in {"none", "busy", "tripped", "finished"}
        BY <2>5 DEF Progress
      <4> DEFINE st == IF work[r].state = "busy" THEN "tripped" ELSE work[r].state
      <4>2. st \in {"none", "busy", "tripped", "finished"}
        BY <4>1
      <4>3. work' = [work EXCEPT ![r].state = st]
        BY <3>3
      <4> HIDE DEF st
      <4> QED BY <2>1, <2>5, <3>1, <4>2, <4>3
    <3> QED BY <2>3, <2>5, <3>2, <3>3
  <2> QED BY <1>24, <2>1, <2>4, <2>6 DEF workerReads, TypeOK, Lines, Progress
<1>25. ASSUME workerDies PROVE TypeOK'
  <2>1. work' \in [Reqs -> [state : {"none", "busy", "tripped", "finished"}, chunks : 0 .. MaxChunks]]
    BY <1>25 DEF workerDies
  <2>2. stdin' \in Seq([type : {"request", "cancel"}, id : Reqs])
    BY <1>25 DEF workerDies
  <2> QED BY <1>25, <2>1, <2>2 DEF workerDies, TypeOK
<1> QED
  BY <1>1, <1>2, <1>3, <1>4, <1>5, <1>6, <1>7, <1>8, <1>9, <1>10, <1>11, <1>12,
     <1>13, <1>14, <1>15, <1>16, <1>17, <1>18, <1>19, <1>20, <1>21, <1>22, <1>23,
     <1>24, <1>25 DEF Next, Steps, Reader, Closer

(* A request submits a job only when it has none.                            *)
LEMMA JobsKept == IOInv /\ Next => JobsInv'
<1> SUFFICES ASSUME IOInv, Next PROVE JobsInv'
  OBVIOUS
<1>0. JobsInv /\ pc \in [Reqs -> PCs] /\ jobs \in Seq(Async)
  BY DEF IOInv, TypeOK
<1> USE WorkerIOConstants DEF Queued, clientVars, closeVars, readerVars, workerVars
<1>1. ASSUME NEW r \in Reqs, start(r) PROVE JobsInv'
  BY <1>1, <1>0, BlockKeepsJobs DEF start, PCs
<1>2. ASSUME NEW r \in Reqs, semAcquire(r) PROVE JobsInv'
  BY <1>2, <1>0, MoveKeepsJobs DEF semAcquire
<1>3. ASSUME NEW r \in Reqs, checkClosed(r) PROVE JobsInv'
  BY <1>3, <1>0, MoveKeepsJobs DEF checkClosed
<1>4. ASSUME NEW r \in Reqs, register(r) PROVE JobsInv'
  BY <1>4, <1>0, MoveKeepsJobs DEF register
<1>5. ASSUME NEW r \in Reqs, write(r) PROVE JobsInv'
  <2>1. CASE closed \/ ~alive
    BY <1>5, <1>0, <2>1, MoveKeepsJobs DEF write
  <2>2. CASE ~(closed \/ ~alive)
    BY <1>5, <1>0, <2>2, BlockKeepsJobs DEF write, PCs
  <2> QED BY <2>1, <2>2
<1>6. ASSUME NEW r \in Reqs, getEvent(r) PROVE JobsInv'
  BY <1>6, <1>0, MoveKeepsJobs DEF getEvent
<1>7. ASSUME NEW r \in Reqs, getTimeout(r) PROVE JobsInv'
  BY <1>7, <1>0, MoveKeepsJobs DEF getTimeout
<1>8. ASSUME NEW r \in Reqs, consumerNext(r) PROVE JobsInv'
  <2>1. CASE pc[r] = "yielded"
    BY <1>8, <1>0, <2>1, BlockKeepsJobs DEF consumerNext, PCs
  <2>2. CASE pc[r] = "terminal"
    BY <1>8, <1>0, <2>2, MoveKeepsJobs DEF consumerNext
  <2> QED BY <1>8, <2>1, <2>2 DEF consumerNext
<1>9. ASSUME NEW r \in Reqs, consumerBreaks(r) PROVE JobsInv'
  BY <1>9, <1>0, MoveKeepsJobs DEF consumerBreaks
<1>10. ASSUME NEW r \in Reqs, unregister(r) PROVE JobsInv'
  BY <1>10, <1>0, MoveKeepsJobs DEF unregister
<1>11. ASSUME NEW r \in Reqs, semRelease(r) PROVE JobsInv'
  BY <1>11, <1>0, MoveKeepsJobs DEF semRelease
<1>12. ASSUME NEW r \in Reqs, cancel(r) PROVE JobsInv'
  BY <1>12, <1>0, MoveKeepsJobs DEF cancel
<1>13. ASSUME NEW r \in Reqs, taskCancelled(r) PROVE JobsInv'
  <2>1. CASE pc[r] \in Queued
    <3>1. /\ \E i \in DOMAIN jobs : jobs[i] = r /\ jobs' = RemoveAt(jobs, i)
          /\ Goto(r, "ended") \/ Goto(r, "pop")
      BY <1>13, <2>1 DEF taskCancelled, cancelAcquire, cancelGet
    <3> QED BY <1>0, <3>1, DropKeepsJobs
  <2>2. CASE pc[r] \notin Queued
    <3>1. jobs' = jobs /\ \E label \in PCs : Goto(r, label)
      BY <1>13, <2>2 DEF taskCancelled, cancelAcquire, cancelGet, PCs
    <3> QED BY <1>0, <2>2, <3>1, MoveKeepsJobs
  <2> QED BY <2>1, <2>2
<1>14. ASSUME NEW r \in Reqs, lateAcquire(r) PROVE JobsInv'
  BY <1>14, <1>0, MoveKeepsJobs DEF lateAcquire
<1>15. ASSUME NEW r \in Reqs, zombieEnds(r) PROVE JobsInv'
  BY <1>15, <1>0 DEF zombieEnds, JobsInv
<1>16. ASSUME execStart PROVE JobsInv'
  BY <1>16, <1>0, StartedRequest
<1>17. ASSUME closeFlag PROVE JobsInv'
  BY <1>17, <1>0 DEF closeFlag, JobsInv
<1>18. ASSUME closeSnapshot PROVE JobsInv'
  BY <1>18, <1>0 DEF closeSnapshot, JobsInv
<1>19. ASSUME closeWake PROVE JobsInv'
  BY <1>19, <1>0 DEF closeWake, JobsInv
<1>20. ASSUME readEvent PROVE JobsInv'
  BY <1>20, <1>0 DEF readEvent, JobsInv
<1>21. ASSUME putEvent PROVE JobsInv'
  BY <1>21, <1>0 DEF putEvent, JobsInv
<1>22. ASSUME readerExit PROVE JobsInv'
  BY <1>22, <1>0 DEF readerExit, JobsInv
<1>23. ASSUME NEW r \in Reqs, workerReplies(r) PROVE JobsInv'
  BY <1>23, <1>0 DEF workerReplies, JobsInv
<1>24. ASSUME workerReads PROVE JobsInv'
  BY <1>24, <1>0 DEF workerReads, JobsInv
<1>25. ASSUME workerDies PROVE JobsInv'
  BY <1>25, <1>0 DEF workerDies, JobsInv
<1> QED
  BY <1>1, <1>2, <1>3, <1>4, <1>5, <1>6, <1>7, <1>8, <1>9, <1>10, <1>11, <1>12,
     <1>13, <1>14, <1>15, <1>16, <1>17, <1>18, <1>19, <1>20, <1>21, <1>22, <1>23,
     <1>24, <1>25 DEF Next, Steps, Reader, Closer

(* Each path through request and send_request takes one token and gives it   *)
(* back once.                                                                *)
LEMMA TokensKept == IOInv /\ Next => TokenInv'
<1> SUFFICES ASSUME IOInv, Next PROVE TokenInv'
  OBVIOUS
<1>0. pc \in [Reqs -> PCs] /\ jobs \in Seq(Async) /\ JobsInv /\ sem \in 0 .. Concurrency /\ TokenInv
  BY WorkerIOConstants DEF IOInv, TypeOK
<1> USE WorkerIOConstants DEF Holding, clientVars, closeVars, readerVars, workerVars
<1>1. ASSUME NEW r \in Reqs, start(r) PROVE TokenInv'
  <2>1. Goto(r, "acqQueued") \/ Goto(r, "acquiring")
    BY <1>1 DEF start, Block
  <2> QED BY <1>1, <1>0, <2>1, TokenKept DEF start
<1>2. ASSUME NEW r \in Reqs, semAcquire(r) PROVE TokenInv'
  BY <1>2, <1>0, TokenTaken DEF semAcquire
<1>3. ASSUME NEW r \in Reqs, checkClosed(r) PROVE TokenInv'
  <2>1. CASE closed
    BY <1>3, <1>0, <2>1, TokenBack DEF checkClosed
  <2>2. CASE ~closed
    BY <1>3, <1>0, <2>2, TokenKept DEF checkClosed
  <2> QED BY <2>1, <2>2
<1>4. ASSUME NEW r \in Reqs, register(r) PROVE TokenInv'
  BY <1>4, <1>0, TokenKept DEF register
<1>5. ASSUME NEW r \in Reqs, write(r) PROVE TokenInv'
  <2>1. \E label \in {"pop", "getQueued", "getting"} : Goto(r, label)
    BY <1>5 DEF write, Block
  <2> QED BY <1>5, <1>0, <2>1, TokenKept DEF write
<1>6. ASSUME NEW r \in Reqs, getEvent(r) PROVE TokenInv'
  <2>1. \E label \in {"pop", "terminal", "yielded"} : Goto(r, label)
    BY <1>6 DEF getEvent
  <2> QED BY <1>6, <1>0, <2>1, TokenKept DEF getEvent
<1>7. ASSUME NEW r \in Reqs, getTimeout(r) PROVE TokenInv'
  BY <1>7, <1>0, TokenKept DEF getTimeout
<1>8. ASSUME NEW r \in Reqs, consumerNext(r) PROVE TokenInv'
  <2>1. pc[r] \in Holding /\ \E label \in {"pop", "getQueued", "getting"} : Goto(r, label)
    BY <1>8 DEF consumerNext, Block
  <2> QED BY <1>8, <1>0, <2>1, TokenKept DEF consumerNext
<1>9. ASSUME NEW r \in Reqs, consumerBreaks(r) PROVE TokenInv'
  BY <1>9, <1>0, TokenKept DEF consumerBreaks
<1>10. ASSUME NEW r \in Reqs, unregister(r) PROVE TokenInv'
  BY <1>10, <1>0, TokenKept DEF unregister
<1>11. ASSUME NEW r \in Reqs, semRelease(r) PROVE TokenInv'
  <2>1. Goto(r, "cancel") \/ Goto(r, "ended")
    BY <1>11 DEF semRelease
  <2> QED BY <1>11, <1>0, <2>1, TokenBack DEF semRelease
<1>12. ASSUME NEW r \in Reqs, cancel(r) PROVE TokenInv'
  BY <1>12, <1>0, TokenKept DEF cancel
<1>13. ASSUME NEW r \in Reqs, taskCancelled(r) PROVE TokenInv'
  <2>1. CASE cancelAcquire(r)
    BY <1>0, <2>1, TokenKept, TokenBack DEF cancelAcquire
  <2>2. CASE cancelGet(r)
    BY <1>0, <2>2, TokenKept DEF cancelGet
  <2> QED BY <1>13, <2>1, <2>2 DEF taskCancelled
<1>14. ASSUME NEW r \in Reqs, lateAcquire(r) PROVE TokenInv'
  BY <1>14, <1>0, TokenTaken DEF lateAcquire
<1>15. ASSUME NEW r \in Reqs, zombieEnds(r) PROVE TokenInv'
  BY <1>15, <1>0 DEF zombieEnds, TokenInv, Holders
<1>16. ASSUME execStart PROVE TokenInv'
  <2>1. PICK r \in Reqs :
          \/ pc[r] = "acqQueued" /\ Goto(r, "acquiring")
          \/ pc[r] = "getQueued" /\ Goto(r, "getting")
    BY <1>16, <1>0, StartedRequest
  <2> QED BY <1>16, <1>0, <2>1, TokenKept DEF execStart
<1>17. ASSUME closeFlag PROVE TokenInv'
  BY <1>17, <1>0 DEF closeFlag, TokenInv, Holders
<1>18. ASSUME closeSnapshot PROVE TokenInv'
  BY <1>18, <1>0 DEF closeSnapshot, TokenInv, Holders
<1>19. ASSUME closeWake PROVE TokenInv'
  BY <1>19, <1>0 DEF closeWake, TokenInv, Holders
<1>20. ASSUME readEvent PROVE TokenInv'
  BY <1>20, <1>0 DEF readEvent, TokenInv, Holders
<1>21. ASSUME putEvent PROVE TokenInv'
  BY <1>21, <1>0 DEF putEvent, TokenInv, Holders
<1>22. ASSUME readerExit PROVE TokenInv'
  BY <1>22, <1>0 DEF readerExit, TokenInv, Holders
<1>23. ASSUME NEW r \in Reqs, workerReplies(r) PROVE TokenInv'
  BY <1>23, <1>0 DEF workerReplies, TokenInv, Holders
<1>24. ASSUME workerReads PROVE TokenInv'
  BY <1>24, <1>0 DEF workerReads, TokenInv, Holders
<1>25. ASSUME workerDies PROVE TokenInv'
  BY <1>25, <1>0 DEF workerDies, TokenInv, Holders
<1> QED
  BY <1>1, <1>2, <1>3, <1>4, <1>5, <1>6, <1>7, <1>8, <1>9, <1>10, <1>11, <1>12,
     <1>13, <1>14, <1>15, <1>16, <1>17, <1>18, <1>19, <1>20, <1>21, <1>22, <1>23,
     <1>24, <1>25 DEF Next, Steps, Reader, Closer

(* No request that has written its line is forgotten by close() or by the    *)
(* reader at the end of the worker.                                          *)
LEMMA WakeKept == IOInv /\ Next => WakeInv'
<1> SUFFICES ASSUME IOInv, Next PROVE WakeInv'
  OBVIOUS
<1>0. /\ TypeOK /\ JobsInv /\ pc \in [Reqs -> PCs] /\ jobs \in Seq(Async)
      /\ queue \in [Reqs -> Seq(Events \cup {WorkerExit})]
      /\ carry # << >> => carry[1].to \in Reqs /\ carry[1].event \in Events \cup {WorkerExit}
  BY DEF IOInv, TypeOK
<1> SUFFICES ASSUME WakeInv PROVE WakeInv'
  BY DEF IOInv
<1> USE WorkerIOConstants DEF WakeInv, Written, clientVars, closeVars, readerVars,
        workerVars
<1>1. ASSUME NEW r \in Reqs, start(r) PROVE WakeInv'
  <2>1. \A o \in Reqs : Woken(o)' <=> Woken(o)
    BY <1>1 DEF start, Woken
  <2>2. \E label \in {"acqQueued", "acquiring"} : Goto(r, label)
    BY <1>1 DEF start, Block
  <2> QED BY <1>1, <1>0, <2>1, <2>2, MoveKeepsWake DEF start
<1>2. ASSUME NEW r \in Reqs, semAcquire(r) PROVE WakeInv'
  <2>1. \A o \in Reqs : Woken(o)' <=> Woken(o)
    BY <1>2 DEF semAcquire, Woken
  <2> QED BY <1>2, <1>0, <2>1, MoveKeepsWake DEF semAcquire
<1>3. ASSUME NEW r \in Reqs, checkClosed(r) PROVE WakeInv'
  <2>1. \A o \in Reqs : Woken(o)' <=> Woken(o)
    BY <1>3 DEF checkClosed, Woken
  <2>2. \E label \in {"ended", "register"} : Goto(r, label)
    BY <1>3 DEF checkClosed
  <2> QED BY <1>3, <1>0, <2>1, <2>2, MoveKeepsWake DEF checkClosed
<1>4. ASSUME NEW r \in Reqs, register(r) PROVE WakeInv'
  <2>1. \A o \in Reqs : Woken(o)' <=> Woken(o)
    BY <1>4 DEF register, Woken
  <2> QED BY <1>4, <1>0, <2>1, MoveKeepsWake DEF register
<1>5. ASSUME NEW r \in Reqs, write(r) PROVE WakeInv'
  <2>1. \A o \in Reqs : Woken(o)' <=> Woken(o)
    BY <1>5 DEF write, Woken
  <2>2. CASE closed \/ ~alive
    BY <1>5, <1>0, <2>1, <2>2, MoveKeepsWake DEF write
  <2>3. CASE ~closed /\ alive
    <3>1. \E label \in {"getQueued", "getting"} : Goto(r, label)
      BY <1>5, <2>3 DEF write, Block
    <3>2. closer = "idle" /\ reader # "exited" /\ (r \in inflight \/ Woken(r))
      BY <1>5, <2>3 DEF write
    <3> QED BY <1>5, <1>0, <2>1, <3>1, <3>2, MoveKeepsWake DEF write
  <2> QED BY <1>0, <2>2, <2>3 DEF TypeOK
<1>6. ASSUME NEW r \in Reqs, getEvent(r) PROVE WakeInv'
  <2>1. queue[r] \in Seq(Events \cup {WorkerExit}) /\ queue[r] # << >>
        /\ queue' = [queue EXCEPT ![r] = Tail(queue[r])]
    BY <1>6, <1>0 DEF getEvent
  <2>2. \A o \in Reqs \ {r} : Woken(o) => Woken(o)'
    BY <1>6, <1>0, <2>1 DEF getEvent, Woken
  <2>3. CASE Ends(Head(queue[r]))
    <3>1. Goto(r, "pop") \/ Goto(r, "terminal")
      BY <1>6, <2>3 DEF getEvent, Ends
    <3> QED BY <1>6, <1>0, <2>2, <3>1, MoveKeepsWake DEF getEvent
  <2>4. CASE ~Ends(Head(queue[r]))
    <3>1. Goto(r, "yielded")
      BY <1>6, <2>4 DEF getEvent, Ends
    <3>2. Ended(queue[r]) => Ended(queue'[r])
      BY <1>0, <2>1, <2>4, EventTaken
    <3>3. Woken(r) => Woken(r)'
      BY <1>6, <3>2 DEF getEvent, Woken, Ended
    <3> QED BY <1>6, <1>0, <2>2, <3>1, <3>3, MoveKeepsWake DEF getEvent
  <2> QED BY <2>3, <2>4
<1>7. ASSUME NEW r \in Reqs, getTimeout(r) PROVE WakeInv'
  <2>1. \A o \in Reqs : Woken(o)' <=> Woken(o)
    BY <1>7 DEF getTimeout, Woken
  <2> QED BY <1>7, <1>0, <2>1, MoveKeepsWake DEF getTimeout
<1>8. ASSUME NEW r \in Reqs, consumerNext(r) PROVE WakeInv'
  <2>1. \A o \in Reqs : Woken(o)' <=> Woken(o)
    BY <1>8 DEF consumerNext, Woken
  <2>2. CASE pc[r] = "terminal"
    BY <1>8, <1>0, <2>1, <2>2, MoveKeepsWake DEF consumerNext
  <2>3. CASE pc[r] = "yielded"
    <3>1. \E label \in {"getQueued", "getting"} : Goto(r, label)
      BY <1>8, <2>3 DEF consumerNext, Block
    <3> QED BY <1>8, <1>0, <2>1, <2>3, <3>1, MoveKeepsWake DEF consumerNext
  <2> QED BY <1>8, <2>2, <2>3 DEF consumerNext
<1>9. ASSUME NEW r \in Reqs, consumerBreaks(r) PROVE WakeInv'
  <2>1. \A o \in Reqs : Woken(o)' <=> Woken(o)
    BY <1>9 DEF consumerBreaks, Woken
  <2> QED BY <1>9, <1>0, <2>1, MoveKeepsWake DEF consumerBreaks
<1>10. ASSUME NEW r \in Reqs, unregister(r) PROVE WakeInv'
  <2>1. \A o \in Reqs : Woken(o)' <=> Woken(o)
    BY <1>10 DEF unregister, Woken
  <2> QED BY <1>10, <1>0, <2>1, MoveKeepsWake DEF unregister
<1>11. ASSUME NEW r \in Reqs, semRelease(r) PROVE WakeInv'
  <2>1. \A o \in Reqs : Woken(o)' <=> Woken(o)
    BY <1>11 DEF semRelease, Woken
  <2>2. \E label \in {"cancel", "ended"} : Goto(r, label)
    BY <1>11 DEF semRelease
  <2> QED BY <1>11, <1>0, <2>1, <2>2, MoveKeepsWake DEF semRelease
<1>12. ASSUME NEW r \in Reqs, cancel(r) PROVE WakeInv'
  <2>1. \A o \in Reqs : Woken(o)' <=> Woken(o)
    BY <1>12 DEF cancel, Woken
  <2> QED BY <1>12, <1>0, <2>1, MoveKeepsWake DEF cancel
<1>13. ASSUME NEW r \in Reqs, taskCancelled(r) PROVE WakeInv'
  <2>1. \A o \in Reqs : Woken(o)' <=> Woken(o)
    BY <1>13 DEF taskCancelled, Woken
  <2>2. \E label \in {"ended", "orphan", "leaked", "pop"} : Goto(r, label)
    BY <1>13 DEF taskCancelled, cancelAcquire, cancelGet
  <2> QED BY <1>13, <1>0, <2>1, <2>2, MoveKeepsWake DEF taskCancelled
<1>14. ASSUME NEW r \in Reqs, lateAcquire(r) PROVE WakeInv'
  <2>1. \A o \in Reqs : Woken(o)' <=> Woken(o)
    BY <1>14 DEF lateAcquire, Woken
  <2> QED BY <1>14, <1>0, <2>1, MoveKeepsWake DEF lateAcquire
<1>15. ASSUME NEW r \in Reqs, zombieEnds(r) PROVE WakeInv'
  <2>1. \A o \in Reqs : Woken(o)' <=> Woken(o)
    BY <1>15 DEF zombieEnds, Woken
  <2> QED BY <1>15, <1>0, <2>1, StayKeepsWake DEF zombieEnds
<1>16. ASSUME execStart PROVE WakeInv'
  <2>1. \A o \in Reqs : Woken(o)' <=> Woken(o)
    BY <1>16 DEF execStart, Woken
  <2>2. PICK r \in Reqs :
          \/ pc[r] = "acqQueued" /\ Goto(r, "acquiring")
          \/ pc[r] = "getQueued" /\ Goto(r, "getting")
    BY <1>16, <1>0, StartedRequest
  <2> QED BY <1>16, <1>0, <2>1, <2>2, MoveKeepsWake DEF execStart
<1>17. ASSUME closeFlag PROVE WakeInv'
  <2>1. \A o \in Reqs : Woken(o)' <=> Woken(o)
    BY <1>17 DEF closeFlag, Woken
  <2> QED BY <1>17, <2>1 DEF closeFlag
<1>18. ASSUME closeSnapshot PROVE WakeInv'
  <2>1. \A o \in Reqs : o \in inflight \/ Woken(o) => Woken(o)'
    BY <1>18 DEF closeSnapshot, Woken
  <2> QED BY <1>18, <2>1 DEF closeSnapshot
<1>19. ASSUME closeWake PROVE WakeInv'
  <2>1. ASSUME NEW r \in snapshot, queue' = [queue EXCEPT ![r] = Append(queue[r], WorkerExit)],
               snapshot' = snapshot \ {r}, closer' = closer
        PROVE  WakeInv'
    <3>1. r \in Reqs /\ queue[r] \in Seq(Events \cup {WorkerExit})
      BY <1>0 DEF TypeOK
    <3>2. Ends(WorkerExit)
      BY DEF Ends, WorkerExit
    <3>3. Ended(queue'[r])
      BY <1>0, <2>1, <3>1, <3>2, EventAdded
    <3>4. \A o \in Reqs : Woken(o) => Woken(o)'
      BY <1>19, <1>0, <2>1, <3>1, <3>3 DEF closeWake, Woken, Ended
    <3> QED BY <1>19, <2>1, <3>4, StayKeepsWake DEF closeWake
  <2>2. ASSUME UNCHANGED <<queue, snapshot>>, closer' = "closed"
        PROVE  WakeInv'
    <3>1. \A o \in Reqs : Woken(o)' <=> Woken(o)
      BY <1>19, <2>2 DEF closeWake, Woken
    <3> QED BY <1>19, <2>2, <3>1, StayKeepsWake DEF closeWake
  <2> QED BY <1>19, <2>1, <2>2 DEF closeWake
<1>20. ASSUME readEvent PROVE WakeInv'
  <2>1. \A o \in Reqs : Woken(o) => Woken(o)'
    BY <1>20 DEF readEvent, Woken
  <2> QED BY <1>20, <2>1, StayKeepsWake DEF readEvent
<1>21. ASSUME putEvent PROVE WakeInv'
  <2> DEFINE r == carry[1].to
  <2>1. /\ r \in Reqs /\ carry[1].event \in Events \cup {WorkerExit} /\ carry # << >>
        /\ queue[r] \in Seq(Events \cup {WorkerExit})
        /\ queue' = [queue EXCEPT ![r] = Append(queue[r], carry[1].event)]
    BY <1>21, <1>0 DEF putEvent
  <2>2. Ended(queue[r]) \/ Ends(carry[1].event) => Ended(queue'[r])
    BY <1>0, <2>1, EventAdded
  <2>3. \A o \in Reqs \ {r} : queue'[o] = queue[o]
    BY <1>0, <2>1
  <2> HIDE DEF r
  <2>4. \A o \in Reqs : Woken(o) => Woken(o)'
    BY <1>21, <2>1, <2>2, <2>3 DEF putEvent, Woken, Ended, r
  <2> QED BY <1>21, <2>4, StayKeepsWake DEF putEvent
<1>22. ASSUME readerExit PROVE WakeInv'
  <2>1. Ends(WorkerExit)
    BY DEF Ends, WorkerExit
  <2>2. \A o \in Reqs : o \in inflight \/ Ended(queue[o]) => Ended(queue'[o])
    BY <1>22, <1>0, <2>1, EventAdded DEF readerExit
  <2>3. \A o \in Reqs : o \in inflight \/ Woken(o) => Woken(o)'
    BY <1>22, <2>2 DEF readerExit, Woken, Ended
  <2>4. reader' = "exited" => ~alive
    BY <1>22 DEF readerExit
  <2> QED BY <1>22, <2>3, <2>4 DEF readerExit
<1>23. ASSUME NEW r \in Reqs, workerReplies(r) PROVE WakeInv'
  <2>1. \A o \in Reqs : Woken(o)' <=> Woken(o)
    BY <1>23 DEF workerReplies, Woken
  <2> QED BY <1>23, <1>0, <2>1, StayKeepsWake DEF workerReplies
<1>24. ASSUME workerReads PROVE WakeInv'
  <2>1. \A o \in Reqs : Woken(o)' <=> Woken(o)
    BY <1>24 DEF workerReads, Woken
  <2> QED BY <1>24, <1>0, <2>1, StayKeepsWake DEF workerReads
<1>25. ASSUME workerDies PROVE WakeInv'
  <2>1. \A o \in Reqs : Woken(o)' <=> Woken(o)
    BY <1>25 DEF workerDies, Woken
  <2> QED BY <1>25, <2>1 DEF workerDies
<1> QED
  BY <1>1, <1>2, <1>3, <1>4, <1>5, <1>6, <1>7, <1>8, <1>9, <1>10, <1>11, <1>12,
     <1>13, <1>14, <1>15, <1>16, <1>17, <1>18, <1>19, <1>20, <1>21, <1>22, <1>23,
     <1>24, <1>25 DEF Next, Steps, Reader, Closer

(* Events reach the queue of the request they are about, errors apart.       *)
LEMMA RouteKept == IOInv /\ Next => RouteInv'
<1> SUFFICES ASSUME IOInv, Next PROVE RouteInv'
  OBVIOUS
<1>0. /\ TypeOK /\ RouteInv
      /\ queue \in [Reqs -> Seq(Events \cup {WorkerExit})] /\ stdout \in Seq(Events)
      /\ carry # << >> => carry[1].to \in Reqs /\ carry[1].event \in Events
  BY DEF IOInv, TypeOK
<1> SUFFICES ASSUME \A o \in Reqs : Apart(queue[o], o) PROVE RouteInv'
  BY <1>0 DEF RouteInv, StreamsApart, Apart, Stream
<1> USE WorkerIOConstants DEF RouteInv, clientVars, closeVars, readerVars, workerVars
<1>1. ASSUME NEW r \in Reqs, start(r) PROVE RouteInv'
  BY <1>1, <1>0 DEF start, StreamsApart
<1>2. ASSUME NEW r \in Reqs, semAcquire(r) PROVE RouteInv'
  BY <1>2, <1>0 DEF semAcquire, StreamsApart
<1>3. ASSUME NEW r \in Reqs, checkClosed(r) PROVE RouteInv'
  BY <1>3, <1>0 DEF checkClosed, StreamsApart
<1>4. ASSUME NEW r \in Reqs, register(r) PROVE RouteInv'
  BY <1>4, <1>0 DEF register, StreamsApart
<1>5. ASSUME NEW r \in Reqs, write(r) PROVE RouteInv'
  BY <1>5, <1>0 DEF write, StreamsApart
<1>6. ASSUME NEW r \in Reqs, getEvent(r) PROVE RouteInv'
  <2>1. queue[r] \in Seq(Events \cup {WorkerExit}) /\ queue[r] # << >>
        /\ queue' = [queue EXCEPT ![r] = Tail(queue[r])]
    BY <1>6, <1>0 DEF getEvent
  <2>2. \A o \in Reqs : Apart(queue'[o], o)
    BY <1>0, <2>1, EventTaken
  <2>3. StreamsApart'
    BY <2>2 DEF StreamsApart, Apart, Stream
  <2> QED BY <1>6, <1>0, <2>3 DEF getEvent
<1>7. ASSUME NEW r \in Reqs, getTimeout(r) PROVE RouteInv'
  BY <1>7, <1>0 DEF getTimeout, StreamsApart
<1>8. ASSUME NEW r \in Reqs, consumerNext(r) PROVE RouteInv'
  BY <1>8, <1>0 DEF consumerNext, StreamsApart
<1>9. ASSUME NEW r \in Reqs, consumerBreaks(r) PROVE RouteInv'
  BY <1>9, <1>0 DEF consumerBreaks, StreamsApart
<1>10. ASSUME NEW r \in Reqs, unregister(r) PROVE RouteInv'
  BY <1>10, <1>0 DEF unregister, StreamsApart
<1>11. ASSUME NEW r \in Reqs, semRelease(r) PROVE RouteInv'
  BY <1>11, <1>0 DEF semRelease, StreamsApart
<1>12. ASSUME NEW r \in Reqs, cancel(r) PROVE RouteInv'
  BY <1>12, <1>0 DEF cancel, StreamsApart
<1>13. ASSUME NEW r \in Reqs, taskCancelled(r) PROVE RouteInv'
  BY <1>13, <1>0 DEF taskCancelled, StreamsApart
<1>14. ASSUME NEW r \in Reqs, lateAcquire(r) PROVE RouteInv'
  BY <1>14, <1>0 DEF lateAcquire, StreamsApart
<1>15. ASSUME NEW r \in Reqs, zombieEnds(r) PROVE RouteInv'
  BY <1>15, <1>0 DEF zombieEnds, StreamsApart
<1>16. ASSUME execStart PROVE RouteInv'
  BY <1>16, <1>0 DEF execStart, StreamsApart
<1>17. ASSUME closeFlag PROVE RouteInv'
  BY <1>17, <1>0 DEF closeFlag, StreamsApart
<1>18. ASSUME closeSnapshot PROVE RouteInv'
  BY <1>18, <1>0 DEF closeSnapshot, StreamsApart
<1>19. ASSUME closeWake PROVE RouteInv'
  <2>1. CASE queue' = queue
    BY <1>19, <1>0, <2>1 DEF closeWake, StreamsApart
  <2>2. ASSUME NEW r \in snapshot, queue' = [queue EXCEPT ![r] = Append(queue[r], WorkerExit)]
        PROVE  RouteInv'
    <3>1. r \in Reqs /\ queue[r] \in Seq(Events \cup {WorkerExit}) /\ WorkerExit.ev \notin Stream
      BY <1>0 DEF TypeOK, WorkerExit, Stream
    <3>2. \A o \in Reqs : Apart(queue'[o], o)
      BY <1>0, <2>2, <3>1, EventAdded
    <3>3. StreamsApart'
      BY <3>2 DEF StreamsApart, Apart, Stream
    <3> QED BY <1>19, <1>0, <3>3 DEF closeWake
  <2> QED BY <1>19, <2>1, <2>2 DEF closeWake
<1>20. ASSUME readEvent PROVE RouteInv'
  <2> DEFINE e == Head(stdout)
  <2>1. /\ e \in Events /\ e = stdout[1] /\ 1 \in DOMAIN stdout /\ stdout' = Tail(stdout)
        /\ (e.ev \in Stream => e.rid = e.about)
    BY <1>20, <1>0 DEF readEvent
  <2>2. \A i \in DOMAIN stdout' : i + 1 \in DOMAIN stdout /\ stdout'[i] = stdout[i + 1]
    BY <1>20, <1>0, <2>1 DEF readEvent
  <2>3. e.ev \in Stream => \A q \in Routes(e) : q = e.rid
    BY DEF Routes, Stream
  <2> HIDE DEF e
  <2>4. carry' # << >> => /\ carry'[1].event = e
                          /\ Routes(e) # {} /\ carry'[1].to \in Routes(e)
    BY <1>20 DEF readEvent, e
  <2>5. carry' # << >> /\ carry'[1].event.ev \in Stream => carry'[1].event.about = carry'[1].to
    BY <2>1, <2>3, <2>4
  <2>6. StreamsApart'
    BY <1>20, <1>0 DEF readEvent, StreamsApart
  <2> QED BY <1>0, <2>2, <2>5, <2>6
<1>21. ASSUME putEvent PROVE RouteInv'
  <2> DEFINE r == carry[1].to
  <2>1. /\ r \in Reqs /\ carry[1].event \in Events \cup {WorkerExit} /\ carry # << >>
        /\ queue[r] \in Seq(Events \cup {WorkerExit})
        /\ queue' = [queue EXCEPT ![r] = Append(queue[r], carry[1].event)]
        /\ (carry[1].event.ev \in Stream => carry[1].event.about = r)
    BY <1>21, <1>0 DEF putEvent
  <2>2. queue'[r] = Append(queue[r], carry[1].event) /\ \A o \in Reqs \ {r} : queue'[o] = queue[o]
    BY <1>0, <2>1
  <2> HIDE DEF r
  <2>3. Apart(queue'[r], r)
    BY <2>1, <2>2, EventAdded
  <2>4. \A o \in Reqs : Apart(queue'[o], o)
    BY <2>2, <2>3
  <2>5. StreamsApart'
    BY <2>4 DEF StreamsApart, Apart, Stream
  <2> QED BY <1>21, <1>0, <2>5 DEF putEvent
<1>22. ASSUME readerExit PROVE RouteInv'
  <2>1. WorkerExit.ev \notin Stream
    BY DEF WorkerExit, Stream
  <2>2. \A o \in Reqs : Apart(queue'[o], o)
    BY <1>22, <1>0, <2>1, EventAdded DEF readerExit
  <2>3. StreamsApart'
    BY <2>2 DEF StreamsApart, Apart, Stream
  <2> QED BY <1>22, <1>0, <2>3 DEF readerExit
<1>23. ASSUME NEW r \in Reqs, workerReplies(r) PROVE RouteInv'
  <2>1. \E ev \in Stream \cup {"error"}, rid \in Reqs \cup {NoId} :
          Reply(ev, rid, r, FALSE) /\ (ev \in Stream => rid = r)
    <3>1. CASE Reply("error", NoId, r, FALSE)
      <4>1. "error" \in Stream \cup {"error"} /\ NoId \in Reqs \cup {NoId} /\ "error" \notin Stream
        BY DEF Stream
      <4> QED BY <3>1, <4>1
    <3>2. CASE \E ev \in Stream \cup {"error"} : Reply(ev, r, r, FALSE)
      BY <3>2
    <3> QED BY <1>23, <3>1, <3>2 DEF workerReplies, Stream
  <2>2. \A i \in DOMAIN stdout' : stdout'[i].ev \in Stream => stdout'[i].rid = stdout'[i].about
    BY <1>0, <2>1, Replied
  <2> QED BY <1>23, <1>0, <2>2 DEF workerReplies, StreamsApart
<1>24. ASSUME workerReads PROVE RouteInv'
  <2>1. CASE stdout' = stdout
    BY <1>24, <1>0, <2>1 DEF workerReads, StreamsApart
  <2>2. ASSUME NEW q \in Reqs, Reply("error", NoId, q, TRUE) PROVE RouteInv'
    <3>1. \A i \in DOMAIN stdout' : stdout'[i].ev \in Stream => stdout'[i].rid = stdout'[i].about
      BY <1>0, <2>2, Replied DEF Stream
    <3> QED BY <1>24, <1>0, <3>1 DEF workerReads, StreamsApart
  <2>3. Head(stdin).id \in Reqs
    BY <1>24, <1>0, LineRead DEF workerReads
  <2> QED BY <1>24, <2>1, <2>2, <2>3 DEF workerReads
<1>25. ASSUME workerDies PROVE RouteInv'
  BY <1>25, <1>0 DEF workerDies, StreamsApart
<1> QED
  BY <1>1, <1>2, <1>3, <1>4, <1>5, <1>6, <1>7, <1>8, <1>9, <1>10, <1>11, <1>12,
     <1>13, <1>14, <1>15, <1>16, <1>17, <1>18, <1>19, <1>20, <1>21, <1>22, <1>23,
     <1>24, <1>25 DEF Next, Steps, Reader, Closer

-----------------------------------------------------------------------------
(* Nothing is in flight at first. *)
LEMMA IOStarts == Init => IOInv
<1> SUFFICES ASSUME Init PROVE IOInv
  OBVIOUS
<1> USE WorkerIOConstants DEF Init
<1>1. TypeOK
  <2>1. sem \in 0 .. Concurrency
    OBVIOUS
  <2>2. work \in [Reqs -> [state : {"none", "busy", "tripped", "finished"},
                          chunks : 0 .. MaxChunks]]
    OBVIOUS
  <2>3. pc \in [Reqs -> PCs]
    BY DEF PCs
  <2>4. /\ queue \in [Reqs -> Seq(Events \cup {WorkerExit})] /\ jobs \in Seq(Async)
        /\ stdin \in Seq([type : {"request", "cancel"}, id : Reqs]) /\ stdout \in Seq(Events)
    OBVIOUS
  <2>5. /\ natural \in [Reqs -> BOOLEAN] /\ closed \in BOOLEAN /\ alive \in BOOLEAN
        /\ inflight \subseteq Reqs /\ snapshot \subseteq Reqs /\ zombies \subseteq Async
        /\ closer \in {"idle", "flagged", "waking", "closed"}
        /\ reader \in {"reading", "exited", "crashed"}
    OBVIOUS
  <2>6. carry \in {<< >>} \cup {<<c>> : c \in [to : Reqs, event : Events]}
    OBVIOUS
  <2> QED BY ONLY <2>1, <2>2, <2>3, <2>4, <2>5, <2>6 DEF TypeOK
<1>2. JobsInv /\ RouteInv
  BY DEF JobsInv, RouteInv, StreamsApart
<1>3. WakeInv
  BY DEF WakeInv, Written
<1>4. TokenInv
  <2>1. Holders = {}
    BY DEF Holders, Holding
  <2> QED BY <2>1, FS_EmptySet DEF TokenInv
<1> QED BY <1>1, <1>2, <1>3, <1>4 DEF IOInv

(* A step that changes nothing changes no part of the invariant. *)
LEMMA IOStutters == IOInv /\ UNCHANGED vars => IOInv'
<1> SUFFICES ASSUME IOInv, UNCHANGED vars PROVE IOInv'
  OBVIOUS
<1> USE DEF IOInv, vars, clientVars, closeVars, readerVars, workerVars
<1>1. TypeOK'
  BY DEF TypeOK
<1>2. JobsInv' /\ TokenInv'
  BY DEF JobsInv, TokenInv, Holders
<1>3. WakeInv'
  BY DEF WakeInv, Woken
<1>4. RouteInv'
  BY DEF RouteInv, StreamsApart
<1> QED BY <1>1, <1>2, <1>3, <1>4

(* The inductive invariant of the multiplexer. *)
THEOREM IOInvariant == Spec => []IOInv
<1>1. IOInv /\ [Next]_vars => IOInv'
  BY TypeKept, JobsKept, TokensKept, WakeKept, RouteKept, IOStutters DEF IOInv
<1> QED BY <1>1, IOStarts, PTL DEF Spec

(* Every variable keeps its type; in particular release() never raises the   *)
(* semaphore above its initial value.                                        *)
THEOREM WorkerIOTypeCorrect == Spec => []TypeOK
<1>1. IOInv => TypeOK
  BY DEF IOInv
<1> QED BY <1>1, IOInvariant, PTL

(* The token a request takes comes back exactly once, whatever ends it,      *)
(* unless its task was cancelled between acquire and the first check.        *)
THEOREM TokensAreConserved == Spec => []TokensConserved
<1>1. IOInv => TokensConserved
  BY DEF IOInv, TokenInv, Holders, TokensConserved
<1> QED BY <1>1, IOInvariant, PTL

(* close() and the end of the worker wake every request that waits for an    *)
(* event, however they interleave with one that is registering.              *)
THEOREM NobodyWaitsInVain == Spec => []NoVainWait
<1>1. IOInv => NoVainWait
  BY DEF IOInv, WakeInv, Woken, Written, NoVainWait
<1> QED BY <1>1, IOInvariant, PTL

(* _reader_loop: rerouting errors never mixes two streams. *)
THEOREM StreamsStayApart == Spec => []StreamsApart
<1>1. IOInv => StreamsApart
  BY DEF IOInv, RouteInv
<1> QED BY <1>1, IOInvariant, PTL
=============================================================================
