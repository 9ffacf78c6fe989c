------------------------- MODULE RunParallelProofs -------------------------
(***************************************************************************)
(* For every number of workers and of tests: the master writes only to a   *)
(* worker that waits for it, its count is honest, and a pool that reports  *)
(* no failure has run every test.                                          *)
(***************************************************************************)
EXTENDS RunParallel, NatLemmas, FiniteSetTheorems

LEMMA WorkersFinite == IsFiniteSet(Workers) /\ Cardinality(Workers) = N /\ Workers \subseteq Nat
BY RunParallelAssumption, FS_Interval DEF Workers

\* The scan takes up a descriptor that select has found ready.
LEMMA NextToScan == ASSUME TypeOK, set # {} PROVE Min(set) \in set
<1>1. set \in SUBSET Nat
  BY WorkersFinite DEF TypeOK
<1>2. \E m \in set : \A n \in set : m <= n
  BY <1>1, LeastElement
<1> QED
  BY <1>2 DEF Min

\* The loops over the workers stay among them.
LEMMA LoopType ==
    ASSUME NEW next \in {"select", "reap", "done"}, TypeOK, Loop(next)
    PROVE  /\ master' \in [at : {"fork", "select", "scan", "close", "reap", "done"}, i : Workers]
           /\ IF master.i = N - 1 THEN master' = [at |-> next, i |-> 0]
                                  ELSE master' = [at |-> master.at, i |-> master.i + 1]
BY RunParallelAssumption DEF TypeOK, Loop, Workers

LEMMA InitIInv == Init => IInv
<1> SUFFICES ASSUME Init PROVE IInv
  OBVIOUS
<1> USE RunParallelAssumption DEF Init
<1>1. TypeOK
  <2>1. 0 \in Workers /\ total \in Nat
    BY DEF Workers
  <2>2. master \in [at : {"fork", "select", "scan", "close", "reap", "done"}, i : Workers]
    BY <2>1
  <2>3. resp \in [Workers -> Message]
    BY DEF Message
  <2>4. task \in [Workers -> Tests \union {-1}]
    OBVIOUS
  <2>5. 0 \in 0 .. total
    BY <2>1
  <2> QED
    BY <2>2, <2>3, <2>4, <2>5 DEF TypeOK
<1>2. Phases
  BY DEF Phases, Workers
<1>3. Counts
  BY FS_EmptySet DEF Counts, Holding
<1>4. Held /\ Posted /\ Taken
  BY DEF Held, Posted, Taken, Tests
<1>5. \A w \in Workers : Each(w)
  BY DEF Each, Dialogue, Asks, Runs, Listened, Unserved
<1> QED
  BY <1>1, <1>2, <1>3, <1>4, <1>5 DEF IInv

-----------------------------------------------------------------------------
(* The steps of a worker.                                                  *)

\* What is in the pipe to a worker is a test or the word to stop.
LEMMA Answer ==
    ASSUME TypeOK, NEW w \in Workers, resp[w] # <<>>
    PROVE  /\ Head(resp[w]) \in Tests \union {-1} /\ resp[w] = <<Head(resp[w])>>
           /\ Tail(resp[w]) = <<>>
<1>1. resp[w] \in Message
  BY DEF TypeOK
<1>2. PICK v \in Tests \union {-1} : resp[w] = <<v>>
  BY <1>1 DEF Message
<1> QED
  BY <1>2

LEMMA AskKeeps == ASSUME IInv, NEW w \in Workers, Ask(w) PROVE IInv'
<1> USE DEF IInv, Ask, Goes, masterVars, Tests
<1>1. Each(w) /\ req[w] = 0 /\ resp[w] = <<>>
  BY DEF Each, Dialogue
<1>2. TypeOK'
  BY <1>1 DEF TypeOK, Message
<1>3. Phases'
  BY DEF Phases, TypeOK
<1>4. (Counts /\ Held /\ Posted /\ Taken)'
  BY DEF Counts, Held, Posted, Taken, Holding, Given
<1>5. ASSUME NEW v \in Workers PROVE Each(v)'
  <2>1. Each(v)
    OBVIOUS
  <2> QED
    BY <2>1, <1>1 DEF Each, Dialogue, Asks, Runs, Listened, Unserved, TypeOK
<1> QED
  BY <1>2, <1>3, <1>4, <1>5

LEMMA GetTaskKeeps == ASSUME IInv, NEW w \in Workers, GetTask(w) PROVE IInv'
<1> USE DEF IInv, GetTask, Goes, masterVars
<1> DEFINE t == Head(resp[w])
<1>1. Each(w) /\ req[w] = 0 /\ t \in Tests /\ resp[w] = <<t>> /\ Tail(resp[w]) = <<>>
  <2>1. Each(w) /\ t \in Tests \union {-1} /\ resp[w] = <<t>> /\ Tail(resp[w]) = <<>>
    BY Answer
  <2> QED
    BY <2>1 DEF Each, Dialogue, TypeOK
<1>2. t < dispatched /\ result[t] = "waiting" /\ \A v \in Workers \ {w} : resp[v] # <<t>>
  BY <1>1 DEF Posted
<1>3. w \in Holding
  <2>1. t # -1
    BY DEF TypeOK
  <2>2. <<t>> # <<-1>>
    BY <2>1
  <2> QED
    BY <1>1, <2>2 DEF Each, Listened, Unserved, Holding
<1>4. resp' = [resp EXCEPT ![w] = <<>>]
  BY <1>1
<1>5. task' = [task EXCEPT ![w] = t] /\ result' = [result EXCEPT ![t] = "running"]
  OBVIOUS
<1> HIDE DEF t
<1>6. Tests' = Tests
  BY DEF Tests
<1>7. TypeOK'
  <2>1. resp' \in [Workers -> Message]
    BY <1>4 DEF TypeOK, Message
  <2>2. Message' = Message
    BY <1>6 DEF Message
  <2> QED
    BY <1>1, <1>5, <1>6, <2>1, <2>2 DEF TypeOK
<1>8. Phases'
  BY DEF Phases, TypeOK
<1>9. Counts'
  BY DEF Counts, Holding
<1>10. Held'
  <2> SUFFICES ASSUME NEW x \in Tests
               PROVE  IF x < dispatched
                      THEN result'[x] = "passed" \/ \E v \in Holding : Given(v)' = x
                      ELSE result'[x] = "waiting"
    BY <1>6 DEF Held, Holding
  <2>1. Given(w)' = t
    BY <1>4, <1>5 DEF Given, TypeOK
  <2>2. Given(w) = t
    BY <1>1, <1>4 DEF Given, t
  <2>3. \A v \in Workers \ {w} : Given(v)' = Given(v)
    BY <1>4, <1>5 DEF Given, TypeOK
  <2>4. Holding \subseteq Workers
    BY DEF Holding, TypeOK
  <2>5. CASE x = t
    BY <1>2, <1>3, <2>1, <2>5
  <2>6. CASE x # t
    BY <1>5, <2>1, <2>2, <2>3, <2>4, <2>6 DEF Held, TypeOK
  <2> QED
    BY <2>5, <2>6
<1>11. Posted'
  BY <1>2, <1>4, <1>5, <1>6 DEF Posted, TypeOK
<1>12. Taken'
  <2> SUFFICES ASSUME NEW v \in Workers, task'[v] # -1
               PROVE  /\ task'[v] < dispatched /\ result'[task'[v]] # "waiting"
                      /\ \A u \in Workers \ {v} : task'[u] # task'[v]
    BY DEF Taken
  <2>1. \A u \in Workers \ {w} : task[u] # t
    BY <1>1, <1>2 DEF Taken, TypeOK, Tests
  <2>2. CASE v = w
    BY <1>1, <1>2, <1>5, <2>1, <2>2 DEF TypeOK
  <2>3. CASE v # w
    BY <1>5, <2>1, <2>3 DEF Taken, TypeOK
  <2> QED
    BY <2>2, <2>3
<1>13. ASSUME NEW v \in Workers PROVE Each(v)'
  <2>1. CASE v = w
    BY <1>1, <1>3, <1>4, <1>5, <2>1
    DEF Each, Dialogue, Asks, Runs, Listened, Unserved, TypeOK, Holding, Tests
  <2>2. CASE v # w
    <3>1. Each(v) /\ (task[v] # -1 => task[v] # t)
      BY <1>2 DEF Taken
    <3> QED
      BY <1>4, <1>5, <2>2, <3>1
      DEF Each, Dialogue, Asks, Runs, Listened, Unserved, TypeOK
  <2> QED
    BY <2>1, <2>2
<1> QED
  BY <1>7, <1>8, <1>9, <1>10, <1>11, <1>12, <1>13

LEMMA LeaveKeeps == ASSUME IInv, NEW w \in Workers, Leave(w) PROVE IInv'
<1> USE DEF IInv, Leave, Goes, masterVars
<1>1. Each(w) /\ proc[w] = "read" /\ Tests' = Tests
  BY DEF Tests
<1>2. CASE resp[w] # <<>> /\ Head(resp[w]) < 0 /\ resp' = [resp EXCEPT ![w] = Tail(@)]
  <2>1. req[w] = 0 /\ resp[w] = <<-1>> /\ resp' = [resp EXCEPT ![w] = <<>>]
    <3>1. /\ Head(resp[w]) \in Tests \union {-1} /\ resp[w] = <<Head(resp[w])>>
          /\ Tail(resp[w]) = <<>>
      BY <1>2, Answer
    <3>2. Head(resp[w]) = -1
      BY <1>2, <3>1 DEF TypeOK, Tests
    <3>3. req[w] = 0
      BY <1>1, <1>2 DEF Each, Dialogue, TypeOK
    <3> QED
      BY <1>2, <3>1, <3>2, <3>3
  <2>2. \A v \in Workers \ {w} : resp'[v] = resp[v]
    BY <2>1 DEF TypeOK
  <2>3. TypeOK'
    <3>1. resp' \in [Workers -> Message] /\ Message' = Message
      BY <1>1, <2>1 DEF TypeOK, Message
    <3> QED
      BY <1>1, <3>1 DEF TypeOK
  <2>4. Held'
    <3>1. \A v \in Holding, t \in Tests : Given(v) = t => Given(v)' = t
      BY <2>1, <2>2 DEF Given, Holding, TypeOK, Tests
    <3> QED
      BY <1>1, <3>1 DEF Held, Holding
  <2>5. (Phases /\ Counts /\ Posted /\ Taken)'
    BY <1>1, <2>1 DEF Phases, Counts, Holding, Posted, Taken, TypeOK
  <2>6. ASSUME NEW v \in Workers PROVE Each(v)'
    <3>1. Each(v)
      OBVIOUS
    <3> QED
      BY <1>1, <2>1, <2>2, <3>1
      DEF Each, Dialogue, Asks, Runs, Listened, Unserved, TypeOK
  <2> QED
    BY <2>3, <2>4, <2>5, <2>6
<1>3. CASE EndOfFile(w) /\ UNCHANGED resp
  <2>1. resp[w] = <<>> /\ w \notin open
    BY <1>3 DEF EndOfFile
  <2>2. failed
    <3>1. w \in worker
      BY <1>1, <2>1 DEF Each, Listened
    <3> QED
      BY <2>1, <3>1 DEF Phases, TypeOK
  <2>3. TypeOK'
    BY <1>1, <1>3 DEF TypeOK, Message
  <2>4. (Phases /\ Counts /\ Held /\ Posted /\ Taken)'
    BY <1>1, <1>3 DEF Phases, Counts, Holding, Held, Given, Posted, Taken, TypeOK
  <2>5. ASSUME NEW v \in Workers PROVE Each(v)'
    <3>1. Each(v)
      OBVIOUS
    <3> QED
      BY <1>1, <1>3, <2>2, <3>1
      DEF Each, Dialogue, Asks, Runs, Listened, Unserved, TypeOK
  <2> QED
    BY <2>3, <2>4, <2>5
<1> QED
  BY <1>2, <1>3

\* A test ends: it has passed, or the process with it.
LEMMA EndsKeeps == ASSUME IInv, NEW w \in Workers, Ends(w) PROVE IInv'
<1> USE DEF IInv, Ends, Pass, Abort, Goes, masterVars
<1>1. /\ Each(w) /\ proc[w] = "test" /\ task[w] # -1 /\ resp[w] = <<>> /\ req[w] = 0
      /\ w \in Holding /\ task[w] \in Tests /\ Tests' = Tests
  BY DEF Each, Dialogue, Runs, Listened, Unserved, Holding, TypeOK, Tests
<1>2. /\ task[w] < dispatched /\ result[task[w]] # "waiting"
      /\ \A v \in Workers \ {w} : task[v] # task[w]
  BY <1>1 DEF Taken
<1>3. PICK r \in {"passed", "aborted"} :
          /\ result' = [result EXCEPT ![task[w]] = r]
          /\ proc' = [proc EXCEPT ![w] = IF r = "passed" THEN "ask" ELSE "dead"]
  OBVIOUS
<1>4. UNCHANGED <<total, master, set, open, worker, first, dispatched, passed, failed,
                  req, resp, task>>
  OBVIOUS
<1> HIDE DEF Ends, Pass, Abort
<1>5. TypeOK'
  <2>1. Message' = Message
    BY <1>1 DEF Message
  <2> QED
    BY <1>1, <1>3, <1>4, <2>1 DEF TypeOK
<1>6. (Phases /\ Counts)'
  BY <1>1, <1>3, <1>4 DEF Phases, Counts, Holding, TypeOK
<1>7. Held'
  <2>1. Given(w) = task[w]
    BY <1>1 DEF Given
  <2>2. \A v \in Workers : Given(v)' = Given(v)
    BY <1>4 DEF Given
  <2>3. \A x \in Tests \ {task[w]} : result'[x] = result[x]
    BY <1>3 DEF TypeOK
  <2>4. Holding' = Holding /\ Holding \subseteq Workers
    BY <1>4 DEF Holding, TypeOK
  <2> QED
    BY <1>1, <1>2, <1>4, <2>1, <2>2, <2>3, <2>4 DEF Held
<1>8. (Posted /\ Taken)'
  BY <1>1, <1>2, <1>3, <1>4 DEF Posted, Taken, TypeOK
<1>9. ASSUME NEW v \in Workers PROVE Each(v)'
  <2>1. Each(v)
    OBVIOUS
  <2>2. CASE v = w
    BY <1>1, <1>3, <1>4, <2>2
    DEF Each, Dialogue, Asks, Runs, Listened, Unserved, TypeOK
  <2>3. CASE v # w
    BY <1>1, <1>2, <1>3, <1>4, <2>1, <2>3
    DEF Each, Dialogue, Asks, Runs, Listened, Unserved, TypeOK
  <2> QED
    BY <2>2, <2>3
<1> QED
  BY <1>5, <1>6, <1>7, <1>8, <1>9

LEMMA ExitKeeps == ASSUME IInv, NEW w \in Workers, Exit(w) PROVE IInv'
<1> USE DEF IInv, Exit, Goes, masterVars
<1>1. TypeOK'
  BY DEF TypeOK, Message, Tests
<1>2. (Phases /\ Counts /\ Held /\ Posted /\ Taken)'
  BY DEF Phases, Counts, Holding, Held, Given, Posted, Taken, TypeOK, Tests
<1>3. ASSUME NEW v \in Workers PROVE Each(v)'
  <2>1. Each(v)
    OBVIOUS
  <2> QED
    BY <2>1 DEF Each, Dialogue, Asks, Runs, Listened, Unserved, TypeOK
<1> QED
  BY <1>1, <1>2, <1>3

-----------------------------------------------------------------------------
(* The steps of the master.                                                *)

LEMMA ForkKeeps == ASSUME IInv, Fork PROVE IInv'
<1> USE DEF IInv, Fork, Goes
<1> DEFINE i == master.i
<1>1. /\ i \in Workers /\ i \in Nat /\ i <= N - 1 /\ N \in Nat /\ worker = 0 .. i - 1
      /\ set = {} /\ first = Workers /\ proc[i] = "unborn" /\ i \in first
  BY RunParallelAssumption DEF Phases, TypeOK, Workers
<1>2. /\ master' \in [at : {"fork", "select", "scan", "close", "reap", "done"}, i : Workers]
      /\ IF i = N - 1 THEN master' = [at |-> "select", i |-> 0]
                      ELSE master' = [at |-> "fork", i |-> i + 1]
  BY LoopType
<1>3. /\ worker' = worker \union {i} /\ open' = open \union {i}
      /\ proc' = [proc EXCEPT ![i] = "ask"] /\ Tests' = Tests
      /\ UNCHANGED <<total, set, first, dispatched, passed, failed, req, resp, task, result>>
  BY DEF Tests
<1> HIDE DEF Fork, i
<1>4. TypeOK'
  BY <1>1, <1>2, <1>3 DEF TypeOK, Message
<1>5. worker' = 0 .. i
  BY <1>1, <1>3
<1>6. Phases'
  <2>1. CASE i = N - 1
    BY <1>1, <1>2, <1>3, <1>5, <2>1 DEF Phases, TypeOK, Workers, i
  <2>2. CASE i # N - 1
    BY <1>1, <1>2, <1>3, <1>5, <2>2 DEF Phases, TypeOK, Workers, i
  <2> QED
    BY <2>1, <2>2
<1>7. (Counts /\ Held /\ Posted /\ Taken)'
  <2>1. Holding' = Holding
    BY <1>1, <1>3 DEF Holding
  <2> QED
    BY <1>3, <2>1 DEF Counts, Held, Given, Posted, Taken
<1>8. ASSUME NEW v \in Workers PROVE Each(v)'
  <2>1. Each(v) /\ Each(i)
    BY <1>1
  <2>2. CASE v = i
    BY <1>1, <1>3, <2>1, <2>2
    DEF Each, Dialogue, Asks, Runs, Listened, Unserved, TypeOK
  <2>3. CASE v # i
    BY <1>1, <1>3, <2>1, <2>3
    DEF Each, Dialogue, Asks, Runs, Listened, Unserved, TypeOK
  <2> QED
    BY <2>2, <2>3
<1> QED
  BY <1>4, <1>6, <1>7, <1>8

\* Select, the end of the loop, the failure and the closing move the master only.
LEMMA MasterKeeps ==
    ASSUME IInv, Select \/ NoMore \/ (set # {} /\ Fail) \/ Close
    PROVE  IInv'
<1> USE DEF IInv
<1>1. /\ UNCHANGED <<total, worker, first, dispatched, passed, req, resp, proc, task, result>>
      /\ Tests' = Tests /\ Message' = Message
  BY DEF Select, NoMore, Fail, Close, Tests, Message
<1>2. TypeOK' /\ Phases'
  <2>1. CASE Select
    BY <1>1, <2>1 DEF Select, TypeOK, Phases
  <2>2. CASE NoMore
    BY <1>1, <2>2 DEF NoMore, TypeOK, Phases
  <2>3. CASE set # {} /\ Fail
    BY <1>1, <2>3 DEF Fail, TypeOK, Phases
  <2>4. CASE Close
    <3>1. /\ master' \in [at : {"fork", "select", "scan", "close", "reap", "done"}, i : Workers]
          /\ master'.at \in {"close", "reap"} /\ master.at = "close"
      BY <2>4, LoopType DEF Close
    <3> QED
      BY <1>1, <2>4, <3>1 DEF Close, TypeOK, Phases
  <2> QED
    BY <2>1, <2>2, <2>3, <2>4
<1>3. (Counts /\ Held /\ Posted /\ Taken)'
  BY <1>1 DEF Counts, Held, Holding, Given, Posted, Taken
<1>4. failed => failed'
  BY DEF Select, NoMore, Fail, Close, TypeOK
<1>5. ASSUME NEW v \in Workers PROVE Each(v)'
  <2>1. Each(v)
    OBVIOUS
  <2> QED
    BY <1>1, <1>4, <2>1 DEF Each, Dialogue, Asks, Runs, Listened, Unserved
<1> QED
  BY <1>2, <1>3, <1>5

LEMMA ReapKeeps == ASSUME IInv, Reap PROVE IInv'
<1> USE DEF IInv, Reap, Goes
<1> DEFINE i == master.i
<1>1. i \in Workers /\ master.at = "reap" /\ (failed \/ proc[i] = "dead")
  BY DEF TypeOK, Dead
<1>2. /\ master' \in [at : {"fork", "select", "scan", "close", "reap", "done"}, i : Workers]
      /\ master'.at \in {"reap", "done"}
  BY <1>1, LoopType
<1>3. /\ proc' = [proc EXCEPT ![i] = "dead"] /\ Tests' = Tests /\ Message' = Message
      /\ UNCHANGED <<total, set, open, worker, first, dispatched, passed, failed,
                     req, resp, task, result>>
  BY DEF Tests, Message
<1> HIDE DEF Reap, i
<1>4. TypeOK'
  BY <1>1, <1>2, <1>3 DEF TypeOK
<1>5. Phases'
  BY <1>1, <1>2, <1>3 DEF Phases, TypeOK
<1>6. (Counts /\ Held /\ Posted /\ Taken)'
  BY <1>3 DEF Counts, Held, Holding, Given, Posted, Taken
<1>7. ASSUME NEW v \in Workers PROVE Each(v)'
  <2>1. Each(v)
    OBVIOUS
  <2> QED
    BY <1>1, <1>3, <2>1 DEF Each, Dialogue, Asks, Runs, Listened, Unserved, TypeOK
<1> QED
  BY <1>4, <1>5, <1>6, <1>7

\* The count of the master, and the tests that are with the workers.
LEMMA HoldingFinite ==
    ASSUME TypeOK
    PROVE  IsFiniteSet(Holding) /\ Cardinality(Holding) \in Nat /\ Cardinality(Holding) <= N
BY WorkersFinite, FS_Subset, FS_CardinalityType DEF Holding, TypeOK

LEMMA ServeKeeps == ASSUME IInv, set # {}, Serve PROVE IInv'
<1> USE DEF IInv
<1>1. PICK w \in {Min(set)} :
          /\ master.at = "scan" /\ req[w] > 0
          /\ req' = [req EXCEPT ![w] = @ - 1]
          /\ Count(w)
          /\ IF dispatched < total
             THEN /\ resp' = [resp EXCEPT ![w] = Append(@, dispatched)]
                  /\ dispatched' = dispatched + 1
                  /\ UNCHANGED worker
             ELSE /\ resp' = [resp EXCEPT ![w] = Append(@, -1)]
                  /\ worker' = worker \ {w}
                  /\ UNCHANGED dispatched
          /\ Scanned(w)
          /\ UNCHANGED <<total, open, failed, proc, task, result>>
  BY DEF Serve
<1>2. w \in set /\ w \in worker /\ w \in Workers /\ Tests' = Tests /\ Message' = Message
  BY <1>1, NextToScan DEF TypeOK, Tests, Message
<1>3. /\ Each(w) /\ ~failed /\ proc[w] = "read" /\ resp[w] = <<>> /\ req[w] = 1
      /\ dispatched \in Nat /\ total \in Nat /\ passed \in Nat /\ dispatched <= total
  BY <1>1, <1>2, RunParallelAssumption DEF Each, Dialogue, Phases, TypeOK
<1> DEFINE answer == IF dispatched < total THEN dispatched ELSE -1
<1>4. /\ req' = [req EXCEPT ![w] = 0] /\ resp' = [resp EXCEPT ![w] = <<answer>>]
      /\ answer \in Tests \union {-1} /\ (answer = -1 <=> dispatched = total)
      /\ UNCHANGED <<total, open, failed, proc, task, result>>
      /\ first' = first \ {w}
      /\ set' = set \ {w}
      /\ master' = [master EXCEPT !.at = IF set = {w} THEN "select" ELSE "scan"]
  BY <1>1, <1>3 DEF Count, Scanned, Tests
<1>5. IF answer = -1 THEN worker' = worker \ {w} /\ dispatched' = dispatched
                     ELSE worker' = worker /\ dispatched' = dispatched + 1 /\ answer = dispatched
  BY <1>1, <1>3
<1>6. passed' = IF w \in first THEN passed ELSE passed + 1
  BY <1>1 DEF Count
<1>7. Counts' /\ passed' \in 0 .. total
  <2>1. IsFiniteSet(Holding) /\ Cardinality(Holding) \in Nat
    BY HoldingFinite
  <2>2. IsFiniteSet(Holding') /\ Cardinality(Holding') \in Nat
    <3>1. Holding' \subseteq Workers
      BY <1>4, <1>5, <1>2 DEF Holding, TypeOK
    <3> QED
      BY <3>1, WorkersFinite, FS_Subset, FS_CardinalityType
  <2>3. CASE w \in first /\ answer # -1
    <3>1. Holding' = Holding \union {w} /\ w \notin Holding
      BY <1>2, <1>4, <1>5, <2>3 DEF Holding
    <3>2. Cardinality(Holding') = Cardinality(Holding) + 1
      BY <2>1, <3>1, FS_AddElement
    <3> QED
      BY <1>3, <1>4, <1>5, <1>6, <2>1, <2>3, <3>2 DEF Counts, TypeOK
  <2>4. CASE w \in first /\ answer = -1
    <3>1. Holding' = Holding
      BY <1>2, <1>4, <1>5, <2>4 DEF Holding
    <3> QED
      BY <1>3, <1>4, <1>5, <1>6, <2>1, <2>4, <3>1 DEF Counts, TypeOK
  <2>5. CASE w \notin first
    <3>1. w \in Holding
      BY <1>2, <2>5 DEF Holding
    <3>2. Cardinality(Holding \ {w}) = Cardinality(Holding) - 1
      BY <2>1, <3>1, FS_RemoveElement
    <3>3. Cardinality(Holding) >= 1
      <4>1. Cardinality(Holding \ {w}) \in Nat
        BY <2>1, FS_Subset, FS_CardinalityType
      <4> QED
        BY <2>1, <3>2, <4>1
    <3>4. Holding' = IF answer = -1 THEN Holding \ {w} ELSE Holding
      BY <1>2, <1>4, <1>5, <2>5 DEF Holding
    <3> QED
      BY <1>3, <1>4, <1>5, <1>6, <2>1, <2>5, <3>2, <3>3, <3>4 DEF Counts, TypeOK
  <2> QED
    BY <2>3, <2>4, <2>5
<1> HIDE DEF answer
<1>8. TypeOK'
  <2>1. resp' \in [Workers -> Message]
    BY <1>4 DEF TypeOK, Message
  <2>2. dispatched' \in 0 .. total
    BY <1>3, <1>4, <1>5 DEF Tests
  <2> QED
    BY <1>2, <1>4, <1>5, <1>7, <2>1, <2>2 DEF TypeOK
<1>9. Phases'
  BY <1>1, <1>2, <1>3, <1>4, <1>5 DEF Phases, TypeOK
<1>10. answer # -1 => \A v \in Workers : resp[v] # <<answer>>
  <2> SUFFICES ASSUME answer # -1, NEW v \in Workers, resp[v] = <<answer>> PROVE FALSE
    OBVIOUS
  <2>1. answer \in Tests /\ answer = dispatched
    BY <1>4, <1>5
  <2>2. answer < dispatched
    BY <2>1 DEF Posted
  <2> QED
    BY <1>3, <2>1, <2>2
<1>11. Held'
  <2> SUFFICES ASSUME NEW t \in Tests
               PROVE  IF t < dispatched'
                      THEN result[t] = "passed" \/ \E v \in Holding' : Given(v)' = t
                      ELSE result[t] = "waiting"
    BY <1>2, <1>4 DEF Held
  <2>1. \A v \in Workers \ {w} : Given(v)' = Given(v) /\ (v \in Holding => v \in Holding')
    BY <1>4, <1>5 DEF Given, Holding, TypeOK
  <2>2. Given(w) = task[w] /\ Given(w)' = answer /\ Holding \subseteq Workers
    BY <1>2, <1>3, <1>4 DEF Given, Holding, TypeOK
  <2>3. CASE t < dispatched
    <3>1. CASE Given(w) = t
      BY <1>3, <2>2, <3>1, <2>3, <1>4, <1>5 DEF Each, Asks, Tests, TypeOK
    <3>2. CASE Given(w) # t
      BY <1>3, <1>5, <2>1, <2>2, <2>3, <3>2 DEF Held, Tests
    <3> QED
      BY <3>1, <3>2
  <2>4. CASE t = dispatched /\ answer # -1
    <3>1. w \in Holding'
      BY <1>2, <1>4, <1>5, <2>4 DEF Holding
    <3> QED
      BY <1>3, <1>5, <2>2, <2>4, <3>1
  <2>5. CASE ~(t < dispatched) /\ (t # dispatched \/ answer = -1)
    BY <1>3, <1>5, <2>5 DEF Held, Tests
  <2> QED
    BY <1>3, <2>3, <2>4, <2>5 DEF Tests
<1>12. Posted'
  <2> SUFFICES ASSUME NEW v \in Workers, NEW t \in Tests, resp'[v] = <<t>>
               PROVE  /\ t < dispatched' /\ result[t] = "waiting"
                      /\ \A u \in Workers \ {v} : resp'[u] # <<t>>
    BY <1>2, <1>4 DEF Posted
  <2>1. t \in Nat /\ t # -1 /\ dispatched' >= dispatched
    BY <1>3, <1>5 DEF Tests
  <2>2. CASE v = w
    <3>1. answer = t /\ t = dispatched /\ dispatched' = dispatched + 1
      <4>1. <<answer>> = <<t>>
        BY <1>4, <2>2 DEF TypeOK
      <4> QED
        BY <4>1, <1>5, <2>1
    <3>2. result[t] = "waiting"
      BY <1>3, <3>1 DEF Held
    <3>3. \A u \in Workers \ {v} : resp'[u] # <<t>>
      BY <1>4, <1>10, <2>1, <2>2, <3>1 DEF TypeOK
    <3> QED
      BY <1>3, <3>1, <3>2, <3>3
  <2>3. CASE v # w
    <3>1. resp[v] = <<t>>
      BY <1>4, <2>3 DEF TypeOK
    <3>2. t < dispatched /\ result[t] = "waiting" /\ \A u \in Workers \ {v} : resp[u] # <<t>>
      BY <3>1 DEF Posted
    <3>3. <<answer>> # <<t>>
      BY <1>3, <1>5, <2>1, <3>2
    <3>4. \A u \in Workers : resp'[u] = IF u = w THEN <<answer>> ELSE resp[u]
      BY <1>4 DEF TypeOK
    <3>5. t < dispatched'
      BY <1>3, <1>5, <2>1, <3>2
    <3> QED
      BY <3>2, <3>3, <3>4, <3>5
  <2> QED
    BY <2>2, <2>3
<1>13. Taken'
  BY <1>3, <1>4, <1>5 DEF Taken, TypeOK, Tests
<1>14. ASSUME NEW v \in Workers PROVE Each(v)'
  <2>1. Each(v)
    OBVIOUS
  <2>2. CASE v = w
    <3>1. answer # -1 => <<answer>> # <<-1>>
      OBVIOUS
    <3> QED
      BY <1>2, <1>3, <1>4, <1>5, <2>2, <3>1
      DEF Each, Dialogue, Asks, Runs, Listened, Unserved, TypeOK
  <2>3. CASE v # w
    BY <1>2, <1>3, <1>4, <1>5, <2>1, <2>3
    DEF Each, Dialogue, Asks, Runs, Listened, Unserved, TypeOK
  <2> QED
    BY <2>2, <2>3
<1> QED
  BY <1>7, <1>8, <1>9, <1>11, <1>12, <1>13, <1>14

-----------------------------------------------------------------------------
LEMMA IInvInvariant == Safety => []IInv
<1>1. IInv /\ [Next]_vars => IInv'
  <2> SUFFICES ASSUME IInv, [Next]_vars PROVE IInv'
    OBVIOUS
  <2>1. CASE Master
    BY <2>1, ForkKeeps, MasterKeeps, ServeKeeps, ReapKeeps DEF Master
  <2>2. ASSUME NEW w \in Workers, Works(w) \/ Ends(w) PROVE IInv'
    BY <2>2, AskKeeps, GetTaskKeeps, LeaveKeeps, ExitKeeps, EndsKeeps DEF Works
  <2>3. CASE Done \/ UNCHANGED vars
    <3>1. UNCHANGED vars
      BY <2>3 DEF Done
    <3>2. UNCHANGED <<TypeOK, Phases, Counts>>
      BY <3>1 DEF vars, masterVars, TypeOK, Message, Tests, Phases, Counts, Holding
    <3>3. UNCHANGED <<Held, Posted, Taken>>
      BY <3>1 DEF vars, masterVars, Tests, Holding, Given, Held, Posted, Taken
    <3>4. \A w \in Workers : UNCHANGED Each(w)
      BY <3>1 DEF vars, masterVars, Each, Dialogue, Asks, Runs, Listened, Unserved
    <3> QED
      BY <3>2, <3>3, <3>4 DEF IInv
  <2> QED
    BY <2>1, <2>2, <2>3 DEF Next
<1> QED
  BY InitIInv, <1>1, PTL DEF Safety

\* Type correctness: in particular no pipe ever holds more than one message.
THEOREM PoolTypeOK == Safety => []TypeOK
<1>1. IInv => TypeOK
  BY DEF IInv
<1> QED
  BY IInvInvariant, <1>1, PTL

\* An answer of the master always finds its worker waiting for it.
THEOREM PoolReaderWaits == Safety => []ReaderWaits
<1>1. IInv => ReaderWaits
  BY DEF IInv, TypeOK, Each, Dialogue, ReaderWaits
<1> QED
  BY IInvInvariant, <1>1, PTL

\* run_parallel reports no failure only if every test has passed, and has counted each.
THEOREM PoolVerdict == Safety => []Verdict
<1>1. IInv => Verdict
  <2> SUFFICES ASSUME IInv, master.at = "done", ~failed
               PROVE  Passed = Tests /\ passed = total
    BY DEF Verdict
  <2>1. worker = {} /\ Holding = {}
    BY DEF IInv, Phases, Holding
  <2>2. 0 \in Workers
    BY RunParallelAssumption DEF Workers
  <2>3. dispatched = total /\ passed = total
    BY <2>1, <2>2, FS_EmptySet DEF IInv, TypeOK, Phases, Counts
  <2>4. ASSUME NEW t \in Tests PROVE result[t] = "passed"
    <3>1. t < dispatched
      BY <2>3, RunParallelAssumption DEF IInv, TypeOK, Tests
    <3> QED
      BY <2>1, <3>1 DEF IInv, Held
  <2> QED
    BY <2>3, <2>4 DEF Passed
<1> QED
  BY IInvInvariant, <1>1, PTL

\* At any time the count is at most the tests that have passed, and short by no more
\* than one for each worker, in a failing pool as well.
THEOREM PoolCountIsHonest == Safety => []CountIsHonest
<1>1. IInv => CountIsHonest
  <2> SUFFICES ASSUME IInv PROVE CountIsHonest
    OBVIOUS
  <2> DEFINE Sent == 0 .. dispatched - 1
             Pending == Sent \ Passed
             Holders == {w \in Holding : Given(w) \in Pending}
             given == [w \in Holders |-> Given(w)]
  <2>1. total \in Nat /\ dispatched \in Nat /\ passed \in Nat /\ dispatched <= total
    BY RunParallelAssumption DEF IInv, TypeOK
  <2>2. Sent \subseteq Tests /\ IsFiniteSet(Sent) /\ Cardinality(Sent) = dispatched
    BY <2>1, FS_Interval DEF Tests
  <2>3. Passed \subseteq Sent
    BY <2>1 DEF IInv, Held, Passed, Tests
  <2>4. /\ IsFiniteSet(Passed) /\ IsFiniteSet(Pending)
        /\ Cardinality(Passed) \in Nat /\ Cardinality(Pending) \in Nat
    BY <2>2, <2>3, FS_Subset, FS_CardinalityType
  <2>5. Cardinality(Passed) + Cardinality(Pending) = dispatched
    <3>1. Passed = Sent \intersect Passed
      BY <2>3
    <3>2. Cardinality(Sent \ Passed) = Cardinality(Sent) - Cardinality(Sent \intersect Passed)
      BY <2>2, <2>4, FS_Difference
    <3>3. Cardinality(Pending) = dispatched - Cardinality(Passed)
      BY <2>2, <3>1, <3>2
    <3> HIDE DEF Pending
    <3> QED
      BY <2>1, <2>4, <3>3
  <2>6. IsFiniteSet(Holding) /\ Cardinality(Holding) \in Nat /\ Cardinality(Holding) <= N
    BY HoldingFinite DEF IInv
  <2>7. /\ IsFiniteSet(Holders) /\ Cardinality(Holders) \in Nat
        /\ Cardinality(Holders) <= Cardinality(Holding)
    <3>1. Holders \subseteq Holding
      OBVIOUS
    <3> QED
      BY <3>1, <2>6, FS_Subset, FS_CardinalityType
  <2>8. Cardinality(Pending) <= Cardinality(Holders)
    <3>1. \A t \in Pending : \E w \in Holders : Given(w) = t
      BY <2>1, <2>2 DEF IInv, Held, Passed, Tests
    <3>2. given \in Surjection(Holders, Pending)
      BY <3>1 DEF Surjection
    <3> QED
      BY <2>7, <3>2, FS_Surjection
  <2>9. passed + Cardinality(Holding) = dispatched
    BY DEF IInv, Counts
  <2> HIDE DEF Pending, Holders
  <2>10. passed <= Cardinality(Passed) /\ Cardinality(Passed) <= passed + N
    BY <2>1, <2>4, <2>5, <2>6, <2>7, <2>8, <2>9, RunParallelAssumption
  <2> QED
    BY <2>10 DEF CountIsHonest
<1> QED
  BY IInvInvariant, <1>1, PTL
=============================================================================
