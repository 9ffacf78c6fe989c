---------------------------- MODULE RunParallel ----------------------------
(***************************************************************************)
(* testbench.cpp, run_parallel and run_worker: a master process and N      *)
(* forked workers, with a pipe in each direction.  A worker asks for a     *)
(* task with one byte; the master answers with the next test or with -1.   *)
(* A test that fails aborts its process.  The assertions around read and   *)
(* write are evaluated (no NDEBUG) and the calls themselves succeed.       *)
(***************************************************************************)
EXTENDS Integers, Sequences, FiniteSets, FiniteSetsExt

CONSTANTS N,            \* n_workers
          Totals        \* how many tests there may be
ASSUME RunParallelAssumption == N \in Nat \ {0} /\ Totals \subseteq Nat

Workers == 0 .. N - 1

VARIABLES total,        \* test_list.size()
          master,       \* at, and i: the line of the master and the index of its loop
          set,          \* the descriptors select has found ready, still to be scanned
          open,         \* the write ends the master still has: master[i] is not closed
          worker,       \* the read ends it listens to: worker[i] # -1
          first, dispatched, passed, failed,
          req, resp,    \* the two pipes of each worker: bytes, and integers
          proc, task,   \* where a worker is, and the test it was last given
          result        \* ghost: what became of each test

masterVars == <<master, set, open, worker, first, dispatched, passed, failed>>
vars == <<total, masterVars, req, resp, proc, task, result>>

Tests == 0 .. total - 1
Dead(w) == proc[w] = "dead"

\* After w a worker inherits the write end of w's resp pipe, and never closes it.
EndOfFile(w) == /\ resp[w] = <<>>
                /\ w \notin open
                /\ \A v \in Workers : v > w => Dead(v)
\* The write end of w's req pipe is in w alone.
Readable(w) == req[w] > 0 \/ Dead(w)

Init == /\ total \in Totals
        /\ master = [at |-> "fork", i |-> 0]
        /\ set = {} /\ open = {} /\ worker = {}
        /\ first = Workers
        /\ dispatched = 0 /\ passed = 0 /\ failed = FALSE
        /\ req = [w \in Workers |-> 0]
        /\ resp = [w \in Workers |-> <<>>]
        /\ proc = [w \in Workers |-> "unborn"]
        /\ task = [w \in Workers |-> -1]
        /\ result = [t \in Tests |-> "waiting"]

-----------------------------------------------------------------------------
(* run_worker.                                                             *)

Goes(w, place) == proc' = [proc EXCEPT ![w] = place]

\* Mutant of Ask: the write is inside an assertion that is compiled away.
AskNothing(w) == /\ proc[w] = "ask"
                 /\ Goes(w, "read")
                 /\ UNCHANGED <<total, masterVars, req, resp, task, result>>

Ask(w) == /\ proc[w] = "ask"
          /\ req' = [req EXCEPT ![w] = @ + 1]
          /\ Goes(w, "read")
          /\ UNCHANGED <<total, masterVars, resp, task, result>>

\* Mutant of GetTask: the answer stays in the pipe.
GetTaskKeeping(w) == /\ proc[w] = "read" /\ resp[w] # <<>> /\ Head(resp[w]) >= 0
                     /\ task' = [task EXCEPT ![w] = Head(resp[w])]
                     /\ result' = [result EXCEPT ![Head(resp[w])] = "running"]
                     /\ Goes(w, "test")
                     /\ UNCHANGED <<total, masterVars, req, resp>>

\* Mutant of GetTask: the worker asks for its next task before it runs this one.
GetTaskAhead(w) == /\ proc[w] = "read" /\ resp[w] # <<>> /\ Head(resp[w]) >= 0
                   /\ resp' = [resp EXCEPT ![w] = Tail(@)]
                   /\ req' = [req EXCEPT ![w] = @ + 1]
                   /\ task' = [task EXCEPT ![w] = Head(resp[w])]
                   /\ result' = [result EXCEPT ![Head(resp[w])] = "running"]
                   /\ Goes(w, "test")
                   /\ UNCHANGED <<total, masterVars>>

GetTask(w) == /\ proc[w] = "read" /\ resp[w] # <<>> /\ Head(resp[w]) >= 0
              /\ resp' = [resp EXCEPT ![w] = Tail(@)]
              /\ task' = [task EXCEPT ![w] = Head(resp[w])]
              /\ result' = [result EXCEPT ![Head(resp[w])] = "running"]
              /\ Goes(w, "test")
              /\ UNCHANGED <<total, masterVars, req>>

\* Told to stop, or the master has closed the pipe.
Leave(w) == /\ proc[w] = "read"
            /\ \/ /\ resp[w] # <<>> /\ Head(resp[w]) < 0
                  /\ resp' = [resp EXCEPT ![w] = Tail(@)]
               \/ EndOfFile(w) /\ UNCHANGED resp
            /\ Goes(w, "defers")
            /\ UNCHANGED <<total, masterVars, req, task, result>>

Pass(w) == /\ proc[w] = "test"
           /\ result' = [result EXCEPT ![task[w]] = "passed"]
           /\ Goes(w, "ask")
           /\ UNCHANGED <<total, masterVars, req, resp, task>>

\* Mutant of Abort: the worker of a failed test goes on.
AbortNot(w) == /\ proc[w] = "test"
               /\ result' = [result EXCEPT ![task[w]] = "aborted"]
               /\ Goes(w, "ask")
               /\ UNCHANGED <<total, masterVars, req, resp, task>>

Abort(w) == /\ proc[w] = "test"
            /\ result' = [result EXCEPT ![task[w]] = "aborted"]
            /\ Goes(w, "dead")
            /\ UNCHANGED <<total, masterVars, req, resp, task>>

\* run_defers and exit.
Exit(w) == /\ proc[w] = "defers"
           /\ Goes(w, "dead")
           /\ UNCHANGED <<total, masterVars, req, resp, task, result>>

-----------------------------------------------------------------------------
(* run_parallel.                                                           *)

\* A loop over all workers, and the place after it.
Loop(next) == master' = IF master.i = N - 1 THEN [at |-> next, i |-> 0]
                        ELSE [master EXCEPT !.i = @ + 1]

Fork == /\ master.at = "fork"
        /\ Goes(master.i, "ask")
        /\ open' = open \union {master.i}
        /\ worker' = worker \union {master.i}
        /\ Loop("select")
        /\ UNCHANGED <<total, set, first, dispatched, passed, failed, req, resp, task, result>>

\* select returns when something is ready, with all that is.
Select == /\ master.at = "select"
          /\ ~failed /\ worker # {}
          /\ set' = {w \in worker : Readable(w)}
          /\ set' # {}
          /\ master' = [master EXCEPT !.at = "scan"]
          /\ UNCHANGED <<total, open, worker, first, dispatched, passed, failed,
                         req, resp, proc, task, result>>

NoMore == /\ master.at = "select"
          /\ failed \/ worker = {}
          /\ master' = [master EXCEPT !.at = "close"]
          /\ UNCHANGED <<total, set, open, worker, first, dispatched, passed, failed,
                         req, resp, proc, task, result>>

\* The rest of the scan, in the order of the descriptors.
Scanned(w) == /\ set' = set \ {w}
              /\ master' = [master EXCEPT !.at = IF set = {w} THEN "select" ELSE "scan"]

\* Mutant of Count: the first request counts as well.
CountAll(w) == passed' = passed + 1 /\ UNCHANGED first

Count(w) == IF w \in first THEN first' = first \ {w} /\ UNCHANGED passed
                           ELSE passed' = passed + 1 /\ UNCHANGED first

Serve == \E w \in {Min(set)} :
    /\ master.at = "scan" /\ req[w] > 0
    /\ req' = [req EXCEPT ![w] = @ - 1]
    /\ Count(w)
    /\ IF dispatched < total
       THEN /\ resp' = [resp EXCEPT ![w] = Append(@, dispatched)]
            /\ dispatched' = dispatched + 1
            /\ UNCHANGED worker
       ELSE /\ resp' = [resp EXCEPT ![w] = Append(@, -1)]
            /\ worker' = worker \ {w}
            /\ UNCHANGED dispatched
    /\ Scanned(w)
    /\ UNCHANGED <<total, open, failed, proc, task, result>>

\* An end of file leaves the scan, with what else is in set.
Fail == \E w \in {Min(set)} :
    /\ master.at = "scan" /\ req[w] = 0
    /\ failed' = TRUE
    /\ set' = {}
    /\ master' = [master EXCEPT !.at = "select"]
    /\ UNCHANGED <<total, open, worker, first, dispatched, passed, req, resp,
                   proc, task, result>>

Close == /\ master.at = "close"
         /\ open' = open \ {master.i}
         /\ Loop("reap")
         /\ UNCHANGED <<total, set, worker, first, dispatched, passed, failed,
                        req, resp, proc, task, result>>

\* waitpid waits for a worker's end; after a failure it is killed first.
Reap == /\ master.at = "reap"
        /\ failed \/ Dead(master.i)
        /\ Goes(master.i, "dead")
        /\ Loop("done")
        /\ UNCHANGED <<total, set, open, worker, first, dispatched, passed, failed,
                       req, resp, task, result>>

Done == master.at = "done" /\ UNCHANGED vars

-----------------------------------------------------------------------------
Master == Fork \/ Select \/ NoMore \/ (set # {} /\ (Serve \/ Fail)) \/ Close \/ Reap
Works(w) == Ask(w) \/ GetTask(w) \/ Leave(w) \/ Exit(w)
Ends(w)  == Pass(w) \/ Abort(w)

Next == Master \/ Done \/ \E w \in Workers : Works(w) \/ Ends(w)

\* The system schedules every process; a test ends one way or the other.
Fairness == WF_vars(Master) /\ \A w \in Workers : WF_vars(Works(w)) /\ WF_vars(Ends(w))
Safety == Init /\ [][Next]_vars
Spec   == Safety /\ Fairness
-----------------------------------------------------------------------------
Passed == {t \in Tests : result[t] = "passed"}

\* No pipe ever holds more than one message.
Message == {<<>>} \union {<<v>> : v \in Tests \union {-1}}
TypeOK == /\ total \in Totals
          /\ master \in [at : {"fork", "select", "scan", "close", "reap", "done"}, i : Workers]
          /\ set \subseteq worker /\ open \subseteq Workers /\ worker \subseteq Workers
          /\ first \subseteq Workers
          /\ dispatched \in 0 .. total /\ passed \in 0 .. total /\ failed \in BOOLEAN
          /\ req \in [Workers -> {0, 1}]
          /\ resp \in [Workers -> Message]
          /\ proc \in [Workers -> {"unborn", "ask", "read", "test", "defers", "dead"}]
          /\ task \in [Workers -> Tests \union {-1}]
          /\ result \in [Tests -> {"waiting", "running", "passed", "aborted"}]

(* Unless the pool reports a failure, every test has passed and is counted *)
(* (run_parallel's result; the count the master keeps is of requests).     *)
Verdict == master.at = "done" /\ ~failed => Passed = Tests /\ passed = total

(* At no time does the count include a test that has not passed, or leave  *)
(* out more than one for each worker, in a failing pool either             *)
(* ("the end of file leaves the scan": requests in other pipes are lost).  *)
CountIsHonest == /\ passed <= Cardinality(Passed)
                 /\ Cardinality(Passed) <= passed + N

(* The master writes only to a worker that is there to read: an answer     *)
(* never goes into a broken pipe, which would kill the master, and never   *)
(* to one that still runs its last test (write in run_parallel).           *)
ReaderWaits == \A w \in Workers : req[w] > 0 /\ ~failed => proc[w] = "read" /\ resp[w] = <<>>

-----------------------------------------------------------------------------
(* The inductive invariant behind them.                                    *)

\* A worker and its pipes: it asks, is answered, runs the test, and asks again.
Dialogue(w) ==
    \/ proc[w] \in {"unborn", "ask", "test"} /\ req[w] = 0 /\ resp[w] = <<>>
    \/ proc[w] = "read" /\ (req[w] = 1 <=> resp[w] = <<>>)
    \/ proc[w] \in {"defers", "dead"} /\ (failed \/ (req[w] = 0 /\ resp[w] = <<>>))

\* A worker that asks has been given no test, or one that has passed.
Asks(w) == proc[w] \in {"unborn", "ask", "read"} /\ task[w] # -1 => result[task[w]] = "passed"
Runs(w) == proc[w] = "test" => task[w] # -1

\* A worker that has not been told to stop is listened to, one not yet served has nothing.
Listened(w) == proc[w] \in {"ask", "test"} \/ (proc[w] = "read" /\ resp[w] # <<-1>>)
                  => w \in worker
Unserved(w) == w \in first => resp[w] = <<>> /\ task[w] = -1

\* A test in a pipe waits; one that was taken does not; neither is given twice.
Posted == \A w \in Workers, t \in Tests : resp[w] = <<t>>
             => t < dispatched /\ result[t] = "waiting" /\ \A v \in Workers \ {w} : resp[v] # <<t>>
Taken  == \A w \in Workers : task[w] # -1
             => /\ task[w] < dispatched /\ result[task[w]] # "waiting"
                /\ \A v \in Workers \ {w} : task[v] # task[w]

\* The master: what it listens to it can write to; it stops listening for good.
Phases == /\ master.at = "fork" => worker = 0 .. master.i - 1 /\ set = {} /\ first = Workers
          /\ master.at \in {"fork", "scan"} => ~failed
          /\ master.at \in {"fork", "select", "scan"} => worker \subseteq open
          /\ master.at \in {"close", "reap", "done"} => failed \/ worker = {}
          /\ master.at # "fork" /\ worker # Workers => dispatched = total
          /\ \A w \in Workers : proc[w] = "unborn" <=> master.at = "fork" /\ w >= master.i

\* A worker listened to that has been served holds one test more than is counted.
Holding  == worker \ first
Counts   == passed + Cardinality(Holding) = dispatched
Given(w) == IF resp[w] # <<>> THEN Head(resp[w]) ELSE task[w]
Held     == \A t \in Tests : IF t < dispatched
                              THEN result[t] = "passed" \/ \E w \in Holding : Given(w) = t
                              ELSE result[t] = "waiting"

Each(w) == Dialogue(w) /\ Asks(w) /\ Runs(w) /\ Listened(w) /\ Unserved(w)
IInv == /\ TypeOK /\ Phases /\ Counts /\ Held /\ Posted /\ Taken
        /\ \A w \in Workers : Each(w)

(* The pool ends, and no worker outlives it ("close all master->worker     *)
(* pipes, so all the workers will finally exit ... if some tests failed    *)
(* and the worker is still alive, kill it").                               *)
PoolEnds == <>(master.at = "done" /\ \A w \in Workers : Dead(w))
=============================================================================
