----------------------------- MODULE ThreadPool ----------------------------
(***************************************************************************)
(* th_pool.cpp: S workers with one locked queue each.  schedule_job deals  *)
(* tasks round robin and wakes the workers; a worker serves its own queue, *)
(* then steals, then sleeps on a condition variable whose predicate looks  *)
(* at all queues one after the other.  The destructor stops and joins the  *)
(* workers.  Each job is scheduled by a thread of its own; the pool's      *)
(* owner may destroy it once those calls have returned, as C++ requires.   *)
(*                                                                         *)
(* A queue operation holds the queue's mutex from start to end and is one  *)
(* step.  cv_mutex is held across several steps and is a variable.         *)
(***************************************************************************)
EXTENDS Integers, Sequences, FiniteSets

CONSTANTS S,            \* number of workers
          Jobs          \* the tasks that are scheduled

NoTask == "none"        \* a worker that has dequeued nothing

ASSUME PoolAssumption == /\ S \in Nat \ {0}
                         /\ IsFiniteSet(Jobs) /\ NoTask \notin Jobs

VARIABLES promises,     \* promises[i]: the tasks in the queue of worker i
          next_queue,
          cv_mutex,     \* the worker that holds it, or Free
          caller,       \* where the schedule_job of each job is
          slot,         \* the queue it was dealt to
          future,       \* the state of each job's future
          at,           \* where each worker is in thread_handler
          idx,          \* the index of the worker's current queue loop
          task,         \* the task a worker has dequeued
          stop,         \* the stop token of each worker
          owner         \* where the pool's owner is

queueVars == <<promises, next_queue, slot>>
workerVars == <<at, idx, task>>
vars == <<queueVars, cv_mutex, caller, future, workerVars, stop, owner>>

Workers == 0 .. S - 1
Free == S               \* no worker

Init == /\ promises = [i \in Workers |-> <<>>]
        /\ next_queue = 0
        /\ cv_mutex = Free
        /\ caller = [j \in Jobs |-> "call"]
        /\ slot = [j \in Jobs |-> 0]
        /\ future = [j \in Jobs |-> "pending"]
        /\ at = [w \in Workers |-> "loop"]
        /\ idx = [w \in Workers |-> 0]
        /\ task = [w \in Workers |-> NoTask]
        /\ stop = [w \in Workers |-> FALSE]
        /\ owner = "using"

Goto(w, next) == at' = [at EXCEPT ![w] = next]

\* notify_all: every sleeper goes back for cv_mutex
Notified == [w \in Workers |-> IF at[w] = "asleep" THEN "lock" ELSE at[w]]
-----------------------------------------------------------------------------
(* schedule_job                                                            *)

Deal(j) == /\ caller[j] = "call"
           /\ slot' = [slot EXCEPT ![j] = next_queue % S]
           /\ next_queue' = next_queue + 1
           /\ caller' = [caller EXCEPT ![j] = "enqueue"]
           /\ UNCHANGED <<promises, cv_mutex, future, workerVars, stop, owner>>

Enqueue(j) == /\ caller[j] = "enqueue"
              /\ promises' = [promises EXCEPT ![slot[j]] = Append(@, j)]
              /\ caller' = [caller EXCEPT ![j] = "notify"]
              /\ UNCHANGED <<next_queue, slot, cv_mutex, future, workerVars,
                             stop, owner>>

\* Mutant of Notify: the sleeping workers are not woken.
NotifyNobody(j) == /\ caller[j] = "notify"
                   /\ cv_mutex = Free
                   /\ caller' = [caller EXCEPT ![j] = "returned"]
                   /\ UNCHANGED <<queueVars, cv_mutex, future, workerVars,
                                  stop, owner>>

\* the lock is held for the notify_all only
Notify(j) == /\ caller[j] = "notify"
             /\ cv_mutex = Free
             /\ at' = Notified
             /\ caller' = [caller EXCEPT ![j] = "returned"]
             /\ UNCHANGED <<queueVars, cv_mutex, future, idx, task, stop, owner>>
-----------------------------------------------------------------------------
(* thread_handler                                                          *)

CheckStop(w) == /\ at[w] = "loop"
                /\ Goto(w, IF stop[w] THEN "exited" ELSE "own")
                /\ UNCHANGED <<queueVars, cv_mutex, caller, future, idx, task,
                               stop, owner>>

\* Mutant of Dequeue: front() without pop().
DequeueNoPop(w, i, empty) ==
    /\ IF promises[i] = <<>>
       THEN Goto(w, empty) /\ UNCHANGED task
       ELSE /\ task' = [task EXCEPT ![w] = Head(promises[i])]
            /\ Goto(w, "run")
    /\ UNCHANGED <<queueVars, cv_mutex, caller, future, stop, owner>>

\* a dequeue from queue i by worker w, which goes on to `empty` if it fails
Dequeue(w, i, empty) ==
    /\ IF promises[i] = <<>>
       THEN Goto(w, empty) /\ UNCHANGED <<promises, task>>
       ELSE /\ task' = [task EXCEPT ![w] = Head(promises[i])]
            /\ promises' = [promises EXCEPT ![i] = Tail(@)]
            /\ Goto(w, "run")
    /\ UNCHANGED <<next_queue, slot, cv_mutex, caller, future, stop, owner>>

TakeOwn(w) == /\ at[w] = "own"
              /\ Dequeue(w, w, "steal")
              /\ idx' = [idx EXCEPT ![w] = 0]

Steal(w) == /\ at[w] = "steal"
            /\ Dequeue(w, idx[w], IF idx[w] + 1 = S THEN "lock" ELSE "steal")
            /\ idx' = [idx EXCEPT ![w] = (@ + 1) % S]

Lock(w) == /\ at[w] = "lock"
           /\ cv_mutex = Free
           /\ cv_mutex' = w
           /\ idx' = [idx EXCEPT ![w] = 0]
           /\ Goto(w, "predicate")
           /\ UNCHANGED <<queueVars, caller, future, task, stop, owner>>

\* Mutant of ScanNext: only the first queue is looked at.
ScanNextFirstOnly(w) == /\ at[w] = "predicate"
                        /\ promises[idx[w]] = <<>>
                        /\ idx' = idx
                        /\ Goto(w, "sleep")
                        /\ UNCHANGED <<queueVars, cv_mutex, caller, future,
                                       task, stop, owner>>

\* the predicate finds queue idx empty and goes on to the next one
ScanNext(w) == /\ at[w] = "predicate"
               /\ promises[idx[w]] = <<>>
               /\ idx' = [idx EXCEPT ![w] = (@ + 1) % S]
               /\ Goto(w, IF idx[w] + 1 = S THEN "sleep" ELSE "predicate")
               /\ UNCHANGED <<queueVars, cv_mutex, caller, future, task, stop,
                              owner>>

\* the predicate is true: wait returns and lk is unlocked
ScanFound(w) == /\ at[w] = "predicate"
                /\ promises[idx[w]] # <<>>
                /\ cv_mutex' = Free
                /\ Goto(w, "loop")
                /\ UNCHANGED <<queueVars, caller, future, idx, task, stop, owner>>

\* Mutant of Sleep: a wait that knows nothing of the stop token.
SleepDeaf(w) == /\ at[w] = "sleep"
                /\ cv_mutex' = Free
                /\ Goto(w, "asleep")
                /\ UNCHANGED <<queueVars, caller, future, idx, task, stop, owner>>

\* the predicate was false: cv.wait leaves if stop was requested, else it
\* releases cv_mutex and blocks in one step
Sleep(w) == /\ at[w] = "sleep"
            /\ cv_mutex' = Free
            /\ Goto(w, IF stop[w] THEN "loop" ELSE "asleep")
            /\ UNCHANGED <<queueVars, caller, future, idx, task, stop, owner>>

SpuriousWakeUp(w) == /\ at[w] = "asleep"
                     /\ Goto(w, "lock")
                     /\ UNCHANGED <<queueVars, cv_mutex, caller, future, idx,
                                    task, stop, owner>>

\* fn(args) returns or throws; either way the future is ready
Run(w) == /\ at[w] = "run"
          /\ \E outcome \in {"value", "exception"} :
               future' = [future EXCEPT ![task[w]] = outcome]
          /\ task' = [task EXCEPT ![w] = NoTask]
          /\ Goto(w, "loop")
          /\ UNCHANGED <<queueVars, cv_mutex, caller, idx, stop, owner>>
-----------------------------------------------------------------------------
(* ~thread_pool                                                            *)

StartDestroy == /\ owner = "using"
                /\ \A j \in Jobs : caller[j] = "returned"
                /\ owner' = "stopping"
                /\ UNCHANGED <<queueVars, cv_mutex, caller, future, workerVars,
                               stop>>

\* request_stop also runs the callback that cv.wait registered: a notify_all
RequestStop(w) == /\ owner = "stopping"
                  /\ \A v \in 0 .. w - 1 : stop[v]
                  /\ ~stop[w]
                  /\ stop' = [stop EXCEPT ![w] = TRUE]
                  /\ at' = Notified
                  /\ UNCHANGED <<queueVars, cv_mutex, caller, future, idx, task,
                                 owner>>

\* the joins return; then the queues are destroyed with the promises in them
Join == /\ owner = "stopping"
        /\ \A w \in Workers : stop[w] /\ at[w] = "exited"
        /\ owner' = "gone"
        /\ promises' = [i \in Workers |-> <<>>]
        /\ future' = [j \in Jobs |->
             IF \E i \in Workers, k \in 1 .. Cardinality(Jobs) :
                  k \in DOMAIN promises[i] /\ promises[i][k] = j
             THEN "broken" ELSE future[j]]
        /\ UNCHANGED <<next_queue, slot, cv_mutex, caller, workerVars, stop>>

Gone == owner = "gone" /\ UNCHANGED vars
-----------------------------------------------------------------------------
Schedule(j) == Deal(j) \/ Enqueue(j) \/ Notify(j)

Worker(w) == \/ CheckStop(w) \/ TakeOwn(w) \/ Steal(w)
             \/ Lock(w) \/ ScanNext(w) \/ ScanFound(w) \/ Sleep(w)
             \/ Run(w)

Destructor == (\E w \in Workers : RequestStop(w)) \/ Join

Next == \/ \E j \in Jobs : Schedule(j)
        \/ \E w \in Workers : Worker(w) \/ SpuriousWakeUp(w)
        \/ StartDestroy \/ Destructor \/ Gone

Spec == Init /\ [][Next]_vars

(* Threads that can run are run, and a call once begun goes on; nobody has *)
(* to schedule a job or to destroy the pool, and no spurious wake-up helps.*)
FairSpec == /\ Spec
            /\ \A w \in Workers : WF_vars(Worker(w))
            /\ \A j \in Jobs : WF_vars(Enqueue(j)) /\ WF_vars(Notify(j))
            /\ WF_vars(Destructor)
-----------------------------------------------------------------------------
(* Every variable stays in its type; in particular a task is dealt to a   *)
(* queue that exists.                                                      *)
TypeOK == /\ promises \in [Workers -> Seq(Jobs)]
          /\ next_queue \in 0 .. Cardinality(Jobs)
          /\ cv_mutex \in Workers \cup {Free}
          /\ caller \in [Jobs -> {"call", "enqueue", "notify", "returned"}]
          /\ slot \in [Jobs -> Workers]
          /\ future \in [Jobs -> {"pending", "value", "exception", "broken"}]
          /\ at \in [Workers -> {"loop", "own", "steal", "run", "lock",
                                 "predicate", "sleep", "asleep", "exited"}]
          /\ idx \in [Workers -> Workers]
          /\ task \in [Workers -> Jobs \cup {NoTask}]
          /\ stop \in [Workers -> BOOLEAN]
          /\ owner \in {"using", "stopping", "gone"}

Queued(j) == {p \in Workers \X (1 .. Cardinality(Jobs)) :
                p[2] \in DOMAIN promises[p[1]] /\ promises[p[1]][p[2]] = j}
Carried(j) == {w \in Workers : task[w] = j}

(* A job that was enqueued is in one queue, or with one worker, or its     *)
(* future is settled, never two of these: stealing neither loses nor       *)
(* doubles a task, and a promise is set at most once.                      *)
JobInOnePlace ==
    /\ TypeOK
    /\ \A j \in Jobs :
         Cardinality(Queued(j)) + Cardinality(Carried(j))
           = IF caller[j] \in {"call", "enqueue"} \/ future[j] # "pending"
             THEN 0 ELSE 1

(* No lost wake-up: once the schedule_job of a queued job has returned,    *)
(* the workers are not all asleep or past their last look at the queues.   *)
SomebodyAwake ==
    (\E j \in Jobs : caller[j] = "returned" /\ Queued(j) # {}) /\ owner # "gone"
      => \E w \in Workers : at[w] \notin {"sleep", "asleep"}

(* The future schedule_job returned gets a value or an exception, unless   *)
(* the pool is destroyed first; then it is broken, never left pending.     *)
FutureSettles == \A j \in Jobs :
    (caller[j] = "returned") ~> (future[j] # "pending")

(* The destructor returns, even when every worker was asleep.              *)
DestructorReturns == (owner = "stopping") ~> (owner = "gone")
=============================================================================
