-------------------------- MODULE ThreadPoolProofs --------------------------
(***************************************************************************)
(* Proofs about ThreadPool for every number of workers and every finite    *)
(* set of jobs.  That a job is in one place needs the queues and the       *)
(* workers' hands to be disjoint throughout (PlacesInv).  That no wake-up  *)
(* is lost needs cv_mutex: while a worker holds it, from its first look at *)
(* a queue until it is asleep, no schedule_job returns, so what the        *)
(* predicate has passed over holds no job whose caller has returned        *)
(* (SleepInv).                                                             *)
(***************************************************************************)
EXTENDS ThreadPool, SequenceTheorems, FiniteSetTheorems, TLAPS

InQueue(j, i) == \E k \in 1 .. Len(promises[i]) : promises[i][k] = j
IsQueued(j) == \E i \in Workers : InQueue(j, i)
IsCarried(j) == \E w \in Workers : task[w] = j
Enqueued(j) == caller[j] \in {"notify", "returned"}

Dealt == {j \in Jobs : caller[j] # "call"}

TypeInv == /\ promises \in [Workers -> Seq(Jobs)]
           /\ next_queue = Cardinality(Dealt)
           /\ cv_mutex \in Workers \cup {Free}
           /\ caller \in [Jobs -> {"call", "enqueue", "notify", "returned"}]
           /\ slot \in [Jobs -> Workers]
           /\ future \in [Jobs -> {"pending", "value", "exception", "broken"}]
           /\ at \in [Workers -> {"loop", "own", "steal", "run", "lock",
                                  "predicate", "sleep", "asleep", "exited"}]
           /\ idx \in [Workers -> Workers]
           /\ task \in [Workers -> Jobs \cup {NoTask}]
           /\ stop \in [Workers -> BOOLEAN]
           /\ owner \in {"using", "stopping", "gone"}

(* Each job is at one position of one queue, or in one worker's hands, or  *)
(* in neither; and it is in one of them exactly while its future, once it  *)
(* was enqueued, is pending.                                               *)
PlacesInv ==
    /\ \A h, i \in Workers : \A k \in 1 .. Len(promises[h]), l \in 1 .. Len(promises[i]) :
          promises[h][k] = promises[i][l] => h = i /\ k = l
    /\ \A v, w \in Workers : task[v] = task[w] /\ task[w] # NoTask => v = w
    /\ \A w \in Workers : at[w] = "run" <=> task[w] # NoTask
    /\ \A j \in Jobs :
         /\ ~(IsQueued(j) /\ IsCarried(j))
         /\ IsQueued(j) \/ IsCarried(j) <=> Enqueued(j) /\ future[j] = "pending"
         /\ ~Enqueued(j) => future[j] = "pending"

(* A worker that is asleep, or about to be, leaves no job behind whose     *)
(* schedule_job has returned; nor does the scan that leads there.          *)
NoneReturnedIn(i) == \A k \in 1 .. Len(promises[i]) :
                        caller[promises[i][k]] # "returned"
SleepInv ==
    /\ \A w \in Workers : at[w] \in {"predicate", "sleep"} => cv_mutex = w
    /\ \A w \in Workers : at[w] \in {"sleep", "asleep"} =>
          \A i \in Workers : NoneReturnedIn(i)
    /\ \A w \in Workers : at[w] = "predicate" =>
          \A i \in 0 .. idx[w] - 1 : NoneReturnedIn(i)

IndInv == TypeInv /\ PlacesInv /\ SleepInv
-----------------------------------------------------------------------------
(* Numbers modulo S are workers.                                           *)
LEMMA ModS ==
    /\ \A n \in Nat : n % S \in Workers
    /\ \A n \in Workers : /\ n + 1 # S => (n + 1) % S = n + 1
                          /\ n + 1 = S => (n + 1) % S = 0
                          /\ (n + 1) % S \in Workers
<1>1. S \in Nat /\ S > 0
  BY PoolAssumption
<1> QED
  BY <1>1 DEF Workers

(* Where the jobs are: what each kind of change to the queues does.        *)
LEMMA AppendedIs ==
    ASSUME promises \in [Workers -> Seq(Jobs)], NEW i \in Workers, NEW j \in Jobs,
           promises' = [promises EXCEPT ![i] = Append(@, j)]
    PROVE  /\ promises' \in [Workers -> Seq(Jobs)]
           /\ \A h \in Workers : h # i => promises'[h] = promises[h]
           /\ Len(promises[i]) \in Nat /\ Len(promises'[i]) = Len(promises[i]) + 1
           /\ \A k \in 1 .. Len(promises[i]) : promises'[i][k] = promises[i][k]
           /\ promises'[i][Len(promises[i]) + 1] = j
<1>1. promises[i] \in Seq(Jobs) /\ promises'[i] = Append(promises[i], j)
      /\ \A h \in Workers : h # i => promises'[h] = promises[h]
  OBVIOUS
<1>2. promises' \in [Workers -> Seq(Jobs)]
  <2>1. Append(promises[i], j) \in Seq(Jobs)
    BY <1>1
  <2> QED
    BY <2>1
<1> QED
  BY <1>1, <1>2

(* Taking the head shifts the rest of the queue.                           *)
LEMMA TakenIs ==
    ASSUME promises \in [Workers -> Seq(Jobs)], NEW i \in Workers, promises[i] # <<>>,
           promises' = [promises EXCEPT ![i] = Tail(@)]
    PROVE  /\ promises' \in [Workers -> Seq(Jobs)]
           /\ \A h \in Workers : h # i => promises'[h] = promises[h]
           /\ Len(promises[i]) \in Nat /\ Len(promises[i]) > 0
           /\ Len(promises'[i]) = Len(promises[i]) - 1
           /\ \A k \in 1 .. Len(promises'[i]) :
                promises'[i][k] = promises[i][k + 1] /\ k + 1 \in 1 .. Len(promises[i])
           /\ Head(promises[i]) = promises[i][1] /\ Head(promises[i]) \in Jobs
<1>1. promises[i] \in Seq(Jobs) /\ promises'[i] = Tail(promises[i])
      /\ \A h \in Workers : h # i => promises'[h] = promises[h]
  OBVIOUS
<1>2. /\ Len(promises[i]) \in Nat /\ Len(promises[i]) > 0
      /\ Tail(promises[i]) \in Seq(Jobs) /\ Len(promises'[i]) = Len(promises[i]) - 1
      /\ \A k \in 1 .. Len(promises[i]) - 1 : promises'[i][k] = promises[i][k + 1]
      /\ Head(promises[i]) = promises[i][1] /\ Head(promises[i]) \in Jobs
  BY <1>1
<1>3. promises' \in [Workers -> Seq(Jobs)]
  BY <1>2
<1> QED
  BY <1>1, <1>2, <1>3

(* A queue holds no job twice, so it is never longer than there are jobs.  *)
LEMMA QueueBound ==
    ASSUME TypeInv, PlacesInv, NEW i \in Workers
    PROVE  /\ Len(promises[i]) \in Nat /\ Len(promises[i]) <= Cardinality(Jobs)
           /\ DOMAIN promises[i] = 1 .. Len(promises[i])
           /\ \A k \in 1 .. Len(promises[i]) : promises[i][k] \in Jobs
<1>1. promises[i] \in Seq(Jobs)
  BY DEF TypeInv
<1>2. /\ Len(promises[i]) \in Nat /\ DOMAIN promises[i] = 1 .. Len(promises[i])
      /\ promises[i] \in [1 .. Len(promises[i]) -> Jobs]
  BY <1>1
<1>3. \A k, l \in 1 .. Len(promises[i]) : promises[i][k] = promises[i][l] => k = l
  BY DEF PlacesInv
<1>4. PICK f, n : f = promises[i] /\ n = Len(promises[i])
  OBVIOUS
<1>5. f \in Injection(1 .. n, Jobs)
  <2>1. f \in [1 .. n -> Jobs] /\ \A k, l \in 1 .. n : f[k] = f[l] => k = l
    BY <1>2, <1>3, <1>4
  <2> QED
    BY <2>1 DEF Injection, IsInjective
<1>6. Cardinality(1 .. n) <= Cardinality(Jobs)
  BY <1>5, FS_Injection, PoolAssumption
<1>7. Cardinality(1 .. n) = n
  <2>1. n \in Nat
    BY <1>2, <1>4
  <2>2. Cardinality(1 .. n) = IF 1 > n THEN 0 ELSE n - 1 + 1
    BY <2>1, FS_Interval
  <2> QED
    BY <2>1, <2>2
<1> QED
  BY <1>2, <1>4, <1>6, <1>7

(* Steps that move no job.                                                 *)
LEMMA PlacesKept ==
    ASSUME PlacesInv, UNCHANGED <<promises, task, future>>,
           \A j \in Jobs : (Enqueued(j) <=> Enqueued(j)'),
           \A w \in Workers : at'[w] = "run" <=> at[w] = "run"
    PROVE  PlacesInv'
<1>1. \A j : (IsQueued(j)' <=> IsQueued(j)) /\ (IsCarried(j)' <=> IsCarried(j))
  BY DEF IsQueued, InQueue, IsCarried
<1> QED
  BY <1>1 DEF PlacesInv

(* Steps that put nobody to sleep and add no job of a returned caller.     *)
LEMMA SleepKept ==
    ASSUME TypeInv, SleepInv,
           \A i \in Workers : NoneReturnedIn(i) => NoneReturnedIn(i)',
           \A w \in Workers : at'[w] \in {"predicate", "sleep", "asleep"} =>
              /\ at'[w] = at[w] /\ idx'[w] = idx[w]
              /\ at'[w] \in {"predicate", "sleep"} => cv_mutex' = cv_mutex
    PROVE  SleepInv'
<1>1. \A w \in Workers : idx[w] \in Workers
  BY DEF TypeInv
<1>2. \A w \in Workers : \A i \in 0 .. idx[w] - 1 : i \in Workers
  BY <1>1, PoolAssumption DEF Workers
<1>3. ASSUME NEW w \in Workers, at'[w] \in {"predicate", "sleep"} PROVE cv_mutex' = w
  BY <1>3 DEF SleepInv
<1>4. ASSUME NEW w \in Workers, at'[w] \in {"sleep", "asleep"}, NEW i \in Workers
      PROVE  NoneReturnedIn(i)'
  BY <1>4 DEF SleepInv
<1>5. ASSUME NEW w \in Workers, at'[w] = "predicate", NEW i \in 0 .. idx'[w] - 1
      PROVE  NoneReturnedIn(i)'
  <2>1. at[w] = "predicate" /\ i \in 0 .. idx[w] - 1
    BY <1>5
  <2>2. NoneReturnedIn(i)
    BY <2>1 DEF SleepInv
  <2> QED
    BY <1>2, <2>1, <2>2
<1> QED
  BY <1>3, <1>4, <1>5 DEF SleepInv

(* The initial state.                                                      *)
LEMMA StartInd == Init => IndInv
<1> SUFFICES ASSUME Init PROVE IndInv
  OBVIOUS
<1>1. 0 \in Workers /\ \A i \in Workers : Len(promises[i]) = 0
  BY PoolAssumption DEF Init, Workers
<1>2. TypeInv
  <2>1. Dealt = {}
    BY DEF Init, Dealt
  <2>2. Cardinality(Dealt) = 0
    BY <2>1, FS_EmptySet
  <2>3. <<>> \in Seq(Jobs)
    OBVIOUS
  <2> QED
    BY <1>1, <2>2, <2>3 DEF Init, TypeInv
<1>3. PlacesInv
  <2>1. \A j \in Jobs : ~IsQueued(j) /\ ~IsCarried(j) /\ ~Enqueued(j)
    BY <1>1, PoolAssumption DEF Init, IsQueued, InQueue, IsCarried, Enqueued
  <2> QED
    BY <1>1, <2>1 DEF Init, PlacesInv
<1>4. SleepInv
  BY DEF Init, SleepInv
<1> QED
  BY <1>2, <1>3, <1>4 DEF IndInv
-----------------------------------------------------------------------------
(* schedule_job.  Dealing counts the job; enqueuing puts it into a queue   *)
(* while its caller has not returned; notifying leaves nobody asleep.      *)
LEMMA DealInd ==
    ASSUME IndInv, NEW j \in Jobs, Deal(j)
    PROVE  IndInv'
<1>1. TypeInv'
  <2>1. Dealt' = Dealt \cup {j} /\ j \notin Dealt
    BY DEF IndInv, TypeInv, Deal, Dealt
  <2>2. IsFiniteSet(Dealt)
    <3>1. Dealt \subseteq Jobs
      BY DEF Dealt
    <3> QED
      BY <3>1, FS_Subset, PoolAssumption
  <2>3. Cardinality(Dealt') = Cardinality(Dealt) + 1 /\ Cardinality(Dealt) \in Nat
    BY <2>1, <2>2, FS_AddElement, FS_CardinalityType
  <2>4. next_queue % S \in Workers
    BY <2>3, ModS DEF IndInv, TypeInv
  <2>5. slot' \in [Jobs -> Workers]
    BY <2>4 DEF IndInv, TypeInv, Deal
  <2>6. caller' \in [Jobs -> {"call", "enqueue", "notify", "returned"}]
    BY DEF IndInv, TypeInv, Deal
  <2> QED
    BY <2>3, <2>5, <2>6 DEF IndInv, TypeInv, Deal, workerVars
<1>2. PlacesInv'
  <2>1. \A q \in Jobs : Enqueued(q) <=> Enqueued(q)'
    BY DEF IndInv, TypeInv, Deal, Enqueued
  <2> QED
    BY <2>1, PlacesKept DEF IndInv, Deal, workerVars
<1>3. SleepInv'
  <2>1. \A i \in Workers : \A k \in 1 .. Len(promises[i]) : promises[i][k] \in Jobs
    BY QueueBound DEF IndInv
  <2>2. \A i \in Workers : NoneReturnedIn(i) => NoneReturnedIn(i)'
    BY <2>1 DEF IndInv, TypeInv, Deal, NoneReturnedIn
  <2> QED
    BY <2>2, SleepKept DEF IndInv, Deal, workerVars
<1> QED
  BY <1>1, <1>2, <1>3 DEF IndInv

(* An enqueued job is in one queue, and its caller has not returned.       *)
LEMMA EnqueueInd ==
    ASSUME IndInv, NEW j \in Jobs, Enqueue(j)
    PROVE  IndInv'
<1> USE DEF IndInv
<1>1. PICK i \in Workers : i = slot[j]
  BY DEF TypeInv
<1>2. /\ promises \in [Workers -> Seq(Jobs)]
      /\ promises' = [promises EXCEPT ![i] = Append(@, j)]
  BY <1>1 DEF TypeInv, Enqueue
<1>3. PICK n \in Nat : n = Len(promises[i])
  BY <1>2, AppendedIs
<1>4. /\ promises' \in [Workers -> Seq(Jobs)]
      /\ \A h \in Workers : h # i => promises'[h] = promises[h]
      /\ Len(promises'[i]) = n + 1 /\ promises'[i][n + 1] = j
      /\ \A k \in 1 .. n : promises'[i][k] = promises[i][k]
  BY <1>2, <1>3, AppendedIs
<1>5. /\ caller[j] = "enqueue" /\ caller'[j] = "notify"
      /\ \A q \in Jobs : q # j => caller'[q] = caller[q]
      /\ caller' \in [Jobs -> {"call", "enqueue", "notify", "returned"}]
  BY DEF TypeInv, Enqueue
<1>6. UNCHANGED <<next_queue, slot, cv_mutex, future, at, idx, task, stop, owner>>
  BY DEF Enqueue, workerVars
<1>7. \A h \in Workers : Len(promises[h]) \in Nat
      /\ \A k \in 1 .. Len(promises[h]) : promises[h][k] \in Jobs
  BY QueueBound
<1>8. ~IsQueued(j) /\ ~IsCarried(j) /\ future[j] = "pending"
  BY <1>5 DEF PlacesInv, Enqueued
<1>9. TypeInv'
  <2>1. Dealt' = Dealt
    BY <1>5 DEF Dealt
  <2> QED
    BY <1>4, <1>5, <1>6, <2>1 DEF TypeInv
<1>10. \A h \in Workers : \A k \in 1 .. Len(promises'[h]) :
          \/ h = i /\ k = n + 1
          \/ k \in 1 .. Len(promises[h]) /\ promises'[h][k] = promises[h][k]
  <2> SUFFICES ASSUME NEW h \in Workers, NEW k \in 1 .. Len(promises'[h])
               PROVE  \/ h = i /\ k = n + 1
                      \/ k \in 1 .. Len(promises[h]) /\ promises'[h][k] = promises[h][k]
    OBVIOUS
  <2>1. CASE h # i
    BY <2>1, <1>4
  <2>2. CASE h = i
    BY <2>2, <1>3, <1>4
  <2> QED
    BY <2>1, <2>2
<1>11. \A h \in Workers : \A k \in 1 .. Len(promises[h]) :
          k \in 1 .. Len(promises'[h]) /\ promises'[h][k] = promises[h][k]
  <2> SUFFICES ASSUME NEW h \in Workers, NEW k \in 1 .. Len(promises[h])
               PROVE  k \in 1 .. Len(promises'[h]) /\ promises'[h][k] = promises[h][k]
    OBVIOUS
  <2>1. CASE h # i
    BY <2>1, <1>4
  <2>2. CASE h = i
    BY <2>2, <1>3, <1>4
  <2> QED
    BY <2>1, <2>2
<1>12. \A h \in Workers : \A k \in 1 .. Len(promises[h]) : promises[h][k] # j
  BY <1>8 DEF IsQueued, InQueue
<1>13. \A h, g \in Workers :
         \A k \in 1 .. Len(promises'[h]), l \in 1 .. Len(promises'[g]) :
           promises'[h][k] = promises'[g][l] => h = g /\ k = l
  <2> SUFFICES ASSUME NEW h \in Workers, NEW g \in Workers,
                      NEW k \in 1 .. Len(promises'[h]), NEW l \in 1 .. Len(promises'[g]),
                      promises'[h][k] = promises'[g][l]
               PROVE  h = g /\ k = l
    OBVIOUS
  <2>1. CASE h = i /\ k = n + 1
    BY <2>1, <1>4, <1>10, <1>12
  <2>2. CASE g = i /\ l = n + 1
    BY <2>2, <1>4, <1>10, <1>12
  <2>3. CASE ~(h = i /\ k = n + 1) /\ ~(g = i /\ l = n + 1)
    <3>1. /\ k \in 1 .. Len(promises[h]) /\ promises'[h][k] = promises[h][k]
          /\ l \in 1 .. Len(promises[g]) /\ promises'[g][l] = promises[g][l]
      BY <2>3, <1>10
    <3>2. promises[h][k] = promises[g][l]
      BY <3>1
    <3> QED
      BY <3>1, <3>2 DEF PlacesInv
  <2> QED
    BY <2>1, <2>2, <2>3
<1>14. \A q \in Jobs : IsQueued(q)' <=> IsQueued(q) \/ q = j
  <2>1. ASSUME NEW q \in Jobs, IsQueued(q) PROVE IsQueued(q)'
    BY <2>1, <1>11 DEF IsQueued, InQueue
  <2>2. IsQueued(j)'
    <3>1. n + 1 \in 1 .. Len(promises'[i]) /\ promises'[i][n + 1] = j
      BY <1>4
    <3> QED
      BY <3>1 DEF IsQueued, InQueue
  <2>3. ASSUME NEW q \in Jobs, IsQueued(q)', q # j PROVE IsQueued(q)
    BY <2>3, <1>4, <1>10 DEF IsQueued, InQueue
  <2> QED
    BY <2>1, <2>2, <2>3
<1>15. \A q \in Jobs : (IsCarried(q)' <=> IsCarried(q)) /\ (Enqueued(q)' <=> Enqueued(q) \/ q = j)
  BY <1>5, <1>6 DEF IsCarried, Enqueued
<1>16. PlacesInv'
  <2>1. \A q \in Jobs : /\ ~(IsQueued(q)' /\ IsCarried(q)')
                        /\ IsQueued(q)' \/ IsCarried(q)' <=> Enqueued(q)' /\ future'[q] = "pending"
                        /\ ~Enqueued(q)' => future'[q] = "pending"
    BY <1>6, <1>8, <1>14, <1>15 DEF PlacesInv
  <2> QED
    BY <1>6, <1>13, <2>1 DEF PlacesInv
<1>17. SleepInv'
  <2>1. \A h \in Workers : NoneReturnedIn(h) => NoneReturnedIn(h)'
    <3> SUFFICES ASSUME NEW h \in Workers, NoneReturnedIn(h),
                        NEW k \in 1 .. Len(promises'[h])
                 PROVE  caller'[promises'[h][k]] # "returned"
      BY DEF NoneReturnedIn
    <3>1. CASE h = i /\ k = n + 1
      BY <3>1, <1>4, <1>5
    <3>2. CASE k \in 1 .. Len(promises[h]) /\ promises'[h][k] = promises[h][k]
      BY <3>2, <1>5, <1>7, <1>12 DEF NoneReturnedIn
    <3> QED
      BY <3>1, <3>2, <1>10
  <2> QED
    BY <1>6, <2>1, SleepKept
<1> QED
  BY <1>9, <1>16, <1>17

(* Nobody is between its first look and its sleep while cv_mutex is free.  *)
LEMMA NobodyScans ==
    ASSUME IndInv, cv_mutex = Free
    PROVE  \A w \in Workers : at[w] \notin {"predicate", "sleep"}
  BY PoolAssumption DEF IndInv, SleepInv, Free, Workers

(* notify_all needs cv_mutex and leaves nobody asleep.                     *)
LEMMA NotifyInd ==
    ASSUME IndInv, NEW j \in Jobs, Notify(j)
    PROVE  IndInv'
<1>1. TypeInv'
  <2>1. Dealt' = Dealt
    BY DEF IndInv, TypeInv, Notify, Dealt
  <2>2. caller' \in [Jobs -> {"call", "enqueue", "notify", "returned"}]
    BY DEF IndInv, TypeInv, Notify
  <2>3. at' \in [Workers -> {"loop", "own", "steal", "run", "lock",
                             "predicate", "sleep", "asleep", "exited"}]
    BY DEF IndInv, TypeInv, Notify, Notified
  <2> QED
    BY <2>1, <2>2, <2>3 DEF IndInv, TypeInv, Notify, queueVars
<1>2. \A w \in Workers : at'[w] = IF at[w] = "asleep" THEN "lock" ELSE at[w]
  BY DEF Notify, Notified
<1>3. PlacesInv'
  <2>1. \A q \in Jobs : Enqueued(q) <=> Enqueued(q)'
    BY DEF IndInv, TypeInv, Notify, Enqueued
  <2> QED
    BY <1>2, <2>1, PlacesKept DEF IndInv, Notify, queueVars
<1>4. SleepInv'
  <2>1. \A w \in Workers : at'[w] \notin {"predicate", "sleep", "asleep"}
    BY <1>2, NobodyScans DEF Notify
  <2> QED
    BY <2>1 DEF SleepInv
<1> QED
  BY <1>1, <1>3, <1>4 DEF IndInv
-----------------------------------------------------------------------------
(* thread_handler: the steps that leave the queues, the tasks and the      *)
(* callers alone.                                                          *)
LEMMA QuietInd ==
    ASSUME IndInv, NEW w \in Workers,
           UNCHANGED <<queueVars, caller, future, task, stop, owner>>,
           NEW next \in {"loop", "own", "steal", "lock", "predicate", "sleep",
                         "asleep", "exited"},
           at[w] # "run", Goto(w, next),
           cv_mutex' \in Workers \cup {Free}, idx' \in [Workers -> Workers],
           \A v \in Workers : v # w /\ at[v] \in {"predicate", "sleep", "asleep"} =>
              /\ idx'[v] = idx[v]
              /\ at[v] \in {"predicate", "sleep"} => cv_mutex' = v,
           next \in {"predicate", "sleep"} => cv_mutex' = w,
           next \in {"sleep", "asleep"} => \A i \in Workers : NoneReturnedIn(i),
           next = "predicate" => \A i \in 0 .. idx'[w] - 1 : NoneReturnedIn(i)
    PROVE  IndInv'
<1>1. /\ at' \in [Workers -> {"loop", "own", "steal", "run", "lock",
                              "predicate", "sleep", "asleep", "exited"}]
      /\ at'[w] = next /\ \A v \in Workers : v # w => at'[v] = at[v]
  BY DEF IndInv, TypeInv, Goto
<1>2. TypeInv'
  <2>1. Dealt' = Dealt
    BY DEF Dealt
  <2> QED
    BY <1>1, <2>1 DEF IndInv, TypeInv, queueVars
<1>3. PlacesInv'
  <2>1. \A j \in Jobs : Enqueued(j) <=> Enqueued(j)'
    BY DEF Enqueued
  <2>2. \A v \in Workers : at'[v] = "run" <=> at[v] = "run"
    BY <1>1
  <2>3. UNCHANGED <<promises, task, future>>
    BY DEF queueVars
  <2> QED
    BY <2>1, <2>2, <2>3, PlacesKept DEF IndInv
<1>4. SleepInv'
  <2>1. \A i : NoneReturnedIn(i)' <=> NoneReturnedIn(i)
    BY DEF NoneReturnedIn, queueVars
  <2>2. ASSUME NEW v \in Workers, at'[v] \in {"predicate", "sleep"} PROVE cv_mutex' = v
    BY <2>2, <1>1
  <2>3. ASSUME NEW v \in Workers, at'[v] \in {"sleep", "asleep"}, NEW i \in Workers
        PROVE  NoneReturnedIn(i)'
    BY <2>1, <2>3, <1>1 DEF IndInv, SleepInv
  <2>4. ASSUME NEW v \in Workers, at'[v] = "predicate", NEW i \in 0 .. idx'[v] - 1
        PROVE  NoneReturnedIn(i)'
    <3>1. CASE v = w
      BY <3>1, <2>1, <2>4, <1>1
    <3>2. CASE v # w
      BY <3>2, <2>1, <2>4, <1>1 DEF IndInv, SleepInv
    <3> QED
      BY <3>1, <3>2
  <2> QED
    BY <2>2, <2>3, <2>4 DEF SleepInv
<1> QED
  BY <1>2, <1>3, <1>4 DEF IndInv

(* Looking at the stop token moves no job.                                 *)
LEMMA CheckStopInd ==
    ASSUME IndInv, NEW w \in Workers, CheckStop(w)
    PROVE  IndInv'
<1>1. \A v \in Workers : at[v] \in {"predicate", "sleep"} => cv_mutex = v
  BY DEF IndInv, SleepInv
<1>2. cv_mutex \in Workers \cup {Free} /\ idx \in [Workers -> Workers]
  BY DEF IndInv, TypeInv
<1>3. PICK next \in {"exited", "own"} : Goto(w, next)
  BY DEF CheckStop
<1> QED
  BY <1>1, <1>2, <1>3, QuietInd DEF CheckStop

(* A worker that gets cv_mutex has looked at no queue yet.                 *)
LEMMA LockInd ==
    ASSUME IndInv, NEW w \in Workers, Lock(w)
    PROVE  IndInv'
<1>1. \A v \in Workers : at[v] \notin {"predicate", "sleep"}
  BY NobodyScans DEF Lock
<1>2. /\ idx' \in [Workers -> Workers] /\ idx'[w] = 0
      /\ \A v \in Workers : v # w => idx'[v] = idx[v]
  <2>1. 0 \in Workers
    BY PoolAssumption DEF Workers
  <2> QED
    BY <2>1 DEF IndInv, TypeInv, Lock
<1>3. \A i \in 0 .. idx'[w] - 1 : NoneReturnedIn(i)
  BY <1>2
<1> QED
  BY <1>1, <1>2, <1>3, QuietInd DEF Lock

(* An empty queue holds no job; after the last one the whole pool does not.*)
LEMMA ScanNextInd ==
    ASSUME IndInv, NEW w \in Workers, ScanNext(w)
    PROVE  IndInv'
<1>1. PICK n \in Workers : n = idx[w]
  BY DEF IndInv, TypeInv
<1>2. /\ cv_mutex = w /\ cv_mutex' = w
      /\ \A v \in Workers : v # w => at[v] \notin {"predicate", "sleep"}
  BY DEF IndInv, SleepInv, ScanNext
<1>3. /\ idx' \in [Workers -> Workers] /\ idx'[w] = (n + 1) % S
      /\ \A v \in Workers : v # w => idx'[v] = idx[v]
  BY <1>1, ModS DEF IndInv, TypeInv, ScanNext
<1>4. \A i \in 0 .. n : NoneReturnedIn(i)
  <2>1. NoneReturnedIn(n)
    BY <1>1 DEF NoneReturnedIn, ScanNext
  <2>2. \A i \in 0 .. n - 1 : NoneReturnedIn(i)
    BY <1>1 DEF IndInv, SleepInv, ScanNext
  <2>3. \A i \in 0 .. n : i = n \/ i \in 0 .. n - 1
    BY PoolAssumption DEF Workers
  <2> QED
    BY <2>1, <2>2, <2>3
<1>5. CASE n + 1 = S
  <2>1. Workers = 0 .. n
    BY <1>5, PoolAssumption DEF Workers
  <2>2. Goto(w, "sleep")
    BY <1>1, <1>5 DEF ScanNext
  <2> QED
    BY <1>2, <1>3, <1>4, <2>1, <2>2, QuietInd DEF ScanNext
<1>6. CASE n + 1 # S
  <2>1. idx'[w] = n + 1
    BY <1>3, <1>6, ModS
  <2>2. \A i \in 0 .. idx'[w] - 1 : NoneReturnedIn(i)
    BY <1>4, <2>1, PoolAssumption DEF Workers
  <2>3. Goto(w, "predicate")
    BY <1>1, <1>6 DEF ScanNext
  <2> QED
    BY <1>2, <1>3, <2>2, <2>3, QuietInd DEF ScanNext
<1> QED
  BY <1>5, <1>6

(* Leaving the predicate, into sleep or out of it.                         *)
LEMMA LeaveWaitInd ==
    ASSUME IndInv, NEW w \in Workers, ScanFound(w) \/ Sleep(w) \/ SpuriousWakeUp(w)
    PROVE  IndInv'
<1>1. idx \in [Workers -> Workers] /\ cv_mutex \in Workers \cup {Free}
  BY DEF IndInv, TypeInv
<1>2. \A v \in Workers : at[v] \in {"predicate", "sleep"} => cv_mutex = v
  BY DEF IndInv, SleepInv
<1>3. CASE ScanFound(w)
  BY <1>1, <1>2, <1>3, QuietInd DEF ScanFound
<1>4. CASE Sleep(w)
  <2>1. \A i \in Workers : NoneReturnedIn(i)
    BY <1>4 DEF IndInv, SleepInv, Sleep
  <2>2. PICK next \in {"loop", "asleep"} : Goto(w, next)
    BY <1>4 DEF Sleep
  <2> QED
    BY <1>1, <1>2, <1>4, <2>1, <2>2, QuietInd DEF Sleep
<1>5. CASE SpuriousWakeUp(w)
  BY <1>1, <1>2, <1>5, QuietInd DEF SpuriousWakeUp
<1> QED
  BY <1>3, <1>4, <1>5
-----------------------------------------------------------------------------
(* thread_handler: a dequeue moves the head of a queue into the worker's   *)
(* hands, and running the task settles its future.                         *)
LEMMA DequeueInd ==
    ASSUME IndInv, NEW w \in Workers, NEW i \in Workers,
           at[w] \in {"own", "steal"}, NEW e \in {"steal", "lock"},
           Dequeue(w, i, e),
           idx' \in [Workers -> Workers],
           \A v \in Workers : v # w => idx'[v] = idx[v]
    PROVE  IndInv'
<1>1. UNCHANGED <<next_queue, slot, cv_mutex, caller, future, stop, owner>>
  BY DEF Dequeue
<1>2. \A v \in Workers : at[v] \in {"predicate", "sleep"} => cv_mutex = v
  BY DEF IndInv, SleepInv
<1>3. CASE promises[i] = <<>>
  <2>1. Goto(w, e) /\ UNCHANGED <<promises, task>>
    BY <1>3 DEF Dequeue
  <2>2. cv_mutex \in Workers \cup {Free}
    BY DEF IndInv, TypeInv
  <2> QED
    BY <1>1, <1>2, <2>1, <2>2, QuietInd DEF queueVars
<1>4. CASE promises[i] # <<>>
  <2>1. PICK j : j = Head(promises[i])
    OBVIOUS
  <2>2. /\ promises \in [Workers -> Seq(Jobs)]
        /\ promises' = [promises EXCEPT ![i] = Tail(@)]
        /\ task' = [task EXCEPT ![w] = j] /\ Goto(w, "run")
    BY <1>4, <2>1 DEF Dequeue, IndInv, TypeInv
  <2>3. PICK n \in Nat : n = Len(promises[i])
    BY <1>4, <2>2, TakenIs
  <2>4. /\ promises' \in [Workers -> Seq(Jobs)]
        /\ \A h \in Workers : h # i => promises'[h] = promises[h]
        /\ n > 0 /\ Len(promises'[i]) = n - 1
        /\ \A k \in 1 .. n - 1 : promises'[i][k] = promises[i][k + 1]
        /\ promises[i][1] = j /\ j \in Jobs
    BY <1>4, <2>1, <2>2, <2>3, TakenIs
  <2>5. /\ task \in [Workers -> Jobs \cup {NoTask}]
        /\ at' \in [Workers -> {"loop", "own", "steal", "run", "lock",
                                "predicate", "sleep", "asleep", "exited"}]
        /\ at'[w] = "run" /\ \A v \in Workers : v # w => at'[v] = at[v]
    BY <2>2 DEF IndInv, TypeInv, Goto
  <2>6. /\ task' \in [Workers -> Jobs \cup {NoTask}]
        /\ task'[w] = j /\ \A v \in Workers : v # w => task'[v] = task[v]
    BY <2>2, <2>4, <2>5
  <2>7. \A h \in Workers : Len(promises[h]) \in Nat
        /\ \A k \in 1 .. Len(promises[h]) : promises[h][k] \in Jobs
    BY QueueBound DEF IndInv
  <2>8. IsQueued(j) /\ ~IsCarried(j) /\ task[w] = NoTask /\ j # NoTask
    <3>1. InQueue(j, i)
      <4>1. 1 \in 1 .. Len(promises[i])
        BY <2>3, <2>4
      <4> QED
        BY <2>4, <4>1 DEF InQueue
    <3>2. task[w] = NoTask
      BY DEF IndInv, PlacesInv
    <3> QED
      BY <2>4, <3>1, <3>2, PoolAssumption DEF IsQueued, IndInv, PlacesInv
  <2>9. TypeInv'
    <3>1. Dealt' = Dealt
      BY <1>1 DEF Dealt
    <3> QED
      BY <1>1, <2>4, <2>5, <2>6, <3>1 DEF IndInv, TypeInv
  \* where a job of the shorter queues was before
  <2>10. ASSUME NEW h \in Workers, NEW k \in 1 .. Len(promises'[h])
         PROVE  \E m \in 1 .. Len(promises[h]) :
                  /\ promises'[h][k] = promises[h][m]
                  /\ m = IF h = i THEN k + 1 ELSE k
    <3>1. CASE h # i
      BY <3>1, <2>4
    <3>2. CASE h = i
      <4>1. k \in 1 .. n - 1 /\ k + 1 \in 1 .. n
        BY <3>2, <2>4
      <4> QED
        BY <3>2, <4>1, <2>3, <2>4
    <3> QED
      BY <3>1, <3>2
  <2>11. ASSUME NEW h \in Workers, NEW k \in 1 .. Len(promises[h]), promises[h][k] # j
         PROVE  \E m \in 1 .. Len(promises'[h]) : promises'[h][m] = promises[h][k]
    <3>1. CASE h # i
      BY <3>1, <2>4
    <3>2. CASE h = i
      <4>1. k \in 1 .. n /\ k # 1
        BY <3>2, <2>3, <2>4, <2>11
      <4>2. k - 1 \in 1 .. n - 1 /\ (k - 1) + 1 = k
        BY <4>1
      <4> QED
        BY <3>2, <4>2, <2>4
    <3> QED
      BY <3>1, <3>2
  <2>12. ASSUME NEW h \in Workers, NEW k \in 1 .. Len(promises'[h])
         PROVE  promises'[h][k] # j
    <3>1. PICK m \in 1 .. Len(promises[h]) :
            /\ promises'[h][k] = promises[h][m] /\ m = IF h = i THEN k + 1 ELSE k
      BY <2>10
    <3>2. ~(h = i /\ m = 1)
      <4>1. h = i => k \in 1 .. n - 1
        BY <2>4
      <4> QED
        BY <3>1, <4>1
    <3>3. 1 \in 1 .. Len(promises[i])
      BY <2>3, <2>4
    <3> QED
      BY <2>4, <3>1, <3>2, <3>3 DEF IndInv, PlacesInv
  <2>13. \A g, h \in Workers :
           \A k \in 1 .. Len(promises'[g]), l \in 1 .. Len(promises'[h]) :
             promises'[g][k] = promises'[h][l] => g = h /\ k = l
    <3> SUFFICES ASSUME NEW g \in Workers, NEW h \in Workers,
                        NEW k \in 1 .. Len(promises'[g]),
                        NEW l \in 1 .. Len(promises'[h]),
                        promises'[g][k] = promises'[h][l]
                 PROVE  g = h /\ k = l
      OBVIOUS
    <3>1. PICK a \in 1 .. Len(promises[g]) :
            /\ promises'[g][k] = promises[g][a] /\ a = IF g = i THEN k + 1 ELSE k
      BY <2>10
    <3>2. PICK b \in 1 .. Len(promises[h]) :
            /\ promises'[h][l] = promises[h][b] /\ b = IF h = i THEN l + 1 ELSE l
      BY <2>10
    <3>3. promises[g][a] = promises[h][b]
      BY <3>1, <3>2
    <3>4. g = h /\ a = b
      BY <3>3 DEF IndInv, PlacesInv
    <3> QED
      BY <3>1, <3>2, <3>4
  <2>14. \A q \in Jobs : IsQueued(q)' <=> IsQueued(q) /\ q # j
    <3>1. ASSUME NEW q \in Jobs, IsQueued(q)' PROVE IsQueued(q) /\ q # j
      <4>1. PICK h \in Workers : \E k \in 1 .. Len(promises'[h]) : promises'[h][k] = q
        BY <3>1 DEF IsQueued, InQueue
      <4>2. PICK k \in 1 .. Len(promises'[h]) : promises'[h][k] = q
        BY <4>1
      <4>3. \E m \in 1 .. Len(promises[h]) : promises[h][m] = q
        BY <4>2, <2>10
      <4> QED
        BY <4>2, <4>3, <2>12 DEF IsQueued, InQueue
    <3>2. ASSUME NEW q \in Jobs, IsQueued(q), q # j PROVE IsQueued(q)'
      <4>1. PICK h \in Workers : \E k \in 1 .. Len(promises[h]) : promises[h][k] = q
        BY <3>2 DEF IsQueued, InQueue
      <4>2. \E m \in 1 .. Len(promises'[h]) : promises'[h][m] = q
        BY <3>2, <4>1, <2>11
      <4> QED
        BY <4>2 DEF IsQueued, InQueue
    <3> QED
      BY <3>1, <3>2
  <2>15. \A q \in Jobs : /\ IsCarried(q)' <=> IsCarried(q) \/ q = j
                         /\ Enqueued(q)' <=> Enqueued(q)
    <3>1. \A q \in Jobs : Enqueued(q)' <=> Enqueued(q)
      BY <1>1 DEF Enqueued
    <3>2. \A q \in Jobs : IsCarried(q)' <=> IsCarried(q) \/ q = j
      BY <2>6, <2>8, PoolAssumption DEF IsCarried
    <3> QED
      BY <3>1, <3>2
  <2>16. PlacesInv'
    <3>1. \A q \in Jobs :
            /\ ~(IsQueued(q)' /\ IsCarried(q)')
            /\ IsQueued(q)' \/ IsCarried(q)' <=> Enqueued(q)' /\ future'[q] = "pending"
            /\ ~Enqueued(q)' => future'[q] = "pending"
      BY <1>1, <2>8, <2>14, <2>15 DEF IndInv, PlacesInv
    <3>2. \A u, v \in Workers : task'[u] = task'[v] /\ task'[v] # NoTask => u = v
      <4>1. \A v \in Workers : task[v] # j
        BY <2>8 DEF IsCarried
      <4> QED
        BY <2>6, <4>1 DEF IndInv, PlacesInv
    <3>3. \A v \in Workers : at'[v] = "run" <=> task'[v] # NoTask
      BY <2>5, <2>6, <2>8 DEF IndInv, PlacesInv
    <3> QED
      BY <2>13, <3>1, <3>2, <3>3 DEF PlacesInv
  <2>17. SleepInv'
    <3>1. \A h \in Workers : NoneReturnedIn(h) => NoneReturnedIn(h)'
      BY <1>1, <2>10 DEF NoneReturnedIn
    <3>2. \A v \in Workers : at'[v] \in {"predicate", "sleep", "asleep"} =>
             at'[v] = at[v] /\ idx'[v] = idx[v]
      BY <2>5
    <3> QED
      BY <1>1, <3>1, <3>2, SleepKept DEF IndInv
  <2> QED
    BY <2>9, <2>16, <2>17 DEF IndInv
<1> QED
  BY <1>3, <1>4

(* A worker takes from its own queue or steals from another.               *)
LEMMA TakeInd ==
    ASSUME IndInv, NEW w \in Workers, TakeOwn(w) \/ Steal(w)
    PROVE  IndInv'
<1>1. PICK n \in Workers : n = idx[w]
  BY DEF IndInv, TypeInv
<1>2. CASE TakeOwn(w)
  <2>1. 0 \in Workers
    BY PoolAssumption DEF Workers
  <2>2. idx' \in [Workers -> Workers] /\ \A v \in Workers : v # w => idx'[v] = idx[v]
    BY <1>2, <2>1 DEF IndInv, TypeInv, TakeOwn
  <2> QED
    BY <1>2, <2>2, DequeueInd DEF TakeOwn
<1>3. CASE Steal(w)
  <2>1. (n + 1) % S \in Workers
    BY ModS
  <2>2. idx' \in [Workers -> Workers] /\ \A v \in Workers : v # w => idx'[v] = idx[v]
    BY <1>1, <1>3, <2>1 DEF IndInv, TypeInv, Steal
  <2>3. PICK e \in {"lock", "steal"} : Dequeue(w, n, e)
    BY <1>1, <1>3 DEF Steal
  <2> QED
    BY <1>3, <2>2, <2>3, DequeueInd DEF Steal
<1> QED
  BY <1>2, <1>3

(* A task that was run leaves the worker's hands and is settled.           *)
LEMMA RunInd ==
    ASSUME IndInv, NEW w \in Workers, Run(w)
    PROVE  IndInv'
<1>1. UNCHANGED <<promises, next_queue, slot, cv_mutex, caller, idx, stop, owner>>
  BY DEF Run, queueVars
<1>2. PICK j \in Jobs : j = task[w]
  BY DEF IndInv, TypeInv, PlacesInv, Run
<1>3. /\ task' \in [Workers -> Jobs \cup {NoTask}]
      /\ task'[w] = NoTask /\ \A v \in Workers : v # w => task'[v] = task[v]
  BY DEF IndInv, TypeInv, Run
<1>4. /\ future' \in [Jobs -> {"pending", "value", "exception", "broken"}]
      /\ future'[j] # "pending" /\ \A q \in Jobs : q # j => future'[q] = future[q]
  <2>1. PICK outcome \in {"value", "exception"} : future' = [future EXCEPT ![j] = outcome]
    BY <1>2 DEF Run
  <2> QED
    BY <2>1 DEF IndInv, TypeInv
<1>5. /\ at' \in [Workers -> {"loop", "own", "steal", "run", "lock",
                              "predicate", "sleep", "asleep", "exited"}]
      /\ at'[w] = "loop" /\ \A v \in Workers : v # w => at'[v] = at[v]
  BY DEF IndInv, TypeInv, Run, Goto
<1>6. TypeInv'
  <2>1. Dealt' = Dealt
    BY <1>1 DEF Dealt
  <2> QED
    BY <1>1, <1>3, <1>4, <1>5, <2>1 DEF IndInv, TypeInv
<1>7. PlacesInv'
  <2>1. \A u, v \in Workers : task'[u] = task'[v] /\ task'[v] # NoTask => u = v
    BY <1>3 DEF IndInv, PlacesInv
  <2>2. \A v \in Workers : at'[v] = "run" <=> task'[v] # NoTask
    BY <1>3, <1>5 DEF IndInv, PlacesInv
  <2>3. \A v \in Workers : v # w => task[v] # j
    BY <1>2, PoolAssumption DEF IndInv, PlacesInv
  <2>4. \A q \in Jobs : /\ IsQueued(q)' <=> IsQueued(q)
                        /\ Enqueued(q)' <=> Enqueued(q)
    BY <1>1 DEF IsQueued, InQueue, Enqueued
  <2>5. \A q \in Jobs : IsCarried(q)' <=> IsCarried(q) /\ q # j
    BY <1>2, <1>3, <2>3, PoolAssumption DEF IsCarried
  <2>6. IsCarried(j)
    BY <1>2 DEF IsCarried
  <2>7. \A q \in Jobs :
          /\ ~(IsQueued(q)' /\ IsCarried(q)')
          /\ IsQueued(q)' \/ IsCarried(q)' <=> Enqueued(q)' /\ future'[q] = "pending"
          /\ ~Enqueued(q)' => future'[q] = "pending"
    BY <1>4, <2>4, <2>5, <2>6 DEF IndInv, PlacesInv
  <2> QED
    BY <1>1, <2>1, <2>2, <2>7 DEF IndInv, PlacesInv
<1>8. SleepInv'
  <2>1. \A i \in Workers : NoneReturnedIn(i) => NoneReturnedIn(i)'
    BY <1>1 DEF NoneReturnedIn
  <2>2. \A v \in Workers : at'[v] \in {"predicate", "sleep", "asleep"} => at'[v] = at[v]
    BY <1>5
  <2> QED
    BY <1>1, <2>1, <2>2, SleepKept DEF IndInv
<1> QED
  BY <1>6, <1>7, <1>8 DEF IndInv
-----------------------------------------------------------------------------
(* The destructor: a requested stop wakes everybody, and when the workers  *)
(* are joined their hands are empty, so only queued promises break.        *)
LEMMA StopInd ==
    ASSUME IndInv, StartDestroy \/ \E w \in Workers : RequestStop(w)
    PROVE  IndInv'
<1>1. UNCHANGED <<promises, next_queue, slot, cv_mutex, caller, future, idx, task>>
  BY DEF StartDestroy, RequestStop, queueVars, workerVars
<1>2. /\ owner' \in {"using", "stopping", "gone"} /\ stop' \in [Workers -> BOOLEAN]
      /\ at' \in [Workers -> {"loop", "own", "steal", "run", "lock",
                              "predicate", "sleep", "asleep", "exited"}]
      /\ \A v \in Workers : at'[v] = at[v] \/ (at[v] = "asleep" /\ at'[v] = "lock")
  BY DEF IndInv, TypeInv, StartDestroy, RequestStop, Notified, workerVars
<1>3. TypeInv'
  <2>1. Dealt' = Dealt
    BY <1>1 DEF Dealt
  <2> QED
    BY <1>1, <1>2, <2>1 DEF IndInv, TypeInv
<1>4. PlacesInv'
  <2>1. \A j \in Jobs : Enqueued(j) <=> Enqueued(j)'
    BY <1>1 DEF Enqueued
  <2>2. \A v \in Workers : at'[v] = "run" <=> at[v] = "run"
    BY <1>2
  <2> QED
    BY <1>1, <2>1, <2>2, PlacesKept DEF IndInv
<1>5. SleepInv'
  <2>1. \A i \in Workers : NoneReturnedIn(i) => NoneReturnedIn(i)'
    BY <1>1 DEF NoneReturnedIn
  <2>2. \A v \in Workers : at'[v] \in {"predicate", "sleep", "asleep"} => at'[v] = at[v]
    BY <1>2
  <2> QED
    BY <1>1, <2>1, <2>2, SleepKept DEF IndInv
<1> QED
  BY <1>3, <1>4, <1>5 DEF IndInv

(* The positions Queued and Join look at are all there are.                *)
LEMMA QueuedIs ==
    ASSUME IndInv, NEW j
    PROVE  IsQueued(j) <=> \E i \in Workers, k \in 1 .. Cardinality(Jobs) :
                              k \in DOMAIN promises[i] /\ promises[i][k] = j
<1>1. Cardinality(Jobs) \in Nat
  BY PoolAssumption, FS_CardinalityType
<1>2. \A i \in Workers : /\ DOMAIN promises[i] = 1 .. Len(promises[i])
                         /\ 1 .. Len(promises[i]) \subseteq 1 .. Cardinality(Jobs)
  BY <1>1, QueueBound DEF IndInv
<1> QED
  BY <1>2 DEF IsQueued, InQueue

(* Joining the workers breaks the promises left in the queues.             *)
LEMMA JoinInd ==
    ASSUME IndInv, Join
    PROVE  IndInv'
<1>1. UNCHANGED <<next_queue, slot, cv_mutex, caller, at, idx, task, stop>>
  BY DEF Join, workerVars
<1>2. promises' = [i \in Workers |-> <<>>] /\ owner' = "gone"
  BY DEF Join
<1>3. \A i \in Workers : promises'[i] = <<>> /\ Len(promises'[i]) = 0
  BY <1>2
<1>4. \A w \in Workers : at[w] = "exited" /\ task[w] = NoTask
  BY DEF IndInv, PlacesInv, Join
<1>5. future' = [j \in Jobs |-> IF IsQueued(j) THEN "broken" ELSE future[j]]
  BY QueuedIs DEF Join
<1>6. TypeInv'
  <2>1. Dealt' = Dealt
    BY <1>1 DEF Dealt
  <2>2. promises' \in [Workers -> Seq(Jobs)]
    BY <1>2
  <2>3. future' \in [Jobs -> {"pending", "value", "exception", "broken"}]
    BY <1>5 DEF IndInv, TypeInv
  <2> QED
    BY <1>1, <1>2, <2>1, <2>2, <2>3 DEF IndInv, TypeInv
<1>7. PlacesInv'
  <2>1. \A j \in Jobs : ~IsQueued(j)' /\ ~IsCarried(j)' /\ ~IsCarried(j)
    BY <1>1, <1>3, <1>4, PoolAssumption DEF IsQueued, InQueue, IsCarried
  <2>2. \A j \in Jobs : Enqueued(j)' <=> Enqueued(j)
    BY <1>1 DEF Enqueued
  <2>3. \A j \in Jobs : future'[j] = IF IsQueued(j) THEN "broken" ELSE future[j]
    BY <1>5
  <2>4. \A j \in Jobs :
          /\ ~(IsQueued(j)' /\ IsCarried(j)')
          /\ IsQueued(j)' \/ IsCarried(j)' <=> Enqueued(j)' /\ future'[j] = "pending"
          /\ ~Enqueued(j)' => future'[j] = "pending"
    BY <2>1, <2>2, <2>3 DEF IndInv, PlacesInv
  <2> QED
    BY <1>1, <1>3, <2>4 DEF IndInv, PlacesInv
<1>8. SleepInv'
  BY <1>1, <1>4 DEF SleepInv
<1> QED
  BY <1>6, <1>7, <1>8 DEF IndInv
-----------------------------------------------------------------------------
(* Every step keeps the invariant.                                         *)
LEMMA StepInd == IndInv /\ [Next]_vars => IndInv'
<1> SUFFICES ASSUME IndInv, [Next]_vars PROVE IndInv'
  OBVIOUS
<1>1. ASSUME NEW j \in Jobs, Schedule(j) PROVE IndInv'
  BY <1>1, DealInd, EnqueueInd, NotifyInd DEF Schedule
<1>2. ASSUME NEW w \in Workers, Worker(w) \/ SpuriousWakeUp(w) PROVE IndInv'
  BY <1>2, CheckStopInd, TakeInd, LockInd, ScanNextInd, LeaveWaitInd, RunInd DEF Worker
<1>3. CASE StartDestroy \/ Destructor
  BY <1>3, StopInd, JoinInd DEF Destructor
<1>4. CASE UNCHANGED vars
  BY <1>4 DEF vars, queueVars, workerVars, IndInv, TypeInv, PlacesInv, SleepInv,
              Dealt, IsQueued, InQueue, IsCarried, Enqueued, NoneReturnedIn
<1> QED
  BY <1>1, <1>2, <1>3, <1>4 DEF Next, Gone

(* The inductive invariant holds throughout.                               *)
LEMMA Inductive == Spec => []IndInv
  BY StartInd, StepInd, PTL DEF Spec

(* The sets JobInOnePlace counts have at most one element.                 *)
LEMMA QueuedCount ==
    ASSUME IndInv, NEW j \in Jobs
    PROVE  Cardinality(Queued(j)) = IF IsQueued(j) THEN 1 ELSE 0
<1>1. \A i \in Workers : DOMAIN promises[i] = 1 .. Len(promises[i])
  BY QueueBound DEF IndInv
<1>2. CASE IsQueued(j)
  <2>1. PICK i \in Workers, k \in 1 .. Cardinality(Jobs) :
               k \in DOMAIN promises[i] /\ promises[i][k] = j
    BY <1>2, QueuedIs
  <2>2. ASSUME NEW p \in Queued(j) PROVE p = <<i, k>>
    <3>1. /\ p \in Workers \X (1 .. Cardinality(Jobs))
          /\ p[2] \in DOMAIN promises[p[1]] /\ promises[p[1]][p[2]] = j
      BY <2>2 DEF Queued
    <3>2. p = <<p[1], p[2]>> /\ p[1] \in Workers
      BY <3>1
    <3>3. p[1] = i /\ p[2] = k
      BY <1>1, <2>1, <3>1, <3>2 DEF IndInv, PlacesInv
    <3> QED
      BY <3>2, <3>3
  <2>3. <<i, k>> \in Queued(j)
    BY <2>1 DEF Queued
  <2>4. Queued(j) = {<<i, k>>}
    BY <2>2, <2>3
  <2>5. Cardinality({<<i, k>>}) = 1
    BY FS_Singleton
  <2> QED
    BY <1>2, <2>4, <2>5
<1>3. CASE ~IsQueued(j)
  <2>1. Queued(j) = {}
    BY <1>3, QueuedIs DEF Queued
  <2> QED
    BY <1>3, <2>1, FS_EmptySet
<1> QED
  BY <1>2, <1>3

(* A job is in at most one worker's hands.                                 *)
LEMMA CarriedCount ==
    ASSUME IndInv, NEW j \in Jobs
    PROVE  Cardinality(Carried(j)) = IF IsCarried(j) THEN 1 ELSE 0
<1>1. CASE IsCarried(j)
  <2>1. PICK w \in Workers : task[w] = j
    BY <1>1 DEF IsCarried
  <2>2. Carried(j) = {w}
    BY <2>1, PoolAssumption DEF Carried, IndInv, PlacesInv
  <2>3. Cardinality({w}) = 1
    BY FS_Singleton
  <2> QED
    BY <1>1, <2>2, <2>3
<1>2. CASE ~IsCarried(j)
  <2>1. Carried(j) = {}
    BY <1>2 DEF Carried, IsCarried
  <2> QED
    BY <1>2, <2>1, FS_EmptySet
<1> QED
  BY <1>1, <1>2

(* th_pool.cpp never loses and never doubles a task: from the moment       *)
(* schedule_job has enqueued it until its future is settled it is at one   *)
(* place of one queue or in the hands of one worker, and afterwards at     *)
(* none, whoever steals it and whenever the pool is destroyed.             *)
THEOREM JobInOnePlaceCorrect == Spec => []JobInOnePlace
<1>1. ASSUME IndInv PROVE JobInOnePlace
  <2>1. TypeOK
    <3>1. Dealt \subseteq Jobs
      BY DEF Dealt
    <3>2. /\ Cardinality(Dealt) \in Nat /\ Cardinality(Jobs) \in Nat
          /\ Cardinality(Dealt) <= Cardinality(Jobs)
      BY <3>1, FS_Subset, FS_CardinalityType, PoolAssumption
    <3>3. next_queue \in 0 .. Cardinality(Jobs)
      BY <1>1, <3>2 DEF IndInv, TypeInv
    <3> QED
      BY <1>1, <3>3 DEF IndInv, TypeInv, TypeOK
  <2>2. ASSUME NEW j \in Jobs
        PROVE  Cardinality(Queued(j)) + Cardinality(Carried(j))
                 = IF caller[j] \in {"call", "enqueue"} \/ future[j] # "pending"
                   THEN 0 ELSE 1
    <3>1. caller[j] \in {"call", "enqueue"} <=> ~Enqueued(j)
      BY <1>1 DEF IndInv, TypeInv, Enqueued
    <3>2. /\ ~(IsQueued(j) /\ IsCarried(j))
          /\ IsQueued(j) \/ IsCarried(j) <=> Enqueued(j) /\ future[j] = "pending"
      BY <1>1 DEF IndInv, PlacesInv
    <3>3. /\ Cardinality(Queued(j)) = IF IsQueued(j) THEN 1 ELSE 0
          /\ Cardinality(Carried(j)) = IF IsCarried(j) THEN 1 ELSE 0
      BY <1>1, QueuedCount, CarriedCount
    <3> QED
      BY <3>1, <3>2, <3>3
  <2> QED
    BY <2>1, <2>2 DEF JobInOnePlace
<1> QED
  BY <1>1, Inductive, PTL

(* No wake-up is lost in th_pool.cpp: when the schedule_job of a job that  *)
(* is still queued has returned, some worker is awake and has not yet      *)
(* finished looking at the queues, although the predicate of cv.wait looks *)
(* at them one after the other and under other locks than cv_mutex.        *)
THEOREM SomebodyAwakeCorrect == Spec => []SomebodyAwake
<1>1. ASSUME IndInv PROVE SomebodyAwake
  <2> SUFFICES ASSUME NEW j \in Jobs, caller[j] = "returned", Queued(j) # {}
               PROVE  \E w \in Workers : at[w] \notin {"sleep", "asleep"}
    BY DEF SomebodyAwake
  <2>1. PICK i \in Workers : InQueue(j, i)
    <3>1. PICK p : p \in Queued(j)
      OBVIOUS
    <3>2. /\ p[1] \in Workers /\ p[2] \in 1 .. Cardinality(Jobs)
          /\ p[2] \in DOMAIN promises[p[1]] /\ promises[p[1]][p[2]] = j
      BY <3>1 DEF Queued
    <3>3. IsQueued(j)
      BY <1>1, <3>2, QueuedIs
    <3> QED
      BY <3>3 DEF IsQueued
  <2>2. ~NoneReturnedIn(i)
    BY <2>1 DEF InQueue, NoneReturnedIn
  <2>3. 0 \in Workers
    BY PoolAssumption DEF Workers
  <2> QED
    BY <1>1, <2>2, <2>3 DEF IndInv, SleepInv
<1> QED
  BY <1>1, Inductive, PTL
=============================================================================
