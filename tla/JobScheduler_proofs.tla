-------------------------- MODULE JobScheduler_proofs --------------------------
(***************************************************************************)
(* What the scheduler promises of project reservations, of cancellation and *)
(* of the events of a job, for any number of jobs, clients, workers and     *)
(* projects and any room in the queues.  A reservation is held by one work  *)
(* item from submit to the worker's release; a channel holds an item once,  *)
(* so no two workers ever have the same item; the publication barrier       *)
(* decides between cancel() and the result.                                 *)
(***************************************************************************)
EXTENDS JobScheduler, SequenceTheorems, TLAPS

\* From the reservation to the release.
Holding == {"reserved", "refused", "queued", "taken", "working", "entering", "publishing",
            "returned", "releasing"}
Holds(j) == stage[j] \in Holding /\ Reserves(j)

Shape ==
    /\ job \in [Jobs -> Requests \cup {None}]
    /\ stage \in [Jobs -> Stages]
    /\ queue \in [Schedulers -> Seq(Jobs)]
    /\ \A j \in Jobs : stage[j] # "new" => job[j] \in Requests

\* A queued item is where its job says, once.
Channels ==
    \A s \in Schedulers : \A m \in 1..Len(queue[s]) :
        /\ stage[queue[s][m]] = "queued"
        /\ job[queue[s][m]].scheduler = s
        /\ \A n \in 1..Len(queue[s]) : queue[s][m] = queue[s][n] => m = n

Reservations ==
    /\ \A j \in Jobs : Holds(j) => job[j].project \in reservations
    /\ \A i, j \in Jobs : Holds(i) /\ Holds(j) /\ job[i].project = job[j].project => i = j
    /\ \A p \in reservations : \E j \in Jobs : Holds(j) /\ job[j].project = p

\* A job is seen to end when its item is done, not before.
Ending == {"returned", "releasing", "finishing", "refused", "unreserved"}
Visible ==
    /\ record \in [Jobs -> Records]
    /\ sequence \in [Jobs -> Nat]
    /\ outcome \in [Jobs -> Terminal \cup {None}]
    /\ \A j \in Jobs : stage[j] \in Ending => outcome[j] \in Terminal
    /\ \A j \in Jobs : record[j].state \in Terminal => stage[j] = "done"

ReservationInv == Shape /\ Channels /\ Reservations

-----------------------------------------------------------------------------
\* An item moves on without changing hands.
LEMMA MoveKeeps ==
  ASSUME ReservationInv, NEW j \in Jobs, NEW x \in Holding \ {"queued"},
         stage[j] \in Holding \ {"queued"},
         stage' = [stage EXCEPT ![j] = x], UNCHANGED <<job, reservations, queue>>
  PROVE  ReservationInv'
<1> USE DEF Holding
<1>1. Shape'
  BY DEF ReservationInv, Shape, Stages
<1>2. \A i \in Jobs : Holds(i)' <=> Holds(i)
  BY DEF ReservationInv, Shape, Holds, Reserves
<1>3. Channels'
  <2> SUFFICES ASSUME NEW s \in Schedulers, NEW m \in 1..Len(queue[s])
               PROVE  /\ stage'[queue[s][m]] = "queued"
                      /\ job[queue[s][m]].scheduler = s
                      /\ \A n \in 1..Len(queue[s]) : queue[s][m] = queue[s][n] => m = n
    BY DEF Channels
  <2>1. queue[s][m] \in Jobs /\ stage[queue[s][m]] = "queued"
    BY DEF ReservationInv, Shape, Channels
  <2> QED
    BY <2>1 DEF ReservationInv, Shape, Channels
<1>4. Reservations'
  BY <1>2 DEF ReservationInv, Reservations
<1> QED
  BY <1>1, <1>3, <1>4 DEF ReservationInv

\* Steps of the work itself and of its caller.
LEMMA WorkKeeps ==
  ASSUME ReservationInv, NEW j \in Jobs,
         \/ Begin(j) \/ Observe(j) \/ HonorCancellation(j) \/ PassLastCheck(j)
         \/ ObservePublishing(j) \/ WorkReturns(j) \/ Overrule(j) \/ Call(j)
  PROVE  ReservationInv'
<1>1. UNCHANGED <<job, reservations, queue>>
  BY DEF Begin, Observe, HonorCancellation, PassLastCheck, ObservePublishing, WorkReturns,
     Overrule, Call, CancelRequested, CancelTooLate, TakeEvents
<1>2. CASE Observe(j) \/ Call(j)
  <2>1. UNCHANGED stage
    BY <1>2 DEF Observe, Call, CancelRequested, CancelTooLate, TakeEvents
  <2> QED
    BY <1>1, <2>1 DEF ReservationInv, Shape, Channels, Reservations, Holds, Reserves
<1>3. CASE \/ Begin(j) \/ HonorCancellation(j) \/ PassLastCheck(j)
           \/ ObservePublishing(j) \/ WorkReturns(j) \/ Overrule(j)
  <2>1. /\ stage[j] \in Holding \ {"queued"}
        /\ \E x \in Holding \ {"queued"} : stage' = [stage EXCEPT ![j] = x]
    BY <1>3 DEF Begin, HonorCancellation, PassLastCheck, ObservePublishing, WorkReturns,
       Overrule, MoveTo, Holding
  <2> QED
    BY <1>1, <2>1, MoveKeeps
<1> QED
  BY <1>2, <1>3

LEMMA SubmitKeeps ==
  ASSUME ReservationInv, NEW j \in Jobs, Submit(j)
  PROVE  ReservationInv'
<1> USE DEF Holding
<1>1. CASE Reserve(j)
  <2> PICK request \in Requests :
         /\ request.kind # "read" => request.project \notin reservations
         /\ job' = [job EXCEPT ![j] = request]
         /\ reservations' = IF request.kind = "read" THEN reservations
                            ELSE reservations \cup {request.project}
    BY <1>1 DEF Reserve, ProjectTaken
  <2>1. stage[j] = "new" /\ stage' = [stage EXCEPT ![j] = "reserved"] /\ UNCHANGED queue
    BY <1>1 DEF Reserve, MoveTo
  <2>2. Shape'
    BY <2>1 DEF ReservationInv, Shape, Stages
  <2>3. job'[j] = request /\ \A i \in Jobs \ {j} : job'[i] = job[i]
    BY DEF ReservationInv, Shape
  <2>4. stage'[j] = "reserved" /\ \A i \in Jobs \ {j} : stage'[i] = stage[i]
    BY <2>1 DEF ReservationInv, Shape
  <2>5. Channels'
    <3> SUFFICES ASSUME NEW s \in Schedulers, NEW m \in 1..Len(queue[s])
                 PROVE  /\ stage'[queue[s][m]] = "queued"
                        /\ job'[queue[s][m]].scheduler = s
                        /\ \A n \in 1..Len(queue[s]) : queue[s][m] = queue[s][n] => m = n
      BY <2>1 DEF Channels
    <3>1. queue[s][m] \in Jobs \ {j} /\ stage[queue[s][m]] = "queued"
      BY <2>1 DEF ReservationInv, Shape, Channels
    <3> QED
      BY <2>3, <2>4, <3>1 DEF ReservationInv, Channels
  <2>6. \A i \in Jobs \ {j} : Holds(i)' <=> Holds(i)
    BY <2>3, <2>4 DEF Holds, Reserves
  <2>7. Holds(j)' <=> request.kind # "read"
    BY <2>3, <2>4 DEF Holds, Reserves
  <2>8. ~Holds(j)
    BY <2>1 DEF Holds
  <2>9. Reservations'
    <3>1. CASE request.kind = "read"
      <4>1. ~Holds(j)' /\ reservations' = reservations
        BY <2>7, <3>1
      <4> QED
        BY <2>3, <2>6, <2>8, <4>1 DEF ReservationInv, Reservations
    <3>2. CASE request.kind # "read"
      <4>1. Holds(j)' /\ request.project \notin reservations
            /\ reservations' = reservations \cup {request.project}
        BY <2>7, <3>2
      <4>2. \A i \in Jobs \ {j} : Holds(i) => job[i].project # request.project
        BY <4>1 DEF ReservationInv, Reservations
      <4> QED
        BY <2>3, <2>6, <2>8, <4>1, <4>2 DEF ReservationInv, Reservations
    <3> QED
      BY <3>1, <3>2
  <2> QED
    BY <2>2, <2>5, <2>9 DEF ReservationInv
<1>2. CASE RefuseBusy(j)
  <2> PICK request \in Requests : job' = [job EXCEPT ![j] = request]
    BY <1>2 DEF RefuseBusy
  <2>1. /\ stage[j] = "new" /\ stage' = [stage EXCEPT ![j] = "unreserved"]
        /\ UNCHANGED <<queue, reservations>>
    BY <1>2 DEF RefuseBusy, MoveTo
  <2>2. Shape'
    BY <2>1 DEF ReservationInv, Shape, Stages
  <2>3. \A i \in Jobs \ {j} : job'[i] = job[i] /\ stage'[i] = stage[i]
    BY <2>1 DEF ReservationInv, Shape
  <2>4. Channels'
    <3> SUFFICES ASSUME NEW s \in Schedulers, NEW m \in 1..Len(queue[s])
                 PROVE  /\ stage'[queue[s][m]] = "queued"
                        /\ job'[queue[s][m]].scheduler = s
                        /\ \A n \in 1..Len(queue[s]) : queue[s][m] = queue[s][n] => m = n
      BY <2>1 DEF Channels
    <3>1. queue[s][m] \in Jobs \ {j} /\ stage[queue[s][m]] = "queued"
      BY <2>1 DEF ReservationInv, Shape, Channels
    <3> QED
      BY <2>3, <3>1 DEF ReservationInv, Channels
  <2>5. \A i \in Jobs \ {j} : Holds(i)' <=> Holds(i)
    BY <2>3 DEF Holds, Reserves
  <2>6. ~Holds(j) /\ ~Holds(j)'
    BY <2>1 DEF Holds, ReservationInv, Shape
  <2>7. Reservations'
    BY <2>1, <2>3, <2>5, <2>6 DEF ReservationInv, Reservations
  <2> QED
    BY <2>2, <2>4, <2>7 DEF ReservationInv
<1>3. CASE Send(j)
  <2> DEFINE s == job[j].scheduler
  <2>0. stage[j] = "reserved" /\ UNCHANGED <<job, reservations>>
    BY <1>3 DEF Send
  <2>1. CASE Len(queue[s]) < MaxQueuedJobs
    <3>1. queue' = [queue EXCEPT ![s] = Append(@, j)] /\ stage' = [stage EXCEPT ![j] = "queued"]
      BY <1>3, <2>1 DEF Send, MoveTo
    <3>2. s \in Schedulers /\ queue[s] \in Seq(Jobs)
      BY <2>0 DEF ReservationInv, Shape, Requests
    <3>3. /\ queue'[s] = Append(queue[s], j) /\ Len(queue'[s]) = Len(queue[s]) + 1
          /\ queue'[s][Len(queue[s]) + 1] = j /\ Len(queue[s]) \in Nat
          /\ \A m \in 1..Len(queue[s]) : queue'[s][m] = queue[s][m] /\ queue[s][m] \in Jobs
      BY <3>1, <3>2 DEF ReservationInv, Shape
    <3>4. \A t \in Schedulers \ {s} : queue'[t] = queue[t]
      BY <3>1 DEF ReservationInv, Shape
    <3>5. Shape'
      BY <2>0, <3>1, <3>2 DEF ReservationInv, Shape, Stages
    <3>6. \A t \in Schedulers : \A m \in 1..Len(queue[t]) : queue[t][m] \in Jobs \ {j}
      BY <2>0 DEF ReservationInv, Shape, Channels
    <3>7. stage'[j] = "queued" /\ \A i \in Jobs \ {j} : stage'[i] = stage[i]
      BY <3>1 DEF ReservationInv, Shape
    <3>8. Channels'
      <4> SUFFICES ASSUME NEW t \in Schedulers, NEW m \in 1..Len(queue'[t])
                   PROVE  /\ stage'[queue'[t][m]] = "queued"
                          /\ job[queue'[t][m]].scheduler = t
                          /\ \A n \in 1..Len(queue'[t]) : queue'[t][m] = queue'[t][n] => m = n
        BY <2>0 DEF Channels
      <4>1. CASE t # s
        BY <3>4, <3>6, <3>7, <4>1 DEF ReservationInv, Channels
      <4>2. CASE t = s /\ m <= Len(queue[s])
        <5>1. m \in 1..Len(queue[s])
          BY <3>3, <4>2
        <5>2. queue'[t][m] = queue[s][m] /\ queue[s][m] # j
          BY <3>3, <3>6, <3>2, <4>2, <5>1
        <5>3. stage'[queue'[t][m]] = "queued" /\ job[queue'[t][m]].scheduler = t
          BY <3>2, <3>6, <3>7, <4>2, <5>1, <5>2 DEF ReservationInv, Channels
        <5>4. ASSUME NEW n \in 1..Len(queue'[t]), queue'[t][m] = queue'[t][n] PROVE m = n
          <6>1. n # Len(queue[s]) + 1
            BY <3>3, <4>2, <5>2, <5>4
          <6>2. n \in 1..Len(queue[s])
            BY <3>3, <4>2, <6>1
          <6>3. queue[s][m] = queue[s][n]
            BY <3>3, <4>2, <5>2, <5>4, <6>2
          <6> QED
            BY <3>2, <5>1, <6>2, <6>3 DEF ReservationInv, Channels
        <5> QED
          BY <5>3, <5>4
      <4>3. CASE t = s /\ m > Len(queue[s])
        <5>1. m = Len(queue[s]) + 1 /\ queue'[t][m] = j
          BY <3>3, <4>3
        <5>2. ASSUME NEW n \in 1..Len(queue'[t]), queue'[t][m] = queue'[t][n] PROVE m = n
          <6>1. CASE n \in 1..Len(queue[s])
            BY <3>2, <3>3, <3>6, <4>3, <5>1, <5>2, <6>1
          <6>2. CASE n = Len(queue[s]) + 1
            BY <5>1, <6>2
          <6> QED
            BY <3>3, <4>3, <6>1, <6>2
        <5> QED
          BY <3>7, <4>3, <5>1, <5>2
      <4> QED
        BY <3>3, <4>1, <4>2, <4>3
    <3>9. \A i \in Jobs : Holds(i)' <=> Holds(i)
      BY <2>0, <3>7 DEF Holds, Reserves
    <3>10. Reservations'
      BY <2>0, <3>9 DEF ReservationInv, Reservations
    <3> QED
      BY <3>5, <3>8, <3>10 DEF ReservationInv
  <2>2. CASE ~(Len(queue[s]) < MaxQueuedJobs)
    <3>1. stage' = [stage EXCEPT ![j] = "refused"] /\ UNCHANGED queue
      BY <1>3, <2>2 DEF Send, MoveTo
    <3> QED
      BY <2>0, <3>1, MoveKeeps
  <2> QED
    BY <2>1, <2>2
<1> QED
  BY <1>1, <1>2, <1>3 DEF Submit

\* A worker takes the oldest item of a channel, and nobody else has it.
LEMMA ReceiveKeeps ==
  ASSUME ReservationInv, NEW s \in Schedulers, Receive(s)
  PROVE  ReservationInv'
<1> DEFINE j == Head(queue[s])
<1>1. queue[s] \in Seq(Jobs) /\ queue[s] # <<>>
  BY DEF Receive, ReservationInv, Shape
<1>2. /\ j = queue[s][1] /\ j \in Jobs /\ Len(queue[s]) \in Nat \ {0} /\ 1 \in 1..Len(queue[s])
      /\ Tail(queue[s]) \in Seq(Jobs) /\ Len(Tail(queue[s])) = Len(queue[s]) - 1
      /\ \A m \in 1..Len(queue[s]) - 1 : Tail(queue[s])[m] = queue[s][m + 1]
  BY <1>1, HeadTailProperties
<1>3. stage[j] = "queued" /\ job[j].scheduler = s
  BY <1>2 DEF ReservationInv, Channels
<1>4. /\ queue' = [queue EXCEPT ![s] = Tail(@)] /\ stage' = [stage EXCEPT ![j] = "taken"]
      /\ UNCHANGED <<job, reservations>>
  BY DEF Receive, MoveTo
<1>5. /\ queue'[s] = Tail(queue[s]) /\ \A t \in Schedulers \ {s} : queue'[t] = queue[t]
      /\ stage'[j] = "taken" /\ \A i \in Jobs \ {j} : stage'[i] = stage[i]
  BY <1>2, <1>4 DEF ReservationInv, Shape
<1>6. Shape'
  <2>1. queue' \in [Schedulers -> Seq(Jobs)] /\ stage' \in [Jobs -> Stages]
    BY <1>2, <1>4 DEF ReservationInv, Shape, Stages
  <2>2. ASSUME NEW i \in Jobs, stage'[i] # "new" PROVE job[i] \in Requests
    BY <1>3, <1>5, <2>2 DEF ReservationInv, Shape
  <2> QED
    BY <1>4, <2>1, <2>2 DEF ReservationInv, Shape
<1>7. Channels'
  <2>1. ASSUME NEW m \in 1..Len(queue'[s])
        PROVE  /\ queue'[s][m] = queue[s][m + 1] /\ m + 1 \in 1..Len(queue[s])
               /\ queue'[s][m] \in Jobs \ {j}
    <3>1. queue'[s][m] = queue[s][m + 1] /\ m + 1 \in 1..Len(queue[s]) /\ m + 1 # 1
      BY <1>2, <1>5
    <3>2. queue[s][m + 1] \in Jobs
      BY <1>1, <3>1
    <3>3. queue[s][m + 1] # j
      BY <1>2, <3>1 DEF ReservationInv, Channels
    <3> QED
      BY <3>1, <3>2, <3>3
  <2>2. ASSUME NEW m \in 1..Len(queue'[s])
        PROVE  /\ stage'[queue'[s][m]] = "queued" /\ job[queue'[s][m]].scheduler = s
               /\ \A n \in 1..Len(queue'[s]) : queue'[s][m] = queue'[s][n] => m = n
    <3>1. stage'[queue'[s][m]] = "queued" /\ job[queue'[s][m]].scheduler = s
      BY <1>5, <2>1 DEF ReservationInv, Channels
    <3>2. ASSUME NEW n \in 1..Len(queue'[s]), queue'[s][m] = queue'[s][n] PROVE m = n
      <4>1. queue[s][m + 1] = queue[s][n + 1] /\ m + 1 \in 1..Len(queue[s]) /\ n + 1 \in 1..Len(queue[s])
        BY <2>1, <3>2
      <4>2. m + 1 = n + 1
        BY <4>1 DEF ReservationInv, Channels
      <4> QED
        BY <1>2, <1>5, <4>2
    <3> QED
      BY <3>1, <3>2
  <2>3. ASSUME NEW t \in Schedulers \ {s}, NEW m \in 1..Len(queue'[t])
        PROVE  /\ stage'[queue'[t][m]] = "queued" /\ job[queue'[t][m]].scheduler = t
               /\ \A n \in 1..Len(queue'[t]) : queue'[t][m] = queue'[t][n] => m = n
    <3>1. queue'[t] = queue[t] /\ queue[t][m] \in Jobs /\ job[queue[t][m]].scheduler = t
      BY <1>5 DEF ReservationInv, Shape, Channels
    <3>2. queue[t][m] # j
      BY <1>3, <3>1
    <3> QED
      BY <1>5, <3>1, <3>2 DEF ReservationInv, Channels
  <2>4. UNCHANGED job
    BY <1>4
  <2> SUFFICES ASSUME NEW t \in Schedulers, NEW m \in 1..Len(queue'[t])
               PROVE  /\ stage'[queue'[t][m]] = "queued" /\ job[queue'[t][m]].scheduler = t
                      /\ \A n \in 1..Len(queue'[t]) : queue'[t][m] = queue'[t][n] => m = n
    BY <2>4 DEF Channels
  <2>5. CASE t = s
    BY <2>2, <2>5
  <2>6. CASE t # s
    BY <2>3, <2>6
  <2> QED
    BY <2>5, <2>6
<1>8. \A i \in Jobs : Holds(i)' <=> Holds(i)
  BY <1>3, <1>4, <1>5 DEF Holds, Reserves, Holding
<1>9. Reservations'
  BY <1>4, <1>8 DEF ReservationInv, Reservations
<1> QED
  BY <1>6, <1>7, <1>9 DEF ReservationInv

\* The release takes away exactly what the item's submission reserved.
LEMMA EndKeeps ==
  ASSUME ReservationInv, NEW j \in Jobs, Release(j) \/ Finish(j)
  PROVE  ReservationInv'
<1> USE DEF Holding
<1>1. PICK x \in {"unreserved", "finishing", "done"} : stage' = [stage EXCEPT ![j] = x]
  BY DEF Release, Finish, MoveTo
<1>2. stage[j] \in {"releasing", "refused", "finishing", "unreserved"} /\ UNCHANGED <<job, queue>>
  BY DEF Release, Finish
<1>3. Shape'
  BY <1>1, <1>2 DEF ReservationInv, Shape, Stages
<1>4. stage'[j] = x /\ \A i \in Jobs \ {j} : stage'[i] = stage[i]
  BY <1>1 DEF ReservationInv, Shape
<1>5. Channels'
  <2> SUFFICES ASSUME NEW s \in Schedulers, NEW m \in 1..Len(queue[s])
               PROVE  /\ stage'[queue[s][m]] = "queued"
                      /\ job[queue[s][m]].scheduler = s
                      /\ \A n \in 1..Len(queue[s]) : queue[s][m] = queue[s][n] => m = n
    BY <1>2 DEF Channels
  <2>1. queue[s][m] \in Jobs \ {j}
    BY <1>2 DEF ReservationInv, Shape, Channels
  <2> QED
    BY <1>4, <2>1 DEF ReservationInv, Channels
<1>6. ~Holds(j)' /\ \A i \in Jobs \ {j} : Holds(i)' <=> Holds(i)
  BY <1>2, <1>4 DEF Holds, Reserves
<1>7. Reservations'
  <2>1. CASE Finish(j)
    <3>1. UNCHANGED reservations /\ ~Holds(j)
      BY <2>1 DEF Finish, Holds
    <3> QED
      BY <1>2, <1>6, <3>1 DEF ReservationInv, Reservations
  <2>2. CASE Release(j) /\ Reserves(j)
    <3>1. Holds(j) /\ reservations' = reservations \ {job[j].project}
      BY <2>2 DEF Release, Holds
    <3>2. \A i \in Jobs \ {j} : Holds(i) => job[i].project # job[j].project
      BY <3>1 DEF ReservationInv, Reservations
    <3> QED
      BY <1>2, <1>6, <3>1, <3>2 DEF ReservationInv, Reservations
  <2>3. CASE Release(j) /\ ~Reserves(j)
    <3>1. ~Holds(j) /\ UNCHANGED reservations
      BY <2>3 DEF Release, Holds
    <3> QED
      BY <1>2, <1>6, <3>1 DEF ReservationInv, Reservations
  <2> QED
    BY <2>1, <2>2, <2>3
<1> QED
  BY <1>3, <1>5, <1>7 DEF ReservationInv

\* The reservation invariant is inductive.
LEMMA ReservationInductive == Spec => []ReservationInv
<1>1. Init => ReservationInv
  <2> SUFFICES ASSUME Init PROVE ReservationInv
    OBVIOUS
  <2>1. Shape
    BY DEF Init, Shape, Stages
  <2>2. Channels
    BY DEF Init, Channels
  <2>3. Reservations
    BY DEF Init, Reservations, Holds, Holding
  <2> QED
    BY <2>1, <2>2, <2>3 DEF ReservationInv
<1>2. ReservationInv /\ [Next]_vars => ReservationInv'
  <2> SUFFICES ASSUME ReservationInv, [Next]_vars PROVE ReservationInv'
    OBVIOUS
  <2>1. ASSUME NEW j \in Jobs, Submit(j) PROVE ReservationInv'
    BY <2>1, SubmitKeeps
  <2>2. ASSUME NEW j \in Jobs, Work(j) \/ Call(j) PROVE ReservationInv'
    BY <2>2, WorkKeeps, EndKeeps DEF Work
  <2>3. ASSUME NEW s \in Schedulers, Receive(s) PROVE ReservationInv'
    BY <2>3, ReceiveKeeps
  <2>4. ASSUME NEW s \in Schedulers, DropScheduler(s) PROVE ReservationInv'
    BY <2>4 DEF DropScheduler, ReservationInv, Shape, Channels, Reservations, Holds, Reserves
  <2>5. CASE UNCHANGED vars
    BY <2>5 DEF vars, ReservationInv, Shape, Channels, Reservations, Holds, Reserves
  <2> QED
    BY <2>1, <2>2, <2>3, <2>4, <2>5 DEF Next
<1> QED
  BY <1>1, <1>2, PTL DEF Spec

\* Two jobs that may change a project never execute together, whatever clients
\* and workers they have (the reservation in Scheduler::submit).
THEOREM ProjectsAreExclusive == Spec => []ProjectExclusive
<1>1. ReservationInv => ProjectExclusive
  BY DEF ReservationInv, Reservations, ProjectExclusive, Holds, Holding, Executing
<1> QED
  BY <1>1, ReservationInductive, PTL

\* A bounded push keeps a sequence of events.
LEMMA PushKeepsEvents ==
  ASSUME NEW events \in Seq(Events), NEW event \in Events, NEW terminal
  PROVE  PushBounded(events, event, terminal) \in Seq(Events)
<1>1. CASE Len(events) < MaxEventQueue
  BY <1>1 DEF PushBounded
<1>2. CASE ~(Len(events) < MaxEventQueue)
  <2>1. events # <<>> /\ Len(events) \in 1..Len(events)
    BY <1>2, SchedulerAssumption
  <2>2. Tail(events) \in Seq(Events)
    BY <2>1, HeadTailProperties
  <2>3. Append(Tail(events), event) \in Seq(Events)
    BY <2>2, AppendProperties
  <2>4. [events EXCEPT ![Len(events)] = event] \in Seq(Events)
    BY <2>1, ExceptSeq
  <2> QED
    BY <1>2, <2>3, <2>4 DEF PushBounded
<1> QED
  BY <1>1, <1>2

\* An event that a live job reports keeps the records, and the job alive.
LEMMA EnterKeeps ==
  ASSUME Visible, NEW j \in Jobs, NEW x \in States \ Terminal, Enter(j, x)
  PROVE  /\ record' \in [Jobs -> Records] /\ sequence' \in [Jobs -> Nat]
         /\ record'[j].state = x /\ \A i \in Jobs \ {j} : record'[i] = record[i]
<1>1. record[j] \in Records /\ sequence[j] \in Nat
  BY DEF Visible
<1>2. [sequence |-> sequence[j], state |-> x] \in Events
  BY <1>1 DEF Events
<1> DEFINE queued == PushBounded(record[j].events, [sequence |-> sequence[j], state |-> x], FALSE)
<1>3. queued \in Seq(Events)
  BY <1>1, <1>2, PushKeepsEvents DEF Records
<1>4. record' = [record EXCEPT ![j].state = x, ![j].events = queued]
      /\ sequence' = [sequence EXCEPT ![j] = @ + 1]
  BY DEF Enter
<1> HIDE DEF queued
<1>5. record'[j] = [record[j] EXCEPT !.state = x, !.events = queued]
      /\ \A i \in Jobs \ {j} : record'[i] = record[i]
  BY <1>4 DEF Visible
<1>6. record'[j] \in Records /\ record'[j].state = x
  BY <1>1, <1>3, <1>5 DEF Records
<1> QED
  BY <1>4, <1>5, <1>6 DEF Visible

\* A job is terminal for its callers only when its item is done.
LEMMA EndIsLast == Spec => []Visible
<1> USE DEF Ending
<1>1. Init => Visible
  <2> SUFFICES ASSUME Init PROVE Visible
    OBVIOUS
  <2>1. <<[sequence |-> 0, state |-> "queued"]>> \in Seq(Events)
    BY DEF Events, States, Terminal
  <2>2. NewRecord \in Records
    BY <2>1 DEF NewRecord, Records, States, Terminal
  <2>3. NewRecord.state = "queued"
    BY DEF NewRecord
  <2> QED
    BY <2>2, <2>3 DEF Init, Visible, Terminal
<1>2. Visible /\ ReservationInv /\ [Next]_vars => Visible'
  <2> SUFFICES ASSUME Visible, ReservationInv, [Next]_vars PROVE Visible'
    OBVIOUS
  <2>0. stage \in [Jobs -> Stages]
    BY DEF ReservationInv, Shape
  <2>1. ASSUME NEW j \in Jobs, NEW x \in Stages, stage[j] # "done", x # "done",
               stage' = stage \/ stage' = [stage EXCEPT ![j] = x], UNCHANGED <<record, sequence>>,
               \/ UNCHANGED outcome /\ (x \in Ending => outcome[j] \in Terminal)
               \/ \E o \in Terminal : Decide(j, o)
        PROVE  Visible'
    BY <2>0, <2>1 DEF Visible, Decide
  <2>2. ASSUME NEW j \in Jobs, NEW x \in States \ Terminal, NEW y \in Stages \ Ending,
               Enter(j, x), UNCHANGED outcome,
               stage' = stage \/ stage' = [stage EXCEPT ![j] = y]
        PROVE  Visible'
    BY <2>0, <2>2, EnterKeeps DEF Visible
  <2>3. ASSUME NEW j \in Jobs, Submit(j) PROVE Visible'
    <3>1. CASE Reserve(j)
      BY <2>1, <3>1 DEF Reserve, MoveTo, Stages
    <3>2. CASE RefuseBusy(j)
      BY <2>1, <3>2 DEF RefuseBusy, MoveTo, Stages, Terminal
    <3>3. CASE Send(j)
      BY <2>1, <3>3 DEF Send, MoveTo, Stages, Terminal
    <3> QED
      BY <2>3, <3>1, <3>2, <3>3 DEF Submit
  <2>4. ASSUME NEW j \in Jobs, Work(j) PROVE Visible'
    <3>1. CASE Begin(j)
      <4>1. CASE cancelled[j]
        BY <2>1, <3>1, <4>1 DEF Begin, MoveTo, Stages, Terminal
      <4>2. CASE ~cancelled[j]
        BY <2>2, <3>1, <4>2 DEF Begin, MoveTo, Stages, States, Terminal
      <4> QED
        BY <4>1, <4>2
    <3>2. CASE Observe(j)
      <4>1. Enter(j, ObservedState(j)) /\ UNCHANGED <<stage, outcome>>
        BY <3>2 DEF Observe
      <4>2. ObservedState(j) \in States \ Terminal
        BY DEF ObservedState, States, Terminal
      <4>3. "working" \in Stages \ Ending
        BY DEF Stages
      <4> QED
        BY <2>2, <4>1, <4>2, <4>3
    <3>3. CASE HonorCancellation(j)
      BY <2>1, <3>3 DEF HonorCancellation, MoveTo, Stages, Terminal
    <3>4. CASE PassLastCheck(j)
      BY <2>1, <3>4 DEF PassLastCheck, MoveTo, Stages
    <3>5. CASE ObservePublishing(j)
      <4> DEFINE queued == PushBounded(record[j].events, [sequence |-> sequence[j], state |-> "publishing"], FALSE)
      <4>1. record[j] \in Records /\ sequence[j] \in Nat /\ "publishing" \in States
        BY <3>5 DEF ObservePublishing, Visible, States, Terminal
      <4>2. [sequence |-> sequence[j], state |-> "publishing"] \in Events
        BY <4>1 DEF Events
      <4>3. queued \in Seq(Events)
        BY <4>1, <4>2, PushKeepsEvents DEF Records
      <4>4. /\ record' = [record EXCEPT ![j].barrier = TRUE, ![j].state = "publishing", ![j].events = queued]
            /\ sequence' = [sequence EXCEPT ![j] = @ + 1] /\ UNCHANGED outcome
        BY <3>5 DEF ObservePublishing
      <4> HIDE DEF queued
      <4>5. record'[j] = [record[j] EXCEPT !.barrier = TRUE, !.state = "publishing", !.events = queued]
            /\ \A i \in Jobs \ {j} : record'[i] = record[i]
        BY <4>4 DEF Visible
      <4>6. record'[j] \in Records /\ record'[j].state = "publishing"
        BY <4>1, <4>3, <4>5 DEF Records
      <4>7. stage' = [stage EXCEPT ![j] = "publishing"]
        BY <3>5 DEF ObservePublishing, MoveTo
      <4> QED
        BY <2>0, <4>4, <4>5, <4>6, <4>7 DEF Visible, Terminal
    <3>6. CASE WorkReturns(j)
      BY <2>1, <3>6 DEF WorkReturns, MoveTo, Stages, Terminal
    <3>7. CASE Overrule(j)
      <4>1. (IF cancelled[j] /\ ~record[j].barrier THEN "cancelled" ELSE outcome[j]) \in Terminal
        BY <3>7 DEF Overrule, Visible, Terminal
      <4> QED
        BY <2>1, <3>7, <4>1 DEF Overrule, MoveTo, Stages
    <3>8. CASE Release(j)
      BY <2>1, <3>8 DEF Release, MoveTo, Stages, Visible
    <3>9. CASE Finish(j)
      <4> DEFINE queued == PushBounded(record[j].events, [sequence |-> sequence[j], state |-> outcome[j]], TRUE)
      <4>1. record[j] \in Records /\ sequence[j] \in Nat /\ outcome[j] \in States
        BY <3>9 DEF Finish, Visible, States, Terminal
      <4>2. [sequence |-> sequence[j], state |-> outcome[j]] \in Events
        BY <4>1 DEF Events
      <4>3. queued \in Seq(Events)
        BY <4>1, <4>2, PushKeepsEvents DEF Records
      <4>4. /\ record' = [record EXCEPT ![j].state = outcome[j], ![j].result = outcome[j], ![j].events = queued]
            /\ sequence' = [sequence EXCEPT ![j] = @ + 1] /\ UNCHANGED outcome
        BY <3>9 DEF Finish
      <4> HIDE DEF queued
      <4>5. record'[j] = [record[j] EXCEPT !.state = outcome[j], !.result = outcome[j], !.events = queued]
            /\ \A i \in Jobs \ {j} : record'[i] = record[i]
        BY <4>4 DEF Visible
      <4>6. record'[j] \in Records
        BY <4>1, <4>3, <4>5 DEF Records, Visible
      <4>7. stage' = [stage EXCEPT ![j] = "done"]
        BY <3>9 DEF Finish, MoveTo
      <4> QED
        BY <2>0, <4>4, <4>5, <4>6, <4>7 DEF Visible
    <3> QED
      BY <2>4, <3>1, <3>2, <3>3, <3>4, <3>5, <3>6, <3>7, <3>8, <3>9 DEF Work
  <2>5. ASSUME NEW j \in Jobs, Call(j) PROVE Visible'
    <3>1. "working" \in Stages \ Ending /\ "cancelling" \in States \ Terminal
      BY DEF Stages, States, Terminal
    <3>2. CASE CancelRequested(j)
      BY <2>2, <3>1, <3>2 DEF CancelRequested
    <3>3. CASE CancelTooLate(j)
      BY <3>3 DEF CancelTooLate, Visible
    <3>4. CASE TakeEvents(j)
      <4>1. /\ record' = [record EXCEPT ![j].events = <<>>] /\ record[j] \in Records
            /\ UNCHANGED <<sequence, stage, outcome>>
        BY <3>4 DEF TakeEvents, Visible
      <4>2. record'[j] = [record[j] EXCEPT !.events = <<>>]
            /\ \A i \in Jobs \ {j} : record'[i] = record[i]
        BY <4>1 DEF Visible
      <4>3. record'[j] \in Records /\ record'[j].state = record[j].state
        <5>1. <<>> \in Seq(Events)
          OBVIOUS
        <5> QED
          BY <4>1, <4>2, <5>1 DEF Records
      <4>4. record' \in [Jobs -> Records]
        BY <4>1, <4>2, <4>3 DEF Visible
      <4>5. \A i \in Jobs : record'[i].state = record[i].state
        BY <4>2, <4>3
      <4> QED
        BY <4>1, <4>4, <4>5 DEF Visible
    <3> QED
      BY <2>5, <3>2, <3>3, <3>4 DEF Call
  <2>6. ASSUME NEW s \in Schedulers, Receive(s) PROVE Visible'
    <3>1. Head(queue[s]) \in Jobs /\ stage[Head(queue[s])] = "queued"
      <4>1. queue[s] \in Seq(Jobs) /\ queue[s] # <<>>
        BY <2>6 DEF Receive, ReservationInv, Shape
      <4>2. Head(queue[s]) = queue[s][1] /\ 1 \in 1..Len(queue[s]) /\ Head(queue[s]) \in Jobs
        BY <4>1, HeadTailProperties
      <4> QED
        BY <4>2 DEF ReservationInv, Channels
    <3> QED
      BY <2>1, <2>6, <3>1 DEF Receive, MoveTo, Stages
  <2>7. CASE (\E s \in Schedulers : DropScheduler(s)) \/ UNCHANGED vars
    BY <2>7 DEF DropScheduler, vars, Visible
  <2> QED
    BY <2>3, <2>4, <2>5, <2>6, <2>7 DEF Next
<1> QED
  BY <1>1, <1>2, ReservationInductive, PTL DEF Spec

\* A job that its caller sees ended has released its project (worker_loop
\* releases before it finishes): whoever still reserves it is another job.
THEOREM ReleaseComesFirst == Spec => []ReleasedBeforeVisible
<1>1. ReservationInv /\ Visible => ReleasedBeforeVisible
  <2> SUFFICES ASSUME ReservationInv, Visible, NEW j \in Jobs,
                      record[j].state \in Terminal, job[j].project \in reservations
               PROVE  \E i \in Jobs \ {j} : /\ stage[i] \notin {"new", "done"}
                                            /\ Reserves(i)
                                            /\ job[i].project = job[j].project
    BY DEF ReleasedBeforeVisible
  <2>1. PICK i \in Jobs : Holds(i) /\ job[i].project = job[j].project
    BY DEF ReservationInv, Reservations
  <2>2. stage[j] = "done"
    BY DEF Visible
  <2> QED
    BY <2>1, <2>2 DEF Holds, Holding
<1> QED
  BY <1>1, ReservationInductive, EndIsLast, PTL

-----------------------------------------------------------------------------
(* Cancellation against publication, and what a caller reads of its job. *)

\* What an event that a live job reports changes of its record.
LEMMA EnterEffect ==
  ASSUME Visible, NEW j \in Jobs, NEW x \in States, Enter(j, x)
  PROVE  /\ record'[j].state = x /\ record'[j].barrier = record[j].barrier
         /\ record'[j].events = PushBounded(record[j].events, [sequence |-> sequence[j], state |-> x], FALSE)
         /\ \A i \in Jobs \ {j} : record'[i] = record[i]
         /\ sequence' = [sequence EXCEPT ![j] = @ + 1]
<1> DEFINE queued == PushBounded(record[j].events, [sequence |-> sequence[j], state |-> x], FALSE)
<1>1. record[j] \in Records /\ sequence[j] \in Nat
  BY DEF Visible
<1>2. [sequence |-> sequence[j], state |-> x] \in Events
  BY <1>1 DEF Events
<1>3. queued \in Seq(Events)
  BY <1>1, <1>2, PushKeepsEvents DEF Records
<1>4. record' = [record EXCEPT ![j].state = x, ![j].events = queued]
      /\ sequence' = [sequence EXCEPT ![j] = @ + 1]
  BY DEF Enter
<1> HIDE DEF queued
<1>5. record'[j] = [record[j] EXCEPT !.state = x, !.events = queued]
      /\ \A i \in Jobs \ {j} : record'[i] = record[i]
  BY <1>4 DEF Visible
<1>6. record'[j].state = x /\ record'[j].barrier = record[j].barrier /\ record'[j].events = queued
  BY <1>1, <1>5 DEF Records
<1> QED
  BY <1>4, <1>5, <1>6 DEF queued

\* The same of the announcement of the publication ...
LEMMA PublishingEffect ==
  ASSUME Visible, NEW j \in Jobs, ObservePublishing(j)
  PROVE  /\ record'[j].state = "publishing" /\ record'[j].barrier
         /\ record'[j].events =
                PushBounded(record[j].events, [sequence |-> sequence[j], state |-> "publishing"], FALSE)
         /\ \A i \in Jobs \ {j} : record'[i] = record[i]
         /\ sequence' = [sequence EXCEPT ![j] = @ + 1]
<1> DEFINE queued == PushBounded(record[j].events, [sequence |-> sequence[j], state |-> "publishing"], FALSE)
<1>1. record[j] \in Records /\ sequence[j] \in Nat /\ "publishing" \in States
  BY DEF Visible, States
<1>2. [sequence |-> sequence[j], state |-> "publishing"] \in Events
  BY <1>1 DEF Events
<1>3. queued \in Seq(Events)
  BY <1>1, <1>2, PushKeepsEvents DEF Records
<1>4. record' = [record EXCEPT ![j].barrier = TRUE, ![j].state = "publishing", ![j].events = queued]
      /\ sequence' = [sequence EXCEPT ![j] = @ + 1]
  BY DEF ObservePublishing
<1> HIDE DEF queued
<1>5. record'[j] = [record[j] EXCEPT !.barrier = TRUE, !.state = "publishing", !.events = queued]
      /\ \A i \in Jobs \ {j} : record'[i] = record[i]
  BY <1>4 DEF Visible
<1>6. record'[j].state = "publishing" /\ record'[j].barrier /\ record'[j].events = queued
  BY <1>1, <1>5 DEF Records
<1> QED
  BY <1>4, <1>5, <1>6 DEF queued

\* ... and of the end of the job.
LEMMA FinishEffect ==
  ASSUME Visible, NEW j \in Jobs, Finish(j)
  PROVE  /\ outcome[j] \in Terminal
         /\ record'[j].state = outcome[j] /\ record'[j].barrier = record[j].barrier
         /\ record'[j].events =
                PushBounded(record[j].events, [sequence |-> sequence[j], state |-> outcome[j]], TRUE)
         /\ \A i \in Jobs \ {j} : record'[i] = record[i]
         /\ sequence' = [sequence EXCEPT ![j] = @ + 1]
<1> DEFINE queued == PushBounded(record[j].events, [sequence |-> sequence[j], state |-> outcome[j]], TRUE)
<1>1. record[j] \in Records /\ sequence[j] \in Nat /\ outcome[j] \in Terminal /\ outcome[j] \in States
  BY DEF Visible, States, Finish, Ending
<1>2. [sequence |-> sequence[j], state |-> outcome[j]] \in Events
  BY <1>1 DEF Events
<1>3. queued \in Seq(Events)
  BY <1>1, <1>2, PushKeepsEvents DEF Records
<1>4. record' = [record EXCEPT ![j].state = outcome[j], ![j].result = outcome[j], ![j].events = queued]
      /\ sequence' = [sequence EXCEPT ![j] = @ + 1]
  BY DEF Finish
<1> HIDE DEF queued
<1>5. record'[j] = [record[j] EXCEPT !.state = outcome[j], !.result = outcome[j], !.events = queued]
      /\ \A i \in Jobs \ {j} : record'[i] = record[i]
  BY <1>4 DEF Visible
<1>6. record'[j].state = outcome[j] /\ record'[j].barrier = record[j].barrier /\ record'[j].events = queued
  BY <1>1, <1>5 DEF Records
<1> QED
  BY <1>1, <1>4, <1>5, <1>6 DEF queued

\* Taking the events leaves the rest of the record.
LEMMA TakeEffect ==
  ASSUME Visible, NEW j \in Jobs, TakeEvents(j)
  PROVE  /\ record'[j].state = record[j].state /\ record'[j].barrier = record[j].barrier
         /\ record'[j].events = <<>>
         /\ \A i \in Jobs \ {j} : record'[i] = record[i]
<1>1. record' = [record EXCEPT ![j].events = <<>>] /\ record[j] \in Records
  BY DEF TakeEvents, Visible
<1>2. record'[j] = [record[j] EXCEPT !.events = <<>>] /\ \A i \in Jobs \ {j} : record'[i] = record[i]
  BY <1>1 DEF Visible
<1> QED
  BY <1>1, <1>2 DEF Records

\* A worker only ever takes a queued job.
LEMMA ReceiveEffect ==
  ASSUME ReservationInv, NEW s \in Schedulers, Receive(s)
  PROVE  \E j \in Jobs : stage[j] = "queued" /\ stage' = [stage EXCEPT ![j] = "taken"]
<1> DEFINE j == Head(queue[s])
<1>1. queue[s] \in Seq(Jobs) /\ queue[s] # <<>>
  BY DEF Receive, ReservationInv, Shape
<1>2. j = queue[s][1] /\ 1 \in 1..Len(queue[s]) /\ j \in Jobs
  BY <1>1, HeadTailProperties
<1>3. stage[j] = "queued" /\ stage' = [stage EXCEPT ![j] = "taken"]
  BY <1>2 DEF ReservationInv, Channels, Receive, MoveTo
<1> QED
  BY <1>2, <1>3

\* The publication barrier of a job: it is closed by the announcement, from then on
\* the job is publishing until it ends, and what it ends with was decided by its work.
Published == {"publishing", "returned", "releasing", "finishing", "done"}
Barriers ==
    \A j \in Jobs :
        /\ record[j].barrier => stage[j] \in Published
        /\ record[j].state = "publishing" => record[j].barrier
        /\ record[j].barrier /\ stage[j] # "done" => record[j].state = "publishing"
        /\ record[j].barrier /\ stage[j] \in Published \ {"publishing"} =>
               outcome[j] \in {"completed", "failed"}
        /\ record[j].barrier /\ stage[j] = "done" => record[j].state = outcome[j]
        /\ "too_late" \in answers[j] => record[j].barrier

\* No step of the work, of its worker or of its caller breaks the barrier.
LEMMA BarriersInductive == Spec => []Barriers
<1>1. Init => Barriers
  <2> SUFFICES ASSUME Init PROVE Barriers
    OBVIOUS
  <2>1. NewRecord.state = "queued" /\ NewRecord.barrier = FALSE
    BY DEF NewRecord
  <2> QED
    BY <2>1 DEF Init, Barriers
<1>2. Barriers /\ Visible /\ ReservationInv /\ [Next]_vars => Barriers'
  <2> SUFFICES ASSUME Barriers, Visible, ReservationInv, [Next]_vars PROVE Barriers'
    OBVIOUS
  <2> USE DEF Published
  <2>0. stage \in [Jobs -> Stages] /\ outcome \in [Jobs -> Terminal \cup {None}]
    BY DEF ReservationInv, Shape, Visible
  <2>1. ASSUME NEW j \in Jobs, NEW x, stage[j] \notin Published, x \notin {"publishing", "done"},
               stage' = [stage EXCEPT ![j] = x], UNCHANGED <<record, answers>>,
               UNCHANGED outcome \/ \E o : Decide(j, o)
        PROVE  Barriers'
    BY <2>0, <2>1 DEF Barriers, Decide
  <2>2. ASSUME NEW j \in Jobs, Submit(j) PROVE Barriers'
    BY <2>1, <2>2 DEF Submit, Reserve, RefuseBusy, Send, MoveTo
  <2>3. ASSUME NEW j \in Jobs, Begin(j) PROVE Barriers'
    <3>1. CASE cancelled[j]
      BY <2>1, <2>3, <3>1 DEF Begin, MoveTo
    <3>2. CASE ~cancelled[j]
      <4>1. stage[j] = "taken" /\ Enter(j, "running") /\ stage' = [stage EXCEPT ![j] = "working"]
            /\ UNCHANGED <<outcome, answers>>
        BY <2>3, <3>2 DEF Begin, MoveTo
      <4>2. record'[j].state = "running" /\ record'[j].barrier = record[j].barrier
            /\ \A i \in Jobs \ {j} : record'[i] = record[i]
        BY <4>1, EnterEffect DEF States
      <4> QED
        BY <2>0, <4>1, <4>2 DEF Barriers
    <3> QED
      BY <3>1, <3>2
  <2>4. ASSUME NEW j \in Jobs, Observe(j) PROVE Barriers'
    <3>1. Enter(j, ObservedState(j)) /\ UNCHANGED <<stage, outcome, answers>> /\ stage[j] # "done"
      BY <2>4 DEF Observe
    <3>2. /\ ObservedState(j) \in States
          /\ record[j].barrier => ObservedState(j) = "publishing"
          /\ ~record[j].barrier => ObservedState(j) # "publishing"
      BY DEF ObservedState, States
    <3>3. record'[j].state = ObservedState(j) /\ record'[j].barrier = record[j].barrier
          /\ \A i \in Jobs \ {j} : record'[i] = record[i]
      BY <3>1, <3>2, EnterEffect
    <3> QED
      BY <3>1, <3>2, <3>3 DEF Barriers
  <2>5. ASSUME NEW j \in Jobs, HonorCancellation(j) \/ PassLastCheck(j) PROVE Barriers'
    BY <2>1, <2>5 DEF HonorCancellation, PassLastCheck, MoveTo
  <2>6. ASSUME NEW j \in Jobs, ObservePublishing(j) PROVE Barriers'
    <3>1. stage[j] = "entering" /\ stage' = [stage EXCEPT ![j] = "publishing"] /\ UNCHANGED <<outcome, answers>>
      BY <2>6 DEF ObservePublishing, MoveTo
    <3>2. record'[j].state = "publishing" /\ record'[j].barrier
          /\ \A i \in Jobs \ {j} : record'[i] = record[i]
      BY <2>6, PublishingEffect
    <3> QED
      BY <2>0, <3>1, <3>2 DEF Barriers
  <2>7. ASSUME NEW j \in Jobs, WorkReturns(j) PROVE Barriers'
    <3>1. CASE stage[j] = "publishing" /\ \E o \in {"completed", "failed"} : Decide(j, o)
      <4>1. stage' = [stage EXCEPT ![j] = "returned"] /\ UNCHANGED <<record, answers>>
        BY <2>7 DEF WorkReturns, MoveTo
      <4> QED
        BY <2>0, <3>1, <4>1 DEF Barriers, Decide
    <3>2. CASE stage[j] = "working"
      BY <2>1, <2>7, <3>2 DEF WorkReturns, MoveTo
    <3> QED
      BY <2>7, <3>1, <3>2 DEF WorkReturns
  <2>8. ASSUME NEW j \in Jobs, Overrule(j) PROVE Barriers'
    <3>1. stage[j] = "returned" /\ stage' = [stage EXCEPT ![j] = "releasing"] /\ UNCHANGED <<record, answers>>
          /\ outcome' = [outcome EXCEPT ![j] = IF cancelled[j] /\ ~record[j].barrier
                                               THEN "cancelled" ELSE outcome[j]]
      BY <2>8 DEF Overrule, MoveTo, Decide
    <3> QED
      BY <2>0, <3>1 DEF Barriers
  <2>9. ASSUME NEW j \in Jobs, Release(j) PROVE Barriers'
    <3>1. CASE stage[j] = "refused"
      BY <2>1, <2>9, <3>1 DEF Release, MoveTo
    <3>2. CASE stage[j] = "releasing"
      <4>1. stage' = [stage EXCEPT ![j] = "finishing"] /\ UNCHANGED <<record, answers, outcome>>
        BY <2>9, <3>2 DEF Release, MoveTo
      <4> QED
        BY <2>0, <3>2, <4>1 DEF Barriers
    <3> QED
      BY <2>9, <3>1, <3>2 DEF Release
  <2>10. ASSUME NEW j \in Jobs, Finish(j) PROVE Barriers'
    <3>1. stage[j] \in {"finishing", "unreserved"} /\ stage' = [stage EXCEPT ![j] = "done"]
          /\ UNCHANGED <<outcome, answers>>
      BY <2>10 DEF Finish, MoveTo
    <3>2. /\ outcome[j] \in Terminal
          /\ record'[j].state = outcome[j] /\ record'[j].barrier = record[j].barrier
          /\ \A i \in Jobs \ {j} : record'[i] = record[i]
      BY <2>10, FinishEffect
    <3> QED
      BY <2>0, <3>1, <3>2 DEF Barriers, Terminal
  <2>11. ASSUME NEW j \in Jobs, Call(j) PROVE Barriers'
    <3>1. CASE CancelRequested(j)
      <4>1. Enter(j, "cancelling") /\ ~record[j].barrier /\ UNCHANGED <<stage, outcome>>
            /\ \A i \in Jobs : "too_late" \in answers'[i] => "too_late" \in answers[i]
        BY <3>1 DEF CancelRequested, Answer
      <4>2. record'[j].state = "cancelling" /\ record'[j].barrier = record[j].barrier
            /\ \A i \in Jobs \ {j} : record'[i] = record[i]
        BY <4>1, EnterEffect DEF States
      <4> QED
        BY <4>1, <4>2 DEF Barriers
    <3>2. CASE CancelTooLate(j)
      <4>1. record[j].barrier
        BY <3>2 DEF CancelTooLate, Barriers
      <4>2. \A i \in Jobs \ {j} : answers'[i] = answers[i]
        BY <3>2 DEF CancelTooLate, Answer
      <4> QED
        BY <3>2, <4>1, <4>2 DEF CancelTooLate, Barriers
    <3>3. CASE TakeEvents(j)
      <4>1. \A i \in Jobs : record'[i].state = record[i].state /\ record'[i].barrier = record[i].barrier
        BY <3>3, TakeEffect
      <4> QED
        BY <3>3, <4>1 DEF TakeEvents, Barriers
    <3> QED
      BY <2>11, <3>1, <3>2, <3>3 DEF Call
  <2>12. ASSUME NEW s \in Schedulers, Receive(s) PROVE Barriers'
    <3>1. UNCHANGED <<record, outcome, answers>>
      BY <2>12 DEF Receive
    <3> QED
      BY <2>1, <2>12, <3>1, ReceiveEffect
  <2>13. CASE (\E s \in Schedulers : DropScheduler(s)) \/ UNCHANGED vars
    BY <2>13 DEF DropScheduler, vars, Barriers
  <2> QED
    BY <2>2, <2>3, <2>4, <2>5, <2>6, <2>7, <2>8, <2>9, <2>10, <2>11, <2>12, <2>13 DEF Next, Work
<1> QED
  BY <1>1, <1>2, ReservationInductive, EndIsLast, PTL DEF Spec

\* Once cancel() has answered too_late, the job is publishing or has ended with
\* what its work returned, never as cancelled (cancel, the overruling of the
\* result in worker_loop).
THEOREM TooLateStays == Spec => []TooLateIsFinal
<1>1. Barriers => TooLateIsFinal
  <2> SUFFICES ASSUME Barriers, NEW j \in Jobs, "too_late" \in answers[j]
               PROVE  record[j].state \in {"publishing", "completed", "failed"}
    BY DEF TooLateIsFinal
  <2>1. CASE stage[j] = "done"
    BY <2>1 DEF Barriers, Published
  <2>2. CASE stage[j] # "done"
    BY <2>2 DEF Barriers, Published
  <2> QED
    BY <2>1, <2>2
<1> QED
  BY <1>1, BarriersInductive, PTL

-----------------------------------------------------------------------------
(* The events of a job. *)

InOrder(events) ==
    \A a, b \in 1..Len(events) : a < b => events[a].sequence < events[b].sequence
Below(events, n) == \A a \in 1..Len(events) : events[a].sequence < n

\* A bounded push, terminal or not, leaves events in order, ends with the new event
\* and starts after whatever was before the oldest one: a full queue gives up its
\* oldest or its newest event, never the order (push_event).
LEMMA PushInOrder ==
  ASSUME NEW events \in Seq(Events), InOrder(events), NEW event \in Events, NEW terminal \in BOOLEAN,
         Below(events, event.sequence), NEW q, q = PushBounded(events, event, terminal)
  PROVE  /\ q \in Seq(Events) /\ q # <<>> /\ InOrder(q) /\ Below(q, event.sequence + 1)
         /\ q[Len(q)] = event
         /\ \A m \in Nat : m < event.sequence /\ (events # <<>> => m < events[1].sequence)
                               => m < q[1].sequence
<1>0. /\ event.sequence \in Nat /\ Len(events) \in Nat
      /\ \A a \in 1..Len(events) : events[a] \in Events /\ events[a].sequence \in Nat
  <2>1. \A a \in 1..Len(events) : events[a] \in Events
    OBVIOUS
  <2>2. \A x \in Events : x.sequence \in Nat
    BY DEF Events
  <2> QED
    BY <2>1, <2>2
<1>1. CASE Len(events) < MaxEventQueue
  <2>1. q = Append(events, event)
    BY <1>1 DEF PushBounded
  <2>2. /\ q \in Seq(Events) /\ Len(q) = Len(events) + 1 /\ q[Len(events) + 1] = event
        /\ \A a \in 1..Len(events) : q[a] = events[a]
    BY <2>1, AppendProperties
  <2>3. InOrder(q) /\ Below(q, event.sequence + 1) /\ q # <<>>
    <3>1. ASSUME NEW a \in 1..Len(q), NEW b \in 1..Len(q), a < b PROVE q[a].sequence < q[b].sequence
      <4>1. a \in 1..Len(events) /\ q[a] = events[a]
        BY <1>0, <2>2, <3>1
      <4>2. CASE b = Len(events) + 1
        BY <2>2, <4>1, <4>2 DEF Below
      <4>3. CASE b # Len(events) + 1
        <5>1. b \in 1..Len(events) /\ q[b] = events[b]
          BY <1>0, <2>2, <4>3
        <5> QED
          BY <3>1, <4>1, <5>1 DEF InOrder
      <4> QED
        BY <4>2, <4>3
    <3>2. ASSUME NEW a \in 1..Len(q) PROVE q[a].sequence < event.sequence + 1
      <4>1. CASE a = Len(events) + 1
        BY <1>0, <2>2, <4>1
      <4>2. CASE a # Len(events) + 1
        <5>1. a \in 1..Len(events) /\ q[a] = events[a]
          BY <1>0, <2>2, <4>2
        <5> QED
          BY <1>0, <5>1 DEF Below
      <4> QED
        BY <4>1, <4>2
    <3>3. InOrder(q)
      BY <3>1 DEF InOrder
    <3>4. Below(q, event.sequence + 1)
      BY <3>2 DEF Below
    <3>5. q # <<>>
      BY <1>0, <2>2
    <3> QED
      BY <3>3, <3>4, <3>5
  <2>4. ASSUME NEW m \in Nat, m < event.sequence, events # <<>> => m < events[1].sequence
        PROVE  m < q[1].sequence
    <3>1. CASE events = <<>>
      BY <2>2, <2>4, <3>1
    <3>2. CASE events # <<>>
      BY <2>2, <2>4, <3>2
    <3> QED
      BY <3>1, <3>2
  <2> QED
    BY <2>2, <2>3, <2>4
<1>2. CASE ~(Len(events) < MaxEventQueue) /\ terminal
  <2>1. q = Append(Tail(events), event) /\ events # <<>>
    BY <1>2, SchedulerAssumption DEF PushBounded
  <2>2. /\ Tail(events) \in Seq(Events) /\ Len(Tail(events)) = Len(events) - 1 /\ Len(events) \in Nat \ {0}
        /\ \A a \in 1..Len(events) - 1 : Tail(events)[a] = events[a + 1]
    BY <2>1, HeadTailProperties
  <2>3. /\ q \in Seq(Events) /\ Len(q) = Len(events) /\ q[Len(events)] = event
        /\ \A a \in 1..Len(events) - 1 : q[a] = events[a + 1]
    BY <2>1, <2>2, AppendProperties
  <2>4. InOrder(q)
    <3> SUFFICES ASSUME NEW a \in 1..Len(events), NEW b \in 1..Len(events), a < b
                 PROVE  q[a].sequence < q[b].sequence
      BY <2>3 DEF InOrder
    <3>1. q[a] = events[a + 1] /\ a + 1 \in 1..Len(events)
      BY <2>2, <2>3
    <3>2. CASE b = Len(events)
      BY <2>3, <3>1, <3>2 DEF Below
    <3>3. CASE b < Len(events)
      <4>1. q[b] = events[b + 1] /\ b + 1 \in 1..Len(events) /\ a + 1 < b + 1
        BY <2>2, <2>3, <3>3
      <4> QED
        BY <3>1, <4>1 DEF InOrder
    <3>4. b = Len(events) \/ b < Len(events)
      BY <1>0
    <3> QED
      BY <3>2, <3>3, <3>4
  <2>5. Below(q, event.sequence + 1) /\ q # <<>>
    <3>1. ASSUME NEW a \in 1..Len(events) PROVE q[a].sequence < event.sequence + 1
      <4>1. CASE a = Len(events)
        BY <1>0, <2>3, <4>1
      <4>2. CASE a # Len(events)
        <5>1. a \in 1..Len(events) - 1 /\ a + 1 \in 1..Len(events)
          BY <1>0, <4>2
        <5>2. q[a] = events[a + 1]
          BY <2>3, <5>1
        <5> QED
          BY <1>0, <5>1, <5>2 DEF Below
      <4> QED
        BY <4>1, <4>2
    <3> QED
      BY <2>2, <2>3, <3>1 DEF Below
  <2>6. ASSUME NEW m \in Nat, m < event.sequence, events # <<>> => m < events[1].sequence
        PROVE  m < q[1].sequence
    <3>1. CASE Len(events) = 1
      BY <2>3, <2>6, <3>1
    <3>2. CASE Len(events) # 1
      <4>1. q[1] = events[2] /\ 1 \in 1..Len(events) /\ 2 \in 1..Len(events)
        BY <2>2, <2>3, <3>2
      <4>2. events[1].sequence < events[2].sequence
        BY <4>1 DEF InOrder
      <4> QED
        BY <1>0, <2>1, <2>6, <4>1, <4>2
    <3> QED
      BY <3>1, <3>2
  <2> QED
    BY <2>3, <2>4, <2>5, <2>6
<1>3. CASE ~(Len(events) < MaxEventQueue) /\ ~terminal
  <2>1. q = [events EXCEPT ![Len(events)] = event] /\ events # <<>> /\ Len(events) \in Nat \ {0}
    BY <1>3, SchedulerAssumption DEF PushBounded
  <2>2. /\ q \in Seq(Events) /\ Len(q) = Len(events) /\ q[Len(events)] = event
        /\ \A a \in 1..Len(events) : a # Len(events) => q[a] = events[a]
    BY <2>1, ExceptSeq
  <2>3. InOrder(q)
    <3> SUFFICES ASSUME NEW a \in 1..Len(events), NEW b \in 1..Len(events), a < b
                 PROVE  q[a].sequence < q[b].sequence
      BY <2>2 DEF InOrder
    <3>1. a # Len(events)
      BY <1>0
    <3>2. q[a] = events[a]
      BY <2>2, <3>1
    <3>3. CASE b = Len(events)
      BY <2>2, <3>2, <3>3 DEF Below
    <3>4. CASE b # Len(events)
      BY <2>2, <3>2, <3>4 DEF InOrder
    <3> QED
      BY <3>3, <3>4
  <2>4. Below(q, event.sequence + 1) /\ q # <<>>
    <3>1. ASSUME NEW a \in 1..Len(events) PROVE q[a].sequence < event.sequence + 1
      <4>1. CASE a = Len(events)
        BY <1>0, <2>2, <4>1
      <4>2. CASE a # Len(events)
        <5>1. q[a] = events[a]
          BY <2>2, <4>2
        <5> QED
          BY <1>0, <5>1 DEF Below
      <4> QED
        BY <4>1, <4>2
    <3> QED
      BY <2>1, <2>2, <3>1 DEF Below
  <2>5. ASSUME NEW m \in Nat, m < event.sequence, events # <<>> => m < events[1].sequence
        PROVE  m < q[1].sequence
    BY <2>1, <2>2, <2>5
  <2> QED
    BY <2>2, <2>3, <2>4, <2>5
<1> QED
  BY <1>1, <1>2, <1>3

\* What job j has reported and its caller has taken agree with its state: what is
\* taken is older than what is queued, and that is older than what comes next.
Told(j, events, state, next, last) ==
    /\ events \in Seq(Events) /\ InOrder(events) /\ Below(events, next)
    /\ last # None => last \in Events /\ last.sequence < next
    /\ events = <<>> => last \in Events /\ last.state = state
    /\ events # <<>> => /\ events[Len(events)].state = state
                        /\ last # None => last.sequence < events[1].sequence
EventsTell ==
    /\ seen \in [Jobs -> Events \cup {None}]
    /\ \A j \in Jobs : Told(j, record[j].events, record[j].state, sequence[j], seen[j])

\* A new event tells the new state.
LEMMA PushTells ==
  ASSUME NEW j \in Jobs, NEW events, NEW state, NEW next \in Nat, NEW last, Told(j, events, state, next, last),
         NEW new \in States, NEW terminal \in BOOLEAN
  PROVE  Told(j, PushBounded(events, [sequence |-> next, state |-> new], terminal), new, next + 1, last)
<1> DEFINE event == [sequence |-> next, state |-> new]
           q == PushBounded(events, event, terminal)
<1>1. event \in Events /\ event.sequence = next /\ event.state = new
  BY DEF Events
<1>2. /\ q \in Seq(Events) /\ q # <<>> /\ InOrder(q) /\ Below(q, next + 1) /\ q[Len(q)] = event
      /\ \A m \in Nat : m < next /\ (events # <<>> => m < events[1].sequence) => m < q[1].sequence
  BY <1>1, PushInOrder DEF Told
<1>3. ASSUME last # None PROVE last \in Events /\ last.sequence < next + 1 /\ last.sequence < q[1].sequence
  <2>1. last \in Events /\ last.sequence \in Nat /\ last.sequence < next
        /\ (events # <<>> => last.sequence < events[1].sequence)
    BY <1>3 DEF Told, Events
  <2> QED
    BY <1>2, <2>1
<1> HIDE DEF q
<1>4. Told(j, q, new, next + 1, last)
  BY <1>1, <1>2, <1>3 DEF Told
<1> QED
  BY <1>4 DEF q

\* Every step of a job and of its caller keeps events and state in agreement.
LEMMA EventsInductive == Spec => []EventsTell
<1>1. Init => EventsTell
  <2> SUFFICES ASSUME Init, NEW j \in Jobs
               PROVE  Told(j, record[j].events, record[j].state, sequence[j], seen[j])
    BY DEF EventsTell, Init
  <2>1. /\ record[j].events = <<[sequence |-> 0, state |-> "queued"]>> /\ record[j].state = "queued"
        /\ sequence[j] = 1 /\ seen[j] = None
    BY DEF Init, NewRecord
  <2>2. [sequence |-> 0, state |-> "queued"] \in Events
    BY DEF Events, States
  <2> QED
    BY <2>1, <2>2 DEF Told, InOrder, Below
<1>2. EventsTell /\ Visible /\ ReservationInv /\ [Next]_vars => EventsTell'
  <2> SUFFICES ASSUME EventsTell, Visible, ReservationInv, [Next]_vars PROVE EventsTell'
    OBVIOUS
  <2>0. sequence \in [Jobs -> Nat]
    BY DEF Visible
  <2>1. ASSUME UNCHANGED <<record, sequence, seen>> PROVE EventsTell'
    BY <2>1 DEF EventsTell
  <2>2. ASSUME NEW j \in Jobs, NEW x \in States, NEW terminal \in BOOLEAN,
               record'[j].state = x,
               record'[j].events = PushBounded(record[j].events, [sequence |-> sequence[j], state |-> x], terminal),
               \A i \in Jobs \ {j} : record'[i] = record[i],
               sequence' = [sequence EXCEPT ![j] = @ + 1], UNCHANGED seen
        PROVE  EventsTell'
    <3>1. sequence[j] \in Nat /\ sequence'[j] = sequence[j] + 1
          /\ \A i \in Jobs \ {j} : sequence'[i] = sequence[i]
      BY <2>0, <2>2
    <3>2. Told(j, record[j].events, record[j].state, sequence[j], seen[j])
      BY DEF EventsTell
    <3>3. Told(j, record'[j].events, record'[j].state, sequence'[j], seen[j])
      BY <2>2, <3>1, <3>2, PushTells
    <3> SUFFICES ASSUME NEW i \in Jobs
                 PROVE  Told(i, record'[i].events, record'[i].state, sequence'[i], seen'[i])
      BY <2>2 DEF EventsTell
    <3>4. CASE i = j
      BY <2>2, <3>3, <3>4
    <3>5. CASE i # j
      BY <2>2, <3>1, <3>5 DEF EventsTell
    <3> QED
      BY <3>4, <3>5
  <2>3. ASSUME NEW j \in Jobs, Submit(j) PROVE EventsTell'
    BY <2>1, <2>3 DEF Submit, Reserve, RefuseBusy, Send
  <2>4. ASSUME NEW j \in Jobs, NEW x \in States, Enter(j, x), UNCHANGED seen PROVE EventsTell'
    BY <2>2, <2>4, EnterEffect
  <2>5. ASSUME NEW j \in Jobs, Begin(j) PROVE EventsTell'
    <3>1. CASE cancelled[j]
      BY <2>1, <2>5, <3>1 DEF Begin
    <3>2. CASE ~cancelled[j]
      BY <2>4, <2>5, <3>2 DEF Begin, States
    <3> QED
      BY <3>1, <3>2
  <2>6. ASSUME NEW j \in Jobs, Observe(j) PROVE EventsTell'
    <3>1. ObservedState(j) \in States
      BY DEF ObservedState, States
    <3> QED
      BY <2>4, <2>6, <3>1 DEF Observe
  <2>7. ASSUME NEW j \in Jobs,
               HonorCancellation(j) \/ PassLastCheck(j) \/ WorkReturns(j) \/ Overrule(j) \/ Release(j)
        PROVE  EventsTell'
    BY <2>1, <2>7 DEF HonorCancellation, PassLastCheck, WorkReturns, Overrule, Release
  <2>8. ASSUME NEW j \in Jobs, ObservePublishing(j) PROVE EventsTell'
    <3>1. UNCHANGED seen /\ "publishing" \in States
      BY <2>8 DEF ObservePublishing, States
    <3> QED
      BY <2>2, <2>8, <3>1, PublishingEffect
  <2>9. ASSUME NEW j \in Jobs, Finish(j) PROVE EventsTell'
    <3>1. UNCHANGED seen
      BY <2>9 DEF Finish
    <3>2. outcome[j] \in States
      BY <2>9, FinishEffect DEF States
    <3> QED
      BY <2>2, <2>9, <3>1, <3>2, FinishEffect
  <2>10. ASSUME NEW j \in Jobs, Call(j) PROVE EventsTell'
    <3>1. CASE CancelRequested(j)
      BY <2>4, <3>1 DEF CancelRequested, States
    <3>2. CASE CancelTooLate(j)
      BY <2>1, <3>2 DEF CancelTooLate
    <3>3. CASE TakeEvents(j)
      <4> DEFINE events == record[j].events
      <4>1. /\ events # <<>> /\ seen' = [seen EXCEPT ![j] = events[Len(events)]] /\ UNCHANGED sequence
            /\ record'[j].state = record[j].state /\ record'[j].events = <<>>
            /\ \A i \in Jobs \ {j} : record'[i] = record[i]
        BY <3>3, TakeEffect DEF TakeEvents
      <4>2. /\ events \in Seq(Events) /\ Len(events) \in 1..Len(events) /\ events[Len(events)] \in Events
            /\ events[Len(events)].state = record[j].state /\ events[Len(events)].sequence < sequence[j]
        BY <4>1 DEF EventsTell, Told, Below
      <4>3. /\ seen'[j] = events[Len(events)] /\ \A i \in Jobs \ {j} : seen'[i] = seen[i]
            /\ seen' \in [Jobs -> Events \cup {None}]
        BY <4>1, <4>2 DEF EventsTell
      <4>5. Told(j, <<>>, record[j].state, sequence[j], seen'[j])
        BY <4>2, <4>3 DEF Told, InOrder, Below
      <4> SUFFICES ASSUME NEW i \in Jobs
                   PROVE  Told(i, record'[i].events, record'[i].state, sequence'[i], seen'[i])
        BY <4>3 DEF EventsTell
      <4>6. CASE i = j
        BY <4>1, <4>5, <4>6
      <4>7. CASE i # j
        BY <4>1, <4>3, <4>7 DEF EventsTell
      <4> QED
        BY <4>6, <4>7
    <3> QED
      BY <2>10, <3>1, <3>2, <3>3 DEF Call
  <2>11. CASE (\E s \in Schedulers : Receive(s) \/ DropScheduler(s)) \/ UNCHANGED vars
    BY <2>1, <2>11 DEF Receive, DropScheduler, vars
  <2> QED
    BY <2>3, <2>5, <2>6, <2>7, <2>8, <2>9, <2>10, <2>11 DEF Next, Work
<1> QED
  BY <1>1, <1>2, ReservationInductive, EndIsLast, PTL DEF Spec

\* However full its queue, the newest event a caller has (or has taken) tells the
\* state of its job, and it gets events in the order they were numbered
\* (push_event, take_events).
THEOREM EventsTellState == Spec => []NewestEventTellsState
<1>1. EventsTell => NewestEventTellsState
  <2> SUFFICES ASSUME EventsTell, NEW j \in Jobs
               PROVE  LET events == record[j].events IN
                      /\ \A a, b \in DOMAIN events : a < b => events[a].sequence < events[b].sequence
                      /\ IF events = <<>> THEN seen[j].state = record[j].state
                         ELSE /\ events[Len(events)].state = record[j].state
                              /\ seen[j] # None => seen[j].sequence < events[1].sequence
    BY DEF NewestEventTellsState
  <2>1. Told(j, record[j].events, record[j].state, sequence[j], seen[j])
    BY DEF EventsTell
  <2>2. DOMAIN record[j].events = 1..Len(record[j].events)
    BY <2>1 DEF Told
  <2> QED
    BY <2>1, <2>2 DEF Told, InOrder
<1> QED
  BY <1>1, EventsInductive, PTL
=============================================================================
