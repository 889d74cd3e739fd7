--------------------------- MODULE MaintenanceProofs ---------------------------
(***************************************************************************)
(* Theorems of Maintenance, for any number of threads, operations, dates   *)
(* and workers.                                                            *)
(***************************************************************************)
EXTENDS Maintenance, TLAPS

LEMMA StatusFacts ==
    /\ Status.todo = 1 /\ Status.scheduled = 2 /\ Status.queued = 4
    /\ Status.doing = 8 /\ Status.done = 16 /\ Status.failed = 32
    /\ Status.canceled = 64 /\ Status.aborted = 128 /\ Status.abort = 256
    /\ Waiting = {1, 2, 4} /\ Ended = {16, 32, 64, 128}
    /\ Status["done"] = 16 /\ Status["failed"] = 32
  BY DEF Status, Waiting, Ended

Statuses == {1, 2, 4, 8, 16, 32, 64, 128, 256}
Task == [op : Operations, dt : Dates, status : Statuses]

LEMMA NoneIsNoTask == None \notin Task
  BY NoneAssumption DEF Task, Statuses

(* Operations that differ in more than the mode, or are not of the same    *)
(* date, have their own identifiers.                                       *)
LEMMA TaskIdInjective ==
  ASSUME NEW o \in Operations, NEW p \in Operations, NEW dt \in Dates, NEW e \in Dates,
         TaskId(o, dt) = TaskId(p, e)
  PROVE  SameButMode(o, p) /\ dt = e
<1>1. o.type = p.type /\ Relation(o) = Relation(p) /\ dt = e
  BY DEF TaskId, Relation
<1>2. QED
  BY <1>1, NamesAssumption

LEMMA SameAsItself == ASSUME NEW o \in Operations PROVE SameButMode(o, o)
  BY NamesAssumption

LEMMA IdIsId == ASSUME NEW o \in Operations, NEW dt \in Dates PROVE TaskId(o, dt) \in Ids
  BY DEF Ids

-----------------------------------------------------------------------------
(* The inductive invariant.  A task is known under the identifier of its   *)
(* operation; a worker has a task that runs, and one that is done has run  *)
(* it; a request to cancel an operation that has been known all the while  *)
(* has found it in a list, or has the list of its type still to ask for.   *)
WorkerSteps == {"none", "connect", "execute", "running", "done", "failed"}

Truth == BOOLEAN

Requests == [pc : {"idle", "check", "schedule", "look"}, op : Operations \cup {None},
             dt : Dates \cup {None}, id : Ids \cup {None}, looked : Nat,
             found : Truth, there : Truth]

StillToLook(r, task) ==
    /\ task # None
    /\ r.found = TRUE \/ \E k \in 1 .. 3 : k > r.looked /\ lists[k] = task.op.type

RequestOK(r, ts) ==
    /\ r \in Requests
    /\ r.pc \in {"check", "schedule"} => r.op \in Operations /\ r.dt \in Dates
    /\ r.pc = "look" => r.id \in Ids
    /\ r.pc = "look" /\ r.there = TRUE => StillToLook(r, ts[r.id])

ServerOK == accepting \in BOOLEAN /\ backends \subseteq Ids

TasksOK ==
    /\ tasks \in [Ids -> Task \cup {None}]
    /\ \A id \in Ids : Known(id) => TaskId(tasks[id].op, tasks[id].dt) = id

RequestsOK ==
    /\ req \in [Clients -> Requests]
    /\ \A c \in Clients : RequestOK(req[c], tasks)

WorkersOK ==
    /\ worker \in [Ids -> WorkerSteps]
    /\ \A id \in Ids :
          worker[id] # "none" => Known(id) /\ tasks[id].status \in {8, 256}

RanOK == DoneMeansRun /\ \A id \in Ids : worker[id] = "done" => id \in ran

AcceptedOK == accepted \subseteq [op : Operations, dt : Dates] /\ AcceptedIsTask

Inductive ==
    /\ ServerOK /\ TasksOK /\ RequestsOK /\ WorkersOK
    /\ RanOK /\ AcceptedOK

LEMMA RequestIdle == Request \in Requests /\ \A ts : RequestOK(Request, ts)
  BY DEF Request, Requests, RequestOK, Truth

LEMMA InductiveInit == Init => Inductive
<1> SUFFICES ASSUME Init PROVE Inductive
  OBVIOUS
<1> USE DEF Init, MaintenanceInit
<1>1. ServerOK
  BY DEF PgServer!ServerInit, ServerOK
<1>2. TasksOK
  BY DEF TasksOK, Known
<1>3. RequestsOK
  BY RequestIdle DEF RequestsOK
<1>4. WorkersOK
  BY DEF WorkersOK, WorkerSteps
<1>5. RanOK /\ AcceptedOK
  BY DEF RanOK, AcceptedOK, DoneMeansRun, AcceptedIsTask, Known
<1>6. QED
  BY <1>1, <1>2, <1>3, <1>4, <1>5 DEF Inductive

-----------------------------------------------------------------------------
(* The invariant says of the run what the properties do. *)
LEMMA TypeFollows == Inductive => TypeOK
<1> SUFFICES ASSUME Inductive PROVE TypeOK
  OBVIOUS
<1>1. ASSUME NEW s \in Statuses PROVE \E l \in DOMAIN Status : s = Status[l]
  BY DEF Statuses, Status
<1>2. ASSUME NEW id \in Ids, tasks[id] # None
      PROVE  /\ tasks[id].op \in Operations /\ tasks[id].dt \in Dates
             /\ \E s \in DOMAIN Status : tasks[id].status = Status[s]
  <2>1. tasks[id] \in Task
    BY <1>2 DEF Inductive, TasksOK
  <2>2. tasks[id].op \in Operations /\ tasks[id].dt \in Dates /\ tasks[id].status \in Statuses
    BY <2>1 DEF Task
  <2>3. QED
    BY <2>2, <1>1
<1>3. \A id \in Ids :
         /\ worker[id] \in WorkerSteps
         /\ worker[id] # "none" =>
               tasks[id] # None /\ tasks[id].status \in {Status.doing, Status.abort}
  BY StatusFacts DEF Inductive, WorkersOK, Known
<1>4. \A c \in Clients : req[c].pc \in {"idle", "check", "schedule", "look"}
  BY DEF Inductive, RequestsOK, RequestOK, Requests
<1>5. accepting \in BOOLEAN /\ backends \subseteq Ids
  BY DEF Inductive, ServerOK
<1>6. QED
  BY <1>2, <1>3, <1>4, <1>5 DEF TypeOK, WorkerSteps

LEMMA CancelFindsFollows == Inductive => CancelFinds
  BY DEF Inductive, RequestsOK, RequestOK, CancelFinds, StillToLook, lists

-----------------------------------------------------------------------------
(* Steps that leave the operation of every task as it is. *)
SameTasks ==
    \A id \in Ids :
        /\ tasks'[id] # None <=> tasks[id] # None
        /\ tasks[id] # None => /\ tasks'[id].op = tasks[id].op
                               /\ tasks'[id].dt = tasks[id].dt

LEMMA SetStatusKeeps ==
  ASSUME Inductive, NEW id \in Ids, Known(id), NEW status \in Statuses, SetStatus(id, status)
  PROVE  /\ TasksOK' /\ SameTasks
         /\ tasks'[id].status = status
         /\ \A other \in Ids : other # id => tasks'[other] = tasks[other]
<1>1. tasks \in [Ids -> Task \cup {None}] /\ tasks[id] \in Task
  BY DEF Inductive, TasksOK, Known
<1> DEFINE task == [tasks[id] EXCEPT !.status = status]
<1>2. task \in Task /\ task.status = status /\ task.op = tasks[id].op /\ task.dt = tasks[id].dt
  BY <1>1 DEF Task
<1>3. tasks' = [tasks EXCEPT ![id] = task]
  BY DEF SetStatus
<1> HIDE DEF task
<1>4. tasks' \in [Ids -> Task \cup {None}] /\ tasks'[id] = task /\ task # None
  BY <1>1, <1>2, <1>3, NoneIsNoTask
<1>5. \A other \in Ids : other # id => tasks'[other] = tasks[other]
  BY <1>1, <1>3
<1>6. SameTasks
  BY <1>1, <1>2, <1>4, <1>5 DEF SameTasks, Known
<1>7. TasksOK'
  <2>1. ASSUME NEW other \in Ids, Known(other)'
        PROVE  TaskId(tasks'[other].op, tasks'[other].dt) = other
    <3>1. /\ Known(other)
          /\ tasks'[other].op = tasks[other].op /\ tasks'[other].dt = tasks[other].dt
      BY <1>6, <2>1 DEF SameTasks, Known
    <3>2. QED
      BY <3>1 DEF Inductive, TasksOK
  <2>2. QED
    BY <1>4, <2>1 DEF TasksOK
<1>8. QED
  BY <1>2, <1>4, <1>5, <1>6, <1>7

LEMMA SameFinds ==
  ASSUME SameTasks, NEW r, RequestOK(r, tasks)
  PROVE  RequestOK(r, tasks')
  BY DEF SameTasks, RequestOK, StillToLook

LEMMA SameAccepted ==
  ASSUME Inductive, SameTasks, UNCHANGED accepted
  PROVE  AcceptedOK'
<1>1. ASSUME NEW request \in accepted
      PROVE  /\ Known(TaskId(request.op, request.dt))'
             /\ SameButMode(tasks'[TaskId(request.op, request.dt)].op, request.op)
             /\ tasks'[TaskId(request.op, request.dt)].dt = request.dt
  <2>1. request.op \in Operations /\ request.dt \in Dates
    BY DEF Inductive, AcceptedOK
  <2>2. TaskId(request.op, request.dt) \in Ids
    BY <2>1, IdIsId
  <2>3. QED
    BY <2>2 DEF Inductive, AcceptedOK, AcceptedIsTask, SameTasks, Known
<1>2. QED
  BY <1>1 DEF Inductive, AcceptedOK, AcceptedIsTask

(* The request of a thread becomes r. *)
LEMMA BecomesOK ==
  ASSUME Inductive, SameTasks, NEW c \in Clients, NEW r, RequestOK(r, tasks),
         req' = [req EXCEPT ![c] = r]
  PROVE  RequestsOK'
<1>1. r \in Requests
  BY DEF RequestOK
<1>2. req' \in [Clients -> Requests]
  BY <1>1 DEF Inductive, RequestsOK
<1>3. ASSUME NEW d \in Clients PROVE RequestOK(req'[d], tasks)
  BY DEF Inductive, RequestsOK
<1>4. QED
  BY <1>2, <1>3, SameFinds DEF RequestsOK

LEMMA AnswerOK ==
  ASSUME Inductive, SameTasks, NEW c \in Clients, Answer(c)
  PROVE  RequestsOK'
  BY RequestIdle, BecomesOK DEF Answer

LEMMA SameRequests ==
  ASSUME Inductive, SameTasks, UNCHANGED req
  PROVE  RequestsOK'
  BY SameFinds DEF Inductive, RequestsOK

(* What is left to see of a step that leaves the tasks and workers alone. *)
LEMMA Quiet ==
  ASSUME Inductive, UNCHANGED <<tasks, worker, history>>
  PROVE  SameTasks /\ TasksOK' /\ WorkersOK' /\ RanOK' /\ AcceptedOK'
<1>1. SameTasks
  BY DEF SameTasks
<1>2. AcceptedOK'
  BY <1>1, SameAccepted DEF history
<1>3. TasksOK' /\ WorkersOK' /\ RanOK'
  BY DEF Inductive, TasksOK, WorkersOK, RanOK, DoneMeansRun,
         Known, history
<1>4. QED
  BY <1>1, <1>2, <1>3

-----------------------------------------------------------------------------
(* The requests. *)
LEMMA ChangeKeeps ==
  ASSUME Inductive, PgServer!Change, UNCHANGED maintenanceVars
  PROVE  Inductive'
<1>1. SameTasks /\ TasksOK' /\ WorkersOK' /\ RanOK' /\ AcceptedOK'
  BY Quiet DEF maintenanceVars
<1>2. ServerOK'
  BY DEF Inductive, ServerOK, PgServer!Change
<1>3. RequestsOK'
  BY <1>1, SameRequests DEF maintenanceVars
<1>4. QED
  BY <1>1, <1>2, <1>3 DEF Inductive

LEMMA PostKeeps ==
  ASSUME Inductive, NEW c \in Clients, NEW op \in Operations, NEW dt \in Dates,
         post_operation(c, op, dt)
  PROVE  Inductive'
<1> DEFINE r == [Request EXCEPT !.pc = "check", !.op = op, !.dt = dt]
<1>1. SameTasks /\ TasksOK' /\ WorkersOK' /\ RanOK' /\ AcceptedOK'
  BY Quiet DEF post_operation
<1>2. ServerOK'
  BY DEF Inductive, ServerOK, post_operation
<1>3. r \in Requests /\ r.pc = "check" /\ r.op = op /\ r.dt = dt
  BY RequestIdle DEF Requests
<1>4. RequestOK(r, tasks)
  BY <1>3 DEF RequestOK
<1>5. req' = [req EXCEPT ![c] = r]
  BY DEF post_operation
<1> HIDE DEF r
<1>6. RequestsOK'
  BY <1>1, <1>4, <1>5, BecomesOK
<1>7. QED
  BY <1>1, <1>2, <1>6 DEF Inductive

LEMMA CheckKeeps ==
  ASSUME Inductive, NEW c \in Clients, check(c)
  PROVE  Inductive'
<1> DEFINE r == [req[c] EXCEPT !.pc = "schedule"]
<1>1. SameTasks /\ TasksOK' /\ WorkersOK' /\ RanOK' /\ AcceptedOK'
  BY Quiet DEF check
<1>2. ServerOK'
  BY DEF Inductive, ServerOK, check
<1>3. req[c].pc = "check" /\ req[c] \in Requests /\ RequestOK(req[c], tasks)
  BY DEF Inductive, RequestsOK, RequestOK, check
<1>4. r \in Requests /\ r.pc = "schedule" /\ r.op = req[c].op /\ r.dt = req[c].dt
  BY <1>3 DEF Requests
<1>5. RequestOK(r, tasks)
  BY <1>3, <1>4 DEF RequestOK
<1>6. req' = [req EXCEPT ![c] = r] \/ Answer(c)
  BY DEF check
<1> HIDE DEF r
<1>7. RequestsOK'
  BY <1>1, <1>5, <1>6, BecomesOK, AnswerOK
<1>8. QED
  BY <1>1, <1>2, <1>7 DEF Inductive

(* A new task has an operation and a date, and is known under their        *)
(* identifier; no worker had that identifier.                              *)
LEMMA NewTaskKeeps ==
  ASSUME Inductive, NEW op \in Operations, NEW dt \in Dates, ~Known(TaskId(op, dt)),
         tasks' = [tasks EXCEPT ![TaskId(op, dt)] = NewTask(op, dt)],
         ran' = ran \ {TaskId(op, dt)},
         accepted' \in {accepted, accepted \cup {[op |-> op, dt |-> dt]}},
         UNCHANGED worker
  PROVE  /\ TasksOK' /\ WorkersOK' /\ RanOK' /\ AcceptedOK'
         /\ \A r : RequestOK(r, tasks) => RequestOK(r, tasks')
<1> DEFINE id == TaskId(op, dt)
           task == NewTask(op, dt)
<1>1. id \in Ids
  BY IdIsId
<1>2. task \in Task /\ task.op = op /\ task.dt = dt /\ task.status = 1 /\ task # None
  BY StatusFacts, NoneIsNoTask DEF NewTask, Task, Statuses
<1>3. tasks' \in [Ids -> Task \cup {None}] /\ tasks'[id] = task
      /\ \A other \in Ids : other # id => tasks'[other] = tasks[other]
  BY <1>1, <1>2 DEF Inductive, TasksOK
<1>4. worker[id] = "none" /\ tasks[id] = None
  BY <1>1 DEF Inductive, WorkersOK, Known
<1> HIDE DEF task
<1>5. TasksOK'
  <2>1. ASSUME NEW other \in Ids, Known(other)'
        PROVE  TaskId(tasks'[other].op, tasks'[other].dt) = other
    <3>1. CASE other = id
      BY <3>1, <1>2, <1>3
    <3>2. CASE other # id
      BY <3>2, <2>1, <1>3 DEF Inductive, TasksOK, Known
    <3>3. QED
      BY <3>1, <3>2
  <2>2. QED
    BY <1>3, <2>1 DEF TasksOK
<1> HIDE DEF id
<1>6. WorkersOK'
  BY <1>1, <1>3, <1>4 DEF Inductive, WorkersOK, Known
<1>7. RanOK'
  BY <1>1, <1>2, <1>3, <1>4, StatusFacts
  DEF Inductive, RanOK, DoneMeansRun, Known, id
<1>8. AcceptedOK'
  <2>1. ASSUME NEW request \in accepted
        PROVE  /\ Known(TaskId(request.op, request.dt))'
               /\ tasks'[TaskId(request.op, request.dt)] = tasks[TaskId(request.op, request.dt)]
    <3>1. request.op \in Operations /\ request.dt \in Dates
      BY DEF Inductive, AcceptedOK
    <3>2. TaskId(request.op, request.dt) \in Ids /\ Known(TaskId(request.op, request.dt))
      BY <3>1, IdIsId DEF Inductive, AcceptedOK, AcceptedIsTask
    <3>3. QED
      BY <3>2, <1>3, <1>4 DEF Known
  <2>2. ASSUME NEW request \in accepted', request \notin accepted
        PROVE  request.op = op /\ request.dt = dt
    BY <2>2
  <2>3. accepted' \subseteq [op : Operations, dt : Dates]
    BY DEF Inductive, AcceptedOK
  <2>4. ASSUME NEW request \in accepted'
        PROVE  /\ Known(TaskId(request.op, request.dt))'
               /\ SameButMode(tasks'[TaskId(request.op, request.dt)].op, request.op)
               /\ tasks'[TaskId(request.op, request.dt)].dt = request.dt
    <3>1. CASE request \in accepted
      BY <3>1, <2>1 DEF Inductive, AcceptedOK, AcceptedIsTask
    <3>2. CASE request \notin accepted
      BY <3>2, <2>2, <1>2, <1>3, SameAsItself DEF Known, id
    <3>3. QED
      BY <3>1, <3>2
  <2>5. QED
    BY <2>3, <2>4 DEF AcceptedOK, AcceptedIsTask
<1>9. ASSUME NEW r, RequestOK(r, tasks) PROVE RequestOK(r, tasks')
  BY <1>3, <1>4, <1>9 DEF RequestOK, StillToLook
<1>10. QED
  BY <1>5, <1>6, <1>7, <1>8, <1>9

LEMMA ScheduleKeeps ==
  ASSUME Inductive, NEW c \in Clients, schedule_operation(c)
  PROVE  Inductive'
<1> DEFINE op == req[c].op
           dt == req[c].dt
<1>1. op \in Operations /\ dt \in Dates /\ TaskId(op, dt) \in Ids
  BY IdIsId DEF Inductive, RequestsOK, RequestOK, schedule_operation
<1>2. ServerOK' /\ Answer(c)
  BY DEF Inductive, ServerOK, schedule_operation
<1> HIDE DEF op, dt
<1>3. CASE /\ ~Known(TaskId(op, dt))
           /\ tasks' = [tasks EXCEPT ![TaskId(op, dt)] = NewTask(op, dt)]
           /\ ran' = ran \ {TaskId(op, dt)}
           /\ accepted' \in {accepted, accepted \cup {[op |-> op, dt |-> dt]}}
           /\ UNCHANGED worker
  <2>1. /\ TasksOK' /\ WorkersOK' /\ RanOK' /\ AcceptedOK'
        /\ \A r : RequestOK(r, tasks) => RequestOK(r, tasks')
    BY <1>1, <1>3, NewTaskKeeps
  <2>2. RequestsOK'
    BY <1>2, <2>1, RequestIdle DEF Inductive, RequestsOK, Answer
  <2>3. QED
    BY <1>2, <2>1, <2>2 DEF Inductive
<1>4. CASE /\ Known(TaskId(op, dt)) /\ accepted' = accepted \cup {[op |-> op, dt |-> dt]}
           /\ UNCHANGED <<tasks, worker, ran>>
  <2>1. tasks[TaskId(op, dt)] \in Task
    BY <1>1, <1>4 DEF Inductive, TasksOK, Known
  <2>2. /\ tasks[TaskId(op, dt)].op \in Operations /\ tasks[TaskId(op, dt)].dt \in Dates
        /\ TaskId(tasks[TaskId(op, dt)].op, tasks[TaskId(op, dt)].dt) = TaskId(op, dt)
    BY <1>1, <1>4, <2>1 DEF Inductive, TasksOK, Task
  <2>3. SameButMode(tasks[TaskId(op, dt)].op, op) /\ tasks[TaskId(op, dt)].dt = dt
    BY <1>1, <2>2, TaskIdInjective
  <2>4. accepted' \subseteq [op : Operations, dt : Dates]
    BY <1>1, <1>4 DEF Inductive, AcceptedOK
  <2>5. AcceptedOK'
    BY <1>4, <2>3, <2>4 DEF Inductive, AcceptedOK, AcceptedIsTask, Known
  <2>6. SameTasks
    BY <1>4 DEF SameTasks
  <2>7. TasksOK' /\ WorkersOK' /\ RanOK'
    BY <1>4 DEF Inductive, TasksOK, WorkersOK, RanOK, DoneMeansRun, Known
  <2>8. QED
    BY <1>2, <2>5, <2>6, <2>7, AnswerOK DEF Inductive
<1>5. CASE UNCHANGED <<tasks, worker, history>>
  BY <1>2, <1>5, Quiet, AnswerOK DEF Inductive
<1>6. QED
  BY <1>3, <1>4, <1>5 DEF schedule_operation, op, dt

(* A request to cancel begins with all the lists still to ask for. *)
LEMMA DeleteKeeps ==
  ASSUME Inductive, NEW c \in Clients, NEW id \in Ids, delete_operation(c, id)
  PROVE  Inductive'
<1> DEFINE known == Known(id)
           r == [Request EXCEPT !.pc = "look", !.id = id, !.there = known]
<1>1. SameTasks /\ TasksOK' /\ WorkersOK' /\ RanOK' /\ AcceptedOK'
  BY Quiet DEF delete_operation
<1>2. ServerOK'
  BY DEF Inductive, ServerOK, delete_operation
<1>3. known \in Truth
  BY DEF Known, Truth
<1>4. req' = [req EXCEPT ![c] = r]
  BY DEF delete_operation
<1>5. known => tasks[id] # None /\ \E k \in 1 .. 3 : lists[k] = tasks[id].op.type
  <2>1. SUFFICES ASSUME known PROVE \E k \in 1 .. 3 : lists[k] = tasks[id].op.type
    BY DEF Known
  <2>2. tasks[id] \in Task
    BY <2>1 DEF Known, Inductive, TasksOK
  <2>3. tasks[id].op.type \in {"vacuum", "analyze", "reindex"}
    BY <2>2, OperationsAssumption DEF Task
  <2>4. lists[1] = "vacuum" /\ lists[2] = "analyze" /\ lists[3] = "reindex"
    BY DEF lists
  <2>5. QED
    BY <2>3, <2>4
<1> HIDE DEF known
<1>6. /\ r \in Requests /\ r.pc = "look" /\ r.id = id /\ r.looked = 0 /\ r.there = known
  BY <1>3, RequestIdle DEF Requests, Request
<1>7. RequestOK(r, tasks)
  BY <1>5, <1>6 DEF RequestOK, StillToLook
<1> HIDE DEF r
<1>8. RequestsOK'
  BY <1>1, <1>4, <1>7, BecomesOK
<1>9. QED
  BY <1>1, <1>2, <1>8 DEF Inductive

LEMMA AskedOneList ==
  ASSUME NEW q \in Requests, NEW found \in Truth, NEW r,
         r = [q EXCEPT !.looked = q.looked + 1, !.found = found]
  PROVE  /\ r \in Requests /\ r.pc = q.pc /\ r.id = q.id /\ r.there = q.there
         /\ r.looked = q.looked + 1 /\ r.found = found
<1>1. q.looked + 1 \in Nat
  BY DEF Requests
<1>2. r \in Requests
  BY <1>1 DEF Requests
<1>3. r.pc = q.pc /\ r.id = q.id
  BY DEF Requests
<1>4. r.looked = q.looked + 1
  BY <1>1 DEF Requests
<1>5. r.found = found
  BY DEF Requests
<1>6. r.there = q.there
  BY DEF Requests
<1>7. QED
  BY <1>2, <1>3, <1>4, <1>5, <1>6

ShownNext(q) == Known(q.id) /\ tasks[q.id].op.type = lists[q.looked + 1]

LEMMA LookedOK ==
  ASSUME NEW q, RequestOK(q, tasks), q.pc = "look", NEW found \in Truth,
         found = TRUE <=> (q.found = TRUE \/ ShownNext(q))
  PROVE  RequestOK([q EXCEPT !.looked = q.looked + 1, !.found = found], tasks)
<1> DEFINE r == [q EXCEPT !.looked = q.looked + 1, !.found = found]
<1>1. q \in Requests /\ q.id \in Ids /\ q.looked \in Nat
  BY DEF RequestOK, Requests
<1>2. /\ r \in Requests /\ r.pc = q.pc /\ r.id = q.id /\ r.there = q.there
      /\ r.looked = q.looked + 1 /\ r.found = found
  BY <1>1, AskedOneList
<1>3. q.there = TRUE /\ found # TRUE => \E k \in 1 .. 3 : k > q.looked + 1 /\ lists[k] = tasks[q.id].op.type
  <2>1. SUFFICES ASSUME q.there = TRUE, found # TRUE
                 PROVE  \E k \in 1 .. 3 : k > q.looked + 1 /\ lists[k] = tasks[q.id].op.type
    OBVIOUS
  <2>2. PICK k \in 1 .. 3 : k > q.looked /\ lists[k] = tasks[q.id].op.type
    BY <2>1 DEF RequestOK, StillToLook
  <2>3. k # q.looked + 1
    BY <2>1, <2>2 DEF RequestOK, StillToLook, Known, ShownNext
  <2>4. QED
    BY <1>1, <2>2, <2>3
<1>4. q.there = TRUE => tasks[q.id] # None
  BY DEF RequestOK, StillToLook
<1> HIDE DEF r
<1>5. RequestOK(r, tasks)
  BY <1>1, <1>2, <1>3, <1>4 DEF RequestOK, StillToLook
<1>6. QED
  BY <1>5 DEF r

LEMMA LookKeeps ==
  ASSUME Inductive, NEW c \in Clients, look(c)
  PROVE  Inductive'
<1>1. SameTasks /\ TasksOK' /\ WorkersOK' /\ RanOK' /\ AcceptedOK'
  BY Quiet DEF look
<1>2. ServerOK'
  BY DEF Inductive, ServerOK, look
<1>3. RequestOK(req[c], tasks) /\ req[c].pc = "look"
  BY DEF Inductive, RequestsOK, look
<1>4. CASE Answer(c)
  BY <1>1, <1>2, <1>4, AnswerOK DEF Inductive
<1>5. CASE ~Answer(c)
  <2>1. PICK found \in Truth :
           /\ found = TRUE <=> (req[c].found = TRUE \/ ShownNext(req[c]))
           /\ req' = [req EXCEPT ![c] = [req[c] EXCEPT !.looked = req[c].looked + 1, !.found = found]]
    <3> DEFINE b == req[c].found \/ ShownNext(req[c])
    <3>1. req' = [req EXCEPT ![c] = [req[c] EXCEPT !.looked = req[c].looked + 1, !.found = b]]
      BY <1>5 DEF look, ShownNext
    <3>2. req[c].found \in BOOLEAN
      BY <1>3 DEF RequestOK, Requests, Truth
    <3>3. b \in Truth /\ (b = TRUE <=> (req[c].found = TRUE \/ ShownNext(req[c])))
      BY <3>2 DEF Truth, ShownNext, Known
    <3> HIDE DEF b
    <3>4. QED
      BY <3>1, <3>3
  <2>2. RequestOK([req[c] EXCEPT !.looked = req[c].looked + 1, !.found = found], tasks)
    BY <1>3, <2>1, LookedOK
  <2>3. RequestsOK'
    BY <1>1, <2>1, <2>2, BecomesOK
  <2>4. QED
    BY <1>1, <1>2, <2>3 DEF Inductive
<1>6. QED
  BY <1>4, <1>5

LEMMA NotFoundKeeps ==
  ASSUME Inductive, NEW c \in Clients, not_found(c)
  PROVE  Inductive'
<1>1. SameTasks /\ TasksOK' /\ WorkersOK' /\ RanOK' /\ AcceptedOK'
  BY Quiet DEF not_found
<1>2. ServerOK' /\ RequestsOK'
  BY <1>1, AnswerOK DEF Inductive, ServerOK, not_found
<1>3. QED
  BY <1>1, <1>2 DEF Inductive

(* The task under id gets another status, and its worker another step; the *)
(* two go together.                                                        *)
LEMMA StatusStep ==
  ASSUME Inductive, NEW id \in Ids, Known(id), NEW status \in Statuses, SetStatus(id, status),
         worker' \in [Ids -> WorkerSteps],
         \A other \in Ids : other # id => worker'[other] = worker[other],
         worker'[id] # "none" => status \in {8, 256},
         worker'[id] = "done" => id \in ran,
         status = 16 => id \in ran,
         UNCHANGED <<ran, accepted>>
  PROVE  SameTasks /\ TasksOK' /\ WorkersOK' /\ RanOK' /\ AcceptedOK'
<1>1. /\ TasksOK' /\ SameTasks
      /\ tasks'[id].status = status
      /\ \A other \in Ids : other # id => tasks'[other] = tasks[other]
  BY SetStatusKeeps
<1>2. AcceptedOK'
  BY <1>1, SameAccepted
<1>3. WorkersOK'
  <2>1. ASSUME NEW other \in Ids, worker'[other] # "none"
        PROVE  Known(other)' /\ tasks'[other].status \in {8, 256}
    <3>1. CASE other = id
      BY <1>1, <2>1, <3>1 DEF SameTasks, Known
    <3>2. CASE other # id
      BY <1>1, <2>1, <3>2 DEF Inductive, WorkersOK, SameTasks, Known
    <3>3. QED
      BY <3>1, <3>2
  <2>2. QED
    BY <2>1 DEF WorkersOK
<1>4. RanOK'
  BY <1>1, StatusFacts DEF Inductive, RanOK, DoneMeansRun, Known
<1>5. QED
  BY <1>1, <1>2, <1>3, <1>4

(* A cancellation of a task that has ended, or is forgotten, does nothing. *)
LEMMA CancelKeeps ==
  ASSUME Inductive, NEW c \in Clients, cancel(c)
  PROVE  Inductive'
<1> DEFINE id == req[c].id
<1>1. id \in Ids /\ Answer(c) /\ UNCHANGED <<accepting, backends, worker, ran, accepted>>
  BY DEF Inductive, RequestsOK, RequestOK, cancel, history
<1>2. TaskCancel(id) \/ UNCHANGED tasks
  BY DEF cancel
<1>3. ServerOK'
  BY <1>1 DEF Inductive, ServerOK
<1> HIDE DEF id
<1>4. CASE Pending(id) /\ TaskCancel(id)
  <2> DEFINE status == IF tasks[id].status \in Waiting THEN Status.canceled ELSE Status.abort
  <2>1. Known(id) /\ status \in {64, 256} /\ SetStatus(id, status)
    BY <1>4, StatusFacts DEF Pending, TaskCancel, SetStatus
  <2>2. worker[id] # "none" => status = 256
    BY <1>1, StatusFacts DEF Inductive, WorkersOK
  <2> HIDE DEF status
  <2>3. worker \in [Ids -> WorkerSteps] /\ (worker[id] = "done" => id \in ran)
    BY <1>1 DEF Inductive, WorkersOK, RanOK
  <2>4. SameTasks /\ TasksOK' /\ WorkersOK' /\ RanOK' /\ AcceptedOK'
    BY <1>1, <2>1, <2>2, <2>3, StatusStep DEF Statuses
  <2>5. QED
    BY <1>1, <1>3, <2>4, AnswerOK DEF Inductive
<1>5. CASE UNCHANGED tasks
  BY <1>1, <1>3, <1>5, Quiet, AnswerOK DEF Inductive, history
<1>6. QED
  BY <1>2, <1>4, <1>5 DEF TaskCancel

-----------------------------------------------------------------------------
(* The task manager and the workers. *)
LEMMA DispatchKeeps ==
  ASSUME Inductive, NEW id \in Ids, Dispatch(id)
  PROVE  Inductive'
<1>1. Known(id) /\ UNCHANGED <<accepting, backends, req, ran, accepted>>
  BY DEF Dispatch, history
<1>2. ServerOK'
  BY <1>1 DEF Inductive, ServerOK
<1>3. worker \in [Ids -> WorkerSteps]
  BY DEF Inductive, WorkersOK
<1>4. CASE /\ tasks[id].status \in {Status.todo, Status.scheduled}
           /\ SetStatus(id, Status.queued) /\ UNCHANGED worker
  <2>1. worker[id] = "none"
    BY <1>1, <1>4, StatusFacts DEF Inductive, WorkersOK
  <2>2. SetStatus(id, 4)
    BY <1>4, StatusFacts
  <2>3. SameTasks /\ TasksOK' /\ WorkersOK' /\ RanOK' /\ AcceptedOK'
    BY <1>1, <1>3, <1>4, <2>1, <2>2, StatusStep DEF Statuses
  <2>4. QED
    BY <1>1, <1>2, <2>3, SameRequests DEF Inductive
<1>5. CASE SetStatus(id, Status.doing) /\ worker' = [worker EXCEPT ![id] = "connect"]
  <2>1. SetStatus(id, 8)
    BY <1>5, StatusFacts
  <2>2. worker' \in [Ids -> WorkerSteps] /\ worker'[id] = "connect"
    BY <1>3, <1>5 DEF WorkerSteps
  <2>3. \A other \in Ids : other # id => worker'[other] = worker[other]
    BY <1>3, <1>5
  <2>4. SameTasks /\ TasksOK' /\ WorkersOK' /\ RanOK' /\ AcceptedOK'
    BY <1>1, <2>1, <2>2, <2>3, StatusStep DEF Statuses
  <2>5. QED
    BY <1>1, <1>2, <2>4, SameRequests DEF Inductive
<1>6. QED
  BY <1>4, <1>5 DEF Dispatch

(* A worker ends, and its task with it: done if the worker is. *)
LEMMA EndKeeps ==
  ASSUME Inductive, NEW id \in Ids, Known(id), NEW status \in {16, 32, 128},
         SetStatus(id, status), worker' = [worker EXCEPT ![id] = "none"],
         status = 16 => worker[id] = "done",
         ServerOK', UNCHANGED <<req, ran, accepted>>
  PROVE  Inductive'
<1>1. worker \in [Ids -> WorkerSteps] /\ (worker[id] = "done" => id \in ran)
  BY DEF Inductive, WorkersOK, RanOK
<1>2. worker' \in [Ids -> WorkerSteps] /\ worker'[id] = "none"
      /\ \A other \in Ids : other # id => worker'[other] = worker[other]
  BY <1>1 DEF WorkerSteps
<1>4. SameTasks /\ TasksOK' /\ WorkersOK' /\ RanOK' /\ AcceptedOK'
  BY <1>1, <1>2, StatusStep DEF Statuses
<1>5. QED
  BY <1>4, SameRequests DEF Inductive

LEMMA ReportKeeps ==
  ASSUME Inductive, NEW id \in Ids, Report(id)
  PROVE  Inductive'
<1>1. /\ ServerOK' /\ Known(id) /\ UNCHANGED <<req, ran, accepted>>
      /\ worker' = [worker EXCEPT ![id] = "none"]
  BY DEF Inductive, ServerOK, WorkersOK, Report, history
<1>2. CASE worker[id] = "done" /\ SetStatus(id, Status.done)
  <2>1. SetStatus(id, 16)
    BY <1>2, StatusFacts
  <2>2. QED
    BY <1>1, <1>2, <2>1, EndKeeps
<1>3. CASE worker[id] = "failed" /\ SetStatus(id, Status.failed)
  <2>1. SetStatus(id, 32)
    BY <1>3, StatusFacts
  <2>2. 32 \in {16, 32, 128} /\ (32 = 16 => worker[id] = "done")
    OBVIOUS
  <2>3. QED
    BY <1>1, <2>1, <2>2, EndKeeps
<1>4. CASE SetStatus(id, Status.aborted)
  <2>1. SetStatus(id, 128)
    BY <1>4, StatusFacts
  <2>2. 128 \in {16, 32, 128} /\ (128 = 16 => worker[id] = "done")
    OBVIOUS
  <2>3. QED
    BY <1>1, <2>1, <2>2, EndKeeps
<1>5. QED
  BY <1>2, <1>3, <1>4 DEF Report

LEMMA AbortKeeps ==
  ASSUME Inductive, NEW id \in Ids, Abort(id)
  PROVE  Inductive'
<1>1. /\ ServerOK' /\ Known(id) /\ UNCHANGED <<req, ran, accepted>>
      /\ worker' = [worker EXCEPT ![id] = "none"] /\ SetStatus(id, 128)
  BY StatusFacts DEF Inductive, ServerOK, Abort, history
<1>2. 128 \in {16, 32, 128} /\ (128 = 16 => worker[id] = "done")
  OBVIOUS
<1>3. QED
  BY <1>1, <1>2, EndKeeps

(* A task is forgotten after its end: no worker has it, and a request to   *)
(* cancel it may find nothing.                                             *)
LEMMA NoLongerThere ==
  ASSUME Inductive, NEW id \in Ids, NEW q, RequestOK(q, tasks), NEW there \in Truth,
         there = TRUE => q.there = TRUE /\ q.id # id,
         \A other \in Ids : other # id => tasks'[other] = tasks[other]
  PROVE  RequestOK([q EXCEPT !.there = there], tasks')
<1> DEFINE r == [q EXCEPT !.there = there]
<1>1. q \in Requests
  BY DEF RequestOK
<1>2. /\ r \in Requests /\ r.pc = q.pc /\ r.op = q.op /\ r.dt = q.dt /\ r.id = q.id
      /\ r.looked = q.looked
  BY <1>1 DEF Requests
<1>3. r.found = q.found
  BY <1>1 DEF Requests
<1>4. r.there = there
  BY <1>1 DEF Requests
<1> HIDE DEF r
<1>5. r.pc = "look" /\ r.there = TRUE => StillToLook(r, tasks'[r.id])
  BY <1>2, <1>3, <1>4 DEF RequestOK, StillToLook
<1>6. RequestOK(r, tasks')
  BY <1>2, <1>5 DEF RequestOK
<1>7. QED
  BY <1>6 DEF r

LEMMA ForgetKeeps ==
  ASSUME Inductive, NEW id \in Ids, Forget(id)
  PROVE  Inductive'
<1>1. /\ tasks' \in [Ids -> Task \cup {None}] /\ tasks'[id] = None
      /\ \A other \in Ids : other # id => tasks'[other] = tasks[other]
  BY DEF Inductive, TasksOK, Forget
<1>2. ServerOK'
  BY DEF Inductive, ServerOK, Forget
<1>3. TasksOK'
  BY <1>1 DEF Inductive, TasksOK, Known
<1>4. worker[id] = "none" /\ UNCHANGED worker
  BY StatusFacts DEF Inductive, WorkersOK, Forget, Pending
<1>5. WorkersOK'
  BY <1>1, <1>4 DEF Inductive, WorkersOK, Known
<1>6. RanOK'
  BY <1>1, <1>4
  DEF Inductive, RanOK, DoneMeansRun, Known, Forget
<1>7. AcceptedOK'
  <2>1. ASSUME NEW request \in accepted'
        PROVE  /\ Known(TaskId(request.op, request.dt))'
               /\ SameButMode(tasks'[TaskId(request.op, request.dt)].op, request.op)
               /\ tasks'[TaskId(request.op, request.dt)].dt = request.dt
    <3>1. /\ request \in accepted /\ request.op \in Operations /\ request.dt \in Dates
          /\ TaskId(request.op, request.dt) # id
      BY <2>1 DEF Inductive, AcceptedOK, Forget
    <3>2. /\ TaskId(request.op, request.dt) \in Ids /\ Known(TaskId(request.op, request.dt))
          /\ SameButMode(tasks[TaskId(request.op, request.dt)].op, request.op)
          /\ tasks[TaskId(request.op, request.dt)].dt = request.dt
      BY <3>1, IdIsId DEF Inductive, AcceptedOK, AcceptedIsTask
    <3>3. QED
      BY <1>1, <3>1, <3>2 DEF Known
  <2>2. accepted' \subseteq [op : Operations, dt : Dates]
    BY DEF Inductive, AcceptedOK, Forget
  <2>3. QED
    BY <2>1, <2>2 DEF AcceptedOK, AcceptedIsTask
<1>8. RequestsOK'
  <2>1. ASSUME NEW c \in Clients
        PROVE  RequestOK(req'[c], tasks')
    <3> DEFINE there == req[c].there /\ req[c].id # id
    <3>1. RequestOK(req[c], tasks) /\ req[c].there \in BOOLEAN
      BY DEF Inductive, RequestsOK, RequestOK, Requests, Truth
    <3>2. there \in Truth /\ (there = TRUE => req[c].there = TRUE /\ req[c].id # id)
      BY <3>1 DEF Truth
    <3>3. req'[c] = [req[c] EXCEPT !.there = there]
      BY DEF Forget
    <3> HIDE DEF there
    <3>4. RequestOK([req[c] EXCEPT !.there = there], tasks')
      BY <1>1, <3>1, <3>2, NoLongerThere
    <3>5. QED
      BY <3>3, <3>4
  <2>2. DOMAIN req' = Clients /\ req' = [c \in Clients |-> req'[c]]
    BY DEF Forget
  <2>3. req' \in [Clients -> Requests]
    BY <2>1, <2>2 DEF RequestOK
  <2>4. QED
    BY <2>1, <2>3 DEF RequestsOK
<1>9. QED
  BY <1>2, <1>3, <1>5, <1>6, <1>7, <1>8 DEF Inductive

(* A worker goes on: its task is as it was, and done only if it has run. *)
LEMMA GoesOnKeeps ==
  ASSUME Inductive, NEW id \in Ids, worker[id] # "none",
         NEW step \in WorkerSteps \ {"none"}, GoesOn(id, step),
         ran' \in {ran, ran \cup {id}}, step = "done" => id \in ran',
         ServerOK', UNCHANGED <<tasks, req, accepted>>
  PROVE  Inductive'
<1>1. /\ worker' \in [Ids -> WorkerSteps] /\ worker'[id] = step
      /\ \A other \in Ids : other # id => worker'[other] = worker[other]
  BY DEF Inductive, WorkersOK, GoesOn
<1>2. SameTasks
  BY DEF SameTasks
<1>3. TasksOK'
  BY DEF Inductive, TasksOK, Known
<1>4. WorkersOK'
  BY <1>1 DEF Inductive, WorkersOK, Known
<1>5. RanOK'
  BY <1>1 DEF Inductive, RanOK, DoneMeansRun, Known
<1>6. QED
  BY <1>2, <1>3, <1>4, <1>5, SameAccepted, SameRequests DEF Inductive

LEMMA WorkerStepKeeps ==
  ASSUME Inductive, NEW id \in Ids, WorkerStep(id)
  PROVE  Inductive'
<1>1. CASE connect(id)
  <2>1. /\ ServerOK' /\ worker[id] # "none" /\ UNCHANGED <<tasks, req, ran, accepted>>
    BY <1>1 DEF Inductive, ServerOK, connect, PgServer!Connect, history
  <2>2. PICK step \in {"execute", "failed"} : GoesOn(id, step)
    BY <1>1 DEF connect
  <2>3. step \in WorkerSteps \ {"none"} /\ step # "done"
    BY <2>2 DEF WorkerSteps
  <2>4. QED
    BY <2>1, <2>2, <2>3, GoesOnKeeps
<1>2. CASE execute(id)
  <2>1. /\ ServerOK' /\ worker[id] # "none" /\ UNCHANGED <<tasks, req, ran, accepted>>
    BY <1>2 DEF Inductive, ServerOK, execute, history
  <2>2. PICK step \in {"running", "failed"} : GoesOn(id, step)
    BY <1>2 DEF execute
  <2>3. step \in WorkerSteps \ {"none"} /\ step # "done"
    BY <2>2 DEF WorkerSteps
  <2>4. QED
    BY <2>1, <2>2, <2>3, GoesOnKeeps
<1>3. CASE finish(id)
  <2>1. /\ ServerOK' /\ worker[id] # "none" /\ UNCHANGED <<tasks, req, accepted>>
    BY <1>3 DEF Inductive, ServerOK, finish
  <2>2. PICK step \in {"done", "failed"} :
           /\ GoesOn(id, step) /\ ran' \in {ran, ran \cup {id}}
           /\ step = "done" => id \in ran'
    BY <1>3 DEF finish
  <2>3. step \in WorkerSteps \ {"none"}
    BY <2>2 DEF WorkerSteps
  <2>4. QED
    BY <2>1, <2>2, <2>3, GoesOnKeeps
<1>4. QED
  BY <1>1, <1>2, <1>3 DEF WorkerStep

LEMMA OrphanEndsKeeps ==
  ASSUME Inductive, NEW id \in Ids, OrphanEnds(id)
  PROVE  Inductive'
<1>1. UNCHANGED <<tasks, worker, req, accepted>> /\ ran \subseteq ran'
  BY DEF OrphanEnds
<1>2. SameTasks
  BY <1>1 DEF SameTasks
<1>3. ServerOK'
  BY DEF Inductive, ServerOK, OrphanEnds
<1>4. TasksOK' /\ WorkersOK' /\ RanOK'
  BY <1>1 DEF Inductive, TasksOK, WorkersOK, RanOK, DoneMeansRun, Known
<1>5. QED
  BY <1>1, <1>2, <1>3, <1>4, SameAccepted, SameRequests DEF Inductive

-----------------------------------------------------------------------------
(* Drops and restarts. *)
LEMMA DropKeeps ==
  ASSUME Inductive, NEW relation, Drop(relation)
  PROVE  Inductive'
<1>1. SameTasks /\ TasksOK' /\ WorkersOK' /\ RanOK' /\ AcceptedOK'
  BY Quiet DEF Drop
<1>2. ServerOK'
  BY DEF Inductive, ServerOK, Drop
<1>3. QED
  BY <1>1, <1>2, SameRequests DEF Inductive, Drop

(* What a restart makes of the status of a task. *)
LEMMA RecoveredTask ==
  ASSUME NEW task \in Task
  PROVE  /\ Recovered(task) \in Task
         /\ Recovered(task).op = task.op /\ Recovered(task).dt = task.dt
         /\ Recovered(task).status = 16 <=> task.status = 16
         /\ Recovered(task).status \in Waiting <=> task.status \in Waiting
<1> DEFINE status == CASE task.status = Status.queued -> Status.scheduled
                       [] task.status \in {Status.doing, Status.abort} -> Status.aborted
                       [] OTHER -> task.status
<1>1. /\ status \in Statuses /\ (status = 16 <=> task.status = 16)
      /\ status \in Waiting <=> task.status \in Waiting
  BY StatusFacts DEF Statuses, Task
<1>2. Recovered(task) = [task EXCEPT !.status = status]
  BY NoneIsNoTask DEF Recovered
<1> HIDE DEF status
<1>3. /\ Recovered(task) \in Task /\ Recovered(task).status = status
      /\ Recovered(task).op = task.op /\ Recovered(task).dt = task.dt
  BY <1>1, <1>2 DEF Task
<1>4. QED
  BY <1>1, <1>3

LEMMA RestartKeeps ==
  ASSUME Inductive, Restart
  PROVE  Inductive'
<1>1. ServerOK' /\ UNCHANGED <<ran, accepted>>
  BY DEF Inductive, ServerOK, Restart, history
<1>2. ASSUME NEW id \in Ids
      PROVE  /\ tasks[id] = None => tasks'[id] = None
             /\ tasks[id] # None =>
                   /\ tasks'[id] \in Task /\ tasks'[id] # None
                   /\ tasks'[id].op = tasks[id].op /\ tasks'[id].dt = tasks[id].dt
                   /\ tasks'[id].status = 16 <=> tasks[id].status = 16
                   /\ tasks'[id].status \in Waiting <=> tasks[id].status \in Waiting
  <2>1. tasks'[id] = Recovered(tasks[id])
    BY DEF Restart
  <2>2. CASE tasks[id] = None
    BY <2>1, <2>2 DEF Recovered
  <2>3. CASE tasks[id] # None
    <3>1. tasks[id] \in Task
      BY <2>3 DEF Inductive, TasksOK
    <3>2. QED
      BY <2>1, <2>3, <3>1, RecoveredTask, NoneIsNoTask
  <2>4. QED
    BY <2>2, <2>3
<1>3. SameTasks
  BY <1>2 DEF SameTasks
<1>4. TasksOK'
  <2>1. tasks' = [id \in Ids |-> Recovered(tasks[id])]
    BY DEF Restart
  <2>2. \A id \in Ids : tasks'[id] \in Task \cup {None}
    BY <1>2
  <2>3. tasks' \in [Ids -> Task \cup {None}]
    BY <2>1, <2>2
  <2>4. ASSUME NEW id \in Ids, Known(id)' PROVE TaskId(tasks'[id].op, tasks'[id].dt) = id
    <3>1. /\ Known(id) /\ tasks'[id].op = tasks[id].op /\ tasks'[id].dt = tasks[id].dt
      BY <1>2, <2>4 DEF Known
    <3>2. QED
      BY <3>1 DEF Inductive, TasksOK
  <2>5. QED
    BY <2>3, <2>4 DEF TasksOK
<1>5. \A id \in Ids : worker'[id] = "none"
  BY DEF Restart
<1>6. WorkersOK'
  BY <1>5 DEF Restart, WorkersOK, WorkerSteps
<1>7. RanOK'
  BY <1>1, <1>2, <1>5, StatusFacts DEF Inductive, RanOK, DoneMeansRun, Known
<1>8. RequestsOK'
  BY RequestIdle DEF Restart, RequestsOK
<1>9. QED
  BY <1>1, <1>3, <1>4, <1>6, <1>7, <1>8, SameAccepted DEF Inductive

-----------------------------------------------------------------------------
LEMMA InductiveNext == Inductive /\ [Next]_vars => Inductive'
<1> SUFFICES ASSUME Inductive, [Next]_vars PROVE Inductive'
  OBVIOUS
<1>1. CASE PgServer!Change /\ UNCHANGED maintenanceVars
  BY <1>1, ChangeKeeps
<1>2. ASSUME NEW c \in Clients, ClientStep(c) PROVE Inductive'
  <2>1. ASSUME NEW op \in Operations, NEW dt \in Dates, post_operation(c, op, dt) PROVE Inductive'
    BY <2>1, PostKeeps
  <2>2. ASSUME NEW id \in Ids, delete_operation(c, id) PROVE Inductive'
    BY <2>2, DeleteKeeps
  <2>3. CASE check(c)
    BY <2>3, CheckKeeps
  <2>4. CASE schedule_operation(c)
    BY <2>4, ScheduleKeeps
  <2>5. CASE look(c)
    BY <2>5, LookKeeps
  <2>6. CASE not_found(c)
    BY <2>6, NotFoundKeeps
  <2>7. CASE cancel(c)
    BY <2>7, CancelKeeps
  <2>8. QED
    BY <1>2, <2>1, <2>2, <2>3, <2>4, <2>5, <2>6, <2>7 DEF ClientStep
<1>3. ASSUME NEW id \in Ids, WorkerStep(id) PROVE Inductive'
  BY <1>3, WorkerStepKeeps
<1>4. ASSUME NEW id \in Ids, ManagerStep(id) PROVE Inductive'
  BY <1>4, DispatchKeeps, ReportKeeps, AbortKeeps DEF ManagerStep
<1>5. ASSUME NEW id \in Ids, Forget(id) PROVE Inductive'
  BY <1>5, ForgetKeeps
<1>6. ASSUME NEW id \in Ids, OrphanEnds(id) PROVE Inductive'
  BY <1>6, OrphanEndsKeeps
<1>7. CASE Restart
  BY <1>7, RestartKeeps
<1>8. ASSUME NEW relation \in relations, Drop(relation) PROVE Inductive'
  BY <1>8, DropKeeps
<1>9. CASE UNCHANGED vars
  <2>1. UNCHANGED <<accepting, backends, tasks, worker, req, history>>
    BY <1>9 DEF vars, maintenanceVars
  <2>2. SameTasks /\ TasksOK' /\ WorkersOK' /\ RanOK' /\ AcceptedOK'
    BY <2>1, Quiet
  <2>3. QED
    BY <2>1, <2>2, SameRequests DEF Inductive, ServerOK
<1>10. QED
  BY <1>1, <1>2, <1>3, <1>4, <1>5, <1>6, <1>7, <1>8, <1>9 DEF Next

LEMMA InductiveAlways == Spec => []Inductive
  BY InductiveInit, InductiveNext, PTL DEF Spec

(* The types hold, and a worker always has a task that runs: a cancelled,  *)
(* interrupted or forgotten task leaves none behind.                       *)
THEOREM TypeCorrect == Spec => []TypeOK
  BY InductiveAlways, TypeFollows, PTL

(* What was answered with an identifier is known under it, but for the     *)
(* mode of a vacuum: two requests that meet under one identifier are for   *)
(* one type of operation, one object and one date.  NamesAssumption leaves *)
(* them free to differ in mode, as the code does, and no more is proved.   *)
THEOREM AcceptedIsTaskHolds == Spec => []AcceptedIsTask
<1>1. Inductive => AcceptedIsTask
  BY DEF Inductive, AcceptedOK
<1>2. QED
  BY <1>1, InductiveAlways, PTL

(* An operation reported done has run, through any stops of the server and *)
(* restarts of the agent.                                                  *)
THEOREM DoneMeansRunHolds == Spec => []DoneMeansRun
<1>1. Inductive => DoneMeansRun
  BY DEF Inductive, RanOK
<1>2. QED
  BY <1>1, InductiveAlways, PTL

(* A request to cancel finds what was there all the while, between the     *)
(* lists that it asks for one after another.                               *)
THEOREM CancelFindsHolds == Spec => []CancelFinds
  BY InductiveAlways, CancelFindsFollows, PTL

-----------------------------------------------------------------------------
(* What the lists show.  The label of a status is at the place of its bit. *)
Bits == <<1, 2, 4, 8, 16, 32, 64, 128, 256>>

LEMMA Powers ==
    /\ 2 ^ 0 = 1 /\ 2 ^ 1 = 2 /\ 2 ^ 2 = 4 /\ 2 ^ 3 = 8 /\ 2 ^ 4 = 16 /\ 2 ^ 5 = 32
    /\ 2 ^ 6 = 64 /\ 2 ^ 7 = 128 /\ 2 ^ 8 = 256 /\ 2 ^ 9 = 512 /\ 2 ^ 10 = 1024
  BY SMT

HighBit(n, k) == n < 2 ^ k /\ (k = 0 \/ 2 ^ (k - 1) <= n)

LEMMA BitHas ==
    ASSUME NEW k \in 1 .. 9 PROVE  HighBit(Bits[k], k)
<1>1. CASE k = 1
  BY <1>1, Powers DEF HighBit, Bits
<1>2. CASE k = 2
  BY <1>2, Powers DEF HighBit, Bits
<1>3. CASE k = 3
  BY <1>3, Powers DEF HighBit, Bits
<1>4. CASE k = 4
  BY <1>4, Powers DEF HighBit, Bits
<1>5. CASE k = 5
  BY <1>5, Powers DEF HighBit, Bits
<1>6. CASE k = 6
  BY <1>6, Powers DEF HighBit, Bits
<1>7. CASE k = 7
  BY <1>7, Powers DEF HighBit, Bits
<1>8. CASE k = 8
  BY <1>8, Powers DEF HighBit, Bits
<1>9. CASE k = 9
  BY <1>9, Powers DEF HighBit, Bits
<1>. QED
  BY <1>1, <1>2, <1>3, <1>4, <1>5, <1>6, <1>7, <1>8, <1>9

LEMMA HasBit ==
    ASSUME NEW n \in Statuses, NEW k \in 0 .. 10, HighBit(n, k)
    PROVE  k \in 1 .. 9 /\ n = Bits[k]
<1>0. CASE k = 0
  BY <1>0, Powers DEF HighBit, Bits, Statuses
<1>1. CASE k = 1
  BY <1>1, Powers DEF HighBit, Bits, Statuses
<1>2. CASE k = 2
  BY <1>2, Powers DEF HighBit, Bits, Statuses
<1>3. CASE k = 3
  BY <1>3, Powers DEF HighBit, Bits, Statuses
<1>4. CASE k = 4
  BY <1>4, Powers DEF HighBit, Bits, Statuses
<1>5. CASE k = 5
  BY <1>5, Powers DEF HighBit, Bits, Statuses
<1>6. CASE k = 6
  BY <1>6, Powers DEF HighBit, Bits, Statuses
<1>7. CASE k = 7
  BY <1>7, Powers DEF HighBit, Bits, Statuses
<1>8. CASE k = 8
  BY <1>8, Powers DEF HighBit, Bits, Statuses
<1>9. CASE k = 9
  BY <1>9, Powers DEF HighBit, Bits, Statuses
<1>10. CASE k = 10
  BY <1>10, Powers DEF HighBit, Bits, Statuses
<1>. QED
  BY <1>0, <1>1, <1>2, <1>3, <1>4, <1>5, <1>6, <1>7, <1>8, <1>9, <1>10

LEMMA LabelOf == ASSUME NEW k \in 1 .. 9 PROVE task_status_label(Bits[k]) = Labels[k]
<1>1. Bits[k] \in Statuses
  BY DEF Bits, Statuses
<1>2. bit_length(Bits[k]) \in 0 .. 10 /\ HighBit(Bits[k], bit_length(Bits[k]))
  <2>1. k \in 0 .. 10 /\ HighBit(Bits[k], k)
    BY BitHas
  <2>2. \E j \in 0 .. 10 : Bits[k] < 2 ^ j /\ (j = 0 \/ 2 ^ (j - 1) <= Bits[k])
    BY <2>1 DEF HighBit
  <2>3. QED
    BY <2>2, Zenon DEF HighBit, bit_length
<1>3. PICK j \in 0 .. 10 : j = bit_length(Bits[k])
  BY <1>2
<1>4. j \in 1 .. 9 /\ Bits[k] = Bits[j]
  BY <1>1, <1>2, <1>3, HasBit
<1>5. j = k
  BY <1>4 DEF Bits
<1>6. task_status_label(Bits[k]) =
          LET p == j - 1 IN
          IF p >= Len(Labels) THEN "unknown" ELSE IF p = -1 THEN Labels[Len(Labels)]
          ELSE Labels[p + 1]
  BY <1>3 DEF task_status_label
<1>7. Len(Labels) = 9
  BY DEF Labels
<1>8. QED
  BY <1>5, <1>6, <1>7

LEMMA LabelTells ==
    ASSUME NEW s \in Statuses
    PROVE  s \notin Ended <=>
               task_status_label(s) \in {"todo", "scheduled", "queued", "doing", "abort"}
<1>1. PICK k \in 1 .. 9 : s = Bits[k]
  BY DEF Statuses, Bits
<1>2. task_status_label(s) = Labels[k]
  BY <1>1, LabelOf
<1>3. s \notin Ended <=> k \in {1, 2, 3, 4, 9}
  BY <1>1, StatusFacts DEF Bits
<1>4. Labels[k] \in {"todo", "scheduled", "queued", "doing", "abort"} <=> k \in {1, 2, 3, 4, 9}
  BY DEF Labels
<1>5. QED
  BY <1>2, <1>3, <1>4

(* A list shows the tasks of the type that pass the filter. *)
LEMMA ShownIs ==
    ASSUME NEW type, NEW filter
    PROVE  Shown(list_scheduled_operation(type, filter)) =
               {id \in Ids : Known(id) /\ tasks[id].op.type = type /\ passes(tasks[id].op, filter)}
<1> DEFINE S == {id \in Ids : Known(id) /\ tasks[id].op.type = type /\ passes(tasks[id].op, filter)}
           Entry(id) == [id |-> id, status |-> task_status_label(tasks[id].status)]
<1>1. list_scheduled_operation(type, filter) = {Entry(id) : id \in S}
  BY Zenon DEF list_scheduled_operation
<1>2. \A id : Entry(id).id = id
  OBVIOUS
<1> HIDE DEF S, Entry
<1>3. {entry.id : entry \in {Entry(id) : id \in S}} = S
  BY <1>2
<1>4. QED
  BY <1>1, <1>3 DEF Shown, S

LEMMA TableShows ==
    ASSUME NEW op \in Operations, op.table # None
    PROVE  Shown(scheduled_table(op.type, op.dbname, op.schema, op.table)) =
               {id \in Ids : /\ Known(id) /\ tasks[id].op.type = op.type
                             /\ tasks[id].op.dbname = op.dbname
                             /\ tasks[id].op.schema = op.schema
                             /\ op.type = "reindex" \/ tasks[id].op.table = op.table}
<1> DEFINE f == [Filter EXCEPT !.dbname = op.dbname, !.schema = op.schema,
                               !.table = IF op.type = "reindex" THEN None ELSE op.table]
<1>1. op.dbname # None /\ op.schema # None
  BY OperationsAssumption
<1>2. /\ f.dbname = op.dbname /\ f.schema = op.schema /\ f.index = None
      /\ f.table = IF op.type = "reindex" THEN None ELSE op.table
  BY DEF Filter
<1>3. ASSUME NEW o
      PROVE  passes(o, f) <=> /\ o.dbname = op.dbname /\ o.schema = op.schema
                              /\ op.type = "reindex" \/ o.table = op.table
  BY <1>1, <1>2 DEF passes
<1>4. Shown(list_scheduled_operation(op.type, f)) =
          {id \in Ids : Known(id) /\ tasks[id].op.type = op.type /\ passes(tasks[id].op, f)}
  BY ShownIs
<1>5. scheduled_table(op.type, op.dbname, op.schema, op.table) = list_scheduled_operation(op.type, f)
  BY DEF scheduled_table
<1> HIDE DEF f
<1>6. QED
  BY <1>3, <1>4, <1>5

LEMMA DatabaseShows ==
    ASSUME NEW type, NEW dbname
    PROVE  /\ {id \in Ids : Known(id) /\ tasks[id].op.type = type /\ tasks[id].op.dbname = dbname}
                  \subseteq Shown(scheduled_database(type, dbname))
           /\ \A entry \in scheduled_database(type, dbname) :
                  /\ entry.id \in Ids /\ Known(entry.id)
                  /\ entry.status = task_status_label(tasks[entry.id].status)
<1> DEFINE f == [Filter EXCEPT !.dbname = dbname]
<1>1. f.dbname = dbname /\ f.schema = None /\ f.table = None /\ f.index = None
  BY DEF Filter
<1>2. \A o : passes(o, f)
  BY <1>1 DEF passes
<1>3. scheduled_database(type, dbname) = list_scheduled_operation(type, f)
  BY DEF scheduled_database
<1> HIDE DEF f
<1>4. {id \in Ids : Known(id) /\ tasks[id].op.type = type /\ tasks[id].op.dbname = dbname}
          \subseteq Shown(list_scheduled_operation(type, f))
  BY <1>2, ShownIs
<1>5. ASSUME NEW entry \in list_scheduled_operation(type, f)
      PROVE  /\ entry.id \in Ids /\ Known(entry.id)
             /\ entry.status = task_status_label(tasks[entry.id].status)
  BY <1>5 DEF list_scheduled_operation
<1>6. QED
  BY <1>3, <1>4, <1>5

LEMMA ListsFollow == Inductive => ListsRight
<1> SUFFICES ASSUME Inductive, NEW op \in Operations, op.table # None
             PROVE  LET of_type == {id \in Ids : Known(id) /\ tasks[id].op.type = op.type}
                        of_database == {id \in of_type : tasks[id].op.dbname = op.dbname}
                        of_table == {id \in of_type : Relation(tasks[id].op) = Relation(op)}
                        table == Shown(scheduled_table(op.type, op.dbname, op.schema, op.table))
                        database == scheduled_database(op.type, op.dbname) IN
                    /\ of_table \subseteq table
                    /\ op.type # "reindex" => table \subseteq of_table
                    /\ of_database \subseteq Shown(database)
                    /\ \A entry \in database : Pending(entry.id) <=>
                           entry.status \in {"todo", "scheduled", "queued", "doing", "abort"}
  BY DEF ListsRight
<1>1. \A id \in Ids : Known(id) => tasks[id] \in Task
  BY DEF Inductive, TasksOK, Known
<1>2. ASSUME NEW o \in Operations, o.type = op.type, op.type # "reindex"
      PROVE  Relation(o) = Relation(op) <=>
                 o.dbname = op.dbname /\ o.schema = op.schema /\ o.table = op.table
  <2>1. o.index = None
    BY <1>2, OperationsAssumption
  <2>2. Relation(op).name = op.table
    BY DEF Relation
  <2>3. Relation(o).name = o.table
    BY <2>1 DEF Relation
  <2>4. QED
    BY <2>2, <2>3 DEF Relation
<1>3. \A id \in Ids : Known(id) => tasks[id].op \in Operations /\ tasks[id].status \in Statuses
  BY <1>1 DEF Task
<1>4. ASSUME op.type # "reindex"
      PROVE  Shown(scheduled_table(op.type, op.dbname, op.schema, op.table)) =
                 {id \in Ids : /\ Known(id) /\ tasks[id].op.type = op.type
                               /\ Relation(tasks[id].op) = Relation(op)}
  BY <1>2, <1>3, <1>4, TableShows
<1>5. ASSUME op.type = "reindex"
      PROVE  {id \in Ids : /\ Known(id) /\ tasks[id].op.type = op.type
                           /\ Relation(tasks[id].op) = Relation(op)}
                 \subseteq Shown(scheduled_table(op.type, op.dbname, op.schema, op.table))
  <2>1. \A id \in Ids : Relation(tasks[id].op) = Relation(op) =>
            tasks[id].op.dbname = op.dbname /\ tasks[id].op.schema = op.schema
    BY DEF Relation
  <2>2. QED
    BY <1>5, <2>1, TableShows
<1>6. ASSUME NEW entry \in scheduled_database(op.type, op.dbname)
      PROVE  Pending(entry.id) <=>
                 entry.status \in {"todo", "scheduled", "queued", "doing", "abort"}
  BY <1>3, DatabaseShows, LabelTells DEF Pending
<1>7. {id \in {i \in Ids : Known(i) /\ tasks[i].op.type = op.type} : tasks[id].op.dbname = op.dbname}
          \subseteq Shown(scheduled_database(op.type, op.dbname))
  BY DatabaseShows
<1>8. QED
  BY <1>4, <1>5, <1>6, <1>7

(* The list of a table, and that of a database, miss no operation on it;   *)
(* the vacuums and the analyzes of a table are shown alone.  The reindexes *)
(* of a table come with those of its schema, and the list of a database    *)
(* with those of all others, so that nothing is proved of what else these  *)
(* two show.  Each label tells whether the operation has ended, for any    *)
(* operations and any number of tasks.                                     *)
THEOREM ListsRightHolds == Spec => []ListsRight
  BY InductiveAlways, ListsFollow, PTL

-----------------------------------------------------------------------------
LEMMA ServerNext == Inductive /\ [Next]_vars => [PgServer!Next]_(PgServer!serverVars)
<1> SUFFICES ASSUME Inductive, [Next]_vars PROVE [PgServer!Next]_(PgServer!serverVars)
  OBVIOUS
<1> USE DEF PgServer!Next, PgServer!serverVars
<1>1. accepting \in BOOLEAN /\ backends \subseteq Ids
  BY DEF Inductive, ServerOK
<1>2. UNCHANGED <<accepting, backends>> => [PgServer!Next]_(PgServer!serverVars)
  OBVIOUS
<1>3. UNCHANGED accepting /\ backends' \subseteq backends => PgServer!Change
  <2> SUFFICES ASSUME accepting' = accepting, backends' \subseteq backends PROVE PgServer!Change
    OBVIOUS
  <2>1. accepting' \in BOOLEAN
    BY <1>1, Zenon
  <2>2. backends' \in SUBSET backends
    OBVIOUS
  <2>3. ~accepting /\ accepting' => backends' = {}
    BY Zenon
  <2>4. QED
    BY <2>1, <2>2, <2>3, Zenon DEF PgServer!Change
<1>4. CASE PgServer!Change
  BY <1>4, Zenon
<1>5. ASSUME NEW c \in Clients, ClientStep(c) PROVE UNCHANGED <<accepting, backends>>
  BY <1>5 DEF ClientStep, post_operation, delete_operation, check, schedule_operation, look,
              not_found, cancel
<1>6. ASSUME NEW id \in Ids, ManagerStep(id) \/ Forget(id) \/ OrphanEnds(id)
      PROVE  UNCHANGED accepting /\ backends' \subseteq backends
  BY <1>6 DEF ManagerStep, Dispatch, Report, Abort, Forget, OrphanEnds
<1>7. ASSUME NEW id \in Ids, WorkerStep(id)
      PROVE  PgServer!Connect(id) \/ (UNCHANGED accepting /\ backends' \subseteq backends)
  BY <1>7 DEF WorkerStep, connect, execute, finish
<1>8. CASE Restart
  BY <1>8, <1>3 DEF Restart
<1>9. ASSUME NEW relation \in relations, Drop(relation) PROVE UNCHANGED <<accepting, backends>>
  BY <1>9 DEF Drop
<1>10. CASE UNCHANGED vars
  BY <1>2, <1>10 DEF vars
<1>11. QED
  BY <1>2, <1>3, <1>4, <1>5, <1>6, <1>7, <1>8, <1>9, <1>10 DEF Next

(* Whatever the workers do, on their own or cut off from the manager, the  *)
(* server is used as Server allows: with ControlImplementsServer, what the *)
(* two modules do to it is described by the same specification.            *)
THEOREM MaintenanceUsesServer == Spec => PgServer!Spec
  BY InductiveInit, InductiveNext, ServerNext, PTL DEF Spec, Init, PgServer!Spec

-----------------------------------------------------------------------------
(* A backend that is at work is of a task that has begun: one that goes on *)
(* alone keeps its task from being forgotten and scheduled anew.           *)
BackendOfBegun == \A id \in backends : Known(id) /\ tasks[id].status \notin Waiting

LEMMA BackendOfBegunNext ==
  ASSUME Inductive, BackendOfBegun, Inductive', [Next]_vars
  PROVE  BackendOfBegun'
<1>1. backends \subseteq Ids
  BY DEF Inductive, ServerOK
<1>2. CASE backends' \subseteq backends /\ UNCHANGED tasks
  BY <1>2 DEF BackendOfBegun, Known
<1>3. ASSUME NEW c \in Clients, ClientStep(c) PROVE BackendOfBegun'
  <2>1. CASE UNCHANGED <<backends, tasks>>
    BY <2>1, <1>2
  <2>2. CASE schedule_operation(c)
    <3> DEFINE new == TaskId(req[c].op, req[c].dt)
    <3>1. /\ UNCHANGED backends
          /\ \/ ~Known(new) /\ tasks' = [tasks EXCEPT ![new] = NewTask(req[c].op, req[c].dt)]
             \/ UNCHANGED tasks
      BY <2>2 DEF schedule_operation
    <3> HIDE DEF new
    <3>2. \A id \in backends : tasks'[id] = tasks[id]
      BY <3>1, <1>1 DEF BackendOfBegun, Known, Inductive, TasksOK
    <3>3. QED
      BY <3>1, <3>2 DEF BackendOfBegun, Known
  <2>3. CASE cancel(c)
    <3> DEFINE id == req[c].id
    <3>1. UNCHANGED backends /\ (TaskCancel(id) \/ UNCHANGED tasks)
      BY <2>3 DEF cancel
    <3>2. id \in Ids
      BY <2>3 DEF Inductive, RequestsOK, RequestOK, cancel
    <3> HIDE DEF id
    <3>3. CASE UNCHANGED tasks
      BY <3>1, <3>3, <1>2
    <3>4. CASE Pending(id) /\ TaskCancel(id)
      <4> DEFINE status == IF tasks[id].status \in Waiting THEN Status.canceled ELSE Status.abort
      <4>1. Known(id) /\ status \in {64, 256} /\ SetStatus(id, status)
        BY <3>4, StatusFacts DEF Pending, TaskCancel, SetStatus
      <4> HIDE DEF status
      <4>2. SameTasks /\ tasks'[id].status \in {64, 256}
            /\ \A other \in Ids : other # id => tasks'[other] = tasks[other]
        BY <3>2, <4>1, SetStatusKeeps DEF Statuses
      <4>3. QED
        BY <1>1, <3>1, <4>2, StatusFacts DEF BackendOfBegun, SameTasks, Known
    <3>5. QED
      BY <3>1, <3>3, <3>4 DEF TaskCancel
  <2>4. QED
    BY <1>3, <2>1, <2>2, <2>3 DEF ClientStep, post_operation, delete_operation, check, look, not_found
<1>4. ASSUME NEW id \in Ids, WorkerStep(id) PROVE BackendOfBegun'
  <2>1. worker[id] # "none" /\ UNCHANGED tasks /\ backends' \subseteq backends \cup {id}
    BY <1>4 DEF WorkerStep, connect, execute, finish, PgServer!Connect
  <2>2. Known(id) /\ tasks[id].status \notin Waiting
    BY <2>1, StatusFacts DEF Inductive, WorkersOK
  <2>3. QED
    BY <2>1, <2>2 DEF BackendOfBegun, Known
<1>5. ASSUME NEW id \in Ids, ManagerStep(id) PROVE BackendOfBegun'
  <2>1. PICK status \in Statuses :
           /\ Known(id) /\ SetStatus(id, status)
           /\ tasks[id].status \notin Waiting => status \notin Waiting
    <3>1. CASE Dispatch(id)
      BY <3>1, StatusFacts DEF Dispatch, Statuses
    <3>2. CASE Report(id)
      BY <3>2, StatusFacts DEF Report, Statuses, Inductive, WorkersOK
    <3>3. CASE Abort(id)
      BY <3>3, StatusFacts DEF Abort, Statuses
    <3>4. QED
      BY <1>5, <3>1, <3>2, <3>3 DEF ManagerStep
  <2>2. SameTasks /\ tasks'[id].status = status
        /\ \A other \in Ids : other # id => tasks'[other] = tasks[other]
    BY <2>1, SetStatusKeeps
  <2>3. backends' \subseteq backends
    BY <1>5 DEF ManagerStep, Dispatch, Report, Abort
  <2>4. QED
    BY <1>1, <2>1, <2>2, <2>3 DEF BackendOfBegun, SameTasks, Known
<1>6. ASSUME NEW id \in Ids, Forget(id) PROVE BackendOfBegun'
  <2>1. id \notin backends /\ UNCHANGED backends /\ \A other \in Ids : other # id => tasks'[other] = tasks[other]
    BY <1>6 DEF Forget, Inductive, TasksOK
  <2>2. QED
    BY <1>1, <2>1 DEF BackendOfBegun, Known
<1>7. ASSUME NEW id \in Ids, OrphanEnds(id) PROVE BackendOfBegun'
  BY <1>2, <1>7 DEF OrphanEnds
<1>8. CASE Restart
  <2>1. ASSUME NEW id \in backends PROVE Known(id)' /\ tasks'[id].status \notin Waiting
    <3>1. tasks[id] \in Task /\ tasks[id].status \notin Waiting /\ id \in Ids
      BY <1>1 DEF BackendOfBegun, Known, Inductive, TasksOK
    <3>2. tasks'[id] = Recovered(tasks[id])
      BY <1>8, <3>1 DEF Restart
    <3>3. QED
      BY <3>1, <3>2, RecoveredTask, NoneIsNoTask DEF Known
  <2>2. backends' \subseteq backends
    BY <1>8 DEF Restart
  <2>3. QED
    BY <2>1, <2>2 DEF BackendOfBegun, Known
<1>9. CASE PgServer!Change /\ UNCHANGED maintenanceVars
  BY <1>2, <1>9 DEF PgServer!Change, maintenanceVars
<1>10. ASSUME NEW relation \in relations, Drop(relation) PROVE BackendOfBegun'
  BY <1>2, <1>10 DEF Drop
<1>11. CASE UNCHANGED vars
  BY <1>2, <1>11 DEF vars, maintenanceVars
<1>12. QED
  BY <1>3, <1>4, <1>5, <1>6, <1>7, <1>8, <1>9, <1>10, <1>11 DEF Next

-----------------------------------------------------------------------------
(* Each step is a step of the life of one operation, an interruption of    *)
(* all, or none.                                                           *)
Lives == [id \in Ids |-> Phase(tasks[id])]

LEMMA PhaseFacts ==
  ASSUME NEW task
  PROVE  /\ task = None => Phase(task) = "none"
         /\ task # None /\ task.status \in Waiting => Phase(task) = "waiting"
         /\ task # None /\ task.status \in {8, 256} => Phase(task) = "running"
         /\ task # None /\ task.status = 16 => Phase(task) = "done"
         /\ task # None /\ task.status \in {32, 64, 128} => Phase(task) = "stopped"
  BY StatusFacts DEF Phase

LEMMA OneLife ==
  ASSUME NEW id \in Ids, \A other \in Ids : other # id => tasks'[other] = tasks[other],
         NEW phase, Phase(tasks'[id]) = phase
  PROVE  Lives' = [Lives EXCEPT ![id] = phase]
  BY DEF Lives

LEMMA SameLife ==
  ASSUME NEW id \in Ids, \A other \in Ids : other # id => tasks'[other] = tasks[other],
         Phase(tasks'[id]) = Phase(tasks[id])
  PROVE  Lives' = Lives
  BY DEF Lives

(* A task that has its status set, and its phase. *)
LEMMA PhaseOf ==
  ASSUME Inductive, NEW id \in Ids, Known(id)
  PROVE  tasks[id] # None /\ tasks[id].status \in Statuses /\ Lives[id] = Phase(tasks[id])
  BY DEF Inductive, TasksOK, Task, Known, Lives

LivesRest == Lives' = Lives /\ ran' = ran

LEMMA ClientLife ==
  ASSUME Inductive, NEW c \in Clients, ClientStep(c)
  PROVE  LivesRest \/ \E id \in Ids : Life!Operate(id)
<1>1. CASE UNCHANGED <<tasks, history>>
  BY <1>1 DEF LivesRest, Lives, history
<1>2. CASE schedule_operation(c)
  <2> DEFINE op == req[c].op
             dt == req[c].dt
             id == TaskId(op, dt)
  <2>1. op \in Operations /\ dt \in Dates /\ id \in Ids
    BY <1>2, IdIsId DEF Inductive, RequestsOK, RequestOK, schedule_operation
  <2>2. CASE UNCHANGED <<tasks, ran>>
    BY <2>2 DEF LivesRest, Lives
  <2>3. CASE /\ ~Known(id) /\ tasks' = [tasks EXCEPT ![id] = NewTask(op, dt)]
             /\ ran' = ran \ {id}
    <3>1. NewTask(op, dt) # None /\ NewTask(op, dt).status \in Waiting
      BY <2>1, StatusFacts, NoneIsNoTask DEF NewTask, Task, Statuses
    <3>2. tasks'[id] = NewTask(op, dt) /\ \A other \in Ids : other # id => tasks'[other] = tasks[other]
      BY <2>1, <2>3 DEF Inductive, TasksOK
    <3>3. Phase(tasks'[id]) = "waiting" /\ Lives[id] = "none"
      BY <2>1, <2>3, <3>1, <3>2, PhaseFacts DEF Known, Lives
    <3> HIDE DEF id
    <3>4. Lives' = [Lives EXCEPT ![id] = "waiting"]
      BY <2>1, <3>2, <3>3, OneLife
    <3>5. Life!Schedule(id)
      BY <2>3, <3>3, <3>4 DEF Life!Schedule, Lives
    <3>6. QED
      BY <2>1, <3>5 DEF Life!Operate
  <2>4. QED
    BY <1>2, <2>2, <2>3 DEF schedule_operation, history
<1>3. CASE cancel(c)
  <2> DEFINE id == req[c].id
  <2>1. id \in Ids /\ ran' = ran
    BY <1>3 DEF Inductive, RequestsOK, RequestOK, cancel, history
  <2>2. TaskCancel(id) \/ UNCHANGED tasks
    BY <1>3 DEF cancel
  <2> HIDE DEF id
  <2>3. CASE UNCHANGED tasks
    BY <2>1, <2>3 DEF LivesRest, Lives
  <2>4. CASE Pending(id) /\ TaskCancel(id)
    <3> DEFINE status == IF tasks[id].status \in Waiting THEN Status.canceled ELSE Status.abort
    <3>1. Known(id) /\ SetStatus(id, status) /\ tasks[id].status \in {1, 2, 4, 8, 256}
      BY <2>1, <2>4, StatusFacts, PhaseOf DEF Pending, TaskCancel, SetStatus, Statuses
    <3>2. /\ tasks[id].status \in Waiting => status = 64
          /\ tasks[id].status \notin Waiting => status = 256
      BY StatusFacts
    <3> HIDE DEF status
    <3>3. status \in Statuses
      BY <3>2 DEF Statuses
    <3>4. /\ tasks'[id].status = status /\ tasks'[id] # None
          /\ \A other \in Ids : other # id => tasks'[other] = tasks[other]
      BY <2>1, <3>1, <3>3, SetStatusKeeps DEF SameTasks, Known
    <3>5. CASE tasks[id].status \in Waiting
      <4>1. Phase(tasks'[id]) = "stopped" /\ Lives[id] = "waiting"
        BY <2>1, <3>1, <3>2, <3>4, <3>5, PhaseFacts, PhaseOf DEF Known
      <4>2. Lives' = [Lives EXCEPT ![id] = "stopped"]
        BY <2>1, <3>4, <4>1, OneLife
      <4>3. Life!End(id)
        BY <2>1, <4>1, <4>2 DEF Life!End, Lives
      <4>4. QED
        BY <2>1, <4>3 DEF Life!Operate
    <3>6. CASE tasks[id].status \notin Waiting
      <4>1. tasks[id].status \in {8, 256} /\ status = 256
        BY <3>1, <3>2, <3>6, StatusFacts
      <4>2. Phase(tasks'[id]) = "running" /\ Phase(tasks[id]) = "running"
        BY <2>1, <3>1, <3>4, <4>1, PhaseFacts, PhaseOf DEF Known
      <4>3. QED
        BY <2>1, <3>4, <4>2, SameLife DEF LivesRest
    <3>7. QED
      BY <3>5, <3>6
  <2>5. QED
    BY <2>2, <2>3, <2>4 DEF TaskCancel
<1>4. QED
  BY <1>1, <1>2, <1>3
  DEF ClientStep, post_operation, delete_operation, check, look, not_found

(* A status that ends the wait or the run of a task is a step of its life. *)
LEMMA StatusLife ==
  ASSUME Inductive, NEW id \in Ids, Known(id), NEW status \in Statuses, SetStatus(id, status),
         UNCHANGED ran,
         \/ tasks[id].status \in {1, 2, 4} /\ status = 4
         \/ tasks[id].status \in {1, 2, 4} /\ status = 8
         \/ tasks[id].status \in {8, 256} /\ status = 16 /\ id \in ran
         \/ tasks[id].status \in {8, 256} /\ status \in {32, 128}
  PROVE  LivesRest \/ Life!Operate(id)
<1>1. /\ tasks'[id].status = status /\ tasks'[id] # None
      /\ \A other \in Ids : other # id => tasks'[other] = tasks[other]
  BY SetStatusKeeps DEF SameTasks, Known
<1>2. tasks[id] # None /\ Lives[id] = Phase(tasks[id])
  BY PhaseOf
<1>3. Waiting = {1, 2, 4}
  BY StatusFacts
<1>4. CASE tasks[id].status \in {1, 2, 4} /\ status = 4
  <2>1. Phase(tasks'[id]) = "waiting" /\ Phase(tasks[id]) = "waiting"
    BY <1>1, <1>2, <1>3, <1>4, PhaseFacts
  <2>2. QED
    BY <1>1, <2>1, SameLife DEF LivesRest
<1>5. CASE tasks[id].status \in {1, 2, 4} /\ status = 8
  <2>1. Phase(tasks'[id]) = "running" /\ Lives[id] = "waiting"
    BY <1>1, <1>2, <1>3, <1>5, PhaseFacts
  <2>2. Lives' = [Lives EXCEPT ![id] = "running"]
    BY <1>1, <2>1, OneLife
  <2>3. Life!Begin(id)
    BY <2>1, <2>2 DEF Life!Begin, Lives
  <2>4. QED
    BY <2>3 DEF Life!Operate
<1>6. CASE tasks[id].status \in {8, 256} /\ status = 16 /\ id \in ran
  <2>1. Phase(tasks'[id]) = "done" /\ Lives[id] = "running"
    BY <1>1, <1>2, <1>6, PhaseFacts
  <2>2. Lives' = [Lives EXCEPT ![id] = "done"]
    BY <1>1, <2>1, OneLife
  <2>3. Life!End(id)
    BY <1>6, <2>1, <2>2 DEF Life!End, Lives
  <2>4. QED
    BY <2>3 DEF Life!Operate
<1>7. CASE tasks[id].status \in {8, 256} /\ status \in {32, 128}
  <2>1. Phase(tasks'[id]) = "stopped" /\ Lives[id] = "running"
    BY <1>1, <1>2, <1>7, PhaseFacts
  <2>2. Lives' = [Lives EXCEPT ![id] = "stopped"]
    BY <1>1, <2>1, OneLife
  <2>3. Life!End(id)
    BY <2>1, <2>2 DEF Life!End, Lives
  <2>4. QED
    BY <2>3 DEF Life!Operate
<1>8. QED
  BY <1>4, <1>5, <1>6, <1>7

LEMMA ManagerLife ==
  ASSUME Inductive, NEW id \in Ids, ManagerStep(id)
  PROVE  LivesRest \/ Life!Operate(id)
<1>1. Known(id) /\ UNCHANGED ran
  BY DEF Inductive, WorkersOK, ManagerStep, Dispatch, Report, Abort, history
<1>2. PICK status \in Statuses :
         /\ SetStatus(id, status)
         /\ \/ tasks[id].status \in {1, 2, 4} /\ status = 4
            \/ tasks[id].status \in {1, 2, 4} /\ status = 8
            \/ tasks[id].status \in {8, 256} /\ status = 16 /\ id \in ran
            \/ tasks[id].status \in {8, 256} /\ status \in {32, 128}
  <2>1. CASE Dispatch(id)
    BY <2>1, StatusFacts DEF Dispatch, Statuses
  <2>2. CASE Report(id)
    BY <2>2, StatusFacts DEF Report, Statuses, Inductive, WorkersOK, RanOK
  <2>3. CASE Abort(id)
    BY <2>3, StatusFacts DEF Abort, Statuses
  <2>4. QED
    BY <2>1, <2>2, <2>3 DEF ManagerStep
<1>3. QED
  BY <1>1, <1>2, StatusLife

(* A statement completes, its worker there or not. *)
LEMMA CompleteLife ==
  ASSUME Inductive, NEW id \in Ids, Known(id), tasks[id].status \notin Waiting,
         ran' \in {ran, ran \cup {id}}, UNCHANGED tasks
  PROVE  LivesRest \/ Life!Operate(id)
<1>1. Lives' = Lives
  BY DEF Lives
<1>2. CASE ran' = ran
  BY <1>1, <1>2 DEF LivesRest
<1>3. CASE ran' = ran \cup {id} /\ id \notin ran
  <2>1. tasks[id].status # 16
    BY <1>3, StatusFacts DEF Inductive, RanOK, DoneMeansRun
  <2>2. tasks[id] # None /\ tasks[id].status \in Statuses /\ Lives[id] = Phase(tasks[id])
    BY PhaseOf
  <2>3. tasks[id].status \in {8, 256} \/ tasks[id].status \in {32, 64, 128}
    BY <2>1, <2>2, StatusFacts DEF Statuses
  <2>4. Lives[id] \in {"running", "stopped"}
    BY <2>2, <2>3, PhaseFacts
  <2>5. Life!Complete(id)
    BY <1>1, <1>3, <2>4 DEF Life!Complete, Lives
  <2>6. QED
    BY <2>5 DEF Life!Operate
<1>4. QED
  BY <1>2, <1>3

LEMMA WorkerLife ==
  ASSUME Inductive, NEW id \in Ids, WorkerStep(id)
  PROVE  LivesRest \/ Life!Operate(id)
<1>1. /\ worker[id] # "none" /\ UNCHANGED tasks
      /\ ran' \in {ran, ran \cup {id}}
  BY DEF WorkerStep, connect, execute, finish, history
<1>2. Known(id) /\ tasks[id].status \notin Waiting
  BY <1>1, StatusFacts DEF Inductive, WorkersOK
<1>3. QED
  BY <1>1, <1>2, CompleteLife

LEMMA OrphanLife ==
  ASSUME Inductive, BackendOfBegun, NEW id \in Ids, OrphanEnds(id)
  PROVE  LivesRest \/ Life!Operate(id)
  BY CompleteLife DEF OrphanEnds, BackendOfBegun

LEMMA ForgetLife ==
  ASSUME Inductive, NEW id \in Ids, Forget(id)
  PROVE  Life!Operate(id)
<1>1. /\ tasks'[id] = None
      /\ \A other \in Ids : other # id => tasks'[other] = tasks[other]
  BY DEF Inductive, TasksOK, Forget
<1>2. tasks[id] # None /\ tasks[id].status \in {16, 32, 64, 128}
  BY StatusFacts DEF Forget, Pending, Known
<1>3. Lives[id] \in {"done", "stopped"} /\ Phase(tasks'[id]) = "none"
  BY <1>1, <1>2, PhaseFacts, PhaseOf DEF Known
<1>4. Lives' = [Lives EXCEPT ![id] = "none"]
  BY <1>1, <1>3, OneLife
<1>5. Life!Forget(id)
  BY <1>3, <1>4 DEF Forget, Life!Forget, Lives
<1>6. QED
  BY <1>5 DEF Life!Operate

LEMMA RestartLife ==
  ASSUME Inductive, Restart
  PROVE  Life!Interrupt
<1>1. ASSUME NEW id \in Ids
      PROVE  Phase(tasks'[id]) = IF Lives[id] = "running" THEN "stopped" ELSE Lives[id]
  <2>1. tasks'[id] = Recovered(tasks[id]) /\ Lives[id] = Phase(tasks[id])
    BY DEF Restart, Lives
  <2>2. CASE tasks[id] = None
    BY <2>1, <2>2, PhaseFacts DEF Recovered
  <2>3. CASE tasks[id] # None
    <3>1. tasks[id] \in Task /\ tasks[id].status \in Statuses /\ tasks'[id] # None
      BY <2>1, <2>3, RecoveredTask, NoneIsNoTask DEF Inductive, TasksOK, Task
    <3>2. tasks'[id].status = CASE tasks[id].status = 4 -> 2
                                [] tasks[id].status \in {8, 256} -> 128
                                [] OTHER -> tasks[id].status
      BY <2>1, <2>3, <3>1, StatusFacts DEF Recovered, Task
    <3>3. CASE tasks[id].status \in {1, 2, 4}
      BY <2>1, <2>3, <3>1, <3>2, <3>3, PhaseFacts, StatusFacts
    <3>4. CASE tasks[id].status \in {8, 256}
      BY <2>1, <2>3, <3>1, <3>2, <3>4, PhaseFacts
    <3>5. CASE tasks[id].status \in {16, 32, 64, 128}
      BY <2>1, <2>3, <3>1, <3>2, <3>5, PhaseFacts
    <3>6. QED
      BY <3>1, <3>3, <3>4, <3>5 DEF Statuses
  <2>4. QED
    BY <2>2, <2>3
<1>2. Lives' = [id \in Ids |-> IF Lives[id] = "running" THEN "stopped" ELSE Lives[id]]
  BY <1>1 DEF Lives
<1>3. UNCHANGED ran
  BY DEF Restart, history
<1>4. QED
  BY <1>2, <1>3 DEF Life!Interrupt, Lives

LEMMA LifeStep ==
  ASSUME Inductive, BackendOfBegun, [Next]_vars
  PROVE  LivesRest \/ (\E id \in Ids : Life!Operate(id)) \/ Life!Interrupt
<1>1. CASE UNCHANGED <<tasks, ran>>
  BY <1>1 DEF LivesRest, Lives
<1>2. CASE ~UNCHANGED <<tasks, ran>>
  BY <1>2, ClientLife, ManagerLife, WorkerLife, OrphanLife, ForgetLife, RestartLife
  DEF Next, Drop, maintenanceVars, history, vars
<1>3. QED
  BY <1>1, <1>2

(* Scheduled operations live as OperationLife says, whatever stops, drops  *)
(* and restarts there are; its liveness needs the fairness, and is checked *)
(* on a small instance only.                                               *)
LifeSafety == Life!Init /\ [][Life!Next]_(Life!lifeVars)

THEOREM OperationsLive == Spec => LifeSafety
<1>1. Init => Life!Init
  BY PhaseFacts DEF Init, MaintenanceInit, Life!Init
<1>2. Init => BackendOfBegun
  BY DEF Init, PgServer!ServerInit, BackendOfBegun
<1>3. ASSUME Inductive, BackendOfBegun, [Next]_vars PROVE [Life!Next]_(Life!lifeVars)
  BY <1>3, LifeStep DEF LivesRest, Lives, Life!Next, Life!lifeVars
<1>4. QED
  BY <1>1, <1>2, <1>3, InductiveInit, InductiveNext, BackendOfBegunNext, PTL DEF Spec, LifeSafety

================================================================================
