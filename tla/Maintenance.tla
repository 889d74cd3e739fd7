------------------------------ MODULE Maintenance ------------------------------
(***************************************************************************)
(* The maintenance plugin (plugins/maintenance): vacuum, analyze and       *)
(* reindex are scheduled by HTTP threads as tasks of the task manager, run *)
(* by worker processes, listed and cancelled, while the server they run on *)
(* is stopped, restarted and has its backends terminated (Server, which    *)
(* Control implements), tables are dropped and the agent restarts.  The    *)
(* task manager is not part of this repository: its actions below say what *)
(* the plugin relies on, and choose where nothing is known of it.  Whether *)
(* the date of a task has come is a choice too: the clock is left out.     *)
(***************************************************************************)
EXTENDS Integers, FiniteSets, Sequences

CONSTANTS
    Clients,        \* HTTP threads that schedule or cancel
    Operations,     \* operations asked for: type, dbname, schema, table, index
                    \* and, of a vacuum, the mode
    Dates,          \* the dates they are asked for
    PoolSize,       \* workers of each type (10 in the code)
    MaxPosts, MaxDeletes, MaxFaults,    \* bounds of a run
    None

(* What is asked for comes with the path of the request: a database, and a *)
(* schema if there is a table or an index (plugins/maintenance/__init__.py,*)
(* 81 to 255).                                                             *)
ASSUME OperationsAssumption ==
    \A o \in Operations :
        /\ o.type \in {"vacuum", "analyze", "reindex"}
        /\ o.table = None \/ o.index = None
        /\ o.index # None => o.type = "reindex"
        /\ o.mode # None => o.type = "vacuum"
        /\ o.dbname # None /\ (o.table # None \/ o.index # None => o.schema # None)

ASSUME NoneAssumption == None \notin [op : Operations, dt : Dates, status : 0 .. 256]

VARIABLES
    accepting, backends,    \* the server; a backend is named by its task
    relations,  \* the tables and indexes that exist
    tasks,      \* tasks[id]: the task the manager knows under id, or None
    worker,     \* worker[id]: what the worker of the task does next
    req,        \* req[c]: the request of thread c
    bounds,     \* history: posts, deletes, drops and restarts so far
    ran,        \* history: the tasks whose statement has completed
    accepted    \* history: the requests answered with an identifier

history == <<ran, accepted>>
maintenanceVars == <<relations, tasks, worker, req, bounds, history>>
vars == <<accepting, backends, maintenanceVars>>

(* The status of a task is a bit; a label stands for it in the answers. *)
Status == [todo |-> 1, scheduled |-> 2, queued |-> 4, doing |-> 8, done |-> 16,
           failed |-> 32, canceled |-> 64, aborted |-> 128, abort |-> 256]
Waiting == {Status.todo, Status.scheduled, Status.queued}
Ended == {Status.done, Status.failed, Status.canceled, Status.aborted}
Known(id) == tasks[id] # None
Pending(id) == Known(id) /\ tasks[id].status \notin Ended

-----------------------------------------------------------------------------
(* Bug variant: the identifier leaves out the database. *)
TaskId_without_dbname(op, dt) ==
    <<op.schema, IF op.table # None THEN op.table ELSE op.index, dt, op.type>>

(* What the identifier of a task is drawn from (its digest, which is cut   *)
(* short, is taken to keep them apart).  The mode of a vacuum is not in it,*)
(* though the task keeps it: a plain VACUUM and a VACUUM FULL of a table   *)
(* at one date have one identifier.  The names of the table and of the     *)
(* index are joined, one of them empty: in PostgreSQL no table and index   *)
(* of a schema share a name.                                               *)
TaskId(op, dt) ==
    <<op.dbname, op.schema, IF op.table # None THEN op.table ELSE op.index, dt, op.type>>

Ids == {TaskId(op, dt) : op \in Operations, dt \in Dates}

PgServer == INSTANCE Server WITH Sessions <- Ids

Relation(op) == [dbname |-> op.dbname, schema |-> op.schema,
                 name |-> IF op.table # None THEN op.table ELSE op.index]
OnRelation(op) == op.table # None \/ op.index # None

SameButMode(o, p) == [o EXCEPT !.mode = p.mode] = p

ASSUME NamesAssumption ==
    \A o, p \in Operations : o.type = p.type /\ Relation(o) = Relation(p) => SameButMode(o, p)

(* check_table_exists, check_index_exists: raise a UserError otherwise. *)
check_exists(op) == OnRelation(op) => Relation(op) \in relations

Request == [pc |-> "idle", op |-> None, dt |-> None, id |-> None, looked |-> 0,
            found |-> FALSE, there |-> FALSE]

MaintenanceInit ==
    /\ relations = {Relation(op) : op \in {o \in Operations : OnRelation(o)}}
    /\ tasks = [id \in Ids |-> None]
    /\ worker = [id \in Ids |-> "none"]
    /\ req = [c \in Clients |-> Request]
    /\ bounds = [posts |-> 0, deletes |-> 0, faults |-> 0]
    /\ ran = {} /\ accepted = {}

(* The answer, an error or not, ends the request. *)
Answer(c) == req' = [req EXCEPT ![c] = Request]

-----------------------------------------------------------------------------
(* POST .../vacuum, .../analyze, .../reindex: the date is the one posted   *)
(* or the current time.                                                    *)
post_operation(c, op, dt) ==
    /\ req[c].pc = "idle" /\ bounds.posts < MaxPosts
    /\ bounds' = [bounds EXCEPT !.posts = @ + 1]
    /\ req' = [req EXCEPT ![c] = [Request EXCEPT !.pc = "check", !.op = op, !.dt = dt]]
    /\ UNCHANGED <<accepting, backends, relations, tasks, worker, history>>

(* schedule_operation connects and checks that the table or the index is   *)
(* there: the request ends with an error otherwise.                        *)
check(c) ==
    /\ req[c].pc = "check"
    /\ IF accepting /\ check_exists(req[c].op)
       THEN req' = [req EXCEPT ![c].pc = "schedule"]
       ELSE Answer(c)
    /\ UNCHANGED <<accepting, backends, relations, tasks, worker, bounds, history>>

NewTask(op, dt) == [op |-> op, dt |-> dt, status |-> Status.todo]

(* TASK_NEW: a new identifier makes a task; one the manager knows is       *)
(* refused, which the code answers with 500, or the task that has it is    *)
(* kept, whatever the mode now asked for.                                  *)
schedule_operation(c) ==
    /\ req[c].pc = "schedule"
    /\ LET op == req[c].op
           dt == req[c].dt
           id == TaskId(op, dt) IN
       \/ /\ ~Known(id)
          /\ tasks' = [tasks EXCEPT ![id] = NewTask(op, dt)]
          /\ ran' = ran \ {id}
          /\ \/ accepted' = accepted \cup {[op |-> op, dt |-> dt]} /\ Answer(c)
             \/ UNCHANGED accepted /\ Answer(c)    \* the answer is lost
       \/ /\ Known(id)
          /\ accepted' = accepted \cup {[op |-> op, dt |-> dt]} /\ Answer(c)
          /\ UNCHANGED <<tasks, ran>>
       \/ /\ Answer(c)
          /\ UNCHANGED <<tasks, history>>
    /\ UNCHANGED <<accepting, backends, relations, worker, bounds>>

-----------------------------------------------------------------------------
(* DELETE .../vacuum/<id>, .../analyze/<id>, .../reindex/<id>: the three   *)
(* do the same.                                                            *)
delete_operation(c, id) ==
    /\ req[c].pc = "idle" /\ bounds.deletes < MaxDeletes
    /\ bounds' = [bounds EXCEPT !.deletes = @ + 1]
    /\ req' = [req EXCEPT ![c] = [Request EXCEPT !.pc = "look", !.id = id,
                                                  !.there = Known(id)]]
    /\ UNCHANGED <<accepting, backends, relations, tasks, worker, history>>

(* Bug variant: one of the three types is forgotten. *)
lists_forgotten == <<"analyze", "reindex">>

(* The lists an identifier is looked for in, each asked from the task      *)
(* manager, one after another.                                             *)
lists == <<"vacuum", "analyze", "reindex">>

(* cancel_scheduled_operation asks for the list of one type; after the     *)
(* last it knows whether the identifier was in any.                        *)
look(c) ==
    /\ req[c].pc = "look" /\ req[c].looked < Len(lists)
    /\ LET id == req[c].id
           shown == Known(id) /\ tasks[id].op.type = lists[req[c].looked + 1] IN
       \/ req' = [req EXCEPT ![c].looked = @ + 1, ![c].found = @ \/ shown]
       \/ Answer(c)
    /\ UNCHANGED <<accepting, backends, relations, tasks, worker, bounds, history>>

not_found(c) ==
    /\ req[c].pc = "look" /\ req[c].looked = Len(lists) /\ ~req[c].found
    /\ Answer(c)
    /\ UNCHANGED <<accepting, backends, relations, tasks, worker, bounds, history>>

(* Bug variant: a task that runs is cancelled at once, not aborted. *)
TaskCancel_marks(id) ==
    tasks' = IF ~Pending(id) THEN tasks ELSE [tasks EXCEPT ![id].status = Status.canceled]

(* TASK_CANCEL, as the task manager takes it: a task that waits is         *)
(* cancelled, one that runs is to be aborted, one that has ended or is not *)
(* known is left alone.                                                    *)
TaskCancel(id) ==
    tasks' = IF ~Pending(id) THEN tasks
             ELSE [tasks EXCEPT ![id].status = IF @ \in Waiting THEN Status.canceled
                                                                ELSE Status.abort]

(* The message is sent, whatever has become of the task since it was       *)
(* found.  Any reply is answered "ok", one that says that the cancellation *)
(* was not taken too (schedule_operation looks at its reply, this does     *)
(* not); with no reply the answer is 500, the message heard or not.        *)
cancel(c) ==
    /\ req[c].pc = "look" /\ req[c].looked = Len(lists) /\ req[c].found
    /\ TaskCancel(req[c].id) \/ UNCHANGED tasks
    /\ Answer(c)
    /\ UNCHANGED <<accepting, backends, relations, worker, bounds, history>>

-----------------------------------------------------------------------------
(* The task manager, external: a task is taken up and queued when its time *)
(* has come, and given to a worker if one of its type is free.             *)
SetStatus(id, status) == tasks' = [tasks EXCEPT ![id].status = status]

Running(type) == {id \in Ids : worker[id] # "none" /\ tasks[id].op.type = type}

Dispatch(id) ==
    /\ Known(id)
    /\ \/ /\ tasks[id].status \in {Status.todo, Status.scheduled}
          /\ SetStatus(id, Status.queued)
          /\ UNCHANGED worker
       \/ /\ tasks[id].status = Status.queued
          /\ Cardinality(Running(tasks[id].op.type)) < PoolSize
          /\ SetStatus(id, Status.doing)
          /\ worker' = [worker EXCEPT ![id] = "connect"]
    /\ UNCHANGED <<accepting, backends, relations, req, bounds, history>>

(* The result of a worker; of one that is to be aborted it may be lost. *)
Report(id) ==
    /\ worker[id] \in {"done", "failed"}
    /\ worker' = [worker EXCEPT ![id] = "none"]
    /\ \/ SetStatus(id, Status[worker[id]])
       \/ tasks[id].status = Status.abort /\ SetStatus(id, Status.aborted)
    /\ UNCHANGED <<accepting, backends, relations, req, bounds, history>>

(* The worker of a task to abort is terminated: its backend goes with it,  *)
(* or goes on alone.                                                       *)
Abort(id) ==
    /\ Known(id) /\ tasks[id].status = Status.abort
    /\ worker[id] \in {"connect", "execute", "running"}
    /\ worker' = [worker EXCEPT ![id] = "none"]
    /\ SetStatus(id, Status.aborted)
    /\ backends' \in {backends, backends \ {id}}
    /\ UNCHANGED <<accepting, relations, req, bounds, history>>

Forget(id) ==
    /\ Known(id) /\ ~Pending(id) /\ id \notin backends
    /\ tasks' = [tasks EXCEPT ![id] = None]
    /\ ran' = ran \ {id}
    /\ accepted' = {request \in accepted : TaskId(request.op, request.dt) # id}
    /\ req' = [c \in Clients |-> [req[c] EXCEPT !.there = @ /\ req[c].id # id]]
    /\ UNCHANGED <<accepting, backends, relations, worker, bounds>>

-----------------------------------------------------------------------------
(* vacuum_worker, analyze_worker, reindex_worker: connect, check that the  *)
(* object is still there, run the statement.                               *)
GoesOn(id, step) == worker' = [worker EXCEPT ![id] = step]

(* Bug variant: the worker waits for the server to accept connections. *)
connect_waits(id) ==
    /\ worker[id] = "connect"
    /\ PgServer!Connect(id)
    /\ GoesOn(id, IF check_exists(tasks[id].op) THEN "execute" ELSE "failed")
    /\ UNCHANGED <<relations, tasks, req, bounds, history>>

(* The object is looked up on the connection; no connection, or no object, *)
(* and the operation ends there.                                           *)
connect(id) ==
    /\ worker[id] = "connect"
    /\ \/ PgServer!Connect(id) /\ check_exists(tasks[id].op) /\ GoesOn(id, "execute")
       \/ GoesOn(id, "failed") /\ UNCHANGED <<accepting, backends>>
    /\ UNCHANGED <<relations, tasks, req, bounds, history>>

(* The statement begins, and locks the object, if it is there. *)
execute(id) ==
    /\ worker[id] = "execute"
    /\ IF id \in backends /\ check_exists(tasks[id].op)
       THEN GoesOn(id, "running") /\ UNCHANGED backends
       ELSE GoesOn(id, "failed") /\ backends' = backends \ {id}
    /\ UNCHANGED <<accepting, relations, tasks, req, bounds, history>>

(* Bug variant: vacuum logs the error of the statement and raises none. *)
finish_swallows(id) ==
    /\ worker[id] = "running"
    /\ ran' = IF id \in backends THEN ran \cup {id} ELSE ran
    /\ GoesOn(id, "done")
    /\ backends' = backends \ {id}
    /\ UNCHANGED <<accepting, relations, tasks, req, bounds, accepted>>

(* The statement completes; or it fails, in any case if the backend was    *)
(* terminated, and the error is raised again as a UserError.               *)
finish(id) ==
    /\ worker[id] = "running"
    /\ \/ id \in backends /\ ran' = ran \cup {id} /\ GoesOn(id, "done")
       \/ UNCHANGED ran /\ GoesOn(id, "failed")
    /\ backends' = backends \ {id}
    /\ UNCHANGED <<accepting, relations, tasks, req, bounds, accepted>>

(* A statement whose worker is no more ends by itself, completed or not. *)
OrphanEnds(id) ==
    /\ worker[id] = "none" /\ id \in backends
    /\ backends' = backends \ {id}
    /\ ran' \in {ran, ran \cup {id}}
    /\ UNCHANGED <<accepting, relations, tasks, worker, req, bounds, accepted>>

-----------------------------------------------------------------------------
(* A table or an index is dropped, when no statement holds it. *)
Drop(relation) ==
    /\ bounds.faults < MaxFaults
    /\ relation \in relations
    /\ \A id \in Ids : worker[id] = "running" => Relation(tasks[id].op) # relation
    /\ relations' = relations \ {relation}
    /\ bounds' = [bounds EXCEPT !.faults = @ + 1]
    /\ UNCHANGED <<accepting, backends, tasks, worker, req, history>>

(* The agent stops and starts again: threads and workers are gone, the     *)
(* tasks that wait are recovered, those that ran are not run again.        *)
Recovered(task) ==
    IF task = None THEN None
    ELSE [task EXCEPT !.status = CASE @ = Status.queued -> Status.scheduled
                                   [] @ \in {Status.doing, Status.abort} -> Status.aborted
                                   [] OTHER -> @]

Restart ==
    /\ bounds.faults < MaxFaults
    /\ bounds' = [bounds EXCEPT !.faults = @ + 1]
    /\ req' = [c \in Clients |-> Request]
    /\ worker' = [id \in Ids |-> "none"]
    /\ backends' \in SUBSET backends
    /\ tasks' = [id \in Ids |-> Recovered(tasks[id])]
    /\ UNCHANGED <<accepting, relations, history>>

-----------------------------------------------------------------------------
ClientStep(c) ==
    \/ \E op \in Operations, dt \in Dates : post_operation(c, op, dt)
    \/ \E id \in Ids : delete_operation(c, id)
    \/ check(c) \/ schedule_operation(c)
    \/ look(c) \/ not_found(c) \/ cancel(c)

WorkerStep(id) == connect(id) \/ execute(id) \/ finish(id)

ManagerStep(id) == Dispatch(id) \/ Report(id) \/ Abort(id)

Next ==
    \/ PgServer!Change /\ UNCHANGED maintenanceVars
    \/ \E c \in Clients : ClientStep(c)
    \/ \E id \in Ids : WorkerStep(id) \/ ManagerStep(id) \/ Forget(id) \/ OrphanEnds(id)
    \/ Restart
    \/ \E relation \in relations : Drop(relation)

Init == PgServer!ServerInit /\ MaintenanceInit

(* Workers run on, statements end and the task manager does its work, the  *)
(* date of a task coming at last; nothing has to be asked for, dropped,    *)
(* forgotten or restarted, nor any thread to go on.                        *)
Fairness == \A id \in Ids : WF_vars(WorkerStep(id) \/ ManagerStep(id))

Spec == Init /\ [][Next]_vars /\ Fairness

-----------------------------------------------------------------------------
(* task_status_label: the place of the highest bit; 0 has none, and Python *)
(* takes the place -1 for the last one.                                    *)
Labels == <<"todo", "scheduled", "queued", "doing", "done", "failed",
            "canceled", "aborted", "abort">>

bit_length(n) == CHOOSE k \in 0 .. 10 : n < 2 ^ k /\ (k = 0 \/ 2 ^ (k - 1) <= n)

task_status_label(status) ==
    LET p == bit_length(status) - 1 IN
    IF p >= Len(Labels) THEN "unknown" ELSE IF p = -1 THEN Labels[Len(Labels)]
    ELSE Labels[p + 1]

(* Bug variant: a task is left out if both its database and its schema     *)
(* differ, instead of one of them.                                         *)
passes_if_either(options, filter) ==
    /\ filter.dbname # None /\ filter.schema # None =>
           options.dbname = filter.dbname \/ options.schema = filter.schema
    /\ filter.table # None => options.table = filter.table
    /\ filter.index # None => options.index = filter.index

(* What a list shows of a type, by database and schema if both are given,  *)
(* by table and by index if they are.  None stands for not given.          *)
passes(options, filter) ==
    /\ filter.dbname # None /\ filter.schema # None =>
           options.dbname = filter.dbname /\ options.schema = filter.schema
    /\ filter.table # None => options.table = filter.table
    /\ filter.index # None => options.index = filter.index

list_scheduled_operation(type, filter) ==
    {[id |-> id, status |-> task_status_label(tasks[id].status)] :
        id \in {i \in Ids : Known(i) /\ tasks[i].op.type = type /\ passes(tasks[i].op, filter)}}

Filter == [dbname |-> None, schema |-> None, table |-> None, index |-> None]

(* GET /maintenance/<dbname>/<type>/scheduled *)
scheduled_database(type, dbname) ==
    list_scheduled_operation(type, [Filter EXCEPT !.dbname = dbname])

(* GET /maintenance/<dbname>/schema/<schema>/table/<table>/<type>/scheduled; *)
(* for the reindexes the name of the table is not passed on.               *)
scheduled_table(type, dbname, schema, table) ==
    list_scheduled_operation(type,
        [Filter EXCEPT !.dbname = dbname, !.schema = schema,
                       !.table = IF type = "reindex" THEN None ELSE table])

-----------------------------------------------------------------------------
(* The tasks and their workers, the server and the requests keep their     *)
(* types; a worker has a task that runs.                                   *)
TypeOK ==
    /\ accepting \in BOOLEAN /\ backends \subseteq Ids
    /\ \A id \in Ids :
          /\ worker[id] \in {"none", "connect", "execute", "running", "done", "failed"}
          /\ tasks[id] # None => /\ tasks[id].op \in Operations /\ tasks[id].dt \in Dates
                                 /\ \E s \in DOMAIN Status : tasks[id].status = Status[s]
          /\ worker[id] # "none" =>
                tasks[id] # None /\ tasks[id].status \in {Status.doing, Status.abort}
    /\ \A c \in Clients : req[c].pc \in {"idle", "check", "schedule", "look"}

(* An operation whose scheduling was answered with an identifier is the    *)
(* one known under that identifier, until the manager forgets it after its *)
(* end: it is neither lost nor taken for one of another type, on another   *)
(* object or at another date.  The exception is the mode of a vacuum: a    *)
(* VACUUM FULL asked for while the plain VACUUM of that date is known may  *)
(* be answered with the identifier of the plain one, and never run.        *)
AcceptedIsTask ==
    \A request \in accepted :
        LET id == TaskId(request.op, request.dt) IN
        Known(id) /\ SameButMode(tasks[id].op, request.op) /\ tasks[id].dt = request.dt

(* An operation is reported done only if its statement has completed on    *)
(* the server, whatever stops, kills and drops there were in the meantime. *)
DoneMeansRun ==
    \A id \in Ids : Known(id) /\ tasks[id].status = Status.done => id \in ran

(* "Scheduled operation not found" is never said of an operation that was  *)
(* known when the request came and all the while, of whatever type.        *)
CancelFinds ==
    \A c \in Clients :
        req[c].pc = "look" /\ req[c].looked = Len(lists) /\ req[c].there => req[c].found

(* A list misses nothing it is asked for: that of a database or of a table *)
(* shows every operation on it.  The vacuums and the analyzes of a table   *)
(* are shown alone, without those on a table of that name elsewhere.       *)
(* Nothing of the kind is said of the other two, which show more than the  *)
(* comment in the code has it ("Filter by db/schema/table if provided"):   *)
(* the list of a database is that of every database, and the reindexes of  *)
(* a table are those of its schema.  An operation that has ended is not    *)
(* shown as one that has not.                                              *)
Shown(list) == {entry.id : entry \in list}

ListsRight ==
    \A op \in {o \in Operations : o.table # None} :
        LET of_type == {id \in Ids : Known(id) /\ tasks[id].op.type = op.type}
            of_database == {id \in of_type : tasks[id].op.dbname = op.dbname}
            of_table == {id \in of_type : Relation(tasks[id].op) = Relation(op)}
            table == Shown(scheduled_table(op.type, op.dbname, op.schema, op.table))
            database == scheduled_database(op.type, op.dbname) IN
        /\ of_table \subseteq table
        /\ op.type # "reindex" => table \subseteq of_table
        /\ of_database \subseteq Shown(database)
        /\ \A entry \in database : Pending(entry.id) <=>
               entry.status \in {"todo", "scheduled", "queued", "doing", "abort"}

(* The operations live as OperationLife says; the liveness included: what  *)
(* waits begins or is stopped, and what has begun ends.                    *)
Phase(task) ==
    CASE task = None -> "none"
      [] task # None /\ task.status \in Waiting -> "waiting"
      [] task # None /\ task.status \in {Status.doing, Status.abort} -> "running"
      [] task # None /\ task.status = Status.done -> "done"
      [] OTHER -> "stopped"

Life == INSTANCE OperationLife WITH
            life <- [id \in Ids |-> Phase(tasks[id])],
            completed <- ran

LifeSpec == Life!Spec

================================================================================
