------------------------------- MODULE Processes ------------------------------
(***************************************************************************)
(* The lists of backends the activity plugin shows                         *)
(* (plugins/activity/functions.py and process.py): PostgreSQL tells the    *)
(* pids, then /proc is read twice for each, while backends end and the     *)
(* system gives their pids to others.  A reading is the process it was     *)
(* made of: only whose numbers are shown matters here, not which ones.     *)
(***************************************************************************)
EXTENDS Integers

(* Instants of a listing, for one row: the stat and the io of the          *)
(* constructor, and after the sleep the io and the stat of the rates.      *)
First == 1
FirstIo == 2
SecondIo == 3
Second == 4
Instants == First .. Second

Nobody == "nobody"      \* no process has the pid, or /proc cannot be read
NotAvailable == "N/A"

(* life[t] is the process that has the pid at t: the backend, then nobody, *)
(* then another.                                                           *)
Ages == [backend |-> 1, nobody |-> 2, other |-> 3]
Lives == {life \in [Instants -> DOMAIN Ages] :
              \A t \in Instants \ {Second} : Ages[life[t]] <= Ages[life[t + 1]]}

(* The io of a process of another user cannot be read. *)
parse_proc_stat(life, t) == life[t]
parse_proc_io(life, t, foreign) == IF foreign /\ life[t] = "other" THEN Nobody ELSE life[t]

(* A rate is <<of whom at first, of whom at last>>. *)
Raised == <<>>
NoRate == <<NotAvailable>>

(* Bug variant: the second reading is not tested. *)
rate_untested(first, second) ==
    IF Nobody \in {first, second} THEN Raised ELSE <<first, second>>

(* The second reading is tested, the first is not: its None is subtracted. *)
rate(first, second) ==
    CASE second = Nobody -> NoRate
      [] second # Nobody /\ first = Nobody -> Raised
      [] OTHER -> <<first, second>>

io_usage(life, foreign) ==
    rate(parse_proc_io(life, FirstIo, foreign), parse_proc_io(life, SecondIo, foreign))
cpu_usage(life) == rate(parse_proc_stat(life, First), parse_proc_stat(life, Second))
mem_usage(life, mem_total) ==
    IF mem_total /\ parse_proc_stat(life, First) # Nobody
    THEN parse_proc_stat(life, First) ELSE NotAvailable

(* The row shown for a pid, or none: what raises leaves it out, and so     *)
(* does a null duration, that of a backend that has run nothing yet.  The  *)
(* state of the process is of the reading its memory is of.                *)
shown(proc, mem_total) ==
    LET io == io_usage(proc.life, proc.foreign)
        cpu == cpu_usage(proc.life) IN
    IF ~proc.queried \/ Raised \in {io, cpu} THEN {}
    ELSE {[io |-> io, cpu |-> cpu, memory |-> mem_usage(proc.life, mem_total),
           iow |-> mem_usage(proc.life, TRUE)]}

-----------------------------------------------------------------------------
(* The three listings, over the backends and the locks of the server.  An *)
(* advisory lock has neither relation nor transaction.                     *)
Pids == 1 .. 2
Lock == [pid : Pids, on : {"relation", "transaction", "advisory"}, granted : BOOLEAN]

listing(pids, procs) == [pid \in pids |-> shown(procs[pid], TRUE)]

get_activity(backends, agent, procs) == listing(backends \ {agent}, procs)

get_activity_waiting(locks, agent, procs) ==
    listing({l.pid : l \in {k \in locks : ~k.granted}} \ {agent}, procs)

get_activity_blocking(locks, procs) ==
    listing({l.pid : l \in {k \in locks : /\ k.granted /\ k.on # "advisory"
                                          /\ \E b \in locks : ~b.granted /\ b.on = k.on}},
            procs)

-----------------------------------------------------------------------------
Alive(life) == \A t \in Instants : life[t] = "backend"
TakenOver(life) == life[Second] = "other"

(* A backend that lives through a listing is shown with its own numbers;   *)
(* one that has ended is shown without rates, and left out only if another *)
(* process has taken its pid; numbers of two processes are mixed only      *)
(* then.                                                                   *)
RowRight(life, foreign) ==
    LET proc == [life |-> life, foreign |-> foreign, queried |-> TRUE]
        rows == get_activity(Pids, 2, [pid \in Pids |-> proc])[1] IN
    /\ Alive(life) =>
           rows = {[io |-> <<"backend", "backend">>, cpu |-> <<"backend", "backend">>,
                    memory |-> "backend", iow |-> "backend"]}
    /\ rows = {} => TakenOver(life) /\ Nobody \in {life[First], life[FirstIo]}
    /\ \A row \in rows : ~TakenOver(life) =>
           {row.io, row.cpu} \subseteq {NoRate, <<"backend", "backend">>}

(* Were the backends listed as blocking terminated, the others would wait *)
(* for nothing but advisory locks.                                         *)
KillingFrees(locks) ==
    LET procs == [pid \in Pids |-> [life |-> [t \in Instants |-> "backend"],
                                   foreign |-> FALSE, queried |-> TRUE]]
        blocking == DOMAIN get_activity_blocking(locks, procs)
        left == {l \in locks : l.pid \notin blocking} IN
    \A pid \in DOMAIN get_activity_waiting(left, 0, procs) :
        \A l \in left, held \in left :
            l.pid = pid /\ ~l.granted /\ held.granted /\ held.on = l.on => l.on = "advisory"

================================================================================
