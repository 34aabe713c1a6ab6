---------------------------- MODULE FGQueueTest ----------------------------
(***************************************************************************)
(* The test program of ThreadedDataStructures/ThreadedQueue.c (from :155): *)
(* main spawns producers and consumers of one queue, joins the producers,  *)
(* joins the consumers, asserts that the counter is 0 and destroys the     *)
(* queue.  The queue calls are the actions of FGQueue.                     *)
(***************************************************************************)
EXTENDS FGQueue

CONSTANTS Producers, Consumers,   \* the threads main spawns
          ItemsPerProducer        \* ITEMS_PER_PRODUCER

ASSUME FGQueueTestAssumption ==
    /\ Threads = Producers \cup Consumers
    /\ Producers \cap Consumers = {}
    /\ Consumers # {} /\ ItemsPerProducer \in Nat

Total == Cardinality(Producers) * ItemsPerProducer

VARIABLES
    main,       \* what main does next
    thr,        \* where each thread is in its own loop
    made,       \* the loop counter i of each producer
    prod,       \* prod of each consumer
    produced_total, consumed_total,
    heap        \* the payload blocks (Values) that are allocated

threadVars == <<thr, made, prod>>
testVars == <<main, threadVars, produced_total, consumed_total, heap>>
allVars  == <<vars, testVars>>

TestInit ==
    /\ Init
    /\ main = "spawn"
    /\ thr = [t \in Threads |-> "unborn"]
    /\ made = [t \in Producers |-> 0]
    /\ prod = [t \in Consumers |-> 0]
    /\ produced_total = 0 /\ consumed_total = 0
    /\ heap = {}

Become(t, from, to) == thr[t] = from /\ thr' = [thr EXCEPT ![t] = to]

EndProcess ==
    /\ status' = "aborted"
    /\ UNCHANGED <<head, tail, head_lock, tail_lock, size, memory, locals, chain>>

-----------------------------------------------------------------------------
\* producer_thread

Produce(t) ==
    /\ made[t] < ItemsPerProducer
    /\ Become(t, "top", "call")
    /\ \E p \in Values \ heap : heap' = heap \cup {p} /\ CallEnqueue(t, p)
    /\ UNCHANGED <<main, made, prod, produced_total, consumed_total>>

ProduceAbort(t) ==
    /\ thr[t] = "top" /\ made[t] < ItemsPerProducer /\ Values \subseteq heap
    /\ EndProcess /\ UNCHANGED testVars

Produced(t) ==
    /\ pc[t] = "idle"
    /\ Become(t, "call", "top")
    /\ made' = [made EXCEPT ![t] = @ + 1]
    /\ produced_total' = produced_total + 1
    /\ UNCHANGED <<vars, main, prod, consumed_total, heap>>

ProducerExit(t) ==
    /\ made[t] = ItemsPerProducer
    /\ Become(t, "top", "exited")
    /\ UNCHANGED <<vars, main, made, prod, produced_total, consumed_total, heap>>

-----------------------------------------------------------------------------
\* consumer_thread

Consume(t) ==
    /\ Become(t, "top", "call")
    /\ CallDequeue(t)
    /\ UNCHANGED <<main, made, prod, produced_total, consumed_total, heap>>

\* free(v)
Free(t) ==
    /\ pc[t] = "idle" /\ val[t] # NULL
    /\ Become(t, "call", "count")
    /\ heap' = heap \ {val[t]}
    /\ UNCHANGED <<vars, main, made, prod, produced_total, consumed_total>>

\* One atomic fetch_add and the test of its answer.
Count(t) ==
    /\ Become(t, "count", IF consumed_total + 1 >= Total THEN "exited" ELSE "top")
    /\ consumed_total' = consumed_total + 1
    /\ UNCHANGED <<vars, main, made, prod, produced_total, heap>>

\* The queue was empty: the two counters are read one after the other.
ReadProduced(t) ==
    /\ pc[t] = "idle" /\ val[t] = NULL
    /\ Become(t, "call", "check")
    /\ prod' = [prod EXCEPT ![t] = produced_total]
    /\ UNCHANGED <<vars, main, made, produced_total, consumed_total, heap>>

\* Mutants: the end of production alone ends a consumer; the test of the
\* counters is off by one.
ReadConsumedNot(t) ==
    /\ Become(t, "check", IF prod[t] >= Total THEN "exited" ELSE "top")
    /\ prod' = [prod EXCEPT ![t] = 0]
    /\ UNCHANGED <<vars, main, made, produced_total, consumed_total, heap>>
ReadConsumedAbove(t) ==
    /\ Become(t, "check", IF prod[t] >= Total /\ consumed_total > Total THEN "exited" ELSE "top")
    /\ prod' = [prod EXCEPT ![t] = 0]
    /\ UNCHANGED <<vars, main, made, produced_total, consumed_total, heap>>

ReadConsumed(t) ==
    /\ Become(t, "check", IF prod[t] >= Total /\ consumed_total >= Total THEN "exited" ELSE "top")
    /\ prod' = [prod EXCEPT ![t] = 0]
    /\ UNCHANGED <<vars, main, made, produced_total, consumed_total, heap>>

-----------------------------------------------------------------------------
\* main

\* thrd_create, all producers before the first consumer.
Spawn(t) ==
    /\ main = "spawn"
    /\ t \in Consumers => \A p \in Producers : thr[p] # "unborn"
    /\ Become(t, "unborn", "top")
    /\ UNCHANGED <<vars, main, made, prod, produced_total, consumed_total, heap>>

\* thrd_create fails: main returns 1 and the process ends with its threads.
SpawnFails ==
    /\ main = "spawn" /\ \E t \in Threads : thr[t] = "unborn"
    /\ EndProcess /\ UNCHANGED testVars

MainGoto(from, to) ==
    /\ main = from /\ main' = to
    /\ UNCHANGED <<vars, threadVars, produced_total, consumed_total, heap>>

Spawned       == MainGoto("spawn", "join_producers") /\ \A t \in Threads : thr[t] # "unborn"
JoinProducers == MainGoto("join_producers", "join_consumers") /\ \A t \in Producers : thr[t] = "exited"
JoinConsumers == MainGoto("join_consumers", "assert") /\ \A t \in Consumers : thr[t] = "exited"
AssertEmpty   == MainGoto("assert", "destroy")
Finish        == main = "destroy" /\ Destroy /\ UNCHANGED testVars

Main == \/ \E t \in Threads : Spawn(t)
        \/ SpawnFails \/ Spawned \/ JoinProducers \/ JoinConsumers \/ AssertEmpty \/ Finish

ProducerStep(t) == \/ Produce(t) \/ ProduceAbort(t) \/ Produced(t) \/ ProducerExit(t)
                   \/ EnqueueStep(t) /\ UNCHANGED testVars
ConsumerStep(t) == \/ Consume(t) \/ Free(t) \/ Count(t) \/ ReadProduced(t) \/ ReadConsumed(t)
                   \/ DequeueStep(t) /\ UNCHANGED testVars

Run(A) == status = "ready" /\ A

TestNext == \/ Run(Main)
            \/ \E t \in Producers : Run(ProducerStep(t))
            \/ \E t \in Consumers : Run(ConsumerStep(t))
            \/ status # "ready" /\ UNCHANGED allVars

TestSpec == TestInit /\ [][TestNext]_allVars

\* A thread that can run is scheduled, and a lock that stays free is taken;
\* nothing says which waiter gets a lock that is taken again and again.
FairTestSpec ==
    /\ TestSpec
    /\ WF_allVars(Run(Main))
    /\ \A t \in Producers : WF_allVars(Run(ProducerStep(t)))
    /\ \A t \in Consumers : WF_allVars(Run(ConsumerStep(t)))
-----------------------------------------------------------------------------
\* Every variable of the test program stays in its domain.
TestTypeOK ==
    /\ TypeOK
    /\ main \in {"spawn", "join_producers", "join_consumers", "assert", "destroy"}
    /\ thr \in [Threads -> {"unborn", "top", "call", "count", "check", "exited"}]
    /\ made \in [Producers -> 0 .. ItemsPerProducer]
    /\ prod \in [Consumers -> 0 .. Total]
    /\ produced_total \in 0 .. Total /\ consumed_total \in 0 .. Total
    /\ heap \subseteq Values

\* Where a payload block can be: with the producer that has not linked it yet,
\* in the queue, or with the consumer that dequeued it and has not freed it.
Holds(t) ==
    CASE StageOf(pc[t]) = "enq" -> {val[t]}
      [] t \in Consumers /\ thr[t] = "call" /\ StageOf(pc[t]) = "done" -> {Op[t].val} \ {NULL}
      [] t \in Consumers /\ thr[t] = "call" /\ pc[t] = "idle" -> {val[t]} \ {NULL}
      [] OTHER -> {}
Queued == {Contents[i] : i \in 1 .. Len(chain) - 1}

\* Every allocated payload has exactly one owner, so it is freed once, and the
\* queue passes each one on ("Caller transfers ownership", :79, :104).
ExclusiveOwnership ==
    status = "ready" =>
        /\ heap = Queued \cup UNION {Holds(t) : t \in Threads}
        /\ \A i, j \in 1 .. Len(chain) - 1 : Contents[i] = Contents[j] => i = j
        /\ \A t \in Threads : Holds(t) \cap Queued = {}
        /\ \A t, u \in Threads : Holds(t) \cap Holds(u) # {} => t = u

\* The owners, with every variable in its domain.
OwnershipInv == TestTypeOK /\ ExclusiveOwnership

\* A consumer leaves its loop only when every item of every producer has been
\* dequeued and freed, even while a producer has yet to count its last item
\* (:200 reads one counter, :203-205 the two counters at different moments).
ExitOnlyWhenDrained ==
    \A t \in Consumers :
        thr[t] = "exited" =>
            /\ heap = {} /\ consumed_total = Total
            /\ \A p \in Producers : made[p] + (IF thr[p] = "call" THEN 1 ELSE 0) = ItemsPerProducer

\* After the joins the counter that is off during calls is 0 (:273), although
\* decrements may have come before their increments, and what is destroyed
\* "should only be dummy in a correct test" (:67).
JoinsLeaveNothing ==
    /\ main = "assert" => size = 0
    /\ main = "destroy" => Len(chain) = 1

\* Nobody waits for ever: unless malloc or thrd_create fails, which ends the
\* process, every consumer sees the end of the work and main gets its joins.
Termination == <>(status # "ready")
=============================================================================
