----------------------------- MODULE FifoQueue -----------------------------
(***************************************************************************)
(* What a multi-producer multi-consumer queue promises its callers: every  *)
(* call takes effect at one instant between its invocation and its return, *)
(* enqueue appends, dequeue removes the oldest element, and dequeue        *)
(* answers NULL only when the queue is empty at that instant.              *)
(* ThreadedDataStructures/ThreadedQueue.c is shown to implement it.        *)
(***************************************************************************)
EXTENDS Sequences

CONSTANTS Threads,   \* the threads that call the queue
          Values,    \* the pointers that may be enqueued
          NULL       \* the answer of a dequeue that finds the queue empty

VARIABLES items,     \* the queue, oldest element first
          op         \* the call each thread is in: its stage and its value

vars == <<items, op>>

Init == /\ items = <<>>
        /\ op = [t \in Threads |-> [stage |-> "idle", val |-> NULL]]

InvokeEnqueue(t, v) ==
    /\ op[t].stage = "idle"
    /\ op' = [op EXCEPT ![t] = [stage |-> "enq", val |-> v]]
    /\ UNCHANGED items

InvokeDequeue(t) ==
    /\ op[t].stage = "idle"
    /\ op' = [op EXCEPT ![t] = [stage |-> "deq", val |-> NULL]]
    /\ UNCHANGED items

Enqueue(t) ==
    /\ op[t].stage = "enq"
    /\ items' = Append(items, op[t].val)
    /\ op' = [op EXCEPT ![t] = [stage |-> "done", val |-> NULL]]

Dequeue(t) ==
    /\ op[t].stage = "deq"
    /\ items # <<>>
    /\ items' = Tail(items)
    /\ op' = [op EXCEPT ![t] = [stage |-> "done", val |-> Head(items)]]

DequeueEmpty(t) ==
    /\ op[t].stage = "deq"
    /\ items = <<>>
    /\ op' = [op EXCEPT ![t] = [stage |-> "done", val |-> NULL]]
    /\ UNCHANGED items

Return(t) ==
    /\ op[t].stage = "done"
    /\ op' = [op EXCEPT ![t] = [stage |-> "idle", val |-> op[t].val]]
    /\ UNCHANGED items

Next == \E t \in Threads :
          \/ \E v \in Values : InvokeEnqueue(t, v)
          \/ InvokeDequeue(t)
          \/ Enqueue(t) \/ Dequeue(t) \/ DequeueEmpty(t)
          \/ Return(t)

Spec == Init /\ [][Next]_vars
=============================================================================
