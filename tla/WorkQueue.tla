------------------------------- MODULE WorkQueue -------------------------------
(***************************************************************************)
(* The rate limited work queue of client-go, as controller.go uses it: one *)
(* value per queue and one operator per method.  Each method holds the     *)
(* queue's lock, so that it is one step.                                   *)
(***************************************************************************)
EXTENDS Naturals, Sequences

\* queue: keys in the order of their arrival; dirty: keys to be processed;
\* processing: keys given out and not done; later: keys whose delay after an
\* error is not over; down: shut down.
EmptyQueue == [queue |-> <<>>, dirty |-> {}, processing |-> {}, later |-> {}, down |-> FALSE]

QueueRecords(keys) == [queue : Seq(keys), dirty : SUBSET keys, processing : SUBSET keys,
                       later : SUBSET keys, down : BOOLEAN]

Queued(q, k) == \E i \in 1..Len(q.queue) : q.queue[i] = k

\* A key that is being processed is not queued before it is done.
\* Mutant: it is.
AddM(q, k) ==
    IF q.down \/ k \in q.dirty THEN q
    ELSE [q EXCEPT !.dirty = @ \cup {k}, !.queue = Append(@, k)]
Add(q, k) ==
    IF q.down \/ k \in q.dirty THEN q
    ELSE [q EXCEPT !.dirty = @ \cup {k},
                   !.queue = IF k \in q.processing THEN @ ELSE Append(@, k)]

\* Get returns the head; it waits while the queue is empty and not shut down.
Take(q) ==
    [q EXCEPT !.queue = Tail(@), !.dirty = @ \ {Head(q.queue)},
              !.processing = @ \cup {Head(q.queue)}]

\* A key that became dirty in the meantime is queued again.
\* Mutant: it is not.
DoneM(q, k) == [q EXCEPT !.processing = @ \ {k}]
Done(q, k) ==
    [q EXCEPT !.processing = @ \ {k},
              !.queue = IF k \in q.dirty THEN Append(@, k) ELSE @]

\* AddRateLimited: the delay is never zero.
AddRateLimited(q, k) == IF q.down THEN q ELSE [q EXCEPT !.later = @ \cup {k}]

\* The waiting loop ends with the queue: what still waits is dropped.
CanRipen(q, k) == k \in q.later /\ ~q.down

\* Mutant: the key is dropped.
RipenM(q, k) == [q EXCEPT !.later = @ \ {k}]
Ripen(q, k) == Add([q EXCEPT !.later = @ \ {k}], k)

ShutDown(q) == [q EXCEPT !.down = TRUE]
=============================================================================
