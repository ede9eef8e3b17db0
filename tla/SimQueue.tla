------------------------------ MODULE SimQueue ------------------------------
(***************************************************************************)
(* POST /simulate and the queue behind it (main.py): a request that finds  *)
(* Logstash unhealthy, or cannot hand it the log, is queued with the       *)
(* configuration of its slot and answered 202; a task on the same event    *)
(* loop forwards what is queued once Logstash is back, restoring slots     *)
(* that are gone.  Recoveries, evictions and other allocations change the  *)
(* slot table meanwhile (SlotAllocation and SlotRecovery model them; here  *)
(* they are what the queue has to live with).                              *)
(***************************************************************************)
EXTENDS Naturals, Sequences, FiniteSetsExt, SequencesExt

CONSTANTS NumSlots, Contents,
          MaxQueue,     \* maxlen of _simulation_queue
          MaxRequests,  \* bound: requests queued in one behaviour
          None

ASSUME QueueAssumption == NumSlots \in Nat \ {0} /\ MaxQueue \in Nat \ {0} /\ MaxRequests \in Nat
ASSUME NoneAssumption == None \notin Contents

Slots == 1..NumSlots

VARIABLES
    ls,       \* "up"; "stunned": healthy, but the input does not answer; "down"
    book,     \* slot table: content booked, or None
    files,    \* content whose slotN-filterM pipelines are filed, or None
    posting,  \* simulate requests between the health check and their answer
    queue,    \* _simulation_queue
    queued,   \* number of items ever queued
    qpc,      \* where _process_simulation_queue is
    item      \* queued_item

qvars == <<ls, book, files, posting, queue, queued, qpc, item>>

\* A simulate request: its slot and the content its sender allocated there.
Requests == [slot : Slots, want : Contents]

\* A queued item: a serial number, the request, and slot_config (the content read
\* from the table when it was queued; None if the slot was not booked).
Items == [id : 1..MaxRequests, slot : Slots, want : Contents, config : Contents \cup {None}]
NoItem == [id |-> 0, slot |-> 0, want |-> None, config |-> None]

QInit ==
    /\ ls = "down"
    /\ book = [s \in Slots |-> None] /\ files = [s \in Slots |-> None]
    /\ posting = {} /\ queue = <<>> /\ queued = 0
    /\ qpc = "wait" /\ item = NoItem

-----------------------------------------------------------------------------
\* simulate_log

\* Mutant: list.append, with no maxlen.
PushUnbounded(it) == queue' = Append(queue, it)

\* deque.append: a full deque drops its oldest item.
Push(it) == queue' = Append(IF Len(queue) = MaxQueue THEN Tail(queue) ELSE queue, it)

Enqueue(r) ==
    /\ queued < MaxRequests
    /\ Push([id |-> queued + 1, slot |-> r.slot, want |-> r.want, config |-> book[r.slot]])
    /\ queued' = queued + 1

\* A sender that allocated slot s asks while Logstash is unhealthy.
SimulateUnhealthy(s) ==
    /\ ls = "down" /\ book[s] # None
    /\ Enqueue([slot |-> s, want |-> book[s]])
    /\ UNCHANGED <<ls, book, files, posting, qpc, item>>

\* Logstash is healthy: wait for the bus, then post, with awaits in between.
Simulate(s) ==
    /\ ls # "down" /\ book[s] # None
    /\ posting' = posting \cup {[slot |-> s, want |-> book[s]]}
    /\ UNCHANGED <<ls, book, files, queue, queued, qpc, item>>

Posted(r) ==
    /\ r \in posting /\ ls = "up"
    /\ posting' = posting \ {r}
    /\ UNCHANGED <<ls, book, files, queue, queued, qpc, item>>

\* Three attempts failed: queued, and a recovery is triggered, which restarts
\* Logstash with a bare harness unless it is denied or fails.
PostFails(r, recovers) ==
    /\ r \in posting /\ ls # "up"
    /\ posting' = posting \ {r}
    /\ Enqueue(r)
    /\ IF recovers
       THEN ls' = "down" /\ book' = [s \in Slots |-> None] /\ files' = book'
       ELSE UNCHANGED <<ls, book, files>>
    /\ UNCHANGED <<qpc, item>>

-----------------------------------------------------------------------------
\* _process_simulation_queue

\* Healthy: its time is noted, and ten seconds have to pass; unhealthy: forgotten.
SeesHealthy ==
    /\ qpc = "wait" /\ ls # "down" /\ qpc' = "warm"
    /\ UNCHANGED <<ls, book, files, posting, queue, queued, item>>
SeesUnhealthy ==
    /\ qpc = "warm" /\ ls = "down" /\ qpc' = "wait"
    /\ UNCHANGED <<ls, book, files, posting, queue, queued, item>>

\* Mutant: the healthy test is inverted.
BeginWhenUnhealthy ==
    /\ qpc = "warm" /\ ls = "down" /\ queue # <<>> /\ qpc' = "pop"
    /\ UNCHANGED <<ls, book, files, posting, queue, queued, item>>

\* Ten seconds later, with the input port answering.
Begin ==
    /\ qpc = "warm" /\ ls = "up" /\ queue # <<>> /\ qpc' = "pop"
    /\ UNCHANGED <<ls, book, files, posting, queue, queued, item>>

\* allocate_slot for content c: the slot that has it, a free one, or the oldest.
Allocated(c, s) ==
    \/ book[s] = c
    \/ /\ \A r \in Slots : book[r] # c
       /\ book[s] = None /\ \A r \in Slots : r < s => book[r] # None
    \/ \A r \in Slots : book[r] \notin {c, None}

\* The slot of the item is gone: allocate_slot books some slot, and the pipelines are
\* put under the slot of the item whatever slot that was.
Restore(it) ==
    \E s \in Slots :
        /\ Allocated(it.config, s)
        /\ book' = [book EXCEPT ![s] = it.config]
        /\ files' = [files EXCEPT ![s] = IF book[s] \in {it.config, None} THEN @ ELSE None,
                                  ![it.slot] = it.config]
        /\ qpc' = "verify"

Pop ==
    /\ qpc = "pop" /\ queue # <<>>
    /\ item' = Head(queue) /\ queue' = Tail(queue)
    /\ IF item'.config # None /\ book[item'.slot] = None
       THEN Restore(item')
       ELSE qpc' = "post" /\ UNCHANGED <<book, files>>
    /\ UNCHANGED <<ls, posting, queued>>

Emptied ==
    /\ qpc = "pop" /\ queue = <<>> /\ qpc' = "warm"
    /\ UNCHANGED <<ls, book, files, posting, queue, queued, item>>

Restored ==
    /\ qpc = "verify" /\ qpc' = "post"
    /\ UNCHANGED <<ls, book, files, posting, queue, queued, item>>

\* The pipelines did not load: they are deleted, the booking stays, the item is lost.
RestoreFails ==
    /\ qpc = "verify" /\ qpc' = "pop"
    /\ files' = [files EXCEPT ![item.slot] = None]
    /\ item' = NoItem
    /\ UNCHANGED <<ls, book, posting, queue, queued>>

Forwarded ==
    /\ qpc = "post" /\ ls = "up" /\ qpc' = "pop"
    /\ item' = NoItem
    /\ UNCHANGED <<ls, book, files, posting, queue, queued>>

\* Mutant: the failed item goes to the back.
PushBack(it) == queue' = Append(queue, it)

\* Mutant: the failed item is not put back.
PushNothing(it) == UNCHANGED queue

\* deque.appendleft: a full deque drops its newest item.
PushFront(it) == queue' = <<it>> \o (IF Len(queue) = MaxQueue THEN Front(queue) ELSE queue)

ForwardFails ==
    /\ qpc = "post" /\ ls # "up" /\ qpc' = "warm"
    /\ PushFront(item)
    /\ item' = NoItem
    /\ UNCHANGED <<ls, book, files, posting, queued>>

-----------------------------------------------------------------------------
\* Everybody else.

LogstashTurns(to) ==
    /\ ls # to /\ ls' = to
    /\ UNCHANGED <<book, files, posting, queue, queued, qpc, item>>

\* Another allocation books and files a content; an eviction takes one away.
Allocate(c, s) ==
    /\ Allocated(c, s) /\ book[s] # c
    /\ book' = [book EXCEPT ![s] = c] /\ files' = [files EXCEPT ![s] = c]
    /\ UNCHANGED <<ls, posting, queue, queued, qpc, item>>
EvictSlot(s) ==
    /\ book[s] # None
    /\ book' = [book EXCEPT ![s] = None] /\ files' = [files EXCEPT ![s] = None]
    /\ UNCHANGED <<ls, posting, queue, queued, qpc, item>>

Recover ==
    /\ book' = [s \in Slots |-> None] /\ files' = [s \in Slots |-> None]
    /\ ls' = "down"
    /\ UNCHANGED <<posting, queue, queued, qpc, item>>

-----------------------------------------------------------------------------
ProcessorStep ==
    \/ SeesHealthy \/ SeesUnhealthy \/ Begin \/ Pop \/ Emptied
    \/ Restored \/ RestoreFails \/ Forwarded \/ ForwardFails

QNext ==
    \/ ProcessorStep
    \/ \E s \in Slots : SimulateUnhealthy(s) \/ Simulate(s) \/ EvictSlot(s)
    \/ \E r \in posting : Posted(r) \/ \E b \in BOOLEAN : PostFails(r, b)
    \/ \E to \in {"up", "stunned", "down"} : LogstashTurns(to)
    \/ \E c \in Contents, s \in Slots : Allocate(c, s)
    \/ Recover

QSpec == QInit /\ [][QNext]_qvars

\* The queue processor is a task of an event loop that keeps running.
QFairSpec == QSpec /\ WF_qvars(ProcessorStep)

-----------------------------------------------------------------------------
\* Properties.

\* Every variable has its type; the queue keeps within its maxlen.
QTypeOK ==
    /\ ls \in {"up", "stunned", "down"}
    /\ book \in [Slots -> Contents \cup {None}] /\ files \in [Slots -> Contents \cup {None}]
    /\ posting \in SUBSET Requests
    /\ queue \in Seq(Items) /\ Len(queue) <= MaxQueue
    /\ queued \in 0..MaxRequests
    /\ qpc \in {"wait", "warm", "pop", "verify", "post"}
    /\ item \in Items \cup {NoItem}

\* Whatever is dropped at either end and put back at the front, requests stay in the
\* order they were queued and none is there twice; the one taken out is the oldest.
QueueInOrder ==
    LET line == IF item = NoItem THEN queue ELSE <<item>> \o queue IN
    \A i, j \in 1..Len(line) : i < j => line[i].id < line[j].id

\* A request answered 202 leaves the agent only forwarded, pushed out of a full
\* queue, or because its slot could not be restored.
Waiting == {queue[i].id : i \in 1..Len(queue)} \cup ({item.id} \ {0})
NoQuietLoss ==
    [][Waiting \subseteq Waiting' \/ Len(queue) = MaxQueue
         \/ (qpc = "post" /\ ls = "up") \/ (qpc = "verify" /\ files'[item.slot] = None)]_qvars

\* While Logstash stays up the queue is worked off.
QueueDrains == []<>(queue = <<>> \/ ls # "up")

=============================================================================
