--------------------------- MODULE ExecutionQueue ---------------------------
(***************************************************************************)
(* The Redis queue between the API process and the worker: three lists     *)
(* (waiting, being processed, dead-lettered) and the worker's consumer     *)
(* loop over them.  One action per Redis command, because the worker may   *)
(* die, and the connection may fail, before, during and after each one.    *)
(*                                                                         *)
(* An entry is compared by its text: two requests of one execution in the  *)
(* same millisecond put two equal entries in the list.                     *)
(***************************************************************************)
EXTENDS Naturals, Sequences, FiniteSets, SequencesExt

CONSTANTS
  Execs,         \* execution ids
  Garbage,       \* the text of an entry parsePayload does not accept
  Stamps,        \* queuedAt: milliseconds
  MaxAttempts,   \* EXECUTION_QUEUE_MAX_ATTEMPTS
  MaxEntries,    \* bound: entries pushed by producers
  Faults,        \* which of FaultKinds may happen
  MaxFaults      \* bound: how many of them

FaultKinds ==
  { "crash",      \* the worker dies
    "stop",       \* the worker is shut down gracefully
    "refused",    \* a Redis command fails and is not executed
    "lost" }      \* a Redis command is executed, its reply is lost

ASSUME QueueAssumption ==
  /\ MaxAttempts \in Nat \ {0} /\ MaxEntries \in Nat /\ MaxFaults \in Nat
  /\ Garbage \notin Execs
  /\ Faults \subseteq FaultKinds

VARIABLES
  main,       \* the list <queue>
  processing, \* the list <queue>:processing
  dead,       \* the list <queue>:dead
  worker,     \* "booting", "up", "stopping" (shouldStop) or "down"
  pc,         \* where the consumer loop is
  item,       \* the entry it holds
  accepted,   \* history: entries pushed for each job
  abandoned,  \* history: an error made this worker let go of an entry it had moved
  faults

vars == <<main, processing, dead, worker, pc, item, accepted, abandoned, faults>>
lists == <<main, processing, dead>>
history == <<accepted, abandoned>>

Jobs == Execs \cup {Garbage}
Entry == [job : Jobs, at : Stamps, attempts : 0..MaxAttempts]
NoEntry == [job |-> Garbage, at |-> 0, attempts |-> 0]
Steps == {"top", "wait", "run", "ack", "fail", "bury", "failAck", "return"}

Init ==
  /\ main = <<>> /\ processing = <<>> /\ dead = <<>>
  /\ worker = "down" /\ pc = "top" /\ item = NoEntry
  /\ accepted = [j \in Jobs |-> 0]
  /\ abandoned = FALSE /\ faults = 0

Fault(kind) == kind \in Faults /\ faults < MaxFaults /\ faults' = faults + 1

-----------------------------------------------------------------------------
(* Producers.                                                              *)

Total(f) == FoldFunction(LAMBDA a, b : a + b, 0, f)

\* enqueue: rPush of a new entry.  Garbage comes from outside the code.
Push(j, t) ==
  /\ Total(accepted) < MaxEntries
  /\ main' = Append(main, [job |-> j, at |-> t, attempts |-> 0])
  /\ accepted' = [accepted EXCEPT ![j] = @ + 1]
  /\ UNCHANGED <<processing, dead, worker, pc, item, abandoned, faults>>

-----------------------------------------------------------------------------
(* The consumer loop.                                                      *)

\* A Redis command of the consumer: answered, executed with its reply lost, or
\* refused.  Once the worker is stopping its client has been closed (onModuleDestroy
\* of the queue service runs concurrently), so every command may be refused.
Command(executed, onReply, onError) ==
  \/ executed /\ pc' = onReply /\ UNCHANGED faults
  \/ executed /\ pc' = onError /\ Fault("lost")
  \/ UNCHANGED lists /\ pc' = onError /\ Fault("refused")
  \/ UNCHANGED lists /\ pc' = onError /\ worker = "stopping" /\ UNCHANGED faults

Alive == worker \in {"up", "stopping"}
At(step) == Alive /\ pc = step

\* while (!shouldStop()): BLMOVE is sent.
Poll ==
  /\ worker = "up" /\ pc = "top"
  /\ pc' = "wait"
  /\ UNCHANGED <<lists, worker, item, history, faults>>

\* BLMOVE times out, or its connection fails before it moved anything.
PollEnds ==
  /\ At("wait")
  /\ \/ main = <<>> /\ UNCHANGED faults
     \/ Fault("refused")
     \/ worker = "stopping" /\ UNCHANGED faults
  /\ pc' = "top"
  /\ UNCHANGED <<lists, worker, item, history>>

\* Mutant: BLPOP, the entry is in no list while it is processed.
PopHead == main' = Tail(main) /\ UNCHANGED <<processing, dead>>
\* BLMOVE main processing LEFT RIGHT.
MoveHead ==
  main' = Tail(main) /\ processing' = Append(processing, Head(main)) /\ UNCHANGED dead

\* The head is moved; parsePayload accepts it and onExecution is called, or not.
Take ==
  /\ At("wait") /\ main # <<>>
  /\ MoveHead
  /\ \/ /\ item' = Head(main)
        /\ pc' = IF Head(main).job = Garbage THEN "bury" ELSE "run"
        /\ UNCHANGED <<abandoned, faults>>
     \/ /\ Fault("lost")
        /\ pc' = "top" /\ abandoned' = TRUE
        /\ UNCHANGED item
  /\ UNCHANGED <<worker, accepted>>

\* onExecution resolves or throws.
Run ==
  /\ At("run")
  /\ pc' \in {"ack", "fail"}
  /\ UNCHANGED <<lists, worker, item, history, faults>>

\* LREM processing 1 item.
RemoveItem == processing' = RemoveFirst(processing, item) /\ UNCHANGED <<main, dead>>

\* acknowledgeProcessingItem, inside the try of onExecution: its error is a job failure.
Acknowledge ==
  /\ At("ack")
  /\ Command(RemoveItem, "top", "fail")
  /\ UNCHANGED <<worker, item, history>>

Exhausted == item.attempts + 1 >= MaxAttempts

Retry == [item EXCEPT !.attempts = @ + 1]

\* handleJobFailure: rPush for another attempt, or to the dead-letter list.
PushRetry ==
  \/ ~Exhausted /\ main' = Append(main, Retry) /\ UNCHANGED <<processing, dead>>
  \/ Exhausted /\ dead' = Append(dead, Retry) /\ UNCHANGED <<main, processing>>
Fail ==
  /\ At("fail")
  /\ Command(PushRetry, "failAck", "return")
  /\ UNCHANGED <<worker, item, history>>

\* handleMalformedPayload: rPush to the dead-letter list.
PushGarbage == dead' = Append(dead, item) /\ UNCHANGED <<main, processing>>
Bury ==
  /\ At("bury")
  /\ Command(PushGarbage, "failAck", "return")
  /\ UNCHANGED <<worker, item, history>>

\* handleJobFailure, handleMalformedPayload: the acknowledgement after the rPush.
AcknowledgeFailure ==
  /\ At("failAck")
  /\ Command(RemoveItem, "top", "return")
  /\ UNCHANGED <<worker, item, history>>

\* returnProcessingItemToQueue: a script, so LREM and LPUSH are one step; its own
\* error ends in the outer catch.
MoveBack ==
  /\ UNCHANGED dead
  /\ IF Contains(processing, item)
       THEN processing' = RemoveFirst(processing, item) /\ main' = <<item>> \o main
       ELSE UNCHANGED <<main, processing>>
Return ==
  /\ At("return")
  /\ Command(MoveBack, "top", "top")
  /\ abandoned' = (abandoned \/ (Contains(processing, item) /\ processing' = processing))
  /\ UNCHANGED <<worker, item, accepted>>

-----------------------------------------------------------------------------
(* The worker process.                                                     *)

\* onModuleDestroy of the worker: the loop ends at its next check.
Stop ==
  /\ worker = "up" /\ worker' = "stopping"
  /\ Fault("stop")
  /\ UNCHANGED <<lists, pc, item, history>>

\* The loop has ended, or the process dies wherever it is.
Down ==
  /\ \/ worker = "stopping" /\ pc = "top" /\ UNCHANGED faults
     \/ worker # "down" /\ Fault("crash")
  /\ worker' = "down" /\ pc' = "top" /\ item' = NoEntry
  /\ UNCHANGED <<lists, history>>

\* The process boots again.
Boot ==
  /\ worker = "down" /\ worker' = "booting" /\ abandoned' = FALSE
  /\ UNCHANGED <<lists, pc, item, accepted, faults>>

\* requeueProcessingQueue: LMOVE processing main RIGHT LEFT until it is empty.
\* An error ends the bootstrap of the process.
Requeue ==
  /\ worker = "booting" /\ processing # <<>>
  /\ main' = <<Last(processing)>> \o main
  /\ processing' = Front(processing)
  /\ \/ UNCHANGED <<worker, faults>>
     \/ Fault("lost") /\ worker' = "down"
  /\ UNCHANGED <<dead, pc, item, history>>

\* A worker whose flag processingRecoveryEnabled is off skips the requeue.
RequeuedSkipped == TRUE                                          \* mutant
Requeued == processing = <<>>

\* LMOVE answers nil: onModuleInit is done, consume starts.
Ready ==
  /\ worker = "booting" /\ Requeued
  /\ worker' = "up"
  /\ UNCHANGED <<lists, pc, item, history, faults>>

-----------------------------------------------------------------------------
ConsumerStep ==
  \/ Poll \/ PollEnds \/ Take \/ Run \/ Acknowledge
  \/ Fail \/ Bury \/ AcknowledgeFailure \/ Return

Next ==
  \/ \E j \in Jobs, t \in Stamps : Push(j, t)
  \/ ConsumerStep
  \/ Stop \/ Down \/ Boot \/ Requeue \/ Ready

Spec == Init /\ [][Next]_vars

(* The loop and the bootstrap go on, and a stopped worker is started again. *)
FairSpec == Spec /\ WF_vars(ConsumerStep) /\ WF_vars(Boot) /\ WF_vars(Requeue \/ Ready)
                 /\ WF_vars(worker = "stopping" /\ Down)

-----------------------------------------------------------------------------
(* Properties.                                                             *)

\* Type invariant of the lists and of the consumer.
TypeOK ==
  /\ main \in Seq(Entry) /\ processing \in Seq(Entry) /\ dead \in Seq(Entry)
  /\ worker \in {"booting", "up", "stopping", "down"}
  /\ pc \in Steps
  /\ item \in Entry \cup {NoEntry}
  /\ accepted \in [Jobs -> 0..MaxEntries]
  /\ abandoned \in BOOLEAN /\ faults \in 0..MaxFaults

EntriesOf(list, j) == Cardinality({n \in DOMAIN list : list[n].job = j})
Owed(j) == EntriesOf(main, j) + EntriesOf(processing, j)

\* The queue drains: whatever crashes, shutdowns and failing commands the worker meets,
\* every entry is acknowledged or dead-lettered in the end.  Only an entry whose BLMOVE lost
\* its reply, or whose return failed as well, waits for the next boot.
Drains == <>[](main = <<>> /\ (processing = <<>> \/ abandoned))

\* The lists implement the delivery promise: a copy of an entry is deleted only when
\* its run has resolved or another copy is known to be stored.
Delivery ==
  INSTANCE JobDelivery WITH
    owed <- [j \in Jobs |-> Owed(j)],
    parked <- [j \in Jobs |-> EntriesOf(dead, j)],
    spare <- IF Alive /\ pc \in {"ack", "failAck"} THEN {item.job} ELSE {}
DeliveryPromise == Delivery!Spec
=============================================================================
