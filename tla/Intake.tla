-------------------------------- MODULE Intake --------------------------------
(***************************************************************************)
(* POST /api/executions: one user's requests to create an execution, with  *)
(* an Idempotency-Key or without, and to start a draft, up to the answer.  *)
(*                                                                         *)
(* A request looks its key up three times: before its transaction, inside  *)
(* it, and again when the transaction failed because another request was   *)
(* first.  Statements are steps; what a transaction wrote is seen by       *)
(* others when it commits, and locks what it wrote until then.  Of         *)
(* Postgres, the model has: row locks, the lock on the user's row, and the *)
(* partial unique index on (user, key).                                    *)
(***************************************************************************)
EXTENDS Naturals, Sequences, FiniteSets, FiniteSetsExt

CONSTANTS
  Requests,       \* requests to create an execution
  Starts,         \* requests to start a draft; there are as many drafts
  Keys,           \* values of the header
  Contents,       \* what is sent: the task as the browser writes it, the action, and
                  \* requireCodeChanges
  MaxConcurrent,  \* EXECUTION_MAX_CONCURRENT_PER_USER
  Ttl,            \* IDEMPOTENCY_TTL_MS
  MaxTime,        \* bound: the time that passes
  Faults,         \* which of FaultKinds may happen
  MaxFaults       \* bound: how many of them

FaultKinds ==
  { "queue",     \* an execution cannot be enqueued
    "tasks",     \* the user deletes the manual tasks
    "apiCrash" } \* the API process dies with its requests

NoKey == "none"
NoBody == [task |-> "none", action |-> "none", strict |-> FALSE]
TaskIds == [manual : BOOLEAN, id : STRING, feed : BOOLEAN]
Nobody == "nobody"

ASSUME IntakeAssumption ==
  /\ Requests \cap Starts = {} /\ IsFiniteSet(Starts)
  /\ NoKey \notin Keys /\ Nobody \notin Requests \cup Starts
  /\ \A c \in Contents : /\ c.task \in TaskIds /\ c.strict \in {"unset", "yes", "no"}
                          /\ c.action \in {"fix", "feature", "plan"}
  /\ MaxConcurrent \in Nat \ {0} /\ Ttl \in Nat /\ MaxTime \in Nat /\ MaxFaults \in Nat
  /\ Faults \subseteq FaultKinds

VARIABLES
  now,     \* the clock
  gone,    \* the manual tasks of the contents have been deleted
  rows,    \* the executions of the user, in the order of their creation
  req,     \* the requests
  cleared, \* rows whose key an open transaction has removed, and so locked
  lock,    \* the transaction that has locked the user's row
  faults

vars == <<now, gone, rows, req, cleared, lock, faults>>

All == Requests \cup Starts
\* A header, with the key it holds or is to hold.
Headers == [text : {"absent", "blank", "long"}, key : {NoKey}]
             \cup [text : {"plain", "padded"}, key : Keys]

\* normalizeIdempotencyKey
NormalizedKey(h) == IF h.text \in {"absent", "blank"} THEN NoKey ELSE h.key

\* resolveRequireCodeChanges
RequireCodeChanges(c) ==
  IF c.strict # "unset" THEN c.strict = "yes" ELSE c.action \in {"feature", "fix"}

\* A manual task is named by its id, or with a prefix as the feed does; both are one task.
NormalizedTask(task) == [task EXCEPT !.feed = task.manual]

\* Mutants: the hash of what was sent; the task and the action only.
HashAsSent(c) == [task |-> c.task, action |-> c.action, strict |-> c.strict = "yes"]

\* computeRequestHash
Hash(c) == [task |-> NormalizedTask(c.task), action |-> c.action,
            strict |-> RequireCodeChanges(c)]

\* What a request asks for: two ways to say it are one.
Meaning(c) ==
  <<c.task.manual, c.task.id, c.action,
    \/ c.strict = "yes"
    \/ c.strict = "unset" /\ c.action # "plan">>
NoMeaning == <<FALSE, "none", "none", FALSE>>

\* assertManualTaskOwnership
Owned(c) == c.task.manual => ~gone

\* row: the execution the request is about; history: owed, the execution its key named
\* when it came, and known, the executions there were when it was answered; asks, what it means.
NewRequest == [pc |-> "new", key |-> NoKey, body |-> NoBody, asks |-> NoMeaning, since |-> 0,
               row |-> 0, why |-> "none", answer |-> "none", owed |-> 0, known |-> 0]
Draft == [key |-> NoKey, was |-> NoKey, body |-> NoBody, asks |-> NoMeaning, at |-> 0, state |-> "draft"]

Init ==
  /\ now = 0 /\ gone = FALSE
  /\ rows = [n \in 1..Cardinality(Starts) |-> Draft]
  /\ req = [q \in All |-> NewRequest]
  /\ cleared = [q \in All |-> {}]
  /\ lock = Nobody
  /\ faults = 0

Fault(kind) == kind \in Faults /\ faults < MaxFaults /\ faults' = faults + 1

-----------------------------------------------------------------------------
At(q, pc) == req[q].pc = pc
GoTo(q, pc) == req' = [req EXCEPT ![q].pc = pc]
Answer(q, a, n) ==
  LET late == a \in {"limit", "error"}
  IN req' = [req EXCEPT ![q] = [@ EXCEPT
       !.pc = "answered", !.answer = a, !.row = n, !.body = NoBody, !.why = "none",
       !.since = IF late THEN req[q].since ELSE 0, !.known = IF late THEN Len(rows) ELSE 0]]

\* created_at < cutoff, the cutoff being the time the request came less the TTL.
ExpiredAtOnce(n, q) == rows[n].at + Ttl <= req[q].since           \* mutant
Expired(n, q) == rows[n].at + Ttl < req[q].since

\* The rows with the key of q, as q sees them.
Named(q) == {n \in DOMAIN rows \ cleared[q] : req[q].key # NoKey /\ rows[n].key = req[q].key}

\* The first statement of tryReuseIdempotentExecution removes the key of rows that are too
\* old.  It waits for the transactions that have them locked.
Old(q) == {n \in Named(q) : Expired(n, q)}
MayClear(q) == \A p \in All \ {q} : cleared[p] \cap Old(q) = {}
Forget(ns) == rows' = [n \in DOMAIN rows |->
                         IF n \in ns THEN [rows[n] EXCEPT !.key = NoKey] ELSE rows[n]]

\* Its second statement: the execution the key names is the answer, if the content is
\* the same; if none is named the request goes on as given.
Found(q) == {n \in Named(q) : ~Expired(n, q)}
Reuse(q) ==
  /\ Found(q) # {}
  /\ LET n == Max(Found(q)) IN
       Answer(q, IF rows[n].body = req[q].body THEN "reused" ELSE "mismatch",
                 IF rows[n].body = req[q].body THEN n ELSE 0)

Active == {n \in DOMAIN rows : rows[n].state = "active"}

\* The end of a transaction that failed: nothing of it remains.
Rollback(q) ==
  /\ cleared' = [cleared EXCEPT ![q] = {}]
  /\ lock' = IF lock = q THEN Nobody ELSE lock

-----------------------------------------------------------------------------
(* Requests to create an execution: before the transaction.                *)

\* A request comes.  A key that is too long and a task that is not there are refused
\* at once; without a key nothing is looked up.
Arrive(q) ==
  /\ At(q, "new")
  /\ \E h \in Headers, c \in Contents :
       LET k == NormalizedKey(h)
           same == {n \in DOMAIN rows : k # NoKey /\ rows[n].key = k
                                        /\ rows[n].asks = Meaning(c)
                                        /\ rows[n].at + Ttl >= now}
       IN IF h.text = "long" \/ ~Owned(c) THEN Answer(q, "refused", 0)
          ELSE req' = [req EXCEPT ![q] = [@ EXCEPT
                 !.pc = IF k = NoKey THEN "check" ELSE "clear",
                 !.key = k, !.since = now, !.owed = Max({0} \cup same),
                 !.body = IF k = NoKey THEN NoBody ELSE Hash(c),
                 !.asks = IF k = NoKey THEN NoMeaning ELSE Meaning(c)]]
  /\ UNCHANGED <<now, gone, rows, cleared, lock, faults>>

Clear(q) ==
  /\ At(q, "clear") \/ At(q, "againClear")
  /\ MayClear(q)
  /\ Forget(Old(q))
  /\ GoTo(q, IF At(q, "clear") THEN "find" ELSE "againFind")
  /\ UNCHANGED <<now, gone, cleared, lock, faults>>

Find(q) ==
  /\ At(q, "find")
  /\ Reuse(q) \/ (Found(q) = {} /\ GoTo(q, "check"))
  /\ UNCHANGED <<now, gone, rows, cleared, lock, faults>>

\* The repository is not the user's or not runnable, the token is missing; or all is well.
Check(q) ==
  /\ At(q, "check")
  /\ \/ GoTo(q, IF req[q].key = NoKey THEN "lock" ELSE "txClear")
     \/ Answer(q, "refused", 0)
  /\ UNCHANGED <<now, gone, rows, cleared, lock, faults>>

-----------------------------------------------------------------------------
(* The transaction.                                                        *)

TxClear(q) ==
  /\ At(q, "txClear") /\ MayClear(q)
  /\ cleared' = [cleared EXCEPT ![q] = Old(q)]
  /\ GoTo(q, "txFind")
  /\ UNCHANGED <<now, gone, rows, lock, faults>>

\* An answer ends the transaction; a mismatch is thrown and undoes it.
TxFind(q) ==
  /\ At(q, "txFind")
  /\ \/ Reuse(q) /\ Rollback(q)
        /\ Forget(IF req'[q].answer = "reused" THEN cleared[q] ELSE {})
     \/ Found(q) = {} /\ GoTo(q, "lock") /\ UNCHANGED <<rows, cleared, lock>>
  /\ UNCHANGED <<now, gone, faults>>

\* SELECT ... FOR UPDATE of the user's row.
FreeAlways == TRUE                                                \* mutant
Free == lock = Nobody
Lock(q) ==
  /\ At(q, "lock") /\ Free
  /\ lock' = q
  /\ GoTo(q, "count")
  /\ UNCHANGED <<now, gone, rows, cleared, faults>>

\* The transaction failed because of what another request did: with a key, and unless q
\* starts a draft, the key is looked up once more.
Failed(q, why) ==
  IF req[q].key = NoKey THEN Answer(q, why, 0)
  ELSE req' = [req EXCEPT ![q].pc = "againClear", ![q].why = why]

\* assertConcurrentExecutionLimitWithinTransaction: the count.
Count(q) ==
  /\ At(q, "count")
  /\ \/ /\ Cardinality(Active) < MaxConcurrent
        /\ GoTo(q, "write") /\ UNCHANGED <<cleared, lock>>
     \/ /\ Cardinality(Active) >= MaxConcurrent
        /\ Failed(q, "limit") /\ Rollback(q)
  /\ UNCHANGED <<now, gone, rows, faults>>

\* The insert, the update of rootExecutionId and the commit: nobody sees them apart.  The
\* index waits for a transaction that is removing the same key, and refuses the key of a
\* row that is there.
Insert(q) ==
  /\ At(q, "write") /\ q \in Requests
  /\ \A p \in All \ {q} : cleared[p] \cap Named(q) = {}
  /\ \/ /\ Named(q) = {}
        /\ rows' = Append([n \in DOMAIN rows |->
                             IF n \in cleared[q] THEN [rows[n] EXCEPT !.key = NoKey] ELSE rows[n]],
                          [key |-> req[q].key, was |-> req[q].key, body |-> req[q].body,
                           asks |-> req[q].asks, at |-> now, state |-> "active"])
        /\ req' = [req EXCEPT ![q].pc = "dispatch", ![q].row = Len(rows) + 1]
     \/ Named(q) # {} /\ Failed(q, "error") /\ UNCHANGED rows
  /\ Rollback(q)
  /\ UNCHANGED <<now, gone, faults>>

\* startDraftForUser: the conditional update and the commit.
StartDraft(q) ==
  /\ At(q, "write") /\ q \in Starts
  /\ LET n == req[q].row IN
       \/ /\ rows[n].state = "draft"
          /\ rows' = [rows EXCEPT ![n].state = "active"]
          /\ GoTo(q, "dispatch")
       \/ rows[n].state # "draft" /\ Answer(q, "refused", n) /\ UNCHANGED rows
  /\ Rollback(q)
  /\ UNCHANGED <<now, gone, faults>>

-----------------------------------------------------------------------------
(* After the transaction.                                                  *)

\* The last look-up: the execution that was first, or the error.
FindAgain(q) ==
  /\ At(q, "againFind")
  /\ Reuse(q) \/ (Found(q) = {} /\ Answer(q, req[q].why, 0))
  /\ UNCHANGED <<now, gone, rows, cleared, lock, faults>>

\* Enqueued; or the execution fails, its key kept, or is a draft again.
Dispatch(q) ==
  /\ At(q, "dispatch")
  /\ LET n == req[q].row IN
       \/ Answer(q, "created", n) /\ UNCHANGED <<rows, faults>>
       \/ /\ Fault("queue")
          /\ rows' = [rows EXCEPT ![n].state = IF q \in Starts THEN "draft" ELSE "ended"]
          /\ Answer(q, "error", n)
  /\ UNCHANGED <<now, gone, cleared, lock>>

-----------------------------------------------------------------------------
(* Requests to start a draft, the worker, the clock, the API process.      *)

\* startDraftForUser up to its transaction.
AskStart(q) ==
  /\ At(q, "new")
  /\ \E n \in DOMAIN rows :
       /\ rows[n].state = "draft"
       /\ req' = [req EXCEPT ![q].row = n, ![q].pc = "lock"]
  /\ UNCHANGED <<now, gone, rows, cleared, lock, faults>>

\* An execution is settled, by its run or by the recovery of the worker.
Settle(n) ==
  /\ rows[n].state = "active"
  /\ \A q \in All : At(q, "dispatch") => req[q].row # n
  /\ rows' = [rows EXCEPT ![n].state = "ended"]
  /\ UNCHANGED <<now, gone, req, cleared, lock, faults>>

Tick ==
  /\ now < MaxTime /\ now' = now + 1
  /\ UNCHANGED <<gone, rows, req, cleared, lock, faults>>

DeleteTasks ==
  /\ Fault("tasks")
  /\ ~gone /\ gone' = TRUE
  /\ UNCHANGED <<now, rows, req, cleared, lock>>

\* Open transactions are rolled back by the database.
ApiCrash ==
  /\ Fault("apiCrash")
  /\ req' = [q \in All |-> IF req[q].pc \in {"new", "answered"} THEN req[q]
                           ELSE [NewRequest EXCEPT !.pc = "answered", !.answer = "lost"]]
  /\ cleared' = [q \in All |-> {}] /\ lock' = Nobody
  /\ UNCHANGED <<now, gone, rows>>

RequestStep(q) ==
  \/ Clear(q) \/ Find(q) \/ Check(q) \/ TxClear(q) \/ TxFind(q) \/ Lock(q) \/ Count(q)
  \/ Insert(q) \/ StartDraft(q) \/ FindAgain(q) \/ Dispatch(q)

Next ==
  \/ \E q \in Requests : Arrive(q)
  \/ \E q \in Starts : AskStart(q)
  \/ \E q \in All : RequestStep(q)
  \/ \E n \in DOMAIN rows : Settle(n)
  \/ Tick \/ DeleteTasks \/ ApiCrash

Spec == Init /\ [][Next]_vars

-----------------------------------------------------------------------------
(* Properties.                                                             *)

\* backend/README.md:78 and the plan of the feature: one key makes one execution within
\* the TTL, however the requests that carry it overlap and whatever becomes of them.
KeyNamesOneExecution ==
  \A m, n \in DOMAIN rows :
    m < n /\ rows[m].was # NoKey /\ rows[m].was = rows[n].was => rows[n].at > rows[m].at + Ttl

\* The user never has more pending and running executions than the limit, whether they
\* were created or started from drafts.
LimitKept == Cardinality(Active) <= MaxConcurrent

\* A repeated request gets the execution of the first one, however it is written, and
\* also when the repository or the token is gone by then or the limit is reached, unless
\* the manual task it is about is gone when it comes; a request that means something else
\* never does; and no request is told that the limit is reached while the execution it
\* asks for is there.
RetryGetsTheExecution ==
  \A q \in Requests :
    At(q, "answered") /\ req[q].answer # "lost" =>
      /\ req[q].owed # 0 /\ rows[req[q].owed].key = req[q].key =>
           req[q].answer = "reused" /\ req[q].row = req[q].owed
      /\ req[q].answer = "reused" => rows[req[q].row].asks = req[q].asks
      /\ req[q].answer \in {"limit", "error"} /\ req[q].row = 0 =>
           \A n \in 1..req[q].known :
             req[q].key # NoKey /\ rows[n].key = req[q].key /\ rows[n].asks = req[q].asks =>
               Expired(n, q)
=============================================================================
