-------------------------- MODULE ExecutionStream --------------------------
(***************************************************************************)
(* The output and the events of one execution, from the CLI process to the *)
(* browser.  A chunk of output goes two ways: through the write queue of   *)
(* the run into the column output, and through the queue of the stream hub *)
(* of the same process into execution_events and on to the subscribers of  *)
(* that process.  A browser is always a subscriber of the API process; the *)
(* CLI runs in the API process (inline driver) or in the worker (redis).   *)
(* After the run, the result may be published, retried, or handed to the   *)
(* review gate, which goes on in the API process.                          *)
(***************************************************************************)
EXTENDS Naturals, Sequences, FiniteSets, SequencesExt, Functions

CONSTANTS
  Homes,        \* where the CLI may run
  Clients,      \* browsers
  MaxOutput,    \* outputMaxBytes, in chunks
  MaxTries,     \* MAX_SEQUENCE_RETRIES
  MaxChunks,    \* bound: chunks of output in all
  StreamFaults, \* which of StreamFaultKinds may happen
  MaxEvents     \* bound: faults, timeouts, retries without a diff, and reviews

Procs == {"api", "worker"}
StreamFaultKinds ==
  { "database",   \* a statement fails
    "network" }   \* a request or a stream of the browser breaks

ASSUME StreamAssumption ==
  /\ Homes \subseteq Procs /\ Homes # {}
  /\ MaxOutput \in Nat /\ MaxTries \in Nat \ {0}
  /\ MaxChunks \in Nat /\ MaxEvents \in Nat
  /\ StreamFaults \subseteq StreamFaultKinds

VARIABLES
  home,     \* the process of the CLI
  row,      \* executions: status, output
  run,      \* the latest run, up to the end of its exit handler
  post,     \* hub: the events each process has published, oldest first
  at,       \* hub: where append is with the first of them
  log,      \* execution_events, by sequence
  client,   \* what each browser shows, and its request
  dropped,  \* history: an event was given up
  faulty,   \* history: a fault happened
  events    \* how many of MaxEvents there were

streamvars == <<home, row, run, post, at, log, client, dropped, faulty, events>>
hub == <<post, at, log, dropped>>

Event == events < MaxEvents /\ events' = events + 1
StreamFault(kind) == kind \in StreamFaults /\ Event /\ faulty' = TRUE
Turn == Event /\ UNCHANGED faulty
budget == <<faulty, events>>

\* Events.  Those that change nothing a browser shows of output and status
\* (publication, review) are one.
Chunk(i) == [type |-> "chunk", of |-> i]
Status(s) == [type |-> "status", of |-> s]
Ended(s) == [type |-> "end", of |-> s]
Note == [type |-> "note", of |-> "gate"]

Terminal == {"completed", "failed"}
Idle == [pc |-> "idle", seq |-> 0, tries |-> 0]
NoView == [pc |-> "off", row |-> [status |-> "none", out |-> <<>>], done |-> FALSE,
           upto |-> 0, replay |-> <<>>, status |-> "none", out |-> <<>>,
           last |-> 0, calm |-> FALSE]

StreamInit ==
  /\ home \in Homes
  /\ row = [status |-> "running", out |-> <<>>]
  /\ run = [pc |-> "cli", n |-> 0, buf |-> <<>>, cut |-> FALSE, writes |-> <<>>,
            result |-> "completed",
            by |-> home, notices |-> {}]
  /\ post = [p \in Procs |-> <<>>] /\ at = [p \in Procs |-> Idle]
  /\ log = <<>>
  /\ client = [c \in Clients |-> NoView]
  /\ dropped = FALSE /\ faulty = FALSE /\ events = 0

\* publish
Posted(p, e) == post' = [post EXCEPT ![p] = Append(@, e)]

-----------------------------------------------------------------------------
(* The run.                                                                *)

\* onStdout, onStderr: the chunk joins the write queue and the hub's queue.
Emit ==
  /\ run.pc \in {"cli", "stopping"} /\ run.n < MaxChunks
  /\ run' = [run EXCEPT !.n = @ + 1,
                        !.writes = IF run.cut THEN @ ELSE Append(@, run.n + 1)]
  /\ Posted(home, Chunk(run.n + 1))
  /\ UNCHANGED <<home, row, at, log, client, dropped, budget>>

\* appendOutput: the next write of the queue, or what happens when its update fails:
\* the next one makes up for it.
WriteOutput ==
  /\ run.writes # <<>>
  /\ LET full == run.cut \/ Len(run.buf) >= MaxOutput
         buf == IF full THEN run.buf ELSE Append(run.buf, Head(run.writes))
     IN /\ run' = [run EXCEPT !.writes = Tail(@), !.buf = buf, !.cut = full]
        /\ \/ /\ row' = IF run.cut THEN row ELSE [row EXCEPT !.out = buf]
              /\ UNCHANGED budget
           \/ StreamFault("database") /\ UNCHANGED row
  /\ UNCHANGED <<home, hub, client>>

\* handleTimeout tells the browsers before the process is gone.
Timeout ==
  /\ run.pc = "cli" /\ Turn
  /\ run' = [run EXCEPT !.pc = "stopping"]
  /\ Posted(home, Status("failed"))
  /\ UNCHANGED <<home, row, at, log, client, dropped>>

Exit ==
  /\ run.pc \in {"cli", "stopping"}
  /\ \E s \in IF run.pc = "stopping" THEN {"failed"} ELSE Terminal :
       run' = [run EXCEPT !.pc = "exit", !.result = s]
  /\ UNCHANGED <<home, row, hub, client, budget>>

\* handleExit, once the queue of writes is empty.  A completed row is not final yet.
WriteStatus ==
  /\ run.pc = "exit" /\ run.writes = <<>>
  /\ row' = [row EXCEPT !.status = run.result]
  /\ run' = [run EXCEPT !.pc = "final", !.by = home]
  /\ UNCHANGED <<home, hub, client, budget>>

\* finalizeCompletedExecution, finalizeNonCompletedExecution: published, or not.
Finalize ==
  /\ run.pc = "final"
  /\ \E s \in Terminal :
       /\ run.result = "failed" => s = "failed"
       /\ row' = [row EXCEPT !.status = s]
       /\ Posted(run.by, Ended(s))
  /\ run' = [run EXCEPT !.pc = "over"]
  /\ UNCHANGED <<home, at, log, client, dropped, budget>>

\* What a handler will publish once it gets there.
Noticed(e) == run.notices \cup {[by |-> run.by, event |-> e]}
PublishNotice ==
  /\ \E x \in run.notices :
       /\ run' = [run EXCEPT !.notices = @ \ {x}]
       /\ Posted(x.by, x.event)
  /\ UNCHANGED <<home, row, at, log, client, dropped, budget>>

\* handleStrictNoDiff resets the row and dispatches it; the run this leads to may
\* start before the old handler publishes the status pending.
RetryNoDiff ==
  /\ run.pc = "final" /\ run.result = "completed" /\ Turn
  /\ row' = [status |-> "pending", out |-> <<>>]
  /\ run' = [run EXCEPT !.pc = "again", !.notices = Noticed(Status("pending"))]
  /\ UNCHANGED <<home, hub, client>>
Restart ==
  /\ run.pc = "again"
  /\ row' = [row EXCEPT !.status = "running"]
  /\ run' = [run EXCEPT !.pc = "cli", !.buf = row.out, !.cut = FALSE]
  /\ Posted(home, Status("running"))
  /\ client' = [c \in Clients |-> [client[c] EXCEPT !.calm = @ /\ run.notices = {}]]
  /\ UNCHANGED <<home, at, log, dropped, budget>>

\* handleImplementationCompletion: a review was started, the row is running again.
StartGate ==
  /\ run.pc = "final" /\ row.status = "completed" /\ Turn
  /\ row' = [row EXCEPT !.status = "running"]
  /\ run' = [run EXCEPT !.pc = "gate", !.notices = Noticed(Note)]
  /\ UNCHANGED <<home, hub, client>>

\* The review passes, or a decision ends it: by a child or the sweep, in the worker,
\* or by a request (applyReviewDecision).
Resolve ==
  /\ run.pc = "gate"
  /\ \E p \in {home, "api"} : run' = [run EXCEPT !.pc = "final", !.by = p]
  /\ UNCHANGED <<home, row, hub, client, budget>>

-----------------------------------------------------------------------------
(* The hub: one promise chain per execution and process.                   *)

First(p) == Head(post[p])
Dropped(p) ==
  /\ post' = [post EXCEPT ![p] = Tail(@)]
  /\ at' = [at EXCEPT ![p] = Idle]
  /\ dropped' = TRUE
\* Mutant: an event that meets a conflict is published again.
ConflictRequeued(p) ==
  /\ post' = [post EXCEPT ![p] = Append(Tail(@), Head(@))]
  /\ at' = [at EXCEPT ![p] = Idle]
  /\ UNCHANGED dropped

LastTry(tries) == tries + 1 = MaxTries

\* A conflict: read the last sequence again, up to MaxTries times.
Conflict(p) ==
  IF LastTry(at[p].tries) THEN Dropped(p)
  ELSE /\ at' = [at EXCEPT ![p] = [pc |-> "idle", seq |-> 0, tries |-> @.tries + 1]]
       /\ UNCHANGED <<post, dropped>>

LastSequence == Len(log)

\* append: the last sequence ...
ReadLast(p) ==
  /\ post[p] # <<>> /\ at[p].pc = "idle"
  /\ at' = [at EXCEPT ![p].pc = "insert", ![p].seq = LastSequence + 1]
  /\ UNCHANGED <<home, row, run, post, log, client, dropped, budget>>

\* ... and the insert, which the unique index may refuse.
Insert(p) ==
  /\ at[p].pc = "insert"
  /\ IF at[p].seq \in DOMAIN log THEN Conflict(p) /\ UNCHANGED log
     ELSE /\ log' = [i \in DOMAIN log \cup {at[p].seq} |->
                      IF i = at[p].seq THEN First(p) ELSE log[i]]
          /\ at' = [at EXCEPT ![p].pc = "deliver"]
          /\ UNCHANGED <<post, dropped>>
  /\ UNCHANGED <<home, row, run, client, budget>>

\* Any other error of append: the chain's catch logs it.
AppendFails(p) ==
  /\ at[p].pc = "insert" /\ StreamFault("database")
  /\ Dropped(p)
  /\ UNCHANGED <<home, row, run, log, client>>

-----------------------------------------------------------------------------
(* The browser (useExecutionStream).                                       *)

\* Mutant: events are taken whatever their sequence.
SeesEverything(v, e, seq) ==
  [v EXCEPT !.last = seq,
            !.out = IF e.type = "chunk" THEN Append(@, e.of) ELSE @,
            !.status = IF e.type \in {"status", "end"} THEN e.of ELSE @]

\* handleEvent: what v shows after the event e of number seq.
Sees(v, e, seq) ==
  IF seq <= v.last THEN v
  ELSE [v EXCEPT !.last = seq,
                 !.out = IF e.type = "chunk" THEN Append(@, e.of)
                         ELSE IF e = Status("pending") THEN <<>> ELSE @,
                 !.status = IF e.type \in {"status", "end"} THEN e.of ELSE @]

\* The snapshot: it replaces what is shown.
SeesSnapshot(v) ==
  [v EXCEPT !.status = v.row.status, !.out = v.row.out,
            !.last = IF v.upto > @ THEN v.upto ELSE @]

\* Mutant: the terminal event does not complete the subjects.
AfterEventOpen(v, e, seq) == Sees(v, e, seq)

\* A live event; the terminal one completes the stream.
AfterEvent(v, e, seq) ==
  [Sees(v, e, seq) EXCEPT !.pc = IF e.type = "end" THEN "off" ELSE @]

\* The stored event goes to the subscribers of the process that published it.
Deliver(p) ==
  /\ at[p].pc = "deliver"
  /\ client' = [c \in Clients |-> IF p = "api" /\ client[c].pc = "open"
                                  THEN AfterEvent(client[c], First(p), at[p].seq)
                                  ELSE client[c]]
  /\ post' = [post EXCEPT ![p] = Tail(@)]
  /\ at' = [at EXCEPT ![p] = Idle]
  /\ UNCHANGED <<home, row, run, log, dropped, budget>>

\* isExecutionActive, asked of a row that looks finished: the memory of the API process.
ActiveHere == home = "api" /\ run.pc # "over"

\* completeImmediately
Finished == row.status \in Terminal /\ ~ActiveHere

\* streamForUser reads the row.  The page starts from nothing; a caller that sends
\* afterSequence goes on after the last event it has.
Connect(c, last) ==
  /\ client[c].pc = "off"
  /\ client' = [client EXCEPT ![c] =
       [NoView EXCEPT !.pc = IF last > 0 THEN "replay" ELSE "last",
                      !.last = last, !.row = row, !.done = Finished]]
  /\ UNCHANGED <<home, row, run, hub, budget>>
Open(c) == Connect(c, 0)
Resume(c) == client[c].last > 0 /\ Connect(c, client[c].last)

\* listAfterSequence
ReadReplay(c) ==
  /\ client[c].pc = "replay"
  /\ client' = [client EXCEPT ![c].pc = "last",
                  ![c].replay = [i \in {j \in DOMAIN log : j > client[c].last} |-> log[i]]]
  /\ UNCHANGED <<home, row, run, hub, budget>>
\* getLastSequence
ReadUpto(c) ==
  /\ client[c].pc = "last"
  /\ client' = [client EXCEPT ![c].pc = "subscribe", ![c].upto = LastSequence]
  /\ UNCHANGED <<home, row, run, hub, budget>>

Still == run.writes = <<>> /\ run.notices = {} /\ \A p \in Procs : post[p] = <<>>

\* The replayed events in order of their numbers.
Replayed(v) ==
  LET OneMore(u, i) == IF i \in DOMAIN v.replay THEN Sees(u, v.replay[i], i) ELSE u
  IN FoldLeft(OneMore, SeesSnapshot(v), [i \in 1..LastSequence |-> i])

\* createStream: registered, the snapshot, the replayed events.  History: calm, if all
\* of it was read in a quiet moment that is not over.
Subscribe(c) ==
  LET v == client[c]
  IN /\ v.pc = "subscribe"
     /\ client' = [client EXCEPT ![c] =
          [Replayed(v) EXCEPT !.pc = IF v.done THEN "off" ELSE "open",
             !.row = NoView.row, !.done = FALSE, !.upto = 0, !.replay = <<>>,
             !.calm = Still /\ run.pc # "final" /\ v.row = row
                     /\ v.done = Finished /\ v.upto = LastSequence]]
     /\ UNCHANGED <<home, row, run, hub, budget>>

\* The page is left, or the stream breaks (nothing reconnects it).
Leave(c) ==
  /\ client[c].pc \in {"open", "polling"}
  /\ client' = [client EXCEPT ![c] = [NoView EXCEPT !.last = client[c].last]]
  /\ UNCHANGED <<home, row, run, hub, budget>>

\* The request for the stream fails: startPolling.
FallBack(c) ==
  /\ client[c].pc \in {"replay", "last", "subscribe"} /\ StreamFault("network")
  /\ client' = [client EXCEPT ![c] = [NoView EXCEPT !.pc = "polling"]]
  /\ UNCHANGED <<home, row, run, hub>>
PollStatus(c) ==
  /\ client[c].pc = "polling"
  /\ client' = [client EXCEPT ![c].status = row.status, ![c].out = row.out,
                  ![c].pc = IF row.status \in Terminal THEN "off" ELSE @]
  /\ UNCHANGED <<home, row, run, hub, budget>>

-----------------------------------------------------------------------------
\* runCleanup, long after the end: the events and the output go.
Cleanup ==
  /\ run.pc = "over" /\ Still
  /\ log' = <<>> /\ row' = [row EXCEPT !.out = <<>>]
  /\ client' = [c \in Clients |-> [client[c] EXCEPT !.calm = FALSE]]
  /\ UNCHANGED <<home, run, post, at, dropped, budget>>

HandlerStep ==
  WriteOutput \/ WriteStatus \/ Finalize \/ RetryNoDiff \/ PublishNotice \/ Restart \/ StartGate
HubStep(p) == ReadLast(p) \/ Insert(p) \/ AppendFails(p) \/ Deliver(p)
RequestStep(c) == ReadReplay(c) \/ ReadUpto(c) \/ Subscribe(c)

StreamNext ==
  \/ Emit \/ Timeout \/ Exit \/ Resolve \/ Cleanup
  \/ HandlerStep
  \/ \E p \in Procs : HubStep(p)
  \/ \E c \in Clients : RequestStep(c) \/ Open(c) \/ Resume(c) \/ Leave(c)
                        \/ FallBack(c) \/ PollStatus(c)

\* Node runs what is ready, the CLI exits and the review resolves (both have timeouts).
Fairness ==
  /\ WF_streamvars(Exit) /\ WF_streamvars(HandlerStep) /\ WF_streamvars(Resolve)
  /\ \A p \in Procs : WF_streamvars(HubStep(p))
  /\ \A c \in Clients : WF_streamvars(RequestStep(c)) /\ WF_streamvars(PollStatus(c))

StreamSpec == StreamInit /\ [][StreamNext]_streamvars /\ Fairness

-----------------------------------------------------------------------------
(* Properties.                                                             *)

\* Type invariant.
StreamTypeOK ==
  /\ home \in Homes
  /\ row.status \in {"pending", "running"} \cup Terminal
  /\ run.pc \in {"cli", "stopping", "exit", "final", "again", "gate", "over"}
  /\ run.n \in 0..MaxChunks /\ Len(run.buf) <= MaxOutput
  /\ \A p \in Procs : /\ at[p].pc \in {"idle", "insert", "deliver"}
                      /\ at[p].tries < MaxTries
                      /\ at[p].pc # "idle" => post[p] # <<>>
  /\ DOMAIN log = 1..Cardinality(DOMAIN log)
  /\ \A c \in Clients : client[c].pc \in {"off", "replay", "last", "subscribe", "open",
                                          "polling"}
  /\ events \in 0..MaxEvents

\* The two ways of the output agree for the browser.  When no event was given up, the
\* CLI runs in the API process, and the stream was opened in a quiet moment, the page
\* shows the status of the row and its output, or more of it than the column can hold,
\* at every later quiet moment, however often it was left, resumed and opened before.
FaithfulView ==
  home = "api" /\ ~dropped /\ ~faulty /\ Still /\ run.pc \in {"cli", "gate", "over"} =>
    \A c \in Clients :
      client[c].calm =>
        /\ client[c].status = row.status
        /\ IsPrefix(row.out, client[c].out)
        /\ ~run.cut => client[c].out = row.out

\* The events of the execution are stored once each, in the order their process
\* published them and with contiguous numbers, for two processes whose look-ups and
\* inserts of the next number interleave.
Log == INSTANCE EventLog WITH
         Events <- {Chunk(i) : i \in 1..MaxChunks}
                     \cup {Status(s) : s \in {"pending", "running", "failed"}}
                     \cup {Ended(s) : s \in Terminal} \cup {Note},
         waiting <- [p \in Procs |-> IF at[p].pc = "deliver" THEN Tail(post[p]) ELSE post[p]]
EventLogPromise == Log!Spec

\* A stream opened in a quiet moment of an execution that runs in the API process is
\* ended by the server, unless an event was given up.
StreamEnds ==
  [](home = "api" /\ ~dropped) =>
    \A c \in Clients : client[c].pc = "open" /\ client[c].calm ~> client[c].pc # "open"
=============================================================================
