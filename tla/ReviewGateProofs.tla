--------------------------- MODULE ReviewGateProofs ---------------------------
(***************************************************************************)
(* Theorems about ReviewGate for any number of children, requests, cycles, *)
(* attempts and events: its types, that one process works in the checkout, *)
(* that the outcome of a cycle stands, and that only what was let pass is  *)
(* published.                                                              *)
(***************************************************************************)
EXTENDS ReviewGate, FiniteSetTheorems, SequenceTheorems, WellFoundedInduction, TLAPS

Bare == {"gate", "saveRecord", "completion", "linkFix", "markBlocked", "dispatch", "publish",
         "redispatch", "cancel"}
Statements ==
  {Do(op) : op \in Bare} \cup {Rec(s) : s \in RecordStatuses}
  \cup {Par(s, o, g) : s \in Statuses, o \in States, g \in Gates}
  \cup {Save(r) : r \in {"review", "remediation"}}
  \cup {Finish(s, o) : s \in Statuses, o \in States}

Deciders == Requests \cup {"sweep"}
LetPass == {"not_applicable", "review_passed", "decision_continue", "timeout_continue"}

\* Which statements an actor performs.
Allowed(a, x) ==
  /\ x.op \in {"gate", "saveRecord", "completion"} => a \notin Deciders
  /\ x.op \in {"linkFix", "markBlocked", "cancel"} => a \in Requests
  /\ x.op = "completion" => a \in Children
  /\ x.op = "save" => (x.role = "remediation" <=> a \in Requests)
  /\ x.op = "record" =>
       \/ a \in Deciders /\ x.status \in {"decision_continue", "decision_block"}
       \/ a \in Children /\ x.status \in {"completed_pass", "awaiting_decision", "failed",
                                          "completed_fail"}
  /\ x.op = "parent" /\ x.gate = "awaiting_decision" => a \in Children

\* Which statement comes after which.
Follows(x, y) ==
  \/ /\ x.op = "record" /\ y.op = "parent"
     /\ x.status = "awaiting_decision" <=> y.gate = "awaiting_decision"
  \/ x.op = "record" /\ x.status = "completed_fail" /\ y.op = "gate"
  \/ x.op = "save" /\ x.role = "review" /\ y.op = "saveRecord"
  \/ x.op = "save" /\ x.role = "remediation" /\ y.op = "linkFix"
  \/ x.op \in {"saveRecord", "linkFix"} /\ y.op = "parent" /\ y.gate # "awaiting_decision"
  \/ x.op = "parent" /\ y.op = "dispatch" /\ x.gate \in {"review_running", "remediation_running"}
  \/ x.op = "parent" /\ y.op = "publish" /\ x.gate \in LetPass \cup {"decision_block"}
  \/ x.op = "parent" /\ y.op = "markBlocked" /\ x.gate = "decision_block"

\* Only where no cycle was left, a script publishes what was not let pass.
Passed(s) == \A i \in 1..(Len(s) - 1) : s[i + 1].op = "publish" => s[i].gate \in LetPass
Proper(a, s) ==
  /\ s \in Seq(Statements)
  /\ \A i \in 1..Len(s) : Allowed(a, s[i])
  /\ \A i \in 1..(Len(s) - 1) : Follows(s[i], s[i + 1])

\* What is the statement of a script.
LEMMA Fields ==
  /\ \A op : Do(op).op = op
  /\ \A s : Rec(s).op = "record" /\ Rec(s).status = s
  /\ \A s, o, g : /\ Par(s, o, g).op = "parent" /\ Par(s, o, g).status = s
                  /\ Par(s, o, g).orch = o /\ Par(s, o, g).gate = g
  /\ \A r : Save(r).op = "save" /\ Save(r).role = r
  /\ \A s, o : /\ Finish(s, o).op = "finish" /\ Finish(s, o).status = s
               /\ Finish(s, o).orch = o
  BY DEF Do, Rec, Par, Save, Finish

\* A statement has what its kind needs.
LEMMA StatementType ==
  ASSUME NEW x \in Statements
  PROVE  /\ x.op \in Bare \cup {"record", "parent", "save", "finish"}
         /\ x.op = "record" => x.status \in RecordStatuses
         /\ x.op = "parent" => x.status \in Statuses /\ x.orch \in States /\ x.gate \in Gates
         /\ x.op = "save" => x.role \in {"review", "remediation"}
         /\ x.op = "finish" => x.status \in Statuses /\ x.orch \in States
<1>1. CASE \E op \in Bare : x = Do(op)
  BY <1>1, Fields DEF Bare
<1>2. CASE \E s \in RecordStatuses : x = Rec(s)
  BY <1>2, Fields DEF Bare
<1>3. CASE \E s \in Statuses, o \in States, g \in Gates : x = Par(s, o, g)
  BY <1>3, Fields DEF Bare
<1>4. CASE \E r \in {"review", "remediation"} : x = Save(r)
  BY <1>4, Fields DEF Bare
<1>5. CASE \E s \in Statuses, o \in States : x = Finish(s, o)
  BY <1>5, Fields DEF Bare
<1> QED BY <1>1, <1>2, <1>3, <1>4, <1>5 DEF Statements

\* Actors of one kind are not of another.
LEMMA Kinds ==
  /\ "impl" \notin Children \cup Deciders /\ "sweep" \notin Children
  /\ Children \cap Deciders = {} /\ NoChild \notin Children
  /\ Actors = {"impl"} \cup Children \cup Deciders
  BY GateAssumption DEF Children, Deciders, NoChild, Actors

\* The rest of a script fits.
LEMMA TailProper ==
  ASSUME NEW a, NEW s, Proper(a, s), s # <<>>
  PROVE  /\ Head(s) \in Statements /\ Allowed(a, Head(s)) /\ Proper(a, Tail(s))
         /\ Tail(s) # <<>> => /\ Follows(Head(s), Head(Tail(s)))
                              /\ Head(Tail(s)) \in Statements /\ Allowed(a, Head(Tail(s)))
         /\ Passed(s) => /\ Passed(Tail(s))
                         /\ Tail(s) # <<>> /\ Head(Tail(s)).op = "publish" => Head(s).gate \in LetPass
<1>1. s \in Seq(Statements) /\ Len(s) \in Nat /\ Len(s) > 0
  BY DEF Proper
<1>2. /\ Tail(s) \in Seq(Statements) /\ Len(Tail(s)) = Len(s) - 1 /\ Head(s) = s[1]
      /\ \A i \in 1..(Len(s) - 1) : Tail(s)[i] = s[i + 1]
  BY <1>1
<1>3. Tail(s) # <<>> => Len(s) > 1 /\ Head(Tail(s)) = s[2]
  BY <1>1, <1>2
<1>4. \A i \in 1..Len(Tail(s)) : Allowed(a, Tail(s)[i])
  BY <1>1, <1>2 DEF Proper
<1>5. ASSUME NEW i \in 1..(Len(Tail(s)) - 1)
      PROVE  i + 1 \in 1..(Len(s) - 1) /\ Tail(s)[i] = s[i + 1] /\ Tail(s)[i + 1] = s[i + 2]
             /\ (i + 1) + 1 = i + 2
  BY <1>1, <1>2
<1>6. \A i \in 1..(Len(Tail(s)) - 1) : Follows(Tail(s)[i], Tail(s)[i + 1])
  <2> TAKE i \in 1..(Len(Tail(s)) - 1)
  <2>1. Follows(s[i + 1], s[(i + 1) + 1])
    BY <1>5 DEF Proper
  <2> QED BY <1>5, <2>1
<1>7. Passed(s) => Passed(Tail(s))
  <2> SUFFICES ASSUME Passed(s), NEW i \in 1..(Len(Tail(s)) - 1), Tail(s)[i + 1].op = "publish"
               PROVE  Tail(s)[i].gate \in LetPass
    BY DEF Passed
  <2>1. s[(i + 1) + 1].op = "publish" => s[i + 1].gate \in LetPass
    BY <1>5 DEF Passed
  <2> QED BY <1>5, <2>1
<1>8. Tail(s) # <<>> => /\ Follows(Head(s), Head(Tail(s))) /\ s[2] \in Statements /\ Allowed(a, s[2])
                        /\ (Passed(s) /\ s[2].op = "publish" => s[1].gate \in LetPass)
  <2> SUFFICES ASSUME Tail(s) # <<>>
               PROVE  /\ Follows(Head(s), Head(Tail(s))) /\ s[2] \in Statements /\ Allowed(a, s[2])
                      /\ (Passed(s) /\ s[2].op = "publish" => s[1].gate \in LetPass)
    OBVIOUS
  <2>1. 1 \in 1..(Len(s) - 1) /\ 1 + 1 = 2 /\ 2 \in 1..Len(s)
    BY <1>1, <1>3
  <2>2. Follows(s[1], s[1 + 1]) /\ Allowed(a, s[2])
    BY <2>1 DEF Proper
  <2>3. Passed(s) /\ s[1 + 1].op = "publish" => s[1].gate \in LetPass
    BY <2>1 DEF Passed
  <2>4. s[2] \in Statements
    BY <1>1, <2>1
  <2> QED BY <1>2, <1>3, <2>1, <2>2, <2>3, <2>4
<1>9. Head(s) \in Statements /\ Allowed(a, Head(s))
  BY <1>1, <1>2 DEF Proper
<1> QED BY <1>2, <1>3, <1>4, <1>6, <1>7, <1>8, <1>9 DEF Proper

\* Scripts of one to four statements.
LEMMA ShortScripts ==
  ASSUME NEW a, NEW x \in Statements, NEW y \in Statements, NEW z \in Statements, NEW w \in Statements,
         Allowed(a, x)
  PROVE  /\ Proper(a, <<x>>) /\ Passed(<<x>>)
         /\ Allowed(a, y) /\ Follows(x, y) =>
              /\ Proper(a, <<x, y>>)
              /\ (y.op = "publish" => x.gate \in LetPass) => Passed(<<x, y>>)
              /\ Allowed(a, z) /\ Follows(y, z) =>
                   /\ Proper(a, <<x, y, z>>)
                   /\ y.op # "publish" /\ (z.op = "publish" => y.gate \in LetPass) => Passed(<<x, y, z>>)
                   /\ Allowed(a, w) /\ Follows(z, w) =>
                        /\ Proper(a, <<x, y, z, w>>)
                        /\ y.op # "publish" /\ z.op # "publish" /\ w.op # "publish" =>
                             Passed(<<x, y, z, w>>)
<1>1. /\ Proper(a, <<x>>) /\ Passed(<<x>>)
  BY DEF Proper, Passed
<1>2. ASSUME Allowed(a, y), Follows(x, y) PROVE Proper(a, <<x, y>>)
  <2>1. \A i \in 1..2 : i = 1 \/ i = 2
    OBVIOUS
  <2> QED BY <1>2, <2>1 DEF Proper
<1>3. (y.op = "publish" => x.gate \in LetPass) => Passed(<<x, y>>)
  BY DEF Passed
<1>4. ASSUME Allowed(a, y), Follows(x, y), Allowed(a, z), Follows(y, z) PROVE Proper(a, <<x, y, z>>)
  <2>1. \A i \in 1..3 : i = 1 \/ i = 2 \/ i = 3
    OBVIOUS
  <2>2. \A i \in 1..2 : i = 1 \/ i = 2
    OBVIOUS
  <2>3. \A i \in 1..3 : Allowed(a, <<x, y, z>>[i])
    BY <1>4, <2>1
  <2>4. \A i \in 1..2 : Follows(<<x, y, z>>[i], <<x, y, z>>[i + 1])
    BY <1>4, <2>2
  <2> QED BY <2>3, <2>4 DEF Proper
<1>5. y.op # "publish" /\ (z.op = "publish" => y.gate \in LetPass) => Passed(<<x, y, z>>)
  <2>1. \A i \in 1..2 : i = 1 \/ i = 2
    OBVIOUS
  <2> QED BY <2>1 DEF Passed
<1>6. ASSUME Allowed(a, y), Follows(x, y), Allowed(a, z), Follows(y, z), Allowed(a, w), Follows(z, w)
      PROVE  Proper(a, <<x, y, z, w>>)
  <2>1. \A i \in 1..4 : i = 1 \/ i = 2 \/ i = 3 \/ i = 4
    OBVIOUS
  <2>2. \A i \in 1..3 : i = 1 \/ i = 2 \/ i = 3
    OBVIOUS
  <2>3. \A i \in 1..4 : Allowed(a, <<x, y, z, w>>[i])
    BY <1>6, <2>1
  <2>4. \A i \in 1..3 : Follows(<<x, y, z, w>>[i], <<x, y, z, w>>[i + 1])
    BY <1>6, <2>2
  <2> QED BY <2>3, <2>4 DEF Proper
<1>7. y.op # "publish" /\ z.op # "publish" /\ w.op # "publish" => Passed(<<x, y, z, w>>)
  <2>2. \A i \in 1..3 : i = 1 \/ i = 2 \/ i = 3
    OBVIOUS
  <2>3. y.op # "publish" /\ z.op # "publish" /\ w.op # "publish" =>
          \A i \in 1..3 : <<x, y, z, w>>[i + 1].op # "publish"
    BY <2>2
  <2> QED BY <2>3 DEF Passed
<1> QED BY <1>1, <1>2, <1>3, <1>4, <1>5, <1>6, <1>7

\* The statements of the scripts are statements.
LEMMA StatementsOf ==
  /\ \A op \in Bare : Do(op) \in Statements
  /\ \A s \in RecordStatuses : Rec(s) \in Statements
  /\ \A s \in Statuses, o \in States, g \in Gates : Par(s, o, g) \in Statements
  /\ \A r \in {"review", "remediation"} : Save(r) \in Statements
  /\ \A s \in Statuses, o \in States : Finish(s, o) \in Statements
  BY DEF Statements

\* The scripts of deciders.
LEMMA DecidersFit ==
  /\ \A q \in Requests :
       /\ Proper(q, ContinueScript) /\ Passed(ContinueScript)
       /\ Proper(q, BlockScript) /\ Passed(BlockScript)
       /\ Proper(q, FixExhausted) /\ Passed(FixExhausted)
       /\ Proper(q, FixScript) /\ Passed(FixScript)
       /\ Proper(q, CancelScript) /\ Passed(CancelScript)
  /\ Proper("sweep", TimeoutScript) /\ Passed(TimeoutScript)
<1>0. /\ Do("publish") \in Statements /\ Do("markBlocked") \in Statements /\ Do("linkFix") \in Statements
      /\ Do("dispatch") \in Statements /\ Do("cancel") \in Statements
      /\ Rec("decision_continue") \in Statements /\ Rec("decision_block") \in Statements
      /\ Par("completed", "finalizing", "decision_continue") \in Statements
      /\ Par("completed", "finalizing", "timeout_continue") \in Statements
      /\ Par("running", "finalizing", "remediation_running") \in Statements
      /\ FailParent \in Statements /\ Save("remediation") \in Statements
  BY StatementsOf DEF Bare, RecordStatuses, Statuses, States, Gates, FailParent
<1>1. FailParent.op = "parent" /\ FailParent.gate = "decision_block"
  BY Fields DEF FailParent
<1>2. ASSUME NEW q \in Requests
      PROVE  /\ Allowed(q, Do("publish")) /\ Allowed(q, Do("markBlocked")) /\ Allowed(q, Do("linkFix"))
             /\ Allowed(q, Do("dispatch")) /\ Allowed(q, Do("cancel"))
             /\ Allowed(q, Rec("decision_continue")) /\ Allowed(q, Rec("decision_block"))
             /\ Allowed(q, Par("completed", "finalizing", "decision_continue"))
             /\ Allowed(q, Par("running", "finalizing", "remediation_running"))
             /\ Allowed(q, FailParent) /\ Allowed(q, Save("remediation"))
  BY Fields, <1>1, Kinds DEF Allowed, Deciders
<1>3. /\ Allowed("sweep", Do("publish")) /\ Allowed("sweep", Rec("decision_continue"))
      /\ Allowed("sweep", Par("completed", "finalizing", "timeout_continue"))
  BY Fields, Kinds DEF Allowed, Deciders
<1>4. /\ Follows(Rec("decision_continue"), Par("completed", "finalizing", "decision_continue"))
      /\ Follows(Rec("decision_continue"), Par("completed", "finalizing", "timeout_continue"))
      /\ Follows(Par("completed", "finalizing", "decision_continue"), Do("publish"))
      /\ Follows(Par("completed", "finalizing", "timeout_continue"), Do("publish"))
      /\ Follows(Rec("decision_block"), FailParent) /\ Follows(FailParent, Do("markBlocked"))
      /\ Follows(Save("remediation"), Do("linkFix"))
      /\ Follows(Do("linkFix"), Par("running", "finalizing", "remediation_running"))
      /\ Follows(Par("running", "finalizing", "remediation_running"), Do("dispatch"))
  BY Fields, <1>1 DEF Follows, LetPass
<1>5. /\ Par("completed", "finalizing", "decision_continue").gate \in LetPass
      /\ Par("completed", "finalizing", "decision_continue").op # "publish"
      /\ Par("completed", "finalizing", "timeout_continue").gate \in LetPass
      /\ Par("completed", "finalizing", "timeout_continue").op # "publish"
      /\ Do("markBlocked").op # "publish" /\ FailParent.op # "publish" /\ Do("linkFix").op # "publish"
      /\ Do("dispatch").op # "publish" /\ Par("running", "finalizing", "remediation_running").op # "publish"
  BY Fields, <1>1 DEF LetPass
<1>6. ASSUME NEW q \in Requests
      PROVE  Proper(q, ContinueScript) /\ Passed(ContinueScript)
  BY <1>0, <1>2, <1>4, <1>5, ShortScripts DEF ContinueScript
<1>7. ASSUME NEW q \in Requests
      PROVE  Proper(q, BlockScript) /\ Passed(BlockScript)
  BY <1>0, <1>2, <1>4, <1>5, ShortScripts DEF BlockScript
<1>8. ASSUME NEW q \in Requests
      PROVE  /\ Proper(q, FixExhausted) /\ Passed(FixExhausted)
             /\ Proper(q, CancelScript) /\ Passed(CancelScript)
  BY <1>0, <1>2, ShortScripts DEF FixExhausted, CancelScript
<1>9. ASSUME NEW q \in Requests
      PROVE  Proper(q, FixScript) /\ Passed(FixScript)
  BY <1>0, <1>2, <1>4, <1>5, ShortScripts DEF FixScript
<1>10. Proper("sweep", TimeoutScript) /\ Passed(TimeoutScript)
  BY <1>0, <1>3, <1>4, <1>5, ShortScripts DEF TimeoutScript
<1> QED BY <1>6, <1>7, <1>8, <1>9, <1>10

\* The scripts of children and of the parent's own exit handler, after the gate and without it.
LEMMA HandlersFit ==
  /\ \A c \in Children :
       /\ Proper(c, <<Do("completion")>>) /\ Passed(<<Do("completion")>>)
       /\ Proper(c, ReviewPassed) /\ Passed(ReviewPassed) /\ Proper(c, AskUser) /\ Passed(AskUser)
       /\ Proper(c, RemediationFailed) /\ Passed(RemediationFailed)
       /\ Proper(c, RemediationDone) /\ Passed(RemediationDone)
  /\ \A a \in Actors \ Deciders :
       /\ Proper(a, <<Do("gate")>>) /\ Passed(<<Do("gate")>>)
       /\ Proper(a, <<SkipReview>> \o AfterGate(a, FALSE)) /\ Passed(<<SkipReview>> \o AfterGate(a, FALSE))
       /\ Proper(a, <<FailParent>> \o AfterGate(a, FALSE))
       /\ Proper(a, StartReview \o AfterGate(a, TRUE)) /\ Passed(StartReview \o AfterGate(a, TRUE))
       /\ StartReview \o AfterGate(a, TRUE) = StartReview
  /\ \A a \in Actors :
       /\ Proper(a, <<>>) /\ Passed(<<>>) /\ AfterGate(a, TRUE) = <<>>
       /\ Proper(a, <<Do("redispatch")>>) /\ Passed(<<Do("redispatch")>>)
       /\ \A s \in Statuses, o \in States : Proper(a, <<Finish(s, o)>>) /\ Passed(<<Finish(s, o)>>)
<1>0. /\ Do("publish") \in Statements /\ Do("completion") \in Statements /\ Do("gate") \in Statements
      /\ Do("dispatch") \in Statements /\ Do("redispatch") \in Statements /\ Do("saveRecord") \in Statements
      /\ Rec("completed_pass") \in Statements /\ Rec("awaiting_decision") \in Statements
      /\ Rec("failed") \in Statements /\ Rec("completed_fail") \in Statements
      /\ Par("completed", "finalizing", "review_passed") \in Statements
      /\ Par("running", "awaiting_review_decision", "awaiting_decision") \in Statements
      /\ Par("running", "finalizing", "review_running") \in Statements
      /\ FailParent \in Statements /\ SkipReview \in Statements /\ Save("review") \in Statements
      /\ \A s \in Statuses, o \in States : Finish(s, o) \in Statements
  BY StatementsOf DEF Bare, RecordStatuses, Statuses, States, Gates, FailParent, SkipReview
<1>1. /\ FailParent.op = "parent" /\ FailParent.gate = "decision_block"
      /\ SkipReview.op = "parent" /\ SkipReview.gate = "not_applicable"
  BY Fields DEF FailParent, SkipReview
<1>2. ASSUME NEW c \in Children
      PROVE  /\ Allowed(c, Do("publish")) /\ Allowed(c, Do("completion")) /\ Allowed(c, Do("gate"))
             /\ Allowed(c, Rec("completed_pass")) /\ Allowed(c, Rec("awaiting_decision"))
             /\ Allowed(c, Rec("failed")) /\ Allowed(c, Rec("completed_fail"))
             /\ Allowed(c, Par("completed", "finalizing", "review_passed"))
             /\ Allowed(c, Par("running", "awaiting_review_decision", "awaiting_decision"))
             /\ Allowed(c, FailParent)
  BY Fields, <1>1, Kinds DEF Allowed
<1>3. ASSUME NEW a \in Actors \ Deciders
      PROVE  /\ Allowed(a, Do("gate")) /\ Allowed(a, Do("publish")) /\ Allowed(a, SkipReview)
             /\ Allowed(a, FailParent) /\ Allowed(a, Save("review")) /\ Allowed(a, Do("saveRecord"))
             /\ Allowed(a, Par("running", "finalizing", "review_running")) /\ Allowed(a, Do("dispatch"))
  BY Fields, <1>1, Kinds DEF Allowed, Deciders
<1>4. ASSUME NEW a \in Actors
      PROVE  /\ Allowed(a, Do("redispatch"))
             /\ \A s \in Statuses, o \in States : Allowed(a, Finish(s, o))
  BY Fields DEF Allowed
<1>5. /\ Follows(Rec("completed_pass"), Par("completed", "finalizing", "review_passed"))
      /\ Follows(Par("completed", "finalizing", "review_passed"), Do("publish"))
      /\ Follows(Rec("awaiting_decision"), Par("running", "awaiting_review_decision", "awaiting_decision"))
      /\ Follows(Rec("failed"), FailParent) /\ Follows(Rec("completed_fail"), Do("gate"))
      /\ Follows(SkipReview, Do("publish")) /\ Follows(FailParent, Do("publish"))
      /\ Follows(Save("review"), Do("saveRecord"))
      /\ Follows(Do("saveRecord"), Par("running", "finalizing", "review_running"))
      /\ Follows(Par("running", "finalizing", "review_running"), Do("dispatch"))
  BY Fields, <1>1 DEF Follows, LetPass
<1>6. /\ Par("completed", "finalizing", "review_passed").gate \in LetPass
      /\ Par("completed", "finalizing", "review_passed").op # "publish"
      /\ Par("running", "awaiting_review_decision", "awaiting_decision").op # "publish"
      /\ SkipReview.gate \in LetPass /\ FailParent.op # "publish" /\ Do("gate").op # "publish"
      /\ Do("saveRecord").op # "publish" /\ Do("dispatch").op # "publish"
      /\ Par("running", "finalizing", "review_running").op # "publish"
  BY Fields, <1>1 DEF LetPass
<1>7. ASSUME NEW c \in Children
      PROVE  /\ Proper(c, <<Do("completion")>>) /\ Passed(<<Do("completion")>>)
             /\ Proper(c, ReviewPassed) /\ Passed(ReviewPassed)
  BY <1>0, <1>2, <1>5, <1>6, ShortScripts DEF ReviewPassed
<1>8. ASSUME NEW c \in Children
      PROVE  Proper(c, AskUser) /\ Passed(AskUser)
  BY <1>0, <1>2, <1>5, <1>6, ShortScripts DEF AskUser
<1>9. ASSUME NEW c \in Children
      PROVE  /\ Proper(c, RemediationFailed) /\ Passed(RemediationFailed)
             /\ Proper(c, RemediationDone) /\ Passed(RemediationDone)
  BY <1>0, <1>2, <1>5, <1>6, ShortScripts DEF RemediationFailed, RemediationDone
<1>10. ASSUME NEW a \in Actors \ Deciders
       PROVE  /\ Proper(a, <<Do("gate")>>) /\ Passed(<<Do("gate")>>)
              /\ Proper(a, <<SkipReview>> \o AfterGate(a, FALSE)) /\ Passed(<<SkipReview>> \o AfterGate(a, FALSE))
              /\ Proper(a, <<FailParent>> \o AfterGate(a, FALSE))
  <2>1. ASSUME NEW x \in Statements
        PROVE  <<x>> \o <<>> = <<x>> /\ <<x>> \o <<Do("publish")>> = <<x, Do("publish")>>
    <3>1. \A s \in Seq(Statements) : s \o <<>> = s
      OBVIOUS
    <3>2. \A y \in Statements : <<x>> \o <<y>> = <<x, y>>
      <4> SUFFICES ASSUME NEW y \in Statements PROVE <<x>> \o <<y>> = <<x, y>>
        OBVIOUS
      <4>1. <<x>> \in Seq(Statements) /\ <<y>> \in Seq(Statements) /\ <<x, y>> \in Seq(Statements)
            /\ Len(<<x>>) = 1 /\ Len(<<y>>) = 1 /\ Len(<<x, y>>) = 2
        OBVIOUS
      <4> DEFINE s == <<x>> \o <<y>>
      <4>2. s \in Seq(Statements) /\ Len(s) = 2 /\ s[1] = x /\ s[2] = y
        BY <4>1, ConcatProperties
      <4>3. \A i \in 1..2 : s[i] = <<x, y>>[i]
        BY <4>2
      <4> HIDE DEF s
      <4>4. s = <<x, y>>
        BY <4>1, <4>2, <4>3, SeqEqual
      <4> QED BY <4>4 DEF s
    <3>3. <<x>> \in Seq(Statements)
      OBVIOUS
    <3> QED BY <1>0, <3>1, <3>2, <3>3
  <2>2. AfterGate(a, FALSE) \in {<<>>, <<Do("publish")>>}
    BY DEF AfterGate
  <2>3. /\ <<SkipReview>> \o AfterGate(a, FALSE) \in {<<SkipReview>>, <<SkipReview, Do("publish")>>}
        /\ <<FailParent>> \o AfterGate(a, FALSE) \in {<<FailParent>>, <<FailParent, Do("publish")>>}
    BY <1>0, <2>1, <2>2
  <2>4. /\ Proper(a, <<Do("gate")>>) /\ Passed(<<Do("gate")>>)
        /\ Proper(a, <<SkipReview>>) /\ Passed(<<SkipReview>>) /\ Proper(a, <<FailParent>>)
        /\ Proper(a, <<SkipReview, Do("publish")>>) /\ Passed(<<SkipReview, Do("publish")>>)
        /\ Proper(a, <<FailParent, Do("publish")>>)
    BY <1>0, <1>3, <1>5, <1>6, ShortScripts
  <2> QED BY <2>3, <2>4
<1>11. ASSUME NEW a \in Actors \ Deciders
       PROVE  /\ Proper(a, StartReview \o AfterGate(a, TRUE)) /\ Passed(StartReview \o AfterGate(a, TRUE))
              /\ StartReview \o AfterGate(a, TRUE) = StartReview
  <2>1. Proper(a, StartReview) /\ Passed(StartReview)
    BY <1>0, <1>3, <1>5, <1>6, ShortScripts DEF StartReview
  <2>2. StartReview \in Seq(Statements)
    BY <2>1 DEF Proper
  <2>3. \A s \in Seq(Statements) : s \o <<>> = s
    OBVIOUS
  <2>4. AfterGate(a, TRUE) = <<>>
    BY DEF AfterGate
  <2> QED BY <2>1, <2>2, <2>3, <2>4
<1>12. ASSUME NEW a \in Actors
       PROVE  /\ Proper(a, <<>>) /\ Passed(<<>>) /\ AfterGate(a, TRUE) = <<>>
              /\ Proper(a, <<Do("redispatch")>>) /\ Passed(<<Do("redispatch")>>)
              /\ \A s \in Statuses, o \in States : Proper(a, <<Finish(s, o)>>) /\ Passed(<<Finish(s, o)>>)
  <2>1. Proper(a, <<>>) /\ Passed(<<>>)
    BY DEF Proper, Passed
  <2> QED BY <1>0, <1>4, <2>1, ShortScripts DEF AfterGate
<1> QED BY <1>7, <1>8, <1>9, <1>10, <1>11, <1>12

\* How the scripts begin.
LEMMA Beginnings ==
  /\ ContinueScript # <<>> /\ Head(ContinueScript) = Rec("decision_continue")
  /\ TimeoutScript # <<>> /\ Head(TimeoutScript) = Rec("decision_continue")
  /\ BlockScript # <<>> /\ Head(BlockScript) = Rec("decision_block")
  /\ FixExhausted # <<>> /\ Head(FixExhausted) = FailParent /\ Tail(FixExhausted) = <<>>
  /\ FixScript # <<>> /\ Head(FixScript) = Save("remediation")
  /\ CancelScript # <<>> /\ Head(CancelScript) = Do("cancel")
  /\ ReviewPassed # <<>> /\ Head(ReviewPassed) = Rec("completed_pass")
  /\ AskUser # <<>> /\ Head(AskUser) = Rec("awaiting_decision")
  /\ RemediationFailed # <<>> /\ Head(RemediationFailed) = Rec("failed")
  /\ RemediationDone # <<>> /\ Head(RemediationDone) = Rec("completed_fail")
  /\ StartReview # <<>> /\ Head(StartReview) = Save("review")
  /\ \A x : <<x>> # <<>> /\ Head(<<x>>) = x /\ Tail(<<x>>) = <<>>
  BY DEF ContinueScript, TimeoutScript, BlockScript, FixExhausted, FixScript, CancelScript, ReviewPassed,
         AskUser, RemediationFailed, RemediationDone, StartReview

-----------------------------------------------------------------------------
\* A set of cycles, or of cycles and 0, that is not empty has a maximum, which Max finds.
LEMMA MaxIsThere ==
  ASSUME NEW S \in SUBSET (0..MaxCycles), S # {}
  PROVE  Max(S) \in S /\ \A x \in S : x <= Max(S)
<1> DEFINE R == OpToRel(<, Nat)
           B == {b \in Nat : \A x \in S : x <= b}
<1>0. MaxCycles \in Nat /\ S \subseteq Nat /\ \A x \in S : x <= MaxCycles
  BY GateAssumption
<1>1. PICK b \in B : \A c \in B : ~(<<c, b>> \in R)
  <2>1. IsWellFoundedOn(R, Nat)
    BY NatLessThanWellFounded
  <2>2. B \subseteq Nat /\ B # {}
    BY <1>0
  <2> HIDE DEF R, B
  <2> QED BY <2>1, <2>2, WFMin
<1>2. \A c \in B : ~(c < b)
  <2>1. \A c \in Nat : c < b => <<c, b>> \in R
    BY <1>1 DEF OpToRel
  <2> QED BY <2>1, <1>1
<1>3. b \in S
  <2> SUFFICES ASSUME b \notin S PROVE FALSE
    OBVIOUS
  <2>1. PICK s \in S : TRUE
    OBVIOUS
  <2>2. \A x \in S : x < b
    BY <1>0
  <2>3. b - 1 \in B /\ b - 1 < b
    BY <1>0, <2>1, <2>2
  <2> QED BY <2>3, <1>2
<1>4. \A x \in S : b >= x
  BY <1>0
<1>5. \E x \in S : \A y \in S : x >= y
  BY <1>3, <1>4
<1>6. Max(S) \in S /\ \A y \in S : Max(S) >= y
  BY <1>5 DEF Max
<1> QED BY <1>0, <1>6

\* The latest cycle, and the open one a decision is about.
LEMMA LatestAndOpen ==
  /\ Latest \in 0..MaxCycles
  /\ Open # {} => Max(Open) \in Open /\ Max(Open) \in Cycles
<1>1. {0} \cup {k \in Cycles : rec[k].status # "none"} \in SUBSET (0..MaxCycles)
  BY GateAssumption DEF Cycles
<1>2. Open \in SUBSET (0..MaxCycles) /\ Open \subseteq Cycles
  BY GateAssumption DEF Cycles, Open
<1> QED BY <1>1, <1>2, MaxIsThere DEF Latest

\* The scripts everybody performs are those of the code.
Scripts ==
  /\ todo \in [Actors -> Seq(Statements)]
  /\ \A a \in Actors : Proper(a, todo[a])

\* The next statement of an actor, and the one after it.
LEMMA NextStatement ==
  ASSUME Scripts, NEW a \in Actors, todo[a] # <<>>
  PROVE  /\ Head(todo[a]) \in Statements /\ Allowed(a, Head(todo[a])) /\ Proper(a, Tail(todo[a]))
         /\ Tail(todo[a]) # <<>> =>
              /\ Follows(Head(todo[a]), Head(Tail(todo[a])))
              /\ Head(Tail(todo[a])) \in Statements /\ Allowed(a, Head(Tail(todo[a])))
         /\ Head(todo[a]).op \in {"gate", "completion", "dispatch", "publish", "redispatch", "finish",
                                  "markBlocked", "cancel"} => Tail(todo[a]) = <<>>
<1>1. Proper(a, todo[a])
  BY DEF Scripts
<1>2. Tail(todo[a]) # <<>> => Follows(Head(todo[a]), Head(Tail(todo[a])))
  BY <1>1, TailProper
<1>3. Head(todo[a]).op \in {"gate", "completion", "dispatch", "publish", "redispatch", "finish",
                            "markBlocked", "cancel"} => Tail(todo[a]) = <<>>
  BY <1>2 DEF Follows
<1> QED BY <1>1, <1>3, TailProper

\* An actor goes on.
LEMMA AdvanceKeeps ==
  ASSUME Scripts, NEW a \in Actors, todo[a] # <<>>, Advance(a)
  PROVE  /\ Scripts' /\ todo'[a] = Tail(todo[a])
         /\ \A b \in Actors : b # a => todo'[b] = todo[b]
<1>1. Proper(a, Tail(todo[a]))
  BY NextStatement
<1>2. Tail(todo[a]) \in Seq(Statements)
  BY <1>1 DEF Proper
<1>3. /\ todo' \in [Actors -> Seq(Statements)] /\ todo'[a] = Tail(todo[a])
      /\ \A b \in Actors : b # a => todo'[b] = todo[b]
  BY <1>2 DEF Advance, Scripts
<1>4. \A b \in Actors : Proper(b, todo'[b])
  BY <1>1, <1>3 DEF Scripts
<1> QED BY <1>3, <1>4 DEF Scripts

\* An actor gets a script.
LEMMA PerformKeeps ==
  ASSUME Scripts, NEW a \in Actors, NEW s, Proper(a, s), todo' = [todo EXCEPT ![a] = s]
  PROVE  /\ Scripts' /\ todo'[a] = s
         /\ \A b \in Actors : b # a => todo'[b] = todo[b]
<1>2. s \in Seq(Statements)
  BY DEF Proper
<1>3. /\ todo' \in [Actors -> Seq(Statements)] /\ todo'[a] = s
      /\ \A b \in Actors : b # a => todo'[b] = todo[b]
  BY <1>2 DEF Scripts
<1>4. \A b \in Actors : Proper(b, todo'[b])
  BY <1>3 DEF Scripts
<1> QED BY <1>3, <1>4 DEF Scripts

\* Nothing comes after a statement put before an empty rest.
LEMMA BeforeNothing ==
  ASSUME NEW x \in Statements
  PROVE  <<x>> \o <<>> = <<x>>
<1>1. \A s \in Seq(Statements) : s \o <<>> = s
  OBVIOUS
<1> QED BY <1>1

\* A statement put in the place of the last one.
LEMMA InItsPlace ==
  ASSUME Scripts, NEW a \in Actors, Next1(a, "publish") \/ Next1(a, "redispatch"),
         NEW x \in Statements, todo' = [todo EXCEPT ![a] = <<x>> \o Tail(@)]
  PROVE  todo' = [todo EXCEPT ![a] = <<x>>]
<1>1. Tail(todo[a]) = <<>>
  BY NextStatement DEF Next1
<1>2. todo' = [todo EXCEPT ![a] = <<x>> \o Tail(todo[a])]
  OBVIOUS
<1> QED BY <1>1, <1>2, BeforeNothing

\* What the script of an actor is after a statement of it.
LEMMA AfterStatement ==
  ASSUME Scripts, NEW a \in Actors, Statement(a)
  PROVE  /\ todo[a] # <<>> /\ Scripts'
         /\ \A b \in Actors : b # a => todo'[b] = todo[b]
         /\ Head(todo[a]).op \notin {"gate", "publish", "redispatch"} =>
              \/ todo'[a] = Tail(todo[a])
              \/ todo'[a] = <<>> /\ Head(todo[a]).op \in {"parent", "saveRecord", "dispatch"}
         /\ Next1(a, "gate") =>
              /\ a \notin Deciders
              /\ todo'[a] \in {<<SkipReview>> \o AfterGate(a, FALSE), <<>>,
                               <<FailParent>> \o AfterGate(a, FALSE), StartReview}
         /\ Next1(a, "publish") =>
              todo'[a] \in {<<Finish("completed", "done")>>, <<Finish("failed", "failed")>>,
                            <<Do("redispatch")>>}
         /\ Next1(a, "redispatch") => todo'[a] \in {<<>>, <<Finish("failed", "failed")>>}
<1>0. /\ Do("redispatch") \in Statements /\ Finish("failed", "failed") \in Statements
      /\ Finish("completed", "done") \in Statements
      /\ {"failed", "completed"} \subseteq Statuses /\ {"failed", "done"} \subseteq States
  BY StatementsOf DEF Bare, Statuses, States
<1>1. Proper(a, <<>>)
  BY HandlersFit
<1>2. ASSUME Advance(a), todo[a] # <<>>, Head(todo[a]).op \notin {"gate", "publish", "redispatch"}
      PROVE  /\ Scripts' /\ todo'[a] = Tail(todo[a])
             /\ \A b \in Actors : b # a => todo'[b] = todo[b]
  BY <1>2, AdvanceKeeps
<1>3. ASSUME Throws(a)
      PROVE  /\ Scripts' /\ todo'[a] = <<>> /\ \A b \in Actors : b # a => todo'[b] = todo[b]
  BY <1>1, <1>3, PerformKeeps DEF Throws, Perform
<1>4. CASE WriteRecord(a) \/ MarkBlocked(a) \/ SaveChild(a) \/ LinkFix(a) \/ WriteFinish(a) \/ CancelWrite(a)
  <2>1. /\ Advance(a) /\ todo[a] # <<>>
        /\ Head(todo[a]).op \in {"record", "markBlocked", "save", "linkFix", "finish", "cancel"}
    BY <1>4 DEF WriteRecord, MarkBlocked, SaveChild, LinkFix, WriteFinish, CancelWrite, Next1
  <2> QED BY <1>2, <2>1 DEF Next1
<1>5. CASE WriteParent(a) \/ SaveRecord(a) \/ Dispatch(a)
  <2>1. /\ Advance(a) \/ Throws(a)
        /\ todo[a] # <<>> /\ Head(todo[a]).op \in {"parent", "saveRecord", "dispatch"}
    BY <1>5 DEF WriteParent, SaveRecord, Dispatch, Next1
  <2> QED BY <1>2, <1>3, <2>1 DEF Next1
<1>6. CASE Gate(a)
  <2>1. Next1(a, "gate") /\ todo[a] # <<>>
    BY <1>6 DEF Gate, Next1
  <2>2. a \notin Deciders
    BY <2>1, NextStatement DEF Next1, Allowed
  <2>3. PICK s \in {<<SkipReview>> \o AfterGate(a, FALSE), AfterGate(a, TRUE),
                    <<FailParent>> \o AfterGate(a, FALSE), StartReview \o AfterGate(a, TRUE)} :
          Perform(a, s)
    BY <1>6 DEF Gate
  <2>4. Proper(a, s) /\ AfterGate(a, TRUE) = <<>> /\ StartReview \o AfterGate(a, TRUE) = StartReview
    BY <2>2, <2>3, HandlersFit
  <2>5. Scripts' /\ todo'[a] = s /\ \A b \in Actors : b # a => todo'[b] = todo[b]
    BY <2>3, <2>4, PerformKeeps DEF Perform
  <2> QED BY <2>1, <2>2, <2>3, <2>4, <2>5 DEF Next1
<1>7. CASE Publish(a)
  <2>1. Next1(a, "publish") /\ todo[a] # <<>>
    BY <1>7 DEF Publish, Next1
  <2>2. PICK x \in {Finish("completed", "done"), Finish("failed", "failed"), Do("redispatch")} :
          todo' = [todo EXCEPT ![a] = <<x>> \o Tail(@)]
    BY <1>7 DEF Publish
  <2>3. todo' = [todo EXCEPT ![a] = <<x>>]
    <3>1. x \in Statements
      BY <1>0, <2>2
    <3>2. Next1(a, "publish") \/ Next1(a, "redispatch")
      BY <2>1
    <3>3. todo' = [todo EXCEPT ![a] = <<x>> \o Tail(@)]
      BY <2>2
    <3> QED BY <3>1, <3>2, <3>3, InItsPlace
  <2>4. Proper(a, <<x>>)
    BY <1>0, <2>2, HandlersFit
  <2>5. Scripts' /\ todo'[a] = <<x>> /\ \A b \in Actors : b # a => todo'[b] = todo[b]
    BY <2>3, <2>4, PerformKeeps
  <2> QED BY <2>1, <2>2, <2>5 DEF Next1
<1>8. CASE Redispatch(a)
  <2>1. Next1(a, "redispatch") /\ todo[a] # <<>> /\ Tail(todo[a]) = <<>>
    BY <1>8, NextStatement DEF Redispatch, Next1
  <2>2. CASE Advance(a)
    <3>1. Scripts' /\ todo'[a] = Tail(todo[a]) /\ \A b \in Actors : b # a => todo'[b] = todo[b]
      BY <2>1, <2>2, AdvanceKeeps
    <3> QED BY <2>1, <3>1 DEF Next1
  <2>3. CASE todo' = [todo EXCEPT ![a] = <<Finish("failed", "failed")>> \o Tail(@)]
    <3>1. todo' = [todo EXCEPT ![a] = <<Finish("failed", "failed")>>]
      BY <1>0, <2>1, <2>3, InItsPlace
    <3>2. Proper(a, <<Finish("failed", "failed")>>)
      BY <1>0, HandlersFit
    <3>3. Scripts' /\ todo'[a] = <<Finish("failed", "failed")>> /\ \A b \in Actors : b # a => todo'[b] = todo[b]
      BY <3>1, <3>2, PerformKeeps
    <3> QED BY <2>1, <3>3 DEF Next1
  <2> QED BY <1>8, <2>2, <2>3 DEF Redispatch
<1> QED BY <1>4, <1>5, <1>6, <1>7, <1>8 DEF Statement

-----------------------------------------------------------------------------
Types == TypeOK /\ Scripts

\* A counted event stays within the bound.
LEMMA Counted ==
  ASSUME TypeOK, NEW kind, Happens(kind)
  PROVE  events' \in 0..MaxEvents
  BY GateAssumption DEF TypeOK, Happens

\* A statement keeps the types.
LEMMA StatementTypes ==
  ASSUME Types, NEW a \in Actors, Statement(a)
  PROVE  TypeOK'
<1>0. /\ TypeOK /\ Scripts /\ todo[a] # <<>> /\ Head(todo[a]) \in Statements /\ Allowed(a, Head(todo[a]))
      /\ cyc[a] \in Cycles /\ kid[a] \in Children \cup {NoChild} /\ NoChild \notin Children
  BY AfterStatement, NextStatement, Kinds DEF Types, TypeOK
<1> DEFINE h == Head(todo[a])
<1>1. /\ h.op = "record" => h.status \in RecordStatuses
      /\ h.op = "parent" => h.status \in Statuses /\ h.orch \in States /\ h.gate \in Gates
      /\ h.op = "save" => h.role \in {"review", "remediation"}
      /\ h.op = "finish" => h.status \in Statuses /\ h.orch \in States
  BY <1>0, StatementType
<1> USE DEF TypeOK
<1>2. CASE WriteRecord(a)
  <2>1. rec' = [rec EXCEPT ![cyc[a]].status = h.status] /\ h.op = "record"
    BY <1>2 DEF WriteRecord, Next1
  <2>2. rec' \in [Cycles -> [status : RecordStatuses, review : Children \cup {NoChild},
                             remediation : Children \cup {NoChild}]]
    BY <1>0, <1>1, <2>1
  <2> QED BY <1>0, <1>2, <2>2 DEF WriteRecord
<1>3. CASE WriteParent(a)
  <2>1. h.op = "parent"
    BY <1>3 DEF WriteParent, Next1
  <2>2. parent' \in [status : Statuses, orch : States, gate : Gates, due : {"never", "later", "now"}]
    BY <1>0, <1>1, <1>3, <2>1 DEF WriteParent
  <2> QED BY <1>0, <1>3, <2>2 DEF WriteParent
<1>4. CASE MarkBlocked(a)
  <2>1. parent' \in [status : Statuses, orch : States, gate : Gates, due : {"never", "later", "now"}]
    BY <1>0, <1>4 DEF MarkBlocked, Gates
  <2> QED BY <1>0, <1>4, <2>1 DEF MarkBlocked
<1>5. CASE SaveChild(a)
  <2>1. PICK n \in DOMAIN Kids : /\ child' = [child EXCEPT ![Kids[n]].role = h.role]
                                 /\ kid' = [kid EXCEPT ![a] = Kids[n]]
    BY <1>5 DEF SaveChild
  <2>2. Kids[n] \in Children /\ h.role \in {"review", "remediation"}
    BY <1>1, <1>5 DEF SaveChild, Next1, Children, Range
  <2>3. child' \in [Children -> [role : {"none", "review", "remediation"}, status : Statuses,
                                 queued : BOOLEAN, alive : BOOLEAN]]
    BY <1>0, <2>1, <2>2
  <2>4. kid' \in [Actors -> Children \cup {NoChild}]
    BY <1>0, <2>1, <2>2
  <2> QED BY <1>0, <1>5, <2>3, <2>4 DEF SaveChild
<1>6. CASE SaveRecord(a)
  <2>1. rec' \in [Cycles -> [status : RecordStatuses, review : Children \cup {NoChild},
                             remediation : Children \cup {NoChild}]]
    <3>1. [NoRecord EXCEPT !.status = "review_running", !.review = kid[a]]
            \in [status : RecordStatuses, review : Children \cup {NoChild},
                remediation : Children \cup {NoChild}]
      BY <1>0 DEF NoRecord, RecordStatuses
    <3> DEFINE r == [NoRecord EXCEPT !.status = "review_running", !.review = kid[a]]
    <3>2. rec' = rec \/ rec' = [rec EXCEPT ![cyc[a]] = r]
      BY <1>6 DEF SaveRecord
    <3> HIDE DEF r
    <3> QED BY <1>0, <3>1, <3>2 DEF r
  <2> QED BY <1>0, <1>6, <2>1 DEF SaveRecord
<1>7. CASE LinkFix(a)
  <2>1. rec' \in [Cycles -> [status : RecordStatuses, review : Children \cup {NoChild},
                             remediation : Children \cup {NoChild}]]
    BY <1>0, <1>7 DEF LinkFix, RecordStatuses
  <2> QED BY <1>0, <1>7, <2>1 DEF LinkFix
<1>8. CASE Dispatch(a)
  <2>1. child' \in [Children -> [role : {"none", "review", "remediation"}, status : Statuses,
                                 queued : BOOLEAN, alive : BOOLEAN]]
    <3>1. CASE child' = [child EXCEPT ![kid[a]].queued = TRUE]
      <4>1. CASE kid[a] \in Children
        <5> DEFINE x == [child[kid[a]] EXCEPT !.queued = TRUE]
        <5>1. child' = [child EXCEPT ![kid[a]] = x]
          BY <3>1
        <5>2. x \in [role : {"none", "review", "remediation"}, status : Statuses,
                     queued : BOOLEAN, alive : BOOLEAN]
          <6>1. child[kid[a]] \in [role : {"none", "review", "remediation"}, status : Statuses,
                                   queued : BOOLEAN, alive : BOOLEAN]
            BY <1>0, <4>1
          <6> QED BY ONLY <6>1
        <5> HIDE DEF x
        <5> QED BY <1>0, <4>1, <5>1, <5>2
      <4>2. CASE kid[a] \notin Children
        <5>1. child' = child
          BY <1>0, <3>1, <4>2
        <5> QED BY <1>0, <5>1
      <4> QED BY <4>1, <4>2
    <3> QED BY <1>0, <1>8, <3>1 DEF Dispatch
  <2>2. events' \in 0..MaxEvents
    BY <1>0, <1>8, Counted DEF Dispatch
  <2> QED BY <1>0, <1>8, <2>1, <2>2 DEF Dispatch
<1>9. CASE Gate(a)
  <2>1. cyc' \in [Actors -> Cycles]
    <3>1. CASE cyc' = [cyc EXCEPT ![a] = Latest + 1] /\ CyclesLeft
      <4>1. Latest + 1 \in Cycles
        BY <3>1, LatestAndOpen, GateAssumption DEF CyclesLeft, Cycles
      <4> QED BY <1>0, <3>1, <4>1
    <3> QED BY <1>0, <1>9, <3>1 DEF Gate
  <2>2. mishaps' \subseteq {"crash", "race", "exhausted"}
    BY <1>0, <1>9 DEF Gate
  <2> QED BY <1>0, <1>9, <2>1, <2>2 DEF Gate
<1>10. CASE Publish(a)
  <2>1. parent' \in [status : Statuses, orch : States, gate : Gates, due : {"never", "later", "now"}]
    BY <1>0, <1>10 DEF Publish, Statuses, States
  <2>2. tries' \in 1..MaxTries /\ opened' \in Nat
    BY <1>0, <1>10, GateAssumption DEF Publish
  <2> QED BY <1>0, <1>10, <2>1, <2>2 DEF Publish
<1>11. CASE Redispatch(a)
  <2>1. events' \in 0..MaxEvents
    BY <1>0, <1>11, Counted DEF Redispatch
  <2> QED BY <1>0, <1>11, <2>1 DEF Redispatch
<1>12. CASE WriteFinish(a)
  <2>1. h.op = "finish"
    BY <1>12 DEF WriteFinish, Next1
  <2>2. parent' \in [status : Statuses, orch : States, gate : Gates, due : {"never", "later", "now"}]
    BY <1>0, <1>1, <1>12, <2>1 DEF WriteFinish
  <2> QED BY <1>0, <1>12, <2>2 DEF WriteFinish
<1>13. CASE CancelWrite(a)
  <2>1. parent' \in [status : Statuses, orch : States, gate : Gates, due : {"never", "later", "now"}]
    BY <1>0, <1>13 DEF CancelWrite, Statuses, States
  <2> QED BY <1>0, <1>13, <2>1 DEF CancelWrite
<1> QED BY <1>2, <1>3, <1>4, <1>5, <1>6, <1>7, <1>8, <1>9, <1>10, <1>11, <1>12, <1>13 DEF Statement

\* The rows of a child and of the parent.
ChildRow == [role : {"none", "review", "remediation"}, status : Statuses, queued : BOOLEAN, alive : BOOLEAN]
ParentRow == [status : Statuses, orch : States, gate : Gates, due : {"never", "later", "now"}]

\* What the consumer writes of a child's row, and when.
LEMMA ChildStarts ==
  ASSUME NEW c \in Children, StartChild(c)
  PROVE  \E x : /\ child' = [child EXCEPT ![c] = x]
                /\ \/ /\ x = [child[c] EXCEPT !.queued = FALSE, !.status = "running", !.alive = TRUE]
                      /\ child[c].status = "pending"
                   \/ /\ x = [child[c] EXCEPT !.queued = FALSE, !.status = "failed"]
                      /\ child[c].status = "pending"
                   \/ x = [child[c] EXCEPT !.queued = FALSE]
<1>1. \/ /\ child[c].status = "pending"
         /\ child' = [child EXCEPT ![c].queued = FALSE, ![c].status = "running", ![c].alive = TRUE]
      \/ /\ child[c].status = "pending"
         /\ child' = [child EXCEPT ![c].queued = FALSE, ![c].status = "failed"]
      \/ child' = [child EXCEPT ![c].queued = FALSE]
  BY DEF StartChild
<1>2. CASE /\ child[c].status = "pending"
           /\ child' = [child EXCEPT ![c].queued = FALSE, ![c].status = "running", ![c].alive = TRUE]
  <2>1. child' = [child EXCEPT ![c] = [child[c] EXCEPT !.queued = FALSE, !.status = "running", !.alive = TRUE]]
    BY <1>2
  <2> QED BY <1>2, <2>1
<1>3. CASE /\ child[c].status = "pending"
           /\ child' = [child EXCEPT ![c].queued = FALSE, ![c].status = "failed"]
  <2>1. child' = [child EXCEPT ![c] = [child[c] EXCEPT !.queued = FALSE, !.status = "failed"]]
    BY <1>3
  <2> QED BY <1>3, <2>1
<1>4. CASE child' = [child EXCEPT ![c].queued = FALSE]
  <2>1. child' = [child EXCEPT ![c] = [child[c] EXCEPT !.queued = FALSE]]
    BY <1>4
  <2> QED BY <2>1
<1> QED BY <1>1, <1>2, <1>3, <1>4

\* The processes keep the types and the scripts.
LEMMA ProcessTypes ==
  ASSUME Types, StartParent \/ ExitParent \/ \E c \in Children : StartChild(c) \/ ExitChild(c)
  PROVE  Types'
<1>0. /\ TypeOK /\ Scripts /\ parent \in ParentRow /\ child \in [Children -> ChildRow]
      /\ {"pending", "running", "completed", "failed", "cancelled"} \subseteq Statuses
      /\ {"queued", "running", "finalizing", "done", "failed"} \subseteq States
  BY DEF Types, TypeOK, ParentRow, ChildRow, Statuses, States
<1>1. CASE StartParent
  <2>1. parent' \in ParentRow
    <3>1. \/ parent' = parent
          \/ parent' = [parent EXCEPT !.status = "running", !.orch = "running"]
          \/ parent' = [parent EXCEPT !.status = "failed", !.orch = "failed"]
      BY <1>1 DEF StartParent
    <3> QED BY <1>0, <3>1 DEF ParentRow
  <2>2. /\ events' \in 0..MaxEvents /\ job' \in BOOLEAN /\ impl' \in BOOLEAN
    BY <1>0, <1>1, Counted DEF StartParent, TypeOK
  <2>3. TypeOK'
    BY <1>0, <1>1, <2>1, <2>2 DEF StartParent, TypeOK, ParentRow
  <2>4. Scripts'
    BY <1>0, <1>1 DEF StartParent, Scripts
  <2> QED BY <2>3, <2>4 DEF Types
<1>2. CASE ExitParent
  <2>1. parent' \in ParentRow
    <3>1. \/ parent' = [parent EXCEPT !.status = "completed", !.orch = "finalizing"]
          \/ parent' = [parent EXCEPT !.status = "failed", !.orch = "failed"]
          \/ parent' = [parent EXCEPT !.orch = "done"]
      BY <1>2 DEF ExitParent
    <3> QED BY <1>0, <3>1 DEF ParentRow
  <2>3. TypeOK'
    BY <1>0, <1>2, <2>1 DEF ExitParent, TypeOK, ParentRow
  <2>4. "impl" \in Actors \ Deciders
    BY Kinds
  <2>5. Scripts'
    BY <1>0, <1>2, <2>4, HandlersFit, PerformKeeps DEF ExitParent, Perform, Scripts
  <2> QED BY <2>3, <2>5 DEF Types
<1>3. ASSUME NEW c \in Children, StartChild(c)
      PROVE  Types'
  <2>1. PICK x : /\ child' = [child EXCEPT ![c] = x]
                 /\ \/ x = [child[c] EXCEPT !.queued = FALSE, !.status = "running", !.alive = TRUE]
                    \/ x = [child[c] EXCEPT !.queued = FALSE, !.status = "failed"]
                    \/ x = [child[c] EXCEPT !.queued = FALSE]
    BY <1>3, ChildStarts
  <2>2. x \in ChildRow
    <3>1. child[c] \in ChildRow
      BY <1>0
    <3> QED BY <1>0, <2>1, <3>1 DEF ChildRow
  <2>3. child' \in [Children -> ChildRow] /\ events' \in 0..MaxEvents
    BY <1>0, <1>3, <2>1, <2>2, Counted DEF StartChild, TypeOK
  <2>4. TypeOK'
    BY <1>0, <1>3, <2>3 DEF StartChild, TypeOK, ChildRow
  <2>5. Scripts'
    BY <1>0, <1>3 DEF StartChild, Scripts
  <2> QED BY <2>4, <2>5 DEF Types
<1>4. ASSUME NEW c \in Children, ExitChild(c)
      PROVE  Types'
  <2>1. PICK s \in {"failed", "completed", "cancelled"} :
          child' = [child EXCEPT ![c] = [child[c] EXCEPT !.alive = FALSE, !.status = s]]
    <3>1. PICK s \in {"failed", IF child[c].status = "cancelled" THEN "cancelled" ELSE "completed"} :
            child' = [child EXCEPT ![c].alive = FALSE, ![c].status = s]
      BY <1>4 DEF ExitChild
    <3>2. s \in {"failed", "completed", "cancelled"}
      BY <3>1
    <3>3. child' = [child EXCEPT ![c] = [child[c] EXCEPT !.alive = FALSE, !.status = s]]
      BY <1>0, <3>1
    <3> QED BY <3>2, <3>3
  <2>2. [child[c] EXCEPT !.alive = FALSE, !.status = s] \in ChildRow
    <3>1. child[c] \in ChildRow
      BY <1>0
    <3> QED BY <1>0, <2>1, <3>1 DEF ChildRow
  <2>3. child' \in [Children -> ChildRow]
    BY <1>0, <2>1, <2>2
  <2>4. TypeOK'
    BY <1>0, <1>4, <2>3 DEF ExitChild, TypeOK, ChildRow
  <2>5. Scripts'
    BY <1>0, <1>4, HandlersFit, PerformKeeps, Kinds DEF ExitChild, Perform
  <2> QED BY <2>4, <2>5 DEF Types
<1> QED BY <1>1, <1>2, <1>3, <1>4

\* What a child's exit handler does of its review or remediation.
LEMMA CompletionTypes ==
  ASSUME Types, NEW c \in Children, Completion(c)
  PROVE  /\ Types' /\ Next1(c, "completion")
         /\ \A b \in Actors : b # c => todo'[b] = todo[b] /\ cyc'[b] = cyc[b]
         /\ \/ todo'[c] = <<>>
            \/ \E k \in Cycles :
                 /\ cyc'[c] = k
                 /\ \/ rec[k].review = c /\ todo'[c] \in {ReviewPassed, AskUser}
                    \/ rec[k].remediation = c /\ todo'[c] \in {RemediationDone, RemediationFailed}
<1>0. TypeOK /\ Scripts /\ c \in Actors /\ Next1(c, "completion")
  BY Kinds DEF Types, Completion, ReviewCompletion, RemediationCompletion
<1>1. PICK s : /\ todo' = [todo EXCEPT ![c] = s]
               /\ \/ s = <<>> /\ cyc' = cyc
                  \/ \E k \in Cycles :
                       /\ cyc' = [cyc EXCEPT ![c] = k]
                       /\ \/ rec[k].review = c /\ s \in {ReviewPassed, AskUser}
                          \/ rec[k].remediation = c /\ s \in {RemediationDone, RemediationFailed}
  <2>1. CASE ReviewCompletion(c)
    BY <2>1 DEF ReviewCompletion, ReviewRecord, Perform
  <2>2. CASE RemediationCompletion(c)
    BY <2>2 DEF RemediationCompletion, Perform
  <2> QED BY <2>1, <2>2 DEF Completion
<1>2. Proper(c, s)
  BY <1>0, <1>1, HandlersFit
<1>3. Scripts' /\ todo'[c] = s /\ \A b \in Actors : b # c => todo'[b] = todo[b]
  BY <1>0, <1>1, <1>2, PerformKeeps
<1>4. cyc' \in [Actors -> Cycles] /\ \A b \in Actors : b # c => cyc'[b] = cyc[b]
  BY <1>0, <1>1 DEF TypeOK
<1>5. UNCHANGED <<parent, job, impl, child, rec, review, kid, tries, used, opened, mishaps, events>>
  BY DEF Completion, ReviewCompletion, RemediationCompletion
<1>6. TypeOK'
  BY <1>0, <1>4, <1>5 DEF TypeOK
<1>7. \/ todo'[c] = <<>>
      \/ \E k \in Cycles :
           /\ cyc'[c] = k
           /\ \/ rec[k].review = c /\ todo'[c] \in {ReviewPassed, AskUser}
              \/ rec[k].remediation = c /\ todo'[c] \in {RemediationDone, RemediationFailed}
  BY <1>0, <1>1, <1>3 DEF TypeOK
<1> QED BY <1>0, <1>3, <1>4, <1>6, <1>7 DEF Types

\* What a decision does: of the user, or of the sweep in the user's place.
LEMMA DecisionTypes ==
  ASSUME Types, NEW a, NEW s,
         \/ a \in Requests /\ (\E d \in Offered : Decide(a, d)) /\ s = todo'[a]
         \/ a = "sweep" /\ Sweep /\ s = todo'[a]
  PROVE  /\ Types' /\ a \in Deciders /\ a \in Actors
         /\ parent.gate = "awaiting_decision" /\ Open # {} /\ Max(Open) \in Open
         /\ cyc'[a] = Max(Open) /\ Raced(Max(Open))
         /\ a = "sweep" => todo[a] = <<>>
         /\ \A b \in Actors : b # a => todo'[b] = todo[b] /\ cyc'[b] = cyc[b]
         /\ \/ a \in Requests /\ s \in {ContinueScript, BlockScript, FixScript, FixExhausted}
            \/ s = TimeoutScript
         /\ UNCHANGED <<parent, job, impl, child, rec, review, kid, tries, opened>>
<1>0. TypeOK /\ Scripts /\ a \in Actors /\ a \in Deciders
  BY Kinds DEF Types, Deciders
<1>1. PICK x : /\ todo' = [todo EXCEPT ![a] = x]
               /\ \/ a \in Requests /\ x \in {ContinueScript, BlockScript, FixScript, FixExhausted}
                  \/ a = "sweep" /\ x = TimeoutScript
  <2>1. ASSUME NEW d \in Offered, Decide(a, d)
        PROVE  \E x \in {ContinueScript, BlockScript, FixScript, FixExhausted} :
                 todo' = [todo EXCEPT ![a] = x]
    <3>1. d \in {"continue", "block", "fix"}
      BY <2>1, GateAssumption DEF Decide, Decisions
    <3>2. CASE d = "continue"
      BY <2>1, <3>2 DEF Decide, Perform
    <3>3. CASE d = "block"
      BY <2>1, <3>3 DEF Decide, Perform
    <3>4. CASE d = "fix"
      BY <2>1, <3>4 DEF Decide, Perform
    <3> QED BY <3>1, <3>2, <3>3, <3>4
  <2>2. Sweep => todo' = [todo EXCEPT !["sweep"] = TimeoutScript]
    BY DEF Sweep, Perform
  <2> QED BY <2>1, <2>2
<1>2. Proper(a, x)
  BY <1>1, DecidersFit
<1>3. Scripts' /\ todo'[a] = x /\ \A b \in Actors : b # a => todo'[b] = todo[b]
  BY <1>0, <1>1, <1>2, PerformKeeps
<1>4. /\ parent.gate = "awaiting_decision" /\ Open # {} /\ cyc' = [cyc EXCEPT ![a] = Max(Open)]
      /\ Raced(Max(Open)) /\ (a = "sweep" => todo[a] = <<>>)
      /\ UNCHANGED <<parent, job, impl, child, rec, review, kid, tries, opened>>
  BY GateAssumption DEF Decide, Sweep
<1>5. Max(Open) \in Open /\ Max(Open) \in Cycles
  BY <1>4, LatestAndOpen
<1>6. cyc' \in [Actors -> Cycles] /\ cyc'[a] = Max(Open) /\ \A b \in Actors : b # a => cyc'[b] = cyc[b]
  BY <1>0, <1>4, <1>5 DEF TypeOK
<1>7. events' \in 0..MaxEvents /\ mishaps' \subseteq {"crash", "race", "exhausted"}
  BY <1>0, <1>4, Counted DEF Raced, TypeOK
<1>8. used' \subseteq Requests
  BY <1>0 DEF Decide, Sweep, TypeOK
<1>9. TypeOK'
  BY <1>0, <1>4, <1>6, <1>7, <1>8 DEF TypeOK
<1> QED BY <1>0, <1>1, <1>3, <1>4, <1>5, <1>6, <1>9 DEF Types

\* A crash takes the scripts of the worker, and nothing starts a child's row anew.
LEMMA CrashTypes ==
  ASSUME Types, Crash
  PROVE  /\ Types'
         /\ \A a \in Actors : todo'[a] = IF a \in Requests THEN todo[a] ELSE <<>>
         /\ ~impl' /\ parent'.gate = parent.gate
         /\ \A c \in Children :
              /\ child'[c].alive = FALSE /\ child'[c].role = child[c].role
              /\ child'[c].status = child[c].status \/ OrphanChild(c)
<1>0. TypeOK /\ Scripts /\ parent \in ParentRow /\ child \in [Children -> ChildRow]
  BY DEF Types, TypeOK, ParentRow, ChildRow
<1>1. \A a \in Actors : todo'[a] = IF a \in Requests THEN todo[a] ELSE <<>>
  BY DEF Crash
<1>2. Scripts'
  <2>1. todo' \in [Actors -> Seq(Statements)]
    <3>1. todo' = [a \in Actors |-> IF a \in Requests THEN todo[a] ELSE <<>>]
      BY DEF Crash
    <3>2. \A a \in Actors : todo[a] \in Seq(Statements)
      BY <1>0 DEF Scripts
    <3>3. <<>> \in Seq(Statements)
      OBVIOUS
    <3> QED BY <3>1, <3>2, <3>3
  <2>2. \A a \in Actors : Proper(a, todo'[a])
    BY <1>0, <1>1, HandlersFit DEF Scripts
  <2> QED BY <2>1, <2>2 DEF Scripts
<1>3. parent' \in ParentRow /\ parent'.gate = parent.gate
  <2>1. \/ parent' = parent
        \/ parent' = [parent EXCEPT !.status = "pending", !.orch = "queued"]
        \/ parent' = [parent EXCEPT !.status = "failed", !.orch = "failed"]
    BY DEF Crash
  <2> QED BY <1>0, <2>1 DEF ParentRow, Statuses, States
<1>4. PICK expired \in SUBSET {c \in Children : OrphanChild(c)} :
       child' = [c \in Children |->
         IF c \in expired THEN [child[c] EXCEPT !.status = "failed", !.alive = FALSE]
         ELSE IF OrphanChild(c)
           THEN [child[c] EXCEPT !.status = "pending", !.alive = FALSE, !.queued = TRUE]
           ELSE [child[c] EXCEPT !.alive = FALSE]]
  BY DEF Crash
<1>5. ASSUME NEW c \in Children
      PROVE  /\ child'[c] \in ChildRow /\ child'[c].alive = FALSE /\ child'[c].role = child[c].role
             /\ child'[c].status = child[c].status \/ OrphanChild(c)
  <2>1. child[c] \in ChildRow
    BY <1>0
  <2>2. \/ child'[c] = [child[c] EXCEPT !.status = "failed", !.alive = FALSE] /\ OrphanChild(c)
        \/ child'[c] = [child[c] EXCEPT !.status = "pending", !.alive = FALSE, !.queued = TRUE] /\ OrphanChild(c)
        \/ child'[c] = [child[c] EXCEPT !.alive = FALSE]
    BY <1>4
  <2> QED BY <2>1, <2>2 DEF ChildRow, Statuses
<1>6. child' \in [Children -> ChildRow]
  BY <1>4, <1>5
<1>7. /\ job' \in BOOLEAN /\ ~impl' /\ impl' \in BOOLEAN /\ events' \in 0..MaxEvents
      /\ mishaps' \subseteq {"crash", "race", "exhausted"}
      /\ UNCHANGED <<rec, review, cyc, kid, tries, used, opened>>
  BY <1>0, Counted DEF Crash, TypeOK
<1>8. TypeOK'
  BY <1>0, <1>3, <1>6, <1>7 DEF TypeOK, ParentRow, ChildRow
<1> QED BY <1>1, <1>2, <1>3, <1>5, <1>7, <1>8 DEF Types

\* The remaining actions keep the types.
LEMMA OtherTypes ==
  ASSUME Types,
         \/ Overdue \/ SwitchReview \/ (\E c \in Children : CancelChild(c))
         \/ (\E q \in Requests : Cancel(q)) \/ UNCHANGED vars
  PROVE  Types'
<1>0. TypeOK /\ Scripts /\ parent \in ParentRow /\ child \in [Children -> ChildRow]
  BY DEF Types, TypeOK, ParentRow, ChildRow
<1>1. CASE Overdue
  <2>1. parent' \in ParentRow
    BY <1>0, <1>1 DEF Overdue, ParentRow
  <2>2. TypeOK' /\ Scripts'
    BY <1>0, <1>1, <2>1 DEF Overdue, TypeOK, Scripts, ParentRow
  <2> QED BY <2>2 DEF Types
<1>2. CASE SwitchReview
  <2>1. TypeOK' /\ Scripts'
    BY <1>0, <1>2, Counted DEF SwitchReview, TypeOK, Scripts
  <2> QED BY <2>1 DEF Types
<1>3. ASSUME NEW c \in Children, CancelChild(c) PROVE Types'
  <2>1. child' \in [Children -> ChildRow]
    <3>1. [child[c] EXCEPT !.status = "cancelled"] \in ChildRow
      BY <1>0 DEF ChildRow, Statuses
    <3>2. child' = [child EXCEPT ![c] = [child[c] EXCEPT !.status = "cancelled"]]
      BY <1>3 DEF CancelChild
    <3> QED BY <1>0, <3>1, <3>2
  <2>2. TypeOK' /\ Scripts'
    BY <1>0, <1>3, <2>1, Counted DEF CancelChild, TypeOK, Scripts, ChildRow
  <2> QED BY <2>2 DEF Types
<1>4. ASSUME NEW q \in Requests, Cancel(q) PROVE Types'
  <2>1. Scripts'
    BY <1>0, <1>4, DecidersFit, PerformKeeps, Kinds DEF Cancel, Perform, Deciders
  <2>2. TypeOK'
    BY <1>0, <1>4 DEF Cancel, TypeOK
  <2> QED BY <2>1, <2>2 DEF Types
<1>5. CASE UNCHANGED vars
  BY <1>0, <1>5 DEF vars, TypeOK, Scripts, Types
<1> QED BY <1>1, <1>2, <1>3, <1>4, <1>5

\* The types of the rows and the records, and the scripts, hold initially.
LEMMA TypesInit == Init => Types
<1> SUFFICES ASSUME Init PROVE Types
  OBVIOUS
<1>1. TypeOK
  <2>1. /\ parent \in ParentRow /\ child \in [Children -> ChildRow]
        /\ rec \in [Cycles -> [status : RecordStatuses, review : Children \cup {NoChild},
                               remediation : Children \cup {NoChild}]]
    BY DEF Init, ParentRow, ChildRow, Statuses, States, Gates, RecordStatuses, Unborn, NoRecord
  <2>2. cyc \in [Actors -> Cycles] /\ kid \in [Actors -> Children \cup {NoChild}]
    BY GateAssumption DEF Init, Cycles
  <2>3. /\ tries \in 1..MaxTries /\ events \in 0..MaxEvents /\ opened \in Nat
        /\ job \in BOOLEAN /\ impl \in BOOLEAN /\ review \in BOOLEAN
        /\ used \subseteq Requests /\ mishaps \subseteq {"crash", "race", "exhausted"}
    <3>1. /\ tries = 1 /\ events = 0 /\ opened = 0 /\ job = TRUE /\ impl = FALSE /\ review = TRUE
          /\ used = {} /\ mishaps = {}
      BY DEF Init
    <3>2. MaxTries \in Nat /\ MaxTries # 0 /\ MaxEvents \in Nat
      BY GateAssumption
    <3>3. 1 \in 1..MaxTries /\ 0 \in 0..MaxEvents
      BY <3>2
    <3> QED BY <3>1, <3>3
  <2> QED BY <2>1, <2>2, <2>3 DEF TypeOK, ParentRow, ChildRow
<1>2. Scripts
  <2>1. todo = [a \in Actors |-> <<>>] /\ <<>> \in Seq(Statements)
    BY DEF Init
  <2> QED BY <2>1, HandlersFit DEF Scripts
<1> QED BY <1>1, <1>2 DEF Types

\* Every step keeps them.
LEMMA TypesKept == Types /\ [Next]_vars => Types'
<1> SUFFICES ASSUME Types, [Next]_vars PROVE Types'
  OBVIOUS
<1>1. ASSUME NEW a \in Actors, Statement(a) PROVE Types'
  BY <1>1, StatementTypes, AfterStatement DEF Types
<1>2. CASE StartParent \/ ExitParent \/ \E c \in Children : StartChild(c) \/ ExitChild(c)
  BY <1>2, ProcessTypes
<1>3. ASSUME NEW c \in Children, Completion(c) PROVE Types'
  BY <1>3, CompletionTypes
<1>4. CASE Sweep \/ \E q \in Requests, d \in Offered : Decide(q, d)
  BY <1>4, DecisionTypes
<1>5. CASE Crash
  BY <1>5, CrashTypes
<1>6. CASE \/ Overdue \/ SwitchReview \/ (\E c \in Children : CancelChild(c))
           \/ (\E q \in Requests : Cancel(q)) \/ UNCHANGED vars
  BY <1>6, OtherTypes
<1> QED BY <1>1, <1>2, <1>3, <1>4, <1>5, <1>6 DEF Next

\* The rows of the parent and of its children, the records of the cycles and the
\* scripts under way keep their types, whoever writes them in whatever order.
THEOREM GateTypes == Spec => []TypeOK
<1>1. Spec => []Types
  BY TypesInit, TypesKept, PTL DEF Spec
<1>2. Types => TypeOK
  BY DEF Types
<1> QED BY <1>1, <1>2, PTL

-----------------------------------------------------------------------------
(* One process at a time: whoever acts for the parent - a queue entry, a   *)
(* process, a script - is alone, and hands over to one other.              *)

NoTrouble == mishaps \cap {"crash", "race"} = {}
Working(a) == todo[a] # <<>> /\ Head(todo[a]).op # "cancel"
Idle == \A a \in Actors : ~Working(a)
Out(c) == child[c].queued \/ child[c].alive
Still == \A c \in Children : ~Out(c)
Vacant == ~job /\ ~impl /\ Still

Hands ==
  /\ job => ~impl /\ Idle /\ Still
  /\ impl => Idle /\ Still
  /\ \A a \in Actors : Working(a) => Still /\ \A b \in Actors : Working(b) => a = b
  /\ \A c, d \in Children : Out(c) /\ Out(d) => c = d
  /\ \A c \in Children : ~(child[c].queued /\ child[c].alive)

\* While a decision is awaited only one who takes it works.
WhileAwaiting ==
  parent.gate = "awaiting_decision" =>
    /\ Vacant
    /\ \A a \in Actors : Working(a) =>
         /\ a \in Deciders /\ Head(todo[a]).op \in {"record", "save", "linkFix", "parent"}
         /\ Open # {} => Open = {cyc[a]}
         /\ Next1(a, "parent") => Open = {} \/ Tail(todo[a]) = <<>>

\* A cycle is open without the gate only until the gate is written.
BeforeAwaiting ==
  Open # {} /\ parent.gate # "awaiting_decision" =>
    /\ Vacant
    /\ \A a \in Actors : Working(a) => Next1(a, "parent") /\ Head(todo[a]).gate = "awaiting_decision"

OneOpen == \A j, k \in Open : j = k

Alone == Hands /\ WhileAwaiting /\ BeforeAwaiting /\ OneOpen
AloneInv == NoTrouble => Alone

\* Troubles are remembered.
LEMMA TroublesStay ==
  ASSUME Types, [Next]_vars
  PROVE  mishaps \subseteq mishaps'
<1>1. ASSUME NEW a \in Actors, Statement(a) PROVE mishaps \subseteq mishaps'
  BY <1>1 DEF Statement, WriteRecord, WriteParent, MarkBlocked, SaveChild, SaveRecord, LinkFix, Dispatch,
              Gate, Publish, Redispatch, WriteFinish, CancelWrite
<1>2. ASSUME NEW c \in Children, StartChild(c) \/ ExitChild(c) \/ Completion(c) \/ CancelChild(c)
      PROVE  mishaps \subseteq mishaps'
  BY <1>2 DEF StartChild, ExitChild, Completion, ReviewCompletion, RemediationCompletion, CancelChild
<1>3. ASSUME NEW q \in Requests, Cancel(q) \/ \E d \in Offered : Decide(q, d)
      PROVE  mishaps \subseteq mishaps'
  BY <1>3 DEF Cancel, Decide, Raced
<1>4. CASE StartParent \/ ExitParent \/ Overdue \/ Sweep \/ SwitchReview \/ Crash
  BY <1>4 DEF StartParent, ExitParent, Overdue, Sweep, Raced, SwitchReview, Crash
<1>5. CASE UNCHANGED vars
  BY <1>5 DEF vars
<1> QED BY <1>1, <1>2, <1>3, <1>4, <1>5 DEF Next

\* Where nobody stands alone with a decision, none is awaited and no cycle is open.
LEMMA NothingAwaited ==
  ASSUME Alone,
         \/ ~Vacant
         \/ \E a \in Actors : Working(a) /\ Head(todo[a]).op \notin {"record", "save", "linkFix", "parent"}
  PROVE  parent.gate # "awaiting_decision" /\ Open = {}
  BY DEF Alone, WhileAwaiting, BeforeAwaiting, Next1

\* What a statement other than the cancellation does to the queue, the processes and the cycles:
\* before it, its actor is alone.
LEMMA AloneAtWork ==
  ASSUME Types, Alone, NEW a \in Actors, Statement(a), Working(a)
  PROVE  /\ Vacant /\ \A b \in Actors : Working(b) => a = b
         /\ impl' = impl /\ \A b \in Actors : Working(b)' => a = b
<1>1. Vacant /\ \A b \in Actors : Working(b) => a = b
  BY DEF Alone, Hands, Vacant, Idle
<1>2. \A b \in Actors : b # a => todo'[b] = todo[b]
  BY AfterStatement DEF Types
<1>3. impl' = impl
  BY DEF Statement, WriteRecord, WriteParent, MarkBlocked, SaveChild, SaveRecord, LinkFix, Dispatch,
         Gate, Publish, Redispatch, WriteFinish, CancelWrite
<1>4. \A b \in Actors : Working(b)' => a = b
  BY <1>1, <1>2 DEF Working
<1> QED BY <1>1, <1>3, <1>4

\* Hands are kept where nothing enters the queue and nobody starts to work.
LEMMA HandsKept ==
  ASSUME Hands, Vacant', NEW a \in Actors, \A b \in Actors : Working(b)' => a = b
  PROVE  Hands'
  BY DEF Hands, Vacant, Still, Idle, Out

\* The open cycles after the status of one was written.
LEMMA OpenAfter ==
  ASSUME TypeOK, NEW j \in Cycles, NEW s, rec'[j].status = s,
         \A k \in Cycles : k # j => rec'[k].status = rec[k].status
  PROVE  Open' = IF s = "awaiting_decision" THEN Open \cup {j} ELSE Open \ {j}
  BY DEF Open

\* A statement that writes a record keeps one actor at a time.
LEMMA RecordAlone ==
  ASSUME Types, Alone, NEW a \in Actors, WriteRecord(a) \/ LinkFix(a) \/ SaveRecord(a)
  PROVE  Alone'
<1>0. /\ TypeOK /\ Scripts /\ Statement(a) /\ todo[a] # <<>>
      /\ Head(todo[a]).op \in {"record", "linkFix", "saveRecord"} /\ Working(a)
      /\ cyc[a] \in Cycles
  BY DEF Types, TypeOK, Statement, WriteRecord, LinkFix, SaveRecord, Next1, Working
<1>1. UNCHANGED <<parent, job, impl, child, cyc>>
  BY DEF WriteRecord, LinkFix, SaveRecord
<1>2. /\ Vacant /\ \A b \in Actors : Working(b) => a = b
      /\ impl' = impl /\ \A b \in Actors : Working(b)' => a = b
  BY <1>0, AloneAtWork
<1>3. Vacant'
  BY <1>1, <1>2 DEF Vacant, Still, Out
<1>4. Hands'
  BY <1>2, <1>3, HandsKept DEF Alone
<1> DEFINE h == Head(todo[a])
<1>5. todo'[a] = Tail(todo[a]) \/ (todo'[a] = <<>> /\ h.op = "saveRecord")
  BY <1>0, AfterStatement
<1>6. /\ Allowed(a, h) /\ (Tail(todo[a]) # <<>> => Follows(h, Head(Tail(todo[a]))))
  BY <1>0, NextStatement
<1>7. CASE h.op = "saveRecord"
  <2>1. parent.gate # "awaiting_decision" /\ Open = {}
    BY <1>0, <1>7, NothingAwaited
  <2>2. SaveRecord(a)
    BY <1>7 DEF WriteRecord, LinkFix, Next1
  <2>3. \A k \in Cycles : rec'[k].status # "awaiting_decision"
    <3>1. \A k \in Cycles : rec[k].status # "awaiting_decision"
      BY <2>1 DEF Open
    <3> DEFINE r == [NoRecord EXCEPT !.status = "review_running", !.review = kid[a]]
    <3>2. r.status # "awaiting_decision"
      BY DEF NoRecord
    <3>3. rec' = rec \/ rec' = [rec EXCEPT ![cyc[a]] = r]
      BY <2>2 DEF SaveRecord
    <3> HIDE DEF r
    <3> QED BY <1>0, <3>1, <3>2, <3>3 DEF TypeOK
  <2>4. Open' = {}
    BY <2>3 DEF Open
  <2> QED BY <1>1, <1>4, <2>1, <2>4 DEF Alone, WhileAwaiting, BeforeAwaiting, OneOpen
<1>8. CASE h.op = "record" \/ h.op = "linkFix"
  <2>1. PICK s : /\ rec'[cyc[a]].status = s /\ \A k \in Cycles : k # cyc[a] => rec'[k].status = rec[k].status
                 /\ s = IF h.op = "record" THEN h.status ELSE "remediation_running"
    <3>1. CASE WriteRecord(a)
      <4>1. rec' = [rec EXCEPT ![cyc[a]].status = h.status] /\ h.op = "record"
        BY <3>1 DEF WriteRecord, Next1
      <4>2. rec \in [Cycles -> [status : RecordStatuses, review : Children \cup {NoChild},
                               remediation : Children \cup {NoChild}]]
        BY <1>0 DEF TypeOK
      <4>3. rec'[cyc[a]].status = h.status /\ \A k \in Cycles : k # cyc[a] => rec'[k].status = rec[k].status
        BY <1>0, <4>1, <4>2
      <4> QED BY <4>1, <4>3
    <3>2. CASE LinkFix(a)
      BY <1>0, <3>2 DEF LinkFix, Next1, TypeOK
    <3> QED BY <1>8, <3>1, <3>2 DEF SaveRecord, Next1
  <2>2. Open' = IF s = "awaiting_decision" THEN Open \cup {cyc[a]} ELSE Open \ {cyc[a]}
    BY <1>0, <2>1, OpenAfter
  <2>3. CASE parent.gate = "awaiting_decision"
    <3>1. a \in Deciders /\ (Open # {} => Open = {cyc[a]})
      BY <1>0, <2>3 DEF Alone, WhileAwaiting
    <3>2. s # "awaiting_decision"
      BY <1>6, <1>8, <2>1, <3>1, Kinds DEF Allowed
    <3>3. Open' = {}
      BY <2>2, <3>1, <3>2
    <3>4. todo'[a] # <<>> => Head(todo'[a]).op = "parent"
      BY <1>5, <1>6, <1>8, <2>1, <3>1, Kinds DEF Follows, Allowed
    <3>5. WhileAwaiting'
      BY <1>2, <1>3, <3>1, <3>3, <3>4 DEF WhileAwaiting, Working
    <3> QED BY <1>1, <1>4, <3>3, <3>5 DEF Alone, BeforeAwaiting, OneOpen
  <2>4. CASE parent.gate # "awaiting_decision"
    <3>1. Open = {}
      BY <1>0, <1>8, <2>4 DEF Alone, BeforeAwaiting, Next1
    <3>2. Open' # {} => s = "awaiting_decision" /\ Open' = {cyc[a]}
      BY <2>2, <3>1
    <3>3. s = "awaiting_decision" /\ todo'[a] # <<>> =>
            Head(todo'[a]).op = "parent" /\ Head(todo'[a]).gate = "awaiting_decision"
      BY <1>5, <1>6, <1>8, <2>1 DEF Follows
    <3>4. BeforeAwaiting'
      BY <1>2, <1>3, <3>2, <3>3 DEF BeforeAwaiting, Working, Next1
    <3>5. OneOpen'
      BY <3>2 DEF OneOpen
    <3> QED BY <1>1, <1>4, <2>4, <3>4, <3>5 DEF Alone, WhileAwaiting
  <2> QED BY <2>3, <2>4
<1> QED BY <1>0, <1>7, <1>8

\* So does a statement that writes the gate.
LEMMA ParentAlone ==
  ASSUME Types, Alone, NEW a \in Actors, WriteParent(a) \/ MarkBlocked(a)
  PROVE  Alone'
<1>0. /\ TypeOK /\ Scripts /\ Statement(a) /\ todo[a] # <<>>
      /\ Head(todo[a]).op \in {"parent", "markBlocked"} /\ Working(a)
  BY DEF Types, Statement, WriteParent, MarkBlocked, Next1, Working
<1>1. UNCHANGED <<rec, job, impl, child, cyc>>
  BY DEF WriteParent, MarkBlocked
<1>2. /\ Vacant /\ \A b \in Actors : Working(b) => a = b
      /\ impl' = impl /\ \A b \in Actors : Working(b)' => a = b
  BY <1>0, AloneAtWork
<1>3. Vacant' /\ Open' = Open
  BY <1>1, <1>2 DEF Vacant, Still, Out, Open
<1>4. Hands'
  BY <1>2, <1>3, HandsKept DEF Alone
<1>5. OneOpen'
  BY <1>3 DEF OneOpen, Alone
<1> DEFINE h == Head(todo[a])
<1>6. /\ Allowed(a, h) /\ (Tail(todo[a]) # <<>> => Follows(h, Head(Tail(todo[a]))))
      /\ todo'[a] = Tail(todo[a]) \/ todo'[a] = <<>>
  BY <1>0, NextStatement, AfterStatement
<1>7. CASE h.op = "markBlocked"
  <2>1. parent.gate # "awaiting_decision" /\ Open = {}
    BY <1>0, <1>7, NothingAwaited
  <2>2. parent'.gate = "decision_block"
    BY <1>0, <1>7 DEF WriteParent, MarkBlocked, Next1, TypeOK
  <2> QED BY <1>3, <1>4, <1>5, <2>1, <2>2 DEF Alone, WhileAwaiting, BeforeAwaiting
<1>8. CASE h.op = "parent"
  <2>1. \/ parent' = parent /\ todo'[a] = <<>>
        \/ parent'.gate = h.gate /\ todo'[a] = Tail(todo[a])
    <3>1. WriteParent(a)
      BY <1>8 DEF MarkBlocked, Next1
    <3>2. CASE Throws(a) /\ parent' = parent
      BY <1>0, <3>2 DEF Throws, Perform, Scripts
    <3>3. CASE Advance(a) /\ parent'.gate = h.gate
      BY <1>0, <3>3, AdvanceKeeps
    <3> QED BY <3>1, <3>2, <3>3 DEF WriteParent
  <2>2. CASE parent' = parent /\ todo'[a] = <<>>
    <3>1. Idle'
      BY <1>2, <2>2 DEF Idle, Working
    <3> QED BY <1>3, <1>4, <1>5, <2>2, <3>1 DEF Alone, WhileAwaiting, BeforeAwaiting, Idle
  <2>3. CASE parent'.gate = h.gate /\ todo'[a] = Tail(todo[a])
    <3>1. CASE h.gate = "awaiting_decision"
      <4>1. todo'[a] = <<>>
        BY <1>6, <1>8, <2>3, <3>1 DEF Follows, LetPass
      <4>2. Idle'
        BY <1>2, <4>1 DEF Idle, Working
      <4> QED BY <1>3, <1>4, <1>5, <2>3, <3>1, <4>2 DEF Alone, WhileAwaiting, BeforeAwaiting, Idle
    <3>2. CASE h.gate # "awaiting_decision"
      <4>1. Open' # {} => todo'[a] = <<>>
        BY <1>0, <1>3, <1>8, <2>3, <3>2 DEF Alone, WhileAwaiting, BeforeAwaiting, Next1
      <4>2. Open' # {} => Idle'
        BY <1>2, <4>1 DEF Idle, Working
      <4>3. WhileAwaiting'
        BY <2>3, <3>2 DEF WhileAwaiting
      <4>4. BeforeAwaiting'
        BY <1>3, <4>2 DEF BeforeAwaiting, Idle
      <4> QED BY <1>4, <1>5, <4>3, <4>4 DEF Alone
    <3> QED BY <3>1, <3>2
  <2> QED BY <2>1, <2>2, <2>3
<1> QED BY <1>0, <1>7, <1>8

\* And one that writes neither, or hands over to a queue entry.
LEMMA OtherAlone ==
  ASSUME Types, Alone, NEW a \in Actors,
         \/ SaveChild(a) \/ Gate(a) \/ Publish(a) \/ WriteFinish(a) \/ Dispatch(a) \/ Redispatch(a)
         \/ CancelWrite(a)
  PROVE  Alone'
<1>0. /\ TypeOK /\ Scripts /\ Statement(a) /\ todo[a] # <<>>
      /\ Head(todo[a]).op \in {"save", "gate", "publish", "finish", "dispatch", "redispatch", "cancel"}
  BY DEF Types, Statement, SaveChild, Gate, Publish, WriteFinish, Dispatch, Redispatch, CancelWrite, Next1
<1>1. rec' = rec /\ parent'.gate = parent.gate /\ Open' = Open
  <2>1. rec' = rec
    BY DEF SaveChild, Gate, Publish, WriteFinish, Dispatch, Redispatch, CancelWrite
  <2>2. parent'.gate = parent.gate
    BY <1>0 DEF SaveChild, Gate, Publish, WriteFinish, Dispatch, Redispatch, CancelWrite, TypeOK
  <2> QED BY <2>1, <2>2 DEF Open
<1>2. OneOpen'
  BY <1>1 DEF OneOpen, Alone
<1> DEFINE h == Head(todo[a])
<1>3. /\ Allowed(a, h) /\ (Tail(todo[a]) # <<>> => Follows(h, Head(Tail(todo[a]))))
      /\ h.op # "save" /\ h.op # "gate" => Tail(todo[a]) = <<>>
  BY <1>0, NextStatement
<1>4. \A b \in Actors : b # a => todo'[b] = todo[b]
  BY <1>0, AfterStatement
<1>5. CASE h.op = "cancel"
  <2>1. CancelWrite(a) /\ todo'[a] = <<>>
    BY <1>0, <1>3, <1>5, AfterStatement DEF SaveChild, Gate, Publish, WriteFinish, Dispatch, Redispatch, Next1
  <2>2. UNCHANGED <<job, impl, child, cyc>>
    BY <2>1 DEF CancelWrite
  <2>3. \A b \in Actors : Working(b)' => b # a /\ Working(b) /\ todo'[b] = todo[b]
    BY <1>4, <2>1 DEF Working
  <2>4. Hands' /\ (Vacant => Vacant')
    BY <2>2, <2>3 DEF Alone, Hands, Vacant, Still, Idle, Out
  <2>5. WhileAwaiting'
    BY <1>1, <2>2, <2>3, <2>4 DEF Alone, WhileAwaiting, Next1
  <2>6. BeforeAwaiting'
    BY <1>1, <2>3, <2>4 DEF Alone, BeforeAwaiting, Next1
  <2> QED BY <1>2, <2>4, <2>5, <2>6 DEF Alone
<1>6. CASE h.op # "cancel"
  <2>0. Working(a)
    BY <1>0, <1>6 DEF Working
  <2>1. /\ Vacant /\ \A b \in Actors : Working(b) => a = b
        /\ impl' = impl /\ \A b \in Actors : Working(b)' => a = b
    BY <1>0, <2>0, AloneAtWork
  <2>2. CASE h.op = "save"
    <3>1. SaveChild(a) /\ todo'[a] = Tail(todo[a])
      BY <1>0, <2>2, AfterStatement DEF Gate, Publish, WriteFinish, Dispatch, Redispatch, CancelWrite, Next1
    <3>2. job' = job /\ cyc' = cyc
      BY <3>1 DEF SaveChild
    <3>3. \A c \in Children : child'[c].queued = child[c].queued /\ child'[c].alive = child[c].alive
      BY <1>0, <3>1 DEF SaveChild, TypeOK
    <3>4. Vacant'
      BY <2>1, <3>2, <3>3 DEF Vacant, Still, Out
    <3>5. Hands'
      BY <2>1, <3>4, HandsKept DEF Alone
    <3>6. parent.gate = "awaiting_decision" =>
            a \in Deciders /\ (todo'[a] # <<>> => Head(todo'[a]).op = "linkFix")
      <4>1. parent.gate = "awaiting_decision" => a \in Deciders
        BY <2>0 DEF Alone, WhileAwaiting
      <4>2. todo'[a] # <<>> => Head(todo'[a]).op \in {"linkFix", "saveRecord"} /\ Allowed(a, Head(todo'[a]))
        BY <1>0, <1>3, <2>2, <3>1, NextStatement DEF Follows
      <4> QED BY <4>1, <4>2 DEF Allowed
    <3>7. WhileAwaiting'
      BY <1>1, <2>0, <2>1, <3>2, <3>4, <3>6 DEF Alone, WhileAwaiting, Working, Next1
    <3>8. BeforeAwaiting'
      BY <1>1, <2>0, <2>2 DEF Alone, BeforeAwaiting, Next1
    <3> QED BY <1>2, <3>5, <3>7, <3>8 DEF Alone
  <2>3. CASE h.op # "save"
    <3>1. parent.gate # "awaiting_decision" /\ Open = {}
      BY <1>0, <1>6, <2>0, <2>3, NothingAwaited
    <3>2. WhileAwaiting' /\ BeforeAwaiting'
      BY <1>1, <3>1 DEF WhileAwaiting, BeforeAwaiting
    <3>3. Hands'
      <4>1. CASE UNCHANGED <<job, child>>
        <5>1. Vacant'
          BY <2>1, <4>1 DEF Vacant, Still, Out
        <5> QED BY <2>1, <5>1, HandsKept DEF Alone
      <4>2. CASE Redispatch(a) /\ job' = TRUE
        <5>1. todo'[a] = <<>> /\ child' = child
          <6>1. Advance(a) /\ h.op = "redispatch" /\ child' = child
            BY <2>1, <4>2 DEF Redispatch, Vacant, Next1
          <6> QED BY <1>0, <1>3, <6>1, AdvanceKeeps
        <5>2. Idle' /\ Still'
          BY <2>1, <5>1 DEF Idle, Working, Vacant, Still, Out
        <5> QED BY <2>1, <5>1, <5>2 DEF Hands, Vacant, Idle, Still, Out
      <4>3. CASE Dispatch(a) /\ child' = [child EXCEPT ![kid[a]].queued = TRUE]
        <5>1. todo'[a] = <<>> /\ job' = job
          BY <1>0, <1>3, <2>3, <4>3, AfterStatement DEF Dispatch, Next1
        <5>2. Idle'
          BY <2>1, <5>1 DEF Idle, Working
        <5>3. \A c \in Children : /\ child'[c].alive = child[c].alive
                                  /\ child'[c].queued => child[c].queued \/ c = kid[a]
          BY <1>0, <4>3 DEF TypeOK
        <5>4. \A c \in Children : Out(c)' => c = kid[a] /\ ~child'[c].alive
          BY <2>1, <5>3 DEF Vacant, Still, Out
        <5> QED BY <2>1, <5>1, <5>2, <5>4 DEF Hands, Vacant, Idle, Out
      <4> QED BY <1>0, <1>6, <2>3, <4>1, <4>2, <4>3
              DEF Gate, Publish, WriteFinish, Dispatch, Redispatch, SaveChild, CancelWrite, Next1
    <3> QED BY <1>2, <3>2, <3>3 DEF Alone
  <2> QED BY <2>2, <2>3
<1> QED BY <1>5, <1>6

\* A process that starts, and one that ends, hand over to one other.
LEMMA ProcessAlone ==
  ASSUME Types, Alone, StartParent \/ ExitParent \/ \E c \in Children : StartChild(c) \/ ExitChild(c)
  PROVE  Alone'
<1>0. TypeOK /\ Scripts
  BY DEF Types
<1>1. parent.gate # "awaiting_decision" /\ Open = {}
  <2>1. ~Vacant
    BY DEF StartParent, ExitParent, StartChild, ExitChild, Vacant, Still, Out
  <2> QED BY <2>1, NothingAwaited
<1>2. parent'.gate # "awaiting_decision" /\ Open' = {}
  <2>1. rec' = rec
    BY DEF StartParent, ExitParent, StartChild, ExitChild
  <2>2. parent'.gate = parent.gate
    BY <1>0 DEF StartParent, ExitParent, StartChild, ExitChild, TypeOK
  <2> QED BY <1>1, <2>1, <2>2 DEF Open
<1>3. Hands'
  <2>1. CASE StartParent
    <3>1. UNCHANGED <<child, todo>> /\ job /\ ~job'
      BY <2>1 DEF StartParent
    <3> QED BY <3>1 DEF Alone, Hands, Idle, Still, Out, Working
  <2>2. CASE ExitParent
    <3>1. /\ UNCHANGED <<job, child>> /\ impl /\ ~impl' /\ ~job
          /\ \A b \in Actors : b # "impl" => todo'[b] = todo[b]
      <4>1. UNCHANGED <<job, child>> /\ impl /\ ~impl'
        BY <2>2 DEF ExitParent
      <4>2. todo' = todo \/ todo' = [todo EXCEPT !["impl"] = <<Do("gate")>>]
        BY <2>2 DEF ExitParent, Perform
      <4> QED BY <1>0, <4>1, <4>2 DEF Scripts, Alone, Hands
    <3>2. Vacant' /\ \A b \in Actors : Working(b)' => "impl" = b
      BY <3>1 DEF Alone, Hands, Idle, Vacant, Still, Out, Working
    <3> QED BY <3>2, Kinds, HandsKept DEF Alone
  <2>3. ASSUME NEW c \in Children, StartChild(c) PROVE Hands'
    <3>1. UNCHANGED <<job, impl, todo>> /\ child[c].queued
      BY <2>3 DEF StartChild
    <3>2. PICK x : /\ child' = [child EXCEPT ![c] = x] /\ ~x.queued
      <4>1. PICK x : /\ child' = [child EXCEPT ![c] = x]
                     /\ \/ x = [child[c] EXCEPT !.queued = FALSE, !.status = "running", !.alive = TRUE]
                        \/ x = [child[c] EXCEPT !.queued = FALSE, !.status = "failed"]
                        \/ x = [child[c] EXCEPT !.queued = FALSE]
        BY <2>3, ChildStarts
      <4>2. child[c] \in ChildRow
        BY <1>0 DEF TypeOK, ChildRow
      <4>3. ~x.queued
        BY <4>1, <4>2 DEF ChildRow
      <4> QED BY <4>1, <4>3
    <3>3. ~child'[c].queued /\ \A d \in Children : d # c => child'[d] = child[d]
      BY <1>0, <3>2 DEF TypeOK
    <3>4. Idle /\ ~job /\ ~impl /\ \A d \in Children : Out(d) => d = c
      BY <3>1 DEF Alone, Hands, Idle, Still, Out
    <3>5. Idle' /\ ~job' /\ ~impl' /\ \A d \in Children : Out(d)' => d = c
      BY <3>1, <3>3, <3>4 DEF Idle, Working, Out
    <3> QED BY <3>3, <3>5 DEF Hands, Idle, Out
  <2>4. ASSUME NEW c \in Children, ExitChild(c) PROVE Hands'
    <3>1. UNCHANGED <<job, impl>> /\ child[c].alive /\ todo' = [todo EXCEPT ![c] = <<Do("completion")>>]
      BY <2>4 DEF ExitChild, Perform
    <3>2. PICK s : child' = [child EXCEPT ![c].alive = FALSE, ![c].status = s]
      BY <2>4 DEF ExitChild
    <3>3. ~child'[c].alive /\ child'[c].queued = child[c].queued
          /\ \A d \in Children : d # c => child'[d] = child[d]
      BY <1>0, <3>2 DEF TypeOK
    <3>4. Idle /\ ~job /\ ~impl /\ ~child[c].queued /\ \A d \in Children : Out(d) => d = c
      BY <3>1 DEF Alone, Hands, Idle, Still, Out
    <3>5. Vacant'
      BY <3>1, <3>3, <3>4 DEF Vacant, Still, Out
    <3>6. c \in Actors /\ \A b \in Actors : Working(b)' => c = b
      BY <1>0, <3>1, <3>4, Kinds DEF Scripts, Idle, Working
    <3> QED BY <3>5, <3>6, HandsKept DEF Alone
  <2> QED BY <2>1, <2>2, <2>3, <2>4
<1> QED BY <1>2, <1>3 DEF Alone, WhileAwaiting, BeforeAwaiting, OneOpen

\* A decision taken while nobody takes one is taken by one actor.
LEMMA DecisionAlone ==
  ASSUME Types, Alone, NoTrouble', NEW a,
         (a \in Requests /\ \E d \in Offered : Decide(a, d)) \/ (a = "sweep" /\ Sweep)
  PROVE  Alone'
<1>1. /\ a \in Deciders /\ a \in Actors /\ parent.gate = "awaiting_decision" /\ Open # {}
      /\ Max(Open) \in Open /\ cyc'[a] = Max(Open) /\ Raced(Max(Open))
      /\ \A b \in Actors : b # a => todo'[b] = todo[b] /\ cyc'[b] = cyc[b]
      /\ todo'[a] \in {ContinueScript, BlockScript, FixScript, FixExhausted, TimeoutScript}
      /\ UNCHANGED <<parent, job, impl, child, rec>>
  BY DecisionTypes
<1>2. Vacant /\ Open = {Max(Open)}
  BY <1>1 DEF Alone, WhileAwaiting, OneOpen
<1>3. Idle
  <2> SUFFICES ASSUME NEW b \in Actors, Working(b) PROVE FALSE
    BY DEF Idle
  <2>1. b \in Deciders /\ cyc[b] = Max(Open) /\ todo[b] # <<>>
    BY <1>1, <1>2 DEF Alone, WhileAwaiting, Working
  <2>2. b \in DecidersOf(Max(Open))
    BY <2>1 DEF DecidersOf, Deciders
  <2>3. "race" \in mishaps'
    BY <1>1, <2>2 DEF Raced
  <2> QED BY <2>3 DEF NoTrouble
<1>4. Vacant' /\ Open' = Open
  BY <1>1, <1>2 DEF Vacant, Still, Out, Open
<1>5. \A b \in Actors : Working(b)' => a = b
  BY <1>1, <1>3 DEF Idle, Working
<1>6. Hands'
  BY <1>1, <1>4, <1>5, HandsKept DEF Alone
<1>7. /\ Head(todo'[a]).op \in {"record", "save", "parent"}
      /\ Head(todo'[a]).op = "parent" => Tail(todo'[a]) = <<>>
  BY <1>1, Beginnings, Fields DEF FailParent
<1>8. WhileAwaiting'
  BY <1>1, <1>2, <1>4, <1>5, <1>7 DEF WhileAwaiting, Next1
<1>9. BeforeAwaiting' /\ OneOpen'
  BY <1>1, <1>4 DEF BeforeAwaiting, OneOpen, Alone
<1> QED BY <1>6, <1>8, <1>9 DEF Alone

\* The remaining actions leave one actor at a time.
LEMMA RestAlone ==
  ASSUME Types, Alone,
         \/ Overdue \/ SwitchReview \/ (\E c \in Children : CancelChild(c) \/ Completion(c))
         \/ (\E q \in Requests : Cancel(q)) \/ UNCHANGED vars
  PROVE  Alone'
<1>0. TypeOK /\ Scripts
  BY DEF Types
<1>1. CASE Overdue \/ SwitchReview \/ (\E c \in Children : CancelChild(c)) \/ UNCHANGED vars
  <2>1. /\ UNCHANGED <<job, impl, rec, todo, cyc>> /\ parent'.gate = parent.gate
        /\ \A c \in Children : child'[c].queued = child[c].queued /\ child'[c].alive = child[c].alive
    <3>1. CASE Overdue
      BY <1>0, <3>1 DEF Overdue, TypeOK
    <3>2. CASE SwitchReview
      BY <3>2 DEF SwitchReview
    <3>3. ASSUME NEW c \in Children, CancelChild(c)
          PROVE  /\ UNCHANGED <<job, impl, rec, todo, cyc, parent>>
                 /\ \A d \in Children : child'[d].queued = child[d].queued /\ child'[d].alive = child[d].alive
      BY <1>0, <3>3 DEF CancelChild, TypeOK
    <3>4. CASE UNCHANGED vars
      BY <3>4 DEF vars
    <3> QED BY <1>1, <3>1, <3>2, <3>3, <3>4
  <2>2. /\ Open' = Open /\ \A c \in Children : Out(c)' <=> Out(c)
        /\ \A a \in Actors : /\ Working(a)' <=> Working(a)
                             /\ Next1(a, "parent")' <=> Next1(a, "parent")
    BY <2>1 DEF Open, Out, Working, Next1
  <2>3. (Vacant' <=> Vacant) /\ (Idle' <=> Idle) /\ (Still' <=> Still)
    BY <2>1, <2>2 DEF Vacant, Idle, Still
  <2>4. Hands'
    BY <2>1, <2>2, <2>3 DEF Alone, Hands
  <2>5. WhileAwaiting'
    BY <2>1, <2>2, <2>3 DEF Alone, WhileAwaiting
  <2>6. BeforeAwaiting' /\ OneOpen'
    BY <2>1, <2>2, <2>3 DEF Alone, BeforeAwaiting, OneOpen
  <2> QED BY <2>4, <2>5, <2>6 DEF Alone
<1>2. ASSUME NEW q \in Requests, Cancel(q) PROVE Alone'
  <2>1. q \in Actors /\ UNCHANGED <<job, impl, rec, cyc, parent, child>>
        /\ todo' = [todo EXCEPT ![q] = CancelScript]
    BY <1>2, Kinds DEF Cancel, Perform, Deciders
  <2>2. /\ \A b \in Actors : b # q => todo'[b] = todo[b]
        /\ todo'[q] = CancelScript
    BY <1>0, <2>1 DEF Scripts
  <2>3. ~Working(q)'
    BY <2>2, Beginnings, Fields DEF Working
  <2>4. /\ \A b \in Actors : Working(b)' => Working(b) /\ todo'[b] = todo[b]
        /\ Open' = Open /\ (Vacant => Vacant')
    BY <2>1, <2>2, <2>3 DEF Working, Open, Vacant, Still, Out
  <2>5. Hands'
    BY <2>1, <2>4 DEF Alone, Hands, Idle, Still, Out
  <2>6. WhileAwaiting' /\ BeforeAwaiting'
    BY <2>1, <2>4 DEF Alone, WhileAwaiting, BeforeAwaiting, Next1
  <2>7. OneOpen'
    BY <2>4 DEF Alone, OneOpen
  <2> QED BY <2>5, <2>6, <2>7 DEF Alone
<1>3. ASSUME NEW c \in Children, Completion(c) PROVE Alone'
  <2>1. /\ c \in Actors /\ Next1(c, "completion") /\ Working(c)
        /\ \A b \in Actors : b # c => todo'[b] = todo[b]
        /\ UNCHANGED <<parent, job, impl, child, rec>>
    BY <1>3, CompletionTypes, Kinds
       DEF Completion, ReviewCompletion, RemediationCompletion, Working, Next1
  <2>2. parent.gate # "awaiting_decision" /\ Open = {}
    BY <2>1, NothingAwaited DEF Next1
  <2>3. Vacant' /\ \A b \in Actors : Working(b)' => c = b
    BY <2>1 DEF Alone, Hands, Vacant, Idle, Still, Out, Working
  <2>4. Hands'
    BY <2>1, <2>3, HandsKept DEF Alone
  <2>5. Open' = {}
    BY <2>1, <2>2 DEF Open
  <2> QED BY <2>1, <2>2, <2>4, <2>5 DEF Alone, WhileAwaiting, BeforeAwaiting, OneOpen
<1> QED BY <1>1, <1>2, <1>3

\* At first the parent is in the queue.
LEMMA AloneInit == Init => AloneInv
<1> SUFFICES ASSUME Init PROVE Alone
  BY DEF AloneInv
<1>1. /\ \A a \in Actors : todo[a] = <<>>
      /\ \A c \in Children : child[c] = Unborn
      /\ job /\ ~impl /\ parent.gate = "not_applicable"
      /\ \A k \in Cycles : rec[k] = NoRecord
  BY DEF Init
<1>2. Idle /\ Still /\ Open = {}
  <2>1. ~Unborn.queued /\ ~Unborn.alive /\ NoRecord.status = "none"
    BY DEF Unborn, NoRecord
  <2>2. Idle
    BY <1>1 DEF Idle, Working
  <2>3. Still
    BY <1>1, <2>1 DEF Still, Out
  <2>4. Open = {}
    BY <1>1, <2>1 DEF Open
  <2> QED BY <2>2, <2>3, <2>4
<1> QED BY <1>1, <1>2 DEF Alone, Hands, WhileAwaiting, BeforeAwaiting, OneOpen, Idle, Still, Out, Unborn

\* Every step keeps one actor at a time, unless the worker crashes or two decisions race.
LEMMA AloneKept == Types /\ AloneInv /\ [Next]_vars => AloneInv'
<1> SUFFICES ASSUME Types, AloneInv, [Next]_vars, NoTrouble' PROVE Alone'
  BY DEF AloneInv
<1>0. Alone
  BY TroublesStay DEF AloneInv, NoTrouble
<1>1. ASSUME NEW a \in Actors, Statement(a) PROVE Alone'
  BY <1>0, <1>1, RecordAlone, ParentAlone, OtherAlone DEF Statement
<1>2. CASE StartParent \/ ExitParent \/ \E c \in Children : StartChild(c) \/ ExitChild(c)
  BY <1>0, <1>2, ProcessAlone
<1>3. CASE Sweep \/ \E q \in Requests, d \in Offered : Decide(q, d)
  BY <1>0, <1>3, DecisionAlone
<1>4. CASE Crash
  BY <1>4 DEF Crash, NoTrouble
<1>5. CASE \/ Overdue \/ SwitchReview \/ (\E c \in Children : CancelChild(c) \/ Completion(c))
           \/ (\E q \in Requests : Cancel(q)) \/ UNCHANGED vars
  BY <1>0, <1>5, RestAlone
<1> QED BY <1>1, <1>2, <1>3, <1>4, <1>5 DEF Next

\* Where one acts at a time, one process is alive at a time.
LEMMA AloneSuffices == Types /\ AloneInv => OneProcess
<1> SUFFICES ASSUME Types, Alone
             PROVE  Cardinality({c \in Children : child[c].alive}) + (IF impl THEN 1 ELSE 0) <= 1
  BY DEF AloneInv, OneProcess, NoTrouble
<1> DEFINE S == {c \in Children : child[c].alive}
<1>1. \A c, d \in S : c = d
  BY DEF Alone, Hands, Out
<1>2. impl => S = {}
  BY DEF Alone, Hands, Still, Out
<1>3. Cardinality({}) = 0 /\ \A c : Cardinality({c}) = 1
  BY FS_EmptySet, FS_Singleton
<1>4. S = {} \/ \E c \in S : S = {c}
  BY <1>1
<1> HIDE DEF S
<1>5. (S = {} /\ Cardinality(S) = 0) \/ Cardinality(S) = 1
  BY <1>3, <1>4
<1>6. impl \in BOOLEAN
  BY DEF Types, TypeOK
<1>7. Cardinality(S) + (IF impl THEN 1 ELSE 0) <= 1
  <2>1. CASE impl
    BY <1>2, <1>5, <1>3, <2>1
  <2>2. CASE ~impl
    BY <1>5, <2>2
  <2> QED BY <2>1, <2>2
<1> QED BY <1>7 DEF S

\* The parent's CLI, its reviews and its remediations never work in the checkout
\* together: unless the worker crashes or two decisions race, at most one process is alive.
THEOREM OneProcessHolds == Spec => []OneProcess
<1>1. Spec => [](Types /\ AloneInv)
  BY TypesInit, TypesKept, AloneInit, AloneKept, PTL DEF Spec
<1> QED BY <1>1, AloneSuffices, PTL

-----------------------------------------------------------------------------
(* Only what was let pass is published.                                    *)

ApprovedInv ==
  /\ mishaps = {} => \A a \in Actors : Next1(a, "publish") => parent.gate \in LetPass
  /\ "exhausted" \notin mishaps => \A a \in Actors : Passed(todo[a])

\* A script of the gate begins with a write of the parent or with the row of a review.
LEMMA GateBegins ==
  ASSUME NEW a \in Actors, NEW x \in Statements
  PROVE  Head(<<x>> \o AfterGate(a, FALSE)) = x
<1> DEFINE s == AfterGate(a, FALSE)
           t == <<x>>
<1>1. s \in Seq(Statements)
  BY StatementsOf DEF AfterGate, Bare
<1>2. t \in Seq(Statements) /\ Len(t) = 1 /\ t[1] = x
  OBVIOUS
<1> HIDE DEF s, t
<1>3. t \o s \in Seq(Statements) /\ Len(t \o s) = 1 + Len(s) /\ Len(s) \in Nat
  <2>1. t \o s \in Seq(Statements) /\ Len(t \o s) = Len(t) + Len(s)
    BY <1>1, <1>2, ConcatProperties, Zenon
  <2>2. Len(s) \in Nat
    BY <1>1
  <2> QED BY <1>2, <2>1, <2>2
<1>4. (t \o s)[1] = t[1]
  BY <1>1, <1>2, <1>3, ConcatProperties
<1>5. Head(t \o s) = x
  BY <1>2, <1>3, <1>4
<1> QED BY <1>5 DEF s, t

\* After a statement a publication comes next only where the statement wrote a gate that lets
\* pass, and the rest of the script is as good as before unless no cycle was left.
LEMMA PublishNext ==
  ASSUME Types, NEW a \in Actors, Statement(a)
  PROVE  /\ Passed(todo[a]) => Passed(todo'[a]) \/ "exhausted" \in mishaps'
         /\ Passed(todo[a]) /\ Next1(a, "publish")' =>
              parent'.gate \in LetPass
<1>0. /\ TypeOK /\ Scripts /\ todo[a] # <<>> /\ Proper(a, todo[a])
      /\ \/ Head(todo[a]).op \notin {"gate", "publish", "redispatch"}
         \/ Next1(a, "gate") \/ Next1(a, "publish") \/ Next1(a, "redispatch")
  BY AfterStatement DEF Types, Scripts, Next1
<1> DEFINE h == Head(todo[a])
<1>1. CASE h.op \notin {"gate", "publish", "redispatch"}
  <2>1. Passed(todo[a]) => /\ Passed(Tail(todo[a]))
                           /\ Tail(todo[a]) # <<>> /\ Head(Tail(todo[a])).op = "publish" => h.gate \in LetPass
    BY <1>0, TailProper
  <2>2. todo'[a] = Tail(todo[a]) \/ todo'[a] = <<>>
    BY <1>0, <1>1, AfterStatement
  <2>3. Passed(todo[a]) => Passed(todo'[a])
    BY <2>1, <2>2, HandlersFit
  <2>4. ASSUME Next1(a, "publish")', Passed(todo[a])
        PROVE  parent'.gate \in LetPass
    <3>1. todo'[a] = Tail(todo[a]) /\ Tail(todo[a]) # <<>> /\ Head(Tail(todo[a])).op = "publish"
      BY <2>2, <2>4 DEF Next1
    <3>2. h.op = "parent" /\ h.gate \in LetPass
      BY <1>0, <2>1, <2>4, <3>1, NextStatement DEF Follows
    <3>3. WriteParent(a)
      BY <3>2 DEF Statement, WriteRecord, MarkBlocked, SaveChild, SaveRecord, LinkFix, Dispatch, Gate,
                  Publish, Redispatch, WriteFinish, CancelWrite, Next1
    <3>4. ~Throws(a)
      BY <1>0, <3>1 DEF Throws, Perform, Scripts
    <3>5. parent'.gate = h.gate
      BY <3>3, <3>4 DEF WriteParent
    <3> QED BY <3>2, <3>5
  <2> QED BY <2>3, <2>4
<1>2. CASE Next1(a, "gate")
  <2>1. Gate(a) /\ a \notin Deciders
    BY <1>2, AfterStatement
       DEF Statement, WriteRecord, WriteParent, MarkBlocked, SaveChild, SaveRecord, LinkFix, Dispatch,
           Publish, Redispatch, WriteFinish, CancelWrite, Next1, Types
  <2>2. PICK s : /\ todo' = [todo EXCEPT ![a] = s]
                 /\ \/ s \in {<<SkipReview>> \o AfterGate(a, FALSE), AfterGate(a, TRUE),
                              StartReview \o AfterGate(a, TRUE)}
                    \/ s = <<FailParent>> \o AfterGate(a, FALSE) /\ "exhausted" \in mishaps'
    BY <2>1 DEF Gate, Perform
  <2>3. todo'[a] = s
    BY <1>0, <2>2 DEF Scripts
  <2>4. Passed(s) \/ "exhausted" \in mishaps'
    BY <2>1, <2>2, HandlersFit
  <2>5. s # <<>> => Head(s) \in {SkipReview, FailParent, Save("review")}
    <3>1. SkipReview \in Statements /\ FailParent \in Statements
      BY StatementsOf DEF SkipReview, FailParent, Statuses, States, Gates
    <3>2. AfterGate(a, TRUE) = <<>> /\ StartReview \o AfterGate(a, TRUE) = StartReview
      BY <2>1, HandlersFit
    <3> QED BY <2>2, <3>1, <3>2, GateBegins, Beginnings
  <2>6. ~Next1(a, "publish")'
    BY <2>3, <2>5, Fields DEF Next1, SkipReview, FailParent
  <2> QED BY <2>3, <2>4, <2>6
<1>3. CASE Next1(a, "publish") \/ Next1(a, "redispatch")
  <2>1. todo'[a] \in {<<>>, <<Finish("completed", "done")>>, <<Finish("failed", "failed")>>, <<Do("redispatch")>>}
    BY <1>3, AfterStatement DEF Types
  <2>2. Passed(todo'[a])
    BY <2>1, HandlersFit DEF Statuses, States
  <2>3. ~Next1(a, "publish")'
    BY <2>1, Beginnings, Fields DEF Next1
  <2> QED BY <2>2, <2>3
<1> QED BY <1>0, <1>1, <1>2, <1>3

\* Approval is kept by a statement: its actor is alone, unless it writes the cancellation.
LEMMA StatementApproved ==
  ASSUME Types, AloneInv, ApprovedInv, NEW a \in Actors, Statement(a), mishaps \subseteq mishaps'
  PROVE  ApprovedInv'
<1>1. todo[a] # <<>> /\ \A b \in Actors : b # a => todo'[b] = todo[b]
  BY AfterStatement DEF Types
<1>2. ASSUME "exhausted" \notin mishaps', NEW b \in Actors PROVE Passed(todo'[b])
  <2>1. Passed(todo[b])
    BY <1>2 DEF ApprovedInv
  <2>2. CASE b = a
    BY <1>2, <2>1, <2>2, PublishNext
  <2> QED BY <1>1, <2>1, <2>2
<1>3. ASSUME mishaps' = {}, NEW b \in Actors, Next1(b, "publish")' PROVE parent'.gate \in LetPass
  <2>1. mishaps = {} /\ Alone /\ Passed(todo[a])
    BY <1>3 DEF AloneInv, NoTrouble, ApprovedInv
  <2>2. CASE b = a
    BY <1>3, <2>1, <2>2, PublishNext
  <2>3. CASE b # a
    <3>1. Next1(b, "publish") /\ Working(b)
      BY <1>1, <1>3, <2>3 DEF Next1, Working
    <3>2. parent.gate \in LetPass
      BY <2>1, <3>1 DEF ApprovedInv
    <3>3. ~Working(a)
      BY <2>1, <2>3, <3>1 DEF Alone, Hands
    <3>4. CancelWrite(a)
      BY <1>1, <3>3 DEF Working, Statement, WriteRecord, WriteParent, MarkBlocked, SaveChild, SaveRecord,
                        LinkFix, Dispatch, Gate, Publish, Redispatch, WriteFinish, Next1
    <3>5. parent'.gate = parent.gate
      BY <3>4 DEF CancelWrite, Types, TypeOK
    <3> QED BY <3>2, <3>5
  <2> QED BY <2>2, <2>3
<1> QED BY <1>2, <1>3 DEF ApprovedInv

\* What is given to do by the other actions does not begin with a publication.
LEMMA OthersApproved ==
  ASSUME Types, ApprovedInv, mishaps \subseteq mishaps',
         \/ StartParent \/ ExitParent \/ Sweep \/ Overdue \/ SwitchReview \/ Crash
         \/ (\E c \in Children : StartChild(c) \/ ExitChild(c) \/ Completion(c) \/ CancelChild(c))
         \/ (\E q \in Requests : Cancel(q) \/ \E d \in Offered : Decide(q, d))
         \/ UNCHANGED vars
  PROVE  ApprovedInv'
<1>0. TypeOK /\ Scripts
  BY DEF Types
<1>1. /\ mishaps' = {} => parent'.gate = parent.gate
      /\ \A b \in Actors : \/ todo'[b] = todo[b]
                           \/ Passed(todo'[b]) /\ ~Next1(b, "publish")'
  <2>1. CASE StartParent \/ Overdue \/ SwitchReview \/ (\E c \in Children : StartChild(c) \/ CancelChild(c))
             \/ UNCHANGED vars
    <3>1. todo' = todo
      BY <2>1 DEF StartParent, Overdue, SwitchReview, StartChild, CancelChild, vars
    <3>2. parent'.gate = parent.gate
      BY <1>0, <2>1 DEF StartParent, Overdue, SwitchReview, StartChild, CancelChild, vars, TypeOK
    <3> QED BY <3>1, <3>2
  <2>2. CASE ExitParent
    <3>1. todo' = todo \/ todo' = [todo EXCEPT !["impl"] = <<Do("gate")>>]
      BY <2>2 DEF ExitParent, Perform
    <3>2. parent'.gate = parent.gate
      BY <1>0, <2>2 DEF ExitParent, TypeOK
    <3>3. Passed(<<Do("gate")>>) /\ Head(<<Do("gate")>>).op # "publish"
      <4>1. "impl" \in Actors \ Deciders
        BY Kinds
      <4>2. Passed(<<Do("gate")>>)
        BY <4>1, HandlersFit
      <4> QED BY <4>2, Beginnings, Fields
    <3> QED BY <1>0, <3>1, <3>2, <3>3 DEF Scripts, Next1
  <2>3. ASSUME NEW c \in Children, ExitChild(c)
        PROVE  /\ parent'.gate = parent.gate
               /\ \A b \in Actors : \/ todo'[b] = todo[b]
                                    \/ Passed(todo'[b]) /\ ~Next1(b, "publish")'
    <3>1. todo' = [todo EXCEPT ![c] = <<Do("completion")>>] /\ parent' = parent
      BY <2>3 DEF ExitChild, Perform
    <3>2. Passed(<<Do("completion")>>) /\ Head(<<Do("completion")>>).op # "publish"
      BY HandlersFit, Beginnings, Fields
    <3> QED BY <1>0, <3>1, <3>2 DEF Scripts, Next1
  <2>4. ASSUME NEW c \in Children, Completion(c)
        PROVE  /\ parent'.gate = parent.gate
               /\ \A b \in Actors : \/ todo'[b] = todo[b]
                                    \/ Passed(todo'[b]) /\ ~Next1(b, "publish")'
    <3>1. /\ \A b \in Actors : b # c => todo'[b] = todo[b]
          /\ todo'[c] \in {<<>>, ReviewPassed, AskUser, RemediationDone, RemediationFailed}
      BY <2>4, CompletionTypes
    <3>2. parent' = parent
      BY <2>4 DEF Completion, ReviewCompletion, RemediationCompletion
    <3>3. c \in Actors /\ Passed(todo'[c])
      BY <3>1, HandlersFit, Kinds
    <3>4. ~Next1(c, "publish")'
      BY <3>1, Beginnings, Fields DEF Next1
    <3> QED BY <3>1, <3>2, <3>3, <3>4
  <2>5. ASSUME NEW a, \/ a \in Requests /\ \E d \in Offered : Decide(a, d)
                      \/ a = "sweep" /\ Sweep
        PROVE  /\ parent'.gate = parent.gate
               /\ \A b \in Actors : \/ todo'[b] = todo[b]
                                    \/ Passed(todo'[b]) /\ ~Next1(b, "publish")'
    <3>1. /\ \A b \in Actors : b # a => todo'[b] = todo[b]
          /\ \/ a \in Requests /\ todo'[a] \in {ContinueScript, BlockScript, FixScript, FixExhausted}
             \/ todo'[a] = TimeoutScript
          /\ parent' = parent
      BY <2>5, DecisionTypes
    <3>3. Passed(todo'[a])
      BY <3>1, DecidersFit
    <3>4. ~Next1(a, "publish")'
      BY <3>1, Beginnings, Fields DEF Next1, FailParent
    <3> QED BY <3>1, <3>3, <3>4
  <2>6. CASE Crash
    <3>1. /\ \A b \in Actors : todo'[b] = todo[b] \/ todo'[b] = <<>>
          /\ parent'.gate = parent.gate
      BY <2>6, CrashTypes
    <3>2. Passed(<<>>)
      BY Kinds, HandlersFit
    <3> QED BY <3>1, <3>2 DEF Next1
  <2>7. ASSUME NEW q \in Requests, Cancel(q)
        PROVE  /\ parent'.gate = parent.gate
               /\ \A b \in Actors : \/ todo'[b] = todo[b]
                                    \/ Passed(todo'[b]) /\ ~Next1(b, "publish")'
    <3>1. todo' = [todo EXCEPT ![q] = CancelScript] /\ parent' = parent
      BY <2>7 DEF Cancel, Perform
    <3>2. Passed(CancelScript) /\ Head(CancelScript).op # "publish"
      BY DecidersFit, Beginnings, Fields
    <3> QED BY <1>0, <3>1, <3>2 DEF Scripts, Next1
  <2>8. CASE Sweep
    BY <2>5, <2>8
  <2> QED BY <2>1, <2>2, <2>3, <2>4, <2>5, <2>6, <2>7, <2>8
<1> QED BY <1>1 DEF ApprovedInv, Next1

\* At first nothing is to be done.
LEMMA ApprovedInit == Init => ApprovedInv
<1> SUFFICES ASSUME Init PROVE ApprovedInv
  OBVIOUS
<1>1. \A a \in Actors : todo[a] = <<>>
  BY DEF Init
<1> QED BY <1>1, HandlersFit DEF ApprovedInv, Next1

\* Every step keeps it.
LEMMA ApprovedKept == Types /\ AloneInv /\ ApprovedInv /\ [Next]_vars => ApprovedInv'
<1> SUFFICES ASSUME Types, AloneInv, ApprovedInv, [Next]_vars PROVE ApprovedInv'
  OBVIOUS
<1>1. mishaps \subseteq mishaps'
  BY TroublesStay
<1>2. ASSUME NEW a \in Actors, Statement(a) PROVE ApprovedInv'
  BY <1>1, <1>2, StatementApproved
<1>3. CASE \/ StartParent \/ ExitParent \/ Sweep \/ Overdue \/ SwitchReview \/ Crash
           \/ (\E c \in Children : StartChild(c) \/ ExitChild(c) \/ Completion(c) \/ CancelChild(c))
           \/ (\E q \in Requests : Cancel(q) \/ \E d \in Offered : Decide(q, d))
           \/ UNCHANGED vars
  BY <1>1, <1>3, OthersApproved
<1> QED BY <1>2, <1>3 DEF Next

\* Only a publication opens a pull request.
LEMMA PublicationOpens ==
  ASSUME Types, [Next]_vars, opened' > opened
  PROVE  \E a \in Actors : Next1(a, "publish")
<1>1. opened \in Nat /\ opened' # opened
  BY DEF Types, TypeOK
<1>2. ASSUME NEW a \in Actors, Statement(a), ~Next1(a, "publish") PROVE opened' = opened
  BY <1>2 DEF Statement, WriteRecord, WriteParent, MarkBlocked, SaveChild, SaveRecord, LinkFix, Dispatch,
              Gate, Publish, Redispatch, WriteFinish, CancelWrite
<1>3. ASSUME NEW c \in Children, StartChild(c) \/ ExitChild(c) \/ Completion(c) \/ CancelChild(c)
      PROVE  opened' = opened
  BY <1>3 DEF StartChild, ExitChild, Completion, ReviewCompletion, RemediationCompletion, CancelChild
<1>4. ASSUME NEW q \in Requests, Cancel(q) \/ \E d \in Offered : Decide(q, d)
      PROVE  opened' = opened
  BY <1>4 DEF Cancel, Decide
<1>5. CASE StartParent \/ ExitParent \/ Overdue \/ Sweep \/ SwitchReview \/ UNCHANGED vars
  <2>1. opened' = opened
    BY <1>5 DEF StartParent, ExitParent, Overdue, Sweep, SwitchReview, vars
  <2> QED BY <1>1, <2>1
<1>6. CASE Crash
  <2>1. opened' = opened
    BY <1>6 DEF Crash
  <2> QED BY <1>1, <2>1
<1> QED BY <1>6, <1>1, <1>2, <1>3, <1>4, <1>5 DEF Next

\* Without a crash, a race of two decisions and an attempt for which no cycle was left, a
\* pull request is opened only while the parent's gate says that it was let pass.
THEOREM OnlyApprovedPublishedHolds == Spec => OnlyApprovedPublished
<1>1. Types /\ ApprovedInv /\ [Next]_vars =>
        [opened' > opened /\ mishaps = {} =>
           parent.gate \in {"not_applicable", "review_passed", "decision_continue", "timeout_continue"}]_vars
  BY PublicationOpens DEF ApprovedInv, LetPass
<1>2. Spec => [](Types /\ AloneInv /\ ApprovedInv)
  BY TypesInit, TypesKept, AloneInit, AloneKept, ApprovedInit, ApprovedKept, PTL DEF Spec
<1> QED BY <1>1, <1>2, PTL DEF Spec, OnlyApprovedPublished

-----------------------------------------------------------------------------
(* The outcome of a cycle stands.                                          *)

\* Actor a is about to write the record of its cycle.
Writes(a) ==
  Next1(a, "record") \/ Next1(a, "linkFix") \/ (Next1(a, "save") /\ Head(todo[a]).role = "remediation")

\* Child c has an outcome still to report.
Undone(c) == child[c].alive \/ child[c].status \in {"pending", "running"} \/ Next1(c, "completion")

\* The record waits for the outcome.
RecordsWait ==
  \A k \in Cycles, c \in Children : Undone(c) =>
    /\ rec[k].review = c => rec[k].status = "review_running"
    /\ rec[k].remediation = c => rec[k].status = "remediation_running"

\* Who writes a record finds it waiting for what it writes.
WritersExpected ==
  \A a \in Actors : Writes(a) =>
    \/ a \in Deciders /\ rec[cyc[a]].status = "awaiting_decision"
    \/ a \in Children /\ rec[cyc[a]].review = a /\ rec[cyc[a]].status = "review_running"
    \/ a \in Children /\ rec[cyc[a]].remediation = a /\ rec[cyc[a]].status = "remediation_running"

OneDecider ==
  \A a, b \in Deciders : Writes(a) /\ Writes(b) /\ cyc[a] = cyc[b] => a = b

\* Only a child that has come to its end has a script.
ScriptsAfterExit ==
  \A c \in Children : todo[c] # <<>> => ~child[c].alive /\ child[c].status \notin {"pending", "running"}

Outcomes == RecordsWait /\ WritersExpected /\ OneDecider /\ ScriptsAfterExit
OutcomesInv == "race" \notin mishaps => Outcomes

\* A step keeps the outcomes that writes no record, lets nobody begin to write one and
\* brings no outcome back.
LEMMA OutcomesKept ==
  ASSUME Types, Outcomes, rec' = rec,
         \A c \in Children : Undone(c)' => Undone(c),
         \A a \in Actors : Writes(a)' => Writes(a) /\ cyc'[a] = cyc[a],
         ScriptsAfterExit'
  PROVE  Outcomes'
<1>1. RecordsWait'
  BY DEF Outcomes, RecordsWait
<1>2. WritersExpected'
  BY DEF Outcomes, WritersExpected
<1>3. OneDecider'
  BY Kinds DEF Outcomes, OneDecider
<1> QED BY <1>1, <1>2, <1>3 DEF Outcomes

\* A statement after which its actor writes a record is one before which it did so, too: that
\* of a remediation's row.
LEMMA WritesBefore ==
  ASSUME Types, NEW a \in Actors, Statement(a)
  PROVE  /\ \A b \in Actors : b # a => (Writes(b)' <=> Writes(b))
         /\ Writes(a)' => Next1(a, "save") /\ Head(todo[a]).role = "remediation" /\ Writes(a)
         /\ ~Next1(a, "completion")'
         /\ \A b \in Actors : b # a => (Next1(b, "completion")' <=> Next1(b, "completion"))
<1>0. /\ Scripts /\ todo[a] # <<>> /\ \A b \in Actors : b # a => todo'[b] = todo[b]
  BY AfterStatement DEF Types
<1> DEFINE h == Head(todo[a])
<1>1. /\ \A b \in Actors : b # a => (Writes(b)' <=> Writes(b))
      /\ \A b \in Actors : b # a => (Next1(b, "completion")' <=> Next1(b, "completion"))
  BY <1>0 DEF Writes, Next1
<1>2. CASE h.op \notin {"gate", "publish", "redispatch"}
  <2>1. todo'[a] = Tail(todo[a]) \/ todo'[a] = <<>>
    BY <1>2, AfterStatement DEF Types
  <2>2. todo'[a] # <<>> => Follows(h, Head(todo'[a]))
    BY <1>0, <2>1, NextStatement
  <2>3. Writes(a)' => h.op = "save" /\ h.role = "remediation"
    BY <2>2 DEF Writes, Next1, Follows
  <2>4. ~Next1(a, "completion")'
    BY <2>2 DEF Next1, Follows
  <2> QED BY <1>0, <1>1, <2>3, <2>4 DEF Writes, Next1
<1>3. CASE Next1(a, "gate")
  <2>1. a \notin Deciders /\ todo'[a] \in {<<SkipReview>> \o AfterGate(a, FALSE), <<>>,
                                           <<FailParent>> \o AfterGate(a, FALSE), StartReview}
    BY <1>3, AfterStatement DEF Types
  <2>2. SkipReview \in Statements /\ FailParent \in Statements
    BY StatementsOf DEF SkipReview, FailParent, Statuses, States, Gates
  <2>3. todo'[a] # <<>> => Head(todo'[a]) \in {SkipReview, FailParent, Save("review")}
    BY <2>1, <2>2, GateBegins, Beginnings
  <2>4. ~Writes(a)' /\ ~Next1(a, "completion")'
    BY <2>3, Fields DEF Writes, Next1, SkipReview, FailParent
  <2> QED BY <1>1, <2>4
<1>4. CASE Next1(a, "publish") \/ Next1(a, "redispatch")
  <2>1. todo'[a] \in {<<>>, <<Finish("completed", "done")>>, <<Finish("failed", "failed")>>, <<Do("redispatch")>>}
    BY <1>4, AfterStatement DEF Types
  <2>2. ~Writes(a)' /\ ~Next1(a, "completion")'
    BY <2>1, Beginnings, Fields DEF Writes, Next1
  <2> QED BY <1>1, <2>2
<1> QED BY <1>0, <1>2, <1>3, <1>4 DEF Next1

\* Who writes the record of a cycle is the only one, and the outcome of no child is missing
\* there that is not the writer's.
LEMMA OnlyWriter ==
  ASSUME Types, Outcomes, NEW a \in Actors, Writes(a), NEW k \in Cycles, k = cyc[a]
  PROVE  /\ rec[k].status \in {"awaiting_decision", "review_running", "remediation_running"}
         /\ \A b \in Actors : Writes(b) /\ cyc[b] = k => a = b
         /\ ~Next1(a, "completion") =>
              \A c \in Children : Undone(c) => rec[k].review # c /\ rec[k].remediation # c
<1>1. \/ a \in Deciders /\ rec[k].status = "awaiting_decision"
      \/ a \in Children /\ rec[k].review = a /\ rec[k].status = "review_running"
      \/ a \in Children /\ rec[k].remediation = a /\ rec[k].status = "remediation_running"
  BY DEF Outcomes, WritersExpected
<1>2. ASSUME NEW b \in Actors, Writes(b), cyc[b] = k PROVE a = b
  <2>1. \/ b \in Deciders /\ rec[k].status = "awaiting_decision"
        \/ b \in Children /\ rec[k].review = b /\ rec[k].status = "review_running"
        \/ b \in Children /\ rec[k].remediation = b /\ rec[k].status = "remediation_running"
    BY <1>2 DEF Outcomes, WritersExpected
  <2>2. a \in Deciders /\ b \in Deciders => a = b
    BY <1>2 DEF Outcomes, OneDecider
  <2> QED BY <1>1, <2>1, <2>2
<1>3. ASSUME ~Next1(a, "completion"), NEW c \in Children, Undone(c)
      PROVE  rec[k].review # c /\ rec[k].remediation # c
  <2>1. /\ rec[k].review = c => rec[k].status = "review_running"
        /\ rec[k].remediation = c => rec[k].status = "remediation_running"
    BY <1>3 DEF Outcomes, RecordsWait
  <2>2. a \in Children => ~Undone(a)
    BY <1>3 DEF Outcomes, ScriptsAfterExit, Undone, Writes, Next1
  <2> QED BY <1>1, <1>3, <2>1, <2>2
<1> QED BY <1>1, <1>2, <1>3

\* A statement that writes a record keeps the outcomes.
LEMMA RecordOutcomes ==
  ASSUME Types, Outcomes, NEW a \in Actors, WriteRecord(a) \/ LinkFix(a) \/ SaveRecord(a)
  PROVE  /\ Outcomes'
         /\ \A k \in Cycles : rec[k].status \in Decided => rec'[k].status = rec[k].status
<1>0. /\ TypeOK /\ Scripts /\ Statement(a) /\ todo[a] # <<>> /\ cyc[a] \in Cycles
      /\ Head(todo[a]).op \in {"record", "linkFix", "saveRecord"}
      /\ UNCHANGED <<child, cyc>> /\ kid[a] \in Children \cup {NoChild}
      /\ rec \in [Cycles -> [status : RecordStatuses, review : Children \cup {NoChild},
                             remediation : Children \cup {NoChild}]]
  BY DEF Types, TypeOK, Statement, WriteRecord, LinkFix, SaveRecord, Next1
<1> DEFINE k == cyc[a]
<1>1. /\ \A b \in Actors : Writes(b)' => b # a /\ Writes(b)
      /\ \A c \in Children : Undone(c)' => Undone(c)
  <2>1. ~Next1(a, "save")
    BY <1>0 DEF Next1
  <2> QED BY <1>0, <2>1, WritesBefore, Kinds DEF Undone
<1>2. ScriptsAfterExit'
  <2>1. \A b \in Actors : b # a => todo'[b] = todo[b]
    BY <1>0, AfterStatement
  <2> QED BY <1>0, <2>1, Kinds DEF Outcomes, ScriptsAfterExit
<1>3. OneDecider'
  BY <1>0, <1>1, Kinds DEF Outcomes, OneDecider
<1>4. \A j \in Cycles : j # k => rec'[j] = rec[j]
  BY <1>0 DEF WriteRecord, LinkFix, SaveRecord
<1>5. CASE rec' = rec
  BY <1>0, <1>1, <1>2, <1>5, OutcomesKept
<1>6. CASE SaveRecord(a) /\ rec[k].status = "none"
  <2>1. /\ rec'[k].status = "review_running" /\ rec'[k].remediation = NoChild
    <3> DEFINE r == [NoRecord EXCEPT !.status = "review_running", !.review = kid[a]]
    <3>1. r.status = "review_running" /\ r.remediation = NoChild
      BY DEF NoRecord
    <3>2. rec' = [rec EXCEPT ![k] = r]
      BY <1>6 DEF SaveRecord
    <3> HIDE DEF r
    <3> QED BY <1>0, <3>1, <3>2
  <2>2. RecordsWait'
    BY <1>1, <1>4, <2>1, Kinds DEF Outcomes, RecordsWait
  <2>3. \A b \in Actors : Writes(b) => cyc[b] # k
    BY <1>6 DEF Outcomes, WritersExpected
  <2>4. WritersExpected'
    <3> SUFFICES ASSUME NEW b \in Actors, Writes(b)'
                 PROVE  rec'[cyc'[b]] = rec[cyc[b]] /\ Writes(b) /\ cyc'[b] = cyc[b]
      BY DEF Outcomes, WritersExpected
    <3> QED BY <1>0, <1>1, <1>4, <2>3 DEF TypeOK
  <2>5. \A j \in Cycles : rec[j].status \in Decided => rec'[j].status = rec[j].status
    BY <1>4, <1>6 DEF Decided
  <2> QED BY <1>2, <1>3, <2>2, <2>4, <2>5 DEF Outcomes
<1>7. CASE WriteRecord(a) \/ LinkFix(a)
  <2>1. Writes(a) /\ ~Next1(a, "completion")
    BY <1>7 DEF WriteRecord, LinkFix, Writes, Next1
  <2>2. /\ rec[k].status \in {"awaiting_decision", "review_running", "remediation_running"}
        /\ \A b \in Actors : Writes(b) /\ cyc[b] = k => a = b
        /\ \A c \in Children : Undone(c) => rec[k].review # c /\ rec[k].remediation # c
    BY <1>0, <2>1, OnlyWriter
  <2>3. /\ rec'[k].review = rec[k].review
        /\ \/ rec'[k].remediation = rec[k].remediation
           \/ rec'[k].status = "remediation_running"
    <3>1. CASE WriteRecord(a)
      <4>1. rec' = [rec EXCEPT ![k].status = Head(todo[a]).status]
        BY <3>1 DEF WriteRecord
      <4> QED BY <1>0, <4>1
    <3>2. CASE LinkFix(a)
      BY <1>0, <3>2 DEF LinkFix
    <3> QED BY <1>7, <3>1, <3>2
  <2>4. RecordsWait'
    BY <1>1, <1>4, <2>2, <2>3 DEF Outcomes, RecordsWait
  <2>5. WritersExpected'
    <3> SUFFICES ASSUME NEW b \in Actors, Writes(b)'
                 PROVE  rec'[cyc'[b]] = rec[cyc[b]] /\ Writes(b) /\ cyc'[b] = cyc[b]
      BY DEF Outcomes, WritersExpected
    <3> QED BY <1>0, <1>1, <1>4, <2>2 DEF TypeOK
  <2>6. \A j \in Cycles : rec[j].status \in Decided => rec'[j].status = rec[j].status
    BY <1>4, <2>2 DEF Decided
  <2> QED BY <1>2, <1>3, <2>4, <2>5, <2>6 DEF Outcomes
<1> QED BY <1>5, <1>6, <1>7 DEF SaveRecord

\* So does every other statement, which writes none.
LEMMA OtherOutcomes ==
  ASSUME Types, Outcomes, NEW a \in Actors, Statement(a),
         ~(WriteRecord(a) \/ LinkFix(a) \/ SaveRecord(a))
  PROVE  Outcomes' /\ rec' = rec
<1>0. TypeOK /\ todo[a] # <<>> /\ \A b \in Actors : b # a => todo'[b] = todo[b]
  BY AfterStatement DEF Types
<1>1. rec' = rec
  BY DEF Statement, WriteParent, MarkBlocked, SaveChild, Dispatch, Gate, Publish, Redispatch,
         WriteFinish, CancelWrite
<1>2. \A c \in Children : child'[c].alive = child[c].alive /\ child'[c].status = child[c].status
  <2>1. CASE SaveChild(a)
    BY <1>0, <2>1 DEF SaveChild, TypeOK
  <2>2. CASE Dispatch(a)
    BY <1>0, <2>2 DEF Dispatch, TypeOK
  <2>3. CASE ~(SaveChild(a) \/ Dispatch(a))
    BY <2>3 DEF Statement, WriteParent, MarkBlocked, Gate, Publish, Redispatch, WriteFinish, CancelWrite
  <2> QED BY <2>1, <2>2, <2>3
<1>3. \A c \in Children : Undone(c)' => Undone(c)
  BY <1>2, WritesBefore, Kinds DEF Undone
<1>4. \A b \in Actors : Writes(b)' => Writes(b) /\ cyc'[b] = cyc[b]
  <2>1. ASSUME NEW b \in Actors, Writes(b)', b = a PROVE Writes(b) /\ cyc'[b] = cyc[b]
    <3>1. Next1(a, "save") /\ Writes(a)
      BY <2>1, WritesBefore
    <3>2. SaveChild(a)
      BY <3>1 DEF Statement, WriteRecord, WriteParent, MarkBlocked, SaveRecord, LinkFix, Dispatch, Gate,
                  Publish, Redispatch, WriteFinish, CancelWrite, Next1
    <3> QED BY <2>1, <3>1, <3>2 DEF SaveChild
  <2>2. ASSUME NEW b \in Actors, Writes(b)', b # a PROVE Writes(b) /\ cyc'[b] = cyc[b]
    <3>1. Writes(b)
      BY <2>2, WritesBefore
    <3>2. cyc'[b] = cyc[b]
      <4>1. CASE Gate(a)
        BY <1>0, <2>2, <4>1 DEF Gate, TypeOK
      <4>2. CASE ~Gate(a)
        BY <4>2 DEF Statement, WriteParent, MarkBlocked, SaveChild, Dispatch, Publish, Redispatch,
                    WriteFinish, CancelWrite
      <4> QED BY <4>1, <4>2
    <3> QED BY <3>1, <3>2
  <2> QED BY <2>1, <2>2
<1>5. ScriptsAfterExit'
  BY <1>0, <1>2, Kinds DEF Outcomes, ScriptsAfterExit
<1> QED BY <1>1, <1>3, <1>4, <1>5, OutcomesKept

\* A child that starts, exits or is cancelled has no script, and gets none but the one that
\* reports its outcome.
LEMMA ChildOutcomes ==
  ASSUME Types, Outcomes, NEW c \in Children, StartChild(c) \/ ExitChild(c) \/ CancelChild(c)
  PROVE  Outcomes' /\ rec' = rec
<1>0. TypeOK /\ Scripts /\ c \in Actors
  BY Kinds DEF Types
<1>1. rec' = rec /\ cyc' = cyc
  BY DEF StartChild, ExitChild, CancelChild
<1>2. /\ \A d \in Children : d # c => child'[d] = child[d]
      /\ child'[c].alive \/ child'[c].status \in {"pending", "running"} => Undone(c)
      /\ todo[c] # <<>> => child'[c].alive = child[c].alive /\ child'[c].status = child[c].status
  <2>0. /\ child[c] \in ChildRow
        /\ todo[c] # <<>> => child[c].status \notin {"pending", "running"} /\ ~child[c].alive
    BY <1>0 DEF TypeOK, ChildRow, Outcomes, ScriptsAfterExit
  <2>1. CASE StartChild(c)
    <3>1. PICK x : /\ child' = [child EXCEPT ![c] = x]
                   /\ \/ /\ x = [child[c] EXCEPT !.queued = FALSE, !.status = "running", !.alive = TRUE]
                         /\ child[c].status = "pending"
                      \/ /\ x = [child[c] EXCEPT !.queued = FALSE, !.status = "failed"]
                         /\ child[c].status = "pending"
                      \/ x = [child[c] EXCEPT !.queued = FALSE]
      BY <2>1, ChildStarts
    <3>2. /\ x.alive = child[c].alive \/ child[c].status = "pending"
          /\ x.status = child[c].status \/ child[c].status = "pending"
      BY <2>0, <3>1 DEF ChildRow
    <3>3. child'[c] = x /\ \A d \in Children : d # c => child'[d] = child[d]
      BY <1>0, <3>1 DEF TypeOK
    <3> QED BY <2>0, <3>2, <3>3 DEF Undone
  <2>2. CASE ExitChild(c)
    <3>1. PICK s : child' = [child EXCEPT ![c].alive = FALSE, ![c].status = s]
      BY <2>2 DEF ExitChild
    <3>2. \A d \in Children : d # c => child'[d] = child[d]
      BY <1>0, <3>1 DEF TypeOK
    <3>3. child[c].alive /\ todo[c] = <<>>
      BY <2>2 DEF ExitChild
    <3> QED BY <3>2, <3>3 DEF Undone
  <2>3. CASE CancelChild(c)
    <3>1. child' = [child EXCEPT ![c].status = "cancelled"] /\ child[c].status \in {"pending", "running"}
      BY <2>3 DEF CancelChild
    <3>2. \A d \in Children : d # c => child'[d] = child[d]
      BY <1>0, <3>1 DEF TypeOK
    <3> QED BY <2>0, <3>1, <3>2 DEF Undone
  <2> QED BY <2>1, <2>2, <2>3
<1>3. \/ todo' = todo
      \/ /\ ExitChild(c) /\ todo'[c] = <<Do("completion")>> /\ \A b \in Actors : b # c => todo'[b] = todo[b]
         /\ ~child'[c].alive /\ child'[c].status \notin {"pending", "running"} /\ child[c].alive
  <2>1. CASE ExitChild(c)
    <3>1. todo'[c] = <<Do("completion")>> /\ \A b \in Actors : b # c => todo'[b] = todo[b]
      BY <1>0, <2>1 DEF ExitChild, Perform, Scripts
    <3>2. PICK s \in {"failed", IF child[c].status = "cancelled" THEN "cancelled" ELSE "completed"} :
            child' = [child EXCEPT ![c].alive = FALSE, ![c].status = s]
      BY <2>1 DEF ExitChild
    <3>3. s \in {"failed", "cancelled", "completed"}
      BY <3>2
    <3>4. ~child'[c].alive /\ child'[c].status = s
      BY <1>0, <3>2 DEF TypeOK
    <3> QED BY <2>1, <3>1, <3>3, <3>4 DEF ExitChild
  <2>2. CASE ~ExitChild(c)
    BY <2>2 DEF StartChild, CancelChild
  <2> QED BY <2>1, <2>2
<1>4. \A d \in Children : Undone(d)' => Undone(d)
  BY <1>2, <1>3, Kinds DEF Undone, Next1
<1>5. \A b \in Actors : Writes(b)' => Writes(b) /\ cyc'[b] = cyc[b]
  BY <1>1, <1>3, Beginnings, Fields DEF Writes, Next1
<1>6. ScriptsAfterExit'
  <2> SUFFICES ASSUME NEW d \in Children, todo'[d] # <<>>
               PROVE  ~child'[d].alive /\ child'[d].status \notin {"pending", "running"}
    BY DEF ScriptsAfterExit
  <2>1. CASE d # c
    BY <1>2, <1>3, <2>1, Kinds DEF Outcomes, ScriptsAfterExit
  <2>2. CASE d = c
    BY <1>2, <1>3, <2>2 DEF Outcomes, ScriptsAfterExit
  <2> QED BY <2>1, <2>2
<1> QED BY <1>1, <1>4, <1>5, <1>6, OutcomesKept

\* A child that reports its outcome finds the record waiting for it.
LEMMA CompletionOutcomes ==
  ASSUME Types, Outcomes, NEW c \in Children, Completion(c)
  PROVE  Outcomes' /\ rec' = rec
<1>0. /\ Next1(c, "completion") /\ c \in Actors /\ c \notin Deciders
      /\ \A b \in Actors : b # c => todo'[b] = todo[b] /\ cyc'[b] = cyc[b]
      /\ \/ todo'[c] = <<>>
         \/ \E k \in Cycles :
              /\ cyc'[c] = k
              /\ \/ rec[k].review = c /\ todo'[c] \in {ReviewPassed, AskUser}
                 \/ rec[k].remediation = c /\ todo'[c] \in {RemediationDone, RemediationFailed}
  BY CompletionTypes, Kinds
<1>1. UNCHANGED <<rec, child>>
  BY DEF Completion, ReviewCompletion, RemediationCompletion
<1>2. \A b \in Actors : b # c => (Writes(b)' <=> Writes(b)) /\ (Next1(b, "completion")' <=> Next1(b, "completion"))
  BY <1>0 DEF Writes, Next1
<1>3. \A d \in Children : Undone(d)' => Undone(d)
  BY <1>0, <1>1, <1>2, Kinds DEF Undone
<1>4. RecordsWait'
  BY <1>1, <1>3 DEF Outcomes, RecordsWait
<1>5. Undone(c)
  BY <1>0 DEF Undone
<1>6. todo'[c] # <<>> =>
        \/ rec[cyc'[c]].review = c /\ rec[cyc'[c]].status = "review_running"
        \/ rec[cyc'[c]].remediation = c /\ rec[cyc'[c]].status = "remediation_running"
  BY <1>0, <1>5 DEF Outcomes, RecordsWait
<1>7. WritersExpected'
  <2> SUFFICES ASSUME NEW b \in Actors, Writes(b)'
               PROVE  \/ b \in Deciders /\ rec[cyc'[b]].status = "awaiting_decision"
                      \/ b \in Children /\ rec[cyc'[b]].review = b /\ rec[cyc'[b]].status = "review_running"
                      \/ b \in Children /\ rec[cyc'[b]].remediation = b
                                        /\ rec[cyc'[b]].status = "remediation_running"
    BY <1>1 DEF WritersExpected
  <2>1. CASE b = c
    <3>1. todo'[c] # <<>>
      BY <2>1 DEF Writes, Next1
    <3> QED BY <1>6, <2>1, <3>1
  <2>2. CASE b # c
    BY <1>0, <1>2, <2>2 DEF Outcomes, WritersExpected
  <2> QED BY <2>1, <2>2
<1>8. OneDecider'
  BY <1>0, <1>2, Kinds DEF Outcomes, OneDecider
<1>9. ScriptsAfterExit'
  BY <1>0, <1>1, Kinds DEF Outcomes, ScriptsAfterExit, Next1
<1> QED BY <1>1, <1>4, <1>7, <1>8, <1>9 DEF Outcomes

\* A decision that does not race with another is taken of an open cycle by one decider.
LEMMA DecisionOutcomes ==
  ASSUME Types, Outcomes, "race" \notin mishaps', NEW a,
         (a \in Requests /\ \E d \in Offered : Decide(a, d)) \/ (a = "sweep" /\ Sweep)
  PROVE  Outcomes' /\ rec' = rec
<1>0. /\ a \in Deciders /\ a \in Actors /\ Max(Open) \in Open /\ cyc'[a] = Max(Open) /\ Raced(Max(Open))
      /\ \A b \in Actors : b # a => todo'[b] = todo[b] /\ cyc'[b] = cyc[b]
      /\ todo'[a] \in {ContinueScript, BlockScript, FixScript, FixExhausted, TimeoutScript}
      /\ UNCHANGED <<child, rec>>
  BY DecisionTypes
<1>1. rec[cyc'[a]].status = "awaiting_decision"
  BY <1>0 DEF Open
<1>2. \A b \in Deciders : todo[b] # <<>> => cyc[b] # Max(Open)
  BY <1>0 DEF Raced, DecidersOf, Deciders
<1>3. \A b \in Actors : b # a => (Writes(b)' <=> Writes(b)) /\ (Next1(b, "completion")' <=> Next1(b, "completion"))
  BY <1>0 DEF Writes, Next1
<1>4. \A c \in Children : Undone(c)' => Undone(c)
  BY <1>0, <1>3, Kinds DEF Undone
<1>5. RecordsWait'
  BY <1>0, <1>4 DEF Outcomes, RecordsWait
<1>6. WritersExpected'
  <2> SUFFICES ASSUME NEW b \in Actors, Writes(b)'
               PROVE  \/ b \in Deciders /\ rec[cyc'[b]].status = "awaiting_decision"
                      \/ b \in Children /\ rec[cyc'[b]].review = b /\ rec[cyc'[b]].status = "review_running"
                      \/ b \in Children /\ rec[cyc'[b]].remediation = b
                                        /\ rec[cyc'[b]].status = "remediation_running"
    BY <1>0 DEF WritersExpected
  <2>1. CASE b = a
    BY <1>0, <1>1, <2>1
  <2>2. CASE b # a
    BY <1>0, <1>3, <2>2 DEF Outcomes, WritersExpected
  <2> QED BY <2>1, <2>2
<1>7. OneDecider'
  <2> SUFFICES ASSUME NEW b \in Deciders, NEW d \in Deciders, Writes(b)', Writes(d)', cyc'[b] = cyc'[d]
               PROVE  b = d
    BY DEF OneDecider
  <2>1. b \in Actors /\ d \in Actors
    BY Kinds
  <2>2. \A e \in Deciders : e # a /\ e \in Actors /\ Writes(e)' => cyc'[e] # Max(Open)
    BY <1>0, <1>2, <1>3 DEF Writes, Next1
  <2>3. b = a <=> d = a
    BY <1>0, <2>1, <2>2
  <2>4. b # a /\ d # a => b = d
    BY <1>0, <1>3, <2>1 DEF Outcomes, OneDecider
  <2> QED BY <2>3, <2>4
<1>8. ScriptsAfterExit'
  BY <1>0, Kinds DEF Outcomes, ScriptsAfterExit
<1> QED BY <1>0, <1>5, <1>6, <1>7, <1>8 DEF Outcomes

\* A crash forgets the scripts of the worker and starts no child that has come to its end.
LEMMA CrashOutcomes ==
  ASSUME Types, Outcomes, Crash
  PROVE  Outcomes' /\ rec' = rec
<1>0. /\ \A a \in Actors : todo'[a] = todo[a] \/ todo'[a] = <<>>
      /\ \A c \in Children : todo'[c] = <<>>
      /\ \A c \in Children : /\ child'[c].alive = FALSE
                             /\ child'[c].status = child[c].status \/ OrphanChild(c)
      /\ UNCHANGED <<rec, cyc>>
  <2>1. \A a \in Actors : todo'[a] = IF a \in Requests THEN todo[a] ELSE <<>>
    BY CrashTypes
  <2>2. \A c \in Children : c \in Actors /\ c \notin Requests
    BY Kinds DEF Deciders
  <2>3. \A c \in Children : /\ child'[c].alive = FALSE
                            /\ child'[c].status = child[c].status \/ OrphanChild(c)
    BY CrashTypes
  <2>4. UNCHANGED <<rec, cyc>>
    BY DEF Crash
  <2> QED BY <2>1, <2>2, <2>3, <2>4
<1>1. \A c \in Children : Undone(c)' => Undone(c)
  BY <1>0 DEF Undone, Next1, OrphanChild
<1>2. \A a \in Actors : Writes(a)' => Writes(a) /\ cyc'[a] = cyc[a]
  BY <1>0 DEF Writes, Next1
<1>3. ScriptsAfterExit'
  BY <1>0 DEF ScriptsAfterExit
<1> QED BY <1>0, <1>1, <1>2, <1>3, OutcomesKept

\* The remaining actions neither write a record nor touch the end of a child.
LEMMA RestOutcomes ==
  ASSUME Types, Outcomes,
         \/ StartParent \/ ExitParent \/ Overdue \/ SwitchReview
         \/ (\E q \in Requests : Cancel(q)) \/ UNCHANGED vars
  PROVE  Outcomes' /\ rec' = rec
<1>0. Scripts
  BY DEF Types
<1>1. UNCHANGED <<rec, child, cyc>>
  BY DEF StartParent, ExitParent, Overdue, SwitchReview, Cancel, vars
<1>2. \/ todo' = todo \/ todo' = [todo EXCEPT !["impl"] = <<Do("gate")>>]
      \/ \E q \in Requests : todo' = [todo EXCEPT ![q] = CancelScript]
  BY DEF StartParent, ExitParent, Overdue, SwitchReview, Cancel, vars, Perform
<1>3. \A b \in Actors : \/ todo'[b] = todo[b]
                        \/ b \notin Children /\ ~Writes(b)'
  <2>1. CASE todo' = [todo EXCEPT !["impl"] = <<Do("gate")>>]
    BY <1>0, <2>1, Kinds, Beginnings, Fields DEF Scripts, Writes, Next1
  <2>2. ASSUME NEW q \in Requests, todo' = [todo EXCEPT ![q] = CancelScript]
        PROVE  \A b \in Actors : todo'[b] = todo[b] \/ (b \notin Children /\ ~Writes(b)')
    <3>1. q \notin Children
      BY Kinds DEF Deciders
    <3> QED BY <1>0, <2>2, <3>1, Beginnings, Fields DEF Scripts, Writes, Next1
  <2> QED BY <1>2, <2>1, <2>2
<1>4. \A c \in Children : todo'[c] = todo[c]
  BY <1>3, Kinds
<1>5. \A c \in Children : Undone(c)' => Undone(c)
  BY <1>1, <1>4 DEF Undone, Next1
<1>6. \A b \in Actors : Writes(b)' => Writes(b) /\ cyc'[b] = cyc[b]
  BY <1>1, <1>3 DEF Writes, Next1
<1>7. ScriptsAfterExit'
  BY <1>1, <1>4 DEF Outcomes, ScriptsAfterExit
<1> QED BY <1>1, <1>5, <1>6, <1>7, OutcomesKept

\* At first no cycle has a record.
LEMMA OutcomesInit == Init => OutcomesInv
<1> SUFFICES ASSUME Init PROVE Outcomes
  BY DEF OutcomesInv
<1>1. /\ \A a \in Actors : todo[a] = <<>>
      /\ \A k \in Cycles : rec[k] = NoRecord
  BY DEF Init
<1>2. NoRecord.review = NoChild /\ NoRecord.remediation = NoChild
  BY DEF NoRecord
<1>3. RecordsWait
  BY <1>1, <1>2, Kinds DEF RecordsWait
<1>4. \A a \in Actors : ~Writes(a)
  BY <1>1 DEF Writes, Next1
<1>5. WritersExpected
  BY <1>4 DEF WritersExpected
<1>6. OneDecider
  BY <1>4, Kinds DEF OneDecider
<1>7. ScriptsAfterExit
  BY <1>1, Kinds DEF ScriptsAfterExit
<1> QED BY <1>3, <1>5, <1>6, <1>7 DEF Outcomes

\* Every step without a race keeps the outcomes, and writes no record that has its outcome.
LEMMA OutcomesStep ==
  ASSUME Types, Outcomes, [Next]_vars
  PROVE  /\ "race" \notin mishaps' => Outcomes'
         /\ \A k \in Cycles : rec[k].status \in Decided => rec'[k].status = rec[k].status
<1>1. ASSUME NEW a \in Actors, Statement(a)
      PROVE  /\ Outcomes'
             /\ \A k \in Cycles : rec[k].status \in Decided => rec'[k].status = rec[k].status
  BY <1>1, RecordOutcomes, OtherOutcomes
<1>2. ASSUME NEW c \in Children, StartChild(c) \/ ExitChild(c) \/ CancelChild(c) PROVE Outcomes' /\ rec' = rec
  BY <1>2, ChildOutcomes
<1>3. ASSUME NEW c \in Children, Completion(c) PROVE Outcomes' /\ rec' = rec
  BY <1>3, CompletionOutcomes
<1>4. ASSUME NEW a, (a \in Requests /\ \E d \in Offered : Decide(a, d)) \/ (a = "sweep" /\ Sweep)
      PROVE  ("race" \notin mishaps' => Outcomes') /\ rec' = rec
  BY <1>4, DecisionOutcomes, DecisionTypes
<1>5. CASE Crash
  BY <1>5, CrashOutcomes
<1>6. CASE \/ StartParent \/ ExitParent \/ Overdue \/ SwitchReview
           \/ (\E q \in Requests : Cancel(q)) \/ UNCHANGED vars
  BY <1>6, RestOutcomes
<1>7. CASE Sweep
  BY <1>4, <1>7
<1> QED BY <1>1, <1>2, <1>3, <1>4, <1>5, <1>6, <1>7 DEF Next

\* The outcome of a cycle stands, also over a crash and for a child that runs again after
\* it, unless two decisions of one cycle race.
THEOREM DecidedOnceHolds == Spec => DecidedOnce
<1>1. Types /\ OutcomesInv /\ [Next]_vars => OutcomesInv'
  BY OutcomesStep, TroublesStay DEF OutcomesInv
<1>2. Types /\ OutcomesInv /\ [Next]_vars =>
        [\A k \in Cycles : rec[k].status \in Decided /\ "race" \notin mishaps =>
                             rec'[k].status = rec[k].status]_vars
  BY OutcomesStep DEF OutcomesInv
<1>3. Spec => [](Types /\ OutcomesInv)
  BY <1>1, TypesInit, TypesKept, OutcomesInit, PTL DEF Spec
<1> QED BY <1>2, <1>3, PTL DEF Spec, DecidedOnce
=============================================================================
