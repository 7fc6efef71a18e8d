----------------------------- MODULE IntakeProofs -----------------------------
(***************************************************************************)
(* Proofs about Intake, for any number of requests, of drafts, of keys and *)
(* of contents, any limit, any time to live and any faults.                *)
(***************************************************************************)
EXTENDS Intake, FiniteSetTheorems, SequenceTheorems, WellFoundedInduction, TLAPS

Steps ==
  {"new", "clear", "find", "check", "txClear", "txFind", "lock", "count", "write",
   "dispatch", "againClear", "againFind", "answered"}
Answers == {"none", "refused", "reused", "mismatch", "limit", "error", "created", "lost"}
Names == Keys \cup {NoKey}
Bodies == {NoBody} \cup {Hash(c) : c \in Contents}
Askings == {NoMeaning} \cup {Meaning(c) : c \in Contents}
RowState == [key : Names, was : Names, body : Bodies, asks : Askings, at : Nat,
             state : {"draft", "active", "ended"}]
RequestState == [pc : Steps, key : Names, body : Bodies, asks : Askings, since : Nat,
                 row : Nat, why : {"none", "limit", "error"}, answer : Answers,
                 owed : Nat, known : Nat]

TypeOK ==
  /\ now \in Nat /\ faults \in Nat
  /\ rows \in Seq(RowState)
  /\ req \in [All -> RequestState]
  /\ cleared \in [All -> SUBSET DOMAIN rows]
  /\ lock \in All \cup {Nobody}
  /\ \A q \in All : req[q].since <= now

\* The fields of a request and of a row.
LEMMA RequestFields ==
  \A x \in RequestState :
    /\ x.pc \in Steps /\ x.key \in Names /\ x.body \in Bodies /\ x.asks \in Askings
    /\ x.since \in Nat /\ x.row \in Nat /\ x.why \in {"none", "limit", "error"}
    /\ x.answer \in Answers /\ x.owed \in Nat /\ x.known \in Nat
  BY DEF RequestState
\* The fields of a row.
LEMMA RowFields ==
  \A x \in RowState :
    /\ x.key \in Names /\ x.was \in Names /\ x.body \in Bodies /\ x.asks \in Askings
    /\ x.at \in Nat /\ x.state \in {"draft", "active", "ended"}
  BY DEF RowState

\* GoTo moves one request and nothing else of it.
LEMMA GoToMoves ==
  ASSUME req \in [All -> RequestState], NEW q \in All, NEW s \in Steps, GoTo(q, s)
  PROVE  /\ req' \in [All -> RequestState]
         /\ req'[q].pc = s
         /\ req'[q].key = req[q].key /\ req'[q].body = req[q].body
         /\ req'[q].asks = req[q].asks /\ req'[q].since = req[q].since
         /\ req'[q].row = req[q].row /\ req'[q].why = req[q].why
         /\ req'[q].answer = req[q].answer /\ req'[q].owed = req[q].owed
         /\ req'[q].known = req[q].known
         /\ \A p \in All \ {q} : req'[p] = req[p]
  BY DEF GoTo, RequestState

\* Answer ends one request.
LEMMA AnswerEnds ==
  ASSUME req \in [All -> RequestState], rows \in Seq(RowState),
         NEW q \in All, NEW a \in Answers, NEW n \in Nat, Answer(q, a, n)
  PROVE  /\ req' \in [All -> RequestState]
         /\ req'[q].pc = "answered" /\ req'[q].answer = a /\ req'[q].row = n
         /\ req'[q].key = req[q].key /\ req'[q].asks = req[q].asks
         /\ req'[q].owed = req[q].owed
         /\ req'[q].since = IF a \in {"limit", "error"} THEN req[q].since ELSE 0
         /\ req'[q].known = IF a \in {"limit", "error"} THEN Len(rows) ELSE 0
         /\ \A p \in All \ {q} : req'[p] = req[p]
<1>. DEFINE t == IF a \in {"limit", "error"} THEN req[q].since ELSE 0
            k == IF a \in {"limit", "error"} THEN Len(rows) ELSE 0
            y == [req[q] EXCEPT !.pc = "answered", !.answer = a, !.row = n, !.body = NoBody,
                                !.why = "none", !.since = t, !.known = k]
<1>1. req' = [req EXCEPT ![q] = y]
  BY DEF Answer
<1>2. req[q] \in RequestState /\ t \in Nat /\ k \in Nat
  BY RequestFields
<1>3. /\ y \in RequestState /\ y.pc = "answered" /\ y.answer = a /\ y.row = n
      /\ y.key = req[q].key /\ y.asks = req[q].asks /\ y.owed = req[q].owed
      /\ y.since = t /\ y.known = k
  <2>. HIDE DEF t, k
  <2>. QED
    BY <1>2 DEF RequestState, Steps, Bodies
<1>. HIDE DEF y
<1>4. req' \in [All -> RequestState] /\ req'[q] = y /\ \A p \in All \ {q} : req'[p] = req[p]
  BY <1>1, <1>3
<1>. QED
  BY <1>3, <1>4

-----------------------------------------------------------------------------
\* A set of naturals that is not empty and has a bound has a maximum, which Max finds.
LEMMA MaxIsThere ==
  ASSUME NEW S \in SUBSET Nat, S # {}, NEW k \in Nat, \A x \in S : x <= k
  PROVE  Max(S) \in S /\ \A x \in S : x <= Max(S)
<1>. DEFINE R == OpToRel(<, Nat)
            B == {b \in Nat : \A x \in S : x <= b}
<1>1. PICK b \in B : \A c \in B : ~(<<c, b>> \in R)
  <2>1. IsWellFoundedOn(R, Nat)
    BY NatLessThanWellFounded
  <2>2. B \subseteq Nat /\ B # {}
    OBVIOUS
  <2>. HIDE DEF R, B
  <2>. QED
    BY <2>1, <2>2, WFMin
<1>2. \A c \in B : ~(c < b)
  <2>1. \A c \in Nat : c < b => <<c, b>> \in R
    BY <1>1 DEF OpToRel
  <2>. QED
    BY <2>1, <1>1
<1>3. b \in S
  <2>. SUFFICES ASSUME b \notin S PROVE FALSE
    OBVIOUS
  <2>1. PICK s \in S : TRUE
    OBVIOUS
  <2>2. \A x \in S : x < b
    OBVIOUS
  <2>3. b - 1 \in B /\ b - 1 < b
    BY <2>1, <2>2
  <2>. QED
    BY <2>3, <1>2
<1>4. \A x \in S : b >= x
  OBVIOUS
<1>. QED
  BY <1>3, <1>4 DEF Max

\* The maximum of a set of naturals with one member.
LEMMA MaxOfOne == \A n \in Nat : Max({n}) = n
<1>. TAKE n \in Nat
<1>. QED
  BY MaxIsThere

\* The rows without the key of some of them.
Without(r, ns) == [n \in DOMAIN r |-> IF n \in ns THEN [r[n] EXCEPT !.key = NoKey] ELSE r[n]]
\* Clearing the keys of some rows changes nothing else of them.
LEMMA WithoutKeys ==
  ASSUME NEW r \in Seq(RowState), NEW ns
  PROVE  /\ Without(r, ns) \in Seq(RowState) /\ Len(Without(r, ns)) = Len(r)
         /\ DOMAIN Without(r, ns) = DOMAIN r
         /\ \A n \in DOMAIN r :
              /\ Without(r, ns)[n].was = r[n].was /\ Without(r, ns)[n].at = r[n].at
              /\ Without(r, ns)[n].asks = r[n].asks /\ Without(r, ns)[n].body = r[n].body
              /\ Without(r, ns)[n].state = r[n].state
              /\ n \in ns => Without(r, ns)[n].key = NoKey
              /\ n \notin ns => Without(r, ns)[n] = r[n]
<1>1. /\ Len(r) \in Nat /\ DOMAIN r = 1..Len(r) /\ \A n \in DOMAIN r : r[n] \in RowState
  OBVIOUS
<1>2. \A x \in RowState : \A y :
        y = [x EXCEPT !.key = NoKey] =>
          /\ y \in RowState /\ y.key = NoKey /\ y.was = x.was /\ y.at = x.at
          /\ y.asks = x.asks /\ y.body = x.body /\ y.state = x.state
  BY DEF RowState, Names
<1>3. /\ DOMAIN Without(r, ns) = 1..Len(r)
      /\ \A n \in DOMAIN r :
           /\ n \in ns => Without(r, ns)[n] = [r[n] EXCEPT !.key = NoKey]
           /\ n \notin ns => Without(r, ns)[n] = r[n]
  BY <1>1 DEF Without
<1>6. \A n \in DOMAIN r :
        /\ Without(r, ns)[n] \in RowState
        /\ Without(r, ns)[n].was = r[n].was /\ Without(r, ns)[n].at = r[n].at
        /\ Without(r, ns)[n].asks = r[n].asks /\ Without(r, ns)[n].body = r[n].body
        /\ Without(r, ns)[n].state = r[n].state
        /\ n \in ns => Without(r, ns)[n].key = NoKey
  <2>. TAKE n \in DOMAIN r
  <2>1. CASE n \in ns
    BY <2>1, <1>1, <1>2, <1>3
  <2>2. CASE n \notin ns
    BY <2>2, <1>1, <1>3
  <2>. QED
    BY <2>1, <2>2
<1>4. Without(r, ns) \in [1..Len(r) -> RowState]
  <2>1. Without(r, ns) = [n \in 1..Len(r) |-> Without(r, ns)[n]]
    BY <1>1 DEF Without
  <2>. QED
    BY <2>1, <1>1, <1>6
<1>5. Without(r, ns) \in Seq(RowState) /\ Len(Without(r, ns)) = Len(r)
  BY <1>4, <1>1, SeqDef, LenProperties
<1>. QED
  BY <1>1, <1>3, <1>5, <1>6

\* Forget is Without; the rows that are old, named or found by a request are rows.
LEMMA ForgetIsWithout == \A ns : Forget(ns) => rows' = Without(rows, ns)
  BY DEF Forget, Without
\* The rows a lookup finds, and those it clears.
LEMMA FoundAreRows ==
  \A q : /\ Found(q) \subseteq Named(q) /\ Old(q) \subseteq Named(q)
         /\ Named(q) \subseteq DOMAIN rows /\ Old(q) \cap cleared[q] = {}
  BY DEF Found, Old, Named

\* Reuse answers with the last execution found, or tells of the mismatch.
LEMMA ReuseAnswers ==
  ASSUME TypeOK, NEW q \in All, Reuse(q)
  PROVE  \E m \in Found(q) :
           /\ \A n \in Found(q) : n <= m
           /\ IF rows[m].body = req[q].body THEN Answer(q, "reused", m)
                                            ELSE Answer(q, "mismatch", 0)
<1>1. Found(q) \in SUBSET Nat /\ Found(q) # {} /\ Len(rows) \in Nat
      /\ \A n \in Found(q) : n <= Len(rows)
  BY FoundAreRows DEF TypeOK, Reuse
<1>2. Max(Found(q)) \in Found(q) /\ \A n \in Found(q) : n <= Max(Found(q))
  BY <1>1, MaxIsThere
<1>. QED
  BY <1>2 DEF Reuse

\* Failed answers a request without a key, and has the key of another looked up again.
LEMMA FailedMoves ==
  ASSUME TypeOK, NEW q \in All, NEW w \in {"limit", "error"}, Failed(q, w)
  PROVE  \/ req[q].key = NoKey /\ Answer(q, w, 0)
         \/ /\ req[q].key # NoKey /\ req' \in [All -> RequestState]
            /\ req'[q].pc = "againClear" /\ req'[q].why = w
            /\ req'[q].key = req[q].key /\ req'[q].body = req[q].body
            /\ req'[q].asks = req[q].asks /\ req'[q].since = req[q].since
            /\ req'[q].row = req[q].row /\ req'[q].owed = req[q].owed
            /\ req'[q].answer = req[q].answer
            /\ \A p \in All \ {q} : req'[p] = req[p]
<1>1. CASE req[q].key = NoKey
  BY <1>1 DEF Failed
<1>2. CASE req[q].key # NoKey
  <2>. DEFINE y == [req[q] EXCEPT !.pc = "againClear", !.why = w]
  <2>1. req' = [req EXCEPT ![q] = y]
    BY <1>2 DEF Failed
  <2>2. req \in [All -> RequestState] /\ req[q] \in RequestState
    BY DEF TypeOK
  <2>3. /\ y \in RequestState /\ y.pc = "againClear" /\ y.why = w
        /\ y.key = req[q].key /\ y.body = req[q].body /\ y.asks = req[q].asks
        /\ y.since = req[q].since /\ y.row = req[q].row /\ y.owed = req[q].owed
        /\ y.answer = req[q].answer
    BY <2>2 DEF RequestState, Steps
  <2>. HIDE DEF y
  <2>4. req' \in [All -> RequestState] /\ req'[q] = y /\ \A p \in All \ {q} : req'[p] = req[p]
    BY <2>1, <2>2, <2>3
  <2>. QED
    BY <1>2, <2>3, <2>4
<1>. QED
  BY <1>1, <1>2

\* What every step of one request leaves of the requests.
OneStep(q) ==
  /\ req' \in [All -> RequestState] /\ \A p \in All \ {q} : req'[p] = req[p]
  /\ req'[q].since <= now
\* The ways a request goes on: each moves this request only.
LEMMA OneMoves ==
  ASSUME TypeOK, NEW q \in All
  PROVE  /\ \A s \in Steps : GoTo(q, s) => OneStep(q)
         /\ \A a \in Answers, n \in Nat : Answer(q, a, n) => OneStep(q)
         /\ Reuse(q) => OneStep(q)
         /\ \A w \in {"limit", "error"} : Failed(q, w) => OneStep(q)
<1>0. req \in [All -> RequestState] /\ rows \in Seq(RowState) /\ req[q] \in RequestState
      /\ req[q].since <= now /\ now \in Nat
  BY DEF TypeOK
<1>1. \A s \in Steps : GoTo(q, s) => OneStep(q)
  BY <1>0, GoToMoves DEF OneStep
<1>2. \A a \in Answers, n \in Nat : Answer(q, a, n) => OneStep(q)
  <2>. SUFFICES ASSUME NEW a \in Answers, NEW n \in Nat, Answer(q, a, n) PROVE OneStep(q)
    OBVIOUS
  <2>. QED
    BY <1>0, AnswerEnds DEF OneStep
<1>3. Reuse(q) => OneStep(q)
  <2>. SUFFICES ASSUME Reuse(q) PROVE OneStep(q)
    OBVIOUS
  <2>1. PICK m \in Found(q) : Answer(q, "reused", m) \/ Answer(q, "mismatch", 0)
    BY ReuseAnswers
  <2>2. m \in Nat
    BY FoundAreRows, <1>0
  <2>. QED
    BY <2>1, <2>2, <1>2 DEF Answers
<1>4. \A w \in {"limit", "error"} : Failed(q, w) => OneStep(q)
  <2>. SUFFICES ASSUME NEW w \in {"limit", "error"}, Failed(q, w) PROVE OneStep(q)
    OBVIOUS
  <2>1. Answer(q, w, 0) => OneStep(q)
    BY <1>2 DEF Answers
  <2>. QED
    BY <2>1, <1>0, FailedMoves DEF OneStep
<1>. QED
  BY <1>1, <1>2, <1>3, <1>4

-----------------------------------------------------------------------------
(* Types.                                                                  *)

\* A row can be appended, and the state of one can be set.
LEMMA AppendRow ==
  ASSUME NEW r \in Seq(RowState), NEW x \in RowState
  PROVE  /\ Append(r, x) \in Seq(RowState) /\ Len(Append(r, x)) = Len(r) + 1
         /\ DOMAIN Append(r, x) = DOMAIN r \cup {Len(r) + 1}
         /\ Len(r) + 1 \notin DOMAIN r
         /\ Append(r, x)[Len(r) + 1] = x
         /\ \A n \in DOMAIN r : Append(r, x)[n] = r[n]
  OBVIOUS
InState(r, n, t) == [r EXCEPT ![n].state = t]
\* A row that changes its state keeps all else.
LEMMA SetState ==
  ASSUME NEW r \in Seq(RowState), NEW n, NEW t \in {"draft", "active", "ended"}
  PROVE  LET r2 == InState(r, n, t)
         IN /\ r2 \in Seq(RowState) /\ Len(r2) = Len(r) /\ DOMAIN r2 = DOMAIN r
            /\ \A m \in DOMAIN r :
                 /\ m # n => r2[m] = r[m]
                 /\ m = n => r2[m].state = t
                 /\ r2[m].key = r[m].key /\ r2[m].was = r[m].was /\ r2[m].at = r[m].at
                 /\ r2[m].body = r[m].body /\ r2[m].asks = r[m].asks
<1>. DEFINE r2 == InState(r, n, t)
<1>1. CASE n \notin DOMAIN r
  <2>1. r2 = r
    BY <1>1 DEF InState
  <2>. QED
    BY <1>1, <2>1
<1>2. CASE n \in DOMAIN r
  <2>. DEFINE y == [r[n] EXCEPT !.state = t]
  <2>1. r[n] \in RowState
    BY <1>2
  <2>2. /\ y \in RowState /\ y.state = t /\ y.key = r[n].key /\ y.was = r[n].was
        /\ y.at = r[n].at /\ y.body = r[n].body /\ y.asks = r[n].asks
    BY <2>1 DEF RowState
  <2>3. r2 = [r EXCEPT ![n] = y]
    BY DEF InState
  <2>. HIDE DEF y
  <2>4. /\ r2 \in Seq(RowState) /\ Len(r2) = Len(r) /\ DOMAIN r2 = DOMAIN r
        /\ r2[n] = y /\ \A m \in DOMAIN r : m # n => r2[m] = r[m]
    BY <1>2, <2>2, <2>3
  <2>. QED
    BY <2>2, <2>4
<1>. QED
  BY <1>1, <1>2

\* What the insert writes, when the index lets it.
NewRow(q) == [key |-> req[q].key, was |-> req[q].key, body |-> req[q].body,
              asks |-> req[q].asks, at |-> now, state |-> "active"]
Inserted(q) ==
  /\ rows' = Append(Without(rows, cleared[q]), NewRow(q))
  /\ req' = [req EXCEPT ![q].pc = "dispatch", ![q].row = Len(rows) + 1]
\* The transaction that inserts: one row more, at the end, with the key of the request.
LEMMA InsertedRow ==
  ASSUME TypeOK, NEW q \in All, Inserted(q)
  PROVE  /\ rows' \in Seq(RowState) /\ Len(rows') = Len(rows) + 1
         /\ DOMAIN rows' = DOMAIN rows \cup {Len(rows) + 1} /\ Len(rows) + 1 \notin DOMAIN rows
         /\ rows'[Len(rows) + 1] = NewRow(q)
         /\ \A n \in DOMAIN rows : rows'[n] = Without(rows, cleared[q])[n]
         /\ req' \in [All -> RequestState]
         /\ req'[q].pc = "dispatch" /\ req'[q].row = Len(rows) + 1
         /\ req'[q].key = req[q].key /\ req'[q].body = req[q].body
         /\ req'[q].asks = req[q].asks /\ req'[q].since = req[q].since
         /\ req'[q].answer = req[q].answer /\ req'[q].owed = req[q].owed
         /\ \A p \in All \ {q} : req'[p] = req[p]
<1>1. /\ rows \in Seq(RowState) /\ req \in [All -> RequestState] /\ req[q] \in RequestState
      /\ Len(rows) \in Nat /\ now \in Nat
  BY DEF TypeOK
<1>2. NewRow(q) \in RowState
  BY <1>1, RequestFields DEF NewRow, RowState
<1>3. /\ Without(rows, cleared[q]) \in Seq(RowState)
      /\ Len(Without(rows, cleared[q])) = Len(rows)
      /\ DOMAIN Without(rows, cleared[q]) = DOMAIN rows
  BY <1>1, WithoutKeys
<1>4. /\ rows' \in Seq(RowState) /\ Len(rows') = Len(rows) + 1
      /\ DOMAIN rows' = DOMAIN rows \cup {Len(rows) + 1} /\ Len(rows) + 1 \notin DOMAIN rows
      /\ rows'[Len(rows) + 1] = NewRow(q)
      /\ \A n \in DOMAIN rows : rows'[n] = Without(rows, cleared[q])[n]
  <2>. HIDE DEF NewRow
  <2>. QED
    BY <1>2, <1>3, AppendRow DEF Inserted
<1>. DEFINE m == Len(rows) + 1
            y == [req[q] EXCEPT !.pc = "dispatch", !.row = m]
<1>5. m \in Nat
  BY <1>1
<1>8. req' = [req EXCEPT ![q].pc = "dispatch", ![q].row = m]
  BY DEF Inserted
<1>. HIDE DEF m
<1>9. req' = [req EXCEPT ![q] = y]
  BY <1>1, <1>8
<1>6. /\ y \in RequestState /\ y.pc = "dispatch" /\ y.row = m
      /\ y.key = req[q].key /\ y.body = req[q].body /\ y.asks = req[q].asks
      /\ y.since = req[q].since /\ y.owed = req[q].owed /\ y.answer = req[q].answer
  BY <1>1, <1>5 DEF RequestState, Steps
<1>. HIDE DEF y
<1>7. req' \in [All -> RequestState] /\ req'[q] = y /\ \A p \in All \ {q} : req'[p] = req[p]
  BY <1>1, <1>6, <1>9
<1>. QED
  BY <1>4, <1>6, <1>7 DEF m
\* An insertion succeeds, or fails on the unique key and changes no row.
LEMMA InsertInserts ==
  \A q : Insert(q) => \/ Named(q) = {} /\ Inserted(q)
                      \/ Named(q) # {} /\ Failed(q, "error") /\ rows' = rows
  BY DEF Insert, Inserted, Without, NewRow

\* What Arrive makes of a request that it does not refuse; owed is 0 or an execution with
\* the key, that means the same and is not too old.
Came(q, k, c, n) ==
  req' = [req EXCEPT ![q] = [@ EXCEPT
            !.pc = IF k = NoKey THEN "check" ELSE "clear",
            !.key = k, !.since = now, !.owed = n,
            !.body = IF k = NoKey THEN NoBody ELSE Hash(c),
            !.asks = IF k = NoKey THEN NoMeaning ELSE Meaning(c)]]
SameNamed(k, c) ==
  {n \in DOMAIN rows : /\ k # NoKey /\ rows[n].key = k /\ rows[n].asks = Meaning(c)
                       /\ rows[n].at + Ttl >= now}
\* A request that arrives is refused, or comes with a key and a content.
LEMMA ArriveComes ==
  ASSUME TypeOK, NEW q \in All, Arrive(q)
  PROVE  \/ Answer(q, "refused", 0)
         \/ \E k \in Names, c \in Contents, n \in {0} \cup DOMAIN rows :
              /\ Came(q, k, c, n)
              /\ n \in {0} \cup SameNamed(k, c)
              /\ \A m \in SameNamed(k, c) : m <= n
<1>1. PICK h \in Headers, c \in Contents :
        IF h.text = "long" \/ ~Owned(c) THEN Answer(q, "refused", 0)
        ELSE Came(q, NormalizedKey(h), c, Max({0} \cup SameNamed(NormalizedKey(h), c)))
  BY DEF Arrive, Came, SameNamed
<1>. DEFINE k == NormalizedKey(h)
            S == {0} \cup SameNamed(k, c)
<1>2. k \in Names
  BY DEF NormalizedKey, Headers, Names
<1>3. S \in SUBSET Nat /\ S # {} /\ Len(rows) \in Nat /\ \A x \in S : x <= Len(rows)
  BY DEF SameNamed, TypeOK
<1>4. Max(S) \in S /\ \A x \in S : x <= Max(S)
  <2>. HIDE DEF S
  <2>. QED
    BY <1>3, MaxIsThere
<1>5. Max(S) \in {0} \cup DOMAIN rows
  BY <1>4 DEF SameNamed
<1>. QED
  BY <1>1, <1>2, <1>4, <1>5
\* Where a request that came starts from.
LEMMA CameMoves ==
  ASSUME TypeOK, NEW q \in All, NEW k \in Names, NEW c \in Contents, NEW n \in Nat,
         Came(q, k, c, n)
  PROVE  /\ OneStep(q) /\ req'[q].pc = (IF k = NoKey THEN "check" ELSE "clear")
         /\ req'[q].key = k /\ req'[q].since = now /\ req'[q].owed = n
         /\ req'[q].answer = req[q].answer /\ req'[q].row = req[q].row
         /\ k # NoKey => req'[q].body = Hash(c) /\ req'[q].asks = Meaning(c)
<1>. DEFINE s == IF k = NoKey THEN "check" ELSE "clear"
            b == IF k = NoKey THEN NoBody ELSE Hash(c)
            a == IF k = NoKey THEN NoMeaning ELSE Meaning(c)
            y == [req[q] EXCEPT !.pc = s, !.key = k, !.since = now, !.owed = n,
                                !.body = b, !.asks = a]
<1>1. req' = [req EXCEPT ![q] = y]
  BY DEF Came
<1>2. req \in [All -> RequestState] /\ req[q] \in RequestState /\ now \in Nat
      /\ s \in Steps /\ b \in Bodies /\ a \in Askings
  BY DEF TypeOK, Steps, Bodies, Askings
<1>3. /\ y \in RequestState /\ y.pc = s /\ y.key = k /\ y.since = now /\ y.owed = n
      /\ y.answer = req[q].answer /\ y.row = req[q].row /\ y.body = b /\ y.asks = a
  <2>. HIDE DEF s, b, a
  <2>. QED
    BY <1>2 DEF RequestState
<1>. HIDE DEF y
<1>4. req' \in [All -> RequestState] /\ req'[q] = y /\ \A p \in All \ {q} : req'[p] = req[p]
  BY <1>1, <1>2, <1>3
<1>. QED
  BY <1>2, <1>3, <1>4 DEF OneStep

\* The parts of the state that are not about requests, typed for the step.
RowsStep == rows' \in Seq(RowState) /\ Len(rows) <= Len(rows')
TypedStep(q) ==
  /\ OneStep(q) /\ RowsStep
  /\ cleared' \in [All -> SUBSET DOMAIN rows]
  /\ lock' \in All \cup {Nobody}
  /\ now' = now /\ faults' \in Nat
\* A step that moves one request and keeps the types of the rows keeps all types.
LEMMA TypedStepKeepsTypes ==
  ASSUME TypeOK, NEW q \in All, TypedStep(q)
  PROVE  TypeOK'
<1>1. DOMAIN rows \subseteq DOMAIN rows'
  <2>1. Len(rows) \in Nat /\ Len(rows') \in Nat /\ DOMAIN rows = 1..Len(rows)
        /\ DOMAIN rows' = 1..Len(rows')
    BY DEF TypeOK, TypedStep, RowsStep
  <2>. QED
    BY <2>1 DEF TypedStep, RowsStep
<1>2. \A p \in All : req'[p].since <= now
  BY DEF TypeOK, TypedStep, OneStep
<1>. QED
  BY <1>1, <1>2 DEF TypeOK, TypedStep, OneStep, RowsStep

\* Rolling back, or leaving alone, keeps the types of locks.
LEMMA RollbackTyped ==
  ASSUME TypeOK, NEW q \in All, Rollback(q)
  PROVE  /\ cleared' \in [All -> SUBSET DOMAIN rows] /\ lock' \in All \cup {Nobody}
         /\ cleared'[q] = {} /\ \A p \in All \ {q} : cleared'[p] = cleared[p]
         /\ lock # q => lock' = lock
         /\ lock = q => lock' = Nobody
  BY DEF TypeOK, Rollback

\* The steps of a request up to its transaction are such steps ...
LEMMA LookupTyped ==
  ASSUME TypeOK, NEW q \in All,
         Arrive(q) \/ Clear(q) \/ Find(q) \/ Check(q) \/ TxClear(q) \/ TxFind(q)
  PROVE  TypedStep(q)
<1>1. cleared \in [All -> SUBSET DOMAIN rows] /\ lock \in All \cup {Nobody} /\ faults \in Nat
      /\ rows \in Seq(RowState) /\ Len(rows) \in Nat
  BY DEF TypeOK
<1>2. rows' = rows => RowsStep
  BY <1>1 DEF RowsStep
<1>3. \A ns : Forget(ns) => RowsStep
  BY <1>1, ForgetIsWithout, WithoutKeys DEF RowsStep
<1>4. CASE Arrive(q)
  <2>1. OneStep(q)
    <3>1. Answer(q, "refused", 0) => OneStep(q)
      BY OneMoves DEF Answers
    <3>2. ASSUME NEW k \in Names, NEW c \in Contents, NEW n \in {0} \cup DOMAIN rows,
                 Came(q, k, c, n)
          PROVE  OneStep(q)
      <4>1. n \in Nat
        BY <1>1
      <4>. QED
        BY <3>2, <4>1, CameMoves
    <3>. QED
      BY <1>4, <3>1, <3>2, ArriveComes
  <2>. QED
    BY <1>1, <1>2, <1>4, <2>1 DEF Arrive, TypedStep
<1>5. CASE Clear(q)
  <2>1. OneStep(q)
    BY <1>5, OneMoves DEF Clear, Steps
  <2>. QED
    BY <1>1, <1>3, <1>5, <2>1 DEF Clear, TypedStep
<1>6. CASE Find(q)
  <2>1. OneStep(q)
    BY <1>6, OneMoves DEF Find, Steps
  <2>. QED
    BY <1>1, <1>2, <1>6, <2>1 DEF Find, TypedStep
<1>7. CASE Check(q)
  <2>1. OneStep(q)
    BY <1>7, OneMoves DEF Check, Steps, Answers
  <2>. QED
    BY <1>1, <1>2, <1>7, <2>1 DEF Check, TypedStep
<1>8. CASE TxClear(q)
  <2>1. OneStep(q)
    BY <1>8, OneMoves DEF TxClear, Steps
  <2>2. Old(q) \in SUBSET DOMAIN rows
    BY FoundAreRows
  <2>3. cleared' \in [All -> SUBSET DOMAIN rows]
    BY <1>1, <1>8, <2>2 DEF TxClear
  <2>. QED
    BY <1>1, <1>2, <1>8, <2>1, <2>3 DEF TxClear, TypedStep
<1>9. CASE TxFind(q)
  <2>1. OneStep(q)
    BY <1>9, OneMoves DEF TxFind, Steps
  <2>2. RowsStep
    BY <1>2, <1>3, <1>9 DEF TxFind
  <2>3. cleared' \in [All -> SUBSET DOMAIN rows] /\ lock' \in All \cup {Nobody}
    BY <1>1, <1>9, RollbackTyped DEF TxFind
  <2>. QED
    BY <1>1, <1>9, <2>1, <2>2, <2>3 DEF TxFind, TypedStep
<1>. QED
  BY <1>4, <1>5, <1>6, <1>7, <1>8, <1>9

\* ... and those from the lock on.
LEMMA WorkTyped ==
  ASSUME TypeOK, NEW q \in All,
         Lock(q) \/ Count(q) \/ Insert(q) \/ StartDraft(q) \/ FindAgain(q) \/ Dispatch(q)
  PROVE  TypedStep(q)
<1>1. /\ cleared \in [All -> SUBSET DOMAIN rows] /\ lock \in All \cup {Nobody} /\ faults \in Nat
      /\ rows \in Seq(RowState) /\ Len(rows) \in Nat
      /\ req[q].row \in Nat /\ req[q].why \in {"none", "limit", "error"}
  BY RequestFields DEF TypeOK
<1>2. rows' = rows => RowsStep
  BY <1>1 DEF RowsStep
<1>3. \A n, t : t \in {"draft", "active", "ended"} /\ rows' = InState(rows, n, t) => RowsStep
  BY <1>1, SetState DEF RowsStep
<1>0. /\ StartDraft(q) => \/ rows' = InState(rows, req[q].row, "active")
                          \/ rows' = rows
      /\ Dispatch(q) => \/ rows' = InState(rows, req[q].row, "draft")
                        \/ rows' = InState(rows, req[q].row, "ended")
                        \/ rows' = rows
  BY DEF StartDraft, Dispatch, InState
<1>4. CASE Lock(q)
  <2>1. OneStep(q)
    BY <1>4, OneMoves DEF Lock, Steps
  <2>. QED
    BY <1>1, <1>2, <1>4, <2>1 DEF Lock, TypedStep
<1>5. CASE Count(q)
  <2>1. OneStep(q)
    BY <1>5, OneMoves DEF Count, Steps
  <2>2. cleared' \in [All -> SUBSET DOMAIN rows] /\ lock' \in All \cup {Nobody}
    BY <1>1, <1>5, RollbackTyped DEF Count
  <2>. QED
    BY <1>1, <1>2, <1>5, <2>1, <2>2 DEF Count, TypedStep
<1>6. CASE Insert(q)
  <2>1. OneStep(q) /\ RowsStep
    <3>1. Failed(q, "error") /\ rows' = rows => OneStep(q) /\ RowsStep
      BY <1>2, OneMoves
    <3>2. ASSUME Inserted(q) PROVE OneStep(q) /\ RowsStep
      <4>1. req[q].since <= now
        BY DEF TypeOK
      <4>. QED
        BY <3>2, <4>1, <1>1, InsertedRow DEF OneStep, RowsStep
    <3>. QED
      BY <1>6, <3>1, <3>2, InsertInserts
  <2>2. cleared' \in [All -> SUBSET DOMAIN rows] /\ lock' \in All \cup {Nobody}
    BY <1>6, RollbackTyped DEF Insert
  <2>. QED
    BY <1>1, <1>6, <2>1, <2>2 DEF Insert, TypedStep
<1>7. CASE StartDraft(q)
  <2>1. OneStep(q)
    BY <1>1, <1>7, OneMoves DEF StartDraft, Steps, Answers
  <2>2. RowsStep
    BY <1>0, <1>2, <1>3, <1>7
  <2>3. cleared' \in [All -> SUBSET DOMAIN rows] /\ lock' \in All \cup {Nobody}
    BY <1>7, RollbackTyped DEF StartDraft
  <2>. QED
    BY <1>1, <1>7, <2>1, <2>2, <2>3 DEF StartDraft, TypedStep
<1>8. CASE FindAgain(q)
  <2>1. OneStep(q)
    BY <1>1, <1>8, OneMoves DEF FindAgain, Answers
  <2>. QED
    BY <1>1, <1>2, <1>8, <2>1 DEF FindAgain, TypedStep
<1>9. CASE Dispatch(q)
  <2>1. OneStep(q)
    BY <1>1, <1>9, OneMoves DEF Dispatch, Answers
  <2>2. RowsStep
    BY <1>0, <1>2, <1>3, <1>9
  <2>3. faults' \in Nat
    BY <1>1, <1>9 DEF Dispatch, Fault
  <2>. QED
    BY <1>1, <1>9, <2>1, <2>2, <2>3 DEF Dispatch, TypedStep
<1>. QED
  BY <1>4, <1>5, <1>6, <1>7, <1>8, <1>9

\* AskStart gives a request a draft and sends it to the transaction.
LEMMA AskStartAsks ==
  ASSUME TypeOK, NEW q \in All, AskStart(q)
  PROVE  /\ OneStep(q) /\ req'[q].pc = "lock" /\ req'[q].row \in DOMAIN rows
         /\ req'[q].key = req[q].key /\ req'[q].body = req[q].body
         /\ req'[q].asks = req[q].asks /\ req'[q].since = req[q].since
         /\ req'[q].answer = req[q].answer /\ req'[q].owed = req[q].owed
<1>1. PICK n \in DOMAIN rows : req' = [req EXCEPT ![q].row = n, ![q].pc = "lock"]
  BY DEF AskStart
<1>. DEFINE y == [req[q] EXCEPT !.row = n, !.pc = "lock"]
<1>2. req \in [All -> RequestState] /\ req[q] \in RequestState /\ n \in Nat
      /\ req[q].since <= now
  BY DEF TypeOK
<1>3. req' = [req EXCEPT ![q] = y]
  BY <1>1, <1>2
<1>4. /\ y \in RequestState /\ y.pc = "lock" /\ y.row = n /\ y.key = req[q].key
      /\ y.body = req[q].body /\ y.asks = req[q].asks /\ y.since = req[q].since
      /\ y.answer = req[q].answer /\ y.owed = req[q].owed
  BY <1>2 DEF RequestState, Steps
<1>. HIDE DEF y
<1>5. req' \in [All -> RequestState] /\ req'[q] = y /\ \A p \in All \ {q} : req'[p] = req[p]
  BY <1>2, <1>3, <1>4
<1>. QED
  BY <1>2, <1>4, <1>5 DEF OneStep

\* After a crash of the API process a request is as it was or has lost its answer.
LEMMA CrashLoses ==
  ASSUME TypeOK, ApiCrash, NEW q \in All
  PROVE  /\ req'[q] \in RequestState
         /\ \/ req[q].pc \in {"new", "answered"} /\ req'[q] = req[q]
            \/ /\ req'[q].pc = "answered" /\ req'[q].answer = "lost" /\ req'[q].since = 0
               /\ req'[q].key = NoKey /\ req'[q].owed = 0
<1>1. req[q] \in RequestState
  BY DEF TypeOK
<1>. DEFINE y == [NewRequest EXCEPT !.pc = "answered", !.answer = "lost"]
<1>2. y \in RequestState /\ y.pc = "answered" /\ y.answer = "lost" /\ y.since = 0
      /\ y.key = NoKey /\ y.owed = 0
  BY DEF NewRequest, RequestState, Steps, Names, Bodies, Askings, Answers
<1>3. req'[q] = IF req[q].pc \in {"new", "answered"} THEN req[q] ELSE y
  BY DEF ApiCrash
<1>. HIDE DEF y
<1>. QED
  BY <1>1, <1>2, <1>3
\* A crash of the API ends the requests it was serving.
LEMMA CrashTyped ==
  ASSUME TypeOK, ApiCrash
  PROVE  TypeOK'
<1>1. \A q \in All : req'[q] \in RequestState /\ req'[q].since <= now
  <2>. TAKE q \in All
  <2>1. req[q].since <= now /\ now \in Nat
    BY DEF TypeOK
  <2>. QED
    BY <2>1, CrashLoses
<1>2. req' = [q \in All |-> req'[q]]
  BY DEF ApiCrash
<1>3. req' \in [All -> RequestState]
  BY <1>1, <1>2
<1>4. /\ cleared' \in [All -> SUBSET DOMAIN rows] /\ lock' = Nobody
      /\ rows' = rows /\ now' = now /\ faults' \in Nat
  BY DEF ApiCrash, Fault, TypeOK
<1>. QED
  BY <1>1, <1>3, <1>4 DEF TypeOK

\* The first state has no request under way and no execution but the drafts.
LEMMA InitTyped == Init => TypeOK
<1>. SUFFICES ASSUME Init PROVE TypeOK
  OBVIOUS
<1>1. NewRequest \in RequestState /\ NewRequest.since = 0
  BY DEF NewRequest, RequestState, Steps, Names, Bodies, Askings, Answers
<1>2. req \in [All -> RequestState] /\ \A q \in All : req[q].since <= 0
  <2>. HIDE DEF NewRequest
  <2>. QED
    BY <1>1 DEF Init
<1>3. Draft \in RowState
  BY DEF Draft, RowState, Names, Bodies, Askings
<1>4. Cardinality(Starts) \in Nat
  BY FS_CardinalityType, IntakeAssumption
<1>5. rows \in Seq(RowState)
  <2>. HIDE DEF Draft
  <2>1. rows \in [1..Cardinality(Starts) -> RowState]
    BY <1>3 DEF Init
  <2>. QED
    BY <1>4, <2>1, SeqDef
<1>. QED
  BY <1>2, <1>5 DEF Init, TypeOK

\* The steps that are not of one request change no type either.
LEMMA TypesKept == TypeOK /\ [Next]_vars => TypeOK'
<1>. SUFFICES ASSUME TypeOK, [Next]_vars PROVE TypeOK'
  OBVIOUS
<1>1. ASSUME NEW q \in All, Arrive(q) \/ RequestStep(q) PROVE TypeOK'
  BY <1>1, LookupTyped, WorkTyped, TypedStepKeepsTypes DEF RequestStep
<1>2. ASSUME NEW q \in Starts, AskStart(q) PROVE TypeOK'
  <2>1. q \in All
    BY DEF All
  <2>2. OneStep(q)
    BY <1>2, <2>1, AskStartAsks
  <2>3. rows' = rows /\ cleared' = cleared /\ lock' = lock /\ now' = now /\ faults' = faults
    BY <1>2 DEF AskStart
  <2>4. Len(rows) \in Nat
    BY DEF TypeOK
  <2>5. TypedStep(q)
    BY <2>2, <2>3, <2>4 DEF TypedStep, RowsStep, TypeOK
  <2>. QED
    BY <2>1, <2>5, TypedStepKeepsTypes
<1>3. ASSUME NEW n \in DOMAIN rows, Settle(n) PROVE TypeOK'
  <2>1. rows' = InState(rows, n, "ended")
    BY <1>3 DEF Settle, InState
  <2>2. rows' \in Seq(RowState) /\ DOMAIN rows' = DOMAIN rows
    BY <2>1, SetState DEF TypeOK
  <2>. QED
    BY <1>3, <2>2 DEF Settle, TypeOK
<1>4. CASE Tick
  <2>1. \A q \in All : req[q].since \in Nat
    BY RequestFields DEF TypeOK
  <2>. QED
    BY <1>4, <2>1 DEF Tick, TypeOK
<1>5. CASE DeleteTasks
  BY <1>5 DEF DeleteTasks, Fault, TypeOK
<1>6. CASE ApiCrash
  BY <1>6, CrashTyped
<1>7. CASE UNCHANGED vars
  BY <1>7 DEF vars, TypeOK
<1>8. Requests \subseteq All
  BY DEF All
<1>. QED
  BY <1>1, <1>2, <1>3, <1>4, <1>5, <1>6, <1>7, <1>8 DEF Next

\* Rows, requests and locks keep their types, for any number of requests and contents.
THEOREM IntakeTypes == Spec => []TypeOK
<1>1. Init => TypeOK
  BY InitTyped
<1>2. TypeOK /\ [Next]_vars => TypeOK'
  BY TypesKept
<1>. QED
  BY <1>1, <1>2, PTL DEF Spec

-----------------------------------------------------------------------------
(* The limit.                                                              *)

\* The count and the write happen under the lock on the user's row, so what a request
\* counted is still true when it writes.
HoldsLock == \A q \in All : At(q, "count") \/ At(q, "write") => lock = q
RoomLeft == \A q \in All : At(q, "write") => Cardinality(Active) < MaxConcurrent
LimitInv == HoldsLock /\ RoomLeft /\ LimitKept

\* Where a request is after the parts that steps are made of.
LEMMA WhereItGoes ==
  ASSUME TypeOK, NEW q \in All
  PROVE  /\ \A s \in Steps : GoTo(q, s) => req'[q].pc = s
         /\ \A a \in Answers, n \in Nat : Answer(q, a, n) => req'[q].pc = "answered"
         /\ Reuse(q) => req'[q].pc = "answered"
         /\ \A w \in {"limit", "error"} :
              Failed(q, w) => req'[q].pc \in {"answered", "againClear"}
<1>0. req \in [All -> RequestState] /\ rows \in Seq(RowState)
  BY DEF TypeOK
<1>1. \A s \in Steps : GoTo(q, s) => req'[q].pc = s
  BY <1>0, GoToMoves
<1>2. \A a \in Answers, n \in Nat : Answer(q, a, n) => req'[q].pc = "answered"
  BY <1>0, AnswerEnds
<1>3. Reuse(q) => req'[q].pc = "answered"
  <2>. SUFFICES ASSUME Reuse(q) PROVE req'[q].pc = "answered"
    OBVIOUS
  <2>1. PICK m \in Found(q) : Answer(q, "reused", m) \/ Answer(q, "mismatch", 0)
    BY ReuseAnswers
  <2>2. m \in Nat
    BY FoundAreRows, <1>0
  <2>. QED
    BY <2>1, <2>2, <1>2 DEF Answers
<1>4. \A w \in {"limit", "error"} : Failed(q, w) => req'[q].pc \in {"answered", "againClear"}
  BY <1>2, FailedMoves DEF Answers
<1>. QED
  BY <1>1, <1>2, <1>3, <1>4

\* The active executions are finitely many.
LEMMA ActiveFinite ==
  ASSUME TypeOK
  PROVE  IsFiniteSet(Active) /\ Cardinality(Active) \in Nat
<1>1. Len(rows) \in Nat /\ Active \subseteq 1..Len(rows)
  BY DEF TypeOK, Active
<1>2. IsFiniteSet(1..Len(rows))
  BY <1>1, FS_Interval
<1>. QED
  BY <1>1, <1>2, FS_Subset, FS_CardinalityType

\* A step that leaves its request outside the count and the write, gives no lock away but
\* its own and starts nothing keeps the limit.
FreeStep(q) ==
  /\ OneStep(q) /\ req'[q].pc \notin {"count", "write"}
  /\ lock' = lock \/ Rollback(q)
  /\ Active' \subseteq Active
\* A step that neither inserts nor activates a row keeps the limit.
LEMMA FreeStepKeepsLimit ==
  ASSUME TypeOK, LimitInv, NEW q \in All, FreeStep(q)
  PROVE  LimitInv'
<1>1. \A p \in All : (At(p, "count") \/ At(p, "write"))' => p # q /\ req'[p] = req[p]
  BY DEF FreeStep, OneStep, At
<1>2. HoldsLock'
  BY <1>1, RollbackTyped DEF FreeStep, LimitInv, HoldsLock, At
<1>3. Cardinality(Active') <= Cardinality(Active)
  BY ActiveFinite, FS_Subset DEF FreeStep
<1>4. Cardinality(Active') \in Nat /\ Cardinality(Active) \in Nat /\ MaxConcurrent \in Nat
  BY ActiveFinite, FS_Subset, FS_CardinalityType, IntakeAssumption DEF FreeStep
<1>5. RoomLeft'
  BY <1>1, <1>3, <1>4 DEF LimitInv, RoomLeft, At
<1>6. LimitKept'
  BY <1>3, <1>4 DEF LimitInv, LimitKept
<1>. QED
  BY <1>2, <1>5, <1>6 DEF LimitInv

\* Most steps are such steps.
LEMMA StatesStay ==
  ASSUME TypeOK
  PROVE  /\ rows' = rows => Active' = Active
         /\ \A ns : Forget(ns) => Active' = Active
         /\ \A n, t : rows' = InState(rows, n, t) /\ t \in {"draft", "ended"} =>
                        Active' \subseteq Active
         /\ \A n : rows' = InState(rows, n, "active") => Active' \subseteq Active \cup {n}
<1>1. rows' = rows => Active' = Active
  BY DEF Active
<1>2. \A ns : Forget(ns) => Active' = Active
  BY ForgetIsWithout, WithoutKeys DEF Active, TypeOK
<1>3. \A n, t : rows' = InState(rows, n, t) /\ t \in {"draft", "ended"} => Active' \subseteq Active
  <2>. SUFFICES ASSUME NEW n, NEW t \in {"draft", "ended"}, rows' = InState(rows, n, t),
                       NEW m \in Active'
                PROVE  m \in Active
    OBVIOUS
  <2>. QED
    BY SetState DEF Active, TypeOK
<1>4. \A n : rows' = InState(rows, n, "active") => Active' \subseteq Active \cup {n}
  <2>. SUFFICES ASSUME NEW n, rows' = InState(rows, n, "active"), NEW m \in Active', m # n
                PROVE  m \in Active
    OBVIOUS
  <2>. QED
    BY SetState DEF Active, TypeOK
<1>. QED
  BY <1>1, <1>2, <1>3, <1>4
\* The steps of a request up to its transaction are free of that ...
LEMMA LookupIsFree ==
  ASSUME TypeOK, NEW q \in All,
         Arrive(q) \/ Clear(q) \/ Find(q) \/ Check(q) \/ TxClear(q) \/ TxFind(q)
  PROVE  FreeStep(q)
<1>1. OneStep(q)
  BY LookupTyped DEF TypedStep
<1>2. CASE Arrive(q)
  <2>1. Answer(q, "refused", 0) => req'[q].pc = "answered"
    BY WhereItGoes DEF Answers
  <2>2. ASSUME NEW k \in Names, NEW c \in Contents, NEW n \in {0} \cup DOMAIN rows,
               Came(q, k, c, n)
        PROVE  req'[q].pc \in {"check", "clear"}
    <3>1. n \in Nat
      BY DEF TypeOK
    <3>. QED
      BY <2>2, <3>1, CameMoves
  <2>3. req'[q].pc \in {"answered", "check", "clear"}
    BY <1>2, <2>1, <2>2, ArriveComes
  <2>. QED
    BY <1>1, <1>2, <2>3, StatesStay DEF Arrive, FreeStep
<1>3. CASE Clear(q)
  <2>1. req'[q].pc \in {"find", "againFind"}
    BY <1>3, WhereItGoes DEF Clear, Steps
  <2>. QED
    BY <1>1, <1>3, <2>1, StatesStay DEF Clear, FreeStep
<1>4. CASE Find(q)
  <2>1. req'[q].pc \in {"check", "answered"}
    BY <1>4, WhereItGoes DEF Find, Steps
  <2>. QED
    BY <1>1, <1>4, <2>1, StatesStay DEF Find, FreeStep
<1>5. CASE Check(q)
  <2>1. req'[q].pc \in {"lock", "txClear", "answered"}
    BY <1>5, WhereItGoes DEF Check, Steps, Answers
  <2>. QED
    BY <1>1, <1>5, <2>1, StatesStay DEF Check, FreeStep
<1>6. CASE TxClear(q)
  <2>1. req'[q].pc = "txFind"
    BY <1>6, WhereItGoes DEF TxClear, Steps
  <2>. QED
    BY <1>1, <1>6, <2>1, StatesStay DEF TxClear, FreeStep
<1>7. CASE TxFind(q)
  <2>1. req'[q].pc \in {"lock", "answered"}
    BY <1>7, WhereItGoes DEF TxFind, Steps
  <2>2. Active' = Active
    BY <1>7, StatesStay DEF TxFind
  <2>3. lock' = lock \/ Rollback(q)
    BY <1>7 DEF TxFind
  <2>. QED
    BY <1>1, <2>1, <2>2, <2>3 DEF FreeStep
<1>. QED
  BY <1>2, <1>3, <1>4, <1>5, <1>6, <1>7
\* ... and those after its commit.
LEMMA WorkIsFree ==
  ASSUME TypeOK, NEW q \in All, FindAgain(q) \/ Dispatch(q)
  PROVE  FreeStep(q)
<1>1. OneStep(q) /\ req[q].row \in Nat /\ req[q].why \in {"none", "limit", "error"}
  BY WorkTyped, RequestFields DEF TypedStep, TypeOK
<1>2. CASE FindAgain(q)
  <2>1. req'[q].pc = "answered"
    BY <1>1, <1>2, WhereItGoes DEF FindAgain, Answers
  <2>. QED
    BY <1>1, <1>2, <2>1, StatesStay DEF FindAgain, FreeStep
<1>3. CASE Dispatch(q)
  <2>1. req'[q].pc = "answered"
    BY <1>1, <1>3, WhereItGoes DEF Dispatch, Answers
  <2>2. \/ rows' = InState(rows, req[q].row, "draft")
        \/ rows' = InState(rows, req[q].row, "ended")
        \/ rows' = rows
    BY <1>3 DEF Dispatch, InState
  <2>3. Active' \subseteq Active
    BY <2>2, StatesStay
  <2>. QED
    BY <1>1, <1>3, <2>1, <2>3 DEF Dispatch, FreeStep
<1>. QED
  BY <1>2, <1>3

\* Whoever has the lock has it alone, so nobody else has counted.
LEMMA LockKeepsLimit ==
  ASSUME TypeOK, LimitInv, NEW q \in All, Lock(q) \/ Count(q)
  PROVE  LimitInv'
<1>1. OneStep(q) /\ Active' = Active /\ MaxConcurrent \in Nat /\ Cardinality(Active) \in Nat
  BY WorkTyped, StatesStay, ActiveFinite, IntakeAssumption DEF TypedStep, Lock, Count
<1>2. CASE Lock(q)
  <2>1. req'[q].pc = "count"
    BY <1>2, WhereItGoes DEF Lock, Steps
  <2>2. \A p \in All : ~At(p, "count") /\ ~At(p, "write")
    BY <1>2, IntakeAssumption DEF Lock, Free, LimitInv, HoldsLock, All
  <2>3. HoldsLock' /\ RoomLeft'
    BY <1>1, <1>2, <2>1, <2>2 DEF Lock, OneStep, HoldsLock, RoomLeft, At
  <2>. QED
    BY <1>1, <2>3 DEF LimitInv, LimitKept
<1>3. CASE Count(q) /\ Cardinality(Active) >= MaxConcurrent
  <2>1. Failed(q, "limit") /\ Rollback(q)
    BY <1>1, <1>3 DEF Count
  <2>2. req'[q].pc \in {"answered", "againClear"}
    BY <2>1, WhereItGoes
  <2>3. FreeStep(q)
    BY <1>1, <2>1, <2>2 DEF FreeStep
  <2>. QED
    BY <2>3, FreeStepKeepsLimit
<1>4. CASE Count(q) /\ Cardinality(Active) < MaxConcurrent
  <2>1. lock' = lock /\ GoTo(q, "write") /\ At(q, "count")
    BY <1>1, <1>4 DEF Count
  <2>2. HoldsLock' /\ RoomLeft'
    BY <1>1, <1>4, <2>1 DEF OneStep, LimitInv, HoldsLock, RoomLeft, At
  <2>. QED
    BY <1>1, <2>2 DEF LimitInv, LimitKept
<1>. QED
  BY <1>1, <1>2, <1>3, <1>4

\* A write adds one execution to those counted, and no other request has counted.
LEMMA WriteKeepsLimit ==
  ASSUME TypeOK, LimitInv, NEW q \in All, OneStep(q), Rollback(q), At(q, "write"),
         req'[q].pc \notin {"count", "write"}, NEW n, Active' \subseteq Active \cup {n}
  PROVE  LimitInv'
<1>1. /\ lock = q /\ MaxConcurrent \in Nat /\ Cardinality(Active) < MaxConcurrent
      /\ IsFiniteSet(Active) /\ Cardinality(Active) \in Nat
  BY ActiveFinite, IntakeAssumption DEF LimitInv, HoldsLock, RoomLeft
<1>2. \A p \in All : (At(p, "count") \/ At(p, "write"))' => FALSE
  BY <1>1 DEF LimitInv, HoldsLock, OneStep, At
<1>3. IsFiniteSet(Active \cup {n}) /\ Cardinality(Active \cup {n}) <= Cardinality(Active) + 1
      /\ Cardinality(Active \cup {n}) \in Nat
  <2>1. /\ IsFiniteSet(Active \cup {n})
        /\ \/ Cardinality(Active \cup {n}) = Cardinality(Active)
           \/ Cardinality(Active \cup {n}) = Cardinality(Active) + 1
    BY <1>1, FS_AddElement
  <2>. QED
    BY <1>1, <2>1
<1>4. Cardinality(Active') <= Cardinality(Active \cup {n}) /\ Cardinality(Active') \in Nat
  BY <1>3, FS_Subset, FS_CardinalityType
<1>5. LimitKept'
  BY <1>1, <1>3, <1>4 DEF LimitKept
<1>. QED
  BY <1>2, <1>5 DEF LimitInv, HoldsLock, RoomLeft

\* An insertion is made under the lock, with room counted under the same lock.
LEMMA InsertKeepsLimit ==
  ASSUME TypeOK, LimitInv, NEW q \in All, Insert(q)
  PROVE  LimitInv'
<1>1. OneStep(q) /\ Rollback(q) /\ At(q, "write")
  BY WorkTyped DEF TypedStep, Insert
<1>2. CASE Inserted(q)
  <2>1. Active' \subseteq Active \cup {Len(rows) + 1}
    <3>. SUFFICES ASSUME NEW m \in Active', m # Len(rows) + 1 PROVE m \in Active
      OBVIOUS
    <3>1. m \in DOMAIN rows /\ rows'[m] = Without(rows, cleared[q])[m]
      BY <1>2, InsertedRow DEF Active
    <3>. QED
      BY <3>1, WithoutKeys DEF Active, TypeOK
  <2>2. req'[q].pc = "dispatch"
    BY <1>2, InsertedRow
  <2>. QED
    BY <1>1, <2>1, <2>2, WriteKeepsLimit
<1>3. CASE Failed(q, "error") /\ rows' = rows
  <2>1. req'[q].pc \in {"answered", "againClear"}
    BY <1>3, WhereItGoes
  <2>2. FreeStep(q)
    BY <1>1, <1>3, <2>1, StatesStay DEF FreeStep
  <2>. QED
    BY <2>2, FreeStepKeepsLimit
<1>. QED
  BY <1>2, <1>3, InsertInserts
\* So is the start of a draft.
LEMMA StartKeepsLimit ==
  ASSUME TypeOK, LimitInv, NEW q \in All, StartDraft(q)
  PROVE  LimitInv'
<1>1. OneStep(q) /\ Rollback(q) /\ At(q, "write") /\ req[q].row \in Nat
  BY WorkTyped, RequestFields DEF TypedStep, StartDraft, TypeOK
<1>2. Active' \subseteq Active \cup {req[q].row}
  <2>1. rows' = InState(rows, req[q].row, "active") \/ rows' = rows
    BY DEF StartDraft, InState
  <2>. QED
    BY <2>1, StatesStay
<1>3. req'[q].pc \in {"dispatch", "answered"}
  BY <1>1, WhereItGoes DEF StartDraft, Steps, Answers
<1>. QED
  BY <1>1, <1>2, <1>3, WriteKeepsLimit

\* The limit, with what the holder of the lock has counted, is inductive.
LEMMA LimitInductive == TypeOK /\ LimitInv /\ [Next]_vars => LimitInv'
<1>. SUFFICES ASSUME TypeOK, LimitInv, [Next]_vars PROVE LimitInv'
  OBVIOUS
<1>1. ASSUME NEW q \in All, Arrive(q) \/ RequestStep(q) PROVE LimitInv'
  BY <1>1, LookupIsFree, WorkIsFree, FreeStepKeepsLimit, LockKeepsLimit, InsertKeepsLimit,
     StartKeepsLimit DEF RequestStep
<1>2. ASSUME NEW q \in Starts, AskStart(q) PROVE LimitInv'
  <2>1. q \in All
    BY DEF All
  <2>2. FreeStep(q)
    BY <1>2, <2>1, AskStartAsks, StatesStay DEF AskStart, FreeStep
  <2>. QED
    BY <2>1, <2>2, FreeStepKeepsLimit
<1>3. ASSUME Active' \subseteq Active,
             \A q \in All : (At(q, "count") \/ At(q, "write"))' =>
                              lock' = lock /\ req'[q] = req[q]
      PROVE  LimitInv'
  <2>1. Cardinality(Active') <= Cardinality(Active) /\ Cardinality(Active') \in Nat
    BY <1>3, ActiveFinite, FS_Subset, FS_CardinalityType
  <2>2. Cardinality(Active) \in Nat /\ MaxConcurrent \in Nat
    BY ActiveFinite, IntakeAssumption
  <2>3. HoldsLock'
    BY <1>3 DEF LimitInv, HoldsLock, At
  <2>4. RoomLeft'
    BY <1>3, <2>1, <2>2 DEF LimitInv, RoomLeft, At
  <2>5. LimitKept'
    BY <2>1, <2>2 DEF LimitInv, LimitKept
  <2>. QED
    BY <2>3, <2>4, <2>5 DEF LimitInv
<1>4. ASSUME NEW n \in DOMAIN rows, Settle(n) PROVE LimitInv'
  <2>1. rows' = InState(rows, n, "ended")
    BY <1>4 DEF Settle, InState
  <2>2. Active' \subseteq Active
    BY <2>1, StatesStay
  <2>. QED
    BY <1>3, <1>4, <2>2 DEF Settle
<1>5. CASE Tick \/ DeleteTasks \/ UNCHANGED vars
  <2>1. rows' = rows /\ lock' = lock /\ req' = req
    BY <1>5 DEF Tick, DeleteTasks, vars
  <2>. QED
    BY <1>3, <2>1, StatesStay
<1>6. CASE ApiCrash
  <2>1. Active' = Active
    BY <1>6, StatesStay DEF ApiCrash
  <2>2. \A q \in All : ~(At(q, "count") \/ At(q, "write"))'
    BY <1>6, CrashLoses DEF At
  <2>. QED
    BY <1>3, <2>1, <2>2
<1>7. Requests \subseteq All
  BY DEF All
<1>. QED
  BY <1>1, <1>2, <1>4, <1>5, <1>6, <1>7 DEF Next

\* The user never has more pending and running executions than the limit allows.
THEOREM LimitKeptHolds == Spec => []LimitKept
<1>1. Init => LimitInv
  <2>. SUFFICES ASSUME Init PROVE LimitInv
    OBVIOUS
  <2>1. Active = {}
    BY DEF Init, Draft, Active
  <2>2. Cardinality(Active) = 0 /\ MaxConcurrent \in Nat /\ MaxConcurrent > 0
    BY <2>1, FS_EmptySet, IntakeAssumption
  <2>3. \A q \in All : At(q, "new")
    BY DEF Init, At, NewRequest
  <2>. QED
    BY <2>2, <2>3 DEF LimitInv, HoldsLock, RoomLeft, LimitKept, At
<1>2. TypeOK /\ LimitInv /\ [Next]_vars => LimitInv'
  BY LimitInductive
<1>3. LimitInv => LimitKept
  BY DEF LimitInv
<1>. QED
  BY <1>1, <1>2, <1>3, IntakeTypes, PTL DEF Spec

-----------------------------------------------------------------------------
(* One key, one execution.                                                 *)

\* A key is taken from a row only when the row is older than the time to live, also by a
\* transaction that has not committed; a row that lost its key is that old.
Aged(n) == rows[n].at + Ttl < now
ClearedAged == \A q \in All : \A n \in cleared[q] : Aged(n)
KeysGoAged ==
  \A n \in DOMAIN rows : rows[n].key = rows[n].was \/ (rows[n].key = NoKey /\ Aged(n))
KeyInv == ClearedAged /\ KeysGoAged /\ KeyNamesOneExecution

\* The rows a request holds to be too old are.
LEMMA OldAreAged ==
  ASSUME TypeOK, NEW q \in All, NEW n \in Old(q)
  PROVE  Aged(n)
<1>1. n \in DOMAIN rows /\ Expired(n, q)
  BY FoundAreRows DEF Old
<1>2. rows[n].at \in Nat /\ Ttl \in Nat /\ now \in Nat /\ req[q].since \in Nat
      /\ req[q].since <= now
  BY <1>1, RowFields, RequestFields, IntakeAssumption DEF TypeOK
<1>. QED
  BY <1>1, <1>2 DEF Expired, Aged

\* A step that adds no row and takes keys only from rows that are old enough.
AgedStep ==
  /\ DOMAIN rows' = DOMAIN rows /\ now' \in Nat /\ now' >= now
  /\ \A n \in DOMAIN rows :
       /\ rows'[n].was = rows[n].was /\ rows'[n].at = rows[n].at
       /\ rows'[n].key = rows[n].key \/ (rows'[n].key = NoKey /\ Aged(n))
  /\ \A q \in All : \A n \in cleared'[q] : n \in DOMAIN rows /\ Aged(n)
\* A step that adds no row and gives no key keeps what keys name.
LEMMA AgedStepKeepsKeys ==
  ASSUME TypeOK, KeyInv, AgedStep
  PROVE  KeyInv'
<1>1. \A n \in DOMAIN rows : Aged(n) => Aged(n)'
  <2>. TAKE n \in DOMAIN rows
  <2>1. rows[n].at \in Nat /\ Ttl \in Nat /\ now \in Nat
    BY RowFields, IntakeAssumption DEF TypeOK
  <2>. QED
    BY <2>1 DEF AgedStep, Aged
<1>2. ClearedAged'
  BY <1>1 DEF AgedStep, ClearedAged
<1>3. KeysGoAged'
  BY <1>1 DEF AgedStep, KeyInv, KeysGoAged
<1>4. KeyNamesOneExecution'
  BY DEF AgedStep, KeyInv, KeyNamesOneExecution
<1>. QED
  BY <1>2, <1>3, <1>4 DEF KeyInv

\* What the parts of steps do to keys.
LEMMA KeysStay ==
  ASSUME TypeOK, KeyInv
  PROVE  /\ rows' = rows => \A n \in DOMAIN rows : rows'[n] = rows[n]
         /\ \A ns : Forget(ns) /\ (\A n \in ns : Aged(n)) =>
              /\ DOMAIN rows' = DOMAIN rows
              /\ \A n \in DOMAIN rows :
                   /\ rows'[n].was = rows[n].was /\ rows'[n].at = rows[n].at
                   /\ rows'[n].key = rows[n].key \/ (rows'[n].key = NoKey /\ Aged(n))
         /\ \A n, t : rows' = InState(rows, n, t) /\ t \in {"draft", "active", "ended"} =>
              /\ DOMAIN rows' = DOMAIN rows
              /\ \A m \in DOMAIN rows : /\ rows'[m].was = rows[m].was
                                        /\ rows'[m].at = rows[m].at
                                        /\ rows'[m].key = rows[m].key
         /\ \A q \in All : Rollback(q) =>
              \A p \in All : \A n \in cleared'[p] : n \in DOMAIN rows /\ Aged(n)
         /\ \A q \in All : \A n \in cleared[q] : n \in DOMAIN rows /\ Aged(n)
         /\ now \in Nat
<1>1. \A ns : Forget(ns) /\ (\A n \in ns : Aged(n)) =>
        /\ DOMAIN rows' = DOMAIN rows
        /\ \A n \in DOMAIN rows :
             /\ rows'[n].was = rows[n].was /\ rows'[n].at = rows[n].at
             /\ rows'[n].key = rows[n].key \/ (rows'[n].key = NoKey /\ Aged(n))
  <2>. SUFFICES ASSUME NEW ns, rows' = Without(rows, ns), \A n \in ns : Aged(n)
                PROVE  /\ DOMAIN rows' = DOMAIN rows
                       /\ \A n \in DOMAIN rows :
                            /\ rows'[n].was = rows[n].was /\ rows'[n].at = rows[n].at
                            /\ \/ rows'[n].key = rows[n].key
                               \/ rows'[n].key = NoKey /\ Aged(n)
    BY ForgetIsWithout
  <2>1. rows \in Seq(RowState)
    BY DEF TypeOK
  <2>. QED
    BY <2>1, WithoutKeys
<1>2. \A n, t : rows' = InState(rows, n, t) /\ t \in {"draft", "active", "ended"} =>
        /\ DOMAIN rows' = DOMAIN rows
        /\ \A m \in DOMAIN rows : /\ rows'[m].was = rows[m].was /\ rows'[m].at = rows[m].at
                                  /\ rows'[m].key = rows[m].key
  BY SetState DEF TypeOK
<1>3. \A q \in All : \A n \in cleared[q] : n \in DOMAIN rows /\ Aged(n)
  BY DEF TypeOK, KeyInv, ClearedAged
<1>4. \A q \in All : Rollback(q) =>
        \A p \in All : \A n \in cleared'[p] : n \in DOMAIN rows /\ Aged(n)
  BY <1>3, RollbackTyped
<1>. QED
  BY <1>1, <1>2, <1>3, <1>4 DEF TypeOK

\* Every step of a request is one, but for its insertion.
LEMMA StepIsAged ==
  ASSUME TypeOK, KeyInv, NEW q \in All,
         \/ Clear(q) \/ Find(q) \/ Check(q) \/ TxClear(q) \/ TxFind(q) \/ Lock(q) \/ Count(q)
         \/ StartDraft(q) \/ FindAgain(q) \/ Dispatch(q)
  PROVE  AgedStep
<1>1. now' = now
  BY DEF Clear, Find, Check, TxClear, TxFind, Lock, Count, StartDraft, FindAgain, Dispatch
<1>2. CASE Clear(q)
  <2>1. \A n \in Old(q) : Aged(n)
    BY OldAreAged
  <2>. QED
    BY <1>1, <1>2, <2>1, KeysStay DEF Clear, AgedStep
<1>3. CASE Find(q) \/ Check(q) \/ Lock(q) \/ FindAgain(q)
  BY <1>1, <1>3, KeysStay DEF Find, Check, Lock, FindAgain, AgedStep
<1>4. CASE TxClear(q)
  <2>1. cleared' = [cleared EXCEPT ![q] = Old(q)] /\ rows' = rows
        /\ cleared \in [All -> SUBSET DOMAIN rows]
    BY <1>4 DEF TxClear, TypeOK
  <2>2. \A n \in Old(q) : n \in DOMAIN rows /\ Aged(n)
    BY OldAreAged, FoundAreRows
  <2>. QED
    BY <1>1, <2>1, <2>2, KeysStay DEF AgedStep
<1>5. CASE TxFind(q)
  <2>1. \A p \in All : \A n \in cleared'[p] : n \in DOMAIN rows /\ Aged(n)
    BY <1>5, KeysStay DEF TxFind
  <2>2. rows' = rows \/ \E ns : Forget(ns) /\ \A n \in ns : Aged(n)
    <3>1. \A n \in cleared[q] : Aged(n)
      BY KeysStay
    <3>2. rows' = rows \/ Forget(cleared[q]) \/ Forget({})
      BY <1>5 DEF TxFind
    <3>. QED
      BY <3>1, <3>2
  <2>. QED
    BY <1>1, <2>1, <2>2, KeysStay DEF AgedStep
<1>6. CASE Count(q)
  <2>1. \A p \in All : \A n \in cleared'[p] : n \in DOMAIN rows /\ Aged(n)
    BY <1>6, KeysStay DEF Count
  <2>. QED
    BY <1>1, <1>6, <2>1, KeysStay DEF Count, AgedStep
<1>7. CASE StartDraft(q)
  <2>1. \A p \in All : \A n \in cleared'[p] : n \in DOMAIN rows /\ Aged(n)
    BY <1>7, KeysStay DEF StartDraft
  <2>2. rows' = rows \/ rows' = InState(rows, req[q].row, "active")
    BY <1>7 DEF StartDraft, InState
  <2>. QED
    BY <1>1, <2>1, <2>2, KeysStay DEF AgedStep
<1>8. CASE Dispatch(q)
  <2>1. \/ rows' = rows \/ rows' = InState(rows, req[q].row, "draft")
        \/ rows' = InState(rows, req[q].row, "ended")
    BY <1>8 DEF Dispatch, InState
  <2>2. cleared' = cleared
    BY <1>8 DEF Dispatch
  <2>. QED
    BY <1>1, <2>1, <2>2, KeysStay DEF AgedStep
<1>. QED
  BY <1>2, <1>3, <1>4, <1>5, <1>6, <1>7, <1>8

\* An insert finds no row with its key but those it took the key from, which are too old.
LEMMA InsertKeepsKeys ==
  ASSUME TypeOK, KeyInv, NEW q \in All, Insert(q)
  PROVE  KeyInv'
<1>1. now' = now /\ Rollback(q)
  BY DEF Insert
<1>2. \A p \in All : \A n \in cleared'[p] : n \in DOMAIN rows /\ Aged(n)
  BY <1>1, KeysStay
<1>3. CASE Failed(q, "error") /\ rows' = rows
  BY <1>1, <1>2, <1>3, KeysStay, AgedStepKeepsKeys DEF AgedStep
<1>4. CASE Named(q) = {} /\ Inserted(q)
  <2>. DEFINE N == Len(rows) + 1
  <2>1. /\ DOMAIN rows' = DOMAIN rows \cup {N} /\ N \notin DOMAIN rows
        /\ rows'[N].key = req[q].key /\ rows'[N].was = req[q].key /\ rows'[N].at = now
        /\ \A n \in DOMAIN rows : rows'[n] = Without(rows, cleared[q])[n]
        /\ DOMAIN rows = 1..Len(rows) /\ Len(rows) \in Nat /\ rows \in Seq(RowState)
    <3>1. NewRow(q).key = req[q].key /\ NewRow(q).was = req[q].key /\ NewRow(q).at = now
      BY DEF NewRow
    <3>2. rows \in Seq(RowState) /\ DOMAIN rows = 1..Len(rows) /\ Len(rows) \in Nat
      BY DEF TypeOK
    <3>. QED
      BY <1>4, <3>1, <3>2, InsertedRow
  <2>. HIDE DEF N
  <2>2. \A n \in DOMAIN rows :
          /\ rows'[n].was = rows[n].was /\ rows'[n].at = rows[n].at
          /\ rows'[n].key = rows[n].key \/ (rows'[n].key = NoKey /\ Aged(n))
          /\ Aged(n)' <=> Aged(n)
    <3>1. \A n \in cleared[q] : Aged(n)
      BY DEF KeyInv, ClearedAged
    <3>. QED
      BY <1>1, <2>1, <3>1, WithoutKeys DEF Aged
  <2>3. ClearedAged' /\ KeysGoAged'
    BY <1>2, <2>1, <2>2 DEF KeyInv, ClearedAged, KeysGoAged
  <2>4. \A m \in DOMAIN rows : req[q].key # NoKey /\ rows[m].was = req[q].key => Aged(m)
    <3>. SUFFICES ASSUME NEW m \in DOMAIN rows, req[q].key # NoKey, rows[m].was = req[q].key,
                         rows[m].key = rows[m].was
                  PROVE  Aged(m)
      BY DEF KeyInv, KeysGoAged
    <3>1. m \in cleared[q]
      BY <1>4 DEF Named
    <3>. QED
      BY <3>1 DEF KeyInv, ClearedAged
  <2>5. KeyNamesOneExecution'
    <3>. SUFFICES ASSUME NEW m \in DOMAIN rows', NEW n \in DOMAIN rows',
                         m < n, rows'[m].was # NoKey, rows'[m].was = rows'[n].was
                  PROVE  rows'[n].at > rows'[m].at + Ttl
      BY DEF KeyNamesOneExecution
    <3>1. m \in DOMAIN rows
      BY <2>1 DEF N
    <3>2. CASE n \in DOMAIN rows
      BY <2>2, <3>1, <3>2 DEF KeyInv, KeyNamesOneExecution
    <3>3. CASE n = N
      <4>1. Aged(m) /\ rows'[m].at = rows[m].at
        BY <2>1, <2>2, <2>4, <3>1, <3>3
      <4>2. rows[m].at \in Nat /\ Ttl \in Nat /\ now \in Nat
        BY <3>1, RowFields, IntakeAssumption DEF TypeOK
      <4>. QED
        BY <2>1, <3>3, <4>1, <4>2 DEF Aged
    <3>. QED
      BY <2>1, <3>2, <3>3
  <2>. QED
    BY <2>3, <2>5 DEF KeyInv
<1>. QED
  BY <1>3, <1>4, InsertInserts

\* What a key names, with the age of what was cleared, is inductive.
LEMMA KeyInductive == TypeOK /\ KeyInv /\ [Next]_vars => KeyInv'
<1>. SUFFICES ASSUME TypeOK, KeyInv, [Next]_vars PROVE KeyInv'
  OBVIOUS
<1>1. ASSUME NEW q \in All, RequestStep(q) PROVE KeyInv'
  BY <1>1, StepIsAged, AgedStepKeepsKeys, InsertKeepsKeys DEF RequestStep
<1>2. ASSUME rows' = rows, cleared' = cleared, now' \in Nat, now' >= now PROVE KeyInv'
  BY <1>2, KeysStay, AgedStepKeepsKeys DEF AgedStep
<1>3. now \in Nat /\ now >= now
  BY DEF TypeOK
<1>4. ASSUME NEW q \in All, Arrive(q) \/ AskStart(q) PROVE KeyInv'
  BY <1>2, <1>3, <1>4 DEF Arrive, AskStart
<1>5. CASE Tick \/ DeleteTasks \/ UNCHANGED vars
  BY <1>2, <1>3, <1>5 DEF Tick, DeleteTasks, vars
<1>6. ASSUME NEW n \in DOMAIN rows, Settle(n) PROVE KeyInv'
  <2>1. rows' = InState(rows, n, "ended") /\ cleared' = cleared /\ now' = now
    BY <1>6 DEF Settle, InState
  <2>2. AgedStep
    BY <1>3, <2>1, KeysStay DEF AgedStep
  <2>. QED
    BY <2>2, AgedStepKeepsKeys
<1>7. CASE ApiCrash
  <2>1. rows' = rows /\ now' = now /\ \A q \in All : cleared'[q] = {}
    BY <1>7 DEF ApiCrash
  <2>2. AgedStep
    BY <1>3, <2>1, KeysStay DEF AgedStep
  <2>. QED
    BY <2>2, AgedStepKeepsKeys
<1>8. Requests \subseteq All /\ Starts \subseteq All
  BY DEF All
<1>. QED
  BY <1>1, <1>4, <1>5, <1>6, <1>7, <1>8 DEF Next

\* One key makes one execution within the time to live, however requests overlap.
THEOREM KeyNamesOneExecutionHolds == Spec => []KeyNamesOneExecution
<1>1. Init => KeyInv
  BY DEF Init, Draft, KeyInv, ClearedAged, KeysGoAged, KeyNamesOneExecution
<1>2. TypeOK /\ KeyInv /\ [Next]_vars => KeyInv'
  BY KeyInductive
<1>3. KeyInv => KeyNamesOneExecution
  BY DEF KeyInv
<1>. QED
  BY <1>1, <1>2, <1>3, IntakeTypes, PTL DEF Spec

-----------------------------------------------------------------------------
(* The answer to a repeated request.                                       *)

\* Two contents are hashed to one value exactly when they mean the same.
LEMMA HashIsMeaning ==
  \A c, d \in Contents : Hash(c) = Hash(d) <=> Meaning(c) = Meaning(d)
<1>. SUFFICES ASSUME NEW c \in Contents, NEW d \in Contents
              PROVE  Hash(c) = Hash(d) <=> Meaning(c) = Meaning(d)
  OBVIOUS
<1>1. /\ c.task \in TaskIds /\ c.strict \in {"unset", "yes", "no"}
      /\ c.action \in {"fix", "feature", "plan"}
      /\ d.task \in TaskIds /\ d.strict \in {"unset", "yes", "no"}
      /\ d.action \in {"fix", "feature", "plan"}
  BY IntakeAssumption
<1>. DEFINE strict(x) == x.strict = "yes" \/ (x.strict = "unset" /\ x.action # "plan")
<1>2. (RequireCodeChanges(c) = strict(c)) /\ (RequireCodeChanges(d) = strict(d))
  BY <1>1 DEF RequireCodeChanges
<1>3. NormalizedTask(c.task) = NormalizedTask(d.task)
        <=> c.task.manual = d.task.manual /\ c.task.id = d.task.id
  <2>. DEFINE e == c.task
              f == d.task
              e2 == [e EXCEPT !.feed = e.manual]
              f2 == [f EXCEPT !.feed = f.manual]
  <2>1. e \in TaskIds /\ f \in TaskIds
    BY <1>1
  <2>. HIDE DEF e, f
  <2>2. e2.manual = e.manual /\ e2.id = e.id /\ f2.manual = f.manual /\ f2.id = f.id
    BY <2>1 DEF TaskIds
  <2>3. e2 = [manual |-> e.manual, id |-> e.id, feed |-> e.manual]
        /\ f2 = [manual |-> f.manual, id |-> f.id, feed |-> f.manual]
    BY <2>1 DEF TaskIds
  <2>4. e2 = f2 <=> e.manual = f.manual /\ e.id = f.id
    BY <2>2, <2>3
  <2>. QED
    BY <2>4 DEF e, f, NormalizedTask
<1>4. Hash(c) = Hash(d) <=> /\ NormalizedTask(c.task) = NormalizedTask(d.task)
                            /\ c.action = d.action
                            /\ RequireCodeChanges(c) = RequireCodeChanges(d)
  <2>1. Hash(c) = Hash(d) => /\ Hash(c).task = Hash(d).task /\ Hash(c).action = Hash(d).action
                             /\ Hash(c).strict = Hash(d).strict
    OBVIOUS
  <2>. QED
    BY <2>1 DEF Hash
<1>5. Meaning(c) = Meaning(d) <=> /\ c.task.manual = d.task.manual /\ c.task.id = d.task.id
                                  /\ c.action = d.action /\ strict(c) = strict(d)
  <2>. HIDE DEF strict
  <2>1. /\ Meaning(c) = <<c.task.manual, c.task.id, c.action, strict(c)>>
        /\ Meaning(d) = <<d.task.manual, d.task.id, d.action, strict(d)>>
    BY DEF Meaning, strict
  <2>. QED
    BY <2>1
<1>. QED
  BY <1>2, <1>3, <1>4, <1>5

\* A body and what is asked for are those of one content.
Says(body, asks) == \E c \in Contents : body = Hash(c) /\ asks = Meaning(c)
KeyUnique ==
  \A m, n \in DOMAIN rows : rows[m].key # NoKey /\ rows[m].key = rows[n].key => m = n
RowsSay == \A n \in DOMAIN rows : rows[n].key # NoKey => Says(rows[n].body, rows[n].asks)
RequestSays(q) == req[q].key # NoKey /\ ~At(q, "answered") => Says(req[q].body, req[q].asks)
\* Keys are removed only inside a transaction.
ClearedInside(q) == req[q].pc \notin {"txFind", "lock", "count", "write"} => cleared[q] = {}
NewIsNew(q) == At(q, "new") => req[q].owed = 0 /\ req[q].key = NoKey
\* The execution a request is owed has its key no longer, or the request has yet to look
\* for it, or it is the answer.
Keyed(q) == req[q].owed # 0 /\ rows[req[q].owed].key = req[q].key
OwedIsRow(q) ==
  req[q].owed # 0 =>
    /\ req[q].owed \in DOMAIN rows /\ req[q].key # NoKey
    /\ ~Expired(req[q].owed, q) /\ rows[req[q].owed].asks = req[q].asks
OwedAnswered(q) ==
  Keyed(q) => \/ At(q, "clear") \/ At(q, "find")
              \/ At(q, "answered") /\ req[q].answer = "reused" /\ req[q].row = req[q].owed
ReusedSame(q) ==
  At(q, "answered") /\ req[q].answer = "reused" =>
    req[q].row \in DOMAIN rows /\ rows[req[q].row].asks = req[q].asks
\* A request that was told of the limit or of an error had no execution with its key.
LateKnown(q) ==
  At(q, "answered") /\ req[q].answer \in {"limit", "error"} /\ req[q].row = 0 =>
    /\ req[q].known <= Len(rows)
    /\ \A n \in 1..req[q].known :
         req[q].key # NoKey /\ rows[n].key = req[q].key => Expired(n, q)
Remembers(q) ==
  /\ RequestSays(q) /\ ClearedInside(q) /\ NewIsNew(q)
  /\ OwedIsRow(q) /\ OwedAnswered(q) /\ ReusedSame(q)
  /\ q \in Requests => (At(q, "dispatch") => req[q].row # 0) /\ LateKnown(q)
RetryInv == KeyUnique /\ RowsSay /\ \A q \in All : Remembers(q)

\* Every step keeps the rows but for their keys, which it may take, and their states.
RowsGrow ==
  /\ rows' \in Seq(RowState) /\ Len(rows) <= Len(rows') /\ DOMAIN rows \subseteq DOMAIN rows'
  /\ \A n \in DOMAIN rows :
       /\ rows'[n].at = rows[n].at /\ rows'[n].asks = rows[n].asks
       /\ rows'[n].body = rows[n].body /\ rows'[n].key \in {rows[n].key, NoKey}
\* The ways the rows change: they are never removed, nor get another content.
LEMMA RowsOnlyGrow ==
  ASSUME TypeOK
  PROVE  /\ rows' = rows => RowsGrow
         /\ \A ns : Forget(ns) => RowsGrow
         /\ \A n, t : rows' = InState(rows, n, t) /\ t \in {"draft", "active", "ended"} =>
                        RowsGrow
         /\ \A q \in All : Inserted(q) => RowsGrow
<1>1. rows \in Seq(RowState) /\ Len(rows) \in Nat /\ DOMAIN rows = 1..Len(rows)
  BY DEF TypeOK
<1>2. rows' = rows => RowsGrow
  BY <1>1 DEF RowsGrow
<1>3. \A ns : Forget(ns) => RowsGrow
  <2>. SUFFICES ASSUME NEW ns, rows' = Without(rows, ns) PROVE RowsGrow
    BY ForgetIsWithout
  <2>. QED
    BY <1>1, WithoutKeys DEF RowsGrow
<1>4. \A n, t : rows' = InState(rows, n, t) /\ t \in {"draft", "active", "ended"} => RowsGrow
  BY <1>1, SetState DEF RowsGrow
<1>5. \A q \in All : Inserted(q) => RowsGrow
  <2>. SUFFICES ASSUME NEW q \in All, Inserted(q) PROVE RowsGrow
    OBVIOUS
  <2>1. /\ rows' \in Seq(RowState) /\ Len(rows') = Len(rows) + 1
        /\ DOMAIN rows' = DOMAIN rows \cup {Len(rows) + 1}
        /\ \A n \in DOMAIN rows : rows'[n] = Without(rows, cleared[q])[n]
    BY InsertedRow
  <2>2. \A n \in DOMAIN rows :
          /\ rows'[n].at = rows[n].at /\ rows'[n].asks = rows[n].asks
          /\ rows'[n].body = rows[n].body /\ rows'[n].key \in {rows[n].key, NoKey}
    BY <1>1, <2>1, WithoutKeys
  <2>. QED
    BY <1>1, <2>1, <2>2 DEF RowsGrow
<1>. QED
  BY <1>2, <1>3, <1>4, <1>5

\* In particular, a row that is still keyed was, and what was not expired is not.
LEMMA GrownRows ==
  ASSUME TypeOK, RowsGrow, NEW n \in DOMAIN rows
  PROVE  /\ \A k : k # NoKey /\ rows'[n].key = k => rows[n].key = k
         /\ \A q \in All : req'[q].since = req[q].since => (Expired(n, q)' <=> Expired(n, q))
         /\ \A q \in All : req'[q].since = 0 => ~Expired(n, q)'
<1>1. rows[n].at \in Nat /\ Ttl \in Nat /\ rows'[n].at = rows[n].at
  BY RowFields, IntakeAssumption DEF TypeOK, RowsGrow
<1>. QED
  BY <1>1 DEF RowsGrow, Expired

\* A request that is not the one that steps remembers what it did.
LEMMA Bystander ==
  ASSUME TypeOK, RowsGrow, NEW p \in All, Remembers(p),
         req'[p] = req[p], cleared'[p] = cleared[p]
  PROVE  Remembers(p)'
<1>1. RequestSays(p)' /\ ClearedInside(p)' /\ NewIsNew(p)'
  BY DEF Remembers, RequestSays, ClearedInside, NewIsNew, At
<1>2. OwedIsRow(p)' /\ OwedAnswered(p)'
  <2>. SUFFICES ASSUME req[p].owed # 0 PROVE OwedIsRow(p)' /\ OwedAnswered(p)'
    BY DEF OwedIsRow, OwedAnswered, Keyed
  <2>1. req[p].owed \in DOMAIN rows /\ req[p].key # NoKey
        /\ ~Expired(req[p].owed, p) /\ rows[req[p].owed].asks = req[p].asks
    BY DEF Remembers, OwedIsRow
  <2>2. OwedIsRow(p)'
    BY <2>1, GrownRows DEF OwedIsRow, RowsGrow
  <2>3. Keyed(p)' => Keyed(p)
    BY <2>1, GrownRows DEF Keyed
  <2>. QED
    BY <2>2, <2>3 DEF Remembers, OwedAnswered, At
<1>3. ReusedSame(p)'
  BY DEF Remembers, ReusedSame, At, RowsGrow
<1>4. p \in Requests => LateKnown(p)'
  <2>. SUFFICES ASSUME p \in Requests, At(p, "answered"),
                       req[p].answer \in {"limit", "error"}, req[p].row = 0
                PROVE  LateKnown(p)'
    BY DEF LateKnown, At
  <2>1. /\ req[p].known <= Len(rows) /\ req[p].known \in Nat
        /\ Len(rows) \in Nat /\ Len(rows') \in Nat /\ DOMAIN rows = 1..Len(rows)
        /\ \A n \in 1..req[p].known : req[p].key # NoKey /\ rows[n].key = req[p].key => Expired(n, p)
    BY RequestFields DEF Remembers, LateKnown, TypeOK, RowsGrow
  <2>2. 1..req[p].known \subseteq DOMAIN rows
    BY <2>1
  <2>3. \A n \in 1..req[p].known :
          req[p].key # NoKey /\ rows'[n].key = req[p].key => Expired(n, p)'
    BY <2>1, <2>2, GrownRows
  <2>4. req[p].known <= Len(rows')
    BY <2>1 DEF RowsGrow
  <2>. QED
    BY <2>3, <2>4 DEF LateKnown
<1>. QED
  BY <1>1, <1>2, <1>3, <1>4 DEF Remembers, At

\* A request that moves on inside its course, with no lookup failed since it came.
Moved(q) ==
  /\ req' \in [All -> RequestState]
  /\ req'[q].key = req[q].key /\ req'[q].body = req[q].body /\ req'[q].asks = req[q].asks
  /\ req'[q].since = req[q].since /\ req'[q].owed = req[q].owed
  /\ req'[q].pc \notin {"new", "answered"}
\* A request that moves on without an answer remembers what it was owed.
LEMMA MoveRemembers ==
  ASSUME TypeOK, RowsGrow, NEW q \in All, Remembers(q), ~At(q, "answered"), Moved(q),
         ClearedInside(q)',
         req'[q].pc \in {"clear", "find"} \/ ~Keyed(q),
         q \in Requests /\ req'[q].pc = "dispatch" => req'[q].row # 0
  PROVE  Remembers(q)'
<1>1. RequestSays(q)' /\ NewIsNew(q)' /\ ReusedSame(q)'
      /\ (q \in Requests => (At(q, "dispatch") => req[q].row # 0)' /\ LateKnown(q)')
  BY DEF Moved, Remembers, RequestSays, NewIsNew, ReusedSame, LateKnown, At
<1>2. OwedIsRow(q)' /\ OwedAnswered(q)'
  <2>. SUFFICES ASSUME req[q].owed # 0 PROVE OwedIsRow(q)' /\ OwedAnswered(q)'
    BY DEF Moved, OwedIsRow, OwedAnswered, Keyed
  <2>1. req[q].owed \in DOMAIN rows /\ req[q].key # NoKey
        /\ ~Expired(req[q].owed, q) /\ rows[req[q].owed].asks = req[q].asks
    BY DEF Remembers, OwedIsRow
  <2>2. OwedIsRow(q)'
    BY <2>1, GrownRows DEF OwedIsRow, RowsGrow, Moved
  <2>3. Keyed(q)' => Keyed(q)
    BY <2>1, GrownRows DEF Keyed, Moved
  <2>. QED
    BY <2>2, <2>3 DEF OwedAnswered, At
<1>. QED
  BY <1>1, <1>2 DEF Remembers

\* A request that is answered, when the answer is the one it is owed.
LEMMA AnswerRemembers ==
  ASSUME TypeOK, RowsGrow, NEW q \in All, Remembers(q), NEW a \in Answers, NEW n \in Nat,
         Answer(q, a, n), cleared'[q] = {},
         Keyed(q) => a = "reused" /\ n = req[q].owed,
         a = "reused" => n \in DOMAIN rows /\ rows[n].asks = req[q].asks,
         q \in Requests /\ a \in {"limit", "error"} /\ n = 0 =>
           \A m \in DOMAIN rows :
             req[q].key # NoKey /\ rows[m].key = req[q].key => Expired(m, q)
  PROVE  Remembers(q)'
<1>1. /\ req' \in [All -> RequestState]
      /\ req'[q].pc = "answered" /\ req'[q].answer = a /\ req'[q].row = n
      /\ req'[q].key = req[q].key /\ req'[q].asks = req[q].asks
      /\ req'[q].owed = req[q].owed
      /\ req'[q].since = IF a \in {"limit", "error"} THEN req[q].since ELSE 0
      /\ req'[q].known = IF a \in {"limit", "error"} THEN Len(rows) ELSE 0
      /\ Len(rows) \in Nat /\ DOMAIN rows = 1..Len(rows)
  BY AnswerEnds DEF TypeOK
<1>2. RequestSays(q)' /\ ClearedInside(q)' /\ NewIsNew(q)'
  BY <1>1 DEF RequestSays, ClearedInside, NewIsNew, At
<1>3. OwedIsRow(q)' /\ OwedAnswered(q)'
  <2>. SUFFICES ASSUME req[q].owed # 0 PROVE OwedIsRow(q)' /\ OwedAnswered(q)'
    BY <1>1 DEF OwedIsRow, OwedAnswered, Keyed
  <2>1. req[q].owed \in DOMAIN rows /\ req[q].key # NoKey
        /\ ~Expired(req[q].owed, q) /\ rows[req[q].owed].asks = req[q].asks
    BY DEF Remembers, OwedIsRow
  <2>2. OwedIsRow(q)'
    BY <1>1, <2>1, GrownRows DEF OwedIsRow, RowsGrow
  <2>3. Keyed(q)' => Keyed(q)
    BY <1>1, <2>1, GrownRows DEF Keyed
  <2>. QED
    BY <1>1, <2>2, <2>3 DEF OwedAnswered, At
<1>4. ReusedSame(q)'
  BY <1>1 DEF ReusedSame, At, RowsGrow
<1>5. q \in Requests => LateKnown(q)'
  <2>. SUFFICES ASSUME q \in Requests, a \in {"limit", "error"}, n = 0 PROVE LateKnown(q)'
    BY <1>1 DEF LateKnown, At
  <2>1. \A m \in DOMAIN rows :
          req[q].key # NoKey /\ rows'[m].key = req[q].key => Expired(m, q)'
    BY <1>1, GrownRows
  <2>. QED
    BY <1>1, <2>1 DEF LateKnown, RowsGrow
<1>. QED
  BY <1>1, <1>2, <1>3, <1>4, <1>5 DEF Remembers, At

\* A lookup finds the execution that is owed, and nothing that means something else.
LEMMA ReuseRemembers ==
  ASSUME TypeOK, RetryInv, RowsGrow, NEW q \in All, Reuse(q), cleared'[q] = {},
         ~At(q, "answered"), Keyed(q) => cleared[q] = {}
  PROVE  Remembers(q)'
<1>1. PICK m \in Found(q) :
        IF rows[m].body = req[q].body THEN Answer(q, "reused", m)
                                      ELSE Answer(q, "mismatch", 0)
  BY ReuseAnswers
<1>2. m \in DOMAIN rows /\ rows[m].key = req[q].key /\ req[q].key # NoKey /\ m \in Nat
  BY FoundAreRows DEF Found, Named, TypeOK
<1>3. PICK c \in Contents : rows[m].body = Hash(c) /\ rows[m].asks = Meaning(c)
  BY <1>2 DEF RetryInv, RowsSay, Says
<1>4. PICK d \in Contents : req[q].body = Hash(d) /\ req[q].asks = Meaning(d)
  BY <1>2 DEF RetryInv, Remembers, RequestSays, Says
<1>5. rows[m].body = req[q].body <=> rows[m].asks = req[q].asks
  BY <1>3, <1>4, HashIsMeaning
<1>6. Keyed(q) => m = req[q].owed /\ rows[m].body = req[q].body
  BY <1>2, <1>5 DEF Keyed, RetryInv, KeyUnique, Remembers, OwedIsRow
<1>7. CASE rows[m].body = req[q].body
  <2>1. Answer(q, "reused", m) /\ rows[m].asks = req[q].asks
    BY <1>1, <1>5, <1>7
  <2>2. Remembers(q) /\ "reused" \in Answers
    BY DEF RetryInv, Answers
  <2>. QED
    BY <1>2, <1>6, <2>1, <2>2, AnswerRemembers
<1>8. CASE rows[m].body # req[q].body
  <2>1. Answer(q, "mismatch", 0) /\ ~Keyed(q)
    BY <1>1, <1>6, <1>8
  <2>2. Remembers(q) /\ "mismatch" \in Answers
    BY DEF RetryInv, Answers
  <2>. QED
    BY <2>1, <2>2, AnswerRemembers
<1>. QED
  BY <1>7, <1>8

\* The execution that is owed has no key once the request is past its first lookup.
LEMMA NotKeyed ==
  ASSUME NEW q \in All, Remembers(q),
         req[q].pc \notin {"clear", "find", "answered"}
  PROVE  ~Keyed(q)
  BY DEF Remembers, OwedAnswered, At
\* What is not old is found: outside a transaction a lookup misses only expired rows.
LEMMA MissedIsExpired ==
  ASSUME NEW q \in All, Remembers(q), Found(q) = {},
         req[q].pc \notin {"txFind", "lock", "count", "write"}
  PROVE  /\ ~Keyed(q)
         /\ \A m \in DOMAIN rows : req[q].key # NoKey /\ rows[m].key = req[q].key => Expired(m, q)
<1>1. cleared[q] = {}
  BY DEF Remembers, ClearedInside
<1>2. \A m \in DOMAIN rows : req[q].key # NoKey /\ rows[m].key = req[q].key => Expired(m, q)
  BY <1>1 DEF Found, Named
<1>. QED
  BY <1>2 DEF Remembers, OwedIsRow, Keyed
\* The ways a request moves on.
LEMMA Moves ==
  ASSUME TypeOK, NEW q \in All
  PROVE  /\ \A s \in Steps \ {"new", "answered"} :
              GoTo(q, s) => Moved(q) /\ req'[q].pc = s /\ req'[q].row = req[q].row
         /\ \A w \in {"limit", "error"} : Failed(q, w) =>
              \/ req[q].key = NoKey /\ Answer(q, w, 0)
              \/ Moved(q) /\ req'[q].pc = "againClear"
         /\ Inserted(q) => Moved(q) /\ req'[q].pc = "dispatch" /\ req'[q].row # 0
<1>1. req \in [All -> RequestState] /\ Len(rows) \in Nat
  BY DEF TypeOK
<1>2. \A s \in Steps \ {"new", "answered"} :
        GoTo(q, s) => Moved(q) /\ req'[q].pc = s /\ req'[q].row = req[q].row
  BY <1>1, GoToMoves DEF Moved
<1>3. \A w \in {"limit", "error"} : Failed(q, w) =>
        \/ req[q].key = NoKey /\ Answer(q, w, 0)
        \/ Moved(q) /\ req'[q].pc = "againClear"
  BY FailedMoves DEF Moved
<1>4. Inserted(q) => Moved(q) /\ req'[q].pc = "dispatch" /\ req'[q].row # 0
  BY <1>1, InsertedRow DEF Moved
<1>. QED
  BY <1>2, <1>3, <1>4

\* A request that comes is owed what it then sees.
LEMMA ArriveRemembers ==
  ASSUME TypeOK, RetryInv, NEW q \in All, Arrive(q)
  PROVE  Remembers(q)'
<1>1. /\ RowsGrow /\ Remembers(q) /\ At(q, "new") /\ cleared' = cleared /\ rows' = rows
      /\ cleared[q] = {} /\ req[q].owed = 0
  BY RowsOnlyGrow DEF RetryInv, Arrive, Remembers, ClearedInside, NewIsNew, At
<1>2. CASE Answer(q, "refused", 0)
  <2>1. ~Keyed(q) /\ "refused" \in Answers
    BY <1>1 DEF Keyed, Answers
  <2>. QED
    BY <1>1, <1>2, <2>1, AnswerRemembers
<1>3. ASSUME NEW k \in Names, NEW c \in Contents, NEW n \in {0} \cup DOMAIN rows,
             Came(q, k, c, n), n \in {0} \cup SameNamed(k, c)
      PROVE  Remembers(q)'
  <2>1. n \in Nat
    BY DEF TypeOK
  <2>2. /\ req'[q].pc = IF k = NoKey THEN "check" ELSE "clear"
        /\ req'[q].key = k /\ req'[q].since = now /\ req'[q].owed = n
        /\ k # NoKey => req'[q].body = Hash(c) /\ req'[q].asks = Meaning(c)
    BY <1>3, <2>1, CameMoves
  <2>3. RequestSays(q)' /\ ClearedInside(q)' /\ NewIsNew(q)' /\ ReusedSame(q)'
        /\ LateKnown(q)' /\ (At(q, "dispatch") => req[q].row # 0)'
    BY <1>1, <2>2
       DEF RequestSays, Says, ClearedInside, NewIsNew, ReusedSame, LateKnown, At
  <2>4. n # 0 => n \in DOMAIN rows /\ k # NoKey /\ rows[n].asks = Meaning(c)
                 /\ rows[n].at + Ttl >= now
    BY <1>3 DEF SameNamed
  <2>5. OwedIsRow(q)'
    <3>. SUFFICES ASSUME n # 0 PROVE OwedIsRow(q)'
      BY <2>2 DEF OwedIsRow
    <3>1. rows[n].at \in Nat /\ Ttl \in Nat /\ now \in Nat
      BY <2>4, RowFields, IntakeAssumption DEF TypeOK
    <3>2. ~Expired(n, q)'
      BY <1>1, <2>2, <2>4, <3>1 DEF Expired
    <3>. QED
      BY <1>1, <2>2, <2>4, <3>2 DEF OwedIsRow
  <2>6. OwedAnswered(q)'
    BY <2>2, <2>4 DEF OwedAnswered, Keyed, At
  <2>. QED
    BY <2>3, <2>5, <2>6 DEF Remembers
<1>. QED
  BY <1>2, <1>3, ArriveComes

\* The steps that look the key up remember it ...
LEMMA LookupRemembers ==
  ASSUME TypeOK, RetryInv, NEW q \in All,
         Clear(q) \/ Find(q) \/ Check(q) \/ TxClear(q) \/ TxFind(q) \/ FindAgain(q)
  PROVE  Remembers(q)'
<1>1. /\ Remembers(q) /\ Len(rows) \in Nat /\ cleared \in [All -> SUBSET DOMAIN rows]
      /\ req[q].pc \notin {"txFind", "lock", "count", "write"} => cleared[q] = {}
      /\ req[q].why \in {"none", "limit", "error"}
  BY RequestFields DEF RetryInv, Remembers, ClearedInside, TypeOK
<1>2. rows' = rows => RowsGrow
  BY RowsOnlyGrow
<1>3. CASE Clear(q)
  <2>1. RowsGrow /\ cleared' = cleared /\ cleared[q] = {} /\ ~At(q, "answered")
    BY <1>1, <1>3, RowsOnlyGrow DEF Clear, At
  <2>2. Moved(q) /\ req'[q].pc \in {"find", "againFind"}
        /\ (req'[q].pc = "againFind" => req[q].pc = "againClear")
    BY <1>3, Moves DEF Clear, Steps, At
  <2>3. req'[q].pc \in {"clear", "find"} \/ ~Keyed(q)
    BY <1>1, <2>2, NotKeyed
  <2>. QED
    BY <1>1, <2>1, <2>2, <2>3, MoveRemembers DEF ClearedInside
<1>4. CASE Find(q)
  <2>1. RowsGrow /\ cleared' = cleared /\ cleared[q] = {} /\ At(q, "find")
    BY <1>1, <1>2, <1>4 DEF Find, At
  <2>2. CASE Reuse(q)
    BY <2>1, <2>2, ReuseRemembers DEF At
  <2>3. CASE Found(q) = {} /\ GoTo(q, "check")
    <3>1. Moved(q) /\ req'[q].pc = "check"
      BY <2>3, Moves DEF Steps
    <3>2. ~Keyed(q)
      BY <1>1, <2>1, <2>3, MissedIsExpired DEF At
    <3>. QED
      BY <1>1, <2>1, <3>1, <3>2, MoveRemembers DEF ClearedInside, At
  <2>. QED
    BY <1>4, <2>2, <2>3 DEF Find
<1>5. CASE Check(q)
  <2>1. RowsGrow /\ cleared' = cleared /\ cleared[q] = {} /\ At(q, "check") /\ ~Keyed(q)
    BY <1>1, <1>2, <1>5, NotKeyed DEF Check, At
  <2>2. CASE Answer(q, "refused", 0)
    BY <1>1, <2>1, <2>2, AnswerRemembers DEF Answers
  <2>3. CASE GoTo(q, IF req[q].key = NoKey THEN "lock" ELSE "txClear")
    <3>1. Moved(q) /\ req'[q].pc \in {"lock", "txClear"}
      BY <2>3, Moves DEF Steps
    <3>. QED
      BY <1>1, <2>1, <3>1, MoveRemembers DEF ClearedInside, At
  <2>. QED
    BY <1>5, <2>2, <2>3 DEF Check
<1>6. CASE TxClear(q)
  <2>1. RowsGrow /\ At(q, "txClear") /\ ~Keyed(q) /\ GoTo(q, "txFind")
    BY <1>1, <1>2, <1>6, NotKeyed DEF TxClear, At
  <2>2. Moved(q) /\ req'[q].pc = "txFind"
    BY <2>1, Moves DEF Steps
  <2>. QED
    BY <1>1, <2>1, <2>2, MoveRemembers DEF ClearedInside, At
<1>7. CASE TxFind(q)
  <2>1. RowsGrow /\ At(q, "txFind") /\ ~Keyed(q)
    BY <1>1, <1>2, <1>7, NotKeyed, RowsOnlyGrow DEF TxFind, At
  <2>2. CASE Reuse(q) /\ Rollback(q)
    <3>1. cleared'[q] = {}
      BY <2>2, RollbackTyped
    <3>. QED
      BY <2>1, <2>2, <3>1, ReuseRemembers DEF At
  <2>3. CASE GoTo(q, "lock")
    <3>1. Moved(q) /\ req'[q].pc = "lock"
      BY <2>3, Moves DEF Steps
    <3>. QED
      BY <1>1, <2>1, <3>1, MoveRemembers DEF ClearedInside, At
  <2>. QED
    BY <1>7, <2>2, <2>3 DEF TxFind
<1>8. CASE FindAgain(q)
  <2>1. RowsGrow /\ cleared' = cleared /\ cleared[q] = {} /\ At(q, "againFind")
    BY <1>1, <1>2, <1>8 DEF FindAgain, At
  <2>2. CASE Reuse(q)
    BY <2>1, <2>2, ReuseRemembers DEF At
  <2>3. CASE Found(q) = {} /\ Answer(q, req[q].why, 0)
    <3>1. ~Keyed(q) /\ \A m \in DOMAIN rows :
                         req[q].key # NoKey /\ rows[m].key = req[q].key => Expired(m, q)
      BY <1>1, <2>1, <2>3, MissedIsExpired DEF At
    <3>2. req[q].why \in Answers /\ req[q].why # "reused"
      BY <1>1 DEF Answers
    <3>. QED
      BY <1>1, <2>1, <2>3, <3>1, <3>2, AnswerRemembers
  <2>. QED
    BY <1>8, <2>2, <2>3 DEF FindAgain
<1>. QED
  BY <1>3, <1>4, <1>5, <1>6, <1>7, <1>8

\* ... and so do those of the transaction.
LEMMA WorkRemembers ==
  ASSUME TypeOK, RetryInv, NEW q \in All,
         Lock(q) \/ Count(q) \/ Insert(q) \/ StartDraft(q) \/ Dispatch(q)
  PROVE  Remembers(q)'
<1>1. /\ Remembers(q) /\ ~Keyed(q) /\ ~At(q, "answered") /\ req[q].row \in Nat
      /\ req[q].pc \notin {"txFind", "lock", "count", "write"} => cleared[q] = {}
  BY NotKeyed, RequestFields
     DEF RetryInv, Remembers, ClearedInside, TypeOK, At, Lock, Count, Insert, StartDraft, Dispatch
<1>2. rows' = rows => RowsGrow
  BY RowsOnlyGrow
<1>3. Rollback(q) => cleared'[q] = {}
  BY RollbackTyped
<1>4. \A w \in {"limit", "error"} : RowsGrow /\ Rollback(q) /\ Failed(q, w) => Remembers(q)'
  <2>. SUFFICES ASSUME NEW w \in {"limit", "error"}, RowsGrow, Rollback(q), Failed(q, w)
                PROVE  Remembers(q)'
    OBVIOUS
  <2>1. CASE req[q].key = NoKey /\ Answer(q, w, 0)
    BY <1>1, <1>3, <2>1, AnswerRemembers DEF Answers
  <2>2. CASE Moved(q) /\ req'[q].pc = "againClear"
    BY <1>1, <1>3, <2>2, MoveRemembers DEF ClearedInside
  <2>. QED
    BY <2>1, <2>2, Moves
<1>5. CASE Lock(q)
  <2>1. Moved(q) /\ req'[q].pc = "count" /\ RowsGrow
    BY <1>2, <1>5, Moves DEF Lock, Steps
  <2>. QED
    BY <1>1, <2>1, MoveRemembers DEF ClearedInside
<1>6. CASE Count(q)
  <2>1. CASE Failed(q, "limit") /\ Rollback(q)
    BY <1>2, <1>4, <1>6, <2>1 DEF Count
  <2>2. CASE GoTo(q, "write")
    <3>1. Moved(q) /\ req'[q].pc = "write" /\ RowsGrow
      BY <1>2, <1>6, <2>2, Moves DEF Count, Steps
    <3>. QED
      BY <1>1, <3>1, MoveRemembers DEF ClearedInside
  <2>. QED
    BY <1>6, <2>1, <2>2 DEF Count
<1>7. CASE Insert(q)
  <2>1. Rollback(q)
    BY <1>7 DEF Insert
  <2>2. CASE Failed(q, "error") /\ rows' = rows
    BY <1>2, <1>4, <2>1, <2>2
  <2>3. CASE Inserted(q)
    <3>1. RowsGrow
      BY <2>3, RowsOnlyGrow
    <3>2. Moved(q) /\ req'[q].pc = "dispatch" /\ req'[q].row # 0
      BY <2>3, Moves
    <3>. QED
      BY <1>1, <1>3, <2>1, <3>1, <3>2, MoveRemembers DEF ClearedInside
  <2>. QED
    BY <1>7, <2>2, <2>3, InsertInserts
<1>8. CASE StartDraft(q)
  <2>1. rows' = rows \/ rows' = InState(rows, req[q].row, "active")
    BY <1>8 DEF StartDraft, InState
  <2>2. RowsGrow /\ cleared'[q] = {} /\ q \notin Requests
    BY <1>3, <1>8, <2>1, RowsOnlyGrow, IntakeAssumption DEF StartDraft
  <2>3. CASE GoTo(q, "dispatch")
    <3>1. Moved(q) /\ req'[q].pc = "dispatch"
      BY <2>3, Moves DEF Steps
    <3>. QED
      BY <1>1, <2>2, <3>1, MoveRemembers DEF ClearedInside
  <2>4. CASE Answer(q, "refused", req[q].row)
    BY <1>1, <2>2, <2>4, AnswerRemembers DEF Answers
  <2>. QED
    BY <1>8, <2>3, <2>4 DEF StartDraft
<1>9. CASE Dispatch(q)
  <2>1. \/ rows' = rows \/ rows' = InState(rows, req[q].row, "draft")
        \/ rows' = InState(rows, req[q].row, "ended")
    BY <1>9 DEF Dispatch, InState
  <2>2. RowsGrow
    BY <2>1, RowsOnlyGrow
  <2>3. At(q, "dispatch") /\ cleared'[q] = {}
    BY <1>1, <1>9 DEF Dispatch, At
  <2>4. q \in Requests => req[q].row # 0
    BY <1>1, <2>3 DEF Remembers
  <2>5. CASE Answer(q, "created", req[q].row)
    BY <1>1, <2>2, <2>3, <2>5, AnswerRemembers DEF Answers
  <2>6. CASE Answer(q, "error", req[q].row)
    BY <1>1, <2>2, <2>3, <2>4, <2>6, AnswerRemembers DEF Answers
  <2>. QED
    BY <1>9, <2>5, <2>6 DEF Dispatch
<1>. QED
  BY <1>5, <1>6, <1>7, <1>8, <1>9

\* A step that adds no row.
LEMMA RowsKeptAreUnique ==
  ASSUME TypeOK, RetryInv, RowsGrow, DOMAIN rows' = DOMAIN rows
  PROVE  KeyUnique' /\ RowsSay'
<1>1. \A n \in DOMAIN rows : rows'[n].key # NoKey =>
        /\ rows'[n].key = rows[n].key /\ rows'[n].body = rows[n].body
        /\ rows'[n].asks = rows[n].asks
  BY DEF RowsGrow
<1>. QED
  BY <1>1 DEF RetryInv, KeyUnique, RowsSay

\* The row an insert adds has its key alone, and says what the request says.
LEMMA InsertedIsUnique ==
  ASSUME TypeOK, RetryInv, NEW q \in All, At(q, "write"), Named(q) = {}, Inserted(q)
  PROVE  KeyUnique' /\ RowsSay'
<1>. DEFINE N == Len(rows) + 1
<1>1. /\ DOMAIN rows' = DOMAIN rows \cup {N} /\ N \notin DOMAIN rows
      /\ rows'[N] = NewRow(q) /\ \A n \in DOMAIN rows : rows'[n] = Without(rows, cleared[q])[n]
  BY InsertedRow
<1>2. /\ NewRow(q).key = req[q].key /\ NewRow(q).body = req[q].body
      /\ NewRow(q).asks = req[q].asks
  BY DEF NewRow
<1>. HIDE DEF N, NewRow
<1>3. RowsGrow /\ rows \in Seq(RowState)
  BY RowsOnlyGrow DEF TypeOK
<1>4. \A n \in DOMAIN rows : rows'[n].key # NoKey =>
        /\ rows'[n].key = rows[n].key /\ rows'[n].body = rows[n].body
        /\ rows'[n].asks = rows[n].asks
  BY <1>3 DEF RowsGrow
<1>5. \A n \in DOMAIN rows : rows'[n].key # NoKey => rows'[n].key # req[q].key
  <2>. SUFFICES ASSUME NEW n \in DOMAIN rows, rows'[n].key # NoKey, rows'[n].key = req[q].key
                PROVE  FALSE
    OBVIOUS
  <2>1. n \in cleared[q]
    BY <1>4 DEF Named
  <2>. QED
    BY <1>1, <1>3, <2>1, WithoutKeys
<1>6. req[q].key # NoKey => Says(req[q].body, req[q].asks)
  BY DEF RetryInv, Remembers, RequestSays, At
<1>7. KeyUnique'
  BY <1>1, <1>2, <1>4, <1>5 DEF RetryInv, KeyUnique
<1>8. RowsSay'
  BY <1>1, <1>2, <1>4, <1>6 DEF RetryInv, RowsSay
<1>. QED
  BY <1>7, <1>8

\* What the steps of one request do to the rows, and to what others hold.
LEMMA StepGrows ==
  ASSUME TypeOK, RetryInv, NEW q \in All, Arrive(q) \/ RequestStep(q)
  PROVE  /\ RowsGrow /\ KeyUnique' /\ RowsSay' /\ OneStep(q)
         /\ \A p \in All \ {q} : cleared'[p] = cleared[p]
<1>1. OneStep(q)
  BY LookupTyped, WorkTyped DEF RequestStep, TypedStep
<1>2. \A p \in All \ {q} : cleared'[p] = cleared[p]
  <2>1. cleared' = cleared \/ Rollback(q) \/ cleared' = [cleared EXCEPT ![q] = Old(q)]
    BY DEF RequestStep, Arrive, Clear, Find, Check, TxClear, TxFind, Lock, Count, Insert,
           StartDraft, FindAgain, Dispatch
  <2>. QED
    BY <2>1, RollbackTyped DEF TypeOK
<1>3. CASE Insert(q)
  <2>1. At(q, "write")
    BY <1>3 DEF Insert
  <2>2. CASE Named(q) = {} /\ Inserted(q)
    BY <1>1, <1>2, <2>1, <2>2, InsertedIsUnique, RowsOnlyGrow
  <2>3. CASE rows' = rows
    BY <1>1, <1>2, <2>3, RowsOnlyGrow, RowsKeptAreUnique
  <2>. QED
    BY <1>3, <2>2, <2>3, InsertInserts
<1>4. CASE ~Insert(q)
  <2>1. \/ rows' = rows \/ (\E ns : Forget(ns))
        \/ \E t \in {"draft", "active", "ended"} : rows' = InState(rows, req[q].row, t)
    BY <1>4 DEF RequestStep, Arrive, Clear, Find, Check, TxClear, TxFind, Lock, Count,
                StartDraft, FindAgain, Dispatch, InState
  <2>2. RowsGrow
    BY <2>1, RowsOnlyGrow
  <2>3. DOMAIN rows' = DOMAIN rows
    BY <2>1, ForgetIsWithout, WithoutKeys, SetState DEF TypeOK
  <2>. QED
    BY <1>1, <1>2, <2>2, <2>3, RowsKeptAreUnique
<1>. QED
  BY <1>3, <1>4

\* What a retry is owed, with the unique key and the meaning of the rows, is inductive.
LEMMA RetryInductive == TypeOK /\ RetryInv /\ [Next]_vars => RetryInv'
<1>. SUFFICES ASSUME TypeOK, RetryInv, [Next]_vars PROVE RetryInv'
  OBVIOUS
<1>0. \A p \in All : Remembers(p)
  BY DEF RetryInv
<1>1. ASSUME NEW q \in All, Arrive(q) \/ RequestStep(q) PROVE RetryInv'
  <2>1. /\ RowsGrow /\ KeyUnique' /\ RowsSay' /\ OneStep(q)
        /\ \A p \in All \ {q} : cleared'[p] = cleared[p]
    BY <1>1, StepGrows
  <2>2. \A p \in All \ {q} : Remembers(p)'
    BY <1>0, <2>1, Bystander DEF OneStep
  <2>3. Remembers(q)'
    BY <1>1, ArriveRemembers, LookupRemembers, WorkRemembers DEF RequestStep
  <2>. QED
    BY <2>1, <2>2, <2>3 DEF RetryInv
<1>2. ASSUME NEW q \in Starts, AskStart(q) PROVE RetryInv'
  <2>1. q \in All /\ q \notin Requests
    BY IntakeAssumption DEF All
  <2>2. /\ OneStep(q) /\ req'[q].pc = "lock" /\ Moved(q)
        /\ rows' = rows /\ cleared' = cleared /\ At(q, "new")
    BY <1>2, <2>1, AskStartAsks DEF AskStart, OneStep, Moved
  <2>3. RowsGrow /\ KeyUnique' /\ RowsSay'
    BY <2>2, RowsOnlyGrow, RowsKeptAreUnique
  <2>4. \A p \in All \ {q} : Remembers(p)'
    BY <1>0, <2>2, <2>3, Bystander DEF OneStep
  <2>5. ~Keyed(q)
    BY <1>0, <2>1, <2>2, NotKeyed DEF At
  <2>6. Remembers(q)'
    BY <1>0, <2>1, <2>2, <2>3, <2>5, MoveRemembers DEF ClearedInside, At
  <2>. QED
    BY <2>3, <2>4, <2>6 DEF RetryInv
<1>3. ASSUME RowsGrow, DOMAIN rows' = DOMAIN rows, req' = req, cleared' = cleared
      PROVE  RetryInv'
  BY <1>0, <1>3, Bystander, RowsKeptAreUnique DEF RetryInv
<1>4. ASSUME NEW n \in DOMAIN rows, Settle(n) PROVE RetryInv'
  <2>1. rows' = InState(rows, n, "ended")
    BY <1>4 DEF Settle, InState
  <2>2. RowsGrow /\ DOMAIN rows' = DOMAIN rows
    BY <2>1, RowsOnlyGrow, SetState DEF TypeOK
  <2>. QED
    BY <1>3, <1>4, <2>2 DEF Settle
<1>5. CASE Tick \/ DeleteTasks \/ UNCHANGED vars
  <2>1. rows' = rows /\ req' = req /\ cleared' = cleared
    BY <1>5 DEF Tick, DeleteTasks, vars
  <2>. QED
    BY <1>3, <2>1, RowsOnlyGrow
<1>6. CASE ApiCrash
  <2>1. RowsGrow /\ KeyUnique' /\ RowsSay' /\ rows' = rows
    BY <1>6, RowsOnlyGrow, RowsKeptAreUnique DEF ApiCrash
  <2>2. ASSUME NEW p \in All PROVE Remembers(p)'
    <3>1. cleared'[p] = {}
      BY <1>6 DEF ApiCrash
    <3>2. CASE req[p].pc \in {"new", "answered"} /\ req'[p] = req[p]
      BY <1>0, <2>1, <3>1, <3>2, Bystander DEF Remembers, ClearedInside
    <3>3. CASE /\ req'[p].pc = "answered" /\ req'[p].answer = "lost"
               /\ req'[p].key = NoKey /\ req'[p].owed = 0
      BY <3>1, <3>3
         DEF Remembers, RequestSays, ClearedInside, NewIsNew, OwedIsRow, OwedAnswered, Keyed,
             ReusedSame, LateKnown, At
    <3>. QED
      BY <1>6, <3>2, <3>3, CrashLoses
  <2>. QED
    BY <2>1, <2>2 DEF RetryInv
<1>7. Requests \subseteq All
  BY DEF All
<1>. QED
  BY <1>1, <1>2, <1>4, <1>5, <1>6, <1>7 DEF Next

\* A repeated request gets the execution of the first one, a request that means something
\* else never does, and none is told of the limit or of an error while its execution is there.
THEOREM RetryGetsTheExecutionHolds == Spec => []RetryGetsTheExecution
<1>1. Init => RetryInv
  <2>. SUFFICES ASSUME Init PROVE RetryInv
    OBVIOUS
  <2>1. \A n \in DOMAIN rows : rows[n].key = NoKey
    BY DEF Init, Draft
  <2>2. \A q \in All : /\ req[q].pc = "new" /\ req[q].key = NoKey /\ req[q].owed = 0
                       /\ cleared[q] = {}
    BY DEF Init, NewRequest
  <2>3. ASSUME NEW q \in All PROVE Remembers(q)
    BY <2>2 DEF Remembers, RequestSays, ClearedInside, NewIsNew, OwedIsRow, OwedAnswered,
                Keyed, ReusedSame, LateKnown, At
  <2>. QED
    BY <2>1, <2>3 DEF RetryInv, KeyUnique, RowsSay
<1>2. TypeOK /\ RetryInv /\ [Next]_vars => RetryInv'
  BY RetryInductive
<1>3. TypeOK /\ RetryInv => RetryGetsTheExecution
  <2>. SUFFICES ASSUME RetryInv, NEW q \in Requests, At(q, "answered"), req[q].answer # "lost"
                PROVE
                  /\ req[q].owed # 0 /\ rows[req[q].owed].key = req[q].key =>
                       req[q].answer = "reused" /\ req[q].row = req[q].owed
                  /\ req[q].answer = "reused" => rows[req[q].row].asks = req[q].asks
                  /\ req[q].answer \in {"limit", "error"} /\ req[q].row = 0 =>
                       \A n \in 1..req[q].known :
                         req[q].key # NoKey /\ rows[n].key = req[q].key
                         /\ rows[n].asks = req[q].asks => Expired(n, q)
    BY DEF RetryGetsTheExecution
  <2>1. Remembers(q)
    BY DEF RetryInv, All
  <2>. QED
    BY <2>1 DEF Remembers, OwedAnswered, Keyed, ReusedSame, LateKnown, At
<1>. QED
  BY <1>1, <1>2, <1>3, IntakeTypes, PTL DEF Spec
=============================================================================
