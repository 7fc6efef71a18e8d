-------------------------- MODULE RefinementProofs --------------------------
(***************************************************************************)
(* Two models implement what they promise: the lists of ExecutionQueue     *)
(* implement JobDelivery, for any number of executions and entries, any    *)
(* limit of attempts and any faults; and whatever two processes publish    *)
(* for one execution, the stored events of ExecutionStream implement       *)
(* EventLog, for any number of chunks, browsers, tries and faults.         *)
(***************************************************************************)
EXTENDS ExecutionQueue, ExecutionStream, FiniteSetTheorems, SequenceTheorems, WellFoundedInduction,
        TLAPS

-----------------------------------------------------------------------------
(* Counting the entries of a list.                                         *)

\* The places of a list that hold an entry of j.
Places(list, j) == {n \in DOMAIN list : list[n].job = j}
\* The places of a list at which a job is are finitely many.
LEMMA PlacesFinite ==
  ASSUME NEW R, NEW s \in Seq(R), NEW j
  PROVE  IsFiniteSet(Places(s, j)) /\ EntriesOf(s, j) = Cardinality(Places(s, j))
         /\ EntriesOf(s, j) \in Nat
<1>1. Len(s) \in Nat /\ Places(s, j) \in SUBSET (1..Len(s))
  BY DEF Places
<1>2. IsFiniteSet(1..Len(s))
  BY <1>1, FS_Interval
<1>3. IsFiniteSet(Places(s, j))
  BY <1>1, <1>2, FS_Subset
<1>4. EntriesOf(s, j) = Cardinality(Places(s, j))
  BY DEF EntriesOf, Places
<1>. QED
  BY <1>3, <1>4, FS_CardinalityType

\* A finite set of naturals shifted by k has as many members.
LEMMA ShiftCounts ==
  ASSUME NEW S \in SUBSET Nat, IsFiniteSet(S), NEW k \in Nat
  PROVE  IsFiniteSet({n + k : n \in S}) /\ Cardinality({n + k : n \in S}) = Cardinality(S)
<1>. DEFINE T == {n + k : n \in S}
            f == [n \in S |-> n + k]
<1>1. f \in Bijection(S, T)
  BY DEF Bijection, Injection, Surjection, IsInjective
<1>2. ExistsBijection(S, T)
  BY <1>1 DEF ExistsBijection
<1>. QED
  BY <1>2, FS_Bijection

\* The entries of two lists put together.
LEMMA CountConcat ==
  ASSUME NEW R, NEW s \in Seq(R), NEW t \in Seq(R), NEW j
  PROVE  s \o t \in Seq(R) /\ EntriesOf(s \o t, j) = EntriesOf(s, j) + EntriesOf(t, j)
<1>. DEFINE P == Places(s, j)
            Q == Places(t, j)
            Q2 == {n + Len(s) : n \in Q}
<1>1. /\ s \o t \in Seq(R) /\ Len(s) \in Nat /\ Len(t) \in Nat
      /\ Len(s \o t) = Len(s) + Len(t)
      /\ \A n \in 1..Len(s) : (s \o t)[n] = s[n]
      /\ \A n \in 1..Len(t) : (s \o t)[n + Len(s)] = t[n]
  OBVIOUS
<1>2. Places(s \o t, j) = P \cup Q2
  <2>1. DOMAIN (s \o t) = 1..(Len(s) + Len(t)) /\ DOMAIN s = 1..Len(s) /\ DOMAIN t = 1..Len(t)
    BY <1>1
  <2>2. \A n \in DOMAIN (s \o t) : n \in DOMAIN s \/ \E m \in DOMAIN t : n = m + Len(s)
    <3>. TAKE n \in DOMAIN (s \o t)
    <3>1. n > Len(s) => n - Len(s) \in DOMAIN t /\ n = (n - Len(s)) + Len(s)
      BY <1>1, <2>1
    <3>2. ~(n > Len(s)) => n \in DOMAIN s
      BY <1>1, <2>1
    <3>. QED
      BY <3>1, <3>2
  <2>3. ASSUME NEW n \in Places(s \o t, j) PROVE n \in P \cup Q2
    <3>1. n \in DOMAIN (s \o t) /\ (s \o t)[n].job = j
      BY DEF Places
    <3>2. CASE n \in DOMAIN s
      BY <1>1, <2>1, <3>1, <3>2 DEF Places
    <3>3. CASE \E m \in DOMAIN t : n = m + Len(s)
      <4>1. PICK m \in DOMAIN t : n = m + Len(s)
        BY <3>3
      <4>2. m \in Q
        BY <1>1, <2>1, <3>1, <4>1 DEF Places
      <4>. QED
        BY <4>1, <4>2
    <3>. QED
      BY <2>2, <3>1, <3>2, <3>3
  <2>4. ASSUME NEW n \in P PROVE n \in Places(s \o t, j)
    BY <1>1, <2>1 DEF Places
  <2>5. ASSUME NEW m \in Q PROVE m + Len(s) \in Places(s \o t, j)
    BY <1>1, <2>1 DEF Places
  <2>. QED
    BY <2>3, <2>4, <2>5
<1>3. Q \in SUBSET Nat /\ P \cap Q2 = {}
  BY <1>1 DEF Places
<1>4. IsFiniteSet(P) /\ IsFiniteSet(Q) /\ Cardinality(P) \in Nat /\ Cardinality(Q) \in Nat
  BY PlacesFinite, FS_CardinalityType
<1>5. IsFiniteSet(Q2) /\ Cardinality(Q2) = Cardinality(Q)
  <2>. HIDE DEF Q
  <2>. QED
    BY <1>1, <1>3, <1>4, ShiftCounts
<1>6. Cardinality(P \cup Q2) = Cardinality(P) + Cardinality(Q2) - Cardinality(P \cap Q2)
  <2>. HIDE DEF P, Q2
  <2>. QED
    BY <1>4, <1>5, FS_Union
<1>7. Cardinality(P \cap Q2) = 0
  BY <1>3, FS_EmptySet
<1>8. Cardinality(P \cup Q2) = Cardinality(P) + Cardinality(Q)
  BY <1>4, <1>5, <1>6, <1>7
<1>. QED
  BY <1>1, <1>2, <1>8, PlacesFinite

\* A set of naturals that is not empty has a least member.
LEMMA LeastIsThere ==
  ASSUME NEW S \in SUBSET Nat, S # {}
  PROVE  \E m \in S : \A x \in S : m <= x
<1>. DEFINE R == OpToRel(<, Nat)
<1>1. IsWellFoundedOn(R, Nat)
  BY NatLessThanWellFounded
<1>2. \A c, b \in Nat : c < b => <<c, b>> \in R
  BY DEF OpToRel
<1>. HIDE DEF R
<1>3. PICK m \in S : \A x \in S : ~(<<x, m>> \in R)
  BY <1>1, WFMin
<1>4. \A x \in S : ~(x < m)
  BY <1>2, <1>3
<1>. QED
  BY <1>4

\* A list of one entry, and of none.
Is(e, j) == IF e.job = j THEN 1 ELSE 0
\* A list of one entry.
LEMMA CountOne ==
  ASSUME NEW R, NEW e \in R, NEW j
  PROVE  <<e>> \in Seq(R) /\ EntriesOf(<<e>>, j) = Is(e, j)
<1>1. <<e>> \in Seq(R) /\ DOMAIN <<e>> = {1} /\ <<e>>[1] = e
  OBVIOUS
<1>2. Places(<<e>>, j) = IF e.job = j THEN {1} ELSE {}
  BY <1>1 DEF Places
<1>3. Cardinality({1}) = 1 /\ Cardinality({}) = 0
  BY FS_Singleton, FS_EmptySet
<1>4. EntriesOf(<<e>>, j) = Cardinality(Places(<<e>>, j))
  BY <1>1, PlacesFinite
<1>. QED
  BY <1>1, <1>2, <1>3, <1>4 DEF Is
\* The empty list has no entry of any job.
LEMMA CountNone == \A j : EntriesOf(<<>>, j) = 0
<1>. TAKE j
<1>1. {n \in DOMAIN <<>> : <<>>[n].job = j} = {}
  OBVIOUS
<1>. QED
  BY <1>1, FS_EmptySet DEF EntriesOf

\* An entry added at either end, and the first or the last of a list that is not empty.
LEMMA CountAppend ==
  ASSUME NEW R, NEW s \in Seq(R), NEW e \in R, NEW j
  PROVE  /\ Append(s, e) \in Seq(R) /\ EntriesOf(Append(s, e), j) = EntriesOf(s, j) + Is(e, j)
         /\ <<e>> \o s \in Seq(R) /\ EntriesOf(<<e>> \o s, j) = EntriesOf(s, j) + Is(e, j)
<1>1. Append(s, e) = s \o <<e>>
  BY AppendIsConcat
<1>2. <<e>> \in Seq(R) /\ EntriesOf(<<e>>, j) = Is(e, j)
  BY CountOne
<1>3. EntriesOf(s, j) \in Nat /\ Is(e, j) \in Nat
  BY PlacesFinite DEF Is
<1>. DEFINE t == <<e>>
<1>6. t \in Seq(R) /\ EntriesOf(t, j) = Is(e, j)
  BY <1>2
<1>. HIDE DEF t
<1>7. s \o t \in Seq(R) /\ EntriesOf(s \o t, j) = EntriesOf(s, j) + EntriesOf(t, j)
  BY <1>6, CountConcat
<1>8. t \o s \in Seq(R) /\ EntriesOf(t \o s, j) = EntriesOf(t, j) + EntriesOf(s, j)
  BY <1>6, CountConcat
<1>4. s \o <<e>> \in Seq(R) /\ EntriesOf(s \o <<e>>, j) = EntriesOf(s, j) + Is(e, j)
  BY <1>6, <1>7 DEF t
<1>5. <<e>> \o s \in Seq(R) /\ EntriesOf(<<e>> \o s, j) = Is(e, j) + EntriesOf(s, j)
  BY <1>6, <1>8 DEF t
<1>. QED
  BY <1>1, <1>3, <1>4, <1>5
\* A list has the entries of its rest, and the one at its head or at its end.
LEMMA CountEnds ==
  ASSUME NEW R, NEW s \in Seq(R), s # <<>>, NEW j
  PROVE  /\ Head(s) \in R /\ Tail(s) \in Seq(R)
         /\ EntriesOf(s, j) = EntriesOf(Tail(s), j) + Is(Head(s), j)
         /\ Last(s) \in R /\ Front(s) \in Seq(R)
         /\ EntriesOf(s, j) = EntriesOf(Front(s), j) + Is(Last(s), j)
<1>1. Len(s) \in Nat /\ Len(s) > 0
  OBVIOUS
<1>2. Head(s) \in R /\ Tail(s) \in Seq(R) /\ s = <<Head(s)>> \o Tail(s)
  BY <1>1
<1>3. Last(s) \in R /\ Front(s) \in Seq(R) /\ s = Append(Front(s), Last(s))
  BY <1>1 DEF Last, Front
<1>4. \A t \in Seq(R), e \in R : /\ EntriesOf(Append(t, e), j) = EntriesOf(t, j) + Is(e, j)
                                  /\ EntriesOf(<<e>> \o t, j) = EntriesOf(t, j) + Is(e, j)
  BY CountAppend
<1>5. EntriesOf(<<Head(s)>> \o Tail(s), j) = EntriesOf(Tail(s), j) + Is(Head(s), j)
  BY <1>2, <1>4
<1>6. EntriesOf(Append(Front(s), Last(s)), j) = EntriesOf(Front(s), j) + Is(Last(s), j)
  BY <1>3, <1>4
<1>. QED
  BY <1>2, <1>3, <1>5, <1>6

\* RemoveFirst removes one entry that equals the given one, if the list has one.
LEMMA CountRemove ==
  ASSUME NEW R, NEW s \in Seq(R), NEW e, NEW j
  PROVE  /\ RemoveFirst(s, e) \in Seq(R)
         /\ ~Contains(s, e) => RemoveFirst(s, e) = s
         /\ Contains(s, e) =>
              e \in R /\ EntriesOf(s, j) = EntriesOf(RemoveFirst(s, e), j) + Is(e, j)
<1>1. CASE ~Contains(s, e)
  BY <1>1 DEF Contains, RemoveFirst
<1>2. CASE Contains(s, e)
  <2>. DEFINE I == {i \in 1..Len(s) : s[i] = e}
              k == Min(I)
              A == SubSeq(s, 1, k - 1)
              B == SubSeq(s, k + 1, Len(s))
  <2>1. Len(s) \in Nat /\ I # {} /\ I \in SUBSET Nat
    BY <1>2 DEF Contains
  <2>2. k \in I
    <3>. HIDE DEF I
    <3>1. PICK m \in I : \A x \in I : m <= x
      BY <2>1, LeastIsThere
    <3>. QED
      BY <2>1, <3>1 DEF Min
  <2>3. RemoveFirst(s, e) = A \o B
    BY <1>2 DEF Contains, RemoveFirst, RemoveAt, SelectInSeq
  <2>. HIDE DEF k
  <2>4. k \in 1..Len(s) /\ s[k] = e /\ e \in R
    BY <2>2
  <2>5. A \in Seq(R) /\ B \in Seq(R) /\ <<e>> \in Seq(R)
    BY <2>1, <2>4
  <2>6. s = A \o (<<e>> \o B)
    <3>1. SubSeq(s, k, Len(s)) = <<s[k]>> \o SubSeq(s, k + 1, Len(s))
      <4>1. Len(s) \in k..Len(s)
        BY <2>1, <2>4
      <4>. QED
        BY <2>4, <4>1, SubSeqRecursiveFirst
    <3>2. SubSeq(s, 1, k - 1) \o SubSeq(s, (k - 1) + 1, Len(s)) = SubSeq(s, 1, Len(s))
      <4>1. 1 \in 1..Len(s) + 1 /\ k - 1 \in (1 - 1)..Len(s) /\ Len(s) \in (k - 1)..Len(s)
        BY <2>1, <2>4
      <4>. QED
        BY <4>1, ConcatAdjacentSubSeq
    <3>3. SubSeq(s, 1, Len(s)) = s /\ (k - 1) + 1 = k
      BY <2>1, <2>4, SubSeqFull
    <3>. QED
      BY <2>4, <3>1, <3>2, <3>3
  <2>. HIDE DEF A, B
  <2>. DEFINE C == <<e>> \o B
  <2>10. C \in Seq(R) /\ EntriesOf(C, j) = EntriesOf(B, j) + Is(e, j) /\ s = A \o C
    BY <2>4, <2>5, <2>6, CountAppend
  <2>. HIDE DEF C
  <2>7. EntriesOf(A \o B, j) = EntriesOf(A, j) + EntriesOf(B, j) /\ A \o B \in Seq(R)
    BY <2>5, CountConcat
  <2>8. EntriesOf(s, j) = EntriesOf(A, j) + EntriesOf(C, j)
    BY <2>5, <2>10, CountConcat
  <2>9. EntriesOf(A, j) \in Nat /\ EntriesOf(B, j) \in Nat /\ Is(e, j) \in Nat
    BY <2>5, PlacesFinite DEF Is
  <2>. QED
    BY <1>2, <2>3, <2>4, <2>7, <2>8, <2>9, <2>10
<1>. QED
  BY <1>1, <1>2

-----------------------------------------------------------------------------
(* Types, and where the entry is that the consumer holds.                  *)

\* An entry that waits or is processed has attempts left.
Waiting == [job : Jobs, at : Stamps, attempts : 0..(MaxAttempts - 1)]
QueueTypes ==
  /\ main \in Seq(Waiting) /\ processing \in Seq(Waiting) /\ dead \in Seq(Entry)
  /\ worker \in {"booting", "up", "stopping", "down"} /\ pc \in Steps
  /\ pc \notin {"top", "wait"} => item \in Waiting
  /\ ~Alive => pc = "top"

\* While the consumer may yet resolve the entry it holds, the entry is being processed.
Held == pc \in {"run", "ack", "bury"} => Contains(processing, item)
QueueInv == QueueTypes /\ Held

\* EXECUTION_QUEUE_MAX_ATTEMPTS is a positive number.
LEMMA Bounds ==
  /\ MaxAttempts \in Nat /\ MaxAttempts > 0 /\ 0 \in 0..(MaxAttempts - 1)
  /\ 0..(MaxAttempts - 1) \subseteq 0..MaxAttempts
  BY QueueAssumption

\* The entries that may wait: their fields, and the one a dispatch adds.
LEMMA WaitingEntries ==
  /\ \A x \in Waiting : x.job \in Jobs /\ x.at \in Stamps /\ x.attempts \in 0..(MaxAttempts - 1)
  /\ Waiting \subseteq Entry
  /\ \A j \in Jobs, t \in Stamps : [job |-> j, at |-> t, attempts |-> 0] \in Waiting
<1>1. \A x \in Waiting : x.job \in Jobs /\ x.at \in Stamps /\ x.attempts \in 0..(MaxAttempts - 1)
  BY DEF Waiting
<1>2. Waiting \subseteq Entry
  BY Bounds DEF Waiting, Entry
<1>3. \A j \in Jobs, t \in Stamps : [job |-> j, at |-> t, attempts |-> 0] \in Waiting
  BY Bounds DEF Waiting
<1>. QED
  BY <1>1, <1>2, <1>3

\* The entry of another attempt: the same job; with attempts left unless exhausted.
LEMMA RetryIs ==
  ASSUME item \in Waiting
  PROVE  /\ Retry.job = item.job
         /\ ~Exhausted => Retry \in Waiting
         /\ Retry \in Entry
<1>1. /\ item.job \in Jobs /\ item.at \in Stamps /\ item.attempts \in 0..(MaxAttempts - 1)
      /\ MaxAttempts \in Nat
  BY Bounds DEF Waiting
<1>. DEFINE a == item.attempts + 1
<1>2. a \in 0..MaxAttempts /\ (~Exhausted => a \in 0..(MaxAttempts - 1))
  BY <1>1 DEF Exhausted
<1>3. Retry = [job |-> item.job, at |-> item.at, attempts |-> a]
  BY DEF Retry, Waiting
<1>. HIDE DEF a
<1>4. Retry.job = item.job
  BY <1>3
<1>5. Retry \in Entry
  BY <1>1, <1>2, <1>3 DEF Entry
<1>6. ~Exhausted => Retry \in Waiting
  BY <1>1, <1>2, <1>3 DEF Waiting
<1>. QED
  BY <1>4, <1>5, <1>6

\* What LPUSH, RPUSH, RPOP and LREM make of the lists are lists of entries.
LEMMA ListsTyped ==
  ASSUME QueueTypes
  PROVE  /\ \A e \in Waiting : Append(main, e) \in Seq(Waiting) /\ <<e>> \o main \in Seq(Waiting)
                               /\ Append(processing, e) \in Seq(Waiting)
                               /\ Contains(Append(processing, e), e)
         /\ \A e \in Entry : Append(dead, e) \in Seq(Entry)
         /\ main # <<>> => Head(main) \in Waiting /\ Tail(main) \in Seq(Waiting)
         /\ processing # <<>> => Last(processing) \in Waiting /\ Front(processing) \in Seq(Waiting)
         /\ RemoveFirst(processing, item) \in Seq(Waiting)
<1>1. main \in Seq(Waiting) /\ processing \in Seq(Waiting) /\ dead \in Seq(Entry)
  BY DEF QueueTypes
<1>2. \A e \in Waiting : Append(main, e) \in Seq(Waiting) /\ <<e>> \o main \in Seq(Waiting)
                         /\ Append(processing, e) \in Seq(Waiting)
  BY <1>1, CountAppend
<1>3. \A e \in Waiting : Contains(Append(processing, e), e)
  <2>. TAKE e \in Waiting
  <2>1. /\ Len(processing) \in Nat /\ Len(Append(processing, e)) = Len(processing) + 1
        /\ Append(processing, e)[Len(processing) + 1] = e
    BY <1>1
  <2>. QED
    BY <2>1 DEF Contains
<1>4. \A e \in Entry : Append(dead, e) \in Seq(Entry)
  BY <1>1
<1>5. main # <<>> => Head(main) \in Waiting /\ Tail(main) \in Seq(Waiting)
  BY <1>1, CountEnds
<1>6. processing # <<>> => Last(processing) \in Waiting /\ Front(processing) \in Seq(Waiting)
  BY <1>1, CountEnds
<1>7. RemoveFirst(processing, item) \in Seq(Waiting)
  BY <1>1, CountRemove
<1>. QED
  BY <1>2, <1>3, <1>4, <1>5, <1>6, <1>7

\* A command is executed or leaves the lists alone; either way the consumer goes on.
LEMMA Commands ==
  ASSUME NEW executed, NEW r \in Steps, NEW x \in Steps, Command(executed, r, x)
  PROVE  /\ pc' \in {r, x}
         /\ executed \/ (UNCHANGED lists /\ pc' = x)
  BY DEF Command

\* Where the consumer is not, it does not matter what it held.
LEMMA ConsumerKeepsInv ==
  ASSUME QueueInv, ConsumerStep
  PROVE  QueueInv'
<1>1. QueueTypes /\ Held /\ Alive
  BY DEF QueueInv, ConsumerStep, Poll, PollEnds, Take, Run, Acknowledge, Fail, Bury,
         AcknowledgeFailure, Return, At, Alive
<1>2. worker' = worker /\ (Alive' <=> Alive)
  BY DEF ConsumerStep, Poll, PollEnds, Take, Run, Acknowledge, Fail, Bury,
         AcknowledgeFailure, Return, Alive
<1>3. CASE Poll \/ PollEnds
  <2>1. /\ pc' \in {"top", "wait"} /\ main' = main /\ processing' = processing
        /\ dead' = dead /\ pc' \in Steps
    BY <1>3 DEF Poll, PollEnds, lists, Steps
  <2>. QED
    BY <1>1, <1>2, <2>1 DEF QueueInv, QueueTypes, Held
<1>4. CASE Take
  <2>1. /\ main # <<>> /\ main' = Tail(main) /\ dead' = dead
        /\ processing' = Append(processing, Head(main))
        /\ \/ item' = Head(main) /\ pc' \in {"bury", "run"}
           \/ pc' = "top"
    BY <1>4 DEF Take, MoveHead
  <2>2. /\ main' \in Seq(Waiting) /\ processing' \in Seq(Waiting) /\ Head(main) \in Waiting
        /\ Contains(processing', Head(main))
    BY <1>1, <2>1, ListsTyped
  <2>. QED
    BY <1>1, <1>2, <2>1, <2>2 DEF QueueInv, QueueTypes, Held, Steps
<1>5. CASE Run
  <2>1. /\ pc = "run" /\ pc' \in {"ack", "fail"} /\ item' = item
        /\ main' = main /\ processing' = processing /\ dead' = dead
    BY <1>5 DEF Run, At, lists
  <2>. QED
    BY <1>1, <1>2, <2>1 DEF QueueInv, QueueTypes, Held, Steps
<1>6. CASE Acknowledge \/ AcknowledgeFailure
  <2>1. /\ pc \in {"ack", "failAck"} /\ pc' \in {"top", "fail", "return"} /\ item' = item
        /\ RemoveItem \/ UNCHANGED lists
    BY <1>6, Commands DEF Acknowledge, AcknowledgeFailure, At, Steps
  <2>2. main' = main /\ dead' = dead /\ processing' \in Seq(Waiting)
    BY <1>1, <2>1, ListsTyped DEF RemoveItem, lists, QueueTypes
  <2>. QED
    BY <1>1, <1>2, <2>1, <2>2 DEF QueueInv, QueueTypes, Held, Steps
<1>7. CASE Fail \/ Bury
  <2>1. /\ pc \in {"fail", "bury"} /\ pc' \in {"failAck", "return"} /\ item' = item
        /\ PushRetry \/ PushGarbage \/ UNCHANGED lists
    BY <1>7, Commands DEF Fail, Bury, At, Steps
  <2>2. item \in Waiting /\ item \in Entry
    BY <1>1, <2>1, WaitingEntries DEF QueueTypes
  <2>3. main' \in Seq(Waiting) /\ dead' \in Seq(Entry) /\ processing' = processing
    BY <1>1, <2>1, <2>2, RetryIs, ListsTyped DEF PushRetry, PushGarbage, lists, QueueTypes
  <2>. QED
    BY <1>1, <1>2, <2>1, <2>2, <2>3 DEF QueueInv, QueueTypes, Held, Steps
<1>8. CASE Return
  <2>1. /\ pc = "return" /\ pc' = "top" /\ item' = item
        /\ MoveBack \/ UNCHANGED lists
    BY <1>8, Commands DEF Return, At, Steps
  <2>2. item \in Waiting
    BY <1>1, <2>1 DEF QueueTypes
  <2>3. main' \in Seq(Waiting) /\ dead' = dead /\ processing' \in Seq(Waiting)
    BY <1>1, <2>1, <2>2, ListsTyped DEF MoveBack, lists, QueueTypes
  <2>. QED
    BY <1>1, <1>2, <2>1, <2>3 DEF QueueInv, QueueTypes, Held, Steps
<1>. QED
  BY <1>3, <1>4, <1>5, <1>6, <1>7, <1>8 DEF ConsumerStep

\* The types, and that an entry at work is in the processing list, are inductive.
LEMMA QueueInductive == QueueInv /\ [Next]_vars => QueueInv'
<1>. SUFFICES ASSUME QueueInv, [Next]_vars PROVE QueueInv'
  OBVIOUS
<1>1. QueueTypes /\ Held
  BY DEF QueueInv
<1>2. ASSUME NEW j \in Jobs, NEW t \in Stamps, Push(j, t) PROVE QueueInv'
  <2>1. main' = Append(main, [job |-> j, at |-> t, attempts |-> 0])
        /\ processing' = processing /\ dead' = dead /\ worker' = worker /\ pc' = pc /\ item' = item
    BY <1>2 DEF Push
  <2>2. main' \in Seq(Waiting)
    BY <1>1, <2>1, WaitingEntries, ListsTyped
  <2>. QED
    BY <1>1, <2>1, <2>2 DEF QueueInv, QueueTypes, Held, Alive
<1>3. CASE ConsumerStep
  BY <1>3, ConsumerKeepsInv
<1>4. CASE Stop
  BY <1>1, <1>4 DEF Stop, lists, QueueInv, QueueTypes, Held, Alive
<1>5. CASE Down \/ Boot \/ Ready
  <2>1. /\ main' = main /\ processing' = processing /\ dead' = dead /\ pc' = "top"
        /\ worker' \in {"down", "booting", "up"}
    BY <1>1, <1>5 DEF Down, Boot, Ready, lists, QueueTypes, Alive
  <2>. QED
    BY <1>1, <2>1 DEF QueueInv, QueueTypes, Held, Steps
<1>6. CASE Requeue
  <2>1. /\ processing # <<>> /\ main' = <<Last(processing)>> \o main
        /\ processing' = Front(processing) /\ dead' = dead /\ pc' = pc /\ pc = "top"
        /\ worker' \in {"booting", "down"}
    BY <1>1, <1>6 DEF Requeue, QueueTypes, Alive
  <2>2. Last(processing) \in Waiting /\ Front(processing) \in Seq(Waiting)
    BY <1>1, <2>1, ListsTyped
  <2>3. main' \in Seq(Waiting) /\ processing' \in Seq(Waiting)
    BY <1>1, <2>1, <2>2, ListsTyped
  <2>. QED
    BY <1>1, <2>1, <2>3 DEF QueueInv, QueueTypes, Held, Steps
<1>7. CASE UNCHANGED vars
  BY <1>1, <1>7 DEF vars, QueueInv, QueueTypes, Held, Alive
<1>. QED
  BY <1>2, <1>3, <1>4, <1>5, <1>6, <1>7 DEF Next

\* Entries keep their types: none is run more often than the limit of attempts allows, and
\* the entry the consumer holds is being processed until it is settled.
THEOREM QueueTypesHold == Spec => []QueueInv
<1>1. Init => QueueInv
  BY DEF Init, QueueInv, QueueTypes, Held, Alive, Steps
<1>2. QueueInv /\ [Next]_vars => QueueInv'
  BY QueueInductive
<1>. QED
  BY <1>1, <1>2, PTL DEF Spec

-----------------------------------------------------------------------------
(* The refinement.                                                         *)

\* The state of JobDelivery, as ExecutionQueue maps it.
OwedOf == [j \in Jobs |-> Owed(j)]
ParkedOf == [j \in Jobs |-> EntriesOf(dead, j)]
SpareOf == IF Alive /\ pc \in {"ack", "failAck"} THEN {item.job} ELSE {}

\* How often a job is owed or parked is a number.
LEMMA Numbers ==
  ASSUME QueueTypes
  PROVE  \A j : Owed(j) \in Nat /\ EntriesOf(dead, j) \in Nat
<1>. TAKE j
<1>1. EntriesOf(main, j) \in Nat /\ EntriesOf(processing, j) \in Nat /\ EntriesOf(dead, j) \in Nat
  BY PlacesFinite DEF QueueTypes
<1>. QED
  BY <1>1 DEF Owed

\* Each step of JobDelivery, from what it does to the numbers.
OwedStays == \A i \in Jobs : Owed(i)' = Owed(i)
ParkedStays == \A i \in Jobs : EntriesOf(dead, i)' = EntriesOf(dead, i)
\* A step that leaves the numbers as they are leaves their functions as they are.
LEMMA StayMaps ==
  /\ OwedStays => OwedOf' = OwedOf
  /\ ParkedStays => ParkedOf' = ParkedOf
  BY DEF OwedStays, ParkedStays, OwedOf, ParkedOf
\* A worker that lets go of its entry forgets the copy it may drop.
LEMMA ForgetMaps ==
  ASSUME OwedStays, ParkedStays, SpareOf' = {}
  PROVE  Delivery!Next
  BY StayMaps DEF OwedOf, ParkedOf, SpareOf, Delivery!Next, Delivery!Forget
\* A step that leaves the numbers and the copy is none of JobDelivery.
LEMMA StutterMaps ==
  ASSUME OwedStays, ParkedStays, SpareOf' = SpareOf
  PROVE  UNCHANGED Delivery!vars
  BY StayMaps DEF OwedOf, ParkedOf, SpareOf, Delivery!vars
\* One more, or one less, of a job.
LEMMA OneMore ==
  ASSUME NEW f \in [Jobs -> Nat], NEW g \in [Jobs -> Nat], NEW j \in Jobs,
         \A i \in Jobs : g[i] = f[i] + IF i = j THEN 1 ELSE 0
  PROVE  g = [f EXCEPT ![j] = @ + 1] /\ f = [g EXCEPT ![j] = @ - 1] /\ g[j] > 0
<1>1. \A i \in Jobs : g[i] = [f EXCEPT ![j] = @ + 1][i]
  OBVIOUS
<1>2. \A i \in Jobs : f[i] = [g EXCEPT ![j] = @ - 1][i]
  OBVIOUS
<1>. QED
  BY <1>1, <1>2
\* The numbers, as functions of the job.
LEMMA MapsTyped ==
  /\ QueueTypes => OwedOf \in [Jobs -> Nat] /\ ParkedOf \in [Jobs -> Nat]
  /\ QueueTypes' => OwedOf' \in [Jobs -> Nat] /\ ParkedOf' \in [Jobs -> Nat]
<1>1. QueueTypes => OwedOf \in [Jobs -> Nat] /\ ParkedOf \in [Jobs -> Nat]
  BY Numbers DEF OwedOf, ParkedOf
<1>2. ASSUME QueueTypes' PROVE OwedOf' \in [Jobs -> Nat] /\ ParkedOf' \in [Jobs -> Nat]
  <2>1. main' \in Seq(Waiting) /\ processing' \in Seq(Waiting) /\ dead' \in Seq(Entry)
    BY <1>2 DEF QueueTypes
  <2>2. \A j : EntriesOf(main', j) \in Nat /\ EntriesOf(processing', j) \in Nat
               /\ EntriesOf(dead', j) \in Nat
    BY <2>1, PlacesFinite
  <2>3. \A j : Owed(j)' = EntriesOf(main', j) + EntriesOf(processing', j)
               /\ EntriesOf(dead, j)' = EntriesOf(dead', j)
    BY DEF Owed, EntriesOf
  <2>. QED
    BY <2>2, <2>3 DEF OwedOf, ParkedOf
<1>. QED
  BY <1>1, <1>2
\* One more entry of a job in the lists: it is owed once more.
LEMMA MoreOwed ==
  ASSUME NEW j \in Jobs, \A i \in Jobs : Owed(i)' = Owed(i) + IF i = j THEN 1 ELSE 0,
         QueueTypes, QueueTypes'
  PROVE  OwedOf' = [OwedOf EXCEPT ![j] = @ + 1]
<1>1. \A i \in Jobs : OwedOf'[i] = OwedOf[i] + IF i = j THEN 1 ELSE 0
  BY DEF OwedOf
<1>2. OwedOf \in [Jobs -> Nat] /\ OwedOf' \in [Jobs -> Nat]
  BY MapsTyped
<1>. QED
  BY <1>1, <1>2, OneMore
\* One entry less: it was owed, and is owed once less.
LEMMA LessOwed ==
  ASSUME NEW j \in Jobs, \A i \in Jobs : Owed(i) = Owed(i)' + IF i = j THEN 1 ELSE 0,
         QueueTypes, QueueTypes'
  PROVE  OwedOf' = [OwedOf EXCEPT ![j] = @ - 1] /\ OwedOf[j] > 0
<1>1. \A i \in Jobs : OwedOf[i] = OwedOf'[i] + IF i = j THEN 1 ELSE 0
  BY DEF OwedOf
<1>2. OwedOf \in [Jobs -> Nat] /\ OwedOf' \in [Jobs -> Nat]
  BY MapsTyped
<1>. QED
  BY <1>1, <1>2, OneMore
\* One more entry in the dead-letter list.
LEMMA MoreParked ==
  ASSUME NEW j \in Jobs, QueueTypes, QueueTypes',
         \A i \in Jobs : EntriesOf(dead, i)' = EntriesOf(dead, i) + IF i = j THEN 1 ELSE 0
  PROVE  ParkedOf' = [ParkedOf EXCEPT ![j] = @ + 1]
<1>1. \A i \in Jobs : ParkedOf'[i] = ParkedOf[i] + IF i = j THEN 1 ELSE 0
  BY DEF ParkedOf
<1>2. ParkedOf \in [Jobs -> Nat] /\ ParkedOf' \in [Jobs -> Nat]
  BY MapsTyped
<1>. QED
  BY <1>1, <1>2, OneMore
\* The four steps of JobDelivery, from what they change.
LEMMA AcceptMaps ==
  ASSUME NEW j \in Jobs, OwedOf' = [OwedOf EXCEPT ![j] = @ + 1], ParkedStays, SpareOf' = SpareOf
  PROVE  Delivery!Next
  BY StayMaps DEF OwedOf, ParkedOf, SpareOf, Delivery!Next, Delivery!Accept
\* The worker has a copy it may drop: the job is done, or stored elsewhere.
LEMMA ResolveMaps ==
  ASSUME NEW j \in Jobs, OwedStays, ParkedStays, OwedOf[j] > 0, SpareOf' = {j}
  PROVE  Delivery!Next
  BY StayMaps DEF OwedOf, ParkedOf, SpareOf, Delivery!Next, Delivery!Resolve
\* An entry is stored again, or parked.
LEMMA StoreMaps ==
  ASSUME NEW j \in Jobs, SpareOf' \in {{j}, {}},
         \/ OwedOf' = [OwedOf EXCEPT ![j] = @ + 1] /\ ParkedStays
         \/ ParkedOf' = [ParkedOf EXCEPT ![j] = @ + 1] /\ OwedStays
  PROVE  Delivery!Next
  BY StayMaps DEF OwedOf, ParkedOf, SpareOf, Delivery!Next, Delivery!Store
\* The copy is dropped.
LEMMA DropMaps ==
  ASSUME NEW j \in Jobs, SpareOf = {j}, OwedOf[j] > 0, OwedOf' = [OwedOf EXCEPT ![j] = @ - 1],
         ParkedStays, SpareOf' = {}
  PROVE  Delivery!Next
  BY StayMaps DEF OwedOf, ParkedOf, SpareOf, Delivery!Next, Delivery!Drop

\* What the changes of the lists do to the numbers.
LEMMA Primed ==
  \A i : /\ Owed(i)' = EntriesOf(main', i) + EntriesOf(processing', i)
         /\ EntriesOf(dead, i)' = EntriesOf(dead', i)
  BY DEF Owed, EntriesOf
\* A step that leaves the lists leaves the numbers.
LEMMA SameNumbers ==
  /\ main' = main /\ processing' = processing => OwedStays
  /\ dead' = dead => ParkedStays
  BY Primed DEF OwedStays, ParkedStays, Owed
\* The entries of a job in each list are a number.
LEMMA Counts ==
  ASSUME QueueTypes
  PROVE  \A i : /\ EntriesOf(main, i) \in Nat /\ EntriesOf(processing, i) \in Nat
                /\ EntriesOf(dead, i) \in Nat
  BY PlacesFinite DEF QueueTypes
\* An entry that is pushed, at either end, is one more of its job.
LEMMA AddedNumbers ==
  /\ \A s \in Seq(Waiting), e \in Waiting : \A i :
       /\ EntriesOf(Append(s, e), i) = EntriesOf(s, i) + Is(e, i)
       /\ EntriesOf(<<e>> \o s, i) = EntriesOf(s, i) + Is(e, i)
  /\ \A s \in Seq(Entry), e \in Entry : \A i : EntriesOf(Append(s, e), i) = EntriesOf(s, i) + Is(e, i)
<1>1. ASSUME NEW s \in Seq(Waiting), NEW e \in Waiting, NEW i
      PROVE  /\ EntriesOf(Append(s, e), i) = EntriesOf(s, i) + Is(e, i)
             /\ EntriesOf(<<e>> \o s, i) = EntriesOf(s, i) + Is(e, i)
  BY CountAppend
<1>2. ASSUME NEW s \in Seq(Entry), NEW e \in Entry, NEW i
      PROVE  /\ EntriesOf(Append(s, e), i) = EntriesOf(s, i) + Is(e, i)
             /\ EntriesOf(<<e>> \o s, i) = EntriesOf(s, i) + Is(e, i)
  BY CountAppend
<1>. QED
  BY <1>1, <1>2
\* LREM of the entry at work takes one entry of its job, or none.
LEMMA RemoveNumbers ==
  ASSUME QueueTypes, QueueTypes', RemoveItem
  PROVE  /\ ParkedStays
         /\ ~Contains(processing, item) => OwedStays
         /\ Contains(processing, item) =>
              /\ item.job \in Jobs /\ OwedOf' = [OwedOf EXCEPT ![item.job] = @ - 1]
              /\ OwedOf[item.job] > 0
<1>1. /\ main' = main /\ dead' = dead /\ processing' = RemoveFirst(processing, item)
      /\ processing \in Seq(Waiting)
  BY DEF RemoveItem, QueueTypes
<1>2. CASE ~Contains(processing, item)
  <2>1. processing' = processing
    BY <1>1, <1>2, CountRemove
  <2>. QED
    BY <1>1, <1>2, <2>1, SameNumbers
<1>3. CASE Contains(processing, item)
  <2>1. item \in Waiting /\ \A i : EntriesOf(processing, i) = EntriesOf(processing', i) + Is(item, i)
    BY <1>1, <1>3, CountRemove
  <2>2. processing' \in Seq(Waiting) /\ item.job \in Jobs
    BY <2>1, WaitingEntries DEF QueueTypes
  <2>3. \A i : EntriesOf(processing', i) \in Nat /\ EntriesOf(main, i) \in Nat
    BY <2>2, PlacesFinite DEF QueueTypes
  <2>4. \A i \in Jobs : Owed(i) = Owed(i)' + IF i = item.job THEN 1 ELSE 0
    BY <1>1, <2>1, <2>3, Primed DEF Owed, Is
  <2>5. OwedOf' = [OwedOf EXCEPT ![item.job] = @ - 1] /\ OwedOf[item.job] > 0
    BY <2>2, <2>4, LessOwed
  <2>. QED
    BY <1>1, <1>3, <2>2, <2>5, SameNumbers
<1>. QED
  BY <1>2, <1>3

\* The steps of the consumer that hold a copy nobody needs, and the run that makes it so.
LEMMA SettlingMaps ==
  ASSUME QueueInv, QueueTypes', Run \/ Acknowledge \/ AcknowledgeFailure
  PROVE  [Delivery!Next]_(Delivery!vars)
<1>1. QueueTypes /\ Held /\ Alive /\ item' = item /\ worker' = worker /\ (Alive' <=> Alive)
  BY DEF QueueInv, Run, Acknowledge, AcknowledgeFailure, At, Alive
<1>2. CASE Run
  <2>1. /\ pc = "run" /\ pc' \in {"ack", "fail"} /\ main' = main /\ processing' = processing
        /\ dead' = dead
    BY <1>2 DEF Run, At, lists
  <2>2. OwedStays /\ ParkedStays
    BY <2>1, SameNumbers
  <2>3. CASE pc' = "ack"
    <3>1. Contains(processing, item) /\ item \in Waiting /\ processing \in Seq(Waiting)
      BY <1>1, <2>1 DEF Held, QueueTypes
    <3>2. /\ EntriesOf(processing, item.job)
               = EntriesOf(RemoveFirst(processing, item), item.job) + Is(item, item.job)
          /\ RemoveFirst(processing, item) \in Seq(Waiting)
      BY <3>1, CountRemove
    <3>3. EntriesOf(RemoveFirst(processing, item), item.job) \in Nat
      BY <3>2, PlacesFinite
    <3>4. item.job \in Jobs /\ OwedOf[item.job] > 0
      BY <1>1, <3>1, <3>2, <3>3, WaitingEntries, Counts DEF OwedOf, Owed, Is
    <3>5. SpareOf' = {item.job}
      BY <1>1, <2>3 DEF SpareOf
    <3>. QED
      BY <2>2, <3>4, <3>5, ResolveMaps
  <2>4. CASE pc' = "fail"
    <3>1. SpareOf' = SpareOf
      BY <2>1, <2>4 DEF SpareOf
    <3>. QED
      BY <2>2, <3>1, StutterMaps
  <2>. QED
    BY <2>1, <2>3, <2>4
<1>3. CASE Acknowledge \/ AcknowledgeFailure
  <2>1. /\ pc \in {"ack", "failAck"} /\ pc' \in {"top", "fail", "return"}
        /\ RemoveItem \/ UNCHANGED lists
    BY <1>3, Commands DEF Acknowledge, AcknowledgeFailure, At, Steps
  <2>2. SpareOf = {item.job} /\ SpareOf' = {}
    BY <1>1, <2>1 DEF SpareOf
  <2>3. CASE UNCHANGED lists
    <3>1. OwedStays /\ ParkedStays
      BY <2>3, SameNumbers DEF lists
    <3>. QED
      BY <2>2, <3>1, ForgetMaps
  <2>4. CASE RemoveItem /\ Contains(processing, item)
    BY <1>1, <2>2, <2>4, RemoveNumbers, DropMaps
  <2>5. CASE RemoveItem /\ ~Contains(processing, item)
    BY <1>1, <2>2, <2>5, RemoveNumbers, ForgetMaps
  <2>. QED
    BY <2>1, <2>3, <2>4, <2>5
<1>. QED
  BY <1>2, <1>3

\* The steps that store a copy.
LEMMA StoringMaps ==
  ASSUME QueueInv, QueueTypes', Fail \/ Bury
  PROVE  [Delivery!Next]_(Delivery!vars)
<1>1. /\ QueueTypes /\ Alive /\ item' = item /\ worker' = worker /\ (Alive' <=> Alive)
      /\ pc \in {"fail", "bury"} /\ pc' \in {"failAck", "return"}
      /\ \/ PushRetry \/ PushGarbage
         \/ UNCHANGED lists /\ pc' = "return"
  BY Commands DEF QueueInv, Fail, Bury, At, Alive, Steps
<1>2. /\ item \in Waiting /\ item \in Entry /\ item.job \in Jobs
      /\ main \in Seq(Waiting) /\ dead \in Seq(Entry)
  BY <1>1, WaitingEntries DEF QueueTypes
<1>3. SpareOf = {} /\ SpareOf' \in {{item.job}, {}} /\ (pc' = "return" => SpareOf' = {})
  BY <1>1 DEF SpareOf
<1>4. CASE UNCHANGED lists /\ pc' = "return"
  <2>1. OwedStays /\ ParkedStays
    BY <1>4, SameNumbers DEF lists
  <2>. QED
    BY <1>3, <1>4, <2>1, StutterMaps
<1>5. CASE main' = Append(main, Retry) /\ Retry \in Waiting /\ processing' = processing /\ dead' = dead
  <2>1. \A i : EntriesOf(main', i) = EntriesOf(main, i) + Is(Retry, i)
    BY <1>2, <1>5, AddedNumbers
  <2>2. \A i \in Jobs : Owed(i)' = Owed(i) + IF i = item.job THEN 1 ELSE 0
    BY <1>1, <1>2, <1>5, <2>1, RetryIs, Counts, Primed DEF Owed, Is
  <2>3. OwedOf' = [OwedOf EXCEPT ![item.job] = @ + 1] /\ ParkedStays
    BY <1>1, <1>2, <1>5, <2>2, MoreOwed, SameNumbers
  <2>. QED
    BY <1>2, <1>3, <2>3, StoreMaps
<1>6. ASSUME NEW e \in Entry, e.job = item.job, dead' = Append(dead, e),
             main' = main, processing' = processing
      PROVE  [Delivery!Next]_(Delivery!vars)
  <2>1. \A i : EntriesOf(dead', i) = EntriesOf(dead, i) + Is(e, i)
    BY <1>2, <1>6, AddedNumbers
  <2>2. \A i \in Jobs : EntriesOf(dead, i)' = EntriesOf(dead, i) + IF i = item.job THEN 1 ELSE 0
    BY <1>6, <2>1, Primed DEF Is
  <2>3. ParkedOf' = [ParkedOf EXCEPT ![item.job] = @ + 1] /\ OwedStays
    BY <1>1, <1>2, <1>6, <2>2, MoreParked, SameNumbers
  <2>. QED
    BY <1>2, <1>3, <2>3, StoreMaps
<1>7. CASE PushRetry
  BY <1>2, <1>5, <1>6, <1>7, RetryIs DEF PushRetry
<1>8. CASE PushGarbage
  BY <1>2, <1>6, <1>8 DEF PushGarbage
<1>. QED
  BY <1>1, <1>4, <1>7, <1>8

\* The steps that move an entry between lists: it stays owed.
LEMMA MovingMaps ==
  ASSUME QueueInv, QueueTypes', Take \/ Return \/ Requeue
  PROVE  [Delivery!Next]_(Delivery!vars)
<1>1. QueueTypes /\ main \in Seq(Waiting) /\ processing \in Seq(Waiting)
  BY DEF QueueInv, QueueTypes
<1>2. SpareOf = {} /\ SpareOf' = {}
  BY <1>1, Commands
     DEF SpareOf, Take, Return, Requeue, At, Alive, Steps, QueueTypes
<1>3. dead' = dead
  BY Commands DEF Take, Return, Requeue, MoveHead, MoveBack, lists, Steps
<1>4. OwedStays
  <2>1. CASE Take
    <3>1. main # <<>> /\ main' = Tail(main) /\ processing' = Append(processing, Head(main))
      BY <2>1 DEF Take, MoveHead
    <3>2. /\ Head(main) \in Waiting /\ Tail(main) \in Seq(Waiting)
          /\ \A i : EntriesOf(main, i) = EntriesOf(main', i) + Is(Head(main), i)
      BY <1>1, <3>1, CountEnds
    <3>3. \A i : EntriesOf(processing', i) = EntriesOf(processing, i) + Is(Head(main), i)
      BY <1>1, <3>1, <3>2, AddedNumbers
    <3>4. \A i : EntriesOf(main', i) \in Nat
      BY <3>1, <3>2, PlacesFinite
    <3>. QED
      BY <1>1, <3>2, <3>3, <3>4, Counts, Primed DEF OwedStays, Owed, Is
  <2>2. CASE Return
    <3>1. UNCHANGED lists \/ MoveBack
      BY <2>2, Commands DEF Return, Steps
    <3>2. CASE main' = main /\ processing' = processing
      BY <3>2, SameNumbers
    <3>3. CASE /\ Contains(processing, item) /\ processing' = RemoveFirst(processing, item)
               /\ main' = <<item>> \o main
      <4>1. /\ item \in Waiting /\ processing' \in Seq(Waiting)
            /\ \A i : EntriesOf(processing, i) = EntriesOf(processing', i) + Is(item, i)
        BY <1>1, <3>3, CountRemove
      <4>2. \A i : EntriesOf(main', i) = EntriesOf(main, i) + Is(item, i)
        BY <1>1, <3>3, <4>1, AddedNumbers
      <4>3. \A i : EntriesOf(processing', i) \in Nat
        BY <4>1, PlacesFinite
      <4>. QED
        BY <1>1, <4>1, <4>2, <4>3, Counts, Primed DEF OwedStays, Owed, Is
    <3>. QED
      BY <3>1, <3>2, <3>3 DEF MoveBack, lists
  <2>3. CASE Requeue
    <3>1. /\ processing # <<>> /\ main' = <<Last(processing)>> \o main
          /\ processing' = Front(processing)
      BY <2>3 DEF Requeue
    <3>2. /\ Last(processing) \in Waiting /\ Front(processing) \in Seq(Waiting)
          /\ \A i : EntriesOf(processing, i) = EntriesOf(processing', i) + Is(Last(processing), i)
      BY <1>1, <3>1, CountEnds
    <3>3. \A i : EntriesOf(main', i) = EntriesOf(main, i) + Is(Last(processing), i)
      BY <1>1, <3>1, <3>2, AddedNumbers
    <3>4. \A i : EntriesOf(processing', i) \in Nat
      BY <3>1, <3>2, PlacesFinite
    <3>. QED
      BY <1>1, <3>2, <3>3, <3>4, Counts, Primed DEF OwedStays, Owed, Is
  <2>. QED
    BY <2>1, <2>2, <2>3
<1>. QED
  BY <1>2, <1>3, <1>4, SameNumbers, StutterMaps

\* A new entry is accepted; the other steps leave the lists alone.
LEMMA OtherMaps ==
  ASSUME QueueInv, QueueTypes',
         \/ \E j \in Jobs, t \in Stamps : Push(j, t)
         \/ Poll \/ PollEnds \/ Stop \/ Down \/ Boot \/ Ready \/ UNCHANGED vars
  PROVE  [Delivery!Next]_(Delivery!vars)
<1>1. QueueTypes /\ main \in Seq(Waiting)
  BY DEF QueueInv, QueueTypes
<1>2. ASSUME NEW j \in Jobs, NEW t \in Stamps, Push(j, t)
      PROVE  [Delivery!Next]_(Delivery!vars)
  <2>. DEFINE e == [job |-> j, at |-> t, attempts |-> 0]
  <2>1. /\ main' = Append(main, e) /\ processing' = processing /\ dead' = dead
        /\ SpareOf' = SpareOf
    BY <1>2 DEF Push, SpareOf, Alive
  <2>2. e \in Waiting /\ e.job = j
    BY WaitingEntries
  <2>. HIDE DEF e
  <2>3. \A i : EntriesOf(main', i) = EntriesOf(main, i) + Is(e, i)
    BY <1>1, <2>1, <2>2, AddedNumbers
  <2>4. \A i \in Jobs : Owed(i)' = Owed(i) + IF i = j THEN 1 ELSE 0
    BY <1>1, <2>1, <2>2, <2>3, Counts, Primed DEF Owed, Is
  <2>5. OwedOf' = [OwedOf EXCEPT ![j] = @ + 1] /\ ParkedStays
    BY <1>1, <2>1, <2>4, MoreOwed, SameNumbers
  <2>. QED
    BY <2>1, <2>5, AcceptMaps
<1>3. CASE Poll \/ PollEnds \/ Stop \/ Down \/ Boot \/ Ready \/ UNCHANGED vars
  <2>1. OwedStays /\ ParkedStays
    BY <1>3, SameNumbers DEF Poll, PollEnds, Stop, Down, Boot, Ready, lists, vars
  <2>2. SpareOf' = SpareOf \/ SpareOf' = {}
    BY <1>1, <1>3
       DEF Poll, PollEnds, Stop, Down, Boot, Ready, vars, SpareOf, At, Alive, QueueTypes
  <2>. QED
    BY <2>1, <2>2, StutterMaps, ForgetMaps
<1>. QED
  BY <1>2, <1>3

\* The lists keep the promise of JobDelivery: a copy of an entry is given up only after its
\* run resolved or another copy was stored, whatever crashes and commands fail.
THEOREM DeliveryPromiseHolds == Spec => DeliveryPromise
<1>1. Init => Delivery!Init
  <2>. SUFFICES ASSUME Init PROVE Delivery!Init
    OBVIOUS
  <2>1. \A j : EntriesOf(main, j) = 0 /\ EntriesOf(processing, j) = 0 /\ EntriesOf(dead, j) = 0
    BY CountNone DEF Init
  <2>2. [j \in Jobs |-> Owed(j)] = [j \in Jobs |-> 0]
    BY <2>1 DEF Owed
  <2>3. [j \in Jobs |-> EntriesOf(dead, j)] = [j \in Jobs |-> 0]
    BY <2>1
  <2>4. ~Alive
    BY DEF Init, Alive
  <2>. QED
    BY <2>2, <2>3, <2>4 DEF Delivery!Init
<1>2. QueueInv /\ QueueInv' /\ [Next]_vars => [Delivery!Next]_(Delivery!vars)
  <2>. SUFFICES ASSUME QueueInv, QueueInv', [Next]_vars
                PROVE  [Delivery!Next]_(Delivery!vars)
    OBVIOUS
  <2>1. QueueTypes'
    BY DEF QueueInv
  <2>2. \/ Run \/ Acknowledge \/ AcknowledgeFailure \/ Fail \/ Bury \/ Take \/ Return \/ Requeue
        \/ \E j \in Jobs, t \in Stamps : Push(j, t)
        \/ Poll \/ PollEnds \/ Stop \/ Down \/ Boot \/ Ready \/ UNCHANGED vars
    BY DEF Next, ConsumerStep
  <2>. QED
    BY <2>1, <2>2, SettlingMaps, StoringMaps, MovingMaps, OtherMaps
<1>. QED
  BY <1>1, <1>2, QueueTypesHold, PTL DEF Spec, DeliveryPromise, Delivery!Spec

-----------------------------------------------------------------------------
(* The strengthened invariant.                                             *)

AllEvents ==
  {Chunk(i) : i \in 1..MaxChunks} \cup {Status(s) : s \in {"pending", "running", "failed"}}
    \cup {Ended(s) : s \in Terminal} \cup {Note}
Output == Seq(1..MaxChunks)
Column == {s \in Output : Len(s) <= MaxOutput}
RunPcs == {"cli", "stopping", "exit", "final", "again", "gate", "over"}
RunState ==
  [pc : RunPcs, n : 0..MaxChunks, buf : Column, cut : BOOLEAN, writes : Output,
   result : Terminal, by : Procs, notices : SUBSET [by : Procs, event : AllEvents]]
HubState == [pc : {"idle", "insert", "deliver"}, seq : Nat, tries : 0..(MaxTries - 1)]

\* What the run and the two hubs hold, and the log: contiguous from 1.
RowState == [status : {"pending", "running"} \cup Terminal, out : Column]
RunTypes == home \in Procs /\ run \in RunState /\ row \in RowState
HubTypes ==
  post \in [Procs -> Seq(AllEvents)] /\ at \in [Procs -> HubState] /\ log \in Seq(AllEvents)

\* A hub at work has an event to store; the number it has read is stored already, by the
\* other process, or it is the next one.
Numbered ==
  \A p \in Procs : /\ at[p].pc # "idle" => post[p] # <<>>
                   /\ at[p].pc = "insert" => at[p].seq \in 1..(Len(log) + 1)
StreamInv == RunTypes /\ HubTypes /\ Numbered

-----------------------------------------------------------------------------
(* Lists.                                                                  *)

\* A list that another event joins.
LEMMA AppendFacts ==
  ASSUME NEW R, NEW s \in Seq(R), NEW e \in R
  PROVE  /\ Append(s, e) \in Seq(R) /\ Append(s, e) # <<>>
         /\ s # <<>> => Tail(Append(s, e)) = Append(Tail(s), e)
  BY AppendProperties, HeadTailAppend

\* A list of events loses its first one.
LEMMA TailFacts ==
  ASSUME NEW R, NEW s \in Seq(R), s # <<>>
  PROVE  /\ Head(s) \in R /\ Tail(s) \in Seq(R) /\ Len(s) \in Nat /\ Len(s) > 0
  BY EmptySeq

\* Writing the next number of a log is appending to it.
LEMMA NextNumber ==
  ASSUME NEW R, NEW s \in Seq(R), NEW e \in R, NEW k \in 1..(Len(s) + 1), k \notin DOMAIN s
  PROVE  [i \in DOMAIN s \cup {k} |-> IF i = k THEN e ELSE s[i]] = Append(s, e)
<1>1. Len(s) \in Nat /\ DOMAIN s = 1..Len(s)
  OBVIOUS
<1>2. k = Len(s) + 1
  BY <1>1
<1>3. DOMAIN s \cup {k} = 1..(Len(s) + 1)
  BY <1>1, <1>2
<1>. DEFINE t == [i \in 1..(Len(s) + 1) |-> IF i = Len(s) + 1 THEN e ELSE s[i]]
<1>4. t \in Seq(R) /\ Len(t) = Len(s) + 1 /\ Append(s, e) \in Seq(R) /\ Len(Append(s, e)) = Len(s) + 1
  <2>1. \A i \in 1..(Len(s) + 1) : t[i] \in R
    BY <1>1
  <2>. QED
    BY <1>1, <2>1
<1>5. \A i \in 1..Len(t) : t[i] = Append(s, e)[i]
  BY <1>1, <1>4
<1>6. t = Append(s, e)
  BY <1>4, <1>5, SeqEqual
<1>. QED
  BY <1>2, <1>3, <1>6

-----------------------------------------------------------------------------
(* The run: it stays a run, and publishes events one at a time.            *)

Posting == \E p \in Procs, e \in AllEvents : Posted(p, e)
RunMoves == RunTypes' /\ (post' = post \/ Posting)

\* A chunk, and its way into the column.
LEMMA EmitMoves ==
  ASSUME StreamInv, Emit
  PROVE  RunMoves
<1>1. run.n + 1 \in 1..MaxChunks /\ run.writes \in Output /\ home \in Procs
  BY StreamAssumption DEF StreamInv, RunTypes, RunState, Emit
<1>. DEFINE n == run.n + 1
            w == IF run.cut THEN run.writes ELSE Append(run.writes, run.n + 1)
<1>4. Append(run.writes, run.n + 1) \in Output
  BY <1>1, AppendFacts DEF Output
<1>2. n \in 0..MaxChunks /\ w \in Output
  BY <1>1, <1>4
<1>5. run' = [run EXCEPT !.n = n, !.writes = w] /\ UNCHANGED <<home, row>>
  BY DEF Emit
<1>. HIDE DEF n, w
<1>3. RunTypes'
  BY <1>2, <1>5 DEF StreamInv, RunTypes, RunState
<1>6. Chunk(run.n + 1) \in AllEvents
  BY <1>1 DEF AllEvents
<1>. QED
  BY <1>1, <1>3, <1>6 DEF RunMoves, Posting, Emit
\* A write of the CLI goes to the output until that is full.
LEMMA WriteOutputMoves ==
  ASSUME StreamInv, WriteOutput
  PROVE  RunMoves
<1>. DEFINE full == run.cut \/ Len(run.buf) >= MaxOutput
            buf == IF full THEN run.buf ELSE Append(run.buf, Head(run.writes))
<1>1. run.writes \in Output /\ run.writes # <<>> /\ run.buf \in Column
  BY DEF StreamInv, RunTypes, RunState, WriteOutput
<1>2. Head(run.writes) \in 1..MaxChunks /\ Tail(run.writes) \in Output
  BY <1>1, TailFacts DEF Output
<1>3. buf \in Column
  <2>1. CASE full
    BY <1>1, <2>1
  <2>2. CASE ~full
    <3>. DEFINE x == Append(run.buf, Head(run.writes))
    <3>1. x \in Output /\ Len(x) = Len(run.buf) + 1
      BY <1>1, <1>2, AppendProperties DEF Output, Column
    <3>2. Len(run.buf) \in Nat /\ Len(run.buf) < MaxOutput
      BY <1>1, <2>2, StreamAssumption DEF Output, Column
    <3>3. x \in Column
      BY <3>1, <3>2, StreamAssumption DEF Column
    <3>. QED
      BY <2>2, <3>3
  <2>. QED
    BY <2>1, <2>2
<1>4. full \in BOOLEAN
  BY DEF StreamInv, RunTypes, RunState
<1>5. /\ run' = [run EXCEPT !.writes = Tail(@), !.buf = buf, !.cut = full]
      /\ row' \in {row, [row EXCEPT !.out = buf]} /\ UNCHANGED <<home, post>>
  BY DEF WriteOutput, hub
<1>. HIDE DEF full, buf
<1>6. run' \in RunState
  BY <1>2, <1>3, <1>4, <1>5 DEF StreamInv, RunTypes, RunState
<1>7. row' \in RowState
  BY <1>3, <1>5 DEF StreamInv, RunTypes, RowState
<1>. QED
  BY <1>5, <1>6, <1>7 DEF RunMoves, StreamInv, RunTypes

\* The end of a run.
LEMMA ExitMoves ==
  ASSUME StreamInv, Timeout \/ Exit \/ WriteStatus \/ Resolve
  PROVE  RunMoves
<1>. USE DEF StreamInv, RunTypes
<1>1. CASE Timeout
  <2>1. run' = [run EXCEPT !.pc = "stopping"] /\ UNCHANGED <<home, row>>
        /\ Posted(home, Status("failed"))
    BY <1>1 DEF Timeout
  <2>2. Status("failed") \in AllEvents
    BY DEF AllEvents
  <2>. QED
    BY <2>1, <2>2 DEF RunMoves, Posting, RunState, RunPcs
<1>2. CASE Exit
  <2>1. \E s \in Terminal : run' = [run EXCEPT !.pc = "exit", !.result = s]
    BY <1>2 DEF Exit, Terminal
  <2>. QED
    BY <1>2, <2>1 DEF RunMoves, Exit, RunState, RunPcs, hub
<1>3. CASE WriteStatus
  <2>1. row' \in RowState
    BY <1>3 DEF WriteStatus, RowState, RunState
  <2>. QED
    BY <1>3, <2>1 DEF RunMoves, WriteStatus, RunState, RunPcs, hub
<1>4. CASE Resolve
  <2>1. \E p \in Procs : run' = [run EXCEPT !.pc = "final", !.by = p]
    BY <1>4 DEF Resolve, Procs
  <2>. QED
    BY <1>4, <2>1 DEF RunMoves, Resolve, RunState, RunPcs, hub
<1>. QED
  BY <1>1, <1>2, <1>3, <1>4

\* After a run: its result, another one, or the review.
LEMMA FinalMoves ==
  ASSUME StreamInv, Finalize \/ PublishNotice
  PROVE  RunMoves
<1>. USE DEF StreamInv, RunTypes
<1>1. CASE Finalize
  <2>1. PICK s \in Terminal : row' = [row EXCEPT !.status = s] /\ Posted(run.by, Ended(s))
    BY <1>1 DEF Finalize
  <2>2. Ended(s) \in AllEvents /\ run.by \in Procs
    BY DEF AllEvents, RunState
  <2>. QED
    BY <1>1, <2>1, <2>2 DEF RunMoves, Posting, Finalize, RunState, RunPcs, RowState
<1>2. CASE PublishNotice
  <2>1. PICK x \in run.notices : run' = [run EXCEPT !.notices = @ \ {x}] /\ Posted(x.by, x.event)
    BY <1>2 DEF PublishNotice
  <2>2. x.by \in Procs /\ x.event \in AllEvents
    BY DEF RunState
  <2>. QED
    BY <1>2, <2>1, <2>2 DEF RunMoves, Posting, PublishNotice, RunState
<1>. QED
  BY <1>1, <1>2
\* The run starts over: a retry, a restart, the review gate.
LEMMA AgainMoves ==
  ASSUME StreamInv, RetryNoDiff \/ Restart \/ StartGate
  PROVE  RunMoves
<1>. USE DEF StreamInv, RunTypes
<1>1. \A e \in AllEvents : Noticed(e) \in SUBSET [by : Procs, event : AllEvents]
  BY DEF Noticed, RunState
<1>2. Status("pending") \in AllEvents /\ Status("running") \in AllEvents /\ Note \in AllEvents
  BY DEF AllEvents
<1>3. <<>> \in Column
  BY EmptySeq, StreamAssumption DEF Output, Column
<1>4. CASE RetryNoDiff
  <2>. DEFINE notices == Noticed(Status("pending"))
  <2>1. run' = [run EXCEPT !.pc = "again", !.notices = notices] /\ UNCHANGED <<home, post>>
        /\ row' = [status |-> "pending", out |-> <<>>]
    BY <1>4 DEF RetryNoDiff, hub
  <2>2. notices \in SUBSET [by : Procs, event : AllEvents]
    BY <1>1, <1>2
  <2>. HIDE DEF notices
  <2>. QED
    BY <1>3, <2>1, <2>2 DEF RunMoves, RunState, RunPcs, RowState
<1>5. CASE Restart
  <2>1. run' = [run EXCEPT !.pc = "cli", !.buf = row.out, !.cut = FALSE] /\ UNCHANGED home
        /\ row' = [row EXCEPT !.status = "running"] /\ Posted(home, Status("running"))
    BY <1>5 DEF Restart
  <2>2. row.out \in Column
    BY DEF RowState
  <2>. QED
    BY <1>2, <2>1, <2>2 DEF RunMoves, Posting, RunState, RunPcs, RowState
<1>6. CASE StartGate
  <2>. DEFINE notices == Noticed(Note)
  <2>1. run' = [run EXCEPT !.pc = "gate", !.notices = notices] /\ UNCHANGED <<home, post>>
        /\ row' = [row EXCEPT !.status = "running"]
    BY <1>6 DEF StartGate, hub
  <2>2. notices \in SUBSET [by : Procs, event : AllEvents]
    BY <1>1, <1>2
  <2>. HIDE DEF notices
  <2>. QED
    BY <2>1, <2>2 DEF RunMoves, RunState, RunPcs, RowState
<1>. QED
  BY <1>4, <1>5, <1>6

-----------------------------------------------------------------------------
(* The hubs.                                                               *)

\* What each process has published and not stored.
Unstored == [p \in Procs |-> IF at[p].pc = "deliver" THEN Tail(post[p]) ELSE post[p]]

\* A step that publishes an event leaves the hubs in order, and is EventLog's Publish.
LEMMA PostingMaps ==
  ASSUME HubTypes, Numbered, Posting, UNCHANGED <<at, log>>
  PROVE  HubTypes' /\ Numbered' /\ Log!Next
<1>1. PICK p \in Procs, e \in AllEvents : Posted(p, e)
  BY DEF Posting
<1>2. post' = [post EXCEPT ![p] = Append(post[p], e)] /\ post[p] \in Seq(AllEvents)
  BY <1>1 DEF Posted, HubTypes
<1>3. /\ Append(post[p], e) \in Seq(AllEvents) /\ Append(post[p], e) # <<>>
      /\ post[p] # <<>> => Tail(Append(post[p], e)) = Append(Tail(post[p]), e)
  BY <1>2, AppendFacts
<1>4. HubTypes' /\ Numbered'
  BY <1>2, <1>3 DEF HubTypes, Numbered
<1>5. Unstored' = [Unstored EXCEPT ![p] = Append(Unstored[p], e)]
  <2>1. ASSUME NEW q \in Procs
        PROVE  Unstored'[q] = IF q = p THEN Append(Unstored[p], e) ELSE Unstored[q]
    BY <1>2, <1>3 DEF Unstored, Numbered, HubTypes
  <2>. QED
    BY <2>1 DEF Unstored
<1>6. Log!Publish(p)
  BY <1>5 DEF Unstored, Log!Publish, AllEvents
<1>. QED
  BY <1>4, <1>6 DEF Log!Next

\* A hub gives up the event it is at.
LEMMA DroppedMaps ==
  ASSUME HubTypes, Numbered, NEW p \in Procs, at[p].pc = "insert", Dropped(p), UNCHANGED log
  PROVE  HubTypes' /\ Numbered' /\ Log!Next
<1>1. post[p] \in Seq(AllEvents) /\ post[p] # <<>>
  BY DEF HubTypes, Numbered
<1>2. Tail(post[p]) \in Seq(AllEvents)
  BY <1>1, TailFacts
<1>3. post' = [post EXCEPT ![p] = Tail(post[p])] /\ at' = [at EXCEPT ![p] = Idle]
  BY DEF Dropped
<1>4. Idle \in HubState /\ Idle.pc = "idle"
  BY StreamAssumption DEF Idle, HubState
<1>5. HubTypes' /\ Numbered'
  BY <1>2, <1>3, <1>4 DEF HubTypes, Numbered
<1>6. Unstored' = [Unstored EXCEPT ![p] = Tail(Unstored[p])] /\ Unstored[p] # <<>>
  BY <1>1, <1>3, <1>4 DEF Unstored, HubTypes
<1>7. Log!GiveUp(p)
  BY <1>6 DEF Unstored, Log!GiveUp
<1>. QED
  BY <1>5, <1>7 DEF Log!Next

\* The other steps of a hub.
LEMMA ReadLastMaps ==
  ASSUME HubTypes, Numbered, NEW p \in Procs, ReadLast(p)
  PROVE  HubTypes' /\ Numbered' /\ UNCHANGED <<Unstored, log>>
<1>. DEFINE n == Len(log) + 1
            x == [at[p] EXCEPT !.pc = "insert", !.seq = n]
<1>1. at' = [at EXCEPT ![p] = x] /\ UNCHANGED <<post, log>> /\ at[p].pc = "idle" /\ post[p] # <<>>
  BY DEF ReadLast, LastSequence, HubTypes
<1>2. n \in Nat /\ n \in 1..(Len(log) + 1)
  BY DEF HubTypes
<1>3. x \in HubState /\ x.pc = "insert" /\ x.seq = n
  BY <1>2 DEF HubTypes, HubState
<1>. HIDE DEF x, n
<1>4. HubTypes' /\ Numbered'
  BY <1>1, <1>2, <1>3 DEF HubTypes, Numbered
<1>5. Unstored' = Unstored
  BY <1>1, <1>3 DEF Unstored, HubTypes
<1>. QED
  BY <1>1, <1>4, <1>5
\* An event is appended to the log with the next number, or its number is taken.
LEMMA InsertMaps ==
  ASSUME HubTypes, Numbered, NEW p \in Procs, Insert(p)
  PROVE  HubTypes' /\ Numbered' /\ [Log!Next]_<<Unstored, log>>
<1>1. /\ at[p].pc = "insert" /\ at[p] \in HubState /\ post[p] \in Seq(AllEvents) /\ post[p] # <<>>
      /\ log \in Seq(AllEvents) /\ at[p].seq \in 1..(Len(log) + 1)
  BY DEF Insert, HubTypes, Numbered
<1>2. CASE at[p].seq \in DOMAIN log /\ LastTry(at[p].tries)
  BY <1>1, <1>2, DroppedMaps DEF Insert, Conflict
<1>3. CASE at[p].seq \in DOMAIN log /\ ~LastTry(at[p].tries)
  <2>. DEFINE x == [pc |-> "idle", seq |-> 0, tries |-> at[p].tries + 1]
  <2>1. at' = [at EXCEPT ![p] = x] /\ UNCHANGED <<post, log>>
    BY <1>3 DEF Insert, Conflict
  <2>2. x \in HubState /\ x.pc = "idle"
    BY <1>1, <1>3, StreamAssumption DEF HubState, LastTry
  <2>. HIDE DEF x
  <2>3. HubTypes' /\ Numbered'
    BY <2>1, <2>2 DEF HubTypes, Numbered
  <2>4. Unstored' = Unstored
    BY <1>1, <2>1, <2>2 DEF Unstored, HubTypes
  <2>. QED
    BY <2>1, <2>3, <2>4
<1>4. CASE at[p].seq \notin DOMAIN log
  <2>. DEFINE e == Head(post[p])
              x == [at[p] EXCEPT !.pc = "deliver"]
  <2>1. /\ at' = [at EXCEPT ![p] = x] /\ UNCHANGED post
        /\ log' = [i \in DOMAIN log \cup {at[p].seq} |-> IF i = at[p].seq THEN e ELSE log[i]]
    BY <1>4 DEF Insert, First, HubTypes
  <2>2. e \in AllEvents /\ Tail(post[p]) \in Seq(AllEvents)
    BY <1>1, TailFacts
  <2>3. x \in HubState /\ x.pc = "deliver"
    BY <1>1 DEF HubState
  <2>. HIDE DEF e, x
  <2>4. log' = Append(log, e)
    BY <1>1, <1>4, <2>1, <2>2, NextNumber
  <2>5. log' \in Seq(AllEvents) /\ Len(log') = Len(log) + 1
    BY <1>1, <2>2, <2>4, AppendProperties
  <2>6. HubTypes' /\ Numbered'
    BY <1>1, <2>1, <2>3, <2>5 DEF HubTypes, Numbered
  <2>7. Unstored' = [Unstored EXCEPT ![p] = Tail(Unstored[p])] /\ Unstored[p] = post[p]
    BY <1>1, <2>1, <2>3 DEF Unstored, HubTypes
  <2>8. Log!Store(p)
    BY <1>1, <2>4, <2>7 DEF Unstored, Log!Store, e
  <2>. QED
    BY <2>6, <2>8 DEF Log!Next
<1>. QED
  BY <1>2, <1>3, <1>4
\* What is delivered was stored: nothing of the log changes.
LEMMA DeliverMaps ==
  ASSUME HubTypes, Numbered, NEW p \in Procs, Deliver(p)
  PROVE  HubTypes' /\ Numbered' /\ UNCHANGED <<Unstored, log>>
<1>1. post[p] \in Seq(AllEvents) /\ post[p] # <<>> /\ at[p].pc = "deliver"
  BY DEF HubTypes, Numbered, Deliver
<1>2. Tail(post[p]) \in Seq(AllEvents)
  BY <1>1, TailFacts
<1>3. post' = [post EXCEPT ![p] = Tail(post[p])] /\ at' = [at EXCEPT ![p] = Idle] /\ log' = log
  BY DEF Deliver
<1>4. Idle \in HubState /\ Idle.pc = "idle"
  BY StreamAssumption DEF Idle, HubState
<1>5. HubTypes' /\ Numbered'
  BY <1>2, <1>3, <1>4 DEF HubTypes, Numbered
<1>6. Unstored' = Unstored
  BY <1>1, <1>3, <1>4 DEF Unstored, HubTypes
<1>. QED
  BY <1>3, <1>5, <1>6
\* The retention removes the log when nobody has anything to store.
LEMMA CleanupMaps ==
  ASSUME HubTypes, Numbered, Cleanup
  PROVE  HubTypes' /\ Numbered' /\ Log!Next
<1>1. UNCHANGED <<post, at>> /\ log' = <<>> /\ \A p \in Procs : post[p] = <<>>
  BY DEF Cleanup, Still
<1>2. \A p \in Procs : at[p].pc = "idle" /\ at[p] \in HubState
  BY <1>1 DEF Numbered, HubTypes, HubState
<1>3. HubTypes' /\ Numbered'
  BY <1>1, <1>2, EmptySeq DEF HubTypes, Numbered
<1>4. Log!Expire
  BY <1>1, <1>2 DEF Log!Expire
<1>. QED
  BY <1>3, <1>4 DEF Log!Next

-----------------------------------------------------------------------------
(* The theorems.                                                           *)

\* A browser changes nothing but its own view.
BrowserStep ==
  \E c \in Clients : RequestStep(c) \/ Open(c) \/ Resume(c) \/ Leave(c) \/ FallBack(c) \/ PollStatus(c)
\* The browser changes nothing of the server.
LEMMA BrowserLeaves ==
  ASSUME BrowserStep
  PROVE  UNCHANGED <<home, row, run, post, at, log>>
  BY DEF BrowserStep, RequestStep, Open, Resume, Leave, FallBack, PollStatus, Connect, ReadReplay,
         ReadUpto, Subscribe, hub

\* The steps of the run leave the hubs at what they were at.
RunStep == Emit \/ Timeout \/ Exit \/ Resolve \/ HandlerStep
\* The run changes nothing of the log or of an insertion under way.
LEMMA RunLeaves ==
  ASSUME RunStep
  PROVE  UNCHANGED <<at, log>>
  BY DEF RunStep, HandlerStep, Emit, Timeout, Exit, Resolve, WriteOutput, WriteStatus, Finalize,
         RetryNoDiff, PublishNotice, Restart, StartGate, hub

\* Every step keeps the invariant, and is a step of EventLog or none.
LEMMA StreamStep ==
  ASSUME StreamInv, [StreamNext]_streamvars
  PROVE  StreamInv' /\ [Log!Next]_<<Unstored, log>>
<1>1. CASE RunStep
  <2>1. RunMoves
    BY <1>1, EmitMoves, WriteOutputMoves, ExitMoves, FinalMoves, AgainMoves
    DEF RunStep, HandlerStep
  <2>2. CASE Posting
    BY <1>1, <2>1, <2>2, RunLeaves, PostingMaps DEF StreamInv, RunMoves
  <2>3. CASE post' = post
    BY <1>1, <2>1, <2>3, RunLeaves DEF StreamInv, RunMoves, HubTypes, Numbered, Unstored
  <2>. QED
    BY <2>1, <2>2, <2>3 DEF RunMoves
<1>2. ASSUME NEW p \in Procs, HubStep(p)
      PROVE  StreamInv' /\ [Log!Next]_<<Unstored, log>>
  <2>1. UNCHANGED <<home, row, run>>
    BY <1>2 DEF HubStep, ReadLast, Insert, AppendFails, Deliver
  <2>2. RunTypes'
    BY <2>1 DEF StreamInv, RunTypes
  <2>3. CASE AppendFails(p)
    BY <2>2, <2>3, DroppedMaps DEF StreamInv, AppendFails
  <2>. QED
    BY <1>2, <2>2, <2>3, ReadLastMaps, InsertMaps, DeliverMaps DEF StreamInv, HubStep
<1>3. CASE BrowserStep \/ UNCHANGED streamvars
  <2>1. UNCHANGED <<home, row, run, post, at, log>>
    BY <1>3, BrowserLeaves DEF streamvars
  <2>. QED
    BY <2>1 DEF StreamInv, RunTypes, HubTypes, Numbered, Unstored
<1>4. CASE Cleanup
  <2>1. <<>> \in Column
    BY EmptySeq, StreamAssumption DEF Output, Column
  <2>2. RunTypes'
    BY <1>4, <2>1 DEF StreamInv, RunTypes, RowState, Cleanup
  <2>. QED
    BY <1>4, <2>2, CleanupMaps DEF StreamInv
<1>. QED
  BY <1>1, <1>2, <1>3, <1>4 DEF StreamNext, RunStep, BrowserStep

\* Initially.
LEMMA StreamInitially ==
  ASSUME StreamInit
  PROVE  StreamInv /\ Log!Init
<1>1. <<>> \in Column /\ <<>> \in Output /\ <<>> \in Seq(AllEvents) /\ Len(<<>>) = 0
  BY EmptySeq, StreamAssumption DEF Output, Column
<1>2. Idle \in HubState /\ Idle.pc = "idle"
  BY StreamAssumption DEF Idle, HubState
<1>3. home \in Procs
  BY StreamAssumption DEF StreamInit
<1>4. run \in RunState /\ row \in RowState
  BY <1>1, <1>3, StreamAssumption DEF StreamInit, RunState, RunPcs, RowState, Terminal
<1>5. /\ post = [p \in Procs |-> <<>>] /\ at = [p \in Procs |-> Idle] /\ log = <<>>
  BY DEF StreamInit
<1>6. HubTypes /\ Numbered
  BY <1>1, <1>2, <1>5 DEF HubTypes, Numbered
<1>7. Log!Init
  BY <1>2, <1>5 DEF Log!Init
<1>. QED
  BY <1>3, <1>4, <1>6, <1>7 DEF StreamInv, RunTypes

\* What a run, the hubs and the log hold is what the code can put there: the output column
\* never outgrows outputMaxBytes, in any run, retry or review, and the number a hub is to
\* insert next is taken by the other process or is the one after the last.
THEOREM StreamTypesHold == StreamSpec => []StreamInv
<1>1. StreamInit => StreamInv
  BY StreamInitially
<1>2. StreamInv /\ [StreamNext]_streamvars => StreamInv'
  BY StreamStep
<1>. QED
  BY <1>1, <1>2, PTL DEF StreamSpec

\* The events of an execution are stored once each, in the order each process published
\* them, under contiguous numbers.
THEOREM EventLogPromiseHolds == StreamSpec => EventLogPromise
<1>1. StreamInit => Log!Init
  BY StreamInitially
<1>2. StreamInv /\ [StreamNext]_streamvars => [Log!Next]_<<Unstored, log>>
  BY StreamStep
<1>3. Unstored = [p \in Procs |-> IF at[p].pc = "deliver" THEN Tail(post[p]) ELSE post[p]]
  BY DEF Unstored
<1>. QED
  BY <1>1, <1>2, <1>3, StreamTypesHold, PTL DEF StreamSpec, EventLogPromise, Log!Spec, Unstored
=============================================================================
