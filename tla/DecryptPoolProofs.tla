-------------------------- MODULE DecryptPoolProofs --------------------------
(* Theorems about DecryptPool, for every value of its constants. *)
EXTENDS DecryptPool, SequenceTheorems, FiniteSetTheorems, TLAPS

---------------------------------------------------------------------------
(* The lists of the state. *)

\* What the types say of the lists, in terms of positions.
LEMMA ListTypes ==
    ASSUME PoolAssumption, TypeOK
    PROVE  /\ Len(batch) \in Nat /\ DOMAIN batch = 1..Len(batch)
           /\ next \in Nat
           /\ Len(at) \in Nat /\ DOMAIN at = Sent /\ at \in [Sent -> DOMAIN batch]
           /\ taken \in Nat /\ taken <= Len(at)
           /\ Len(results) \in Nat /\ DOMAIN results = 1..Len(results)
           /\ results \in [1..Len(results) -> Sent]
  <1>1. Len(batch) \in Nat /\ DOMAIN batch = 1..Len(batch)
    BY LenProperties DEF PoolAssumption, TypeOK
  <1>2. Len(at) \in Nat /\ DOMAIN at = 1..Len(at) /\ at \in [1..Len(at) -> DOMAIN batch]
    BY LenProperties DEF TypeOK
  <1>3. /\ Len(results) \in Nat /\ DOMAIN results = 1..Len(results)
        /\ results \in [1..Len(results) -> Sent]
    BY LenProperties DEF TypeOK
  <1>4. QED
    BY <1>1, <1>2, <1>3 DEF TypeOK, Sent

\* The number of undeleted items is a natural number, and 0 if there is none.
LEMMA CountType ==
    ASSUME PoolAssumption, TypeOK
    PROVE  nonDeletedCount \in Nat /\ (nonDeletedCount = 0 <=> Undeleted = {})
  <1>1. Undeleted \subseteq 1..Len(batch) /\ Len(batch) \in Nat
    BY ListTypes DEF Undeleted
  <1>2. IsFiniteSet(Undeleted)
    <2>1. IsFiniteSet(1..Len(batch))
      BY <1>1, FS_Interval
    <2>2. QED
      BY <1>1, <2>1, FS_Subset
  <1>3. QED
    BY <1>2, FS_CardinalityType, FS_EmptySet DEF nonDeletedCount

\* A job is queued for, or an item decrypted at, the next position.
LEMMA JobAdded ==
    ASSUME PoolAssumption, TypeOK, JobsInv, next \in DOMAIN batch, ~batch[next].deleted,
           at' = Append(at, next), next' = next + 1, batch' = batch
    PROVE  /\ JobsInv'
           /\ at' \in Seq(DOMAIN batch') /\ next' \in 1..(Len(batch') + 1)
           /\ Len(at') = Len(at) + 1 /\ Sent' = Sent \cup {Len(at) + 1} /\ Sent \subseteq Sent'
           /\ Len(at) + 1 \notin Sent
           /\ \A k \in Sent : at'[k] = at[k]
           /\ at'[Len(at) + 1] = next
  <1>1. /\ at' \in Seq(DOMAIN batch) /\ Len(at') = Len(at) + 1
        /\ \A k \in 1..Len(at) : at'[k] = at[k]
        /\ at'[Len(at) + 1] = next
    BY AppendProperties DEF TypeOK
  <1>2. /\ Sent' = Sent \cup {Len(at) + 1} /\ Sent \subseteq Sent'
        /\ Len(at) + 1 \notin Sent /\ Len(at) \in Nat /\ next \in Nat
    BY <1>1, ListTypes DEF Sent
  <1>3. \A k \in Sent : at'[k] = at[k] /\ at[k] \in Nat /\ at[k] < next /\ ~batch[at[k]].deleted
    BY <1>1, ListTypes DEF Sent, JobsInv
  <1>4. JobsInv'
    <2>1. Len(at') < next'
      BY <1>1, <1>2 DEF JobsInv
    <2>2. \A i \in 1..(next' - 1) : ~batch'[i].deleted => \E k \in Sent' : at'[k] = i
      <3> SUFFICES ASSUME NEW i \in 1..next, ~batch[i].deleted PROVE \E k \in Sent' : at'[k] = i
        <4>1. 1..(next' - 1) = 1..next
          BY <1>2
        <4>2. QED
          BY <4>1
      <3>1. CASE i = next
        BY <1>1, <1>2, <3>1
      <3>2. CASE i # next
        <4>1. i \in 1..(next - 1)
          BY <1>2, <3>2
        <4>2. PICK k \in Sent : at[k] = i
          BY <4>1 DEF JobsInv
        <4>3. QED
          BY <1>2, <1>3, <4>2
      <3>3. QED
        BY <3>1, <3>2
    <2>3. ASSUME NEW k \in Sent' PROVE at'[k] < next' /\ ~batch'[at'[k]].deleted
      <3>1. CASE k \in Sent
        <4>1. at'[k] = at[k]
          BY <1>3, <3>1
        <4>2. at[k] \in Nat /\ at[k] < next
          BY <1>3, <3>1
        <4>3. ~batch[at[k]].deleted
          BY <1>3, <3>1
        <4>4. at[k] < next'
          BY <1>2, <4>2
        <4>5. QED
          BY <4>1, <4>3, <4>4
      <3>2. CASE k = Len(at) + 1
        BY <1>1, <1>2, <3>2
      <3>3. QED
        BY <1>2, <3>1, <3>2
    <2>4. \A j, k \in Sent' : j < k => at'[j] < at'[k]
      <3>1. \A j, k \in Sent : j < k => at[j] < at[k]
        BY DEF JobsInv
      <3>2. \A k \in Sent : at'[k] = at[k] /\ at[k] < next
        BY <1>3
      <3>3. ASSUME NEW j \in Sent', NEW k \in Sent', j < k PROVE at'[j] < at'[k]
        <4>1. CASE k \in Sent
          <5>1. j \in Sent
            BY <1>2, <3>3, <4>1 DEF Sent
          <5>2. QED
            BY <3>1, <3>2, <3>3, <4>1, <5>1
        <4>2. CASE k = Len(at) + 1
          <5>1. j \in Sent
            BY <1>2, <3>3, <4>2
          <5>2. QED
            BY <1>1, <3>2, <4>2, <5>1
        <4>3. QED
          BY <1>2, <4>1, <4>2
      <3>4. QED
        BY <3>3
    <2>5. QED
      BY <2>1, <2>2, <2>3, <2>4 DEF JobsInv
  <1>5. next' \in 1..(Len(batch') + 1)
    BY ListTypes
  <1>6. QED
    BY <1>1, <1>2, <1>3, <1>4, <1>5

---------------------------------------------------------------------------
(* The caller keeps the invariant. *)

\* What a step leaves alone that adds no job and changes neither the slice nor
\* the answer.
LEMMA KeepsJobs ==
    ASSUME JobsInv, FilledInv, batch' = batch, at' = at, next' = next, decrypted' = decrypted
    PROVE  JobsInv' /\ FilledInv' /\ Sent' = Sent
  BY DEF JobsInv, FilledInv, Sent

\* What is known of an answer stays so.
LEMMA KeepsAnswer ==
    ASSUME AnswerInv, batch' = batch, at' = at, answer' = answer,
           pc' \in {"parse", "done"} <=> pc \in {"parse", "done"}
    PROVE  AnswerInv'
  BY DEF AnswerInv, Answered, Sent

\* Before the first item nothing is queued and nothing decrypted.
LEMMA AtStart ==
    ASSUME PoolAssumption, WorkInv, pc = "start"
    PROVE  /\ Len(at) = 0 /\ Sent = {} /\ DOMAIN decrypted = {} /\ taken = 0
           /\ alive = {} /\ next = 1 /\ ~closed /\ ~finished
  <1>1. next = 1 /\ alive = {} /\ ~closed /\ ~finished
    BY DEF WorkInv, PhaseInv
  <1>2. Len(at) = 0 /\ taken = 0
    BY <1>1, ListTypes DEF WorkInv, JobsInv
  <1>3. Sent = {}
    BY <1>2 DEF Sent
  <1>4. QED
    BY <1>1, <1>2, <1>3 DEF WorkInv, FilledInv

\* The choice between one by one and the pool.
LEMMA StartKeeps == ASSUME PoolAssumption, WorkInv, Start PROVE WorkInv'
  <1>1. /\ Len(at) = 0 /\ Sent = {} /\ DOMAIN decrypted = {} /\ taken = 0
        /\ alive = {} /\ next = 1 /\ ~closed /\ ~finished
    BY AtStart DEF Start
  <1>2. /\ UNCHANGED <<batch, next, at, closed, taken, results, finished, hand, decrypted>>
        /\ pc' \in {"parse", "sequential", "queue"}
    BY DEF Start, channelVars
  <1>3. JobsInv' /\ FilledInv' /\ Sent' = Sent
    BY <1>2, KeepsJobs DEF WorkInv
  <1>4. TypeOK'
    <2>1. alive' \subseteq Worker
      BY <1>1 DEF Start
    <2>2. QED
      BY <1>2, <1>3, <2>1 DEF WorkInv, TypeOK
  <1>5. TakenInv'
    BY <1>1, <1>2 DEF TakenInv
  <1>6. PhaseInv'
    <2>1. pc' = "queue" => alive' # {}
      <3>1. pc' = "queue" => nonDeletedCount # 0 /\ alive' = {w \in Worker : w <= nonDeletedCount}
        BY DEF Start
      <3>2. nonDeletedCount # 0 => 1 <= nonDeletedCount
        BY CountType DEF WorkInv
      <3>3. 1 \in Worker
        BY DEF PoolAssumption
      <3>4. QED
        BY <3>1, <3>2, <3>3
    <2>2. pc' = "sequential" => alive' = {}
      BY <1>1 DEF Start
    <2>3. \A w \in Worker : hand'[w] = 0
      BY <1>1, <1>2 DEF WorkInv, PhaseInv
    <2>4. QED
      BY <1>1, <1>2, <1>3, <2>1, <2>2, <2>3 DEF PhaseInv
  <1>7. AnswerInv'
    <2>1. CASE nonDeletedCount = 0 /\ pc' = "parse" /\ answer' = Ok(<<>>)
      <3>1. Undeleted = {}
        BY <2>1, CountType DEF WorkInv
      <3>2. \A i \in DOMAIN batch' : batch'[i].deleted
        BY <1>2, <3>1 DEF Undeleted
      <3>3. Sent' = 1..0
        BY <1>1, <1>2 DEF Sent
      <3>4. answer' = Ok([k \in 1..0 |-> DecryptItem(batch'[at'[k]])])
        BY <2>1
      <3>5. Answered'
        BY <3>2, <3>3, <3>4 DEF Answered
      <3>6. QED
        BY <2>1, <3>5 DEF AnswerInv
    <2>2. CASE pc' \in {"sequential", "queue"} /\ answer' = answer
      BY <2>2 DEF Start, WorkInv, AnswerInv
    <2>3. QED
      BY <2>1, <2>2 DEF Start
  <1>8. QED
    BY <1>3, <1>4, <1>5, <1>6, <1>7 DEF WorkInv

\* A deleted item is passed over.
LEMMA SkipKeeps == ASSUME PoolAssumption, WorkInv, Skip PROVE WorkInv'
  <1>1. /\ pc \in {"sequential", "queue"} /\ next \in DOMAIN batch /\ batch[next].deleted
        /\ next' = next + 1
        /\ batch' = batch /\ pc' = pc /\ alive' = alive /\ hand' = hand
        /\ decrypted' = decrypted /\ answer' = answer
        /\ at' = at /\ closed' = closed /\ taken' = taken
        /\ results' = results /\ finished' = finished
    BY DEF Skip, channelVars
  <1>2. /\ next \in Nat /\ Len(at) \in Nat /\ next <= Len(batch) /\ Len(batch) \in Nat
        /\ at \in [Sent -> DOMAIN batch] /\ DOMAIN batch = 1..Len(batch) /\ Sent' = Sent
    BY <1>1, ListTypes DEF WorkInv, Sent
  <1>3. JobsInv'
    <2>1. Len(at') < next'
      BY <1>1, <1>2 DEF WorkInv, JobsInv
    <2>2. ASSUME NEW i \in 1..(next' - 1), ~batch'[i].deleted PROVE \E k \in Sent' : at'[k] = i
      <3>1. i # next
        BY <1>1, <2>2
      <3>2. i \in 1..(next - 1)
        BY <1>1, <1>2, <3>1
      <3>3. QED
        BY <1>1, <1>2, <2>2, <3>2 DEF WorkInv, JobsInv
    <2>3. ASSUME NEW k \in Sent' PROVE at'[k] < next' /\ ~batch'[at'[k]].deleted
      <3>1. at[k] < next /\ at[k] \in Nat
        BY <1>2 DEF WorkInv, JobsInv
      <3>2. ~batch[at[k]].deleted
        BY <1>2 DEF WorkInv, JobsInv
      <3>3. at[k] < next'
        BY <1>1, <1>2, <3>1
      <3>4. QED
        BY <1>1, <3>2, <3>3
    <2>4. \A j, k \in Sent' : j < k => at'[j] < at'[k]
      BY <1>1, <1>2 DEF WorkInv, JobsInv
    <2>5. QED
      BY <2>1, <2>2, <2>3, <2>4 DEF JobsInv
  <1>4. FilledInv' /\ TakenInv'
    BY <1>1, <1>2 DEF WorkInv, FilledInv, TakenInv, InHands, Arrived
  <1>5. AnswerInv'
    BY <1>1, KeepsAnswer DEF WorkInv
  <1>6. PhaseInv'
    BY <1>1, <1>2 DEF WorkInv, PhaseInv
  <1>7. TypeOK'
    <2>1. next' \in 1..(Len(batch') + 1)
      BY <1>1, <1>2
    <2>2. QED
      BY <1>1, <1>2, <2>1 DEF WorkInv, TypeOK
  <1>8. QED
    BY <1>3, <1>4, <1>5, <1>6, <1>7 DEF WorkInv

\* A job more leaves the types of what workers and channels hold.
LEMMA MoreJobs ==
    ASSUME TypeOK, Len(at') = Len(at) + 1, Len(at) \in Nat, Sent \subseteq Sent'
    PROVE  /\ results \in Seq(Sent') /\ hand \in [Worker -> {0} \cup Sent']
           /\ taken \in 0..Len(at')
  <1>1. results \in Seq(Sent')
    BY SeqMonotonic DEF TypeOK
  <1>2. QED
    BY <1>1 DEF TypeOK

\* One item after the other: the next plaintext, or the failure.
LEMMA DecryptNextKeeps == ASSUME PoolAssumption, WorkInv, DecryptNext PROVE WorkInv'
  <1>1. /\ pc = "sequential" /\ next \in DOMAIN batch /\ ~batch[next].deleted
        /\ batch' = batch /\ closed' = closed /\ taken' = taken /\ results' = results
        /\ finished' = finished /\ alive' = alive /\ hand' = hand
    BY DEF DecryptNext
  <1>2. alive = {} /\ DOMAIN decrypted = Sent /\ ~closed /\ ~finished
    BY <1>1 DEF WorkInv, PhaseInv
  <1>3. CASE /\ Works(batch[next])
             /\ decrypted' = Append(decrypted, DecryptItem(batch[next]))
             /\ at' = Append(at, next) /\ next' = next + 1
             /\ pc' = pc /\ answer' = answer
    <2>1. /\ JobsInv'
          /\ at' \in Seq(DOMAIN batch') /\ next' \in 1..(Len(batch') + 1)
          /\ Len(at') = Len(at) + 1 /\ Sent' = Sent \cup {Len(at) + 1} /\ Sent \subseteq Sent'
          /\ Len(at) + 1 \notin Sent
          /\ \A k \in Sent : at'[k] = at[k]
          /\ at'[Len(at) + 1] = next
      BY <1>1, <1>3, JobAdded DEF WorkInv
    <2>2. Len(at) \in Nat /\ at \in [Sent -> DOMAIN batch]
      BY ListTypes DEF WorkInv
    <2> DEFINE T == {DecryptItem(batch[i]) : i \in DOMAIN batch}
    <2>3. decrypted \in [1..Len(at) -> T]
      <3>1. decrypted = [k \in Sent |-> DecryptItem(batch[at[k]])]
        BY <1>2 DEF WorkInv, FilledInv
      <3>2. \A k \in Sent : DecryptItem(batch[at[k]]) \in T
        BY <2>2
      <3>3. decrypted \in [Sent -> T]
        BY <3>1, <3>2
      <3>4. QED
        BY <3>3 DEF Sent
    <2>4. decrypted \in Seq(T) /\ Len(decrypted) = Len(at)
      <3>1. decrypted \in Seq(T)
        BY <2>2, <2>3, SeqDef
      <3>2. Len(decrypted) \in Nat /\ 1..Len(decrypted) = 1..Len(at)
        BY <2>3, <3>1, LenProperties
      <3>3. QED
        BY <2>2, <3>1, <3>2
    <2>5. DecryptItem(batch[next]) \in T
      BY <1>1
    <2>6. /\ decrypted' \in Seq(T) /\ Len(decrypted') = Len(at) + 1
          /\ \A k \in 1..Len(at) : decrypted'[k] = decrypted[k]
          /\ decrypted'[Len(at) + 1] = DecryptItem(batch[next])
      <3> HIDE DEF T
      <3>1. QED
        BY <1>3, <2>4, <2>5, AppendProperties
    <2>7. decrypted' \in [Sent' -> T] /\ DOMAIN decrypted' = Sent'
      <3> HIDE DEF T
      <3>1. QED
        BY <2>1, <2>6, LenProperties DEF Sent
    <2>8. \A k \in Sent' : decrypted'[k] = DecryptItem(batch'[at'[k]]) /\ Works(batch'[at'[k]])
      <3>1. ASSUME NEW k \in Sent
            PROVE  decrypted'[k] = DecryptItem(batch'[at'[k]]) /\ Works(batch'[at'[k]])
        <4>1. decrypted'[k] = decrypted[k] /\ at'[k] = at[k]
          BY <2>1, <2>6 DEF Sent
        <4>2. decrypted[k] = DecryptItem(batch[at[k]]) /\ Works(batch[at[k]])
          BY <1>2 DEF WorkInv, FilledInv
        <4>3. QED
          BY <1>1, <4>1, <4>2
      <3>2. /\ decrypted'[Len(at) + 1] = DecryptItem(batch'[at'[Len(at) + 1]])
            /\ Works(batch'[at'[Len(at) + 1]])
        BY <1>1, <1>3, <2>1, <2>6
      <3>3. QED
        BY <2>1, <3>1, <3>2
    <2>9. FilledInv'
      <3>1. decrypted' = [k \in DOMAIN decrypted' |-> DecryptItem(batch'[at'[k]])]
        BY <2>7, <2>8
      <3>2. QED
        BY <2>7, <2>8, <3>1 DEF FilledInv
    <2>10. TypeOK'
      <3>1. results' \in Seq(Sent') /\ hand' \in [Worker -> {0} \cup Sent'] /\ taken' \in 0..Len(at')
        BY <1>1, <2>1, <2>2, MoreJobs DEF WorkInv
      <3>2. QED
        BY <1>1, <1>3, <2>1, <3>1 DEF WorkInv, TypeOK
    <2>11. PhaseInv' /\ TakenInv'
      BY <1>1, <1>2, <1>3, <2>7 DEF WorkInv, PhaseInv, TakenInv
    <2>12. AnswerInv'
      BY <1>1, <1>3 DEF WorkInv, AnswerInv
    <2>13. QED
      BY <2>1, <2>9, <2>10, <2>11, <2>12 DEF WorkInv
  <1>4. CASE /\ ~Works(batch[next])
             /\ answer' = Failed(batch[next]) /\ pc' = "parse"
             /\ decrypted' = decrypted /\ at' = at /\ next' = next
    <2>1. JobsInv' /\ FilledInv' /\ Sent' = Sent
      BY <1>1, <1>4, KeepsJobs DEF WorkInv
    <2>2. AnswerInv'
      BY <1>1, <1>4 DEF AnswerInv, Answered
    <2>3. PhaseInv' /\ TakenInv'
      BY <1>1, <1>2, <1>4 DEF WorkInv, PhaseInv, TakenInv
    <2>4. TypeOK'
      BY <1>1, <1>4, <2>1 DEF WorkInv, TypeOK
    <2>5. QED
      BY <2>1, <2>2, <2>3, <2>4 DEF WorkInv
  <1>5. QED
    BY <1>3, <1>4 DEF DecryptNext

\* A slice that is full is an answer.
LEMMA FullAnswers ==
    ASSUME PoolAssumption, WorkInv, next = Len(batch) + 1, DOMAIN decrypted = Sent,
           batch' = batch, at' = at, answer' = Ok(decrypted)
    PROVE  Answered'
  <1>1. Sent' = Sent /\ DOMAIN batch = 1..(next - 1)
    BY ListTypes DEF WorkInv, Sent
  <1>2. \A i \in DOMAIN batch : ~batch[i].deleted => \E k \in Sent : at[k] = i
    BY <1>1 DEF WorkInv, JobsInv
  <1>3. \A k \in Sent : Works(batch[at[k]])
    BY DEF WorkInv, FilledInv
  <1>4. decrypted = [k \in Sent |-> DecryptItem(batch[at[k]])]
    BY DEF WorkInv, FilledInv
  <1>5. QED
    BY <1>1, <1>2, <1>3, <1>4 DEF Answered

\* The end of the batch, one by one.
LEMMA SequentialReturnsKeeps == ASSUME PoolAssumption, WorkInv, SequentialReturns PROVE WorkInv'
  <1>1. /\ pc = "sequential" /\ next \notin DOMAIN batch
        /\ answer' = Ok(decrypted) /\ pc' = "parse"
        /\ batch' = batch /\ next' = next /\ alive' = alive /\ hand' = hand
        /\ decrypted' = decrypted
        /\ at' = at /\ closed' = closed /\ taken' = taken
        /\ results' = results /\ finished' = finished
    BY DEF SequentialReturns, channelVars
  <1>2. /\ alive = {} /\ DOMAIN decrypted = Sent /\ ~closed /\ ~finished
        /\ next = Len(batch) + 1
    <2>1. next = Len(batch) + 1
      BY <1>1, ListTypes DEF WorkInv, TypeOK
    <2>2. QED
      BY <1>1, <2>1 DEF WorkInv, PhaseInv
  <1>3. JobsInv' /\ FilledInv' /\ Sent' = Sent
    BY <1>1, KeepsJobs DEF WorkInv
  <1>4. AnswerInv'
    BY <1>1, <1>2, FullAnswers DEF AnswerInv
  <1>5. PhaseInv' /\ TakenInv'
    BY <1>1, <1>2 DEF WorkInv, PhaseInv, TakenInv
  <1>6. TypeOK'
    BY <1>1, <1>3 DEF WorkInv, TypeOK
  <1>7. QED
    BY <1>3, <1>4, <1>5, <1>6 DEF WorkInv

\* The next job.
LEMMA QueueKeeps == ASSUME PoolAssumption, WorkInv, Queue PROVE WorkInv'
  <1>1. /\ pc = "queue" /\ next \in DOMAIN batch /\ ~batch[next].deleted
        /\ at' = Append(at, next) /\ next' = next + 1
        /\ batch' = batch /\ pc' = pc /\ closed' = closed /\ taken' = taken
        /\ results' = results /\ finished' = finished /\ alive' = alive /\ hand' = hand
        /\ decrypted' = decrypted /\ answer' = answer
    BY DEF Queue
  <1>2. /\ JobsInv'
        /\ at' \in Seq(DOMAIN batch') /\ next' \in 1..(Len(batch') + 1)
        /\ Len(at') = Len(at) + 1 /\ Sent' = Sent \cup {Len(at) + 1} /\ Sent \subseteq Sent'
        /\ \A k \in Sent : at'[k] = at[k]
    BY <1>1, JobAdded DEF WorkInv
  <1>3. ~closed /\ ~finished
    BY <1>1 DEF WorkInv, PhaseInv
  <1>4. FilledInv'
    <2>1. \A k \in DOMAIN decrypted : k \in Sent /\ at'[k] = at[k] /\ Works(batch[at[k]])
      BY <1>2 DEF WorkInv, FilledInv
    <2>2. decrypted = [k \in DOMAIN decrypted |-> DecryptItem(batch[at[k]])]
      BY DEF WorkInv, FilledInv
    <2>3. decrypted = [k \in DOMAIN decrypted |-> DecryptItem(batch[at'[k]])]
      BY <2>1, <2>2
    <2>4. QED
      BY <1>1, <1>2, <2>1, <2>3 DEF FilledInv
  <1>5. TakenInv'
    <2>1. InHands \subseteq InHands' /\ Arrived \subseteq Arrived'
      BY <1>1, <1>2 DEF InHands, Arrived
    <2>2. QED
      BY <1>1, <2>1 DEF WorkInv, TakenInv
  <1>6. TypeOK'
    <2>1. results' \in Seq(Sent') /\ hand' \in [Worker -> {0} \cup Sent'] /\ taken' \in 0..Len(at')
      <3>1. Len(at) \in Nat
        BY ListTypes DEF WorkInv
      <3>2. QED
        BY <1>1, <1>2, <3>1, MoreJobs DEF WorkInv
    <2>2. QED
      BY <1>1, <1>2, <2>1 DEF WorkInv, TypeOK
  <1>7. PhaseInv'
    BY <1>1, <1>3 DEF WorkInv, PhaseInv
  <1>8. AnswerInv'
    BY <1>1 DEF WorkInv, AnswerInv
  <1>9. QED
    BY <1>2, <1>4, <1>5, <1>6, <1>7, <1>8 DEF WorkInv

\* All jobs are queued.
LEMMA CloseJobsKeeps == ASSUME PoolAssumption, WorkInv, CloseJobs PROVE WorkInv'
  <1>1. /\ pc = "queue" /\ next \notin DOMAIN batch /\ closed' = TRUE /\ pc' = "collect"
        /\ batch' = batch /\ next' = next /\ at' = at /\ taken' = taken
        /\ results' = results /\ finished' = finished /\ alive' = alive /\ hand' = hand
        /\ decrypted' = decrypted /\ answer' = answer
    BY DEF CloseJobs
  <1>2. ~finished /\ alive # {} /\ next = Len(batch) + 1
    <2>1. next = Len(batch) + 1
      BY <1>1, ListTypes DEF WorkInv, TypeOK
    <2>2. QED
      BY <1>1, <2>1 DEF WorkInv, PhaseInv
  <1>3. JobsInv' /\ FilledInv' /\ Sent' = Sent
    BY <1>1, KeepsJobs DEF WorkInv
  <1>4. TakenInv'
    BY <1>1, <1>3 DEF WorkInv, TakenInv, InHands, Arrived
  <1>5. PhaseInv'
    BY <1>1, <1>2 DEF WorkInv, PhaseInv
  <1>6. AnswerInv'
    BY <1>1 DEF WorkInv, AnswerInv
  <1>7. TypeOK'
    BY <1>1, <1>3 DEF WorkInv, TypeOK
  <1>8. QED
    BY <1>3, <1>4, <1>5, <1>6, <1>7 DEF WorkInv

\* A result, which may be the failure that ends the collection.
LEMMA CollectKeeps == ASSUME PoolAssumption, WorkInv, Collect PROVE WorkInv'
  <1> DEFINE k == Head(results)
  <1>1. /\ pc = "collect" /\ results # <<>> /\ results' = Tail(results)
        /\ batch' = batch /\ next' = next /\ at' = at /\ closed' = closed /\ taken' = taken
        /\ finished' = finished /\ alive' = alive /\ hand' = hand
    BY DEF Collect
  <1>2. \/ /\ Works(batch[at[k]])
           /\ decrypted' = [j \in DOMAIN decrypted \cup {k} |->
                              IF j = k THEN DecryptItem(batch[at[k]]) ELSE decrypted[j]]
           /\ pc' = pc /\ answer' = answer
        \/ /\ ~Works(batch[at[k]])
           /\ answer' = Failed(batch[at[k]]) /\ pc' = "parse"
           /\ decrypted' = decrypted
    BY DEF Collect
  <1>3. /\ k \in Sent /\ Tail(results) \in Seq(Sent)
        /\ Len(Tail(results)) = Len(results) - 1
        /\ \A i \in 1..Len(Tail(results)) : Tail(results)[i] = results[i + 1]
    BY <1>1, HeadTailProperties DEF WorkInv, TypeOK
  <1>4. k = results[1]
    BY <1>1 DEF WorkInv, TypeOK
  <1>5. JobsInv' /\ Sent' = Sent
    BY <1>1 DEF WorkInv, JobsInv, Sent
  <1>6. at[k] \in DOMAIN batch /\ ~batch[at[k]].deleted
    <2>1. at[k] \in DOMAIN batch
      BY <1>3, ListTypes DEF WorkInv
    <2>2. ~batch[at[k]].deleted
      BY <1>3 DEF WorkInv, JobsInv
    <2>3. QED
      BY <2>1, <2>2
  <1> HIDE DEF k
  <1>7. TypeOK'
    <2>1. pc' \in {"collect", "parse"}
      BY <1>1, <1>2
    <2>2. results' \in Seq(Sent')
      BY <1>1, <1>3, <1>5
    <2>3. QED
      BY <1>1, <1>5, <2>1, <2>2 DEF WorkInv, TypeOK
  <1>8. PhaseInv'
    BY <1>1, <1>2 DEF WorkInv, PhaseInv
  <1>9. FilledInv'
    <2>1. CASE /\ Works(batch[at[k]])
               /\ decrypted' = [j \in DOMAIN decrypted \cup {k} |->
                              IF j = k THEN DecryptItem(batch[at[k]]) ELSE decrypted[j]]
      <3>1. DOMAIN decrypted' = DOMAIN decrypted \cup {k}
        BY <2>1
      <3>2. \A j \in DOMAIN decrypted :
               j \in Sent /\ Works(batch[at[j]]) /\ decrypted[j] = DecryptItem(batch[at[j]])
        BY DEF WorkInv, FilledInv
      <3>3. decrypted' = [j \in DOMAIN decrypted' |-> DecryptItem(batch[at[j]])]
        BY <2>1, <3>1, <3>2
      <3>4. \A j \in DOMAIN decrypted' : j \in Sent /\ Works(batch[at[j]])
        BY <1>3, <2>1, <3>1, <3>2
      <3>5. QED
        BY <1>1, <1>5, <3>3, <3>4 DEF FilledInv
    <2>2. CASE decrypted' = decrypted
      BY <1>1, <1>5, <2>2 DEF WorkInv, FilledInv
    <2>3. QED
      BY <1>2, <2>1, <2>2
  <1>10. TakenInv'
    <2> SUFFICES ASSUME pc' = "collect", NEW j \in 1..taken
                 PROVE  j \in InHands' \/ j \in Arrived' \/ j \in DOMAIN decrypted'
      BY <1>1, <1>2 DEF TakenInv
    <2>1. DOMAIN decrypted' = DOMAIN decrypted \cup {k}
      BY <1>2
    <2>2. InHands' = InHands
      BY <1>1, <1>5 DEF InHands
    <2>3. ASSUME j \in Arrived, j # k PROVE j \in Arrived'
      <3>1. PICK i \in DOMAIN results : results[i] = j
        BY <2>3 DEF Arrived
      <3>2. i \in 1..Len(results) /\ Len(results) \in Nat /\ i # 1
        BY <1>4, <2>3, <3>1, ListTypes DEF WorkInv
      <3>3. i - 1 \in 1..Len(Tail(results)) /\ (i - 1) + 1 = i
        BY <1>3, <3>2
      <3>4. Tail(results)[i - 1] = j
        BY <1>3, <3>1, <3>3
      <3>5. i - 1 \in DOMAIN Tail(results)
        BY <1>3, <3>3, LenProperties
      <3>6. QED
        BY <1>1, <1>5, <2>3, <3>4, <3>5 DEF Arrived
    <2>4. j \in InHands \/ j \in Arrived \/ j \in DOMAIN decrypted
      BY <1>1 DEF WorkInv, TakenInv
    <2>5. QED
      BY <2>1, <2>2, <2>3, <2>4
  <1>11. AnswerInv'
    <2>1. CASE pc' = pc /\ answer' = answer
      BY <1>1, <2>1 DEF WorkInv, AnswerInv
    <2>2. CASE ~Works(batch[at[k]]) /\ answer' = Failed(batch[at[k]]) /\ pc' = "parse"
      <3>1. Answered'
        BY <1>1, <1>6, <2>2 DEF Answered
      <3>2. QED
        BY <2>2, <3>1 DEF AnswerInv
    <2>3. QED
      BY <1>2, <2>1, <2>2
  <1>12. QED
    BY <1>5, <1>7, <1>8, <1>9, <1>10, <1>11 DEF WorkInv

\* There are no results any more: the slice is full.
LEMMA AllCollected ==
    ASSUME PoolAssumption, WorkInv, pc = "collect", results = <<>>, finished
    PROVE  DOMAIN decrypted = Sent /\ next = Len(batch) + 1 /\ alive = {}
  <1>1. alive = {} /\ taken = Len(at) /\ next = Len(batch) + 1
    BY DEF WorkInv, PhaseInv
  <1>2. InHands = {}
    BY <1>1 DEF InHands
  <1>3. Arrived = {}
    <2>1. DOMAIN results = {}
      <3>1. Len(results) = 0
        BY EmptySeq
      <3>2. QED
        BY <3>1, ListTypes DEF WorkInv
    <2>2. QED
      BY <2>1 DEF Arrived
  <1>4. Sent \subseteq DOMAIN decrypted
    BY <1>1, <1>2, <1>3 DEF WorkInv, TakenInv, Sent
  <1>5. DOMAIN decrypted \subseteq Sent
    BY DEF WorkInv, FilledInv
  <1>6. QED
    BY <1>1, <1>4, <1>5

\* The end of the collection.
LEMMA ParallelReturnsKeeps == ASSUME PoolAssumption, WorkInv, ParallelReturns PROVE WorkInv'
  <1>1. /\ pc = "collect" /\ results = <<>> /\ finished
        /\ answer' = Ok(decrypted) /\ pc' = "parse"
        /\ batch' = batch /\ next' = next /\ alive' = alive /\ hand' = hand
        /\ decrypted' = decrypted
        /\ at' = at /\ closed' = closed /\ taken' = taken
        /\ results' = results /\ finished' = finished
    BY DEF ParallelReturns, channelVars
  <1>2. DOMAIN decrypted = Sent /\ next = Len(batch) + 1
    BY <1>1, AllCollected
  <1>3. JobsInv' /\ FilledInv' /\ Sent' = Sent
    BY <1>1, KeepsJobs DEF WorkInv
  <1>4. AnswerInv'
    BY <1>1, <1>2, FullAnswers DEF AnswerInv
  <1>5. PhaseInv' /\ TakenInv'
    BY <1>1 DEF WorkInv, PhaseInv, TakenInv
  <1>6. TypeOK'
    BY <1>1, <1>3 DEF WorkInv, TypeOK
  <1>7. QED
    BY <1>3, <1>4, <1>5, <1>6 DEF WorkInv

\* Parse changes nothing of it.
LEMMA ParseKeeps == ASSUME PoolAssumption, WorkInv, Parse PROVE WorkInv'
  <1>1. /\ pc = "parse" /\ pc' = "done"
        /\ batch' = batch /\ next' = next /\ alive' = alive /\ hand' = hand
        /\ decrypted' = decrypted /\ answer' = answer
        /\ at' = at /\ closed' = closed /\ taken' = taken
        /\ results' = results /\ finished' = finished
    BY DEF Parse, channelVars
  <1>2. JobsInv' /\ FilledInv' /\ Sent' = Sent
    BY <1>1, KeepsJobs DEF WorkInv
  <1>3. AnswerInv'
    BY <1>1, KeepsAnswer DEF WorkInv
  <1>4. PhaseInv' /\ TakenInv'
    BY <1>1 DEF WorkInv, PhaseInv, TakenInv
  <1>5. TypeOK'
    BY <1>1, <1>2 DEF WorkInv, TypeOK
  <1>6. QED
    BY <1>2, <1>3, <1>4, <1>5 DEF WorkInv

---------------------------------------------------------------------------
(* The workers keep the invariant. *)

\* A worker takes the next job into its hands.
LEMMA TakeKeeps == ASSUME PoolAssumption, WorkInv, NEW w \in Worker, Take(w) PROVE WorkInv'
  <1>1. /\ w \in alive /\ hand[w] = 0 /\ taken < Len(at)
        /\ taken' = taken + 1 /\ hand' = [hand EXCEPT ![w] = taken + 1]
        /\ batch' = batch /\ pc' = pc /\ next' = next /\ decrypted' = decrypted
        /\ answer' = answer /\ at' = at /\ closed' = closed
        /\ results' = results /\ finished' = finished /\ alive' = alive
    BY DEF Take, callerVars
  <1>2. JobsInv' /\ FilledInv' /\ Sent' = Sent
    BY <1>1, KeepsJobs DEF WorkInv
  <1>3. AnswerInv'
    BY <1>1, KeepsAnswer DEF WorkInv
  <1>4. taken \in Nat /\ Len(at) \in Nat /\ taken + 1 \in Sent
    BY <1>1, ListTypes DEF WorkInv, Sent
  <1>5. TypeOK'
    <2>1. hand' \in [Worker -> {0} \cup Sent] /\ taken' \in 0..Len(at)
      BY <1>1, <1>4 DEF WorkInv, TypeOK
    <2>2. QED
      BY <1>1, <1>2, <2>1 DEF WorkInv, TypeOK
  <1>6. PhaseInv'
    <2>1. \A v \in Worker : v \notin alive' => hand'[v] = 0
      BY <1>1 DEF WorkInv, TypeOK, PhaseInv
    <2>2. alive # {}
      BY <1>1
    <2>3. QED
      BY <1>1, <2>1, <2>2 DEF WorkInv, PhaseInv
  <1>7. TakenInv'
    <2> SUFFICES ASSUME pc \in {"queue", "collect"}, NEW k \in 1..(taken + 1)
                 PROVE  k \in InHands' \/ k \in Arrived' \/ k \in DOMAIN decrypted
      BY <1>1 DEF TakenInv
    <2>1. Arrived' = Arrived
      BY <1>1, <1>2 DEF Arrived
    <2>2. taken + 1 \in InHands'
      <3>1. hand'[w] = taken + 1
        BY <1>1 DEF WorkInv, TypeOK
      <3>2. QED
        BY <1>1, <1>2, <1>4, <3>1 DEF InHands
    <2>3. InHands \subseteq InHands'
      <3> SUFFICES ASSUME NEW j \in Sent, NEW v \in alive, hand[v] = j PROVE hand'[v] = j
        BY <1>1, <1>2 DEF InHands
      <3>1. v # w /\ v \in Worker
        BY <1>1 DEF WorkInv, TypeOK, Sent
      <3>2. QED
        BY <1>1, <3>1 DEF WorkInv, TypeOK
    <2>4. k \in 1..taken \/ k = taken + 1
      BY <1>4
    <2>5. QED
      BY <2>1, <2>2, <2>3, <2>4 DEF WorkInv, TakenInv
  <1>8. QED
    BY <1>2, <1>3, <1>5, <1>6, <1>7 DEF WorkInv

\* A worker sends what is in its hands.
LEMMA SendKeeps == ASSUME PoolAssumption, WorkInv, NEW w \in Worker, Send(w) PROVE WorkInv'
  <1>1. /\ w \in alive /\ hand[w] # 0
        /\ results' = Append(results, hand[w]) /\ hand' = [hand EXCEPT ![w] = 0]
        /\ batch' = batch /\ pc' = pc /\ next' = next /\ decrypted' = decrypted
        /\ answer' = answer /\ at' = at /\ closed' = closed /\ taken' = taken
        /\ finished' = finished /\ alive' = alive
    BY DEF Send, callerVars
  <1>2. JobsInv' /\ FilledInv' /\ Sent' = Sent
    BY <1>1, KeepsJobs DEF WorkInv
  <1>3. AnswerInv'
    BY <1>1, KeepsAnswer DEF WorkInv
  <1>4. hand[w] \in Sent
    BY <1>1 DEF WorkInv, TypeOK
  <1>5. /\ results' \in Seq(Sent) /\ Len(results') = Len(results) + 1
        /\ \A i \in 1..Len(results) : results'[i] = results[i]
        /\ results'[Len(results) + 1] = hand[w]
    BY <1>1, <1>4, AppendProperties DEF WorkInv, TypeOK
  <1>6. /\ Len(results) \in Nat /\ DOMAIN results = 1..Len(results)
        /\ DOMAIN results' = 1..(Len(results) + 1)
    BY <1>5, ListTypes, LenProperties DEF WorkInv
  <1>7. TypeOK'
    <2>1. hand' \in [Worker -> {0} \cup Sent]
      BY <1>1 DEF WorkInv, TypeOK
    <2>2. QED
      BY <1>1, <1>2, <1>5, <2>1 DEF WorkInv, TypeOK
  <1>8. PhaseInv'
    <2>1. \A v \in Worker : v \notin alive' => hand'[v] = 0
      BY <1>1 DEF WorkInv, TypeOK, PhaseInv
    <2>2. QED
      BY <1>1, <2>1 DEF WorkInv, PhaseInv
  <1>9. TakenInv'
    <2>1. Arrived \subseteq Arrived' /\ hand[w] \in Arrived'
      BY <1>2, <1>4, <1>5, <1>6 DEF Arrived
    <2>2. ASSUME NEW j \in InHands, j # hand[w] PROVE j \in InHands'
      <3>1. PICK v \in alive : hand[v] = j
        BY DEF InHands
      <3>2. v # w /\ v \in Worker /\ j \in Sent
        BY <2>2, <3>1 DEF InHands, WorkInv, TypeOK
      <3>3. hand'[v] = j
        BY <1>1, <3>1, <3>2 DEF WorkInv, TypeOK
      <3>4. QED
        BY <1>1, <1>2, <3>2, <3>3 DEF InHands
    <2>3. QED
      BY <1>1, <2>1, <2>2 DEF WorkInv, TakenInv
  <1>10. QED
    BY <1>2, <1>3, <1>7, <1>8, <1>9 DEF WorkInv

\* A worker ends, its hands empty and the channel too.
LEMMA StopKeeps == ASSUME PoolAssumption, WorkInv, NEW w \in Worker, Stop(w) PROVE WorkInv'
  <1>1. /\ w \in alive /\ hand[w] = 0 /\ closed /\ taken = Len(at)
        /\ alive' = alive \ {w}
        /\ batch' = batch /\ pc' = pc /\ next' = next /\ decrypted' = decrypted
        /\ answer' = answer /\ at' = at /\ closed' = closed /\ taken' = taken
        /\ results' = results /\ finished' = finished /\ hand' = hand
    BY DEF Stop, callerVars, channelVars
  <1>2. JobsInv' /\ FilledInv' /\ Sent' = Sent
    BY <1>1, KeepsJobs DEF WorkInv
  <1>3. AnswerInv'
    BY <1>1, KeepsAnswer DEF WorkInv
  <1>4. TypeOK'
    BY <1>1, <1>2 DEF WorkInv, TypeOK
  <1>5. PhaseInv'
    BY <1>1 DEF WorkInv, PhaseInv
  <1>6. TakenInv'
    <2>1. Arrived' = Arrived
      BY <1>1, <1>2 DEF Arrived
    <2>2. InHands' = InHands
      <3>1. \A k \in Sent : k # 0
        BY DEF Sent
      <3>2. QED
        BY <1>1, <1>2, <3>1 DEF InHands
    <2>3. QED
      BY <1>1, <2>1, <2>2 DEF WorkInv, TakenInv
  <1>7. QED
    BY <1>2, <1>3, <1>4, <1>5, <1>6 DEF WorkInv

\* The results are closed behind the last worker.
LEMMA CloseResultsKeeps == ASSUME PoolAssumption, WorkInv, CloseResults PROVE WorkInv'
  <1>1. /\ closed /\ alive = {} /\ finished' = TRUE
        /\ batch' = batch /\ pc' = pc /\ next' = next /\ decrypted' = decrypted
        /\ answer' = answer /\ at' = at /\ closed' = closed /\ taken' = taken
        /\ results' = results /\ alive' = alive /\ hand' = hand
    BY DEF CloseResults, callerVars
  <1>2. JobsInv' /\ FilledInv' /\ Sent' = Sent
    BY <1>1, KeepsJobs DEF WorkInv
  <1>3. AnswerInv'
    BY <1>1, KeepsAnswer DEF WorkInv
  <1>4. TypeOK'
    BY <1>1, <1>2 DEF WorkInv, TypeOK
  <1>5. PhaseInv'
    BY <1>1 DEF WorkInv, PhaseInv
  <1>6. TakenInv'
    BY <1>1, <1>2 DEF WorkInv, TakenInv, InHands, Arrived
  <1>7. QED
    BY <1>2, <1>3, <1>4, <1>5, <1>6 DEF WorkInv

---------------------------------------------------------------------------
(* The theorems. *)

\* A step keeps the invariant.
LEMMA WorkKept == ASSUME PoolAssumption, WorkInv, [Next]_vars PROVE WorkInv'
  <1>1. CASE Caller
    BY <1>1, StartKeeps, SkipKeeps, DecryptNextKeeps, SequentialReturnsKeeps, QueueKeeps,
       CloseJobsKeeps, CollectKeeps, ParallelReturnsKeeps, ParseKeeps DEF Caller
  <1>2. ASSUME NEW w \in Worker, Work(w) PROVE WorkInv'
    BY <1>2, TakeKeeps, SendKeeps, StopKeeps DEF Work
  <1>3. CASE CloseResults
    BY <1>3, CloseResultsKeeps
  <1>4. CASE UNCHANGED vars
    <2>1. /\ batch' = batch /\ pc' = pc /\ next' = next /\ decrypted' = decrypted
          /\ answer' = answer /\ at' = at /\ closed' = closed /\ taken' = taken
          /\ results' = results /\ finished' = finished /\ alive' = alive /\ hand' = hand
      BY <1>4 DEF vars, callerVars, channelVars
    <2>2. JobsInv' /\ FilledInv' /\ Sent' = Sent
      BY <2>1, KeepsJobs DEF WorkInv
    <2>3. AnswerInv'
      BY <2>1, KeepsAnswer DEF WorkInv
    <2>4. TypeOK' /\ PhaseInv' /\ TakenInv'
      BY <2>1, <2>2 DEF WorkInv, TypeOK, PhaseInv, TakenInv, InHands, Arrived
    <2>5. QED
      BY <2>2, <2>3, <2>4 DEF WorkInv
  <1>5. QED
    BY <1>1, <1>2, <1>3, <1>4 DEF Next

\* The invariant holds at the start.
LEMMA WorkStarts == ASSUME PoolAssumption, Init PROVE WorkInv
  <1>1. /\ batch \in Batches /\ pc = "start" /\ next = 1 /\ at = <<>> /\ ~closed /\ closed \in BOOLEAN
        /\ taken = 0 /\ alive = {} /\ hand = [w \in Worker |-> 0] /\ results = <<>>
        /\ ~finished /\ finished \in BOOLEAN /\ decrypted = <<>> /\ answer = Unanswered
    BY DEF Init
  <1>2. Len(batch) \in Nat
    BY <1>1, LenProperties DEF PoolAssumption
  <1>3. Len(at) = 0 /\ Sent = {} /\ at \in Seq(DOMAIN batch) /\ results \in Seq(Sent)
    BY <1>1, EmptySeq DEF Sent
  <1>4. DOMAIN decrypted = {}
    BY <1>1
  <1>5. TypeOK
    BY <1>1, <1>2, <1>3 DEF TypeOK
  <1>6. JobsInv /\ TakenInv /\ PhaseInv /\ AnswerInv
    BY <1>1, <1>3 DEF JobsInv, TakenInv, PhaseInv, AnswerInv
  <1>7. FilledInv
    BY <1>1, <1>4 DEF FilledInv
  <1>8. QED
    BY <1>5, <1>6, <1>7 DEF WorkInv

\* However many items, workers and jobs there are, and in whatever order they
\* finish: jobs, slice and answer are as WorkInv says in every reachable state.
LEMMA WorkInductive == Spec => []WorkInv
  <1>1. Init => WorkInv
    BY WorkStarts, PoolAssumption
  <1>2. WorkInv /\ [Next]_vars => WorkInv'
    BY WorkKept, PoolAssumption
  <1>3. QED
    BY <1>1, <1>2, PTL DEF Spec

\* When there is an answer without an error, all workers have ended.
THEOREM QuietWhenAnswered == Spec => []QuietAfterSuccess
  <1> DEFINE Quiet == answer.status = "ok" => alive = {}
  <1>1. Init => Quiet
    BY DEF Init, Unanswered
  <1>2. WorkInv /\ Quiet /\ [Next]_vars => Quiet'
    <2> SUFFICES ASSUME WorkInv, Quiet, [Next]_vars, answer'.status = "ok" PROVE alive' = {}
      OBVIOUS
    <2>1. CASE Start
      <3>1. alive = {}
        BY <2>1, AtStart, PoolAssumption DEF Start
      <3>2. answer # answer' \/ answer = Unanswered
        BY <2>1 DEF Start, WorkInv, AnswerInv
      <3>3. QED
        BY <2>1, <3>1, <3>2 DEF Start, Unanswered
    <2>2. CASE DecryptNext
      BY <2>2 DEF DecryptNext, WorkInv, PhaseInv
    <2>3. CASE SequentialReturns
      BY <2>3 DEF SequentialReturns, WorkInv, PhaseInv
    <2>4. CASE Collect
      BY <2>4 DEF Collect, Failed
    <2>5. CASE ParallelReturns
      BY <2>5 DEF ParallelReturns, WorkInv, PhaseInv
    <2>6. CASE Skip \/ Queue \/ CloseJobs \/ Parse \/ CloseResults \/ UNCHANGED vars
      BY <2>6 DEF Skip, Queue, CloseJobs, Parse, CloseResults, vars, callerVars
    <2>7. ASSUME NEW w \in Worker, Work(w) PROVE alive' = {}
      BY <2>7 DEF Work, Take, Send, Stop, callerVars
    <2>8. QED
      BY <2>1, <2>2, <2>3, <2>4, <2>5, <2>6, <2>7 DEF Next, Caller
  <1>3. WorkInv /\ Quiet => QuietAfterSuccess
    BY DEF WorkInv, PhaseInv, QuietAfterSuccess
  <1>4. QED
    BY <1>1, <1>2, <1>3, WorkInductive, PTL DEF Spec

\* The answer is one that DecryptAll allows, given once: the plaintexts of all
\* undeleted items in their order, or the failure of one of them.
THEOREM PoolDecryptsAll == Spec => All!AllSafety
  <1>1. Init => answer = All!Unanswered
    BY DEF Init, Unanswered, All!Unanswered
  <1>2. WorkInv /\ WorkInv' /\ [Next]_vars => [All!Answer]_<<batch, answer>>
    <2> SUFFICES ASSUME WorkInv, WorkInv', [Next]_vars, <<batch, answer>>' # <<batch, answer>>
                 PROVE  All!Answer
      OBVIOUS
    <2>1. batch' = batch
      BY DEF Next, Caller, Work, Start, Skip, DecryptNext, SequentialReturns, Queue, CloseJobs,
             Collect, ParallelReturns, Parse, Take, Send, Stop, CloseResults, vars
    <2>2. answer' # answer
      BY <2>1
    <2>3. pc \notin {"parse", "done"}
      BY <2>2 DEF Next, Caller, Work, Start, Skip, DecryptNext, SequentialReturns, Queue, CloseJobs,
             Collect, ParallelReturns, Parse, Take, Send, Stop, CloseResults, vars, callerVars
    <2>4. answer = Unanswered
      BY <2>3 DEF WorkInv, AnswerInv
    <2>5. Answered'
      BY <2>2, <2>4 DEF WorkInv, AnswerInv
    <2>6. CASE /\ \A i \in DOMAIN batch : ~batch[i].deleted => \E k \in Sent' : at'[k] = i
               /\ \A k \in Sent' : Works(batch[at'[k]])
               /\ answer' = Ok([k \in Sent' |-> DecryptItem(batch[at'[k]])])
      <3>1. \A i \in All!Wanted : Works(batch[i])
        BY <2>6 DEF All!Wanted
      <3>2. /\ Len(at') \in Nat /\ Sent' = 1..Len(at') /\ at' \in [1..Len(at') -> DOMAIN batch]
            /\ DOMAIN at' = 1..Len(at')
        <4>1. at' \in Seq(DOMAIN batch)
          BY <2>1 DEF WorkInv, TypeOK
        <4>2. QED
          BY <4>1, LenProperties DEF Sent
      <3>3. Len(at') \in 0..Len(batch)
        <4>1. Len(batch) \in Nat /\ next' \in 1..(Len(batch) + 1) /\ Len(at') < next'
          BY <2>1, ListTypes, PoolAssumption DEF WorkInv, TypeOK, JobsInv
        <4>2. QED
          BY <3>2, <4>1
      <3>4. All!InOrder(at')
        <4>1. \A k \in DOMAIN at' : at'[k] \in All!Wanted
          BY <2>1, <3>2 DEF WorkInv, JobsInv, All!Wanted
        <4>2. \A i \in All!Wanted : \E k \in DOMAIN at' : at'[k] = i
          BY <2>6, <3>2 DEF All!Wanted
        <4>3. \A j, k \in DOMAIN at' : j < k => at'[j] < at'[k]
          BY <3>2 DEF WorkInv, JobsInv
        <4>4. QED
          BY <4>1, <4>2, <4>3 DEF All!InOrder
      <3>5. answer' = [status |-> "ok", items |-> [k \in 1..Len(at') |-> DecryptItem(batch[at'[k]])]]
        BY <2>6, <3>2 DEF Ok
      <3>6. All!AllOfThem
        BY <3>1, <3>2, <3>3, <3>4, <3>5 DEF All!AllOfThem
      <3>7. QED
        BY <2>1, <2>4, <3>6 DEF All!Answer, All!Unanswered, Unanswered
    <2>7. CASE \E i \in DOMAIN batch :
                 ~batch[i].deleted /\ ~Works(batch[i]) /\ answer' = Failed(batch[i])
      <3>1. All!OneFailure
        BY <2>7 DEF All!OneFailure, All!Wanted, Failed
      <3>2. QED
        BY <2>1, <2>4, <3>1 DEF All!Answer, All!Unanswered, Unanswered
    <2>8. QED
      BY <2>1, <2>5, <2>6, <2>7 DEF Answered
  <1>3. QED
    BY <1>1, <1>2, WorkInductive, PTL DEF Spec, All!AllSafety

---------------------------------------------------------------------------
(* What Parse makes of an answer. *)

\* Parsed keeps what is not an items key, and only that.
LEMMA ParsedItems ==
    ASSUME NEW ds, NEW items \in Parsed(ds)
    PROVE  /\ \A i \in DOMAIN ds : ds[i].kind # "ItemsKey" => \E j \in DOMAIN items : items[j] = ds[i]
           /\ \A j \in DOMAIN items : \E i \in DOMAIN ds : ds[i].kind # "ItemsKey" /\ items[j] = ds[i]
  <1>1. PICK a \in UNION {[1..n -> Kept(ds)] : n \in 0..Len(ds)} :
           InOrder(a, Kept(ds)) /\ items = [k \in DOMAIN a |-> ds[a[k]]]
    BY DEF Parsed
  <1>2. PICK n \in 0..Len(ds) : a \in [1..n -> Kept(ds)]
    BY <1>1
  <1>3. DOMAIN items = DOMAIN a /\ \A k \in DOMAIN a : items[k] = ds[a[k]] /\ a[k] \in Kept(ds)
    BY <1>1, <1>2
  <1>4. \A i \in Kept(ds) : \E k \in DOMAIN a : a[k] = i
    BY <1>1 DEF InOrder
  <1>5. \A i \in DOMAIN ds : ds[i].kind # "ItemsKey" => \E j \in DOMAIN items : items[j] = ds[i]
    <2> TAKE i \in DOMAIN ds
    <2> HAVE ds[i].kind # "ItemsKey"
    <2>1. PICK k \in DOMAIN a : a[k] = i
      BY <1>4 DEF Kept
    <2>2. QED
      BY <1>3, <2>1
  <1>6. \A j \in DOMAIN items : \E i \in DOMAIN ds : ds[i].kind # "ItemsKey" /\ items[j] = ds[i]
    BY <1>3 DEF Kept
  <1>7. QED
    BY <1>5, <1>6

\* Decrypting an item tells whether it was deleted, and its kind.
LEMMA DecryptedFields ==
    \A e : DecryptItem(e).kind = e.kind /\ DecryptItem(e).deleted = e.deleted
  BY DEF DecryptItem

\* Whoever gets items gets all of them but the items keys (DecryptAndParse).
LEMMA ParseLeavesNothingOut ==
    ASSUME PoolAssumption, WorkInv, Parse, parsed'.status = "ok"
    PROVE  NothingLeftOut'
  <1> USE DEF Ok, Failed
  <1>1. batch' = batch /\ pc = "parse"
    BY DEF Parse
  <1>2. Answered
    BY <1>1 DEF WorkInv, AnswerInv
  <1>3. answer.status = "ok" /\ \E items \in Parsed(answer.items) : parsed' = Ok(items)
    <2>1. ParseFailure(answer.items) # "ok"
      BY DEF ParseFailure
    <2>2. QED
      BY <2>1 DEF Parse
  <1>4. PICK items \in Parsed(answer.items) : parsed' = Ok(items)
    BY <1>3
  <1>5. /\ \A i \in DOMAIN batch : ~batch[i].deleted => \E k \in Sent : at[k] = i
        /\ answer = Ok([k \in Sent |-> DecryptItem(batch[at[k]])])
    BY <1>2, <1>3 DEF Answered
  <1> DEFINE ds == [k \in Sent |-> DecryptItem(batch[at[k]])]
  <1>6. /\ answer.items = ds /\ DOMAIN ds = Sent
        /\ \A k \in Sent : ds[k] = DecryptItem(batch[at[k]])
    BY <1>5
  <1>7. \A k \in Sent : at[k] \in DOMAIN batch /\ ~batch[at[k]].deleted
    BY ListTypes DEF WorkInv, JobsInv
  <1> HIDE DEF ds
  <1>8. parsed'.items = items
    BY <1>4
  <1>9. ASSUME NEW i \in DOMAIN batch, ~batch[i].deleted, batch[i].kind # "ItemsKey"
        PROVE  \E j \in DOMAIN items : items[j] = DecryptItem(batch[i])
    <2>1. PICK k \in Sent : at[k] = i
      BY <1>5, <1>9
    <2>2. ds[k] = DecryptItem(batch[i]) /\ ds[k].kind # "ItemsKey" /\ k \in DOMAIN ds
      BY <1>6, <1>9, <2>1, DecryptedFields
    <2>3. QED
      BY <1>4, <1>6, <2>2, ParsedItems
  <1>10. ASSUME NEW i \in DOMAIN batch, NEW j \in DOMAIN items, items[j] = DecryptItem(batch[i])
         PROVE  ~batch[i].deleted /\ batch[i].kind # "ItemsKey"
    <2>1. PICK k \in Sent : ds[k].kind # "ItemsKey" /\ items[j] = ds[k]
      BY <1>4, <1>6, ParsedItems
    <2>2. DecryptItem(batch[i]) = DecryptItem(batch[at[k]])
      BY <1>6, <1>10, <2>1
    <2>3. batch[i].kind = batch[at[k]].kind /\ batch[i].deleted = batch[at[k]].deleted
      BY <2>2, DecryptedFields
    <2>4. batch[at[k]].kind # "ItemsKey" /\ ~batch[at[k]].deleted
      BY <1>6, <1>7, <2>1, DecryptedFields
    <2>5. QED
      BY <2>3, <2>4
  <1>11. QED
    BY <1>1, <1>8, <1>9, <1>10 DEF NothingLeftOut

\* DecryptAndParse gives all items but the items keys or none, for a batch of any
\* size and any order in which workers finish.
THEOREM AllOrNothing == Spec => []NothingLeftOut
  <1>1. Init => NothingLeftOut
    BY DEF Init, NothingLeftOut, Unanswered
  <1>2. PoolAssumption /\ WorkInv /\ NothingLeftOut /\ [Next]_vars => NothingLeftOut'
    <2> SUFFICES ASSUME PoolAssumption, WorkInv, NothingLeftOut, [Next]_vars
                 PROVE  NothingLeftOut'
      OBVIOUS
    <2>1. CASE Parse
      BY <2>1, ParseLeavesNothingOut DEF NothingLeftOut
    <2>2. CASE UNCHANGED <<batch, parsed>>
      BY <2>2 DEF NothingLeftOut
    <2>3. Parse \/ UNCHANGED <<batch, parsed>>
      BY DEF Next, Caller, Work, Start, Skip, DecryptNext, SequentialReturns, Queue, CloseJobs,
             Collect, ParallelReturns, Take, Send, Stop, CloseResults, vars, callerVars
    <2>4. QED
      BY <2>1, <2>2, <2>3
  <1>3. QED
    BY <1>1, <1>2, PoolAssumption, WorkInductive, PTL DEF Spec
---------------------------------------------------------------------------
(* Jobs and their results: every job that was taken is in one worker's hands *)
(* or has one result at most.                                                *)

\* What the types say of the jobs in hands and results.
LEMMA HeldJobs ==
    ASSUME PoolAssumption, TypeOK
    PROVE  /\ \A w \in Worker : hand[w] \in Nat /\ hand[w] <= Len(at)
           /\ \A i \in DOMAIN results : results[i] \in Nat /\ results[i] # 0
           /\ Worker \subseteq Nat
  <1>1. \A k \in Sent : k \in Nat /\ k # 0 /\ k <= Len(at)
    BY ListTypes DEF Sent
  <1>2. \A w \in Worker : hand[w] \in {0} \cup Sent
    BY DEF TypeOK
  <1>3. Len(at) \in Nat /\ \A i \in DOMAIN results : results[i] \in Sent
    BY ListTypes
  <1>4. QED
    BY <1>1, <1>2, <1>3 DEF PoolAssumption

\* What a step leaves alone that touches neither hands nor results.
LEMMA KeepsResults ==
    ASSUME ResultsInv, batch' = batch, taken' = taken, hand' = hand, results' = results,
           alive' = alive, closed \/ pc = "queue" => closed' \/ pc' = "queue"
    PROVE  ResultsInv'
  BY DEF ResultsInv, nonDeletedCount, Undeleted

LEMMA StartKeepsResults ==
    ASSUME PoolAssumption, WorkInv, ResultsInv, Start
    PROVE  ResultsInv'
  <1>1. batch' = batch /\ taken' = taken /\ hand' = hand /\ results' = results
    BY DEF Start, channelVars
  <1>2. alive = {}
    BY DEF Start, WorkInv, PhaseInv
  <1>3. alive' = {} \/ (pc' = "queue" /\ alive' = {w \in Worker : w <= nonDeletedCount})
    BY <1>2 DEF Start
  <1>4. QED
    BY <1>1, <1>3 DEF ResultsInv, nonDeletedCount, Undeleted

LEMMA CollectKeepsResults ==
    ASSUME PoolAssumption, WorkInv, ResultsInv, Collect
    PROVE  ResultsInv'
  <1>1. /\ pc = "collect" /\ results # <<>> /\ results' = Tail(results)
        /\ batch' = batch /\ taken' = taken /\ hand' = hand /\ alive' = alive /\ closed' = closed
    BY DEF Collect
  <1>2. closed
    BY <1>1 DEF WorkInv, PhaseInv
  <1>3. /\ Len(results') = Len(results) - 1 /\ Len(results') \in Nat
        /\ DOMAIN results' = 1..Len(results')
        /\ \A i \in 1..Len(results') : results'[i] = results[i + 1]
    BY <1>1, HeadTailProperties, LenProperties DEF WorkInv, TypeOK
  <1>4. \A i \in DOMAIN results' : i + 1 \in DOMAIN results /\ results'[i] = results[i + 1]
    BY <1>3, ListTypes DEF WorkInv
  <1>5. \A i, j \in DOMAIN results' : results'[i] = results'[j] => i = j
    <2>1. \A i, j \in DOMAIN results' : results'[i] = results'[j] => i + 1 = j + 1
      BY <1>4 DEF ResultsInv
    <2>2. QED
      BY <1>3, <2>1
  <1>6. QED
    BY <1>1, <1>2, <1>4, <1>5 DEF ResultsInv, nonDeletedCount, Undeleted

LEMMA TakeKeepsResults ==
    ASSUME PoolAssumption, WorkInv, ResultsInv, NEW w \in Worker, Take(w)
    PROVE  ResultsInv'
  <1>1. /\ hand[w] = 0 /\ taken' = taken + 1 /\ hand' = [hand EXCEPT ![w] = taken + 1]
        /\ batch' = batch /\ pc' = pc /\ results' = results /\ alive' = alive /\ closed' = closed
    BY DEF Take, callerVars
  <1>2. /\ \A v \in Worker : hand[v] \in Nat /\ hand[v] <= taken
        /\ \A i \in DOMAIN results : results[i] \in Nat /\ results[i] <= taken
        /\ taken \in Nat
    BY HeldJobs, ListTypes DEF WorkInv, ResultsInv
  <1>3. \A v \in Worker : hand'[v] = IF v = w THEN taken + 1 ELSE hand[v]
    BY <1>1 DEF WorkInv, TypeOK
  <1>4. \A v \in Worker : hand'[v] <= taken'
    BY <1>1, <1>2, <1>3
  <1>5. \A u, v \in Worker : hand'[u] = hand'[v] /\ hand'[u] # 0 => u = v
    <2>1. \A v \in Worker : hand[v] # taken + 1
      BY <1>2
    <2>2. QED
      BY <1>3, <2>1 DEF ResultsInv
  <1>6. \A i \in DOMAIN results' :
           results'[i] <= taken' /\ \A v \in Worker : hand'[v] # results'[i]
    BY <1>1, <1>2, <1>3 DEF ResultsInv
  <1>7. QED
    BY <1>1, <1>4, <1>5, <1>6 DEF ResultsInv, nonDeletedCount, Undeleted

LEMMA SendKeepsResults ==
    ASSUME PoolAssumption, WorkInv, ResultsInv, NEW w \in Worker, Send(w)
    PROVE  ResultsInv'
  <1>1. /\ hand[w] # 0 /\ results' = Append(results, hand[w]) /\ hand' = [hand EXCEPT ![w] = 0]
        /\ batch' = batch /\ pc' = pc /\ taken' = taken /\ alive' = alive /\ closed' = closed
    BY DEF Send, callerVars
  <1>2. hand[w] \in Sent
    BY <1>1 DEF WorkInv, TypeOK
  <1>3. /\ results' \in Seq(Sent) /\ Len(results') = Len(results) + 1
        /\ \A i \in 1..Len(results) : results'[i] = results[i]
        /\ results'[Len(results) + 1] = hand[w]
    BY <1>1, <1>2, AppendProperties DEF WorkInv, TypeOK
  <1>4. /\ DOMAIN results = 1..Len(results) /\ Len(results) \in Nat
        /\ DOMAIN results' = DOMAIN results \cup {Len(results) + 1}
    <2>1. DOMAIN results' = 1..(Len(results) + 1)
      BY <1>3, LenProperties
    <2>2. QED
      BY <2>1, ListTypes DEF WorkInv
  <1>5. \A v \in Worker : hand'[v] = IF v = w THEN 0 ELSE hand[v]
    BY <1>1 DEF WorkInv, TypeOK
  <1>6. (\A v \in Worker : hand'[v] <= taken') /\ taken \in Nat
    BY <1>1, <1>5, ListTypes DEF WorkInv, ResultsInv
  <1>7. \A u, v \in Worker : hand'[u] = hand'[v] /\ hand'[u] # 0 => u = v
    BY <1>5 DEF ResultsInv
  <1>8. ASSUME NEW i \in DOMAIN results'
        PROVE  results'[i] <= taken' /\ \A v \in Worker : hand'[v] # results'[i]
    <2>1. CASE i \in DOMAIN results
      <3>1. results'[i] = results[i] /\ results[i] # 0
        BY <1>3, <1>4, <2>1, HeldJobs DEF WorkInv
      <3>2. QED
        BY <1>1, <1>5, <2>1, <3>1 DEF ResultsInv
    <2>2. CASE i = Len(results) + 1
      BY <1>1, <1>3, <1>5, <2>2 DEF ResultsInv
    <2>3. QED
      BY <1>4, <2>1, <2>2
  <1>9. \A i, j \in DOMAIN results' : results'[i] = results'[j] => i = j
    <2>1. \A i \in DOMAIN results : results'[i] = results[i] /\ results[i] # hand[w]
      BY <1>3, <1>4 DEF ResultsInv
    <2>2. QED
      BY <1>3, <1>4, <2>1 DEF ResultsInv
  <1>10. QED
    BY <1>1, <1>6, <1>7, <1>8, <1>9 DEF ResultsInv, nonDeletedCount, Undeleted

LEMMA StopKeepsResults ==
    ASSUME ResultsInv, NEW w \in Worker, Stop(w)
    PROVE  ResultsInv'
  BY DEF Stop, ResultsInv, callerVars, channelVars, nonDeletedCount, Undeleted

\* A step keeps the whole invariant.
LEMMA PoolKept == ASSUME PoolAssumption, PoolInv, [Next]_vars PROVE PoolInv'
  <1>1. WorkInv /\ ResultsInv
    BY DEF PoolInv
  <1> SUFFICES ResultsInv'
    BY <1>1, WorkKept DEF PoolInv
  <1>2. CASE Skip \/ Queue \/ ParallelReturns \/ Parse \/ CloseResults
    <2>1. /\ batch' = batch /\ taken' = taken /\ hand' = hand /\ results' = results
          /\ alive' = alive /\ closed' = closed
      BY <1>2 DEF Skip, Queue, ParallelReturns, Parse, CloseResults, callerVars, channelVars
    <2>2. closed \/ pc = "queue" => closed' \/ pc' = "queue"
      BY <1>1, <1>2, <2>1 DEF Skip, Queue, ParallelReturns, Parse, CloseResults, callerVars,
                              WorkInv, PhaseInv
    <2>3. QED
      BY <1>1, <2>1, <2>2, KeepsResults
  <1>3. CASE CloseJobs
    BY <1>1, <1>3, KeepsResults DEF CloseJobs
  <1>4. CASE DecryptNext \/ SequentialReturns
    <2>1. alive = {} /\ alive' = {}
      BY <1>1, <1>4 DEF DecryptNext, SequentialReturns, WorkInv, PhaseInv
    <2>2. taken' = taken /\ hand' = hand /\ results' = results
      BY <1>4 DEF DecryptNext, SequentialReturns, channelVars
    <2>3. QED
      BY <1>1, <2>1, <2>2 DEF ResultsInv
  <1>5. CASE UNCHANGED vars
    BY <1>1, <1>5, KeepsResults DEF vars, callerVars, channelVars
  <1>6. CASE Caller
    BY <1>1, <1>2, <1>3, <1>4, <1>6, StartKeepsResults, CollectKeepsResults DEF Caller
  <1>7. ASSUME NEW w \in Worker, Work(w) PROVE ResultsInv'
    BY <1>1, <1>7, TakeKeepsResults, SendKeepsResults, StopKeepsResults DEF Work
  <1>8. QED
    BY <1>2, <1>5, <1>6, <1>7 DEF Next

\* However many items, workers and jobs there are, and in whatever order they
\* finish: jobs, hands, results, slice and answer are as PoolInv says in every
\* reachable state.
THEOREM PoolInductive == Spec => []PoolInv
  <1>1. Init => PoolInv
    <2> SUFFICES ASSUME Init PROVE ResultsInv
      BY WorkStarts, PoolAssumption DEF PoolInv
    <2>1. /\ taken = 0 /\ alive = {} /\ results = <<>>
          /\ \A w \in Worker : hand[w] = 0
      BY DEF Init
    <2>2. QED
      BY <2>1 DEF ResultsInv
  <1>2. PoolInv /\ [Next]_vars => PoolInv'
    BY PoolKept, PoolAssumption
  <1>3. QED
    BY <1>1, <1>2, PTL DEF Spec
---------------------------------------------------------------------------
(* Why a pool ends. *)

\* Jobs stand for undeleted items, each for another one.
LEMMA JobsAreItems ==
    ASSUME PoolAssumption, WorkInv
    PROVE  /\ \A k \in Sent : at[k] \in Undeleted
           /\ \A j, k \in Sent : at[j] = at[k] => j = k
  <1>1. Sent \subseteq Nat /\ \A k \in Sent : at[k] \in DOMAIN batch /\ at[k] \in Nat
    BY ListTypes DEF WorkInv, Sent
  <1>2. \A k \in Sent : at[k] \in Undeleted
    BY <1>1 DEF WorkInv, JobsInv, Undeleted
  <1>3. \A j, k \in Sent : j < k => at[j] < at[k]
    BY DEF WorkInv, JobsInv
  <1>4. ASSUME NEW j \in Sent, NEW k \in Sent, at[j] = at[k] PROVE j = k
    <2>1. ~(j < k) /\ ~(k < j)
      BY <1>1, <1>3, <1>4
    <2>2. QED
      BY <1>1, <2>1
  <1>5. QED
    BY <1>2, <1>4

\* The first n numbers, and subsets of them.
LEMMA FirstNumbers ==
    ASSUME NEW n \in Nat
    PROVE  /\ IsFiniteSet(1..n) /\ Cardinality(1..n) = n
           /\ \A S \in SUBSET (1..n) : IsFiniteSet(S) /\ Cardinality(S) <= n
  <1>1. IsFiniteSet(1..n) /\ Cardinality(1..n) = IF 1 > n THEN 0 ELSE n - 1 + 1
    BY FS_Interval
  <1>2. Cardinality(1..n) = n
    BY <1>1
  <1>3. ASSUME NEW S \in SUBSET (1..n) PROVE IsFiniteSet(S) /\ Cardinality(S) <= n
    <2>1. IsFiniteSet(S) /\ Cardinality(S) <= Cardinality(1..n)
      BY <1>1, FS_Subset
    <2>2. QED
      BY <1>2, <2>1
  <1>4. QED
    BY <1>1, <1>2, <1>3

\* There are finitely many undeleted items, at most as many as items.
LEMMA UndeletedCount ==
    ASSUME PoolAssumption, TypeOK
    PROVE  IsFiniteSet(Undeleted) /\ nonDeletedCount \in Nat /\ nonDeletedCount <= Len(batch)
  <1>1. Undeleted \subseteq 1..Len(batch) /\ Len(batch) \in Nat
    BY ListTypes DEF Undeleted
  <1>2. IsFiniteSet(Undeleted) /\ Cardinality(Undeleted) <= Len(batch)
    BY <1>1, FirstNumbers
  <1>3. QED
    BY <1>2, CountType DEF nonDeletedCount

\* The results channel has room for what is in a worker's hands: its capacity is
\* the number of undeleted items.
LEMMA RoomForResults ==
    ASSUME PoolAssumption, PoolInv, NEW w \in Worker, hand[w] # 0
    PROVE  Len(results) < nonDeletedCount
  <1>1. WorkInv /\ ResultsInv /\ hand[w] \in Sent
    BY DEF PoolInv, WorkInv, TypeOK
  <1> DEFINE others == Undeleted \ {at[hand[w]]}
             f == [i \in 1..Len(results) |-> at[results[i]]]
  <1>2. IsFiniteSet(Undeleted) /\ nonDeletedCount \in Nat
    BY <1>1, UndeletedCount DEF WorkInv
  <1>3. at[hand[w]] \in Undeleted
    BY <1>1, JobsAreItems
  <1>4. IsFiniteSet(others) /\ Cardinality(others) = nonDeletedCount - 1
    BY <1>2, <1>3, FS_RemoveElement DEF nonDeletedCount
  <1>5. /\ Len(results) \in Nat /\ DOMAIN results = 1..Len(results)
        /\ \A i \in 1..Len(results) : results[i] \in Sent
    BY <1>1, ListTypes DEF WorkInv
  <1>6. \A i \in 1..Len(results) : at[results[i]] \in others
    BY <1>1, <1>5, JobsAreItems DEF ResultsInv
  <1>7. \A i, j \in 1..Len(results) : at[results[i]] = at[results[j]] => i = j
    BY <1>1, <1>5, JobsAreItems DEF ResultsInv
  <1>8. f \in Injection(1..Len(results), others)
    BY <1>6, <1>7 DEF Injection, IsInjective
  <1>9. Cardinality(1..Len(results)) <= Cardinality(others)
    BY <1>4, <1>8, FS_Injection
  <1>10. Cardinality(1..Len(results)) = Len(results)
    BY <1>5, FirstNumbers
  <1>11. QED
    BY <1>2, <1>4, <1>5, <1>9, <1>10

\* The pool never comes to a standstill before its workers and its closer have
\* ended, also when the caller has stopped collecting at a failure.
THEOREM NobodyIsStuck == Spec => []NobodyStuck
  <1>1. PoolAssumption /\ PoolInv => NobodyStuck
    <2> SUFFICES ASSUME PoolAssumption, PoolInv, pc \in {"collect", "done"},
                        ~Ended, ~(closed /\ alive = {} /\ ~finished),
                        ~(pc = "collect" /\ finished)
                 PROVE  \E w \in alive : CanGo(w)
      BY DEF NobodyStuck, PoolInv, WorkInv, TypeOK
    <2>1. alive # {}
      BY DEF Ended, PoolInv, WorkInv, PhaseInv, TypeOK
    <2>2. closed
      BY <2>1 DEF PoolInv, ResultsInv
    <2>3. PICK w \in alive : w \in Worker
      BY <2>1 DEF PoolInv, WorkInv, TypeOK
    <2>4. CanGo(w)
      BY <2>2, <2>3, RoomForResults DEF CanGo
    <2>5. QED
      BY <2>4
  <1>2. QED
    BY <1>1, PoolAssumption, PoolInductive, PTL

\* The workers that run are finitely many, and so are the busy ones.
LEMMA WorkerCounts ==
    ASSUME PoolAssumption, PoolInv
    PROVE  /\ IsFiniteSet(alive) /\ Cardinality(alive) \in Nat
           /\ Cardinality(alive) <= nonDeletedCount
           /\ IsFiniteSet(Busy) /\ Cardinality(Busy) \in Nat
  <1>1. nonDeletedCount \in Nat
    BY UndeletedCount DEF PoolInv, WorkInv
  <1>2. alive \subseteq 1..nonDeletedCount
    <2>1. alive \subseteq Nat \ {0} /\ \A w \in alive : w <= nonDeletedCount
      BY DEF PoolInv, ResultsInv, WorkInv, TypeOK, PoolAssumption
    <2>2. QED
      BY <1>1, <2>1
  <1>3. IsFiniteSet(alive) /\ Cardinality(alive) <= nonDeletedCount
    BY <1>1, <1>2, FirstNumbers
  <1>4. IsFiniteSet(Busy)
    BY <1>3, FS_Subset DEF Busy
  <1>5. QED
    BY <1>3, <1>4, FS_CardinalityType
\* What is left to do is a number, and so is each part of it.
LEMMA StepsLeftType ==
    ASSUME PoolAssumption, PoolInv
    PROVE  /\ Len(batch) \in Nat /\ next \in Nat /\ next <= Len(batch) + 1
           /\ Len(at) \in Nat /\ taken \in Nat /\ taken <= Len(at)
           /\ Len(results) \in Nat /\ Cardinality(Busy) \in Nat
           /\ Cardinality(alive) \in Nat /\ Cardinality(alive) <= Len(batch)
           /\ PhasesLeft \in Nat /\ JobsLeft \in Nat /\ GoroutinesLeft \in Nat
  <1>1. /\ Len(batch) \in Nat /\ next \in Nat /\ next <= Len(batch) + 1
        /\ Len(at) \in Nat /\ taken \in Nat /\ taken <= Len(at) /\ Len(results) \in Nat
    BY ListTypes DEF PoolInv, WorkInv, TypeOK
  <1>2. /\ Cardinality(Busy) \in Nat /\ Cardinality(alive) \in Nat
        /\ Cardinality(alive) <= nonDeletedCount /\ nonDeletedCount \in Nat
        /\ nonDeletedCount <= Len(batch)
    BY WorkerCounts, UndeletedCount DEF PoolInv, WorkInv
  <1>3. PhasesLeft \in Nat
    BY <1>1 DEF PoolInv, WorkInv, TypeOK, PhasesLeft
  <1>4. JobsLeft \in Nat
    BY SMTT(30), <1>1, <1>2 DEF JobsLeft
  <1>5. GoroutinesLeft \in Nat
    BY <1>2 DEF GoroutinesLeft
  <1>6. QED
    BY <1>1, <1>2, <1>3, <1>4, <1>5

\* The same after a step.
NumbersLeft ==
    /\ Cardinality(alive) \in Nat /\ Cardinality(alive) <= Len(batch)
    /\ PhasesLeft \in Nat /\ JobsLeft \in Nat /\ GoroutinesLeft \in Nat
    /\ StepsLeft \in Nat

LEMMA NumbersLeftNext == PoolInv' => NumbersLeft'
  <1>1. PoolInv => NumbersLeft
    BY StepsLeftType, PoolAssumption DEF NumbersLeft, StepsLeft
  <1>2. QED
    BY <1>1, PTL

\* What the caller has before it, by where it is.
LEMMA PhasesLeftIs ==
    /\ pc = "start" => PhasesLeft = 4
    /\ pc \in {"sequential", "queue"} => PhasesLeft = 3
    /\ pc = "collect" => PhasesLeft = 2
    /\ pc = "parse" => PhasesLeft = 1
    /\ pc = "done" => PhasesLeft = 0
  BY DEF PhasesLeft

LEMMA PhasesLeftNext ==
    /\ pc' \in {"sequential", "queue"} => PhasesLeft' = 3
    /\ pc' = "collect" => PhasesLeft' = 2
    /\ pc' = "parse" => PhasesLeft' = 1
    /\ pc' = "done" => PhasesLeft' = 0
  BY DEF PhasesLeft

\* Less of one part, and no more of the others, is less.
LEMMA LessOfOne ==
    ASSUME NEW p \in Int, NEW j \in Int, NEW g \in Int,
           NEW pn \in Int, NEW jn \in Int, NEW gn \in Int,
           pn <= p, jn <= j, gn <= g, pn < p \/ jn < j \/ gn < g
    PROVE  pn + jn + gn < p + j + g
  OBVIOUS

LEMMA LessLeft ==
    ASSUME PoolAssumption, PoolInv, PoolInv',
           PhasesLeft' <= PhasesLeft, JobsLeft' <= JobsLeft, GoroutinesLeft' <= GoroutinesLeft,
           \/ PhasesLeft' < PhasesLeft
           \/ JobsLeft' < JobsLeft
           \/ GoroutinesLeft' < GoroutinesLeft
    PROVE  StepsLeft' < StepsLeft
  <1>1. PhasesLeft \in Int /\ JobsLeft \in Int /\ GoroutinesLeft \in Int
    BY StepsLeftType
  <1>2. PhasesLeft' \in Int /\ JobsLeft' \in Int /\ GoroutinesLeft' \in Int
    BY NumbersLeftNext DEF NumbersLeft
  <1>3. PhasesLeft' + JobsLeft' + GoroutinesLeft' < PhasesLeft + JobsLeft + GoroutinesLeft
    BY <1>1, <1>2, LessOfOne
  <1>4. QED
    BY <1>3 DEF StepsLeft

\* A step of the caller.
LEMMA CallerGoesOn ==
    ASSUME PoolAssumption, PoolInv, PoolInv', Caller
    PROVE  StepsLeft' < StepsLeft
  <1>1. /\ Len(batch) \in Nat /\ next \in Nat /\ Len(at) \in Nat /\ taken \in Nat
        /\ Len(results) \in Nat /\ Cardinality(Busy) \in Nat /\ Cardinality(alive) \in Nat
        /\ PhasesLeft \in Nat /\ JobsLeft \in Nat /\ GoroutinesLeft \in Nat
    BY StepsLeftType
  <1>2. /\ Cardinality(alive') \in Nat /\ Cardinality(alive') <= Len(batch')
        /\ PhasesLeft' \in Nat /\ JobsLeft' \in Nat /\ GoroutinesLeft' \in Nat
    BY NumbersLeftNext DEF NumbersLeft
  <1>3. batch' = batch /\ taken' = taken /\ finished' = finished /\ hand' = hand
    BY DEF Caller, Start, Skip, DecryptNext, SequentialReturns, Queue, CloseJobs, Collect,
           ParallelReturns, Parse, channelVars
  <1>4. CASE Start
    <2>1. /\ pc = "start" /\ pc' \in {"parse", "sequential", "queue"}
          /\ next' = next /\ at' = at /\ results' = results
      BY <1>4 DEF Start, channelVars
    <2>2. Busy' = Busy
      <3>1. \A w \in Worker : hand[w] = 0
        BY <2>1 DEF PoolInv, WorkInv, PhaseInv
      <3>2. alive \subseteq Worker /\ alive' \subseteq Worker
        BY DEF PoolInv, WorkInv, TypeOK
      <3>3. QED
        BY <1>3, <3>1, <3>2 DEF Busy
    <2>3. JobsLeft' = JobsLeft
      BY <1>3, <2>1, <2>2 DEF JobsLeft
    <2>4. PhasesLeft' < PhasesLeft
      BY <2>1, PhasesLeftIs, PhasesLeftNext
    <2>5. GoroutinesLeft' <= GoroutinesLeft
      BY <1>1, <1>2, <1>3, <2>1 DEF GoroutinesLeft
    <2>6. QED
      BY <1>1, <1>2, <2>3, <2>4, <2>5, LessLeft
  <1>5. CASE Skip \/ Queue \/ (DecryptNext /\ pc' = pc)
    <2>1. /\ pc \in {"sequential", "queue"} /\ pc' = pc /\ next' = next + 1 /\ alive' = alive
          /\ next \in DOMAIN batch /\ results' = results /\ (at' = at \/ at' = Append(at, next))
      BY <1>5 DEF Skip, Queue, DecryptNext, channelVars
    <2>2. PhasesLeft' = PhasesLeft
      BY <2>1, PhasesLeftIs, PhasesLeftNext
    <2>3. GoroutinesLeft' = GoroutinesLeft /\ Busy' = Busy
      BY <1>3, <2>1 DEF GoroutinesLeft, Busy
    <2>4. Len(at') = Len(at) \/ Len(at') = Len(at) + 1
      BY <2>1, AppendProperties DEF PoolInv, WorkInv, TypeOK
    <2>5. JobsLeft' < JobsLeft
      BY SMTT(30), <1>1, <1>3, <2>1, <2>3, <2>4 DEF JobsLeft
    <2>6. QED
      BY <1>1, <1>2, <2>2, <2>3, <2>5, LessLeft
  <1>6. CASE SequentialReturns \/ CloseJobs \/ ParallelReturns \/ Parse \/ (DecryptNext /\ pc' # pc)
    <2>1. /\ alive' = alive /\ next' = next /\ at' = at /\ results' = results
          /\ \/ pc = "sequential" /\ pc' = "parse"
             \/ pc = "queue" /\ pc' = "collect"
             \/ pc = "collect" /\ pc' = "parse"
             \/ pc = "parse" /\ pc' = "done"
      BY <1>6 DEF SequentialReturns, CloseJobs, ParallelReturns, Parse, DecryptNext, channelVars
    <2>2. PhasesLeft' < PhasesLeft
      BY <2>1, PhasesLeftIs, PhasesLeftNext
    <2>3. GoroutinesLeft' = GoroutinesLeft /\ JobsLeft' = JobsLeft
      BY <1>3, <2>1 DEF GoroutinesLeft, JobsLeft, Busy
    <2>4. QED
      BY <1>1, <1>2, <2>2, <2>3, LessLeft
  <1>7. CASE Collect
    <2>1. /\ pc = "collect" /\ pc' \in {"collect", "parse"} /\ alive' = alive /\ next' = next
          /\ at' = at /\ results # <<>> /\ results' = Tail(results)
      BY <1>7 DEF Collect
    <2>2. PhasesLeft' <= PhasesLeft
      BY <2>1, PhasesLeftIs, PhasesLeftNext
    <2>3. GoroutinesLeft' = GoroutinesLeft /\ Busy' = Busy
      BY <1>3, <2>1 DEF GoroutinesLeft, Busy
    <2>4. Len(results') = Len(results) - 1
      BY <2>1, HeadTailProperties DEF PoolInv, WorkInv, TypeOK
    <2>5. JobsLeft' < JobsLeft
      BY <1>1, <1>3, <2>1, <2>3, <2>4 DEF JobsLeft
    <2>6. QED
      BY <1>1, <1>2, <2>2, <2>3, <2>5, LessLeft
  <1>8. QED
    BY <1>4, <1>5, <1>6, <1>7 DEF Caller

\* A step of a worker.
LEMMA WorkerGoesOn ==
    ASSUME PoolAssumption, PoolInv, PoolInv', NEW w \in Worker, Work(w)
    PROVE  StepsLeft' < StepsLeft
  <1>1. /\ Len(batch) \in Nat /\ next \in Nat /\ Len(at) \in Nat /\ taken \in Nat
        /\ Len(results) \in Nat /\ Cardinality(Busy) \in Nat /\ Cardinality(alive) \in Nat
        /\ PhasesLeft \in Nat /\ JobsLeft \in Nat /\ GoroutinesLeft \in Nat
    BY StepsLeftType
  <1>2. JobsLeft' \in Nat /\ GoroutinesLeft' \in Nat
    BY NumbersLeftNext DEF NumbersLeft
  <1>3. /\ batch' = batch /\ next' = next /\ at' = at /\ finished' = finished
        /\ PhasesLeft' = PhasesLeft /\ pc' = pc
    BY DEF Work, Take, Send, Stop, callerVars, channelVars, PhasesLeft
  <1>4. IsFiniteSet(alive) /\ IsFiniteSet(Busy) /\ w \in alive
    BY WorkerCounts DEF Work, Take, Send, Stop
  <1>5. hand \in [Worker -> Nat] /\ alive \subseteq Worker
    BY HeldJobs DEF PoolInv, WorkInv, TypeOK
  <1>6. pc # "start"
    BY <1>4 DEF PoolInv, WorkInv, PhaseInv
  <1>7. CASE Take(w)
    <2>1. /\ hand[w] = 0 /\ taken' = taken + 1 /\ hand' = [hand EXCEPT ![w] = taken + 1]
          /\ results' = results /\ alive' = alive
      BY <1>7 DEF Take
    <2>2. Busy' = Busy \cup {w} /\ w \notin Busy
      <3>1. \A v \in alive : hand'[v] = IF v = w THEN taken + 1 ELSE hand[v]
        BY <1>5, <2>1
      <3>2. QED
        BY <1>1, <1>4, <2>1, <3>1 DEF Busy
    <2>3. Cardinality(Busy') = Cardinality(Busy) + 1
      BY <1>4, <2>2, FS_AddElement
    <2>4. JobsLeft' < JobsLeft
      BY SMTT(30), <1>1, <1>3, <2>1, <2>3 DEF JobsLeft
    <2>5. GoroutinesLeft' = GoroutinesLeft
      BY <1>3, <1>6, <2>1 DEF GoroutinesLeft
    <2>6. QED
      BY <1>1, <1>2, <1>3, <2>4, <2>5, LessLeft
  <1>8. CASE Send(w)
    <2>1. /\ hand[w] # 0 /\ taken' = taken /\ hand' = [hand EXCEPT ![w] = 0]
          /\ results' = Append(results, hand[w]) /\ alive' = alive
      BY <1>8 DEF Send
    <2>2. Busy' = Busy \ {w} /\ w \in Busy
      <3>1. \A v \in alive : hand'[v] = IF v = w THEN 0 ELSE hand[v]
        BY <1>5, <2>1
      <3>2. QED
        BY <1>4, <2>1, <3>1 DEF Busy
    <2>3. Cardinality(Busy') = Cardinality(Busy) - 1
      BY <1>4, <2>2, FS_RemoveElement
    <2>4. Len(results') = Len(results) + 1
      <3>1. hand[w] \in Sent
        BY <2>1 DEF PoolInv, WorkInv, TypeOK
      <3>2. QED
        BY <2>1, <3>1, AppendProperties DEF PoolInv, WorkInv, TypeOK
    <2>5. JobsLeft' < JobsLeft
      BY SMTT(30), <1>1, <1>3, <2>1, <2>3, <2>4 DEF JobsLeft
    <2>6. GoroutinesLeft' = GoroutinesLeft
      BY <1>3, <1>6, <2>1 DEF GoroutinesLeft
    <2>7. QED
      BY <1>1, <1>2, <1>3, <2>5, <2>6, LessLeft
  <1>9. CASE Stop(w)
    <2>1. /\ hand[w] = 0 /\ taken' = taken /\ hand' = hand /\ results' = results
          /\ alive' = alive \ {w}
      BY <1>9 DEF Stop, channelVars
    <2>2. Busy' = Busy
      BY <2>1 DEF Busy
    <2>3. JobsLeft' = JobsLeft
      BY <1>3, <2>1, <2>2 DEF JobsLeft
    <2>4. Cardinality(alive') = Cardinality(alive) - 1
      BY <1>4, <2>1, FS_RemoveElement
    <2>5. GoroutinesLeft' < GoroutinesLeft
      BY <1>1, <1>3, <1>6, <2>4 DEF GoroutinesLeft
    <2>6. QED
      BY <1>1, <1>2, <1>3, <2>3, <2>5, LessLeft
  <1>10. QED
    BY <1>7, <1>8, <1>9 DEF Work

\* Every step of the caller, a worker or the closer leaves less to do: however
\* they are scheduled, they take a bounded number of steps between them.
THEOREM PoolRunsOut == Spec => StepsRunOut
  <1>1. PoolAssumption /\ PoolInv /\ PoolInv' /\ [Next]_vars => [StepsLeft' < StepsLeft]_vars
    <2> SUFFICES ASSUME PoolAssumption, PoolInv, PoolInv', Next PROVE StepsLeft' < StepsLeft
      OBVIOUS
    <2>1. CASE CloseResults
      <3>1. /\ Cardinality(alive) \in Nat
            /\ PhasesLeft \in Nat /\ JobsLeft \in Nat /\ GoroutinesLeft \in Nat
        BY StepsLeftType
      <3>2. /\ batch' = batch /\ next' = next /\ at' = at /\ taken' = taken /\ results' = results
            /\ alive' = alive /\ hand' = hand /\ ~finished /\ finished'
            /\ PhasesLeft' = PhasesLeft /\ pc' = pc /\ pc # "start"
        BY <2>1 DEF CloseResults, callerVars, PhasesLeft, PoolInv, WorkInv, PhaseInv
      <3>3. JobsLeft' = JobsLeft
        BY <3>2 DEF JobsLeft, Busy
      <3>4. GoroutinesLeft' = GoroutinesLeft - 1
        BY <3>1, <3>2 DEF GoroutinesLeft
      <3>5. QED
        BY <3>1, <3>2, <3>3, <3>4 DEF StepsLeft
    <2>2. QED
      BY <2>1, CallerGoesOn, WorkerGoesOn DEF Next
  <1>2. PoolAssumption /\ PoolInv => StepsLeft \in Nat
    BY StepsLeftType DEF StepsLeft
  <1>3. QED
    BY <1>1, <1>2, PoolAssumption, PoolInductive, PTL DEF Spec, StepsRunOut
=============================================================================
