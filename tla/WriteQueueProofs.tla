-------------------------- MODULE WriteQueueProofs --------------------------
(***************************************************************************)
(* Proofs about WriteQueue, for any number of threads and calls, any sizes *)
(* of batches and any triggers: the queue of writers commits whole groups  *)
(* in order, keeps what it acknowledges and forgets nobody.                *)
(***************************************************************************)
EXTENDS WriteQueue, FiniteSetTheorems, TLAPS

(***************************************************************************)
(* The inductive invariant, by what it is about.                           *)
(***************************************************************************)
InQueue(t) == \E i \in DOMAIN writers : writers[i] = t

QueuePC == {"asleep", "signalled", "room", "roomwait", "append", "sync", "insert", "finish"}
FlushPC == {"flush", "flushwait"}
RangePC == {"range", "rangewait"}

\* A thread has the call that its place in the code belongs to.
CallFits(t) ==
    /\ pc[t] # "idle" => call[t] \in Writer
    /\ pc[t] \in QueuePC => call[t].op \in {"write", "flush"}
    /\ pc[t] \in QueuePC /\ call[t].op = "write" => call[t].size \in Sizes
    /\ pc[t] \in FlushPC => call[t].op = "flush"
    /\ pc[t] \in RangePC => call[t].op = "range"

\* The queue holds those whose write is not done, each once; the head alone is
\* awake; whoever is signalled and not in the queue is done.
QueueInv ==
    /\ \A i, j \in DOMAIN writers : writers[i] = writers[j] => i = j
    /\ \A i \in DOMAIN writers :
          /\ pc[writers[i]] \in QueuePC /\ ~done[writers[i]]
          /\ pc[writers[i]] = "asleep" <=> i # 1
          /\ pc[writers[i]] # "finish" => status[writers[i]] = "ok"
    /\ \A t \in Thread :
          /\ CallFits(t)
          /\ ~InQueue(t) => pc[t] \in {"idle", "signalled"} \cup FlushPC \cup RangePC
          /\ ~InQueue(t) /\ pc[t] = "signalled" => done[t]
    /\ mutex # Nil => pc[mutex] = "room"
    /\ closing # "open" => \A t \in Thread : pc[t] = "idle"

\* The background thread, its work and those who wait for it.
BackgroundInv ==
    /\ bg # "idle" => scheduled
    /\ bg = "idle" => ~is_manual /\ ~nested
    /\ bg \in {"build", "apply"} => imm # {}
    /\ inputs <= l0
    /\ manual # Nil => pc[manual] \in RangePC /\ ~done[manual]
    /\ is_manual /\ ~bgError => manual # Nil
    /\ \A t \in Thread : pc[t] \in {"roomwait", "flushwait", "rangewait"} => scheduled
    /\ closing = "waiting" => scheduled
    /\ closing = "open" /\ ~bgError /\ (imm # {} \/ manual # Nil \/ NeedsCompaction(l0)) => scheduled

\* Calls are numbered in the order of the queue, ahead of the sequence numbers.
NumbersInv ==
    /\ \A i, j \in DOMAIN writers : i < j => call[writers[i]].id < call[writers[j]].id
    /\ \A i \in DOMAIN writers : lastSequence + i <= call[writers[i]].id
    /\ \A t \in Thread : pc[t] # "idle" => call[t].id <= issued
    /\ lastSequence <= issued

\* Below every writer in the queue.
Past(k) == k <= issued /\ \A i \in DOMAIN writers : k < call[writers[i]].id

\* The first n writers are the group: every batch of theirs is in it.
GroupOf(n) ==
    /\ writers[n] = last_writer
    /\ \A i \in 1 .. n :
          /\ call[writers[i]].op = "write" => call[writers[i]].id \in Ids(group)
          /\ call[writers[i]].sync => call[writers[1]].sync
    /\ \A e \in group : \E i \in 1 .. n : e.id = call[writers[i]].id
    /\ Cardinality(group) <= n

\* How far the leader t has got with the group.
Progress(t) ==
    /\ call[t].op = "write"
    /\ pc[t] \in {"append", "sync"} => todo = group
    /\ pc[t] = "sync" => Ids(group) \subseteq InLog
    /\ pc[t] = "insert" => todo # {}
    /\ pc[t] = "finish" => todo = IF status[t] = "ok" THEN {} ELSE group
    /\ call[t].sync /\ pc[t] \in {"insert", "finish"} /\ status[t] = "ok" => Ids(group) \subseteq synced

GroupInv ==
    /\ (\A t \in Thread : ~Leading(t)) => group = {} /\ last_writer = Nil
    /\ \A t \in Thread : Leading(t) => Progress(t) /\ \E n \in DOMAIN writers : GroupOf(n)
    /\ IsFiniteSet(group)
    /\ \A e \in group : lastSequence < e.seq /\ e.seq <= lastSequence + Cardinality(group)
    /\ todo \subseteq group /\ group \ todo \subseteq mem

\* What is in the log and not of the group being written is past, and was
\* stored as a whole or not at all.
LogInv ==
    /\ \A e \in Logged \ group : e.seq <= lastSequence /\ Past(e.id)
    /\ QueueOrder
    /\ \A i \in DOMAIN log : log[i] # {} /\ (log[i] = group \/ log[i] \cap group = {})
    /\ \A i \in DOMAIN log : log[i] \cap group = {} =>
          Ids(log[i]) \subseteq Stored \/ Ids(log[i]) \cap Stored = {}

\* What a caller that was told the result would find.
Kept(k, ok, sync) ==
    /\ Past(k)
    /\ ok <=> k \in Stored
    /\ ok /\ sync => k \in synced \cup Ids(tables)

StoredInv == \A k \in Stored : Past(k) \/ k \in Ids(group \ todo)

ToldInv ==
    /\ \A a \in acked : a.op = "write" => Kept(a.id, a.ok, a.sync)
    /\ \A t \in Thread : pc[t] = "signalled" /\ done[t] /\ call[t].op = "write" =>
          Kept(call[t].id, status[t] = "ok", call[t].sync)

WriteQueueInv ==
    /\ TypeOK /\ QueueInv /\ BackgroundInv
    /\ NumbersInv /\ GroupInv /\ LogInv /\ StoredInv /\ ToldInv

-----------------------------------------------------------------------------
(***************************************************************************)
(* The group that BuildBatchGroup forms.                                   *)
(***************************************************************************)
\* A bounded set of naturals has a maximum.
LEMMA MaxOfBounded ==
    ASSUME NEW S \in SUBSET Nat, S # {}, NEW b \in Nat, \A x \in S : x <= b
    PROVE  Max(S) \in S
<1> DEFINE R == OpToRel(<, Nat)
           T == {b - x : x \in S}
<1>1. T \subseteq Nat /\ T # {}
  <2> HIDE DEF R
  <2>1. ASSUME NEW x \in S PROVE b - x \in Nat
    BY <2>1
  <2>2. T \subseteq Nat
    BY <2>1
  <2>3. PICK x \in S : TRUE
    OBVIOUS
  <2>4. b - x \in T
    BY <2>3
  <2> QED
    BY <2>2, <2>4
<1>2. PICK d \in T : \A y \in T : ~(<<y, d>> \in R)
  <2>1. IsWellFoundedOn(R, Nat)
    BY NatLessThanWellFounded
  <2> QED
    BY <1>1, <2>1, WFMin
<1>3. \A y \in T : ~(y < d)
  BY <1>1, <1>2 DEF OpToRel
<1>4. PICK m \in S : d = b - m
  OBVIOUS
<1>5. ASSUME NEW y \in S PROVE m >= y
  <2>1. b - y \in T
    OBVIOUS
  <2> QED
    BY <1>3, <1>4, <2>1
<1> QED
  BY <1>5 DEF Max

\* The head is always in, so there is a group.
LEMMA GroupLengthType ==
    ASSUME writers \in Seq(Thread), writers # <<>>
    PROVE  GroupLength \in 1 .. Len(writers) /\ GroupFits(GroupLength)
<1> DEFINE S == {n \in 1 .. Len(writers) : GroupFits(n)}
<1>1. GroupFits(1)
  BY DEF GroupFits, GroupSyncs
<1>2. S \in SUBSET Nat /\ S # {} /\ Len(writers) \in Nat /\ \A x \in S : x <= Len(writers)
  BY <1>1
<1>3. Max(S) \in S
  BY <1>2, MaxOfBounded
<1> QED
  BY <1>3 DEF GroupLength

\* Ranks: from 1 on, at most the place in the queue, rising with it.
LEMMA RankFacts ==
    ASSUME GroupLength \in Nat
    PROVE  /\ IsFiniteSet(Batches) /\ Cardinality(Batches) \in Nat
           /\ Cardinality(Batches) <= GroupLength
           /\ \A i \in Batches : /\ Rank(i) \in Nat /\ 1 <= Rank(i) /\ Rank(i) <= i
                                 /\ Rank(i) <= Cardinality(Batches)
           /\ \A i, j \in Batches : i < j => Rank(i) < Rank(j)
<1> DEFINE B(i) == {j \in Batches : j <= i}
<1>0. Batches \subseteq 1 .. GroupLength
  BY DEF Batches
<1>1. IsFiniteSet(1 .. GroupLength) /\ Cardinality(1 .. GroupLength) = GroupLength
  BY FS_Interval
<1>2. IsFiniteSet(Batches) /\ Cardinality(Batches) <= GroupLength
  BY <1>0, <1>1, FS_Subset
<1>3. Cardinality(Batches) \in Nat
  BY <1>2, FS_CardinalityType
<1>4. ASSUME NEW i \in Batches
      PROVE  /\ IsFiniteSet(B(i)) /\ Rank(i) = Cardinality(B(i)) /\ Rank(i) \in Nat
             /\ Rank(i) <= Cardinality(Batches)
  <2>1. B(i) \in SUBSET Batches
    OBVIOUS
  <2>2. IsFiniteSet(B(i)) /\ Cardinality(B(i)) <= Cardinality(Batches)
    BY <1>2, <2>1, FS_Subset
  <2> QED
    BY <2>2, FS_CardinalityType DEF Rank
<1>5. ASSUME NEW i \in Batches PROVE 1 <= Rank(i) /\ Rank(i) <= i
  <2>1. i \in Nat /\ i >= 1
    BY <1>0
  <2>2. B(i) \in SUBSET (1 .. i)
    <3>1. ASSUME NEW k \in B(i) PROVE k \in 1 .. i
      BY <1>0, <2>1, <3>1
    <3> QED
      BY <3>1
  <2>3. IsFiniteSet(1 .. i) /\ Cardinality(1 .. i) = i
    BY <2>1, FS_Interval
  <2>4. Cardinality(B(i)) <= i
    BY <2>2, <2>3, FS_Subset
  <2>5. i \in B(i)
    BY <2>1
  <2>6. Cardinality(B(i)) # 0
    BY <1>4, <2>5, FS_EmptySet
  <2> QED
    BY <1>4, <2>4, <2>6
<1>6. ASSUME NEW i \in Batches, NEW j \in Batches, i < j PROVE Rank(i) < Rank(j)
  <2>1. B(i) \in SUBSET B(j)
    <3>1. ASSUME NEW k \in B(i) PROVE k \in B(j)
      BY <1>0, <1>6, <3>1
    <3> QED
      BY <3>1
  <2>2. j \in B(j) /\ j \notin B(i)
    BY <1>0, <1>6
  <2>3. Cardinality(B(i)) <= Cardinality(B(j)) /\ Cardinality(B(j)) # Cardinality(B(i))
    BY <1>4, <2>1, <2>2, FS_Subset
  <2> QED
    BY <1>4, <2>3
<1> QED
  BY <1>2, <1>3, <1>4, <1>5, <1>6

\* What RoomFound makes of the queue: consecutive sequence numbers in the order
\* of the calls, one for each batch.
\* The counters are numbers.
LEMMA Counters ==
    ASSUME TypeOK PROVE lastSequence \in Nat /\ issued \in Nat
<1>1. MaxOps \in Nat
  BY WriteQueueAssumption
<1>2. lastSequence \in 0 .. MaxOps /\ issued \in 0 .. MaxOps
  BY DEF TypeOK
<1> QED
  BY <1>1, <1>2

LEMMA BatchGroupFacts ==
    ASSUME TypeOK, QueueInv, NumbersInv, writers # <<>>
    PROVE  /\ BatchGroup \subseteq Entry /\ IsFiniteSet(BatchGroup)
           /\ Cardinality(BatchGroup) \in Nat /\ Cardinality(BatchGroup) <= GroupLength
           /\ \A e \in BatchGroup : /\ lastSequence < e.seq
                                    /\ e.seq <= lastSequence + Cardinality(BatchGroup)
           /\ \A e, f \in BatchGroup : e.id < f.id <=> e.seq < f.seq
           /\ \A e \in BatchGroup : \E i \in 1 .. GroupLength : e.id = call[writers[i]].id
           /\ \A i \in 1 .. GroupLength :
                 call[writers[i]].op = "write" => call[writers[i]].id \in Ids(BatchGroup)
<1> DEFINE entry(i) == [id |-> call[writers[i]].id, size |-> call[writers[i]].size,
                        seq |-> lastSequence + Rank(i)]
<1>0. GroupLength \in 1 .. Len(writers) /\ writers \in Seq(Thread) /\ Len(writers) \in Nat
  BY GroupLengthType DEF TypeOK
<1>1. BatchGroup = {entry(i) : i \in Batches}
  BY DEF BatchGroup
<1>2. ASSUME NEW i \in Batches
      PROVE  /\ i \in 1 .. GroupLength /\ i \in DOMAIN writers /\ writers[i] \in Thread
             /\ call[writers[i]] \in Writer /\ call[writers[i]].op = "write"
             /\ call[writers[i]].size \in Sizes /\ call[writers[i]].id \in 1 .. MaxOps
             /\ lastSequence + i <= call[writers[i]].id
  <2>1. i \in 1 .. GroupLength /\ i \in DOMAIN writers /\ call[writers[i]].op = "write"
    BY <1>0 DEF Batches
  <2>2. writers[i] \in Thread /\ pc[writers[i]] \in QueuePC
    BY <1>0, <2>1 DEF QueueInv
  <2>3. call[writers[i]] \in Writer /\ call[writers[i]].size \in Sizes
    BY <2>1, <2>2 DEF QueueInv, CallFits, QueuePC
  <2> QED
    BY <2>1, <2>2, <2>3 DEF Writer, NumbersInv
<1>r. /\ IsFiniteSet(Batches) /\ Cardinality(Batches) \in Nat
      /\ Cardinality(Batches) <= GroupLength
      /\ \A i \in Batches : /\ Rank(i) \in Nat /\ 1 <= Rank(i) /\ Rank(i) <= i
                            /\ Rank(i) <= Cardinality(Batches)
      /\ \A i, j \in Batches : i < j => Rank(i) < Rank(j)
  BY <1>0, RankFacts
<1>s. lastSequence \in 0 .. MaxOps /\ MaxOps \in Nat
  BY WriteQueueAssumption DEF TypeOK
<1>3. ASSUME NEW i \in Batches
      PROVE  /\ entry(i) \in Entry /\ lastSequence < entry(i).seq
             /\ entry(i).seq <= lastSequence + Cardinality(Batches)
  <2>1. lastSequence + Rank(i) \in 0 .. MaxOps
    <3> DEFINE rank == Rank(i)
               id == call[writers[i]].id
    <3>1. i \in 1 .. GroupLength /\ id \in 1 .. MaxOps /\ lastSequence + i <= id
      BY <1>2
    <3>2. rank \in Nat /\ rank <= i
      BY <1>r
    <3>3. i \in Nat
      BY <1>0, <3>1
    <3> HIDE DEF rank, id
    <3>4. lastSequence + rank \in 0 .. MaxOps
      BY <1>s, <3>1, <3>2, <3>3
    <3> QED
      BY <3>4 DEF rank
  <2> QED
    BY <1>2, <1>r, <1>s, <2>1 DEF Entry
<1>4. ASSUME NEW i \in Batches, NEW j \in Batches
      PROVE  /\ entry(i).id < entry(j).id <=> i < j
             /\ entry(i).seq < entry(j).seq <=> i < j
  <2>0. i \in Nat /\ j \in Nat /\ call[writers[i]].id \in Nat /\ call[writers[j]].id \in Nat
        /\ lastSequence \in Nat /\ Rank(i) \in Nat /\ Rank(j) \in Nat
    <3>1. i \in 1 .. GroupLength /\ call[writers[i]].id \in 1 .. MaxOps
      BY <1>2
    <3>2. j \in 1 .. GroupLength /\ call[writers[j]].id \in 1 .. MaxOps
      BY <1>2
    <3>3. Rank(i) \in Nat /\ Rank(j) \in Nat
      BY <1>r
    <3> QED
      BY <1>0, <1>s, <3>1, <3>2, <3>3
  <2>1. i < j => call[writers[i]].id < call[writers[j]].id /\ Rank(i) < Rank(j)
    BY <1>2, <1>r DEF NumbersInv
  <2>2. j < i => call[writers[j]].id < call[writers[i]].id /\ Rank(j) < Rank(i)
    BY <1>2, <1>r DEF NumbersInv
  <2> QED
    BY <2>0, <2>1, <2>2
<1>5. IsFiniteSet(BatchGroup) /\ Cardinality(BatchGroup) = Cardinality(Batches)
  <2> DEFINE F == [i \in Batches |-> entry(i)]
  <2>1. F \in [Batches -> BatchGroup] /\ \A e \in BatchGroup : \E i \in Batches : F[i] = e
    BY <1>1
  <2>2. ASSUME NEW i \in Batches, NEW j \in Batches, F[i] = F[j] PROVE i = j
    <3>1. entry(i) = entry(j)
      BY <2>2
    <3>2. ~(i < j) /\ ~(j < i)
      <4>1. entry(i).seq = entry(j).seq /\ entry(i).seq \in Nat
        BY <1>3, <3>1 DEF Entry
      <4> HIDE DEF entry
      <4> QED
        BY <1>4, <4>1
    <3> QED
      BY <1>0, <1>2, <3>2
  <2>3. F \in Bijection(Batches, BatchGroup)
    <3> HIDE DEF F
    <3> QED
      BY <2>1, <2>2 DEF Bijection, Injection, Surjection, IsInjective
  <2>4. ExistsBijection(Batches, BatchGroup)
    <3> HIDE DEF F
    <3> QED
      BY <2>3 DEF ExistsBijection
  <2> QED
    BY <1>r, <2>4, FS_Bijection
<1>6. ASSUME NEW i \in 1 .. GroupLength, call[writers[i]].op = "write"
      PROVE  call[writers[i]].id \in Ids(BatchGroup)
  <2>1. i \in Batches
    BY <1>6 DEF Batches
  <2>2. entry(i) \in BatchGroup /\ entry(i).id = call[writers[i]].id
    BY <1>1, <2>1
  <2> HIDE DEF entry
  <2> QED
    BY <2>2 DEF Ids
<1>7. \A e, f \in BatchGroup : e.id < f.id <=> e.seq < f.seq
  <2> HIDE DEF entry
  <2> QED
    BY <1>1, <1>4
<1>8. \A e \in BatchGroup : \E i \in 1 .. GroupLength : e.id = call[writers[i]].id
  BY <1>1, <1>2
<1>9. \A e \in BatchGroup : /\ e \in Entry /\ lastSequence < e.seq
                            /\ e.seq <= lastSequence + Cardinality(BatchGroup)
  <2> HIDE DEF entry
  <2> QED
    BY <1>1, <1>3, <1>5
<1> QED
  BY <1>5, <1>6, <1>7, <1>8, <1>9, <1>r

-----------------------------------------------------------------------------
(***************************************************************************)
(* What the steps that several actions share do.                           *)
(***************************************************************************)
\* SignalAll moves those who wait for the background thread, and nobody else.
LEMMA WokenFacts ==
    ASSUME pc \in [Thread -> PC], NEW t \in Thread
    PROVE  /\ pc[t] = "roomwait" => Woken(pc)[t] = "room"
           /\ pc[t] = "flushwait" => Woken(pc)[t] = "flush"
           /\ pc[t] = "rangewait" => Woken(pc)[t] = "range"
           /\ pc[t] \notin {"roomwait", "flushwait", "rangewait"} => Woken(pc)[t] = pc[t]
BY DEF Woken, PC

LEMMA WokenType == ASSUME pc \in [Thread -> PC] PROVE Woken(pc) \in [Thread -> PC]
BY DEF Woken, PC

\* The background thread touches neither the queue nor the group nor the log,
\* and moves batches only from imm_ to a table.
LEMMA BackgroundEffect ==
    ASSUME Background
    PROVE  /\ UNCHANGED <<call, status, force, allow_delay, mutex, writers, groups, log, synced,
                          mem, lastSequence, issued, acked>>
           /\ mutex = Nil
           /\ pc' = pc \/ pc' = Woken(pc)
           /\ closing' = closing \/ closing' = WokenDestructor
           /\ \/ UNCHANGED <<done, manual>>
              \/ manual # Nil /\ manual' = Nil /\ done' = done
              \/ manual # Nil /\ manual' = Nil /\ done' = [done EXCEPT ![manual] = TRUE]
           /\ UNCHANGED <<imm, tables>> \/ (bg = "apply" /\ imm' = {} /\ tables' = tables \cup UNION imm)
<1>1. CASE BackgroundNothing
  BY <1>1 DEF BackgroundNothing, FinishCall, BgLock, store, history
<1>2. CASE BackgroundCompaction
  BY <1>2 DEF BackgroundCompaction, BgLock, locals, store, history
<1>3. CASE BuildTable
  BY <1>3 DEF BuildTable, AfterFlush, FinishCall, BgLock, store
<1>4. CASE FlushMemTable
  BY <1>4 DEF FlushMemTable, AfterFlush, FinishCall, BgLock
<1>5. CASE DoCompactionWork
  BY <1>5 DEF DoCompactionWork, FinishCompaction, FinishCall, BgLock, store
<1>6. CASE InstallCompactionResults
  BY <1>6 DEF InstallCompactionResults, FinishCompaction, FinishCall, BgLock, store
<1> QED
  BY <1>1, <1>2, <1>3, <1>4, <1>5, <1>6 DEF Background

\* The end of Write for the head t: the first n writers leave and are told the
\* result, the next is woken.
Popped(t, n, result, at) ==
    /\ writers' \in Seq(Thread) /\ Len(writers') = Len(writers) - n
    /\ \A i \in DOMAIN writers' : n + i \in DOMAIN writers /\ writers'[i] = writers[n + i]
    /\ status' \in [Thread -> Status] /\ done' \in [Thread -> BOOLEAN]
    /\ \A i \in 1 .. n : status'[writers[i]] = result
    /\ \A i \in 2 .. n : done'[writers[i]]
    /\ \A s \in Thread : (\A i \in 1 .. n : writers[i] # s) => status'[s] = status[s]
    /\ \A s \in Thread : (\A i \in 2 .. n : writers[i] # s) => done'[s] = done[s]
    /\ pc' \in [Thread -> PC] /\ pc'[t] = AfterWrite(t, result)
    /\ \A s \in Thread \ {t} :
          pc'[s] = IF at[s] = "asleep" /\ \E i \in DOMAIN writers : i <= n + 1 /\ writers[i] = s
                   THEN "signalled" ELSE at[s]
    /\ acked' = acked \cup Acknowledge(t, result) /\ mutex' = Nil

LEMMA PopGroupEffect ==
    ASSUME TypeOK, QueueInv, NEW t \in Thread, NEW n \in DOMAIN writers, writers[1] = t,
           NEW result \in Status, NEW at \in [Thread -> PC], PopGroup(t, writers[n], result, at)
    PROVE  Popped(t, n, result, at)
<1> DEFINE last == writers[n]
           m == CHOOSE i \in DOMAIN writers : writers[i] = last
           members == {writers[i] : i \in 1 .. n} \ {t}
           head == IF n < Len(writers) THEN {writers[n + 1]} ELSE {}
<1>0. writers \in Seq(Thread) /\ Len(writers) \in Nat /\ DOMAIN writers = 1 .. Len(writers)
  BY DEF TypeOK
<1>1. m = n
  <2>1. m \in DOMAIN writers /\ writers[m] = last
    OBVIOUS
  <2> HIDE DEF m
  <2> QED
    BY <2>1 DEF QueueInv
<1>2. /\ writers' = SubSeq(writers, n + 1, Len(writers))
      /\ status' = [s \in Thread |-> IF s \in members \cup {t} THEN result ELSE status[s]]
      /\ done' = [s \in Thread |-> s \in members \/ done[s]]
      /\ pc' = [s \in Thread |->
                  IF s = t THEN AfterWrite(t, result)
                  ELSE IF s \in members \cup head /\ at[s] = "asleep" THEN "signalled"
                  ELSE at[s]]
      /\ acked' = acked \cup Acknowledge(t, result)
      /\ mutex' = Nil
  <2> HIDE DEF m
  <2> QED
    BY <1>1 DEF PopGroup, m
<1> HIDE DEF m
<1>3. writers' \in Seq(Thread) /\ Len(writers') = Len(writers) - n
  BY <1>0, <1>2
<1>4. ASSUME NEW i \in DOMAIN writers' PROVE n + i \in DOMAIN writers /\ writers'[i] = writers[n + i]
  BY <1>0, <1>2, <1>3, <1>4
<1>5. \A i \in 1 .. n : writers[i] \in Thread
  BY <1>0
<1>6. \A i \in 2 .. n : writers[i] # t
  BY <1>0 DEF QueueInv
<1>7. \A s : s \in members <=> \E i \in 2 .. n : writers[i] = s
  <2>1. \A i \in 1 .. n : i = 1 \/ i \in 2 .. n
    BY <1>0
  <2>2. \A i \in 2 .. n : i \in 1 .. n
    BY <1>0
  <2> QED
    BY <1>6, <2>1, <2>2
<1>8. \A s : s \in members \cup {t} <=> \E i \in 1 .. n : writers[i] = s
  <2>1. 1 \in 1 .. n
    BY <1>0
  <2> QED
    BY <2>1
<1>9. \A s \in Thread \ {t} :
         s \in members \cup head <=> \E i \in DOMAIN writers : i <= n + 1 /\ writers[i] = s
  <2>1. \A i \in DOMAIN writers : i <= n + 1 => i \in 1 .. n \/ (i = n + 1 /\ n < Len(writers))
    BY <1>0
  <2>2. \A i \in 1 .. n : i \in DOMAIN writers /\ i <= n + 1
    BY <1>0
  <2>3. n < Len(writers) => n + 1 \in DOMAIN writers /\ n + 1 <= n + 1
    BY <1>0
  <2> QED
    BY <2>1, <2>2, <2>3
<1> HIDE DEF members, head
<1>10. AfterWrite(t, result) \in PC
  BY DEF AfterWrite, PC
<1>11. pc' \in [Thread -> PC]
  BY <1>2, <1>10 DEF PC
<1>12. status' \in [Thread -> Status]
  BY <1>2 DEF TypeOK
<1>13. done' \in [Thread -> BOOLEAN]
  BY <1>2 DEF TypeOK
<1>14. \A i \in 1 .. n : status'[writers[i]] = result
  BY <1>2, <1>5, <1>8
<1>15. \A i \in 2 .. n : done'[writers[i]]
  <2>1. \A i \in 2 .. n : writers[i] \in Thread
    BY <1>0, <1>5
  <2> QED
    BY <1>2, <1>7, <2>1
<1>16. \A s \in Thread : (\A i \in 1 .. n : writers[i] # s) => status'[s] = status[s]
  BY <1>2, <1>8
<1>17. \A s \in Thread : (\A i \in 2 .. n : writers[i] # s) => done'[s] = done[s]
  <2>1. ASSUME NEW s \in Thread, s \notin members PROVE done'[s] = done[s]
    <3>1. done[s] \in BOOLEAN
      BY DEF TypeOK
    <3> QED
      BY <1>2, <2>1, <3>1
  <2> QED
    BY <1>7, <2>1
<1>18. \A s \in Thread \ {t} :
                 pc'[s] = IF at[s] = "asleep" /\ \E i \in DOMAIN writers : i <= n + 1 /\ writers[i] = s
                          THEN "signalled" ELSE at[s]
  <2> SUFFICES ASSUME NEW s \in Thread \ {t}
               PROVE  pc'[s] = IF at[s] = "asleep" /\ \E i \in DOMAIN writers : i <= n + 1 /\ writers[i] = s
                               THEN "signalled" ELSE at[s]
    OBVIOUS
  <2>1. pc'[s] = IF s \in members \cup head /\ at[s] = "asleep" THEN "signalled" ELSE at[s]
    BY <1>2
  <2> QED
    BY <1>9, <2>1
<1> QED
  BY <1>2, <1>3, <1>4, <1>11, <1>12, <1>13, <1>14, <1>15, <1>16, <1>17, <1>18 DEF Popped

-----------------------------------------------------------------------------
(***************************************************************************)
(* Types.                                                                  *)
(***************************************************************************)
Answer == [op : Ops, id : 1 .. MaxOps, sync : BOOLEAN, ok : BOOLEAN]

LEMMA AnswerType ==
    ASSUME NEW t \in Thread, call[t] \in Writer, NEW result
    PROVE  Acknowledge(t, result) \subseteq Answer
<1> DEFINE answer(ok) == [op |-> call[t].op, id |-> call[t].id, sync |-> call[t].sync, ok |-> ok]
<1>1. \A ok \in BOOLEAN : answer(ok) \in Answer
  BY DEF Answer, Writer, WriteOptions
<1>2. (result = "ok") \in BOOLEAN
  OBVIOUS
<1>3. Acknowledge(t, result) \in {{}, {answer(result = "ok")}}
  BY Zenon DEF Acknowledge
<1> HIDE DEF answer
<1>4. answer(result = "ok") \in Answer
  BY <1>1, <1>2, Zenon
<1> QED
  BY <1>3, <1>4, Zenon

\* The head of the queue: who goes through MakeRoomForWrite or writes the log.
LEMMA HeadOfQueue ==
    ASSUME TypeOK, QueueInv, NEW t \in Thread,
           pc[t] \in {"room", "roomwait", "append", "sync", "insert", "finish"}
    PROVE  /\ writers \in Seq(Thread) /\ 1 \in DOMAIN writers /\ writers # <<>> /\ writers[1] = t
           /\ call[t] \in Writer /\ call[t].op \in {"write", "flush"} /\ ~done[t]
           /\ pc[t] # "finish" => status[t] = "ok"
<1>1. InQueue(t)
  BY DEF QueueInv, FlushPC, RangePC
<1>2. PICK i \in DOMAIN writers : writers[i] = t
  BY <1>1 DEF InQueue
<1>3. i = 1
  BY <1>2 DEF QueueInv
<1> QED
  BY <1>2, <1>3 DEF QueueInv, TypeOK, CallFits, QueuePC

\* A group is being written only while its leader is at it.
LEMMA NoLeader ==
    ASSUME TypeOK, QueueInv, GroupInv, NEW t \in Thread, writers # <<>>, writers[1] = t, ~Leading(t)
    PROVE  group = {} /\ todo = {} /\ last_writer = Nil
<1>1. ASSUME NEW s \in Thread PROVE ~Leading(s)
  BY HeadOfQueue DEF Leading
<1> QED
  BY <1>1 DEF GroupInv

LEMMA LeaderGroup ==
    ASSUME TypeOK, QueueInv, GroupInv, NEW t \in Thread, Leading(t)
    PROVE  /\ writers[1] = t /\ Progress(t)
           /\ \E n \in DOMAIN writers : GroupOf(n)
BY HeadOfQueue DEF Leading, GroupInv

LEMMA TypeStep ==
    ASSUME WriteQueueInv, Next PROVE TypeOK'
<1> USE DEF WriteQueueInv
<1>a. /\ Nil \notin Thread /\ Sizes \subseteq Nat \ {0} /\ Ops \subseteq {"write", "flush", "range"}
      /\ MaxOps \in Nat /\ MaxFailures \in Nat
  BY WriteQueueAssumption
<1>b. ASSUME Fail PROVE failures' \in 0 .. MaxFailures
  BY <1>a, <1>b DEF Fail, TypeOK
<1>p. ASSUME NEW t \in Thread, NEW n \in DOMAIN writers, writers[1] = t, NEW result \in Status,
             NEW at \in [Thread -> PC], PopGroup(t, writers[n], result, at), call[t] \in Writer
      PROVE  /\ pc' \in [Thread -> PC] /\ status' \in [Thread -> Status]
             /\ done' \in [Thread -> BOOLEAN] /\ writers' \in Seq(Thread) /\ mutex' \in MutexLock
             /\ acked' \subseteq Answer
  <2>1. Popped(t, n, result, at) /\ Acknowledge(t, result) \subseteq Answer
    BY <1>p, PopGroupEffect, AnswerType
  <2> QED
    BY <2>1 DEF Popped, TypeOK, Answer, MutexLock
<1>1. ASSUME NEW t \in Thread, NEW op \in Ops, NEW sync \in BOOLEAN, NEW size \in Sizes \cup {0},
             Write(t, op, sync, size)
      PROVE  TypeOK'
  <2>1. [op |-> op, sync |-> sync, size |-> size, id |-> issued + 1] \in Writer
    BY <1>a, <1>1 DEF Write, Writer, WriteOptions, TypeOK
  <2>2. call' \in [Thread -> Writer \cup {Nil}] /\ issued' \in 0 .. MaxOps
    BY <1>a, <1>1, <2>1 DEF Write, TypeOK
  <2>3. writers' \in Seq(Thread) /\ pc' \in [Thread -> PC] /\ mutex' \in MutexLock
    BY <1>1 DEF Write, TypeOK, PC, MutexLock
  <2>4. force' \in BOOLEAN /\ allow_delay' \in BOOLEAN
    BY <1>1 DEF Write, TypeOK
  <2>5. done' \in [Thread -> BOOLEAN] /\ status' \in [Thread -> Status]
    BY <1>1 DEF Write, TypeOK, Status
  <2> QED
    BY <1>1, <2>2, <2>3, <2>4, <2>5 DEF Write, TypeOK, groups, store, work
<1>2. ASSUME NEW t \in Thread, Wake(t) PROVE TypeOK'
  <2>1. call[t] \in Writer
    BY <1>2 DEF Wake, QueueInv, CallFits
  <2>2. acked' \subseteq Answer
    BY <1>2, <2>1, AnswerType DEF Wake, TypeOK, Answer
  <2>3. pc' \in [Thread -> PC] /\ mutex' \in MutexLock /\ force' \in BOOLEAN /\ allow_delay' \in BOOLEAN
    BY <1>2 DEF Wake, TypeOK, PC, MutexLock, AfterWrite
  <2> QED
    BY <1>2, <2>2, <2>3 DEF Wake, TypeOK, Answer, groups, store, work
<1>3. ASSUME NEW t \in Thread, RoomError(t) \/ NoNewLogFile(t) PROVE TypeOK'
  <2>1. /\ 1 \in DOMAIN writers /\ writers[1] = t /\ call[t] \in Writer
        /\ pc \in [Thread -> PC] /\ "error" \in Status
    BY <1>3, HeadOfQueue DEF RoomError, NoNewLogFile, InRoom, TypeOK, Status
  <2>2. PopGroup(t, writers[1], "error", pc)
    BY <1>3, <2>1 DEF RoomError, NoNewLogFile
  <2>3. failures' \in 0 .. MaxFailures
    BY <1>3, <1>b DEF RoomError, NoNewLogFile, TypeOK
  <2>4. /\ pc' \in [Thread -> PC] /\ status' \in [Thread -> Status]
        /\ done' \in [Thread -> BOOLEAN] /\ writers' \in Seq(Thread) /\ mutex' \in MutexLock
        /\ acked' \subseteq Answer
    BY <1>p, <2>1, <2>2
  <2>5. UNCHANGED <<call, force, allow_delay, groups, store, l0, work, scheduled, manual, bgError,
                    closing, crashed, issued>>
    BY <1>3 DEF RoomError, NoNewLogFile
  <2> QED
    BY <2>3, <2>4, <2>5 DEF TypeOK, Answer, groups, store, work
<1>4. ASSUME NEW t \in Thread, RoomDelay(t) PROVE TypeOK'
  <2>1. allow_delay' \in BOOLEAN /\ mutex' \in MutexLock
    BY <1>4 DEF RoomDelay, MutexLock
  <2>2. UNCHANGED <<pc, call, status, done, force, writers, groups, store, l0, work, scheduled,
                    manual, bgError, closing, crashed, history>>
    BY <1>4 DEF RoomDelay
  <2> QED
    BY <2>1, <2>2 DEF TypeOK, groups, store, work, history
<1>5. ASSUME NEW t \in Thread, RoomFound(t) PROVE TypeOK'
  <2>1. /\ 1 \in DOMAIN writers /\ writers[1] = t /\ call[t] \in Writer
        /\ pc \in [Thread -> PC] /\ "ok" \in Status /\ writers # <<>>
    BY <1>5, HeadOfQueue DEF RoomFound, InRoom, TypeOK, Status
  <2>2. CASE PopGroup(t, t, "ok", pc) /\ UNCHANGED groups
    <3>1. PopGroup(t, writers[1], "ok", pc)
      BY <2>1, <2>2
    <3> QED
      BY <1>5, <1>p, <2>1, <2>2, <3>1 DEF RoomFound, TypeOK, Answer, groups, store, work
  <2>3. CASE call[t].op = "write"
    <3>1. last_writer' \in Thread
      BY <1>5, <2>1, <2>3, GroupLengthType DEF RoomFound, TypeOK
    <3>2. BatchGroup \subseteq Entry
      BY <2>1, BatchGroupFacts
    <3>3. group' \subseteq Entry /\ todo' \subseteq Entry /\ pc' \in [Thread -> PC] /\ mutex' \in MutexLock
      BY <1>5, <2>3, <3>2 DEF RoomFound, TypeOK, PC, MutexLock
    <3> QED
      BY <1>5, <2>3, <3>1, <3>3 DEF RoomFound, TypeOK, store, work
  <2>4. (PopGroup(t, t, "ok", pc) /\ UNCHANGED groups) \/ call[t].op = "write"
    BY <1>5 DEF RoomFound
  <2> QED
    BY <2>2, <2>3, <2>4
<1>6. ASSUME NEW t \in Thread, RoomWait(t) PROVE TypeOK'
  BY <1>6 DEF RoomWait, TypeOK, groups, store, work, history, PC, MutexLock
<1>7. ASSUME NEW t \in Thread, SwitchMemTable(t) PROVE TypeOK'
  <2>1. /\ scheduled' \in BOOLEAN /\ mutex' \in MutexLock
        /\ mem' \subseteq Entry /\ imm' \subseteq SUBSET Entry /\ force' \in BOOLEAN
    <3>1. /\ imm' = {mem} /\ mem' = {} /\ force' = FALSE /\ mutex' = t
          /\ scheduled' \in BOOLEAN
      BY <1>7 DEF SwitchMemTable, MaybeScheduleCompaction
    <3>2. mem \subseteq Entry
      BY DEF TypeOK
    <3> QED
      BY <3>1, <3>2 DEF MutexLock
  <2>2. UNCHANGED <<pc, call, status, done, allow_delay, writers, last_writer, group, todo, log, synced,
                    tables, lastSequence, l0, bg, nested, inputs, is_manual, manual, bgError, closing,
                    crashed, issued, failures, acked>>
    BY <1>7 DEF SwitchMemTable, groups, work, history
  <2> QED
    BY <2>1, <2>2 DEF TypeOK
<1>8. ASSUME NEW t \in Thread, AddRecord(t) PROVE TypeOK'
  <2>1. log' \in Seq(SUBSET Entry)
    <3>1. group \in SUBSET Entry /\ log \in Seq(SUBSET Entry)
      BY DEF TypeOK
    <3> QED
      BY <1>8, <3>1 DEF AddRecord
  <2>3. pc' \in [Thread -> PC] /\ status' \in [Thread -> Status]
    BY <1>8 DEF AddRecord, TypeOK, PC, Status
  <2>2. failures' \in 0 .. MaxFailures
    BY <1>8, <1>b DEF AddRecord, TypeOK
  <2> QED
    BY <1>8, <2>1, <2>2, <2>3 DEF AddRecord, TypeOK, groups, work
<1>9. ASSUME NEW t \in Thread, Sync(t) PROVE TypeOK'
  <2>1. InLog \subseteq 1 .. MaxOps
    BY DEF InLog, Ids, Logged, TypeOK, Entry
  <2>2. synced' \subseteq 1 .. MaxOps /\ pc' \in [Thread -> PC] /\ status' \in [Thread -> Status]
    BY <1>9, <2>1 DEF Sync, InLogFile, TypeOK, PC, Status
  <2>3. failures' \in 0 .. MaxFailures
    BY <1>9, <1>b DEF Sync, TypeOK
  <2> QED
    BY <1>9, <2>2, <2>3 DEF Sync, TypeOK, groups, work
<1>10. ASSUME NEW t \in Thread, InsertInto(t) PROVE TypeOK'
  BY <1>10 DEF InsertInto, TypeOK, work, history, PC
<1>11. ASSUME NEW t \in Thread, FinishWrite(t) PROVE TypeOK'
  <2>0. Leading(t)
    BY <1>11 DEF FinishWrite, Leading
  <2>1. PICK n \in DOMAIN writers : GroupOf(n) /\ writers[1] = t
    BY <2>0, LeaderGroup
  <2>2. call[t] \in Writer
    BY <1>11, HeadOfQueue DEF FinishWrite
  <2>3. PICK result \in Status, at \in [Thread -> PC] : PopGroup(t, writers[n], result, at)
    <3>1. writers[n] = last_writer
      BY <2>1 DEF GroupOf
    <3>2. Woken(pc) \in [Thread -> PC] /\ pc \in [Thread -> PC]
      BY WokenType DEF TypeOK
    <3>3. {"ok", "error"} \subseteq Status
      BY DEF Status
    <3> DEFINE result == IF status[t] = "ok" THEN "ok" ELSE "error"
               at == IF status[t] = "sync_error" /\ ~bgError THEN Woken(pc) ELSE pc
    <3>4. PopGroup(t, last_writer, result, at)
      BY <1>11 DEF FinishWrite
    <3>5. result \in Status
      BY <3>3
    <3>6. at \in [Thread -> PC]
      BY <3>2
    <3> HIDE DEF result, at
    <3> QED
      BY <3>1, <3>4, <3>5, <3>6
  <2>4. lastSequence' \in 0 .. MaxOps
    <3>1. Cardinality(group) \in Nat /\ Cardinality(group) <= n
      BY <2>1, FS_CardinalityType DEF GroupInv, GroupOf
    <3>2. writers[n] \in Thread /\ pc[writers[n]] # "idle"
      <4>1. writers[n] \in Thread
        BY DEF TypeOK
      <4>2. pc[writers[n]] \in QueuePC
        BY DEF QueueInv
      <4> QED
        BY <4>1, <4>2 DEF QueuePC
    <3>3. call[writers[n]].id \in 1 .. MaxOps
      BY <3>2 DEF QueueInv, CallFits, Writer
    <3>4. lastSequence + n <= call[writers[n]].id
      BY DEF NumbersInv
    <3>5. n \in Nat /\ lastSequence \in Nat
      BY DEF TypeOK
    <3> QED
      BY <1>11, <1>a, <3>1, <3>3, <3>4, <3>5 DEF FinishWrite, NextSequence
  <2>5. bgError' \in BOOLEAN
    BY <1>11 DEF FinishWrite, RecordBackgroundError, TypeOK
  <2>6. /\ pc' \in [Thread -> PC] /\ status' \in [Thread -> Status]
        /\ done' \in [Thread -> BOOLEAN] /\ writers' \in Seq(Thread) /\ mutex' \in MutexLock
        /\ acked' \subseteq Answer
    BY <1>p, <2>1, <2>2, <2>3
  <2> QED
    BY <1>11, <2>4, <2>5, <2>6 DEF FinishWrite, TypeOK, work, Answer
<1>12. ASSUME NEW t \in Thread, CompactMemTableWait(t) PROVE TypeOK'
  <2>1. call[t] \in Writer /\ call[t].op = "flush"
    BY <1>12 DEF CompactMemTableWait, QueueInv, CallFits, FlushPC
  <2>2. \A ok \in BOOLEAN : [op |-> "flush", id |-> call[t].id, sync |-> FALSE, ok |-> ok] \in Answer
    BY <2>1 DEF Answer, Writer
  <2>3. (imm = {}) \in BOOLEAN
    OBVIOUS
  <2>4. [op |-> "flush", id |-> call[t].id, sync |-> FALSE, ok |-> imm = {}] \in Answer
    BY <2>2, <2>3, Zenon
  <2>5. acked' \subseteq Answer
    BY <1>12, <2>4 DEF CompactMemTableWait, TypeOK, Answer
  <2>6. pc' \in [Thread -> PC]
    BY <1>12 DEF CompactMemTableWait, TypeOK, PC
  <2> QED
    BY <1>12, <2>5, <2>6 DEF CompactMemTableWait, TypeOK, groups, store, work, Answer
<1>13. ASSUME NEW t \in Thread, CompactRange(t) PROVE TypeOK'
  <2>1. [op |-> "range", sync |-> FALSE, size |-> 0, id |-> issued + 1] \in Writer
    BY <1>a, <1>13 DEF CompactRange, Writer, WriteOptions, TypeOK
  <2>2. call' \in [Thread -> Writer \cup {Nil}] /\ issued' \in 0 .. MaxOps /\ pc' \in [Thread -> PC]
    BY <1>a, <1>13, <2>1 DEF CompactRange, TypeOK, PC
  <2> QED
    BY <1>13, <2>2 DEF CompactRange, TypeOK, groups, store, work
<1>14. ASSUME NEW t \in Thread, RequestManual(t) PROVE TypeOK'
  <2>1. scheduled' \in BOOLEAN
    BY <1>14 DEF RequestManual, MaybeScheduleCompaction, HasWork, TypeOK
  <2> QED
    BY <1>14, <2>1 DEF RequestManual, TypeOK, groups, store, work, history, PC
<1>15. ASSUME NEW t \in Thread, EndManual(t) PROVE TypeOK'
  <2>1. call[t] \in Writer /\ call[t].op = "range" /\ done[t] \in BOOLEAN
    BY <1>15 DEF EndManual, QueueInv, CallFits, RangePC, TypeOK
  <2>2. [op |-> "range", id |-> call[t].id, sync |-> FALSE, ok |-> done[t]] \in Answer
    BY <2>1 DEF Answer, Writer
  <2>3. acked' \subseteq Answer
    BY <1>15, <2>2 DEF EndManual, TypeOK, Answer
  <2> QED
    BY <1>15, <2>3 DEF EndManual, Withdraw, TypeOK, groups, store, work, PC, Answer
<1>16. CASE Background
  <2>1. pc' \in [Thread -> PC] /\ closing' \in {"open", "waiting", "woken", "closed"}
    BY <1>16, BackgroundEffect, WokenType DEF TypeOK, WokenDestructor
  <2>2. done' \in [Thread -> BOOLEAN] /\ manual' \in Thread \cup {Nil}
    BY <1>16, BackgroundEffect DEF TypeOK
  <2>3. imm' \subseteq SUBSET Entry /\ tables' \subseteq Entry
    BY <1>16, BackgroundEffect DEF TypeOK, BackgroundInv
  <2>4. UNCHANGED <<call, status, force, allow_delay, mutex, writers, groups, log, synced,
                    mem, lastSequence, issued, acked>>
    BY <1>16, BackgroundEffect
  <2>5. bgError' \in BOOLEAN /\ scheduled' \in BOOLEAN /\ crashed' \in BOOLEAN
    BY <1>16 DEF Background, BackgroundNothing, BackgroundCompaction, BuildTable, FlushMemTable,
       DoCompactionWork, InstallCompactionResults, AfterFlush, FinishCompaction, FinishCall,
       RecordBackgroundError, HasWork, TypeOK
  <2>6. failures' \in 0 .. MaxFailures
    BY <1>16, <1>b DEF Background, BackgroundNothing, BackgroundCompaction, BuildTable,
       FlushMemTable, DoCompactionWork, InstallCompactionResults, TypeOK, history
  <2>7. l0' \in Nat /\ inputs' \in Nat
    <3>1. l0 \in Nat /\ inputs \in Nat /\ l0 - inputs \in Nat
      BY DEF TypeOK, BackgroundInv
    <3>2. l0' \in {l0, l0 + 1, l0 - inputs}
      BY <1>16 DEF Background, BackgroundNothing, BackgroundCompaction, BuildTable, FlushMemTable,
         DoCompactionWork, InstallCompactionResults, FilesLeft
    <3>3. inputs' \in {inputs, 0} \cup 1 .. l0
      BY <1>16 DEF Background, BackgroundNothing, BackgroundCompaction, BuildTable, FlushMemTable,
         DoCompactionWork, InstallCompactionResults, AfterFlush, FinishCompaction, FinishCall
    <3> QED
      BY <3>1, <3>2, <3>3
  <2>8. /\ bg' \in {"idle", "build", "apply", "compact", "install"}
        /\ nested' \in BOOLEAN /\ is_manual' \in BOOLEAN
    BY <1>16 DEF Background, BackgroundNothing, BackgroundCompaction, BuildTable, FlushMemTable,
       DoCompactionWork, InstallCompactionResults, AfterFlush, FinishCompaction, FinishCall, TypeOK
  <2> QED
    BY <2>1, <2>2, <2>3, <2>4, <2>5, <2>6, <2>7, <2>8 DEF TypeOK, groups
<1>17. CASE Destroy \/ DestroyWoken \/ Ended
  <2>1. /\ closing' \in {"open", "waiting", "woken", "closed"}
        /\ UNCHANGED <<locals, mutex, writers, groups, store, l0, work, scheduled, manual, bgError,
                       crashed, history>>
    BY <1>17 DEF Destroy, DestroyWoken, Ended, vars, TypeOK
  <2> QED
    BY <2>1 DEF TypeOK, locals, groups, store, work, history
<1> QED
  BY <1>1, <1>2, <1>3, <1>4, <1>5, <1>6, <1>7, <1>8, <1>9, <1>10, <1>11, <1>12, <1>13, <1>14,
     <1>15, <1>16, <1>17 DEF Next, Step

-----------------------------------------------------------------------------
(***************************************************************************)
(* The queue of writers.                                                   *)
(***************************************************************************)
\* The head of the queue goes on to w, still in the queue.
LEMMA HeadMoves ==
    ASSUME TypeOK, QueueInv, NEW t \in Thread, NEW w \in QueuePC \ {"asleep"}, writers # <<>>,
           writers[1] = t, pc' = [pc EXCEPT ![t] = w],
           UNCHANGED <<call, done, writers, closing>>,
           \A s \in Thread \ {t} : status'[s] = status[s], w # "finish" => status'[t] = "ok",
           mutex' \in {Nil, mutex} \/ (mutex' = t /\ w = "room"),
           mutex = t => mutex' = Nil \/ w = "room"
    PROVE  QueueInv'
<1>0. /\ writers \in Seq(Thread) /\ 1 \in DOMAIN writers /\ \A i \in DOMAIN writers : writers[i] \in Thread
      /\ pc \in [Thread -> PC] /\ pc[t] \in QueuePC /\ pc[t] # "idle" /\ mutex \in Thread \cup {Nil}
  BY DEF TypeOK, QueueInv, QueuePC, MutexLock
<1>1. ASSUME NEW i \in DOMAIN writers
      PROVE  /\ pc'[writers[i]] \in QueuePC /\ ~done'[writers[i]]
             /\ pc'[writers[i]] = "asleep" <=> i # 1
             /\ pc'[writers[i]] # "finish" => status'[writers[i]] = "ok"
  BY <1>0 DEF QueueInv
<1>2. ASSUME NEW s \in Thread
      PROVE  /\ CallFits(s)'
             /\ ~InQueue(s) => pc'[s] \in {"idle", "signalled"} \cup FlushPC \cup RangePC
             /\ ~InQueue(s) /\ pc'[s] = "signalled" => done'[s]
  <2>1. CASE s = t
    BY <1>0, <2>1 DEF QueueInv, CallFits, InQueue, QueuePC, FlushPC, RangePC
  <2>2. CASE s # t
    BY <1>0, <2>2 DEF QueueInv, CallFits
  <2> QED
    BY <2>1, <2>2
<1>3. mutex' # Nil => pc'[mutex'] = "room"
  BY <1>0, WriteQueueAssumption DEF QueueInv
<1>4. closing' # "open" => \A s \in Thread : pc'[s] = "idle"
  BY <1>0 DEF QueueInv
<1>5. \A s : InQueue(s)' <=> InQueue(s)
  BY DEF InQueue
<1> QED
  BY <1>1, <1>2, <1>3, <1>4, <1>5 DEF QueueInv

\* A thread that is in no queue goes on to w, out of the queue.
LEMMA OutsiderMoves ==
    ASSUME TypeOK, QueueInv, NEW t \in Thread, NEW w \in {"idle"} \cup FlushPC \cup RangePC,
           ~InQueue(t), closing = "open", pc[t] # "room",
           pc' = [pc EXCEPT ![t] = w], UNCHANGED <<writers, status, mutex, closing>>,
           \A s \in Thread \ {t} : call'[s] = call[s] /\ done'[s] = done[s],
           w \in FlushPC => call'[t] \in Writer /\ call'[t].op = "flush",
           w \in RangePC => call'[t] \in Writer /\ call'[t].op = "range"
    PROVE  QueueInv'
<1>0. /\ writers \in Seq(Thread) /\ \A i \in DOMAIN writers : writers[i] \in Thread /\ writers[i] # t
      /\ pc \in [Thread -> PC] /\ mutex \in Thread \cup {Nil}
  BY DEF TypeOK, InQueue, MutexLock
<1>1. ASSUME NEW i \in DOMAIN writers
      PROVE  /\ pc'[writers[i]] \in QueuePC /\ ~done'[writers[i]]
             /\ pc'[writers[i]] = "asleep" <=> i # 1
             /\ pc'[writers[i]] # "finish" => status'[writers[i]] = "ok"
  BY <1>0 DEF QueueInv
<1>2. ASSUME NEW s \in Thread
      PROVE  /\ CallFits(s)'
             /\ ~InQueue(s) => pc'[s] \in {"idle", "signalled"} \cup FlushPC \cup RangePC
             /\ ~InQueue(s) /\ pc'[s] = "signalled" => done'[s]
  <2>1. CASE s = t
    BY <1>0, <2>1 DEF CallFits, QueuePC, FlushPC, RangePC
  <2>2. CASE s # t
    BY <1>0, <2>2 DEF QueueInv, CallFits
  <2> QED
    BY <2>1, <2>2
<1>3. mutex' # Nil => pc'[mutex'] = "room"
  BY <1>0 DEF QueueInv
<1>5. \A s : InQueue(s)' <=> InQueue(s)
  BY DEF InQueue
<1> QED
  BY <1>1, <1>2, <1>3, <1>5 DEF QueueInv

\* The group of the first n leaves the queue.
LEMMA QueueAfterGroup ==
    ASSUME TypeOK, QueueInv, NEW t \in Thread, NEW n \in DOMAIN writers, writers[1] = t,
           closing = "open", NEW result \in Status, NEW at \in {pc, Woken(pc)},
           Popped(t, n, result, at), UNCHANGED <<call, closing>>
    PROVE  QueueInv'
<1>0. /\ writers \in Seq(Thread) /\ \A i \in DOMAIN writers : writers[i] \in Thread
      /\ DOMAIN writers = 1 .. Len(writers) /\ Len(writers) \in Nat /\ n \in 1 .. Len(writers)
      /\ pc \in [Thread -> PC] /\ at \in [Thread -> PC]
  BY WokenType DEF TypeOK
<1>1. /\ writers' \in Seq(Thread) /\ Len(writers') = Len(writers) - n
      /\ \A i \in DOMAIN writers' : n + i \in DOMAIN writers /\ writers'[i] = writers[n + i]
      /\ \A s \in Thread : (\A i \in 1 .. n : writers[i] # s) => status'[s] = status[s]
      /\ \A s \in Thread : (\A i \in 2 .. n : writers[i] # s) => done'[s] = done[s]
      /\ \A i \in 2 .. n : done'[writers[i]]
      /\ pc'[t] = AfterWrite(t, result)
      /\ \A s \in Thread \ {t} :
            pc'[s] = IF at[s] = "asleep" /\ \E i \in DOMAIN writers : i <= n + 1 /\ writers[i] = s
                     THEN "signalled" ELSE at[s]
      /\ mutex' = Nil
  BY DEF Popped
<1>2. \A s \in Thread : /\ at[s] = "asleep" <=> pc[s] = "asleep"
                        /\ pc[s] \in QueuePC \ {"roomwait"} => at[s] = pc[s]
                        /\ at[s] \in QueuePC <=> pc[s] \in QueuePC
                        /\ at[s] \in FlushPC <=> pc[s] \in FlushPC
                        /\ at[s] \in RangePC <=> pc[s] \in RangePC
                        /\ at[s] = "idle" <=> pc[s] = "idle"
                        /\ at[s] = "signalled" <=> pc[s] = "signalled"
  BY <1>0, WokenFacts DEF QueuePC, FlushPC, RangePC
<1>3. \A i \in DOMAIN writers' : i \in Nat /\ i >= 1 /\ DOMAIN writers' = 1 .. Len(writers')
  BY <1>1
<1>4. \A i, j \in DOMAIN writers' : writers'[i] = writers'[j] => i = j
  <2> SUFFICES ASSUME NEW i \in DOMAIN writers', NEW j \in DOMAIN writers', writers'[i] = writers'[j]
               PROVE  i = j
    OBVIOUS
  <2>1. n + i = n + j
    BY <1>1 DEF QueueInv
  <2> QED
    BY <1>0, <1>3, <2>1
<1>5. ASSUME NEW i \in DOMAIN writers'
      PROVE  /\ pc'[writers'[i]] \in QueuePC /\ ~done'[writers'[i]]
             /\ pc'[writers'[i]] = "asleep" <=> i # 1
             /\ pc'[writers'[i]] # "finish" => status'[writers'[i]] = "ok"
  <2> DEFINE s == writers[n + i]
  <2>1. n + i \in DOMAIN writers /\ writers'[i] = s /\ s \in Thread /\ i \in Nat /\ i >= 1
    BY <1>0, <1>1, <1>3
  <2>2. \A j \in DOMAIN writers : writers[j] = s => j = n + i
    BY <2>1 DEF QueueInv
  <2>3. (\A j \in 1 .. n : writers[j] # s) /\ s # t
    BY <1>0, <2>1, <2>2
  <2>4. pc[s] = "asleep" /\ ~done[s] /\ status[s] = "ok"
    BY <1>0, <2>1 DEF QueueInv
  <2>5. status'[s] = "ok" /\ ~done'[s]
    <3>1. \A j \in 2 .. n : writers[j] # s
      BY <1>0, <2>3
    <3> HIDE DEF s
    <3>2. status'[s] = status[s] /\ done'[s] = done[s]
      BY <1>1, <2>1, <2>3, <3>1
    <3> QED
      BY <2>4, <3>2
  <2>6. (\E j \in DOMAIN writers : j <= n + 1 /\ writers[j] = s) <=> i = 1
    BY <1>0, <2>1, <2>2
  <2>7. pc'[s] = IF i = 1 THEN "signalled" ELSE "asleep"
    BY <1>1, <1>2, <2>1, <2>3, <2>4, <2>6
  <2> HIDE DEF s
  <2> QED
    BY <2>1, <2>5, <2>7 DEF QueuePC
<1>6. CallFits(t)' /\ pc'[t] \in {"idle"} \cup FlushPC
  BY <1>0, <1>1 DEF QueueInv, CallFits, AfterWrite, QueuePC, FlushPC, RangePC
<1>7. ASSUME NEW s \in Thread, s # t
      PROVE  /\ CallFits(s)'
             /\ ~InQueue(s)' => pc'[s] \in {"idle", "signalled"} \cup FlushPC \cup RangePC
             /\ ~InQueue(s)' /\ pc'[s] = "signalled" => done'[s]
  <2>1. pc'[s] = at[s] \/ (pc[s] = "asleep" /\ pc'[s] = "signalled")
    BY <1>1, <1>2, <1>7
  <2>2. CallFits(s)'
    BY <1>2, <2>1 DEF QueueInv, CallFits, QueuePC, FlushPC, RangePC
  <2>3. CASE ~InQueue(s)
    <3>1. pc'[s] = at[s] /\ (pc[s] = "signalled" => done[s])
          /\ pc[s] \in {"idle", "signalled"} \cup FlushPC \cup RangePC
      BY <1>1, <1>2, <2>1, <2>3 DEF QueueInv, FlushPC, RangePC
    <3>2. \A i \in 2 .. n : writers[i] # s
      BY <1>0, <2>3 DEF InQueue
    <3>3. done'[s] = done[s]
      BY <1>1, <3>2
    <3> QED
      BY <1>2, <2>2, <3>1, <3>3 DEF FlushPC, RangePC
  <2>4. CASE InQueue(s)
    <3>1. PICK i \in DOMAIN writers : writers[i] = s
      BY <2>4 DEF InQueue
    <3>2. i # 1 /\ pc[s] = "asleep" /\ i \in 1 .. Len(writers)
      BY <1>0, <1>7, <3>1 DEF QueueInv
    <3>3. CASE i <= n
      <4>1. i \in 2 .. n
        BY <1>0, <3>2, <3>3
      <4>2. done'[s] /\ pc'[s] = "signalled"
        BY <1>0, <1>1, <1>2, <1>7, <3>1, <3>2, <4>1
      <4> QED
        BY <2>2, <4>2
    <3>4. CASE i > n
      <4>1. i - n \in DOMAIN writers' /\ n + (i - n) = i
        BY <1>0, <1>1, <3>2, <3>4
      <4>2. writers'[i - n] = s
        BY <1>1, <3>1, <4>1
      <4>3. InQueue(s)'
        BY <4>1, <4>2 DEF InQueue
      <4> QED
        BY <2>2, <4>3
    <3> QED
      BY <1>0, <3>2, <3>3, <3>4
  <2> QED
    BY <2>3, <2>4
<1> QED
  BY <1>1, <1>4, <1>5, <1>6, <1>7 DEF QueueInv, FlushPC, RangePC

\* The ways out of Write other than with a group: an error while it makes room,
\* or room for a write without a batch.
Leaves(t) == RoomError(t) \/ NoNewLogFile(t) \/ (RoomFound(t) /\ call[t].op = "flush")

LEMMA LeavesPops ==
    ASSUME TypeOK, QueueInv, NEW t \in Thread, Leaves(t)
    PROVE  /\ \E result \in {"ok", "error"} :
                 Popped(t, 1, result, pc) /\ (call[t].op = "write" => result = "error")
           /\ UNCHANGED <<call, groups, store, l0, work, scheduled, manual, bgError, closing, issued>>
           /\ closing = "open"
<1>1. /\ 1 \in DOMAIN writers /\ writers[1] = t /\ pc \in [Thread -> PC]
      /\ {"ok", "error"} \subseteq Status /\ pc[t] = "room"
      /\ call[t].op \in {"write", "flush"}
  BY HeadOfQueue DEF Leaves, RoomError, NoNewLogFile, RoomFound, InRoom, TypeOK, Status
<1>2. \E result \in {"ok", "error"} :
         PopGroup(t, writers[1], result, pc) /\ (call[t].op = "write" => result = "error")
  BY <1>1 DEF Leaves, RoomError, NoNewLogFile, RoomFound
<1>3. UNCHANGED <<call, groups, store, l0, work, scheduled, manual, bgError, closing, issued>>
  <2>1. CASE RoomError(t) \/ NoNewLogFile(t)
    BY <2>1 DEF RoomError, NoNewLogFile
  <2>2. CASE RoomFound(t) /\ call[t].op = "flush"
    BY <2>2 DEF RoomFound
  <2> QED
    BY <2>1, <2>2 DEF Leaves
<1>4. closing = "open"
  BY <1>1 DEF QueueInv
<1> QED
  BY <1>1, <1>2, <1>3, <1>4, PopGroupEffect

LEMMA FinishPops ==
    ASSUME TypeOK, QueueInv, GroupInv, NEW t \in Thread, FinishWrite(t)
    PROVE  \E n \in DOMAIN writers, at \in {pc, Woken(pc)}, result \in {"ok", "error"} :
              /\ GroupOf(n) /\ Popped(t, n, result, at)
              /\ result = "ok" <=> status[t] = "ok"
              /\ bgError' # bgError => at = Woken(pc)
<1>1. Leading(t) /\ pc[t] = "finish"
  BY DEF FinishWrite, Leading
<1>2. PICK n \in DOMAIN writers : GroupOf(n) /\ writers[1] = t
  BY <1>1, LeaderGroup
<1>3. writers[n] = last_writer
  BY <1>2 DEF GroupOf
<1> DEFINE failed == status[t] = "sync_error"
           result == IF status[t] = "ok" THEN "ok" ELSE "error"
           at == IF failed /\ ~bgError THEN Woken(pc) ELSE pc
<1>4. PopGroup(t, writers[n], result, at) /\ bgError' = RecordBackgroundError(failed)
  BY <1>3 DEF FinishWrite
<1>5. at \in {pc, Woken(pc)} /\ at \in [Thread -> PC] /\ result \in {"ok", "error"} /\ result \in Status
      /\ (result = "ok" <=> status[t] = "ok")
  BY WokenType DEF TypeOK, Status
<1>6. bgError' # bgError => at = Woken(pc)
  <2>1. bgError \in BOOLEAN
    BY DEF TypeOK
  <2> QED
    BY <1>4, <2>1 DEF RecordBackgroundError
<1> HIDE DEF failed, at, result
<1>7. Popped(t, n, result, at)
  BY <1>2, <1>4, <1>5, PopGroupEffect
<1> QED
  BY <1>2, <1>5, <1>6, <1>7

LEMMA QueueStep ==
    ASSUME WriteQueueInv, Next PROVE QueueInv'
<1> USE DEF WriteQueueInv
<1>0. TypeOK /\ pc \in [Thread -> PC] /\ writers \in Seq(Thread) /\ mutex \in Thread \cup {Nil}
  BY DEF TypeOK, MutexLock
<1>c. \A t \in Thread : pc[t] # "idle" => closing = "open"
  BY DEF QueueInv
<1>1. ASSUME NEW t \in Thread, NEW op \in Ops, NEW sync \in BOOLEAN, NEW size \in Sizes \cup {0},
             Write(t, op, sync, size)
      PROVE  QueueInv'
  <2> DEFINE w == [op |-> op, sync |-> sync, size |-> size, id |-> issued + 1]
             L == Len(writers)
  <2>1. /\ pc[t] = "idle" /\ closing = "open" /\ mutex \in {Nil, t} /\ op \in {"write", "flush"}
        /\ op = "write" => size \in Sizes
        /\ call' = [call EXCEPT ![t] = w] /\ done' = [done EXCEPT ![t] = FALSE]
        /\ status' = [status EXCEPT ![t] = "ok"] /\ writers' = Append(writers, t)
        /\ pc' = [pc EXCEPT ![t] = IF writers = <<>> THEN "room" ELSE "asleep"]
        /\ mutex' = IF writers = <<>> THEN t ELSE Nil
        /\ closing' = closing
    BY <1>1, WriteQueueAssumption DEF Write, Lock, NobodyAhead
  <2>2. w \in Writer
    BY <1>0, <1>1, WriteQueueAssumption DEF Write, Writer, WriteOptions, TypeOK
  <2>3. ~InQueue(t)
    BY <2>1 DEF QueueInv, InQueue, QueuePC
  <2>4. /\ L \in Nat /\ DOMAIN writers = 1 .. L /\ DOMAIN writers' = 1 .. (L + 1)
        /\ writers'[L + 1] = t /\ \A i \in 1 .. L : writers'[i] = writers[i] /\ writers[i] \in Thread
        /\ writers = <<>> <=> L = 0
    BY <1>0, <2>1
  <2>5. call'[t] = w /\ ~done'[t] /\ status'[t] = "ok"
        /\ pc'[t] = (IF writers = <<>> THEN "room" ELSE "asleep")
    BY <1>0, <2>1 DEF TypeOK
  <2>6. \A s \in Thread \ {t} : /\ call'[s] = call[s] /\ done'[s] = done[s]
                                /\ status'[s] = status[s] /\ pc'[s] = pc[s]
    BY <1>0, <2>1 DEF TypeOK
  <2>7. \A i \in 1 .. L : writers[i] # t
    BY <2>3, <2>4 DEF InQueue
  <2>8. \A i, j \in DOMAIN writers' : writers'[i] = writers'[j] => i = j
    BY <2>4, <2>7 DEF QueueInv
  <2>9. ASSUME NEW i \in DOMAIN writers'
        PROVE  /\ pc'[writers'[i]] \in QueuePC /\ ~done'[writers'[i]]
               /\ pc'[writers'[i]] = "asleep" <=> i # 1
               /\ pc'[writers'[i]] # "finish" => status'[writers'[i]] = "ok"
    <3>1. CASE i \in 1 .. L
      BY <2>4, <2>6, <2>7, <3>1 DEF QueueInv
    <3>2. CASE i = L + 1
      BY <2>4, <2>5, <3>2 DEF QueuePC
    <3> QED
      BY <2>4, <3>1, <3>2
  <2>10. \A s : InQueue(s)' <=> InQueue(s) \/ s = t
    BY <2>4 DEF InQueue
  <2>11. ASSUME NEW s \in Thread
         PROVE  /\ CallFits(s)'
                /\ ~InQueue(s)' => pc'[s] \in {"idle", "signalled"} \cup FlushPC \cup RangePC
                /\ ~InQueue(s)' /\ pc'[s] = "signalled" => done'[s]
    <3>1. CASE s = t
      <4>1. pc'[t] \in {"room", "asleep"}
        BY <2>5
      <4>2. call'[t] \in Writer /\ call'[t].op = op /\ call'[t].size = size
        BY <2>2, <2>5
      <4> QED
        BY <2>1, <2>10, <3>1, <4>1, <4>2 DEF CallFits, QueuePC, FlushPC, RangePC
    <3>2. CASE s # t
      BY <2>6, <2>10, <3>2 DEF QueueInv, CallFits
    <3> QED
      BY <3>1, <3>2
  <2>12. mutex' # Nil => pc'[mutex'] = "room"
    BY <2>1, <2>5
  <2> QED
    BY <2>1, <2>8, <2>9, <2>11, <2>12 DEF QueueInv
<1>2. ASSUME NEW t \in Thread, Wake(t) PROVE QueueInv'
  <2>1. /\ pc[t] = "signalled" /\ mutex = Nil /\ closing = "open"
        /\ UNCHANGED <<call, status, done, writers, closing>>
    BY <1>2, <1>c DEF Wake, Lock, QueueInv
  <2>2. CASE done[t]
    <3>1. ~InQueue(t)
      BY <2>2 DEF QueueInv, InQueue
    <3>2. AfterWrite(t, status[t]) \in {"idle", "flush"} /\ pc' = [pc EXCEPT ![t] = AfterWrite(t, status[t])]
          /\ UNCHANGED mutex
      BY <1>2, <2>2 DEF Wake, AfterWrite
    <3>3. call[t] \in Writer /\ (AfterWrite(t, status[t]) = "flush" => call[t].op = "flush")
      BY <2>1 DEF QueueInv, CallFits, AfterWrite
    <3> HIDE DEF WriteQueueInv
    <3>4. TypeOK /\ QueueInv
      BY DEF WriteQueueInv
    <3> DEFINE w == AfterWrite(t, status[t])
    <3>5. w \in {"idle"} \cup FlushPC \cup RangePC /\ (w \in FlushPC => call'[t] \in Writer /\ call'[t].op = "flush")
          /\ w \notin RangePC
      BY <2>1, <3>2, <3>3 DEF FlushPC, RangePC
    <3> HIDE DEF w
    <3> QED
      BY <2>1, <3>1, <3>2, <3>4, <3>5, OutsiderMoves DEF w
  <2>3. CASE ~done[t]
    <3>1. InQueue(t)
      BY <2>1, <2>3 DEF QueueInv
    <3>2. writers # <<>> /\ writers[1] = t /\ status[t] = "ok"
      BY <1>0, <2>1, <3>1 DEF QueueInv, InQueue
    <3>3. pc' = [pc EXCEPT ![t] = "room"] /\ mutex' = t
      BY <1>2, <2>3, <3>2 DEF Wake
    <3>4. "room" \in QueuePC \ {"asleep"}
      BY DEF QueuePC
    <3> QED
      BY <2>1, <3>2, <3>3, <3>4, HeadMoves
  <2> QED
    BY <2>2, <2>3
<1>3. ASSUME NEW t \in Thread, Leaves(t) PROVE QueueInv'
  <2>1. 1 \in DOMAIN writers /\ writers[1] = t /\ {"ok", "error"} \subseteq Status
    BY <1>3, HeadOfQueue DEF Leaves, RoomError, NoNewLogFile, RoomFound, InRoom, Status
  <2>2. PICK result \in {"ok", "error"} : Popped(t, 1, result, pc)
    BY <1>3, LeavesPops
  <2>3. UNCHANGED <<call, closing>> /\ closing = "open"
    BY <1>3, LeavesPops
  <2> QED
    BY <2>1, <2>2, <2>3, QueueAfterGroup
<1>4. ASSUME NEW t \in Thread, FinishWrite(t) PROVE QueueInv'
  <2>1. writers[1] = t /\ {"ok", "error"} \subseteq Status /\ closing = "open" /\ UNCHANGED <<call, closing>>
    BY <1>4, <1>c, HeadOfQueue DEF FinishWrite, Status
  <2>2. PICK n \in DOMAIN writers, at \in {pc, Woken(pc)}, result \in {"ok", "error"} :
           Popped(t, n, result, at)
    BY <1>4, FinishPops
  <2> QED
    BY <2>1, <2>2, QueueAfterGroup
<1>5. ASSUME NEW t \in Thread, \/ RoomDelay(t) \/ RoomWait(t) \/ SwitchMemTable(t)
                               \/ AddRecord(t) \/ Sync(t) \/ InsertInto(t)
                               \/ (RoomFound(t) /\ call[t].op = "write")
      PROVE  QueueInv'
  <2>1. pc[t] \in {"room", "append", "sync", "insert"} /\ (pc[t] = "room" <=> InRoom(t))
        /\ (mutex = t => pc[t] = "room")
    BY <1>5, <1>0, WriteQueueAssumption
    DEF RoomDelay, RoomWait, SwitchMemTable, AddRecord, Sync, InsertInto, RoomFound, InRoom, QueueInv
  <2>2. writers # <<>> /\ writers[1] = t /\ status[t] = "ok"
    BY <2>1, HeadOfQueue
  <2>3. UNCHANGED <<call, done, writers, closing>>
    BY <1>5 DEF RoomDelay, RoomWait, SwitchMemTable, AddRecord, Sync, InsertInto, RoomFound
  <2>4. \E w \in QueuePC \ {"asleep"} :
           /\ pc' = [pc EXCEPT ![t] = w]
           /\ w # "finish" => status' = status
           /\ mutex' \in {Nil, mutex} \/ (mutex' = t /\ w = "room")
           /\ mutex = t => mutex' = Nil \/ w = "room"
    <3>1. pc = [pc EXCEPT ![t] = pc[t]]
      BY <1>0
    <3>2. CASE RoomDelay(t)
      BY <2>1, <3>1, <3>2 DEF RoomDelay, InRoom, QueuePC
    <3>3. CASE SwitchMemTable(t)
      BY <2>1, <3>1, <3>3 DEF SwitchMemTable, InRoom, QueuePC
    <3>4. CASE RoomWait(t)
      BY <3>4 DEF RoomWait, QueuePC
    <3>5. CASE AddRecord(t)
      BY <2>1, <3>5 DEF AddRecord, QueuePC
    <3>6. CASE Sync(t)
      BY <2>1, <3>6 DEF Sync, QueuePC
    <3>7. CASE InsertInto(t)
      BY <2>1, <3>7 DEF InsertInto, QueuePC, history
    <3>8. CASE RoomFound(t) /\ call[t].op = "write"
      BY <3>8 DEF RoomFound, QueuePC
    <3> QED
      BY <1>5, <3>2, <3>3, <3>4, <3>5, <3>6, <3>7, <3>8
  <2>5. \A s \in Thread \ {t} : status'[s] = status[s]
    <3>1. status \in [Thread -> Status]
      BY DEF TypeOK
    <3> QED
      BY <1>5, <3>1 DEF RoomDelay, RoomWait, SwitchMemTable, AddRecord, Sync, InsertInto, RoomFound
  <2> QED
    BY <2>2, <2>3, <2>4, <2>5, HeadMoves
<1>6. ASSUME NEW t \in Thread, CompactMemTableWait(t) \/ RequestManual(t) \/ EndManual(t)
      PROVE  QueueInv'
  <2>1. pc[t] \in {"flush", "range"} /\ UNCHANGED <<writers, status, mutex, closing, call, done>>
    BY <1>6 DEF CompactMemTableWait, RequestManual, EndManual
  <2>2. ~InQueue(t) /\ closing = "open" /\ call[t] \in Writer
    BY <1>c, <2>1 DEF InQueue, QueueInv, QueuePC, CallFits
  <2>3. PICK w \in {"idle"} \cup FlushPC \cup RangePC :
           /\ pc' = [pc EXCEPT ![t] = w]
           /\ w \in FlushPC => pc[t] = "flush"
           /\ w \in RangePC => pc[t] = "range"
    BY <1>6 DEF CompactMemTableWait, RequestManual, EndManual, FlushPC, RangePC
  <2>4. (w \in FlushPC => call[t].op = "flush") /\ (w \in RangePC => call[t].op = "range")
    BY <2>1, <2>3 DEF QueueInv, CallFits, FlushPC, RangePC
  <2> QED
    BY <2>1, <2>2, <2>3, <2>4, OutsiderMoves
<1>7. ASSUME NEW t \in Thread, CompactRange(t) PROVE QueueInv'
  <2>1. pc[t] = "idle" /\ UNCHANGED <<writers, status, mutex, closing>> /\ closing = "open"
    BY <1>7 DEF CompactRange
  <2>2. ~InQueue(t)
    BY <2>1 DEF InQueue, QueueInv, QueuePC
  <2>3. [op |-> "range", sync |-> FALSE, size |-> 0, id |-> issued + 1] \in Writer
    BY <1>7, WriteQueueAssumption DEF CompactRange, Writer, WriteOptions, TypeOK
  <2>4. call'[t] \in Writer /\ call'[t].op = "range"
    BY <1>7, <2>3 DEF CompactRange, TypeOK
  <2>5. \A s \in Thread \ {t} : call'[s] = call[s] /\ done'[s] = done[s]
    BY <1>7 DEF CompactRange, TypeOK
  <2>6. "range" \in RangePC /\ "range" \notin FlushPC /\ pc' = [pc EXCEPT ![t] = "range"]
    BY <1>7 DEF CompactRange, RangePC, FlushPC
  <2> QED
    BY <2>1, <2>2, <2>4, <2>5, <2>6, OutsiderMoves
<1>8. CASE Background
  <2>1. UNCHANGED <<call, status, mutex, writers>> /\ mutex = Nil /\ (pc' = pc \/ pc' = Woken(pc))
        /\ closing' \in {closing, WokenDestructor}
    BY <1>8, BackgroundEffect
  <2>2. \A s \in Thread : /\ pc'[s] = "asleep" <=> pc[s] = "asleep"
                          /\ pc'[s] = "finish" <=> pc[s] = "finish"
                          /\ pc'[s] \in QueuePC <=> pc[s] \in QueuePC
                          /\ pc'[s] \in FlushPC <=> pc[s] \in FlushPC
                          /\ pc'[s] \in RangePC <=> pc[s] \in RangePC
                          /\ pc'[s] = "idle" <=> pc[s] = "idle"
                          /\ pc'[s] = "signalled" <=> pc[s] = "signalled"
    BY <1>0, <2>1, WokenFacts DEF QueuePC, FlushPC, RangePC
  <2>3. \A s \in Thread : /\ done[s] => done'[s]
                          /\ pc[s] \in QueuePC => done'[s] = done[s]
    <3>1. done \in [Thread -> BOOLEAN] /\ (manual # Nil => pc[manual] \in RangePC /\ manual \in Thread)
      BY DEF TypeOK, BackgroundInv
    <3> QED
      BY <1>8, <3>1, BackgroundEffect DEF QueuePC, RangePC
  <2>4. closing' # "open" => closing # "open"
    BY <2>1 DEF WokenDestructor
  <2>5. \A s : InQueue(s)' <=> InQueue(s)
    BY <2>1 DEF InQueue
  <2>6. \A i \in DOMAIN writers : writers[i] \in Thread
    BY <1>0
  <2>7. \A s \in Thread : CallFits(s)'
    BY <2>1, <2>2 DEF QueueInv, CallFits
  <2>8. \A s \in Thread : /\ ~InQueue(s)' => pc'[s] \in {"idle", "signalled"} \cup FlushPC \cup RangePC
                          /\ ~InQueue(s)' /\ pc'[s] = "signalled" => done'[s]
    BY <2>2, <2>3, <2>5 DEF QueueInv
  <2>9. \A i \in DOMAIN writers :
           /\ pc'[writers[i]] \in QueuePC /\ ~done'[writers[i]]
           /\ pc'[writers[i]] = "asleep" <=> i # 1
           /\ pc'[writers[i]] # "finish" => status[writers[i]] = "ok"
    BY <2>2, <2>3, <2>6 DEF QueueInv
  <2> QED
    BY <2>1, <2>2, <2>4, <2>7, <2>8, <2>9 DEF QueueInv
<1>9. CASE Destroy \/ DestroyWoken \/ Ended
  <2>1. UNCHANGED <<locals, mutex, writers>> /\ (closing' = closing \/ \A s \in Thread : pc[s] = "idle")
    BY <1>9 DEF Destroy, DestroyWoken, Ended, vars, QueueInv
  <2> QED
    BY <2>1 DEF locals, QueueInv, CallFits, InQueue
<1>10. \A t \in Thread : RoomFound(t) => call[t].op \in {"flush", "write"}
  BY DEF RoomFound
<1> QED
  BY <1>1, <1>2, <1>3, <1>4, <1>5, <1>6, <1>7, <1>8, <1>9, <1>10 DEF Next, Step, Leaves

-----------------------------------------------------------------------------
(***************************************************************************)
(* The background thread and those who wait for it.                        *)
(***************************************************************************)
\* A step of a caller that leaves the background thread alone.
LEMMA CallerKeeps ==
    ASSUME TypeOK, BackgroundInv,
           UNCHANGED <<bg, nested, inputs, is_manual, imm, l0, scheduled, manual, closing>>,
           bgError => bgError',
           \A s \in Thread : /\ pc[s] \in RangePC => pc'[s] \in RangePC /\ done'[s] = done[s]
                             /\ pc'[s] \in {"roomwait", "flushwait", "rangewait"} =>
                                   scheduled \/ pc[s] \in {"roomwait", "flushwait", "rangewait"}
    PROVE  BackgroundInv'
<1>1. manual \in Thread \cup {Nil} /\ bgError \in BOOLEAN
  BY DEF TypeOK
<1> QED
  BY <1>1 DEF BackgroundInv, NeedsCompaction

\* Work that appears is scheduled, as long as the database is open and well.
LEMMA Schedules ==
    ASSUME NEW i, NEW m, NEW files, MaybeScheduleCompaction(i, m, files),
           scheduled \in BOOLEAN, closing = "open", ~bgError'
    PROVE  /\ scheduled => scheduled'
           /\ i # {} \/ m # Nil \/ NeedsCompaction(files) => scheduled'
<1>1. scheduled' = (scheduled \/ HasWork(bgError', i, m, files))
  BY DEF MaybeScheduleCompaction
<1>2. ASSUME i # {} \/ m # Nil \/ NeedsCompaction(files) PROVE HasWork(bgError', i, m, files)
  BY <1>2 DEF HasWork
<1> QED
  BY <1>1, <1>2, Zenon

LEMMA BackgroundStep ==
    ASSUME WriteQueueInv, Next PROVE BackgroundInv'
<1> USE DEF WriteQueueInv
<1>0. /\ TypeOK /\ pc \in [Thread -> PC] /\ done \in [Thread -> BOOLEAN]
      /\ manual \in Thread \cup {Nil} /\ Nil \notin Thread /\ l0 \in Nat /\ inputs \in Nat
      /\ bgError \in BOOLEAN /\ scheduled \in BOOLEAN /\ nested \in BOOLEAN /\ is_manual \in BOOLEAN
      /\ CompactionTrigger \in Nat /\ StopTrigger \in Nat /\ CompactionTrigger <= StopTrigger
  BY WriteQueueAssumption DEF TypeOK
<1>c. \A t \in Thread : pc[t] # "idle" => closing = "open"
  BY DEF QueueInv
<1> DEFINE Waits == {"roomwait", "flushwait", "rangewait"}
<1>m. manual # Nil => pc[manual] \in RangePC /\ ~done[manual]
  BY DEF BackgroundInv
<1>1. ASSUME NEW t \in Thread, NEW op \in Ops, NEW sync \in BOOLEAN, NEW size \in Sizes \cup {0},
             Write(t, op, sync, size)
      PROVE  BackgroundInv'
  <2>1. pc[t] = "idle" /\ UNCHANGED <<work, imm, l0, scheduled, manual, closing, bgError>>
        /\ pc'[t] \in {"room", "asleep"}
        /\ \A s \in Thread \ {t} : pc'[s] = pc[s] /\ done'[s] = done[s]
    BY <1>0, <1>1 DEF Write, store
  <2> QED
    BY <1>0, <2>1, CallerKeeps DEF work, RangePC
<1>2. ASSUME NEW t \in Thread, Wake(t) PROVE BackgroundInv'
  <2>1. pc[t] = "signalled" /\ UNCHANGED <<work, imm, l0, scheduled, manual, closing, bgError, done>>
        /\ pc'[t] \in {"idle", "flush", "room", "asleep"}
        /\ \A s \in Thread \ {t} : pc'[s] = pc[s]
    BY <1>0, <1>2 DEF Wake, store, AfterWrite
  <2> QED
    BY <1>0, <2>1, CallerKeeps DEF work, RangePC
<1>p. ASSUME NEW t \in Thread, NEW n \in DOMAIN writers, writers[1] = t, NEW result,
             NEW at \in {pc, Woken(pc)}, Popped(t, n, result, at)
      PROVE  \A s \in Thread : /\ pc[s] \in RangePC => pc'[s] \in RangePC /\ done'[s] = done[s]
                               /\ pc'[s] \in Waits => pc[s] \in Waits
  <2> SUFFICES ASSUME NEW s \in Thread
               PROVE  /\ pc[s] \in RangePC => pc'[s] \in RangePC /\ done'[s] = done[s]
                      /\ pc'[s] \in Waits => pc[s] \in Waits
    OBVIOUS
  <2>0. /\ pc'[t] = AfterWrite(t, result)
        /\ \A i \in DOMAIN writers : pc[writers[i]] \in QueuePC
        /\ (\A i \in 2 .. n : writers[i] # s) => done'[s] = done[s]
        /\ s # t => pc'[s] \in {"signalled", at[s]} /\ (at[s] # "asleep" => pc'[s] = at[s])
        /\ 1 \in DOMAIN writers
        /\ \A i \in 2 .. n : i \in DOMAIN writers
    BY <1>0, <1>p DEF Popped, QueueInv, TypeOK
  <2>1. /\ at[s] = "asleep" <=> pc[s] = "asleep"
        /\ at[s] \in RangePC <=> pc[s] \in RangePC
        /\ at[s] \in Waits => pc[s] \in Waits
    BY <1>0, <1>p, WokenFacts DEF RangePC
  <2>2. pc[s] \in RangePC => s # t /\ \A i \in 2 .. n : writers[i] # s
    BY <1>p, <2>0 DEF QueuePC, RangePC
  <2> QED
    BY <2>0, <2>1, <2>2 DEF AfterWrite, RangePC
<1>3. ASSUME NEW t \in Thread, Leaves(t) PROVE BackgroundInv'
  <2>1. 1 \in DOMAIN writers /\ writers[1] = t
    BY <1>3, HeadOfQueue DEF Leaves, RoomError, NoNewLogFile, RoomFound, InRoom
  <2>2. PICK result : Popped(t, 1, result, pc)
    BY <1>3, LeavesPops
  <2>3. UNCHANGED <<store, l0, work, scheduled, manual, bgError, closing>>
    BY <1>3, LeavesPops
  <2>4. \A s \in Thread : /\ pc[s] \in RangePC => pc'[s] \in RangePC /\ done'[s] = done[s]
                          /\ pc'[s] \in Waits => pc[s] \in Waits
    BY <1>p, <2>1, <2>2
  <2> QED
    BY <2>3, <2>4, CallerKeeps DEF store, work
<1>4. ASSUME NEW t \in Thread, FinishWrite(t) PROVE BackgroundInv'
  <2>1. writers[1] = t
    BY <1>4, HeadOfQueue DEF FinishWrite
  <2>2. PICK n \in DOMAIN writers, at \in {pc, Woken(pc)}, result \in {"ok", "error"} :
           Popped(t, n, result, at)
    BY <1>4, FinishPops
  <2>3. UNCHANGED <<imm, l0, work, scheduled, manual, closing>> /\ (bgError => bgError')
    BY <1>4 DEF FinishWrite, RecordBackgroundError
  <2>4. \A s \in Thread : /\ pc[s] \in RangePC => pc'[s] \in RangePC /\ done'[s] = done[s]
                          /\ pc'[s] \in Waits => pc[s] \in Waits
    BY <1>p, <2>1, <2>2
  <2> QED
    BY <2>3, <2>4, CallerKeeps DEF work
<1>5. ASSUME NEW t \in Thread, \/ RoomDelay(t) \/ AddRecord(t) \/ Sync(t) \/ InsertInto(t)
                               \/ (RoomFound(t) /\ call[t].op = "write")
      PROVE  BackgroundInv'
  <2>1. /\ pc[t] \in {"room", "append", "sync", "insert"}
        /\ pc'[t] \in {"room", "append", "sync", "insert", "finish"}
        /\ \A s \in Thread \ {t} : pc'[s] = pc[s]
    BY <1>0, <1>5 DEF RoomDelay, AddRecord, Sync, InsertInto, RoomFound, InRoom
  <2>2. UNCHANGED <<imm, l0, work, scheduled, manual, bgError, closing, done>>
    BY <1>5 DEF RoomDelay, AddRecord, Sync, InsertInto, RoomFound, store
  <2> QED
    BY <2>1, <2>2, CallerKeeps DEF work, RangePC
<1>6. ASSUME NEW t \in Thread, RoomWait(t) PROVE BackgroundInv'
  <2>1. /\ pc[t] = "room" /\ closing = "open" /\ \A s \in Thread \ {t} : pc'[s] = pc[s]
        /\ pc'[t] = "roomwait" /\ UNCHANGED <<imm, l0, work, scheduled, manual, bgError, closing, done>>
    BY <1>0, <1>6, <1>c DEF RoomWait, InRoom, store
  <2>2. scheduled
    BY <1>0, <1>6, <2>1 DEF RoomWait, BackgroundInv, NeedsCompaction
  <2> QED
    BY <2>1, <2>2, CallerKeeps DEF work, RangePC
<1>7. ASSUME NEW t \in Thread, SwitchMemTable(t) PROVE BackgroundInv'
  <2>1. pc[t] = "room" /\ closing = "open"
    BY <1>7, <1>c DEF SwitchMemTable, InRoom
  <2>2. UNCHANGED <<pc, done, l0, work, manual, closing, bgError>> /\ ~bgError
    BY <1>7 DEF SwitchMemTable
  <2>3. MaybeScheduleCompaction(imm', manual, l0)
    BY <1>7 DEF SwitchMemTable
  <2>4. /\ scheduled => scheduled'
        /\ imm' # {} \/ manual # Nil \/ NeedsCompaction(l0) => scheduled'
    BY <1>0, <2>1, <2>2, <2>3, Schedules
  <2>5. bg \notin {"build", "apply"}
    BY <1>7 DEF SwitchMemTable, BackgroundInv
  <2> QED
    BY <2>2, <2>4, <2>5 DEF BackgroundInv, work, NeedsCompaction
<1>8. ASSUME NEW t \in Thread, CompactMemTableWait(t) PROVE BackgroundInv'
  <2>1. /\ pc[t] = "flush" /\ closing = "open" /\ \A s \in Thread \ {t} : pc'[s] = pc[s]
        /\ UNCHANGED <<imm, l0, work, scheduled, manual, bgError, closing, done>>
        /\ pc'[t] = "idle" \/ (pc'[t] = "flushwait" /\ imm # {} /\ ~bgError)
    BY <1>0, <1>8, <1>c DEF CompactMemTableWait, store
  <2>2. pc'[t] = "flushwait" => scheduled
    BY <2>1 DEF BackgroundInv
  <2> QED
    BY <2>1, <2>2, CallerKeeps DEF work, RangePC
<1>9. ASSUME NEW t \in Thread, CompactRange(t) PROVE BackgroundInv'
  <2>1. /\ pc[t] = "idle" /\ pc'[t] = "range" /\ \A s \in Thread \ {t} : pc'[s] = pc[s] /\ done'[s] = done[s]
        /\ UNCHANGED <<imm, l0, work, scheduled, manual, bgError, closing>>
    BY <1>0, <1>9 DEF CompactRange, store
  <2> QED
    BY <2>1, CallerKeeps DEF work, RangePC
<1>10. ASSUME NEW t \in Thread, RequestManual(t) PROVE BackgroundInv'
  <2>1. /\ pc[t] = "range" /\ ~done[t] /\ ~bgError /\ closing = "open"
        /\ pc'[t] = "rangewait" /\ \A s \in Thread \ {t} : pc'[s] = pc[s]
        /\ UNCHANGED <<imm, l0, work, bgError, closing, done>>
        /\ manual' = IF manual = Nil THEN t ELSE manual
    BY <1>0, <1>10, <1>c DEF RequestManual, store
  <2>2. (scheduled => scheduled') /\ scheduled'
    <3>1. CASE manual = Nil
      <4>1. MaybeScheduleCompaction(imm, manual', l0) /\ manual' # Nil /\ ~bgError'
        BY <1>0, <1>10, <2>1, <3>1 DEF RequestManual
      <4> QED
        BY <1>0, <2>1, <4>1, Schedules
    <3>2. CASE manual # Nil
      BY <1>10, <2>1, <3>2 DEF RequestManual, BackgroundInv
    <3> QED
      BY <3>1, <3>2
  <2>3. manual' # Nil => pc'[manual'] \in RangePC /\ ~done'[manual']
    BY <1>0, <1>m, <2>1 DEF RangePC
  <2>4. is_manual' /\ ~bgError' => manual' # Nil
    BY <1>0, <2>1 DEF BackgroundInv, work
  <2> QED
    BY <2>1, <2>2, <2>3, <2>4 DEF BackgroundInv, work, NeedsCompaction
<1>11. ASSUME NEW t \in Thread, EndManual(t) PROVE BackgroundInv'
  <2>1. /\ pc[t] = "range" /\ (done[t] \/ bgError)
        /\ pc'[t] = "idle" /\ \A s \in Thread \ {t} : pc'[s] = pc[s]
        /\ UNCHANGED <<imm, l0, work, bgError, closing, done, scheduled>>
        /\ manual' = IF manual = t THEN Nil ELSE manual
    BY <1>0, <1>11 DEF EndManual, store, Withdraw
  <2>2. manual' # Nil => pc'[manual'] \in RangePC /\ ~done'[manual'] /\ manual' = manual
    BY <1>0, <1>m, <2>1
  <2>3. is_manual' /\ ~bgError' => manual' # Nil
    BY <1>0, <1>m, <2>1 DEF BackgroundInv, work
  <2>4. \A s \in Thread : pc'[s] \in Waits => pc[s] \in Waits
    BY <2>1
  <2> QED
    BY <2>1, <2>2, <2>3, <2>4 DEF BackgroundInv, work, NeedsCompaction
<1>w. ASSUME pc' = Woken(pc), NEW s \in Thread
      PROVE  pc'[s] \notin Waits /\ (pc[s] \in RangePC => pc'[s] \in RangePC)
  BY <1>0, <1>w, WokenFacts DEF RangePC
<1>f. ASSUME NEW failed \in BOOLEAN, NEW i, NEW m, NEW files \in Nat, FinishCall(failed, i, m, files),
             i = imm', m = manual', files = l0',
             manual' # Nil => manual' = manual, \A s \in Thread : s = manual' => done'[s] = done[s]
      PROVE  BackgroundInv'
  <2>1. /\ bg' = "idle" /\ nested' = FALSE /\ inputs' = 0 /\ is_manual' = FALSE
        /\ pc' = Woken(pc) /\ closing' \in {closing, "woken"} /\ closing' # "waiting"
        /\ closing' = "open" => closing = "open"
    BY <1>f DEF FinishCall, WokenDestructor
  <2>2. closing' = "open" /\ ~bgError' /\ (imm' # {} \/ manual' # Nil \/ NeedsCompaction(l0')) => scheduled'
    BY <1>f, <2>1 DEF FinishCall, HasWork
  <2>3. manual' # Nil => pc'[manual'] \in RangePC /\ ~done'[manual']
    BY <1>0, <1>f, <1>m, <1>w, <2>1
  <2> QED
    BY <1>f, <1>w, <2>1, <2>2, <2>3 DEF BackgroundInv, NeedsCompaction
<1>12. CASE BackgroundNothing
  <2>1. CASE FinishCall(FALSE, imm, manual, l0) /\ UNCHANGED <<manual, done>>
    BY <1>0, <1>12, <1>f, <2>1 DEF BackgroundNothing, store
  <2>2. CASE done' = [done EXCEPT ![manual] = TRUE] /\ manual' = Nil /\ FinishCall(FALSE, imm, Nil, l0)
    BY <1>0, <1>12, <1>f, <2>2 DEF BackgroundNothing, store
  <2> QED
    BY <1>12, <2>1, <2>2 DEF BackgroundNothing
<1>13. CASE BackgroundCompaction
  <2>1. UNCHANGED <<pc, done, imm, l0, nested, scheduled, manual, bgError, closing>> /\ scheduled /\ bg = "idle"
    BY <1>13 DEF BackgroundCompaction, locals, store
  <2>2. /\ bg' \in {"build", "compact", "install"} /\ (bg' = "build" => imm # {})
        /\ inputs' <= l0 /\ (is_manual' => manual # Nil)
    BY <1>0, <1>13 DEF BackgroundCompaction, BackgroundInv
  <2> QED
    BY <2>1, <2>2 DEF BackgroundInv, NeedsCompaction
<1>a. ASSUME NEW failed \in BOOLEAN, NEW i, NEW files, AfterFlush(failed, i, files), i = imm', files = l0',
             UNCHANGED <<manual, done>>, scheduled, l0' \in Nat, l0 <= l0'
      PROVE  BackgroundInv'
  <2>1. CASE FinishCall(failed, i, manual, files)
    BY <1>0, <1>a, <1>f, <2>1
  <2>2. CASE /\ nested' = FALSE /\ bg' = "compact" /\ bgError' = RecordBackgroundError(failed)
             /\ pc' = Woken(pc) /\ closing' = WokenDestructor /\ UNCHANGED <<inputs, is_manual, scheduled>>
    <3>1. inputs' <= l0'
      BY <1>0, <1>a, <2>2 DEF BackgroundInv
    <3>2. (manual' # Nil => pc'[manual'] \in RangePC /\ ~done'[manual'])
      BY <1>0, <1>a, <1>m, <1>w, <2>2
    <3>3. is_manual' /\ ~bgError' => manual' # Nil
      BY <1>a, <2>2 DEF BackgroundInv, RecordBackgroundError
    <3> QED
      BY <1>a, <2>2, <3>1, <3>2, <3>3 DEF BackgroundInv, NeedsCompaction
  <2> QED
    BY <1>a, <2>1, <2>2 DEF AfterFlush
<1>14. CASE BuildTable
  <2>0. UNCHANGED <<imm, l0, manual, done>> /\ scheduled
    BY <1>14 DEF BuildTable, store, BackgroundInv
  <2>1. CASE bg' = "apply" /\ UNCHANGED <<pc, nested, inputs, is_manual, scheduled, bgError, closing, failures>>
    BY <1>14, <2>0, <2>1 DEF BuildTable, BackgroundInv, NeedsCompaction
  <2>2. CASE AfterFlush(TRUE, imm, l0)
    <3>1. imm = imm' /\ l0 = l0' /\ l0' \in Nat /\ l0 <= l0' /\ UNCHANGED <<manual, done>> /\ TRUE \in BOOLEAN
      BY <1>0, <2>0
    <3> QED
      BY <1>a, <2>0, <2>2, <3>1, Zenon
  <2> QED
    BY <1>14, <2>1, <2>2 DEF BuildTable
<1>15. CASE FlushMemTable
  <2>0. UNCHANGED <<manual, done>> /\ scheduled
    BY <1>15 DEF FlushMemTable, BackgroundInv
  <2>1. CASE imm' = {} /\ l0' \in {l0} \cup (IF imm = {{}} THEN {} ELSE {l0 + 1}) /\ AfterFlush(FALSE, {}, l0')
    <3>1. {} = imm' /\ l0' \in Nat /\ l0 <= l0' /\ UNCHANGED <<manual, done>> /\ FALSE \in BOOLEAN
      BY <1>0, <2>0, <2>1
    <3> QED
      BY <1>a, <2>0, <2>1, <3>1, Zenon
  <2>2. CASE AfterFlush(TRUE, imm, l0) /\ UNCHANGED <<tables, imm, l0>>
    <3>1. imm = imm' /\ l0 = l0' /\ l0' \in Nat /\ l0 <= l0' /\ UNCHANGED <<manual, done>> /\ TRUE \in BOOLEAN
      BY <1>0, <2>0, <2>2
    <3> QED
      BY <1>a, <2>0, <2>2, <3>1, Zenon
  <2> QED
    BY <1>15, <2>1, <2>2 DEF FlushMemTable
<1>h. ASSUME NEW failed \in BOOLEAN, FinishCompaction(failed, l0'), UNCHANGED imm, l0' \in Nat
      PROVE  BackgroundInv'
  <2>1. /\ FinishCall(failed, imm', manual', l0') /\ (manual' # Nil => manual' = manual)
        /\ \A s \in Thread : s = manual' => done'[s] = done[s]
    BY <1>0, <1>h DEF FinishCompaction
  <2> QED
    BY <1>f, <1>h, <2>1
<1>16. CASE DoCompactionWork
  <2>0. UNCHANGED <<imm, l0>> /\ scheduled /\ l0 \in Nat
    BY <1>0, <1>16 DEF DoCompactionWork, store, BackgroundInv
  <2>1. CASE /\ imm # {} /\ bg' = "build" /\ nested' = TRUE
             /\ UNCHANGED <<pc, done, inputs, is_manual, scheduled, manual, bgError, closing, crashed, failures>>
    BY <2>0, <2>1 DEF BackgroundInv, NeedsCompaction
  <2>2. CASE /\ bg' = "install"
             /\ UNCHANGED <<pc, done, nested, inputs, is_manual, scheduled, manual, bgError, closing, crashed,
                            failures>>
    BY <2>0, <2>2 DEF BackgroundInv, NeedsCompaction
  <2>3. CASE FinishCompaction(TRUE, l0)
    BY <1>h, <2>0, <2>3
  <2> QED
    BY <1>16, <2>1, <2>2, <2>3 DEF DoCompactionWork
<1>17. CASE InstallCompactionResults
  <2>0. UNCHANGED imm
    BY <1>17 DEF InstallCompactionResults, store
  <2>1. l0' \in Nat
    <3>1. l0 - inputs \in Nat
      BY <1>0 DEF BackgroundInv
    <3> QED
      BY <1>0, <1>17, <3>1 DEF InstallCompactionResults, FilesLeft
  <2>2. FinishCompaction(FALSE, l0') \/ (FinishCompaction(TRUE, l0) /\ UNCHANGED l0)
    BY <1>17 DEF InstallCompactionResults
  <2>3. PICK failed \in BOOLEAN : FinishCompaction(failed, l0')
    BY <2>2
  <2> QED
    BY <1>h, <2>0, <2>1, <2>3
<1>18. CASE Destroy \/ DestroyWoken \/ Ended
  <2>1. /\ UNCHANGED <<locals, store, l0, work, scheduled, manual, bgError>>
        /\ closing' = "waiting" => scheduled \/ closing = "waiting"
        /\ closing' = "open" => closing = "open"
    BY <1>18 DEF Destroy, DestroyWoken, Ended, vars
  <2> QED
    BY <2>1 DEF BackgroundInv, locals, store, work, NeedsCompaction
<1>19. \A t \in Thread : RoomFound(t) => call[t].op \in {"flush", "write"}
  BY DEF RoomFound
<1> QED
  BY <1>1, <1>2, <1>3, <1>4, <1>5, <1>6, <1>7, <1>8, <1>9, <1>10, <1>11, <1>12, <1>13, <1>14,
     <1>15, <1>16, <1>17, <1>18, <1>19 DEF Next, Step, Background, Leaves

-----------------------------------------------------------------------------
(***************************************************************************)
(* Steps that change neither the queue nor the group nor the log.          *)
(***************************************************************************)
Quiet ==
    /\ UNCHANGED <<call, status, writers, groups, log, synced, lastSequence, issued>>
    /\ \A s \in Thread : /\ Leading(s)' <=> Leading(s)
                         /\ Leading(s) => pc'[s] = pc[s]
                         /\ pc'[s] # "idle" => pc[s] # "idle"
                         /\ pc'[s] = "signalled" => pc[s] = "signalled" /\ done'[s] = done[s]
    /\ UNCHANGED mem \/ group = {}
    /\ Stored' = Stored /\ Ids(tables) \subseteq Ids(tables')

QuietThread(t) ==
    \/ Wake(t) \/ RoomDelay(t) \/ RoomWait(t) \/ SwitchMemTable(t)
    \/ CompactMemTableWait(t) \/ RequestManual(t) \/ EndManual(t)

LEMMA QuietSteps ==
    ASSUME WriteQueueInv
    PROVE  /\ \A t \in Thread : QuietThread(t) => Quiet
           /\ Background \/ Destroy \/ DestroyWoken \/ Ended => Quiet
<1> USE DEF WriteQueueInv
<1>0. pc \in [Thread -> PC] /\ TypeOK
  BY DEF TypeOK
<1>1. ASSUME NEW t \in Thread, QuietThread(t) PROVE Quiet
  <2>1. /\ UNCHANGED <<call, status, done, writers, groups, log, synced, lastSequence, issued, tables>>
        /\ pc'[t] \notin {"append", "sync", "insert", "finish", "signalled"}
        /\ pc[t] \notin {"append", "sync", "insert", "finish", "idle"}
        /\ \A s \in Thread \ {t} : pc'[s] = pc[s]
    BY <1>0, <1>1 DEF QuietThread, Wake, RoomDelay, RoomWait, SwitchMemTable, CompactMemTableWait,
       RequestManual, EndManual, InRoom, AfterWrite, store, history
  <2>2. CASE SwitchMemTable(t)
    <3>1. writers # <<>> /\ writers[1] = t /\ ~Leading(t)
      BY <2>2, HeadOfQueue DEF SwitchMemTable, InRoom, Leading
    <3>2. group = {}
      BY <3>1, NoLeader
    <3>3. mem \in SUBSET Entry /\ imm = {} /\ imm' = {mem} /\ mem' = {}
      BY <2>2 DEF SwitchMemTable, TypeOK
    <3>4. Ids({}) = {} /\ UNION imm = {} /\ UNION imm' = mem
      BY <3>3 DEF Ids
    <3>5. Stored' = Stored
      BY <2>1, <3>3, <3>4 DEF Stored
    <3> QED
      BY <2>1, <3>2, <3>5 DEF Quiet, Leading
  <2>3. CASE UNCHANGED <<mem, imm>>
    <3>1. Stored' = Stored
      BY <2>1, <2>3 DEF Stored
    <3> QED
      BY <2>1, <2>3, <3>1 DEF Quiet, Leading
  <2> QED
    BY <1>1, <2>2, <2>3 DEF QuietThread, Wake, RoomDelay, RoomWait, CompactMemTableWait,
       RequestManual, EndManual, store
<1>2. CASE Background
  <2>1. /\ UNCHANGED <<call, status, writers, groups, log, synced, lastSequence, issued, mem>>
        /\ pc' = pc \/ pc' = Woken(pc)
    BY <1>2, BackgroundEffect
  <2>2. \A s \in Thread : /\ Leading(s)' <=> Leading(s)
                          /\ Leading(s) => pc'[s] = pc[s]
                          /\ pc'[s] # "idle" => pc[s] # "idle"
                          /\ pc'[s] = "signalled" => pc[s] = "signalled"
    BY <1>0, <2>1, WokenFacts DEF Leading
  <2>3. \A s \in Thread : pc[s] = "signalled" => done'[s] = done[s]
    <3>1. done \in [Thread -> BOOLEAN] /\ (manual # Nil => pc[manual] \in RangePC /\ manual \in Thread)
      BY DEF TypeOK, BackgroundInv
    <3> QED
      BY <1>2, <3>1, BackgroundEffect DEF RangePC
  <2>4. Stored' = Stored /\ Ids(tables) \subseteq Ids(tables')
    <3>1. CASE UNCHANGED <<imm, tables>>
      BY <2>1, <3>1 DEF Stored
    <3>2. CASE bg = "apply" /\ imm' = {} /\ tables' = tables \cup UNION imm
      <4>1. Ids(tables') = Ids(tables) \cup Ids(UNION imm) /\ Ids(UNION imm') = {}
        BY <3>2 DEF Ids
      <4> QED
        BY <2>1, <4>1 DEF Stored
    <3> QED
      BY <1>2, <3>1, <3>2, BackgroundEffect
  <2> QED
    BY <2>1, <2>2, <2>3, <2>4 DEF Quiet
<1>3. CASE Destroy \/ DestroyWoken \/ Ended
  <2>1. UNCHANGED <<locals, writers, groups, store, issued>>
    BY <1>3 DEF Destroy, DestroyWoken, Ended, vars, history
  <2>2. Stored' = Stored
    BY <2>1 DEF Stored, store
  <2> QED
    BY <2>1, <2>2 DEF Quiet, Leading, locals, store
<1> QED
  BY <1>1, <1>2, <1>3

\* The actions by what they do to the queue, the group and the log.
LEMMA Cases ==
    ASSUME WriteQueueInv, Next
    PROVE  \/ Quiet
           \/ \E t \in Thread :
                \/ \E op \in Ops, sync \in BOOLEAN, size \in Sizes \cup {0} : Write(t, op, sync, size)
                \/ CompactRange(t) \/ Leaves(t) \/ (RoomFound(t) /\ call[t].op = "write")
                \/ AddRecord(t) \/ Sync(t) \/ InsertInto(t) \/ FinishWrite(t)
<1>1. \A t \in Thread : RoomFound(t) => call[t].op \in {"flush", "write"}
  BY DEF RoomFound
<1> QED
  BY <1>1, QuietSteps DEF Next, Step, Leaves, QuietThread

-----------------------------------------------------------------------------
(***************************************************************************)
(* Numbers.                                                                *)
(***************************************************************************)
\* Calls have numbers.
LEMMA QueueIds ==
    ASSUME TypeOK, QueueInv, NEW i \in DOMAIN writers
    PROVE  /\ writers[i] \in Thread /\ pc[writers[i]] # "idle" /\ call[writers[i]] \in Writer
           /\ call[writers[i]].id \in 1 .. MaxOps /\ call[writers[i]].id \in Nat
           /\ i \in Nat /\ i >= 1
<1>0. writers \in Seq(Thread)
  BY DEF TypeOK
<1>1. writers[i] \in Thread /\ i \in Nat /\ i >= 1
  BY <1>0
<1>2. pc[writers[i]] \in QueuePC
  BY DEF QueueInv
<1>3. pc[writers[i]] # "idle"
  BY <1>2 DEF QueuePC
<1>4. call[writers[i]] \in Writer
  BY <1>1, <1>3 DEF QueueInv, CallFits
<1>5. call[writers[i]].id \in 1 .. MaxOps
  BY <1>4 DEF Writer
<1>6. MaxOps \in Nat
  BY WriteQueueAssumption
<1> QED
  BY <1>1, <1>3, <1>4, <1>5, <1>6

\* A new call is numbered above all others.
LEMMA NewCall ==
    ASSUME TypeOK, QueueInv, NEW t \in Thread, NEW op \in Ops, NEW sync \in BOOLEAN,
           NEW size \in Sizes \cup {0}, Write(t, op, sync, size)
    PROVE  /\ ~InQueue(t) /\ pc[t] = "idle" /\ issued' = issued + 1 /\ call'[t].id = issued + 1
           /\ \A s \in Thread \ {t} : /\ call'[s] = call[s] /\ pc'[s] = pc[s]
                                      /\ status'[s] = status[s] /\ done'[s] = done[s]
           /\ pc'[t] \in {"room", "asleep"}
           /\ Len(writers) \in Nat /\ DOMAIN writers = 1 .. Len(writers)
           /\ DOMAIN writers' = 1 .. (Len(writers) + 1) /\ writers'[Len(writers) + 1] = t
           /\ \A i \in DOMAIN writers : writers'[i] = writers[i] /\ writers[i] # t
           /\ UNCHANGED <<groups, store, acked>>
<1>1. pc[t] = "idle" /\ issued' = issued + 1 /\ writers' = Append(writers, t)
      /\ UNCHANGED <<groups, store, acked>>
  BY DEF Write
<1>2. ~InQueue(t)
  BY <1>1 DEF QueueInv, InQueue, QueuePC
<1>3. call'[t].id = issued + 1 /\ pc'[t] \in {"room", "asleep"}
  BY DEF Write, TypeOK
<1>4. \A s \in Thread \ {t} : /\ call'[s] = call[s] /\ pc'[s] = pc[s]
                              /\ status'[s] = status[s] /\ done'[s] = done[s]
  BY DEF Write, TypeOK
<1>5. /\ Len(writers) \in Nat /\ DOMAIN writers = 1 .. Len(writers)
      /\ DOMAIN writers' = 1 .. (Len(writers) + 1) /\ writers'[Len(writers) + 1] = t
      /\ \A i \in DOMAIN writers : writers'[i] = writers[i]
  BY <1>1 DEF TypeOK
<1> QED
  BY <1>1, <1>2, <1>3, <1>4, <1>5 DEF InQueue

LEMMA NumbersAfterGroup ==
    ASSUME TypeOK, QueueInv, NumbersInv, NEW t \in Thread, NEW n \in DOMAIN writers, writers[1] = t,
           NEW result, NEW at \in {pc, Woken(pc)}, Popped(t, n, result, at), UNCHANGED <<call, issued>>,
           lastSequence' \in Nat, lastSequence' <= lastSequence + n
    PROVE  NumbersInv'
<1>0. /\ writers \in Seq(Thread) /\ n \in Nat /\ n >= 1 /\ lastSequence \in Nat /\ issued \in Nat
      /\ pc \in [Thread -> PC]
  <2>1. writers \in Seq(Thread) /\ pc \in [Thread -> PC]
    BY DEF TypeOK
  <2>2. n \in Nat /\ n >= 1
    BY <2>1
  <2> QED
    BY <2>1, <2>2, Counters
<1>1. /\ writers' \in Seq(Thread)
      /\ \A i \in DOMAIN writers' : n + i \in DOMAIN writers /\ writers'[i] = writers[n + i] /\ i \in Nat
      /\ pc'[t] = AfterWrite(t, result)
      /\ \A s \in Thread \ {t} : (pc'[s] = "signalled" /\ at[s] = "asleep") \/ pc'[s] = at[s]
  BY DEF Popped
<1>i. ASSUME NEW i \in DOMAIN writers'
      PROVE  /\ i \in Nat /\ n + i \in DOMAIN writers /\ call'[writers'[i]].id = call[writers[n + i]].id
             /\ call[writers[n + i]].id \in Nat /\ lastSequence + (n + i) <= call[writers[n + i]].id
  <2>1. n + i \in DOMAIN writers /\ i \in Nat /\ writers'[i] = writers[n + i]
    BY <1>1
  <2>2. call[writers[n + i]].id \in Nat
    BY <2>1, QueueIds
  <2> QED
    BY <2>1, <2>2 DEF NumbersInv
<1>2. ASSUME NEW i \in DOMAIN writers', NEW j \in DOMAIN writers', i < j
      PROVE  call'[writers'[i]].id < call'[writers'[j]].id
  <2>1. n + i < n + j
    BY <1>0, <1>2, <1>i
  <2>2. call[writers[n + i]].id < call[writers[n + j]].id
    BY <1>i, <2>1 DEF NumbersInv
  <2> QED
    BY <1>i, <2>2
<1>3. ASSUME NEW i \in DOMAIN writers' PROVE lastSequence' + i <= call'[writers'[i]].id
  <2> DEFINE c == call[writers[n + i]].id
  <2>1. /\ i \in Nat /\ c \in Nat /\ lastSequence + (n + i) <= c /\ call'[writers'[i]].id = c
    BY <1>i
  <2> HIDE DEF c
  <2>2. lastSequence' + i <= c
    BY <1>0, <2>1
  <2> QED
    BY <2>1, <2>2
<1>4. ASSUME NEW s \in Thread, pc'[s] # "idle" PROVE call'[s].id <= issued'
  <2>1. pc[t] # "idle"
    BY <1>0, QueueIds
  <2>2. pc[s] # "idle"
    BY <1>0, <1>1, <1>4, <2>1, WokenFacts
  <2> QED
    BY <2>2 DEF NumbersInv
<1>5. lastSequence' <= issued'
  <2>1. lastSequence + n <= call[writers[n]].id /\ call[writers[n]].id <= issued /\ call[writers[n]].id \in Nat
    BY <1>0, QueueIds DEF NumbersInv
  <2> QED
    BY <1>0, <2>1
<1> QED
  BY <1>2, <1>3, <1>4, <1>5 DEF NumbersInv

\* Every entry has its number below LastSequence + Count.
LEMMA GroupCount ==
    ASSUME TypeOK, QueueInv, GroupInv, NEW t \in Thread, FinishWrite(t), NEW n \in DOMAIN writers, GroupOf(n)
    PROVE  /\ Cardinality(group) \in Nat /\ Cardinality(group) <= n
           /\ lastSequence' = lastSequence + Cardinality(group)
           /\ lastSequence \in Nat /\ lastSequence' \in Nat
<1>1. Cardinality(group) \in Nat
  BY FS_CardinalityType DEF GroupInv
<1>2. Cardinality(group) <= n
  BY DEF GroupOf
<1>3. lastSequence' = lastSequence + Cardinality(group)
  BY DEF FinishWrite, NextSequence
<1>4. lastSequence \in Nat
  BY DEF TypeOK
<1> QED
  BY <1>1, <1>2, <1>3, <1>4

LEMMA NumbersStep ==
    ASSUME WriteQueueInv, Next PROVE NumbersInv'
<1>t. TypeOK
  BY DEF WriteQueueInv
<1>n. /\ pc \in [Thread -> PC] /\ lastSequence \in 0 .. MaxOps /\ issued \in 0 .. MaxOps
  BY <1>t DEF TypeOK
<1>0. /\ pc \in [Thread -> PC] /\ TypeOK /\ lastSequence \in Nat /\ issued \in Nat
  BY <1>t, <1>n
<1> USE DEF WriteQueueInv
<1>1. CASE Quiet
  BY <1>1 DEF Quiet, NumbersInv
<1>2. ASSUME NEW t \in Thread, NEW op \in Ops, NEW sync \in BOOLEAN, NEW size \in Sizes \cup {0},
             Write(t, op, sync, size)
      PROVE  NumbersInv'
  <2> DEFINE L == Len(writers)
  <2>1. /\ issued' = issued + 1 /\ call'[t].id = issued + 1
        /\ \A s \in Thread \ {t} : call'[s] = call[s] /\ pc'[s] = pc[s]
        /\ L \in Nat /\ DOMAIN writers = 1 .. L /\ DOMAIN writers' = 1 .. (L + 1) /\ writers'[L + 1] = t
        /\ \A i \in 1 .. L : writers'[i] = writers[i] /\ writers[i] # t
        /\ UNCHANGED lastSequence
    BY <1>2, NewCall DEF store
  <2> HIDE DEF L
  <2>2. \A i \in 1 .. L : /\ call'[writers'[i]] = call[writers[i]] /\ call[writers[i]].id \in Nat
                          /\ call[writers[i]].id <= issued
    BY <2>1, QueueIds DEF NumbersInv
  <2>3. \A i, j \in DOMAIN writers' : i < j => call'[writers'[i]].id < call'[writers'[j]].id
    <3> SUFFICES ASSUME NEW i \in 1 .. (L + 1), NEW j \in 1 .. (L + 1), i < j
                 PROVE  call'[writers'[i]].id < call'[writers'[j]].id
      BY <2>1
    <3>1. i \in 1 .. L
      BY <2>1
    <3>2. CASE j \in 1 .. L
      BY <2>1, <2>2, <3>1, <3>2 DEF NumbersInv
    <3>3. CASE j = L + 1
      BY <1>0, <2>1, <2>2, <3>1, <3>3
    <3> QED
      BY <2>1, <3>2, <3>3
  <2>4. lastSequence + L <= issued
    <3>1. CASE L = 0
      BY <1>0, <3>1 DEF NumbersInv
    <3>2. CASE L # 0
      <4>1. L \in 1 .. L
        BY <2>1, <3>2
      <4>2. lastSequence + L <= call[writers[L]].id
        BY <2>1, <4>1 DEF NumbersInv
      <4> QED
        BY <1>0, <2>1, <2>2, <4>1, <4>2
    <3> QED
      BY <3>1, <3>2
  <2>5. ASSUME NEW i \in DOMAIN writers' PROVE lastSequence' + i <= call'[writers'[i]].id
    <3>1. CASE i \in 1 .. L
      BY <2>1, <2>2, <3>1 DEF NumbersInv
    <3>2. CASE i = L + 1
      BY <1>0, <2>1, <2>4, <3>2
    <3> QED
      BY <2>1, <3>1, <3>2
  <2>6. ASSUME NEW s \in Thread, pc'[s] # "idle" PROVE call'[s].id <= issued'
    <3>1. CASE s = t
      BY <1>0, <2>1, <3>1
    <3>2. CASE s # t
      <4>1. pc[s] # "idle" /\ call[s].id <= issued
        BY <2>1, <2>6, <3>2 DEF NumbersInv
      <4>2. call[s].id \in Nat
        BY <4>1, WriteQueueAssumption DEF QueueInv, CallFits, Writer
      <4> QED
        BY <1>0, <2>1, <3>2, <4>1, <4>2
    <3> QED
      BY <3>1, <3>2
  <2>7. lastSequence' <= issued'
    BY <1>0, <2>1 DEF NumbersInv
  <2> QED
    BY <2>3, <2>5, <2>6, <2>7 DEF NumbersInv
<1>3. ASSUME NEW t \in Thread, CompactRange(t) PROVE NumbersInv'
  <2>1. /\ pc[t] = "idle" /\ issued' = issued + 1 /\ call'[t].id = issued + 1 /\ UNCHANGED <<writers, lastSequence>>
        /\ \A s \in Thread \ {t} : call'[s] = call[s] /\ pc'[s] = pc[s]
    BY <1>3 DEF CompactRange, TypeOK, store
  <2>2. \A i \in DOMAIN writers : call'[writers[i]] = call[writers[i]]
    BY <2>1, QueueIds
  <2>3. ASSUME NEW s \in Thread, pc'[s] # "idle" PROVE call'[s].id <= issued'
    <3>1. CASE s = t
      BY <1>0, <2>1, <3>1
    <3>2. CASE s # t
      <4>1. pc[s] # "idle" /\ call[s].id <= issued
        BY <2>1, <2>3, <3>2 DEF NumbersInv
      <4>2. call[s].id \in Nat
        BY <4>1, WriteQueueAssumption DEF QueueInv, CallFits, Writer
      <4> QED
        BY <1>0, <2>1, <3>2, <4>1, <4>2
    <3> QED
      BY <3>1, <3>2
  <2> QED
    BY <1>0, <2>1, <2>2, <2>3 DEF NumbersInv
<1>4. ASSUME NEW t \in Thread, Leaves(t) PROVE NumbersInv'
  <2>1. 1 \in DOMAIN writers /\ writers[1] = t
    BY <1>4, HeadOfQueue DEF Leaves, RoomError, NoNewLogFile, RoomFound, InRoom
  <2>2. PICK result : Popped(t, 1, result, pc)
    BY <1>4, LeavesPops
  <2>3. UNCHANGED <<call, issued, lastSequence>>
    BY <1>4, LeavesPops DEF store
  <2> QED
    BY <1>0, <2>1, <2>2, <2>3, NumbersAfterGroup
<1>5. ASSUME NEW t \in Thread, FinishWrite(t) PROVE NumbersInv'
  <2>1. writers[1] = t /\ UNCHANGED <<call, issued>>
    BY <1>5, HeadOfQueue DEF FinishWrite
  <2>2. PICK n \in DOMAIN writers, at \in {pc, Woken(pc)}, result \in {"ok", "error"} :
           GroupOf(n) /\ Popped(t, n, result, at)
    BY <1>5, FinishPops
  <2>3. lastSequence' \in Nat /\ lastSequence' <= lastSequence + n
    BY <1>5, <2>2, GroupCount DEF TypeOK
  <2> QED
    BY <2>1, <2>2, <2>3, NumbersAfterGroup
<1>6. ASSUME NEW t \in Thread, \/ AddRecord(t) \/ Sync(t) \/ InsertInto(t)
                               \/ (RoomFound(t) /\ call[t].op = "write")
      PROVE  NumbersInv'
  <2>1. /\ UNCHANGED <<call, writers, lastSequence, issued>> /\ pc[t] # "idle"
        /\ \A s \in Thread \ {t} : pc'[s] = pc[s]
    BY <1>0, <1>6 DEF AddRecord, Sync, InsertInto, RoomFound, InRoom, store, history
  <2> QED
    BY <2>1 DEF NumbersInv
<1> QED
  BY <1>1, <1>2, <1>3, <1>4, <1>5, <1>6, Cases

-----------------------------------------------------------------------------
(***************************************************************************)
(* What is past stays so, what is stored stays stored.                     *)
(***************************************************************************)
\* A leader's queue loses its first n writers: their calls are past, as are those before them.
LEMMA PastAfterGroup ==
    ASSUME TypeOK, QueueInv, NumbersInv, NEW n \in DOMAIN writers, NEW t, NEW result, NEW at,
           Popped(t, n, result, at), UNCHANGED <<call, issued>>
    PROVE  /\ \A k \in Nat : Past(k) => Past(k)'
           /\ \A k \in Nat : (\E i \in 1 .. n : k = call[writers[i]].id) => Past(k)'
<1>0. writers \in Seq(Thread) /\ n \in Nat /\ n >= 1 /\ issued \in Nat /\ DOMAIN writers = 1 .. Len(writers)
      /\ Len(writers) \in Nat /\ n <= Len(writers)
  BY WriteQueueAssumption DEF TypeOK
<1>1. ASSUME NEW j \in DOMAIN writers'
      PROVE  j \in Nat /\ j >= 1 /\ n + j \in DOMAIN writers /\ call'[writers'[j]].id = call[writers[n + j]].id
  BY <1>1 DEF Popped
<1>2. ASSUME NEW k \in Nat, Past(k) PROVE Past(k)'
  BY <1>1, <1>2 DEF Past
<1>3. ASSUME NEW k \in Nat, NEW i \in 1 .. n, k = call[writers[i]].id PROVE Past(k)'
  <2>1. i \in DOMAIN writers
    BY <1>0
  <2>2. k <= issued
    BY <1>3, <2>1, QueueIds DEF NumbersInv
  <2>3. ASSUME NEW j \in DOMAIN writers' PROVE k < call'[writers'[j]].id
    <3>1. i < n + j /\ n + j \in DOMAIN writers
      BY <1>0, <1>1
    <3>2. call[writers[i]].id < call[writers[n + j]].id
      BY <2>1, <3>1 DEF NumbersInv
    <3> QED
      BY <1>1, <1>3, <3>2
  <2> QED
    BY <2>2, <2>3 DEF Past
<1> QED
  BY <1>2, <1>3

LEMMA PastStays ==
    ASSUME WriteQueueInv, Next, NEW k \in Nat, Past(k)
    PROVE  Past(k)'
<1> USE DEF WriteQueueInv
<1>0. issued \in Nat
  BY WriteQueueAssumption DEF TypeOK
<1>1. CASE UNCHANGED <<call, writers, issued>>
  BY <1>1 DEF Past
<1>2. ASSUME NEW t \in Thread, NEW op \in Ops, NEW sync \in BOOLEAN, NEW size \in Sizes \cup {0},
             Write(t, op, sync, size)
      PROVE  Past(k)'
  <2> DEFINE L == Len(writers)
  <2>1. /\ issued' = issued + 1 /\ call'[t].id = issued + 1
        /\ \A s \in Thread \ {t} : call'[s] = call[s]
        /\ L \in Nat /\ DOMAIN writers = 1 .. L /\ DOMAIN writers' = 1 .. (L + 1) /\ writers'[L + 1] = t
        /\ \A i \in 1 .. L : writers'[i] = writers[i] /\ writers[i] # t
    BY <1>2, NewCall
  <2> HIDE DEF L
  <2>2. \A i \in 1 .. L : call'[writers'[i]] = call[writers[i]]
    BY <2>1, QueueIds
  <2>3. ASSUME NEW i \in DOMAIN writers' PROVE k < call'[writers'[i]].id
    <3>1. CASE i \in 1 .. L
      BY <2>1, <2>2, <3>1 DEF Past
    <3>2. CASE i = L + 1
      BY <1>0, <2>1, <3>2 DEF Past
    <3> QED
      BY <2>1, <3>1, <3>2
  <2> QED
    BY <1>0, <2>1, <2>3 DEF Past
<1>3. ASSUME NEW t \in Thread, CompactRange(t) PROVE Past(k)'
  <2>1. /\ pc[t] = "idle" /\ issued' = issued + 1 /\ UNCHANGED writers
        /\ \A s \in Thread \ {t} : call'[s] = call[s]
    BY <1>3 DEF CompactRange, TypeOK
  <2>2. \A i \in DOMAIN writers : call'[writers[i]] = call[writers[i]]
    BY <2>1, QueueIds
  <2> QED
    BY <1>0, <2>1, <2>2 DEF Past
<1>4. ASSUME NEW t \in Thread, Leaves(t) PROVE Past(k)'
  <2>1. 1 \in DOMAIN writers
    BY <1>4, HeadOfQueue DEF Leaves, RoomError, NoNewLogFile, RoomFound, InRoom
  <2>2. PICK result : Popped(t, 1, result, pc)
    BY <1>4, LeavesPops
  <2>3. UNCHANGED <<call, issued>>
    BY <1>4, LeavesPops
  <2> QED
    BY <2>1, <2>2, <2>3, PastAfterGroup
<1>5. ASSUME NEW t \in Thread, FinishWrite(t) PROVE Past(k)'
  <2>1. UNCHANGED <<call, issued>>
    BY <1>5 DEF FinishWrite
  <2>2. PICK n \in DOMAIN writers, at \in {pc, Woken(pc)}, result \in {"ok", "error"} : Popped(t, n, result, at)
    BY <1>5, FinishPops
  <2> QED
    BY <2>1, <2>2, PastAfterGroup
<1>6. ASSUME NEW t \in Thread, \/ AddRecord(t) \/ Sync(t) \/ InsertInto(t)
                               \/ (RoomFound(t) /\ call[t].op = "write")
      PROVE  UNCHANGED <<call, writers, issued>>
  BY <1>6 DEF AddRecord, Sync, InsertInto, RoomFound, history
<1>7. Quiet => UNCHANGED <<call, writers, issued>>
  BY DEF Quiet
<1> QED
  BY <1>1, <1>2, <1>3, <1>4, <1>5, <1>6, <1>7, Cases

\* An entry of the group belongs to a call in the queue, so it is not past.
LEMMA GroupNotPast ==
    ASSUME TypeOK, QueueInv, GroupInv, NEW e \in group
    PROVE  /\ ~Past(e.id) /\ e.id \in Nat
           /\ \E i \in DOMAIN writers : e.id = call[writers[i]].id
<1>1. PICK t \in Thread : Leading(t)
  BY DEF GroupInv
<1>2. PICK n \in DOMAIN writers : GroupOf(n)
  BY <1>1 DEF GroupInv
<1>3. PICK i \in 1 .. n : e.id = call[writers[i]].id
  BY <1>2 DEF GroupOf
<1>4. i \in DOMAIN writers
  BY <1>2 DEF TypeOK
<1>5. call[writers[i]].id \in Nat
  BY <1>4, QueueIds
<1> QED
  BY <1>3, <1>4, <1>5 DEF Past

\* Only InsertInto stores something new, and that is of the group.
LEMMA StoredGrows ==
    ASSUME WriteQueueInv, Next
    PROVE  /\ Stored \subseteq Stored' /\ Ids(tables) \subseteq Ids(tables') /\ synced \subseteq synced'
           /\ \A k \in Stored' : k \in Stored \/ (k \in Nat /\ ~Past(k))
           /\ (\A t \in Thread : ~InsertInto(t)) => Stored' = Stored
<1> USE DEF WriteQueueInv
<1>1. CASE Quiet
  BY <1>1 DEF Quiet
<1>2. ASSUME NEW t \in Thread, InsertInto(t)
      PROVE  /\ Stored \subseteq Stored' /\ Ids(tables) \subseteq Ids(tables') /\ synced \subseteq synced'
             /\ \A k \in Stored' : k \in Stored \/ (k \in Nat /\ ~Past(k))
  <2>1. PICK e \in todo : mem' = mem \cup {e}
    BY <1>2 DEF InsertInto
  <2>2. UNCHANGED <<imm, tables, synced>>
    BY <1>2 DEF InsertInto
  <2>3. e \in group
    BY <2>1 DEF GroupInv
  <2>4. Ids(mem') = Ids(mem) \cup {e.id}
    BY <2>1 DEF Ids
  <2>5. Stored' = Stored \cup {e.id}
    BY <2>2, <2>4 DEF Stored
  <2> QED
    BY <2>2, <2>3, <2>5, GroupNotPast
<1>3. CASE UNCHANGED <<mem, imm, tables>> /\ synced \subseteq synced'
  BY <1>3 DEF Stored
<1>4. ASSUME NEW t \in Thread, NEW op \in Ops, NEW sync \in BOOLEAN, NEW size \in Sizes \cup {0},
             Write(t, op, sync, size)
      PROVE  UNCHANGED <<mem, imm, tables, synced>>
  BY <1>4 DEF Write, store
<1>5. ASSUME NEW t \in Thread,
             CompactRange(t) \/ Leaves(t) \/ (RoomFound(t) /\ call[t].op = "write") \/ AddRecord(t) \/ FinishWrite(t)
      PROVE  UNCHANGED <<mem, imm, tables, synced>>
  BY <1>5 DEF CompactRange, Leaves, RoomError, NoNewLogFile, RoomFound, AddRecord, FinishWrite, store
<1>6. ASSUME NEW t \in Thread, Sync(t) PROVE UNCHANGED <<mem, imm, tables>> /\ synced \subseteq synced'
  BY <1>6 DEF Sync
<1> QED
  BY <1>1, <1>2, <1>3, <1>4, <1>5, <1>6, Cases

\* What a caller was told stays true.
LEMMA KeptStays ==
    ASSUME WriteQueueInv, Next, NEW k \in Nat, NEW ok \in BOOLEAN, NEW sync \in BOOLEAN, Kept(k, ok, sync)
    PROVE  Kept(k, ok, sync)'
<1>1. Past(k)'
  BY PastStays DEF Kept
<1>2. k \in Stored' <=> k \in Stored
  BY StoredGrows DEF Kept
<1>3. k \in synced \cup Ids(tables) => k \in synced' \cup Ids(tables')
  BY StoredGrows
<1> QED
  BY <1>1, <1>2, <1>3 DEF Kept

-----------------------------------------------------------------------------
(***************************************************************************)
(* The group that is being written.                                        *)
(***************************************************************************)
\* The leader's own batch is in its group; nobody else leads.
LEMMA LeaderFacts ==
    ASSUME TypeOK, QueueInv, GroupInv, NEW t \in Thread, Leading(t)
    PROVE  /\ call[t].op = "write" /\ call[t].id \in Ids(group) /\ group # {}
           /\ \A s \in Thread : Leading(s) => s = t
<1>1. PICK n \in DOMAIN writers : GroupOf(n)
  BY LeaderGroup
<1>2. writers[1] = t /\ call[t].op = "write"
  BY LeaderGroup DEF Progress
<1>3. 1 \in 1 .. n
  BY DEF TypeOK
<1>4. call[t].id \in Ids(group)
  BY <1>1, <1>2, <1>3 DEF GroupOf
<1>5. group # {}
  BY <1>4 DEF Ids
<1>6. ASSUME NEW s \in Thread, Leading(s) PROVE s = t
  BY <1>2, <1>6, LeaderGroup
<1> QED
  BY <1>2, <1>4, <1>5, <1>6

\* A step of someone else.
LEMMA GroupUndisturbed ==
    ASSUME TypeOK, QueueInv, GroupInv, UNCHANGED <<groups, lastSequence, log, synced>>, UNCHANGED mem \/ group = {},
           \A s \in Thread : /\ Leading(s)' <=> Leading(s)
                             /\ Leading(s) => pc'[s] = pc[s] /\ call'[s] = call[s] /\ status'[s] = status[s],
           \A i \in DOMAIN writers : /\ i \in DOMAIN writers' /\ writers'[i] = writers[i]
                                     /\ call'[writers[i]] = call[writers[i]]
    PROVE  GroupInv'
<1>1. ASSUME NEW n \in DOMAIN writers, GroupOf(n) PROVE GroupOf(n)' /\ n \in DOMAIN writers'
  <2>1. \A i \in 1 .. n : i \in DOMAIN writers
    BY DEF TypeOK
  <2>2. \A i \in 1 .. n : writers'[i] = writers[i] /\ call'[writers'[i]] = call[writers[i]]
    BY <2>1
  <2>3. 1 \in 1 .. n /\ n \in 1 .. n
    BY DEF TypeOK
  <2> QED
    BY <1>1, <2>2, <2>3 DEF GroupOf, groups
<1>2. ASSUME NEW s \in Thread, Leading(s)' PROVE Progress(s)' /\ \E n \in DOMAIN writers' : GroupOf(n)'
  <2>1. Leading(s) /\ pc'[s] = pc[s] /\ call'[s] = call[s] /\ status'[s] = status[s]
    BY <1>2
  <2>2. InLog' = InLog
    BY DEF InLog, Logged
  <2>3. Progress(s)'
    BY <2>1, <2>2 DEF Progress, GroupInv, groups
  <2> QED
    BY <1>1, <2>1, <2>3, LeaderGroup
<1>3. (\A s \in Thread : ~Leading(s)') => group' = {} /\ last_writer' = Nil
  BY DEF GroupInv, groups
<1>4. group' \ todo' \subseteq mem' /\ todo' \subseteq group'
  BY DEF GroupInv, groups
<1> QED
  BY <1>2, <1>3, <1>4 DEF GroupInv, groups

\* A step of the leader with its group.
LEMMA LeaderMoves ==
    ASSUME TypeOK, QueueInv, GroupInv, NEW t \in Thread, Leading(t), Leading(t)', Progress(t)',
           UNCHANGED <<call, writers, last_writer, group, lastSequence>>,
           \A s \in Thread \ {t} : pc'[s] = pc[s],
           todo' \subseteq group, group \ todo' \subseteq mem'
    PROVE  GroupInv'
<1>1. PICK n \in DOMAIN writers : GroupOf(n)
  BY LeaderGroup
<1>2. GroupOf(n)' /\ n \in DOMAIN writers'
  BY <1>1 DEF GroupOf
<1>3. \A s \in Thread : Leading(s)' => s = t
  BY LeaderFacts DEF Leading
<1> QED
  BY <1>2, <1>3 DEF GroupInv

\* The group is over.
LEMMA NobodyLeads ==
    ASSUME group' = {}, todo' = {}, last_writer' = Nil, lastSequence' \in Nat, \A s \in Thread : ~Leading(s)'
    PROVE  GroupInv'
BY FS_EmptySet DEF GroupInv

LEMMA PoppedLeads ==
    ASSUME TypeOK, QueueInv, GroupInv, NEW t \in Thread, writers # <<>>, writers[1] = t,
           NEW n, NEW result, NEW at \in {pc, Woken(pc)}, Popped(t, n, result, at)
    PROVE  \A s \in Thread : ~Leading(s)'
<1>1. pc'[t] \in {"idle", "flush"}
  BY DEF Popped, AfterWrite
<1>2. ASSUME NEW s \in Thread \ {t} PROVE ~Leading(s)'
  <2>1. ~Leading(s)
    BY LeaderGroup
  <2>2. at[s] \notin {"append", "sync", "insert", "finish"}
    BY <2>1, WokenFacts DEF Leading, TypeOK
  <2> QED
    BY <2>2 DEF Popped, Leading
<1> QED
  BY <1>1, <1>2 DEF Leading

LEMMA GroupStep ==
    ASSUME WriteQueueInv, Next PROVE GroupInv'
<1> USE DEF WriteQueueInv
<1>0. pc \in [Thread -> PC] /\ TypeOK /\ lastSequence \in Nat /\ status \in [Thread -> Status]
  <2>1. TypeOK
    OBVIOUS
  <2>2. pc \in [Thread -> PC] /\ status \in [Thread -> Status]
    BY <2>1 DEF TypeOK
  <2> QED
    BY <2>1, <2>2, Counters
<1>1. CASE Quiet
  <2>1. \A s \in Thread : /\ Leading(s)' <=> Leading(s)
                          /\ Leading(s) => pc'[s] = pc[s] /\ call'[s] = call[s] /\ status'[s] = status[s]
    BY <1>1 DEF Quiet
  <2>2. \A i \in DOMAIN writers : /\ i \in DOMAIN writers' /\ writers'[i] = writers[i]
                                  /\ call'[writers[i]] = call[writers[i]]
    BY <1>1 DEF Quiet
  <2>3. UNCHANGED <<groups, lastSequence, log, synced>> /\ (UNCHANGED mem \/ group = {})
    BY <1>1 DEF Quiet
  <2> QED
    BY <2>1, <2>2, <2>3, GroupUndisturbed
<1>2. ASSUME NEW t \in Thread, NEW op \in Ops, NEW sync \in BOOLEAN, NEW size \in Sizes \cup {0},
             Write(t, op, sync, size)
      PROVE  GroupInv'
  <2>1. /\ pc[t] = "idle" /\ pc'[t] \in {"room", "asleep"} /\ UNCHANGED <<groups, lastSequence, log, synced, mem>>
        /\ \A s \in Thread \ {t} : call'[s] = call[s] /\ pc'[s] = pc[s] /\ status'[s] = status[s]
        /\ DOMAIN writers \subseteq DOMAIN writers'
        /\ \A i \in DOMAIN writers : writers'[i] = writers[i] /\ writers[i] # t
    BY <1>2, NewCall DEF store
  <2>2. \A s \in Thread : /\ Leading(s)' <=> Leading(s)
                          /\ Leading(s) => pc'[s] = pc[s] /\ call'[s] = call[s] /\ status'[s] = status[s]
    BY <2>1 DEF Leading
  <2>3. \A i \in DOMAIN writers : /\ i \in DOMAIN writers' /\ writers'[i] = writers[i]
                                  /\ call'[writers[i]] = call[writers[i]]
    BY <2>1, QueueIds
  <2> QED
    BY <2>1, <2>2, <2>3, GroupUndisturbed
<1>3. ASSUME NEW t \in Thread, CompactRange(t) PROVE GroupInv'
  <2>1. /\ pc[t] = "idle" /\ pc'[t] = "range"
        /\ UNCHANGED <<groups, lastSequence, log, synced, mem, status, writers>>
        /\ \A s \in Thread \ {t} : call'[s] = call[s] /\ pc'[s] = pc[s]
    BY <1>3 DEF CompactRange, TypeOK, store
  <2>2. \A s \in Thread : /\ Leading(s)' <=> Leading(s)
                          /\ Leading(s) => pc'[s] = pc[s] /\ call'[s] = call[s] /\ status'[s] = status[s]
    BY <2>1 DEF Leading
  <2>3. \A i \in DOMAIN writers : /\ i \in DOMAIN writers' /\ writers'[i] = writers[i]
                                  /\ call'[writers[i]] = call[writers[i]]
    BY <2>1, QueueIds
  <2> QED
    BY <2>1, <2>2, <2>3, GroupUndisturbed
<1>4. ASSUME NEW t \in Thread, Leaves(t) PROVE GroupInv'
  <2>1. pc[t] = "room"
    BY <1>4 DEF Leaves, RoomError, NoNewLogFile, RoomFound, InRoom
  <2>2. writers # <<>> /\ writers[1] = t /\ ~Leading(t)
    BY <2>1, HeadOfQueue DEF Leading
  <2>3. group = {} /\ todo = {} /\ last_writer = Nil
    BY <2>2, NoLeader
  <2>4. PICK result : Popped(t, 1, result, pc)
    BY <1>4, LeavesPops
  <2>5. UNCHANGED <<groups, lastSequence>>
    BY <1>4, LeavesPops DEF store
  <2>6. \A s \in Thread : ~Leading(s)'
    BY <2>2, <2>4, PoppedLeads
  <2> QED
    BY <1>0, <2>3, <2>5, <2>6, NobodyLeads DEF groups
<1>5. ASSUME NEW t \in Thread, RoomFound(t), call[t].op = "write" PROVE GroupInv'
  <2>1. pc[t] = "room"
    BY <1>5 DEF RoomFound, InRoom
  <2>2. writers # <<>> /\ writers[1] = t /\ writers \in Seq(Thread)
    BY <2>1, HeadOfQueue
  <2>3. /\ last_writer' = writers[GroupLength] /\ group' = BatchGroup /\ todo' = BatchGroup
        /\ pc' = [pc EXCEPT ![t] = "append"]
        /\ UNCHANGED <<call, writers, status, lastSequence, log, synced, mem>>
    BY <1>5 DEF RoomFound, store
  <2>4. GroupLength \in 1 .. Len(writers) /\ GroupFits(GroupLength) /\ GroupLength \in DOMAIN writers
    BY <2>2, GroupLengthType
  <2>5. PICK n \in DOMAIN writers : n = GroupLength
    BY <2>4
  <2>6. /\ BatchGroup \subseteq Entry /\ IsFiniteSet(BatchGroup) /\ Cardinality(BatchGroup) <= n
        /\ \A e \in BatchGroup : lastSequence < e.seq /\ e.seq <= lastSequence + Cardinality(BatchGroup)
        /\ \A e \in BatchGroup : \E i \in 1 .. n : e.id = call[writers[i]].id
        /\ \A i \in 1 .. n : call[writers[i]].op = "write" => call[writers[i]].id \in Ids(BatchGroup)
    BY <2>2, <2>5, BatchGroupFacts
  <2>7. \A i \in 1 .. n : call[writers[i]].sync => call[writers[1]].sync
    <3> SUFFICES ASSUME NEW i \in 1 .. n, call[writers[i]].sync PROVE call[writers[1]].sync
      OBVIOUS
    <3>1. i = 1 \/ i \in 2 .. n
      BY <2>2
    <3> QED
      BY <2>4, <2>5, <3>1 DEF GroupFits, GroupSyncs
  <2>8. GroupOf(n)'
    BY <2>3, <2>5, <2>6, <2>7 DEF GroupOf
  <2>9. pc'[t] = "append" /\ \A s \in Thread \ {t} : ~Leading(s)'
    <3>1. \A s \in Thread \ {t} : ~Leading(s) /\ pc'[s] = pc[s]
      BY <1>0, <2>2, <2>3, LeaderGroup
    <3> QED
      BY <1>0, <2>3, <3>1 DEF Leading
  <2>10. Progress(t)'
    BY <1>5, <2>3, <2>9 DEF Progress
  <2> QED
    BY <2>3, <2>6, <2>8, <2>9, <2>10 DEF GroupInv, Leading
<1>6. ASSUME NEW t \in Thread, AddRecord(t) PROVE GroupInv'
  <2>1. /\ pc[t] = "append" /\ Leading(t) /\ status[t] = "ok"
        /\ UNCHANGED <<call, writers, groups, lastSequence, mem>>
        /\ \A s \in Thread \ {t} : pc'[s] = pc[s]
    BY <1>0, <1>6, HeadOfQueue DEF AddRecord, Leading
  <2>2. todo = group /\ group # {} /\ call[t].op = "write"
    BY <2>1, LeaderFacts, LeaderGroup DEF Progress
  <2>3. CASE log' = Append(log, group) /\ pc' = [pc EXCEPT ![t] = IF call[t].sync THEN "sync" ELSE "insert"]
    <3>1. Ids(group) \subseteq InLog'
      <4>1. log \in Seq(SUBSET Entry)
        BY DEF TypeOK
      <4>2. Len(log) + 1 \in DOMAIN log' /\ log'[Len(log) + 1] = group
        BY <2>3, <4>1
      <4>3. group \subseteq Logged'
        BY <4>2 DEF Logged
      <4> QED
        BY <4>3 DEF InLog, Ids
    <3>2. pc'[t] = IF call[t].sync THEN "sync" ELSE "insert"
      BY <1>0, <2>3
    <3>3. Progress(t)' /\ Leading(t)'
      BY <2>1, <2>2, <3>1, <3>2 DEF Progress, Leading, groups
    <3> QED
      BY <2>1, <2>2, <3>3, LeaderMoves DEF groups
  <2>4. CASE status' = [status EXCEPT ![t] = "error"] /\ pc' = [pc EXCEPT ![t] = "finish"]
    <3>1. pc'[t] = "finish" /\ status'[t] = "error"
      BY <1>0, <2>4
    <3>2. Progress(t)' /\ Leading(t)'
      BY <2>1, <2>2, <3>1 DEF Progress, Leading, groups
    <3> QED
      BY <2>1, <2>2, <3>2, LeaderMoves DEF groups
  <2> QED
    BY <1>6, <2>3, <2>4 DEF AddRecord
<1>7. ASSUME NEW t \in Thread, Sync(t) PROVE GroupInv'
  <2>1. /\ pc[t] = "sync" /\ Leading(t) /\ status[t] = "ok"
        /\ UNCHANGED <<call, writers, groups, lastSequence, mem>>
        /\ \A s \in Thread \ {t} : pc'[s] = pc[s]
    BY <1>0, <1>7, HeadOfQueue DEF Sync, Leading
  <2>2. todo = group /\ group # {} /\ call[t].op = "write" /\ Ids(group) \subseteq InLog
    BY <2>1, LeaderFacts, LeaderGroup DEF Progress
  <2>3. CASE synced' = synced \cup InLogFile /\ pc' = [pc EXCEPT ![t] = "insert"]
    <3>0. ASSUME NEW k \in Ids(group) PROVE k \notin Stored
      <4>1. PICK n \in DOMAIN writers : GroupOf(n)
        BY <2>1, LeaderGroup
      <4>2. PICK i \in DOMAIN writers : k = call[writers[i]].id
        <5>1. PICK e \in group : k = e.id
          BY <3>0 DEF Ids
        <5>2. PICK i \in 1 .. n : e.id = call[writers[i]].id
          BY <4>1 DEF GroupOf
        <5>3. i \in DOMAIN writers
          BY <1>0, <4>1 DEF TypeOK
        <5> QED
          BY <5>1, <5>2, <5>3
      <4>3. k \in Nat
        <5>1. PICK e \in group : k = e.id
          BY <3>0 DEF Ids
        <5>2. e \in Entry
          BY DEF TypeOK
        <5> QED
          BY <5>1, <5>2, WriteQueueAssumption DEF Entry
      <4>4. ~Past(k)
        BY <4>2, <4>3 DEF Past
      <4>5. Ids(group \ todo) = {}
        BY <2>2 DEF Ids
      <4> QED
        BY <4>4, <4>5 DEF StoredInv
    <3>1. Ids(group) \subseteq synced' /\ pc'[t] = "insert"
      <4>1. Ids(group) \subseteq InLogFile
        BY <2>2, <3>0 DEF InLogFile, Stored
      <4> QED
        BY <1>0, <2>3, <4>1
    <3>2. Progress(t)' /\ Leading(t)'
      BY <2>1, <2>2, <3>1 DEF Progress, Leading, groups
    <3> QED
      BY <2>1, <2>2, <3>2, LeaderMoves DEF groups
  <2>4. CASE status' = [status EXCEPT ![t] = "sync_error"] /\ pc' = [pc EXCEPT ![t] = "finish"]
    <3>1. pc'[t] = "finish" /\ status'[t] = "sync_error"
      BY <1>0, <2>4
    <3>2. Progress(t)' /\ Leading(t)'
      BY <2>1, <2>2, <3>1 DEF Progress, Leading, groups
    <3> QED
      BY <2>1, <2>2, <3>2, LeaderMoves DEF groups
  <2> QED
    BY <1>7, <2>3, <2>4 DEF Sync
<1>8. ASSUME NEW t \in Thread, InsertInto(t) PROVE GroupInv'
  <2>1. /\ pc[t] = "insert" /\ Leading(t) /\ status[t] = "ok"
        /\ UNCHANGED <<call, status, writers, last_writer, group, lastSequence, synced>>
        /\ \A s \in Thread \ {t} : pc'[s] = pc[s]
        /\ pc'[t] = IF todo' = {} THEN "finish" ELSE "insert"
    BY <1>0, <1>8, HeadOfQueue DEF InsertInto, Leading
  <2>2. call[t].op = "write" /\ (call[t].sync => Ids(group) \subseteq synced)
    BY <2>1, LeaderGroup DEF Progress
  <2>3. PICK e \in todo : mem' = mem \cup {e} /\ todo' = todo \ {e}
    BY <1>8 DEF InsertInto
  <2>4. todo' \subseteq group /\ group \ todo' \subseteq mem'
    BY <2>3 DEF GroupInv
  <2>5. Progress(t)' /\ Leading(t)'
    BY <2>1, <2>2 DEF Progress, Leading
  <2> QED
    BY <2>1, <2>4, <2>5, LeaderMoves
<1>9. ASSUME NEW t \in Thread, FinishWrite(t) PROVE GroupInv'
  <2>1. pc[t] = "finish" /\ group' = {} /\ todo' = {} /\ last_writer' = Nil
    BY <1>9 DEF FinishWrite
  <2>2. writers # <<>> /\ writers[1] = t
    BY <2>1, HeadOfQueue
  <2>3. PICK n \in DOMAIN writers, at \in {pc, Woken(pc)}, result \in {"ok", "error"} :
           GroupOf(n) /\ Popped(t, n, result, at)
    BY <1>9, FinishPops
  <2>4. lastSequence' \in Nat
    BY <1>9, <2>3, GroupCount
  <2>5. \A s \in Thread : ~Leading(s)'
    BY <2>2, <2>3, PoppedLeads
  <2> QED
    BY <2>1, <2>4, <2>5, NobodyLeads
<1> QED
  BY <1>1, <1>2, <1>3, <1>4, <1>5, <1>6, <1>7, <1>8, <1>9, Cases

-----------------------------------------------------------------------------
(***************************************************************************)
(* The log.                                                                *)
(***************************************************************************)
\* Entries have numbers.
LEMMA EntryNumbers ==
    ASSUME NEW e \in Entry PROVE e.id \in Nat /\ e.seq \in Nat
BY WriteQueueAssumption DEF Entry

LEMMA LoggedType ==
    ASSUME TypeOK PROVE Logged \subseteq Entry
BY DEF TypeOK, Logged

\* The log and the group do not change.
LEMMA LogUndisturbed ==
    ASSUME WriteQueueInv, Next, UNCHANGED <<log, group, lastSequence>>, Stored' = Stored
    PROVE  LogInv'
<1> USE DEF WriteQueueInv
<1>1. Logged' = Logged
  BY DEF Logged
<1>2. ASSUME NEW e \in Logged' \ group' PROVE e.seq <= lastSequence' /\ Past(e.id)'
  <2>1. e \in Logged \ group /\ e.id \in Nat
    BY <1>1, LoggedType, EntryNumbers
  <2>2. e.seq <= lastSequence /\ Past(e.id)
    BY <2>1 DEF LogInv
  <2> QED
    BY <2>1, <2>2, PastStays
<1>3. QueueOrder'
  BY <1>1 DEF LogInv, QueueOrder
<1> QED
  BY <1>2, <1>3 DEF LogInv

LEMMA LogStep ==
    ASSUME WriteQueueInv, Next PROVE LogInv'
<1> USE DEF WriteQueueInv
<1>0. /\ TypeOK /\ lastSequence \in Nat /\ log \in Seq(SUBSET Entry) /\ Logged \subseteq Entry
      /\ \A i \in DOMAIN log : log[i] \subseteq Logged
  <2>1. TypeOK
    OBVIOUS
  <2>2. log \in Seq(SUBSET Entry)
    BY <2>1 DEF TypeOK
  <2>3. \A i \in DOMAIN log : log[i] \subseteq Logged
    BY DEF Logged
  <2> QED
    BY <2>1, <2>2, <2>3, Counters, LoggedType
<1>1. CASE Quiet
  BY <1>1, LogUndisturbed DEF Quiet, groups
<1>2. ASSUME NEW t \in Thread, NEW op \in Ops, NEW sync \in BOOLEAN, NEW size \in Sizes \cup {0},
             Write(t, op, sync, size)
      PROVE  LogInv'
  <2>1. UNCHANGED <<log, group, lastSequence, mem, imm, tables>>
    BY <1>2 DEF Write, groups, store
  <2> QED
    BY <2>1, LogUndisturbed DEF Stored
<1>3. ASSUME NEW t \in Thread, CompactRange(t) \/ Leaves(t) PROVE LogInv'
  <2>1. UNCHANGED <<log, group, lastSequence, mem, imm, tables>>
    BY <1>3 DEF CompactRange, Leaves, RoomError, NoNewLogFile, RoomFound, groups, store
  <2> QED
    BY <2>1, LogUndisturbed DEF Stored
<1>4. ASSUME NEW t \in Thread, Sync(t) PROVE LogInv'
  <2>1. UNCHANGED <<log, group, lastSequence, mem, imm, tables>>
    BY <1>4 DEF Sync, groups
  <2> QED
    BY <2>1, LogUndisturbed DEF Stored
<1>5. ASSUME NEW t \in Thread, RoomFound(t), call[t].op = "write" PROVE LogInv'
  <2>1. pc[t] = "room"
    BY <1>5 DEF RoomFound, InRoom
  <2>2. writers # <<>> /\ writers[1] = t /\ writers \in Seq(Thread) /\ ~Leading(t)
    BY <2>1, HeadOfQueue DEF Leading
  <2>3. group' = BatchGroup /\ UNCHANGED <<call, writers, issued, lastSequence, log, mem, imm, tables>>
    BY <1>5 DEF RoomFound, store
  <2>4. group = {}
    BY <2>2, NoLeader
  <2>5. /\ BatchGroup \subseteq Entry
        /\ \A e \in BatchGroup : lastSequence < e.seq
        /\ \A e, f \in BatchGroup : e.id < f.id <=> e.seq < f.seq
        /\ \A e \in BatchGroup : \E i \in 1 .. GroupLength : e.id = call[writers[i]].id
    BY <2>2, BatchGroupFacts
  <2>6. Logged' = Logged /\ Stored' = Stored
    BY <2>3 DEF Logged, Stored
  <2>7. ASSUME NEW e \in Logged PROVE e.seq <= lastSequence /\ Past(e.id) /\ Past(e.id)' /\ e.id \in Nat /\ e.seq \in Nat
    <3>1. e.id \in Nat /\ e.seq \in Nat
      BY <1>0, EntryNumbers
    <3>2. e.seq <= lastSequence /\ Past(e.id)
      BY <2>4 DEF LogInv
    <3> QED
      BY <3>1, <3>2, PastStays
  <2>8. ASSUME NEW e \in Logged, NEW f \in BatchGroup PROVE e.id < f.id /\ e.seq < f.seq
    <3>1. GroupLength \in 1 .. Len(writers)
      BY <2>2, GroupLengthType
    <3>2. PICK i \in 1 .. GroupLength : f.id = call[writers[i]].id
      BY <2>5
    <3>3. i \in DOMAIN writers
      BY <2>2, <3>1
    <3>4. f.seq \in Nat
      BY <2>5, EntryNumbers
    <3> QED
      BY <1>0, <2>5, <2>7, <3>2, <3>3, <3>4 DEF Past
  <2>9. QueueOrder'
    <3> SUFFICES ASSUME NEW e \in Logged \cup BatchGroup, NEW f \in Logged \cup BatchGroup
                 PROVE  e.id < f.id <=> e.seq < f.seq
      BY <2>3, <2>6 DEF QueueOrder
    <3>0. e.id \in Nat /\ f.id \in Nat /\ e.seq \in Nat /\ f.seq \in Nat
      BY <1>0, <2>5, EntryNumbers
    <3>1. CASE e \in Logged /\ f \in Logged
      BY <3>1 DEF LogInv, QueueOrder
    <3>2. CASE e \in BatchGroup /\ f \in BatchGroup
      BY <2>5, <3>2
    <3>3. CASE e \in Logged /\ f \in BatchGroup
      BY <2>8, <3>3
    <3>4. CASE e \in BatchGroup /\ f \in Logged
      <4>1. f.id < e.id /\ f.seq < e.seq
        BY <2>8, <3>4
      <4> QED
        BY <3>0, <4>1
    <3> QED
      BY <3>1, <3>2, <3>3, <3>4
  <2>10. ASSUME NEW i \in DOMAIN log PROVE log[i] \cap BatchGroup = {} /\ log[i] \cap group = {}
    <3>1. ASSUME NEW e \in log[i], e \in BatchGroup PROVE FALSE
      <4>1. e \in Logged
        BY <1>0
      <4> QED
        BY <1>0, <2>7, <2>8, <3>1, <4>1
    <3> QED
      BY <2>4, <3>1
  <2>11. \A i \in DOMAIN log' :
            /\ log'[i] # {} /\ (log'[i] = group' \/ log'[i] \cap group' = {})
            /\ log'[i] \cap group' = {} => Ids(log'[i]) \subseteq Stored' \/ Ids(log'[i]) \cap Stored' = {}
    BY <2>3, <2>6, <2>10 DEF LogInv
  <2>12. \A e \in Logged' \ group' : e.seq <= lastSequence' /\ Past(e.id)'
    BY <2>3, <2>6, <2>7
  <2> QED
    BY <2>9, <2>11, <2>12 DEF LogInv
<1>6. ASSUME NEW t \in Thread, AddRecord(t) PROVE LogInv'
  <2>1. UNCHANGED <<call, writers, issued, group, lastSequence, mem, imm, tables>> /\ pc[t] = "append" /\ Leading(t)
    BY <1>6 DEF AddRecord, groups, Leading
  <2>2. Stored' = Stored
    BY <2>1 DEF Stored
  <2>3. CASE UNCHANGED log
    BY <2>1, <2>2, <2>3, LogUndisturbed
  <2>4. CASE log' = Append(log, group)
    <3>1. /\ DOMAIN log = 1 .. Len(log) /\ DOMAIN log' = 1 .. (Len(log) + 1) /\ Len(log) \in Nat
          /\ log'[Len(log) + 1] = group /\ \A i \in DOMAIN log : log'[i] = log[i]
      BY <1>0, <2>4
    <3>2. Logged' = Logged \cup group
      <4>1. \A e \in Logged' : e \in Logged \cup group
        BY <3>1 DEF Logged
      <4>2. \A e \in Logged : e \in Logged'
        BY <3>1 DEF Logged
      <4>3. \A e \in group : e \in Logged'
        BY <3>1 DEF Logged
      <4> QED
        BY <4>1, <4>2, <4>3
    <3>3. group # {}
      BY <2>1, LeaderFacts
    <3>4. ASSUME NEW e \in Logged' \ group' PROVE e.seq <= lastSequence' /\ Past(e.id)'
      <4>1. e \in Logged \ group /\ e.id \in Nat
        BY <1>0, <2>1, <3>2, EntryNumbers
      <4> QED
        BY <2>1, <4>1, PastStays DEF LogInv
    <3>5. QueueOrder'
      BY <2>1, <3>2 DEF LogInv, QueueOrder
    <3>6. ASSUME NEW i \in DOMAIN log'
          PROVE  /\ log'[i] # {} /\ (log'[i] = group' \/ log'[i] \cap group' = {})
                 /\ log'[i] \cap group' = {} => Ids(log'[i]) \subseteq Stored' \/ Ids(log'[i]) \cap Stored' = {}
      <4>1. CASE i \in DOMAIN log
        BY <2>1, <2>2, <3>1, <4>1 DEF LogInv
      <4>2. CASE i = Len(log) + 1
        BY <2>1, <3>1, <3>3, <4>2
      <4> QED
        BY <3>1, <4>1, <4>2
    <3> QED
      BY <3>4, <3>5, <3>6 DEF LogInv
  <2> QED
    BY <1>6, <2>3, <2>4 DEF AddRecord
<1>7. ASSUME NEW t \in Thread, InsertInto(t) PROVE LogInv'
  <2>1. UNCHANGED <<call, writers, issued, group, lastSequence, log, imm, tables>>
    BY <1>7 DEF InsertInto, history
  <2>2. PICK e \in todo : mem' = mem \cup {e}
    BY <1>7 DEF InsertInto
  <2>3. e \in group
    BY <2>2 DEF GroupInv
  <2>4. Stored' = Stored \cup {e.id}
    <3>1. Ids(mem') = Ids(mem) \cup {e.id}
      BY <2>2 DEF Ids
    <3> QED
      BY <2>1, <3>1 DEF Stored
  <2>5. Logged' = Logged
    BY <2>1 DEF Logged
  <2>6. ASSUME NEW f \in Logged' \ group' PROVE f.seq <= lastSequence' /\ Past(f.id)'
    <3>1. f \in Logged \ group /\ f.id \in Nat
      BY <1>0, <2>1, <2>5, EntryNumbers
    <3> QED
      BY <2>1, <3>1, PastStays DEF LogInv
  <2>7. QueueOrder'
    BY <2>1, <2>5 DEF LogInv, QueueOrder
  <2>8. ASSUME NEW i \in DOMAIN log, log[i] \cap group = {} PROVE e.id \notin Ids(log[i])
    <3>1. ASSUME NEW f \in log[i] PROVE f.id # e.id
      <4>1. f \in Logged \ group
        BY <1>0, <2>8
      <4>2. Past(f.id)
        BY <4>1 DEF LogInv
      <4> QED
        BY <2>3, <4>2, GroupNotPast
    <3> QED
      BY <3>1 DEF Ids
  <2>9. ASSUME NEW i \in DOMAIN log, log[i] \cap group = {}
        PROVE  Ids(log[i]) \subseteq Stored' \/ Ids(log[i]) \cap Stored' = {}
    <3>1. Ids(log[i]) \subseteq Stored \/ Ids(log[i]) \cap Stored = {}
      BY <2>9 DEF LogInv
    <3> QED
      BY <2>4, <2>8, <2>9, <3>1
  <2> QED
    BY <2>1, <2>6, <2>7, <2>9 DEF LogInv
<1>8. ASSUME NEW t \in Thread, FinishWrite(t) PROVE LogInv'
  <2>1. group' = {} /\ UNCHANGED <<call, issued, log, mem, imm, tables>> /\ pc[t] = "finish" /\ Leading(t)
    BY <1>8 DEF FinishWrite, Leading
  <2>2. PICK n \in DOMAIN writers, at \in {pc, Woken(pc)}, result \in {"ok", "error"} :
           GroupOf(n) /\ Popped(t, n, result, at)
    BY <1>8, FinishPops
  <2>3. /\ Cardinality(group) \in Nat /\ lastSequence' = lastSequence + Cardinality(group)
        /\ lastSequence <= lastSequence' /\ lastSequence' \in Nat
    BY <1>8, <2>2, GroupCount
  <2>4. Logged' = Logged /\ Stored' = Stored
    BY <2>1 DEF Logged, Stored
  <2>5. ASSUME NEW e \in Logged' \ group' PROVE e.seq <= lastSequence' /\ Past(e.id)'
    <3>0. e \in Logged /\ e.id \in Nat /\ e.seq \in Nat
      BY <1>0, <2>4, EntryNumbers
    <3>1. CASE e \in group
      <4>1. e.seq <= lastSequence'
        BY <2>3, <3>1 DEF GroupInv
      <4>2. \E i \in 1 .. n : e.id = call[writers[i]].id
        BY <2>2, <3>1 DEF GroupOf
      <4>3. Past(e.id)'
        BY <2>1, <2>2, <3>0, <4>2, PastAfterGroup
      <4> QED
        BY <4>1, <4>3
    <3>2. CASE e \notin group
      <4>1. e.seq <= lastSequence /\ Past(e.id)
        BY <3>0, <3>2 DEF LogInv
      <4> QED
        BY <1>0, <2>3, <3>0, <4>1, PastStays
    <3> QED
      BY <3>1, <3>2
  <2>6. QueueOrder'
    BY <2>1, <2>4 DEF LogInv, QueueOrder
  <2>7. Ids(group) \subseteq Stored \/ Ids(group) \cap Stored = {}
    <3>0. todo = IF status[t] = "ok" THEN {} ELSE group
      BY <2>1, LeaderGroup DEF Progress
    <3>1. CASE status[t] = "ok"
      <4>1. group \subseteq mem
        BY <3>0, <3>1 DEF GroupInv
      <4> QED
        BY <4>1 DEF Stored, Ids
    <3>2. CASE status[t] # "ok"
      <4>1. ASSUME NEW e \in group PROVE e.id \notin Stored
        <5>1. ~Past(e.id) /\ Ids(group \ todo) = {}
          BY <3>0, <3>2, GroupNotPast DEF Ids
        <5> QED
          BY <5>1 DEF StoredInv
      <4> QED
        BY <4>1 DEF Ids
    <3> QED
      BY <3>1, <3>2
  <2>8. ASSUME NEW i \in DOMAIN log
        PROVE  log[i] # {} /\ (Ids(log[i]) \subseteq Stored \/ Ids(log[i]) \cap Stored = {})
    BY <2>7 DEF LogInv
  <2> QED
    BY <2>1, <2>4, <2>5, <2>6, <2>8 DEF LogInv
<1> QED
  BY <1>1, <1>2, <1>3, <1>4, <1>5, <1>6, <1>7, <1>8, Cases

-----------------------------------------------------------------------------
(***************************************************************************)
(* What is stored, and what the callers are told.                          *)
(***************************************************************************)
LEMMA StoredType ==
    ASSUME TypeOK PROVE Stored \subseteq Nat
<1>1. \A S \in SUBSET Entry : Ids(S) \subseteq Nat
  BY EntryNumbers DEF Ids
<1>2. UNION imm \in SUBSET Entry
  BY DEF TypeOK
<1> QED
  BY <1>1, <1>2 DEF Stored, TypeOK

LEMMA StoredStep ==
    ASSUME WriteQueueInv, Next PROVE StoredInv'
<1> USE DEF WriteQueueInv
<1>0. Stored \subseteq Nat
  BY StoredType
<1>1. CASE Stored' = Stored /\ (UNCHANGED <<group, todo>> \/ group = {})
  <2> SUFFICES ASSUME NEW k \in Stored PROVE Past(k)' \/ k \in Ids(group' \ todo')
    BY <1>1 DEF StoredInv
  <2>1. CASE Past(k)
    BY <1>0, <2>1, PastStays
  <2>2. CASE k \in Ids(group \ todo)
    BY <1>1, <2>2 DEF Ids
  <2> QED
    BY <2>1, <2>2 DEF StoredInv
<1>2. Quiet => Stored' = Stored /\ UNCHANGED <<group, todo>>
  BY DEF Quiet, groups
<1>3. ASSUME NEW t \in Thread, NEW op \in Ops, NEW sync \in BOOLEAN, NEW size \in Sizes \cup {0},
             Write(t, op, sync, size)
      PROVE  Stored' = Stored /\ UNCHANGED <<group, todo>>
  BY <1>3 DEF Write, groups, store, Stored
<1>4. ASSUME NEW t \in Thread, CompactRange(t) \/ Leaves(t) \/ AddRecord(t) \/ Sync(t)
      PROVE  Stored' = Stored /\ UNCHANGED <<group, todo>>
  <2>1. UNCHANGED <<group, todo, mem, imm, tables>>
    BY <1>4 DEF CompactRange, Leaves, RoomError, NoNewLogFile, RoomFound, AddRecord, Sync, groups, store
  <2> QED
    BY <2>1 DEF Stored
<1>5. ASSUME NEW t \in Thread, RoomFound(t), call[t].op = "write" PROVE Stored' = Stored /\ group = {}
  <2>1. pc[t] = "room" /\ UNCHANGED <<mem, imm, tables>>
    BY <1>5 DEF RoomFound, InRoom, store
  <2>2. writers # <<>> /\ writers[1] = t /\ ~Leading(t)
    BY <2>1, HeadOfQueue DEF Leading
  <2> QED
    BY <2>1, <2>2, NoLeader DEF Stored
<1>6. ASSUME NEW t \in Thread, InsertInto(t) PROVE StoredInv'
  <2>1. UNCHANGED <<imm, tables, group>>
    BY <1>6 DEF InsertInto
  <2>2. PICK e \in todo : mem' = mem \cup {e} /\ todo' = todo \ {e}
    BY <1>6 DEF InsertInto
  <2>3. Ids(mem') = Ids(mem) \cup {e.id} /\ e \in group
    BY <2>2 DEF Ids, GroupInv
  <2>4. Ids(group' \ todo') = Ids(group \ todo) \cup {e.id}
    BY <2>1, <2>2, <2>3 DEF Ids
  <2>5. Stored' = Stored \cup {e.id}
    BY <2>1, <2>3 DEF Stored
  <2>6. ASSUME NEW k \in Stored PROVE Past(k)' \/ k \in Ids(group \ todo)
    BY <1>0, <2>6, PastStays DEF StoredInv
  <2> QED
    BY <2>4, <2>5, <2>6 DEF StoredInv
<1>7. ASSUME NEW t \in Thread, FinishWrite(t) PROVE StoredInv'
  <2>1. UNCHANGED <<call, issued, mem, imm, tables>>
    BY <1>7 DEF FinishWrite
  <2>2. PICK n \in DOMAIN writers, at \in {pc, Woken(pc)}, result \in {"ok", "error"} :
           GroupOf(n) /\ Popped(t, n, result, at)
    BY <1>7, FinishPops
  <2>3. ASSUME NEW k \in Stored PROVE Past(k)'
    <3>1. CASE Past(k)
      BY <1>0, <3>1, PastStays
    <3>2. CASE k \in Ids(group \ todo)
      <4>1. PICK e \in group : k = e.id
        BY <3>2 DEF Ids
      <4>2. \E i \in 1 .. n : k = call[writers[i]].id
        BY <2>2, <4>1 DEF GroupOf
      <4> QED
        BY <1>0, <2>1, <2>2, <4>2, PastAfterGroup
    <3> QED
      BY <3>1, <3>2 DEF StoredInv
  <2> QED
    BY <2>1, <2>3 DEF StoredInv, Stored
<1> QED
  BY <1>1, <1>2, <1>3, <1>4, <1>5, <1>6, <1>7, Cases

\* The writers of a group that ends are told what became of it.
LEMMA ToldByLeader ==
    ASSUME WriteQueueInv, NEW t \in Thread, FinishWrite(t), NEW n \in DOMAIN writers, GroupOf(n), NEW at,
           NEW result \in {"ok", "error"}, Popped(t, n, result, at), result = "ok" <=> status[t] = "ok",
           NEW i \in 1 .. n, call[writers[i]].op = "write",
           NEW k, k = call[writers[i]].id, NEW sync, sync = call[writers[i]].sync
    PROVE  Kept(k, result = "ok", sync)'
<1> USE DEF WriteQueueInv
<1>1. UNCHANGED <<call, issued, synced, mem, imm, tables>> /\ pc[t] = "finish" /\ Leading(t)
  BY DEF FinishWrite, Leading
<1>2. Stored' = Stored
  BY <1>1 DEF Stored
<1>3. i \in DOMAIN writers
  BY DEF TypeOK
<1>4. k \in Nat /\ ~Past(k)
  BY <1>3, QueueIds DEF Past
<1>5. Past(k)'
  BY <1>1, <1>4, PastAfterGroup
<1>6. k \in Ids(group)
  BY DEF GroupOf
<1>7. writers[1] = t /\ Progress(t)
  BY <1>1, LeaderGroup
<1>8. CASE result = "ok"
  <2>1. todo = {} /\ group \subseteq mem
    BY <1>1, <1>7, <1>8 DEF Progress, GroupInv
  <2>2. k \in Stored
    BY <1>6, <2>1 DEF Stored, Ids
  <2>3. sync => k \in synced
    BY <1>1, <1>6, <1>7, <1>8 DEF Progress, GroupOf
  <2> QED
    BY <1>1, <1>2, <1>5, <1>8, <2>2, <2>3 DEF Kept
<1>9. CASE result = "error"
  <2>1. Ids(group \ todo) = {}
    BY <1>1, <1>7, <1>9 DEF Progress, Ids
  <2>2. k \notin Stored
    BY <1>4, <2>1 DEF StoredInv
  <2> QED
    BY <1>2, <1>5, <1>9, <2>2 DEF Kept
<1> QED
  BY <1>8, <1>9

\* A write that is turned away was not stored.
LEMMA ToldBeforeGroup ==
    ASSUME WriteQueueInv, NEW t \in Thread, Leaves(t), call[t].op = "write", NEW result,
           Popped(t, 1, result, pc), result # "ok",
           NEW k, k = call[t].id, NEW sync
    PROVE  Kept(k, result = "ok", sync)'
<1> USE DEF WriteQueueInv
<1>1. pc[t] = "room"
  BY DEF Leaves, RoomError, NoNewLogFile, RoomFound, InRoom
<1>2. writers # <<>> /\ 1 \in DOMAIN writers /\ writers[1] = t /\ ~Leading(t)
  BY <1>1, HeadOfQueue DEF Leading
<1>3. group = {}
  BY <1>2, NoLeader
<1>4. k \in Nat /\ ~Past(k)
  BY <1>2, QueueIds DEF Past
<1>5. UNCHANGED <<call, issued, mem, imm, tables>>
  BY LeavesPops DEF store
<1>6. Past(k)'
  <2>1. \E i \in 1 .. 1 : k = call[writers[i]].id
    BY <1>2
  <2> QED
    BY <1>2, <1>4, <1>5, <2>1, PastAfterGroup
<1>7. k \notin Stored
  BY <1>3, <1>4 DEF StoredInv, Ids
<1> QED
  BY <1>5, <1>6, <1>7 DEF Kept, Stored

\* A caller that is told of its own write.
LEMMA AcknowledgeMeans ==
    ASSUME NEW t, NEW result, NEW a \in Acknowledge(t, result)
    PROVE  a.op = call[t].op /\ a.id = call[t].id /\ a.sync = call[t].sync /\ a.ok = (result = "ok")
BY DEF Acknowledge

\* Who leaves the queue with a group and is not its leader is told by a signal.
LEMMA ToldBySignal ==
    ASSUME TypeOK, QueueInv, NEW t \in Thread, NEW n \in DOMAIN writers, writers[1] = t, NEW result,
           NEW at \in {pc, Woken(pc)}, Popped(t, n, result, at),
           NEW s \in Thread, pc'[s] = "signalled", done'[s]
    PROVE  \/ \E i \in 1 .. n : writers[i] = s /\ status'[s] = result
           \/ pc[s] = "signalled" /\ done[s] /\ status'[s] = status[s]
<1>0. writers \in Seq(Thread) /\ n \in Nat /\ n >= 1 /\ DOMAIN writers = 1 .. Len(writers) /\ n <= Len(writers)
      /\ Len(writers) \in Nat /\ pc \in [Thread -> PC]
  BY DEF TypeOK
<1>1. CASE \E i \in 1 .. n : writers[i] = s
  BY <1>1 DEF Popped
<1>2. CASE \A i \in 1 .. n : writers[i] # s
  <2>1. status'[s] = status[s] /\ done'[s] = done[s] /\ s # t
    <3>1. (\A i \in 2 .. n : writers[i] # s) /\ s # t
      BY <1>0, <1>2
    <3>2. status'[s] = status[s]
      BY <1>2 DEF Popped
    <3>3. done'[s] = done[s]
      BY <3>1 DEF Popped
    <3> QED
      BY <3>1, <3>2, <3>3
  <2>2. ~InQueue(s)
    BY <2>1 DEF QueueInv, InQueue
  <2>3. pc'[s] = at[s]
    BY <2>1, <2>2 DEF Popped, InQueue
  <2>4. pc[s] = "signalled"
    BY <1>0, <2>3, WokenFacts
  <2> QED
    BY <2>1, <2>4
<1> QED
  BY <1>1, <1>2

LEMMA ToldStep ==
    ASSUME WriteQueueInv, Next PROVE ToldInv'
<1> USE DEF WriteQueueInv
<1>0. /\ pc \in [Thread -> PC] /\ TypeOK /\ acked \subseteq Answer /\ MaxOps \in Nat
      /\ call \in [Thread -> Writer \cup {Nil}] /\ status \in [Thread -> Status]
  BY WriteQueueAssumption DEF TypeOK, Answer
<1>a. ASSUME NEW a \in acked, a.op = "write" PROVE Kept(a.id, a.ok, a.sync)'
  <2>1. a.id \in Nat /\ a.ok \in BOOLEAN /\ a.sync \in BOOLEAN
    BY <1>0 DEF Answer
  <2>2. Kept(a.id, a.ok, a.sync)
    BY <1>a DEF ToldInv
  <2> QED
    BY <2>1, <2>2, KeptStays
<1>b. ASSUME NEW s \in Thread, pc[s] = "signalled", done[s], call[s].op = "write",
             NEW k, k = call[s].id, NEW ok \in BOOLEAN, ok = (status[s] = "ok"), NEW sync, sync = call[s].sync
      PROVE  Kept(k, ok, sync)'
  <2>1. k \in Nat /\ sync \in BOOLEAN
    BY <1>0, <1>b DEF QueueInv, CallFits, Writer, WriteOptions
  <2>2. Kept(k, ok, sync)
    BY <1>b DEF ToldInv
  <2> QED
    BY <2>1, <2>2, KeptStays
<1>c. ASSUME \A a \in acked' \ acked : a.op = "write" => Kept(a.id, a.ok, a.sync)',
             \A s \in Thread : pc'[s] = "signalled" /\ done'[s] =>
                /\ pc[s] = "signalled" /\ done[s] /\ call'[s] = call[s] /\ status'[s] = status[s]
      PROVE  ToldInv'
  <2>1. \A a \in acked' : a.op = "write" => Kept(a.id, a.ok, a.sync)'
    BY <1>a, <1>c
  <2>2. ASSUME NEW s \in Thread, pc'[s] = "signalled", done'[s], call'[s].op = "write"
        PROVE  Kept(call[s].id, status[s] = "ok", call[s].sync)'
    <3>1. pc[s] = "signalled" /\ done[s] /\ call'[s] = call[s] /\ status'[s] = status[s]
      BY <1>c, <2>2
    <3>2. PICK ok \in BOOLEAN : ok = (status[s] = "ok")
      OBVIOUS
    <3>3. PICK k, sync : k = call[s].id /\ sync = call[s].sync
      OBVIOUS
    <3>4. Kept(k, ok, sync)'
      BY <1>b, <2>2, <3>1, <3>2, <3>3
    <3> QED
      BY <3>1, <3>2, <3>3, <3>4 DEF Kept
  <2> QED
    BY <2>1, <2>2 DEF ToldInv
<1>d. CASE Quiet /\ \A a \in acked' \ acked : a.op = "write" => Kept(a.id, a.ok, a.sync)'
  BY <1>c, <1>d DEF Quiet
<1>1. ASSUME NEW t \in Thread, QuietThread(t) PROVE \A a \in acked' \ acked : a.op = "write" => Kept(a.id, a.ok, a.sync)'
  <2> SUFFICES ASSUME NEW a \in acked' \ acked, a.op = "write" PROVE Kept(a.id, a.ok, a.sync)'
    OBVIOUS
  <2>1. CASE Wake(t)
    <3>1. pc[t] = "signalled" /\ done[t] /\ a \in Acknowledge(t, status[t])
      BY <2>1 DEF Wake
    <3>2. call[t].op = "write" /\ a.id = call[t].id /\ a.sync = call[t].sync /\ a.ok = (status[t] = "ok")
      BY <3>1, AcknowledgeMeans
    <3>3. (status[t] = "ok") \in BOOLEAN
      OBVIOUS
    <3>4. PICK ok \in BOOLEAN : ok = (status[t] = "ok")
      BY <3>3
    <3>5. Kept(a.id, ok, a.sync)'
      BY <1>b, <3>1, <3>2, <3>4
    <3> QED
      BY <3>2, <3>4, <3>5
  <2>2. CASE CompactMemTableWait(t)
    BY <2>2 DEF CompactMemTableWait
  <2>3. CASE EndManual(t)
    BY <2>3 DEF EndManual
  <2>4. CASE RoomDelay(t) \/ RoomWait(t) \/ SwitchMemTable(t) \/ RequestManual(t)
    BY <2>4 DEF RoomDelay, RoomWait, SwitchMemTable, RequestManual, history
  <2> QED
    BY <1>1, <2>1, <2>2, <2>3, <2>4 DEF QuietThread
<1>2. CASE Background \/ Destroy \/ DestroyWoken \/ Ended
  <2>1. Quiet
    BY <1>2, QuietSteps
  <2>2. acked' = acked
    BY <1>2, BackgroundEffect DEF Destroy, DestroyWoken, Ended, vars, history
  <2> QED
    BY <1>d, <2>1, <2>2
<1>3. ASSUME NEW t \in Thread, QuietThread(t) PROVE ToldInv'
  BY <1>1, <1>3, <1>d, QuietSteps
<1>4. ASSUME NEW t \in Thread, NEW op \in Ops, NEW sync \in BOOLEAN, NEW size \in Sizes \cup {0},
             Write(t, op, sync, size)
      PROVE  ToldInv'
  <2>1. acked' = acked /\ pc'[t] # "signalled"
        /\ \A s \in Thread \ {t} : call'[s] = call[s] /\ pc'[s] = pc[s] /\ status'[s] = status[s] /\ done'[s] = done[s]
    BY <1>4, NewCall
  <2> QED
    BY <1>c, <2>1
<1>5. ASSUME NEW t \in Thread, CompactRange(t) PROVE ToldInv'
  <2>1. acked' = acked /\ pc'[t] # "signalled" /\ status' = status
        /\ \A s \in Thread \ {t} : call'[s] = call[s] /\ pc'[s] = pc[s] /\ done'[s] = done[s]
    BY <1>5 DEF CompactRange, TypeOK
  <2> QED
    BY <1>c, <2>1
<1>6. ASSUME NEW t \in Thread, \/ AddRecord(t) \/ Sync(t) \/ InsertInto(t)
                               \/ (RoomFound(t) /\ call[t].op = "write")
      PROVE  ToldInv'
  <2>1. /\ UNCHANGED <<acked, call, done>> /\ pc'[t] # "signalled"
        /\ \A s \in Thread \ {t} : pc'[s] = pc[s] /\ status'[s] = status[s]
    BY <1>0, <1>6 DEF AddRecord, Sync, InsertInto, RoomFound, history
  <2> QED
    BY <1>c, <2>1
<1>7. ASSUME NEW t \in Thread, Leaves(t) PROVE ToldInv'
  <2>1. 1 \in DOMAIN writers /\ writers[1] = t
    BY <1>7, HeadOfQueue DEF Leaves, RoomError, NoNewLogFile, RoomFound, InRoom
  <2>2. PICK result \in {"ok", "error"} : Popped(t, 1, result, pc) /\ (call[t].op = "write" => result = "error")
    BY <1>7, LeavesPops
  <2>3. UNCHANGED call
    BY <1>7, LeavesPops
  <2>4. acked' = acked \cup Acknowledge(t, result) /\ pc'[t] # "signalled"
    BY <2>2 DEF Popped, AfterWrite
  <2>5. ASSUME NEW a \in acked' \ acked, a.op = "write" PROVE Kept(a.id, a.ok, a.sync)'
    <3>1. a.op = call[t].op /\ a.id = call[t].id /\ a.ok = (result = "ok")
      BY <2>4, <2>5, AcknowledgeMeans
    <3>2. Kept(a.id, result = "ok", a.sync)'
      BY <1>7, <2>2, <2>5, <3>1, ToldBeforeGroup
    <3> QED
      BY <3>1, <3>2
  <2>6. ASSUME NEW s \in Thread, pc'[s] = "signalled", done'[s]
        PROVE  pc[s] = "signalled" /\ done[s] /\ call'[s] = call[s] /\ status'[s] = status[s]
    <3>1. \A i \in 1 .. 1 : writers[i] # s
      BY <2>1, <2>4, <2>6
    <3> QED
      BY <2>1, <2>2, <2>3, <2>6, <3>1, ToldBySignal
  <2> QED
    BY <1>c, <2>5, <2>6
<1>8. ASSUME NEW t \in Thread, FinishWrite(t) PROVE ToldInv'
  <2>1. writers[1] = t /\ 1 \in DOMAIN writers /\ UNCHANGED call
    BY <1>8, HeadOfQueue DEF FinishWrite
  <2>2. PICK n \in DOMAIN writers, at \in {pc, Woken(pc)}, result \in {"ok", "error"} :
           GroupOf(n) /\ Popped(t, n, result, at) /\ (result = "ok" <=> status[t] = "ok")
    BY <1>8, FinishPops
  <2>3. ASSUME NEW i \in 1 .. n, call[writers[i]].op = "write", NEW k, k = call[writers[i]].id,
               NEW sync, sync = call[writers[i]].sync
        PROVE  Kept(k, result = "ok", sync)'
    BY <1>8, <2>2, <2>3, ToldByLeader
  <2>4. \A a \in acked' : a.op = "write" => Kept(a.id, a.ok, a.sync)'
    <3> SUFFICES ASSUME NEW a \in acked', a \notin acked, a.op = "write" PROVE Kept(a.id, a.ok, a.sync)'
      BY <1>a
    <3>1. a \in Acknowledge(t, result)
      BY <2>2 DEF Popped
    <3>2. a.op = call[t].op /\ a.id = call[t].id /\ a.sync = call[t].sync /\ a.ok = (result = "ok")
      BY <3>1, AcknowledgeMeans
    <3>3. 1 \in 1 .. n
      BY <2>1 DEF TypeOK
    <3>4. Kept(a.id, result = "ok", a.sync)'
      BY <2>1, <2>3, <3>2, <3>3
    <3> QED
      BY <3>2, <3>4
  <2>5. ASSUME NEW s \in Thread, pc'[s] = "signalled", done'[s], call'[s].op = "write"
        PROVE  Kept(call[s].id, status[s] = "ok", call[s].sync)'
    <3>0. PICK k, sync : k = call[s].id /\ sync = call[s].sync
      OBVIOUS
    <3>1. CASE \E i \in 1 .. n : writers[i] = s /\ status'[s] = result
      <4>1. Kept(k, result = "ok", sync)'
        BY <2>1, <2>3, <2>5, <3>0, <3>1
      <4> QED
        BY <2>1, <3>0, <3>1, <4>1 DEF Kept
    <3>2. CASE pc[s] = "signalled" /\ done[s] /\ status'[s] = status[s]
      <4>1. PICK ok \in BOOLEAN : ok = (status[s] = "ok")
        OBVIOUS
      <4>2. Kept(k, ok, sync)'
        BY <1>b, <2>1, <2>5, <3>0, <3>2, <4>1
      <4> QED
        BY <2>1, <3>0, <3>2, <4>1, <4>2 DEF Kept
    <3> QED
      BY <2>1, <2>2, <2>5, <3>1, <3>2, ToldBySignal
  <2> QED
    BY <2>4, <2>5 DEF ToldInv
<1>9. \A t \in Thread : RoomFound(t) => call[t].op \in {"flush", "write"}
  BY DEF RoomFound
<1> QED
  BY <1>2, <1>3, <1>4, <1>5, <1>6, <1>7, <1>8, <1>9 DEF Next, Step, Leaves, QuietThread

-----------------------------------------------------------------------------
(***************************************************************************)
(* The theorems.                                                           *)
(***************************************************************************)
LEMMA InitInv ==
    ASSUME Init PROVE WriteQueueInv
<1> USE DEF Init
<1>0. MaxOps \in Nat /\ MaxFailures \in Nat /\ Nil \notin Thread /\ CompactionTrigger \in Nat /\ 0 < CompactionTrigger
  BY WriteQueueAssumption
<1>1. TypeOK
  <2>1. /\ pc \in [Thread -> PC] /\ call \in [Thread -> Writer \cup {Nil}]
        /\ status \in [Thread -> Status] /\ done \in [Thread -> BOOLEAN]
    BY DEF PC, Status
  <2>2. /\ mutex \in MutexLock /\ last_writer \in Thread \cup {Nil} /\ manual \in Thread \cup {Nil}
        /\ writers \in Seq(Thread) /\ log \in Seq(SUBSET Entry)
    BY DEF MutexLock
  <2>3. /\ lastSequence \in 0 .. MaxOps /\ l0 \in Nat /\ inputs \in Nat
        /\ issued \in 0 .. MaxOps /\ failures \in 0 .. MaxFailures
    BY <1>0
  <2> QED
    BY <2>1, <2>2, <2>3 DEF TypeOK
<1>2. QueueInv
  BY DEF QueueInv, CallFits, InQueue, QueuePC, FlushPC, RangePC
<1>3. BackgroundInv
  BY <1>0 DEF BackgroundInv, NeedsCompaction
<1>4. NumbersInv
  BY DEF NumbersInv
<1>5. GroupInv
  BY FS_EmptySet DEF GroupInv, Leading
<1>6. Logged = {} /\ Stored = {}
  BY DEF Logged, Stored, Ids
<1>7. LogInv
  BY <1>6 DEF LogInv, QueueOrder
<1>8. StoredInv /\ ToldInv
  BY <1>6 DEF StoredInv, ToldInv
<1> QED
  BY <1>1, <1>2, <1>3, <1>4, <1>5, <1>7, <1>8 DEF WriteQueueInv

\* A step that changes nothing keeps every part.
LEMMA StutterInv ==
    ASSUME WriteQueueInv, UNCHANGED vars PROVE WriteQueueInv'
<1> USE DEF WriteQueueInv, vars, locals, groups, store, work, history
<1>1. TypeOK'
  BY DEF TypeOK
<1>2. QueueInv'
  BY DEF QueueInv, CallFits, InQueue
<1>3. BackgroundInv' /\ NumbersInv'
  BY DEF BackgroundInv, NeedsCompaction, NumbersInv
<1>4. Logged' = Logged /\ InLog' = InLog /\ Stored' = Stored
  BY DEF Logged, InLog, Stored
<1>5. GroupInv'
  BY <1>4 DEF GroupInv, Leading, Progress, GroupOf
<1>6. LogInv'
  BY <1>4 DEF LogInv, QueueOrder, Past
<1>7. StoredInv' /\ ToldInv'
  BY <1>4 DEF StoredInv, ToldInv, Kept, Past
<1> QED
  BY <1>1, <1>2, <1>3, <1>5, <1>6, <1>7

\* The invariant is inductive: no step of a writer, of the background thread or of a caller of
\* the manual compactions breaks it.
THEOREM WriteQueueInvariance == Spec => []WriteQueueInv
<1>1. Init => WriteQueueInv
  BY InitInv
<1>2. WriteQueueInv /\ [Next]_vars => WriteQueueInv'
  <2> SUFFICES ASSUME WriteQueueInv, [Next]_vars PROVE WriteQueueInv'
    OBVIOUS
  <2>1. CASE Next
    <3>1. TypeOK' /\ QueueInv' /\ BackgroundInv' /\ NumbersInv'
      BY <2>1, TypeStep, QueueStep, BackgroundStep, NumbersStep
    <3>2. GroupInv' /\ LogInv' /\ StoredInv' /\ ToldInv'
      BY <2>1, GroupStep, LogStep, StoredStep, ToldStep
    <3> QED
      BY <3>1, <3>2 DEF WriteQueueInv
  <2>2. CASE UNCHANGED vars
    BY <2>2, StutterInv
  <2> QED
    BY <2>1, <2>2
<1> QED
  BY <1>1, <1>2, PTL DEF Spec

\* The variables of DBImpl and of its threads keep their types, whatever fails: sequence numbers
\* stay within the number of calls, and no thread is at a place the code does not have.
THEOREM WriteQueueTypes == Spec => []TypeOK
<1>1. WriteQueueInv => TypeOK
  BY DEF WriteQueueInv
<1> QED
  BY <1>1, WriteQueueInvariance, PTL

\* DBImpl::Write with any number of writers: the head of the queue alone logs, a reader sees a
\* group whole or not at all, and the log has the order in which the calls joined the queue.
THEOREM GroupCommit == Spec => []CommitSound
<1>1. WriteQueueInv => CommitSound
  <2> SUFFICES ASSUME WriteQueueInv PROVE CommitSound
    OBVIOUS
  <2> USE DEF WriteQueueInv
  <2>1. OneLogger
    <3>1. ASSUME NEW t \in Thread, pc[t] \in {"room", "roomwait"} \/ Leading(t)
          PROVE  writers # <<>> /\ writers[1] = t
      BY <3>1, HeadOfQueue DEF Leading
    <3>2. ASSUME NEW t \in Thread, Leading(t) PROVE \E n \in DOMAIN writers : writers[n] = last_writer
      BY <3>2, LeaderGroup DEF GroupOf
    <3> QED
      BY <3>1, <3>2 DEF OneLogger
  <2>2. GroupsAtomic
    <3>1. lastSequence \in Nat /\ group \subseteq Entry
      BY WriteQueueAssumption DEF TypeOK
    <3>2. \A e \in group : e.seq > lastSequence
      BY <3>1, EntryNumbers DEF GroupInv
    <3>3. ASSUME NEW i \in DOMAIN log, log[i] # group
          PROVE  Ids(log[i]) \subseteq Stored \/ Ids(log[i]) \cap Stored = {}
      BY <3>3 DEF LogInv
    <3> QED
      BY <3>2, <3>3 DEF GroupsAtomic
  <2>3. QueueOrder
    BY DEF LogInv
  <2> QED
    BY <2>1, <2>2, <2>3 DEF CommitSound
<1> QED
  BY <1>1, WriteQueueInvariance, PTL

\* What Write has acknowledged is stored and what it refused is not; a write that asked for sync
\* is in the synced part of the log or in a table, whoever wrote it as a member of which group.
THEOREM AcknowledgedStays == Spec => []AcknowledgedKept
<1>1. WriteQueueInv => AcknowledgedKept
  BY DEF WriteQueueInv, ToldInv, Kept, AcknowledgedKept
<1> QED
  BY <1>1, WriteQueueInvariance, PTL

\* The condition variables lose no signal: the head of the queue is awake, who waits for the
\* background thread waits for one that is scheduled, and no work waits without it.
THEOREM NobodyIsForgotten == Spec => []NobodyForgotten
<1>1. WriteQueueInv => NobodyForgotten
  <2> SUFFICES ASSUME WriteQueueInv PROVE NobodyForgotten
    OBVIOUS
  <2> USE DEF WriteQueueInv
  <2>1. writers # <<>> => pc[writers[1]] # "asleep"
    <3>1. writers # <<>> => 1 \in DOMAIN writers
      BY DEF TypeOK
    <3> QED
      BY <3>1 DEF QueueInv
  <2>2. NoLostWakeup
    BY <2>1 DEF NoLostWakeup, BackgroundInv
  <2>3. WorkScheduled
    BY DEF WorkScheduled, BackgroundInv
  <2> QED
    BY <2>2, <2>3 DEF NobodyForgotten
<1> QED
  BY <1>1, WriteQueueInvariance, PTL

\* While the background thread works on a manual compaction, the frame of its caller, which
\* manual_compaction_ points to, is there, unless an error made the caller give up.
THEOREM ManualStays == Spec => []ManualOutlives
<1>1. WriteQueueInv => ManualOutlives
  BY DEF WriteQueueInv, BackgroundInv, RangePC, ManualOutlives
<1> QED
  BY <1>1, WriteQueueInvariance, PTL

=============================================================================
