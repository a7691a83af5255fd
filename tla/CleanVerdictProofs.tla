------------------------- MODULE CleanVerdictProofs -------------------------
(***************************************************************************)
(* A clean verdict is complete.  The argument is about numbers that have   *)
(* not wrapped, which 64-bit counters never do in practice.                *)
(*                                                                         *)
(* CleanVerdictComplete is not inductive.  The strengthening says that     *)
(* numbers and attempts agree (Numbered), that the intervals a CPU waits   *)
(* for are disjoint and lie below its newest number (GapShape), that every *)
(* number below it was observed or is waited for (Coverage), and that the  *)
(* count a group keeps is the size of what it waits for (GroupCount): it   *)
(* is that count, not the intervals, that Finalize looks at.               *)
(***************************************************************************)
EXTENDS EventPipelineProofs

NoWrap == MaxAttempts < ForwardLimit

Numbered ==
  /\ \A c \in CPUs : eventSeq[c] = attempts[c] /\ attempts[c] <= MaxAttempts
  /\ \A c \in CPUs : \A i \in 1 .. Len(stack[c]) :
       stack[c][i].seq = stack[c][i].attempt /\ stack[c][i].attempt <= MaxAttempts
  /\ \A i \in 1 .. Len(ring) :
       ring[i].seq = ring[i].attempt /\ ring[i].attempt <= MaxAttempts

GapShape ==
  \A c \in CPUs :
    /\ sequence[c] <= MaxAttempts
    /\ \A gap \in gaps[c] :
         gap.first <= gap.last /\ gap.last <= sequence[c] /\ groups[gap.group].cpu = c
    /\ \A gap, other \in gaps[c] : \A n \in SeqNumbers :
         Covers(gap, n) /\ Covers(other, n) => gap = other

Coverage ==
  \A c \in CPUs : \A n \in 1 .. sequence[c] :
    n \in seen[c] \/ \E gap \in gaps[c] : Covers(gap, n)

\* The numbers the group g still waits for.
GroupNumbers(g) ==
  {n \in SeqNumbers : \E gap \in gaps[groups[g].cpu] : gap.group = g /\ Covers(gap, n)}

GroupCount ==
  \A g \in DOMAIN groups :
    IsFiniteSet(GroupNumbers(g)) /\ groups[g].remaining = Cardinality(GroupNumbers(g))

Accounting == GapShape /\ Coverage /\ GroupCount

CleanInv ==
  /\ Numbered
  /\ \A c \in CPUs : statSeq[c] = statCount[c] /\ statCount[c] <= MaxAttempts
  /\ phase \notin {"abandon", "stopped"} => Accounting
  /\ rejected => tainted
  /\ CleanVerdictComplete
-----------------------------------------------------------------------------
\* Without a wrap, the counter's arithmetic is that of the integers.
LEMMA NoWrapArithmetic ==
  ASSUME NoWrap, NEW s \in Nat, s <= MaxAttempts, NEW q \in Nat, q <= MaxAttempts
  PROVE  /\ s \in SeqNumbers /\ SeqSucc(s) = s + 1
         /\ SeqMinus(q, s + 1) < ForwardLimit <=> s + 1 <= q
         /\ s + 1 <= q => SeqMinus(q, s + 1) = q - (s + 1)
         /\ SeqMinus(q, s) < ForwardLimit <=> s <= q
         /\ s <= q => SeqMinus(q, s) = q - s
  BY ForwardLimitAssumption, ProducerAssumption
     DEF NoWrap, SeqSucc, SeqMinus, SeqNumbers, SeqModulus

\* Producers number their records by attempt.
LEMMA NumberedStep ==
  ASSUME NoWrap, ProducerTypeOK, Numbered, ProducerNext
  PROVE  Numbered'
  <1> USE DEF ProducerTypeOK
  <1>1. ASSUME NEW c \in CPUs, NEW body \in Bodies, NextEventSequence(c, body)
        PROVE  Numbered'
    <2>1. SeqSucc(eventSeq[c]) = attempts[c] + 1 /\ attempts[c] + 1 <= MaxAttempts
      BY <1>1, NoWrapArithmetic, ProducerAssumption DEF NextEventSequence, Numbered
    <2>2. \A d \in CPUs : eventSeq'[d] = attempts'[d] /\ attempts'[d] <= MaxAttempts
      BY <1>1, <2>1 DEF NextEventSequence, Numbered
    <2> DEFINE new == [pc |-> "reserve", ret |-> "return", kind |-> "reserve", reg |-> 0,
                       attempt |-> attempts[c] + 1, seq |-> SeqSucc(eventSeq[c]),
                       body |-> body, epoch |-> 0, time |-> FALSE, after |-> lossTime]
    <2>3. new.seq = new.attempt /\ new.attempt <= MaxAttempts
      BY <2>1
    <2>4. stack' = [stack EXCEPT ![c] = Append(@, new)]
      BY <1>1 DEF NextEventSequence
    <2> HIDE DEF new
    <2>5. \A d \in CPUs : \A i \in 1 .. Len(stack'[d]) :
            stack'[d][i].seq = stack'[d][i].attempt /\ stack'[d][i].attempt <= MaxAttempts
      BY <2>3, <2>4 DEF Numbered
    <2> QED
      BY <1>1, <2>2, <2>5 DEF NextEventSequence, Numbered
  <1>2. ASSUME NEW c \in CPUs, StateUpdateFail(c)
        PROVE  Numbered'
    <2> DEFINE new == [pc |-> "stamp", ret |-> "return", kind |-> "state", reg |-> 0,
                       attempt |-> 0, seq |-> 0, body |-> CHOOSE b \in Bodies : TRUE,
                       epoch |-> 0, time |-> FALSE, after |-> FALSE]
    <2>3. new.seq = new.attempt /\ new.attempt <= MaxAttempts
      BY ProducerAssumption
    <2>4. stack' = [stack EXCEPT ![c] = Append(@, new)]
      BY <1>2 DEF StateUpdateFail
    <2> HIDE DEF new
    <2>5. \A d \in CPUs : \A i \in 1 .. Len(stack'[d]) :
            stack'[d][i].seq = stack'[d][i].attempt /\ stack'[d][i].attempt <= MaxAttempts
      BY <2>3, <2>4 DEF Numbered
    <2> QED
      BY <1>2, <2>5 DEF StateUpdateFail, Numbered
  <1>3. ASSUME NEW c \in CPUs, ProducerStep(c)
        PROVE  Numbered'
    <2> DEFINE Good(r) == r.seq = r.attempt /\ r.attempt <= MaxAttempts
    <2>1. Len(stack[c]) \in 1 .. Len(stack[c]) /\ Good(Top(c))
      BY <1>3, StackShape, TopType DEF Top, Numbered
    <2>2. \A d \in CPUs : \A i \in 1 .. Len(stack'[d]) : Good(stack'[d][i])
      <3>1. CASE Pop(c)
        BY <2>1, <3>1 DEF Pop, Numbered
      <3>2. ASSUME NEW p \in Producers, Update(c, p), Good(p)
            PROVE  \A d \in CPUs : \A i \in 1 .. Len(stack'[d]) : Good(stack'[d][i])
        <4>1. \A d \in CPUs : Len(stack'[d]) = Len(stack[d])
          BY <2>1, <3>2 DEF Update
        <4>2. \A d \in CPUs : \A i \in 1 .. Len(stack[d]) :
                stack'[d][i] = stack[d][i] \/ stack'[d][i] = p
          BY <2>1, <3>2 DEF Update
        <4> QED
          BY ONLY Numbered, <3>2, <4>1, <4>2 DEF Numbered
      <3> QED
        BY <1>3, <2>1, <3>1, <3>2, StackShape
    <2>3. \A i \in 1 .. Len(ring') : Good(ring'[i])
      <3>1. ASSUME NEW slot \in Slots, ring' = Append(ring, slot), Good(slot)
            PROVE  \A i \in 1 .. Len(ring') : Good(ring'[i])
        <4>1. \A i \in 1 .. Len(ring') :
                (i \in 1 .. Len(ring) /\ ring'[i] = ring[i]) \/ ring'[i] = slot
          BY <3>1
        <4> QED
          BY ONLY Numbered, <3>1, <4>1 DEF Numbered
      <3>2. ASSUME NEW j \in 1 .. Len(ring), NEW slot \in Slots,
                   ring' = [ring EXCEPT ![j] = slot],
                   slot.attempt = ring[j].attempt, slot.seq = ring[j].seq
            PROVE  \A i \in 1 .. Len(ring') : Good(ring'[i])
        BY <3>2 DEF Numbered
      <3>3. CASE ring' = ring
        BY <3>3 DEF Numbered
      <3> QED
        BY <1>3, <2>1, <3>1, <3>2, <3>3, RingShape
    <2>4. UNCHANGED <<eventSeq, attempts>>
      BY <1>3
         DEF ProducerStep, ReserveRecord, ReserveFail, CapturePayload, CaptureLossEpoch,
             CaptureLossTime, SubmitRecord, SubmitFail, DiscardRecord, StampCPULoss,
             StampGlobalLoss, BumpLossEpoch, LoadFailureCount, StoreFailureCount
    <2> QED
      BY <2>2, <2>3, <2>4 DEF Numbered
  <1> QED
    BY <1>1, <1>2, <1>3 DEF ProducerNext
-----------------------------------------------------------------------------
\* A record in order extends what is covered.
LEMMA InOrderAccounting ==
  ASSUME NoWrap, SequenceTypeOK, Accounting, seen \in [CPUs -> SUBSET Nat],
         NEW ev \in Slots, ev.seq = ev.attempt, ev.attempt <= MaxAttempts,
         seen' = [seen EXCEPT ![ev.cpu] = @ \cup {ev.attempt}],
         InOrder(ev)
  PROVE  Accounting'
  <1> USE DEF SequenceTypeOK
  <1>1. ev.cpu \in CPUs /\ ev.seq \in Nat /\ sequence[ev.cpu] \in Nat
    BY SeqArithmetic DEF Slots, SeqNumbers
  <1>2. ev.seq = sequence[ev.cpu] + 1
    BY <1>1, NoWrapArithmetic DEF InOrder, Expected, Accounting, GapShape
  <1>3. gaps' = gaps /\ groups' = groups /\ sequence' = [sequence EXCEPT ![ev.cpu] = ev.seq]
    BY DEF InOrder
  <1>4. GapShape'
    BY <1>1, <1>2, <1>3 DEF Accounting, GapShape, Gaps, SeqNumbers
  <1>5. Coverage'
    BY <1>1, <1>2, <1>3 DEF Accounting, Coverage, SeqNumbers
  <1>6. GroupCount'
    BY <1>3 DEF Accounting, GroupCount, GroupNumbers
  <1> QED
    BY <1>4, <1>5, <1>6 DEF Accounting

\* A record nobody waits for changes nothing that is accounted.
LEMMA OutOfPlaceAccounting ==
  ASSUME Accounting, seen \in [CPUs -> SUBSET Nat], NEW ev \in Slots,
         seen' = [seen EXCEPT ![ev.cpu] = @ \cup {ev.attempt}],
         UNCHANGED sequenceVars
  PROVE  Accounting'
  <1>1. gaps' = gaps /\ groups' = groups /\ sequence' = sequence
    BY DEF sequenceVars
  <1>2. \A c \in CPUs : seen[c] \subseteq seen'[c]
    BY DEF Slots
  <1>3. GapShape' /\ GroupCount'
    BY <1>1 DEF Accounting, GapShape, GroupCount, GroupNumbers
  <1>4. Coverage'
    BY <1>1, <1>2 DEF Accounting, Coverage
  <1> QED
    BY <1>3, <1>4 DEF Accounting

\* A forward jump puts the skipped numbers into a group of their own.
LEMMA ForwardJumpAccounting ==
  ASSUME NoWrap, SequenceTypeOK, records \in Nat, Accounting, seen \in [CPUs -> SUBSET Nat],
         NEW ev \in Slots, ev.seq = ev.attempt, ev.attempt <= MaxAttempts,
         seen' = [seen EXCEPT ![ev.cpu] = @ \cup {ev.attempt}],
         NEW confirmed, ForwardJump(ev, confirmed)
  PROVE  Accounting'
  <1> USE DEF SequenceTypeOK
  <1> DEFINE first == sequence[ev.cpu] + 1
             last == ev.seq - 1
             group == records + 1
             new == [first |-> first, last |-> last, group |-> group]
  <1>1. ev.cpu \in CPUs /\ ev.seq \in Nat /\ sequence[ev.cpu] \in Nat /\ ev.seq \in SeqNumbers
    BY SeqArithmetic DEF Slots, SeqNumbers
  <1>2. Expected(ev.cpu) = first
    BY <1>1, NoWrapArithmetic DEF Expected, Accounting, GapShape
  <1>3. first <= last /\ Ahead(ev) = ev.seq - first
    BY <1>1, <1>2, NoWrapArithmetic DEF Ahead, ForwardJump, Accounting, GapShape
  <1>4. SeqMinus(ev.seq, 1) = last
    BY <1>1, <1>3 DEF SeqMinus
  <1>5. SkippedIntervals(first, ev.seq, group) = {new}
    BY <1>3, <1>4 DEF SkippedIntervals
  <1>6. /\ sequence' = [sequence EXCEPT ![ev.cpu] = ev.seq]
        /\ gaps' = [gaps EXCEPT ![ev.cpu] = @ \cup {new}]
    BY <1>2, <1>5 DEF ForwardJump
  <1>7. /\ group \notin DOMAIN groups
        /\ DOMAIN groups' = DOMAIN groups \cup {group}
        /\ groups'[group].cpu = ev.cpu /\ groups'[group].remaining = ev.seq - first
        /\ \A g \in DOMAIN groups : groups'[g] = groups[g]
    BY <1>3 DEF ForwardJump
  <1>8. \A n \in SeqNumbers : Covers(new, n) <=> n \in first .. last
    BY <1>1 DEF Covers, SeqNumbers
  <1>9. new.first = first /\ new.last = last /\ new.group = group
    OBVIOUS
  <1> HIDE DEF new
  <1>10. GapShape'
    <2> SUFFICES ASSUME NEW c \in CPUs PROVE GapShape!(c)'
      BY DEF GapShape
    <2>1. sequence'[c] <= MaxAttempts /\ sequence[c] \in Nat /\ sequence[c] <= sequence'[c]
      BY <1>1, <1>3, <1>6 DEF Accounting, GapShape, SeqNumbers
    <2>2. ASSUME NEW gap \in gaps[c]
          PROVE  /\ gap.first <= gap.last /\ gap.last <= sequence[c]
                 /\ groups'[gap.group].cpu = c
                 /\ gap.first \in Nat /\ gap.last \in Nat
      BY <1>7 DEF Accounting, GapShape, Gaps, SeqNumbers
    <2>3. \A gap \in gaps'[c] : gap \in gaps[c] \/ (c = ev.cpu /\ gap = new)
      BY <1>1, <1>6
    <2>4. \A gap \in gaps'[c] :
            gap.first <= gap.last /\ gap.last <= sequence'[c] /\ groups'[gap.group].cpu = c
      BY <1>1, <1>3, <1>6, <1>7, <1>9, <2>1, <2>2, <2>3
    <2>5. ASSUME NEW gap \in gaps[c], NEW n \in SeqNumbers, c = ev.cpu
          PROVE  ~(Covers(gap, n) /\ Covers(new, n))
      BY <1>1, <1>8, <2>2, <2>5 DEF Covers, SeqNumbers
    <2>6. \A gap, other \in gaps'[c] : \A n \in SeqNumbers :
            Covers(gap, n) /\ Covers(other, n) => gap = other
      BY <2>3, <2>5 DEF Accounting, GapShape
    <2> QED
      BY <2>1, <2>4, <2>6
  <1>11. Coverage'
    <2> SUFFICES ASSUME NEW c \in CPUs, NEW n \in 1 .. sequence'[c]
                 PROVE  n \in seen'[c] \/ \E gap \in gaps'[c] : Covers(gap, n)
      BY DEF Coverage
    <2>1. gaps[c] \subseteq gaps'[c] /\ seen[c] \subseteq seen'[c]
      BY <1>1, <1>6
    <2>2. CASE n \in 1 .. sequence[c]
      BY <2>1, <2>2 DEF Accounting, Coverage
    <2>3. CASE n \notin 1 .. sequence[c]
      <3>1. c = ev.cpu /\ n \in Nat /\ first <= n /\ n <= ev.seq
        BY <1>1, <1>6, <2>3
      <3>2. CASE n = ev.seq
        BY <1>1, <3>1, <3>2
      <3>3. CASE n # ev.seq
        <4>1. n \in SeqNumbers /\ n \in first .. last
          BY <1>1, <3>1, <3>3, SeqArithmetic DEF SeqNumbers
        <4> QED
          BY <1>1, <1>6, <1>8, <3>1, <4>1
      <3> QED
        BY <3>2, <3>3
    <2> QED
      BY <2>2, <2>3
  <1>12. GroupCount'
    <2> SUFFICES ASSUME NEW g \in DOMAIN groups'
                 PROVE  /\ IsFiniteSet(GroupNumbers(g)')
                        /\ groups'[g].remaining = Cardinality(GroupNumbers(g)')
      BY DEF GroupCount
    <2>1. CASE g \in DOMAIN groups
      <3>1. g # group
        BY <1>7, <2>1
      <3>2. GroupNumbers(g)' = GroupNumbers(g)
        BY <1>1, <1>6, <1>7, <1>9, <2>1, <3>1 DEF GroupNumbers, GroupStates
      <3> QED
        BY <1>7, <2>1, <3>2 DEF Accounting, GroupCount
    <2>2. CASE g = group
      <3>1. \A gap \in gaps[ev.cpu] : gap.group # group
        BY <1>1, <1>7
      <3>2. GroupNumbers(g)' = {n \in SeqNumbers : Covers(new, n)}
        BY <1>1, <1>6, <1>7, <1>9, <2>2, <3>1 DEF GroupNumbers
      <3>3. GroupNumbers(g)' = first .. last
        <4>1. first .. last \subseteq SeqNumbers
          BY <1>1, SeqArithmetic DEF SeqNumbers
        <4> QED
          BY <1>8, <3>2, <4>1
      <3>4. IsFiniteSet(first .. last) /\ Cardinality(first .. last) = ev.seq - first
        <4>1. first \in Int /\ last \in Int /\ last - first + 1 = ev.seq - first
          BY <1>1
        <4> HIDE DEF first, last
        <4>2. /\ IsFiniteSet(first .. last)
              /\ Cardinality(first .. last) = IF first > last THEN 0 ELSE last - first + 1
          BY <4>1, FS_Interval
        <4> QED
          BY <1>3, <4>1, <4>2
      <3> QED
        BY <1>7, <2>2, <3>3, <3>4
    <2> QED
      BY <1>7, <2>1, <2>2
  <1> QED
    BY <1>10, <1>11, <1>12 DEF Accounting

\* A late record is taken out of exactly one interval and out of its group.
LEMMA ReorderedAccounting ==
  ASSUME NoWrap, SequenceTypeOK, Accounting, seen \in [CPUs -> SUBSET Nat],
         NEW ev \in Slots, ev.seq = ev.attempt, ev.attempt <= MaxAttempts,
         seen' = [seen EXCEPT ![ev.cpu] = @ \cup {ev.attempt}],
         Reordered(ev)
  PROVE  Accounting'
  <1> USE DEF SequenceTypeOK
  <1>1. ev.cpu \in CPUs /\ ev.seq \in Nat /\ ev.seq \in SeqNumbers /\ sequence' = sequence
    BY SeqArithmetic DEF Slots, SeqNumbers, Reordered
  <1>2. PICK hit \in gaps[ev.cpu] :
          /\ Covers(hit, ev.seq)
          /\ gaps' = [gaps EXCEPT ![ev.cpu] = (@ \ {hit}) \cup WithoutNumber(hit, ev.seq)]
          /\ groups' = [groups EXCEPT ![hit.group].remaining =
               IF groups[hit.group].remaining = 0 THEN 0 ELSE groups[hit.group].remaining - 1]
    BY DEF Reordered
  <1>3. /\ hit \in Gaps /\ hit.group \in DOMAIN groups
        /\ groups[hit.group] \in GroupStates /\ groups[hit.group].cpu = ev.cpu
    BY <1>1 DEF Accounting, GapShape
  <1> DEFINE rest == WithoutNumber(hit, ev.seq)
  <1>4. \A gap \in rest :
          /\ gap.group = hit.group
          /\ gap.first <= gap.last /\ hit.first <= gap.first /\ gap.last <= hit.last
          /\ gap.first \in Nat /\ gap.last \in Nat
    BY <1>1, <1>2, <1>3 DEF WithoutNumber, Covers, Gaps, SeqNumbers
  <1>5. \A n \in SeqNumbers :
          (\E gap \in rest : Covers(gap, n)) <=> (Covers(hit, n) /\ n # ev.seq)
    <2> SUFFICES ASSUME NEW n \in SeqNumbers
                 PROVE  (\E gap \in rest : Covers(gap, n)) <=> (Covers(hit, n) /\ n # ev.seq)
      OBVIOUS
    <2> DEFINE lower == [hit EXCEPT !.last = ev.seq - 1]
               upper == [hit EXCEPT !.first = ev.seq + 1]
    <2>1. /\ lower.first = hit.first /\ lower.last = ev.seq - 1
          /\ upper.first = ev.seq + 1 /\ upper.last = hit.last
      BY <1>3 DEF Gaps
    <2>2. hit.first \in Nat /\ hit.last \in Nat /\ n \in Nat
      BY <1>3, SeqArithmetic DEF Gaps, SeqNumbers
    <2>3. rest = {gap \in {lower, upper} : gap.first <= gap.last}
      BY DEF WithoutNumber
    <2> HIDE DEF lower, upper, rest
    <2>4. CASE n < ev.seq
      BY <1>1, <1>2, <2>1, <2>2, <2>3, <2>4 DEF Covers
    <2>5. CASE n > ev.seq
      BY <1>1, <1>2, <2>1, <2>2, <2>3, <2>5 DEF Covers
    <2>6. CASE n = ev.seq
      BY <1>1, <1>2, <2>1, <2>2, <2>3, <2>6 DEF Covers
    <2> QED
      BY <1>1, <2>2, <2>4, <2>5, <2>6
  <1>6. \A gap, other \in rest : \A n \in SeqNumbers :
          Covers(gap, n) /\ Covers(other, n) => gap = other
    BY <1>1, <1>2, <1>3 DEF WithoutNumber, Covers, Gaps, SeqNumbers
  <1>7. \A gap \in gaps[ev.cpu] : \A n \in SeqNumbers :
          Covers(gap, n) /\ Covers(hit, n) => gap = hit
    BY <1>1, <1>2 DEF Accounting, GapShape
  <1>8. /\ gaps'[ev.cpu] = (gaps[ev.cpu] \ {hit}) \cup rest
        /\ \A c \in CPUs \ {ev.cpu} : gaps'[c] = gaps[c]
    BY <1>1, <1>2
  <1>9. /\ DOMAIN groups' = DOMAIN groups
        /\ \A g \in DOMAIN groups : groups'[g].cpu = groups[g].cpu
        /\ \A g \in DOMAIN groups \ {hit.group} : groups'[g] = groups[g]
        /\ groups'[hit.group].remaining =
             IF groups[hit.group].remaining = 0 THEN 0 ELSE groups[hit.group].remaining - 1
    BY <1>2, <1>3 DEF GroupStates
  <1> HIDE DEF rest
  <1>10. GapShape'
    <2> SUFFICES ASSUME NEW c \in CPUs PROVE GapShape!(c)'
      BY DEF GapShape
    <2>1. CASE c # ev.cpu
      <3>1. gaps'[c] = gaps[c] /\ \A gap \in gaps[c] : gap.group \in DOMAIN groups
        BY <1>8, <2>1
      <3> QED
        BY <1>1, <1>9, <3>1 DEF Accounting, GapShape
    <2>2. CASE c = ev.cpu
      <3>1. sequence[c] \in Nat /\ hit.last <= sequence[c] /\ hit.last \in Nat
        BY <1>2, <1>3, <2>2, SeqArithmetic DEF Accounting, GapShape, Gaps, SeqNumbers
      <3>2. \A gap \in gaps'[c] :
              gap.first <= gap.last /\ gap.last <= sequence'[c] /\ groups'[gap.group].cpu = c
        BY <1>1, <1>3, <1>4, <1>8, <1>9, <2>2, <3>1 DEF Accounting, GapShape
      <3>3. \A gap, other \in gaps'[c] : \A n \in SeqNumbers :
              Covers(gap, n) /\ Covers(other, n) => gap = other
        <4> SUFFICES ASSUME NEW gap \in gaps'[c], NEW other \in gaps'[c], NEW n \in SeqNumbers,
                            Covers(gap, n), Covers(other, n)
                     PROVE  gap = other
          OBVIOUS
        <4>1. CASE gap \in rest /\ other \in rest
          BY <1>6, <4>1
        <4>2. CASE gap \notin rest /\ other \notin rest
          BY <1>8, <2>2, <4>2 DEF Accounting, GapShape
        <4>3. CASE gap \in rest /\ other \notin rest
          BY <1>5, <1>7, <1>8, <2>2, <4>3
        <4>4. CASE gap \notin rest /\ other \in rest
          BY <1>5, <1>7, <1>8, <2>2, <4>4
        <4> QED
          BY <4>1, <4>2, <4>3, <4>4
      <3> QED
        BY <1>1, <2>2, <3>2, <3>3 DEF Accounting, GapShape
    <2> QED
      BY <2>1, <2>2
  <1>11. Coverage'
    <2> SUFFICES ASSUME NEW c \in CPUs, NEW n \in 1 .. sequence'[c]
                 PROVE  n \in seen'[c] \/ \E gap \in gaps'[c] : Covers(gap, n)
      BY DEF Coverage
    <2>1. n \in SeqNumbers
      BY <1>1, SeqArithmetic DEF SeqNumbers
    <2>2. CASE n \in seen[c]
      BY <1>1, <2>2
    <2>3. CASE n \notin seen[c]
      <3>1. PICK gap \in gaps[c] : Covers(gap, n)
        BY <1>1, <2>3 DEF Accounting, Coverage
      <3>2. CASE c = ev.cpu /\ n = ev.seq
        BY <1>1, <3>2
      <3>3. CASE c # ev.cpu \/ n # ev.seq
        BY <1>5, <1>8, <2>1, <3>1, <3>3
      <3> QED
        BY <3>2, <3>3
    <2> QED
      BY <2>2, <2>3
  <1>12. GroupCount'
    <2> SUFFICES ASSUME NEW g \in DOMAIN groups
                 PROVE  /\ IsFiniteSet(GroupNumbers(g)')
                        /\ groups'[g].remaining = Cardinality(GroupNumbers(g)')
      BY <1>9 DEF GroupCount
    <2>1. CASE g # hit.group
      <3>1. groups[g].cpu \in CPUs
        BY DEF GroupStates
      <3>2. GroupNumbers(g)' = GroupNumbers(g)
        BY <1>4, <1>8, <1>9, <2>1, <3>1 DEF GroupNumbers
      <3> QED
        BY <1>9, <2>1, <3>2 DEF Accounting, GroupCount
    <2>2. CASE g = hit.group
      <3>1. GroupNumbers(g)' = {n \in SeqNumbers :
              \E gap \in gaps'[ev.cpu] : gap.group = g /\ Covers(gap, n)}
        BY <1>3, <1>9, <2>2 DEF GroupNumbers
      <3>2. GroupNumbers(g) = {n \in SeqNumbers :
              \E gap \in gaps[ev.cpu] : gap.group = g /\ Covers(gap, n)}
        BY <1>3, <2>2 DEF GroupNumbers
      <3>3. \A n \in SeqNumbers : n # ev.seq =>
              ((\E gap \in gaps'[ev.cpu] : gap.group = g /\ Covers(gap, n))
                <=> (\E gap \in gaps[ev.cpu] : gap.group = g /\ Covers(gap, n)))
        BY <1>2, <1>4, <1>5, <1>8, <2>2
      <3>4. ~\E gap \in gaps'[ev.cpu] : Covers(gap, ev.seq)
        BY <1>1, <1>2, <1>5, <1>7, <1>8
      <3>5. GroupNumbers(g)' = GroupNumbers(g) \ {ev.seq} /\ ev.seq \in GroupNumbers(g)
        BY <1>1, <1>2, <2>2, <3>1, <3>2, <3>3, <3>4
      <3>6. /\ IsFiniteSet(GroupNumbers(g))
            /\ groups[g].remaining = Cardinality(GroupNumbers(g))
        BY DEF Accounting, GroupCount
      <3>7. /\ IsFiniteSet(GroupNumbers(g) \ {ev.seq})
            /\ Cardinality(GroupNumbers(g) \ {ev.seq}) = Cardinality(GroupNumbers(g)) - 1
        <4>1. /\ IsFiniteSet(GroupNumbers(g) \ {ev.seq})
              /\ Cardinality(GroupNumbers(g) \ {ev.seq}) =
                   IF ev.seq \in GroupNumbers(g) THEN Cardinality(GroupNumbers(g)) - 1
                   ELSE Cardinality(GroupNumbers(g))
          BY ONLY <3>6, FS_RemoveElement
        <4> QED
          BY <3>5, <4>1
      <3>8. Cardinality(GroupNumbers(g)) \in Nat /\ Cardinality(GroupNumbers(g)) # 0
        BY <3>5, <3>6, FS_EmptySet, FS_CardinalityType
      <3> QED
        BY <1>9, <2>2, <3>5, <3>6, <3>7, <3>8
    <2> QED
      BY <2>1, <2>2
  <1> QED
    BY <1>10, <1>11, <1>12 DEF Accounting
-----------------------------------------------------------------------------
\* The accounting holds at the start: no numbers, no gaps, no groups.
LEMMA CleanInit == Init => CleanInv
  <1> SUFFICES ASSUME Init PROVE CleanInv
    OBVIOUS
  <1> USE DEF Init
  <1>1. Numbered
    BY ProducerAssumption DEF ProducerInit, Numbered
  <1>2. GapShape /\ Coverage
    BY ProducerAssumption DEF IntegrityInit, GapShape, Coverage
  <1>3. GroupCount
    BY DEF IntegrityInit, GroupCount
  <1> QED
    BY <1>1, <1>2, <1>3, ProducerAssumption DEF CleanInv, Accounting, CleanVerdictComplete

\* Finalize that finds nothing leaves no attempt of the statistics unseen.
LEMMA FinishIsComplete ==
  ASSUME NoWrap, TypeOK, CleanInv, Finish, ~tainted'
  PROVE  /\ \A c \in CPUs : Unseen(c, statCount[c]) = {}
         /\ ~rejected
         /\ ~statLoss
  <1>1. /\ ~tainted /\ ~statLoss /\ ~Unresolved
        /\ \A c \in CPUs : UnobservedAt(c, statSeq) \in SeqNumbers
                             => UnobservedAt(c, statSeq) = 0
    <2> DEFINE tail == \E c \in CPUs : UnobservedAt(c, statSeq) > 0
               late == ~tainted /\ (statLoss \/ Unresolved)
               n == (IF late THEN 1 ELSE 0) + (IF tail THEN 1 ELSE 0)
    <2>1. Taint(n)
      BY DEF Finish, Finalize
    <2>2. n \in Nat /\ (late \/ tail => n # 0)
      OBVIOUS
    <2> HIDE DEF n
    <2>3. ~tainted /\ ~late /\ ~tail
      BY <2>1, <2>2, TaintSound
    <2> QED
      BY <2>3 DEF SeqNumbers
  <1>2. ASSUME NEW c \in CPUs
        PROVE  Unseen(c, statCount[c]) = {}
    <2>1. Accounting /\ SequenceTypeOK /\ statSeq[c] \in SeqNumbers
      BY DEF CleanInv, Finish, TypeOK, IntegrityTypeOK
    <2>2. /\ statSeq[c] = statCount[c] /\ statCount[c] \in Nat /\ statCount[c] <= MaxAttempts
          /\ sequence[c] \in Nat /\ sequence[c] <= MaxAttempts
      BY <2>1, SeqArithmetic DEF CleanInv, TypeOK, Accounting, GapShape, SequenceTypeOK, SeqNumbers
    <2>3. statCount[c] <= sequence[c]
      <3> SUFFICES ASSUME sequence[c] < statCount[c] PROVE FALSE
        BY <2>2
      <3>1. UnobservedAt(c, statSeq) = statCount[c] - sequence[c]
        BY <2>2, NoWrapArithmetic DEF UnobservedAt
      <3>2. UnobservedAt(c, statSeq) \in SeqNumbers
        BY <2>1, SeqArithmetic DEF UnobservedAt, SequenceTypeOK
      <3> QED
        BY <1>1, <2>2, <3>1, <3>2
    <2>4. gaps[c] = {}
      <3> SUFFICES ASSUME NEW gap \in gaps[c] PROVE FALSE
        OBVIOUS
      <3>1. /\ gap \in Gaps /\ gap.group \in DOMAIN groups /\ gap.first <= gap.last
            /\ groups[gap.group].cpu = c
        BY <2>1 DEF Accounting, GapShape, SequenceTypeOK
      <3>2. gap.first \in GroupNumbers(gap.group)
        <4>1. gap \in gaps[groups[gap.group].cpu] /\ gap.first \in SeqNumbers
          BY <3>1 DEF Gaps
        <4>2. Covers(gap, gap.first)
          BY <3>1, <4>1, SeqArithmetic DEF Covers, SeqNumbers
        <4> QED
          BY ONLY <4>1, <4>2, Zenon DEF GroupNumbers
      <3>3. /\ IsFiniteSet(GroupNumbers(gap.group))
            /\ groups[gap.group].remaining = Cardinality(GroupNumbers(gap.group))
        BY <2>1, <3>1 DEF Accounting, GroupCount
      <3>4. groups[gap.group].remaining # 0
        BY ONLY <3>2, <3>3, FS_EmptySet
      <3> QED
        BY <1>1, <3>4 DEF Unresolved
    <2>5. \A n \in 1 .. sequence[c] : n \in seen[c]
      BY <2>1, <2>4 DEF Accounting, Coverage
    <2> QED
      BY <2>2, <2>3, <2>5 DEF Unseen
  <1> QED
    BY <1>1, <1>2 DEF CleanInv

\* Every step keeps the invariant.
LEMMA CleanStep ==
  ASSUME NoWrap, TypeOK, CleanInv, [Next]_vars
  PROVE  CleanInv'
  <1>1. ASSUME UNCHANGED <<sequence, gaps, groups, seen>>
        PROVE  Accounting => Accounting'
    BY <1>1 DEF Accounting, GapShape, Coverage, GroupCount, GroupNumbers
  <1>2. ASSUME UNCHANGED <<eventSeq, attempts, stack, ring>>
        PROVE  Numbered'
    BY <1>2 DEF CleanInv, Numbered
  <1>3. ASSUME UNCHANGED <<statSeq, statCount, statLoss, seen, rejected, phase>>, tainted => tainted'
        PROVE  /\ \A c \in CPUs : statSeq'[c] = statCount'[c] /\ statCount'[c] <= MaxAttempts
               /\ rejected' => tainted'
               /\ CleanVerdictComplete'
    BY <1>3 DEF CleanInv, CleanVerdictComplete, Unseen
  <1>4. CASE Produce
    <2>1. Numbered'
      BY <1>4, NumberedStep DEF Produce, CleanInv, TypeOK
    <2> QED
      BY <1>1, <1>3, <1>4, <2>1 DEF Produce, integrityVars, sessionVars, CleanInv
  <1>5. ASSUME TakeHead
        PROVE  /\ Numbered' /\ phase \in Reading /\ Head(ring) \in Slots
               /\ Head(ring).seq = Head(ring).attempt /\ Head(ring).attempt <= MaxAttempts
    <2>1. ring \in Seq(Slots) /\ ring # <<>> /\ ring' = Tail(ring) /\ phase \in Reading
      BY <1>5 DEF TakeHead, Readable, TypeOK, ProducerTypeOK
    <2>2. /\ Head(ring) \in Slots /\ Head(ring) = ring[1] /\ 1 \in 1 .. Len(ring)
          /\ \A i \in 1 .. Len(ring') : ring'[i] = ring[i + 1] /\ i + 1 \in 1 .. Len(ring)
      BY <2>1
    <2> QED
      BY <1>5, <2>1, <2>2 DEF TakeHead, CleanInv, Numbered
  <1>6. CASE SkipDiscarded
    BY <1>1, <1>3, <1>5, <1>6 DEF SkipDiscarded, integrityVars, sessionVars, CleanInv
  <1>7. CASE ConsumeRecord
    <2> DEFINE ev == Head(ring)
    <2>1. /\ Accounting /\ SequenceTypeOK /\ records \in Nat /\ seen \in [CPUs -> SUBSET Nat]
          /\ seen' = [seen EXCEPT ![ev.cpu] = @ \cup {ev.attempt}] /\ Observe(ev)
          /\ phase' = phase /\ phase \in Reading
      BY <1>5, <1>7 DEF ConsumeRecord, CleanInv, TypeOK, IntegrityTypeOK, Reading
    <2>2. Accounting'
      BY <1>5, <1>7, <2>1, InOrderAccounting, ForwardJumpAccounting, ReorderedAccounting,
         OutOfPlaceAccounting DEF ConsumeRecord, Observe
    <2>3. tainted => tainted'
      BY <2>1 DEF Observe, Taint
    <2> QED
      BY <1>5, <1>7, <2>1, <2>2, <2>3
         DEF ConsumeRecord, CleanInv, CleanVerdictComplete, Reading
  <1>8. CASE ConsumeMalformed
    <2>1. tainted' /\ phase \in Reading /\ phase' = phase
      BY <1>5, <1>8, TaintSound DEF ConsumeMalformed, InvalidRecord
    <2> QED
      BY <1>1, <1>5, <1>8, <2>1
         DEF ConsumeMalformed, InvalidRecord, sequenceVars, CleanInv, CleanVerdictComplete
  <1>9. CASE ConsumeUnsupportedABI
    BY <1>1, <1>5, <1>9
       DEF ConsumeUnsupportedABI, integrityVars, CleanInv, CleanVerdictComplete, Reading
  <1>10. CASE EndRun \/ FinishDrain
    <2>1. /\ UNCHANGED <<producerVars, integrityVars, statSeq, statCount, seen, rejected>>
          /\ phase \in Reading /\ phase' # "finished"
      BY <1>10
         DEF EndRun, StartDrain, AbortRun, IntentionalStop, FinishDrain, Reading
    <2>2. Numbered' /\ (Accounting => Accounting')
      BY <1>1, <1>2, <2>1 DEF producerVars, integrityVars
    <2> QED
      BY <2>1, <2>2 DEF integrityVars, CleanInv, CleanVerdictComplete, Reading
  <1>11. ASSUME NEW c \in CPUs, ReadCPUStats(c)
         PROVE  CleanInv'
    <2>1. \A d \in CPUs : statSeq'[d] = statCount'[d] /\ statCount'[d] <= MaxAttempts
      BY <1>11 DEF ReadCPUStats, CleanInv, Numbered, TypeOK
    <2> QED
      BY <1>1, <1>2, <1>11, <2>1
         DEF ReadCPUStats, producerVars, integrityVars, CleanInv, CleanVerdictComplete
  <1>12. CASE Finish
    <2>1. tainted => tainted'
      BY <1>12 DEF Finish, Finalize, Taint
    <2>2. CleanVerdictComplete'
      BY <1>12, FinishIsComplete DEF Finish, CleanVerdictComplete, Unseen
    <2> QED
      BY <1>1, <1>2, <1>12, <2>1, <2>2
         DEF Finish, Finalize, sequenceVars, producerVars, CleanInv
  <1>13. CASE FinishWithoutStats
    <2>1. tainted'
      BY <1>13, TaintSound DEF FinishWithoutStats, FinalizeWithoutStats
    <2> QED
      BY <1>1, <1>2, <1>13, <2>1
         DEF FinishWithoutStats, FinalizeWithoutStats, sequenceVars, producerVars, CleanInv,
             CleanVerdictComplete
  <1>14. CASE AbandonUnconfirmedSequenceGaps
    BY <1>2, <1>14
       DEF AbandonUnconfirmedSequenceGaps, AbandonGroup, producerVars, integrityVars,
           CleanInv, CleanVerdictComplete
  <1>15. CASE UNCHANGED vars
    BY <1>1, <1>2, <1>3, <1>15
       DEF vars, producerVars, integrityVars, sessionVars, CleanInv
  <1> QED
    BY <1>4, <1>6, <1>7, <1>8, <1>9, <1>10, <1>11, <1>12, <1>13, <1>14, <1>15
       DEF Next, Consume, FinishStep

\* For every number of CPUs, producers, losses and ring slots: when Finish
\* reports an untainted session, the domain state has seen every attempt the
\* statistics count, no record was rejected and no counter shows a loss.
THEOREM CleanVerdict ==
  ASSUME NoWrap
  PROVE  Spec => []CleanVerdictComplete
  <1>1. TypeOK /\ CleanInv /\ [Next]_vars => CleanInv'
    BY CleanStep
  <1>2. CleanInv => CleanVerdictComplete
    BY DEF CleanInv
  <1> QED
    BY <1>1, <1>2, CleanInit, TypeCorrect, PTL DEF Spec
=============================================================================
