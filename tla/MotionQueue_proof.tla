-------------------------- MODULE MotionQueue_proof --------------------------
(***************************************************************************)
(* The ring buffer of module MotionQueue implements the first-in first-out *)
(* queue of module SegmentQueue, for every size of the ring.               *)
(***************************************************************************)
EXTENDS MotionQueue, SequenceTheorems, TLAPS

\* The arithmetic of the ring without the modulus.
LEMMA SlotFacts ==
  ASSUME NEW i \in Slots, NEW k \in 0..SEGMENT_QUEUE_SIZE
  PROVE  /\ Slot(i, k) \in Slots
         /\ Slot(i, k) = IF i + k < SEGMENT_QUEUE_SIZE THEN i + k
                         ELSE i + k - SEGMENT_QUEUE_SIZE
<1>1. i + k \in 0..(2 * SEGMENT_QUEUE_SIZE - 1)
  BY SizeAssumption DEF Slots
<1>2. (i + k) % SEGMENT_QUEUE_SIZE = IF i + k < SEGMENT_QUEUE_SIZE THEN i + k
                                     ELSE i + k - SEGMENT_QUEUE_SIZE
  <2>1. CASE i + k < SEGMENT_QUEUE_SIZE
    BY <1>1, <2>1, SizeAssumption DEF Slots
  <2>2. CASE i + k >= SEGMENT_QUEUE_SIZE
    BY <1>1, <2>2, SizeAssumption DEF Slots
  <2> QED BY <2>1, <2>2, SizeAssumption DEF Slots
<1>3. Slot(i, k) = IF i + k < SEGMENT_QUEUE_SIZE THEN i + k
                   ELSE i + k - SEGMENT_QUEUE_SIZE
  BY <1>2 DEF Slot
<1> QED BY <1>3, SizeAssumption DEF Slots

\* Stepping on by one is the slot after.
LEMMA SlotNext ==
  ASSUME NEW i \in Slots, NEW k \in 0..(SEGMENT_QUEUE_SIZE - 1)
  PROVE  /\ Slot(Slot(i, 1), k) = Slot(i, k + 1)
         /\ Slot(Slot(i, k), 1) = Slot(i, k + 1)
<1>1. 1 \in 0..SEGMENT_QUEUE_SIZE /\ k \in 0..SEGMENT_QUEUE_SIZE
      /\ k + 1 \in 0..SEGMENT_QUEUE_SIZE
  BY SizeAssumption
<1>2. /\ Slot(i, 1) \in Slots
      /\ Slot(i, 1) = IF i + 1 < SEGMENT_QUEUE_SIZE THEN i + 1 ELSE i + 1 - SEGMENT_QUEUE_SIZE
  BY <1>1, SlotFacts
<1>3. /\ Slot(i, k) \in Slots
      /\ Slot(i, k) = IF i + k < SEGMENT_QUEUE_SIZE THEN i + k ELSE i + k - SEGMENT_QUEUE_SIZE
  BY <1>1, SlotFacts
<1>4. Slot(i, k + 1) = IF i + (k + 1) < SEGMENT_QUEUE_SIZE THEN i + (k + 1)
                       ELSE i + (k + 1) - SEGMENT_QUEUE_SIZE
  BY <1>1, SlotFacts
<1>5. Slot(Slot(i, 1), k) = IF Slot(i, 1) + k < SEGMENT_QUEUE_SIZE THEN Slot(i, 1) + k
                            ELSE Slot(i, 1) + k - SEGMENT_QUEUE_SIZE
  BY <1>1, <1>2, SlotFacts
<1>6. Slot(Slot(i, k), 1) = IF Slot(i, k) + 1 < SEGMENT_QUEUE_SIZE THEN Slot(i, k) + 1
                            ELSE Slot(i, k) + 1 - SEGMENT_QUEUE_SIZE
  BY <1>1, <1>3, SlotFacts
<1> QED BY <1>2, <1>3, <1>4, <1>5, <1>6, SizeAssumption DEF Slots

\* Different distances below a lap are different slots.
LEMMA SlotInjective ==
  ASSUME NEW i \in Slots, NEW j \in 0..(SEGMENT_QUEUE_SIZE - 1),
         NEW k \in 0..(SEGMENT_QUEUE_SIZE - 1), j # k
  PROVE  Slot(i, j) # Slot(i, k)
<1>1. j \in 0..SEGMENT_QUEUE_SIZE /\ k \in 0..SEGMENT_QUEUE_SIZE
  BY SizeAssumption
<1>2. Slot(i, j) = IF i + j < SEGMENT_QUEUE_SIZE THEN i + j ELSE i + j - SEGMENT_QUEUE_SIZE
  BY <1>1, SlotFacts
<1>3. Slot(i, k) = IF i + k < SEGMENT_QUEUE_SIZE THEN i + k ELSE i + k - SEGMENT_QUEUE_SIZE
  BY <1>1, SlotFacts
<1> QED BY <1>2, <1>3, SizeAssumption DEF Slots

-----------------------------------------------------------------------------
\* The inductive invariant.
IInv == TypeOK /\ RingConsistent

LEMMA InitInv == Init => IInv
<1> SUFFICES ASSUME Init PROVE IInv
  OBVIOUS
<1>1. 0 \in Slots /\ 0 \in 0..SEGMENT_QUEUE_SIZE
  BY SizeAssumption DEF Slots
<1>2. Slot(0, 0) = 0
  BY <1>1, SlotFacts, SizeAssumption
<1>3. TypeOK
  BY <1>1 DEF Init, TypeOK
<1>4. motion_queue_tail = Slot(motion_queue_head, motion_queue_count)
  BY <1>2 DEF Init
<1>5. \A k \in 0..(SEGMENT_QUEUE_SIZE - 1) : ~(k < motion_queue_count)
  BY SizeAssumption DEF Init
<1> QED BY <1>3, <1>4, <1>5 DEF IInv, RingConsistent

\* A segment goes behind the last one.
LEMMA QueueInv ==
  ASSUME IInv, NEW s \in Segments, Motion_QueueSegment(s)
  PROVE  IInv'
<1> USE DEF IInv, Motion_QueueSegment
<1> DEFINE h == motion_queue_head
           n == motion_queue_count
<1>1. /\ h \in Slots /\ n \in 0..(SEGMENT_QUEUE_SIZE - 1)
      /\ n \in 0..SEGMENT_QUEUE_SIZE /\ 1 \in 0..SEGMENT_QUEUE_SIZE
      /\ motion_queue_tail \in Slots /\ motion_queue_tail = Slot(h, n)
  BY SizeAssumption DEF TypeOK, RingConsistent
<1>2. motion_queue_tail' = Slot(motion_queue_tail, 1)
  BY DEF Slot
<1>3. motion_queue_tail' = Slot(h, n + 1) /\ motion_queue_tail' \in Slots
  BY <1>1, <1>2, SlotNext, SlotFacts
<1>4. TypeOK'
  BY <1>1, <1>3, SizeAssumption DEF TypeOK
<1>5. ASSUME NEW k \in 0..(SEGMENT_QUEUE_SIZE - 1), k < n + 1
      PROVE  motion_queue'[Slot(h, k)] \in Segments
  <2>1. Slot(h, k) \in Slots
    BY <1>1, SlotFacts, SizeAssumption
  <2>2. CASE k = n
    BY <1>1, <2>1, <2>2 DEF TypeOK
  <2>3. CASE k # n
    <3>1. Slot(h, k) # motion_queue_tail
      BY <1>1, <2>3, SlotInjective
    <3>2. motion_queue[Slot(h, k)] \in Segments
      BY <1>1, <1>5, <2>3 DEF RingConsistent
    <3> QED BY <2>1, <3>1, <3>2 DEF TypeOK
  <2> QED BY <2>2, <2>3
<1>6. motion_queue_head' = h /\ motion_queue_count' = n + 1
  OBVIOUS
<1>7. RingConsistent'
  BY <1>3, <1>5, <1>6 DEF RingConsistent, Slot
<1> QED BY <1>4, <1>7

\* The head moves on to the next segment.
LEMMA ProcessInv == ASSUME IInv, Motion_ProcessQueue PROVE IInv'
<1> USE DEF IInv, Motion_ProcessQueue
<1> DEFINE h == motion_queue_head
           n == motion_queue_count
<1>1. /\ h \in Slots /\ n \in 1..SEGMENT_QUEUE_SIZE /\ n - 1 \in 0..(SEGMENT_QUEUE_SIZE - 1)
      /\ 0 \in 0..SEGMENT_QUEUE_SIZE /\ 1 \in 0..SEGMENT_QUEUE_SIZE
      /\ 0 \in 0..(SEGMENT_QUEUE_SIZE - 1)
  BY SizeAssumption DEF TypeOK
<1>2. motion_queue_head' = Slot(h, 1)
  BY DEF Slot
<1>3. motion_queue_head' \in Slots
  BY <1>1, <1>2, SlotFacts
<1>4. Slot(h, 0) = h
  BY <1>1, SlotFacts, SizeAssumption DEF Slots
<1>5. motion_queue[h] \in Segments
  BY <1>1, <1>4 DEF RingConsistent
<1>6. TypeOK'
  BY <1>1, <1>3, <1>5, SizeAssumption DEF TypeOK
<1>7. Slot(motion_queue_head', n - 1) = Slot(h, n)
  BY <1>1, <1>2, SlotNext
<1>8. ASSUME NEW k \in 0..(SEGMENT_QUEUE_SIZE - 1), k < n - 1
      PROVE  motion_queue[Slot(motion_queue_head', k)] \in Segments
  <2>1. k + 1 \in 0..(SEGMENT_QUEUE_SIZE - 1) /\ k + 1 < n
    BY <1>1, <1>8, SizeAssumption
  <2> QED BY <1>1, <1>2, <2>1, SlotNext DEF RingConsistent
<1>9. motion_queue_count' = n - 1 /\ motion_queue_tail' = Slot(h, n) /\ motion_queue' = motion_queue
  BY DEF RingConsistent
<1>10. RingConsistent'
  BY <1>7, <1>8, <1>9 DEF RingConsistent, Slot
<1> QED BY <1>6, <1>10

LEMMA FlushInv == ASSUME IInv, Motion_FlushQueue PROVE IInv'
<1>1. 0 \in Slots /\ 0 \in 0..SEGMENT_QUEUE_SIZE
  BY SizeAssumption DEF Slots
<1>2. Slot(0, 0) = 0
  BY <1>1, SlotFacts, SizeAssumption
<1>3. TypeOK'
  BY <1>1 DEF IInv, TypeOK, Motion_FlushQueue
<1>4. motion_queue_tail' = Slot(motion_queue_head', motion_queue_count')
  BY <1>2 DEF Motion_FlushQueue
<1>5. \A k \in 0..(SEGMENT_QUEUE_SIZE - 1) : ~(k < motion_queue_count')
  BY SizeAssumption DEF Motion_FlushQueue
<1> QED BY <1>3, <1>4, <1>5 DEF IInv, RingConsistent, Slot

LEMMA NextInv == IInv /\ [Next]_vars => IInv'
<1> SUFFICES ASSUME IInv, [Next]_vars PROVE IInv'
  OBVIOUS
<1>1. ASSUME NEW s \in Segments, Motion_QueueSegment(s) PROVE IInv'
  BY <1>1, QueueInv
<1>2. CASE Motion_FlushQueue
  BY <1>2, FlushInv
<1>3. CASE Motion_Pause \/ Motion_Resume
  BY <1>3 DEF Motion_Pause, Motion_Resume, IInv, TypeOK, RingConsistent, Slot
<1>4. CASE Motion_ProcessQueue
  BY <1>4, ProcessInv
<1>5. CASE UNCHANGED vars
  BY <1>5 DEF vars, IInv, TypeOK, RingConsistent, Slot
<1> QED BY <1>1, <1>2, <1>3, <1>4, <1>5 DEF Next

\* The indices agree and the slots between head and tail hold segments
\* (motion_api.c:636-735), for every size of the ring.
THEOREM Consistent == Spec => [](TypeOK /\ RingConsistent)
<1>1. Spec => []IInv
  BY InitInv, NextInv, PTL DEF Spec
<1> QED BY <1>1, PTL DEF IInv

\* The indices stay within the ring and no slot ever holds anything but a segment
\* (motion_api.c:636-735).
THEOREM TypeCorrect == Spec => []TypeOK
BY Consistent, PTL

-----------------------------------------------------------------------------
\* The segments waiting, as a sequence.
LEMMA ContentsSeq ==
  ASSUME IInv
  PROVE  /\ Contents \in Seq(Segments)
         /\ Len(Contents) = motion_queue_count
         /\ \A k \in 1..motion_queue_count :
              Contents[k] = motion_queue[Slot(motion_queue_head, k - 1)]
<1>1. motion_queue_count \in Nat
  BY SizeAssumption DEF IInv, TypeOK
<1>2. \A k \in 1..motion_queue_count : motion_queue[Slot(motion_queue_head, k - 1)] \in Segments
  <2> SUFFICES ASSUME NEW k \in 1..motion_queue_count
               PROVE  motion_queue[Slot(motion_queue_head, k - 1)] \in Segments
    OBVIOUS
  <2>1. k - 1 \in 0..(SEGMENT_QUEUE_SIZE - 1) /\ k - 1 < motion_queue_count
    BY <1>1, SizeAssumption DEF IInv, TypeOK
  <2> QED BY <2>1 DEF IInv, RingConsistent
<1>3. Contents \in [1..motion_queue_count -> Segments]
  BY <1>2 DEF Contents
<1>4. Contents \in Seq(Segments)
  BY <1>1, <1>3, SeqDef
<1>5. Len(Contents) = motion_queue_count
  BY <1>1, <1>3, <1>4, LenProperties
<1> QED BY <1>4, <1>5 DEF Contents

LEMMA ContentsEmpty == ASSUME IInv PROVE Contents = <<>> <=> motion_queue_count = 0
<1>1. Contents \in Seq(Segments) /\ Len(Contents) = motion_queue_count
  BY ContentsSeq
<1> QED BY <1>1, EmptySeq

\* Contents of the next state, without the definitions it is made of.
LEMMA ContentsSeqPrime ==
  ASSUME IInv'
  PROVE  /\ Contents' \in Seq(Segments)
         /\ Len(Contents') = motion_queue_count'
         /\ \A k \in 1..motion_queue_count' :
              Contents'[k] = motion_queue'[Slot(motion_queue_head', k - 1)]
<1>1. motion_queue_count' \in Nat
  BY SizeAssumption DEF IInv, TypeOK
<1>2. \A k \in 1..motion_queue_count' : motion_queue'[Slot(motion_queue_head', k - 1)] \in Segments
  <2> SUFFICES ASSUME NEW k \in 1..motion_queue_count'
               PROVE  motion_queue'[Slot(motion_queue_head', k - 1)] \in Segments
    OBVIOUS
  <2>1. k - 1 \in 0..(SEGMENT_QUEUE_SIZE - 1) /\ k - 1 < motion_queue_count'
    BY <1>1, SizeAssumption DEF IInv, TypeOK
  <2> QED BY <2>1 DEF IInv, RingConsistent, Slot
<1>3. Contents' = [k \in 1..motion_queue_count' |-> motion_queue'[Slot(motion_queue_head', k - 1)]]
  BY DEF Contents, Slot
<1>4. Contents' \in [1..motion_queue_count' -> Segments]
  BY <1>2, <1>3
<1>5. Contents' \in Seq(Segments)
  BY <1>1, <1>4, SeqDef
<1>6. Len(Contents') = motion_queue_count'
  BY <1>1, <1>4, <1>5, LenProperties
<1> QED BY <1>3, <1>5, <1>6

\* An accepted segment is appended.
LEMMA PutStep ==
  ASSUME IInv, IInv', NEW s \in Segments, Motion_QueueSegment(s)
  PROVE  Q!Put(s)
<1> DEFINE h == motion_queue_head
           n == motion_queue_count
<1>1. /\ n \in 0..(SEGMENT_QUEUE_SIZE - 1) /\ n \in Nat /\ h \in Slots
      /\ motion_queue \in [Slots -> Segments \cup {NoSegment}]
      /\ motion_queue_tail = Slot(h, n) /\ motion_queue_tail \in Slots
  BY SizeAssumption DEF IInv, TypeOK, RingConsistent, Motion_QueueSegment
<1>2. /\ Contents \in Seq(Segments) /\ Len(Contents) = n
      /\ \A k \in 1..n : Contents[k] = motion_queue[Slot(h, k - 1)]
  BY ContentsSeq
<1>3. motion_queue_head' = h /\ motion_queue_count' = n + 1
  BY DEF Motion_QueueSegment
<1>4. /\ Contents' \in Seq(Segments) /\ Len(Contents') = n + 1
      /\ \A k \in 1..(n + 1) : Contents'[k] = motion_queue'[Slot(h, k - 1)]
  BY <1>3, ContentsSeqPrime
<1>5. /\ Append(Contents, s) \in Seq(Segments)
      /\ Len(Append(Contents, s)) = n + 1
      /\ \A k \in 1..n : Append(Contents, s)[k] = Contents[k]
      /\ Append(Contents, s)[n + 1] = s
  BY <1>2, AppendProperties
<1>6. ASSUME NEW k \in 1..(n + 1)
      PROVE  Contents'[k] = Append(Contents, s)[k]
  <2>1. CASE k = n + 1
    <3>1. motion_queue'[Slot(h, n)] = s
      BY <1>1 DEF Motion_QueueSegment
    <3>2. k - 1 = n
      BY <2>1, <1>1
    <3> QED BY <1>4, <1>5, <2>1, <3>1, <3>2
  <2>2. CASE k # n + 1
    <3>1. k \in 1..n /\ k - 1 \in 0..(SEGMENT_QUEUE_SIZE - 1) /\ k - 1 # n
      BY <1>1, <2>2, SizeAssumption
    <3>2. Slot(h, k - 1) # Slot(h, n)
      BY <1>1, <3>1, SlotInjective
    <3>3. motion_queue'[Slot(h, k - 1)] = motion_queue[Slot(h, k - 1)]
      BY <1>1, <3>2 DEF Motion_QueueSegment
    <3> QED BY <1>2, <1>4, <1>5, <3>1, <3>3
  <2> QED BY <2>1, <2>2
<1>7. Contents' = Append(Contents, s)
  <2> HIDE DEF n
  <2>1. Len(Contents') = Len(Append(Contents, s))
    BY <1>4, <1>5
  <2>2. \A i \in 1..Len(Contents') : Contents'[i] = Append(Contents, s)[i]
    BY <1>4, <1>6
  <2> QED BY <1>4, <1>5, <2>1, <2>2, SeqEqual
<1> QED BY <1>1, <1>2, <1>7, SizeAssumption DEF Q!Put, Motion_QueueSegment

\* What is dispatched is the head, and the rest is the tail.
LEMMA TakeStep ==
  ASSUME IInv, IInv', Motion_ProcessQueue
  PROVE  taken' \in Segments /\ Q!Take(taken')
<1> DEFINE h == motion_queue_head
           n == motion_queue_count
<1>1. /\ n \in 1..SEGMENT_QUEUE_SIZE /\ n \in Nat /\ n - 1 \in Nat /\ h \in Slots
      /\ 0 \in 0..SEGMENT_QUEUE_SIZE /\ 1 \in 0..SEGMENT_QUEUE_SIZE
  BY SizeAssumption DEF IInv, TypeOK, Motion_ProcessQueue
<1>2. /\ Contents \in Seq(Segments) /\ Len(Contents) = n
      /\ \A k \in 1..n : Contents[k] = motion_queue[Slot(h, k - 1)]
  BY ContentsSeq
<1>3. /\ motion_queue_head' = Slot(h, 1) /\ motion_queue_count' = n - 1
      /\ motion_queue' = motion_queue /\ taken' = motion_queue[h]
  BY DEF Motion_ProcessQueue, Slot
<1>4. /\ Contents' \in Seq(Segments) /\ Len(Contents') = n - 1
      /\ \A k \in 1..(n - 1) : Contents'[k] = motion_queue[Slot(Slot(h, 1), k - 1)]
  BY <1>3, ContentsSeqPrime
<1>5. Contents # <<>>
  BY <1>1, ContentsEmpty
<1>6. /\ Head(Contents) \in Segments /\ Tail(Contents) \in Seq(Segments)
      /\ Len(Tail(Contents)) = n - 1
      /\ \A k \in 1..(n - 1) : Tail(Contents)[k] = Contents[k + 1]
  BY <1>2, <1>5, HeadTailProperties
<1>7. Slot(h, 0) = h
  BY <1>1, SlotFacts, SizeAssumption DEF Slots
<1>8. Head(Contents) = taken'
  <2>1. Head(Contents) = Contents[1]
    BY <1>2, <1>5
  <2>2. Contents[1] = motion_queue[Slot(h, 0)]
    BY <1>1, <1>2
  <2> QED BY <1>3, <1>7, <2>1, <2>2
<1>9. ASSUME NEW k \in 1..(n - 1)
      PROVE  Contents'[k] = Tail(Contents)[k]
  <2>1. /\ k + 1 \in 1..n /\ k - 1 \in 0..(SEGMENT_QUEUE_SIZE - 1)
        /\ (k + 1) - 1 = k /\ (k - 1) + 1 = k
    BY <1>1, SizeAssumption
  <2>2. Slot(Slot(h, 1), k - 1) = Slot(h, k)
    BY <1>1, <2>1, SlotNext
  <2>3. Contents[k + 1] = motion_queue[Slot(h, k)]
    BY <1>2, <2>1
  <2> QED BY <1>4, <1>6, <2>2, <2>3
<1>10. Contents' = Tail(Contents)
  <2> HIDE DEF n
  <2>1. Len(Contents') = Len(Tail(Contents))
    BY <1>4, <1>6
  <2>2. \A i \in 1..Len(Contents') : Contents'[i] = Tail(Contents)[i]
    BY <1>4, <1>9
  <2> QED BY <1>4, <1>6, <2>1, <2>2, SeqEqual
<1> QED BY <1>5, <1>6, <1>8, <1>10 DEF Q!Take, Motion_ProcessQueue

\* Every step of the ring is a step of the queue, or leaves it alone.
LEMMA NextSimulates == IInv /\ IInv' /\ [Next]_vars => [Q!QueueNext]_(Q!qvars)
<1> SUFFICES ASSUME IInv, IInv', [Next]_vars PROVE [Q!QueueNext]_(Q!qvars)
  OBVIOUS
<1> USE DEF Q!QueueNext
<1>1. ASSUME NEW s \in Segments, Motion_QueueSegment(s) PROVE Q!QueueNext
  BY <1>1, PutStep
<1>2. CASE Motion_FlushQueue
  <2>1. Contents' = <<>>
    BY <1>2, ContentsSeqPrime, EmptySeq DEF Motion_FlushQueue
  <2> QED BY <1>2, <2>1 DEF Q!Flush, Motion_FlushQueue
<1>3. CASE Motion_Pause
  <2>1. Contents' = Contents
    BY <1>3 DEF Motion_Pause, Contents, Slot
  <2> QED BY <1>3, <2>1 DEF Q!Pause, Motion_Pause
<1>4. CASE Motion_Resume
  <2>1. Contents' = Contents
    BY <1>4 DEF Motion_Resume, Contents, Slot
  <2> QED BY <1>4, <2>1 DEF Q!Resume, Motion_Resume
<1>5. CASE Motion_ProcessQueue
  BY <1>5, TakeStep
<1>6. CASE UNCHANGED vars
  <2>1. Contents' = Contents
    BY <1>6 DEF vars, Contents, Slot
  <2> QED BY <1>6, <2>1 DEF vars, Q!qvars
<1> QED BY <1>1, <1>2, <1>3, <1>4, <1>5, <1>6 DEF Next

\* The ring buffer keeps the promise of the queue (motion_api.c:636-735): what
\* was accepted comes out once, in order, whatever the size of the ring.
THEOREM Refines == Spec => Implements
<1>1. Init => Q!QueueInit
  <2> SUFFICES ASSUME Init PROVE Q!QueueInit
    OBVIOUS
  <2>1. IInv
    BY InitInv
  <2>2. Contents = <<>>
    BY <2>1, ContentsEmpty DEF Init
  <2> QED BY <2>2 DEF Init, Q!QueueInit
<1>2. Spec => []IInv
  BY InitInv, NextInv, PTL DEF Spec
<1> QED BY <1>1, <1>2, NextSimulates, PTL DEF Spec, Implements, Q!QueueSpec

\* What Interp_Line is handed is always the oldest segment waiting
\* (motion_api.c:712-735).
THEOREM Oldest == Spec => TakesOldest
<1>1. Spec => []IInv
  BY InitInv, NextInv, PTL DEF Spec
<1>2. IInv /\ IInv' => [Motion_ProcessQueue => Q!Take(taken')]_vars
  BY TakeStep
<1> QED BY <1>1, <1>2, PTL DEF TakesOldest
=============================================================================
