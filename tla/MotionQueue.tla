----------------------------- MODULE MotionQueue -----------------------------
(***************************************************************************)
(* The motion queue of User/Src/motion_api.c as it is implemented: a ring  *)
(* of SEGMENT_QUEUE_SIZE slots with a head, a tail and a count.  The       *)
(* motions that gate a dispatch are left open; module LineMotion has them. *)
(***************************************************************************)
EXTENDS Integers, Sequences

CONSTANTS Segments,            \* the line segments that can be queued
          NoSegment,           \* the content of a slot never written
          SEGMENT_QUEUE_SIZE

VARIABLES motion_queue, motion_queue_head, motion_queue_tail,
          motion_queue_count, motion_paused,
          taken  \* the segment the last step handed to Interp_Line, if any

vars == <<motion_queue, motion_queue_head, motion_queue_tail,
          motion_queue_count, motion_paused, taken>>

ASSUME SizeAssumption == SEGMENT_QUEUE_SIZE \in Nat \ {0}
ASSUME SegmentAssumption == NoSegment \notin Segments

Slots == 0..(SEGMENT_QUEUE_SIZE - 1)

Init ==
  /\ motion_queue = [i \in Slots |-> NoSegment]
  /\ motion_queue_head = 0 /\ motion_queue_tail = 0 /\ motion_queue_count = 0
  /\ motion_paused = FALSE /\ taken = NoSegment

\* A full queue refuses the segment and nothing changes.
Motion_QueueSegment(s) ==
  /\ motion_queue_count < SEGMENT_QUEUE_SIZE
  /\ motion_queue' = [motion_queue EXCEPT ![motion_queue_tail] = s]
  /\ motion_queue_tail' = (motion_queue_tail + 1) % SEGMENT_QUEUE_SIZE
  /\ motion_queue_count' = motion_queue_count + 1
  /\ taken' = NoSegment
  /\ UNCHANGED <<motion_queue_head, motion_paused>>

\* Mutant of Motion_FlushQueue: only the count is reset.
FlushCountOnly ==
  /\ motion_queue_count' = 0 /\ motion_queue_head' = 0
  /\ motion_paused' = FALSE /\ taken' = NoSegment
  /\ UNCHANGED <<motion_queue, motion_queue_tail>>

\* The slots keep their old segments.
Motion_FlushQueue ==
  /\ motion_queue_head' = 0 /\ motion_queue_tail' = 0 /\ motion_queue_count' = 0
  /\ motion_paused' = FALSE /\ taken' = NoSegment
  /\ UNCHANGED motion_queue

Motion_Pause ==
  /\ motion_paused' = TRUE /\ taken' = NoSegment
  /\ UNCHANGED <<motion_queue, motion_queue_head, motion_queue_tail, motion_queue_count>>

Motion_Resume ==
  /\ motion_paused' = FALSE /\ taken' = NoSegment
  /\ UNCHANGED <<motion_queue, motion_queue_head, motion_queue_tail, motion_queue_count>>

\* Mutant of Motion_ProcessQueue: the head moves before the segment is read.
ProcessAfterAdvance ==
  /\ ~motion_paused /\ motion_queue_count # 0
  /\ taken' = motion_queue[(motion_queue_head + 1) % SEGMENT_QUEUE_SIZE]
  /\ motion_queue_head' = (motion_queue_head + 1) % SEGMENT_QUEUE_SIZE
  /\ motion_queue_count' = motion_queue_count - 1
  /\ UNCHANGED <<motion_queue, motion_queue_tail, motion_paused>>

\* Every axis is done and no arc runs: the oldest segment is handed over,
\* whatever Interp_Line answers.
Motion_ProcessQueue ==
  /\ ~motion_paused /\ motion_queue_count # 0
  /\ taken' = motion_queue[motion_queue_head]
  /\ motion_queue_head' = (motion_queue_head + 1) % SEGMENT_QUEUE_SIZE
  /\ motion_queue_count' = motion_queue_count - 1
  /\ UNCHANGED <<motion_queue, motion_queue_tail, motion_paused>>

Next ==
  \/ \E s \in Segments : Motion_QueueSegment(s)
  \/ Motion_FlushQueue \/ Motion_Pause \/ Motion_Resume
  \/ Motion_ProcessQueue

Spec == Init /\ [][Next]_vars
-----------------------------------------------------------------------------
TypeOK ==
  /\ motion_queue \in [Slots -> Segments \cup {NoSegment}]
  /\ motion_queue_head \in Slots /\ motion_queue_tail \in Slots
  /\ motion_queue_count \in 0..SEGMENT_QUEUE_SIZE
  /\ motion_paused \in BOOLEAN
  /\ taken \in Segments \cup {NoSegment}

\* The slot k places after slot i.
Slot(i, k) == (i + k) % SEGMENT_QUEUE_SIZE

\* The segments waiting, oldest first.
Contents ==
  [k \in 1..motion_queue_count |-> motion_queue[Slot(motion_queue_head, k - 1)]]

\* The ring never hands out a slot that was not filled since it was last
\* emptied, nor one that a flush has left behind: head, tail and count agree
\* and the slots between head and tail hold segments.
RingConsistent ==
  /\ motion_queue_tail = Slot(motion_queue_head, motion_queue_count)
  /\ \A k \in 0..(SEGMENT_QUEUE_SIZE - 1) :
       k < motion_queue_count => motion_queue[Slot(motion_queue_head, k)] \in Segments

\* The ring implements the queue of module SegmentQueue, across wrap-around,
\* a full ring and flushes (motion_api.c:636-735).
Q == INSTANCE SegmentQueue WITH Capacity <- SEGMENT_QUEUE_SIZE,
       queue <- Contents, paused <- motion_paused

Implements == Q!QueueSpec

\* What Interp_Line is handed is the oldest segment waiting.
TakesOldest == [][Motion_ProcessQueue => Q!Take(taken')]_vars
=============================================================================
