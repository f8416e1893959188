----------------------------- MODULE SegmentQueue -----------------------------
(***************************************************************************)
(* What the motion queue of User/Src/motion_api.c promises its users: the  *)
(* segments that were accepted come out once each, in the order they were  *)
(* queued, never more than Capacity of them wait, none comes out while the *)
(* queue is paused, and a flush forgets them all.                          *)
(***************************************************************************)
EXTENDS Naturals, Sequences

CONSTANTS Segments,  \* the line segments that can be queued
          Capacity   \* SEGMENT_QUEUE_SIZE

VARIABLES queue, paused

qvars == <<queue, paused>>

QueueInit == queue = <<>> /\ paused = FALSE

\* Motion_QueueSegment: 1 when there is room.
Put(s) ==
  /\ Len(queue) < Capacity
  /\ queue' = Append(queue, s)
  /\ UNCHANGED paused

\* Motion_FlushQueue also ends the pause.
Flush == queue' = <<>> /\ paused' = FALSE

Pause == paused' = TRUE /\ UNCHANGED queue

Resume == paused' = FALSE /\ UNCHANGED queue

\* Motion_ProcessQueue dispatches the oldest segment.
Take(s) ==
  /\ ~paused /\ queue # <<>>
  /\ s = Head(queue) /\ queue' = Tail(queue)
  /\ UNCHANGED paused

QueueNext ==
  \/ \E s \in Segments : Put(s) \/ Take(s)
  \/ Flush \/ Pause \/ Resume

QueueSpec == QueueInit /\ [][QueueNext]_qvars
=============================================================================
