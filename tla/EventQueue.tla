----------------------------- MODULE EventQueue -----------------------------
(***************************************************************************)
(* The event queue of an endpoint (pkg/eventqueue/eventqueue.go): a        *)
(* buffered channel that one goroutine serves. Enqueue holds a read lock   *)
(* across a send that blocks while the buffer is full; Stop first closes   *)
(* the drain channel, then takes the write lock to close the events        *)
(* channel.                                                                *)
(*                                                                         *)
(* A caller's call is its program counter and the revision its event asks  *)
(* for. An event remembers its caller, for the result it waits for.        *)
(***************************************************************************)
EXTENDS Integers, Sequences

CONSTANTS
    Callers,    \* the goroutines that enqueue events
    Waiting,    \* those that wait for the result of their event
    Capacity    \* the buffer of the events channel

ASSUME CapacityPositive == Capacity \in Nat \ {0}
ASSUME WaitingCall == Waiting \subseteq Callers

VARIABLES
    call,       \* per caller [pc, want]
    queue,      \* the events channel
    drain,      \* the drain channel is closed
    closed      \* the events channel is closed

queueVars == <<call, queue, drain, closed>>

NoCall == [pc |-> "idle", want |-> 0]

QueueInit ==
    /\ call = [c \in Callers |-> NoCall]
    /\ queue = <<>>
    /\ drain = FALSE
    /\ closed = FALSE

Sent(c) == [call EXCEPT ![c] = IF c \in Waiting THEN [@ EXCEPT !.pc = "wait"] ELSE NoCall]

\* Enqueue takes the read lock. A queue that drains cancels the event at once;
\* otherwise it is sent, and a full buffer blocks the caller with the lock held.
Enqueue(c) ==
    /\ call[c].pc = "enqueue"
    /\ \/ /\ drain
          /\ call' = [call EXCEPT ![c] = NoCall]
          /\ UNCHANGED queue
       \/ /\ ~drain /\ Len(queue) < Capacity
          /\ queue' = Append(queue, [by |-> c, want |-> call[c].want])
          /\ call' = Sent(c)
       \/ /\ ~drain /\ Len(queue) = Capacity
          /\ call' = [call EXCEPT ![c].pc = "send"]
          /\ UNCHANGED queue
    /\ UNCHANGED <<drain, closed>>

\* The blocked send completes.
SendUnbounded(c) ==
    /\ call[c].pc = "send"
    /\ queue' = Append(queue, [by |-> c, want |-> call[c].want])
    /\ call' = Sent(c)
    /\ UNCHANGED <<drain, closed>>
Send(c) ==
    /\ call[c].pc = "send" /\ Len(queue) < Capacity
    /\ queue' = Append(queue, [by |-> c, want |-> call[c].want])
    /\ call' = Sent(c)
    /\ UNCHANGED <<drain, closed>>

\* Stop, first part: events that are not yet handled will be cancelled.
StopDrain ==
    /\ ~drain
    /\ drain' = TRUE
    /\ UNCHANGED <<call, queue, closed>>

\* Stop, second part: the write lock is free when no caller is sending.
StopClose ==
    /\ drain /\ ~closed
    /\ \A c \in Callers : call[c].pc # "send"
    /\ closed' = TRUE
    /\ UNCHANGED <<call, queue, drain>>

\* The result of an event releases the caller that waits for it.
ReturnedHandled(c) == [call EXCEPT ![c] = IF @.pc = "wait" /\ ~drain THEN NoCall ELSE @]
Returned(c) == [call EXCEPT ![c] = IF @.pc = "wait" THEN NoCall ELSE @]

=============================================================================
