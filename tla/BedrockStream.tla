--------------------------- MODULE BedrockStream ---------------------------
(***************************************************************************)
(* BedrockConnector.stream_chat_completion: a worker thread drains the      *)
(* blocking event stream into an asyncio.Queue with put_nowait, and the     *)
(* coroutine takes the items out on the event loop's thread.  The queue is  *)
(* not made for that: put_nowait appends the item and then resolves the     *)
(* first registered getter, and get() looks whether the queue is empty and  *)
(* then registers its getter, with nothing to keep the two threads apart.   *)
(* Resolving a getter schedules the coroutine with call_soon, which does    *)
(* not wake a loop that sleeps in select(); the end of the thread does, by  *)
(* call_soon_threadsafe.                                                   *)
(***************************************************************************)
EXTENDS Integers, Sequences

CONSTANT MaxDeltas   \* bound on the events of one stream

VARIABLES
    queue,      \* the items in the asyncio.Queue: "delta", "end", "error"
    thread,     \* the worker: "read", "wake" between the two halves of a
                \* put_nowait, "returning", or "over"
    closing,    \* the item the worker put last closes the stream
    sent,       \* how many deltas it has put
    reader,     \* the coroutine: "get", "register", "wait", "finally" (with
                \* its reason in why), or "over"
    why,        \* how the stream ends for the caller
    getter,     \* the getter is registered and unresolved
    ready,      \* the coroutine is scheduled by call_soon
    asleep,     \* the event loop is in select()
    got         \* how many deltas the caller has seen

qvars == <<queue, thread, closing, sent, reader, why, getter, ready, asleep, got>>

StreamInit ==
    /\ queue = <<>> /\ thread = "read" /\ closing = FALSE /\ sent = 0
    /\ reader = "get" /\ why = "open" /\ getter = FALSE /\ ready = FALSE
    /\ asleep = FALSE /\ got = 0

(* put_nowait, first half: the item is in the queue.  The stream ends with  *)
(* None, or with an error at any event.                                    *)
PutItem(item) ==
    /\ thread = "read"
    /\ item = "delta" => sent < MaxDeltas
    /\ queue' = Append(queue, item)
    /\ sent' = IF item = "delta" THEN sent + 1 ELSE sent
    /\ closing' = (item # "delta")
    /\ thread' = "wake"
    /\ UNCHANGED <<reader, why, getter, ready, asleep, got>>

(* put_nowait, second half: _wakeup_next resolves the getter, if there is   *)
(* one.                                                                    *)
WakeupNext ==
    /\ thread = "wake"
    /\ getter' = FALSE
    /\ ready' = (ready \/ getter)
    /\ thread' = IF closing THEN "returning" ELSE "read"
    /\ UNCHANGED <<queue, closing, sent, reader, why, asleep, got>>

(* A mutant of ThreadReturns: a thread the loop is not told about. *)
ThreadReturnsUnheard ==
    /\ thread = "returning"
    /\ thread' = "over"
    /\ UNCHANGED <<queue, closing, sent, reader, why, getter, ready, asleep, got>>

(* to_thread completes drain_task, and the loop wakes up for it. *)
ThreadReturns ==
    /\ thread = "returning"
    /\ thread' = "over" /\ asleep' = FALSE
    /\ UNCHANGED <<queue, closing, sent, reader, why, getter, ready, got>>

(* get() finds an item; None breaks the loop, an error is raised. *)
GetItem ==
    /\ ~asleep /\ reader = "get" /\ queue # <<>>
    /\ queue' = Tail(queue)
    /\ IF Head(queue) = "delta"
       THEN got' = got + 1 /\ UNCHANGED <<reader, why>>
       ELSE /\ reader' = "finally"
            /\ why' = IF Head(queue) = "end" THEN "complete" ELSE "error"
            /\ UNCHANGED got
    /\ UNCHANGED <<thread, closing, sent, getter, ready, asleep>>

(* get() finds the queue empty ... *)
FindEmpty ==
    /\ ~asleep /\ reader = "get" /\ queue = <<>>
    /\ reader' = "register"
    /\ UNCHANGED <<queue, thread, closing, sent, why, getter, ready, asleep, got>>

(* ... and registers its getter and awaits it. *)
Register ==
    /\ ~asleep /\ reader = "register"
    /\ reader' = "wait" /\ getter' = TRUE
    /\ UNCHANGED <<queue, thread, closing, sent, why, ready, asleep, got>>

Resume ==
    /\ ~asleep /\ reader = "wait" /\ ready
    /\ reader' = "get" /\ ready' = FALSE
    /\ UNCHANGED <<queue, thread, closing, sent, why, getter, asleep, got>>

(* The request is cancelled while it waits for an item: the getter is       *)
(* withdrawn and the finally clause runs.                                  *)
Cancel ==
    /\ reader = "wait"
    /\ reader' = "finally" /\ why' = "cancelled"
    /\ getter' = FALSE /\ ready' = FALSE /\ asleep' = FALSE
    /\ UNCHANGED <<queue, thread, closing, sent, got>>

(* finally: await drain_task. *)
Finish ==
    /\ ~asleep /\ reader = "finally" /\ thread = "over"
    /\ reader' = "over"
    /\ UNCHANGED <<queue, thread, closing, sent, why, getter, ready, asleep, got>>

(* The loop sleeps when nothing is scheduled, and wakes up for the timers   *)
(* and sockets of other requests, if there are any.                        *)
Sleep ==
    /\ ~asleep
    /\ \/ reader = "wait" /\ ~ready
       \/ reader = "finally" /\ thread # "over"
    /\ asleep' = TRUE
    /\ UNCHANGED <<queue, thread, closing, sent, reader, why, getter, ready, got>>

OthersWake ==
    /\ asleep
    /\ asleep' = FALSE
    /\ UNCHANGED <<queue, thread, closing, sent, reader, why, getter, ready, got>>

Drain == (\E item \in {"delta", "end", "error"} : PutItem(item)) \/ WakeupNext \/ ThreadReturns

Consume == GetItem \/ FindEmpty \/ Register \/ Resume \/ Finish

StreamNext == Drain \/ Consume \/ Cancel \/ Sleep \/ OthersWake
StreamSpec == StreamInit /\ [][StreamNext]_qvars
-----------------------------------------------------------------------------
(* Only the last item of the queue can close the stream. *)
Closed == queue # <<>> /\ queue[Len(queue)] # "delta"

(* The variables have their types, and deltas are neither lost nor repeated *)
(* between the thread and the caller.                                      *)
StreamTypeOK ==
    /\ queue \in Seq({"delta", "end", "error"})
    /\ thread \in {"read", "wake", "returning", "over"}
    /\ reader \in {"get", "register", "wait", "finally", "over"}
    /\ why \in {"open", "complete", "error", "cancelled"}
    /\ {closing, getter, ready, asleep} \subseteq BOOLEAN
    /\ sent \in Nat /\ got \in Nat
    /\ sent = got + Len(queue) - IF Closed THEN 1 ELSE 0

(* A stream that is complete for its caller has delivered every delta the   *)
(* thread has put, although the queue is shared without a lock, and the     *)
(* thread puts no more.                                                    *)
DeliveredWhole ==
    why = "complete" => got = sent /\ queue = <<>> /\ thread # "read"

(* The closing item was put between get()'s two steps: the getter nobody    *)
(* will resolve was registered with the item already in the queue.         *)
WakeupLost == thread = "over" /\ reader = "wait" /\ getter /\ queue # <<>>

(* Once the thread is over, the coroutine waits for an item only if it will *)
(* be resumed or its wakeup was lost, and only then the loop sleeps: the    *)
(* end of the thread wakes the loop for the items no put has woken it for. *)
StuckOnlyIfLost ==
    thread = "over" => /\ reader = "wait" => ready \/ WakeupLost
                       /\ asleep => WakeupLost

(* A stream comes to its end although no put wakes the event loop: for an   *)
(* idle loop the end of the thread does.  Only a wakeup lost between the    *)
(* two steps of get() keeps the request waiting.                           *)
EndsUnlessLost == <>(reader = "over" \/ WakeupLost)

(* What the docstring says: "we drain it in asyncio.to_thread and feed      *)
(* chunks into an async queue for the caller".  The caller is served to the *)
(* end, error or not.                                                      *)
StreamEnds == <>(reader = "over")
============================================================================
