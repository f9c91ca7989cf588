--------------------------- MODULE MeteringBuffer ---------------------------
(***************************************************************************)
(* The batched usage metering of shared/utils/metering.py: one             *)
(* MeteringBuffer per proxy worker process, its background flush task, its *)
(* stop() coroutine, the thread in which PenguinDALUsageWriter writes one  *)
(* aggregate, and the token_usage table that all workers share.            *)
(*                                                                         *)
(* An event is one MeteringEvent.  Its numbers (input and output tokens,   *)
(* request count, tokens saved) are only ever added up, so a table row is  *)
(* abstracted to how many times it counts each event.  An aggregate is the *)
(* set of the events of one (vkey, model, provider, minute) bucket.        *)
(***************************************************************************)
EXTENDS Integers, Sequences, FiniteSets

CONSTANTS
    Workers,         \* proxy processes (hypercorn --workers)
    Events,          \* metering events the requests can record
    Bucket,          \* event -> (vkey, model, provider, minute)
    RowKey,          \* bucket -> (vkey, date), the key of a table row
    MaxPending,      \* max_pending_aggregates
    MaxFaults,       \* bound: how many table writes raise
    AckLoss,         \* may a write raise although it was committed?
    StopMayTimeOut   \* may a flush outlast the 5 seconds stop() waits?

ASSUME MeteringAssumption ==
    /\ Bucket \in [Events -> DOMAIN RowKey]
    /\ MaxPending \in Nat \ {0}
    /\ MaxFaults \in Nat
    /\ AckLoss \in BOOLEAN
    /\ StopMayTimeOut \in BOOLEAN

VARIABLES
    buffer,      \* _buffer: events recorded and not yet swapped out
    pending,     \* _pending: aggregates whose write failed, oldest first
    running,     \* _running
    loop,        \* the background task: none, sleeping, flushing, done
    stopper,     \* the stop() coroutine: none, waiting, flushing, done
    todo,        \* to_write of the flush in progress, from the aggregate at hand on
    failed,      \* failed of the flush in progress
    thread,      \* the thread of the write that the flush awaits
    orphan,      \* a thread left behind by a cancelled flush
    usage,       \* the token_usage table, a sequence of rows
    faults,      \* how many writes have raised
    recorded,    \* history: events passed to record()
    late,        \* history: events recorded once stop() had begun its last flush
    settled,     \* history: events of aggregates whose write returned
    abandoned    \* history: events no structure of the worker holds any more

local == <<buffer, pending, running, loop, stopper, todo, failed>>
vars == <<local, thread, orphan, usage, faults, recorded, late, settled, abandoned>>

----------------------------------------------------------------------------
(* Data *)

Aggregate == (SUBSET Events) \ {{}}
NoCounts == [e \in Events |-> 0]
Row == [key: {RowKey[b] : b \in DOMAIN RowKey}, n: [Events -> Nat]]

(* A write thread: not there, about to select, or between select and update. *)
(* "row" is the id the select found, 0 for none; "seen" what that row held.  *)
NoThread == [at |-> "none", agg |-> {}, row |-> 0, seen |-> NoCounts]
Thread == {NoThread} \cup [at: {"spawned", "selected"}, agg: Aggregate,
                           row: Nat, seen: [Events -> Nat]]

Held(s) == UNION {s[i] : i \in DOMAIN s}

Aggregates(B) == {{e \in B : Bucket[e] = k} : k \in {Bucket[e] : e \in B}}

(* The orders in which the values of a dict with the values S can be listed. *)
Enumerations(S) == {s \in UNION {[1..n -> S] : n \in 0..Cardinality(S)} :
                        /\ \A x \in S : \E i \in DOMAIN s : s[i] = x
                        /\ \A i, j \in DOMAIN s : s[i] = s[j] => i = j}

KeyOf(agg) == RowKey[Bucket[CHOOSE e \in agg : TRUE]]

Plus(counts, agg) == [e \in Events |-> counts[e] + (IF e \in agg THEN 1 ELSE 0)]

(* The row select().first() finds for an aggregate; 0 if there is none. *)
Matches(agg) == {i \in DOMAIN usage : usage[i].key = KeyOf(agg)}
First(agg) == IF Matches(agg) = {} THEN 0
              ELSE CHOOSE i \in Matches(agg) : \A j \in Matches(agg) : i =< j

----------------------------------------------------------------------------
(* Actions *)

Init ==
    /\ buffer = [w \in Workers |-> {}]
    /\ pending = [w \in Workers |-> <<>>]
    /\ running = [w \in Workers |-> FALSE]
    /\ loop = [w \in Workers |-> "none"]
    /\ stopper = [w \in Workers |-> "none"]
    /\ todo = [w \in Workers |-> <<>>]
    /\ failed = [w \in Workers |-> <<>>]
    /\ thread = [w \in Workers |-> NoThread]
    /\ orphan = [w \in Workers |-> NoThread]
    /\ usage = <<>>
    /\ faults = 0
    /\ recorded = [w \in Workers |-> {}]
    /\ late = [w \in Workers |-> {}]
    /\ settled = [w \in Workers |-> {}]
    /\ abandoned = [w \in Workers |-> {}]

(* record(): a finished request appends its event, at any time: also while  *)
(* stop() waits or flushes, and after it returned.  No flush follows the    *)
(* last one of stop(), so what is recorded then stays in the buffer.        *)
Record(w, e) ==
    /\ \A v \in Workers : e \notin recorded[v]
    /\ buffer' = [buffer EXCEPT ![w] = @ \cup {e}]
    /\ recorded' = [recorded EXCEPT ![w] = @ \cup {e}]
    /\ late' = IF stopper[w] \in {"flushing", "done"}
               THEN [late EXCEPT ![w] = @ \cup {e}] ELSE late
    /\ UNCHANGED <<pending, running, loop, stopper, todo, failed, thread,
                   orphan, usage, faults, settled, abandoned>>

(* start(): creates the background task, unless it runs already. *)
Start(w) ==
    /\ ~running[w]
    /\ stopper[w] = "none"
    /\ running' = [running EXCEPT ![w] = TRUE]
    /\ loop' = [loop EXCEPT ![w] = "sleeping"]
    /\ UNCHANGED <<buffer, pending, stopper, todo, failed, thread, orphan,
                   usage, faults, recorded, late, settled, abandoned>>

(* mutant of Swap: the retry queue is cleared but not written again *)
SwapForgetsRetries(w) ==
    /\ \E s \in Enumerations(Aggregates(buffer[w])) : todo' = [todo EXCEPT ![w] = s]
    /\ buffer' = [buffer EXCEPT ![w] = {}]
    /\ pending' = [pending EXCEPT ![w] = <<>>]

(* mutant of Swap: the retry queue is written again but not cleared *)
SwapKeepsPending(w) ==
    /\ \E s \in Enumerations(Aggregates(buffer[w])) :
          todo' = [todo EXCEPT ![w] = pending[w] \o s]
    /\ buffer' = [buffer EXCEPT ![w] = {}]
    /\ UNCHANGED pending

(* The first half of flush(): swap buffer and retry queue under the lock,  *)
(* aggregate, put the retries first.                                       *)
Swap(w) ==
    /\ \E s \in Enumerations(Aggregates(buffer[w])) :
          todo' = [todo EXCEPT ![w] = pending[w] \o s]
    /\ buffer' = [buffer EXCEPT ![w] = {}]
    /\ pending' = [pending EXCEPT ![w] = <<>>]

(* mutant of NothingToFlush: retries alone do not make a flush *)
NothingBuffered(w) == buffer[w] = {}

NothingToFlush(w) == buffer[w] = {} /\ pending[w] = <<>>

(* The background loop wakes up and flushes; with nothing to write flush() *)
(* returns at once and the loop tests _running again.                      *)
LoopFlush(w) ==
    /\ loop[w] = "sleeping"
    /\ ~NothingToFlush(w)
    /\ Swap(w)
    /\ loop' = [loop EXCEPT ![w] = "flushing"]
    /\ UNCHANGED <<running, stopper, failed, thread, orphan, usage, faults,
                   recorded, late, settled, abandoned>>

LoopExit(w) ==
    /\ loop[w] = "sleeping"
    /\ NothingToFlush(w)
    /\ ~running[w]
    /\ loop' = [loop EXCEPT ![w] = "done"]
    /\ UNCHANGED <<buffer, pending, running, stopper, todo, failed, thread,
                   orphan, usage, faults, recorded, late, settled, abandoned>>

(* mutant of StopCall: _running stays set *)
StopCallKeepsRunning(w) ==
    /\ stopper[w] = "none"
    /\ stopper' = [stopper EXCEPT ![w] = "waiting"]
    /\ UNCHANGED <<buffer, pending, running, loop, todo, failed, thread, orphan,
                   usage, faults, recorded, late, settled, abandoned>>

(* stop(): clears _running and awaits the background task, if there is one. *)
StopCall(w) ==
    /\ stopper[w] = "none"
    /\ running' = [running EXCEPT ![w] = FALSE]
    /\ stopper' = [stopper EXCEPT ![w] = "waiting"]
    /\ UNCHANGED <<buffer, pending, loop, todo, failed, thread, orphan,
                   usage, faults, recorded, late, settled, abandoned>>

(* wait_for() gives up after 5 seconds and cancels the background task     *)
(* inside flush().  CancelledError is no Exception: flush() unwinds and    *)
(* drops to_write and failed.  A thread that started is not stopped by it; *)
(* one still queued in the executor may never start.                       *)
StopTimeout(w) ==
    /\ StopMayTimeOut
    /\ stopper[w] = "waiting"
    /\ loop[w] = "flushing"
    /\ loop' = [loop EXCEPT ![w] = "done"]
    /\ todo' = [todo EXCEPT ![w] = <<>>]
    /\ failed' = [failed EXCEPT ![w] = <<>>]
    /\ thread' = [thread EXCEPT ![w] = NoThread]
    /\ \/ orphan' = [orphan EXCEPT ![w] = thread[w]]
       \/ thread[w].at = "spawned" /\ UNCHANGED orphan
    /\ abandoned' = [abandoned EXCEPT ![w] = @ \cup Held(todo[w]) \cup Held(failed[w])]
    /\ UNCHANGED <<buffer, pending, running, stopper, usage, faults, recorded, late, settled>>

(* mutant of StopFlush: stop() returns when the background task is over *)
StopWithoutFlush(w) ==
    /\ stopper[w] = "waiting"
    /\ loop[w] \in {"none", "done"}
    /\ stopper' = [stopper EXCEPT ![w] = "done"]
    /\ UNCHANGED <<buffer, pending, running, loop, todo, failed, thread, orphan,
                   usage, faults, recorded, late, settled, abandoned>>

(* The final flush of stop(), once the background task is over. *)
StopFlush(w) ==
    /\ stopper[w] = "waiting"
    /\ loop[w] \in {"none", "done"}
    /\ Swap(w)
    /\ stopper' = [stopper EXCEPT ![w] = IF NothingToFlush(w) THEN "done" ELSE "flushing"]
    /\ UNCHANGED <<running, loop, failed, thread, orphan, usage, faults,
                   recorded, late, settled, abandoned>>

Flushing(w) == loop[w] = "flushing" \/ stopper[w] = "flushing"

(* asyncio.to_thread(write_aggregated_row, agg) for the next aggregate. *)
Spawn(w) ==
    /\ Flushing(w)
    /\ todo[w] # <<>>
    /\ thread[w].at = "none"
    /\ thread' = [thread EXCEPT ![w] =
                    [at |-> "spawned", agg |-> Head(todo[w]), row |-> 0, seen |-> NoCounts]]
    /\ UNCHANGED <<local, orphan, usage, faults, recorded, late, settled, abandoned>>

(* mutant of Selected: the row found is overwritten, not added to *)
SelectedForgets(t) == [t EXCEPT !.at = "selected", !.row = First(t.agg)]

(* The select of write_aggregated_row: it reads the row it will overwrite. *)
Selected(t) == [t EXCEPT !.at = "selected",
                         !.row = First(t.agg),
                         !.seen = IF First(t.agg) = 0 THEN NoCounts
                                  ELSE usage[First(t.agg)].n]

Select(w) ==
    /\ thread[w].at = "spawned"
    /\ thread' = [thread EXCEPT ![w] = Selected(@)]
    /\ UNCHANGED <<local, orphan, usage, faults, recorded, late, settled, abandoned>>

OrphanSelect(w) ==
    /\ orphan[w].at = "spawned"
    /\ orphan' = [orphan EXCEPT ![w] = Selected(@)]
    /\ UNCHANGED <<local, thread, usage, faults, recorded, late, settled, abandoned>>

(* The update (absolute values computed from what the select saw) or the   *)
(* insert that ends write_aggregated_row.                                  *)
Stored(t) ==
    IF t.row = 0
    THEN Append(usage, [key |-> KeyOf(t.agg), n |-> Plus(NoCounts, t.agg)])
    ELSE [usage EXCEPT ![t.row].n = Plus(t.seen, t.agg)]

(* The write returns: flush() goes on with the next aggregate. *)
WriteOk(w) ==
    /\ thread[w].at = "selected"
    /\ usage' = Stored(thread[w])
    /\ todo' = [todo EXCEPT ![w] = Tail(@)]
    /\ settled' = [settled EXCEPT ![w] = @ \cup thread[w].agg]
    /\ thread' = [thread EXCEPT ![w] = NoThread]
    /\ UNCHANGED <<buffer, pending, running, loop, stopper, failed, orphan,
                   faults, recorded, late, abandoned>>

(* The write raises: flush() keeps the aggregate in failed. With AckLoss   *)
(* the table may have taken it all the same.                               *)
WriteFail(w) ==
    /\ thread[w].at # "none"
    /\ faults < MaxFaults
    /\ faults' = faults + 1
    /\ \/ UNCHANGED usage
       \/ AckLoss /\ thread[w].at = "selected" /\ usage' = Stored(thread[w])
    /\ todo' = [todo EXCEPT ![w] = Tail(@)]
    /\ failed' = [failed EXCEPT ![w] = Append(@, thread[w].agg)]
    /\ thread' = [thread EXCEPT ![w] = NoThread]
    /\ UNCHANGED <<buffer, pending, running, loop, stopper, orphan, recorded, late,
                   settled, abandoned>>

(* An orphan's outcome reaches nobody. *)
OrphanOk(w) ==
    /\ orphan[w].at = "selected"
    /\ usage' = Stored(orphan[w])
    /\ orphan' = [orphan EXCEPT ![w] = NoThread]
    /\ UNCHANGED <<local, thread, faults, recorded, late, settled, abandoned>>

OrphanFail(w) ==
    /\ orphan[w].at # "none"
    /\ faults < MaxFaults
    /\ faults' = faults + 1
    /\ orphan' = [orphan EXCEPT ![w] = NoThread]
    /\ UNCHANGED <<local, thread, usage, recorded, late, settled, abandoned>>

(* The retry queue holds at most MaxPending aggregates: the oldest go first. *)
Overflow(q) == IF Len(q) > MaxPending THEN Len(q) - MaxPending ELSE 0
TrimmedNewest(q) == SubSeq(q, 1, Len(q) - Overflow(q))  \* mutant of Trimmed
Trimmed(q) == SubSeq(q, Overflow(q) + 1, Len(q))
Dropped(q) == SubSeq(q, 1, Overflow(q))

(* The second half of flush(): re-queue what failed, return to the caller. *)
FlushEnd(w) ==
    /\ Flushing(w)
    /\ todo[w] = <<>>
    /\ thread[w].at = "none"
    /\ LET queue == pending[w] \o failed[w]
       IN  /\ pending' = [pending EXCEPT ![w] = Trimmed(queue)]
           /\ abandoned' = [abandoned EXCEPT ![w] = @ \cup Held(Dropped(queue))]
    /\ failed' = [failed EXCEPT ![w] = <<>>]
    /\ IF loop[w] = "flushing"
       THEN /\ loop' = [loop EXCEPT ![w] = IF running[w] THEN "sleeping" ELSE "done"]
            /\ UNCHANGED stopper
       ELSE /\ stopper' = [stopper EXCEPT ![w] = "done"]
            /\ UNCHANGED loop
    /\ UNCHANGED <<buffer, running, todo, thread, orphan, usage, faults,
                   recorded, late, settled>>

WorkerStep(w) ==
    \/ \E e \in Events : Record(w, e)
    \/ Start(w)
    \/ LoopFlush(w)
    \/ LoopExit(w)
    \/ StopCall(w)
    \/ StopTimeout(w)
    \/ StopFlush(w)
    \/ Spawn(w)
    \/ Select(w)
    \/ OrphanSelect(w)
    \/ WriteOk(w)
    \/ WriteFail(w)
    \/ OrphanOk(w)
    \/ OrphanFail(w)
    \/ FlushEnd(w)

Next == \E w \in Workers : WorkerStep(w)

(* The event loop runs every ready coroutine, the executor every thread.   *)
(* Nothing makes a request arrive, start() or stop() be called, or a write *)
(* fail; that a write returns is WriteOk's share of its thread's fairness. *)
Fairness ==
    \A w \in Workers :
        /\ WF_vars(LoopFlush(w))
        /\ WF_vars(LoopExit(w))
        /\ WF_vars(StopFlush(w))
        /\ WF_vars(Spawn(w))
        /\ WF_vars(Select(w))
        /\ WF_vars(WriteOk(w) \/ WriteFail(w))
        /\ WF_vars(OrphanSelect(w))
        /\ WF_vars(OrphanOk(w) \/ OrphanFail(w))
        /\ WF_vars(FlushEnd(w))

Spec == Init /\ [][Next]_vars
FairSpec == Spec /\ Fairness

----------------------------------------------------------------------------
(* Properties *)

TypeOK ==
    /\ buffer \in [Workers -> SUBSET Events]
    /\ pending \in [Workers -> Seq(Aggregate)]
    /\ running \in [Workers -> BOOLEAN]
    /\ loop \in [Workers -> {"none", "sleeping", "flushing", "done"}]
    /\ stopper \in [Workers -> {"none", "waiting", "flushing", "done"}]
    /\ todo \in [Workers -> Seq(Aggregate)]
    /\ failed \in [Workers -> Seq(Aggregate)]
    /\ thread \in [Workers -> Thread]
    /\ orphan \in [Workers -> Thread]
    /\ usage \in Seq(Row)
    /\ faults \in Nat
    /\ recorded \in [Workers -> SUBSET Events]
    /\ late \in [Workers -> SUBSET Events]
    /\ settled \in [Workers -> SUBSET Events]
    /\ abandoned \in [Workers -> SUBSET Events]

(* Every event handed to record() is still in the buffer, in the flush in  *)
(* progress or in the retry queue, or its write returned, or it was given  *)
(* up explicitly: the swap under the lock and the re-queueing of failed    *)
(* rows leave no gap through which usage could disappear.                  *)
Accounted ==
    \A w \in Workers :
        recorded[w] \subseteq buffer[w] \cup Held(pending[w]) \cup Held(todo[w])
                              \cup Held(failed[w]) \cup settled[w] \cup abandoned[w]

(* No event is counted twice in token_usage, whatever the interleaving of  *)
(* workers, retries, cancelled flushes and stale read-modify-writes, as    *)
(* long as a write that raises has not been committed.                     *)
BilledAtMostOnce ==
    AckLoss \/ \A e \in Events : \A i, j \in DOMAIN usage :
                  /\ usage[i].n[e] =< 1
                  /\ usage[i].n[e] > 0 /\ usage[j].n[e] > 0 => i = j

(* An event whose write returned is counted in token_usage and stays so.   *)
Counted(e) == \E i \in DOMAIN usage : usage[i].n[e] > 0
SettledIsCounted == \A w \in Workers : \A e \in settled[w] : Counted(e)

(* Usage is given up only by the overflow of a full retry queue, and then  *)
(* the queue keeps the newest aggregates: a worker that is not being       *)
(* stopped never abandons an event for another reason.                     *)
DropsOnlyOnOverflow ==
    [][\A w \in Workers :
          abandoned'[w] # abandoned[w] /\ stopper[w] # "waiting" =>
              /\ Len(pending'[w]) = MaxPending
              /\ pending'[w][MaxPending] = failed[w][Len(failed[w])]]_vars

(* What the docstring of stop() promises: after stop() nothing recorded is *)
(* missing from token_usage, if no write raised.  A request that finishes  *)
(* while the last flush of stop() is under way refutes it.                 *)
StopLosesNothing ==
    \A w \in Workers :
        stopper[w] = "done" /\ faults = 0 => \A e \in recorded[w] : Counted(e)

(* What stop() achieves: when it has returned and no write raised, what was *)
(* recorded before its last flush swapped the buffer is in token_usage, and *)
(* the rest, recorded later, is all that is left in the buffer.             *)
StopCountsTheRest ==
    \A w \in Workers :
        stopper[w] = "done" /\ faults = 0 =>
            /\ \A e \in recorded[w] \ late[w] : Counted(e)
            /\ buffer[w] = late[w]

(* stop() returns, even when the background task has to be cancelled.      *)
StopTerminates ==
    \A w \in Workers : stopper[w] = "waiting" ~> stopper[w] = "done"

(* While the background task runs, recorded usage reaches the table or is  *)
(* dropped by an overflow: it is never stuck in buffer or retry queue,     *)
(* unless it was recorded after the last flush of stop() had begun.        *)
EventuallyCounted ==
    \A w \in Workers : \A e \in Events :
        (e \in recorded[w] /\ loop[w] # "none") ~>
            \/ Counted(e)
            \/ e \in abandoned[w]
            \/ e \in late[w]
            \/ stopper[w] = "done" /\ e \in Held(pending[w])

(* The ledger as MeteringBuffer keeps it.  An event that token_usage counts *)
(* more than once is in no state the ledger knows.                          *)
Billed(e) == {i \in DOMAIN usage : usage[i].n[e] > 0}
Entry ==
    [e \in Events |->
       IF Billed(e) # {}
       THEN IF \E i \in Billed(e) : Billed(e) = {i} /\ usage[i].n[e] = 1
            THEN "billed" ELSE "twice"
       ELSE IF \E w \in Workers : e \in abandoned[w] THEN "lost"
       ELSE IF \E w \in Workers : e \in recorded[w] THEN "held"
       ELSE "none"]

Ledger == INSTANCE UsageLedger WITH entry <- Entry

(* One worker's metering, with its retries, its overflowing retry queue and *)
(* its rows that are read, added to and written back, implements the        *)
(* ledger: what is billed stays billed, exactly once, and what an overflow  *)
(* dropped is not billed later.                                             *)
ImplementsLedger == Ledger!LedgerSpec
============================================================================
