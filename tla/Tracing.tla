------------------------------ MODULE Tracing ------------------------------
(***************************************************************************)
(* What becomes of the trace of a run (services/langfuse.py, and its uses  *)
(* in main.py and services/agent_runtime.py): a bounded queue in memory,   *)
(* one task that takes a batch and posts it, and a collector that may not  *)
(* be there.  Operations on the record of one client; each is what happens *)
(* between two awaits.                                                     *)
(* Left out: what an event says, metrics, the wait between two flushes.    *)
(***************************************************************************)
EXTENDS Naturals, Sequences, FiniteSets, SequencesExt

CONSTANTS
    MaxQueued,   \* MAX_QUEUED_EVENTS, 2000
    BatchSize    \* flush_batch_size, 50

\* task: whether the drain waits for its interval or for the collector; taken:
\* the batch under way; posted: what the collector has, in its order; lost: what
\* left the queue and did not get there; dropped: what never got in.
New == [task |-> "none", open |-> TRUE, queue |-> <<>>, taken |-> <<>>,
        posted |-> <<>>, lost |-> {}, dropped |-> {}]

\* lifespan: built and started if enabled.
Start(c) == IF c.task = "none" THEN [c EXCEPT !.task = "sleeps"] ELSE c

\* put_nowait: the newest is dropped, not the oldest.
Put(c, event) ==
    IF Len(c.queue) < MaxQueued THEN [c EXCEPT !.queue = Append(@, event)]
    ELSE [c EXCEPT !.dropped = @ \cup {event}]

\* record_run: a run is two events.
Record(c, run) == Put(Put(c, <<run, "trace">>), <<run, "generation">>)

\* _finalise_observability: of a run that completed or failed, in its own request;
\* one that waits or is cancelled is not recorded, and without a client none is.
Finalise(clients, run, st) ==
    {IF st \in {"COMPLETED", "FAILED"} THEN Record(c, run) ELSE c : c \in clients}

Batch(c) == SubSeq(c.queue, 1, IF Len(c.queue) < BatchSize THEN Len(c.queue) ELSE BatchSize)

\* _flush up to the post: the events leave the queue first.
Take(c) ==
    IF c.queue = <<>> THEN c
    ELSE [c EXCEPT !.taken = Batch(c), !.queue = SubSeq(@, Len(Batch(c)) + 1, Len(@))]

\* The collector has the batch or has not.  What the client hears of it, an
\* acceptance, a refusal or an exception, changes nothing: a batch is never put
\* back.
Answered(c, arrived) ==
    [c EXCEPT !.taken = <<>>,
              !.posted = IF arrived THEN @ \o c.taken ELSE @,
              !.lost = IF arrived THEN @ ELSE @ \cup ToSet(c.taken)]

\* _drain_forever: the interval has passed, or the collector has answered; no
\* exception ends it.
Drains(c) ==
    IF c.task # "sleeps" THEN {}
    ELSE IF c.taken = <<>> THEN {Take(c)} ELSE {Answered(c, a) : a \in BOOLEAN}

\* stop: cancels the task, with the batch under way, and flushes once more; a
\* client never started keeps its transport.
Ended(c, arrived) == [Answered(c, arrived) EXCEPT !.task = "none", !.open = FALSE]
Stop(c) ==
    IF c.task = "none" THEN {c}
    ELSE {Answered(Take(Ended(c, a)), b) : a, b \in BOOLEAN}
=============================================================================
