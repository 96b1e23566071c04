------------------------------- MODULE Relay --------------------------------
(***************************************************************************)
(* The export relays of the agent (internal/export): a bounded queue and a *)
(* delivery worker for every configured endpoint, with retries, backoff    *)
(* and the counters of ollie_export_*.  Whether an attempt reached the     *)
(* endpoint, and whether the worker hears of it, are separate choices.     *)
(***************************************************************************)
EXTENDS Integers, Sequences

CONSTANTS Exports,      \* the sets of endpoints that may be configured
          QueueCap,     \* buffer of NewRelay
          MaxRetries    \* maxRetries

ASSUME RelayAssumption == QueueCap \in Nat \ {0} /\ MaxRetries \in Nat \ {0}

VARIABLES ctx,      \* the context of Run is not cancelled
          queue,    \* ch
          work,     \* the worker: [at, item, attempt]
          count     \* [offered, batches, dropped]; offered is a history variable

relayVars == <<ctx, queue, work, count>>

(* A batch samples some series and retires others; of a raw OTLP request     *)
(* nothing is told apart.                                                    *)
Raw == [samples |-> {}, markers |-> {}]

Waiting == [at |-> "select", item |-> Raw, attempt |-> 0]

Relays == DOMAIN queue

RelayInit ==
    /\ ctx = TRUE
    /\ queue \in {[r \in on |-> <<>>] : on \in Exports}
    /\ work = [r \in Relays |-> Waiting]
    /\ count = [r \in Relays |-> [offered |-> 0, batches |-> 0, dropped |-> 0]]

(* A full queue drops the batch (buffer_full).                              *)
Enqueue(r, item) ==
    LET full == Len(queue[r]) >= QueueCap
    IN /\ queue' = IF full THEN queue ELSE [queue EXCEPT ![r] = Append(@, item)]
       /\ count' = [count EXCEPT ![r].offered = @ + 1,
                                 ![r].dropped = IF full THEN @ + 1 ELSE @]
       /\ UNCHANGED <<ctx, work>>

(* Run: the worker takes a batch.                                           *)
Take(r) ==
    /\ work[r].at = "select" /\ queue[r] # <<>>
    /\ work' = [work EXCEPT ![r] = [at |-> "send", item |-> Head(queue[r]),
                                    attempt |-> 0]]
    /\ queue' = [queue EXCEPT ![r] = Tail(@)]
    /\ UNCHANGED <<ctx, count>>

(* Mutant of Sent: a batch the retries are exhausted for goes unnoticed.    *)
SentDropsQuietly(r, result) ==
    LET last == work[r].attempt + 1 >= MaxRetries
        done == result = "ok" \/ result = "permanent" \/ last
    IN /\ work[r].at = "send"
       /\ count' = IF result = "ok" THEN [count EXCEPT ![r].batches = @ + 1]
                   ELSE IF result = "permanent"
                   THEN [count EXCEPT ![r].dropped = @ + 1] ELSE count
       /\ work' = [work EXCEPT ![r] = IF done THEN Waiting
                                      ELSE [@ EXCEPT !.at = "backoff"]]
       /\ UNCHANGED <<ctx, queue>>

(* Mutant of Sent: the attempts are counted from zero after every error.    *)
SentStartsOver(r, result) ==
    /\ work[r].at = "send"
    /\ count' = IF result = "ok" THEN [count EXCEPT ![r].batches = @ + 1]
                ELSE IF result = "permanent"
                THEN [count EXCEPT ![r].dropped = @ + 1] ELSE count
    /\ work' = [work EXCEPT ![r] = IF result # "transient" THEN Waiting
                       ELSE [@ EXCEPT !.at = "backoff", !.attempt = -1]]
    /\ UNCHANGED <<ctx, queue>>

(* deliver: send returned.                                                  *)
Sent(r, result) ==
    LET last == work[r].attempt + 1 >= MaxRetries
        drop == result = "permanent" \/ (result = "transient" /\ last)
    IN /\ work[r].at = "send"
       /\ count' = IF result = "ok" THEN [count EXCEPT ![r].batches = @ + 1]
                   ELSE IF drop THEN [count EXCEPT ![r].dropped = @ + 1]
                   ELSE count
       /\ work' = [work EXCEPT ![r] = IF result = "ok" \/ drop THEN Waiting
                                      ELSE [@ EXCEPT !.at = "backoff"]]
       /\ UNCHANGED <<ctx, queue>>

(* deliver: the backoff is over, the batch is sent again.                   *)
Retry(r) ==
    /\ work[r].at = "backoff"
    /\ work' = [work EXCEPT ![r].at = "send", ![r].attempt = @ + 1]
    /\ UNCHANGED <<ctx, queue, count>>

(* The process is told to stop.                                             *)
Cancel == ctx /\ ctx' = FALSE /\ UNCHANGED <<queue, work, count>>

(* Run, deliver: a worker that waits sees the cancelled context and ends;   *)
(* the batch of a backoff goes with it.                                     *)
Return(r) ==
    /\ ~ctx /\ work[r].at \in {"select", "backoff"}
    /\ work' = [work EXCEPT ![r] = [Waiting EXCEPT !.at = "returned"]]
    /\ UNCHANGED <<ctx, queue, count>>

-----------------------------------------------------------------------------
InFlight(r) == IF r \in Relays /\ work[r].at \in {"send", "backoff"} THEN 1 ELSE 0

(* Every batch offered to a relay is delivered, counted as dropped, in the  *)
(* queue or under way, while the worker of Run is alive ("ollie_export_*    *)
(* metrics account for every drop").                                        *)
EveryBatchAccounted ==
    \A r \in Relays : work[r].at # "returned" =>
        count[r].offered = count[r].batches + count[r].dropped
                              + Len(queue[r]) + InFlight(r)

(* deliver gives up in the end: no endpoint holds its worker for good, so   *)
(* the batches behind it move.                                              *)
WorkerComesBack ==
    \A r \in UNION Exports :
        InFlight(r) = 1 ~> InFlight(r) = 0
=============================================================================
