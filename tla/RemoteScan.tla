----------------------------- MODULE RemoteScan -----------------------------
(***************************************************************************)
(* Remote execution: the executors of scheduler/pool.py and remote.py      *)
(* (WorkerPoolExecutor and RemoteScanExecutor), the /rpc/execute and       *)
(* /rpc/cancel handlers of the workers (api.py) with their in-flight       *)
(* registry, and `job cancel --remote-url`, over a network that loses and  *)
(* delays requests and responses.                                          *)
(*                                                                         *)
(* One call of execute serves one run; its run id is the run_token.  The   *)
(* calls of a pool run in several threads that share its cursor and its    *)
(* cooldown table without a lock.  Workers stand in a ring: After[w] is    *)
(* the worker at the next index modulo the length of the list.             *)
(***************************************************************************)
EXTENDS Naturals

CONSTANTS
    Runs,      \* the runs being executed, each the run_token of one call
    Workers,   \* the worker processes
    After,     \* the ring: the worker after each worker
    First,     \* the worker at index 0
    Pooled,    \* the runs of the server's pool; the others are CLI triggers
    Retries,   \* --remote-retries; the pool's executors have none
    Cooldown,  \* WorkerPoolExecutor's cooldown
    MaxTime,   \* bound on the clock
    None       \* Python's None

ASSUME RemoteAssumption ==
    /\ First \in Workers
    /\ After \in [Workers -> Workers]
    /\ \A v, w \in Workers : After[v] = After[w] => v = w
    /\ \A S \in SUBSET Workers :
          S # {} /\ (\A w \in S : After[w] \in S) => S = Workers
    /\ Pooled \subseteq Runs
    /\ Retries \in Nat /\ Cooldown \in Nat /\ MaxTime \in Nat
    /\ None \notin Workers \cup {"ok", "void", "failed"}

VARIABLES
    store,     \* job_runs.status of each run
    call,      \* the thread that executes each run
    cursor,    \* WorkerPoolExecutor._cursor, as the worker it points to
    cooldown,  \* _cooldown_until; a time in the past is no cooldown
    post,      \* the POST /rpc/execute of each run to each worker at each try
    registry,  \* inflight_cancelled of each worker
    notice,    \* the worker each run's cancel command has yet to notify
    now

vars == <<store, call, cursor, cooldown, post, registry, notice, now>>

-----------------------------------------------------------------------------

\* The k-th POST of run r to worker w; a call visits a worker once.
Posts == Runs \X Workers \X (0..Retries)

\* start and at are the workers at which this round began and is now, seen
\* those it has come to; try counts the POSTs to this worker.
Call == [pc : {"claimed", "route", "wait", "retry", "record", "done"},
         start : Workers \cup {None}, at : Workers \cup {None},
         seen : SUBSET Workers, try : 0..Retries,
         out : {"ok", "void", "failed", None}]

\* told: a cancel was acknowledged while this request was being served.
Post == [pc : {"none", "sent", "scanning", "ok", "void", "error", "refused"},
         told : BOOLEAN]

NoPost == [pc |-> "none", told |-> FALSE]

Init ==
    /\ store = [r \in Runs |-> "running"]
    /\ call = [r \in Runs |-> [pc |-> "claimed", start |-> None, at |-> None,
                               seen |-> {}, try |-> 0, out |-> None]]
    /\ cursor = First
    /\ cooldown = [w \in Workers |-> 0]
    /\ post = [p \in Posts |-> NoPost]
    /\ registry = [w \in Workers |-> [r \in Runs |-> "absent"]]
    /\ notice = [r \in Runs |-> None]
    /\ now = 0

-----------------------------------------------------------------------------
(* The executor's side.                                                     *)

\* The request r is waiting for.
Current(r) == <<r, call[r].at, call[r].try>>

\* execute: the pool starts at its cursor, a CLI command has the worker of
\* its --remote-url.
Begin(r) ==
    /\ call[r].pc = "claimed"
    /\ \E w \in Workers :
          /\ r \in Pooled => w = cursor
          /\ call' = [call EXCEPT ![r] = [@ EXCEPT
                         !.pc = "route", !.start = w, !.at = w, !.seen = {w}]]
    /\ UNCHANGED <<store, cursor, cooldown, post, registry, notice, now>>

Cooling(r) == r \in Pooled /\ now < cooldown[call[r].at]

Send(r) ==
    /\ \/ call[r].pc = "route" /\ ~Cooling(r)
       \/ call[r].pc = "retry"
    /\ call' = [call EXCEPT ![r].pc = "wait"]
    /\ post' = [post EXCEPT ![Current(r)] = [pc |-> "sent", told |-> FALSE]]
    /\ UNCHANGED <<store, cursor, cooldown, registry, notice, now>>

Onward(c) == [c EXCEPT !.pc = "route", !.try = 0, !.at = After[c.at],
                       !.seen = c.seen \cup {After[c.at]}]
GivenUp(c) == [c EXCEPT !.pc = "record", !.out = "failed"]

\* Variant: the loop ends one worker early.
MoveOn_Early(r) ==
    IF r \in Pooled /\ After[After[call[r].at]] # call[r].start
    THEN call' = [call EXCEPT ![r] = Onward(call[r])] /\ UNCHANGED cursor
    ELSE /\ call' = [call EXCEPT ![r] = GivenUp(call[r])]
         /\ cursor' = IF r \in Pooled THEN After[call[r].start] ELSE cursor

\* The next worker of the ring, or the error raised after a whole round.
MoveOn(r) ==
    IF r \in Pooled /\ After[call[r].at] # call[r].start
    THEN call' = [call EXCEPT ![r] = Onward(call[r])] /\ UNCHANGED cursor
    ELSE /\ call' = [call EXCEPT ![r] = GivenUp(call[r])]
         /\ cursor' = IF r \in Pooled THEN After[call[r].start] ELSE cursor

Skip(r) ==
    /\ call[r].pc = "route" /\ Cooling(r)
    /\ MoveOn(r)
    /\ UNCHANGED <<store, cooldown, post, registry, notice, now>>

Result(r) ==
    /\ call[r].pc = "wait" /\ post[Current(r)].pc \in {"ok", "void"}
    /\ call' = [call EXCEPT ![r] = [@ EXCEPT !.pc = "record", !.out = post[Current(r)].pc]]
    /\ cursor' = IF r \in Pooled THEN After[call[r].at] ELSE cursor
    /\ UNCHANGED <<store, cooldown, post, registry, notice, now>>

\* --remote-preflight: a failed health probe ends the call before any POST.
PreflightFails(r) ==
    /\ call[r].pc = "route" /\ r \notin Pooled
    /\ MoveOn(r)
    /\ UNCHANGED <<store, cooldown, post, registry, notice, now>>

\* Variant: a retry is not counted.
Fails_Uncounted(r) ==
    /\ call[r].pc = "wait"
    /\ IF r \notin Pooled /\ post[Current(r)].pc # "refused" /\ call[r].try < Retries
       THEN /\ call' = [call EXCEPT ![r].pc = "retry"]
            /\ UNCHANGED <<cursor, cooldown>>
       ELSE MoveOn(r) /\ UNCHANGED cooldown
    /\ UNCHANGED <<store, post, registry, notice, now>>

\* A network error or a timeout may come at any time, whatever the worker does
\* meanwhile; a 4xx answer is not retried.
Fails(r) ==
    /\ call[r].pc = "wait"
    /\ IF r \notin Pooled /\ post[Current(r)].pc # "refused" /\ call[r].try < Retries
       THEN /\ call' = [call EXCEPT ![r] = [@ EXCEPT !.pc = "retry", !.try = call[r].try + 1]]
            /\ UNCHANGED <<cursor, cooldown>>
       ELSE /\ MoveOn(r)
            /\ cooldown' = IF r \in Pooled
                           THEN [cooldown EXCEPT ![call[r].at] = now + Cooldown]
                           ELSE cooldown
    /\ UNCHANGED <<store, post, registry, notice, now>>

\* finish_run: a result for a cancelled run is dropped, any other is recorded,
\* also one that says cancelled.
Record(r) ==
    /\ call[r].pc = "record"
    /\ call' = [call EXCEPT ![r].pc = "done"]
    /\ store' = IF store[r] = "cancelled" THEN store
                ELSE [store EXCEPT ![r] =
                        IF call[r].out = "failed" THEN "failed" ELSE "completed"]
    /\ UNCHANGED <<cursor, cooldown, post, registry, notice, now>>

Execute(r) == \/ Begin(r) \/ Send(r) \/ Skip(r) \/ PreflightFails(r)
              \/ Result(r) \/ Fails(r) \/ Record(r)

\* Operators may clear the pool's cooldown table.
Reset == /\ cooldown' = [w \in Workers |-> 0]
         /\ UNCHANGED <<store, call, cursor, post, registry, notice, now>>

-----------------------------------------------------------------------------
(* The workers' side.  p = <<r, w, k>> is the request being served.         *)

\* rpc_execute registers the run, whatever its registry holds, and scans.
Arrive(p) ==
    /\ post[p].pc = "sent"
    /\ post' = [post EXCEPT ![p].pc = "scanning"]
    /\ registry' = [registry EXCEPT ![p[2]][p[1]] = "live"]
    /\ UNCHANGED <<store, call, cursor, cooldown, notice, now>>

\* The request is lost, or answered with 401, 422 or an unusable result, which
\* only an executor that would retry tells from a loss.
Refuse(p) ==
    /\ post[p].pc = "sent"
    /\ \E s \in {"error"} \cup (IF p[1] \in Pooled THEN {} ELSE {"refused"}) :
          post' = [post EXCEPT ![p].pc = s]
    /\ UNCHANGED <<store, call, cursor, cooldown, registry, notice, now>>

Pop(p) == registry' = [registry EXCEPT ![p[2]][p[1]] = "absent"]

\* Variant: the mark is read when the scan begins.
Scanned_Unmarked(p) ==
    /\ post[p].pc = "scanning"
    /\ post' = [post EXCEPT ![p].pc = "ok"]
    /\ Pop(p)
    /\ UNCHANGED <<store, call, cursor, cooldown, notice, now>>

\* The scan ends and its registry entry is popped; a missing entry is no mark.
Scanned(p) ==
    /\ post[p].pc = "scanning"
    /\ post' = [post EXCEPT ![p].pc =
                  IF registry[p[2]][p[1]] = "marked" THEN "void" ELSE "ok"]
    /\ Pop(p)
    /\ UNCHANGED <<store, call, cursor, cooldown, notice, now>>

\* Variant: the error path forgets the entry.
ScanFailed_NoPop(p) ==
    /\ post[p].pc = "scanning"
    /\ post' = [post EXCEPT ![p] = [pc |-> "error", told |-> FALSE]]
    /\ UNCHANGED <<registry, store, call, cursor, cooldown, notice, now>>

ScanFailed(p) ==
    /\ post[p].pc = "scanning"
    /\ post' = [post EXCEPT ![p] = [pc |-> "error", told |-> FALSE]]
    /\ Pop(p)
    /\ UNCHANGED <<store, call, cursor, cooldown, notice, now>>

\* A worker process dies with its requests and its registry.
WorkerStops(w) ==
    /\ \E p \in Posts : p[2] = w /\ post[p].pc \in {"sent", "scanning"}
    /\ post' = [p \in Posts |-> IF p[2] = w /\ post[p].pc \in {"sent", "scanning"}
                                THEN [pc |-> "error", told |-> FALSE] ELSE post[p]]
    /\ registry' = [registry EXCEPT ![w] = [r \in Runs |-> "absent"]]
    /\ UNCHANGED <<store, call, cursor, cooldown, notice, now>>

Serve(p) == Arrive(p) \/ Refuse(p) \/ Scanned(p) \/ ScanFailed(p)

-----------------------------------------------------------------------------
(* job cancel --remote-url: the queue first, then the worker.               *)

\* Variant: the worker is told although the queue refused.
CancelStore_Always(r) ==
    /\ notice[r] = None
    /\ \E w \in Workers : notice' = [notice EXCEPT ![r] = w]
    /\ UNCHANGED <<store, call, cursor, cooldown, post, registry, now>>

CancelStore(r) ==
    /\ store[r] = "running"
    /\ store' = [store EXCEPT ![r] = "cancelled"]
    /\ \E w \in Workers : notice' = [notice EXCEPT ![r] = w]
    /\ UNCHANGED <<call, cursor, cooldown, post, registry, now>>

\* Variant: the entry is removed instead of marked.
NotifyWorker_Pops(r) ==
    LET w == notice[r] IN
    /\ w # None
    /\ notice' = [notice EXCEPT ![r] = None]
    /\ registry' = [registry EXCEPT ![w][r] = "absent"]
    /\ UNCHANGED <<post, store, call, cursor, cooldown, now>>

\* rpc_cancel marks a run the worker knows and answers 404 otherwise.
NotifyWorker(r) ==
    LET w == notice[r] IN
    /\ w # None
    /\ notice' = [notice EXCEPT ![r] = None]
    /\ IF registry[w][r] = "absent"
       THEN UNCHANGED <<registry, post>>
       ELSE /\ registry' = [registry EXCEPT ![w][r] = "marked"]
            /\ post' = [p \in Posts |->
                  IF p[1] = r /\ p[2] = w /\ post[p].pc = "scanning"
                  THEN [post[p] EXCEPT !.told = TRUE] ELSE post[p]]
    /\ UNCHANGED <<store, call, cursor, cooldown, now>>

\* The notice is lost; the command only warns.
NoticeFails(r) ==
    /\ notice[r] # None
    /\ notice' = [notice EXCEPT ![r] = None]
    /\ UNCHANGED <<store, call, cursor, cooldown, post, registry, now>>

AdvanceClock == /\ now < MaxTime
                /\ now' = now + 1
                /\ UNCHANGED <<store, call, cursor, cooldown, post, registry, notice>>

Next ==
    \/ \E r \in Runs : \/ Execute(r) \/ CancelStore(r)
                       \/ NotifyWorker(r) \/ NoticeFails(r)
    \/ \E p \in Posts : Serve(p)
    \/ \E w \in Workers : WorkerStops(w)
    \/ Reset \/ AdvanceClock

Spec == Init /\ [][Next]_vars

\* The executor's threads run, and a POST does not wait beyond its timeout.
FairSpec == Spec /\ \A r \in Runs : WF_vars(Execute(r))

-----------------------------------------------------------------------------
(* Properties.                                                              *)

\* Every variable keeps its type (the one type invariant of this module).
TypeOK ==
    /\ store \in [Runs -> {"running", "completed", "failed", "cancelled"}]
    /\ call \in [Runs -> Call]
    /\ cursor \in Workers
    /\ cooldown \in [Workers -> Nat]
    /\ post \in [Posts -> Post]
    /\ registry \in [Workers -> [Runs -> {"absent", "live", "marked"}]]
    /\ notice \in [Runs -> Workers \cup {None}]
    /\ now \in Nat

\* ADR-115: if the run was marked by the time its scan ends, the JobResult says
\* cancelled.
MarkIsHonoured == \A p \in Posts : post[p].told => post[p].pc # "ok"

\* While a worker scans a run its registry knows the run, so that a cancel
\* reaches it instead of being answered 404.
ScanIsRegistered ==
    \A p \in Posts : post[p].pc = "scanning" => registry[p[2]][p[1]] # "absent"

\* The registry holds no run that the worker does not scan, after errors,
\* timeouts, restarts and late cancels alike.
RegistryIsDrained ==
    \A w \in Workers, r \in Runs : registry[w][r] # "absent" =>
       \E k \in 0..Retries : post[<<r, w, k>>].pc = "scanning"

\* A result that the worker declared void is never recorded as a completed run:
\* the queue is cancelled before any worker is told.
VoidIsNotRecorded ==
    \A r \in Runs : store[r] = "completed" => call[r].out # "void"

\* A run of the pool fails only after the round has come to every worker,
\* wherever the shared cursor stood and however the rounds of other threads
\* moved it.
FailsAfterWholeRound ==
    \A r \in Pooled : call[r].out = "failed" => call[r].seen = Workers

\* Every call returns: no combination of losses, cooldowns, worker crashes and
\* retries keeps a thread of the scheduler for ever.
CallsReturn == \A r \in Runs : call[r].pc = "route" ~> call[r].pc = "done"
=============================================================================
