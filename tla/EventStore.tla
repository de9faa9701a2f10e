----------------------------- MODULE EventStore -----------------------------
(***************************************************************************)
(* The append path of the event store (internal/eventstore/store.go) with  *)
(* the state cache as its in-memory synchronous projector.                 *)
(*                                                                         *)
(* A writer is a goroutine that calls Append (one event) or AppendBatch    *)
(* (several events in one transaction).  The database handle is a pool, so *)
(* the transactions of several writers are open at once; what SQLite       *)
(* serialises is the write lock, which the first INSERT of a transaction   *)
(* takes.  A writer that finds the lock taken waits (busy_timeout) or      *)
(* fails with SQLITE_BUSY, rolls back and retries.                         *)
(*                                                                         *)
(* The order of a transaction's end matters here.  After a commit the lock *)
(* is free before the cache is promoted; on an error the cache's pending   *)
(* map is dropped whether or not this transaction built it, and only then  *)
(* the transaction is rolled back, unless a cancelled context made         *)
(* database/sql roll it back first.                                        *)
(***************************************************************************)
EXTENDS StateCache, Naturals, Sequences

CONSTANTS
  Writers,        \* goroutines that append
  BatchWriters,   \* the writers that call AppendBatch instead of Append
  MaxAttempts,    \* attempts withRetry makes (5 in the code)
  MaxLog          \* bound: no append is called on a log this long

ASSUME StoreAssumption ==
  /\ BatchWriters \subseteq Writers
  /\ MaxAttempts \in Nat \ {0}
  /\ MaxLog \in Nat

VARIABLES
  log,              \* rows of the events table, by position
  cursor,           \* projection_cursors row of the cache
  latestPosition,   \* Store.latestPosition
  lock,             \* the writers holding SQLite's write lock
  pc,               \* where each writer is in its append
  evs,              \* the events each writer appends
  applied,          \* how many of them its transaction has applied
  attempt,          \* attempts used by withRetry
  err,              \* the error its transaction failed with
  position,         \* the last position its committed transaction assigned
  folded,           \* history: the committed events applied in log order
  result,           \* history: folded as the open transaction would leave it
  txFailed,          \* history: some transaction has failed
  overlapped        \* history: an append was called while another one ran

storeVars == <<log, cursor, latestPosition>>
txVars == <<lock, pc, evs, applied, attempt, err, position>>
history == <<folded, result, txFailed, overlapped>>
vars == <<current, pending, log, cursor, latestPosition, lock, pc, evs,
          applied, attempt, err, position, folded, result, txFailed, overlapped>>

PCs == {"idle", "begin", "apply", "discard", "rollback", "promote", "publish"}

Init ==
  /\ CacheInit
  /\ log = << >>
  /\ cursor = 0
  /\ latestPosition = 0
  /\ lock = {}
  /\ pc = [w \in Writers |-> "idle"]
  /\ evs = [w \in Writers |-> << >>]
  /\ applied = [w \in Writers |-> 0]
  /\ attempt = [w \in Writers |-> 0]
  /\ err = [w \in Writers |-> "nil"]
  /\ position = [w \in Writers |-> 0]
  /\ folded = EmptyMap
  /\ result = EmptyMap
  /\ txFailed = FALSE
  /\ overlapped = FALSE

\* What a writer may be asked to append.
Requests(w) ==
  IF w \in BatchWriters THEN [1 .. 2 -> Events] ELSE [1 .. 1 -> Events]

-----------------------------------------------------------------------------
\* Append/AppendBatch is called and withRetry begins its first transaction.
Call(w) ==
  /\ pc[w] = "idle"
  /\ Len(log) < MaxLog
  /\ \E es \in Requests(w) : evs' = [evs EXCEPT ![w] = es]
  /\ pc' = [pc EXCEPT ![w] = "begin"]
  /\ attempt' = [attempt EXCEPT ![w] = 1]
  /\ overlapped' = (overlapped \/ \E u \in Writers \ {w} : pc[u] # "idle")
  /\ UNCHANGED <<cacheVars, storeVars, lock, applied, err, position, folded,
                 result, txFailed>>

\* The first INSERT takes the write lock.
Insert(w) ==
  /\ pc[w] = "begin"
  /\ lock = {}
  /\ lock' = {w}
  /\ pc' = [pc EXCEPT ![w] = "apply"]
  /\ result' = folded
  /\ UNCHANGED <<cacheVars, storeVars, evs, applied, attempt, err, position,
                 folded, txFailed, overlapped>>

\* The first INSERT fails with SQLITE_BUSY: another writer, or another user of
\* the database such as the snapshotter, has the lock.
InsertBusy(w) ==
  /\ pc[w] = "begin"
  /\ pc' = [pc EXCEPT ![w] = "discard"]
  /\ err' = [err EXCEPT ![w] = "busy"]
  /\ txFailed' = TRUE
  /\ UNCHANGED <<cacheVars, storeVars, lock, evs, applied, attempt, position,
                 folded, result, overlapped>>

\* The cache applies the next event of the transaction.
ApplyNext(w) ==
  /\ pc[w] = "apply"
  /\ applied[w] < Len(evs[w])
  /\ LET e == evs[w][applied[w] + 1]
     IN /\ Apply(e)
        /\ result' = ApplyEvent(result, e)
  /\ applied' = [applied EXCEPT ![w] = @ + 1]
  /\ UNCHANGED <<storeVars, lock, pc, evs, attempt, err, position, folded,
                 txFailed, overlapped>>

\* An INSERT, a projector (the registry), a cursor update or the COMMIT fails
\* with an error that is not SQLITE_BUSY.  The transaction stays open.
Fail(w) ==
  /\ pc[w] \in {"begin", "apply"}
  /\ pc' = [pc EXCEPT ![w] = "discard"]
  /\ err' = [err EXCEPT ![w] = "other"]
  /\ txFailed' = TRUE
  /\ UNCHANGED <<cacheVars, storeVars, lock, evs, applied, attempt,
                 position, folded, result, overlapped>>

\* The caller's context is cancelled: database/sql rolls the transaction back
\* and the next statement reports it.
Cancelled(w) ==
  /\ pc[w] = "apply"
  /\ pc' = [pc EXCEPT ![w] = "discard"]
  /\ lock' = lock \ {w}
  /\ err' = [err EXCEPT ![w] = "other"]
  /\ txFailed' = TRUE
  /\ UNCHANGED <<cacheVars, storeVars, evs, applied, attempt, position,
                 folded, result, overlapped>>

\* COMMIT makes the rows and the cursor durable and frees the write lock.
Commit(w) ==
  /\ pc[w] = "apply"
  /\ applied[w] = Len(evs[w])
  /\ log' = log \o evs[w]
  /\ cursor' = Len(log')
  /\ position' = [position EXCEPT ![w] = Len(log')]
  /\ folded' = result
  /\ lock' = lock \ {w}
  /\ pc' = [pc EXCEPT ![w] = "promote"]
  /\ UNCHANGED <<cacheVars, latestPosition, evs, applied, attempt, err,
                 result, txFailed, overlapped>>

PromoteCache(w) ==
  /\ pc[w] = "promote"
  /\ Promote
  /\ pc' = [pc EXCEPT ![w] = "publish"]
  /\ UNCHANGED <<storeVars, lock, evs, applied, attempt, err, position,
                 history>>

\* Mutant: the position is only taken when it is the next one.
MutPublishedInOrder(w) ==
  IF position[w] = latestPosition + 1 THEN position[w] ELSE latestPosition

\* Append raises latestPosition to its position; AppendBatch assigns it.
Published(w) ==
  IF w \in BatchWriters \/ position[w] > latestPosition
  THEN position[w] ELSE latestPosition

\* latestPosition is updated, the tailer is woken and the append returns.
Publish(w) ==
  /\ pc[w] = "publish"
  /\ latestPosition' = Published(w)
  /\ pc' = [pc EXCEPT ![w] = "idle"]
  /\ evs' = [evs EXCEPT ![w] = << >>]
  /\ applied' = [applied EXCEPT ![w] = 0]
  /\ attempt' = [attempt EXCEPT ![w] = 0]
  /\ position' = [position EXCEPT ![w] = 0]
  /\ UNCHANGED <<cacheVars, log, cursor, lock, err, history>>

\* The deferred clean-up of a transaction that did not commit: first the
\* projectors drop their pending state ...
DiscardCache(w) ==
  /\ pc[w] = "discard"
  /\ Discard
  /\ pc' = [pc EXCEPT ![w] = "rollback"]
  /\ UNCHANGED <<storeVars, lock, evs, applied, attempt, err, position,
                 history>>

\* ... then the transaction is rolled back.  withRetry tries again if the
\* error was SQLITE_BUSY and attempts are left; otherwise, or when the context
\* is cancelled during the back-off, the append returns the error.
Rollback(w) ==
  /\ pc[w] = "rollback"
  /\ lock' = lock \ {w}
  /\ applied' = [applied EXCEPT ![w] = 0]
  /\ err' = [err EXCEPT ![w] = "nil"]
  /\ \/ /\ err[w] = "busy"
        /\ attempt[w] < MaxAttempts
        /\ pc' = [pc EXCEPT ![w] = "begin"]
        /\ attempt' = [attempt EXCEPT ![w] = @ + 1]
        /\ UNCHANGED evs
     \/ /\ pc' = [pc EXCEPT ![w] = "idle"]
        /\ evs' = [evs EXCEPT ![w] = << >>]
        /\ attempt' = [attempt EXCEPT ![w] = 0]
  /\ UNCHANGED <<cacheVars, storeVars, position, history>>

-----------------------------------------------------------------------------
\* The steps of an append once it is called.
Step(w) ==
  \/ Insert(w) \/ InsertBusy(w) \/ ApplyNext(w) \/ Fail(w) \/ Cancelled(w)
  \/ Commit(w) \/ PromoteCache(w) \/ Publish(w)
  \/ DiscardCache(w) \/ Rollback(w)

Next == \E w \in Writers : Call(w) \/ Step(w)

Spec == Init /\ [][Next]_vars

\* A goroutine inside an append keeps running; nothing forces a caller to
\* append again.
FairSpec == Spec /\ \A w \in Writers : WF_vars(Step(w))

-----------------------------------------------------------------------------
TypeOK ==
  /\ CacheTypeOK
  /\ log \in Seq(Events)
  /\ cursor = Len(log)
  /\ latestPosition \in 0 .. Len(log)
  /\ lock \subseteq Writers
  /\ pc \in [Writers -> PCs]
  /\ evs \in [Writers -> Seq(Events)]
  /\ applied \in [Writers -> Nat]
  /\ attempt \in [Writers -> 0 .. MaxAttempts]
  /\ err \in [Writers -> {"nil", "busy", "other"}]
  /\ position \in [Writers -> 0 .. Len(log)]
  /\ folded \in Maps
  /\ result \in Maps
  /\ txFailed \in BOOLEAN
  /\ overlapped \in BOOLEAN

Quiescent == \A w \in Writers : pc[w] = "idle"

\* Between appends the cache is the committed log applied in order: a map
\* built in a transaction is published if and only if the transaction commits.
CacheLockstep == Quiescent => current = folded

\* As long as no transaction has failed, concurrent appends may
\* publish each other's half-finished maps and still leave the cache in
\* lockstep with the log when they are done.
FailureFreeLockstep == ~txFailed => CacheLockstep

\* As long as no append is called while another one runs, the cache is never
\* wrong, whatever fails: readers see every committed event and no other,
\* except between a commit and its Promote.
SerialLockstep ==
  ~overlapped /\ (\A w \in Writers : pc[w] # "promote") => current = folded

\* The cache is in lockstep with the log unless an append failed and an append
\* overlapped another one (Append, appendTx, Promote, Discard).
Lockstep == FailureFreeLockstep /\ SerialLockstep

\* The write lock is held by at most one writer, and by any writer that is
\* applying events.
LockInv ==
  /\ \A u, w \in lock : u = w
  /\ \A w \in lock : pc[w] \in {"apply", "discard", "rollback"}
  /\ \A w \in Writers : pc[w] = "apply" => w \in lock

\* The map a serial execution of the transactions would have reached: the
\* committed events, and those the open transaction has applied so far.
Intended ==
  IF \E w \in Writers : pc[w] = "apply" THEN result ELSE folded

\* Until something fails the map under construction, or else the promoted one,
\* is the intended one, and a map is only left under construction by a
\* transaction that will still promote it.
FailureFreeInv ==
  ~txFailed =>
    /\ \A w \in Writers : pc[w] \notin {"discard", "rollback"}
    /\ Base = Intended
    /\ pending # Nil => \E w \in Writers : pc[w] \in {"apply", "promote"}

\* The same, for one append at a time, through every failure.
SerialInv ==
  ~overlapped =>
    /\ \A u, w \in Writers : pc[u] # "idle" /\ pc[w] # "idle" => u = w
    /\ pending # Nil => \E w \in Writers : pc[w] \in {"apply", "discard", "promote"}
    /\ (\A w \in Writers : pc[w] # "promote") => current = folded
    /\ \A w \in Writers : pc[w] = "apply" => Base = result
    /\ \A w \in Writers : pc[w] = "promote" => Base = folded

\* An append under way carries at least one event.
RequestInv == \A w \in Writers : pc[w] # "idle" => Len(evs[w]) > 0

\* If the announced position trails the log, the append that will announce the
\* last row is on its way.
AnnounceInv ==
  \/ latestPosition = Len(log)
  \/ \E w \in Writers : pc[w] \in {"promote", "publish"} /\ position[w] = Len(log)

\* LatestPosition is the highest committed position as soon as every append
\* that committed has published.
LatestIsHighest ==
  (\A w \in Writers : pc[w] \notin {"promote", "publish"})
    => latestPosition = Len(log)

\* The position the tailer and the subscribers wait on never goes back, in
\* whatever order concurrent appends get to publish theirs.
LatestNeverRegresses == [][latestPosition' >= latestPosition]_vars

\* The store promises its readers the abstract log: rows are only added, and
\* every committed position is eventually announced.  Its row is the event, its
\* announced position Store.latestPosition.
Log == INSTANCE EventLog WITH log <- log, latestPosition <- latestPosition
ImplementsLog == Log!Spec
=============================================================================
