---------------------------- MODULE Subscriptions ----------------------------
(***************************************************************************)
(* Live subscriptions of the event store (internal/eventstore/subscribe.go *)
(* and tailer.go): the tailer that fans new rows out, the catch-up of a    *)
(* new subscriber and its hand-over to the tailer, Close of a subscription *)
(* and Close of the store.                                                 *)
(*                                                                         *)
(* The log is the environment: rows are committed and later announced, as  *)
(* module EventLog promises.  A row is represented by its kind, and an     *)
(* event in flight by its position.  The channel of a subscriber is what   *)
(* was ever pushed (sent) less what the consumer has taken (received).     *)
(* sendMu is modelled by its readers and by the place of the closer: Go's  *)
(* RWMutex lets no new reader in once a writer waits.                      *)
(***************************************************************************)
EXTENDS Naturals, Sequences

CONSTANTS
  Subs,      \* subscribers
  Kinds,     \* kinds of events
  Filter,    \* Filter[s]: the kinds subscriber s asks for
  Buffer,    \* ChannelBuffer
  Limit,     \* rows a Query returns at most (1000 in the code)
  History,   \* bound: length of the log when the store starts
  MaxLog     \* bound: length of the log

ASSUME SubscriptionAssumption ==
  /\ Filter \in [Subs -> SUBSET Kinds]
  /\ Buffer \in Nat \ {0}
  /\ Limit \in Nat \ {0}
  /\ History \in Nat
  /\ MaxLog \in Nat

VARIABLES
  log, latestPosition,
  \* Store
  subs,        \* Store.subs
  storePc,     \* where Store.Close is
  closing,     \* the subscribers Store.Close still has to close
  awaited,     \* the one whose Close it is in
  \* tailer
  tailPc, cursor, target, snapshot,
  \* one catch-up goroutine per subscriber
  catchPc, from, catchTarget, batch, cancelled,
  \* channel and sendMu
  sent, lastSent, received, readers,
  \* Close of a subscription
  closePc, signalled, isClosed

logVars == <<log, latestPosition>>
storeVars == <<storePc, closing, awaited>>
tailVars == <<tailPc, cursor, target, snapshot>>
catchVars == <<catchPc, catchTarget, batch>>
chanVars == <<sent, lastSent, readers>>
endVars == <<signalled, isClosed>>
vars == <<log, latestPosition, subs, storePc, closing, awaited, tailPc, cursor,
          target, snapshot, catchPc, from, catchTarget, batch, cancelled,
          sent, lastSent, received, readers, closePc, signalled, isClosed>>

Producers == {"tailer", "catchup"}
TailPcs == {"wait", "query", "dispatch", "each", "check", "put", "exit"}
CatchPcs ==
  {"none", "target", "register", "query", "rlock", "check", "put", "close",
   "exit"}
ClosePcs == {"none", "unregister", "signal", "lock", "pending", "done"}

Init ==
  /\ \E n \in 0 .. History : log \in [1 .. n -> Kinds]
  /\ latestPosition = Len(log)
  /\ subs = {} /\ storePc = "open" /\ closing = {} /\ awaited = {}
  /\ tailPc = "wait"
  /\ cursor = latestPosition /\ target = latestPosition
  /\ snapshot = {}
  /\ catchPc = [s \in Subs |-> "none"]
  /\ from = [s \in Subs |-> 0]
  /\ catchTarget = [s \in Subs |-> 0]
  /\ batch = [s \in Subs |-> {}]
  /\ cancelled = {}
  /\ sent = [s \in Subs |-> << >>]
  /\ lastSent = [s \in Subs |-> 0]
  /\ received = [s \in Subs |-> 0]
  /\ readers = [s \in Subs |-> {}]
  /\ closePc = [s \in Subs |-> "none"]
  /\ signalled = {} /\ isClosed = {}

-----------------------------------------------------------------------------
(* The log: a row is committed, and later its position is announced. *)

CommitRow ==
  /\ Len(log) < MaxLog
  /\ \E k \in Kinds : log' = Append(log, k)
  /\ UNCHANGED latestPosition

Announce ==
  /\ latestPosition' \in latestPosition + 1 .. Len(log)
  /\ UNCHANGED log

Environment ==
  /\ CommitRow \/ Announce
  /\ UNCHANGED <<subs, storeVars, tailVars, catchVars, from, cancelled,
                 chanVars, received, closePc, endVars>>

Matches(s, p) == log[p] \in Filter[s]

\* The positions Query reads: LIMIT counts rows, before any filter.
Rows(lo, hi) == {p \in lo + 1 .. hi : p <= lo + Limit}

-----------------------------------------------------------------------------
(* Channel and sendMu *)

\* RLock: a waiting writer keeps new readers out.
MayRLock(s) == closePc[s] # "pending"
RLock(s, p) == readers' = [readers EXCEPT ![s] = @ \cup {p}]
RUnlock(s, p) == readers' = [readers EXCEPT ![s] = @ \ {p}]

HasRoom(s) == Len(sent[s]) - received[s] < Buffer

\* The event is pushed and lastSent records it.
Push(s, p) ==
  /\ sent' = [sent EXCEPT ![s] = Append(@, p)]
  /\ lastSent' = [lastSent EXCEPT ![s] = p]

-----------------------------------------------------------------------------
(* Close of a subscription.  closeOnce lets the first caller in; the body   *)
(* is a process of its own, whoever that caller is.                         *)

BeginClose(s) ==
  closePc' = IF closePc[s] = "none" THEN [closePc EXCEPT ![s] = "unregister"]
             ELSE closePc

\* unregisterSubscriber, under Store.mu.
CloseUnregister(s) ==
  /\ closePc[s] = "unregister"
  /\ closePc' = [closePc EXCEPT ![s] = "signal"]
  /\ subs' = subs \ {s}
  /\ UNCHANGED endVars

\* Mutant: the closed channel is not closed before sendMu is taken.
MutCloseSignal(s) ==
  /\ closePc[s] = "signal"
  /\ closePc' = [closePc EXCEPT ![s] = "lock"]
  /\ UNCHANGED <<subs, endVars>>

\* close(sub.closed): a blocked blockingSend may return.
CloseSignal(s) ==
  /\ closePc[s] = "signal"
  /\ closePc' = [closePc EXCEPT ![s] = "lock"]
  /\ signalled' = signalled \cup {s}
  /\ UNCHANGED <<subs, isClosed>>

\* sendMu.Lock() is called: from here on no new reader gets in.
CloseLock(s) ==
  /\ closePc[s] = "lock"
  /\ closePc' = [closePc EXCEPT ![s] = "pending"]
  /\ UNCHANGED <<subs, endVars>>

\* Mutant: Close does not wait for the producers inside sendMu.
MutCloseChannel(s) ==
  /\ closePc[s] = "pending"
  /\ closePc' = [closePc EXCEPT ![s] = "done"]
  /\ isClosed' = isClosed \cup {s}
  /\ UNCHANGED <<subs, signalled>>

\* Lock() returns when the last reader has left; isClosed is set, the channel
\* closed and the lock released.
CloseChannel(s) ==
  /\ closePc[s] = "pending"
  /\ readers[s] = {}
  /\ closePc' = [closePc EXCEPT ![s] = "done"]
  /\ isClosed' = isClosed \cup {s}
  /\ UNCHANGED <<subs, signalled>>

Close(s) ==
  /\ \/ CloseUnregister(s) \/ CloseSignal(s) \/ CloseLock(s)
     \/ CloseChannel(s)
  /\ UNCHANGED <<logVars, storeVars, tailVars, catchVars, from, cancelled,
                 chanVars, received>>

-----------------------------------------------------------------------------
(* The consumer *)

Subscribe(s) ==
  /\ catchPc[s] = "none"
  /\ \E p \in 0 .. MaxLog :
       /\ from' = [from EXCEPT ![s] = p]
       /\ lastSent' = [lastSent EXCEPT ![s] = p]
  /\ catchPc' = [catchPc EXCEPT ![s] = "target"]
  /\ UNCHANGED <<cancelled, received, closePc>>

\* An event is taken from the channel.
Receive(s) ==
  /\ received[s] < Len(sent[s])
  /\ received' = [received EXCEPT ![s] = @ + 1]
  /\ UNCHANGED <<catchPc, from, lastSent, cancelled, closePc>>

ConsumerClose(s) ==
  /\ catchPc[s] # "none"
  /\ closePc[s] = "none"
  /\ BeginClose(s)
  /\ UNCHANGED <<catchPc, from, lastSent, cancelled, received>>

\* The context passed to Subscribe is cancelled.
CancelContext(s) ==
  /\ catchPc[s] # "none"
  /\ s \notin cancelled
  /\ cancelled' = cancelled \cup {s}
  /\ UNCHANGED <<catchPc, from, lastSent, received, closePc>>

Consumer(s) ==
  /\ Subscribe(s) \/ Receive(s) \/ ConsumerClose(s) \/ CancelContext(s)
  /\ UNCHANGED <<logVars, subs, storeVars, tailVars, catchTarget, batch, sent,
                 readers, endVars>>

-----------------------------------------------------------------------------
(* The catch-up goroutine *)

Goto(s, place) == catchPc' = [catchPc EXCEPT ![s] = place]

\* The top of the loop reads latestPosition.
CatchupTarget(s) ==
  /\ catchPc[s] = "target"
  /\ catchTarget' = [catchTarget EXCEPT ![s] = latestPosition]
  /\ Goto(s, IF lastSent[s] >= latestPosition THEN "register" ELSE "query")
  /\ UNCHANGED <<subs, batch, chanVars, closePc>>

\* Mutant: latestPosition is not read again under the lock.
MutRegister(s) ==
  /\ catchPc[s] = "register"
  /\ Goto(s, "exit")
  /\ subs' = subs \cup {s}
  /\ UNCHANGED <<catchTarget, batch, chanVars, closePc>>

\* Under Store.mu: register, unless rows were announced in the meantime.
Register(s) ==
  /\ catchPc[s] = "register"
  /\ \/ /\ latestPosition > lastSent[s]
        /\ Goto(s, "target")
        /\ UNCHANGED subs
     \/ /\ latestPosition <= lastSent[s]
        /\ Goto(s, "exit")
        /\ subs' = subs \cup {s}
  /\ UNCHANGED <<catchTarget, batch, chanVars, closePc>>

\* A page is read; a page without a match moves lastSent to the target.
CatchupQuery(s) ==
  /\ catchPc[s] = "query"
  /\ s \notin cancelled
  /\ batch' = [batch EXCEPT
       ![s] = {p \in Rows(lastSent[s], catchTarget[s]) : Matches(s, p)}]
  /\ \/ /\ batch'[s] = {}
        /\ lastSent' = [lastSent EXCEPT ![s] = catchTarget[s]]
        /\ Goto(s, "target")
     \/ /\ batch'[s] # {}
        /\ UNCHANGED lastSent
        /\ Goto(s, "rlock")
  /\ UNCHANGED <<subs, catchTarget, sent, readers, closePc>>

\* Query fails: the goroutine will close the subscription.
CatchupQueryFails(s) ==
  /\ catchPc[s] = "query"
  /\ Goto(s, "close")
  /\ UNCHANGED <<subs, catchTarget, batch, chanVars, closePc>>

\* blockingSend: RLock, ...
CatchupRLock(s) ==
  /\ catchPc[s] = "rlock"
  /\ MayRLock(s)
  /\ RLock(s, "catchup")
  /\ Goto(s, "check")
  /\ UNCHANGED <<subs, catchTarget, batch, sent, lastSent, closePc>>

\* A send that failed ends catch-up: an error if the context is cancelled.
CatchupReturn(s) ==
  /\ Goto(s, IF s \in cancelled THEN "close" ELSE "exit")
  /\ RUnlock(s, "catchup")

\* ... return if the subscriber is closed, or wait in the select ...
CatchupCheck(s) ==
  /\ catchPc[s] = "check"
  /\ \/ s \in isClosed /\ CatchupReturn(s)
     \/ s \notin isClosed /\ Goto(s, "put") /\ UNCHANGED readers
  /\ UNCHANGED <<subs, catchTarget, batch, sent, lastSent, closePc>>

\* ... for room in the channel ...
CatchupPut(s) ==
  /\ catchPc[s] = "put"
  /\ HasRoom(s)
  /\ \E p \in batch[s] :
       /\ \A q \in batch[s] : p <= q
       /\ Push(s, p)
       /\ batch' = [batch EXCEPT ![s] = @ \ {p}]
  /\ Goto(s, IF batch'[s] = {} THEN "target" ELSE "rlock")
  /\ RUnlock(s, "catchup")
  /\ UNCHANGED <<subs, catchTarget, closePc>>

\* ... or for Close or the cancelled context.
CatchupGiveUp(s) ==
  /\ catchPc[s] = "put"
  /\ s \in signalled \cup cancelled
  /\ CatchupReturn(s)
  /\ UNCHANGED <<subs, catchTarget, batch, sent, lastSent, closePc>>

CatchupClose(s) ==
  /\ catchPc[s] = "close"
  /\ BeginClose(s)
  /\ Goto(s, "exit")
  /\ UNCHANGED <<subs, catchTarget, batch, chanVars>>

Catchup(s) ==
  /\ \/ CatchupTarget(s) \/ Register(s) \/ CatchupQuery(s)
     \/ CatchupQueryFails(s) \/ CatchupRLock(s) \/ CatchupCheck(s)
     \/ CatchupPut(s) \/ CatchupGiveUp(s) \/ CatchupClose(s)
  /\ UNCHANGED <<logVars, storeVars, tailVars, from, cancelled, received,
                 endVars>>

-----------------------------------------------------------------------------
(* The tailer.  Its batch is the rows after cursor, up to target. *)

TailerWake ==
  /\ tailPc = "wait" /\ tailPc' = "query"
  /\ storePc = "open"
  /\ cursor < latestPosition
  /\ target' = latestPosition
  /\ UNCHANGED <<subs, cursor, snapshot, chanVars, closePc>>

\* The unfiltered page: the rest is left for the next round.
TailerQuery ==
  /\ tailPc = "query" /\ tailPc' = "dispatch"
  /\ storePc = "open"
  /\ target' \in Rows(cursor, target)
  /\ \A p \in Rows(cursor, target) : p <= target'
  /\ UNCHANGED <<subs, cursor, snapshot, chanVars, closePc>>

\* Mutant: the tailer ends when a query fails.
MutTailerQueryFails ==
  /\ tailPc = "query" /\ tailPc' = "exit"
  /\ UNCHANGED <<subs, cursor, target, snapshot, chanVars, closePc>>

\* Query fails, for a transient reason or because the store is closing.
TailerQueryFails ==
  /\ tailPc = "query" /\ tailPc' = "wait"
  /\ UNCHANGED <<subs, cursor, target, snapshot, chanVars, closePc>>

\* dispatch copies the subscriber list under Store.mu.
Dispatch ==
  /\ tailPc = "dispatch" /\ tailPc' = "each"
  /\ snapshot' = subs
  /\ UNCHANGED <<subs, cursor, target, chanVars, closePc>>

\* Mutant: events that catch-up has delivered are not skipped.
MutWanted(s) == Matches(s, cursor + 1)

Wanted(s) == Matches(s, cursor + 1) /\ lastSent[s] < cursor + 1

\* The subscriber does not want the event, or has had it from catch-up.
DispatchSkip(s) ==
  /\ tailPc = "each"
  /\ s \in snapshot
  /\ ~ Wanted(s)
  /\ snapshot' = snapshot \ {s}
  /\ UNCHANGED <<subs, tailPc, cursor, target, chanVars, closePc>>

\* trySend: RLock, ...
DispatchRLock(s) ==
  /\ tailPc = "each" /\ tailPc' = "check"
  /\ s \in snapshot
  /\ Wanted(s)
  /\ MayRLock(s)
  /\ RLock(s, "tailer")
  /\ UNCHANGED <<subs, cursor, target, snapshot, sent, lastSent, closePc>>

InSend(s) == "tailer" \in readers[s]

\* trySend returns and the loop over the copy goes on.
DispatchNext(s) ==
  /\ RUnlock(s, "tailer")
  /\ snapshot' = snapshot \ {s}
  /\ tailPc' = "each"

\* ... skip a closed subscriber silently, ...
DispatchCheck(s) ==
  /\ tailPc = "check"
  /\ InSend(s)
  /\ \/ s \in isClosed /\ DispatchNext(s)
     \/ s \notin isClosed /\ tailPc' = "put" /\ UNCHANGED <<readers, snapshot>>
  /\ UNCHANGED <<subs, cursor, target, sent, lastSent, closePc>>

\* ... push without blocking, ...
DispatchPut(s) ==
  /\ tailPc = "put"
  /\ InSend(s)
  /\ HasRoom(s)
  /\ Push(s, cursor + 1)
  /\ DispatchNext(s)
  /\ UNCHANGED <<subs, cursor, target, closePc>>

\* ... or give a slow consumer up: it is unregistered and a goroutine of its
\* own closes it.
DispatchDrop(s) ==
  /\ tailPc = "put"
  /\ InSend(s)
  /\ ~ HasRoom(s)
  /\ DispatchNext(s)
  /\ subs' = subs \ {s}
  /\ BeginClose(s)
  /\ UNCHANGED <<cursor, target, sent, lastSent>>

\* dispatch returns and the tailer takes the next row of its batch, or waits.
TailerAdvance ==
  /\ tailPc = "each"
  /\ snapshot = {}
  /\ cursor' = cursor + 1
  /\ tailPc' = IF cursor + 1 = target THEN "wait" ELSE "dispatch"
  /\ UNCHANGED <<subs, target, snapshot, chanVars, closePc>>

TailerExit ==
  /\ tailPc = "wait" /\ tailPc' = "exit"
  /\ storePc # "open"
  /\ UNCHANGED <<subs, cursor, target, snapshot, chanVars, closePc>>

Tailer ==
  /\ \/ TailerWake \/ TailerQuery \/ TailerQueryFails \/ Dispatch
     \/ \E s \in Subs :
          \/ DispatchSkip(s) \/ DispatchRLock(s) \/ DispatchCheck(s)
          \/ DispatchPut(s) \/ DispatchDrop(s)
     \/ TailerAdvance \/ TailerExit
  /\ UNCHANGED <<logVars, storeVars, catchVars, from, cancelled, received,
                 endVars>>

-----------------------------------------------------------------------------
(* Close of the store *)

\* The tailer's context is cancelled and the tailer woken.
StoreClose ==
  /\ storePc = "open" /\ storePc' = "wait"
  /\ UNCHANGED <<subs, closing, awaited, closePc>>

\* When the tailer is gone the subscribers are taken off the list ...
StoreCloseTake ==
  /\ storePc = "wait" /\ storePc' = "close"
  /\ tailPc = "exit"
  /\ closing' = subs
  /\ subs' = {}
  /\ UNCHANGED <<awaited, closePc>>

\* ... and closed one after the other; a Close already under way is awaited.
StoreCloseBegin(s) ==
  /\ storePc = "close"
  /\ awaited = {} /\ awaited' = {s}
  /\ s \in closing
  /\ closing' = closing \ {s}
  /\ BeginClose(s)
  /\ UNCHANGED <<subs, storePc>>

StoreCloseNext(s) ==
  /\ s \in awaited /\ awaited' = {}
  /\ closePc[s] = "done"
  /\ UNCHANGED <<subs, storePc, closing, closePc>>

StoreCloseReturn ==
  /\ storePc = "close" /\ storePc' = "closed"
  /\ closing = {} /\ awaited = {}
  /\ UNCHANGED <<subs, closing, awaited, closePc>>

\* Store.Close once it is called.
Closing ==
  /\ \/ StoreCloseTake
     \/ \E s \in Subs : StoreCloseBegin(s) \/ StoreCloseNext(s)
     \/ StoreCloseReturn
  /\ UNCHANGED <<logVars, tailVars, catchVars, from, cancelled, chanVars,
                 received, endVars>>

CallStoreClose ==
  /\ StoreClose
  /\ UNCHANGED <<logVars, tailVars, catchVars, from, cancelled, chanVars,
                 received, endVars>>

-----------------------------------------------------------------------------
Next ==
  \/ Environment
  \/ Tailer
  \/ CallStoreClose \/ Closing
  \/ \E s \in Subs : Consumer(s) \/ Catchup(s) \/ Close(s)

Spec == Init /\ [][Next]_vars

\* The goroutines of the store keep running, and a query that is tried again
\* and again succeeds in the end.  Nothing is assumed of the consumers.
Fairness ==
  /\ WF_vars(Tailer) /\ SF_vars(Tailer /\ TailerQuery) /\ WF_vars(Closing)
  /\ \A s \in Subs : WF_vars(Catchup(s)) /\ WF_vars(Close(s))

FairSpec == Spec /\ Fairness

-----------------------------------------------------------------------------
TypeOK ==
  /\ log \in Seq(Kinds)
  /\ latestPosition \in 0 .. Len(log)
  /\ subs \subseteq Subs
  /\ storePc \in {"open", "wait", "close", "closed"}
  /\ closing \subseteq Subs
  /\ awaited \subseteq Subs
  /\ tailPc \in TailPcs
  /\ cursor \in 0 .. latestPosition
  /\ target \in 0 .. latestPosition
  /\ snapshot \subseteq Subs
  /\ catchPc \in [Subs -> CatchPcs]
  /\ from \in [Subs -> Nat]
  /\ catchTarget \in [Subs -> 0 .. latestPosition]
  /\ batch \in [Subs -> SUBSET (1 .. latestPosition)]
  /\ cancelled \subseteq Subs
  /\ sent \in [Subs -> Seq(Nat)]
  /\ lastSent \in [Subs -> Nat]
  /\ received \in [Subs -> Nat]
  /\ readers \in [Subs -> SUBSET Producers]
  /\ closePc \in [Subs -> ClosePcs]
  /\ signalled \subseteq Subs
  /\ isClosed \subseteq Subs

Delivered(s) == {sent[s][i] : i \in DOMAIN sent[s]}

InOrder(s) ==
  \A i, j \in DOMAIN sent[s] : i < j => sent[s][i] < sent[s][j]

OnlyWanted(s) ==
  \A p \in Delivered(s) : p \in from[s] + 1 .. lastSent[s] /\ Matches(s, p)

NoGap(s) ==
  \A p \in from[s] + 1 .. lastSent[s] : Matches(s, p) => p \in Delivered(s)

\* Through catch-up, hand-over and live delivery a subscriber is sent the rows
\* it asked for in log order, none twice and none left out in between.
DeliveredExactly == \A s \in Subs : InOrder(s) /\ OnlyWanted(s) /\ NoGap(s)

\* A registered subscriber has been sent every row it wants that the tailer
\* has gone past: it can only lose its place by being closed.
NoEventMissed ==
  \A s \in subs \ isClosed : \A p \in from[s] + 1 .. cursor :
    Matches(s, p) => p \in Delivered(s)

\* No producer is about to send on a closed channel, which would panic.
NoSendOnClosed ==
  \A s \in isClosed : catchPc[s] # "put" /\ ~ (tailPc = "put" /\ InSend(s))

\* Close of a subscription returns even when a producer is blocked on its full
\* channel and nobody receives; and so does Close of the store, which waits for
\* the tailer and closes every registered subscription.
CloseReturns ==
  /\ \A s \in Subs : closePc[s] # "none" ~> closePc[s] = "done"
  /\ storePc = "wait" ~> storePc = "closed"

\* An announced row that a subscriber waits for is sent to it, unless it is
\* closed or the store is, if its consumer keeps receiving.
EventuallyDelivered ==
  \A s \in Subs :
    WF_vars(Consumer(s) /\ Receive(s)) =>
      \A p \in 1 .. MaxLog :
        (/\ catchPc[s] # "none"
         /\ p \in from[s] + 1 .. latestPosition
         /\ Matches(s, p))
          ~> p \in Delivered(s) \/ closePc[s] # "none" \/ storePc # "open"

-----------------------------------------------------------------------------
(* The parts of the inductive invariants behind these properties *)

\* The tailer's batch is not empty before its last row is dispatched.
CursorInv ==
  tailPc \in {"query", "dispatch", "each", "check", "put"} => cursor < target

\* A producer between RLock and RUnlock is counted as a reader, and has seen
\* isClosed unset if it is past the check.
SendInv ==
  /\ \A s \in Subs :
       catchPc[s] \in {"check", "put"} => "catchup" \in readers[s]
  /\ \A s \in Subs : InSend(s) => tailPc \in {"check", "put"}
  /\ \A r, s \in Subs : InSend(r) /\ InSend(s) => r = s
  /\ NoSendOnClosed

\* Who may send to a subscriber: its catch-up until it is registered, then the
\* tailer.
HandoverInv ==
  \A s \in Subs :
    /\ s \in subs \cup snapshot => catchPc[s] = "exit"
    /\ InSend(s) => s \in snapshot /\ Wanted(s)
    /\ from[s] <= lastSent[s]
    /\ lastSent[s] = from[s] \/ lastSent[s] <= latestPosition
    /\ catchPc[s] = "none" => sent[s] = << >>
    /\ catchPc[s] = "query" => lastSent[s] < catchTarget[s]

\* The batch of catch-up is the rows it will send next, with nothing between
\* them and what it has sent.
BatchInv ==
  \A s \in Subs : catchPc[s] \in {"rlock", "check", "put"} =>
    /\ batch[s] # {}
    /\ \A b \in batch[s] :
         /\ b > lastSent[s] /\ Matches(s, b)
         /\ \A p \in lastSent[s] + 1 .. b : Matches(s, p) => p \in batch[s]

\* The row the tailer is dispatching has reached every registered subscriber
\* that is not in its copy any more, or never was.
DispatchInv ==
  /\ tailPc \notin {"each", "check", "put"} => snapshot = {}
  /\ tailPc \in {"each", "check", "put"} =>
       \A s \in subs \ (snapshot \cup isClosed) :
         cursor + 1 > from[s] /\ Matches(s, cursor + 1)
           => cursor + 1 \in Delivered(s)
  /\ \A s \in (subs \cup snapshot) \ isClosed :
       \A p \in from[s] + 1 .. cursor : Matches(s, p) => p \in Delivered(s)
=============================================================================
