------------------------------ MODULE Dispatch ------------------------------
(***************************************************************************)
(* The life of one driver connection (internal/carport/instance.go): the   *)
(* calls of Host.Dispatch that send commands over it (dispatch.go), the    *)
(* reader goroutine that takes results and driver events from the Run      *)
(* stream, and the supervisor that wires the ingest hook (supervisor.go).  *)
(*                                                                         *)
(* A command is an element of Commands and stands for its command_id and   *)
(* for the goroutine that dispatches it.  Driver events are numbered in    *)
(* the order the driver sends them.  The log is what this connection adds  *)
(* to the event store; an append may fail for the sources MayFail names.   *)
(***************************************************************************)
EXTENDS Naturals, Sequences, FiniteSets, Functions

CONSTANTS
  Commands,       \* one per call of Dispatch
  MayFail,        \* which appends may fail: "issued", "ack", "ingest", "entity"
  Window,         \* flow control: commands the stream takes before it blocks
  MaxEvents,      \* bound: events the driver sends
  MaxAnswers      \* bound: results the driver sends for one command

ASSUME DispatchAssumption ==
  /\ MayFail \subseteq {"issued", "ack", "ingest", "entity"}
  /\ Window \in Nat
  /\ MaxEvents \in Nat
  /\ MaxAnswers \in Nat

VARIABLES
  published,      \* managedInstance: state is running and conn is this one
  closed,         \* instanceConn.closed
  pending,        \* instanceConn.pending: the commands in the map
  closing,        \* what failAll took from the map and has not closed yet
  chan,           \* the channel of each command
  up,             \* the Run stream is usable
  toDriver,       \* commands in the stream, not yet read by the driver
  held,           \* commands the driver has read
  wire,           \* messages of the driver, not yet read by the host
  callPc,         \* where each Dispatch is
  outcome,        \* what SendCommand gave it
  readerPc,       \* where the reader goroutine is
  inHand,         \* the message the reader works on
  hooked,         \* instanceConn.ingestHook is set
  queue,          \* instanceConn.preHookQueue
  superPc,        \* where the supervisor is
  drain,          \* the queued messages setIngestHook still has to ingest
  log,            \* what was appended
  answered,       \* how often the driver answered each command
  verdict,        \* the answer it gives
  events,         \* how many events the driver has sent
  received,       \* how many of them the reader has taken
  panicked        \* a send on a closed channel

connVars == <<closed, pending, closing, chan, up>>
driverVars == <<toDriver, held, wire, answered, verdict, events>>
callVars == <<callPc, outcome>>
readerVars == <<readerPc, inHand, received>>
superVars == <<published, hooked, queue, superPc, drain>>
vars == <<connVars, driverVars, callVars, readerVars, superVars, log, panicked>>

-----------------------------------------------------------------------------
Verdicts == {"ok", "error"}
Failures == {"timeout", "canceled", "closed", "send"}
Outcomes == {"none", "not_running", "unlogged"} \cup Verdicts \cup Failures

Nothing == [kind |-> "none"]
Result(c) == [kind |-> "result", command |-> c, value |-> verdict[c]]
Event(n) == [kind |-> "event", number |-> n]

Issued(c) == [kind |-> "issued", command |-> c]
Ack(c, value) == [kind |-> "ack", command |-> c, value |-> value]
Entity == [kind |-> "entity"]

Init ==
  /\ published = FALSE
  /\ closed = FALSE
  /\ pending = {}
  /\ closing = {}
  /\ chan = [c \in Commands |-> "none"]
  /\ up = TRUE
  /\ toDriver = {}
  /\ held = {}
  /\ wire = <<>>
  /\ callPc = [c \in Commands |-> "idle"]
  /\ outcome = [c \in Commands |-> "none"]
  /\ readerPc = "recv"
  /\ inHand = Nothing
  /\ hooked = FALSE
  /\ queue = <<>>
  /\ superPc = "handshake"
  /\ drain = <<>>
  /\ log = <<>>
  /\ answered = [c \in Commands |-> 0]
  /\ verdict \in [Commands -> Verdicts]
  /\ events = 0
  /\ received = 0
  /\ panicked = FALSE

\* Store.Append of an entry: it is added to the log, or the call fails.
Appends(entry) == log' = Append(log, entry)
Fails(source) == source \in MayFail /\ UNCHANGED log

\* Close and failAll under the lock: the stream ends, and the waiters leave the
\* map.  Their channels are closed after the lock is released.
ShutConn ==
  /\ up' = FALSE
  /\ closed' = TRUE
  /\ closing' = closing \cup pending
  /\ pending' = {}
  /\ UNCHANGED chan

\* The loop of failAll, or of Close, after the lock.
CloseChannel(c) ==
  /\ c \in closing
  /\ closing' = closing \ {c}
  /\ chan' = [chan EXCEPT ![c] = IF @ = "open" THEN "closed" ELSE @]
  /\ UNCHANGED <<closed, pending, up, driverVars, callVars, readerVars,
                 superVars, log, panicked>>

-----------------------------------------------------------------------------
(* Host.Dispatch and instanceConn.SendCommand.                              *)

Goto(c, place) == callPc' = [callPc EXCEPT ![c] = place]
Ends(c, what) == outcome' = [outcome EXCEPT ![c] = what]

\* The instance's state and connection are read under its lock.
DispatchStart(c) ==
  /\ callPc[c] = "idle"
  /\ \/ published /\ Goto(c, "issue") /\ UNCHANGED outcome
     \/ ~published /\ Goto(c, "done") /\ Ends(c, "not_running")
  /\ UNCHANGED <<connVars, driverVars, readerVars, superVars, log, panicked>>

Issue(c) ==
  /\ callPc[c] = "issue"
  /\ \/ Appends(Issued(c)) /\ Goto(c, "register") /\ UNCHANGED outcome
     \/ Fails("issued") /\ Goto(c, "done") /\ Ends(c, "unlogged")
  /\ UNCHANGED <<connVars, driverVars, readerVars, superVars, panicked>>

\* Mutant: nobody looks at closed.
MutRegisterWaiter(c) ==
  /\ callPc[c] = "register"
  /\ pending' = pending \cup {c}
  /\ chan' = [chan EXCEPT ![c] = "open"]
  /\ Goto(c, "send")
  /\ UNCHANGED <<outcome, closed, closing, up, driverVars, readerVars, superVars,
                 log, panicked>>

RegisterWaiter(c) ==
  /\ callPc[c] = "register"
  /\ \/ closed /\ Goto(c, "ack") /\ Ends(c, "closed") /\ UNCHANGED <<pending, chan>>
     \/ /\ ~closed
        /\ pending' = pending \cup {c}
        /\ chan' = [chan EXCEPT ![c] = "open"]
        /\ Goto(c, "send")
        /\ UNCHANGED outcome
  /\ UNCHANGED <<closed, closing, up, driverVars, readerVars, superVars, log,
                 panicked>>

\* stream.Send: it waits while the window is full, and takes no context.
Send(c) ==
  /\ callPc[c] = "send"
  /\ up
  /\ Cardinality(toDriver) < Window
  /\ toDriver' = toDriver \cup {c}
  /\ Goto(c, "wait")
  /\ UNCHANGED <<connVars, held, wire, answered, verdict, events, outcome, readerVars,
                 superVars, log, panicked>>

SendError(c) ==
  /\ callPc[c] = "send"
  /\ ~up
  /\ pending' = pending \ {c}
  /\ Goto(c, "ack") /\ Ends(c, "send")
  /\ UNCHANGED <<closed, closing, chan, up, driverVars, readerVars, superVars,
                 log, panicked>>

\* The channel holds a result.
TakeResult(c) ==
  /\ callPc[c] = "wait"
  /\ chan[c] \in Verdicts
  /\ Goto(c, "ack") /\ Ends(c, chan[c])
  /\ UNCHANGED <<connVars, driverVars, readerVars, superVars, log, panicked>>

\* The channel is closed.
TakeClosed(c) ==
  /\ callPc[c] = "wait"
  /\ chan[c] = "closed"
  /\ Goto(c, "ack") /\ Ends(c, "closed")
  /\ UNCHANGED <<connVars, driverVars, readerVars, superVars, log, panicked>>

\* The context ends or the deadline passes; the select may choose this although
\* a result is there.
GiveUp(c) ==
  /\ callPc[c] = "wait"
  /\ pending' = pending \ {c}
  /\ Goto(c, "ack")
  /\ \E why \in {"timeout", "canceled"} : Ends(c, why)
  /\ UNCHANGED <<closed, closing, chan, up, driverVars, readerVars, superVars,
                 log, panicked>>

\* The append of CommandAck, with a context of its own; its error is logged.
AppendAck(c) ==
  /\ callPc[c] = "ack"
  /\ Appends(Ack(c, outcome[c])) \/ Fails("ack")
  /\ Goto(c, "done")
  /\ UNCHANGED <<connVars, driverVars, outcome, readerVars, superVars, panicked>>

-----------------------------------------------------------------------------
(* The reader goroutine.                                                    *)

\* Mutant: the result goes to whoever waits.
MutAnyWaiter ==
  /\ readerPc = "recv"
  /\ wire # <<>> /\ Head(wire).kind = "result"
  /\ wire' = Tail(wire)
  /\ \/ \E c \in pending :
          /\ pending' = pending \ {c}
          /\ inHand' = [Head(wire) EXCEPT !.command = c]
          /\ readerPc' = "deliver"
     \/ pending = {} /\ UNCHANGED <<pending, inHand, readerPc>>
  /\ UNCHANGED <<closed, closing, chan, up, toDriver, held, answered, verdict,
                 events, callVars, received, superVars, log, panicked>>

\* Mutant: the waiter stays in the map.
MutReadResult ==
  /\ readerPc = "recv"
  /\ wire # <<>> /\ Head(wire).kind = "result"
  /\ wire' = Tail(wire)
  /\ Head(wire).command \in pending
  /\ inHand' = Head(wire)
  /\ readerPc' = "deliver"
  /\ UNCHANGED <<pending, closed, closing, chan, up, toDriver, held, answered,
                 verdict, events, callVars, received, superVars, log, panicked>>

\* deliver, under the lock: the waiter leaves the map.
ReadResult ==
  /\ readerPc = "recv"
  /\ wire # <<>> /\ Head(wire).kind = "result"
  /\ wire' = Tail(wire)
  /\ LET c == Head(wire).command
     IN \/ /\ c \in pending
           /\ pending' = pending \ {c}
           /\ inHand' = Head(wire)
           /\ readerPc' = "deliver"
        \/ c \notin pending /\ UNCHANGED <<pending, inHand, readerPc>>
  /\ UNCHANGED <<closed, closing, chan, up, toDriver, held, answered, verdict, events,
                 callVars, received, superVars, log, panicked>>

\* deliver, after the lock: the send on the buffered channel.
Deliver ==
  /\ readerPc = "deliver"
  /\ chan' = [chan EXCEPT ![inHand.command] = IF @ = "open" THEN inHand.value ELSE @]
  /\ panicked' = (panicked \/ chan[inHand.command] = "closed")
  /\ inHand' = Nothing
  /\ readerPc' = "recv"
  /\ UNCHANGED <<closed, pending, closing, up, driverVars, callVars, received,
                 superVars, log>>

\* Any other message is queued until there is a hook.
ReadEvent ==
  /\ readerPc = "recv"
  /\ wire # <<>> /\ Head(wire).kind = "event"
  /\ wire' = Tail(wire)
  /\ received' = received + 1
  /\ \/ /\ ~hooked
        /\ queue' = Append(queue, Head(wire).number)
        /\ UNCHANGED <<inHand, readerPc>>
     \/ /\ hooked
        /\ inHand' = Head(wire)
        /\ readerPc' = "hook"
        /\ UNCHANGED queue
  /\ UNCHANGED <<connVars, toDriver, held, answered, verdict, events, callVars,
                 published, hooked, superPc, drain, log, panicked>>

\* The hook: the event is appended, or the connection is closed.
Ingest(n) ==
  \/ Appends(Event(n)) /\ UNCHANGED connVars
  \/ Fails("ingest") /\ ShutConn

ReaderIngest ==
  /\ readerPc = "hook"
  /\ Ingest(inHand.number)
  /\ inHand' = Nothing
  /\ readerPc' = "recv"
  /\ UNCHANGED <<driverVars, callVars, received, superVars, panicked>>

\* Recv fails: failAll, the stream error hook, and the goroutine's end.
ReaderExit ==
  /\ readerPc = "recv"
  /\ ~up
  /\ ShutConn
  /\ readerPc' = "exit"
  /\ UNCHANGED <<driverVars, callVars, inHand, received, superVars, log, panicked>>

-----------------------------------------------------------------------------
(* The supervisor, from the handshake's answer to the end of the connection. *)

\* The handshake succeeds, and the connection is published.
Publish ==
  /\ superPc = "handshake"
  /\ published' = TRUE
  /\ superPc' = "entities"
  /\ UNCHANGED <<connVars, driverVars, callVars, readerVars, hooked, queue, drain,
                 log, panicked>>

\* The initial entity is appended; an error is ignored.
InitialEntities ==
  /\ superPc = "entities"
  /\ Appends(Entity) \/ Fails("entity")
  /\ superPc' = "hook"
  /\ UNCHANGED <<connVars, driverVars, callVars, readerVars, published, hooked,
                 queue, drain, panicked>>

\* Mutant: what was queued is not ingested.
MutSetIngestHook ==
  /\ superPc = "hook"
  /\ hooked' = TRUE
  /\ queue' = <<>>
  /\ superPc' = "drain"
  /\ UNCHANGED <<drain, connVars, driverVars, callVars, readerVars, published, log,
                 panicked>>

\* setIngestHook, under the lock.
SetIngestHook ==
  /\ superPc = "hook"
  /\ hooked' = TRUE
  /\ drain' = queue
  /\ queue' = <<>>
  /\ superPc' = "drain"
  /\ UNCHANGED <<connVars, driverVars, callVars, readerVars, published, log,
                 panicked>>

\* setIngestHook, after the lock: the queued messages, one by one.
Drain ==
  /\ superPc = "drain"
  /\ \/ /\ drain # <<>>
        /\ Ingest(Head(drain))
        /\ drain' = Tail(drain)
        /\ UNCHANGED superPc
     \/ /\ drain = <<>>
        /\ superPc' = "health"
        /\ UNCHANGED <<drain, log, connVars>>
  /\ UNCHANGED <<driverVars, callVars, readerVars, published, hooked, queue,
                 panicked>>

\* runHealth has returned: the connection is closed, then forgotten.
CloseConn ==
  /\ superPc = "health"
  /\ ShutConn
  /\ superPc' = "clear"
  /\ UNCHANGED <<driverVars, callVars, readerVars, published, hooked, queue, drain,
                 log, panicked>>

Forget ==
  /\ superPc = "clear"
  /\ published' = FALSE
  /\ superPc' = "gone"
  /\ UNCHANGED <<connVars, driverVars, callVars, readerVars, hooked, queue, drain,
                 log, panicked>>

-----------------------------------------------------------------------------
(* The driver.  It answers the commands it has read in any order, never, or   *)
(* more than once.                                                           *)

DriverReads(c) ==
  /\ c \in toDriver
  /\ toDriver' = toDriver \ {c}
  /\ held' = held \cup {c}
  /\ UNCHANGED <<connVars, wire, answered, verdict, events, callVars, readerVars,
                 superVars, log, panicked>>

DriverAnswers(c) ==
  /\ up
  /\ c \in held
  /\ answered[c] < MaxAnswers
  /\ answered' = [answered EXCEPT ![c] = @ + 1]
  /\ wire' = Append(wire, Result(c))
  /\ UNCHANGED <<connVars, toDriver, held, verdict, events, callVars, readerVars,
                 superVars, log, panicked>>

DriverSendsEvent ==
  /\ up
  /\ events < MaxEvents
  /\ events' = events + 1
  /\ wire' = Append(wire, Event(events'))
  /\ UNCHANGED <<connVars, toDriver, held, answered, verdict, callVars, readerVars,
                 superVars, log, panicked>>

\* The driver ends its stream or dies; what it sent may be lost.
StreamDies ==
  /\ up
  /\ up' = FALSE
  /\ UNCHANGED <<closed, pending, closing, chan, driverVars, callVars, readerVars,
                 superVars, log, panicked>>

-----------------------------------------------------------------------------
DispatchStep(c) ==
  \/ Issue(c) \/ RegisterWaiter(c) \/ Send(c) \/ SendError(c)
  \/ TakeResult(c) \/ TakeClosed(c) \/ GiveUp(c) \/ AppendAck(c)

Reader == ReadResult \/ Deliver \/ ReadEvent \/ ReaderIngest \/ ReaderExit

Supervisor ==
  Publish \/ InitialEntities \/ SetIngestHook \/ Drain \/ CloseConn \/ Forget

Next ==
  \/ \E c \in Commands :
       \/ DispatchStart(c) \/ DispatchStep(c) \/ CloseChannel(c)
       \/ DriverReads(c) \/ DriverAnswers(c)
  \/ Reader
  \/ Supervisor
  \/ DriverSendsEvent
  \/ StreamDies

Spec == Init /\ [][Next]_vars

\* A Dispatch that can go on does: in particular a waiting one gives up in the
\* end, since its context always has a deadline.  Nothing is assumed of the
\* reader, of failAll or of the driver.
Fairness == \A c \in Commands : WF_vars(DispatchStep(c))

FairSpec == Spec /\ Fairness

-----------------------------------------------------------------------------
Waiting(c) == callPc[c] \in {"send", "wait"} /\ chan[c] = "open"
Delivering(c) == readerPc = "deliver" /\ inHand.command = c

\* deliver sends after it has released the lock; failAll never closes the channel
\* it sends on.
NoSendOnClosed == ~panicked

\* Whoever waits is known to somebody who will answer or close the channel: the
\* map of a live connection, the loop of failAll, or deliver (SendCommand).
NoWaiterForgotten ==
  \A c \in Commands :
    Waiting(c) =>
      \/ c \in pending /\ ~closed
      \/ c \in closing
      \/ Delivering(c)

\* An event the reader has taken from the stream is in the log, or on its way
\* there, or the connection is torn down (reader, setIngestHook, INV-2).
NoSilentDrop ==
  \A n \in 1 .. received :
    \/ \E i \in 1 .. Len(log) : log[i] = Event(n)
    \/ ~hooked /\ n \in Range(queue)
    \/ n \in Range(drain)
    \/ readerPc = "hook" /\ inHand.number = n
    \/ ~up

\* The entries of the log about a command, as the ledger has them.
Tells(own, entry, c) ==
  CASE entry.kind = "issued" /\ entry.command = c -> Append(own, "issued")
    [] entry.kind = "ack" /\ entry.command = c -> Append(own, entry.value)
    [] OTHER -> own

Told(l, c) ==
  LET told[n \in 0 .. Len(l)] ==
        IF n = 0 THEN << >> ELSE Tells(told[n - 1], l[n], c)
  IN told

Entries(c) == Told(log, c)[Len(log)]

\* Dispatch keeps the promise of CommandLedger although results arrive late,
\* twice, out of order or never, the stream dies and the connection is closed
\* at any step: what is issued is acknowledged once, with the answer to this
\* very command or a failure, and every Dispatch that has issued returns
\* (Dispatch, SendCommand, deliver, failAll; INV-1 and INV-3 of the design).
Ledger == INSTANCE CommandLedger WITH
  ledger <- [c \in Commands |-> Entries(c)],
  answers <- verdict,
  given <- {c \in Commands : answered[c] > 0},
  returned <- {c \in Commands : callPc[c] = "done"}
ImplementsLedger == Ledger!Spec
=============================================================================
