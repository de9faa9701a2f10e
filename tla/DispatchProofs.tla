--------------------------- MODULE DispatchProofs ---------------------------
(***************************************************************************)
(* What the waiters of a driver connection rely on, for any number of      *)
(* commands, any window and any driver: the map of waiters is the only     *)
(* place from which deliver and failAll take a channel, and whoever takes  *)
(* it from there under the lock has it to itself.                          *)
(***************************************************************************)
EXTENDS Dispatch, SequenceTheorems, TLAPS

Messages ==
  [kind : {"result"}, command : Commands, value : Verdicts]
    \cup [kind : {"event"}, number : Nat]

Early == {"idle", "issue", "register"}

ConnType ==
  /\ pending \subseteq Commands /\ closing \subseteq Commands
  /\ chan \in [Commands -> {"none", "open", "closed"} \cup Verdicts]
  /\ callPc \in [Commands -> Early \cup {"send", "wait", "ack", "done"}]
  /\ verdict \in [Commands -> Verdicts]
  /\ events \in Nat
  /\ wire \in Seq(Messages)
  /\ readerPc = "deliver" => inHand \in Messages /\ inHand.kind = "result"

\* A channel is with the map, with the loop that closes, with deliver, or with
\* none of them; it is closed only once it has left all three.
OneOwner ==
  \A c \in Commands :
    /\ c \in pending => c \notin closing /\ ~Delivering(c)
    /\ c \in closing => ~Delivering(c)
    /\ c \in pending \cup closing \/ Delivering(c) => chan[c] = "open"
    /\ callPc[c] \in Early => c \notin pending \cup closing /\ ~Delivering(c)

Emptied == closed => pending = {}

WaiterInv ==
  ConnType /\ OneOwner /\ Emptied /\ NoWaiterForgotten /\ NoSendOnClosed

-----------------------------------------------------------------------------
(* WaiterInv holds when the connection is made. *)
LEMMA InitWaiter == Init => WaiterInv
<1> SUFFICES ASSUME Init PROVE WaiterInv
  OBVIOUS
<1>1. wire \in Seq(Messages)
  BY EmptySeq DEF Init
<1> QED
  BY <1>1 DEF Init, WaiterInv, ConnType, OneOwner, Emptied, NoWaiterForgotten,
              NoSendOnClosed, Waiting, Delivering, Early, Verdicts

(* It speaks of the connection, the calls and the reader only. *)
LEMMA WaiterFrame ==
  ASSUME WaiterInv, UNCHANGED <<connVars, wire, verdict, events, readerPc, inHand, panicked>>,
         callPc' \in [Commands -> Early \cup {"send", "wait", "ack", "done"}],
         \A c \in Commands : \/ callPc'[c] = callPc[c]
                             \/ callPc[c] \in Early /\ callPc'[c] \in Early
                             \/ callPc'[c] \in {"ack", "done"}
                             \/ callPc[c] = "send" /\ callPc'[c] = "wait"
  PROVE  WaiterInv'
<1> USE DEF WaiterInv, Early, Delivering, connVars
<1>1. ConnType' /\ OneOwner' /\ Emptied'
  BY DEF ConnType, OneOwner, Emptied
<1>2. NoWaiterForgotten'
  BY DEF NoWaiterForgotten, Waiting
<1>3. NoSendOnClosed'
  BY Zenon DEF NoSendOnClosed
<1> QED
  BY <1>1, <1>2, <1>3

(* Closing the connection keeps it, whoever closes. *)
LEMMA ShutKeeps ==
  ASSUME WaiterInv, ShutConn,
         UNCHANGED <<wire, verdict, events, callPc, inHand, panicked>>,
         (readerPc' # "deliver" /\ readerPc # "deliver") \/ UNCHANGED readerPc
  PROVE  WaiterInv'
<1> USE DEF WaiterInv, Early, Delivering, ShutConn
<1>1. ConnType' /\ OneOwner' /\ Emptied'
  BY DEF ConnType, OneOwner, Emptied
<1>2. NoWaiterForgotten'
  BY DEF NoWaiterForgotten, Waiting
<1>3. NoSendOnClosed'
  BY Zenon DEF NoSendOnClosed
<1> QED
  BY <1>1, <1>2, <1>3

(* The steps of Host.Dispatch and SendCommand keep it. *)
LEMMA DispatchKeeps ==
  ASSUME WaiterInv, NEW c \in Commands, DispatchStart(c) \/ DispatchStep(c)
  PROVE  WaiterInv'
<1> USE DEF Goto, readerVars, driverVars
<1>1. CASE DispatchStart(c) \/ Issue(c) \/ AppendAck(c)
  BY <1>1, WaiterFrame DEF DispatchStart, Issue, AppendAck, WaiterInv, ConnType, Early
<1>2. CASE Send(c) \/ TakeResult(c) \/ TakeClosed(c)
  BY <1>2, WaiterFrame DEF Send, TakeResult, TakeClosed, WaiterInv, ConnType, Early
<1>3. CASE RegisterWaiter(c)
  <2>1. CASE closed /\ Goto(c, "ack") /\ UNCHANGED <<pending, chan>>
    BY <1>3, <2>1, WaiterFrame DEF RegisterWaiter, WaiterInv, ConnType, Early, connVars
  <2>2. CASE ~closed /\ Goto(c, "send") /\ pending' = pending \cup {c}
                /\ chan' = [chan EXCEPT ![c] = "open"]
    <3> USE DEF WaiterInv, Delivering, Early
    <3>1. ConnType' /\ OneOwner'
      BY <1>3, <2>2 DEF RegisterWaiter, ConnType, OneOwner
    <3>2. ~closed' /\ NoSendOnClosed' /\ Emptied'
      BY <1>3, <2>2, Zenon DEF RegisterWaiter, NoSendOnClosed, Emptied
    <3>3. NoWaiterForgotten'
      BY <1>3, <2>2, <3>2 DEF RegisterWaiter, ConnType, NoWaiterForgotten, Waiting
    <3> QED
      BY <3>1, <3>2, <3>3
  <2> QED
    BY <1>3, <2>1, <2>2, Zenon DEF RegisterWaiter
<1>4. CASE SendError(c) \/ GiveUp(c)
  <2> USE DEF WaiterInv, Delivering, Early
  <2>1. /\ pending' = pending \ {c} /\ Goto(c, "ack")
        /\ UNCHANGED <<closed, closing, chan, wire, verdict, events, inHand, readerPc,
                       panicked>>
    BY <1>4 DEF SendError, GiveUp
  <2>2. ConnType' /\ OneOwner' /\ Emptied'
    BY <2>1 DEF ConnType, OneOwner, Emptied
  <2>3. NoWaiterForgotten'
    BY <2>1 DEF ConnType, NoWaiterForgotten, Waiting
  <2>4. NoSendOnClosed'
    BY <2>1, Zenon DEF NoSendOnClosed
  <2> QED
    BY <2>2, <2>3, <2>4
<1> QED
  BY <1>1, <1>2, <1>3, <1>4 DEF DispatchStep

(* The loop that closes the channels keeps it. *)
LEMMA CloseKeeps ==
  ASSUME WaiterInv, NEW c \in Commands, CloseChannel(c)
  PROVE  WaiterInv'
<1> USE DEF WaiterInv, Delivering, Early, CloseChannel, driverVars, callVars, readerVars
<1>1. ConnType' /\ OneOwner'
  BY DEF ConnType, OneOwner
<1>2. Emptied'
  BY DEF Emptied
<1>3. NoWaiterForgotten'
  BY DEF ConnType, NoWaiterForgotten, Waiting
<1>4. NoSendOnClosed'
  BY Zenon DEF NoSendOnClosed
<1> QED
  BY <1>1, <1>2, <1>3, <1>4

(* So do the steps of the reader, deliver in particular. *)
LEMMA ReaderKeeps ==
  ASSUME WaiterInv, Reader
  PROVE  WaiterInv'
<1> USE DEF callVars, driverVars, connVars, superVars
<1>0. wire # <<>> => Head(wire) \in Messages /\ Tail(wire) \in Seq(Messages)
  BY HeadTailProperties DEF WaiterInv, ConnType
<1>1. CASE ReadResult
  <2> DEFINE c == Head(wire).command
  <2>1. /\ wire # <<>> /\ Head(wire).kind = "result" /\ wire' = Tail(wire)
        /\ readerPc = "recv" /\ c \in Commands
    BY <1>0, <1>1 DEF ReadResult, Messages
  <2>2. UNCHANGED <<closed, closing, chan, verdict, events, callPc, panicked>>
    BY <1>1 DEF ReadResult
  <2>3. \/ c \in pending /\ pending' = pending \ {c} /\ inHand' = Head(wire)
             /\ readerPc' = "deliver"
        \/ UNCHANGED <<pending, inHand, readerPc>>
    BY <1>1 DEF ReadResult
  <2> USE DEF WaiterInv, Delivering, Early
  <2>4. ConnType' /\ OneOwner' /\ Emptied'
    BY <1>0, <2>1, <2>2, <2>3 DEF ConnType, OneOwner, Emptied
  <2>5. NoWaiterForgotten'
    BY <2>1, <2>2, <2>3 DEF ConnType, NoWaiterForgotten, Waiting
  <2>6. NoSendOnClosed'
    BY <2>2, Zenon DEF NoSendOnClosed
  <2> QED
    BY <2>4, <2>5, <2>6
<1>2. CASE Deliver
  <2> USE DEF WaiterInv, Delivering, Early
  <2>1. /\ inHand.command \in Commands /\ inHand.value \in Verdicts
        /\ chan[inHand.command] = "open"
    BY <1>2 DEF Deliver, ConnType, Messages, OneOwner
  <2>2. ConnType' /\ OneOwner' /\ Emptied'
    BY <1>2, <2>1 DEF Deliver, ConnType, OneOwner, Emptied
  <2>3. NoWaiterForgotten'
    BY <1>2, <2>1 DEF Deliver, ConnType, NoWaiterForgotten, Waiting, Verdicts
  <2>4. chan[inHand.command] # "closed"
    BY <2>1
  <2>5. NoSendOnClosed'
    BY <1>2, <2>4, Zenon DEF Deliver, NoSendOnClosed
  <2> QED
    BY <2>2, <2>3, <2>5
<1>3. CASE ReadEvent
  <2>1. /\ wire # <<>> /\ wire' = Tail(wire)
        /\ readerPc = "recv" /\ readerPc' # "deliver"
        /\ UNCHANGED <<closed, pending, closing, chan, verdict, events, callPc, panicked>>
    BY <1>3 DEF ReadEvent
  <2> USE DEF WaiterInv, Delivering
  <2>2. ConnType' /\ OneOwner' /\ Emptied'
    BY <1>0, <2>1 DEF ConnType, OneOwner, Emptied
  <2>3. NoWaiterForgotten'
    BY <2>1 DEF NoWaiterForgotten, Waiting
  <2>4. NoSendOnClosed'
    BY <2>1, Zenon DEF NoSendOnClosed
  <2> QED
    BY <2>2, <2>3, <2>4
<1>4. CASE ReaderIngest
  <2>1. readerPc = "hook" /\ readerPc' = "recv"
        /\ UNCHANGED <<wire, verdict, events, callPc, panicked>>
    BY <1>4 DEF ReaderIngest
  <2>2. UNCHANGED connVars \/ ShutConn
    BY <1>4 DEF ReaderIngest, Ingest
  <2> USE DEF WaiterInv, Delivering, ShutConn
  <2>3. ConnType' /\ OneOwner' /\ Emptied'
    BY <2>1, <2>2 DEF ConnType, OneOwner, Emptied
  <2>4. NoWaiterForgotten'
    BY <2>1, <2>2 DEF NoWaiterForgotten, Waiting
  <2>5. NoSendOnClosed'
    BY <2>1, Zenon DEF NoSendOnClosed
  <2> QED
    BY <2>3, <2>4, <2>5
<1>5. CASE ReaderExit
  BY <1>5, ShutKeeps DEF ReaderExit
<1> QED
  BY <1>1, <1>2, <1>3, <1>4, <1>5 DEF Reader

(* So do those of the supervisor, which may close the connection. *)
LEMMA SupervisorKeeps ==
  ASSUME WaiterInv, Supervisor
  PROVE  WaiterInv'
<1> USE DEF callVars, driverVars, readerVars
<1>1. CASE UNCHANGED connVars
  BY <1>1, WaiterFrame DEF Supervisor, Publish, InitialEntities, SetIngestHook, Drain,
                           CloseConn, Forget, WaiterInv, ConnType
<1>2. CASE ShutConn
  BY <1>2, ShutKeeps DEF Supervisor, Publish, InitialEntities, SetIngestHook, Drain,
                         CloseConn, Forget
<1> QED
  BY <1>1, <1>2 DEF Supervisor, Publish, InitialEntities, SetIngestHook, Drain, Ingest,
                    CloseConn, Forget

(* So does whatever the driver does. *)
LEMMA DriverKeeps ==
  ASSUME WaiterInv,
         \/ \E c \in Commands : DriverReads(c) \/ DriverAnswers(c)
         \/ DriverSendsEvent \/ StreamDies
  PROVE  WaiterInv'
<1> DEFINE Driven ==
       /\ UNCHANGED <<closed, pending, closing, chan, verdict, callPc, readerPc, inHand,
                      panicked>>
       /\ wire' \in Seq(Messages) /\ events' \in Nat
<1>1. Driven
  <2>1. ASSUME NEW c \in Commands, DriverReads(c) PROVE Driven
    BY <2>1 DEF DriverReads, connVars, callVars, readerVars, WaiterInv, ConnType
  <2>2. ASSUME NEW c \in Commands, DriverAnswers(c) PROVE Driven
    <3>1. Result(c) \in Messages
      BY DEF Result, Messages, WaiterInv, ConnType
    <3> QED
      BY <2>2, <3>1, AppendProperties DEF DriverAnswers, connVars, callVars, readerVars,
                                          WaiterInv, ConnType
  <2>3. CASE DriverSendsEvent
    <3>1. events' \in Nat
      BY <2>3 DEF DriverSendsEvent, WaiterInv, ConnType
    <3>2. Event(events') \in Messages
      BY <3>1 DEF Event, Messages
    <3> QED
      BY <2>3, <3>1, <3>2, AppendProperties DEF DriverSendsEvent, connVars, callVars,
                                                readerVars, WaiterInv, ConnType
  <2>4. CASE StreamDies
    BY <2>4 DEF StreamDies, driverVars, callVars, readerVars, WaiterInv, ConnType
  <2> QED
    BY <2>1, <2>2, <2>3, <2>4
<1> USE DEF WaiterInv, Delivering
<1>2. ConnType' /\ OneOwner' /\ Emptied'
  BY <1>1 DEF ConnType, OneOwner, Emptied
<1>3. NoWaiterForgotten'
  BY <1>1 DEF NoWaiterForgotten, Waiting
<1>4. NoSendOnClosed'
  BY <1>1, Zenon DEF NoSendOnClosed
<1> QED
  BY <1>2, <1>3, <1>4

(* WaiterInv is inductive. *)
LEMMA NextWaiter == WaiterInv /\ [Next]_vars => WaiterInv'
<1>1. WaiterInv /\ UNCHANGED vars => WaiterInv'
  BY WaiterFrame DEF vars, driverVars, callVars, readerVars, WaiterInv, ConnType
<1> QED
  BY <1>1, DispatchKeeps, CloseKeeps, ReaderKeeps, SupervisorKeeps, DriverKeeps DEF Next

(* deliver never sends on a channel that failAll has closed, although both *)
(* act after they have released the lock.                                  *)
THEOREM SendCorrect == Spec => []NoSendOnClosed
<1>1. WaiterInv => NoSendOnClosed
  BY DEF WaiterInv
<1> QED
  BY InitWaiter, NextWaiter, <1>1, PTL DEF Spec

(* A call of SendCommand that waits is known to whoever will answer it or  *)
(* close its channel, whatever closes the connection and when.             *)
THEOREM WaitersKnown == Spec => []NoWaiterForgotten
<1>1. WaiterInv => NoWaiterForgotten
  BY DEF WaiterInv
<1> QED
  BY InitWaiter, NextWaiter, <1>1, PTL DEF Spec

-----------------------------------------------------------------------------
(* The events of the driver, from the stream to the log. *)

LogEntries ==
  [kind : {"issued"}, command : Commands]
    \cup [kind : {"ack"}, command : Commands, value : Outcomes]
    \cup [kind : {"event"}, number : Nat]
    \cup {Entity}

Logged(n) == \E i \in 1 .. Len(log) : log[i] = Event(n)

IngestType ==
  /\ received \in Nat
  /\ queue \in Seq(Nat) /\ drain \in Seq(Nat)
  /\ log \in Seq(LogEntries)
  /\ outcome \in [Commands -> Outcomes]
  /\ readerPc = "hook" => inHand.number \in Nat

IsEvent(i) == wire[i].kind = "event"

\* The stream keeps the driver's order: its events are those after the last
\* one received.
WireOrdered ==
  /\ received <= events
  /\ \A i \in 1 .. Len(wire) :
       IsEvent(i) => received < wire[i].number /\ wire[i].number <= events
  /\ \A i, j \in 1 .. Len(wire) :
       i < j /\ IsEvent(i) /\ IsEvent(j) => wire[i].number < wire[j].number
  /\ \A n \in Nat :
       received < n /\ n <= events => \E i \in 1 .. Len(wire) : IsEvent(i) /\ wire[i].number = n

\* Nothing is drained before the hook is set.
Undrained ==
  superPc \in {"handshake", "entities", "hook"} => ~hooked /\ drain = <<>>

IngestInv == IngestType /\ WireOrdered /\ Undrained /\ NoSilentDrop

LEMMA EntityLogged ==
  /\ Entity \in LogEntries
  /\ \A n \in Nat : Event(n) \in LogEntries
  /\ \A c \in Commands : Issued(c) \in LogEntries
  /\ \A c \in Commands, v \in Outcomes : Ack(c, v) \in LogEntries
<1>1. \A n \in Nat : Event(n) \in [kind : {"event"}, number : Nat]
  BY DEF Event
<1>2. \A c \in Commands : Issued(c) \in [kind : {"issued"}, command : Commands]
  BY DEF Issued
<1>3. \A c \in Commands, v \in Outcomes :
        Ack(c, v) \in [kind : {"ack"}, command : Commands, value : Outcomes]
  BY DEF Ack
<1> QED
  BY Zenon, <1>1, <1>2, <1>3 DEF LogEntries

(* The log only grows. *)
LEMMA LogGrows ==
  ASSUME log \in Seq(LogEntries), NEW entry \in LogEntries, Appends(entry)
  PROVE  /\ log' \in Seq(LogEntries)
         /\ Len(log) \in Nat /\ Len(log') = Len(log) + 1 /\ log'[Len(log) + 1] = entry
         /\ \A i \in 1 .. Len(log) : i \in 1 .. Len(log') /\ log'[i] = log[i]
         /\ \A n \in Nat : Logged(n) => Logged(n)'
         /\ \A n \in Nat : entry = Event(n) => Logged(n)'
<1>1. log' = Append(log, entry)
  BY DEF Appends
<1>2. /\ log' \in Seq(LogEntries)
      /\ Len(log) \in Nat /\ Len(log') = Len(log) + 1 /\ log'[Len(log) + 1] = entry
      /\ \A i \in 1 .. Len(log) : log'[i] = log[i]
  BY <1>1
<1>3. /\ \A i \in 1 .. Len(log) : i \in 1 .. Len(log')
      /\ Len(log) + 1 \in 1 .. Len(log')
  BY <1>2
<1> QED
  BY Zenon, <1>2, <1>3 DEF Logged

(* The elements of the queue when a message is put there or taken away. *)
LEMMA RangeAppend ==
  ASSUME NEW q \in Seq(Nat), NEW x \in Nat
  PROVE  Append(q, x) \in Seq(Nat) /\ Range(Append(q, x)) = Range(q) \cup {x}
<1>1. /\ DOMAIN Append(q, x) = 1 .. (Len(q) + 1) /\ DOMAIN q = 1 .. Len(q)
      /\ \A j \in 1 .. Len(q) : Append(q, x)[j] = q[j]
      /\ Append(q, x)[Len(q) + 1] = x
      /\ Append(q, x) \in Seq(Nat)
  OBVIOUS
<1>2. \A j : j \in 1 .. (Len(q) + 1) <=> j \in 1 .. Len(q) \/ j = Len(q) + 1
  OBVIOUS
<1> QED
  BY Zenon, <1>1, <1>2 DEF Range

LEMMA RangeTail ==
  ASSUME NEW q \in Seq(Nat), q # <<>>
  PROVE  /\ Head(q) \in Nat /\ Tail(q) \in Seq(Nat)
         /\ \A x \in Range(q) : x = Head(q) \/ x \in Range(Tail(q))
<1>1. /\ DOMAIN Tail(q) = 1 .. (Len(q) - 1) /\ DOMAIN q = 1 .. Len(q) /\ Len(q) \in Nat
      /\ \A j \in 1 .. (Len(q) - 1) : Tail(q)[j] = q[j + 1]
      /\ Head(q) = q[1] /\ Head(q) \in Nat /\ Tail(q) \in Seq(Nat)
  OBVIOUS
<1>2. ASSUME NEW j \in 1 .. Len(q), q[j] # Head(q) PROVE q[j] \in Range(Tail(q))
  <2>1. j # 1
    BY Zenon, <1>1, <1>2
  <2>2. j - 1 \in 1 .. (Len(q) - 1) /\ (j - 1) + 1 = j
    BY <1>1, <2>1
  <2>3. Tail(q)[j - 1] = q[j]
    BY <1>1, <2>2
  <2> QED
    BY Zenon, <1>1, <2>2, <2>3 DEF Range
<1> QED
  BY Zenon, <1>1, <1>2 DEF Range

(* IngestInv holds when the connection is made. *)
LEMMA InitIngest == Init => IngestInv
<1> SUFFICES ASSUME Init PROVE IngestInv
  OBVIOUS
<1>1. IngestType
  BY DEF Init, IngestType, Outcomes
<1>2. /\ 1 .. Len(wire) = {} /\ received <= events
      /\ \A n \in Nat : ~(received < n /\ n <= events)
  BY DEF Init
<1>3. WireOrdered
  BY Zenon, <1>2 DEF WireOrdered
<1>4. 1 .. received = {}
  BY DEF Init
<1>5. Undrained
  BY Zenon DEF Init, Undrained
<1> QED
  BY Zenon, <1>1, <1>3, <1>4, <1>5 DEF IngestInv, NoSilentDrop

(* A step that takes nothing from the stream keeps it if it loses nothing. *)
LEMMA IngestFrame ==
  ASSUME IngestInv, UNCHANGED <<wire, events, received, queue, drain, hooked>>,
         superPc' = superPc \/ superPc' \in {"drain", "health", "clear", "gone"}
           \/ superPc \in {"handshake", "entities"},
         \/ UNCHANGED <<readerPc, inHand>>
         \/ readerPc # "hook" /\ readerPc' # "hook",
         up' => up,
         log' = log \/ \E entry \in LogEntries : Appends(entry),
         outcome' \in [Commands -> Outcomes]
  PROVE  IngestInv'
<1>0. IngestType /\ WireOrdered /\ Undrained /\ NoSilentDrop
  BY DEF IngestInv
<1>1. log' \in Seq(LogEntries) /\ \A n \in Nat : Logged(n) => Logged(n)'
  <2>1. CASE log' = log
    BY Zenon, <1>0, <2>1 DEF IngestType, Logged
  <2>2. CASE \E entry \in LogEntries : Appends(entry)
    BY Zenon, <1>0, <2>2, LogGrows DEF IngestType
  <2> QED
    BY <2>1, <2>2
<1>2. IngestType' /\ WireOrdered'
  BY Zenon, <1>0, <1>1 DEF IngestType, WireOrdered, IsEvent
<1>3. Undrained'
  BY Zenon, <1>0 DEF Undrained
<1>4. \A n \in 1 .. received : n \in Nat
  BY <1>0 DEF IngestType
<1>5. NoSilentDrop'
  <2> SUFFICES ASSUME NEW n \in 1 .. received, up'
               PROVE  \/ Logged(n)'
                      \/ ~hooked /\ n \in Range(queue)
                      \/ n \in Range(drain)
                      \/ readerPc' = "hook" /\ inHand'.number = n
    BY Zenon DEF NoSilentDrop, Logged
  <2>1. \/ Logged(n)
        \/ ~hooked /\ n \in Range(queue)
        \/ n \in Range(drain)
        \/ readerPc = "hook" /\ inHand.number = n
    BY Zenon, <1>0 DEF NoSilentDrop, Logged
  <2> QED
    BY Zenon, <1>1, <1>4, <2>1
<1> QED
  BY Zenon, <1>2, <1>3, <1>5 DEF IngestInv

(* The reader takes the messages of the stream in order; an event is the one *)
(* after the last received.                                                  *)
LEMMA WireTaken ==
  ASSUME ConnType, IngestType, WireOrdered, wire # <<>>, wire' = Tail(wire), events' = events,
         \/ Head(wire).kind # "event" /\ received' = received
         \/ Head(wire).kind = "event" /\ received' = received + 1
  PROVE  /\ WireOrdered'
         /\ Head(wire).kind = "event" => Head(wire).number = received + 1
<1>1. /\ Len(wire') = Len(wire) - 1 /\ Len(wire) \in Nat \ {0}
      /\ \A j \in 1 .. (Len(wire) - 1) : wire'[j] = wire[j + 1]
      /\ Head(wire) = wire[1]
  <2>1. wire \in Seq(Messages)
    BY DEF ConnType
  <2> QED
    BY <2>1
<1>2. /\ \A i \in 1 .. Len(wire) : wire[i] \in Messages
      /\ events \in Nat /\ received \in Nat
      /\ \A i \in 1 .. Len(wire) : IsEvent(i) => wire[i].number \in Nat
  <2>1. \A i \in 1 .. Len(wire) : wire[i] \in Messages
    BY DEF ConnType
  <2>2. \A m \in Messages : m.kind = "event" => m.number \in Nat
    BY DEF Messages
  <2> QED
    BY Zenon, <2>1, <2>2 DEF ConnType, IngestType, IsEvent
<1>3. \A i \in 1 .. Len(wire') :
        i + 1 \in 1 .. Len(wire) /\ 1 < i + 1 /\ wire'[i] = wire[i + 1]
  BY <1>1
<1>4. 1 \in 1 .. Len(wire) /\ \A i \in 1 .. Len(wire) : i # 1 => 1 < i
  BY <1>1
<1>o. \A i, j \in 1 .. Len(wire) :
        i < j /\ IsEvent(i) /\ IsEvent(j) => wire[i].number < wire[j].number
  BY Zenon DEF WireOrdered
<1>5. ASSUME IsEvent(1) PROVE wire[1].number = received + 1
  <2>1. received < wire[1].number /\ wire[1].number <= events /\ wire[1].number \in Nat
    BY Zenon, <1>2, <1>4, <1>5 DEF WireOrdered
  <2>2. received + 1 \in Nat /\ received < received + 1 /\ received + 1 <= events
    BY <1>2, <2>1
  <2>3. PICK i \in 1 .. Len(wire) : IsEvent(i) /\ wire[i].number = received + 1
    BY Zenon, <2>2 DEF WireOrdered
  <2>4. CASE i # 1
    <3>1. wire[1].number < received + 1
      <4>1. 1 < i
        BY Zenon, <1>4, <2>4
      <4>2. wire[1].number < wire[i].number
        BY Zenon, <1>o, <1>4, <1>5, <2>3, <4>1
      <4> QED
        BY Zenon, <2>3, <4>2
    <3> QED
      BY <1>2, <2>1, <3>1
  <2> QED
    BY <2>3, <2>4
<1>6. ASSUME NEW i \in 1 .. Len(wire'), IsEvent(i)'
      PROVE  received' < wire'[i].number /\ wire'[i].number <= events'
  <2>1. IsEvent(i + 1) /\ wire'[i].number = wire[i + 1].number
    BY Zenon, <1>3, <1>6 DEF IsEvent
  <2>2. received < wire[i + 1].number /\ wire[i + 1].number <= events
    BY Zenon, <1>3, <2>1 DEF WireOrdered
  <2>3. CASE Head(wire).kind # "event"
    BY Zenon, <2>1, <2>2, <2>3
  <2>4. CASE Head(wire).kind = "event"
    <3>1. wire[1].number < wire[i + 1].number /\ wire[1].number = received + 1
      BY Zenon, <1>1, <1>3, <1>4, <1>5, <2>1, <2>4 DEF WireOrdered, IsEvent
    <3> QED
      BY Zenon, <2>1, <2>2, <2>4, <3>1
  <2> QED
    BY <2>3, <2>4
<1>7. ASSUME NEW i \in 1 .. Len(wire'), NEW j \in 1 .. Len(wire'), i < j,
             IsEvent(i)', IsEvent(j)'
      PROVE  wire'[i].number < wire'[j].number
  <2>1. i + 1 < j + 1
    BY <1>1, <1>7
  <2> QED
    BY Zenon, <1>o, <1>3, <1>7, <2>1 DEF IsEvent
<1>8. ASSUME NEW n \in Nat, received' < n, n <= events'
      PROVE  \E i \in 1 .. Len(wire') : IsEvent(i)' /\ wire'[i].number = n
  <2>1. received < n
    BY <1>2, <1>8
  <2>2. PICK i \in 1 .. Len(wire) : IsEvent(i) /\ wire[i].number = n
    BY Zenon, <1>8, <2>1 DEF WireOrdered
  <2>3. i # 1
    <3>1. ASSUME i = 1 PROVE FALSE
      <4>1. n = received + 1 /\ received' = received + 1
        BY Zenon, <1>1, <1>5, <2>2, <3>1 DEF IsEvent
      <4> QED
        BY <1>2, <1>8, <4>1
    <3> QED
      BY <3>1
  <2>4. i - 1 \in 1 .. Len(wire') /\ (i - 1) + 1 = i
    BY <1>1, <2>3
  <2>5. wire'[i - 1] = wire[i]
    BY Zenon, <1>3, <2>4
  <2> QED
    BY Zenon, <2>2, <2>4, <2>5 DEF IsEvent
<1>9. received' <= events'
  <2>1. CASE Head(wire).kind # "event"
    BY Zenon, <2>1 DEF WireOrdered
  <2>2. CASE Head(wire).kind = "event"
    <3>1. IsEvent(1)
      BY Zenon, <1>1, <2>2 DEF IsEvent
    <3>2. wire[1].number <= events /\ wire[1].number = received + 1
      BY Zenon, <1>4, <1>5, <3>1 DEF WireOrdered
    <3> QED
      BY Zenon, <2>2, <3>2
  <2> QED
    BY <2>1, <2>2
<1> QED
  BY Zenon, <1>1, <1>5, <1>6, <1>7, <1>8, <1>9 DEF WireOrdered, IsEvent

(* The driver adds to the end of the stream, and numbers its events on. *)
LEMMA WireSent ==
  ASSUME ConnType, IngestType, WireOrdered, NEW m \in Messages, wire' = Append(wire, m),
         received' = received,
         \/ m.kind # "event" /\ events' = events
         \/ m.kind = "event" /\ events' = events + 1 /\ m.number = events'
  PROVE  WireOrdered'
<1> DEFINE last == Len(wire) + 1
<1>1. /\ Len(wire') = last /\ Len(wire) \in Nat
      /\ \A j \in 1 .. Len(wire) : wire'[j] = wire[j]
      /\ wire'[last] = m
  <2>1. wire \in Seq(Messages)
    BY DEF ConnType
  <2> QED
    BY <2>1
<1>2. events \in Nat /\ received \in Nat
  BY DEF ConnType, IngestType
<1>3. /\ \A i \in 1 .. Len(wire') : i \in 1 .. Len(wire) \/ i = last
      /\ \A i \in 1 .. Len(wire) : i \in 1 .. Len(wire') /\ i # last
      /\ \A i, j \in 1 .. Len(wire') : i < j => i # last
      /\ last \in 1 .. Len(wire')
  BY <1>1
<1> HIDE DEF last
<1>4. \A i \in 1 .. Len(wire) : (IsEvent(i)' <=> IsEvent(i)) /\ wire'[i].number = wire[i].number
  BY Zenon, <1>1 DEF IsEvent
<1>5. \A i \in 1 .. Len(wire) :
        IsEvent(i) => received < wire[i].number /\ wire[i].number <= events
  BY Zenon DEF WireOrdered
<1>6. CASE m.kind # "event" /\ events' = events
  <2>1. wire'[last].kind # "event"
    BY Zenon, <1>1, <1>6
  <2>2. ASSUME NEW i \in 1 .. Len(wire'), IsEvent(i)'
        PROVE  i \in 1 .. Len(wire) /\ IsEvent(i) /\ wire'[i].number = wire[i].number
    BY Zenon, <1>3, <1>4, <2>1, <2>2 DEF IsEvent
  <2>3. ASSUME NEW n \in Nat, received' < n, n <= events'
        PROVE  \E i \in 1 .. Len(wire') : IsEvent(i)' /\ wire'[i].number = n
    <3>1. PICK i \in 1 .. Len(wire) : IsEvent(i) /\ wire[i].number = n
      BY Zenon, <1>6, <2>3 DEF WireOrdered
    <3> QED
      BY Zenon, <1>3, <1>4, <3>1
  <2>4. ASSUME NEW i \in 1 .. Len(wire'), NEW j \in 1 .. Len(wire'), i < j,
               IsEvent(i)', IsEvent(j)'
        PROVE  wire'[i].number < wire'[j].number
    BY Zenon, <2>2, <2>4 DEF WireOrdered
  <2>5. received' <= events'
    BY Zenon, <1>6 DEF WireOrdered
  <2> QED
    BY Zenon, <1>5, <1>6, <2>2, <2>3, <2>4, <2>5 DEF WireOrdered
<1>7. CASE m.kind = "event" /\ events' = events + 1 /\ m.number = events'
  <2>1. \A i \in 1 .. Len(wire') :
          IsEvent(i)' => received' < wire'[i].number /\ wire'[i].number <= events'
    <3> SUFFICES ASSUME NEW i \in 1 .. Len(wire'), IsEvent(i)'
                 PROVE  received < wire'[i].number /\ wire'[i].number <= events'
      BY Zenon
    <3>1. CASE i \in 1 .. Len(wire)
      <4>1. received < wire[i].number /\ wire[i].number <= events /\ wire[i].number \in Nat
        <5>1. wire[i] \in Messages /\ wire[i].kind = "event"
          BY Zenon, <1>4, <3>1, ElementOfSeq DEF ConnType, IsEvent
        <5>2. wire[i].number \in Nat
          BY <5>1 DEF Messages
        <5> QED
          BY Zenon, <1>4, <1>5, <3>1, <5>2
      <4>2. wire[i].number <= events + 1
        BY <1>2, <4>1
      <4> QED
        BY Zenon, <1>4, <1>7, <3>1, <4>1, <4>2
    <3>2. CASE i = last
      <4>1. wire'[i].number = events + 1 /\ received <= events
        BY Zenon, <1>1, <1>7, <3>2 DEF WireOrdered
      <4> QED
        BY <1>2, <1>7, <4>1
    <3> QED
      BY <1>3, <3>1, <3>2
  <2>2. ASSUME NEW i \in 1 .. Len(wire'), NEW j \in 1 .. Len(wire'), i < j,
               IsEvent(i)', IsEvent(j)'
        PROVE  wire'[i].number < wire'[j].number
    <3>1. i \in 1 .. Len(wire) /\ IsEvent(i) /\ wire'[i].number = wire[i].number
      BY Zenon, <1>3, <1>4, <2>2
    <3>2. CASE j \in 1 .. Len(wire)
      BY Zenon, <1>4, <2>2, <3>1, <3>2 DEF WireOrdered
    <3>3. CASE j = last
      <4>1. wire[i].number <= events /\ wire'[j].number = events + 1
        BY Zenon, <1>1, <1>5, <1>7, <3>1, <3>3
      <4>2. wire[i].number \in Nat
        <5>1. wire[i] \in Messages /\ wire[i].kind = "event"
          BY Zenon, <3>1, ElementOfSeq DEF ConnType, IsEvent
        <5> QED
          BY <5>1 DEF Messages
      <4> QED
        BY <1>2, <3>1, <4>1, <4>2
    <3> QED
      BY Zenon, <1>3, <3>2, <3>3
  <2>3. ASSUME NEW n \in Nat, received' < n, n <= events'
        PROVE  \E i \in 1 .. Len(wire') : IsEvent(i)' /\ wire'[i].number = n
    <3>1. CASE n <= events
      <4>1. PICK i \in 1 .. Len(wire) : IsEvent(i) /\ wire[i].number = n
        BY Zenon, <2>3, <3>1 DEF WireOrdered
      <4> QED
        BY Zenon, <1>3, <1>4, <4>1
    <3>2. CASE n = events'
      BY Zenon, <1>1, <1>3, <1>7, <3>2 DEF IsEvent
    <3>3. n <= events \/ n = events'
      BY <1>2, <1>7, <2>3
    <3> QED
      BY <3>1, <3>2, <3>3
  <2>4. received' <= events'
    <3>1. received <= events
      BY Zenon DEF WireOrdered
    <3> QED
      BY <1>2, <1>7, <3>1
  <2> QED
    BY Zenon, <2>1, <2>2, <2>3, <2>4 DEF WireOrdered
<1> QED
  BY <1>6, <1>7

(* The calls of Dispatch and the loop that closes channels touch no event. *)
LEMMA IngestCalls ==
  ASSUME IngestInv, NEW c \in Commands,
         DispatchStart(c) \/ DispatchStep(c) \/ CloseChannel(c) \/ DriverReads(c)
  PROVE  IngestInv'
<1>1. UNCHANGED <<wire, events, received, queue, drain, hooked, superPc, readerPc, inHand, up>>
  <2> USE DEF connVars, driverVars, readerVars, superVars
  <2>1. CASE DispatchStart(c) \/ CloseChannel(c) \/ DriverReads(c)
    BY Zenon, <2>1 DEF DispatchStart, CloseChannel, DriverReads
  <2>2. CASE Issue(c) \/ RegisterWaiter(c) \/ Send(c) \/ SendError(c)
    BY Zenon, <2>2 DEF Issue, RegisterWaiter, Send, SendError
  <2>3. CASE TakeResult(c) \/ TakeClosed(c) \/ GiveUp(c) \/ AppendAck(c)
    BY Zenon, <2>3 DEF TakeResult, TakeClosed, GiveUp, AppendAck
  <2> QED
    BY Zenon, <2>1, <2>2, <2>3 DEF DispatchStep
<1>2. outcome \in [Commands -> Outcomes]
  BY Zenon DEF IngestInv, IngestType
<1>3. \/ outcome' = outcome
      \/ \E what \in Outcomes : Ends(c, what)
  <2>1. CASE DispatchStart(c) \/ Issue(c) \/ RegisterWaiter(c)
    BY Zenon, <2>1 DEF DispatchStart, Issue, RegisterWaiter, Outcomes, Failures
  <2>2. CASE SendError(c) \/ TakeResult(c) \/ TakeClosed(c) \/ GiveUp(c)
    BY Zenon, <2>2 DEF SendError, TakeResult, TakeClosed, GiveUp, Outcomes, Failures
  <2>3. CASE CloseChannel(c) \/ DriverReads(c) \/ Send(c) \/ AppendAck(c)
    BY Zenon, <2>3 DEF CloseChannel, DriverReads, Send, AppendAck, callVars
  <2> QED
    BY Zenon, <2>1, <2>2, <2>3 DEF DispatchStep
<1>4. outcome' \in [Commands -> Outcomes]
  BY Zenon, <1>2, <1>3 DEF Ends
<1>5. log' = log \/ \E entry \in LogEntries : Appends(entry)
  <2>1. CASE Issue(c)
    BY Zenon, <2>1, EntityLogged DEF Issue, Fails
  <2>2. CASE AppendAck(c)
    BY Zenon, <1>2, <2>2, EntityLogged DEF AppendAck, Fails
  <2>3. CASE DispatchStart(c) \/ CloseChannel(c) \/ DriverReads(c)
    BY Zenon, <2>3 DEF DispatchStart, CloseChannel, DriverReads
  <2>4. CASE RegisterWaiter(c) \/ Send(c) \/ SendError(c)
    BY Zenon, <2>4 DEF RegisterWaiter, Send, SendError
  <2>5. CASE TakeResult(c) \/ TakeClosed(c) \/ GiveUp(c)
    BY Zenon, <2>5 DEF TakeResult, TakeClosed, GiveUp
  <2> QED
    BY Zenon, <2>1, <2>2, <2>3, <2>4, <2>5 DEF DispatchStep
<1> QED
  BY Zenon, <1>1, <1>4, <1>5, IngestFrame

(* The hook appends an event that somebody has in hand, or the stream ends. *)
LEMMA IngestEvent ==
  ASSUME IngestType, NEW n \in Nat, Ingest(n)
  PROVE  /\ log' \in Seq(LogEntries) /\ \A k \in Nat : Logged(k) => Logged(k)'
         /\ up' => up /\ Logged(n)'
<1>1. CASE Appends(Event(n)) /\ UNCHANGED connVars
  BY Zenon, <1>1, LogGrows, EntityLogged DEF IngestType, connVars
<1>2. CASE Fails("ingest") /\ ShutConn
  BY Zenon, <1>2 DEF IngestType, Fails, ShutConn, Logged
<1> QED
  BY <1>1, <1>2 DEF Ingest

(* The reader keeps IngestInv. *)
LEMMA IngestReader ==
  ASSUME WaiterInv, IngestInv, Reader
  PROVE  IngestInv'
<1>0. /\ IngestType /\ WireOrdered /\ Undrained /\ NoSilentDrop /\ ConnType
      /\ outcome \in [Commands -> Outcomes]
  BY Zenon DEF IngestInv, WaiterInv, IngestType
<1>n. \A n \in 1 .. received : n \in Nat
  BY <1>0 DEF IngestType
<1>1. CASE ReadResult
  <2>1. /\ readerPc = "recv" /\ readerPc' # "hook" /\ wire # <<>> /\ wire' = Tail(wire)
        /\ Head(wire).kind # "event"
        /\ UNCHANGED <<events, received, queue, drain, hooked, superPc, up, log, outcome>>
    BY Zenon, <1>1, "result" # "event", "deliver" # "hook", "recv" # "hook"
       DEF ReadResult, superVars, callVars
  <2>2. WireOrdered'
    BY Zenon, <1>0, <2>1, WireTaken
  <2>3. IngestType' /\ Undrained'
    BY Zenon, <1>0, <2>1 DEF IngestType, Undrained
  <2>4. NoSilentDrop'
    BY Zenon, <1>0, <2>1, "recv" # "hook" DEF NoSilentDrop
  <2> QED
    BY Zenon, <2>2, <2>3, <2>4 DEF IngestInv
<1>2. CASE ReadEvent
  <2>1. /\ readerPc = "recv" /\ wire # <<>> /\ wire' = Tail(wire) /\ received' = received + 1
        /\ Head(wire).kind = "event"
        /\ UNCHANGED <<events, drain, hooked, superPc, up, log, outcome>>
    BY Zenon, <1>2 DEF ReadEvent, connVars, callVars
  <2>2. \/ ~hooked /\ queue' = Append(queue, Head(wire).number) /\ readerPc' = "recv"
        \/ hooked /\ inHand' = Head(wire) /\ readerPc' = "hook" /\ queue' = queue
    BY Zenon, <1>2 DEF ReadEvent
  <2>3. WireOrdered' /\ Head(wire).number = received + 1
    BY Zenon, <1>0, <2>1, WireTaken
  <2>4. /\ received + 1 \in Nat /\ received' \in Nat
        /\ \A n \in 1 .. received' : n \in 1 .. received \/ n = received + 1
    BY <1>0, <2>1 DEF IngestType
  <2>5. IngestType' /\ Undrained'
    <3>1. queue' \in Seq(Nat)
      BY Zenon, <1>0, <2>2, <2>3, <2>4, RangeAppend DEF IngestType
    <3>2. readerPc' = "hook" => inHand'.number \in Nat
      BY Zenon, <2>2, <2>3, <2>4, "recv" # "hook"
    <3>3. IngestType'
      BY Zenon, <1>0, <2>1, <2>4, <3>1, <3>2 DEF IngestType
    <3>4. Undrained'
      BY Zenon, <1>0, <2>1 DEF Undrained
    <3> QED
      BY Zenon, <3>3, <3>4
  <2>6. ASSUME ~hooked, queue' = Append(queue, Head(wire).number)
        PROVE  Range(queue') = Range(queue) \cup {received + 1}
    BY Zenon, <1>0, <2>3, <2>4, <2>6, RangeAppend DEF IngestType
  <2>7. ASSUME NEW n \in 1 .. received', up'
        PROVE  \/ Logged(n)
               \/ ~hooked /\ n \in Range(queue')
               \/ n \in Range(drain)
               \/ readerPc' = "hook" /\ inHand'.number = n
    <3>1. CASE n = received + 1
      BY Zenon, <2>2, <2>3, <2>6, <3>1
    <3>2. CASE n \in 1 .. received
      <4>1. \/ Logged(n)
            \/ ~hooked /\ n \in Range(queue)
            \/ n \in Range(drain)
        BY Zenon, <1>0, <2>1, <2>7, <3>2, "recv" # "hook" DEF NoSilentDrop, Logged
      <4> QED
        BY Zenon, <2>2, <2>6, <4>1
    <3> QED
      BY <2>4, <3>1, <3>2
  <2>8. NoSilentDrop'
    BY Zenon, <2>1, <2>7 DEF NoSilentDrop, Logged
  <2> QED
    BY Zenon, <2>3, <2>5, <2>8 DEF IngestInv
<1>3. CASE ReaderIngest
  <2>1. /\ readerPc = "hook" /\ Ingest(inHand.number) /\ readerPc' = "recv"
        /\ UNCHANGED <<wire, events, received, queue, drain, hooked, superPc, outcome>>
    BY Zenon, <1>3 DEF ReaderIngest, driverVars, callVars, superVars
  <2>2. PICK taken \in Nat : taken = inHand.number
    BY Zenon, <1>0, <2>1 DEF IngestType
  <2>3. /\ log' \in Seq(LogEntries) /\ \A k \in Nat : Logged(k) => Logged(k)'
        /\ up' => up /\ Logged(taken)'
    BY Zenon, <1>0, <2>1, <2>2, IngestEvent
  <2>4. IngestType' /\ WireOrdered' /\ Undrained'
    BY Zenon, <1>0, <2>1, <2>3, "recv" # "hook" DEF IngestType, WireOrdered, IsEvent, Undrained
  <2>5. ASSUME NEW n \in 1 .. received, up'
        PROVE  Logged(n)' \/ (~hooked /\ n \in Range(queue)) \/ n \in Range(drain)
    <3>1. \/ Logged(n)
          \/ ~hooked /\ n \in Range(queue)
          \/ n \in Range(drain)
          \/ taken = n
      BY Zenon, <1>0, <2>2, <2>3, <2>5 DEF NoSilentDrop, Logged
    <3> QED
      BY Zenon, <1>n, <2>3, <2>5, <3>1
  <2>6. NoSilentDrop'
    BY Zenon, <2>1, <2>5 DEF NoSilentDrop, Logged
  <2> QED
    BY Zenon, <2>4, <2>6 DEF IngestInv
<1>4. CASE Deliver
  BY Zenon, <1>0, <1>4, IngestFrame, "deliver" # "hook", "recv" # "hook"
     DEF Deliver, driverVars, callVars, superVars
<1>5. CASE ReaderExit
  BY Zenon, <1>0, <1>5, IngestFrame, "exit" # "hook", "recv" # "hook"
     DEF ReaderExit, ShutConn, driverVars, callVars, superVars
<1> QED
  BY Zenon, <1>1, <1>2, <1>3, <1>4, <1>5 DEF Reader

(* So does the supervisor: what was queued is drained once the hook is set. *)
LEMMA IngestSupervisor ==
  ASSUME IngestInv, Supervisor
  PROVE  IngestInv'
<1>0. /\ IngestType /\ WireOrdered /\ Undrained /\ NoSilentDrop
      /\ outcome \in [Commands -> Outcomes]
  BY Zenon DEF IngestInv, IngestType
<1>n. \A n \in 1 .. received : n \in Nat
  BY <1>0 DEF IngestType
<1>r. UNCHANGED <<wire, events, received, readerPc, inHand, outcome>>
  BY Zenon DEF Supervisor, Publish, InitialEntities, SetIngestHook, Drain, CloseConn,
               Forget, driverVars, callVars, readerVars
<1>1. CASE Publish
  BY Zenon, <1>0, <1>r, <1>1, IngestFrame DEF Publish, connVars
<1>2. CASE InitialEntities
  <2>1. log' = log \/ \E entry \in LogEntries : Appends(entry)
    BY Zenon, <1>2, EntityLogged DEF InitialEntities, Fails
  <2> QED
    BY Zenon, <1>0, <1>r, <1>2, <2>1, IngestFrame DEF InitialEntities, connVars
<1>3. CASE SetIngestHook
  <2>1. /\ drain' = queue /\ queue' = <<>> /\ hooked' = TRUE
        /\ superPc' = "drain" /\ drain = <<>> /\ log' = log /\ up' = up
    BY Zenon, <1>0, <1>3 DEF SetIngestHook, Undrained, connVars
  <2>2. Range(drain) = {} /\ <<>> \in Seq(Nat)
    BY <2>1 DEF Range
  <2>3. IngestType' /\ WireOrdered'
    BY Zenon, <1>0, <1>r, <2>1, <2>2 DEF IngestType, WireOrdered, IsEvent
  <2>4. Undrained'
    BY <2>1 DEF Undrained
  <2>5. NoSilentDrop'
    BY Zenon, <1>0, <1>r, <2>1, <2>2 DEF NoSilentDrop
  <2> QED
    BY Zenon, <2>3, <2>4, <2>5 DEF IngestInv
<1>4. CASE Drain
  <2>1. CASE drain # <<>> /\ Ingest(Head(drain)) /\ drain' = Tail(drain) /\ superPc' = superPc
    <3>1. superPc = "drain" /\ UNCHANGED <<queue, hooked>>
      BY Zenon, <1>4 DEF Drain
    <3>2. PICK taken \in Nat :
            /\ taken = Head(drain) /\ drain' \in Seq(Nat)
            /\ \A n \in Range(drain) : n = taken \/ n \in Range(drain')
      BY Zenon, <1>0, <2>1, RangeTail DEF IngestType
    <3>3. /\ log' \in Seq(LogEntries) /\ \A k \in Nat : Logged(k) => Logged(k)'
          /\ up' => up /\ Logged(taken)'
      BY Zenon, <1>0, <2>1, <3>2, IngestEvent
    <3>4. IngestType' /\ WireOrdered'
      BY Zenon, <1>0, <1>r, <3>1, <3>2, <3>3 DEF IngestType, WireOrdered, IsEvent
    <3>5. Undrained'
      BY <2>1, <3>1 DEF Undrained
    <3>6. ASSUME NEW n \in 1 .. received, up'
          PROVE  \/ Logged(n)'
                 \/ ~hooked /\ n \in Range(queue)
                 \/ n \in Range(drain')
                 \/ readerPc = "hook" /\ inHand.number = n
      <4>1. \/ Logged(n)
            \/ ~hooked /\ n \in Range(queue)
            \/ n \in Range(drain)
            \/ readerPc = "hook" /\ inHand.number = n
        BY Zenon, <1>0, <3>3, <3>6 DEF NoSilentDrop, Logged
      <4> QED
        BY Zenon, <1>n, <3>2, <3>3, <3>6, <4>1
    <3>7. NoSilentDrop'
      BY Zenon, <1>r, <3>1, <3>6 DEF NoSilentDrop, Logged
    <3> QED
      BY Zenon, <3>4, <3>5, <3>7 DEF IngestInv
  <2>2. CASE superPc' = "health" /\ UNCHANGED <<drain, log, connVars>>
    BY Zenon, <1>0, <1>r, <1>4, <2>2, IngestFrame DEF Drain, connVars
  <2> QED
    BY Zenon, <1>4, <2>1, <2>2 DEF Drain
<1>5. CASE CloseConn
  BY Zenon, <1>0, <1>r, <1>5, IngestFrame DEF CloseConn, ShutConn
<1>6. CASE Forget
  BY Zenon, <1>0, <1>r, <1>6, IngestFrame DEF Forget, connVars
<1> QED
  BY Zenon, <1>1, <1>2, <1>3, <1>4, <1>5, <1>6 DEF Supervisor

(* So does the driver, and the loss of the stream. *)
LEMMA IngestDriver ==
  ASSUME WaiterInv, IngestInv,
         (\E c \in Commands : DriverAnswers(c)) \/ DriverSendsEvent \/ StreamDies
  PROVE  IngestInv'
<1>0. /\ IngestType /\ WireOrdered /\ Undrained /\ NoSilentDrop /\ ConnType
      /\ outcome \in [Commands -> Outcomes]
  BY Zenon DEF IngestInv, WaiterInv, IngestType
<1>1. CASE StreamDies
  BY Zenon, <1>0, <1>1, IngestFrame
     DEF StreamDies, driverVars, callVars, readerVars, superVars
<1>2. ASSUME WireOrdered', UNCHANGED <<received, queue, drain, hooked, superPc, readerPc, inHand,
                                      up, log, outcome>>
      PROVE  IngestInv'
  BY Zenon, <1>0, <1>2 DEF IngestInv, IngestType, Undrained, NoSilentDrop
<1>3. ASSUME NEW c \in Commands, DriverAnswers(c) PROVE IngestInv'
  <2>1. Result(c) \in Messages /\ Result(c).kind # "event"
    BY <1>0 DEF Result, Messages, ConnType
  <2>2. WireOrdered'
    BY Zenon, <1>0, <1>3, <2>1, WireSent DEF DriverAnswers, readerVars
  <2> QED
    BY Zenon, <1>2, <1>3, <2>2 DEF DriverAnswers, connVars, callVars, readerVars, superVars
<1>4. CASE DriverSendsEvent
  <2>1. events' = events + 1 /\ events' \in Nat
    BY <1>0, <1>4 DEF DriverSendsEvent, ConnType
  <2>2. /\ Event(events') \in Messages /\ Event(events').kind = "event"
        /\ Event(events').number = events'
    BY <2>1 DEF Event, Messages
  <2>3. WireOrdered'
    BY Zenon, <1>0, <1>4, <2>1, <2>2, WireSent DEF DriverSendsEvent, readerVars
  <2> QED
    BY Zenon, <1>2, <1>4, <2>3 DEF DriverSendsEvent, connVars, callVars, readerVars, superVars
<1> QED
  BY <1>1, <1>3, <1>4

LEMMA NextIngest == WaiterInv /\ IngestInv /\ [Next]_vars => IngestInv'
<1>1. ASSUME IngestInv, UNCHANGED vars PROVE IngestInv'
  <2>1. /\ UNCHANGED <<wire, events, received, queue, drain, hooked, superPc>>
        /\ UNCHANGED <<readerPc, inHand, up, log, outcome>>
    BY Zenon, <1>1 DEF vars, connVars, driverVars, callVars, readerVars, superVars
  <2>2. outcome' \in [Commands -> Outcomes]
    BY Zenon, <1>1, <2>1 DEF IngestInv, IngestType
  <2> QED
    BY Zenon, <1>1, <2>1, <2>2, IngestFrame
<1> QED
  BY Zenon, <1>1, IngestCalls, IngestReader, IngestSupervisor, IngestDriver DEF Next

(* An event that the reader has taken from the stream is in the log, or on *)
(* its way there, unless the stream has ended, for any number of events    *)
(* and any failure of an append (reader, setIngestHook).                   *)
THEOREM IngestCorrect == Spec => []NoSilentDrop
<1>1. IngestInv => NoSilentDrop
  BY DEF IngestInv
<1> QED
  BY InitWaiter, NextWaiter, InitIngest, NextIngest, <1>1, PTL DEF Spec

-----------------------------------------------------------------------------
(* The command ledger.  Told(l, c) is a recursive function, so that to the
   provers it is chosen by its equation; that the equation has one solution is
   an invariant, since the log begins empty and grows by one entry at a time. *)

IsTold(f, l, c) ==
  f = [n \in 0 .. Len(l) |-> IF n = 0 THEN << >> ELSE Tells(f[n - 1], l[n], c)]

OneTold(l, c) == \E f : IsTold(f, l, c) /\ \A g : IsTold(g, l, c) => g = f

\* The driver has given this answer to this command.
Genuine(c, value) == answered[c] > 0 /\ value = verdict[c]

Before == {"idle", "issue"}
Between == {"register", "send", "wait", "ack"}
Places == Before \cup Between \cup {"done"}

LedgerType ==
  answered \in [Commands -> Nat] /\ toDriver \subseteq Commands /\ held \subseteq Commands

LogInv == \A c \in Commands : OneTold(log, c)

\* A call has its entry from Issue on, and the driver knows no command without.
EntriesInv ==
  \A c \in Commands :
    /\ callPc[c] \in Before => Entries(c) = <<>>
    /\ callPc[c] \in Between => Entries(c) = <<"issued">>
    /\ c \in toDriver \cup held => Entries(c) # <<>>

\* Whatever is on its way to a call is the driver's answer to its command.
AnswerInv ==
  /\ \A i \in 1 .. Len(wire) :
       wire[i].kind = "result" => Genuine(wire[i].command, wire[i].value)
  /\ readerPc = "deliver" => Genuine(inHand.command, inHand.value)
  /\ \A c \in Commands :
       /\ chan[c] \in Verdicts => Genuine(c, chan[c])
       /\ callPc[c] = "ack" => outcome[c] \in Failures \/ Genuine(c, outcome[c])

LedgerInv == LedgerType /\ LogInv /\ EntriesInv /\ AnswerInv

-----------------------------------------------------------------------------
(* Told(l, c) is the one solution of its equation, where there is one. *)
LEMMA ToldIs ==
  ASSUME NEW l, NEW c, OneTold(l, c)
  PROVE  IsTold(Told(l, c), l, c) /\ \A g : IsTold(g, l, c) => g = Told(l, c)
<1>1. Told(l, c) = CHOOSE f : IsTold(f, l, c)
  BY Zenon DEF Told, IsTold
<1>2. PICK f : IsTold(f, l, c) /\ \A g : IsTold(g, l, c) => g = f
  BY Zenon DEF OneTold
<1> QED
  BY Zenon, <1>1, <1>2

(* The recursive equation, read from left to right and back. *)
LEMMA ToldEquation ==
  ASSUME NEW f, NEW l, NEW c, Len(l) \in Nat
  PROVE  IsTold(f, l, c) <=>
           /\ f = [n \in 0 .. Len(l) |-> f[n]]
           /\ f[0] = <<>>
           /\ \A n \in 1 .. Len(l) : f[n] = Tells(f[n - 1], l[n], c)
<1> DEFINE body(n) == IF n = 0 THEN <<>> ELSE Tells(f[n - 1], l[n], c)
<1>1. 0 \in 0 .. Len(l) /\ body(0) = <<>>
  OBVIOUS
<1>2. \A n \in 1 .. Len(l) : n \in 0 .. Len(l) /\ n # 0
  OBVIOUS
<1>3. \A n \in 1 .. Len(l) : body(n) = Tells(f[n - 1], l[n], c)
  BY Zenon, <1>2
<1>4. \A n \in 0 .. Len(l) : n = 0 \/ n \in 1 .. Len(l)
  OBVIOUS
<1> HIDE DEF body
<1>5. ASSUME f = [n \in 0 .. Len(l) |-> body(n)]
      PROVE  /\ f = [n \in 0 .. Len(l) |-> f[n]]
             /\ \A n \in 0 .. Len(l) : f[n] = body(n)
  BY Zenon, <1>5
<1>6. ASSUME f = [n \in 0 .. Len(l) |-> f[n]], \A n \in 0 .. Len(l) : f[n] = body(n)
      PROVE  f = [n \in 0 .. Len(l) |-> body(n)]
  BY Zenon, <1>6
<1>7. IsTold(f, l, c) <=> f = [n \in 0 .. Len(l) |-> body(n)]
  BY Zenon DEF IsTold, body
<1> QED
  BY Zenon, <1>1, <1>2, <1>3, <1>4, <1>5, <1>6, <1>7

(* The equation, for the function that is chosen. *)
LEMMA ToldSolves ==
  ASSUME NEW l, NEW c, Len(l) \in Nat, OneTold(l, c)
  PROVE  /\ Told(l, c) = [n \in 0 .. Len(l) |-> Told(l, c)[n]]
         /\ Told(l, c)[0] = <<>>
         /\ \A n \in 1 .. Len(l) : Told(l, c)[n] = Tells(Told(l, c)[n - 1], l[n], c)
         /\ \A h : IsTold(h, l, c) => h = Told(l, c)
<1>1. IsTold(Told(l, c), l, c) /\ \A h : IsTold(h, l, c) => h = Told(l, c)
  BY Zenon, ToldIs
<1>2. PICK f : f = Told(l, c)
  OBVIOUS
<1>3. IsTold(f, l, c)
  BY Zenon, <1>1, <1>2
<1>4. /\ f = [n \in 0 .. Len(l) |-> f[n]] /\ f[0] = <<>>
      /\ \A n \in 1 .. Len(l) : f[n] = Tells(f[n - 1], l[n], c)
  BY <1>3, ToldEquation
<1> QED
  BY Zenon, <1>1, <1>2, <1>4

(* An empty log says nothing of a command. *)
LEMMA ToldEmpty == \A c : OneTold(<<>>, c) /\ Told(<<>>, c)[0] = <<>>
<1> TAKE c
<1> DEFINE f == [n \in 0 .. 0 |-> <<>>]
<1>1. Len(<<>>) = 0 /\ 0 \in 0 .. 0 /\ 0 \in Nat /\ 1 .. 0 = {} /\ \A n \in 0 .. 0 : n = 0
  OBVIOUS
<1>2. f[0] = <<>> /\ f = [n \in 0 .. 0 |-> f[n]]
  BY Zenon, <1>1
<1>3. IsTold(f, <<>>, c)
  <2> HIDE DEF f
  <2>1. \A n \in 1 .. 0 : f[n] = Tells(f[n - 1], <<>>[n], c)
    BY <1>1
  <2> QED
    BY Zenon, <1>1, <1>2, <2>1, ToldEquation
<1>4. ASSUME NEW g, IsTold(g, <<>>, c) PROVE g = f
  <2>1. g = [n \in 0 .. 0 |-> g[n]] /\ g[0] = <<>>
    BY Zenon, <1>1, <1>4, ToldEquation
  <2> QED
    BY Zenon, <1>1, <2>1
<1>5. OneTold(<<>>, c)
  BY Zenon, <1>3, <1>4 DEF OneTold
<1> QED
  BY Zenon, <1>2, <1>3, <1>5, ToldIs

(* One more entry says what it says, after what the log said before. *)
LEMMA ToldAppend ==
  ASSUME NEW l \in Seq(LogEntries), NEW entry \in LogEntries, NEW c, OneTold(l, c)
  PROVE  /\ OneTold(Append(l, entry), c)
         /\ \A n \in 0 .. Len(l) : Told(Append(l, entry), c)[n] = Told(l, c)[n]
         /\ Told(Append(l, entry), c)[Len(l) + 1] = Tells(Told(l, c)[Len(l)], entry, c)
<1> DEFINE k == Append(l, entry)
           f == Told(l, c)
           N == Len(l)
           g == [n \in 0 .. N + 1 |-> IF n <= N THEN f[n] ELSE Tells(f[N], entry, c)]
<1>1. /\ N \in Nat /\ Len(k) = N + 1 /\ Len(k) \in Nat /\ k[N + 1] = entry
      /\ \A n \in 1 .. N : k[n] = l[n]
  OBVIOUS
<1>2. /\ f = [n \in 0 .. N |-> f[n]] /\ f[0] = <<>>
      /\ \A n \in 1 .. N : f[n] = Tells(f[n - 1], l[n], c)
      /\ \A h : IsTold(h, l, c) => h = f
  BY Zenon, <1>1, ToldSolves
<1> HIDE DEF k, f, N
<1>3. /\ \A n \in 0 .. N : n \in 0 .. N + 1 /\ n <= N
      /\ N + 1 \in 0 .. N + 1 /\ ~(N + 1 <= N) /\ 0 \in 0 .. N /\ N \in 0 .. N
      /\ \A n \in 0 .. N + 1 : n \in 0 .. N \/ n = N + 1
      /\ \A n \in 1 .. N + 1 : n \in 1 .. N \/ n = N + 1
      /\ \A n \in 1 .. N : n \in 0 .. N /\ n - 1 \in 0 .. N /\ n \in 1 .. N + 1
      /\ (N + 1) - 1 = N /\ N + 1 \in 1 .. N + 1
  BY <1>1
<1>4. (\A n \in 0 .. N : g[n] = f[n]) /\ g[N + 1] = Tells(f[N], entry, c)
  BY Zenon, <1>3
<1>5. g = [n \in 0 .. N + 1 |-> g[n]]
  BY Zenon
<1> HIDE DEF g
<1>6. IsTold(g, k, c)
  <2>1. g[0] = <<>>
    BY Zenon, <1>2, <1>3, <1>4
  <2>2. ASSUME NEW n \in 1 .. N + 1 PROVE g[n] = Tells(g[n - 1], k[n], c)
    <3>1. CASE n \in 1 .. N
      <4>1. g[n] = f[n] /\ g[n - 1] = f[n - 1] /\ k[n] = l[n]
        BY Zenon, <1>1, <1>3, <1>4, <3>1
      <4> QED
        BY Zenon, <1>2, <3>1, <4>1
    <3>2. CASE n = N + 1
      <4>1. n - 1 = N
        BY <1>1, <3>2
      <4> QED
        BY Zenon, <1>1, <1>3, <1>4, <3>2, <4>1
    <3> QED
      BY Zenon, <1>3, <3>1, <3>2
  <2> QED
    BY Zenon, <1>1, <1>5, <2>1, <2>2, ToldEquation
<1>7. ASSUME NEW h, IsTold(h, k, c) PROVE h = g
  <2>1. /\ h = [n \in 0 .. N + 1 |-> h[n]] /\ h[0] = <<>>
        /\ \A n \in 1 .. N + 1 : h[n] = Tells(h[n - 1], k[n], c)
    <3>1. /\ h = [n \in 0 .. Len(k) |-> h[n]] /\ h[0] = <<>>
          /\ \A n \in 1 .. Len(k) : h[n] = Tells(h[n - 1], k[n], c)
      BY Zenon, <1>1, <1>7, ToldEquation
    <3> QED
      BY Zenon, <1>1, <3>1
  <2> DEFINE j == [n \in 0 .. N |-> h[n]]
  <2>2. /\ j = [n \in 0 .. N |-> j[n]]
        /\ \A n \in 0 .. N : j[n] = h[n]
    BY Zenon
  <2> HIDE DEF j
  <2>3. j[0] = <<>>
    BY Zenon, <1>3, <2>1, <2>2
  <2>4. ASSUME NEW n \in 1 .. N PROVE j[n] = Tells(j[n - 1], l[n], c)
    <3>1. j[n] = h[n] /\ j[n - 1] = h[n - 1] /\ k[n] = l[n] /\ n \in 1 .. N + 1
      BY Zenon, <1>1, <1>3, <2>2
    <3> QED
      BY Zenon, <2>1, <3>1
  <2>5. IsTold(j, l, c)
    BY Zenon, <1>1, <2>2, <2>3, <2>4, ToldEquation DEF N
  <2>6. \A n \in 0 .. N : h[n] = g[n]
    BY Zenon, <1>2, <1>4, <2>2, <2>5
  <2>7. h[N + 1] = g[N + 1]
    <3>1. h[N + 1] = Tells(h[N], entry, c)
      BY Zenon, <1>1, <1>3, <2>1
    <3> QED
      BY Zenon, <1>3, <1>4, <2>6, <3>1
  <2>8. \A n \in 0 .. N + 1 : h[n] = g[n]
    BY Zenon, <1>3, <2>6, <2>7
  <2> QED
    BY Zenon, <1>5, <2>1, <2>8
<1>8. OneTold(k, c)
  BY Zenon, <1>6, <1>7 DEF OneTold
<1>9. Told(k, c) = g
  BY Zenon, <1>6, <1>8, ToldIs
<1> QED
  BY Zenon, <1>4, <1>8, <1>9 DEF k, f, N


(* What each kind of entry says of a command. *)
LEMMA TellsEffect ==
  ASSUME NEW own, NEW c \in Commands
  PROVE  /\ \A d \in Commands :
              Tells(own, Issued(d), c) = IF c = d THEN Append(own, "issued") ELSE own
         /\ \A d \in Commands, v \in Outcomes :
              Tells(own, Ack(d, v), c) = IF c = d THEN Append(own, v) ELSE own
         /\ \A n \in Nat : Tells(own, Event(n), c) = own
         /\ Tells(own, Entity, c) = own
<1>1. ASSUME NEW d \in Commands
      PROVE  Tells(own, Issued(d), c) = IF c = d THEN Append(own, "issued") ELSE own
  BY DEF Tells, Issued
<1>2. ASSUME NEW d \in Commands, NEW v \in Outcomes
      PROVE  Tells(own, Ack(d, v), c) = IF c = d THEN Append(own, v) ELSE own
  BY DEF Tells, Issued, Ack
<1>3. ASSUME NEW n \in Nat PROVE Tells(own, Event(n), c) = own
  BY DEF Tells, Issued, Event
<1>4. Tells(own, Entity, c) = own
  BY DEF Tells, Issued, Entity
<1> QED
  BY Zenon, <1>1, <1>2, <1>3, <1>4

(* What an append does to the entries about a command. *)
LEMMA EntriesStep ==
  ASSUME log \in Seq(LogEntries), LogInv, NEW entry \in LogEntries, Appends(entry)
  PROVE  LogInv' /\ \A c \in Commands : Entries(c)' = Tells(Entries(c), entry, c)
<1>1. log' = Append(log, entry) /\ Len(log') = Len(log) + 1
  BY DEF Appends
<1>2. ASSUME NEW c \in Commands
      PROVE  OneTold(log', c) /\ Told(log', c)[Len(log')] = Tells(Told(log, c)[Len(log)], entry, c)
  <2>1. OneTold(log, c)
    BY Zenon DEF LogInv
  <2>2. /\ OneTold(Append(log, entry), c)
        /\ Told(Append(log, entry), c)[Len(log) + 1] = Tells(Told(log, c)[Len(log)], entry, c)
    BY Zenon, <2>1, ToldAppend
  <2> QED
    BY Zenon, <1>1, <2>2
<1> QED
  BY Zenon, <1>2 DEF LogInv, Entries

(* A step that adds no entry of a command leaves the entries alone. *)
LEMMA EntriesFrame ==
  ASSUME log \in Seq(LogEntries), LogInv,
         \/ UNCHANGED log
         \/ Appends(Entity)
         \/ \E n \in Nat : Appends(Event(n))
  PROVE  LogInv' /\ \A c \in Commands : Entries(c)' = Entries(c)
<1>1. CASE UNCHANGED log
  BY Zenon, <1>1 DEF LogInv, Entries
<1>2. CASE Appends(Entity)
  <2>1. LogInv' /\ \A c \in Commands : Entries(c)' = Tells(Entries(c), Entity, c)
    BY Zenon, <1>2, EntriesStep, EntityLogged
  <2>2. \A c \in Commands : Tells(Entries(c), Entity, c) = Entries(c)
    BY Zenon, TellsEffect
  <2> QED
    BY Zenon, <2>1, <2>2
<1>3. ASSUME NEW n \in Nat, Appends(Event(n))
      PROVE  LogInv' /\ \A c \in Commands : Entries(c)' = Entries(c)
  <2>1. LogInv' /\ \A c \in Commands : Entries(c)' = Tells(Entries(c), Event(n), c)
    BY Zenon, <1>3, EntriesStep, EntityLogged
  <2>2. \A c \in Commands : Tells(Entries(c), Event(n), c) = Entries(c)
    BY Zenon, TellsEffect
  <2> QED
    BY Zenon, <2>1, <2>2
<1> QED
  BY Zenon, <1>1, <1>2, <1>3

-----------------------------------------------------------------------------
(* LedgerInv holds when the connection is made, and the ledger is empty. *)
LEMMA InitLedger == Init => LedgerInv /\ Ledger!Init
<1> SUFFICES ASSUME Init PROVE LedgerInv /\ Ledger!Init
  OBVIOUS
<1>1. /\ log = <<>> /\ wire = <<>> /\ readerPc = "recv" /\ toDriver = {} /\ held = {}
      /\ callPc = [c \in Commands |-> "idle"] /\ chan = [c \in Commands |-> "none"]
      /\ answered = [c \in Commands |-> 0]
  BY Zenon DEF Init
<1>2. LedgerType
  BY <1>1 DEF LedgerType
<1>3. LogInv
  BY Zenon, <1>1, ToldEmpty DEF LogInv
<1>4. \A c \in Commands : Entries(c) = <<>>
  <2>1. Len(log) = 0
    BY <1>1
  <2> QED
    BY Zenon, <1>1, <2>1, ToldEmpty DEF Entries
<1>5. EntriesInv
  BY <1>1, <1>4 DEF EntriesInv, Between
<1>6. AnswerInv
  BY <1>1 DEF AnswerInv, Verdicts
<1>7. Ledger!Init
  <2>1. [c \in Commands |-> Entries(c)] = [c \in Commands |-> <<>>]
    BY Zenon, <1>4
  <2>2. {c \in Commands : answered[c] > 0} = {} /\ {c \in Commands : callPc[c] = "done"} = {}
    BY <1>1
  <2> QED
    BY Zenon, <2>1, <2>2 DEF Ledger!Init
<1> QED
  BY Zenon, <1>2, <1>3, <1>5, <1>6, <1>7 DEF LedgerInv

(* What the ledger sees of a step that leaves its entries, the answers and the
   calls that have returned alone. *)
LEMMA LedgerStutters ==
  ASSUME \A c \in Commands : Entries(c)' = Entries(c),
         \A c \in Commands : callPc'[c] = "done" <=> callPc[c] = "done",
         UNCHANGED <<answered, verdict>>
  PROVE  UNCHANGED Ledger!vars
<1>1. [c \in Commands |-> Entries(c)]' = [c \in Commands |-> Entries(c)]
  BY Zenon
<1>2. /\ {c \in Commands : answered[c] > 0}' = {c \in Commands : answered[c] > 0}
      /\ {c \in Commands : callPc[c] = "done"}' = {c \in Commands : callPc[c] = "done"}
  BY Zenon
<1> QED
  BY Zenon, <1>1, <1>2 DEF Ledger!vars

(* A step that is no call's: what it puts on the way to a call is genuine. *)
LEMMA LedgerFrame ==
  ASSUME LedgerInv, log \in Seq(LogEntries), UNCHANGED <<answered, verdict, callVars>>,
         UNCHANGED log \/ Appends(Entity) \/ \E n \in Nat : Appends(Event(n)),
         toDriver' \subseteq Commands, held' \subseteq Commands,
         toDriver' \cup held' \subseteq toDriver \cup held,
         \A c \in Commands : chan'[c] \in Verdicts => Genuine(c, chan'[c]),
         readerPc' = "deliver" => Genuine(inHand'.command, inHand'.value),
         \A i \in 1 .. Len(wire') :
           wire'[i].kind = "result" => Genuine(wire'[i].command, wire'[i].value)
  PROVE  LedgerInv' /\ UNCHANGED Ledger!vars
<1>1. LogInv' /\ \A c \in Commands : Entries(c)' = Entries(c)
  BY Zenon, EntriesFrame DEF LedgerInv
<1>2. callPc' = callPc /\ outcome' = outcome /\ answered' = answered /\ verdict' = verdict
  BY Zenon DEF callVars
<1>3. LedgerType'
  BY Zenon, <1>2 DEF LedgerInv, LedgerType
<1>4. EntriesInv'
  BY Zenon, <1>1, <1>2 DEF LedgerInv, EntriesInv
<1>5. AnswerInv'
  BY Zenon, <1>2 DEF LedgerInv, AnswerInv, Genuine
<1>6. UNCHANGED Ledger!vars
  BY Zenon, <1>1, <1>2, LedgerStutters
<1> QED
  BY Zenon, <1>1, <1>3, <1>4, <1>5, <1>6 DEF LedgerInv

(* A step of SendCommand: the entries stay, and the call has a genuine answer or
   a failure when it leaves. *)
LEMMA CallFrame ==
  ASSUME LedgerInv, callPc \in [Commands -> Places], NEW c \in Commands, NEW p \in Between,
         callPc[c] \in Between, Goto(c, p),
         UNCHANGED <<log, answered, verdict, readerPc, inHand, wire, held>>,
         toDriver' \subseteq toDriver \cup {c},
         \A d \in Commands : chan'[d] \in Verdicts => chan'[d] = chan[d],
         \A d \in Commands : d # c => outcome'[d] = outcome[d],
         p = "ack" => outcome'[c] \in Failures \/ Genuine(c, outcome'[c])
  PROVE  LedgerInv' /\ UNCHANGED Ledger!vars
<1>1. LogInv' /\ \A d \in Commands : Entries(d)' = Entries(d)
  BY Zenon DEF LedgerInv, LogInv, Entries
<1>2. /\ callPc'[c] = p /\ \A d \in Commands : d # c => callPc'[d] = callPc[d]
      /\ p # "done" /\ callPc[c] # "done" /\ p \notin Before
  BY DEF Goto, Between, Before, Places
<1>3. LedgerType'
  BY DEF LedgerInv, LedgerType
<1>4. Entries(c) = <<"issued">> /\ <<"issued">> # <<>>
  BY DEF LedgerInv, EntriesInv
<1>5. EntriesInv'
  <2> SUFFICES ASSUME NEW d \in Commands
               PROVE  /\ callPc'[d] \in Before => Entries(d) = <<>>
                      /\ callPc'[d] \in Between => Entries(d) = <<"issued">>
                      /\ d \in toDriver' \cup held' => Entries(d) # <<>>
    BY Zenon, <1>1 DEF EntriesInv
  <2>1. CASE d = c
    BY Zenon, <1>2, <1>4, <2>1
  <2>2. CASE d # c
    BY Zenon, <1>2, <2>2 DEF LedgerInv, EntriesInv
  <2> QED
    BY Zenon, <2>1, <2>2
<1>6. AnswerInv'
  <2>1. ASSUME NEW d \in Commands
        PROVE  /\ chan'[d] \in Verdicts => Genuine(d, chan'[d])
               /\ callPc'[d] = "ack" => outcome'[d] \in Failures \/ Genuine(d, outcome'[d])
    BY Zenon, <1>2 DEF LedgerInv, AnswerInv
  <2> QED
    BY Zenon, <2>1 DEF LedgerInv, AnswerInv, Genuine
<1>7. UNCHANGED Ledger!vars
  BY Zenon, <1>1, <1>2, LedgerStutters
<1> QED
  BY Zenon, <1>1, <1>3, <1>5, <1>6, <1>7 DEF LedgerInv

(* The ledger after a step that changes it for one command. *)
LEMMA LedgerMoves ==
  ASSUME NEW c \in Commands, NEW own,
         Entries(c)' = own, \A d \in Commands : d # c => Entries(d)' = Entries(d)
  PROVE  [d \in Commands |-> Entries(d)]' = [[d \in Commands |-> Entries(d)] EXCEPT ![c] = own]
<1> DEFINE F == [d \in Commands |-> Entries(d)]
<1>1. \A d \in Commands : [F EXCEPT ![c] = own][d] = IF d = c THEN own ELSE Entries(d)
  BY Zenon
<1>2. [F EXCEPT ![c] = own] = [d \in Commands |-> IF d = c THEN own ELSE Entries(d)]
  BY Zenon
<1>3. \A d \in Commands : Entries(d)' = IF d = c THEN own ELSE Entries(d)
  BY Zenon
<1>4. [d \in Commands |-> Entries(d)]' = [d \in Commands |-> IF d = c THEN own ELSE Entries(d)]
  BY Zenon, <1>3
<1> QED
  BY Zenon, <1>2, <1>4

(* A step of Dispatch before or after SendCommand: the invariant, from what the
   step does to the entries about its command. *)
LEMMA EntryKeeps ==
  ASSUME LedgerInv, callPc \in [Commands -> Places], NEW c \in Commands, NEW p \in Places,
         Goto(c, p), LogInv', p # "ack",
         UNCHANGED <<answered, verdict, toDriver, held, wire, readerPc, inHand, chan>>,
         \A d \in Commands : d # c => Entries(d)' = Entries(d) /\ outcome'[d] = outcome[d],
         p \in Before => Entries(c)' = <<>>,
         p \in Between => Entries(c)' = <<"issued">>,
         Entries(c)' = <<>> => Entries(c) = <<>>
  PROVE  LedgerInv'
<1>1. callPc'[c] = p /\ \A d \in Commands : d # c => callPc'[d] = callPc[d]
  BY DEF Goto
<1>2. LedgerType'
  BY Zenon DEF LedgerInv, LedgerType
<1>3. EntriesInv'
  <2> SUFFICES ASSUME NEW d \in Commands
               PROVE  /\ callPc'[d] \in Before => Entries(d)' = <<>>
                      /\ callPc'[d] \in Between => Entries(d)' = <<"issued">>
                      /\ d \in toDriver' \cup held' => Entries(d)' # <<>>
    BY Zenon DEF EntriesInv
  <2>1. CASE d = c
    BY Zenon, <1>1, <2>1 DEF LedgerInv, EntriesInv
  <2>2. CASE d # c
    BY Zenon, <1>1, <2>2 DEF LedgerInv, EntriesInv
  <2> QED
    BY Zenon, <2>1, <2>2
<1>4. AnswerInv'
  <2>1. ASSUME NEW d \in Commands
        PROVE  /\ chan'[d] \in Verdicts => Genuine(d, chan'[d])
               /\ callPc'[d] = "ack" => outcome'[d] \in Failures \/ Genuine(d, outcome'[d])
    BY Zenon, <1>1 DEF LedgerInv, AnswerInv
  <2> QED
    BY Zenon, <2>1 DEF LedgerInv, AnswerInv, Genuine
<1> QED
  BY Zenon, <1>2, <1>3, <1>4 DEF LedgerInv

(* What has returned after a step of one call. *)
LEMMA ReturnedMoves ==
  ASSUME callPc \in [Commands -> Places], NEW c \in Commands, NEW p \in Places, Goto(c, p),
         callPc[c] # "done"
  PROVE  /\ c \notin {d \in Commands : callPc[d] = "done"}
         /\ {d \in Commands : callPc[d] = "done"}' =
              IF p = "done" THEN {d \in Commands : callPc[d] = "done"} \cup {c}
              ELSE {d \in Commands : callPc[d] = "done"}
<1>1. callPc'[c] = p /\ \A d \in Commands : d # c => callPc'[d] = callPc[d]
  BY DEF Goto
<1> QED
  BY <1>1

(* The places of a call, told apart. *)
LEMMA PlacesApart ==
  /\ Before \cup Between \subseteq Places /\ "done" \in Places
  /\ "issue" \in Before /\ "register" \in Between /\ "ack" \in Between
  /\ \A p \in Before : p \notin Between /\ p # "done"
  /\ \A p \in Between : p # "done"
BY DEF Places, Before, Between

(* A call that returns before it has issued is refused. *)
LEMMA RefuseLedger ==
  ASSUME LedgerInv, callPc \in [Commands -> Places], NEW c \in Commands,
         callPc[c] \in Before, Goto(c, "done"),
         UNCHANGED <<log, answered, verdict, toDriver, held, wire, readerPc, inHand, chan>>,
         \A d \in Commands : d # c => outcome'[d] = outcome[d]
  PROVE  LedgerInv' /\ Ledger!Refuse(c)
<1>1. LogInv' /\ \A d \in Commands : Entries(d)' = Entries(d)
  BY Zenon DEF LedgerInv, LogInv, Entries
<1>2. Entries(c) = <<>>
  BY Zenon DEF LedgerInv, EntriesInv
<1>3. LedgerInv'
  BY Zenon, <1>1, <1>2, PlacesApart, EntryKeeps
<1>4. /\ c \notin {d \in Commands : callPc[d] = "done"}
      /\ {d \in Commands : callPc[d] = "done"}' = {d \in Commands : callPc[d] = "done"} \cup {c}
  BY Zenon, PlacesApart, ReturnedMoves
<1>5. [d \in Commands |-> Entries(d)]' = [d \in Commands |-> Entries(d)]
  BY Zenon, <1>1
<1>6. [d \in Commands |-> Entries(d)][c] = <<>>
  BY Zenon, <1>2
<1>7. {d \in Commands : answered[d] > 0}' = {d \in Commands : answered[d] > 0}
  BY Zenon
<1>8. Ledger!Refuse(c)
  BY Zenon, <1>4, <1>5, <1>6, <1>7 DEF Ledger!Refuse
<1> QED
  BY Zenon, <1>3, <1>8

(* DispatchStart: the call goes on to issue, or is refused. *)
LEMMA StartLedger ==
  ASSUME LedgerInv, callPc \in [Commands -> Places], outcome \in [Commands -> Outcomes],
         NEW c \in Commands, DispatchStart(c)
  PROVE  LedgerInv' /\ [Ledger!Next]_(Ledger!vars)
<1>1. /\ UNCHANGED <<log, answered, verdict, toDriver, held, wire, readerPc, inHand, chan>>
      /\ callPc[c] = "idle"
      /\ (Goto(c, "issue") /\ outcome' = outcome) \/ (Goto(c, "done") /\ Ends(c, "not_running"))
  BY Zenon DEF DispatchStart, driverVars, readerVars, connVars
<1>2. callPc[c] \in Before /\ \A d \in Commands : d # c => outcome'[d] = outcome[d]
  BY <1>1 DEF Ends, Before
<1>3. CASE Goto(c, "issue")
  <2>1. LogInv' /\ \A d \in Commands : Entries(d)' = Entries(d)
    BY Zenon, <1>1 DEF LedgerInv, LogInv, Entries
  <2>2. Entries(c) = <<>>
    BY Zenon, <1>2 DEF LedgerInv, EntriesInv
  <2>3. "issue" \in Places /\ "issue" \notin Between /\ "issue" # "ack"
    BY Zenon, PlacesApart
  <2>4. LedgerInv'
    BY Zenon, <1>1, <1>2, <1>3, <2>1, <2>2, <2>3, EntryKeeps
  <2>5. \A d \in Commands : callPc'[d] = "done" <=> callPc[d] = "done"
    BY <1>1, <1>3 DEF Goto
  <2> QED
    BY Zenon, <1>1, <2>1, <2>4, <2>5, LedgerStutters
<1>4. CASE Goto(c, "done")
  BY Zenon, <1>1, <1>2, <1>4, RefuseLedger DEF Ledger!Next
<1> QED
  BY Zenon, <1>1, <1>3, <1>4

(* Issue: CommandIssued is the first entry, or the call is refused. *)
LEMMA IssueLedger ==
  ASSUME LedgerInv, callPc \in [Commands -> Places], log \in Seq(LogEntries),
         outcome \in [Commands -> Outcomes], NEW c \in Commands, Issue(c)
  PROVE  LedgerInv' /\ [Ledger!Next]_(Ledger!vars)
<1>1. /\ UNCHANGED <<answered, verdict, toDriver, held, wire, readerPc, inHand, chan>>
      /\ callPc[c] = "issue"
      /\ \/ Appends(Issued(c)) /\ Goto(c, "register") /\ outcome' = outcome
         \/ log' = log /\ Goto(c, "done") /\ Ends(c, "unlogged")
  BY Zenon DEF Issue, Fails, driverVars, readerVars, connVars
<1>2. callPc[c] \in Before /\ \A d \in Commands : d # c => outcome'[d] = outcome[d]
  BY <1>1 DEF Ends, Before
<1>3. CASE log' = log /\ Goto(c, "done")
  BY Zenon, <1>1, <1>2, <1>3, RefuseLedger DEF Ledger!Next
<1>4. CASE Appends(Issued(c)) /\ Goto(c, "register")
  <2>1. LogInv' /\ \A d \in Commands : Entries(d)' = Tells(Entries(d), Issued(c), d)
    BY Zenon, <1>4, EntriesStep, EntityLogged DEF LedgerInv
  <2>2. Entries(c) = <<>>
    BY Zenon, <1>2 DEF LedgerInv, EntriesInv
  <2>3. Append(<<>>, "issued") = <<"issued">> /\ <<"issued">> # <<>>
    OBVIOUS
  <2>4. \A d \in Commands :
          Tells(Entries(d), Issued(c), d) =
            IF d = c THEN Append(Entries(d), "issued") ELSE Entries(d)
    BY Zenon, TellsEffect
  <2>5. Entries(c)' = <<"issued">> /\ \A d \in Commands : d # c => Entries(d)' = Entries(d)
    BY Zenon, <2>1, <2>2, <2>3, <2>4
  <2>6. "register" \in Places /\ "register" \notin Before /\ "register" # "ack"
    BY Zenon, PlacesApart
  <2>7. LedgerInv'
    BY Zenon, <1>1, <1>2, <1>4, <2>1, <2>2, <2>3, <2>5, <2>6, EntryKeeps
  <2>8. /\ c \notin {d \in Commands : callPc[d] = "done"}
        /\ {d \in Commands : callPc[d] = "done"}' = {d \in Commands : callPc[d] = "done"}
    BY Zenon, <1>1, <1>4, <2>6, ReturnedMoves
  <2>9. /\ [d \in Commands |-> Entries(d)]' =
             [[d \in Commands |-> Entries(d)] EXCEPT ![c] = <<"issued">>]
        /\ [d \in Commands |-> Entries(d)][c] = <<>>
    BY Zenon, <2>2, <2>5, LedgerMoves
  <2>10. {d \in Commands : answered[d] > 0}' = {d \in Commands : answered[d] > 0}
    BY Zenon, <1>1
  <2>11. Ledger!Issue(c)
    BY Zenon, <1>1, <2>8, <2>9, <2>10 DEF Ledger!Issue
  <2> QED
    BY Zenon, <2>7, <2>11 DEF Ledger!Next
<1> QED
  BY Zenon, <1>1, <1>3, <1>4

(* The acknowledgement, after the entry of the issue. *)
LEMMA AckFollows ==
  ASSUME NEW S, "issued" \in S, NEW v \in S
  PROVE  Append(<<"issued">>, v) = <<"issued", v>> /\ <<"issued", v>> # <<>>
<1>1. Append(<<"issued">>, v) = <<"issued", v>>
  <2>1. <<"issued">> \in Seq(S) /\ Len(<<"issued">>) = 1
    OBVIOUS
  <2>2. Len(Append(<<"issued">>, v)) = 2 /\ Append(<<"issued">>, v) \in Seq(S)
    BY <2>1
  <2>3. Append(<<"issued">>, v)[1] = "issued" /\ Append(<<"issued">>, v)[2] = v
    BY <2>1
  <2>4. <<"issued", v>> \in Seq(S) /\ Len(<<"issued", v>>) = 2
    OBVIOUS
  <2>5. \A i \in 1 .. 2 : Append(<<"issued">>, v)[i] = <<"issued", v>>[i]
    BY <2>3
  <2> QED
    BY Zenon, <2>2, <2>4, <2>5, SeqEqual
<1>2. <<"issued", v>> # <<>>
  OBVIOUS
<1> QED
  BY Zenon, <1>1, <1>2

(* AppendAck: CommandAck is the second and last entry. *)
LEMMA AckLedger ==
  ASSUME LedgerInv, callPc \in [Commands -> Places], log \in Seq(LogEntries),
         outcome \in [Commands -> Outcomes], "ack" \notin MayFail,
         NEW c \in Commands, AppendAck(c)
  PROVE  LedgerInv' /\ [Ledger!Next]_(Ledger!vars)
<1>1. /\ UNCHANGED <<answered, verdict, toDriver, held, wire, readerPc, inHand, chan>>
      /\ callPc[c] = "ack" /\ Appends(Ack(c, outcome[c])) /\ Goto(c, "done")
      /\ outcome' = outcome
  BY Zenon DEF AppendAck, Fails, driverVars, readerVars, connVars
<1>2. outcome[c] \in Outcomes
  OBVIOUS
<1>3. PICK v \in Outcomes : v = outcome[c]
  BY Zenon, <1>2
<1>4. LogInv' /\ \A d \in Commands : Entries(d)' = Tells(Entries(d), Ack(c, v), d)
  BY Zenon, <1>1, <1>3, EntriesStep, EntityLogged DEF LedgerInv
<1>5. Entries(c) = <<"issued">>
  BY Zenon, <1>1, PlacesApart DEF LedgerInv, EntriesInv
<1>6. Append(<<"issued">>, v) = <<"issued", v>> /\ <<"issued", v>> # <<>>
  <2>1. "issued" \in {"issued", v} /\ v \in {"issued", v}
    OBVIOUS
  <2> QED
    BY Zenon, <2>1, AckFollows
<1>7. \A d \in Commands :
        Tells(Entries(d), Ack(c, v), d) = IF d = c THEN Append(Entries(d), v) ELSE Entries(d)
  <2>1. v \in Outcomes
    BY Zenon, <1>3
  <2>2. \A d \in Commands :
          \A w \in Outcomes :
            Tells(Entries(d), Ack(c, w), d) = IF d = c THEN Append(Entries(d), w) ELSE Entries(d)
    BY Zenon, TellsEffect
  <2> QED
    BY Zenon, <2>1, <2>2
<1>8. Entries(c)' = <<"issued", v>> /\ \A d \in Commands : d # c => Entries(d)' = Entries(d)
  BY Zenon, <1>4, <1>5, <1>6, <1>7
<1>9. LedgerInv'
  <2>1. "done" \in Places /\ "done" \notin Before /\ "done" \notin Between /\ "done" # "ack"
    BY Zenon, PlacesApart
  <2> QED
    BY Zenon, <1>1, <1>4, <1>6, <1>8, <2>1, EntryKeeps
<1>10. /\ c \notin {d \in Commands : callPc[d] = "done"}
       /\ {d \in Commands : callPc[d] = "done"}' = {d \in Commands : callPc[d] = "done"} \cup {c}
  BY Zenon, <1>1, PlacesApart, ReturnedMoves
<1>11. /\ [d \in Commands |-> Entries(d)]' =
            [[d \in Commands |-> Entries(d)] EXCEPT ![c] = <<"issued", v>>]
       /\ [d \in Commands |-> Entries(d)][c] = <<"issued">>
  BY Zenon, <1>5, <1>8, LedgerMoves
<1>12. {d \in Commands : answered[d] > 0}' = {d \in Commands : answered[d] > 0}
  BY Zenon, <1>1
<1>13. v \in Failures \/ (c \in {d \in Commands : answered[d] > 0} /\ v = verdict[c])
  BY Zenon, <1>1, <1>3 DEF LedgerInv, AnswerInv, Genuine
<1>14. Ledger!Acknowledge(c)
  BY Zenon, <1>1, <1>10, <1>11, <1>12, <1>13 DEF Ledger!Acknowledge
<1> QED
  BY Zenon, <1>9, <1>14 DEF Ledger!Next

(* The steps of SendCommand: the ledger does not see them. *)
LEMMA SendLedger ==
  ASSUME LedgerInv, callPc \in [Commands -> Places], outcome \in [Commands -> Outcomes],
         chan \in [Commands -> {"none", "open", "closed"} \cup Verdicts],
         NEW c \in Commands,
         \/ RegisterWaiter(c) \/ Send(c) \/ SendError(c)
         \/ TakeResult(c) \/ TakeClosed(c) \/ GiveUp(c)
  PROVE  LedgerInv' /\ UNCHANGED Ledger!vars
<1> DEFINE Quiet(p) ==
      /\ UNCHANGED <<log, answered, verdict, readerPc, inHand, wire, held>>
      /\ callPc[c] \in Between /\ Goto(c, p)
      /\ \A d \in Commands : d # c => outcome'[d] = outcome[d]
<1>1. ASSUME NEW p \in Between, Quiet(p), toDriver' \subseteq toDriver \cup {c},
             \A d \in Commands : chan'[d] \in Verdicts => chan'[d] = chan[d],
             p = "ack" => outcome'[c] \in Failures \/ Genuine(c, outcome'[c])
      PROVE  LedgerInv' /\ UNCHANGED Ledger!vars
  BY Zenon, <1>1, CallFrame
<1>2. "send" \in Between /\ "wait" \in Between /\ "ack" \in Between
  BY DEF Between
<1>3. CASE RegisterWaiter(c)
  <2>1. CASE closed /\ Goto(c, "ack") /\ Ends(c, "closed") /\ UNCHANGED chan
    <3>1. Quiet("ack") /\ outcome'[c] \in Failures /\ toDriver' = toDriver
      BY <1>3, <2>1 DEF RegisterWaiter, Ends, Failures, Between, driverVars, readerVars
    <3> HIDE DEF Quiet
    <3> QED
      BY Zenon, <1>1, <1>2, <2>1, <3>1
  <2>2. CASE chan' = [chan EXCEPT ![c] = "open"] /\ Goto(c, "send") /\ UNCHANGED outcome
    <3>1. Quiet("send") /\ "send" # "ack" /\ toDriver' = toDriver
      BY <1>3, <2>2 DEF RegisterWaiter, Between, driverVars, readerVars
    <3>2. \A d \in Commands : chan'[d] \in Verdicts => chan'[d] = chan[d]
      BY <2>2 DEF Verdicts
    <3> HIDE DEF Quiet
    <3> QED
      BY Zenon, <1>1, <1>2, <3>1, <3>2
  <2> QED
    BY Zenon, <1>3, <2>1, <2>2 DEF RegisterWaiter
<1>4. CASE Send(c)
  <2>1. Quiet("wait") /\ "wait" # "ack" /\ toDriver' = toDriver \cup {c} /\ chan' = chan
    BY <1>4 DEF Send, Between, readerVars, connVars
  <2> HIDE DEF Quiet
  <2> QED
    BY Zenon, <1>1, <1>2, <2>1
<1>5. CASE SendError(c) \/ TakeClosed(c) \/ GiveUp(c)
  <2>1. Quiet("ack") /\ outcome'[c] \in Failures /\ toDriver' = toDriver /\ chan' = chan
    BY <1>5 DEF SendError, TakeClosed, GiveUp, Ends, Failures, Between, driverVars,
                readerVars, connVars
  <2> HIDE DEF Quiet
  <2> QED
    BY Zenon, <1>1, <1>2, <2>1
<1>6. CASE TakeResult(c)
  <2>1. /\ Quiet("ack") /\ outcome'[c] = chan[c] /\ chan[c] \in Verdicts
        /\ toDriver' = toDriver /\ chan' = chan
    BY <1>6 DEF TakeResult, Ends, Between, driverVars, readerVars, connVars
  <2>2. Genuine(c, outcome'[c])
    BY Zenon, <2>1 DEF LedgerInv, AnswerInv
  <2> HIDE DEF Quiet
  <2> QED
    BY Zenon, <1>1, <1>2, <2>1, <2>2
<1> QED
  BY Zenon, <1>3, <1>4, <1>5, <1>6

(* DriverAnswers: the only step by which a command gets an answer. *)
LEMMA AnswerLedger ==
  ASSUME LedgerInv, ConnType, NEW c \in Commands, DriverAnswers(c)
  PROVE  LedgerInv' /\ [Ledger!Next]_(Ledger!vars)
<1>1. /\ UNCHANGED <<log, chan, toDriver, held, verdict, callPc, outcome, readerPc, inHand>>
      /\ c \in held /\ answered' = [answered EXCEPT ![c] = @ + 1]
      /\ wire' = Append(wire, Result(c))
  BY DEF DriverAnswers, callVars, readerVars, connVars
<1>2. answered \in [Commands -> Nat]
  BY Zenon DEF LedgerInv, LedgerType
<1>3. /\ answered' \in [Commands -> Nat] /\ answered'[c] > 0
      /\ \A d \in Commands : d # c => answered'[d] = answered[d]
      /\ \A d \in Commands : answered[d] > 0 => answered'[d] > 0
  BY <1>1, <1>2
<1>4. LogInv' /\ \A d \in Commands : Entries(d)' = Entries(d)
  BY Zenon, <1>1 DEF LedgerInv, LogInv, Entries
<1>5. LedgerType' /\ EntriesInv'
  BY Zenon, <1>1, <1>3, <1>4 DEF LedgerInv, LedgerType, EntriesInv
<1>6. AnswerInv'
  <2>1. \A d \in Commands : \A value : answered[d] > 0 /\ value = verdict[d]
                                   => answered'[d] > 0 /\ value = verdict'[d]
    BY Zenon, <1>1, <1>3
  <2>2. ASSUME NEW i \in 1 .. Len(wire'), wire'[i].kind = "result"
        PROVE  answered'[wire'[i].command] > 0 /\ wire'[i].value = verdict'[wire'[i].command]
    <3>1. CASE i \in 1 .. Len(wire)
      <4>1. wire'[i] = wire[i] /\ wire[i] \in Messages
        BY <1>1, <3>1 DEF ConnType
      <4>2. wire[i].command \in Commands
        BY <2>2, <4>1 DEF Messages
      <4>3. answered[wire[i].command] > 0 /\ wire[i].value = verdict[wire[i].command]
        <5>1. wire[i].kind = "result"
          BY Zenon, <2>2, <4>1
        <5> QED
          BY Zenon, <3>1, <5>1 DEF LedgerInv, AnswerInv, Genuine
      <4> QED
        BY Zenon, <2>1, <4>1, <4>2, <4>3
    <3>2. CASE i \notin 1 .. Len(wire)
      <4>1. wire'[i] = Result(c)
        BY <1>1, <2>2, <3>2 DEF ConnType
      <4>2. wire'[i].command = c /\ wire'[i].value = verdict[c]
        BY <4>1 DEF Result
      <4> QED
        BY Zenon, <1>1, <1>3, <4>2
    <3> QED
      BY Zenon, <3>1, <3>2
  <2>3. ASSUME readerPc = "deliver"
        PROVE  answered'[inHand.command] > 0 /\ inHand.value = verdict'[inHand.command]
    <3>1. inHand.command \in Commands
      BY <2>3 DEF ConnType, Messages
    <3> QED
      BY Zenon, <2>1, <2>3, <3>1 DEF LedgerInv, AnswerInv, Genuine
  <2>4. ASSUME NEW d \in Commands
        PROVE  /\ chan[d] \in Verdicts => answered'[d] > 0 /\ chan[d] = verdict'[d]
               /\ callPc[d] = "ack" =>
                    outcome[d] \in Failures \/ (answered'[d] > 0 /\ outcome[d] = verdict'[d])
    BY Zenon, <2>1 DEF LedgerInv, AnswerInv, Genuine
  <2> QED
    BY Zenon, <1>1, <2>2, <2>3, <2>4 DEF AnswerInv, Genuine
<1>7. /\ {d \in Commands : answered[d] > 0}' = {d \in Commands : answered[d] > 0} \cup {c}
      /\ [d \in Commands |-> Entries(d)]' = [d \in Commands |-> Entries(d)]
      /\ {d \in Commands : callPc[d] = "done"}' = {d \in Commands : callPc[d] = "done"}
  <2>1. {d \in Commands : answered'[d] > 0} = {d \in Commands : answered[d] > 0} \cup {c}
    BY Zenon, <1>3
  <2> QED
    BY Zenon, <1>1, <1>4, <2>1
<1>8. [d \in Commands |-> Entries(d)][c] # <<>>
  BY Zenon, <1>1 DEF LedgerInv, EntriesInv
<1>9. Ledger!Answer(c)
  BY Zenon, <1>1, <1>7, <1>8 DEF Ledger!Answer
<1> QED
  BY Zenon, <1>4, <1>5, <1>6, <1>9 DEF LedgerInv, Ledger!Next

(* A step that leaves the calls, the driver's answers, the wire and what the
   reader holds: the rest of the connection may change. *)
LEMMA QuietLedger ==
  ASSUME LedgerInv, log \in Seq(LogEntries),
         UNCHANGED <<answered, verdict, toDriver, held, wire, callVars>>,
         UNCHANGED log \/ Appends(Entity) \/ \E n \in Nat : Appends(Event(n)),
         \A c \in Commands : chan'[c] \in Verdicts => chan'[c] = chan[c],
         readerPc' = "deliver" => readerPc = "deliver" /\ inHand' = inHand
  PROVE  LedgerInv' /\ UNCHANGED Ledger!vars
<1>1. toDriver' \subseteq Commands /\ held' \subseteq Commands
  BY Zenon DEF LedgerInv, LedgerType
<1>2. toDriver' \cup held' \subseteq toDriver \cup held
  BY Zenon
<1>3. \A c \in Commands : chan'[c] \in Verdicts => Genuine(c, chan'[c])
  BY Zenon DEF LedgerInv, AnswerInv
<1>4. readerPc' = "deliver" => Genuine(inHand'.command, inHand'.value)
  BY Zenon DEF LedgerInv, AnswerInv
<1>5. \A i \in 1 .. Len(wire') :
        wire'[i].kind = "result" => Genuine(wire'[i].command, wire'[i].value)
  BY Zenon DEF LedgerInv, AnswerInv
<1> QED
  BY Zenon, <1>1, <1>2, <1>3, <1>4, <1>5, LedgerFrame

(* The reader takes the oldest message from the wire. *)
LEMMA TakenLedger ==
  ASSUME LedgerInv, ConnType, log \in Seq(LogEntries),
         UNCHANGED <<answered, verdict, toDriver, held, chan, log, callVars>>,
         wire # <<>>, wire' = Tail(wire),
         readerPc' = "deliver" =>
           \/ readerPc = "deliver" /\ inHand' = inHand
           \/ Head(wire).kind = "result" /\ inHand' = Head(wire)
  PROVE  LedgerInv' /\ UNCHANGED Ledger!vars
<1>1. toDriver' \subseteq Commands /\ held' \subseteq Commands
  BY Zenon DEF LedgerInv, LedgerType
<1>2. toDriver' \cup held' \subseteq toDriver \cup held
  BY Zenon
<1>3. \A c \in Commands : chan'[c] \in Verdicts => Genuine(c, chan'[c])
  BY Zenon DEF LedgerInv, AnswerInv
<1>4. readerPc' = "deliver" => Genuine(inHand'.command, inHand'.value)
  <2>1. 1 \in 1 .. Len(wire) /\ Head(wire) = wire[1]
    BY DEF ConnType
  <2>2. Head(wire).kind = "result" => Genuine(Head(wire).command, Head(wire).value)
    BY Zenon, <2>1 DEF LedgerInv, AnswerInv
  <2> QED
    BY Zenon, <2>2 DEF LedgerInv, AnswerInv
<1>5. ASSUME NEW i \in 1 .. Len(wire'), wire'[i].kind = "result"
      PROVE  Genuine(wire'[i].command, wire'[i].value)
  <2>1. i + 1 \in 1 .. Len(wire) /\ wire'[i] = wire[i + 1]
    BY <1>5 DEF ConnType
  <2>2. wire[i + 1].kind = "result" => Genuine(wire[i + 1].command, wire[i + 1].value)
    BY Zenon, <2>1 DEF LedgerInv, AnswerInv
  <2> QED
    BY Zenon, <1>5, <2>1, <2>2
<1> QED
  BY Zenon, <1>1, <1>2, <1>3, <1>4, <1>5, LedgerFrame

(* The reader goroutine. *)
LEMMA ReaderLedger ==
  ASSUME LedgerInv, ConnType, IngestType, Reader
  PROVE  LedgerInv' /\ UNCHANGED Ledger!vars
<1>0. log \in Seq(LogEntries)
  BY Zenon DEF IngestType
<1>1. CASE ReadResult
  <2>1. /\ UNCHANGED <<answered, verdict, toDriver, held, chan, log, callVars>>
        /\ wire # <<>> /\ wire' = Tail(wire) /\ Head(wire).kind = "result"
        /\ (UNCHANGED <<inHand, readerPc>>) \/ inHand' = Head(wire)
    BY Zenon, <1>1 DEF ReadResult
  <2> QED
    BY Zenon, <1>0, <2>1, TakenLedger
<1>2. CASE ReadEvent
  <2>1. /\ UNCHANGED <<answered, verdict, toDriver, held, chan, log, callVars>>
        /\ wire # <<>> /\ wire' = Tail(wire)
        /\ (UNCHANGED <<inHand, readerPc>>) \/ readerPc' = "hook"
    BY Zenon, <1>2 DEF ReadEvent, connVars
  <2>2. "hook" # "deliver"
    OBVIOUS
  <2> QED
    BY Zenon, <1>0, <2>1, <2>2, TakenLedger
<1>3. CASE Deliver
  <2>1. /\ UNCHANGED <<answered, verdict, toDriver, held, wire, log, callVars>>
        /\ readerPc = "deliver" /\ readerPc' = "recv"
    BY Zenon, <1>3 DEF Deliver, driverVars
  <2>2. \A c \in Commands : chan'[c] \in Verdicts => Genuine(c, chan'[c])
    <3> SUFFICES ASSUME NEW c \in Commands, chan'[c] \in Verdicts
                 PROVE  Genuine(c, chan'[c])
      BY Zenon
    <3>1. chan'[c] = chan[c] \/ (c = inHand.command /\ chan'[c] = inHand.value)
      BY <1>3 DEF Deliver, ConnType
    <3> QED
      BY Zenon, <2>1, <3>1 DEF LedgerInv, AnswerInv
  <2>3. "recv" # "deliver"
    OBVIOUS
  <2>4. /\ toDriver' \subseteq Commands /\ held' \subseteq Commands
        /\ toDriver' \cup held' \subseteq toDriver \cup held
    BY Zenon, <2>1 DEF LedgerInv, LedgerType
  <2>5. \A i \in 1 .. Len(wire') :
          wire'[i].kind = "result" => Genuine(wire'[i].command, wire'[i].value)
    BY Zenon, <2>1 DEF LedgerInv, AnswerInv
  <2> QED
    BY Zenon, <1>0, <2>1, <2>2, <2>3, <2>4, <2>5, LedgerFrame
<1>4. CASE ReaderIngest
  <2>1. /\ UNCHANGED <<answered, verdict, toDriver, held, wire, callVars, chan>>
        /\ readerPc = "hook" /\ readerPc' = "recv"
        /\ Appends(Event(inHand.number)) \/ UNCHANGED log
    BY Zenon, <1>4 DEF ReaderIngest, Ingest, Fails, ShutConn, driverVars, connVars
  <2>2. inHand.number \in Nat
    BY Zenon, <2>1 DEF IngestType
  <2>3. "recv" # "deliver"
    OBVIOUS
  <2> QED
    BY Zenon, <1>0, <2>1, <2>2, <2>3, QuietLedger
<1>5. CASE ReaderExit
  <2>1. /\ UNCHANGED <<answered, verdict, toDriver, held, wire, callVars, chan, log>>
        /\ readerPc' = "exit"
    BY Zenon, <1>5 DEF ReaderExit, ShutConn, driverVars
  <2>2. "exit" # "deliver"
    OBVIOUS
  <2> QED
    BY Zenon, <1>0, <2>1, <2>2, QuietLedger
<1> QED
  BY Zenon, <1>1, <1>2, <1>3, <1>4, <1>5 DEF Reader

(* The supervisor. *)
LEMMA SupervisorLedger ==
  ASSUME LedgerInv, IngestType, Supervisor
  PROVE  LedgerInv' /\ UNCHANGED Ledger!vars
<1>0. log \in Seq(LogEntries) /\ drain \in Seq(Nat)
  BY Zenon DEF IngestType
<1>1. CASE Publish \/ SetIngestHook \/ CloseConn \/ Forget
  <2>1. UNCHANGED <<answered, verdict, toDriver, held, wire, callVars, chan, log, readerPc, inHand>>
    BY Zenon, <1>1 DEF Publish, SetIngestHook, CloseConn, Forget, ShutConn, driverVars,
                       connVars, readerVars
  <2> QED
    BY Zenon, <1>0, <2>1, QuietLedger
<1>2. CASE InitialEntities
  <2>1. /\ UNCHANGED <<answered, verdict, toDriver, held, wire, callVars, chan, readerPc, inHand>>
        /\ UNCHANGED log \/ Appends(Entity)
    BY Zenon, <1>2 DEF InitialEntities, Fails, driverVars, connVars, readerVars
  <2> QED
    BY Zenon, <1>0, <2>1, QuietLedger
<1>3. CASE Drain
  <2>1. /\ UNCHANGED <<answered, verdict, toDriver, held, wire, callVars, chan, readerPc, inHand>>
        /\ UNCHANGED log \/ (drain # <<>> /\ Appends(Event(Head(drain))))
    BY Zenon, <1>3 DEF Drain, Ingest, Fails, ShutConn, driverVars, connVars, readerVars
  <2>2. drain # <<>> => Head(drain) \in Nat
    BY <1>0
  <2> QED
    BY Zenon, <1>0, <2>1, <2>2, QuietLedger
<1> QED
  BY Zenon, <1>1, <1>2, <1>3 DEF Supervisor

(* The loop of failAll, and the driver where it does not answer. *)
LEMMA OtherLedger ==
  ASSUME LedgerInv, ConnType, log \in Seq(LogEntries),
         \/ \E c \in Commands : CloseChannel(c) \/ DriverReads(c)
         \/ DriverSendsEvent \/ StreamDies \/ UNCHANGED vars
  PROVE  LedgerInv' /\ UNCHANGED Ledger!vars
<1>1. ASSUME NEW c \in Commands, CloseChannel(c) PROVE LedgerInv' /\ UNCHANGED Ledger!vars
  <2>1. UNCHANGED <<answered, verdict, toDriver, held, wire, callVars, log, readerPc, inHand>>
    BY Zenon, <1>1 DEF CloseChannel, driverVars, readerVars
  <2>2. \A d \in Commands : chan'[d] \in Verdicts => chan'[d] = chan[d]
    BY <1>1 DEF CloseChannel, ConnType, Verdicts
  <2> QED
    BY Zenon, <2>1, <2>2, QuietLedger
<1>2. ASSUME NEW c \in Commands, DriverReads(c) PROVE LedgerInv' /\ UNCHANGED Ledger!vars
  <2>1. /\ UNCHANGED <<answered, verdict, callVars, chan, wire, log, readerPc, inHand>>
        /\ c \in toDriver /\ toDriver' = toDriver \ {c} /\ held' = held \cup {c}
    BY Zenon, <1>2 DEF DriverReads, connVars, readerVars
  <2>2. /\ toDriver' \subseteq Commands /\ held' \subseteq Commands
        /\ toDriver' \cup held' \subseteq toDriver \cup held
    BY Zenon, <2>1 DEF LedgerInv, LedgerType
  <2>3. /\ \A d \in Commands : chan'[d] \in Verdicts => Genuine(d, chan'[d])
        /\ readerPc' = "deliver" => Genuine(inHand'.command, inHand'.value)
        /\ \A i \in 1 .. Len(wire') :
             wire'[i].kind = "result" => Genuine(wire'[i].command, wire'[i].value)
    BY Zenon, <2>1 DEF LedgerInv, AnswerInv
  <2> QED
    BY Zenon, <2>1, <2>2, <2>3, LedgerFrame
<1>3. CASE DriverSendsEvent
  <2>1. /\ UNCHANGED <<answered, verdict, toDriver, held, callVars, chan, log, readerPc, inHand>>
        /\ wire' = Append(wire, Event(events'))
    BY Zenon, <1>3 DEF DriverSendsEvent, connVars, readerVars
  <2>2. ASSUME NEW i \in 1 .. Len(wire'), wire'[i].kind = "result"
        PROVE  Genuine(wire'[i].command, wire'[i].value)
    <3>1. i \in 1 .. Len(wire) /\ wire'[i] = wire[i]
      BY <2>1, <2>2 DEF ConnType, Event
    <3>2. wire[i].kind = "result" => Genuine(wire[i].command, wire[i].value)
      BY Zenon, <3>1 DEF LedgerInv, AnswerInv
    <3> QED
      BY Zenon, <2>2, <3>1, <3>2
  <2>3. /\ toDriver' \subseteq Commands /\ held' \subseteq Commands
        /\ toDriver' \cup held' \subseteq toDriver \cup held
    BY Zenon, <2>1 DEF LedgerInv, LedgerType
  <2>4. /\ \A d \in Commands : chan'[d] \in Verdicts => Genuine(d, chan'[d])
        /\ readerPc' = "deliver" => Genuine(inHand'.command, inHand'.value)
    BY Zenon, <2>1 DEF LedgerInv, AnswerInv
  <2> QED
    BY Zenon, <2>1, <2>2, <2>3, <2>4, LedgerFrame
<1>4. CASE StreamDies \/ UNCHANGED vars
  <2>1. UNCHANGED <<answered, verdict, toDriver, held, wire, callVars, chan, log, readerPc, inHand>>
    BY Zenon, <1>4 DEF StreamDies, vars, driverVars, connVars, readerVars
  <2> QED
    BY Zenon, <2>1, QuietLedger
<1> QED
  BY Zenon, <1>1, <1>2, <1>3, <1>4

(* Every step keeps LedgerInv, and is a step of the ledger or none. *)
LEMMA NextLedger ==
  ASSUME "ack" \notin MayFail, WaiterInv, IngestType, LedgerInv, [Next]_vars
  PROVE  LedgerInv' /\ [Ledger!Next]_(Ledger!vars)
<1>1. /\ ConnType /\ log \in Seq(LogEntries) /\ outcome \in [Commands -> Outcomes]
      /\ chan \in [Commands -> {"none", "open", "closed"} \cup Verdicts]
  BY Zenon DEF WaiterInv, ConnType, IngestType
<1>2. callPc \in [Commands -> Places]
  <2>1. Early \cup {"send", "wait", "ack", "done"} = Places
    BY DEF Early, Places, Before, Between
  <2> QED
    BY Zenon, <1>1, <2>1 DEF ConnType
<1>3. ASSUME NEW c \in Commands, DispatchStart(c)
      PROVE  LedgerInv' /\ [Ledger!Next]_(Ledger!vars)
  BY Zenon, <1>1, <1>2, <1>3, StartLedger
<1>4. ASSUME NEW c \in Commands, DispatchStep(c)
      PROVE  LedgerInv' /\ [Ledger!Next]_(Ledger!vars)
  <2>1. CASE Issue(c)
    BY Zenon, <1>1, <1>2, <2>1, IssueLedger
  <2>2. CASE AppendAck(c)
    BY Zenon, <1>1, <1>2, <2>2, AckLedger
  <2>3. CASE \/ RegisterWaiter(c) \/ Send(c) \/ SendError(c)
             \/ TakeResult(c) \/ TakeClosed(c) \/ GiveUp(c)
    BY Zenon, <1>1, <1>2, <2>3, SendLedger
  <2> QED
    BY Zenon, <1>4, <2>1, <2>2, <2>3 DEF DispatchStep
<1>5. ASSUME NEW c \in Commands, DriverAnswers(c)
      PROVE  LedgerInv' /\ [Ledger!Next]_(Ledger!vars)
  BY Zenon, <1>1, <1>5, AnswerLedger
<1>6. CASE Reader \/ Supervisor
  BY Zenon, <1>1, <1>6, ReaderLedger, SupervisorLedger
<1>7. CASE \/ \E c \in Commands : CloseChannel(c) \/ DriverReads(c)
           \/ DriverSendsEvent \/ StreamDies \/ UNCHANGED vars
  BY Zenon, <1>1, <1>7, OtherLedger
<1> QED
  BY Zenon, <1>3, <1>4, <1>5, <1>6, <1>7 DEF Next

(* Dispatch implements the safety of CommandLedger, for any number of commands
   and any driver: what is issued is acknowledged at most once, with the answer
   to this very command or with a failure, and a call returns only then
   (Dispatch, SendCommand, deliver, failAll).  The log must take every
   CommandAck: where it may refuse one, Dispatch only logs the error and returns
   without the acknowledgement. *)
THEOREM LedgerRefinement ==
  ASSUME "ack" \notin MayFail
  PROVE  Spec => Ledger!SafeSpec
<1>1. WaiterInv /\ IngestInv /\ LedgerInv /\ [Next]_vars
        => LedgerInv' /\ [Ledger!Next]_(Ledger!vars)
  BY Zenon, NextLedger DEF IngestInv
<1> QED
  BY InitWaiter, NextWaiter, InitIngest, NextIngest, InitLedger, <1>1, PTL
     DEF Spec, Ledger!SafeSpec
=============================================================================
