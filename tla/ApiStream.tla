----------------------------- MODULE ApiStream -----------------------------
(***************************************************************************)
(* A streaming call of the API (EntityService.Subscribe, EventService.Tail *)
(* and AutomationService.Trace): the goroutine that copies a subscription  *)
(* of the event store to a channel, the bounded fan-out behind it, the     *)
(* loop of the handler, and a client that opens its next call at the last  *)
(* cursor it received.                                                     *)
(*                                                                         *)
(* The subscription is taken at its word (module Subscriptions): it gives  *)
(* the rows in order and leaves none out until it is closed, which may     *)
(* happen at any time.  Only rows its filter lets through are counted.     *)
(* A heartbeat may be due at any time: its ticker, which waits for nothing *)
(* but its timer and the end of the call, has no state of its own.         *)
(***************************************************************************)
EXTENDS Naturals, Sequences

CONSTANTS
  SrcBuffer,       \* capacity of the source's channel (64, or 32 for Trace)
  BufSize,         \* StreamConfig.BufSize
  MaxRows,         \* bound: rows appended
  MaxStreams       \* bound: calls of the client

VARIABLES
  rpc,             \* which of the three calls the client makes
  rows,            \* the number of rows announced
  subAt,           \* the last row received from the subscription
  subEnd,          \* the last row it gave before it was closed
  source,          \* the goroutine of the source: it closes src when it ends
  src,             \* the source's channel
  fan,             \* the goroutine of BoundedFanOut: it closes buffered when it ends
  buffered,
  handler,         \* where the handler is
  latest,
  reqDone,         \* the context of the request is done
  broken,          \* the connection is broken: nothing more arrives
  streams,         \* calls made
  resumeAt,        \* the client: the cursor of the last payload
  settled,         \* history: the rows the client received, or was not to receive
  since            \* history: where the client began to follow

sourceVars == <<subAt, subEnd, source, src>>
fanVars == <<fan, buffered>>
handlerVars == <<handler, latest>>
clientVars == <<resumeAt, settled>>
streamVars == <<rpc, rows, sourceVars, fanVars, handlerVars, reqDone,
                broken, streams, clientVars, since>>

Rpcs == {"entity", "event", "trace"}
Live == MaxRows + 1             \* subEnd of a subscription that is open

StreamInit ==
  /\ rpc \in Rpcs /\ rows = 0
  /\ subAt = 0 /\ subEnd = 0 /\ source = "exit" /\ src = <<>>
  /\ fan = "exit" /\ buffered = <<>>
  /\ handler = "returned" /\ latest = 0
  /\ reqDone = TRUE /\ broken = FALSE /\ streams = 0
  /\ resumeAt = 0 /\ settled = {} /\ since = 0

AppendRow ==
  /\ rows < MaxRows
  /\ rows' = rows + 1
  /\ UNCHANGED <<rpc, sourceVars, fanVars, handlerVars, reqDone, broken,
                 streams, clientVars, since>>
-----------------------------------------------------------------------------
\* Goroutines of one call share nothing with the next one: calls follow each other.
Ended == source = "exit" /\ fan = "exit"

\* The entity source takes cursor 0 for "live from now", the others for the first row.
StartCursor == IF rpc = "entity" /\ resumeAt = 0 THEN rows ELSE resumeAt

OpenCall ==
  /\ streams < MaxStreams /\ streams' = streams + 1
  /\ handler = "returned" /\ reqDone /\ Ended
  /\ subAt' = StartCursor /\ subEnd' = Live /\ source' = "take" /\ src' = <<>>
  /\ fan' = "run" /\ buffered' = <<>>
  /\ handler' = "loop" /\ latest' = 0
  /\ reqDone' = FALSE /\ broken' = FALSE
  /\ since' = IF resumeAt = 0 THEN StartCursor ELSE since
  /\ UNCHANGED <<rpc, rows, clientVars>>

\* The subscription is closed: too slow, a failed query, or the store closing.
Cut == IF subEnd = Live THEN subEnd' \in subAt .. rows ELSE UNCHANGED subEnd

SubscriptionCut ==
  /\ subEnd = Live /\ Cut
  /\ UNCHANGED <<rpc, rows, subAt, source, src, fanVars, handlerVars,
                 reqDone, broken, streams, clientVars, since>>

\* The entity source passes over a row that is not of a selected entity, as the
\* registry has it now.
SourceTakes ==
  /\ source = "take"
  /\ subAt < rows /\ subAt < subEnd
  /\ subAt' = subAt + 1
  /\ \/ source' = "put" /\ UNCHANGED settled
     \/ rpc = "entity" /\ settled' = settled \union {subAt'} /\ UNCHANGED source
  /\ UNCHANGED <<rpc, rows, subEnd, src, fanVars, handlerVars, reqDone, broken,
                 streams, resumeAt, since>>

SourcePuts ==
  /\ source = "put" /\ Len(src) < SrcBuffer
  /\ src' = Append(src, subAt)
  /\ source' = "take"
  /\ UNCHANGED <<rpc, rows, subAt, subEnd, fanVars, handlerVars, reqDone,
                 broken, streams, clientVars, since>>

\* The context the source selects on: the call's own, or one that the handler's
\* deferred cancel ends too.  Trace's loop looks at it only while it puts.
SourceTold ==
  /\ reqDone \/ (rpc # "event" /\ handler = "returned")
  /\ rpc = "trace" => source = "put"

\* MUTANT: the source does not look at the context while it puts.
MutSourceEnds ==
  /\ source = "take"
  /\ SourceTold \/ subAt = subEnd
  /\ source' = "exit" /\ subEnd' = subAt
  /\ UNCHANGED <<rpc, rows, subAt, src, fanVars, handlerVars, reqDone,
                 broken, streams, clientVars, since>>

SourceEnds ==
  /\ source # "exit"
  /\ SourceTold \/ (source = "take" /\ subAt = subEnd)
  /\ source' = "exit" /\ subEnd' = subAt
  /\ UNCHANGED <<rpc, rows, subAt, src, fanVars, handlerVars, reqDone,
                 broken, streams, clientVars, since>>
-----------------------------------------------------------------------------
\* BoundedFanOut.  It sends on done and closes buffered as it ends: a handler that
\* finds either, or both, returns, with the error or without.

\* MUTANT: a value that finds no room is dropped, and the fan-out goes on.
MutFanOut ==
  /\ fan = "run" /\ src # <<>>
  /\ src' = Tail(src)
  /\ buffered' = IF Len(buffered) < BufSize THEN Append(buffered, Head(src)) ELSE buffered
  /\ UNCHANGED <<rpc, rows, subAt, subEnd, source, fan, handlerVars, reqDone,
                 broken, streams, clientVars, since>>

FanOut ==
  /\ fan = "run" /\ src # <<>>
  /\ src' = Tail(src)
  /\ \/ /\ Len(buffered) < BufSize
        /\ buffered' = Append(buffered, Head(src))
        /\ UNCHANGED fan
     \/ /\ Len(buffered) = BufSize        \* ErrSubscriptionOverflow
        /\ fan' = "exit"
        /\ UNCHANGED buffered
  /\ UNCHANGED <<rpc, rows, subAt, subEnd, source, handlerVars, reqDone,
                 broken, streams, clientVars, since>>

FanEnds ==
  /\ fan = "run"
  /\ reqDone \/ (source = "exit" /\ src = <<>>)
  /\ fan' = "exit"
  /\ UNCHANGED <<rpc, rows, sourceVars, buffered, handlerVars, reqDone,
                 broken, streams, clientVars, since>>
-----------------------------------------------------------------------------
\* The loop of the handler.  A Send that blocks is a handler that does not step.

\* The deferred cancel, which for Tail closes the subscription.
Return ==
  /\ handler' = "returned"
  /\ IF rpc = "event" THEN Cut ELSE UNCHANGED subEnd

HandlerEnds ==
  /\ handler = "loop"
  /\ reqDone \/ fan = "exit"
  /\ Return
  /\ latest' = 0
  /\ UNCHANGED <<rpc, rows, subAt, source, src, fanVars, reqDone, broken,
                 streams, clientVars, since>>

\* stream.Send: on a broken connection it fails, or succeeds and the message is lost.
Send(received) ==
  \/ /\ ~ broken /\ received
     /\ UNCHANGED <<handler, subEnd>>
  \/ /\ broken
     /\ UNCHANGED <<handler, subEnd, clientVars>>
  \/ /\ broken \/ reqDone
     /\ Return
     /\ UNCHANGED clientVars

\* EntityService asks the policy, as it is now, for every change.
HandlerTakes ==
  /\ handler = "loop" /\ buffered # <<>>
  /\ latest' = Head(buffered) /\ buffered' = Tail(buffered)
  /\ \/ Send(resumeAt' = latest' /\ settled' = settled \union {latest'})
     \/ /\ rpc = "entity"
        /\ settled' = settled \union {latest'}
        /\ UNCHANGED <<handler, subEnd, resumeAt>>
  /\ UNCHANGED <<rpc, rows, subAt, source, src, fan, reqDone, broken, streams,
                 since>>

HandlerBeats ==
  /\ handler = "loop"
  /\ Send(UNCHANGED clientVars)
  /\ UNCHANGED <<rpc, rows, subAt, source, src, fanVars, latest, reqDone,
                 broken, streams, since>>

\* The client goes away, or the network does.
ConnectionBreaks ==
  /\ handler # "returned" /\ ~ broken
  /\ broken' = TRUE
  /\ UNCHANGED <<rpc, rows, sourceVars, fanVars, handlerVars, reqDone,
                 streams, clientVars, since>>

\* The HTTP server ends the request's context: when it notices the client is
\* gone, when the daemon shuts down, and once the handler has returned.
RequestDone ==
  /\ ~ reqDone /\ reqDone' = TRUE
  /\ UNCHANGED <<rpc, rows, sourceVars, fanVars, handlerVars, broken,
                 streams, clientVars, since>>
-----------------------------------------------------------------------------
SourceRuns == SourceTakes \/ SourcePuts \/ SourceEnds
FanRuns == FanOut \/ FanEnds

StreamNext ==
  \/ AppendRow \/ OpenCall \/ SubscriptionCut
  \/ SourceRuns \/ FanRuns
  \/ HandlerEnds \/ HandlerTakes \/ HandlerBeats
  \/ ConnectionBreaks \/ RequestDone

StreamSpec == StreamInit /\ [][StreamNext]_streamVars

\* What a client may conclude from a cursor it was given with a payload, or would
\* be given by a heartbeat, across overflows, broken connections and resumed
\* calls: it has received every change up to there but those that the
\* selector or the policy kept from it.
\* (BoundedFanOut ends the stream rather than skip a value, and the handler's
\* latest moves only with what it takes.)
StreamLosesNothing ==
  \A p \in 1 .. rows :
    since < p /\ (p <= resumeAt \/ (p <= latest /\ handler = "loop" /\ ~ broken))
      => p \in settled

\* When a handler returns, whatever the reason and whatever its helpers were
\* doing, its fan-out and its source end and the subscription is closed; only
\* the source of Trace may stay, waiting for one more event.
StreamCleansUp ==
  handler = "returned" ~>
    /\ fan = "exit"
    /\ source = "exit" \/ (rpc = "trace" /\ source = "take" /\ subAt = rows)
=============================================================================
