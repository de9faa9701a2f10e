------------------------------ MODULE WebStore ------------------------------
(***************************************************************************)
(* The web application's entity store (app/src/stores/entity-store.ts)     *)
(* against EntityService and its stream source in the daemon: the list,    *)
(* then a stream of changes resumed from the last cursor, and patches      *)
(* shown before the command they belong to is answered.                    *)
(*                                                                         *)
(* One entity, whose state at a time is the position of its last change.   *)
(* Timers, the network and the order of callbacks are nondeterministic; a  *)
(* connection may fail, end, or go silent with nobody noticing.            *)
(***************************************************************************)
EXTENDS Naturals, Sequences

CONSTANTS
  UiCalls,        \* commands given from the page (SyEntityRow.withCall)
  NoUiCall,       \* no patch is pending
  MaxEvents,      \* bound: changes of the entity
  MaxWire,        \* bound: changes on their way to the page
  MaxBreaks       \* bound: failed, ended and silent connections, and remounts

ASSUME WebAssumption == NoUiCall \notin UiCalls

VARIABLES
  head,           \* the position of the entity's last change
  upTo,           \* the position the server's subscription has reached
  wire,           \* the positions sent and not received
  silent,         \* the connection delivers nothing more
  breaks,
  started, hydrated, connected,
  lastCursor,
  runAt,          \* where runStream is
  listed,         \* the state the list returned
  retry,          \* the timer of scheduleReconnect is set
  aborted,        \* a runStream was aborted and has not reached its catch
  abandoned,      \* history: the watchdog aborted it, and the store was not stopped since
  view,           \* what the page shows: a state, and the patches over it
  optimisticBy,   \* optimisticByEntity: the call of the latest generation
  uiAt,           \* where each command is
  before          \* what each command's revert restores

serverVars == <<head, upTo, wire, silent, breaks>>
pageVars == <<started, hydrated, connected, lastCursor, runAt, listed, retry,
               aborted, abandoned>>
viewVars == <<view, optimisticBy, uiAt, before>>
webVars == <<serverVars, pageVars, viewVars>>

WebInit ==
  /\ head = 1 /\ upTo = 0 /\ wire = <<>> /\ silent = FALSE /\ breaks = 0
  /\ started = FALSE /\ hydrated = FALSE /\ connected = FALSE
  /\ lastCursor = 0 /\ runAt = "none" /\ listed = 0
  /\ retry = FALSE /\ aborted = FALSE /\ abandoned = FALSE
  /\ view = [at |-> 0, patches |-> {}]
  /\ optimisticBy = NoUiCall
  /\ uiAt = [c \in UiCalls |-> "idle"]
  /\ before = [c \in UiCalls |-> [at |-> 0, patches |-> {}]]

Breaks == breaks < MaxBreaks /\ breaks' = breaks + 1
Disconnected == wire' = <<>> /\ silent' = FALSE

\* The head of runStream: hydrate on the first run only, else straight on.
RunStream ==
  /\ runAt' = IF hydrated THEN "subscribe" ELSE "list"
  /\ connected' = (hydrated \/ connected)
  /\ retry' = FALSE

StartStore ==
  /\ ~started
  /\ started' = TRUE
  /\ RunStream
  /\ UNCHANGED <<serverVars, hydrated, lastCursor, listed, aborted, abandoned, viewVars>>

RetryFires ==
  /\ retry
  /\ RunStream
  /\ UNCHANGED <<serverVars, started, hydrated, lastCursor, listed, aborted, abandoned,
                 viewVars>>

StopStore ==
  /\ started /\ Breaks
  /\ started' = FALSE /\ connected' = FALSE
  /\ retry' = FALSE
  /\ aborted' = (aborted \/ runAt # "none") /\ abandoned' = FALSE
  /\ runAt' = "none"
  /\ Disconnected
  /\ UNCHANGED <<head, upTo, hydrated, lastCursor, listed, viewVars>>

\* The catch of an aborted runStream: whoever aborted it, no reconnect follows.
AbortCaught ==
  /\ aborted
  /\ aborted' = FALSE /\ connected' = FALSE
  /\ UNCHANGED <<serverVars, started, hydrated, lastCursor, runAt, listed, retry,
                 abandoned, viewVars>>

\* Another tick of the watchdog without a message for too long.
Watchdog ==
  /\ started /\ connected /\ runAt = "stream" /\ silent
  /\ aborted' = TRUE /\ runAt' = "none" /\ abandoned' = TRUE
  /\ Disconnected
  /\ UNCHANGED <<head, upTo, breaks, started, hydrated, connected, lastCursor, listed,
                 retry, viewVars>>
-----------------------------------------------------------------------------
\* EntityService.List reads the state cache.
ListAnswers ==
  /\ runAt = "list"
  /\ listed' = head
  /\ runAt' = "hydrate"
  /\ UNCHANGED <<serverVars, started, hydrated, connected, lastCursor, retry, aborted,
                 abandoned, viewVars>>

Hydrate ==
  /\ runAt = "hydrate"
  /\ view' = [at |-> listed, patches |-> {}]
  /\ hydrated' = TRUE /\ connected' = TRUE
  /\ runAt' = "subscribe"
  /\ UNCHANGED <<serverVars, started, lastCursor, listed, retry, aborted, abandoned,
                 optimisticBy, uiAt, before>>

\* EntityService.Subscribe: cursor 0 means live from now.
StreamOpens ==
  /\ runAt = "subscribe"
  /\ upTo' = IF lastCursor = 0 THEN head ELSE lastCursor
  /\ runAt' = "stream"
  /\ UNCHANGED <<head, wire, silent, breaks, started, hydrated, connected, lastCursor,
                 listed, retry, aborted, abandoned, viewVars>>

\* The stream source turns the next event into a change and sends it.
SendChange ==
  /\ runAt = "stream" /\ upTo < head /\ Len(wire) < MaxWire
  /\ upTo' = upTo + 1
  /\ wire' = Append(wire, upTo')
  /\ UNCHANGED <<head, silent, breaks, pageVars, viewVars>>

\* MUTANT: a change leaves the pending generation.
MutUpsert(n) ==
  /\ view' = [at |-> n, patches |-> {}]
  /\ UNCHANGED optimisticBy

Upsert(n) ==
  /\ view' = [at |-> n, patches |-> {}]
  /\ optimisticBy' = NoUiCall

ReceiveChange ==
  /\ runAt = "stream" /\ ~silent /\ wire # <<>>
  /\ lastCursor' = IF Head(wire) > lastCursor THEN Head(wire) ELSE lastCursor
  /\ Upsert(Head(wire))
  /\ wire' = Tail(wire)
  /\ UNCHANGED <<head, upTo, silent, breaks, started, hydrated, connected, runAt,
                 listed, retry, aborted, abandoned, uiAt, before>>

\* MUTANT: a stream that ends without an error is taken for the end.
MutRunEnds ==
  /\ runAt # "none" /\ Breaks
  /\ runAt' = "none" /\ connected' = FALSE
  /\ retry' \in BOOLEAN
  /\ Disconnected
  /\ UNCHANGED <<head, upTo, started, hydrated, lastCursor, listed, aborted, abandoned,
                 viewVars>>

\* A request fails, the stream fails or overflows its buffer, or the server ends
\* it: in every case the run ends and scheduleReconnect sets its timer.
RunEnds ==
  /\ runAt # "none" /\ Breaks
  /\ runAt' = "none" /\ connected' = FALSE
  /\ retry' = TRUE
  /\ Disconnected
  /\ UNCHANGED <<head, upTo, started, hydrated, lastCursor, listed, aborted, abandoned,
                 viewVars>>

GoesSilent ==
  /\ runAt = "stream" /\ ~silent /\ Breaks
  /\ silent' = TRUE
  /\ UNCHANGED <<head, upTo, wire, pageVars, viewVars>>

EntityChanges ==
  /\ head < MaxEvents
  /\ head' = head + 1
  /\ UNCHANGED <<upTo, wire, silent, breaks, pageVars, viewVars>>
-----------------------------------------------------------------------------
\* A command is given: its patch is shown at once.
ApplyOptimistic(c) ==
  /\ uiAt[c] = "idle" /\ view.at > 0
  /\ before' = [before EXCEPT ![c] = view]
  /\ view' = [view EXCEPT !.patches = @ \cup {c}]
  /\ optimisticBy' = c
  /\ uiAt' = [uiAt EXCEPT ![c] = "waiting"]
  /\ UNCHANGED <<serverVars, pageVars>>

\* The command is answered; when it failed, its patch is reverted, unless a
\* change or a later patch came in between.
CommandAnswered(c) ==
  /\ uiAt[c] = "waiting"
  /\ uiAt' = [uiAt EXCEPT ![c] = "answered"]
  /\ \/ UNCHANGED <<view, optimisticBy>>
     \/ /\ optimisticBy = c
        /\ optimisticBy' = NoUiCall
        /\ view' = before[c]
  /\ UNCHANGED <<before, serverVars, pageVars>>

WebNext ==
  \/ StartStore \/ RetryFires \/ StopStore \/ AbortCaught \/ Watchdog
  \/ ListAnswers \/ Hydrate \/ StreamOpens \/ SendChange \/ ReceiveChange
  \/ RunEnds \/ GoesSilent \/ EntityChanges
  \/ \E c \in UiCalls : ApplyOptimistic(c) \/ CommandAnswered(c)

WebSpec == WebInit /\ [][WebNext]_webVars

\* The steps that happen without anybody doing anything.
WebRuns ==
  RetryFires \/ ListAnswers \/ Hydrate \/ StreamOpens \/ SendChange \/ ReceiveChange

\* What the page shows never falls behind what it has shown: "if a real
\* EntityChange arrives between apply and revert, revert no-ops" (entity-store.ts),
\* and a stream that is resumed repeats nothing.
TruthKept == [][view'.at >= view.at]_view

\* Once the store has seen a change it has a cursor, and whatever fails after
\* that it catches up with every later change: it "reconnects with exponential
\* backoff, replaying from the last cursor it saw".  Left out are a connection
\* that is silent, and the one the watchdog has aborted, which nothing reopens.
CatchesUp ==
  started /\ lastCursor > 0
    ~> view.at = head \/ ~started \/ silent \/ abandoned
=============================================================================
