--------------------------- MODULE TimeScheduler ----------------------------
(***************************************************************************)
(* The scheduler of time triggers (internal/automation/trigger/time.go):   *)
(* its loop sleeps until the earliest entry is due, or for an hour when    *)
(* there is none, unless an entry is added or all are dropped meanwhile.   *)
(* Every reload drops all the entries and adds the new ones one by one.    *)
(*                                                                         *)
(* Time is a number that grows; an entry is due every Period units, and    *)
(* an hour is longer than the bound on time.                               *)
(***************************************************************************)
EXTENDS Naturals, FiniteSetsExt

CONSTANTS
  Timed,          \* automations with a time trigger
  Period,         \* time between two firings of one
  ReadyCap,       \* capacity of the channel to the engine (32 in the code)
  MaxTime         \* bound: the last moment

ASSUME SchedulerAssumption ==
  Period \in Nat \ {0} /\ ReadyCap \in Nat \ {0} /\ MaxTime \in Nat

VARIABLES
  clock,          \* time.Now
  due,            \* TimeScheduler.entries: when each is next due; 0: no entry
  wakeCh,         \* TimeScheduler.wakeCh holds a value
  waking,         \* the reload has changed the entries and not yet woken the loop
  schedPc,        \* where Run is
  sleepTo,        \* when its timer expires
  firedAt,        \* the time fireDue has read
  ready           \* the matches in the channel

schedVars == <<clock, due, wakeCh, waking, schedPc, sleepTo, firedAt, ready>>

Entries == {a \in Timed : due[a] # 0}
Earliest == Min({due[a] : a \in Entries})

SchedInit ==
  /\ clock = 1
  /\ due = [a \in Timed |-> 0]
  /\ wakeCh = FALSE /\ waking = FALSE
  /\ schedPc = "top"
  /\ sleepTo = 0
  /\ firedAt = 0
  /\ ready = 0

\* AddCron, AddAt, AddEvery: the entry is pushed under the lock.
AddEntry(a) ==
  /\ ~waking
  /\ due[a] = 0 /\ clock < MaxTime
  /\ due' = [due EXCEPT ![a] = clock + Period]
  /\ waking' = TRUE
  /\ UNCHANGED <<clock, wakeCh, schedPc, sleepTo, firedAt, ready>>

\* Reset, at a reload.
ResetEntries ==
  /\ ~waking
  /\ Entries # {} /\ clock < MaxTime
  /\ due' = [a \in Timed |-> 0]
  /\ waking' = TRUE
  /\ UNCHANGED <<clock, wakeCh, schedPc, sleepTo, firedAt, ready>>

\* MUTANT: the channel has no buffer, and only a waiting loop is woken.
MutWakeLoop ==
  /\ waking
  /\ waking' = FALSE
  /\ wakeCh' = (wakeCh \/ schedPc = "sleep")
  /\ UNCHANGED <<clock, due, schedPc, sleepTo, firedAt, ready>>

\* Both then wake the loop, unless a wake-up is already there.
WakeLoop ==
  /\ waking
  /\ waking' = FALSE
  /\ wakeCh' = TRUE
  /\ UNCHANGED <<clock, due, schedPc, sleepTo, firedAt, ready>>

\* Run looks at the first entry: it is due, or the loop sleeps until it is.
ComputeSleep ==
  /\ schedPc = "top"
  /\ \/ /\ Entries # {} /\ Earliest <= clock
        /\ schedPc' = "fire" /\ firedAt' = clock
        /\ UNCHANGED sleepTo
     \/ /\ Entries # {} /\ Earliest > clock
        /\ schedPc' = "arm" /\ sleepTo' = Earliest
        /\ UNCHANGED firedAt
     \/ /\ Entries = {}
        /\ schedPc' = "arm" /\ sleepTo' = MaxTime + Period + 1
        /\ UNCHANGED firedAt
  /\ UNCHANGED <<clock, due, wakeCh, waking, ready>>

\* The lock is released, the timer made, and the loop waits.
FallAsleep ==
  /\ schedPc = "arm"
  /\ schedPc' = "sleep"
  /\ UNCHANGED <<clock, due, wakeCh, waking, sleepTo, firedAt, ready>>

Woken ==
  /\ schedPc = "sleep" /\ wakeCh
  /\ wakeCh' = FALSE
  /\ schedPc' = "top"
  /\ UNCHANGED <<clock, due, waking, sleepTo, firedAt, ready>>

TimerFires ==
  /\ schedPc = "sleep" /\ sleepTo <= clock
  /\ schedPc' = "fire" /\ firedAt' = clock
  /\ UNCHANGED <<clock, due, wakeCh, waking, sleepTo, ready>>

StopScheduler ==
  /\ schedPc = "sleep"
  /\ schedPc' = "stopped"
  /\ UNCHANGED <<clock, due, wakeCh, waking, sleepTo, firedAt, ready>>

\* fireDue: the first entry, if it is due, gets its next time under the lock;
\* then its match is sent, and dropped when the channel is full.
FireFirst ==
  /\ schedPc = "fire" /\ Entries # {} /\ Earliest <= firedAt
  /\ \E a \in Entries :
       due[a] = Earliest /\ due' = [due EXCEPT ![a] = firedAt + Period]
  /\ schedPc' = "send"
  /\ UNCHANGED <<clock, wakeCh, waking, sleepTo, firedAt, ready>>

SendReady ==
  /\ schedPc = "send"
  /\ ready' = IF ready < ReadyCap THEN ready + 1 ELSE ready
  /\ schedPc' = "fire"
  /\ UNCHANGED <<clock, due, wakeCh, waking, sleepTo, firedAt>>

FireDone ==
  /\ schedPc = "fire" /\ (\A a \in Entries : due[a] > firedAt)
  /\ schedPc' = "top"
  /\ UNCHANGED <<clock, due, wakeCh, waking, sleepTo, firedAt, ready>>

\* The engine's loop.
TakeReady ==
  /\ ready > 0
  /\ ready' = ready - 1
  /\ UNCHANGED <<clock, due, wakeCh, waking, schedPc, sleepTo, firedAt>>

TimePasses ==
  /\ clock < MaxTime
  /\ clock' = clock + 1
  /\ UNCHANGED <<due, wakeCh, waking, schedPc, sleepTo, firedAt, ready>>

SchedRun ==
  \/ ComputeSleep \/ FallAsleep \/ Woken \/ TimerFires
  \/ FireFirst \/ SendReady \/ FireDone

SchedNext ==
  \/ \E a \in Timed : AddEntry(a)
  \/ ResetEntries \/ WakeLoop \/ SchedRun \/ StopScheduler \/ TakeReady \/ TimePasses

\* While the scheduler runs, an entry whose time has come is fired (its match may
\* find the channel full) or dropped by a reload: the loop
\* never sleeps through it, however adding, resetting, the wake-up channel that
\* holds one value and the computation of the next sleep interleave.
DueFires ==
  \A a \in Timed :
    due[a] # 0 /\ due[a] <= clock
      ~> due[a] = 0 \/ due[a] > clock \/ schedPc = "stopped"
=============================================================================
