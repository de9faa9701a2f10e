------------------------ MODULE SubscriptionsProofs ------------------------
(***************************************************************************)
(* Proofs about Subscriptions, for any number of subscribers, any buffer   *)
(* and page size and any length of the log.                                *)
(***************************************************************************)
EXTENDS Subscriptions, SequenceTheorems, TLAPS

USE DEF Producers, TailPcs, CatchPcs, ClosePcs

\* The empty channel a subscription starts with.
LEMMA EmptyChannel == << >> \in Seq(Nat) /\ Len(<< >>) = 0
  BY EmptySeq

\* What a push does to the channel: one more event, at the end.
LEMMA PushAppends ==
  ASSUME NEW q \in Seq(Nat), NEW p \in Nat
  PROVE  /\ Append(q, p) \in Seq(Nat)
         /\ Len(Append(q, p)) = Len(q) + 1
         /\ \A i \in 1 .. Len(q) : Append(q, p)[i] = q[i]
         /\ Append(q, p)[Len(q) + 1] = p
         /\ DOMAIN q = 1 .. Len(q)
         /\ DOMAIN Append(q, p) = 1 .. Len(q) + 1
  BY AppendProperties

\* A committed row leaves the rows before it as they are.
LEMMA CommitKeeps ==
  ASSUME NEW q \in Seq(Kinds), NEW k \in Kinds
  PROVE  /\ Append(q, k) \in Seq(Kinds)
         /\ Len(Append(q, k)) = Len(q) + 1
         /\ \A i \in 1 .. Len(q) : Append(q, k)[i] = q[i]
  BY AppendProperties

\* sendMu only ever has producers as readers.
LEMMA ReadersType ==
  ASSUME readers \in [Subs -> SUBSET Producers], NEW s \in Subs,
         NEW p \in Producers, RLock(s, p) \/ RUnlock(s, p)
  PROVE  readers' \in [Subs -> SUBSET Producers]
<1>1. CASE RLock(s, p)
  BY <1>1 DEF RLock
<1>2. CASE RUnlock(s, p)
  BY <1>2 DEF RUnlock
<1> QED BY <1>1, <1>2

-----------------------------------------------------------------------------
TypeInv == TypeOK /\ CursorInv

LEMMA TypeInit == Init => TypeInv
<1> SUFFICES ASSUME Init PROVE TypeInv
  OBVIOUS
<1>1. log \in Seq(Kinds) /\ Len(log) \in Nat
  <2>1. PICK n \in 0 .. History : log \in [1 .. n -> Kinds]
    BY DEF Init
  <2>2. log \in Seq(Kinds)
    BY <2>1, SubscriptionAssumption, SeqDef
  <2> QED BY <2>2, LenProperties
<1>2. sent \in [Subs -> Seq(Nat)]
  BY EmptyChannel DEF Init
<1>3. batch \in [Subs -> SUBSET (1 .. latestPosition)]
  BY DEF Init
<1>4. readers \in [Subs -> SUBSET Producers]
  BY DEF Init
<1> QED BY <1>1, <1>2, <1>3, <1>4 DEF Init, TypeInv, TypeOK, CursorInv

LEMMA TypeStep == TypeInv /\ [Next]_vars => TypeInv'
<1> SUFFICES ASSUME TypeInv, [Next]_vars PROVE TypeInv'
  OBVIOUS
<1> USE DEF storeVars, tailVars, catchVars, chanVars, endVars, logVars
<1>a. TypeOK /\ CursorInv
  BY DEF TypeInv
<1>b. /\ Len(log) \in Nat /\ latestPosition \in Nat /\ latestPosition <= Len(log)
      /\ cursor \in Nat /\ cursor <= latestPosition
      /\ target \in Nat /\ target <= latestPosition
  BY <1>a, LenProperties DEF TypeOK
<1>1. CASE Environment
  <2>1. CASE CommitRow
    <3>1. PICK k \in Kinds : log' = Append(log, k)
      BY Zenon, <2>1 DEF CommitRow
    <3>2. log' \in Seq(Kinds) /\ Len(log') = Len(log) + 1
      BY <1>a, <3>1, CommitKeeps DEF TypeOK
    <3>3. latestPosition' = latestPosition
      BY <2>1 DEF CommitRow
    <3>4. latestPosition' \in 0 .. Len(log')
      BY <1>b, <3>2, <3>3
    <3> QED BY Zenon, <1>1, <1>a, <3>2, <3>3, <3>4
          DEF Environment, TypeInv, TypeOK, CursorInv
  <2>2. CASE Announce
    <3>1. log' = log /\ latestPosition' \in latestPosition + 1 .. Len(log)
      BY Zenon, <2>2 DEF Announce
    <3>2. /\ 0 .. latestPosition \subseteq 0 .. latestPosition'
          /\ 1 .. latestPosition \subseteq 1 .. latestPosition'
          /\ latestPosition' \in 0 .. Len(log)
      BY <1>b, <3>1
    <3>3. cursor' \in 0 .. latestPosition' /\ target' \in 0 .. latestPosition'
      BY Zenon, <1>1, <1>a, <3>2 DEF Environment, TypeOK
    <3>4. catchTarget' \in [Subs -> 0 .. latestPosition']
      <4>1. catchTarget \in [Subs -> 0 .. latestPosition'] /\ catchTarget' = catchTarget
        BY Zenon, <1>1, <1>a, <3>2 DEF Environment, TypeOK
      <4> QED BY Zenon, <4>1
    <3>5. batch' \in [Subs -> SUBSET (1 .. latestPosition')]
      <4>1. batch \in [Subs -> SUBSET (1 .. latestPosition)] /\ batch' = batch
        BY Zenon, <1>1, <1>a DEF Environment, TypeOK
      <4> QED BY <3>2, <4>1
    <3> QED BY Zenon, <1>1, <1>a, <3>1, <3>2, <3>3, <3>4, <3>5
          DEF Environment, TypeInv, TypeOK, CursorInv
  <2> QED BY Zenon, <1>1, <2>1, <2>2 DEF Environment
<1>2. CASE Tailer
  <2> DEFINE Chans == /\ sent' \in [Subs -> Seq(Nat)]
                      /\ lastSent' \in [Subs -> Nat]
                      /\ readers' \in [Subs -> SUBSET Producers]
             Place == /\ tailPc' \in TailPcs /\ snapshot' \subseteq Subs
                      /\ cursor' \in 0 .. latestPosition
                      /\ target' \in 0 .. latestPosition
                      /\ CursorInv'
  <2>a. /\ Chans /\ Place /\ subs' \subseteq Subs /\ closePc' \in [Subs -> ClosePcs]
        => TypeInv'
    BY Zenon, <1>2, <1>a DEF Tailer, TypeInv, TypeOK
  <2>b. UNCHANGED chanVars => Chans
    BY Zenon, <1>a DEF TypeOK
  <2>c. /\ tailPc \in {"each", "check", "put"} /\ tailPc' \in {"each", "check", "put"}
        /\ UNCHANGED <<cursor, target>> /\ snapshot' \subseteq snapshot
        => Place
    BY Zenon, <1>a DEF TypeOK, CursorInv
  <2>1. ASSUME NEW s \in Subs, DispatchPut(s)
        PROVE  TypeInv'
    <3>1. sent' \in [Subs -> Seq(Nat)] /\ lastSent' \in [Subs -> Nat]
      <4>1. cursor + 1 \in Nat
        BY <1>b
      <4>2. Append(sent[s], cursor + 1) \in Seq(Nat)
        BY <1>a, <4>1, PushAppends DEF TypeOK
      <4>3. Push(s, cursor + 1)
        BY Zenon, <2>1 DEF DispatchPut
      <4> QED BY Zenon, <1>a, <4>1, <4>2, <4>3 DEF Push, TypeOK
    <3>2. RUnlock(s, "tailer") /\ snapshot' = snapshot \ {s}
      BY Zenon, <2>1 DEF DispatchPut, DispatchNext
    <3>3. readers' \in [Subs -> SUBSET Producers]
      BY <1>a, <3>2, ReadersType DEF TypeOK
    <3>4. Place
      <4>1. snapshot' \subseteq snapshot
        BY Zenon, <3>2
      <4> QED BY Zenon, <2>1, <2>c, <4>1 DEF DispatchPut, DispatchNext
    <3> QED BY Zenon, <1>a, <2>1, <2>a, <3>1, <3>3, <3>4 DEF DispatchPut, TypeOK
  <2>2. ASSUME NEW s \in Subs, DispatchSkip(s) \/ DispatchRLock(s)
        PROVE  TypeInv'
    <3>1. readers' \in [Subs -> SUBSET Producers]
      BY <1>a, <2>2, ReadersType DEF DispatchSkip, DispatchRLock, TypeOK
    <3>2. snapshot' \subseteq snapshot
      BY Zenon, <2>2 DEF DispatchSkip, DispatchRLock
    <3>3. CASE DispatchSkip(s)
      BY Zenon, <1>a, <2>a, <2>c, <3>1, <3>2, <3>3 DEF DispatchSkip, TypeOK
    <3>4. CASE DispatchRLock(s)
      BY Zenon, <1>a, <2>a, <2>c, <3>1, <3>2, <3>4 DEF DispatchRLock, TypeOK
    <3> QED BY Zenon, <2>2, <3>3, <3>4
  <2>3. ASSUME NEW s \in Subs, DispatchCheck(s)
        PROVE  TypeInv'
    <3>1. readers' \in [Subs -> SUBSET Producers]
      BY <1>a, <2>3, ReadersType DEF DispatchCheck, DispatchNext, TypeOK
    <3>2. Place
      <4>1. snapshot' \subseteq snapshot /\ tailPc' \in {"each", "put"}
        BY Zenon, <2>3 DEF DispatchCheck, DispatchNext
      <4> QED BY Zenon, <2>3, <2>c, <4>1 DEF DispatchCheck
    <3> QED BY Zenon, <1>a, <2>3, <2>a, <3>1, <3>2 DEF DispatchCheck, TypeOK
  <2>4. ASSUME NEW s \in Subs, DispatchDrop(s)
        PROVE  TypeInv'
    <3>1. closePc' \in [Subs -> ClosePcs]
      BY <1>a, <2>4 DEF DispatchDrop, BeginClose, TypeOK
    <3>2. readers' \in [Subs -> SUBSET Producers]
      BY <1>a, <2>4, ReadersType DEF DispatchDrop, DispatchNext, TypeOK
    <3>3. Place
      <4>1. snapshot' \subseteq snapshot
        BY Zenon, <2>4 DEF DispatchDrop, DispatchNext
      <4> QED BY Zenon, <2>4, <2>c, <4>1 DEF DispatchDrop, DispatchNext
    <3>4. subs' \subseteq Subs
      BY Zenon, <1>a, <2>4 DEF DispatchDrop, TypeOK
    <3> QED BY Zenon, <1>a, <2>4, <2>a, <3>1, <3>2, <3>3, <3>4
          DEF DispatchDrop, TypeOK
  <2>5. CASE \/ TailerWake \/ TailerQuery \/ TailerQueryFails \/ Dispatch
             \/ TailerAdvance \/ TailerExit
    <3>1. UNCHANGED <<subs, chanVars, closePc>>
      BY Zenon, <2>5 DEF TailerWake, TailerQuery, TailerQueryFails, Dispatch,
           TailerAdvance, TailerExit
    <3>2. Place
      <4>1. CASE TailerWake
        BY <1>a, <1>b, <4>1 DEF TailerWake, CursorInv, TypeOK
      <4>2. CASE TailerQuery
        <5>1. target' \in cursor + 1 .. target
          BY Zenon, <4>2 DEF TailerQuery, Rows
        <5> QED BY <1>a, <1>b, <4>2, <5>1 DEF TailerQuery, CursorInv, TypeOK
      <4>3. CASE TailerQueryFails \/ TailerExit
        BY Zenon, <1>a, <4>3 DEF TailerQueryFails, TailerExit, CursorInv, TypeOK
      <4>4. CASE Dispatch
        BY Zenon, <1>a, <4>4 DEF Dispatch, CursorInv, TypeOK
      <4>5. CASE TailerAdvance
        <5>1. cursor < target
          BY Zenon, <1>a, <4>5 DEF TailerAdvance, CursorInv
        <5> QED BY <1>a, <1>b, <4>5, <5>1 DEF TailerAdvance, CursorInv, TypeOK
      <4> QED BY Zenon, <2>5, <4>1, <4>2, <4>3, <4>4, <4>5
    <3> QED BY Zenon, <1>a, <2>a, <2>b, <3>1, <3>2 DEF TypeOK
  <2> QED BY Zenon, <1>2, <2>1, <2>2, <2>3, <2>4, <2>5 DEF Tailer
<1>3. CASE CallStoreClose
  BY Zenon, <1>3, <1>a DEF CallStoreClose, StoreClose, TypeInv, TypeOK, CursorInv
<1>4. CASE Closing
  <2>a. /\ subs' \subseteq Subs /\ closing' \subseteq Subs /\ awaited' \subseteq Subs
        /\ storePc' \in {"open", "wait", "close", "closed"}
        /\ closePc' \in [Subs -> ClosePcs]
        => TypeInv'
    BY Zenon, <1>4, <1>a DEF Closing, TypeInv, TypeOK, CursorInv
  <2>1. ASSUME NEW s \in Subs, StoreCloseBegin(s)
        PROVE  TypeInv'
    <3>1. closePc' \in [Subs -> ClosePcs]
      BY <1>a, <2>1 DEF StoreCloseBegin, BeginClose, TypeOK
    <3>2. closing' \subseteq Subs /\ awaited' \subseteq Subs
      BY Zenon, <1>a, <2>1 DEF StoreCloseBegin, TypeOK
    <3> QED BY Zenon, <1>a, <2>1, <2>a, <3>1, <3>2 DEF StoreCloseBegin, TypeOK
  <2>2. ASSUME NEW s \in Subs, StoreCloseNext(s)
        PROVE  TypeInv'
    <3>1. awaited' \subseteq Subs
      BY Zenon, <2>2 DEF StoreCloseNext
    <3> QED BY Zenon, <1>a, <2>2, <2>a, <3>1 DEF StoreCloseNext, TypeOK
  <2>3. CASE StoreCloseTake
    <3>1. subs' \subseteq Subs
      BY Zenon, <2>3 DEF StoreCloseTake
    <3> QED BY Zenon, <1>a, <2>3, <2>a, <3>1 DEF StoreCloseTake, TypeOK
  <2>4. CASE StoreCloseReturn
    BY Zenon, <1>a, <2>4, <2>a DEF StoreCloseReturn, TypeOK
  <2> QED BY Zenon, <1>4, <2>1, <2>2, <2>3, <2>4 DEF Closing
<1>5. ASSUME NEW s \in Subs, Consumer(s)
      PROVE  TypeInv'
  <2>a. /\ catchPc' \in [Subs -> CatchPcs] /\ from' \in [Subs -> Nat]
        /\ lastSent' \in [Subs -> Nat] /\ received' \in [Subs -> Nat]
        /\ cancelled' \subseteq Subs /\ closePc' \in [Subs -> ClosePcs]
        => TypeInv'
    BY Zenon, <1>5, <1>a DEF Consumer, TypeInv, TypeOK, CursorInv
  <2>1. CASE Subscribe(s)
    <3>1. PICK p \in 0 .. MaxLog :
            /\ from' = [from EXCEPT ![s] = p]
            /\ lastSent' = [lastSent EXCEPT ![s] = p]
      BY Zenon, <2>1 DEF Subscribe
    <3>2. p \in Nat
      BY <3>1, SubscriptionAssumption
    <3>3. from' \in [Subs -> Nat] /\ lastSent' \in [Subs -> Nat]
      BY Zenon, <1>a, <3>1, <3>2 DEF TypeOK
    <3>4. catchPc' \in [Subs -> CatchPcs]
      BY Zenon, <1>a, <2>1 DEF Subscribe, TypeOK
    <3> QED BY Zenon, <1>a, <2>1, <2>a, <3>3, <3>4 DEF Subscribe, TypeOK
  <2>2. CASE Receive(s)
    <3>1. received[s] + 1 \in Nat
      BY <1>a DEF TypeOK
    <3>2. received' \in [Subs -> Nat]
      BY Zenon, <1>a, <2>2, <3>1 DEF Receive, TypeOK
    <3> QED BY Zenon, <1>a, <2>2, <2>a, <3>2 DEF Receive, TypeOK
  <2>3. CASE CancelContext(s)
    <3>1. cancelled' \subseteq Subs
      BY Zenon, <1>a, <2>3 DEF CancelContext, TypeOK
    <3> QED BY Zenon, <1>a, <2>3, <2>a, <3>1 DEF CancelContext, TypeOK
  <2>4. CASE ConsumerClose(s)
    <3>1. closePc' \in [Subs -> ClosePcs]
      BY <1>a, <2>4 DEF ConsumerClose, BeginClose, TypeOK
    <3> QED BY Zenon, <1>a, <2>4, <2>a, <3>1 DEF ConsumerClose, TypeOK
  <2> QED BY Zenon, <1>5, <2>1, <2>2, <2>3, <2>4 DEF Consumer
<1>6. ASSUME NEW s \in Subs, Catchup(s)
      PROVE  TypeInv'
  <2>a. /\ subs' \subseteq Subs /\ catchPc' \in [Subs -> CatchPcs]
        /\ catchTarget' \in [Subs -> 0 .. latestPosition]
        /\ batch' \in [Subs -> SUBSET (1 .. latestPosition)]
        /\ sent' \in [Subs -> Seq(Nat)] /\ lastSent' \in [Subs -> Nat]
        /\ readers' \in [Subs -> SUBSET Producers]
        /\ closePc' \in [Subs -> ClosePcs]
        => TypeInv'
    BY Zenon, <1>6, <1>a DEF Catchup, TypeInv, TypeOK, CursorInv
  <2>b. ASSUME NEW place \in CatchPcs, Goto(s, place)
        PROVE  catchPc' \in [Subs -> CatchPcs]
    BY Zenon, <1>a, <2>b DEF Goto, TypeOK
  <2>c. catchPc' \in [Subs -> CatchPcs]
    BY Zenon, <1>6, <2>b DEF Catchup, CatchupTarget, Register, CatchupQuery,
         CatchupQueryFails, CatchupRLock, CatchupCheck, CatchupPut,
         CatchupGiveUp, CatchupClose, CatchupReturn
  <2>d. readers' \in [Subs -> SUBSET Producers]
    <3>1. RLock(s, "catchup") \/ RUnlock(s, "catchup") \/ UNCHANGED readers
      BY Zenon, <1>6 DEF Catchup, CatchupTarget, Register, CatchupQuery,
           CatchupQueryFails, CatchupRLock, CatchupCheck, CatchupPut,
           CatchupGiveUp, CatchupClose, CatchupReturn
    <3> QED BY <1>a, <3>1, ReadersType DEF TypeOK
  <2>1. CASE CatchupTarget(s)
    <3>1. latestPosition \in 0 .. latestPosition
      BY <1>b
    <3>2. catchTarget' \in [Subs -> 0 .. latestPosition]
      BY Zenon, <1>a, <2>1, <3>1 DEF CatchupTarget, TypeOK
    <3> QED BY Zenon, <1>a, <2>1, <2>a, <2>c, <3>2 DEF CatchupTarget, TypeOK
  <2>2. CASE Register(s)
    <3>1. subs' \subseteq Subs
      BY Zenon, <1>a, <2>2 DEF Register, TypeOK
    <3> QED BY Zenon, <1>a, <2>2, <2>a, <2>c, <3>1 DEF Register, TypeOK
  <2>3. CASE CatchupQuery(s)
    <3>1. {p \in Rows(lastSent[s], catchTarget[s]) : Matches(s, p)}
            \in SUBSET (1 .. latestPosition)
      <4>1. /\ lastSent[s] \in Nat /\ catchTarget[s] \in Nat
            /\ catchTarget[s] <= latestPosition
        BY <1>a, <1>b DEF TypeOK
      <4>2. Rows(lastSent[s], catchTarget[s]) \subseteq 1 .. latestPosition
        BY <1>b, <4>1 DEF Rows
      <4> QED BY Zenon, <4>2
    <3>2. batch' \in [Subs -> SUBSET (1 .. latestPosition)]
      BY Zenon, <1>a, <2>3, <3>1 DEF CatchupQuery, TypeOK
    <3>3. lastSent' \in [Subs -> Nat]
      <4>1. catchTarget[s] \in Nat
        BY <1>a, <1>b DEF TypeOK
      <4> QED BY Zenon, <1>a, <2>3, <4>1 DEF CatchupQuery, TypeOK
    <3> QED BY Zenon, <1>a, <2>3, <2>a, <2>c, <2>d, <3>2, <3>3
          DEF CatchupQuery, TypeOK
  <2>4. CASE CatchupPut(s)
    <3>1. PICK p \in batch[s] :
            /\ Push(s, p)
            /\ batch' = [batch EXCEPT ![s] = @ \ {p}]
      BY Zenon, <2>4 DEF CatchupPut
    <3>2. batch[s] \in SUBSET (1 .. latestPosition)
      BY Zenon, <1>a DEF TypeOK
    <3>3. p \in Nat /\ batch[s] \ {p} \in SUBSET (1 .. latestPosition)
      BY <3>1, <3>2
    <3>4. Append(sent[s], p) \in Seq(Nat)
      BY <1>a, <3>3, PushAppends DEF TypeOK
    <3>5. sent' \in [Subs -> Seq(Nat)] /\ lastSent' \in [Subs -> Nat]
      BY Zenon, <1>a, <3>1, <3>3, <3>4 DEF Push, TypeOK
    <3>6. batch' \in [Subs -> SUBSET (1 .. latestPosition)]
      BY Zenon, <1>a, <3>1, <3>3 DEF TypeOK
    <3> QED BY Zenon, <1>a, <2>4, <2>a, <2>c, <2>d, <3>5, <3>6 DEF CatchupPut, TypeOK
  <2>5. CASE CatchupClose(s)
    <3>1. closePc' \in [Subs -> ClosePcs]
      BY <1>a, <2>5 DEF CatchupClose, BeginClose, TypeOK
    <3> QED BY Zenon, <1>a, <2>5, <2>a, <2>c, <3>1 DEF CatchupClose, TypeOK
  <2>6. CASE \/ CatchupQueryFails(s) \/ CatchupRLock(s) \/ CatchupCheck(s)
             \/ CatchupGiveUp(s)
    <3>1. UNCHANGED <<subs, catchTarget, batch, sent, lastSent, closePc>>
      BY Zenon, <2>6 DEF CatchupQueryFails, CatchupRLock, CatchupCheck, CatchupGiveUp
    <3> QED BY Zenon, <1>a, <2>a, <2>c, <2>d, <3>1 DEF TypeOK
  <2> QED BY Zenon, <1>6, <2>1, <2>2, <2>3, <2>4, <2>5, <2>6 DEF Catchup
<1>7. ASSUME NEW s \in Subs, Close(s)
      PROVE  TypeInv'
  <2>a. /\ subs' \subseteq Subs /\ closePc' \in [Subs -> ClosePcs]
        /\ signalled' \subseteq Subs /\ isClosed' \subseteq Subs
        => TypeInv'
    BY Zenon, <1>7, <1>a DEF Close, TypeInv, TypeOK, CursorInv
  <2>1. closePc' \in [Subs -> ClosePcs]
    BY Zenon, <1>7, <1>a DEF Close, CloseUnregister, CloseSignal, CloseLock,
         CloseChannel, TypeOK
  <2>2. subs' \subseteq Subs /\ signalled' \subseteq Subs /\ isClosed' \subseteq Subs
    BY Zenon, <1>7, <1>a DEF Close, CloseUnregister, CloseSignal, CloseLock,
         CloseChannel, TypeOK
  <2> QED BY Zenon, <2>a, <2>1, <2>2
<1>8. CASE UNCHANGED vars
  BY Zenon, <1>8, <1>a DEF vars, TypeInv, TypeOK, CursorInv
<1> QED BY Zenon, <1>1, <1>2, <1>3, <1>4, <1>5, <1>6, <1>7, <1>8 DEF Next

\* Every variable keeps its type; in particular neither the tailer nor a
\* catch-up ever aims past the announced rows.
THEOREM TypeCorrect == Spec => []TypeOK
<1>1. TypeInv => TypeOK
  BY DEF TypeInv
<1> QED BY <1>1, TypeInit, TypeStep, PTL DEF Spec

-----------------------------------------------------------------------------
LEMMA SendInit == Init => SendInv
  BY DEF Init, SendInv, NoSendOnClosed, InSend

\* Steps that touch neither a producer's place nor sendMu nor isClosed.
LEMMA SendFrame ==
  ASSUME SendInv, UNCHANGED <<catchPc, tailPc, readers, isClosed>>
  PROVE  SendInv'
  BY DEF SendInv, NoSendOnClosed, InSend

LEMMA SendStep == TypeOK /\ SendInv /\ [Next]_vars => SendInv'
<1> SUFFICES ASSUME TypeOK, SendInv, [Next]_vars PROVE SendInv'
  OBVIOUS
<1> USE DEF storeVars, tailVars, catchVars, chanVars, endVars, logVars
<1>1. CASE Environment
  BY <1>1, SendFrame DEF Environment
<1>2. CASE Tailer
  <2>1. UNCHANGED <<catchPc, isClosed>>
    BY <1>2 DEF Tailer
  <2>2. CASE TailerWake \/ TailerQuery \/ TailerQueryFails \/ Dispatch
              \/ TailerAdvance \/ TailerExit
    <3>1. UNCHANGED readers /\ tailPc \notin {"check", "put"}
      BY <2>2 DEF TailerWake, TailerQuery, TailerQueryFails, Dispatch,
           TailerAdvance, TailerExit
    <3> QED BY <2>1, <3>1 DEF SendInv, NoSendOnClosed, InSend, TypeOK
  <2>3. ASSUME NEW s \in Subs, DispatchSkip(s) PROVE SendInv'
    BY <2>1, <2>3, SendFrame DEF DispatchSkip
  <2>4. ASSUME NEW s \in Subs, DispatchRLock(s) PROVE SendInv'
    BY <2>1, <2>4 DEF DispatchRLock, RLock, SendInv, NoSendOnClosed, InSend,
         TypeOK
  <2>5. ASSUME NEW s \in Subs, DispatchCheck(s) PROVE SendInv'
    <3>1. CASE s \in isClosed
      <4>1. RUnlock(s, "tailer") /\ tailPc' = "each" /\ InSend(s)
        BY <2>5, <3>1 DEF DispatchCheck, DispatchNext
      <4>2. \A r \in Subs : ~ InSend(r)'
        BY <4>1 DEF RUnlock, SendInv, InSend, TypeOK
      <4>3. \A r \in Subs : "catchup" \in readers[r] => "catchup" \in readers'[r]
        BY <4>1 DEF RUnlock, TypeOK
      <4> QED BY <2>1, <4>1, <4>2, <4>3 DEF SendInv, NoSendOnClosed, TypeOK
    <3>2. CASE s \notin isClosed
      BY <2>1, <2>5, <3>2 DEF DispatchCheck, SendInv, NoSendOnClosed, InSend,
           TypeOK
    <3> QED BY <3>1, <3>2
  <2>6. ASSUME NEW s \in Subs, DispatchPut(s) \/ DispatchDrop(s)
        PROVE  SendInv'
    <3>1. DispatchNext(s) /\ InSend(s) /\ tailPc = "put"
      BY <2>6 DEF DispatchPut, DispatchDrop
    <3> QED BY <2>1, <3>1 DEF DispatchNext, RUnlock, SendInv, NoSendOnClosed,
          InSend, TypeOK
  <2> QED BY <1>2, <2>2, <2>3, <2>4, <2>5, <2>6 DEF Tailer
<1>3. CASE CallStoreClose
  BY <1>3, SendFrame DEF CallStoreClose
<1>4. CASE Closing
  BY <1>4, SendFrame DEF Closing
<1>5. ASSUME NEW s \in Subs, Consumer(s) PROVE SendInv'
  <2>1. CASE Subscribe(s)
    BY <1>5, <2>1 DEF Consumer, Subscribe, SendInv, NoSendOnClosed, InSend,
         TypeOK
  <2>2. CASE Receive(s) \/ ConsumerClose(s) \/ CancelContext(s)
    BY <1>5, <2>2, SendFrame DEF Consumer, Receive, ConsumerClose,
         CancelContext
  <2> QED BY <1>5, <2>1, <2>2 DEF Consumer
<1>6. ASSUME NEW s \in Subs, Catchup(s) PROVE SendInv'
  <2>1. UNCHANGED <<tailPc, isClosed>>
    BY <1>6 DEF Catchup
  <2>2. RLock(s, "catchup") \/ RUnlock(s, "catchup") \/ UNCHANGED readers
    BY Zenon, <1>6 DEF Catchup, CatchupTarget, Register, CatchupQuery,
         CatchupQueryFails, CatchupRLock, CatchupCheck, CatchupPut,
         CatchupGiveUp, CatchupClose, CatchupReturn
  <2>3. PICK place \in CatchPcs : Goto(s, place)
    BY Zenon, <1>6 DEF Catchup, CatchupTarget, Register, CatchupQuery,
         CatchupQueryFails, CatchupRLock, CatchupCheck, CatchupPut,
         CatchupGiveUp, CatchupClose, CatchupReturn
  <2>4. \A r \in Subs : InSend(r)' <=> InSend(r)
    <3>1. CASE RLock(s, "catchup")
      BY <3>1 DEF RLock, InSend, TypeOK
    <3>2. CASE RUnlock(s, "catchup")
      BY <3>2 DEF RUnlock, InSend, TypeOK
    <3> QED BY Zenon, <2>2, <3>1, <3>2 DEF InSend
  <2>5. ASSUME NEW r \in Subs, r # s
        PROVE  catchPc'[r] = catchPc[r] /\ readers'[r] = readers[r]
    <3>1. catchPc'[r] = catchPc[r]
      BY Zenon, <2>3, <2>5 DEF Goto, TypeOK
    <3>2. readers'[r] = readers[r]
      BY Zenon, <2>2, <2>5 DEF RLock, RUnlock, TypeOK
    <3> QED BY <3>1, <3>2
  <2>6. catchPc'[s] = place
    BY Zenon, <2>3 DEF Goto, TypeOK
  <2>7. CASE CatchupRLock(s)
    <3>1. catchPc'[s] = "check"
      BY Zenon, <2>7 DEF CatchupRLock, Goto, TypeOK
    <3>2. "catchup" \in readers'[s]
      BY <2>7 DEF CatchupRLock, RLock, TypeOK
    <3> QED BY Zenon, <2>1, <2>4, <2>5, <3>1, <3>2
          DEF SendInv, NoSendOnClosed, TypeOK
  <2>8. CASE CatchupCheck(s) /\ s \notin isClosed
    <3>1. UNCHANGED readers /\ catchPc[s] = "check"
      BY Zenon, <2>8 DEF CatchupCheck
    <3> QED BY Zenon, <2>1, <2>4, <2>5, <2>8, <3>1
          DEF SendInv, NoSendOnClosed, TypeOK
  <2>9. CASE ~ CatchupRLock(s) /\ ~ (CatchupCheck(s) /\ s \notin isClosed)
    <3>1. \E at \in CatchPcs \ {"check", "put"} : Goto(s, at)
      BY Zenon, <1>6, <2>9 DEF Catchup, CatchupTarget, Register, CatchupQuery,
           CatchupQueryFails, CatchupCheck, CatchupPut, CatchupGiveUp,
           CatchupClose, CatchupReturn
    <3>2. catchPc'[s] \notin {"check", "put"}
      BY Zenon, <3>1 DEF Goto, TypeOK
    <3> QED BY Zenon, <2>1, <2>4, <2>5, <3>2 DEF SendInv, NoSendOnClosed, TypeOK
  <2> QED BY Zenon, <2>7, <2>8, <2>9
<1>7. ASSUME NEW s \in Subs, Close(s) PROVE SendInv'
  <2>1. CASE CloseChannel(s)
    <3>1. readers[s] = {} /\ isClosed' = isClosed \cup {s}
      BY Zenon, <2>1 DEF CloseChannel
    <3>2. UNCHANGED <<catchPc, tailPc, readers>>
      BY <1>7 DEF Close
    <3>3. catchPc[s] # "put" /\ ~ InSend(s)
      BY Zenon, <3>1 DEF SendInv, InSend
    <3> QED BY Zenon, <3>1, <3>2, <3>3 DEF SendInv, NoSendOnClosed, InSend
  <2>2. CASE CloseUnregister(s) \/ CloseSignal(s) \/ CloseLock(s)
    BY <1>7, <2>2, SendFrame DEF Close, CloseUnregister, CloseSignal,
         CloseLock
  <2> QED BY <1>7, <2>1, <2>2 DEF Close
<1>8. CASE UNCHANGED vars
  BY <1>8, SendFrame DEF vars
<1> QED BY <1>1, <1>2, <1>3, <1>4, <1>5, <1>6, <1>7, <1>8 DEF Next

\* No producer ever sends on a closed channel, whoever closes it and when.
THEOREM SendCorrect == Spec => []NoSendOnClosed
<1>1. TypeInv => TypeOK
  BY DEF TypeInv
<1>2. SendInv => NoSendOnClosed
  BY DEF SendInv
<1> QED BY <1>1, <1>2, TypeInit, TypeStep, SendInit, SendStep, PTL DEF Spec

-----------------------------------------------------------------------------
\* The ranges of the positions, as the proofs below use them.
LEMMA Positions ==
  ASSUME TypeOK
  PROVE  /\ Len(log) \in Nat /\ latestPosition \in Nat /\ latestPosition <= Len(log)
         /\ cursor \in Nat /\ cursor <= latestPosition
         /\ \A s \in Subs :
              /\ from[s] \in Nat /\ lastSent[s] \in Nat
              /\ catchTarget[s] \in Nat /\ catchTarget[s] <= latestPosition
              /\ batch[s] \subseteq 1 .. latestPosition
<1>1. /\ Len(log) \in Nat /\ latestPosition \in Nat /\ latestPosition <= Len(log)
      /\ cursor \in Nat /\ cursor <= latestPosition
  BY LenProperties DEF TypeOK
<1>2. ASSUME NEW s \in Subs
      PROVE  catchTarget[s] \in Nat /\ catchTarget[s] <= latestPosition
  <2>1. catchTarget[s] \in 0 .. latestPosition
    BY Zenon DEF TypeOK
  <2> QED BY <1>1, <2>1
<1>3. ASSUME NEW s \in Subs
      PROVE  /\ from[s] \in Nat /\ lastSent[s] \in Nat
             /\ batch[s] \subseteq 1 .. latestPosition
  BY Zenon DEF TypeOK
<1> QED BY Zenon, <1>1, <1>2, <1>3

\* Which rows a subscriber wants does not change when rows are added.
LEMMA MatchesStable ==
  ASSUME TypeOK, [Next]_vars
  PROVE  \A p \in 1 .. Len(log) : log'[p] = log[p]
<1>1. CASE CommitRow
  <2>1. PICK k \in Kinds : log' = Append(log, k)
    BY <1>1 DEF CommitRow
  <2> QED BY <2>1, CommitKeeps DEF TypeOK
<1>2. CASE UNCHANGED log
  BY <1>2
<1>3. CommitRow \/ UNCHANGED log
  BY DEF Next, Environment, Announce, Tailer, CallStoreClose, Closing,
       Consumer, Catchup, Close, logVars, vars
<1> QED BY <1>1, <1>2, <1>3

\* What a push does to what was delivered.
LEMMA PushDelivers ==
  ASSUME TypeOK, NEW s \in Subs, NEW p \in Nat, Push(s, p)
  PROVE  /\ Delivered(s)' = Delivered(s) \cup {p}
         /\ lastSent'[s] = p
         /\ \A r \in Subs : r # s => sent'[r] = sent[r] /\ lastSent'[r] = lastSent[r]
         /\ InOrder(s) /\ (\A q \in Delivered(s) : q < p) => InOrder(s)'
<1>1. sent'[s] = Append(sent[s], p) /\ sent[s] \in Seq(Nat)
  BY DEF Push, TypeOK
<1>2. Delivered(s)' = Delivered(s) \cup {p}
  <2> DEFINE old == sent[s]
             new == sent'[s]
  <2>1. /\ DOMAIN old = 1 .. Len(old) /\ DOMAIN new = 1 .. Len(old) + 1
        /\ Len(old) \in Nat
        /\ \A i \in 1 .. Len(old) : new[i] = old[i]
        /\ new[Len(old) + 1] = p
    BY <1>1, PushAppends, LenProperties
  <2> HIDE DEF old, new
  <2>2. {new[i] : i \in DOMAIN new} = {old[i] : i \in DOMAIN old} \cup {p}
    BY <2>1
  <2> QED BY <2>2 DEF Delivered, old, new
<1>3. InOrder(s) /\ (\A q \in Delivered(s) : q < p) => InOrder(s)'
  <2> SUFFICES ASSUME InOrder(s), \A q \in Delivered(s) : q < p,
                      NEW i \in DOMAIN sent'[s], NEW j \in DOMAIN sent'[s], i < j
               PROVE  sent'[s][i] < sent'[s][j]
    BY DEF InOrder
  <2>1. /\ DOMAIN sent[s] = 1 .. Len(sent[s]) /\ Len(sent[s]) \in Nat
        /\ DOMAIN sent'[s] = 1 .. Len(sent[s]) + 1
        /\ \A k \in 1 .. Len(sent[s]) : sent'[s][k] = sent[s][k]
        /\ sent'[s][Len(sent[s]) + 1] = p
    BY <1>1, PushAppends, LenProperties
  <2>2. i \in DOMAIN sent[s] /\ sent'[s][i] = sent[s][i]
    BY <2>1
  <2>3. CASE j = Len(sent[s]) + 1
    BY Zenon, <2>1, <2>2, <2>3 DEF Delivered
  <2>4. CASE j # Len(sent[s]) + 1
    <3>1. j \in DOMAIN sent[s] /\ sent'[s][j] = sent[s][j]
      BY <2>1, <2>4
    <3> QED BY Zenon, <2>2, <3>1 DEF InOrder
  <2> QED BY <2>3, <2>4
<1> QED BY <1>2, <1>3 DEF Push, TypeOK

LEMMA HandoverInit == Init => HandoverInv
<1> SUFFICES ASSUME Init, NEW s \in Subs
             PROVE  /\ s \in subs \cup snapshot => catchPc[s] = "exit"
                    /\ InSend(s) => s \in snapshot /\ Wanted(s)
                    /\ from[s] <= lastSent[s]
                    /\ lastSent[s] = from[s] \/ lastSent[s] <= latestPosition
                    /\ catchPc[s] = "none" => sent[s] = << >>
                    /\ catchPc[s] = "query" => lastSent[s] < catchTarget[s]
  BY Zenon DEF HandoverInv
<1>1. s \notin subs \cup snapshot /\ ~ InSend(s)
  BY DEF Init, InSend
<1>2. from[s] = 0 /\ lastSent[s] = 0 /\ catchPc[s] = "none"
  BY DEF Init
<1>3. sent[s] = << >>
  BY DEF Init
<1> QED BY <1>1, <1>2, <1>3

LEMMA HandoverStep ==
  TypeInv /\ SendInv /\ BatchInv /\ HandoverInv /\ [Next]_vars => HandoverInv'
<1> SUFFICES ASSUME TypeInv, SendInv, BatchInv, HandoverInv, [Next]_vars,
                    NEW r \in Subs
             PROVE  /\ r \in subs' \cup snapshot' => catchPc'[r] = "exit"
                    /\ InSend(r)' => r \in snapshot' /\ Wanted(r)'
                    /\ from'[r] <= lastSent'[r]
                    /\ \/ lastSent'[r] = from'[r]
                       \/ lastSent'[r] <= latestPosition'
                    /\ catchPc'[r] = "none" => sent'[r] = << >>
                    /\ catchPc'[r] = "query" => lastSent'[r] < catchTarget'[r]
  BY Zenon DEF HandoverInv
<1> DEFINE Hand ==
      /\ r \in subs' \cup snapshot' => catchPc'[r] = "exit"
      /\ InSend(r)' => r \in snapshot' /\ Wanted(r)'
      /\ from'[r] <= lastSent'[r]
      /\ lastSent'[r] = from'[r] \/ lastSent'[r] <= latestPosition'
      /\ catchPc'[r] = "none" => sent'[r] = << >>
      /\ catchPc'[r] = "query" => lastSent'[r] < catchTarget'[r]
<1> SUFFICES Hand
  OBVIOUS
<1>a. TypeOK
  BY DEF TypeInv
<1>b. InSend(r) => cursor + 1 \in 1 .. Len(log)
  <2>1. Len(log) \in Nat
    BY <1>a, LenProperties DEF TypeOK
  <2> QED BY <1>a, <2>1 DEF SendInv, TypeInv, CursorInv, TypeOK
<1>c. InSend(r) => log'[cursor + 1] = log[cursor + 1]
  BY <1>a, <1>b, MatchesStable
<1> USE DEF storeVars, tailVars, catchVars, chanVars, endVars, logVars
<1>1. CASE Environment
  <2>1. latestPosition' >= latestPosition /\ latestPosition' \in Nat
    BY <1>1, <1>a, Positions DEF Environment, CommitRow, Announce
  <2> QED BY <1>1, <1>a, <1>c, <2>1
        DEF Environment, HandoverInv, InSend, Wanted, Matches, TypeOK
<1>2. CASE Tailer
  <2>1. UNCHANGED <<log, latestPosition, catchPc, from, catchTarget>>
    BY <1>2 DEF Tailer
  <2>2. CASE TailerWake \/ TailerQuery \/ TailerQueryFails \/ Dispatch
              \/ TailerAdvance \/ TailerExit
    <3>1. /\ UNCHANGED <<readers, sent, lastSent>>
          /\ tailPc \notin {"check", "put"}
          /\ subs' \cup snapshot' \subseteq subs \cup snapshot
      BY <2>2 DEF TailerWake, TailerQuery, TailerQueryFails, Dispatch,
           TailerAdvance, TailerExit
    <3> QED BY Zenon, <2>1, <3>1 DEF HandoverInv, SendInv, InSend
  <2>3. ASSUME NEW s \in Subs, DispatchSkip(s) PROVE Hand
    <3>1. ~ InSend(r)
      BY <2>3 DEF DispatchSkip, SendInv
    <3> QED BY <2>1, <2>3, <3>1 DEF DispatchSkip, HandoverInv, InSend
  <2>4. ASSUME NEW s \in Subs, DispatchRLock(s) PROVE Hand
    <3>1. InSend(r)' => r = s
      BY <1>a, <2>4 DEF DispatchRLock, RLock, SendInv, InSend, TypeOK
    <3> QED BY <2>1, <2>4, <3>1
          DEF DispatchRLock, HandoverInv, Wanted, Matches
  <2>5. ASSUME NEW s \in Subs, DispatchCheck(s) PROVE Hand
    <3>1. CASE s \in isClosed
      <4>1. DispatchNext(s) /\ UNCHANGED <<subs, sent, lastSent>> /\ InSend(s)
        BY <2>5, <3>1 DEF DispatchCheck
      <4>2. ~ InSend(r)'
        BY <1>a, <4>1 DEF DispatchNext, RUnlock, SendInv, InSend, TypeOK
      <4> QED BY Zenon, <2>1, <4>1, <4>2 DEF DispatchNext, HandoverInv
    <3>2. CASE s \notin isClosed
      BY <2>1, <2>5, <3>2
      DEF DispatchCheck, HandoverInv, InSend, Wanted, Matches
    <3> QED BY <3>1, <3>2
  <2>6. ASSUME NEW s \in Subs, DispatchPut(s) PROVE Hand
    <3>1. /\ DispatchNext(s) /\ Push(s, cursor + 1) /\ InSend(s)
          /\ UNCHANGED subs /\ tailPc = "put"
      BY <2>6 DEF DispatchPut
    <3>2. ~ InSend(r)'
      BY <1>a, <3>1 DEF DispatchNext, RUnlock, SendInv, InSend, TypeOK
    <3>3. /\ catchPc[s] = "exit" /\ lastSent[s] < cursor + 1
          /\ from[s] <= lastSent[s]
      BY <3>1 DEF HandoverInv, Wanted
    <3>4. cursor + 1 <= latestPosition
      BY <1>a, <3>1 DEF TypeInv, CursorInv, TypeOK
    <3>5. CASE r = s
      BY <1>a, <2>1, <3>1, <3>2, <3>3, <3>4, <3>5
      DEF Push, DispatchNext, HandoverInv, TypeOK
    <3>6. CASE r # s
      BY <1>a, <2>1, <3>1, <3>2, <3>6 DEF Push, DispatchNext, HandoverInv, TypeOK
    <3> QED BY <3>5, <3>6
  <2>7. ASSUME NEW s \in Subs, DispatchDrop(s) PROVE Hand
    <3>1. /\ DispatchNext(s) /\ InSend(s) /\ subs' \subseteq subs
          /\ UNCHANGED <<sent, lastSent>>
      BY <2>7 DEF DispatchDrop
    <3>2. ~ InSend(r)'
      BY <1>a, <3>1 DEF DispatchNext, RUnlock, SendInv, InSend, TypeOK
    <3> QED BY <2>1, <3>1, <3>2 DEF DispatchNext, HandoverInv
  <2> QED BY Zenon, <1>2, <2>2, <2>3, <2>4, <2>5, <2>6, <2>7 DEF Tailer
<1>3. CASE CallStoreClose
  BY <1>3 DEF CallStoreClose, StoreClose, HandoverInv, InSend, Wanted, Matches
<1>4. CASE Closing
  <2>1. subs' \subseteq subs
    BY <1>4 DEF Closing, StoreCloseTake, StoreCloseBegin, StoreCloseNext,
         StoreCloseReturn
  <2> QED BY <1>4, <2>1 DEF Closing, HandoverInv, InSend, Wanted, Matches
<1>5. ASSUME NEW s \in Subs, Consumer(s) PROVE Hand
  <2>1. CASE Subscribe(s)
    <3>1. PICK p \in 0 .. MaxLog :
            /\ from' = [from EXCEPT ![s] = p]
            /\ lastSent' = [lastSent EXCEPT ![s] = p]
      BY Zenon, <2>1 DEF Subscribe
    <3>2. p \in Nat /\ catchPc[s] = "none" /\ catchPc'[s] = "target"
      BY <1>a, <2>1, <3>1, SubscriptionAssumption DEF Subscribe, TypeOK
    <3>3. s \notin subs \cup snapshot /\ ~ InSend(s)
      BY <3>2 DEF HandoverInv
    <3>4. CASE r = s
      BY <1>5, <1>a, <3>1, <3>2, <3>3, <3>4 DEF Consumer, InSend, TypeOK
    <3>5. CASE r # s
      BY Zenon, <1>5, <1>a, <2>1, <3>1, <3>5
      DEF Consumer, Subscribe, HandoverInv, InSend, Wanted, Matches, TypeOK
    <3> QED BY <3>4, <3>5
  <2>2. CASE Receive(s) \/ ConsumerClose(s) \/ CancelContext(s)
    <3>1. UNCHANGED <<catchPc, from, lastSent>>
      BY <2>2 DEF Receive, ConsumerClose, CancelContext
    <3> QED BY Zenon, <1>5, <3>1 DEF Consumer, HandoverInv, InSend, Wanted, Matches
  <2> QED BY Zenon, <1>5, <2>1, <2>2 DEF Consumer
<1>6. ASSUME NEW s \in Subs, Catchup(s) PROVE Hand
  <2> USE DEF TypeOK
  <2>1. UNCHANGED <<log, latestPosition, tailPc, cursor, snapshot, from>>
    BY <1>6 DEF Catchup
  <2>2. catchPc[s] \notin {"exit", "none"}
    BY Zenon, <1>6 DEF Catchup, CatchupTarget, Register, CatchupQuery,
         CatchupQueryFails, CatchupRLock, CatchupCheck, CatchupPut,
         CatchupGiveUp, CatchupClose
  <2>3. s \notin subs \cup snapshot /\ ~ InSend(s)
    BY <2>2 DEF HandoverInv
  <2>4. InSend(r)' => InSend(r)
    <3>1. \/ RLock(s, "catchup") \/ RUnlock(s, "catchup") \/ UNCHANGED readers
      BY Zenon, <1>6 DEF Catchup, CatchupTarget, Register, CatchupQuery,
           CatchupQueryFails, CatchupRLock, CatchupCheck, CatchupPut,
           CatchupGiveUp, CatchupClose, CatchupReturn
    <3>2. CASE RLock(s, "catchup")
      BY <1>a, <3>2 DEF RLock, InSend
    <3>3. CASE RUnlock(s, "catchup")
      BY <1>a, <3>3 DEF RUnlock, InSend
    <3> QED BY <3>1, <3>2, <3>3 DEF InSend
  <2>5. CASE r # s
    <3>1. catchPc'[r] = catchPc[r]
      <4>1. \E place \in CatchPcs : Goto(s, place)
        BY Zenon, <1>6 DEF Catchup, CatchupTarget, Register, CatchupQuery,
             CatchupQueryFails, CatchupRLock, CatchupCheck, CatchupPut,
             CatchupGiveUp, CatchupClose, CatchupReturn
      <4> QED BY <1>a, <2>5, <4>1 DEF Goto
    <3>2. catchTarget'[r] = catchTarget[r]
      <4>1. \/ UNCHANGED catchTarget
            \/ catchTarget' = [catchTarget EXCEPT ![s] = latestPosition]
        BY Zenon, <1>6 DEF Catchup, CatchupTarget, Register, CatchupQuery,
             CatchupQueryFails, CatchupRLock, CatchupCheck, CatchupPut,
             CatchupGiveUp, CatchupClose
      <4> QED BY Zenon, <1>a, <2>5, <4>1
    <3>3. sent'[r] = sent[r] /\ lastSent'[r] = lastSent[r]
      <4>1. CASE CatchupPut(s)
        <5>1. PICK p \in batch[s] : Push(s, p)
          BY Zenon, <4>1 DEF CatchupPut
        <5> QED BY <1>a, <2>5, <5>1 DEF Push
      <4>2. CASE CatchupQuery(s)
        <5>1. UNCHANGED sent
          BY <4>2 DEF CatchupQuery
        <5>2. \/ lastSent' = [lastSent EXCEPT ![s] = catchTarget[s]]
              \/ UNCHANGED lastSent
          BY Zenon, <4>2 DEF CatchupQuery
        <5> QED BY Zenon, <1>a, <2>5, <5>1, <5>2
      <4>3. CASE ~ CatchupPut(s) /\ ~ CatchupQuery(s)
        BY Zenon, <1>6, <4>3 DEF Catchup, CatchupTarget, Register,
             CatchupQueryFails, CatchupRLock, CatchupCheck, CatchupGiveUp,
             CatchupClose
      <4> QED BY Zenon, <4>1, <4>2, <4>3
    <3>4. r \in subs' => r \in subs
      <4>1. UNCHANGED subs \/ subs' = subs \cup {s}
        BY Zenon, <1>6 DEF Catchup, CatchupTarget, Register, CatchupQuery,
             CatchupQueryFails, CatchupRLock, CatchupCheck, CatchupPut,
             CatchupGiveUp, CatchupClose
      <4> QED BY <2>5, <4>1
    <3> QED BY Zenon, <2>1, <2>4, <3>1, <3>2, <3>3, <3>4
          DEF HandoverInv, Wanted, Matches
  <2>6. CASE r = s
    <3>1. ~ InSend(s)' /\ s \notin snapshot'
      BY Zenon, <2>1, <2>3, <2>4, <2>6
    <3>2. /\ from[s] \in Nat /\ lastSent[s] \in Nat /\ latestPosition \in Nat
          /\ catchTarget[s] \in Nat /\ catchTarget[s] <= latestPosition
      BY <1>a
    <3>3. /\ from[s] <= lastSent[s]
          /\ lastSent[s] = from[s] \/ lastSent[s] <= latestPosition
          /\ catchPc[s] = "query" => lastSent[s] < catchTarget[s]
      BY Zenon DEF HandoverInv
    <3>4. CASE CatchupTarget(s)
      <4>1. /\ UNCHANGED <<subs, lastSent>>
            /\ catchTarget'[s] = latestPosition
            /\ catchPc'[s] = IF lastSent[s] >= latestPosition
                               THEN "register" ELSE "query"
        BY <1>a, <3>4 DEF CatchupTarget, Goto
      <4> QED BY <2>1, <2>3, <2>6, <3>1, <3>2, <3>3, <4>1
    <3>5. CASE Register(s)
      <4>1. /\ UNCHANGED lastSent
            /\ \/ catchPc'[s] = "exit"
               \/ catchPc'[s] = "target" /\ UNCHANGED subs
        BY <1>a, <3>5 DEF Register, Goto
      <4> QED BY <2>1, <2>3, <2>6, <3>1, <3>3, <4>1
    <3>6. CASE CatchupQuery(s)
      <4>1. UNCHANGED subs /\ catchPc[s] = "query"
        BY Zenon, <3>6 DEF CatchupQuery
      <4>2. /\ catchPc'[s] \in {"target", "rlock"}
            /\ lastSent'[s] = lastSent[s] \/ lastSent'[s] = catchTarget[s]
        <5>1. \/ Goto(s, "target") \/ Goto(s, "rlock")
          BY Zenon, <3>6 DEF CatchupQuery
        <5>2. \/ lastSent' = [lastSent EXCEPT ![s] = catchTarget[s]]
              \/ UNCHANGED lastSent
          BY Zenon, <3>6 DEF CatchupQuery
        <5> QED BY Zenon, <1>a, <5>1, <5>2 DEF Goto
      <4> QED BY <2>1, <2>3, <2>6, <3>1, <3>2, <3>3, <4>1, <4>2
    <3>7. CASE CatchupPut(s)
      <4>1. PICK p \in batch[s] : Push(s, p)
        BY Zenon, <3>7 DEF CatchupPut
      <4>2. /\ UNCHANGED subs /\ catchPc[s] = "put"
            /\ Goto(s, "target") \/ Goto(s, "rlock")
        BY Zenon, <3>7 DEF CatchupPut
      <4>3. catchPc'[s] \in {"target", "rlock"} /\ lastSent'[s] = p
        BY <1>a, <4>1, <4>2 DEF Goto, Push
      <4>4. p \in Nat /\ p <= latestPosition
        BY <1>a, <4>1
      <4>5. p > lastSent[s]
        BY Zenon, <4>1, <4>2 DEF BatchInv
      <4> QED BY <2>1, <2>3, <2>6, <3>1, <3>2, <3>3, <4>2, <4>3, <4>4, <4>5
    <3>8. CASE \/ CatchupQueryFails(s) \/ CatchupRLock(s) \/ CatchupCheck(s)
               \/ CatchupGiveUp(s) \/ CatchupClose(s)
      <4>1. /\ UNCHANGED <<subs, lastSent>>
            /\ \E place \in {"close", "check", "put", "exit"} : Goto(s, place)
        BY Zenon, <3>8 DEF CatchupQueryFails, CatchupRLock, CatchupCheck,
             CatchupGiveUp, CatchupClose, CatchupReturn
      <4>2. catchPc'[s] \in {"close", "check", "put", "exit"}
        BY <1>a, <4>1 DEF Goto
      <4> QED BY <2>1, <2>3, <2>6, <3>1, <3>3, <4>1, <4>2
    <3> QED BY Zenon, <1>6, <3>4, <3>5, <3>6, <3>7, <3>8 DEF Catchup
  <2> QED BY Zenon, <2>5, <2>6
<1>7. ASSUME NEW s \in Subs, Close(s) PROVE Hand
  <2>1. subs' \subseteq subs
    BY Zenon, <1>7 DEF Close, CloseUnregister, CloseSignal, CloseLock, CloseChannel
  <2> QED BY Zenon, <1>7, <2>1 DEF Close, HandoverInv, InSend, Wanted, Matches
<1>8. CASE UNCHANGED vars
  BY <1>8 DEF vars, HandoverInv, InSend, Wanted, Matches
<1> QED BY Zenon, <1>1, <1>2, <1>3, <1>4, <1>5, <1>6, <1>7, <1>8 DEF Next

-----------------------------------------------------------------------------
LEMMA BatchInit == Init => BatchInv
  BY DEF Init, BatchInv

LEMMA BatchStep ==
  TypeInv /\ SendInv /\ HandoverInv /\ BatchInv /\ [Next]_vars => BatchInv'
<1> SUFFICES ASSUME TypeInv, SendInv, HandoverInv, BatchInv, [Next]_vars,
                    NEW r \in Subs, catchPc'[r] \in {"rlock", "check", "put"}
             PROVE  /\ batch'[r] # {}
                    /\ \A b \in batch'[r] :
                         /\ b > lastSent'[r] /\ log'[b] \in Filter[r]
                         /\ \A p \in lastSent'[r] + 1 .. b :
                              log'[p] \in Filter[r] => p \in batch'[r]
  BY Zenon DEF BatchInv, Matches
<1> DEFINE Batch ==
      /\ batch'[r] # {}
      /\ \A b \in batch'[r] :
           /\ b > lastSent'[r] /\ log'[b] \in Filter[r]
           /\ \A p \in lastSent'[r] + 1 .. b :
                log'[p] \in Filter[r] => p \in batch'[r]
<1> SUFFICES Batch
  OBVIOUS
<1>a. TypeOK
  BY DEF TypeInv
<1>b. \A p \in 1 .. latestPosition : log'[p] = log[p]
  <2>1. 1 .. latestPosition \subseteq 1 .. Len(log)
    BY <1>a, Positions
  <2> QED BY Zenon, <1>a, <2>1, MatchesStable
<1>c. ASSUME catchPc[r] \in {"rlock", "check", "put"}, batch'[r] = batch[r],
             lastSent'[r] = lastSent[r]
      PROVE  Batch
  <2>1. /\ batch[r] # {}
        /\ \A b \in batch[r] :
             /\ b > lastSent[r] /\ log[b] \in Filter[r]
             /\ \A p \in lastSent[r] + 1 .. b :
                  log[p] \in Filter[r] => p \in batch[r]
    BY Zenon, <1>c DEF BatchInv, Matches
  <2>2. \A b \in batch[r] : b \in 1 .. latestPosition
    BY <1>a DEF TypeOK
  <2>3. lastSent[r] \in Nat /\ latestPosition \in Nat
    BY <1>a DEF TypeOK
  <2>4. \A b \in batch[r] : log'[b] = log[b]
    BY Zenon, <1>b, <2>2
  <2>5. ASSUME NEW b \in batch[r], NEW p \in lastSent[r] + 1 .. b
        PROVE  log'[p] = log[p]
    <3>1. p \in 1 .. latestPosition
      BY <2>2, <2>3
    <3> QED BY <1>b, <3>1
  <2> QED BY Zenon, <1>c, <2>1, <2>4, <2>5
<1> USE DEF storeVars, tailVars, catchVars, chanVars, endVars, logVars
<1>1. CASE Environment
  BY <1>1, <1>c DEF Environment
<1>2. CASE Tailer
  <2>1. UNCHANGED <<catchPc, batch>>
    BY <1>2 DEF Tailer
  <2>2. lastSent'[r] = lastSent[r]
    <3>1. ASSUME NEW s \in Subs, DispatchPut(s) PROVE lastSent'[r] = lastSent[r]
      <4>1. catchPc[s] = "exit"
        BY Zenon, <3>1 DEF DispatchPut, HandoverInv
      <4> QED BY <1>a, <2>1, <3>1, <4>1 DEF DispatchPut, Push, TypeOK
    <3> QED BY Zenon, <1>2, <3>1 DEF Tailer, TailerWake, TailerQuery,
          TailerQueryFails, Dispatch, DispatchSkip, DispatchRLock,
          DispatchCheck, DispatchDrop, TailerAdvance, TailerExit
  <2> QED BY <1>c, <2>1, <2>2
<1>3. CASE CallStoreClose
  BY Zenon, <1>3, <1>c DEF CallStoreClose
<1>4. CASE Closing
  BY Zenon, <1>4, <1>c DEF Closing
<1>5. ASSUME NEW s \in Subs, Consumer(s) PROVE Batch
  <2>1. CASE Subscribe(s)
    <3>1. r # s
      BY <1>a, <2>1 DEF Subscribe, TypeOK
    <3> QED BY Zenon, <1>5, <1>a, <1>c, <2>1, <3>1 DEF Consumer, Subscribe, TypeOK
  <2>2. CASE Receive(s) \/ ConsumerClose(s) \/ CancelContext(s)
    BY Zenon, <1>5, <1>c, <2>2 DEF Consumer, Receive, ConsumerClose, CancelContext
  <2> QED BY Zenon, <1>5, <2>1, <2>2 DEF Consumer
<1>6. ASSUME NEW s \in Subs, Catchup(s) PROVE Batch
  <2>1. UNCHANGED log
    BY <1>6 DEF Catchup
  <2>2. CASE CatchupQuery(s)
    <3>1. CASE r = s
      <4>1. /\ batch'[s] = {p \in Rows(lastSent[s], catchTarget[s]) : Matches(s, p)}
            /\ batch'[s] # {} /\ UNCHANGED lastSent
        BY <1>a, <2>2, <3>1 DEF CatchupQuery, Goto, TypeOK
      <4>2. lastSent[s] \in Nat /\ catchTarget[s] \in Nat /\ Limit \in Nat
        BY <1>a, SubscriptionAssumption DEF TypeOK
      <4> QED BY <2>1, <3>1, <4>1, <4>2 DEF Rows, Matches
    <3>2. CASE r # s
      <4>1. batch'[r] = batch[r] /\ lastSent'[r] = lastSent[r]
              /\ catchPc'[r] = catchPc[r]
        BY <1>a, <2>2, <3>2 DEF CatchupQuery, Goto, TypeOK
      <4> QED BY <1>c, <4>1
    <3> QED BY Zenon, <3>1, <3>2
  <2>3. CASE CatchupPut(s)
    <3>1. PICK p \in batch[s] :
            /\ \A q \in batch[s] : p <= q
            /\ Push(s, p)
            /\ batch' = [batch EXCEPT ![s] = @ \ {p}]
      BY Zenon, <2>3 DEF CatchupPut
    <3>2. CASE r = s
      <4>1. batch'[s] = batch[s] \ {p} /\ lastSent'[s] = p /\ catchPc[s] = "put"
        BY <1>a, <2>3, <3>1 DEF CatchupPut, Push, TypeOK
      <4>2. batch'[s] # {}
        BY <1>a, <2>3, <3>2 DEF CatchupPut, Goto, TypeOK
      <4>3. batch[s] \subseteq Nat /\ lastSent[s] \in Nat
        BY <1>a, Positions
      <4> QED BY <2>1, <3>1, <3>2, <4>1, <4>2, <4>3 DEF BatchInv, Matches
    <3>3. CASE r # s
      <4>1. batch'[r] = batch[r] /\ lastSent'[r] = lastSent[r]
              /\ catchPc'[r] = catchPc[r]
        BY <1>a, <2>3, <3>1, <3>3 DEF CatchupPut, Push, Goto, TypeOK
      <4> QED BY Zenon, <1>c, <4>1
    <3> QED BY Zenon, <3>2, <3>3
  <2>4. CASE CatchupRLock(s) \/ CatchupCheck(s)
    <3>1. UNCHANGED <<batch, lastSent>> /\ catchPc[s] \in {"rlock", "check"}
            /\ (r # s => catchPc'[r] = catchPc[r])
      BY <1>a, <2>4 DEF CatchupRLock, CatchupCheck, CatchupReturn, Goto, TypeOK
    <3> QED BY Zenon, <1>c, <3>1
  <2>5. CASE CatchupTarget(s) \/ Register(s) \/ CatchupQueryFails(s)
              \/ CatchupGiveUp(s) \/ CatchupClose(s)
    <3>1. /\ UNCHANGED <<batch, lastSent>>
          /\ \E place \in {"register", "query", "target", "close", "exit"} :
               Goto(s, place)
      BY Zenon, <2>5 DEF CatchupTarget, Register, CatchupQueryFails, CatchupGiveUp,
           CatchupClose, CatchupReturn
    <3>2. r # s /\ catchPc'[r] = catchPc[r]
      BY <1>a, <3>1 DEF Goto, TypeOK
    <3> QED BY Zenon, <1>c, <3>1, <3>2
  <2> QED BY Zenon, <1>6, <2>2, <2>3, <2>4, <2>5 DEF Catchup
<1>7. ASSUME NEW s \in Subs, Close(s) PROVE Batch
  BY <1>7, <1>c DEF Close
<1>8. CASE UNCHANGED vars
  BY Zenon, <1>8, <1>c DEF vars
<1> QED BY <1>1, <1>2, <1>3, <1>4, <1>5, <1>6, <1>7, <1>8 DEF Next

-----------------------------------------------------------------------------
Exact(s) == InOrder(s) /\ OnlyWanted(s) /\ NoGap(s)

Unfiltered == \A s \in Subs : Filter[s] = Kinds

\* A subscriber that is sent nothing keeps what it has: the rows it was sent
\* and passed over are announced ones, which never change.
LEMMA ExactFrame ==
  ASSUME TypeInv, HandoverInv, [Next]_vars, NEW s \in Subs, Exact(s),
         sent'[s] = sent[s], lastSent'[s] = lastSent[s], from'[s] = from[s]
  PROVE  Exact(s)'
<1>a. TypeOK /\ Len(log) \in Nat
  BY Zenon, Positions DEF TypeInv
<1>b. \A p \in from[s] + 1 .. lastSent[s] : p \in 1 .. Len(log)
  <2>1. /\ from[s] \in Nat /\ lastSent[s] \in Nat /\ latestPosition \in Nat
        /\ latestPosition <= Len(log)
    BY <1>a DEF TypeOK
  <2>2. lastSent[s] = from[s] \/ lastSent[s] <= latestPosition
    BY DEF HandoverInv
  <2>3. ASSUME NEW p \in from[s] + 1 .. lastSent[s] PROVE p \in 1 .. Len(log)
    BY <1>a, <2>1, <2>2
  <2> QED BY Zenon, <2>3
<1>c. \A p \in from[s] + 1 .. lastSent[s] : log'[p] = log[p]
  BY <1>a, <1>b, MatchesStable
<1>d. Delivered(s)' = Delivered(s)
  BY DEF Delivered
<1>1. InOrder(s)'
  BY DEF Exact, InOrder
<1>2. OnlyWanted(s)'
  BY Zenon, <1>c, <1>d DEF Exact, OnlyWanted, Matches
<1>3. NoGap(s)'
  BY Zenon, <1>c, <1>d DEF Exact, NoGap, Matches
<1> QED BY <1>1, <1>2, <1>3 DEF Exact

\* A push of the next wanted row keeps delivery exact.
LEMMA ExactPush ==
  ASSUME TypeOK, NEW s \in Subs, NEW p \in Nat, Push(s, p), Exact(s),
         UNCHANGED <<log, from>>,
         from[s] <= lastSent[s], lastSent[s] < p, Matches(s, p),
         \A q \in from[s] + 1 .. p - 1 : Matches(s, q) => q \in Delivered(s)
  PROVE  Exact(s)'
<1>1. /\ Delivered(s)' = Delivered(s) \cup {p} /\ lastSent'[s] = p
      /\ from[s] \in Nat /\ lastSent[s] \in Nat
  BY Zenon, PushDelivers DEF TypeOK
<1>2. \A q \in Delivered(s) : q \in from[s] + 1 .. lastSent[s] /\ Matches(s, q)
  BY Zenon DEF Exact, OnlyWanted
<1>3. InOrder(s)'
  <2>1. \A q \in Delivered(s) : q < p
    BY <1>1, <1>2
  <2> QED BY Zenon, <2>1, PushDelivers DEF Exact
<1>4. OnlyWanted(s)'
  BY <1>1, <1>2 DEF OnlyWanted, Matches
<1>5. NoGap(s)'
  BY <1>1 DEF NoGap, Matches
<1> QED BY <1>3, <1>4, <1>5 DEF Exact

\* Nothing that was delivered is taken back.
LEMMA DeliveredGrows ==
  ASSUME TypeOK, [Next]_vars, NEW r \in Subs
  PROVE  Delivered(r) \subseteq Delivered(r)'
<1> USE DEF storeVars, tailVars, catchVars, chanVars, endVars, logVars
<1>1. \/ sent'[r] = sent[r]
      \/ \E s \in Subs, p \in Nat : Push(s, p)
  <2>1. CASE Tailer
    <3>1. ASSUME NEW s \in Subs, DispatchPut(s)
          PROVE  \E p \in Nat : Push(s, p)
      BY <3>1 DEF DispatchPut, TypeOK
    <3> QED BY Zenon, <2>1, <3>1 DEF Tailer, TailerWake, TailerQuery,
          TailerQueryFails, Dispatch, DispatchSkip, DispatchRLock,
          DispatchCheck, DispatchDrop, TailerAdvance, TailerExit
  <2>2. ASSUME NEW s \in Subs, Catchup(s)
        PROVE  sent'[r] = sent[r] \/ \E p \in Nat : Push(s, p)
    <3>1. CatchupPut(s) => \E p \in Nat : Push(s, p)
      BY DEF CatchupPut, TypeOK
    <3> QED BY Zenon, <2>2, <3>1 DEF Catchup, CatchupTarget, Register, CatchupQuery,
          CatchupQueryFails, CatchupRLock, CatchupCheck, CatchupGiveUp,
          CatchupClose
  <2> QED BY <2>1, <2>2 DEF Next, Environment, CallStoreClose, Closing,
        Consumer, Close, vars
<1>2. CASE sent'[r] = sent[r]
  BY <1>2 DEF Delivered
<1>3. ASSUME NEW s \in Subs, NEW p \in Nat, Push(s, p)
      PROVE  Delivered(r) \subseteq Delivered(r)'
  <2>1. CASE r = s
    BY Zenon, <1>3, <2>1, PushDelivers
  <2>2. CASE r # s
    <3>1. sent'[r] = sent[r]
      BY Zenon, <1>3, <2>2 DEF Push, TypeOK
    <3> QED BY Zenon, <3>1 DEF Delivered
  <2> QED BY <2>1, <2>2
<1> QED BY <1>1, <1>2, <1>3

LEMMA ExactInit == Init => DeliveredExactly
<1> SUFFICES ASSUME Init, NEW s \in Subs PROVE Exact(s)
  BY Zenon DEF DeliveredExactly, Exact
<1>1. sent[s] = << >> /\ from[s] = 0 /\ lastSent[s] = 0
  BY DEF Init
<1>2. DOMAIN sent[s] = {}
  BY <1>1
<1> QED BY SMTT(60), <1>1, <1>2 DEF Exact, InOrder, OnlyWanted, NoGap, Delivered

LEMMA ExactStep ==
  ASSUME Unfiltered
  PROVE  /\ TypeInv /\ SendInv /\ HandoverInv /\ BatchInv /\ DispatchInv
         /\ DeliveredExactly /\ [Next]_vars
         => DeliveredExactly'
<1> SUFFICES ASSUME TypeInv, SendInv, HandoverInv, BatchInv, DispatchInv,
                    DeliveredExactly, [Next]_vars, NEW r \in Subs
             PROVE  Exact(r)'
  BY DEF DeliveredExactly, Exact
<1>a. TypeOK /\ Exact(r) /\ Len(log) \in Nat
  BY Zenon, Positions DEF TypeInv, DeliveredExactly, Exact
<1>b. ASSUME sent'[r] = sent[r], lastSent'[r] = lastSent[r], from'[r] = from[r]
      PROVE  Exact(r)'
  BY <1>a, <1>b, ExactFrame
<1> USE DEF storeVars, tailVars, catchVars, chanVars, endVars, logVars
<1>1. CASE Environment
  BY Zenon, <1>1, <1>b DEF Environment
<1>2. CASE Tailer
  <2>1. UNCHANGED <<log, from>>
    BY <1>2 DEF Tailer
  <2>2. ASSUME NEW s \in Subs, DispatchPut(s) PROVE Exact(r)'
    <3>1. Push(s, cursor + 1) /\ InSend(s) /\ tailPc = "put"
      BY <2>2 DEF DispatchPut
    <3>2. CASE r = s
      <4>1. /\ s \in snapshot \ isClosed
            /\ Matches(s, cursor + 1) /\ lastSent[s] < cursor + 1
            /\ from[s] <= lastSent[s]
        BY Zenon, <3>1 DEF HandoverInv, SendInv, NoSendOnClosed, Wanted
      <4>2. \A q \in from[s] + 1 .. cursor : Matches(s, q) => q \in Delivered(s)
        BY <4>1 DEF DispatchInv
      <4>3. PICK p \in Nat : p = cursor + 1
        BY <1>a DEF TypeOK
      <4>4. p - 1 = cursor
        BY <1>a, <4>3 DEF TypeOK
      <4> QED BY <1>a, <2>1, <3>1, <3>2, <4>1, <4>2, <4>3, <4>4, ExactPush
    <3>3. CASE r # s
      BY <1>a, <1>b, <2>1, <3>1, <3>3 DEF Push, TypeOK
    <3> QED BY <3>2, <3>3
  <2>3. (\A s \in Subs : ~ DispatchPut(s)) => UNCHANGED <<sent, lastSent>>
    BY <1>2 DEF Tailer, TailerWake, TailerQuery, TailerQueryFails, Dispatch,
         DispatchSkip, DispatchRLock, DispatchCheck, DispatchDrop,
         TailerAdvance, TailerExit
  <2> QED BY <1>b, <2>1, <2>2, <2>3
<1>3. CASE CallStoreClose
  BY Zenon, <1>3, <1>b DEF CallStoreClose
<1>4. CASE Closing
  BY Zenon, <1>4, <1>b DEF Closing
<1>5. ASSUME NEW s \in Subs, Consumer(s) PROVE Exact(r)'
  <2>1. CASE Subscribe(s)
    <3>1. PICK p \in 0 .. MaxLog :
            /\ from' = [from EXCEPT ![s] = p]
            /\ lastSent' = [lastSent EXCEPT ![s] = p]
      BY Zenon, <2>1 DEF Subscribe
    <3>2. UNCHANGED sent /\ catchPc[s] = "none" /\ p \in Nat
      BY <1>5, <2>1, <3>1, SubscriptionAssumption DEF Consumer, Subscribe
    <3>3. CASE r = s
      <4>1. sent[s] = << >>
        BY Zenon, <3>2 DEF HandoverInv
      <4>2. sent'[s] = << >> /\ DOMAIN sent'[s] = {}
        <5>1. sent'[s] = << >>
          BY Zenon, <3>2, <4>1
        <5> QED BY <5>1
      <4>3. from'[s] = p /\ lastSent'[s] = p
        BY <1>a, <3>1 DEF TypeOK
      <4>4. Delivered(s)' = {} /\ p + 1 .. p = {}
        BY <3>2, <4>2 DEF Delivered
      <4>5. InOrder(s)'
        BY Zenon, <4>2 DEF InOrder
      <4>6. OnlyWanted(s)' /\ NoGap(s)'
        BY Zenon, <4>3, <4>4 DEF OnlyWanted, NoGap
      <4> QED BY Zenon, <3>3, <4>5, <4>6 DEF Exact
    <3>4. CASE r # s
      BY <1>a, <1>b, <3>1, <3>2, <3>4 DEF TypeOK
    <3> QED BY <3>3, <3>4
  <2>2. CASE Receive(s) \/ ConsumerClose(s) \/ CancelContext(s)
    BY Zenon, <1>5, <1>b, <2>2 DEF Consumer, Receive, ConsumerClose, CancelContext
  <2> QED BY <1>5, <2>1, <2>2 DEF Consumer
<1>6. ASSUME NEW s \in Subs, Catchup(s) PROVE Exact(r)'
  <2>1. UNCHANGED <<log, from>>
    BY <1>6 DEF Catchup
  <2>2. CASE CatchupQuery(s)
    <3>1. lastSent[s] < catchTarget[s] /\ catchTarget[s] <= Len(log)
      <4>1. lastSent[s] < catchTarget[s]
        BY Zenon, <2>2 DEF CatchupQuery, HandoverInv
      <4> QED BY <1>a, <4>1, Positions
    <3>a. lastSent[s] \in Nat /\ catchTarget[s] \in Nat
      BY Zenon, <1>a, Positions
    <3>2. lastSent[s] + 1 \in Rows(lastSent[s], catchTarget[s])
      BY <3>1, <3>a, SubscriptionAssumption DEF Rows
    <3>3. Matches(s, lastSent[s] + 1)
      <4>1. lastSent[s] + 1 \in 1 .. Len(log)
        BY <1>a, <3>1, <3>a
      <4>2. log[lastSent[s] + 1] \in Kinds
        BY Zenon, <1>a, <4>1, ElementOfSeq DEF TypeOK
      <4> QED BY Zenon, <4>2 DEF Matches, Unfiltered
    <3>4. batch'[s] # {}
      BY <1>a, <2>2, <3>2, <3>3 DEF CatchupQuery, TypeOK
    <3>5. UNCHANGED <<sent, lastSent>>
      BY Zenon, <2>2, <3>4 DEF CatchupQuery
    <3> QED BY <1>b, <2>1, <3>5
  <2>3. CASE CatchupPut(s)
    <3>1. PICK p \in batch[s] : (\A q \in batch[s] : p <= q) /\ Push(s, p)
      BY <2>3 DEF CatchupPut
    <3>2. CASE r = s
      <4>1. /\ p > lastSent[s] /\ Matches(s, p) /\ p \in Nat
            /\ \A q \in lastSent[s] + 1 .. p : Matches(s, q) => q \in batch[s]
        <5>1. catchPc[s] = "put"
          BY Zenon, <2>3 DEF CatchupPut
        <5>2. p \in 1 .. latestPosition
          BY Zenon, <1>a, <3>1, Positions
        <5>3. p \in Nat
          BY <5>2
        <5> QED BY Zenon, <3>1, <5>1, <5>3 DEF BatchInv
      <4>2. from[s] <= lastSent[s] /\ from[s] \in Nat /\ lastSent[s] \in Nat
        BY <1>a DEF HandoverInv, TypeOK
      <4>3. ASSUME NEW q \in from[s] + 1 .. p - 1, Matches(s, q)
            PROVE  q \in Delivered(s)
        <5>1. CASE q \in from[s] + 1 .. lastSent[s]
          BY Zenon, <1>a, <3>2, <4>3, <5>1 DEF Exact, NoGap
        <5>2. CASE q \notin from[s] + 1 .. lastSent[s]
          <6>1. q \in lastSent[s] + 1 .. p /\ ~ (p <= q)
            BY <4>1, <4>2, <4>3, <5>2
          <6> QED BY Zenon, <3>1, <4>1, <4>3, <6>1
        <5> QED BY Zenon, <5>1, <5>2
      <4> QED BY Zenon, <1>a, <2>1, <3>1, <3>2, <4>1, <4>2, <4>3, ExactPush
    <3>3. CASE r # s
      BY <1>a, <1>b, <2>1, <3>1, <3>3 DEF Push, TypeOK
    <3> QED BY <3>2, <3>3
  <2>4. ~ CatchupQuery(s) /\ ~ CatchupPut(s) => UNCHANGED <<sent, lastSent>>
    BY Zenon, <1>6 DEF Catchup, CatchupTarget, Register, CatchupQueryFails,
         CatchupRLock, CatchupCheck, CatchupGiveUp, CatchupClose
  <2> QED BY <1>b, <2>1, <2>2, <2>3, <2>4
<1>7. ASSUME NEW s \in Subs, Close(s) PROVE Exact(r)'
  BY Zenon, <1>7, <1>b DEF Close
<1>8. CASE UNCHANGED vars
  BY Zenon, <1>8, <1>b DEF vars
<1> QED BY <1>1, <1>2, <1>3, <1>4, <1>5, <1>6, <1>7, <1>8 DEF Next

-----------------------------------------------------------------------------
LEMMA DispatchInit == Init => DispatchInv
  BY DEF Init, DispatchInv

LEMMA DispatchStep ==
  ASSUME Unfiltered
  PROVE  /\ TypeInv /\ SendInv /\ HandoverInv /\ DispatchInv
         /\ DeliveredExactly /\ [Next]_vars
         => DispatchInv'
<1> DEFINE Busy == {"each", "check", "put"}
<1> SUFFICES ASSUME TypeInv, SendInv, HandoverInv, DispatchInv,
                    DeliveredExactly, [Next]_vars
             PROVE  DispatchInv'
  OBVIOUS
<1>a. TypeOK /\ Len(log) \in Nat
  BY Zenon, Positions DEF TypeInv
<1>b. \A r \in Subs : Delivered(r) \subseteq Delivered(r)'
  BY <1>a, DeliveredGrows
<1>c. \A p \in 1 .. latestPosition : log'[p] = log[p]
  <2>1. 1 .. latestPosition \subseteq 1 .. Len(log)
    BY <1>a, Positions
  <2> QED BY Zenon, <1>a, <2>1, MatchesStable
<1>d. /\ cursor \in Nat /\ cursor <= latestPosition /\ latestPosition \in Nat
      /\ tailPc \in Busy => cursor + 1 <= latestPosition
      /\ from \in [Subs -> Nat]
  BY <1>a DEF TypeInv, CursorInv, TypeOK
\* Steps that leave the tailer's place and copy alone and register nobody.
<1>e. ASSUME UNCHANGED <<tailPc, cursor, snapshot>>, subs' \subseteq subs,
             \A r \in subs \cup snapshot : from'[r] = from[r],
             isClosed \subseteq isClosed'
      PROVE  DispatchInv'
  <2>1. tailPc' \notin Busy => snapshot' = {}
    BY Zenon, <1>e DEF DispatchInv
  <2>2. ASSUME tailPc' \in Busy, NEW r \in subs' \ (snapshot' \cup isClosed'),
               cursor' + 1 > from'[r], Matches(r, cursor + 1)'
        PROVE  cursor' + 1 \in Delivered(r)'
    <3>1. r \in Subs /\ Matches(r, cursor + 1)
      BY <1>a, <1>c, <1>d, <1>e, <2>2 DEF Matches, TypeOK
    <3> QED BY Zenon, <1>b, <1>e, <2>2, <3>1 DEF DispatchInv
  <2>3. ASSUME NEW r \in (subs' \cup snapshot') \ isClosed',
               NEW p \in from'[r] + 1 .. cursor', Matches(r, p)'
        PROVE  p \in Delivered(r)'
    <3>1. r \in Subs /\ p \in from[r] + 1 .. cursor /\ Matches(r, p)
      BY <1>a, <1>c, <1>d, <1>e, <2>3 DEF Matches, TypeOK
    <3> QED BY <1>b, <1>e, <2>3, <3>1 DEF DispatchInv
  <2> QED BY <2>1, <2>2, <2>3 DEF DispatchInv
<1> USE DEF storeVars, tailVars, catchVars, chanVars, endVars, logVars
<1>1. CASE Environment
  BY <1>1, <1>e DEF Environment
<1>2. CASE Tailer
  <2>1. UNCHANGED <<log, from, isClosed>>
    BY <1>2 DEF Tailer
  \* Steps within dispatch.
  <2>2. ASSUME tailPc \in Busy, tailPc' \in Busy, UNCHANGED cursor,
               subs' \subseteq subs, snapshot' \subseteq snapshot,
               \A r \in subs' \ (snapshot' \cup isClosed) : r \in snapshot =>
                 (cursor + 1 > from[r] /\ Matches(r, cursor + 1)
                    => cursor + 1 \in Delivered(r)')
        PROVE  DispatchInv'
    <3>1. ASSUME NEW r \in subs' \ (snapshot' \cup isClosed'),
                 cursor' + 1 > from'[r], Matches(r, cursor + 1)'
          PROVE  cursor' + 1 \in Delivered(r)'
      <4>1. r \in Subs /\ Matches(r, cursor + 1) /\ cursor + 1 > from[r]
        BY Zenon, <1>a, <2>1, <2>2, <3>1 DEF Matches, TypeOK
      <4>2. CASE r \in snapshot
        BY <2>1, <2>2, <3>1, <4>1, <4>2
      <4>3. CASE r \notin snapshot
        BY <1>b, <2>1, <2>2, <3>1, <4>1, <4>3 DEF DispatchInv
      <4> QED BY <4>2, <4>3
    <3>2. ASSUME NEW r \in (subs' \cup snapshot') \ isClosed',
                 NEW p \in from'[r] + 1 .. cursor', Matches(r, p)'
          PROVE  p \in Delivered(r)'
      <4>1. r \in Subs /\ p \in from[r] + 1 .. cursor /\ Matches(r, p)
        BY <1>a, <2>1, <2>2, <3>2 DEF Matches, TypeOK
      <4> QED BY <1>b, <2>1, <2>2, <3>2, <4>1 DEF DispatchInv
    <3> QED BY <2>2, <3>1, <3>2 DEF DispatchInv
  <2>3. CASE TailerWake \/ TailerQuery \/ TailerQueryFails \/ TailerExit
    <3>1. /\ UNCHANGED <<subs, cursor, snapshot, sent>>
          /\ tailPc \notin Busy /\ tailPc' \notin Busy
      BY <2>3 DEF TailerWake, TailerQuery, TailerQueryFails, TailerExit
    <3>2. \A r : Delivered(r)' = Delivered(r) /\ \A p : Matches(r, p)' <=> Matches(r, p)
      BY Zenon, <2>1, <3>1 DEF Delivered, Matches
    <3>3. snapshot' = {}
      BY Zenon, <3>1 DEF DispatchInv
    <3>4. ASSUME NEW r \in (subs' \cup snapshot') \ isClosed',
                 NEW p \in from'[r] + 1 .. cursor', Matches(r, p)'
          PROVE  p \in Delivered(r)'
      BY Zenon, <2>1, <3>1, <3>2, <3>4 DEF DispatchInv
    <3> QED BY Zenon, <3>1, <3>3, <3>4 DEF DispatchInv
  <2>4. CASE Dispatch
    <3>1. /\ UNCHANGED <<subs, cursor, sent>> /\ snapshot' = subs
          /\ tailPc \notin Busy /\ tailPc' = "each"
      BY <2>4 DEF Dispatch
    <3> QED BY <2>1, <3>1 DEF DispatchInv, Delivered, Matches
  <2>5. ASSUME NEW s \in Subs, DispatchSkip(s) PROVE DispatchInv'
    <3>1. /\ UNCHANGED <<tailPc, subs, cursor, sent>> /\ tailPc = "each"
          /\ snapshot' = snapshot \ {s} /\ ~ Wanted(s)
      BY <2>5 DEF DispatchSkip
    <3>2. cursor + 1 > from[s] /\ Matches(s, cursor + 1)
            => cursor + 1 \in Delivered(s)
      <4>1. NoGap(s) /\ lastSent[s] \in Nat /\ from[s] \in Nat
        BY <1>a DEF DeliveredExactly, TypeOK
      <4> QED BY <1>d, <3>1, <4>1 DEF Wanted, NoGap
    <3> QED BY <1>b, <2>2, <3>1, <3>2
  <2>6. ASSUME NEW s \in Subs, DispatchRLock(s) PROVE DispatchInv'
    BY <2>2, <2>6 DEF DispatchRLock
  <2>7. ASSUME NEW s \in Subs, DispatchCheck(s) PROVE DispatchInv'
    <3>1. CASE s \in isClosed
      <4>1. /\ UNCHANGED <<subs, cursor>> /\ tailPc = "check" /\ tailPc' = "each"
            /\ snapshot' = snapshot \ {s}
        BY <2>7, <3>1 DEF DispatchCheck, DispatchNext
      <4> QED BY <2>2, <3>1, <4>1
    <3>2. CASE s \notin isClosed
      BY <2>2, <2>7, <3>2 DEF DispatchCheck
    <3> QED BY <3>1, <3>2
  <2>8. ASSUME NEW s \in Subs, DispatchPut(s) PROVE DispatchInv'
    <3>1. /\ UNCHANGED <<subs, cursor>> /\ tailPc = "put" /\ tailPc' = "each"
          /\ snapshot' = snapshot \ {s} /\ Push(s, cursor + 1)
      BY <2>8 DEF DispatchPut, DispatchNext
    <3>2. PICK p \in Nat : p = cursor + 1
      BY <1>d
    <3>3. p \in Delivered(s)'
      BY <1>a, <3>1, <3>2, PushDelivers
    <3> QED BY <2>2, <3>1, <3>2, <3>3
  <2>9. ASSUME NEW s \in Subs, DispatchDrop(s) PROVE DispatchInv'
    <3>1. /\ UNCHANGED cursor /\ tailPc = "put" /\ tailPc' = "each"
          /\ snapshot' = snapshot \ {s} /\ subs' = subs \ {s}
      BY <2>9 DEF DispatchDrop, DispatchNext
    <3> QED BY <2>2, <3>1
  <2>10. CASE TailerAdvance
    <3>1. /\ UNCHANGED <<subs, snapshot, sent>> /\ snapshot = {}
          /\ tailPc = "each" /\ tailPc' \notin Busy /\ cursor' = cursor + 1
      BY <2>10 DEF TailerAdvance
    <3>2. ASSUME NEW r \in subs \ isClosed,
                 NEW p \in from[r] + 1 .. cursor + 1, Matches(r, p)
          PROVE  p \in Delivered(r)
      <4>1. r \in Subs /\ from[r] \in Nat
        BY <1>a DEF TypeOK
      <4>2. CASE p = cursor + 1
        BY <1>d, <3>1, <3>2, <4>1, <4>2 DEF DispatchInv
      <4>3. CASE p # cursor + 1
        BY <1>d, <3>1, <3>2, <4>1, <4>3 DEF DispatchInv
      <4> QED BY <4>2, <4>3
    <3> QED BY <2>1, <3>1, <3>2 DEF DispatchInv, Delivered, Matches
  <2> QED BY <1>2, <2>3, <2>4, <2>5, <2>6, <2>7, <2>8, <2>9, <2>10 DEF Tailer
<1>3. CASE CallStoreClose
  BY <1>3, <1>e DEF CallStoreClose, StoreClose
<1>4. CASE Closing
  <2>1. subs' \subseteq subs
    BY <1>4 DEF Closing, StoreCloseTake, StoreCloseBegin, StoreCloseNext,
         StoreCloseReturn
  <2> QED BY <1>4, <1>e, <2>1 DEF Closing
<1>5. ASSUME NEW s \in Subs, Consumer(s) PROVE DispatchInv'
  <2>1. \A r \in subs \cup snapshot : from'[r] = from[r]
    <3>1. CASE Subscribe(s)
      <4>1. s \notin subs \cup snapshot
        BY Zenon, <3>1 DEF Subscribe, HandoverInv
      <4> QED BY <1>a, <3>1, <4>1 DEF Subscribe, TypeOK
    <3> QED BY <1>5, <3>1 DEF Consumer, Receive, ConsumerClose, CancelContext
  <2> QED BY <1>5, <1>e, <2>1 DEF Consumer
<1>6. ASSUME NEW s \in Subs, Catchup(s) PROVE DispatchInv'
  <2>1. UNCHANGED <<log, tailPc, cursor, snapshot, from, isClosed>>
    BY <1>6 DEF Catchup
  <2>2. CASE subs' = subs
    BY <1>e, <2>1, <2>2
  <2>3. CASE Register(s) /\ subs' # subs
    <3>1. /\ subs' = subs \cup {s} /\ latestPosition <= lastSent[s]
          /\ UNCHANGED sent
      BY <2>3 DEF Register
    <3>2. \A p \in from[s] + 1 .. latestPosition :
            Matches(s, p) => p \in Delivered(s)
      BY <1>a, <1>d, <3>1 DEF DeliveredExactly, NoGap, TypeOK
    <3>3. from[s] \in Nat
      BY <1>a DEF TypeOK
    <3>4. ASSUME tailPc \in Busy, NEW r \in subs' \ (snapshot \cup isClosed),
                 cursor + 1 > from[r], Matches(r, cursor + 1)
          PROVE  cursor + 1 \in Delivered(r)
      <4>1. CASE r = s
        BY <1>d, <3>2, <3>3, <3>4, <4>1
      <4>2. CASE r # s
        BY Zenon, <3>1, <3>4, <4>2 DEF DispatchInv
      <4> QED BY <4>1, <4>2
    <3>5. ASSUME NEW r \in (subs' \cup snapshot) \ isClosed,
                 NEW p \in from[r] + 1 .. cursor, Matches(r, p)
          PROVE  p \in Delivered(r)
      <4>1. CASE r = s
        BY <1>d, <3>2, <3>3, <3>5, <4>1
      <4>2. CASE r # s
        BY <3>1, <3>5, <4>2 DEF DispatchInv
      <4> QED BY <4>1, <4>2
    <3> QED BY <2>1, <3>1, <3>4, <3>5 DEF DispatchInv, Delivered, Matches
  <2>4. ~ Register(s) => subs' = subs
    BY Zenon, <1>6 DEF Catchup, CatchupTarget, CatchupQuery, CatchupQueryFails,
         CatchupRLock, CatchupCheck, CatchupPut, CatchupGiveUp, CatchupClose
  <2> QED BY <2>2, <2>3, <2>4
<1>7. ASSUME NEW s \in Subs, Close(s) PROVE DispatchInv'
  <2>1. subs' \subseteq subs /\ isClosed \subseteq isClosed'
    BY Zenon, <1>7 DEF Close, CloseUnregister, CloseSignal, CloseLock, CloseChannel
  <2> QED BY <1>7, <1>e, <2>1 DEF Close
<1>8. CASE UNCHANGED vars
  BY <1>8, <1>e DEF vars
<1> QED BY <1>1, <1>2, <1>3, <1>4, <1>5, <1>6, <1>7, <1>8 DEF Next

-----------------------------------------------------------------------------
DeliveryInv ==
  /\ TypeInv /\ SendInv /\ HandoverInv /\ BatchInv /\ DispatchInv
  /\ DeliveredExactly

LEMMA DeliveryInvariant ==
  ASSUME Unfiltered
  PROVE  Spec => []DeliveryInv
<1>1. Init => DeliveryInv
  BY TypeInit, SendInit, HandoverInit, BatchInit, DispatchInit, ExactInit
  DEF DeliveryInv
<1>2. DeliveryInv /\ [Next]_vars => DeliveryInv'
  <2>1. TypeInv => TypeOK
    BY DEF TypeInv
  <2> QED BY <2>1, TypeStep, SendStep, HandoverStep, BatchStep, DispatchStep,
        ExactStep DEF DeliveryInv
<1> QED BY <1>1, <1>2, PTL DEF Spec

\* Unfiltered subscribers are sent the rows after their start position in log
\* order, none twice and none left out, however catch-up, live delivery,
\* eviction and Close interleave.
THEOREM DeliveryCorrect ==
  ASSUME Unfiltered
  PROVE  Spec => []DeliveredExactly
<1>1. DeliveryInv => DeliveredExactly
  BY DEF DeliveryInv
<1> QED BY <1>1, DeliveryInvariant, PTL

\* An unfiltered subscriber that is registered and not closed has been sent
\* every row the tailer has gone past.
THEOREM NothingMissed ==
  ASSUME Unfiltered
  PROVE  Spec => []NoEventMissed
<1>1. DeliveryInv => NoEventMissed
  BY DEF DeliveryInv, DispatchInv, NoEventMissed
<1> QED BY <1>1, DeliveryInvariant, PTL
=============================================================================
