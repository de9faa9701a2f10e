-------------------------- MODULE EventStoreProofs --------------------------
(***************************************************************************)
(* Proofs about the append path, for any number of writers, entities,      *)
(* values and retries and a log of any length, and about the two ways of   *)
(* the log to a client: the streaming calls of the API and the entity      *)
(* store of the web application.                                           *)
(***************************************************************************)
EXTENDS EventStore, ApiStream, WebStore, SequenceTheorems, TLAPS

USE DEF PCs

\* Applying an event to a map gives a map (Cache.Apply builds the next
\* immutable map from the previous one).
LEMMA ApplyEventType ==
  ASSUME NEW m \in Maps, NEW e \in Events
  PROVE  ApplyEvent(m, e) \in Maps
  BY DEF ApplyEvent, Maps, Events, States

LEMMA EmptyMapType == EmptyMap \in Maps
  BY DEF EmptyMap, Maps

\* The map an Apply starts from is a map.
LEMMA BaseType ==
  ASSUME CacheTypeOK
  PROVE  Base \in Maps
  BY DEF CacheTypeOK, Base

LEMMA NoEvents == << >> \in Seq(Events) /\ Len(<< >>) = 0
  BY EmptySeq

\* Every request is a sequence of one or two events.
LEMMA RequestsType ==
  ASSUME NEW w \in Writers, NEW es \in Requests(w)
  PROVE  es \in Seq(Events) /\ Len(es) > 0
  <1>1. PICK n \in {1, 2} : es \in [1 .. n -> Events]
    BY DEF Requests
  <1>2. es \in Seq(Events)
    BY <1>1, SeqDef
  <1>3. Len(es) = n
    BY <1>1, <1>2, LenProperties
  <1> QED BY <1>1, <1>2, <1>3

-----------------------------------------------------------------------------
\* Type correctness of the append path: in particular the cursor of the cache
\* is the length of the log and the announced position never exceeds it.
THEOREM TypeCorrect == Spec => []TypeOK
  <1>1. Init => TypeOK
    <2> SUFFICES ASSUME Init PROVE TypeOK
      OBVIOUS
    <2> USE NoEvents, StoreAssumption DEF Init
    <2>1. CacheTypeOK /\ folded \in Maps /\ result \in Maps
      BY EmptyMapType DEF CacheInit, CacheTypeOK
    <2>2. /\ log \in Seq(Events)
          /\ cursor = Len(log)
          /\ latestPosition \in 0 .. Len(log)
          /\ position \in [Writers -> 0 .. Len(log)]
      OBVIOUS
    <2>3. evs \in [Writers -> Seq(Events)]
      OBVIOUS
    <2>4. /\ attempt \in [Writers -> 0 .. MaxAttempts]
          /\ applied \in [Writers -> Nat]
      OBVIOUS
    <2>5. lock \subseteq Writers /\ txFailed \in BOOLEAN /\ overlapped \in BOOLEAN
      BY Zenon
    <2>6. /\ pc \in [Writers -> PCs]
          /\ err \in [Writers -> {"nil", "busy", "other"}]
      OBVIOUS
    <2> QED BY <2>1, <2>2, <2>3, <2>4, <2>5, <2>6 DEF TypeOK
  <1>2. TypeOK /\ [Next]_vars => TypeOK'
    <2> SUFFICES ASSUME TypeOK, [Next]_vars PROVE TypeOK'
      OBVIOUS
    <2> USE StoreAssumption
    <2>a. ASSUME NEW w \in Writers, NEW at \in PCs, pc' = [pc EXCEPT ![w] = at]
          PROVE  pc' \in [Writers -> PCs]
      BY Zenon, <2>a DEF TypeOK
    <2>b. ASSUME NEW w \in Writers, NEW e \in {"nil", "busy", "other"},
                 err' = [err EXCEPT ![w] = e]
          PROVE  err' \in [Writers -> {"nil", "busy", "other"}]
      BY Zenon, <2>b DEF TypeOK
    <2>c. ASSUME NEW w \in Writers, NEW es \in Seq(Events), evs' = [evs EXCEPT ![w] = es]
          PROVE  evs' \in [Writers -> Seq(Events)]
      BY Zenon, <2>c DEF TypeOK
    <2>d. ASSUME NEW w \in Writers, NEW n \in Nat, applied' = [applied EXCEPT ![w] = n]
          PROVE  applied' \in [Writers -> Nat]
      BY Zenon, <2>d DEF TypeOK
    <2>e. ASSUME NEW w \in Writers, NEW n \in 0 .. MaxAttempts,
                 attempt' = [attempt EXCEPT ![w] = n]
          PROVE  attempt' \in [Writers -> 0 .. MaxAttempts]
      BY Zenon, <2>e DEF TypeOK
    <2>f. 0 \in 0 .. MaxAttempts /\ 1 \in 0 .. MaxAttempts
      OBVIOUS
    <2>1. ASSUME NEW w \in Writers, Call(w) PROVE TypeOK'
      <3>1. PICK es \in Requests(w) : evs' = [evs EXCEPT ![w] = es]
        BY Zenon, <2>1 DEF Call
      <3>2. evs' \in [Writers -> Seq(Events)]
        BY Zenon, <2>c, <3>1, RequestsType
      <3>3. pc' \in [Writers -> PCs] /\ attempt' \in [Writers -> 0 .. MaxAttempts]
        BY Zenon, <2>1, <2>a, <2>e, <2>f DEF Call
      <3>4. overlapped' \in BOOLEAN
        BY Zenon, <2>1 DEF Call
      <3> QED
        BY Zenon, <2>1, <3>2, <3>3, <3>4 DEF Call, TypeOK, CacheTypeOK, cacheVars, storeVars
    <2>2. ASSUME NEW w \in Writers, Insert(w) PROVE TypeOK'
      <3>1. pc' \in [Writers -> PCs]
        BY Zenon, <2>2, <2>a DEF Insert
      <3>2. lock' \subseteq Writers
        BY Zenon, <2>2 DEF Insert
      <3> QED
        BY Zenon, <2>2, <3>1, <3>2 DEF Insert, TypeOK, CacheTypeOK, cacheVars, storeVars
    <2>3. ASSUME NEW w \in Writers, InsertBusy(w) PROVE TypeOK'
      <3>1. pc' \in [Writers -> PCs] /\ err' \in [Writers -> {"nil", "busy", "other"}]
        BY Zenon, <2>3, <2>a, <2>b DEF InsertBusy
      <3> QED
        BY Zenon, <2>3, <3>1 DEF InsertBusy, TypeOK, CacheTypeOK, cacheVars, storeVars
    <2>4. ASSUME NEW w \in Writers, ApplyNext(w) PROVE TypeOK'
      <3> DEFINE e == evs[w][applied[w] + 1]
      <3>1. e \in Events /\ applied[w] + 1 \in Nat
        <4>1. evs[w] \in Seq(Events) /\ applied[w] \in Nat /\ applied[w] < Len(evs[w])
          BY Zenon, <2>4 DEF ApplyNext, TypeOK
        <4> QED BY <4>1
      <3>2. pending' \in Maps /\ result' \in Maps
        <4>1. pending' = ApplyEvent(Base, e) /\ result' = ApplyEvent(result, e)
          BY Zenon, <2>4 DEF ApplyNext, Apply
        <4>2. Base \in Maps /\ result \in Maps
          BY Zenon, BaseType DEF TypeOK
        <4> QED BY Zenon, <3>1, <4>1, <4>2, ApplyEventType
      <3>3. applied' \in [Writers -> Nat]
        BY Zenon, <2>4, <2>d, <3>1 DEF ApplyNext
      <3> QED
        BY Zenon, <2>4, <3>2, <3>3 DEF ApplyNext, Apply, TypeOK, CacheTypeOK, storeVars
    <2>5. ASSUME NEW w \in Writers, Fail(w) PROVE TypeOK'
      <3>1. pc' \in [Writers -> PCs] /\ err' \in [Writers -> {"nil", "busy", "other"}]
        BY Zenon, <2>5, <2>a, <2>b DEF Fail
      <3> QED
        BY Zenon, <2>5, <3>1 DEF Fail, TypeOK, CacheTypeOK, cacheVars, storeVars
    <2>6. ASSUME NEW w \in Writers, Cancelled(w) PROVE TypeOK'
      <3>1. pc' \in [Writers -> PCs] /\ err' \in [Writers -> {"nil", "busy", "other"}]
        BY Zenon, <2>6, <2>a, <2>b DEF Cancelled
      <3>2. lock' \subseteq Writers
        BY Zenon, <2>6 DEF Cancelled, TypeOK
      <3> QED
        BY Zenon, <2>6, <3>1, <3>2 DEF Cancelled, TypeOK, CacheTypeOK, cacheVars, storeVars
    <2>7. ASSUME NEW w \in Writers, Commit(w) PROVE TypeOK'
      <3>0. /\ log \in Seq(Events) /\ evs[w] \in Seq(Events)
            /\ log' = log \o evs[w]
        BY Zenon, <2>7 DEF Commit, TypeOK
      <3>1. log' \in Seq(Events) /\ Len(log') >= Len(log) /\ Len(log) \in Nat /\ Len(log') \in Nat
        BY <3>0
      <3>2. 0 .. Len(log) \subseteq 0 .. Len(log') /\ Len(log') \in 0 .. Len(log')
        BY <3>1
      <3>3. position' \in [Writers -> 0 .. Len(log')] /\ latestPosition' \in 0 .. Len(log')
        <4>1. \A u \in Writers : position[u] \in 0 .. Len(log')
          BY Zenon, <3>2 DEF TypeOK
        <4>2. position' = [position EXCEPT ![w] = Len(log')]
                /\ latestPosition' = latestPosition
          BY Zenon, <2>7 DEF Commit
        <4>3. position \in [Writers -> 0 .. Len(log')]
          BY <4>1 DEF TypeOK
        <4> QED BY Zenon, <3>2, <4>2, <4>3 DEF TypeOK
      <3>4. pc' \in [Writers -> PCs] /\ lock' \subseteq Writers
        BY Zenon, <2>7, <2>a DEF Commit, TypeOK
      <3> QED
        BY Zenon, <2>7, <3>1, <3>3, <3>4 DEF Commit, TypeOK, CacheTypeOK, cacheVars
    <2>8. ASSUME NEW w \in Writers, PromoteCache(w) PROVE TypeOK'
      <3>1. pc' \in [Writers -> PCs]
        BY Zenon, <2>8, <2>a DEF PromoteCache
      <3>2. CacheTypeOK'
        BY Zenon, <2>8, BaseType DEF PromoteCache, Promote, TypeOK, CacheTypeOK
      <3> QED
        BY Zenon, <2>8, <3>1, <3>2 DEF PromoteCache, TypeOK, storeVars, history
    <2>9. ASSUME NEW w \in Writers, Publish(w) PROVE TypeOK'
      <3>1. pc' \in [Writers -> PCs] /\ attempt' \in [Writers -> 0 .. MaxAttempts]
        BY Zenon, <2>9, <2>a, <2>e, <2>f DEF Publish
      <3>2. evs' \in [Writers -> Seq(Events)] /\ applied' \in [Writers -> Nat]
        BY Zenon, <2>9, <2>c, <2>d, NoEvents, 0 \in Nat DEF Publish
      <3>3. latestPosition' \in 0 .. Len(log')
        BY Zenon, <2>9 DEF Publish, Published, TypeOK
      <3>4. position' \in [Writers -> 0 .. Len(log')]
        <4>1. 0 \in 0 .. Len(log)
          BY DEF TypeOK
        <4> QED BY Zenon, <2>9, <4>1 DEF Publish, TypeOK
      <3> QED
        BY Zenon, <2>9, <3>1, <3>2, <3>3, <3>4
           DEF Publish, TypeOK, CacheTypeOK, cacheVars, history
    <2>10. ASSUME NEW w \in Writers, DiscardCache(w) PROVE TypeOK'
      <3>1. pc' \in [Writers -> PCs]
        BY Zenon, <2>10, <2>a DEF DiscardCache
      <3> QED
        BY Zenon, <2>10, <3>1 DEF DiscardCache, Discard, TypeOK, CacheTypeOK, storeVars, history
    <2>11. ASSUME NEW w \in Writers, Rollback(w) PROVE TypeOK'
      <3>1. evs' \in [Writers -> Seq(Events)] /\ pc' \in [Writers -> PCs]
        BY Zenon, <2>11, <2>a, <2>c, NoEvents DEF Rollback, TypeOK
      <3>2. attempt' \in [Writers -> 0 .. MaxAttempts]
        <4>1. CASE attempt' = [attempt EXCEPT ![w] = 0]
          BY Zenon, <2>e, <2>f, <4>1
        <4>2. CASE attempt' = [attempt EXCEPT ![w] = @ + 1] /\ attempt[w] < MaxAttempts
          <5>1. attempt[w] + 1 \in 0 .. MaxAttempts
            BY <4>2 DEF TypeOK
          <5> QED BY Zenon, <2>e, <4>2, <5>1
        <4> QED BY Zenon, <2>11, <4>1, <4>2 DEF Rollback
      <3>3. /\ applied' \in [Writers -> Nat]
            /\ err' \in [Writers -> {"nil", "busy", "other"}]
            /\ lock' \subseteq Writers
        BY Zenon, <2>11, <2>b, <2>d, 0 \in Nat DEF Rollback, TypeOK
      <3>4. UNCHANGED <<cacheVars, storeVars, position, history>>
        BY Zenon, <2>11 DEF Rollback
      <3> QED
        BY Zenon, <3>1, <3>2, <3>3, <3>4
           DEF TypeOK, CacheTypeOK, cacheVars, storeVars, history
    <2>12. CASE UNCHANGED vars
      BY <2>12 DEF vars, TypeOK, CacheTypeOK
    <2> QED
      BY <2>1, <2>2, <2>3, <2>4, <2>5, <2>6, <2>7, <2>8, <2>9, <2>10, <2>11, <2>12
         DEF Next, Step
  <1> QED BY <1>1, <1>2, PTL DEF Spec

-----------------------------------------------------------------------------
\* SQLite's write lock serialises the transactions between their first INSERT
\* and their end.
THEOREM LockCorrect == Spec => []LockInv
  <1>1. Init => LockInv
    BY DEF Init, LockInv
  <1>2. TypeOK /\ LockInv /\ [Next]_vars => LockInv'
    <2> SUFFICES ASSUME TypeOK, LockInv, [Next]_vars PROVE LockInv'
      OBVIOUS
    <2> USE DEF TypeOK, LockInv
    <2>1. ASSUME NEW w \in Writers, Call(w) PROVE LockInv'
      BY <2>1 DEF Call
    <2>2. ASSUME NEW w \in Writers, Insert(w) PROVE LockInv'
      BY <2>2 DEF Insert
    <2>3. ASSUME NEW w \in Writers, InsertBusy(w) \/ Fail(w) PROVE LockInv'
      BY Zenon, <2>3 DEF InsertBusy, Fail
    <2>4. ASSUME NEW w \in Writers, ApplyNext(w) PROVE LockInv'
      BY <2>4 DEF ApplyNext
    <2>5. ASSUME NEW w \in Writers, Cancelled(w) PROVE LockInv'
      BY <2>5 DEF Cancelled
    <2>6. ASSUME NEW w \in Writers, Commit(w) PROVE LockInv'
      BY <2>6 DEF Commit
    <2>7. ASSUME NEW w \in Writers, PromoteCache(w) \/ Publish(w) PROVE LockInv'
      BY Zenon, <2>7 DEF PromoteCache, Publish
    <2>8. ASSUME NEW w \in Writers, DiscardCache(w) PROVE LockInv'
      BY <2>8 DEF DiscardCache
    <2>9. ASSUME NEW w \in Writers, Rollback(w) PROVE LockInv'
      <3>1. pc'[w] \in {"begin", "idle"} /\ lock' = lock \ {w}
        BY Zenon, <2>9 DEF Rollback
      <3>2. \A u \in Writers : u # w => pc'[u] = pc[u]
        BY Zenon, <2>9 DEF Rollback
      <3> QED BY Zenon, <3>1, <3>2
    <2>10. CASE UNCHANGED vars
      BY <2>10 DEF vars
    <2> QED
      BY <2>1, <2>2, <2>3, <2>4, <2>5, <2>6, <2>7, <2>8, <2>9, <2>10 DEF Next, Step
  <1> QED BY <1>1, <1>2, TypeCorrect, PTL DEF Spec

-----------------------------------------------------------------------------
\* Any number of concurrent appends leave the state cache in lockstep with the
\* log, provided none of them fails.
THEOREM FailureFreeCorrect == Spec => []FailureFreeLockstep
  <1>1. Init => FailureFreeInv
    BY DEF Init, CacheInit, FailureFreeInv, Intended, Base
  <1>2. TypeOK /\ LockInv /\ FailureFreeInv /\ [Next]_vars => FailureFreeInv'
    <2> SUFFICES ASSUME TypeOK, LockInv, FailureFreeInv, [Next]_vars, ~txFailed'
                 PROVE  /\ \A w \in Writers : pc'[w] \notin {"discard", "rollback"}
                        /\ Base' = Intended'
                        /\ pending' # Nil =>
                             \E w \in Writers : pc'[w] \in {"apply", "promote"}
      BY DEF FailureFreeInv
    <2> DEFINE Goal == /\ \A w \in Writers : pc'[w] \notin {"discard", "rollback"}
                       /\ Base' = Intended'
                       /\ pending' # Nil =>
                            \E w \in Writers : pc'[w] \in {"apply", "promote"}
    <2> USE DEF TypeOK, FailureFreeInv, LockInv
    <2>1. ASSUME NEW w \in Writers, Call(w) PROVE Goal
      BY <2>1 DEF Call, Base, Intended, cacheVars, history
    <2>2. ASSUME NEW w \in Writers, Insert(w) PROVE Goal
      BY <2>2 DEF Insert, Base, Intended, cacheVars
    <2>3. ASSUME NEW w \in Writers, InsertBusy(w) \/ Fail(w) \/ Cancelled(w) PROVE Goal
      BY <2>3 DEF InsertBusy, Fail, Cancelled
    <2>4. ASSUME NEW w \in Writers, ApplyNext(w) PROVE Goal
      <3> DEFINE e == evs[w][applied[w] + 1]
      <3>1. e \in Events
        BY <2>4 DEF ApplyNext
      <3>2. pending' = ApplyEvent(Base, e) /\ result' = ApplyEvent(result, e)
        BY <2>4 DEF ApplyNext, Apply
      <3>3. Base = result
        BY <2>4 DEF ApplyNext, Intended
      <3>4. pending' # Nil
        BY <3>1, <3>2, BaseType, ApplyEventType, CacheAssumption
      <3> QED BY <2>4, <3>2, <3>3, <3>4 DEF ApplyNext, Apply, Base, Intended
    <2>5. ASSUME NEW w \in Writers, Commit(w) PROVE Goal
      <3>1. Base = result
        BY <2>5 DEF Commit, Intended
      <3>2. \A u \in Writers : pc'[u] # "apply"
        BY <2>5 DEF Commit
      <3> QED BY <2>5, <3>1, <3>2 DEF Commit, Base, Intended, cacheVars
    <2>6. ASSUME NEW w \in Writers, PromoteCache(w) PROVE Goal
      BY <2>6 DEF PromoteCache, Promote, Base, Intended, history
    <2>7. ASSUME NEW w \in Writers, Publish(w) PROVE Goal
      BY <2>7 DEF Publish, Base, Intended, cacheVars, history
    <2>8. ASSUME NEW w \in Writers, DiscardCache(w) \/ Rollback(w) PROVE Goal
      BY <2>8 DEF DiscardCache, Rollback, history
    <2>9. CASE UNCHANGED vars
      BY <2>9 DEF vars, Base, Intended
    <2> QED
      BY <2>1, <2>2, <2>3, <2>4, <2>5, <2>6, <2>7, <2>8, <2>9 DEF Next, Step
  <1>3. FailureFreeInv => FailureFreeLockstep
    BY DEF FailureFreeInv, FailureFreeLockstep, CacheLockstep, Quiescent, Base, Intended
  <1> QED BY <1>1, <1>2, <1>3, TypeCorrect, LockCorrect, PTL DEF Spec

-----------------------------------------------------------------------------
\* Appends that run one after another keep readers of the state cache exact
\* through every failed, retried or cancelled transaction.
THEOREM SerialCorrect == Spec => []SerialLockstep
  <1>1. Init => SerialInv
    BY DEF Init, CacheInit, SerialInv
  <1>2. TypeOK /\ SerialInv /\ [Next]_vars => SerialInv'
    <2> SUFFICES ASSUME TypeOK, SerialInv, [Next]_vars, ~overlapped'
                 PROVE  SerialInv'
      BY DEF SerialInv
    <2> USE DEF TypeOK, SerialInv, Base
    <2>1. ASSUME NEW w \in Writers, Call(w) PROVE SerialInv'
      BY ZenonT(40), <2>1 DEF Call, cacheVars
    <2>2. ASSUME NEW w \in Writers, Step(w) PROVE SerialInv'
      <3>0. ~overlapped
        BY <2>2 DEF Step, Insert, InsertBusy, ApplyNext, Fail, Cancelled, Commit,
                    PromoteCache, Publish, DiscardCache, Rollback, history
      <3>1. pc[w] # "idle"
        BY <2>2 DEF Step, Insert, InsertBusy, ApplyNext, Fail, Cancelled, Commit,
                    PromoteCache, Publish, DiscardCache, Rollback
      <3>2. \A u \in Writers \ {w} : pc[u] = "idle"
        BY <3>0, <3>1
      <3>a. /\ pending # Nil => pc[w] \in {"apply", "discard", "promote"}
            /\ pc[w] # "promote" => current = folded
            /\ pc[w] = "apply" => Base = result
            /\ pc[w] = "promote" => Base = folded
        BY Zenon, <3>0, <3>2
      <3>b. ASSUME NEW at, pc' = [pc EXCEPT ![w] = at]
            PROVE  pc'[w] = at /\ \A u \in Writers \ {w} : pc'[u] = "idle"
        BY Zenon, <3>2, <3>b
      <3>c. ASSUME \A u \in Writers \ {w} : pc'[u] = "idle",
                   pending' # Nil => pc'[w] \in {"apply", "discard", "promote"},
                   pc'[w] # "promote" => current' = folded',
                   pc'[w] = "apply" => Base' = result',
                   pc'[w] = "promote" => Base' = folded'
            PROVE  SerialInv'
        BY Zenon, <3>c
      <3> HIDE DEF TypeOK, SerialInv, Base
      <3>3. CASE Insert(w)
        <4>1. /\ pc[w] = "begin" /\ pc' = [pc EXCEPT ![w] = "apply"] /\ result' = folded
              /\ current' = current /\ pending' = pending /\ folded' = folded
          BY Zenon, <3>3 DEF Insert, cacheVars
        <4>2. pending = Nil /\ current = folded
          BY Zenon, <3>a, <4>1
        <4>3. Base' = result' /\ pc'[w] = "apply"
          BY Zenon, <3>b, <4>1, <4>2 DEF Base
        <4> QED BY Zenon, <3>b, <3>c, <4>1, <4>2, <4>3
      <3>4. CASE InsertBusy(w) \/ Fail(w) \/ Cancelled(w)
        <4>1. /\ pc[w] \in {"begin", "apply"}
              /\ pc' = [pc EXCEPT ![w] = "discard"]
              /\ current' = current /\ pending' = pending
              /\ folded' = folded /\ overlapped' = overlapped
          BY Zenon, <3>4 DEF InsertBusy, Fail, Cancelled, cacheVars
        <4>2. current = folded
          BY Zenon, <3>a, <4>1
        <4> QED BY Zenon, <3>b, <3>c, <4>1, <4>2
      <3>5. CASE ApplyNext(w)
        <4> DEFINE e == evs[w][applied[w] + 1]
        <4>1. e \in Events
          BY <3>5 DEF ApplyNext, TypeOK
        <4>2. pending' = ApplyEvent(Base, e) /\ result' = ApplyEvent(result, e)
          BY <3>5 DEF ApplyNext, Apply
        <4>3. pending' # Nil
          <5>1. Base \in Maps
            BY Zenon, BaseType DEF TypeOK
          <5>2. pending' \in Maps
            BY Zenon, <4>1, <4>2, <5>1, ApplyEventType
          <5> QED BY Zenon, <5>2, CacheAssumption
        <4>4. /\ pc' = pc /\ current' = current /\ folded' = folded
              /\ overlapped' = overlapped
          BY Zenon, <3>5 DEF ApplyNext, Apply
        <4>5. pc[w] = "apply" /\ Base = result /\ current = folded
          BY Zenon, <3>a, <3>5 DEF ApplyNext
        <4>6. Base' = result'
          BY Zenon, <4>2, <4>3, <4>5 DEF Base
        <4> QED BY Zenon, <3>2, <3>c, <4>4, <4>5, <4>6
      <3>6. CASE Commit(w)
        <4>1. /\ pc[w] = "apply" /\ pc' = [pc EXCEPT ![w] = "promote"]
              /\ folded' = result /\ current' = current /\ pending' = pending
          BY Zenon, <3>6 DEF Commit, cacheVars
        <4>2. Base' = Base /\ Base = result
          BY Zenon, <3>a, <4>1 DEF Base
        <4> QED BY Zenon, <3>b, <3>c, <4>1, <4>2
      <3>7. CASE PromoteCache(w)
        <4>1. /\ pc[w] = "promote" /\ pc' = [pc EXCEPT ![w] = "publish"]
              /\ current' = Base /\ pending' = Nil /\ folded' = folded
          BY Zenon, <3>7 DEF PromoteCache, Promote, history
        <4> QED BY Zenon, <3>a, <3>b, <3>c, <4>1
      <3>8. CASE Publish(w)
        <4>1. /\ pc[w] = "publish" /\ pc' = [pc EXCEPT ![w] = "idle"]
              /\ current' = current /\ pending' = pending /\ folded' = folded
          BY Zenon, <3>8 DEF Publish, cacheVars, history
        <4> QED BY Zenon, <3>a, <3>b, <3>c, <4>1
      <3>9. CASE DiscardCache(w)
        <4>1. /\ pc[w] = "discard" /\ pc' = [pc EXCEPT ![w] = "rollback"]
              /\ current' = current /\ pending' = Nil /\ folded' = folded
          BY Zenon, <3>9 DEF DiscardCache, Discard, history
        <4> QED BY Zenon, <3>a, <3>b, <3>c, <4>1
      <3>10. CASE Rollback(w)
        <4>1. /\ pc[w] = "rollback"
              /\ pc' = [pc EXCEPT ![w] = "begin"] \/ pc' = [pc EXCEPT ![w] = "idle"]
              /\ current' = current /\ pending' = pending /\ folded' = folded
          BY Zenon, <3>10 DEF Rollback, cacheVars, history
        <4> QED BY Zenon, <3>a, <3>b, <3>c, <4>1
      <3> QED BY <2>2, <3>3, <3>4, <3>5, <3>6, <3>7, <3>8, <3>9, <3>10 DEF Step
    <2>3. CASE UNCHANGED vars
      BY <2>3 DEF vars
    <2> QED BY Zenon, <2>1, <2>2, <2>3 DEF Next
  <1>3. SerialInv => SerialLockstep
    BY DEF SerialInv, SerialLockstep
  <1> QED BY <1>1, <1>2, <1>3, TypeCorrect, PTL DEF Spec

\* Together: the state cache can only leave the log when an append fails and
\* an append overlaps another one.
THEOREM LockstepCorrect == Spec => []Lockstep
  BY FailureFreeCorrect, SerialCorrect, PTL DEF Lockstep

-----------------------------------------------------------------------------
\* A committed transaction adds at least one row.
LEMMA CommitExtends ==
  ASSUME TypeOK, RequestInv, NEW w \in Writers, Commit(w)
  PROVE  /\ Len(log') > Len(log)
         /\ SubSeq(log', 1, Len(log)) = log
  <1>1. evs[w] \in Seq(Events) /\ log \in Seq(Events) /\ Len(evs[w]) > 0
    BY DEF Commit, TypeOK, RequestInv
  <1>2. log' = log \o evs[w]
    BY DEF Commit
  <1>3. log' \in Seq(Events) /\ Len(log') = Len(log) + Len(evs[w])
    BY <1>1, <1>2
  <1>4. \A i \in 1 .. Len(log) : log'[i] = log[i]
    BY <1>1, <1>2
  <1>5. SubSeq(log', 1, Len(log)) = log
    <2>1. SubSeq(log', 1, Len(log)) \in Seq(Events)
      BY <1>1, <1>3
    <2>2. Len(SubSeq(log', 1, Len(log))) = Len(log)
      BY <1>1, <1>3
    <2>3. \A i \in 1 .. Len(log) : SubSeq(log', 1, Len(log))[i] = log[i]
      BY <1>1, <1>3, <1>4
    <2> QED BY <1>1, <2>1, <2>2, <2>3, SeqEqual
  <1> QED BY <1>1, <1>3, <1>5

\* An append under way carries at least one event.
LEMMA RequestCorrect == Spec => []RequestInv
  <1>1. Init => RequestInv
    BY DEF Init, RequestInv
  <1>2. TypeOK /\ RequestInv /\ [Next]_vars => RequestInv'
    <2> SUFFICES ASSUME TypeOK, RequestInv, [Next]_vars PROVE RequestInv'
      OBVIOUS
    <2> USE DEF TypeOK, RequestInv
    <2>1. ASSUME NEW w \in Writers, Call(w) PROVE RequestInv'
      <3>1. PICK es \in Requests(w) : evs' = [evs EXCEPT ![w] = es]
        BY Zenon, <2>1 DEF Call
      <3> QED BY <2>1, <3>1, RequestsType DEF Call
    <2>2. ASSUME NEW w \in Writers, Step(w) PROVE RequestInv'
      <3>1. \A u \in Writers : u # w => pc'[u] = pc[u] /\ evs'[u] = evs[u]
        BY Zenon, <2>2 DEF Step, Insert, InsertBusy, ApplyNext, Fail, Cancelled, Commit,
                           PromoteCache, Publish, DiscardCache, Rollback
      <3>2. \/ pc'[w] = "idle"
            \/ pc[w] # "idle" /\ evs'[w] = evs[w]
        BY Zenon, <2>2 DEF Step, Insert, InsertBusy, ApplyNext, Fail, Cancelled, Commit,
                           PromoteCache, Publish, DiscardCache, Rollback
      <3> QED BY Zenon, <3>1, <3>2
    <2>3. CASE UNCHANGED vars
      BY Zenon, <2>3 DEF vars
    <2> QED BY Zenon, <2>1, <2>2, <2>3 DEF Next
  <1> QED BY <1>1, <1>2, TypeCorrect, PTL DEF Spec

\* When every writer calls Append, the announced position is the highest
\* committed one whenever no append is between its commit and its return.
THEOREM LatestCorrect ==
  ASSUME BatchWriters = {}
  PROVE  Spec => []LatestIsHighest
  <1>1. Init => AnnounceInv
    BY NoEvents DEF Init, AnnounceInv
  <1>2. TypeOK /\ AnnounceInv /\ [Next]_vars => AnnounceInv'
    <2> SUFFICES ASSUME TypeOK, AnnounceInv, [Next]_vars PROVE AnnounceInv'
      OBVIOUS
    <2> USE DEF TypeOK, AnnounceInv
    <2>1. ASSUME NEW w \in Writers, Commit(w) PROVE AnnounceInv'
      BY <2>1 DEF Commit
    <2>2. ASSUME NEW w \in Writers, Publish(w) PROVE AnnounceInv'
      BY <2>2, BatchWriters = {} DEF Publish, Published
    <2>3. ASSUME NEW w \in Writers, PromoteCache(w) PROVE AnnounceInv'
      BY <2>3 DEF PromoteCache, storeVars
    <2>4. ASSUME NEW w \in Writers,
                 \/ Call(w) \/ Insert(w) \/ InsertBusy(w) \/ ApplyNext(w)
                 \/ Fail(w) \/ Cancelled(w) \/ DiscardCache(w) \/ Rollback(w)
          PROVE  AnnounceInv'
      <3> HIDE DEF TypeOK, AnnounceInv
      <3> DEFINE Quiet == /\ UNCHANGED <<log, latestPosition, position>>
                          /\ \A u \in Writers : u # w => pc'[u] = pc[u]
                          /\ pc[w] \notin {"promote", "publish"}
      <3>a. Call(w) => Quiet
        BY DEF Call, TypeOK, storeVars
      <3>b. Insert(w) => Quiet
        BY DEF Insert, TypeOK, storeVars
      <3>c. InsertBusy(w) => Quiet
        BY DEF InsertBusy, TypeOK, storeVars
      <3>d. ApplyNext(w) => Quiet
        BY DEF ApplyNext, TypeOK, storeVars
      <3>e. Fail(w) => Quiet
        BY DEF Fail, TypeOK, storeVars
      <3>f. Cancelled(w) => Quiet
        BY DEF Cancelled, TypeOK, storeVars
      <3>g. DiscardCache(w) => Quiet
        BY DEF DiscardCache, TypeOK, storeVars
      <3>h. Rollback(w) => Quiet
        BY DEF Rollback, TypeOK, storeVars
      <3>1. UNCHANGED <<log, latestPosition, position>>
        BY Zenon, <2>4, <3>a, <3>b, <3>c, <3>d, <3>e, <3>f, <3>g, <3>h
      <3>2. \A u \in Writers : u # w => pc'[u] = pc[u]
        BY Zenon, <2>4, <3>a, <3>b, <3>c, <3>d, <3>e, <3>f, <3>g, <3>h
      <3>3. pc[w] \notin {"promote", "publish"}
        BY Zenon, <2>4, <3>a, <3>b, <3>c, <3>d, <3>e, <3>f, <3>g, <3>h
      <3> QED BY SMTT(30), <3>1, <3>2, <3>3 DEF AnnounceInv
    <2>5. CASE UNCHANGED vars
      BY <2>5 DEF vars
    <2> QED BY <2>1, <2>2, <2>3, <2>4, <2>5 DEF Next, Step
  <1>3. AnnounceInv => LatestIsHighest
    BY DEF AnnounceInv, LatestIsHighest
  <1> QED BY <1>1, <1>2, <1>3, TypeCorrect, PTL DEF Spec

\* Every step of the append path is a step of the abstract log or leaves it
\* alone, when every writer calls Append: rows are only added and the
\* announced position only grows, never past the last row.
THEOREM LogRefinement ==
  ASSUME BatchWriters = {}
  PROVE  Spec => Log!SafeSpec
  <1>1. Init => Log!Init
    BY DEF Init, Log!Init
  <1>2. TypeOK /\ RequestInv /\ [Next]_vars => [Log!Next]_(Log!vars)
    <2> SUFFICES ASSUME TypeOK, RequestInv, [Next]_vars
                 PROVE  [Log!Next]_(Log!vars)
      OBVIOUS
    <2>1. ASSUME NEW w \in Writers, Commit(w) PROVE Log!Next
      BY Zenon, <2>1, CommitExtends DEF Commit, Log!Next, Log!Extend
    <2>2. ASSUME NEW w \in Writers, Publish(w) PROVE Log!Next \/ UNCHANGED Log!vars
      BY <2>2, BatchWriters = {}
         DEF Publish, Published, TypeOK, Log!Next, Log!Announce, Log!vars
    <2>3. ASSUME NEW w \in Writers,
                 \/ Call(w) \/ Insert(w) \/ InsertBusy(w) \/ ApplyNext(w)
                 \/ Fail(w) \/ Cancelled(w) \/ PromoteCache(w)
                 \/ DiscardCache(w) \/ Rollback(w)
          PROVE  UNCHANGED Log!vars
      BY <2>3 DEF Call, Insert, InsertBusy, ApplyNext, Fail, Cancelled,
                  PromoteCache, DiscardCache, Rollback, storeVars, Log!vars
    <2>4. CASE UNCHANGED vars
      BY <2>4 DEF vars, Log!vars
    <2> QED BY <2>1, <2>2, <2>3, <2>4 DEF Next, Step
  <1> QED BY <1>1, <1>2, TypeCorrect, RequestCorrect, PTL DEF Spec, Log!SafeSpec

\* Appends that publish out of order never move the announced position back.
THEOREM LatestMonotone ==
  ASSUME BatchWriters = {}
  PROVE  Spec => LatestNeverRegresses
  <1>1. TypeOK /\ [Log!Next]_(Log!vars) => latestPosition' >= latestPosition
    <2> SUFFICES ASSUME TypeOK, [Log!Next]_(Log!vars)
                 PROVE  latestPosition' >= latestPosition
      OBVIOUS
    <2>1. latestPosition \in Nat /\ Len(log) \in Nat
      BY SMTT(30) DEF TypeOK
    <2>2. CASE Log!Announce
      BY SMTT(30), <2>1, <2>2 DEF Log!Announce
    <2>3. CASE latestPosition' = latestPosition
      BY SMTT(30), <2>1, <2>3
    <2> QED BY <2>2, <2>3 DEF Log!Next, Log!Extend, Log!vars
  <1>2. TypeOK /\ [Next]_vars /\ [Log!Next]_(Log!vars)
          => [latestPosition' >= latestPosition]_vars
    BY <1>1
  <1> QED BY <1>2, TypeCorrect, LogRefinement, PTL
          DEF Spec, LatestNeverRegresses, Log!SafeSpec

-----------------------------------------------------------------------------
(* Streaming calls (module ApiStream): every row on its way to the client has
   all earlier rows before it, or settled. *)

Elems(q) == {q[j] : j \in 1 .. Len(q)}

\* The rows after `from` that an element of q has before it are done or earlier
\* elements of q.
Gapless(from, q, done) ==
  \A i \in 1 .. Len(q), p \in Nat :
    from < p /\ p < q[i] => p \in done \/ \E j \in 1 .. Len(q) : j < i /\ q[j] = p

StreamType ==
  /\ rows \in Nat /\ subAt \in Nat /\ latest \in Nat /\ resumeAt \in Nat /\ since \in Nat
  /\ src \in Seq(Nat) /\ buffered \in Seq(Nat)

\* The rows up to the cursor the client holds.
Resumed == \A p \in Nat : since < p /\ p <= resumeAt => p \in settled

\* The rows the handler has passed, and those that wait for it.
Handled ==
  handler = "loop" /\ ~broken =>
    /\ \A p \in Nat : since < p /\ p <= latest => p \in settled
    /\ Gapless(since, buffered, settled)

\* The rows behind the fan-out, which ends rather than leave one out.
Fanned ==
  handler = "loop" /\ ~broken /\ fan = "run" =>
    /\ Gapless(since, src, settled \cup Elems(buffered))
    /\ source # "exit" =>
         \A p \in Nat :
           since < p /\ p <= subAt =>
             \/ p \in settled \cup Elems(buffered) \cup Elems(src)
             \/ source = "put" /\ p = subAt

StreamInv == StreamType /\ Resumed /\ Handled /\ Fanned

(* The elements of a channel after a send and after a receive. *)
LEMMA ElemsSend ==
  ASSUME NEW q \in Seq(Nat), NEW n \in Nat
  PROVE  Elems(Append(q, n)) = Elems(q) \cup {n} /\ Append(q, n) \in Seq(Nat)
<1>1. /\ Len(Append(q, n)) = Len(q) + 1 /\ Len(q) \in Nat
      /\ \A j \in 1 .. Len(q) : Append(q, n)[j] = q[j]
      /\ Append(q, n)[Len(q) + 1] = n
      /\ Append(q, n) \in Seq(Nat)
  OBVIOUS
<1>2. \A j : j \in 1 .. (Len(q) + 1) <=> j \in 1 .. Len(q) \/ j = Len(q) + 1
  BY <1>1
<1> QED
  BY Zenon, <1>1, <1>2 DEF Elems

LEMMA ElemsReceive ==
  ASSUME NEW q \in Seq(Nat), q # <<>>
  PROVE  /\ Elems(q) = {Head(q)} \cup Elems(Tail(q))
         /\ Head(q) \in Nat /\ Tail(q) \in Seq(Nat)
<1>1. /\ Len(Tail(q)) = Len(q) - 1 /\ Len(q) \in Nat \ {0}
      /\ \A j \in 1 .. (Len(q) - 1) : Tail(q)[j] = q[j + 1]
      /\ Head(q) = q[1] /\ Head(q) \in Nat /\ Tail(q) \in Seq(Nat)
  OBVIOUS
<1>2. ASSUME NEW x \in Elems(q) PROVE x \in {Head(q)} \cup Elems(Tail(q))
  <2>1. PICK j \in 1 .. Len(q) : x = q[j]
    BY Zenon DEF Elems
  <2>2. CASE j = 1
    BY <1>1, <2>1, <2>2
  <2>3. CASE j # 1
    <3>1. j - 1 \in 1 .. Len(Tail(q)) /\ (j - 1) + 1 = j
      BY <1>1, <2>3
    <3>2. Tail(q)[j - 1] = x
      BY <1>1, <2>1, <3>1
    <3> QED
      BY Zenon, <3>1, <3>2 DEF Elems
  <2> QED
    BY <2>2, <2>3
<1>3. ASSUME NEW x \in {Head(q)} \cup Elems(Tail(q)) PROVE x \in Elems(q)
  <2>1. CASE x = Head(q)
    <3>1. 1 \in 1 .. Len(q)
      BY <1>1
    <3> QED
      BY Zenon, <1>1, <2>1, <3>1 DEF Elems
  <2>2. CASE x \in Elems(Tail(q))
    <3>1. PICK j \in 1 .. Len(Tail(q)) : x = Tail(q)[j]
      BY Zenon, <2>2 DEF Elems
    <3>2. j + 1 \in 1 .. Len(q) /\ x = q[j + 1]
      BY <1>1, <3>1
    <3> QED
      BY Zenon, <3>2 DEF Elems
  <2> QED
    BY <2>1, <2>2
<1> QED
  BY Zenon, <1>1, <1>2, <1>3

(* A row that has all earlier ones before it may be put behind them. *)
LEMMA GaplessSend ==
  ASSUME NEW q \in Seq(Nat), NEW n \in Nat, NEW from \in Nat, NEW done,
         Gapless(from, q, done),
         \A p \in Nat : from < p /\ p < n => p \in done \cup Elems(q)
  PROVE  Gapless(from, Append(q, n), done)
<1> DEFINE r == Append(q, n)
<1>1. /\ Len(r) = Len(q) + 1 /\ Len(q) \in Nat
      /\ \A j \in 1 .. Len(q) : r[j] = q[j]
      /\ r[Len(q) + 1] = n
  OBVIOUS
<1> HIDE DEF r
<1> SUFFICES ASSUME NEW i \in 1 .. Len(r), NEW p \in Nat, from < p, p < r[i], p \notin done
             PROVE  \E j \in 1 .. Len(r) : j < i /\ r[j] = p
  BY Zenon DEF Gapless, r
<1>2. ASSUME NEW j \in 1 .. Len(q), j < i, q[j] = p
      PROVE  j \in 1 .. Len(r) /\ j < i /\ r[j] = p
  BY <1>1, <1>2
<1>3. CASE i \in 1 .. Len(q)
  <2>1. r[i] = q[i]
    BY <1>1, <1>3
  <2>2. PICK j \in 1 .. Len(q) : j < i /\ q[j] = p
    BY Zenon, <1>3, <2>1 DEF Gapless
  <2> QED
    BY Zenon, <1>2, <2>2
<1>4. CASE i = Len(q) + 1
  <2>1. PICK j \in 1 .. Len(q) : q[j] = p
    BY Zenon, <1>1, <1>4 DEF Elems
  <2>2. j < i
    BY <1>1, <1>4
  <2> QED
    BY Zenon, <1>2, <2>1, <2>2
<1> QED
  BY <1>1, <1>3, <1>4

(* The first row that waits has only rows that are done before it, and once it *)
(* is done too the others may follow.                                          *)
LEMMA GaplessReceive ==
  ASSUME NEW q \in Seq(Nat), q # <<>>, NEW from \in Nat, NEW done,
         Gapless(from, q, done)
  PROVE  /\ \A p \in Nat : from < p /\ p < Head(q) => p \in done
         /\ Gapless(from, Tail(q), done \cup {Head(q)})
<1> DEFINE t == Tail(q)
<1>1. /\ Len(t) = Len(q) - 1 /\ Len(q) \in Nat \ {0}
      /\ \A j \in 1 .. (Len(q) - 1) : t[j] = q[j + 1]
      /\ Head(q) = q[1]
  OBVIOUS
<1>2. ASSUME NEW p \in Nat, from < p, p < Head(q) PROVE p \in done
  <2>1. 1 \in 1 .. Len(q) /\ ~ \E j \in 1 .. Len(q) : j < 1
    <3>1. Len(q) \in Nat \ {0}
      BY Zenon, <1>1
    <3> QED BY <3>1
  <2> QED
    BY Zenon, <1>1, <1>2, <2>1 DEF Gapless
<1> HIDE DEF t
<1>3. Gapless(from, t, done \cup {Head(q)})
  <2> SUFFICES ASSUME NEW i \in 1 .. Len(t), NEW p \in Nat, from < p, p < t[i],
                      p \notin done \cup {Head(q)}
               PROVE  \E j \in 1 .. Len(t) : j < i /\ t[j] = p
    BY Zenon DEF Gapless
  <2>1. i + 1 \in 1 .. Len(q) /\ p < q[i + 1]
    <3>1. i \in 1 .. (Len(q) - 1) /\ i + 1 \in 1 .. Len(q)
      <4>1. Len(t) = Len(q) - 1 /\ Len(q) \in Nat
        BY Zenon, <1>1
      <4> QED BY <4>1
    <3> QED BY Zenon, <1>1, <3>1
  <2>2. PICK k \in 1 .. Len(q) : k < i + 1 /\ q[k] = p
    BY Zenon, <2>1 DEF Gapless
  <2>3. k # 1
    BY Zenon, <1>1, <2>2
  <2>4. k - 1 \in 1 .. Len(t) /\ k - 1 < i /\ t[k - 1] = q[(k - 1) + 1] /\ (k - 1) + 1 = k
    <3>1. Len(t) = Len(q) - 1 /\ Len(q) \in Nat /\ k < i + 1
      BY Zenon, <1>1, <2>2
    <3>2. /\ k - 1 \in 1 .. Len(t) /\ k - 1 \in 1 .. (Len(q) - 1)
          /\ k - 1 < i /\ (k - 1) + 1 = k
      BY <2>3, <3>1
    <3> QED BY Zenon, <1>1, <3>2
  <2> QED
    BY Zenon, <2>2, <2>4
<1> QED
  BY Zenon, <1>2, <1>3 DEF t

LEMMA GaplessMore ==
  ASSUME NEW q, NEW from, NEW done, NEW more, Gapless(from, q, done), done \subseteq more
  PROVE  Gapless(from, q, more)
BY Zenon DEF Gapless

(* StreamInv holds before the first call. *)
LEMMA InitStream == StreamInit => StreamInv
<1> SUFFICES ASSUME StreamInit PROVE StreamInv
  OBVIOUS
<1>1. StreamType
  BY DEF StreamInit, StreamType
<1>2. \A p \in Nat : ~(since < p /\ p <= resumeAt)
  BY DEF StreamInit
<1>3. handler # "loop"
  BY DEF StreamInit
<1> QED
  BY Zenon, <1>1, <1>2, <1>3 DEF StreamInv, Resumed, Handled, Fanned

(* A call that is opened takes up where the client's last cursor left off. *)
LEMMA OpenKeeps ==
  ASSUME StreamInv, OpenCall
  PROVE  StreamInv'
<1>0. StreamType /\ Resumed
  BY DEF StreamInv
<1>1. /\ subAt' = StartCursor /\ latest' = 0 /\ src' = <<>> /\ buffered' = <<>>
      /\ since' = (IF resumeAt = 0 THEN StartCursor ELSE since)
      /\ UNCHANGED <<rows, resumeAt, settled>>
  BY Zenon DEF OpenCall, clientVars
<1>2. StartCursor \in Nat /\ (resumeAt # 0 => StartCursor = resumeAt)
  BY <1>0 DEF StartCursor, StreamType
<1>3. StreamType'
  BY <1>0, <1>1, <1>2 DEF StreamType
<1>4. Resumed'
  <2>1. CASE resumeAt = 0
    BY <1>1, <1>3, <2>1 DEF Resumed, StreamType
  <2>2. CASE resumeAt # 0
    BY Zenon, <1>0, <1>1, <2>2 DEF Resumed
  <2> QED
    BY <2>1, <2>2
<1>5. \A p \in Nat : since' < p /\ p <= subAt' => p \in settled'
  <2>1. CASE resumeAt = 0
    <3>1. \A p \in Nat : ~(since' < p /\ p <= subAt')
      BY <1>1, <1>2, <2>1
    <3> QED
      BY Zenon, <3>1
  <2>2. CASE resumeAt # 0
    BY Zenon, <1>0, <1>1, <1>2, <2>2 DEF Resumed
  <2> QED
    BY <2>1, <2>2
<1>6. \A p \in Nat : ~(since' < p /\ p <= latest')
  BY <1>1, <1>3 DEF StreamType
<1>7. 1 .. Len(<<>>) = {}
  OBVIOUS
<1>8. Gapless(since', src', settled' \cup Elems(buffered'))
        /\ Gapless(since', buffered', settled')
  BY Zenon, <1>1, <1>7 DEF Gapless
<1> QED
  BY Zenon, <1>3, <1>4, <1>5, <1>6, <1>8 DEF StreamInv, Handled, Fanned

(* The source keeps it: it puts the rows in the order it takes them. *)
LEMMA SourceKeeps ==
  ASSUME StreamInv, SourceRuns
  PROVE  StreamInv'
<1>0. StreamType /\ Resumed /\ Handled /\ Fanned
  BY DEF StreamInv
<1>1. UNCHANGED <<rows, handler, latest, broken, resumeAt, since, fan, buffered>>
  BY Zenon DEF SourceRuns, SourceTakes, SourcePuts, SourceEnds, handlerVars, fanVars,
               clientVars
<1>2. CASE SourceTakes
  <2>1. /\ subAt' = subAt + 1 /\ source = "take" /\ src' = src
        /\ \/ source' = "put" /\ settled' = settled
           \/ source' = "take" /\ settled' = settled \cup {subAt'}
    BY Zenon, <1>2 DEF SourceTakes
  <2>2. settled \subseteq settled'
    BY Zenon, <2>1
  <2>3. StreamType'
    BY <1>0, <1>1, <2>1 DEF StreamType
  <2>4. Resumed' /\ Handled'
    BY Zenon, <1>0, <1>1, <2>2, GaplessMore DEF Resumed, Handled
  <2>5. \A p \in Nat : p <= subAt' => p <= subAt \/ p = subAt'
    BY <1>0, <2>1 DEF StreamType
  <2>6. settled \cup Elems(buffered) \subseteq settled' \cup Elems(buffered)
    BY Zenon, <2>2
  <2>7. Fanned'
    <3> SUFFICES ASSUME handler = "loop", ~broken, fan = "run"
                 PROVE  /\ Gapless(since, src, settled' \cup Elems(buffered))
                        /\ \A p \in Nat :
                             since < p /\ p <= subAt' =>
                               \/ p \in settled' \cup Elems(buffered) \cup Elems(src)
                               \/ source' = "put" /\ p = subAt'
      BY Zenon, <1>1, <2>1 DEF Fanned
    <3>1. Gapless(since, src, settled' \cup Elems(buffered))
      BY Zenon, <1>0, <2>6, GaplessMore DEF Fanned
    <3>2. ASSUME NEW p \in Nat, since < p, p <= subAt
          PROVE  p \in settled' \cup Elems(buffered) \cup Elems(src)
      BY Zenon, <1>0, <2>1, <2>2, <3>2 DEF Fanned
    <3> QED
      BY Zenon, <2>1, <2>5, <3>1, <3>2
  <2> QED
    BY Zenon, <2>3, <2>4, <2>7 DEF StreamInv
<1>3. CASE SourcePuts
  <2>1. /\ source = "put" /\ source' = "take" /\ src' = Append(src, subAt)
        /\ UNCHANGED <<subAt, settled>>
    BY Zenon, <1>3 DEF SourcePuts, clientVars
  <2>2. /\ Elems(src') = Elems(src) \cup {subAt} /\ src' \in Seq(Nat)
        /\ src \in Seq(Nat) /\ subAt \in Nat /\ since \in Nat
    BY Zenon, <1>0, <2>1, ElemsSend DEF StreamType
  <2>3. StreamType'
    BY Zenon, <1>0, <1>1, <2>1, <2>2 DEF StreamType
  <2>4. Resumed' /\ Handled'
    BY Zenon, <1>0, <1>1, <2>1 DEF Resumed, Handled
  <2>5. Fanned'
    <3> SUFFICES ASSUME handler = "loop", ~broken, fan = "run"
                 PROVE  /\ Gapless(since, src', settled \cup Elems(buffered))
                        /\ \A p \in Nat :
                             since < p /\ p <= subAt =>
                               p \in settled \cup Elems(buffered) \cup Elems(src')
      BY Zenon, <1>1, <2>1 DEF Fanned
    <3>1. \A p \in Nat : p < subAt => p <= subAt /\ p # subAt
      BY <2>2
    <3>2. /\ Gapless(since, src, settled \cup Elems(buffered))
          /\ \A p \in Nat :
               since < p /\ p <= subAt =>
                 p \in settled \cup Elems(buffered) \cup Elems(src) \/ p = subAt
      BY Zenon, <1>0, <2>1 DEF Fanned
    <3>3. \A p \in Nat :
            since < p /\ p < subAt => p \in (settled \cup Elems(buffered)) \cup Elems(src)
      BY Zenon, <3>1, <3>2
    <3>4. Gapless(since, src', settled \cup Elems(buffered))
      BY Zenon, <2>1, <2>2, <3>2, <3>3, GaplessSend
    <3> QED
      BY Zenon, <2>2, <3>2, <3>4
  <2> QED
    BY Zenon, <2>3, <2>4, <2>5 DEF StreamInv
<1>4. CASE SourceEnds
  <2>1. source' = "exit" /\ UNCHANGED <<subAt, src, settled>>
    BY Zenon, <1>4 DEF SourceEnds, clientVars
  <2> QED
    BY Zenon, <1>0, <1>1, <2>1 DEF StreamInv, StreamType, Resumed, Handled, Fanned
<1> QED
  BY <1>2, <1>3, <1>4 DEF SourceRuns

(* The fan-out keeps it: it ends when a row finds no room. *)
LEMMA FanKeeps ==
  ASSUME StreamInv, FanRuns
  PROVE  StreamInv'
<1>0. StreamType /\ Resumed /\ Handled /\ Fanned
  BY DEF StreamInv
<1>1. UNCHANGED <<rows, handler, latest, broken, resumeAt, since, subAt, source, settled>>
  BY Zenon DEF FanRuns, FanOut, FanEnds, handlerVars, sourceVars, clientVars
<1>2. CASE fan' = "run"
  <2>1. /\ src # <<>> /\ src' = Tail(src) /\ fan = "run"
        /\ buffered' = Append(buffered, Head(src))
    BY Zenon, <1>2, "run" # "exit" DEF FanRuns, FanOut, FanEnds
  <2>2. /\ src \in Seq(Nat) /\ buffered \in Seq(Nat) /\ since \in Nat
        /\ Elems(src) = {Head(src)} \cup Elems(src')
        /\ Head(src) \in Nat /\ src' \in Seq(Nat)
    BY Zenon, <1>0, <2>1, ElemsReceive DEF StreamType
  <2>3. Elems(buffered') = Elems(buffered) \cup {Head(src)} /\ buffered' \in Seq(Nat)
    BY Zenon, <2>1, <2>2, ElemsSend
  <2>4. StreamType' /\ Resumed'
    BY Zenon, <1>0, <1>1, <2>2, <2>3 DEF StreamType, Resumed
  <2>5. ASSUME handler = "loop", ~broken
        PROVE  /\ \A p \in Nat :
                    since < p /\ p < Head(src) => p \in settled \cup Elems(buffered)
               /\ Gapless(since, src', (settled \cup Elems(buffered)) \cup {Head(src)})
    BY Zenon, <1>0, <2>1, <2>2, <2>5, GaplessReceive DEF Fanned
  <2>6. Handled'
    BY Zenon, <1>0, <1>1, <2>1, <2>2, <2>5, GaplessSend DEF Handled
  <2>7. (settled \cup Elems(buffered)) \cup {Head(src)} = settled \cup Elems(buffered')
    BY Zenon, <2>3
  <2>8. Fanned'
    BY Zenon, <1>0, <1>1, <2>1, <2>2, <2>3, <2>5, <2>7 DEF Fanned
  <2> QED
    BY Zenon, <2>4, <2>6, <2>8 DEF StreamInv
<1>3. CASE fan' # "run"
  <2>1. buffered' = buffered /\ (src' = src \/ (src # <<>> /\ src' = Tail(src)))
    <3>1. CASE FanOut
      BY Zenon, <1>3, <3>1 DEF FanOut
    <3>2. CASE FanEnds
      <4>1. UNCHANGED <<src, buffered>>
        BY Zenon, <3>2 DEF FanEnds, sourceVars
      <4> QED
        BY Zenon, <4>1
    <3> QED
      BY <3>1, <3>2 DEF FanRuns
  <2>2. src' \in Seq(Nat)
    BY Zenon, <1>0, <2>1, ElemsReceive DEF StreamType
  <2> QED
    BY Zenon, <1>0, <1>1, <1>3, <2>1, <2>2
       DEF StreamInv, StreamType, Resumed, Handled, Fanned
<1> QED
  BY <1>2, <1>3

(* The handler keeps it: its latest moves only with what it takes. *)
LEMMA TakeKeeps ==
  ASSUME StreamInv, HandlerTakes
  PROVE  StreamInv'
<1>0. StreamType /\ Resumed /\ Handled /\ Fanned
  BY DEF StreamInv
<1>1. /\ handler = "loop" /\ buffered # <<>>
      /\ latest' = Head(buffered) /\ buffered' = Tail(buffered)
      /\ UNCHANGED <<rows, subAt, source, src, fan, broken, since>>
  BY Zenon DEF HandlerTakes
<1>2. /\ buffered \in Seq(Nat) /\ since \in Nat /\ latest' \in Nat /\ buffered' \in Seq(Nat)
      /\ Elems(buffered) = {latest'} \cup Elems(buffered')
  BY Zenon, <1>0, <1>1, ElemsReceive DEF StreamType
<1>3. \/ resumeAt' = latest' /\ settled' = settled \cup {latest'} /\ ~broken
      \/ resumeAt' = resumeAt /\ settled' = settled \cup {latest'}
      \/ resumeAt' = resumeAt /\ settled' = settled /\ (broken \/ handler' = "returned")
  BY Zenon DEF HandlerTakes, Send, Return, clientVars
<1>4. settled \subseteq settled'
  BY Zenon, <1>3
<1>5. StreamType'
  BY Zenon, <1>0, <1>1, <1>2, <1>3 DEF StreamType
<1>6. \A p \in Nat : p <= latest' => p < latest' \/ p = latest'
  BY <1>2
<1>7. ASSUME ~broken, settled' = settled \cup {latest'}
      PROVE  /\ \A p \in Nat : since < p /\ p <= latest' => p \in settled'
             /\ Gapless(since, buffered', settled')
  BY Zenon, <1>0, <1>1, <1>2, <1>6, <1>7, GaplessReceive DEF Handled
<1>8. Resumed'
  <2>1. CASE resumeAt' = latest' /\ settled' = settled \cup {latest'} /\ ~broken
    BY Zenon, <1>1, <1>7, <2>1 DEF Resumed
  <2>2. CASE resumeAt' = resumeAt
    BY Zenon, <1>0, <1>1, <1>4, <2>2 DEF Resumed
  <2> QED
    BY <1>3, <2>1, <2>2
<1>9. CASE settled' = settled \cup {latest'} /\ ~broken
  <2>1. Handled'
    BY Zenon, <1>1, <1>7, <1>9 DEF Handled
  <2>2. settled \cup Elems(buffered) = settled' \cup Elems(buffered')
    BY Zenon, <1>2, <1>9
  <2>3. Fanned'
    BY Zenon, <1>0, <1>1, <2>2 DEF Fanned
  <2> QED
    BY Zenon, <1>5, <1>8, <2>1, <2>3 DEF StreamInv
<1>10. CASE broken \/ handler' = "returned"
  BY Zenon, <1>1, <1>5, <1>8, <1>10, "returned" # "loop" DEF StreamInv, Handled, Fanned
<1> QED
  BY Zenon, <1>3, <1>9, <1>10

(* Every step of a call and of the client keeps StreamInv. *)
LEMMA NextStream == StreamInv /\ [StreamNext]_streamVars => StreamInv'
<1> SUFFICES ASSUME StreamInv, [StreamNext]_streamVars PROVE StreamInv'
  OBVIOUS
<1>0. StreamType /\ Resumed /\ Handled /\ Fanned
  BY DEF StreamInv
<1> DEFINE Rest == <<subAt, latest, resumeAt, since, src, buffered, settled, fan, source>>
<1>1. ASSUME rows' \in Nat, UNCHANGED Rest,
             \/ UNCHANGED <<handler, broken>>
             \/ handler' = "returned"
             \/ handler' = handler /\ broken'
      PROVE  StreamInv'
  <2>1. StreamType' /\ Resumed'
    BY Zenon, <1>0, <1>1 DEF StreamType, Resumed
  <2>2. handler' = "loop" /\ ~broken' => handler = "loop" /\ ~broken
    BY Zenon, <1>1, "returned" # "loop"
  <2>3. Handled' /\ Fanned'
    BY Zenon, <1>0, <1>1, <2>2 DEF Handled, Fanned
  <2> QED
    BY Zenon, <2>1, <2>3 DEF StreamInv
<1>2. rows \in Nat
  BY Zenon, <1>0 DEF StreamType
<1>3. CASE AppendRow
  <2>1. rows' \in Nat
    BY <1>2, <1>3 DEF AppendRow
  <2> QED
    BY Zenon, <1>1, <1>3, <2>1
       DEF AppendRow, sourceVars, fanVars, handlerVars, clientVars
<1>4. CASE SubscriptionCut \/ RequestDone
  BY Zenon, <1>1, <1>2, <1>4
     DEF SubscriptionCut, RequestDone, sourceVars, fanVars, handlerVars, clientVars
<1>5. CASE HandlerEnds
  <2>1. latest' \in Nat /\ handler' = "returned"
          /\ UNCHANGED <<rows, subAt, resumeAt, since, src, buffered, settled, fan, source>>
    BY <1>5 DEF HandlerEnds, Return, fanVars, clientVars
  <2> QED
    BY Zenon, <1>0, <2>1, "returned" # "loop"
       DEF StreamInv, StreamType, Resumed, Handled, Fanned
<1>6. CASE HandlerBeats
  BY Zenon, <1>1, <1>2, <1>6 DEF HandlerBeats, Send, Return, fanVars, clientVars
<1>7. CASE ConnectionBreaks
  BY Zenon, <1>1, <1>2, <1>7
     DEF ConnectionBreaks, sourceVars, fanVars, handlerVars, clientVars
<1>8. CASE UNCHANGED streamVars
  BY Zenon, <1>1, <1>2, <1>8
     DEF streamVars, sourceVars, fanVars, handlerVars, clientVars
<1> QED
  BY Zenon, OpenKeeps, SourceKeeps, FanKeeps, TakeKeeps, <1>3, <1>4, <1>5, <1>6, <1>7, <1>8
     DEF StreamNext

(* Whatever overflows, breaks or is resumed, a client has every row up to  *)
(* its cursor but those that the selector or the policy kept from it, for  *)
(* any buffer sizes, any number of rows and any number of calls            *)
(* (BoundedFanOut, the handlers' loops).                                   *)
THEOREM StreamCorrect == StreamSpec => []StreamLosesNothing
<1>1. StreamInv => StreamLosesNothing
  <2> SUFFICES ASSUME StreamInv, NEW p \in 1 .. rows, since < p,
                      p <= resumeAt \/ (p <= latest /\ handler = "loop" /\ ~ broken)
               PROVE  p \in settled
    BY Zenon DEF StreamLosesNothing
  <2>1. p \in Nat
    BY DEF StreamInv, StreamType
  <2> QED
    BY Zenon, <2>1 DEF StreamInv, Resumed, Handled
<1> QED
  BY InitStream, NextStream, <1>1, PTL DEF StreamSpec

-----------------------------------------------------------------------------
(* The entity store of the web application (module WebStore): what is on its
   way to the page is newer than what the page shows. *)

\* The changes of q come in order, after `at` and up to `to`.
Ordered(at, q, to) ==
  \A i \in 1 .. Len(q) :
    /\ at < q[i] /\ q[i] <= to
    /\ \A j \in 1 .. Len(q) : i < j => q[i] < q[j]

Views == [at : Nat, patches : SUBSET UiCalls]

WebType ==
  /\ head \in Nat /\ upTo \in Nat /\ listed \in Nat /\ lastCursor \in Nat
  /\ wire \in Seq(Nat)
  /\ view \in Views /\ before \in [UiCalls -> Views]

\* One runStream at a time, which lists once and then only streams.
RunInv ==
  /\ runAt \in {"none", "list", "hydrate", "subscribe", "stream"}
  /\ runAt # "none" => started /\ ~retry
  /\ retry => started
  /\ runAt \in {"list", "hydrate"} => ~hydrated
  /\ runAt \in {"subscribe", "stream"} => hydrated

\* The pending patch was made over the state that is shown, so that to revert
\* it takes nothing back.
PatchInv ==
  /\ ~hydrated => view.at = 0 /\ optimisticBy = NoUiCall
  /\ optimisticBy # NoUiCall =>
       optimisticBy \in UiCalls /\ before[optimisticBy].at = view.at

\* The cursor is the state that is shown, and all that the stream still brings
\* lies behind it.
CursorInv ==
  /\ view.at <= head /\ listed <= head /\ upTo <= head
  /\ lastCursor # 0 => lastCursor = view.at
  /\ runAt = "stream" => view.at <= upTo /\ Ordered(view.at, wire, upTo)
  /\ runAt # "stream" => wire = <<>>

WebInv == WebType /\ RunInv /\ PatchInv /\ CursorInv

(* A change sent behind the others keeps the order. *)
LEMMA OrderedSend ==
  ASSUME NEW q \in Seq(Nat), NEW at \in Nat, NEW to \in Nat, at <= to, Ordered(at, q, to)
  PROVE  Ordered(at, Append(q, to + 1), to + 1) /\ Append(q, to + 1) \in Seq(Nat)
<1> DEFINE r == Append(q, to + 1)
<1>1. /\ Len(r) = Len(q) + 1 /\ Len(q) \in Nat
      /\ \A j \in 1 .. Len(q) : r[j] = q[j] /\ q[j] \in Nat
      /\ r[Len(q) + 1] = to + 1 /\ r \in Seq(Nat)
  OBVIOUS
<1>2. ASSUME NEW i \in 1 .. Len(q)
      PROVE  at < r[i] /\ r[i] < to + 1
  BY <1>1 DEF Ordered
<1>3. ASSUME NEW i \in 1 .. Len(q), NEW j \in 1 .. Len(q), i < j
      PROVE  r[i] < r[j]
  BY <1>1, <1>3 DEF Ordered
<1>4. ASSUME NEW i \in 1 .. Len(r)
      PROVE  /\ at < r[i] /\ r[i] <= to + 1
             /\ \A j \in 1 .. Len(r) : i < j => r[i] < r[j]
  <2> HIDE DEF r
  <2>1. CASE i \in 1 .. Len(q)
    <3>1. at < r[i] /\ r[i] <= to + 1
      <4>1. at < r[i] /\ r[i] < to + 1 /\ r[i] \in Nat
        BY Zenon, <1>1, <1>2, <2>1
      <4> QED
        BY <4>1
    <3>2. ASSUME NEW j \in 1 .. Len(r), i < j PROVE r[i] < r[j]
      <4>1. j \in 1 .. Len(q) \/ j = Len(q) + 1
        BY <1>1
      <4>2. CASE j \in 1 .. Len(q)
        BY Zenon, <1>3, <2>1, <3>2, <4>2
      <4>3. CASE j = Len(q) + 1
        BY Zenon, <1>1, <1>2, <2>1, <4>3
      <4> QED
        BY Zenon, <4>1, <4>2, <4>3
    <3> QED
      BY Zenon, <3>1, <3>2
  <2>2. CASE i = Len(q) + 1
    <3>1. at < r[i] /\ r[i] <= to + 1
      BY <1>1, <2>2
    <3>2. \A j \in 1 .. Len(r) : ~ i < j
      BY <1>1, <2>2
    <3> QED
      BY Zenon, <3>1, <3>2
  <2> QED
    BY <1>1, <2>1, <2>2
<1> HIDE DEF r
<1>5. Ordered(at, r, to + 1)
  BY Zenon, <1>4 DEF Ordered
<1> QED
  BY Zenon, <1>1, <1>5 DEF r

(* The first change received, the others lie behind it. *)
LEMMA OrderedReceive ==
  ASSUME NEW q \in Seq(Nat), q # <<>>, NEW at \in Nat, NEW to \in Nat, Ordered(at, q, to)
  PROVE  /\ Head(q) \in Nat /\ Tail(q) \in Seq(Nat)
         /\ at < Head(q) /\ Head(q) <= to /\ Ordered(Head(q), Tail(q), to)
<1>1. /\ Len(Tail(q)) = Len(q) - 1 /\ Len(q) \in Nat \ {0}
      /\ \A j \in 1 .. (Len(q) - 1) : Tail(q)[j] = q[j + 1]
      /\ Head(q) = q[1] /\ Head(q) \in Nat /\ Tail(q) \in Seq(Nat)
  OBVIOUS
<1>2. at < Head(q) /\ Head(q) <= to
  BY <1>1 DEF Ordered
<1>3. ASSUME NEW i \in 1 .. Len(Tail(q))
      PROVE  /\ Head(q) < Tail(q)[i] /\ Tail(q)[i] <= to
             /\ \A j \in 1 .. Len(Tail(q)) : i < j => Tail(q)[i] < Tail(q)[j]
  <2>1. i + 1 \in 1 .. Len(q) /\ 1 \in 1 .. Len(q) /\ 1 < i + 1 /\ Tail(q)[i] = q[i + 1]
    BY <1>1
  <2>2. Head(q) < Tail(q)[i] /\ Tail(q)[i] <= to
    BY Zenon, <1>1, <2>1 DEF Ordered
  <2>3. ASSUME NEW j \in 1 .. Len(Tail(q)), i < j
        PROVE  Tail(q)[i] < Tail(q)[j]
    <3>1. j + 1 \in 1 .. Len(q) /\ i + 1 < j + 1 /\ Tail(q)[j] = q[j + 1]
      BY <1>1, <2>3
    <3> QED
      BY Zenon, <2>1, <3>1 DEF Ordered
  <2> QED
    BY Zenon, <2>2, <2>3
<1> QED
  BY Zenon, <1>1, <1>2, <1>3 DEF Ordered

LEMMA InitWeb == WebInit => WebInv
<1> SUFFICES ASSUME WebInit PROVE WebInv
  OBVIOUS
<1>1. <<>> \in Seq(Nat) /\ [at |-> 0, patches |-> {}] \in Views
  BY DEF Views
<1>2. WebType
  <2>1. head \in Nat /\ upTo \in Nat /\ listed \in Nat /\ lastCursor \in Nat
    BY DEF WebInit
  <2> QED
    BY Zenon, <1>1, <2>1 DEF WebInit, WebType
<1>3. RunInv /\ PatchInv /\ CursorInv
  BY DEF WebInit, RunInv, PatchInv, CursorInv
<1> QED
  BY Zenon, <1>2, <1>3 DEF WebInv

(* The steps that begin, end or interrupt a run leave the page and the cursor
   alone. *)
LEMMA RunKeeps ==
  ASSUME WebInv,
         StartStore \/ RetryFires \/ StopStore \/ AbortCaught \/ Watchdog \/ RunEnds
  PROVE  WebInv' /\ view' = view
<1>1. UNCHANGED <<head, upTo, listed, lastCursor, hydrated, view, before, optimisticBy>>
  BY Zenon DEF StartStore, RetryFires, StopStore, AbortCaught, Watchdog, RunEnds, serverVars,
               viewVars
<1>2. (runAt' # "stream" /\ wire' = <<>>) \/ UNCHANGED <<runAt, wire>>
  <2>1. CASE StartStore \/ RetryFires
    <3>1. runAt = "none" /\ runAt' # "stream" /\ wire' = wire
      BY <2>1 DEF WebInv, RunInv, StartStore, RetryFires, RunStream, serverVars
    <3>2. runAt # "stream"
      BY <3>1
    <3> QED
      BY Zenon, <3>1, <3>2 DEF WebInv, CursorInv
  <2>2. CASE StopStore \/ Watchdog \/ RunEnds
    <3>1. runAt' = "none" /\ wire' = <<>>
      BY Zenon, <2>2 DEF StopStore, Watchdog, RunEnds, Disconnected
    <3> QED
      BY <3>1
  <2>3. CASE AbortCaught
    BY Zenon, <2>3 DEF AbortCaught, serverVars
  <2> QED
    BY Zenon, <2>1, <2>2, <2>3
<1>3. RunInv'
  BY DEF WebInv, RunInv, StartStore, RetryFires, StopStore, AbortCaught, Watchdog, RunEnds,
         RunStream
<1>4. WebType'
  <2>1. <<>> \in Seq(Nat)
    OBVIOUS
  <2> QED
    BY Zenon, <1>1, <1>2, <2>1 DEF WebInv, WebType
<1>5. PatchInv'
  BY Zenon, <1>1 DEF WebInv, PatchInv
<1>6. CursorInv'
  BY Zenon, <1>1, <1>2 DEF WebInv, CursorInv
<1> QED
  BY Zenon, <1>1, <1>3, <1>4, <1>5, <1>6 DEF WebInv

LEMMA ListKeeps ==
  ASSUME WebInv, ListAnswers
  PROVE  WebInv' /\ view' = view
<1>1. /\ UNCHANGED <<head, upTo, wire, lastCursor, hydrated, started, retry, view, before,
                     optimisticBy>>
      /\ runAt = "list" /\ runAt' = "hydrate" /\ listed' = head
  BY Zenon DEF ListAnswers, serverVars, viewVars
<1>2. RunInv'
  BY <1>1 DEF WebInv, RunInv
<1>3. head <= head
  BY DEF WebInv, WebType
<1>4. runAt # "stream" /\ runAt' # "stream"
  BY <1>1
<1>5. WebType' /\ PatchInv' /\ CursorInv'
  BY Zenon, <1>1, <1>3, <1>4 DEF WebInv, WebType, PatchInv, CursorInv
<1> QED
  BY Zenon, <1>1, <1>2, <1>5 DEF WebInv

\* Before it the page shows nothing, and no cursor was seen.
LEMMA HydrateKeeps ==
  ASSUME WebInv, Hydrate
  PROVE  WebInv' /\ view'.at >= view.at
<1>1. /\ UNCHANGED <<head, upTo, wire, lastCursor, listed, started, retry, before,
                     optimisticBy>>
      /\ runAt = "hydrate" /\ runAt' = "subscribe" /\ hydrated'
      /\ view' = [at |-> listed, patches |-> {}]
  BY Zenon DEF Hydrate, serverVars
<1>2. /\ view.at = 0 /\ optimisticBy = NoUiCall /\ lastCursor = 0
      /\ listed \in Nat /\ listed <= head /\ upTo <= head /\ wire = <<>>
  BY <1>1 DEF WebInv, WebType, RunInv, PatchInv, CursorInv
<1>3. view'.at = listed /\ view' \in Views /\ listed >= view.at
  <2>1. [at |-> listed, patches |-> {}] \in Views
    BY <1>2 DEF Views
  <2>2. [at |-> listed, patches |-> {}].at = listed
    OBVIOUS
  <2>3. listed >= view.at
    BY <1>2
  <2> QED
    BY Zenon, <1>1, <2>1, <2>2, <2>3
<1>4. RunInv'
  BY <1>1 DEF WebInv, RunInv
<1>5. WebType' /\ PatchInv'
  BY Zenon, <1>1, <1>2, <1>3 DEF WebInv, WebType, PatchInv
<1>6. CursorInv'
  BY <1>1, <1>2, <1>3 DEF CursorInv
<1> QED
  BY Zenon, <1>3, <1>4, <1>5, <1>6 DEF WebInv

LEMMA OpensKeeps ==
  ASSUME WebInv, StreamOpens
  PROVE  WebInv' /\ view' = view
<1>1. /\ UNCHANGED <<head, wire, lastCursor, listed, started, hydrated, retry, view, before,
                     optimisticBy>>
      /\ runAt = "subscribe" /\ runAt' = "stream"
      /\ upTo' = IF lastCursor = 0 THEN head ELSE lastCursor
  BY Zenon DEF StreamOpens, viewVars
<1>2. RunInv'
  BY <1>1 DEF WebInv, RunInv
<1>3. view.at \in Nat
  BY DEF WebInv, WebType, Views
<1>4. upTo' \in Nat /\ view.at <= upTo' /\ upTo' <= head /\ wire = <<>>
  BY <1>1, <1>3 DEF WebInv, WebType, CursorInv
<1>5. Ordered(view.at, wire, upTo')
  BY <1>4 DEF Ordered
<1>6. WebType' /\ PatchInv' /\ CursorInv'
  BY Zenon, <1>1, <1>4, <1>5 DEF WebInv, WebType, PatchInv, CursorInv
<1> QED
  BY Zenon, <1>1, <1>2, <1>6 DEF WebInv

LEMMA SendKeeps ==
  ASSUME WebInv, SendChange
  PROVE  WebInv' /\ view' = view
<1>1. /\ UNCHANGED <<head, lastCursor, listed, started, hydrated, retry, runAt, view, before,
                     optimisticBy>>
      /\ runAt = "stream" /\ upTo < head
      /\ upTo' = upTo + 1 /\ wire' = Append(wire, upTo + 1)
  BY Zenon DEF SendChange, pageVars, viewVars
<1>2. view.at \in Nat /\ upTo \in Nat /\ head \in Nat /\ wire \in Seq(Nat)
  BY DEF WebInv, WebType, Views
<1>3. view.at <= upTo /\ Ordered(view.at, wire, upTo)
  BY Zenon, <1>1 DEF WebInv, CursorInv
<1>4. upTo' \in Nat /\ view.at <= upTo' /\ upTo' <= head
  BY <1>1, <1>2, <1>3
<1>5. Ordered(view.at, wire', upTo') /\ wire' \in Seq(Nat)
  BY Zenon, <1>1, <1>2, <1>3, OrderedSend
<1> QED
  BY Zenon, <1>1, <1>4, <1>5 DEF WebInv, WebType, RunInv, PatchInv, CursorInv

\* Needs the order of the stream; the pending patch is dropped.
LEMMA ReceiveKeeps ==
  ASSUME WebInv, ReceiveChange
  PROVE  WebInv' /\ view'.at >= view.at
<1>1. /\ UNCHANGED <<head, upTo, listed, started, hydrated, retry, runAt, before>>
      /\ runAt = "stream" /\ wire # <<>> /\ wire' = Tail(wire)
      /\ view' = [at |-> Head(wire), patches |-> {}] /\ optimisticBy' = NoUiCall
      /\ lastCursor' = IF Head(wire) > lastCursor THEN Head(wire) ELSE lastCursor
  BY Zenon DEF ReceiveChange, Upsert
<1>2. view.at \in Nat /\ upTo \in Nat /\ wire \in Seq(Nat) /\ lastCursor \in Nat
  BY DEF WebInv, WebType, Views
<1>3. Ordered(view.at, wire, upTo)
  BY Zenon, <1>1 DEF WebInv, CursorInv
<1>4. /\ Head(wire) \in Nat /\ Tail(wire) \in Seq(Nat)
      /\ view.at < Head(wire) /\ Head(wire) <= upTo
      /\ Ordered(Head(wire), Tail(wire), upTo)
  BY Zenon, <1>1, <1>2, <1>3, OrderedReceive
<1>5. view' \in Views /\ view'.at = Head(wire) /\ view'.at >= view.at
  <2>1. \A n \in Nat : /\ [at |-> n, patches |-> {}] \in Views
                       /\ [at |-> n, patches |-> {}].at = n
    BY DEF Views
  <2>2. Head(wire) >= view.at
    BY <1>2, <1>4
  <2> QED
    BY Zenon, <1>1, <1>4, <2>1, <2>2
<1>6. lastCursor' = Head(wire)
  BY <1>1, <1>2, <1>4 DEF WebInv, CursorInv
<1>7. Head(wire) <= head
  BY <1>1, <1>2, <1>4 DEF WebInv, WebType, CursorInv
<1>8. hydrated
  BY <1>1 DEF WebInv, RunInv
<1>9. WebType' /\ RunInv' /\ PatchInv'
  BY Zenon, <1>1, <1>4, <1>5, <1>6, <1>8 DEF WebInv, WebType, RunInv, PatchInv
<1>10. CursorInv'
  BY Zenon, <1>1, <1>4, <1>5, <1>6, <1>7 DEF WebInv, CursorInv
<1> QED
  BY Zenon, <1>5, <1>9, <1>10 DEF WebInv

LEMMA ChangesKeeps ==
  ASSUME WebInv, GoesSilent \/ EntityChanges \/ UNCHANGED webVars
  PROVE  WebInv' /\ view' = view
<1>1. UNCHANGED <<upTo, wire, lastCursor, listed, started, hydrated, retry, runAt, view,
                  before, optimisticBy>>
  BY Zenon DEF GoesSilent, EntityChanges, webVars, serverVars, pageVars, viewVars
<1>2. head' = head \/ head' = head + 1
  BY Zenon DEF GoesSilent, EntityChanges, webVars, serverVars
<1>3. view.at \in Nat /\ listed \in Nat /\ upTo \in Nat /\ head \in Nat
  BY DEF WebInv, WebType, Views
<1>4. head' \in Nat /\ \A n \in {view.at, listed, upTo} : n <= head => n <= head'
  BY <1>2, <1>3
<1> QED
  BY Zenon, <1>1, <1>4 DEF WebInv, WebType, RunInv, PatchInv, CursorInv

LEMMA PatchKeeps ==
  ASSUME WebInv, NEW c \in UiCalls, ApplyOptimistic(c)
  PROVE  WebInv' /\ view'.at >= view.at
<1>1. /\ UNCHANGED <<head, upTo, wire, lastCursor, listed, started, hydrated, retry, runAt>>
      /\ view.at > 0 /\ before' = [before EXCEPT ![c] = view]
      /\ view' = [view EXCEPT !.patches = @ \cup {c}] /\ optimisticBy' = c
  BY Zenon DEF ApplyOptimistic, serverVars, pageVars
<1>2. view \in Views /\ before \in [UiCalls -> Views]
  BY Zenon DEF WebInv, WebType
<1>3. view.at \in Nat /\ view'.at = view.at /\ view' \in Views /\ view'.at >= view.at
  BY <1>1, <1>2 DEF Views
<1>4. before' \in [UiCalls -> Views] /\ before'[c] = view
  BY Zenon, <1>1, <1>2
<1>5. hydrated
  BY <1>1 DEF WebInv, PatchInv
<1>6. WebType' /\ RunInv'
  BY Zenon, <1>1, <1>3, <1>4 DEF WebInv, WebType, RunInv
<1>7. PatchInv'
  BY Zenon, <1>1, <1>3, <1>4, <1>5 DEF PatchInv
<1>8. CursorInv'
  BY Zenon, <1>1, <1>3 DEF WebInv, CursorInv
<1> QED
  BY Zenon, <1>3, <1>6, <1>7, <1>8 DEF WebInv

\* The state that is restored is the one that is shown.
LEMMA AnswerKeeps ==
  ASSUME WebInv, NEW c \in UiCalls, CommandAnswered(c)
  PROVE  WebInv' /\ view'.at >= view.at
<1>1. UNCHANGED <<head, upTo, wire, lastCursor, listed, started, hydrated, retry, runAt, before>>
  BY Zenon DEF CommandAnswered, serverVars, pageVars
<1>2. view \in Views /\ before \in [UiCalls -> Views]
  BY Zenon DEF WebInv, WebType
<1>3. view.at \in Nat /\ view.at >= view.at
  BY <1>2 DEF Views
<1>4. \/ UNCHANGED <<view, optimisticBy>>
      \/ optimisticBy = c /\ optimisticBy' = NoUiCall /\ view' = before[c]
  BY Zenon DEF CommandAnswered
<1>5. /\ view' \in Views /\ view'.at = view.at
      /\ UNCHANGED optimisticBy \/ optimisticBy' = NoUiCall
  BY Zenon, <1>2, <1>4, WebAssumption DEF WebInv, PatchInv
<1>6. WebType' /\ RunInv' /\ PatchInv' /\ CursorInv'
  BY Zenon, <1>1, <1>5 DEF WebInv, WebType, RunInv, PatchInv, CursorInv
<1> QED
  BY Zenon, <1>3, <1>5, <1>6 DEF WebInv

(* Whatever fails, is aborted, resumed or reverted, what the page shows of *)
(* an entity never goes back to an earlier state (upsert, runStream,       *)
(* applyOptimistic and its revert), for any number of changes, of breaks   *)
(* and of commands that overlap.                                           *)
THEOREM WebCorrect == WebSpec => TruthKept
<1>1. WebInv /\ [WebNext]_webVars => WebInv' /\ [view'.at >= view.at]_view
  <2> SUFFICES ASSUME WebInv, WebNext \/ UNCHANGED webVars
               PROVE  WebInv' /\ (view'.at >= view.at \/ view' = view)
    BY Zenon
  <2>1. ASSUME NEW c \in UiCalls, ApplyOptimistic(c) \/ CommandAnswered(c)
        PROVE  WebInv' /\ view'.at >= view.at
    BY Zenon, <2>1, PatchKeeps, AnswerKeeps
  <2> QED
    BY Zenon, <2>1, RunKeeps, ListKeeps, HydrateKeeps, OpensKeeps, SendKeeps, ReceiveKeeps,
       ChangesKeeps DEF WebNext
<1> QED
  BY InitWeb, <1>1, PTL DEF WebSpec, TruthKept
=============================================================================
