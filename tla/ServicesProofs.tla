--------------------------- MODULE ServicesProofs ---------------------------
(***************************************************************************)
(* Proofs about the components around the core, each for every value of    *)
(* its constants: API tokens, widget packs, sessions and enrolment,        *)
(* scripts, hold triggers and the apply pipeline of the configuration.     *)
(***************************************************************************)
EXTENDS TokenScope, Packs, Access, Scripts, HoldTrigger, Config, TLAPS

-----------------------------------------------------------------------------
(* Tokens (module TokenScope): what a token allows never exceeds what the
   token that minted it allows, for any action names, any selectors and any
   number of tokens. *)

\* Every scope TokenScope handles, whatever its size.
AnyScope == [patterns : SUBSET Patterns, targets : SUBSET Labels]

Within(narrow, wide) ==
  \A action \in Names, target \in SUBSET Labels :
    Allow(narrow, action, target) => Allow(wide, action, target)
-----------------------------------------------------------------------------
(* A pattern that tokenPatternCovers accepts matches no action that its    *)
(* parent does not match.                                                  *)
LEMMA CoversIsSound ==
  ASSUME NEW parent \in Patterns, NEW child \in Patterns,
         TokenPatternCovers(parent, child),
         NEW action \in Names, TokenPatternMatches(child, action)
  PROVE  TokenPatternMatches(parent, action)
<1>0. parent.stem \in Names /\ child.stem \in Names
  BY DEF Patterns
<1>1. CASE parent.wild /\ child.wild
  <2>1. <<child.stem, parent.stem>> \in HasPrefix
    BY <1>1 DEF TokenPatternCovers
  <2>2. <<action, child.stem>> \in HasPrefix
    BY <1>1 DEF TokenPatternMatches
  <2>3. <<action, parent.stem>> \in HasPrefix
    BY <1>0, <2>1, <2>2, PrefixOrder
  <2> QED
    BY <1>1, <2>3 DEF TokenPatternMatches
<1>2. CASE parent.wild /\ ~child.wild
  BY <1>2 DEF TokenPatternCovers, TokenPatternMatches
<1>3. CASE ~parent.wild
  BY <1>3 DEF TokenPatternCovers, TokenPatternMatches
<1> QED
  BY <1>1, <1>2, <1>3

(* Contains(s, child) implies that s allows all that child allows: the     *)
(* sentence that documents CompiledTokenScope.Contains.                    *)
LEMMA ContainsIsSound ==
  ASSUME NEW s \in AnyScope, NEW child \in AnyScope, Contains(s, child)
  PROVE  Within(child, s)
<1> SUFFICES ASSUME NEW action \in Names, NEW target \in SUBSET Labels,
                    Allow(child, action, target)
             PROVE  Allow(s, action, target)
  BY DEF Within
<1>0. s.patterns \subseteq Patterns /\ child.patterns \subseteq Patterns
  BY DEF AnyScope
<1>1. ActionAllowed(s, action)
  <2>1. CASE s.patterns = {}
    BY <2>1 DEF ActionAllowed
  <2>2. CASE s.patterns # {}
    <3>1. child.patterns # {} /\ \A p \in child.patterns : CoversPattern(s, p)
      BY <2>2 DEF Contains, ContainsActions
    <3>2. PICK p \in child.patterns : TokenPatternMatches(p, action)
      BY <3>1 DEF Allow, ActionAllowed
    <3>3. PICK q \in s.patterns : TokenPatternCovers(q, p)
      BY <3>1 DEF CoversPattern
    <3>4. TokenPatternMatches(q, action)
      BY <1>0, <3>2, <3>3, CoversIsSound
    <3> QED
      BY <3>4 DEF ActionAllowed
  <2> QED
    BY <2>1, <2>2
<1>2. TargetAllowed(s, target)
  BY DEF Contains, ContainsTargets, Allow, TargetAllowed
<1> QED
  BY <1>1, <1>2 DEF Allow
-----------------------------------------------------------------------------
\* A minting token exists, and keeps the scope that Contains compared with.
TokenInv ==
  /\ issued \subseteq Tokens
  /\ scopes \in [Tokens -> AnyScope]
  /\ minter \in [Tokens -> issued \cup {Session}]
  /\ mint \in [by : issued \cup {Session}, open : BOOLEAN]
  /\ \A t \in issued : minter[t] # Session => Within(scopes[t], scopes[minter[t]])

(* TokenInv holds when no token has been issued. *)
LEMMA InitToken == TokenInit => TokenInv
BY DEF TokenInit, TokenInv, AnyScope, Unscoped, NoCall

(* CreateToken, the one step that adds a token, keeps TokenInv because it  *)
(* checks Contains against the scope its caller still has.                 *)
LEMMA CreateKeeps ==
  ASSUME TokenInv, NEW id \in Tokens, NEW s \in Scopes, CreateToken(id, s)
  PROVE  TokenInv'
<1>1. s \in AnyScope
  BY DEF Scopes, AnyScope
<1>2. issued' \subseteq Tokens
  BY DEF TokenInv, CreateToken
<1>3. scopes' \in [Tokens -> AnyScope]
  BY <1>1 DEF TokenInv, CreateToken
<1>4. minter' \in [Tokens -> issued' \cup {Session}]
  BY DEF TokenInv, CreateToken
<1>5. mint' \in [by : issued' \cup {Session}, open : BOOLEAN]
  BY DEF CreateToken, NoCall
<1>6. ASSUME NEW t \in issued', minter'[t] # Session
      PROVE  Within(scopes'[t], scopes'[minter'[t]])
  <2>1. CASE t = id
    <3>1. minter'[t] = mint.by /\ mint.by \in issued /\ mint.by # id
      BY <1>6, <2>1, SessionIsNoToken DEF TokenInv, CreateToken
    <3>2. scopes'[t] = s /\ scopes'[mint.by] = scopes[mint.by]
      BY <2>1, <3>1 DEF TokenInv, CreateToken
    <3>3. scopes[mint.by] \in AnyScope /\ Contains(scopes[mint.by], s)
      BY <1>6, <3>1 DEF TokenInv, CreateToken
    <3> QED
      BY <1>1, <3>1, <3>2, <3>3, ContainsIsSound
  <2>2. CASE t # id
    <3>1. t \in issued /\ minter'[t] = minter[t] /\ minter[t] # Session
      BY <1>6, <2>2 DEF TokenInv, CreateToken
    <3>2. minter[t] \in issued /\ minter[t] # id
      BY <3>1 DEF TokenInv, CreateToken
    <3>3. scopes'[t] = scopes[t] /\ scopes'[minter[t]] = scopes[minter[t]]
      BY <2>2, <3>1, <3>2 DEF TokenInv, CreateToken
    <3> QED
      BY <3>1, <3>3 DEF TokenInv
  <2> QED
    BY <2>1, <2>2
<1> QED
  BY <1>2, <1>3, <1>4, <1>5, <1>6 DEF TokenInv

(* Every step keeps TokenInv. *)
LEMMA NextToken == TokenInv /\ [TokenNext]_mintVars => TokenInv'
<1> SUFFICES ASSUME TokenInv, [TokenNext]_mintVars
             PROVE  TokenInv'
  OBVIOUS
<1>1. ASSUME NEW by \in Tokens \cup {Session}, Authenticate(by)
      PROVE  TokenInv'
  BY <1>1 DEF TokenInv, Authenticate, Within
<1>2. ASSUME NEW id \in Tokens, NEW s \in Scopes, CreateToken(id, s)
      PROVE  TokenInv'
  BY <1>2, CreateKeeps
<1>3. CASE RefuseToken
  BY <1>3 DEF TokenInv, RefuseToken, NoCall, Within
<1>4. ASSUME NEW id \in Tokens, RevokeToken(id)
      PROVE  TokenInv'
  BY <1>4 DEF TokenInv, RevokeToken, Within
<1>5. CASE UNCHANGED mintVars
  BY <1>5 DEF TokenInv, mintVars, Within
<1> QED
  BY <1>1, <1>2, <1>3, <1>4, <1>5 DEF TokenNext

(* However tokens are minted from tokens, revoked and used meanwhile, none *)
(* allows what the token that minted it does not: the promise of           *)
(* tokenScopeBlobForMint, which refuses a scope broader than its caller's. *)
THEOREM TokensNarrow == TokenSpec => []DelegationNarrows
<1>1. TokenInv => DelegationNarrows
  BY DEF TokenInv, DelegationNarrows, Within
<1> QED
  BY InitToken, NextToken, <1>1, PTL DEF TokenSpec

-----------------------------------------------------------------------------
(* Widget packs (module Packs): the mutex of a name and version, and the
   entry checked under it, keep an installation and the uninstallation of the
   same pack apart although Uninstall takes no mutex. *)

InsPlaces == {"idle", "check", "lock", "commit", "add", "rollback"}
Holding == {"commit", "add", "rollback"}

PackType ==
  /\ packs \subseteq Packs /\ regFile \subseteq Packs /\ dirs \subseteq Packs
  /\ insAt \in [Installers -> InsPlaces]
  /\ insOf \in [Installers -> Packs \cup {NoPack}]
  /\ \A i \in Installers : insAt[i] # "idle" => insOf[i] \in Packs
  /\ uninAt \in {"idle", "remove", "unregister"}
  /\ uninOf \in Packs \cup {NoPack}
  /\ daemonUp \in BOOLEAN

\* The packs whose directory is there, or on its way out, before their entry.
Unentered == {insOf[i] : i \in {j \in Installers : insAt[j] \in {"add", "rollback"}}}

\* Who holds the mutex of a pack holds it alone, the pack has no entry, and its
\* directory stays once it is there.
Exclusive ==
  \A i \in Installers :
    insAt[i] \in Holding =>
      /\ insOf[i] \notin packs
      /\ insAt[i] # "commit" => insOf[i] \in dirs
      /\ \A j \in Installers : insAt[j] \in Holding /\ insOf[j] = insOf[i] => i = j

\* The pack being uninstalled has its entry until the last step.
Uninstalling ==
  /\ uninAt # "idle" => uninOf \in packs
  /\ uninAt = "unregister" => uninOf \notin dirs

DirsKnown == dirs \subseteq packs \cup stray \cup Unentered

EntriesKept ==
  \A p \in packs : p \in dirs \/ p \in hollow \/ (uninAt = "unregister" /\ p = uninOf)

Down ==
  /\ packs = {} /\ uninAt = "idle"
  /\ \A i \in Installers : insAt[i] = "idle"
  /\ dirs \subseteq regFile \cup stray

PackInv ==
  /\ PackType
  /\ IF daemonUp
       THEN regFile = packs /\ Exclusive /\ Uninstalling /\ DirsKnown /\ EntriesKept
       ELSE Down
-----------------------------------------------------------------------------
(* PackInv holds before anything is installed. *)
LEMMA InitPack == PackInit => PackInv
BY DEF PackInit, PackInv, PackType, InsPlaces, Exclusive, Holding, Uninstalling,
       DirsKnown, EntriesKept

(* The steps of Install keep it. *)
LEMMA InstallKeeps ==
  ASSUME PackInv, NEW i \in Installers,
         \/ \E p \in Packs : Stage(i, p)
         \/ CheckCollisions(i) \/ LockPack(i) \/ CommitPack(i)
         \/ AddPack(i) \/ Rollback(i)
  PROVE  PackInv'
<1> USE DEF PackInv, PackType, InsPlaces, Holding
<1>0. daemonUp /\ daemonUp'
  BY DEF Stage, CheckCollisions, LockPack, CommitPack, AddPack, Rollback, Down
<1>1. ASSUME NEW p \in Packs, Stage(i, p) PROVE PackInv'
  BY <1>0, <1>1 DEF Stage, Exclusive, Uninstalling, DirsKnown, EntriesKept, Unentered
<1>2. CASE CheckCollisions(i)
  <2>1. InsReturns(i) \/ InsTo(i, "lock")
    BY <1>2 DEF CheckCollisions
  <2>2. UNCHANGED <<packs, regFile, dirs, uninAt, uninOf, daemonUp, stray, hollow>>
    BY <1>2 DEF CheckCollisions
  <2> QED
    BY <1>0, <1>2, <2>1, <2>2 DEF CheckCollisions, InsReturns, InsTo, Exclusive,
       Uninstalling, DirsKnown, EntriesKept, Unentered
<1>3. CASE LockPack(i)
  BY <1>0, <1>3 DEF LockPack, InsReturns, InsTo, Exclusive, Uninstalling,
                    DirsKnown, EntriesKept, Unentered
<1>4. CASE CommitPack(i)
  BY <1>0, <1>4 DEF CommitPack, InsReturns, InsTo, Exclusive, Uninstalling,
                    DirsKnown, EntriesKept, Unentered
<1>5. CASE AddPack(i)
  <2>1. CASE packs' = packs \cup {insOf[i]} /\ Save /\ InsReturns(i)
    <3>1. PackType' /\ (regFile = packs)'
      BY <1>5, <2>1 DEF AddPack, InsReturns, Save
    <3>2. Exclusive' /\ Uninstalling'
      BY <1>0, <1>5, <2>1 DEF AddPack, InsReturns, Exclusive, Uninstalling
    <3>3. DirsKnown' /\ EntriesKept'
      BY <1>0, <1>5, <2>1 DEF AddPack, InsReturns, Exclusive, DirsKnown, EntriesKept,
                              Unentered
    <3> QED
      BY <1>0, <3>1, <3>2, <3>3
  <2>2. CASE InsTo(i, "rollback") /\ UNCHANGED <<packs, regFile>>
    BY <1>0, <1>5, <2>2 DEF AddPack, InsTo, Exclusive, Uninstalling, DirsKnown,
                            EntriesKept, Unentered
  <2> QED
    BY Zenon, <1>5, <2>1, <2>2 DEF AddPack
<1>6. CASE Rollback(i)
  BY <1>0, <1>6 DEF Rollback, InsReturns, Exclusive, Uninstalling,
                    DirsKnown, EntriesKept, Unentered
<1> QED
  BY Zenon, <1>1, <1>2, <1>3, <1>4, <1>5, <1>6

(* So do those of Uninstall, the end of the daemon and Load. *)
LEMMA OthersKeep ==
  ASSUME PackInv,
         \/ \E p \in Packs : StartUninstall(p)
         \/ RemoveDir \/ RemovePack \/ DaemonDies \/ Load \/ UNCHANGED packVars
  PROVE  PackInv'
<1> USE DEF PackInv, PackType, InsPlaces, Holding
<1>1. ASSUME NEW p \in Packs, StartUninstall(p) PROVE PackInv'
  BY <1>1 DEF StartUninstall, Exclusive, Uninstalling, DirsKnown, EntriesKept, Unentered
<1>2. CASE RemoveDir
  BY <1>2 DEF RemoveDir, UninReturns, Exclusive, Uninstalling, DirsKnown, EntriesKept,
              Unentered, Down
<1>3. CASE RemovePack
  BY <1>3 DEF RemovePack, UninReturns, Save, Exclusive, Uninstalling, DirsKnown,
              EntriesKept, Unentered, Down
<1>4. CASE DaemonDies
  BY Zenon, <1>4 DEF DaemonDies, UninReturns, DirsKnown, Unentered, Down
<1>5. CASE Load
  BY <1>5 DEF Load, Save, Exclusive, Uninstalling, DirsKnown, EntriesKept, Unentered, Down
<1>6. CASE UNCHANGED packVars
  BY <1>6 DEF packVars, Exclusive, Uninstalling, DirsKnown, EntriesKept, Unentered, Down
<1> QED
  BY Zenon, <1>1, <1>2, <1>3, <1>4, <1>5, <1>6

(* Between calls the map, the registry file and the directories of widget  *)
(* packs agree, whatever Install and Uninstall overlap, fail at or die in, *)
(* but for the two windows that PacksAgree names.                          *)
THEOREM PacksCorrect == PackSpec => []PacksAgree
<1>1. PackInv /\ [PackNext]_packVars => PackInv'
  BY InstallKeeps, OthersKeep DEF PackNext
<1>2. PackInv => PacksAgree
  BY DEF PackInv, PacksAgree, DirsKnown, EntriesKept, Unentered
<1> QED
  BY InitPack, <1>1, <1>2, PTL DEF PackSpec

-----------------------------------------------------------------------------
(* Sessions and enrolment (module Access): UsedOnce rests on nothing but a
   write that fails when the row it read has changed. *)

AccessType ==
  /\ session \in Nat /\ secrets \in Secrets
  /\ session <= secrets
  /\ cookie \in 1 .. secrets
  /\ reqAt \in [Requests -> {"idle", "read", "write", "respond", "consume"}]
  /\ presents \in [Requests -> Nat] /\ sees \in [Requests -> Nat]
  /\ taken \in [Secrets -> SUBSET Requests]
  /\ enrolled \subseteq Requests

\* A request that is to write has found a session, and presents a secret that
\* was made.
Requested ==
  \A r \in Requests :
    /\ reqAt[r] \in {"read", "write"} => presents[r] \in 1 .. secrets
    /\ reqAt[r] = "write" => sees[r] \in 1 .. secrets
    /\ reqAt[r] = "respond" => sees[r] \in 1 .. secrets

\* The stored secret, and those still to be made, have been rotated for nobody.
Fresh == \A s \in Secrets : s = session \/ s > secrets => taken[s] = {}

AccessInv ==
  /\ AccessType /\ Requested /\ Fresh
  /\ enrolled # {} => token # "unused"
  /\ UsedOnce

(* AccessInv holds once a session is issued and a token minted. *)
LEMMA InitAccess == AccessInit => AccessInv
BY AccessAssumption DEF AccessInit, AccessInv, AccessType, Requested, Fresh, UsedOnce,
                        Secrets

(* The write of Refresh keeps it. *)
LEMMA WriteKeeps ==
  ASSUME AccessInv, NEW r \in Requests, WriteSession(r)
  PROVE  AccessInv'
<1> USE AccessAssumption DEF AccessInv, AccessType, Requested, Secrets, ReqTo, tokenVars
<1>1. CASE session = sees[r] /\ Rotate(r)
  <2>1. /\ presents[r] = session /\ session \in 1 .. secrets /\ session # 0
        /\ taken[session] = {}
    BY <1>1 DEF WriteSession, Rotate, Fresh
  <2>2. AccessType' /\ Requested'
    BY <1>1, <2>1 DEF WriteSession, Rotate
  <2>3. Fresh'
    BY <1>1, <2>1 DEF WriteSession, Rotate, Fresh
  <2>4. ~revived'
    BY <1>1, <2>1, Zenon DEF WriteSession, Rotate, UsedOnce
  <2>5. UsedOnce'
    BY <1>1, <2>1, <2>4 DEF WriteSession, Rotate, UsedOnce
  <2>6. enrolled' # {} => token' # "unused"
    BY Zenon, <1>1 DEF WriteSession, Rotate
  <2> HIDE DEF AccessType, Requested
  <2> QED
    BY Zenon, <2>2, <2>3, <2>5, <2>6
<1>2. CASE Revoke(r)
  BY <1>2 DEF WriteSession, Revoke, Fresh, UsedOnce
<1>3. CASE ReqTo(r, "idle") /\ UNCHANGED <<session, secrets, sees, taken, revived>>
  BY <1>3 DEF WriteSession, Fresh, UsedOnce
<1> QED
  BY Zenon, <1>1, <1>2, <1>3 DEF WriteSession

(* So do the other steps of Refresh, those of Redeem, Logout, the sweep and *)
(* the deadlines.                                                           *)
LEMMA NextAccess == AccessInv /\ [AccessNext]_accessVars => AccessInv'
<1> SUFFICES ASSUME AccessInv, [AccessNext]_accessVars PROVE AccessInv'
  OBVIOUS
<1> USE DEF AccessInv, AccessType, Requested, Fresh, UsedOnce, Secrets, ReqTo,
            tokenVars, sessionVars
<1>1. ASSUME NEW r \in Requests, SendRefresh(r) PROVE AccessInv'
  BY <1>1 DEF SendRefresh
<1>2. ASSUME NEW r \in Requests, ReadSession(r) PROVE AccessInv'
  <2>1. ReqTo(r, "idle") \/ (session # 0 /\ ReqTo(r, "write"))
    BY <1>2, Zenon DEF ReadSession
  <2>2. CASE ReqTo(r, "idle")
    BY <1>2, <2>2 DEF ReadSession
  <2>3. CASE session # 0 /\ ReqTo(r, "write")
    BY <1>2, <2>3 DEF ReadSession
  <2> QED
    BY Zenon, <2>1, <2>2, <2>3
<1>3. ASSUME NEW r \in Requests, Respond(r) PROVE AccessInv'
  BY <1>3 DEF Respond
<1>4. ASSUME NEW r \in Requests, ReadToken(r) PROVE AccessInv'
  BY <1>4 DEF ReadToken
<1>5. ASSUME NEW r \in Requests, ConsumeToken(r) PROVE AccessInv'
  BY Zenon, <1>5 DEF ConsumeToken
<1>6. CASE Logout
  BY <1>6 DEF Logout
<1>7. CASE SessionOverdue
  BY <1>7 DEF SessionOverdue
<1>8. CASE TokenOverdue
  BY <1>8 DEF TokenOverdue
<1>9. CASE SweepTokens
  BY <1>9 DEF SweepTokens
<1>10. CASE UNCHANGED accessVars
  BY <1>10 DEF accessVars
<1> QED
  BY Zenon, WriteKeeps, <1>1, <1>2, <1>3, <1>4, <1>5, <1>6, <1>7, <1>8, <1>9, <1>10 DEF AccessNext

(* No refresh secret is rotated for two requests, no enrolment token       *)
(* redeemed by two, and no rotation revives a revoked session, however the *)
(* transactions of Refresh, Redeem, Logout and Sweep interleave.           *)
THEOREM AccessCorrect == AccessSpec => []UsedOnce
<1>1. AccessInv => UsedOnce
  BY DEF AccessInv
<1> QED
  BY InitAccess, NextAccess, <1>1, PTL DEF AccessSpec

-----------------------------------------------------------------------------
(* Scripts (module Scripts): the order of Call's deferred functions is what
   Cancel and Stop rely on. *)

Counted == {"execute", "record", "uncount"}

ScriptType ==
  /\ callAt \in [Calls -> {"new", "count", "finish", "returned"} \cup Counted]
  /\ inFlight \subseteq Calls /\ awaits \subseteq Calls

\* A call is counted until its last event is appended, and it closes its done
\* channel only after that.
ScriptInv ==
  /\ ScriptType
  /\ \A k \in Calls : callAt[k] \in Counted <=> k \in inFlight
  /\ \A k \in Calls : callAt[k] \in {"uncount", "finish"} => k \in recorded \cup gone
  /\ \A k \in ended : k \in recorded \cup gone
  /\ \A k \in awaits : k \in inFlight \cup recorded \cup gone
  /\ WaitedIsRecorded

(* ScriptInv holds before the first call. *)
LEMMA InitScript == ScriptInit => ScriptInv
BY DEF ScriptInit, ScriptInv, ScriptType, Counted, WaitedIsRecorded

(* Every step of a call, of Cancel and of Stop keeps it. *)
LEMMA NextScript == ScriptInv /\ [ScriptNext]_scriptVars => ScriptInv'
<1> SUFFICES ASSUME ScriptInv, [ScriptNext]_scriptVars PROVE ScriptInv'
  OBVIOUS
<1> USE DEF ScriptInv, ScriptType, Counted, WaitedIsRecorded, CallTo, outside
<1>1. ASSUME NEW k \in Calls,
             \/ RegisterRun(k) \/ CountCall(k) \/ Execute(k) \/ ForgetRun(k)
      PROVE  ScriptInv'
  BY <1>1 DEF RegisterRun, CountCall, Execute, ForgetRun
<1>2. ASSUME NEW k \in Calls, Record(k) PROVE ScriptInv'
  BY <1>2 DEF Record
<1>3. ASSUME NEW k \in Calls, UncountCall(k) PROVE ScriptInv'
  BY <1>3 DEF UncountCall
<1>4. ASSUME NEW k \in Calls, FinishRun(k) PROVE ScriptInv'
  BY <1>4 DEF FinishRun
<1>5. ASSUME NEW k \in Calls, CallerGoes(k) PROVE ScriptInv'
  BY <1>5 DEF CallerGoes
<1>6. CASE CancelRun \/ CancelReturns
  BY <1>6 DEF CancelRun, CancelReturns
<1>7. CASE StopEngine \/ StopReturns
  BY <1>7 DEF StopEngine, StopReturns
<1>8. CASE UNCHANGED scriptVars
  BY <1>8 DEF scriptVars
<1> QED
  BY Zenon, <1>1, <1>2, <1>3, <1>4, <1>5, <1>6, <1>7, <1>8 DEF ScriptNext

(* Cancel and Stop of the script engine, when they return without an error, *)
(* have waited for the events of the runs they were called for, however     *)
(* many calls share a correlation id.                                       *)
THEOREM ScriptsCorrect == ScriptSpec => []WaitedIsRecorded
<1>1. ScriptInv => WaitedIsRecorded
  BY DEF ScriptInv
<1> QED
  BY InitScript, NextScript, <1>1, PTL DEF ScriptSpec

-----------------------------------------------------------------------------
(* Hold triggers (module HoldTrigger): a timer that a later change could not
   cancel comes only of a change that overtakes an expired one. *)

Active(n) == timers[n] \in {"running", "expired"}

HoldType ==
  /\ made \in 0 .. MaxChanges
  /\ slot \in 0 .. MaxChanges
  /\ timers \in [Changes -> {"none", "running", "stopped", "expired", "cleared",
                             "delivered"}]
  /\ holdPc \in {"idle", "arm", "store"}
  /\ holdPc # "idle" => made # 0 /\ slot = 0

\* Unless a change has overtaken an expiry, one timer at most is under way, and
\* none while the timer of the newest change is still to be made.
OneHold ==
  ~raced =>
    /\ \A n, m \in Changes : Active(n) /\ Active(m) => n = m
    /\ holdPc = "arm" => \A n \in Changes : ~Active(n)

HoldInv == HoldType /\ OneHold /\ HoldCancellable

(* HoldInv holds before the first change. *)
LEMMA InitHold == HoldInit => HoldInv
<1> SUFFICES ASSUME HoldInit PROVE HoldInv
  OBVIOUS
<1>1. 0 \in 0 .. MaxChanges
  BY HoldAssumption
<1>2. HoldType
  BY Zenon, <1>1 DEF HoldInit, HoldType
<1>3. \A n \in Changes : timers[n] = "none"
  BY Zenon DEF HoldInit
<1> QED
  BY Zenon, <1>2, <1>3 DEF HoldInv, OneHold, HoldCancellable, Active

(* Timer.Stop, by a change or by Stop, leaves no timer running that was in the *)
(* slot and starts none.                                                       *)
LEMMA StopSlotStops ==
  ASSUME HoldType, StopSlot
  PROVE  /\ timers' \in [Changes -> {"none", "running", "stopped", "expired", "cleared",
                                     "delivered"}]
         /\ slot' = 0
         /\ \A n \in Changes : Active(n)' => Active(n)
         /\ \A n \in Changes : timers'[n] = "running" => timers[n] = "running" /\ n # slot
         /\ \A n \in Changes : timers'[n] = "expired" => timers[n] = "expired"
<1>1. /\ slot' = 0
      /\ timers' = [n \in Changes |->
                      IF n = slot /\ timers[n] = "running" THEN "stopped" ELSE timers[n]]
  BY DEF StopSlot
<1>2. \A n \in Changes :
        timers'[n] = IF n = slot /\ timers[n] = "running" THEN "stopped" ELSE timers[n]
  BY Zenon, <1>1
<1>3. timers' \in [Changes -> {"none", "running", "stopped", "expired", "cleared",
                               "delivered"}]
  BY <1>1 DEF HoldType
<1> QED
  BY Zenon, <1>1, <1>2, <1>3 DEF Active

(* Every step of the matcher, of its timers and of the reload keeps HoldInv. *)
LEMMA NextHold == HoldInv /\ [HoldNext]_holdVars => HoldInv'
<1> SUFFICES ASSUME HoldInv, [HoldNext]_holdVars PROVE HoldInv'
  OBVIOUS
<1>0. HoldType /\ OneHold /\ HoldCancellable
  BY DEF HoldInv
<1>1. ASSUME NEW state \in {"on", "off"}, OnStateChanged(state) PROVE HoldInv'
  <2>1. /\ StopSlot /\ holdPc = "idle" /\ made < MaxChanges /\ made' = made + 1
        /\ holdPc' \in {"idle", "arm"}
        /\ ~raced' => ~raced /\ \A n \in Changes : timers[n] # "expired"
    BY Zenon, <1>1 DEF OnStateChanged
  <2>2. /\ slot' = 0
        /\ ~raced' => \A n \in Changes : ~Active(n)'
    BY Zenon, <1>0, <2>1, StopSlotStops DEF HoldCancellable, Active
  <2>3. made' \in 0 .. MaxChanges /\ made' # 0
    BY <1>0, <2>1, HoldAssumption DEF HoldType
  <2>4. HoldType'
    <3>1. slot' \in 0 .. MaxChanges
      BY <2>2, HoldAssumption
    <3> QED
      BY Zenon, <1>0, <2>1, <2>2, <2>3, <3>1, StopSlotStops DEF HoldType
  <2> QED
    BY Zenon, <2>2, <2>4 DEF HoldInv, OneHold, HoldCancellable, Active
<1>2. CASE Arm
  <2>1. /\ holdPc = "arm" /\ holdPc' = "store"
        /\ timers' = [timers EXCEPT ![made] = "running"]
        /\ made' = made /\ slot' = slot /\ raced' = raced
    BY Zenon, <1>2 DEF Arm
  <2>2. made \in Changes /\ slot = 0
    BY <1>0, <2>1 DEF HoldType, Changes
  <2>3. /\ timers'[made] = "running"
        /\ \A n \in Changes : n # made => timers'[n] = timers[n]
    BY Zenon, <1>0, <2>1, <2>2 DEF HoldType
  <2>4. HoldType'
    BY Zenon, <1>0, <2>1, <2>2 DEF HoldType
  <2>5. ~raced => \A n \in Changes : Active(n)' => n = made
    BY Zenon, <1>0, <2>1, <2>3 DEF OneHold, Active
  <2> QED
    BY Zenon, <2>1, <2>4, <2>5 DEF HoldInv, OneHold, HoldCancellable, Active
<1>3. CASE StoreTimer
  <2>1. /\ holdPc = "store" /\ holdPc' = "idle" /\ slot' = made
        /\ timers' = timers /\ made' = made /\ raced' = raced
    BY Zenon, <1>3 DEF StoreTimer
  <2>2. \A n \in Changes : n # 0
    BY DEF Changes
  <2>3. slot = 0
    BY Zenon, <1>0, <2>1 DEF HoldType
  <2> QED
    BY Zenon, <1>0, <2>1, <2>2, <2>3
       DEF HoldInv, HoldType, OneHold, HoldCancellable, Active
<1>4. ASSUME NEW n \in Changes, HoldTimer(n) PROVE HoldInv'
  <2>1. PICK to \in {"expired", "cleared", "delivered"} :
          /\ timers' = [timers EXCEPT ![n] = to]
          /\ to = "expired" => timers[n] = "running"
    BY Zenon, <1>4 DEF HoldTimer, Expires, TimerClears, DeliverHold
  <2>2. /\ made' = made /\ holdPc' = holdPc /\ raced' = raced
        /\ slot' = slot \/ (slot' = 0 /\ timers[n] = "expired")
    BY Zenon, <1>4 DEF HoldTimer, Expires, TimerClears, DeliverHold
  <2>3. timers'[n] = to /\ \A m \in Changes : m # n => timers'[m] = timers[m]
    BY Zenon, <1>0, <2>1 DEF HoldType
  <2>4. HoldType'
    <3>1. timers' \in [Changes -> {"none", "running", "stopped", "expired", "cleared",
                                   "delivered"}]
      BY Zenon, <1>0, <2>1 DEF HoldType
    <3>2. slot' \in 0 .. MaxChanges
      BY <1>0, <2>2, HoldAssumption DEF HoldType
    <3> QED
      BY Zenon, <1>0, <2>2, <3>1, <3>2 DEF HoldType
  <2>5. /\ \A m \in Changes : Active(m)' => Active(m)
        /\ \A m \in Changes : timers'[m] = "running" => timers[m] = "running" /\ m # n
    BY Zenon, <2>1, <2>3 DEF Active
  <2>6. OneHold'
    BY Zenon, <1>0, <2>2, <2>5 DEF OneHold
  <2>7. HoldCancellable'
    <3>1. ASSUME NEW m \in Changes, timers'[m] = "running", ~raced
          PROVE  slot' = slot
      BY Zenon, <1>0, <2>2, <2>5, <3>1 DEF OneHold, Active
    <3> QED
      BY Zenon, <1>0, <2>2, <2>5, <3>1 DEF HoldCancellable
  <2> QED
    BY <2>4, <2>6, <2>7 DEF HoldInv
<1>5. CASE StopMatcher
  <2>1. /\ StopSlot /\ holdPc' = holdPc /\ made' = made
        /\ ~raced' => ~raced
    BY Zenon, <1>5 DEF StopMatcher
  <2>2. HoldType'
    <3>1. slot' = 0 /\ slot' \in 0 .. MaxChanges
      BY <1>0, <2>1, StopSlotStops, HoldAssumption
    <3> QED
      BY Zenon, <1>0, <2>1, <3>1, StopSlotStops DEF HoldType
  <2>3. OneHold'
    BY Zenon, <1>0, <2>1, StopSlotStops DEF OneHold
  <2>4. HoldCancellable'
    BY Zenon, <1>0, <2>1, StopSlotStops DEF HoldCancellable
  <2> QED
    BY <2>2, <2>3, <2>4 DEF HoldInv
<1>6. CASE UnregisterMatcher
  BY Zenon, <1>0, <1>6
     DEF UnregisterMatcher, HoldInv, HoldType, OneHold, HoldCancellable, Active
<1>7. CASE UNCHANGED holdVars
  BY Zenon, <1>0, <1>7
     DEF holdVars, HoldInv, HoldType, OneHold, HoldCancellable, Active
<1> QED
  BY Zenon, <1>1, <1>2, <1>3, <1>4, <1>5, <1>6, <1>7 DEF HoldNext

(* Unless a change has come between the expiry of a timer and its taking   *)
(* the lock, every running timer is the one the next change or Stop will   *)
(* find (OnStateChanged, Stop), for any number of changes.                 *)
THEOREM HoldCorrect == HoldSpec => []HoldCancellable
<1>1. HoldInv => HoldCancellable
  BY DEF HoldInv
<1> QED
  BY InitHold, NextHold, <1>1, PTL DEF HoldSpec

-----------------------------------------------------------------------------
(* The apply pipeline (module Config) for any instances, bundles, edit sessions
   and failures, provided that no Apply begins while another one runs. *)

Places == {"idle", "evaluate", "diff", "sync", "append", "hooks"}
Diffs == [removed : SUBSET Ids, added : SUBSET Ids, changed : SUBSET Ids,
          restart : SUBSET Ids]

PipelineType ==
  /\ applyPc \in [Appliers -> Places]
  /\ todo \in [Appliers -> Diffs]
  /\ touched \in [Appliers -> SUBSET Ids]
  /\ DOMAIN snap = Appliers /\ DOMAIN host = Ids

Serial == \A a, b \in Appliers : applyPc[a] # "idle" /\ applyPc[b] # "idle" => a = b

Untouched == \A a \in Appliers : applyPc[a] # "sync" => touched[a] = {}

Settled(i) == host[i] = Want(current)[i]

\* Outside the loops of Apply the host follows the current snapshot.
Followed ==
  (\A a \in Appliers : applyPc[a] # "sync") => \A i \in Ids \ stranded : Settled(i)

\* Inside them, what is left of the diff is what the two snapshots disagree on.
Differs(a) ==
  /\ \A i \in todo[a].removed : current[i] # "absent" /\ snap[a][i] = "absent"
  /\ \A i \in todo[a].added : current[i] = "absent" /\ snap[a][i] # "absent"
  /\ \A i \in todo[a].changed \cup todo[a].restart :
       current[i] # "absent" /\ snap[a][i] # "absent" /\ current[i] # snap[a][i]
  /\ todo[a].changed \cap todo[a].restart = {}
  /\ \A i, j \in todo[a].restart : i = j

\* An instance that is not touched is as it was, one that is dealt with is as
\* the new snapshot says, and one to be restarted is stopped.
Halfway(a) ==
  \A i \in Ids \ stranded :
    /\ i \notin touched[a] => Settled(i)
    /\ i \in todo[a].removed \cup todo[a].added \cup todo[a].changed => i \notin touched[a]
    /\ i \in todo[a].restart => host[i] = "absent"
    /\ i \notin todo[a].removed \cup todo[a].added \cup todo[a].changed \cup todo[a].restart
         => host[i] = Want(snap[a])[i]

Synced == \A a \in Appliers : applyPc[a] = "sync" => Differs(a) /\ Halfway(a)

PipelineInv == PipelineType /\ Serial /\ Untouched /\ Followed /\ Synced

-----------------------------------------------------------------------------
(* PipelineInv holds after the first Apply. *)
LEMMA InitPipeline == Init => PipelineInv
<1> SUFFICES ASSUME Init PROVE PipelineInv
  OBVIOUS
<1>1. /\ applyPc = [a \in Appliers |-> "idle"] /\ todo = [a \in Appliers |-> NoDiff]
      /\ touched = [a \in Appliers |-> {}] /\ DOMAIN snap = Appliers
      /\ host = Want(current)
  BY DEF Init
<1>2. NoDiff \in Diffs
  BY DEF NoDiff, Diffs
<1>3. PipelineType
  BY <1>1, <1>2 DEF PipelineType, Places, Want
<1>4. \A a \in Appliers : applyPc[a] = "idle" /\ touched[a] = {}
  BY Zenon, <1>1
<1>5. Serial /\ Untouched /\ Synced
  BY <1>4 DEF Serial, Untouched, Synced
<1>6. Followed
  BY Zenon, <1>1 DEF Followed, Settled
<1> QED
  BY Zenon, <1>3, <1>5, <1>6 DEF PipelineInv

(* A return of Apply, with the touched instances counted as stranded, keeps *)
(* it: what the error leaves behind is confined to them.                    *)
LEMMA ErrorKeeps ==
  ASSUME PipelineInv, NEW a \in Appliers, applyPc[a] # "idle", ReturnsError(a)
  PROVE  PipelineInv'
<1> USE DEF PipelineInv, ReturnsError, Returns, Goto, effects
<1>1. PipelineType'
  BY DEF PipelineType, Places, Diffs, NoDiff
<1>2. Serial' /\ Untouched'
  BY DEF PipelineType, Serial, Untouched
<1>3. \A b \in Appliers : applyPc'[b] = "idle"
  BY DEF PipelineType, Serial
<1>4. \A i \in Ids \ stranded' : Settled(i)
  BY <1>3 DEF PipelineType, Serial, Followed, Synced, Halfway
<1>5. Followed' /\ Synced'
  BY <1>3, <1>4 DEF Followed, Synced, Settled
<1> QED
  BY <1>1, <1>2, <1>5

(* A call of the driver host keeps it. *)
LEMMA CallKeeps ==
  ASSUME PipelineInv, NEW a \in Appliers, applyPc[a] = "sync", Sync(a)
  PROVE  PipelineInv'
<1> USE DEF PipelineInv
<1>1. CASE ReturnsError(a)
  BY <1>1, ErrorKeeps
<1>2. ASSUME NEW i \in Ids, NEW left \in Diffs, NEW config,
             Did(a, i, left, config),
             Differs(a)',
             \A j \in Ids \ {i} :
               /\ j \in left.removed <=> j \in todo[a].removed
               /\ j \in left.added <=> j \in todo[a].added
               /\ j \in left.changed <=> j \in todo[a].changed
               /\ j \in left.restart <=> j \in todo[a].restart,
             i \notin left.removed \cup left.added \cup left.changed,
             i \in left.restart => config = "absent",
             i \notin left.restart \cup stranded => config = Want(snap[a])[i]
      PROVE  PipelineInv'
  <2>1. PipelineType' /\ Serial' /\ Untouched'
    BY <1>2 DEF Did, PipelineType, Serial, Untouched, effects
  <2>2. Followed'
    BY <1>2 DEF Did, Followed
  <2>3. Halfway(a)'
    <3> SUFFICES ASSUME NEW j \in Ids \ stranded
                 PROVE  /\ j \notin touched'[a] => Settled(j)'
                        /\ j \in left.removed \cup left.added \cup left.changed
                             => j \notin touched'[a]
                        /\ j \in left.restart => host'[j] = "absent"
                        /\ j \notin left.removed \cup left.added \cup left.changed
                                      \cup left.restart
                             => host'[j] = Want(snap[a])[j]
      <4>1. todo'[a] = left /\ snap' = snap /\ stranded' = stranded
        BY <1>2 DEF Did, PipelineType, history
      <4> QED
        BY <4>1 DEF Halfway, Want
    <3>1. CASE j = i
      BY <1>2, <3>1 DEF Did, PipelineType
    <3>2. CASE j # i
      <4>1. Halfway(a)
        BY DEF Synced
      <4>2. /\ host'[j] = host[j] /\ current' = current
            /\ j \in touched'[a] <=> j \in touched[a]
        BY <1>2, <3>2 DEF Did, PipelineType
      <4> QED
        BY <1>2, <3>2, <4>1, <4>2 DEF Halfway, Settled, Want
    <3> QED
      BY <3>1, <3>2
  <2>4. Synced'
    BY <1>2, <2>3 DEF Did, Synced, Serial, PipelineType
  <2> QED
    BY <2>1, <2>2, <2>4
<1>3. ASSUME NEW i \in todo[a].removed,
             Unregister(a, i, [todo[a] EXCEPT !.removed = @ \ {i}])
      PROVE  PipelineInv'
  <2> DEFINE left == [todo[a] EXCEPT !.removed = @ \ {i}]
  <2>0. i \in Ids /\ todo[a] \in Diffs /\ todo[a].removed \ {i} \in SUBSET Ids
    BY DEF PipelineType, Diffs
  <2>1. left \in Diffs /\ i \in Ids
    BY Zenon, <2>0 DEF Diffs
  <2>2. CASE Did(a, i, left, "absent")
    <3>1. Differs(a)'
      BY <2>1, <2>2 DEF Did, Differs, Synced, PipelineType, Diffs
    <3>2. i \notin left.removed \cup left.added \cup left.changed \cup left.restart
      BY <2>1 DEF Synced, Differs, PipelineType, Diffs
    <3>3. \A j \in Ids \ {i} :
            /\ j \in left.removed <=> j \in todo[a].removed
            /\ j \in left.added <=> j \in todo[a].added
            /\ j \in left.changed <=> j \in todo[a].changed
            /\ j \in left.restart <=> j \in todo[a].restart
      BY <2>0 DEF Diffs
    <3>4. Want(snap[a])[i] = "absent"
      BY <2>1 DEF Synced, Differs, Want
    <3> HIDE DEF left, PipelineInv
    <3> QED
      BY Zenon, <1>2, <2>1, <2>2, <3>1, <3>2, <3>3, <3>4
  <2> QED
    BY <1>1, <1>3, <2>2 DEF Unregister
<1>w. ASSUME NEW i \in Ids
      PROVE  Want(snap[a])[i] = IF snap[a][i] = "off" THEN "absent" ELSE snap[a][i]
  BY DEF Want
<1>4. ASSUME NEW i \in todo[a].added,
             Register(a, i, [todo[a] EXCEPT !.added = @ \ {i}])
      PROVE  PipelineInv'
  <2> DEFINE left == [todo[a] EXCEPT !.added = @ \ {i}]
  <2>0. i \in Ids /\ todo[a] \in Diffs /\ todo[a].added \ {i} \in SUBSET Ids
    BY DEF PipelineType, Diffs
  <2>1. left \in Diffs /\ i \in Ids
    BY Zenon, <2>0 DEF Diffs
  <2>2. ASSUME NEW config, Did(a, i, left, config),
               i \notin stranded => config = Want(snap[a])[i]
        PROVE  PipelineInv'
    <3>1. Differs(a)'
      BY <2>1, <2>2 DEF Did, Differs, Synced, PipelineType, Diffs
    <3>2. i \notin left.removed \cup left.added \cup left.changed \cup left.restart
      BY <2>1 DEF Synced, Differs, PipelineType, Diffs
    <3>3. \A j \in Ids \ {i} :
            /\ j \in left.removed <=> j \in todo[a].removed
            /\ j \in left.added <=> j \in todo[a].added
            /\ j \in left.changed <=> j \in todo[a].changed
            /\ j \in left.restart <=> j \in todo[a].restart
      BY <2>0 DEF Diffs
    <3> HIDE DEF left, PipelineInv
    <3> QED
      BY Zenon, <1>2, <2>1, <2>2, <3>1, <3>2, <3>3
  <2>3. i \notin stranded => host[i] = "absent"
    BY <2>1 DEF Synced, Differs, Halfway, Settled, Want
  <2> HIDE DEF left, PipelineInv
  <2>4. CASE snap[a][i] = "off" /\ Did(a, i, left, host[i])
    BY Zenon, <1>w, <2>1, <2>2, <2>3, <2>4
  <2>5. CASE snap[a][i] # "off" /\ Did(a, i, left, snap[a][i])
    BY Zenon, <1>w, <2>1, <2>2, <2>5
  <2> QED
    BY Zenon, <1>1, <1>4, <2>4, <2>5 DEF Register, left
<1>5. ASSUME NEW i \in todo[a].changed, todo[a].restart = {},
             Unregister(a, i, [todo[a] EXCEPT !.changed = @ \ {i}, !.restart = {i}])
      PROVE  PipelineInv'
  <2> DEFINE left == [todo[a] EXCEPT !.changed = @ \ {i}, !.restart = {i}]
  <2>0. i \in Ids /\ todo[a] \in Diffs /\ todo[a].changed \ {i} \in SUBSET Ids
    BY DEF PipelineType, Diffs
  <2>1. left \in Diffs /\ i \in Ids
    BY Zenon, <2>0 DEF Diffs
  <2>2. CASE Did(a, i, left, "absent")
    <3>1. Differs(a)'
      BY <2>1, <2>2 DEF Did, Differs, Synced, PipelineType, Diffs
    <3>2. i \notin left.removed \cup left.added \cup left.changed
      BY <2>1 DEF Synced, Differs, PipelineType, Diffs
    <3>3. \A j \in Ids \ {i} :
            /\ j \in left.removed <=> j \in todo[a].removed
            /\ j \in left.added <=> j \in todo[a].added
            /\ j \in left.changed <=> j \in todo[a].changed
            /\ j \in left.restart <=> j \in todo[a].restart
      BY <1>5, <2>0 DEF Diffs
    <3>4. i \in left.restart
      BY <2>0 DEF Diffs
    <3> HIDE DEF left, PipelineInv
    <3> QED
      BY <1>2, <2>1, <2>2, <3>1, <3>2, <3>3, <3>4
  <2> QED
    BY <1>1, <1>5, <2>2 DEF Unregister
<1>6. ASSUME NEW i \in todo[a].restart,
             Register(a, i, [todo[a] EXCEPT !.restart = {}])
      PROVE  PipelineInv'
  <2> DEFINE left == [todo[a] EXCEPT !.restart = {}]
  <2>1. left \in Diffs /\ i \in Ids
    BY DEF PipelineType, Diffs
  <2>2. ASSUME NEW config, Did(a, i, left, config),
               i \notin stranded => config = Want(snap[a])[i]
        PROVE  PipelineInv'
    <3>1. Differs(a)'
      <4>1. todo'[a] = left /\ UNCHANGED <<snap, current>>
        BY <2>2 DEF Did, PipelineType
      <4>2. left.restart = {} /\ left.removed = todo[a].removed
              /\ left.added = todo[a].added /\ left.changed = todo[a].changed
        BY DEF PipelineType, Diffs
      <4> QED
        BY <4>1, <4>2 DEF Differs, Synced
    <3>2. i \notin left.removed \cup left.added \cup left.changed \cup left.restart
      BY <2>1 DEF Synced, Differs, PipelineType, Diffs
    <3>3. \A j \in Ids \ {i} : j \notin todo[a].restart
      BY DEF Synced, Differs
    <3> QED
      BY Zenon, <1>2, <2>1, <2>2, <3>1, <3>2, <3>3 DEF PipelineType, Diffs
  <2>3. i \notin stranded => host[i] = "absent"
    BY <2>1 DEF Synced, Differs, Halfway, Settled, Want
  <2> HIDE DEF left, PipelineInv
  <2>4. CASE snap[a][i] = "off" /\ Did(a, i, left, host[i])
    BY Zenon, <1>w, <2>1, <2>2, <2>3, <2>4
  <2>5. CASE snap[a][i] # "off" /\ Did(a, i, left, snap[a][i])
    BY Zenon, <1>w, <2>1, <2>2, <2>5
  <2> QED
    BY Zenon, <1>1, <1>6, <2>4, <2>5 DEF Register, left
<1> QED
  BY Zenon, <1>3, <1>4, <1>5, <1>6 DEF Sync

(* So do the other steps of Apply. *)
LEMMA ApplyKeeps ==
  ASSUME PipelineInv, NEW a \in Appliers, ApplyStep(a)
  PROVE  PipelineInv'
<1> USE DEF PipelineInv, Goto, effects, history
<1>1. CASE ReturnsError(a) /\ applyPc[a] # "idle"
  BY <1>1, ErrorKeeps
<1>2. CASE Evaluate(a)
  <2>0. /\ \/ Goto(a, "diff") /\ UNCHANGED <<todo, touched>>
                /\ snap' = [snap EXCEPT ![a] = disk]
           \/ Returns(a)
        /\ UNCHANGED host
    BY <1>2 DEF Evaluate
  <2>1. PipelineType' /\ Serial' /\ Untouched'
    <3>1. PipelineType'
      <4>1. NoDiff \in Diffs
        BY DEF NoDiff, Diffs
      <4>2. CASE Returns(a)
        BY <2>0, <4>1, <4>2 DEF Returns, PipelineType, Places
      <4> QED
        BY <2>0, <4>2 DEF PipelineType, Places
    <3>2. Serial' /\ Untouched'
      BY <1>2, <2>0 DEF Evaluate, Returns, PipelineType, Serial, Untouched
    <3> QED
      BY <3>1, <3>2
  <2>2. Followed'
    BY <1>2 DEF Evaluate, Returns, PipelineType, Serial, Followed, Settled
  <2>3. Synced'
    BY <1>2 DEF Evaluate, Returns, PipelineType, Serial, Synced
  <2> QED
    BY <2>1, <2>2, <2>3
<1>3. CASE TakeDiff(a) /\ todo' = [todo EXCEPT ![a] = Diff(current, snap[a])]
           /\ Goto(a, "sync") /\ UNCHANGED <<snap, touched, effects, history>>
  <2>1. \A i \in Ids \ stranded : Settled(i)
    BY <1>3 DEF TakeDiff, PipelineType, Serial, Followed
  <2>2. Diff(current, snap[a]) \in Diffs
    BY DEF Diff, Diffs
  <2>3. PipelineType' /\ Serial' /\ Untouched' /\ Followed'
    BY <1>3, <2>2 DEF TakeDiff, PipelineType, Places, Serial, Untouched, Followed
  <2>4. touched[a] = {} /\ todo'[a] = Diff(current, snap[a])
    BY <1>3 DEF TakeDiff, PipelineType, Untouched
  <2>a. UNCHANGED <<current, snap, host, stranded, touched>>
    BY Zenon, <1>3 DEF TakeDiff
  <2>5. Differs(a)'
    <3> DEFINE d == Diff(current, snap[a])
    <3>1. /\ \A i \in d.removed : current[i] # "absent" /\ snap[a][i] = "absent"
          /\ \A i \in d.added : current[i] = "absent" /\ snap[a][i] # "absent"
          /\ \A i \in d.changed \cup d.restart :
               current[i] # "absent" /\ snap[a][i] # "absent" /\ current[i] # snap[a][i]
          /\ d.changed \cap d.restart = {}
          /\ \A i, j \in d.restart : i = j
      BY Zenon DEF Diff
    <3> QED
      BY Zenon, <2>a, <2>4, <3>1 DEF Differs
  <2>6. Halfway(a)'
    <3> DEFINE d == Diff(current, snap[a])
    <3>1. ASSUME NEW i \in Ids \ stranded
          PROVE  /\ i \notin d.restart
                 /\ i \notin d.removed \cup d.added \cup d.changed \cup d.restart
                      => Want(current)[i] = Want(snap[a])[i]
      BY DEF Diff, Want
    <3>2. \A i \in Ids \ stranded : Settled(i)
      BY Zenon, <2>1
    <3> QED
      BY Zenon, <2>a, <2>4, <3>1, <3>2 DEF Halfway, Settled
  <2>7. \A b \in Appliers : applyPc'[b] = "sync" => b = a
    BY <1>3 DEF TakeDiff, PipelineType, Serial
  <2> QED
    BY <2>3, <2>5, <2>6, <2>7 DEF Synced
<1>4. CASE Sync(a)
  BY Zenon, <1>4, CallKeeps DEF Sync
<1>5. CASE SetCurrent(a)
  <2>1. \A i \in Ids \ stranded : host[i] = Want(snap[a])[i]
    <3>1. applyPc[a] = "sync" /\ todo[a] = NoDiff
      BY Zenon, <1>5 DEF SetCurrent
    <3>2. \A i : i \notin NoDiff.removed \cup NoDiff.added \cup NoDiff.changed
                        \cup NoDiff.restart
      BY DEF NoDiff
    <3> QED
      BY Zenon, <3>1, <3>2 DEF Synced, Halfway
  <2>2. PipelineType' /\ Serial' /\ Untouched'
    BY <1>5 DEF SetCurrent, PipelineType, Places, Serial, Untouched
  <2>3. \A b \in Appliers : applyPc'[b] # "sync"
    BY <1>5 DEF SetCurrent, PipelineType, Serial
  <2>4. Followed' /\ Synced'
    BY Zenon, <1>5, <2>1, <2>3 DEF SetCurrent, Followed, Settled, Synced
  <2> QED
    BY <2>2, <2>4
<1>6. CASE \/ AppendApplied(a) /\ Goto(a, "hooks")
              /\ snap' = [snap EXCEPT ![a] = current]
              /\ UNCHANGED <<todo, touched, effects, history>>
           \/ RunHooks(a)
  <2>0. /\ \/ Goto(a, "hooks") /\ UNCHANGED <<todo, touched>>
                /\ snap' = [snap EXCEPT ![a] = current]
           \/ Returns(a)
        /\ UNCHANGED host
        /\ applyPc[a] \in {"append", "hooks"}
    <3>1. CASE RunHooks(a)
      BY Zenon, <3>1 DEF RunHooks
    <3> QED
      BY <1>6, <3>1 DEF AppendApplied
  <2>1. PipelineType' /\ Serial' /\ Untouched'
    <3>1. PipelineType'
      <4>1. NoDiff \in Diffs
        BY DEF NoDiff, Diffs
      <4>2. CASE Returns(a)
        BY <2>0, <4>1, <4>2 DEF Returns, PipelineType, Places
      <4> QED
        BY <2>0, <4>2 DEF PipelineType, Places
    <3>2. Serial' /\ Untouched'
      BY <2>0 DEF Returns, PipelineType, Serial, Untouched
    <3> QED
      BY <3>1, <3>2
  <2>2. \A b \in Appliers : applyPc[b] # "sync" /\ applyPc'[b] # "sync"
    BY <1>6 DEF AppendApplied, RunHooks, Returns, PipelineType, Serial
  <2>3. UNCHANGED <<host, current, stranded>>
    BY <1>6 DEF AppendApplied, RunHooks
  <2>4. Followed' /\ Synced'
    BY <2>2, <2>3 DEF Followed, Settled, Synced
  <2> QED
    BY <2>1, <2>4
<1> QED
  BY Zenon, <1>1, <1>2, <1>3, <1>4, <1>5, <1>6 DEF ApplyStep, TakeDiff, AppendApplied

(* PipelineInv is inductive when no Apply begins while another one runs. *)
LEMMA NextPipeline ==
  ASSUME MayOverlap = FALSE
  PROVE  PipelineInv /\ [Next]_vars => PipelineInv'
<1> SUFFICES ASSUME PipelineInv, [Next]_vars PROVE PipelineInv'
  OBVIOUS
<1> USE DEF PipelineInv, applyVars, effects, history
<1>1. CASE Debounced \/ ApplyRpc
  <2>1. PICK a \in Appliers : Begin(a)
    BY <1>1 DEF Debounced, ApplyRpc, Appliers
  <2>2. PipelineType' /\ Serial' /\ Untouched'
    BY <2>1 DEF Begin, PipelineType, Places, Serial, Untouched
  <2>3. Followed' /\ Synced'
    BY Zenon, <2>1 DEF Begin, PipelineType, Followed, Settled, Synced, Differs, Halfway
  <2> QED
    BY <2>2, <2>3
<1>2. CASE UNCHANGED <<applyVars, host, current, stranded>>
  <2>1. PipelineType' /\ Serial' /\ Untouched'
    BY Zenon, <1>2 DEF PipelineType, Serial, Untouched
  <2>2. Followed'
    BY Zenon, <1>2 DEF Followed, Settled
  <2>3. \A a \in Appliers : (Differs(a) => Differs(a)') /\ (Halfway(a) => Halfway(a)')
    BY Zenon, <1>2 DEF Differs, Halfway, Settled
  <2>4. Synced'
    BY Zenon, <1>2, <2>3 DEF Synced
  <2> QED
    BY Zenon, <2>1, <2>2, <2>4
<1> QED
  BY <1>1, <1>2, ApplyKeeps DEF Next, Edit, Poll, Reload, Wake, vars

(* Between Applies the driver host runs what the current snapshot says, but *)
(* for the instances that Applies which failed had touched.                 *)
THEOREM HostCorrect ==
  ASSUME MayOverlap = FALSE
  PROVE  Spec => []HostMatches
<1>1. PipelineInv => HostMatches
  BY DEF PipelineInv, PipelineType, Followed, Settled, HostMatches, Resting
<1> QED
  BY InitPipeline, NextPipeline, <1>1, PTL DEF Spec

(* No Apply stops or starts a driver instance whose configuration hash is  *)
(* the same in the snapshot it applies and in the current one.             *)
THEOREM UndisturbedCorrect ==
  ASSUME MayOverlap = FALSE
  PROVE  Spec => Undisturbed
<1> DEFINE Same == \A i \in Ids : host'[i] # host[i] =>
                    \E a \in Appliers : applyPc[a] = "sync" /\ current[i] # snap[a][i]
<1>1. PipelineInv /\ [Next]_vars => [Same]_vars
  <2> SUFFICES ASSUME PipelineInv, Next PROVE Same
    OBVIOUS
  <2>1. ASSUME NEW a \in Appliers, Sync(a) PROVE Same
    <3>0. applyPc[a] = "sync" /\ Differs(a)
      BY Zenon, <2>1 DEF Sync, PipelineInv, Synced
    <3>1. \A i \in todo[a].removed \cup todo[a].added \cup todo[a].changed
                 \cup todo[a].restart : current[i] # snap[a][i]
      BY <3>0 DEF Differs
    <3>2. ASSUME NEW i \in todo[a].removed \cup todo[a].added \cup todo[a].changed
                            \cup todo[a].restart,
                 NEW left, Unregister(a, i, left) \/ Register(a, i, left)
          PROVE  Same
      <4>1. ASSUME NEW config, Did(a, i, left, config) PROVE Same
        BY <3>0, <3>1, <4>1 DEF Did, PipelineInv, PipelineType
      <4>2. CASE ReturnsError(a)
        BY <4>2 DEF ReturnsError, effects
      <4> QED
        BY <3>2, <4>1, <4>2 DEF Unregister, Register
    <3> QED
      BY ZenonT(40), <2>1, <3>2 DEF Sync
  <2>2. CASE UNCHANGED host
    BY <2>2
  <2> QED
    BY Zenon, <2>1, <2>2 DEF Next, ApplyStep, Edit, Poll, Reload, Wake, Debounced, ApplyRpc,
       Begin, Evaluate, TakeDiff, SetCurrent, AppendApplied, RunHooks, ReturnsError, effects
<1> QED
  BY InitPipeline, NextPipeline, <1>1, PTL DEF Spec, Undisturbed
=============================================================================
