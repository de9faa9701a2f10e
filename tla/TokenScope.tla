----------------------------- MODULE TokenScope -----------------------------
(***************************************************************************)
(* API tokens and their scopes: AuthService.CreateToken and RevokeToken    *)
(* over policy.CompiledTokenScope.  A token may mint another one, as long  *)
(* as Contains says that the new scope lies inside its own; what a scope   *)
(* allows is decided later, by Allow, from patterns and selectors.         *)
(*                                                                         *)
(* AllowedTools and AllowedServices are treated alike everywhere and are   *)
(* one set of patterns here; AllowedActions and MatchAny are never set in  *)
(* a token's scope.  A target's area, class and entity id are its labels,  *)
(* and a selector is the set of labels it lists.                           *)
(***************************************************************************)
EXTENDS Integers, FiniteSets

CONSTANTS Names,      \* action names and the stems of patterns
          HasPrefix,  \* the pairs <<name, stem>> where the name starts with the stem
          Empty,      \* the empty stem
          Labels,     \* areas, classes and entity ids
          Tokens,     \* token ids
          Session,    \* a login session: the minter that carries no scope
          Widest      \* the most patterns in an enumerated scope

ASSUME PrefixOrder ==
  /\ \A n \in Names : <<n, n>> \in HasPrefix
  /\ \A l, m, n \in Names :
       <<l, m>> \in HasPrefix /\ <<m, n>> \in HasPrefix => <<l, n>> \in HasPrefix

ASSUME SessionIsNoToken == Session \notin Tokens

VARIABLES issued,    \* the tokens in auth_tokens
          scopes,    \* the scope of each token issued
          revoked,   \* the tokens with revoked_at set
          minter,    \* who minted each token (issued_by and the token it used)
          mint       \* the CreateToken call in progress: who calls, or none

mintVars == <<issued, scopes, revoked, minter, mint>>

Patterns == {p \in [stem : Names, wild : BOOLEAN] : p.wild \/ p.stem # Empty}

\* The scopes that validateTokenScopePB accepts, up to a size.
Scopes == [patterns : {P \in SUBSET Patterns : Cardinality(P) <= Widest},
           targets : SUBSET Labels]

Unscoped == [patterns |-> {}, targets |-> {}]

NoCall == [by |-> Session, open |-> FALSE]
-----------------------------------------------------------------------------
(* What a scope allows. *)

TokenPatternMatches(p, action) ==
  IF p.wild THEN <<action, p.stem>> \in HasPrefix ELSE p.stem = action

ActionAllowed(s, action) ==
  s.patterns = {} \/ \E p \in s.patterns : TokenPatternMatches(p, action)

TargetAllowed(s, target) == s.targets = {} \/ s.targets \cap target # {}

Allow(s, action, target) == ActionAllowed(s, action) /\ TargetAllowed(s, target)

(* Whether a scope lies inside another. *)

\* A pattern without wildcard covers one with it.
MutCovers(parent, child) ==
  IF parent.wild
    THEN <<child.stem, parent.stem>> \in HasPrefix
    ELSE parent.stem = child.stem

TokenPatternCovers(parent, child) ==
  IF parent.wild
    THEN <<child.stem, parent.stem>> \in HasPrefix
    ELSE ~child.wild /\ parent.stem = child.stem

CoversPattern(s, child) == \E p \in s.patterns : TokenPatternCovers(p, child)

ContainsActions(s, child) ==
  \/ s.patterns = {}
  \/ child.patterns # {} /\ \A p \in child.patterns : CoversPattern(s, p)

ContainsTargets(s, child) ==
  \/ s.targets = {}
  \/ child.targets # {} /\ child.targets \subseteq s.targets

Contains(s, child) == ContainsActions(s, child) /\ ContainsTargets(s, child)
-----------------------------------------------------------------------------
TokenInit ==
  /\ issued = {}
  /\ scopes = [t \in Tokens |-> Unscoped]
  /\ revoked = {}
  /\ minter = [t \in Tokens |-> Session]
  /\ mint = NoCall

\* The interceptor verifies the caller; the scope in the request's context is the
\* one the token had then, whatever happens to the token before the handler runs.
Authenticate(by) ==
  /\ ~mint.open
  /\ by = Session \/ by \in issued \ revoked
  /\ mint' = [by |-> by, open |-> TRUE]
  /\ UNCHANGED <<issued, scopes, revoked, minter>>

CreateToken(id, s) ==
  /\ mint.open
  /\ id \notin issued
  /\ mint.by # Session => Contains(scopes[mint.by], s)
  /\ issued' = issued \cup {id}
  /\ scopes' = [scopes EXCEPT ![id] = s]
  /\ minter' = [minter EXCEPT ![id] = mint.by]
  /\ mint' = NoCall
  /\ UNCHANGED revoked

\* The requested scope is invalid, or broader than the caller's.
RefuseToken ==
  /\ mint.open
  /\ mint' = NoCall
  /\ UNCHANGED <<issued, scopes, revoked, minter>>

RevokeToken(id) ==
  /\ id \in issued \ revoked
  /\ revoked' = revoked \cup {id}
  /\ UNCHANGED <<issued, scopes, minter, mint>>

TokenNext ==
  \/ \E by \in Tokens \cup {Session} : Authenticate(by)
  \/ \E id \in Tokens, s \in Scopes : CreateToken(id, s)
  \/ RefuseToken
  \/ \E id \in Tokens : RevokeToken(id)

TokenSpec == TokenInit /\ [][TokenNext]_mintVars
-----------------------------------------------------------------------------
(* No token allows an action on a target that the token it was minted with *)
(* does not allow: Contains, which compares patterns with patterns and     *)
(* selectors with selectors, is never more generous than Allow, which      *)
(* matches them with actions and targets.                                  *)
DelegationNarrows ==
  \A t \in issued :
    minter[t] # Session =>
      \A action \in Names, target \in SUBSET Labels :
        Allow(scopes[t], action, target) => Allow(scopes[minter[t]], action, target)
=============================================================================
