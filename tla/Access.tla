------------------------------- MODULE Access -------------------------------
(***************************************************************************)
(* What may be used once: the refresh secret of a browser session          *)
(* (internal/auth/sessions/store.go) and the enrolment token of a          *)
(* credential (internal/auth/credentials/enrollment.go).  Both are rows    *)
(* that a transaction reads, checks and then changes.                      *)
(*                                                                         *)
(* SQLite in WAL mode is external: a transaction reads a row as of its     *)
(* first statement, and its write fails if the row has changed since.      *)
(* The secrets of the session are numbered in the order they are made; a   *)
(* browser keeps the one of the last response it got, while requests that  *)
(* left earlier (of another tab, or sent again) carry the one before.      *)
(***************************************************************************)
EXTENDS Naturals

CONSTANTS
  Requests,       \* concurrent requests
  MaxSecrets      \* bound: refresh secrets made

ASSUME AccessAssumption == MaxSecrets \in Nat \ {0}

VARIABLES
  session,        \* auth_sessions: the secret whose hash is stored; 0: no row
  overdue,        \* a deadline of the session has passed
  secrets,        \* how many secrets were made
  cookie,         \* the secret the browser has
  token,          \* auth_enrollment_tokens: "unused", "consumed" or "none"
  tokenOver,      \* its deadline has passed
  reqAt,          \* where each request is
  presents,       \* the secret a refresh presents
  sees,           \* the secret it has read, then the one it has made
  taken,          \* history: for each secret, the requests it was rotated for
  enrolled,       \* history: the requests that redeemed the token
  revived         \* history: a rotation wrote a row that had been deleted

accessVars == <<session, overdue, secrets, cookie, token, tokenOver, reqAt,
                presents, sees, taken, enrolled, revived>>
tokenVars == <<token, tokenOver, enrolled>>
sessionVars == <<session, overdue, secrets, cookie, presents, sees, taken, revived>>

Secrets == 1 .. MaxSecrets

\* A session has been issued and a token minted.
AccessInit ==
  /\ session = 1 /\ secrets = 1 /\ cookie = 1 /\ overdue = FALSE
  /\ token = "unused" /\ tokenOver = FALSE
  /\ reqAt = [r \in Requests |-> "idle"]
  /\ presents = [r \in Requests |-> 0]
  /\ sees = [r \in Requests |-> 0]
  /\ taken = [s \in Secrets |-> {}]
  /\ enrolled = {} /\ revived = FALSE

ReqTo(r, place) == reqAt' = [reqAt EXCEPT ![r] = place]

-----------------------------------------------------------------------------
\* A refresh leaves the browser with its cookie.
SendRefresh(r) ==
  /\ reqAt[r] = "idle" /\ secrets < MaxSecrets
  /\ presents' = [presents EXCEPT ![r] = cookie]
  /\ ReqTo(r, "read")
  /\ UNCHANGED <<session, overdue, secrets, cookie, sees, taken, revived, tokenVars>>

\* The transaction's SELECT, and the deadlines.
ReadSession(r) ==
  /\ reqAt[r] = "read"
  /\ sees' = [sees EXCEPT ![r] = session]
  /\ IF session = 0 \/ overdue THEN ReqTo(r, "idle") ELSE ReqTo(r, "write")
  /\ UNCHANGED <<session, overdue, secrets, cookie, presents, taken, revived, tokenVars>>

Rotate(r) ==
  /\ presents[r] = sees[r] /\ secrets < MaxSecrets
  /\ secrets' = secrets + 1
  /\ session' = secrets'
  /\ sees' = [sees EXCEPT ![r] = secrets']
  /\ taken' = [taken EXCEPT ![presents[r]] = @ \cup {r}]
  /\ revived' = (revived \/ session = 0)
  /\ ReqTo(r, "respond")

Revoke(r) ==
  /\ presents[r] # sees[r]
  /\ session' = 0
  /\ ReqTo(r, "idle")
  /\ UNCHANGED <<secrets, sees, taken, revived>>

\* MUTANT: the row is read outside the transaction.
MutWriteSession(r) ==
  /\ reqAt[r] = "write"
  /\ \/ Rotate(r) \/ Revoke(r)
     \/ ReqTo(r, "idle") /\ UNCHANGED <<session, secrets, sees, taken, revived>>
  /\ UNCHANGED <<overdue, cookie, presents, tokenVars>>

\* The UPDATE, or the DELETE on a replay, and the commit: both fail when the row
\* is no longer the one that was read, or the database says so.
WriteSession(r) ==
  /\ reqAt[r] = "write"
  /\ \/ session = sees[r] /\ (Rotate(r) \/ Revoke(r))
     \/ ReqTo(r, "idle") /\ UNCHANGED <<session, secrets, sees, taken, revived>>
  /\ UNCHANGED <<overdue, cookie, presents, tokenVars>>

\* The cookies are written; the response may be lost.
Respond(r) ==
  /\ reqAt[r] = "respond"
  /\ cookie' \in {cookie, sees[r]}
  /\ ReqTo(r, "idle")
  /\ UNCHANGED <<session, overdue, secrets, presents, sees, taken, revived, tokenVars>>

Logout ==
  /\ session' = 0
  /\ UNCHANGED <<overdue, secrets, cookie, reqAt, presents, sees, taken, revived, tokenVars>>

SessionOverdue ==
  /\ overdue' = TRUE
  /\ UNCHANGED <<session, secrets, cookie, reqAt, presents, sees, taken, revived, tokenVars>>

-----------------------------------------------------------------------------
\* Redeem: the SELECT and the checks on what it found ...
ReadToken(r) ==
  /\ reqAt[r] = "idle"
  /\ token = "unused" /\ ~tokenOver
  /\ ReqTo(r, "consume")
  /\ UNCHANGED <<sessionVars, tokenVars>>

\* ... then the UPDATE and the commit.
ConsumeToken(r) ==
  /\ reqAt[r] = "consume"
  /\ ReqTo(r, "idle")
  /\ \/ token = "unused" /\ token' = "consumed" /\ enrolled' = enrolled \cup {r}
     \/ UNCHANGED <<token, enrolled>>
  /\ UNCHANGED <<tokenOver, sessionVars>>

TokenOverdue ==
  /\ tokenOver' = TRUE
  /\ UNCHANGED <<token, enrolled, reqAt, sessionVars>>

SweepTokens ==
  /\ tokenOver \/ token = "consumed"
  /\ token' = "none"
  /\ UNCHANGED <<tokenOver, enrolled, reqAt, sessionVars>>

AccessNext ==
  \/ \E r \in Requests :
       \/ SendRefresh(r) \/ ReadSession(r) \/ WriteSession(r) \/ Respond(r)
       \/ ReadToken(r) \/ ConsumeToken(r)
  \/ Logout \/ SessionOverdue \/ TokenOverdue \/ SweepTokens

AccessSpec == AccessInit /\ [][AccessNext]_accessVars

\* However the transactions of two requests interleave with each other, with a
\* logout and with the sweep, a refresh secret is rotated for one request, a token
\* enrols one, and no rotation brings back a session that was revoked.
UsedOnce ==
  /\ \A s \in Secrets : \A r, q \in taken[s] : r = q
  /\ \A r, q \in enrolled : r = q
  /\ ~revived
=============================================================================
