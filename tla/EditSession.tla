---------------------------- MODULE EditSession -----------------------------
(***************************************************************************)
(* Edit sessions on one configuration file (internal/editsession): opening *)
(* it for editing, committing an edit, the lock tokens with their time to  *)
(* live, and renaming or deleting the file.                                *)
(*                                                                         *)
(* A content of the file stands for its bytes and for their hash.  Missing *)
(* is the file that does not exist (hash ""), Torn what a reader finds     *)
(* while os.WriteFile has truncated the file and not yet filled it.        *)
(* Programs outside the daemon write the file too.  Every request runs in  *)
(* a goroutine of its own and no lock is held across its steps.            *)
(***************************************************************************)
EXTENDS Naturals

CONSTANTS
  Sessions,     \* edit sessions, each opened once
  Contents,     \* what the file may hold
  Missing,      \* there is no file
  Torn,         \* the file is being written
  MaxWrites     \* bound: how often the file is written, renamed or deleted

ASSUME EditAssumption ==
  /\ Missing \notin Contents /\ Torn \notin Contents /\ Missing # Torn
  /\ MaxWrites \in Nat

VARIABLES
  disk,         \* the file
  signal,       \* Reloader.signal: a reload has been asked for
  editPc,       \* where each session's request is
  locks,        \* LockManager.locks, by session
  meta,         \* Service.sessions: the sessions in the map
  expected,     \* the hash the session's client holds
  draft,        \* what its commit writes
  forced,       \* its commit has force set
  moverPc,      \* where a RenameFile or DeleteFile is
  writes        \* how many writes were begun

editVars == <<editPc, locks, meta, expected, draft, forced, moverPc, writes>>

EditInit ==
  /\ signal = FALSE
  /\ editPc = [s \in Sessions |-> "new"]
  /\ locks = [s \in Sessions |-> "none"]
  /\ meta = {}
  /\ expected = [s \in Sessions |-> Missing]
  /\ draft = [s \in Sessions |-> Missing]
  /\ forced = [s \in Sessions |-> FALSE]
  /\ moverPc = "idle"
  /\ writes = 0

\* Reloader.Trigger: a signal that is already there is enough.
Trigger == signal' = TRUE

-----------------------------------------------------------------------------
\* OpenForEdit reads the file ...
OpenRead(s) ==
  /\ editPc[s] = "new"
  /\ expected' = [expected EXCEPT ![s] = disk]
  /\ editPc' = [editPc EXCEPT ![s] = "opening"]
  /\ UNCHANGED <<disk, signal, locks, meta, draft, forced, moverPc, writes>>

\* ... then takes a token and enters the session.
OpenRegister(s) ==
  /\ editPc[s] = "opening"
  /\ locks' = [locks EXCEPT ![s] = "live"]
  /\ meta' = meta \cup {s}
  /\ editPc' = [editPc EXCEPT ![s] = "open"]
  /\ UNCHANGED <<disk, signal, expected, draft, forced, moverPc, writes>>

\* CommitEdit up to the hash check.  A token that is expired or swept is an
\* error; another hash than the expected one is a conflict, and its answer
\* carries the file, which the client may take as its new ancestor.
CommitCheck(s) ==
  /\ editPc[s] = "open"
  /\ locks[s] = "live"
  /\ \/ \E c \in Contents, f \in BOOLEAN :
          /\ writes < MaxWrites
          /\ writes' = writes + 1
          /\ f \/ disk = expected[s]
          /\ draft' = [draft EXCEPT ![s] = c]
          /\ forced' = [forced EXCEPT ![s] = f]
          /\ editPc' = [editPc EXCEPT ![s] = "write"]
          /\ UNCHANGED expected
     \/ /\ disk # expected[s]
        /\ expected' = [expected EXCEPT ![s] = disk]
        /\ UNCHANGED <<draft, forced, editPc, writes>>
  /\ UNCHANGED <<disk, signal, locks, meta, moverPc>>

\* os.WriteFile truncates the file ...
CommitTruncate(s) ==
  /\ editPc[s] = "write"
  /\ disk' = Torn
  /\ editPc' = [editPc EXCEPT ![s] = "fill"]
  /\ UNCHANGED <<signal, locks, meta, expected, draft, forced, moverPc, writes>>

EndCommit(s) ==
  /\ editPc' = [editPc EXCEPT ![s] = "open"]
  /\ draft' = [draft EXCEPT ![s] = Missing]
  /\ forced' = [forced EXCEPT ![s] = FALSE]

\* ... and fills it; the reloader is triggered and the client gets the hash.
CommitFill(s) ==
  /\ editPc[s] = "fill"
  /\ disk' = draft[s]
  /\ Trigger
  /\ expected' = [expected EXCEPT ![s] = draft[s]]
  /\ EndCommit(s)
  /\ UNCHANGED <<locks, meta, moverPc, writes>>

\* The directory cannot be made or the file cannot be opened.
CommitFails(s) ==
  /\ editPc[s] = "write"
  /\ EndCommit(s)
  /\ UNCHANGED <<disk, signal, locks, meta, expected, moverPc, writes>>

AbandonEdit(s) ==
  /\ editPc[s] = "open"
  /\ locks' = [locks EXCEPT ![s] = "none"]
  /\ meta' = meta \ {s}
  /\ expected' = [expected EXCEPT ![s] = Missing]
  /\ editPc' = [editPc EXCEPT ![s] = "gone"]
  /\ UNCHANGED <<disk, signal, draft, forced, moverPc, writes>>

\* No heartbeat within the time to live, and the sweep that drops the token.
\* The entry in Service.sessions stays.
Expire(s) ==
  /\ locks[s] = "live"
  /\ locks' = [locks EXCEPT ![s] = "expired"]
  /\ UNCHANGED <<disk, signal, editPc, meta, expected, draft, forced, moverPc, writes>>

Sweep(s) ==
  /\ locks[s] = "expired"
  /\ locks' = [locks EXCEPT ![s] = "none"]
  /\ UNCHANGED <<disk, signal, editPc, meta, expected, draft, forced, moverPc, writes>>

-----------------------------------------------------------------------------
\* RenameFile and DeleteFile check first: the file must have no session to be
\* taken away, and must not exist for another to be renamed to its name.
MoverCheck ==
  /\ moverPc = "idle"
  /\ writes < MaxWrites
  /\ writes' = writes + 1
  /\ \/ meta = {} /\ disk # Missing /\ moverPc' = "remove"
     \/ disk = Missing /\ moverPc' = "place"
  /\ UNCHANGED <<disk, signal, editPc, locks, meta, expected, draft, forced>>

\* Then they move.  A file that is gone by now is an error.
MoverMove ==
  /\ \/ moverPc = "remove" /\ disk # Missing /\ disk' = Missing /\ Trigger
     \/ moverPc = "remove" /\ disk = Missing /\ UNCHANGED <<disk, signal>>
     \/ moverPc = "place" /\ disk' \in Contents /\ Trigger
  /\ moverPc' = "idle"
  /\ UNCHANGED <<editPc, locks, meta, expected, draft, forced, writes>>

\* Another program, such as the user's editor, writes the file.
ExternalWrite ==
  /\ writes < MaxWrites
  /\ writes' = writes + 1
  /\ disk' \in (Contents \cup {Torn}) \ {disk}
  /\ UNCHANGED <<signal, editPc, locks, meta, expected, draft, forced, moverPc>>

-----------------------------------------------------------------------------
EditStep(s) ==
  \/ OpenRead(s) \/ OpenRegister(s) \/ CommitCheck(s) \/ CommitTruncate(s)
  \/ CommitFill(s) \/ CommitFails(s) \/ AbandonEdit(s) \/ Expire(s) \/ Sweep(s)

EditNext == (\E s \in Sessions : EditStep(s)) \/ MoverCheck \/ MoverMove \/ ExternalWrite

\* "Multiple sessions on the same file are allowed; first-to-commit wins"
\* (service.go): a commit without force overwrites what its client has seen.
FirstCommitWins ==
  [][\A s \in Sessions :
       CommitTruncate(s) /\ ~forced[s] => disk = expected[s]]_<<disk, editVars>>
=============================================================================
