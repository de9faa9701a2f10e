------------------------------- MODULE Packs --------------------------------
(***************************************************************************)
(* Installing and uninstalling widget packs                                *)
(* (internal/widgetpack/install.go and store.go): a directory per pack, a  *)
(* map of the installed packs, and a registry file the map is saved to by  *)
(* writing a temporary file and renaming it.                               *)
(*                                                                         *)
(* A pack is a name and a version.  Two packs clash when one has a class   *)
(* of the other: two versions of the same pack, the names being part of    *)
(* the class.  What an installation does before it looks for clashes (the  *)
(* fetch, the signature, the manifest, the hash) either fails and leaves   *)
(* only its staging directory to remove, or goes on.                       *)
(***************************************************************************)
EXTENDS FiniteSets

CONSTANTS
  Packs,          \* packs that can be installed
  NoPack,         \* what an idle call works on
  Clash,          \* the pairs of them that share a class
  Installers      \* concurrent calls of Install

ASSUME PackAssumption == NoPack \notin Packs

VARIABLES
  packs,          \* Store.packs
  regFile,        \* .registry.json
  dirs,           \* the packs whose directory exists
  insAt, insOf,   \* where each Install is, and its pack
  uninAt, uninOf, \* where an Uninstall is, and its pack
  daemonUp,
  stray,          \* history: directories an interrupted or failed rollback left
  hollow          \* history: packs whose directory went and whose entry could not

packVars == <<packs, regFile, dirs, insAt, insOf, uninAt, uninOf, daemonUp,
              stray, hollow>>

PackInit ==
  /\ packs = {} /\ regFile = {} /\ dirs = {}
  /\ insAt = [i \in Installers |-> "idle"]
  /\ insOf = [i \in Installers |-> NoPack]
  /\ uninAt = "idle" /\ uninOf = NoPack
  /\ daemonUp = TRUE
  /\ stray = {} /\ hollow = {}

InsTo(i, place) ==
  insAt' = [insAt EXCEPT ![i] = place] /\ UNCHANGED insOf
InsReturns(i) ==
  /\ insAt' = [insAt EXCEPT ![i] = "idle"]
  /\ insOf' = [insOf EXCEPT ![i] = NoPack]
UninReturns == uninAt' = "idle" /\ uninOf' = NoPack
Save == regFile' = packs'

\* Everything up to the manifest.
Stage(i, p) ==
  /\ daemonUp /\ insAt[i] = "idle"
  /\ insAt' = [insAt EXCEPT ![i] = "check"] /\ insOf' = [insOf EXCEPT ![i] = p]
  /\ UNCHANGED <<packs, regFile, dirs, uninAt, uninOf, daemonUp, stray, hollow>>

CheckCollisions(i) ==
  /\ insAt[i] = "check"
  /\ IF \E p \in packs : {p, insOf[i]} \in Clash
     THEN InsReturns(i)
     ELSE InsTo(i, "lock")
  /\ UNCHANGED <<packs, regFile, dirs, uninAt, uninOf, daemonUp, stray, hollow>>

\* The mutex of the name and version, and the check for an entry under it.
LockPack(i) ==
  /\ insAt[i] = "lock"
  /\ ~\E j \in Installers :
        insAt[j] \in {"commit", "add", "rollback"} /\ insOf[j] = insOf[i]
  /\ IF insOf[i] \in packs THEN InsReturns(i) ELSE InsTo(i, "commit")
  /\ UNCHANGED <<packs, regFile, dirs, uninAt, uninOf, daemonUp, stray, hollow>>

\* The rename of the staging directory; it fails when the directory exists.
CommitPack(i) ==
  /\ insAt[i] = "commit"
  /\ \/ insOf[i] \notin dirs /\ dirs' = dirs \cup {insOf[i]} /\ InsTo(i, "add")
     \/ InsReturns(i) /\ UNCHANGED dirs
  /\ UNCHANGED <<packs, regFile, uninAt, uninOf, daemonUp, stray, hollow>>

\* MUTANT: a failed registration leaves the directory.
MutAddPack(i) ==
  /\ insAt[i] = "add"
  /\ \/ packs' = packs \cup {insOf[i]} /\ Save
     \/ UNCHANGED <<packs, regFile>>
  /\ InsReturns(i)
  /\ UNCHANGED <<dirs, uninAt, uninOf, daemonUp, stray, hollow>>

\* Store.Add, undone when the registry cannot be saved.
AddPack(i) ==
  /\ insAt[i] = "add"
  /\ \/ packs' = packs \cup {insOf[i]} /\ Save /\ InsReturns(i)
     \/ InsTo(i, "rollback") /\ UNCHANGED <<packs, regFile>>
  /\ UNCHANGED <<dirs, uninAt, uninOf, daemonUp, stray, hollow>>

\* The error of removing the directory is ignored.
Rollback(i) ==
  /\ insAt[i] = "rollback"
  /\ InsReturns(i)
  /\ \/ dirs' = dirs \ {insOf[i]} /\ UNCHANGED stray
     \/ stray' = stray \cup {insOf[i]} /\ UNCHANGED dirs
  /\ UNCHANGED <<packs, regFile, uninAt, uninOf, daemonUp, hollow>>

-----------------------------------------------------------------------------
\* Uninstall finds the pack, not used by any dashboard.  It takes no mutex.
StartUninstall(p) ==
  /\ daemonUp /\ uninAt = "idle" /\ p \in packs
  /\ uninAt' = "remove" /\ uninOf' = p
  /\ UNCHANGED <<packs, regFile, dirs, insAt, insOf, daemonUp, stray, hollow>>

RemoveDir ==
  /\ uninAt = "remove"
  /\ \/ dirs' = dirs \ {uninOf} /\ uninAt' = "unregister" /\ UNCHANGED uninOf
     \/ UninReturns /\ UNCHANGED dirs
  /\ UNCHANGED <<packs, regFile, insAt, insOf, daemonUp, stray, hollow>>

\* Store.Remove, undone when the registry cannot be saved.
RemovePack ==
  /\ uninAt = "unregister"
  /\ UninReturns
  /\ \/ packs' = packs \ {uninOf} /\ Save /\ hollow' = hollow \ {uninOf}
     \/ hollow' = hollow \cup {uninOf} /\ UNCHANGED <<packs, regFile>>
  /\ UNCHANGED <<dirs, insAt, insOf, daemonUp, stray>>

DaemonDies ==
  /\ daemonUp
  /\ daemonUp' = FALSE
  /\ packs' = {}
  /\ insAt' = [i \in Installers |-> "idle"]
  /\ insOf' = [i \in Installers |-> NoPack]
  /\ UninReturns
  /\ stray' = stray \cup {insOf[i] : i \in {j \in Installers :
                                              insAt[j] \in {"add", "rollback"}}}
  /\ UNCHANGED <<regFile, dirs, hollow>>

\* Load prunes the entries without a directory and saves what is left; when it
\* cannot, the daemon does not start.
Load ==
  /\ ~daemonUp
  /\ daemonUp' = TRUE
  /\ packs' = regFile \cap dirs /\ Save
  /\ hollow' = {}
  /\ UNCHANGED <<dirs, insAt, insOf, uninAt, uninOf, stray>>

PackNext ==
  \/ \E i \in Installers :
       \/ \E p \in Packs : Stage(i, p)
       \/ CheckCollisions(i) \/ LockPack(i) \/ CommitPack(i)
       \/ AddPack(i) \/ Rollback(i)
  \/ \E p \in Packs : StartUninstall(p)
  \/ RemoveDir \/ RemovePack \/ DaemonDies \/ Load

PackSpec == PackInit /\ [][PackNext]_packVars

\* Between calls, the map, the registry file and the directories name the same
\* packs, whatever failed or was interrupted and however installations overlap
\* each other and an uninstallation.  Two windows are left open: a directory
\* whose registration was cut short by a crash or whose rollback failed, and an
\* entry that could not be removed after its directory, until Load prunes it.
PacksAgree ==
  daemonUp /\ uninAt = "idle" /\ (\A i \in Installers : insAt[i] \notin {"add", "rollback"})
    => /\ regFile = packs
       /\ packs \subseteq dirs \cup hollow
       /\ dirs \subseteq packs \cup stray
=============================================================================
