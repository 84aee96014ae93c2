-------------------------- MODULE ProjectGenerator --------------------------
(***************************************************************************)
(* How the generator puts a project at its destination: it is built in a   *)
(* directory of its own and renamed into place, an earlier project being   *)
(* renamed out of the way first.  Every step may fail, and the process may *)
(* die between two steps.  One process works on a destination at a time.   *)
(*                                                                         *)
(* A directory is "absent", "empty", holds "files" of the user, a complete *)
(* "project", one that is "partial", or what "remains" of a removal.       *)
(***************************************************************************)
VARIABLES
    dest,              \* the destination
    backup,            \* its .fangabase-backup
    staging,           \* the .fangabase-generate- directory of the run
    run,               \* where generateProject is, "idle" outside it
    existed,           \* destinationExists, read at its beginning
    force,
    had,               \* history: the user had files at the destination
    overlooked         \* history: and the run has removed them without having seen them

diskVars      == <<dest, backup, staging>>
runVars       == <<run, existed, force>>
pastVars      == <<had, overlooked>>
generatorVars == <<diskVars, runVars, pastVars>>

Occupied == dest \notin {"absent", "empty"}

\* The run throws, and removes what it staged.
Throw == run' = "idle" /\ staging' = "absent"

-----------------------------------------------------------------------------
\* The user has confirmed; without, and without --force if the destination is not empty,
\* the run refuses before it writes anything.
Begin(f) ==
    /\ run = "idle"
    /\ Occupied => f
    /\ run' = "filling"
    /\ existed' = (dest # "absent")
    /\ force' = f
    /\ staging' = "partial"
    /\ UNCHANGED <<dest, backup, pastVars>>

\* materialize, the documents, the manifest and validateGenerated; any of them may throw.
Fill ==
    /\ run = "filling"
    /\ \/ run' = "ready" /\ staging' = "project"
       \/ Throw
    /\ UNCHANGED <<dest, backup, existed, force, pastVars>>

\* Mutant: what is in the way is removed.
SetAside_Removes ==
    /\ run = "ready"
    /\ existed /\ Occupied
    /\ force /\ backup = "absent"
    /\ dest' = "absent"
    /\ run' = "swapping"
    /\ UNCHANGED <<backup, staging, existed, force, pastVars>>

SetAside ==
    /\ run = "ready"
    /\ existed /\ Occupied
    /\ force /\ backup = "absent"
    /\ backup' = dest
    /\ dest' = "absent"
    /\ run' = "swapping"
    /\ UNCHANGED <<staging, existed, force, pastVars>>

\* A backup a run left behind is never overwritten.
Refuse ==
    /\ run = "ready"
    /\ existed /\ Occupied
    /\ ~force \/ backup # "absent"
    /\ Throw
    /\ UNCHANGED <<dest, backup, existed, force, pastVars>>

\* The second look at a destination that is absent or empty.
LookAgain ==
    /\ run = "ready"
    /\ ~(existed /\ Occupied)
    /\ run' = IF existed THEN "clearing" ELSE "installing"
    /\ UNCHANGED <<diskVars, existed, force, pastVars>>

\* The removal that follows is recursive, and does not look.
Clear ==
    /\ run = "clearing"
    /\ dest' = "absent"
    /\ overlooked' = (overlooked \/ Occupied)
    /\ run' = "installing"
    /\ UNCHANGED <<backup, staging, existed, force, had>>

\* A rename does not replace a directory that is not empty.
Install ==
    /\ run = "installing"
    /\ ~Occupied
    /\ dest' = staging
    /\ staging' = "absent"
    /\ run' = "installed"
    /\ UNCHANGED <<backup, existed, force, pastVars>>

\* A removal of the destination that stops may be half done.
Interrupted ==
    /\ dest' \in IF run = "clearing" /\ Occupied THEN {dest, "remains"} ELSE {dest}
    /\ overlooked' = (overlooked \/ dest' # dest)

\* The removal or the rename throws; as there is no backup, nothing is put back.
InstallFails ==
    /\ run \in {"clearing", "installing"}
    /\ Throw
    /\ Interrupted
    /\ UNCHANGED <<backup, existed, force, had>>

Swap ==
    /\ run = "swapping"
    /\ ~Occupied
    /\ dest' = staging
    /\ staging' = "absent"
    /\ run' = "cleaning"
    /\ UNCHANGED <<backup, existed, force, pastVars>>

\* What was there is put back, unless that rename fails as well, or something is there again.
SwapFails ==
    /\ run = "swapping"
    /\ Throw
    /\ \/ dest = "absent" /\ dest' = backup /\ backup' = "absent"
       \/ UNCHANGED <<dest, backup>>
    /\ UNCHANGED <<existed, force, pastVars>>

RemoveBackup ==
    /\ run = "cleaning"
    /\ \/ backup' = "absent" /\ run' = "installed" /\ UNCHANGED staging
       \/ backup' = "remains" /\ Throw
    /\ UNCHANGED <<dest, existed, force, pastVars>>

\* The staging directory stays behind, under a name no later run looks at; the removal of the
\* backup may be half done, too.
Crash ==
    /\ run # "idle"
    /\ Throw
    /\ backup' \in IF run = "cleaning" THEN {backup, "remains"} ELSE {backup}
    /\ Interrupted
    /\ UNCHANGED <<existed, force, had>>

Finish ==
    /\ run = "installed"
    /\ run' = "idle"
    /\ UNCHANGED <<diskVars, existed, force, pastVars>>

\* At any time, also between two steps of a run.
UserWrites ==
    /\ ~Occupied
    /\ dest' = "files"
    /\ had' = TRUE
    /\ overlooked' = FALSE
    /\ UNCHANGED <<backup, staging, runVars>>

-----------------------------------------------------------------------------
GeneratorInit ==
    /\ dest \in {"absent", "empty", "files"}
    /\ backup = "absent"
    /\ staging = "absent"
    /\ run = "idle"
    /\ existed = FALSE
    /\ force = FALSE
    /\ had = (dest = "files")
    /\ overlooked = FALSE

Replace ==
    SetAside \/ Refuse \/ LookAgain \/ Clear \/ Install \/ InstallFails \/ Swap \/ SwapFails \/ RemoveBackup

GeneratorNext ==
    \/ \E f \in BOOLEAN : Begin(f)
    \/ Fill \/ Replace \/ Crash \/ Finish \/ UserWrites

GeneratorSpec == GeneratorInit /\ [][GeneratorNext]_generatorVars

-----------------------------------------------------------------------------
(* Properties *)

\* Every variable has its type.
GeneratorTypeOK ==
    /\ dest \in {"absent", "empty", "files", "project", "remains"}
    /\ backup \in {"absent", "files", "project", "remains"}
    /\ staging \in {"absent", "partial", "project"}
    /\ run \in {"idle", "filling", "ready", "clearing", "installing", "swapping", "cleaning", "installed"}
    /\ existed \in BOOLEAN
    /\ force \in BOOLEAN
    /\ had \in BOOLEAN
    /\ overlooked \in BOOLEAN

\* Whatever fails, wherever the process dies and whenever the user writes, in any number of
\* runs: there is no incomplete project at the destination, and the user's files are there or
\* in the backup until a complete project has taken their place.  There is one exception: what
\* is written into an empty destination after the second look at it (project-generator.ts:290)
\* and before the removal (305) is removed, with --force or without.
DestinationNeverLost ==
    /\ dest # "partial"
    /\ had /\ ~overlooked => \E d \in {dest, backup} : d \in {"files", "project"}
=============================================================================
