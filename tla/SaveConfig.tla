------------------------------ MODULE SaveConfig ------------------------------
(***************************************************************************)
(* The configuration file and <file>.old.  `make menuconfig' first copies  *)
(* the file with `cp -a' (Makefile:19-22) and then runs menuconfig.py,     *)
(* which saves with Kconfig.write_config() of libs/menu/kconfiglib.py and  *)
(* save_old=True: the file is moved to <file>.old (copied, if it is a      *)
(* symbolic link) and written anew.  A step may fail (no space left), the  *)
(* process may die, and the user tries again.                              *)
(*                                                                         *)
(* A file is Missing, holds the complete contents of a configuration, or   *)
(* is Torn: truncated and not, or only partly, written.  <file>.old may    *)
(* also be Linked: a link to what the file is a link to, with no contents  *)
(* of its own.  That the file can be moved to <file>.old is assumed.       *)
(***************************************************************************)
EXTENDS Naturals

CONSTANTS
  Contents,       \* what _config_contents() can return
  Missing, Torn,  \* states of a file
  Linked          \* <file>.old leads to the same target as the file

ASSUME FileAssumption ==
  /\ Missing \notin Contents /\ Torn \notin Contents /\ Linked \notin Contents
  /\ Missing # Torn /\ Missing # Linked /\ Torn # Linked

Files == Contents \cup {Missing, Torn}

VARIABLES
  config,  \* _config_contents() for the present user values
  file,    \* the configuration file
  backup,  \* <file>.old
  link,    \* file is a symbolic link
  pc,      \* make menuconfig: "cp", "cp_write"; then "idle"; a save: "save_old",
           \* "copy", "open", "write"
  saved,   \* what the last save that succeeded wrote, or the file before any
  failed,  \* the saves and copies that failed since: 0, 1, or 2 for more
  overwritten  \* make menuconfig has put a torn file over the backup since

vars == <<config, file, backup, link, pc, saved, failed, overwritten>>
saves == <<saved, failed, overwritten>>

\* `make menuconfig' has just been called.
Init ==
  /\ config \in Contents
  /\ file \in Contents \cup {Missing} /\ backup \in Files \cup {Linked}
  /\ link \in BOOLEAN /\ (file = Missing => ~link) /\ (backup = Linked => link)
  /\ pc = "cp"
  /\ saved = file /\ failed = 0 /\ overwritten = FALSE

\* User values change.
Change == /\ pc = "idle" /\ config' \in Contents
          /\ UNCHANGED <<file, backup, link, pc, saves>>

\* The session ends, or has died, and another one is started.
MakeMenuconfig == /\ pc = "idle" /\ pc' = "cp"
                  /\ UNCHANGED <<config, file, backup, link, saves>>

\* cp -a truncates the backup, or unlinks it if the file is a link ...
CpStart ==
  /\ pc = "cp" /\ file # Missing
  /\ pc' = "cp_write"
  /\ backup' = IF link THEN Missing ELSE Torn
  /\ overwritten' = (overwritten \/ file = Torn)
  /\ UNCHANGED <<config, file, link, saved, failed>>

\* menuconfig.py is run, and loads what it can of the file.
SessionBegins == /\ pc' = "idle" /\ config' \in Contents
                 /\ UNCHANGED <<file, link, saves>>

\* ... and copies the file, or the link.
CpEnd ==
  /\ pc = "cp_write"
  /\ backup' = IF link THEN Linked ELSE file
  /\ SessionBegins

\* cp -a fails, as with no file to copy, which `|| true' ignores; or it is
\* killed, and what is done next is done in another session.
CpFails == /\ pc \in {"cp", "cp_write"}
           /\ SessionBegins /\ UNCHANGED backup

\* Mutant: the old file is not saved.
SaveOver ==
  /\ pc = "idle" /\ file # config
  /\ pc' = "open"
  /\ UNCHANGED <<config, file, backup, link, saves>>

\* write_config(): nothing is written if the file has the contents already.
Save ==
  /\ pc = "idle" /\ file # config
  /\ pc' = "save_old"
  /\ UNCHANGED <<config, file, backup, link, saves>>

\* Mutant: a symbolic link is moved like a file.
RenameAny ==
  /\ pc = "save_old"
  /\ pc' = "open"
  /\ IF file = Missing THEN UNCHANGED <<file, backup>>
                       ELSE backup' = file /\ file' = Missing
  /\ UNCHANGED <<config, link, saves>>

\* _save_old() of a file that is no link: os.replace(), which is atomic and
\* whose failure on a missing file is ignored.
Rename ==
  /\ pc = "save_old" /\ ~link
  /\ pc' = "open"
  /\ IF file = Missing THEN UNCHANGED <<file, backup>>
                       ELSE backup' = file /\ file' = Missing
  /\ UNCHANGED <<config, link, saves>>

\* _save_old() of a link with a backup that leads to the same file:
\* shutil.copyfile() raises SameFileError, which is ignored.
SameFile ==
  /\ pc = "save_old" /\ backup = Linked
  /\ pc' = "open"
  /\ UNCHANGED <<config, file, backup, link, saves>>

\* _save_old() of another link: shutil.copyfile() truncates the backup ...
StartCopy ==
  /\ pc = "save_old" /\ link /\ backup # Linked
  /\ pc' = "copy" /\ backup' = Torn
  /\ UNCHANGED <<config, file, link, saves>>

\* ... and writes it.
Copy ==
  /\ pc = "copy"
  /\ pc' = "open" /\ backup' = file
  /\ UNCHANGED <<config, file, link, saves>>

OneMoreFailure == failed' = IF failed = 0 THEN 1 ELSE 2

\* The copy fails; the error is ignored, and the file is truncated all the same.
CopyFails ==
  /\ pc = "copy" /\ pc' = "open"
  /\ OneMoreFailure
  /\ UNCHANGED <<config, file, backup, link, saved, overwritten>>

\* The file is created or truncated.
Open ==
  /\ pc = "open"
  /\ pc' = "write" /\ file' = Torn
  /\ UNCHANGED <<config, backup, link, saves>>

Write ==
  /\ pc = "write"
  /\ pc' = "idle" /\ file' = config
  /\ saved' = config /\ failed' = 0 /\ overwritten' = FALSE
  /\ UNCHANGED <<config, backup, link>>

Saving == pc \in {"save_old", "copy", "open", "write"}

\* A write or an open raises an exception, or the process dies.
Fail ==
  /\ Saving
  /\ pc' = "idle" /\ OneMoreFailure
  /\ UNCHANGED <<config, file, backup, link, saved, overwritten>>

Next ==
  \/ MakeMenuconfig \/ CpStart \/ CpEnd \/ CpFails
  \/ Change \/ Save \/ Rename \/ SameFile \/ StartCopy \/ Copy \/ CopyFails
  \/ Open \/ Write \/ Fail

Spec == Init /\ [][Next]_vars
-----------------------------------------------------------------------------
\* Types; and only a link is copied, over a truncated backup, or has a link as
\* backup, and a link always leads to a file.
TypeOK ==
  /\ config \in Contents /\ file \in Files /\ backup \in Files \cup {Linked}
  /\ link \in BOOLEAN
  /\ Saving \/ pc \in {"cp", "cp_write", "idle"}
  /\ saved \in Contents \cup {Missing} /\ failed \in 0..2 /\ overwritten \in BOOLEAN
  /\ pc = "copy" => link /\ backup = Torn
  /\ backup = Linked => link
  /\ link => file # Missing

\* The copies and writes that have failed since the last save that succeeded,
\* and the one that may yet fail.
Unfinished == failed + IF Saving THEN 1 ELSE 0

\* How many of them the backup is good for.
Tolerated == IF backup = Linked \/ overwritten THEN 0 ELSE 1

(***************************************************************************)
(* One save that fails or dies loses nothing: the contents last saved are  *)
(* still in the file or in <file>.old (kconfiglib.py:1443-1450,            *)
(* menuconfig.py:58-59), whatever becomes of `cp -a', with two exceptions: *)
(* the next `make menuconfig' copies a torn file over the backup, the only *)
(* good copy left; and a symbolic link gets a backup with no contents of   *)
(* its own, so that no failure is tolerated.  A second failure in a row,   *)
(* as when the user tries again on a full disk, can lose both files.       *)
(***************************************************************************)
LastSaveSurvives ==
  saved # Missing /\ Unfinished <= Tolerated => saved \in {file, backup}
=============================================================================
