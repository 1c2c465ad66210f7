--------------------------- MODULE SaveConfig_proofs ---------------------------
(***************************************************************************)
(* Proofs about SaveConfig, for any configurations and number of saves.    *)
(***************************************************************************)
EXTENDS SaveConfig, TLAPS

(***************************************************************************)
(* Where the contents last saved are, step by step.  The file holds them,  *)
(* or nothing complete; it holds them while cp -a writes, as the copy of a *)
(* torn file counts as overwriting.                                        *)
(***************************************************************************)
FileIsSaved == file \in {saved, Torn, Missing}

Whereabouts ==
  saved # Missing /\ Unfinished <= Tolerated =>
    CASE failed = 0 /\ pc \in {"idle", "cp", "cp_write", "save_old", "copy"} -> saved = file
      [] pc = "cp_write" -> saved = file
      [] pc \in {"open", "write"} -> saved = backup
      [] OTHER -> saved \in {file, backup}

IInv == TypeOK /\ FileIsSaved /\ Whereabouts

\* Before any save the file itself is what was saved.
LEMMA SaveInit == Init => IInv
<1> SUFFICES ASSUME Init PROVE IInv
  OBVIOUS
<1> USE DEF Init
<1>1. failed \in 0..2
  OBVIOUS
<1>2. overwritten \in BOOLEAN
  OBVIOUS
<1>3. TypeOK
  <2>1. /\ config \in Contents /\ file \in Files /\ backup \in Files \cup {Linked}
        /\ link \in BOOLEAN /\ saved \in Contents \cup {Missing}
    BY DEF Files
  <2>2. pc = "cp" /\ (backup = Linked => link) /\ (link => file # Missing)
    OBVIOUS
  <2>. QED BY ONLY <1>1, <1>2, <2>1, <2>2 DEF TypeOK, Saving
<1>4. FileIsSaved /\ Whereabouts
  BY DEF FileIsSaved, Whereabouts
<1>. QED BY <1>3, <1>4 DEF IInv

\* Every step keeps the types.
LEMMA SaveTypeStep == TypeOK /\ [Next]_vars => TypeOK'
<1> SUFFICES ASSUME TypeOK, [Next]_vars PROVE TypeOK'
  OBVIOUS
<1> USE FileAssumption DEF TypeOK, Files, OneMoreFailure, Saving, saves
<1>1. CASE MakeMenuconfig BY <1>1 DEF MakeMenuconfig
<1>2. CASE CpStart BY <1>2 DEF CpStart
<1>3. CASE CpEnd BY <1>3 DEF CpEnd, SessionBegins
<1>4. CASE CpFails BY <1>4 DEF CpFails, SessionBegins
<1>5. CASE Change \/ Save BY <1>5 DEF Change, Save
<1>6. CASE Rename BY <1>6 DEF Rename
<1>7. CASE SameFile BY <1>7 DEF SameFile
<1>8. CASE StartCopy \/ Copy \/ CopyFails
  BY <1>8 DEF StartCopy, Copy, CopyFails
<1>9. CASE Open BY <1>9 DEF Open
<1>10. CASE Write
  <2>1. overwritten' \in BOOLEAN
    BY <1>10 DEF Write
  <2>2. failed' \in 0..2
    BY <1>10 DEF Write
  <2>3. /\ file' \in Files /\ saved' \in Contents \cup {Missing}
        /\ file' # Missing /\ pc' = "idle"
    BY <1>10 DEF Write
  <2>4. config' = config /\ backup' = backup /\ link' = link
    BY <1>10 DEF Write
  <2>. QED BY ONLY TypeOK, <2>1, <2>2, <2>3, <2>4 DEF TypeOK, Saving
<1>11. CASE Fail BY <1>11 DEF Fail
<1>12. CASE UNCHANGED vars BY <1>12 DEF vars
<1>. QED BY <1>1, <1>2, <1>3, <1>4, <1>5, <1>6, <1>7, <1>8, <1>9, <1>10, <1>11,
            <1>12 DEF Next

\* The file is only ever truncated, moved away or written whole.
LEMMA FileStep == FileIsSaved /\ [Next]_vars => FileIsSaved'
<1> SUFFICES ASSUME FileIsSaved, [Next]_vars PROVE FileIsSaved'
  OBVIOUS
<1> USE DEF FileIsSaved, saves
<1>1. CASE MakeMenuconfig \/ CpStart \/ CpEnd \/ CpFails
  BY <1>1 DEF MakeMenuconfig, CpStart, CpEnd, CpFails, SessionBegins
<1>2. CASE Change \/ Save \/ Rename \/ SameFile
  BY <1>2 DEF Change, Save, Rename, SameFile
<1>3. CASE StartCopy \/ Copy \/ CopyFails
  BY <1>3 DEF StartCopy, Copy, CopyFails
<1>4. CASE Open \/ Write \/ Fail
  BY <1>4 DEF Open, Write, Fail
<1>5. CASE UNCHANGED vars BY <1>5 DEF vars
<1>. QED BY <1>1, <1>2, <1>3, <1>4, <1>5 DEF Next

\* Every step keeps track of the contents last saved.
LEMMA SaveStep == IInv /\ [Next]_vars => IInv'
<1> SUFFICES ASSUME IInv, [Next]_vars PROVE Whereabouts'
  BY SaveTypeStep, FileStep DEF IInv
<1>0. TypeOK /\ TypeOK' /\ FileIsSaved
  BY SaveTypeStep DEF IInv
<1> USE <1>0 DEF IInv, TypeOK, Whereabouts, Unfinished, Tolerated, OneMoreFailure,
                 Saving, saves
<1>1. CASE MakeMenuconfig BY <1>1 DEF MakeMenuconfig
<1>2. CASE CpStart
  <2>1. ~overwritten' => file = saved
    BY <1>2 DEF CpStart, FileIsSaved
  <2>2. overwritten' /\ saved # Missing /\ failed = 0 => file = saved
    BY <1>2 DEF CpStart
  <2>. QED BY <1>2, <2>1, <2>2 DEF CpStart
<1>3. CASE CpEnd BY <1>3 DEF CpEnd, SessionBegins
<1>4. CASE CpFails BY <1>4 DEF CpFails, SessionBegins
<1>5. CASE Change BY <1>5 DEF Change
<1>6. CASE Save BY <1>6 DEF Save
<1>7. CASE Rename BY <1>7 DEF Rename
<1>8. CASE SameFile BY <1>8 DEF SameFile
<1>9. CASE StartCopy BY <1>9 DEF StartCopy
<1>10. CASE Copy
  <2>1. backup # Linked /\ backup' # Linked
    BY <1>10, FileAssumption DEF Copy, Files
  <2>. QED BY <1>10, <2>1 DEF Copy
<1>11. CASE CopyFails BY <1>11 DEF CopyFails
<1>12. CASE Open BY <1>12 DEF Open
<1>13. CASE Write BY <1>13 DEF Write
<1>14. CASE Fail BY <1>14 DEF Fail
<1>15. CASE UNCHANGED vars BY <1>15 DEF vars
<1>. QED BY <1>1, <1>2, <1>3, <1>4, <1>5, <1>6, <1>7, <1>8, <1>9, <1>10, <1>11,
            <1>12, <1>13, <1>14, <1>15 DEF Next

\* The files and the state of a save have their types.
THEOREM SaveTypeCorrect == Spec => []TypeOK
<1>1. Init => TypeOK
  BY SaveInit DEF IInv
<1>. QED BY <1>1, SaveTypeStep, PTL DEF Spec

(***************************************************************************)
(* Whatever the configurations, one save that fails or dies never loses    *)
(* the contents last saved, but for the two exceptions LastSaveSurvives    *)
(* states: a torn file that the next `make menuconfig' copies over the     *)
(* backup, and a file that is a symbolic link with a link as backup.       *)
(***************************************************************************)
THEOREM OneFailureLosesNothing == Spec => []LastSaveSurvives
<1>1. IInv => LastSaveSurvives
  BY DEF IInv, TypeOK, Whereabouts, LastSaveSurvives, Unfinished, Tolerated, Saving
<1>. QED BY <1>1, SaveInit, SaveStep, PTL DEF Spec
=============================================================================
