---------------------------- MODULE SyncDeps_proofs ----------------------------
(***************************************************************************)
(* Proofs about SyncDeps, for any symbols, values and number of crashes.   *)
(***************************************************************************)
EXTENDS SyncDeps, TLAPS

\* The types hold at the start ...
LEMMA TypeInit == Init => TypeOK
BY DEF Init, TypeOK, Entries, Blank

\* ... and every step keeps them.
LEMMA TypeStep == TypeOK /\ [Next]_vars => TypeOK'
<1> SUFFICES ASSUME TypeOK, [Next]_vars PROVE TypeOK'
  OBVIOUS
<1> USE DEF TypeOK, Entries, Blank, progress, ghosts, Touch, Return, Die
<1>1. CASE Change BY <1>1 DEF Change
<1>2. CASE Start BY <1>2 DEF Start
<1>3. CASE LoadDone BY <1>3 DEF LoadDone
<1>4. CASE Open BY <1>4 DEF Open
<1>5. CASE Write BY <1>5 DEF Write
<1>6. CASE Crash BY <1>6 DEF Crash
<1>7. CASE CrashInWrite
  <2>1. auto' \in Entries
    <3>1. PICK kept \in SUBSET Syms, last \in Syms :
            \E left \in Remains(last) :
              auto' = [s \in Syms |-> IF s \in kept THEN val[s]
                                      ELSE IF s = last THEN left ELSE NoLine]
      BY <1>7 DEF CrashInWrite
    <3>2. Remains(last) \subseteq Vals \cup {NoLine}
      BY CutAssumption DEF Remains
    <3>. QED BY <3>1, <3>2
  <2>2. lost' \subseteq Syms
    BY <1>7 DEF CrashInWrite
  <2>. QED BY <1>7, <2>1, <2>2 DEF CrashInWrite
<1>8. ASSUME NEW s \in Syms, LoadLine(s) PROVE TypeOK' BY <1>8 DEF LoadLine
<1>9. ASSUME NEW s \in Syms, Compare(s) PROVE TypeOK' BY <1>9 DEF Compare
<1>10. ASSUME NEW s \in Syms, Compile(s) PROVE TypeOK' BY <1>10 DEF Compile
<1>11. CASE UNCHANGED vars BY <1>11 DEF vars
<1>. QED BY <1>1, <1>2, <1>3, <1>4, <1>5, <1>6, <1>7, <1>8, <1>9, <1>10, <1>11 DEF Next

\* synced is only set once auto.conf is written, and no old value is read before
\* its line.
LEMMA SyncedStep ==
  TypeOK /\ SyncedMeansWritten /\ NotLoadedYet /\ [Next]_vars
    => (SyncedMeansWritten /\ NotLoadedYet)'
<1> SUFFICES ASSUME TypeOK, SyncedMeansWritten, NotLoadedYet, [Next]_vars
             PROVE  SyncedMeansWritten' /\ NotLoadedYet'
  OBVIOUS
<1> USE DEF SyncedMeansWritten, NotLoadedYet, progress, Return, Die
<1>1. CASE Change \/ Start \/ LoadDone
  BY <1>1 DEF Change, Start, LoadDone, Blank
<1>2. CASE Open \/ Write
  BY <1>2 DEF Open, Write
<1>3. CASE Crash \/ CrashInWrite
  BY <1>3 DEF Crash, CrashInWrite
<1>4. ASSUME NEW s \in Syms, LoadLine(s)
      PROVE  SyncedMeansWritten' /\ NotLoadedYet'
  BY <1>4 DEF LoadLine, TypeOK, Entries
<1>5. ASSUME NEW s \in Syms, Compare(s) \/ Compile(s)
      PROVE  SyncedMeansWritten' /\ NotLoadedYet'
  BY <1>5 DEF Compare, Compile
<1>6. CASE UNCHANGED vars
  BY <1>6 DEF vars
<1>. QED BY <1>1, <1>2, <1>3, <1>4, <1>5, <1>6 DEF Next

-----------------------------------------------------------------------------
\* Nothing is built at the start, so nothing is out of date.
LEMMA InvInit == Init => Inv
<1> SUFFICES ASSUME Init PROVE Inv
  OBVIOUS
<1>1. TypeOK
  BY TypeInit
<1>. QED BY <1>1 DEF Init, Inv, SyncedMeansWritten, NotLoadedYet, AutoIsBuilt,
                     LoadedSoFar, ComparedSoFar, ChangesAreTouched, Blank

(***************************************************************************)
(* The steps of one call, from the load to the write.                      *)
(***************************************************************************)
LEMMA LoadLineKeepsInv ==
  ASSUME Inv, TypeOK', SyncedMeansWritten', NotLoadedYet', NEW s \in Syms, LoadLine(s)
  PROVE  Inv'
<1> USE DEF Inv, Excused
<1>1. Excused \subseteq Excused'
  BY DEF LoadLine, Touch, ghosts, TypeOK
<1>2. AutoIsBuilt'
  BY <1>1 DEF LoadLine, AutoIsBuilt
<1>3. LoadedSoFar'
  <2> SUFFICES ASSUME NEW r \in Syms, r \notin todo'
               PROVE  /\ tree[r] = "defined" => old'[r] = auto[r]
                      /\ tree[r] # "defined" /\ auto[r] # NoLine => r \in Excused'
    BY DEF LoadLine, LoadedSoFar
  <2>1. CASE r = s
    <3>1. CASE auto[s] = NoLine
      BY <2>1, <3>1 DEF LoadLine, NotLoadedYet
    <3>2. CASE auto[s] # NoLine /\ tree[s] = "gone"
      BY <2>1, <3>2 DEF LoadLine, Touch
    <3>3. CASE auto[s] # NoLine /\ tree[s] # "gone"
      BY <2>1, <3>3 DEF LoadLine, TypeOK, Entries
    <3>. QED BY <3>1, <3>2, <3>3
  <2>2. CASE r # s
    <3>1. old'[r] = old[r]
      BY <2>2 DEF LoadLine, TypeOK, Entries
    <3>2. r \notin todo
      BY <2>2 DEF LoadLine
    <3>. QED BY <1>1, <3>1, <3>2 DEF LoadLine, LoadedSoFar
  <2>. QED BY <2>1, <2>2
<1>4. ComparedSoFar'
  BY DEF LoadLine, ComparedSoFar
<1>5. ChangesAreTouched'
  BY <1>1 DEF LoadLine, ChangesAreTouched
<1>. QED BY <1>2, <1>3, <1>4, <1>5

\* All lines have been read: the old values are those of auto.conf.
LEMMA LoadDoneKeepsInv ==
  ASSUME Inv, TypeOK', SyncedMeansWritten', NotLoadedYet', LoadDone
  PROVE  Inv'
<1> USE DEF Inv, Excused
<1>1. Excused' = Excused
  BY DEF LoadDone, ghosts
<1>2. AutoIsBuilt' /\ ChangesAreTouched'
  BY <1>1 DEF LoadDone, AutoIsBuilt, ChangesAreTouched, ghosts
<1>3. LoadedSoFar'
  BY <1>1 DEF LoadDone, LoadedSoFar
<1>4. ComparedSoFar'
  <2> SUFFICES ASSUME NEW r \in Syms, r \notin todo', built[r] # val[r]
               PROVE  r \in Excused
    BY <1>1 DEF LoadDone, ComparedSoFar
  <2>1. tree[r] # "defined" /\ val[r] = NoLine
    BY DEF LoadDone, TypeOK
  <2>2. auto[r] # NoLine => r \in Excused
    BY <2>1 DEF LoadDone, LoadedSoFar
  <2>3. auto[r] # built[r] => r \in Excused
    BY DEF LoadDone, AutoIsBuilt
  <2>. QED BY <2>1, <2>2, <2>3
<1>. QED BY <1>2, <1>3, <1>4

\* A symbol that was compared is flagged if what is built disagrees with it.
LEMMA CompareKeepsInv ==
  ASSUME Inv, TypeOK', SyncedMeansWritten', NotLoadedYet', NEW s \in Syms, Compare(s)
  PROVE  Inv'
<1> USE DEF Inv, Excused
<1>1. Excused \subseteq Excused'
  BY DEF Compare, Touch, ghosts, TypeOK
<1>2. AutoIsBuilt' /\ ChangesAreTouched'
  BY <1>1 DEF Compare, AutoIsBuilt, ChangesAreTouched
<1>3. LoadedSoFar'
  BY <1>1 DEF Compare, LoadedSoFar
<1>4. ComparedSoFar'
  <2> SUFFICES ASSUME NEW r \in Syms, r \notin todo', built[r] # val[r]
               PROVE  r \in Excused'
    BY DEF Compare, ComparedSoFar
  <2>1. CASE r # s
    BY <1>1, <2>1 DEF Compare, ComparedSoFar
  <2>2. CASE r = s /\ val[s] # old[s]
    BY <2>2 DEF Compare, Touch
  <2>3. CASE r = s /\ val[s] = old[s]
    <3>1. CASE tree[s] = "defined"
      <4>1. auto[s] # built[s]
        BY <2>3, <3>1 DEF Compare, LoadedSoFar
      <4>. QED BY <1>1, <2>3, <4>1 DEF Compare, AutoIsBuilt
    <3>2. CASE tree[s] # "defined"
      <4>1. auto[s] # NoLine => s \in Excused
        BY <3>2 DEF Compare, LoadedSoFar
      <4>2. val[s] = NoLine
        BY <3>2 DEF TypeOK
      <4>. QED BY <1>1, <2>3, <4>1, <4>2 DEF Compare, AutoIsBuilt
    <3>. QED BY <3>1, <3>2
  <2>. QED BY <2>1, <2>2, <2>3
<1>. QED BY <1>2, <1>3, <1>4

\* auto.conf is truncated only once every symbol was compared.
LEMMA OpenKeepsInv ==
  ASSUME Inv, TypeOK', SyncedMeansWritten', NotLoadedYet', Open
  PROVE  Inv'
<1> USE DEF Inv, Excused, ghosts
<1>1. ComparedSoFar' /\ LoadedSoFar'
  BY DEF Open, Return, ComparedSoFar, LoadedSoFar
<1>2. AutoIsBuilt'
  BY DEF Open, Return, AutoIsBuilt
<1>3. ChangesAreTouched'
  BY DEF Open, Return, ComparedSoFar, ChangesAreTouched
<1>. QED BY <1>1, <1>2, <1>3

\* auto.conf is written: it may now disagree with what is built only for flagged
\* symbols.
LEMMA WriteKeepsInv ==
  ASSUME Inv, TypeOK', SyncedMeansWritten', NotLoadedYet', Write
  PROVE  Inv'
<1> USE DEF Inv, Excused, ghosts
<1>1. ComparedSoFar' /\ LoadedSoFar'
  BY DEF Write, Return, ComparedSoFar, LoadedSoFar
<1>2. \A s \in Syms : built[s] # val[s] => s \in Excused
  BY DEF Write, ComparedSoFar
<1>3. AutoIsBuilt' /\ ChangesAreTouched'
  BY <1>2 DEF Write, Return, AutoIsBuilt, ChangesAreTouched
<1>. QED BY <1>1, <1>3

(***************************************************************************)
(* Between calls, and when one dies.                                       *)
(***************************************************************************)
LEMMA CrashKeepsInv ==
  ASSUME Inv, TypeOK', SyncedMeansWritten', NotLoadedYet', Crash \/ CrashInWrite
  PROVE  Inv'
<1> USE DEF Inv, Excused, Die
<1>1. ComparedSoFar' /\ LoadedSoFar'
  BY DEF Crash, CrashInWrite, ComparedSoFar, LoadedSoFar
<1>2. CASE Crash
  BY <1>1, <1>2 DEF Crash, AutoIsBuilt, ChangesAreTouched
<1>3. CASE CrashInWrite
  <2>1. \A s \in Syms : auto'[s] # val[s] => s \in lost'
    BY <1>3 DEF CrashInWrite
  <2>2. \A s \in Syms : built[s] # val[s] => s \in Excused
    BY <1>3 DEF CrashInWrite, ComparedSoFar
  <2>3. Excused \subseteq Excused'
    BY <1>3 DEF CrashInWrite
  <2>4. AutoIsBuilt'
    BY <1>3, <2>1, <2>2, <2>3 DEF CrashInWrite, AutoIsBuilt
  <2>5. ChangesAreTouched'
    BY <1>3, <2>3 DEF CrashInWrite, ChangesAreTouched
  <2>. QED BY <1>1, <2>4, <2>5
<1>. QED BY <1>2, <1>3

\* make recompiles what depends on one flagged symbol.
LEMMA CompileKeepsInv ==
  ASSUME Inv, TypeOK', SyncedMeansWritten', NotLoadedYet', NEW s \in Syms, Compile(s)
  PROVE  Inv'
<1> USE DEF Inv, Excused, progress
<1>1. ComparedSoFar' /\ LoadedSoFar'
  BY DEF Compile, ComparedSoFar, LoadedSoFar
<1>2. \A r \in Syms \ {s} : built'[r] = built[r] /\ (r \in Excused' <=> r \in Excused)
  BY DEF Compile, TypeOK, Entries
<1>3. built'[s] = val[s]
  BY DEF Compile, TypeOK, Entries
<1>4. ChangesAreTouched'
  BY <1>2, <1>3 DEF Compile, ChangesAreTouched
<1>5. auto[s] = val[s]
  BY DEF Compile, SyncedMeansWritten
<1>6. AutoIsBuilt'
  BY <1>2, <1>3, <1>5 DEF Compile, AutoIsBuilt
<1>. QED BY <1>1, <1>4, <1>6

\* Every step keeps the invariant.
LEMMA InvStep == Inv /\ [Next]_vars => Inv'
<1> SUFFICES ASSUME Inv, [Next]_vars PROVE Inv'
  OBVIOUS
<1>0. TypeOK' /\ SyncedMeansWritten' /\ NotLoadedYet'
  BY TypeStep, SyncedStep DEF Inv
<1> USE DEF Inv, AutoIsBuilt, LoadedSoFar, ComparedSoFar, ChangesAreTouched, Excused,
            SyncedMeansWritten, NotLoadedYet
<1>1. CASE Change
  BY <1>0, <1>1 DEF Change, ghosts, progress
<1>2. CASE Start
  BY <1>0, <1>2 DEF Start, ghosts
<1>3. CASE UNCHANGED vars
  BY <1>0, <1>3 DEF vars
<1>. QED BY <1>0, <1>1, <1>2, <1>3, LoadLineKeepsInv, LoadDoneKeepsInv, CompareKeepsInv,
            OpenKeepsInv, WriteKeepsInv, CrashKeepsInv, CompileKeepsInv DEF Next
-----------------------------------------------------------------------------
\* The variables of sync_deps(), and auto.conf, always have their types.
THEOREM SyncTypeCorrect == Spec => []TypeOK
BY TypeInit, TypeStep, PTL DEF Spec

(***************************************************************************)
(* Whenever sync_deps() has returned, what was compiled with another value *)
(* of a symbol is going to be recompiled, however many calls died before   *)
(* and wherever in a line, but for symbols whose line a crash cut off or   *)
(* cut short in auto.conf and symbols that lost their definition while     *)
(* still referred to.                                                      *)
(***************************************************************************)
THEOREM ChangesTouched == Spec => []ChangesAreTouched
<1>1. Inv => ChangesAreTouched
  BY DEF Inv
<1>. QED BY <1>1, InvInit, InvStep, PTL DEF Spec
=============================================================================
