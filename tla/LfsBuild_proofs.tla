--------------------------- MODULE LfsBuild_proofs ---------------------------
(***************************************************************************)
(* For any number of scripts, groups, sources and faults: what make runs   *)
(* is run in order and by the make of its group, and the build is an       *)
(* ordered build.                                                          *)
(***************************************************************************)
EXTENDS LfsBuild, TLAPS

\* A recipe that is executed is that of the target make looks at.
RecipeOfNext ==
  /\ running = 0 <=> recipe = "none"
  /\ running # 0 => at = "make" /\ running = next /\ next \in Scripts /\ HasRecipe(next)

\* Where make is while a script runs
RunningIsNeeded ==
  /\ running # 0 => Remake(next) /\ next \in Walk(making)
  /\ recipe = "touch" => running \in completed

\* A stamp is right, or the script will be run again.
StampsAreRight ==
  \A s \in stamped : s \in completed \/ s \in outdated \/ (s > 1 /\ ~HasRecipe(s - 1))

\* Why make runs a script with a stamp that is not outdated
RemadeIsSeen ==
  at = "make" =>
    /\ next > 1 /\ ~HasRecipe(next - 1) => before = "remade"
    /\ before = "remade" /\ next \in stamped =>
         next \in outdated \/ (next > 1 /\ ~HasRecipe(next - 1))

WalkedIsCompleted ==
  at = "make" => \A r \in 1..(next - 1) : HasRecipe(r) => r \in completed

OrderInv == RunningIsNeeded /\ StampsAreRight /\ RemadeIsSeen /\ WalkedIsCompleted

\* A step of the downloads
Downloading == UNCHANGED <<input, at, walk, stamps>>

\* A third wget for a file is never started.
FetchLimit == at = "check" => \A u \in unchecked : fetching[u] < 2

LEMMA DownloadTypesStep ==
  ASSUME TypeOK, FetchLimit, [Next]_vars PROVE DownloadTypes' /\ FetchLimit'
<1> DownloadTypes BY DEF TypeOK
<1> USE DEF DownloadTypes, FetchLimit, downloads
<1>1. CASE Start BY <1>1 DEF Start
<1>2. CASE StartMake BY <1>2 DEF StartMake
<1>3. CASE UpToDate \/ NoRecipe \/ StartScript \/ ScriptSucceeds \/ Touch
  BY <1>3 DEF UpToDate, NoRecipe, StartScript, ScriptSucceeds, Touch
<1>4. CASE ScriptFails BY <1>4, MaxFaultsAssumption DEF ScriptFails, AfterFailure
<1>5. CASE NextGroup BY <1>5 DEF NextGroup
<1>6. CASE Interrupt BY <1>6, MaxFaultsAssumption DEF Interrupt
<1>7. ASSUME NEW u \in Sources, CheckUrl(u) PROVE DownloadTypes' /\ FetchLimit'
  BY <1>7 DEF CheckUrl
<1>8. ASSUME NEW u \in Sources, FetchSucceeds(u) \/ FetchFails(u)
      PROVE  DownloadTypes' /\ FetchLimit'
  BY <1>8 DEF FetchSucceeds, FetchFails
<1>9. CASE UNCHANGED vars BY <1>9 DEF vars
<1>. QED BY <1>1, <1>2, <1>3, <1>4, <1>5, <1>6, <1>7, <1>8, <1>9 DEF Next, LfsStep

\* Every step but those of the downloads is one of make, or a start or an end.
LEMMA DownloadStep ==
  ASSUME [Next]_vars,
         ~(Start \/ StartMake \/ UpToDate \/ NoRecipe \/ StartScript \/ ScriptSucceeds
             \/ ScriptFails \/ Touch \/ NextGroup \/ Interrupt)
  PROVE  Downloading
BY DEF Next, LfsStep, CheckUrl, FetchSucceeds, FetchFails, Downloading, vars

LEMMA RecipeStep == ASSUME TypeOK, RecipeOfNext, [Next]_vars PROVE RecipeOfNext'
<1> USE DEF RecipeOfNext, HasRecipe, walk
<1>1. CASE Start \/ StartMake \/ UpToDate \/ NoRecipe \/ NextGroup
  BY <1>1 DEF Start, StartMake, UpToDate, NoRecipe, NextGroup, LooksAt
<1>2. CASE StartScript BY <1>2, NScriptsAssumption DEF StartScript, LooksAt, Walk, Scripts
<1>3. CASE ScriptSucceeds \/ ScriptFails \/ Touch \/ Interrupt
  BY <1>3 DEF ScriptSucceeds, ScriptFails, AfterFailure, Touch, Interrupt
<1>4. CASE Downloading BY <1>4 DEF Downloading
<1>. QED BY <1>1, <1>2, <1>3, <1>4, DownloadStep

LEMMA StampTypesStep == ASSUME TypeOK, RecipeOfNext, [Next]_vars PROVE StampTypes'
<1> StampTypes /\ running \in 0..NScripts /\ next \in 1..(NScripts + 1)
  BY DEF TypeOK, MakeTypes
<1> USE DEF StampTypes, HasRecipe, stamps
<1>1. CASE Start \/ StartMake \/ UpToDate \/ NoRecipe \/ NextGroup
  BY <1>1 DEF Start, StartMake, UpToDate, NoRecipe, NextGroup
<1>2. CASE StartScript BY <1>2 DEF StartScript
<1>3. CASE ScriptSucceeds BY <1>3 DEF ScriptSucceeds, RecipeOfNext
<1>4. CASE ScriptFails \/ Interrupt BY <1>4 DEF ScriptFails, Interrupt
<1>5. CASE Touch BY <1>5 DEF Touch, OutdatedBy, RecipeOfNext
<1>6. CASE Downloading BY <1>6 DEF Downloading
<1>. QED BY <1>1, <1>2, <1>3, <1>4, <1>5, <1>6, DownloadStep

LEMMA MakeTypesStep == ASSUME TypeOK, RecipeOfNext, [Next]_vars PROVE MakeTypes'
<1> MakeTypes BY DEF TypeOK
<1> USE DEF MakeTypes, walk
<1>1. CASE Start BY <1>1 DEF Start
<1>2. CASE StartMake BY <1>2, NScriptsAssumption DEF StartMake, Chroot
<1>3. CASE UpToDate \/ NoRecipe
  BY <1>3, NScriptsAssumption DEF UpToDate, NoRecipe, LooksAt, Walk, Scripts
<1>4. CASE StartScript BY <1>4, NScriptsAssumption DEF StartScript, LooksAt, Walk, Scripts
<1>5. CASE ScriptSucceeds BY <1>5 DEF ScriptSucceeds
<1>6. CASE ScriptFails BY <1>6, NScriptsAssumption DEF ScriptFails, AfterFailure
<1>7. CASE Touch BY <1>7, NScriptsAssumption DEF Touch, RecipeOfNext, Scripts
<1>8. CASE NextGroup BY <1>8, NScriptsAssumption DEF NextGroup, Chroot
<1>9. CASE Interrupt BY <1>9, NScriptsAssumption DEF Interrupt
<1>10. CASE Downloading BY <1>10 DEF Downloading
<1>. QED BY <1>1, <1>2, <1>3, <1>4, <1>5, <1>6, <1>7, <1>8, <1>9, <1>10, DownloadStep

TypeInv == TypeOK /\ FetchLimit /\ RecipeOfNext

LEMMA TypeInvariant == Spec => []TypeInv
<1>1. Init => TypeInv
  BY NScriptsAssumption, InputsAssumption, MaxFaultsAssumption
     DEF Init, TypeInv, TypeOK, DownloadTypes, StampTypes, MakeTypes, FetchLimit,
         RecipeOfNext, Scripts, Chroot
<1>2. TypeInv /\ [Next]_vars => TypeInv'
  BY DownloadTypesStep, StampTypesStep, MakeTypesStep, RecipeStep DEF TypeInv, TypeOK
<1>. QED BY <1>1, <1>2, PTL DEF Spec

(***************************************************************************)
(* The variables keep their types: stamps are stamps of scripts with a     *)
(* rule, and make is in one of its groups.                                 *)
(***************************************************************************)
THEOREM BuildTypeCorrect == Spec => []TypeOK
BY TypeInvariant, PTL DEF TypeInv
-----------------------------------------------------------------------------
(***************************************************************************)
(* Scripts run in order.  A script may lose its place among the completed  *)
(* ones when it is run again and fails; its old stamp is still there then, *)
(* so the invariant says why the next make does not rely on it.            *)
(***************************************************************************)
LEMMA OrderStep == ASSUME TypeInv, OrderInv, [Next]_vars PROVE OrderInv'
<1> StampTypes /\ MakeTypes /\ RecipeOfNext
  BY DEF TypeInv, TypeOK
<1> USE DEF OrderInv, RunningIsNeeded, StampsAreRight, RemadeIsSeen, WalkedIsCompleted,
            RecipeOfNext, StampTypes, MakeTypes, HasRecipe, Remake, walk, stamps, downloads
<1>1. CASE Start \/ StartMake BY <1>1 DEF Start, StartMake
<1>2. CASE UpToDate BY <1>2 DEF UpToDate, LooksAt
<1>3. CASE NoRecipe BY <1>3 DEF NoRecipe, LooksAt
<1>4. CASE StartScript BY <1>4 DEF StartScript, LooksAt, Walk
<1>5. CASE ScriptSucceeds BY <1>5 DEF ScriptSucceeds, Walk
<1>6. CASE ScriptFails BY <1>6 DEF ScriptFails, AfterFailure
<1>7. CASE Touch BY <1>7 DEF Touch, OutdatedBy, Scripts
<1>8. CASE NextGroup BY <1>8 DEF NextGroup
<1>9. CASE Interrupt BY <1>9 DEF Interrupt
<1>10. CASE Downloading BY <1>10 DEF Downloading, Walk
<1>. QED BY <1>1, <1>2, <1>3, <1>4, <1>5, <1>6, <1>7, <1>8, <1>9, <1>10, DownloadStep

LEMMA OrderInvariant == Spec => []OrderInv
<1>1. Init => OrderInv
  BY DEF Init, OrderInv, HasRecipe, RunningIsNeeded, StampsAreRight, RemadeIsSeen,
         WalkedIsCompleted
<1>. QED BY <1>1, OrderStep, TypeInvariant, PTL DEF Spec

(***************************************************************************)
(* A script runs when all earlier ones with a rule have succeeded.         *)
(***************************************************************************)
THEOREM BuildRunsInOrder == Spec => []RunsInOrder
<1>1. RecipeOfNext /\ OrderInv => RunsInOrder
  BY DEF OrderInv, RunningIsNeeded, RecipeOfNext, WalkedIsCompleted, RunsInOrder
<1>. QED BY <1>1, TypeInvariant, OrderInvariant, PTL DEF TypeInv
-----------------------------------------------------------------------------
(***************************************************************************)
(* With groups: the stamps are those of the first so many scripts, none is *)
(* older than the one before, and make only remakes what has no stamp.     *)
(***************************************************************************)
NoneIsOutdated == Grouped => outdated = {}

StampsAreFirst == Grouped => \A s \in stamped : \A r \in 1..s : r \in stamped

MakeGoesOn ==
  Grouped /\ at = "make" =>
    /\ \A r \in 1..(next - 1) : r \in stamped
    /\ before = "remade" => next \notin stamped
    /\ \A s \in Scripts : HasRecipe(s) /\ input.group[s] < making => s \in stamped

GroupInv == NoneIsOutdated /\ StampsAreFirst /\ MakeGoesOn

LEMMA GroupTypes == ASSUME TypeInv, NEW s \in Scripts PROVE input.group[s] \in 0..4
BY InputsAssumption DEF TypeInv, TypeOK, DownloadTypes, Chroot

\* What a make looks at has a recipe, and a group that is made by then.
LEMMA WalkHasRecipes ==
  ASSUME TypeInv, Grouped, NEW s \in Walk(making)
  PROVE  s \in Scripts /\ HasRecipe(s) /\ input.group[s] <= making
<1>1. PICK t \in Scripts : s <= t /\ input.group[t] = making
  BY DEF Walk
<1>2. making \in 1..4 /\ s \in Nat /\ s >= 1 /\ s \in Scripts
  BY DEF TypeInv, TypeOK, MakeTypes, Chroot, Walk, Scripts
<1>3. HasRecipe(t) /\ s \in 1..t
  BY <1>1, <1>2 DEF HasRecipe, Scripts
<1>. QED BY <1>1, <1>2, <1>3 DEF Grouped

\* What is made has no stamp.
LEMMA NeededHasNoStamp ==
  ASSUME RunningIsNeeded, GroupInv, RecipeOfNext, Grouped, running # 0
  PROVE  running \notin stamped
BY DEF RunningIsNeeded, GroupInv, NoneIsOutdated, MakeGoesOn, RecipeOfNext, Remake

\* The configuration does not change.
LEMMA GroupedStep == ASSUME [Next]_vars PROVE input' = input /\ (Grouped' <=> Grouped)
<1>1. input' = input
  BY DEF Next, LfsStep, Start, StartMake, UpToDate, NoRecipe, StartScript, ScriptSucceeds,
         ScriptFails, Touch, NextGroup, Interrupt, CheckUrl, FetchSucceeds, FetchFails, vars
<1>. QED BY <1>1 DEF Grouped, HasRecipe

LEMMA GroupStep ==
  ASSUME TypeInv, OrderInv, GroupInv, [Next]_vars, Grouped
  PROVE  GroupInv'
<1> StampTypes /\ MakeTypes /\ RecipeOfNext /\ RunningIsNeeded /\ input' = input
  BY GroupedStep DEF TypeInv, TypeOK, OrderInv
<1> USE DEF GroupInv, NoneIsOutdated, StampsAreFirst, MakeGoesOn, HasRecipe,
            StampTypes, MakeTypes, RecipeOfNext, walk, stamps
<1>1. CASE Start BY <1>1 DEF Start
<1>2. CASE StartMake
  <2>1. \A s \in Scripts : HasRecipe(s) => ~(input.group[s] < 1)
    BY GroupTypes
  <2>. QED BY <1>2, <2>1 DEF StartMake
<1>3. CASE UpToDate BY <1>3 DEF UpToDate, LooksAt, Remake
<1>4. CASE NoRecipe BY <1>4, WalkHasRecipes DEF NoRecipe, LooksAt
<1>5. CASE StartScript BY <1>5 DEF StartScript
<1>6. CASE ScriptSucceeds BY <1>6 DEF ScriptSucceeds
<1>7. CASE ScriptFails BY <1>7 DEF ScriptFails, AfterFailure
<1>8. CASE Touch BY <1>8, NeededHasNoStamp DEF Touch, OutdatedBy, Scripts
<1>9. CASE NextGroup
  <2>1. ASSUME at = "make", NEW s \in Scripts, HasRecipe(s), input.group[s] < making + 1
        PROVE  s \in stamped
    <3>1. CASE input.group[s] < making BY <2>1, <3>1
    <3>2. CASE input.group[s] = making
      <4>1. next \notin Walk(making) BY <1>9 DEF NextGroup
      <4>2. ~(next <= s)
        BY <3>2, <4>1, NScriptsAssumption DEF Walk, Scripts
      <4>. QED BY <2>1, <4>2 DEF Scripts
    <3>. QED BY <2>1, <3>1, <3>2, GroupTypes DEF Chroot
  <2>2. UNCHANGED <<stamped, outdated>> /\ next' = 1 /\ before' = "kept"
    BY <1>9 DEF NextGroup
  <2>3. at' = "make" => at = "make" /\ making' = making + 1
    BY <1>9 DEF NextGroup
  <2>4. NoneIsOutdated' /\ StampsAreFirst'
    BY <2>2
  <2>5. MakeGoesOn'
    BY <2>1, <2>2, <2>3
  <2>. QED BY <2>4, <2>5
<1>10. CASE Interrupt BY <1>10 DEF Interrupt
<1>11. CASE Downloading BY <1>11 DEF Downloading
<1>. QED BY <1>1, <1>2, <1>3, <1>4, <1>5, <1>6, <1>7, <1>8, <1>9, <1>10, <1>11, DownloadStep

LEMMA GroupInvariant == Spec => []GroupInv
<1>1. Init => GroupInv
  BY DEF Init, GroupInv, NoneIsOutdated, StampsAreFirst, MakeGoesOn
<1>2. TypeInv /\ OrderInv /\ GroupInv /\ [Next]_vars => GroupInv'
  BY GroupStep, GroupedStep DEF GroupInv, NoneIsOutdated, StampsAreFirst, MakeGoesOn
<1>. QED BY <1>1, <1>2, TypeInvariant, OrderInvariant, PTL DEF Spec

(***************************************************************************)
(* A script is run by the make of its own group, in every build that is    *)
(* Grouped: only some last scripts have no group, and groups come in order.*)
(***************************************************************************)
THEOREM BuildRunsInOwnGroup == Spec => []RunsInOwnGroup
<1>1. TypeInv /\ OrderInv /\ GroupInv => RunsInOwnGroup
  <2> SUFFICES ASSUME TypeInv, OrderInv, GroupInv, Grouped, running # 0
               PROVE  making = input.group[running]
    BY DEF RunsInOwnGroup
  <2>1. RecipeOfNext /\ RunningIsNeeded /\ MakeTypes
    BY DEF TypeInv, TypeOK, OrderInv
  <2>2. running \in Walk(making) /\ running \in Scripts /\ at = "make"
    BY <2>1 DEF RecipeOfNext, RunningIsNeeded
  <2>3. running \notin stamped
    BY <2>1, NeededHasNoStamp
  <2>4. ~(input.group[running] < making)
    BY <2>2, <2>3, WalkHasRecipes DEF GroupInv, MakeGoesOn
  <2>5. input.group[running] \in Nat /\ making \in Nat
    BY <2>1, <2>2, InputsAssumption
       DEF MakeTypes, TypeInv, TypeOK, DownloadTypes, Chroot
  <2>. QED BY <2>2, <2>4, <2>5, WalkHasRecipes
<1>. QED BY <1>1, TypeInvariant, OrderInvariant, GroupInvariant, PTL
-----------------------------------------------------------------------------
(***************************************************************************)
(* The build is an ordered build: every step is a start, an end or an      *)
(* abortion of a script, or not seen.                                      *)
(***************************************************************************)
LEMMA OrderedStep ==
  ASSUME TypeInv, OrderInv, GroupInv, [Next]_vars, Grouped
  PROVE  Ordered!Next \/ UNCHANGED <<stamped, running>>
<1> Grouped /\ Grouped' /\ RecipeOfNext /\ MakeTypes
  BY GroupedStep DEF TypeInv, TypeOK
<1> USE DEF walk, stamps
<1>1. CASE Start \/ StartMake \/ UpToDate \/ NoRecipe \/ ScriptSucceeds \/ NextGroup
  BY <1>1 DEF Start, StartMake, UpToDate, NoRecipe, ScriptSucceeds, NextGroup
<1>2. CASE StartScript
  <2>1. next \in Scripts /\ next \notin stamped /\ running = 0
    BY <1>2, WalkHasRecipes
       DEF StartScript, LooksAt, Remake, GroupInv, NoneIsOutdated, MakeGoesOn
  <2>2. \A r \in Scripts : r < next => r \in stamped
    BY <1>2 DEF StartScript, LooksAt, GroupInv, MakeGoesOn, MakeTypes, Scripts
  <2>3. running' = next /\ stamped' = stamped
    BY <1>2 DEF StartScript
  <2>4. Ordered!Start(next)
    BY <2>1, <2>2, <2>3 DEF Ordered!Start
  <2>. QED BY <2>1, <2>4 DEF Ordered!Next
<1>3. CASE ScriptFails
  <2>1. running # 0 /\ running' = 0 /\ stamped' = stamped
    BY <1>3 DEF ScriptFails, AfterFailure, RecipeOfNext
  <2>2. Ordered!Abort
    BY <2>1 DEF Ordered!Abort
  <2>. QED BY <2>2 DEF Ordered!Next
<1>4. CASE Touch
  <2>1. running # 0 /\ running' = 0 /\ stamped' = stamped \cup {running}
    BY <1>4 DEF Touch, RecipeOfNext
  <2>2. Ordered!Finish
    BY <2>1 DEF Ordered!Finish
  <2>. QED BY <2>2 DEF Ordered!Next
<1>5. CASE Interrupt
  <2>1. running' = 0 /\ stamped' = stamped
    BY <1>5 DEF Interrupt
  <2>2. running # 0 => Ordered!Abort
    BY <2>1 DEF Ordered!Abort
  <2>. QED BY <2>1, <2>2 DEF Ordered!Next
<1>6. CASE Downloading BY <1>6 DEF Downloading
<1>. QED BY <1>1, <1>2, <1>3, <1>4, <1>5, <1>6, DownloadStep

(***************************************************************************)
(* The build, with its groups, downloads and failures, implements the      *)
(* ordered build: no script that is stamped is ever run again.             *)
(***************************************************************************)
THEOREM BuildIsOrdered == Spec => ImplementsOrderedBuild
<1> DEFINE done == IF Grouped THEN stamped ELSE {}
           doing == IF Grouped THEN running ELSE 0
<1>1. Init => Ordered!Init
  BY DEF Init, Ordered!Init
<1>2. TypeInv /\ OrderInv /\ GroupInv /\ [Next]_vars
        => [Ordered!Next]_<<done, doing>>
  <2> SUFFICES ASSUME TypeInv, OrderInv, GroupInv, [Next]_vars
               PROVE  [Ordered!Next]_<<done, doing>>
    OBVIOUS
  <2>1. CASE Grouped
    <3>1. UNCHANGED <<stamped, running>> => UNCHANGED <<done, doing>>
      BY <2>1, GroupedStep
    <3>. QED BY <2>1, <3>1, OrderedStep
  <2>2. CASE ~Grouped
    BY <2>2, GroupedStep
  <2>. QED BY <2>1, <2>2
<1>. QED
  BY <1>1, <1>2, TypeInvariant, OrderInvariant, GroupInvariant, PTL
     DEF Spec, ImplementsOrderedBuild, Ordered!Spec
=============================================================================
