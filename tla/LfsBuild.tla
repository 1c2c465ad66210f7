------------------------------ MODULE LfsBuild ------------------------------
(***************************************************************************)
(* lfs.sh from the downloads on: download-lfs-source.sh, the Makefile that *)
(* build_Makefile.sh generates, and make, which runs the scripts generated *)
(* from the book, one after the other: as root, as user lfs, and in a      *)
(* chroot.  make and wget are external.                                    *)
(*                                                                         *)
(* Scripts are numbered in the order of sort.  Every script has a rule     *)
(* with the script before it as prerequisite, and touches a stamp in the   *)
(* end; only neighbours are compared by time, so it is enough to know      *)
(* which stamps are older than the one before.                             *)
(***************************************************************************)
EXTENDS Naturals

CONSTANTS
  NScripts,
  Sources,    \* the files of urls.lst
  Needs,      \* Needs[s]: the sources script s unpacks
  Inputs,     \* what a build may be started with, see InputsAssumption
  MaxFaults   \* a bound on scripts that fail for no reason here, and interrupts

VARIABLES
  input,      \* the configuration, and what is on the disk
  at,         \* lfs.sh: "off", "check" (the downloads) or "make"
  unchecked,  \* the lines of urls.lst that are still to be read
  fetching,   \* fetching[u]: the wgets for u that run in the background
  good,       \* the files in $BUILDDIR/sources that are complete
  bad,        \*   and those two wgets have written at once
  stamped,    \* the scripts with a stamp
  outdated,   \* those whose stamp is older than that of the script before
  making,     \* the number of the group that is made
  next,       \* the script that make looks at
  before,     \* whether the target before it was "remade" or "kept"
  running,    \* the script whose recipe is executed, or 0
  recipe,     \* where: "script", "touch", or "none"
  completed,  \* the scripts whose last run succeeded
  faults

downloads == <<unchecked, fetching, good, bad>>
walk == <<making, next, before, running, recipe>>
stamps == <<stamped, outdated, completed>>
vars == <<input, at, downloads, walk, stamps, faults>>

Scripts == 1..NScripts

\* SETUP, LUSER, SUDO and CHROOT are 1 to 4; a script may have no group, 0.
Chroot == 4

ASSUME NScriptsAssumption == NScripts \in Nat \ {0}

ASSUME MaxFaultsAssumption == MaxFaults \in Nat

ASSUME NeedsAssumption == Needs \in [Scripts -> SUBSET Sources]

\* group[s] is by the name of the script; here has the files that are in the
\* current directory: "right" or "wrong" by their checksum, or "none"; sources
\* are there from the start; patient users wait for the downloads to end.
ASSUME InputsAssumption ==
  \A i \in Inputs :
    /\ i.group \in [Scripts -> 0..Chroot]
    /\ i.here \in [Sources -> {"none", "wrong", "right"}]
    /\ i.sources \subseteq Sources
    /\ {i.getpkg, i.config, i.patient} \subseteq BOOLEAN

Init ==
  /\ input \in Inputs
  /\ at = "off" /\ unchecked = {} /\ fetching = [u \in Sources |-> 0]
  /\ good = input.sources /\ bad = {}
  /\ stamped = {} /\ outdated = {} /\ completed = {}
  /\ making = 1 /\ next = 1 /\ before = "kept" /\ running = 0 /\ recipe = "none"
  /\ faults = 0
-----------------------------------------------------------------------------
(***************************************************************************)
(* lfs.sh and download-lfs-source.sh                                       *)
(***************************************************************************)
\* The user starts lfs.sh (again).  At most two wgets fetch a file at once.
Start ==
  /\ at = "off"
  /\ \A u \in Sources : fetching[u] < IF input.patient THEN 1 ELSE 2
  /\ at' = "check"
  /\ unchecked' = IF input.getpkg THEN Sources ELSE {}
  /\ UNCHANGED <<input, fetching, good, bad, walk, stamps, faults>>

\* Mutant: only files with a wrong checksum are fetched.
FetchWrong(u) == input.here[u] = "wrong"

\* A line of urls.lst is fetched unless the file is in the current directory.
Fetched(u) == input.here[u] # "right"

\* wget -N -c appends to a file that another one still writes.
CheckUrl(u) ==
  /\ at = "check"
  /\ u \in unchecked
  /\ unchecked' = unchecked \ {u}
  /\ fetching' = IF Fetched(u) THEN [fetching EXCEPT ![u] = @ + 1] ELSE fetching
  /\ \/ UNCHANGED bad
     \/ Fetched(u) /\ fetching[u] > 0 /\ u \notin good /\ bad' = bad \cup {u}
  /\ UNCHANGED <<input, at, good, walk, stamps, faults>>

\* A complete file is not fetched again, a bad one is not found to be bad.
FetchSucceeds(u) ==
  /\ fetching[u] > 0
  /\ fetching' = [fetching EXCEPT ![u] = @ - 1]
  /\ good' = IF u \in bad THEN good ELSE good \cup {u}
  /\ UNCHANGED <<input, at, unchecked, bad, walk, stamps, faults>>

FetchFails(u) ==
  /\ fetching[u] > 0
  /\ fetching' = [fetching EXCEPT ![u] = @ - 1]
  /\ UNCHANGED <<input, at, unchecked, good, bad, walk, stamps, faults>>

\* lfs.sh exits without a kernel configuration; else the Makefile is generated,
\* and made while the downloads may still run.
StartMake ==
  /\ at = "check"
  /\ unchecked = {}
  /\ at' = IF input.config THEN "make" ELSE "off"
  /\ making' = 1 /\ next' = 1 /\ before' = "kept"
  /\ UNCHANGED <<input, downloads, running, recipe, stamps, faults>>
-----------------------------------------------------------------------------
(***************************************************************************)
(* make: a group after the other, each by a make of its own                *)
(***************************************************************************)
\* The scripts of a group and their prerequisites
Walk(g) == {s \in Scripts : \E t \in Scripts : s <= t /\ input.group[t] = g}

HasRecipe(s) == input.group[s] # 0

\* Mutant: stamps are not looked at.
RemakeAll(s) == TRUE

\* Whether script s has to be run
Remake(s) == s \notin stamped \/ s \in outdated \/ before = "remade"

LooksAt(s) == at = "make" /\ running = 0 /\ next = s /\ s \in Walk(making)

UpToDate ==
  /\ LooksAt(next)
  /\ HasRecipe(next) /\ ~Remake(next)
  /\ next' = next + 1
  /\ UNCHANGED <<input, at, downloads, making, before, running, recipe, stamps, faults>>

\* A target that is no file and has no recipe always counts as remade.
NoRecipe ==
  /\ LooksAt(next)
  /\ ~HasRecipe(next)
  /\ next' = next + 1
  /\ before' = "remade"
  /\ UNCHANGED <<input, at, downloads, making, running, recipe, stamps, faults>>

StartScript ==
  /\ LooksAt(next)
  /\ HasRecipe(next) /\ Remake(next)
  /\ running' = next
  /\ recipe' = "script"
  /\ completed' = completed \ {next}
  /\ UNCHANGED <<input, at, downloads, making, next, before, stamped, outdated, faults>>

\* A script needs its sources; the scripts of the host are not in the chroot.
CanSucceed(s) ==
  /\ Needs[s] \subseteq good
  /\ making = Chroot => input.group[s] = Chroot

ScriptSucceeds ==
  /\ recipe = "script"
  /\ CanSucceed(running)
  /\ recipe' = "touch"
  /\ completed' = completed \cup {running}
  /\ UNCHANGED <<input, at, downloads, making, next, before, running, stamped, outdated, faults>>

\* Mutant: the stamp is touched whether the script succeeds or not.
AfterFailureTouch == at' = at /\ running' = running /\ recipe' = "touch" /\ UNCHANGED making

\* Mutant: the next group is made whether a group succeeds or not.
AfterFailureNextGroup ==
  /\ running' = 0 /\ recipe' = "none"
  /\ at' = IF making < Chroot THEN at ELSE "off"
  /\ making' = IF making < Chroot THEN making + 1 ELSE making

\* The recipe, its make, the make above it and lfs.sh end.
AfterFailure == at' = "off" /\ running' = 0 /\ recipe' = "none" /\ UNCHANGED making

ScriptFails ==
  /\ recipe = "script"
  /\ IF CanSucceed(running) THEN faults < MaxFaults /\ faults' = faults + 1
                            ELSE UNCHANGED faults
  /\ AfterFailure
  /\ UNCHANGED <<input, downloads, next, before, stamps>>

\* Mutant: stamps that are not there are outdated, too.
AllOutdatedBy(s) == {s + 1}

\* The stamps that are older once script s is stamped
OutdatedBy(s) == {s + 1} \cap stamped

Touch ==
  /\ recipe = "touch"
  /\ stamped' = stamped \cup {running}
  /\ outdated' = (outdated \ {running}) \cup OutdatedBy(running)
  /\ running' = 0 /\ recipe' = "none"
  /\ next' = next + 1
  /\ before' = "remade"
  /\ UNCHANGED <<input, at, downloads, making, completed, faults>>

\* The group is made, or all of them.
NextGroup ==
  /\ at = "make" /\ running = 0
  /\ next \notin Walk(making)
  /\ IF making < Chroot THEN making' = making + 1 /\ UNCHANGED at
                        ELSE at' = "off" /\ UNCHANGED making
  /\ next' = 1 /\ before' = "kept"
  /\ UNCHANGED <<input, downloads, running, recipe, stamps, faults>>

\* The user interrupts lfs.sh, which the wgets in the background ignore, or the
\* machine goes down.
Interrupt ==
  /\ at # "off"
  /\ faults < MaxFaults
  /\ faults' = faults + 1
  /\ at' = "off" /\ running' = 0 /\ recipe' = "none"
  /\ fetching' \in {fetching, [u \in Sources |-> 0]}
  /\ UNCHANGED <<input, unchecked, good, bad, making, next, before, stamps>>
-----------------------------------------------------------------------------
\* What lfs.sh and make do, but for the loop over urls.lst
LfsStep ==
  \/ StartMake \/ UpToDate \/ NoRecipe \/ StartScript
  \/ ScriptSucceeds \/ ScriptFails \/ Touch \/ NextGroup

Next ==
  \/ Start \/ LfsStep \/ Interrupt
  \/ \E u \in Sources : CheckUrl(u) \/ FetchSucceeds(u) \/ FetchFails(u)

Spec == Init /\ [][Next]_vars

(***************************************************************************)
(* Processes go on, users start lfs.sh again, a wget ends, and a file that *)
(* is fetched again and again is fetched one day.                          *)
(***************************************************************************)
Fairness ==
  /\ WF_vars(Start)
  /\ WF_vars(LfsStep \/ \E u \in Sources : CheckUrl(u))
  /\ \A u \in Sources : /\ WF_vars(FetchSucceeds(u) \/ FetchFails(u))
                        /\ SF_vars(FetchSucceeds(u))

FairSpec == Spec /\ Fairness
-----------------------------------------------------------------------------
\* All scripts have a group, but for some that come last, and the groups come
\* one after the other.
Grouped ==
  \A s \in Scripts : HasRecipe(s) =>
    \A r \in 1..s : HasRecipe(r) /\ input.group[r] <= input.group[s]

DownloadTypes ==
  /\ input \in Inputs
  /\ at \in {"off", "check", "make"}
  /\ unchecked \subseteq Sources
  /\ fetching \in [Sources -> 0..2]
  /\ good \subseteq Sources /\ bad \subseteq Sources
  /\ faults \in 0..MaxFaults

StampTypes ==
  /\ stamped \subseteq {s \in Scripts : HasRecipe(s)}
  /\ outdated \subseteq stamped
  /\ completed \subseteq Scripts

MakeTypes ==
  /\ making \in 1..Chroot /\ next \in 1..(NScripts + 1) /\ running \in 0..NScripts
  /\ before \in {"kept", "remade"} /\ recipe \in {"none", "script", "touch"}

TypeOK == DownloadTypes /\ StampTypes /\ MakeTypes

(***************************************************************************)
(* A script runs when every script with a rule before it has succeeded,    *)
(* and not failed later, whatever was interrupted, failed or has no group  *)
(* (build_Makefile.sh:88 and 94-95).                                       *)
(***************************************************************************)
RunsInOrder ==
  running # 0 => \A r \in 1..(running - 1) : HasRecipe(r) => r \in completed

(***************************************************************************)
(* A script is run by the make of its own group, that is with the user and *)
(* in the root directory it is written for, although every make looks at   *)
(* the scripts of earlier groups (build_Makefile.sh:100 "need to be        *)
(* processed by lfs user count").  Nothing is promised of builds that are  *)
(* not Grouped: a script without group is never stamped, and makes every   *)
(* later target run again, by whatever make looks at it.                   *)
(***************************************************************************)
RunsInOwnGroup == Grouped /\ running # 0 => making = input.group[running]

(***************************************************************************)
(* The build is an ordered build: nothing is built twice, however often it *)
(* is stopped and started again.  Nothing is promised if a script without  *)
(* group is followed by one with a group.                                  *)
(***************************************************************************)
Ordered == INSTANCE OrderedBuild WITH
  done <- IF Grouped THEN stamped ELSE {},
  doing <- IF Grouped THEN running ELSE 0

ImplementsOrderedBuild == Ordered!Spec

\* Everything needed can be there in the end.
Promising ==
  /\ Grouped /\ input.config /\ input.patient
  /\ \A s \in Scripts : \A u \in Needs[s] :
       u \in input.sources \/ (input.getpkg /\ input.here[u] # "right")

(***************************************************************************)
(* The build ends: every script is stamped one day, although no one waits  *)
(* for the downloads and scripts fail without their sources, if the user   *)
(* starts lfs.sh again after a failure.                                    *)
(***************************************************************************)
BuildEnds == Promising => <>(stamped = {s \in Scripts : HasRecipe(s)})
=============================================================================
