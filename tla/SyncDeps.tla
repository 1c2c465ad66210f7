------------------------------- MODULE SyncDeps -------------------------------
(***************************************************************************)
(* Kconfig.sync_deps() of libs/menu/kconfiglib.py, called before each      *)
(* build: it touches a header for every symbol whose line in auto.conf     *)
(* changes and then writes auto.conf, so that make recompiles what depends *)
(* on the symbol.  The process may die anywhere, and the configuration and *)
(* the Kconfig files may change between two calls.                         *)
(*                                                                         *)
(* The line of a symbol is its value, or NoLine: for a bool or tristate    *)
(* symbol at n, one whose _write_to_conf is False, and one without         *)
(* definition.  make is external: it recompiles what depends on a touched  *)
(* header, and runs only after sync_deps() has returned.                   *)
(***************************************************************************)
CONSTANTS
  Syms,    \* symbol names
  Vals,    \* values
  Cut,     \* Cut[v]: what a line with value v may be read as when cut short
  NoLine   \* no line in auto.conf, and Symbol._old_val is None

ASSUME CutAssumption == Cut \in [Vals -> SUBSET Vals]

Entries == [Syms -> Vals \cup {NoLine}]

VARIABLES
  val,      \* the line of each symbol under the present configuration
  tree,     \* how the Kconfig files mention it: "defined", "referenced", "gone"
  auto,     \* the lines of auto.conf
  old,      \* Symbol._old_val
  pc,       \* "idle", "load", "compare", "write"
  todo,     \* the symbols the present loop has yet to look at
  synced,   \* sync_deps() has returned since the last change or crash
  touched,  \* the symbols whose header is newer than what depends on it
  built,    \* the line of each symbol when what depends on it was compiled
  lost,     \* the symbols whose line a crash cut off or cut short, until touched
  dropped   \* those whose line was read when they had no definition

progress == <<old, pc, todo>>
ghosts == <<lost, dropped>>
vars == <<val, tree, auto, old, pc, todo, synced, touched, built, lost, dropped>>

Blank == [s \in Syms |-> NoLine]

Init ==
  /\ tree = [s \in Syms |-> "defined"] /\ val \in Entries
  /\ auto = Blank /\ old = Blank /\ built = Blank
  /\ pc = "idle" /\ todo = {} /\ synced = FALSE
  /\ touched = {} /\ lost = {} /\ dropped = {}

\* The configuration or the Kconfig files change between two builds.
Change ==
  /\ pc = "idle"
  /\ tree' \in [Syms -> {"defined", "referenced", "gone"}]
  /\ val' \in Entries
  /\ \A s \in Syms : tree'[s] # "defined" => val'[s] = NoLine
  /\ synced' = FALSE
  /\ UNCHANGED <<auto, progress, touched, built, ghosts>>

\* sync_deps() is called; _load_old_vals() begins.
Start ==
  /\ pc = "idle"
  /\ pc' = "load" /\ todo' = Syms /\ old' = Blank
  /\ synced' = FALSE
  /\ UNCHANGED <<val, tree, auto, touched, built, ghosts>>

Touch(s) == touched' = touched \cup {s} /\ lost' = lost \ {s} /\ dropped' = dropped \ {s}

\* One line of auto.conf: the symbol gets its old value if the Kconfig files
\* mention it, and its header is touched if they do not.
LoadLine(s) ==
  /\ pc = "load" /\ s \in todo
  /\ todo' = todo \ {s}
  /\ IF auto[s] = NoLine THEN UNCHANGED <<old, touched, ghosts>>
     ELSE IF tree[s] = "gone" THEN Touch(s) /\ UNCHANGED old
     ELSE /\ old' = [old EXCEPT ![s] = auto[s]]
          /\ dropped' = IF tree[s] = "referenced" THEN dropped \cup {s} ELSE dropped
          /\ UNCHANGED <<touched, lost>>
  /\ UNCHANGED <<val, tree, auto, pc, synced, built>>

LoadDone ==
  /\ pc = "load" /\ todo = {}
  /\ pc' = "compare" /\ todo' = {s \in Syms : tree[s] = "defined"}
  /\ UNCHANGED <<val, tree, auto, old, synced, touched, built, ghosts>>

\* Mutant: a symbol that goes to n is not flagged.
CompareWritten(s) ==
  /\ pc = "compare" /\ s \in todo
  /\ todo' = todo \ {s}
  /\ IF val[s] \notin {old[s], NoLine} THEN Touch(s) ELSE UNCHANGED <<touched, ghosts>>
  /\ UNCHANGED <<val, tree, auto, old, pc, synced, built>>

\* One defined symbol is compared with its old value.
Compare(s) ==
  /\ pc = "compare" /\ s \in todo
  /\ todo' = todo \ {s}
  /\ IF val[s] # old[s] THEN Touch(s) ELSE UNCHANGED <<touched, ghosts>>
  /\ UNCHANGED <<val, tree, auto, old, pc, synced, built>>

Return == pc' = "idle" /\ synced' = TRUE

\* Mutant: auto.conf is written before the symbols are compared.
OpenEarly ==
  /\ pc = "compare"
  /\ auto # val /\ auto' = Blank /\ pc' = "write"
  /\ UNCHANGED <<val, tree, old, todo, synced, touched, built, ghosts>>

\* _write_old_vals(): auto.conf is truncated unless it is what would be written.
Open ==
  /\ pc = "compare" /\ todo = {}
  /\ IF auto = val THEN Return /\ UNCHANGED auto
     ELSE auto' = Blank /\ pc' = "write" /\ UNCHANGED synced
  /\ UNCHANGED <<val, tree, old, todo, touched, built, ghosts>>

Write ==
  /\ pc = "write"
  /\ auto' = val /\ Return
  /\ UNCHANGED <<val, tree, old, todo, touched, built, ghosts>>

\* sync_deps() dies: todo is of no more use.
Die == /\ pc' = "idle" /\ todo' = {}
       /\ UNCHANGED <<val, tree, old, synced, touched, built, dropped>>

Crash == /\ pc \in {"load", "compare"}
         /\ Die
         /\ UNCHANGED <<auto, lost>>

\* What a crash may leave of the line of s: a prefix of an int or hex value is
\* read as a value, one of a bool (CONFIG_S=) as a value it never has; a line
\* without "=", or a string without its closing quote, is not read.
Remains(s) == {NoLine} \cup IF val[s] = NoLine THEN {} ELSE Cut[val[s]]

\* It dies while it writes: only some lines reach the file, one of them cut short.
CrashInWrite ==
  /\ pc = "write"
  /\ \E kept \in SUBSET Syms, last \in Syms : \E left \in Remains(last) :
       auto' = [s \in Syms |-> IF s \in kept THEN val[s]
                               ELSE IF s = last THEN left ELSE NoLine]
  /\ lost' = lost \cup {s \in Syms : auto'[s] # val[s]}
  /\ Die

\* make recompiles what depends on a touched header.
Compile(s) ==
  /\ pc = "idle" /\ synced /\ s \in touched
  /\ built' = [built EXCEPT ![s] = val[s]]
  /\ touched' = touched \ {s}
  /\ lost' = lost \ {s} /\ dropped' = dropped \ {s}
  /\ UNCHANGED <<val, tree, auto, progress, synced>>

Next ==
  \/ Change \/ Start \/ LoadDone \/ Open \/ Write \/ Crash \/ CrashInWrite
  \/ \E s \in Syms : LoadLine(s) \/ Compare(s) \/ Compile(s)

Spec == Init /\ [][Next]_vars
-----------------------------------------------------------------------------
\* Types; symbols without definition have no line, and todo is empty outside loops.
TypeOK ==
  /\ val \in Entries /\ auto \in Entries /\ old \in Entries /\ built \in Entries
  /\ tree \in [Syms -> {"defined", "referenced", "gone"}]
  /\ \A s \in Syms : tree[s] # "defined" => val[s] = NoLine
  /\ pc \in {"idle", "load", "compare", "write"} /\ synced \in BOOLEAN
  /\ todo \subseteq Syms /\ (pc \notin {"load", "compare"} => todo = {})
  /\ touched \subseteq Syms /\ lost \subseteq Syms /\ dropped \subseteq Syms

(***************************************************************************)
(* When sync_deps() has returned, everything compiled with another value   *)
(* of a symbol will be recompiled, whatever crashes came before            *)
(* (kconfiglib.py:1679-1706), but for symbols that lost their definition   *)
(* while others still refer to them, and symbols whose line a crash cut    *)
(* off or cut short in auto.conf: one that then goes to n, or takes the    *)
(* very value its cut line is read as, is taken to be unchanged.           *)
(***************************************************************************)
ChangesAreTouched ==
  synced => \A s \in Syms : built[s] # val[s] => s \in touched \cup lost \cup dropped

(***************************************************************************)
(* The same with no exception for removed symbols: "Flag that the symbol   *)
(* no longer exists, in case something still depends on it"                *)
(* (kconfiglib.py:1766-1768).                                              *)
(***************************************************************************)
RemovedSymbolsAreTouched ==
  synced => \A s \in Syms : built[s] # val[s] => s \in touched \cup lost
-----------------------------------------------------------------------------
(***************************************************************************)
(* Why it holds: auto.conf tells what everything not touched was compiled  *)
(* with, also after a crash; and each loop has settled the symbols it has  *)
(* been through.                                                           *)
(***************************************************************************)
Excused == touched \cup lost \cup dropped

AutoIsBuilt == pc # "write" => \A s \in Syms : auto[s] # built[s] => s \in Excused

NotLoadedYet == pc = "load" => \A s \in todo : old[s] = NoLine

LoadedSoFar ==
  pc \in {"load", "compare"} =>
    \A s \in {r \in Syms : pc = "load" => r \notin todo} :
      /\ tree[s] = "defined" => old[s] = auto[s]
      /\ tree[s] # "defined" /\ auto[s] # NoLine => s \in Excused

ComparedSoFar ==
  pc \in {"compare", "write"} =>
    \A s \in {r \in Syms : pc = "compare" => r \notin todo} :
      built[s] # val[s] => s \in Excused

SyncedMeansWritten == synced => pc = "idle" /\ auto = val

Inv == /\ TypeOK /\ SyncedMeansWritten /\ NotLoadedYet
       /\ AutoIsBuilt /\ LoadedSoFar /\ ComparedSoFar /\ ChangesAreTouched
=============================================================================
