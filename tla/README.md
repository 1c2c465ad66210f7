# A formal model of haoos-lfs

haoos-lfs builds a Linux distribution from the LFS and BLFS books. A user
configures the build in a terminal menu (`make menuconfig`), `lfs.sh` turns the
configuration and the books into build scripts and a generated Makefile, and
`make` runs the scripts, first on the host and then in a chroot.

The program's own state-keeping core is the configuration engine,
`libs/menu/kconfiglib.py` (about 7,000 of the 10,300 lines of Python): a tree
built from files, lazily filled caches with a hand-written invalidation, a
load/save cycle, backups and the bookkeeping for incremental builds. On top of
it are the terminal menu, `libs/menu/menuconfig.py` (3,300 lines), and the build
itself, `lfs.sh` with its generated Makefile. This project models these three in
TLA+, checks the models with TLC, and proves the central results with TLAPS.
Line numbers below are those of `src/libs/menu/kconfiglib.py` unless a file is
named.

## 1. Inventory

| component | state | operations | what is hard |
|---|---|---|---|
| Symbol and Choice values (kconfiglib.py 3861-5270, 5790-6140) | `user_value`, `user_selection`, `_was_set`, five `_cached_*` attributes per item, `_dependents` | `tri_value`, `str_value`, `visibility`, `assignable`, `selection`, `set_value()`, `unset_value()` | caches filled recursively, in whatever order clients read; invalidation that stops early; loops between a choice and its symbols; the implicit dependency of everything on MODULES |
| load and save (1099-1623) | user values, `_was_set`, the file | `load_config()` (replace or merge), `write_config()`, `write_min_config()` | the file has values, not user values; choice modes are inferred; flags instead of clearing |
| files (1463-1482, 2147-2177, 6199-6229, Makefile:19-22) | the file and `<file>.old` | `make menuconfig` copies, `write_config()` moves or copies, and writes | crashes and full disks between steps, ignored errors, two programs that write the same backup |
| `sync_deps()` (1625-1791, 6185-6197) | `auto.conf`, header files, `_old_val` | load old values, compare and touch, write | crashes between any two steps; Kconfig files that change between calls |
| parser, preprocessor, tree finalization (2023-3600, 6250-6500) | the tree, built once | parse, propagate dependencies, check for loops | pointers rewired while they are followed; loops through choices |
| menuconfig.py | current menu, shown nodes, cursor, show-all mode, `_conf_changed`, two file names | keys: move, enter, leave, jump, change, load, save, quit | state kept across changes that hide what it refers to |
| blfs.py, build_blfs_Makefile.sh | none | rules for the enabled packages | order of rules |
| lfs.sh, Makefile, build_Makefile.sh | stamp files in `$JHALFSDIR`, the generated Makefile | groups SETUP, LUSER, SUDO, CHROOT; a stamp per script | interruption and restart; targets without recipe |
| download-lfs-source.sh | files in `$BUILDDIR/sources` | background `wget`s | nobody waits; checksums of another directory |
| parse-*-book.sh, *.xsl | none | xsltproc | - |
| os-build/*.sh | shell variables that outlive a package | look up, unpack, install | stale variables, lost exit status |
| os-build/xml_parse | none | tree traversal | uninitialized variables |
| scripts/chroot*.sh, mount, unload | mounts below `$LFS` | mount, chroot, umount, clean | mounting twice, cleaning what is mounted |
| scripts/backup_sources.sh, tar_xvf_sources-3.sh | archives and directories | pack, remove, unpack | interruption and rerun |
| scripts/initramfs-live.sh, ramfsdisk, live.sh | the init of a live system | device search | retries |
| other scripts | - | straight-line set-up | nothing to interleave |

How they interact: `menuconfig.py` is a client of the engine (it reads
attributes, sets values, loads and saves); `lfs.sh` sources the file the engine
writes; `build_Makefile.sh` writes the Makefile that runs the scripts generated
from the book; `blfs.py` is another client of the engine.

What makes each part correct is listed with the hazards of `PROJECT.json`: each
names the line where it bites and the properties that would catch it, or why
there is none.

## 2. Modules

    ConfigNames            the items: symbols, choices, the Nones
      ConfigItems          user values, and the four ways they change
        ConfigValues       what the engine promises: no caches
        ConfigCache        the caches and their invalidation; implements ConfigValues
          ConfigWalk       _rec_invalidate() as the recursion it is
            ConfigCache_proofs
      LoopSearch           the search for dependency loops, in any graph
      KconfigItems         symbols and choices of a tree, operands and comparisons
        KconfigProperties  every property as a function, for any expr_value()
          KconfigFiles     what is written to and read from configuration files
            KconfigSession a client that sets, unsets, saves and loads
            Menuconfig     the client: the terminal menu
            KconfigFiles_proofs
              KconfigSession_proofs, Menuconfig_proofs
        KconfigExpressions expr_value(), the items in expressions, _dependents
          KconfigSemantics what each property looks at; all of them from scratch
      ConfigTrees          shorthands for writing Kconfig trees
        KconfigParse       parsing files into menu nodes, and dependencies of nodes
          KconfigTree      _finalize_tree(): where the trees come from
            KconfigLoops   _build_dep(), then LoopSearch, then _add_choice_deps()
    KconfigState           what KconfigTree makes and LoopSearch goes through
      KconfigInit_proofs   about KconfigParse and LoopSearch
    SaveConfig             make menuconfig and write_config() on a file system that fails
      SaveConfig_proofs
    SyncDeps               sync_deps() with crashes and edits
      SyncDeps_proofs
    OrderedBuild           what a build promises: each script once, in order
    LfsBuild               downloads, the generated Makefile and make; implements OrderedBuild
      LfsBuild_proofs
    MC*                    instances for TLC

### ConfigCache and ConfigValues

`ConfigValues` is the abstract specification: an attribute is a function
`Truth(c, u)` of the user values, and a read returns it.

`ConfigCache` has the user values, the caches and the result of the latest
read. Its constants `Eval` and `Reads` stand for the bodies of the properties:
what attribute `c` computes from the user values and the attributes it looks
at, and which attributes those are. A read of a property is a sequence of `Fill`
and `Hit` steps, as in the code, where a property evaluates other properties
before it stores its own result; between two such steps any other operation may
come, which is more than the sequential code does and costs nothing. Changes
(`SetValue`, `UnsetValue`, `SetMode`, `UnsetChoice`) are whole methods,
invalidation included. `Invalidated` states the walk of `_rec_invalidate()` as
the least set closed under `_dependents`, entering only items with a cached
visibility, or everything if MODULES is reached; `ConfigWalk` writes the same
walk as the recursion it is, with a bound on its depth, so that both can be
compared, by TLC and by proof.

What the cache needs of the properties is stated as five assumptions: a
property's result depends only on what it looks at (`LocalityAssumption`); no
property can look at itself (`AcyclicAssumption`); `Truth` solves the equations
(`TruthAssumption`); `_build_dep()` and `_add_choice_deps()` find every
dependency but the ones on MODULES (`DependentsAssumption`); a user value of a
symbol without prompt has no effect (`PromptlessAssumption`). The MC modules
give the constants the definitions of `KconfigSemantics`, so TLC evaluates every
assumption on the translated code: that is how the two modules meet.

### From KconfigItems to KconfigSession

`KconfigProperties` translates the properties of Symbol and Choice for a tree
`Def`, which is what the parser leaves after `_finalize_tree()`: prompts,
defaults and ranges with their conditions propagated, `rev_dep`, `weak_rev_dep`
and `direct_dep` as expressions. How an expression is evaluated is the constant
`ExprValue`; `ValueOfParts` says what `expr_value()` makes of the values of its
parts. So nothing in this module and in those that build on it for files,
sessions and the menu needs a RECURSIVE operator, and theorems can speak of
them. `KconfigExpressions` has the recursion itself (`Evaluated`), the items in
an expression and the dependencies that follow; `KconfigSemantics` has what each
property looks at, for `ConfigCache`, and `FromScratch`, which computes all
attributes without cache, in layers.

`KconfigFiles` takes the attributes under user values `u` as `Attributes(u)` and
states what it needs of them:

* `TreeAssumption` and `UserValsAssumption`: the form of trees and user values;
* `RankAssumption`: attributes and expressions have ranks, and look at what has
  lower ranks only. This is the absence of dependency loops, which the parser
  sees to and `KconfigLoops` is about;
* `EngineAssumption`: attributes satisfy the equations of `KconfigProperties`,
  expressions are evaluated part by part, and a choice symbol is at most as
  visible as its choice.

What a file can tell is not assumed of every tree; the theorems on saved files
have these as hypotheses (section 4), and `KconfigFiles` defines them:

* `ModeIsSaved(c)`: when all symbols of choice `c` are at n, its mode is the one it
  has without user values. A file has modes only in the lines of symbols;
* `ModesAreSaved`: only the symbols of a choice look at the mode of one for which
  this does not hold. `A && ...`, with `A` a symbol of the choice, does not look at
  the mode when `A` is n (`ChoicesIn`);
* `MinimalTellsAll`: what `write_min_config()` takes for granted. Prompts need the
  dependencies of their symbol, only bool and tristate symbols are selected, and a
  tristate choice has tristate symbols.

The MC modules substitute `Evaluated`, `FromScratch` and ranks computed from the
layers, and TLC evaluates all four assumptions on the trees of the runs, and the
hypotheses where the property of the theorem is checked (`LosesNoMode`,
`LosesNoMinimum`, `FilesAreComplete`). That
clients read these attributes whatever the caches hold is `CacheImplementsValues`.

`KconfigSession` is a client that sets and unsets values, writes the
configuration and loads it again, or loads files others wrote, replacing or
merging. A file is a sequence of assignments (`KconfigFiles`: `Contents` and
`MinContents` write one, `Load` and `Merge` read one). `_was_set` is a variable
of its own, since `unset_value()` leaves it behind.

### KconfigParse, KconfigTree and KconfigLoops

`KconfigParse` and `KconfigTree` are `Kconfig.__init__()` up to the finished tree.
Parsing has one action per statement that starts a menu node (`Statement`, `OpenBlock`), ends a
block (`CloseBlock`), sources a file or ends one; `open` is the stack of calls of
`_parse_block()`, each with its `parent` and `prev`, and `tree` has the pointers
`list`, `next` and `parent`, which the code rewires and the model rewires in the
same places. Since every statement is a free choice, TLC goes through all files
of up to `MaxNodes - 1` statements, in any order, nesting and division into
files, wrong ones included. `Finalize` is the end of the first file and the whole of
`_finalize_tree()`, which is deterministic and so one step: dependencies are
propagated (`EndOfMainFile` and `PropagateDeps`), symbols get implicit menus (`Submenu`), `Flatten` and
`RemoveIfs` clean up each level, `SymbolOf` and `ChoiceOf` collect the properties
of each item into `def`. `def` is a tree of `KconfigSemantics`, which is
instantiated with it.

The model propagates dependencies in one pass from the top before any node
moves; the code does it level by level while it moves nodes, which comes to the
same since a level is propagated before its nodes are touched.
`PromptsMeetRequirements` compares the outcome with the files as they were
parsed, not with the order of the passes.

`KconfigParse` puts expressions together (`MakeAnd`) and evaluates none: what they
mean is the operator `Meaning` of its parameters, for which `MCKconfigLoops` has
`expr_value()`. So neither parsing nor the propagation needs a RECURSIVE operator,
and both can be proved about. `FilesInOrder` is about the tree that parsing gives to
`_finalize_tree()` (`FileTree`); it is a part of `LoopsTypeOK`.

`LoopSearch` is the depth-first search over `_dependents` by itself. It sees
symbols, choices and what depends on them, and no expressions: it may start from
any finite graph in which symbols and choices know each other (`Starts`), so that
it can be proved about. The recursion of `_check_dep_loop_sym()` and
`_check_dep_loop_choice()` is the variable `calls`, a step is one iteration of a
loop of the code (`CheckNext`, `FollowDependent`, `FollowChoice`), and the
iteration over a set is a free choice; `Return` sets `_visited` to 2. A symbol is
entered with or without its choice (`SymbolCall`), a choice with all of its
symbols but one (`ChoiceCall`), as `ignore_choice` and `skip` say.
`LoopsAreFound` is about attributes, not items: `Reads` are the visibilities and
values that computing one may look at, and a set of attributes is `Endless` if
each looks at another one of the set, so that `tri_value` would recurse without
end. An accepted graph has no such set, except for two kinds of choices, which
section 6 has as well: those with something inside that is not one of their
symbols (not `PlainChoices`), and those of which one symbol can affect another
otherwise than through the choice (`Entangled`), unless it has two symbols only
and nothing refers to it (`Simple`).

`KconfigLoops` puts the two together: `BuildDep` takes the graph from the finished
tree, the steps of `LoopSearch` follow, and `AddChoiceDeps` completes
`_dependents` once the graph is accepted. The menu nodes are dropped when the
search begins, to save states. `LoopsTypeOK` checks that every search starts as
`Starts` says, and that `Reads` covers what the properties of
`KconfigSemantics` look at (`ReadsAreCovered`): so the theorems on `LoopSearch`
speak of the files the parser reads. `NoFalseAlarms` compares the other verdict
with the evaluation itself: `EvaluationEnds` says that every attribute of
`KconfigSemantics` is reached from attributes that look at nothing. This closes
the circle with `ConfigCache`: `LoopsAreFound` is its `AcyclicAssumption` and
`ReadsAreDependencies` its `DependentsAssumption`, here as facts about all files
the parser accepts and not about one tree.

### Menuconfig

One action per key that changes state: `Move`, `ChangeNode` (space and enter),
`SetTri` (n, m, y), `EnterMenu`, `LeaveMenu`, `ToggleShowAll`, `Jump` (the end of
the search dialog), `LoadDialog`, `SaveDialog`, `SaveFails`, and `Restart`, which
ends the session and starts another one. The state is what the module globals
hold: `menu` (`_cur_menu`), `shown` (`_shown`), `cursor` (`_sel_node_i`), `all`
(`_show_all`), `changed` (`_conf_changed`), the user values, and the file. A
lookup that fails (`list.index()`, `tuple.index()`) puts the cursor to 0, which
stands for the uncaught exception; only `Restart` is possible then. `vals` is the
set of all present values, kept as a variable so that it is computed once per
step.

`NodeAssumption` is the form of the menu tree that the parser leaves. `PlainTree`
is not assumed: it is the hypothesis under which no key raises an exception
(section 4), and has three parts. `DefinedOnce`: choices and symbols with an
implicit menu have one definition. `NoTristates`: no item is a tristate, which holds for the Kconfig files that haoos-lfs writes. `EntriesNeedMenu`:
what can be seen is in menus that can be seen. Section 5 says what happens
otherwise. `FilesTellAll` is the hypothesis under which files lose nothing: there
are no tristates, and `ModeIsSaved` holds of every choice.

### LfsBuild and OrderedBuild

`LfsBuild` is `lfs.sh` from the downloads on. The loop over `urls.lst` starts a
`wget` for each file it does not find, and does not wait; a `wget` ends well or
not at any later time (`FetchSucceeds`, `FetchFails`), also when `lfs.sh` has long
gone on, ended, or been started again. Two at once for one file may spoil it
(`bad`), since both append. Then `make` goes through the groups SETUP, LUSER,
SUDO and CHROOT; in each it looks at the scripts in order (`UpToDate`,
`NoRecipe`, `StartScript`), because each script is a prerequisite of the next,
whatever its group. A recipe is a script and then `touch`. A script fails if its
sources are not complete, if it is a script of the host that is started in the
chroot, or for no reason, at most `MaxFaults` times; `Interrupt` ends everything
at any time, with or without the downloads.

`make` and `wget` are external and modelled from how the scripts use them: a
target is remade if it does not exist, is older than its prerequisite, or its
prerequisite was remade; a target without recipe that does not exist counts as
remade every time. Of modification times only `outdated` is kept, the stamps
that are older than the one before them; two stamps are assumed to be of
different times.

`OrderedBuild` says what this is for: each script is started after all earlier
ones are done, and not again once it is done, however often the build is
aborted. The refinement maps `stamped` to `done` and `running` to `doing`, under
the condition `Grouped`: all scripts but some last ones have a group, and groups
come in order. Otherwise `NoRecipe` makes every later target run again, as the
instance `<<1, 0, 2, 3, 4>>` does; `RunsInOrder` holds even then.

### SaveConfig and SyncDeps

`SaveConfig` has one action per system call that matters. A session starts with
`make menuconfig`: `cp -a configuration configuration.old` (Makefile:20)
truncates the backup and writes it (`CpStart`, `CpEnd`); if the file is a
symbolic link, it unlinks the backup and makes it a link to the same target
(`Linked`). A `cp` that fails is ignored (`CpFails`). A save is `os.replace()`, or
the two halves of `shutil.copyfile()` for a link, then the truncating `open()`
and the write. With a `Linked` backup `copyfile()` raises `SameFileError`, which
`_save_old()` ignores (`SameFile`). Any step may fail or the process die; then
the user tries again, changes something first, or starts another session.
`overwritten` remembers that `cp -a` has gone over the backup with a torn file
since the last save that succeeded. (`make blfs` removes its own file first and
has no `cp`.)

`SyncDeps` has one action per line read, per symbol compared, and for the
truncation and the write of `auto.conf`. `make` is external: after `sync_deps()`
returned it recompiles what depends on a touched header (`Compile`). The
configuration and the Kconfig files change between calls; a symbol can lose its
definition and still be referred to. A crash in the write (`CrashInWrite`) may
lose any lines and cut one short: what is left of an int or hex value is a value,
too (`CONFIG_S=10` becomes `CONFIG_S=1`), and `_load_old_vals()` takes it for the
old one. `Cut` gives the values each value can be cut to; that `CONFIG_B=` is read
as a value, which no bool ever has, is among what it may give, and a string
without its closing quote is not read at all.

## 3. Runs

| run | instance | what it shows |
|---|---|---|
| `config_cache` | a tristate choice with two symbols, one depending on a fifth symbol; MODULES promptless; 7,504 states | caches are coherent and implement the cache-free engine; why (`ReadsStayCached`, `FlagIsSound`); the recursive walk clears what the closure says, through the loops of the choice |
| `values` | 7 symbols: select, imply, conditional prompt, default above the visibility, a range with a moving end; 6,048 states | ranges hold, assignable values are taken, saved files (full and minimal) give the values back |
| `choice` | a tristate choice and an optional bool choice, one symbol of which depends on the first choice; 9,060 states | one selection per choice, nothing at m without modules, loading does not depend on the past |
| `save` | 3 configurations; 2,145 states | one failed save loses nothing until `cp -a` copies a torn file, unless the file is a link |
| `sync` | 2 symbols of 3 lines, 10 that can be cut to 1 among them; 502,784 states | changes are flagged across crashes, between lines and within them |
| `menu` | 8 nodes: an implicit menu, a menuconfig symbol that is hidden while its entry is not, an int symbol with a moving range, a choice, two files to load; 15,644 states | no key raises, what is on the screen is what the values call for, menus can be left, quitting unasked loses nothing, toggling toggles |
| `loops` | all files of up to 4 of 12 statements (symbols that depend on and select each other, a symbol without prompt, an if, a menu with `visible if`, a choice without condition, one whose prompt depends on a symbol, one with dependencies and defaults, a comment), 2 files; 578,471 states | the finished tree has all nodes in order, with the conditions they must have; what is accepted can be evaluated and invalidated; what is rejected has a loop |
| `build` | 5 scripts in three groupings, 2 sources, 2 faults; 135,892 states | order, groups, refinement of `OrderedBuild`, and that the build ends |
| `loop_in_choice`, `unset`, `replace`, `removed_symbol` | the instances of `loops`, `choice` (twice) and `sync` | four disagreements of the code with its documentation (section 6) |

Bounds. Trees are the bound of the first three runs and of `menu`: each is chosen
to have every kind of edge the semantics knows (prompt conditions, defaults, select, imply,
ranges, choices, MODULES) and at least one chain of three. User values are
bounded by `UserVals`, client edits by `Edits`, `Unsets` and `Files`, which are
small because the interesting cases are combinations, not many values. Int values
are a handful around the bounds of the ranges. In `SaveConfig` the failures since
the last success are counted up to 2, "or more"; in `SyncDeps` nothing is
bounded but the symbols and values.

In `loops` the bound is four statements and one node per item: enough for an if
or a menu around a choice with two symbols that depend on each other or on the
choice, for an implicit menu in an implicit menu, for a symbol without prompt
that is flattened, and for loops of length two and three with and without a
choice. Items defined at several places are left to `MaxDefs`, which the
instance sets to 1. In `build` five scripts are the smallest number with a
script for every group and two neighbours of one group; two faults allow an
interrupted build to fail once more.

The assumptions of `ConfigCache` quantify over all user values and all
environments of an attribute, which bounds the size of its trees more than the
state space does.

No run uses `CHECK_DEADLOCK FALSE`: something can always be read, changed or
saved, files be read or a build be started again.

Fairness is assumed in `LfsBuild` only, where things run by themselves; the engine
and the menu wait for their user. `BuildEnds` says that every script is stamped
one day. It needs that `lfs.sh` and `make` go on (weak fairness: they are
processes), that the user starts `lfs.sh` again after it has ended (weak
fairness: nothing in the code retries), that a `wget` ends, and that a file
which is fetched again and again arrives one day (strong fairness of
`FetchSucceeds`: each single fetch may fail). It is stated for builds that can
succeed (`Promising`): with a kernel configuration, scripts in order of their
groups, sources that are there or fetched, and a patient user, who waits for
the downloads to end before starting `lfs.sh` again. Without patience two
`wget`s may spoil a file, which nothing ever repairs: that is why the condition
is there.

Every property of a passing run has a mutant of the code that breaks it, in
`PROJECT.json`; the mutated definitions stand before the ones they replace,
marked `Mutant:`.

## 4. Proofs

`ConfigCache_proofs` proves, for every tree, set of user values and semantics
that satisfies the assumptions of section 2:

* `TypeCorrect`, `CacheCoherent`, `CachedFromCached`, `FlagCorrect`: the four
  conjuncts of `Inv` are invariants;
* `CacheImplementsValues`: the cached engine implements `ConfigValues`;
* `WalkIsClosure`: the recursive walk clears what the closure says, if the items
  are finitely many.

Coherence is not inductive by itself. When a user value changes, the walk clears
the items reached through items with a cached visibility, and a cached value not
reached must not have depended on the change. The invariant therefore adds
`ReadsStayCached` (what a cached value was computed from is cached) and
`FlagIsSound` (nothing is cached without the visibility, the flag at which the
walk stops): this is the argument of the comment at 4703-4717, made complete.
The step that matters is the lemma `KeptTruth`: if some kept cache had a truth
that changed, `AcyclicAssumption` gives one that looks at no other such
attribute; all it looked at is cached (`ReadsStayCached`), not cleared (the set
cleared is closed under `_dependents`), and so unchanged; by locality it is
unchanged itself.

The walk is another matter: it clears an item before it goes to the dependents,
so a loop it enters finds items cleared whose dependents are not cleared yet.
`LoopClears` says what it does nevertheless, for any order of the dependents:
after a loop, everything it went over that was cached is cleared, what was
cleared before is still, and the dependents of all that was cleared in it are
cleared, if they were cached. The proof is an induction over the depth of calls.
`Measure` (items not cleared times one more than the items, plus the items the
loop has left) falls with every call and every iteration (`CallMeasure`,
`NextMeasure`): the bound `Depth` is never reached, and the recursion of the code
ends, through dependency loops as well.

`SaveConfig_proofs` proves `SaveTypeCorrect` and `OneFailureLosesNothing` for any
set of configurations. The strengthening says what the file can be
(`FileIsSaved`: the contents last saved, torn or missing) and where the contents
last saved are in each state of a save and of `cp -a` (`Whereabouts`), as long as
no more saves failed than the backup is good for (`Tolerated`: one, or none with a
link or a torn file as backup). The two parts need each other at `CpStart`, which
truncates the backup: a file that is neither torn nor missing has what was saved.

`SyncDeps_proofs` proves `SyncTypeCorrect` and `ChangesTouched` for any symbols,
values, remains of cut lines (`CutAssumption`) and number of crashes. `Inv` adds to the property what `auto.conf` means
(`AutoIsBuilt`: it tells what everything not touched was compiled with) and
what the two loops have settled so far (`LoadedSoFar`, `ComparedSoFar`,
`NotLoadedYet`, `SyncedMeansWritten`).

`LfsBuild_proofs` proves `BuildTypeCorrect`, `BuildRunsInOrder`,
`BuildRunsInOwnGroup` and `BuildIsOrdered` for any number of scripts, groupings,
sources and faults, from the assumptions that say what these are; the last two
speak of builds that are `Grouped`. Order needs
three facts besides that of the present walk (`WalkedIsCompleted`). A stamp may
outlive the success it stands for: a script that is run again and fails still
has its old stamp. `StampsAreRight` says that such a stamp is older than the one
before it, or comes after a script without group; `RemadeIsSeen` says that make
notices this when it comes by. With groups in order, `GroupInv` says more: no
stamp is ever outdated, the stamps are those of the first so many scripts, and
what make remakes has none. From this follow the groups (whatever an earlier
group has to make is stamped by the time the next one looks) and, step by step
(`OrderedStep`), the refinement.

`KconfigFiles_proofs` has what the sessions of both clients share. Files are
sequences read line by line, and `Merge` is a recursive function over the lines:
`MergeIs` says what it is, `MergeKeeps` is the induction over the lines, from
which come the types of a load and `LoadAlike`: two loads of one file in step
leave the same user values, up to the selection of a choice that the file puts at
m. Induction over numbers is done with `WFMin` of
`WellFoundedInduction` (`LeastNumber`, `NumberInduction`), and functions that
are defined by recursion are built from their finite parts
(`RecursiveFunction`), since the library's theorems for both take an operator as
a parameter. The other half are the attributes: their types, that they
depend on the user values of what they look at only (`SameAttributes`, by
induction over ranks), and that they are the same under user values that differ
in the old selection of choices which are not in y mode (`AlikeUsersSame`).
`RankedFunction` says that functions along ranks or parents, like `ChoicesIn`, are
what they say.

The second part is about writing and loading again. A file is given by the
symbols that were wanted in it; `Suffices` says that those it lacks can be derived.
What loading it leaves (`ReloadIs`) is by induction over the lines: each symbol has
the value it was written with, or no user value if it is not in the file or has
none that `set_value()` takes; the mode of a choice is that of its symbols.
`ReloadKeeps` is the induction over the ranks. It carries the values of all symbols
and the visibilities of all items, except of the symbols of a choice whose mode is
lost (`Lost`): all of them are at n before and after, but why they are may change.
A bool or tristate symbol comes back at its value although its user value may have
been another one (`TriKept`), an int symbol although its default was clamped
(`StrKept`), the selection of a choice from the one line at y, or, left out, from
its defaults (`ChoiceSymbolKept`).

`KconfigInit_proofs` proves for all files, of any length, with any statements and any
nesting:

* `FilesAreInOrder`: the tree given to `_finalize_tree()` is that of the files. The
  code has no such tree before the end: a node is linked to the one before it when it
  is complete, `next` of a block is for a while the pointer to its first child, and
  the last node of a block points to what was there before until the block is closed.
  The invariant (`ParseInv`) says which pointers are done: of a block that is open,
  `next` points to the first of its complete nodes, if any (`HeadOK`); a node that is
  complete points to the next complete one of its block, and the last of them says
  nothing while the block is open (`NextOK`); of the calls of `_parse_block()` that
  read one block in several files, the innermost one knows the last node (`PrevOK`,
  `Tip`); and a block that was left is not entered again (`BlocksAreLeft`);
* `PromptsMeetTheFiles`: `PromptsMeetRequirements`, of any set of expressions that is
  closed under `&&` and in which `n`, `y` and `&&` have their meaning
  (`Expressions`, `MeansConjunction`). `_propagate_deps()` looks at the node and the
  one around it only; what that adds up to is by induction along the nodes
  (`DependenciesArePropagated`): the dependency of a node is the least of what is
  asked from the next choice on (`FromChoice`), its `visibility` the least of all
  menus around it.

It proves for every finite graph of symbols and choices:

* `SearchTypeCorrect` and, from the same invariant, `ReportedLoopsAreLoops`: each
  call on the stack was entered from the one below it (`LinkedTo`), so what
  `_found_dep_loop()` collects from the item met again is a circle (`FoundLoop`).
  It is no false alarm either: evaluation goes round in it (`CircleGoesRound`), in
  the values of its items and the visibilities of those that depend on a symbol. A
  choice and a symbol of it would be a circle in which it does not; that the search
  never turns back between the two is one more part of the invariant (`NoWayBack`);
* `AcceptedCanBeEvaluated`: `LoopsAreFound` with its two exceptions, and with no
  others.

The invariant (`SearchInvariant`) has the usual two facts of a depth-first search:
what is done leads to what is done only, and no part of it goes round
(`SearchedOK`). Neither holds here as it stands. A symbol entered from its choice
is done before the choice is, and does not go back to it; a choice entered from a
symbol is done before that symbol, which it does not go to. The first is why
nothing is said of the way from a symbol to its choice. The second is an exception
of the invariant: the symbol is next to be done, and what depends on it is done
already and closed (`Separate`), so that returning from it closes no circle
(`ReturnSearched`). Of a simple choice the invariant says more (`SimpleDone`):
neither symbol leads to the other but through the choice. With all symbols covered
(`SymbolsCovered`), an accepted graph is without circles, the ways from symbols to
their choices left out (`AcceptedIsAcyclic`).

What is left is about attributes and no longer about the search. In a smallest
endless set each attribute is the only one that some other looks at (`OnlyRead`).
There is a selection in it that looks at the visibility of a symbol, since
otherwise its items would go round in a graph without circles (`LooksIntoSome`);
the way on from that symbol comes back to the selection by another symbol of the
choice, so the choice is entangled (`LooksIntoEntangled`), and not all choices it
comes by in this way are simple (`NotAllSimple`).

`KconfigSession_proofs` proves for every tree without dependency loops, every
way to evaluate expressions part by part, and all edits and files:

* `SessionTypeCorrect`, with the invariant `Typed`, on which the others rest;
* `IntsStayInRange`, `NothingIsMWithoutModules` and `ChoicesHaveOneSelection`,
  which hold of the attributes under any user values;
* `AssignableIsTaken`: `assignable`, `tri_value` and `visibility` are computed by
  three separate pieces of code; the proof goes through the cases of select,
  imply, visibility and type, after showing that setting an item changes nothing
  that its own visibility, select and imply look at (lower ranks);
* `LoadsIgnorePastValues`: by `LoadAlike`, then by induction over ranks, where the
  one difference that may be left (the old selection of a choice at m) is never
  looked at unless m is promoted;
* `ValuesSurviveReload`, for trees where `ModesAreSaved`: what `write_config()`
  wrote gives all values back, in this session and in a new one. The exception in
  the property is a default above the visibility (section 6). Without the
  hypothesis it is false: a symbol that depends on a choice and not on a symbol
  in it sees a mode that is in no line;
* `MinimalFilesSuffice`, for trees where also `MinimalTellsAll`: the same of
  `write_min_config()`. Three tests decide what is left out (`_str_default()`, the
  select, the default of the choice); `MinimalSuffices` shows that each leaves out
  only what comes back by itself. A default above the visibility is no exception
  here, since such a symbol is always left out (`HeldIsDefault`). The hypothesis is
  needed: an int symbol that is selected is left out with its user value, and so
  is the bool symbol that is the default of a tristate choice in y mode, which
  comes back in m mode.

`Menuconfig_proofs` proves for every tree, all typed values and files:

* `MenuTypeCorrect`: `StateType` says besides `TypeOK` that the present menu is a
  menu and everything shown a node;
* `NothingIsUnwritten`: the step that decides is a load after which
  `_needs_save()` finds nothing. Every line that saving would write then has the
  user value of its symbol, and what a load sets a symbol to is in one of the
  lines of the file (`LoadedFromFile`, by induction over the lines);
* `TogglesTakeEffect`: `AssignableIsTaken` once more, with the order of
  `assignable` in which `_change_node()` goes round;
* `QuittingLosesNothing`, for trees where `FilesTellAll`: quitting unasked gives the
  same values at the next start. The invariant is `InTheFile`: while `_conf_changed`
  is False, the file is what would be written now, or the user values are what a
  load of it left. In the first case `ReloadKeeps` gives the values; in the second
  the present user values and those of the next start come from two loads of one
  file, which `AlikeUsersSame` compares;

and, for trees that are `PlainTree`:

* `CursorStaysOnShownNode`: no key raises. The step that matters is a change of
  a value: the node the cursor is on must stay shown (`SetStaysListed`), as must
  all menus around it (`MenuIsShown`). A change cannot hide the node itself, since
  its visibility looks at lower ranks only, and its implicit menu is behind it;
* `MenusCanBeLeft`: `_leave_menu()` finds the menu it comes from in the nodes of
  the menu around, however it was entered or hidden since (`MenuListed`, by
  induction along the parents).

Conditions of nodes are where the menu needs ranks, places in the tree where it
needs order: `ParentMenu` and `ShownFor` are recursive functions along the
parents.

Only model-checked are

* the properties of `KconfigTree` (`NodesKeepOrder`, `NodesHaveLines`,
  `SubmenusNeedHead`, and the links in `TypeOK` once nodes have moved):
  `_finalize_tree()` recurses over trees and expressions, and what recursion over
  data computes for every input is out of the prover's reach. What it starts from
  is proved (`FilesAreInOrder`, `PromptsMeetTheFiles`);
* `LoopsTypeOK`, `NoFalseAlarms` and `ReadsAreDependencies`, which relate
  `LoopSearch` to the expressions of the parsed files, for the same reason. That
  what is rejected has a loop in which evaluation goes round is proved for the
  graph (`ReportedLoopsAreLoops`);
* that `KconfigSemantics` satisfies the assumptions of `ConfigCache` and
  `KconfigFiles`, and that the hypotheses on files hold, which TLC evaluates on the
  trees of the runs;
* `BuildEnds`, being a liveness property.

## 5. Not modelled

Engine: hex symbols (they are int symbols with another notation), symbols of
unknown type, `env_var` and `defconfig_list`; warnings, except where one raises;
the syntax of configuration files; `write_autoconf()` and `load_allconfig()`,
which write and read the same values in other ways; bool and tristate symbols as
default or bound of an int symbol, where their text n, m or y is no number
(`Operand` gives 0, 1 or 2, as it is in relations; no tree has such an operand);
lines, tokens, expressions
and the preprocessor of the parser, which have no state beyond one pass. A
decoding error in a configuration file leaves values half loaded; the exception
is a `KconfigError`, which `menuconfig.py` does not catch, so nothing looks at
them.

Menu: drawing, scrolling, text editing, help and the search of the jump dialog.
`_needs_save()` is modelled by what it compares. A save that fails while
`_conf_changed` is False (`S` was pressed, and the file has lines that saving would
leave out) leaves a torn file, and quitting then says that there is nothing to
save: `QuitLosesNothing` and `NothingUnwritten` leave such states out
(`saved # Gone`). Trees that are not `PlainTree`
raise an exception in the code and would violate `CursorIsOnShownNode` or
`MenuCanBeLeft`; they are left out of the instance, not of the module, and the
theorems say that these are all:

* a tristate symbol visible at m whose default is y: `_change_node()` looks y up
  in `assignable` (menuconfig.py:1584);
* a symbol with an implicit menu whose second definition has no prompt: pressing
  n in the place without prompt can hide it, and `_update_menu()` does not find it
  (menuconfig.py:1667);
* `visible if`, which is not propagated to the comments and menus in a menu
  (kconfiglib.py:3558-3562): one can jump to what is in an inner menu while the
  outer one is hidden, and `_leave_menu()` does not find the outer one
  (menuconfig.py:1174);
* a choice defined at two places, one of which is invisible: show-all mode can be
  turned off inside, and `_leave_menu()` does not find the place.

Build: preparation of directories, the copy of the kernel configuration, owners
and permissions of files and stamps, the resolution of modification times,
changes of the scripts between builds (stamps do not depend on them, so what is
stamped is not built again), `make clean`. The message "All packets have
downloaded." is printed also when files with a wrong checksum were found; nothing
reads it.

Book parsing and `blfs.py` transform text and keep no state. `os-build`, mounts,
backups and the live system are shell scripts of their own and planned below.

## 6. Disagreements found

Each of these four is a run that violates the property named.

1. `loop_in_choice`: a loop between two symbols of a choice, one of which depends
   on the other, is found by way of the choice. If the search comes to the choice
   by its condition before it comes to the symbols, both are entered with
   `ignore_choice` and left as free of loops (6444-6467, comment 6395-6398). The
   engine then accepts

       config D
               bool "d"
       choice
               prompt "c" if D
       config B
               bool "b" if A != y
       config A
               bool "a"
       endchoice

   and reading a value raises `RecursionError`; without `if D` it reports the
   loop. A third symbol does the same as the condition: if it comes first in the
   choice, the choice is entered by it, and a loop between the other two is
   accepted. `LoopsAreFound` holds with these cases excepted (`Entangled`, not
   `Simple`), and `AcceptedCanBeEvaluated` shows that there are no others.
2. `unset`: after `unset_value()`, `load_config(replace=False)` raises `KeyError`
   for a symbol the file sets (1304-1312, docstring 4502-4503).
3. `replace`: `load_config(replace=True)` does not clear the user values first, it
   unsets afterwards what the file did not set (1328-1338, docstring 1143-1145). A
   choice that the file puts at m counts as set and keeps the user selection of
   the session before; if MODULES is n in the file, m is promoted to y, and that
   selection decides which symbol is y. `LoadIgnoresPastValues` holds with this
   excepted (`PromotedChoice`).
4. `removed_symbol`: a symbol that loses its definition while still referred to
   is never flagged (1754-1768, comment 1766-1767). `ChangesAreTouched` holds
   with it excepted (`dropped`), and with symbols whose line a crash cut off or
   cut short in `auto.conf` (`lost`), as below.

Smaller ones are exceptions that properties of passing runs state:

* `LoopsAreFound` and `ReadsAreDependencies`: in a choice with a menu or a choice
  in it, whose symbols are not symbols of the outer choice, and in a choice with a
  default that is not one of its symbols (the engine only warns), dependencies are
  missed (`PlainChoices`); a loop through an inner choice is accepted, too.
* `NoFalseAlarms`: properties of choice symbols that have no effect, as the engine
  warns, still count as dependencies (`WithoutEffect`).
* `SubmenusNeedHead`: in 6269-6271 `and` binds tighter than `or`, so `sym != y`
  makes an entry part of the menu of `sym` though it is visible while `sym` is n;
  the comment at 6259-6260 names `sym != n` only.
* `AssignableIsTakenUnlessLocked`: a symbol visible at m, selected at m and
  implied at y offers m but stays at y (4642-4686, documentation 3912-3914).
* `MinReloadKeepsValues`: a symbol visible at m and selected at m is left out of
  the minimal configuration although its user value counts (1602-1604, docstring
  1564-1565).
* `LastSaveSurvives`: "When overwriting a configuration file, the old version is
  saved to <filename>.old" (menuconfig.py:58-59), but `make menuconfig` copies the
  file over the backup before each session (Makefile:20). After a save that died
  in the write, the next `make menuconfig` replaces the only good copy by the torn
  file (`overwritten`). If `configuration` is a symbolic link, `cp -a` makes
  `configuration.old` a link to the same target, so that there is no old version
  at all, and a save that dies loses the configuration (`Linked`).
* `ChangesAreTouched`: "_sync_deps() can be safely rerun if it fails before this
  point" (1703-1706) holds before the write of `auto.conf` and not in it: a symbol
  whose line is gone and that then goes to n, or whose line `CONFIG_S=10` is cut to
  `CONFIG_S=1` and that is then set to 1, is not flagged (`lost`).
* `ReloadKeepsValues`: a default above the visibility of a symbol does not survive
  saving and loading, since a user value cannot be above the visibility
  (`DefaultAboveVisibility`).

## 7. Plan

What is left, in this order:

1. A second instance of `Menuconfig` with tristate symbols and with a choice at
   two places, for the exceptions of section 5; items with several definitions in
   `MCKconfigLoops`.
2. `Install`, `ChrootMounts`, `BackupSources`: the older flow's list of packages
   with stale variables and exit status, mounts and unmounts, archives and
   directories across failures.
3. `blfs.py` and the XML traversal as pure algorithms, the latter against
   depth-first order.
4. Proofs: that `Flatten` and `RemoveIfs` keep the order of the nodes, from
   `FilesInOrder`, which needs `_finalize_tree()` as steps on the tree and not as one
   recursive operator.
