----------------------------- MODULE ConfigCache -----------------------------
(***************************************************************************)
(* The cache of libs/menu/kconfiglib.py.  Symbol and Choice keep the       *)
(* results of their properties in _cached_vis, _cached_tri_val,            *)
(* _cached_str_val, _cached_assignable and _cached_selection.  A property  *)
(* that is read fills its cache from other properties, and so from their   *)
(* caches; a change of a user value clears the caches of the items that    *)
(* may depend on it, walking the _dependents sets and stopping at every    *)
(* item whose _cached_vis is None.                                         *)
(*                                                                         *)
(* What a property computes is a parameter here (Eval, Reads): the         *)
(* assumptions below are all the cache needs of it.  KconfigSemantics      *)
(* translates the properties and the _dependents sets, and the runs of     *)
(* MCConfigCache evaluate the assumptions on Kconfig trees.                *)
(***************************************************************************)
EXTENDS ConfigItems

CONSTANTS
  Cells, NoRead, Truth(_, _),   \* as in ConfigValues
  Uncached,         \* the None of a _cached_ attribute
  Prompted,         \* the symbols with a prompt on some menu node
  Globals,          \* {Kconfig.modules}, or {} if MODULES is not defined
  Dependents,       \* Dependents[i] is i._dependents
  Values,           \* Values[c]: the values attribute c can take
  Placeholder,      \* Placeholder[c]: one of them
  Uses(_),          \* Uses(c): the items whose user value property c looks at
  MayRead(_),       \* MayRead(c): the attributes property c may look at
  Eval(_, _, _),    \* Eval(c, u, v): property c, given user values and attributes
  Reads(_, _, _)    \* Reads(c, u, v): the attributes it looks at to compute that

Owner(c) == c[1]

\* _cached_vis doubles as the flag that the item has cached values at all.
Flag(i) == <<i, "vis">>

(***************************************************************************)
(* The arguments Eval and Reads are given: the user values the property    *)
(* looks at and a value for every attribute it may look at.                *)
(***************************************************************************)
Inputs(c, u) == [i \in Uses(c) |-> u[i]]

Env(c, v) == [d \in MayRead(c) |-> v[d]]

Inputs0(c) == {[i \in Uses(c) |-> u[i]] : u \in Users}

Envs(c) == {v \in [MayRead(c) -> UNION {Values[d] : d \in MayRead(c)}] :
              \A d \in DOMAIN v : v[d] \in Values[d]}

TruthAt(u) == [c \in Cells |-> Truth(c, u)]

\* What property c looks at when every cache is right.
TrueReads(c, u) == Reads(c, Inputs(c, u), Env(c, TruthAt(u)))
-----------------------------------------------------------------------------
ASSUME ShapeAssumption ==
  /\ Symbols \cap Choices = {}
  /\ NoChoice \notin Choices
  /\ ChoiceOf \in [Symbols -> Choices \cup {NoChoice}]
  /\ NoSym \notin Symbols
  /\ Untouched \in Users
  /\ \A c \in Choices :
       UserVals[c] = [mode : {x.mode : x \in UserVals[c]},
                      sel : {s \in Symbols : ChoiceOf[s] = c} \cup {NoSym}]
  /\ \A s \in Symbols : NoUser \in UserVals[s]
  /\ Prompted \subseteq Symbols
  /\ Globals \subseteq Symbols
  /\ Dependents \in [Items -> SUBSET Items]

ASSUME CellAssumption ==
  /\ \A i \in Items : Flag(i) \in Cells
  /\ \A c \in Cells : /\ Owner(c) \in Items
                      /\ Uncached \notin Values[c]
                      /\ Placeholder[c] \in Values[c]
                      /\ MayRead(c) \subseteq Cells
                      /\ Uses(c) \subseteq Items

\* A property is a function of the attributes it looks at: what it does not
\* look at changes neither its value nor what it looks at.  Every property
\* but the visibility itself looks at the visibility of its item.
ASSUME LocalityAssumption ==
  \A c \in Cells : \A u \in Inputs0(c), v \in Envs(c) :
    /\ Eval(c, u, v) \in Values[c]
    /\ Reads(c, u, v) \subseteq MayRead(c)
    /\ c # Flag(Owner(c)) => Flag(Owner(c)) \in Reads(c, u, v)
    /\ \A w \in Envs(c) :
         (\A d \in Reads(c, u, v) : w[d] = v[d])
           => Eval(c, u, w) = Eval(c, u, v) /\ Reads(c, u, w) = Reads(c, u, v)

\* No property can end up looking at itself.
ASSUME AcyclicAssumption ==
  \A T \in SUBSET Cells : T # {} => \E c \in T : MayRead(c) \cap T = {}

\* Truth solves the equations that Eval states.
ASSUME TruthAssumption ==
  \A u \in Users : \A c \in Cells :
    /\ Truth(c, u) \in Values[c]
    /\ Truth(c, u) = Eval(c, Inputs(c, u), Env(c, TruthAt(u)))

\* Kconfig._build_dep() and _add_choice_deps() find every dependency, except
\* those on MODULES; only a symbol itself looks at its user value.
ASSUME DependentsAssumption ==
  /\ \A c \in Cells :
       /\ \A d \in MayRead(c) : \/ Owner(d) = Owner(c)
                                \/ Owner(d) \in Globals
                                \/ Owner(c) \in Dependents[Owner(d)]
       /\ \A i \in Uses(c) : \/ i = Owner(c)
                             \/ i \in Choices /\ Owner(c) \in Dependents[i]
  /\ \A s \in Symbols : ChoiceOf[s] # NoChoice => s \in Dependents[ChoiceOf[s]]

\* A user value has no effect on a symbol without a prompt.
ASSUME PromptlessAssumption ==
  \A u \in Users, s \in Symbols \ Prompted :
    \A x \in UserVals[s] :
      LET w == [u EXCEPT ![s] = x]
      IN  /\ ChoiceOf[s] = NoChoice
          /\ \A c \in Cells : Truth(c, w) = Truth(c, u) /\ TrueReads(c, w) = TrueReads(c, u)
-----------------------------------------------------------------------------
VARIABLES
  user,   \* the user values
  cache,  \* the _cached_ attributes
  out     \* the attribute read by the latest operation, and its value

vars == <<user, cache, out>>

IsCached(c) == cache[c] # Uncached

HasCached(i) == IsCached(Flag(i))

Init == /\ user = Untouched
        /\ cache = [c \in Cells |-> Uncached]
        /\ out = NoRead

\* The attributes as a property sees them; it looks at cached ones only.
View == [c \in Cells |-> IF IsCached(c) THEN cache[c] ELSE Placeholder[c]]

\* A cached property is read.
Hit(c) == /\ IsCached(c)
          /\ out' = [cell |-> c, val |-> cache[c]]
          /\ UNCHANGED <<user, cache>>

(***************************************************************************)
(* A property without a cached value is read.  The properties it looks at  *)
(* have just been read themselves, by Hit or Fill steps.                   *)
(***************************************************************************)
Fill(c) == LET u == Inputs(c, user)
               v == Env(c, View)
               x == Eval(c, u, v)
           IN  /\ ~IsCached(c)
               /\ \A d \in Reads(c, u, v) : IsCached(d)
               /\ cache' = [cache EXCEPT ![c] = x]
               /\ out' = [cell |-> c, val |-> x]
               /\ UNCHANGED user

(***************************************************************************)
(* _rec_invalidate(): the items reached from item i through _dependents,   *)
(* going on only at items with cached values; everything once MODULES is   *)
(* reached.                                                                *)
(***************************************************************************)
StopSets == {S \in SUBSET Items : \A j \in S \ Globals :
                                    \A k \in Dependents[j] : HasCached(k) => k \in S}

Reached(i) == {k \in Items : \A S \in StopSets : i \in S => k \in S}

\* Mutant: the check for MODULES is missing.
ReachedOnly(i) == Reached(i)

Invalidated(i) == LET R == Reached(i) IN IF R \cap Globals = {} THEN R ELSE Items

\* Mutant: only the visibilities are cleared.
RecInvalidateFlags(i) ==
  \E gone \in {Invalidated(i)} :
      cache' = [c \in Cells |-> IF \E k \in gone : c = Flag(k) THEN Uncached ELSE cache[c]]

RecInvalidate(i) ==
  \E gone \in {Invalidated(i)} :
      cache' = [c \in Cells |-> IF Owner(c) \in gone THEN Uncached ELSE cache[c]]

\* Mutant: the symbol is cleared, the items that depend on it are not.
InvalidateIfHasPrompt(s) ==
  cache' = [c \in Cells |-> IF s \in Prompted /\ Owner(c) = s THEN Uncached ELSE cache[c]]

RecInvalidateIfHasPrompt(s) ==
  IF s \in Prompted THEN RecInvalidate(s) ELSE UNCHANGED cache

\* Symbol.set_value() with a value well formed for the type of s.
SetValue(s, x) ==
  /\ x # NoUser
  /\ x = user[s] => ChoiceOf[s] # NoChoice
  /\ user' = WithValue(user, s, x)
  /\ IF SelectsChoice(s, x) THEN RecInvalidate(ChoiceOf[s])
                            ELSE RecInvalidateIfHasPrompt(s)
  /\ out' = NoRead

\* Symbol.unset_value()
UnsetValue(s) ==
  /\ user[s] # NoUser
  /\ user' = WithoutValue(user, s)
  /\ RecInvalidateIfHasPrompt(s)
  /\ out' = NoRead

\* Mutant: the symbols of the choice are not invalidated.
SetModeOnly(c, m) ==
  /\ m \notin {NoUser, user[c].mode}
  /\ user' = WithMode(user, c, m)
  /\ cache' = [d \in Cells |-> IF Owner(d) = c THEN Uncached ELSE cache[d]]
  /\ out' = NoRead

\* Choice.set_value()
SetMode(c, m) ==
  /\ m \notin {NoUser, user[c].mode}
  /\ user' = WithMode(user, c, m)
  /\ RecInvalidate(c)
  /\ out' = NoRead

\* Choice.unset_value()
UnsetChoice(c) ==
  /\ user[c] # UntouchedChoice
  /\ user' = WithoutMode(user, c)
  /\ RecInvalidate(c)
  /\ out' = NoRead

Next ==
  \/ \E c \in Cells : Hit(c) \/ Fill(c)
  \/ \E s \in Symbols : UnsetValue(s) \/ \E x \in UserVals[s] : SetValue(s, x)
  \/ \E c \in Choices : UnsetChoice(c) \/ \E x \in UserVals[c] : SetMode(c, x.mode)

Spec == Init /\ [][Next]_vars
-----------------------------------------------------------------------------
\* User values are well formed, and a cache holds None or a value of its attribute.
TypeOK == /\ user \in Users
          /\ cache = [c \in Cells |-> cache[c]]
          /\ \A c \in Cells : IsCached(c) => cache[c] \in Values[c]

(***************************************************************************)
(* A cached attribute is what the property would compute from scratch      *)
(* under the present user values (kconfiglib.py:4703-4717 argues that      *)
(* stopping the invalidation at items with _cached_vis None is safe).      *)
(***************************************************************************)
Coherent == \A c \in Cells : IsCached(c) => cache[c] = Truth(c, user)

(***************************************************************************)
(* The reason the argument at kconfiglib.py:4705-4709 works: whatever an   *)
(* item with cached values was computed from is still cached itself, so a  *)
(* walk along _dependents never stops short of a stale value.              *)
(***************************************************************************)
ReadsStayCached ==
  \A c \in Cells : IsCached(c) => \A d \in TrueReads(c, user) : IsCached(d)

\* _cached_vis is a sound flag: no other cache of the item is filled without it.
FlagIsSound == \A c \in Cells : IsCached(c) => HasCached(Owner(c))

Inv == TypeOK /\ Coherent /\ ReadsStayCached /\ FlagIsSound

Abstract == INSTANCE ConfigValues

(***************************************************************************)
(* The cached engine implements the cache-free one: a client that reads    *)
(* properties and sets values cannot tell that there are caches.           *)
(***************************************************************************)
ImplementsConfigValues == Abstract!Spec
=============================================================================
