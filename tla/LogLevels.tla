----------------------------- MODULE LogLevels ------------------------------
(***************************************************************************)
(* The logger tree of python-low-level-design/logging-framework: levels    *)
(* are inherited from the nearest ancestor that has one, and each logger   *)
(* caches what it found, valid for one generation of the configuration.    *)
(* Readers take no lock: reading the generation, each step of the walk, the *)
(* second reading of a level that was found and the entry of the result are *)
(* steps of their own.  The last sections prove TreeClosed and CacheFresh.  *)
(***************************************************************************)
EXTENDS Integers, TLAPS

CONSTANTS
    Logger, Root, Parent,   \* Parent[l] is the nearest ancestor
    LevelSet,               \* levels, as numbers
    Caller, MaxGen,         \* bound on set_level calls
    None

VARIABLES
    made,       \* LogManager._loggers
    level,      \* Logger._level, None to inherit
    gen,        \* LogManager._generation
    setting,    \* a set_level between its two assignments, under the lock
    cache,      \* Logger._cache
    caller      \* calls of effective_level in progress

vars == <<made, level, gen, setting, cache, caller>>

NotCached == [gen |-> -1, level |-> 0]
Idle == [at |-> "idle", logger |-> Root, gen |-> 0, node |-> Root, level |-> 0]

\* The logger and its ancestors: the least set that has it and the parents of
\* its members.
Closed(S) == \A k \in S \ {Root} : Parent[k] \in S
Above(l) == {k \in Logger : \A S \in SUBSET Logger : l \in S /\ Closed(S) => k \in S}

\* A parent's name is a proper prefix, so that nobody is its own ancestor.
Params ==
    /\ Root \in Logger /\ Parent \in [Logger -> Logger]
    /\ \A l \in Logger \ {Root} : l \notin Above(Parent[l])
    /\ 1 \in LevelSet /\ None \notin LevelSet

Init ==
    /\ made = {Root} /\ level = [l \in Logger |-> IF l = Root THEN 1 ELSE None]
    /\ gen = 0 /\ setting = FALSE /\ cache = [l \in Logger |-> NotCached]
    /\ caller = [c \in Caller |-> Idle]
----------------------------------------------------------------------------
\* get_logger creates the missing ancestors too.
Created(l) == Above(l)

GetLogger(l) ==
    /\ l \notin made /\ made' = made \cup Created(l)
    /\ UNCHANGED <<level, gen, setting, cache, caller>>

\* _set_level: the level, then the generation; the root keeps a level.
SetLevel(l, v) ==
    /\ l \in made /\ ~setting /\ gen < MaxGen /\ (l = Root => v # None)
    /\ level' = [level EXCEPT ![l] = v] /\ setting' = TRUE
    /\ UNCHANGED <<made, gen, cache, caller>>
Bump ==
    /\ setting /\ setting' = FALSE /\ gen' = gen + 1
    /\ UNCHANGED <<made, level, cache, caller>>
----------------------------------------------------------------------------
\* effective_level: reads the generation, and walks unless the cache is of it.
EffectiveLevel(c, l) ==
    /\ caller[c].at = "idle" /\ l \in made /\ cache[l].gen # gen
    /\ caller' = [caller EXCEPT ![c] = [at |-> "walk", logger |-> l, node |-> l, gen |-> gen, level |-> 0]]
    /\ UNCHANGED <<made, level, gen, setting, cache>>

\* One step of the walk to the nearest level.
Walk(c) ==
    LET s == caller[c]
    IN  /\ s.at = "walk"
        /\ caller' = [caller EXCEPT ![c] =
              IF level[s.node] # None THEN [s EXCEPT !.at = "found"]
              ELSE [s EXCEPT !.node = Parent[s.node]]]
        /\ UNCHANGED <<made, level, gen, setting, cache>>

\* The level is read once more, and may be None by now.
ReadLevel(c) ==
    LET s == caller[c]
    IN  /\ s.at = "found"
        /\ caller' = [caller EXCEPT ![c] = [s EXCEPT !.at = "store", !.level = level[s.node]]]
        /\ UNCHANGED <<made, level, gen, setting, cache>>

Entry(s) == [gen |-> s.gen, level |-> s.level]

Store(c) ==
    /\ caller[c].at = "store"
    /\ cache' = [cache EXCEPT ![caller[c].logger] = Entry(caller[c])]
    /\ caller' = [caller EXCEPT ![c] = Idle]
    /\ UNCHANGED <<made, level, gen, setting>>

Next ==
    \/ \E l \in Logger : GetLogger(l) \/ \E v \in LevelSet \cup {None} : SetLevel(l, v)
    \/ Bump
    \/ \E c \in Caller : \/ \E l \in Logger : EffectiveLevel(c, l)
                         \/ Walk(c) \/ ReadLevel(c) \/ Store(c)

Spec == Init /\ [][Next]_vars
----------------------------------------------------------------------------
TypeOK ==
    /\ made \in SUBSET Logger /\ Root \in made
    /\ level \in [Logger -> LevelSet \cup {None}] /\ level[Root] # None
    /\ gen \in Nat /\ setting \in BOOLEAN
    /\ cache \in [Logger -> [gen : -1..gen, level : LevelSet \cup {0, None}]]
    /\ caller \in [Caller -> [at : {"idle", "walk", "found", "store"}, logger : Logger,
                              gen : 0..gen, node : Logger, level : LevelSet \cup {0, None}]]

\* The level a logger inherits: that of its nearest ancestor that has one.
Nearest(l, k) ==
    /\ k \in Above(l) /\ level[k] # None
    /\ \A m \in Above(l) : level[m] # None => m \in Above(k)
Effective(l) == level[CHOOSE k \in Logger : Nearest(l, k)]

\* effective_level: an entry of the present generation holds the level the
\* logger inherits, whichever ancestor's level was set during the walk that
\* found it: a change that set_level has made is never missed for good.
CacheFresh == \A l \in made : cache[l].gen = gen /\ ~setting => cache[l].level = Effective(l)

\* get_logger: "every logger's parent is always its real nearest ancestor".
TreeClosed == \A l \in made : Above(l) \subseteq made
----------------------------------------------------------------------------
(* The tree.                                                               *)

\* Above(l) is closed, contains l, and is the least such set.
LEMMA AboveLeast ==
    ASSUME Params, NEW l \in Logger
    PROVE  /\ l \in Above(l) /\ Above(l) \subseteq Logger /\ Closed(Above(l))
           /\ \A S \in SUBSET Logger : l \in S /\ Closed(S) => Above(l) \subseteq S
<1>1. Closed(Logger)  BY DEF Params, Closed
<1>2. Closed(Above(l))
  <2> SUFFICES ASSUME NEW k \in Above(l) \ {Root}  PROVE Parent[k] \in Above(l)  BY DEF Closed
  <2>1. k \in Logger /\ Parent[k] \in Logger  BY DEF Above, Params
  <2>2. ASSUME NEW S \in SUBSET Logger, l \in S, Closed(S)  PROVE Parent[k] \in S
    BY <2>2 DEF Above, Closed
  <2> QED  BY <2>1, <2>2 DEF Above
<1> QED  BY <1>1, <1>2 DEF Above

\* Ancestors of an ancestor are ancestors.
LEMMA AboveTransitive ==
    ASSUME Params, NEW l \in Logger, NEW k \in Above(l)
    PROVE  Above(k) \subseteq Above(l)
<1>1. k \in Logger  BY DEF Above
<1> QED  BY <1>1, AboveLeast

\* The ancestors of a logger are those of its parent, and itself.
LEMMA AboveParent ==
    ASSUME Params, NEW l \in Logger \ {Root}
    PROVE  Above(l) = {l} \cup Above(Parent[l])
<1>1. Parent[l] \in Logger  BY DEF Params
<1> DEFINE S == {l} \cup Above(Parent[l])
<1>2. S \in SUBSET Logger /\ Closed(S)  BY <1>1, AboveLeast DEF Closed
<1>3. Above(l) \subseteq S  BY <1>2, AboveLeast
<1>4. l \in Above(l) /\ Parent[l] \in Above(l)  BY AboveLeast DEF Closed
<1>5. Above(Parent[l]) \subseteq Above(l)  BY <1>4, AboveTransitive
<1> QED  BY <1>3, <1>4, <1>5

LEMMA AboveRoot == ASSUME Params PROVE Above(Root) = {Root}
<1>1. Root \in Logger /\ Closed({Root})  BY DEF Params, Closed
<1> QED  BY <1>1, AboveLeast

\* Two loggers are not ancestors of each other.
LEMMA AboveAntisymmetric ==
    ASSUME Params, NEW l \in Logger, NEW k \in Above(l), l \in Above(k)
    PROVE  k = l
<1> SUFFICES ASSUME k # l  PROVE FALSE  OBVIOUS
<1>1. CASE l = Root  BY <1>1, AboveRoot
<1>2. CASE l # Root
  <2>1. Parent[l] \in Logger  BY DEF Params
  <2>2. k \in Above(Parent[l])  BY <1>2, AboveParent
  <2>3. Above(k) \subseteq Above(Parent[l])  BY <2>1, <2>2, AboveTransitive
  <2> QED  BY <1>2, <2>3 DEF Params
<1> QED  BY <1>1, <1>2

\* There is only one nearest ancestor with a level.
LEMMA EffectiveIs ==
    ASSUME Params, NEW l \in Logger, NEW k, Nearest(l, k)
    PROVE  Effective(l) = level[k]
<1> DEFINE j == CHOOSE j \in Logger : Nearest(l, j)
<1>1. k \in Logger  BY DEF Nearest, Above
<1>2. j \in Logger /\ Nearest(l, j)  BY <1>1
<1>3. j \in Above(k) /\ k \in Above(j)  BY <1>2 DEF Nearest
<1>4. j = k  BY <1>1, <1>3, AboveAntisymmetric
<1> QED  BY <1>4 DEF Effective
----------------------------------------------------------------------------
(* The invariant.                                                          *)

\* What a call of the present generation has seen is still so, unless a
\* set_level is between its two assignments: the ancestors below its node
\* have no level, the level it found is there, and the level it read is right.
SeenStill(s) ==
    s.gen = gen =>
        /\ s.at \in {"walk", "found"} =>
              /\ s.node \in Above(s.logger)
              /\ \A m \in Above(s.logger) : level[m] # None => m \in Above(s.node)
        /\ s.at = "found" => level[s.node] # None
        /\ s.at = "store" => s.level = Effective(s.logger)
WalksOK == ~setting => \A c \in Caller : SeenStill(caller[c])

EntriesOK == ~setting => \A l \in Logger : cache[l].gen = gen => cache[l].level = Effective(l)

Inv == TypeOK /\ Closed(made) /\ WalksOK /\ EntriesOK

LEMMA InitInv == ASSUME Params, Init PROVE Inv
<1>1. TypeOK
  <2>1. made \in SUBSET Logger /\ Root \in made /\ gen \in Nat /\ setting \in BOOLEAN
    BY DEF Params, Init
  <2>2. level \in [Logger -> LevelSet \cup {None}] /\ level[Root] # None  BY DEF Params, Init
  <2>3. NotCached \in [gen : -1..gen, level : LevelSet \cup {0, None}]  BY DEF Init, NotCached
  <2>4. Idle \in [at : {"idle", "walk", "found", "store"}, logger : Logger,
                  gen : 0..gen, node : Logger, level : LevelSet \cup {0, None}]
    BY DEF Init, Idle, Params
  <2> QED  BY <2>1, <2>2, <2>3, <2>4 DEF Init, TypeOK
<1>2. Closed(made)  BY DEF Init, Closed
<1>3. WalksOK /\ EntriesOK  BY SMT DEF Params, Init, WalksOK, SeenStill, EntriesOK, NotCached, Idle
<1> QED  BY <1>1, <1>2, <1>3 DEF Inv

LEMMA StepTypes ==
    ASSUME Params, TypeOK, Next
    PROVE  TypeOK'
<1>1. ASSUME NEW l \in Logger, GetLogger(l)  PROVE TypeOK'
  <2>1. Above(l) \subseteq Logger  BY DEF Above
  <2> QED  BY <1>1, <2>1 DEF TypeOK, GetLogger, Created
<1>2. ASSUME NEW l \in Logger, NEW v \in LevelSet \cup {None}, SetLevel(l, v)  PROVE TypeOK'
  BY <1>2 DEF TypeOK, SetLevel, Params
<1>3. ASSUME Bump  PROVE TypeOK'
  <2>1. gen' \in Nat /\ -1..gen \subseteq -1..gen' /\ 0..gen \subseteq 0..gen'
    BY <1>3 DEF Bump, TypeOK
  <2>2. cache' \in [Logger -> [gen : -1..gen', level : LevelSet \cup {0, None}]]
    BY <1>3, <2>1 DEF Bump, TypeOK
  <2>3. caller' \in [Caller -> [at : {"idle", "walk", "found", "store"}, logger : Logger,
                                gen : 0..gen', node : Logger, level : LevelSet \cup {0, None}]]
    BY <1>3, <2>1 DEF Bump, TypeOK
  <2> QED  BY <1>3, <2>1, <2>2, <2>3 DEF Bump, TypeOK
<1>4. ASSUME NEW c \in Caller, NEW l \in Logger, EffectiveLevel(c, l)  PROVE TypeOK'
  BY <1>4 DEF TypeOK, EffectiveLevel
<1> DEFINE Calls == [at : {"idle", "walk", "found", "store"}, logger : Logger,
                     gen : 0..gen, node : Logger, level : LevelSet \cup {0, None}]
<1>0. caller \in [Caller -> Calls] /\ level \in [Logger -> LevelSet \cup {None}]  BY DEF TypeOK
<1>5. ASSUME NEW c \in Caller, Walk(c)  PROVE TypeOK'
  <2> DEFINE s == caller[c]
  <2>1. s \in Calls /\ Parent[s.node] \in Logger  BY <1>0 DEF Params
  <2>2. [s EXCEPT !.at = "found"] \in Calls /\ [s EXCEPT !.node = Parent[s.node]] \in Calls
    BY <2>1
  <2> HIDE DEF Calls
  <2>3. caller' \in [Caller -> Calls]  BY <1>0, <1>5, <2>2 DEF Walk
  <2> USE DEF Calls
  <2> QED  BY <1>5, <2>3 DEF TypeOK, Walk
<1>6. ASSUME NEW c \in Caller, ReadLevel(c)  PROVE TypeOK'
  <2> DEFINE s == caller[c]
             t == [s EXCEPT !.at = "store", !.level = level[s.node]]
  <2>1. s \in Calls /\ level[s.node] \in LevelSet \cup {None}  BY <1>0
  <2>2. t \in Calls  BY <2>1
  <2> HIDE DEF Calls, t
  <2>3. caller' = [caller EXCEPT ![c] = t]  BY <1>6 DEF ReadLevel, t
  <2>4. caller' \in [Caller -> Calls]  BY <1>0, <2>2, <2>3
  <2> USE DEF Calls
  <2> QED  BY <1>6, <2>4 DEF TypeOK, ReadLevel
<1>7. ASSUME NEW c \in Caller, Store(c)  PROVE TypeOK'
  <2>1. Idle \in [at : {"idle", "walk", "found", "store"}, logger : Logger,
                  gen : 0..gen, node : Logger, level : LevelSet \cup {0, None}]
    BY DEF Idle, Params, TypeOK
  <2>2. Entry(caller[c]) \in [gen : -1..gen, level : LevelSet \cup {0, None}]
    BY DEF Entry, TypeOK
  <2> QED  BY <1>7, <2>1, <2>2 DEF TypeOK, Store
<1> QED  BY <1>1, <1>2, <1>3, <1>4, <1>5, <1>6, <1>7 DEF Next

\* get_logger adds a logger with all its ancestors.
LEMMA StepClosed ==
    ASSUME Params, TypeOK, Closed(made), Next
    PROVE  Closed(made)'
<1>1. ASSUME NEW l \in Logger, GetLogger(l)  PROVE Closed(made)'
  <2>1. Closed(Above(l))  BY AboveLeast
  <2> QED  BY <1>1, <2>1 DEF GetLogger, Created, Closed
<1>2. CASE UNCHANGED made  BY <1>2 DEF Closed
<1> QED  BY <1>1, <1>2 DEF Next, SetLevel, Bump, EffectiveLevel, Walk, ReadLevel, Store

\* The walk goes on above a node without a level, and what it finds is read
\* again from the nearest ancestor that has one.  A step that begins or ends a
\* set_level leaves nothing to show: afterwards it is under way, or every call
\* is of an earlier generation.
LEMMA StepWalks ==
    ASSUME Params, TypeOK, WalksOK, Next
    PROVE  WalksOK'
<1> SUFFICES ASSUME ~setting', NEW d \in Caller, NEW s, s = caller'[d]
             PROVE  SeenStill(s)'
  BY DEF WalksOK
<1>1. CASE Bump
  <2>1. s.gen # gen'  BY <1>1 DEF Bump, TypeOK
  <2> QED  BY <2>1 DEF SeenStill
<1>2. ASSUME NEW l \in Logger, NEW v \in LevelSet \cup {None}, SetLevel(l, v)  PROVE FALSE
  BY <1>2 DEF SetLevel
<1> SUFFICES ASSUME ~setting, UNCHANGED <<level, gen>>, ~Bump
             PROVE  SeenStill(s)
  <2>1. \/ \E l \in Logger : GetLogger(l) \/ \E v \in LevelSet \cup {None} : SetLevel(l, v)
        \/ Bump
        \/ \E c \in Caller : (\E l \in Logger : EffectiveLevel(c, l)) \/ Walk(c) \/ ReadLevel(c) \/ Store(c)
    BY DEF Next
  <2>2. Bump \/ (~setting /\ UNCHANGED <<level, gen>>)
    BY <1>2, <2>1 DEF GetLogger, EffectiveLevel, Walk, ReadLevel, Store
  <2>3. ASSUME UNCHANGED <<level, gen>>, SeenStill(s)  PROVE SeenStill(s)'
    BY <2>3 DEF SeenStill, Effective, Nearest
  <2> QED  BY <1>1, <2>2, <2>3
<1>3. CASE s = caller[d]  BY <1>3 DEF WalksOK
<1>4. ASSUME NEW l \in Logger, EffectiveLevel(d, l)
      PROVE  SeenStill(s)
  <2>1. s.at = "walk" /\ s.logger = l /\ s.node = l  BY <1>4 DEF EffectiveLevel, TypeOK
  <2> QED  BY <2>1, AboveLeast DEF SeenStill
<1>5. ASSUME Walk(d), s.gen = gen  PROVE SeenStill(s)
  <2> DEFINE t == caller[d]
  <2>1. t.node \in Logger /\ t.logger \in Logger  BY DEF TypeOK
  <2>2. /\ t.at = "walk" /\ t.gen = gen
        /\ s = IF level[t.node] # None THEN [t EXCEPT !.at = "found"]
                        ELSE [t EXCEPT !.node = Parent[t.node]]
    BY <1>5 DEF Walk, TypeOK
  <2>3. /\ t.node \in Above(t.logger)
        /\ \A m \in Above(t.logger) : level[m] # None => m \in Above(t.node)
    BY <2>2 DEF WalksOK, SeenStill
  <2>4. CASE level[t.node] # None
    <3>1. s.at = "found" /\ s.node = t.node /\ s.logger = t.logger
      BY <2>2, <2>4 DEF TypeOK
    <3> QED  BY <2>3, <2>4, <3>1 DEF SeenStill
  <2>5. CASE level[t.node] = None
    <3>1. s.at = "walk" /\ s.node = Parent[t.node] /\ s.logger = t.logger
      BY <2>2, <2>5 DEF TypeOK
    <3>2. t.node # Root  BY <2>5 DEF TypeOK
    <3>3. Above(t.node) = {t.node} \cup Above(Parent[t.node])  BY <2>1, <3>2, AboveParent
    <3>4. Parent[t.node] \in Above(t.node)
      BY <2>1, <3>2, AboveLeast DEF Closed
    <3>5. Above(t.node) \subseteq Above(t.logger)  BY <2>1, <2>3, AboveTransitive
    <3> QED  BY <2>3, <2>5, <3>1, <3>3, <3>4, <3>5 DEF SeenStill
  <2> QED  BY <2>4, <2>5
<1>6. ASSUME ReadLevel(d), s.gen = gen  PROVE SeenStill(s)
  <2> DEFINE t == caller[d]
  <2>1. t.logger \in Logger  BY DEF TypeOK
  <2>2. t.at = "found" /\ s = [t EXCEPT !.at = "store", !.level = level[t.node]]
    BY <1>6 DEF ReadLevel, TypeOK
  <2>3. /\ t.gen = gen /\ s.at = "store"
        /\ s.level = level[t.node] /\ s.logger = t.logger
    BY <1>6, <2>2 DEF TypeOK
  <2>4. Nearest(t.logger, t.node)  BY <2>2, <2>3 DEF WalksOK, SeenStill, Nearest
  <2> QED  BY <2>1, <2>3, <2>4, EffectiveIs DEF SeenStill
<1>7. ASSUME Store(d)  PROVE SeenStill(s)
  BY <1>7 DEF Store, Idle, TypeOK, SeenStill
<1>8. \/ s = caller[d] \/ s.gen # gen \/ (\E l \in Logger : EffectiveLevel(d, l))
      \/ Walk(d) \/ ReadLevel(d) \/ Store(d)
  BY DEF Next, GetLogger, SetLevel, Bump, EffectiveLevel, Walk, ReadLevel, Store, TypeOK
<1> QED  BY <1>3, <1>4, <1>5, <1>6, <1>7, <1>8 DEF SeenStill

\* An entry is made by a call that has read the right level.
LEMMA StepEntries ==
    ASSUME Params, TypeOK, WalksOK, EntriesOK, Next
    PROVE  EntriesOK'
<1> SUFFICES ASSUME ~setting', NEW l \in Logger, cache'[l].gen = gen'
             PROVE  cache'[l].level = Effective(l)'
  BY DEF EntriesOK
<1>1. CASE Bump
  <2>1. cache'[l].gen # gen'  BY <1>1 DEF Bump, TypeOK
  <2> QED  BY <2>1
<1>2. CASE \E k \in Logger : \E v \in LevelSet \cup {None} : SetLevel(k, v)
  BY <1>2 DEF SetLevel
<1>3. ASSUME ~setting, level' = level, gen' = gen
      PROVE  Effective(l)' = Effective(l)
  BY <1>3 DEF Effective, Nearest
<1>4. ASSUME NEW c \in Caller, Store(c)  PROVE cache'[l].level = Effective(l)'
  <2> DEFINE s == caller[c]
  <2>1. /\ ~setting /\ level' = level /\ gen' = gen
        /\ cache' = [cache EXCEPT ![s.logger] = Entry(s)] /\ s.at = "store"
    BY <1>4 DEF Store
  <2>2. CASE l = s.logger
    <3>1. cache'[l] = Entry(s)  BY <2>1, <2>2 DEF TypeOK
    <3>2. s.gen = gen /\ cache'[l].level = s.level  BY <2>1, <3>1 DEF Entry
    <3>3. s.level = Effective(s.logger)  BY <2>1, <3>2 DEF WalksOK, SeenStill
    <3> QED  BY <1>3, <2>1, <2>2, <3>2, <3>3
  <2>3. CASE l # s.logger
    <3>1. cache'[l] = cache[l]  BY <2>1, <2>3 DEF TypeOK
    <3> QED  BY <1>3, <2>1, <3>1 DEF EntriesOK
  <2> QED  BY <2>2, <2>3
<1>5. CASE ~setting /\ UNCHANGED <<level, gen, cache>>
  BY <1>3, <1>5 DEF EntriesOK
<1>6. \/ \E k \in Logger : GetLogger(k) \/ \E v \in LevelSet \cup {None} : SetLevel(k, v)
      \/ Bump
      \/ \E c \in Caller : (\E k \in Logger : EffectiveLevel(c, k)) \/ Walk(c) \/ ReadLevel(c) \/ Store(c)
  BY DEF Next
<1>7. \/ Bump \/ (\E k \in Logger : \E v \in LevelSet \cup {None} : SetLevel(k, v))
      \/ (\E c \in Caller : Store(c)) \/ (~setting /\ UNCHANGED <<level, gen, cache>>)
  BY <1>6 DEF GetLogger, EffectiveLevel, Walk, ReadLevel
<1> QED  BY <1>1, <1>2, <1>4, <1>5, <1>7

LEMMA InvAlways == ASSUME Params PROVE Spec => []Inv
<1>1. Init => Inv  BY InitInv
<1>2. Inv /\ [Next]_vars => Inv'
  <2> SUFFICES ASSUME Inv, [Next]_vars  PROVE Inv'  OBVIOUS
  <2>1. CASE Next  BY <2>1, StepTypes, StepClosed, StepWalks, StepEntries DEF Inv
  <2>2. CASE UNCHANGED vars
    <3>1. TypeOK' /\ Closed(made)'  BY <2>2 DEF vars, Inv, TypeOK, Closed
    <3>2. ASSUME NEW l  PROVE Effective(l)' = Effective(l)  BY <2>2 DEF vars, Effective, Nearest
    <3>3. EntriesOK'  BY <2>2, <3>2 DEF vars, Inv, EntriesOK
    <3>4. ASSUME NEW s, SeenStill(s)  PROVE SeenStill(s)'  BY <2>2, <3>2, <3>4 DEF vars, SeenStill
    <3>5. WalksOK'  BY <2>2, <3>4 DEF vars, Inv, WalksOK
    <3> QED  BY <3>1, <3>3, <3>5 DEF Inv
  <2> QED  BY <2>1, <2>2
<1> QED  BY <1>1, <1>2, PTL DEF Spec

\* For any tree and any number of callers, an entry of the cache that passes
\* for present is the level the logger inherits, although nobody who fills the
\* cache takes the lock that set_level takes.
THEOREM CacheFreshAlways == ASSUME Params PROVE Spec => []CacheFresh
<1>1. Inv => CacheFresh  BY DEF Inv, TypeOK, EntriesOK, CacheFresh
<1> QED  BY <1>1, InvAlways, PTL

\* A logger that exists has all its ancestors, whatever get_logger was asked for.
THEOREM TreeClosedAlways == ASSUME Params PROVE Spec => []TreeClosed
<1>1. ASSUME Params, Inv  PROVE TreeClosed
  <2> SUFFICES ASSUME NEW l \in made  PROVE Above(l) \subseteq made  BY DEF TreeClosed
  <2> QED  BY <1>1, AboveLeast DEF Inv, TypeOK
<1> QED  BY <1>1, InvAlways, PTL
=============================================================================
