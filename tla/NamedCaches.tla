---------------------------- MODULE NamedCaches ----------------------------
(***************************************************************************)
(* How a program gets a cache by its name (config.py, load_cache_config): the *)
(* object is kept under its name for the rest of the process.  Meanwhile the  *)
(* working directory, the files and the secret key in the environment may     *)
(* change; an isolated call (wrapper.py) changes the working directory of the *)
(* whole process while its body runs.  What files and tables say is left to   *)
(* Config: here they may say anything.                                       *)
(***************************************************************************)
EXTENDS Naturals, FiniteSets, Sequences, SequencesExt

CONSTANTS
    Places,     \* directories a program works in
    WorkDir,    \* the directory an isolated call runs in
    Layouts,    \* what files there may be
    Names,      \* cache names a program asks for; NoName asks for the default
    NoName,
    KeysSet,    \* what FLECHE_SECRET_KEY may hold: sequences of keys
    Given,      \* tables a program passes to cache_from_config itself
    MaxMoves,   \* bound: changes of files, directory and environment
    MaxMade,    \* bound: caches built
    Nothing,
    DefaultNames(_, _),   \* the name that files have as default for a directory, if one
    CachesOf(_, _, _, _), \* the cache of a name in files, a directory and under keys
    Building(_, _, _)     \* the cache of a table in a directory and under keys;
                          \* no cache: an error

ASSUME NoNameIsNone == NoName # "default"

VARIABLES
    toml,      \* the files there are
    cwd,       \* the working directory of the process
    home,      \* where an isolated call that is running goes back to, or Nothing
    secret,    \* FLECHE_SECRET_KEY
    live,      \* _live_caches: a function from names to objects
    made,      \* the objects built so far, in order
    asking,    \* the names that the load under way has to intern, innermost last
    found,     \* the object it has, or Nothing
    moves,
    answers    \* ghost: answers[n]: the objects that were returned for n

envVars == <<toml, cwd, home, secret, moves>>
loadVars == <<live, made, asking, found, answers>>
configVars == <<envVars, loadVars>>

ConfigInit ==
    /\ toml \in Layouts /\ cwd \in Places /\ secret = <<>>
    /\ home = Nothing /\ moves = 0
    /\ live = [n \in {} |-> Nothing] /\ made = <<>>
    /\ asking = <<>> /\ found = Nothing
    /\ answers = [n \in Names |-> {}]

-----------------------------------------------------------------------------
(* load_cache_config(n), which calls itself for "default" and for a default  *)
(* that is named.  One thread loads (README: two that load one name at once).*)

Ask(n) ==
    /\ asking = <<>> /\ found = Nothing
    /\ asking' = <<n>>
    /\ UNCHANGED <<live, made, found, answers, envVars>>

Wanted == Last(asking)
Looks == asking # <<>> /\ found = Nothing

FindLive ==
    /\ Looks /\ Wanted \in DOMAIN live
    /\ found' = live[Wanted]
    /\ UNCHANGED <<live, made, asking, answers, envVars>>

Following(n) ==
    CASE n = "default" -> {NoName}
      [] n = NoName    -> DefaultNames(toml, cwd)
      [] OTHER         -> {}

\* A default that names itself recurses without end.
Recurse ==
    /\ Looks /\ Wanted \notin DOMAIN live
    /\ \E n \in Following(Wanted) :
         asking' = IF n \in Range(asking) THEN <<>> ELSE Append(asking, n)
    /\ UNCHANGED <<live, made, found, answers, envVars>>

\* The cache of a name that stands for itself.
Make ==
    /\ Looks /\ Wanted \notin DOMAIN live /\ Following(Wanted) = {} /\ Len(made) < MaxMade
    /\ LET caches == CachesOf(Wanted, toml, cwd, secret) IN
         \/ /\ caches = {} /\ asking' = <<>>
            /\ UNCHANGED <<made, found>>
         \/ /\ \E c \in caches : made' = Append(made, c)
            /\ found' = Len(made')
            /\ UNCHANGED asking
    /\ UNCHANGED <<live, answers, envVars>>

Returns ==
    /\ answers' = [answers EXCEPT ![Wanted] = @ \cup {found}]
    /\ found' = Nothing

\* A bug: a default that is named is kept under its own name only.
InternInnermost ==
    /\ asking # <<>> /\ found # Nothing
    /\ live' = IF Wanted \in {NoName, "default"} THEN live
               ELSE [n \in DOMAIN live \cup {Wanted} |-> IF n = Wanted THEN found ELSE live[n]]
    /\ asking' = Front(asking)
    /\ IF Len(asking) = 1 THEN Returns ELSE UNCHANGED <<answers, found>>
    /\ UNCHANGED <<made, envVars>>

\* Each name on the way is interned, the innermost first.
Intern ==
    /\ asking # <<>> /\ found # Nothing
    /\ live' = [n \in DOMAIN live \cup {Wanted} |-> IF n = Wanted THEN found ELSE live[n]]
    /\ asking' = Front(asking)
    /\ IF Len(asking) = 1 THEN Returns ELSE UNCHANGED <<answers, found>>
    /\ UNCHANGED <<made, envVars>>

-----------------------------------------------------------------------------
(* A program calls cache_from_config itself; here, before it loads any.       *)

BuildOwn(v) ==
    /\ live = [n \in {} |-> Nothing] /\ asking = <<>>
    /\ Len(made) < MaxMade
    /\ \E c \in Building(v, cwd, secret) : made' = Append(made, c)
    /\ UNCHANGED <<live, asking, found, answers, envVars>>

-----------------------------------------------------------------------------
(* The world around.                                                        *)

Moves == moves < MaxMoves /\ moves' = moves + 1

Chdir(d) ==
    /\ Moves /\ home = Nothing /\ cwd' = d
    /\ UNCHANGED <<toml, home, secret, loadVars>>

Edit(layout) ==
    /\ Moves /\ toml' = layout
    /\ UNCHANGED <<cwd, home, secret, loadVars>>

SetKeys(keys) ==
    /\ Moves /\ secret' = keys
    /\ UNCHANGED <<toml, cwd, home, loadVars>>

\* A body with isolate=True starts, and ends.
Isolate ==
    /\ Moves /\ home = Nothing
    /\ home' = cwd /\ cwd' = WorkDir
    /\ UNCHANGED <<toml, secret, loadVars>>

EndIsolated ==
    /\ home # Nothing
    /\ cwd' = home /\ home' = Nothing
    /\ UNCHANGED <<toml, secret, moves, loadVars>>

ConfigNext ==
    \/ \E n \in Names : Ask(n)
    \/ FindLive \/ Recurse \/ Make \/ Intern
    \/ \E v \in Given : BuildOwn(v)
    \/ \E d \in Places : Chdir(d)
    \/ \E layout \in Layouts : Edit(layout)
    \/ \E keys \in KeysSet : SetKeys(keys)
    \/ Isolate \/ EndIsolated

ConfigSpec == ConfigInit /\ [][ConfigNext]_configVars

-----------------------------------------------------------------------------
\* "interned ... so repeated lookups return the same instance" (config.py): a
\* name is one object for the whole life of the process, and so are the two ways
\* to ask for the default, whatever happens to the files, the working directory
\* and the keys between two loads and within one.
NamesStayOne ==
    /\ \A n \in Names : Cardinality(answers[n]) <= 1
    /\ \A n, m \in Names \cap {NoName, "default"} : Cardinality(answers[n] \cup answers[m]) <= 1
=============================================================================
